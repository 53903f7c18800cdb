-------------------------- MODULE MCSingleInstance --------------------------
(* SingleInstance with four processes, which are interchangeable.          *)
EXTENDS SingleInstance, TLC

Perms == Permutations(Procs)
=============================================================================
