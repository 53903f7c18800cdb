----------------------------- MODULE MCJFPlate ------------------------------
(* JFPlate with a random code that is full of the bytes of a header.       *)
EXTENDS JFPlate

MCRandomCode == [k \in 1 .. 16 |-> IF k % 2 = 1 THEN 234 ELSE 174]
=============================================================================
