---------------------------- MODULE MCMetaManage ----------------------------
(* MetaManage on two rows of two values.                                   *)
EXTENDS MetaManage

MCValues == {0, 1}
NoFaults == {}
ExecFaults == {"load", "exec"}
CommitFaults == {"commit"}
BeginOrCommitFaults == {"begin", "commit"}
=============================================================================
