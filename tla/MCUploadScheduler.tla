------------------------- MODULE MCUploadScheduler -------------------------
(* Instances of UploadScheduler for TLC.                                   *)
EXTENDS UploadScheduler

CONSTANTS w1, w2, op1, op2, c1, c2, c3

TwoJobs == {w1, w2}
OneOp == {op1}
TwoOps == {op1, op2}
ThreeChannels == {c1, c2, c3}
=============================================================================
