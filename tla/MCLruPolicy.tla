---------------------------- MODULE MCLruPolicy ----------------------------
(* Instances of LruPolicy for TLC.                                         *)
EXTENDS LruPolicy

CONSTANTS a, b, c1

TwoNames == {a, b}
OneName == {a}
OtherName == {b}
NoName == {}
TwoNodes == {<<a, 1>>, <<a, 2>>}
ThreeNodes == {<<a, 1>>, <<a, 2>>, <<b, 1>>}
OneCaller == {c1}
=============================================================================
