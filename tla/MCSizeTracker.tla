--------------------------- MODULE MCSizeTracker ---------------------------
(* Instances of SizeTracker for TLC.                                       *)
EXTENDS SizeTracker, TLC

CONSTANTS m1, m2, a, b, h1, h2

TwoMounts == {m1, m2}
TwoFiles == {a, b}
TwoHandlers == {h1, h2}
OneEach == (h1 :> m1) @@ (h2 :> m2)

\* Two mounts, each with a file of its own.
Sharing == [
    owns |-> (m1 :> {a}) @@ (m2 :> {b}), ops |-> {"copy", "delete"}, capacity |-> 0,
    drift |-> {}, attrErrors |-> FALSE, syncErrors |-> FALSE, tool |-> FALSE]

\* One mount with both files.
Renaming == [Sharing EXCEPT !.owns = (m1 :> {a, b}) @@ (m2 :> {}),
                            !.ops = Ops]

\* One mount that writes under a hard limit.
Limited == [Renaming EXCEPT !.ops = {"write"}, !.capacity = 3]

\* A journal that is wrong, and attributes and syncs that fail.
Failing == [Renaming EXCEPT !.drift = {0, 3}, !.ops = {"delete", "commit"},
    !.attrErrors = TRUE, !.syncErrors = TRUE]

\* The command repairs a wrong journal while a mount syncs, starts and stops.
Repairing == [Renaming EXCEPT !.drift = {0, 3}, !.ops = {}, !.syncErrors = TRUE,
    !.tool = TRUE]

AllSettings == {Sharing, Renaming, Limited, Failing, Repairing}
=============================================================================
