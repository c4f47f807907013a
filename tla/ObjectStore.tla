---------------------------- MODULE ObjectStore ----------------------------
(***************************************************************************)
(* What s3storage and azstorage (component/s3storage, component/azstorage) *)
(* keep in the cloud and answer about names.  The store has objects only:  *)
(* a directory is there when it has a marker object or when some object    *)
(* lies below it.  A name is a sequence of path elements, the root <<>>,   *)
(* and a name is used for a file or for a directory, never for both.       *)
(*                                                                         *)
(* Every call of the storage component ends in updateConnectionState: one  *)
(* that reports that it cannot reach the cloud takes the component offline *)
(* and cancels the context of all calls; while it is offline the           *)
(* context of new calls is cancelled too, and only the health check, which *)
(* has a context of its own, brings it back.                               *)
(***************************************************************************)
EXTENDS Integers, Sequences, FiniteSets, SequencesExt, FiniteSetsExt

CONSTANTS
    Files, Dirs,     \* names of files and, the root excluded, of directories
    MaxSize,         \* bound on the size of a file
    PageSize         \* objects a listing returns at a time

Root == <<>>
Paths == Files \cup Dirs
Tree == Paths \cup {Root}
Sizes == 1 .. MaxSize
Absent == 0          \* the "size" of a file that is not there

Parent(p) == Front(p)
Ancestors(p) == {a \in Tree : IsStrictPrefix(a, p)}
Below(d) == {p \in Paths : IsStrictPrefix(d, p)}

\* strings.Replace(path, src, dst, 1) for a path at or below src.
Moved(p, src, dst) == dst \o SubSeq(p, Len(src) + 1, Len(p))

ASSUME StoreAssumption ==
    /\ Files \cap Dirs = {} /\ Root \notin Paths
    /\ IsFiniteSet(Paths) /\ Paths \subseteq Seq(UNION {Range(p) : p \in Paths})
    /\ \A p \in Paths : \A a \in Ancestors(p) : a \in Dirs \cup {Root}
    /\ \A p \in Paths : Parent(p) \in Tree
    /\ MaxSize \in Nat \ {0} /\ PageSize \in Nat \ {0}

VARIABLES
    objs,            \* the size of each object, or Absent
    marks,           \* directories that have a marker object
    up               \* firstOffline = nil

storeVars == <<objs, marks, up>>

(* What the store answers.  o and m are the objects and the markers.       *)

\* getDirectoryAttr: the marker, or else one object below.
HasFile(o, f) == o[f] # Absent
HasDir(o, m, d) == d \in m \/ \E p \in Below(d) : (p \in Files /\ HasFile(o, p)) \/ p \in m

Has(o, m, p) == IF p \in Files THEN HasFile(o, p) ELSE p = Root \/ HasDir(o, m, p)

\* List with the delimiter "/": the files and the common prefixes of d.
List(o, m, d) == {p \in Paths : Parent(p) = d /\ Has(o, m, p)}

\* Objects at any depth, for the flat listing and for the recursion of
\* RenameDirectory.
Objects(o, d) == {f \in Below(d) \cap Files : o[f] # Absent}

(* What requests do to it.                                                 *)

PutObject(o, f, size) == [o EXCEPT ![f] = size]
DeleteObject(o, f) == [o EXCEPT ![f] = Absent]
CopyObject(o, f, g) == [o EXCEPT ![g] = o[f]]

\* A page of a listing of objects: all of them, or PageSize and a marker.
Pages(o, d) ==
    LET all == Objects(o, d)
    IN  IF Cardinality(all) <= PageSize THEN {all} ELSE kSubset(PageSize, all)

(* The connection.                                                         *)

\* updateConnectionState: a request answered, or could not reach the cloud.
Reached == up' = TRUE
Unreached == up' = FALSE

\* CloudConnected from the retry ticker, once timeToRetry and ConnectionOkay
\* agree.
Reconnect == ~up /\ up' = TRUE /\ UNCHANGED <<objs, marks>>
=============================================================================
