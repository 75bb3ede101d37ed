------------------------------ MODULE MCBridge -------------------------------
(* Small instances of Bridge for TLC. *)
EXTENDS Bridge, TLC

CONSTANTS s1, s2, r1, r2

MCEmptyStore ==
    [coll |-> [n \in {"d1"} \X {"c1", "c2"} |-> None], docs |-> {}, idx |-> {}]

In(c) == [dbname |-> "d1", collectionname |-> c]
Post(op, class, body) ==
    [method |-> "POST", operation |-> op, class |-> class, content |-> body]

Insert == Post("create", "document", In("c1") @@ [json_data |-> "a"])
DropColl == Post("delete", "collection", In("c1"))
Find   == Post("read", "document", In("c1"))

\* Commands that depend on each other and may be under way in a crash.
CrashRequests == {Insert, DropColl}

\* With a read, which has several steps, and a body that is rejected.
FaultRequests == {Insert, DropColl, Find, Post("delete", "document", NotJson)}

Symmetry == Permutations({r1, r2})
=============================================================================
