----------------------------- MODULE MongoStore -----------------------------
(***************************************************************************)
(* What the program sees of the MongoDB server: the commands that          *)
(* INCLUDE/DB/MongoInterface.h sends, as operators on a store value.       *)
(* The server is not part of the repository; each command is modelled by   *)
(* the effect the calling code relies on.                                  *)
(*                                                                         *)
(* A store is a record                                                     *)
(*   coll : namespace -> identity of the collection there, or None         *)
(*   docs : set of [uid, id, val], uid the collection that holds it        *)
(*   idx  : set of [uid, name]                                             *)
(* A namespace is a pair <<database, collection>>.  A database exists when *)
(* one of its collections does.  A collection's identity is the request    *)
(* that created it, so that a collection dropped and created again is not  *)
(* taken for the old one; a document's identity is the request that        *)
(* inserted it (the server's _id).                                         *)
(*                                                                         *)
(* A command returns the SET of results the server may give, each          *)
(* [st, ok, data]: the store afterwards, whether the driver returns or     *)
(* raises, and what it returns.                                            *)
(***************************************************************************)

CONSTANTS
    None,       \* no collection at a namespace
    EmptyDoc    \* the empty BSON document: as a filter it matches everything

Returned(s, d) == [st |-> s, ok |-> TRUE, data |-> d]
Raised(s)      == [st |-> s, ok |-> FALSE, data |-> {}]

Live(s, n)  == s.coll[n] # None
Match(f, d) == f = EmptyDoc \/ d.val = f

\* A well-formed store: documents and indexes belong to a collection that exists.
StoreOK(s) ==
    /\ s = [coll |-> s.coll, docs |-> s.docs, idx |-> s.idx]
    /\ \A d \in s.docs : d = [uid |-> d.uid, id |-> d.id, val |-> d.val]
    /\ \A x \in s.docs \cup s.idx : \E n \in DOMAIN s.coll : Live(s, n) /\ s.coll[n] = x.uid

\* A document's identity is its own in its collection.
UniqueIds(s) == \A d, e \in s.docs : d.uid = e.uid /\ d.id = e.id => d = e

\* The documents of namespace n that filter f selects.
Matching(s, n, f) == {d \in s.docs : Live(s, n) /\ d.uid = s.coll[n] /\ Match(f, d)}

\* Writing to a namespace creates the collection implicitly.
Ensure(s, n, u) == IF Live(s, n) THEN s ELSE [s EXCEPT !.coll[n] = u]

\* A namespace that exists already is refused (NamespaceExists); recent
\* servers accept a create command with the same options.
CreateCollection(s, n, u) ==
    IF Live(s, n) THEN {Raised(s), Returned(s, {})}
                  ELSE {Returned(Ensure(s, n, u), {})}

InsertOne(s, n, u, v) ==
    LET t == Ensure(s, n, u)
    IN  {Returned([t EXCEPT !.docs = @ \cup {[uid |-> t.coll[n], id |-> u, val |-> v]}], {})}

CreateIndex(s, n, u, k) ==
    LET t == Ensure(s, n, u)
    IN  {Returned([t EXCEPT !.idx = @ \cup {[uid |-> t.coll[n], name |-> k]}], {})}

ListDatabases(s)       == {n[1] : n \in {m \in DOMAIN s.coll : Live(s, m)}}
ListCollections(s, db) == {n[2] : n \in {m \in DOMAIN s.coll : Live(s, m) /\ m[1] = db}}
ListIndexes(s, n)      == {x.name : x \in {y \in s.idx : Live(s, n) /\ y.uid = s.coll[n]}}

Rename(s, old, new) ==
    IF Live(s, old) /\ ~Live(s, new)
    THEN {Returned([s EXCEPT !.coll = [@ EXCEPT ![new] = s.coll[old], ![old] = None]], {})}
    ELSE {Raised(s)}

SetDocs(s, D, v) == [s EXCEPT !.docs = (@ \ D) \cup {[d EXCEPT !.val = v] : d \in D}]

\* The sets of documents a "many" or a "one" command may act upon.
Targets(s, n, f, many) ==
    LET M == Matching(s, n, f)
    IN  IF many \/ M = {} THEN {M} ELSE {{d} : d \in M}

Update(s, n, f, v, many) == {Returned(SetDocs(s, D, v), {}) : D \in Targets(s, n, f, many)}
Delete(s, n, f, many) ==
    {Returned([s EXCEPT !.docs = @ \ D], {}) : D \in Targets(s, n, f, many)}

\* Dropping namespaces that do not exist is not an error.
Drop(s, N) ==
    LET gone == {s.coll[n] : n \in N} \ {None}
    IN  {Returned([coll |-> [n \in DOMAIN s.coll |-> IF n \in N THEN None ELSE s.coll[n]],
                   docs |-> {d \in s.docs : d.uid \notin gone},
                   idx  |-> {x \in s.idx : x.uid \notin gone}], {})}

DropIndex(s, n, k) ==
    LET x == [uid |-> s.coll[n], name |-> k]
    IN  IF Live(s, n) /\ x \in s.idx THEN {Returned([s EXCEPT !.idx = @ \ {x}], {})}
                                     ELSE {Raised(s)}
=============================================================================
