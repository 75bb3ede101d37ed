--------------------------- MODULE MCCrudHandler ----------------------------
(* Small instances of CrudHandler for TLC. *)
EXTENDS CrudHandler, TLC

CONSTANTS s1, s2, r1, r2, r3

Databases   == {"d1", "d2"}
Collections == {"c1", "c2", "dummy"}
MCEmptyStore ==
    [coll |-> [n \in Databases \X Collections |-> None], docs |-> {}, idx |-> {}]

\* A server that already holds a collection with two documents.
Loaded ==
    [coll |-> [MCEmptyStore.coll EXCEPT ![<<"d1", "c1">>] = "old"],
     docs |-> {[uid |-> "old", id |-> 1, val |-> "a"], [uid |-> "old", id |-> 2, val |-> "b"]},
     idx |-> {}]

Post(op, class, body) ==
    [method |-> "POST", operation |-> op, class |-> class, content |-> body]

In(c)   == [dbname |-> "d1", collectionname |-> c]
Ins(c, v) == Post("create", "document", In(c) @@ [json_data |-> v])
Del(c, f, many) == Post("delete", "document", In(c) @@ [filter |-> f, delmany |-> many])
Upd(c, f, v, many) ==
    Post("update", "document", In(c) @@ [filter |-> f, fields_toupd |-> v, updmany |-> many])
Find(c)   == Post("read", "document", In(c))
FindWith(c, f, v) == Post("read", "document", In(c) @@ (f :> v))
DropColl(c) == Post("delete", "collection", In(c))
Ren(c, e) == Post("update", "collection", [dbname |-> "d1", oldname |-> c, newname |-> e])

\* Every operation and class once or more, well formed and not.
AdminRequests ==
    {Post("create", "db", [name |-> "d1"]),
     Post("create", "collection", In("c1")),
     Post("create", "collection", In("c1") @@ [collection_options |-> IllTyped]),
     Ins("c1", "a"),
     Post("create", "index", In("c1") @@ [keys |-> "k", index_options |-> EmptyDoc]),
     Post("create", "index", In("c1") @@ [keys |-> EmptyDoc, index_options |-> EmptyDoc]),
     Post("read", "db", [name |-> "d1", list_all |-> FALSE]),
     Post("read", "collection", In("c1") @@ [list_all |-> TRUE]),
     Find("c1"),
     FindWith("c1", "filter", IllTyped),
     FindWith("c1", "options", IllTyped),
     FindWith("c1", "options", [sort |-> IllTyped]),
     Post("read", "index", In("c1") @@ [indexname |-> EmptyDoc]),
     Post("update", "db", [name |-> "d1"]),
     Ren("c1", "c2"),
     Upd("c1", "a", "b", FALSE),
     Upd("c1", "a", EmptyDoc, TRUE),
     Post("update", "index", In("c1")),
     Post("delete", "db", [dbname |-> "d1"]),
     Post("delete", "db", [name |-> "d1"]),
     DropColl("c1"),
     Del("c1", "a", FALSE),
     Post("delete", "index", In("c1") @@ [indexname |-> "k"]),
     Post("create", "db", NotJson),
     Post("drop", "db", [dbname |-> "d1"]),
     Post("read", "user", [name |-> "d1"]),
     [Find("c1") EXCEPT !.method = "GET"]}

\* Requests that meet in the documents of one collection: writers, and readers
\* against everything that can move under a cursor.
DocumentRequests ==
    {Ins("c1", "a"), Upd("c1", EmptyDoc, "a", FALSE),
     Del("c1", "a", FALSE), Del("c1", EmptyDoc, TRUE),
     DropColl("c1"), Post("delete", "db", [dbname |-> "d1"]), Ren("c1", "c2"),
     Find("c1"), FindWith("c1", "filter", "a"),
     Post("read", "document", In("c1") @@ [filter |-> "a", options |-> [limit |-> "1"]])}

Symmetry == Permutations({r1, r2, r3}) \cup Permutations({s1, s2})
=============================================================================
