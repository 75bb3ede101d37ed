---------------------------- MODULE StoreProofs -----------------------------
(***************************************************************************)
(* Every command leaves a well-formed store well formed and keeps the      *)
(* namespaces it ranges over; what it does to documents is limited to the  *)
(* ones it selects, and leaves their identities apart.                     *)
(***************************************************************************)
EXTENDS MongoDBInterface, TLAPS

\* What a command must preserve, from s to t.
Keeps(s, t) == StoreOK(t) /\ DOMAIN t.coll = DOMAIN s.coll

\* What every result of a command on s must satisfy: the store is kept well
\* formed, and is not touched by a command that is refused.
AllKeep(s, R) == \A r \in R : Keeps(s, r.st) /\ (r.ok \/ r.st = s)

\* A command that leaves the store alone.
LEMMA SameStore ==
    ASSUME NEW s, NEW d, StoreOK(s)
    PROVE  AllKeep(s, {Returned(s, d)}) /\ AllKeep(s, {Raised(s)})
BY DEF AllKeep, Keeps, Returned, Raised

\* Creating a collection implicitly: the namespace is live afterwards.
LEMMA EnsureKeeps ==
    ASSUME NEW s, NEW n, NEW u, StoreOK(s), n \in DOMAIN s.coll, u # None
    PROVE  /\ Keeps(s, Ensure(s, n, u))
           /\ Live(Ensure(s, n, u), n)
           /\ Ensure(s, n, u).docs = s.docs
           /\ Ensure(s, n, u).idx = s.idx
<1>1. CASE Live(s, n)
  BY <1>1 DEF Ensure, Keeps
<1>2. CASE ~Live(s, n)
  <2> DEFINE t == Ensure(s, n, u)
  <2>1. t = [s EXCEPT !.coll[n] = u]
    BY <1>2 DEF Ensure
  <2>2. /\ t = [coll |-> t.coll, docs |-> t.docs, idx |-> t.idx]
        /\ t.docs = s.docs /\ t.idx = s.idx
        /\ t.coll = [s.coll EXCEPT ![n] = u]
    BY <2>1 DEF StoreOK
  <2>3. t.coll[n] = u /\ DOMAIN t.coll = DOMAIN s.coll
    BY <2>2
  <2>4. \A m \in DOMAIN s.coll : Live(s, m) => Live(t, m) /\ t.coll[m] = s.coll[m]
    BY <1>2, <2>2 DEF Live
  <2> QED
    BY <2>2, <2>3, <2>4 DEF Keeps, StoreOK, Live
<1> QED
  BY <1>1, <1>2

LEMMA CreateCollectionKeeps ==
    ASSUME NEW s, NEW n, NEW u, StoreOK(s), n \in DOMAIN s.coll, u # None
    PROVE  AllKeep(s, CreateCollection(s, n, u))
BY EnsureKeeps DEF CreateCollection, AllKeep, Keeps, Returned, Raised

\* Changing one component of a store leaves the others.
LEMMA OneComponent ==
    ASSUME NEW s, NEW X, s = [coll |-> s.coll, docs |-> s.docs, idx |-> s.idx]
    PROVE  /\ [s EXCEPT !.coll = X] = [coll |-> X, docs |-> s.docs, idx |-> s.idx]
           /\ [s EXCEPT !.docs = X] = [coll |-> s.coll, docs |-> X, idx |-> s.idx]
           /\ [s EXCEPT !.idx = X] = [coll |-> s.coll, docs |-> s.docs, idx |-> X]
OBVIOUS

LEMMA InsertOneKeeps ==
    ASSUME NEW s, NEW n, NEW u, NEW v, StoreOK(s), n \in DOMAIN s.coll, u # None
    PROVE  AllKeep(s, InsertOne(s, n, u, v))
<1> DEFINE t == Ensure(s, n, u)
           d == [uid |-> t.coll[n], id |-> u, val |-> v]
           r == [t EXCEPT !.docs = @ \cup {d}]
<1>1. Keeps(s, t) /\ Live(t, n) /\ n \in DOMAIN t.coll
  BY EnsureKeeps DEF Keeps
<1> HIDE DEF t
<1>2. /\ r = [coll |-> r.coll, docs |-> r.docs, idx |-> r.idx]
      /\ r.coll = t.coll /\ r.docs = t.docs \cup {d} /\ r.idx = t.idx
  <2>1. t = [coll |-> t.coll, docs |-> t.docs, idx |-> t.idx]
    BY <1>1 DEF Keeps, StoreOK
  <2>2. r = [coll |-> t.coll, docs |-> t.docs \cup {d}, idx |-> t.idx]
    BY <2>1, OneComponent
  <2> QED
    BY <2>2
<1>3. d = [uid |-> d.uid, id |-> d.id, val |-> d.val] /\ d.uid = t.coll[n]
  OBVIOUS
<1> HIDE DEF d, r
<1>4. Keeps(s, r)
  BY <1>1, <1>2, <1>3 DEF Keeps, StoreOK, Live
<1> QED
  BY <1>4 DEF InsertOne, AllKeep, Returned, t, d, r

LEMMA CreateIndexKeeps ==
    ASSUME NEW s, NEW n, NEW u, NEW k, StoreOK(s), n \in DOMAIN s.coll, u # None
    PROVE  AllKeep(s, CreateIndex(s, n, u, k))
<1> DEFINE t == Ensure(s, n, u)
           x == [uid |-> t.coll[n], name |-> k]
           r == [t EXCEPT !.idx = @ \cup {x}]
<1>1. Keeps(s, t) /\ Live(t, n) /\ n \in DOMAIN t.coll
  BY EnsureKeeps DEF Keeps
<1> HIDE DEF t
<1>2. /\ r = [coll |-> r.coll, docs |-> r.docs, idx |-> r.idx]
      /\ r.coll = t.coll /\ r.docs = t.docs /\ r.idx = t.idx \cup {x}
  <2>1. t = [coll |-> t.coll, docs |-> t.docs, idx |-> t.idx]
    BY <1>1 DEF Keeps, StoreOK
  <2>2. r = [coll |-> t.coll, docs |-> t.docs, idx |-> t.idx \cup {x}]
    BY <2>1, OneComponent
  <2> QED
    BY <2>2
<1>3. x.uid = t.coll[n]
  OBVIOUS
<1> HIDE DEF x, r
<1>4. Keeps(s, r)
  BY <1>1, <1>2, <1>3 DEF Keeps, StoreOK, Live
<1> QED
  BY <1>4 DEF CreateIndex, AllKeep, Returned, t, x, r

\* A collection keeps its identity, hence its documents, when it is renamed.
LEMMA RenameKeeps ==
    ASSUME NEW s, NEW old, NEW new, StoreOK(s), old \in DOMAIN s.coll, new \in DOMAIN s.coll
    PROVE  AllKeep(s, Rename(s, old, new))
<1>1. CASE Live(s, old) /\ ~Live(s, new)
  <2> DEFINE c == [s.coll EXCEPT ![new] = s.coll[old], ![old] = None]
             t == [s EXCEPT !.coll = c]
  <2>1. /\ t = [coll |-> t.coll, docs |-> t.docs, idx |-> t.idx]
        /\ t.docs = s.docs /\ t.idx = s.idx
        /\ t.coll = [s.coll EXCEPT ![new] = s.coll[old], ![old] = None]
    <3>1. t = [coll |-> c, docs |-> s.docs, idx |-> s.idx]
      BY OneComponent DEF StoreOK
    <3> QED
      BY <3>1
  <2>2. new # old /\ DOMAIN t.coll = DOMAIN s.coll
    BY <1>1, <2>1
  <2>3. t.coll[new] = s.coll[old]
    BY <2>1, <2>2
  <2>4. \A m \in DOMAIN s.coll \ {old, new} : t.coll[m] = s.coll[m]
    BY <2>1
  <2>5. ASSUME NEW m \in DOMAIN s.coll, Live(s, m)
        PROVE  \E p \in DOMAIN t.coll : Live(t, p) /\ t.coll[p] = s.coll[m]
    <3>1. CASE m = old
      BY <3>1, <1>1, <2>2, <2>3 DEF Live
    <3>2. CASE m # old
      BY <3>2, <1>1, <2>2, <2>4, <2>5 DEF Live
    <3> QED
      BY <3>1, <3>2
  <2> HIDE DEF t
  <2>6. Keeps(s, t)
    BY <2>1, <2>2, <2>5 DEF Keeps, StoreOK
  <2> QED
    BY <1>1, <2>6 DEF Rename, AllKeep, Returned, t
<1>2. CASE ~(Live(s, old) /\ ~Live(s, new))
  BY <1>2, SameStore DEF Rename
<1> QED
  BY <1>1, <1>2

LEMMA SetDocsKeeps ==
    ASSUME NEW s, NEW D, NEW v, StoreOK(s), D \subseteq s.docs
    PROVE  Keeps(s, SetDocs(s, D, v))
<1> DEFINE E == {[d EXCEPT !.val = v] : d \in D}
           X == (s.docs \ D) \cup E
<1>1. SetDocs(s, D, v) = [coll |-> s.coll, docs |-> X, idx |-> s.idx]
  BY OneComponent DEF SetDocs, StoreOK
<1>2. ASSUME NEW e \in E
      PROVE  /\ e = [uid |-> e.uid, id |-> e.id, val |-> e.val]
             /\ \E d \in s.docs : d.uid = e.uid
  <2>1. PICK d \in D : e = [d EXCEPT !.val = v]
    OBVIOUS
  <2>2. d = [uid |-> d.uid, id |-> d.id, val |-> d.val]
    BY DEF StoreOK
  <2>3. e = [uid |-> d.uid, id |-> d.id, val |-> v]
    BY <2>1, <2>2
  <2> QED
    BY <2>3
<1> HIDE DEF E
<1>3. \A d \in X : d = [uid |-> d.uid, id |-> d.id, val |-> d.val]
  BY <1>2 DEF StoreOK
<1>4. \A d \in X : \E n \in DOMAIN s.coll : Live(s, n) /\ s.coll[n] = d.uid
  BY <1>2 DEF StoreOK
<1>5. \A x \in s.idx : \E n \in DOMAIN s.coll : Live(s, n) /\ s.coll[n] = x.uid
  BY DEF StoreOK
<1> HIDE DEF X
<1> QED
  BY <1>1, <1>3, <1>4, <1>5 DEF Keeps, StoreOK, Live

LEMMA TargetsAreDocs ==
    ASSUME NEW s, NEW n, NEW f, NEW many, NEW D \in Targets(s, n, f, many)
    PROVE  D \subseteq s.docs
BY DEF Targets, Matching

LEMMA UpdateKeeps ==
    ASSUME NEW s, NEW n, NEW f, NEW v, NEW many, StoreOK(s)
    PROVE  AllKeep(s, Update(s, n, f, v, many))
BY SetDocsKeeps, TargetsAreDocs DEF Update, AllKeep, Returned

LEMMA DeleteKeeps ==
    ASSUME NEW s, NEW n, NEW f, NEW many, StoreOK(s)
    PROVE  AllKeep(s, Delete(s, n, f, many))
<1>1. ASSUME NEW D PROVE Keeps(s, [s EXCEPT !.docs = @ \ D])
  <2>1. [s EXCEPT !.docs = @ \ D] = [coll |-> s.coll, docs |-> s.docs \ D, idx |-> s.idx]
    BY OneComponent DEF StoreOK
  <2> QED
    BY <2>1 DEF Keeps, StoreOK, Live
<1> QED
  BY <1>1 DEF Delete, AllKeep, Returned

\* Dropping collections takes their documents and their indexes along.
LEMMA DropKeeps ==
    ASSUME NEW s, NEW N, StoreOK(s)
    PROVE  AllKeep(s, Drop(s, N))
<1> DEFINE gone == {s.coll[n] : n \in N} \ {None}
           c == [n \in DOMAIN s.coll |-> IF n \in N THEN None ELSE s.coll[n]]
           t == [coll |-> c,
                 docs |-> {d \in s.docs : d.uid \notin gone},
                 idx  |-> {x \in s.idx : x.uid \notin gone}]
<1>1. ASSUME NEW x \in s.docs \cup s.idx, x.uid \notin gone
      PROVE  \E n \in DOMAIN t.coll : Live(t, n) /\ t.coll[n] = x.uid
  <2>1. PICK n \in DOMAIN s.coll : Live(s, n) /\ s.coll[n] = x.uid
    BY DEF StoreOK
  <2>2. n \notin N
    BY <1>1, <2>1 DEF Live
  <2>3. c[n] = s.coll[n] /\ DOMAIN c = DOMAIN s.coll
    BY <2>2
  <2> QED
    BY <2>1, <2>3 DEF Live
<1>2. \A d \in t.docs : d = [uid |-> d.uid, id |-> d.id, val |-> d.val]
  BY DEF StoreOK
<1>3. DOMAIN t.coll = DOMAIN s.coll
  OBVIOUS
<1>4. t = [coll |-> t.coll, docs |-> t.docs, idx |-> t.idx]
  OBVIOUS
<1>5. \A x \in t.docs \cup t.idx : x \in s.docs \cup s.idx /\ x.uid \notin gone
  OBVIOUS
<1>6. Drop(s, N) = {Returned(t, {})}
  BY DEF Drop
<1> HIDE DEF t
<1>7. Keeps(s, t)
  BY <1>1, <1>2, <1>3, <1>4, <1>5 DEF Keeps, StoreOK
<1> QED
  BY <1>6, <1>7 DEF AllKeep, Returned

LEMMA DropIndexKeeps ==
    ASSUME NEW s, NEW n, NEW k, StoreOK(s)
    PROVE  AllKeep(s, DropIndex(s, n, k))
<1> DEFINE x == [uid |-> s.coll[n], name |-> k]
           t == [s EXCEPT !.idx = @ \ {x}]
<1>1. t = [coll |-> s.coll, docs |-> s.docs, idx |-> s.idx \ {x}]
  BY OneComponent DEF StoreOK
<1>2. Keeps(s, t)
  BY <1>1 DEF Keeps, StoreOK, Live
<1> QED
  BY <1>2, SameStore DEF DropIndex, AllKeep, Returned

-----------------------------------------------------------------------------

\* The command of a request that is not rejected and names namespaces of the
\* store keeps the store well formed, whichever result the server gives.
LEMMA CommandKeeps ==
    ASSUME NEW s, NEW i, NEW q,
           StoreOK(s), i # None, ~Rejected(q), ~IsFind(q),
           Namespaces(q) \subseteq DOMAIN s.coll
    PROVE  AllKeep(s, Command(s, i, q))
<1> DEFINE doc == q.content
<1>1. CASE Is(q, "create", "db")
  <2>1. <<doc.name, DummyCollection>> \in DOMAIN s.coll
    BY <1>1 DEF Is, Namespaces
  <2> QED
    BY <1>1, <2>1, CreateCollectionKeeps DEF Is, Command, createDB
<1>2. CASE Is(q, "create", "collection")
  <2>1. Ns(doc) \in DOMAIN s.coll
    BY <1>2 DEF Is, Namespaces
  <2> QED
    BY <1>2, <2>1, CreateCollectionKeeps DEF Is, Command, createCollection
<1>3. CASE Is(q, "create", "document")
  <2>1. Ns(doc) \in DOMAIN s.coll
    BY <1>3 DEF Is, Namespaces
  <2> QED
    BY <1>3, <2>1, InsertOneKeeps DEF Is, Command, createDocument
<1>4. CASE Is(q, "create", "index")
  <2>1. Ns(doc) \in DOMAIN s.coll
    BY <1>4 DEF Is, Namespaces
  <2> QED
    BY <1>4, <2>1, CreateIndexKeeps DEF Is, Command, createIndex
<1>5. CASE Is(q, "read", "db")
  BY <1>5, SameStore DEF Is, Command, readDB
<1>6. CASE Is(q, "read", "collection")
  BY <1>6, SameStore DEF Is, Command, readCollection
<1>7. CASE Is(q, "read", "index")
  BY <1>7, SameStore DEF Is, Command, readIndex
<1>8. CASE Is(q, "update", "collection")
  <2>1. /\ <<doc.dbname, doc.oldname>> \in DOMAIN s.coll
        /\ <<doc.dbname, doc.newname>> \in DOMAIN s.coll
    BY <1>8 DEF Is, Namespaces
  <2> QED
    BY <1>8, <2>1, RenameKeeps DEF Is, Command, updateCollection
<1>9. CASE Is(q, "update", "document")
  BY <1>9, UpdateKeeps DEF Is, Command, updateDocument
<1>10. CASE Is(q, "delete", "db")
  BY <1>10, DropKeeps DEF Is, Command, deleteDB
<1>11. CASE Is(q, "delete", "collection")
  BY <1>11, DropKeeps DEF Is, Command, deleteCollection
<1>12. CASE Is(q, "delete", "document")
  BY <1>12, DeleteKeeps DEF Is, Command, deleteDocument
<1>13. CASE Is(q, "delete", "index")
  BY <1>13, DropIndexKeeps DEF Is, Command, deleteIndex
<1> QED
  BY <1>1, <1>2, <1>3, <1>4, <1>5, <1>6, <1>7, <1>8, <1>9, <1>10, <1>11, <1>12, <1>13
     DEF Rejected, crud_operation, mongo_class, Is, IsFind

-----------------------------------------------------------------------------
(* What commands do to documents. *)

\* The documents of s become the ones of t by a command of request i that asks
\* q: most commands leave them alone, one adds a document with the identity of
\* the request, the others change or remove documents that they select.
Inserted(s, i, t) == \E d : t.docs = s.docs \cup {d} /\ d.id = i

Updated(s, q, t) ==
    \E D \in SUBSET Matching(s, Ns(q.content), q.content.filter) :
        t.docs = (s.docs \ D) \cup {[d EXCEPT !.val = q.content.fields_toupd] : d \in D}

Deleted(s, q, t) ==
    \E D \in SUBSET Matching(s, Ns(q.content), q.content.filter) : t.docs = s.docs \ D

Dropped(s, N, t) ==
    \A d \in s.docs \ t.docs : \E n \in N : d \in Matching(s, n, EmptyDoc)

DocsMove(s, i, q, t) ==
    \/ t.docs = s.docs
    \/ Is(q, "create", "document") /\ Inserted(s, i, t)
    \/ Is(q, "update", "document") /\ Updated(s, q, t)
    \/ Is(q, "delete", "document") /\ Deleted(s, q, t)
    \/ /\ Is(q, "delete", "collection")
       /\ t.docs \subseteq s.docs /\ Dropped(s, {Ns(q.content)}, t)
    \/ /\ Is(q, "delete", "db")
       /\ t.docs \subseteq s.docs
       /\ Dropped(s, {n \in DOMAIN s.coll : n[1] = q.content.dbname}, t)

LEMMA EnsureDocs ==
    ASSUME NEW s, NEW n, NEW u, StoreOK(s)
    PROVE  Ensure(s, n, u).docs = s.docs
BY DEF Ensure, StoreOK

LEMMA InsertOneDocs ==
    ASSUME NEW s, NEW n, NEW u, NEW v, StoreOK(s), n \in DOMAIN s.coll, u # None,
           NEW r \in InsertOne(s, n, u, v)
    PROVE  Inserted(s, u, r.st)
<1> DEFINE t == Ensure(s, n, u)
           d == [uid |-> t.coll[n], id |-> u, val |-> v]
<1>1. StoreOK(t) /\ t.docs = s.docs
  BY EnsureKeeps DEF Keeps
<1> HIDE DEF t
<1>2. d.id = u
  OBVIOUS
<1> HIDE DEF d
<1>3. r.st = [t EXCEPT !.docs = @ \cup {d}]
  BY DEF InsertOne, Returned, t, d
<1>4. t = [coll |-> t.coll, docs |-> t.docs, idx |-> t.idx]
  BY <1>1 DEF StoreOK
<1>5. r.st.docs = s.docs \cup {d}
  BY <1>1, <1>3, <1>4
<1> QED
  BY <1>2, <1>5 DEF Inserted

LEMMA CreateIndexDocs ==
    ASSUME NEW s, NEW n, NEW u, NEW k, StoreOK(s), n \in DOMAIN s.coll, u # None,
           NEW r \in CreateIndex(s, n, u, k)
    PROVE  r.st.docs = s.docs
<1> DEFINE t == Ensure(s, n, u)
           x == [uid |-> t.coll[n], name |-> k]
<1>1. StoreOK(t) /\ t.docs = s.docs
  BY EnsureKeeps DEF Keeps
<1> HIDE DEF t, x
<1>2. r.st = [t EXCEPT !.idx = @ \cup {x}]
  BY DEF CreateIndex, Returned, t, x
<1>3. t = [coll |-> t.coll, docs |-> t.docs, idx |-> t.idx]
  BY <1>1 DEF StoreOK
<1> QED
  BY <1>1, <1>2, <1>3

LEMMA RenameDocs ==
    ASSUME NEW s, NEW old, NEW new, StoreOK(s), NEW r \in Rename(s, old, new)
    PROVE  r.st.docs = s.docs
BY OneComponent DEF Rename, Returned, Raised, StoreOK

LEMMA UpdateDocs ==
    ASSUME NEW s, NEW q, StoreOK(s), NEW r \in updateDocument(s, q.content)
    PROVE  Updated(s, q, r.st)
<1> DEFINE doc == q.content
<1>1. PICK D \in Targets(s, Ns(doc), doc.filter, doc.updmany) :
         r.st = SetDocs(s, D, doc.fields_toupd)
  BY DEF updateDocument, Update, Returned
<1>2. D \subseteq Matching(s, Ns(doc), doc.filter)
  BY DEF Targets
<1>3. r.st.docs = (s.docs \ D) \cup {[d EXCEPT !.val = doc.fields_toupd] : d \in D}
  BY <1>1, OneComponent DEF SetDocs, StoreOK
<1> QED
  BY <1>2, <1>3 DEF Updated

LEMMA DeleteDocs ==
    ASSUME NEW s, NEW q, StoreOK(s), NEW r \in deleteDocument(s, q.content)
    PROVE  Deleted(s, q, r.st)
<1> DEFINE doc == q.content
<1>a. PICK D \in Targets(s, Ns(doc), doc.filter, doc.delmany) :
         r = Returned([s EXCEPT !.docs = @ \ D], {})
  BY DEF deleteDocument, Delete
<1>1. r.st = [s EXCEPT !.docs = @ \ D]
  BY <1>a DEF Returned
<1>2. D \subseteq Matching(s, Ns(doc), doc.filter)
  BY DEF Targets
<1>3. r.st.docs = s.docs \ D
  BY <1>1, OneComponent DEF StoreOK
<1> QED
  BY <1>2, <1>3 DEF Deleted

LEMMA DropDocs ==
    ASSUME NEW s, NEW N, NEW r \in Drop(s, N)
    PROVE  r.st.docs \subseteq s.docs /\ Dropped(s, N, r.st)
<1> DEFINE gone == {s.coll[n] : n \in N} \ {None}
<1>1. r.st.docs = {d \in s.docs : d.uid \notin gone}
  BY DEF Drop, Returned
<1>2. ASSUME NEW d \in s.docs \ r.st.docs
      PROVE  \E n \in N : d \in Matching(s, n, EmptyDoc)
  <2>1. PICK n \in N : d.uid = s.coll[n] /\ s.coll[n] # None
    BY <1>1
  <2> QED
    BY <2>1 DEF Matching, Live, Match
<1> QED
  BY <1>1, <1>2 DEF Dropped

\* The command of a request that is not rejected does to documents what
\* DocsMove allows.
LEMMA CommandDocs ==
    ASSUME NEW s, NEW i, NEW q,
           StoreOK(s), i # None, ~Rejected(q), ~IsFind(q),
           Namespaces(q) \subseteq DOMAIN s.coll,
           NEW r \in Command(s, i, q)
    PROVE  DocsMove(s, i, q, r.st)
<1> DEFINE doc == q.content
<1>1. CASE Is(q, "create", "db")
  BY <1>1, EnsureDocs
     DEF Is, Command, createDB, CreateCollection, Returned, Raised, DocsMove
<1>2. CASE Is(q, "create", "collection")
  BY <1>2, EnsureDocs
     DEF Is, Command, createCollection, CreateCollection, Returned, Raised, DocsMove
<1>3. CASE Is(q, "create", "document")
  <2>1. Ns(doc) \in DOMAIN s.coll
    BY <1>3 DEF Is, Namespaces
  <2>2. r \in InsertOne(s, Ns(doc), i, doc.json_data)
    BY <1>3 DEF Is, Command, createDocument
  <2> QED
    BY <1>3, <2>1, <2>2, InsertOneDocs DEF DocsMove
<1>4. CASE Is(q, "create", "index")
  <2>1. Ns(doc) \in DOMAIN s.coll
    BY <1>4 DEF Is, Namespaces
  <2>2. r \in CreateIndex(s, Ns(doc), i, doc.keys)
    BY <1>4 DEF Is, Command, createIndex
  <2> QED
    BY <2>1, <2>2, CreateIndexDocs DEF DocsMove
<1>5. CASE Is(q, "read", "db") \/ Is(q, "read", "collection") \/ Is(q, "read", "index")
  BY <1>5 DEF Is, Command, readDB, readCollection, readIndex, Returned, DocsMove
<1>6. CASE Is(q, "update", "collection")
  BY <1>6, RenameDocs DEF Is, Command, updateCollection, DocsMove
<1>7. CASE Is(q, "update", "document")
  <2>1. r \in updateDocument(s, doc)
    BY <1>7 DEF Is, Command
  <2> QED
    BY <1>7, <2>1, UpdateDocs DEF DocsMove
<1>8. CASE Is(q, "delete", "db")
  <2>1. r \in Drop(s, {n \in DOMAIN s.coll : n[1] = doc.dbname})
    BY <1>8 DEF Is, Command, deleteDB
  <2> QED
    BY <1>8, <2>1, DropDocs DEF DocsMove
<1>9. CASE Is(q, "delete", "collection")
  <2>1. r \in Drop(s, {Ns(doc)})
    BY <1>9 DEF Is, Command, deleteCollection
  <2> QED
    BY <1>9, <2>1, DropDocs DEF DocsMove
<1>10. CASE Is(q, "delete", "document")
  <2>1. r \in deleteDocument(s, doc)
    BY <1>10 DEF Is, Command
  <2> QED
    BY <1>10, <2>1, DeleteDocs DEF DocsMove
<1>11. CASE Is(q, "delete", "index")
  BY <1>11, OneComponent
     DEF Is, Command, deleteIndex, DropIndex, Returned, Raised, DocsMove, StoreOK
<1> QED
  BY <1>1, <1>2, <1>3, <1>4, <1>5, <1>6, <1>7, <1>8, <1>9, <1>10, <1>11
     DEF Rejected, crud_operation, mongo_class, Is, IsFind

\* Documents keep identities of their own, and the only new one is that of the
\* request, if it was not there before.
LEMMA CommandIds ==
    ASSUME NEW s, NEW i, NEW q, NEW t,
           StoreOK(s), UniqueIds(s), \A d \in s.docs : d.id # i,
           DocsMove(s, i, q, t)
    PROVE  /\ UniqueIds(t)
           /\ \A d \in t.docs : d.id = i \/ \E e \in s.docs : e.id = d.id
<1>1. CASE t.docs \subseteq s.docs
  BY <1>1 DEF UniqueIds
<1>2. CASE Inserted(s, i, t)
  BY <1>2 DEF Inserted, UniqueIds
<1>3. CASE Updated(s, q, t)
  <2> DEFINE v == q.content.fields_toupd
  <2>1. PICK D \in SUBSET s.docs :
           t.docs = (s.docs \ D) \cup {[d EXCEPT !.val = v] : d \in D}
    BY <1>3 DEF Updated, Matching
  <2>2. ASSUME NEW e \in t.docs
        PROVE  \E d \in s.docs : /\ d.uid = e.uid /\ d.id = e.id
                                 /\ e = IF d \in D THEN [d EXCEPT !.val = v] ELSE d
    <3>1. CASE e \in s.docs \ D
      BY <3>1
    <3>2. ASSUME NEW d \in D, e = [d EXCEPT !.val = v]
          PROVE  d.uid = e.uid /\ d.id = e.id
      <4>1. d = [uid |-> d.uid, id |-> d.id, val |-> d.val]
        BY DEF StoreOK
      <4> QED
        BY <3>2, <4>1
    <3> QED
      BY <2>1, <3>1, <3>2
  <2> QED
    BY <2>2 DEF UniqueIds
<1> QED
  BY <1>1, <1>2, <1>3 DEF DocsMove, Deleted
=============================================================================
