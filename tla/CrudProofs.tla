----------------------------- MODULE CrudProofs -----------------------------
(***************************************************************************)
(* CrudHandler proved for any shards, any number of requests, whatever     *)
(* they ask and whatever the server held: the types, the exclusive use of  *)
(* each shard's client, that a document goes only to a request that        *)
(* selects it, that a read answered "ok" is complete, and the              *)
(* at-most-once service of AtMostOnce.                                     *)
(***************************************************************************)
EXTENDS CrudHandler, StoreProofs

\* What a request's coroutine knows at each of its points: the checks it has
\* passed, whether it holds the shard's thread, whether its command can have
\* taken effect, and what its reply says about that.
Control ==
    \A i \in ReqId :
        /\ pc[i] # "idle" => req[i] \in Requests /\ shard[i] \in Shard
        /\ pc[i] \in InCall \cup {"await"} => ~Rejected(req[i])
        /\ pc[i] \in InCall => busy[shard[i]] = i /\ ~NothingToDo(req[i])
        /\ pc[i] \in {"await", "calling", "reading"} => i \notin took
        /\ pc[i] = "reading" => IsFind(req[i])
        /\ pc[i] = "served" /\ rep[i].ok => i \in took \/ IsFind(req[i])
        /\ pc[i] = "replied" /\ rep[i].ok =>
              /\ ~Rejected(req[i])
              /\ i \in took \/ IsFind(req[i]) \/ NothingToDo(req[i])
        /\ pc[i] \in {"served", "replied"} => rep[i].status = 200

\* What a step of a coroutine keeps, whatever the requests not yet accepted.
Core == TypeOK /\ Control

\* A request that is not accepted yet has done nothing.
Unapplied == \A i \in ReqId : pc[i] = "idle" => i \notin took

IInv == Core /\ Unapplied

\* Writing one reply leaves the others, and keeps the types of all.
LEMMA OneReply ==
    ASSUME TypeOK, NEW i \in ReqId, NEW r, r.status \in Nat, r.ok \in BOOLEAN,
           rep' = [rep EXCEPT ![i] = r]
    PROVE  /\ DOMAIN rep' = ReqId
           /\ rep'[i] = r
           /\ \A j \in ReqId \ {i} : rep'[j] = rep[j]
           /\ \A j \in ReqId : rep'[j].status \in Nat /\ rep'[j].ok \in BOOLEAN
BY DEF TypeOK

LEMMA InitInv == Init => IInv
<1> SUFFICES ASSUME Init PROVE IInv
  OBVIOUS
<1>1. TypeOK
  BY ConstantsAssumption DEF Init, TypeOK, NoReply, Reply
<1>2. Control
  BY DEF Init, Control, InCall
<1>3. Unapplied
  BY DEF Init, Unapplied
<1> QED
  BY <1>1, <1>2, <1>3 DEF IInv, Core

\* A request that is being served keeps the store well formed.
LEMMA ServeKeepsStore ==
    ASSUME Core, NEW i \in ReqId, Serve(i)
    PROVE  StoreOK(store') /\ DOMAIN store'.coll = DOMAIN EmptyStore.coll
<1>1. PICK r \in Command(store, i, req[i]) : store' = r.st
  BY DEF Serve
<1>2. /\ ~Rejected(req[i]) /\ ~IsFind(req[i]) /\ i # None
      /\ Namespaces(req[i]) \subseteq DOMAIN store.coll
  BY ConstantsAssumption DEF Core, TypeOK, Control, Serve, InCall
<1>3. StoreOK(store) /\ DOMAIN store.coll = DOMAIN EmptyStore.coll
  BY DEF Core, TypeOK
<1>4. AllKeep(store, Command(store, i, req[i]))
  BY <1>2, <1>3, CommandKeeps
<1> QED
  BY <1>1, <1>3, <1>4 DEF AllKeep, Keeps

\* A reply written with status 200 keeps Core, whether the shard's thread is
\* still held ("served") or was never taken ("replied").
LEMMA ReplyCore ==
    ASSUME Core, NEW i \in ReqId, NEW ok \in BOOLEAN, NEW d, NEW p \in {"served", "replied"},
           pc[i] \in InCall \cup {"await"},
           pc' = [pc EXCEPT ![i] = p],
           rep' = [rep EXCEPT ![i] = Reply(200, ok, d)],
           p = "replied" => pc[i] = "await" /\ (ok => NothingToDo(req[i])),
           p = "served" => pc[i] \in InCall /\ (ok => i \in took' \/ IsFind(req[i])),
           took' = took \/ took' = took \cup {i},
           UNCHANGED <<busy, reactor>>,
           StoreOK(store'), DOMAIN store'.coll = DOMAIN EmptyStore.coll
    PROVE  Core'
<1> DEFINE r == Reply(200, ok, d)
<1>a. r.status = 200 /\ r.ok = ok
  BY DEF Reply
<1>b. rep' = [rep EXCEPT ![i] = r]
  OBVIOUS
<1> HIDE DEF r
<1>c. r.status \in Nat
  BY <1>a
<1>d. r.ok \in BOOLEAN
  BY <1>a, Zenon
<1>1. /\ DOMAIN rep' = ReqId
      /\ rep'[i] = r
      /\ \A j \in ReqId \ {i} : rep'[j] = rep[j]
      /\ \A j \in ReqId : rep'[j].status \in Nat /\ rep'[j].ok \in BOOLEAN
  BY <1>b, <1>c, <1>d, OneReply DEF Core
<1>2. TypeOK'
  BY <1>1 DEF Core, TypeOK, InCall, reactor
<1>3. Control'
  <2> SUFFICES ASSUME NEW j \in ReqId PROVE Control!(j)'
    BY DEF Control
  <2>1. CASE j = i
    BY <1>a, <1>1, <2>1 DEF Core, TypeOK, Control, InCall, reactor
  <2>2. CASE j # i
    BY <1>1, <2>2 DEF Core, TypeOK, Control, InCall, reactor
  <2> QED
    BY <2>1, <2>2
<1> QED
  BY <1>2, <1>3 DEF Core

\* A request that is accepted, or refused at once, keeps Core.
LEMMA AcceptCore ==
    ASSUME Core, NEW i \in ReqId, NEW s \in Shard, NEW q \in Requests, Accept(i, s, q),
           i \notin took
    PROVE  Core'
<1>1. CASE Rejected(q)
  <2>1. rep' = [rep EXCEPT ![i] = Reply(200, FALSE, {})]
    BY <1>1 DEF Accept, Routed, Error
  <2>2. /\ DOMAIN rep' = ReqId
        /\ rep'[i].status = 200 /\ ~rep'[i].ok
        /\ \A j \in ReqId \ {i} : rep'[j] = rep[j]
        /\ \A j \in ReqId : rep'[j].status \in Nat /\ rep'[j].ok \in BOOLEAN
    <3> DEFINE r == Reply(200, FALSE, {})
    <3>1. r.status = 200 /\ r.status \in Nat /\ r.ok \in BOOLEAN /\ ~r.ok
      BY DEF Reply
    <3>2. rep' = [rep EXCEPT ![i] = r]
      BY <2>1
    <3> HIDE DEF r
    <3>3. /\ DOMAIN rep' = ReqId
          /\ rep'[i] = r
          /\ \A j \in ReqId \ {i} : rep'[j] = rep[j]
          /\ \A j \in ReqId : rep'[j].status \in Nat /\ rep'[j].ok \in BOOLEAN
      BY <3>1, <3>2, OneReply DEF Core
    <3> QED
      BY <3>1, <3>3
  <2>3. pc' = [pc EXCEPT ![i] = "replied"]
    BY <1>1 DEF Accept
  <2>4. TypeOK'
    BY <2>2, <2>3 DEF Core, TypeOK, Accept, history, InCall
  <2>5. Control'
    BY <2>2, <2>3 DEF Core, TypeOK, Control, Accept, history, InCall
  <2> QED
    BY <2>4, <2>5 DEF Core
<1>2. CASE ~Rejected(q)
  <2>1. rep' = rep /\ pc' = [pc EXCEPT ![i] = "await"]
    BY <1>2 DEF Accept, Routed
  <2>2. TypeOK'
    BY <2>1 DEF Core, TypeOK, Accept, history, InCall
  <2>3. Control'
    BY <1>2, <2>1 DEF Core, TypeOK, Control, Accept, history, InCall
  <2> QED
    BY <2>2, <2>3 DEF Core
<1> QED
  BY <1>1, <1>2

\* Every step of a request's coroutine keeps Core.
LEMMA ProceedCore ==
    ASSUME Core, NEW i \in ReqId, Proceed(i)
    PROVE  Core'
<1> USE DEF Core
<1>1. ASSUME NoInstance(i) PROVE Core'
  BY <1>1 DEF NoInstance, ReadyToResume, history, TypeOK, Control, InCall
<1>2. ASSUME RaisesFirst(i) PROVE Core'
  BY <1>2, ReplyCore
     DEF RaisesFirst, ReadyToResume, ReplyNow, Error, reactor, history, TypeOK,
         InCall
<1>3. ASSUME SkipCommand(i) PROVE Core'
  BY <1>3, ReplyCore
     DEF SkipCommand, ReadyToResume, ReplyNow, OK, reactor, history, TypeOK, InCall
<1>4. ASSUME CallDriver(i) PROVE Core'
  <2>1. TypeOK'
    BY <1>4 DEF CallDriver, ReadyToResume, reactor, history, TypeOK, Control, InCall
  <2>2. Control'
    BY <1>4, ConstantsAssumption
       DEF CallDriver, ReadyToResume, reactor, history, TypeOK, Control, InCall
  <2> QED
    BY <2>1, <2>2
<1>5. ASSUME Serve(i) PROVE Core'
  <2>1. StoreOK(store') /\ DOMAIN store'.coll = DOMAIN EmptyStore.coll
    BY <1>5, ServeKeepsStore
  <2>2. PICK r \in Command(store, i, req[i]) :
           /\ took' = IF r.ok THEN took \cup {i} ELSE took
           /\ Finish(i, IF r.ok THEN OK(r.data) ELSE Error) \/ Finish(i, Error)
    BY <1>5 DEF Serve
  <2>3. CASE r.ok /\ Finish(i, OK(r.data))
    BY <1>5, <2>1, <2>2, <2>3, ReplyCore DEF Serve, Finish, OK, reactor, InCall
  <2>4. CASE Finish(i, Error)
    BY <1>5, <2>1, <2>2, <2>4, ReplyCore DEF Serve, Finish, Error, reactor, InCall
  <2> QED
    BY <2>2, <2>3, <2>4
<1>6. ASSUME DriverRaises(i) PROVE Core'
  BY <1>6, ReplyCore DEF DriverRaises, Finish, Error, reactor, history, TypeOK, InCall
<1>7. ASSUME OpenCursor(i) PROVE Core'
  BY <1>7 DEF OpenCursor, reactor, TypeOK, Control, InCall
<1>8. ASSUME FetchBatch(i) PROVE Core'
  BY <1>8 DEF FetchBatch, reactor, history, TypeOK, Control
<1>9. ASSUME CursorExhausted(i) PROVE Core'
  <2>1. PICK data : Finish(i, OK(data))
    BY <1>9 DEF CursorExhausted
  <2>2. pc[i] = "reading" /\ UNCHANGED <<store, took, window>>
    BY <1>9 DEF CursorExhausted, history
  <2>3. IsFind(req[i])
    BY <2>2 DEF Control
  <2> QED
    BY <2>1, <2>2, <2>3, ReplyCore DEF Finish, OK, reactor, TypeOK, InCall
<1>10. ASSUME CursorKilled(i) PROVE Core'
  BY <1>10, ReplyCore DEF CursorKilled, Finish, Error, reactor, history, TypeOK, InCall
<1>11. ASSUME Return(i) PROVE Core'
  BY <1>11 DEF Return, reactor, history, TypeOK, Control, InCall
<1> QED
  BY <1>1, <1>2, <1>3, <1>4, <1>5, <1>6, <1>7, <1>8, <1>9, <1>10, <1>11 DEF Proceed

\* A step of a coroutine is about its own request.
LEMMA ProceedAlone ==
    ASSUME Core, NEW i \in ReqId, Proceed(i)
    PROVE  /\ pc[i] # "idle" /\ pc'[i] # "idle"
           /\ \A j \in ReqId \ {i} : pc'[j] = pc[j] /\ rep'[j] = rep[j]
           /\ took' \subseteq took \cup {i}
           /\ req' = req
<1> USE DEF Core, TypeOK
<1>1. CASE NoInstance(i) \/ RaisesFirst(i) \/ SkipCommand(i) \/ CallDriver(i)
  BY <1>1 DEF NoInstance, RaisesFirst, SkipCommand, CallDriver, ReadyToResume, ReplyNow,
              reactor, history
<1>2. CASE Serve(i) \/ DriverRaises(i)
  BY <1>2 DEF Serve, DriverRaises, Finish, reactor, history
<1>3. CASE OpenCursor(i) \/ FetchBatch(i) \/ CursorExhausted(i) \/ CursorKilled(i)
  BY <1>3 DEF OpenCursor, FetchBatch, CursorExhausted, CursorKilled, Finish, reactor, history
<1>4. CASE Return(i)
  BY <1>4 DEF Return, reactor, history
<1> QED
  BY <1>1, <1>2, <1>3, <1>4 DEF Proceed

LEMMA NextInv == IInv /\ [Next]_vars => IInv'
<1> SUFFICES ASSUME IInv, [Next]_vars PROVE IInv'
  OBVIOUS
<1> USE DEF IInv
<1>1. CASE UNCHANGED vars
  BY <1>1 DEF vars, Core, TypeOK, Control, Unapplied
<1>2. ASSUME NEW i \in ReqId, NEW s \in Shard, NEW q \in Requests, Accept(i, s, q)
      PROVE  IInv'
  <2>1. Core'
    BY <1>2, AcceptCore DEF Unapplied, Accept
  <2>2. Unapplied'
    BY <1>2 DEF Unapplied, Accept, history, Core, TypeOK
  <2> QED
    BY <2>1, <2>2
<1>3. ASSUME NEW i \in ReqId, Proceed(i) PROVE IInv'
  BY <1>3, ProceedCore, ProceedAlone DEF Unapplied
<1> QED
  BY <1>1, <1>2, <1>3 DEF Next, Quiescent

\* The invariant holds in every behaviour.
LEMMA Inductive == Spec => []IInv
BY InitInv, NextInv, PTL DEF Spec

\* The types, and that every document and index the program ever sees on the
\* server belongs to a collection that exists.
THEOREM TypeCorrect == Spec => []TypeOK
<1>1. IInv => TypeOK
  BY DEF IInv, Core
<1> QED
  BY <1>1, Inductive, PTL

\* No two requests of a shard are in a driver call at the same time, although
\* nothing but the blocked thread keeps them apart.
THEOREM ClientExclusive == Spec => []ClientNotShared
<1>1. IInv => ClientNotShared
  BY DEF IInv, Core, Control, ClientNotShared
<1> QED
  BY <1>1, Inductive, PTL

-----------------------------------------------------------------------------
(***************************************************************************)
(* What happens to documents, and what reads see of it.                    *)
(***************************************************************************)

\* Served commands do to documents what DocsMove allows.
LEMMA ServeMoves ==
    ASSUME Core, NEW i \in ReqId, Serve(i)
    PROVE  /\ DocsMove(store, i, req[i], store')
           /\ i \in took' \/ store' = store
           /\ took \subseteq took'
<1>1. PICK r \in Command(store, i, req[i]) :
         store' = r.st /\ took' = IF r.ok THEN took \cup {i} ELSE took
  BY DEF Serve
<1>2. /\ ~Rejected(req[i]) /\ ~IsFind(req[i]) /\ i # None
      /\ Namespaces(req[i]) \subseteq DOMAIN store.coll
  BY ConstantsAssumption DEF Core, TypeOK, Control, Serve, InCall
<1>3. StoreOK(store)
  BY DEF Core, TypeOK
<1>4. DocsMove(store, i, req[i], r.st)
  BY <1>2, <1>3, CommandDocs
<1>5. AllKeep(store, Command(store, i, req[i]))
  BY <1>2, <1>3, CommandKeeps
<1> QED
  BY <1>1, <1>4, <1>5 DEF AllKeep

\* Every other step of a coroutine leaves the server alone.
LEMMA OthersLeaveStore ==
    ASSUME NEW i \in ReqId, Proceed(i), ~Serve(i)
    PROVE  UNCHANGED <<store, took>>
BY DEF Proceed, NoInstance, RaisesFirst, SkipCommand, ReplyNow, CallDriver, DriverRaises,
       OpenCursor, FetchBatch, CursorExhausted, CursorKilled, Return, history

\* A document that a command removes or changes is one that it selects.
LEMMA MovedAreSelected ==
    ASSUME NEW i \in ReqId, DocsMove(store, i, req[i], store'), ~NothingToDo(req[i]),
           NEW d \in store.docs \ store'.docs
    PROVE  Affects(i, d)
<1> DEFINE q == req[i]
<1>1. CASE Is(q, "update", "document") /\ Updated(store, q, store')
  BY <1>1 DEF Updated, Affects
<1>2. CASE Is(q, "delete", "document") /\ Deleted(store, q, store')
  <2>1. q.content.filter # EmptyDoc
    BY <1>2 DEF NothingToDo
  <2> QED
    BY <1>2, <2>1 DEF Deleted, Affects
<1>3. CASE Is(q, "delete", "collection") /\ Dropped(store, {Ns(q.content)}, store')
  BY <1>3 DEF Dropped, Affects
<1>4. CASE /\ Is(q, "delete", "db")
           /\ Dropped(store, {n \in DOMAIN store.coll : n[1] = q.content.dbname}, store')
  BY <1>4 DEF Dropped, Affects
<1>5. store'.docs # store.docs /\ ~Inserted(store, i, store')
  BY DEF Inserted
<1>6. \/ Is(q, "update", "document") /\ Updated(store, q, store')
      \/ Is(q, "delete", "document") /\ Deleted(store, q, store')
      \/ Is(q, "delete", "collection") /\ Dropped(store, {Ns(q.content)}, store')
      \/ /\ Is(q, "delete", "db")
         /\ Dropped(store, {n \in DOMAIN store.coll : n[1] = q.content.dbname}, store')
  BY <1>5 DEF DocsMove
<1> HIDE DEF q
<1> QED
  BY <1>1, <1>2, <1>3, <1>4, <1>6

LEMMA LostAreSelected ==
    ASSUME Core, NEW i \in ReqId, Serve(i), NEW d \in store.docs \ store'.docs
    PROVE  pc[i] = "calling" /\ pc'[i] = "served" /\ Affects(i, d)
<1>1. pc[i] = "calling" /\ pc'[i] = "served"
  BY DEF Serve, Finish, Core, TypeOK
<1>2. ~NothingToDo(req[i])
  BY <1>1 DEF Core, Control, InCall
<1> QED
  BY <1>1, <1>2, ServeMoves, MovedAreSelected

LEMMA StepVanishes ==
    ASSUME IInv, [Next]_vars
    PROVE  [\A d \in store.docs \ store'.docs :
               \E i \in ReqId : pc[i] = "calling" /\ pc'[i] = "served" /\ Affects(i, d)]_vars
<1> SUFFICES ASSUME Next, NEW d \in store.docs \ store'.docs
             PROVE  \E i \in ReqId : pc[i] = "calling" /\ pc'[i] = "served" /\ Affects(i, d)
  OBVIOUS
<1>1. ~UNCHANGED store
  OBVIOUS
<1>2. PICK i \in ReqId : Proceed(i)
  BY <1>1 DEF Next, Quiescent, vars, Accept
<1>3. Serve(i)
  BY <1>1, <1>2, OthersLeaveStore
<1> QED
  BY <1>3, LostAreSelected DEF IInv

\* A document leaves the store, or changes, only in a step of a request that
\* selects it: no command reaches beyond its namespace and its filter, and a
\* delete without a filter removes nothing.
THEOREM OnlySelectedVanish == Spec => NothingElseVanishes
BY Inductive, StepVanishes, PTL DEF Spec, NothingElseVanishes

\* Documents are told apart by their identities, and one that bears the name of
\* a request is there because the request was served.
IdsInv ==
    /\ UniqueIds(store)
    /\ \A d \in store.docs : d.id \in ReqId => d.id \in took

\* The records that reads keep.
ReadShape ==
    /\ DOMAIN cursor = ReqId /\ DOMAIN window = ReqId
    /\ \A i \in ReqId :
          cursor[i] = [uid  |-> cursor[i].uid,  first |-> cursor[i].first,
                       seen |-> cursor[i].seen, got   |-> cursor[i].got]

\* An open cursor: what has matched all along still matches and was there at
\* the start, what matches now has been counted, and the documents that the
\* cursor has passed have been gathered if they have matched all along.
Reading(i) ==
    /\ window[i].always \subseteq cursor[i].first
    /\ cursor[i].uid = None => cursor[i].first = {}
    /\ window[i].always \subseteq Ids(FindMatches(store, i))
    /\ FindMatches(store, i) \subseteq window[i].ever
    /\ cursor[i].got \subseteq window[i].ever
    /\ window[i].always \cap cursor[i].seen \subseteq Ids(cursor[i].got)

Complete(i) ==
    /\ Partial(req[i].content) \/ window[i].always \subseteq Ids(rep[i].data)
    /\ rep[i].data \subseteq window[i].ever

Reads(i) ==
    /\ pc[i] = "reading" => Reading(i)
    /\ pc[i] \in {"served", "replied"} /\ rep[i].ok /\ IsFind(req[i]) => Complete(i)

ReadInv == IdsInv /\ ReadShape /\ \A i \in ReqId : Reads(i)

\* A read is not disturbed by a step of another request, which may execute a
\* command.
LEMMA Bystander ==
    ASSUME NEW j \in ReqId, Reads(j),
           pc'[j] = pc[j], req'[j] = req[j], cursor'[j] = cursor[j], rep'[j] = rep[j],
           (store' = store /\ window'[j] = window[j]) \/ Widen(store')
    PROVE  Reads(j)'
<1>1. FindMatches(store, j)' = FindMatches(store', j)
  BY DEF FindMatches
<1>2. CASE store' = store /\ window'[j] = window[j]
  BY <1>2 DEF Reads, Reading, Complete, FindMatches
<1>3. CASE Widen(store') /\ pc[j] # "reading"
  BY <1>3 DEF Widen, Reads, Complete
<1>4. CASE Widen(store') /\ pc[j] = "reading"
  <2>1. window'[j] = [always |-> window[j].always \cap Ids(FindMatches(store', j)),
                      ever   |-> window[j].ever \cup FindMatches(store', j)]
    BY <1>4 DEF Widen
  <2>2. Reading(j)
    BY <1>4 DEF Reads
  <2>3. Reading(j)'
    BY <1>1, <2>1, <2>2 DEF Reading
  <2> QED
    BY <1>4, <2>3 DEF Reads
<1> QED
  BY <1>2, <1>3, <1>4

\* A request that is not reading and is not answered with a read.
LEMMA NoRead ==
    ASSUME NEW i \in ReqId, pc'[i] # "reading",
           pc'[i] \in {"served", "replied"} => ~rep'[i].ok \/ ~IsFind(req'[i])
    PROVE  Reads(i)'
BY DEF Reads

\* What the loop has gathered of the documents that matched all along, after
\* the cursor has passed those of B.
LEMMA GatheredAlways ==
    ASSUME IdsInv, NEW i \in ReqId, Reading(i), NEW B \in SUBSET Ahead(i)
    PROVE  /\ Gathered(i, B) \subseteq window[i].ever
           /\ window[i].always \cap (cursor[i].seen \cup Ids(B)) \subseteq Ids(Gathered(i, B))
<1>1. Gathered(i, B) \subseteq window[i].ever
  BY DEF Gathered, Reading
<1>2. ASSUME NEW u \in window[i].always, u \in cursor[i].seen \cup Ids(B)
      PROVE  u \in Ids(Gathered(i, B))
  <2>1. CASE u \in cursor[i].seen
    BY <2>1 DEF Reading, Gathered, Ids
  <2>2. CASE u \in Ids(B)
    <3>1. PICK b \in B : b.id = u
      BY <2>2 DEF Ids
    <3>2. PICK d \in FindMatches(store, i) : d.id = u
      BY DEF Reading, Ids
    <3>3. d = b
      BY <3>1, <3>2 DEF IdsInv, UniqueIds, FindMatches, Ahead, Matching
    <3> QED
      BY <3>1, <3>2, <3>3 DEF Gathered, Ids
  <2> QED
    BY <1>2, <2>1, <2>2
<1> QED
  BY <1>1, <1>2

\* Once the cursor is exhausted nothing that matched all along is missing.
LEMMA ExhaustedComplete ==
    ASSUME IdsInv, NEW i \in ReqId, Reading(i), NEW B \in SUBSET Ahead(i),
           Ids(Ahead(i)) \cap cursor[i].first \subseteq Ids(B)
    PROVE  /\ Gathered(i, B) \subseteq window[i].ever
           /\ window[i].always \subseteq Ids(Gathered(i, B))
<1>1. ASSUME NEW u \in window[i].always
      PROVE  u \in cursor[i].seen \cup Ids(B)
  <2>1. PICK d \in FindMatches(store, i) : d.id = u
    BY DEF Reading, Ids
  <2>2. d \in Matching(store, Ns(req[i].content), EmptyDoc)
    BY DEF FindMatches, Matching, Match
  <2>3. CASE u \notin cursor[i].seen
    BY <2>1, <2>2, <2>3 DEF Ahead, Ids, Reading
  <2> QED
    BY <2>3
<1> QED
  BY <1>1, GatheredAlways

LEMMA InitReads == Init => ReadInv
<1> SUFFICES ASSUME Init PROVE ReadInv
  OBVIOUS
<1>1. IdsInv
  BY ConstantsAssumption DEF Init, IdsInv
<1>2. ReadShape /\ \A i \in ReqId : Reads(i)
  BY DEF Init, ReadShape, Reads
<1> QED
  BY <1>1, <1>2 DEF ReadInv

LEMMA ServeIds ==
    ASSUME Core, IdsInv, NEW i \in ReqId, Serve(i)
    PROVE  IdsInv'
<1>1. i \notin took /\ StoreOK(store)
  BY DEF Serve, Core, TypeOK, Control
<1>2. \A d \in store.docs : d.id # i
  BY <1>1 DEF IdsInv
<1>3. /\ DocsMove(store, i, req[i], store')
      /\ i \in took' \/ store' = store
      /\ took \subseteq took'
  BY ServeMoves
<1>4. /\ UniqueIds(store')
      /\ \A d \in store'.docs : d.id = i \/ \E e \in store.docs : e.id = d.id
  BY <1>1, <1>2, <1>3, CommandIds DEF IdsInv
<1> QED
  BY <1>2, <1>3, <1>4 DEF IdsInv

\* Each of its steps keeps what a request's read relies on.
LEMMA OwnReads ==
    ASSUME Core, ReadInv, NEW i \in ReqId, Proceed(i)
    PROVE  ReadShape' /\ Reads(i)'
<1> USE DEF Core, TypeOK, ReadInv, ReadShape
<1>1. CASE NoInstance(i)
  BY <1>1 DEF NoInstance, ReadyToResume, history, Reads
<1>2. CASE RaisesFirst(i)
  BY <1>2, NoRead
     DEF RaisesFirst, ReadyToResume, ReplyNow, Error, Reply, reactor, history
<1>3. CASE SkipCommand(i)
  BY <1>3, NoRead
     DEF SkipCommand, ReadyToResume, ReplyNow, NothingToDo, IsFind, Is, reactor, history
<1>4. CASE CallDriver(i)
  BY <1>4, NoRead DEF CallDriver, ReadyToResume, reactor, history
<1>5. CASE Serve(i)
  <2>1. ReadShape'
    BY <1>5 DEF Serve, Finish, Widen
  <2>2. Reads(i)'
    BY <1>5, NoRead DEF Serve, Finish, reactor
  <2> QED
    BY <2>1, <2>2
<1>6. CASE DriverRaises(i) \/ CursorKilled(i)
  BY <1>6, NoRead DEF DriverRaises, CursorKilled, Finish, Error, Reply, reactor, history
<1>7. CASE OpenCursor(i)
  <2> DEFINE c == [uid   |-> store.coll[Ns(req[i].content)],
                   first |-> Ids(Matching(store, Ns(req[i].content), EmptyDoc)),
                   seen  |-> {}, got |-> {}]
             w == [always |-> Ids(FindMatches(store, i)), ever |-> FindMatches(store, i)]
  <2>1. /\ cursor' = [cursor EXCEPT ![i] = c] /\ window' = [window EXCEPT ![i] = w]
        /\ pc' = [pc EXCEPT ![i] = "reading"] /\ UNCHANGED <<store, req>>
    BY <1>7 DEF OpenCursor, reactor
  <2>2. w.always \subseteq c.first
    BY DEF FindMatches, Matching, Match, Ids
  <2>3. c.uid = None => c.first = {}
    BY DEF Matching, Live, Ids
  <2>4. c = [uid |-> c.uid, first |-> c.first, seen |-> c.seen, got |-> c.got]
    OBVIOUS
  <2>5. /\ c.seen = {} /\ c.got = {}
        /\ w.always = Ids(FindMatches(store, i)) /\ w.ever = FindMatches(store, i)
    OBVIOUS
  <2> HIDE DEF c, w
  <2>6. ReadShape'
    BY <2>1, <2>4
  <2>7. FindMatches(store, i)' = FindMatches(store, i)
    BY <2>1 DEF FindMatches
  <2>8. Reading(i)'
    BY <2>1, <2>2, <2>3, <2>5, <2>7 DEF Reading, Ids
  <2> QED
    BY <2>1, <2>6, <2>8 DEF Reads
<1>8. CASE FetchBatch(i)
  <2>1. PICK B \in SUBSET Ahead(i) :
           cursor' = [cursor EXCEPT ![i].seen = @ \cup Ids(B), ![i].got = Gathered(i, B)]
    BY <1>8 DEF FetchBatch
  <2>2. pc[i] = "reading" /\ UNCHANGED <<store, pc, rep, req, window>>
    BY <1>8 DEF FetchBatch, reactor, history
  <2> DEFINE c == cursor[i]
             G == Gathered(i, B)
             S == c.seen \cup Ids(B)
  <2> HIDE DEF G, S
  <2>3. c = [uid |-> c.uid, first |-> c.first, seen |-> c.seen, got |-> c.got]
    OBVIOUS
  <2> DEFINE a == [c EXCEPT !.seen = S]
             n == [uid |-> c.uid, first |-> c.first, seen |-> S, got |-> G]
  <2>4. cursor' = [cursor EXCEPT ![i] = [a EXCEPT !.got = G]]
    BY <2>1 DEF S, G
  <2>5. a = [uid |-> c.uid, first |-> c.first, seen |-> S, got |-> c.got]
    BY <2>3
  <2>6. cursor' = [cursor EXCEPT ![i] = n] /\ cursor'[i] = n
    <3> HIDE DEF a
    <3>1. [a EXCEPT !.got = G] = n
      BY <2>5
    <3> HIDE DEF n
    <3> QED
      BY <2>4, <3>1
  <2> HIDE DEF n
  <2>7. ReadShape'
    BY <2>2, <2>6 DEF n
  <2>8. Reading(i)
    BY <2>2 DEF Reads
  <2>9. G \subseteq window[i].ever /\ window[i].always \cap S \subseteq Ids(G)
    BY <2>8, GatheredAlways DEF G, S
  <2>10. FindMatches(store, i)' = FindMatches(store, i)
    BY <2>2 DEF FindMatches
  <2>11. Reading(i)'
    BY <2>2, <2>6, <2>8, <2>9, <2>10 DEF Reading, Ids, n
  <2> QED
    BY <2>2, <2>7, <2>11 DEF Reads
<1>9. CASE CursorExhausted(i)
  <2>1. pc[i] = "reading" /\ UNCHANGED <<store, cursor, window, req>>
    BY <1>9 DEF CursorExhausted, Finish, reactor, history
  <2>2. Reading(i)
    BY <2>1 DEF Reads
  <2>3. PICK D : /\ Finish(i, OK(D))
                 /\ D \subseteq window[i].ever
                 /\ Partial(req[i].content) \/ window[i].always \subseteq Ids(D)
    <3>1. CASE cursor[i].uid = None /\ Finish(i, OK({}))
      BY <2>2, <3>1 DEF Reading
    <3>2. CASE \E B \in SUBSET Ahead(i) : /\ Ids(Ahead(i)) \cap cursor[i].first \subseteq Ids(B)
                                          /\ Finish(i, OK(Gathered(i, B)))
      <4>1. PICK B \in SUBSET Ahead(i) :
               /\ Ids(Ahead(i)) \cap cursor[i].first \subseteq Ids(B)
               /\ Finish(i, OK(Gathered(i, B)))
        BY <3>2
      <4>2. /\ Gathered(i, B) \subseteq window[i].ever
            /\ window[i].always \subseteq Ids(Gathered(i, B))
        BY <2>2, <4>1, ExhaustedComplete
      <4> QED
        BY <4>1, <4>2
    <3>3. ASSUME Partial(req[i].content), NEW D \in SUBSET Gathered(i, Ahead(i))
          PROVE  D \subseteq window[i].ever
      BY <2>2, <3>3, GatheredAlways
    <3> QED
      BY <1>9, <3>1, <3>2, <3>3 DEF CursorExhausted
  <2>4. rep'[i].data = D /\ pc'[i] = "served"
    BY <2>3 DEF Finish, OK, Reply
  <2>5. Complete(i)'
    BY <2>1, <2>3, <2>4 DEF Complete, Ids
  <2> QED
    BY <2>1, <2>4, <2>5 DEF Reads
<1>10. CASE Return(i)
  BY <1>10 DEF Return, reactor, history, Reads, Complete
<1> QED
  BY <1>1, <1>2, <1>3, <1>4, <1>5, <1>6, <1>7, <1>8, <1>9, <1>10 DEF Proceed

\* A step of a request's coroutine touches the cursor, the reply and the window
\* of that request only, apart from the command that widens the others.
LEMMA ReadsAlone ==
    ASSUME Core, ReadShape, NEW i \in ReqId, Proceed(i), NEW j \in ReqId \ {i}
    PROVE  /\ pc'[j] = pc[j] /\ req'[j] = req[j]
           /\ cursor'[j] = cursor[j] /\ rep'[j] = rep[j]
           /\ (store' = store /\ window'[j] = window[j]) \/ Widen(store')
<1> USE DEF Core, TypeOK, ReadShape
<1>1. CASE NoInstance(i) \/ RaisesFirst(i) \/ SkipCommand(i) \/ CallDriver(i)
  BY <1>1 DEF NoInstance, RaisesFirst, SkipCommand, CallDriver, ReplyNow, reactor, history
<1>2. CASE Serve(i)
  BY <1>2 DEF Serve, Finish, reactor
<1>3. CASE DriverRaises(i)
  BY <1>3 DEF DriverRaises, Finish, reactor, history
<1>4. CASE OpenCursor(i) \/ FetchBatch(i) \/ CursorKilled(i)
  BY <1>4 DEF OpenCursor, FetchBatch, CursorKilled, Finish, reactor, history
<1>5. CASE CursorExhausted(i)
  <2>1. PICK D : Finish(i, OK(D))
    BY <1>5 DEF CursorExhausted
  <2> QED
    BY <1>5, <2>1 DEF CursorExhausted, Finish, reactor, history
<1>6. CASE Return(i)
  BY <1>6 DEF Return, reactor, history
<1> QED
  BY <1>1, <1>2, <1>3, <1>4, <1>5, <1>6 DEF Proceed

\* Nothing that reads rely on has changed.
LEMMA ReadsKept ==
    ReadInv /\ UNCHANGED <<store, pc, req, rep, cursor, took, window>> => ReadInv'
BY DEF ReadInv, IdsInv, ReadShape, Reads, Reading, Complete, FindMatches

\* A request that is accepted is not reading yet.
LEMMA AcceptReads ==
    ASSUME Core, ReadInv, NEW i \in ReqId, NEW s \in Shard, NEW q \in Requests,
           Accept(i, s, q)
    PROVE  ReadInv'
<1>1. IdsInv' /\ ReadShape'
  BY DEF Accept, history, ReadInv, IdsInv, ReadShape
<1>2. Reads(i)'
  <2>1. CASE Rejected(q)
    BY <2>1, NoRead DEF Accept, Routed, Error, Reply, Core, TypeOK
  <2>2. CASE ~Rejected(q)
    BY <2>2, NoRead DEF Accept, Routed, Core, TypeOK
  <2> QED
    BY <2>1, <2>2
<1>3. ASSUME NEW j \in ReqId \ {i} PROVE Reads(j)'
  BY Bystander DEF Accept, history, Core, TypeOK, ReadInv
<1> QED
  BY <1>1, <1>2, <1>3 DEF ReadInv

\* A step of a coroutine keeps what its own read and all others rely on.
LEMMA ProceedReads ==
    ASSUME Core, ReadInv, NEW i \in ReqId, Proceed(i)
    PROVE  ReadInv'
<1>1. IdsInv'
  <2>1. CASE Serve(i)
    BY <2>1, ServeIds DEF ReadInv
  <2>2. CASE ~Serve(i)
    <3>1. UNCHANGED <<store, took>>
      BY <2>2, OthersLeaveStore
    <3> QED
      BY <3>1 DEF ReadInv, IdsInv
  <2> QED
    BY <2>1, <2>2
<1>2. ReadShape' /\ Reads(i)'
  BY OwnReads
<1>3. ASSUME NEW j \in ReqId \ {i} PROVE Reads(j)'
  BY ReadsAlone, Bystander DEF ReadInv
<1> QED
  BY <1>1, <1>2, <1>3 DEF ReadInv

LEMMA NextReads ==
    ASSUME IInv, ReadInv, [Next]_vars
    PROVE  ReadInv'
BY ReadsKept, AcceptReads, ProceedReads DEF IInv, Next, Quiescent, vars, history

\* A read answered "ok" has returned every document that matched from the
\* opening of its cursor to the end, and none that never matched, whatever the
\* other shards did to the collection meanwhile.
THEOREM ReadsComplete == Spec => []ReadIsComplete
<1>1. Init => IInv /\ ReadInv
  BY InitInv, InitReads
<1>2. (IInv /\ ReadInv) /\ [Next]_vars => (IInv /\ ReadInv)'
  BY NextInv, NextReads
<1>3. ReadInv => ReadIsComplete
  BY DEF ReadInv, Reads, Complete, ReadIsComplete
<1> QED
  BY <1>1, <1>2, <1>3, PTL DEF Spec

-----------------------------------------------------------------------------
(***************************************************************************)
(* The refinement.  AtMostOnce is instantiated with its own copy of the    *)
(* operators of MongoDBInterface; they are the same operators.             *)
(***************************************************************************)

LEMMA SameRejected == \A q : Promise!Rejected(q) <=> Rejected(q)
BY DEF Rejected, Promise!Rejected, from_json, Promise!from_json, crud_operation,
       Promise!crud_operation, mongo_class, Promise!mongo_class, Fields, Promise!Fields,
       CreateFields, Promise!CreateFields, ReadFields, Promise!ReadFields, UpdateFields,
       Promise!UpdateFields, DeleteFields, Promise!DeleteFields, InColl, Promise!InColl,
       Optional, Promise!Optional, Is, Promise!Is, IsFind, Promise!IsFind

LEMMA SameCommand == \A s, i, q : Promise!Command(s, i, q) = Command(s, i, q)
BY DEF Command, Promise!Command, Is, Promise!Is, Ns, Promise!Ns, Listed, Promise!Listed,
       createDB, Promise!createDB, createCollection, Promise!createCollection,
       createDocument, Promise!createDocument, createIndex, Promise!createIndex,
       readDB, Promise!readDB, readCollection, Promise!readCollection,
       readIndex, Promise!readIndex, updateCollection, Promise!updateCollection,
       updateDocument, Promise!updateDocument, deleteDB, Promise!deleteDB,
       deleteCollection, Promise!deleteCollection, deleteDocument, Promise!deleteDocument,
       deleteIndex, Promise!deleteIndex,
       Returned, Promise!Returned, Raised, Promise!Raised, Live, Promise!Live,
       Match, Promise!Match, Matching, Promise!Matching, Ensure, Promise!Ensure,
       CreateCollection, Promise!CreateCollection, InsertOne, Promise!InsertOne,
       CreateIndex, Promise!CreateIndex, ListDatabases, Promise!ListDatabases,
       ListCollections, Promise!ListCollections, ListIndexes, Promise!ListIndexes,
       Rename, Promise!Rename, SetDocs, Promise!SetDocs, Targets, Promise!Targets,
       Update, Promise!Update, Delete, Promise!Delete, Drop, Promise!Drop,
       DropIndex, Promise!DropIndex

\* Only request i changes its phase.
LEMMA OnePhase ==
    ASSUME NEW i \in ReqId, \A j \in ReqId \ {i} : Phase(j)' = Phase(j)
    PROVE  phaseBar' = [phaseBar EXCEPT ![i] = Phase(i)']
BY DEF phaseBar

LEMMA SamePhases ==
    ASSUME \A j \in ReqId : Phase(j)' = Phase(j)
    PROVE  phaseBar' = phaseBar
BY DEF phaseBar

LEMMA InitRefines == Init => Promise!Init
BY DEF Init, Promise!Init, phaseBar, Phase

\* A step that leaves store, requests and phases alone is a stutter above.
LEMMA Stutters ==
    ASSUME \A j \in ReqId : Phase(j)' = Phase(j), UNCHANGED <<store, req>>
    PROVE  UNCHANGED Promise!vars
BY SamePhases DEF Promise!vars

\* The reply that closes a request is AnswerOk or AnswerError above.
LEMMA AnswerRefines ==
    ASSUME IInv, NEW i \in ReqId,
           pc[i] \in {"await", "served"}, pc' = [pc EXCEPT ![i] = "replied"],
           rep'[i].status = 200,
           rep'[i].ok => i \in took \/ IsFind(req[i]) \/ NothingToDo(req[i]),
           \A j \in ReqId \ {i} : rep'[j] = rep[j],
           UNCHANGED <<store, req, took>>
    PROVE  Promise!Next
<1>1. /\ Phase(i) = IF i \in took THEN "applied" ELSE "open"
      /\ Phase(i)' = IF rep'[i].ok THEN "ok" ELSE "error"
      /\ \A j \in ReqId \ {i} : Phase(j)' = Phase(j)
  BY DEF Phase, IInv, Core, TypeOK
<1>2. phaseBar' = [phaseBar EXCEPT ![i] = Phase(i)']
  BY <1>1, OnePhase
<1>3. phaseBar[i] = Phase(i)
  BY DEF phaseBar
<1>4. CASE rep'[i].ok
  <2>1. phaseBar' = [phaseBar EXCEPT ![i] = "ok"]
    BY <1>1, <1>2, <1>4
  <2>2. \/ phaseBar[i] = "applied"
        \/ phaseBar[i] = "open" /\ (Promise!IsFind(req[i]) \/ Promise!NothingToDo(req[i]))
    <3>1. CASE i \in took
      BY <1>1, <1>3, <3>1
    <3>2. CASE i \notin took
      <4>1. IsFind(req[i]) \/ NothingToDo(req[i])
        BY <1>4, <3>2, Zenon
      <4>2. Promise!IsFind(req[i]) \/ Promise!NothingToDo(req[i])
        BY <4>1
           DEF IsFind, Promise!IsFind, NothingToDo, Promise!NothingToDo, Is,
               Promise!Is
      <4> QED
        BY <1>1, <1>3, <3>2, <4>2
    <3> QED
      BY <3>1, <3>2
  <2>3. Promise!AnswerOk(i)
    BY <2>1, <2>2 DEF Promise!AnswerOk
  <2> QED
    BY <2>3 DEF Promise!Next
<1>5. CASE ~rep'[i].ok
  <2>1. Promise!AnswerError(i)
    BY <1>1, <1>2, <1>3, <1>5 DEF Promise!AnswerError
  <2> QED
    BY <2>1 DEF Promise!Next
<1> QED
  BY <1>4, <1>5

LEMMA AcceptRefines ==
    ASSUME IInv, NEW i \in ReqId, NEW s \in Shard, NEW q \in Requests, Accept(i, s, q)
    PROVE  Promise!Next
<1>1. /\ Phase(i) = "idle"
      /\ \A j \in ReqId \ {i} : Phase(j)' = Phase(j)
  BY DEF Accept, history, Phase, IInv, Core, TypeOK
<1>2. Phase(i)' = IF Rejected(q) THEN "error" ELSE "open"
  <2>1. CASE Rejected(q)
    BY <2>1 DEF Accept, Routed, Error, Reply, Phase, IInv, Core, TypeOK
  <2>2. CASE ~Rejected(q)
    BY <2>2 DEF Accept, Routed, history, Phase, IInv, Core, TypeOK, Unapplied
  <2> QED
    BY <2>1, <2>2
<1>3. phaseBar' = [phaseBar EXCEPT ![i] = Phase(i)'] /\ phaseBar[i] = Phase(i)
  BY <1>1, OnePhase DEF phaseBar
<1>4. Promise!Receive(i)
  BY <1>1, <1>2, <1>3, SameRejected DEF Promise!Receive, Accept
<1> QED
  BY <1>4 DEF Promise!Next

\* The server's execution of a command is Apply above, unless it refuses it.
LEMMA ServeRefines ==
    ASSUME IInv, NEW i \in ReqId, Serve(i)
    PROVE  [Promise!Next]_(Promise!vars)
<1>1. PICK r \in Command(store, i, req[i]) :
         /\ store' = r.st
         /\ took' = IF r.ok THEN took \cup {i} ELSE took
  BY DEF Serve
<1>2. /\ pc[i] = "calling" /\ pc' = [pc EXCEPT ![i] = "served"]
      /\ i \notin took /\ ~IsFind(req[i]) /\ ~NothingToDo(req[i])
      /\ req' = req
      /\ \A j \in ReqId \ {i} : rep'[j] = rep[j]
  <2>1. /\ pc[i] = "calling" /\ pc' = [pc EXCEPT ![i] = "served"]
        /\ ~IsFind(req[i]) /\ req' = req
    BY DEF Serve, Finish, reactor
  <2>2. i \notin took /\ ~NothingToDo(req[i])
    BY <2>1 DEF IInv, Core, Control, InCall
  <2>3. \E x : rep' = [rep EXCEPT ![i] = x]
    BY DEF Serve, Finish
  <2>4. \A j \in ReqId \ {i} : rep'[j] = rep[j]
    BY <2>3 DEF IInv, Core, TypeOK
  <2> QED
    BY <2>1, <2>2, <2>4
<1>3. \A j \in ReqId \ {i} : Phase(j)' = Phase(j)
  BY <1>1, <1>2 DEF Phase, IInv, Core, TypeOK
<1>4. Phase(i) = "open" /\ Phase(i)' = IF i \in took' THEN "applied" ELSE "open"
  BY <1>2 DEF Phase, IInv, Core, TypeOK
<1>5. CASE r.ok
  <2>1. phaseBar' = [phaseBar EXCEPT ![i] = "applied"] /\ phaseBar[i] = "open"
    BY <1>1, <1>3, <1>4, <1>5, OnePhase DEF phaseBar
  <2>2. r \in Promise!Command(store, i, req[i])
    BY SameCommand
  <2>3. \E x \in Promise!Command(store, i, req[i]) : x.ok /\ store' = x.st
    BY <1>1, <1>5, <2>2
  <2>4. ~Promise!IsFind(req[i]) /\ ~Promise!NothingToDo(req[i])
    BY <1>2 DEF IsFind, Promise!IsFind, NothingToDo, Promise!NothingToDo, Is, Promise!Is
  <2>5. Promise!Apply(i)
    BY <1>2, <2>1, <2>3, <2>4, Zenon DEF Promise!Apply
  <2> QED
    BY <2>5 DEF Promise!Next
<1>6. CASE ~r.ok
  <2>1. AllKeep(store, Command(store, i, req[i]))
    BY <1>2, ConstantsAssumption, CommandKeeps DEF IInv, Core, TypeOK, Control, InCall
  <2>2. store' = store
    BY <1>1, <1>6, <2>1 DEF AllKeep
  <2>3. \A j \in ReqId : Phase(j)' = Phase(j)
    BY <1>1, <1>2, <1>3, <1>4, <1>6
  <2> QED
    BY <1>2, <2>2, <2>3, Stutters
<1> QED
  BY <1>5, <1>6

\* Every step of CrudHandler is a step of AtMostOnce or a stutter.
LEMMA StepRefines == IInv /\ [Next]_vars => [Promise!Next]_(Promise!vars)
<1> SUFFICES ASSUME IInv, [Next]_vars PROVE [Promise!Next]_(Promise!vars)
  OBVIOUS
<1> USE DEF IInv, Core
<1>1. CASE UNCHANGED vars
  BY <1>1, Stutters DEF vars, Phase
<1>2. ASSUME NEW i \in ReqId, NoInstance(i) PROVE UNCHANGED Promise!vars
  BY <1>2, Stutters DEF NoInstance, history, Phase
<1>3. ASSUME NEW i \in ReqId, RaisesFirst(i) PROVE Promise!Next
  BY <1>3, AnswerRefines
     DEF RaisesFirst, ReadyToResume, ReplyNow, Error, Reply, reactor, history, TypeOK
<1>4. ASSUME NEW i \in ReqId, SkipCommand(i) PROVE Promise!Next
  BY <1>4, AnswerRefines
     DEF SkipCommand, ReadyToResume, ReplyNow, OK, Reply, reactor, history, TypeOK
<1>5. ASSUME NEW i \in ReqId, CallDriver(i) PROVE UNCHANGED Promise!vars
  BY <1>5, Stutters DEF CallDriver, ReadyToResume, reactor, history, Phase, TypeOK
<1>6. ASSUME NEW i \in ReqId, DriverRaises(i) PROVE UNCHANGED Promise!vars
  BY <1>6, Stutters DEF DriverRaises, Finish, reactor, history, Phase, TypeOK
<1>7. ASSUME NEW i \in ReqId, OpenCursor(i) PROVE UNCHANGED Promise!vars
  BY <1>7, Stutters DEF OpenCursor, reactor, Phase, TypeOK
<1>8. ASSUME NEW i \in ReqId, FetchBatch(i) PROVE UNCHANGED Promise!vars
  BY <1>8, Stutters DEF FetchBatch, reactor, history, Phase
<1>9. ASSUME NEW i \in ReqId, CursorExhausted(i) PROVE UNCHANGED Promise!vars
  <2>1. PICK data : Finish(i, OK(data))
    BY <1>9 DEF CursorExhausted
  <2>2. pc[i] = "reading" /\ UNCHANGED <<store, took, window>>
    BY <1>9 DEF CursorExhausted, history
  <2> QED
    BY <2>1, <2>2, Stutters DEF Finish, reactor, Phase, TypeOK
<1>10. ASSUME NEW i \in ReqId, CursorKilled(i) PROVE UNCHANGED Promise!vars
  BY <1>10, Stutters DEF CursorKilled, Finish, reactor, history, Phase, TypeOK
<1>11. ASSUME NEW i \in ReqId, Return(i) PROVE Promise!Next
  BY <1>11, AnswerRefines DEF Return, reactor, history, TypeOK, Control
<1> QED
  BY <1>1, <1>2, <1>3, <1>4, <1>5, <1>6, <1>7, <1>8, <1>9, <1>10, <1>11,
     AcceptRefines, ServeRefines DEF Next, Proceed, Quiescent

\* Whatever the shards interleave, the clients left unusable and the answers
\* lost, the bridge is the at-most-once service of AtMostOnce.
THEOREM Refinement == Spec => ImplementsAtMostOnce
BY Inductive, InitRefines, StepRefines, PTL DEF Spec, ImplementsAtMostOnce, Promise!Spec
=============================================================================
