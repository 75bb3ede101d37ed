---------------------------- MODULE BridgeProofs -----------------------------
(***************************************************************************)
(* The whole program proved, through crashes and restarts, for any shards, *)
(* any number of requests and runs, with and without faults: the types,    *)
(* when it may abort, what every driver call can rely on, what becomes of  *)
(* documents and reads, and that its clients still see the at-most-once    *)
(* service of AtMostOnce.                                                  *)
(*                                                                         *)
(* The proofs of the three parts are used as they are, instantiated as     *)
(* Bridge instantiates the parts: DBP for DB, MP for Main, CP for Crud.    *)
(* What is new is what ties the parts together.                            *)
(***************************************************************************)
EXTENDS Bridge, StoreProofs

DBP == INSTANCE DBClientsProofs
MP  == INSTANCE LifecycleProofs WITH pc <- line, up <- services, rq <- conn, Faults <- TRUE
CP  == INSTANCE CrudProofs WITH up <- alive, FairShards <- Shard

\* Each part keeps its own invariant, with two exceptions.  main_fut's speaks of
\* a process, so it holds while there is one; and a request whose process is
\* gone is idle again but may have been executed, so of CrudHandler's only Core.
Parts ==
    /\ DBP!IInv
    /\ MP!TypeOK /\ (phase # "down" => MP!Stage)
    /\ CP!Core

\* Nothing is left of a process that is not there.
Gone ==
    phase = "down" =>
        /\ line = "exited" /\ services = {}
        /\ ~caught /\ ~listening /\ ~failed
        /\ \A i \in ReqId : conn[i] # "running"

\* main_fut goes on when Init has returned, and leaves when it has returned or
\* thrown; it takes the clients for started if and only if there are any.
Awaits ==
    /\ line = "leave" => phase \in {"returned", "threw"}
    /\ line \notin {"init", "leave", "exited"} =>
          /\ phase = "returned"
          /\ "clients" \in services <=> clients # DB!Everywhere("none")

\* The connection of a request and its coroutine.
Served(i) ==
    /\ conn[i] = "none" => pc[i] = "idle" /\ i \notin took
    /\ conn[i] = "running" => pc[i] # "idle"
    /\ conn[i] = "replied" => pc[i] = "replied"
    /\ pc[i] \in CP!InCall \cup {"await"} => conn[i] = "running"
    /\ pc[i] \in CP!InCall => clients[shard[i]] = "connected"

\* A command that has outlived its process has passed handle's checks, and it
\* has not been executed.
Overdue(i) ==
    /\ conn[i] = "lost" /\ pc[i] = "idle"
    /\ i \notin took
    /\ req[i] \in Requests
    /\ ~Rejected(req[i]) /\ ~IsFind(req[i]) /\ ~NothingToDo(req[i])

\* A process that has aborted stays so until it is gone and started again.
Aborted ==
    /\ failed_to_init /\ clients = DB!Everywhere("none")
    /\ line = "aborted" \/ phase = "down"

Links ==
    /\ Gone /\ Awaits
    /\ \A i \in ReqId : Served(i)
    /\ late \subseteq ReqId /\ \A i \in late : Overdue(i)
    /\ ~alive => Aborted

IInv == Parts /\ Links

-----------------------------------------------------------------------------
(*****************************************************************************)
(* The parts as Bridge and as their proofs instantiate them have the same  *)
(* definitions.                                                            *)
(*****************************************************************************)

\* main_fut: its type invariant and its steps.
LEMMA SameMain ==
    /\ Main!TypeOK <=> MP!TypeOK
    /\ Main!MainStep => MP!Next
    /\ Main!Signal => MP!Next
    /\ \A i \in ReqId : Main!Arrive(i) \/ Main!Answer(i) \/ Main!Abort(i) => MP!Next
<1>1. Main!TypeOK <=> MP!TypeOK
  BY DEF Main!TypeOK, MP!TypeOK, Main!Startup, MP!Startup, Main!Service, MP!Service
<1>2. Main!StartNext => MP!StartNext
  BY DEF Main!StartNext, MP!StartNext, Main!Startup, MP!Startup, Main!After, MP!After,
         Main!Starts, MP!Starts
<1>3. Main!StartThrows => MP!StartThrows
  BY DEF Main!StartThrows, MP!StartThrows, Main!Startup, MP!Startup
<1>4. Main!MainStep => MP!MainStep
  BY <1>2, <1>3
     DEF Main!MainStep, MP!MainStep, Main!WaitIsOver, MP!WaitIsOver, Main!StopServer,
         MP!StopServer, Main!ServerStopped, MP!ServerStopped, Main!StopCrud, MP!StopCrud,
         Main!Leave, MP!Leave
<1>5. Main!Signal => MP!Signal
  BY DEF Main!Signal, MP!Signal, Main!Ended, MP!Ended
<1>6. ASSUME NEW i \in ReqId
      PROVE  /\ Main!Arrive(i) => MP!Arrive(i)
             /\ Main!Answer(i) => MP!Answer(i)
             /\ Main!Abort(i) => MP!Abort(i)
  BY DEF Main!Arrive, MP!Arrive, Main!Answer, MP!Answer, Main!Abort, MP!Abort, Main!Ended,
         MP!Ended
<1> QED
  BY <1>1, <1>4, <1>5, <1>6 DEF MP!Next, MP!Handle

\* DBClients::Init and the life of the process.
LEMMA SameDB ==
    /\ DB!TypeOK <=> DBP!TypeOK
    /\ DB!Boot \/ DB!End => DBP!Next
    /\ DB!Control \/ (\E s \in Shard : DB!ShardStep(s)) => DBP!Next
<1> USE DEF DB!Everywhere, DBP!Everywhere, DB!process, DBP!process, DB!log, DBP!log
<1>1. DB!TypeOK <=> DBP!TypeOK
  BY DEF DB!TypeOK, DBP!TypeOK, DB!Row, DBP!Row
<1>2. (DB!Boot => DBP!Boot) /\ (DB!End => DBP!End)
  BY DEF DB!Boot, DBP!Boot, DB!End, DBP!End
<1>3. DB!Control => DBP!Control
  BY DEF DB!Control, DBP!Control, DB!StartClients, DBP!StartClients, DB!StartFails,
         DBP!StartFails, DB!JoinAssign, DBP!JoinAssign, DB!JoinLog, DBP!JoinLog,
         DB!Returns, DBP!Returns, DB!AllOver, DBP!AllOver, DB!SomeRaised, DBP!SomeRaised
<1>4. ASSUME NEW s \in Shard PROVE DB!ShardStep(s) => DBP!ShardStep(s)
  BY DEF DB!ShardStep, DBP!ShardStep, DB!Assign, DBP!Assign, DB!AssignRaises,
         DBP!AssignRaises, DB!HasCollection, DBP!HasCollection, DB!CreateCollection,
         DBP!CreateCollection, DB!ReadCleared, DBP!ReadCleared, DB!DeleteMany,
         DBP!DeleteMany, DB!SetCleared, DBP!SetCleared, DB!InsertOne, DBP!InsertOne,
         DB!At, DBP!At, DB!Goto, DBP!Goto, DB!Raise, DBP!Raise
<1> QED
  BY <1>1, <1>2, <1>3, <1>4 DEF DBP!Next

\* The request: whether handle rejects it, what kind it is.
LEMMA SameRejected ==
    \A q : /\ CP!Rejected(q) <=> Rejected(q)
           /\ Crud!Rejected(q) <=> Rejected(q)
           /\ Promise!Rejected(q) <=> Rejected(q)
BY DEF Rejected, CP!Rejected, from_json, CP!from_json, crud_operation,
       CP!crud_operation, mongo_class, CP!mongo_class, Fields, CP!Fields,
       CreateFields, CP!CreateFields, ReadFields, CP!ReadFields, UpdateFields,
       CP!UpdateFields, DeleteFields, CP!DeleteFields, InColl, CP!InColl,
       Optional, CP!Optional, Is, CP!Is, IsFind, CP!IsFind,
       Crud!Optional, Crud!Is, Crud!IsFind, Promise!Optional, Promise!Is, Promise!IsFind,
       Crud!Rejected, Crud!from_json, Crud!crud_operation, Crud!mongo_class, Crud!Fields,
       Crud!CreateFields, Crud!ReadFields, Crud!UpdateFields, Crud!DeleteFields, Crud!InColl,
       Promise!Rejected, Promise!from_json, Promise!crud_operation, Promise!mongo_class,
       Promise!Fields, Promise!CreateFields, Promise!ReadFields, Promise!UpdateFields,
       Promise!DeleteFields, Promise!InColl

LEMMA SameKind ==
    \A q : /\ CP!IsFind(q) <=> IsFind(q)
           /\ Crud!IsFind(q) <=> IsFind(q)
           /\ Promise!IsFind(q) <=> IsFind(q)
           /\ CP!NothingToDo(q) <=> NothingToDo(q)
           /\ Crud!NothingToDo(q) <=> NothingToDo(q)
           /\ Promise!NothingToDo(q) <=> NothingToDo(q)
           /\ Crud!OptionRaises(q) <=> CP!OptionRaises(q)
BY DEF IsFind, CP!IsFind, Crud!IsFind, Promise!IsFind, NothingToDo, CP!NothingToDo,
       Crud!NothingToDo, Promise!NothingToDo, Is, CP!Is, Crud!Is, Promise!Is,
       Crud!OptionRaises, CP!OptionRaises, Crud!Options, CP!Options, Crud!FindOptions,
       CP!FindOptions

\* The commands of MongoDBInterface.
LEMMA SameCommandCP == \A s, i, q : CP!Command(s, i, q) = Command(s, i, q)
BY DEF Command, CP!Command, Is, CP!Is, Ns, CP!Ns, Listed, CP!Listed,
       createDB, CP!createDB, createCollection, CP!createCollection,
       createDocument, CP!createDocument, createIndex, CP!createIndex,
       readDB, CP!readDB, readCollection, CP!readCollection,
       readIndex, CP!readIndex, updateCollection, CP!updateCollection,
       updateDocument, CP!updateDocument, deleteDB, CP!deleteDB,
       deleteCollection, CP!deleteCollection, deleteDocument, CP!deleteDocument,
       deleteIndex, CP!deleteIndex,
       Returned, CP!Returned, Raised, CP!Raised, Live, CP!Live,
       Match, CP!Match, Matching, CP!Matching, Ensure, CP!Ensure,
       CreateCollection, CP!CreateCollection, InsertOne, CP!InsertOne,
       CreateIndex, CP!CreateIndex, ListDatabases, CP!ListDatabases,
       ListCollections, CP!ListCollections, ListIndexes, CP!ListIndexes,
       Rename, CP!Rename, SetDocs, CP!SetDocs, Targets, CP!Targets,
       Update, CP!Update, Delete, CP!Delete, Drop, CP!Drop,
       DropIndex, CP!DropIndex

LEMMA SameCommandC == \A s, i, q : Crud!Command(s, i, q) = Command(s, i, q)
BY DEF Command, Crud!Command, Is, Crud!Is, Ns, Crud!Ns, Listed, Crud!Listed,
       createDB, Crud!createDB, createCollection, Crud!createCollection,
       createDocument, Crud!createDocument, createIndex, Crud!createIndex,
       readDB, Crud!readDB, readCollection, Crud!readCollection,
       readIndex, Crud!readIndex, updateCollection, Crud!updateCollection,
       updateDocument, Crud!updateDocument, deleteDB, Crud!deleteDB,
       deleteCollection, Crud!deleteCollection, deleteDocument, Crud!deleteDocument,
       deleteIndex, Crud!deleteIndex,
       Returned, Crud!Returned, Raised, Crud!Raised, Live, Crud!Live,
       Match, Crud!Match, Matching, Crud!Matching, Ensure, Crud!Ensure,
       CreateCollection, Crud!CreateCollection, InsertOne, Crud!InsertOne,
       CreateIndex, Crud!CreateIndex, ListDatabases, Crud!ListDatabases,
       ListCollections, Crud!ListCollections, ListIndexes, Crud!ListIndexes,
       Rename, Crud!Rename, SetDocs, Crud!SetDocs, Targets, Crud!Targets,
       Update, Crud!Update, Delete, Crud!Delete, Drop, Crud!Drop,
       DropIndex, Crud!DropIndex

LEMMA SameCommandP == \A s, i, q : Promise!Command(s, i, q) = Command(s, i, q)
BY DEF Command, Promise!Command, Is, Promise!Is, Ns, Promise!Ns, Listed, Promise!Listed,
       createDB, Promise!createDB, createCollection, Promise!createCollection,
       createDocument, Promise!createDocument, createIndex, Promise!createIndex,
       readDB, Promise!readDB, readCollection, Promise!readCollection,
       readIndex, Promise!readIndex, updateCollection, Promise!updateCollection,
       updateDocument, Promise!updateDocument, deleteDB, Promise!deleteDB,
       deleteCollection, Promise!deleteCollection, deleteDocument, Promise!deleteDocument,
       deleteIndex, Promise!deleteIndex,
       Returned, Promise!Returned, Raised, Promise!Raised, Live, Promise!Live,
       Match, Promise!Match, Matching, Promise!Matching, Ensure, Promise!Ensure,
       CreateCollection, Promise!CreateCollection, InsertOne, Promise!InsertOne,
       CreateIndex, Promise!CreateIndex, ListDatabases, Promise!ListDatabases,
       ListCollections, Promise!ListCollections, ListIndexes, Promise!ListIndexes,
       Rename, Promise!Rename, SetDocs, Promise!SetDocs, Targets, Promise!Targets,
       Update, Promise!Update, Delete, Promise!Delete, Drop, Promise!Drop,
       DropIndex, Promise!DropIndex

\* The handler: it accepts a request, looks at the server, writes a reply.
LEMMA SameAccept ==
    \A i \in ReqId, s \in Shard, q \in Requests : Crud!Accept(i, s, q) => CP!Accept(i, s, q)
BY SameRejected
   DEF Crud!Accept, CP!Accept, Crud!Routed, CP!Routed, Crud!history, CP!history,
       Crud!BadRequest, CP!BadRequest, Crud!Error, CP!Error, Crud!Reply, CP!Reply

LEMMA SameViews ==
    /\ \A s, n, f : Crud!Matching(s, n, f) = CP!Matching(s, n, f)
    /\ \A d : Crud!Ns(d) = CP!Ns(d) /\ (Crud!Partial(d) <=> CP!Partial(d))
    /\ \A s, i : Crud!FindMatches(s, i) = CP!FindMatches(s, i)
    /\ \A i : Crud!Ahead(i) = CP!Ahead(i)
    /\ \A i : Crud!CursorKept(i) <=> CP!CursorKept(i)
    /\ \A i, B : Crud!Gathered(i, B) = CP!Gathered(i, B)
    /\ \A D : Crud!Ids(D) = CP!Ids(D)
    /\ \A s : Crud!Widen(s) <=> CP!Widen(s)
<1>1. \A s, n, f : Crud!Matching(s, n, f) = CP!Matching(s, n, f)
  BY DEF Crud!Matching, CP!Matching, Crud!Match, CP!Match, Crud!Live, CP!Live
<1>2. \A d : Crud!Ns(d) = CP!Ns(d) /\ (Crud!Partial(d) <=> CP!Partial(d))
  BY DEF Crud!Ns, CP!Ns, Crud!Partial, CP!Partial, Crud!Options, CP!Options
<1>3. \A s, i : Crud!FindMatches(s, i) = CP!FindMatches(s, i)
  BY <1>1, <1>2 DEF Crud!FindMatches, CP!FindMatches, Crud!FindFilter, CP!FindFilter
<1>4. \A i : Crud!Ahead(i) = CP!Ahead(i)
  BY <1>1, <1>2 DEF Crud!Ahead, CP!Ahead
<1>5. \A i : Crud!CursorKept(i) <=> CP!CursorKept(i)
  BY <1>2 DEF Crud!CursorKept, CP!CursorKept
<1>6. \A i, B : Crud!Gathered(i, B) = CP!Gathered(i, B)
  BY <1>3 DEF Crud!Gathered, CP!Gathered
<1>7. \A D : Crud!Ids(D) = CP!Ids(D)
  BY DEF Crud!Ids, CP!Ids
<1>8. \A s : Crud!Widen(s) <=> CP!Widen(s)
  BY <1>3, <1>7 DEF Crud!Widen, CP!Widen
<1> QED
  BY <1>1, <1>2, <1>3, <1>4, <1>5, <1>6, <1>7, <1>8

LEMMA SameFinish ==
    /\ \A i, r : Crud!Finish(i, r) <=> CP!Finish(i, r)
    /\ \A d : Crud!OK(d) = CP!OK(d)
    /\ Crud!Error = CP!Error
BY DEF Crud!Finish, CP!Finish, Crud!OK, CP!OK, Crud!Error, CP!Error, Crud!Reply, CP!Reply,
       Crud!reactor, CP!reactor

\* Every step of its coroutine, and where it starts.
LEMMA SameProceed == \A i \in ReqId : Crud!Proceed(i) => CP!Proceed(i)
<1> SUFFICES ASSUME NEW i \in ReqId, Crud!Proceed(i) PROVE CP!Proceed(i)
  OBVIOUS
<1> USE SameKind, SameViews, SameFinish DEF Crud!reactor, CP!reactor, Crud!history, CP!history
<1>1. Crud!NoInstance(i) => CP!NoInstance(i)
  BY DEF Crud!NoInstance, CP!NoInstance, Crud!ReadyToResume, CP!ReadyToResume
<1>2. Crud!RaisesFirst(i) => CP!RaisesFirst(i)
  BY DEF Crud!RaisesFirst, CP!RaisesFirst, Crud!ReadyToResume, CP!ReadyToResume,
         Crud!ReplyNow, CP!ReplyNow
<1>3. Crud!SkipCommand(i) => CP!SkipCommand(i)
  BY DEF Crud!SkipCommand, CP!SkipCommand, Crud!ReadyToResume, CP!ReadyToResume,
         Crud!ReplyNow, CP!ReplyNow
<1>4. Crud!CallDriver(i) => CP!CallDriver(i)
  BY DEF Crud!CallDriver, CP!CallDriver, Crud!ReadyToResume, CP!ReadyToResume
<1>5. Crud!Serve(i) => CP!Serve(i)
  BY SameCommandC, SameCommandCP DEF Crud!Serve, CP!Serve
<1>6. Crud!DriverRaises(i) => CP!DriverRaises(i)
  BY DEF Crud!DriverRaises, CP!DriverRaises
<1>7. Crud!OpenCursor(i) => CP!OpenCursor(i)
  BY DEF Crud!OpenCursor, CP!OpenCursor
<1>8. Crud!FetchBatch(i) => CP!FetchBatch(i)
  BY DEF Crud!FetchBatch, CP!FetchBatch
<1>9. Crud!CursorExhausted(i) => CP!CursorExhausted(i)
  BY DEF Crud!CursorExhausted, CP!CursorExhausted
<1>10. Crud!CursorKilled(i) => CP!CursorKilled(i)
  BY DEF Crud!CursorKilled, CP!CursorKilled
<1>11. Crud!Return(i) => CP!Return(i)
  BY DEF Crud!Return, CP!Return
<1> QED
  BY <1>1, <1>2, <1>3, <1>4, <1>5, <1>6, <1>7, <1>8, <1>9, <1>10, <1>11
     DEF Crud!Proceed, CP!Proceed

LEMMA SameTypes == Crud!TypeOK <=> CP!TypeOK
BY DEF Crud!TypeOK, CP!TypeOK, Crud!InitReturned, CP!InitReturned, Crud!InCall, CP!InCall,
       Crud!StoreOK, CP!StoreOK, Crud!Live, CP!Live
LEMMA SameInit == Crud!Init => CP!Init
BY DEF Crud!Init, CP!Init, Crud!InitReturned, CP!InitReturned, Crud!NoReply,
       CP!NoReply, Crud!Reply, CP!Reply

\* The constants are such as CrudProofs assumes.
LEMMA SameStoreOK == \A s : CP!StoreOK(s) <=> StoreOK(s)
BY DEF StoreOK, CP!StoreOK, Live, CP!Live

LEMMA SameUniqueIds == \A s : CP!UniqueIds(s) <=> UniqueIds(s)
BY DEF UniqueIds, CP!UniqueIds

LEMMA CrudAssumption ==
    /\ None \notin Shard \cup ReqId
    /\ Shard \subseteq Shard
    /\ None \notin Requests
    /\ CP!StoreOK(EmptyStore) /\ CP!UniqueIds(EmptyStore)
    /\ \A d \in EmptyStore.docs : d.id \notin ReqId
    /\ \A q \in Requests : ~CP!Rejected(q) => CP!Namespaces(q) \subseteq DOMAIN EmptyStore.coll
<1>1. \A q : CP!Namespaces(q) = Namespaces(q)
  BY DEF Namespaces, CP!Namespaces, Is, CP!Is, Ns, CP!Ns
<1>2. CP!StoreOK(EmptyStore) /\ CP!UniqueIds(EmptyStore)
  BY ConstantsAssumption, SameStoreOK, SameUniqueIds
<1>3. ASSUME NEW q \in Requests, ~CP!Rejected(q)
      PROVE  CP!Namespaces(q) \subseteq DOMAIN EmptyStore.coll
  BY <1>1, <1>3, ConstantsAssumption, SameRejected
<1> QED
  BY <1>2, <1>3, ConstantsAssumption

-----------------------------------------------------------------------------
(*****************************************************************************)
(* The invariant.                                                          *)
(*****************************************************************************)

\* What a step that does not touch a part leaves of it.
LEMMA DBKept == DBP!IInv /\ UNCHANGED <<db, clients>> => DBP!IInv'
BY ConstantsAssumption, DBP!NextInv DEF db, DBP!vars, DBP!process, DBP!log

LEMMA CrudKept == CP!Core /\ UNCHANGED <<clients, crud>> => CP!Core'
BY DEF crud, CP!Core, CP!TypeOK, CP!Control

LEMMA MainKept ==
    /\ MP!TypeOK /\ (phase # "down" => MP!Stage)
    /\ UNCHANGED main /\ (phase' # "down" => phase # "down")
    => (MP!TypeOK /\ (phase # "down" => MP!Stage))'
BY DEF main, MP!TypeOK, MP!Stage

LEMMA LinksKept ==
    Links /\ UNCHANGED <<db, clients, main, crud>> => Links'
BY DEF db, main, crud, Links, Gone, Awaits, Served, Overdue, Aborted

LEMMA Stuttered == IInv /\ UNCHANGED vars => IInv'
BY DBKept, CrudKept, MainKept, LinksKept DEF IInv, Parts, vars, db

\* Before the first process is started.
LEMMA InitInv == Init => IInv
<1> SUFFICES ASSUME Init PROVE IInv
  OBVIOUS
<1>1. DBP!IInv
  <2>1. DBP!Init
    BY DEF Init, DB!Init, DBP!Init, DB!Everywhere, DBP!Everywhere
  <2> QED
    BY <2>1, ConstantsAssumption, DBP!InitInv
<1>2. CP!Core
  <2>1. CP!Init
    BY SameInit DEF Init
  <2> QED
    BY <2>1, CrudAssumption, CP!InitInv DEF CP!IInv
<1>3. MP!TypeOK
  BY DEF Init, MP!TypeOK, MP!Startup, MP!Service
<1>4. Links
  BY DEF Init, DB!Init, Crud!Init, DB!Everywhere, Links, Gone, Awaits, Served, CP!InCall
<1> QED
  BY <1>1, <1>2, <1>3, <1>4 DEF IInv, Parts, Init, DB!Init

\* A new process finds nothing of an earlier one but the server.
LEMMA BootInv == IInv /\ Boot => IInv'
<1> SUFFICES ASSUME IInv, Boot PROVE IInv'
  OBVIOUS
<1> USE DEF IInv, Parts
<1>1. DBP!IInv'
  BY SameDB, ConstantsAssumption, DBP!NextInv DEF Boot
<1>2. phase = "down" /\ phase' = "start" /\ clients' = [s \in Shard |-> "none"]
  BY DEF Boot, DB!Boot, DB!Everywhere
<1>3. MP!TypeOK' /\ MP!Stage'
  BY <1>2 DEF Boot, MP!TypeOK, MP!Stage, MP!Startup, MP!Service, MP!Before, Links, Gone
<1>4. CP!Core'
  <2>1. CP!TypeOK'
    BY <1>2 DEF Boot, CP!Core, CP!TypeOK, CP!InitReturned
  <2>2. CP!Control'
    BY DEF Boot, CP!Core, CP!Control
  <2> QED
    BY <2>1, <2>2 DEF CP!Core
<1>5. Links'
  BY <1>2 DEF Boot, Links, Gone, Awaits, Served, Overdue, Aborted, CP!InCall
<1> QED
  BY <1>1, <1>2, <1>3, <1>4, <1>5

\* While Init runs there are no requests: the clients may change.
LEMMA InitStepInv == IInv /\ InitStep => IInv'
<1> SUFFICES ASSUME IInv, InitStep PROVE IInv'
  OBVIOUS
<1> USE DEF IInv, Parts
<1>1. DBP!IInv'
  BY SameDB, ConstantsAssumption, DBP!NextInv DEF InitStep
<1>2. line = "init" /\ UNCHANGED <<main, crud>> /\ phase # "down"
  BY DEF InitStep, Links, Gone
<1>3. phase' # "down" /\ clients' \in [Shard -> {"connected", "empty"}] \cup {clients}
  <2>1. phase = "assign" => clients \in [Shard -> {"connected", "empty"}]
    BY DEF DBP!IInv, DBP!ClientInv, DBP!TypeOK
  <2> QED
    BY <1>2, <2>1
       DEF InitStep, DB!Control, DB!StartClients, DB!StartFails, DB!JoinAssign, DB!JoinLog,
           DB!Returns, DB!Everywhere, DB!ShardStep, DB!Assign, DB!AssignRaises,
           DB!HasCollection, DB!CreateCollection, DB!ReadCleared, DB!DeleteMany, DB!SetCleared,
           DB!InsertOne, DB!At, DB!process
<1>4. (MP!TypeOK /\ (phase # "down" => MP!Stage))'
  BY <1>2, <1>3, MainKept
<1>5. CP!Core'
  <2>1. CP!TypeOK'
    BY <1>2, <1>3 DEF crud, CP!Core, CP!TypeOK, CP!InitReturned
  <2>2. CP!Control'
    BY <1>2 DEF crud, CP!Core, CP!Control
  <2> QED
    BY <2>1, <2>2 DEF CP!Core
<1>6. \A i \in ReqId : conn[i] # "running"
  BY <1>2 DEF MP!Stage
<1>7. Links'
  <2>1. alive /\ alive' = alive
    BY <1>2 DEF Links, Aborted, crud
  <2>2. Gone' /\ Awaits'
    BY <1>2, <1>3 DEF main, Gone, Awaits
  <2>3. \A i \in ReqId : Served(i)'
    BY <1>2, <1>6 DEF main, crud, Links, Served
  <2>4. (late \subseteq ReqId /\ \A i \in late : Overdue(i))'
    BY <1>2 DEF main, crud, Links, Overdue
  <2> QED
    BY <2>1, <2>2, <2>3, <2>4 DEF Links
<1> QED
  BY <1>1, <1>4, <1>5, <1>7

\* main_fut, from the return of Init on, and the signals.
LEMMA MainInv ==
    IInv /\ (InitReturns \/ InitThrows \/ MainMoves \/ Signal) => IInv'
<1> SUFFICES ASSUME IInv, InitReturns \/ InitThrows \/ MainMoves \/ Signal PROVE IInv'
  OBVIOUS
<1> USE DEF IInv, Parts
<1>1. UNCHANGED <<db, clients, crud>> /\ phase' = phase
  BY DEF InitReturns, InitThrows, MainMoves, Signal, db
<1>2. DBP!IInv' /\ CP!Core'
  BY <1>1, DBKept, CrudKept
<1>3. MP!Next
  BY SameMain DEF InitReturns, InitThrows, MainMoves, Signal, Main!MainStep
<1>4. phase # "down"
  BY DEF InitReturns, InitThrows, MainMoves, Signal, Links, Gone, Main!MainStep,
         Main!WaitIsOver, Main!StopServer, Main!ServerStopped, Main!StopCrud, Main!Leave,
         Main!StartNext, Main!StartThrows, Main!Signal, Main!Ended, Main!Startup
<1>5. MP!TypeOK' /\ MP!Stage'
  BY <1>3, <1>4, MP!NextInv DEF MP!IInv
<1>6. UNCHANGED conn
  BY DEF InitReturns, InitThrows, MainMoves, Signal, Main!MainStep,
         Main!WaitIsOver, Main!StopServer, Main!ServerStopped, Main!StopCrud, Main!Leave,
         Main!StartNext, Main!StartThrows, Main!Signal
<1>7. Awaits'
  <2> USE <1>1 DEF Links, Awaits, db
  <2>1. CASE InitReturns
    BY <2>1 DEF InitReturns, Main!StartNext, Main!After
  <2>2. CASE InitThrows
    BY <2>2 DEF InitThrows, Main!StartThrows
  <2>3. CASE MainMoves
    <3>1. CASE Main!StartNext
      BY <2>3, <3>1 DEF MainMoves, Main!StartNext, Main!After, Main!Starts, Main!Startup
    <3>2. CASE Main!StartThrows
      BY <2>3, <3>2 DEF MainMoves, Main!StartThrows, Main!Startup
    <3>3. CASE \/ Main!WaitIsOver \/ Main!StopServer \/ Main!ServerStopped
               \/ Main!StopCrud \/ Main!Leave
      BY <2>3, <3>3
         DEF Main!WaitIsOver, Main!StopServer, Main!ServerStopped, Main!StopCrud, Main!Leave
    <3> QED
      BY <2>3, <3>1, <3>2, <3>3 DEF MainMoves, Main!MainStep
  <2>4. CASE Signal
    BY <2>4 DEF Signal, Main!Signal
  <2> QED
    BY <2>1, <2>2, <2>3, <2>4
<1>8. line # "aborted"
  BY DEF InitReturns, InitThrows, MainMoves, Signal, Main!MainStep,
         Main!WaitIsOver, Main!StopServer, Main!ServerStopped, Main!StopCrud, Main!Leave,
         Main!StartNext, Main!StartThrows, Main!Signal, Main!Ended, Main!Startup
<1>9. Links'
  BY <1>1, <1>4, <1>6, <1>7, <1>8 DEF Links, Gone, Served, Overdue, Aborted, db, crud
<1> QED
  BY <1>2, <1>5, <1>9

\* A request is accepted.
LEMMA AcceptInv == ASSUME IInv, NEW i \in ReqId, Accept(i) PROVE IInv'
<1> USE DEF IInv, Parts
<1>1. PICK s \in Shard, q \in Requests : Crud!Accept(i, s, q)
  BY DEF Accept
<1>2. UNCHANGED <<db, clients, late>> /\ phase' = phase /\ Main!Arrive(i)
  BY <1>1 DEF Accept, Crud!Accept, db
<1>3. DBP!IInv'
  BY <1>2, DBKept
<1>4. phase # "down"
  BY <1>2 DEF Links, Gone, Main!Arrive
<1>5. MP!TypeOK' /\ MP!Stage'
  BY <1>2, <1>4, SameMain, MP!NextInv DEF MP!IInv
<1>6. i \notin took /\ conn[i] = "none"
  BY <1>2 DEF Links, Served, Main!Arrive
<1>7. CP!Accept(i, s, q)
  BY <1>1, SameAccept
<1>8. CP!Core'
  BY <1>6, <1>7, CrudAssumption, CP!AcceptCore
<1>9. Links'
  <2>1. /\ UNCHANGED <<line, services, caught, listening>>
        /\ conn' = [conn EXCEPT ![i] = "running"]
    BY <1>2 DEF Main!Arrive
  <2>2. /\ pc'[i] \in {"replied", "await"} /\ \A j \in ReqId \ {i} : pc'[j] = pc[j]
        /\ req' = [req EXCEPT ![i] = q] /\ shard' = [shard EXCEPT ![i] = s]
        /\ UNCHANGED <<took, alive, clients>>
    BY <1>7 DEF CP!Accept, CP!history, CP!Core, CP!TypeOK
  <2>3. Gone' /\ Awaits'
    BY <1>2, <1>4, <2>1 DEF Links, Gone, Awaits
  <2>4. ASSUME NEW j \in ReqId PROVE Served(j)'
    <3>1. CASE j = i
      BY <2>1, <2>2, <3>1 DEF Served, CP!InCall, MP!TypeOK
    <3>2. CASE j # i
      BY <2>1, <2>2, <3>2 DEF Links, Served, MP!TypeOK, CP!Core, CP!TypeOK
    <3> QED
      BY <3>1, <3>2
  <2>5. (late \subseteq ReqId /\ \A j \in late : Overdue(j))'
    BY <1>2, <1>6, <2>1, <2>2 DEF Links, Overdue, MP!TypeOK, CP!Core, CP!TypeOK
  <2>6. alive' = alive /\ alive
    BY <2>2, <1>7 DEF CP!Accept
  <2> QED
    BY <2>3, <2>4, <2>5, <2>6 DEF Links
<1> QED
  BY <1>3, <1>4, <1>5, <1>8, <1>9

\* The reply is sent, or lost with its connection.
LEMMA ReplyInv == ASSUME IInv, NEW i \in ReqId, Reply(i) PROVE IInv'
<1> USE DEF IInv, Parts
<1>1. UNCHANGED <<db, clients, crud>> /\ phase' = phase /\ Main!Answer(i)
  BY DEF Reply, db
<1>2. DBP!IInv' /\ CP!Core'
  BY <1>1, DBKept, CrudKept
<1>3. phase # "down"
  BY <1>1 DEF Links, Gone, Main!Answer
<1>4. MP!TypeOK' /\ MP!Stage'
  BY <1>1, <1>3, SameMain, MP!NextInv DEF MP!IInv
<1>5. pc[i] = "replied"
  BY DEF Reply
<1>6. Links'
  <2>1. UNCHANGED <<line, services, caught, listening>>
    BY <1>1 DEF Main!Answer
  <2>2. \A j \in ReqId \ {i} : conn'[j] = conn[j]
    BY <1>1 DEF Main!Answer, MP!TypeOK
  <2>3. conn'[i] \in {"replied", "lost"}
    BY <1>1 DEF Main!Answer, MP!TypeOK
  <2>4. \A j \in ReqId : Served(j)'
    BY <1>1, <1>5, <2>2, <2>3 DEF Links, Served, crud, CP!Core, CP!Control, CP!InCall
  <2>5. (late \subseteq ReqId /\ \A j \in late : Overdue(j))'
    BY <1>1, <1>5, <2>2 DEF Links, Overdue, crud
  <2> QED
    BY <1>1, <1>3, <2>1, <2>4, <2>5 DEF Links, Gone, Awaits, Aborted, crud, db
<1> QED
  BY <1>2, <1>3, <1>4, <1>6

\* What a step of a coroutine may touch besides the server.
LEMMA ProceedFrame ==
    ASSUME CP!Core, NEW i \in ReqId, CP!Proceed(i)
    PROVE  /\ UNCHANGED <<clients, shard>>
           /\ alive
           /\ pc[i] \in CP!InCall \cup {"await"}
           /\ pc'[i] \in CP!InCall => pc[i] \in CP!InCall \/ clients[shard[i]] = "connected"
           /\ alive' \/ (/\ clients[shard[i]] = "none" /\ UNCHANGED <<pc, took>>)
<1> USE DEF CP!Core, CP!TypeOK, CP!InCall
<1>1. CASE CP!NoInstance(i) \/ CP!RaisesFirst(i) \/ CP!SkipCommand(i) \/ CP!CallDriver(i)
  BY <1>1 DEF CP!NoInstance, CP!RaisesFirst, CP!SkipCommand, CP!CallDriver,
              CP!ReadyToResume, CP!ReplyNow, CP!reactor, CP!history
<1>2. CASE CP!Serve(i) \/ CP!DriverRaises(i)
  BY <1>2 DEF CP!Serve, CP!DriverRaises, CP!Finish, CP!reactor, CP!history
<1>3. CASE CP!OpenCursor(i) \/ CP!FetchBatch(i) \/ CP!CursorExhausted(i) \/ CP!CursorKilled(i)
  BY <1>3 DEF CP!OpenCursor, CP!FetchBatch, CP!CursorExhausted, CP!CursorKilled, CP!Finish,
              CP!reactor, CP!history
<1>4. CASE CP!Return(i)
  BY <1>4 DEF CP!Return, CP!reactor, CP!history
<1> QED
  BY <1>1, <1>2, <1>3, <1>4 DEF CP!Proceed

\* A coroutine goes on; one that finds no container takes the process with it.
LEMMA WorkInv == ASSUME IInv, NEW i \in ReqId, Work(i) PROVE IInv'
<1> USE DEF IInv, Parts
<1>1. CP!Proceed(i)
  BY SameProceed DEF Work
<1>2. CP!Core'
  BY <1>1, CrudAssumption, CP!ProceedCore
<1>3. /\ pc[i] # "idle" /\ pc'[i] # "idle"
      /\ \A j \in ReqId \ {i} : pc'[j] = pc[j]
      /\ took' \subseteq took \cup {i}
      /\ req' = req
  BY <1>1, CrudAssumption, CP!ProceedAlone
<1>4. /\ UNCHANGED <<clients, shard>>
      /\ alive
      /\ pc[i] \in CP!InCall \cup {"await"}
      /\ pc'[i] \in CP!InCall => pc[i] \in CP!InCall \/ clients[shard[i]] = "connected"
      /\ alive' \/ (/\ clients[shard[i]] = "none" /\ UNCHANGED <<pc, took>>)
  BY <1>1, ProceedFrame
<1>5. UNCHANGED <<db, late>> /\ phase' = phase
  BY DEF Work, db
<1>6. DBP!IInv'
  BY <1>4, <1>5, DBKept
<1>7. conn[i] = "running"
  BY <1>4 DEF Links, Served
<1>8. phase # "down"
  BY <1>7 DEF Links, Gone
<1>9. UNCHANGED main \/ (~alive' /\ Main!Abort(i))
  BY DEF Work
<1>10. MP!TypeOK' /\ MP!Stage'
  <2>1. CASE UNCHANGED main
    BY <2>1, <1>5, <1>8, MainKept
  <2>2. CASE Main!Abort(i)
    BY <2>2, <1>8, SameMain, MP!NextInv DEF MP!IInv
  <2> QED
    BY <2>1, <2>2, <1>9
<1>11. UNCHANGED <<services, conn, caught, listening>> /\ (line' = line \/ line' = "aborted")
  BY <1>9 DEF main, Main!Abort
<1>12. phase = "returned"
  BY <1>7, <1>8 DEF Links, Awaits, MP!Stage
<1>13. Awaits' /\ Gone'
  BY <1>4, <1>5, <1>7, <1>8, <1>11, <1>12 DEF Links, Awaits, Gone, MP!Stage, db
<1>14. ASSUME NEW j \in ReqId PROVE Served(j)'
  <2>1. CASE j = i
    BY <1>3, <1>4, <1>7, <1>11, <2>1 DEF Links, Served
  <2>2. CASE j # i
    BY <1>3, <1>4, <1>11, <2>2 DEF Links, Served
  <2> QED
    BY <2>1, <2>2
<1>15. (late \subseteq ReqId /\ \A j \in late : Overdue(j))'
  BY <1>3, <1>5, <1>7, <1>11 DEF Links, Overdue
<1>16. ~alive' => failed_to_init' /\ clients' = DB!Everywhere("none") /\ line' = "aborted"
  <2> SUFFICES ASSUME ~alive'
               PROVE  failed_to_init /\ clients = DB!Everywhere("none") /\ line' = "aborted"
    BY <1>4, <1>5 DEF db, DB!Everywhere
  <2>1. line' = "aborted"
    BY DEF Work, Main!Abort
  <2>2. shard[i] \in Shard /\ clients[shard[i]] = "none"
    BY <1>3, <1>4 DEF CP!Core, CP!Control
  <2>3. failed_to_init /\ clients = DBP!Everywhere("none")
    BY <1>12, <2>2 DEF DBP!IInv, DBP!Safe, DBP!ServableClients, DBP!Everywhere
  <2> QED
    BY <2>1, <2>3 DEF DB!Everywhere, DBP!Everywhere
<1>17. Links'
  BY <1>13, <1>14, <1>15, <1>16 DEF Links, Aborted
<1> QED
  BY <1>2, <1>6, <1>10, <1>17

\* The process is gone, with what it held and the connections it served.
LEMMA EndsInv == IInv /\ ProcessEnds => IInv'
<1> SUFFICES ASSUME IInv, ProcessEnds PROVE IInv'
  OBVIOUS
<1> USE DEF IInv, Parts
<1>1. UNCHANGED clients /\ phase' = "down" /\ failed_to_init' = failed_to_init
  BY DEF ProcessEnds, DB!End, DB!process
<1>2. DBP!IInv'
  BY SameDB, ConstantsAssumption, DBP!NextInv DEF ProcessEnds
<1>3. MP!TypeOK'
  BY DEF ProcessEnds, Lost, MP!TypeOK, MP!Startup
<1>4. CP!Core'
  <2>1. CP!TypeOK'
    BY <1>1 DEF ProcessEnds, CP!Core, CP!TypeOK
  <2>2. CP!Control'
    BY <1>1 DEF ProcessEnds, Lost, Links, Served, CP!Core, CP!TypeOK, CP!Control, CP!InCall
  <2> QED
    BY <2>1, <2>2 DEF CP!Core
<1>5. Gone' /\ Awaits'
  BY <1>1 DEF ProcessEnds, Lost, Gone, Awaits
<1>6. ASSUME NEW j \in ReqId PROVE Served(j)'
  BY <1>1 DEF ProcessEnds, Lost, Links, Served, CP!InCall
<1>7. (late \subseteq ReqId /\ \A j \in late : Overdue(j))'
  <2>1. late' \subseteq ReqId
    BY DEF ProcessEnds, Links, Lost
  <2>2. ASSUME NEW j \in late PROVE Overdue(j)'
    BY <2>2 DEF ProcessEnds, Lost, Links, Overdue
  <2>3. ASSUME NEW j \in Lost, pc[j] = "calling", ~IsFind(req[j]) PROVE Overdue(j)'
    <3>1. req[j] \in Requests /\ ~Rejected(req[j]) /\ ~NothingToDo(req[j]) /\ j \notin took
      BY <2>3, SameRejected, SameKind DEF Lost, CP!Core, CP!Control, CP!InCall
    <3> QED
      BY <2>3, <3>1 DEF ProcessEnds, Lost, Overdue
  <2> QED
    BY <2>1, <2>2, <2>3 DEF ProcessEnds
<1>8. Links'
  BY <1>1, <1>5, <1>6, <1>7 DEF ProcessEnds, Links, Aborted
<1> QED
  BY <1>1, <1>2, <1>3, <1>4, <1>8

\* A command that outlived its process is executed: it keeps the store well formed.
LEMMA LateKeepsStore ==
    ASSUME IInv, NEW i \in ReqId, LateCommand(i)
    PROVE  /\ CP!StoreOK(store') /\ DOMAIN store'.coll = DOMAIN EmptyStore.coll
           /\ took' \in {took, took \cup {i}}
<1>1. PICK r \in Command(store, i, req[i]) :
         store' = r.st /\ took' = IF r.ok THEN took \cup {i} ELSE took
  BY DEF LateCommand
<1>2. Overdue(i)
  BY DEF LateCommand, IInv, Links
<1>3. StoreOK(store) /\ DOMAIN store.coll = DOMAIN EmptyStore.coll
  BY SameStoreOK DEF IInv, Parts, CP!Core, CP!TypeOK
<1>4. i # None /\ Namespaces(req[i]) \subseteq DOMAIN store.coll
  BY <1>2, <1>3, ConstantsAssumption DEF Overdue
<1>5. AllKeep(store, Command(store, i, req[i]))
  BY <1>2, <1>3, <1>4, CommandKeeps DEF Overdue
<1>6. StoreOK(store') /\ DOMAIN store'.coll = DOMAIN EmptyStore.coll
  BY <1>1, <1>3, <1>5 DEF AllKeep, Keeps
<1> QED
  BY <1>1, <1>6, SameStoreOK

\* It is one of the requests that were lost, so no coroutine is concerned.
LEMMA LateInv == ASSUME IInv, NEW i \in ReqId, LateCommand(i) PROVE IInv'
<1> USE DEF IInv, Parts
<1>1. /\ UNCHANGED <<db, clients, main, alive, busy, pc, req, shard, rep, cursor>>
      /\ phase' = phase /\ i \in late /\ late' = late \ {i}
  BY DEF LateCommand, db
<1>2. DBP!IInv' /\ (MP!TypeOK /\ (phase # "down" => MP!Stage))'
  BY <1>1, DBKept, MainKept
<1>3. /\ CP!StoreOK(store') /\ DOMAIN store'.coll = DOMAIN EmptyStore.coll
      /\ took' \in {took, took \cup {i}}
  BY LateKeepsStore
<1>4. pc[i] = "idle" /\ conn[i] = "lost"
  BY <1>1 DEF Links, Overdue
<1>5. CP!Core'
  <2>1. CP!TypeOK'
    BY <1>1, <1>3 DEF CP!Core, CP!TypeOK
  <2>2. CP!Control'
    BY <1>1, <1>3, <1>4 DEF CP!Core, CP!Control
  <2> QED
    BY <2>1, <2>2 DEF CP!Core
<1>6. Links'
  BY <1>1, <1>3, <1>4 DEF Links, Gone, Awaits, Served, Overdue, Aborted, main, db
<1> QED
  BY <1>2, <1>5, <1>6

\* Every step of the program keeps the invariant.
LEMMA NextInv == IInv /\ [Next]_vars => IInv'
BY BootInv, InitStepInv, MainInv, AcceptInv, WorkInv, ReplyInv, EndsInv, LateInv, Stuttered
   DEF Next, Startup, Finished

-----------------------------------------------------------------------------
(*****************************************************************************)
(* The theorems.                                                           *)
(*****************************************************************************)

\* The invariant holds in every behaviour.
LEMMA Inductive == Spec => []IInv
BY InitInv, NextInv, PTL DEF Spec

\* The types: whatever Init leaves, and is leaving, in the clients is among the
\* states that CrudHandler was checked and proved with.
THEOREM TypeCorrect == Spec => []TypeOK
<1>1. IInv => TypeOK
  BY SameDB, SameMain, SameTypes DEF IInv, Parts, Links, TypeOK, DBP!IInv, CP!Core, CP!TypeOK
<1> QED
  BY <1>1, Inductive, PTL

\* The process aborts only after a start that failed without a single client,
\* which main_fut took for a start.
THEOREM AbortNeedsNoClients == Spec => []AbortsOnlyWithoutClients
<1>1. IInv => AbortsOnlyWithoutClients
  BY DEF IInv, Links, Aborted, AbortsOnlyWithoutClients
<1> QED
  BY <1>1, Inductive, PTL

\* Whatever the startup, the signals and the faults, a driver call finds its
\* services started, the mongocxx::instance there and its client connected.
THEOREM CallsAreEquipped == Spec => []CallsHaveEverything
<1>1. ASSUME IInv, NEW i \in ReqId, pc[i] \in Crud!InCall
      PROVE  /\ conn[i] = "running"
             /\ {"clients", "crud", "server"} \subseteq services /\ driver
             /\ initialized
             /\ clients[shard[i]] = "connected"
  <2>1. conn[i] = "running" /\ clients[shard[i]] = "connected" /\ shard[i] \in Shard
    BY <1>1 DEF IInv, Links, Served, Crud!InCall, CP!InCall, Parts, CP!Core, CP!Control
  <2>2. phase # "down" /\ MP!Stage
    BY <2>1, <1>1 DEF IInv, Parts, Links, Gone
  <2>3. line \in {"wait", "stop_server", "closing", "aborted"}
    BY <2>1, <2>2 DEF MP!Stage
  <2>4. phase = "returned" /\ clients # DB!Everywhere("none")
    BY <1>1, <2>1, <2>3 DEF IInv, Links, Awaits, DB!Everywhere
  <2>5. "clients" \in services
    BY <1>1, <2>3, <2>4 DEF IInv, Links, Awaits
  <2>6. initialized
    BY <1>1, <2>4 DEF IInv, Parts, DBP!IInv, DBP!Safe, DBP!ServableClients
  <2> QED
    BY <2>1, <2>2, <2>3, <2>5, <2>6 DEF MP!Stage
<1>2. IInv => CallsHaveEverything
  BY <1>1 DEF CallsHaveEverything
<1> QED
  BY <1>2, Inductive, PTL

\* What the parts were proved to guarantee alone they guarantee together: the
\* log of one run, the clients that Init leaves, the services under a handler,
\* and one call at a time on each client, whichever process it belongs to.
THEOREM PartsHold ==
    Spec => [](/\ DB!OneRunInLog /\ DB!SomeRowLeft /\ DB!ServableClients
               /\ Main!NoRequestWithoutService
               /\ Crud!ClientNotShared)
<1>1. IInv => DB!OneRunInLog /\ DB!SomeRowLeft /\ DB!ServableClients
  BY DEF IInv, Parts, DBP!IInv, DBP!Safe, DB!OneRunInLog, DBP!OneRunInLog, DB!SomeRowLeft,
         DBP!SomeRowLeft, DB!ServableClients, DBP!ServableClients, DB!Everywhere, DBP!Everywhere
<1>2. IInv => Main!NoRequestWithoutService
  BY DEF IInv, Parts, Links, Gone, MP!Stage, Main!NoRequestWithoutService
<1>3. IInv => Crud!ClientNotShared
  BY DEF IInv, Parts, CP!Core, CP!Control, CP!InCall, Crud!InCall, Crud!ClientNotShared
<1> QED
  BY <1>1, <1>2, <1>3, Inductive, PTL

-----------------------------------------------------------------------------
(*****************************************************************************)
(* Documents and reads.                                                    *)
(*****************************************************************************)

\* Documents keep their identities apart when a command arrives late.
LEMMA LateIds ==
    ASSUME IInv, CP!ReadInv, NEW i \in ReqId, LateCommand(i)
    PROVE  CP!IdsInv'
<1>1. PICK r \in Command(store, i, req[i]) :
         store' = r.st /\ took' = IF r.ok THEN took \cup {i} ELSE took
  BY DEF LateCommand
<1>2. Overdue(i)
  BY DEF LateCommand, IInv, Links
<1>3. StoreOK(store) /\ DOMAIN store.coll = DOMAIN EmptyStore.coll
  BY SameStoreOK DEF IInv, Parts, CP!Core, CP!TypeOK
<1>4. i # None /\ Namespaces(req[i]) \subseteq DOMAIN store.coll
  BY <1>2, <1>3, ConstantsAssumption DEF Overdue
<1>5. AllKeep(store, Command(store, i, req[i])) /\ DocsMove(store, i, req[i], r.st)
  BY <1>2, <1>3, <1>4, CommandKeeps, CommandDocs DEF Overdue
<1>6. UniqueIds(store) /\ \A d \in store.docs : d.id # i
  BY <1>2, SameUniqueIds DEF CP!ReadInv, CP!IdsInv, Overdue
<1>7. /\ UniqueIds(store')
      /\ \A d \in store'.docs : d.id = i \/ \E e \in store.docs : e.id = d.id
  BY <1>1, <1>3, <1>5, <1>6, CommandIds
<1>8. i \in took' \/ store' = store
  BY <1>1, <1>5 DEF AllKeep
<1> QED
  BY <1>1, <1>7, <1>8, SameUniqueIds DEF CP!ReadInv, CP!IdsInv

\* The steps of the program keep what reads rely on.
LEMMA NextReads ==
    ASSUME IInv, CP!ReadInv, [Next]_vars
    PROVE  CP!ReadInv'
<1> USE DEF IInv, Parts
<1>1. CASE UNCHANGED vars \/ Boot \/ InitStep \/ InitReturns \/ InitThrows \/ MainMoves \/ Signal
  <2>1. UNCHANGED <<store, pc, req, rep, cursor, took, window>>
    BY <1>1 DEF vars, Boot, InitStep, InitReturns, InitThrows, MainMoves, Signal, crud
  <2> QED
    BY <2>1, CrudAssumption, CP!ReadsKept
<1>2. ASSUME NEW i \in ReqId, Accept(i) PROVE CP!ReadInv'
  <2>1. PICK s \in Shard, q \in Requests : CP!Accept(i, s, q)
    BY <1>2, SameAccept DEF Accept
  <2> QED
    BY <2>1, CrudAssumption, CP!AcceptReads
<1>3. ASSUME NEW i \in ReqId, Work(i) PROVE CP!ReadInv'
  BY <1>3, SameProceed, CrudAssumption, CP!ProceedReads DEF Work
<1>4. ASSUME NEW i \in ReqId, Reply(i) PROVE CP!ReadInv'
  BY <1>4, CrudAssumption, CP!ReadsKept DEF Reply, crud
<1>5. CASE ProcessEnds
  BY <1>5 DEF ProcessEnds, Lost, CP!ReadInv, CP!IdsInv, CP!ReadShape, CP!Reads, CP!Reading,
              CP!Complete, CP!FindMatches
<1>6. ASSUME NEW i \in ReqId, LateCommand(i) PROVE CP!ReadInv'
  <2>1. UNCHANGED <<pc, req, rep, cursor>> /\ CP!Widen(store')
    BY <1>6, SameViews DEF LateCommand
  <2>2. CP!ReadShape'
    BY <2>1 DEF CP!ReadInv, CP!ReadShape, CP!Widen
  <2>3. ASSUME NEW j \in ReqId PROVE CP!Reads(j)'
    BY <2>1, CrudAssumption, CP!Bystander DEF CP!ReadInv
  <2> QED
    BY <1>6, <2>2, <2>3, LateIds DEF CP!ReadInv
<1> QED
  BY <1>1, <1>2, <1>3, <1>4, <1>5, <1>6 DEF Next, Startup, Finished

\* A read that is answered "ok" is complete, although commands of a process that
\* is gone may reach the server while its cursor is open.
THEOREM ReadsComplete == Spec => []Crud!ReadIsComplete
<1>1. Init => IInv /\ CP!ReadInv
  BY InitInv, SameInit, CrudAssumption, CP!InitReads DEF Init
<1>2. (IInv /\ CP!ReadInv) /\ [Next]_vars => (IInv /\ CP!ReadInv)'
  BY NextInv, NextReads
<1>3. CP!ReadInv => Crud!ReadIsComplete
  BY SameKind, SameViews DEF CP!ReadInv, CP!Reads, CP!Complete, Crud!ReadIsComplete
<1> QED
  BY <1>1, <1>2, <1>3, PTL DEF Spec

-----------------------------------------------------------------------------

\* CrudHandler's NothingElseVanishes with processes that come and go: the request
\* that selects the document is in its driver call, or its command is late.
OnlyCommandsRemove ==
    [][\A d \in store.docs \ store'.docs :
           \E i \in ReqId : (pc[i] = "calling" \/ i \in late) /\ Crud!Affects(i, d)]_vars

\* The operators about documents are the same too.
LEMMA SameMoves ==
    \A s, i, q, t : DocsMove(s, i, q, t) => CP!DocsMove(s, i, q, t)
<1>1. \A s, i, t : CP!Inserted(s, i, t) <=> Inserted(s, i, t)
  BY DEF Inserted, CP!Inserted
<1>2. \A s, n, f : CP!Matching(s, n, f) = Matching(s, n, f)
  BY DEF Matching, CP!Matching, Match, CP!Match, Live, CP!Live
<1>3. \A q : CP!Ns(q) = Ns(q)
  BY DEF Ns, CP!Ns
<1>4. \A s, q, t : CP!Updated(s, q, t) <=> Updated(s, q, t)
  BY <1>2, <1>3 DEF Updated, CP!Updated
<1>5. \A s, q, t : CP!Deleted(s, q, t) <=> Deleted(s, q, t)
  BY <1>2, <1>3 DEF Deleted, CP!Deleted
<1>6. \A s, N, t : CP!Dropped(s, N, t) <=> Dropped(s, N, t)
  BY <1>2 DEF Dropped, CP!Dropped
<1> QED
  BY <1>1, <1>3, <1>4, <1>5, <1>6 DEF DocsMove, CP!DocsMove, Is, CP!Is

LEMMA SameAffects == \A i, d : CP!Affects(i, d) <=> Crud!Affects(i, d)
BY SameViews DEF CP!Affects, Crud!Affects, CP!Is, Crud!Is

LEMMA StepRemoves ==
    ASSUME IInv, Next, NEW d \in store.docs \ store'.docs
    PROVE  \E i \in ReqId : (pc[i] = "calling" \/ i \in late) /\ Crud!Affects(i, d)
<1> USE DEF IInv, Parts
<1>1. ~UNCHANGED store
  OBVIOUS
<1>2. PICK i \in ReqId : Work(i) \/ LateCommand(i)
  BY <1>1 DEF Next, Boot, ProcessEnds, Finished, Startup, InitStep, InitReturns, InitThrows,
              MainMoves, Signal, Accept, Crud!Accept, Reply, crud, vars
<1>3. CASE Work(i)
  <2>1. CP!Proceed(i)
    BY <1>3, SameProceed DEF Work
  <2>2. CP!Serve(i)
    BY <1>1, <2>1, CrudAssumption, CP!OthersLeaveStore
  <2>3. pc[i] = "calling" /\ CP!Affects(i, d)
    BY <2>2, CrudAssumption, CP!LostAreSelected
  <2> QED
    BY <2>3, SameAffects
<1>4. CASE LateCommand(i)
  <2>1. PICK r \in Command(store, i, req[i]) : store' = r.st
    BY <1>4 DEF LateCommand
  <2>2. Overdue(i) /\ i \in late
    BY <1>4 DEF LateCommand, Links
  <2>3. StoreOK(store) /\ DOMAIN store.coll = DOMAIN EmptyStore.coll
    BY SameStoreOK DEF CP!Core, CP!TypeOK
  <2>4. i # None /\ Namespaces(req[i]) \subseteq DOMAIN store.coll
    BY <2>2, <2>3, ConstantsAssumption DEF Overdue
  <2>5. DocsMove(store, i, req[i], store')
    BY <2>1, <2>2, <2>3, <2>4, CommandDocs DEF Overdue
  <2>6. CP!DocsMove(store, i, req[i], store') /\ ~CP!NothingToDo(req[i])
    BY <2>2, <2>5, SameMoves, SameKind DEF Overdue
  <2>7. CP!Affects(i, d)
    BY <2>6, CrudAssumption, CP!MovedAreSelected
  <2> QED
    BY <2>2, <2>7, SameAffects
<1> QED
  BY <1>2, <1>3, <1>4

\* Neither a crash nor a restart nor a late command makes a document vanish that
\* no request selects.
THEOREM OnlySelectedVanish == Spec => OnlyCommandsRemove
<1>1. ASSUME IInv, [Next]_vars
      PROVE  [\A d \in store.docs \ store'.docs :
                 \E i \in ReqId : (pc[i] = "calling" \/ i \in late) /\ Crud!Affects(i, d)]_vars
  BY <1>1, StepRemoves
<1> QED
  BY <1>1, Inductive, PTL DEF Spec, OnlyCommandsRemove

-----------------------------------------------------------------------------
(*****************************************************************************)
(* The refinement.  Only an accepted request, an executed command and a    *)
(* reply are seen from outside.                                            *)
(*****************************************************************************)

\* The initial states.
LEMMA InitRefines == Init => Promise!Init
BY DEF Init, Crud!Init, Promise!Init, seenBar, Seen

\* Only what is seen of request i changes, or nothing does.
LEMMA OneSeen ==
    ASSUME NEW i \in ReqId, \A j \in ReqId \ {i} : Seen(j)' = Seen(j)
    PROVE  seenBar' = [seenBar EXCEPT ![i] = Seen(i)'] /\ seenBar[i] = Seen(i)
BY DEF seenBar

LEMMA Unseen ==
    ASSUME \A j \in ReqId : Seen(j)' = Seen(j), UNCHANGED <<store, req>>
    PROVE  UNCHANGED Promise!vars
BY DEF seenBar, Promise!vars

\* The steps that a client does not see: the connections keep their state, or
\* are lost with their process.
LEMMA Behind ==
    ASSUME UNCHANGED <<store, req, rep, took>>,
           \A j \in ReqId : conn'[j] = conn[j] \/ (conn[j] = "running" /\ conn'[j] = "lost")
    PROVE  UNCHANGED Promise!vars
<1>1. ASSUME NEW j \in ReqId PROVE Seen(j)' = Seen(j)
  BY DEF Seen
<1> QED
  BY <1>1, Unseen

\* An accepted request is one that is received.
LEMMA AcceptRefines == ASSUME IInv, NEW i \in ReqId, Accept(i) PROVE Promise!Next
<1> USE DEF IInv, Parts
<1>1. PICK s \in Shard, q \in Requests : Crud!Accept(i, s, q)
  BY DEF Accept
<1>2. CP!Accept(i, s, q) /\ Main!Arrive(i)
  BY <1>1, SameAccept DEF Accept
<1>3. i \notin took /\ conn[i] = "none" /\ conn' = [conn EXCEPT ![i] = "running"]
  BY <1>2 DEF Links, Served, Main!Arrive
<1>4. /\ UNCHANGED <<store, took>> /\ req' = [req EXCEPT ![i] = q]
      /\ \A j \in ReqId \ {i} : rep'[j] = rep[j] /\ req'[j] = req[j]
  BY <1>2 DEF CP!Accept, CP!history, CP!Core, CP!TypeOK
<1>5. \A j \in ReqId \ {i} : Seen(j)' = Seen(j)
  BY <1>3, <1>4 DEF Seen, MP!TypeOK
<1>6. Seen(i) = "idle" /\ Seen(i)' = IF Rejected(q) THEN "error" ELSE "open"
  BY <1>3, <1>4 DEF Seen, MP!TypeOK, CP!Core, CP!TypeOK
<1>7. Promise!Receive(i)
  BY <1>4, <1>5, <1>6, OneSeen, SameRejected DEF Promise!Receive
<1> QED
  BY <1>7 DEF Promise!Next

\* The server executes a command, in time or late.
LEMMA ExecutionRefines ==
    ASSUME NEW i \in ReqId, NEW r \in Command(store, i, req[i]),
           store' = r.st, took' = IF r.ok THEN took \cup {i} ELSE took, req' = req,
           conn[i] \in {"running", "lost"}, UNCHANGED conn,
           \A j \in ReqId \ {i} : rep'[j] = rep[j],
           i \notin took, ~Rejected(req[i]), ~IsFind(req[i]), ~NothingToDo(req[i]),
           AllKeep(store, Command(store, i, req[i]))
    PROVE  [Promise!Next]_(Promise!vars)
<1>1. \A j \in ReqId \ {i} : Seen(j)' = Seen(j)
  BY DEF Seen
<1>2. Seen(i) = "open" /\ Seen(i)' = IF i \in took' THEN "applied" ELSE "open"
  BY DEF Seen
<1>3. CASE r.ok
  <2>1. seenBar[i] = "open" /\ seenBar' = [seenBar EXCEPT ![i] = "applied"]
    BY <1>1, <1>2, <1>3, OneSeen
  <2>2. \E x \in Promise!Command(store, i, req[i]) : x.ok /\ store' = x.st
    BY <1>3, SameCommandP
  <2>3. ~Promise!IsFind(req[i]) /\ ~Promise!NothingToDo(req[i])
    BY SameKind
  <2>4. Promise!Apply(i)
    BY <2>1, <2>2, <2>3, Zenon DEF Promise!Apply
  <2> QED
    BY <2>4 DEF Promise!Next
<1>4. CASE ~r.ok
  <2>1. store' = store
    BY <1>4 DEF AllKeep
  <2>2. \A j \in ReqId : Seen(j)' = Seen(j)
    BY <1>1, <1>2, <1>4
  <2> QED
    BY <2>1, <2>2, Unseen
<1> QED
  BY <1>3, <1>4

\* A step of a coroutine: the execution of its command, or nothing to see.
LEMMA WorkRefines == ASSUME IInv, NEW i \in ReqId, Work(i) PROVE [Promise!Next]_(Promise!vars)
<1> USE DEF IInv, Parts
<1>1. CP!Proceed(i)
  BY SameProceed DEF Work
<1>2. /\ req' = req /\ \A j \in ReqId \ {i} : rep'[j] = rep[j]
      /\ pc[i] \in CP!InCall \cup {"await"}
  BY <1>1, CrudAssumption, CP!ProceedAlone, ProceedFrame
<1>3. conn[i] = "running" /\ conn' = conn
  BY <1>2 DEF Links, Served, Work, main, Main!Abort
<1>4. CASE CP!Serve(i)
  <2>1. PICK r \in CP!Command(store, i, req[i]) :
           store' = r.st /\ took' = IF r.ok THEN took \cup {i} ELSE took
    BY <1>4 DEF CP!Serve
  <2>2. r \in Command(store, i, req[i])
    BY SameCommandCP
  <2>3. /\ i \notin took /\ ~Rejected(req[i]) /\ ~IsFind(req[i]) /\ ~NothingToDo(req[i])
        /\ req[i] \in Requests
    BY <1>4, SameRejected, SameKind DEF CP!Serve, CP!Core, CP!Control, CP!InCall
  <2>4. StoreOK(store) /\ DOMAIN store.coll = DOMAIN EmptyStore.coll
    BY SameStoreOK DEF CP!Core, CP!TypeOK
  <2>5. AllKeep(store, Command(store, i, req[i]))
    BY <2>3, <2>4, ConstantsAssumption, CommandKeeps
  <2> QED
    BY <1>2, <1>3, <2>1, <2>2, <2>3, <2>5, ExecutionRefines
<1>5. CASE ~CP!Serve(i)
  <2>1. UNCHANGED <<store, took>>
    BY <1>1, <1>5, CrudAssumption, CP!OthersLeaveStore
  <2>2. \A j \in ReqId : Seen(j)' = Seen(j)
    BY <1>2, <1>3, <2>1 DEF Seen
  <2> QED
    BY <1>2, <2>1, <2>2, Unseen
<1> QED
  BY <1>4, <1>5

\* A command that arrives late is applied late, but as it was received.
LEMMA LateRefines ==
    ASSUME IInv, NEW i \in ReqId, LateCommand(i) PROVE [Promise!Next]_(Promise!vars)
<1> USE DEF IInv, Parts
<1>1. PICK r \in Command(store, i, req[i]) :
         store' = r.st /\ took' = IF r.ok THEN took \cup {i} ELSE took
  BY DEF LateCommand
<1>2. Overdue(i)
  BY DEF LateCommand, Links
<1>3. UNCHANGED <<req, rep, conn>>
  BY DEF LateCommand, main
<1>4. StoreOK(store) /\ DOMAIN store.coll = DOMAIN EmptyStore.coll
  BY SameStoreOK DEF CP!Core, CP!TypeOK
<1>5. AllKeep(store, Command(store, i, req[i]))
  BY <1>2, <1>4, ConstantsAssumption, CommandKeeps DEF Overdue
<1> QED
  BY <1>1, <1>2, <1>3, <1>5, ExecutionRefines DEF Overdue

\* The reply answers the request, unless it was an error from the start.
LEMMA ReplyRefines ==
    ASSUME IInv, NEW i \in ReqId, Reply(i) PROVE [Promise!Next]_(Promise!vars)
<1> USE DEF IInv, Parts
<1>1. /\ conn[i] = "running" /\ pc[i] = "replied"
      /\ conn' = [conn EXCEPT ![i] = IF listening THEN "replied" ELSE "lost"]
      /\ UNCHANGED <<store, req, rep, took>>
  BY DEF Reply, Main!Answer, crud
<1>2. CASE ~listening
  BY <1>1, <1>2, Behind DEF MP!TypeOK
<1>3. CASE listening
  <2>1. \A j \in ReqId \ {i} : Seen(j)' = Seen(j)
    BY <1>1 DEF Seen, MP!TypeOK
  <2>2. Seen(i)' = IF rep[i].ok THEN "ok" ELSE "error"
    BY <1>1, <1>3 DEF Seen, MP!TypeOK
  <2>3. Seen(i) = IF Rejected(req[i]) THEN "error" ELSE IF i \in took THEN "applied" ELSE "open"
    BY <1>1 DEF Seen
  <2>4. rep[i].ok =>
           ~Rejected(req[i]) /\ (i \in took \/ IsFind(req[i]) \/ NothingToDo(req[i]))
    BY <1>1, SameRejected, SameKind DEF CP!Core, CP!Control
  <2>5. seenBar' = [seenBar EXCEPT ![i] = Seen(i)'] /\ seenBar[i] = Seen(i)
    BY <2>1, OneSeen
  <2>6. CASE rep[i].ok
    <3>1. seenBar' = [seenBar EXCEPT ![i] = "ok"]
      BY <2>2, <2>5, <2>6
    <3>2. \/ seenBar[i] = "applied"
          \/ seenBar[i] = "open" /\ (Promise!IsFind(req[i]) \/ Promise!NothingToDo(req[i]))
      BY <2>3, <2>4, <2>5, <2>6, SameKind
    <3>3. Promise!AnswerOk(i)
      BY <1>1, <3>1, <3>2 DEF Promise!AnswerOk
    <3> QED
      BY <3>3 DEF Promise!Next
  <2>7. CASE ~rep[i].ok /\ Rejected(req[i])
    BY <1>1, <2>1, <2>2, <2>3, <2>7, Unseen
  <2>8. CASE ~rep[i].ok /\ ~Rejected(req[i])
    <3>1. Promise!AnswerError(i)
      BY <1>1, <2>2, <2>3, <2>5, <2>8 DEF Promise!AnswerError
    <3> QED
      BY <3>1 DEF Promise!Next
  <2> QED
    BY <2>6, <2>7, <2>8
<1> QED
  BY <1>2, <1>3

\* Every step of the program is a step of AtMostOnce or a stutter.
LEMMA StepRefines == IInv /\ [Next]_vars => [Promise!Next]_(Promise!vars)
<1> SUFFICES ASSUME IInv, [Next]_vars PROVE [Promise!Next]_(Promise!vars)
  OBVIOUS
<1>1. CASE UNCHANGED vars \/ InitStep \/ InitReturns \/ InitThrows \/ MainMoves \/ Signal
  <2>1. UNCHANGED <<store, req, rep, took>>
    BY <1>1 DEF vars, InitStep, InitReturns, InitThrows, MainMoves, Signal, crud
  <2>2. UNCHANGED conn
    BY <1>1
       DEF vars, main, InitStep, InitReturns, InitThrows, MainMoves, Signal, Main!MainStep,
           Main!WaitIsOver, Main!StopServer, Main!ServerStopped, Main!StopCrud, Main!Leave,
           Main!StartNext, Main!StartThrows, Main!Signal
  <2> QED
    BY <2>1, <2>2, Behind
<1>2. CASE Boot
  BY <1>2, Behind DEF Boot
<1>3. CASE ProcessEnds
  BY <1>3, Behind DEF ProcessEnds, Lost
<1> QED
  BY <1>1, <1>2, <1>3, AcceptRefines, WorkRefines, LateRefines, ReplyRefines
     DEF Next, Startup, Finished

\* Through crashes, restarts, lost connections and commands that arrive late, a
\* command takes effect at most once, and a client told "ok" can rely on it.
THEOREM Refinement == Spec => ImplementsAtMostOnce
BY Inductive, InitRefines, StepRefines, PTL DEF Spec, ImplementsAtMostOnce, Promise!Spec
=============================================================================
