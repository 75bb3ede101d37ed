---------------------------- MODULE CrudHandler -----------------------------
(***************************************************************************)
(* crud_handler::handle (main.cc) and the MongoDBInterface coroutines it   *)
(* awaits, run by the reactors of all shards against one MongoDB server.   *)
(*                                                                         *)
(* A shard has one thread.  A request's coroutine keeps it from one        *)
(* suspension point to the next.  Before the driver is called there is     *)
(* `co_await db_clients()' (updateCollection's two in a row are taken as   *)
(* one: it does nothing between them); after it there is handle's own      *)
(* co_await of the call, on the way from Return to the reply: what follows *)
(* it touches only the request's own reply.  A driver call blocks the      *)
(* thread, so busy says which request has a call in progress on a shard;   *)
(* the shards run in parallel and meet only at the server.  The driver may *)
(* raise for reasons of its own, before or after the server has executed   *)
(* the command.                                                            *)
(***************************************************************************)
EXTENDS MongoDBInterface, Naturals

CONSTANTS
    Shard,
    ReqId,          \* each is accepted once
    Requests,       \* the requests a client may send
    EmptyStore,     \* the server before the first request
    FairShards      \* the shards whose driver calls always come back

VARIABLES
    store,          \* the server
    clients,        \* what DBClients::Init left on each shard
    up,             \* FALSE once the process has aborted
    busy,           \* the request whose driver call blocks a shard, or None
    pc,             \* where each request's coroutine is
    req, shard,     \* what it asks, and the shard that runs it
    rep,            \* its reply
    cursor,         \* the cursor readDocument iterates
    took,           \* history: requests whose command the server executed
    window          \* history: documents present while a cursor was open

vars == <<store, clients, up, busy, pc, req, shard, rep, cursor, took, window>>
reactor == <<clients, up, req, shard>>
history == <<took, window>>

ASSUME ConstantsAssumption ==
    /\ None \notin Shard \cup ReqId
    /\ FairShards \subseteq Shard
    /\ None \notin Requests
    /\ StoreOK(EmptyStore) /\ UniqueIds(EmptyStore)
    /\ \A d \in EmptyStore.docs : d.id \notin ReqId
    /\ \A q \in Requests : ~Rejected(q) => Namespaces(q) \subseteq DOMAIN EmptyStore.coll

Reply(status, ok, data) == [status |-> status, ok |-> ok, data |-> data]
OK(data) == Reply(200, TRUE, data)

\* A caught exception leaves the status of the reply alone.
Error    == Reply(200, FALSE, {})
BadRequest == Reply(400, FALSE, {})
NoReply  == Reply(0, FALSE, {})

\* DBClients::Init returns with every client connected; with some left as
\* default-constructed because an assignment raised; or with the sharded
\* container never started.
InitReturned ==
    [Shard -> {"connected", "empty"}] \cup {[s \in Shard |-> "none"]}

Init ==
    /\ store = EmptyStore
    /\ clients \in InitReturned
    /\ up = TRUE
    /\ busy = [s \in Shard |-> None]
    /\ pc = [i \in ReqId |-> "idle"]
    /\ req = [i \in ReqId |-> None]
    /\ shard = [i \in ReqId |-> None]
    /\ rep = [i \in ReqId |-> NoReply]
    /\ cursor = [i \in ReqId |-> [uid |-> None, first |-> {}, seen |-> {}, got |-> {}]]
    /\ took = {}
    /\ window = [i \in ReqId |-> [always |-> {}, ever |-> {}]]

-----------------------------------------------------------------------------

\* create_routes registers the handler for POST only.
Routed(q) == q.method = "POST"

\* handle up to its first suspension: the method check, the two conversions,
\* from_json and the evaluation of the call's arguments, all synchronous.
Accept(i, s, q) ==
    /\ up
    /\ pc[i] = "idle"
    /\ busy[s] = None
    /\ Routed(q)
    /\ req' = [req EXCEPT ![i] = q]
    /\ shard' = [shard EXCEPT ![i] = s]
    /\ IF q.method # "POST" \/ Rejected(q)
       THEN /\ pc' = [pc EXCEPT ![i] = "replied"]
            /\ rep' = [rep EXCEPT ![i] = IF q.method # "POST" THEN BadRequest ELSE Error]
       ELSE /\ pc' = [pc EXCEPT ![i] = "await"]
            /\ UNCHANGED rep
    /\ UNCHANGED <<store, clients, up, busy, cursor, history>>

\* Mutant: the driver call no longer blocks the thread it runs on.
ReadyWhileBlocked(i) == up /\ pc[i] = "await"

\* Mutant: one lock for all the shards instead of one lock on each.
ReadyUnderOneLock(i) == up /\ pc[i] = "await" /\ \A s \in Shard : busy[s] = None

ReadyToResume(i) == up /\ pc[i] = "await" /\ busy[shard[i]] = None

ReplyNow(i, r) ==
    /\ pc' = [pc EXCEPT ![i] = "replied"]
    /\ rep' = [rep EXCEPT ![i] = r]
    /\ UNCHANGED <<store, busy, cursor, reactor, history>>

\* `clients.local()' of a container that was never started fails its assertion.
NoInstance(i) ==
    /\ ReadyToResume(i)
    /\ clients[shard[i]] = "none"
    /\ up' = FALSE
    /\ UNCHANGED <<store, clients, busy, pc, req, shard, rep, cursor, history>>

\* The call raises before any command is sent: a default-constructed
\* mongocxx::client does on every use, and readDocument while it reads an option
\* of another type.
RaisesFirst(i) ==
    /\ ReadyToResume(i)
    /\ \/ clients[shard[i]] = "empty"
       \/ clients[shard[i]] = "connected" /\ OptionRaises(req[i])
    /\ ReplyNow(i, Error)

SkipCommand(i) ==
    /\ ReadyToResume(i)
    /\ clients[shard[i]] = "connected"
    /\ NothingToDo(req[i])
    /\ ReplyNow(i, OK({}))

\* The driver call begins: from here on the shard's thread is blocked in it.
CallDriver(i) ==
    /\ ReadyToResume(i)
    /\ clients[shard[i]] = "connected"
    /\ ~NothingToDo(req[i])
    /\ ~OptionRaises(req[i])
    /\ pc' = [pc EXCEPT ![i] = "calling"]
    /\ busy' = [busy EXCEPT ![shard[i]] = i]
    /\ UNCHANGED <<store, rep, cursor, reactor, history>>

-----------------------------------------------------------------------------

\* Mutant: a call that raised is made again.
FinishOrRetry(i, r) ==
    /\ pc' = [pc EXCEPT ![i] = IF r.ok THEN "served" ELSE "calling"]
    /\ rep' = [rep EXCEPT ![i] = r]
    /\ UNCHANGED <<busy, cursor, reactor>>

Finish(i, r) ==
    /\ pc' = [pc EXCEPT ![i] = "served"]
    /\ rep' = [rep EXCEPT ![i] = r]
    /\ UNCHANGED <<busy, cursor, reactor>>

FindMatches(s, i) == Matching(s, Ns(req[i].content), FindFilter(req[i].content))
Ids(D) == {d.id : d \in D}

\* The windows of the cursors that are open, once the store has become s.
Widen(s) ==
    window' = [j \in ReqId |->
        IF pc[j] # "reading" THEN window[j]
        ELSE [always |-> window[j].always \cap Ids(FindMatches(s, j)),
              ever   |-> window[j].ever \cup FindMatches(s, j)]]

\* The server executes the command and the driver returns, raises because the
\* server refused, or loses the server's answer and raises all the same.
Serve(i) ==
    /\ up
    /\ pc[i] = "calling"
    /\ ~IsFind(req[i])
    /\ \E r \in Command(store, i, req[i]) :
          /\ store' = r.st
          /\ took' = IF r.ok THEN took \cup {i} ELSE took
          /\ Finish(i, IF r.ok THEN OK(r.data) ELSE Error) \/ Finish(i, Error)
          /\ Widen(r.st)

\* The driver raises and the server has not executed the command.
DriverRaises(i) ==
    /\ up
    /\ pc[i] \in {"calling", "reading"}
    /\ Finish(i, Error)
    /\ UNCHANGED <<store, history>>

OpenCursor(i) ==
    /\ up
    /\ pc[i] = "calling"
    /\ IsFind(req[i])
    /\ pc' = [pc EXCEPT ![i] = "reading"]
    /\ cursor' = [cursor EXCEPT ![i] =
                     [uid   |-> store.coll[Ns(req[i].content)],
                      first |-> Ids(Matching(store, Ns(req[i].content), EmptyDoc)),
                      seen  |-> {}, got |-> {}]]
    /\ window' = [window EXCEPT ![i] = [always |-> Ids(FindMatches(store, i)),
                                        ever   |-> FindMatches(store, i)]]
    /\ UNCHANGED <<store, busy, rep, reactor, took>>

\* The server walks the collection and passes each document once, whether it
\* matches or not; an update does not move one.
Ahead(i) ==
    {d \in Matching(store, Ns(req[i].content), EmptyDoc) : d.id \notin cursor[i].seen}

CursorKept(i) == store.coll[Ns(req[i].content)] = cursor[i].uid

\* What the loop has appended once the cursor has passed the documents of B.
Gathered(i, B) == cursor[i].got \cup (B \cap FindMatches(store, i))

\* One batch of the loop over doc_cursor.
FetchBatch(i) ==
    /\ up
    /\ pc[i] = "reading"
    /\ CursorKept(i)
    /\ \E B \in SUBSET Ahead(i) \ {{}} :
          cursor' = [cursor EXCEPT ![i].seen = @ \cup Ids(B), ![i].got = Gathered(i, B)]
    /\ UNCHANGED <<store, busy, pc, rep, reactor, history>>

\* Mutant: only the first batch of the cursor is read.
CursorAbandoned(i) ==
    /\ up
    /\ pc[i] = "reading"
    /\ Finish(i, OK(cursor[i].got))
    /\ UNCHANGED <<store, history>>

\* The last batch.  Documents inserted since the cursor was opened may be behind
\* its position; those it started with are not.  A collection that did not
\* exist gave a cursor that is exhausted from the start.  A limit, a skip or a
\* sort may leave out any.
CursorExhausted(i) ==
    /\ up
    /\ pc[i] = "reading"
    /\ \/ cursor[i].uid = None /\ Finish(i, OK({}))
       \/ /\ CursorKept(i)
          /\ \E B \in SUBSET Ahead(i) :
                /\ Ids(Ahead(i)) \cap cursor[i].first \subseteq Ids(B)
                /\ Finish(i, OK(Gathered(i, B)))
       \/ /\ CursorKept(i)
          /\ Partial(req[i].content)
          /\ \E D \in SUBSET Gathered(i, Ahead(i)) : Finish(i, OK(D))
    /\ UNCHANGED <<store, history>>

\* The collection was dropped or renamed under the cursor: the next batch
\* raises and the documents gathered so far are discarded.
CursorKilled(i) ==
    /\ up
    /\ pc[i] = "reading"
    /\ cursor[i].uid # None
    /\ ~CursorKept(i)
    /\ Finish(i, Error)
    /\ UNCHANGED <<store, history>>

\* Mutant: the reply is written and the thread is not given back.
ReturnBlocked(i) ==
    /\ up
    /\ pc[i] = "served"
    /\ pc' = [pc EXCEPT ![i] = "replied"]
    /\ UNCHANGED <<store, busy, rep, cursor, reactor, history>>

\* The driver call is over.  The MongoDBInterface coroutine ends and gives the
\* thread back; handle resumes in a task of its own and writes the reply, which
\* no other task touches in between.
Return(i) ==
    /\ up
    /\ pc[i] = "served"
    /\ pc' = [pc EXCEPT ![i] = "replied"]
    /\ busy' = [busy EXCEPT ![shard[i]] = None]
    /\ UNCHANGED <<store, rep, cursor, reactor, history>>

-----------------------------------------------------------------------------

Proceed(i) ==
    \/ NoInstance(i)   \/ RaisesFirst(i)  \/ SkipCommand(i)  \/ CallDriver(i)
    \/ Serve(i)        \/ DriverRaises(i)    \/ OpenCursor(i)   \/ FetchBatch(i)
    \/ CursorExhausted(i) \/ CursorKilled(i) \/ Return(i)

\* Every request has been answered, or the process is gone.
Quiescent ==
    /\ ~up \/ \A i \in ReqId : pc[i] = "replied"
    /\ UNCHANGED vars

Next ==
    \/ \E i \in ReqId, s \in Shard, q \in Requests : Accept(i, s, q)
    \/ \E i \in ReqId : Proceed(i)
    \/ Quiescent

Spec == Init /\ [][Next]_vars

\* A reactor runs its ready tasks, and on the shards of FairShards the driver
\* comes back from every call, with a result or an exception.
Fairness == \A i \in ReqId : WF_vars(shard[i] \in FairShards /\ Proceed(i))

FairSpec == Spec /\ Fairness

-----------------------------------------------------------------------------
(***************************************************************************)
(* Properties                                                              *)
(***************************************************************************)

InCall == {"calling", "reading", "served"}

\* The variables have their types; documents and indexes belong to a
\* collection that exists; a shard's thread is blocked only by a call of its own
\* that is under way.
TypeOK ==
    /\ clients \in InitReturned
    /\ up \in BOOLEAN
    /\ busy \in [Shard -> ReqId \cup {None}]
    /\ \A s \in Shard : busy[s] # None => pc[busy[s]] \in InCall /\ shard[busy[s]] = s
    /\ pc \in [ReqId -> {"idle", "await", "replied"} \cup InCall]
    /\ req \in [ReqId -> Requests \cup {None}]
    /\ shard \in [ReqId -> Shard \cup {None}]
    /\ DOMAIN rep = ReqId
    /\ \A i \in ReqId : rep[i].status \in Nat /\ rep[i].ok \in BOOLEAN
    /\ took \subseteq ReqId
    /\ StoreOK(store)
    /\ DOMAIN store.coll = DOMAIN EmptyStore.coll

\* A shard's mongocxx::client, which is not safe to share, serves one call at
\* a time although any number of coroutines of the shard hold a reference to
\* it: a coroutine that got it from db_clients() finds it free.
ClientNotShared ==
    \A i, j \in ReqId :
        pc[i] \in InCall /\ pc[j] \in InCall /\ i # j => shard[i] # shard[j]

\* A read that is answered "ok" while other shards insert, update, delete,
\* drop and rename returns, in one version or another, nothing that never
\* matched from the time its cursor was opened until the end, and unless its
\* options say otherwise every document that matched all that time.
ReadIsComplete ==
    \A i \in ReqId :
        pc[i] = "replied" /\ rep[i].ok /\ IsFind(req[i]) =>
            /\ Partial(req[i].content) \/ window[i].always \subseteq Ids(rep[i].data)
            /\ rep[i].data \subseteq window[i].ever

\* The documents request i may remove or change: those of the namespace it
\* names, and for a command on documents those its filter selects; a delete
\* without a filter may remove none.
Affects(i, d) ==
    LET q == req[i]
        doc == q.content
    IN  \/ Is(q, "delete", "db") /\ \E n \in DOMAIN store.coll :
                                      n[1] = doc.dbname /\ d \in Matching(store, n, EmptyDoc)
        \/ Is(q, "delete", "collection") /\ d \in Matching(store, Ns(doc), EmptyDoc)
        \/ Is(q, "update", "document") /\ d \in Matching(store, Ns(doc), doc.filter)
        \/ /\ Is(q, "delete", "document")
           /\ doc.filter # EmptyDoc
           /\ d \in Matching(store, Ns(doc), doc.filter)

\* A document that is stored leaves the store, or changes, only in a step of a
\* request that selects it.
NothingElseVanishes ==
    [][\A d \in store.docs \ store'.docs :
           \E i \in ReqId : pc[i] = "calling" /\ pc'[i] = "served" /\ Affects(i, d)]_vars

\* The abstract phase of a request.  Every reply has status 200, errors
\* included: the bad_request branch of handle is dead because only POST is
\* routed, and both catch blocks leave the status as it was.
Phase(i) ==
    CASE pc[i] = "idle"    -> "idle"
      [] pc[i] = "replied" -> IF rep[i].status # 200 THEN "refused"
                              ELSE IF rep[i].ok THEN "ok" ELSE "error"
      [] OTHER             -> IF i \in took THEN "applied" ELSE "open"

phaseBar == [i \in ReqId |-> Phase(i)]

Promise == INSTANCE AtMostOnce WITH phase <- phaseBar

\* Whatever the shards interleave and the driver loses, a client sees the
\* at-most-once service of AtMostOnce.
ImplementsAtMostOnce == Promise!Spec

\* A request waiting on a shard whose driver calls come back is answered,
\* unless the process aborts, even when a call on another shard never returns.
AnsweredOnFairShards ==
    \A i \in ReqId :
        (pc[i] = "await" /\ shard[i] \in FairShards) ~> (pc[i] = "replied" \/ ~up)
=============================================================================
