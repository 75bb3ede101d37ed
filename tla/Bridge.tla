------------------------------- MODULE Bridge --------------------------------
(***************************************************************************)
(* The program: main_fut (Lifecycle), the DBClients::Init it awaits        *)
(* (DBClients) and the handlers of the server it starts (CrudHandler), in  *)
(* a process that may end at any time and be started again.  main_fut and  *)
(* the handlers of its shard share one thread; the handlers meet the       *)
(* clients that Init left; a reply reaches its client only if the server   *)
(* still has the connection.  The command of a driver call that was under  *)
(* way when the process ended may still be on its way to the server.       *)
(***************************************************************************)
EXTENDS MongoDBInterface, Naturals

CONSTANTS
    Shard, Zero,        \* Zero is the shard that runs main_fut
    ReqId, Requests, EmptyStore,
    Faults,             \* whether a step of the startup may fail
    MaxRuns             \* bound: how often the process is started

VARIABLES
    run, phase, step, clients, cleared, failed_to_init, initialized, has, rows, existed,
    line, services, driver, handler, caught, listening, conn, failed,
    store, alive, busy, pc, req, shard, rep, cursor, took, window,
    late                \* the requests whose command outlived their process

DB   == INSTANCE DBClients
Main == INSTANCE Lifecycle WITH pc <- line, up <- services, rq <- conn, Faults <- TRUE
Crud == INSTANCE CrudHandler WITH up <- alive, FairShards <- Shard

\* The clients are DBClients' and CrudHandler's both.
crud == <<store, alive, busy, pc, req, shard, rep, cursor, took, window, late>>
db   == <<run, phase, step, cleared, failed_to_init, initialized, has, rows, existed>>
main == <<line, services, driver, handler, caught, listening, conn, failed>>
vars == <<db, clients, main, crud>>

ASSUME ConstantsAssumption ==
    /\ Zero \in Shard
    /\ Faults \in BOOLEAN /\ MaxRuns \in Nat
    /\ None \notin Shard \cup ReqId
    /\ None \notin Requests
    /\ StoreOK(EmptyStore) /\ UniqueIds(EmptyStore)
    /\ \A d \in EmptyStore.docs : d.id \notin ReqId
    /\ \A q \in Requests : ~Rejected(q) => Namespaces(q) \subseteq DOMAIN EmptyStore.coll

Init ==
    /\ DB!Init
    /\ Crud!Init
    /\ line = "exited" /\ services = {} /\ driver = FALSE /\ handler = "none"
    /\ caught = FALSE /\ listening = FALSE /\ failed = FALSE
    /\ conn = [i \in ReqId |-> "none"]
    /\ late = {}

-----------------------------------------------------------------------------
(* main_fut. *)

Boot ==
    /\ DB!Boot
    /\ line' = "init" /\ driver' = TRUE /\ handler' = "stop_signal"
    /\ alive' = TRUE
    /\ UNCHANGED <<services, caught, listening, conn, failed>>
    /\ UNCHANGED <<store, busy, pc, req, shard, rep, cursor, took, window, late>>

InitStep ==
    /\ line = "init"
    /\ DB!Control \/ \E s \in Shard : DB!ShardStep(s)
    /\ UNCHANGED <<main, crud>>

\* Mutant: `co_await' is missing.
InitNotAwaited ==
    /\ line = "init"
    /\ Main!StartNext
    /\ UNCHANGED <<db, clients, crud>>

InitReturns ==
    /\ line = "init"
    /\ phase = "returned"
    /\ Main!StartNext
    /\ "clients" \in services' <=> clients # DB!Everywhere("none")
    /\ UNCHANGED <<db, clients, crud>>

InitThrows ==
    /\ line = "init"
    /\ phase = "threw"
    /\ Main!StartThrows
    /\ UNCHANGED <<db, clients, crud>>

\* The other lines.  A driver call of a handler keeps the thread from main_fut.
MainMoves ==
    /\ line # "init"
    /\ busy[Zero] = None
    /\ Main!MainStep
    /\ Faults \/ failed' = failed
    /\ UNCHANGED <<db, clients, crud>>

Signal ==
    /\ busy[Zero] = None
    /\ Main!Signal
    /\ UNCHANGED <<db, clients, crud>>

-----------------------------------------------------------------------------
(* Requests. *)

Accept(i) ==
    /\ Main!Arrive(i)
    /\ \E s \in Shard, q \in Requests : Crud!Accept(i, s, q)
    /\ UNCHANGED <<db, late>>

Work(i) ==
    /\ ~Main!Ended
    /\ Crud!Proceed(i)
    /\ IF alive' THEN UNCHANGED main ELSE Main!Abort(i)
    /\ UNCHANGED <<db, late>>

\* Mutant: the reply is written before the handler has ended.
ReplyEarly(i) ==
    /\ pc[i] # "idle"
    /\ Main!Answer(i)
    /\ UNCHANGED <<db, clients, crud>>

Reply(i) ==
    /\ pc[i] = "replied"
    /\ busy[shard[i]] = None
    /\ Main!Answer(i)
    /\ UNCHANGED <<db, clients, crud>>

-----------------------------------------------------------------------------
(* The end of the process. *)

Lost == {i \in ReqId : conn[i] = "running"}

\* It has run to its end, has aborted, or is killed.
ProcessEnds ==
    /\ DB!End
    /\ line' = "exited" /\ services' = {} /\ driver' = FALSE /\ handler' = "none"
    /\ caught' = FALSE /\ listening' = FALSE /\ failed' = FALSE
    /\ conn' = [i \in ReqId |-> IF i \in Lost THEN "lost" ELSE conn[i]]
    /\ pc' = [i \in ReqId |-> IF i \in Lost THEN "idle" ELSE pc[i]]
    /\ busy' = [s \in Shard |-> None]
    /\ late' = late \cup {i \in Lost : pc[i] = "calling" /\ ~IsFind(req[i])}
    /\ UNCHANGED <<store, alive, req, shard, rep, cursor, took, window>>

\* Mutant: a command that was executed is sent again after the restart.
LateCommandAgain(i) ==
    /\ i \in late
    /\ \E r \in Command(store, i, req[i]) :
          /\ store' = r.st
          /\ took' = IF r.ok THEN took \cup {i} ELSE took
          /\ Crud!Widen(r.st)
    /\ UNCHANGED <<db, clients, main, alive, busy, pc, req, shard, rep, cursor, late>>

\* The server executes a command whose process is gone.  It need not get it.
LateCommand(i) ==
    /\ i \in late
    /\ \E r \in Command(store, i, req[i]) :
          /\ store' = r.st
          /\ took' = IF r.ok THEN took \cup {i} ELSE took
          /\ Crud!Widen(r.st)
    /\ late' = late \ {i}
    /\ UNCHANGED <<db, clients, main, alive, busy, pc, req, shard, rep, cursor>>

Finished == phase = "down" /\ run = MaxRuns /\ UNCHANGED vars

Startup == InitStep \/ InitReturns \/ InitThrows

Next ==
    \/ Boot \/ ProcessEnds \/ Finished
    \/ Startup \/ MainMoves \/ Signal
    \/ \E i \in ReqId : Accept(i) \/ Work(i) \/ Reply(i) \/ LateCommand(i)

Spec == Init /\ [][Next]_vars

\* The reactors run what is ready, driver calls come back, and a process that is
\* over goes away; it need not be started, signalled, used or killed.
Fairness ==
    /\ WF_vars(Startup) /\ WF_vars(MainMoves) /\ WF_vars(Main!Ended /\ ProcessEnds)
    /\ \A i \in ReqId : WF_vars(Work(i)) /\ WF_vars(Reply(i))

FairSpec == Spec /\ Fairness

-----------------------------------------------------------------------------
(***************************************************************************)
(* Properties                                                              *)
(***************************************************************************)

\* The parts keep their types, those that CrudHandler starts from included: what
\* Init leaves, and is leaving while it runs, is among the states CrudHandler
\* was checked and proved with.
TypeOK == DB!TypeOK /\ Main!TypeOK /\ Crud!TypeOK /\ late \subseteq ReqId \cap DOMAIN req

\* main_fut ignores failed_to_init and opens the port all the same; the process
\* aborts only then, and only if no shard got a client at all.
AbortsOnlyWithoutClients ==
    ~alive => failed_to_init /\ clients = DB!Everywhere("none")

\* A driver call is made for a request whose connection is counted, under a
\* server and handlers that are started, with the mongocxx::instance there, Init
\* over, and a client that Init connected.
CallsHaveEverything ==
    \A i \in ReqId :
        pc[i] \in Crud!InCall =>
            /\ conn[i] = "running"
            /\ {"clients", "crud", "server"} \subseteq services /\ driver
            /\ initialized
            /\ clients[shard[i]] = "connected"

\* What a client of the bridge knows of its request.
Seen(i) ==
    CASE conn[i] = "none"    -> "idle"
      [] conn[i] = "replied" -> IF rep[i].ok THEN "ok" ELSE "error"
      [] OTHER -> IF Rejected(req[i]) THEN "error" ELSE IF i \in took THEN "applied" ELSE "open"

seenBar == [i \in ReqId |-> Seen(i)]

Promise == INSTANCE AtMostOnce WITH phase <- seenBar

\* Through crashes, restarts, lost connections and commands that arrive late: a
\* command takes effect once at most, and a client that is told "ok" can rely
\* on it.
ImplementsAtMostOnce == Promise!Spec

\* main_fut comes to its end after a signal although it shares a thread with
\* calls of handlers and has to wait for those of all shards.
SignalStops == caught ~> Main!Ended

\* An accepted request gets its reply, unless the process is told to stop or
\* goes away first.
RequestAnswered ==
    \A i \in ReqId : (conn[i] = "running") ~> (conn[i] = "replied" \/ caught \/ Main!Ended)
=============================================================================
