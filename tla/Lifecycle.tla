----------------------------- MODULE Lifecycle ------------------------------
(***************************************************************************)
(* main_fut (main.cc) from the construction of its stop_signal to its end: *)
(* the services it starts and stops, the signals that arrive meanwhile     *)
(* (stop_signal.hh), and the requests the server accepts.                  *)
(*                                                                         *)
(* main_fut is one coroutine: pc names the line it is about to execute or  *)
(* is awaiting.  Signals, connections and handlers interleave with it at   *)
(* every suspension.  http_server_control is external: it accepts while it *)
(* listens, and its stop closes the connections and then waits for the     *)
(* handlers that are running.                                              *)
(***************************************************************************)
EXTENDS Naturals

CONSTANTS
    ReqId,      \* the requests that may arrive, each once
    Faults      \* whether the steps of the startup may throw

VARIABLES
    pc,
    up,         \* the services that are started
    driver,     \* the mongocxx::instance of main_fut exists
    handler,    \* what SIGINT and SIGTERM do: "stop_signal" or "none"
    caught,     \* stop_signal::_caught
    listening,
    rq,         \* "none", "running", "replied", or "lost" with its connection
    failed      \* history: an exception was caught at the end of main_fut

vars == <<pc, up, driver, handler, caught, listening, rq, failed>>

ASSUME ConstantsAssumption == Faults \in BOOLEAN

Service == {"clients", "mutex", "crud", "server"}

\* The services each line of the startup starts, and the line after it.
Startup == {"init", "mutex", "crud", "server", "routes", "listen"}
Starts(line) ==
    CASE line = "init"   -> {"clients"}
      [] line = "mutex"  -> {"mutex"}
      [] line = "crud"   -> {"crud"}
      [] line = "server" -> {"server"}
      [] OTHER           -> {}
After(line) ==
    CASE line = "init"   -> "mutex"
      [] line = "mutex"  -> "crud"
      [] line = "crud"   -> "server"
      [] line = "server" -> "routes"
      [] line = "routes" -> "listen"
      [] line = "listen" -> "wait"

Init ==
    /\ pc = "init"
    /\ up = {}
    /\ driver = TRUE
    /\ handler = "stop_signal"
    /\ caught = FALSE
    /\ listening = FALSE
    /\ rq = [r \in ReqId |-> "none"]
    /\ failed = FALSE

Ended == pc \in {"exited", "aborted"}

-----------------------------------------------------------------------------
(* main_fut *)

\* One co_await of the startup succeeds.  DBClients::Init also returns when the
\* clients were not started; main_fut does not look at failed_to_init.
StartNext ==
    /\ pc \in Startup
    /\ pc' = After(pc)
    /\ \/ up' = up \cup Starts(pc)
       \/ Faults /\ pc = "init" /\ up' = up
    /\ listening' = (pc = "listen")
    /\ UNCHANGED <<driver, handler, caught, rq, failed>>

\* It throws: the catch block logs the exception and main_fut returns, with the
\* services started so far as they are.
StartThrows ==
    /\ Faults
    /\ pc \in Startup
    /\ pc' = "leave"
    /\ failed' = TRUE
    /\ UNCHANGED <<up, driver, handler, caught, listening, rq>>

\* Mutant: the condition variable is waited for without its condition.
WaitWithoutPredicate ==
    /\ pc = "wait"
    /\ pc' = "stop_server"
    /\ UNCHANGED <<up, driver, handler, caught, listening, rq, failed>>

\* co_await stop_signal.wait(): the condition may hold already.
WaitIsOver ==
    /\ pc = "wait"
    /\ caught
    /\ pc' = "stop_server"
    /\ UNCHANGED <<up, driver, handler, caught, listening, rq, failed>>

\* server->stop() begins: no more connections, and those there are are closed.
StopServer ==
    /\ pc = "stop_server"
    /\ pc' = "closing"
    /\ listening' = FALSE
    /\ UNCHANGED <<up, driver, handler, caught, rq, failed>>

\* Mutant: the server does not wait for its handlers.
ServerStoppedAtOnce ==
    /\ pc = "closing"
    /\ pc' = "stop_crud"
    /\ up' = up \ {"server"}
    /\ UNCHANGED <<driver, handler, caught, listening, rq, failed>>

\* Mutant: a request whose reply was lost is never taken for finished.
ServerStoppedLeaky ==
    /\ pc = "closing"
    /\ \A r \in ReqId : rq[r] \notin {"running", "lost"}
    /\ pc' = "stop_crud"
    /\ up' = up \ {"server"}
    /\ UNCHANGED <<driver, handler, caught, listening, rq, failed>>

ServerStopped ==
    /\ pc = "closing"
    /\ \A r \in ReqId : rq[r] # "running"
    /\ pc' = "stop_crud"
    /\ up' = up \ {"server"}
    /\ UNCHANGED <<driver, handler, caught, listening, rq, failed>>

\* Mutant: the handlers are not stopped.
StopCrudOmitted ==
    /\ pc = "stop_crud"
    /\ pc' = "leave"
    /\ UNCHANGED <<up, driver, handler, caught, listening, rq, failed>>

StopCrud ==
    /\ pc = "stop_crud"
    /\ pc' = "leave"
    /\ up' = up \ {"crud"}
    /\ UNCHANGED <<driver, handler, caught, listening, rq, failed>>

\* Mutant: the destructor leaves the signals' handlers in place.
LeaveHandlers ==
    /\ pc = "leave"
    /\ pc' = "exited"
    /\ driver' = FALSE
    /\ UNCHANGED <<up, handler, caught, listening, rq, failed>>

\* The end of main_fut's scope: the mongocxx::instance and the stop_signal are
\* destroyed; the destructor of the latter makes the signals do nothing.
Leave ==
    /\ pc = "leave"
    /\ pc' = "exited"
    /\ driver' = FALSE
    /\ handler' = "none"
    /\ UNCHANGED <<up, caught, listening, rq, failed>>

MainStep ==
    StartNext \/ StartThrows \/ WaitIsOver \/ StopServer \/ ServerStopped \/ StopCrud \/ Leave

-----------------------------------------------------------------------------
(* What interleaves with it. *)

\* A second signal changes nothing.
Signal ==
    /\ ~Ended
    /\ handler = "stop_signal"
    /\ caught' = TRUE
    /\ UNCHANGED <<pc, up, driver, handler, listening, rq, failed>>

Arrive(r) ==
    /\ ~Ended
    /\ listening
    /\ rq[r] = "none"
    /\ rq' = [rq EXCEPT ![r] = "running"]
    /\ UNCHANGED <<pc, up, driver, handler, caught, listening, failed>>

\* Mutant: the reply is dropped on some path.
AnswerDropped(r) ==
    /\ ~Ended
    /\ rq[r] = "running"
    /\ rq' = [rq EXCEPT ![r] = "lost"]
    /\ UNCHANGED <<pc, up, driver, handler, caught, listening, failed>>

\* The handler has run to its end; its reply is lost if the server has closed
\* the connection.
Answer(r) ==
    /\ ~Ended
    /\ rq[r] = "running"
    /\ rq' = [rq EXCEPT ![r] = IF listening THEN "replied" ELSE "lost"]
    /\ UNCHANGED <<pc, up, driver, handler, caught, listening, failed>>

\* Without clients db_clients() aborts the process, if the handler gets that far.
Abort(r) ==
    /\ ~Ended
    /\ rq[r] = "running"
    /\ "clients" \notin up
    /\ pc' = "aborted"
    /\ UNCHANGED <<up, driver, handler, caught, listening, rq, failed>>

Handle(r) == Answer(r) \/ Abort(r)

AtRest == Ended /\ UNCHANGED vars

Next ==
    \/ MainStep
    \/ Signal
    \/ \E r \in ReqId : Arrive(r) \/ Handle(r)
    \/ AtRest

Spec == Init /\ [][Next]_vars

\* The reactor runs main_fut and the handlers; it need not get any signal or
\* connection.
Fairness == WF_vars(MainStep) /\ \A r \in ReqId : WF_vars(Handle(r))

FairSpec == Spec /\ Fairness

-----------------------------------------------------------------------------
(***************************************************************************)
(* Properties                                                              *)
(***************************************************************************)

\* The variables have their types, and the signals' handlers do not outlive the
\* stop_signal they refer to.
TypeOK ==
    /\ pc \in Startup \cup {"wait", "stop_server", "closing", "stop_crud", "leave",
                            "exited", "aborted"}
    /\ up \subseteq Service
    /\ driver \in BOOLEAN /\ caught \in BOOLEAN /\ listening \in BOOLEAN /\ failed \in BOOLEAN
    /\ handler \in {"stop_signal", "none"}
    /\ rq \in [ReqId -> {"none", "running", "replied", "lost"}]
    /\ handler = "none" <=> pc = "exited"

\* A handler runs only while everything it uses is there, or has been given up
\* with the process: its own service, the server that called it, the driver.
NoRequestWithoutService ==
    \A r \in ReqId : rq[r] = "running" => {"crud", "server"} \subseteq up /\ driver

\* main_fut ends only when a signal was caught or the startup threw, and then
\* no handler is running.
EndsOnlyWhenAsked ==
    pc = "exited" => (caught \/ failed) /\ \A r \in ReqId : rq[r] # "running"

\* What the static destructors find started, which should have been stopped.
\* After a start that succeeded it is the mutex, whose stop is missing, and the
\* clients, whose destructor stops them, if Init started them.  After a start that
\* threw it is everything up to the line that threw, and no request was accepted.
LeftStarted ==
    pc = "exited" =>
        IF failed
        THEN /\ up \ {"clients"} \in {{}, {"mutex"}, {"mutex", "crud"}, {"mutex", "crud", "server"}}
             /\ \A r \in ReqId : rq[r] = "none"
        ELSE up \ {"clients"} = {"mutex"}

\* A signal ends the process whenever it comes, in the middle of the startup
\* too, unless the process aborts.
SignalStops == caught ~> Ended

\* An accepted request is answered unless the process is told to stop or aborts.
RequestAnswered ==
    \A r \in ReqId : (rq[r] = "running") ~> (rq[r] = "replied" \/ caught \/ pc = "aborted")
=============================================================================
