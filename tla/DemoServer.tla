----------------------------- MODULE DemoServer ------------------------------
(***************************************************************************)
(* The demo application (demo.h, demo.json.hh): main starts a metrics      *)
(* server, if it is given a port for one, and an HTTP server, waits for a  *)
(* signal, and stops both by deferred actions, which run as destructors    *)
(* when the scope is left, the last first, whichever way it is left.       *)
(*                                                                         *)
(* scope holds the objects whose destructors matter, in the order of their *)
(* construction.  http_server_control is external: its stop waits for the  *)
(* handlers, and destroying it while it is started aborts the process.     *)
(***************************************************************************)
EXTENDS SequencesExt

CONSTANT ReqId      \* requests for /hello/world, each made once

VARIABLES
    at,                 \* the step of main: see Startup and After
    scope,
    started,            \* the servers that are started
    prometheus_started,
    listening,          \* whether the HTTP server is
    caught,             \* stop_signal::_caught
    threw,              \* history: the step that raised, or "none"
    request             \* "none", under way ("complete" or "incomplete": with or
                        \* without a query_enum), "answered" or "refused"

vars == <<at, scope, started, prometheus_started, listening, caught, threw, request>>

Startup == {"prometheus_start", "metrics", "prometheus_listen", "server", "defer", "routes", "listen"}

Init ==
    /\ at \in {"prometheus_start", "server"}    \* pport is zero or not
    /\ scope = <<"stop_signal", "prometheus_server", "stop_prometheus">>
    /\ started = {}
    /\ prometheus_started = FALSE
    /\ listening = FALSE
    /\ caught = FALSE
    /\ threw = "none"
    /\ request = [r \in ReqId |-> "none"]

-----------------------------------------------------------------------------
(* main. *)

After(step) ==
    CASE step = "prometheus_start"  -> "metrics"
      [] step = "metrics"           -> "prometheus_listen"
      [] step = "prometheus_listen" -> "server"
      [] step = "server"            -> "defer"
      [] step = "defer"             -> "routes"
      [] step = "routes"            -> "listen"
      [] step = "listen"            -> "wait"

Starts(step) ==
    CASE step = "prometheus_start" -> {"prometheus_server"}
      [] step = "server"           -> {"server"}
      [] OTHER                     -> {}

\* Mutant: the flag waits for the port.
FlagsLate(step) == step = "prometheus_listen"

\* The step after which stop_prometheus knows that there is a server to stop.
Flags(step) == step = "metrics"

\* Each step that has no get() of its own goes with the one before it.
Proceed ==
    /\ at \in Startup
    /\ at' = After(at)
    /\ started' = started \cup Starts(at)
    /\ scope' = CASE at = "server" -> Append(scope, "server")
                  [] at = "defer"  -> Append(scope, "stop_server")
                  [] OTHER         -> scope
    /\ prometheus_started' = (prometheus_started \/ Flags(at))
    /\ listening' = (at = "listen")
    /\ UNCHANGED <<caught, threw, request>>

\* What raises leaves the scope.  Making the deferred action does not raise.
Throws ==
    /\ at \in Startup \ {"defer"}
    /\ at' = "unwind"
    /\ threw' = at
    /\ UNCHANGED <<scope, started, prometheus_started, listening, caught, request>>

\* The scope is left; its last object is stop_server, which closes the port.
WaitIsOver ==
    /\ at = "wait" /\ caught
    /\ at' = "unwind"
    /\ listening' = FALSE
    /\ UNCHANGED <<scope, started, prometheus_started, caught, threw, request>>

UnderWay(r) == request[r] \in {"complete", "incomplete"}

\* Mutant: the handlers are not waited for.
StopServerAtOnce == started' = started \ {"server"} /\ UNCHANGED at

StopServer ==
    /\ \A r \in ReqId : ~UnderWay(r)
    /\ started' = started \ {"server"}
    /\ UNCHANGED at

StopPrometheus ==
    /\ started' = IF prometheus_started THEN started \ {"prometheus_server"} ELSE started
    /\ UNCHANGED at

\* The destructor of a server, or of the stop_signal.
Destroy(object) ==
    /\ at' = IF object \in started THEN "aborted"
             ELSE IF object = "stop_signal" THEN "exited" ELSE at
    /\ UNCHANGED started

\* Mutant: the objects go in the order of their construction.
UnwindForwards ==
    /\ at = "unwind"
    /\ CASE Head(scope) = "stop_server"     -> StopServer
         [] Head(scope) = "stop_prometheus" -> StopPrometheus
         [] OTHER                           -> Destroy(Head(scope))
    /\ scope' = Tail(scope)
    /\ UNCHANGED <<prometheus_started, listening, caught, threw, request>>

\* Leaving the scope runs one destructor after the other.
Unwind ==
    /\ at = "unwind"
    /\ CASE Last(scope) = "stop_server"     -> StopServer
         [] Last(scope) = "stop_prometheus" -> StopPrometheus
         [] OTHER                           -> Destroy(Last(scope))
    /\ scope' = Front(scope)
    /\ UNCHANGED <<prometheus_started, listening, caught, threw, request>>

Main == Proceed \/ Throws \/ WaitIsOver \/ Unwind

-----------------------------------------------------------------------------
(* Signals and requests. *)

Ended == at \in {"exited", "aborted"}

Signal ==
    /\ ~Ended
    /\ caught' = TRUE
    /\ UNCHANGED <<at, scope, started, prometheus_started, listening, threw, request>>

Arrive(r) ==
    /\ listening /\ ~Ended
    /\ request[r] = "none"
    /\ request' \in {[request EXCEPT ![r] = q] : q \in {"complete", "incomplete"}}
    /\ UNCHANGED <<at, scope, started, prometheus_started, listening, caught, threw>>

\* Mutant: what is refused is not answered.
AnswerSome(r) ==
    /\ ~Ended
    /\ request[r] = "complete"
    /\ request' = [request EXCEPT ![r] = "answered"]
    /\ UNCHANGED <<at, scope, started, prometheus_started, listening, caught, threw>>

\* A request without a query_enum is refused: looking it up raises.
Answer(r) ==
    /\ ~Ended /\ UnderWay(r)
    /\ request' = [request EXCEPT ![r] = IF @ = "complete" THEN "answered" ELSE "refused"]
    /\ UNCHANGED <<at, scope, started, prometheus_started, listening, caught, threw>>

AtRest == Ended /\ UNCHANGED vars

Next == Main \/ Signal \/ AtRest \/ \E r \in ReqId : Arrive(r) \/ Answer(r)

\* The reactor runs main and the handlers.
Spec ==
    /\ Init /\ [][Next]_vars
    /\ WF_vars(Main) /\ \A r \in ReqId : WF_vars(Answer(r))

-----------------------------------------------------------------------------
(***************************************************************************)
(* Properties                                                              *)
(***************************************************************************)

\* The variables have their types, and main is over when its scope is empty.
TypeOK ==
    /\ at \in Startup \cup {"wait", "unwind", "exited", "aborted"}
    /\ at = "exited" <=> scope = <<>>
    /\ ToSet(scope) \subseteq {"stop_signal", "prometheus_server", "stop_prometheus",
                               "server", "stop_server"}
    /\ started \subseteq {"prometheus_server", "server"}
    /\ prometheus_started \in BOOLEAN /\ listening \in BOOLEAN /\ caught \in BOOLEAN
    /\ threw \in Startup \cup {"none"}
    /\ request \in [ReqId -> {"none", "complete", "incomplete", "answered", "refused"}]

\* However the startup ends, each server is stopped before its object goes and
\* main is left in good order, but for one step.  prometheus::start raises between
\* the start of the metrics server and the flag that has the deferred action stop
\* it, and so always aborts the process.
AbortsExactlyInMetrics ==
    /\ at = "aborted" => threw = "metrics"
    /\ at = "exited" => threw # "metrics"

\* No handler runs under a server that is stopped, nor after main has left.
NoRequestWithoutServer ==
    \A r \in ReqId :
        UnderWay(r) => "server" \in started /\ {"server", "stop_signal"} \subseteq ToSet(scope)

\* A signal ends the process, during the startup as well.
SignalStops == caught ~> Ended
=============================================================================
