-------------------------- MODULE LifecycleProofs ---------------------------
(* Lifecycle proved for any number of requests, with and without faults. *)
EXTENDS Lifecycle, TLAPS

\* What is up, the clients aside, when main_fut comes to a line of the startup.
Before(line) ==
    CASE line \in {"init", "mutex"}    -> {}
      [] line = "crud"                 -> {"mutex"}
      [] line = "server"               -> {"mutex", "crud"}
      [] line \in {"routes", "listen"} -> {"mutex", "crud", "server"}

\* Where main_fut is, and what that says: which services are up, whether the
\* server may be listening or have handlers running, why main_fut came here.
Stage ==
    /\ pc \in {"server", "routes", "listen", "wait", "stop_server", "closing", "aborted"}
          => "crud" \in up
    /\ pc \in {"routes", "listen", "wait", "stop_server", "closing", "aborted"} => "server" \in up
    /\ pc # "exited" => driver
    /\ listening => pc \in {"wait", "stop_server", "aborted"}
    /\ \A r \in ReqId : rq[r] = "running" => pc \in {"wait", "stop_server", "closing", "aborted"}
    /\ pc \in {"stop_server", "closing", "stop_crud"} => caught
    /\ pc \in {"leave", "exited"} => caught \/ failed
    /\ pc \in Startup => ~failed /\ up \ {"clients"} = Before(pc)
    /\ pc \in {"wait", "stop_server", "closing"} => up \ {"clients"} = {"mutex", "crud", "server"}
    /\ pc = "stop_crud" => up \ {"clients"} = {"mutex", "crud"}
    /\ pc \in {"wait", "stop_server", "closing", "stop_crud"} => ~failed
    /\ pc \in {"leave", "exited"} =>
          IF failed THEN up \ {"clients"} \in {{}, {"mutex"}, {"mutex", "crud"},
                                              {"mutex", "crud", "server"}}
          ELSE up \ {"clients"} = {"mutex"}

IInv == TypeOK /\ Stage

\* No request is accepted before the startup is over.  Unlike IInv this is about
\* the first life of a process: a later one finds the requests of the earlier.
Unused == failed \/ pc \in Startup => \A r \in ReqId : rq[r] = "none"

LEMMA InitInv == Init => IInv
BY DEF Init, IInv, TypeOK, Stage, Startup, Service, Before

LEMMA NextInv == IInv /\ [Next]_vars => IInv'
<1> SUFFICES ASSUME IInv, [Next]_vars PROVE IInv'
  OBVIOUS
<1> USE DEF IInv, TypeOK, Stage, Startup, Service
<1>1. CASE UNCHANGED vars
  BY <1>1 DEF vars
<1>2. CASE StartNext
  <2>1. /\ After(pc) \in Startup \cup {"wait"}
        /\ Starts(pc) \subseteq Service
    BY <1>2 DEF StartNext, After, Starts
  <2>2. TypeOK'
    BY <1>2, <2>1 DEF StartNext
  <2>3. Stage'
    BY <1>2 DEF StartNext, After, Starts, Before
  <2> QED
    BY <2>2, <2>3
<1>3. CASE StartThrows
  BY <1>3 DEF StartThrows, Before
<1>4. CASE WaitIsOver
  BY <1>4 DEF WaitIsOver
<1>5. CASE StopServer
  BY <1>5 DEF StopServer
<1>6. CASE ServerStopped
  BY <1>6 DEF ServerStopped
<1>7. CASE StopCrud
  BY <1>7 DEF StopCrud
<1>8. CASE Leave
  BY <1>8 DEF Leave
<1>9. CASE Signal
  BY <1>9 DEF Signal, Ended
<1>10. ASSUME NEW r \in ReqId, Arrive(r) PROVE IInv'
  BY <1>10 DEF Arrive, Ended
<1>11. ASSUME NEW r \in ReqId, Answer(r) PROVE IInv'
  BY <1>11 DEF Answer, Ended
<1>12. ASSUME NEW r \in ReqId, Abort(r) PROVE IInv'
  BY <1>12 DEF Abort, Ended
<1> QED
  BY <1>1, <1>2, <1>3, <1>4, <1>5, <1>6, <1>7, <1>8, <1>9, <1>10, <1>11,
     <1>12 DEF Next, MainStep, Handle, AtRest

LEMMA Inductive == Spec => []IInv
BY InitInv, NextInv, PTL DEF Spec

\* The types, and that the signals' handlers do not outlive the stop_signal.
THEOREM TypeCorrect == Spec => []TypeOK
<1>1. IInv => TypeOK
  BY DEF IInv
<1> QED
  BY <1>1, Inductive, PTL

\* Nothing a running handler uses is stopped or destroyed under it.
THEOREM ServicesOutliveRequests == Spec => []NoRequestWithoutService
<1>1. IInv => NoRequestWithoutService
  BY DEF IInv, Stage, NoRequestWithoutService
<1> QED
  BY <1>1, Inductive, PTL

\* main_fut ends for a reason, and leaves no handler behind.
THEOREM EndIsAsked == Spec => []EndsOnlyWhenAsked
<1>1. IInv => EndsOnlyWhenAsked
  BY DEF IInv, Stage, EndsOnlyWhenAsked
<1> QED
  BY <1>1, Inductive, PTL

LEMMA NextUnused == IInv /\ Unused /\ [Next]_vars => Unused'
<1> SUFFICES ASSUME IInv, Unused, [Next]_vars PROVE Unused'
  OBVIOUS
<1> USE DEF IInv, TypeOK, Stage, Unused, Startup
<1>1. CASE MainStep
  BY <1>1 DEF MainStep, StartNext, After, StartThrows, WaitIsOver, StopServer, ServerStopped,
              StopCrud, Leave
<1>2. CASE Signal \/ UNCHANGED vars
  BY <1>2 DEF Signal, vars
<1>3. ASSUME NEW r \in ReqId, Arrive(r) \/ Handle(r) PROVE Unused'
  BY <1>3 DEF Handle, Arrive, Answer, Abort, Ended
<1> QED
  BY <1>1, <1>2, <1>3 DEF Next, AtRest

\* What is left started at the end is known from the way the startup went, and
\* after one that threw no request was accepted.
THEOREM StoppedInTime == Spec => []LeftStarted
<1>1. Init => IInv /\ Unused
  BY InitInv DEF Init, Unused
<1>2. (IInv /\ Unused) /\ [Next]_vars => (IInv /\ Unused)'
  BY NextInv, NextUnused
<1>3. IInv /\ Unused => LeftStarted
  BY DEF IInv, Stage, Unused, LeftStarted
<1> QED
  BY <1>1, <1>2, <1>3, PTL DEF Spec
=============================================================================
