----------------------------- MODULE AtMostOnce -----------------------------
(***************************************************************************)
(* What the REST bridge promises its clients, without shards, reactors,    *)
(* cursors or a driver that fails: each request is answered once; before   *)
(* that its command takes effect at most once, in one atomic step; "ok" is *)
(* answered only when the command took effect, or had none to take; an     *)
(* error may be answered in either case; a request that is refused never   *)
(* touches the store.  CrudHandler implements this specification.          *)
(***************************************************************************)
EXTENDS MongoDBInterface

CONSTANTS
    ReqId,      \* the requests, each made once
    Requests,   \* what a request may ask
    EmptyStore  \* the store before the first request

VARIABLES
    store,      \* the contents of the server
    req,        \* what each request asks
    phase       \* "idle", "open", "applied", "ok" or "error"

vars == <<store, req, phase>>

Init ==
    /\ store = EmptyStore
    /\ req = [i \in ReqId |-> None]
    /\ phase = [i \in ReqId |-> "idle"]

Receive(i) ==
    /\ phase[i] = "idle"
    /\ \E q \in Requests :
          /\ req' = [req EXCEPT ![i] = q]
          /\ phase' = [phase EXCEPT ![i] = IF Rejected(q) THEN "error" ELSE "open"]
    /\ UNCHANGED store

Apply(i) ==
    /\ phase[i] = "open"
    /\ ~IsFind(req[i])
    /\ ~NothingToDo(req[i])
    /\ \E r \in Command(store, i, req[i]) : r.ok /\ store' = r.st
    /\ phase' = [phase EXCEPT ![i] = "applied"]
    /\ UNCHANGED req

AnswerOk(i) ==
    /\ \/ phase[i] = "applied"
       \/ phase[i] = "open" /\ (IsFind(req[i]) \/ NothingToDo(req[i]))
    /\ phase' = [phase EXCEPT ![i] = "ok"]
    /\ UNCHANGED <<store, req>>

AnswerError(i) ==
    /\ phase[i] \in {"open", "applied"}
    /\ phase' = [phase EXCEPT ![i] = "error"]
    /\ UNCHANGED <<store, req>>

Next == \E i \in ReqId : Receive(i) \/ Apply(i) \/ AnswerOk(i) \/ AnswerError(i)

Spec == Init /\ [][Next]_vars
=============================================================================
