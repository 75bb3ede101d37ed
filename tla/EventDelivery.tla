--------------------------- MODULE EventDelivery ----------------------------
(***************************************************************************)
(* event_router::call (INCLUDE/EVENTS.h) with handlers that suspend, while *)
(* owners come and go and other calls are under way.                       *)
(*                                                                         *)
(* parallel_for_each starts every handler of the map before anything else  *)
(* can run, lets a failure of one stop none of the others, and is over     *)
(* when all of them are.  A suspended handler still uses its closure, which *)
(* is stored in the map, and the event, which belongs to the caller.       *)
(* Nothing in the router protects the closure: an owner may be destroyed,  *)
(* and its closure erased, while its handler is suspended.  Going on       *)
(* without a closure is undefined, so such a handler may end or not.       *)
(* Left out: a handler that attaches or detaches before its first          *)
(* suspension, which changes the map under the loop and is undefined.      *)
(***************************************************************************)
EXTENDS EventRouter

CONSTANT CallId     \* the calls that may be under way at once

VARIABLES
    status,     \* of each call: "none", "running", "done" or "failed"
    running,    \* the owners whose handlers it has started and not yet seen end
    broke,      \* whether one of its handlers has raised
    orphaned    \* those of running that have been destroyed meanwhile

delivery == <<status, running, broke, orphaned>>

DeliveryInit ==
    /\ Init
    /\ status = [c \in CallId |-> "none"]
    /\ running = [c \in CallId |-> {}]
    /\ broke = [c \in CallId |-> FALSE]
    /\ orphaned = [c \in CallId |-> {}]

\* Mutant: `co_await' is missing.
CallDetached(c) ==
    /\ status[c] # "running"
    /\ Call
    /\ \E slow \in SUBSET delivered' : running' = [running EXCEPT ![c] = slow]
    /\ broke' = [broke EXCEPT ![c] = FALSE]
    /\ status' = [status EXCEPT ![c] = "done"]
    /\ UNCHANGED orphaned

\* Some handlers end at once, some of these by raising.  With no handler there
\* is nothing to wait for.
CallBegins(c) ==
    /\ status[c] # "running"
    /\ Call
    /\ \E slow \in SUBSET delivered', bad \in BOOLEAN :
          /\ bad => slow # delivered'
          /\ running' = [running EXCEPT ![c] = slow]
          /\ broke' = [broke EXCEPT ![c] = bad]
    /\ UNCHANGED orphaned
    /\ status' = [status EXCEPT ![c] = IF delivered' = {} THEN "done" ELSE "running"]

\* Mutant: a handler that raises is started again.
HandlerRetried(c, o) ==
    /\ o \in running[c]
    /\ \/ /\ ~broke[c]
          /\ running' = [running EXCEPT ![c] = @ \ {o}]
          /\ orphaned' = [orphaned EXCEPT ![c] = @ \ {o}]
          /\ UNCHANGED broke
       \/ UNCHANGED <<running, orphaned>> /\ broke' = [broke EXCEPT ![c] = TRUE]
    /\ UNCHANGED <<vars, status>>

HandlerEnds(c, o) ==
    /\ o \in running[c]
    /\ running' = [running EXCEPT ![c] = @ \ {o}]
    /\ orphaned' = [orphaned EXCEPT ![c] = @ \ {o}]
    /\ broke' \in {broke, [broke EXCEPT ![c] = TRUE]}
    /\ UNCHANGED <<vars, status>>

\* The call raises what one of the handlers raised.
CallOver(c) ==
    /\ status[c] = "running"
    /\ running[c] = {}
    /\ status' = [status EXCEPT ![c] = IF broke[c] THEN "failed" ELSE "done"]
    /\ UNCHANGED <<vars, running, broke, orphaned>>

\* The destructor detaches whatever its handler is doing.
OwnersMove ==
    /\ \E o \in Owner : Construct(o) \/ ConstructFails(o) \/ Destroy(o)
    /\ orphaned' = [c \in CallId |-> orphaned[c] \cup (running[c] \ alive')]
    /\ UNCHANGED <<status, running, broke>>

DeliveryNext ==
    \/ OwnersMove
    \/ \E c \in CallId :
          CallBegins(c) \/ CallOver(c) \/ \E o \in Owner : HandlerEnds(c, o)

DeliverySpec == DeliveryInit /\ [][DeliveryNext]_<<vars, delivery>>

Progress(c) == CallOver(c) \/ \E o \in Owner \ orphaned[c] : HandlerEnds(c, o)

\* Handlers that have their owner come back, and a call goes on when all of its
\* handlers have; no event need be sent, no owner constructed.
DeliveryFairSpec == DeliverySpec /\ \A c \in CallId : WF_<<vars, delivery>>(Progress(c))

-----------------------------------------------------------------------------
(***************************************************************************)
(* Properties                                                              *)
(***************************************************************************)

\* The variables have their types.
DeliveryTypeOK ==
    /\ TypeOK
    /\ status \in [CallId -> {"none", "running", "done", "failed"}]
    /\ running \in [CallId -> SUBSET Owner]
    /\ broke \in [CallId -> BOOLEAN]
    /\ orphaned \in [CallId -> SUBSET Owner]

\* Nothing but the destruction of its own owner takes a suspended handler's
\* closure from the map: not a recycled handle, a failed attach or what the
\* other owners do, however often they come and go during the call.
ClosureKeptByOwner ==
    \A c \in CallId : running[c] \ orphaned[c] \subseteq Range(dispatch_container)

\* The future of a call, for which the caller keeps the event, does not resolve
\* while a handler still uses the event, and tells of a handler that raised.
CallAccountsForAll ==
    \A c \in CallId :
        status[c] \in {"done", "failed"} =>
            running[c] = {} /\ (status[c] = "failed" <=> broke[c])

\* Every call comes to its end, those of handlers that raise included, unless an
\* owner is destroyed under it.
CallEnds ==
    \A c \in CallId :
        (status[c] = "running") ~> (status[c] \in {"done", "failed"} \/ orphaned[c] # {})
=============================================================================
