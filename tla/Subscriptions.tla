--------------------------- MODULE Subscriptions ----------------------------
(***************************************************************************)
(* What an event router is for, without handles: each owner's handler is   *)
(* subscribed from the owner's construction to its destruction, unless the *)
(* owner knows that its subscription failed, and an event goes to exactly  *)
(* the handlers that are subscribed.  EventRouter implements this when     *)
(* owners are destroyed in the reverse of the order of construction.       *)
(***************************************************************************)
CONSTANT Owner

VARIABLES
    alive,      \* the owners that exist
    bare,       \* those whose subscription failed
    delivered   \* the handlers the last event went to

vars == <<alive, bare, delivered>>

Init == alive = {} /\ bare = {} /\ delivered = {}

Construct(o) ==
    /\ o \notin alive
    /\ alive' = alive \cup {o}
    /\ bare' \in {bare, bare \cup {o}}
    /\ UNCHANGED delivered

Destroy(o) ==
    /\ o \in alive
    /\ alive' = alive \ {o}
    /\ bare' = bare \ {o}
    /\ UNCHANGED delivered

Call == delivered' = alive \ bare /\ UNCHANGED <<alive, bare>>

Next == Call \/ \E o \in Owner : Construct(o) \/ Destroy(o)

Spec == Init /\ [][Next]_vars
=============================================================================
