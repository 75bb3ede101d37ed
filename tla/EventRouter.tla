---------------------------- MODULE EventRouter -----------------------------
(***************************************************************************)
(* event_router and event_router_RAII (INCLUDE/EVENTS.h): a map from       *)
(* handles to handlers, and owners that attach a handler when they are     *)
(* constructed and detach it when they are destroyed.                      *)
(*                                                                         *)
(* attach and detach hold the mutex from beginning to end and do not       *)
(* suspend, so each is one step.  Detaching gives the number of the last   *)
(* handle back, whichever handle is detached.                              *)
(***************************************************************************)
EXTENDS Naturals, Functions

CONSTANTS
    Owner,
    LIFO,       \* whether owners are destroyed in reverse order of construction
    MaxHandle   \* bound on the handles given out

VARIABLES
    next_handle,
    dispatch_container, \* handle -> the owner whose handler is stored there
    alive,              \* the owners that exist
    handle,             \* the handle each owner was given, NoHandle if none
    delivered           \* history: the handlers the last event went to

vars == <<next_handle, dispatch_container, alive, handle, delivered>>

ASSUME ConstantsAssumption == LIFO \in BOOLEAN /\ MaxHandle \in Nat \ {0}

\* size_t(-1): attach never gives it out.
NoHandle == 0

Init ==
    /\ next_handle = 1
    /\ dispatch_container = [h \in {} |-> 0]
    /\ alive = {}
    /\ handle = [o \in Owner |-> NoHandle]
    /\ delivered = {}

\* emplace does nothing when the handle is in the map already.
emplace(h, o) ==
    [k \in DOMAIN dispatch_container \cup {h} |->
        IF k \in DOMAIN dispatch_container THEN dispatch_container[k] ELSE o]

\* The constructor of event_router_RAII, with the call of attach it makes.
Construct(o) ==
    /\ o \notin alive
    /\ next_handle < MaxHandle
    /\ alive' = alive \cup {o}
    /\ next_handle' = next_handle + 1
    /\ dispatch_container' = emplace(next_handle, o)
    /\ handle' = [handle EXCEPT ![o] = next_handle]
    /\ UNCHANGED delivered

\* emplace raises after next_handle has been increased; the constructor
\* catches it and the owner exists without a handler.
ConstructFails(o) ==
    /\ o \notin alive
    /\ next_handle < MaxHandle
    /\ alive' = alive \cup {o}
    /\ next_handle' = next_handle + 1
    /\ handle' = [handle EXCEPT ![o] = NoHandle]
    /\ UNCHANGED <<dispatch_container, delivered>>

\* With LIFO the owner destroyed is the last one constructed of those that have
\* a handle, which is the one with the greatest handle.
MayBeDestroyed(o) ==
    /\ o \in alive
    /\ LIFO => handle[o] = NoHandle \/ \A p \in alive : handle[p] <= handle[o]

\* Mutant: the number is given back even if nothing was erased.
DestroyUnchecked(o) ==
    /\ MayBeDestroyed(o)
    /\ alive' = alive \ {o}
    /\ dispatch_container' = Restrict(dispatch_container, DOMAIN dispatch_container \ {handle[o]})
    /\ next_handle' = IF next_handle > 1 THEN next_handle - 1 ELSE 1
    /\ UNCHANGED <<handle, delivered>>

\* Mutant: the owner does not detach its handler.
DestroyForgets(o) ==
    /\ MayBeDestroyed(o)
    /\ alive' = alive \ {o}
    /\ UNCHANGED <<next_handle, dispatch_container, handle, delivered>>

\* The destructor, with the call of detach it makes.
Destroy(o) ==
    LET erased == handle[o] \in DOMAIN dispatch_container
    IN  /\ MayBeDestroyed(o)
        /\ alive' = alive \ {o}
        /\ dispatch_container' =
               Restrict(dispatch_container, DOMAIN dispatch_container \ {handle[o]})
        /\ next_handle' = IF erased THEN next_handle - 1 ELSE next_handle
        /\ UNCHANGED <<handle, delivered>>

\* call starts every handler of the map before it waits for any.
Call ==
    /\ delivered' = Range(dispatch_container)
    /\ UNCHANGED <<next_handle, dispatch_container, alive, handle>>

Next ==
    \/ Call
    \/ \E o \in Owner : Construct(o) \/ ConstructFails(o) \/ Destroy(o)

Spec == Init /\ [][Next]_vars

-----------------------------------------------------------------------------
(***************************************************************************)
(* Properties                                                              *)
(***************************************************************************)

\* The variables have their types; only existing owners have a handler stored.
TypeOK ==
    /\ next_handle \in 1 .. MaxHandle
    /\ DOMAIN dispatch_container \subseteq 1 .. MaxHandle
    /\ dispatch_container = [h \in DOMAIN dispatch_container |-> dispatch_container[h]]
    /\ Range(dispatch_container) \subseteq alive
    /\ alive \subseteq Owner
    /\ handle \in [Owner -> 0 .. MaxHandle]
    /\ delivered \subseteq Owner

\* The next handle is not in use, so that attach never loses the handler it is
\* given: emplace would keep the old one and report nothing.
HandleIsFree == next_handle \notin DOMAIN dispatch_container

Subscribed == INSTANCE Subscriptions WITH bare <- {o \in alive : handle[o] = NoHandle}

\* The router with its handles is the plain set of subscriptions: owners come
\* and go, and each event reaches exactly the handlers of those that exist.
ImplementsSubscriptions == Subscribed!Spec

\* The destructor detaches "event handler with id" of its own handle: an owner
\* that stays alive keeps its handler.
LiveHandlerKept ==
    [][\A o \in alive \cap alive' :
           o \in Range(dispatch_container) => o \in Range(dispatch_container')]_vars
=============================================================================
