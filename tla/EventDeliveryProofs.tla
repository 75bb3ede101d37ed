------------------------ MODULE EventDeliveryProofs -------------------------
(***************************************************************************)
(* The event router is correct for any number of owners, handles and calls *)
(* with suspended handlers, as long as owners are destroyed in the reverse *)
(* of the order in which they were constructed (LIFO).  Its invariant IInv *)
(* says whose handler each handle stores, which also shows that owners who *)
(* come and go during a call take no handler away but their own, even when *)
(* they are destroyed while it is suspended.                               *)
(***************************************************************************)
EXTENDS EventDelivery, TLAPS

\* The owners that have a handle and the entries of the map are the same thing,
\* seen from both sides, and all the handles in use are below the next one.
Paired ==
    /\ \A o \in alive : handle[o] # NoHandle =>
          /\ handle[o] \in DOMAIN dispatch_container
          /\ dispatch_container[handle[o]] = o
    /\ \A h \in DOMAIN dispatch_container :
          /\ h < next_handle
          /\ dispatch_container[h] \in alive
          /\ handle[dispatch_container[h]] = h

IInv == TypeOK /\ Paired

LEMMA InitInv == Init => IInv
<1> SUFFICES ASSUME Init PROVE IInv
  OBVIOUS
<1>1. TypeOK
  BY ConstantsAssumption DEF Init, TypeOK, Range, NoHandle
<1>2. Paired
  BY DEF Init, Paired
<1> QED
  BY <1>1, <1>2 DEF IInv

LEMMA ConstructInv ==
    ASSUME IInv, NEW o \in Owner, Construct(o)
    PROVE  IInv'
<1> DEFINE d == dispatch_container
           n == next_handle
<1>1. /\ n \in Nat /\ n \in 1 .. MaxHandle /\ n + 1 \in 1 .. MaxHandle
      /\ n \notin DOMAIN d
      /\ alive' = alive \cup {o} /\ next_handle' = n + 1
      /\ handle' = [handle EXCEPT ![o] = n]
      /\ o \notin alive
  BY ConstantsAssumption DEF IInv, TypeOK, Paired, Construct
<1>2. /\ DOMAIN d' = DOMAIN d \cup {n}
      /\ d'[n] = o
      /\ \A h \in DOMAIN d : d'[h] = d[h]
      /\ d' = [h \in DOMAIN d' |-> d'[h]]
  BY <1>1 DEF Construct, emplace
<1>3. TypeOK'
  <2>1. Range(d)' \subseteq alive'
    BY <1>1, <1>2 DEF Range, IInv, TypeOK
  <2>2. handle' \in [Owner -> 0 .. MaxHandle]
    BY <1>1, ConstantsAssumption DEF IInv, TypeOK
  <2> QED
    BY <1>1, <1>2, <2>1, <2>2 DEF IInv, TypeOK, Construct
<1>4. Paired'
  <2>1. handle'[o] = n /\ \A p \in alive : handle'[p] = handle[p]
    BY <1>1 DEF IInv, TypeOK
  <2>2. \A h \in DOMAIN d : h < n + 1
    BY <1>1 DEF IInv, TypeOK, Paired
  <2> QED
    BY <1>1, <1>2, <2>1, <2>2 DEF IInv, Paired, NoHandle
<1> QED
  BY <1>3, <1>4 DEF IInv

LEMMA ConstructFailsInv ==
    ASSUME IInv, NEW o \in Owner, ConstructFails(o)
    PROVE  IInv'
<1>1. next_handle \in Nat /\ next_handle + 1 \in 1 .. MaxHandle
  BY ConstantsAssumption DEF IInv, TypeOK, ConstructFails
<1>2. TypeOK'
  BY <1>1, ConstantsAssumption DEF IInv, TypeOK, ConstructFails, NoHandle, Range
<1>3. Paired'
  BY <1>1, ConstantsAssumption DEF IInv, TypeOK, Paired, ConstructFails, NoHandle
<1> QED
  BY <1>2, <1>3 DEF IInv

LEMMA DestroyInv ==
    ASSUME LIFO, IInv, NEW o \in Owner, Destroy(o)
    PROVE  IInv'
<1> DEFINE d == dispatch_container
           h == handle[o]
<1>1. /\ d' = [k \in DOMAIN d \ {h} |-> d[k]]
      /\ alive' = alive \ {o} /\ o \in alive /\ handle' = handle
      /\ h = NoHandle \/ \A p \in alive : handle[p] <= h
  BY DEF Destroy, MayBeDestroyed, Restrict
<1>2. /\ DOMAIN d' = DOMAIN d \ {h}
      /\ \A k \in DOMAIN d' : d'[k] = d[k]
      /\ d' = [k \in DOMAIN d' |-> d'[k]]
  BY <1>1
<1>3. CASE h = NoHandle
  <2>1. h \notin DOMAIN d /\ next_handle' = next_handle
    BY <1>3, ConstantsAssumption DEF IInv, TypeOK, NoHandle, Destroy
  <2>2. \A k \in DOMAIN d : d[k] # o
    BY <1>3, <2>1 DEF IInv, Paired
  <2>3. TypeOK'
    <3>1. Range(d)' \subseteq alive'
      BY <1>1, <1>2, <2>2 DEF Range, IInv, TypeOK
    <3> QED
      BY <1>1, <1>2, <2>1, <3>1 DEF IInv, TypeOK, Destroy
  <2>4. Paired'
    BY <1>1, <1>2, <2>1, <2>2 DEF IInv, Paired
  <2> QED
    BY <2>3, <2>4 DEF IInv
<1>4. CASE h # NoHandle
  <2>1. /\ h \in DOMAIN d /\ d[h] = o /\ next_handle' = next_handle - 1
        /\ h \in 1 .. MaxHandle /\ h < next_handle /\ next_handle \in 1 .. MaxHandle
    BY <1>1, <1>4 DEF IInv, TypeOK, Paired, Destroy
  <2>2. next_handle' \in 1 .. MaxHandle
    BY <2>1, ConstantsAssumption
  <2>3. \A k \in DOMAIN d' : d[k] # o /\ k < next_handle - 1
    <3> SUFFICES ASSUME NEW k \in DOMAIN d' PROVE d[k] # o /\ k < next_handle - 1
      OBVIOUS
    <3>1. k # h /\ d[k] \in alive /\ handle[d[k]] = k /\ k \in 1 .. MaxHandle
      BY <1>2 DEF IInv, TypeOK, Paired
    <3>2. k <= h
      BY <1>1, <1>4, <3>1
    <3> QED
      BY <2>1, <3>1, <3>2, ConstantsAssumption
  <2>4. TypeOK'
    <3>1. Range(d)' \subseteq alive'
      <4>1. \A k \in DOMAIN d' : d'[k] \in alive \ {o}
        BY <1>2, <2>3 DEF IInv, Paired
      <4> QED
        BY <1>1, <4>1 DEF Range
    <3> QED
      BY <1>1, <1>2, <2>2, <3>1 DEF IInv, TypeOK, Destroy
  <2>5. Paired'
    BY <1>1, <1>2, <2>1, <2>3 DEF IInv, Paired
  <2> QED
    BY <2>4, <2>5 DEF IInv
<1> QED
  BY <1>3, <1>4

LEMMA NextInv == LIFO /\ IInv /\ [Next]_vars => IInv'
<1> SUFFICES ASSUME LIFO, IInv, [Next]_vars PROVE IInv'
  OBVIOUS
<1>1. CASE UNCHANGED vars
  BY <1>1 DEF IInv, TypeOK, Paired, vars, Range
<1>2. CASE Call
  BY <1>2 DEF IInv, TypeOK, Paired, Call, Range
<1> QED
  BY <1>1, <1>2, ConstructInv, ConstructFailsInv, DestroyInv DEF Next

LEMMA Inductive ==
    ASSUME LIFO
    PROVE  Spec => []IInv
<1>1. IInv /\ [Next]_vars => IInv'
  BY NextInv
<1> QED
  BY InitInv, <1>1, PTL DEF Spec

\* The types; no handler is stored for an owner that is gone.
THEOREM TypeCorrect ==
    ASSUME LIFO
    PROVE  Spec => []TypeOK
<1>1. IInv => TypeOK
  BY DEF IInv
<1> QED
  BY <1>1, Inductive, PTL

\* attach never finds its handle in use.
THEOREM HandleAlwaysFree ==
    ASSUME LIFO
    PROVE  Spec => []HandleIsFree
<1>1. IInv => HandleIsFree
  BY DEF IInv, TypeOK, Paired, HandleIsFree
<1> QED
  BY <1>1, Inductive, PTL

-----------------------------------------------------------------------------
(* The refinement. *)

Bare == {o \in alive : handle[o] = NoHandle}

\* The handlers stored are those of the owners that have a handle.
LEMMA StoredAreSubscribed == IInv => Range(dispatch_container) = alive \ Bare
<1> SUFFICES ASSUME IInv PROVE Range(dispatch_container) = alive \ Bare
  OBVIOUS
<1>1. ASSUME NEW o \in Range(dispatch_container) PROVE o \in alive \ Bare
  <2>1. PICK h \in DOMAIN dispatch_container : o = dispatch_container[h]
    BY DEF Range
  <2>2. o \in alive /\ handle[o] = h /\ h \in 1 .. MaxHandle
    BY <2>1 DEF IInv, TypeOK, Paired
  <2> QED
    BY <2>2, ConstantsAssumption DEF Bare, NoHandle
<1>2. ASSUME NEW o \in alive \ Bare PROVE o \in Range(dispatch_container)
  BY DEF IInv, Paired, Bare, Range
<1> QED
  BY <1>1, <1>2

LEMMA StepRefines == IInv /\ [Next]_vars => [Subscribed!Next]_(Subscribed!vars)
<1> SUFFICES ASSUME IInv, [Next]_vars PROVE [Subscribed!Next]_(Subscribed!vars)
  OBVIOUS
<1> USE DEF Subscribed!Next, Subscribed!vars
<1>1. CASE UNCHANGED vars
  BY <1>1 DEF vars
<1>2. CASE Call
  BY <1>2, StoredAreSubscribed DEF Call, Subscribed!Call, Bare
<1>3. ASSUME NEW o \in Owner, Construct(o) PROVE Subscribed!Construct(o)
  BY <1>3, ConstantsAssumption DEF Construct, Subscribed!Construct, IInv, TypeOK, NoHandle
<1>4. ASSUME NEW o \in Owner, ConstructFails(o) PROVE Subscribed!Construct(o)
  BY <1>4 DEF ConstructFails, Subscribed!Construct, IInv, TypeOK
<1>5. ASSUME NEW o \in Owner, Destroy(o) PROVE Subscribed!Destroy(o)
  BY <1>5 DEF Destroy, MayBeDestroyed, Subscribed!Destroy
<1> QED
  BY <1>1, <1>2, <1>3, <1>4, <1>5 DEF Next

\* The router with its handles implements the set of subscriptions.
THEOREM Refinement ==
    ASSUME LIFO
    PROVE  Spec => ImplementsSubscriptions
<1>1. Init => Subscribed!Init
  BY DEF Init, Subscribed!Init
<1> QED
  BY <1>1, Inductive, StepRefines, PTL DEF Spec, ImplementsSubscriptions, Subscribed!Spec

-----------------------------------------------------------------------------
(* Calls with handlers that suspend. *)

DInv == IInv /\ DeliveryTypeOK /\ ClosureKeptByOwner /\ CallAccountsForAll

LEMMA DeliveryInitInv == DeliveryInit => DInv
<1> SUFFICES ASSUME DeliveryInit PROVE DInv
  OBVIOUS
<1>1. IInv
  BY InitInv DEF DeliveryInit
<1>2. ClosureKeptByOwner /\ CallAccountsForAll /\ DeliveryTypeOK
  BY <1>1 DEF DeliveryInit, DeliveryTypeOK, ClosureKeptByOwner, CallAccountsForAll, IInv
<1> QED
  BY <1>1, <1>2 DEF DInv

\* What owners do keeps every stored handler but the one of an owner that goes.
LEMMA OthersStayStored ==
    ASSUME LIFO, IInv, NEW o \in Owner,
           Construct(o) \/ ConstructFails(o) \/ Destroy(o),
           NEW p \in Range(dispatch_container), Destroy(o) => p # o
    PROVE  p \in Range(dispatch_container')
<1>1. PICK h \in DOMAIN dispatch_container : dispatch_container[h] = p
  BY DEF Range
<1>2. handle[p] = h /\ p \in alive
  BY <1>1 DEF IInv, Paired
<1>3. CASE Construct(o)
  <2>1. h \in DOMAIN dispatch_container' /\ dispatch_container'[h] = p
    BY <1>1, <1>3 DEF Construct, emplace
  <2> QED
    BY <2>1 DEF Range
<1>4. CASE ConstructFails(o)
  BY <1>4 DEF ConstructFails
<1>5. CASE Destroy(o)
  <2>1. o \in alive /\ p # o
    BY <1>5 DEF Destroy, MayBeDestroyed
  <2>2. handle[o] # h
    <3>1. h # NoHandle
      BY <1>1, ConstantsAssumption DEF IInv, TypeOK, NoHandle
    <3> QED
      BY <1>1, <2>1, <3>1 DEF IInv, Paired
  <2>3. h \in DOMAIN dispatch_container' /\ dispatch_container'[h] = p
    BY <1>1, <1>5, <2>2 DEF Destroy, Restrict
  <2> QED
    BY <2>3 DEF Range
<1> QED
  BY <1>3, <1>4, <1>5

LEMMA OwnersKeep ==
    ASSUME LIFO, DInv, OwnersMove
    PROVE  DInv'
<1>1. PICK o \in Owner : Construct(o) \/ ConstructFails(o) \/ Destroy(o)
  BY DEF OwnersMove
<1>2. IInv' /\ alive' \subseteq Owner
  <2>1. IInv'
    BY <1>1, ConstructInv, ConstructFailsInv, DestroyInv DEF DInv
  <2> QED
    BY <2>1 DEF IInv, TypeOK
<1>3. /\ UNCHANGED <<status, running, broke>>
      /\ orphaned' = [c \in CallId |-> orphaned[c] \cup (running[c] \ alive')]
  BY DEF OwnersMove
<1>4. ClosureKeptByOwner'
  <2> SUFFICES ASSUME NEW c \in CallId, NEW p \in running[c], p \notin orphaned'[c]
               PROVE  p \in Range(dispatch_container')
    BY <1>3 DEF ClosureKeptByOwner
  <2>1. p \notin orphaned[c] /\ p \in alive'
    BY <1>3
  <2>2. p \in Range(dispatch_container)
    BY <2>1 DEF DInv, ClosureKeptByOwner
  <2>3. Destroy(o) => p # o
    BY <2>1 DEF Destroy
  <2> QED
    BY <1>1, <2>2, <2>3, OthersStayStored DEF DInv
<1>5. DeliveryTypeOK' /\ CallAccountsForAll'
  <2>1. orphaned' \in [CallId -> SUBSET Owner]
    BY <1>3 DEF DInv, DeliveryTypeOK
  <2> QED
    BY <1>2, <1>3, <2>1 DEF DInv, DeliveryTypeOK, CallAccountsForAll, IInv
<1> QED
  BY <1>2, <1>4, <1>5 DEF DInv

LEMMA RouterStays == IInv /\ UNCHANGED vars => IInv'
BY DEF IInv, TypeOK, Paired, vars, Range

LEMMA BeginsKeeps ==
    ASSUME DInv, NEW c \in CallId, CallBegins(c)
    PROVE  DInv'
<1>1. IInv'
  BY DEF CallBegins, Call, DInv, IInv, TypeOK, Paired, Range
<1>2. PICK slow \in SUBSET delivered', bad \in BOOLEAN :
        /\ running' = [running EXCEPT ![c] = slow]
        /\ broke' = [broke EXCEPT ![c] = bad]
        /\ bad => slow # delivered'
  BY DEF CallBegins
<1>3. /\ delivered' = Range(dispatch_container) /\ UNCHANGED <<dispatch_container, orphaned>>
      /\ status' = [status EXCEPT ![c] = IF delivered' = {} THEN "done" ELSE "running"]
  BY DEF CallBegins, Call
<1>4. delivered' \subseteq Owner
  BY <1>1 DEF IInv, TypeOK
<1>5. DeliveryTypeOK'
  BY <1>1, <1>2, <1>3, <1>4 DEF DInv, DeliveryTypeOK, IInv
<1>6. ClosureKeptByOwner'
  BY <1>2, <1>3 DEF DInv, DeliveryTypeOK, ClosureKeptByOwner
<1>7. CallAccountsForAll'
  <2> SUFFICES ASSUME NEW d \in CallId, status'[d] \in {"done", "failed"}
               PROVE  running'[d] = {} /\ (status'[d] = "failed" <=> broke'[d])
    BY DEF CallAccountsForAll
  <2>1. CASE d = c
    BY <1>2, <1>3, <2>1 DEF DInv, DeliveryTypeOK
  <2>2. CASE d # c
    BY <1>2, <1>3, <2>2 DEF DInv, DeliveryTypeOK, CallAccountsForAll
  <2> QED
    BY <2>1, <2>2
<1> QED
  BY <1>1, <1>5, <1>6, <1>7 DEF DInv

LEMMA EndsKeeps ==
    ASSUME DInv, NEW c \in CallId, NEW o \in Owner, HandlerEnds(c, o)
    PROVE  DInv'
<1>1. /\ o \in running[c] /\ UNCHANGED <<vars, status>>
      /\ running' = [running EXCEPT ![c] = running[c] \ {o}]
      /\ orphaned' = [orphaned EXCEPT ![c] = orphaned[c] \ {o}]
      /\ broke' = broke \/ broke' = [broke EXCEPT ![c] = TRUE]
  BY DEF HandlerEnds
<1>2. IInv' /\ TypeOK'
  BY <1>1, RouterStays DEF DInv, IInv
<1>3. UNCHANGED dispatch_container
  BY <1>1 DEF vars
<1>4. status[c] \notin {"done", "failed"}
  BY <1>1 DEF DInv, CallAccountsForAll
<1>5. DeliveryTypeOK'
  BY <1>1, <1>2 DEF DInv, DeliveryTypeOK
<1>6. ClosureKeptByOwner'
  BY <1>1, <1>3 DEF DInv, DeliveryTypeOK, ClosureKeptByOwner
<1>7. CallAccountsForAll'
  BY <1>1, <1>4 DEF DInv, DeliveryTypeOK, CallAccountsForAll
<1> QED
  BY <1>2, <1>5, <1>6, <1>7 DEF DInv

LEMMA OverKeeps ==
    ASSUME DInv, NEW c \in CallId, CallOver(c)
    PROVE  DInv'
<1>1. UNCHANGED <<vars, running, broke, orphaned>> /\ UNCHANGED dispatch_container
  BY DEF CallOver, vars
<1>2. IInv' /\ TypeOK'
  BY <1>1, RouterStays DEF DInv, IInv
<1>3. DeliveryTypeOK' /\ ClosureKeptByOwner' /\ CallAccountsForAll'
  BY <1>1, <1>2 DEF CallOver, DInv, DeliveryTypeOK, ClosureKeptByOwner, CallAccountsForAll
<1> QED
  BY <1>2, <1>3 DEF DInv

LEMMA DeliveryNextInv == LIFO /\ DInv /\ [DeliveryNext]_<<vars, delivery>> => DInv'
<1> SUFFICES ASSUME LIFO, DInv, [DeliveryNext]_<<vars, delivery>> PROVE DInv'
  OBVIOUS
<1>1. CASE UNCHANGED <<vars, delivery>>
  <2>1. IInv' /\ TypeOK'
    BY <1>1, RouterStays DEF DInv, IInv
  <2> QED
    BY <1>1, <2>1
       DEF DInv, DeliveryTypeOK, ClosureKeptByOwner, CallAccountsForAll, vars, delivery
<1> QED
  BY <1>1, OwnersKeep, BeginsKeeps, EndsKeeps, OverKeeps DEF DeliveryNext

LEMMA DeliveryInductive ==
    ASSUME LIFO
    PROVE  DeliverySpec => []DInv
<1>1. DInv /\ [DeliveryNext]_<<vars, delivery>> => DInv'
  BY DeliveryNextInv
<1> QED
  BY DeliveryInitInv, <1>1, PTL DEF DeliverySpec

\* The types.
THEOREM DeliveryTypes ==
    ASSUME LIFO
    PROVE  DeliverySpec => []DeliveryTypeOK
<1>1. DInv => DeliveryTypeOK
  BY DEF DInv
<1> QED
  BY <1>1, DeliveryInductive, PTL

\* However many owners come and go under a call, a suspended handler whose closure
\* is no longer in the map has lost it to the destruction of its own owner.
THEOREM ClosuresKept ==
    ASSUME LIFO
    PROVE  DeliverySpec => []ClosureKeptByOwner
<1>1. DInv => ClosureKeptByOwner
  BY DEF DInv
<1> QED
  BY <1>1, DeliveryInductive, PTL

\* A call's future resolves after all its handlers, and tells of their failures.
THEOREM CallsAccount ==
    ASSUME LIFO
    PROVE  DeliverySpec => []CallAccountsForAll
<1>1. DInv => CallAccountsForAll
  BY DEF DInv
<1> QED
  BY <1>1, DeliveryInductive, PTL

-----------------------------------------------------------------------------

LEMMA DeliveryStepIsRouters == [DeliveryNext]_<<vars, delivery>> => [Next]_vars
<1> SUFFICES ASSUME [DeliveryNext]_<<vars, delivery>> PROVE [Next]_vars
  OBVIOUS
<1>1. CASE OwnersMove
  BY <1>1 DEF OwnersMove, Next
<1>2. ASSUME NEW c \in CallId, CallBegins(c) PROVE Next
  BY <1>2 DEF CallBegins, Next
<1>3. ASSUME NEW c \in CallId, CallOver(c) \/ \E o \in Owner : HandlerEnds(c, o)
      PROVE  UNCHANGED vars
  BY <1>3 DEF CallOver, HandlerEnds
<1> QED
  BY <1>1, <1>2, <1>3 DEF DeliveryNext

\* With handlers that suspend the router is still the router, so that what is
\* proved of it holds while calls are under way.
THEOREM DeliveryIsRouter == DeliverySpec => Spec
<1>1. DeliveryInit => Init
  BY DEF DeliveryInit
<1> QED
  BY <1>1, DeliveryStepIsRouters, PTL DEF DeliverySpec, Spec

\* The router under calls implements the set of subscriptions.
THEOREM DeliveryRefines ==
    ASSUME LIFO
    PROVE  DeliverySpec => ImplementsSubscriptions
BY DeliveryIsRouter, Refinement, PTL
=============================================================================
