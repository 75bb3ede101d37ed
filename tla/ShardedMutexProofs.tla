------------------------- MODULE ShardedMutexProofs -------------------------
(* The sharded mutex for any number of shards and tasks. *)
EXTENDS ShardedMutex, TLAPS

\* Whose the thread and the mutex of a shard are, for each value of pc.
Owned ==
    \A t \in Task :
        /\ pc[t] \in {"locking", "holding"} => thread[shard[t]] = t
        /\ pc[t] \in {"holding", "suspended"} <=> owner[shard[t]] = t
        /\ pc[t] = "suspended" => shard[t] \notin Calm

\* A mutex belongs to a task of its shard.
OwnerAtHome == \A s \in Shard : owner[s] # None => shard[owner[s]] = s

IInv == TypeOK /\ Owned /\ OwnerAtHome

LEMMA InitInv == Init => IInv
BY ConstantsAssumption DEF Init, IInv, TypeOK, Owned, OwnerAtHome

LEMMA NextInv == IInv /\ [Next]_vars => IInv'
<1> SUFFICES ASSUME IInv, [Next]_vars PROVE IInv'
  OBVIOUS
<1> USE ConstantsAssumption DEF IInv, TypeOK, Owned, OwnerAtHome
<1>1. CASE UNCHANGED vars
  BY <1>1 DEF vars
<1>2. ASSUME NEW t \in Task, Start(t) PROVE IInv'
  BY <1>2 DEF Start, Move, TakeThread
<1>3. ASSUME NEW t \in Task, Lock(t) PROVE IInv'
  BY <1>3 DEF Lock, Move
<1>4. ASSUME NEW t \in Task, Suspend(t) PROVE IInv'
  BY <1>4 DEF Suspend, Move, LeaveThread
<1>5. ASSUME NEW t \in Task, Resume(t) PROVE IInv'
  BY <1>5 DEF Resume, Move, TakeThread
<1>6. ASSUME NEW t \in Task, Unlock(t) PROVE IInv'
  BY <1>6 DEF Unlock, Move, LeaveThread
<1> QED
  BY <1>1, <1>2, <1>3, <1>4, <1>5, <1>6 DEF Next, Step

LEMMA Inductive == Spec => []IInv
BY InitInv, NextInv, PTL DEF Spec

\* The types, and that a thread is at a task of its shard.
THEOREM TypeCorrect == Spec => []TypeOK
<1>1. IInv => TypeOK
  BY DEF IInv
<1> QED
  BY <1>1, Inductive, PTL

\* No two tasks of a shard are in the scope of its lock.
THEOREM MutualExclusion == Spec => []OneInScope
<1>1. IInv => OneInScope
  BY DEF IInv, TypeOK, Owned, OneInScope
<1> QED
  BY <1>1, Inductive, PTL

\* A thread blocked in lock waits for a suspended task of its own.
THEOREM BlockedByItself == Spec => []BlockedBySuspended
<1>1. IInv => BlockedBySuspended
  <2> SUFFICES ASSUME IInv, NEW t \in Task, pc[t] = "locking", owner[shard[t]] # None
               PROVE  /\ pc[owner[shard[t]]] = "suspended"
                      /\ shard[owner[shard[t]]] = shard[t]
                      /\ shard[t] \notin Calm
    BY DEF BlockedBySuspended
  <2> DEFINE o == owner[shard[t]]
  <2>1. o \in Task /\ shard[o] = shard[t] /\ thread[shard[t]] = t
    BY DEF IInv, TypeOK, Owned, OwnerAtHome
  <2>2. pc[o] \in {"holding", "suspended"}
    BY <2>1 DEF IInv, Owned
  <2>3. pc[o] # "holding"
    BY <2>1, <2>2 DEF IInv, Owned
  <2> QED
    BY <2>1, <2>2, <2>3 DEF IInv, Owned
<1> QED
  BY <1>1, Inductive, PTL
=============================================================================
