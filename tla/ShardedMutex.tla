---------------------------- MODULE ShardedMutex -----------------------------
(***************************************************************************)
(* sharded_mutex and sharded_lock (main.cc): a std::mutex for each shard,  *)
(* locked for the length of a scope.  handle would take it first if the    *)
(* declaration that is commented out were not.                             *)
(*                                                                         *)
(* The tasks of a shard take turns on its one thread, at suspensions only. *)
(* std::mutex::lock blocks that thread, not the task.  A thread that locks *)
(* a mutex it owns already is undefined behaviour; the mutex of the build  *)
(* is a pthread mutex of the default kind, which waits for ever.           *)
(***************************************************************************)
CONSTANTS
    Shard, Task,
    None,
    Calm        \* the shards whose tasks do not suspend while they hold a lock

VARIABLES
    shard,      \* the shard of each task
    pc,         \* "ready", "locking", "holding", "suspended" or "done"
    thread,     \* the task each shard's thread is at, or None
    owner       \* the task that has locked each shard's mutex, or None

vars == <<shard, pc, thread, owner>>

ASSUME ConstantsAssumption == Calm \subseteq Shard /\ None \notin Task

Init ==
    /\ shard \in [Task -> Shard]
    /\ pc = [t \in Task |-> "ready"]
    /\ thread = [s \in Shard |-> None]
    /\ owner = [s \in Shard |-> None]

TakeThread(t) ==
    /\ thread[shard[t]] = None
    /\ thread' = [thread EXCEPT ![shard[t]] = t]

LeaveThread(t) == thread' = [thread EXCEPT ![shard[t]] = None]

Move(t, from, to) == pc[t] = from /\ pc' = [pc EXCEPT ![t] = to] /\ UNCHANGED shard

Start(t) == Move(t, "ready", "locking") /\ TakeThread(t) /\ UNCHANGED owner

\* Mutant: a mutex that lets its owner in again.
LockRecursive(t) ==
    /\ Move(t, "locking", "holding")
    /\ owner' = [owner EXCEPT ![shard[t]] = t]
    /\ UNCHANGED thread

\* The constructor of sharded_lock.
Lock(t) ==
    /\ owner[shard[t]] = None
    /\ Move(t, "locking", "holding")
    /\ owner' = [owner EXCEPT ![shard[t]] = t]
    /\ UNCHANGED thread

\* Mutant: the body suspends, wherever it runs.
SuspendAnywhere(t) == Move(t, "holding", "suspended") /\ LeaveThread(t) /\ UNCHANGED owner

\* A co_await in the scope of the lock.
Suspend(t) ==
    /\ shard[t] \notin Calm
    /\ Move(t, "holding", "suspended")
    /\ LeaveThread(t)
    /\ UNCHANGED owner

Resume(t) == Move(t, "suspended", "holding") /\ TakeThread(t) /\ UNCHANGED owner

\* Mutant: the lock outlives its scope.
Forget(t) == Move(t, "holding", "done") /\ LeaveThread(t) /\ UNCHANGED owner

\* Mutant: the task keeps the thread when it has ended.
UnlockAndStay(t) ==
    /\ Move(t, "holding", "done")
    /\ owner' = [owner EXCEPT ![shard[t]] = None]
    /\ UNCHANGED thread

\* The destructor of sharded_lock.
Unlock(t) ==
    /\ Move(t, "holding", "done")
    /\ owner' = [owner EXCEPT ![shard[t]] = None]
    /\ LeaveThread(t)

Step(t) == Start(t) \/ Lock(t) \/ Suspend(t) \/ Resume(t) \/ Unlock(t)

Next == \E t \in Task : Step(t)

\* A reactor runs every task that is ready, and what is awaited comes.
Spec == Init /\ [][Next]_vars /\ \A t \in Task : WF_vars(Step(t))

-----------------------------------------------------------------------------
(***************************************************************************)
(* Properties                                                              *)
(***************************************************************************)

\* The variables have their types, and a thread is at a task of its shard that
\* needs it.
TypeOK ==
    /\ shard \in [Task -> Shard]
    /\ pc \in [Task -> {"ready", "locking", "holding", "suspended", "done"}]
    /\ owner \in [Shard -> Task \cup {None}]
    /\ DOMAIN thread = Shard
    /\ \A s \in Shard :
          thread[s] # None => shard[thread[s]] = s /\ pc[thread[s]] \in {"locking", "holding"}

\* What the lock is for: no two tasks of a shard are in its scope, although the
\* thread turns to others while one of them is suspended there.
OneInScope ==
    \A t, u \in Task :
        /\ pc[t] \in {"holding", "suspended"}
        /\ pc[u] \in {"holding", "suspended"}
        => t = u \/ shard[t] # shard[u]

\* A thread that is blocked in lock waits for itself: what it waits for can only
\* be unlocked by a task that is suspended and that needs this thread.
BlockedBySuspended ==
    \A t \in Task :
        pc[t] = "locking" /\ owner[shard[t]] # None =>
            /\ pc[owner[shard[t]]] = "suspended"
            /\ shard[owner[shard[t]]] = shard[t]
            /\ shard[t] \notin Calm

\* Where no task suspends in the scope of the lock every task ends, and a shard
\* whose thread is blocked for ever takes none of the others with it.
CalmShardsFinish == \A t \in Task : (shard[t] \in Calm) ~> (pc[t] = "done")
=============================================================================
