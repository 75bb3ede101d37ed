----------------------------- MODULE DBClients ------------------------------
(***************************************************************************)
(* DBClients::Init (INCLUDE/DB/DBClients.h): one mongocxx::client for each *)
(* shard, and a row for each shard in the collection CONN_INIT.CONN_LOG.   *)
(*                                                                         *)
(* Init runs on shard 0 and sends each of its two last stages to all the   *)
(* shards with invoke_on_all, which waits for every shard and then fails   *)
(* if one of them did.  Within a stage the shards run in parallel: each    *)
(* makes blocking driver calls on its own thread, and they meet at the     *)
(* server and in the function-local `static bool cleared', which has no    *)
(* lock.  The process may end at any point and be started again; the       *)
(* server keeps CONN_LOG.  A driver call is executed before the process    *)
(* that made it ends, or never.                                            *)
(***************************************************************************)
EXTENDS Naturals

CONSTANTS
    Shard,
    Faults,     \* whether allocations and driver calls may raise on their own
    MaxRuns     \* bound: how often the process is started

VARIABLES
    run,                \* the process now running, or the last one
    phase,              \* where Init is
    step,               \* where each shard is in the stage under way
    clients,            \* each shard's mongocxx::client
    cleared,            \* the static variable of the third stage
    failed_to_init, initialized,
    has, rows,          \* CONN_LOG on the server: whether it exists, its rows
    existed             \* history: it existed when the process was started

process == <<clients, cleared, failed_to_init, initialized>>
log     == <<has, rows>>
vars    == <<run, phase, step, process, log, existed>>

ASSUME ConstantsAssumption == MaxRuns \in Nat /\ Faults \in BOOLEAN /\ Shard # {}

Row == [shard : Shard, run : Nat]

Everywhere(x) == [s \in Shard |-> x]

Init ==
    /\ run = 0
    /\ phase = "down"
    /\ step = Everywhere("idle")
    /\ clients = Everywhere("none")
    /\ cleared = FALSE
    /\ failed_to_init = FALSE /\ initialized = FALSE
    /\ has = FALSE /\ rows = {}
    /\ existed = FALSE

-----------------------------------------------------------------------------
(* The life of the process. *)

\* A new process: main_fut calls Init.
Boot ==
    /\ phase = "down"
    /\ run < MaxRuns
    /\ run' = run + 1
    /\ phase' = "start"
    /\ clients' = Everywhere("none")
    /\ cleared' = FALSE
    /\ failed_to_init' = FALSE /\ initialized' = FALSE
    /\ existed' = has
    /\ UNCHANGED <<step, log>>

\* It exits or is killed, during Init or after it.
End ==
    /\ phase # "down"
    /\ phase' = "down"
    /\ step' = Everywhere("idle")
    /\ UNCHANGED <<run, process, log, existed>>

Finished == phase = "down" /\ run = MaxRuns /\ UNCHANGED vars

-----------------------------------------------------------------------------
(* Stage 1: clients.start(). *)

Returns(failed) ==
    /\ phase' = "returned"
    /\ step' = Everywhere("idle")
    /\ failed_to_init' = failed
    /\ initialized' = TRUE

StartClients ==
    /\ phase = "start"
    /\ clients' = Everywhere("empty")
    /\ phase' = "assign"
    /\ step' = Everywhere("call")
    /\ UNCHANGED <<run, cleared, failed_to_init, initialized, log, existed>>

\* The failure is logged and swallowed: Init returns.
StartFails ==
    /\ Faults
    /\ phase = "start"
    /\ Returns(TRUE)
    /\ UNCHANGED <<run, clients, cleared, log, existed>>

(* Stage 2: a client of the configured URI is assigned on every shard. *)

At(s, p, st) == phase = p /\ step[s] = st
Goto(s, st)  == step' = [step EXCEPT ![s] = st]

Assign(s) ==
    /\ At(s, "assign", "call")
    /\ Goto(s, "done")
    /\ clients' = [clients EXCEPT ![s] = "connected"]
    /\ UNCHANGED <<run, phase, cleared, failed_to_init, initialized, log, existed>>

\* The rest of the shard's function is not executed.
Raise(s) == Faults /\ Goto(s, "raised")

AssignRaises(s) ==
    /\ At(s, "assign", "call")
    /\ Raise(s)
    /\ UNCHANGED <<run, phase, process, log, existed>>

AllOver == \A s \in Shard : step[s] \in {"done", "raised"}
SomeRaised == \E s \in Shard : step[s] = "raised"

\* Mutant: the failure is swallowed and no flag is set.
JoinAssignUnflagged ==
    /\ phase = "assign"
    /\ AllOver
    /\ IF SomeRaised
       THEN Returns(FALSE)
       ELSE /\ phase' = "log"
            /\ step' = Everywhere("call")
            /\ UNCHANGED <<failed_to_init, initialized>>
    /\ UNCHANGED <<run, clients, cleared, log, existed>>

\* The second then_wrapped: the failure of a shard is swallowed here too.
JoinAssign ==
    /\ phase = "assign"
    /\ AllOver
    /\ IF SomeRaised
       THEN Returns(TRUE)
       ELSE /\ phase' = "log"
            /\ step' = Everywhere("call")
            /\ UNCHANGED <<failed_to_init, initialized>>
    /\ UNCHANGED <<run, clients, cleared, log, existed>>

-----------------------------------------------------------------------------
(* Stage 3: the row in CONN_LOG.  Each disjunct is one driver call, or one *)
(* access to `cleared'.                                                    *)

\* Mutant: the collection is created without a look.
HasCollectionSkipped(s) ==
    /\ At(s, "log", "call")
    /\ Goto(s, "absent") \/ Raise(s)
    /\ UNCHANGED <<run, phase, process, log, existed>>

HasCollection(s) ==
    /\ At(s, "log", "call")
    /\ Goto(s, IF has THEN "present" ELSE "absent") \/ Raise(s)
    /\ UNCHANGED <<run, phase, process, log, existed>>

\* Another shard may have created it since: the server refuses to do it again,
\* or accepts because the options are the same.
CreateCollection(s) ==
    /\ At(s, "log", "absent")
    /\ \/ has' = TRUE /\ Goto(s, "ready")
       \/ has /\ Goto(s, "raised") /\ UNCHANGED has
       \/ Raise(s) /\ has' \in {has, TRUE}
    /\ UNCHANGED <<run, phase, process, rows, existed>>

\* Mutant: one shard clears the log and the others wait until it has.
ReadClearedElected(s) ==
    /\ At(s, "log", "present")
    /\ cleared \/ s = CHOOSE e \in Shard : TRUE
    /\ Goto(s, IF cleared THEN "ready" ELSE "clearing")
    /\ UNCHANGED <<run, phase, process, log, existed>>

\* No lock and no fence: the read may miss a write made on another shard.
ReadCleared(s) ==
    /\ At(s, "log", "present")
    /\ \E seen \in {cleared, FALSE} : Goto(s, IF seen THEN "ready" ELSE "clearing")
    /\ UNCHANGED <<run, phase, process, log, existed>>

\* Mutant: the function returns when the delete fails, and goes on to insert.
DeleteManyIgnored(s) ==
    /\ At(s, "log", "clearing")
    /\ \/ rows' = {} /\ Goto(s, "deleted")
       \/ Faults /\ rows' = rows /\ Goto(s, "deleted")
    /\ UNCHANGED <<run, phase, process, has, existed>>

DeleteMany(s) ==
    /\ At(s, "log", "clearing")
    /\ \/ rows' = {} /\ Goto(s, "deleted")
       \/ rows' \in {rows, {}} /\ Raise(s)
    /\ UNCHANGED <<run, phase, process, has, existed>>

SetCleared(s) ==
    /\ At(s, "log", "deleted")
    /\ Goto(s, "ready")
    /\ cleared' = TRUE
    /\ UNCHANGED <<run, phase, clients, failed_to_init, initialized, log, existed>>

\* Mutant: an insert that failed is taken for done.
InsertOneIgnored(s) ==
    /\ At(s, "log", "ready")
    /\ Goto(s, "done")
    /\ \/ rows' = rows \cup {[shard |-> s, run |-> run]} /\ has' = TRUE
       \/ Faults /\ UNCHANGED log
    /\ UNCHANGED <<run, phase, process, existed>>

InsertOne(s) ==
    LET more == rows \cup {[shard |-> s, run |-> run]}
    IN  /\ At(s, "log", "ready")
        /\ \/ rows' = more /\ has' = TRUE /\ Goto(s, "done")
           \/ rows' = more /\ has' = TRUE /\ Raise(s)
           \/ Raise(s) /\ UNCHANGED log
        /\ UNCHANGED <<run, phase, process, existed>>

\* Mutant: the first failure ends the stage, the other shards still at work.
JoinLogEarly ==
    /\ phase = "log"
    /\ AllOver \/ SomeRaised
    /\ IF SomeRaised
       THEN phase' = "threw" /\ UNCHANGED <<step, failed_to_init, initialized>>
       ELSE Returns(failed_to_init)
    /\ UNCHANGED <<run, clients, cleared, log, existed>>

\* Nothing catches the failure of this stage: Init throws, `initialized' and
\* `failed_to_init' both stay FALSE.
JoinLog ==
    /\ phase = "log"
    /\ AllOver
    /\ IF SomeRaised
       THEN /\ phase' = "threw"
            /\ step' = Everywhere("idle")
            /\ UNCHANGED <<failed_to_init, initialized>>
       ELSE Returns(failed_to_init)
    /\ UNCHANGED <<run, clients, cleared, log, existed>>

-----------------------------------------------------------------------------

ShardStep(s) ==
    \/ Assign(s)           \/ AssignRaises(s) \/ HasCollection(s)
    \/ CreateCollection(s) \/ ReadCleared(s)  \/ DeleteMany(s)
    \/ SetCleared(s)       \/ InsertOne(s)

Control == StartClients \/ StartFails \/ JoinAssign \/ JoinLog

Next ==
    \/ Boot \/ End \/ Finished
    \/ Control
    \/ \E s \in Shard : ShardStep(s)

Spec == Init /\ [][Next]_vars

\* Every reactor runs, and a driver call comes back: it has timeouts.
Fairness == WF_vars(Control) /\ \A s \in Shard : WF_vars(ShardStep(s))

FairSpec == Spec /\ Fairness

-----------------------------------------------------------------------------
(***************************************************************************)
(* Properties                                                              *)
(***************************************************************************)

\* The variables have their types, and no shard is at work outside a stage.
TypeOK ==
    /\ run \in (IF phase = "down" THEN 0 ELSE 1) .. MaxRuns
    /\ phase \in {"down", "start", "assign", "log", "returned", "threw"}
    /\ step \in [Shard -> {"idle", "call", "present", "absent", "clearing", "deleted",
                           "ready", "done", "raised"}]
    /\ clients \in [Shard -> {"none", "empty", "connected"}]
    /\ cleared \in BOOLEAN /\ failed_to_init \in BOOLEAN /\ initialized \in BOOLEAN
    /\ has \in BOOLEAN /\ existed \in BOOLEAN
    /\ rows \subseteq Row
    /\ \A r \in rows : r.run \in 1 .. run
    /\ phase \notin {"assign", "log"} => step = Everywhere("idle")

\* CONN_LOG never mixes the rows of two runs: however the shards race for
\* `cleared', and wherever a run was cut off, no shard inserts before the rows
\* of earlier runs are gone.
OneRunInLog == \A a, b \in rows : a.run = b.run

\* When Init has succeeded the log holds a row of this run.  One is all that is
\* promised: a late delete_many removes the rows of shards that were faster.
SomeRowLeft ==
    phase = "returned" /\ ~failed_to_init => \E r \in rows : r.run = run

\* What the handlers rely on once Init has returned: every client connected,
\* unless failed_to_init says otherwise; then the container was never started,
\* or some clients are still default-constructed.  The flags tell the three ends
\* of Init apart: when it throws neither is set, and the clients are connected.
ServableClients ==
    /\ phase = "returned" =>
          /\ initialized
          /\ ~failed_to_init => clients = Everywhere("connected")
          /\ clients = Everywhere("none") \/ \A s \in Shard : clients[s] # "none"
    /\ phase = "threw" =>
          ~initialized /\ ~failed_to_init /\ clients = Everywhere("connected")

\* The shards' race to create CONN_LOG breaks one start at most: without faults
\* Init throws only on a server that had no CONN_LOG, and the shards that did not
\* raise have by then put a row of this run in it, so that no later start throws.
QuietRestart == ~Faults /\ phase = "threw" => ~existed /\ \E r \in rows : r.run = run

\* Init comes to an end, by returning or by throwing, unless the process ends.
InitTerminates ==
    phase \in {"start", "assign", "log"} ~> phase \in {"returned", "threw", "down"}
=============================================================================
