-------------------------- MODULE DBClientsProofs ---------------------------
(***************************************************************************)
(* DBClients proved for any number of shards, any number of runs of the    *)
(* process, with and without faults.                                       *)
(***************************************************************************)
EXTENDS DBClients, TLAPS

\* No row of an earlier run is left.
Fresh == \A r \in rows : r.run = run

\* A shard that may insert, and a shard that will not clear because it created
\* the collection or saw `cleared' set, has a fresh log; and so it stays,
\* because in this run only such shards insert.
LogInv ==
    /\ cleared => Fresh
    /\ \A s \in Shard : step[s] \in {"absent", "deleted", "ready"} => Fresh
    /\ ~has => rows = {}

\* Each shard that is done has left a row, unless another shard has cleared the
\* log since; that shard is then on its way to its own insert, or has raised.
RowInv ==
    phase = "log" /\ (\E s \in Shard : step[s] = "done") =>
        \/ \E r \in rows : r.run = run
        \/ \E s \in Shard : step[s] \in {"deleted", "ready", "raised"}

ClientInv ==
    /\ phase = "start" => clients = Everywhere("none")
    /\ phase = "assign" =>
          \A s \in Shard : /\ step[s] \in {"call", "done", "raised"}
                           /\ clients[s] # "none"
                           /\ step[s] = "done" => clients[s] = "connected"
    /\ phase = "log" => \A s \in Shard : clients[s] = "connected"
    /\ phase \in {"start", "assign", "log"} => ~failed_to_init /\ ~initialized

\* Without faults only the race to create the collection makes a shard raise, and
\* in a run that found none, whoever created it has left a row or is about to.
QuietInv ==
    /\ ~Faults /\ existed =>
          /\ has
          /\ \A s \in Shard : step[s] \notin {"absent", "raised"}
    /\ ~Faults /\ ~existed /\ phase \in {"start", "assign"} =>
          /\ ~has
          /\ \A s \in Shard : step[s] # "raised"
    /\ ~Faults /\ ~existed /\ phase = "log" =>
          /\ \A s \in Shard : step[s] = "raised" => has
          /\ has => \/ \E r \in rows : r.run = run
                    \/ \E s \in Shard : step[s] \in {"deleted", "ready"}

Safe == OneRunInLog /\ SomeRowLeft /\ ServableClients /\ QuietRestart

IInv == TypeOK /\ LogInv /\ RowInv /\ ClientInv /\ QuietInv /\ Safe

LEMMA InitInv == Init => IInv
<1> SUFFICES ASSUME Init PROVE IInv
  OBVIOUS
<1> USE DEF Init
<1>1. TypeOK
  <2>1. run \in (IF phase = "down" THEN 0 ELSE 1) .. MaxRuns
    BY ConstantsAssumption
  <2>2. rows \subseteq Row /\ \A r \in rows : r.run \in 1 .. run
    OBVIOUS
  <2> QED
    BY <2>1, <2>2 DEF TypeOK, Everywhere
<1>2. LogInv /\ RowInv /\ ClientInv /\ QuietInv
  BY DEF LogInv, RowInv, ClientInv, QuietInv, Everywhere, Fresh
<1>3. Safe
  BY DEF Safe, OneRunInLog, SomeRowLeft, ServableClients, QuietRestart
<1> QED
  BY <1>1, <1>2, <1>3 DEF IInv

LEMMA TypeStep == TypeOK /\ [Next]_vars => TypeOK'
<1> SUFFICES ASSUME TypeOK, [Next]_vars PROVE TypeOK'
  OBVIOUS
<1> USE ConstantsAssumption DEF TypeOK, Everywhere, process, log
<1>1. CASE UNCHANGED vars
  BY <1>1 DEF vars
<1>2. CASE Boot
  <2>1. run' = run + 1 /\ run' \in 1 .. MaxRuns /\ phase' = "start"
    BY <1>2 DEF Boot
  <2>2. \A r \in rows' : r.run \in 1 .. run'
    BY <1>2, <2>1 DEF Boot
  <2> QED
    BY <1>2, <2>1, <2>2 DEF Boot
<1>3. CASE End
  BY <1>3 DEF End
<1>4. CASE Control
  BY <1>4 DEF Control, StartClients, StartFails, JoinAssign, JoinLog, Returns
<1>5. ASSUME NEW s \in Shard, Assign(s) \/ AssignRaises(s) PROVE TypeOK'
  BY <1>5 DEF Assign, AssignRaises, At, Goto, Raise
<1>6. ASSUME NEW s \in Shard, HasCollection(s) PROVE TypeOK'
  BY <1>6 DEF HasCollection, At, Goto, Raise
<1>7. ASSUME NEW s \in Shard, CreateCollection(s) PROVE TypeOK'
  BY <1>7 DEF CreateCollection, At, Goto, Raise
<1>8. ASSUME NEW s \in Shard, ReadCleared(s) PROVE TypeOK'
  BY <1>8 DEF ReadCleared, At, Goto, Raise
<1>9. ASSUME NEW s \in Shard, DeleteMany(s) PROVE TypeOK'
  BY <1>9 DEF DeleteMany, At, Goto, Raise
<1>10. ASSUME NEW s \in Shard, SetCleared(s) PROVE TypeOK'
  BY <1>10 DEF SetCleared, At, Goto, Raise
<1>11. ASSUME NEW s \in Shard, InsertOne(s) PROVE TypeOK'
  <2>1. run \in 1 .. MaxRuns /\ run \in Nat /\ run' = run /\ phase = "log" /\ phase' = phase
    BY <1>11 DEF InsertOne, At
  <2>2. [shard |-> s, run |-> run] \in Row /\ [shard |-> s, run |-> run].run \in 1 .. run
    BY <2>1 DEF Row
  <2>3. rows' \subseteq Row /\ \A r \in rows' : r.run \in 1 .. run
    BY <1>11, <2>2 DEF InsertOne
  <2> QED
    BY <1>11, <2>1, <2>3 DEF InsertOne, Goto, Raise
<1> QED
  BY <1>1, <1>2, <1>3, <1>4, <1>5, <1>6, <1>7, <1>8, <1>9, <1>10, <1>11
     DEF Next, ShardStep, Finished

\* The life of the process and the stages of Init on shard 0.
LEMMA ControlStep ==
    ASSUME IInv, TypeOK', Boot \/ End \/ Control
    PROVE  IInv'
<1> USE DEF IInv, process, log
<1>1. CASE Boot
  <2>1. LogInv' /\ RowInv' /\ ClientInv' /\ QuietInv'
    BY <1>1 DEF Boot, TypeOK, LogInv, RowInv, ClientInv, QuietInv, Everywhere, Fresh
  <2>2. Safe'
    BY <1>1 DEF Boot, Safe, OneRunInLog, SomeRowLeft, ServableClients, QuietRestart
  <2> QED
    BY <2>1, <2>2
<1>2. CASE End
  <2>1. LogInv' /\ RowInv' /\ ClientInv' /\ QuietInv'
    BY <1>2 DEF End, LogInv, RowInv, ClientInv, QuietInv, Everywhere, Fresh
  <2>2. Safe'
    BY <1>2 DEF End, Safe, OneRunInLog, SomeRowLeft, ServableClients, QuietRestart
  <2> QED
    BY <2>1, <2>2
<1>3. CASE StartClients
  <2>1. LogInv' /\ RowInv' /\ ClientInv' /\ QuietInv'
    BY <1>3 DEF StartClients, LogInv, RowInv, ClientInv, QuietInv, Everywhere, Fresh
  <2>2. Safe'
    BY <1>3 DEF StartClients, Safe, OneRunInLog, SomeRowLeft, ServableClients, QuietRestart
  <2> QED
    BY <2>1, <2>2
<1>4. CASE StartFails
  <2>1. LogInv' /\ RowInv' /\ ClientInv' /\ QuietInv'
    BY <1>4 DEF StartFails, Returns, LogInv, RowInv, ClientInv, QuietInv, Everywhere, Fresh
  <2>2. Safe'
    BY <1>4 DEF StartFails, Returns, ClientInv,
                Safe, OneRunInLog, SomeRowLeft, ServableClients, QuietRestart
  <2> QED
    BY <2>1, <2>2
<1>5. CASE JoinAssign
  <2>1. LogInv' /\ RowInv' /\ ClientInv' /\ QuietInv'
    BY <1>5 DEF JoinAssign, AllOver, SomeRaised, Returns, LogInv, RowInv, ClientInv, QuietInv,
                Everywhere, Fresh
  <2>2. Safe'
    BY <1>5 DEF JoinAssign, Returns, ClientInv,
                Safe, OneRunInLog, SomeRowLeft, ServableClients, QuietRestart
  <2> QED
    BY <2>1, <2>2
<1>6. CASE JoinLog
  <2>1. LogInv' /\ RowInv' /\ ClientInv' /\ QuietInv'
    BY <1>6 DEF JoinLog, Returns, LogInv, RowInv, ClientInv, QuietInv, Everywhere, Fresh
  <2>2. OneRunInLog'
    BY <1>6 DEF JoinLog, Safe, OneRunInLog
  <2>3. ~SomeRaised => \E r \in rows : r.run = run
    BY <1>6, ConstantsAssumption DEF JoinLog, AllOver, SomeRaised, RowInv
  <2>4. SomeRowLeft'
    BY <1>6, <2>3 DEF JoinLog, SomeRowLeft
  <2>5. clients = Everywhere("connected")
    BY <1>6 DEF JoinLog, ClientInv, TypeOK, Everywhere
  <2>6. ServableClients'
    BY <1>6, <2>5 DEF JoinLog, Returns, ClientInv, ServableClients, Everywhere
  <2>7. QuietRestart'
    BY <1>6 DEF JoinLog, AllOver, Returns, SomeRaised, QuietInv, QuietRestart
  <2> QED
    BY <2>1, <2>2, <2>4, <2>6, <2>7 DEF Safe
<1> QED
  BY <1>1, <1>2, <1>3, <1>4, <1>5, <1>6 DEF Control

\* What the steps of the log stage leave alone.
LEMMA LogStageFrame ==
    ASSUME IInv, phase = "log", UNCHANGED <<run, phase, clients, failed_to_init, initialized, existed>>
    PROVE  ClientInv' /\ SomeRowLeft' /\ ServableClients' /\ QuietRestart'
BY DEF IInv, ClientInv, SomeRowLeft, ServableClients, QuietRestart

\* The client of a shard is connected, or raises.
LEMMA AssignStep ==
    ASSUME IInv, TypeOK', NEW s \in Shard, Assign(s) \/ AssignRaises(s)
    PROVE  IInv'
<1> USE DEF IInv, Assign, AssignRaises, At, Goto, Raise, process, log
<1>1. LogInv' /\ RowInv' /\ QuietInv'
  BY DEF LogInv, RowInv, QuietInv, Fresh, TypeOK
<1>2. ClientInv'
  BY DEF ClientInv, TypeOK
<1>3. Safe'
  BY DEF Safe, OneRunInLog, SomeRowLeft, ServableClients, QuietRestart
<1> QED
  BY <1>1, <1>2, <1>3

\* The look-ups: nothing changes but the shard's own place.
LEMMA LookStep ==
    ASSUME IInv, TypeOK', NEW s \in Shard, HasCollection(s) \/ ReadCleared(s)
    PROVE  IInv'
<1> USE DEF IInv, HasCollection, ReadCleared, At, Goto, Raise, process, log
<1>1. LogInv'
  BY DEF LogInv, Fresh, TypeOK
<1>2. RowInv'
  BY DEF RowInv, TypeOK
<1>3. QuietInv'
  BY DEF QuietInv, TypeOK
<1>4. OneRunInLog'
  BY DEF Safe, OneRunInLog
<1> QED
  BY <1>1, <1>2, <1>3, <1>4, LogStageFrame DEF Safe

LEMMA CreateStep ==
    ASSUME IInv, TypeOK', NEW s \in Shard, CreateCollection(s)
    PROVE  IInv'
<1> USE DEF IInv, CreateCollection, At, Goto, Raise, process
<1>1. LogInv'
  BY DEF LogInv, Fresh, TypeOK
<1>2. RowInv'
  BY DEF RowInv, TypeOK
<1>3. QuietInv'
  BY DEF QuietInv, TypeOK
<1>4. OneRunInLog'
  BY DEF Safe, OneRunInLog
<1> QED
  BY <1>1, <1>2, <1>3, <1>4, LogStageFrame DEF Safe

\* The clearing of the log: afterwards it is fresh, if only for being empty.
LEMMA ClearStep ==
    ASSUME IInv, TypeOK', NEW s \in Shard, DeleteMany(s) \/ SetCleared(s)
    PROVE  IInv'
<1> USE DEF IInv, DeleteMany, SetCleared, At, Goto, Raise, process, log
<1>1. LogInv'
  BY DEF LogInv, Fresh, TypeOK
<1>2. RowInv'
  BY DEF RowInv, TypeOK
<1>3. QuietInv'
  BY DEF QuietInv, TypeOK
<1>4. OneRunInLog'
  BY DEF Safe, OneRunInLog
<1> QED
  BY <1>1, <1>2, <1>3, <1>4, LogStageFrame DEF Safe

\* A shard that inserts does it into a fresh log.
LEMMA InsertStep ==
    ASSUME IInv, TypeOK', NEW s \in Shard, InsertOne(s)
    PROVE  IInv'
<1> DEFINE row == [shard |-> s, run |-> run]
<1>1. Fresh
  BY DEF IInv, LogInv, InsertOne, At
<1>2. row.run = run
  OBVIOUS
<1> HIDE DEF row
<1>3. /\ (rows' = rows \cup {row} /\ has' = TRUE) \/ UNCHANGED log
      /\ Goto(s, "done") => rows' = rows \cup {row} /\ has' = TRUE
      /\ Goto(s, "done") \/ (Faults /\ Goto(s, "raised"))
  BY DEF InsertOne, Raise, Goto, At, row, IInv, TypeOK
<1>4. Fresh' /\ run' = run
  BY <1>1, <1>2, <1>3 DEF Fresh, InsertOne, log
<1>5. LogInv'
  BY <1>3, <1>4 DEF LogInv, IInv, InsertOne, process, log
<1>6. RowInv'
  BY <1>2, <1>3, <1>4 DEF RowInv, IInv, TypeOK, Goto
<1>7. QuietInv'
  <2>1. existed' = existed /\ (has => has') /\ phase = "log" /\ phase' = phase
    BY <1>3 DEF InsertOne, At, log
  <2>2. ~Faults => /\ step' = [step EXCEPT ![s] = "done"]
                   /\ has' /\ row \in rows' /\ row.run = run'
    BY <1>2, <1>3, <1>4 DEF Goto
  <2> QED
    BY <2>1, <2>2 DEF QuietInv, IInv, TypeOK
<1>8. OneRunInLog'
  BY <1>4 DEF OneRunInLog, Fresh
<1>9. phase = "log" /\ UNCHANGED <<run, phase, clients, failed_to_init, initialized, existed>>
  BY DEF InsertOne, At, process
<1> QED
  BY <1>5, <1>6, <1>7, <1>8, <1>9, LogStageFrame DEF IInv, Safe

LEMMA NextInv == IInv /\ [Next]_vars => IInv'
<1> SUFFICES ASSUME IInv, [Next]_vars PROVE IInv'
  OBVIOUS
<1>1. TypeOK'
  BY TypeStep DEF IInv
<1>2. CASE UNCHANGED vars
  BY <1>2 DEF IInv, vars, process, log, TypeOK, LogInv, RowInv, ClientInv, QuietInv, Fresh,
              Safe, OneRunInLog, SomeRowLeft, ServableClients, QuietRestart
<1> QED
  BY <1>1, <1>2, ControlStep, AssignStep, LookStep, CreateStep, ClearStep, InsertStep
     DEF Next, ShardStep, Finished

LEMMA Inductive == Spec => []IInv
BY InitInv, NextInv, PTL DEF Spec

\* The types, and that no shard is at work when no stage is under way.
THEOREM TypeCorrect == Spec => []TypeOK
<1>1. IInv => TypeOK
  BY DEF IInv
<1> QED
  BY <1>1, Inductive, PTL

\* No interleaving of the shards and no restart mixes the rows of two runs.
THEOREM LogOfOneRun == Spec => []OneRunInLog
<1>1. IInv => OneRunInLog
  BY DEF IInv, Safe
<1> QED
  BY <1>1, Inductive, PTL

\* A start that succeeded has left a row of this run.
THEOREM StartLeavesARow == Spec => []SomeRowLeft
<1>1. IInv => SomeRowLeft
  BY DEF IInv, Safe
<1> QED
  BY <1>1, Inductive, PTL

\* After Init has returned, the clients are what the request handlers expect.
THEOREM ClientsServable == Spec => []ServableClients
<1>1. IInv => ServableClients
  BY DEF IInv, Safe
<1> QED
  BY <1>1, Inductive, PTL

\* Without faults only the first start on a server throws, and after it none does.
THEOREM RestartIsQuiet == Spec => []QuietRestart
<1>1. IInv => QuietRestart
  BY DEF IInv, Safe
<1> QED
  BY <1>1, Inductive, PTL
=============================================================================
