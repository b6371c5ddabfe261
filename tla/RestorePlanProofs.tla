--------------------------- MODULE RestorePlanProofs ---------------------------
(***************************************************************************)
(* What one restore does to the machines of its cluster in any             *)
(* environment: machines that are added, edits and deletion of the         *)
(* restore, failed calls, crashes, conflicts and agents that restart.      *)
(***************************************************************************)
EXTENDS EtcdSnapshotRestoreProofs

-----------------------------------------------------------------------------
(* The stages of plans and phases.                                         *)

\* The stage of the plans that a phase hands out; the last phase hands out none.
Rank(phase) ==
  CASE phase = "Shutdown" -> 2
    [] phase = "Restore" -> 3
    [] phase = "Finished" -> 4
    [] OTHER -> 1

\* The phases in their order, and the steps that PhaseAdvances allows in terms of it.
LEMMA PhaseRanks ==
  /\ Rank("Started") = 1 /\ Rank("Shutdown") = 2 /\ Rank("Restore") = 3 /\ Rank("Finished") = 4
  /\ \A phase : Rank(phase) \in {1, 2, 3, 4}
  /\ \A phase : Rank(FirstPhase(phase)) = Rank(phase)
  /\ \A p, q : <<p, q>> \in PhaseSteps =>
       \/ Rank(p) = 1 /\ Rank(q) = 1
       \/ Rank(p) = 1 /\ Rank(q) = 2
       \/ Rank(p) = 2 /\ Rank(q) = 3
       \/ Rank(p) = 3 /\ Rank(q) = 4
<1>1. Rank("Started") = 1 /\ Rank("Shutdown") = 2 /\ Rank("Restore") = 3 /\ Rank("Finished") = 4
  BY DEF Rank
<1>2. \A phase : Rank(phase) \in {1, 2, 3, 4}
  BY DEF Rank
<1>3. Rank("") = 1
  BY Zenon DEF Rank
<1>4. \A phase : Rank(FirstPhase(phase)) = Rank(phase)
  BY <1>1, <1>3, Zenon DEF FirstPhase
<1>5. ASSUME NEW p, NEW q, <<p, q>> \in PhaseSteps
      PROVE  \/ Rank(p) = 1 /\ Rank(q) = 1
             \/ Rank(p) = 1 /\ Rank(q) = 2
             \/ Rank(p) = 2 /\ Rank(q) = 3
             \/ Rank(p) = 3 /\ Rank(q) = 4
  <2>1. \/ p = "" /\ q \in {"Started", "Shutdown"}
        \/ p = "Started" /\ q = "Shutdown"
        \/ p = "Shutdown" /\ q = "Restore"
        \/ p = "Restore" /\ q = "Finished"
    BY <1>5, Zenon DEF PhaseSteps
  <2> QED
    BY <1>1, <1>3, <2>1, Zenon
<1> QED
  BY <1>1, <1>2, <1>4, <1>5

\* Stage tells the plans of the phases apart.
LEMMA PlanStages ==
  /\ Stage(NoPlan) = 0 /\ Stage(killPlan) = 1
  /\ \A b \in Backups : Stage(restorePlan(BackupLocation[b])) = 2
  /\ Stage(startPlan) = 3 /\ \A ip \in Machines \cup {None} : Stage(joinPlan(ip)) = 3
  /\ \A p : /\ Stage(p) \in 0..3
            /\ Stage(p) = 0 <=> p = NoPlan
            /\ Stage(p) = 1 <=> p = killPlan
<1> USE DEF instructionsAsJson, Sh
<1>1. NoPlan.instructions = <<>>
  BY DEF NoPlan
<1>2. killPlan.instructions = <<killAllInstruction>>
  BY DEF killPlan
<1>3. startPlan.instructions = <<startRKE2Instruction>>
  BY DEF startPlan
<1>4. killAllInstruction # startRKE2Instruction
  BY DEF killAllInstruction, startRKE2Instruction
<1>5. NoPlan # killPlan /\ NoPlan # startPlan /\ killPlan # startPlan
  BY <1>1, <1>2, <1>3, <1>4
<1>6. \A loc : Len(restorePlan(loc).instructions) = 3
  BY DEF restorePlan
<1>7. \A ip : Len(joinPlan(ip).instructions) = 5
  BY DEF joinPlan
<1>8. /\ Len(NoPlan.instructions) = 0
      /\ Len(killPlan.instructions) = 1 /\ Len(startPlan.instructions) = 1
  BY <1>1, <1>2, <1>3
<1>9. \A loc : restorePlan(loc) \notin {NoPlan, killPlan, startPlan}
  BY <1>6, <1>8, SMT
<1>10. \A ip : joinPlan(ip) \notin {NoPlan, killPlan, startPlan}
  BY <1>7, <1>8, SMT
<1>11. \A loc, ip : restorePlan(loc) # joinPlan(ip)
  <2> SUFFICES ASSUME NEW loc, NEW ip, restorePlan(loc) = joinPlan(ip) PROVE FALSE
    OBVIOUS
  <2>1. Len(restorePlan(loc).instructions) = 3 /\ Len(joinPlan(ip).instructions) = 5
    BY <1>6, <1>7
  <2> QED
    BY <2>1
<1> HIDE DEF instructionsAsJson, Sh
<1>12. Stage(NoPlan) = 0 /\ Stage(killPlan) = 1 /\ Stage(startPlan) = 3
  BY <1>5, <1>9 DEF Stage
<1>13. \A b \in Backups : Stage(restorePlan(BackupLocation[b])) = 2
  BY <1>9 DEF Stage
<1>14. \A ip \in Machines \cup {None} : Stage(joinPlan(ip)) = 3
  BY <1>10, <1>11 DEF Stage
<1>15. \A p : Stage(p) \in 0..3 /\ (Stage(p) = 0 <=> p = NoPlan) /\ (Stage(p) = 1 <=> p = killPlan)
  <2> TAKE p
  <2>1. CASE p \in {NoPlan, killPlan}
    BY <1>5, <1>12, <2>1
  <2>2. CASE p \notin {NoPlan, killPlan} /\ p \in {restorePlan(BackupLocation[b]) : b \in Backups}
    BY <1>13, <2>2
  <2>3. CASE p \notin {NoPlan, killPlan} /\ p \notin {restorePlan(BackupLocation[b]) : b \in Backups}
    <3>1. Stage(p) = 3
      BY <2>3 DEF Stage
    <3> QED
      BY <2>3, <3>1
  <2> QED
    BY <2>1, <2>2, <2>3
<1> QED
  BY <1>12, <1>13, <1>14, <1>15

\* The script that stops RKE2 is that of the kill plan alone, and the plans of the last
\* stage end with the one that starts it.
LEMMA StageScripts ==
  ASSUME NEW p \in Plans, NEW i \in Nat \ {0}, i <= Len(p.instructions)
  PROVE  /\ p.instructions[i].script[1] = "killall" => p = killPlan
         /\ Stage(p) = 3 /\ i + 1 > Len(p.instructions)
              => p.instructions[i].script[1] = "start-rke2"
<1> USE DEF Sh, instructionsAsJson
<1>1. CASE p = NoPlan
  BY <1>1 DEF NoPlan
<1>2. CASE p = killPlan
  BY <1>2, PlanStages
<1>3. CASE p = startPlan
  BY <1>3 DEF startPlan, startRKE2Instruction
<1>4. ASSUME NEW b \in Backups, p = restorePlan(BackupLocation[b])
      PROVE  Stage(p) # 3 /\ p.instructions[i].script[1] # "killall"
  <2>1. i \in {1, 2, 3}
    BY <1>4 DEF restorePlan
  <2>2. p.instructions[i].script[1] # "killall"
    BY <1>4, <2>1 DEF restorePlan, removeServerUrlFromConfig, manifestRemovalInstruction,
                      etcdRestoreInstruction
  <2> QED
    BY <1>4, <2>2, PlanStages
<1>5. ASSUME NEW ip \in Machines \cup {None}, p = joinPlan(ip)
      PROVE  /\ p.instructions[i].script[1] # "killall"
             /\ i + 1 > Len(p.instructions) => p.instructions[i].script[1] = "start-rke2"
  <2>1. i \in {1, 2, 3, 4, 5}
    BY <1>5 DEF joinPlan
  <2> QED
    BY <1>5, <2>1 DEF joinPlan, removeServerUrlFromConfig, addServerUrlToConfig,
                      removeEtcdDataInstruction, manifestRemovalInstruction, startRKE2Instruction
<1> QED
  BY <1>1, <1>2, <1>3, <1>4, <1>5 DEF Plans

\* Every plan but the absent one has an instruction.
LEMMA PlanLengths ==
  ASSUME NEW p \in Plans
  PROVE  Len(p.instructions) \in Nat /\ (p # NoPlan => Len(p.instructions) >= 1)
<1> USE DEF Sh, instructionsAsJson
<1>1. CASE p = NoPlan
  BY <1>1 DEF NoPlan
<1>2. CASE p = killPlan
  BY <1>2 DEF killPlan
<1>3. CASE p = startPlan
  BY <1>3 DEF startPlan
<1>4. ASSUME NEW b \in Backups, p = restorePlan(BackupLocation[b])
      PROVE  Len(p.instructions) \in Nat /\ Len(p.instructions) >= 1
  BY <1>4 DEF restorePlan
<1>5. ASSUME NEW ip \in Machines \cup {None}, p = joinPlan(ip)
      PROVE  Len(p.instructions) \in Nat /\ Len(p.instructions) >= 1
  BY <1>5 DEF joinPlan
<1> QED
  BY <1>1, <1>2, <1>3, <1>4, <1>5, Zenon DEF Plans

\* What a reconcile hands out is of the stage of its phase.
LEMMA WantedStage ==
  ASSUME TypeInv, PhaseInv, rec.pc \in {"get", "fill", "check"}
  PROVE  Stage(wantedPlan) = Rank(rec.obj.phase) /\ Stage(wantedPlan) = Rank(rec.phase)
<1>1. rec.phase \in {"Started", "Shutdown", "Restore"} /\ rec.phase = FirstPhase(rec.obj.phase)
  BY DEF PhaseInv
<1>2. Rank(rec.phase) = Rank(rec.obj.phase)
  BY <1>1 DEF Rank, FirstPhase
<1>3. rec.obj.backup \in Backups
  BY DEF TypeInv, RecOK
<1>4. initMachine \in Machines \cup {None}
  BY DEF initMachine, TypeInv, TypeOK, Reconciles
<1>5. getInternalMachineIP(initMachine) \in Machines \cup {None}
  BY <1>4 DEF getInternalMachineIP
<1> QED
  BY <1>1, <1>2, <1>3, <1>5, PlanStages DEF wantedPlan, Rank

\* Copies of the restore lag at most one phase behind it, since a phase is only
\* recorded by a reconcile whose copy was current; and no machine has been handed a
\* plan of a phase that the cache, or the reconcile in progress, does not know of.
PlanInv ==
  \A r \in Restores :
    /\ Rank(restoreCache[r].phase) <= Rank(restore[r].phase)
    /\ Rank(restore[r].phase) <= Rank(restoreCache[r].phase) + 1
    /\ \A m \in Machines : Stage(secret[m].plan) <= Rank(restoreCache[r].phase)
    /\ rec.pc # "idle" =>
         /\ Rank(rec.obj.phase) <= Rank(restoreCache[r].phase)
         /\ Rank(restore[r].phase) <= Rank(rec.obj.phase) + 1
         /\ \A m \in Machines : Stage(secret[m].plan) <= Rank(rec.obj.phase)

\* What a step does to the cache and to the reconcile's copy of the restore.
LEMMA CopySteps ==
  ASSUME NEW r0, Restores = {r0}, TypeInv, [Next]_vars
  PROVE  /\ \/ restoreCache' = restoreCache
            \/ restoreCache'[r0] = restore[r0] /\ restore' = restore /\ rec' \in {rec, IdleRec}
         /\ \/ rec'.pc = "idle"
            \/ rec.pc # "idle" /\ rec'.obj = rec.obj
            \/ rec'.obj = restoreCache[r0] /\ Reconcile(r0)
<1>0. rec \in Reconciles /\ restoreCache \in [Restores -> RestoreObjects] /\ IdleRec.pc = "idle"
  BY DEF TypeInv, TypeOK, IdleRec
<1>1. CASE \E r \in Restores : Reconcile(r)
  BY <1>1 DEF Reconcile, IdleRec
<1>2. CASE PauseCluster \/ UnpauseCluster
  BY <1>0, <1>2 DEF PauseCluster, UnpauseCluster, Return, Reconciles
<1>3. CASE stopRKE2OnAllMachines \/ finishRestore \/ EndOfLoop \/ \E m \in Machines : NextMachine(m)
  BY <1>0, <1>3 DEF stopRKE2OnAllMachines, finishRestore, EndOfLoop, LoopEndsIn, NextMachine,
                    WorkerOnly, Reconciles
<1>4. CASE restoreSnaphotOnInitMachine \/ startRKE2OnAllMachines
  BY <1>0, <1>4 DEF restoreSnaphotOnInitMachine, startRKE2OnAllMachines, Return, WorkerOnly,
                    Reconciles
<1>5. CASE getPlanSecretForMachine \/ updatePlanSecretWithPlan
  BY <1>0, <1>5 DEF getPlanSecretForMachine, updatePlanSecretWithPlan, Return, WorkerOnly,
                    Reconciles
<1>6. CASE CheckMachine \/ CheckInitMachine
  BY <1>0, <1>6 DEF CheckMachine, CheckInitMachine, Return, WorkerOnly, Reconciles
<1>7. CASE PatchRestore
  BY <1>0, <1>7 DEF PatchRestore
<1>8. CASE Manager
  BY <1>0, <1>8 DEF Manager, DeliverRestore, DeliverCluster, DeliverMachines,
                    RestartAfterPanic, NewProcess
<1>9. CASE Environment
  <2>1. ~ Crash => restoreCache' = restoreCache
    BY <1>9 DEF Environment, CreateRestore, EditRestore, DeleteRestore, TouchCluster, ScaleUp,
                Bootstrap, MachineReady, AgentCrash, CallFails, StatusCallFails
  <2>2. Crash => restoreCache' = restore /\ restore' = restore /\ rec' = IdleRec
    BY DEF Crash, NewProcess
  <2>3. rec' = rec \/ rec' = IdleRec \/ (rec.pc # "idle" /\ rec' = [rec EXCEPT !.pc = "status"])
    BY <1>9, EnvironmentSteps
  <2> QED
    BY <1>0, <2>1, <2>2, <2>3 DEF Reconciles
<1>10. ASSUME NEW m \in Machines, Agent(m) PROVE UNCHANGED <<restoreCache, rec>>
  BY <1>10 DEF Agent
<1>11. CASE UNCHANGED vars
  BY <1>11 DEF vars
<1> QED
  BY <1>1, <1>2, <1>3, <1>4, <1>5, <1>6, <1>7, <1>8, <1>9, <1>10, <1>11 DEF Next, Worker

\* Plans are written by updatePlanSecretWithPlan alone.
LEMMA SecretSteps ==
  ASSUME TypeInv, [Next]_vars
  PROVE  \/ \A m \in Machines : secret'[m].plan = secret[m].plan
         \/ /\ rec.pc = "fill" /\ updatePlanSecretWithPlan
            /\ secret' = [secret EXCEPT ![rec.m].plan = wantedPlan]
            /\ rec' = [rec EXCEPT !.pc = "check", !.sec.plan = wantedPlan]
<1>0. secret \in [Machines -> PlanSecrets]
  BY DEF TypeInv, TypeOK
<1>1. CASE updatePlanSecretWithPlan
  BY <1>1 DEF updatePlanSecretWithPlan
<1>2. CASE Worker /\ ~updatePlanSecretWithPlan
  BY <1>2 DEF Worker, Reconcile, PauseCluster, UnpauseCluster, stopRKE2OnAllMachines,
              restoreSnaphotOnInitMachine, startRKE2OnAllMachines, finishRestore, NextMachine,
              EndOfLoop, LoopEndsIn, getPlanSecretForMachine, CheckMachine, CheckInitMachine,
              PatchRestore, agentVars
<1>3. CASE Manager
  BY <1>3 DEF Manager, DeliverRestore, DeliverCluster, DeliverMachines, RestartAfterPanic,
              NewProcess, agentVars
<1>4. ASSUME NEW m \in Machines, AgentStep(m) \/ AgentRestart(m)
      PROVE  \A n \in Machines : secret'[n].plan = secret[n].plan
  <2>1. CASE AgentReport(m)
    BY <1>0, <2>1 DEF AgentReport, PlanSecrets
  <2> QED
    BY <1>4, <2>1 DEF AgentStep, AgentRestart, AgentFetch, KillAll, RemoveServerUrl, AddServerUrl,
                      RemoveManifests, RemoveEtcdData, ClusterReset, StartRKE2, ScriptFails, Runs
<1>5. CASE Environment
  BY <1>4, <1>5 DEF Environment, CreateRestore, EditRestore, DeleteRestore, TouchCluster, ScaleUp,
                    Bootstrap, MachineReady, AgentCrash, CallFails, StatusCallFails, Crash,
                    NewProcess, agentVars
<1>6. CASE UNCHANGED vars
  BY <1>6 DEF vars, agentVars
<1> QED
  BY <1>1, <1>2, <1>3, <1>4, <1>5, <1>6 DEF Next, Agent

\* Every step preserves PlanInv.
LEMMA PlanInvNext ==
  ASSUME NEW r0, Restores = {r0}, TypeInv, PhaseInv, PlanInv, [Next]_vars
  PROVE  PlanInv'
<1> DEFINE R == Rank(restore[r0].phase)
           C == Rank(restoreCache[r0].phase)
           O == Rank(rec.obj.phase)
<1>0. /\ R \in 1..4 /\ C \in 1..4 /\ O \in 1..4
      /\ \A m \in Machines : Stage(secret[m].plan) \in 0..3
  BY PlanStages, PhaseRanks
<1>1. R' \in 1..4 /\ C' \in 1..4 /\ O' \in 1..4
  BY PhaseRanks
<1>2. /\ C <= R /\ R <= C + 1 /\ \A m \in Machines : Stage(secret[m].plan) <= C
      /\ rec.pc # "idle" => O <= C /\ R <= O + 1 /\ \A m \in Machines : Stage(secret[m].plan) <= O
  BY DEF PlanInv
<1>3. R' = R \/ (R = O /\ rec.pc # "idle" /\ rec'.pc = "idle" /\ R <= R' /\ R' <= R + 1 /\ C' = C)
  <2>1. CASE \A r \in Restores : restore'[r].phase = restore[r].phase
    BY <2>1
  <2>2. CASE PatchRestore /\ rec.obj = restore[rec.name]
    <3>1. rec.pc = "status" /\ rec'.pc = "idle" /\ UNCHANGED restoreCache
      BY <2>2 DEF PatchRestore, IdleRec
    <3>2. rec.name = r0 /\ restore'[r0].phase = rec.phase
      BY <2>2, <3>1 DEF PatchRestore, TypeInv, TypeOK, RecOK, RestoreObjects
    <3>3. \/ Rank(rec.phase) = O
          \/ <<rec.obj.phase, rec.phase>> \in PhaseSteps
      BY <3>1, PhaseRanks DEF PhaseInv
    <3>4. O <= Rank(rec.phase) /\ Rank(rec.phase) <= O + 1
      BY <1>0, <3>3, PhaseRanks
    <3> QED
      BY <2>2, <3>1, <3>2, <3>4
  <2> QED
    BY <2>1, <2>2, RestoreSteps
<1>4. C' = C \/ (C' = R /\ R' = R /\ ((rec'.pc = rec.pc /\ O' = O) \/ rec'.pc = "idle"))
  <2>1. IdleRec.pc = "idle"
    BY DEF IdleRec
  <2> QED
    BY <2>1, CopySteps
<1>5. rec'.pc = "idle" \/ (rec.pc # "idle" /\ O' = O) \/ (O' = C /\ R' = R /\ C' = C)
  <2>1. Reconcile(r0) => UNCHANGED <<restore, restoreCache>>
    BY DEF Reconcile
  <2> QED
    BY <2>1, CopySteps
<1>6. \/ \A m \in Machines : secret'[m].plan = secret[m].plan
      \/ /\ rec.pc # "idle" /\ R' = R /\ C' = C /\ O' = O
         /\ \A m \in Machines : Stage(secret'[m].plan) <= O
  <2> SUFFICES ASSUME rec.pc = "fill", updatePlanSecretWithPlan,
                      secret' = [secret EXCEPT ![rec.m].plan = wantedPlan],
                      rec' = [rec EXCEPT !.pc = "check", !.sec.plan = wantedPlan]
               PROVE  /\ R' = R /\ C' = C /\ O' = O
                      /\ \A m \in Machines : Stage(secret'[m].plan) <= O
    BY SecretSteps
  <2>1. UNCHANGED <<restore, restoreCache>> /\ rec'.obj = rec.obj
    BY DEF updatePlanSecretWithPlan, WorkerOnly, TypeInv, TypeOK, Reconciles
  <2>2. Stage(wantedPlan) = O
    BY WantedStage
  <2>3. \A m \in Machines : secret'[m].plan \in {secret[m].plan, wantedPlan}
    BY DEF TypeInv, TypeOK, PlanSecrets
  <2> QED
    BY <1>0, <1>2, <2>1, <2>2, <2>3
<1> HIDE DEF R, C, O
<1>7. C' >= C /\ (rec.pc # "idle" /\ rec'.pc # "idle" => O' >= O) /\ (rec'.pc # "idle" => O' \in {O, C})
  BY <1>0, <1>1, <1>2, <1>4, <1>5
<1>8. \A m \in Machines : Stage(secret'[m].plan) <= C'
  BY <1>0, <1>1, <1>2, <1>6, <1>7, PlanStages
<1>9. rec'.pc # "idle" => \A m \in Machines : Stage(secret'[m].plan) <= O'
  BY <1>0, <1>1, <1>2, <1>5, <1>6, PlanStages
<1>10. C' <= R' /\ R' <= C' + 1
  <2>1. CASE R' = R
    <3>1. C <= R /\ R <= C + 1
      BY <1>2
    <3>2. C' \in {C, R}
      BY <1>4
    <3>3. R \in Nat /\ C \in Nat
      BY <1>0
    <3>4. CASE C' = R
      BY <2>1, <3>3, <3>4
    <3> QED
      BY <2>1, <3>1, <3>2, <3>4
  <2>2. CASE R' # R
    <3>1. R = O /\ rec.pc # "idle" /\ C' = C /\ R <= R' /\ R' <= R + 1
      BY <1>3, <2>2
    <3>2. R = C
      BY <1>0, <1>2, <3>1
    <3> QED
      BY <3>1, <3>2
  <2> QED
    BY <2>1, <2>2
<1>11. rec'.pc # "idle" => O' <= C' /\ R' <= O' + 1
  <2> SUFFICES ASSUME rec'.pc # "idle" PROVE O' <= C' /\ R' <= O' + 1
    OBVIOUS
  <2>1. R' = R /\ C <= R /\ R <= C + 1 /\ C' \in {C, R}
    BY <1>2, <1>3, <1>4
  <2>2. CASE rec.pc # "idle" /\ O' = O
    <3>1. O <= C /\ R <= O + 1
      BY <1>2, <2>2
    <3> QED
      BY <1>0, <2>1, <2>2, <3>1
  <2>3. CASE O' = C /\ C' = C
    BY <1>0, <2>1, <2>3
  <2> QED
    BY <1>5, <2>2, <2>3
<1> QED
  BY <1>8, <1>9, <1>10, <1>11 DEF PlanInv, R, C, O

\* PlanInv is an invariant of a cluster with one restore.
LEMMA PlanInvariant ==
  ASSUME NEW CONSTANT r0, Restores = {r0}
  PROVE  Spec => [](TypeInv /\ PhaseInv /\ PlanInv)
<1>1. Init => PlanInv
  <2> SUFFICES ASSUME Init PROVE PlanInv
    OBVIOUS
  <2>1. Rank(NoRestore.phase) = 1
    BY Zenon DEF Rank, NoRestore
  <2>2. /\ rec.pc = "idle" /\ restore = [r \in Restores |-> NoRestore] /\ restoreCache = restore
        /\ \A m \in Machines : secret[m].plan = NoPlan
    BY DEF Init, IdleRec, EmptySecret
  <2> QED
    BY <2>1, <2>2, PlanStages DEF PlanInv
<1>2. TypeInv /\ PhaseInv /\ PlanInv /\ [Next]_vars => PlanInv'
  BY PlanInvNext
<1> QED
  BY <1>1, <1>2, PhaseInvariant, PTL DEF Spec

\* With one restore for the cluster, no machine is ever handed a plan of an earlier
\* phase than the one it has: a reconcile that works on a stale copy of the restore can
\* repeat the plans of the phase before, but only while no later plan is out.
THEOREM PlansOnlyAdvance ==
  ASSUME NEW CONSTANT r0, Restores = {r0}
  PROVE  Spec => PlanAdvances
<1> DEFINE Advances == \A m \in Machines : Stage(secret'[m].plan) >= Stage(secret[m].plan)
<1>1. TypeInv /\ PhaseInv /\ PlanInv /\ [Next]_vars => Advances
  <2> SUFFICES ASSUME TypeInv, PhaseInv, PlanInv, [Next]_vars, NEW m \in Machines
               PROVE  Stage(secret'[m].plan) >= Stage(secret[m].plan)
    OBVIOUS
  <2>1. secret'[m].plan = secret[m].plan \/ (rec.pc = "fill" /\ secret'[m].plan = wantedPlan)
    BY SecretSteps DEF TypeInv, TypeOK, PlanSecrets
  <2>2. rec.pc = "fill" => Stage(wantedPlan) >= Stage(secret[m].plan)
    <3> SUFFICES ASSUME rec.pc = "fill" PROVE Stage(wantedPlan) >= Stage(secret[m].plan)
      OBVIOUS
    <3>1. Stage(wantedPlan) = Rank(rec.obj.phase)
      BY WantedStage
    <3>2. Stage(secret[m].plan) <= Rank(rec.obj.phase)
      BY DEF PlanInv
    <3> QED
      BY <3>1, <3>2, PlanStages, PhaseRanks
  <2>3. Stage(secret[m].plan) >= Stage(secret[m].plan)
    BY PlanStages
  <2> QED
    BY <2>1, <2>2, <2>3
<1> QED
  BY <1>1, PlanInvariant, PTL DEF Spec, PlanAdvances

-----------------------------------------------------------------------------

AppliedStage(m) == Stage(secret[m].applied.sha256)

\* A machine on which no agent stops RKE2 any more.
StaysUp(m) == node[m].rke2 /\ agent[m].plan # killPlan /\ secret[m].plan # killPlan

\* The agent of a machine works on what its secret says or said before; once it has
\* applied a plan that starts RKE2, it is up and stays up.
AgentOK(m) ==
  /\ Stage(agent[m].plan) <= Stage(secret[m].plan)
  /\ AppliedStage(m) <= Stage(secret[m].plan)
  /\ AppliedStage(m) = 3 => node[m].rke2 /\ Stage(agent[m].plan) \in {0, 3}
  /\ Stage(agent[m].plan) = 3 /\ Done(m) => node[m].rke2

AgentInv == \A m \in Machines : AgentOK(m)

\* A script leaves RKE2 as it is, unless it is the one that stops or starts it.
LEMMA Scripts ==
  ASSUME NEW m \in Machines, AgentStep(m) \/ AgentRestart(m), TypeInv
  PROVE  \/ AgentFetch(m) \/ ScriptFails(m) \/ AgentReport(m) \/ AgentRestart(m)
         \/ \E op, n : /\ Runs(m, op, n)
                       /\ n.rke2 = IF op = "killall" THEN FALSE
                                   ELSE op = "start-rke2" \/ node[m].rke2
<1>0. node[m] \in Nodes
  BY DEF TypeInv, TypeOK
<1> DEFINE Q == \E op, n : /\ Runs(m, op, n)
                           /\ n.rke2 = IF op = "killall" THEN FALSE
                                       ELSE op = "start-rke2" \/ node[m].rke2
<1>1. ASSUME NEW op, NEW n, Runs(m, op, n), op # "killall", op # "start-rke2",
             n.rke2 = node[m].rke2
      PROVE  Q
  BY <1>0, <1>1 DEF Nodes
<1>2. ASSUME NEW n, Runs(m, "start-rke2", n), n.rke2 = TRUE PROVE Q
  BY <1>2
<1>3. ASSUME NEW n, Runs(m, "killall", n), n.rke2 = FALSE PROVE Q
  BY <1>3
<1> HIDE DEF Q
<1>4. KillAll(m) => Q
  BY <1>0, <1>3 DEF KillAll, Nodes
<1>5. RemoveServerUrl(m) \/ RemoveManifests(m) \/ RemoveEtcdData(m) => Q
  BY <1>0, <1>1 DEF RemoveServerUrl, RemoveManifests, RemoveEtcdData, Nodes
<1>6. AddServerUrl(m) \/ ClusterReset(m) => Q
  BY <1>0, <1>1 DEF AddServerUrl, ClusterReset, Nodes
<1>7. StartRKE2(m) => Q
  BY <1>0, <1>2 DEF StartRKE2, Nodes
<1> QED
  BY <1>4, <1>5, <1>6, <1>7 DEF AgentStep, Q

\* What an agent does keeps AgentInv.
LEMMA AgentInvAgent ==
  ASSUME TypeInv, AgentInv, NEW m \in Machines, AgentStep(m) \/ AgentRestart(m)
  PROVE  AgentInv'
<1>0. /\ agent \in [Machines -> [plan : Plans, next : Nat \ {0}]] /\ node \in [Machines -> Nodes]
      /\ secret \in [Machines -> PlanSecrets]
  BY DEF TypeInv, TypeOK
<1>1. \A x \in Machines \ {m} : UNCHANGED <<agent[x], secret[x], node[x]>>
  BY <1>0 DEF AgentStep, AgentRestart, AgentFetch, KillAll, RemoveServerUrl, AddServerUrl,
              RemoveManifests, RemoveEtcdData, ClusterReset, StartRKE2, ScriptFails, AgentReport, Runs
<1>2. \A x \in Machines \ {m} : AgentOK(x)'
  BY <1>1 DEF AgentInv, AgentOK, AppliedStage, Done
<1>3. AgentOK(m)
  BY DEF AgentInv
<1>4. CASE AgentFetch(m)
  <2>1. /\ agent'[m] = [plan |-> secret[m].plan, next |-> 1] /\ UNCHANGED <<secret, node>>
        /\ secret[m].plan # NoPlan
    BY <1>0, <1>4 DEF AgentFetch
  <2>2. secret[m].plan \in Plans /\ ~Done(m)'
    <3>1. secret[m].plan \in Plans
      BY <1>0 DEF PlanSecrets
    <3>2. Len(secret[m].plan.instructions) >= 1
      BY <2>1, <3>1, PlanLengths
    <3> QED
      BY <2>1, <3>1, <3>2 DEF Done
  <2>3. Stage(secret[m].plan) <= Stage(secret[m].plan) /\ Stage(secret[m].plan) \in 0..3 /\ AppliedStage(m) \in 0..3
    BY PlanStages DEF AppliedStage
  <2>4. AppliedStage(m) = 3 => Stage(secret[m].plan) = 3
    BY <1>3, <2>3 DEF AgentOK
  <2> QED
    BY <1>2, <1>3, <2>1, <2>2, <2>3, <2>4 DEF AgentInv, AgentOK, AppliedStage
<1>5. CASE ScriptFails(m) \/ AgentRestart(m)
  <2>1. agent'[m].plan = NoPlan /\ UNCHANGED <<secret, node>>
    BY <1>0, <1>5 DEF ScriptFails, AgentRestart, IdleAgent
  <2> QED
    BY <1>2, <1>3, <2>1, PlanStages DEF AgentInv, AgentOK, AppliedStage
<1>6. CASE AgentReport(m)
  <2>1. /\ agent'[m].plan = NoPlan /\ UNCHANGED node /\ Done(m)
        /\ secret'[m].applied.sha256 = agent[m].plan /\ secret'[m].plan = secret[m].plan
    BY <1>0, <1>6 DEF AgentReport, IdleAgent, PlanSecrets, Checksum
  <2> QED
    BY <1>2, <1>3, <2>1, PlanStages DEF AgentInv, AgentOK, AppliedStage
<1>7. ASSUME NEW op, NEW n, Runs(m, op, n),
             n.rke2 = IF op = "killall" THEN FALSE ELSE op = "start-rke2" \/ node[m].rke2
      PROVE  AgentInv'
  <2>1. /\ agent'[m].plan = agent[m].plan /\ agent'[m].next = agent[m].next + 1
        /\ node'[m] = n /\ UNCHANGED secret
        /\ agent[m].plan \in Plans /\ agent[m].next \in Nat \ {0}
        /\ ~Done(m) /\ agent[m].plan.instructions[agent[m].next].script[1] = op
    BY <1>0, <1>7 DEF Runs, AtScript, Script
  <2>2. Len(agent[m].plan.instructions) \in Nat
    BY <2>1, PlanLengths
  <2>3. agent[m].next <= Len(agent[m].plan.instructions)
    BY <2>1, <2>2 DEF Done
  <2>4. /\ op = "killall" => agent[m].plan = killPlan
        /\ Stage(agent[m].plan) = 3 /\ Done(m)' => op = "start-rke2"
    BY <2>1, <2>3, StageScripts DEF Done
  <2>5. AppliedStage(m) = 3 => op # "killall"
    BY <1>3, <2>4, PlanStages DEF AgentOK
  <2>6. AppliedStage(m) = 3 => node'[m].rke2
    BY <1>3, <1>7, <2>1, <2>5 DEF AgentOK
  <2>7. Stage(agent'[m].plan) = 3 /\ Done(m)' => node'[m].rke2
    BY <1>7, <2>1, <2>4
  <2> QED
    BY <1>2, <1>3, <2>1, <2>6, <2>7 DEF AgentInv, AgentOK, AppliedStage
<1> QED
  BY <1>4, <1>5, <1>6, <1>7, Scripts

\* The steps that change a plan secret, an agent or a machine.
LEMMA MachineSteps ==
  ASSUME TypeInv, [Next]_vars
  PROVE  \/ UNCHANGED agentVars
         \/ /\ rec.pc = "fill" /\ updatePlanSecretWithPlan /\ UNCHANGED <<agent, node>>
            /\ secret' = [secret EXCEPT ![rec.m].plan = wantedPlan]
         \/ /\ \E m \in Machines : AgentStep(m) \/ ("agent" \in FaultKinds /\ AgentRestart(m))
            /\ UNCHANGED <<restore, restoreCache, paused, machine, machineCache, rec>>
         \/ \E m \in Machines : Bootstrap(m)
<1>1. CASE updatePlanSecretWithPlan
  BY <1>1 DEF updatePlanSecretWithPlan, WorkerOnly, agentVars
<1>2. CASE Worker /\ ~updatePlanSecretWithPlan
  BY <1>2 DEF Worker, Reconcile, PauseCluster, UnpauseCluster, stopRKE2OnAllMachines,
              restoreSnaphotOnInitMachine, startRKE2OnAllMachines, finishRestore, NextMachine,
              EndOfLoop, LoopEndsIn, getPlanSecretForMachine, CheckMachine, CheckInitMachine,
              PatchRestore, WorkerOnly, agentVars
<1>3. CASE Manager
  BY <1>3 DEF Manager, DeliverRestore, DeliverCluster, DeliverMachines, RestartAfterPanic,
              NewProcess
<1>4. CASE Environment
  BY <1>4 DEF Environment, CreateRestore, EditRestore, DeleteRestore, TouchCluster, ScaleUp,
              MachineReady, AgentCrash, CallFails, StatusCallFails, Crash, NewProcess, Disturbance
<1>5. CASE UNCHANGED vars
  BY <1>5 DEF vars
<1> QED
  BY <1>1, <1>2, <1>3, <1>4, <1>5 DEF Next, Agent

\* Every step keeps AgentInv.
LEMMA AgentInvNext ==
  ASSUME NEW r0, Restores = {r0}, TypeInv, PhaseInv, PlanInv, AgentInv, [Next]_vars
  PROVE  AgentInv'
<1>1. CASE UNCHANGED agentVars
  BY <1>1 DEF agentVars, AgentInv, AgentOK, AppliedStage, Done
<1>2. CASE /\ rec.pc = "fill" /\ updatePlanSecretWithPlan /\ UNCHANGED <<agent, node>>
           /\ secret' = [secret EXCEPT ![rec.m].plan = wantedPlan]
  <2>1. \A m \in Machines : Stage(secret[m].plan) <= Stage(wantedPlan)
    <3>1. \A m \in Machines : Stage(secret[m].plan) <= Rank(rec.obj.phase)
      BY <1>2 DEF PlanInv
    <3> QED
      BY <1>2, <3>1, WantedStage
  <2>2. \A m \in Machines : /\ secret'[m].applied = secret[m].applied
                             /\ secret'[m].plan \in {secret[m].plan, wantedPlan}
    BY <1>2 DEF TypeInv, TypeOK, PlanSecrets
  <2>3. \A m \in Machines : Stage(secret[m].plan) <= Stage(secret'[m].plan)
    BY <2>1, <2>2, PlanStages
  <2> SUFFICES ASSUME NEW m \in Machines PROVE AgentOK(m)'
    BY DEF AgentInv
  <2>4. AgentOK(m) /\ UNCHANGED <<AppliedStage(m), Done(m), agent[m], node[m]>>
    BY <1>2, <2>2 DEF AgentInv, AppliedStage, Done
  <2>5. /\ Stage(agent[m].plan) \in 0..3 /\ AppliedStage(m) \in 0..3
        /\ Stage(secret[m].plan) \in 0..3 /\ Stage(secret'[m].plan) \in 0..3
    BY PlanStages DEF AppliedStage
  <2>6. Stage(agent[m].plan) <= Stage(secret'[m].plan) /\ AppliedStage(m) <= Stage(secret'[m].plan)
    BY <2>3, <2>4, <2>5 DEF AgentOK
  <2> QED
    BY <2>4, <2>6 DEF AgentOK
<1>3. ASSUME NEW m \in Machines, AgentStep(m) \/ AgentRestart(m) PROVE AgentInv'
  BY <1>3, AgentInvAgent
<1>4. ASSUME NEW m \in Machines, Bootstrap(m) PROVE AgentInv'
  <2>1. UNCHANGED <<secret, agent>> /\ \A x \in Machines : node[x].rke2 => node'[x].rke2
    BY <1>4 DEF Bootstrap, TypeInv, TypeOK, Nodes
  <2> QED
    BY <2>1 DEF AgentInv, AgentOK, AppliedStage, Done
<1> QED
  BY <1>1, <1>2, <1>3, <1>4, MachineSteps

\* What no step takes back from a machine.
LEMMA MachineStays ==
  ASSUME TypeInv, PhaseInv, AgentInv, [Next]_vars, NEW m \in Machines
  PROVE  /\ AppliedStage(m) = 3 => AppliedStage(m)' = 3
         /\ secret'[m].plan = NoPlan /\ node[m].rke2 => node'[m].rke2
         /\ StaysUp(m) => StaysUp(m)' \/ (rec.pc = "fill" /\ rec.phase = "Started")
         /\ secret'[m].plan # secret[m].plan => rec.pc = "fill" /\ m = rec.m
<1>0. /\ agent \in [Machines -> [plan : Plans, next : Nat \ {0}]] /\ node \in [Machines -> Nodes]
      /\ secret \in [Machines -> PlanSecrets] /\ AgentOK(m)
  BY DEF TypeInv, TypeOK, AgentInv
<1>1. CASE UNCHANGED agentVars
  BY <1>1 DEF agentVars, AppliedStage, StaysUp
<1>2. CASE /\ rec.pc = "fill" /\ updatePlanSecretWithPlan /\ UNCHANGED <<agent, node>>
           /\ secret' = [secret EXCEPT ![rec.m].plan = wantedPlan]
  <2>1. secret'[m].applied = secret[m].applied /\ (secret'[m].plan = secret[m].plan \/ (m = rec.m /\ secret'[m].plan = wantedPlan))
    BY <1>0, <1>2 DEF PlanSecrets
  <2>2. wantedPlan = killPlan => rec.phase = "Started"
    <3>1. rec.phase \in {"Started", "Shutdown", "Restore"}
      BY <1>2 DEF PhaseInv
    <3> QED
      BY <1>2, <3>1, WantedStage, PlanStages, PhaseRanks
  <2> QED
    BY <1>2, <2>1, <2>2 DEF AppliedStage, StaysUp
<1>3. ASSUME NEW x \in Machines, AgentStep(x) \/ AgentRestart(x)
      PROVE  /\ AppliedStage(m) = 3 => AppliedStage(m)' = 3
             /\ secret'[m].plan = NoPlan /\ node[m].rke2 => node'[m].rke2
             /\ StaysUp(m) => StaysUp(m)'
             /\ secret'[m].plan = secret[m].plan
  <2>1. CASE x # m
    <3>1. UNCHANGED <<agent[m], secret[m], node[m]>>
      BY <1>0, <1>3, <2>1
         DEF AgentStep, AgentRestart, AgentFetch, KillAll, RemoveServerUrl, AddServerUrl,
             RemoveManifests, RemoveEtcdData, ClusterReset, StartRKE2, ScriptFails, AgentReport, Runs
    <3> QED
      BY <3>1 DEF AppliedStage, StaysUp
  <2>2. CASE AgentFetch(m)
    BY <1>0, <2>2 DEF AgentFetch, AppliedStage, StaysUp
  <2>3. CASE ScriptFails(m) \/ AgentRestart(m)
    <3>1. UNCHANGED <<secret, node>> /\ agent'[m].plan = NoPlan
      BY <1>0, <2>3 DEF ScriptFails, AgentRestart, IdleAgent
    <3> QED
      BY <3>1, PlanStages DEF AppliedStage, StaysUp
  <2>4. CASE AgentReport(m)
    <3>1. /\ agent'[m].plan = NoPlan /\ UNCHANGED node /\ agent[m].plan # NoPlan
          /\ secret'[m].applied.sha256 = agent[m].plan /\ secret'[m].plan = secret[m].plan
      BY <1>0, <2>4 DEF AgentReport, IdleAgent, PlanSecrets, Checksum, Busy
    <3>2. AppliedStage(m) = 3 => Stage(agent[m].plan) = 3
      BY <1>0, <3>1, PlanStages DEF AgentOK
    <3> QED
      BY <3>1, <3>2, PlanStages DEF AppliedStage, StaysUp
  <2>5. ASSUME NEW op, NEW n, Runs(m, op, n),
               n.rke2 = IF op = "killall" THEN FALSE ELSE op = "start-rke2" \/ node[m].rke2
        PROVE  /\ AppliedStage(m) = 3 => AppliedStage(m)' = 3
               /\ secret'[m].plan = NoPlan /\ node[m].rke2 => node'[m].rke2
               /\ StaysUp(m) => StaysUp(m)'
               /\ secret'[m].plan = secret[m].plan
    <3>1. /\ agent'[m].plan = agent[m].plan /\ node'[m] = n /\ UNCHANGED secret
          /\ agent[m].plan \in Plans /\ agent[m].plan # NoPlan /\ agent[m].next \in Nat \ {0}
          /\ ~Done(m) /\ agent[m].plan.instructions[agent[m].next].script[1] = op
      BY <1>0, <2>5 DEF Runs, AtScript, Script, Busy
    <3>2. Len(agent[m].plan.instructions) \in Nat
      BY <3>1, PlanLengths
    <3>3. op = "killall" => agent[m].plan = killPlan
      BY <3>1, <3>2, StageScripts DEF Done
    <3>4. secret[m].plan # NoPlan
      BY <1>0, <3>1, PlanStages DEF AgentOK
    <3> QED
      BY <2>5, <3>1, <3>3, <3>4 DEF AppliedStage, StaysUp
  <2> QED
    BY <1>3, <2>1, <2>2, <2>3, <2>4, <2>5, Scripts
<1>4. ASSUME NEW x \in Machines, Bootstrap(x)
      PROVE  UNCHANGED <<secret, agent>> /\ (node[m].rke2 => node'[m].rke2)
  BY <1>0, <1>4 DEF Bootstrap, Nodes
<1> QED
  BY <1>1, <1>2, <1>3, <1>4, MachineSteps DEF AppliedStage, StaysUp

\* Machines in the loop of the reconcile that it has looked at.
Visited == {m \in rec.machines \ rec.todo : rec.pc # "loop" => m # rec.m}

\* A reconcile that has passed newScope.
Working == rec.pc \in {"pause", "switch", "unpause", "loop", "get", "fill", "check"}

\* Only machines that the controller has seen running were handed plans, those are in
\* the list of every later reconcile, and a running machine is down only by a plan.
HandedInv ==
  /\ \A m \in Machines :
       /\ machineCache[m] = "Running" => machine[m] = "Running"
       /\ secret[m].plan # NoPlan => machineCache[m] = "Running" /\ (rec.pc # "idle" => m \in rec.machines)
       /\ secret[m].plan = NoPlan /\ machine[m] = "Running" => node[m].rke2
  /\ Working => \A m \in rec.machines : machineCache[m] = "Running"
  /\ rec.pc \in {"get", "fill", "check"} => rec.m \in rec.machines
  /\ rec.todo \subseteq rec.machines

\* What a step does to the machines of a reconcile.
LEMMA ScopeSteps ==
  ASSUME TypeInv, HandedInv, [Next]_vars
  PROVE  \/ rec' = rec
         \/ rec'.pc = "idle" /\ rec'.todo = {}
         \/ \E r \in Restores : Reconcile(r)
         \/ /\ rec.pc # "idle" /\ (Working' => Working)
            /\ rec'.machines = rec.machines /\ rec'.todo \subseteq rec.machines
            /\ rec'.pc \in {"get", "fill", "check"} => rec'.m \in rec.machines
<1>0. rec \in Reconciles /\ IdleRec.pc = "idle" /\ IdleRec.todo = {}
  BY DEF TypeInv, TypeOK, IdleRec
<1>1. /\ rec.pc \in {"get", "fill", "check"} => rec.m \in rec.machines
      /\ rec.todo \subseteq rec.machines
  BY DEF HandedInv
<1>2. initMachine # None => initMachine \in rec.machines
  BY DEF initMachine
<1>3. getInternalMachineIP(initMachine) # None => initMachine # None
  BY DEF getInternalMachineIP
<1> USE DEF Working
<1>4. CASE PauseCluster \/ UnpauseCluster
  BY <1>0, <1>1, <1>4 DEF PauseCluster, UnpauseCluster, Return, Reconciles
<1>5. CASE stopRKE2OnAllMachines \/ finishRestore \/ EndOfLoop \/ \E m \in Machines : NextMachine(m)
  BY <1>0, <1>1, <1>5, ZenonT(60) DEF stopRKE2OnAllMachines, finishRestore, EndOfLoop, LoopEndsIn, NextMachine,
                          Reconciles
<1>6. CASE restoreSnaphotOnInitMachine \/ startRKE2OnAllMachines
  BY <1>0, <1>1, <1>2, <1>3, <1>6 DEF restoreSnaphotOnInitMachine, startRKE2OnAllMachines, Return,
                          Reconciles
<1>7. CASE getPlanSecretForMachine \/ updatePlanSecretWithPlan
  BY <1>0, <1>1, <1>7 DEF getPlanSecretForMachine, updatePlanSecretWithPlan, Return, Reconciles
<1>8. CASE CheckMachine \/ CheckInitMachine
  BY <1>0, <1>1, <1>8 DEF CheckMachine, CheckInitMachine, Return, Reconciles
<1>9. CASE PatchRestore
  BY <1>0, <1>9 DEF PatchRestore
<1>10. CASE Manager
  BY <1>0, <1>10 DEF Manager, DeliverRestore, DeliverCluster, DeliverMachines,
                    RestartAfterPanic, NewProcess
<1>11. CASE Environment
  <2>1. rec' = rec \/ rec' = IdleRec \/ (rec.pc # "idle" /\ Working /\ rec' = [rec EXCEPT !.pc = "status"])
    BY <1>11, EnvironmentSteps
  <2> QED
    BY <1>0, <1>1, <2>1 DEF Reconciles
<1>12. ASSUME NEW m \in Machines, Agent(m) PROVE UNCHANGED rec
  BY <1>12 DEF Agent
<1>13. CASE UNCHANGED vars
  BY <1>13 DEF vars
<1> QED
  BY <1>4, <1>5, <1>6, <1>7, <1>8, <1>9, <1>10, <1>11, <1>12, <1>13 DEF Next, Worker

\* A Machine keeps its phase, or comes closer to being Running, or gets there.
MachineMoves(m) ==
  \/ machine'[m] = machine[m]
  \/ machine[m] # "Running" /\ machine'[m] # "Running"
  \/ machine[m] # "Running" /\ MachineReady(m)

\* What a step does to the machines and their cache.
LEMMA MachinePhaseSteps ==
  ASSUME TypeInv, [Next]_vars
  PROVE  /\ \A m \in Machines : MachineMoves(m)
         /\ machineCache' = machineCache \/ (machineCache' = machine /\ machine' = machine)
<1> USE DEF MachineMoves
<1>0. machine \in [Machines -> MachinePhases]
  BY DEF TypeInv, TypeOK
<1>1. CASE Worker
  BY <1>1 DEF Worker, Reconcile, PauseCluster, UnpauseCluster, stopRKE2OnAllMachines,
              restoreSnaphotOnInitMachine, startRKE2OnAllMachines, finishRestore, NextMachine,
              EndOfLoop, LoopEndsIn, getPlanSecretForMachine, updatePlanSecretWithPlan, CheckMachine,
              CheckInitMachine, PatchRestore, WorkerOnly
<1>2. CASE Manager
  BY <1>2 DEF Manager, DeliverRestore, DeliverCluster, DeliverMachines, RestartAfterPanic, NewProcess
<1>3. ASSUME NEW x \in Machines, ScaleUp(x) \/ MachineReady(x)
      PROVE  /\ UNCHANGED machineCache
             /\ \A m \in Machines : MachineMoves(m)
  <2>1. CASE ScaleUp(x)
    BY <1>0, <2>1 DEF ScaleUp
  <2>2. CASE MachineReady(x)
    BY <1>0, <2>2 DEF MachineReady
  <2> QED
    BY <1>3, <2>1, <2>2
<1>4. CASE Environment /\ ~ \E x \in Machines : ScaleUp(x) \/ MachineReady(x)
  BY <1>4 DEF Environment, CreateRestore, EditRestore, DeleteRestore, TouchCluster, Bootstrap,
              AgentCrash, CallFails, StatusCallFails, Crash, NewProcess
<1>5. ASSUME NEW m \in Machines, Agent(m) PROVE UNCHANGED <<machine, machineCache>>
  BY <1>5 DEF Agent
<1>6. CASE UNCHANGED vars
  BY <1>6 DEF vars
<1> QED
  BY <1>1, <1>2, <1>3, <1>4, <1>5, <1>6 DEF Next

\* Every step keeps HandedInv.
LEMMA HandedInvNext ==
  ASSUME TypeInv, PhaseInv, AgentInv, HandedInv, [Next]_vars
  PROVE  HandedInv'
<1>1. \A m \in Machines : machineCache[m] = "Running" => machineCache'[m] = "Running"
  BY MachinePhaseSteps DEF HandedInv, MachineMoves
<1>2. \A m \in Machines : machineCache'[m] = "Running" => machine'[m] = "Running"
  BY MachinePhaseSteps DEF HandedInv, MachineMoves
<1>3. Working' => \A m \in rec'.machines : machineCache'[m] = "Running"
  <2>1. ASSUME NEW r \in Restores, Reconcile(r), Working'
        PROVE  \A m \in rec'.machines : machineCache'[m] = "Running"
    BY <2>1 DEF Reconcile, IdleRec, Working
  <2>2. rec' = rec => (Working' => Working) /\ rec'.machines = rec.machines
    BY DEF Working
  <2>3. rec'.pc = "idle" => ~Working'
    BY DEF Working
  <2>4. \A m \in rec.machines : m \in Machines
    BY DEF TypeInv, TypeOK, Reconciles
  <2> QED
    BY <1>1, <2>1, <2>2, <2>3, <2>4, ScopeSteps DEF HandedInv
<1>4. /\ rec'.pc \in {"get", "fill", "check"} => rec'.m \in rec'.machines
      /\ rec'.todo \subseteq rec'.machines
  <2>1. ASSUME NEW r \in Restores, Reconcile(r) PROVE rec'.pc \in {"pause", "status"} /\ rec'.todo = {}
    BY <2>1 DEF Reconcile, IdleRec
  <2> QED
    BY <2>1, ScopeSteps DEF HandedInv
<1>5. ASSUME NEW m \in Machines, secret'[m].plan # NoPlan
      PROVE  machineCache'[m] = "Running" /\ (rec'.pc # "idle" => m \in rec'.machines)
  <2>1. CASE secret[m].plan # NoPlan
    <3>1. machineCache[m] = "Running" /\ (rec.pc # "idle" => m \in rec.machines)
      BY <2>1 DEF HandedInv
    <3>2. ASSUME NEW r \in Restores, Reconcile(r) PROVE m \in rec'.machines
      BY <3>1, <3>2 DEF Reconcile, IdleRec
    <3> QED
      BY <1>1, <3>1, <3>2, ScopeSteps
  <2>2. CASE secret'[m].plan # secret[m].plan
    <3>1. rec.pc = "fill" /\ m = rec.m /\ rec.m \in rec.machines
      BY <2>2, MachineStays DEF HandedInv
    <3>2. Working /\ machineCache[m] = "Running"
      BY <3>1 DEF Working, HandedInv
    <3>3. rec'.machines = rec.machines
      BY <2>2, SecretSteps DEF TypeInv, TypeOK, Reconciles
    <3> QED
      BY <1>1, <3>1, <3>2, <3>3
  <2> QED
    BY <1>5, <2>1, <2>2
<1>6. ASSUME NEW m \in Machines, secret'[m].plan = NoPlan, machine'[m] = "Running"
      PROVE  node'[m].rke2
  <2>1. secret[m].plan = NoPlan
    <3>1. CASE rec.pc = "fill" /\ secret'[m].plan = wantedPlan
      BY <1>6, <3>1, WantedStage, PlanStages, PhaseRanks
    <3>2. secret \in [Machines -> PlanSecrets]
      BY DEF TypeInv, TypeOK
    <3>3. secret'[m].plan = secret[m].plan \/ (rec.pc = "fill" /\ secret'[m].plan = wantedPlan)
      BY <3>2, SecretSteps DEF PlanSecrets
    <3> QED
      BY <1>6, <3>1, <3>3
  <2>2. CASE machine[m] = "Running"
    BY <1>6, <2>1, <2>2, MachineStays DEF HandedInv
  <2>3. CASE machine[m] # "Running" /\ MachineReady(m)
    BY <2>3 DEF MachineReady, agentVars
  <2> QED
    BY <1>6, <2>2, <2>3, MachinePhaseSteps DEF MachineMoves
<1> QED
  BY <1>2, <1>3, <1>4, <1>5, <1>6 DEF HandedInv

\* The copy of a secret that a reconcile works on does not promise more than the secret.
SeenStarted ==
  rec.pc \in {"fill", "check"} /\ Stage(rec.sec.applied.sha256) = 3 => AppliedStage(rec.m) = 3

\* As long as its loop finds every machine ready, those it has looked at are started.
LoopStarted ==
  /\ rec.phase = "Restore" /\ rec.ready
  /\ rec.pc \in {"loop", "get", "fill", "check"}
  /\ rec.pc = "loop" \/ rec.m # initMachine
  => \A m \in Visited : AppliedStage(m) = 3

\* The restore is Finished, or the reconcile in progress will say so.
Ending ==
  (\E r \in Restores : restore[r].phase = "Finished") \/ (rec.pc # "idle" /\ rec.phase = "Finished")

\* What a reconcile has seen so far, and what it may conclude at its end.
UpInv ==
  /\ SeenStarted
  /\ LoopStarted
  /\ Ending => \A m \in Machines : machine[m] = "Running" => StaysUp(m)

LEMMA IdlePc == IdleRec.pc = "idle"
  BY DEF IdleRec

\* The steps that a reconcile takes by itself, and those that end it.
LEMMA RecSteps ==
  ASSUME TypeInv, [Next]_vars
  PROVE  \/ rec' = rec
         \/ rec'.pc = "idle"
         \/ rec.pc # "idle" /\ rec' = [rec EXCEPT !.pc = "status"]
         \/ Worker
<1>0. IdleRec.pc = "idle"
  BY DEF IdleRec
<1>1. CASE Environment
  BY <1>0, <1>1, EnvironmentSteps
<1>2. CASE Manager
  BY <1>0, <1>2 DEF Manager, DeliverRestore, DeliverCluster, DeliverMachines, RestartAfterPanic,
                    NewProcess
<1>3. ASSUME NEW m \in Machines, Agent(m) PROVE rec' = rec
  BY <1>3 DEF Agent
<1>4. CASE UNCHANGED vars
  BY <1>4 DEF vars
<1> QED
  BY <1>1, <1>2, <1>3, <1>4 DEF Next

\* Every step keeps what the copy of a secret promises.
LEMMA SeenStartedNext ==
  ASSUME TypeInv, PhaseInv, AgentInv, SeenStarted, [Next]_vars
  PROVE  SeenStarted'
<1>0. rec \in Reconciles
  BY DEF TypeInv, TypeOK
<1>1. \A m \in Machines : AppliedStage(m) = 3 => AppliedStage(m)' = 3
  BY MachineStays
<1>2. CASE rec' = rec
  <2>1. rec.pc \in {"fill", "check"} => rec.m \in Machines
    BY DEF TypeInv, RecOK
  <2> QED
    BY <1>1, <1>2, <2>1 DEF SeenStarted, AppliedStage
<1>3. CASE rec'.pc = "idle" \/ (rec' = [rec EXCEPT !.pc = "status"])
  BY <1>0, <1>3 DEF SeenStarted, Reconciles
<1>4. CASE getPlanSecretForMachine
  BY <1>0, <1>4 DEF getPlanSecretForMachine, SeenStarted, AppliedStage, Reconciles
<1>5. CASE updatePlanSecretWithPlan
  <2>1. rec.pc = "fill" /\ rec.m \in Machines
    BY <1>5 DEF updatePlanSecretWithPlan, TypeInv, RecOK
  <2>2. rec'.pc \in {"fill", "check"} => rec' = [rec EXCEPT !.pc = "check", !.sec.plan = wantedPlan]
    BY <1>0, <1>5 DEF updatePlanSecretWithPlan, Return, Reconciles
  <2>3. rec'.pc \in {"fill", "check"} => rec'.m = rec.m
    BY <1>0, <2>2 DEF Reconciles
  <2>4. rec'.pc \in {"fill", "check"} => rec'.sec = [rec.sec EXCEPT !.plan = wantedPlan]
    BY <1>0, <2>2 DEF Reconciles
  <2>5. rec'.pc \in {"fill", "check"} => rec'.sec.applied = rec.sec.applied
    BY <1>0, <2>4 DEF Reconciles, PlanSecrets
  <2> QED
    BY <1>1, <2>1, <2>3, <2>5 DEF SeenStarted, AppliedStage
<1>6. CASE Worker /\ ~getPlanSecretForMachine /\ ~updatePlanSecretWithPlan
  <2>1. ASSUME NEW r \in Restores, Reconcile(r) PROVE rec'.pc \notin {"fill", "check"}
    BY <2>1 DEF Reconcile, IdleRec
  <2>2. PatchRestore => rec'.pc \notin {"fill", "check"}
    BY IdlePc DEF PatchRestore
  <2>3. PauseCluster \/ UnpauseCluster \/ finishRestore \/ EndOfLoop => rec'.pc \notin {"fill", "check"}
    BY <1>0 DEF PauseCluster, UnpauseCluster, finishRestore, EndOfLoop, LoopEndsIn, Return, Reconciles
  <2>4. stopRKE2OnAllMachines \/ restoreSnaphotOnInitMachine \/ startRKE2OnAllMachines
          => rec'.pc \notin {"fill", "check"}
    BY <1>0 DEF stopRKE2OnAllMachines, restoreSnaphotOnInitMachine, startRKE2OnAllMachines, Return,
                Reconciles
  <2>5. CheckMachine \/ CheckInitMachine \/ (\E m \in Machines : NextMachine(m))
          => rec'.pc \notin {"fill", "check"}
    BY <1>0 DEF CheckMachine, CheckInitMachine, NextMachine, Return, Reconciles
  <2> QED
    BY <1>6, <2>1, <2>2, <2>3, <2>4, <2>5 DEF SeenStarted, Worker
<1> QED
  BY <1>2, <1>3, <1>4, <1>5, <1>6, RecSteps

\* Every step keeps what the loop of a reconcile has seen.
LEMMA LoopStartedNext ==
  ASSUME TypeInv, PhaseInv, AgentInv, SeenStarted, LoopStarted, [Next]_vars
  PROVE  LoopStarted'
<1>0. rec \in Reconciles
  BY DEF TypeInv, TypeOK
<1>1. \A m \in Machines : AppliedStage(m) = 3 => AppliedStage(m)' = 3
  BY MachineStays
<1>2. Visited \subseteq Machines
  BY <1>0 DEF Visited, Reconciles
<1>3. ASSUME rec' = rec PROVE LoopStarted'
  BY <1>1, <1>2, <1>3 DEF LoopStarted, Visited, initMachine
<1>4. ASSUME rec'.pc \notin {"loop", "get", "fill", "check"} PROVE LoopStarted'
  BY <1>4 DEF LoopStarted
<1>5. CASE stopRKE2OnAllMachines \/ restoreSnaphotOnInitMachine
  BY <1>0, <1>5 DEF stopRKE2OnAllMachines, restoreSnaphotOnInitMachine, Return, LoopStarted, Reconciles
<1>6. CASE startRKE2OnAllMachines
  <2>1. rec'.pc = "status" \/ (rec'.pc = "get" /\ rec'.m = initMachine /\ UNCHANGED initMachine)
    BY <1>0, <1>6 DEF startRKE2OnAllMachines, Return, Reconciles, initMachine
  <2> QED
    BY <2>1 DEF LoopStarted
<1>7. ASSUME NEW x \in Machines, NextMachine(x) PROVE LoopStarted'
  <2>1. /\ rec.pc = "loop" /\ rec'.pc = "get" /\ rec'.phase = rec.phase /\ rec'.ready = rec.ready
        /\ Visited' \subseteq Visited
    BY <1>0, <1>7 DEF NextMachine, Reconciles, Visited
  <2> QED
    BY <1>1, <1>2, <2>1 DEF LoopStarted
<1>8. CASE getPlanSecretForMachine \/ updatePlanSecretWithPlan
  <2>1. \/ rec'.pc \in {"status", "panic"}
        \/ /\ rec.pc \in {"get", "fill"} /\ rec'.pc \in {"fill", "check"} /\ rec'.phase = rec.phase
           /\ rec'.ready = rec.ready /\ rec'.m = rec.m /\ UNCHANGED <<Visited, initMachine>>
    BY <1>0, <1>8, ZenonT(60) DEF getPlanSecretForMachine, updatePlanSecretWithPlan, Return, Reconciles,
                                Visited, initMachine
  <2> QED
    BY <1>1, <1>2, <1>4, <2>1 DEF LoopStarted
<1>9. CASE CheckMachine
  <2>1. rec.pc = "check" /\ rec.m \in Machines /\ (rec.phase = "Restore" => rec.m # initMachine)
    BY <1>9 DEF CheckMachine, InMachineLoop, TypeInv, RecOK
  <2>2. rec'.phase = rec.phase /\ Visited' \subseteq Visited \cup {rec.m}
    BY <1>0, <1>9 DEF CheckMachine, Reconciles, Visited
  <2>3. rec'.ready = (rec.ready /\ isPlanApplied(wantedPlan, secret[rec.m].applied))
    BY <1>0, <1>9 DEF CheckMachine, Reconciles
  <2>4. isPlanApplied(wantedPlan, secret[rec.m].applied) => secret[rec.m].applied.sha256 = wantedPlan
    BY DEF isPlanApplied, Checksum
  <2>5. rec'.ready /\ rec.phase = "Restore" => rec.ready /\ AppliedStage(rec.m) = 3
    BY <2>1, <2>3, <2>4, WantedStage, PhaseRanks DEF AppliedStage
  <2> QED
    BY <1>1, <1>2, <2>1, <2>2, <2>5 DEF LoopStarted
<1>10. CASE CheckInitMachine
  <2>1. rec.pc = "check" /\ rec.m \in Machines
    BY <1>10 DEF CheckInitMachine, TypeInv, RecOK
  <2>2. \/ rec'.pc = "status"
        \/ /\ isPlanApplied(wantedPlan, rec.sec.applied)
           /\ rec' = [rec EXCEPT !.pc = "loop", !.todo = rec.machines \ {rec.m}]
    BY <1>0, <1>10 DEF CheckInitMachine, Return, Reconciles
  <2>3. rec'.pc # "status" => rec.sec.applied.sha256 = wantedPlan
    BY <2>2 DEF isPlanApplied, Checksum
  <2>4. rec'.pc # "status" => rec'.phase = rec.phase /\ Visited' \subseteq {rec.m}
    BY <1>0, <2>2, ZenonT(60) DEF Reconciles, Visited
  <2>5. rec'.pc # "status" /\ rec.phase = "Restore" => AppliedStage(rec.m) = 3
    BY <2>1, <2>3, WantedStage, PhaseRanks DEF SeenStarted
  <2> QED
    BY <1>1, <1>4, <2>1, <2>4, <2>5 DEF LoopStarted
<1>11. CASE PauseCluster \/ UnpauseCluster \/ finishRestore \/ PatchRestore \/ EndOfLoop
            \/ \E r \in Restores : Reconcile(r)
  <2>1. ASSUME NEW r \in Restores, Reconcile(r) PROVE rec'.pc \notin {"loop", "get", "fill", "check"}
    BY <2>1 DEF Reconcile, IdleRec
  <2>2. PatchRestore => rec'.pc \notin {"loop", "get", "fill", "check"}
    BY IdlePc DEF PatchRestore
  <2>3. PauseCluster \/ UnpauseCluster \/ finishRestore => rec'.pc \notin {"loop", "get", "fill", "check"}
    BY <1>0 DEF PauseCluster, UnpauseCluster, finishRestore, Return, Reconciles
  <2>4. EndOfLoop => rec'.pc = "status"
    <3>1. ASSUME NEW phase, LoopEndsIn(phase) PROVE rec'.pc = "status"
      BY <1>0, <3>1 DEF LoopEndsIn, Reconciles
    <3> QED
      BY <3>1 DEF EndOfLoop
  <2> QED
    BY <1>4, <1>11, <2>1, <2>2, <2>3, <2>4
<1>12. CASE Worker
  BY <1>5, <1>6, <1>7, <1>8, <1>9, <1>10, <1>11, <1>12 DEF Worker
<1>13. CASE rec' = [rec EXCEPT !.pc = "status"]
  BY <1>0, <1>4, <1>13 DEF Reconciles
<1> QED
  BY <1>3, <1>4, <1>12, <1>13, RecSteps

\* What is about to be, or has been, recorded as Finished: by whom, and when.
LEMMA EndingSteps ==
  ASSUME NEW r0, Restores = {r0}, TypeInv, PhaseInv, PlanInv, [Next]_vars, Ending'
  PROVE  \/ Ending
         \/ EndOfLoop /\ rec.pc = "loop" /\ rec.todo = {} /\ rec.ready /\ rec.phase = "Restore"
<1>0. rec \in Reconciles
  BY DEF TypeInv, TypeOK
<1>1. CASE \E r \in Restores : restore'[r].phase = "Finished"
  <2>1. CASE \A r \in Restores : restore'[r].phase = restore[r].phase
    BY <1>1, <2>1 DEF Ending
  <2>2. CASE PatchRestore
    <3>1. rec.pc = "status" /\ restore'[r0].phase \in {restore[r0].phase, rec.phase}
      BY <2>2 DEF PatchRestore, TypeInv, TypeOK, RecOK, RestoreObjects
    <3> QED
      BY <1>1, <3>1 DEF Ending
  <2> QED
    BY <2>1, <2>2, RestoreSteps
<1>2. CASE rec'.pc # "idle" /\ rec'.phase = "Finished"
  <2>1. CASE rec' = rec \/ (rec.pc # "idle" /\ rec' = [rec EXCEPT !.pc = "status"])
    BY <1>0, <1>2, <2>1 DEF Ending, Reconciles
  <2>2. CASE Reconcile(r0)
    <3>1. restoreCache[r0].phase = "Finished"
      BY <1>2, <2>2 DEF Reconcile, IdleRec
    <3>2. Rank(restoreCache[r0].phase) = 4
      BY <3>1, PhaseRanks
    <3>3. Rank(restore[r0].phase) = 4
      BY <3>2, PhaseRanks DEF PlanInv
    <3>4. restore[r0].phase = "Finished"
      BY <3>3 DEF Rank
    <3> QED
      BY <3>4 DEF Ending
  <2>3. CASE EndOfLoop
    BY <1>0, <1>2, <2>3 DEF EndOfLoop, LoopEndsIn, PhaseInv, Ending, Reconciles
  <2>4. CASE PauseCluster \/ UnpauseCluster \/ stopRKE2OnAllMachines \/ finishRestore
             \/ (\E m \in Machines : NextMachine(m)) \/ PatchRestore
    BY <1>0, <1>2, <2>4, IdlePc DEF PauseCluster, UnpauseCluster, stopRKE2OnAllMachines, finishRestore,
                            NextMachine, PatchRestore, Return, Ending, Reconciles
  <2>5. CASE restoreSnaphotOnInitMachine \/ startRKE2OnAllMachines
    BY <1>0, <1>2, <2>5 DEF restoreSnaphotOnInitMachine, startRKE2OnAllMachines, Return, Ending, Reconciles
  <2>6. CASE getPlanSecretForMachine \/ updatePlanSecretWithPlan
    BY <1>0, <1>2, <2>6 DEF getPlanSecretForMachine, updatePlanSecretWithPlan, Return, Ending, Reconciles
  <2>7. CASE CheckMachine \/ CheckInitMachine
    BY <1>0, <1>2, <2>7 DEF CheckMachine, CheckInitMachine, Return, Ending, Reconciles
  <2> QED
    BY <1>2, <2>1, <2>2, <2>3, <2>4, <2>5, <2>6, <2>7, RecSteps DEF Worker
<1> QED
  BY <1>1, <1>2 DEF Ending

\* Every step keeps UpInv.
LEMMA UpInvNext ==
  ASSUME NEW r0, Restores = {r0}, TypeInv, PhaseInv, PlanInv, AgentInv, HandedInv, UpInv, [Next]_vars
  PROVE  UpInv'
<1>1. SeenStarted' /\ LoopStarted'
  BY SeenStartedNext, LoopStartedNext DEF UpInv
<1>2. ASSUME Ending', NEW m \in Machines, machine'[m] = "Running"
      PROVE  StaysUp(m)'
  <2>1. ASSUME secret[m].plan = NoPlan, node[m].rke2 PROVE StaysUp(m)
    <3>1. agent[m].plan = NoPlan
      BY <2>1, PlanStages DEF AgentInv, AgentOK
    <3> QED
      BY <2>1, <3>1, PlanStages DEF StaysUp
  <2>2. ASSUME machine[m] # "Running", MachineReady(m) PROVE StaysUp(m)'
    <3>1. secret[m].plan = NoPlan
      BY <2>2 DEF HandedInv
    <3>2. node[m].rke2 /\ UNCHANGED agentVars
      BY <2>2 DEF MachineReady
    <3> QED
      BY <2>1, <3>1, <3>2 DEF StaysUp, agentVars
  <2>3. CASE Ending /\ machine[m] = "Running"
    <3>1. StaysUp(m)
      BY <2>3 DEF UpInv
    <3>2. ~(rec.pc = "fill" /\ rec.phase = "Started")
      <4> SUFFICES ASSUME rec.pc = "fill", rec.phase = "Started" PROVE FALSE
        OBVIOUS
      <4>1. restore[r0].phase = "Finished"
        BY <2>3 DEF Ending
      <4>2. Rank(rec.obj.phase) = 1
        BY PhaseRanks DEF PhaseInv
      <4>3. Rank(restore[r0].phase) <= Rank(rec.obj.phase) + 1
        BY DEF PlanInv
      <4> QED
        BY <4>1, <4>2, <4>3, PhaseRanks
    <3> QED
      BY <3>1, <3>2, MachineStays
  <2>4. CASE /\ machine[m] = "Running"
             /\ EndOfLoop /\ rec.pc = "loop" /\ rec.todo = {} /\ rec.ready /\ rec.phase = "Restore"
    <3>1. UNCHANGED agentVars
      BY <2>4 DEF EndOfLoop, LoopEndsIn, WorkerOnly, agentVars
    <3>2. CASE m \in rec.machines
      <4>1. AppliedStage(m) = 3
        BY <2>4, <3>2 DEF UpInv, LoopStarted, Visited
      <4>2. AgentOK(m)
        BY DEF AgentInv
      <4>3. Stage(secret[m].plan) # 1 /\ Stage(agent[m].plan) # 1 /\ node[m].rke2
        BY <4>1, <4>2, PlanStages DEF AgentOK
      <4>4. StaysUp(m)
        BY <4>3, PlanStages DEF StaysUp
      <4> QED
        BY <3>1, <4>4 DEF StaysUp, agentVars
    <3>3. CASE m \notin rec.machines
      <4>1. secret[m].plan = NoPlan /\ node[m].rke2
        BY <2>4, <3>3 DEF HandedInv
      <4> QED
        BY <2>1, <3>1, <4>1 DEF StaysUp, agentVars
    <3> QED
      BY <3>2, <3>3
  <2> QED
    BY <1>2, <2>2, <2>3, <2>4, EndingSteps, MachinePhaseSteps DEF MachineMoves
<1> QED
  BY <1>1, <1>2 DEF UpInv

\* CAPI is paused from the first plan until the restore is Finished.
HeldInv ==
  (\E m \in Machines : secret[m].plan # NoPlan)
    => paused \/ \A r \in Restores : restore[r].phase = "Finished"

\* A restore that is Finished stays so.
LEMMA FinishedStays ==
  ASSUME TypeInv, PhaseInv, [Next]_vars, NEW r \in Restores, restore[r].phase = "Finished"
  PROVE  restore'[r].phase = "Finished"
<1> SUFFICES ASSUME PatchRestore, rec.obj = restore[rec.name], r = rec.name
             PROVE  rec.phase = "Finished"
  BY RestoreSteps DEF PatchRestore, TypeInv, TypeOK, RestoreObjects
<1>1. rec.pc = "status" /\ rec.obj.phase = "Finished"
  BY DEF PatchRestore
<1>2. FirstPhase("Finished") = "Finished"
  BY Zenon DEF FirstPhase
<1>3. \A p : <<"Finished", p>> \notin PhaseSteps
  BY PhaseRanks
<1> QED
  BY <1>1, <1>2, <1>3, Zenon DEF PhaseInv

\* The cluster is paused and unpaused by the two patches alone.
LEMMA PausedSteps ==
  ASSUME TypeInv, [Next]_vars
  PROVE  paused' = paused \/ (PauseCluster /\ paused') \/ UnpauseCluster
<1>1. CASE Environment
  BY <1>1, EnvironmentSteps
<1>2. CASE PauseCluster
  BY <1>2 DEF PauseCluster, PatchCluster
<1>3. CASE Worker /\ ~PauseCluster /\ ~UnpauseCluster
  BY <1>3 DEF Worker, Reconcile, stopRKE2OnAllMachines, restoreSnaphotOnInitMachine,
              startRKE2OnAllMachines, finishRestore, NextMachine, EndOfLoop, LoopEndsIn,
              getPlanSecretForMachine, updatePlanSecretWithPlan, CheckMachine, CheckInitMachine,
              PatchRestore, WorkerOnly
<1>4. CASE Manager
  BY <1>4 DEF Manager, DeliverRestore, DeliverCluster, DeliverMachines, RestartAfterPanic, NewProcess
<1>5. ASSUME NEW m \in Machines, Agent(m) PROVE paused' = paused
  BY <1>5 DEF Agent
<1>6. CASE UNCHANGED vars
  BY <1>6 DEF vars
<1> QED
  BY <1>1, <1>2, <1>3, <1>4, <1>5, <1>6 DEF Next

\* Every step keeps HeldInv.
LEMMA HeldInvNext ==
  ASSUME NEW r0, Restores = {r0}, TypeInv, PhaseInv, DownInv, AgentInv, HeldInv, [Next]_vars
  PROVE  HeldInv'
<1> SUFFICES ASSUME NEW m \in Machines, secret'[m].plan # NoPlan, ~paused'
             PROVE  \A r \in Restores : restore'[r].phase = "Finished"
  BY DEF HeldInv
<1>1. CASE UnpauseCluster
  <2>1. rec.pc = "unpause" /\ UNCHANGED restore
    BY <1>1 DEF UnpauseCluster
  <2>2. rec.phase = "Finished" /\ rec.phase = FirstPhase(rec.obj.phase) /\ rec.name \in Restores
    BY <2>1 DEF PhaseInv, TypeInv, RecOK
  <2>3. Rank(rec.obj.phase) = 4
    BY <2>2, PhaseRanks
  <2>4. rec.obj.phase = "Finished"
    BY <2>3 DEF Rank
  <2> QED
    BY <2>1, <2>2, <2>4 DEF DownInv
<1>2. CASE ~paused
  <2>1. rec.pc # "fill"
    BY <1>2 DEF DownInv
  <2>2. secret[m].plan # NoPlan
    BY <2>1, MachineStays
  <2>3. \A r \in Restores : restore[r].phase = "Finished"
    BY <1>2, <2>2 DEF HeldInv
  <2> QED
    BY <2>3, FinishedStays
<1> QED
  BY <1>1, <1>2, PausedSteps

-----------------------------------------------------------------------------

RunningInv == AgentInv /\ HandedInv /\ UpInv /\ HeldInv

\* RunningInv is an invariant of a cluster with one restore.
LEMMA RunningInvariant ==
  ASSUME NEW CONSTANT r0, Restores = {r0}
  PROVE  Spec => []RunningInv
<1>1. Init => RunningInv
  <2> SUFFICES ASSUME Init PROVE RunningInv
    OBVIOUS
  <2>1. /\ rec = IdleRec /\ machineCache = machine /\ restore = [r \in Restores |-> NoRestore]
        /\ secret = [m \in Machines |-> EmptySecret] /\ agent = [m \in Machines |-> IdleAgent]
    BY DEF Init
  <2>2. rec.pc = "idle" /\ rec.todo = {} /\ rec.machines = {}
    BY <2>1 DEF IdleRec
  <2>3. \A m \in Machines :
          /\ secret[m].plan = NoPlan /\ secret[m].applied.sha256 = NoPlan /\ agent[m].plan = NoPlan
          /\ machine[m] = "Running" => node[m].rke2
    BY DEF Init, EmptySecret, Checksum, IdleAgent
  <2>4. AgentInv
    BY <2>3, PlanStages DEF AgentInv, AgentOK, AppliedStage
  <2>5. HandedInv
    BY <2>1, <2>2, <2>3 DEF HandedInv, Working
  <2>6. NoRestore.phase # "Finished"
    BY Zenon DEF NoRestore
  <2>7. UpInv
    BY <2>1, <2>2, <2>6 DEF UpInv, SeenStarted, LoopStarted, Ending
  <2>8. HeldInv
    BY <2>3 DEF HeldInv
  <2> QED
    BY <2>4, <2>5, <2>7, <2>8 DEF RunningInv
<1>2. TypeInv /\ PhaseInv /\ PlanInv /\ DownInv /\ RunningInv /\ [Next]_vars => RunningInv'
  <2> SUFFICES ASSUME TypeInv, PhaseInv, PlanInv, DownInv, RunningInv, [Next]_vars PROVE RunningInv'
    OBVIOUS
  <2>1. AgentInv /\ HandedInv /\ UpInv /\ HeldInv
    BY DEF RunningInv
  <2>2. AgentInv'
    BY <2>1, AgentInvNext
  <2>3. HandedInv'
    BY <2>1, HandedInvNext
  <2>4. UpInv'
    BY <2>1, UpInvNext
  <2>5. HeldInv'
    BY <2>1, HeldInvNext
  <2> QED
    BY <2>2, <2>3, <2>4, <2>5 DEF RunningInv
<1> QED
  BY <1>1, <1>2, PlanInvariant, DownInvariant, PTL DEF Spec

\* With one restore for the cluster, CAPI never sees a running machine whose RKE2 the
\* controller has stopped unless the cluster is paused: machines added meanwhile, edits
\* and deletion of the restore, conflicts, crashes and agents that restart included.
THEOREM OneRestoreDownMeansPaused ==
  ASSUME NEW CONSTANT r0, Restores = {r0}
  PROVE  Spec => []DownMeansPaused
<1>1. RunningInv => DownMeansPaused
  <2> SUFFICES ASSUME RunningInv, NEW m \in Machines, machine[m] = "Running", ~node[m].rke2
               PROVE  paused
    BY DEF DownMeansPaused
  <2>1. secret[m].plan # NoPlan
    BY DEF RunningInv, HandedInv
  <2>2. ~Ending
    BY DEF RunningInv, UpInv, StaysUp
  <2> QED
    BY <2>1, <2>2 DEF RunningInv, HeldInv, Ending
<1> QED
  BY <1>1, RunningInvariant, PTL
================================================================================
