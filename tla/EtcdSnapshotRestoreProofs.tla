--------------------- MODULE EtcdSnapshotRestoreProofs ---------------------
(***************************************************************************)
(* What the restore controller guarantees for any number of machines,      *)
(* backups and disturbances.                                               *)
(***************************************************************************)
EXTENDS EtcdSnapshotRestore, TLAPS

\* A reconcile that has passed newScope has a backup, and one that works on a
\* plan secret has a machine.
RecOK ==
  /\ rec.pc \in {"pause", "switch", "unpause", "loop", "get", "fill", "check"}
       => rec.obj.backup \in Backups
  /\ rec.pc \in {"get", "fill", "check"} => rec.m \in Machines
  /\ rec.pc # "idle" => rec.name \in Restores

TypeInv == TypeOK /\ RecOK

-----------------------------------------------------------------------------
(* Plans and their scripts.                                                *)

\* What the instruction list of a plan contains.
LEMMA PlanShapes ==
  ASSUME NEW p \in Plans, NEW i \in Nat \ {0}, i <= Len(p.instructions),
         NEW s, s = p.instructions[i].script
  PROVE  /\ s[1] = "add-server-url" => s[2] \in Machines \cup {None}
         /\ s[1] = "cluster-reset" => Len(s) # 2
<1> USE DEF Sh, instructionsAsJson
<1>1. CASE p = NoPlan
  BY <1>1 DEF NoPlan
<1>2. CASE p = killPlan
  BY <1>2 DEF killPlan, killAllInstruction
<1>3. CASE p = startPlan
  BY <1>3 DEF startPlan, startRKE2Instruction
<1>4. ASSUME NEW b \in Backups, p = restorePlan(BackupLocation[b])
      PROVE  /\ s[1] = "add-server-url" => s[2] \in Machines \cup {None}
             /\ s[1] = "cluster-reset" => Len(s) # 2
  <2>1. i \in {1, 2, 3}
    BY <1>4 DEF restorePlan
  <2> QED
    BY <1>4, <2>1 DEF restorePlan, removeServerUrlFromConfig, manifestRemovalInstruction,
                      etcdRestoreInstruction
<1>5. ASSUME NEW m \in Machines \cup {None}, p = joinPlan(m)
      PROVE  /\ s[1] = "add-server-url" => s[2] \in Machines \cup {None}
             /\ s[1] = "cluster-reset" => Len(s) # 2
  <2>1. i \in {1, 2, 3, 4, 5}
    BY <1>5 DEF joinPlan
  <2> QED
    BY <1>5, <2>1 DEF joinPlan, removeServerUrlFromConfig, addServerUrlToConfig,
                      removeEtcdDataInstruction, manifestRemovalInstruction, startRKE2Instruction
<1> QED
  BY <1>1, <1>2, <1>3, <1>4, <1>5 DEF Plans

\* The plan a reconcile hands out is one of the plans.
LEMMA WantedPlanType ==
  ASSUME TypeInv, rec.pc \in {"get", "fill", "check"}
  PROVE  wantedPlan \in Plans
<1>1. initMachine \in Machines \cup {None}
  BY DEF initMachine, TypeInv, TypeOK, Reconciles
<1>2. getInternalMachineIP(initMachine) \in Machines \cup {None}
  BY <1>1 DEF getInternalMachineIP
<1>3. rec.obj.backup \in Backups
  BY DEF TypeInv, RecOK
<1> QED
  BY <1>2, <1>3 DEF wantedPlan, Plans

-----------------------------------------------------------------------------
(* Type correctness.                                                       *)

\* The shape of the state a new process or a finished reconcile starts from.
LEMMA IdleRecType == IdleRec \in Reconciles
<1>1. NoPlan \in Plans
  BY DEF Plans
<1>2. EmptySecret \in PlanSecrets
  BY <1>1 DEF EmptySecret, PlanSecrets
<1>3. NoRestore \in RestoreObjects
  BY DEF NoRestore, RestoreObjects, Phases
<1> QED
  BY <1>2, <1>3 DEF IdleRec, Phases, Reconciles

\* The initial state has its types.
LEMMA TypeInit == Init => TypeInv
<1> SUFFICES ASSUME Init PROVE TypeInv
  OBVIOUS
<1>1. NoPlan \in Plans
  BY DEF Plans
<1>2. EmptySecret \in PlanSecrets
  BY <1>1 DEF EmptySecret, PlanSecrets
<1>3. NoRestore \in RestoreObjects
  BY DEF NoRestore, RestoreObjects, Phases
<1>4. rec \in Reconciles /\ RecOK
  BY IdleRecType DEF Init, RecOK, IdleRec
<1>5. secret \in [Machines -> PlanSecrets]
  BY <1>2 DEF Init
<1>6. agent \in [Machines -> [plan : Plans, next : Nat \ {0}]]
  BY <1>1 DEF Init, IdleAgent
<1>7. node \in [Machines -> Nodes]
  BY DEF Init, Nodes, Lineages
<1>8. machine \in [Machines -> MachinePhases] /\ machineCache \in [Machines -> MachinePhases]
  BY DEF Init, MachinePhases
<1> QED
  BY <1>3, <1>4, <1>5, <1>6, <1>7, <1>8 DEF Init, TypeInv, TypeOK

\* Every step of a reconcile keeps the types.
LEMMA TypeWorker == TypeInv /\ Worker => TypeInv'
<1> SUFFICES ASSUME TypeInv, Worker PROVE TypeInv'
  OBVIOUS
<1> USE DEF TypeInv, TypeOK, RecOK, agentVars
<1>1. ASSUME NEW r \in Restores, Reconcile(r) PROVE TypeInv'
  <2>1. restoreCache[r] \in RestoreObjects
    OBVIOUS
  <2>2. (IF restoreCache[r].phase = "" THEN "Started" ELSE restoreCache[r].phase) \in Phases
    BY <2>1 DEF RestoreObjects, Phases
  <2>3. rec' \in Reconciles
    BY <1>1, <2>1, <2>2, IdleRecType DEF Reconcile, Reconciles
  <2>4. RecOK'
    BY <1>1, <2>1, <2>2, IdleRecType DEF Reconcile, Reconciles
  <2> QED
    BY <1>1, <2>3, <2>4 DEF Reconcile
<1>2. CASE PauseCluster
  BY <1>2, ZenonT(60) DEF PauseCluster, PatchCluster, Return, Reconciles
<1>3. CASE UnpauseCluster
  BY <1>3 DEF UnpauseCluster, PatchCluster, Return, Reconciles
<1>4. CASE stopRKE2OnAllMachines
  BY <1>4 DEF stopRKE2OnAllMachines, WorkerOnly, Reconciles
<1>5. CASE restoreSnaphotOnInitMachine
  <2>1. initMachine \in Machines \cup {None}
    BY DEF initMachine, Reconciles
  <2> QED
    BY <1>5, <2>1, ZenonT(60) DEF restoreSnaphotOnInitMachine, WorkerOnly, Return, Reconciles
<1>6. CASE startRKE2OnAllMachines
  <2>1. initMachine \in Machines \cup {None}
    BY DEF initMachine, Reconciles
  <2>2. getInternalMachineIP(initMachine) # None => initMachine # None
    BY DEF getInternalMachineIP
  <2> QED
    BY <1>6, <2>1, <2>2, ZenonT(60) DEF startRKE2OnAllMachines, WorkerOnly, Return, Reconciles
<1>7. CASE finishRestore
  BY <1>7 DEF finishRestore, WorkerOnly, Reconciles
<1>8. ASSUME NEW m \in Machines, NextMachine(m) PROVE TypeInv'
  BY <1>8 DEF NextMachine, WorkerOnly, Reconciles
<1>9. CASE EndOfLoop
  <2>1. ASSUME NEW p \in Phases, LoopEndsIn(p) PROVE TypeInv'
    BY <2>1 DEF LoopEndsIn, WorkerOnly, Reconciles
  <2>2. rec.phase \in Phases /\ "Shutdown" \in Phases /\ "Finished" \in Phases
    BY DEF Phases, Reconciles
  <2> QED
    BY <1>9, <2>1, <2>2 DEF EndOfLoop
<1>10. CASE getPlanSecretForMachine
  BY <1>10 DEF getPlanSecretForMachine, WorkerOnly, Reconciles
<1>11. CASE updatePlanSecretWithPlan
  <2>1. wantedPlan \in Plans
    BY <1>11, WantedPlanType DEF updatePlanSecretWithPlan
  <2>2. [secret EXCEPT ![rec.m].plan = wantedPlan] \in [Machines -> PlanSecrets]
    BY <2>1 DEF PlanSecrets
  <2>3. secret' \in [Machines -> PlanSecrets]
    BY <1>11, <2>2 DEF updatePlanSecretWithPlan
  <2>4. [rec EXCEPT !.pc = "check", !.sec.plan = wantedPlan] \in Reconciles
    BY <2>1 DEF Reconciles, PlanSecrets
  <2>5. \A pc \in {"status", "panic"} : [rec EXCEPT !.pc = pc] \in Reconciles
    BY DEF Reconciles
  <2>6. rec' \in Reconciles
    BY <1>11, <2>4, <2>5 DEF updatePlanSecretWithPlan, Return
  <2>7. /\ rec'.obj = rec.obj /\ rec'.m = rec.m /\ rec'.name = rec.name
        /\ rec'.pc \in {"check", "status", "panic"}
    BY <1>11 DEF updatePlanSecretWithPlan, Return, Reconciles
  <2>8. RecOK'
    BY <1>11, <2>7 DEF updatePlanSecretWithPlan
  <2> QED
    BY <1>11, <2>3, <2>6, <2>8 DEF updatePlanSecretWithPlan, WorkerOnly
<1>12. CASE CheckMachine
  <2>1. (rec.ready /\ isPlanApplied(wantedPlan, secret[rec.m].applied)) \in BOOLEAN
    OBVIOUS
  <2>2. rec' \in Reconciles /\ RecOK'
    BY <1>12, <2>1 DEF CheckMachine, Reconciles
  <2> QED
    BY <1>12, <2>2 DEF CheckMachine, WorkerOnly
<1>13. CASE CheckInitMachine
  <2>1. "Restore" \in Phases
    BY DEF Phases
  <2>2. rec' \in Reconciles /\ RecOK'
    <3>1. CASE rec' = [rec EXCEPT !.pc = "status"]
      BY <3>1, <1>13 DEF CheckInitMachine, Reconciles
    <3>2. CASE rec' = [rec EXCEPT !.pc = "status", !.phase = "Restore"]
      BY <3>2, <1>13, <2>1 DEF CheckInitMachine, Reconciles
    <3>3. CASE rec' = [rec EXCEPT !.pc = "loop", !.todo = rec.machines \ {rec.m}]
      BY <3>3, <1>13 DEF CheckInitMachine, Reconciles
    <3> QED
      BY <1>13, <3>1, <3>2, <3>3 DEF CheckInitMachine, Return
  <2> QED
    BY <1>13, <2>2 DEF CheckInitMachine, WorkerOnly
<1>14. CASE PatchRestore
  <2>1. restore' \in [Restores -> RestoreObjects]
    <3>1. rec.phase \in Phases
      BY DEF Reconciles
    <3>2. [restore EXCEPT ![rec.name].phase = rec.phase] \in [Restores -> RestoreObjects]
      BY <3>1 DEF RestoreObjects
    <3> QED
      BY <1>14, <3>2 DEF PatchRestore
  <2>2. RecOK'
    BY <1>14 DEF PatchRestore, IdleRec
  <2> QED
    BY <1>14, <2>1, <2>2, IdleRecType DEF PatchRestore
<1> QED
  BY <1>1, <1>2, <1>3, <1>4, <1>5, <1>6, <1>7, <1>8, <1>9, <1>10, <1>11, <1>12, <1>13, <1>14
     DEF Worker

\* So do the informers and a new process.
LEMMA TypeManager == TypeInv /\ (Manager \/ Crash) => TypeInv'
<1> SUFFICES ASSUME TypeInv, Manager \/ Crash PROVE TypeInv'
  OBVIOUS
<1> USE DEF TypeInv, TypeOK, RecOK, agentVars
<1>1. ASSUME NEW r \in Restores, DeliverRestore(r) PROVE TypeInv'
  BY <1>1 DEF DeliverRestore
<1>2. CASE DeliverCluster
  BY <1>2 DEF DeliverCluster
<1>3. CASE DeliverMachines
  BY <1>3 DEF DeliverMachines
<1>4. ASSUME NewProcess, faults' \in Nat PROVE TypeInv'
  <2>1. RecOK'
    BY <1>4 DEF NewProcess, IdleRec
  <2> QED
    BY <1>4, <2>1, IdleRecType DEF NewProcess
<1>5. CASE RestartAfterPanic
  BY <1>4, <1>5 DEF RestartAfterPanic
<1>6. CASE Crash
  BY <1>4, <1>6 DEF Crash, Disturbance
<1> QED
  BY <1>1, <1>2, <1>3, <1>5, <1>6 DEF Manager

\* So does every script an agent runs, its report and its restart.
LEMMA TypeAgent ==
  ASSUME TypeInv, NEW m \in Machines, AgentStep(m) \/ AgentRestart(m)
  PROVE  /\ secret' \in [Machines -> PlanSecrets]
         /\ agent' \in [Machines -> [plan : Plans, next : Nat \ {0}]]
         /\ node' \in [Machines -> Nodes]
<1> DEFINE Typed == /\ secret' \in [Machines -> PlanSecrets]
                   /\ agent' \in [Machines -> [plan : Plans, next : Nat \ {0}]]
                   /\ node' \in [Machines -> Nodes]
<1> USE DEF TypeInv, TypeOK
<1>1. ASSUME NEW op, NEW n \in Nodes, Runs(m, op, n) PROVE Typed
  BY <1>1 DEF Runs
<1>2. node[m] \in Nodes
  OBVIOUS
<1>3. IdleAgent \in [plan : Plans, next : Nat \ {0}]
  BY DEF IdleAgent, Plans
<1>4. CASE AgentFetch(m)
  BY <1>4 DEF AgentFetch, PlanSecrets
<1>5. CASE KillAll(m)
  <2>1. [node[m] EXCEPT !.rke2 = FALSE] \in Nodes
    BY <1>2 DEF Nodes
  <2> QED
    BY <1>1, <1>5, <2>1 DEF KillAll
<1>6. CASE RemoveServerUrl(m)
  <2>1. [node[m] EXCEPT !.server = NoServer] \in Nodes
    BY <1>2 DEF Nodes
  <2> QED
    BY <1>1, <1>6, <2>1 DEF RemoveServerUrl
<1>7. CASE AddServerUrl(m)
  <2>1. AtScript(m, "add-server-url")
    BY <1>7 DEF AddServerUrl
  <2>2. Script(m)[2] \in Machines \cup {None}
    BY <2>1, PlanShapes DEF AtScript, Done, Script
  <2>3. [node[m] EXCEPT !.server = Script(m)[2]] \in Nodes
    BY <1>2, <2>2 DEF Nodes
  <2> QED
    BY <1>1, <1>7, <2>3 DEF AddServerUrl
<1>8. CASE RemoveManifests(m)
  <2>1. [node[m] EXCEPT !.manifests = FALSE] \in Nodes
    BY <1>2 DEF Nodes
  <2> QED
    BY <1>1, <1>8, <2>1 DEF RemoveManifests
<1>9. CASE RemoveEtcdData(m)
  <2>1. [node[m] EXCEPT !.lineage = NoData, !.snapshot = {}] \in Nodes
    BY <1>2 DEF Nodes, Lineages
  <2> QED
    BY <1>1, <1>9, <2>1 DEF RemoveEtcdData
<1>10. CASE ClusterReset(m)
  <2>1. Len(Script(m)) # 2
    <3> DEFINE p == agent[m].plan
               i == agent[m].next
    <3>1. p \in Plans /\ i \in Nat \ {0}
      OBVIOUS
    <3>2. ~(i > Len(p.instructions)) /\ Script(m) = p.instructions[i].script
          /\ Script(m)[1] = "cluster-reset"
      BY <1>10 DEF ClusterReset, AtScript, Done, Script
    <3> HIDE DEF p, i
    <3>3. i <= Len(p.instructions)
      BY <3>1, <3>2
    <3> QED
      BY <3>1, <3>2, <3>3, PlanShapes, Zenon
  <2>2. [node[m] EXCEPT !.lineage = m, !.snapshot = node[m].snapshot] \in Nodes
    BY <1>2 DEF Nodes, Lineages
  <2> QED
    BY <1>1, <1>10, <2>1, <2>2 DEF ClusterReset
<1>11. CASE StartRKE2(m)
  <2>1. [node[m] EXCEPT !.rke2 = TRUE] \in Nodes
    BY <1>2 DEF Nodes
  <2>2. ASSUME NEW s \in JoinTargets(m)
        PROVE  [node[m] EXCEPT !.rke2 = TRUE, !.lineage = node[s].lineage,
                               !.snapshot = node[s].snapshot] \in Nodes
    BY <1>2 DEF Nodes, JoinTargets
  <2>3. [node[m] EXCEPT !.rke2 = TRUE, !.lineage = m, !.snapshot = {}] \in Nodes
    BY <1>2 DEF Nodes, Lineages
  <2> QED
    BY <1>1, <1>11, <2>1, <2>2, <2>3 DEF StartRKE2
<1>12. CASE ScriptFails(m)
  BY <1>3, <1>12 DEF ScriptFails
<1>13. CASE AgentReport(m)
  BY <1>3, <1>13 DEF AgentReport, PlanSecrets
<1>14. CASE AgentRestart(m)
  BY <1>3, <1>14 DEF AgentRestart
<1> QED
  BY <1>4, <1>5, <1>6, <1>7, <1>8, <1>9, <1>10, <1>11, <1>12, <1>13, <1>14 DEF AgentStep

\* So do users, CAPI and failures.
LEMMA TypeEnvironment == TypeInv /\ Environment => TypeInv'
<1> SUFFICES ASSUME TypeInv, Environment PROVE TypeInv'
  OBVIOUS
<1> USE DEF TypeInv, TypeOK, RecOK, agentVars, Disturbance
<1>1. ASSUME NEW r \in Restores, NEW b \in Backups \cup {None}, CreateRestore(r, b) PROVE TypeInv'
  BY <1>1 DEF CreateRestore, RestoreObjects
<1>2. ASSUME NEW r \in Restores, NEW b \in Backups \cup {None}, EditRestore(r, b) PROVE TypeInv'
  BY <1>2 DEF EditRestore, RestoreObjects
<1>3. ASSUME NEW r \in Restores, DeleteRestore(r) PROVE TypeInv'
  <2>1. [restore EXCEPT ![r].live = FALSE] \in [Restores -> RestoreObjects]
    BY DEF RestoreObjects
  <2> QED
    BY <1>3, <2>1 DEF DeleteRestore
<1>4. CASE TouchCluster
  BY <1>4 DEF TouchCluster
<1>5. ASSUME NEW m \in Machines, ScaleUp(m) PROVE TypeInv'
  BY <1>5 DEF ScaleUp, MachinePhases
<1>6. ASSUME NEW m \in Machines, Bootstrap(m) PROVE TypeInv'
  BY <1>6 DEF Bootstrap, Nodes
<1>7. ASSUME NEW m \in Machines, MachineReady(m) PROVE TypeInv'
  BY <1>7 DEF MachineReady, MachinePhases
<1>8. ASSUME NEW m \in Machines, AgentCrash(m) PROVE TypeInv'
  BY <1>8, TypeAgent DEF AgentCrash
<1>9. CASE CallFails
  BY <1>9, SMTT(30) DEF CallFails, Return, Reconciles
<1>10. CASE StatusCallFails
  <2>1. RecOK'
    BY <1>10 DEF StatusCallFails, IdleRec
  <2> QED
    BY <1>10, <2>1, IdleRecType DEF StatusCallFails
<1>11. CASE Crash
  BY <1>11, TypeManager
<1> QED
  BY <1>1, <1>2, <1>3, <1>4, <1>5, <1>6, <1>7, <1>8, <1>9, <1>10, <1>11 DEF Environment

\* So does every step.
LEMMA TypeNext == TypeInv /\ [Next]_vars => TypeInv'
<1> SUFFICES ASSUME TypeInv, [Next]_vars PROVE TypeInv'
  OBVIOUS
<1>1. ASSUME NEW m \in Machines, Agent(m) PROVE TypeInv'
  BY <1>1, TypeAgent DEF Agent, TypeInv, TypeOK, RecOK
<1>2. CASE UNCHANGED vars
  BY <1>2 DEF vars, agentVars, TypeInv, TypeOK, RecOK
<1> QED
  BY <1>1, <1>2, TypeWorker, TypeManager, TypeEnvironment DEF Next

\* The types, with RecOK, are an invariant.
LEMMA TypeInvariant == Spec => []TypeInv
  BY TypeInit, TypeNext, PTL DEF Spec

\* Whatever the caches, the agents, CAPI and the users do, every object the
\* controller reads or writes keeps its type: the phase of a restore stays one that
\* the controller handles and a plan secret holds one of its plans.
THEOREM TypeCorrect == Spec => []TypeOK
<1>1. TypeInv => TypeOK
  BY DEF TypeInv
<1> QED
  BY <1>1, TypeInvariant, PTL

-----------------------------------------------------------------------------
(* The phase of a restore only advances.                                   *)

FirstPhase(p) == IF p = "" THEN "Started" ELSE p

\* A reconcile works in the phase of its copy of the restore until it returns;
\* what it returns with is that phase or the next one.
PhaseInv ==
  /\ rec.pc \in {"pause", "switch", "unpause", "loop", "get", "fill", "check"}
       => rec.phase = FirstPhase(rec.obj.phase)
  /\ rec.pc \in {"loop", "get", "fill", "check"} => rec.phase \in {"Started", "Shutdown", "Restore"}
  /\ rec.pc = "loop" => rec.phase # "Shutdown"
  /\ rec.pc = "unpause" => rec.phase = "Finished"
  /\ rec.pc = "status" => \/ rec.phase = FirstPhase(rec.obj.phase)
                          \/ <<rec.obj.phase, rec.phase>> \in PhaseSteps

\* What the environment leaves of a reconcile and of the restores.
LEMMA EnvironmentSteps ==
  ASSUME TypeInv, Environment
  PROVE  /\ restoreCache' = restoreCache \/ (restoreCache' = restore /\ restore' = restore)
         /\ paused' = paused
         /\ \A r \in Restores : restore'[r].phase = restore[r].phase
         /\ \/ rec' = rec
            \/ rec' = IdleRec
            \/ /\ rec.pc \in {"pause", "unpause", "get", "fill", "check"}
               /\ rec' = [rec EXCEPT !.pc = "status"]
<1> USE DEF TypeInv, TypeOK, RestoreObjects
<1>1. CASE \E r \in Restores, b \in Backups \cup {None} : CreateRestore(r, b)
  BY <1>1 DEF CreateRestore
<1>2. CASE \E r \in Restores, b \in Backups \cup {None} : EditRestore(r, b)
  BY <1>2 DEF EditRestore
<1>3. CASE \E r \in Restores : DeleteRestore(r)
  BY <1>3 DEF DeleteRestore
<1>4. CASE TouchCluster
  BY <1>4 DEF TouchCluster
<1>5. CASE \E m \in Machines : ScaleUp(m) \/ Bootstrap(m) \/ MachineReady(m) \/ AgentCrash(m)
  BY <1>5 DEF ScaleUp, Bootstrap, MachineReady, AgentCrash
<1>6. CASE CallFails
  BY <1>6 DEF CallFails, Return
<1>7. CASE StatusCallFails
  BY <1>7 DEF StatusCallFails
<1>8. CASE Crash
  BY <1>8 DEF Crash, NewProcess
<1> QED
  BY <1>1, <1>2, <1>3, <1>4, <1>5, <1>6, <1>7, <1>8 DEF Environment

\* Every step preserves PhaseInv: the steps of a reconcile one by one, the others by
\* what they leave of it.
LEMMA PhaseInvNext == TypeInv /\ PhaseInv /\ [Next]_vars => PhaseInv'
<1> SUFFICES ASSUME TypeInv, PhaseInv, [Next]_vars PROVE PhaseInv'
  OBVIOUS
<1> USE DEF PhaseInv
<1>0. rec \in Reconciles
  BY DEF TypeInv, TypeOK
<1>1. ASSUME UNCHANGED rec PROVE PhaseInv'
  BY <1>1
<1>2. ASSUME rec' = IdleRec PROVE PhaseInv'
  BY <1>2 DEF IdleRec
<1>3. ASSUME rec.pc \in {"pause", "switch", "unpause", "get", "fill", "check"},
             rec' = [rec EXCEPT !.pc = "status"]
      PROVE  PhaseInv'
  BY <1>0, <1>3 DEF Reconciles
<1>4. ASSUME NEW r \in Restores, Reconcile(r) PROVE PhaseInv'
  BY <1>4 DEF Reconcile, IdleRec, FirstPhase
<1>5. CASE PauseCluster
  BY <1>0, <1>3, <1>5 DEF PauseCluster, Return, Reconciles
<1>6. CASE UnpauseCluster
  BY <1>3, <1>6 DEF UnpauseCluster, Return
<1>7. CASE stopRKE2OnAllMachines
  BY <1>0, <1>7 DEF stopRKE2OnAllMachines, Reconciles
<1>8. CASE restoreSnaphotOnInitMachine
  BY <1>0, <1>3, <1>8 DEF restoreSnaphotOnInitMachine, Return, Reconciles
<1>9. CASE startRKE2OnAllMachines
  BY <1>0, <1>3, <1>9 DEF startRKE2OnAllMachines, Return, Reconciles
<1>10. CASE finishRestore
  BY <1>0, <1>10 DEF finishRestore, Reconciles
<1>11. ASSUME NEW m \in Machines, NextMachine(m) PROVE PhaseInv'
  BY <1>0, <1>11 DEF NextMachine, Reconciles
<1>12. CASE EndOfLoop
  BY <1>0, <1>12 DEF EndOfLoop, LoopEndsIn, Reconciles, FirstPhase, PhaseSteps
<1>13. CASE getPlanSecretForMachine
  BY <1>0, <1>13 DEF getPlanSecretForMachine, Reconciles
<1>14. CASE updatePlanSecretWithPlan
  BY <1>0, <1>3, <1>14 DEF updatePlanSecretWithPlan, Return, Reconciles
<1>15. CASE CheckMachine
  BY <1>0, <1>15 DEF CheckMachine, InMachineLoop, Reconciles
<1>16. CASE CheckInitMachine
  BY <1>0, <1>3, <1>16 DEF CheckInitMachine, Return, Reconciles, FirstPhase, PhaseSteps
<1>17. CASE PatchRestore
  BY <1>2, <1>17 DEF PatchRestore
<1>18. CASE Manager
  BY <1>1, <1>2, <1>18 DEF Manager, DeliverRestore, DeliverCluster, DeliverMachines,
                           RestartAfterPanic, NewProcess
<1>19. CASE Environment
  BY <1>1, <1>2, <1>3, <1>19, EnvironmentSteps
<1>20. ASSUME NEW m \in Machines, Agent(m) PROVE PhaseInv'
  BY <1>1, <1>20 DEF Agent
<1>21. CASE UNCHANGED vars
  BY <1>1, <1>21 DEF vars
<1> QED
  BY <1>4, <1>5, <1>6, <1>7, <1>8, <1>9, <1>10, <1>11, <1>12, <1>13, <1>14, <1>15, <1>16,
     <1>17, <1>18, <1>19, <1>20, <1>21 DEF Next, Worker

\* PhaseInv is an invariant.
LEMMA PhaseInvariant == Spec => [](TypeInv /\ PhaseInv)
<1>1. Init => PhaseInv
  <2>1. IdleRec.pc = "idle"
    BY DEF IdleRec
  <2>2. Init => rec = IdleRec
    BY DEF Init
  <2> QED
    BY <2>1, <2>2 DEF PhaseInv
<1> QED
  BY <1>1, TypeInvariant, PhaseInvNext, PTL DEF Spec

\* What a step does to the restores.
LEMMA RestoreSteps ==
  ASSUME TypeInv, [Next]_vars
  PROVE  \/ \A r \in Restores : restore'[r].phase = restore[r].phase
         \/ /\ PatchRestore
            /\ rec.obj = restore[rec.name]
<1>1. CASE Environment
  BY <1>1, EnvironmentSteps
<1>2. ASSUME NEW m \in Machines, Agent(m) PROVE UNCHANGED restore
  BY <1>2 DEF Agent
<1>3. CASE Manager
  BY <1>3 DEF Manager, DeliverRestore, DeliverCluster, DeliverMachines, RestartAfterPanic, NewProcess
<1>4. CASE Worker /\ ~PatchRestore
  BY <1>4 DEF Worker, Reconcile, PauseCluster, UnpauseCluster, stopRKE2OnAllMachines,
              restoreSnaphotOnInitMachine, startRKE2OnAllMachines, finishRestore, NextMachine,
              EndOfLoop, LoopEndsIn, getPlanSecretForMachine, updatePlanSecretWithPlan,
              CheckMachine, CheckInitMachine, WorkerOnly
<1>5. CASE PatchRestore
  BY <1>5 DEF PatchRestore
<1>6. CASE UNCHANGED vars
  BY <1>6 DEF vars
<1> QED
  BY <1>1, <1>2, <1>3, <1>4, <1>5, <1>6 DEF Next

\* For any number of restores, machines and faults, no conflict, stale copy, failed
\* call or restart moves the phase of a restore back or makes it skip one.
THEOREM PhaseOnlyAdvances == Spec => PhaseAdvances
<1> DEFINE Advances == \A r \in Restores : restore'[r].phase # restore[r].phase =>
                         <<restore[r].phase, restore'[r].phase>> \in PhaseSteps
<1>1. TypeInv /\ PhaseInv /\ [Next]_vars => Advances
  <2> SUFFICES ASSUME TypeInv, PhaseInv, [Next]_vars,
                      PatchRestore, rec.obj = restore[rec.name]
               PROVE  Advances
    BY RestoreSteps
  <2>1. rec.pc = "status" /\ restore' = [restore EXCEPT ![rec.name].phase = rec.phase]
    BY DEF PatchRestore
  <2>2. \A r \in Restores : r # rec.name => restore'[r].phase = restore[r].phase
    BY <2>1 DEF TypeInv, TypeOK
  <2>3. rec.name \in Restores /\ restore'[rec.name].phase = rec.phase
    BY <2>1 DEF TypeInv, TypeOK, RecOK, RestoreObjects
  <2>4. \/ rec.phase = FirstPhase(restore[rec.name].phase)
        \/ <<restore[rec.name].phase, rec.phase>> \in PhaseSteps
    BY <2>1 DEF PhaseInv
  <2> QED
    BY <2>2, <2>3, <2>4 DEF FirstPhase, PhaseSteps
<1> QED
  BY <1>1, PhaseInvariant, PTL DEF Spec, PhaseAdvances

-----------------------------------------------------------------------------
(* The cluster is paused while RKE2 is down.                               *)

\* With one restore for the cluster: a reconcile past PauseCluster has the cluster
\* paused; one that is about to record a phase with RKE2 down does too, unless its
\* copy is stale; and no copy of a restore is Finished before the restore is.
DownInv ==
  /\ PausedWhileDown
  /\ rec.pc \in {"switch", "loop", "get", "fill", "check"} => paused
  /\ /\ rec.pc = "status"
     /\ restore[rec.name].phase = rec.obj.phase
     /\ rec.phase \in {"Shutdown", "Restore"}
     => paused
  /\ \A r \in Restores : restoreCache[r].phase = "Finished" => restore[r].phase = "Finished"
  /\ rec.pc # "idle" /\ rec.obj.phase = "Finished" => restore[rec.name].phase = "Finished"

\* Every step preserves DownInv if the cluster has one restore: UnpauseCluster, which
\* only a reconcile of a finished restore reaches, then finds no other restore.
LEMMA DownInvNext ==
  ASSUME NEW r0, Restores = {r0}, TypeInv, PhaseInv, DownInv, [Next]_vars
  PROVE  DownInv'
<1> USE DEF DownInv, PausedWhileDown
<1>0. rec \in Reconciles /\ restore \in [Restores -> RestoreObjects]
  BY DEF TypeInv, TypeOK
<1> DEFINE Frame == UNCHANGED <<restore, restoreCache, paused>>
<1>1. ASSUME Frame, rec' = rec PROVE DownInv'
  BY <1>1
<1>2. ASSUME Frame, rec' = IdleRec PROVE DownInv'
  BY <1>2 DEF IdleRec
<1>3. ASSUME Frame, rec.pc \in {"pause", "switch", "unpause", "get", "fill", "check"},
             rec' = [rec EXCEPT !.pc = "status"]
      PROVE  DownInv'
  <2>1. rec.pc # "pause" => paused \/ rec.phase = "Finished"
    BY <1>3 DEF PhaseInv
  <2> QED
    BY <1>0, <1>3, <2>1 DEF Reconciles, PhaseInv, FirstPhase, TypeInv, RecOK
<1>4. ASSUME Frame, rec'.obj = rec.obj, rec'.name = rec.name, rec.pc # "idle", paused
      PROVE  DownInv'
  BY <1>4
<1>5. ASSUME NEW r \in Restores, Reconcile(r) PROVE DownInv'
  <2>1. /\ rec'.pc \in {"pause", "status"} /\ rec'.name = r /\ rec'.obj = restoreCache[r]
        /\ rec'.phase = FirstPhase(restoreCache[r].phase)
    BY <1>5 DEF Reconcile, IdleRec, FirstPhase
  <2>2. Frame
    BY <1>5 DEF Reconcile
  <2> QED
    BY <2>1, <2>2 DEF FirstPhase
<1>6. CASE PauseCluster
  <2>1. CASE PatchCluster(TRUE) /\ rec' = [rec EXCEPT !.pc = "switch"]
    BY <1>0, <1>6, <2>1 DEF PauseCluster, PatchCluster, Reconciles
  <2> QED
    BY <1>3, <1>6, <2>1 DEF PauseCluster, Return
<1>7. CASE UnpauseCluster
  <2>1. rec.pc = "unpause" /\ rec' = [rec EXCEPT !.pc = "status"] /\ UNCHANGED <<restore, restoreCache>>
    BY <1>7 DEF UnpauseCluster, Return
  <2>2. rec.phase = "Finished" /\ rec.obj.phase = "Finished" /\ rec.name \in Restores
    BY <2>1 DEF PhaseInv, FirstPhase, TypeInv, RecOK
  <2>3. \A r \in Restores : restore[r].phase = "Finished"
    BY <2>1, <2>2
  <2> QED
    BY <1>0, <2>1, <2>2, <2>3 DEF Reconciles
<1>8. CASE PatchRestore
  <2>1. rec.pc = "status" /\ rec'.pc = "idle" /\ UNCHANGED <<restoreCache, paused>>
    BY <1>8 DEF PatchRestore, IdleRec
  <2>2. CASE rec.obj = restore[rec.name]
    <3>1. rec.name \in Restores
      BY <2>1 DEF TypeInv, RecOK
    <3>2. \A r \in Restores : restore'[r].phase = rec.phase
      BY <1>0, <1>8, <2>2, <3>1 DEF PatchRestore, RestoreObjects
    <3>3. rec.obj.phase = "Finished" => rec.phase = "Finished"
      BY <2>1 DEF PhaseInv, FirstPhase, PhaseSteps
    <3> QED
      BY <2>1, <2>2, <3>1, <3>2, <3>3
  <2> QED
    BY <1>2, <1>8, <2>2 DEF PatchRestore
<1>9. CASE Worker /\ rec.pc \notin {"idle", "pause", "unpause", "status"}
  <2>1. Frame /\ rec'.obj = rec.obj /\ rec'.name = rec.name
    <3>1. CASE stopRKE2OnAllMachines \/ finishRestore \/ EndOfLoop \/ \E m \in Machines : NextMachine(m)
      BY <1>0, <3>1 DEF stopRKE2OnAllMachines, finishRestore, EndOfLoop, LoopEndsIn, NextMachine,
                        WorkerOnly, Reconciles
    <3>2. CASE restoreSnaphotOnInitMachine \/ startRKE2OnAllMachines
      BY <1>0, <3>2 DEF restoreSnaphotOnInitMachine, startRKE2OnAllMachines, Return, WorkerOnly,
                        Reconciles
    <3>3. CASE getPlanSecretForMachine \/ updatePlanSecretWithPlan
      BY <1>0, <3>3 DEF getPlanSecretForMachine, updatePlanSecretWithPlan, Return, WorkerOnly,
                        Reconciles
    <3>4. CASE CheckMachine \/ CheckInitMachine
      BY <1>0, <3>4 DEF CheckMachine, CheckInitMachine, Return, WorkerOnly, Reconciles
    <3> QED
      BY <1>9, <3>1, <3>2, <3>3, <3>4 DEF Worker, Reconcile, PauseCluster, UnpauseCluster, PatchRestore
  <2>2. rec.pc # "panic"
    BY <1>9 DEF Worker, Reconcile, PauseCluster, UnpauseCluster, stopRKE2OnAllMachines,
                restoreSnaphotOnInitMachine, startRKE2OnAllMachines, finishRestore, NextMachine,
                EndOfLoop, LoopEndsIn, getPlanSecretForMachine, updatePlanSecretWithPlan,
                CheckMachine, CheckInitMachine, PatchRestore
  <2>3. paused
    BY <1>0, <1>9, <2>2 DEF Reconciles
  <2> QED
    BY <1>4, <1>9, <2>1, <2>3
<1>10. CASE Worker
  BY <1>5, <1>6, <1>7, <1>8, <1>9, <1>10
     DEF Worker, stopRKE2OnAllMachines, restoreSnaphotOnInitMachine, startRKE2OnAllMachines,
         finishRestore, NextMachine, EndOfLoop, LoopEndsIn, getPlanSecretForMachine,
         updatePlanSecretWithPlan, CheckMachine, CheckInitMachine
<1>11. CASE Manager
  <2>1. ASSUME NEW r \in Restores, DeliverRestore(r) PROVE DownInv'
    BY <2>1 DEF DeliverRestore, TypeInv, TypeOK
  <2>2. CASE RestartAfterPanic
    BY <2>2 DEF RestartAfterPanic, NewProcess, IdleRec
  <2> QED
    BY <1>1, <1>11, <2>1, <2>2 DEF Manager, DeliverCluster, DeliverMachines
<1>12. CASE Environment
  <2>1. /\ restoreCache' = restoreCache \/ (restoreCache' = restore /\ restore' = restore)
        /\ paused' = paused
        /\ \A r \in Restores : restore'[r].phase = restore[r].phase
    BY <1>12, EnvironmentSteps
  <2>2. \A r \in Restores : restoreCache'[r].phase = "Finished" => restore'[r].phase = "Finished"
    BY <2>1
  <2>3. CASE rec' = rec
    BY <2>1, <2>2, <2>3 DEF TypeInv, RecOK
  <2>4. CASE rec' = IdleRec
    BY <2>1, <2>2, <2>4 DEF IdleRec
  <2>5. CASE /\ rec.pc \in {"pause", "unpause", "get", "fill", "check"}
             /\ rec' = [rec EXCEPT !.pc = "status"]
    <3>1. rec.pc # "pause" => paused \/ rec.phase = "Finished"
      BY <2>5 DEF PhaseInv
    <3>2. rec.name \in Restores
      BY <2>5 DEF TypeInv, RecOK
    <3>3. rec'.pc = "status" /\ rec'.obj = rec.obj /\ rec'.name = rec.name /\ rec'.phase = rec.phase
      BY <1>0, <2>5 DEF Reconciles
    <3> QED
      BY <2>1, <2>2, <2>5, <3>1, <3>2, <3>3, ZenonT(60) DEF PhaseInv, FirstPhase
  <2> QED
    BY <1>12, <2>3, <2>4, <2>5, EnvironmentSteps
<1>13. ASSUME NEW m \in Machines, Agent(m) PROVE DownInv'
  BY <1>1, <1>13 DEF Agent
<1>14. CASE UNCHANGED vars
  BY <1>1, <1>14 DEF vars
<1> QED
  BY <1>10, <1>11, <1>12, <1>13, <1>14 DEF Next

\* DownInv is an invariant of a cluster with one restore.
LEMMA DownInvariant ==
  ASSUME NEW CONSTANT r0, Restores = {r0}
  PROVE  Spec => []DownInv
<1>1. Init => DownInv
  <2>1. IdleRec.pc = "idle" /\ NoRestore.phase = ""
    BY DEF IdleRec, NoRestore
  <2>2. Init => /\ rec = IdleRec /\ restoreCache = restore
                /\ restore = [r \in Restores |-> NoRestore]
    BY DEF Init
  <2> QED
    BY <2>1, <2>2 DEF DownInv, PausedWhileDown
<1>2. TypeInv /\ PhaseInv /\ DownInv /\ [Next]_vars => DownInv'
  BY DownInvNext
<1> QED
  BY <1>1, <1>2, PhaseInvariant, PTL DEF Spec

\* A cluster with one ETCDSnapshotRestore is paused from the moment its RKE2 is down
\* until the restore is Finished: for any number of machines, backups and faults, with
\* stale caches, conflicts, failed calls, restarts and edits of the restore.
THEOREM OneRestorePausedWhileDown ==
  ASSUME NEW CONSTANT r0, Restores = {r0}
  PROVE  Spec => []PausedWhileDown
<1>1. DownInv => PausedWhileDown
  BY DEF DownInv
<1> QED
  BY <1>1, DownInvariant, PTL
=============================================================================
