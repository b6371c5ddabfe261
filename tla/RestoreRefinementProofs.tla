------------------------ MODULE RestoreRefinementProofs ------------------------
(***************************************************************************)
(* The restore controller implements RestoreProtocol, for a cluster with   *)
(* one restore that nobody edits, whose machines stay the same and include *)
(* the machine of every backup.                                            *)
(***************************************************************************)
EXTENDS RestoreSafetyProofs

\* The machines that the backups were taken on are still there.
BackupsOfMachines == \A b \in Backups : BackupMachine[b] \in InitialMachines

\* The variables of RestoreProtocol that are not variables of the controller.
Phase == restore[TheRestore].phase

Up == {m \in InitialMachines : node[m].rke2}

Reset == Target # None /\ node[Target].lineage = Target

-----------------------------------------------------------------------------
(* The steps of the protocol in terms of the mapping.                      *)

\* Steps that change one of the mapped variables as RestoreProtocol has it.
LEMMA ProtocolSteps ==
  /\ UNCHANGED <<Target, Phase, paused, Up, Reset>> => UNCHANGED Protocol!vars
  /\ /\ Target = None /\ Target' \in InitialMachines /\ UNCHANGED <<Phase, paused, Up, Reset>>
     => Protocol!Next
  /\ Target # None /\ paused' = TRUE /\ UNCHANGED <<Target, Phase, Up, Reset>> => Protocol!Next
  /\ /\ Phase = "Finished" /\ Up = InitialMachines /\ paused' = FALSE
     /\ UNCHANGED <<Target, Phase, Up, Reset>>
     => Protocol!Next
  /\ Phase = "" /\ Phase' = "Started" /\ UNCHANGED <<Target, paused, Up, Reset>> => Protocol!Next
  /\ /\ Phase \in {"", "Started"} /\ paused /\ Up = {} /\ Phase' = "Shutdown"
     /\ UNCHANGED <<Target, paused, Up, Reset>>
     => Protocol!Next
  /\ /\ Phase = "Shutdown" /\ paused /\ Up = {} /\ Reset /\ Phase' = "Restore"
     /\ UNCHANGED <<Target, paused, Up, Reset>>
     => Protocol!Next
  /\ /\ Phase = "Restore" /\ paused /\ Up = InitialMachines /\ Phase' = "Finished"
     /\ UNCHANGED <<Target, paused, Up, Reset>>
     => Protocol!Next
  /\ \A m \in InitialMachines :
       /\ Phase \in {"", "Started"} /\ paused /\ Up' = Up \ {m}
       /\ UNCHANGED <<Target, Phase, paused, Reset>>
       => Protocol!Next
  /\ /\ Phase = "Shutdown" /\ paused /\ Up = {} /\ Reset' = TRUE
     /\ UNCHANGED <<Target, Phase, paused, Up>>
     => Protocol!Next
  /\ \A m \in InitialMachines :
       /\ Phase = "Restore" /\ paused /\ Reset /\ (m = Target \/ Target \in Up) /\ Up' = Up \cup {m}
       /\ UNCHANGED <<Target, Phase, paused, Reset>>
       => Protocol!Next
  BY Zenon DEF Phase, Up, Reset, Protocol!vars, Protocol!Next, Protocol!Request, Protocol!Pause,
     Protocol!Begin, Protocol!Stop, Protocol!AllStopped, Protocol!Reset, Protocol!Restored,
     Protocol!Start, Protocol!AllStarted, Protocol!Unpause

\* A step of RestoreProtocol, or none.
ProtocolStep == Protocol!Next \/ UNCHANGED Protocol!vars

\* What the phase of the restore is by its rank.
LEMMA PhaseByRank ==
  ASSUME Undisturbed, TypeInv
  PROVE  /\ Rank(Phase) \in {1, 2, 3, 4}
         /\ Rank(Phase) = 1 => Phase \in {"", "Started"}
         /\ Rank(Phase) = 2 => Phase = "Shutdown"
         /\ Rank(Phase) = 3 => Phase = "Restore"
         /\ Rank(Phase) = 4 => Phase = "Finished"
<1>1. Phase \in Phases
  BY TheOne DEF Phase, TypeInv, TypeOK, RestoreObjects
<1>2. Phase \in {"", "Started"} \/ Phase \in {"Shutdown", "Restore", "Finished"}
  BY <1>1, Zenon DEF Phases
<1>3. Phase \in {"Shutdown", "Restore", "Finished"} => Rank(Phase) # 1
  BY PhaseRanks
<1>4. Rank(Phase) \in {1, 2, 3, 4}
  BY PhaseRanks
<1>5. /\ Rank(Phase) = 2 => Phase = "Shutdown"
      /\ Rank(Phase) = 3 => Phase = "Restore"
      /\ Rank(Phase) = 4 => Phase = "Finished"
  BY DEF Rank
<1> QED
  BY <1>2, <1>3, <1>4, <1>5, Zenon

\* The plans that are out are of the phase of the restore or of an earlier one.
LEMMA StageByRank ==
  ASSUME Undisturbed, PlanInv, NEW m \in Machines
  PROVE  Stage(secret[m].plan) <= Rank(Phase)
<1>1. /\ Stage(secret[m].plan) \in 0..3 /\ Rank(Phase) \in {1, 2, 3, 4}
      /\ Rank(restoreCache[TheRestore].phase) \in {1, 2, 3, 4}
  BY PlanStages, PhaseRanks
<1> QED
  BY <1>1, TheOne DEF PlanInv, Phase

\* While the restore stops the machines, a machine that has stopped stays down until the
\* reset; the machine of the backup has its new data when the reset is applied.
LEMMA DownAndReset ==
  ASSUME Undisturbed, TypeInv, PlanInv, RunningInv, SafetyInv
  PROVE  /\ Reaches(2) /\ Rank(Phase) <= 2 => Up = {}
         /\ Reaches(3) => Target \in InitialMachines /\ Reset
<1>0. Rank(Phase) \in {1, 2, 3, 4} /\ InitialMachines \subseteq Machines
  BY PhaseByRank, Names
<1>1. ASSUME Reaches(2), Rank(Phase) <= 2, NEW m \in InitialMachines PROVE ~node[m].rke2
  <2>1. m \in Machines /\ Stage(secret[m].plan) <= 2 /\ NodeInv(m) /\ Stage(secret[m].plan) \in 0..3
    BY <1>0, <1>1, StageByRank, PlanStages DEF SafetyInv, MachineInv
  <2> QED
    BY <1>1, <2>1, AllHaveStopped DEF NodeInv
<1>2. ASSUME Reaches(3) PROVE Target \in InitialMachines /\ Reset
  <2>1. Target \in InitialMachines /\ AppliedStage(Target) >= 2 /\ Target \in Machines
    BY <1>0, <1>2 DEF SafetyInv, OrderInv
  <2>2. Target # None
    BY <2>1, Names
  <2>3. /\ AppliedStage(Target) \in 0..3 /\ Stage(secret[Target].plan) \in 0..3
        /\ AppliedStage(Target) <= Stage(secret[Target].plan) /\ HandInv(Target) /\ NodeInv(Target)
    BY <2>1, PlanStages DEF AppliedStage, RunningInv, AgentInv, AgentOK, SafetyInv, MachineInv
  <2>4. Stage(secret[Target].plan) \in {2, 3} /\ secret[Target].plan # NoPlan
    BY <2>1, <2>3, PlanStages
  <2>5. Backup \in Backups
    BY <2>3, <2>4 DEF HandInv
  <2>6. Stage(secret[Target].plan) = 2 => Applied(Target)
    <3>1. ASSUME Stage(secret[Target].plan) = 2
          PROVE  Stage(secret[Target].applied.sha256) = Stage(secret[Target].plan)
      BY <2>1, <2>3, <3>1 DEF AppliedStage
    <3>2. secret[Target].plan \in PlansOf(Target) /\ secret[Target].applied.sha256 \in PlansOf(Target)
      BY <2>3 DEF HandInv
    <3> QED
      BY <2>1, <2>5, <3>1, <3>2, PlansByStage DEF Applied
  <2>7. node[Target].lineage = Target
    BY <2>3, <2>4, <2>6 DEF NodeInv
  <2> QED
    BY <2>1, <2>2, <2>7 DEF Reset
<1> QED
  BY <1>1, <1>2 DEF Up

-----------------------------------------------------------------------------
(* The steps of the agents.                                                *)

\* A machine that runs a script is one of the cluster, and it is not the target if the
\* script removes etcd data; what a script leaves of RKE2 and the data.
LEMMA AgentEffect ==
  ASSUME Undisturbed, TypeInv, RunningInv, SafetyInv, NEW m \in Machines,
         AgentStep(m) \/ AgentRestart(m), UNCHANGED restore
  PROVE  \/ UNCHANGED <<Up, Reset>>
         \/ /\ AtScript(m, "killall") /\ node[m].rke2 /\ m \in InitialMachines
            /\ Up' = Up \ {m} /\ UNCHANGED Reset
         \/ /\ AtScript(m, "cluster-reset") /\ m \in InitialMachines
            /\ Reset' = TRUE /\ UNCHANGED Up
         \/ /\ AtScript(m, "start-rke2") /\ ~node[m].rke2 /\ m \in InitialMachines
            /\ Up' = Up \cup {m} /\ UNCHANGED Reset
<1>0. /\ agent \in [Machines -> [plan : Plans, next : Nat \ {0}]] /\ node[m] \in Nodes
      /\ secret \in [Machines -> PlanSecrets] /\ node \in [Machines -> Nodes]
      /\ HandInv(m) /\ NodeInv(m) /\ InitialMachines \subseteq Machines
  BY Names DEF TypeInv, TypeOK, SafetyInv, MachineInv
<1>1. UNCHANGED <<Target, Backup>>
  BY DEF Target, Backup
<1>2. ASSUME UNCHANGED node PROVE UNCHANGED <<Up, Reset>>
  BY <1>1, <1>2 DEF Up, Reset
<1>3. ASSUME NEW op, NEW n, Runs(m, op, n)
      PROVE  /\ AtScript(m, op) /\ m \in InitialMachines /\ node'[m] = n
             /\ Backup \in Backups /\ Target \in Machines
             /\ \A x \in Machines \ {m} : node'[x] = node[x]
  <2>1. AtScript(m, op) /\ node'[m] = n /\ \A x \in Machines \ {m} : node'[x] = node[x]
    BY <1>0, <1>3 DEF Runs
  <2>2. m \in InitialMachines /\ Backup \in Backups
    BY <1>0, <2>1, AgentAt
  <2> QED
    BY <2>1, <2>2, TheOne
<1>4. ASSUME NEW op, NEW n, Runs(m, op, n), n.rke2 = node[m].rke2 PROVE UNCHANGED Up
  BY <1>0, <1>3, <1>4 DEF Up
<1>5. ASSUME NEW op, NEW n, Runs(m, op, n), n.lineage = node[m].lineage \/ m # Target PROVE UNCHANGED Reset
  BY <1>1, <1>3, <1>5 DEF Reset
<1>6. CASE AgentFetch(m) \/ ScriptFails(m) \/ AgentReport(m) \/ AgentRestart(m)
  BY <1>2, <1>6 DEF AgentFetch, ScriptFails, AgentReport, AgentRestart
<1>7. CASE KillAll(m)
  <2> DEFINE n == [node[m] EXCEPT !.rke2 = FALSE]
  <2>1. Runs(m, "killall", n) /\ ~n.rke2 /\ n.lineage = node[m].lineage
    BY <1>0, <1>7 DEF KillAll, Nodes
  <2> HIDE DEF n
  <2>2. UNCHANGED Reset /\ Up' = Up \ {m}
    BY <1>0, <1>3, <1>5, <2>1 DEF Up
  <2>3. ~node[m].rke2 => UNCHANGED Up
    BY <2>2 DEF Up
  <2> QED
    BY <1>3, <2>1, <2>2, <2>3
<1>8. CASE RemoveServerUrl(m) \/ AddServerUrl(m) \/ RemoveManifests(m)
  <2>1. \E op, n : Runs(m, op, n) /\ n.rke2 = node[m].rke2 /\ n.lineage = node[m].lineage
    BY <1>0, <1>8 DEF RemoveServerUrl, AddServerUrl, RemoveManifests, Nodes
  <2> QED
    BY <1>4, <1>5, <2>1
<1>9. CASE RemoveEtcdData(m)
  <2> DEFINE n == [node[m] EXCEPT !.lineage = NoData, !.snapshot = {}]
  <2>1. Runs(m, "remove-etcd-data", n) /\ n.rke2 = node[m].rke2
    BY <1>0, <1>9 DEF RemoveEtcdData, Nodes
  <2> HIDE DEF n
  <2>2. m # Target
    BY <1>0, <1>3, <2>1, AgentAt
  <2> QED
    BY <1>4, <1>5, <2>1, <2>2
<1>10. CASE ClusterReset(m)
  <2>1. PICK s : Runs(m, "cluster-reset", [node[m] EXCEPT !.lineage = m, !.snapshot = s])
    BY <1>10 DEF ClusterReset
  <2> DEFINE n == [node[m] EXCEPT !.lineage = m, !.snapshot = s]
  <2>2. Runs(m, "cluster-reset", n) /\ n.rke2 = node[m].rke2 /\ n.lineage = m
    BY <1>0, <2>1 DEF Nodes
  <2> HIDE DEF n
  <2>3. m = Target /\ Target # None
    BY <1>0, <1>3, <2>2, AgentAt, Names
  <2>4. Reset' = TRUE
    BY <1>1, <1>3, <2>2, <2>3 DEF Reset
  <2> QED
    BY <1>3, <1>4, <2>2, <2>4
<1>11. CASE StartRKE2(m)
  <2>1. PICK n : Runs(m, "start-rke2", n) /\ n.rke2
    <3>1. /\ [node[m] EXCEPT !.rke2 = TRUE].rke2
          /\ \A l, s : [node[m] EXCEPT !.rke2 = TRUE, !.lineage = l, !.snapshot = s].rke2
      BY <1>0 DEF Nodes
    <3> QED
      BY <1>11, <3>1, Zenon DEF StartRKE2
  <2>2. AtScript(m, "start-rke2") /\ m \in InitialMachines /\ Up' = Up \cup {m}
    BY <1>0, <1>3, <2>1 DEF Up
  <2>3. node[m].rke2 => UNCHANGED Up
    BY <2>2 DEF Up
  <2>4. UNCHANGED Reset
    <3>1. CASE m # Target
      BY <1>5, <2>1, <3>1
    <3>2. CASE m = Target
      <4>1. node[m].lineage = Target /\ Target # NoData
        BY <1>0, <2>2, <3>2, AgentAt, MachineNames DEF NodeInv
      <4>2. Runs(m, "start-rke2", [node[m] EXCEPT !.rke2 = TRUE])
        BY <1>11, <4>1 DEF StartRKE2
      <4>3. [node[m] EXCEPT !.rke2 = TRUE].lineage = node[m].lineage
        BY <1>0 DEF Nodes
      <4> QED
        BY <1>5, <4>2, <4>3
    <3> QED
      BY <3>1, <3>2
  <2> QED
    BY <2>2, <2>3, <2>4
<1> QED
  BY <1>6, <1>7, <1>8, <1>9, <1>10, <1>11 DEF AgentStep

\* What an agent does is a step of the protocol: RKE2 is stopped only before the phase
\* Shutdown is recorded, etcd is reset while all are down, and a machine is started while
\* the phase is Restore, the machine of the backup first.
LEMMA AgentImplements ==
  ASSUME Undisturbed, TypeInv, PhaseInv, PlanInv, DownInv, RunningInv, SafetyInv, NEW m \in Machines,
         AgentStep(m) \/ AgentRestart(m), UNCHANGED <<restore, paused>>
  PROVE  ProtocolStep
<1>0. UNCHANGED <<Target, Phase, paused>> /\ InitialMachines \subseteq Machines
  BY Names DEF Target, Phase
<1>1. /\ HandInv(m) /\ NodeInv(m) /\ Stage(secret[m].plan) \in 0..3 /\ AppliedStage(m) \in 0..3
      /\ Stage(secret[m].plan) <= Rank(Phase) /\ Rank(Phase) \in {1, 2, 3, 4}
      /\ AppliedStage(m) <= Stage(secret[m].plan)
  BY StageByRank, PhaseByRank, PlanStages
     DEF SafetyInv, MachineInv, AppliedStage, RunningInv, AgentInv, AgentOK
<1>2. Phase \in {"Shutdown", "Restore"} => paused
  BY TheOne DEF DownInv, PausedWhileDown, Phase
<1>3. \A k \in {2, 3, 4} : Rank(Phase) >= k => Reaches(k)
  BY DEF Reaches, Phase
<1>4. CASE UNCHANGED <<Up, Reset>>
  BY <1>0, <1>4, ProtocolSteps, Zenon DEF ProtocolStep
<1>5. CASE /\ AtScript(m, "killall") /\ node[m].rke2 /\ m \in InitialMachines
           /\ Up' = Up \ {m} /\ UNCHANGED Reset
  <2>1. Stage(secret[m].plan) = 1 /\ secret[m].plan # NoPlan
    BY <1>1, <1>5, AgentAt, PlanStages
  <2>2. ~Reaches(2)
    BY <1>5, <2>1, AllHaveStopped
  <2>3. Rank(Phase) = 1
    BY <1>1, <1>3, <2>2
  <2>4. Phase \in {"", "Started"} /\ Phase # "Finished"
    <3>1. Phase # "Finished"
      BY <2>3, PhaseRanks
    <3> QED
      BY <2>3, <3>1, PhaseByRank, Zenon
  <2>5. paused
    BY <2>1, <2>4, TheOne, Zenon DEF RunningInv, HeldInv, Phase
  <2> QED
    BY <1>0, <1>5, <2>4, <2>5, ProtocolSteps, Zenon DEF ProtocolStep
<1>6. CASE AtScript(m, "cluster-reset") /\ m \in InitialMachines /\ Reset' = TRUE /\ UNCHANGED Up
  <2>1. Stage(secret[m].plan) = 2 /\ m = Target /\ ~Applied(m) /\ Backup \in Backups
    BY <1>1, <1>6, AgentAt
  <2>2. Rank(Phase) = 2
    <3>1. ASSUME Rank(Phase) >= 3 PROVE FALSE
      <4>1. AppliedStage(m) >= 2
        BY <1>3, <2>1, <3>1 DEF SafetyInv, OrderInv
      <4>2. Stage(secret[m].applied.sha256) = Stage(secret[m].plan)
        BY <1>1, <2>1, <4>1 DEF AppliedStage
      <4>3. secret[m].plan \in PlansOf(m) /\ secret[m].applied.sha256 \in PlansOf(m)
        BY <1>1 DEF HandInv
      <4> QED
        BY <2>1, <4>2, <4>3, PlansByStage DEF Applied
    <3> QED
      BY <1>1, <2>1, <3>1
  <2>3. Phase = "Shutdown" /\ paused
    BY <1>2, <2>2, PhaseByRank
  <2>4. Up = {}
    BY <1>0, <1>6, ResetNeedsQuiet DEF QuietReset, Up
  <2> QED
    BY <1>0, <1>6, <2>3, <2>4, ProtocolSteps, Zenon DEF ProtocolStep
<1>7. CASE /\ AtScript(m, "start-rke2") /\ ~node[m].rke2 /\ m \in InitialMachines
           /\ Up' = Up \cup {m} /\ UNCHANGED Reset
  <2>1. Stage(secret[m].plan) = 3
    BY <1>1, <1>7, AgentAt
  <2>2. Rank(Phase) = 3
    <3>1. ASSUME Rank(Phase) = 4 PROVE FALSE
      <4>1. AppliedStage(m) = 3
        BY <1>3, <1>7, <3>1 DEF SafetyInv, OrderInv
      <4> QED
        BY <1>7, <4>1 DEF RunningInv, AgentInv, AgentOK
    <3> QED
      BY <1>1, <2>1, <3>1
  <2>3. Phase = "Restore" /\ paused
    BY <1>2, <2>2, PhaseByRank
  <2>4. Reset /\ Target \in InitialMachines
    BY <1>3, <2>2, DownAndReset
  <2>5. m = Target \/ Target \in Up
    <3>1. m # Target => AppliedStage(Target) = 3
      BY <2>1 DEF SafetyInv, OrderInv
    <3> QED
      BY <1>0, <2>4, <3>1 DEF RunningInv, AgentInv, AgentOK, Up
  <2> QED
    BY <1>0, <1>7, <2>3, <2>4, <2>5, ProtocolSteps, Zenon DEF ProtocolStep
<1> QED
  BY <1>4, <1>5, <1>6, <1>7, AgentEffect

-----------------------------------------------------------------------------
(* The steps of the controller.                                            *)

\* Recording a phase is a step of the protocol: what the phase says has been done.
LEMMA PatchImplements ==
  ASSUME Undisturbed, TypeInv, PhaseInv, PlanInv, DownInv, RunningInv, SafetyInv,
         PatchRestore, rec.obj = restore[rec.name]
  PROVE  ProtocolStep
<1>0. /\ rec.pc = "status" /\ UNCHANGED <<paused, agentVars>> /\ rec.name = TheRestore
      /\ rec.obj.phase = Phase /\ Phase' = rec.phase /\ UNCHANGED Backup
      /\ InitialMachines \subseteq Machines
  <2>1. rec.name = TheRestore
    BY TheOne DEF PatchRestore, TypeInv, RecOK
  <2>2. Phase' = rec.phase /\ UNCHANGED Backup
    BY <2>1, TheOne DEF PatchRestore, Phase, Backup, TypeInv, TypeOK, RestoreObjects
  <2> QED
    BY <2>1, <2>2, Names DEF PatchRestore, Phase
<1>1. UNCHANGED <<Target, Up, Reset, paused>>
  <2>1. UNCHANGED <<Target, node>>
    BY <1>0 DEF Target, Backup, agentVars
  <2> QED
    BY <1>0, <2>1 DEF Up, Reset
<1>2. CASE Phase' = Phase
  BY <1>1, <1>2, ProtocolSteps, Zenon DEF ProtocolStep
<1>3. CASE Phase = "" /\ rec.phase = "Started"
  BY <1>0, <1>1, <1>3, ProtocolSteps, Zenon DEF ProtocolStep
<1>4. CASE Phase \in {"", "Started"} /\ rec.phase = "Shutdown"
  <2>1. paused
    BY <1>0, <1>4, Zenon DEF DownInv, Phase
  <2>2. Rank(Phase) = 1
    <3>1. Rank("") = 1 /\ Rank("Started") = 1
      BY Zenon DEF Rank
    <3> QED
      BY <1>4, <3>1, Zenon
  <2>3. Rank(rec.phase) = 2
    BY <1>4, PhaseRanks, Zenon
  <2>4. Reaches(2)
    BY <1>0, <2>3 DEF Reaches
  <2>5. Up = {}
    BY <2>2, <2>4, DownAndReset
  <2> QED
    BY <1>0, <1>1, <1>4, <2>1, <2>5, ProtocolSteps, Zenon DEF ProtocolStep
<1>5. CASE Phase = "Shutdown" /\ rec.phase = "Restore"
  <2>1. paused
    BY <1>5, TheOne DEF DownInv, PausedWhileDown, Phase
  <2>2. Rank(Phase) = 2 /\ Rank(rec.phase) = 3
    BY <1>5, PhaseRanks
  <2>3. Reaches(2) /\ Reaches(3)
    BY <1>0, <2>2 DEF Reaches
  <2>4. Up = {} /\ Reset
    BY <2>2, <2>3, DownAndReset
  <2> QED
    BY <1>0, <1>1, <1>5, <2>1, <2>4, ProtocolSteps, Zenon DEF ProtocolStep
<1>6. CASE Phase = "Restore" /\ rec.phase = "Finished"
  <2>1. paused
    BY <1>6, TheOne DEF DownInv, PausedWhileDown, Phase
  <2>2. Ending
    BY <1>0, <1>6 DEF Ending
  <2>3. Up = InitialMachines
    BY <1>0, <2>2 DEF RunningInv, UpInv, StaysUp, SafetyInv, CopyInv, Up
  <2> QED
    BY <1>0, <1>1, <1>6, <2>1, <2>3, ProtocolSteps, Zenon DEF ProtocolStep
<1>7. \/ rec.phase = Phase
      \/ Phase = "" /\ rec.phase = "Started"
      \/ Phase \in {"", "Started"} /\ rec.phase = "Shutdown"
      \/ Phase = "Shutdown" /\ rec.phase = "Restore"
      \/ Phase = "Restore" /\ rec.phase = "Finished"
  <2>1. rec.phase = FirstPhase(rec.obj.phase) \/ <<rec.obj.phase, rec.phase>> \in PhaseSteps
    BY <1>0 DEF PhaseInv
  <2> QED
    BY <1>0, <2>1, Zenon DEF FirstPhase, PhaseSteps
<1> QED
  BY <1>0, <1>2, <1>3, <1>4, <1>5, <1>6, <1>7, Zenon

\* Pausing and unpausing are steps of the protocol: only a finished restore unpauses.
LEMMA PauseImplements ==
  ASSUME Undisturbed, TypeInv, PhaseInv, PlanInv, DownInv, RunningInv, SafetyInv,
         (PauseCluster /\ paused') \/ UnpauseCluster
  PROVE  ProtocolStep
<1>0. /\ UNCHANGED <<restore, agentVars>> /\ InitialMachines \subseteq Machines
      /\ rec.pc \in {"pause", "unpause"}
  BY Names DEF PauseCluster, UnpauseCluster
<1>1. UNCHANGED <<Target, Phase, Up, Reset>>
  <2>1. UNCHANGED <<Target, Phase, node>>
    BY <1>0 DEF Target, Phase, agentVars
  <2> QED
    BY <2>1 DEF Up, Reset
<1>2. CASE PauseCluster /\ paused'
  <2>1. Target # None
    BY <1>0, TheOne, Names DEF SafetyInv, CopyInv, TypeInv, RecOK
  <2>2. paused' = TRUE \/ paused' = paused
    BY <1>2 DEF PauseCluster, PatchCluster
  <2> QED
    BY <1>1, <2>1, <2>2, ProtocolSteps, Zenon DEF ProtocolStep
<1>3. CASE UnpauseCluster
  <2>1. rec.pc = "unpause" /\ rec.phase = "Finished" /\ rec.phase = FirstPhase(rec.obj.phase)
    BY <1>3 DEF UnpauseCluster, PhaseInv
  <2>2. Rank(rec.obj.phase) = 4
    BY <2>1, PhaseRanks
  <2>3. rec.obj.phase = "Finished"
    BY <2>2 DEF Rank
  <2>4. Phase = "Finished"
    BY <2>1, <2>3, TheOne DEF DownInv, TypeInv, RecOK, Phase
  <2>5. Ending
    BY <2>1 DEF Ending
  <2>6. Up = InitialMachines
    BY <1>0, <2>5 DEF RunningInv, UpInv, StaysUp, SafetyInv, CopyInv, Up
  <2>7. paused' = FALSE \/ paused' = paused
    BY <1>3 DEF UnpauseCluster, PatchCluster
  <2> QED
    BY <1>1, <2>4, <2>6, <2>7, ProtocolSteps, Zenon DEF ProtocolStep
<1> QED
  BY <1>2, <1>3

\* Before the restore is created it names no backup.
UnnamedInv == restore[TheRestore].gen = 0 => Backup = None

\* Every step keeps UnnamedInv.
LEMMA UnnamedInvNext ==
  ASSUME Undisturbed, TypeInv, UnnamedInv, [Next]_vars
  PROVE  UnnamedInv'
  BY BackupSteps DEF UnnamedInv

\* The creation of the restore is the request of the protocol: nothing has been reset yet.
LEMMA CreateImplements ==
  ASSUME Undisturbed, BackupsOfMachines, TypeInv, TypeInv', SafetyInv, UnnamedInv, [Next]_vars,
         restore[TheRestore].gen = 0, restore'[TheRestore].gen = 1,
         UNCHANGED <<rec, agentVars>>, restore'[TheRestore].phase = restore[TheRestore].phase
  PROVE  ProtocolStep
<1>0. InitialMachines \subseteq Machines /\ None \notin Machines
  BY Names
<1>1. Target = None /\ Backup = None
  BY DEF UnnamedInv, Target, Backup
<1>2. UNCHANGED <<node, Phase>> /\ \A m \in Machines : secret[m].plan = NoPlan
  BY DEF agentVars, Phase, SafetyInv, MachineInv, HandInv
<1>3. \A m \in Machines : node[m].lineage \in {Original, NoData}
  BY <1>2, PlanStages DEF SafetyInv, MachineInv, NodeInv
<1>4. Backup' \in Backups \cup {None}
  BY TheOne DEF TypeInv, TypeOK, RestoreObjects, Backup
<1>5. Target' = None \/ Target' \in InitialMachines
  BY <1>4, Names DEF Target, Backup, BackupsOfMachines
<1>6. Target' # None => node'[Target'].lineage # Target'
  <2>1. \A m \in Machines : node'[m].lineage # m
    BY <1>2, <1>3, MachineNames
  <2> QED
    BY <1>0, <1>5, <2>1
<1>7. UNCHANGED <<Up, Reset>>
  BY <1>1, <1>2, <1>6 DEF Up, Reset
<1>8. UNCHANGED paused
  <2>1. PauseCluster \/ UnpauseCluster => restore' = restore
    BY DEF PauseCluster, UnpauseCluster
  <2>2. restore' # restore
    OBVIOUS
  <2> QED
    BY <2>1, <2>2, PausedSteps
<1> QED
  BY <1>1, <1>2, <1>5, <1>7, <1>8, ProtocolSteps, Zenon DEF ProtocolStep

\* Every step of the controller and its environment is a step of the protocol, or none.
LEMMA StepImplements ==
  ASSUME Undisturbed, BackupsOfMachines, TypeInv, TypeInv', PhaseInv, PlanInv, DownInv, RunningInv,
         SafetyInv, UnnamedInv, [Next]_vars
  PROVE  ProtocolStep
<1>0. InitialMachines \subseteq Machines
  BY Names
<1>1. CASE /\ restore[TheRestore].gen = 0 /\ restore'[TheRestore].gen = 1
           /\ UNCHANGED <<restoreCache, rec, machine, machineCache, agentVars>>
           /\ restore'[TheRestore].phase = restore[TheRestore].phase
  BY <1>1, CreateImplements
<1>2. CASE (PauseCluster /\ paused') \/ UnpauseCluster
  BY <1>2, PauseImplements
<1>3. CASE PatchRestore /\ rec.obj = restore[rec.name]
  BY <1>3, PatchImplements
<1>4. CASE \E m \in Machines : (AgentStep(m) \/ AgentRestart(m)) /\ UNCHANGED <<restore, paused>>
  BY <1>4, AgentImplements
<1>5. CASE UNCHANGED <<Backup, Phase, paused, node>>
  <2>1. UNCHANGED Target
    BY <1>5 DEF Target, Backup
  <2>2. UNCHANGED <<Up, Reset>>
    BY <1>5, <2>1 DEF Up, Reset
  <2> QED
    BY <1>5, <2>1, <2>2, ProtocolSteps, Zenon DEF ProtocolStep
<1>6. ASSUME NEW m \in Machines, Bootstrap(m) PROVE FALSE
  BY <1>6 DEF Bootstrap, SafetyInv, CopyInv
<1>7. \/ UNCHANGED node
      \/ \E m \in Machines : (AgentStep(m) \/ AgentRestart(m)) /\ UNCHANGED <<restore, paused>>
  BY <1>6, MachineSteps DEF agentVars
<1>8. UNCHANGED Phase \/ (PatchRestore /\ rec.obj = restore[rec.name])
  BY TheOne, RestoreSteps DEF Phase
<1>9. UNCHANGED paused \/ (PauseCluster /\ paused') \/ UnpauseCluster
  BY PausedSteps
<1>10. \/ UNCHANGED Backup
       \/ /\ restore[TheRestore].gen = 0 /\ restore'[TheRestore].gen = 1
          /\ UNCHANGED <<restoreCache, rec, machine, machineCache, agentVars>>
          /\ restore'[TheRestore].phase = restore[TheRestore].phase
  BY BackupSteps
<1> QED
  BY <1>1, <1>2, <1>3, <1>4, <1>5, <1>7, <1>8, <1>9, <1>10

\* The controller with its caches, conflicts, failed calls, crashes and agents that restart
\* implements the restore as promised: stop all, reset one, start it, let the others join,
\* unpause.  No step leaves out, repeats or anticipates a part of it.
THEOREM RestoreImplementsProtocol ==
  ASSUME Undisturbed, BackupsOfMachines
  PROVE  Spec => ImplementsProtocol
<1>1. Init => UnnamedInv
  <2>1. Init => restore[TheRestore] = NoRestore
    BY TheOne DEF Init
  <2>2. NoRestore.backup = None
    BY Zenon DEF NoRestore
  <2> QED
    BY <2>1, <2>2 DEF UnnamedInv, Backup
<1>2. TypeInv /\ UnnamedInv /\ [Next]_vars => UnnamedInv'
  BY UnnamedInvNext
<1>3. Init => Protocol!Init
  <2> SUFFICES ASSUME Init PROVE Protocol!Init
    OBVIOUS
  <2>1. restore[TheRestore] = NoRestore /\ ~paused
    BY TheOne DEF Init
  <2>2. NoRestore.backup = None /\ NoRestore.phase = ""
    BY Zenon DEF NoRestore
  <2>3. Target = None
    BY <2>1, <2>2 DEF Target
  <2>4. {m \in InitialMachines : node[m].rke2} = InitialMachines
    BY Names DEF Init
  <2>5. paused = FALSE
    BY DEF Init
  <2> QED
    BY <2>1, <2>2, <2>3, <2>4, <2>5, Zenon DEF Protocol!Init
<1>4. /\ TypeInv /\ TypeInv' /\ PhaseInv /\ PlanInv /\ DownInv /\ RunningInv /\ SafetyInv /\ UnnamedInv
      /\ [Next]_vars
      => [Protocol!Next]_(Protocol!vars)
  BY StepImplements DEF ProtocolStep
<1> QED
  BY <1>1, <1>2, <1>3, <1>4, SafetyInvariant, PTL DEF Spec, ImplementsProtocol, Protocol!Spec
================================================================================
