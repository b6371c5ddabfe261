--------------------------- MODULE RestoreProtocol ---------------------------
(***************************************************************************)
(* What a restore promises, without reconciles, caches, plans and agents:  *)
(* the machines of a cluster are stopped one by one while CAPI is paused,  *)
(* etcd is reset on one machine when all are down, that machine is started *)
(* first and the others join it, and the cluster is handed back to CAPI    *)
(* only when all of them are up again.                                     *)
(***************************************************************************)
CONSTANTS
  Machines,   \* the machines of the cluster
  None        \* no machine

VARIABLES
  target,     \* the machine of the backup, None before there is a restore
  phase,      \* the recorded phase of the restore
  paused,     \* CAPI leaves the cluster alone
  up,         \* machines on which RKE2 runs
  reset       \* the etcd data of the target is that of the restored cluster

vars == <<target, phase, paused, up, reset>>

Init ==
  /\ target = None
  /\ phase = ""
  /\ paused = FALSE
  /\ up = Machines
  /\ reset = FALSE

Request(m) ==
  /\ target = None
  /\ target' = m
  /\ UNCHANGED <<phase, paused, up, reset>>

\* A finished restore pauses the cluster again each time that it is looked at.
Pause ==
  /\ target # None
  /\ paused' = TRUE
  /\ UNCHANGED <<target, phase, up, reset>>

\* Recording the first phase needs neither the pause nor a backup that exists: nothing
\* has been stopped yet.
Begin ==
  /\ phase = "" /\ phase' = "Started"
  /\ UNCHANGED <<target, paused, up, reset>>

Stop(m) ==
  /\ phase \in {"", "Started"} /\ paused
  /\ up' = up \ {m}
  /\ UNCHANGED <<target, phase, paused, reset>>

AllStopped ==
  /\ phase \in {"", "Started"} /\ paused /\ up = {}
  /\ phase' = "Shutdown"
  /\ UNCHANGED <<target, paused, up, reset>>

Reset ==
  /\ phase = "Shutdown" /\ paused /\ up = {}
  /\ reset' = TRUE
  /\ UNCHANGED <<target, phase, paused, up>>

Restored ==
  /\ phase = "Shutdown" /\ paused /\ up = {} /\ reset
  /\ phase' = "Restore"
  /\ UNCHANGED <<target, paused, up, reset>>

Start(m) ==
  /\ phase = "Restore" /\ paused /\ reset
  /\ m = target \/ target \in up
  /\ up' = up \cup {m}
  /\ UNCHANGED <<target, phase, paused, reset>>

AllStarted ==
  /\ phase = "Restore" /\ paused /\ up = Machines
  /\ phase' = "Finished"
  /\ UNCHANGED <<target, paused, up, reset>>

Unpause ==
  /\ phase = "Finished" /\ up = Machines
  /\ paused' = FALSE
  /\ UNCHANGED <<target, phase, up, reset>>

Next ==
  \/ \E m \in Machines : Request(m) \/ Stop(m) \/ Start(m)
  \/ Pause \/ Begin \/ AllStopped \/ Reset \/ Restored \/ AllStarted \/ Unpause

Spec == Init /\ [][Next]_vars
==============================================================================
