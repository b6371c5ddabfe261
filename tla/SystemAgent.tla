---------------------------- MODULE SystemAgent ----------------------------
(***************************************************************************)
(* The machines of one workload cluster, seen through what the restore     *)
(* controller relies on: the plan secret of each machine in the management *)
(* cluster, the system agent that runs the plan it finds there, and the    *)
(* RKE2 server of the machine with its etcd data directory.  The agent     *)
(* (rancher/system-agent) and RKE2 are not part of the repository.         *)
(*                                                                         *)
(* An agent runs the plan of its secret when the plan's checksum is not    *)
(* the applied one, one instruction at a time, and reports the checksum    *)
(* only after the last instruction succeeded.  It runs a plan at least     *)
(* once: an agent that restarts before its report runs the plan again.     *)
(***************************************************************************)
EXTENDS Instructions, Naturals

CONSTANTS
  Machines,       \* names of the machines the cluster may have
  NoServer,       \* config.yaml has no "server:" line
  Endpoint,       \* "server:" names the control plane endpoint
  Original,       \* the etcd cluster that existed before any restore
  NoData          \* the etcd data directory does not exist

ASSUME MachineNames ==
  /\ {NoServer, Endpoint, Original, NoData} \cap Machines = {}
  /\ NoServer # Endpoint
  /\ Original # NoData

VARIABLES
  secret,   \* secret[m]: the keys "plan" and "applied-checksum" of m's plan secret
  agent,    \* agent[m]: the plan m's agent is running and its next instruction
  node      \* node[m]: RKE2 on machine m, its config and manifests, the etcd cluster its
            \* data belongs to and the snapshot that data was loaded from, if any

agentVars == <<secret, agent, node>>

Lineages == Machines \cup {Original, NoData}

IdleAgent == [plan |-> NoPlan, next |-> 1]

Busy(m) == agent[m].plan # NoPlan

Done(m) == agent[m].next > Len(agent[m].plan.instructions)

\* The script m's agent runs next.
Script(m) == agent[m].plan.instructions[agent[m].next].script

AtScript(m, op) == Busy(m) /\ ~Done(m) /\ Script(m)[1] = op

AgentFetch(m) ==
  /\ ~Busy(m)
  /\ secret[m].plan # NoPlan
  /\ ~isPlanApplied(secret[m].plan, secret[m].applied)
  /\ agent' = [agent EXCEPT ![m] = [plan |-> secret[m].plan, next |-> 1]]
  /\ UNCHANGED <<secret, node>>

\* The agent runs the script op on m, which succeeds and leaves the machine as n.
Runs(m, op, n) ==
  /\ AtScript(m, op)
  /\ node' = [node EXCEPT ![m] = n]
  /\ agent' = [agent EXCEPT ![m].next = @ + 1]
  /\ UNCHANGED secret

KillAll(m) == Runs(m, "killall", [node[m] EXCEPT !.rke2 = FALSE])

RemoveServerUrl(m) == Runs(m, "remove-server-url", [node[m] EXCEPT !.server = NoServer])

AddServerUrl(m) ==
  /\ AtScript(m, "add-server-url")
  /\ Runs(m, "add-server-url", [node[m] EXCEPT !.server = Script(m)[2]])

RemoveManifests(m) == Runs(m, "remove-manifests", [node[m] EXCEPT !.manifests = FALSE])

RemoveEtcdData(m) ==
  Runs(m, "remove-etcd-data", [node[m] EXCEPT !.lineage = NoData, !.snapshot = {}])

\* "rke2 server --cluster-reset": the data directory becomes a one-member etcd
\* cluster of its own, filled from the snapshot if the script names one.
ClusterReset(m) ==
  /\ ~node[m].rke2
  /\ node[m].server = NoServer
  /\ AtScript(m, "cluster-reset")
  /\ Runs(m, "cluster-reset",
          [node[m] EXCEPT !.lineage = m,
                          !.snapshot = IF Len(Script(m)) = 2 THEN {Script(m)[2]} ELSE @])

\* The machines a server with the given "server:" line can join.
JoinTargets(m) ==
  {s \in Machines : node[s].rke2 /\ node[m].server \in {s, Endpoint}}

\* systemctl start: a server with data starts on it; one without joins the
\* server of its config, or bootstraps a cluster of its own if there is none.
StartRKE2(m) ==
  \/ /\ node[m].rke2 \/ node[m].lineage # NoData
     /\ Runs(m, "start-rke2", [node[m] EXCEPT !.rke2 = TRUE])
  \/ /\ ~node[m].rke2 /\ node[m].lineage = NoData
     /\ \E s \in JoinTargets(m) :
          Runs(m, "start-rke2", [node[m] EXCEPT !.rke2 = TRUE,
                                                !.lineage = node[s].lineage,
                                                !.snapshot = node[s].snapshot])
  \/ /\ ~node[m].rke2 /\ node[m].lineage = NoData /\ node[m].server = NoServer
     /\ Runs(m, "start-rke2", [node[m] EXCEPT !.rke2 = TRUE,
                                              !.lineage = m,
                                              !.snapshot = {}])

\* A script that cannot succeed ends the run of the plan; it is not reported
\* as applied, and the agent will try the plan from its start again.
ScriptFails(m) ==
  /\ \/ AtScript(m, "cluster-reset") /\ (node[m].rke2 \/ node[m].server # NoServer)
     \/ /\ AtScript(m, "start-rke2")
        /\ ~node[m].rke2 /\ node[m].lineage = NoData
        /\ node[m].server # NoServer /\ JoinTargets(m) = {}
  /\ agent' = [agent EXCEPT ![m] = IdleAgent]
  /\ UNCHANGED <<secret, node>>

AgentReport(m) ==
  /\ Busy(m) /\ Done(m)
  /\ secret' = [secret EXCEPT ![m].applied = Checksum(agent[m].plan)]
  /\ agent' = [agent EXCEPT ![m] = IdleAgent]
  /\ UNCHANGED node

\* The agent's process restarts and forgets the plan it was running.
AgentRestart(m) ==
  /\ Busy(m)
  /\ agent' = [agent EXCEPT ![m] = IdleAgent]
  /\ UNCHANGED <<secret, node>>

AgentStep(m) ==
  \/ AgentFetch(m)
  \/ KillAll(m)
  \/ RemoveServerUrl(m)
  \/ AddServerUrl(m)
  \/ RemoveManifests(m)
  \/ RemoveEtcdData(m)
  \/ ClusterReset(m)
  \/ StartRKE2(m)
  \/ ScriptFails(m)
  \/ AgentReport(m)
=============================================================================
