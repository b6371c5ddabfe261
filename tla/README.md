# Verification of turtles-etcd-restore

TLA+ modules for the operator that backs up and restores the etcd of RKE2
clusters managed by Cluster API (CAPI): what the code does, what TLC checks of
it on small instances, and what TLAPS proves for all instances.

## 1. The system

| Part | State it keeps or works on | Operations | Hard behaviour |
|---|---|---|---|
| Restore controller (`etcdsnapshotrestore_controller.go`) | phase of `ETCDSnapshotRestore`, `spec.paused` of the Cluster, plan secrets | `Reconcile`, `reconcileNormal`, `newScope`, the four phases, `updatePlanSecretWithPlan` | several API calls per reconcile, stale informer reads, optimistic locks, crash between calls, polling |
| Plans (`instructions.go`) | none | one function per instruction, `isPlanApplied` | what `/bin/sh -c` really runs; idempotence |
| System agent and RKE2 (external) | the plan secret's `applied-checksum`; RKE2, its config, manifests and etcd data on a machine | run a plan, report it | asynchronous, at-least-once |
| Snapshot sync controller (`etcdsnaphotsync_controller.go`) | `EtcdMachineBackup` objects, watches on workload clusters, workqueue | `Reconcile`, `findMachineForBackup` | files and machines change during the loop, dropped requeues, name clashes |
| EtcdMachineBackup controller | none | none (a no-op) | - |
| RKE2Config webhook (`rke2config_webhook.go`) | plan secret, service account, role, token, connect-info and install-script secrets, files and commands of the RKE2Config | admission of an RKE2Config (`Default`) | concurrent and repeated requests, retries against an asynchronous token controller, half-made objects, objects that exist |
| Install script (`installsh.go`) | certificates, agent binary and service of a machine | runs once, at the end of the machine's bootstrap | bounded download retries |
| Manager (`cmd/main.go`) | caches, leader lease | start-up | Secrets are read uncached, all else from informers; resync every 10 minutes |

They interact through API objects only.  The sync controller creates
`EtcdMachineBackup` objects from the snapshot files of a workload cluster; a
user names one in an `ETCDSnapshotRestore`; the restore controller pauses the
Cluster (which also makes the sync controller skip it) and drives the machines
through the plan secrets that the webhook created.

A restore has the phases Started (stop RKE2 everywhere), Shutdown (reset etcd on
the machine of the backup), Restore (start that machine, then let the others
join it) and Finished (unpause the cluster).

What makes each part correct:

* restore controller: no reset while a machine of the old cluster runs, never two
  etcd clusters at once, CAPI paused while machines are down, phases and plans
  never go back, Finished means that all machines are back, and a restore ends;
* sync controller: a backup describes a snapshot that was usable, of its own cluster and
  of the right machine, and appears for every usable snapshot;
* webhook and install script: a config that is stored has all that its agent needs,
  an agent acts as itself and on its own plan secret, admission is idempotent,
  and the agents come up.

## 2. Modules

| Module | Models |
|---|---|
| `Instructions` | the instructions and the four plans; an instruction is its script and its positional operands |
| `SystemAgent` | plan secrets, agents and RKE2 on each machine; one action per script |
| `EtcdSnapshotRestore` | the restore controller with caches, conflicts, failures, CAPI and users; the properties |
| `RestoreProtocol` | what a restore promises: an abstract specification of five variables |
| `RestoreRefinement` | the mapping under which `EtcdSnapshotRestore` implements `RestoreProtocol` |
| `MCEtcdSnapshotRestore` | instances for TLC |
| `EtcdSnapshotRestoreProofs` | theorems about types, phases and the pause of a restore |
| `RestorePlanProofs` | theorems about the plans that machines are handed and the machines that are down |
| `RestoreSafetyProofs` | theorems about the etcd data: quiet reset, one etcd cluster, no stale manifests, all rejoined |
| `RestoreRefinementProofs` | the theorem that `EtcdSnapshotRestore` implements `RestoreProtocol` |
| `EtcdSnapshotSync` | the snapshot sync controller and its properties |
| `MCEtcdSnapshotSync` | instances for TLC |
| `EtcdSnapshotSyncProofs` | theorems about `EtcdSnapshotSync` |
| `InstallScript` | the script on the machines that are bootstrapped |
| `RKE2ConfigWebhook` | the admission webhook, the token controller and the machines' agents; its properties |
| `MCRKE2ConfigWebhook` | instances for TLC |
| `RKE2ConfigWebhookProofs` | theorems about `RKE2ConfigWebhook` and `InstallScript` |

`EtcdSnapshotRestore` composes the controller with the agents: it EXTENDS
`SystemAgent`, which EXTENDS `Instructions`.  `RKE2ConfigWebhook` composes the
admissions with the machines that boot from what they make: it EXTENDS
`InstallScript`.  The two compositions meet in the plan secret, which the webhook creates
empty (`EmptySecret` of the restore controller's module) and does not touch again.

### How `EtcdSnapshotRestore` corresponds to the code

`rec` is the reconcile in progress; `rec.pc` names the next call: `pause` and
`unpause` (the two patches of the Cluster), `switch` (the switch over the phase),
`loop` (the loops over machines), `get`, `fill` and `check` (reading the plan
secret, patching it, testing the checksum) and `status` (the patch of the restore
at the end of `Reconcile`, which happens whether or not there was an error).
`rec.obj` is the copy of the restore the reconcile began with, `rec.phase` the
phase it will record, `rec.sec` its copy of a secret.  `panic` is a nil
dereference, after which the process restarts.

*Caches.* `restoreCache` and `machineCache` lag behind `restore` and `machine`;
`Deliver...` brings them up to date.  Secrets are read from the API server, as
`cmd/main.go` configures.  *Versions.* All patches use optimistic locks.  A patch
of a restore or secret succeeds if the copy still equals the object, which is
the same as equal versions because neither returns to an earlier value.  The
Cluster does return, so `clusterFresh` holds the copies (the cache's, the
worker's) of the current version.  The object patch and the status patch at the
end of `Reconcile` carry one version and only the second changes anything, so
they are one step.  *One worker.* `--concurrency` is parsed and never used.

*Machines.* `node[m]` says whether RKE2 runs, its `server:` line, whether the
bundled manifests are there, which etcd cluster the data belongs to (`Original`,
or the machine that reset it) and from which snapshot it was loaded.  An agent
runs a plan whose checksum is not the applied one, script by script, reports it
after the last, and starts over if it restarts or a script fails.

*Disturbances* (`FaultKinds`, at most `MaxFaults`): a failed API call or
undecodable plan output (`error`), a crash of the manager (`crash`), a restart of
an agent (`agent`), a write of the Cluster by someone else (`touch`), a scale-up
(`scale`), and an edit or deletion of the restore (`edit`, `delete`).

`EtcdSnapshotSync` has `sync` for the reconcile in progress (the loop over the
files as listed, then `create`), the workqueue as a set, the watches, and events
bounded by `MaxEvents`.  A machine (`machine`, as the informer shows it to the
controller) is created in one of the clusters, gets its node later, is deleted, and may
come back under its name in another cluster (`MachineLives` says where); a snapshot file
is written, gets its status, becomes ready, and is removed by RKE2's retention or by hand
(`PruneSnapshot`).  Two history variables, which no action reads, say what was true
once: `reported`, the files that were ever ready, and `hosts`, for each of them the
machines that have had its node since.

### The abstract restore

`RestoreProtocol` has the machine of the backup, the recorded phase, `paused`, the
machines that are up and whether etcd was reset.  Machines stop only while the
cluster is paused; etcd is reset only when all are down; the target starts first
and the others only while it is up; Finished needs all of them up; only a finished
restore unpauses.  `RestoreRefinement` maps the phase to the recorded phase of the
one restore, `up` to the machines whose RKE2 runs and `reset` to the target's data
being that of its own reset.  Reconciles, caches, plan secrets, agents and retries
are stuttering steps of it.

### How `RKE2ConfigWebhook` corresponds to the code

A request goes through `Default`: `req[q].pc` is `create` (the loop over the five
plan resources, one call each), `token` (one list of secrets per try), `url` and
`ca` (the two settings), `connect` and `script` (the two secrets, each with its
file) and `respond` (the remaining file, the command, and the store of the config
by the API server, which refuses it if the config changed since the client read
it).  A rejected request leaves what it made.  `resource[c]` is the set of plan
resources that exist, `token` the token secrets with content, `info` and `script` the
contents of the two secrets.  `Manifest[c]` is any list of paths: the user's own files,
and also those of the webhook, when the manifest was exported from a cluster where the
webhook had handled it; the two functions that make the secrets return early then.  Kubeconfig, JSON and the
texts of files are reduced to what tells configs and servers apart.

`install[c]` is the script on the machine of config `c`: what the last `curl` left
in the certificate and binary files, and the attempts that remain.  A server that
has moved (`setting.url` changed) no longer answers at its old URL.

*Disturbances* (`FaultKinds`, at most `MaxFaults`): a failed call or a timeout of
the API server (`error`), a crash of the manager, which serves the webhook
(`crash`), an update of a stored config, with or without what the webhook added
(`update`), a deletion of config and machine (`delete`), a dry run (`dryrun`), a
failed download (`network`), and a change of the server URL (`url`).

Operators whose comment begins with "Mutant of" are plausible mistakes in the
definition that follows them.  No specification uses them; each property is
checked to fail when its mutant takes the definition's place.

## 3. What TLC checks

| Run | Result | What it shows |
|---|---|---|
| `restore_safety` | holds | three machines, two disturbances: `ImplementsProtocol` (the refinement), `QuietReset`, `NoSplitBrain`, `NoStaleManifests`, `PausedWhileDown`, `DownMeansPaused`, `PhaseAdvances`, `PlanAdvances`, `TypeOK` |
| `restore_environment` | holds | any two of all disturbances, also with backups that have no location, no address or no machine: the cluster is paused whenever RKE2 is down, and phases and plans advance |
| `restore_liveness` | holds | `RestoreCompletes`, `FinishedUnpauses` under `FairSpec`, and `FinishedIsRejoined`, with two failed calls, crashes or foreign writes |
| `restore_lost_path` | violated | the snapshot's path never reaches `rke2` |
| `restore_missing_machine` | violated | a backup of a machine that is gone panics the manager |
| `restore_scale_up` | violated | check-then-pause: the restore waits for ever for a machine that the pause holds back |
| `restore_two_restores` | violated | an old finished restore unpauses the cluster during a new one |
| `restore_agent_restart` | violated | the join plan run twice deletes live etcd data |
| `restore_apply_again` | violated | the README's restore command, used again with another backup, goes on in the old phase |
| `sync_backups` | holds | `BackupIsRestorable`, `TypeOK`, and `BackupAppears` under `FairSpec` |
| `sync_new_machine` | violated | a machine without a node panics the manager |
| `webhook_admission` | holds | `StoredIsEquipped`, `AgentIsItself`, `InjectedOnce`, `TypeOK`, and `AgentComesUp` under `FairSpec` |

The violated runs are disagreements between the code and its own comments, logs
or README; `PROJECT.json` quotes the text.

*Bounds.* Three machines are an init machine and two that join it, so that one
can be late while another is not.  Two disturbances hit every pair of steps of every reconcile: a failure
during the recovery from another, and the combinations of edit, scale-up and
deletion.  One restore is enough for what is promised of a restore; two show
that the promises do not survive a second one.  Each restore object is created
once.  In `sync_backups` two clusters, whose nodes and files share names, are the
least that can be confused, and two files of one cluster the least of which one can
hold up the other.  Two machine names, each of which may come up in either cluster with
a node of the one name `n1`, are the least with which a node passes from one machine to
another and a machine from one cluster to another; the file `f2` is of a node without a
machine.  One event (`MaxEvents`: a pause, a deletion of a machine or a cluster, a removed
snapshot, a failed call), at any point, is what the time for the temporal property
allows; machines and snapshots come up without being counted.  When two clusters of a
namespace do have a snapshot file of one name, only the first gets a backup:
`BackupAppears` does not expect one then.

In `webhook_admission` two configs of one name in two namespaces are the least that
the lookup of tokens can confuse, and two requests the least that can overlap, on
one config or on two.  `MaxUrls` = 2 is one change of the URL; `Steps` = 2 and
`RetryCount` = 2 (5 and 10 in the code) let a wait and a download fail once and
still succeed; one disturbance (`MaxFaults`) meets all the steps of both requests.
One manifest has a file of the user's own, the other, exported, all three of the webhook.

*Deadlock* is checked in all runs but two: in `restore_environment` a deleted
restore leaves nothing to do, and in `webhook_admission` nothing is left once the
configs are stored and their machines have run the script.

*Fairness.* A worker that has begun goes on, informers deliver and agents poll
(weak fairness).  A restore is reconciled again after each of its changes, after
30 seconds while it waits, after errors with back-off, and at the resync, so
`Reconcile` is fair too.  Nothing is assumed of users, nor that disturbances stop
other than by their bound.  CAPI makes a machine Running only while the cluster
is not paused.  In `EtcdSnapshotSync` the queue is first-in first-out (strong
fairness per cluster), the resync recurs, and RKE2 eventually gives a snapshot
file a status, not necessarily "ready".  In `RKE2ConfigWebhook` a request that is
being served goes on, Kubernetes fills token secrets, machines boot and run their
script (weak fairness), and the clients of the configs in `Persistent` submit a config
that does not exist again, as CAPI's controllers do; the other clients may do so or not.
That is what leaves room for `AgentComesUp`: if all clients had to submit, every config
with a namesake would be blocked by it in the end, and nothing would be expected of it.
In `webhook_admission` the first config is persistent and the second may stay away for
ever, come in the middle, or be left half made.  That fairness is strong, because the request slots are a
bound of the model and not of the API server: another request in the slot may not
hold a client up for ever.  Nothing is assumed of the administrator: `AgentComesUp`
speaks of the times when the URL is configured.

## 4. What is proved

Every invariant and action property that a passing run checks is also a theorem, for
all values of the constants that satisfy the named assumptions of the modules, any
number of machines, backups, clusters, configs and requests, and any number of
disturbances.

| Property | Theorem | For |
|---|---|---|
| `TypeOK`, `PhaseAdvances` | `TypeCorrect`, `PhaseOnlyAdvances` | any number of restores, all disturbances |
| `PausedWhileDown`, `DownMeansPaused`, `PlanAdvances` | `OneRestorePausedWhileDown`, `OneRestoreDownMeansPaused`, `PlansOnlyAdvance` | one restore, all disturbances |
| `QuietReset`, `NoSplitBrain`, `NoStaleManifests` | `ResetIsQuiet`, `NeverSplitBrain`, `NeverStaleManifests` | `Undisturbed`: one restore, all disturbances but edits and scale-ups |
| `FinishedIsRejoined` | `FinishedMeansRejoined` | `Undisturbed`, and no agent restarts |
| `ImplementsProtocol` | `RestoreImplementsProtocol` | `Undisturbed`, and `BackupsOfMachines` |
| `TypeOK`, `BackupIsRestorable` of the sync controller | `SyncTypeCorrect`, `BackupsAreRestorable` | all |
| `TypeOK`, `StoredIsEquipped`, `AgentIsItself`, `InjectedOnce` of the webhook | `WebhookTypeCorrect`, `StoredConfigsAreEquipped`, `AgentsAreThemselves`, `FilesInjectedOnce` | all, with any manifests |

None of the hypotheses can be dropped.

* *One restore*: a second one unpauses the cluster of the first
  (`restore_two_restores`).
* *No edit*: an edit of `spec.etcdMachineBackup` after RKE2 was stopped sends the reset
  to a second machine while the first may already be up, so that `QuietReset` fails
  (with `FaultKinds = {"edit"}` in the instance of `restore_environment`).
* *No scale-up*: a machine that comes up between the list of machines and the pause is
  never told to stop, and `QuietReset` fails (the same with `{"scale"}`).
* *No agent restart* in `FinishedMeansRejoined`: `restore_agent_restart`.
* `BackupsOfMachines`, the machines of the backups are still in the cluster:
  `RestoreProtocol` has no step for a target that is gone, and the code panics on one
  (`restore_missing_machine`).

### The restore controller

*Types.*  `TypeOK` is inductive with `RecOK` (past `newScope` a reconcile has a
backup; at a secret it has a machine), without which the plan handed out need not be
one of the plans.  `PlanShapes` says what operands the scripts of the plans have.

*Phases.*  `PhaseInv`: until it returns a reconcile is in the phase of its copy; it
returns with that phase or the next.  Only `PatchRestore` changes a phase, and only if
the copy is current.

*The pause.*  `PausedWhileDown` is not inductive.  `DownInv` adds that a reconcile past
the pause has the cluster paused, that one about to record Shutdown or Restore has it
paused unless its copy is stale, and that no copy is Finished before the restore is, so
that only a finished restore unpauses.

*Plans.*  A stale copy is the danger: it makes a reconcile work on an earlier phase.
`PlanInv` says that the cache and the reconcile's copy are at most one phase behind
(`Rank`), because a phase is recorded only from a current copy, and that no plan of a
later stage (`Stage`) is out than the cache and the copy know of.  So a reconcile may
repeat a plan, and never goes back.

*Machines that are down.*  `RunningInv` has four parts: an agent runs nothing later than
its secret holds, and a reported start means that RKE2 runs (`AgentInv`); only machines
that the controller saw running were handed plans, and those are in every later
reconcile's list (`HandedInv`); what a reconcile has checked stays so until it records
Finished (`UpInv`); and the cluster is paused from the first plan on (`HeldInv`).

*The data.*  `SafetyInv` ties phases, secrets, agents and machines together.  `CopyInv`:
all copies of the restore name the same backup and the machines stay those of the
start.  `MachineInv`: the plan in a secret is one of those for that machine, and what
the machine is like follows from the plan and from how far the agent has got (per
script: a machine at `cluster-reset` has no manifests, and so on).  `OrderInv`: nothing
of a stage is handed out before what it rests on was reported by the machines
concerned: no reset before all are stopped, no start before the reset, no join before
the target is up, no Finished before all are.  `EvidenceInv`: what the reconcile in
progress has concluded from its copies is so; this is what carries a checksum that was
read some calls ago to the decision that rests on it.  `ResetIsQuiet`,
`NeverSplitBrain` and `NeverStaleManifests` follow from it in every state.
`FinishedMeansRejoined` adds `JoinedInv`, the etcd cluster of every machine that has
reported its last plan; that is the part that an agent's restart breaks.

*The refinement.*  `StepImplements`: in a state of the invariants every step is a step of
`RestoreProtocol` under the mapping, or leaves the mapped variables alone.  An agent's
script is `Stop`, `Reset` or `Start` or nothing (`AgentImplements`; that a machine
starts only after the target is `OrderInv`), the patch of the restore is `Begin`,
`AllStopped`, `Restored` or `AllStarted` (`PatchImplements`), the patches of the Cluster
are `Pause` and `Unpause` (`PauseImplements`) and the creation of the restore is
`Request` (`CreateImplements`).

### The sync controller

`BackupIsRestorable` is a statement about the past, since the snapshot and the machine of
a backup may be gone.  It is inductive with two others.  `PastInv`: a file that is ready
has been reported, and a machine that has the node of a reported file is among its hosts;
every step that changes a file or a machine keeps it (`Remembers`) and none forgets
(`PastKept`).  `SyncInv`: a file that the reconcile has seen ready was reported, though it
may be gone by now, and at the creation of the backup the machine that was found is one
of the file's hosts, though it too may be gone.  The machine is a host because the search
is restricted to the machines of the cluster of the reconcile.

### The webhook

`WebhookInv` has, besides `TypeOK`, four parts.  `RequestInv`: by the call that a request
has got to (`req[q].pc`), what it or an earlier one has left behind, and which files are
in its object: all, if it came with the stored object, else the user's and those added
so far.  `SecretInv`: every connect info is that of its own config.  `StoredInv`: a
stored config has the complete list of files, and its objects exist.  `InstallInv`: the
script of a machine has the connect info of its own config and is past a download only
with the whole file.

The proof separates who writes what (`Writers`) from what each call does to its own
request (the lemmas `...GoesOn`).  By `ExistingGrows` no step takes an object away or
changes it, which is why the other requests' invariants survive a step
(`RequestKept`).  `HasInfo` and `HasScript`, the secret exists or the manifest has brought
its file, are what a request has reached past the two early returns, and what a stored
config has.  `AddProperties` says what adding a path does to any list of files; from it
`FileListsOf` and `UserFilesFirst` give `InjectedOnce` for every manifest.
`AgentIsItself` rests on `OneSecretIsOwn`: the lookup of token secrets by label goes over all namespaces, and accepts one secret only; the
request's own is always among those found, because the loop over the plan resources
has ended, so the one is its own.  The assumption `NoInfo`, that `None` is not a connect
info, is about the model's value for a secret that does not exist.

### Only model-checked

The liveness properties `RestoreCompletes`, `FinishedUnpauses`, `BackupAppears` and
`AgentComesUp`: fairness is out of the prover's reach.

## 5. Not modelled

* The no-op backup controller, generated code, manifests, scripts and tests have no
  behaviour to check.
* Leader election is taken to leave one active process; flags, probes and metrics
  are left out.
* Worker (agent) machines are not told apart from servers, although the code starts
  `rke2-server` on them too.
* Machines are not deleted or rebooted during a restore; a backup's machine may be
  gone before it.  The applied checksum says what an agent did, not what runs now:
  if systemd starts RKE2 on a machine that rebooted after it was stopped, nothing
  notices, and `QuietReset` and `NoSplitBrain` fail.
* Objects the webhook makes have no owner and are never deleted; deletion by hand is
  not modelled.  The webhook declares `sideEffects=None`
  (`rke2config_webhook.go:37`), so dry runs reach it, and they make all of its
  objects; the model has this, and the properties hold in spite of it.
* A backup is never removed.  The model has this: a backup outlives its snapshot when RKE2
  prunes that, and its machine when that is replaced, and `BackupIsRestorable` speaks of
  the time at which the backup was made.  What a restore of such a backup does is in
  `restore_missing_machine` (no machine) and in the backups without a location of
  `restore_environment`; that `rke2` fails on a file that is gone is a script that fails.
  If the name of a node passes to another machine of the cluster, a snapshot of the old
  node is attributed to the new machine; the code compares names only.
* Of two clusters of a namespace with snapshot files of one name only one gets a backup;
  `BackupAppears` does not expect the other.
* The sync controller reads Clusters and Machines from informers and its view of them is
  all the model has of them; a copy that lags behind is a machine that changes later.
* A manifest that already has the webhook's paths, exported from another management
  cluster for example, is stored without the secrets of those files, and its machine does
  not boot until they are there (`rke2config_webhook.go:262` and `:344` return early).
  `StoredIsEquipped` therefore requires the secrets of the files that the webhook itself
  adds, and `AgentComesUp` is about manifests without them.  Such files are taken to refer
  to the config's own secrets; what else a user's file may hold is not modelled.
* Two configs of one name in two namespaces block each other for good once both have
  a token secret, and a machine with the script of an old server URL never gets its
  agent.  Nothing in the repository promises otherwise; `AgentComesUp` excludes both
  cases by name.

## 6. Plan

Done: instructions, agents, restore controller and its abstract specification, sync
controller, webhook and install script; all of their safety properties proved.

1. What the proofs need of the environment, as weak as it can be: deletion of machines
   during a restore, and edits that name a backup of the same machine.
2. Lemmas that say more than the properties do: bounds on the number of calls of an
   admission, and that a rejected admission can be repeated.
