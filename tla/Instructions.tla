---------------------------- MODULE Instructions ----------------------------
(***************************************************************************)
(* The plans the restore controller hands to the system agents             *)
(* (internal/controller/instructions.go).                                  *)
(*                                                                         *)
(* Every instruction is "/bin/sh -c <script> <operand>...".  What the      *)
(* shell runs is the script alone: the operands that follow it become the  *)
(* positional parameters $0, $1, ... of the script, and no script of this  *)
(* file reads one.  An instruction is therefore a pair: the script, cut    *)
(* into the words that carry a parameter, and the positional operands.     *)
(* Names, images and the saveOutput flag are left out.                     *)
(***************************************************************************)
EXTENDS Sequences

Sh(script, positional) == [script |-> script, positional |-> positional]

killAllInstruction == Sh(<<"killall">>, <<>>)

\* strings.TrimPrefix(location, "file://"): other schemes are passed as they are.
TrimFilePrefix(location) ==
  IF location.scheme = "file" THEN [location EXCEPT !.scheme = "none"] ELSE location

\* The restore path is an argument of its own, after the script.
etcdRestoreInstruction(location) ==
  Sh(<<"cluster-reset">>, <<TrimFilePrefix(location)>>)

manifestRemovalInstruction == Sh(<<"remove-manifests">>, <<>>)

removeServerUrlFromConfig == Sh(<<"remove-server-url">>, <<>>)

addServerUrlToConfig(serverIP) == Sh(<<"add-server-url", serverIP>>, <<>>)

removeEtcdDataInstruction == Sh(<<"remove-etcd-data">>, <<>>)

startRKE2Instruction == Sh(<<"start-rke2">>, <<>>)

\* A plan secret's "plan" key: the JSON document of the instruction list.
instructionsAsJson(instructions) == [instructions |-> instructions]

\* The key is absent: the secret as the RKE2Config webhook creates it.
NoPlan == instructionsAsJson(<<>>)

\* The "applied-checksum" key: SHA-256 in hex, taken to be collision free.
Checksum(plan) == [sha256 |-> plan]

isPlanApplied(plan, appliedChecksum) == Checksum(plan) = appliedChecksum

-----------------------------------------------------------------------------
(* The four plans of a restore, in the order in which a machine gets them. *)

killPlan == instructionsAsJson(<<killAllInstruction>>)

\* Mutant of restorePlan: the manifests of the old cluster stay.
restorePlanKeepingManifests(location) ==
  instructionsAsJson(<<removeServerUrlFromConfig, etcdRestoreInstruction(location)>>)

restorePlan(location) ==
  instructionsAsJson(<< removeServerUrlFromConfig,
                        manifestRemovalInstruction,
                        etcdRestoreInstruction(location) >>)

startPlan == instructionsAsJson(<<startRKE2Instruction>>)

\* Mutant of joinPlan: the etcd data of the old cluster stays.
joinPlanKeepingData(serverIP) ==
  instructionsAsJson(<< removeServerUrlFromConfig,
                        addServerUrlToConfig(serverIP),
                        manifestRemovalInstruction,
                        startRKE2Instruction >>)

joinPlan(serverIP) ==
  instructionsAsJson(<< removeServerUrlFromConfig,
                        addServerUrlToConfig(serverIP),
                        removeEtcdDataInstruction,
                        manifestRemovalInstruction,
                        startRKE2Instruction >>)
=============================================================================
