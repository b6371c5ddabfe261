-------------------------- MODULE RKE2ConfigWebhook --------------------------
(***************************************************************************)
(* The admission webhook that equips every RKE2Config with a system agent  *)
(* (internal/webhook/rke2config_webhook.go), and the machines that are     *)
(* bootstrapped from the configs.                                          *)
(*                                                                         *)
(* A create or an update of an RKE2Config is sent to the webhook before it *)
(* is stored.  The webhook makes the resources the agent needs (service    *)
(* account, plan secret, role, role binding, token secret), waits for the  *)
(* token, reads two settings of Rancher, makes two secrets, and adds three *)
(* files and a command to the config; if any of that fails the request is  *)
(* rejected, and what was made stays.  Requests are served concurrently,   *)
(* and each call to the API server is a step.  Secrets and settings are    *)
(* read from the API server, not from a cache.                             *)
(*                                                                         *)
(* A config is the pair of its namespace and its name.                     *)
(***************************************************************************)
EXTENDS InstallScript, Sequences, FiniteSets

CONSTANTS
  Requests,     \* requests that may be in progress at a time
  Manifest,     \* Manifest[c]: paths of the files in the user's own manifest of c
  Persistent,   \* configs whose clients submit them until they are stored
  MaxUrls,      \* how many URLs the Rancher server may have, one after the other
  Steps,        \* retry.DefaultRetry.Steps: 5
  FaultKinds,   \* which disturbances may happen
  MaxFaults     \* and how many of them

ASSUME WebhookNames ==
  /\ IsFiniteSet(Configs) /\ \A c \in Configs : c = <<c[1], c[2]>>
  /\ Manifest \in [Configs -> Seq(STRING)]
  /\ Persistent \subseteq Configs
  /\ None \notin Configs \cup Nat
  /\ MaxUrls \in Nat \ {0}
  /\ Steps \in Nat \ {0} /\ MaxFaults \in Nat

VARIABLES
  config,     \* the RKE2Configs the API server has
  resource,   \* resource[c]: which plan resources of c exist
  token,      \* the token secrets that are populated
  info,       \* the connect-info secrets
  script,     \* the install-script secrets: the server URL in their first line
  setting,    \* the settings server-url and cacerts
  req,        \* the requests in progress
  faults      \* disturbances so far

vars == <<config, resource, token, info, script, setting, req, faults, install>>

\* The URLs of the server, and the setting that is not configured.
Urls == 1..MaxUrls
EmptyUrl == 0

\* The certificates of the server; the setting may be empty.
CACerts == {"", "pem"}

\* The order in which createSecretPlanResources creates them.
planResources == <<"ServiceAccount", "Plan", "Role", "RoleBinding", "Token">>

connectInfoJsonPath == "connect-info-config.json"
systemAgentInstallScriptPath == "system-agent-install.sh"
configYAMLPath == "config.yaml"
postInstallCommand == "sudo sh /opt/system-agent-install.sh"

Elements(s) == {s[i] : i \in DOMAIN s}

NoConfig == [exists |-> FALSE, files |-> <<>>, commands |-> <<>>]

IdleReq == [pc |-> "idle", config |-> None, dry |-> FALSE, base |-> NoConfig, todo |-> <<>>, tries |-> 0,
            token |-> None, url |-> None, pem |-> None, files |-> <<>>, commands |-> <<>>]

Init ==
  /\ config = [c \in Configs |-> NoConfig]
  /\ resource = [c \in Configs |-> {}]
  /\ token = {}
  /\ info = [c \in Configs |-> None]
  /\ script = [c \in Configs |-> None]
  /\ setting \in [url : {EmptyUrl}, ca : CACerts]
  /\ req = [q \in Requests |-> IdleReq]
  /\ faults = 0
  /\ install = [c \in Configs |-> NoMachine]

-----------------------------------------------------------------------------
(* One admission.                                                          *)

Disturbance(kind) ==
  /\ kind \in FaultKinds
  /\ faults < MaxFaults
  /\ faults' = faults + 1

\* The webhook is sent the request q to store c with these files and commands.
Submit(q, c, dry, files, commands) ==
  /\ req[q].pc = "idle"
  /\ req' = [req EXCEPT ![q] = [IdleReq EXCEPT !.pc = "create", !.config = c, !.dry = dry,
                                  !.base = config[c], !.todo = planResources,
                                  !.files = files, !.commands = commands]]
  /\ UNCHANGED <<config, resource, token, info, script, setting, install>>

\* The manifest may be one that was exported, here or on another management cluster, and
\* then has what the webhook adds already.
CreateConfig(q, c) ==
  /\ ~config[c].exists
  /\ Submit(q, c, FALSE, Manifest[c], <<>>)
  /\ UNCHANGED faults

\* An update of the stored object, or by the user's manifest, which knows nothing of
\* what the webhook has added.
UpdateConfig(q, c) ==
  /\ config[c].exists
  /\ Disturbance("update")
  /\ \/ Submit(q, c, FALSE, config[c].files, config[c].commands)
     \/ Submit(q, c, FALSE, Manifest[c], <<>>)

\* A dry run is sent to the webhook too, since it declares to have no side effects.
DryRun(q, c) ==
  /\ Disturbance("dryrun")
  /\ Submit(q, c, TRUE, Manifest[c], <<>>)

\* The request is rejected; the objects it made stay.
Reject(q) == req' = [req EXCEPT ![q] = IdleReq]

\* The next of the resources exists now, and the loop goes on.
Created(q) ==
  req' = [req EXCEPT ![q].todo = Tail(@), ![q].pc = IF Len(req[q].todo) = 1 THEN "token" ELSE @]

\* Mutant of createSecretPlanResources: an object that exists is an error.
createSecretPlanResourcesAnew(q) ==
  LET c == req[q].config IN
  /\ req[q].pc = "create"
  /\ IF Head(req[q].todo) \in resource[c] THEN Reject(q) ELSE Created(q)
  /\ resource' = [resource EXCEPT ![c] = @ \cup {Head(req[q].todo)}]
  /\ UNCHANGED <<config, token, info, script, setting, faults, install>>

\* Mutant of createSecretPlanResources: the function returns at an object that exists.
createSecretPlanResourcesOrReturn(q) ==
  LET c == req[q].config IN
  /\ req[q].pc = "create"
  /\ IF Head(req[q].todo) \in resource[c]
     THEN req' = [req EXCEPT ![q].todo = <<>>, ![q].pc = "token"]
     ELSE Created(q)
  /\ resource' = [resource EXCEPT ![c] = @ \cup {Head(req[q].todo)}]
  /\ UNCHANGED <<config, token, info, script, setting, faults, install>>

\* An object that exists is left as it is.
createSecretPlanResources(q) ==
  LET c == req[q].config IN
  /\ req[q].pc = "create"
  /\ Created(q)
  /\ resource' = [resource EXCEPT ![c] = @ \cup {Head(req[q].todo)}]
  /\ UNCHANGED <<config, token, info, script, setting, faults, install>>

\* The steps that leave all but the request alone.
RequestOnly == UNCHANGED <<config, resource, token, info, script, setting, faults, install>>

\* The secrets that carry the label of the plan secret's name, in all namespaces.
LabelledSecrets(c) == {d \in Configs : d[2] = c[2] /\ "Token" \in resource[d]}

\* Mutant of ensureServiceAccountSecretPopulated: the first secret of the list will do.
ensureSomeServiceAccountSecretPopulated(q) ==
  LET found == LabelledSecrets(req[q].config) \cap token IN
  /\ req[q].pc = "token"
  /\ \/ \E d \in found : req' = [req EXCEPT ![q].pc = "url", ![q].token = d]
     \/ found = {} /\ req[q].tries + 1 < Steps /\ req' = [req EXCEPT ![q].tries = @ + 1]
     \/ found = {} /\ req[q].tries + 1 = Steps /\ Reject(q)
  /\ RequestOnly

\* One list of the retry loop: exactly one secret, with a token in it.
ensureServiceAccountSecretPopulated(q) ==
  LET found == LabelledSecrets(req[q].config)
      populated == Cardinality(found) = 1 /\ found \subseteq token
  IN
  /\ req[q].pc = "token"
  /\ \/ populated /\ \E d \in found : req' = [req EXCEPT ![q].pc = "url", ![q].token = d]
     \/ ~populated /\ req[q].tries + 1 < Steps /\ req' = [req EXCEPT ![q].tries = @ + 1]
     \/ ~populated /\ req[q].tries + 1 = Steps /\ Reject(q)
  /\ RequestOnly

\* Mutant of getServerUrl: an empty setting is not rejected.
getServerUrlEvenEmpty(q) ==
  /\ req[q].pc = "url"
  /\ req' = [req EXCEPT ![q].pc = "ca", ![q].url = setting.url]
  /\ RequestOnly

getServerUrl(q) ==
  /\ req[q].pc = "url"
  /\ \/ setting.url = EmptyUrl /\ Reject(q)
     \/ setting.url # EmptyUrl /\ req' = [req EXCEPT ![q].pc = "ca", ![q].url = setting.url]
  /\ RequestOnly

\* The certificates, unlike the URL, may be empty.
getCACerts(q) ==
  /\ req[q].pc = "ca"
  /\ req' = [req EXCEPT ![q].pc = "connect", ![q].pem = setting.ca]
  /\ RequestOnly

\* The request goes on with the path among the files of the config.
AddFile(q, path, next) ==
  req' = [req EXCEPT ![q].pc = next,
                     ![q].files = IF path \in Elements(@) THEN @ ELSE Append(@, path)]

\* A secret that exists is kept, whatever it says.
createConnectInfoJson(q) ==
  LET c == req[q].config IN
  /\ req[q].pc = "connect"
  /\ AddFile(q, connectInfoJsonPath, "script")
  /\ info' = IF connectInfoJsonPath \in Elements(req[q].files) \/ info[c] # None THEN info
             ELSE [info EXCEPT ![c] = [namespace |-> c[1], secretName |-> c[2],
                                       server |-> <<req[q].url, req[q].pem>>,
                                       token |-> req[q].token]]
  /\ UNCHANGED <<config, resource, token, script, setting, faults, install>>

createSystemAgentInstallScript(q) ==
  LET c == req[q].config IN
  /\ req[q].pc = "script"
  /\ AddFile(q, systemAgentInstallScriptPath, "respond")
  /\ script' = IF systemAgentInstallScriptPath \in Elements(req[q].files) \/ script[c] # None
               THEN script ELSE [script EXCEPT ![c] = req[q].url]
  /\ UNCHANGED <<config, resource, token, info, setting, faults, install>>

\* Mutant of createConfigYAML: the file is appended each time.
appendConfigYAML(files) == Append(files, configYAMLPath)

createConfigYAML(files) ==
  IF configYAMLPath \in Elements(files) THEN files ELSE Append(files, configYAMLPath)

addPostInstallCommands(commands) ==
  IF postInstallCommand \in Elements(commands) THEN commands
  ELSE Append(commands, postInstallCommand)

\* The end of Default, and the API server: the config is stored, unless the request
\* is a dry run or the config is not the one that the client had seen.
Respond(q) ==
  LET c == req[q].config IN
  /\ req[q].pc = "respond"
  /\ config' = IF req[q].dry \/ config[c] # req[q].base THEN config
               ELSE [config EXCEPT ![c] = [exists |-> TRUE,
                                           files |-> createConfigYAML(req[q].files),
                                           commands |-> addPostInstallCommands(req[q].commands)]]
  /\ req' = [req EXCEPT ![q] = IdleReq]
  /\ UNCHANGED <<resource, token, info, script, setting, faults, install>>

-----------------------------------------------------------------------------
(* The rest of the world.                                                  *)

\* A call fails, or the API server gives up on the webhook; the list of token secrets,
\* when it fails, is tried again.
CallFails(q) ==
  /\ Disturbance("error")
  /\ req[q].pc # "idle"
  /\ \/ Reject(q)
     \/ /\ req[q].pc = "token" /\ req[q].tries + 1 < Steps
        /\ req' = [req EXCEPT ![q].tries = @ + 1]
  /\ UNCHANGED <<config, resource, token, info, script, setting, install>>

\* The manager, which serves the webhook, stops.
Crash ==
  /\ Disturbance("crash")
  /\ req' = [q \in Requests |-> IdleReq]
  /\ UNCHANGED <<config, resource, token, info, script, setting, install>>

\* Kubernetes populates the token secret of a service account.
TokenController(c) ==
  /\ {"ServiceAccount", "Token"} \subseteq resource[c] /\ c \notin token
  /\ token' = token \cup {c}
  /\ UNCHANGED <<config, resource, info, script, setting, req, faults, install>>

\* The administrator configures the URL of the Rancher server, and may change it; the
\* server is then no longer at its old URL.
SetServerUrl ==
  /\ setting.url < MaxUrls
  /\ \/ setting.url = EmptyUrl /\ UNCHANGED faults
     \/ setting.url # EmptyUrl /\ Disturbance("url")
  /\ setting' = [setting EXCEPT !.url = @ + 1]
  /\ UNCHANGED <<config, resource, token, info, script, req, install>>

\* The config and its machine are deleted.  No object has an owner reference, so all
\* that the webhook made stays.
DeleteConfig(c) ==
  /\ Disturbance("delete")
  /\ config[c].exists
  /\ config' = [config EXCEPT ![c] = NoConfig]
  /\ install' = [install EXCEPT ![c] = NoMachine]
  /\ UNCHANGED <<resource, token, info, script, setting, req>>

\* A machine is bootstrapped with the files and commands of its config.  The contents of
\* the connect info and of the script come from the secrets; a file of the manifest with
\* one of these paths refers to the secret too.
Boot(c) ==
  /\ config[c].exists
  /\ postInstallCommand \in Elements(config[c].commands)
  /\ {connectInfoJsonPath, systemAgentInstallScriptPath} \subseteq Elements(config[c].files)
  /\ info[c] # None /\ script[c] # None
  /\ RunInstallScript(c, script[c], info[c])
  /\ UNCHANGED <<config, resource, token, info, script, setting, req, faults>>

\* The answers of the server at the URL of the script, if it is still there.
CertAnswer == IF setting.ca = "" THEN "empty" ELSE "whole"

Download(c) ==
  /\ \/ /\ install[c].server = setting.url
        /\ download_certificates(c, CertAnswer) \/ download_agent_binary(c, "whole")
        /\ UNCHANGED faults
     \/ /\ install[c].server # setting.url
        /\ download_certificates(c, "partial") \/ download_agent_binary(c, "partial")
        /\ UNCHANGED faults
     \/ /\ Disturbance("network")
        /\ download_certificates(c, "partial") \/ download_agent_binary(c, "partial")
  /\ UNCHANGED <<config, resource, token, info, script, setting, req>>

Start(c) ==
  /\ StartService(c)
  /\ UNCHANGED <<config, resource, token, info, script, setting, req, faults>>

-----------------------------------------------------------------------------

Handle(q) ==
  \/ createSecretPlanResources(q)
  \/ ensureServiceAccountSecretPopulated(q)
  \/ getServerUrl(q)
  \/ getCACerts(q)
  \/ createConnectInfoJson(q)
  \/ createSystemAgentInstallScript(q)
  \/ Respond(q)

Next ==
  \/ \E q \in Requests, c \in Configs : CreateConfig(q, c) \/ UpdateConfig(q, c) \/ DryRun(q, c)
  \/ \E q \in Requests : Handle(q) \/ CallFails(q)
  \/ \E c \in Configs : \/ TokenController(c) \/ DeleteConfig(c)
                        \/ Boot(c) \/ Download(c) \/ Start(c)
  \/ SetServerUrl
  \/ Crash

Spec == Init /\ [][Next]_vars

\* A request that is served ends; some clients submit a config that does not exist again,
\* the others need not submit theirs at all; Kubernetes fills token secrets; machines boot
\* and run their script.
Fairness ==
  /\ \A q \in Requests : WF_vars(Handle(q))
  /\ \A c \in Persistent : SF_vars(\E q \in Requests : CreateConfig(q, c))
  /\ \A c \in Configs :
       /\ WF_vars(TokenController(c))
       /\ WF_vars(Boot(c)) /\ WF_vars(Download(c)) /\ WF_vars(Start(c))

FairSpec == Spec /\ Fairness

-----------------------------------------------------------------------------
(* What the webhook must guarantee.                                        *)

Files == {connectInfoJsonPath, systemAgentInstallScriptPath, configYAMLPath}

\* Paths of the configs' files: the users' and those of the webhook.
Paths == Files \cup UNION {Elements(Manifest[c]) : c \in Configs}

FileLists == Seq(Paths)

CommandLists == {<<>>, <<postInstallCommand>>}

ConfigObjects == [exists : BOOLEAN, files : FileLists, commands : CommandLists]

ConnectInfos == [namespace : {c[1] : c \in Configs}, secretName : {c[2] : c \in Configs},
                 server : Urls \X CACerts, token : Configs]

ASSUME NoInfo == None \notin ConnectInfos

Admissions ==
  [pc : {"idle", "create", "token", "url", "ca", "connect", "script", "respond"},
   config : Configs \cup {None}, dry : BOOLEAN, base : ConfigObjects,
   todo : {SubSeq(planResources, i, 5) : i \in 1..6}, tries : 0..(Steps - 1),
   token : Configs \cup {None}, url : Urls \cup {None}, pem : CACerts \cup {None},
   files : FileLists, commands : CommandLists]

Installs ==
  [pc : {"none", "cert", "binary", "service", "running", "exited"}, retries : 0..RetryCount,
   cert : Outcomes \cup {"absent"}, binary : Outcomes \cup {"absent"},
   server : Urls \cup {None}, info : ConnectInfos \cup {None}]

\* Every variable has the shape the Go types give it.
TypeOK ==
  /\ config \in [Configs -> ConfigObjects]
  /\ resource \in [Configs -> SUBSET Elements(planResources)]
  /\ token \subseteq Configs
  /\ info \in [Configs -> ConnectInfos \cup {None}]
  /\ script \in [Configs -> Urls \cup {None}]
  /\ setting \in [url : Urls \cup {EmptyUrl}, ca : CACerts]
  /\ req \in [Requests -> Admissions]
  /\ faults \in Nat
  /\ install \in [Configs -> Installs]

\* A config that was accepted has all that its agent needs, whichever calls of this or
\* an earlier admission failed: the plan resources, a populated token, and the secret
\* behind each file that the webhook has added.  A file that the manifest already had is
\* not looked into: its secret is whatever the manifest says.
StoredIsEquipped ==
  \A c \in Configs : config[c].exists =>
    /\ resource[c] = Elements(planResources) /\ c \in token
    /\ connectInfoJsonPath \in Elements(Manifest[c]) \/ info[c] # None
    /\ systemAgentInstallScriptPath \in Elements(Manifest[c]) \/ script[c] # None

\* An agent that runs is the whole binary, and acts as the service account of its own
\* config on its own plan secret, never as that of a config of the same name in another
\* namespace, although token secrets are looked up in all namespaces.
AgentIsItself ==
  \A c \in Configs : install[c].pc = "running" =>
    /\ install[c].cert = "whole" /\ install[c].binary = "whole"
    /\ install[c].info.token = c
    /\ <<install[c].info.namespace, install[c].info.secretName>> = c

\* However often a config is created, updated and replaced, its files and the command
\* are there, the user's files come first, and no file is there twice, other than those
\* that the user had twice.
InjectedOnce ==
  \A c \in Configs : config[c].exists =>
    LET files == config[c].files
        own == 1..Len(Manifest[c])
    IN
    /\ Files \subseteq Elements(files)
    /\ \A i, j \in DOMAIN files : files[i] = files[j] => i = j \/ {i, j} \subseteq own
    /\ config[c].commands = <<postInstallCommand>>
    /\ SubSeq(files, 1, Len(Manifest[c])) = Manifest[c]

\* A config of the same name in another namespace has a token secret.
Twinned(c) == LabelledSecrets(c) \ {c} # {}

\* The secrets of c, as far as they exist, are for the server at its present URL.
UpToDate(c) ==
  /\ info[c] # None => info[c].server[1] = setting.url
  /\ script[c] # None => script[c] = setting.url

\* "it is a pre-requisite for system agent installation to configure a rancher server
\* URL": once it is configured, a client that keeps trying gets its config stored and
\* an agent comes up that knows the server, past slow tokens, failed calls, crashes,
\* deletion and fewer failed downloads than RETRY_COUNT; unless a config of the same name
\* blocks it, the URL has changed since a secret was made, or the manifest has one of the
\* webhook's files without its secret.
AgentComesUp ==
  \A c \in Persistent :
    LET expected == /\ setting.url \in Urls /\ setting.ca = "pem"
                    /\ UpToDate(c)
                    /\ ~Twinned(c)
                    /\ {connectInfoJsonPath, systemAgentInstallScriptPath} \cap Elements(Manifest[c]) = {}
        connected == install[c].pc = "running" /\ install[c].info.server[1] = setting.url
    IN []<>(~expected \/ connected)
==============================================================================
