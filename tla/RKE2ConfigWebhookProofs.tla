----------------------- MODULE RKE2ConfigWebhookProofs -----------------------
(***************************************************************************)
(* Proofs about the admission webhook: for any set of configs, any         *)
(* manifests, any number of concurrent requests and any sequence of        *)
(* failures.                                                               *)
(***************************************************************************)
EXTENDS RKE2ConfigWebhook, FiniteSetTheorems, SequenceTheorems, TLAPS

-----------------------------------------------------------------------------
(* The list of files of a config.                                          *)

\* The list s with the path in it.
Add(s, path) == IF path \in Elements(s) THEN s ELSE Append(s, path)

\* The user's files, then those that the webhook adds, one after the other.
WithInfo(c) == Add(Manifest[c], connectInfoJsonPath)

WithScript(c) == Add(WithInfo(c), systemAgentInstallScriptPath)

Complete(c) == createConfigYAML(WithScript(c))

\* The list s is u and then paths that are in it once.
OnceAfter(s, u) ==
  /\ Len(u) <= Len(s)
  /\ \A i \in 1..Len(u) : s[i] = u[i]
  /\ \A i, j \in 1..Len(s) : s[i] = s[j] => i = j \/ {i, j} \subseteq 1..Len(u)

\* What Add returns: a list with the path in it, which is there once.
LEMMA AddProperties ==
  ASSUME NEW s \in Seq(Paths), NEW path \in Paths
  PROVE  /\ Add(s, path) \in Seq(Paths)
         /\ Elements(Add(s, path)) = Elements(s) \cup {path}
         /\ \A u \in Seq(Paths) : OnceAfter(s, u) => OnceAfter(Add(s, path), u)
<1> DEFINE n == Len(s)
           t == Append(s, path)
<1>1. CASE path \in Elements(s)
  <2>1. Add(s, path) = s
    BY <1>1 DEF Add
  <2> QED
    BY <1>1, <2>1
<1>2. CASE path \notin Elements(s)
  <2>1. Add(s, path) = t
    BY <1>2 DEF Add
  <2>2. /\ t \in Seq(Paths) /\ n \in Nat /\ Len(t) = n + 1 /\ t[n + 1] = path
        /\ \A i \in 1..n : t[i] = s[i]
    BY AppendProperties
  <2>3. Elements(s) = {s[i] : i \in 1..n} /\ Elements(t) = {t[i] : i \in 1..(n + 1)}
    <3>1. DOMAIN s = 1..n /\ DOMAIN t = 1..(n + 1)
      BY <2>2
    <3> HIDE DEF t, n
    <3> QED
      BY <3>1, Zenon DEF Elements
  <2> HIDE DEF t, n
  <2>4. \A i \in 1..(n + 1) : i = n + 1 \/ i \in 1..n
    BY <2>2
  <2>5. n + 1 \in 1..(n + 1) /\ \A i \in 1..n : i \in 1..(n + 1)
    BY <2>2
  <2>6. Elements(t) = Elements(s) \cup {path}
    BY <2>2, <2>3, <2>4, <2>5
  <2>7. ASSUME NEW u \in Seq(Paths), OnceAfter(s, u) PROVE OnceAfter(t, u)
    <3>1. /\ Len(u) \in Nat /\ Len(u) <= n
          /\ \A i \in 1..Len(u) : s[i] = u[i] /\ i \in 1..n
          /\ \A i, j \in 1..n : s[i] = s[j] => i = j \/ {i, j} \subseteq 1..Len(u)
      BY <2>2, <2>7 DEF OnceAfter, n
    <3>2. Len(u) <= Len(t) /\ \A i \in 1..Len(u) : t[i] = u[i]
      BY <2>2, <3>1
    <3>3. \A i \in 1..n : t[i] # path
      BY <1>2, <2>2, <2>3
    <3>4. ASSUME NEW i \in 1..(n + 1), NEW j \in 1..(n + 1), t[i] = t[j]
          PROVE  i = j \/ {i, j} \subseteq 1..Len(u)
      <4>1. CASE i = n + 1 \/ j = n + 1
        BY <2>2, <2>4, <3>3, <3>4, <4>1
      <4>2. CASE i \in 1..n /\ j \in 1..n
        BY <2>2, <3>1, <3>4, <4>2
      <4> QED
        BY <2>4, <4>1, <4>2
    <3> QED
      BY <2>2, <3>2, <3>4 DEF OnceAfter
  <2> QED
    BY <2>1, <2>2, <2>6, <2>7
<1> QED
  BY <1>1, <1>2

\* The lists, and which of the webhook's files are in which.
LEMMA FileListsOf ==
  ASSUME NEW c \in Configs
  PROVE  /\ Manifest[c] \in FileLists /\ WithInfo(c) \in FileLists /\ WithScript(c) \in FileLists
         /\ Complete(c) \in FileLists
         /\ systemAgentInstallScriptPath \in Elements(WithInfo(c)) =>
              systemAgentInstallScriptPath \in Elements(Manifest[c])
         /\ Files \subseteq Elements(Complete(c))
         /\ OnceAfter(Complete(c), Manifest[c])
<1> DEFINE i == connectInfoJsonPath
           s == systemAgentInstallScriptPath
           y == configYAMLPath
           m == Manifest[c]
           l1 == WithInfo(c)
           l2 == WithScript(c)
           l3 == Complete(c)
<1>1. i \in Paths /\ s \in Paths /\ y \in Paths /\ i # s /\ Files = {i, s, y}
  <2>1. Files = {i, s, y} /\ Files \subseteq Paths
    BY Zenon DEF Files, Paths
  <2>2. i # s
    BY DEF connectInfoJsonPath, systemAgentInstallScriptPath
  <2> QED
    BY <2>1, <2>2, Zenon
<1>2. m \in Seq(Paths)
  <2>1. m \in Seq(STRING)
    BY WebhookNames
  <2>2. \A k \in DOMAIN m : m[k] \in Paths
    <3>1. \A k \in DOMAIN m : m[k] \in Elements(m)
      BY Zenon DEF Elements
    <3>2. Elements(m) \subseteq Paths
      BY DEF Paths
    <3> QED
      BY <3>1, <3>2, Zenon
  <2> HIDE DEF m
  <2> QED
    BY <2>1, <2>2
<1>3. l1 = Add(m, i) /\ l2 = Add(l1, s) /\ l3 = Add(l2, y)
  BY Zenon DEF WithInfo, WithScript, Complete, createConfigYAML, Add
<1> HIDE DEF i, s, y, m, l1, l2, l3
<1>4. OnceAfter(m, m)
  <2>1. Len(m) \in Nat
    BY <1>2
  <2> QED
    BY <2>1 DEF OnceAfter
<1>5. l1 \in Seq(Paths) /\ Elements(l1) = Elements(m) \cup {i} /\ OnceAfter(l1, m)
  BY <1>1, <1>2, <1>3, <1>4, AddProperties, Zenon
<1>6. l2 \in Seq(Paths) /\ Elements(l2) = Elements(l1) \cup {s} /\ OnceAfter(l2, m)
  BY <1>1, <1>2, <1>3, <1>5, AddProperties, Zenon
<1>7. l3 \in Seq(Paths) /\ Elements(l3) = Elements(l2) \cup {y} /\ OnceAfter(l3, m)
  BY <1>1, <1>2, <1>3, <1>6, AddProperties, Zenon
<1>8. (s \in Elements(l1) => s \in Elements(m)) /\ Files \subseteq Elements(l3)
  BY <1>1, <1>5, <1>6, <1>7, Zenon
<1> QED
  BY <1>2, <1>5, <1>6, <1>7, <1>8, Zenon DEF FileLists, i, s, y, m, l1, l2, l3

\* The user's files come first.
LEMMA UserFilesFirst ==
  ASSUME NEW c \in Configs
  PROVE  SubSeq(Complete(c), 1, Len(Manifest[c])) = Manifest[c]
<1> DEFINE u == Manifest[c]
           s == Complete(c)
           t == SubSeq(s, 1, Len(u))
<1>1. u \in Seq(Paths) /\ s \in Seq(Paths) /\ OnceAfter(s, u)
  BY FileListsOf DEF FileLists
<1> HIDE DEF u, s
<1>2. /\ Len(u) \in Nat /\ Len(s) \in Nat /\ Len(u) <= Len(s)
      /\ \A i \in 1..Len(u) : s[i] = u[i] /\ s[i] \in Paths
  BY <1>1 DEF OnceAfter
<1>3. /\ t \in Seq(Paths) /\ Len(t) = Len(u)
      /\ \A i \in 1..Len(u) : t[i] = s[i]
  <2>1. 1 \in Int /\ Len(u) \in Int /\ \A i \in 1..Len(u) : s[i] \in Paths
    BY <1>2
  <2>2. /\ t \in Seq(Paths)
        /\ Len(t) = IF 1 <= Len(u) THEN Len(u) - 1 + 1 ELSE 0
        /\ \A i \in 1..(Len(u) - 1 + 1) : t[i] = s[1 + i - 1]
    BY <2>1, SubSeqProperties
  <2> HIDE DEF t
  <2> QED
    BY <1>2, <2>2
<1> HIDE DEF t
<1>4. \A i \in 1..Len(t) : t[i] = u[i]
  BY <1>2, <1>3
<1>5. t = u
  BY <1>1, <1>3, <1>4, SeqEqual
<1> QED
  BY <1>5 DEF t, u, s

-----------------------------------------------------------------------------
(* The inductive invariant.                                                *)

\* All of the resources of the plan.
AllResources == Elements(planResources)

\* The request has made i - 1 of the resources, and i is next.
CreatedBefore(q, i) ==
  /\ req[q].todo = SubSeq(planResources, i, 5)
  /\ \A j \in 1..(i - 1) : planResources[j] \in resource[req[q].config]

\* The secret behind the file exists, or the user's manifest has brought the file.
HasInfo(c) == connectInfoJsonPath \in Elements(Manifest[c]) \/ info[c] # None

HasScript(c) == systemAgentInstallScriptPath \in Elements(Manifest[c]) \/ script[c] # None

\* What the calls that a request has made so far have left behind.
RequestMade(q) ==
  LET r == req[q]
      c == r.config
  IN
  /\ c \in Configs
  /\ r.pc = "create" => \E i \in 1..5 : CreatedBefore(q, i)
  /\ r.pc # "create" => resource[c] = AllResources
  /\ r.pc \notin {"create", "token"} => r.token = c /\ c \in token
  /\ r.pc \in {"ca", "connect", "script", "respond"} => r.url \in Urls
  /\ r.pc \in {"connect", "script", "respond"} => r.pem \in CACerts
  /\ r.pc \in {"script", "respond"} => HasInfo(c)
  /\ r.pc = "respond" => HasScript(c)

\* Which files are in the object that the request will return: all of them if it is an
\* update of the stored object, else the user's and those that were added so far.
RequestFiles(q) ==
  LET r == req[q]
      c == r.config
  IN
  \/ r.files = Complete(c) /\ HasInfo(c) /\ HasScript(c)
  \/ r.files = Manifest[c] /\ r.pc \notin {"script", "respond"}
  \/ r.files = WithInfo(c) /\ r.pc = "script"
  \/ r.files = WithScript(c) /\ r.pc = "respond"

RequestInv == \A q \in Requests : req[q].pc # "idle" => RequestMade(q) /\ RequestFiles(q)

\* The connect info i is that of config c.
OwnInfo(c, i) ==
  /\ i \in ConnectInfos
  /\ i.token = c /\ <<i.namespace, i.secretName>> = c

SecretInv == \A c \in Configs : info[c] # None => OwnInfo(c, info[c])

\* A stored config is complete, and so is what it refers to.
StoredInv ==
  \A c \in Configs : config[c].exists =>
    /\ config[c].files = Complete(c) /\ config[c].commands = <<postInstallCommand>>
    /\ resource[c] = AllResources /\ c \in token
    /\ HasInfo(c) /\ HasScript(c)

\* The script on a machine is past a download only with the whole file.
InstallInv ==
  \A c \in Configs : install[c].pc # "none" =>
    /\ OwnInfo(c, install[c].info)
    /\ install[c].pc \in {"cert", "binary"} => install[c].retries \in 1..RetryCount
    /\ install[c].pc \in {"binary", "service", "running"} => install[c].cert = "whole"
    /\ install[c].pc \in {"service", "running"} => install[c].binary = "whole"

WebhookInv == TypeOK /\ RequestInv /\ SecretInv /\ StoredInv /\ InstallInv

-----------------------------------------------------------------------------
(* Who changes what.                                                       *)

\* Each object is written by few actions.
LEMMA Writers ==
  ASSUME [Next]_vars
  PROVE  /\ UNCHANGED resource \/ \E q \in Requests : createSecretPlanResources(q)
         /\ UNCHANGED token \/ \E c \in Configs : TokenController(c)
         /\ UNCHANGED info \/ \E q \in Requests : createConnectInfoJson(q)
         /\ UNCHANGED script \/ \E q \in Requests : createSystemAgentInstallScript(q)
         /\ UNCHANGED setting \/ SetServerUrl
         /\ UNCHANGED config \/ (\E q \in Requests : Respond(q)) \/ \E c \in Configs : DeleteConfig(c)
         /\ UNCHANGED install \/ \E c \in Configs : Boot(c) \/ Download(c) \/ Start(c) \/ DeleteConfig(c)
         /\ \/ UNCHANGED req
            \/ \E q \in Requests : Handle(q) \/ CallFails(q)
            \/ \E q \in Requests, c \in Configs :
                 CreateConfig(q, c) \/ UpdateConfig(q, c) \/ DryRun(q, c)
            \/ Crash
         /\ UNCHANGED faults \/ (faults < MaxFaults /\ faults' = faults + 1)
<1>1. CASE UNCHANGED vars
  BY <1>1 DEF vars
<1>2. ASSUME NEW q \in Requests, NEW c \in Configs,
             CreateConfig(q, c) \/ UpdateConfig(q, c) \/ DryRun(q, c)
      PROVE  /\ UNCHANGED <<resource, token, info, script, setting, config, install>>
             /\ UNCHANGED faults \/ (faults < MaxFaults /\ faults' = faults + 1)
  BY <1>2, Zenon DEF CreateConfig, UpdateConfig, DryRun, Submit, Disturbance
<1>3. ASSUME NEW q \in Requests, Handle(q)
      PROVE  /\ UNCHANGED <<token, setting, install, faults>>
             /\ UNCHANGED resource \/ createSecretPlanResources(q)
             /\ UNCHANGED info \/ createConnectInfoJson(q)
             /\ UNCHANGED script \/ createSystemAgentInstallScript(q)
             /\ UNCHANGED config \/ Respond(q)
  <2>1. CASE createSecretPlanResources(q)
    BY <2>1, Zenon DEF createSecretPlanResources
  <2>2. CASE ensureServiceAccountSecretPopulated(q)
    BY <2>2, Zenon DEF ensureServiceAccountSecretPopulated, RequestOnly
  <2>3. CASE getServerUrl(q) \/ getCACerts(q)
    BY <2>3, Zenon DEF getServerUrl, getCACerts, RequestOnly
  <2>4. CASE createConnectInfoJson(q)
    BY <2>4, Zenon DEF createConnectInfoJson
  <2>5. CASE createSystemAgentInstallScript(q)
    BY <2>5, Zenon DEF createSystemAgentInstallScript
  <2>6. CASE Respond(q)
    BY <2>6, Zenon DEF Respond
  <2> QED
    BY <1>3, <2>1, <2>2, <2>3, <2>4, <2>5, <2>6, Zenon DEF Handle
<1>4. ASSUME NEW q \in Requests, CallFails(q)
      PROVE  /\ UNCHANGED <<resource, token, info, script, setting, config, install>>
             /\ faults < MaxFaults /\ faults' = faults + 1
  BY <1>4, Zenon DEF CallFails, Disturbance
<1>5. ASSUME NEW c \in Configs, TokenController(c)
      PROVE  /\ UNCHANGED <<resource, info, script, setting, config, install, req, faults>>
             /\ UNCHANGED token \/ TokenController(c)
  BY <1>5, Zenon DEF TokenController
<1>6. ASSUME NEW c \in Configs, DeleteConfig(c) \/ Boot(c) \/ Download(c) \/ Start(c)
      PROVE  /\ UNCHANGED <<resource, token, info, script, setting, req>>
             /\ UNCHANGED config \/ DeleteConfig(c)
             /\ UNCHANGED faults \/ (faults < MaxFaults /\ faults' = faults + 1)
  BY <1>6, Zenon DEF DeleteConfig, Boot, Download, Start, Disturbance
<1>7. CASE SetServerUrl
  BY <1>7, Zenon DEF SetServerUrl, Disturbance
<1>8. CASE Crash
  BY <1>8, Zenon DEF Crash, Disturbance
<1> QED
  BY <1>1, <1>2, <1>3, <1>4, <1>5, <1>6, <1>7, <1>8, Zenon DEF Next

\* What exists is left as it is, and more may come to exist.
Grows ==
  /\ \A c \in Configs : resource[c] \subseteq resource'[c]
  /\ token \subseteq token'
  /\ \A c \in Configs : /\ info[c] # None => info'[c] = info[c]
                        /\ script[c] # None => script'[c] = script[c]

LEMMA ExistingGrows ==
  ASSUME TypeOK, [Next]_vars
  PROVE  Grows
<1>1. \A c \in Configs : resource[c] \subseteq resource'[c]
  <2>1. ASSUME NEW q \in Requests, createSecretPlanResources(q), NEW c \in Configs
        PROVE  resource[c] \subseteq resource'[c]
    BY <2>1 DEF createSecretPlanResources, TypeOK
  <2> QED
    BY <2>1, Writers
<1>2. token \subseteq token'
  BY Writers DEF TokenController
<1>3. ASSUME NEW c \in Configs, info[c] # None PROVE info'[c] = info[c]
  <2>1. ASSUME NEW q \in Requests, createConnectInfoJson(q) PROVE info'[c] = info[c]
    <3>1. info \in [Configs -> ConnectInfos \cup {None}]
      BY DEF TypeOK
    <3> QED
      BY <1>3, <2>1, <3>1 DEF createConnectInfoJson
  <2> QED
    BY <2>1, Writers
<1>4. ASSUME NEW c \in Configs, script[c] # None PROVE script'[c] = script[c]
  <2>1. ASSUME NEW q \in Requests, createSystemAgentInstallScript(q) PROVE script'[c] = script[c]
    <3>1. script \in [Configs -> Urls \cup {None}]
      BY DEF TypeOK
    <3> QED
      BY <1>4, <2>1, <3>1 DEF createSystemAgentInstallScript
  <2> QED
    BY <2>1, Writers
<1> QED
  BY <1>1, <1>2, <1>3, <1>4 DEF Grows

-----------------------------------------------------------------------------
(* The requests.                                                           *)

\* The loop of createSecretPlanResources takes one resource after the other.
LEMMA ResourceLoop ==
  /\ planResources = SubSeq(planResources, 1, 5)
  /\ \A i \in 1..5 : /\ Head(SubSeq(planResources, i, 5)) = planResources[i]
                     /\ Tail(SubSeq(planResources, i, 5)) = SubSeq(planResources, i + 1, 5)
                     /\ Len(SubSeq(planResources, i, 5)) = 6 - i
                     /\ planResources[i] \in AllResources
  /\ AllResources = {planResources[j] : j \in 1..5}
<1> DEFINE p == planResources
<1>1. p \in Seq(AllResources) /\ Len(p) = 5 /\ AllResources = {p[j] : j \in 1..5}
  BY DEF planResources, AllResources, Elements
<1> HIDE DEF p
<1>2. p = SubSeq(p, 1, 5)
  BY <1>1, SubSeqFull
<1>3. ASSUME NEW i \in 1..5
      PROVE  /\ Head(SubSeq(p, i, 5)) = p[i] /\ Tail(SubSeq(p, i, 5)) = SubSeq(p, i + 1, 5)
             /\ p[i] \in AllResources
  <2>1. i \in 1..Len(p) /\ 5 \in i..Len(p)
    BY <1>1
  <2> QED
    BY <1>1, <2>1, HeadTailOfSubSeq
<1>4. ASSUME NEW i \in 1..5 PROVE Len(SubSeq(p, i, 5)) = 6 - i
  <2>1. \A j \in i..5 : p[j] \in AllResources
    BY <1>3
  <2>2. Len(SubSeq(p, i, 5)) = IF i <= 5 THEN 5 - i + 1 ELSE 0
    BY <2>1, SubSeqProperties
  <2> QED
    BY <2>2
<1> QED
  BY <1>1, <1>2, <1>3, <1>4 DEF p

\* A request whose own token secret is labelled finds one secret only if that is its own.
LEMMA OneSecretIsOwn ==
  ASSUME NEW c \in Configs, "Token" \in resource[c], Cardinality(LabelledSecrets(c)) = 1
  PROVE  LabelledSecrets(c) = {c}
<1>1. c \in LabelledSecrets(c) /\ LabelledSecrets(c) \subseteq Configs
  BY DEF LabelledSecrets
<1>2. IsFiniteSet(LabelledSecrets(c))
  BY <1>1, WebhookNames, FS_Subset
<1>3. PICK d : LabelledSecrets(c) = {d}
  BY <1>2, FS_Singleton
<1> QED
  BY <1>1, <1>3

\* A secret that exists, or need not, stays.
LEMMA SecretsKept ==
  ASSUME Grows, NEW c \in Configs
  PROVE  (HasInfo(c) => HasInfo(c)') /\ (HasScript(c) => HasScript(c)')
BY DEF Grows, HasInfo, HasScript

\* What a request has made and added stays true when the rest of the world moves.
LEMMA RequestKept ==
  ASSUME Grows, resource' \in [Configs -> SUBSET AllResources],
         NEW q \in Requests, req'[q] = req[q], RequestMade(q), RequestFiles(q)
  PROVE  RequestMade(q)' /\ RequestFiles(q)'
<1> DEFINE c == req[q].config
<1>1. c \in Configs /\ req'[q].config = c
  BY DEF RequestMade
<1>2. /\ resource[c] \subseteq resource'[c] /\ resource'[c] \subseteq AllResources
      /\ c \in token => c \in token'
      /\ HasInfo(c) => HasInfo(c)'
      /\ HasScript(c) => HasScript(c)'
  BY <1>1, SecretsKept DEF Grows
<1>3. ASSUME NEW i \in 1..5, CreatedBefore(q, i) PROVE CreatedBefore(q, i)'
  BY <1>2, <1>3 DEF CreatedBefore
<1>4. RequestMade(q)'
  <2>1. req[q].pc = "create" => \E i \in 1..5 : CreatedBefore(q, i)'
    BY <1>3 DEF RequestMade
  <2>2. req[q].pc # "create" => resource'[c] = AllResources
    BY <1>1, <1>2 DEF RequestMade
  <2> QED
    BY <1>1, <1>2, <2>1, <2>2 DEF RequestMade
<1>5. RequestFiles(q)'
  BY <1>1, <1>2, Zenon DEF RequestFiles
<1> QED
  BY <1>4, <1>5

\* The empty parts of a request that is not in progress.
LEMMA IdleTypes ==
  /\ NoConfig \in ConfigObjects
  /\ IdleReq \in Admissions
  /\ IdleReq.pc = "idle"
<1>1. <<>> \in FileLists /\ <<>> \in CommandLists
  BY DEF FileLists, CommandLists
<1>2. NoConfig \in ConfigObjects
  BY <1>1 DEF NoConfig, ConfigObjects
<1>3. <<>> \in {SubSeq(planResources, i, 5) : i \in 1..6}
  <2>1. SubSeq(planResources, 6, 5) = <<>>
    BY SubSeqEmpty
  <2> QED
    BY <2>1
<1>4. 0 \in 0..(Steps - 1)
  BY WebhookNames
<1> QED
  BY <1>1, <1>2, <1>3, <1>4 DEF IdleReq, Admissions

\* The request q goes on as r, having made and added what it should.
GoesOn(q, r) ==
  /\ r \in Admissions
  /\ req' = [req EXCEPT ![q] = r]
  /\ r.pc # "idle" => RequestMade(q)' /\ RequestFiles(q)'

LEMMA SubmitGoesOn ==
  ASSUME TypeOK, NEW q \in Requests, NEW c \in Configs, NEW dry \in BOOLEAN,
         NEW files, NEW commands \in CommandLists,
         files = Manifest[c] \/ (files = Complete(c) /\ HasInfo(c) /\ HasScript(c)),
         Submit(q, c, dry, files, commands)
  PROVE  \E r : GoesOn(q, r)
<1> DEFINE r == [IdleReq EXCEPT !.pc = "create", !.config = c, !.dry = dry,
                                !.base = config[c], !.todo = planResources,
                                !.files = files, !.commands = commands]
<1>1. files \in FileLists
  BY FileListsOf
<1>2. config[c] \in ConfigObjects
  BY DEF TypeOK
<1>3. planResources \in {SubSeq(planResources, i, 5) : i \in 1..6}
  BY ResourceLoop
<1>4. /\ r \in Admissions /\ r.pc = "create" /\ r.config = c /\ r.files = files
      /\ r.todo = planResources
  BY <1>1, <1>2, <1>3, IdleTypes DEF Admissions
<1> HIDE DEF r
<1>5. req' = [req EXCEPT ![q] = r] /\ info' = info /\ script' = script
  BY DEF Submit, r
<1>6. req'[q] = r
  BY <1>5 DEF TypeOK
<1>7. CreatedBefore(q, 1)'
  BY <1>4, <1>6, ResourceLoop DEF CreatedBefore
<1>8. RequestMade(q)'
  BY <1>4, <1>6, <1>7 DEF RequestMade
<1>9. RequestFiles(q)'
  BY <1>4, <1>5, <1>6 DEF RequestFiles, HasInfo, HasScript
<1> QED
  BY <1>4, <1>5, <1>8, <1>9 DEF GoesOn

LEMMA RejectGoesOn ==
  ASSUME NEW q \in Requests, Reject(q)
  PROVE  \E r : GoesOn(q, r)
BY IdleTypes DEF Reject, GoesOn

LEMMA CreateGoesOn ==
  ASSUME TypeOK, NEW q \in Requests, RequestMade(q), RequestFiles(q), createSecretPlanResources(q)
  PROVE  (\E r : GoesOn(q, r)) /\ resource' \in [Configs -> SUBSET AllResources]
<1> DEFINE c == req[q].config
           pc == IF Len(req[q].todo) = 1 THEN "token" ELSE req[q].pc
           r == [req[q] EXCEPT !.todo = Tail(req[q].todo), !.pc = pc]
<1>1. c \in Configs /\ req[q].pc = "create" /\ info' = info /\ script' = script
  BY DEF RequestMade, createSecretPlanResources
<1>2. PICK i \in 1..5 : CreatedBefore(q, i)
  BY <1>1 DEF RequestMade
<1>3. /\ Tail(req[q].todo) = SubSeq(planResources, i + 1, 5)
      /\ Head(req[q].todo) = planResources[i] /\ Len(req[q].todo) = 6 - i
      /\ planResources[i] \in AllResources
  BY <1>2, ResourceLoop DEF CreatedBefore
<1>4. Tail(req[q].todo) \in {SubSeq(planResources, k, 5) : k \in 1..6}
  <2>1. i + 1 \in 1..6
    OBVIOUS
  <2> QED
    BY <1>3, <2>1, Zenon
<1>5. req[q] \in Admissions /\ req \in [Requests -> Admissions]
  BY DEF TypeOK
<1>6. /\ r \in Admissions /\ r.todo = SubSeq(planResources, i + 1, 5) /\ r.config = c
      /\ r.files = req[q].files
      /\ r.pc = IF i = 5 THEN "token" ELSE "create"
  <2>1. pc = IF i = 5 THEN "token" ELSE "create"
    BY <1>1, <1>3
  <2>2. pc \in {"token", "create"}
    BY <2>1
  <2> DEFINE todo == Tail(req[q].todo)
  <2>3. todo \in {SubSeq(planResources, k, 5) : k \in 1..6} /\ todo = SubSeq(planResources, i + 1, 5)
    BY <1>3, <1>4
  <2> HIDE DEF pc, todo
  <2>4. /\ r \in Admissions /\ r.config = c /\ r.files = req[q].files /\ r.todo = todo /\ r.pc = pc
    BY <1>5, <2>2, <2>3 DEF Admissions, todo
  <2> QED
    BY <2>1, <2>3, <2>4
<1>7. req' = [req EXCEPT ![q] = r]
  BY <1>5 DEF createSecretPlanResources, Created
<1> HIDE DEF r
<1>8. req'[q] = r
  BY <1>5, <1>7
<1>9. /\ resource' = [resource EXCEPT ![c] = @ \cup {planResources[i]}]
      /\ resource \in [Configs -> SUBSET AllResources]
  BY <1>3 DEF createSecretPlanResources, TypeOK, AllResources
<1>10. /\ resource' \in [Configs -> SUBSET AllResources]
       /\ \A j \in 1..i : planResources[j] \in resource'[c]
  <2>1. resource'[c] = resource[c] \cup {planResources[i]}
    BY <1>1, <1>9
  <2>2. \A j \in 1..(i - 1) : planResources[j] \in resource[c]
    BY <1>2 DEF CreatedBefore
  <2>3. \A j \in 1..i : j = i \/ j \in 1..(i - 1)
    OBVIOUS
  <2>4. \A j \in 1..i : planResources[j] \in resource'[c]
    BY <2>1, <2>2, <2>3, Zenon
  <2>5. resource' \in [Configs -> SUBSET AllResources]
    BY <1>1, <1>3, <1>9
  <2> QED
    BY <2>4, <2>5
<1>11. RequestMade(q)'
  <2>1. CASE i = 5
    <3>1. resource'[c] = AllResources
      BY <1>1, <1>10, <2>1, ResourceLoop
    <3> QED
      BY <1>1, <1>6, <1>8, <2>1, <3>1 DEF RequestMade
  <2>2. CASE i # 5
    <3>1. i + 1 \in 1..5 /\ CreatedBefore(q, i + 1)'
      BY <1>6, <1>8, <1>10, <2>2 DEF CreatedBefore
    <3> QED
      BY <1>1, <1>6, <1>8, <2>2, <3>1 DEF RequestMade
  <2> QED
    BY <2>1, <2>2
<1>12. RequestFiles(q)'
  BY <1>1, <1>6, <1>8 DEF RequestFiles, HasInfo, HasScript
<1> QED
  BY <1>6, <1>7, <1>10, <1>11, <1>12 DEF GoesOn

\* Another attempt to find the populated token.
LEMMA RetryGoesOn ==
  ASSUME TypeOK, NEW q \in Requests, RequestMade(q), RequestFiles(q), req[q].pc = "token",
         req[q].tries + 1 < Steps, req' = [req EXCEPT ![q].tries = @ + 1],
         UNCHANGED <<resource, token, info, script>>
  PROVE  \E r : GoesOn(q, r)
<1> DEFINE r == [req[q] EXCEPT !.tries = req[q].tries + 1]
<1>1. req[q] \in Admissions /\ req \in [Requests -> Admissions]
  BY DEF TypeOK
<1>2. req[q].tries + 1 \in 0..(Steps - 1)
  BY <1>1, WebhookNames DEF Admissions
<1>3. /\ r \in Admissions /\ r.pc = "token" /\ r.config = req[q].config /\ r.files = req[q].files
  BY <1>1, <1>2 DEF Admissions
<1>4. req' = [req EXCEPT ![q] = r]
  BY <1>1
<1> HIDE DEF r
<1>5. req'[q] = r
  BY <1>1, <1>4
<1>6. RequestMade(q)'
  BY <1>3, <1>5 DEF RequestMade
<1>7. RequestFiles(q)'
  BY <1>3, <1>5 DEF RequestFiles, HasInfo, HasScript
<1> QED
  BY <1>3, <1>4, <1>6, <1>7 DEF GoesOn

LEMMA TokenGoesOn ==
  ASSUME TypeOK, NEW q \in Requests, RequestMade(q), RequestFiles(q),
         ensureServiceAccountSecretPopulated(q)
  PROVE  \E r : GoesOn(q, r)
<1> DEFINE c == req[q].config
           found == LabelledSecrets(c)
           populated == Cardinality(found) = 1 /\ found \subseteq token
<1>1. c \in Configs /\ req[q].pc = "token" /\ UNCHANGED <<resource, token, info, script>>
  BY DEF RequestMade, ensureServiceAccountSecretPopulated, RequestOnly
<1>2. "Token" \in resource[c]
  BY <1>1 DEF RequestMade, AllResources, Elements, planResources
<1>3. ASSUME populated, NEW d \in found, req' = [req EXCEPT ![q].pc = "url", ![q].token = d]
      PROVE  \E r : GoesOn(q, r)
  <2> DEFINE r == [req[q] EXCEPT !.pc = "url", !.token = d]
  <2>1. d = c /\ c \in token
    BY <1>1, <1>2, <1>3, OneSecretIsOwn
  <2>2. req[q] \in Admissions /\ req \in [Requests -> Admissions]
    BY DEF TypeOK
  <2>3. /\ r \in Admissions /\ r.pc = "url" /\ r.config = c /\ r.files = req[q].files
        /\ r.token = c
    BY <1>1, <2>1, <2>2 DEF Admissions
  <2>4. req' = [req EXCEPT ![q] = r]
    BY <1>3, <2>2
  <2> HIDE DEF r
  <2>5. req'[q] = r
    BY <2>2, <2>4
  <2>6. RequestMade(q)'
    BY <1>1, <2>1, <2>3, <2>5 DEF RequestMade
  <2>7. RequestFiles(q)'
    BY <1>1, <2>3, <2>5 DEF RequestFiles, HasInfo, HasScript
  <2> QED
    BY <2>3, <2>4, <2>6, <2>7 DEF GoesOn
<1> HIDE DEF found
<1>4. \/ populated /\ \E d \in found : req' = [req EXCEPT ![q].pc = "url", ![q].token = d]
      \/ req[q].tries + 1 < Steps /\ req' = [req EXCEPT ![q].tries = @ + 1]
      \/ Reject(q)
  BY DEF ensureServiceAccountSecretPopulated, found
<1> QED
  BY <1>1, <1>3, <1>4, RejectGoesOn, RetryGoesOn

LEMMA SettingsGoOn ==
  ASSUME TypeOK, NEW q \in Requests, RequestMade(q), RequestFiles(q), getServerUrl(q) \/ getCACerts(q)
  PROVE  \E r : GoesOn(q, r)
<1>1. req[q] \in Admissions /\ req \in [Requests -> Admissions] /\ setting.ca \in CACerts
  BY DEF TypeOK
<1>2. UNCHANGED <<resource, token, info, script>>
  BY DEF getServerUrl, getCACerts, RequestOnly
<1>3. ASSUME getServerUrl(q), setting.url # EmptyUrl,
             req' = [req EXCEPT ![q].pc = "ca", ![q].url = setting.url]
      PROVE  \E r : GoesOn(q, r)
  <2> DEFINE r == [req[q] EXCEPT !.pc = "ca", !.url = setting.url]
  <2>1. setting.url \in Urls /\ req[q].pc = "url"
    BY <1>3 DEF TypeOK, getServerUrl
  <2>2. /\ r \in Admissions /\ r.pc = "ca" /\ r.config = req[q].config /\ r.files = req[q].files
        /\ r.token = req[q].token /\ r.url \in Urls
    BY <1>1, <2>1 DEF Admissions
  <2>3. req' = [req EXCEPT ![q] = r]
    BY <1>1, <1>3
  <2> HIDE DEF r
  <2>4. req'[q] = r
    BY <1>1, <2>3
  <2>5. RequestMade(q)'
    BY <1>2, <2>1, <2>2, <2>4 DEF RequestMade
  <2>6. RequestFiles(q)'
    BY <1>2, <2>1, <2>2, <2>4 DEF RequestFiles, HasInfo, HasScript
  <2> QED
    BY <2>2, <2>3, <2>5, <2>6 DEF GoesOn
<1>4. CASE getCACerts(q)
  <2> DEFINE r == [req[q] EXCEPT !.pc = "connect", !.pem = setting.ca]
  <2>1. req[q].pc = "ca" /\ req' = [req EXCEPT ![q].pc = "connect", ![q].pem = setting.ca]
    BY <1>4 DEF getCACerts
  <2>2. /\ r \in Admissions /\ r.pc = "connect" /\ r.config = req[q].config
        /\ r.files = req[q].files
        /\ r.token = req[q].token /\ r.url = req[q].url /\ r.pem \in CACerts
    BY <1>1, <2>1 DEF Admissions
  <2>3. req' = [req EXCEPT ![q] = r]
    BY <1>1, <2>1
  <2> HIDE DEF r
  <2>4. req'[q] = r
    BY <1>1, <2>3
  <2>5. RequestMade(q)'
    <3>1. /\ req[q].config \in Configs /\ resource[req[q].config] = AllResources
          /\ req[q].token = req[q].config /\ req[q].config \in token /\ req[q].url \in Urls
      BY <2>1 DEF RequestMade
    <3> QED
      BY <1>2, <2>2, <2>4, <3>1 DEF RequestMade
  <2>6. RequestFiles(q)'
    BY <1>2, <2>1, <2>2, <2>4 DEF RequestFiles, HasInfo, HasScript
  <2> QED
    BY <2>2, <2>3, <2>5, <2>6 DEF GoesOn
<1> QED
  BY <1>3, <1>4, RejectGoesOn DEF getServerUrl

\* The connect info that is stored says what the config's own agent needs.
LEMMA NewInfoIsOwn ==
  ASSUME NEW q \in Requests, RequestMade(q), req[q].pc = "connect"
  PROVE  LET c == req[q].config IN
         OwnInfo(c, [namespace |-> c[1], secretName |-> c[2],
                     server |-> <<req[q].url, req[q].pem>>, token |-> req[q].token])
<1> DEFINE c == req[q].config
<1>1. /\ c \in Configs /\ req[q].token = c /\ req[q].url \in Urls /\ req[q].pem \in CACerts
  BY DEF RequestMade
<1>2. c = <<c[1], c[2]>>
  BY <1>1, WebhookNames
<1> QED
  BY <1>1, <1>2 DEF OwnInfo, ConnectInfos

LEMMA ConnectGoesOn ==
  ASSUME TypeOK, NEW q \in Requests, RequestMade(q), RequestFiles(q), createConnectInfoJson(q)
  PROVE  /\ \E r : GoesOn(q, r)
         /\ info' \in [Configs -> ConnectInfos \cup {None}]
<1> DEFINE c == req[q].config
           path == connectInfoJsonPath
           files == IF path \in Elements(req[q].files) THEN req[q].files ELSE Append(req[q].files, path)
           r == [req[q] EXCEPT !.pc = "script", !.files = files]
           new == [namespace |-> c[1], secretName |-> c[2],
                   server |-> <<req[q].url, req[q].pem>>, token |-> req[q].token]
<1>1. /\ c \in Configs /\ req[q].pc = "connect" /\ UNCHANGED <<resource, token, script>>
      /\ req[q].token = c /\ c \in token /\ resource[c] = AllResources
      /\ req[q].url \in Urls /\ req[q].pem \in CACerts
  BY DEF RequestMade, createConnectInfoJson
<1>2. req[q] \in Admissions /\ req \in [Requests -> Admissions]
  BY DEF TypeOK
<1>3. path \in Elements(Complete(c))
  BY <1>1, FileListsOf DEF Files
<1>4. /\ \/ req[q].files = Complete(c) /\ HasInfo(c) /\ HasScript(c) /\ files = Complete(c)
         \/ req[q].files = Manifest[c] /\ files = WithInfo(c)
      /\ path \in Elements(req[q].files) => HasInfo(c)
  <2>1. CASE req[q].files = Complete(c) /\ HasInfo(c) /\ HasScript(c)
    BY <1>3, <2>1
  <2>2. CASE req[q].files = Manifest[c]
    BY <2>2, Zenon DEF WithInfo, Add, HasInfo
  <2> QED
    BY <1>1, <2>1, <2>2 DEF RequestFiles
<1>5. files \in FileLists
  BY <1>1, <1>4, FileListsOf, Zenon
<1>6. req' = [req EXCEPT ![q] = r]
  BY <1>2 DEF createConnectInfoJson, AddFile
<1>7. /\ r \in Admissions /\ r.pc = "script" /\ r.config = c /\ r.files = files
      /\ r.token = req[q].token /\ r.url = req[q].url /\ r.pem = req[q].pem
  <2> HIDE DEF files
  <2> QED
    BY <1>2, <1>5 DEF Admissions
<1> HIDE DEF r, files, path
<1>8. req'[q] = r
  BY <1>2, <1>6
<1>9. new \in ConnectInfos /\ new # None
  BY <1>1, NewInfoIsOwn, NoInfo DEF OwnInfo
<1> HIDE DEF new
<1>10. info' = IF path \in Elements(req[q].files) \/ info[c] # None THEN info
               ELSE [info EXCEPT ![c] = new]
  BY DEF createConnectInfoJson, path, new
<1>11. info' \in [Configs -> ConnectInfos \cup {None}] /\ HasInfo(c)'
  <2>1. info \in [Configs -> ConnectInfos \cup {None}]
    BY DEF TypeOK
  <2>2. CASE path \in Elements(req[q].files) \/ info[c] # None
    BY <1>4, <1>7, <1>8, <1>10, <2>1, <2>2 DEF HasInfo
  <2>3. CASE ~(path \in Elements(req[q].files) \/ info[c] # None)
    BY <1>1, <1>7, <1>8, <1>9, <1>10, <2>1, <2>3 DEF HasInfo
  <2> QED
    BY <2>2, <2>3
<1>12. HasScript(c) => HasScript(c)'
  BY <1>1, <1>7, <1>8 DEF HasScript
<1>13. RequestMade(q)'
  BY <1>1, <1>7, <1>8, <1>11 DEF RequestMade
<1>14. RequestFiles(q)'
  BY <1>4, <1>7, <1>8, <1>11, <1>12, Zenon DEF RequestFiles
<1> QED
  BY <1>6, <1>7, <1>11, <1>13, <1>14 DEF GoesOn

LEMMA ScriptGoesOn ==
  ASSUME TypeOK, NEW q \in Requests, RequestMade(q), RequestFiles(q), createSystemAgentInstallScript(q)
  PROVE  /\ \E r : GoesOn(q, r)
         /\ script' \in [Configs -> Urls \cup {None}]
<1> DEFINE c == req[q].config
           path == systemAgentInstallScriptPath
           files == IF path \in Elements(req[q].files) THEN req[q].files ELSE Append(req[q].files, path)
           r == [req[q] EXCEPT !.pc = "respond", !.files = files]
<1>1. /\ c \in Configs /\ req[q].pc = "script" /\ UNCHANGED <<resource, token, info>>
      /\ req[q].token = c /\ c \in token /\ resource[c] = AllResources /\ HasInfo(c)
      /\ req[q].url \in Urls /\ req[q].pem \in CACerts
  BY DEF RequestMade, createSystemAgentInstallScript
<1>2. req[q] \in Admissions /\ req \in [Requests -> Admissions]
  BY DEF TypeOK
<1>3. path \in Elements(Complete(c)) /\ (path \in Elements(WithInfo(c)) => HasScript(c))
  BY <1>1, FileListsOf DEF Files, HasScript
<1>4. /\ \/ req[q].files = Complete(c) /\ HasScript(c) /\ files = Complete(c)
         \/ req[q].files = WithInfo(c) /\ files = WithScript(c)
      /\ path \in Elements(req[q].files) => HasScript(c)
  <2>1. CASE req[q].files = Complete(c) /\ HasScript(c)
    BY <1>3, <2>1
  <2>2. CASE req[q].files = WithInfo(c)
    BY <1>3, <2>2, Zenon DEF WithScript, Add
  <2> QED
    BY <1>1, <2>1, <2>2 DEF RequestFiles
<1>5. files \in FileLists
  BY <1>1, <1>4, FileListsOf, Zenon
<1>6. req' = [req EXCEPT ![q] = r]
  BY <1>2 DEF createSystemAgentInstallScript, AddFile
<1>7. /\ r \in Admissions /\ r.pc = "respond" /\ r.config = c /\ r.files = files
      /\ r.token = req[q].token /\ r.url = req[q].url /\ r.pem = req[q].pem
  <2> HIDE DEF files
  <2> QED
    BY <1>2, <1>5 DEF Admissions
<1> HIDE DEF r, files, path
<1>8. req'[q] = r
  BY <1>2, <1>6
<1>9. req[q].url # None
  BY <1>1, WebhookNames DEF Urls
<1>10. script' = IF path \in Elements(req[q].files) \/ script[c] # None THEN script
                 ELSE [script EXCEPT ![c] = req[q].url]
  BY DEF createSystemAgentInstallScript, path
<1>11. script' \in [Configs -> Urls \cup {None}] /\ HasScript(c)'
  <2>1. script \in [Configs -> Urls \cup {None}]
    BY DEF TypeOK
  <2>2. CASE path \in Elements(req[q].files) \/ script[c] # None
    BY <1>4, <1>7, <1>8, <1>10, <2>1, <2>2 DEF HasScript
  <2>3. CASE ~(path \in Elements(req[q].files) \/ script[c] # None)
    BY <1>1, <1>7, <1>8, <1>9, <1>10, <2>1, <2>3 DEF HasScript
  <2> QED
    BY <2>2, <2>3
<1>12. HasInfo(c)'
  BY <1>1, <1>7, <1>8 DEF HasInfo
<1>13. RequestMade(q)'
  BY <1>1, <1>7, <1>8, <1>11, <1>12 DEF RequestMade
<1>14. RequestFiles(q)'
  BY <1>4, <1>7, <1>8, <1>11, <1>12, Zenon DEF RequestFiles
<1> QED
  BY <1>6, <1>7, <1>11, <1>13, <1>14 DEF GoesOn

\* However the request q moves, it goes on as it should.
LEMMA HandleGoesOn ==
  ASSUME TypeOK, NEW q \in Requests,
         req[q].pc # "idle" => RequestMade(q) /\ RequestFiles(q),
         Handle(q) \/ CallFails(q)
  PROVE  \E r : GoesOn(q, r)
<1>1. req[q].pc # "idle"
  BY DEF Handle, CallFails, createSecretPlanResources, ensureServiceAccountSecretPopulated,
         getServerUrl, getCACerts, createConnectInfoJson, createSystemAgentInstallScript, Respond
<1>2. RequestMade(q) /\ RequestFiles(q)
  BY <1>1
<1>3. CASE Handle(q)
  <2>1. Respond(q) => Reject(q)
    BY DEF Respond, Reject
  <2> QED
    BY <1>2, <1>3, <2>1, CreateGoesOn, TokenGoesOn, SettingsGoOn, ConnectGoesOn, ScriptGoesOn,
       RejectGoesOn, Zenon DEF Handle
<1>4. CASE CallFails(q)
  BY <1>2, <1>4, RejectGoesOn, RetryGoesOn, Zenon DEF CallFails
<1> QED
  BY <1>3, <1>4

LEMMA ClientGoesOn ==
  ASSUME TypeOK, StoredInv, NEW q \in Requests, NEW c \in Configs,
         CreateConfig(q, c) \/ UpdateConfig(q, c) \/ DryRun(q, c)
  PROVE  \E r : GoesOn(q, r)
<1>1. <<>> \in CommandLists /\ config[c].commands \in CommandLists
  BY DEF TypeOK, ConfigObjects, CommandLists
<1>2. PICK dry \in BOOLEAN :
        \/ Submit(q, c, dry, Manifest[c], <<>>)
        \/ config[c].exists /\ Submit(q, c, dry, config[c].files, config[c].commands)
  BY DEF CreateConfig, UpdateConfig, DryRun
<1>3. CASE Submit(q, c, dry, Manifest[c], <<>>)
  BY <1>1, <1>3, SubmitGoesOn, Zenon
<1>4. CASE config[c].exists /\ Submit(q, c, dry, config[c].files, config[c].commands)
  <2>1. config[c].files = Complete(c) /\ HasInfo(c) /\ HasScript(c)
    BY <1>4 DEF StoredInv
  <2> QED
    BY <1>1, <1>4, <2>1, SubmitGoesOn, Zenon
<1> QED
  BY <1>2, <1>3, <1>4

-----------------------------------------------------------------------------
(* The invariant is inductive.                                             *)

LEMMA WebhookInit ==
  ASSUME Init PROVE WebhookInv
<1>1. config \in [Configs -> ConfigObjects] /\ \A c \in Configs : ~config[c].exists
  BY IdleTypes DEF Init, NoConfig
<1>2. req \in [Requests -> Admissions] /\ \A q \in Requests : req[q].pc = "idle"
  BY IdleTypes DEF Init
<1>3. install \in [Configs -> Installs] /\ \A c \in Configs : install[c].pc = "none"
  <2>1. NoMachine \in Installs /\ NoMachine.pc = "none"
    BY Attempts DEF NoMachine, Installs
  <2> QED
    BY <2>1 DEF Init
<1>4. /\ resource \in [Configs -> SUBSET Elements(planResources)]
      /\ token \subseteq Configs
      /\ faults \in Nat
  BY DEF Init
<1>5. /\ info \in [Configs -> ConnectInfos \cup {None}] /\ \A c \in Configs : info[c] = None
      /\ script \in [Configs -> Urls \cup {None}]
  BY DEF Init
<1>6. setting \in [url : Urls \cup {EmptyUrl}, ca : CACerts]
  BY DEF Init
<1> QED
  BY <1>1, <1>2, <1>3, <1>4, <1>5, <1>6, Zenon
  DEF WebhookInv, TypeOK, RequestInv, SecretInv, StoredInv, InstallInv

\* The shapes of the objects that the requests and Kubernetes write.
LEMMA ObjectTypes ==
  ASSUME WebhookInv, [Next]_vars
  PROVE  /\ resource' \in [Configs -> SUBSET AllResources]
         /\ token' \subseteq Configs
         /\ info' \in [Configs -> ConnectInfos \cup {None}]
         /\ script' \in [Configs -> Urls \cup {None}]
         /\ setting' \in [url : Urls \cup {EmptyUrl}, ca : CACerts]
         /\ faults' \in Nat
<1> USE DEF WebhookInv
<1>1. ASSUME NEW q \in Requests, req[q].pc # "idle" PROVE RequestMade(q) /\ RequestFiles(q)
  BY <1>1 DEF RequestInv
<1>2. resource' \in [Configs -> SUBSET AllResources]
  <2>1. ASSUME NEW q \in Requests, createSecretPlanResources(q)
        PROVE  resource' \in [Configs -> SUBSET AllResources]
    BY <1>1, <2>1, CreateGoesOn DEF createSecretPlanResources
  <2> QED
    BY <2>1, Writers DEF TypeOK, AllResources
<1>3. info' \in [Configs -> ConnectInfos \cup {None}]
  <2>1. ASSUME NEW q \in Requests, createConnectInfoJson(q)
        PROVE  info' \in [Configs -> ConnectInfos \cup {None}]
    BY <1>1, <2>1, ConnectGoesOn DEF createConnectInfoJson
  <2> QED
    BY <2>1, Writers DEF TypeOK
<1>4. script' \in [Configs -> Urls \cup {None}]
  <2>1. ASSUME NEW q \in Requests, createSystemAgentInstallScript(q)
        PROVE  script' \in [Configs -> Urls \cup {None}]
    BY <1>1, <2>1, ScriptGoesOn DEF createSystemAgentInstallScript
  <2> QED
    BY <2>1, Writers DEF TypeOK
<1>5. token' \subseteq Configs
  BY Writers DEF TypeOK, TokenController
<1>6. setting' \in [url : Urls \cup {EmptyUrl}, ca : CACerts]
  BY Writers, WebhookNames DEF TypeOK, SetServerUrl, Urls, EmptyUrl
<1>7. faults' \in Nat
  BY Writers DEF TypeOK
<1> QED
  BY <1>2, <1>3, <1>4, <1>5, <1>6, <1>7

LEMMA RequestInvNext ==
  ASSUME WebhookInv, [Next]_vars
  PROVE  req' \in [Requests -> Admissions] /\ RequestInv'
<1> USE DEF WebhookInv
<1>1. Grows /\ resource' \in [Configs -> SUBSET AllResources]
  BY ExistingGrows, ObjectTypes
<1>2. ASSUME NEW p \in Requests, req'[p] = req[p], req[p].pc # "idle"
      PROVE  RequestMade(p)' /\ RequestFiles(p)'
  BY <1>1, <1>2, RequestKept DEF RequestInv
<1>3. req \in [Requests -> Admissions]
  BY DEF TypeOK
<1>4. ASSUME NEW q \in Requests, NEW r, GoesOn(q, r)
      PROVE  req' \in [Requests -> Admissions] /\ RequestInv'
  <2>1. /\ r \in Admissions /\ req' = [req EXCEPT ![q] = r]
        /\ r.pc # "idle" => RequestMade(q)' /\ RequestFiles(q)'
    BY <1>4 DEF GoesOn
  <2>2. /\ req' \in [Requests -> Admissions] /\ req'[q] = r
        /\ \A p \in Requests \ {q} : req'[p] = req[p]
    BY <1>3, <2>1
  <2>3. ASSUME NEW p \in Requests, req'[p].pc # "idle" PROVE RequestMade(p)' /\ RequestFiles(p)'
    <3>1. CASE p = q
      BY <2>1, <2>2, <2>3, <3>1
    <3>2. CASE p # q
      BY <1>2, <2>2, <2>3, <3>2
    <3> QED
      BY <3>1, <3>2
  <2> QED
    BY <2>2, <2>3 DEF RequestInv
<1>5. CASE UNCHANGED req
  BY <1>2, <1>3, <1>5 DEF RequestInv
<1>6. ASSUME NEW q \in Requests, Handle(q) \/ CallFails(q)
      PROVE  \E r : GoesOn(q, r)
  BY <1>6, HandleGoesOn DEF RequestInv
<1>7. ASSUME NEW q \in Requests, NEW c \in Configs,
             CreateConfig(q, c) \/ UpdateConfig(q, c) \/ DryRun(q, c)
      PROVE  \E r : GoesOn(q, r)
  BY <1>7, ClientGoesOn
<1>8. CASE Crash
  <2>1. req' \in [Requests -> Admissions] /\ \A q \in Requests : req'[q].pc = "idle"
    BY <1>8, IdleTypes DEF Crash
  <2> QED
    BY <2>1 DEF RequestInv
<1> QED
  BY <1>4, <1>5, <1>6, <1>7, <1>8, Writers, Zenon

LEMMA SecretInvNext ==
  ASSUME WebhookInv, [Next]_vars
  PROVE  SecretInv'
<1> USE DEF WebhookInv
<1>1. CASE UNCHANGED info
  BY <1>1 DEF SecretInv
<1>2. ASSUME NEW q \in Requests, createConnectInfoJson(q) PROVE SecretInv'
  <2> DEFINE c == req[q].config
             new == [namespace |-> c[1], secretName |-> c[2],
                     server |-> <<req[q].url, req[q].pem>>, token |-> req[q].token]
  <2>1. req[q].pc = "connect" /\ RequestMade(q)
    BY <1>2 DEF createConnectInfoJson, RequestInv
  <2>2. c \in Configs /\ OwnInfo(c, new)
    BY <2>1, NewInfoIsOwn DEF RequestMade
  <2>3. info' = info \/ info' = [info EXCEPT ![c] = new]
    BY <1>2 DEF createConnectInfoJson
  <2>4. info \in [Configs -> ConnectInfos \cup {None}]
    BY DEF TypeOK
  <2> HIDE DEF new, c
  <2>5. ASSUME NEW d \in Configs, info'[d] # None PROVE OwnInfo(d, info'[d])
    BY <2>2, <2>3, <2>4, <2>5 DEF SecretInv
  <2> QED
    BY <2>5 DEF SecretInv, OwnInfo
<1> QED
  BY <1>1, <1>2, Writers

\* What Respond stores is complete, whichever files the request came with.
LEMMA RespondIsComplete ==
  ASSUME TypeOK, NEW q \in Requests, RequestMade(q), RequestFiles(q), req[q].pc = "respond"
  PROVE  /\ createConfigYAML(req[q].files) = Complete(req[q].config)
         /\ addPostInstallCommands(req[q].commands) = <<postInstallCommand>>
<1> DEFINE c == req[q].config
<1>1. c \in Configs
  BY DEF RequestMade
<1>2. configYAMLPath \in Elements(Complete(c))
  BY <1>1, FileListsOf DEF Files
<1>3. createConfigYAML(Complete(c)) = Complete(c) /\ createConfigYAML(WithScript(c)) = Complete(c)
  BY <1>2, Zenon DEF createConfigYAML, Complete
<1>4. req[q].files \in {Complete(c), WithScript(c)}
  BY DEF RequestFiles
<1>5. req[q].commands \in {<<>>, <<postInstallCommand>>}
  BY DEF TypeOK, Admissions, CommandLists
<1>6. /\ addPostInstallCommands(<<>>) = <<postInstallCommand>>
      /\ addPostInstallCommands(<<postInstallCommand>>) = <<postInstallCommand>>
  <2>1. Elements(<<>>) = {} /\ Elements(<<postInstallCommand>>) = {postInstallCommand}
    BY DEF Elements
  <2>2. Append(<<>>, postInstallCommand) = <<postInstallCommand>>
    OBVIOUS
  <2> QED
    BY <2>1, <2>2 DEF addPostInstallCommands
<1> QED
  BY <1>3, <1>4, <1>5, <1>6

LEMMA StoredInvNext ==
  ASSUME WebhookInv, [Next]_vars
  PROVE  config' \in [Configs -> ConfigObjects] /\ StoredInv'
<1> USE DEF WebhookInv
<1>1. Grows /\ resource' \in [Configs -> SUBSET AllResources]
  BY ExistingGrows, ObjectTypes
<1>2. ASSUME NEW c \in Configs, resource[c] = AllResources, c \in token,
             HasInfo(c), HasScript(c)
      PROVE  resource'[c] = AllResources /\ c \in token' /\ HasInfo(c)' /\ HasScript(c)'
  BY <1>1, <1>2, SecretsKept DEF Grows
<1>3. config \in [Configs -> ConfigObjects]
  BY DEF TypeOK
<1>4. ASSUME NEW d \in Configs, config'[d] = config[d], config[d].exists
      PROVE  /\ config'[d].files = Complete(d) /\ config'[d].commands = <<postInstallCommand>>
             /\ resource'[d] = AllResources /\ d \in token'
             /\ HasInfo(d)' /\ HasScript(d)'
  BY <1>2, <1>4 DEF StoredInv
<1>5. CASE UNCHANGED config
  BY <1>3, <1>4, <1>5 DEF StoredInv
<1>6. ASSUME NEW c \in Configs, DeleteConfig(c)
      PROVE  config' \in [Configs -> ConfigObjects] /\ StoredInv'
  <2>1. config' = [config EXCEPT ![c] = NoConfig] /\ NoConfig \in ConfigObjects /\ ~NoConfig.exists
    BY <1>6, IdleTypes DEF DeleteConfig, NoConfig
  <2> QED
    BY <1>3, <1>4, <2>1 DEF StoredInv
<1>7. ASSUME NEW q \in Requests, Respond(q)
      PROVE  config' \in [Configs -> ConfigObjects] /\ StoredInv'
  <2> DEFINE c == req[q].config
             new == [exists |-> TRUE, files |-> createConfigYAML(req[q].files),
                     commands |-> addPostInstallCommands(req[q].commands)]
  <2>1. req[q].pc = "respond" /\ RequestMade(q) /\ RequestFiles(q)
    BY <1>7 DEF Respond, RequestInv
  <2>2. /\ c \in Configs /\ resource[c] = AllResources /\ c \in token
        /\ HasInfo(c) /\ HasScript(c)
    BY <2>1 DEF RequestMade
  <2>3. new.files = Complete(c) /\ new.commands = <<postInstallCommand>>
    BY <2>1, RespondIsComplete
  <2>4. config' = config \/ config' = [config EXCEPT ![c] = new]
    BY <1>7 DEF Respond
  <2>5. new \in ConfigObjects
    <3>1. Complete(c) \in FileLists /\ <<postInstallCommand>> \in CommandLists
      BY <2>2, FileListsOf DEF CommandLists
    <3> QED
      BY <2>3, <3>1 DEF ConfigObjects
  <2> HIDE DEF new
  <2>6. config' \in [Configs -> ConfigObjects]
    BY <1>3, <2>2, <2>4, <2>5
  <2>7. ASSUME NEW d \in Configs, config'[d].exists
        PROVE  /\ config'[d].files = Complete(d) /\ config'[d].commands = <<postInstallCommand>>
               /\ resource'[d] = AllResources /\ d \in token'
               /\ HasInfo(d)' /\ HasScript(d)'
    <3>1. CASE config'[d] = config[d]
      BY <1>4, <2>7, <3>1
    <3>2. CASE config'[d] # config[d]
      <4>1. d = c /\ config'[d] = new
        BY <1>3, <2>2, <2>4, <3>2
      <4> QED
        BY <1>2, <2>2, <2>3, <4>1
    <3> QED
      BY <3>1, <3>2
  <2> QED
    BY <2>6, <2>7 DEF StoredInv
<1> QED
  BY <1>5, <1>6, <1>7, Writers

\* One turn of a download loop.
LEMMA AttemptKeeps ==
  ASSUME TypeOK, InstallInv, NEW c \in Configs, NEW outcome \in Outcomes,
         download_certificates(c, outcome) \/ download_agent_binary(c, outcome)
  PROVE  install' \in [Configs -> Installs] /\ InstallInv'
<1> DEFINE m == install[c]
<1>1. install \in [Configs -> Installs] /\ m \in Installs
  BY DEF TypeOK
<1>2. m.pc \in {"cert", "binary"}
  BY DEF download_certificates, download_agent_binary, Attempt
<1>3. /\ OwnInfo(c, m.info) /\ m.retries \in 1..RetryCount
      /\ m.pc = "binary" => m.cert = "whole"
  BY <1>2 DEF InstallInv
<1>4. /\ RetryCount \in 1..RetryCount /\ RetryCount \in 0..RetryCount /\ m.retries - 1 \in 0..RetryCount
      /\ m.retries > 1 => m.retries - 1 \in 1..RetryCount
      /\ "whole" \in Outcomes
  BY <1>3, Attempts DEF Outcomes
<1>5. PICK n \in Installs :
        /\ install' = [install EXCEPT ![c] = n]
        /\ n.info = m.info
        /\ n.pc \in {"cert", "binary"} => n.retries \in 1..RetryCount
        /\ n.pc \in {"binary", "service", "running"} => n.cert = "whole"
        /\ n.pc \in {"service", "running"} => n.binary = "whole"
  <2>1. CASE download_certificates(c, outcome) /\ outcome = "whole"
    <3> DEFINE n == [m EXCEPT !.cert = "whole", !.pc = "binary", !.retries = RetryCount]
    <3>1. install' = [install EXCEPT ![c] = n] /\ m.pc = "cert"
      BY <1>1, <2>1 DEF download_certificates, Attempt
    <3>2. /\ n \in Installs /\ n.cert = "whole" /\ n.pc = "binary" /\ n.retries = RetryCount
          /\ n.info = m.info /\ n.binary = m.binary
      BY <1>1, <1>4 DEF Installs
    <3> HIDE DEF n
    <3> QED
      BY <1>3, <1>4, <3>1, <3>2
  <2>2. CASE download_certificates(c, outcome) /\ outcome # "whole"
    <3> DEFINE pc == IF m.retries > 1 THEN "cert" ELSE "exited"
               n == [m EXCEPT !.cert = outcome, !.retries = m.retries - 1, !.pc = pc]
    <3>1. install' = [install EXCEPT ![c] = n] /\ m.pc = "cert"
      BY <1>1, <2>2 DEF download_certificates, Attempt
    <3>2. pc \in {"cert", "exited"} /\ (pc # "exited" => m.retries > 1)
      OBVIOUS
    <3> HIDE DEF pc
    <3>3. /\ n \in Installs /\ n.cert = outcome /\ n.pc = pc /\ n.retries = m.retries - 1
          /\ n.info = m.info /\ n.binary = m.binary
      BY <1>1, <1>4, <3>2 DEF Installs
    <3> HIDE DEF n
    <3> QED
      BY <1>3, <1>4, <3>1, <3>2, <3>3
  <2>3. CASE download_agent_binary(c, outcome) /\ outcome = "whole"
    <3> DEFINE n == [m EXCEPT !.binary = "whole", !.pc = "service", !.retries = RetryCount]
    <3>1. install' = [install EXCEPT ![c] = n] /\ m.pc = "binary"
      BY <1>1, <2>3 DEF download_agent_binary, Attempt
    <3>2. /\ n \in Installs /\ n.binary = "whole" /\ n.pc = "service" /\ n.retries = RetryCount
          /\ n.info = m.info /\ n.cert = m.cert
      BY <1>1, <1>4 DEF Installs
    <3> HIDE DEF n
    <3> QED
      BY <1>3, <1>4, <3>1, <3>2
  <2>4. CASE download_agent_binary(c, outcome) /\ outcome # "whole"
    <3> DEFINE pc == IF m.retries > 1 THEN "binary" ELSE "exited"
               n == [m EXCEPT !.binary = outcome, !.retries = m.retries - 1, !.pc = pc]
    <3>1. install' = [install EXCEPT ![c] = n] /\ m.pc = "binary"
      BY <1>1, <2>4 DEF download_agent_binary, Attempt
    <3>2. pc \in {"binary", "exited"} /\ (pc # "exited" => m.retries > 1)
      OBVIOUS
    <3> HIDE DEF pc
    <3>3. /\ n \in Installs /\ n.binary = outcome /\ n.pc = pc /\ n.retries = m.retries - 1
          /\ n.info = m.info /\ n.cert = m.cert
      BY <1>1, <1>4, <3>2 DEF Installs
    <3> HIDE DEF n
    <3> QED
      BY <1>3, <1>4, <3>1, <3>2, <3>3
  <2> QED
    BY <2>1, <2>2, <2>3, <2>4
<1> QED
  BY <1>1, <1>3, <1>5 DEF InstallInv

LEMMA InstallInvNext ==
  ASSUME WebhookInv, [Next]_vars
  PROVE  install' \in [Configs -> Installs] /\ InstallInv'
<1> USE DEF WebhookInv
<1>1. install \in [Configs -> Installs]
  BY DEF TypeOK
<1>2. CASE UNCHANGED install
  BY <1>1, <1>2 DEF InstallInv
<1>3. ASSUME NEW c \in Configs, NEW n \in Installs, install' = [install EXCEPT ![c] = n],
             n.pc # "none" =>
               /\ OwnInfo(c, n.info)
               /\ n.pc \in {"cert", "binary"} => n.retries \in 1..RetryCount
               /\ n.pc \in {"binary", "service", "running"} => n.cert = "whole"
               /\ n.pc \in {"service", "running"} => n.binary = "whole"
      PROVE  install' \in [Configs -> Installs] /\ InstallInv'
  BY <1>1, <1>3 DEF InstallInv
<1>4. NoMachine \in Installs /\ NoMachine.pc = "none"
  BY Attempts DEF NoMachine, Installs
<1>5. ASSUME NEW c \in Configs, DeleteConfig(c)
      PROVE  install' \in [Configs -> Installs] /\ InstallInv'
  <2>1. install' = [install EXCEPT ![c] = NoMachine]
    BY <1>5 DEF DeleteConfig
  <2> QED
    BY <1>3, <1>4, <2>1, Zenon
<1>6. ASSUME NEW c \in Configs, Boot(c)
      PROVE  install' \in [Configs -> Installs] /\ InstallInv'
  <2> DEFINE n == [NoMachine EXCEPT !.pc = "cert", !.retries = RetryCount,
                                    !.server = script[c], !.info = info[c]]
  <2>1. install' = [install EXCEPT ![c] = n]
    BY <1>6 DEF Boot, RunInstallScript
  <2>2. OwnInfo(c, info[c])
    BY <1>6 DEF Boot, StoredInv, SecretInv
  <2>3. script[c] \in Urls \cup {None} /\ info[c] \in ConnectInfos \cup {None}
    BY DEF TypeOK
  <2>4. RetryCount \in 1..RetryCount /\ RetryCount \in 0..RetryCount
    BY Attempts
  <2>5. n \in Installs /\ n.pc = "cert" /\ n.retries = RetryCount /\ n.info = info[c]
    BY <1>4, <2>3, <2>4 DEF Installs
  <2> HIDE DEF n
  <2> QED
    BY <1>3, <2>1, <2>2, <2>4, <2>5
<1>7. ASSUME NEW c \in Configs, Download(c)
      PROVE  install' \in [Configs -> Installs] /\ InstallInv'
  <2>1. CertAnswer \in Outcomes
    <3>1. CertAnswer = "empty" \/ CertAnswer = "whole"
      BY Zenon DEF CertAnswer
    <3> QED
      BY <3>1 DEF Outcomes
  <2>2. PICK outcome \in Outcomes :
          download_certificates(c, outcome) \/ download_agent_binary(c, outcome)
    BY <1>7, <2>1 DEF Download, Outcomes
  <2> QED
    BY <2>2, AttemptKeeps
<1>8. ASSUME NEW c \in Configs, Start(c)
      PROVE  install' \in [Configs -> Installs] /\ InstallInv'
  <2> DEFINE n == [install[c] EXCEPT !.pc = "running"]
  <2>1. install' = [install EXCEPT ![c] = n] /\ install[c].pc = "service"
    BY <1>8 DEF Start, StartService
  <2>2. /\ n \in Installs /\ n.pc = "running" /\ n.info = install[c].info
        /\ n.cert = install[c].cert /\ n.binary = install[c].binary
    BY <1>1 DEF Installs
  <2>3. OwnInfo(c, install[c].info) /\ install[c].cert = "whole" /\ install[c].binary = "whole"
    BY <2>1 DEF InstallInv
  <2> HIDE DEF n
  <2> QED
    BY <1>3, <2>1, <2>2, <2>3
<1> QED
  BY <1>2, <1>5, <1>6, <1>7, <1>8, Writers

LEMMA WebhookInvariant == Spec => []WebhookInv
<1>1. Init => WebhookInv
  BY WebhookInit
<1>2. WebhookInv /\ [Next]_vars => WebhookInv'
  <2> SUFFICES ASSUME WebhookInv, [Next]_vars PROVE WebhookInv'
    OBVIOUS
  <2>1. TypeOK'
    BY ObjectTypes, RequestInvNext, StoredInvNext, InstallInvNext, Zenon DEF TypeOK, AllResources
  <2> QED
    BY <2>1, RequestInvNext, SecretInvNext, StoredInvNext, InstallInvNext, Zenon DEF WebhookInv
<1> QED
  BY <1>1, <1>2, PTL DEF Spec

-----------------------------------------------------------------------------
(* The theorems.                                                           *)

\* The objects keep their shape: in particular what is stored about the server is always
\* the URL it has or had, and never the setting that is not configured.
THEOREM WebhookTypeCorrect == Spec => []TypeOK
<1>1. WebhookInv => TypeOK
  BY DEF WebhookInv
<1> QED
  BY <1>1, WebhookInvariant, PTL

\* A config that was accepted has the plan resources and the token, and the secrets of
\* the files that its manifest did not bring along, whichever calls failed: Respond is
\* reached past every call, or with a config that had passed them before, and no step
\* takes any of them away.
THEOREM StoredConfigsAreEquipped == Spec => []StoredIsEquipped
<1>1. WebhookInv => StoredIsEquipped
  BY DEF WebhookInv, StoredInv, HasInfo, HasScript, StoredIsEquipped, AllResources
<1> QED
  BY <1>1, WebhookInvariant, PTL

\* An agent acts as its own service account on its own plan secret: a request goes past
\* the lookup of token secrets only with its own, since its own is always found.
THEOREM AgentsAreThemselves == Spec => []AgentIsItself
<1>1. WebhookInv => AgentIsItself
  BY DEF WebhookInv, InstallInv, OwnInfo, AgentIsItself
<1> QED
  BY <1>1, WebhookInvariant, PTL

\* The files and the command are in a stored config, after the user's, and once, whatever
\* files the user's manifest has.
THEOREM FilesInjectedOnce == Spec => []InjectedOnce
<1>1. WebhookInv => InjectedOnce
  <2> SUFFICES ASSUME WebhookInv, NEW c \in Configs, config[c].exists
               PROVE  LET files == config[c].files
                          own == 1..Len(Manifest[c])
                      IN
                      /\ Files \subseteq Elements(files)
                      /\ \A i, j \in DOMAIN files : files[i] = files[j] => i = j \/ {i, j} \subseteq own
                      /\ config[c].commands = <<postInstallCommand>>
                      /\ SubSeq(files, 1, Len(Manifest[c])) = Manifest[c]
    BY Zenon DEF InjectedOnce
  <2> DEFINE files == config[c].files
  <2>1. files = Complete(c) /\ config[c].commands = <<postInstallCommand>>
    BY DEF WebhookInv, StoredInv
  <2>2. files \in Seq(Paths) /\ Files \subseteq Elements(files) /\ OnceAfter(files, Manifest[c])
    BY <2>1, FileListsOf DEF FileLists
  <2>3. SubSeq(files, 1, Len(Manifest[c])) = Manifest[c]
    BY <2>1, UserFilesFirst
  <2> HIDE DEF files
  <2>4. \A i, j \in DOMAIN files : files[i] = files[j] => i = j \/ {i, j} \subseteq 1..Len(Manifest[c])
    BY <2>2 DEF OnceAfter
  <2> QED
    BY <2>1, <2>2, <2>3, <2>4, Zenon DEF files
<1> QED
  BY <1>1, WebhookInvariant, PTL
================================================================================
