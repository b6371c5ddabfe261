---------------------------- MODULE InstallScript ----------------------------
(***************************************************************************)
(* The script that brings the system agent up on a machine                 *)
(* (internal/webhook/installsh.go).  It runs once, as the last command of  *)
(* the machine's bootstrap: it downloads the certificates of the Rancher   *)
(* server, then the agent's binary, each with RETRY_COUNT attempts, and    *)
(* starts the agent's service.  Nobody runs it again when it exits.        *)
(***************************************************************************)
EXTENDS Naturals

CONSTANTS
  Configs,      \* the RKE2Configs; each bootstraps one machine
  RetryCount,   \* RETRY_COUNT=10
  None          \* no such object

ASSUME Attempts == RetryCount \in Nat \ {0}

VARIABLE
  install       \* install[c]: the script on the machine of config c

\* No machine was bootstrapped from the config yet.
NoMachine == [pc |-> "none", retries |-> 0, cert |-> "absent", binary |-> "absent",
              server |-> None, info |-> None]

\* The machine boots with the files of its config: the script, which has the server's
\* URL in its first line, and the connection info of the agent.
RunInstallScript(c, server, info) ==
  /\ install[c].pc = "none"
  /\ install' = [install EXCEPT ![c] = [NoMachine EXCEPT !.pc = "cert", !.retries = RetryCount,
                                                         !.server = server, !.info = info]]

\* What an attempt leaves in the output file of curl: "partial" is whatever a curl that
\* failed leaves, an answer without a body leaves an empty file.
Outcomes == {"partial", "empty", "whole"}

\* One turn of the loop that downloads file (cert or binary), then goes on to next.
\* "[ $? -eq 0 ] && [ -s file ]": only a transfer that succeeded with a body counts.
Attempt(c, file, next, outcome) ==
  LET m == install[c] IN
  /\ m.pc = file
  /\ install' =
       [install EXCEPT ![c] =
          IF outcome = "whole"
          THEN [m EXCEPT ![file] = outcome, !.pc = next, !.retries = RetryCount]
          ELSE [m EXCEPT ![file] = outcome, !.retries = m.retries - 1,
                         !.pc = IF m.retries > 1 THEN file ELSE "exited"]]

download_certificates(c, outcome) == Attempt(c, "cert", "binary", outcome)

download_agent_binary(c, outcome) == Attempt(c, "binary", "service", outcome)

\* The unit and its environment file are written and the service is started.
StartService(c) ==
  /\ install[c].pc = "service"
  /\ install' = [install EXCEPT ![c].pc = "running"]
==============================================================================
