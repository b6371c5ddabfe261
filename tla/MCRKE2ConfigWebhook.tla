------------------------ MODULE MCRKE2ConfigWebhook ------------------------
(***************************************************************************)
(* Small instances of the webhook for TLC: two configs of one name in two  *)
(* namespaces.  The client of the first keeps submitting it.  The manifest *)
(* of the second was exported from another management cluster and has the  *)
(* webhook's files already.                                                *)
(***************************************************************************)
EXTENDS RKE2ConfigWebhook

CONSTANTS q1, q2

C1 == <<"ns1", "x">>
C2 == <<"ns2", "x">>

TwoNamespaces == {C1, C2}

Retried == {C1}

MCManifest ==
  [c \in Configs |-> IF c = C1 THEN <<"other">>
                     ELSE <<connectInfoJsonPath, systemAgentInstallScriptPath, configYAMLPath>>]
============================================================================
