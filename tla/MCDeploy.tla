------------------------------ MODULE MCDeploy ------------------------------
(* Deployments to a public node and to a local one.                         *)
EXTENDS Deploy

CONSTANTS Pulsar3, LocalSecret
=============================================================================
