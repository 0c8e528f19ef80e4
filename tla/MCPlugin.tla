------------------------------ MODULE MCPlugin ------------------------------
(* A small instance of Plugin for TLC.                                      *)
EXTENDS Plugin

\* A controller with and without a token, a node plugin with and without its node's
\* name, and a role that is not one.
SomeConfigs ==
  {[role |-> "controller", token |-> TRUE, nodeName |-> FALSE, mode |-> "space"],
   [role |-> "controller", token |-> FALSE, nodeName |-> FALSE, mode |-> "space"],
   [role |-> "node", token |-> FALSE, nodeName |-> TRUE, mode |-> "node"],
   [role |-> "node", token |-> FALSE, nodeName |-> FALSE, mode |-> "node"],
   [role |-> "other", token |-> TRUE, nodeName |-> TRUE, mode |-> "space"]}

=============================================================================
