----------------------------- MODULE NFSBackend -----------------------------
(***************************************************************************)
(* The Linode NFS service as the controller sees it, restricted to what    *)
(* access control needs: which filesystems exist and the access policy of  *)
(* each.  The contract is the one tests/sanity's fake client implements:   *)
(* an update REPLACES the policy and leaves it in status "updating"; the   *)
(* status becomes "active" later, and a wait polls for that.  The fake     *)
(* settles a policy inside the wait; here the service settles it in a step *)
(* of its own, and `enforced` is what it admits clients by meanwhile.      *)
(***************************************************************************)
CONSTANTS
  Filesystems,     \* filesystem identities (a space and filesystem ID pair)
  Nodes,           \* Linode IDs of the cluster's nodes
  SquashPolicies,  \* squash policies the API accepts
  DefaultSquash    \* the squash policy of a new filesystem

ASSUME DefaultSquashAssumption == DefaultSquash \in SquashPolicies

VARIABLES
  live,      \* the filesystems that exist
  policy,    \* the access policy a GET returns
  enforced,  \* the access policy clients are admitted by
  pending    \* filesystems whose policy status is "updating"

backendVars == <<live, policy, enforced, pending>>

Policy == [enabled: BOOLEAN, acl: SUBSET Nodes, squash: SquashPolicies]

NewPolicy == [enabled |-> FALSE, acl |-> {}, squash |-> DefaultSquash]

BackendTypeOK ==
  /\ live \subseteq Filesystems
  /\ policy \in [Filesystems -> Policy]
  /\ enforced \in [Filesystems -> Policy]
  /\ pending \subseteq Filesystems

\* Every filesystem starts as CreateNFSFilesystem leaves it.
BackendInit ==
  /\ live = Filesystems
  /\ policy = [f \in Filesystems |-> NewPolicy]
  /\ enforced = policy
  /\ pending = {}

PolicyActive(f) == f \in live /\ f \notin pending

\* UpdateNFSFilesystemAccessPolicy accepted: a full replace, status "updating".
UpdatePolicy(f, options) ==
  /\ f \in live
  /\ policy' = [policy EXCEPT ![f] = options]
  /\ pending' = pending \union {f}
  /\ UNCHANGED <<live, enforced>>

\* The service brings the requested policy into force.
Settle(f) ==
  /\ f \in live \intersect pending
  /\ enforced' = [enforced EXCEPT ![f] = policy[f]]
  /\ pending' = pending \ {f}
  /\ UNCHANGED <<live, policy>>

\* DeleteNFSFilesystem: by DeleteVolume, which takes no lock, or out of band.
DeleteFilesystem(f) ==
  /\ f \in live
  /\ live' = live \ {f}
  /\ pending' = pending \ {f}
  /\ UNCHANGED <<policy, enforced>>

=============================================================================
