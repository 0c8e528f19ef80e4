------------------------------ MODULE Metadata ------------------------------
(***************************************************************************)
(* metadataService.  The controller asks it for the region of the workers: *)
(* the first answer of the Kubernetes API is kept for the life of the      *)
(* process, under a mutex that is held across the API call.  The node      *)
(* plugin asks it for the Linode it runs on: the instance metadata service *)
(* first, the Kubernetes Node object if that fails.                        *)
(*                                                                         *)
(* `lookup` is the program point of each call.  A caller that gives up     *)
(* cancels the call's context, which sync.Mutex does not look at: the call *)
(* stays in the queue, and ends at its API call (RegionFails).             *)
(* CurrentNode has one context for its two sources: when the first used it *)
(* up ("expired"), the second fails too (NodeFails).                       *)
(***************************************************************************)

CONSTANTS
  Calls,    \* the calls that may run at a time
  Regions,
  NoRegion  \* no region: no worker, no label, an empty cache

Free == "free"

ASSUME NoRegionAssumption == NoRegion \notin Regions
ASSUME FreeAssumption == Free \notin Calls

VARIABLES
  workers,        \* what the label of the first worker says
  nodeObject,     \* has the CCM filled in the own Node object: provider ID,
                  \* region label and address?
  instanceClient, \* is there a client of the instance metadata service?
  region,         \* the cache
  regionMu,       \* the call that holds the mutex, or Free
  lookup,
  answered,       \* history: the regions this process answered with
  registered      \* has the kubelet got the node's ID?

clusterVars == <<workers, nodeObject, registered>>
serviceVars == <<instanceClient, region, regionMu, lookup, answered>>
metadataVars == <<clusterVars, serviceVars>>

RegionPoints == {"lock", "list"}
NodePoints == {"instance", "network", "node", "expired", "nameless"}

MetadataTypeOK ==
  /\ workers \in Regions \union {NoRegion}
  /\ nodeObject \in BOOLEAN /\ instanceClient \in BOOLEAN /\ registered \in BOOLEAN
  /\ region \in Regions \union {NoRegion}
  /\ regionMu \in Calls \union {Free}
  /\ lookup \in [Calls -> {"idle"} \union RegionPoints \union NodePoints]
  /\ answered \subseteq Regions

\* newMetadataService: without the token of the instance metadata service it
\* does with Kubernetes alone.
NewMetadata(role) ==
  /\ instanceClient' \in IF role = "node" THEN BOOLEAN ELSE {FALSE}
  /\ UNCHANGED <<clusterVars, region, regionMu, lookup, answered>>

MetadataInit ==
  /\ workers = NoRegion /\ nodeObject = FALSE /\ registered = FALSE
  /\ instanceClient = FALSE /\ region = NoRegion /\ regionMu = Free
  /\ lookup = [c \in Calls |-> "idle"] /\ answered = {}

\* The process is gone.
MetadataLost ==
  /\ instanceClient' = FALSE /\ region' = NoRegion /\ regionMu' = Free
  /\ lookup' = [c \in Calls |-> "idle"] /\ answered' = {}
  /\ UNCHANGED clusterVars

Goto(c, point) == lookup' = [lookup EXCEPT ![c] = point]

-----------------------------------------------------------------------------
(* Region, which CreateVolume calls.                                        *)

RegionCall(c) ==
  /\ lookup[c] = "idle"
  /\ Goto(c, "lock")
  /\ UNCHANGED <<clusterVars, instanceClient, region, regionMu, answered>>

\* Mutant: the cache is looked at before the mutex is taken only.
RegionLockBlind(c) ==
  /\ lookup[c] = "lock"
  /\ regionMu = Free
  /\ Goto(c, "list") /\ regionMu' = c
  /\ UNCHANGED <<clusterVars, instanceClient, region, answered>>

RegionLock(c) ==
  /\ lookup[c] = "lock"
  /\ regionMu = Free
  /\ \/ /\ region = NoRegion
        /\ Goto(c, "list") /\ regionMu' = c
        /\ UNCHANGED answered
     \/ /\ region # NoRegion
        /\ Goto(c, "idle") /\ answered' = answered \union {region}
        /\ UNCHANGED regionMu
  /\ UNCHANGED <<clusterVars, instanceClient, region>>

\* Only success is kept.
RegionList(c) ==
  /\ lookup[c] = "list"
  /\ workers # NoRegion
  /\ region' = workers
  /\ answered' = answered \union {workers}
  /\ Goto(c, "idle") /\ regionMu' = Free
  /\ UNCHANGED <<clusterVars, instanceClient>>

\* Mutant: an error leaves the mutex locked.
RegionFailsLocked(c) ==
  /\ lookup[c] = "list"
  /\ Goto(c, "idle")
  /\ UNCHANGED <<clusterVars, instanceClient, region, regionMu, answered>>

\* The API fails or the caller gave up; or there is no worker, or no label.
RegionFails(c) ==
  /\ lookup[c] = "list"
  /\ Goto(c, "idle") /\ regionMu' = Free
  /\ UNCHANGED <<clusterVars, instanceClient, region, answered>>

-----------------------------------------------------------------------------
(* CurrentNode, which NodeGetInfo calls.                                    *)

\* An empty node name, which no set-up refuses, is an error of every call.
CurrentNodeCall(c, named) ==
  /\ lookup[c] = "idle"
  /\ Goto(c, CASE ~named -> "nameless"
               [] named /\ instanceClient -> "instance"
               [] named /\ ~instanceClient -> "node")
  /\ UNCHANGED <<clusterVars, instanceClient, region, regionMu, answered>>

\* Mutant: an error of the instance metadata service is an error of the call.
InstanceAnswersOrFails(c) ==
  /\ lookup[c] \in {"instance", "network"}
  /\ \/ Goto(c, IF lookup[c] = "instance" THEN "network" ELSE "idle")
        /\ registered' = (registered \/ lookup[c] = "network")
     \/ Goto(c, "idle") /\ UNCHANGED registered
     \/ Goto(c, "expired") /\ UNCHANGED registered
  /\ UNCHANGED <<workers, nodeObject, instanceClient, region, regionMu, answered>>

\* The instance, then its addresses; after any error, the Node object.  A source
\* that does not answer uses the context up.
InstanceMetadata(c) ==
  /\ lookup[c] \in {"instance", "network"}
  /\ \/ Goto(c, IF lookup[c] = "instance" THEN "network" ELSE "idle")
        /\ registered' = (registered \/ lookup[c] = "network")
     \/ Goto(c, "node") /\ UNCHANGED registered
     \/ Goto(c, "expired") /\ UNCHANGED registered
  /\ UNCHANGED <<workers, nodeObject, instanceClient, region, regionMu, answered>>

\* NodeByName asks for a region and an address as well, which NodeGetInfo does
\* not use.
NodeByName(c) ==
  /\ lookup[c] = "node"
  /\ nodeObject
  /\ Goto(c, "idle")
  /\ registered' = TRUE
  /\ UNCHANGED <<workers, nodeObject, instanceClient, region, regionMu, answered>>

NodeFails(c) ==
  /\ lookup[c] \in {"node", "expired", "nameless"}
  /\ Goto(c, "idle")
  /\ UNCHANGED <<clusterVars, instanceClient, region, regionMu, answered>>

MetadataStep(c) ==
  \/ RegionLock(c) \/ RegionList(c) \/ RegionFails(c)
  \/ InstanceMetadata(c) \/ NodeByName(c) \/ NodeFails(c)

-----------------------------------------------------------------------------
(* The cluster.                                                             *)

WorkersChange ==
  /\ workers' \in Regions \union {NoRegion}
  /\ UNCHANGED <<nodeObject, registered, serviceVars>>

NodeObjectFilled ==
  /\ nodeObject' = TRUE
  /\ UNCHANGED <<workers, registered, serviceVars>>

-----------------------------------------------------------------------------
(* Properties.                                                              *)

\* One process answers all its CreateVolume calls with one region, also when
\* they race for the discovery while workers come, go and change: a retry looks
\* for a filesystem in the region in which the first attempt made it.
RegionsAgree == \A r, s \in answered : r = s

\* A call that waits for the mutex gets its turn, although its holder is waiting
\* for the Kubernetes API.
MutexIsHandedOn ==
  \A c \in Calls : lookup[c] = "lock" ~> lookup[c] # "lock"

=============================================================================
