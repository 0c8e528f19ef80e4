---------------------------- MODULE Plugin_proofs ----------------------------
(***************************************************************************)
(* Proofs about a process of the driver, for every set of calls, regions   *)
(* and configurations.                                                     *)
(***************************************************************************)
EXTENDS Plugin, TLAPS

(***************************************************************************)
(* The region: the call that lists the workers holds the mutex, and the    *)
(* cache is empty until it lets go.                                        *)
(***************************************************************************)
RegionInv ==
  /\ lookup \in [Calls -> {"idle"} \union RegionPoints \union NodePoints]
  /\ regionMu \in Calls \union {Free}
  /\ \A c \in Calls : lookup[c] = "list" <=> regionMu = c
  /\ regionMu # Free => region = NoRegion
  /\ \A r \in answered : r = region /\ r # NoRegion

(***************************************************************************)
(* The role: what is built, advertised and called in a process.            *)
(***************************************************************************)
RoleInv ==
  /\ lookup \in [Calls -> {"idle"} \union RegionPoints \union NodePoints]
  /\ running \subseteq Calls
  /\ process \in {"ready", "waiting"} => built = Dependencies(config)
  /\ caps # {} => process \in {"ready", "waiting"} /\ config.role = "controller"
  /\ services # {} => process = "waiting"
  /\ \A c \in Calls :
       /\ lookup[c] \in RegionPoints => process = "waiting" /\ config.role = "controller"
       /\ lookup[c] \in NodePoints => process = "waiting" /\ config.role = "node"

(***************************************************************************)
(* The stop: once the server takes no calls it takes none again, and serve *)
(* outlives the handlers unless they were cut off.                         *)
(***************************************************************************)
DrainInv ==
  /\ running # {} => serve \in {"serving", "done"}
  /\ stopDone \/ stop = "drain" \/ serve = "done" => quit
  /\ forceStop # "done" /\ (stopDone \/ serve = "done") => running = {}

-----------------------------------------------------------------------------

\* Region, CurrentNode and what becomes of them, in any process.
LEMMA RegionKept ==
  ASSUME RegionInv, [PluginNext]_pluginVars
  PROVE  RegionInv'
<1> USE NoRegionAssumption, FreeAssumption DEF RegionInv, RegionPoints, NodePoints, Goto
<1>1. CASE UNCHANGED serviceVars
  BY <1>1 DEF serviceVars
<1>2. CASE UNCHANGED <<region, regionMu, lookup, answered>>
  BY <1>2
<1>3. CASE MetadataLost
  BY <1>3 DEF MetadataLost
<1>4. ASSUME NEW c \in Calls, RegionCall(c) \/ CurrentNodeCall(c, config.nodeName)
      PROVE  RegionInv'
  BY <1>4 DEF RegionCall, CurrentNodeCall
<1>5. ASSUME NEW c \in Calls, MetadataStep(c)
      PROVE  RegionInv'
  <2>1. CASE RegionLock(c)
    BY <2>1 DEF RegionLock
  <2>2. CASE RegionList(c)
    <3>1. regionMu = c /\ region = NoRegion /\ answered = {}
      BY <2>2 DEF RegionList
    <3> QED
      BY <2>2, <3>1 DEF RegionList
  <2>3. CASE RegionFails(c)
    BY <2>3 DEF RegionFails
  <2>4. CASE InstanceMetadata(c) \/ NodeByName(c) \/ NodeFails(c)
    BY <2>4 DEF InstanceMetadata, NodeByName, NodeFails
  <2> QED
    BY <1>5, <2>1, <2>2, <2>3, <2>4 DEF MetadataStep
<1> QED
  <2>1. CASE SetupLinodeDriver
    BY <2>1, <1>2 DEF SetupLinodeDriver, NewMetadata
  <2>2. CASE Run \/ ServeStep \/ Restart \/ StopStep
    BY <2>2, <1>1 DEF Run, ServeStep, Restart, StopStep, metadataVars
  <2>3. CASE ClusterStep
    BY <2>3, <1>1 DEF ClusterStep, WorkersChange, NodeObjectFilled
  <2>4. CASE Exit
    BY <2>4, <1>3 DEF Exit
  <2>5. ASSUME NEW c \in Calls, CreateVolume(c) \/ NodeGetInfo(c) \/ CallStep(c)
        PROVE  RegionInv'
    BY <2>5, <1>4, <1>5 DEF CreateVolume, NodeGetInfo, CallStep, Joined
  <2>6. CASE UNCHANGED pluginVars
    BY <2>6, <1>1 DEF pluginVars, metadataVars
  <2> QED
    BY <2>1, <2>2, <2>3, <2>4, <2>5, <2>6 DEF PluginNext

\* One process answers all its CreateVolume calls with one region.
THEOREM OneRegion == PluginSpec => []RegionsAgree
<1>1. PluginInit => RegionInv
  BY FreeAssumption DEF PluginInit, MetadataInit, RegionInv
<1>2. RegionInv /\ [PluginNext]_pluginVars => RegionInv'
  BY RegionKept
<1>3. RegionInv => RegionsAgree
  BY DEF RegionInv, RegionsAgree
<1> QED
  BY <1>1, <1>2, <1>3, PTL DEF PluginSpec

-----------------------------------------------------------------------------

\* A call goes on in the process that admitted it, and in the same half of the
\* metadata service.
LEMMA RoleKept ==
  ASSUME RoleInv, [PluginNext]_pluginVars
  PROVE  RoleInv'
<1> USE DEF RoleInv, RegionPoints, NodePoints
<1>1. CASE SetupLinodeDriver
  BY <1>1 DEF SetupLinodeDriver, NewMetadata, PluginCapabilities, grpcVars
<1>2. CASE Run
  BY <1>2 DEF Run, Start, metadataVars, serviceVars
<1>3. CASE ServeStep
  <2>1. UNCHANGED <<config, process, built, caps, lookup>> /\ process = "waiting"
    BY <1>3 DEF ServeStep, metadataVars, serviceVars
  <2>2. UNCHANGED running
    BY <1>3 DEF ServeStep, ServerStep, Listen, PublishServer, SignalReady, Serve,
                ServeReturns, StopServer, StopDrained, ForceStopServer
  <2> QED
    BY <2>1, <2>2
<1>4. CASE StopStep
  BY <1>4 DEF StopStep, StopCall, ForceStopCall, processVars, metadataVars, serviceVars
<1>5. CASE Exit
  BY <1>5 DEF Exit, MetadataLost, GrpcLost
<1>6. CASE Restart
  BY <1>6 DEF Restart, metadataVars, serviceVars, grpcVars
<1>7. CASE ClusterStep
  BY <1>7 DEF ClusterStep, WorkersChange, NodeObjectFilled, processVars, serviceVars, grpcVars
<1>8. ASSUME NEW c \in Calls, CreateVolume(c)
      PROVE  RoleInv'
  BY <1>8 DEF CreateVolume, Admit, RegionCall, Goto, processVars
<1>9. ASSUME NEW c \in Calls, NodeGetInfo(c)
      PROVE  RoleInv'
  BY <1>9 DEF NodeGetInfo, Admit, CurrentNodeCall, Goto, processVars
<1>10. ASSUME NEW c \in Calls, CallStep(c)
       PROVE  RoleInv'
  <2>1. UNCHANGED processVars /\ running' \subseteq running
    BY <1>10 DEF CallStep, Joined, Finish, grpcVars
  <2>2. PICK point \in {"idle"} \union RegionPoints \union NodePoints :
          /\ lookup' = [lookup EXCEPT ![c] = point]
          /\ point \in RegionPoints => lookup[c] \in RegionPoints
          /\ point \in NodePoints => lookup[c] \in NodePoints
    BY <1>10 DEF CallStep, Joined, MetadataStep, RegionLock, RegionList, RegionFails,
                 InstanceMetadata, NodeByName, NodeFails, Goto
  <2> QED
    BY <2>1, <2>2 DEF processVars
<1>11. CASE UNCHANGED pluginVars
  BY <1>11 DEF pluginVars, processVars, metadataVars, serviceVars, grpcVars
<1> QED
  BY <1>1, <1>2, <1>3, <1>4, <1>5, <1>6, <1>7, <1>8, <1>9, <1>10, <1>11 DEF PluginNext

\* No handler runs in a process that lacks the server it belongs to, although
\* node plugins register a nil ControllerServer.
THEOREM HandlersHaveServers == PluginSpec => []NoNilServer
<1>1. PluginInit => RoleInv
  BY DEF PluginInit, MetadataInit, GrpcInit, RoleInv, RegionPoints, NodePoints
<1>2. RoleInv /\ [PluginNext]_pluginVars => RoleInv'
  BY RoleKept
<1>3. RoleInv => NoNilServer
  BY DEF RoleInv, NoNilServer, Dependencies
<1> QED
  BY <1>1, <1>2, <1>3, PTL DEF PluginSpec

-----------------------------------------------------------------------------

LEMMA TypesKept ==
  ASSUME PluginTypeOK, [PluginNext]_pluginVars
  PROVE  PluginTypeOK'
<1> USE DEF PluginTypeOK, MetadataTypeOK, GrpcTypeOK, RegionPoints, NodePoints
<1>1. CASE SetupLinodeDriver
  <2>1. MetadataTypeOK'
    BY <1>1 DEF SetupLinodeDriver, NewMetadata, clusterVars
  <2>2. GrpcTypeOK(Calls)'
    BY <1>1 DEF SetupLinodeDriver, grpcVars
  <2>3. /\ built' \subseteq {"client", "mounter", "metadata", "ids", "cs", "ns"}
        /\ caps' \subseteq {"CONTROLLER_SERVICE", "ONLINE_EXPANSION"}
    BY <1>1 DEF SetupLinodeDriver, Dependencies, PluginCapabilities
  <2> QED
    BY <1>1, <2>1, <2>2, <2>3 DEF SetupLinodeDriver
<1>2. CASE Run
  BY <1>2 DEF Run, Start, metadataVars, clusterVars, serviceVars
<1>3. CASE ServeStep
  <2>1. GrpcTypeOK(Calls)'
    BY <1>3 DEF ServeStep, ServerStep, Listen, PublishServer, SignalReady, Serve,
                ServeReturns, StopServer, StopDrained, ForceStopServer
  <2> QED
    BY <1>3, <2>1 DEF ServeStep, Registered, metadataVars, clusterVars, serviceVars
<1>4. CASE StopStep
  BY <1>4 DEF StopStep, StopCall, ForceStopCall, processVars, metadataVars, clusterVars,
              serviceVars
<1>5. CASE Exit
  BY <1>5 DEF Exit, MetadataLost, GrpcLost, clusterVars
<1>6. CASE Restart
  BY <1>6 DEF Restart, metadataVars, clusterVars, serviceVars, grpcVars
<1>7. CASE ClusterStep
  <2>1. MetadataTypeOK'
    <3>1. CASE WorkersChange
      BY <3>1 DEF WorkersChange, serviceVars
    <3>2. CASE NodeObjectFilled
      BY <3>2 DEF NodeObjectFilled, serviceVars
    <3> QED
      BY <1>7, <3>1, <3>2 DEF ClusterStep
  <2>2. GrpcTypeOK(Calls)' /\ UNCHANGED processVars
    BY <1>7 DEF ClusterStep, grpcVars
  <2> QED
    BY <2>1, <2>2 DEF processVars
<1>8. ASSUME NEW c \in Calls, CreateVolume(c) \/ NodeGetInfo(c)
      PROVE  PluginTypeOK'
  <2>1. PICK point \in RegionPoints \union NodePoints : Goto(c, point)
    BY <1>8 DEF CreateVolume, NodeGetInfo, RegionCall, CurrentNodeCall
  <2>2. lookup' \in [Calls -> {"idle"} \union RegionPoints \union NodePoints]
    BY <2>1 DEF Goto
  <2>3. UNCHANGED <<clusterVars, instanceClient, region, regionMu, answered>>
    BY <1>8 DEF CreateVolume, NodeGetInfo, RegionCall, CurrentNodeCall
  <2>4. MetadataTypeOK'
    BY <2>2, <2>3 DEF clusterVars
  <2>5. GrpcTypeOK(Calls)'
    BY <1>8 DEF CreateVolume, NodeGetInfo, Admit
  <2> QED
    BY <1>8, <2>4, <2>5 DEF CreateVolume, NodeGetInfo, processVars
<1>9. ASSUME NEW c \in Calls, CallStep(c)
      PROVE  PluginTypeOK'
  <2>1. MetadataTypeOK'
    BY <1>9 DEF CallStep, Joined, MetadataStep, RegionLock, RegionList, RegionFails,
                InstanceMetadata, NodeByName, NodeFails, Goto, clusterVars
  <2>2. GrpcTypeOK(Calls)' /\ UNCHANGED processVars
    BY <1>9 DEF CallStep, Joined, Finish, grpcVars
  <2> QED
    BY <2>1, <2>2 DEF processVars
<1>10. CASE UNCHANGED pluginVars
  BY <1>10 DEF pluginVars, processVars, metadataVars, clusterVars, serviceVars, grpcVars
<1> QED
  BY <1>1, <1>2, <1>3, <1>4, <1>5, <1>6, <1>7, <1>8, <1>9, <1>10 DEF PluginNext

\* Every reachable state of a process is type correct.
THEOREM PluginTypes == PluginSpec => []PluginTypeOK
<1>1. PluginInit => PluginTypeOK
  BY DEF PluginInit, MetadataInit, GrpcInit, PluginTypeOK, MetadataTypeOK, GrpcTypeOK
<1>2. PluginTypeOK /\ [PluginNext]_pluginVars => PluginTypeOK'
  BY TypesKept
<1> QED
  BY <1>1, <1>2, PTL DEF PluginSpec

-----------------------------------------------------------------------------

\* The steps of serve, Stop, ForceStop and the calls.
LEMMA DrainKept ==
  ASSUME DrainInv, [PluginNext]_pluginVars
  PROVE  DrainInv'
<1> USE DEF DrainInv
<1>1. CASE UNCHANGED grpcVars
  BY <1>1 DEF grpcVars
<1>2. CASE Start \/ StopCall \/ ForceStopCall
  BY <1>2 DEF Start, StopCall, ForceStopCall
<1>3. CASE ServerStep
  <2>1. CASE Listen \/ PublishServer \/ SignalReady
    BY <2>1 DEF Listen, PublishServer, SignalReady
  <2>2. CASE Serve
    BY <2>2 DEF Serve
  <2>3. CASE ServeReturns
    BY <2>3 DEF ServeReturns
  <2>4. CASE StopServer
    BY <2>4 DEF StopServer
  <2>5. CASE StopDrained
    BY <2>5 DEF StopDrained
  <2>6. CASE ForceStopServer
    BY <2>6 DEF ForceStopServer
  <2> QED
    BY <1>3, <2>1, <2>2, <2>3, <2>4, <2>5, <2>6 DEF ServerStep
<1>4. CASE GrpcLost
  BY <1>4 DEF GrpcLost
<1>5. ASSUME NEW c \in Calls, Admit(c)
      PROVE  DrainInv'
  BY <1>5 DEF Admit
<1>6. ASSUME NEW c \in Calls, Finish(c)
      PROVE  DrainInv'
  BY <1>6 DEF Finish
<1> QED
  <2>1. CASE SetupLinodeDriver \/ Restart \/ ClusterStep
    BY <2>1, <1>1 DEF SetupLinodeDriver, Restart, ClusterStep
  <2>2. CASE Run \/ StopStep
    BY <2>2, <1>2 DEF Run, StopStep
  <2>3. CASE ServeStep
    BY <2>3, <1>3 DEF ServeStep
  <2>4. CASE Exit
    BY <2>4, <1>4 DEF Exit
  <2>5. ASSUME NEW c \in Calls, CreateVolume(c) \/ NodeGetInfo(c) \/ CallStep(c)
        PROVE  DrainInv'
    BY <2>5, <1>1, <1>5, <1>6 DEF CreateVolume, NodeGetInfo, CallStep, Joined
  <2>6. CASE UNCHANGED pluginVars
    BY <2>6, <1>1 DEF pluginVars
  <2> QED
    BY <2>1, <2>2, <2>3, <2>4, <2>5, <2>6 DEF PluginNext

\* When Wait returns after a graceful stop, no handler is running.
THEOREM StopDrains == PluginSpec => []GracefulStopDrains
<1>1. PluginInit => DrainInv
  BY DEF PluginInit, GrpcInit, DrainInv
<1>2. DrainInv /\ [PluginNext]_pluginVars => DrainInv'
  BY DrainKept
<1>3. DrainInv => GracefulStopDrains
  BY DEF DrainInv, GracefulStopDrains
<1> QED
  BY <1>1, <1>2, <1>3, PTL DEF PluginSpec

=============================================================================
