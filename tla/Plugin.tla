------------------------------- MODULE Plugin -------------------------------
(***************************************************************************)
(* A process of the driver, in the controller pod or in a node pod: main   *)
(* reads the configuration and builds what the role needs, Run starts the  *)
(* gRPC server, and the calls it admits use the metadata service.  Its     *)
(* container is restarted whenever the process ends.                       *)
(***************************************************************************)
EXTENDS Metadata, GrpcServer

CONSTANT Configs  \* the environments: DRIVER_ROLE, LINODE_TOKEN, NODE_NAME (is it set?),
                  \* NFS_ACCESS_POLICY_MODE

ASSUME ConfigsAssumption ==
  Configs \subseteq [role : {"controller", "node", "other"}, token : BOOLEAN,
                     nodeName : BOOLEAN, mode : {"space", "node", "other"}]

VARIABLES
  config,
  process,   \* "starting", "ready" (set up), "waiting" (in Run), "exited"
  built,     \* what dependenciesForRole and SetupLinodeDriver made
  caps,      \* what GetPluginCapabilities advertises
  ready,     \* LinodeDriver.ready, which Probe answers with
  services   \* the gRPC services that are registered

processVars == <<config, process, built, caps, ready, services>>
pluginVars == <<processVars, metadataVars, grpcVars>>

PluginTypeOK ==
  /\ MetadataTypeOK /\ GrpcTypeOK(Calls)
  /\ config \in Configs
  /\ process \in {"starting", "ready", "waiting", "exited"}
  /\ built \subseteq {"client", "mounter", "metadata", "ids", "cs", "ns"}
  /\ caps \subseteq {"CONTROLLER_SERVICE", "ONLINE_EXPANSION"}
  /\ ready \in BOOLEAN
  /\ services \subseteq {"identity", "controller", "node"}

PluginInit ==
  /\ MetadataInit /\ GrpcInit
  /\ config \in Configs
  /\ process = "starting"
  /\ built = {} /\ caps = {} /\ ready = FALSE /\ services = {}

-----------------------------------------------------------------------------
(* main.                                                                    *)

Dependencies(c) ==
  IF c.role = "controller" THEN {"client", "metadata", "ids", "cs"}
                           ELSE {"mounter", "metadata", "ids", "ns"}

\* Mutant: every plugin is taken for a controller.
PluginCapabilitiesAlways(role) == {"CONTROLLER_SERVICE", "ONLINE_EXPANSION"}

PluginCapabilities(role) ==
  IF role = "controller" THEN {"CONTROLLER_SERVICE", "ONLINE_EXPANSION"} ELSE {}

Accepted(c) ==
  /\ c.role \in {"controller", "node"}
  /\ c.role = "controller" => c.token
  /\ c.mode \in {"space", "node"}

SetupLinodeDriver ==
  /\ process = "starting"
  /\ Accepted(config)
  /\ process' = "ready" /\ built' = Dependencies(config)
  /\ caps' = PluginCapabilities(config.role)
  /\ NewMetadata(config.role)
  /\ UNCHANGED <<config, ready, services, grpcVars>>

\* Run; the type of what is registered comes with Listen.
Run ==
  /\ process = "ready"
  /\ process' = "waiting" /\ ready' = TRUE
  /\ Start
  /\ UNCHANGED <<config, built, caps, services, metadataVars>>

\* What Run passes to Start: interface values, each with its type and whether the
\* pointer in it is nil.
Interface(type, object) == [type |-> type, nil |-> object \notin built]

IsNil(interface) == interface.type = "none"

\* serve registers every service whose interface is not nil.
Registered ==
  {s \in {"identity", "controller", "node"} :
     ~IsNil(CASE s = "identity" -> Interface("IdentityServer", "ids")
              [] s = "controller" -> Interface("ControllerServer", "cs")
              [] s = "node" -> Interface("NodeServer", "ns"))}

ServeStep ==
  /\ process = "waiting"
  /\ ServerStep
  /\ services' = IF serve = "prepare" THEN Registered ELSE services
  /\ UNCHANGED <<config, process, built, caps, ready, metadataVars>>

\* The process ends: the configuration or the environment is refused, the endpoint
\* cannot be listened on (klog.Fatalf), Wait has returned, or it is killed.
Exit ==
  /\ process # "exited"
  /\ process' = "exited" /\ built' = {} /\ caps' = {} /\ ready' = FALSE /\ services' = {}
  /\ MetadataLost /\ GrpcLost
  /\ UNCHANGED config

Restart ==
  /\ process = "exited"
  /\ process' = "starting"
  /\ UNCHANGED <<config, built, caps, ready, services, metadataVars, grpcVars>>

-----------------------------------------------------------------------------
(* Calls.  The kubelet talks to node plugins only; whoever provisions asks  *)
(* a plugin whether it is a controller.                                     *)

Joined(c, step) ==
  /\ step
  /\ IF lookup'[c] = "idle" THEN Finish(c) ELSE UNCHANGED grpcVars
  /\ UNCHANGED processVars

CreateVolume(c) ==
  /\ "controller" \in services /\ "CONTROLLER_SERVICE" \in caps
  /\ Admit(c)
  /\ RegionCall(c)
  /\ UNCHANGED processVars

\* The kubelet asks until it has an answer.
NodeGetInfo(c) ==
  /\ "node" \in services /\ config.role = "node" /\ ~registered
  /\ Admit(c)
  /\ CurrentNodeCall(c, config.nodeName)
  /\ UNCHANGED processVars

CallStep(c) == Joined(c, MetadataStep(c))

ClusterStep ==
  /\ \/ config.role = "controller" /\ WorkersChange
     \/ config.role = "node" /\ NodeObjectFilled
  /\ UNCHANGED <<processVars, grpcVars>>

StopStep ==
  /\ process = "waiting"
  /\ StopCall \/ ForceStopCall
  /\ UNCHANGED <<processVars, metadataVars>>

PluginNext ==
  \/ SetupLinodeDriver \/ Run \/ ServeStep \/ StopStep
  \/ Exit \/ Restart
  \/ ClusterStep
  \/ \E c \in Calls : CreateVolume(c) \/ NodeGetInfo(c) \/ CallStep(c)

PluginSpec == PluginInit /\ [][PluginNext]_pluginVars

\* The goroutines run; calls of the Kubernetes API and of the instance metadata
\* service end with their callers' deadlines at the latest, and are answered in
\* the end; a Go mutex does not starve a waiter; the kubelet retries.
PluginFairness ==
  /\ WF_pluginVars(SetupLinodeDriver) /\ WF_pluginVars(Run) /\ WF_pluginVars(ServeStep)
  /\ WF_pluginVars(Restart)
  /\ \A c \in Calls :
       /\ SF_pluginVars(Joined(c, RegionLock(c)))
       /\ WF_pluginVars(Joined(c, RegionFails(c)))
       /\ WF_pluginVars(NodeGetInfo(c))
       /\ WF_pluginVars(Joined(c, InstanceMetadata(c)))
       /\ SF_pluginVars(Joined(c, NodeByName(c)))
       /\ WF_pluginVars(Joined(c, NodeFails(c)))

PluginFairSpec == PluginSpec /\ PluginFairness

-----------------------------------------------------------------------------
(* Properties.                                                              *)

\* A handler runs only in a process that has built the server it belongs to.
\* Node plugins register a nil ControllerServer; what keeps its methods, which
\* would dereference it, from being called is what the plugin advertises.
NoNilServer ==
  \A c \in running :
    /\ lookup[c] \in RegionPoints => {"cs", "client", "metadata"} \subseteq built
    /\ lookup[c] \in NodePoints => {"ns", "metadata"} \subseteq built

LeftAlone == process # "exited" /\ stop = "none" /\ forceStop = "none"

\* The kubelet gets the ID of a node whose plugin knows its name, in the end, once
\* the CCM has filled in the Node object, with or without an instance metadata
\* service and whatever errors that answers with.  Excepted are processes that
\* are killed or stopped again and again, and an instance metadata service that
\* lets calls run into their deadline for ever: it takes the fallback with it.
RegistrationCompletes ==
  <>[](LeftAlone /\ \A c \in Calls : lookup[c] # "expired") =>
    (config.role = "node" /\ config.nodeName /\ Accepted(config) /\ nodeObject ~> registered)

\* The architecture guide: DRIVER_ROLE picks which gRPC services get registered.
ServicesMatchRole == services # {} => services = {"identity", config.role}

=============================================================================
