----------------------------- MODULE GrpcServer -----------------------------
(***************************************************************************)
(* nonBlockingGRPCServer: Start runs serve in a goroutine of its own; Stop *)
(* and ForceStop, of other goroutines, wait until serve has published the  *)
(* grpc.Server; Wait returns when serve does.  (The driver itself never    *)
(* calls Stop or ForceStop: its process is killed.)                        *)
(***************************************************************************)

VARIABLES
  serve,        \* the program point of serve
  server,       \* is the grpc.Server published?
  serverReady,  \* is the channel closed?
  stop,         \* the program points of Stop and of ForceStop
  forceStop,
  quit,         \* the grpc.Server takes no calls: its stop has begun
  stopDone,     \* a stop of the grpc.Server has ended
  running       \* the calls whose handlers run

grpcVars == <<serve, server, serverReady, stop, forceStop, quit, stopDone, running>>

GrpcTypeOK(calls) ==
  /\ serve \in {"none", "prepare", "publish", "signal", "serve", "serving", "done"}
  /\ server \in BOOLEAN /\ serverReady \in BOOLEAN
  /\ stop \in {"none", "wait", "drain", "done"} /\ forceStop \in {"none", "wait", "done"}
  /\ quit \in BOOLEAN /\ stopDone \in BOOLEAN
  /\ running \subseteq calls

GrpcInit ==
  /\ serve = "none" /\ server = FALSE /\ serverReady = FALSE
  /\ stop = "none" /\ forceStop = "none" /\ quit = FALSE /\ stopDone = FALSE
  /\ running = {}

\* The process is gone.
GrpcLost ==
  /\ serve' = "none" /\ server' = FALSE /\ serverReady' = FALSE
  /\ stop' = "none" /\ forceStop' = "none" /\ quit' = FALSE /\ stopDone' = FALSE
  /\ running' = {}

-----------------------------------------------------------------------------
(* serve.                                                                   *)

Start ==
  /\ serve = "none"
  /\ serve' = "prepare"
  /\ UNCHANGED <<server, serverReady, stop, forceStop, quit, stopDone, running>>

\* Mutant: the channel is closed before the server is published.
ListenSignals ==
  /\ serve = "prepare"
  /\ serve' = "publish" /\ serverReady' = TRUE
  /\ UNCHANGED <<server, stop, forceStop, quit, stopDone, running>>

\* The endpoint is listened on and the services are registered.  On an error
\* klog.Fatalf ends the process.
Listen ==
  /\ serve = "prepare"
  /\ serve' = "publish"
  /\ UNCHANGED <<server, serverReady, stop, forceStop, quit, stopDone, running>>

PublishServer ==
  /\ serve = "publish"
  /\ serve' = "signal" /\ server' = TRUE
  /\ UNCHANGED <<serverReady, stop, forceStop, quit, stopDone, running>>

SignalReady ==
  /\ serve = "signal"
  /\ serve' = "serve" /\ serverReady' = TRUE
  /\ UNCHANGED <<server, stop, forceStop, quit, stopDone, running>>

\* grpc's Serve returns at once when the server has been stopped before.
Serve ==
  /\ serve = "serve"
  /\ serve' = IF quit THEN "done" ELSE "serving"
  /\ UNCHANGED <<server, serverReady, stop, forceStop, quit, stopDone, running>>

\* Mutant: Serve returns as soon as a stop has begun.
ServeReturnsEarly ==
  /\ serve = "serving" /\ quit
  /\ serve' = "done"
  /\ UNCHANGED <<server, serverReady, stop, forceStop, quit, stopDone, running>>

\* Otherwise it returns when a stop has ended.
ServeReturns ==
  /\ serve = "serving" /\ stopDone
  /\ serve' = "done"
  /\ UNCHANGED <<server, serverReady, stop, forceStop, quit, stopDone, running>>

-----------------------------------------------------------------------------
(* Calls.                                                                   *)

Admit(c) ==
  /\ serve = "serving" /\ ~quit
  /\ c \notin running
  /\ running' = running \union {c}
  /\ UNCHANGED <<serve, server, serverReady, stop, forceStop, quit, stopDone>>

Finish(c) ==
  /\ running' = running \ {c}
  /\ UNCHANGED <<serve, server, serverReady, stop, forceStop, quit, stopDone>>

-----------------------------------------------------------------------------
(* Stop and ForceStop.                                                      *)

StopCall ==
  /\ stop = "none"
  /\ stop' = "wait"
  /\ UNCHANGED <<serve, server, serverReady, forceStop, quit, stopDone, running>>

\* serverForStop; without a server there is nothing to stop.
StopServer ==
  /\ stop = "wait" /\ serverReady
  /\ stop' = IF server THEN "drain" ELSE "done"
  /\ quit' = (quit \/ server)
  /\ UNCHANGED <<serve, server, serverReady, forceStop, stopDone, running>>

\* GracefulStop waits for the handlers, unless a forced stop ends its wait.
StopDrained ==
  /\ stop = "drain"
  /\ running = {} \/ forceStop = "done"
  /\ stop' = "done" /\ stopDone' = TRUE
  /\ UNCHANGED <<serve, server, serverReady, forceStop, quit, running>>

ForceStopCall ==
  /\ forceStop = "none"
  /\ forceStop' = "wait"
  /\ UNCHANGED <<serve, server, serverReady, stop, quit, stopDone, running>>

\* The handlers' contexts are cancelled, but nobody waits for them.
ForceStopServer ==
  /\ forceStop = "wait" /\ serverReady
  /\ forceStop' = "done"
  /\ quit' = (quit \/ server) /\ stopDone' = (stopDone \/ server)
  /\ UNCHANGED <<serve, server, serverReady, stop, running>>

ServerStep ==
  \/ Listen \/ PublishServer \/ SignalReady \/ Serve \/ ServeReturns
  \/ StopServer \/ StopDrained \/ ForceStopServer

-----------------------------------------------------------------------------
(* Properties.                                                              *)

\* When Wait returns after a graceful stop no handler is running: the process
\* may end without cutting one off between two calls of the Linode API.
GracefulStopDrains == serve = "done" /\ forceStop = "none" => running = {}

\* A stop that is asked for, even before serve has published the server, ends
\* the server.
StopCompletes == stop = "wait" ~> serve \in {"done", "none"}

=============================================================================
