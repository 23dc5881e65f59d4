----------------------------- MODULE Daemon -----------------------------
(***************************************************************************)
(* The Docker daemon (external), as the engine's calls see it.  A request  *)
(* takes effect at a moment of the daemon's choosing and is answered       *)
(* later; one whose caller stopped waiting may still take effect.  A       *)
(* request in flight is read off the caller's own state.  Refusals change  *)
(* nothing here and are part of the caller's actions.  A removal the       *)
(* daemon has begun completes.                                             *)
(***************************************************************************)
EXTENDS TaskState

daemonFrame == <<phase, settings, signalVars, startupVars, gateVars, endVars,
                 cleanupVars, cancel>>

DaemonCreatesNetwork ==
    /\ net = "asked"
    /\ net' = "present"
    /\ UNCHANGED <<daemonFrame, box>>

DaemonCreates(c) ==
    /\ stage[c] = "creating"
    /\ box[c] = "none"
    /\ box' = [box EXCEPT ![c] = "created"]
    /\ UNCHANGED <<daemonFrame, net>>

DaemonStarts(c) ==
    /\ stage[c] = "starting"
    /\ box[c] = "created"
    /\ box' = [box EXCEPT ![c] = "running"]
    /\ UNCHANGED <<daemonFrame, net>>

\* A container's process ends by itself, with exit code zero or another.
ContainerExits(c) ==
    /\ box[c] = "running"
    /\ \E exit \in Exited : box' = [box EXCEPT ![c] = exit]
    /\ UNCHANGED <<daemonFrame, net>>

DaemonStops(c) ==
    /\ rem[c] = "stopping"
    /\ box[c] = "running"
    /\ box' = [box EXCEPT ![c] = "stopped"]
    /\ UNCHANGED <<daemonFrame, net>>

DaemonBeginsRemoval(c) ==
    /\ rem[c] \in {"removing", "forcing"}
    /\ box[c] \in Existing
    /\ box' = [box EXCEPT ![c] = "removing"]
    /\ UNCHANGED <<daemonFrame, net>>

DaemonRemoves(c) ==
    /\ box[c] = "removing"
    /\ box' = [box EXCEPT ![c] = "gone"]
    /\ UNCHANGED <<daemonFrame, net>>

\* A network with a running container attached is not removed.
DaemonRemovesNetwork ==
    /\ netRem = "asked"
    /\ net = "present"
    /\ \A c \in Containers : box[c] # "running"
    /\ net' = "gone"
    /\ UNCHANGED <<daemonFrame, box>>

DaemonStep ==
    \/ DaemonCreatesNetwork
    \/ DaemonRemovesNetwork
    \/ \E c \in Containers :
          DaemonCreates(c) \/ DaemonStarts(c) \/ DaemonStops(c)
             \/ DaemonBeginsRemoval(c) \/ DaemonRemoves(c)
==========================================================================
