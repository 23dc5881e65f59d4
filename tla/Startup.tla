----------------------------- MODULE Startup -----------------------------
(***************************************************************************)
(* Bringing a task's containers up (engine.rs): the network, then every    *)
(* image and container creation at once, bounded by max_parallelism        *)
(* permits, while each dependency starts as soon as its own dependencies   *)
(* are ready.  The first failure anywhere ends the run: try_join drops     *)
(* everything else where it stands.                                        *)
(***************************************************************************)
EXTENDS Daemon

startupFrame == <<settings, signalVars, cleanupVars, gateVars>>
imageFrame == <<stage, setups, created, netKnown>>
\* what a step of startup that does not end the run leaves alone
goingOn == <<phase, endVars, cancel>>

CreatedStages == {"created", "starting", "waiting", "setup", "exec", "ready",
                  "running"}

----------------------------------------------------------------------------
(* The task network.                                                       *)

\* create_network answered, or the existing network was found.
NetworkReady ==
    /\ phase = "network"
    /\ settings.own_network => net = "present"
    /\ phase' = "startup"
    /\ netKnown' = settings.own_network
    /\ UNCHANGED <<startupFrame, endVars, cancel, daemonVars, image, stage,
                   setups, free, created>>

NetworkFails ==
    /\ phase = "network"
    /\ "network" \in MayFail
    /\ settings.own_network => net = "asked"
    /\ net' = "none"
    /\ EndRun("failed", image)
    /\ UNCHANGED <<startupFrame, imageFrame, box>>

----------------------------------------------------------------------------
(* resolve_image, resolve_pulled_image: one memo per image.                *)

\* local_image_id answers under IfNotPresent: here already, or to be pulled.
FindLocalImage(i) ==
    /\ phase = "startup"
    /\ image[i] = "checking"
    /\ \E next \in {"ready", "queued"} : image' = [image EXCEPT ![i] = next]
    /\ UNCHANGED <<startupFrame, goingOn, daemonVars, imageFrame, free>>

\* The permit is taken and the pull or build begins.
BeginImage(i) ==
    /\ phase = "startup"
    /\ image[i] = "queued"
    /\ free > 0
    /\ free' = free - 1
    /\ image' = [image EXCEPT ![i] = "working"]
    /\ UNCHANGED <<startupFrame, goingOn, daemonVars, imageFrame>>

\* The pull or build succeeds; extra tags are applied with the permit held.
FinishImage(i) ==
    /\ phase = "startup"
    /\ \/ /\ image[i] = "working"
          /\ i \in Tagged
          /\ image' = [image EXCEPT ![i] = "tagging"]
          /\ free' = free
       \/ /\ image[i] = (IF i \in Tagged THEN "tagging" ELSE "working")
          /\ image' = [image EXCEPT ![i] = "ready"]
          /\ free' = free + 1
    /\ UNCHANGED <<startupFrame, goingOn, daemonVars, imageFrame>>

ImageFails(i) ==
    /\ phase = "startup"
    /\ "image" \in MayFail
    /\ image[i] \in {"checking", "working", "tagging"}
    /\ EndRun("failed", [image EXCEPT ![i] = "failed"])
    /\ UNCHANGED <<startupFrame, daemonVars, imageFrame>>

----------------------------------------------------------------------------
(* ensure_container_created.  The create is a shared future kept in        *)
(* pending_creates, so it goes on being polled after the run has ended.    *)

\* The image is resolved, the network target created, then a permit taken.
RequestCreate(c) ==
    /\ phase = "startup"
    /\ stage[c] = "image"
    /\ image[ImageOf[c]] = "ready"
    /\ NetTarget[c] # None => stage[NetTarget[c]] \in CreatedStages
    /\ free > 0
    /\ free' = free - 1
    /\ stage' = [stage EXCEPT ![c] = "creating"]
    /\ UNCHANGED <<startupFrame, goingOn, daemonVars, image, setups, created,
                   netKnown>>

\* Mutant: a container is registered only once it is prepared.
RegisterCreated_Late(c) ==
    /\ phase \in {"startup", "pending"}
    /\ stage[c] = "creating"
    /\ box[c] # "none"
    /\ stage' = [stage EXCEPT ![c] = "preparing"]
    /\ UNCHANGED <<startupFrame, goingOn, daemonVars, image, setups, free,
                   created, netKnown>>

\* create_container answers with an id, registered before identity::apply.
RegisterCreated(c) ==
    /\ phase \in {"startup", "pending"}
    /\ stage[c] = "creating"
    /\ box[c] # "none"
    /\ stage' = [stage EXCEPT ![c] = "preparing"]
    /\ created' = created \cup {c}
    /\ UNCHANGED <<startupFrame, goingOn, daemonVars, image, setups, free,
                   netKnown>>

\* identity::apply is done and the create's answer is in.
FinishCreate(c) ==
    /\ phase \in {"startup", "pending"}
    /\ stage[c] = "preparing"
    /\ stage' = [stage EXCEPT ![c] = "created"]
    /\ free' = IF phase = "startup" THEN free + 1 ELSE free
    /\ UNCHANGED <<startupFrame, goingOn, daemonVars, image, setups, created,
                   netKnown>>

\* A create fails: before the container exists (its spec cannot be built, or
\* the daemon refuses it), or after, when the error carries its id.
CreateFails(c) ==
    /\ phase \in {"startup", "pending"}
    /\ \/ /\ "create" \in MayFail
          /\ \/ stage[c] = "image" /\ image[ImageOf[c]] = "ready"
                   /\ phase = "startup"
             \/ stage[c] = "creating" /\ box[c] = "none"
          /\ created' = created
       \/ /\ "prepare" \in MayFail
          /\ \/ stage[c] = "creating" /\ box[c] # "none"
             \/ stage[c] = "preparing"
          /\ created' = created \cup {c}
    /\ stage' = [stage EXCEPT ![c] = "failed"]
    /\ IF phase = "startup" THEN EndRun("failed", image)
                            ELSE UNCHANGED <<goingOn, image, free>>
    /\ UNCHANGED <<startupFrame, daemonVars, setups, netKnown>>

----------------------------------------------------------------------------
(* ensure_container_ready, for every container but the task's own.         *)

\* Mutant: only creation is waited for, not readiness.
RequestStart_OnceCreated(c) ==
    /\ phase = "startup"
    /\ c # Root
    /\ stage[c] = "created"
    /\ \A d \in Deps[c] : stage[d] \in CreatedStages
    /\ free > 0
    /\ free' = free - 1
    /\ stage' = [stage EXCEPT ![c] = "starting"]
    /\ UNCHANGED <<startupFrame, goingOn, daemonVars, image, setups, created,
                   netKnown>>

RequestStart(c) ==
    /\ phase = "startup"
    /\ c # Root
    /\ stage[c] = "created"
    /\ \A d \in Deps[c] : stage[d] = "ready"
    /\ free > 0
    /\ free' = free - 1
    /\ stage' = [stage EXCEPT ![c] = "starting"]
    /\ UNCHANGED <<startupFrame, goingOn, daemonVars, image, setups, created,
                   netKnown>>

\* Mutant: the permit is held until the container is ready.
Started_KeepsPermit(c) ==
    /\ phase = "startup"
    /\ stage[c] = "starting"
    /\ box[c] # "created"
    /\ stage' = [stage EXCEPT ![c] = "waiting"]
    /\ UNCHANGED <<startupFrame, goingOn, daemonVars, image, setups, created,
                   netKnown, free>>

Started(c) ==
    /\ phase = "startup"
    /\ stage[c] = "starting"
    /\ box[c] # "created"
    /\ stage' = [stage EXCEPT ![c] = "waiting"]
    /\ free' = free + 1
    /\ UNCHANGED <<startupFrame, goingOn, daemonVars, image, setups, created,
                   netKnown>>

StartFails(c) ==
    /\ phase = "startup"
    /\ stage[c] = "starting"
    /\ "start" \in MayFail
    /\ box[c] = "created"
    /\ EndRun("failed", image)
    /\ UNCHANGED <<startupFrame, daemonVars, imageFrame>>

\* A dependency is ready; one that keeps running gets an exit watcher.
BecomeReady(c) ==
    /\ stage' = [stage EXCEPT ![c] = "ready"]
    /\ watch' = IF c \in Completes THEN watch
                                   ELSE [watch EXCEPT ![c] = "watching"]

\* The readiness wait succeeds: exit code zero for a run_to_completion
\* container, a healthy verdict (or no health check) for any other, unless a
\* companion container checks its health.
Waited(c) ==
    /\ phase = "startup"
    /\ stage[c] = "waiting"
    /\ c \in Completes => box[c] = "exited0"
    /\ IF c \notin Completes /\ setups[c] > 0
         THEN stage' = [stage EXCEPT ![c] = "setup"] /\ watch' = watch
         ELSE BecomeReady(c)
    /\ UNCHANGED <<startupFrame, phase, result, base, cancel, daemonVars,
                   image, setups, free, created, netKnown>>

WaitFails(c) ==
    /\ phase = "startup"
    /\ stage[c] = "waiting"
    /\ IF c \in Completes THEN box[c] = "exited1" \/ "wait" \in MayFail
                          ELSE c \notin ExternallyChecked /\ CanFail("health", c)
    /\ EndRun("failed", image)
    /\ UNCHANGED <<startupFrame, daemonVars, imageFrame>>

\* run_setup_commands: one at a time, a permit for each.
BeginSetup(c) ==
    /\ phase = "startup"
    /\ stage[c] = "setup"
    /\ free > 0
    /\ free' = free - 1
    /\ stage' = [stage EXCEPT ![c] = "exec"]
    /\ UNCHANGED <<startupFrame, goingOn, daemonVars, image, setups, created,
                   netKnown>>

FinishSetup(c) ==
    /\ phase = "startup"
    /\ stage[c] = "exec"
    /\ setups' = [setups EXCEPT ![c] = @ - 1]
    /\ free' = free + 1
    /\ IF setups[c] > 1
         THEN stage' = [stage EXCEPT ![c] = "setup"] /\ watch' = watch
         ELSE BecomeReady(c)
    /\ UNCHANGED <<startupFrame, phase, result, base, cancel, daemonVars,
                   image, created, netKnown>>

SetupFails(c) ==
    /\ phase = "startup"
    /\ stage[c] = "exec"
    /\ CanFail("setup", c)
    /\ EndRun("failed", image)
    /\ UNCHANGED <<startupFrame, daemonVars, imageFrame>>

\* The watcher's wait_for_container_exit returns, whatever ended the
\* container, and it posts DependencyExitedUnexpectedly.
WatcherPosts(c) ==
    /\ watch[c] = "watching"
    /\ box[c] \in Exited \cup {"stopped"}
    /\ watch' = [watch EXCEPT ![c] = "posted"]
    /\ UNCHANGED <<startupFrame, phase, result, base, cancel, daemonVars,
                   startupVars>>

----------------------------------------------------------------------------

StartupStep ==
    \/ NetworkReady
    \/ NetworkFails
    \/ \E i \in Images : FindLocalImage(i) \/ BeginImage(i) \/ FinishImage(i)
                            \/ ImageFails(i)
    \/ \E c \in Containers :
          \/ RequestCreate(c) \/ RegisterCreated(c) \/ FinishCreate(c)
          \/ CreateFails(c) \/ RequestStart(c) \/ Started(c) \/ StartFails(c)
          \/ Waited(c) \/ WaitFails(c) \/ BeginSetup(c) \/ FinishSetup(c)
          \/ SetupFails(c) \/ WatcherPosts(c)
==========================================================================
