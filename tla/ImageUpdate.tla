---------------------------- MODULE ImageUpdate ----------------------------
(***************************************************************************)
(* deploy/update-atlas-bridge.sh: the update of the bridge's image by a    *)
(* timer or by hand, with its rollback, next to the service unit that      *)
(* podman and systemd run and to deploy/install.sh, which pulls too.       *)
(*                                                                         *)
(* One step is one command of the script, which runs under set -e; podman, *)
(* systemd and the registry are external, and any command may fail.        *)
(***************************************************************************)
EXTENDS Integers

CONSTANTS
    Images,   \* images ever published as edge
    Sound,    \* the ones whose container becomes healthy
    Scripts,  \* runs of the script that may overlap
    None      \* no image, no run

ASSUME ImagesAssumption ==
    Sound \subseteq Images /\ Sound # {} /\ None \notin Images \cup Scripts

VARIABLES
    remote,   \* what the registry has as edge
    edge,     \* what the local tag names
    running,  \* the image of the container
    health,   \* State.Health.Status of the container
    lock,     \* who holds the flock on update.lock
    pc,       \* where each run stands
    old,      \* old_image_id of each run
    new,      \* new_image_id of each run
    tried,    \* images a container of which has been healthy
    upset     \* whether something happened that the script has no answer to

podman == <<remote, edge, running, health, tried>>
script == <<lock, pc, old, new>>
vars == <<podman, script, upset>>

Init ==
    /\ remote \in Images /\ edge \in Sound
    /\ running = edge /\ health = "healthy" /\ tried = {edge}
    /\ lock = None /\ pc = [s \in Scripts |-> "idle"]
    /\ old = [s \in Scripts |-> None] /\ new = [s \in Scripts |-> None]
    /\ upset = FALSE

-----------------------------------------------------------------------------
(* Parts of the steps. *)

To(s, where) == pc' = [pc EXCEPT ![s] = where] /\ UNCHANGED lock

\* The script ends, and its lock with it.
Exit(s) ==
    /\ pc' = [pc EXCEPT ![s] = "idle"]
    /\ lock' = IF lock = s THEN None ELSE lock

\* A container of the image the tag names is started, if there is one.
StartContainer ==
    /\ running' = edge
    /\ health' = IF edge = None THEN "none" ELSE "starting"

StopContainer == running' = None /\ health' = "none"

-----------------------------------------------------------------------------
(* The script. *)

\* Mutant of Lock: what flock says is not looked at.
Lock_Ignored(s) ==
    /\ pc[s] = "idle"
    /\ pc' = [pc EXCEPT ![s] = "inspect"] /\ lock' = s
    /\ UNCHANGED <<podman, old, new, upset>>

\* flock --nonblock: a second run ends at once.
Lock(s) ==
    /\ pc[s] = "idle" /\ lock = None
    /\ pc' = [pc EXCEPT ![s] = "inspect"] /\ lock' = s
    /\ UNCHANGED <<podman, old, new, upset>>

\* The image the tag names now; without one the script ends here.
InspectOld(s) ==
    /\ pc[s] = "inspect"
    /\ \/ edge # None /\ old' = [old EXCEPT ![s] = edge] /\ To(s, "pull")
       \/ Exit(s) /\ UNCHANGED old
    /\ UNCHANGED <<podman, new, upset>>

\* podman pull moves the tag, or fails and leaves it.
Pull(s) ==
    /\ pc[s] = "pull"
    /\ \/ edge' = remote /\ To(s, "compare")
       \/ Exit(s) /\ UNCHANGED edge
    /\ UNCHANGED <<remote, running, health, tried, old, new, upset>>

\* The second inspect; one that fails leaves an image behind that the next run
\* takes for the current one.
Compare(s) ==
    /\ pc[s] = "compare"
    /\ \/ /\ edge # None
          /\ new' = [new EXCEPT ![s] = edge]
          /\ IF old[s] = edge THEN Exit(s) ELSE To(s, "restart")
          /\ UNCHANGED upset
       \/ /\ Exit(s) /\ upset' = TRUE /\ UNCHANGED new
    /\ UNCHANGED <<podman, old>>

\* systemctl restart, in an if: its failure leads to the rollback, whether it
\* came before the old container was stopped or after.
RestartService(s) ==
    /\ pc[s] = "restart"
    /\ \/ edge # None /\ StartContainer /\ To(s, "poll")
       \/ StopContainer /\ To(s, "stop")
       \/ UNCHANGED <<running, health>> /\ To(s, "stop")
    /\ UNCHANGED <<remote, edge, tried, old, new, upset>>

\* Thirty looks at the container's health; only "healthy" ends them early.  They
\* may all come before it is, or fail themselves, which counts as not healthy.
Poll(s) ==
    /\ pc[s] = "poll"
    /\ \/ health = "healthy" /\ Exit(s)
       \/ To(s, "stop")
    /\ UNCHANGED <<podman, old, new, upset>>

\* systemctl stop || true
StopService(s) ==
    /\ pc[s] = "stop"
    /\ StopContainer \/ UNCHANGED <<running, health>>
    /\ To(s, "untag")
    /\ UNCHANGED <<remote, edge, tried, old, new, upset>>

\* podman untag || true
Untag(s) ==
    /\ pc[s] = "untag"
    /\ edge' \in {None, edge}
    /\ To(s, "tag")
    /\ UNCHANGED <<remote, running, health, tried, old, new, upset>>

\* Mutant of Tag: the new image is named again.
Tag_New(s) ==
    /\ pc[s] = "tag"
    /\ edge' = new[s] /\ To(s, "start")
    /\ UNCHANGED <<remote, running, health, tried, old, new, upset>>

\* podman tag of the old image; a failure ends the script without a tag.
Tag(s) ==
    /\ pc[s] = "tag"
    /\ \/ edge' = old[s] /\ To(s, "start") /\ UNCHANGED upset
       \/ Exit(s) /\ upset' = TRUE /\ UNCHANGED edge
    /\ UNCHANGED <<remote, running, health, tried, old, new>>

\* reset-failed || true, then systemctl start, which leaves a unit that a failed
\* stop left running as it is; either way the script ends.
StartService(s) ==
    /\ pc[s] = "start"
    /\ \/ running = None /\ StartContainer
       \/ UNCHANGED <<running, health>>
    /\ Exit(s)
    /\ UNCHANGED <<remote, edge, tried, old, new, upset>>

\* The run is killed, or the machine goes down under it.  The command it was at
\* has inherited the descriptor of the lock and keeps it until it ends too; what
\* such a command still does is the step before the kill.
Kill(s) ==
    /\ pc[s] \notin {"idle", "orphaned"}
    /\ Exit(s) \/ To(s, "orphaned")
    /\ upset' = TRUE
    /\ UNCHANGED <<podman, old, new>>

\* The command of a killed run ends.
OrphanEnds(s) ==
    /\ pc[s] = "orphaned" /\ Exit(s)
    /\ UNCHANGED <<podman, old, new, upset>>

-----------------------------------------------------------------------------
(* What goes on beside it. *)

\* External: a new image is published.
Publish ==
    /\ remote' \in Images
    /\ UNCHANGED <<edge, running, health, tried, script, upset>>

\* External: the health check of a container, which a sound image may pass, and
\* the first minutes of it may take longer than the script waits.
HealthCheck ==
    /\ running # None
    /\ \/ running \in Sound /\ health' = "healthy" /\ tried' = tried \cup {running}
       \/ health' = "unhealthy" /\ UNCHANGED tried
    /\ UNCHANGED <<remote, edge, running, script, upset>>

\* External: Restart=always, or a boot, brings up a container of the tagged image.
UnitRestarts ==
    /\ StartContainer
    /\ UNCHANGED <<remote, edge, tried, script, upset>>

\* install.sh pulls without the lock, then starts the service if it is down.
Install ==
    /\ edge' = remote /\ upset' = TRUE
    /\ UNCHANGED <<remote, running, health, tried, script>>

-----------------------------------------------------------------------------
Step(s) ==
    \/ Lock(s) \/ InspectOld(s) \/ Pull(s) \/ Compare(s) \/ RestartService(s) \/ Poll(s)
    \/ StopService(s) \/ Untag(s) \/ Tag(s) \/ StartService(s) \/ Kill(s)
    \/ OrphanEnds(s)

Next == (\E s \in Scripts : Step(s)) \/ Publish \/ HealthCheck \/ UnitRestarts \/ Install

Spec == Init /\ [][Next]_vars

-----------------------------------------------------------------------------
(* Properties. *)

Steps == {"idle", "inspect", "pull", "compare", "restart", "poll", "stop", "untag", "tag", "start",
          "orphaned"}

\* Every variable stays in its range.
TypeOK ==
    /\ remote \in Images /\ edge \in Images \cup {None} /\ running \in Images \cup {None}
    /\ health \in {"none", "starting", "healthy", "unhealthy"}
    /\ lock \in Scripts \cup {None} /\ pc \in [Scripts -> Steps]
    /\ old \in [Scripts -> Images \cup {None}] /\ new \in [Scripts -> Images \cup {None}]
    /\ tried \subseteq Images /\ upset \in BOOLEAN

\* When no run is under way the tag names an image that was healthy once, so
\* that the next run has something to go back to: a new image that failed is
\* not left in its place, and the tag is not lost.  It takes a kill, a podman
\* that fails between the pull and the verdict, or install.sh to break this.
RestingImageIsTried == lock = None /\ ~upset => edge \in tried

\* "Updated" is reported for the image whose container was seen healthy, not for
\* one that another run put in its place.
UpdatedIsHealthy ==
    [][\A s \in Scripts :
        pc[s] = "poll" /\ pc'[s] = "idle" /\ ~upset' => running = new[s] /\ new[s] \in tried]_vars
=============================================================================
