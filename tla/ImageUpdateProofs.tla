------------------------- MODULE ImageUpdateProofs -------------------------
(***************************************************************************)
(* What the update script keeps for every set of images and of runs: types,*)
(* the image that the tag is left on, and the image an update is reported  *)
(* for.                                                                    *)
(***************************************************************************)
EXTENDS ImageUpdate, TLAPS

\* Only the holder of the lock is under way.
HolderWorks == \A s \in Scripts : pc[s] # "idle" => lock = s

\* A health that was seen is that of the container which runs now.
HealthyIsTried == health = "healthy" => running \in tried

\* What a run may rely on at its step: the image to go back to was healthy, and
\* the tag names the image it is about.
Expected(s) ==
    /\ pc[s] \in {"inspect", "pull"} => edge \in tried
    /\ pc[s] \notin {"idle", "inspect"} => old[s] \in tried
    /\ pc[s] \in {"restart", "poll"} => edge = new[s]
    /\ pc[s] = "poll" => running = edge
    /\ pc[s] = "start" => edge = old[s]
    /\ pc[s] # "orphaned"

TagIsSound == ~upset =>
    /\ lock = None => edge \in tried
    /\ \A s \in Scripts : Expected(s)

\* The inductive invariant.
UpdateInv == TypeOK /\ HolderWorks /\ HealthyIsTried /\ TagIsSound

-----------------------------------------------------------------------------
\* A host whose unit was installed with an image that runs.
LEMMA UpdateInvInit == Init => UpdateInv
<1> SUFFICES ASSUME Init PROVE UpdateInv
    OBVIOUS
<1> USE ImagesAssumption
<1>1. TypeOK
    BY DEF Init, TypeOK, Steps
<1>2. HolderWorks /\ HealthyIsTried
    BY DEF Init, HolderWorks, HealthyIsTried
<1>3. TagIsSound
    BY DEF Init, TagIsSound, Expected
<1>. QED BY <1>1, <1>2, <1>3 DEF UpdateInv

\* A run that goes on keeps the lock, and one that ends gives it back.
LEMMA LockKept ==
    ASSUME UpdateInv, NEW s \in Scripts, pc[s] # "idle",
           Exit(s) \/ \E where \in Steps : To(s, where)
    PROVE  /\ pc' \in [Scripts -> Steps] /\ lock' \in Scripts \cup {None}
           /\ HolderWorks'
           /\ \A t \in Scripts : t # s => pc'[t] = "idle" /\ pc[t] = "idle"
<1> USE ImagesAssumption
<1>1. lock = s /\ pc \in [Scripts -> Steps]
    BY DEF UpdateInv, HolderWorks, TypeOK
<1>2. \A t \in Scripts : t # s => pc[t] = "idle" /\ pc'[t] = "idle"
    BY <1>1 DEF UpdateInv, HolderWorks, To, Exit
<1>3. CASE Exit(s)
    BY <1>1, <1>2, <1>3 DEF Exit, HolderWorks, Steps
<1>4. CASE \E where \in Steps : To(s, where)
    BY <1>1, <1>2, <1>4 DEF To, HolderWorks, Steps
<1>. QED BY <1>2, <1>3, <1>4

-----------------------------------------------------------------------------
\* The steps of a run.
LEMMA RunKeepsInv ==
    ASSUME UpdateInv, NEW s \in Scripts, Step(s)
    PROVE  UpdateInv'
<1> USE ImagesAssumption
<1> USE DEF UpdateInv
<1>1. CASE Lock(s)
    <2>1. TypeOK' /\ HealthyIsTried'
        BY <1>1 DEF Lock, podman, TypeOK, HealthyIsTried, Steps
    <2>2. HolderWorks'
        BY <1>1 DEF Lock, HolderWorks, TypeOK
    <2>3. TagIsSound'
        BY <1>1 DEF Lock, podman, TagIsSound, Expected, TypeOK, HolderWorks
    <2>. QED BY <2>1, <2>2, <2>3
<1>2. CASE InspectOld(s)
    <2>1. pc[s] # "idle" /\ (Exit(s) \/ \E where \in Steps : To(s, where))
        BY <1>2 DEF InspectOld, Steps
    <2>2. TypeOK' /\ HealthyIsTried'
        BY <1>2, <2>1, LockKept DEF InspectOld, podman, TypeOK, HealthyIsTried
    <2>3. TagIsSound'
        BY <1>2, <2>1, LockKept DEF InspectOld, To, Exit, podman, TagIsSound, Expected, TypeOK, HolderWorks
    <2>. QED BY <2>1, <2>2, <2>3, LockKept
<1>3. CASE Pull(s)
    <2>1. pc[s] # "idle" /\ (Exit(s) \/ \E where \in Steps : To(s, where))
        BY <1>3 DEF Pull, Steps
    <2>2. TypeOK' /\ HealthyIsTried'
        BY <1>3, <2>1, LockKept DEF Pull, TypeOK, HealthyIsTried
    <2>3. TagIsSound'
        BY <1>3, <2>1, LockKept DEF Pull, To, Exit, TagIsSound, Expected, TypeOK, HolderWorks
    <2>. QED BY <2>1, <2>2, <2>3, LockKept
<1>4. CASE Compare(s)
    <2>1. pc[s] # "idle" /\ (Exit(s) \/ \E where \in Steps : To(s, where))
        BY <1>4 DEF Compare, Steps
    <2>2. TypeOK' /\ HealthyIsTried'
        BY <1>4, <2>1, LockKept DEF Compare, podman, TypeOK, HealthyIsTried
    <2>3. TagIsSound'
        BY <1>4, <2>1, LockKept DEF Compare, To, Exit, podman, TagIsSound, Expected, TypeOK, HolderWorks
    <2>. QED BY <2>1, <2>2, <2>3, LockKept
<1>5. CASE RestartService(s)
    <2>1. pc[s] # "idle" /\ (Exit(s) \/ \E where \in Steps : To(s, where))
        BY <1>5 DEF RestartService, Steps
    <2>2. TypeOK' /\ HealthyIsTried'
        BY <1>5, <2>1, LockKept DEF RestartService, StartContainer, StopContainer, TypeOK, HealthyIsTried
    <2>3. TagIsSound'
        BY <1>5, <2>1, LockKept DEF RestartService, StartContainer, StopContainer, To, TagIsSound, Expected, TypeOK, HolderWorks
    <2>. QED BY <2>1, <2>2, <2>3, LockKept
<1>6. CASE Poll(s)
    <2>1. pc[s] # "idle" /\ (Exit(s) \/ \E where \in Steps : To(s, where))
        BY <1>6 DEF Poll, Steps
    <2>2. TypeOK' /\ HealthyIsTried'
        BY <1>6, <2>1, LockKept DEF Poll, podman, TypeOK, HealthyIsTried
    <2>3. TagIsSound'
        BY <1>6, <2>1, LockKept DEF Poll, To, Exit, podman, TagIsSound, Expected, TypeOK, HolderWorks, HealthyIsTried
    <2>. QED BY <2>1, <2>2, <2>3, LockKept
<1>7. CASE StopService(s)
    <2>1. pc[s] # "idle" /\ (Exit(s) \/ \E where \in Steps : To(s, where))
        BY <1>7 DEF StopService, Steps
    <2>2. TypeOK' /\ HealthyIsTried'
        BY <1>7, <2>1, LockKept DEF StopService, StopContainer, TypeOK, HealthyIsTried
    <2>3. TagIsSound'
        BY <1>7, <2>1, LockKept DEF StopService, StopContainer, To, TagIsSound, Expected, TypeOK, HolderWorks
    <2>. QED BY <2>1, <2>2, <2>3, LockKept
<1>8. CASE Untag(s)
    <2>1. pc[s] # "idle" /\ (Exit(s) \/ \E where \in Steps : To(s, where))
        BY <1>8 DEF Untag, Steps
    <2>2. TypeOK' /\ HealthyIsTried'
        BY <1>8, <2>1, LockKept DEF Untag, TypeOK, HealthyIsTried
    <2>3. TagIsSound'
        BY <1>8, <2>1, LockKept DEF Untag, To, TagIsSound, Expected, TypeOK, HolderWorks
    <2>. QED BY <2>1, <2>2, <2>3, LockKept
<1>9. CASE Tag(s)
    <2>1. pc[s] # "idle" /\ (Exit(s) \/ \E where \in Steps : To(s, where))
        BY <1>9 DEF Tag, Steps
    <2>2. TypeOK' /\ HealthyIsTried'
        BY <1>9, <2>1, LockKept DEF Tag, TypeOK, HealthyIsTried
    <2>3. TagIsSound'
        BY <1>9, <2>1, LockKept DEF Tag, To, Exit, TagIsSound, Expected, TypeOK, HolderWorks
    <2>. QED BY <2>1, <2>2, <2>3, LockKept
<1>10. CASE StartService(s)
    <2>1. pc[s] # "idle" /\ Exit(s)
        BY <1>10 DEF StartService
    <2>2. TypeOK' /\ HealthyIsTried'
        BY <1>10, <2>1, LockKept DEF StartService, StartContainer, TypeOK, HealthyIsTried
    <2>3. TagIsSound'
        BY <1>10, <2>1, LockKept DEF StartService, StartContainer, Exit, TagIsSound, Expected, TypeOK, HolderWorks
    <2>. QED BY <2>1, <2>2, <2>3, LockKept
<1>11. CASE Kill(s)
    <2>1. pc[s] # "idle" /\ upset' /\ (Exit(s) \/ \E where \in Steps : To(s, where))
        BY <1>11 DEF Kill, Steps
    <2>2. TypeOK' /\ HealthyIsTried' /\ TagIsSound'
        BY <1>11, <2>1, LockKept DEF Kill, podman, TypeOK, HealthyIsTried, TagIsSound
    <2>. QED BY <2>1, <2>2, LockKept
<1>12. CASE OrphanEnds(s)
    <2>1. pc[s] # "idle" /\ Exit(s)
        BY <1>12 DEF OrphanEnds
    <2>2. TypeOK' /\ HealthyIsTried'
        BY <1>12, <2>1, LockKept DEF OrphanEnds, podman, TypeOK, HealthyIsTried
    <2>3. upset
        BY <1>12 DEF OrphanEnds, TagIsSound, Expected
    <2>4. TagIsSound'
        BY <1>12, <2>3 DEF OrphanEnds, TagIsSound
    <2>. QED BY <2>1, <2>2, <2>4, LockKept
<1>. QED BY <1>1, <1>2, <1>3, <1>4, <1>5, <1>6, <1>7, <1>8, <1>9, <1>10, <1>11, <1>12 DEF Step

\* What goes on beside the runs.
LEMMA OthersKeepInv ==
    ASSUME UpdateInv, Publish \/ HealthCheck \/ UnitRestarts \/ Install \/ UNCHANGED vars
    PROVE  UpdateInv'
<1> USE ImagesAssumption
<1> USE DEF UpdateInv, TypeOK, HolderWorks, HealthyIsTried, TagIsSound, Expected, script
<1>1. CASE Publish
    BY <1>1 DEF Publish
<1>2. CASE HealthCheck
    BY <1>2 DEF HealthCheck
<1>3. CASE UnitRestarts
    BY <1>3 DEF UnitRestarts, StartContainer
<1>4. CASE Install
    BY <1>4 DEF Install
<1>5. CASE UNCHANGED vars
    BY <1>5 DEF vars, podman
<1>. QED BY <1>1, <1>2, <1>3, <1>4, <1>5

\* The invariant holds through every update, kill and restart.
LEMMA UpdateInvAlways == Spec => []UpdateInv
<1>1. UpdateInv /\ [Next]_vars => UpdateInv'
    BY RunKeepsInv, OthersKeepInv DEF Next
<1>. QED BY UpdateInvInit, <1>1, PTL DEF Spec

-----------------------------------------------------------------------------
\* Type correctness of the update.
THEOREM UpdateTypes == Spec => []TypeOK
<1>1. UpdateInv => TypeOK
    BY DEF UpdateInv
<1>. QED BY UpdateInvAlways, <1>1, PTL

\* Unless a run is killed, podman fails between the pull and the verdict or
\* install.sh pulls, every run leaves the tag on an image that was healthy once,
\* for any number of images and of overlapping runs.
THEOREM TagRestsOnTried == Spec => []RestingImageIsTried
<1>1. UpdateInv => RestingImageIsTried
    BY DEF UpdateInv, TagIsSound, RestingImageIsTried
<1>. QED BY UpdateInvAlways, <1>1, PTL

\* An update is reported only for the image that was seen healthy.
THEOREM ReportIsTrue == Spec => UpdatedIsHealthy
<1>1. ASSUME UpdateInv, [Next]_vars, NEW s \in Scripts,
             pc[s] = "poll", pc'[s] = "idle", ~upset'
      PROVE  running = new[s] /\ new[s] \in tried
    <2> USE ImagesAssumption
    <2>1. PICK t \in Scripts : Step(t)
        BY <1>1 DEF Next, Publish, HealthCheck, UnitRestarts, Install, script, vars
    <2>2. t = s
        <3>1. pc[t] # "idle" \/ lock = None
            BY <2>1 DEF Step, Lock, InspectOld, Pull, Compare, RestartService, Poll,
                        StopService, Untag, Tag, StartService, Kill, OrphanEnds
        <3>. QED BY <1>1, <3>1 DEF UpdateInv, HolderWorks, TypeOK
    <2>3. Poll(s) \/ Kill(s)
        BY <1>1, <2>1, <2>2 DEF Step, Lock, InspectOld, Pull, Compare, RestartService,
                        StopService, Untag, Tag, StartService, OrphanEnds
    <2>4. Poll(s) /\ ~upset /\ health = "healthy"
        BY <1>1, <2>3 DEF Poll, Kill, To, UpdateInv, TypeOK
    <2>. QED BY <1>1, <2>4 DEF UpdateInv, TagIsSound, Expected, HealthyIsTried
<1>2. UpdateInv /\ [Next]_vars =>
        [\A s \in Scripts :
            pc[s] = "poll" /\ pc'[s] = "idle" /\ ~upset' => running = new[s] /\ new[s] \in tried]_vars
    BY <1>1
<1>. QED BY UpdateInvAlways, <1>2, PTL DEF Spec, UpdatedIsHealthy
=============================================================================
