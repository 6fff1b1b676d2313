------------------------ MODULE AcquisitionLifecycle ------------------------
(***************************************************************************)
(* What the acquisition manager promises the clients that poll it: the     *)
(* life of an acquisition as GET /v1/acquisitions/{id} shows it.           *)
(*                                                                         *)
(* An acquisition has the phase its work is really in and the status that  *)
(* is shown.  The two differ only by a cancelled mark, which lasts until   *)
(* the work moves on.  The file becomes readable at most once, when the    *)
(* work is completed or after, and stays so until the process restarts.    *)
(***************************************************************************)
CONSTANT Ids

VARIABLES
    phase,      \* where the work on each acquisition is
    shown,      \* the status a poll returns
    readable    \* the acquisitions whose file has been offered

vars == <<phase, shown, readable>>

Phases   == {"none", "queued", "resolving", "downloading",
             "completed", "closed", "failed", "gone"}
Statuses == {"unknown", "queued", "resolving", "downloading",
             "completed", "failed", "cancelled"}

\* The phases a phase can move on to by itself.  A completed acquisition is
\* closed once its file was, or failed to be, offered.
Successors == [queued      |-> {"resolving"},
               resolving   |-> {"downloading", "failed"},
               downloading |-> {"completed", "failed"}]

Init ==
    /\ phase = [id \in Ids |-> "none"]
    /\ shown = [id \in Ids |-> "unknown"]
    /\ readable = {}

Submit(id) ==
    /\ phase[id] = "none"
    /\ phase' = [phase EXCEPT ![id] = "queued"]
    /\ shown' = [shown EXCEPT ![id] = "queued"]
    /\ UNCHANGED readable

\* A step of the work shows its own phase, whatever mark was there before.
Advance(id) ==
    /\ phase[id] \in DOMAIN Successors
    /\ \E next \in Successors[phase[id]] :
          /\ phase' = [phase EXCEPT ![id] = next]
          /\ shown' = [shown EXCEPT ![id] = next]
    /\ UNCHANGED readable

\* The file is offered after completion, or it could not be opened.
Close(id) ==
    /\ phase[id] = "completed"
    /\ phase' = [phase EXCEPT ![id] = "closed"]
    /\ readable' \in {readable, readable \cup {id}}
    /\ UNCHANGED shown

\* Both at once.
CompleteAndClose(id) ==
    /\ phase[id] = "downloading"
    /\ phase' = [phase EXCEPT ![id] = "closed"]
    /\ shown' = [shown EXCEPT ![id] = "completed"]
    /\ readable' \in {readable, readable \cup {id}}

\* A cancel only changes what is shown.
Mark(id) ==
    /\ phase[id] \notin {"none", "gone"}
    /\ shown' = [shown EXCEPT ![id] = "cancelled"]
    /\ UNCHANGED <<phase, readable>>

\* The process restarts and knows nothing of the acquisitions it had.
Restart ==
    /\ phase' = [id \in Ids |-> IF phase[id] = "none" THEN "none" ELSE "gone"]
    /\ shown' = [id \in Ids |-> "unknown"]
    /\ readable' = {}

Next ==
    \/ \E id \in Ids :
          Submit(id) \/ Advance(id) \/ Close(id) \/ CompleteAndClose(id) \/ Mark(id)
    \/ Restart

Spec == Init /\ [][Next]_vars
=============================================================================
