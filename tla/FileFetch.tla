----------------------------- MODULE FileFetch ------------------------------
(***************************************************************************)
(* What Transmission.DownloadFile promises the calls that are made of it.  *)
(*                                                                         *)
(* A call asks for a file of a torrent, waits, and is then closing with    *)
(* the file in its hands or without.  A job, whose call has a directory of *)
(* its own, only ever gets the complete file that it asked for, out of a   *)
(* download into that directory and within the limit.  If the daemon can   *)
(* be relied on, nothing of this download is left in it when the job's     *)
(* call has ended; only a call that asked for the same torrent, and is     *)
(* closing, takes it away.  Calls that share a directory get no promise of *)
(* what they are handed.                                                   *)
(***************************************************************************)
CONSTANTS Calls,     \* the calls
          Jobs,      \* those with a directory of their own
          Hashes,    \* torrents
          TooLarge   \* those over the size limit of the calls

VARIABLES reliable,  \* whether the daemon answers every RPC
          phase,     \* where each call is
          asked,     \* the torrent it is for
          handed,    \* the file it was given
          traces     \* the jobs that have a download in the daemon

vars == <<reliable, phase, asked, handed, traces>>

Nothing == [hash |-> "none", complete |-> FALSE]
Files   == [hash : Hashes, complete : BOOLEAN]

Init ==
    /\ reliable \in BOOLEAN
    /\ phase = [c \in Calls |-> "idle"]
    /\ asked = [c \in Calls |-> "none"]
    /\ handed = [c \in Calls |-> Nothing]
    /\ traces = {}

Move(c, from, to) == phase[c] = from /\ phase' = [phase EXCEPT ![c] = to]

Ask(c) ==
    /\ Move(c, "idle", "waiting")
    /\ \E h \in Hashes : asked' = [asked EXCEPT ![c] = h]
    /\ UNCHANGED <<reliable, handed, traces>>

\* The daemon begins a download into the job's directory.
Download(c) ==
    /\ c \in Jobs /\ phase[c] = "waiting"
    /\ traces' = traces \cup {c}
    /\ UNCHANGED <<reliable, phase, asked, handed>>

Hand(c, file) ==
    /\ Move(c, "waiting", "closing")
    /\ c \in Jobs => /\ file = [hash |-> asked[c], complete |-> TRUE]
                     /\ asked[c] \notin TooLarge /\ c \in traces
    /\ handed' = [handed EXCEPT ![c] = file]
    /\ UNCHANGED <<reliable, asked, traces>>

\* The call gives up.  If it does so because an answer was lost, the daemon may
\* have begun a download that nobody knows of.
GiveUp(c) ==
    /\ Move(c, "waiting", "closing")
    /\ traces' = traces \/ (~reliable /\ c \in Jobs /\ traces' = traces \cup {c})
    /\ UNCHANGED <<reliable, asked, handed>>

\* The download of a job is taken out of the daemon.
Remove(c) ==
    /\ c \in traces
    /\ \E d \in Calls : phase[d] = "closing" /\ asked[d] = asked[c]
    /\ traces' = traces \ {c}
    /\ UNCHANGED <<reliable, phase, asked, handed>>

End(c) ==
    /\ Move(c, "closing", IF handed[c] # Nothing THEN "served" ELSE "failed")
    /\ reliable => c \notin traces
    /\ UNCHANGED <<reliable, asked, handed, traces>>

\* The process dies, and its calls with it.
Die ==
    /\ phase' = [c \in Calls |-> IF phase[c] \in {"waiting", "closing"} THEN "lost" ELSE phase[c]]
    /\ UNCHANGED <<reliable, asked, handed, traces>>

Next ==
    \/ \E c \in Calls :
          \/ Ask(c) \/ Download(c) \/ GiveUp(c) \/ Remove(c) \/ End(c)
          \/ \E file \in Files : Hand(c, file)
    \/ Die

Spec == Init /\ [][Next]_vars
=============================================================================
