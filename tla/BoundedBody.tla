---------------------------- MODULE BoundedBody ----------------------------
(***************************************************************************)
(* What a caller of safehttp.Client.Do may rely on when it reads the body  *)
(* of a response: bytes come in order; the body ends as whole only when    *)
(* all of it came and it is within the limit; whatever else happens shows  *)
(* as a failure, and at most one byte beyond the limit is ever handed out. *)
(***************************************************************************)
EXTENDS Integers

CONSTANTS Limit,   \* the limit of the client
          Sizes    \* the sizes a body may have

VARIABLES size,    \* the bytes the upstream has for this response
          given,   \* the bytes handed to the caller so far
          end      \* how the body ended for the caller

vars == <<size, given, end>>

Init == size \in Sizes /\ given = 0 /\ end = "open"

\* What may have been handed out after the next read.
Reach == {n \in given..size : n <= Limit + 1}

\* A read that returns bytes and no error.
Give == \E n \in Reach :
    end = "open" /\ n <= Limit /\ given' = n /\ UNCHANGED <<size, end>>

\* A read that reports the end, with the last bytes or without any.
Finish ==
    end = "open" /\ size <= Limit /\ given' = size /\ end' = "whole" /\ UNCHANGED size

\* A read that fails, with some bytes or none, or a response that is refused.
Fail == \E n \in Reach :
    end = "open" /\ given' = n /\ end' = "failed" /\ UNCHANGED size

Next == Give \/ Finish \/ Fail

Spec == Init /\ [][Next]_vars
=============================================================================
