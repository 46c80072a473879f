--------------------------- MODULE HelperService ---------------------------
(***************************************************************************)
(* What the privileged helper promises the library, whatever happens to    *)
(* the helper process: calls are served one at a time, each one ends once, *)
(* and it ends either without an answer or with the answer to the very     *)
(* question it asked, never with one meant for an earlier call.            *)
(***************************************************************************)
EXTENDS Naturals

VARIABLES
  calls,  \* how many calls have begun
  busy,   \* one is in progress
  asked,  \* what the last one asked for
  answer  \* how it ended: whether answered, and which call's question that was

svars == <<calls, busy, asked, answer>>

Questions == {"grab", "cursor"}

Pending == [ok |-> FALSE, of |-> 0, kind |-> "none"]

Failed(k) == [ok |-> FALSE, of |-> 0, kind |-> k]

Begin == /\ ~busy
         /\ busy' = TRUE
         /\ calls' = calls + 1
         /\ asked' \in Questions
         /\ answer' = Pending

Finish == /\ busy
          /\ busy' = FALSE
          /\ answer' \in {Failed(asked), [ok |-> TRUE, of |-> calls, kind |-> asked]}
          /\ UNCHANGED <<calls, asked>>

Init == calls = 0 /\ busy = FALSE /\ asked = "none" /\ answer = Pending

Next == Begin \/ Finish

Spec == Init /\ [][Next]_svars

=============================================================================
