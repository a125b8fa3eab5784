------------------------------ MODULE AsyncJob ------------------------------
(***************************************************************************)
(* What an asynchronous simulation promises to whoever reads its progress  *)
(* channel, whichever entry point of sim/core or sim/web started it:       *)
(* reports whose number of completed iterations never goes back, then one  *)
(* final message, then the channel is closed.  A complete result comes     *)
(* with every requested iteration done.                                    *)
(***************************************************************************)
EXTENDS Naturals

CONSTANT MaxTotal  \* bound: the largest number of iterations of a request

VARIABLES total,    \* iterations requested
          done,     \* iterations the last report counts
          outcome,  \* "none" until the final message, then what it says
          ended     \* the channel is closed
vars == <<total, done, outcome, ended>>

Init == total \in 0..MaxTotal /\ done = 0 /\ outcome = "none" /\ ended = FALSE

Report ==
  /\ outcome = "none"
  /\ done' \in done..total
  /\ UNCHANGED <<total, outcome, ended>>

Finish ==
  /\ outcome = "none"
  /\ \/ outcome' = "complete" /\ done' = total /\ total > 0
     \/ outcome' \in {"aborted", "error"} /\ UNCHANGED done
  /\ UNCHANGED <<total, ended>>

Close ==
  /\ outcome # "none" /\ ~ended
  /\ ended' = TRUE
  /\ UNCHANGED <<total, done, outcome>>

Next == Report \/ Finish \/ Close

\* What it never does, and with what it does eventually.
Safety == Init /\ [][Next]_vars

Spec == Safety /\ WF_vars(Finish) /\ WF_vars(Close)
=============================================================================
