----------------------------- MODULE LogChannel -----------------------------
(***************************************************************************)
(* What dsme/logging.c promises to the code that calls dsme_log(): a       *)
(* bounded first-in first-out channel to the log.  A message is lost only  *)
(* when the channel is (nearly) full, the loss is counted, and the count   *)
(* goes out before the next message that gets through.  The promise ends   *)
(* when the logging thread is stopped, cannot be started or fails.         *)
(***************************************************************************)
EXTENDS Naturals, Sequences, SequencesExt

CONSTANTS Capacity, LowMark

VARIABLES up, queue, out, unreported

vars == <<up, queue, out, unreported>>

Entry == [kind : {"message", "lost"}, n : Nat]
LossReport(n) == [kind |-> "lost", n |-> n]

Init == up = TRUE /\ queue = <<>> /\ out = <<>> /\ unreported = 0

\* A message enters, unless a loss has still to be reported.
Put == /\ up /\ unreported = 0 /\ Len(queue) < Capacity
       /\ Len(queue') = Len(queue) + 1 /\ IsPrefix(queue, queue')
       /\ Last(queue') \in Entry /\ Last(queue').kind = "message"
       /\ UNCHANGED <<up, out, unreported>>

\* The number of messages lost enters, and the count starts again.
Report == /\ up /\ unreported > 0 /\ Len(queue) < LowMark
          /\ queue' = Append(queue, LossReport(unreported))
          /\ unreported' = 0
          /\ UNCHANGED <<up, out>>

\* A message is lost.  The reader may have written one entry that it has not
\* yet given back.
Lose == /\ up
        /\ Len(queue) + 1 >= (IF unreported = 0 THEN Capacity ELSE LowMark)
        /\ unreported' = unreported + 1
        /\ UNCHANGED <<up, queue, out>>

\* The oldest entry is written to the log.
Deliver == /\ up /\ queue # <<>>
           /\ out' = Append(out, Head(queue))
           /\ queue' = Tail(queue)
           /\ UNCHANGED <<up, unreported>>

\* The logging thread goes; what is in the log stays there.
Degrade == up /\ ~up' /\ queue' = <<>> /\ IsPrefix(out, out') /\ unreported' \in Nat

Degraded == ~up /\ ~up' /\ queue' = <<>> /\ IsPrefix(out, out') /\ unreported' \in Nat

Next == Put \/ Report \/ Lose \/ Deliver \/ Degrade \/ Degraded

Spec == Init /\ [][Next]_vars /\ WF_vars(Deliver)
=============================================================================
