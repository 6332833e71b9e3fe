--------------------------- MODULE AppendOnlyLog ---------------------------
(***************************************************************************)
(* What an event log with retention promises of its lines: they are added  *)
(* at the end, in the order of the events, they never change, and they     *)
(* leave only at the front.                                                *)
(***************************************************************************)
EXTENDS Naturals, Sequences

VARIABLE log

Init == log = <<>>

(* One line is added after all others. *)
Extend ==
    /\ Len(log') = Len(log) + 1
    /\ SubSeq(log', 1, Len(log)) = log
    /\ \A k \in 1..Len(log) : log[k] < log'[Len(log')]

(* Retention drops the oldest lines. *)
Trim == \E k \in 1..Len(log) : log' = SubSeq(log, k + 1, Len(log))

Spec == Init /\ [][Extend \/ Trim]_log

=============================================================================
