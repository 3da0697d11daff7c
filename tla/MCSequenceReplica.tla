-------------------------- MODULE MCSequenceReplica -------------------------
(* Instances of SequenceReplica for TLC.                                   *)
EXTENDS SequenceReplica

CONSTANTS c1

Span(a, l, b) == [start_at |-> a, loop_length |-> l, stop_at |-> b]

(* A long instance, one within it, one that overlaps it in part, and one    *)
(* that ends where it starts.                                              *)
FewInstances == {Span(0, 1, 4), Span(1, 1, 2), Span(3, 1, 6), Span(5, 1, 5)}

FewNotes == {[on_at |-> 0, note |-> 60], [on_at |-> 1, note |-> 60]}
=============================================================================
