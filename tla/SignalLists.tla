---------------------------- MODULE SignalLists ----------------------------
(***************************************************************************)
(* The input lists of one machine, as signal.cc keeps them.                *)
(*                                                                         *)
(* A Machine maps each input name to the head of a doubly linked list of   *)
(* Signals.  The link fields live in the Signals and are keyed by the      *)
(* machine, not by the input, so one record holds all that one machine m   *)
(* sees of them:                                                           *)
(*   input[i]     the head that Machine::input maps i to (NULL: no entry)  *)
(*   next[s]      s->next[m]      (NULL: no entry, or a NULL entry)        *)
(*   previous[s]  s->previous[m]                                           *)
(* The operators are written on the pointers, not on sequences, because    *)
(* the code gives no guarantee that a signal is in one list only once.     *)
(***************************************************************************)
EXTENDS Naturals, FiniteSets

CONSTANTS Signals,    \* all output signals of all machines
          Inputs,     \* input names, in map order: 1..n
          NULL

NoLinks == [input    |-> [i \in Inputs |-> NULL],
            next     |-> [s \in Signals |-> NULL],
            previous |-> [s \in Signals |-> NULL]]

(* Signal::link called on the head h: ns goes right behind h. The fields   *)
(* are assigned in the order of the code; h, ns and after may coincide.    *)
Link(l, h, ns) ==
  LET after == l.next[h]
      next  == [l.next EXCEPT ![h] = ns, ![ns] = after]
      prev  == [l.previous EXCEPT ![ns] = h]
  IN [l EXCEPT !.next = next,
               !.previous = IF after = NULL THEN prev
                            ELSE [prev EXCEPT ![after] = next[h]]]

(* The n-th signal met by following next from h, NULL past the end.        *)
Walk(l, h) ==
  LET at[n \in 0..Cardinality(Signals)] ==
        IF n = 0 THEN h
        ELSE LET s == at[n-1] IN IF s = NULL THEN NULL ELSE l.next[s]
  IN at

Members(l, h) == {Walk(l, h)[n] : n \in 0..Cardinality(Signals)} \ {NULL}

Terminates(l, h) == Walk(l, h)[Cardinality(Signals)] = NULL

(* A fault to detect: the successor keeps its pointer to ns.               *)
UnlinkForward(l, h, ns) ==
  LET p    == l.previous[ns]
      n    == l.next[ns]
      next == IF p = NULL THEN l.next ELSE [l.next EXCEPT ![p] = n]
  IN [head  |-> IF ns = h THEN n ELSE h,
      links |-> [l EXCEPT !.next = [next EXCEPT ![ns] = NULL],
                          !.previous = [l.previous EXCEPT ![ns] = NULL]]]

(* Signal::unlink on the head h, for an ns that the walk finds. (When it   *)
(* does not find it the code throws, and changes nothing.)                 *)
Unlink(l, h, ns) ==
  LET p    == l.previous[ns]
      n    == l.next[ns]
      next == IF p = NULL THEN l.next ELSE [l.next EXCEPT ![p] = n]
      prev == IF n = NULL THEN l.previous ELSE [l.previous EXCEPT ![n] = p]
  IN [head  |-> IF ns = h THEN n ELSE h,
      links |-> [l EXCEPT !.next = [next EXCEPT ![ns] = NULL],
                          !.previous = [prev EXCEPT ![ns] = NULL]]]

(* The inner loop of Machine::detach_all_inputs on one input: every signal *)
(* of the set out is unlinked, and after each one the walk restarts at the *)
(* head. visits[s] counts how often s was detached. Rounds bounds the loop  *)
(* for every list that ends; on one that does not, the code would not      *)
(* return either.                                                          *)
Rounds == (Cardinality(Signals) + 1) * (Cardinality(Signals) + 1)

DrainInput(l, i, out) ==
  LET round[n \in 0..Rounds] ==
        IF n = 0
        THEN [links  |-> l, head |-> l.input[i], at |-> l.input[i],
              visits |-> [s \in Signals |-> 0]]
        ELSE LET r == round[n-1]
                 u == Unlink(r.links, r.head, r.at)
             IN CASE r.at = NULL -> r
                  [] r.at \in out ->
                       [links |-> u.links, head |-> u.head, at |-> u.head,
                        visits |-> [r.visits EXCEPT ![r.at] = @ + 1]]
                  [] OTHER -> [r EXCEPT !.at = r.links.next[r.at]]
      end == round[Rounds]
  IN [links  |-> [end.links EXCEPT !.input[i] = end.head],
      visits |-> end.visits]

(* Machine::detach_all_inputs: all inputs, in map order.                   *)
Drain(l, out) ==
  LET upto[i \in {0} \cup Inputs] ==
        IF i = 0
        THEN [links |-> l, visits |-> [s \in Signals |-> 0]]
        ELSE LET r == upto[i-1]
                 d == DrainInput(r.links, i, out)
             IN [links  |-> d.links,
                 visits |-> [s \in Signals |-> r.visits[s] + d.visits[s]]]
  IN upto[Cardinality(Inputs)]
=============================================================================
