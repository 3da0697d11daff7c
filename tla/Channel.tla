------------------------------ MODULE Channel ------------------------------
(***************************************************************************)
(* What a MessageHandler promises to those that hand it messages: on each  *)
(* connection they come out whole, in order and at most once. Messages may *)
(* be lost when a connection ends.                                         *)
(***************************************************************************)
EXTENDS Integers, Sequences, SequencesExt

CONSTANTS Connections, Messages

VARIABLES
  sent,   \* the messages handed over, in order
  got     \* got[s]: the messages that came out of connection s

Init == sent = <<>> /\ got = [s \in Connections |-> <<>>]

Received == UNION {ToSet(got[s]) : s \in Connections}

Send(m) ==
  /\ m \notin ToSet(sent)
  /\ sent' = Append(sent, m)
  /\ UNCHANGED got

(* A message comes out if it was not skipped on this connection before.    *)
Receive(s, k) ==
  /\ sent[k] \notin Received
  /\ \A j \in k..Len(sent) : sent[j] \notin ToSet(got[s])
  /\ got' = [got EXCEPT ![s] = Append(@, sent[k])]
  /\ UNCHANGED sent

Next == \/ \E m \in Messages : Send(m)
        \/ \E s \in Connections : \E k \in DOMAIN sent : Receive(s, k)

Spec == Init /\ [][Next]_<<sent, got>>
=============================================================================
