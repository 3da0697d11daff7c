------------------------- MODULE MessageLinkProofs -------------------------
(***************************************************************************)
(* Proofs about MessageLink, whatever the number of messages, of their     *)
(* fields and of connections, and wherever a connection is lost.           *)
(*                                                                         *)
(* The client never has two writes under way (WriterInv).                  *)
(*                                                                         *)
(* When no message repeats a key, the MessageHandlers implement Channel.   *)
(* The inductive invariant looks at all that is on its way on a connection *)
(* as one stream: what the agent has of the message it reads, what is on   *)
(* the wire and what is still to be written (Views). There is a labelling  *)
(* of each stream that tells which piece of which message every piece is   *)
(* (Streams): messages have growing numbers, all but the last are whole,   *)
(* what came out is older than what is on its way, and no message is on    *)
(* two connections. A write takes the next number and is added behind      *)
(* whole messages only, because the writer of a connection that is up is   *)
(* never stopped in the middle of one (Whole); a connection that is given  *)
(* up keeps a part of a message at its end, and nothing is written to it   *)
(* again. Most steps move a piece from one part of the stream to the next. *)
(***************************************************************************)
EXTENDS MessageLink, TLAPS, SequenceTheorems
INSTANCE ListLemmas WITH Op <- Append

(* What waits for its handler. A read that succeeds goes on to the next    *)
(* at once, so that only a write is found to have succeeded.               *)
Completions == {Failed("read"), Failed("write"), Done("write")}

(* The part of the type invariant that the argument needs.                 *)
WriterType ==
  /\ ready \in Seq(Completions)
  /\ write_msgs \in Seq(MessageType)
  /\ posted \in Seq(MessageType) /\ handed \in Seq(MessageType)
  /\ writing = NULL \/ writing \in Seq(Pieces) \ {<<>>}

(* A write that is under way, or has succeeded, is that of the first       *)
(* message of the queue: the queue is not empty then.                      *)
WriteHasMessage ==
  /\ writing # NULL => write_msgs # <<>>
  /\ \A k \in DOMAIN ready : ready[k] = Done("write") => write_msgs # <<>>

WriterInv == WriterType /\ WriteHasMessage /\ OneWrite

-----------------------------------------------------------------------------
(* What close leaves behind are failures.                                  *)
LEMMA AbortedFails ==
  /\ Aborted \in Seq(Completions)
  /\ \A k \in DOMAIN Aborted : Aborted[k] # Done("write")
<1> DEFINE r == IF reading THEN <<Failed("read")>> ELSE <<>>
           w == IF writing # NULL THEN <<Failed("write")>> ELSE <<>>
<1>1. ASSUME NEW op \in {"read", "write"}
      PROVE  /\ <<Failed(op)>> \in Seq(Completions)
             /\ \A k \in DOMAIN <<Failed(op)>> : <<Failed(op)>>[k] # Done("write")
  <2>1. Failed(op) \in Completions /\ Failed(op) # Done("write")
    BY DEF Completions, Failed, Done
  <2> QED BY <2>1
<1>2. /\ r \in Seq(Completions) /\ \A k \in DOMAIN r : r[k] # Done("write")
      /\ w \in Seq(Completions) /\ \A k \in DOMAIN w : w[k] # Done("write")
  <2>1. <<>> \in Seq(Completions) /\ \A k \in DOMAIN <<>> : <<>>[k] # Done("write")
    OBVIOUS
  <2>2. r = <<>> \/ r = <<Failed("read")>>
    OBVIOUS
  <2>3. w = <<>> \/ w = <<Failed("write")>>
    OBVIOUS
  <2> HIDE DEF r, w
  <2> QED BY <1>1, <2>1, <2>2, <2>3
<1>3. Aborted = r \o w
  BY DEF Aborted
<1> HIDE DEF r, w
<1>4. \A k \in DOMAIN (r \o w) : (r \o w)[k] # Done("write")
  BY <1>2
<1>5. r \o w \in Seq(Completions)
  BY <1>2
<1> QED BY <1>3, <1>4, <1>5

(* What a header and the fields of a message make on the wire.             *)
LEMMA EncodeType ==
  ASSUME NEW m \in MessageType
  PROVE  Encode(m) \in Seq(Pieces) \ {<<>>}
<1>1. <<Header(m.sets)>> \in Seq(Pieces)
  BY DEF Header, Pieces, MessageType
<1> DEFINE fs == [k \in 1..m.fields |-> Field(m.no)]
<1>2. fs \in Seq(Pieces)
  <2>1. m.fields \in Nat /\ Field(m.no) \in Pieces
    BY DEF Field, Pieces, MessageType
  <2> QED BY <2>1
<1>3. Encode(m) = <<Header(m.sets)>> \o fs
  BY DEF Encode
<1> HIDE DEF fs
<1>4. <<Header(m.sets)>> \o fs \in Seq(Pieces)
  BY <1>1, <1>2
<1>5. Len(<<Header(m.sets)>> \o fs) = 1 + Len(fs) /\ Len(fs) \in Nat
  BY <1>1, <1>2
<1>6. <<Header(m.sets)>> \o fs # <<>>
  BY <1>5
<1> QED BY <1>3, <1>4, <1>6

(* Adding one completion to those that wait.                               *)
LEMMA Appended ==
  ASSUME NEW q \in Seq(Completions), NEW h \in Completions
  PROVE  /\ Append(q, h) \in Seq(Completions)
         /\ DOMAIN Append(q, h) = DOMAIN q \cup {Len(q) + 1}
         /\ \A k \in DOMAIN q : Append(q, h)[k] = q[k] /\ k # Len(q) + 1
         /\ Append(q, h)[Len(q) + 1] = h
OBVIOUS

(* Taking the first completion out moves the others by one place.          *)
LEMMA Taken ==
  ASSUME NEW q \in Seq(Completions), q # <<>>
  PROVE  /\ Tail(q) \in Seq(Completions)
         /\ 1 \in DOMAIN q /\ Head(q) = q[1]
         /\ \A k \in DOMAIN Tail(q) : /\ k + 1 \in DOMAIN q /\ k \in Nat /\ k + 1 # 1
                                      /\ Tail(q)[k] = q[k + 1]
OBVIOUS

(* Behind failures there is no success that was not there before.          *)
LEMMA Joined ==
  ASSUME NEW q \in Seq(Completions), NEW r \in Seq(Completions),
         \A k \in DOMAIN r : r[k] # Done("write")
  PROVE  /\ q \o r \in Seq(Completions)
         /\ \A k \in DOMAIN (q \o r) :
              (q \o r)[k] = Done("write") => k \in DOMAIN q /\ q[k] = Done("write")
OBVIOUS

(* The handler of a write that succeeded finds its message in the queue,   *)
(* and no other write under way.                                           *)
LEMMA WrittenHasMessage ==
  ASSUME WriterInv, ready # <<>>, Head(ready).ok
  PROVE  write_msgs # <<>> /\ writing = NULL
<1>1. ready \in Seq(Completions)
  BY DEF WriterInv, WriterType
<1>2. 1 \in DOMAIN ready /\ Head(ready) = ready[1] /\ ready[1] \in Completions
  BY <1>1
<1>3. ready[1] = Done("write")
  BY <1>2 DEF Completions, Failed
<1> QED BY <1>2, <1>3 DEF WriterInv, WriteHasMessage, OneWrite

-----------------------------------------------------------------------------
LEMMA InitWriter == Init => WriterInv
BY DEF Init, WriterInv, WriterType, WriteHasMessage, OneWrite

(* The connection ends or is given up: what is under way becomes failures  *)
(* behind what waits, and the queue stays as it is.                        *)
LEMMA CloseKeepsWriter ==
  ASSUME WriterInv, ready' = ready \o Aborted, writing' = NULL,
         UNCHANGED <<write_msgs, posted, handed>>
  PROVE  WriterInv'
<1>1. /\ ready \o Aborted \in Seq(Completions)
      /\ \A k \in DOMAIN (ready \o Aborted) :
           (ready \o Aborted)[k] = Done("write")
             => k \in DOMAIN ready /\ ready[k] = Done("write")
  BY AbortedFails, Joined DEF WriterInv, WriterType
<1>2. WriterType'
  BY <1>1 DEF WriterInv, WriterType
<1>3. \A k \in DOMAIN ready' :
        ready'[k] = Done("write") => k \in DOMAIN ready /\ ready[k] = Done("write")
  BY <1>1
<1>4. WriteHasMessage'
  BY <1>3 DEF WriterInv, WriteHasMessage, Done
<1>5. OneWrite'
  BY <1>3 DEF WriterInv, OneWrite, Done
<1> QED BY <1>2, <1>4, <1>5 DEF WriterInv

(* do_write of a queue of which nothing is being written: the completions  *)
(* that wait are no successful writes.                                     *)
LEMMA DoWriteKeepsWriter ==
  ASSUME NEW rest \in Seq(Completions),
         \A k \in DOMAIN rest : rest[k] # Done("write"),
         write_msgs' \in Seq(MessageType), write_msgs' # <<>>,
         posted' \in Seq(MessageType), handed' \in Seq(MessageType),
         DoWrite(write_msgs', rest)
  PROVE  WriterInv'
<1>1. Head(write_msgs') \in MessageType
  OBVIOUS
<1>2. Encode(Head(write_msgs')) \in Seq(Pieces) \ {<<>>}
  BY <1>1, EncodeType
<1>3. Failed("write") \in Completions /\ Failed("write") # Done("write")
  BY DEF Failed, Done, Completions
<1>4. /\ ready' \in Seq(Completions)
      /\ \A k \in DOMAIN ready' : ready'[k] # Done("write")
  <2>1. CASE ready' = rest
    BY <2>1
  <2>2. CASE ready' = Append(rest, Failed("write"))
    BY <2>2, <1>3, Appended
  <2> QED BY <2>1, <2>2 DEF DoWrite
<1>5. writing' = NULL \/ writing' \in Seq(Pieces) \ {<<>>}
  BY <1>2 DEF DoWrite
<1>6. WriterType'
  BY <1>4, <1>5 DEF WriterType
<1>7. WriteHasMessage' /\ OneWrite'
  BY <1>4 DEF WriteHasMessage, OneWrite, Done
<1> QED BY <1>6, <1>7 DEF WriterInv

(* Every step of the client and of the server.                             *)
LEMMA NextWriter == WriterInv /\ [Next]_vars => WriterInv'
<1> SUFFICES ASSUME WriterInv, [Next]_vars PROVE WriterInv'
  OBVIOUS
<1> DEFINE idle == UNCHANGED <<ready, write_msgs, posted, handed, writing>>
<1>0. ASSUME idle PROVE WriterInv'
  BY <1>0 DEF WriterInv, WriterType, WriteHasMessage, OneWrite, Done
<1>1. CASE Connect
  BY <1>1, CloseKeepsWriter DEF Connect
<1>2. CASE Disconnect
  BY <1>2, CloseKeepsWriter DEF Disconnect
<1>3. CASE ConnectFails
  <2>1. ready \o Aborted = Aborted
    BY <1>3, AbortedFails DEF ConnectFails
  <2> QED BY <1>3, <2>1, CloseKeepsWriter DEF ConnectFails
<1>4. CASE Break
  BY <1>4, CloseKeepsWriter DEF Break
<1>5. ASSUME NEW fields \in 1..MaxFields, NEW twice \in {0, 1}, Post(fields, twice)
      PROVE  WriterInv'
  <2> DEFINE m == [no |-> Len(posted) + Len(handed) + 1,
                   sets |-> fields + twice, fields |-> fields]
  <2>1. posted' = Append(posted, m) /\ UNCHANGED <<ready, write_msgs, handed, writing>>
    BY <1>5 DEF Post
  <2>2. posted \in Seq(MessageType) /\ handed \in Seq(MessageType)
    BY DEF WriterInv, WriterType
  <2>3. Len(posted) \in Nat /\ Len(handed) \in Nat
    BY <2>2
  <2>4. fields \in Nat /\ fields + twice \in Nat
    OBVIOUS
  <2>5. m \in MessageType
    BY <2>3, <2>4 DEF MessageType
  <2> HIDE DEF m
  <2>6. posted' \in Seq(MessageType)
    BY <2>1, <2>2, <2>5
  <2>7. WriterType'
    BY <2>1, <2>6, <1>5 DEF WriterInv, WriterType, Post
  <2>8. WriteHasMessage' /\ OneWrite'
    BY <2>1 DEF WriterInv, WriteHasMessage, OneWrite, Done
  <2> QED BY <2>7, <2>8 DEF WriterInv
<1>6. CASE Deliver
  <2>1. /\ posted # <<>> /\ posted' = Tail(posted)
        /\ write_msgs' = Append(write_msgs, Head(posted))
        /\ handed' = Append(handed, Head(posted))
    BY <1>6 DEF Deliver
  <2>2. /\ posted \in Seq(MessageType) /\ write_msgs \in Seq(MessageType)
        /\ handed \in Seq(MessageType) /\ ready \in Seq(Completions)
    BY DEF WriterInv, WriterType
  <2>3. Head(posted) \in MessageType /\ posted' \in Seq(MessageType)
    BY <2>1, <2>2
  <2>4. /\ write_msgs' \in Seq(MessageType) /\ write_msgs' # <<>>
        /\ handed' \in Seq(MessageType)
    <3>1. /\ Append(write_msgs, Head(posted)) \in Seq(MessageType)
          /\ Append(write_msgs, Head(posted)) # <<>>
      <4>1. PICK q, h : q = write_msgs /\ h = Head(posted)
        OBVIOUS
      <4>2. q \in Seq(MessageType) /\ h \in MessageType
        BY <2>2, <2>3, <4>1
      <4>3. PICK r : r = Append(q, h)
        OBVIOUS
      <4>4. r \in Seq(MessageType) /\ Len(r) = Len(q) + 1 /\ Len(q) \in Nat
        BY <4>2, <4>3, AppendView
      <4>5. r # <<>>
        BY <4>4
      <4> QED BY <4>1, <4>3, <4>4, <4>5
    <3>2. Append(handed, Head(posted)) \in Seq(MessageType)
      BY <2>2, <2>3, AppendView
    <3> QED BY <2>1, <3>1, <3>2, Zenon
  <2>5. CASE write_msgs = <<>>
    <3>1. \A k \in DOMAIN ready : ready[k] # Done("write")
      BY <2>5 DEF WriterInv, WriteHasMessage
    <3>2. DoWrite(write_msgs', ready)
      BY <1>6, <2>5 DEF Deliver
    <3> QED BY <2>2, <2>3, <2>4, <3>1, <3>2, DoWriteKeepsWriter
  <2>6. CASE write_msgs # <<>>
    <3>1. UNCHANGED <<writing, ready>>
      BY <1>6, <2>6 DEF Deliver
    <3>2. WriterType'
      BY <2>3, <2>4, <3>1 DEF WriterInv, WriterType
    <3>3. WriteHasMessage' /\ OneWrite'
      BY <2>4, <3>1 DEF WriterInv, WriteHasMessage, OneWrite, Done
    <3> QED BY <3>2, <3>3 DEF WriterInv
  <2> QED BY <2>5, <2>6
<1>7. CASE WriteSome
  <2>1. /\ writing # NULL /\ UNCHANGED <<write_msgs, posted, handed>>
        /\ \/ Tail(writing) = <<>> /\ writing' = NULL /\ ready' = Append(ready, Done("write"))
           \/ Tail(writing) # <<>> /\ writing' = Tail(writing) /\ ready' = ready
    BY <1>7 DEF WriteSome
  <2>2. /\ writing \in Seq(Pieces) \ {<<>>} /\ ready \in Seq(Completions)
        /\ write_msgs # <<>> /\ \A k \in DOMAIN ready : ready[k] # Done("write")
    BY <2>1 DEF WriterInv, WriterType, WriteHasMessage, OneWrite
  <2>3. CASE writing' = NULL /\ ready' = Append(ready, Done("write"))
    <3>1. Done("write") \in Completions
      BY DEF Done, Completions
    <3>2. /\ ready' \in Seq(Completions)
          /\ \A k \in DOMAIN ready' : ready'[k] = Done("write") => k = Len(ready) + 1
      BY <2>2, <2>3, <3>1, Appended
    <3>3. WriterType'
      BY <2>1, <2>3, <3>2 DEF WriterInv, WriterType
    <3>4. WriteHasMessage' /\ OneWrite'
      BY <2>1, <2>2, <2>3, <3>2 DEF WriteHasMessage, OneWrite, Done
    <3> QED BY <3>3, <3>4 DEF WriterInv
  <2>4. CASE Tail(writing) # <<>> /\ writing' = Tail(writing) /\ ready' = ready
    <3>1. writing' \in Seq(Pieces) \ {<<>>}
      BY <2>2, <2>4
    <3>2. WriterType'
      BY <2>1, <2>4, <3>1 DEF WriterInv, WriterType
    <3>3. WriteHasMessage' /\ OneWrite'
      BY <2>1, <2>2, <2>4 DEF WriteHasMessage, OneWrite, Done
    <3> QED BY <3>2, <3>3 DEF WriterInv
  <2> QED BY <2>1, <2>3, <2>4
<1>8. CASE HandleFailure
  <2>1. /\ ready # <<>> /\ ready' = Tail(ready)
        /\ UNCHANGED <<write_msgs, writing, posted, handed>>
    BY <1>8 DEF HandleFailure
  <2>2. ready \in Seq(Completions)
    BY DEF WriterInv, WriterType
  <2>3. /\ ready' \in Seq(Completions)
        /\ \A k \in DOMAIN ready' : /\ k + 1 \in DOMAIN ready /\ k \in Nat
                                    /\ ready'[k] = ready[k + 1]
    BY <2>1, <2>2, Taken
  <2>4. WriterType'
    BY <2>1, <2>3 DEF WriterInv, WriterType
  <2>5. WriteHasMessage'
    BY <2>1, <2>3 DEF WriterInv, WriteHasMessage, Done
  <2>6. OneWrite'
    BY <2>1, <2>3 DEF WriterInv, OneWrite, Done
  <2> QED BY <2>4, <2>5, <2>6 DEF WriterInv
<1>9. CASE HandleWritten
  <2>1. /\ ready # <<>> /\ Head(ready).ok /\ write_msgs' = Tail(write_msgs)
        /\ UNCHANGED <<posted, handed>>
    BY <1>9 DEF HandleWritten
  <2>2. /\ ready \in Seq(Completions) /\ write_msgs \in Seq(MessageType)
        /\ posted \in Seq(MessageType) /\ handed \in Seq(MessageType)
    BY DEF WriterInv, WriterType
  <2>3. /\ Tail(ready) \in Seq(Completions) /\ 1 \in DOMAIN ready /\ Head(ready) = ready[1]
        /\ \A k \in DOMAIN Tail(ready) : /\ k + 1 \in DOMAIN ready /\ k + 1 # 1
                                         /\ Tail(ready)[k] = ready[k + 1]
    BY <2>1, <2>2, Taken
  <2>4. ready[1] = Done("write")
    <3>1. ready[1] \in Completions
      BY <2>2, <2>3
    <3> QED BY <2>1, <2>3, <3>1 DEF Completions, Failed
  <2>5. /\ write_msgs # <<>> /\ writing = NULL
        /\ \A k \in DOMAIN Tail(ready) : Tail(ready)[k] # Done("write")
    BY <2>3, <2>4 DEF WriterInv, WriteHasMessage, OneWrite
  <2>6. write_msgs' \in Seq(MessageType)
    BY <2>1, <2>2, <2>5
  <2>7. CASE write_msgs' = <<>>
    <3>1. ready' = Tail(ready) /\ writing' = NULL
      BY <1>9, <2>5, <2>7 DEF HandleWritten
    <3>2. WriterType'
      BY <2>1, <2>2, <2>3, <2>6, <3>1 DEF WriterType
    <3>3. WriteHasMessage' /\ OneWrite'
      BY <2>5, <3>1 DEF WriteHasMessage, OneWrite, Done
    <3> QED BY <3>2, <3>3 DEF WriterInv
  <2>8. CASE write_msgs' # <<>>
    <3>1. DoWrite(write_msgs', Tail(ready))
      BY <1>9, <2>8 DEF HandleWritten
    <3> QED BY <2>1, <2>2, <2>3, <2>5, <2>6, <2>8, <3>1, DoWriteKeepsWriter
  <2> QED BY <2>7, <2>8
<1>10. CASE Connected
  BY <1>0, <1>10 DEF Connected
<1>11. CASE Arrive
  BY <1>0, <1>11 DEF Arrive
<1>12. ASSUME NEW s \in Sessions, ReadHeader(s) \/ ReadBody(s) \/ AgentEnds(s)
       PROVE  WriterInv'
  BY <1>0, <1>12 DEF ReadHeader, ReadBody, AgentEnds, client_vars
<1>13. CASE UNCHANGED vars
  BY <1>0, <1>13 DEF vars, client_vars
<1>14. CASE Client
  <2>1. CASE \E fields \in 1..MaxFields, twice \in IF Repeats THEN {0, 1} ELSE {0} :
               Post(fields, twice)
    BY <1>5, <2>1
  <2> QED BY <1>1, <1>2, <1>3, <1>4, <1>6, <1>7, <1>8, <1>9, <1>10, <1>11, <1>14, <2>1
          DEF Client
<1> QED BY <1>12, <1>13, <1>14 DEF Next

(* The client's MessageHandler never has two writes under way, nor one     *)
(* under way while a successful one still waits for its handler: the only  *)
(* guard in the code is that deliver_message starts a write when           *)
(* write_msgs was empty.                                                   *)
THEOREM OneWriteAlways == Spec => []OneWrite
<1>1. WriterInv => OneWrite
  BY DEF WriterInv
<1> QED BY <1>1, InitWriter, NextWriter, PTL DEF Spec

-----------------------------------------------------------------------------
(* A stream of pieces and the messages they are of.                        *)

Label == [no : Nat, at : Nat]

(* The piece of a message at a place of it, 0 being its header; F[no] is   *)
(* the number of its fields.                                               *)
PieceOf(no, at, F) == IF at = 0 THEN Header(F[no]) ELSE Field(no)

(* The pieces w[1] to w[n] are those of messages 1..c with growing         *)
(* numbers, all whole but perhaps the last one.                            *)
LabelsType(n, lab, F, c) ==
  \A k \in 1..n : lab[k] \in Label /\ lab[k].no \in 1..c /\ lab[k].at =< F[lab[k].no]

Pieced(w, n, lab, F) == \A k \in 1..n : w[k] = PieceOf(lab[k].no, lab[k].at, F)

(* From a header on come the fields of its message, then the next header.  *)
Blocks(n, lab, F) ==
  /\ n > 0 => lab[1].at = 0
  /\ \A k \in 1..n : \A i \in 0..F[lab[k].no] :
       lab[k].at = 0 /\ k + i =< n => lab[k + i].no = lab[k].no /\ lab[k + i].at = i
  /\ \A k \in 1..n : lab[k].at = F[lab[k].no] /\ k < n => lab[k + 1].at = 0

Growing(n, lab) ==
  \A j, k \in 1..n : j < k => /\ lab[j].no =< lab[k].no
                              /\ lab[k].at = 0 => lab[j].no < lab[k].no

Fits(w, n, lab, F, c) ==
  LabelsType(n, lab, F, c) /\ Pieced(w, n, lab, F) /\ Blocks(n, lab, F) /\ Growing(n, lab)

(* The last message is whole.                                              *)
Whole(n, lab, F) == n > 0 => lab[n].at = F[lab[n].no]

(* F tells the fields of the messages 1..c, each of which has some.        *)
Sizes(F, c) == \A no \in 1..c : F[no] \in Nat \ {0}

LEMMA FitsPrefix ==
  ASSUME NEW n \in Nat, NEW m \in Nat, m =< n, NEW w, NEW v, NEW lab, NEW F, NEW c \in Nat,
         NEW G, NEW d \in Nat, c =< d, \A no \in 1..c : G[no] = F[no], Sizes(F, c),
         Fits(w, n, lab, F, c), \A k \in 1..m : v[k] = w[k]
  PROVE  Fits(v, m, lab, G, d)
<1>1. \A k \in 1..m : k \in 1..n /\ lab[k].no \in 1..c /\ G[lab[k].no] = F[lab[k].no]
  BY DEF Fits, LabelsType
<1>2. LabelsType(m, lab, G, d)
  BY <1>1 DEF Fits, LabelsType
<1>3. Pieced(v, m, lab, G)
  BY <1>1 DEF Fits, Pieced, PieceOf
<1>4. Blocks(m, lab, G)
  <2>1. m > 0 => lab[1].at = 0
    BY DEF Fits, Blocks
  <2>2. ASSUME NEW k \in 1..m, NEW i \in 0..G[lab[k].no], lab[k].at = 0, k + i =< m
        PROVE  lab[k + i].no = lab[k].no /\ lab[k + i].at = i
    <3>1. k \in 1..n /\ i \in 0..F[lab[k].no]
      BY <1>1
    <3>2. F[lab[k].no] \in Nat
      BY <1>1 DEF Sizes
    <3>3. k + i =< n
      BY <2>2, <3>1, <3>2
    <3> QED BY <2>2, <3>1, <3>3 DEF Fits, Blocks
  <2>3. ASSUME NEW k \in 1..m, lab[k].at = G[lab[k].no], k < m
        PROVE  lab[k + 1].at = 0
    <3>1. k \in 1..n /\ k < n /\ lab[k].at = F[lab[k].no]
      BY <1>1, <2>3
    <3> QED BY <3>1 DEF Fits, Blocks
  <2> QED BY <2>1, <2>2, <2>3 DEF Blocks
<1>5. Growing(m, lab)
  BY <1>1 DEF Fits, Growing
<1> QED BY <1>2, <1>3, <1>4, <1>5 DEF Fits

(* v is w from place d + 1 on.                                             *)
Shifted(w, v, d, m) == \A k \in 1..m : v[k] = w[k + d]

(* The first message, of number p and with d pieces, is taken away.        *)
LEMMA FirstBlock ==
  ASSUME NEW m \in Nat, NEW d \in Nat, NEW lab, NEW F, NEW c \in Nat,
         Blocks(m + d, lab, F), LabelsType(m + d, lab, F, c), Growing(m + d, lab), Sizes(F, c),
         NEW p, p = lab[1].no, d = F[p] + 1, m > 0
  PROVE  lab[d + 1].at = 0 /\ lab[d + 1].no > p
<1>1. PICK n : n = m + d
  OBVIOUS
<1>2. n \in Nat /\ d > 0 /\ d < n
  <2>1. 1 \in 1..n => p \in 1..c
    BY <1>1 DEF LabelsType
  <2>2. 1 \in 1..n
    BY <1>1
  <2>3. F[p] \in Nat \ {0}
    BY <2>1, <2>2 DEF Sizes
  <2> QED BY <1>1, <2>3
<1>3. 1 \in 1..n /\ d \in 1..n /\ d + 1 \in 1..n /\ 1 < d + 1
  BY <1>2
<1>4. p \in 1..c /\ p \in Nat /\ F[p] \in Nat /\ lab[d + 1].no \in Nat
  BY <1>1, <1>3 DEF LabelsType, Sizes
<1>5. lab[1].at = 0
  BY <1>1, <1>2 DEF Blocks
<1>6. F[p] \in 0..F[lab[1].no] /\ 1 + F[p] = d /\ 1 + F[p] =< n
  BY <1>2, <1>4
<1>7. lab[1 + F[p]].no = p /\ lab[1 + F[p]].at = F[p]
  BY <1>1, <1>3, <1>5, <1>6 DEF Blocks
<1>8. lab[d].at = F[lab[d].no]
  BY <1>6, <1>7
<1>9. lab[d + 1].at = 0
  BY <1>1, <1>2, <1>3, <1>8 DEF Blocks
<1>10. lab[1].no < lab[d + 1].no
  BY <1>1, <1>3, <1>9 DEF Growing
<1> QED BY <1>4, <1>9, <1>10

LEMMA DropLabels ==
  ASSUME NEW m \in Nat, NEW d \in Nat, NEW lab, NEW F, NEW c \in Nat,
         LabelsType(m + d, lab, F, c), Growing(m + d, lab), NEW new, Shifted(lab, new, d, m)
  PROVE  LabelsType(m, new, F, c) /\ Growing(m, new)
<1>1. \A k \in 1..m : k + d \in 1..(m + d) /\ new[k] = lab[k + d]
  BY DEF Shifted
<1>2. LabelsType(m, new, F, c)
  BY <1>1 DEF LabelsType
<1>3. \A j, k \in 1..m : j < k => j + d < k + d
  OBVIOUS
<1>4. Growing(m, new)
  BY <1>1, <1>3 DEF Growing
<1> QED BY <1>2, <1>4

LEMMA DropBlocks ==
  ASSUME NEW m \in Nat, NEW d \in Nat, NEW lab, NEW F, NEW c \in Nat,
         LabelsType(m + d, lab, F, c), Blocks(m + d, lab, F), Sizes(F, c),
         NEW new, Shifted(lab, new, d, m), m > 0 => lab[d + 1].at = 0
  PROVE  Blocks(m, new, F)
<1>1. PICK n : n = m + d
  OBVIOUS
<1>2. \A k \in 1..m : k + d \in 1..n /\ new[k] = lab[k + d]
  BY <1>1 DEF Shifted
<1>3. m > 0 => new[1].at = 0
  <2>1. m > 0 => 1 \in 1..m /\ 1 + d = d + 1
    OBVIOUS
  <2> QED BY <1>2, <2>1
<1>4. ASSUME NEW k \in 1..m, NEW i \in 0..F[new[k].no], new[k].at = 0, k + i =< m
      PROVE  new[k + i].no = new[k].no /\ new[k + i].at = i
  <2>1. PICK j : j = k + d
    OBVIOUS
  <2>2. j \in 1..n /\ new[k] = lab[j]
    BY <1>2, <2>1
  <2>3. F[lab[j].no] \in Nat
    BY <1>1, <2>2 DEF LabelsType, Sizes
  <2>4. i \in Nat /\ i \in 0..F[lab[j].no]
    BY <2>2, <2>3
  <2>5. j + i =< n /\ k + i \in 1..m /\ (k + i) + d = j + i
    BY <1>1, <1>4, <2>1, <2>4
  <2>6. lab[j + i].no = lab[j].no /\ lab[j + i].at = i
    BY <1>1, <1>4, <2>2, <2>4, <2>5 DEF Blocks
  <2>7. new[k + i] = lab[(k + i) + d]
    BY <1>2, <2>5
  <2> QED BY <2>2, <2>5, <2>6, <2>7
<1>5. ASSUME NEW k \in 1..m, new[k].at = F[new[k].no], k < m PROVE new[k + 1].at = 0
  <2>1. PICK j : j = k + d
    OBVIOUS
  <2>2. j \in 1..n /\ new[k] = lab[j]
    BY <1>2, <2>1
  <2>3. j < n /\ k + 1 \in 1..m /\ (k + 1) + d = j + 1
    BY <1>1, <1>5, <2>1
  <2>4. lab[j + 1].at = 0
    BY <1>1, <1>5, <2>2, <2>3 DEF Blocks
  <2>5. new[k + 1] = lab[(k + 1) + d]
    BY <1>2, <2>3
  <2> QED BY <2>3, <2>4, <2>5
<1> QED BY <1>3, <1>4, <1>5 DEF Blocks

LEMMA FitsDrop ==
  ASSUME NEW m \in Nat, NEW d \in Nat, NEW w, NEW v, NEW lab, NEW F, NEW c \in Nat, Sizes(F, c),
         Fits(w, m + d, lab, F, c), NEW p, p = lab[1].no, d = F[p] + 1, Shifted(w, v, d, m),
         NEW new, Shifted(lab, new, d, m)
  PROVE  /\ Fits(v, m, new, F, c)
         /\ \A k \in 1..m : new[k].no > p
         /\ Whole(m + d, lab, F) => Whole(m, new, F)
<1>1. m > 0 => lab[d + 1].at = 0 /\ lab[d + 1].no > p
  BY FirstBlock DEF Fits
<1>2. LabelsType(m, new, F, c) /\ Growing(m, new)
  BY DropLabels DEF Fits
<1>3. Blocks(m, new, F)
  BY <1>1, DropBlocks DEF Fits
<1>4. \A k \in 1..m : k + d \in 1..(m + d) /\ new[k] = lab[k + d] /\ v[k] = w[k + d]
  BY DEF Shifted
<1>5. Pieced(v, m, new, F)
  BY <1>4 DEF Fits, Pieced
<1>6. ASSUME NEW k \in 1..m PROVE new[k].no > p
  <2>1. 1 \in 1..m /\ 1 + d = d + 1 /\ m > 0
    OBVIOUS
  <2>2. new[1].no > p
    BY <1>1, <1>4, <2>1
  <2>3. CASE k = 1
    BY <2>2, <2>3
  <2>4. CASE k # 1
    <3>1. 1 < k
      BY <2>4
    <3>2. new[1].no =< new[k].no
      BY <1>2, <2>1, <3>1 DEF Growing
    <3>3. new[1].no \in Nat /\ new[k].no \in Nat
      BY <1>2, <2>1 DEF LabelsType
    <3>4. p \in Nat
      <4>1. 1 \in 1..(m + d)
        BY <2>1
      <4> QED BY <4>1 DEF Fits, LabelsType
    <3> QED BY <2>2, <3>2, <3>3, <3>4
  <2> QED BY <2>3, <2>4
<1>7. Whole(m + d, lab, F) => Whole(m, new, F)
  <2>1. m > 0 => m + d > 0 /\ m \in 1..m
    OBVIOUS
  <2> QED BY <1>4, <2>1 DEF Whole
<1> QED BY <1>2, <1>3, <1>5, <1>6, <1>7 DEF Fits

(* v is w, of length n, and message q behind it.                           *)
IsAt(k, n, i) == k = (n + 1) + i

Extended(w, v, n, q, F) ==
  /\ \A k \in 1..n : v[k] = w[k]
  /\ \A i \in 0..F[q], k \in Nat : IsAt(k, n, i) => v[k] = PieceOf(q, i, F)

LabelledNext(lab, new, n, q, F) ==
  /\ \A k \in 1..n : new[k] = lab[k]
  /\ \A i \in 0..F[q], k \in Nat : IsAt(k, n, i) => new[k] \in Label /\ new[k].no = q /\ new[k].at = i

LEMMA Places ==
  ASSUME NEW n \in Nat, NEW f \in Nat, NEW m, m = (n + 1) + f, NEW k \in 1..m
  PROVE  k \in 1..n \/ \E i \in 0..f : IsAt(k, n, i)
<1>1. CASE k =< n
  BY <1>1
<1>2. CASE ~(k =< n)
  <2>1. k - (n + 1) \in 0..f /\ IsAt(k, n, k - (n + 1))
    BY <1>2 DEF IsAt
  <2> QED BY <2>1
<1> QED BY <1>1, <1>2

LEMMA AppendLabels ==
  ASSUME NEW n \in Nat, NEW lab, NEW F, NEW c \in Nat, NEW q \in 1..c, NEW f \in Nat, f = F[q],
         LabelsType(n, lab, F, c), Growing(n, lab), \A k \in 1..n : lab[k].no < q,
         NEW new, LabelledNext(lab, new, n, q, F), NEW m, m = (n + 1) + f
  PROVE  LabelsType(m, new, F, c) /\ Growing(m, new)
<1>1. \A k \in 1..n : new[k] = lab[k]
  BY DEF LabelledNext
<1>2. \A i \in 0..f, k \in Nat : IsAt(k, n, i) => new[k] \in Label /\ new[k].no = q /\ new[k].at = i
  BY DEF LabelledNext
<1>3. LabelsType(m, new, F, c)
  <2> SUFFICES ASSUME NEW k \in 1..m
               PROVE  new[k] \in Label /\ new[k].no \in 1..c /\ new[k].at =< F[new[k].no]
    BY DEF LabelsType
  <2>1. CASE k \in 1..n
    BY <1>1, <2>1 DEF LabelsType
  <2>2. ASSUME NEW i \in 0..f, IsAt(k, n, i)
        PROVE  new[k] \in Label /\ new[k].no \in 1..c /\ new[k].at =< F[new[k].no]
    <3>1. new[k] \in Label /\ new[k].no = q /\ new[k].at = i /\ i \in Nat /\ i =< f /\ q \in Nat
      BY <1>2, <2>2
    <3> QED BY <3>1 DEF Label
  <2> QED BY <2>1, <2>2, Places
<1>4. Growing(m, new)
  <2> SUFFICES ASSUME NEW j \in 1..m, NEW k \in 1..m, j < k
               PROVE  new[j].no =< new[k].no /\ (new[k].at = 0 => new[j].no < new[k].no)
    BY DEF Growing
  <2>1. CASE k \in 1..n
    <3>1. j \in 1..n
      BY <2>1
    <3> QED BY <1>1, <2>1, <3>1 DEF Growing
  <2>2. ASSUME NEW i \in 0..f, IsAt(k, n, i)
        PROVE  new[j].no =< new[k].no /\ (new[k].at = 0 => new[j].no < new[k].no)
    <3>1. new[k].no = q /\ new[k].at = i
      BY <1>2, <2>2
    <3>2. CASE j \in 1..n
      <4>1. new[j].no < q /\ new[j].no \in Nat /\ q \in Nat
        BY <1>1, <3>2 DEF LabelsType
      <4> QED BY <3>1, <4>1
    <3>3. ASSUME NEW h \in 0..f, IsAt(j, n, h)
          PROVE  new[j].no =< new[k].no /\ (new[k].at = 0 => new[j].no < new[k].no)
      <4>1. i # 0
        BY <2>2, <3>3 DEF IsAt
      <4>2. new[j].no = q
        BY <1>2, <3>3
      <4> QED BY <3>1, <4>1, <4>2
    <3> QED BY <3>2, <3>3, Places
  <2> QED BY <2>1, <2>2, Places
<1> QED BY <1>3, <1>4

(* A header among whole messages has its fields before the end.            *)
LEMMA WholeEnds ==
  ASSUME NEW n \in Nat, NEW lab, NEW F, NEW c \in Nat, Blocks(n, lab, F), Whole(n, lab, F),
         LabelsType(n, lab, F, c), Sizes(F, c), NEW k \in 1..n, lab[k].at = 0
  PROVE  k + F[lab[k].no] =< n
<1>1. PICK g : g = F[lab[k].no]
  OBVIOUS
<1>2. g \in Nat
  BY <1>1 DEF LabelsType, Sizes
<1>3. CASE n - k < g
  <2>1. n - k \in 0..g /\ k + (n - k) = n
    BY <1>2, <1>3
  <2>2. lab[k + (n - k)].no = lab[k].no /\ lab[k + (n - k)].at = n - k
    <3>1. PICK i : i = n - k
      OBVIOUS
    <3>2. i \in 0..F[lab[k].no] /\ k + i =< n
      BY <1>1, <2>1, <3>1
    <3>3. lab[k + i].no = lab[k].no /\ lab[k + i].at = i
      BY <3>2 DEF Blocks
    <3> QED BY <3>1, <3>3
  <2>3. lab[n].no = lab[k].no /\ lab[n].at = n - k
    BY <2>1, <2>2
  <2>4. lab[n].at = F[lab[n].no]
    BY DEF Whole
  <2> QED BY <1>1, <1>2, <1>3, <2>3, <2>4
<1>4. CASE ~(n - k < g)
  BY <1>1, <1>2, <1>4
<1> QED BY <1>3, <1>4

LEMMA AppendBlocks ==
  ASSUME NEW n \in Nat, NEW lab, NEW F, NEW c \in Nat, NEW q \in 1..c, NEW f \in Nat, f = F[q],
         Blocks(n, lab, F), Whole(n, lab, F), LabelsType(n, lab, F, c), Sizes(F, c),
         NEW new, LabelledNext(lab, new, n, q, F), NEW m, m = (n + 1) + f
  PROVE  Blocks(m, new, F)
<1>1. \A k \in 1..n : new[k] = lab[k]
  BY DEF LabelledNext
<1>2. \A i \in 0..f, k \in Nat : IsAt(k, n, i) => new[k] \in Label /\ new[k].no = q /\ new[k].at = i
  BY DEF LabelledNext
<1>3. new[1].at = 0
  <2>1. CASE n > 0
    BY <1>1, <2>1 DEF Blocks
  <2>2. CASE n = 0
    <3>1. 0 \in 0..f /\ IsAt(1, n, 0)
      BY <2>2 DEF IsAt
    <3> QED BY <1>2, <3>1
  <2> QED BY <2>1, <2>2
<1>4. ASSUME NEW k \in 1..m, NEW i \in 0..F[new[k].no], new[k].at = 0, k + i =< m
      PROVE  new[k + i].no = new[k].no /\ new[k + i].at = i
  <2>1. CASE k \in 1..n
    <3>1. PICK g : g = F[lab[k].no]
      OBVIOUS
    <3>2. g \in Nat /\ k + g =< n
      BY <1>1, <1>4, <2>1, <3>1, WholeEnds DEF LabelsType, Sizes
    <3>3. i \in 0..g
      BY <1>1, <2>1, <3>1
    <3>4. k + i =< n /\ k + i \in 1..n
      BY <2>1, <3>2, <3>3
    <3>5. lab[k + i].no = lab[k].no /\ lab[k + i].at = i
      BY <1>1, <1>4, <2>1, <3>1, <3>3, <3>4 DEF Blocks
    <3> QED BY <1>1, <2>1, <3>4, <3>5
  <2>2. ASSUME NEW h \in 0..f, IsAt(k, n, h)
        PROVE  new[k + i].no = new[k].no /\ new[k + i].at = i
    <3>1. new[k].no = q /\ h = 0
      BY <1>2, <1>4, <2>2
    <3>2. i \in 0..f /\ IsAt(k + i, n, i) /\ k + i \in Nat
      BY <2>2, <3>1 DEF IsAt
    <3> QED BY <1>2, <3>1, <3>2
  <2> QED BY <2>1, <2>2, Places
<1>5. ASSUME NEW k \in 1..m, new[k].at = F[new[k].no], k < m PROVE new[k + 1].at = 0
  <2>1. CASE k \in 1..n /\ k < n
    <3>1. k + 1 \in 1..n
      BY <2>1
    <3>2. lab[k].at = F[lab[k].no]
      BY <1>1, <1>5, <2>1
    <3>3. lab[k + 1].at = 0
      BY <2>1, <3>2 DEF Blocks
    <3> QED BY <1>1, <3>1, <3>3
  <2>2. CASE k = n
    <3>1. 0 \in 0..f /\ IsAt(k + 1, n, 0) /\ k + 1 \in Nat
      BY <2>2 DEF IsAt
    <3> QED BY <1>2, <3>1
  <2>3. ASSUME NEW i \in 0..f, IsAt(k, n, i) PROVE FALSE
    <3>1. new[k].no = q /\ new[k].at = i
      BY <1>2, <2>3
    <3>2. i = f
      BY <1>5, <3>1
    <3> QED BY <1>5, <2>3, <3>2 DEF IsAt
  <2>4. k \in 1..n => (k \in 1..n /\ k < n) \/ k = n
    OBVIOUS
  <2> QED BY <2>1, <2>2, <2>3, <2>4, Places
<1> QED BY <1>3, <1>4, <1>5 DEF Blocks

(* The new labels are old ones or those of q.                              *)
OnlyNew(new, m, lab, n, q) ==
  \A k \in 1..m : new[k].no = q \/ \E j \in 1..n : new[k].no = lab[j].no

(* Message q is added behind whole ones.                                   *)
LEMMA FitsAppend ==
  ASSUME NEW n \in Nat, NEW w, NEW v, NEW lab, NEW F, NEW c \in Nat, Sizes(F, c),
         Fits(w, n, lab, F, c), Whole(n, lab, F), NEW q \in 1..c, \A k \in 1..n : lab[k].no < q,
         Extended(w, v, n, q, F), NEW new, LabelledNext(lab, new, n, q, F),
         NEW f, f = F[q], NEW m, m = (n + 1) + f
  PROVE  /\ Fits(v, m, new, F, c)
         /\ Whole(m, new, F)
         /\ OnlyNew(new, m, lab, n, q)
<1>0. f \in Nat
  BY DEF Sizes
<1>1. LabelsType(m, new, F, c) /\ Growing(m, new)
  BY <1>0, AppendLabels DEF Fits
<1>2. Blocks(m, new, F)
  BY <1>0, AppendBlocks DEF Fits
<1>3. \A k \in 1..n : new[k] = lab[k] /\ v[k] = w[k]
  BY DEF LabelledNext, Extended
<1>4. \A i \in 0..f, k \in Nat :
        IsAt(k, n, i) => new[k] \in Label /\ new[k].no = q /\ new[k].at = i /\ v[k] = PieceOf(q, i, F)
  BY DEF LabelledNext, Extended
<1>5. ASSUME NEW k \in 1..m
      PROVE  /\ v[k] = PieceOf(new[k].no, new[k].at, F)
             /\ new[k].no = q \/ \E j \in 1..n : new[k].no = lab[j].no
  <2>1. CASE k \in 1..n
    BY <1>3, <2>1 DEF Fits, Pieced
  <2>2. ASSUME NEW i \in 0..f, IsAt(k, n, i)
        PROVE  v[k] = PieceOf(new[k].no, new[k].at, F) /\ new[k].no = q
    BY <1>4, <2>2
  <2> QED BY <1>0, <2>1, <2>2, Places
<1>6. Whole(m, new, F)
  <2>1. f \in 0..f /\ m \in Nat /\ IsAt(m, n, f)
    BY <1>0 DEF IsAt
  <2>2. new[m].no = q /\ new[m].at = f
    BY <1>4, <2>1
  <2> QED BY <2>2 DEF Whole
<1> QED BY <1>1, <1>2, <1>5, <1>6 DEF Fits, Pieced, OnlyNew

-----------------------------------------------------------------------------
(* The streams of all connections.                                         *)

(* What is under way on a connection is w, and it has conveyed g.          *)
Conveys(w, g, lab, F, c) ==
  /\ w \in Seq(Pieces) /\ g \in Seq(Nat)
  /\ Fits(w, Len(w), lab, F, c)
  /\ \A k \in 1..Len(g) : g[k] \in 1..c /\ \A j \in 1..Len(w) : g[k] < lab[j].no

(* The messages of a connection.                                           *)
Numbers(w, g, lab) == {g[k] : k \in 1..Len(g)} \cup {lab[j].no : j \in 1..Len(w)}

(* No message is on two connections.                                       *)
Streams(V, g, lab, F, c) ==
  /\ \A s \in Sessions : Conveys(V[s], g[s], lab[s], F, c)
  /\ \A s, t \in Sessions :
       s # t => Numbers(V[s], g[s], lab[s]) \cap Numbers(V[t], g[t], lab[t]) = {}

Prefix(v, w) == Len(v) =< Len(w) /\ \A k \in 1..Len(v) : v[k] = w[k]

(* F is known to G, which may know more.                                   *)
Knows(G, F, c) == \A no \in 1..c : G[no] = F[no]

LEMMA ConveysPrefix ==
  ASSUME NEW w, NEW v \in Seq(Pieces), Prefix(v, w), NEW g, NEW lab, NEW F, NEW c \in Nat,
         NEW G, NEW d \in Nat, c =< d, Knows(G, F, c), Sizes(F, c), Conveys(w, g, lab, F, c)
  PROVE  Conveys(v, g, lab, G, d) /\ Numbers(v, g, lab) \subseteq Numbers(w, g, lab)
<1>1. PICK n, m : n = Len(w) /\ m = Len(v)
  OBVIOUS
<1>2. w \in Seq(Pieces) /\ n \in Nat /\ m \in Nat /\ m =< n /\ \A k \in 1..m : v[k] = w[k]
  BY <1>1 DEF Conveys, Prefix
<1>3. Fits(w, n, lab, F, c)
  BY <1>1 DEF Conveys
<1>4. Fits(v, m, lab, G, d)
  BY <1>2, <1>3, FitsPrefix DEF Knows
<1>5. 1..m \subseteq 1..n /\ 1..c \subseteq 1..d
  BY <1>2
<1>6. Conveys(v, g, lab, G, d)
  BY <1>1, <1>4, <1>5 DEF Conveys
<1>7. Numbers(v, g, lab) \subseteq Numbers(w, g, lab)
  BY <1>1, <1>5 DEF Numbers
<1> QED BY <1>6, <1>7

(* Streams become shorter, from their ends.                                *)
LEMMA StreamsShrink ==
  ASSUME NEW V, NEW U, NEW g, NEW lab, NEW F, NEW c \in Nat, NEW G, NEW d \in Nat, c =< d,
         Knows(G, F, c), Sizes(F, c), Streams(V, g, lab, F, c),
         \A s \in Sessions : U[s] \in Seq(Pieces) /\ Prefix(U[s], V[s])
  PROVE  Streams(U, g, lab, G, d)
<1>1. \A s \in Sessions : /\ Conveys(U[s], g[s], lab[s], G, d)
                          /\ Numbers(U[s], g[s], lab[s]) \subseteq Numbers(V[s], g[s], lab[s])
  BY ConveysPrefix DEF Streams
<1> QED BY <1>1 DEF Streams

SameBut(s, A, B) == \A t \in Sessions \ {s} : A[t] = B[t]

Fresh(V, g, lab, New) == \A t \in Sessions : Numbers(V[t], g[t], lab[t]) \cap New = {}

(* One stream changes, and has the same messages or new ones.              *)
LEMMA StreamsOne ==
  ASSUME NEW V, NEW g, NEW lab, NEW F, NEW c, Streams(V, g, lab, F, c), NEW s \in Sessions,
         NEW U, NEW h, NEW lab2, Conveys(U[s], h[s], lab2[s], F, c),
         SameBut(s, U, V), SameBut(s, h, g), SameBut(s, lab2, lab),
         NEW New, Numbers(U[s], h[s], lab2[s]) \subseteq Numbers(V[s], g[s], lab[s]) \cup New,
         Fresh(V, g, lab, New)
  PROVE  Streams(U, h, lab2, F, c)
<1>1. \A t \in Sessions \ {s} : lab2[t] = lab[t] /\ U[t] = V[t] /\ h[t] = g[t]
  BY DEF SameBut
<1>2. ASSUME NEW t \in Sessions PROVE Conveys(U[t], h[t], lab2[t], F, c)
  <2>1. CASE t = s
    BY <1>1, <2>1
  <2>2. CASE t # s
    BY <1>1, <2>2 DEF Streams
  <2> QED BY <2>1, <2>2
<1>3. PICK N, M : /\ N = [t \in Sessions |-> Numbers(V[t], g[t], lab[t])]
                  /\ M = [t \in Sessions |-> Numbers(U[t], h[t], lab2[t])]
  OBVIOUS
<1>4. /\ \A t \in Sessions \ {s} : M[t] = N[t]
      /\ M[s] \subseteq N[s] \cup New
      /\ \A t \in Sessions : N[t] \cap New = {}
      /\ \A t, r \in Sessions : t # r => N[t] \cap N[r] = {}
  BY <1>1, <1>3 DEF Streams, Fresh
<1>5. \A t, r \in Sessions : t # r => M[t] \cap M[r] = {}
  BY <1>4
<1> QED BY <1>2, <1>3, <1>5 DEF Streams

(* A write begins: message q = c + 1 on connection s.                      *)
Appends(V, U, g, lab, F, s, c, d) ==
  /\ Sizes(F, d) /\ Streams(V, g, lab, F, c)
  /\ Whole(Len(V[s]), lab[s], F)
  /\ U[s] \in Seq(Pieces) /\ Extended(V[s], U[s], Len(V[s]), d, F)
  /\ Len(U[s]) = (Len(V[s]) + 1) + F[d] /\ SameBut(s, U, V)

LEMMA StreamsAppend ==
  ASSUME NEW V, NEW g, NEW lab, NEW F, NEW c \in Nat, NEW d \in Nat, d = c + 1,
         NEW s \in Sessions, NEW U, Appends(V, U, g, lab, F, s, c, d)
  PROVE  \E lab2 : Streams(U, g, lab2, F, d) /\ Whole(Len(U[s]), lab2[s], F)
<1>0. /\ Sizes(F, d) /\ Streams(V, g, lab, F, c)
      /\ Whole(Len(V[s]), lab[s], F)
      /\ U[s] \in Seq(Pieces) /\ Extended(V[s], U[s], Len(V[s]), d, F)
      /\ Len(U[s]) = (Len(V[s]) + 1) + F[d] /\ SameBut(s, U, V)
  BY DEF Appends
<1>1. PICK n, m, w, v, f, l : /\ w = V[s] /\ v = U[s] /\ n = Len(w) /\ m = Len(v) /\ f = F[d]
                              /\ l = lab[s]
  OBVIOUS
<1>2. d \in 1..d /\ f \in Nat /\ Sizes(F, c) /\ c =< d /\ Knows(F, F, c)
  BY <1>0, <1>1 DEF Sizes, Knows
<1>3. Streams(V, g, lab, F, d)
  <2>1. \A t \in Sessions : V[t] \in Seq(Pieces) /\ Prefix(V[t], V[t])
    BY <1>0 DEF Streams, Conveys, Prefix
  <2> QED BY <1>0, <1>2, <2>1, StreamsShrink
<1>4. /\ w \in Seq(Pieces) /\ n \in Nat /\ m = (n + 1) + f /\ Fits(w, n, l, F, d)
      /\ Fits(w, n, l, F, c) /\ Extended(w, v, n, d, F) /\ Whole(n, l, F)
  BY <1>0, <1>1, <1>3 DEF Streams, Conveys
<1>5. \A k \in 1..n : l[k].no < d
  BY <1>4 DEF Fits, LabelsType
<1>6. PICK new : new = [k \in 1..m |-> IF k =< n THEN l[k] ELSE [no |-> d, at |-> k - (n + 1)]]
  OBVIOUS
<1>7. LabelledNext(l, new, n, d, F)
  <2>1. \A k \in 1..n : k \in 1..m /\ k =< n
    BY <1>2, <1>4
  <2>2. \A k \in 1..n : new[k] = l[k]
    BY <1>6, <2>1
  <2>3. ASSUME NEW i \in 0..f, NEW k \in Nat, IsAt(k, n, i)
        PROVE  new[k] \in Label /\ new[k].no = d /\ new[k].at = i
    <3>1. k \in 1..m /\ ~(k =< n) /\ k - (n + 1) = i /\ i \in Nat
      BY <1>2, <1>4, <2>3 DEF IsAt
    <3>2. new[k] = [no |-> d, at |-> i]
      BY <1>6, <3>1
    <3> QED BY <3>1, <3>2 DEF Label
  <2> QED BY <1>0, <1>1, <2>2, <2>3 DEF LabelledNext
<1>8. /\ Fits(v, m, new, F, d) /\ Whole(m, new, F)
      /\ \A k \in 1..m : new[k].no = d \/ \E j \in 1..n : new[k].no = l[j].no
  <2>1. f = F[d] /\ d \in 1..d
    BY <1>0, <1>1, <1>2
  <2>2. Fits(v, m, new, F, d)
    BY <1>0, <1>4, <1>5, <1>7, <2>1, FitsAppend
  <2>3. Whole(m, new, F)
    BY <1>0, <1>4, <1>5, <1>7, <2>1, FitsAppend
  <2>4. OnlyNew(new, m, l, n, d)
    BY <1>0, <1>4, <1>5, <1>7, <2>1, FitsAppend
  <2> QED BY <2>2, <2>3, <2>4 DEF OnlyNew
<1>9. PICK h : h = g[s]
  OBVIOUS
<1>10. h \in Seq(Nat) /\ \A k \in 1..Len(h) : h[k] \in 1..c /\ \A j \in 1..n : h[k] < l[j].no
  BY <1>0, <1>1, <1>9 DEF Streams, Conveys
<1>11. ASSUME NEW k \in 1..Len(h), NEW j \in 1..m PROVE h[k] < new[j].no
  <2>1. CASE new[j].no = d
    BY <1>10, <2>1
  <2>2. ASSUME NEW i \in 1..n, new[j].no = l[i].no PROVE h[k] < new[j].no
    BY <1>10, <2>2
  <2> QED BY <1>8, <2>1, <2>2
<1>12. Conveys(v, h, new, F, d)
  <2>1. \A k \in 1..Len(h) : h[k] \in 1..d
    BY <1>10
  <2>2. Fits(v, Len(v), new, F, d) /\ v \in Seq(Pieces)
    BY <1>0, <1>1, <1>8
  <2>3. \A k \in 1..Len(h) : \A j \in 1..Len(v) : h[k] < new[j].no
    BY <1>0, <1>1, <1>11
  <2> QED BY <1>0, <1>10, <2>1, <2>2, <2>3 DEF Conveys
<1>13. Numbers(v, h, new) \subseteq Numbers(w, h, l) \cup {d}
  <2>1. \A j \in 1..Len(v) : new[j].no = d \/ \E i \in 1..Len(w) : new[j].no = l[i].no
    BY <1>0, <1>1, <1>8
  <2> QED BY <2>1 DEF Numbers
<1>14. \A t \in Sessions : Numbers(V[t], g[t], lab[t]) \cap {d} = {}
  <2> SUFFICES ASSUME NEW t \in Sessions PROVE d \notin Numbers(V[t], g[t], lab[t])
    OBVIOUS
  <2>1. PICK a, b, e : a = V[t] /\ b = g[t] /\ e = lab[t]
    OBVIOUS
  <2>2. Conveys(a, b, e, F, c)
    BY <1>0, <2>1 DEF Streams
  <2>3. /\ \A k \in 1..Len(b) : b[k] \in 1..c
        /\ \A j \in 1..Len(a) : e[j].no \in 1..c
    BY <1>0, <2>2 DEF Conveys, Fits, LabelsType
  <2>4. d \notin 1..c
    OBVIOUS
  <2> QED BY <2>1, <2>3, <2>4 DEF Numbers
<1>15. PICK lab2 : lab2 = [t \in Sessions |-> IF t = s THEN new ELSE lab[t]]
  OBVIOUS
<1>16. Streams(U, g, lab2, F, d)
  <2>1. lab2[s] = new /\ SameBut(s, lab2, lab) /\ SameBut(s, g, g) /\ SameBut(s, U, V)
    BY <1>0, <1>15 DEF SameBut
  <2>2. Conveys(U[s], g[s], lab2[s], F, d)
    BY <1>0, <1>1, <1>9, <1>12, <2>1
  <2>3. Numbers(U[s], g[s], lab2[s]) \subseteq Numbers(V[s], g[s], lab[s]) \cup {d}
    BY <1>0, <1>1, <1>9, <1>13, <2>1
  <2>4. Fresh(V, g, lab, {d})
    BY <1>14 DEF Fresh
  <2> QED BY <1>3, <2>1, <2>2, <2>3, <2>4, StreamsOne
<1>17. Whole(Len(U[s]), lab2[s], F)
  BY <1>0, <1>1, <1>8, <1>15
<1> QED BY <1>16, <1>17

(* A message has been read: that of the first label of connection s.       *)
Drops(V, U, g, h, lab, F, s, p, d) ==
  /\ p = lab[s][1].no /\ d \in Nat \ {0} /\ d = F[p] + 1
  /\ U[s] \in Seq(Pieces) /\ Len(V[s]) = Len(U[s]) + d
  /\ Shifted(V[s], U[s], d, Len(U[s])) /\ SameBut(s, U, V)
  /\ h[s] = Append(g[s], p) /\ SameBut(s, h, g)

LEMMA ShiftIn ==
  ASSUME NEW m \in Nat, NEW d \in Nat, NEW k \in 1..m
  PROVE  k + d \in 1..(m + d)
OBVIOUS

LEMMA StreamsDrop ==
  ASSUME NEW V, NEW g, NEW lab, NEW F, NEW c \in Nat, Streams(V, g, lab, F, c), Sizes(F, c),
         NEW s \in Sessions, NEW p, NEW d, NEW U, NEW h, Drops(V, U, g, h, lab, F, s, p, d)
  PROVE  \E lab2 : /\ Streams(U, h, lab2, F, c)
                   /\ Whole(Len(V[s]), lab[s], F) => Whole(Len(U[s]), lab2[s], F)
                   /\ SameBut(s, lab2, lab)
<1> USE DEF Drops
<1>1. PICK m, w, v, l, a, b : /\ w = V[s] /\ v = U[s] /\ m = Len(v) /\ l = lab[s]
                              /\ a = g[s] /\ b = h[s]
  OBVIOUS
<1>2. /\ w \in Seq(Pieces) /\ m \in Nat /\ Len(w) = m + d /\ Fits(w, m + d, l, F, c)
      /\ Shifted(w, v, d, m) /\ p = l[1].no /\ a \in Seq(Nat) /\ b = Append(a, p)
  BY <1>1 DEF Streams, Conveys
<1>3. \A k \in 1..Len(a) : a[k] \in 1..c /\ \A j \in 1..(m + d) : a[k] < l[j].no
  BY <1>1, <1>2 DEF Streams, Conveys
<1>4. PICK new : new = [k \in 1..m |-> l[k + d]]
  OBVIOUS
<1>5. Shifted(l, new, d, m)
  BY <1>4 DEF Shifted
<1>6. Fits(v, m, new, F, c)
  BY <1>2, <1>5, FitsDrop
<1>7. \A k \in 1..m : new[k].no > p
  BY <1>2, <1>5, FitsDrop
<1>8. Whole(m + d, l, F) => Whole(m, new, F)
  BY <1>2, <1>5, FitsDrop
<1>9. 1 \in 1..(m + d) /\ p \in 1..c
  <2>1. 1 \in 1..(m + d)
    BY <1>2
  <2> QED BY <1>2, <2>1 DEF Fits, LabelsType
<1>10. PICK n : n = Len(a) /\ n \in Nat
  <2>1. a \in Seq(Nat)
    BY <1>2
  <2>2. Len(a) \in Nat
    BY <2>1
  <2> QED BY <2>2
<1>11. /\ b \in Seq(Nat) /\ Len(b) = n + 1 /\ b[n + 1] = p
       /\ \A k \in 1..n : b[k] = a[k]
  BY <1>2, <1>9, <1>10, AppendView
<1>12. \A k \in 1..m : k + d \in 1..(m + d) /\ new[k] = l[k + d]
  <2>1. m \in Nat /\ d \in Nat
    BY <1>2
  <2>2. \A k \in 1..m : k + d \in 1..(m + d)
    BY <2>1, ShiftIn, Zenon
  <2> QED BY <1>4, <2>2
<1>13. ASSUME NEW k \in 1..(n + 1)
       PROVE  b[k] \in 1..c /\ \A j \in 1..m : b[k] < new[j].no
  <2>1. CASE k \in 1..n
    BY <1>3, <1>10, <1>11, <1>12, <2>1
  <2>2. CASE k = n + 1
    <3>1. \A j \in 1..m : new[j].no \in Nat
      BY <1>6 DEF Fits, LabelsType
    <3>2. b[k] = p
      BY <1>11, <2>2
    <3>3. \A j \in 1..m : p < new[j].no
      BY <1>7, <1>9, <3>1
    <3> QED BY <1>9, <3>2, <3>3
  <2>3. k \in 1..n \/ k = n + 1
    BY <1>10
  <2> QED BY <2>1, <2>2, <2>3
<1>14. Conveys(v, b, new, F, c)
  <2>1. v \in Seq(Pieces) /\ Len(v) = m
    BY <1>1
  <2> QED BY <1>6, <1>11, <1>13, <2>1 DEF Conveys
<1>15. Numbers(v, b, new) \subseteq Numbers(w, a, l) \cup {}
  <2>1. \A k \in 1..(n + 1) : k \in 1..n \/ k = n + 1
    BY <1>10
  <2>2. \A k \in 1..Len(b) : b[k] \in Numbers(w, a, l)
    <3> SUFFICES ASSUME NEW k \in 1..(n + 1) PROVE b[k] \in Numbers(w, a, l)
      BY <1>11
    <3>1. CASE k \in 1..n
      BY <1>10, <1>11, <3>1 DEF Numbers
    <3>2. CASE k = n + 1
      BY <1>2, <1>9, <1>11, <3>2 DEF Numbers
    <3> QED BY <2>1, <3>1, <3>2
  <2>3. \A j \in 1..Len(v) : new[j].no \in Numbers(w, a, l)
    BY <1>1, <1>2, <1>12 DEF Numbers
  <2> QED BY <2>2, <2>3 DEF Numbers
<1>16. PICK lab2 : lab2 = [t \in Sessions |-> IF t = s THEN new ELSE lab[t]]
  OBVIOUS
<1>17. lab2[s] = new /\ SameBut(s, lab2, lab)
  BY <1>16 DEF SameBut
<1>18. Streams(U, h, lab2, F, c)
  <2>1. Conveys(U[s], h[s], lab2[s], F, c)
    BY <1>1, <1>14, <1>17
  <2>2. Numbers(U[s], h[s], lab2[s]) \subseteq Numbers(V[s], g[s], lab[s]) \cup {}
    BY <1>1, <1>15, <1>17
  <2>3. Fresh(V, g, lab, {})
    BY DEF Fresh
  <2> QED BY <1>17, <2>1, <2>2, <2>3, StreamsOne
<1>19. Whole(Len(V[s]), lab[s], F) => Whole(Len(U[s]), lab2[s], F)
  BY <1>1, <1>2, <1>8, <1>17
<1> QED BY <1>17, <1>18, <1>19

-----------------------------------------------------------------------------
(* Messages are numbered in the order of deliver_message; the queue has    *)
(* the last of them. The header of a message without repeated keys says    *)
(* how many fields it has.                                                 *)

Well(m) == m.fields \in Nat \ {0} /\ m.sets = m.fields

Numbered(h, p, w) ==
  /\ h \in Seq(MessageType) /\ p \in Seq(MessageType) /\ w \in Seq(MessageType)
  /\ \A k \in 1..Len(h) : h[k].no = k /\ Well(h[k])
  /\ \A k \in 1..Len(p) : p[k].no = Len(h) + k /\ Well(p[k])
  /\ Len(p) + Len(h) =< MaxMsgs
  /\ Len(w) =< Len(h) /\ \A k \in 1..Len(w) : w[k] = h[(Len(h) - Len(w)) + k]

LEMMA NumberedPost ==
  ASSUME NEW h, NEW p, NEW w, Numbered(h, p, w), Len(p) + Len(h) < MaxMsgs,
         NEW m \in MessageType, Well(m), m.no = Len(p) + Len(h) + 1
  PROVE  Numbered(h, Append(p, m), w)
<1>1. PICK n, r, i : n = Len(p) /\ r = Append(p, m) /\ i = Len(h)
  OBVIOUS
<1>2. p \in Seq(MessageType) /\ h \in Seq(MessageType)
  BY DEF Numbered
<1>3. /\ n \in Nat /\ i \in Nat /\ r \in Seq(MessageType) /\ Len(r) = n + 1 /\ r[n + 1] = m
      /\ \A k \in 1..n : r[k] = p[k]
  BY <1>1, <1>2, AppendView
<1>4. MaxMsgs \in Nat
  BY LinkAssumption
<1>5. ASSUME NEW k \in 1..(n + 1) PROVE r[k].no = i + k /\ Well(r[k])
  <2>1. CASE k \in 1..n
    BY <1>1, <1>3, <2>1 DEF Numbered
  <2>2. CASE k = n + 1
    <3>1. m.no = i + (n + 1)
      BY <1>1, <1>3
    <3> QED BY <1>3, <2>2, <3>1
  <2>3. k \in 1..n \/ k = n + 1
    BY <1>3
  <2> QED BY <2>1, <2>2, <2>3
<1>6. Len(r) + Len(h) =< MaxMsgs
  BY <1>1, <1>3, <1>4
<1>7. \A k \in 1..Len(r) : r[k].no = Len(h) + k /\ Well(r[k])
  BY <1>1, <1>3, <1>5
<1>8. Numbered(h, r, w)
  BY <1>3, <1>6, <1>7 DEF Numbered
<1> QED BY <1>1, <1>8

LEMMA NumberedDeliver ==
  ASSUME NEW h, NEW p, NEW w, Numbered(h, p, w), p # <<>>
  PROVE  Numbered(Append(h, Head(p)), Tail(p), Append(w, Head(p)))
<1>1. PICK m, q, g, v, n, i, j : /\ m = Head(p) /\ q = Tail(p) /\ g = Append(h, m) /\ v = Append(w, m)
                                 /\ n = Len(p) /\ i = Len(h) /\ j = Len(w)
  OBVIOUS
<1>2. p \in Seq(MessageType) /\ h \in Seq(MessageType) /\ w \in Seq(MessageType)
  BY DEF Numbered
<1>3. n \in Nat /\ i \in Nat /\ j \in Nat /\ j =< i
  BY <1>1, <1>2 DEF Numbered
<1>4. /\ n >= 1 /\ q \in Seq(MessageType) /\ Len(q) = n - 1 /\ m = p[1] /\ m \in MessageType
      /\ \A k \in 1..(n - 1) : q[k] = p[k + 1]
  BY <1>1, <1>2
<1>5. /\ g \in Seq(MessageType) /\ Len(g) = i + 1 /\ g[i + 1] = m
      /\ \A k \in 1..i : g[k] = h[k]
  BY <1>1, <1>2, <1>4, AppendView
<1>6. /\ v \in Seq(MessageType) /\ Len(v) = j + 1 /\ v[j + 1] = m
      /\ \A k \in 1..j : v[k] = w[k]
  BY <1>1, <1>2, <1>4, AppendView
<1>7. m.no = i + 1 /\ Well(m)
  <2>1. 1 \in 1..n
    BY <1>3, <1>4
  <2> QED BY <1>1, <1>4, <2>1 DEF Numbered
<1>8. ASSUME NEW k \in 1..(i + 1) PROVE g[k].no = k /\ Well(g[k])
  <2>1. CASE k \in 1..i
    BY <1>1, <1>5, <2>1 DEF Numbered
  <2>2. CASE k = i + 1
    BY <1>5, <1>7, <2>2
  <2>3. k \in 1..i \/ k = i + 1
    BY <1>3
  <2> QED BY <2>1, <2>2, <2>3
<1>9. ASSUME NEW k \in 1..(n - 1) PROVE q[k].no = (i + 1) + k /\ Well(q[k])
  <2>1. k + 1 \in 1..n /\ i + (k + 1) = (i + 1) + k
    BY <1>3
  <2>2. p[k + 1].no = i + (k + 1) /\ Well(p[k + 1])
    BY <1>1, <2>1 DEF Numbered
  <2> QED BY <1>4, <2>1, <2>2
<1>10. ASSUME NEW k \in 1..(j + 1) PROVE v[k] = g[((i + 1) - (j + 1)) + k]
  <2>1. (i + 1) - (j + 1) = i - j
    BY <1>3
  <2>2. CASE k \in 1..j
    <3>1. (i - j) + k \in 1..i
      BY <1>3, <2>2
    <3>2. w[k] = h[(i - j) + k]
      BY <1>1, <2>2 DEF Numbered
    <3> QED BY <1>5, <1>6, <2>1, <2>2, <3>1, <3>2
  <2>3. CASE k = j + 1
    <3>1. (i - j) + k = i + 1
      BY <1>3, <2>3
    <3> QED BY <1>5, <1>6, <2>1, <2>3, <3>1
  <2>4. k \in 1..j \/ k = j + 1
    BY <1>3
  <2> QED BY <2>2, <2>3, <2>4
<1>11. Len(q) + Len(g) =< MaxMsgs /\ Len(v) =< Len(g)
  <2>1. n + i =< MaxMsgs /\ MaxMsgs \in Nat
    BY <1>1, LinkAssumption DEF Numbered
  <2> QED BY <1>3, <1>4, <1>5, <1>6, <2>1
<1>12. Numbered(g, q, v)
  BY <1>4, <1>5, <1>6, <1>8, <1>9, <1>10, <1>11 DEF Numbered
<1> QED BY <1>1, <1>12

LEMMA NumberedWritten ==
  ASSUME NEW h, NEW p, NEW w, Numbered(h, p, w), w # <<>>
  PROVE  Numbered(h, p, Tail(w))
<1>1. PICK v, i, j : v = Tail(w) /\ i = Len(h) /\ j = Len(w)
  OBVIOUS
<1>2. w \in Seq(MessageType) /\ h \in Seq(MessageType)
  BY DEF Numbered
<1>3. /\ i \in Nat /\ j \in Nat /\ j =< i /\ j >= 1 /\ v \in Seq(MessageType)
      /\ Len(v) = j - 1 /\ \A k \in 1..(j - 1) : v[k] = w[k + 1]
  BY <1>1, <1>2 DEF Numbered
<1>4. ASSUME NEW k \in 1..(j - 1) PROVE v[k] = h[(i - (j - 1)) + k]
  <2>1. k + 1 \in 1..j /\ (i - j) + (k + 1) = (i - (j - 1)) + k
    BY <1>3
  <2>2. w[k + 1] = h[(i - j) + (k + 1)]
    BY <1>1, <2>1 DEF Numbered
  <2> QED BY <1>3, <2>1, <2>2
<1>5. Len(v) =< Len(h) /\ \A k \in 1..Len(v) : v[k] = h[(Len(h) - Len(v)) + k]
  <2>1. Len(h) - Len(v) = i - (j - 1) /\ Len(v) =< Len(h)
    BY <1>1, <1>3
  <2>2. \A k \in 1..(j - 1) : v[k] = h[(Len(h) - Len(v)) + k]
    BY <1>4, <2>1
  <2> QED BY <1>3, <2>1, <2>2
<1>6. Numbered(h, p, v)
  BY <1>3, <1>5 DEF Numbered
<1> QED BY <1>1, <1>6

(* The number of the last message whose write has begun, or could have.    *)
CursorOf(h, w) == IF w = <<>> THEN Len(h) ELSE Head(w).no
Cursor == CursorOf(handed, write_msgs)

LEMMA CursorView ==
  ASSUME NEW h, NEW p, NEW w, Numbered(h, p, w), NEW c, c = CursorOf(h, w)
  PROVE  /\ c \in 0..Len(h)
         /\ c = Len(h) - Len(w) + (IF w = <<>> THEN 0 ELSE 1)
         /\ w # <<>> => c \in 1..Len(h) /\ Head(w) = h[c]
<1>1. PICK i, j : i = Len(h) /\ j = Len(w)
  OBVIOUS
<1>2. w \in Seq(MessageType) /\ h \in Seq(MessageType)
  BY DEF Numbered
<1>3. i \in Nat /\ j \in Nat /\ j =< i
  BY <1>1, <1>2 DEF Numbered
<1>4. CASE w = <<>>
  <2>1. c = i /\ j = 0
    BY <1>1, <1>4 DEF CursorOf
  <2> QED BY <1>1, <1>3, <1>4, <2>1
<1>5. CASE w # <<>>
  <2>1. 1 \in 1..j /\ Head(w) = w[1]
    BY <1>1, <1>2, <1>5
  <2>2. w[1] = h[(i - j) + 1]
    BY <1>1, <2>1 DEF Numbered
  <2>3. (i - j) + 1 \in 1..i
    BY <1>3, <2>1
  <2>4. PICK k : k = (i - j) + 1
    OBVIOUS
  <2>5. h[k].no = k
    BY <1>1, <2>3, <2>4 DEF Numbered
  <2>6. c = k
    BY <1>5, <2>1, <2>2, <2>4, <2>5 DEF CursorOf
  <2>7. c \in 1..i /\ Head(w) = h[c] /\ c = (i - j) + 1
    BY <2>1, <2>2, <2>3, <2>4, <2>6
  <2> QED BY <1>1, <1>3, <1>5, <2>7
<1> QED BY <1>4, <1>5


-----------------------------------------------------------------------------
(* What is on its way on a connection: what the agent has of the message   *)
(* it reads, what is on the wire and what is still to be written.          *)

AgentType == [state : {"header", "body", "gone"}, left : Nat, body : Seq(Pieces)]

BegunOf(a) ==
  IF a.state = "body" THEN <<Header(a.left + Len(a.body))>> \o a.body ELSE <<>>

ViewOf(a, wr, pd) == (BegunOf(a) \o wr) \o pd

LEMMA HeaderIsPiece ==
  ASSUME NEW n \in Nat
  PROVE  Header(n) \in Pieces /\ Header(n).kind = "header" /\ Header(n).n = n
BY DEF Header, Pieces

LEMMA BegunType ==
  ASSUME NEW a \in AgentType
  PROVE  BegunOf(a) \in Seq(Pieces)
<1>1. CASE a.state = "body"
  <2>1. a.left \in Nat /\ a.body \in Seq(Pieces)
    BY DEF AgentType
  <2>2. PICK n : n = a.left + Len(a.body)
    OBVIOUS
  <2>3. n \in Nat
    BY <2>1, <2>2
  <2>4. <<Header(n)>> \in Seq(Pieces)
    BY <2>3, HeaderIsPiece
  <2>5. <<Header(n)>> \o a.body \in Seq(Pieces)
    BY <2>1, <2>4, ConcatProperties
  <2> QED BY <1>1, <2>2, <2>5 DEF BegunOf
<1>2. CASE a.state # "body"
  BY <1>2 DEF BegunOf
<1> QED BY <1>1, <1>2

LEMMA ViewType ==
  ASSUME NEW a \in AgentType, NEW wr \in Seq(Pieces), NEW pd \in Seq(Pieces)
  PROVE  ViewOf(a, wr, pd) \in Seq(Pieces)
<1>1. PICK b : b = BegunOf(a)
  OBVIOUS
<1>2. b \in Seq(Pieces)
  BY <1>1, BegunType
<1>3. b \o wr \in Seq(Pieces)
  BY <1>2, ConcatProperties
<1>4. (b \o wr) \o pd \in Seq(Pieces)
  BY <1>3, ConcatProperties
<1> QED BY <1>1, <1>4 DEF ViewOf

LEMMA ConcatPrefix ==
  ASSUME NEW x \in Seq(Pieces), NEW y \in Seq(Pieces)
  PROVE  Prefix(x, x \o y) /\ Prefix(x, x) /\ Prefix(<<>>, x)
<1>1. PICK z, m, n : z = x \o y /\ m = Len(x) /\ n = Len(y)
  OBVIOUS
<1>2. /\ m \in Nat /\ n \in Nat /\ Len(z) = m + n
      /\ \A i \in 1..(m + n) : z[i] = IF i <= m THEN x[i] ELSE y[i - m]
  BY <1>1, ConcatProperties
<1>3. \A k \in 1..m : k \in 1..(m + n) /\ k <= m
  BY <1>2
<1>4. \A k \in 1..m : z[k] = x[k]
  BY <1>2, <1>3
<1>5. m =< Len(z)
  BY <1>2
<1>6. Prefix(x, z)
  BY <1>1, <1>4, <1>5 DEF Prefix
<1>7. Prefix(x, x) /\ Prefix(<<>>, x)
  BY <1>1, <1>2 DEF Prefix
<1> QED BY <1>1, <1>6, <1>7

(* What is not going to be written is cut off.                             *)
LEMMA ViewCut ==
  ASSUME NEW a \in AgentType, NEW wr \in Seq(Pieces), NEW pd \in Seq(Pieces)
  PROVE  Prefix(ViewOf(a, wr, <<>>), ViewOf(a, wr, pd))
<1>1. PICK b : b = BegunOf(a) \o wr
  OBVIOUS
<1>2. b \in Seq(Pieces)
  BY <1>1, BegunType, ConcatProperties
<1>3. b \o <<>> = b
  BY <1>2, ConcatEmptySeq
<1>4. Prefix(b, b \o pd)
  BY <1>2, ConcatPrefix
<1> QED BY <1>1, <1>3, <1>4 DEF ViewOf

(* What moves from one part to the next changes nothing.                   *)
LEMMA HeadFirst ==
  ASSUME NEW t \in Seq(Pieces), t # <<>>
  PROVE  /\ Head(t) \in Pieces /\ Tail(t) \in Seq(Pieces) /\ <<Head(t)>> \in Seq(Pieces)
         /\ t = <<Head(t)>> \o Tail(t)
<1>1. PICK h, r, n : h = Head(t) /\ r = Tail(t) /\ n = Len(t)
  OBVIOUS
<1>2. /\ h \in Pieces /\ r \in Seq(Pieces) /\ Len(r) = n - 1 /\ n \in Nat /\ n >= 1
      /\ \A i \in 1..(n - 1) : r[i] = t[i + 1]
      /\ t[1] = h
  BY <1>1, HeadTailProperties
<1>3. <<h>> \in Seq(Pieces) /\ Len(<<h>>) = 1 /\ <<h>>[1] = h
  BY <1>2
<1>4. PICK z : z = <<h>> \o r
  OBVIOUS
<1>5. /\ z \in Seq(Pieces) /\ Len(z) = n
      /\ \A i \in 1..n : z[i] = IF i <= 1 THEN <<h>>[i] ELSE r[i - 1]
  BY <1>2, <1>3, <1>4, ConcatProperties
<1>6. ASSUME NEW i \in 1..n PROVE z[i] = t[i]
  <2>1. CASE i = 1
    BY <1>2, <1>3, <1>5, <2>1
  <2>2. CASE i # 1
    <3>1. i - 1 \in 1..(n - 1) /\ (i - 1) + 1 = i /\ ~(i <= 1)
      BY <1>2, <2>2
    <3>2. r[i - 1] = t[i]
      BY <1>2, <3>1
    <3> QED BY <1>5, <3>1, <3>2
  <2> QED BY <2>1, <2>2
<1>7. z = t
  BY <1>1, <1>5, <1>6, SeqEqual
<1> QED BY <1>1, <1>2, <1>3, <1>4, <1>7

LEMMA PiecesAssociate ==
  ASSUME NEW s \in Seq(Pieces), NEW t \in Seq(Pieces), NEW u \in Seq(Pieces)
  PROVE  (s \o t) \o u = s \o (t \o u)
BY ConcatAssociative

Associate(s, t, u) == (s \o t) \o u = s \o (t \o u)

LEMMA TheyAssociate ==
  ASSUME NEW s \in Seq(Pieces), NEW t \in Seq(Pieces), NEW u \in Seq(Pieces)
  PROVE  Associate(s, t, u)
BY PiecesAssociate DEF Associate

LEMMA MoveOne ==
  ASSUME NEW x \in Seq(Pieces), NEW t \in Seq(Pieces), t # <<>>
  PROVE  /\ Append(x, Head(t)) \in Seq(Pieces)
         /\ Append(x, Head(t)) \o Tail(t) = x \o t
<1>1. PICK h, r : h = Head(t) /\ r = Tail(t)
  OBVIOUS
<1>2. h \in Pieces /\ r \in Seq(Pieces) /\ <<h>> \in Seq(Pieces) /\ t = <<h>> \o r
  BY <1>1, HeadFirst
<1>3. Append(x, h) = x \o <<h>>
  BY <1>2, AppendIsConcat, Zenon
<1>4. (x \o <<h>>) \o r = x \o (<<h>> \o r)
  BY <1>2, PiecesAssociate
<1>5. x \o <<h>> \in Seq(Pieces)
  BY <1>2, ConcatProperties
<1>6. (x \o <<h>>) \o r = x \o t
  BY <1>2, <1>4
<1> QED BY <1>1, <1>3, <1>5, <1>6

(* WriteSome                                                               *)
LEMMA ViewWrite ==
  ASSUME NEW a \in AgentType, NEW wr \in Seq(Pieces), NEW pd \in Seq(Pieces), pd # <<>>
  PROVE  ViewOf(a, Append(wr, Head(pd)), Tail(pd)) = ViewOf(a, wr, pd)
<1>1. PICK b : b = BegunOf(a)
  OBVIOUS
<1>2. b \in Seq(Pieces) /\ Tail(pd) \in Seq(Pieces)
  BY <1>1, BegunType, HeadFirst
<1>3. /\ Append(wr, Head(pd)) \in Seq(Pieces)
      /\ Append(wr, Head(pd)) \o Tail(pd) = wr \o pd
  BY MoveOne
<1>4. PICK u \in Seq(Pieces), r \in Seq(Pieces) :
        u = Append(wr, Head(pd)) /\ r = Tail(pd) /\ u \o r = wr \o pd
  BY <1>2, <1>3
<1>5. (b \o u) \o r = (b \o wr) \o pd
  <2>1. (b \o u) \o r = b \o (u \o r)
    <3>1. Associate(b, u, r)
      BY <1>2, TheyAssociate
    <3> QED BY <3>1 DEF Associate
  <2>2. (b \o wr) \o pd = b \o (wr \o pd)
    <3>1. Associate(b, wr, pd)
      BY <1>2, TheyAssociate
    <3> QED BY <3>1 DEF Associate
  <2>3. b \o (u \o r) = b \o (wr \o pd)
    BY <1>4, Zenon
  <2> QED BY <2>1, <2>2, <2>3
<1>6. ViewOf(a, u, r) = ViewOf(a, wr, pd)
  BY <1>1, <1>5 DEF ViewOf
<1> QED BY <1>4, <1>6

(* The view as the agent's part and the rest, of which the next piece is   *)
(* read.                                                                   *)
LEMMA ReadOne ==
  ASSUME NEW b \in Seq(Pieces), NEW wr \in Seq(Pieces), wr # <<>>, NEW pd \in Seq(Pieces)
  PROVE  (Append(b, Head(wr)) \o Tail(wr)) \o pd = (b \o wr) \o pd
<1>1. Append(b, Head(wr)) \o Tail(wr) = b \o wr
  BY MoveOne
<1> QED BY <1>1

(* ReadHeader                                                              *)
LEMMA ViewHeader ==
  ASSUME NEW a \in AgentType, a.state = "header", NEW wr \in Seq(Pieces), wr # <<>>,
         NEW pd \in Seq(Pieces), NEW n \in Nat, Head(wr) = Header(n),
         NEW b \in AgentType, b.state = "body", b.left = n, b.body = <<>>
  PROVE  ViewOf(b, Tail(wr), pd) = ViewOf(a, wr, pd)
<1>1. BegunOf(a) = <<>>
  BY DEF BegunOf
<1>2. BegunOf(b) = Append(<<>>, Header(n))
  <2>1. BegunOf(b) = <<Header(n + 0)>> \o <<>>
    BY DEF BegunOf
  <2>2. n + 0 = n
    OBVIOUS
  <2>3. <<Header(n)>> \in Seq(Pieces)
    BY HeaderIsPiece
  <2>4. <<Header(n)>> \o <<>> = <<Header(n)>>
    BY <2>3, ConcatEmptySeq
  <2>5. Append(<<>>, Header(n)) = <<Header(n)>>
    OBVIOUS
  <2> QED BY <2>1, <2>2, <2>4, <2>5
<1>3. (Append(<<>>, Head(wr)) \o Tail(wr)) \o pd = (<<>> \o wr) \o pd
  <2>1. <<>> \in Seq(Pieces)
    OBVIOUS
  <2> QED BY <2>1, ReadOne, Zenon
<1> QED BY <1>1, <1>2, <1>3 DEF ViewOf

(* ReadBody, when more is to come.                                         *)
LEMMA ViewBody ==
  ASSUME NEW a \in AgentType, a.state = "body", NEW wr \in Seq(Pieces), wr # <<>>,
         NEW pd \in Seq(Pieces), a.left >= 1,
         NEW b \in AgentType, b.state = "body", b.left = a.left - 1, b.body = Append(a.body, Head(wr))
  PROVE  ViewOf(b, Tail(wr), pd) = ViewOf(a, wr, pd)
<1>1. PICK h, x, l, y, n : h = Head(wr) /\ x = a.body /\ l = a.left /\ y = Append(x, h) /\ n = Len(x)
  OBVIOUS
<1>2. h \in Pieces /\ x \in Seq(Pieces) /\ l \in Nat /\ n \in Nat
  BY <1>1, HeadFirst DEF AgentType
<1>3. Len(y) = n + 1 /\ y = x \o <<h>> /\ y \in Seq(Pieces) /\ <<h>> \in Seq(Pieces)
  <2>1. Len(y) = n + 1 /\ y \in Seq(Pieces) /\ <<h>> \in Seq(Pieces)
    BY <1>1, <1>2, AppendView
  <2>2. Append(x, h) = x \o <<h>>
    BY <1>2, AppendIsConcat, Zenon
  <2> QED BY <1>1, <2>1, <2>2
<1>4. (l - 1) + (n + 1) = l + n
  BY <1>2
<1>5. PICK e : e = <<Header(l + n)>>
  OBVIOUS
<1>6. e \in Seq(Pieces)
  BY <1>2, <1>5, HeaderIsPiece
<1>7. BegunOf(a) = e \o x
  BY <1>1, <1>5 DEF BegunOf
<1>8. BegunOf(b) = e \o y
  <2>1. b.left + Len(b.body) = l + n
    BY <1>1, <1>3, <1>4
  <2> QED BY <1>1, <1>5, <2>1 DEF BegunOf
<1>9. e \o x \in Seq(Pieces)
  BY <1>2, <1>6, ConcatProperties
<1>10. e \o y = Append(e \o x, h)
  <2>1. (e \o x) \o <<h>> = e \o (x \o <<h>>)
    <3>1. Associate(e, x, <<h>>)
      BY <1>2, <1>3, <1>6, TheyAssociate
    <3> QED BY <3>1 DEF Associate
  <2>2. Append(e \o x, h) = (e \o x) \o <<h>>
    BY <1>2, <1>9, AppendIsConcat, Zenon
  <2> QED BY <1>3, <2>1, <2>2, Zenon
<1>11. (Append(e \o x, h) \o Tail(wr)) \o pd = ((e \o x) \o wr) \o pd
  BY <1>1, <1>9, ReadOne, Zenon
<1> QED BY <1>7, <1>8, <1>10, <1>11 DEF ViewOf


LastRead(v, u, y, n) ==
  /\ n \in Nat /\ u \in Seq(Pieces) /\ Len(v) = Len(u) + (n + 2)
  /\ Shifted(v, u, n + 2, Len(u)) /\ v[1] = Header(n + 1)
  /\ Len(y) = n + 1 /\ y \in Seq(Pieces)
  /\ \A k \in 1..(n + 1) : y[k] = v[k + 1]

(* The last piece of a message is read. The view begins with a header that *)
(* is that of message p, of which the agent has all fields: p is what it   *)
(* decodes.                                                                *)
LEMMA ViewLast ==
  ASSUME NEW a \in AgentType, a.state = "body", NEW wr \in Seq(Pieces), wr # <<>>,
         NEW pd \in Seq(Pieces), a.left = 1,
         NEW b \in AgentType, b.state = "header", NEW n, n = Len(a.body)
  PROVE  LastRead(ViewOf(a, wr, pd), ViewOf(b, Tail(wr), pd), Append(a.body, Head(wr)), n)
<1>1. PICK h, x, y, r, v, u, e : /\ h = Head(wr) /\ x = a.body /\ y = Append(x, h) /\ r = Tail(wr)
                                 /\ v = ViewOf(a, wr, pd) /\ u = ViewOf(b, Tail(wr), pd)
                                 /\ e = Header(n + 1)
  OBVIOUS
<1>2. /\ h \in Pieces /\ x \in Seq(Pieces) /\ n \in Nat /\ r \in Seq(Pieces) /\ e \in Pieces
      /\ <<h>> \in Seq(Pieces)
  <2>1. h \in Pieces /\ r \in Seq(Pieces) /\ <<h>> \in Seq(Pieces)
    BY <1>1, HeadFirst
  <2>2. x \in Seq(Pieces)
    BY <1>1 DEF AgentType
  <2>3. n \in Nat /\ n + 1 \in Nat
    BY <1>1, <2>2
  <2>4. e \in Pieces
    BY <1>1, <2>3, HeaderIsPiece
  <2> QED BY <2>1, <2>2, <2>3, <2>4
<1>3. /\ y \in Seq(Pieces) /\ Len(y) = n + 1
  BY <1>1, <1>2, AppendView
<1>4. PICK z : z = r \o pd
  OBVIOUS
<1>5. z \in Seq(Pieces)
  BY <1>2, <1>4, ConcatProperties
<1>6. u = z
  <2>1. BegunOf(b) = <<>>
    BY DEF BegunOf
  <2>2. <<>> \o r = r
    BY <1>2, ConcatEmptySeq
  <2> QED BY <1>1, <1>4, <2>1, <2>2 DEF ViewOf
<1>7. <<e>> \in Seq(Pieces) /\ Len(<<e>>) = 1 /\ <<e>>[1] = e
  BY <1>2
<1>8. v = (<<e>> \o y) \o z
  <2>1. BegunOf(a) = <<e>> \o x
    <3>1. a.left + Len(a.body) = n + 1
      BY <1>1, <1>2
    <3> QED BY <1>1, <3>1 DEF BegunOf
  <2>2. <<e>> \o x \in Seq(Pieces)
    BY <1>2, <1>7, ConcatProperties
  <2>3. v = ((<<e>> \o x) \o wr) \o pd
    BY <1>1, <2>1 DEF ViewOf
  <2>4. (Append(<<e>> \o x, h) \o r) \o pd = ((<<e>> \o x) \o wr) \o pd
    <3>1. PICK b0 : b0 = <<e>> \o x
      OBVIOUS
    <3>2. b0 \in Seq(Pieces)
      BY <2>2, <3>1
    <3>3. (Append(b0, Head(wr)) \o Tail(wr)) \o pd = (b0 \o wr) \o pd
      BY <3>2, ReadOne, Zenon
    <3>4. (Append(b0, h) \o r) \o pd = (b0 \o wr) \o pd
      BY <1>1, <3>3, Zenon
    <3> QED BY <3>1, <3>4, Zenon
  <2>5. Append(<<e>> \o x, h) = <<e>> \o y
    <3>1. (<<e>> \o x) \o <<h>> = <<e>> \o (x \o <<h>>)
      BY <1>2, <1>7, PiecesAssociate
    <3>2. Append(<<e>> \o x, h) = (<<e>> \o x) \o <<h>>
      BY <1>2, <2>2, AppendIsConcat, Zenon
    <3>3. Append(x, h) = x \o <<h>>
      BY <1>2, AppendIsConcat, Zenon
    <3>4. y = x \o <<h>>
      BY <1>1, <3>3, Zenon
    <3> QED BY <3>1, <3>2, <3>4, Zenon
  <2>6. <<e>> \o y \in Seq(Pieces)
    BY <1>3, <1>7, ConcatProperties
  <2>7. ((<<e>> \o y) \o r) \o pd = (<<e>> \o y) \o (r \o pd)
    BY <1>2, <2>6, PiecesAssociate
  <2>8. ((<<e>> \o y) \o r) \o pd = v
    BY <2>3, <2>4, <2>5
  <2> QED BY <1>4, <2>7, <2>8
<1>9. PICK ey : ey = <<e>> \o y
  OBVIOUS
<1>10. /\ ey \in Seq(Pieces) /\ Len(ey) = n + 2
       /\ \A i \in 1..(n + 2) : ey[i] = IF i <= 1 THEN <<e>>[i] ELSE y[i - 1]
  <2>1. /\ ey \in Seq(Pieces) /\ Len(ey) = 1 + (n + 1)
        /\ \A i \in 1..(1 + (n + 1)) : ey[i] = IF i <= 1 THEN <<e>>[i] ELSE y[i - 1]
    BY <1>3, <1>7, <1>9, ConcatProperties
  <2>2. 1 + (n + 1) = n + 2
    BY <1>2
  <2> QED BY <2>1, <2>2
<1>11. PICK m : m = Len(z)
  OBVIOUS
<1>12. /\ m \in Nat /\ Len(v) = (n + 2) + m
       /\ \A i \in 1..((n + 2) + m) : v[i] = IF i <= n + 2 THEN ey[i] ELSE z[i - (n + 2)]
  <2>1. v = ey \o z
    BY <1>8, <1>9
  <2>2. PICK l : l = n + 2
    OBVIOUS
  <2>3. Len(ey) = l /\ Len(z) = m /\ m \in Nat
    BY <1>5, <1>10, <1>11, <2>2
  <2>4. /\ Len(v) = l + m
        /\ \A i \in 1..(l + m) : v[i] = IF i <= l THEN ey[i] ELSE z[i - l]
    BY <1>5, <1>10, <2>1, <2>3, ConcatProperties
  <2> QED BY <2>2, <2>3, <2>4
<1>13. v[1] = e
  <2>1. 1 \in 1..((n + 2) + m) /\ 1 <= n + 2 /\ 1 \in 1..(n + 2)
    BY <1>2, <1>12
  <2>2. ey[1] = e
    BY <1>7, <1>10, <2>1
  <2> QED BY <1>12, <2>1, <2>2
<1>14. ASSUME NEW k \in 1..(n + 1) PROVE y[k] = v[k + 1]
  <2>1. /\ k + 1 \in 1..((n + 2) + m) /\ k + 1 <= n + 2 /\ k + 1 \in 1..(n + 2)
        /\ ~(k + 1 <= 1) /\ (k + 1) - 1 = k
    BY <1>2, <1>12
  <2>2. ey[k + 1] = y[k]
    BY <1>10, <2>1
  <2> QED BY <1>12, <2>1, <2>2
<1>15. ASSUME NEW k \in 1..m PROVE u[k] = v[k + (n + 2)]
  <2>1. /\ k + (n + 2) \in 1..((n + 2) + m) /\ ~(k + (n + 2) <= n + 2)
        /\ (k + (n + 2)) - (n + 2) = k
    BY <1>2, <1>12
  <2> QED BY <1>6, <1>12, <2>1
<1>16. Len(v) = Len(u) + (n + 2) /\ u \in Seq(Pieces) /\ Shifted(v, u, n + 2, Len(u))
  <2>1. Len(v) = Len(u) + (n + 2)
    BY <1>2, <1>6, <1>11, <1>12
  <2>2. Shifted(v, u, n + 2, m)
    BY <1>15 DEF Shifted
  <2> QED BY <1>5, <1>6, <1>11, <2>1, <2>2
<1>17. LastRead(v, u, y, n)
  BY <1>1, <1>2, <1>3, <1>13, <1>14, <1>16 DEF LastRead
<1> QED BY <1>1, <1>17


-----------------------------------------------------------------------------
(* Messages are numbered in the order of their Post, and write_msgs is     *)
(* what the handler has of them, from the one that is written on.          *)
NumberedInv == Numbered(handed, posted, write_msgs)

LEMMA InitNumbered == Init => NumberedInv
<1> SUFFICES ASSUME Init PROVE NumberedInv
  OBVIOUS
<1>1. handed = <<>> /\ posted = <<>> /\ write_msgs = <<>>
  BY DEF Init
<1>2. MaxMsgs \in Nat
  BY LinkAssumption
<1>3. Numbered(<<>>, <<>>, <<>>)
  BY <1>2 DEF Numbered
<1> QED BY <1>1, <1>3 DEF NumberedInv

LEMMA NextNumbered ==
  ASSUME ~Repeats, WriterInv, NumberedInv, [Next]_vars
  PROVE  NumberedInv'
<1>0. ASSUME UNCHANGED <<handed, posted, write_msgs>> PROVE NumberedInv'
  BY <1>0 DEF NumberedInv
<1>1. ASSUME NEW fields \in 1..MaxFields, Post(fields, 0) PROVE NumberedInv'
  <2>1. PICK m : m = [no |-> Len(posted) + Len(handed) + 1, sets |-> fields + 0, fields |-> fields]
    OBVIOUS
  <2>2. /\ posted' = Append(posted, m) /\ UNCHANGED <<write_msgs, handed>>
        /\ Len(posted) + Len(handed) < MaxMsgs
    BY <1>1, <2>1 DEF Post
  <2>3. posted \in Seq(MessageType) /\ handed \in Seq(MessageType)
    BY DEF WriterInv, WriterType
  <2>4. Len(posted) \in Nat /\ Len(handed) \in Nat /\ fields \in Nat \ {0} /\ fields + 0 = fields
    BY <2>3, LinkAssumption
  <2>5. m \in MessageType /\ Well(m) /\ m.no = Len(posted) + Len(handed) + 1
    BY <2>1, <2>4 DEF MessageType, Well
  <2>6. Numbered(handed, Append(posted, m), write_msgs)
    BY <2>2, <2>5, NumberedPost DEF NumberedInv
  <2> QED BY <2>2, <2>6 DEF NumberedInv
<1>2. CASE Deliver
  <2>1. /\ posted # <<>> /\ posted' = Tail(posted)
        /\ handed' = Append(handed, Head(posted)) /\ write_msgs' = Append(write_msgs, Head(posted))
    BY <1>2 DEF Deliver
  <2>2. Numbered(Append(handed, Head(posted)), Tail(posted), Append(write_msgs, Head(posted)))
    BY <2>1, NumberedDeliver DEF NumberedInv
  <2> QED BY <2>1, <2>2, Zenon DEF NumberedInv
<1>3. CASE HandleWritten
  <2>1. ready # <<>> /\ Head(ready).ok /\ write_msgs' = Tail(write_msgs) /\ UNCHANGED <<posted, handed>>
    BY <1>3 DEF HandleWritten
  <2>2. write_msgs # <<>>
    BY <2>1, WrittenHasMessage
  <2>3. Numbered(handed, posted, Tail(write_msgs))
    BY <2>2, NumberedWritten DEF NumberedInv
  <2> QED BY <2>1, <2>3 DEF NumberedInv
<1>4. CASE Connect \/ Disconnect \/ Connected \/ ConnectFails \/ Break \/ Arrive \/ WriteSome \/ HandleFailure
  BY <1>0, <1>4 DEF Connect, Disconnect, Connected, ConnectFails, Break, Arrive, WriteSome, HandleFailure
<1>5. ASSUME NEW s \in Sessions, ReadHeader(s) \/ ReadBody(s) \/ AgentEnds(s)
      PROVE  NumberedInv'
  BY <1>0, <1>5 DEF ReadHeader, ReadBody, AgentEnds, client_vars
<1>6. CASE UNCHANGED vars
  BY <1>0, <1>6 DEF vars, client_vars
<1>7. CASE Client
  <2>1. CASE \E fields \in 1..MaxFields, twice \in IF Repeats THEN {0, 1} ELSE {0} :
               Post(fields, twice)
    BY <1>1, <2>1
  <2> QED BY <1>2, <1>3, <1>4, <1>7, <2>1 DEF Client
<1> QED BY <1>5, <1>6, <1>7 DEF Next

-----------------------------------------------------------------------------
(* What the connections are: up to session there may be something on the   *)
(* wire, and something is written only while the socket is at it.          *)
LinkType ==
  /\ session \in 0..MaxSessions
  /\ link \in [Sessions -> {"none", "up", "broken"}]
  /\ wire \in [Sessions -> Seq(Pieces)] /\ agent \in [Sessions -> AgentType]
  /\ got \in [Sessions -> Seq(Nat)]

SocketInv ==
  /\ sock # "closed" => session \in Sessions
  /\ writing # NULL => sock = "connecting" \/ Up
  /\ sock = "connecting" => link[session] = "none"
  /\ \A s \in Sessions : s > session => link[s] = "none"
  /\ \A s \in Sessions : link[s] = "none" => wire[s] = <<>> /\ agent[s].state = "header"

LinkInv == LinkType /\ SocketInv

LEMMA InitLink == Init => LinkInv
<1> SUFFICES ASSUME Init PROVE LinkInv
  OBVIOUS
<1>1. NewAgent \in AgentType /\ NewAgent.state = "header"
  BY DEF NewAgent, AgentType
<1>2. <<>> \in Seq(Pieces) /\ <<>> \in Seq(Nat) /\ MaxSessions \in Nat
  BY LinkAssumption
<1>3. LinkType
  BY <1>1, <1>2 DEF Init, LinkType
<1>4. SocketInv
  BY <1>1 DEF Init, SocketInv
<1> QED BY <1>3, <1>4 DEF LinkInv

LEMMA DecodeType ==
  ASSUME NEW body \in Seq(Pieces), NEW F
  PROVE  Decode(body, F) \in Nat
<1>1. CASE body # <<>>
  <2>1. Head(body) \in Pieces
    BY <1>1, HeadFirst
  <2>2. Head(body).n \in Nat
    BY <2>1 DEF Pieces
  <2> QED BY <2>2 DEF Decode
<1>2. CASE body = <<>>
  BY <1>2 DEF Decode
<1> QED BY <1>1, <1>2


(* What the agent of a connection becomes, and what it passes on.          *)
LEMMA AgentSteps ==
  ASSUME LinkType, NEW s \in Sessions, ReadHeader(s) \/ ReadBody(s) \/ AgentEnds(s)
  PROVE  /\ \E a \in AgentType : agent' = [agent EXCEPT ![s] = a]
         /\ got' = got \/ \E d \in Nat : got' = [got EXCEPT ![s] = Append(@, d)]
<1>1. agent \in [Sessions -> AgentType] /\ wire[s] \in Seq(Pieces) /\ agent[s] \in AgentType
  BY DEF LinkType
<1>2. NewAgent \in AgentType
  BY DEF NewAgent, AgentType
<1>3. CASE ReadHeader(s)
  <2>1. wire[s] # <<>> /\ UNCHANGED got
    BY <1>3 DEF ReadHeader
  <2>2. Head(wire[s]) \in Pieces
    BY <1>1, <2>1, HeadFirst
  <2>3. Head(wire[s]).n \in Nat
    BY <2>2 DEF Pieces
  <2>4. PICK n \in IF Head(wire[s]).kind = "header" THEN {Head(wire[s]).n} ELSE 1..MaxFields :
          agent' = [agent EXCEPT ![s] = [state |-> "body", left |-> n, body |-> <<>>]]
    BY <1>3 DEF ReadHeader
  <2>5. n \in Nat
    BY <2>3, <2>4, LinkAssumption
  <2>6. [state |-> "body", left |-> n, body |-> <<>>] \in AgentType
    BY <2>5 DEF AgentType
  <2> QED BY <2>1, <2>4, <2>6
<1>4. CASE ReadBody(s)
  <2>1. PICK y : y = Append(agent[s].body, Head(wire[s]))
    OBVIOUS
  <2>2. wire[s] # <<>> /\ agent[s].body \in Seq(Pieces)
    BY <1>1, <1>4 DEF ReadBody, AgentType
  <2>3. y \in Seq(Pieces)
    BY <1>1, <2>1, <2>2, MoveOne
  <2>4. CASE agent[s].left > 1
    <3>1. agent' = [agent EXCEPT ![s].left = @ - 1, ![s].body = y] /\ UNCHANGED got
      BY <1>4, <2>1, <2>4 DEF ReadBody
    <3>2. PICK a : a = [agent[s] EXCEPT !.left = @ - 1, !.body = y]
      OBVIOUS
    <3>3. a \in AgentType
      <4>1. agent[s].left \in Nat /\ agent[s].left - 1 \in Nat /\ agent[s].state = "body"
        BY <1>1, <1>4, <2>4 DEF AgentType, ReadBody
      <4>2. a = [state |-> "body", left |-> agent[s].left - 1, body |-> y]
        BY <1>1, <3>2, <4>1 DEF AgentType
      <4> QED BY <2>3, <4>1, <4>2 DEF AgentType
    <3>4. agent' = [agent EXCEPT ![s] = a]
      BY <1>1, <3>1, <3>2
    <3> QED BY <3>1, <3>3, <3>4
  <2>5. CASE ~(agent[s].left > 1)
    <3>1. /\ agent' = [agent EXCEPT ![s] = NewAgent]
          /\ got' = [got EXCEPT ![s] = Append(@, Decode(y, FieldsOf))]
      BY <1>4, <2>1, <2>5 DEF ReadBody
    <3>2. Decode(y, FieldsOf) \in Nat
      BY <2>3, DecodeType
    <3> QED BY <1>2, <3>1, <3>2
  <2> QED BY <2>4, <2>5
<1>5. CASE AgentEnds(s)
  <2>1. [NewAgent EXCEPT !.state = "gone"] = [state |-> "gone", left |-> 0, body |-> <<>>]
    BY DEF NewAgent
  <2>2. [state |-> "gone", left |-> 0, body |-> <<>>] \in AgentType
    BY DEF AgentType
  <2> QED BY <1>5, <2>1, <2>2 DEF AgentEnds
<1> QED BY <1>3, <1>4, <1>5

(* The end of a connection makes no link of "none".                        *)
LEMMA HangupLink ==
  ASSUME LinkType, Hangup
  PROVE  /\ link' \in [Sessions -> {"none", "up", "broken"}]
         /\ \A s \in Sessions : link'[s] = "none" <=> link[s] = "none"
         /\ \A s \in Sessions : s # session => link'[s] = link[s]
<1>1. CASE session = 0
  BY <1>1 DEF LinkType, Hangup
<1>2. CASE session # 0
  <2>1. session \in Sessions
    BY <1>2, LinkAssumption DEF LinkType, Sessions
  <2>2. link' = [link EXCEPT ![session] = IF @ = "up" THEN "broken" ELSE @]
    BY <1>2 DEF Hangup
  <2> QED BY <2>1, <2>2 DEF LinkType
<1> QED BY <1>1, <1>2

LEMMA NextLink ==
  ASSUME WriterInv, LinkInv, [Next]_vars
  PROVE  LinkInv'
<1> USE DEF LinkInv
<1>0. ASSUME UNCHANGED <<session, sock, link, wire, agent, got>>,
             writing' # NULL => sock = "connecting" \/ Up
      PROVE  LinkInv'
  BY <1>0 DEF LinkType, SocketInv, Up
<1>1. CASE Connect
  <2>1. /\ session < MaxSessions /\ session' = session + 1 /\ Hangup
        /\ writing' = NULL /\ UNCHANGED <<wire, agent, got>>
    BY <1>1 DEF Connect, agent_vars
  <2>2. MaxSessions \in Nat /\ session \in Nat
    BY LinkAssumption DEF LinkType
  <2>3. session' \in Sessions /\ session' > session /\ session' \in 0..MaxSessions
    BY <2>1, <2>2 DEF Sessions
  <2>4. \A s \in Sessions : s > session' => s > session /\ s # session
    BY <2>1, <2>2 DEF Sessions
  <2>5. LinkType'
    BY <2>1, <2>3, HangupLink DEF LinkType
  <2>6. link[session'] = "none"
    BY <2>3 DEF SocketInv
  <2>7. \A s \in Sessions : s > session' => link'[s] = "none"
    BY <2>1, <2>4, HangupLink DEF SocketInv
  <2>8. \A s \in Sessions : link'[s] = "none" => wire'[s] = <<>> /\ agent'[s].state = "header"
    BY <2>1, HangupLink DEF SocketInv
  <2>9. link'[session'] = "none"
    BY <2>1, <2>3, <2>6, HangupLink
  <2>10. SocketInv'
    BY <2>1, <2>3, <2>7, <2>8, <2>9 DEF SocketInv
  <2> QED BY <2>5, <2>10
<1>2. CASE Disconnect
  <2>1. /\ Hangup /\ sock' = "closed" /\ writing' = NULL /\ UNCHANGED <<session, wire, agent, got>>
    BY <1>2 DEF Disconnect, agent_vars
  <2>2. LinkType'
    BY <2>1, HangupLink DEF LinkType
  <2>3. SocketInv'
    BY <2>1, HangupLink DEF SocketInv
  <2> QED BY <2>2, <2>3
<1>3. CASE Connected
  <2>1. /\ sock = "connecting" /\ sock' = "open" /\ link' = [link EXCEPT ![session] = "up"]
        /\ UNCHANGED <<session, writing, wire, agent, got>>
    BY <1>3 DEF Connected, agent_vars
  <2>2. session \in Sessions
    BY <2>1 DEF SocketInv
  <2>3. LinkType'
    BY <2>1, <2>2 DEF LinkType
  <2>4. /\ link'[session] = "up" /\ session' = session
        /\ \A s \in Sessions : s # session => link'[s] = link[s]
    BY <2>1, <2>2 DEF LinkType
  <2>5. \A s \in Sessions : s > session => s # session
    BY LinkAssumption DEF Sessions, LinkType
  <2>6. \A s \in Sessions : s > session' => link'[s] = "none"
    BY <2>4, <2>5 DEF SocketInv
  <2>7. \A s \in Sessions : link'[s] = "none" => wire'[s] = <<>> /\ agent'[s].state = "header"
    BY <2>1, <2>4 DEF SocketInv
  <2>8. SocketInv'
    BY <2>1, <2>2, <2>4, <2>6, <2>7 DEF SocketInv, Up
  <2> QED BY <2>3, <2>8
<1>4. CASE ConnectFails
  BY <1>4 DEF ConnectFails, agent_vars, LinkType, SocketInv
<1>5. CASE Break
  <2>1. /\ sock = "open" /\ link[session] = "up" /\ link' = [link EXCEPT ![session] = "broken"]
        /\ writing' = NULL /\ UNCHANGED <<session, sock, wire, agent, got>>
    BY <1>5 DEF Break, agent_vars, Up
  <2>2. session \in Sessions
    BY <2>1 DEF SocketInv
  <2>3. LinkType'
    BY <2>1, <2>2 DEF LinkType
  <2>4. /\ link'[session] = "broken" /\ session' = session
        /\ \A s \in Sessions : s # session => link'[s] = link[s]
    BY <2>1, <2>2 DEF LinkType
  <2>5. \A s \in Sessions : s > session => s # session
    BY LinkAssumption DEF Sessions, LinkType
  <2>6. SocketInv'
    BY <2>1, <2>2, <2>4, <2>5 DEF SocketInv
  <2> QED BY <2>3, <2>6
<1>6. CASE Arrive
  BY <1>0, <1>6 DEF Arrive, agent_vars, SocketInv
<1>7. ASSUME NEW fields \in 1..MaxFields, NEW twice \in {0, 1}, Post(fields, twice)
      PROVE  LinkInv'
  BY <1>0, <1>7 DEF Post, agent_vars, SocketInv
<1>8. CASE Deliver
  BY <1>0, <1>8 DEF Deliver, DoWrite, agent_vars, SocketInv
<1>9. CASE WriteSome
  <2>1. /\ sock = "open" /\ link[session] = "up" /\ writing # NULL
        /\ wire' = [wire EXCEPT ![session] = Append(@, Head(writing))]
        /\ UNCHANGED <<session, sock, link, agent, got>>
    BY <1>9 DEF WriteSome, agent_vars, Up
  <2>2. session \in Sessions
    BY <2>1 DEF SocketInv
  <2>3. writing \in Seq(Pieces) /\ writing # <<>> /\ wire[session] \in Seq(Pieces)
    BY <2>1, <2>2 DEF WriterInv, WriterType, LinkType
  <2>4. Append(wire[session], Head(writing)) \in Seq(Pieces)
    BY <2>3, MoveOne
  <2>5. LinkType'
    BY <2>1, <2>2, <2>4 DEF LinkType
  <2>6. \A s \in Sessions : s # session => wire'[s] = wire[s]
    BY <2>1 DEF LinkType
  <2>7. SocketInv'
    BY <2>1, <2>2, <2>6 DEF SocketInv, Up
  <2> QED BY <2>5, <2>7
<1>10. CASE HandleFailure
  BY <1>0, <1>10 DEF HandleFailure, agent_vars, SocketInv
<1>11. CASE HandleWritten
  BY <1>0, <1>11 DEF HandleWritten, DoWrite, agent_vars, SocketInv
<1>12. ASSUME NEW s \in Sessions, ReadHeader(s) \/ ReadBody(s) \/ AgentEnds(s)
       PROVE  LinkInv'
  <2>1. UNCHANGED <<session, sock, link, writing>>
    BY <1>12 DEF ReadHeader, ReadBody, AgentEnds, client_vars
  <2>2. \E w \in Seq(Pieces) : wire' = [wire EXCEPT ![s] = w]
    <3>1. wire[s] \in Seq(Pieces)
      BY DEF LinkType
    <3>2. wire[s] # <<>> => Tail(wire[s]) \in Seq(Pieces)
      BY <3>1, HeadFirst
    <3>3. <<>> \in Seq(Pieces)
      OBVIOUS
    <3>4. CASE AgentEnds(s)
      BY <3>3, <3>4 DEF AgentEnds
    <3>5. CASE ReadHeader(s) \/ ReadBody(s)
      BY <3>2, <3>5 DEF ReadHeader, ReadBody
    <3> QED BY <1>12, <3>4, <3>5
  <2>3. link[s] # "none"
    BY <1>12 DEF ReadHeader, ReadBody, AgentEnds, SocketInv
  <2>4. /\ \E a \in AgentType : agent' = [agent EXCEPT ![s] = a]
        /\ got' = got \/ \E d \in Nat : got' = [got EXCEPT ![s] = Append(@, d)]
    BY <1>12, AgentSteps DEF LinkType
  <2>5. LinkType'
    <3>1. wire' \in [Sessions -> Seq(Pieces)] /\ agent' \in [Sessions -> AgentType]
      BY <2>2, <2>4 DEF LinkType
    <3>2. got' \in [Sessions -> Seq(Nat)]
      <4>1. ASSUME NEW d \in Nat, got' = [got EXCEPT ![s] = Append(@, d)]
            PROVE  got' \in [Sessions -> Seq(Nat)]
        <5>1. got[s] \in Seq(Nat) /\ got \in [Sessions -> Seq(Nat)]
          BY DEF LinkType
        <5>2. Append(got[s], d) \in Seq(Nat)
          BY <5>1, AppendView
        <5> QED BY <4>1, <5>1, <5>2
      <4> QED BY <2>4, <4>1 DEF LinkType
    <3> QED BY <2>1, <3>1, <3>2 DEF LinkType
  <2>6. \A t \in Sessions : t # s => wire'[t] = wire[t] /\ agent'[t] = agent[t]
    BY <2>2, <2>4 DEF LinkType
  <2>7. SocketInv'
    BY <2>1, <2>3, <2>6 DEF SocketInv, Up
  <2> QED BY <2>5, <2>7
<1>13. CASE UNCHANGED vars
  BY <1>0, <1>13 DEF vars, client_vars, agent_vars, SocketInv
<1>14. CASE Client
  <2>1. CASE \E fields \in 1..MaxFields, twice \in IF Repeats THEN {0, 1} ELSE {0} :
               Post(fields, twice)
    BY <1>7, <2>1
  <2> QED BY <1>1, <1>2, <1>3, <1>4, <1>5, <1>6, <1>8, <1>9, <1>10, <1>11, <1>14, <2>1
          DEF Client
<1> QED BY <1>12, <1>13, <1>14 DEF Next


-----------------------------------------------------------------------------
(* What is on its way is made of messages whose write has begun, each on   *)
(* one connection, and the writer is at the end of one of them: what it    *)
(* writes next begins with a header where the agent expects one.           *)

Pending(s) == IF s = session /\ writing # NULL THEN writing ELSE <<>>
Views == [s \in Sessions |-> ViewOf(agent[s], wire[s], Pending(s))]
Writable == Up \/ sock = "connecting"

StreamsAre(lab) ==
  /\ Streams(Views, got, lab, FieldsOf, Cursor)
  /\ Writable => Whole(Len(Views[session]), lab[session], FieldsOf)

ReadsOn == \A s \in Sessions : agent[s].state = "body" => agent[s].left >= 1

StreamInv == ReadsOn /\ \E lab : StreamsAre(lab)

LEMMA SizesKnown ==
  ASSUME NumberedInv
  PROVE  /\ Cursor \in Nat /\ Len(handed) \in Nat /\ Cursor =< Len(handed)
         /\ Sizes(FieldsOf, Cursor) /\ Sizes(FieldsOf, Len(handed))
<1>1. PICK c, n : c = Cursor /\ n = Len(handed)
  OBVIOUS
<1>2. n \in Nat
  BY <1>1 DEF NumberedInv, Numbered
<1>3. c \in 0..n
  BY <1>1, CursorView DEF NumberedInv, Cursor
<1>4. \A k \in 1..n : FieldsOf[k] = handed[k].fields /\ handed[k].fields \in Nat \ {0}
  BY <1>1 DEF FieldsOf, NumberedInv, Numbered, Well
<1>5. Sizes(FieldsOf, n)
  BY <1>4 DEF Sizes
<1>6. Sizes(FieldsOf, c)
  BY <1>2, <1>3, <1>4 DEF Sizes
<1> QED BY <1>1, <1>2, <1>3, <1>5, <1>6

LEMMA CursorNext ==
  ASSUME NumberedInv' PROVE Cursor' \in Nat
<1>1. PICK h, p, w : h = handed' /\ p = posted' /\ w = write_msgs'
  OBVIOUS
<1>2. Numbered(h, p, w)
  BY <1>1 DEF NumberedInv
<1>3. CursorOf(h, w) \in 0..Len(h) /\ Len(h) \in Nat
  BY <1>2, CursorView DEF Numbered
<1> QED BY <1>1, <1>3 DEF Cursor

LEMMA PendingType ==
  ASSUME WriterInv, NEW s
  PROVE  Pending(s) \in Seq(Pieces)
<1>1. <<>> \in Seq(Pieces)
  OBVIOUS
<1> QED BY <1>1 DEF Pending, WriterInv, WriterType

LEMMA ViewsType ==
  ASSUME WriterInv, LinkType, NEW s \in Sessions
  PROVE  Views[s] \in Seq(Pieces) /\ Views[s] = ViewOf(agent[s], wire[s], Pending(s))
<1>1. agent[s] \in AgentType /\ wire[s] \in Seq(Pieces)
  BY DEF LinkType
<1> QED BY <1>1, PendingType, ViewType DEF Views

LEMMA WholeKnows ==
  ASSUME NEW n \in Nat, NEW w, NEW lab, NEW F, NEW G, NEW c, Fits(w, n, lab, F, c), Knows(G, F, c),
         Whole(n, lab, F)
  PROVE  Whole(n, lab, G)
BY DEF Fits, LabelsType, Knows, Whole

LEMMA KeepStreams ==
  ASSUME NumberedInv, NumberedInv', NEW lab, StreamsAre(lab), got' = got,
         Cursor =< Cursor', Knows(FieldsOf', FieldsOf, Cursor),
         \A s \in Sessions : Views'[s] \in Seq(Pieces) /\ Prefix(Views'[s], Views[s]),
         Writable' => \/ /\ Writable /\ session' = session /\ session \in Sessions
                         /\ Views'[session] = Views[session]
                      \/ session' \in Sessions /\ Views'[session'] = <<>>
  PROVE  StreamsAre(lab)'
<1>1. PICK V, U, g, F, G, c, d : /\ V = Views /\ U = Views' /\ g = got /\ F = FieldsOf /\ G = FieldsOf'
                                 /\ c = Cursor /\ d = Cursor'
  OBVIOUS
<1>2. c \in Nat /\ d \in Nat /\ c =< d /\ Sizes(F, c)
  BY <1>1, SizesKnown, CursorNext
<1>3. Streams(V, g, lab, F, c) /\ Knows(G, F, c)
  BY <1>1 DEF StreamsAre
<1>4. \A s \in Sessions : U[s] \in Seq(Pieces) /\ Prefix(U[s], V[s])
  BY <1>1
<1>5. Streams(U, g, lab, G, d)
  BY <1>2, <1>3, <1>4, StreamsShrink
<1>6. CASE Writable /\ session' = session /\ session \in Sessions /\ Views'[session] = Views[session]
  <2>1. Whole(Len(V[session]), lab[session], F)
    BY <1>1, <1>6 DEF StreamsAre
  <2>2. Conveys(V[session], g[session], lab[session], F, c)
    BY <1>3, <1>6 DEF Streams
  <2>3. Len(V[session]) \in Nat /\ Fits(V[session], Len(V[session]), lab[session], F, c)
    BY <2>2 DEF Conveys
  <2>4. Whole(Len(V[session]), lab[session], G)
    BY <1>3, <2>1, <2>3, WholeKnows
  <2> QED BY <1>1, <1>5, <1>6, <2>4 DEF StreamsAre
<1>7. CASE session' \in Sessions /\ Views'[session'] = <<>>
  <2>1. Whole(Len(Views'[session']), lab[session'], G)
    BY <1>7 DEF Whole
  <2> QED BY <1>1, <1>5, <2>1 DEF StreamsAre
<1>8. CASE ~Writable'
  BY <1>1, <1>5, <1>8 DEF StreamsAre
<1> QED BY <1>6, <1>7, <1>8


BaseInv == WriterInv /\ NumberedInv /\ LinkInv

LEMMA EmptyView ==
  ASSUME NEW a \in AgentType, a.state # "body"
  PROVE  ViewOf(a, <<>>, <<>>) = <<>>
<1>1. BegunOf(a) = <<>>
  BY DEF BegunOf
<1>2. <<>> \o <<>> = <<>>
  OBVIOUS
<1> QED BY <1>1, <1>2 DEF ViewOf

LEMMA InitStream == Init => StreamInv
<1> SUFFICES ASSUME Init PROVE StreamInv
  OBVIOUS
<1>1. NewAgent \in AgentType /\ NewAgent.state = "header"
  BY DEF NewAgent, AgentType
<1>2. \A s \in Sessions : agent[s] = NewAgent /\ wire[s] = <<>> /\ Pending(s) = <<>>
  BY DEF Init, Pending
<1>3. ViewOf(NewAgent, <<>>, <<>>) = <<>>
  BY <1>1, EmptyView
<1>4. \A s \in Sessions : Views[s] = <<>> /\ got[s] = <<>>
  BY <1>2, <1>3 DEF Init, Views
<1>5. PICK F, c, lab : F = FieldsOf /\ c = Cursor /\ lab = got
  OBVIOUS
<1>6. Conveys(<<>>, <<>>, <<>>, F, c) /\ Numbers(<<>>, <<>>, <<>>) = {}
  <2>1. Fits(<<>>, 0, <<>>, F, c)
    BY DEF Fits, LabelsType, Pieced, Blocks, Growing
  <2> QED BY <2>1 DEF Conveys, Numbers
<1>7. Streams(Views, got, lab, F, c)
  BY <1>4, <1>5, <1>6 DEF Streams
<1>8. ~Writable
  BY DEF Init, Writable, Up
<1>9. StreamsAre(lab)
  BY <1>5, <1>7, <1>8 DEF StreamsAre
<1>10. ReadsOn
  BY <1>1, <1>2 DEF ReadsOn
<1> QED BY <1>9, <1>10 DEF StreamInv

(* Steps that move pieces, or nothing.                                     *)
LEMMA SameViews ==
  ASSUME BaseInv, BaseInv', StreamInv, ReadsOn', got' = got, session' = session,
         Writable' => Writable, Cursor =< Cursor', Knows(FieldsOf', FieldsOf, Cursor),
         \A s \in Sessions : Views'[s] = Views[s]
  PROVE  StreamInv'
<1>1. PICK lab : StreamsAre(lab)
  BY DEF StreamInv
<1>2. \A s \in Sessions : Views'[s] \in Seq(Pieces) /\ Prefix(Views'[s], Views[s])
  BY ViewsType, ConcatPrefix DEF BaseInv, LinkInv
<1>3. Writable => session \in Sessions
  BY DEF BaseInv, LinkInv, SocketInv, Writable, Up
<1>4. StreamsAre(lab)'
  BY <1>1, <1>2, <1>3, KeepStreams DEF BaseInv
<1> QED BY <1>4 DEF StreamInv

LEMMA SameCursor ==
  ASSUME BaseInv, handed' = handed
  PROVE  /\ FieldsOf' = FieldsOf /\ Knows(FieldsOf', FieldsOf, Cursor)
         /\ write_msgs' = write_msgs => Cursor =< Cursor'
<1>1. FieldsOf' = FieldsOf
  BY DEF FieldsOf
<1>2. Cursor \in Nat
  BY SizesKnown DEF BaseInv
<1>3. write_msgs' = write_msgs => Cursor' = Cursor
  BY DEF Cursor
<1> QED BY <1>1, <1>2, <1>3 DEF Knows

(* What was to be written is not: the views are cut.                       *)
LEMMA CloseStream ==
  ASSUME BaseInv, BaseInv', StreamInv, UNCHANGED <<wire, agent, got, handed, write_msgs>>,
         writing' = NULL,
         Writable' => session' \in Sessions /\ wire[session'] = <<>> /\ agent[session'].state = "header"
  PROVE  StreamInv'
<1>1. PICK lab : StreamsAre(lab)
  BY DEF StreamInv
<1>2. \A s \in Sessions : Pending(s)' = <<>>
  BY DEF Pending
<1>3. \A s \in Sessions : Views'[s] = ViewOf(agent[s], wire[s], <<>>)
  BY <1>2 DEF Views
<1>4. ASSUME NEW s \in Sessions
      PROVE  Views'[s] \in Seq(Pieces) /\ Prefix(Views'[s], Views[s])
  <2>1. agent[s] \in AgentType /\ wire[s] \in Seq(Pieces) /\ Pending(s) \in Seq(Pieces)
    BY PendingType DEF BaseInv, LinkInv, LinkType
  <2>2. Views[s] = ViewOf(agent[s], wire[s], Pending(s))
    BY DEF Views
  <2>3. Prefix(ViewOf(agent[s], wire[s], <<>>), ViewOf(agent[s], wire[s], Pending(s)))
    BY <2>1, ViewCut
  <2>4. <<>> \in Seq(Pieces)
    OBVIOUS
  <2>5. ViewOf(agent[s], wire[s], <<>>) \in Seq(Pieces)
    BY <2>1, <2>4, ViewType
  <2> QED BY <1>3, <2>2, <2>3, <2>5
<1>5. Writable' => session' \in Sessions /\ Views'[session'] = <<>>
  <2>1. ASSUME NEW s \in Sessions, wire[s] = <<>>, agent[s].state = "header" PROVE Views'[s] = <<>>
    <3>1. agent[s] \in AgentType
      BY DEF BaseInv, LinkInv, LinkType
    <3>2. ViewOf(agent[s], <<>>, <<>>) = <<>>
      BY <2>1, <3>1, EmptyView
    <3> QED BY <1>3, <2>1, <3>2
  <2> QED BY <2>1
<1>6. Cursor =< Cursor' /\ Knows(FieldsOf', FieldsOf, Cursor)
  BY SameCursor
<1>7. StreamsAre(lab)'
  BY <1>1, <1>4, <1>5, <1>6, KeepStreams DEF BaseInv
<1>8. ReadsOn'
  BY DEF StreamInv, ReadsOn
<1> QED BY <1>7, <1>8 DEF StreamInv


(* A view begins with the header of a message, behind which are fields of  *)
(* that message up to its last one.                                        *)
Begins(v, p, F, c) ==
  /\ p \in 1..c /\ F[p] \in Nat \ {0} /\ v[1] = Header(F[p])
  /\ \A k \in 1..F[p] : k + 1 =< Len(v) => v[k + 1] = Field(p)

LEMMA FirstMessage ==
  ASSUME NEW v, NEW g, NEW lab, NEW F, NEW c \in Nat, Conveys(v, g, lab, F, c), Sizes(F, c),
         Len(v) >= 1
  PROVE  Begins(v, lab[1].no, F, c)
<1>1. PICK n, p, f : n = Len(v) /\ p = lab[1].no /\ f = F[p]
  OBVIOUS
<1>2. n \in Nat /\ 1 \in 1..n /\ Fits(v, n, lab, F, c)
  BY <1>1 DEF Conveys
<1>3. p \in 1..c /\ lab[1].at = 0
  BY <1>1, <1>2 DEF Fits, LabelsType, Blocks
<1>4. f \in Nat \ {0}
  BY <1>1, <1>3 DEF Sizes
<1>5. v[1] = Header(f)
  BY <1>1, <1>2, <1>3 DEF Fits, Pieced, PieceOf
<1>6. ASSUME NEW k \in 1..f, k + 1 =< n PROVE v[k + 1] = Field(p)
  <2>1. k \in 0..f /\ 1 + k = k + 1 /\ k + 1 \in 1..n /\ k # 0
    BY <1>2, <1>4, <1>6
  <2>2. lab[1 + k].no = p /\ lab[1 + k].at = k
    BY <1>1, <1>2, <1>3, <1>6, <2>1 DEF Fits, Blocks
  <2>3. v[k + 1] = PieceOf(lab[k + 1].no, lab[k + 1].at, F)
    BY <1>2, <2>1 DEF Fits, Pieced
  <2> QED BY <2>1, <2>2, <2>3 DEF PieceOf
<1> QED BY <1>1, <1>3, <1>4, <1>5, <1>6 DEF Begins

LEMMA ViewFirst ==
  ASSUME NEW a \in AgentType, a.state = "header", NEW wr \in Seq(Pieces), wr # <<>>,
         NEW pd \in Seq(Pieces)
  PROVE  Len(ViewOf(a, wr, pd)) >= 1 /\ ViewOf(a, wr, pd)[1] = Head(wr)
<1>1. BegunOf(a) = <<>>
  BY DEF BegunOf
<1>2. <<>> \o wr = wr
  BY ConcatEmptySeq
<1>3. PICK v, n, m : v = ViewOf(a, wr, pd) /\ n = Len(wr) /\ m = Len(pd)
  OBVIOUS
<1>4. v = wr \o pd
  BY <1>1, <1>2, <1>3 DEF ViewOf
<1>5. n \in Nat /\ m \in Nat /\ n >= 1 /\ Head(wr) = wr[1]
  BY <1>3
<1>6. Len(v) = n + m /\ \A i \in 1..(n + m) : v[i] = IF i <= n THEN wr[i] ELSE pd[i - n]
  BY <1>3, <1>4, ConcatProperties
<1>7. 1 \in 1..(n + m) /\ 1 <= n /\ n + m >= 1
  BY <1>5
<1> QED BY <1>3, <1>5, <1>6, <1>7

LEMMA OthersViews ==
  ASSUME LinkType, NEW s \in Sessions, UNCHANGED <<session, writing>>,
         NEW a, agent' = [agent EXCEPT ![s] = a], NEW w, wire' = [wire EXCEPT ![s] = w]
  PROVE  /\ \A t \in Sessions : t # s => Views'[t] = Views[t] /\ agent'[t] = agent[t]
         /\ Views'[s] = ViewOf(a, w, Pending(s)) /\ agent'[s] = a
<1>1. \A t \in Sessions : t # s => agent'[t] = agent[t] /\ wire'[t] = wire[t]
  BY DEF LinkType
<1>2. agent'[s] = a /\ wire'[s] = w
  BY DEF LinkType
<1>3. \A t \in Sessions : Pending(t)' = Pending(t)
  BY DEF Pending
<1> QED BY <1>1, <1>2, <1>3 DEF Views

LEMMA ReadHeaderStream ==
  ASSUME BaseInv, BaseInv', StreamInv, NEW s \in Sessions, ReadHeader(s)
  PROVE  StreamInv'
<1>1. PICK lab : StreamsAre(lab)
  BY DEF StreamInv
<1>2. PICK a, wr, pd : a = agent[s] /\ wr = wire[s] /\ pd = Pending(s)
  OBVIOUS
<1>3. /\ a \in AgentType /\ wr \in Seq(Pieces) /\ pd \in Seq(Pieces) /\ a.state = "header"
      /\ wr # <<>>
  BY <1>2, PendingType DEF BaseInv, LinkInv, LinkType, ReadHeader
<1>4. /\ wire' = [wire EXCEPT ![s] = Tail(wr)]
      /\ \E n \in IF Head(wr).kind = "header" THEN {Head(wr).n} ELSE 1..MaxFields :
           agent' = [agent EXCEPT ![s] = [state |-> "body", left |-> n, body |-> <<>>]]
      /\ UNCHANGED <<session, writing, sock, link, got, handed, write_msgs>>
  BY <1>2 DEF ReadHeader, client_vars
<1>5. Views[s] = ViewOf(a, wr, pd)
  BY <1>2 DEF Views
<1>6. PICK n : n \in Nat \ {0} /\ Head(wr) = Header(n)
  <2>1. Conveys(Views[s], got[s], lab[s], FieldsOf, Cursor)
    BY <1>1 DEF StreamsAre, Streams
  <2>2. Cursor \in Nat /\ Sizes(FieldsOf, Cursor)
    BY SizesKnown DEF BaseInv
  <2>3. Len(Views[s]) >= 1 /\ Views[s][1] = Head(wr)
    BY <1>3, <1>5, ViewFirst
  <2>4. PICK p \in 1..Cursor : FieldsOf[p] \in Nat \ {0} /\ Views[s][1] = Header(FieldsOf[p])
    <3>1. Begins(Views[s], lab[s][1].no, FieldsOf, Cursor)
      BY <2>1, <2>2, <2>3, FirstMessage
    <3> QED BY <3>1 DEF Begins
  <2> QED BY <2>3, <2>4
<1>7. Head(wr).kind = "header" /\ Head(wr).n = n
  BY <1>6, HeaderIsPiece
<1>8. PICK b : b = [state |-> "body", left |-> n, body |-> <<>>]
  OBVIOUS
<1>9. b \in AgentType /\ b.state = "body" /\ b.left = n /\ b.body = <<>>
  BY <1>6, <1>8 DEF AgentType
<1>10. agent' = [agent EXCEPT ![s] = b]
  BY <1>4, <1>7, <1>8
<1>11. ViewOf(b, Tail(wr), pd) = ViewOf(a, wr, pd)
  BY <1>3, <1>6, <1>9, ViewHeader
<1>12. /\ \A t \in Sessions : t # s => Views'[t] = Views[t] /\ agent'[t] = agent[t]
       /\ Views'[s] = ViewOf(b, Tail(wr), pd) /\ agent'[s] = b
  BY <1>2, <1>4, <1>10, OthersViews DEF BaseInv, LinkInv
<1>13. \A t \in Sessions : Views'[t] = Views[t]
  BY <1>5, <1>11, <1>12
<1>14. ReadsOn'
  <2>1. n >= 1
    BY <1>6
  <2> QED BY <1>9, <1>12, <2>1 DEF StreamInv, ReadsOn
<1>15. Writable' = Writable
  BY <1>4 DEF Writable, Up
<1>16. Cursor =< Cursor' /\ Knows(FieldsOf', FieldsOf, Cursor)
  BY <1>4, SameCursor
<1> QED BY <1>4, <1>13, <1>14, <1>15, <1>16, SameViews

LEMMA ReadBodyStream ==
  ASSUME BaseInv, BaseInv', StreamInv, NEW s \in Sessions, ReadBody(s), agent[s].left > 1
  PROVE  StreamInv'
<1>2. PICK a, wr, pd, y : /\ a = agent[s] /\ wr = wire[s] /\ pd = Pending(s)
                          /\ y = Append(a.body, Head(wr))
  OBVIOUS
<1>3. /\ a \in AgentType /\ wr \in Seq(Pieces) /\ pd \in Seq(Pieces) /\ a.state = "body"
      /\ wr # <<>> /\ a.left > 1
  BY <1>2, PendingType DEF BaseInv, LinkInv, LinkType, ReadBody
<1>4. /\ wire' = [wire EXCEPT ![s] = Tail(wr)]
      /\ agent' = [agent EXCEPT ![s].left = @ - 1, ![s].body = y]
      /\ UNCHANGED <<session, writing, sock, link, got, handed, write_msgs>>
  BY <1>2, <1>3 DEF ReadBody, client_vars
<1>5. Views[s] = ViewOf(a, wr, pd)
  BY <1>2 DEF Views
<1>6. a.left \in Nat /\ a.body \in Seq(Pieces) /\ a.left - 1 \in Nat /\ a.left >= 1 /\ a.left - 1 >= 1
  BY <1>3 DEF AgentType
<1>7. y \in Seq(Pieces)
  BY <1>2, <1>3, <1>6, MoveOne
<1>8. PICK b : b = [state |-> "body", left |-> a.left - 1, body |-> y]
  OBVIOUS
<1>9. b \in AgentType /\ b.state = "body" /\ b.left = a.left - 1 /\ b.body = y
  BY <1>6, <1>7, <1>8 DEF AgentType
<1>10. agent' = [agent EXCEPT ![s] = b]
  <2>1. [a EXCEPT !.left = @ - 1, !.body = y] = b
    <3>1. PICK e : e = [a EXCEPT !.left = @ - 1, !.body = y]
      OBVIOUS
    <3>2. e = [state |-> "body", left |-> a.left - 1, body |-> y]
      BY <1>3, <3>1 DEF AgentType
    <3> QED BY <1>8, <3>1, <3>2
  <2>2. agent \in [Sessions -> AgentType]
    BY DEF BaseInv, LinkInv, LinkType
  <2> QED BY <1>2, <1>4, <2>1, <2>2
<1>11. ViewOf(b, Tail(wr), pd) = ViewOf(a, wr, pd)
  <2>1. b.body = Append(a.body, Head(wr))
    BY <1>2, <1>9
  <2> QED BY <1>3, <1>6, <1>9, <2>1, ViewBody
<1>12. /\ \A t \in Sessions : t # s => Views'[t] = Views[t] /\ agent'[t] = agent[t]
       /\ Views'[s] = ViewOf(b, Tail(wr), pd) /\ agent'[s] = b
  BY <1>2, <1>4, <1>10, OthersViews DEF BaseInv, LinkInv
<1>13. \A t \in Sessions : Views'[t] = Views[t]
  BY <1>5, <1>11, <1>12
<1>14. ReadsOn'
  BY <1>6, <1>9, <1>12 DEF StreamInv, ReadsOn
<1>15. Writable' = Writable
  BY <1>4 DEF Writable, Up
<1>16. Cursor =< Cursor' /\ Knows(FieldsOf', FieldsOf, Cursor)
  BY <1>4, SameCursor
<1> QED BY <1>4, <1>13, <1>14, <1>15, <1>16, SameViews


LEMMA AgentEndsStream ==
  ASSUME BaseInv, BaseInv', StreamInv, NEW s \in Sessions, AgentEnds(s)
  PROVE  StreamInv'
<1>1. PICK lab : StreamsAre(lab)
  BY DEF StreamInv
<1>2. PICK b : b = [state |-> "gone", left |-> 0, body |-> <<>>]
  OBVIOUS
<1>3. b \in AgentType /\ b.state = "gone"
  BY <1>2 DEF AgentType
<1>4. /\ wire' = [wire EXCEPT ![s] = <<>>] /\ agent' = [agent EXCEPT ![s] = b]
      /\ link[s] = "broken"
      /\ UNCHANGED <<session, writing, sock, link, got, handed, write_msgs>>
  <2>1. [NewAgent EXCEPT !.state = "gone"] = b
    BY <1>2 DEF NewAgent
  <2> QED BY <2>1 DEF AgentEnds, client_vars
<1>5. s = session => ~Writable /\ writing = NULL
  BY <1>4 DEF BaseInv, LinkInv, SocketInv, Writable, Up
<1>6. Pending(s) = <<>>
  BY <1>5 DEF Pending
<1>7. /\ \A t \in Sessions : t # s => Views'[t] = Views[t] /\ agent'[t] = agent[t]
      /\ Views'[s] = ViewOf(b, <<>>, Pending(s)) /\ agent'[s] = b
  BY <1>4, OthersViews DEF BaseInv, LinkInv
<1>8. Views'[s] = <<>>
  BY <1>3, <1>6, <1>7, EmptyView
<1>9. \A t \in Sessions : Views'[t] \in Seq(Pieces) /\ Prefix(Views'[t], Views[t])
  <2>1. \A t \in Sessions : Views[t] \in Seq(Pieces)
    BY ViewsType DEF BaseInv, LinkInv
  <2>2. \A t \in Sessions : Prefix(Views[t], Views[t]) /\ Prefix(<<>>, Views[t])
    BY <2>1, ConcatPrefix
  <2>3. <<>> \in Seq(Pieces)
    OBVIOUS
  <2> QED BY <1>7, <1>8, <2>1, <2>2, <2>3
<1>10. Writable' => /\ Writable /\ session' = session /\ session \in Sessions
                    /\ Views'[session] = Views[session]
  <2>1. Writable' = Writable
    BY <1>4 DEF Writable, Up
  <2>2. Writable => session \in Sessions
    BY DEF BaseInv, LinkInv, SocketInv, Writable, Up
  <2> QED BY <1>4, <1>5, <1>7, <2>1, <2>2
<1>11. Cursor =< Cursor' /\ Knows(FieldsOf', FieldsOf, Cursor)
  BY <1>4, SameCursor
<1>12. StreamsAre(lab)'
  BY <1>1, <1>4, <1>9, <1>10, <1>11, KeepStreams DEF BaseInv
<1>13. ReadsOn'
  BY <1>3, <1>7 DEF StreamInv, ReadsOn
<1> QED BY <1>12, <1>13 DEF StreamInv

(* The last field of a message is read: what comes out is the message, and *)
(* what is left begins with the next one.                                  *)
LEMMA LastReadStream ==
  ASSUME BaseInv, BaseInv', StreamInv, NEW s \in Sessions, ReadBody(s), ~(agent[s].left > 1)
  PROVE  /\ StreamInv'
         /\ \E p \in 1..Cursor :
              /\ got' = [got EXCEPT ![s] = Append(@, p)]
              /\ \A k \in 1..Len(got[s]) : got[s][k] < p
              /\ \A t \in Sessions : t # s => \A k \in 1..Len(got[t]) : got[t][k] # p
<1>1. PICK lab : StreamsAre(lab)
  BY DEF StreamInv
<1>2. PICK a, wr, pd, y, n, F, c :
        /\ a = agent[s] /\ wr = wire[s] /\ pd = Pending(s) /\ y = Append(a.body, Head(wr))
        /\ n = Len(a.body) /\ F = FieldsOf /\ c = Cursor
  OBVIOUS
<1>3. /\ a \in AgentType /\ wr \in Seq(Pieces) /\ pd \in Seq(Pieces) /\ a.state = "body"
      /\ wr # <<>> /\ a.left = 1
  <2>1. /\ a \in AgentType /\ wr \in Seq(Pieces) /\ pd \in Seq(Pieces) /\ a.state = "body"
        /\ wr # <<>>
    BY <1>2, PendingType DEF BaseInv, LinkInv, LinkType, ReadBody
  <2>2. a.left \in Nat /\ a.left >= 1 /\ ~(a.left > 1)
    BY <1>2, <2>1 DEF AgentType, StreamInv, ReadsOn
  <2> QED BY <2>1, <2>2
<1>4. /\ wire' = [wire EXCEPT ![s] = Tail(wr)]
      /\ agent' = [agent EXCEPT ![s] = NewAgent]
      /\ got' = [got EXCEPT ![s] = Append(@, Decode(y, F))]
      /\ UNCHANGED <<session, writing, sock, link, handed, write_msgs>>
  BY <1>2 DEF ReadBody, client_vars
<1>5. NewAgent \in AgentType /\ NewAgent.state = "header"
  BY DEF NewAgent, AgentType
<1>6. PICK V, U, v, u, w : /\ V = Views /\ U = Views' /\ v = ViewOf(a, wr, pd)
                           /\ u = ViewOf(NewAgent, Tail(wr), pd) /\ w = got[s]
  OBVIOUS
<1>7. V[s] = v /\ U[s] = u /\ \A t \in Sessions : t # s => U[t] = V[t] /\ agent'[t] = agent[t]
  <2>1. /\ \A t \in Sessions : t # s => Views'[t] = Views[t] /\ agent'[t] = agent[t]
        /\ Views'[s] = ViewOf(NewAgent, Tail(wr), Pending(s)) /\ agent'[s] = NewAgent
    BY <1>4, OthersViews DEF BaseInv, LinkInv
  <2>2. Views[s] = ViewOf(a, wr, pd)
    BY <1>2 DEF Views
  <2> QED BY <1>2, <1>6, <2>1, <2>2
<1>8. /\ n \in Nat /\ u \in Seq(Pieces) /\ Len(v) = Len(u) + (n + 2)
      /\ Shifted(v, u, n + 2, Len(u)) /\ v[1] = Header(n + 1)
      /\ Len(y) = n + 1 /\ y \in Seq(Pieces)
      /\ \A k \in 1..(n + 1) : y[k] = v[k + 1]
  <2>1. LastRead(ViewOf(a, wr, pd), ViewOf(NewAgent, Tail(wr), pd), Append(a.body, Head(wr)), n)
    BY <1>2, <1>3, <1>5, ViewLast
  <2>2. LastRead(v, u, y, n)
    BY <1>2, <1>6, <2>1
  <2> QED BY <2>2 DEF LastRead
<1>9. c \in Nat /\ Sizes(F, c)
  BY <1>2, SizesKnown DEF BaseInv
<1>10. Streams(V, got, lab, F, c) /\ Conveys(v, w, lab[s], F, c)
  BY <1>1, <1>2, <1>6, <1>7 DEF StreamsAre, Streams
<1>11. Len(u) \in Nat /\ Len(v) >= 1 /\ Len(v) >= n + 2
  BY <1>8
<1>12. PICK p \in 1..c : /\ p = lab[s][1].no /\ F[p] \in Nat \ {0} /\ v[1] = Header(F[p])
                         /\ \A k \in 1..F[p] : k + 1 =< Len(v) => v[k + 1] = Field(p)
  <2>1. PICK l : l = lab[s]
    OBVIOUS
  <2>2. Conveys(v, w, l, F, c)
    BY <1>10, <2>1
  <2>3. Begins(v, l[1].no, F, c)
    BY <1>9, <1>11, <2>2, FirstMessage
  <2> QED BY <2>1, <2>3 DEF Begins
<1>13. F[p] = n + 1
  <2>1. n + 1 \in Nat
    BY <1>8
  <2>2. Header(F[p]).n = F[p] /\ Header(n + 1).n = n + 1
    BY <1>12, <2>1, HeaderIsPiece
  <2> QED BY <1>8, <1>12, <2>2
<1>14. \A k \in 1..(n + 1) : y[k] = Field(p)
  <2>1. \A k \in 1..(n + 1) : k + 1 =< Len(v)
    BY <1>8, <1>11
  <2> QED BY <1>8, <1>12, <1>13, <2>1
<1>15. Decode(y, F) = p
  <2>1. 1 \in 1..(n + 1) /\ y # <<>> /\ Head(y) = y[1]
    BY <1>8
  <2>2. Head(y) = Field(p) /\ Head(y).kind = "field" /\ Head(y).n = p
    BY <1>14, <2>1 DEF Field
  <2>3. Len(y) >= F[p] /\ \A k \in 1..F[p] : y[k] = Head(y)
    BY <1>8, <1>13, <1>14, <2>2
  <2> QED BY <2>1, <2>2, <2>3 DEF Decode
<1>16. got' = [got EXCEPT ![s] = Append(@, p)]
  BY <1>4, <1>15
<1>17. PICK d, h : d = n + 2 /\ h = got'
  OBVIOUS
<1>18. /\ d \in Nat \ {0} /\ d = F[p] + 1 /\ U[s] \in Seq(Pieces) /\ Len(V[s]) = Len(U[s]) + d
       /\ Shifted(V[s], U[s], d, Len(U[s])) /\ SameBut(s, U, V)
       /\ h[s] = Append(got[s], p) /\ SameBut(s, h, got)
  <2>1. d \in Nat \ {0} /\ d = F[p] + 1
    BY <1>8, <1>13, <1>17
  <2>2. got \in [Sessions -> Seq(Nat)]
    BY DEF BaseInv, LinkInv, LinkType
  <2>3. h[s] = Append(got[s], p) /\ SameBut(s, h, got)
    BY <1>16, <1>17, <2>2 DEF SameBut
  <2>4. SameBut(s, U, V)
    BY <1>7 DEF SameBut
  <2> QED BY <1>7, <1>8, <1>17, <2>1, <2>3, <2>4
<1>19a. Drops(V, U, got, h, lab, F, s, p, d)
  BY <1>12, <1>18 DEF Drops
<1>19. PICK lab2 : /\ Streams(U, h, lab2, F, c)
                   /\ Whole(Len(V[s]), lab[s], F) => Whole(Len(U[s]), lab2[s], F)
                   /\ SameBut(s, lab2, lab)
  BY <1>9, <1>10, <1>19a, StreamsDrop
<1>20. Writable' = Writable /\ session' = session /\ FieldsOf' = F /\ Cursor' = c
  BY <1>2, <1>4 DEF Writable, Up, FieldsOf, Cursor
<1>21. Writable => session \in Sessions
  BY DEF BaseInv, LinkInv, SocketInv, Writable, Up
<1>22. Writable => Whole(Len(U[session]), lab2[session], F)
  <2>1. Writable => Whole(Len(V[session]), lab[session], F)
    BY <1>1, <1>2, <1>6 DEF StreamsAre
  <2>2. session \in Sessions /\ session # s => U[session] = V[session] /\ lab2[session] = lab[session]
    BY <1>7, <1>19 DEF SameBut
  <2> QED BY <1>19, <1>21, <2>1, <2>2
<1>23. StreamsAre(lab2)'
  BY <1>6, <1>17, <1>19, <1>20, <1>22 DEF StreamsAre
<1>24. ReadsOn'
  <2>1. agent'[s] = NewAgent
    BY <1>4 DEF BaseInv, LinkInv, LinkType
  <2> QED BY <1>5, <1>7, <2>1 DEF StreamInv, ReadsOn
<1>25. p \in Numbers(v, w, lab[s])
  <2>1. 1 \in 1..Len(v)
    BY <1>11, <1>8
  <2> QED BY <1>12, <2>1 DEF Numbers
<1>26. \A k \in 1..Len(got[s]) : got[s][k] < p
  <2>1. 1 \in 1..Len(v)
    BY <1>11, <1>8
  <2> QED BY <1>6, <1>10, <1>12, <2>1 DEF Conveys
<1>27. ASSUME NEW t \in Sessions, t # s, NEW k \in 1..Len(got[t]) PROVE got[t][k] # p
  <2>1. Numbers(V[s], got[s], lab[s]) \cap Numbers(V[t], got[t], lab[t]) = {}
    BY <1>10, <1>27 DEF Streams
  <2>2. got[t][k] \in Numbers(V[t], got[t], lab[t])
    BY <1>27 DEF Numbers
  <2>3. p \in Numbers(V[s], got[s], lab[s])
    BY <1>6, <1>7, <1>25
  <2> QED BY <2>1, <2>2, <2>3
<1>28. StreamInv'
  BY <1>23, <1>24 DEF StreamInv
<1> QED BY <1>2, <1>16, <1>26, <1>27, <1>28


(* What do_write writes are the pieces of its message.                     *)
Spells(e, q, F) ==
  /\ e \in Seq(Pieces) /\ F[q] \in Nat /\ Len(e) = F[q] + 1
  /\ \A i \in 0..F[q] : e[i + 1] = PieceOf(q, i, F)

LEMMA EncodeView ==
  ASSUME NEW m \in MessageType, Well(m), NEW F, F[m.no] = m.fields
  PROVE  Spells(Encode(m), m.no, F)
<1>1. PICK f, q, h, x, e : /\ f = m.fields /\ q = m.no /\ h = Header(f) /\ e = Encode(m)
                           /\ x = [k \in 1..f |-> Field(q)]
  OBVIOUS
<1>2. f \in Nat /\ q \in Nat /\ m.sets = f
  BY <1>1 DEF Well, MessageType
<1>3. h \in Pieces /\ Field(q) \in Pieces
  BY <1>1, <1>2, HeaderIsPiece DEF Field, Pieces
<1>4. x \in Seq(Pieces) /\ Len(x) = f /\ \A k \in 1..f : x[k] = Field(q)
  BY <1>1, <1>2, <1>3
<1>5. <<h>> \in Seq(Pieces) /\ Len(<<h>>) = 1 /\ <<h>>[1] = h
  BY <1>3
<1>6. e = <<h>> \o x
  BY <1>1, <1>2 DEF Encode
<1>7. /\ e \in Seq(Pieces) /\ Len(e) = 1 + f
      /\ \A i \in 1..(1 + f) : e[i] = IF i <= 1 THEN <<h>>[i] ELSE x[i - 1]
  BY <1>4, <1>5, <1>6, ConcatProperties
<1>8. ASSUME NEW i \in 0..f PROVE e[i + 1] = PieceOf(q, i, F)
  <2>1. i + 1 \in 1..(1 + f)
    BY <1>2
  <2>2. CASE i = 0
    <3>1. e[i + 1] = h
      BY <1>5, <1>7, <2>1, <2>2
    <3> QED BY <1>1, <2>2, <3>1 DEF PieceOf
  <2>3. CASE i # 0
    <3>1. ~(i + 1 <= 1) /\ (i + 1) - 1 = i /\ i \in 1..f
      BY <1>2, <2>3
    <3>2. e[i + 1] = Field(q)
      BY <1>4, <1>7, <2>1, <3>1
    <3> QED BY <2>3, <3>2 DEF PieceOf
  <2> QED BY <2>2, <2>3
<1>9. Len(e) = f + 1
  BY <1>2, <1>7
<1> QED BY <1>1, <1>2, <1>7, <1>8, <1>9 DEF Spells

LEMMA ExtendView ==
  ASSUME NEW x \in Seq(Pieces), NEW e, NEW q, NEW F, Spells(e, q, F)
  PROVE  /\ x \o e \in Seq(Pieces) /\ Extended(x, x \o e, Len(x), q, F)
         /\ Len(x \o e) = (Len(x) + 1) + F[q]
<1>1. PICK n, f, z : n = Len(x) /\ f = F[q] /\ z = x \o e
  OBVIOUS
<1>2. /\ n \in Nat /\ f \in Nat /\ e \in Seq(Pieces) /\ Len(e) = f + 1
      /\ \A i \in 0..f : e[i + 1] = PieceOf(q, i, F)
  BY <1>1 DEF Spells
<1>3. /\ z \in Seq(Pieces) /\ Len(z) = n + (f + 1)
      /\ \A i \in 1..(n + (f + 1)) : z[i] = IF i <= n THEN x[i] ELSE e[i - n]
  <2>1. PICK l : l = Len(e)
    OBVIOUS
  <2>2. /\ z \in Seq(Pieces) /\ Len(z) = n + l
        /\ \A i \in 1..(n + l) : z[i] = IF i <= n THEN x[i] ELSE e[i - n]
    BY <1>1, <1>2, <2>1, ConcatProperties
  <2> QED BY <1>2, <2>1, <2>2
<1>4. ASSUME NEW k \in 1..n PROVE z[k] = x[k]
  <2>1. k \in 1..(n + (f + 1)) /\ k <= n
    BY <1>2
  <2> QED BY <1>3, <2>1
<1>5. ASSUME NEW i \in 0..f, NEW k \in Nat, IsAt(k, n, i) PROVE z[k] = PieceOf(q, i, F)
  <2>1. k = (n + 1) + i
    BY <1>5 DEF IsAt
  <2>2. k \in 1..(n + (f + 1)) /\ ~(k <= n) /\ k - n = i + 1
    BY <1>2, <2>1
  <2>3. z[k] = e[i + 1]
    BY <1>3, <2>2
  <2> QED BY <1>2, <2>3
<1>6. Extended(x, z, n, q, F)
  BY <1>1, <1>4, <1>5 DEF Extended
<1>7. n + (f + 1) = (n + 1) + f
  BY <1>2
<1> QED BY <1>1, <1>3, <1>6, <1>7

(* do_write begins with the next message.                                  *)
LEMMA WriteStream ==
  ASSUME BaseInv, BaseInv', StreamInv, Writable, writing = NULL,
         write_msgs' # <<>>, writing' = Encode(Head(write_msgs')), writing' # NULL,
         UNCHANGED <<session, sock, link, wire, agent, got>>,
         Knows(FieldsOf', FieldsOf, Cursor), Cursor' = Cursor + 1
  PROVE  StreamInv'
<1>1. PICK lab : StreamsAre(lab)
  BY DEF StreamInv
<1>2. PICK V, U, F, G, c, d, m, s :
        /\ V = Views /\ U = Views' /\ F = FieldsOf /\ G = FieldsOf' /\ c = Cursor /\ d = Cursor'
        /\ m = Head(write_msgs') /\ s = session
  OBVIOUS
<1>3. s \in Sessions /\ session' = s
  BY <1>2 DEF BaseInv, LinkInv, SocketInv, Writable, Up
<1>4. c \in Nat /\ Sizes(F, c) /\ d = c + 1 /\ d \in Nat
  BY <1>2, SizesKnown DEF BaseInv
<1>5. m \in MessageType /\ Well(m) /\ m.no = d /\ G[d] = m.fields /\ Sizes(G, d) /\ G[d] \in Nat
  <2>1. PICK h, p, w : h = handed' /\ p = posted' /\ w = write_msgs'
    OBVIOUS
  <2>2. Numbered(h, p, w)
    BY <2>1 DEF BaseInv, NumberedInv
  <2>3. d = CursorOf(h, w)
    BY <1>2, <2>1 DEF Cursor
  <2>4. w # <<>> /\ m = Head(w)
    BY <1>2, <2>1
  <2>5. d \in 1..Len(h) /\ m = h[d]
    BY <2>2, <2>3, <2>4, CursorView
  <2>6. \A k \in 1..Len(h) : h[k].no = k /\ Well(h[k]) /\ h[k] \in MessageType
    BY <2>2 DEF Numbered
  <2>7. G = [no \in 1..Len(h) |-> h[no].fields]
    BY <1>2, <2>1 DEF FieldsOf
  <2>8. \A k \in 1..d : k \in 1..Len(h)
    BY <1>4, <2>2, <2>5 DEF Numbered
  <2>9. Sizes(G, d)
    BY <2>6, <2>7, <2>8 DEF Sizes, Well
  <2> QED BY <2>5, <2>6, <2>7, <2>9 DEF Well
<1>6. Spells(Encode(m), d, G)
  BY <1>5, EncodeView
<1>7. PICK e : e = Encode(m)
  OBVIOUS
<1>8. PICK x : x = BegunOf(agent[s]) \o wire[s]
  OBVIOUS
<1>9. x \in Seq(Pieces)
  <2>1. agent[s] \in AgentType /\ wire[s] \in Seq(Pieces)
    BY <1>3 DEF BaseInv, LinkInv, LinkType
  <2>2. BegunOf(agent[s]) \in Seq(Pieces)
    BY <2>1, BegunType
  <2> QED BY <1>8, <2>1, <2>2, ConcatProperties
<1>10. V[s] = x
  <2>1. Pending(s) = <<>>
    BY DEF Pending
  <2>2. x \o <<>> = x
    BY <1>9, ConcatEmptySeq
  <2> QED BY <1>2, <1>3, <1>8, <2>1, <2>2 DEF Views, ViewOf
<1>11. U[s] = x \o e
  <2>1. Pending(s)' = e
    BY <1>2, <1>3, <1>7 DEF Pending
  <2> QED BY <1>2, <1>3, <1>8, <2>1 DEF Views, ViewOf
<1>12. SameBut(s, U, V)
  <2>1. \A t \in Sessions : t # s => Pending(t)' = <<>> /\ Pending(t) = <<>>
    BY <1>2, <1>3 DEF Pending
  <2> QED BY <1>2, <2>1 DEF Views, SameBut
<1>13. /\ U[s] \in Seq(Pieces) /\ Extended(V[s], U[s], Len(V[s]), d, G)
       /\ Len(U[s]) = (Len(V[s]) + 1) + G[d]
  BY <1>6, <1>7, <1>9, <1>10, <1>11, ExtendView
<1>14. Streams(V, got, lab, G, c)
  <2>1. Streams(V, got, lab, F, c) /\ Knows(G, F, c) /\ c =< c
    BY <1>1, <1>2, <1>4 DEF StreamsAre
  <2>2. \A t \in Sessions : V[t] \in Seq(Pieces) /\ Prefix(V[t], V[t])
    BY <1>2, ViewsType, ConcatPrefix DEF BaseInv, LinkInv
  <2> QED BY <1>4, <2>1, <2>2, StreamsShrink
<1>15. Whole(Len(V[s]), lab[s], G)
  <2>1. Whole(Len(V[s]), lab[s], F) /\ Knows(G, F, c) /\ Conveys(V[s], got[s], lab[s], F, c)
    BY <1>1, <1>2, <1>3 DEF StreamsAre, Streams
  <2>2. Len(V[s]) \in Nat /\ Fits(V[s], Len(V[s]), lab[s], F, c)
    BY <2>1 DEF Conveys
  <2> QED BY <2>1, <2>2, WholeKnows
<1>16. PICK lab2 : Streams(U, got, lab2, G, d) /\ Whole(Len(U[s]), lab2[s], G)
  <2>1. PICK g : g = got
    OBVIOUS
  <2>2. Appends(V, U, g, lab, G, s, c, d)
    BY <1>4, <1>5, <1>12, <1>13, <1>14, <1>15, <2>1 DEF Appends
  <2>3. \E lab2 : Streams(U, g, lab2, G, d) /\ Whole(Len(U[s]), lab2[s], G)
    BY <1>3, <1>4, <2>2, StreamsAppend, Zenon
  <2> QED BY <2>1, <2>3
<1>17. StreamsAre(lab2)'
  BY <1>2, <1>3, <1>16 DEF StreamsAre
<1>18. ReadsOn'
  BY DEF StreamInv, ReadsOn
<1> QED BY <1>17, <1>18 DEF StreamInv


(* do_write, whether it can write or not.                                  *)
LEMMA DoWriteStream ==
  ASSUME BaseInv, BaseInv', StreamInv, writing = NULL, write_msgs' # <<>>,
         NEW rest, DoWrite(write_msgs', rest),
         UNCHANGED <<session, sock, link, wire, agent, got>>,
         Knows(FieldsOf', FieldsOf, Cursor), Cursor' = Cursor + 1
  PROVE  StreamInv'
<1>1. CASE writing' = NULL
  <2>1. \A s \in Sessions : Pending(s)' = Pending(s)
    BY <1>1 DEF Pending
  <2>2. \A s \in Sessions : Views'[s] = Views[s]
    BY <2>1 DEF Views
  <2>3. ReadsOn'
    BY DEF StreamInv, ReadsOn
  <2>4. Cursor \in Nat
    BY SizesKnown DEF BaseInv
  <2>5. Cursor =< Cursor'
    BY <2>4
  <2>6. Writable' = Writable
    BY DEF Writable, Up
  <2> QED BY <2>2, <2>3, <2>5, <2>6, SameViews
<1>2. CASE writing' # NULL
  <2>1. Writable /\ writing' = Encode(Head(write_msgs'))
    BY <1>2 DEF DoWrite, Writable
  <2> QED BY <1>2, <2>1, WriteStream
<1> QED BY <1>1, <1>2

(* How far the writer is after deliver_message and after a write.          *)
LEMMA DeliverCursor ==
  ASSUME BaseInv, BaseInv', Deliver
  PROVE  /\ Knows(FieldsOf', FieldsOf, Cursor)
         /\ write_msgs = <<>> => Cursor' = Cursor + 1
         /\ write_msgs # <<>> => Cursor' = Cursor
<1>1. PICK h, w, n, k, h2, w2, p2, m, c, c2 :
        /\ h = handed /\ w = write_msgs /\ n = Len(h) /\ k = Len(w) /\ m = Head(posted)
        /\ h2 = handed' /\ w2 = write_msgs' /\ p2 = posted' /\ c = Cursor /\ c2 = Cursor'
  OBVIOUS
<1>2. Numbered(h, posted, w) /\ Numbered(h2, p2, w2)
  BY <1>1 DEF BaseInv, NumberedInv
<1>3. h2 = Append(h, m) /\ w2 = Append(w, m) /\ posted # <<>>
  BY <1>1 DEF Deliver
<1>4. h \in Seq(MessageType) /\ w \in Seq(MessageType) /\ m \in MessageType /\ n \in Nat /\ k \in Nat
  BY <1>1, <1>2, <1>3 DEF Numbered
<1>5. Len(h2) = n + 1 /\ \A i \in 1..n : h2[i] = h[i]
  BY <1>1, <1>3, <1>4, AppendView
<1>6. Len(w2) = k + 1 /\ w2 # <<>>
  <2>1. Len(w2) = k + 1
    BY <1>1, <1>3, <1>4, AppendView
  <2> QED BY <1>4, <2>1
<1>7. c = CursorOf(h, w) /\ c2 = CursorOf(h2, w2)
  BY <1>1 DEF Cursor
<1>8. c \in 0..n /\ c = n - k + (IF w = <<>> THEN 0 ELSE 1)
  BY <1>1, <1>2, <1>7, CursorView
<1>9. c2 = (n + 1) - (k + 1) + 1
  <2>1. c2 = Len(h2) - Len(w2) + (IF w2 = <<>> THEN 0 ELSE 1)
    BY <1>2, <1>7, CursorView
  <2> QED BY <1>5, <1>6, <2>1
<1>10. w = <<>> => c2 = c + 1
  <2>1. w = <<>> => k = 0
    BY <1>1
  <2> QED BY <1>4, <1>8, <1>9, <2>1
<1>11. w # <<>> => c2 = c
  BY <1>4, <1>8, <1>9
<1>12. Knows(FieldsOf', FieldsOf, c)
  <2>1. \A i \in 1..c : i \in 1..n /\ i \in 1..(n + 1)
    BY <1>4, <1>8
  <2>2. FieldsOf = [no \in 1..n |-> h[no].fields] /\ FieldsOf' = [no \in 1..(n + 1) |-> h2[no].fields]
    BY <1>1, <1>5 DEF FieldsOf
  <2> QED BY <1>5, <2>1, <2>2 DEF Knows
<1> QED BY <1>1, <1>10, <1>11, <1>12

LEMMA WrittenCursor ==
  ASSUME BaseInv, BaseInv', HandleWritten
  PROVE  /\ FieldsOf' = FieldsOf /\ writing = NULL
         /\ write_msgs' = <<>> => Cursor' = Cursor
         /\ write_msgs' # <<>> => Cursor' = Cursor + 1
<1>1. PICK h, w, n, k, w2, c, c2 :
        /\ h = handed /\ w = write_msgs /\ n = Len(h) /\ k = Len(w)
        /\ w2 = write_msgs' /\ c = Cursor /\ c2 = Cursor'
  OBVIOUS
<1>2. w # <<>> /\ w2 = Tail(w) /\ writing = NULL /\ handed' = h /\ posted' = posted
  BY <1>1, WrittenHasMessage DEF BaseInv, HandleWritten
<1>3. Numbered(h, posted, w) /\ Numbered(h, posted, w2)
  BY <1>1, <1>2 DEF BaseInv, NumberedInv
<1>4. w \in Seq(MessageType) /\ n \in Nat /\ k \in Nat
  BY <1>1, <1>3 DEF Numbered
<1>5. Len(w2) = k - 1 /\ k >= 1 /\ (w2 = <<>> => k = 1)
  <2>1. w2 \in Seq(MessageType) /\ Len(w2) = k - 1 /\ k >= 1
    BY <1>1, <1>2, <1>4
  <2>2. w2 = <<>> => Len(w2) = 0
    OBVIOUS
  <2> QED BY <1>4, <2>1, <2>2
<1>6. c = CursorOf(h, w) /\ c2 = CursorOf(h, w2)
  BY <1>1, <1>2 DEF Cursor
<1>7. c = n - k + (IF w = <<>> THEN 0 ELSE 1)
  BY <1>1, <1>3, <1>6, CursorView
<1>8. c2 = n - Len(w2) + (IF w2 = <<>> THEN 0 ELSE 1)
  BY <1>1, <1>3, <1>6, CursorView
<1>9. w2 = <<>> => c2 = c
  BY <1>2, <1>4, <1>5, <1>7, <1>8
<1>10. w2 # <<>> => c2 = c + 1
  BY <1>2, <1>4, <1>5, <1>7, <1>8
<1>11. FieldsOf' = FieldsOf
  BY <1>1, <1>2 DEF FieldsOf
<1> QED BY <1>1, <1>2, <1>9, <1>10, <1>11


(* Nothing is moved.                                                       *)
LEMMA IdleStream ==
  ASSUME BaseInv, BaseInv', StreamInv,
         UNCHANGED <<session, writing, wire, agent, got, handed, write_msgs>>, Writable' => Writable
  PROVE  StreamInv'
<1>1. \A s \in Sessions : Pending(s)' = Pending(s)
  BY DEF Pending
<1>2. \A s \in Sessions : Views'[s] = Views[s]
  BY <1>1 DEF Views
<1>3. ReadsOn'
  BY DEF StreamInv, ReadsOn
<1> QED BY <1>2, <1>3, SameCursor, SameViews

LEMMA WriteSomeStream ==
  ASSUME BaseInv, BaseInv', StreamInv, WriteSome
  PROVE  StreamInv'
<1>1. /\ Up /\ writing # NULL
      /\ wire' = [wire EXCEPT ![session] = Append(@, Head(writing))]
      /\ IF Tail(writing) = <<>> THEN writing' = NULL ELSE writing' = Tail(writing)
      /\ UNCHANGED <<session, sock, link, agent, got, handed, write_msgs>>
  BY DEF WriteSome, agent_vars
<1>2. PICK s, pd : s = session /\ pd = writing
  OBVIOUS
<1>3. s \in Sessions /\ pd \in Seq(Pieces) /\ pd # <<>> /\ session' = s
  BY <1>1, <1>2 DEF BaseInv, LinkInv, SocketInv, Up, WriterInv, WriterType
<1>4. Pending(s) = pd
  BY <1>1, <1>2 DEF Pending
<1>5. Pending(s)' = Tail(pd)
  <2>1. Tail(pd) \in Seq(Pieces)
    BY <1>3, HeadFirst
  <2>2. Tail(pd) # NULL
    BY <2>1, LinkAssumption
  <2> QED BY <1>1, <1>2, <1>3, <2>2 DEF Pending
<1>6. \A t \in Sessions : t # s => Pending(t)' = Pending(t)
  BY <1>2, <1>3 DEF Pending
<1>7. /\ agent' = agent /\ agent[s] \in AgentType /\ wire[s] \in Seq(Pieces)
      /\ wire'[s] = Append(wire[s], Head(pd)) /\ \A t \in Sessions : t # s => wire'[t] = wire[t]
  BY <1>1, <1>2, <1>3 DEF BaseInv, LinkInv, LinkType
<1>8. ViewOf(agent[s], Append(wire[s], Head(pd)), Tail(pd)) = ViewOf(agent[s], wire[s], pd)
  BY <1>3, <1>7, ViewWrite
<1>9. Views'[s] = Views[s]
  <2>1. Views[s] = ViewOf(agent[s], wire[s], pd)
    BY <1>3, <1>4 DEF Views
  <2>2. Views'[s] = ViewOf(agent[s], Append(wire[s], Head(pd)), Tail(pd))
    BY <1>3, <1>5, <1>7 DEF Views
  <2> QED BY <1>8, <2>1, <2>2
<1>10. \A t \in Sessions : Views'[t] = Views[t]
  <2>1. \A t \in Sessions : t # s => Views'[t] = Views[t]
    BY <1>6, <1>7 DEF Views
  <2> QED BY <1>9, <2>1
<1>11. ReadsOn'
  BY <1>1 DEF StreamInv, ReadsOn
<1>12. Writable' = Writable
  BY <1>1 DEF Writable, Up
<1> QED BY <1>1, <1>10, <1>11, <1>12, SameCursor, SameViews

LEMMA NextStream ==
  ASSUME BaseInv, BaseInv', StreamInv, [Next]_vars
  PROVE  StreamInv'
<1>1. CASE Connect
  <2>1. /\ session' = session + 1 /\ session < MaxSessions /\ writing' = NULL
        /\ UNCHANGED <<wire, agent, got, handed, write_msgs>>
    BY <1>1 DEF Connect, agent_vars
  <2>2. session \in Nat /\ MaxSessions \in Nat
    BY LinkAssumption DEF BaseInv, LinkInv, LinkType
  <2>3. session' \in Sessions /\ session' > session
    BY <2>1, <2>2 DEF Sessions
  <2>4. link[session'] = "none"
    BY <2>3 DEF BaseInv, LinkInv, SocketInv
  <2>5. wire[session'] = <<>> /\ agent[session'].state = "header"
    BY <2>3, <2>4 DEF BaseInv, LinkInv, SocketInv
  <2> QED BY <2>1, <2>3, <2>5, CloseStream
<1>2. CASE Disconnect
  <2>1. ~Writable'
    BY <1>2 DEF Disconnect, Writable, Up
  <2> QED BY <1>2, <2>1, CloseStream DEF Disconnect, agent_vars
<1>3. CASE ConnectFails
  <2>1. ~Writable'
    BY <1>3 DEF ConnectFails, Writable, Up
  <2> QED BY <1>3, <2>1, CloseStream DEF ConnectFails, agent_vars
<1>4. CASE Break
  <2>1. session \in Sessions
    BY <1>4 DEF Break, Up, BaseInv, LinkInv, SocketInv
  <2>2. ~Writable'
    BY <1>4, <2>1 DEF Break, Writable, Up, BaseInv, LinkInv, LinkType
  <2> QED BY <1>4, <2>2, CloseStream DEF Break, agent_vars
<1>5. CASE Connected
  BY <1>5, IdleStream DEF Connected, Writable, agent_vars
<1>6. CASE Arrive
  BY <1>6, IdleStream DEF Arrive, Writable, Up, agent_vars
<1>7. ASSUME NEW fields, NEW twice, Post(fields, twice) PROVE StreamInv'
  BY <1>7, IdleStream DEF Post, Writable, Up, agent_vars
<1>8. CASE Deliver
  <2>1. /\ write_msgs' = Append(write_msgs, Head(posted)) /\ posted # <<>>
        /\ UNCHANGED <<session, sock, link, wire, agent, got>>
    BY <1>8 DEF Deliver, agent_vars
  <2>2. write_msgs' # <<>>
    <3>1. write_msgs \in Seq(MessageType) /\ Head(posted) \in MessageType
      BY <2>1 DEF BaseInv, WriterInv, WriterType
    <3>2. PICK q, h : q = write_msgs /\ h = Head(posted)
      OBVIOUS
    <3>3. PICK r : r = Append(q, h)
      OBVIOUS
    <3>4. Len(r) = Len(q) + 1 /\ Len(q) \in Nat
      BY <3>1, <3>2, <3>3, AppendView
    <3>5. r # <<>>
      BY <3>4
    <3> QED BY <2>1, <3>2, <3>3, <3>5
  <2>3. CASE write_msgs = <<>>
    <3>1. writing = NULL
      BY <2>3 DEF BaseInv, WriterInv, WriteHasMessage
    <3>2. DoWrite(write_msgs', ready)
      BY <1>8, <2>3 DEF Deliver
    <3> QED BY <1>8, <2>1, <2>2, <2>3, <3>1, <3>2, DeliverCursor, DoWriteStream
  <2>4. CASE write_msgs # <<>>
    <3>1. writing' = writing
      BY <1>8, <2>4 DEF Deliver
    <3>2. \A s \in Sessions : Pending(s)' = Pending(s)
      BY <2>1, <3>1 DEF Pending
    <3>3. \A s \in Sessions : Views'[s] = Views[s]
      BY <2>1, <3>2 DEF Views
    <3>4. ReadsOn' /\ Writable' = Writable
      BY <2>1 DEF StreamInv, ReadsOn, Writable, Up
    <3>5. Cursor =< Cursor'
      <4>1. Cursor \in Nat
        BY SizesKnown DEF BaseInv
      <4> QED BY <1>8, <2>4, <4>1, DeliverCursor
    <3> QED BY <1>8, <2>1, <3>3, <3>4, <3>5, DeliverCursor, SameViews
  <2> QED BY <2>3, <2>4
<1>9. CASE WriteSome
  BY <1>9, WriteSomeStream
<1>10. CASE HandleFailure
  BY <1>10, IdleStream DEF HandleFailure, Writable, Up, agent_vars
<1>11. CASE HandleWritten
  <2>1. UNCHANGED <<session, sock, link, wire, agent, got, handed>>
    BY <1>11 DEF HandleWritten, agent_vars
  <2>2. writing = NULL /\ Knows(FieldsOf', FieldsOf, Cursor)
    BY <1>11, WrittenCursor DEF Knows
  <2>3. CASE write_msgs' = <<>>
    <3>1. writing' = writing
      BY <1>11, <2>3 DEF HandleWritten
    <3>2. \A s \in Sessions : Pending(s)' = Pending(s)
      BY <2>1, <3>1 DEF Pending
    <3>3. \A s \in Sessions : Views'[s] = Views[s]
      BY <2>1, <3>2 DEF Views
    <3>4. ReadsOn' /\ Writable' = Writable
      BY <2>1 DEF StreamInv, ReadsOn, Writable, Up
    <3>5. Cursor =< Cursor'
      <4>1. Cursor \in Nat
        BY SizesKnown DEF BaseInv
      <4> QED BY <1>11, <2>3, <4>1, WrittenCursor
    <3> QED BY <2>1, <2>2, <3>3, <3>4, <3>5, SameViews
  <2>4. CASE write_msgs' # <<>>
    <3>1. DoWrite(write_msgs', Tail(ready))
      BY <1>11, <2>4 DEF HandleWritten
    <3> QED BY <1>11, <2>1, <2>2, <2>4, <3>1, WrittenCursor, DoWriteStream
  <2> QED BY <2>3, <2>4
<1>12. ASSUME NEW s \in Sessions, ReadHeader(s) \/ ReadBody(s) \/ AgentEnds(s)
       PROVE  StreamInv'
  BY <1>12, ReadHeaderStream, ReadBodyStream, LastReadStream, AgentEndsStream
<1>13. CASE UNCHANGED vars
  BY <1>13, IdleStream DEF vars, client_vars, agent_vars, Writable, Up
<1>14. CASE Client
  BY <1>1, <1>2, <1>3, <1>4, <1>5, <1>6, <1>7, <1>8, <1>9, <1>10, <1>11, <1>14 DEF Client
<1> QED BY <1>12, <1>13, <1>14 DEF Next


-----------------------------------------------------------------------------
(* The refinement: deliver_message is Send, the last read of a message is  *)
(* Receive, and everything else is hidden.                                 *)
Sent == [k \in DOMAIN handed |-> handed[k].no]

LEMMA SentView ==
  ASSUME NumberedInv
  PROVE  Len(handed) \in Nat /\ Sent = [k \in 1..Len(handed) |-> k] /\ Len(Sent) = Len(handed)
<1>1. PICK n : n = Len(handed)
  OBVIOUS
<1>2. n \in Nat /\ DOMAIN handed = 1..n /\ \A k \in 1..n : handed[k].no = k
  BY <1>1 DEF NumberedInv, Numbered
<1>3. Sent = [k \in 1..n |-> k]
  BY <1>2 DEF Sent
<1>4. Len([k \in 1..n |-> k]) = n
  BY <1>2
<1> QED BY <1>1, <1>2, <1>3, <1>4

LEMMA InitChannel == Init => AsChannel!Init
BY DEF Init, AsChannel!Init

LEMMA DeliverSends ==
  ASSUME BaseInv, BaseInv', Deliver
  PROVE  AsChannel!Next
<1>1. PICK n, m : n = Len(handed) /\ m = Head(posted)
  OBVIOUS
<1>2. handed' = Append(handed, m) /\ got' = got /\ posted # <<>>
  BY <1>1 DEF Deliver, agent_vars
<1>3. /\ n \in Nat /\ Sent = [k \in 1..n |-> k]
  BY <1>1, SentView DEF BaseInv
<1>4. handed \in Seq(MessageType) /\ m \in MessageType
  BY <1>1, <1>2 DEF BaseInv, WriterInv, WriterType
<1>5. Len(handed') = n + 1
  BY <1>1, <1>2, <1>4, AppendView
<1>6. n + 1 \in 1..MaxMsgs /\ Sent' = [k \in 1..(n + 1) |-> k]
  <2>1. PICK h, p, w : h = handed' /\ p = posted' /\ w = write_msgs'
    OBVIOUS
  <2>2. Numbered(h, p, w)
    BY <2>1 DEF BaseInv, NumberedInv
  <2>3. Len(h) = n + 1
    BY <1>5, <2>1
  <2>4. n + 1 \in 1..MaxMsgs
    <3>1. Len(p) \in Nat /\ Len(p) + Len(h) =< MaxMsgs /\ MaxMsgs \in Nat
      BY <2>2, LinkAssumption DEF Numbered
    <3> QED BY <1>3, <2>3, <3>1
  <2>5. DOMAIN h = 1..(n + 1) /\ \A k \in 1..(n + 1) : h[k].no = k
    BY <2>2, <2>3 DEF Numbered
  <2>6. Sent' = [k \in DOMAIN h |-> h[k].no]
    BY <2>1 DEF Sent
  <2> QED BY <2>4, <2>5, <2>6
<1>7. Sent' = Append(Sent, n + 1)
  <2>1. PICK x, y : x = [k \in 1..n |-> k] /\ y = [k \in 1..(n + 1) |-> k]
    OBVIOUS
  <2>2. x \in Seq(Nat) /\ Len(x) = n /\ y \in Seq(Nat) /\ Len(y) = n + 1
    BY <1>3, <2>1
  <2>3. PICK z : z = Append(x, n + 1)
    OBVIOUS
  <2>4. /\ z \in Seq(Nat) /\ Len(z) = n + 1 /\ z[n + 1] = n + 1
        /\ \A k \in 1..n : z[k] = x[k]
    <3>1. n + 1 \in Nat
      BY <1>3
    <3> QED BY <2>2, <2>3, <3>1, AppendView
  <2>5. ASSUME NEW k \in 1..(n + 1) PROVE z[k] = y[k]
    <3>1. k \in 1..n \/ k = n + 1
      BY <1>3
    <3> QED BY <2>1, <2>4, <3>1
  <2>6. z = y
    BY <2>2, <2>4, <2>5, SeqEqual
  <2> QED BY <1>3, <1>6, <2>1, <2>3, <2>6
<1>8. n + 1 \notin ToSet(Sent)
  BY <1>3 DEF ToSet
<1>9. AsChannel!Send(n + 1)
  BY <1>2, <1>7, <1>8 DEF AsChannel!Send, AsChannel!ToSet, ToSet, Sent
<1> QED BY <1>6, <1>9 DEF AsChannel!Next

LEMMA LastReadReceives ==
  ASSUME BaseInv, BaseInv', StreamInv, NEW s \in Sessions, ReadBody(s), ~(agent[s].left > 1)
  PROVE  AsChannel!Next
<1>1. PICK p \in 1..Cursor :
        /\ got' = [got EXCEPT ![s] = Append(@, p)]
        /\ \A k \in 1..Len(got[s]) : got[s][k] < p
        /\ \A t \in Sessions : t # s => \A k \in 1..Len(got[t]) : got[t][k] # p
  BY LastReadStream
<1>2. PICK n : n = Len(handed)
  OBVIOUS
<1>3. n \in Nat /\ Sent = [k \in 1..n |-> k] /\ Len(Sent) = n
  BY <1>2, SentView DEF BaseInv
<1>4. p \in 1..n
  BY <1>1, <1>2, SizesKnown DEF BaseInv
<1>5. Sent[p] = p /\ p \in DOMAIN Sent
  BY <1>3, <1>4
<1>6. Sent' = Sent
  BY DEF ReadBody, client_vars, Sent
<1>7. \A t \in Sessions : DOMAIN got[t] = 1..Len(got[t]) /\ got[t] \in Seq(Nat)
  BY DEF BaseInv, LinkInv, LinkType
<1>8. \A t \in Sessions : p \notin ToSet(got[t])
  <2>1. p \notin ToSet(got[s])
    <3>1. \A k \in 1..Len(got[s]) : got[s][k] \in Nat /\ got[s][k] # p
      BY <1>1, <1>4, <1>7
    <3> QED BY <1>7, <3>1 DEF ToSet
  <2>2. \A t \in Sessions : t # s => p \notin ToSet(got[t])
    BY <1>1, <1>7 DEF ToSet
  <2> QED BY <2>1, <2>2
<1>9. ASSUME NEW j \in p..n PROVE Sent[j] \notin ToSet(got[s])
  <2>1. j \in 1..n /\ Sent[j] = j
    BY <1>3, <1>4
  <2>2. \A k \in 1..Len(got[s]) : got[s][k] \in Nat /\ got[s][k] # j
    BY <1>1, <1>4, <1>7
  <2> QED BY <1>7, <2>1, <2>2 DEF ToSet
<1>10. got' = [got EXCEPT ![s] = Append(@, Sent[p])]
  BY <1>1, <1>5
<1>11. p \notin AsChannel!Received
  BY <1>8 DEF AsChannel!Received, AsChannel!ToSet, ToSet
<1>12. AsChannel!Receive(s, p)
  BY <1>3, <1>5, <1>6, <1>9, <1>10, <1>11 DEF AsChannel!Receive, AsChannel!ToSet, ToSet, Sent
<1> QED BY <1>5, <1>12 DEF AsChannel!Next, Sent

LEMMA NextChannel ==
  ASSUME BaseInv, BaseInv', StreamInv, [Next]_vars
  PROVE  AsChannel!Next \/ UNCHANGED <<Sent, got>>
<1>0. ASSUME UNCHANGED <<handed, got>> PROVE UNCHANGED <<Sent, got>>
  BY <1>0 DEF Sent
<1>1. CASE Deliver
  BY <1>1, DeliverSends
<1>2. ASSUME NEW s \in Sessions, ReadHeader(s) \/ ReadBody(s) \/ AgentEnds(s)
      PROVE  AsChannel!Next \/ UNCHANGED <<Sent, got>>
  <2>1. CASE ReadBody(s) /\ ~(agent[s].left > 1)
    BY <2>1, LastReadReceives
  <2>2. CASE ReadBody(s) /\ agent[s].left > 1
    BY <1>0, <2>2 DEF ReadBody, client_vars
  <2>3. CASE ReadHeader(s) \/ AgentEnds(s)
    BY <1>0, <2>3 DEF ReadHeader, AgentEnds, client_vars
  <2> QED BY <1>2, <2>1, <2>2, <2>3
<1>3. ASSUME NEW fields, NEW twice, Post(fields, twice) PROVE UNCHANGED <<Sent, got>>
  BY <1>0, <1>3 DEF Post, agent_vars
<1>4. CASE \/ Connect \/ Disconnect \/ Connected \/ ConnectFails \/ Break \/ Arrive
           \/ WriteSome \/ HandleFailure \/ HandleWritten
  BY <1>0, <1>4 DEF Connect, Disconnect, Connected, ConnectFails, Break, Arrive, WriteSome,
     HandleFailure, HandleWritten, agent_vars
<1>5. CASE UNCHANGED vars
  BY <1>0, <1>5 DEF vars, client_vars, agent_vars
<1>6. CASE Client
  BY <1>1, <1>3, <1>4, <1>6 DEF Client
<1> QED BY <1>2, <1>5, <1>6 DEF Next


LinkStreams == BaseInv /\ StreamInv

LEMMA InitStreams == Init => LinkStreams
BY InitWriter, InitNumbered, InitLink, InitStream DEF LinkStreams, BaseInv

LEMMA NextStreams ==
  ASSUME ~Repeats
  PROVE  LinkStreams /\ [Next]_vars
           => LinkStreams' /\ [AsChannel!Next]_<<[k \in DOMAIN handed |-> handed[k].no], got>>
<1> SUFFICES ASSUME LinkStreams, [Next]_vars
             PROVE  LinkStreams' /\ [AsChannel!Next]_<<[k \in DOMAIN handed |-> handed[k].no], got>>
  OBVIOUS
<1>1. BaseInv'
  BY NextWriter, NextNumbered, NextLink DEF LinkStreams, BaseInv
<1>2. StreamInv'
  BY <1>1, NextStream DEF LinkStreams
<1>3. AsChannel!Next \/ UNCHANGED <<Sent, got>>
  BY <1>1, NextChannel DEF LinkStreams
<1> QED BY <1>1, <1>2, <1>3 DEF LinkStreams, Sent

(* When no message has set_value called twice for a key, the               *)
(* MessageHandlers implement Channel: on each connection the messages come *)
(* out whole, in order and at most once, and none on two connections,      *)
(* however many messages and connections there are, however long the       *)
(* messages are, and wherever in a message the connection is lost and the  *)
(* next one begun.                                                         *)
THEOREM ImplementsChannelAlways ==
  ASSUME ~Repeats
  PROVE  Spec => ImplementsChannel
<1>1. Init => AsChannel!Init
  BY InitChannel
<1>2. Init => LinkStreams
  BY InitStreams
<1>3. LinkStreams /\ [Next]_vars
        => LinkStreams' /\ [AsChannel!Next]_<<[k \in DOMAIN handed |-> handed[k].no], got>>
  BY NextStreams
<1> QED BY <1>1, <1>2, <1>3, PTL DEF Spec, ImplementsChannel, AsChannel!Spec

(* Then the reader of a connection never loses step either: what it takes  *)
(* for a message is one. The run MCMessageLink_length shows that the       *)
(* hypothesis is needed, since a second set_value for a key makes the      *)
(* header claim more than the body has.                                    *)
THEOREM InStepAlways ==
  ASSUME ~Repeats
  PROVE  Spec => []InStep
<1>1. LinkStreams => InStep
  <2> SUFFICES ASSUME LinkStreams, NEW s \in Sessions PROVE 0 \notin ToSet(got[s])
    BY DEF InStep
  <2>1. PICK lab : StreamsAre(lab)
    BY DEF LinkStreams, StreamInv
  <2>2. Conveys(Views[s], got[s], lab[s], FieldsOf, Cursor)
    BY <2>1 DEF StreamsAre, Streams
  <2>3. got[s] \in Seq(Nat) /\ \A k \in 1..Len(got[s]) : got[s][k] \in 1..Cursor
    BY <2>2 DEF Conveys
  <2>4. \A k \in DOMAIN got[s] : got[s][k] # 0
    BY <2>3
  <2> QED BY <2>4 DEF ToSet
<1> QED BY <1>1, InitStreams, NextStreams, PTL DEF Spec
=============================================================================
