---------------------- MODULE ObjectReplicationProofs ----------------------
(***************************************************************************)
(* Proofs about ObjectReplication, for any number of connections, objects, *)
(* requests and messages under way.                                        *)
(*                                                                         *)
(* The first part is about what a stream of announcements does to the      *)
(* replica that it is applied to. A stream s fits a replica R when every   *)
(* creation in it is of an object that is neither in R nor created twice,  *)
(* every change follows the creation of its object, unless that is in O,   *)
(* and nothing but replies follows a deletion; O stands for the Sequences  *)
(* that are never announced. Such a stream makes the client take its       *)
(* connection for lost only by a change of an object in O, and what the    *)
(* client has in the end can be read off s and R: Outcome(s, R). Receiving *)
(* the first message keeps both, and so does what the server appends as    *)
(* long as Outcome(s, R) is the set of its objects but for some of O.      *)
(***************************************************************************)
EXTENDS ObjectReplication, TLAPS, FiniteSetTheorems
INSTANCE ListLemmas WITH Op <- Append

Message == [type : {"create", "update", "delete", "reply"}, id : Nat]

(* s can be applied to R without an exception.                             *)
CreatesNew(s, R) ==
  \A k \in 1..Len(s) : s[k].type = "create" => s[k].id \notin R

CreatesOnce(s) ==
  \A j, k \in 1..Len(s) :
    j < k /\ s[j].type = "create" /\ s[k].type = "create" => s[j].id # s[k].id

UpdatesKnown(s, R, O) ==
  \A k \in 1..Len(s) : s[k].type = "update" =>
    \/ s[k].id \in R \cup O
    \/ \E j \in 1..Len(s) : j < k /\ s[j].type = "create" /\ s[j].id = s[k].id

DeletesLast(s) ==
  \A j, k \in 1..Len(s) :
    j < k /\ s[j].type = "delete" /\ s[k].type # "reply" => s[k].id # s[j].id

Fits(s, R, O) ==
  CreatesNew(s, R) /\ CreatesOnce(s) /\ UpdatesKnown(s, R, O) /\ DeletesLast(s)

(* What becomes of R when all of s has been applied to it.                 *)
Outcome(s, R) ==
  {id \in Ids : /\ id \in R \/ \E k \in 1..Len(s) : s[k] = Msg("create", id)
                /\ \A k \in 1..Len(s) : s[k] # Msg("delete", id)}

(* Ids are given out upwards, and nobody knows one that was not.           *)
IdsInv ==
  /\ last_obj_id \in Nat /\ last_obj_id =< MaxId
  /\ objects \subseteq 0..last_obj_id
  /\ down \in [Conns -> Seq(Message)]
  /\ replica \in [Conns -> SUBSET (0..last_obj_id)]
  /\ \A c \in Conns : \A k \in 1..Len(down[c]) : down[c][k].id =< last_obj_id

PhaseInv ==
  /\ agents \subseteq Conns
  /\ phase \in [Conns -> {"none", "open", "closed"}]
  /\ told \in [Conns -> BOOLEAN]
  /\ \A c \in Conns : phase[c] = "none" => replica[c] = {} /\ down[c] = <<>>

(* Nothing in Q is missing from P but what is in O, and there is nothing   *)
(* else in P.                                                              *)
Follows(P, Q, O) == P \subseteq Q /\ Q \ P \subseteq O

DeletedGone(s, Q) == \A k \in 1..Len(s) : s[k].type = "delete" => s[k].id \notin Q

StreamInv(c) ==
  /\ DeletedGone(down[c], objects)
  /\ phase[c] = "open" /\ ~told[c] => Fits(down[c], replica[c], orphans)
  /\ phase[c] = "open" /\ ~told[c] /\ c \in agents =>
       Follows(Outcome(down[c], replica[c]), objects, orphans)

FollowInv == IdsInv /\ PhaseInv /\ \A c \in Conns : StreamInv(c)

-----------------------------------------------------------------------------
LEMMA MsgFields ==
  ASSUME NEW type, NEW id
  PROVE  Msg(type, id).type = type /\ Msg(type, id).id = id
BY DEF Msg

LEMMA MsgTyped ==
  ASSUME NEW type \in {"create", "update", "delete", "reply"}, NEW id \in Nat
  PROVE  Msg(type, id) \in Message
BY DEF Msg, Message

(* A message is known by its type and its id.                              *)
LEMMA MessageIs ==
  ASSUME NEW m \in Message, NEW type, NEW id
  PROVE  m = Msg(type, id) <=> m.type = type /\ m.id = id
BY DEF Msg, Message

(* What is left of a stream fits what its first message made of the        *)
(* replica.                                                                *)
Applied(m, R) ==
  CASE m.type = "create" -> R \cup {m.id}
    [] m.type = "delete" -> R \ {m.id}
    [] OTHER -> R

LEMMA FitsTail ==
  ASSUME NEW s \in Seq(Message), s # <<>>, NEW R, NEW O, Fits(s, R, O)
  PROVE  Fits(Tail(s), Applied(s[1], R), O)
<1> DEFINE t == Tail(s)
           n == Len(s)
<1>1. /\ t \in Seq(Message) /\ n \in Nat /\ n >= 1 /\ Len(t) = n - 1
      /\ \A k \in 1..(n - 1) : t[k] = s[k + 1] /\ k + 1 \in 1..n /\ 1 < k + 1
      /\ 1 \in 1..n
  BY TailView
<1>2. /\ \A k \in 1..n : s[k].type = "create" => s[k].id \notin R
      /\ \A j, k \in 1..n :
           j < k /\ s[j].type = "create" /\ s[k].type = "create" => s[j].id # s[k].id
      /\ \A k \in 1..n : s[k].type = "update" =>
           \/ s[k].id \in R \cup O
           \/ \E j \in 1..n : j < k /\ s[j].type = "create" /\ s[j].id = s[k].id
      /\ \A j, k \in 1..n :
           j < k /\ s[j].type = "delete" /\ s[k].type # "reply" => s[k].id # s[j].id
  BY DEF Fits, CreatesNew, CreatesOnce, UpdatesKnown, DeletesLast
<1> HIDE DEF t, n
<1>3. CreatesNew(t, Applied(s[1], R))
  <2> SUFFICES ASSUME NEW k \in 1..(n - 1), s[k + 1].type = "create"
               PROVE  s[k + 1].id \notin Applied(s[1], R)
    BY <1>1 DEF CreatesNew
  <2>1. s[k + 1].id \notin R
    BY <1>1, <1>2
  <2>2. s[1].type = "create" => s[1].id # s[k + 1].id
    BY <1>1, <1>2
  <2> QED BY <2>1, <2>2 DEF Applied
<1>4. CreatesOnce(t)
  <2> SUFFICES ASSUME NEW j \in 1..(n - 1), NEW k \in 1..(n - 1), j < k,
                      s[j + 1].type = "create", s[k + 1].type = "create"
               PROVE  s[j + 1].id # s[k + 1].id
    BY <1>1 DEF CreatesOnce
  <2>1. j + 1 < k + 1
    OBVIOUS
  <2> QED BY <1>1, <1>2, <2>1
<1>5. UpdatesKnown(t, Applied(s[1], R), O)
  <2> DEFINE Known(k) == \E j \in 1..(n - 1) : /\ j < k /\ s[j + 1].type = "create"
                                               /\ s[j + 1].id = s[k + 1].id
  <2> SUFFICES ASSUME NEW k \in 1..(n - 1), s[k + 1].type = "update", s[k + 1].id \notin O
               PROVE  s[k + 1].id \in Applied(s[1], R) \/ Known(k)
    <3> SUFFICES ASSUME NEW k \in 1..(n - 1), t[k].type = "update", t[k].id \notin O
                 PROVE  \/ t[k].id \in Applied(s[1], R)
                        \/ \E j \in 1..(n - 1) : j < k /\ t[j].type = "create"
                                                      /\ t[j].id = t[k].id
      BY <1>1 DEF UpdatesKnown
    <3>1. t[k] = s[k + 1]
      BY <1>1
    <3>2. Known(k) => \E j \in 1..(n - 1) : j < k /\ t[j].type = "create"
                                                 /\ t[j].id = t[k].id
      BY <1>1, <3>1
    <3> QED BY <3>1, <3>2
  <2>1. CASE s[k + 1].id \in R
    <3>1. s[1].type = "delete" => s[1].id # s[k + 1].id
      BY <1>1, <1>2
    <3> QED BY <2>1, <3>1 DEF Applied
  <2>2. CASE s[k + 1].id \notin R
    <3>1. PICK i \in 1..n : i < k + 1 /\ s[i].type = "create" /\ s[i].id = s[k + 1].id
      BY <1>1, <1>2, <2>2
    <3>2. CASE i = 1
      BY <3>1, <3>2 DEF Applied
    <3>3. CASE i # 1
      <4>1. i - 1 \in 1..(n - 1) /\ i - 1 < k /\ (i - 1) + 1 = i
        BY <1>1, <3>1, <3>3
      <4> QED BY <3>1, <4>1
    <3> QED BY <3>2, <3>3
  <2> QED BY <2>1, <2>2
<1>6. DeletesLast(t)
  <2> SUFFICES ASSUME NEW j \in 1..(n - 1), NEW k \in 1..(n - 1), j < k,
                      s[j + 1].type = "delete", s[k + 1].type # "reply"
               PROVE  s[k + 1].id # s[j + 1].id
    BY <1>1 DEF DeletesLast
  <2>1. j + 1 < k + 1
    OBVIOUS
  <2> QED BY <1>1, <1>2, <2>1
<1> QED BY <1>3, <1>4, <1>5, <1>6 DEF Fits, t

(* The first message of a stream that fits finds its object, if announced. *)
LEMMA FitsHead ==
  ASSUME NEW s \in Seq(Message), s # <<>>, NEW R, NEW O, Fits(s, R, O)
  PROVE  /\ s[1].type = "create" => s[1].id \notin R
         /\ s[1].type = "update" => s[1].id \in R \cup O
<1>1. 1 \in 1..Len(s) /\ \A j \in 1..Len(s) : ~(j < 1)
  BY TailView
<1> QED BY <1>1 DEF Fits, CreatesNew, UpdatesKnown

(* Nothing that happens to the first message changes the outcome.          *)
LEMMA OutcomeTail ==
  ASSUME NEW s \in Seq(Message), s # <<>>, NEW R, NEW O, Fits(s, R, O)
  PROVE  Outcome(Tail(s), Applied(s[1], R)) = Outcome(s, R)
<1> DEFINE t == Tail(s)
           n == Len(s)
           Q == Applied(s[1], R)
<1>1. /\ t \in Seq(Message) /\ n \in Nat /\ n >= 1 /\ Len(t) = n - 1
      /\ \A k \in 1..(n - 1) : t[k] = s[k + 1] /\ k + 1 \in 1..n /\ 1 < k + 1
      /\ 1 \in 1..n
      /\ \A k \in 1..n : s[k] \in Message
      /\ \A k \in 1..n : k = 1 \/ (k - 1 \in 1..(n - 1) /\ (k - 1) + 1 = k /\ 1 < k)
  BY TailView
<1>2. \A k \in 1..n : 1 < k /\ s[1].type = "delete" /\ s[k].type # "reply"
                        => s[k].id # s[1].id
  BY <1>1 DEF Fits, DeletesLast, n
<1> HIDE DEF t, n
<1> SUFFICES ASSUME NEW id \in Ids
             PROVE  id \in Outcome(t, Q) <=> id \in Outcome(s, R)
  BY DEF Outcome, t
<1> DEFINE CreT == \E k \in 1..(n - 1) : s[k + 1] = Msg("create", id)
           DelT == \E k \in 1..(n - 1) : s[k + 1] = Msg("delete", id)
           CreS == \E k \in 1..n : s[k] = Msg("create", id)
           DelS == \E k \in 1..n : s[k] = Msg("delete", id)
<1>3. id \in Outcome(t, Q) <=> (id \in Q \/ CreT) /\ ~DelT
  BY <1>1 DEF Outcome
<1>4. id \in Outcome(s, R) <=> (id \in R \/ CreS) /\ ~DelS
  BY DEF Outcome, n
<1>5. CreS <=> s[1] = Msg("create", id) \/ CreT
  <2>1. CreS => s[1] = Msg("create", id) \/ CreT
    BY <1>1
  <2>2. s[1] = Msg("create", id) \/ CreT => CreS
    BY <1>1
  <2> QED BY <2>1, <2>2
<1>6. DelS <=> s[1] = Msg("delete", id) \/ DelT
  <2>1. DelS => s[1] = Msg("delete", id) \/ DelT
    BY <1>1
  <2>2. s[1] = Msg("delete", id) \/ DelT => DelS
    BY <1>1
  <2> QED BY <2>1, <2>2
<1>7. /\ s[1] = Msg("create", id) <=> s[1].type = "create" /\ s[1].id = id
      /\ s[1] = Msg("delete", id) <=> s[1].type = "delete" /\ s[1].id = id
  BY <1>1, MessageIs
<1>8. s[1] = Msg("delete", id) => ~CreT /\ ~DelT
  <2> SUFFICES ASSUME s[1].type = "delete", s[1].id = id, NEW k \in 1..(n - 1)
               PROVE  s[k + 1] # Msg("create", id) /\ s[k + 1] # Msg("delete", id)
    BY <1>7
  <2>1. s[k + 1].type = "reply" \/ s[k + 1].id # id
    BY <1>1, <1>2
  <2> QED BY <2>1, MsgFields
<1> HIDE DEF CreT, DelT, CreS, DelS
<1>9. id \in Q <=> \/ s[1] = Msg("create", id)
                   \/ id \in R /\ s[1] # Msg("delete", id)
  BY <1>7 DEF Applied
<1> QED BY <1>3, <1>4, <1>5, <1>6, <1>7, <1>8, <1>9

(* What may be appended to a stream that fits.                             *)
LEMMA FitsAppend ==
  ASSUME NEW s \in Seq(Message), NEW m \in Message, NEW R, NEW O, Fits(s, R, O),
         m.type = "create" =>
           m.id \notin R /\ \A k \in 1..Len(s) : s[k].type = "create" => s[k].id # m.id,
         m.type = "update" =>
           m.id \in R \cup O \/ \E k \in 1..Len(s) : s[k].type = "create" /\ s[k].id = m.id,
         m.type # "reply" =>
           \A k \in 1..Len(s) : s[k].type = "delete" => s[k].id # m.id
  PROVE  Fits(Append(s, m), R, O)
<1> DEFINE t == Append(s, m)
           n == Len(s)
<1>1. /\ t \in Seq(Message) /\ n \in Nat /\ Len(t) = n + 1
      /\ \A k \in 1..n : t[k] = s[k] /\ k \in 1..(n + 1)
      /\ t[n + 1] = m /\ n + 1 \in 1..(n + 1)
      /\ \A k \in 1..(n + 1) : k \in 1..n \/ k = n + 1
      /\ \A j, k \in 1..(n + 1) : j < k => j \in 1..n
  BY AppendView
<1>2. /\ \A k \in 1..n : s[k].type = "create" => s[k].id \notin R
      /\ \A j, k \in 1..n :
           j < k /\ s[j].type = "create" /\ s[k].type = "create" => s[j].id # s[k].id
      /\ \A k \in 1..n : s[k].type = "update" =>
           \/ s[k].id \in R \cup O
           \/ \E j \in 1..n : j < k /\ s[j].type = "create" /\ s[j].id = s[k].id
      /\ \A j, k \in 1..n :
           j < k /\ s[j].type = "delete" /\ s[k].type # "reply" => s[k].id # s[j].id
  BY DEF Fits, CreatesNew, CreatesOnce, UpdatesKnown, DeletesLast
<1>3. /\ m.type = "create" =>
           m.id \notin R /\ \A k \in 1..n : s[k].type = "create" => s[k].id # m.id
      /\ m.type = "update" =>
           m.id \in R \cup O \/ \E k \in 1..n : s[k].type = "create" /\ s[k].id = m.id
      /\ m.type # "reply" => \A k \in 1..n : s[k].type = "delete" => s[k].id # m.id
  OBVIOUS
<1> HIDE DEF t, n
<1>4. CreatesNew(t, R)
  BY <1>1, <1>2, <1>3 DEF CreatesNew
<1>5. CreatesOnce(t)
  <2> SUFFICES ASSUME NEW j \in 1..(n + 1), NEW k \in 1..(n + 1), j < k,
                      t[j].type = "create", t[k].type = "create"
               PROVE  t[j].id # t[k].id
    BY <1>1 DEF CreatesOnce
  <2>1. j \in 1..n /\ t[j] = s[j]
    BY <1>1
  <2>2. CASE k \in 1..n
    BY <1>1, <1>2, <2>1, <2>2
  <2>3. CASE k = n + 1
    BY <1>1, <1>3, <2>1, <2>3
  <2> QED BY <1>1, <2>2, <2>3
<1>6. UpdatesKnown(t, R, O)
  <2> SUFFICES ASSUME NEW k \in 1..(n + 1), t[k].type = "update", t[k].id \notin R \cup O
               PROVE  \E j \in 1..(n + 1) : j < k /\ t[j].type = "create"
                                                 /\ t[j].id = t[k].id
    BY <1>1 DEF UpdatesKnown
  <2>1. PICK j \in 1..n : j < k /\ s[j].type = "create" /\ s[j].id = t[k].id
    <3>1. CASE k \in 1..n
      BY <1>1, <1>2, <3>1
    <3>2. CASE k = n + 1
      <4>1. \E j \in 1..n : s[j].type = "create" /\ s[j].id = m.id
        BY <1>1, <1>3, <3>2
      <4>2. \A j \in 1..n : j < k
        BY <1>1, <3>2
      <4> QED BY <1>1, <3>2, <4>1, <4>2
    <3> QED BY <1>1, <3>1, <3>2
  <2>2. t[j] = s[j] /\ j \in 1..(n + 1)
    BY <1>1
  <2> QED BY <2>1, <2>2
<1>7. DeletesLast(t)
  <2> SUFFICES ASSUME NEW j \in 1..(n + 1), NEW k \in 1..(n + 1), j < k,
                      t[j].type = "delete", t[k].type # "reply"
               PROVE  t[k].id # t[j].id
    BY <1>1 DEF DeletesLast
  <2>1. j \in 1..n /\ t[j] = s[j]
    BY <1>1
  <2>2. CASE k \in 1..n
    BY <1>1, <1>2, <2>1, <2>2
  <2>3. CASE k = n + 1
    BY <1>1, <1>3, <2>1, <2>3
  <2> QED BY <1>1, <2>2, <2>3
<1> QED BY <1>4, <1>5, <1>6, <1>7 DEF Fits, t

(* And what it does to the outcome.                                        *)
LEMMA OutcomeAppend ==
  ASSUME NEW s \in Seq(Message), NEW m \in Message, NEW R,
         m.type = "create" =>
           \A k \in 1..Len(s) : s[k].type = "delete" => s[k].id # m.id
  PROVE  Outcome(Append(s, m), R) = Applied(m, Outcome(s, R)) \cap Ids
<1> DEFINE t == Append(s, m)
           n == Len(s)
<1>1. /\ t \in Seq(Message) /\ n \in Nat /\ Len(t) = n + 1
      /\ \A k \in 1..n : t[k] = s[k] /\ k \in 1..(n + 1) /\ s[k] \in Message
      /\ t[n + 1] = m /\ n + 1 \in 1..(n + 1)
      /\ \A k \in 1..(n + 1) : k \in 1..n \/ k = n + 1
  BY AppendView
<1>2. m.type = "create" => \A k \in 1..n : s[k].type = "delete" => s[k].id # m.id
  OBVIOUS
<1> HIDE DEF t, n
<1> SUFFICES ASSUME NEW id \in Ids
             PROVE  id \in Outcome(t, R) <=> id \in Applied(m, Outcome(s, R))
  BY DEF Outcome, t
<1> DEFINE CreT == \E k \in 1..(n + 1) : t[k] = Msg("create", id)
           DelT == \E k \in 1..(n + 1) : t[k] = Msg("delete", id)
           CreS == \E k \in 1..n : s[k] = Msg("create", id)
           DelS == \E k \in 1..n : s[k] = Msg("delete", id)
<1>3. id \in Outcome(t, R) <=> (id \in R \/ CreT) /\ ~DelT
  BY <1>1 DEF Outcome
<1>4. id \in Outcome(s, R) <=> (id \in R \/ CreS) /\ ~DelS
  BY DEF Outcome, n
<1>5. CreT <=> m = Msg("create", id) \/ CreS
  <2>1. CreT => m = Msg("create", id) \/ CreS
    BY <1>1
  <2>2. m = Msg("create", id) \/ CreS => CreT
    BY <1>1
  <2> QED BY <2>1, <2>2
<1>6. DelT <=> m = Msg("delete", id) \/ DelS
  <2>1. DelT => m = Msg("delete", id) \/ DelS
    BY <1>1
  <2>2. m = Msg("delete", id) \/ DelS => DelT
    BY <1>1
  <2> QED BY <2>1, <2>2
<1>7. /\ m = Msg("create", id) <=> m.type = "create" /\ m.id = id
      /\ m = Msg("delete", id) <=> m.type = "delete" /\ m.id = id
  BY MessageIs
<1>8. m = Msg("create", id) => ~DelS
  BY <1>2, <1>7, MsgFields
<1> HIDE DEF CreT, DelT, CreS, DelS
<1>9. id \in Applied(m, Outcome(s, R)) <=>
        \/ m = Msg("create", id)
        \/ id \in Outcome(s, R) /\ m # Msg("delete", id)
  BY <1>7 DEF Applied
<1> QED BY <1>3, <1>4, <1>5, <1>6, <1>7, <1>8, <1>9

-----------------------------------------------------------------------------
(* The inductive invariants.                                               *)

LEMMA FollowInit == Init => FollowInv
<1> SUFFICES ASSUME Init PROVE FollowInv
  OBVIOUS
<1>1. IdsInv
  BY ReplicationAssumption DEF Init, IdsInv
<1>2. PhaseInv
  BY DEF Init, PhaseInv
<1>3. \A c \in Conns : StreamInv(c)
  <2>1. \A c \in Conns : down[c] = <<>> /\ phase[c] = "none" /\ 1..Len(down[c]) = {}
    BY DEF Init
  <2> QED BY <2>1 DEF StreamInv, DeletedGone
<1> QED BY <1>1, <1>2, <1>3 DEF FollowInv

(* Messages that name objects the server has given an id to.               *)
LEMMA DistributeTyped ==
  ASSUME IdsInv, NEW msgs \in Seq(Message), Distribute(msgs), NEW last \in Nat,
         last >= last_obj_id,
         \A k \in 1..Len(msgs) : msgs[k].id =< last
  PROVE  /\ down' \in [Conns -> Seq(Message)]
         /\ \A c \in Conns : \A k \in 1..Len(down'[c]) : down'[c][k].id =< last
         /\ \A c \in Conns : phase[c] # "open" => down'[c] = down[c]
<1>1. \A c \in Conns : down'[c] = IF c \in agents /\ phase[c] = "open"
                                  THEN down[c] \o msgs ELSE down[c]
  BY DEF Distribute
<1>2. \A c \in Conns : down[c] \in Seq(Message) /\ down[c] \o msgs \in Seq(Message)
  BY DEF IdsInv
<1>3. down' \in [Conns -> Seq(Message)]
  BY <1>2 DEF Distribute
<1>4. ASSUME NEW c \in Conns, NEW k \in 1..Len(down'[c])
      PROVE  down'[c][k].id =< last
  <2>1. \A i \in 1..Len(down[c]) : down[c][i] \in Message /\ down[c][i].id =< last
    <3>1. \A i \in 1..Len(down[c]) : down[c][i] \in Message
      BY <1>2
    <3>2. \A i \in 1..Len(down[c]) : down[c][i].id =< last_obj_id /\ down[c][i].id \in Nat
      BY <3>1 DEF IdsInv, Message
    <3> QED BY <3>1, <3>2 DEF IdsInv
  <2>2. CASE c \in agents /\ phase[c] = "open"
    <3> DEFINE s == down[c]
    <3>1. s \in Seq(Message) /\ down'[c] = s \o msgs
      BY <1>1, <1>2, <2>2
    <3>2. \A i \in 1..Len(s) : s[i].id =< last
      BY <2>1
    <3> HIDE DEF s
    <3>3. k \in 1..(Len(s) + Len(msgs))
      BY <3>1
    <3>4. CASE k \in 1..Len(s)
      <4>1. down'[c][k] = s[k]
        BY <3>1, <3>4
      <4> QED BY <3>2, <3>4, <4>1
    <3>5. CASE k \notin 1..Len(s)
      <4>1. down'[c][k] = msgs[k - Len(s)] /\ k - Len(s) \in 1..Len(msgs)
        BY <3>1, <3>3, <3>5
      <4> QED BY <4>1
    <3> QED BY <3>4, <3>5
  <2>3. CASE ~(c \in agents /\ phase[c] = "open")
    BY <1>1, <2>1, <2>3
  <2> QED BY <2>2, <2>3
<1> QED BY <1>1, <1>3, <1>4

(* A creation for every object, in map order.                              *)
Welcome(s) ==
  /\ s \in Seq(Message)
  /\ \A k \in 1..Len(s) : s[k].type = "create" /\ s[k].id \in objects
  /\ CreatesOnce(s)
  /\ \A id \in objects : \E k \in 1..Len(s) : s[k] = Msg("create", id)

LEMMA WelcomeView ==
  ASSUME IdsInv, NEW ids \in [1..Cardinality(objects) -> objects], InMapOrder(ids),
         NEW s, s = [k \in DOMAIN ids |-> Msg("create", ids[k])]
  PROVE  Welcome(s)
<1>1. IsFiniteSet(objects)
  <2>1. 0 \in Int /\ last_obj_id \in Int
    BY DEF IdsInv
  <2>2. IsFiniteSet(0..last_obj_id)
    BY <2>1, FS_Interval
  <2> QED BY <2>2, FS_Subset DEF IdsInv
<1> DEFINE n == Cardinality(objects)
<1>2. n \in Nat
  BY <1>1, FS_CardinalityType
<1>3. objects \subseteq Nat
  BY DEF IdsInv
<1>4. DOMAIN ids = 1..n /\ \A k \in 1..n : ids[k] \in objects
  OBVIOUS
<1>5. /\ ToSet(ids) = objects
      /\ \A i, j \in 1..n : i < j => ids[i] < ids[j]
  BY <1>4 DEF InMapOrder
<1> HIDE DEF n
<1>6. \A k \in 1..n : Msg("create", ids[k]) \in Message
  BY <1>3, <1>4, MsgTyped
<1>7. s = [k \in 1..n |-> Msg("create", ids[k])]
  BY <1>4
<1>8. s \in Seq(Message)
  <2>1. s \in [1..n -> Message]
    BY <1>6, <1>7
  <2> QED BY <1>2, <2>1, IntervalIsSeq
<1>9. Len(s) = n
  BY <1>2, <1>7, <1>8
<1>10. \A k \in 1..n : s[k] = Msg("create", ids[k])
  BY <1>7
<1>11. \A k \in 1..n : s[k].type = "create" /\ s[k].id = ids[k]
  BY <1>10, MsgFields
<1>12. CreatesOnce(s)
  <2> SUFFICES ASSUME NEW j \in 1..n, NEW k \in 1..n, j < k PROVE s[j].id # s[k].id
    BY <1>9 DEF CreatesOnce
  <2>1. ids[j] < ids[k] /\ ids[j] \in Nat /\ ids[k] \in Nat
    BY <1>3, <1>4, <1>5
  <2>2. ids[j] # ids[k]
    BY <2>1
  <2> QED BY <1>11, <2>2
<1>13. ASSUME NEW id \in objects
       PROVE  \E k \in 1..n : s[k] = Msg("create", id)
  <2>1. PICK k \in DOMAIN ids : ids[k] = id
    BY <1>5 DEF ToSet
  <2> QED BY <1>4, <1>10, <2>1
<1> QED BY <1>4, <1>8, <1>9, <1>11, <1>12, <1>13 DEF Welcome

LEMMA OneTyped ==
  ASSUME NEW type \in {"create", "update", "delete", "reply"}, NEW id \in Nat,
         NEW msgs, msgs = <<Msg(type, id)>>
  PROVE  /\ msgs \in Seq(Message) /\ Len(msgs) = 1
         /\ \A k \in 1..Len(msgs) : msgs[k].id = id
<1>1. Msg(type, id) \in Message
  BY MsgTyped
<1>2. msgs \in Seq(Message)
  BY <1>1
<1>3. Len(msgs) = 1 /\ msgs[1] = Msg(type, id)
  OBVIOUS
<1>4. \A k \in 1..Len(msgs) : k = 1
  BY <1>3
<1> QED BY <1>2, <1>3, <1>4, MsgFields

LEMMA DistributeOne ==
  ASSUME IdsInv, NEW type \in {"create", "update", "delete", "reply"}, NEW id \in Nat,
         NEW last \in Nat, last >= last_obj_id, id =< last,
         Distribute(<<Msg(type, id)>>)
  PROVE  /\ down' \in [Conns -> Seq(Message)]
         /\ \A c \in Conns : \A k \in 1..Len(down'[c]) : down'[c][k].id =< last
         /\ \A c \in Conns : phase[c] # "open" => down'[c] = down[c]
<1> DEFINE msgs == <<Msg(type, id)>>
<1>1. msgs = <<Msg(type, id)>> /\ Distribute(msgs)
  OBVIOUS
<1> HIDE DEF msgs
<1>2. msgs \in Seq(Message) /\ \A k \in 1..Len(msgs) : msgs[k].id = id
  BY <1>1, OneTyped
<1> QED BY <1>1, <1>2, DistributeTyped

(* machine_registered, with and without a midi input.                      *)
LEMMA RegisteredView ==
  ASSUME IdsInv, NEW midi \in BOOLEAN, MachineRegistered(midi)
  PROVE  LET r == last_obj_id + 1
         IN /\ last_obj_id' \in Nat /\ last_obj_id' =< MaxId
            /\ IF midi
               THEN /\ last_obj_id' = last_obj_id + 2
                    /\ objects' = objects \cup {r, r + 1}
                    /\ with_seq' = with_seq \cup {r}
                    /\ Distribute(<<Msg("create", r), Msg("create", r + 1)>>)
               ELSE /\ last_obj_id' = last_obj_id + 1
                    /\ objects' = objects \cup {r}
                    /\ with_seq' = with_seq
                    /\ Distribute(<<Msg("create", r)>>)
            /\ UNCHANGED <<orphans, agents, phase, replica, told>>
<1> DEFINE r == last_obj_id + 1
           made == IF midi THEN <<r, r + 1>> ELSE <<r>>
           msgs == [k \in DOMAIN made |-> Msg("create", made[k])]
<1>1. /\ last_obj_id + Len(made) =< MaxId
      /\ last_obj_id' = last_obj_id + Len(made)
      /\ objects' = objects \cup ToSet(made)
      /\ with_seq' = IF midi THEN with_seq \cup {r} ELSE with_seq
      /\ Distribute(msgs)
      /\ UNCHANGED <<orphans, agents, phase, replica, told>>
  BY DEF MachineRegistered, client_vars
<1>2. last_obj_id \in Nat
  BY DEF IdsInv
<1>3. CASE midi
  <2>1. Len(made) = 2 /\ DOMAIN made = 1..2 /\ made[1] = r /\ made[2] = r + 1
    BY <1>3
  <2>2. ToSet(made) = {r, r + 1}
    BY <2>1 DEF ToSet
  <2>3. msgs = <<Msg("create", r), Msg("create", r + 1)>>
    BY <2>1
  <2> QED BY <1>1, <1>2, <1>3, <2>1, <2>2, <2>3
<1>4. CASE ~midi
  <2>1. Len(made) = 1 /\ DOMAIN made = 1..1 /\ made[1] = r
    BY <1>4
  <2>2. ToSet(made) = {r}
    BY <2>1 DEF ToSet
  <2>3. msgs = <<Msg("create", r)>>
    BY <2>1
  <2> QED BY <1>1, <1>2, <1>4, <2>1, <2>2, <2>3
<1> QED BY <1>3, <1>4

(* A connection that Receive leaves as it is, and the one it works on.     *)
LEMMA ReceiveTail ==
  ASSUME IdsInv, PhaseInv, NEW c \in Conns, Receive(c)
  PROVE  LET m == down[c][1]
         IN /\ phase[c] = "open" /\ m \in Message /\ down[c] # <<>>
            /\ down' = [down EXCEPT ![c] = Tail(down[c])]
            /\ \/ /\ replica' = [replica EXCEPT ![c] = Applied(m, replica[c])]
                  /\ told' = told
                  /\ m.type = "create" => m.id \notin replica[c]
                  /\ m.type = "update" => m.id \in replica[c]
               \/ /\ replica' = [replica EXCEPT ![c] = {}]
                  /\ told' = [told EXCEPT ![c] = TRUE]
                  /\ \/ m.type = "create" /\ m.id \in replica[c]
                     \/ m.type = "update" /\ m.id \notin replica[c]
            /\ UNCHANGED <<objects, last_obj_id, orphans, agents, phase>>
<1> DEFINE m == Head(down[c])
<1>0. /\ phase[c] = "open" /\ down[c] # <<>>
      /\ down' = [down EXCEPT ![c] = Tail(down[c])]
      /\ UNCHANGED <<objects, last_obj_id, orphans, agents, phase>>
  BY DEF Receive, server_vars
<1>1. down[c] \in Seq(Message)
  BY DEF IdsInv
<1>2. m = down[c][1] /\ m \in Message
  BY <1>0, <1>1, TailView
<1>3. replica = [replica EXCEPT ![c] = replica[c]]
  BY DEF IdsInv
<1>4. \/ /\ m.type = "create" /\ m.id \notin replica[c]
         /\ replica' = [replica EXCEPT ![c] = replica[c] \cup {m.id}]
         /\ told' = told
      \/ /\ m.type = "delete"
         /\ replica' = [replica EXCEPT ![c] = replica[c] \ {m.id}]
         /\ told' = told
      \/ m.type = "reply" /\ replica' = replica /\ told' = told
      \/ m.type = "update" /\ m.id \in replica[c] /\ replica' = replica /\ told' = told
      \/ /\ \/ m.type = "create" /\ m.id \in replica[c]
            \/ m.type = "update" /\ m.id \notin replica[c]
         /\ replica' = [replica EXCEPT ![c] = {}]
         /\ told' = [told EXCEPT ![c] = TRUE]
  BY DEF Receive, Dropped
<1>5. CASE m.type = "create" /\ m.id \notin replica[c]
  BY <1>0, <1>2, <1>4, <1>5 DEF Applied
<1>6. CASE m.type = "delete"
  BY <1>0, <1>2, <1>4, <1>6 DEF Applied
<1>7. CASE m.type = "reply"
  BY <1>0, <1>2, <1>3, <1>4, <1>7 DEF Applied
<1>8. CASE m.type = "update" /\ m.id \in replica[c]
  BY <1>0, <1>2, <1>3, <1>4, <1>8 DEF Applied
<1>9. CASE \/ m.type = "create" /\ m.id \in replica[c]
           \/ m.type = "update" /\ m.id \notin replica[c]
  <2>1. /\ replica' = [replica EXCEPT ![c] = {}]
        /\ told' = [told EXCEPT ![c] = TRUE]
    BY <1>4, <1>9
  <2> QED BY <1>0, <1>2, <1>9, <2>1
<1> QED BY <1>4, <1>5, <1>6, <1>7, <1>8, <1>9

(* Steps that leave the clients as they are, but for what is under way to  *)
(* them.                                                                   *)
LEMMA TypesKept ==
  ASSUME IdsInv, PhaseInv,
         last_obj_id' \in Nat, last_obj_id' >= last_obj_id, last_obj_id' =< MaxId,
         objects' \subseteq 0..last_obj_id',
         down' \in [Conns -> Seq(Message)],
         \A c \in Conns : \A k \in 1..Len(down'[c]) : down'[c][k].id =< last_obj_id',
         \A c \in Conns : phase[c] # "open" => down'[c] = down[c],
         agents' \subseteq Conns, UNCHANGED <<phase, told, replica>>
  PROVE  IdsInv' /\ PhaseInv'
<1>1. replica' \in [Conns -> SUBSET (0..last_obj_id')]
  <2>1. 0..last_obj_id \subseteq 0..last_obj_id'
    BY DEF IdsInv
  <2>2. replica' \in [Conns -> SUBSET (0..last_obj_id)]
    BY DEF IdsInv
  <2> HIDE DEF IdsInv
  <2> QED BY <2>1, <2>2
<1>2. IdsInv'
  BY <1>1 DEF IdsInv
<1>3. PhaseInv'
  BY DEF PhaseInv
<1> QED BY <1>2, <1>3

LEMMA DownKept ==
  ASSUME IdsInv, down' = down
  PROVE  /\ down' \in [Conns -> Seq(Message)]
         /\ \A c \in Conns : \A k \in 1..Len(down'[c]) : down'[c][k].id =< last_obj_id
         /\ \A c \in Conns : phase[c] # "open" => down'[c] = down[c]
BY DEF IdsInv

LEMMA StillTyped ==
  ASSUME IdsInv, PhaseInv, last_obj_id' = last_obj_id, objects' \subseteq objects,
         agents' \subseteq agents, UNCHANGED <<phase, told, replica>>,
         \/ down' = down
         \/ \E type \in {"update", "delete"}, id \in objects : Distribute(<<Msg(type, id)>>)
  PROVE  IdsInv' /\ PhaseInv'
<1>1. /\ last_obj_id' \in Nat /\ last_obj_id' >= last_obj_id /\ last_obj_id' =< MaxId
      /\ objects' \subseteq 0..last_obj_id' /\ agents' \subseteq Conns
  BY DEF IdsInv, PhaseInv
<1>2. CASE down' = down
  BY <1>1, <1>2, DownKept, TypesKept
<1>3. ASSUME NEW type \in {"update", "delete"}, NEW id \in objects,
             Distribute(<<Msg(type, id)>>)
      PROVE  IdsInv' /\ PhaseInv'
  <2>1. id \in Nat /\ id =< last_obj_id /\ type \in {"create", "update", "delete", "reply"}
    BY DEF IdsInv
  <2>2. /\ down' \in [Conns -> Seq(Message)]
        /\ \A c \in Conns : \A k \in 1..Len(down'[c]) : down'[c][k].id =< last_obj_id
        /\ \A c \in Conns : phase[c] # "open" => down'[c] = down[c]
    BY <1>1, <1>3, <2>1, DistributeOne
  <2> QED BY <1>1, <2>2, TypesKept
<1> QED BY <1>2, <1>3

LEMMA ServeTyped ==
  ASSUME IdsInv, PhaseInv, NEW c \in Conns, Serve(c)
  PROVE  IdsInv' /\ PhaseInv'
<1> DEFINE msg == Head(up[c])
<1>1. /\ last_obj_id' = last_obj_id /\ objects' = objects
      /\ UNCHANGED <<phase, told, replica>>
      /\ agents' \subseteq agents
  BY DEF Serve, client_vars
<1>2. \/ down' = down
      \/ msg.id \in objects /\ Distribute(<<Msg("update", msg.id)>>)
      \/ down' = [down EXCEPT ![c] =
                    IF phase[c] = "open" THEN Append(down[c], Msg("reply", 0)) ELSE down[c]]
  BY DEF Serve
<1>3. CASE \/ down' = down
           \/ msg.id \in objects /\ Distribute(<<Msg("update", msg.id)>>)
  BY <1>1, <1>3, StillTyped
<1>4. CASE down' = [down EXCEPT ![c] =
                  IF phase[c] = "open" THEN Append(down[c], Msg("reply", 0)) ELSE down[c]]
  <2>1. Msg("reply", 0) \in Message /\ Msg("reply", 0).id = 0
    BY MsgTyped, MsgFields
  <2>2. down[c] \in Seq(Message) /\ Append(down[c], Msg("reply", 0)) \in Seq(Message)
    BY <2>1, AppendView DEF IdsInv
  <2>3. down' \in [Conns -> Seq(Message)]
    BY <1>4, <2>2 DEF IdsInv
  <2>4. \A d \in Conns : phase[d] # "open" => down'[d] = down[d]
    BY <1>4 DEF IdsInv
  <2>5. last_obj_id \in Nat
    BY DEF IdsInv
  <2>6. ASSUME NEW d \in Conns, NEW k \in 1..Len(down'[d])
        PROVE  down'[d][k].id =< last_obj_id
    <3>1. CASE down'[d] = down[d]
      BY <2>6, <3>1 DEF IdsInv
    <3>2. CASE down'[d] # down[d]
      <4> DEFINE s == down[c]
      <4>1. d = c /\ down'[d] = Append(s, Msg("reply", 0))
        BY <1>4, <3>2 DEF IdsInv
      <4>2. s \in Seq(Message) /\ \A i \in 1..Len(s) : s[i].id =< last_obj_id
        BY DEF IdsInv
      <4> HIDE DEF s
      <4>3. k \in 1..Len(s) \/ k = Len(s) + 1
        BY <2>1, <4>1, <4>2, AppendView
      <4>4. CASE k \in 1..Len(s)
        <5>1. down'[d][k] = s[k]
          BY <2>1, <4>1, <4>2, <4>4, AppendView
        <5> QED BY <4>2, <4>4, <5>1
      <4>5. CASE k = Len(s) + 1
        <5>1. down'[d][k] = Msg("reply", 0)
          BY <2>1, <4>1, <4>2, <4>5, AppendView
        <5> QED BY <2>1, <2>5, <5>1
      <4> QED BY <4>3, <4>4, <4>5
    <3> QED BY <3>1, <3>2
  <2>7. /\ last_obj_id' \in Nat /\ last_obj_id' >= last_obj_id /\ last_obj_id' =< MaxId
        /\ objects' \subseteq 0..last_obj_id' /\ agents' \subseteq Conns
    BY <1>1 DEF IdsInv, PhaseInv
  <2> QED BY <1>1, <2>3, <2>4, <2>6, <2>7, TypesKept
<1> QED BY <1>2, <1>3, <1>4

LEMMA AcceptTyped ==
  ASSUME IdsInv, PhaseInv, NEW c \in Conns, Accept(c)
  PROVE  IdsInv' /\ PhaseInv'
<1>1. /\ phase' = [phase EXCEPT ![c] = "open"]
      /\ agents' = agents \cup {c}
      /\ UNCHANGED <<objects, last_obj_id, replica, told>>
  BY DEF Accept, Enlist, server_vars
<1>2. PICK ids \in [1..Cardinality(objects) -> objects] :
        /\ InMapOrder(ids)
        /\ down' = [down EXCEPT ![c] = [k \in DOMAIN ids |-> Msg("create", ids[k])]]
  BY DEF Accept
<1>3. PICK s : s = [k \in DOMAIN ids |-> Msg("create", ids[k])]
  OBVIOUS
<1>4. s \in Seq(Message) /\ \A k \in 1..Len(s) : s[k].id \in objects
  BY <1>2, <1>3, WelcomeView DEF Welcome
<1>5. down' = [down EXCEPT ![c] = s]
  BY <1>2, <1>3
<1>6. down' \in [Conns -> Seq(Message)]
  BY <1>4, <1>5 DEF IdsInv
<1>7. \A d \in Conns : \A k \in 1..Len(down'[d]) : down'[d][k].id =< last_obj_id
  <2> SUFFICES ASSUME NEW d \in Conns, NEW k \in 1..Len(down'[d])
               PROVE  down'[d][k].id =< last_obj_id
    OBVIOUS
  <2>1. CASE d = c
    <3>1. down'[d] = s
      BY <1>5, <2>1 DEF IdsInv
    <3>2. down'[d][k].id \in objects
      BY <1>4, <3>1
    <3>3. \A id \in objects : id =< last_obj_id
      BY DEF IdsInv
    <3> QED BY <3>2, <3>3
  <2>2. CASE d # c
    BY <1>5, <2>2 DEF IdsInv
  <2> QED BY <2>1, <2>2
<1>8. IdsInv'
  BY <1>1, <1>6, <1>7 DEF IdsInv
<1>9. PhaseInv'
  BY <1>1, <1>5 DEF PhaseInv, IdsInv
<1> QED BY <1>8, <1>9

LEMMA ReceiveTyped ==
  ASSUME IdsInv, PhaseInv, NEW c \in Conns, Receive(c)
  PROVE  IdsInv' /\ PhaseInv'
<1>1. PICK m : m = down[c][1]
  OBVIOUS
<1>2. /\ phase[c] = "open" /\ m \in Message /\ down[c] # <<>>
      /\ down' = [down EXCEPT ![c] = Tail(down[c])]
      /\ \/ replica' = [replica EXCEPT ![c] = Applied(m, replica[c])] /\ told' = told
         \/ /\ replica' = [replica EXCEPT ![c] = {}]
            /\ told' = [told EXCEPT ![c] = TRUE]
      /\ UNCHANGED <<objects, last_obj_id, agents, phase>>
  BY <1>1, ReceiveTail
<1>3. PICK s : s = down[c]
  OBVIOUS
<1>4. /\ s \in Seq(Message) /\ s # <<>>
      /\ \A k \in 1..Len(s) : s[k].id =< last_obj_id
  BY <1>2, <1>3 DEF IdsInv
<1>5. /\ Tail(s) \in Seq(Message) /\ Len(s) \in Nat /\ Len(s) >= 1
      /\ Len(Tail(s)) = Len(s) - 1
      /\ \A k \in 1..(Len(s) - 1) : Tail(s)[k] = s[k + 1]
  BY <1>4, TailView
<1>6. m.id \in 0..last_obj_id
  <2>1. 1 \in 1..Len(s)
    BY <1>5
  <2>2. m.id =< last_obj_id
    BY <1>1, <1>3, <1>4, <2>1
  <2> QED BY <1>2, <2>2 DEF Message, IdsInv
<1>7. down' \in [Conns -> Seq(Message)]
  BY <1>2, <1>3, <1>5 DEF IdsInv
<1>8. \A d \in Conns : \A k \in 1..Len(down'[d]) : down'[d][k].id =< last_obj_id
  <2> SUFFICES ASSUME NEW d \in Conns, NEW k \in 1..Len(down'[d])
               PROVE  down'[d][k].id =< last_obj_id
    OBVIOUS
  <2>1. CASE d = c
    <3>1. down'[d] = Tail(s)
      BY <1>2, <1>3, <2>1 DEF IdsInv
    <3>2. k \in 1..(Len(s) - 1) /\ k + 1 \in 1..Len(s)
      BY <1>5, <3>1
    <3> QED BY <1>4, <1>5, <3>1, <3>2
  <2>2. CASE d # c
    BY <1>2, <2>2 DEF IdsInv
  <2> QED BY <2>1, <2>2
<1>9. replica' \in [Conns -> SUBSET (0..last_obj_id)]
  <2>1. replica \in [Conns -> SUBSET (0..last_obj_id)]
    BY DEF IdsInv
  <2>2. Applied(m, replica[c]) \in SUBSET (0..last_obj_id)
    BY <1>6, <2>1 DEF Applied
  <2> QED BY <1>2, <2>1, <2>2
<1>10. told' \in [Conns -> BOOLEAN]
  BY <1>2 DEF PhaseInv
<1>11. IdsInv'
  BY <1>2, <1>7, <1>8, <1>9 DEF IdsInv
<1>12. \A d \in Conns : phase[d] = "none" => replica'[d] = {} /\ down'[d] = <<>>
  <2> SUFFICES ASSUME NEW d \in Conns, phase[d] = "none"
               PROVE  replica'[d] = {} /\ down'[d] = <<>>
    OBVIOUS
  <2>1. d # c
    BY <1>2
  <2> QED BY <1>2, <2>1 DEF PhaseInv, IdsInv
<1>13. PhaseInv'
  BY <1>2, <1>10, <1>12 DEF PhaseInv
<1> QED BY <1>11, <1>13

LEMMA CloseTyped ==
  ASSUME IdsInv, PhaseInv, NEW c \in Conns, Close(c)
  PROVE  IdsInv' /\ PhaseInv'
<1>1. /\ phase' = [phase EXCEPT ![c] = "closed"]
      /\ replica' = [replica EXCEPT ![c] = {}]
      /\ told' = [told EXCEPT ![c] = TRUE]
      /\ down' = [down EXCEPT ![c] = <<>>]
      /\ UNCHANGED <<objects, last_obj_id, agents>>
  BY DEF Close, Dropped, server_vars
<1>2. <<>> \in Seq(Message) /\ Len(<<>>) = 0
  OBVIOUS
<1>3. down' \in [Conns -> Seq(Message)]
  BY <1>1, <1>2 DEF IdsInv
<1>4. replica' \in [Conns -> SUBSET (0..last_obj_id)]
  BY <1>1 DEF IdsInv
<1>5. \A d \in Conns : \A k \in 1..Len(down'[d]) : down'[d][k].id =< last_obj_id
  BY <1>1, <1>2 DEF IdsInv
<1>6. IdsInv'
  BY <1>1, <1>3, <1>4, <1>5 DEF IdsInv
<1>7. PhaseInv'
  BY <1>1 DEF PhaseInv, IdsInv
<1> QED BY <1>6, <1>7

(* A machine and its Sequence are made; one or both are announced.         *)
LEMMA PairTyped ==
  ASSUME IdsInv, PhaseInv, NEW r, r = last_obj_id + 1, r + 1 =< MaxId,
         last_obj_id' = r + 1, objects' = objects \cup {r, r + 1},
         UNCHANGED <<phase, told, replica, agents>>,
         \/ Distribute(<<Msg("create", r)>>)
         \/ Distribute(<<Msg("create", r), Msg("create", r + 1)>>)
  PROVE  IdsInv' /\ PhaseInv'
<1>1. last_obj_id \in Nat /\ objects \subseteq 0..last_obj_id /\ agents \subseteq Conns
  BY DEF IdsInv, PhaseInv
<1>2. /\ last_obj_id' \in Nat /\ last_obj_id' =< MaxId /\ last_obj_id' >= last_obj_id
      /\ objects' \subseteq 0..last_obj_id' /\ agents' \subseteq Conns
      /\ r \in Nat /\ r + 1 \in Nat /\ r =< last_obj_id' /\ r + 1 =< last_obj_id'
  BY <1>1
<1>3. /\ down' \in [Conns -> Seq(Message)]
      /\ \A c \in Conns : \A k \in 1..Len(down'[c]) : down'[c][k].id =< last_obj_id'
      /\ \A c \in Conns : phase[c] # "open" => down'[c] = down[c]
  <2>1. CASE Distribute(<<Msg("create", r)>>)
    BY <1>2, <2>1, DistributeOne
  <2>2. CASE Distribute(<<Msg("create", r), Msg("create", r + 1)>>)
    <3>1. PICK msgs : msgs = <<Msg("create", r), Msg("create", r + 1)>>
      OBVIOUS
    <3>2. Msg("create", r) \in Message /\ Msg("create", r + 1) \in Message
      BY <1>2, MsgTyped
    <3>3. Distribute(msgs)
      BY <2>2, <3>1
    <3>4. msgs \in Seq(Message) /\ Len(msgs) = 2
      BY <3>1, <3>2
    <3>5. msgs[1] = Msg("create", r) /\ msgs[2] = Msg("create", r + 1)
      BY <3>1
    <3>6. msgs[1].id =< last_obj_id' /\ msgs[2].id =< last_obj_id'
      BY <1>2, <3>5, MsgFields
    <3>7. \A k \in 1..Len(msgs) : msgs[k].id =< last_obj_id'
      BY <3>4, <3>6
    <3> QED BY <1>2, <3>3, <3>4, <3>7, DistributeTyped
  <2> QED BY <2>1, <2>2
<1> QED BY <1>2, <1>3, TypesKept

LEMMA RegisteredTyped ==
  ASSUME IdsInv, PhaseInv, NEW midi \in BOOLEAN, MachineRegistered(midi)
  PROVE  IdsInv' /\ PhaseInv'
<1>1. PICK r : r = last_obj_id + 1
  OBVIOUS
<1>2. last_obj_id \in Nat /\ objects \subseteq 0..last_obj_id /\ agents \subseteq Conns
  BY DEF IdsInv, PhaseInv
<1>3. UNCHANGED <<phase, told, replica, agents>> /\ last_obj_id' =< MaxId
  BY RegisteredView
<1>4. CASE midi
  <2>1. /\ last_obj_id' = last_obj_id + 2 /\ objects' = objects \cup {r, r + 1}
        /\ Distribute(<<Msg("create", r), Msg("create", r + 1)>>)
    BY <1>1, <1>4, RegisteredView
  <2>2. last_obj_id' = r + 1 /\ r + 1 =< MaxId
    BY <1>1, <1>2, <1>3, <2>1
  <2> QED BY <1>1, <1>3, <2>1, <2>2, PairTyped
<1>5. CASE ~midi
  <2>1. /\ last_obj_id' = r /\ objects' = objects \cup {r}
        /\ Distribute(<<Msg("create", r)>>)
    BY <1>1, <1>5, RegisteredView
  <2>2. /\ last_obj_id' \in Nat /\ last_obj_id' >= last_obj_id
        /\ objects' \subseteq 0..last_obj_id' /\ agents' \subseteq Conns
        /\ r \in Nat /\ r =< last_obj_id'
    BY <1>1, <1>2, <1>3, <2>1
  <2>3. /\ down' \in [Conns -> Seq(Message)]
        /\ \A c \in Conns : \A k \in 1..Len(down'[c]) : down'[c][k].id =< last_obj_id'
        /\ \A c \in Conns : phase[c] # "open" => down'[c] = down[c]
    BY <2>1, <2>2, DistributeOne
  <2> QED BY <1>3, <2>2, <2>3, TypesKept
<1> QED BY <1>4, <1>5

LEMMA TypesStep == IdsInv /\ PhaseInv /\ [Next]_vars => IdsInv' /\ PhaseInv'
<1> SUFFICES ASSUME IdsInv, PhaseInv, [Next]_vars PROVE IdsInv' /\ PhaseInv'
  OBVIOUS
<1>1. ASSUME NEW c \in Conns, Serve(c) PROVE IdsInv' /\ PhaseInv'
  BY <1>1, ServeTyped
<1>2. ASSUME NEW c \in Conns, ServerDrop(c) PROVE IdsInv' /\ PhaseInv'
  BY <1>2, StillTyped DEF ServerDrop, server_vars, client_vars
<1>3. ASSUME NEW id \in Ids, MachineUnregistered(id) PROVE IdsInv' /\ PhaseInv'
  <2>1. id \in objects /\ Distribute(<<Msg("delete", id)>>)
    BY <1>3 DEF MachineUnregistered, DeleteObject
  <2> QED BY <1>3, <2>1, StillTyped DEF MachineUnregistered, DeleteObject, client_vars
<1>4. ASSUME NEW id \in Ids, RemoveObject(id) PROVE IdsInv' /\ PhaseInv'
  <2>1. \/ id \in objects /\ Distribute(<<Msg("delete", id)>>)
        \/ down' = down
    BY <1>4 DEF RemoveObject, DeleteObject
  <2>2. objects' \subseteq objects
    BY <1>4 DEF RemoveObject, DeleteObject
  <2> QED BY <1>4, <2>1, <2>2, StillTyped DEF RemoveObject, client_vars
<1>5. ASSUME NEW c \in Conns, Accept(c) PROVE IdsInv' /\ PhaseInv'
  BY <1>5, AcceptTyped
<1>6. ASSUME NEW c \in Conns, Receive(c) PROVE IdsInv' /\ PhaseInv'
  BY <1>6, ReceiveTyped
<1>7. ASSUME NEW c \in Conns, Close(c) PROVE IdsInv' /\ PhaseInv'
  BY <1>7, CloseTyped
<1>8. ASSUME NEW c \in Conns, NEW id \in Ids, NEW type \in {"update", "query", "remove"},
             Request(c, type, id)
      PROVE  IdsInv' /\ PhaseInv'
  BY <1>8, StillTyped DEF Request, server_vars
<1>9. ASSUME NEW midi \in BOOLEAN, MachineRegistered(midi) PROVE IdsInv' /\ PhaseInv'
  BY <1>9, RegisteredTyped
<1>10. CASE SequenceInitFails \/ DestroyedBefore \/ TiedLate
  BY <1>10, PairTyped DEF SequenceInitFails, DestroyedBefore, TiedLate, client_vars
<1>11. ASSUME NEW id \in Ids, DestroyMachine(id) \/ DestroyOrphan(id)
       PROVE  IdsInv' /\ PhaseInv'
  BY <1>11, StillTyped DEF DestroyMachine, DestroyOrphan, client_vars
<1>12. ASSUME NEW id \in Ids, ServerUpdate(id) PROVE IdsInv' /\ PhaseInv'
  <2>1. id \in objects /\ Distribute(<<Msg("update", id)>>)
    BY <1>12 DEF ServerUpdate, RIMachines
  <2> QED BY <1>12, <2>1, StillTyped DEF ServerUpdate, server_vars, client_vars
<1>13. CASE UNCHANGED vars
  BY <1>13, StillTyped DEF vars, server_vars, client_vars
<1> QED BY <1>1, <1>2, <1>3, <1>4, <1>5, <1>6, <1>7, <1>8, <1>9, <1>10, <1>11, <1>12,
           <1>13 DEF Next, Server

-----------------------------------------------------------------------------
(* What the server appends keeps a stream fitting, and takes its outcome   *)
(* where the server's objects go.                                          *)
LEMMA AppendKeeps ==
  ASSUME NEW s \in Seq(Message), NEW R, NEW O, Fits(s, R, O), NEW m \in Message,
         \/ m.type = "reply"
         \/ /\ m.type \in {"update", "delete"} /\ m.id \in Outcome(s, R) \cup O
            /\ \A k \in 1..Len(s) : s[k].type = "delete" => s[k].id # m.id
         \/ /\ m.type = "create" /\ m.id \in Ids /\ m.id \notin R
            /\ \A k \in 1..Len(s) : s[k].id # m.id
  PROVE  /\ Fits(Append(s, m), R, O)
         /\ Outcome(Append(s, m), R) = Applied(m, Outcome(s, R))
<1>1. m.type # "reply" => \A k \in 1..Len(s) : s[k].type = "delete" => s[k].id # m.id
  OBVIOUS
<1>2. m.type = "update" =>
        m.id \in R \cup O \/ \E k \in 1..Len(s) : s[k].type = "create" /\ s[k].id = m.id
  <2> SUFFICES ASSUME m.type = "update", m.id \notin R \cup O
               PROVE  \E k \in 1..Len(s) : s[k].type = "create" /\ s[k].id = m.id
    OBVIOUS
  <2>1. \E k \in 1..Len(s) : s[k] = Msg("create", m.id)
    BY DEF Outcome
  <2> QED BY <2>1, MsgFields
<1>3. Fits(Append(s, m), R, O)
  BY <1>1, <1>2, FitsAppend
<1>4. Outcome(Append(s, m), R) = Applied(m, Outcome(s, R)) \cap Ids
  BY <1>1, OutcomeAppend
<1>5. Outcome(s, R) \subseteq Ids
  BY DEF Outcome
<1>6. Applied(m, Outcome(s, R)) \subseteq Ids
  BY <1>5 DEF Applied
<1> QED BY <1>3, <1>4, <1>6

(* More objects may go unannounced.                                        *)
LEMMA FitsMore ==
  ASSUME NEW s, NEW R, NEW O, NEW X, Fits(s, R, O)
  PROVE  Fits(s, R, O \cup X)
BY DEF Fits, UpdatesKnown

LEMMA FollowsApplied ==
  ASSUME NEW P, NEW Q, NEW O, NEW X, NEW m, Follows(P, Q, O)
  PROVE  Follows(Applied(m, P), Applied(m, Q) \cup X, O \cup X)
<1>1. CASE m.type = "create"
  BY <1>1 DEF Follows, Applied
<1>2. CASE m.type = "delete"
  BY <1>2 DEF Follows, Applied
<1>3. CASE m.type # "create" /\ m.type # "delete"
  BY <1>3 DEF Follows, Applied
<1> QED BY <1>1, <1>2, <1>3

(* An id that was not given out yet is named nowhere.                      *)
LEMMA FreshId ==
  ASSUME IdsInv, NEW c \in Conns, NEW id \in Nat, id > last_obj_id
  PROVE  id \notin replica[c] /\ \A k \in 1..Len(down[c]) : down[c][k].id # id
<1>1. last_obj_id \in Nat /\ replica[c] \subseteq 0..last_obj_id
  BY DEF IdsInv
<1>2. id \notin replica[c]
  BY <1>1
<1>3. \A k \in 1..Len(down[c]) : down[c][k] \in Message /\ down[c][k].id =< last_obj_id
  BY DEF IdsInv
<1>4. \A k \in 1..Len(down[c]) : down[c][k].id \in Nat
  BY <1>3 DEF Message
<1> QED BY <1>1, <1>2, <1>3, <1>4

LEMMA DeletedGoneAppend ==
  ASSUME NEW s \in Seq(Message), NEW m \in Message, NEW Q, NEW Q2, DeletedGone(s, Q),
         \A k \in 1..Len(s) : s[k].id \in Q2 => s[k].id \in Q,
         m.type = "delete" => m.id \notin Q2
  PROVE  DeletedGone(Append(s, m), Q2) /\ DeletedGone(s, Q2)
<1>1. DeletedGone(s, Q2)
  BY DEF DeletedGone
<1>2. /\ Len(s) \in Nat /\ Len(Append(s, m)) = Len(s) + 1
      /\ \A k \in 1..Len(s) : Append(s, m)[k] = s[k]
      /\ Append(s, m)[Len(s) + 1] = m
  BY AppendView
<1>3. \A k \in 1..(Len(s) + 1) : k \in 1..Len(s) \/ k = Len(s) + 1
  BY <1>2
<1> QED BY <1>1, <1>2, <1>3 DEF DeletedGone

(* A message m is sent to everyone. With the creation of a machine comes,  *)
(* if it fails, a Sequence that is not announced: X.                       *)
LEMMA AnnounceKeeps ==
  ASSUME FollowInv, NEW c \in Conns, NEW m \in Message, NEW X,
         \A x \in X : x \in Nat /\ x > last_obj_id,
         UNCHANGED <<phase, told, replica>>, agents' \subseteq agents,
         Distribute(<<m>>),
         objects' = Applied(m, objects) \cup X, orphans' = orphans \cup X,
         \/ m.type \in {"update", "delete"} /\ m.id \in objects
         \/ m.type = "create" /\ m.id \in Ids /\ m.id > last_obj_id
  PROVE  StreamInv(c)'
<1> DEFINE s == down[c]
           R == replica[c]
           P == Outcome(s, R)
<1>1. IdsInv /\ StreamInv(c) /\ s \in Seq(Message) /\ last_obj_id \in Nat
  BY DEF FollowInv, IdsInv
<1>2. down'[c] = IF c \in agents /\ phase[c] = "open" THEN Append(s, m) ELSE s
  <2>1. down'[c] = IF c \in agents /\ phase[c] = "open" THEN s \o <<m>> ELSE s
    BY DEF Distribute
  <2>2. s \o <<m>> = Append(s, m)
    BY <1>1, AppendView
  <2> QED BY <2>1, <2>2
<1>3. \A x \in X : \A k \in 1..Len(s) : s[k].id # x
  BY <1>1, FreshId
<1>4. m.type = "create" => m.id \notin R /\ \A k \in 1..Len(s) : s[k].id # m.id
  BY <1>1, FreshId DEF Message
<1>5. DeletedGone(Append(s, m), objects') /\ DeletedGone(s, objects')
  <2>1. DeletedGone(s, objects)
    BY <1>1 DEF StreamInv
  <2>2. \A k \in 1..Len(s) : s[k].id \in objects' => s[k].id \in objects
    <3>1. CASE m.type = "create"
      BY <1>3, <1>4, <3>1 DEF Applied
    <3>2. CASE m.type # "create"
      BY <1>3, <3>2 DEF Applied
    <3> QED BY <3>1, <3>2
  <2>3. m.type = "delete" => m.id \notin objects'
    <3>1. \A id \in objects : id \in Nat /\ id =< last_obj_id
      BY <1>1 DEF IdsInv
    <3>2. m.type = "delete" => m.id \notin X
      BY <1>1, <3>1
    <3> QED BY <3>2 DEF Applied
  <2> QED BY <1>1, <2>1, <2>2, <2>3, DeletedGoneAppend
<1> HIDE DEF s, R, P
<1>6. CASE c \in agents /\ phase[c] = "open" /\ ~told[c]
  <2>1. Fits(s, R, orphans) /\ Follows(P, objects, orphans) /\ DeletedGone(s, objects)
    BY <1>1, <1>6 DEF StreamInv, s, R, P
  <2>2. m.type \in {"update", "delete"} =>
          /\ m.id \in P \cup orphans
          /\ \A k \in 1..Len(s) : s[k].type = "delete" => s[k].id # m.id
    BY <2>1 DEF Follows, DeletedGone
  <2>3. Fits(Append(s, m), R, orphans) /\ Outcome(Append(s, m), R) = Applied(m, P)
    BY <1>1, <1>4, <2>1, <2>2, AppendKeeps DEF P
  <2>4. Fits(Append(s, m), R, orphans')
    BY <2>3, FitsMore
  <2>5. Follows(Applied(m, P), objects', orphans')
    BY <2>1, FollowsApplied
  <2> QED BY <1>2, <1>5, <1>6, <2>3, <2>4, <2>5 DEF StreamInv, R
<1>7. CASE ~(c \in agents /\ phase[c] = "open" /\ ~told[c])
  <2>1. ~(c \in agents' /\ phase'[c] = "open" /\ ~told'[c])
    BY <1>7
  <2>2. CASE phase[c] = "open" /\ ~told[c]
    <3>1. down'[c] = s /\ Fits(s, R, orphans)
      BY <1>1, <1>2, <1>7, <2>2 DEF StreamInv, s, R
    <3>2. Fits(s, R, orphans')
      BY <3>1, FitsMore
    <3> QED BY <1>5, <2>1, <3>1, <3>2 DEF StreamInv, R
  <2>3. CASE ~(phase[c] = "open" /\ ~told[c])
    BY <1>2, <1>5, <2>1, <2>3 DEF StreamInv
  <2> QED BY <2>2, <2>3
<1> QED BY <1>6, <1>7

LEMMA AnnounceOnly ==
  ASSUME FollowInv, NEW c \in Conns, NEW m \in Message,
         UNCHANGED <<phase, told, replica>>, agents' \subseteq agents,
         Distribute(<<m>>), objects' = Applied(m, objects), orphans' = orphans,
         \/ m.type \in {"update", "delete"} /\ m.id \in objects
         \/ m.type = "create" /\ m.id \in Ids /\ m.id > last_obj_id
  PROVE  StreamInv(c)'
<1>1. PICK X : X = {}
  OBVIOUS
<1>2. /\ \A x \in X : x \in Nat /\ x > last_obj_id
      /\ objects' = Applied(m, objects) \cup X /\ orphans' = orphans \cup X
  BY <1>1
<1> QED BY <1>2, AnnounceKeeps

(* Both objects of a machine with a midi input are announced at once.      *)
LEMMA AnnounceTwoKeeps ==
  ASSUME FollowInv, NEW c \in Conns, NEW r \in Nat, r > last_obj_id, r + 1 =< MaxId,
         UNCHANGED <<phase, told, replica>>, agents' \subseteq agents,
         Distribute(<<Msg("create", r), Msg("create", r + 1)>>),
         objects' = objects \cup {r, r + 1}, orphans' = orphans
  PROVE  StreamInv(c)'
<1>1. /\ IdsInv /\ StreamInv(c) /\ down[c] \in Seq(Message) /\ last_obj_id \in Nat
      /\ MaxId \in Nat
  BY ReplicationAssumption DEF FollowInv, IdsInv
<1>2. PICK d, e : d = Msg("create", r) /\ e = Msg("create", r + 1)
  OBVIOUS
<1>3. /\ d \in Message /\ d.type = "create" /\ d.id = r
      /\ e \in Message /\ e.type = "create" /\ e.id = r + 1
  BY <1>2, MsgTyped, MsgFields
<1>4. r \in Ids /\ r + 1 \in Ids /\ r + 1 # r /\ r + 1 > last_obj_id /\ r + 1 \in Nat
  BY <1>1 DEF Ids
<1>5. PICK s : s = down[c]
  OBVIOUS
<1>6. PICK t : t = Append(s, d)
  OBVIOUS
<1>7. down'[c] = IF c \in agents /\ phase[c] = "open" THEN Append(t, e) ELSE s
  <2>1. down'[c] = IF c \in agents /\ phase[c] = "open" THEN s \o <<d, e>> ELSE s
    BY <1>2, <1>5 DEF Distribute
  <2>2. s \o <<d, e>> = Append(t, e)
    BY <1>1, <1>3, <1>5, <1>6, TwoView
  <2> QED BY <2>1, <2>2
<1>8. /\ r \notin replica[c] /\ r + 1 \notin replica[c]
      /\ \A k \in 1..Len(s) : s[k].id # r /\ s[k].id # r + 1
  BY <1>1, <1>4, <1>5, FreshId
<1>9. t \in Seq(Message) /\ \A k \in 1..Len(t) : t[k].id # r + 1
  <2>1. /\ Len(s) \in Nat /\ Len(t) = Len(s) + 1 /\ t \in Seq(Message)
        /\ \A k \in 1..Len(s) : t[k] = s[k]
        /\ t[Len(s) + 1] = d
    BY <1>1, <1>3, <1>5, <1>6, AppendView
  <2>2. \A k \in 1..Len(t) : k \in 1..Len(s) \/ k = Len(s) + 1
    BY <2>1
  <2> QED BY <1>3, <1>4, <1>8, <2>1, <2>2
<1>10. DeletedGone(s, objects') /\ DeletedGone(Append(t, e), objects')
  <2>1. DeletedGone(s, objects)
    BY <1>1, <1>5 DEF StreamInv
  <2>2. DeletedGone(s, objects \cup {r}) /\ DeletedGone(t, objects \cup {r})
    BY <1>1, <1>3, <1>5, <1>6, <1>8, <2>1, DeletedGoneAppend
  <2>3. DeletedGone(s, objects')
    BY <1>8, <2>1 DEF DeletedGone
  <2>4. DeletedGone(Append(t, e), objects')
    <3>1. PICK Q, Q2 : Q = objects \cup {r} /\ Q2 = objects'
      OBVIOUS
    <3>2. \A k \in 1..Len(t) : t[k].id \in Q2 => t[k].id \in Q
      BY <1>9, <3>1
    <3>3. DeletedGone(t, Q) /\ (e.type = "delete" => e.id \notin Q2)
      BY <1>3, <2>2, <3>1
    <3>4. DeletedGone(Append(t, e), Q2)
      BY <1>3, <1>9, <3>2, <3>3, DeletedGoneAppend
    <3> QED BY <3>1, <3>4
  <2> QED BY <2>3, <2>4
<1>11. CASE c \in agents /\ phase[c] = "open" /\ ~told[c]
  <2>1. /\ Fits(s, replica[c], orphans)
        /\ Follows(Outcome(s, replica[c]), objects, orphans)
    BY <1>1, <1>5, <1>11 DEF StreamInv
  <2>2. /\ Fits(t, replica[c], orphans)
        /\ Outcome(t, replica[c]) = Applied(d, Outcome(s, replica[c]))
    BY <1>1, <1>3, <1>4, <1>5, <1>6, <1>8, <2>1, AppendKeeps
  <2>3. /\ Fits(Append(t, e), replica[c], orphans)
        /\ Outcome(Append(t, e), replica[c]) = Applied(e, Outcome(t, replica[c]))
    BY <1>3, <1>4, <1>8, <1>9, <2>2, AppendKeeps
  <2>4. Applied(e, Outcome(t, replica[c])) = Outcome(s, replica[c]) \cup {r, r + 1}
    BY <1>3, <2>2 DEF Applied
  <2>5. Follows(Outcome(s, replica[c]) \cup {r, r + 1}, objects', orphans)
    BY <2>1 DEF Follows
  <2> QED BY <1>7, <1>10, <1>11, <2>3, <2>4, <2>5 DEF StreamInv
<1>12. CASE ~(c \in agents /\ phase[c] = "open" /\ ~told[c])
  <2>1. ~(c \in agents' /\ phase'[c] = "open" /\ ~told'[c])
    BY <1>12
  <2>2. CASE phase[c] = "open" /\ ~told[c]
    <3>1. down'[c] = s /\ Fits(s, replica[c], orphans)
      BY <1>1, <1>5, <1>7, <1>12, <2>2 DEF StreamInv
    <3> QED BY <1>10, <2>1, <3>1 DEF StreamInv
  <2>3. CASE ~(phase[c] = "open" /\ ~told[c])
    BY <1>7, <1>10, <2>1, <2>3 DEF StreamInv
  <2> QED BY <2>2, <2>3
<1> QED BY <1>11, <1>12

LEMMA StreamSame ==
  ASSUME NEW c, StreamInv(c), objects' = objects, orphans' = orphans, down'[c] = down[c],
         replica'[c] = replica[c], phase'[c] = phase[c], told'[c] = told[c],
         c \in agents' => c \in agents
  PROVE  StreamInv(c)'
BY DEF StreamInv

LEMMA ServeStream ==
  ASSUME FollowInv, NEW c \in Conns, Serve(c), NEW d \in Conns
  PROVE  StreamInv(d)'
<1> DEFINE msg == Head(up[c])
<1>1. /\ UNCHANGED <<objects, orphans, phase, told, replica>>
      /\ agents' \subseteq agents
  BY DEF Serve, client_vars
<1>2. \/ down' = down
      \/ msg.id \in objects /\ Distribute(<<Msg("update", msg.id)>>)
      \/ down' = [down EXCEPT ![c] =
                    IF phase[c] = "open" THEN Append(down[c], Msg("reply", 0)) ELSE down[c]]
  BY DEF Serve
<1>3. StreamInv(d) /\ IdsInv
  BY DEF FollowInv
<1>4. CASE down' = down
  BY <1>1, <1>3, <1>4, StreamSame
<1>5. CASE msg.id \in objects /\ Distribute(<<Msg("update", msg.id)>>)
  <2>1. PICK m : m = Msg("update", msg.id)
    OBVIOUS
  <2>2. msg.id \in Nat
    <3>1. objects \subseteq Nat
      BY <1>3 DEF IdsInv
    <3> QED BY <1>5, <3>1
  <2>3. m \in Message /\ m.type = "update" /\ m.id \in objects
    BY <1>5, <2>1, <2>2, MsgTyped, MsgFields
  <2>4. /\ objects' = Applied(m, objects) /\ orphans' = orphans
        /\ Distribute(<<m>>)
    BY <1>1, <1>5, <2>1, <2>3 DEF Applied
  <2> QED BY <1>1, <2>3, <2>4, AnnounceOnly
<1>6. CASE down' = [down EXCEPT ![c] =
                  IF phase[c] = "open" THEN Append(down[c], Msg("reply", 0)) ELSE down[c]]
  <2>1. PICK m : m = Msg("reply", 0)
    OBVIOUS
  <2>2. m \in Message /\ m.type = "reply"
    BY <2>1, MsgTyped, MsgFields
  <2>3. down \in [Conns -> Seq(Message)]
    BY <1>3 DEF IdsInv
  <2>4. CASE down'[d] = down[d]
    BY <1>1, <1>3, <2>4, StreamSame
  <2>5. CASE down'[d] # down[d]
    <3>1. d = c /\ phase[c] = "open" /\ down'[d] = Append(down[d], m) /\ down[d] \in Seq(Message)
      BY <1>6, <2>1, <2>3, <2>5
    <3>2. DeletedGone(down'[d], objects')
      <4>1. DeletedGone(down[d], objects)
        BY <1>3 DEF StreamInv
      <4>2. \A k \in 1..Len(down[d]) : down[d][k].id \in objects => down[d][k].id \in objects
        OBVIOUS
      <4>3. DeletedGone(Append(down[d], m), objects)
        BY <2>2, <3>1, <4>1, <4>2, DeletedGoneAppend
      <4> QED BY <1>1, <3>1, <4>3
    <3>3. CASE ~told[d]
      <4>1. Fits(down[d], replica[d], orphans)
        BY <1>3, <3>1, <3>3 DEF StreamInv
      <4>2. /\ Fits(down'[d], replica[d], orphans)
            /\ Outcome(down'[d], replica[d]) = Applied(m, Outcome(down[d], replica[d]))
        BY <2>2, <3>1, <4>1, AppendKeeps
      <4>3. Outcome(down'[d], replica[d]) = Outcome(down[d], replica[d])
        BY <2>2, <4>2 DEF Applied
      <4> QED BY <1>1, <1>3, <3>1, <3>2, <4>2, <4>3 DEF StreamInv
    <3>4. CASE told[d]
      BY <1>1, <3>2, <3>4 DEF StreamInv
    <3> QED BY <3>3, <3>4
  <2> QED BY <2>4, <2>5
<1> QED BY <1>2, <1>4, <1>5, <1>6

LEMMA AcceptStream ==
  ASSUME FollowInv, NEW c \in Conns, Accept(c), NEW d \in Conns
  PROVE  StreamInv(d)'
<1>1. /\ phase[c] = "none" /\ phase' = [phase EXCEPT ![c] = "open"]
      /\ agents' = agents \cup {c}
      /\ UNCHANGED <<objects, orphans, last_obj_id, replica, told>>
  BY DEF Accept, Enlist, server_vars
<1>2. PICK ids \in [1..Cardinality(objects) -> objects] :
        /\ InMapOrder(ids)
        /\ down' = [down EXCEPT ![c] = [k \in DOMAIN ids |-> Msg("create", ids[k])]]
  BY DEF Accept
<1>3. PICK s : s = [k \in DOMAIN ids |-> Msg("create", ids[k])]
  OBVIOUS
<1>4. IdsInv /\ PhaseInv /\ StreamInv(d) /\ StreamInv(c)
  BY DEF FollowInv
<1>5. /\ down \in [Conns -> Seq(Message)]
      /\ phase \in [Conns -> {"none", "open", "closed"}]
  BY <1>4 DEF IdsInv, PhaseInv
<1>6. CASE d # c
  <2>1. down'[d] = down[d] /\ phase'[d] = phase[d]
    BY <1>1, <1>2, <1>5, <1>6
  <2> QED BY <1>1, <1>4, <1>6, <2>1, StreamSame
<1>7. CASE d = c
  <2>1. /\ s \in Seq(Message)
        /\ \A k \in 1..Len(s) : s[k].type = "create" /\ s[k].id \in objects
        /\ CreatesOnce(s)
        /\ \A id \in objects : \E k \in 1..Len(s) : s[k] = Msg("create", id)
    <3>1. Welcome(s)
      BY <1>2, <1>3, <1>4, WelcomeView
    <3> QED BY <3>1 DEF Welcome
  <2>2. down'[d] = s /\ phase'[d] = "open" /\ replica'[d] = {}
    BY <1>1, <1>2, <1>3, <1>4, <1>5, <1>7 DEF PhaseInv
  <2>3. Fits(s, {}, orphans)
    BY <2>1 DEF Fits, CreatesNew, UpdatesKnown, DeletesLast
  <2>4. Outcome(s, {}) = objects
    <3>1. \A id \in Ids : \A k \in 1..Len(s) : s[k] # Msg("delete", id)
      BY <2>1, MsgFields
    <3>2. \A id : (\E k \in 1..Len(s) : s[k] = Msg("create", id)) => id \in objects
      BY <2>1, MsgFields
    <3>3. objects \subseteq Ids
      BY <1>4, ReplicationAssumption DEF IdsInv, Ids
    <3> QED BY <2>1, <3>1, <3>2, <3>3 DEF Outcome
  <2>5. DeletedGone(s, objects) /\ Follows(Outcome(s, {}), objects, orphans)
    BY <2>1, <2>4 DEF DeletedGone, Follows
  <2> QED BY <1>1, <2>2, <2>3, <2>5 DEF StreamInv
<1> QED BY <1>6, <1>7

LEMMA ReceiveStream ==
  ASSUME FollowInv, NEW c \in Conns, Receive(c), NEW d \in Conns
  PROVE  StreamInv(d)'
<1>1. IdsInv /\ PhaseInv /\ StreamInv(d) /\ StreamInv(c)
  BY DEF FollowInv
<1>2. /\ down \in [Conns -> Seq(Message)] /\ told \in [Conns -> BOOLEAN]
      /\ replica \in [Conns -> SUBSET (0..last_obj_id)]
  BY <1>1 DEF IdsInv, PhaseInv
<1>3. PICK m : m = down[c][1]
  OBVIOUS
<1>4. /\ phase[c] = "open" /\ m \in Message /\ down[c] # <<>>
      /\ down' = [down EXCEPT ![c] = Tail(down[c])]
      /\ \/ replica' = [replica EXCEPT ![c] = Applied(m, replica[c])] /\ told' = told
         \/ /\ replica' = [replica EXCEPT ![c] = {}]
            /\ told' = [told EXCEPT ![c] = TRUE]
            /\ \/ m.type = "create" /\ m.id \in replica[c]
               \/ m.type = "update" /\ m.id \notin replica[c]
      /\ UNCHANGED <<objects, orphans, agents, phase>>
  BY <1>1, <1>3, ReceiveTail
<1>5. CASE d # c
  <2>1. down'[d] = down[d] /\ replica'[d] = replica[d] /\ told'[d] = told[d]
    BY <1>2, <1>4, <1>5
  <2> QED BY <1>1, <1>4, <2>1, StreamSame
<1>6. CASE d = c
  <2>1. down[c] \in Seq(Message) /\ down'[c] = Tail(down[c])
    BY <1>2, <1>4
  <2>2. DeletedGone(Tail(down[c]), objects)
    <3>1. PICK s : s = down[c]
      OBVIOUS
    <3>2. s \in Seq(Message) /\ s # <<>> /\ DeletedGone(s, objects)
      BY <1>1, <1>4, <2>1, <3>1 DEF StreamInv
    <3>3. /\ Len(s) \in Nat /\ Len(Tail(s)) = Len(s) - 1
          /\ \A k \in 1..(Len(s) - 1) : Tail(s)[k] = s[k + 1] /\ k + 1 \in 1..Len(s)
      BY <3>2, TailView
    <3> QED BY <3>1, <3>2, <3>3 DEF DeletedGone
  <2>3. CASE told'[c]
    BY <1>4, <1>6, <2>1, <2>2, <2>3 DEF StreamInv
  <2>4. CASE ~told'[c]
    <3>1. replica'[c] = Applied(m, replica[c]) /\ told' = told
      BY <1>2, <1>4, <2>4
    <3>2. Fits(down[c], replica[c], orphans)
      BY <1>1, <1>4, <2>4, <3>1 DEF StreamInv
    <3>3. /\ Fits(down'[c], replica'[c], orphans)
          /\ Outcome(down'[c], replica'[c]) = Outcome(down[c], replica[c])
      BY <1>3, <1>4, <2>1, <3>1, <3>2, FitsTail, OutcomeTail
    <3> QED BY <1>1, <1>4, <1>6, <2>1, <2>2, <3>1, <3>3 DEF StreamInv
  <2> QED BY <2>3, <2>4
<1> QED BY <1>5, <1>6

LEMMA CloseStream ==
  ASSUME FollowInv, NEW c \in Conns, Close(c), NEW d \in Conns
  PROVE  StreamInv(d)'
<1>1. /\ phase' = [phase EXCEPT ![c] = "closed"]
      /\ replica' = [replica EXCEPT ![c] = {}]
      /\ told' = [told EXCEPT ![c] = TRUE]
      /\ down' = [down EXCEPT ![c] = <<>>]
      /\ UNCHANGED <<objects, orphans, agents>>
  BY DEF Close, Dropped, server_vars
<1>2. /\ down \in [Conns -> Seq(Message)] /\ told \in [Conns -> BOOLEAN]
      /\ replica \in [Conns -> SUBSET (0..last_obj_id)]
      /\ phase \in [Conns -> {"none", "open", "closed"}] /\ StreamInv(d)
  BY DEF FollowInv, IdsInv, PhaseInv
<1>3. CASE d = c
  <2>1. down'[d] = <<>> /\ phase'[d] = "closed"
    BY <1>1, <1>2, <1>3
  <2> QED BY <2>1 DEF StreamInv, DeletedGone
<1>4. CASE d # c
  BY <1>1, <1>2, <1>4, StreamSame
<1> QED BY <1>3, <1>4

LEMMA DeleteStream ==
  ASSUME FollowInv, NEW id \in objects, DeleteObject(id),
         UNCHANGED <<phase, told, replica, agents, orphans>>, NEW d \in Conns
  PROVE  StreamInv(d)'
<1>1. PICK m : m = Msg("delete", id)
  OBVIOUS
<1>2. id \in Nat
  BY DEF FollowInv, IdsInv
<1>3. m \in Message /\ m.type = "delete" /\ m.id = id
  BY <1>1, <1>2, MsgTyped, MsgFields
<1>4. /\ objects' = Applied(m, objects) /\ orphans' = orphans
      /\ Distribute(<<m>>)
  BY <1>1, <1>3 DEF DeleteObject, Applied
<1> QED BY <1>3, <1>4, AnnounceOnly

LEMMA FollowStep ==
  ASSUME FollowInv, [Next]_vars
  PROVE  FollowInv'
<1>0. IdsInv /\ PhaseInv /\ \A d \in Conns : StreamInv(d)
  BY DEF FollowInv
<1>1. IdsInv' /\ PhaseInv'
  BY <1>0, TypesStep
<1> SUFFICES ASSUME NEW d \in Conns PROVE StreamInv(d)'
  BY <1>1 DEF FollowInv
<1>2. ASSUME NEW c \in Conns, Serve(c) PROVE StreamInv(d)'
  BY <1>2, ServeStream
<1>3. ASSUME NEW c \in Conns, ServerDrop(c) PROVE StreamInv(d)'
  BY <1>0, <1>3, StreamSame DEF ServerDrop, server_vars, client_vars
<1>4. ASSUME NEW id \in Ids, MachineUnregistered(id) PROVE StreamInv(d)'
  BY <1>4, DeleteStream DEF MachineUnregistered, client_vars
<1>5. ASSUME NEW id \in Ids, RemoveObject(id) PROVE StreamInv(d)'
  <2>1. UNCHANGED <<phase, told, replica, agents, orphans>>
    BY <1>5 DEF RemoveObject, client_vars
  <2>2. CASE id \in objects /\ DeleteObject(id)
    BY <2>1, <2>2, DeleteStream
  <2>3. CASE UNCHANGED <<objects, down>>
    BY <1>0, <2>1, <2>3, StreamSame
  <2> QED BY <1>5, <2>2, <2>3 DEF RemoveObject
<1>6. ASSUME NEW c \in Conns, Accept(c) PROVE StreamInv(d)'
  BY <1>6, AcceptStream
<1>7. ASSUME NEW c \in Conns, Receive(c) PROVE StreamInv(d)'
  BY <1>7, ReceiveStream
<1>8. ASSUME NEW c \in Conns, Close(c) PROVE StreamInv(d)'
  BY <1>8, CloseStream
<1>9. ASSUME NEW c \in Conns, NEW id \in Ids, NEW type \in {"update", "query", "remove"},
             Request(c, type, id)
      PROVE  StreamInv(d)'
  BY <1>0, <1>9, StreamSame DEF Request, server_vars
<1>10. ASSUME NEW midi \in BOOLEAN, MachineRegistered(midi) PROVE StreamInv(d)'
  <2>1. PICK r : r = last_obj_id + 1
    OBVIOUS
  <2>2. last_obj_id \in Nat /\ r \in Nat /\ r > last_obj_id /\ MaxId \in Nat
    BY <1>0, <2>1, ReplicationAssumption DEF IdsInv
  <2>3. UNCHANGED <<phase, told, replica, agents, orphans>>
    BY <1>0, <1>10, RegisteredView
  <2>4. CASE midi
    <3>1. /\ last_obj_id' =< MaxId /\ last_obj_id' = last_obj_id + 2
          /\ objects' = objects \cup {r, r + 1}
          /\ Distribute(<<Msg("create", r), Msg("create", r + 1)>>)
      BY <1>0, <1>10, <2>1, <2>4, RegisteredView
    <3>2. r + 1 =< MaxId
      BY <2>1, <2>2, <3>1
    <3> QED BY <2>2, <2>3, <3>1, <3>2, AnnounceTwoKeeps
  <2>5. CASE ~midi
    <3>1. /\ r =< MaxId /\ objects' = objects \cup {r}
          /\ Distribute(<<Msg("create", r)>>)
      BY <1>0, <1>10, <2>1, <2>2, <2>5, RegisteredView
    <3>2. PICK m : m = Msg("create", r)
      OBVIOUS
    <3>3. m \in Message /\ m.type = "create" /\ m.id = r
      BY <2>2, <3>2, MsgTyped, MsgFields
    <3>4. /\ objects' = Applied(m, objects) /\ orphans' = orphans
          /\ Distribute(<<m>>) /\ r \in Ids
      BY <2>2, <2>3, <3>1, <3>2, <3>3 DEF Applied, Ids
    <3> QED BY <2>2, <2>3, <3>3, <3>4, AnnounceOnly
  <2> QED BY <2>4, <2>5
<1>11. ASSUME NEW id \in Ids, DestroyMachine(id) \/ DestroyOrphan(id)
       PROVE  StreamInv(d)'
  BY <1>0, <1>11, StreamSame DEF DestroyMachine, DestroyOrphan, client_vars
<1>12. ASSUME NEW id \in Ids, ServerUpdate(id) PROVE StreamInv(d)'
  <2>1. /\ id \in objects /\ Distribute(<<Msg("update", id)>>)
        /\ UNCHANGED <<objects, phase, told, replica, agents, orphans>>
    BY <1>12 DEF ServerUpdate, RIMachines, server_vars, client_vars
  <2>2. PICK m : m = Msg("update", id)
    OBVIOUS
  <2>3. id \in Nat
    BY ReplicationAssumption DEF Ids
  <2>4. m \in Message /\ m.type = "update" /\ m.id = id
    BY <2>2, <2>3, MsgTyped, MsgFields
  <2>5. /\ objects' = Applied(m, objects) /\ orphans' = orphans
        /\ Distribute(<<m>>)
    BY <2>1, <2>2, <2>4 DEF Applied
  <2> QED BY <2>1, <2>4, <2>5, AnnounceOnly
<1>13. CASE UNCHANGED vars
  BY <1>0, <1>13, StreamSame DEF vars, server_vars, client_vars
<1>14. CASE SequenceInitFails \/ DestroyedBefore
  <2>1. PICK r : r = last_obj_id + 1
    OBVIOUS
  <2>2. /\ r + 1 =< MaxId /\ objects' = objects \cup {r, r + 1}
        /\ orphans' = orphans \cup {r + 1}
        /\ Distribute(<<Msg("create", r)>>)
        /\ UNCHANGED <<phase, told, replica, agents>>
    BY <1>14, <2>1 DEF SequenceInitFails, DestroyedBefore, client_vars
  <2>3. /\ last_obj_id \in Nat /\ r \in Nat /\ r > last_obj_id /\ r \in Ids
        /\ \A x \in {r + 1} : x \in Nat /\ x > last_obj_id
    BY <1>0, <2>1, <2>2, ReplicationAssumption DEF IdsInv, Ids
  <2>4. PICK m : m = Msg("create", r)
    OBVIOUS
  <2>5. m \in Message /\ m.type = "create" /\ m.id = r
    BY <2>3, <2>4, MsgTyped, MsgFields
  <2>6. PICK X : X = {r + 1}
    OBVIOUS
  <2>7. /\ objects' = Applied(m, objects) \cup X /\ orphans' = orphans \cup X
        /\ Distribute(<<m>>) /\ agents' \subseteq agents
        /\ \A x \in X : x \in Nat /\ x > last_obj_id
    BY <2>2, <2>3, <2>4, <2>5, <2>6 DEF Applied
  <2> QED BY <2>2, <2>3, <2>5, <2>7, AnnounceKeeps
<1>15. CASE TiedLate
  <2>1. PICK r : r = last_obj_id + 1
    OBVIOUS
  <2>2. /\ r + 1 =< MaxId /\ objects' = objects \cup {r, r + 1} /\ orphans' = orphans
        /\ Distribute(<<Msg("create", r), Msg("create", r + 1)>>)
        /\ UNCHANGED <<phase, told, replica, agents>>
    BY <1>15, <2>1 DEF TiedLate, client_vars
  <2>3. r \in Nat /\ r > last_obj_id
    BY <1>0, <2>1 DEF IdsInv
  <2> QED BY <2>2, <2>3, AnnounceTwoKeeps
<1> QED BY <1>2, <1>3, <1>4, <1>5, <1>6, <1>7, <1>8, <1>9, <1>10, <1>11, <1>12, <1>13,
           <1>14, <1>15 DEF Next, Server

LEMMA FollowImplies == FollowInv => ReplicaFollows
<1> SUFFICES ASSUME FollowInv, NEW c \in agents, phase[c] = "open", ~told[c]
             PROVE  Follows(Expected(c), objects, orphans)
  BY DEF ReplicaFollows, Follows
<1>1. c \in Conns /\ down[c] \in Seq(Message)
  BY DEF FollowInv, PhaseInv, IdsInv
<1>2. Follows(Outcome(down[c], replica[c]), objects, orphans)
  BY <1>1 DEF FollowInv, StreamInv
<1>3. ToSet(down[c]) = {down[c][k] : k \in 1..Len(down[c])}
  BY <1>1 DEF ToSet
<1>4. Expected(c) = Outcome(down[c], replica[c])
  BY <1>3 DEF Expected, Outcome
<1> QED BY <1>2, <1>4

(* What a client has, once everything under way to it has arrived, is what *)
(* the server has, but for Sequences that failed to be initialised:        *)
(* however many clients connect at whatever moment, whoever removes what   *)
(* while others use it, and wherever in its registration a machine is      *)
(* destroyed.                                                              *)
THEOREM ReplicaFollowsAlways == Spec => []ReplicaFollows
<1>1. FollowInv /\ [Next]_vars => FollowInv'
  BY FollowStep
<1> QED BY <1>1, FollowInit, FollowImplies, PTL DEF Spec

(* The step that tells a client its connection is lost.                    *)
LEMMA DropStep ==
  ASSUME FollowInv, [Next]_vars, NEW c \in Conns, told'[c], ~told[c]
  PROVE  \/ phase'[c] = "closed"
         \/ Head(down[c]).type = "update" /\ Head(down[c]).id \in orphans
<1>1. /\ told \in [Conns -> BOOLEAN] /\ IdsInv /\ PhaseInv /\ StreamInv(c)
      /\ phase \in [Conns -> {"none", "open", "closed"}]
  BY DEF FollowInv, PhaseInv
<1>2. ASSUME NEW d \in Conns, Receive(d)
      PROVE  \/ phase'[c] = "closed"
             \/ Head(down[c]).type = "update" /\ Head(down[c]).id \in orphans
  <2>1. PICK m : m = down[d][1]
    OBVIOUS
  <2>2. /\ phase[d] = "open" /\ down[d] # <<>>
        /\ \/ told' = told
           \/ /\ told' = [told EXCEPT ![d] = TRUE]
              /\ \/ m.type = "create" /\ m.id \in replica[d]
                 \/ m.type = "update" /\ m.id \notin replica[d]
    BY <1>1, <1>2, <2>1, ReceiveTail
  <2>3. d = c
    BY <1>1, <2>2
  <2>4. down[c] \in Seq(Message)
    BY <1>1 DEF IdsInv
  <2>5. Fits(down[c], replica[c], orphans)
    BY <1>1, <2>2, <2>3 DEF StreamInv
  <2>6. /\ m.type = "create" => m.id \notin replica[c]
        /\ m.type = "update" => m.id \in replica[c] \cup orphans
    BY <2>1, <2>2, <2>3, <2>4, <2>5, FitsHead
  <2>7. Head(down[c]) = m
    BY <2>1, <2>2, <2>3, <2>4, TailView
  <2> QED BY <2>2, <2>3, <2>6, <2>7
<1>3. ASSUME NEW d \in Conns, Close(d)
      PROVE  phase'[c] = "closed"
  BY <1>1, <1>3 DEF Close, Dropped
<1>4. CASE UNCHANGED told
  BY <1>4
<1>5. CASE Next
  <2>1. ASSUME NEW d \in Conns, Serve(d) \/ ServerDrop(d) \/ Accept(d) PROVE UNCHANGED told
    BY <2>1 DEF Serve, ServerDrop, Accept, client_vars
  <2>2. ASSUME NEW id \in Ids, \/ MachineUnregistered(id) \/ RemoveObject(id)
                               \/ DestroyMachine(id) \/ DestroyOrphan(id) \/ ServerUpdate(id)
        PROVE  UNCHANGED told
    BY <2>2 DEF MachineUnregistered, RemoveObject, DestroyMachine, DestroyOrphan,
                ServerUpdate, client_vars
  <2>3. ASSUME NEW d \in Conns, NEW id \in Ids, NEW type \in {"update", "query", "remove"},
               Request(d, type, id)
        PROVE  UNCHANGED told
    BY <2>3 DEF Request
  <2>4. ASSUME NEW midi \in BOOLEAN, MachineRegistered(midi) PROVE UNCHANGED told
    BY <2>4 DEF MachineRegistered, client_vars
  <2>5. CASE SequenceInitFails \/ DestroyedBefore \/ TiedLate
    BY <2>5, <1>4 DEF SequenceInitFails, DestroyedBefore, TiedLate, client_vars
  <2> QED BY <1>2, <1>3, <1>4, <1>5, <2>1, <2>2, <2>3, <2>4, <2>5 DEF Next, Server
<1>6. CASE UNCHANGED vars
  BY <1>4, <1>6 DEF vars, client_vars
<1> QED BY <1>5, <1>6

(* No message that a client receives makes it take a connection that is up *)
(* for lost, but a change of a Sequence that was never announced to it.    *)
THEOREM NoSpuriousDropAlways == Spec => NoSpuriousDrop
<1>1. FollowInv /\ [Next]_vars => FollowInv'
  BY FollowStep
<1>2. FollowInv /\ [Next]_vars =>
        [\A c \in Conns : told'[c] /\ ~told[c] =>
           \/ phase'[c] = "closed"
           \/ Head(down[c]).type = "update" /\ Head(down[c]).id \in orphans]_vars
  BY DropStep
<1> QED BY <1>1, <1>2, FollowInit, PTL DEF Spec, NoSpuriousDrop
=============================================================================
