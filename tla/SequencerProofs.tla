-------------------------- MODULE SequencerProofs ---------------------------
(***************************************************************************)
(* What MachineSequencer is made of: the Sequence objects with their       *)
(* replicas (SequenceReplica), and the Pad with its recorded motions (Pad).*)
(*                                                                         *)
(* Pattern ids are unique, pattern instances do not overlap partially and  *)
(* replicas follow the server, whatever the number of Sequences, clients   *)
(* and requests.                                                           *)
(*                                                                         *)
(* The ids: the invariant is inductive with little more than its types,    *)
(* lemmas say what each process_* function does to the set of ids, and     *)
(* only two requests change it.                                            *)
(*                                                                         *)
(* The instances: inductive with their types (SpanInv). The search of      *)
(* process_add_pattern_instance refuses an instance that some old one is   *)
(* not compatible with, wherever it stops; an insertion or a removal then  *)
(* compares no two instances that were not compared before.                *)
(*                                                                         *)
(* The replicas (FollowInv): what a client will have once it has handled   *)
(* all that is under way to it agrees with the server on what the client   *)
(* has not missed. A request changes the server and appends commands whose *)
(* handling makes the same change; handling the first command moves it     *)
(* from what is under way into the replica. Both are facts about a fold    *)
(* over the commands, and need that patterns of the server have ids the    *)
(* server knows and that a client which has not missed a Sequence has it.  *)
(*                                                                         *)
(* The motions of a Pad (PadInv): the positions, motions, fingers and      *)
(* sessions have their types; what a finger refers to was not deleted; no  *)
(* two fingers refer to one motion, and none refers to it twice in a list; *)
(* every motion was deleted, lost, or is referred to; the recorded motions *)
(* of a finger are in the order in which they start, which is what its     *)
(* search for the next one relies on; and a note that sounds is the last   *)
(* one of a motion that plays and has not ended, or was cut. One pass of   *)
(* the audio thread is four nested folds (sessions, fingers, motions,      *)
(* positions): for each there is a lemma that says which sets its step     *)
(* stays in, and FoldStays takes that to the fold. ExportReturns needs in  *)
(* addition that the sessions which are not current were told to end.      *)
(***************************************************************************)
EXTENDS SequenceReplica, Pad, SequenceTheorems, FiniteSetTheorems, TLAPS

INSTANCE ListLemmas WITH Op <- HandleCmd

(* The ids of the patterns of a Sequence.                                  *)
Held(s) == DOMAIN s.patterns

(* The inductive invariant.                                                *)
IdInv ==
  /\ DOMAIN server = Seqs
  /\ total_amount \in Nat
  /\ IdsUnique

-----------------------------------------------------------------------------
(* process_add_pattern adds the new id, process_del_pattern removes it.    *)
LEMMA PatternIds ==
  ASSUME NEW s, NEW id
  PROVE  /\ Held(ProcessAddPattern(s, id)) = Held(s) \cup {id}
         /\ Held(ProcessDelPattern(s, id)) = Held(s) \ {id}
  BY DEF Held, ProcessAddPattern, ProcessDelPattern, WithPatterns

(* Instances and notes leave the ids alone.                                *)
LEMMA OtherIds ==
  ASSUME NEW s, NEW id, NEW x
  PROVE  /\ Held(ProcessAddPatternInstance(s, x)) = Held(s)
         /\ Held(ProcessDelPatternInstance(s, x)) = Held(s)
         /\ Held(ProcessAddNote(s, id, x)) = Held(s)
         /\ Held(ProcessDeleteNote(s, id, x)) = Held(s)
<1>1. \A p : Held(WithPatterns(s, p)) = DOMAIN p
  BY DEF Held, WithPatterns
<1>2. \A i : Held(WithInstances(s, i)) = Held(s)
  BY DEF Held, WithInstances
<1>3. \A e : DOMAIN [s.patterns EXCEPT ![id] = e] = Held(s)
  BY DEF Held
<1> QED BY <1>1, <1>2, <1>3
        DEF ProcessAddPatternInstance, ProcessDelPatternInstance,
            ProcessAddNote, ProcessDeleteNote

-----------------------------------------------------------------------------
LEMMA IdInvInit == Init => IdInv
<1> SUFFICES ASSUME Init PROVE IdInv
  OBVIOUS
<1>1. \A q \in Seqs : DOMAIN server[q].patterns = {}
  BY DEF Init, Empty
<1> QED BY <1>1, SequenceAssumption DEF Init, IdInv, IdsUnique

(* What becomes of one Sequence is what becomes of its ids.                *)
LEMMA OneSequence ==
  ASSUME IdInv, NEW q \in Seqs, NEW s, server' = [server EXCEPT ![q] = s]
  PROVE  /\ DOMAIN server' = Seqs
         /\ server'[q] = s
         /\ \A r \in Seqs \ {q} : Held(server'[r]) = Held(server[r])
  BY DEF IdInv

(* A request that leaves the ids of a Sequence and the pool alone.         *)
LEMMA SameIds ==
  ASSUME IdInv, NEW q \in Seqs, NEW s, server' = [server EXCEPT ![q] = s],
         Held(s) = Held(server[q]), UNCHANGED <<available_ids, total_amount>>
  PROVE  IdInv'
<1>1. DOMAIN server' = Seqs /\ \A r \in Seqs : Held(server'[r]) = Held(server[r])
  BY OneSequence
<1> QED BY <1>1 DEF IdInv, IdsUnique, Held

(* get_id gives an id that nobody has: from the pool, or the next one.     *)
LEMMA AddPatternStep ==
  ASSUME IdInv, NEW q \in Seqs, HandleReqAddPattern(q)
  PROVE  IdInv'
<1> DEFINE id == GetId
           s == ProcessAddPattern(server[q], id)
<1>1. server' = [server EXCEPT ![q] = s]
  BY DEF HandleReqAddPattern, IdInv
<1>2. DOMAIN server' = Seqs /\ Held(server'[q]) = Held(server[q]) \cup {id}
  <2>1. Held(s) = Held(server[q]) \cup {id}
    BY PatternIds
  <2> HIDE DEF s, id
  <2> QED BY <1>1, <2>1, OneSequence
<1>3. \A r \in Seqs \ {q} : Held(server'[r]) = Held(server[r])
  BY <1>1, OneSequence
<1>4. available_ids \subseteq Nat /\ total_amount \in Nat
  BY DEF IdInv, IdsUnique
<1>5. CASE available_ids = {}
  <2>1. id = total_amount /\ total_amount' = total_amount + 1 /\ available_ids' = {}
    BY <1>5 DEF GetId, HandleReqAddPattern
  <2>2. \A r \in Seqs : id \notin Held(server[r])
    BY <2>1, <1>4 DEF IdInv, IdsUnique, Held
  <2>3. 0..(total_amount' - 1) = 0..(total_amount - 1) \cup {id}
    BY <2>1, <1>4
  <2> QED BY <1>2, <1>3, <1>4, <1>5, <2>1, <2>2, <2>3 DEF IdInv, IdsUnique, Held
<1>6. CASE available_ids # {}
  <2>1. id \in available_ids
    BY <1>4, <1>6, MinIsMember DEF GetId
  <2>2. total_amount' = total_amount /\ available_ids' = available_ids \ {id}
    BY <1>6 DEF HandleReqAddPattern
  <2>3. \A r \in Seqs : id \notin Held(server[r])
    BY <2>1 DEF IdInv, IdsUnique, Held
  <2> QED BY <1>2, <1>3, <1>4, <2>1, <2>2, <2>3 DEF IdInv, IdsUnique, Held
<1> QED BY <1>5, <1>6

(* free_id gives back an id that its Sequence alone had.                   *)
LEMMA DelPatternStep ==
  ASSUME IdInv, NEW q \in Seqs, NEW id \in Ids, HandleReqDelPattern(q, id)
  PROVE  IdInv'
<1> DEFINE s == ProcessDelPattern(server[q], id)
<1>1. server' = [server EXCEPT ![q] = s]
  BY DEF HandleReqDelPattern, IdInv
<1>2. DOMAIN server' = Seqs /\ Held(server'[q]) = Held(server[q]) \ {id}
  <2>1. Held(s) = Held(server[q]) \ {id}
    BY PatternIds
  <2> HIDE DEF s
  <2> QED BY <1>1, <2>1, OneSequence
<1>3. \A r \in Seqs \ {q} : Held(server'[r]) = Held(server[r])
  BY <1>1, OneSequence
<1>4. /\ total_amount' = total_amount
      /\ available_ids' = IF id \in Held(server[q]) THEN available_ids \cup {id} ELSE available_ids
  BY DEF HandleReqDelPattern, Held
<1>5. \A r \in Seqs \ {q} : id \in Held(server[q]) => id \notin Held(server[r])
  BY DEF IdInv, IdsUnique, Held
<1> QED BY <1>2, <1>3, <1>4, <1>5 DEF IdInv, IdsUnique, Held

(* The other requests change instances or notes.                           *)
LEMMA OtherRequestStep ==
  ASSUME IdInv, NEW q \in Seqs, NEW id, NEW x,
         \/ HandleReqAddPatternInstance(q, x) \/ HandleReqDelPatternInstance(q, x)
         \/ HandleReqAddNote(q, id, x) \/ HandleReqDelNote(q, id, x)
  PROVE  IdInv'
<1>1. ASSUME NEW s, Held(s) = Held(server[q]), server' = [server EXCEPT ![q] = s],
             UNCHANGED <<available_ids, total_amount>>
      PROVE  IdInv'
  BY <1>1, SameIds
<1>2. CASE HandleReqAddPatternInstance(q, x)
  <2>1. Held(ProcessAddPatternInstance(server[q], x)) = Held(server[q])
    BY OtherIds
  <2> QED BY <1>1, <1>2, <2>1 DEF HandleReqAddPatternInstance
<1>3. CASE HandleReqDelPatternInstance(q, x)
  <2>1. Held(ProcessDelPatternInstance(server[q], x)) = Held(server[q])
    BY OtherIds
  <2> QED BY <1>1, <1>3, <2>1 DEF HandleReqDelPatternInstance
<1>4. CASE HandleReqAddNote(q, id, x)
  <2>1. Held(ProcessAddNote(server[q], id, x)) = Held(server[q])
    BY OtherIds
  <2> QED BY <1>1, <1>4, <2>1 DEF HandleReqAddNote
<1>5. CASE HandleReqDelNote(q, id, x)
  <2>1. Held(ProcessDeleteNote(server[q], id, x)) = Held(server[q])
    BY OtherIds
  <2> QED BY <1>1, <1>5, <2>1 DEF HandleReqDelNote
<1> QED BY <1>2, <1>3, <1>4, <1>5

(* The clients never change what the server has.                           *)
LEMMA ClientStep ==
  ASSUME IdInv, NEW c \in Conns, Connect(c) \/ Receive(c) \/ Disconnect(c)
  PROVE  IdInv'
<1>1. UNCHANGED server_vars
  BY DEF Connect, Receive, Disconnect
<1> QED BY <1>1 DEF server_vars, IdInv, IdsUnique

LEMMA IdStep ==
  ASSUME IdInv, [Next]_vars
  PROVE  IdInv'
<1>1. ASSUME NEW q \in Seqs, Serve(q) PROVE IdInv'
  BY <1>1, AddPatternStep, DelPatternStep, OtherRequestStep DEF Serve
<1>2. ASSUME NEW c \in Conns, Connect(c) \/ Receive(c) \/ Disconnect(c) PROVE IdInv'
  BY <1>2, ClientStep
<1>3. CASE UNCHANGED vars
  BY <1>3 DEF vars, server_vars, IdInv, IdsUnique
<1> QED BY <1>1, <1>2, <1>3 DEF Next

(* In every behaviour of the server, with any number of Sequences, clients *)
(* and requests, a pattern id that IDAllocator has given out belongs to    *)
(* one Sequence until it is freed: IdsUnique.                              *)
THEOREM IdsUniqueAlways == Spec => []IdsUnique
<1>1. IdInv /\ [Next]_vars => IdInv'
  BY IdStep
<1>2. IdInv => IdsUnique
  BY DEF IdInv
<1> QED BY IdInvInit, <1>1, <1>2, PTL DEF Spec

-----------------------------------------------------------------------------
(* Instances.                                                              *)

Instance == [pattern_id : Ids, start_at : Int, loop_length : Int, stop_at : Int]

Compatible(a, b) == Apart(a, b) \/ Within(a, b) \/ Within(b, a)

(* No two of a list overlap in part.                                       *)
AllCompatible(list) ==
  \A j, k \in 1..Len(list) : j # k => Compatible(list[j], list[k])

SpanInv ==
  /\ DOMAIN server = Seqs
  /\ \A q \in Seqs : server[q].instances \in Seq(Instance) /\ AllCompatible(server[q].instances)

(* The overlap test lets an instance pass that the one that is there       *)
(* encloses, or that is apart from it.                                     *)
LEMMA MissedIsCompatible ==
  ASSUME NEW old \in Instance, NEW new \in Instance, ~Meets(old, new)
  PROVE  Compatible(old, new) /\ Compatible(new, old)
<1>1. /\ old.start_at \in Int /\ old.stop_at \in Int
      /\ new.start_at \in Int /\ new.stop_at \in Int
  BY DEF Instance
<1> QED BY <1>1 DEF Meets, Compatible, Apart, Within

(* e is put in at place i, the others keep their order.                    *)
PutIn(list, e, i, result) ==
  /\ Len(result) = Len(list) + 1
  /\ \A k \in 1..(Len(list) + 1) :
       result[k] = IF k < i THEN list[k] ELSE IF k = i THEN e ELSE list[k - 1]

(* insert_element puts the instance in somewhere: it finds a place, at the *)
(* latest behind the last element.                                         *)
LEMMA InsertInstanceView ==
  ASSUME NEW list \in Seq(Instance), NEW e \in Instance
  PROVE  /\ InsertInstance(list, e) \in Seq(Instance)
         /\ \E i \in 1..(Len(list) + 1) : PutIn(list, e, i, InsertInstance(list, e))
<1> DEFINE n == Len(list)
<1>0. n \in Nat
  OBVIOUS
<1>1. CASE list = <<>> \/ e.start_at < Head(list).start_at
  <2> DEFINE r == <<e>> \o list
  <2>1. InsertInstance(list, e) = r
    BY <1>1 DEF InsertInstance, InsertElement
  <2>2. r \in Seq(Instance) /\ Len(r) = n + 1 /\ r[1] = e /\ \A k \in 2..(n + 1) : r[k] = list[k - 1]
    OBVIOUS
  <2> HIDE DEF r, n
  <2>3. 1 \in 1..(n + 1) /\ \A k \in 1..(n + 1) : k = 1 \/ (k \in 2..(n + 1) /\ ~(k < 1))
    BY <1>0
  <2>4. Len(r) = n + 1 /\ \A k \in 1..(n + 1) :
          r[k] = IF k < 1 THEN list[k] ELSE IF k = 1 THEN e ELSE list[k - 1]
    BY <2>2, <2>3
  <2>5. PutIn(list, e, 1, r)
    BY <2>4 DEF PutIn, n
  <2> QED BY <2>1, <2>2, <2>3, <2>5 DEF n
<1>2. CASE ~(list = <<>> \/ e.start_at < Head(list).start_at)
  <2> DEFINE P(k) == /\ k = n \/ ~(list[k].start_at < e.start_at)
                     /\ \A j \in 1..(k - 1) : list[j].start_at < e.start_at
             K == {k \in 1..n : k = n \/ ~(list[k].start_at < e.start_at)}
  <2>1. n >= 1 /\ DOMAIN list = 1..n
    BY <1>2
  <2>2. K \subseteq Nat /\ n \in K
    BY <2>1
  <2>3. Min(K) \in K /\ \A y \in K : Min(K) =< y
    <3> HIDE DEF K
    <3> QED BY <2>2, MinIsMember
  <2>4. PICK m : m = Min(K)
    OBVIOUS
  <2>5. m \in 1..n /\ (m = n \/ ~(list[m].start_at < e.start_at))
    BY <2>3, <2>4
  <2>6. \A j \in 1..(m - 1) : list[j].start_at < e.start_at
    <3> SUFFICES ASSUME NEW j \in 1..(m - 1), ~(list[j].start_at < e.start_at) PROVE FALSE
      OBVIOUS
    <3>1. j \in 1..n /\ ~(m =< j)
      BY <1>0, <2>5
    <3>2. j \in K
      BY <3>1
    <3> QED BY <2>3, <2>4, <3>1, <3>2
  <2>7. \E k \in 1..n : P(k)
    BY <2>5, <2>6
  <2>8. PICK c : c = CHOOSE k \in DOMAIN list : P(k)
    OBVIOUS
  <2>9. c \in 1..n
    <3> HIDE DEF P, n
    <3> QED BY <2>1, <2>7, <2>8
  <2>10. InsertInstance(list, e) = InsertAt(list, c + 1, e)
    BY <1>2, <2>8 DEF InsertInstance, InsertElement
  <2>11. c + 1 \in 1..(n + 1)
    BY <1>0, <2>9
  <2> HIDE DEF n, P, K
  <2>12. PICK i : i = c + 1
    OBVIOUS
  <2>13. i \in 1..(Len(list) + 1)
    BY <2>11, <2>12 DEF n
  <2>14. InsertAt(list, i, e) \in Seq(Instance) /\ PutIn(list, e, i, InsertAt(list, i, e))
    BY <2>13, InsertView DEF PutIn
  <2> QED BY <2>10, <2>12, <2>13, <2>14
<1> QED BY <1>1, <1>2

(* drop_element takes out one element, or none when none is equal.         *)
LEMMA DropInstanceView ==
  ASSUME NEW list \in Seq(Instance), NEW e
  PROVE  \/ DropInstance(list, e) = list /\ \A k \in 1..Len(list) : ~SameInstance(list[k], e)
         \/ \E i \in 1..Len(list) : SameInstance(list[i], e) /\ DropInstance(list, e) = RemoveAt(list, i)
<1> DEFINE I == {i \in 1..Len(list) : SameInstance(list[i], e)}
           k == SelectInSeq(list, LAMBDA x : SameInstance(x, e))
<1>1. DropInstance(list, e) = IF k = 0 THEN list ELSE RemoveAt(list, k)
  BY DEF DropInstance, DropElement
<1>2. k = IF I # {} THEN Min(I) ELSE 0
  BY DEF SelectInSeq
<1>3. CASE I = {}
  BY <1>1, <1>2, <1>3
<1>4. CASE I # {}
  <2>1. I \subseteq Nat
    OBVIOUS
  <2>2. Min(I) \in I
    <3> HIDE DEF I
    <3> QED BY <1>4, <2>1, MinIsMember
  <2>3. k \in 1..Len(list) /\ k # 0 /\ SameInstance(list[k], e)
    BY <1>2, <1>4, <2>2
  <2> HIDE DEF k
  <2> QED BY <1>1, <2>3
<1> QED BY <1>3, <1>4

LEMMA PutInCompatible ==
  ASSUME NEW list \in Seq(Instance), NEW e, NEW i \in 1..(Len(list) + 1), NEW r,
         PutIn(list, e, i, r), AllCompatible(list),
         \A k \in 1..Len(list) : Compatible(list[k], e) /\ Compatible(e, list[k])
  PROVE  AllCompatible(r)
<1>1. PICK n : n = Len(list)
  OBVIOUS
<1>2. /\ n \in Nat /\ i \in 1..(n + 1) /\ Len(r) = n + 1
      /\ \A k \in 1..(n + 1) :
           r[k] = IF k < i THEN list[k] ELSE IF k = i THEN e ELSE list[k - 1]
      /\ \A j, k \in 1..n : j # k => Compatible(list[j], list[k])
      /\ \A k \in 1..n : Compatible(list[k], e) /\ Compatible(e, list[k])
  BY <1>1 DEF PutIn, AllCompatible
<1> SUFFICES ASSUME NEW j \in 1..(n + 1), NEW k \in 1..(n + 1), j # k
             PROVE  Compatible(r[j], r[k])
  BY <1>2 DEF AllCompatible
<1> DEFINE Was(x) == IF x < i THEN x ELSE x - 1
<1>3. \A x \in 1..(n + 1) : x # i => Was(x) \in 1..n /\ r[x] = list[Was(x)]
  BY <1>2
<1>4. j # i /\ k # i => Was(j) # Was(k)
  BY <1>2
<1>5. r[i] = e
  BY <1>2
<1> HIDE DEF Was
<1>6. CASE j = i
  BY <1>2, <1>3, <1>5, <1>6
<1>7. CASE k = i
  BY <1>2, <1>3, <1>5, <1>7
<1>8. CASE j # i /\ k # i
  BY <1>2, <1>3, <1>4, <1>8
<1> QED BY <1>6, <1>7, <1>8

LEMMA RemoveCompatible ==
  ASSUME NEW list \in Seq(Instance), NEW i \in 1..Len(list), AllCompatible(list)
  PROVE  RemoveAt(list, i) \in Seq(Instance) /\ AllCompatible(RemoveAt(list, i))
<1>1. PICK n, r : n = Len(list) /\ r = RemoveAt(list, i)
  OBVIOUS
<1>2. /\ n \in Nat /\ i \in 1..n /\ r \in Seq(Instance) /\ Len(r) = n - 1
      /\ \A k \in 1..(n - 1) : r[k] = IF k < i THEN list[k] ELSE list[k + 1]
  <2>1. /\ RemoveAt(list, i) \in Seq(Instance) /\ Len(RemoveAt(list, i)) = Len(list) - 1
        /\ \A k \in 1..(Len(list) - 1) :
             RemoveAt(list, i)[k] = IF k < i THEN list[k] ELSE list[k + 1]
    BY RemoveView
  <2>2. Len(list) \in Nat
    OBVIOUS
  <2> QED BY <1>1, <2>1, <2>2
<1>3. \A j, k \in 1..n : j # k => Compatible(list[j], list[k])
  BY <1>1 DEF AllCompatible
<1> DEFINE Was(x) == IF x < i THEN x ELSE x + 1
<1>4. \A x \in 1..(n - 1) : Was(x) \in 1..n /\ r[x] = list[Was(x)]
  BY <1>2
<1>5. \A j, k \in 1..(n - 1) : j # k => Was(j) # Was(k)
  BY <1>2
<1> HIDE DEF Was
<1>6. AllCompatible(r)
  BY <1>2, <1>3, <1>4, <1>5 DEF AllCompatible
<1> QED BY <1>1, <1>2, <1>6

(* What a request makes of the instances of one Sequence.                  *)
LEMMA AddKeepsCompatible ==
  ASSUME NEW s, s.instances \in Seq(Instance), AllCompatible(s.instances),
         NEW e \in Instance, NEW t, t = ProcessAddPatternInstance(s, e)
  PROVE  t.instances \in Seq(Instance) /\ AllCompatible(t.instances)
<1>1. CASE ~MayAddInstance(s, e)
  BY <1>1 DEF ProcessAddPatternInstance
<1>2. CASE MayAddInstance(s, e)
  <2>1. PICK list : list = s.instances
    OBVIOUS
  <2>2. t.instances = InsertInstance(list, e)
    BY <1>2, <2>1 DEF ProcessAddPatternInstance, WithInstances
  <2>3. list \in Seq(Instance) /\ AllCompatible(list)
    BY <2>1
  <2>4. \A k \in 1..Len(list) : ~Meets(list[k], e) /\ list[k] \in Instance
    BY <1>2, <2>1, <2>3 DEF MayAddInstance
  <2>5. \A k \in 1..Len(list) : Compatible(list[k], e) /\ Compatible(e, list[k])
    BY <2>4, MissedIsCompatible
  <2>6. PICK i \in 1..(Len(list) + 1) : PutIn(list, e, i, InsertInstance(list, e))
    BY <2>3, InsertInstanceView
  <2>7. InsertInstance(list, e) \in Seq(Instance)
    BY <2>3, InsertInstanceView
  <2>8. AllCompatible(InsertInstance(list, e))
    BY <2>3, <2>5, <2>6, PutInCompatible
  <2> QED BY <2>2, <2>7, <2>8
<1> QED BY <1>1, <1>2

LEMMA DelKeepsCompatible ==
  ASSUME NEW s, s.instances \in Seq(Instance), AllCompatible(s.instances),
         NEW e, NEW t, t = ProcessDelPatternInstance(s, e)
  PROVE  t.instances \in Seq(Instance) /\ AllCompatible(t.instances)
<1>1. PICK list : list = s.instances
  OBVIOUS
<1>2. list \in Seq(Instance) /\ AllCompatible(list)
  BY <1>1
<1>3. t.instances = DropInstance(list, e)
  BY <1>1 DEF ProcessDelPatternInstance, WithInstances
<1>4. CASE DropInstance(list, e) = list
  BY <1>2, <1>3, <1>4
<1>5. ASSUME NEW i \in 1..Len(list), DropInstance(list, e) = RemoveAt(list, i)
      PROVE  t.instances \in Seq(Instance) /\ AllCompatible(t.instances)
  BY <1>2, <1>3, <1>5, RemoveCompatible
<1> QED BY <1>2, <1>4, <1>5, DropInstanceView

(* The other requests leave the instances alone.                           *)
LEMMA OtherInstances ==
  ASSUME NEW s, NEW id, NEW x
  PROVE  /\ ProcessAddPattern(s, id).instances = s.instances
         /\ ProcessDelPattern(s, id).instances = s.instances
         /\ ProcessAddNote(s, id, x).instances = s.instances
         /\ ProcessDeleteNote(s, id, x).instances = s.instances
BY DEF ProcessAddPattern, ProcessDelPattern, ProcessAddNote, ProcessDeleteNote, WithPatterns

LEMMA OneSpan ==
  ASSUME SpanInv, NEW q \in Seqs, NEW t, server' = [server EXCEPT ![q] = t],
         t.instances \in Seq(Instance) /\ AllCompatible(t.instances)
  PROVE  SpanInv'
<1>1. DOMAIN server' = Seqs /\ server'[q] = t /\ \A r \in Seqs \ {q} : server'[r] = server[r]
  BY DEF SpanInv
<1>2. ASSUME NEW r \in Seqs
      PROVE  server'[r].instances \in Seq(Instance) /\ AllCompatible(server'[r].instances)
  <2>1. CASE r = q
    BY <1>1, <2>1
  <2>2. CASE r # q
    BY <1>1, <2>2 DEF SpanInv
  <2> QED BY <2>1, <2>2
<1> QED BY <1>1, <1>2 DEF SpanInv, AllCompatible, Compatible, Apart, Within

LEMMA SpanInit == Init => SpanInv
<1> SUFFICES ASSUME Init PROVE SpanInv
  OBVIOUS
<1>1. \A q \in Seqs : server[q].instances = <<>>
  BY DEF Init, Empty
<1>2. <<>> \in Seq(Instance) /\ AllCompatible(<<>>)
  BY DEF AllCompatible
<1> QED BY <1>1, <1>2 DEF Init, SpanInv

LEMMA RequestedTyped ==
  ASSUME NEW i \in PatternInstances
  PROVE  i \in Instance
<1>1. PICK id \in Ids, p \in Instances_ :
        i = [pattern_id |-> id, start_at |-> p.start_at, loop_length |-> p.loop_length,
             stop_at |-> p.stop_at]
  BY DEF PatternInstances
<1>2. p.start_at \in Int /\ p.loop_length \in Int /\ p.stop_at \in Int
  BY SequenceAssumption
<1> QED BY <1>1, <1>2 DEF Instance

LEMMA SpanStep ==
  ASSUME SpanInv, [Next]_vars
  PROVE  SpanInv'
<1>1. ASSUME NEW q \in Seqs, Serve(q) PROVE SpanInv'
  <2> DEFINE s == server[q]
  <2>0. s.instances \in Seq(Instance) /\ AllCompatible(s.instances)
    BY DEF SpanInv
  <2>1. ASSUME NEW t, server' = [server EXCEPT ![q] = t], t.instances = s.instances
        PROVE  SpanInv'
    BY <2>0, <2>1, OneSpan
  <2>2. CASE HandleReqAddPattern(q)
    <3>1. PICK id : server' = [server EXCEPT ![q] = ProcessAddPattern(s, id)]
      BY <2>2 DEF HandleReqAddPattern
    <3> QED BY <2>1, <3>1, OtherInstances
  <2>3. ASSUME NEW id \in Ids, HandleReqDelPattern(q, id) PROVE SpanInv'
    <3>1. server' = [server EXCEPT ![q] = ProcessDelPattern(s, id)]
      BY <2>3 DEF HandleReqDelPattern
    <3> QED BY <2>1, <3>1, OtherInstances
  <2>4. ASSUME NEW i \in PatternInstances, HandleReqAddPatternInstance(q, i) PROVE SpanInv'
    <3>1. PICK t : t = ProcessAddPatternInstance(s, i)
      OBVIOUS
    <3>2. server' = [server EXCEPT ![q] = t]
      BY <2>4, <3>1 DEF HandleReqAddPatternInstance
    <3>3. i \in Instance
      BY RequestedTyped
    <3>4. t.instances \in Seq(Instance) /\ AllCompatible(t.instances)
      BY <2>0, <3>1, <3>3, AddKeepsCompatible
    <3> QED BY <3>2, <3>4, OneSpan
  <2>5. ASSUME NEW i \in PatternInstances, HandleReqDelPatternInstance(q, i) PROVE SpanInv'
    <3>1. PICK t : t = ProcessDelPatternInstance(s, i)
      OBVIOUS
    <3>2. server' = [server EXCEPT ![q] = t]
      BY <2>5, <3>1 DEF HandleReqDelPatternInstance
    <3>3. t.instances \in Seq(Instance) /\ AllCompatible(t.instances)
      BY <2>0, <3>1, DelKeepsCompatible
    <3> QED BY <3>2, <3>3, OneSpan
  <2>6. ASSUME NEW id \in Ids, NEW note \in Notes, HandleReqAddNote(q, id, note)
        PROVE  SpanInv'
    <3>1. PICK t : t = ProcessAddNote(s, id, note)
      OBVIOUS
    <3>2. server' = [server EXCEPT ![q] = t]
      BY <2>6, <3>1 DEF HandleReqAddNote
    <3>3. t.instances = s.instances
      BY <3>1, OtherInstances
    <3> QED BY <2>1, <3>2, <3>3
  <2>7. ASSUME NEW id \in Ids, NEW note \in Notes, HandleReqDelNote(q, id, note)
        PROVE  SpanInv'
    <3>1. PICK t : t = ProcessDeleteNote(s, id, note)
      OBVIOUS
    <3>2. server' = [server EXCEPT ![q] = t]
      BY <2>7, <3>1 DEF HandleReqDelNote
    <3>3. t.instances = s.instances
      BY <3>1, OtherInstances
    <3> QED BY <2>1, <3>2, <3>3
  <2> QED BY <1>1, <2>2, <2>3, <2>4, <2>5, <2>6, <2>7 DEF Serve
<1>2. CASE UNCHANGED server
  BY <1>2 DEF SpanInv, AllCompatible, Compatible, Apart, Within
<1>3. ASSUME NEW c \in Conns, Connect(c) \/ Receive(c) \/ Disconnect(c) PROVE UNCHANGED server
  BY <1>3 DEF Connect, Receive, Disconnect, server_vars
<1>4. CASE UNCHANGED vars
  BY <1>2, <1>4 DEF vars, server_vars
<1> QED BY <1>1, <1>2, <1>3, <1>4 DEF Next

(* Whatever the clients ask for, in whatever order, two instances of a     *)
(* Sequence of the server are apart or one lies strictly within the other: *)
(* the overlap test of process_add_pattern_instance looks at the old       *)
(* instance's ends only, and that is all it lets through.                  *)
THEOREM NoPartialOverlapAlways == Spec => []NoPartialOverlap
<1>1. SpanInv /\ [Next]_vars => SpanInv'
  BY SpanStep
<1>2. SpanInv => NoPartialOverlap
  <2> SUFFICES ASSUME SpanInv, NEW q \in Seqs PROVE
        \A j, k \in DOMAIN server[q].instances :
           j # k => Compatible(server[q].instances[j], server[q].instances[k])
    BY DEF NoPartialOverlap, Compatible
  <2>1. server[q].instances \in Seq(Instance) /\ AllCompatible(server[q].instances)
    BY DEF SpanInv
  <2> QED BY <2>1 DEF AllCompatible
<1> QED BY SpanInit, <1>1, <1>2, PTL DEF Spec

-----------------------------------------------------------------------------
(* The replicas.                                                           *)

IsSeq(s) == \E S : s \in Seq(S)

IsMap(f) == f = [x \in DOMAIN f |-> f[x]]

(* Every instance has a length: what two of them that are equal need to be *)
(* incompatible.                                                           *)
Lasting(list) == \A k \in 1..Len(list) : list[k].start_at < list[k].stop_at

(* The contents a of a replica and s of its Sequence, but for the          *)
(* instances in m.                                                         *)
Alike(a, s, m) ==
  /\ a.patterns = s.patterns
  /\ a.instances \in Seq(Instance) /\ AllCompatible(a.instances)
  /\ ToSet(a.instances) = ToSet(s.instances) \ m
  /\ m \subseteq ToSet(s.instances)

Agrees(all, srv, mis) ==
  /\ DOMAIN all = Seqs
  /\ \A q \in Seqs : Alike(all[q], srv[q], mis[q])

(* What a client has once everything under way has arrived agrees with the *)
(* server.                                                                 *)
Follows(c) == Sound(c) => Agrees(Eventual(c), server, missed[c])

(* The inductive invariant.                                                *)
FollowInv ==
  /\ IdInv /\ SpanInv
  /\ \A q \in Seqs : IsMap(server[q].patterns) /\ Lasting(server[q].instances)
  /\ DOMAIN client = Conns /\ DOMAIN down = Conns /\ DOMAIN link = Conns
  /\ missed \in [Conns -> [Seqs -> SUBSET Instance]]
  /\ \A c \in Conns : IsSeq(down[c])
  /\ \A c \in Conns : Follows(c)

LEMMA ElementsOf ==
  ASSUME NEW S, NEW s \in Seq(S), NEW x
  PROVE  x \in ToSet(s) <=> \E k \in 1..Len(s) : x = s[k]
BY DEF ToSet

LEMMA PatternsAlike ==
  ASSUME NEW a, NEW s, NEW m, Alike(a, s, m), NEW id
  PROVE  /\ Alike(ProcessAddPattern(a, id), ProcessAddPattern(s, id), m)
         /\ Alike(ProcessDelPattern(a, id), ProcessDelPattern(s, id), m)
<1>1. /\ ProcessAddPattern(a, id).patterns = ProcessAddPattern(s, id).patterns
      /\ ProcessDelPattern(a, id).patterns = ProcessDelPattern(s, id).patterns
  BY DEF Alike, ProcessAddPattern, ProcessDelPattern, WithPatterns
<1> QED BY <1>1, OtherInstances DEF Alike

LEMMA NotesAlike ==
  ASSUME NEW a, NEW s, NEW m, Alike(a, s, m), NEW id, NEW x
  PROVE  Alike(ProcessAddNote(a, id, x), ProcessAddNote(s, id, x), m)
<1>1. ProcessAddNote(a, id, x).patterns = ProcessAddNote(s, id, x).patterns
  BY DEF Alike, ProcessAddNote, WithPatterns
<1> QED BY <1>1, OtherInstances DEF Alike

LEMMA AbsentPattern ==
  ASSUME NEW s, NEW id, id \notin DOMAIN s.patterns, IsMap(s.patterns)
  PROVE  /\ ProcessDelPattern(s, id).patterns = s.patterns
         /\ ProcessDelPattern(s, id).instances = s.instances
<1>1. DOMAIN s.patterns \ {id} = DOMAIN s.patterns
  OBVIOUS
<1>2. ProcessDelPattern(s, id).patterns = [p \in DOMAIN s.patterns |-> s.patterns[p]]
  BY <1>1 DEF ProcessDelPattern, WithPatterns
<1> QED BY <1>2, OtherInstances DEF IsMap

(* What an insertion and a removal make of the set of the instances.       *)
LEMMA InsertedSet ==
  ASSUME NEW list \in Seq(Instance), NEW e \in Instance
  PROVE  ToSet(InsertInstance(list, e)) = ToSet(list) \cup {e}
<1>1. PICK r, n : r = InsertInstance(list, e) /\ n = Len(list)
  OBVIOUS
<1>2. PICK i \in 1..(Len(list) + 1) : r \in Seq(Instance) /\ PutIn(list, e, i, r)
  BY <1>1, InsertInstanceView
<1>3. n \in Nat /\ i \in 1..(n + 1)
  BY <1>1, <1>2
<1>4. Len(r) = n + 1 /\ \A k \in 1..(n + 1) :
        r[k] = IF k < i THEN list[k] ELSE IF k = i THEN e ELSE list[k - 1]
  BY <1>1, <1>2 DEF PutIn
<1>5. ASSUME NEW x \in ToSet(r) PROVE x \in ToSet(list) \cup {e}
  <2>1. PICK k \in 1..(n + 1) : x = r[k]
    BY <1>2, <1>4, <1>5, ElementsOf
  <2>2. (k < i /\ k \in 1..n /\ x = list[k]) \/ x = e \/ (k - 1 \in 1..n /\ x = list[k - 1])
    BY <1>3, <1>4, <2>1
  <2> QED BY <1>1, <2>2, ElementsOf
<1>6. ASSUME NEW x \in ToSet(list) \cup {e} PROVE x \in ToSet(r)
  <2>1. CASE x = e
    <3>1. r[i] = e
      BY <1>3, <1>4
    <3> QED BY <1>2, <1>3, <1>4, <2>1, <3>1, ElementsOf
  <2>2. CASE x \in ToSet(list)
    <3>1. PICK k \in 1..n : x = list[k]
      BY <1>1, <2>2, ElementsOf
    <3>2. \E j \in 1..(n + 1) : x = r[j]
      <4>1. CASE k < i
        BY <1>3, <1>4, <3>1, <4>1
      <4>2. CASE ~(k < i)
        <5>1. k + 1 \in 1..(n + 1) /\ ~(k + 1 < i) /\ k + 1 # i /\ (k + 1) - 1 = k
          BY <1>3, <3>1, <4>2
        <5> QED BY <1>4, <3>1, <5>1
      <4> QED BY <4>1, <4>2
    <3> QED BY <1>2, <1>4, <3>2, ElementsOf
  <2> QED BY <2>1, <2>2
<1>7. ToSet(r) = ToSet(list) \cup {e}
  BY <1>5, <1>6
<1> QED BY <1>1, <1>7

LEMMA DroppedSet ==
  ASSUME NEW list \in Seq(Instance), AllCompatible(list), Lasting(list), NEW e
  PROVE  ToSet(DropInstance(list, e)) = {x \in ToSet(list) : ~SameInstance(x, e)}
<1>1. CASE DropInstance(list, e) = list /\ \A k \in 1..Len(list) : ~SameInstance(list[k], e)
  BY <1>1, ElementsOf
<1>2. ASSUME NEW i \in 1..Len(list), SameInstance(list[i], e), DropInstance(list, e) = RemoveAt(list, i)
      PROVE  ToSet(DropInstance(list, e)) = {x \in ToSet(list) : ~SameInstance(x, e)}
  <2>1. PICK n, r : n = Len(list) /\ r = RemoveAt(list, i)
    OBVIOUS
  <2>2. /\ n \in Nat /\ i \in 1..n /\ r \in Seq(Instance) /\ Len(r) = n - 1
        /\ \A k \in 1..(n - 1) : r[k] = IF k < i THEN list[k] ELSE list[k + 1]
    BY <2>1, RemoveView
  <2>3. ASSUME NEW k \in 1..n, k # i PROVE ~SameInstance(list[k], e)
    <3>1. Compatible(list[k], list[i])
      BY <2>1, <2>2, <2>3 DEF AllCompatible
    <3>2. list[k] \in Instance /\ list[i] \in Instance
      BY <2>1
    <3>3. list[k].start_at < list[k].stop_at
      BY <2>1 DEF Lasting
    <3>4. PICK a, b : a = list[k] /\ b = list[i]
      OBVIOUS
    <3>5. /\ a.start_at \in Int /\ a.stop_at \in Int /\ b.start_at \in Int /\ b.stop_at \in Int
      BY <3>2, <3>4 DEF Instance
    <3>6. ~(a.start_at = b.start_at /\ a.stop_at = b.stop_at)
      BY <3>1, <3>3, <3>4, <3>5 DEF Compatible, Apart, Within
    <3> QED BY <1>2, <3>4, <3>6 DEF SameInstance
  <2>4. ASSUME NEW x \in ToSet(r) PROVE x \in ToSet(list) /\ ~SameInstance(x, e)
    <3>1. PICK k \in 1..(n - 1) : x = r[k]
      BY <2>2, ElementsOf
    <3>2. \E j \in 1..n : j # i /\ x = list[j]
      <4>1. CASE k < i
        BY <2>2, <3>1, <4>1
      <4>2. CASE ~(k < i)
        <5>1. k + 1 \in 1..n /\ k + 1 # i
          BY <2>2, <3>1, <4>2
        <5> QED BY <2>2, <3>1, <4>2, <5>1
      <4> QED BY <4>1, <4>2
    <3> QED BY <2>1, <2>3, <3>2, ElementsOf
  <2>5. ASSUME NEW x \in ToSet(list), ~SameInstance(x, e) PROVE x \in ToSet(r)
    <3>1. PICK k \in 1..n : x = list[k]
      BY <2>1, ElementsOf
    <3>2. k # i
      BY <1>2, <2>5, <3>1
    <3>3. \E j \in 1..(n - 1) : x = r[j]
      <4>1. CASE k < i
        <5>1. k \in 1..(n - 1)
          BY <2>2, <4>1
        <5> QED BY <2>2, <3>1, <4>1, <5>1
      <4>2. CASE ~(k < i)
        <5>1. k - 1 \in 1..(n - 1) /\ ~(k - 1 < i) /\ (k - 1) + 1 = k
          BY <2>2, <3>1, <3>2, <4>2
        <5> QED BY <2>2, <3>1, <5>1
      <4> QED BY <4>1, <4>2
    <3> QED BY <2>2, <3>3, ElementsOf
  <2>6. ToSet(r) = {x \in ToSet(list) : ~SameInstance(x, e)}
    BY <2>4, <2>5
  <2> QED BY <1>2, <2>1, <2>6
<1> QED BY <1>1, <1>2, DropInstanceView

(* The client, which knows fewer instances, lets pass what the server did. *)
LEMMA AddInstanceAlike ==
  ASSUME NEW a, NEW s, NEW m, Alike(a, s, m), s.instances \in Seq(Instance),
         NEW e \in Instance, MayAddInstance(s, e)
  PROVE  Alike(ProcessAddPatternInstance(a, e), ProcessAddPatternInstance(s, e), m)
<1>1. PICK l, k : l = a.instances /\ k = s.instances
  OBVIOUS
<1>2. /\ l \in Seq(Instance) /\ k \in Seq(Instance) /\ AllCompatible(l)
      /\ ToSet(l) = ToSet(k) \ m /\ m \subseteq ToSet(k) /\ a.patterns = s.patterns
  BY <1>1 DEF Alike
<1>3. /\ e.stop_at - e.start_at > 0 /\ e.pattern_id \in DOMAIN s.patterns
      /\ \A x \in ToSet(k) : ~Meets(x, e)
  BY <1>1 DEF MayAddInstance, ToSet
<1>4. \A j \in DOMAIN l : ~Meets(l[j], e)
  BY <1>2, <1>3 DEF ToSet
<1>5. MayAddInstance(a, e)
  BY <1>1, <1>2, <1>3, <1>4 DEF MayAddInstance
<1>6. PICK b, t : b = ProcessAddPatternInstance(a, e) /\ t = ProcessAddPatternInstance(s, e)
  OBVIOUS
<1>7. /\ b.patterns = a.patterns /\ b.instances = InsertInstance(l, e)
      /\ t.patterns = s.patterns /\ t.instances = InsertInstance(k, e)
  BY <1>1, <1>5, <1>6 DEF ProcessAddPatternInstance, WithInstances
<1>8. b.instances \in Seq(Instance) /\ AllCompatible(b.instances)
  BY <1>1, <1>2, <1>6, AddKeepsCompatible
<1>9. e \notin m
  <2>1. e.start_at \in Int /\ e.stop_at \in Int
    BY DEF Instance
  <2>2. Meets(e, e)
    BY <1>3, <2>1 DEF Meets
  <2> QED BY <1>2, <1>3, <2>2
<1>10. ToSet(b.instances) = ToSet(l) \cup {e} /\ ToSet(t.instances) = ToSet(k) \cup {e}
  BY <1>2, <1>7, InsertedSet
<1>11. Alike(b, t, m)
  BY <1>2, <1>7, <1>8, <1>9, <1>10 DEF Alike
<1> QED BY <1>6, <1>11

LEMMA AddKeepsLasting ==
  ASSUME NEW s, s.instances \in Seq(Instance), Lasting(s.instances), NEW e \in Instance
  PROVE  Lasting(ProcessAddPatternInstance(s, e).instances)
<1>1. CASE ~MayAddInstance(s, e)
  BY <1>1 DEF ProcessAddPatternInstance
<1>2. CASE MayAddInstance(s, e)
  <2>1. PICK l, r : l = s.instances /\ r = InsertInstance(l, e)
    OBVIOUS
  <2>2. ProcessAddPatternInstance(s, e).instances = r
    BY <1>2, <2>1 DEF ProcessAddPatternInstance, WithInstances
  <2>3. l \in Seq(Instance) /\ r \in Seq(Instance) /\ ToSet(r) = ToSet(l) \cup {e}
    BY <2>1, InsertedSet, InsertInstanceView
  <2>4. e.start_at < e.stop_at
    <3>1. e.start_at \in Int /\ e.stop_at \in Int
      BY DEF Instance
    <3> QED BY <1>2, <3>1 DEF MayAddInstance
  <2>5. \A x \in ToSet(l) : x.start_at < x.stop_at
    BY <2>1, <2>3, ElementsOf DEF Lasting
  <2>6. \A k \in 1..Len(r) : r[k] \in ToSet(r)
    BY <2>3, ElementsOf
  <2> QED BY <2>2, <2>3, <2>4, <2>5, <2>6 DEF Lasting
<1> QED BY <1>1, <1>2

(* All the instances of l are instances of k.                              *)
LEMMA FewerLasting ==
  ASSUME NEW l \in Seq(Instance), NEW k \in Seq(Instance), ToSet(l) \subseteq ToSet(k), Lasting(k)
  PROVE  Lasting(l)
<1>1. \A x \in ToSet(k) : x.start_at < x.stop_at
  BY ElementsOf DEF Lasting
<1>2. \A j \in 1..Len(l) : l[j] \in ToSet(l)
  BY ElementsOf
<1> QED BY <1>1, <1>2 DEF Lasting

(* The same instance is taken from both.                                   *)
LEMMA DelInstanceAlike ==
  ASSUME NEW a, NEW s, NEW m, Alike(a, s, m), NEW e,
         s.instances \in Seq(Instance), AllCompatible(s.instances), Lasting(s.instances)
  PROVE  /\ Alike(ProcessDelPatternInstance(a, e), ProcessDelPatternInstance(s, e),
                  {x \in m : ~SameInstance(x, e)})
         /\ Lasting(ProcessDelPatternInstance(s, e).instances)
<1>1. PICK l, k : l = a.instances /\ k = s.instances
  OBVIOUS
<1>2. /\ l \in Seq(Instance) /\ k \in Seq(Instance) /\ AllCompatible(l)
      /\ AllCompatible(k) /\ Lasting(k)
      /\ ToSet(l) = ToSet(k) \ m /\ m \subseteq ToSet(k) /\ a.patterns = s.patterns
  BY <1>1 DEF Alike
<1>3. Lasting(l)
  BY <1>2, FewerLasting
<1>4. PICK b, t : b = ProcessDelPatternInstance(a, e) /\ t = ProcessDelPatternInstance(s, e)
  OBVIOUS
<1>5. /\ b.patterns = a.patterns /\ b.instances = DropInstance(l, e)
      /\ t.patterns = s.patterns /\ t.instances = DropInstance(k, e)
  BY <1>1, <1>4 DEF ProcessDelPatternInstance, WithInstances
<1>6. /\ b.instances \in Seq(Instance) /\ AllCompatible(b.instances)
      /\ t.instances \in Seq(Instance)
  BY <1>1, <1>2, <1>4, DelKeepsCompatible
<1>7. /\ ToSet(b.instances) = {x \in ToSet(l) : ~SameInstance(x, e)}
      /\ ToSet(t.instances) = {x \in ToSet(k) : ~SameInstance(x, e)}
  BY <1>2, <1>3, <1>5, DroppedSet
<1>8. Alike(b, t, {x \in m : ~SameInstance(x, e)})
  <2>1. ToSet(b.instances) = ToSet(t.instances) \ {x \in m : ~SameInstance(x, e)}
    BY <1>2, <1>7
  <2>2. {x \in m : ~SameInstance(x, e)} \subseteq ToSet(t.instances)
    BY <1>2, <1>7
  <2> QED BY <1>2, <1>5, <1>6, <2>1, <2>2 DEF Alike
<1>9. Lasting(t.instances)
  <2>1. ToSet(t.instances) \subseteq ToSet(k)
    BY <1>7
  <2> QED BY <1>2, <1>6, <2>1, FewerLasting
<1> QED BY <1>4, <1>8, <1>9

(* One Sequence and its replica change, the others do not.                 *)
LEMMA AgreesOne ==
  ASSUME NEW all, NEW srv, NEW mis, Agrees(all, srv, mis), NEW q \in Seqs,
         NEW all2, NEW srv2, NEW mis2, DOMAIN all2 = Seqs,
         Alike(all2[q], srv2[q], mis2[q]),
         \A r \in Seqs \ {q} : all2[r] = all[r] /\ srv2[r] = srv[r] /\ mis2[r] = mis[r]
  PROVE  Agrees(all2, srv2, mis2)
<1>1. ASSUME NEW r \in Seqs PROVE Alike(all2[r], srv2[r], mis2[r])
  <2>1. CASE r = q
    BY <2>1
  <2>2. CASE r # q
    BY <2>2 DEF Agrees
  <2> QED BY <2>1, <2>2
<1> QED BY <1>1 DEF Agrees

-----------------------------------------------------------------------------
(* What a command does to what a client comes to have.                     *)

LEMMA AppendedSeq ==
  ASSUME NEW s, IsSeq(s), NEW e
  PROVE  \E S : s \in Seq(S) /\ e \in S
<1>1. PICK S : s \in Seq(S)
  BY DEF IsSeq
<1>2. s \in Seq(S \cup {e})
  BY <1>1
<1> QED BY <1>2

LEMMA Announced ==
  ASSUME FollowInv, NEW msg, SendMessage(msg), UNCHANGED <<client, link>>, NEW c \in Conns
  PROVE  /\ IsSeq(down'[c])
         /\ Sound(c)' => /\ Sound(c) /\ Readable(msg)
                         /\ Eventual(c)' = HandleCmd(Eventual(c), msg)
<1>1. IsSeq(down[c]) /\ down'[c] = IF link[c] = "closed" THEN down[c] ELSE Append(down[c], msg)
  BY DEF FollowInv, SendMessage
<1>2. CASE link[c] = "closed"
  <2>1. ~Sound(c)'
    BY <1>2 DEF Sound
  <2> QED BY <1>1, <1>2, <2>1
<1>3. CASE link[c] # "closed"
  <2>1. PICK S : down[c] \in Seq(S) /\ msg \in S
    BY <1>1, AppendedSeq
  <2>2. PICK s, t, n, base : s = down[c] /\ t = down'[c] /\ n = Len(s) /\ base = client[c]
    OBVIOUS
  <2>3. s \in Seq(S) /\ n \in Nat /\ t = Append(s, msg)
    BY <1>1, <1>3, <2>1, <2>2
  <2>4. /\ t \in Seq(S) /\ DOMAIN t = 1..(n + 1) /\ DOMAIN s = 1..n /\ t[n + 1] = msg
        /\ \A k \in 1..n : t[k] = s[k]
    BY <2>1, <2>2, <2>3, AppendView
  <2>5. FoldLeft(HandleCmd, base, t) = HandleCmd(FoldLeft(HandleCmd, base, s), msg)
    BY <2>1, <2>3, FoldAppend
  <2>6. Eventual(c)' = FoldLeft(HandleCmd, base, t) /\ Eventual(c) = FoldLeft(HandleCmd, base, s)
    BY <2>2 DEF Eventual
  <2>7. Sound(c)' => Sound(c) /\ Readable(msg)
    <3>1. SUFFICES ASSUME Sound(c)' PROVE Sound(c) /\ Readable(msg)
      OBVIOUS
    <3>2. link[c] = "open" /\ \A k \in 1..(n + 1) : Readable(t[k])
      BY <2>2, <2>4, <3>1 DEF Sound, Readable
    <3>3. n + 1 \in 1..(n + 1) /\ 1..n \subseteq 1..(n + 1)
      BY <2>3
    <3> QED BY <2>2, <2>4, <3>2, <3>3 DEF Sound
  <2> QED BY <2>2, <2>4, <2>5, <2>6, <2>7 DEF IsSeq
<1> QED BY <1>2, <1>3

LEMMA NotAnnounced ==
  ASSUME UNCHANGED <<client, link, down>>, NEW c \in Conns, Sound(c)'
  PROVE  Sound(c) /\ Eventual(c)' = Eventual(c)
BY DEF Sound, Eventual, Readable

(* A request turns Sequence q into t, and what client c comes to have of   *)
(* it into a.                                                              *)
LEMMA AgreesStep ==
  ASSUME FollowInv, NEW q \in Seqs, NEW t, server' = [server EXCEPT ![q] = t],
         NEW c \in Conns, Sound(c), NEW a, Alike(a, t, missed'[c][q]),
         \A r \in Seqs \ {q} : missed'[c][r] = missed[c][r]
  PROVE  Agrees([Eventual(c) EXCEPT ![q] = a], server', missed'[c])
<1>1. PICK all, all2, srv, srv2, mis, mis2 :
        /\ all = Eventual(c) /\ all2 = [all EXCEPT ![q] = a] /\ srv = server /\ srv2 = server'
        /\ mis = missed[c] /\ mis2 = missed'[c]
  OBVIOUS
<1>2. Agrees(all, srv, mis)
  BY <1>1 DEF FollowInv, Follows
<1>3. DOMAIN all2 = Seqs /\ all2[q] = a /\ \A r \in Seqs \ {q} : all2[r] = all[r]
  BY <1>1, <1>2 DEF Agrees
<1>4. srv2[q] = t /\ \A r \in Seqs \ {q} : srv2[r] = srv[r]
  BY <1>1 DEF FollowInv, IdInv
<1>5. Alike(all2[q], srv2[q], mis2[q])
  BY <1>1, <1>3, <1>4
<1>6. \A r \in Seqs \ {q} : all2[r] = all[r] /\ srv2[r] = srv[r] /\ mis2[r] = mis[r]
  BY <1>1, <1>3, <1>4
<1>7. Agrees(all2, srv2, mis2)
  BY <1>2, <1>3, <1>5, <1>6, AgreesOne
<1> QED BY <1>1, <1>7

LEMMA RequestFollows ==
  ASSUME FollowInv, IdInv', SpanInv', NEW q \in Seqs, NEW t,
         server' = [server EXCEPT ![q] = t], IsMap(t.patterns), Lasting(t.instances),
         UNCHANGED <<client, link>>, missed' \in [Conns -> [Seqs -> SUBSET Instance]],
         DOMAIN down' = Conns, \A c \in Conns : IsSeq(down'[c]),
         \A c \in Conns : Follows(c)'
  PROVE  FollowInv'
<1>1. /\ DOMAIN server' = Seqs /\ server'[q] = t
      /\ \A r \in Seqs \ {q} : server'[r] = server[r]
  BY DEF FollowInv, IdInv
<1>2. \A r \in Seqs : IsMap(server'[r].patterns) /\ Lasting(server'[r].instances)
  <2> SUFFICES ASSUME NEW r \in Seqs
               PROVE  IsMap(server'[r].patterns) /\ Lasting(server'[r].instances)
    OBVIOUS
  <2>1. CASE r = q
    BY <1>1, <2>1
  <2>2. CASE r # q
    BY <1>1, <2>2 DEF FollowInv
  <2> QED BY <2>1, <2>2
<1> QED BY <1>2 DEF FollowInv

(* The request is announced with msg, which turns the replica of c into a. *)
LEMMA AnnouncedFollows ==
  ASSUME FollowInv, NEW q \in Seqs, NEW t, server' = [server EXCEPT ![q] = t],
         UNCHANGED <<client, link>>, NEW msg, SendMessage(msg), NEW c \in Conns,
         NEW a, Readable(msg) => HandleCmd(Eventual(c), msg) = [Eventual(c) EXCEPT ![q] = a],
         Sound(c) /\ Readable(msg) => Alike(a, t, missed'[c][q]),
         \A r \in Seqs \ {q} : missed'[c][r] = missed[c][r]
  PROVE  Follows(c)'
<1>1. CASE ~Sound(c)'
  BY <1>1 DEF Follows
<1>2. CASE Sound(c)'
  <2>1. Sound(c) /\ Readable(msg) /\ Eventual(c)' = HandleCmd(Eventual(c), msg)
    BY <1>2, Announced
  <2>2. Agrees([Eventual(c) EXCEPT ![q] = a], server', missed'[c])
    BY <2>1, AgreesStep
  <2> QED BY <2>1, <2>2 DEF Follows
<1> QED BY <1>1, <1>2

-----------------------------------------------------------------------------
(* The requests.                                                           *)

LEMMA AddPatternFollows ==
  ASSUME FollowInv, IdInv', SpanInv', NEW q \in Seqs, HandleReqAddPattern(q)
  PROVE  FollowInv'
<1>1. PICK id, s, t : id = GetId /\ s = server[q] /\ t = ProcessAddPattern(s, id)
  OBVIOUS
<1>2. PICK msg : msg = [cmd |-> "add_pattern", seq |-> q, id |-> id]
  OBVIOUS
<1>3. /\ server' = [server EXCEPT ![q] = t] /\ SendMessage(msg)
      /\ UNCHANGED <<client, link, missed>>
  BY <1>1, <1>2 DEF HandleReqAddPattern
<1>4. IsMap(t.patterns) /\ Lasting(t.instances)
  <2>1. t.instances = s.instances
    BY <1>1, OtherInstances
  <2>2. IsMap(t.patterns)
    BY <1>1 DEF IsMap, ProcessAddPattern, WithPatterns
  <2> QED BY <1>1, <2>1, <2>2 DEF FollowInv
<1>5. ASSUME NEW c \in Conns PROVE Follows(c)'
  <2>1. PICK all, a : all = Eventual(c) /\ a = ProcessAddPattern(all[q], id)
    OBVIOUS
  <2>2. HandleCmd(all, msg) = [all EXCEPT ![q] = a]
    BY <1>2, <2>1 DEF HandleCmd
  <2>3. Sound(c) => Alike(a, t, missed'[c][q])
    <3>1. Sound(c) => Alike(all[q], s, missed[c][q])
      BY <1>1, <2>1 DEF FollowInv, Follows, Agrees
    <3> QED BY <1>1, <1>3, <2>1, <3>1, PatternsAlike
  <2> QED BY <1>3, <2>1, <2>2, <2>3, AnnouncedFollows
<1>6. DOMAIN down' = Conns /\ \A c \in Conns : IsSeq(down'[c])
  BY <1>3, Announced DEF SendMessage
<1>7. missed' \in [Conns -> [Seqs -> SUBSET Instance]]
  BY <1>3 DEF FollowInv
<1> QED BY <1>3, <1>4, <1>5, <1>6, <1>7, RequestFollows

(* A request that changes nothing, and is not announced.                   *)
LEMMA QuietFollows ==
  ASSUME FollowInv, IdInv', SpanInv', NEW q \in Seqs, NEW t, server' = [server EXCEPT ![q] = t],
         t.patterns = server[q].patterns, t.instances = server[q].instances,
         UNCHANGED <<client, down, link, missed>>
  PROVE  FollowInv'
<1>1. IsMap(t.patterns) /\ Lasting(t.instances)
  BY DEF FollowInv
<1>2. ASSUME NEW c \in Conns PROVE Follows(c)'
  <2>1. CASE ~Sound(c)'
    BY <2>1 DEF Follows
  <2>2. CASE Sound(c)'
    <3>1. Sound(c) /\ Eventual(c)' = Eventual(c)
      BY <2>2, NotAnnounced
    <3>2. PICK all, s, m, srv, srv2, mis :
            /\ all = Eventual(c) /\ s = server[q] /\ m = missed[c][q]
            /\ srv = server /\ srv2 = server' /\ mis = missed[c]
      OBVIOUS
    <3>3. Agrees(all, srv, mis)
      BY <3>1, <3>2 DEF FollowInv, Follows
    <3>4. Alike(all[q], t, m)
      BY <3>2, <3>3 DEF Agrees, Alike
    <3>5. DOMAIN srv = Seqs /\ srv2 = [srv EXCEPT ![q] = t]
      BY <3>2 DEF FollowInv, IdInv
    <3>6. srv2[q] = t /\ \A r \in Seqs \ {q} : srv2[r] = srv[r]
      BY <3>5
    <3>7. DOMAIN all = Seqs /\ Alike(all[q], srv2[q], mis[q])
      BY <3>2, <3>3, <3>4, <3>6 DEF Agrees
    <3>8. Agrees(all, srv2, mis)
      BY <3>3, <3>6, <3>7, AgreesOne
    <3> QED BY <3>1, <3>2, <3>8 DEF Follows
  <2> QED BY <2>1, <2>2
<1>3. DOMAIN down' = Conns /\ \A c \in Conns : IsSeq(down'[c])
  BY DEF FollowInv
<1>4. missed' \in [Conns -> [Seqs -> SUBSET Instance]]
  BY DEF FollowInv
<1> QED BY <1>1, <1>2, <1>3, <1>4, RequestFollows

(* The pool has no id that a pattern has: free_id does not throw, and what *)
(* is deleted is announced.                                                *)
LEMMA DelPatternFollows ==
  ASSUME FollowInv, IdInv', SpanInv', NEW q \in Seqs, NEW id, HandleReqDelPattern(q, id)
  PROVE  FollowInv'
<1>1. PICK s, t : s = server[q] /\ t = ProcessDelPattern(s, id)
  OBVIOUS
<1>2. server' = [server EXCEPT ![q] = t] /\ UNCHANGED <<client, link, missed>>
  BY <1>1 DEF HandleReqDelPattern
<1>3. IsMap(s.patterns) /\ Lasting(s.instances)
  BY <1>1 DEF FollowInv
<1>4. CASE id \notin DOMAIN s.patterns
  <2>1. t.patterns = s.patterns /\ t.instances = s.instances
    BY <1>1, <1>3, <1>4, AbsentPattern
  <2>2. UNCHANGED down
    BY <1>1, <1>4 DEF HandleReqDelPattern
  <2> QED BY <1>1, <1>2, <2>1, <2>2, QuietFollows
<1>5. CASE id \in DOMAIN s.patterns
  <2>1. id \notin available_ids
    BY <1>1, <1>5 DEF FollowInv, IdInv, IdsUnique
  <2>2. PICK msg : msg = [cmd |-> "del_pattern", seq |-> q, id |-> id]
    OBVIOUS
  <2>3. SendMessage(msg)
    BY <1>1, <1>5, <2>1, <2>2 DEF HandleReqDelPattern
  <2>4. IsMap(t.patterns) /\ Lasting(t.instances)
    <3>1. t.instances = s.instances
      BY <1>1, OtherInstances
    <3>2. IsMap(t.patterns)
      BY <1>1 DEF IsMap, ProcessDelPattern, WithPatterns
    <3> QED BY <1>3, <3>1, <3>2
  <2>5. ASSUME NEW c \in Conns PROVE Follows(c)'
    <3>1. PICK all, a : all = Eventual(c) /\ a = ProcessDelPattern(all[q], id)
      OBVIOUS
    <3>2. HandleCmd(all, msg) = [all EXCEPT ![q] = a]
      BY <2>2, <3>1 DEF HandleCmd
    <3>3. Sound(c) => Alike(a, t, missed'[c][q])
      <4>1. Sound(c) => Alike(all[q], s, missed[c][q])
        BY <1>1, <3>1 DEF FollowInv, Follows, Agrees
      <4> QED BY <1>1, <1>2, <3>1, <4>1, PatternsAlike
    <3> QED BY <1>2, <2>3, <3>1, <3>2, <3>3, AnnouncedFollows
  <2>6. DOMAIN down' = Conns /\ \A c \in Conns : IsSeq(down'[c])
    BY <1>2, <2>3, Announced DEF SendMessage
  <2>7. missed' \in [Conns -> [Seqs -> SUBSET Instance]]
    BY <1>2 DEF FollowInv
  <2> QED BY <1>2, <2>4, <2>5, <2>6, <2>7, RequestFollows
<1> QED BY <1>4, <1>5

LEMMA AddInstanceFollows ==
  ASSUME FollowInv, IdInv', SpanInv', NEW q \in Seqs, NEW e \in Instance,
         HandleReqAddPatternInstance(q, e)
  PROVE  FollowInv'
<1>1. PICK s, t : s = server[q] /\ t = ProcessAddPatternInstance(s, e)
  OBVIOUS
<1>2. server' = [server EXCEPT ![q] = t] /\ UNCHANGED <<client, link, missed>>
  BY <1>1 DEF HandleReqAddPatternInstance
<1>3. IsMap(s.patterns) /\ Lasting(s.instances) /\ s.instances \in Seq(Instance)
  BY <1>1 DEF FollowInv, SpanInv
<1>4. CASE ~MayAddInstance(s, e)
  <2>1. t = s
    BY <1>1, <1>4 DEF ProcessAddPatternInstance
  <2>2. UNCHANGED down
    BY <1>1, <1>4 DEF HandleReqAddPatternInstance
  <2> QED BY <1>1, <1>2, <2>1, <2>2, QuietFollows
<1>5. CASE MayAddInstance(s, e)
  <2>1. PICK msg : msg = [cmd |-> "add_pattern_instance", seq |-> q, instance |-> e]
    OBVIOUS
  <2>2. SendMessage(msg)
    BY <1>1, <1>5, <2>1 DEF HandleReqAddPatternInstance
  <2>3. IsMap(t.patterns) /\ Lasting(t.instances)
    <3>1. t.patterns = s.patterns
      BY <1>1, <1>5 DEF ProcessAddPatternInstance, WithInstances
    <3>2. Lasting(t.instances)
      BY <1>1, <1>3, AddKeepsLasting
    <3> QED BY <1>3, <3>1, <3>2
  <2>4. ASSUME NEW c \in Conns PROVE Follows(c)'
    <3>1. PICK all, a : all = Eventual(c) /\ a = ProcessAddPatternInstance(all[q], e)
      OBVIOUS
    <3>2. HandleCmd(all, msg) = [all EXCEPT ![q] = a]
      BY <2>1, <3>1 DEF HandleCmd
    <3>3. Sound(c) => Alike(a, t, missed'[c][q])
      <4>1. Sound(c) => Alike(all[q], s, missed[c][q])
        BY <1>1, <3>1 DEF FollowInv, Follows, Agrees
      <4> QED BY <1>1, <1>2, <1>3, <1>5, <3>1, <4>1, AddInstanceAlike
    <3> QED BY <1>2, <2>2, <3>1, <3>2, <3>3, AnnouncedFollows
  <2>5. DOMAIN down' = Conns /\ \A c \in Conns : IsSeq(down'[c])
    BY <1>2, <2>2, Announced DEF SendMessage
  <2>6. missed' \in [Conns -> [Seqs -> SUBSET Instance]]
    BY <1>2 DEF FollowInv
  <2> QED BY <1>2, <2>3, <2>4, <2>5, <2>6, RequestFollows
<1> QED BY <1>4, <1>5

LEMMA DelInstanceFollows ==
  ASSUME FollowInv, IdInv', SpanInv', NEW q \in Seqs, NEW e, HandleReqDelPatternInstance(q, e)
  PROVE  FollowInv'
<1>1. PICK s, t : s = server[q] /\ t = ProcessDelPatternInstance(s, e)
  OBVIOUS
<1>2. PICK msg : msg = [cmd |-> "del_pattern_instance", seq |-> q, instance |-> e]
  OBVIOUS
<1>3. /\ server' = [server EXCEPT ![q] = t] /\ SendMessage(msg) /\ UNCHANGED <<client, link>>
      /\ missed' = [c \in Conns |-> [missed[c] EXCEPT ![q] = {m \in @ : ~SameInstance(m, e)}]]
  BY <1>1, <1>2 DEF HandleReqDelPatternInstance
<1>4. /\ IsMap(s.patterns) /\ Lasting(s.instances) /\ s.instances \in Seq(Instance)
      /\ AllCompatible(s.instances)
  BY <1>1 DEF FollowInv, SpanInv
<1>5. \A c \in Conns : missed[c] \in [Seqs -> SUBSET Instance]
  BY DEF FollowInv
<1>6. \A c \in Conns : /\ missed'[c] \in [Seqs -> SUBSET Instance]
                       /\ missed'[c][q] = {m \in missed[c][q] : ~SameInstance(m, e)}
                       /\ \A r \in Seqs \ {q} : missed'[c][r] = missed[c][r]
  BY <1>3, <1>5
<1>7. missed' \in [Conns -> [Seqs -> SUBSET Instance]]
  BY <1>3, <1>6
<1>8. IsMap(t.patterns) /\ Lasting(t.instances)
  <2>1. t.patterns = s.patterns
    BY <1>1 DEF ProcessDelPatternInstance, WithInstances
  <2>2. Lasting(t.instances)
    <3>1. Alike(s, s, {})
      BY <1>4 DEF Alike
    <3> QED BY <1>1, <1>4, <3>1, DelInstanceAlike
  <2> QED BY <1>4, <2>1, <2>2
<1>9. ASSUME NEW c \in Conns PROVE Follows(c)'
  <2>1. PICK all, a, m : /\ all = Eventual(c) /\ a = ProcessDelPatternInstance(all[q], e)
                         /\ m = missed[c][q]
    OBVIOUS
  <2>2. HandleCmd(all, msg) = [all EXCEPT ![q] = a]
    BY <1>2, <2>1 DEF HandleCmd
  <2>3. Sound(c) => Alike(a, t, missed'[c][q])
    <3>1. Sound(c) => Alike(all[q], s, m)
      BY <1>1, <2>1 DEF FollowInv, Follows, Agrees
    <3>2. missed'[c][q] = {x \in m : ~SameInstance(x, e)}
      BY <1>6, <2>1
    <3> QED BY <1>1, <1>4, <2>1, <3>1, <3>2, DelInstanceAlike
  <2>4. \A r \in Seqs \ {q} : missed'[c][r] = missed[c][r]
    BY <1>6
  <2>5. server' = [server EXCEPT ![q] = t] /\ SendMessage(msg) /\ UNCHANGED <<client, link>>
    BY <1>3
  <2>6. HandleCmd(Eventual(c), msg) = [Eventual(c) EXCEPT ![q] = a]
    BY <2>1, <2>2
  <2> QED BY <2>3, <2>4, <2>5, <2>6, AnnouncedFollows
<1>10. DOMAIN down' = Conns /\ \A c \in Conns : IsSeq(down'[c])
  BY <1>3, Announced DEF SendMessage
<1> QED BY <1>3, <1>7, <1>8, <1>9, <1>10, RequestFollows

(* Notes. The command that announces a deleted one cannot be read.         *)
LEMMA NotesAreMaps ==
  ASSUME NEW s, IsMap(s.patterns), NEW id, NEW x
  PROVE  IsMap(ProcessAddNote(s, id, x).patterns) /\ IsMap(ProcessDeleteNote(s, id, x).patterns)
<1>1. \A v : IsMap([s.patterns EXCEPT ![id] = v])
  BY DEF IsMap
<1> QED BY <1>1 DEF ProcessAddNote, ProcessDeleteNote, WithPatterns

LEMMA AddNoteFollows ==
  ASSUME FollowInv, IdInv', SpanInv', NEW q \in Seqs, NEW id, NEW note,
         HandleReqAddNote(q, id, note)
  PROVE  FollowInv'
<1>1. PICK s, t : s = server[q] /\ t = ProcessAddNote(s, id, note)
  OBVIOUS
<1>2. PICK msg : msg = [cmd |-> "add_note", seq |-> q, id |-> id, note |-> note]
  OBVIOUS
<1>3. /\ server' = [server EXCEPT ![q] = t] /\ SendMessage(msg)
      /\ UNCHANGED <<client, link, missed>>
  BY <1>1, <1>2 DEF HandleReqAddNote
<1>4. IsMap(t.patterns) /\ Lasting(t.instances)
  BY <1>1, OtherInstances, NotesAreMaps DEF FollowInv
<1>5. ASSUME NEW c \in Conns PROVE Follows(c)'
  <2>1. PICK all, a : all = Eventual(c) /\ a = ProcessAddNote(all[q], id, note)
    OBVIOUS
  <2>2. HandleCmd(all, msg) = [all EXCEPT ![q] = a]
    BY <1>2, <2>1 DEF HandleCmd
  <2>3. Sound(c) => Alike(a, t, missed'[c][q])
    <3>1. Sound(c) => Alike(all[q], s, missed[c][q])
      BY <1>1, <2>1 DEF FollowInv, Follows, Agrees
    <3> QED BY <1>1, <1>3, <2>1, <3>1, NotesAlike
  <2> QED BY <1>3, <2>1, <2>2, <2>3, AnnouncedFollows
<1>6. DOMAIN down' = Conns /\ \A c \in Conns : IsSeq(down'[c])
  BY <1>3, Announced DEF SendMessage
<1>7. missed' \in [Conns -> [Seqs -> SUBSET Instance]]
  BY <1>3 DEF FollowInv
<1> QED BY <1>3, <1>4, <1>5, <1>6, <1>7, RequestFollows

LEMMA DelNoteFollows ==
  ASSUME FollowInv, IdInv', SpanInv', NEW q \in Seqs, NEW id, NEW note,
         HandleReqDelNote(q, id, note)
  PROVE  FollowInv'
<1>1. PICK s, t : s = server[q] /\ t = ProcessDeleteNote(s, id, note)
  OBVIOUS
<1>2. PICK msg : msg = [cmd |-> "del_pattern_instance", seq |-> q, id |-> id, note |-> note]
  OBVIOUS
<1>3. /\ server' = [server EXCEPT ![q] = t] /\ SendMessage(msg)
      /\ UNCHANGED <<client, link, missed>>
  BY <1>1, <1>2 DEF HandleReqDelNote
<1>4. IsMap(t.patterns) /\ Lasting(t.instances)
  BY <1>1, OtherInstances, NotesAreMaps DEF FollowInv
<1>5. ~Readable(msg)
  BY <1>2 DEF Readable
<1>6. ASSUME NEW c \in Conns PROVE Follows(c)'
  BY <1>3, <1>5, Announced DEF Follows
<1>7. DOMAIN down' = Conns /\ \A c \in Conns : IsSeq(down'[c])
  BY <1>3, Announced DEF SendMessage
<1>8. missed' \in [Conns -> [Seqs -> SUBSET Instance]]
  BY <1>3 DEF FollowInv
<1> QED BY <1>3, <1>4, <1>6, <1>7, <1>8, RequestFollows

-----------------------------------------------------------------------------
(* The connections.                                                        *)

(* What another client has is left alone.                                  *)
LEMMA OtherClient ==
  ASSUME FollowInv, UNCHANGED server, NEW d \in Conns,
         client'[d] = client[d], down'[d] = down[d], link'[d] = link[d], missed'[d] = missed[d]
  PROVE  IsSeq(down'[d]) /\ Follows(d)'
<1>1. Sound(d)' <=> Sound(d)
  BY DEF Sound, Readable
<1>2. Eventual(d)' = Eventual(d)
  BY DEF Eventual
<1> QED BY <1>1, <1>2 DEF FollowInv, Follows

LEMMA ClientFollows ==
  ASSUME FollowInv, IdInv', SpanInv', UNCHANGED server, NEW c \in Conns,
         DOMAIN client' = Conns, DOMAIN down' = Conns, DOMAIN link' = Conns,
         missed' \in [Conns -> [Seqs -> SUBSET Instance]],
         \A d \in Conns \ {c} : /\ client'[d] = client[d] /\ down'[d] = down[d]
                                /\ link'[d] = link[d] /\ missed'[d] = missed[d],
         IsSeq(down'[c]), Follows(c)'
  PROVE  FollowInv'
<1>1. ASSUME NEW d \in Conns PROVE IsSeq(down'[d]) /\ Follows(d)'
  <2>1. CASE d = c
    BY <2>1
  <2>2. CASE d # c
    BY <2>2, OtherClient
  <2> QED BY <2>1, <2>2
<1>2. \A q \in Seqs : IsMap(server'[q].patterns) /\ Lasting(server'[q].instances)
  BY DEF FollowInv
<1> QED BY <1>1, <1>2 DEF FollowInv

(* do_accept: the patterns as they are, and no instances.                  *)
LEMMA ConnectFollows ==
  ASSUME FollowInv, IdInv', SpanInv', NEW c \in Conns, Connect(c)
  PROVE  FollowInv'
<1>1. PICK all, msg, mis : /\ all = [q \in Seqs |-> Serialize(server[q])]
                           /\ msg = [cmd |-> "create", contents |-> all]
                           /\ mis = [q \in Seqs |-> ToSet(server[q].instances)]
  OBVIOUS
<1>2. /\ link' = [link EXCEPT ![c] = "open"] /\ down' = [down EXCEPT ![c] = <<msg>>]
      /\ missed' = [missed EXCEPT ![c] = mis] /\ UNCHANGED <<server, client>>
  BY <1>1 DEF Connect, server_vars
<1>3. mis \in [Seqs -> SUBSET Instance]
  <2> SUFFICES ASSUME NEW q \in Seqs PROVE ToSet(server[q].instances) \subseteq Instance
    BY <1>1
  <2>1. PICK l : l = server[q].instances
    OBVIOUS
  <2>2. l \in Seq(Instance)
    BY <2>1 DEF FollowInv, SpanInv
  <2>3. ToSet(l) \subseteq Instance
    BY <2>2 DEF ToSet
  <2> QED BY <2>1, <2>3
<1>4. missed' \in [Conns -> [Seqs -> SUBSET Instance]]
  BY <1>2, <1>3 DEF FollowInv
<1>5. /\ DOMAIN client' = Conns /\ DOMAIN down' = Conns /\ DOMAIN link' = Conns
      /\ \A d \in Conns \ {c} : /\ client'[d] = client[d] /\ down'[d] = down[d]
                                /\ link'[d] = link[d] /\ missed'[d] = missed[d]
  BY <1>2 DEF FollowInv
<1>6. down'[c] = <<msg>> /\ missed'[c] = mis
  BY <1>2 DEF FollowInv
<1>7. IsSeq(<<msg>>)
  <2>1. <<msg>> \in Seq({msg})
    OBVIOUS
  <2> QED BY <2>1 DEF IsSeq
<1>8. Eventual(c)' = all
  <2>1. PICK base : base = client'[c]
    OBVIOUS
  <2>2. Eventual(c)' = FoldLeft(HandleCmd, base, <<msg>>)
    BY <1>6, <2>1 DEF Eventual
  <2>3. FoldLeft(HandleCmd, base, <<msg>>) = HandleCmd(base, msg)
    BY FoldOne
  <2>4. HandleCmd(base, msg) = all
    BY <1>1 DEF HandleCmd
  <2> QED BY <2>2, <2>3, <2>4
<1>9. Agrees(all, server, mis)
  <2>1. ASSUME NEW q \in Seqs PROVE Alike(all[q], server[q], mis[q])
    <3>1. PICK a, s, l : a = all[q] /\ s = server[q] /\ l = s.instances
      OBVIOUS
    <3>2. a.patterns = s.patterns /\ a.instances = <<>> /\ mis[q] = ToSet(l)
      BY <1>1, <3>1 DEF Serialize, WithInstances
    <3>3. <<>> \in Seq(Instance) /\ AllCompatible(<<>>) /\ ToSet(<<>>) = {}
      BY DEF AllCompatible, ToSet
    <3> QED BY <3>1, <3>2, <3>3 DEF Alike
  <2> QED BY <1>1, <2>1 DEF Agrees
<1>10. Follows(c)'
  <2>1. Agrees(Eventual(c)', server', missed'[c])
    BY <1>2, <1>6, <1>8, <1>9
  <2> QED BY <2>1 DEF Follows
<1>11. IsSeq(down'[c]) /\ UNCHANGED server
  BY <1>2, <1>6, <1>7
<1> QED BY <1>4, <1>5, <1>10, <1>11, ClientFollows

(* A message goes from what is under way to what the client has.           *)
LEMMA ReceiveFollows ==
  ASSUME FollowInv, IdInv', SpanInv', NEW c \in Conns, Receive(c)
  PROVE  FollowInv'
<1>1. PICK s, msg, u, base : s = down[c] /\ msg = Head(s) /\ u = Tail(s) /\ base = client[c]
  OBVIOUS
<1>2. /\ s # <<>> /\ down' = [down EXCEPT ![c] = u] /\ UNCHANGED <<server, missed>>
      /\ \/ /\ link[c] = "open" /\ Readable(msg)
            /\ client' = [client EXCEPT ![c] = HandleCmd(base, msg)]
            /\ UNCHANGED link
         \/ /\ client' = [client EXCEPT ![c] = NoObjects]
            /\ link' = [link EXCEPT ![c] = "flushed"]
  BY <1>1 DEF Receive, server_vars
<1>3. PICK S : s \in Seq(S)
  BY <1>1 DEF FollowInv, IsSeq
<1>4. u \in Seq(S) /\ msg \in S /\ Len(s) >= 1
  BY <1>1, <1>2, <1>3
<1>5. /\ DOMAIN client' = Conns /\ DOMAIN down' = Conns /\ DOMAIN link' = Conns
      /\ \A d \in Conns \ {c} : /\ client'[d] = client[d] /\ down'[d] = down[d]
                                /\ link'[d] = link[d] /\ missed'[d] = missed[d]
  BY <1>2 DEF FollowInv
<1>6. down'[c] = u /\ missed' \in [Conns -> [Seqs -> SUBSET Instance]] /\ IsSeq(down'[c])
  BY <1>2, <1>4 DEF FollowInv, IsSeq
<1>7. Follows(c)'
  <2>1. CASE link'[c] # "open"
    BY <2>1 DEF Follows, Sound
  <2>2. CASE link'[c] = "open"
    <3>1. /\ link[c] = "open" /\ Readable(msg) /\ client'[c] = HandleCmd(base, msg)
      BY <1>2, <2>2 DEF FollowInv
    <3>2. Eventual(c)' = FoldLeft(HandleCmd, HandleCmd(base, msg), u)
      BY <1>6, <3>1 DEF Eventual
    <3>3. FoldLeft(HandleCmd, base, s) = FoldLeft(HandleCmd, HandleCmd(base, msg), u)
      BY <1>1, <1>2, <1>3, FoldHead
    <3>4. Eventual(c)' = Eventual(c)
      BY <1>1, <3>2, <3>3 DEF Eventual
    <3>5. Sound(c)' => Sound(c)
      <4> SUFFICES ASSUME Sound(c)', NEW k \in DOMAIN s PROVE Readable(s[k])
        BY <1>1, <3>1 DEF Sound
      <4>1. PICK n : n = Len(s) /\ n \in Nat
        BY <1>3
      <4>2. DOMAIN s = 1..n /\ DOMAIN u = 1..(n - 1) /\ \A j \in 1..(n - 1) : u[j] = s[j + 1]
        BY <1>1, <1>2, <1>3, <4>1
      <4>3. CASE k = 1
        BY <1>1, <1>2, <1>3, <3>1, <4>3
      <4>4. CASE k # 1
        <5>1. k - 1 \in 1..(n - 1) /\ (k - 1) + 1 = k
          BY <4>1, <4>2, <4>4
        <5>2. u[k - 1] = s[k]
          BY <4>2, <5>1
        <5>3. Readable(u[k - 1])
          BY <1>6, <4>2, <5>1 DEF Sound, Readable
        <5> QED BY <5>2, <5>3
      <4> QED BY <4>3, <4>4
    <3> QED BY <1>2, <3>4, <3>5 DEF FollowInv, Follows
  <2> QED BY <2>1, <2>2
<1> QED BY <1>2, <1>5, <1>6, <1>7, ClientFollows

LEMMA DisconnectFollows ==
  ASSUME FollowInv, IdInv', SpanInv', NEW c \in Conns, Disconnect(c)
  PROVE  FollowInv'
<1>1. /\ link' = [link EXCEPT ![c] = "closed"] /\ down' = [down EXCEPT ![c] = <<>>]
      /\ client' = [client EXCEPT ![c] = NoObjects]
      /\ missed' = [missed EXCEPT ![c] = [q \in Seqs |-> {}]] /\ UNCHANGED server
  BY DEF Disconnect, server_vars
<1>2. /\ DOMAIN client' = Conns /\ DOMAIN down' = Conns /\ DOMAIN link' = Conns
      /\ \A d \in Conns \ {c} : /\ client'[d] = client[d] /\ down'[d] = down[d]
                                /\ link'[d] = link[d] /\ missed'[d] = missed[d]
  BY <1>1 DEF FollowInv
<1>3. missed' \in [Conns -> [Seqs -> SUBSET Instance]]
  BY <1>1 DEF FollowInv
<1>4. IsSeq(<<>>)
  <2>1. <<>> \in Seq({})
    OBVIOUS
  <2> QED BY <2>1 DEF IsSeq
<1>5. IsSeq(down'[c]) /\ link'[c] = "closed"
  BY <1>1, <1>4 DEF FollowInv
<1>6. Follows(c)'
  BY <1>5 DEF Follows, Sound
<1> QED BY <1>1, <1>2, <1>3, <1>5, <1>6, ClientFollows

LEMMA FollowInit == Init => FollowInv
<1> SUFFICES ASSUME Init PROVE FollowInv
  OBVIOUS
<1>1. \A c \in Conns : link[c] = "closed" /\ down[c] = <<>>
  BY DEF Init
<1>2. IsSeq(<<>>)
  <2>1. <<>> \in Seq({})
    OBVIOUS
  <2> QED BY <2>1 DEF IsSeq
<1>3. \A c \in Conns : Follows(c)
  BY <1>1 DEF Follows, Sound
<1>4. \A q \in Seqs : IsMap(server[q].patterns) /\ Lasting(server[q].instances)
  <2>1. IsMap(<<>>) /\ Lasting(<<>>)
    BY DEF IsMap, Lasting
  <2> QED BY <2>1 DEF Init, Empty
<1>5. missed \in [Conns -> [Seqs -> SUBSET Instance]]
  BY DEF Init
<1> QED BY <1>1, <1>2, <1>3, <1>4, <1>5, IdInvInit, SpanInit DEF Init, FollowInv

LEMMA FollowStep ==
  ASSUME FollowInv, [Next]_vars
  PROVE  FollowInv'
<1>1. IdInv' /\ SpanInv'
  BY IdStep, SpanStep DEF FollowInv
<1>2. ASSUME NEW q \in Seqs, Serve(q) PROVE FollowInv'
  <2>1. CASE HandleReqAddPattern(q)
    BY <1>1, <2>1, AddPatternFollows
  <2>2. ASSUME NEW id \in Ids, HandleReqDelPattern(q, id) PROVE FollowInv'
    BY <1>1, <2>2, DelPatternFollows
  <2>3. ASSUME NEW i \in PatternInstances, HandleReqAddPatternInstance(q, i) PROVE FollowInv'
    BY <1>1, <2>3, RequestedTyped, AddInstanceFollows
  <2>4. ASSUME NEW i \in PatternInstances, HandleReqDelPatternInstance(q, i) PROVE FollowInv'
    BY <1>1, <2>4, DelInstanceFollows
  <2>5. ASSUME NEW id \in Ids, NEW note \in Notes, HandleReqAddNote(q, id, note) PROVE FollowInv'
    BY <1>1, <2>5, AddNoteFollows
  <2>6. ASSUME NEW id \in Ids, NEW note \in Notes, HandleReqDelNote(q, id, note) PROVE FollowInv'
    BY <1>1, <2>6, DelNoteFollows
  <2> QED BY <1>2, <2>1, <2>2, <2>3, <2>4, <2>5, <2>6 DEF Serve
<1>3. ASSUME NEW c \in Conns, Connect(c) \/ Receive(c) \/ Disconnect(c) PROVE FollowInv'
  BY <1>1, <1>3, ConnectFollows, ReceiveFollows, DisconnectFollows
<1>4. CASE UNCHANGED vars
  <2>1. UNCHANGED <<server, client, down, link, missed>>
    BY <1>4 DEF vars, server_vars, client_vars
  <2>2. \A c \in Conns : IsSeq(down'[c]) /\ Follows(c)'
    BY <2>1, OtherClient
  <2> QED BY <1>1, <2>1, <2>2 DEF FollowInv
<1> QED BY <1>2, <1>3, <1>4 DEF Next

(* Whatever the number of Sequences, clients and requests, and whenever a  *)
(* client connects: once every message under way to it has been handled,   *)
(* it has the patterns of the server with their notes, unless the deletion *)
(* of a note was announced to it.                                          *)
THEOREM PatternsFollowAlways == Spec => []PatternsFollow
<1>1. FollowInv /\ [Next]_vars => FollowInv'
  BY FollowStep
<1>2. FollowInv => PatternsFollow
  BY DEF FollowInv, Follows, Agrees, Alike, PatternsFollow
<1> QED BY FollowInit, <1>1, <1>2, PTL DEF Spec

(* Under the same conditions it has the instances of the server, less      *)
(* those that were there when it connected and have stayed.                *)
THEOREM InstancesFollowAlways == Spec => []InstancesFollow
<1>1. FollowInv /\ [Next]_vars => FollowInv'
  BY FollowStep
<1>2. FollowInv => InstancesFollow
  BY DEF FollowInv, Follows, Agrees, Alike, InstancesFollow
<1> QED BY FollowInit, <1>1, <1>2, PTL DEF Spec

-----------------------------------------------------------------------------
(* The inductive invariant of Pad                                          *)

PositionType == [t : Int, x : Columns \cup {NULL}]

MotionType ==
  [start : Int, at : Seq(PositionType), index : Int, crnt_tick : Int,
   last_x : Columns \cup {NULL}, terminated : BOOLEAN, to_be_deleted : BOOLEAN]

FingerType(n) ==
  [recorded : Seq(1..n), next : (1..n) \cup {NULL}, playing : Seq(1..n),
   current : (1..n) \cup {NULL}, mixed : BOOLEAN]

SessionType(n) ==
  [start : Int, position : Int, in_play : BOOLEAN, terminated : BOOLEAN,
   to_be_deleted : BOOLEAN, finger : [Fingers -> FingerType(n)]]

(* Of n motions and k sessions.                                            *)
ObjectsType(n, k) ==
  [session : [1..k -> SessionType(n)], motion : [1..n -> MotionType],
   freed : SUBSET (1..n), sound : SUBSET ((1..n) \X (Columns \cup {NULL}))]

(* The motions a finger refers to. Its next one is among those recorded.   *)
Has(g) == ToSet(g.recorded) \cup ToSet(g.playing) \cup ({g.current} \ {NULL})

(* A recorded motion has been terminated, is not to be deleted, and plays  *)
(* when its index says so.                                                 *)
RecordedOK(mo, g) ==
  /\ IsInjective(g.recorded)
  /\ g.next = NULL \/ g.next \in ToSet(g.recorded)
  /\ \A m \in ToSet(g.recorded) :
       /\ mo[m].terminated /\ ~mo[m].to_be_deleted
       /\ m \in ToSet(g.playing) <=> mo[m].index # -1
  /\ g.current \notin ToSet(g.recorded)
  /\ g.current # NULL => ~mo[g.current].to_be_deleted

(* What plays will be recorded, deleted or lost when it ends.              *)
PlayingOK(mo, g, out) ==
  /\ IsInjective(g.playing)
  /\ \A m \in ToSet(g.playing) :
       /\ mo[m].index # -1
       /\ m \in ToSet(g.recorded) \/ m = g.current \/ m \in out \/ mo[m].to_be_deleted

(* The recorded motions are in the order in which they start, unless one   *)
(* was quantized among others that were not.                               *)
InOrderOf(mo, g) ==
  g.mixed \/
  \A j, k \in 1..Len(g.recorded) : j < k => mo[g.recorded[j]].start <= mo[g.recorded[k]].start

FingerOK(mo, g, fr, out, p) ==
  /\ RecordedOK(mo, g) /\ PlayingOK(mo, g, out) /\ InOrderOf(mo, g)
  /\ Has(g) \cap fr = {}
  /\ ~p => g.playing = <<>>

FingersOK(o, S, out) ==
  \A s \in S, f \in Fingers :
    FingerOK(o.motion, o.session[s].finger[f], o.freed, out, o.session[s].in_play)

MotionsApart(o, S) ==
  \A s, r \in S : \A f, h \in Fingers :
    Has(o.session[s].finger[f]) \cap Has(o.session[r].finger[h]) # {} => s = r /\ f = h

Covered(o, S, out) ==
  \A m \in DOMAIN o.motion \ (o.freed \cup out) :
    \E s \in S, f \in Fingers : m \in Has(o.session[s].finger[f])

(* A note that sounds, of a motion that was not cut, is the last one it    *)
(* started, and a position that ends it is still to come.                  *)
SoundOK(o, S, c) ==
  \A e \in o.sound : e[1] \in c.cut \/
    /\ e[2] = o.motion[e[1]].last_x /\ ~Ended(o.motion[e[1]])
    /\ \E s \in S, f \in Fingers : e[1] \in ToSet(o.session[s].finger[f].playing)

(* What plays has been terminated, or was cut, or its finger is down and   *)
(* its session the current one. c holds the motions that were cut, the     *)
(* current session and the fingers that are down.                          *)
HeldBy(mo, g, s, f, c) ==
  \A m \in ToSet(g.playing) :
    \/ mo[m].terminated \/ m \in c.cut
    \/ s = c.current /\ f \in c.pressed /\ m = g.current

HeldOK(o, S, c) == \A s \in S, f \in Fingers : HeldBy(o.motion, o.session[s].finger[f], s, f, c)

Hands(x, current, fs) == [cut |-> x, current |-> current, pressed |-> fs]

IndexOK(o) == \A m \in DOMAIN o.motion : o.motion[m].index \in -1..Len(o.motion[m].at)

ObjectsInv(o, n, k, S, out, c) ==
  /\ o \in ObjectsType(n, k) /\ IndexOK(o)
  /\ FingersOK(o, S, out) /\ MotionsApart(o, S) /\ Covered(o, S, out)
  /\ SoundOK(o, S, c) /\ HeldOK(o, S, c)

(* Of n motions and k sessions.                                            *)
StateOf(n, k) ==
  /\ session \in [1..k -> SessionType(n)] /\ motion \in [1..n -> MotionType]
  /\ sessions \in SUBSET (1..k)
  /\ ObjectsInv(Objects, n, k, sessions, lost, Hands(cut, current_session, pressed))

(* The current session is in play, and was told neither to end nor to go;  *)
(* every other session was told one or the other.                          *)
SessionsInv ==
  /\ current_session # NULL =>
       /\ current_session \in sessions /\ session[current_session].in_play
       /\ ~session[current_session].to_be_deleted /\ ~session[current_session].terminated
  /\ \A s \in sessions \ {current_session} : session[s].terminated \/ session[s].to_be_deleted

PadInv ==
  /\ tick \in Int /\ mute \in BOOLEAN /\ do_record \in BOOLEAN /\ do_quantize \in BOOLEAN
  /\ \E n \in {Len(motion)}, k \in {Len(session)} : n \in Nat /\ k \in Nat /\ StateOf(n, k)
  /\ SessionsInv
  /\ ExportReturns

-----------------------------------------------------------------------------
(* Steps that leave the fingers alone                                      *)

(* What the invariant says of a finger depends on when its motions start,  *)
(* which ones are to be deleted and which ones play.                       *)
AlikeFor(mo, mq, X) ==
  \A m \in X : /\ mq[m].start = mo[m].start /\ mq[m].to_be_deleted = mo[m].to_be_deleted
               /\ mo[m].terminated => mq[m].terminated
               /\ mq[m].index = -1 <=> mo[m].index = -1

LEMMA FingerMotions ==
  ASSUME NEW n \in Nat, NEW g \in FingerType(n)
  PROVE  /\ ToSet(g.recorded) \subseteq 1..n /\ ToSet(g.playing) \subseteq 1..n
         /\ Has(g) \subseteq 1..n
         /\ \A j \in 1..Len(g.recorded) : g.recorded[j] \in 1..n
         /\ Len(g.recorded) \in Nat /\ Len(g.playing) \in Nat
         /\ DOMAIN g.recorded = 1..Len(g.recorded) /\ DOMAIN g.playing = 1..Len(g.playing)
<1>1. g.recorded \in Seq(1..n) /\ g.playing \in Seq(1..n) /\ g.current \in (1..n) \cup {NULL}
  BY DEF FingerType
<1> QED BY <1>1 DEF Has, ToSet

LEMMA HasParts ==
  ASSUME NEW g
  PROVE  /\ ToSet(g.recorded) \subseteq Has(g) /\ ToSet(g.playing) \subseteq Has(g)
         /\ g.current # NULL => g.current \in Has(g)
BY DEF Has

LEMMA InOrderAlike ==
  ASSUME NEW n \in Nat, NEW g \in FingerType(n), NEW h, h.recorded = g.recorded, h.mixed = g.mixed,
         NEW mo, NEW mq, InOrderOf(mo, g), \A m \in ToSet(g.recorded) : mq[m].start = mo[m].start
  PROVE  InOrderOf(mq, h)
<1>1. \A j \in 1..Len(g.recorded) : g.recorded[j] \in ToSet(g.recorded)
  BY FingerMotions DEF ToSet
<1> QED BY <1>1 DEF InOrderOf

LEMMA HeldAlike ==
  ASSUME NEW mo, NEW mq, NEW g, NEW h, NEW s, NEW f, NEW c, HeldBy(mo, g, s, f, c), h.current = g.current,
         \A m \in ToSet(h.playing) :
           m \in ToSet(g.playing) /\ (mo[m].terminated => mq[m].terminated)
  PROVE  HeldBy(mq, h, s, f, c)
BY DEF HeldBy

LEMMA FingerAlike ==
  ASSUME NEW n \in Nat, NEW g \in FingerType(n), NEW X, Has(g) \subseteq X,
         NEW mo, NEW mq, AlikeFor(mo, mq, X), NEW fr, NEW fq, Has(g) \cap fq = {},
         NEW out, NEW out2, out \subseteq out2, NEW p, FingerOK(mo, g, fr, out, p)
  PROVE  FingerOK(mq, g, fq, out2, p)
<1>1. RecordedOK(mo, g) /\ PlayingOK(mo, g, out) /\ InOrderOf(mo, g) /\ (~p => g.playing = <<>>)
  BY DEF FingerOK
<1>2. RecordedOK(mq, g)
  BY <1>1, HasParts DEF RecordedOK, AlikeFor
<1>3. PlayingOK(mq, g, out2)
  BY <1>1, HasParts DEF PlayingOK, AlikeFor
<1>4. InOrderOf(mq, g)
  <2>1. \A m \in ToSet(g.recorded) : mq[m].start = mo[m].start
    BY HasParts DEF AlikeFor
  <2> QED BY <1>1, <2>1, InOrderAlike
<1> QED BY <1>1, <1>2, <1>3, <1>4 DEF FingerOK

LEMMA MotionsStep ==
  ASSUME NEW n \in Nat, NEW k \in Nat, NEW S \in SUBSET (1..k), NEW out, NEW c, NEW d,
         NEW o, ObjectsInv(o, n, k, S, out, c),
         NEW q \in ObjectsType(n, k), q.session = o.session, q.freed = o.freed,
         AlikeFor(o.motion, q.motion, 1..n), IndexOK(q), SoundOK(q, S, d), HeldOK(q, S, d)
  PROVE  ObjectsInv(q, n, k, S, out, d)
<1>1. FingersOK(q, S, out)
  <2> SUFFICES ASSUME NEW s \in S, NEW f \in Fingers
               PROVE  FingerOK(q.motion, o.session[s].finger[f], o.freed, out, o.session[s].in_play)
    BY DEF FingersOK
  <2>1. o.session[s].finger[f] \in FingerType(n)
    BY DEF ObjectsInv, ObjectsType, SessionType
  <2>2. FingerOK(o.motion, o.session[s].finger[f], o.freed, out, o.session[s].in_play)
    BY DEF ObjectsInv, FingersOK
  <2>3. Has(o.session[s].finger[f]) \cap o.freed = {}
    BY <2>2 DEF FingerOK
  <2>4. Has(o.session[s].finger[f]) \subseteq 1..n
    BY <2>1, FingerMotions
  <2> QED BY <2>1, <2>2, <2>3, <2>4, FingerAlike
<1>2. MotionsApart(q, S)
  BY DEF MotionsApart, ObjectsInv
<1>3. Covered(q, S, out)
  <2>1. DOMAIN q.motion = DOMAIN o.motion
    BY DEF ObjectsInv, ObjectsType
  <2> QED BY <2>1 DEF Covered, ObjectsInv
<1> QED BY <1>1, <1>2, <1>3 DEF ObjectsInv

LEMMA HeldKept ==
  ASSUME NEW n \in Nat, NEW k \in Nat, NEW S \in SUBSET (1..k), NEW out, NEW c,
         NEW o, ObjectsInv(o, n, k, S, out, c), NEW q, q.session = o.session,
         AlikeFor(o.motion, q.motion, 1..n)
  PROVE  HeldOK(q, S, c)
<1> SUFFICES ASSUME NEW s \in S, NEW f \in Fingers
             PROVE  HeldBy(q.motion, o.session[s].finger[f], s, f, c)
  BY DEF HeldOK
<1>1. o.session[s].finger[f] \in FingerType(n)
  BY DEF ObjectsInv, ObjectsType, SessionType
<1>2. HeldBy(o.motion, o.session[s].finger[f], s, f, c)
  BY DEF ObjectsInv, HeldOK
<1>3. ToSet(o.session[s].finger[f].playing) \subseteq 1..n
  BY <1>1, FingerMotions
<1>4. \A m \in 1..n : o.motion[m].terminated => q.motion[m].terminated
  BY DEF AlikeFor
<1> QED BY <1>2, <1>3, <1>4, HeldAlike

-----------------------------------------------------------------------------
(* Playing a motion                                                        *)

(* What a fold over the positions of a motion is given.                    *)
Part(m, quiet) == [motion |-> m, quiet |-> quiet]

WithMotion(o, m, p) == [o EXCEPT !.motion[m] = p]

(* The motion has a position that has not been played.                     *)
HasMore(p) == p.index \in 0..(Len(p.at) - 1)

Plays(o, S, m) == \E s \in S, f \in Fingers : m \in ToSet(o.session[s].finger[f].playing)

Played(p, x) == [p EXCEPT !.last_x = x, !.index = @ + 1]

LEMMA PlayedView ==
  ASSUME NEW p \in MotionType, NEW x \in Columns \cup {NULL}
  PROVE  LET q == Played(p, x)
         IN /\ q \in MotionType /\ q.start = p.start /\ q.at = p.at
            /\ q.to_be_deleted = p.to_be_deleted /\ q.terminated = p.terminated
            /\ q.last_x = x /\ q.index = p.index + 1
<1>1. p.index \in Int /\ p.index + 1 \in Int
  BY DEF MotionType
<1> QED BY <1>1 DEF MotionType, Played

(* What a round leaves: q after o.                                         *)
RoundOf(q, o, n, k, S, out, c, m) ==
  /\ ObjectsInv(q, n, k, S, out, c) /\ q.session = o.session
  /\ q.motion[m].index = o.motion[m].index + 1
  /\ q.motion[m].at = o.motion[m].at

(* A round of the loop in process_motion keeps the invariant: the note     *)
(* that sounded ends unless it is the note of the new position, and the    *)
(* last position starts none.                                              *)
LEMMA PlayPositionStep ==
  ASSUME NEW n \in Nat, NEW k \in Nat, NEW S \in SUBSET (1..k), NEW out, NEW c,
         NEW o, ObjectsInv(o, n, k, S, out, c), NEW m \in 1..n, Plays(o, S, m),
         NEW quiet, HasMore(o.motion[m]),
         NEW q, q = PlayPosition(o, Part(m, quiet))
  PROVE  RoundOf(q, o, n, k, S, out, c, m)
<1>1. PICK p : p = o.motion[m]
  OBVIOUS
<1>2. PICK x : x = p.at[p.index + 1].x
  OBVIOUS
<1>3. PICK p1 : p1 = Played(p, x)
  OBVIOUS
<1> DEFINE final == p.terminated /\ p.index = Len(p.at) - 1
           off == IF p.last_x # x \/ p.to_be_deleted \/ final THEN {<<m, p.last_x>>} ELSE {}
           on == IF ~p.to_be_deleted /\ p.last_x # x /\ ~quiet /\ ~final THEN {<<m, x>>} ELSE {}
<1>4. o \in ObjectsType(n, k)
  BY DEF ObjectsInv
<1>5. o.motion \in [1..n -> MotionType] /\ p \in MotionType
  BY <1>1, <1>4 DEF ObjectsType
<1>6. /\ p.at \in Seq(PositionType) /\ p.index \in Int /\ Len(p.at) \in Nat
      /\ p.index \in 0..(Len(p.at) - 1)
  <2>1. p.at \in Seq(PositionType) /\ p.index \in Int
    BY <1>5 DEF MotionType
  <2>2. Len(p.at) \in Nat
    BY <2>1
  <2> QED BY <1>1, <2>1, <2>2 DEF HasMore
<1>7. x \in Columns \cup {NULL}
  <2>1. p.index + 1 \in 1..Len(p.at)
    BY <1>6
  <2>2. p.at[p.index + 1] \in PositionType
    BY <1>6, <2>1
  <2> QED BY <1>2, <2>2 DEF PositionType
<1>8. /\ p1 \in MotionType /\ p1.start = p.start /\ p1.at = p.at
      /\ p1.to_be_deleted = p.to_be_deleted /\ p1.terminated = p.terminated
      /\ p1.last_x = x /\ p1.index = p.index + 1
  BY <1>3, <1>7, <1>5, PlayedView
<1>9. q = [o EXCEPT !.sound = (@ \ off) \cup on, !.motion[m] = p1]
  BY <1>1, <1>2, <1>3 DEF PlayPosition, Played, Part
<1>10. /\ q.session = o.session /\ q.freed = o.freed /\ q.sound = (o.sound \ off) \cup on
       /\ q.motion = [o.motion EXCEPT ![m] = p1]
       /\ q = [session |-> q.session, motion |-> q.motion, freed |-> q.freed, sound |-> q.sound]
  <2> HIDE DEF off, on, final
  <2> QED BY <1>4, <1>9 DEF ObjectsType
<1>11. q \in ObjectsType(n, k)
  <2>1. q.motion \in [1..n -> MotionType]
    BY <1>5, <1>8, <1>10
  <2>2. on \subseteq (1..n) \X (Columns \cup {NULL})
    BY <1>7
  <2>3. q.sound \in SUBSET ((1..n) \X (Columns \cup {NULL}))
    <3>1. o.sound \in SUBSET ((1..n) \X (Columns \cup {NULL}))
      BY <1>4 DEF ObjectsType
    <3> HIDE DEF on, off, final
    <3> QED BY <1>10, <2>2, <3>1
  <2> HIDE DEF off, on, final
  <2> QED BY <1>4, <1>10, <2>1, <2>3 DEF ObjectsType
<1>12. /\ \A e \in q.sound : e \in o.sound \/ (e = <<m, x>> /\ ~final)
       /\ p.last_x # x \/ final => \A e \in q.sound : e = <<m, p.last_x>> => e = <<m, x>> /\ ~final
  BY <1>10
<1>13. q.motion[m] = p1 /\ \A i \in 1..n : i # m => q.motion[i] = o.motion[i]
  BY <1>10, <1>5
<1>14. p.index \in 0..(Len(p.at) - 1) /\ p1.index # -1 /\ p.index # -1
  BY <1>6, <1>8
<1>15. AlikeFor(o.motion, q.motion, 1..n)
  BY <1>1, <1>8, <1>13, <1>14 DEF AlikeFor
<1>16. IndexOK(q)
  <2>1. DOMAIN q.motion = 1..n /\ DOMAIN o.motion = 1..n
    BY <1>11, <1>5 DEF ObjectsType
  <2>2. p1.index \in -1..Len(p1.at)
    BY <1>6, <1>8
  <2> QED BY <1>13, <2>1, <2>2 DEF IndexOK, ObjectsInv
<1>17. ~final => ~Ended(p1)
  BY <1>6, <1>8 DEF Ended
<1>18. SoundOK(q, S, c)
  <2> SUFFICES ASSUME NEW e \in q.sound, e[1] \notin c.cut
               PROVE  /\ e[2] = q.motion[e[1]].last_x /\ ~Ended(q.motion[e[1]])
                      /\ \E s \in S, f \in Fingers : e[1] \in ToSet(q.session[s].finger[f].playing)
    BY DEF SoundOK
  <2>1. e[1] \in 1..n /\ e = <<e[1], e[2]>>
    BY <1>11 DEF ObjectsType
  <2>2. CASE e[1] = m
    <3>1. e = <<m, x>> /\ ~final
      <4>1. CASE e \in o.sound
        <5>1. e[2] = p.last_x
          BY <1>1, <2>2, <4>1 DEF ObjectsInv, SoundOK
        <5>2. CASE p.last_x # x \/ final
          BY <1>12, <2>1, <2>2, <5>1, <5>2
        <5>3. CASE p.last_x = x /\ ~final
          BY <2>1, <2>2, <5>1, <5>3
        <5> QED BY <5>2, <5>3
      <4> QED BY <1>12, <4>1
    <3> QED BY <1>10, <1>8, <1>13, <1>17, <2>2, <3>1 DEF Plays
  <2>3. CASE e[1] # m
    <3>1. e \in o.sound
      BY <1>12, <2>1, <2>3
    <3>2. q.motion[e[1]] = o.motion[e[1]]
      BY <1>13, <2>1, <2>3
    <3> QED BY <1>10, <3>1, <3>2 DEF ObjectsInv, SoundOK
  <2> QED BY <2>2, <2>3
<1>19. ObjectsInv(q, n, k, S, out, c)
  BY <1>10, <1>11, <1>15, <1>16, <1>18, MotionsStep, HeldKept
<1> QED BY <1>1, <1>10, <1>8, <1>13, <1>19 DEF RoundOf

LEMMA TickedView ==
  ASSUME NEW p \in MotionType
  PROVE  LET q == Ticked(p)
         IN /\ q \in MotionType /\ q.start = p.start /\ q.at = p.at
            /\ q.to_be_deleted = p.to_be_deleted /\ q.terminated = p.terminated
            /\ q.last_x = p.last_x /\ q.index = p.index
<1>1. p.crnt_tick \in Int
  BY DEF MotionType
<1>2. (IF p.crnt_tick < Late THEN p.crnt_tick + 1 ELSE p.crnt_tick) \in Int
  BY <1>1
<1> QED BY <1>2 DEF MotionType, Ticked

(* The invariant does not speak of the tick of a motion.                   *)
LEMMA TickStep ==
  ASSUME NEW n \in Nat, NEW k \in Nat, NEW S \in SUBSET (1..k), NEW out, NEW c,
         NEW o, ObjectsInv(o, n, k, S, out, c), NEW m \in 1..n,
         NEW q, q = WithMotion(o, m, Ticked(o.motion[m]))
  PROVE  /\ ObjectsInv(q, n, k, S, out, c) /\ q.session = o.session
         /\ q.motion[m] = Ticked(o.motion[m])
<1>1. PICK p : p = o.motion[m]
  OBVIOUS
<1>2. PICK p1 : p1 = Ticked(p)
  OBVIOUS
<1>3. o \in ObjectsType(n, k)
  BY DEF ObjectsInv
<1>4. o.motion \in [1..n -> MotionType] /\ p \in MotionType
  BY <1>1, <1>3 DEF ObjectsType
<1>5. /\ p1 \in MotionType /\ p1.start = p.start /\ p1.at = p.at
      /\ p1.to_be_deleted = p.to_be_deleted /\ p1.terminated = p.terminated
      /\ p1.last_x = p.last_x /\ p1.index = p.index
  BY <1>2, <1>4, TickedView
<1>6. q = [o EXCEPT !.motion[m] = p1]
  BY <1>1, <1>2 DEF WithMotion
<1>7. /\ q.session = o.session /\ q.freed = o.freed /\ q.sound = o.sound
      /\ q.motion = [o.motion EXCEPT ![m] = p1]
      /\ q = [session |-> q.session, motion |-> q.motion, freed |-> q.freed, sound |-> q.sound]
  BY <1>3, <1>6 DEF ObjectsType
<1>8. q \in ObjectsType(n, k)
  <2>1. q.motion \in [1..n -> MotionType]
    BY <1>4, <1>5, <1>7
  <2> QED BY <1>3, <1>7, <2>1 DEF ObjectsType
<1>9. q.motion[m] = p1 /\ \A i \in 1..n : i # m => q.motion[i] = o.motion[i]
  BY <1>4, <1>7
<1>10. AlikeFor(o.motion, q.motion, 1..n)
  BY <1>1, <1>5, <1>9 DEF AlikeFor
<1>11. DOMAIN q.motion = 1..n /\ DOMAIN o.motion = 1..n
  BY <1>3, <1>8 DEF ObjectsType
<1>12. IndexOK(q)
  BY <1>1, <1>5, <1>9, <1>11 DEF IndexOK, ObjectsInv
<1>13. \A i \in 1..n : /\ q.motion[i].last_x = o.motion[i].last_x
                       /\ Ended(q.motion[i]) <=> Ended(o.motion[i])
  BY <1>1, <1>5, <1>9 DEF Ended
<1>14. SoundOK(q, S, c)
  <2>1. \A e \in o.sound : e[1] \in 1..n
    BY <1>3 DEF ObjectsType
  <2>2. SoundOK(o, S, c)
    BY DEF ObjectsInv
  <2> QED BY <1>7, <1>13, <2>1, <2>2 DEF SoundOK
<1>15. ObjectsInv(q, n, k, S, out, c)
  BY <1>7, <1>8, <1>10, <1>12, <1>14, MotionsStep, HeldKept
<1> QED BY <1>1, <1>2, <1>7, <1>9, <1>15

LEMMA PlaysHasIndex ==
  ASSUME NEW n \in Nat, NEW k \in Nat, NEW S \in SUBSET (1..k), NEW out, NEW c,
         NEW o, ObjectsInv(o, n, k, S, out, c), NEW m \in 1..n, Plays(o, S, m)
  PROVE  o.motion[m].index \in 0..Len(o.motion[m].at) /\ Len(o.motion[m].at) \in Nat
<1>1. o.motion \in [1..n -> MotionType] /\ o.motion[m].index \in -1..Len(o.motion[m].at)
  BY DEF ObjectsInv, ObjectsType, IndexOK
<1>2. o.motion[m].index # -1
  BY DEF ObjectsInv, FingersOK, FingerOK, PlayingOK, Plays
<1>3. o.motion[m].at \in Seq(PositionType) /\ o.motion[m].index \in Int
  BY <1>1 DEF MotionType
<1>4. Len(o.motion[m].at) \in Nat
  BY <1>3
<1> QED BY <1>1, <1>2, <1>3, <1>4

-----------------------------------------------------------------------------
(* Steps that change what one finger refers to                             *)

LEMMA ApartStep ==
  ASSUME NEW S, NEW S2, S2 \subseteq S, NEW o, NEW q, MotionsApart(o, S),
         \A s \in S2, f \in Fingers : Has(q.session[s].finger[f]) \subseteq Has(o.session[s].finger[f])
  PROVE  MotionsApart(q, S2)
<1> SUFFICES ASSUME NEW s \in S2, NEW r \in S2, NEW f \in Fingers, NEW h \in Fingers,
                    NEW m \in Has(q.session[s].finger[f]), m \in Has(q.session[r].finger[h])
             PROVE  s = r /\ f = h
  BY DEF MotionsApart
<1>1. m \in Has(o.session[s].finger[f]) /\ m \in Has(o.session[r].finger[h])
  OBVIOUS
<1>2. Has(o.session[s].finger[f]) \cap Has(o.session[r].finger[h]) # {}
  BY <1>1
<1> QED BY <1>2 DEF MotionsApart

LEMMA CoveredStep ==
  ASSUME NEW S, NEW S2, NEW out, NEW out2, NEW o, NEW q, Covered(o, S, out),
         DOMAIN q.motion = DOMAIN o.motion, o.freed \subseteq q.freed, out \subseteq out2,
         \A s \in S, f \in Fingers : \A m \in Has(o.session[s].finger[f]) :
           m \in q.freed \/ m \in out2 \/ (s \in S2 /\ m \in Has(q.session[s].finger[f]))
  PROVE  Covered(q, S2, out2)
<1> SUFFICES ASSUME NEW m \in DOMAIN o.motion, m \notin q.freed, m \notin out2
             PROVE  \E s \in S2, f \in Fingers : m \in Has(q.session[s].finger[f])
  BY DEF Covered
<1>1. PICK s \in S, f \in Fingers : m \in Has(o.session[s].finger[f])
  BY DEF Covered
<1> QED BY <1>1

(* Two owners do not have a motion in common.                              *)
LEMMA HasOne ==
  ASSUME NEW S, NEW o, MotionsApart(o, S), NEW s \in S, NEW r \in S, NEW f \in Fingers, NEW h \in Fingers,
         NEW m \in Has(o.session[s].finger[f]), m \in Has(o.session[r].finger[h])
  PROVE  s = r /\ f = h
<1>1. Has(o.session[s].finger[f]) \cap Has(o.session[r].finger[h]) # {}
  OBVIOUS
<1> QED BY <1>1 DEF MotionsApart

(* All fingers but finger f of session s are the same in q as in o.        *)
OthersSame(q, o, S, s, f) ==
  \A r \in S, h \in Fingers :
    r # s \/ h # f => q.session[r].finger[h] = o.session[r].finger[h]

SameControl(q, o, k) ==
  \A s \in 1..k :
    /\ q.session[s].in_play = o.session[s].in_play
    /\ q.session[s].terminated = o.session[s].terminated
    /\ q.session[s].to_be_deleted = o.session[s].to_be_deleted

LEMMA SameControlTransitive ==
  ASSUME NEW k, NEW o, NEW q, NEW r, SameControl(q, o, k), SameControl(r, q, k)
  PROVE  SameControl(r, o, k)
BY DEF SameControl

LEMMA FingerStep ==
  ASSUME NEW n \in Nat, NEW k \in Nat, NEW S \in SUBSET (1..k), NEW out, NEW c,
         NEW o, ObjectsInv(o, n, k, S, out, c),
         NEW q \in ObjectsType(n, k), IndexOK(q), SoundOK(q, S, c),
         NEW s \in S, NEW f \in Fingers, OthersSame(q, o, S, s, f), SameControl(q, o, k),
         NEW g, g = o.session[s].finger[f], NEW h, h = q.session[s].finger[f],
         AlikeFor(o.motion, q.motion, (1..n) \ Has(g)),
         FingerOK(q.motion, h, q.freed, out, q.session[s].in_play), HeldBy(q.motion, h, s, f, c),
         Has(h) \subseteq Has(g), o.freed \subseteq q.freed, q.freed \ o.freed \subseteq Has(g),
         \A m \in Has(g) : m \in Has(h) \/ m \in q.freed \/ m \in out
  PROVE  ObjectsInv(q, n, k, S, out, c)
<1>1. MotionsApart(o, S) /\ Covered(o, S, out) /\ FingersOK(o, S, out) /\ o \in ObjectsType(n, k)
  BY DEF ObjectsInv
<1>2. \A r \in S, e \in Fingers : Has(q.session[r].finger[e]) \subseteq Has(o.session[r].finger[e])
  BY DEF OthersSame
<1>3. MotionsApart(q, S)
  BY <1>1, <1>2, ApartStep
<1>4. Covered(q, S, out)
  <2>1. DOMAIN q.motion = DOMAIN o.motion
    BY <1>1 DEF ObjectsType
  <2>2. \A r \in S, e \in Fingers : \A m \in Has(o.session[r].finger[e]) :
           m \in q.freed \/ m \in out \/ (r \in S /\ m \in Has(q.session[r].finger[e]))
    BY DEF OthersSame
  <2> QED BY <1>1, <2>1, <2>2, CoveredStep
<1>5. FingersOK(q, S, out)
  <2> SUFFICES ASSUME NEW r \in S, NEW e \in Fingers, r # s \/ e # f
               PROVE  FingerOK(q.motion, q.session[r].finger[e], q.freed, out, q.session[r].in_play)
    BY DEF FingersOK
  <2>1. PICK a : a = o.session[r].finger[e]
    OBVIOUS
  <2>2. q.session[r].finger[e] = a /\ q.session[r].in_play = o.session[r].in_play
    BY <2>1 DEF OthersSame, SameControl
  <2>3. a \in FingerType(n)
    <3>1. o.session[r] \in SessionType(n)
      BY <1>1 DEF ObjectsType
    <3> QED BY <2>1, <3>1 DEF SessionType
  <2>4. FingerOK(o.motion, a, o.freed, out, o.session[r].in_play)
    BY <1>1, <2>1 DEF FingersOK
  <2>5. \A m \in Has(a) : m \notin Has(g)
    BY <1>1, <2>1, HasOne
  <2>6. Has(a) \cap q.freed = {}
    BY <2>4, <2>5 DEF FingerOK
  <2>7. Has(a) \subseteq (1..n) \ Has(g)
    BY <2>3, <2>5, FingerMotions
  <2> QED BY <2>2, <2>3, <2>4, <2>6, <2>7, FingerAlike
<1>6. HeldOK(q, S, c)
  <2> SUFFICES ASSUME NEW r \in S, NEW e \in Fingers, r # s \/ e # f
               PROVE  HeldBy(q.motion, q.session[r].finger[e], r, e, c)
    BY DEF HeldOK
  <2>1. PICK a : a = o.session[r].finger[e]
    OBVIOUS
  <2>2. q.session[r].finger[e] = a /\ a \in FingerType(n)
    BY <1>1, <2>1 DEF OthersSame, ObjectsType, SessionType
  <2>3. HeldBy(o.motion, a, r, e, c)
    BY <2>1 DEF ObjectsInv, HeldOK
  <2>4. \A m \in ToSet(a.playing) : m \notin Has(g) /\ m \in 1..n
    <3>1. ToSet(a.playing) \subseteq Has(a) /\ ToSet(a.playing) \subseteq 1..n
      BY <2>2, HasParts, FingerMotions
    <3>2. \A m \in Has(a) : m \notin Has(g)
      BY <1>1, <2>1, HasOne
    <3> QED BY <3>1, <3>2
  <2>5. \A m \in ToSet(a.playing) : o.motion[m].terminated => q.motion[m].terminated
    BY <2>4 DEF AlikeFor
  <2> QED BY <2>2, <2>3, <2>5, HeldAlike
<1> QED BY <1>3, <1>4, <1>5, <1>6 DEF ObjectsInv

WithFinger(ss, s, f, h) == [ss EXCEPT ![s].finger[f] = h]

(* The sessions tt are the sessions ss but for finger f of session s.      *)
DifferAt(tt, ss, n, k, s, f, h) ==
  /\ tt \in [1..k -> SessionType(n)]
  /\ tt[s].finger[f] = h
  /\ \A r \in 1..k, e \in Fingers : r # s \/ e # f => tt[r].finger[e] = ss[r].finger[e]
  /\ \A r \in 1..k : /\ tt[r].in_play = ss[r].in_play /\ tt[r].terminated = ss[r].terminated
                     /\ tt[r].to_be_deleted = ss[r].to_be_deleted

LEMMA WithFingerView ==
  ASSUME NEW n \in Nat, NEW k \in Nat, NEW ss \in [1..k -> SessionType(n)], NEW s \in 1..k,
         NEW f \in Fingers, NEW h \in FingerType(n)
  PROVE  DifferAt(WithFinger(ss, s, f, h), ss, n, k, s, f, h)
<1>1. PICK tt : tt = WithFinger(ss, s, f, h)
  OBVIOUS
<1>2. PICK c : c = ss[s]
  OBVIOUS
<1>3. c \in SessionType(n) /\ c.finger \in [Fingers -> FingerType(n)]
  BY <1>2 DEF SessionType
<1>4. PICK fs : fs = [c.finger EXCEPT ![f] = h]
  OBVIOUS
<1>5. fs \in [Fingers -> FingerType(n)] /\ fs[f] = h /\ \A e \in Fingers : e # f => fs[e] = c.finger[e]
  BY <1>3, <1>4
<1>6. PICK c2 : c2 = [c EXCEPT !.finger = fs]
  OBVIOUS
<1>7. /\ c2 \in SessionType(n) /\ c2.finger = fs /\ c2.in_play = c.in_play
      /\ c2.terminated = c.terminated /\ c2.to_be_deleted = c.to_be_deleted
  BY <1>3, <1>5, <1>6 DEF SessionType
<1>8. tt = [ss EXCEPT ![s] = c2]
  BY <1>1, <1>2, <1>4, <1>6 DEF WithFinger
<1>9. tt \in [1..k -> SessionType(n)] /\ tt[s] = c2 /\ \A r \in 1..k : r # s => tt[r] = ss[r]
  BY <1>7, <1>8
<1> QED BY <1>1, <1>2, <1>5, <1>7, <1>9 DEF DifferAt

-----------------------------------------------------------------------------
(* The lists of a finger                                                   *)

LEMMA ToSetView ==
  ASSUME NEW T, NEW s \in Seq(T)
  PROVE  /\ DOMAIN s = 1..Len(s) /\ Len(s) \in Nat /\ ToSet(s) \subseteq T
         /\ \A j \in 1..Len(s) : s[j] \in ToSet(s)
         /\ \A e \in ToSet(s) : \E j \in 1..Len(s) : s[j] = e
BY DEF ToSet

LEMMA PlaceView ==
  ASSUME NEW T, NEW s \in Seq(T), NEW m \in ToSet(s)
  PROVE  PlaceIn(s, m) \in 1..Len(s) /\ s[PlaceIn(s, m)] = m
<1>1. \E j \in DOMAIN s : s[j] = m
  BY ToSetView
<1>2. PlaceIn(s, m) \in DOMAIN s /\ s[PlaceIn(s, m)] = m
  BY <1>1 DEF PlaceIn
<1> QED BY <1>2, ToSetView

LEMMA RemoveOne ==
  ASSUME NEW T, NEW s \in Seq(T), IsInjective(s), NEW m \in ToSet(s),
         NEW t, t = RemoveAt(s, PlaceIn(s, m))
  PROVE  t \in Seq(T) /\ IsInjective(t) /\ ToSet(t) = ToSet(s) \ {m}
<1>1. PICK i : i = PlaceIn(s, m)
  OBVIOUS
<1>2. i \in 1..Len(s) /\ s[i] = m /\ Len(s) \in Nat
  BY <1>1, PlaceView, ToSetView
<1>3. /\ t \in Seq(T) /\ Len(t) = Len(s) - 1
      /\ \A j \in 1..(Len(s) - 1) : t[j] = IF j < i THEN s[j] ELSE s[j + 1]
  BY <1>1, <1>2, RemoveView
<1>4. DOMAIN s = 1..Len(s) /\ DOMAIN t = 1..(Len(s) - 1)
  BY <1>3, ToSetView
<1>5. \A a, b \in 1..Len(s) : s[a] = s[b] => a = b
  BY <1>4 DEF IsInjective
<1>6. IsInjective(t)
  <2> SUFFICES ASSUME NEW a \in 1..(Len(s) - 1), NEW b \in 1..(Len(s) - 1), t[a] = t[b] PROVE a = b
    BY <1>4 DEF IsInjective
  <2>1. a \in 1..Len(s) /\ b \in 1..Len(s) /\ a + 1 \in 1..Len(s) /\ b + 1 \in 1..Len(s)
    BY <1>2
  <2>2. CASE a < i /\ b < i
    BY <1>3, <1>5, <2>1, <2>2
  <2>3. CASE a < i /\ ~(b < i)
    <3>1. a = b + 1
      BY <1>3, <1>5, <2>1, <2>3
    <3> QED BY <1>2, <2>1, <2>3, <3>1
  <2>4. CASE ~(a < i) /\ b < i
    <3>1. a + 1 = b
      BY <1>3, <1>5, <2>1, <2>4
    <3> QED BY <1>2, <2>1, <2>4, <3>1
  <2>5. CASE ~(a < i) /\ ~(b < i)
    <3>1. a + 1 = b + 1
      BY <1>3, <1>5, <2>1, <2>5
    <3> QED BY <2>1, <3>1
  <2> QED BY <2>2, <2>3, <2>4, <2>5
<1>7. ToSet(t) \subseteq ToSet(s) \ {m}
  <2> SUFFICES ASSUME NEW j \in 1..(Len(s) - 1) PROVE t[j] \in ToSet(s) /\ t[j] # m
    BY <1>4 DEF ToSet
  <2>1. j \in 1..Len(s) /\ j + 1 \in 1..Len(s)
    BY <1>2
  <2>2. CASE j < i
    BY <1>2, <1>3, <1>5, <2>1, <2>2, ToSetView
  <2>3. CASE ~(j < i)
    <3>1. j + 1 # i
      BY <1>2, <2>1, <2>3
    <3> QED BY <1>2, <1>3, <1>5, <2>1, <2>3, <3>1, ToSetView
  <2> QED BY <2>2, <2>3
<1>8. ToSet(s) \ {m} \subseteq ToSet(t)
  <2> SUFFICES ASSUME NEW e \in ToSet(s), e # m PROVE e \in ToSet(t)
    OBVIOUS
  <2>1. PICK j \in 1..Len(s) : s[j] = e
    BY ToSetView
  <2>2. j # i
    BY <1>2, <2>1
  <2>3. CASE j < i
    <3>1. j \in 1..(Len(s) - 1)
      BY <1>2, <2>3
    <3>2. t[j] = e
      BY <1>3, <2>1, <2>3, <3>1
    <3> QED BY <1>3, <3>1, <3>2, ToSetView
  <2>4. CASE ~(j < i)
    <3>1. j - 1 \in 1..(Len(s) - 1) /\ ~(j - 1 < i) /\ (j - 1) + 1 = j
      BY <1>2, <2>2, <2>4
    <3>2. t[j - 1] = e
      BY <1>3, <2>1, <3>1
    <3> QED BY <1>3, <3>1, <3>2, ToSetView
  <2> QED BY <2>3, <2>4
<1> QED BY <1>3, <1>6, <1>7, <1>8

LEMMA InsertOne ==
  ASSUME NEW T, NEW s \in Seq(T), IsInjective(s), NEW m \in T, m \notin ToSet(s),
         NEW i \in 1..(Len(s) + 1)
  PROVE  /\ InsertAt(s, i, m) \in Seq(T) /\ IsInjective(InsertAt(s, i, m))
         /\ ToSet(InsertAt(s, i, m)) = ToSet(s) \cup {m}
<1>1. /\ InsertAt(s, i, m) \in Seq(T) /\ Len(InsertAt(s, i, m)) = Len(s) + 1
      /\ \A j \in 1..(Len(s) + 1) :
           InsertAt(s, i, m)[j] = IF j < i THEN s[j] ELSE IF j = i THEN m ELSE s[j - 1]
  BY InsertView
<1>2. Len(s) \in Nat
  BY ToSetView
<1>3. PICK t : t = InsertAt(s, i, m)
  OBVIOUS
<1>4. /\ t \in Seq(T) /\ Len(t) = Len(s) + 1
      /\ \A j \in 1..(Len(s) + 1) : t[j] = IF j < i THEN s[j] ELSE IF j = i THEN m ELSE s[j - 1]
  BY <1>1, <1>3
<1>5. DOMAIN s = 1..Len(s) /\ DOMAIN t = 1..(Len(s) + 1)
  BY <1>4, ToSetView
<1>6. /\ \A a, b \in 1..Len(s) : s[a] = s[b] => a = b
      /\ \A a \in 1..Len(s) : s[a] # m
  <2>1. \A a, b \in 1..Len(s) : s[a] = s[b] => a = b
    BY <1>5 DEF IsInjective
  <2>2. \A a \in 1..Len(s) : s[a] \in ToSet(s)
    BY ToSetView
  <2> QED BY <2>1, <2>2
<1>7. IsInjective(t)
  <2> SUFFICES ASSUME NEW a \in 1..(Len(s) + 1), NEW b \in 1..(Len(s) + 1), t[a] = t[b], a < b PROVE FALSE
    <3>1. ASSUME NEW a \in 1..(Len(s) + 1), NEW b \in 1..(Len(s) + 1), t[a] = t[b] PROVE a = b
      BY <1>2, <3>1
    <3> QED BY <1>5, <3>1 DEF IsInjective
  <2>2. CASE b < i
    <3>1. a \in 1..Len(s) /\ b \in 1..Len(s) /\ a < i
      BY <1>2, <2>2
    <3> QED BY <1>4, <1>6, <2>2, <3>1
  <2>3. CASE b = i
    <3>1. a \in 1..Len(s) /\ a < i
      BY <1>2, <2>3
    <3> QED BY <1>4, <1>6, <2>3, <3>1
  <2>4. CASE b > i
    <3>1. b - 1 \in 1..Len(s) /\ t[b] = s[b - 1]
      BY <1>2, <1>4, <2>4
    <3>2. CASE a < i
      <4>1. a \in 1..Len(s) /\ a # b - 1
        BY <1>2, <2>4, <3>2
      <4> QED BY <1>4, <1>6, <3>1, <3>2, <4>1
    <3>3. CASE a = i
      BY <1>4, <1>6, <3>1, <3>3
    <3>4. CASE a > i
      <4>1. a - 1 \in 1..Len(s) /\ t[a] = s[a - 1] /\ a - 1 # b - 1
        BY <1>2, <1>4, <3>4
      <4> QED BY <1>6, <3>1, <4>1
    <3> QED BY <3>2, <3>3, <3>4
  <2> QED BY <2>2, <2>3, <2>4
<1>8. ToSet(t) \subseteq ToSet(s) \cup {m}
  <2> SUFFICES ASSUME NEW j \in 1..(Len(s) + 1) PROVE t[j] \in ToSet(s) \cup {m}
    BY <1>5 DEF ToSet
  <2>2. CASE j < i
    <3>1. j \in 1..Len(s)
      BY <1>2, <2>2
    <3> QED BY <1>4, <2>2, <3>1, ToSetView
  <2>3. CASE j = i
    BY <1>4, <2>3
  <2>4. CASE j > i
    <3>1. j - 1 \in 1..Len(s)
      BY <1>2, <2>4
    <3> QED BY <1>4, <2>4, <3>1, ToSetView
  <2> QED BY <2>2, <2>3, <2>4
<1>9. m \in ToSet(t)
  BY <1>4, ToSetView
<1>10. ToSet(s) \subseteq ToSet(t)
  <2> SUFFICES ASSUME NEW j \in 1..Len(s) PROVE s[j] \in ToSet(t)
    BY <1>5 DEF ToSet
  <2>2. CASE j < i
    <3>1. j \in 1..(Len(s) + 1) /\ t[j] = s[j]
      BY <1>2, <1>4, <2>2
    <3> QED BY <1>4, <3>1, ToSetView
  <2>4. CASE ~(j < i)
    <3>1. j + 1 \in 1..(Len(s) + 1) /\ ~(j + 1 < i) /\ j + 1 # i /\ (j + 1) - 1 = j
      BY <1>2, <2>4
    <3>2. t[j + 1] = s[j]
      BY <1>4, <3>1
    <3> QED BY <1>4, <3>1, <3>2, ToSetView
  <2> QED BY <2>2, <2>4
<1> QED BY <1>3, <1>4, <1>7, <1>8, <1>9, <1>10

LEMMA ConcatOne ==
  ASSUME NEW T, NEW s \in Seq(T), NEW u \in Seq(T), IsInjective(s), IsInjective(u),
         ToSet(s) \cap ToSet(u) = {}
  PROVE  s \o u \in Seq(T) /\ IsInjective(s \o u) /\ ToSet(s \o u) = ToSet(s) \cup ToSet(u)
<1>1. PICK t : t = s \o u
  OBVIOUS
<1>2. /\ t \in Seq(T) /\ Len(t) = Len(s) + Len(u) /\ Len(s) \in Nat /\ Len(u) \in Nat
      /\ \A j \in 1..(Len(s) + Len(u)) : t[j] = IF j <= Len(s) THEN s[j] ELSE u[j - Len(s)]
  BY <1>1
<1>3. DOMAIN s = 1..Len(s) /\ DOMAIN u = 1..Len(u) /\ DOMAIN t = 1..(Len(s) + Len(u))
  BY <1>2, ToSetView
<1>4. \A j \in 1..(Len(s) + Len(u)) : ~(j <= Len(s)) => j - Len(s) \in 1..Len(u)
  BY <1>2
<1>5. IsInjective(t)
  <2> SUFFICES ASSUME NEW a \in 1..(Len(s) + Len(u)), NEW b \in 1..(Len(s) + Len(u)), t[a] = t[b]
               PROVE  a = b
    BY <1>3 DEF IsInjective
  <2>1. CASE a <= Len(s) /\ b <= Len(s)
    <3>1. a \in 1..Len(s) /\ b \in 1..Len(s) /\ s[a] = s[b]
      BY <1>2, <2>1
    <3> QED BY <1>3, <3>1 DEF IsInjective
  <2>2. CASE a <= Len(s) /\ ~(b <= Len(s))
    <3>1. a \in 1..Len(s) /\ t[a] = s[a]
      BY <1>2, <2>2
    <3>2. b - Len(s) \in 1..Len(u) /\ t[b] = u[b - Len(s)]
      BY <1>2, <1>4, <2>2
    <3>3. t[a] \in ToSet(s) /\ t[b] \in ToSet(u)
      BY <3>1, <3>2, ToSetView
    <3> QED BY <3>3
  <2>3. CASE ~(a <= Len(s)) /\ b <= Len(s)
    <3>1. b \in 1..Len(s) /\ t[b] = s[b]
      BY <1>2, <2>3
    <3>2. a - Len(s) \in 1..Len(u) /\ t[a] = u[a - Len(s)]
      BY <1>2, <1>4, <2>3
    <3>3. t[b] \in ToSet(s) /\ t[a] \in ToSet(u)
      BY <3>1, <3>2, ToSetView
    <3> QED BY <3>3
  <2>4. CASE ~(a <= Len(s)) /\ ~(b <= Len(s))
    <3>1. a - Len(s) \in 1..Len(u) /\ b - Len(s) \in 1..Len(u) /\ u[a - Len(s)] = u[b - Len(s)]
      BY <1>2, <1>4, <2>4
    <3>2. a - Len(s) = b - Len(s)
      BY <1>3, <3>1 DEF IsInjective
    <3> QED BY <1>2, <3>2
  <2> QED BY <2>1, <2>2, <2>3, <2>4
<1>6. ToSet(t) \subseteq ToSet(s) \cup ToSet(u)
  <2> SUFFICES ASSUME NEW j \in 1..(Len(s) + Len(u)) PROVE t[j] \in ToSet(s) \cup ToSet(u)
    BY <1>3 DEF ToSet
  <2>1. CASE j <= Len(s)
    <3>1. j \in 1..Len(s)
      BY <1>2, <2>1
    <3> QED BY <1>2, <2>1, <3>1, ToSetView
  <2>2. CASE ~(j <= Len(s))
    BY <1>2, <1>4, <2>2, ToSetView
  <2> QED BY <2>1, <2>2
<1>7. ToSet(s) \subseteq ToSet(t)
  <2> SUFFICES ASSUME NEW j \in 1..Len(s) PROVE s[j] \in ToSet(t)
    BY <1>3 DEF ToSet
  <2>1. j \in 1..(Len(s) + Len(u)) /\ t[j] = s[j]
    BY <1>2
  <2> QED BY <1>2, <2>1, ToSetView
<1>8. ToSet(u) \subseteq ToSet(t)
  <2> SUFFICES ASSUME NEW j \in 1..Len(u) PROVE u[j] \in ToSet(t)
    BY <1>3 DEF ToSet
  <2>1. j + Len(s) \in 1..(Len(s) + Len(u)) /\ ~(j + Len(s) <= Len(s)) /\ (j + Len(s)) - Len(s) = j
    BY <1>2
  <2>2. t[j + Len(s)] = u[j]
    BY <1>2, <2>1
  <2> QED BY <1>2, <2>1, <2>2, ToSetView
<1> QED BY <1>1, <1>2, <1>5, <1>6, <1>7, <1>8

LEMMA PartView ==
  ASSUME NEW T, NEW s \in Seq(T), IsInjective(s), NEW i \in 1..Len(s), NEW l \in Nat,
         i + l - 1 <= Len(s), NEW t, t = SubSeq(s, i, i + l - 1)
  PROVE  /\ t \in Seq(T) /\ IsInjective(t) /\ Len(t) = l
         /\ \A j \in 1..l : t[j] = s[i + j - 1] /\ i + j - 1 \in 1..Len(s)
         /\ ToSet(t) \subseteq ToSet(s)
<1>1. Len(s) \in Nat /\ DOMAIN s = 1..Len(s)
  BY ToSetView
<1>2. \A j \in 1..l : i + j - 1 \in 1..Len(s)
  BY <1>1
<1>3. t \in Seq(T) /\ Len(t) = l /\ \A j \in 1..l : t[j] = s[i + j - 1]
  <2>1. \A j \in i..(i + l - 1) : j \in 1..Len(s)
    BY <1>1
  <2>2. \A j \in 1..Len(s) : s[j] \in T
    BY <1>1
  <2>3. t \in Seq(T)
    BY <2>1, <2>2, <1>1, SubSeqProperties
  <2>4. Len(t) = l
    BY <2>1, <1>1
  <2> QED BY <2>3, <2>4, <1>1, <1>2
<1>4. DOMAIN t = 1..l
  BY <1>3, ToSetView
<1>5. IsInjective(t)
  <2> SUFFICES ASSUME NEW a \in 1..l, NEW b \in 1..l, t[a] = t[b] PROVE a = b
    BY <1>4 DEF IsInjective
  <2>1. i + a - 1 = i + b - 1
    BY <1>1, <1>2, <1>3 DEF IsInjective
  <2> QED BY <2>1
<1>6. ToSet(t) \subseteq ToSet(s)
  <2> SUFFICES ASSUME NEW j \in 1..l PROVE t[j] \in ToSet(s)
    BY <1>4 DEF ToSet
  <2> QED BY <1>2, <1>3, ToSetView
<1> QED BY <1>2, <1>3, <1>5, <1>6

(* A set of places that holds, with a place, all between i and it is a run *)
(* that begins at i.                                                       *)
LEMMA RunOfPlaces ==
  ASSUME NEW i \in Nat, NEW l \in Nat, NEW run \in SUBSET (i..l),
         \A x \in run : \A y \in i..x : y \in run
  PROVE  /\ Cardinality(run) \in Nat
         /\ i <= l => i + Cardinality(run) - 1 <= l
         /\ \A y \in i..(i + Cardinality(run) - 1) : y \in run
<1>1. IsFiniteSet(i..l) /\ Cardinality(i..l) = IF i > l THEN 0 ELSE l - i + 1
  BY FS_Interval
<1>2. IsFiniteSet(run) /\ Cardinality(run) \in Nat /\ Cardinality(run) <= Cardinality(i..l)
  BY <1>1, FS_Subset, FS_CardinalityType
<1>3. ASSUME NEW y \in i..(i + Cardinality(run) - 1), y \notin run PROVE FALSE
  <2>1. run \subseteq i..(y - 1)
    <3> SUFFICES ASSUME NEW x \in run PROVE x < y
      BY <1>2, <1>3
    <3>1. x \in i..l /\ y \in Int
      BY <1>2, <1>3
    <3>2. ~(y <= x)
      BY <1>2, <1>3, <3>1
    <3> QED BY <3>1, <3>2
  <2>2. IsFiniteSet(i..(y - 1)) /\ Cardinality(i..(y - 1)) = IF i > y - 1 THEN 0 ELSE y - 1 - i + 1
    <3>1. i \in Int /\ y - 1 \in Int
      BY <1>2
    <3> QED BY <3>1, FS_Interval
  <2>3. Cardinality(run) <= Cardinality(i..(y - 1))
    BY <2>1, <2>2, FS_Subset
  <2> QED BY <1>2, <2>2, <2>3
<1> QED BY <1>1, <1>2, <1>3

-----------------------------------------------------------------------------
(* Starting recorded motions                                               *)

Kept(q, o, n, k, S, out, c) == ObjectsInv(q, n, k, S, out, c) /\ SameControl(q, o, k)

(* The motion after those that start.                                      *)
After(g, st) ==
  LET rest == PlaceIn(g.recorded, g.next) + Len(st)
  IN IF rest > Len(g.recorded) THEN NULL ELSE g.recorded[rest]

LEMMA StartingView ==
  ASSUME NEW n \in Nat, NEW g \in FingerType(n), NEW o, RecordedOK(o.motion, g), g.next # NULL,
         NEW position, NEW st, st = Starting(o, g, position)
  PROVE  /\ st \in Seq(1..n) /\ IsInjective(st) /\ ToSet(st) \subseteq ToSet(g.recorded)
         /\ \A m \in ToSet(st) : o.motion[m].index = -1
         /\ After(g, st) = NULL \/ After(g, st) \in ToSet(g.recorded)
<1>1. PICK list : list = g.recorded
  OBVIOUS
<1>2. list \in Seq(1..n) /\ IsInjective(list) /\ g.next \in ToSet(list)
  BY <1>1 DEF FingerType, RecordedOK
<1>3. PICK i : i = PlaceIn(list, g.next)
  OBVIOUS
<1>4. i \in 1..Len(list) /\ Len(list) \in Nat
  BY <1>2, <1>3, PlaceView, ToSetView
<1>5. PICK run : run = {j \in i..Len(list) : \A x \in i..j :
                          LET p == o.motion[list[x]] IN p.index = -1 /\ p.start = position}
  OBVIOUS
<1>6. st = SubSeq(list, i, i + Cardinality(run) - 1)
  BY <1>1, <1>3, <1>5 DEF Starting
<1>7. run \in SUBSET (i..Len(list)) /\ \A x \in run : \A y \in i..x : y \in run
  BY <1>4, <1>5
<1>8. PICK l : l = Cardinality(run)
  OBVIOUS
<1>9. l \in Nat /\ i + l - 1 <= Len(list) /\ \A y \in i..(i + l - 1) : y \in run
  <2>1. i \in Nat /\ Len(list) \in Nat /\ i <= Len(list)
    BY <1>4
  <2>2. /\ Cardinality(run) \in Nat
        /\ i <= Len(list) => i + Cardinality(run) - 1 <= Len(list)
        /\ \A y \in i..(i + Cardinality(run) - 1) : y \in run
    BY <1>7, <2>1, RunOfPlaces
  <2> QED BY <1>8, <2>1, <2>2
<1>10. /\ st \in Seq(1..n) /\ IsInjective(st) /\ Len(st) = l
       /\ \A j \in 1..l : st[j] = list[i + j - 1] /\ i + j - 1 \in 1..Len(list)
       /\ ToSet(st) \subseteq ToSet(list)
  <2>1. st = SubSeq(list, i, i + l - 1)
    BY <1>6, <1>8
  <2> QED BY <1>2, <1>4, <1>9, <2>1, PartView
<1>11. \A m \in ToSet(st) : o.motion[m].index = -1
  <2> SUFFICES ASSUME NEW j \in 1..l PROVE o.motion[st[j]].index = -1
    <3>1. \A m \in ToSet(st) : \E j \in 1..Len(st) : st[j] = m
      BY <1>10, ToSetView
    <3> QED BY <1>10, <3>1
  <2>1. i + j - 1 \in i..(i + l - 1)
    BY <1>4, <1>9
  <2>2. i + j - 1 \in run
    BY <1>9, <2>1
  <2>3. o.motion[list[i + j - 1]].index = -1
    BY <1>4, <1>5, <2>2
  <2> QED BY <1>10, <2>3
<1>12. After(g, st) = NULL \/ After(g, st) \in ToSet(list)
  <2>1. After(g, st) = IF i + l > Len(list) THEN NULL ELSE list[i + l]
    BY <1>1, <1>3, <1>10 DEF After
  <2>2. ~(i + l > Len(list)) => i + l \in 1..Len(list)
    BY <1>4, <1>9
  <2> QED BY <1>2, <2>1, <2>2, ToSetView
<1> QED BY <1>1, <1>10, <1>11, <1>12

WithStarted(mo, X) == [m \in DOMAIN mo |-> IF m \in X THEN Started(mo[m]) ELSE mo[m]]

LEMMA StartedView ==
  ASSUME NEW p \in MotionType
  PROVE  LET q == Started(p)
         IN /\ q \in MotionType /\ q.start = p.start /\ q.to_be_deleted = p.to_be_deleted
            /\ q.index = 0 /\ q.at = p.at /\ q.terminated = p.terminated
<1>1. 0 \in Int /\ -1 \in Int /\ NULL \in Columns \cup {NULL}
  OBVIOUS
<1> QED BY <1>1 DEF MotionType, Started

LEMMA WithStartedView ==
  ASSUME NEW n \in Nat, NEW mo \in [1..n -> MotionType], NEW X, NEW mq, mq = WithStarted(mo, X)
  PROVE  /\ mq \in [1..n -> MotionType]
         /\ \A m \in (1..n) \ X : mq[m] = mo[m]
         /\ \A m \in 1..n : /\ mq[m].start = mo[m].start /\ mq[m].to_be_deleted = mo[m].to_be_deleted
                            /\ mq[m].terminated = mo[m].terminated
         /\ \A m \in X \cap (1..n) : mq[m].index = 0 /\ mq[m].at = mo[m].at
<1>1. DOMAIN mo = 1..n
  OBVIOUS
<1>2. \A m \in 1..n : mq[m] = IF m \in X THEN Started(mo[m]) ELSE mo[m]
  BY <1>1 DEF WithStarted
<1>3. mq = [m \in 1..n |-> IF m \in X THEN Started(mo[m]) ELSE mo[m]]
  BY <1>1 DEF WithStarted
<1>4. \A m \in 1..n : Started(mo[m]) \in MotionType
  BY StartedView
<1> QED BY <1>2, <1>3, <1>4, StartedView

(* What of a finger plays, and what it plays next, after motions started.  *)
FingerStarts(g, st) == [g EXCEPT !.playing = @ \o st, !.next = After(g, st)]

LEMMA FingerStartsView ==
  ASSUME NEW n \in Nat, NEW g \in FingerType(n), NEW st \in Seq(1..n),
         After(g, st) = NULL \/ After(g, st) \in ToSet(g.recorded),
         NEW h, h = FingerStarts(g, st)
  PROVE  /\ h \in FingerType(n) /\ h.recorded = g.recorded /\ h.current = g.current /\ h.mixed = g.mixed
         /\ h.playing = g.playing \o st /\ h.next = After(g, st)
<1>1. g.playing \o st \in Seq(1..n)
  BY DEF FingerType
<1>2. After(g, st) \in (1..n) \cup {NULL}
  BY FingerMotions
<1> QED BY <1>1, <1>2 DEF FingerStarts, FingerType

StartsOK(h, g, mq, fr, out) ==
  /\ FingerOK(mq, h, fr, out, TRUE) /\ Has(h) = Has(g)
  /\ ToSet(g.playing) \subseteq ToSet(h.playing)
  /\ \A m \in ToSet(h.playing) : m \in ToSet(g.playing) \/ mq[m].terminated

(* Motions that were recorded and do not play start to play.               *)
LEMMA FingerStartsOK ==
  ASSUME NEW n \in Nat, NEW g \in FingerType(n), NEW mo \in [1..n -> MotionType], NEW fr, NEW out,
         FingerOK(mo, g, fr, out, TRUE), NEW st \in Seq(1..n), IsInjective(st),
         ToSet(st) \subseteq ToSet(g.recorded), \A m \in ToSet(st) : mo[m].index = -1,
         After(g, st) = NULL \/ After(g, st) \in ToSet(g.recorded),
         NEW h, h = FingerStarts(g, st), NEW mq, mq = WithStarted(mo, ToSet(st))
  PROVE  StartsOK(h, g, mq, fr, out)
<1>1. /\ h \in FingerType(n) /\ h.recorded = g.recorded /\ h.current = g.current /\ h.mixed = g.mixed
      /\ h.playing = g.playing \o st /\ h.next = After(g, st)
  BY FingerStartsView
<1>2. /\ RecordedOK(mo, g) /\ PlayingOK(mo, g, out) /\ InOrderOf(mo, g) /\ Has(g) \cap fr = {}
  BY DEF FingerOK
<1>3. /\ \A m \in (1..n) \ ToSet(st) : mq[m] = mo[m]
      /\ \A m \in 1..n : /\ mq[m].start = mo[m].start /\ mq[m].to_be_deleted = mo[m].to_be_deleted
                         /\ mq[m].terminated = mo[m].terminated
      /\ \A m \in ToSet(st) \cap (1..n) : mq[m].index = 0
  BY WithStartedView
<1>4. ToSet(g.playing) \cap ToSet(st) = {}
  BY <1>2 DEF RecordedOK
<1>5. IsInjective(h.playing) /\ ToSet(h.playing) = ToSet(g.playing) \cup ToSet(st)
  <2>1. g.playing \in Seq(1..n) /\ IsInjective(g.playing)
    BY <1>2 DEF FingerType, PlayingOK
  <2>2. PICK u : u = g.playing
    OBVIOUS
  <2>3. u \in Seq(1..n) /\ IsInjective(u) /\ ToSet(u) \cap ToSet(st) = {}
    BY <1>4, <2>1, <2>2
  <2>4. IsInjective(u \o st) /\ ToSet(u \o st) = ToSet(u) \cup ToSet(st)
    BY <2>3, ConcatOne
  <2> QED BY <1>1, <2>2, <2>4
<1>6. Has(h) = Has(g)
  BY <1>1, <1>5 DEF Has
<1>7. /\ ToSet(g.recorded) \subseteq 1..n /\ ToSet(g.playing) \subseteq 1..n
      /\ g.current \in (1..n) \cup {NULL} /\ Len(g.recorded) \in Nat
      /\ \A j \in 1..Len(g.recorded) : g.recorded[j] \in 1..n
  BY FingerMotions DEF FingerType
<1>8. RecordedOK(mq, h)
  <2>1. \A m \in ToSet(g.recorded) : m \in ToSet(h.playing) <=> mq[m].index # -1
    <3> SUFFICES ASSUME NEW m \in ToSet(g.recorded)
                 PROVE  m \in ToSet(h.playing) <=> mq[m].index # -1
      OBVIOUS
    <3>1. CASE m \in ToSet(st)
      BY <1>3, <1>5, <1>7, <3>1
    <3>2. CASE m \notin ToSet(st)
      BY <1>2, <1>3, <1>5, <1>7, <3>2 DEF RecordedOK
    <3> QED BY <3>1, <3>2
  <2> QED BY <1>1, <1>2, <1>3, <1>7, <2>1 DEF RecordedOK
<1>9. PlayingOK(mq, h, out)
  <2> SUFFICES ASSUME NEW m \in ToSet(h.playing)
               PROVE  /\ mq[m].index # -1
                      /\ m \in ToSet(h.recorded) \/ m = h.current \/ m \in out \/ mq[m].to_be_deleted
    BY <1>5 DEF PlayingOK
  <2>1. CASE m \in ToSet(st)
    BY <1>1, <1>3, <1>7, <2>1
  <2>2. CASE m \notin ToSet(st)
    BY <1>1, <1>2, <1>3, <1>5, <1>7, <2>2 DEF PlayingOK
  <2> QED BY <2>1, <2>2
<1>10. InOrderOf(mq, h)
  <2>1. \A m \in ToSet(g.recorded) : mq[m].start = mo[m].start
    BY <1>3, <1>7
  <2> QED BY <1>1, <1>2, <2>1, InOrderAlike
<1>11. \A m \in ToSet(st) : mq[m].terminated
  BY <1>2, <1>3, <1>7 DEF RecordedOK
<1> QED BY <1>2, <1>5, <1>6, <1>8, <1>9, <1>10, <1>11 DEF FingerOK, StartsOK

(* A note still sounds rightly if its motion plays on with it.             *)
LEMMA SoundKept ==
  ASSUME NEW S, NEW S2, NEW c, NEW c2, c.cut \subseteq c2.cut, NEW o, NEW q, SoundOK(o, S, c),
         q.sound \subseteq o.sound,
         \A e \in q.sound : e[1] \notin c2.cut /\ Plays(o, S, e[1]) /\ ~Ended(o.motion[e[1]]) =>
           /\ q.motion[e[1]].last_x = o.motion[e[1]].last_x
           /\ ~Ended(q.motion[e[1]]) /\ Plays(q, S2, e[1])
  PROVE  SoundOK(q, S2, c2)
<1> SUFFICES ASSUME NEW e \in q.sound, e[1] \notin c2.cut
             PROVE  /\ e[2] = q.motion[e[1]].last_x /\ ~Ended(q.motion[e[1]]) /\ Plays(q, S2, e[1])
  BY DEF SoundOK, Plays
<1>1. /\ e[2] = o.motion[e[1]].last_x /\ ~Ended(o.motion[e[1]]) /\ Plays(o, S, e[1])
  BY DEF SoundOK, Plays
<1> QED BY <1>1

LEMMA PlaysType ==
  ASSUME NEW n \in Nat, NEW k \in Nat, NEW S \in SUBSET (1..k), NEW o \in ObjectsType(n, k),
         NEW m, Plays(o, S, m)
  PROVE  m \in 1..n
<1>1. PICK s \in S, f \in Fingers : m \in ToSet(o.session[s].finger[f].playing)
  BY DEF Plays
<1>2. o.session[s].finger[f] \in FingerType(n)
  BY DEF ObjectsType, SessionType
<1> QED BY <1>1, <1>2, FingerMotions

(* The value of a step that changes finger f of session s.                 *)
Updated(o, s, f, h, mq, fq) ==
  [session |-> WithFinger(o.session, s, f, h), motion |-> mq, freed |-> fq, sound |-> o.sound]

UpdateOf(q, o, n, k, S, s, f, h, mq, fq) ==
  /\ q \in ObjectsType(n, k) /\ OthersSame(q, o, S, s, f) /\ SameControl(q, o, k)
  /\ q.session[s].finger[f] = h /\ q.motion = mq /\ q.freed = fq /\ q.sound = o.sound

LEMMA UpdatedView ==
  ASSUME NEW n \in Nat, NEW k \in Nat, NEW S \in SUBSET (1..k), NEW s \in S, NEW f \in Fingers,
         NEW o \in ObjectsType(n, k), NEW h \in FingerType(n), NEW mq \in [1..n -> MotionType],
         NEW fq \in SUBSET (1..n)
  PROVE  UpdateOf(Updated(o, s, f, h, mq, fq), o, n, k, S, s, f, h, mq, fq)
<1>1. PICK q : q = Updated(o, s, f, h, mq, fq)
  OBVIOUS
<1>2. PICK tt : tt = WithFinger(o.session, s, f, h)
  OBVIOUS
<1>3. q = [session |-> tt, motion |-> mq, freed |-> fq, sound |-> o.sound]
  BY <1>1, <1>2 DEF Updated
<1>4. s \in 1..k /\ o.session \in [1..k -> SessionType(n)]
  BY DEF ObjectsType
<1>5. /\ tt \in [1..k -> SessionType(n)]
      /\ tt[s].finger[f] = h
      /\ \A r \in 1..k, e \in Fingers : r # s \/ e # f => tt[r].finger[e] = o.session[r].finger[e]
      /\ \A r \in 1..k : /\ tt[r].in_play = o.session[r].in_play
                         /\ tt[r].terminated = o.session[r].terminated
                         /\ tt[r].to_be_deleted = o.session[r].to_be_deleted
  <2>1. DifferAt(WithFinger(o.session, s, f, h), o.session, n, k, s, f, h)
    BY <1>4, WithFingerView
  <2> QED BY <1>2, <2>1 DEF DifferAt
<1>6. q.session = tt /\ q.motion = mq /\ q.freed = fq /\ q.sound = o.sound
  BY <1>3
<1>7. q \in ObjectsType(n, k)
  BY <1>3, <1>5 DEF ObjectsType
<1>8. OthersSame(q, o, S, s, f)
  BY <1>5, <1>6 DEF OthersSame
<1>9. SameControl(q, o, k)
  BY <1>5, <1>6 DEF SameControl
<1> QED BY <1>1, <1>5, <1>6, <1>7, <1>8, <1>9 DEF UpdateOf

(* The first part of process_finger_motions keeps the invariant.           *)
LEMMA StartMotionsStep ==
  ASSUME NEW n \in Nat, NEW k \in Nat, NEW S \in SUBSET (1..k), NEW out, NEW c,
         NEW o, ObjectsInv(o, n, k, S, out, c), NEW s \in S, NEW f \in Fingers,
         o.session[s].in_play, NEW quiet \in BOOLEAN, NEW q, q = StartMotions(o, s, f, quiet)
  PROVE  Kept(q, o, n, k, S, out, c)
<1>1. o \in ObjectsType(n, k) /\ s \in 1..k /\ IndexOK(o) /\ SoundOK(o, S, c)
  BY DEF ObjectsInv
<1>2. /\ o.session \in [1..k -> SessionType(n)] /\ o.motion \in [1..n -> MotionType]
      /\ o.session[s].in_play = TRUE /\ o.freed \in SUBSET (1..n)
      /\ o = [session |-> o.session, motion |-> o.motion, freed |-> o.freed, sound |-> o.sound]
  BY <1>1 DEF ObjectsType, SessionType
<1>3. PICK g : g = o.session[s].finger[f]
  OBVIOUS
<1>4. g \in FingerType(n)
  BY <1>1, <1>2, <1>3 DEF SessionType
<1>5. FingerOK(o.motion, g, o.freed, out, TRUE)
  BY <1>2, <1>3 DEF ObjectsInv, FingersOK
<1>6. HeldBy(o.motion, g, s, f, c)
  BY <1>3 DEF ObjectsInv, HeldOK
<1>7. CASE quiet
  <2>1. PICK h : h = [g EXCEPT !.next = NULL]
    OBVIOUS
  <2>2. /\ h \in FingerType(n) /\ h.recorded = g.recorded /\ h.current = g.current
        /\ h.playing = g.playing /\ h.next = NULL /\ h.mixed = g.mixed
    BY <1>4, <2>1 DEF FingerType
  <2>3. q = Updated(o, s, f, h, o.motion, o.freed)
    BY <1>1, <1>2, <1>3, <1>7, <2>1 DEF StartMotions, WithFinger, Updated, ObjectsType, SessionType
  <2>4. /\ q \in ObjectsType(n, k) /\ OthersSame(q, o, S, s, f) /\ SameControl(q, o, k)
        /\ q.session[s].finger[f] = h /\ q.motion = o.motion /\ q.freed = o.freed /\ q.sound = o.sound
    <3>1. UpdateOf(Updated(o, s, f, h, o.motion, o.freed), o, n, k, S, s, f, h, o.motion, o.freed)
      BY <1>1, <1>2, <2>2, UpdatedView
    <3> QED BY <2>3, <3>1 DEF UpdateOf
  <2>5. IndexOK(q)
    BY <1>1, <2>4 DEF IndexOK
  <2>6. \A m \in 1..n : Plays(o, S, m) => Plays(q, S, m)
    BY <1>3, <2>2, <2>4 DEF Plays, OthersSame
  <2>7. SoundOK(q, S, c)
    BY <1>1, <2>4, <2>6, SoundKept, PlaysType
  <2>8. Has(h) = Has(g)
    BY <2>2 DEF Has
  <2>9. FingerOK(q.motion, h, q.freed, out, q.session[s].in_play)
    <3>1. q.session[s].in_play = TRUE
      BY <1>1, <1>2, <2>4 DEF SameControl
    <3> QED BY <1>5, <2>2, <2>4, <2>8, <3>1 DEF FingerOK, RecordedOK, PlayingOK, InOrderOf
  <2>10. AlikeFor(o.motion, q.motion, (1..n) \ Has(g))
    BY <2>4 DEF AlikeFor
  <2>11. HeldBy(q.motion, h, s, f, c)
    BY <1>6, <2>2, <2>4, HeldAlike
  <2>12. ObjectsInv(q, n, k, S, out, c)
    BY <1>3, <2>4, <2>5, <2>7, <2>8, <2>9, <2>10, <2>11, FingerStep
  <2> QED BY <2>4, <2>12 DEF Kept
<1>8. CASE ~quiet /\ (g.next = NULL \/ o.session[s].to_be_deleted)
  <2>1. q = o
    BY <1>3, <1>8 DEF StartMotions
  <2>2. SameControl(q, o, k)
    BY <2>1 DEF SameControl
  <2> QED BY <2>1, <2>2 DEF Kept
<1>9. CASE ~quiet /\ g.next # NULL /\ ~o.session[s].to_be_deleted
  <2>1. PICK st : st = Starting(o, g, o.session[s].position)
    OBVIOUS
  <2>2. PICK h : h = FingerStarts(g, st)
    OBVIOUS
  <2>3. PICK mq : mq = WithStarted(o.motion, ToSet(st))
    OBVIOUS
  <2>4. RecordedOK(o.motion, g) /\ PlayingOK(o.motion, g, out)
    BY <1>5 DEF FingerOK
  <2>5. /\ st \in Seq(1..n) /\ IsInjective(st) /\ ToSet(st) \subseteq ToSet(g.recorded)
        /\ \A m \in ToSet(st) : o.motion[m].index = -1
        /\ After(g, st) = NULL \/ After(g, st) \in ToSet(g.recorded)
    BY <1>4, <1>9, <2>1, <2>4, StartingView
  <2>6. h \in FingerType(n) /\ h.current = g.current
    BY <1>4, <2>2, <2>5, FingerStartsView
  <2>7. /\ mq \in [1..n -> MotionType]
        /\ \A m \in (1..n) \ ToSet(st) : mq[m] = o.motion[m]
        /\ \A m \in ToSet(st) \cap (1..n) : mq[m].index = 0 /\ mq[m].at = o.motion[m].at
        /\ \A m \in 1..n : mq[m].terminated = o.motion[m].terminated
    BY <1>2, <2>3, WithStartedView
  <2>8. /\ FingerOK(mq, h, o.freed, out, TRUE) /\ Has(h) = Has(g)
        /\ ToSet(g.playing) \subseteq ToSet(h.playing)
        /\ \A m \in ToSet(h.playing) : m \in ToSet(g.playing) \/ mq[m].terminated
    <3>1. StartsOK(h, g, mq, o.freed, out)
      BY <1>2, <1>4, <1>5, <2>2, <2>3, <2>5, FingerStartsOK
    <3> QED BY <3>1 DEF StartsOK
  <2>9. q = Updated(o, s, f, h, mq, o.freed)
    <3>1. q = [o EXCEPT !.motion = mq, !.session[s].finger[f] = h]
      BY <1>3, <1>9, <2>1, <2>2, <2>3 DEF StartMotions, WithStarted, FingerStarts, After
    <3> QED BY <1>1, <1>2, <3>1 DEF WithFinger, Updated, ObjectsType, SessionType
  <2>10. /\ q \in ObjectsType(n, k) /\ OthersSame(q, o, S, s, f) /\ SameControl(q, o, k)
         /\ q.session[s].finger[f] = h /\ q.motion = mq /\ q.freed = o.freed /\ q.sound = o.sound
    <3>1. UpdateOf(Updated(o, s, f, h, mq, o.freed), o, n, k, S, s, f, h, mq, o.freed)
      BY <1>1, <1>2, <2>6, <2>7, UpdatedView
    <3> QED BY <2>9, <3>1 DEF UpdateOf
  <2>11. IndexOK(q)
    <3>1. DOMAIN mq = 1..n /\ DOMAIN o.motion = 1..n
      BY <1>2, <2>7
    <3> SUFFICES ASSUME NEW m \in 1..n PROVE mq[m].index \in -1..Len(mq[m].at)
      BY <2>10, <3>1 DEF IndexOK
    <3>2. CASE m \in ToSet(st)
      <4>1. mq[m].at \in Seq(PositionType)
        BY <2>7 DEF MotionType
      <4>2. Len(mq[m].at) \in Nat
        BY <4>1
      <4> QED BY <2>7, <3>2, <4>2
    <3>3. CASE m \notin ToSet(st)
      BY <1>1, <2>7, <3>1, <3>3 DEF IndexOK
    <3> QED BY <3>2, <3>3
  <2>12. \A m \in 1..n : Plays(o, S, m) => m \notin ToSet(st) /\ Plays(q, S, m)
    <3> SUFFICES ASSUME NEW m \in 1..n, Plays(o, S, m) PROVE m \notin ToSet(st) /\ Plays(q, S, m)
      OBVIOUS
    <3>1. m \notin ToSet(st)
      <4>1. o.motion[m].index # -1
        BY DEF Plays, ObjectsInv, FingersOK, FingerOK, PlayingOK
      <4> QED BY <2>5, <4>1
    <3>2. Plays(q, S, m)
      BY <1>3, <2>8, <2>10 DEF Plays, OthersSame
    <3> QED BY <3>1, <3>2
  <2>13. SoundOK(q, S, c)
    <3>1. \A e \in q.sound : Plays(o, S, e[1]) => q.motion[e[1]] = o.motion[e[1]] /\ Plays(q, S, e[1])
      BY <1>1, <2>7, <2>10, <2>12, PlaysType
    <3> QED BY <1>1, <2>10, <3>1, SoundKept
  <2>14. FingerOK(q.motion, h, q.freed, out, q.session[s].in_play)
    <3>1. q.session[s].in_play = TRUE
      BY <1>1, <1>2, <2>10 DEF SameControl
    <3> QED BY <2>8, <2>10, <3>1
  <2>15. AlikeFor(o.motion, q.motion, (1..n) \ Has(g))
    <3>1. ToSet(st) \subseteq Has(g)
      BY <2>5 DEF Has
    <3> QED BY <2>7, <2>10, <3>1 DEF AlikeFor
  <2>16. HeldBy(q.motion, h, s, f, c)
    <3>1. \A m \in ToSet(g.playing) : mq[m].terminated = o.motion[m].terminated
      BY <1>4, <2>7, FingerMotions
    <3> QED BY <1>6, <2>6, <2>8, <2>10, <3>1 DEF HeldBy
  <2>17. ObjectsInv(q, n, k, S, out, c)
    BY <1>3, <2>8, <2>10, <2>11, <2>13, <2>14, <2>15, <2>16, FingerStep
  <2> QED BY <2>10, <2>17 DEF Kept
<1> QED BY <1>7, <1>8, <1>9

-----------------------------------------------------------------------------
(* Quantizing keeps the order of what starts at lines                      *)

LEMMA LineAndRest ==
  ASSUME NEW d \in Int, d > 0, NEW t \in Int, NEW l \in Int, l = t \div d, NEW r \in Int, r = t % d
  PROVE  t = d * l + r
OBVIOUS

LEMMA LinesApart ==
  ASSUME NEW d \in Nat \ {0}, NEW b \in Int, NEW l \in Int, NEW r \in 0..(d - 1)
  PROVE  /\ d * b <= d * l + r => b <= l
         /\ d * b > d * l + r => l + 1 <= b
OBVIOUS

LEMMA LinesOrder ==
  ASSUME NEW d \in Nat \ {0}, NEW b \in Int, NEW l \in Int, b <= l
  PROVE  d * b <= d * l
OBVIOUS

LEMMA QuantizeView ==
  ASSUME NEW t \in Int
  PROVE  /\ QuantizeTick(t) \in Int /\ QuantizeTick(t) % TicksPerLine = 0
         /\ \A a \in Int : a % TicksPerLine = 0 =>
              (a <= t => a <= QuantizeTick(t)) /\ (a > t => QuantizeTick(t) <= a)
<1>1. PICK d : d = TicksPerLine
  OBVIOUS
<1>2. d \in Nat \ {0} /\ d \in Int /\ d > 0
  BY <1>1, PadAssumption
<1>3. PICK l : l = t \div d
  OBVIOUS
<1>4. PICK r : r = t % d
  OBVIOUS
<1>5. l \in Int /\ r \in 0..(d - 1) /\ r \in Int
  BY <1>2, <1>3, <1>4
<1>6. t = d * l + r
  BY <1>2, <1>3, <1>4, <1>5, LineAndRest
<1>7. PICK u : u = IF r > d \div 2 THEN l + 1 ELSE l
  OBVIOUS
<1>8. QuantizeTick(t) = d * u
  BY <1>1, <1>3, <1>4, <1>7 DEF QuantizeTick
<1>9. u \in Int /\ (u = l \/ u = l + 1)
  BY <1>5, <1>7
<1>10. d * u \in Int /\ (d * u) % d = 0
  BY <1>2, <1>9
<1>11. ASSUME NEW a \in Int, a % d = 0 PROVE (a <= t => a <= d * u) /\ (a > t => d * u <= a)
  <2>1. PICK b : b = a \div d
    OBVIOUS
  <2>2. b \in Int
    BY <1>2, <2>1
  <2>3. a = d * b
    <3>1. 0 \in Int /\ 0 = a % d
      BY <1>11
    <3>2. a = d * b + 0
      BY <1>2, <2>1, <2>2, <3>1, LineAndRest
    <3>3. d * b \in Int
      BY <1>2, <2>2
    <3> QED BY <3>2, <3>3
  <2>4. ASSUME a <= t PROVE a <= d * u
    <3>1. b <= l
      BY <1>2, <1>5, <1>6, <2>2, <2>3, <2>4, LinesApart
    <3>2. b <= u
      BY <1>5, <1>9, <2>2, <3>1
    <3> QED BY <1>2, <1>9, <2>2, <2>3, <3>2, LinesOrder
  <2>5. ASSUME a > t PROVE d * u <= a
    <3>1. l + 1 <= b
      BY <1>2, <1>5, <1>6, <2>2, <2>3, <2>5, LinesApart
    <3>2. u <= b
      BY <1>5, <1>9, <2>2, <3>1
    <3> QED BY <1>2, <1>9, <2>2, <2>3, <3>2, LinesOrder
  <2> QED BY <2>4, <2>5
<1> QED BY <1>1, <1>8, <1>10, <1>11

-----------------------------------------------------------------------------
(* Ending a motion                                                         *)

LEMMA StoppedView ==
  ASSUME NEW p \in MotionType
  PROVE  LET q == Stopped(p)
         IN /\ q \in MotionType /\ q.start = p.start /\ q.to_be_deleted = p.to_be_deleted
            /\ q.index = -1 /\ q.at = p.at /\ q.terminated = p.terminated
<1>1. -1 \in Int /\ NULL \in Columns \cup {NULL}
  OBVIOUS
<1> QED BY <1>1 DEF MotionType, Stopped

LEMMA QuantizedView ==
  ASSUME NEW p \in MotionType
  PROVE  LET q == Quantized(p)
         IN /\ q \in MotionType /\ q.to_be_deleted = p.to_be_deleted
            /\ q.index = p.index /\ q.at = p.at /\ q.terminated = p.terminated
            /\ q.start = IF do_quantize THEN QuantizeTick(p.start) ELSE p.start
<1>1. p.start \in Int
  BY DEF MotionType
<1>2. QuantizeTick(p.start) \in Int
  BY <1>1, QuantizeView
<1> QED BY <1>2 DEF MotionType, Quantized

(* record_motion puts a motion behind all that start with it or earlier,   *)
(* and before the first one that starts later.                             *)
LEMMA RecordView ==
  ASSUME NEW T, NEW list \in Seq(T), NEW o, NEW m
  PROVE  \E i \in 1..(Len(list) + 1) :
           /\ RecordMotion(o, list, m) = InsertAt(list, i, m)
           /\ \A j \in 1..(i - 1) : ~(o.motion[list[j]].start > o.motion[m].start)
           /\ i <= Len(list) => o.motion[list[i]].start > o.motion[m].start
<1>1. PICK I : I = {i \in 1..Len(list) : o.motion[list[i]].start > o.motion[m].start}
  OBVIOUS
<1>2. PICK k : k = IF I # {} THEN Min(I) ELSE 0
  OBVIOUS
<1>3. PICK i : i = IF k = 0 THEN Len(list) + 1 ELSE k
  OBVIOUS
<1>4. RecordMotion(o, list, m) = InsertAt(list, i, m)
  BY <1>1, <1>2, <1>3 DEF RecordMotion, SelectInSeq
<1>5. Len(list) \in Nat
  BY ToSetView
<1>6. I \subseteq 1..Len(list) /\ I \subseteq Nat
  BY <1>1, <1>5
<1>7. CASE I = {}
  <2>1. i = Len(list) + 1
    BY <1>2, <1>3, <1>7
  <2>2. \A j \in 1..(i - 1) : ~(o.motion[list[j]].start > o.motion[m].start)
    BY <1>1, <1>5, <1>7, <2>1
  <2>3. i \in 1..(Len(list) + 1) /\ ~(i <= Len(list))
    BY <1>5, <2>1
  <2> QED BY <1>4, <2>2, <2>3
<1>8. CASE I # {}
  <2>1. Min(I) \in I /\ \A y \in I : Min(I) =< y
    BY <1>6, <1>8, MinIsMember
  <2>2. i = Min(I) /\ i \in 1..Len(list)
    BY <1>2, <1>3, <1>6, <1>8, <2>1
  <2>3. i \in I /\ \A j \in 1..(i - 1) : j \in 1..Len(list) /\ j \notin I
    BY <1>5, <1>6, <2>1, <2>2
  <2>4. i \in 1..(Len(list) + 1)
    BY <1>5, <2>2
  <2> QED BY <1>1, <1>4, <2>3, <2>4
<1> QED BY <1>7, <1>8

(* The finger h after a motion m of finger g has ended and is not recorded *)
(* by that.                                                                *)
LeftBy(h, g, n, m) ==
  /\ h \in FingerType(n) /\ h.recorded = g.recorded /\ h.next = g.next /\ h.mixed = g.mixed
  /\ h.current = IF m = g.current THEN NULL ELSE g.current
  /\ IsInjective(h.playing) /\ ToSet(h.playing) = ToSet(g.playing) \ {m}

(* The motions mq are the motions mo but that m does not play.             *)
IdleIn(mq, mo, n, m) ==
  /\ \A i \in (1..n) \ {m} : mq[i] = mo[i]
  /\ mq[m].start = mo[m].start /\ mq[m].to_be_deleted = mo[m].to_be_deleted /\ mq[m].index = -1
  /\ mq[m].terminated = mo[m].terminated

FreedBy(fq, fr, mo, g, m) ==
  fq = IF m = g.current \/ mo[m].to_be_deleted THEN fr \cup {m} ELSE fr

LEMMA LeftOK ==
  ASSUME NEW n \in Nat, NEW g \in FingerType(n), NEW mo \in [1..n -> MotionType], NEW fr, NEW out,
         FingerOK(mo, g, fr, out, TRUE), NEW m \in ToSet(g.playing), NEW h, LeftBy(h, g, n, m),
         NEW mq, IdleIn(mq, mo, n, m), NEW fq, FreedBy(fq, fr, mo, g, m)
  PROVE  FingerOK(mq, h, fq, out, TRUE)
<1>1. /\ RecordedOK(mo, g) /\ PlayingOK(mo, g, out) /\ InOrderOf(mo, g) /\ Has(g) \cap fr = {}
  BY DEF FingerOK
<1>2. /\ h.recorded = g.recorded /\ h.next = g.next /\ h.mixed = g.mixed
      /\ h.current = IF m = g.current THEN NULL ELSE g.current
      /\ IsInjective(h.playing) /\ ToSet(h.playing) = ToSet(g.playing) \ {m}
  BY DEF LeftBy
<1>3. /\ ToSet(g.recorded) \subseteq 1..n /\ ToSet(g.playing) \subseteq 1..n /\ m \in 1..n
      /\ g.current \in (1..n) \cup {NULL}
  BY FingerMotions DEF FingerType
<1>4. /\ mq[m].index = -1 /\ \A i \in (1..n) \ {m} : mq[i] = mo[i]
      /\ \A i \in 1..n : /\ mq[i].start = mo[i].start /\ mq[i].to_be_deleted = mo[i].to_be_deleted
                         /\ mq[i].terminated = mo[i].terminated
  BY <1>3 DEF IdleIn
<1>5. \A i \in ToSet(g.recorded) : i \in ToSet(h.playing) <=> mq[i].index # -1
  BY <1>1, <1>2, <1>3, <1>4 DEF RecordedOK
<1>6. RecordedOK(mq, h)
  BY <1>1, <1>2, <1>3, <1>4, <1>5, PadAssumption DEF RecordedOK
<1>7. PlayingOK(mq, h, out)
  BY <1>1, <1>2, <1>3, <1>4 DEF PlayingOK
<1>8. InOrderOf(mq, h)
  <2>1. \A i \in ToSet(g.recorded) : mq[i].start = mo[i].start
    BY <1>3, <1>4
  <2> QED BY <1>1, <1>2, <2>1, InOrderAlike
<1>9. Has(h) \subseteq Has(g) /\ (m = g.current \/ mo[m].to_be_deleted => m \notin Has(h))
  BY <1>1, <1>2 DEF Has, RecordedOK
<1>10. Has(h) \cap fq = {}
  BY <1>1, <1>9 DEF FreedBy
<1> QED BY <1>6, <1>7, <1>8, <1>10 DEF FingerOK

(* If h is not mixed, g was not, and what is quantized comes among motions *)
(* that start with a line.                                                 *)
MixedBy(h, g, mo) ==
  ~h.mixed =>
    /\ ~g.mixed
    /\ do_quantize => \A e \in ToSet(g.recorded) : mo[e].start % TicksPerLine = 0

(* The finger h after the motion m of the user has ended and was recorded  *)
(* at place i.                                                             *)
RecordedBy(h, g, n, m, i) ==
  /\ h \in FingerType(n) /\ h.recorded = InsertAt(g.recorded, i, m) /\ h.next = g.next
  /\ h.current = NULL
  /\ IsInjective(h.playing) /\ ToSet(h.playing) = ToSet(g.playing) \ {m}

(* The place at which record_motion puts a motion.                         *)
PlaceFor(i, list, mo, m) ==
  /\ i \in 1..(Len(list) + 1)
  /\ \A j \in 1..(i - 1) : ~(mo[list[j]].start > mo[m].start)
  /\ i <= Len(list) => mo[list[i]].start > mo[m].start

InsertedAs(w, list, n, i, m) ==
  /\ w \in Seq(1..n) /\ Len(w) = Len(list) + 1
  /\ \A j \in 1..(Len(list) + 1) : w[j] = IF j < i THEN list[j] ELSE IF j = i THEN m ELSE list[j - 1]

LEMMA InsertsAt ==
  ASSUME NEW n \in Nat, NEW list \in Seq(1..n), NEW i \in 1..(Len(list) + 1), NEW m \in 1..n
  PROVE  InsertedAs(InsertAt(list, i, m), list, n, i, m)
<1>1. /\ InsertAt(list, i, m) \in Seq(1..n) /\ Len(InsertAt(list, i, m)) = Len(list) + 1
      /\ \A j \in 1..(Len(list) + 1) :
           InsertAt(list, i, m)[j] = IF j < i THEN list[j] ELSE IF j = i THEN m ELSE list[j - 1]
  BY InsertView, Z3
<1> QED BY <1>1 DEF InsertedAs

LEMMA RecordedInOrder ==
  ASSUME NEW n \in Nat, NEW g \in FingerType(n), NEW mo \in [1..n -> MotionType],
         InOrderOf(mo, g), IsInjective(g.recorded), NEW m \in 1..n, m \notin ToSet(g.recorded),
         do_quantize \in BOOLEAN, NEW i, PlaceFor(i, g.recorded, mo, m),
         NEW h, h.recorded = InsertAt(g.recorded, i, m), MixedBy(h, g, mo), ~h.mixed,
         NEW pe \in MotionType,
         pe.start = IF do_quantize THEN QuantizeTick(mo[m].start) ELSE mo[m].start,
         NEW mq, mq = [mo EXCEPT ![m] = pe]
  PROVE  InOrderOf(mq, h)
<1>1. PICK list : list = g.recorded
  OBVIOUS
<1>2. list \in Seq(1..n) /\ Len(list) \in Nat /\ i \in 1..(Len(list) + 1) /\ i \in Nat
  <2>1. list \in Seq(1..n)
    BY <1>1 DEF FingerType
  <2>2. Len(list) \in Nat
    BY <2>1
  <2> QED BY <1>1, <2>1, <2>2 DEF PlaceFor
<1>3. PICK st : st = [j \in 1..Len(list) |-> mo[list[j]].start]
  OBVIOUS
<1>4. PICK x : x = mo[m].start
  OBVIOUS
<1>5. PICK y : y = pe.start
  OBVIOUS
<1>6. /\ \A j \in 1..Len(list) : list[j] \in 1..n /\ list[j] # m
      /\ \A j \in 1..Len(list) : st[j] \in Int /\ st[j] = mq[list[j]].start
      /\ x \in Int /\ y \in Int /\ mq[m].start = y
  <2>1. \A j \in 1..Len(list) : list[j] \in 1..n /\ list[j] # m
    BY <1>1, <1>2, ToSetView
  <2>2. \A e \in 1..n : mo[e].start \in Int
    BY DEF MotionType
  <2>3. pe.start \in Int
    BY DEF MotionType
  <2> QED BY <1>3, <1>4, <1>5, <2>1, <2>2, <2>3
<1>7. \A j, l \in 1..Len(list) : j < l => st[j] <= st[l]
  BY <1>1, <1>3 DEF InOrderOf, MixedBy
<1>8. do_quantize => \A j \in 1..Len(list) : st[j] % TicksPerLine = 0
  <2>1. \A j \in 1..Len(list) : list[j] \in ToSet(list)
    BY <1>2, ToSetView
  <2> QED BY <1>1, <1>3, <2>1 DEF MixedBy
<1>9. \A j \in 1..Len(list) : (j < i => st[j] <= x) /\ (~(j < i) => st[j] > x)
  <2> SUFFICES ASSUME NEW j \in 1..Len(list) PROVE (j < i => st[j] <= x) /\ (~(j < i) => st[j] > x)
    OBVIOUS
  <2>1. ASSUME j < i PROVE st[j] <= x
    <3>1. j \in 1..(i - 1)
      BY <1>2, <2>1
    <3>2. ~(mo[list[j]].start > mo[m].start)
      BY <1>1, <3>1 DEF PlaceFor
    <3> QED BY <1>3, <1>4, <1>6, <3>2
  <2>2. ASSUME ~(j < i) PROVE st[j] > x
    <3>1. i <= j /\ i \in 1..Len(list)
      BY <1>2, <2>2
    <3>2. st[i] > x
      BY <1>1, <1>2, <1>3, <1>4, <3>1 DEF PlaceFor
    <3>3. st[i] <= st[j]
      BY <1>6, <1>7, <3>1
    <3> QED BY <1>6, <3>1, <3>2, <3>3
  <2> QED BY <2>1, <2>2
<1>10. \A j \in 1..Len(list) : (j < i => st[j] <= y) /\ (~(j < i) => y <= st[j])
  <2>1. CASE do_quantize
    <3>1. y = QuantizeTick(x)
      BY <1>4, <1>5, <2>1
    <3>2. \A j \in 1..Len(list) : (st[j] <= x => st[j] <= y) /\ (st[j] > x => y <= st[j])
      BY <1>6, <1>8, <2>1, <3>1, QuantizeView
    <3> QED BY <1>9, <3>2
  <2>2. CASE ~do_quantize
    BY <1>4, <1>5, <1>6, <1>9, <2>2
  <2> QED BY <2>1, <2>2
<1>11. /\ h.recorded \in Seq(1..n) /\ Len(h.recorded) = Len(list) + 1
       /\ \A j \in 1..(Len(list) + 1) :
            h.recorded[j] = IF j < i THEN list[j] ELSE IF j = i THEN m ELSE list[j - 1]
  <2>1. InsertedAs(InsertAt(list, i, m), list, n, i, m)
    BY <1>2, InsertsAt
  <2> QED BY <1>1, <2>1 DEF InsertedAs
<1>12. PICK v : v = [j \in 1..(Len(list) + 1) |-> mq[h.recorded[j]].start]
  OBVIOUS
<1>13. \A j \in 1..(Len(list) + 1) : v[j] = IF j < i THEN st[j] ELSE IF j = i THEN y ELSE st[j - 1]
  <2> SUFFICES ASSUME NEW j \in 1..(Len(list) + 1)
               PROVE  v[j] = IF j < i THEN st[j] ELSE IF j = i THEN y ELSE st[j - 1]
    OBVIOUS
  <2>1. CASE j < i
    <3>1. j \in 1..Len(list)
      BY <1>2, <2>1
    <3> QED BY <1>6, <1>11, <1>12, <2>1, <3>1
  <2>2. CASE j = i
    BY <1>6, <1>11, <1>12, <2>2
  <2>3. CASE j > i
    <3>1. j - 1 \in 1..Len(list) /\ ~(j < i) /\ j # i
      BY <1>2, <2>3
    <3> QED BY <1>6, <1>11, <1>12, <3>1
  <2> QED BY <1>2, <2>1, <2>2, <2>3
<1>14. ASSUME NEW j \in 1..(Len(list) + 1), NEW l \in 1..(Len(list) + 1), j < l PROVE v[j] <= v[l]
  <2>1. CASE l < i
    <3>1. j \in 1..Len(list) /\ l \in 1..Len(list) /\ j < i
      BY <1>2, <1>14, <2>1
    <3> QED BY <1>7, <1>13, <1>14, <2>1, <3>1
  <2>2. CASE l = i
    <3>1. j \in 1..Len(list) /\ j < i
      BY <1>2, <1>14, <2>2
    <3> QED BY <1>10, <1>13, <2>2, <3>1
  <2>3. CASE l > i /\ j < i
    <3>1. j \in 1..Len(list) /\ l - 1 \in 1..Len(list) /\ j < l - 1 /\ ~(l < i) /\ l # i
      BY <1>2, <2>3
    <3> QED BY <1>7, <1>13, <2>3, <3>1
  <2>4. CASE l > i /\ j = i
    <3>1. l - 1 \in 1..Len(list) /\ ~(l - 1 < i) /\ ~(l < i) /\ l # i
      BY <1>2, <2>4
    <3> QED BY <1>10, <1>13, <2>4, <3>1
  <2>5. CASE l > i /\ j > i
    <3>1. j - 1 \in 1..Len(list) /\ l - 1 \in 1..Len(list) /\ j - 1 < l - 1
      BY <1>2, <1>14, <2>5
    <3>2. v[j] = st[j - 1] /\ v[l] = st[l - 1]
      BY <1>2, <1>13, <2>5
    <3> QED BY <1>7, <3>1, <3>2
  <2> QED BY <1>2, <2>1, <2>2, <2>3, <2>4, <2>5
<1> QED BY <1>11, <1>12, <1>14 DEF InOrderOf

EachRecorded(mo, g) ==
  \A m \in ToSet(g.recorded) : /\ mo[m].terminated /\ ~mo[m].to_be_deleted
                               /\ m \in ToSet(g.playing) <=> mo[m].index # -1

LEMMA RecordedParts ==
  ASSUME NEW mo, NEW g, IsInjective(g.recorded), g.next = NULL \/ g.next \in ToSet(g.recorded),
         EachRecorded(mo, g), g.current = NULL, NULL \notin ToSet(g.recorded)
  PROVE  RecordedOK(mo, g)
BY DEF RecordedOK, EachRecorded

KeptIn(h, g, mq, fr, out) == FingerOK(mq, h, fr, out, TRUE) /\ Has(h) = Has(g)

LEMMA RecordedByOK ==
  ASSUME NEW n \in Nat, NEW g \in FingerType(n), NEW mo \in [1..n -> MotionType], NEW fr, NEW out,
         FingerOK(mo, g, fr, out, TRUE), NEW m \in ToSet(g.playing), m = g.current,
         do_quantize \in BOOLEAN, NEW i, PlaceFor(i, g.recorded, mo, m),
         NEW h, RecordedBy(h, g, n, m, i), MixedBy(h, g, mo),
         NEW pe \in MotionType, pe.to_be_deleted = mo[m].to_be_deleted, pe.index = -1, pe.terminated,
         pe.start = IF do_quantize THEN QuantizeTick(mo[m].start) ELSE mo[m].start,
         NEW mq, mq = [mo EXCEPT ![m] = pe]
  PROVE  KeptIn(h, g, mq, fr, out)
<1>1. /\ RecordedOK(mo, g) /\ PlayingOK(mo, g, out) /\ InOrderOf(mo, g) /\ Has(g) \cap fr = {}
  BY DEF FingerOK
<1>2. /\ h.recorded = InsertAt(g.recorded, i, m) /\ h.next = g.next /\ h.current = NULL
      /\ IsInjective(h.playing) /\ ToSet(h.playing) = ToSet(g.playing) \ {m}
  BY DEF RecordedBy
<1>3. /\ ToSet(g.recorded) \subseteq 1..n /\ ToSet(g.playing) \subseteq 1..n /\ m \in 1..n
      /\ g.recorded \in Seq(1..n)
  BY FingerMotions DEF FingerType
<1>4. mq[m] = pe /\ \A e \in (1..n) \ {m} : mq[e] = mo[e]
  BY <1>3
<1>5. m \notin ToSet(g.recorded) /\ IsInjective(g.recorded)
  BY <1>1 DEF RecordedOK
<1>6. /\ IsInjective(h.recorded) /\ ToSet(h.recorded) = ToSet(g.recorded) \cup {m}
      /\ h.recorded \in Seq(1..n)
  <2>1. i \in 1..(Len(g.recorded) + 1)
    BY DEF PlaceFor
  <2>2. /\ InsertAt(g.recorded, i, m) \in Seq(1..n) /\ IsInjective(InsertAt(g.recorded, i, m))
        /\ ToSet(InsertAt(g.recorded, i, m)) = ToSet(g.recorded) \cup {m}
    BY <1>3, <1>5, <2>1, InsertOne
  <2> QED BY <1>2, <2>2
<1>7. m # NULL
  BY <1>3, PadAssumption
<1>8. EachRecorded(mq, h)
  BY <1>1, <1>2, <1>3, <1>4, <1>5, <1>6, <1>7 DEF RecordedOK, EachRecorded
<1>9. RecordedOK(mq, h)
  <2>1. NULL \notin ToSet(h.recorded)
    BY <1>3, <1>6, PadAssumption
  <2>2. h.next = NULL \/ h.next \in ToSet(h.recorded)
    BY <1>1, <1>2, <1>6 DEF RecordedOK
  <2>3. h.current = NULL
    BY <1>2
  <2> QED BY <1>6, <1>8, <2>1, <2>2, <2>3, RecordedParts
<1>10. PlayingOK(mq, h, out)
  BY <1>1, <1>2, <1>3, <1>4, <1>6 DEF PlayingOK
<1>11. InOrderOf(mq, h)
  <2>1. CASE h.mixed
    BY <2>1 DEF InOrderOf
  <2>2. CASE ~h.mixed
    BY <1>1, <1>2, <1>3, <1>5, <2>2, RecordedInOrder
  <2> QED BY <2>1, <2>2
<1>12. Has(h) = Has(g)
  BY <1>2, <1>6, <1>7 DEF Has
<1> QED BY <1>1, <1>9, <1>10, <1>11, <1>12 DEF FingerOK, KeptIn

(* What a motion that played leaves: others play on.                       *)
PlayedOn(q, o, n, k, S, out, c, s, f, m) ==
  /\ Kept(q, o, n, k, S, out, c)
  /\ ToSet(o.session[s].finger[f].playing) \ {m} \subseteq ToSet(q.session[s].finger[f].playing)

(* A motion that has ended stops, and no note of it sounds.                *)
LEMMA EndMotionStep ==
  ASSUME NEW n \in Nat, NEW k \in Nat, NEW S \in SUBSET (1..k), NEW out, NEW c,
         NEW o, ObjectsInv(o, n, k, S, out, c), NEW s \in S, NEW f \in Fingers,
         o.session[s].in_play, do_quantize \in BOOLEAN,
         NEW m \in ToSet(o.session[s].finger[f].playing), Ended(o.motion[m]),
         NEW q, q = EndMotion(o, s, f, m)
  PROVE  PlayedOn(q, o, n, k, S, out, c, s, f, m)
<1>1. o \in ObjectsType(n, k) /\ s \in 1..k /\ IndexOK(o) /\ SoundOK(o, S, c)
  BY DEF ObjectsInv
<1>2. /\ o.session \in [1..k -> SessionType(n)] /\ o.motion \in [1..n -> MotionType]
      /\ o.session[s].in_play = TRUE /\ o.freed \in SUBSET (1..n)
      /\ o = [session |-> o.session, motion |-> o.motion, freed |-> o.freed, sound |-> o.sound]
  BY <1>1 DEF ObjectsType, SessionType
<1>3. PICK g : g = o.session[s].finger[f]
  OBVIOUS
<1>4. g \in FingerType(n)
  BY <1>1, <1>2, <1>3 DEF SessionType
<1>5. FingerOK(o.motion, g, o.freed, out, TRUE)
  BY <1>2, <1>3 DEF ObjectsInv, FingersOK
<1>6. PICK p : p = o.motion[m]
  OBVIOUS
<1>7. m \in 1..n /\ p \in MotionType /\ m \in Has(g) /\ m \in ToSet(g.playing)
  BY <1>2, <1>3, <1>4, <1>6, FingerMotions DEF Has
<1>8. PICK pl : pl = RemoveAt(g.playing, PlaceIn(g.playing, m))
  OBVIOUS
<1>9. pl \in Seq(1..n) /\ IsInjective(pl) /\ ToSet(pl) = ToSet(g.playing) \ {m}
  <2>1. g.playing \in Seq(1..n) /\ IsInjective(g.playing)
    BY <1>4, <1>5 DEF FingerType, FingerOK, PlayingOK
  <2> QED BY <1>7, <1>8, <2>1, RemoveOne
<1>10. PICK pe : pe = IF m = g.current /\ do_record THEN Quantized(Stopped(p)) ELSE Stopped(p)
  OBVIOUS
<1>11. /\ pe \in MotionType /\ pe.to_be_deleted = p.to_be_deleted /\ pe.index = -1 /\ pe.at = p.at
       /\ pe.terminated = p.terminated /\ p.terminated
       /\ ~(m = g.current /\ do_record) => pe.start = p.start
       /\ m = g.current /\ do_record => pe.start = IF do_quantize THEN QuantizeTick(p.start) ELSE p.start
  <2>1. PICK ps : ps = Stopped(p)
    OBVIOUS
  <2>2. /\ ps \in MotionType /\ ps.start = p.start /\ ps.to_be_deleted = p.to_be_deleted
        /\ ps.index = -1 /\ ps.at = p.at /\ ps.terminated = p.terminated
    BY <1>7, <2>1, StoppedView
  <2>3. PICK pq : pq = Quantized(ps)
    OBVIOUS
  <2>4. /\ pq \in MotionType /\ pq.to_be_deleted = ps.to_be_deleted
        /\ pq.index = ps.index /\ pq.at = ps.at /\ pq.terminated = ps.terminated
        /\ pq.start = IF do_quantize THEN QuantizeTick(ps.start) ELSE ps.start
    BY <2>2, <2>3, QuantizedView
  <2>5. pe = IF m = g.current /\ do_record THEN pq ELSE ps
    BY <1>10, <2>1, <2>3
  <2>6. p.terminated
    BY <1>6 DEF Ended
  <2> QED BY <2>2, <2>4, <2>5, <2>6
<1>12. PICK mq : mq = [o.motion EXCEPT ![m] = pe]
  OBVIOUS
<1>13. mq \in [1..n -> MotionType] /\ mq[m] = pe /\ \A i \in (1..n) \ {m} : mq[i] = o.motion[i]
  BY <1>2, <1>7, <1>11, <1>12
<1>14. PICK fq : fq = IF (m = g.current /\ ~do_record) \/ (m # g.current /\ p.to_be_deleted)
                      THEN o.freed \cup {m} ELSE o.freed
  OBVIOUS
<1>15. fq \in SUBSET (1..n) /\ o.freed \subseteq fq /\ fq \ o.freed \subseteq Has(g)
  BY <1>2, <1>7, <1>14
<1>16. PICK list : list = RecordMotion(o, g.recorded, m)
  OBVIOUS
<1>17. PICK mx : mx = (g.mixed \/ (m = g.current /\ do_record /\ do_quantize /\ ~OnLines(o, g.recorded)))
  OBVIOUS
<1>18. mx \in BOOLEAN /\ (~(m = g.current /\ do_record) => mx = g.mixed)
  <2>1. g.mixed \in BOOLEAN
    BY <1>4 DEF FingerType
  <2> QED BY <1>17, <2>1, Zenon
<1>19. PICK h : h = [g EXCEPT !.recorded = IF m = g.current /\ do_record THEN list ELSE @,
                             !.current = IF m = g.current THEN NULL ELSE @,
                             !.mixed = mx, !.playing = pl]
  OBVIOUS
<1>20. q = Updated(o, s, f, h, mq, fq)
  <2>1. q = [o EXCEPT !.motion[m] = pe, !.freed = fq, !.session[s].finger[f] = h]
    <3>1. h = [g EXCEPT !.recorded = IF m = g.current /\ do_record THEN list ELSE @,
                        !.current = IF m = g.current THEN NULL ELSE @,
                        !.mixed = @ \/ (m = g.current /\ do_record /\ do_quantize /\ ~OnLines(o, g.recorded)),
                        !.playing = RemoveAt(@, PlaceIn(@, m))]
      BY <1>8, <1>19, <1>17
    <3> QED BY <1>3, <1>6, <1>10, <1>14, <1>16, <3>1 DEF EndMotion
  <2> QED BY <1>1, <1>2, <1>12, <2>1 DEF WithFinger, Updated, ObjectsType, SessionType
<1>21. /\ h \in FingerType(n) /\ FingerOK(mq, h, fq, out, TRUE) /\ Has(h) \subseteq Has(g)
       /\ \A e \in Has(g) : e \in Has(h) \/ e \in fq \/ e \in out
       /\ h.playing = pl /\ h.current = (IF m = g.current THEN NULL ELSE g.current)
  <2>1. CASE m = g.current /\ do_record
    <3>1. PICK i \in 1..(Len(g.recorded) + 1) :
            /\ list = InsertAt(g.recorded, i, m)
            /\ \A j \in 1..(i - 1) : ~(o.motion[g.recorded[j]].start > o.motion[m].start)
            /\ i <= Len(g.recorded) => o.motion[g.recorded[i]].start > o.motion[m].start
      <4>1. g.recorded \in Seq(1..n)
        BY <1>4 DEF FingerType
      <4> QED BY <1>16, <4>1, RecordView
    <3>2. PlaceFor(i, g.recorded, o.motion, m)
      BY <3>1 DEF PlaceFor
    <3>3. list \in Seq(1..n)
      <4>1. g.recorded \in Seq(1..n) /\ IsInjective(g.recorded) /\ m \notin ToSet(g.recorded)
        BY <1>4, <1>5, <2>1 DEF FingerType, FingerOK, RecordedOK
      <4>2. InsertAt(g.recorded, i, m) \in Seq(1..n)
        BY <1>7, <4>1, InsertOne
      <4> QED BY <3>1, <4>2
    <3>4. /\ h \in FingerType(n) /\ h.recorded = list /\ h.next = g.next /\ h.current = NULL
          /\ h.playing = pl /\ h.mixed = mx
      BY <1>4, <1>9, <1>19, <1>18, <2>1, <3>3 DEF FingerType
    <3>5. RecordedBy(h, g, n, m, i)
      BY <1>9, <3>1, <3>4 DEF RecordedBy
    <3>6. MixedBy(h, g, o.motion)
      BY <1>17, <2>1, <3>4 DEF MixedBy, OnLines
    <3>7. KeptIn(h, g, mq, o.freed, out)
      BY <1>2, <1>4, <1>5, <1>6, <1>7, <1>11, <1>12, <2>1, <3>2, <3>5, <3>6, RecordedByOK
    <3>8. fq = o.freed
      BY <1>14, <2>1
    <3> QED BY <2>1, <3>4, <3>7, <3>8 DEF KeptIn
  <2>2. CASE ~(m = g.current /\ do_record)
    <3>1. /\ h \in FingerType(n) /\ h.recorded = g.recorded /\ h.next = g.next /\ h.playing = pl
          /\ h.current = (IF m = g.current THEN NULL ELSE g.current) /\ h.mixed = g.mixed
      BY <1>4, <1>9, <1>19, <1>18, <2>2 DEF FingerType
    <3>2. LeftBy(h, g, n, m)
      BY <1>9, <3>1 DEF LeftBy
    <3>3. FreedBy(fq, o.freed, o.motion, g, m)
      BY <1>6, <1>14, <2>2 DEF FreedBy
    <3>4. FingerOK(mq, h, fq, out, TRUE)
      <4>1. IdleIn(mq, o.motion, n, m)
        BY <1>6, <1>11, <1>13, <2>2 DEF IdleIn
      <4>2. o.motion \in [1..n -> MotionType] /\ m \in ToSet(g.playing)
        BY <1>2, <1>7
      <4> QED BY <1>4, <1>5, <3>2, <3>3, <4>1, <4>2, LeftOK
    <3>5. Has(h) \subseteq Has(g) /\ Has(g) \ {m} \subseteq Has(h)
      BY <1>9, <3>1 DEF Has
    <3>6. m \in Has(h) \/ m \in fq \/ m \in out
      BY <1>5, <1>7, <3>1, <3>3 DEF FingerOK, PlayingOK, Has, FreedBy
    <3> QED BY <3>1, <3>4, <3>5, <3>6
  <2> QED BY <2>1, <2>2
<1>22. /\ q \in ObjectsType(n, k) /\ OthersSame(q, o, S, s, f) /\ SameControl(q, o, k)
       /\ q.session[s].finger[f] = h /\ q.motion = mq /\ q.freed = fq /\ q.sound = o.sound
  <2>1. UpdateOf(Updated(o, s, f, h, mq, fq), o, n, k, S, s, f, h, mq, fq)
    BY <1>1, <1>13, <1>15, <1>21, UpdatedView
  <2> QED BY <1>20, <2>1 DEF UpdateOf
<1>23. IndexOK(q)
  <2>1. DOMAIN mq = 1..n /\ DOMAIN o.motion = 1..n
    BY <1>2, <1>13
  <2>2. pe.index \in -1..Len(pe.at)
    <3>1. pe.at \in Seq(PositionType)
      BY <1>11 DEF MotionType
    <3>2. Len(pe.at) \in Nat
      BY <3>1
    <3> QED BY <1>11, <3>2
  <2> QED BY <1>1, <1>13, <1>22, <2>1, <2>2 DEF IndexOK
<1>24. \A e \in (1..n) \ {m} : Plays(o, S, e) => Plays(q, S, e)
  <2>1. \A e \in ToSet(g.playing) \ {m} : e \in ToSet(h.playing)
    BY <1>9, <1>21
  <2> QED BY <1>3, <1>22, <2>1 DEF Plays, OthersSame
<1>25. SoundOK(q, S, c)
  <2>1. \A e \in q.sound : Plays(o, S, e[1]) /\ ~Ended(o.motion[e[1]]) =>
          q.motion[e[1]] = o.motion[e[1]] /\ Plays(q, S, e[1])
    BY <1>1, <1>13, <1>22, <1>24, PlaysType
  <2> QED BY <1>1, <1>22, <2>1, SoundKept
<1>26. FingerOK(q.motion, h, q.freed, out, q.session[s].in_play)
  <2>1. q.session[s].in_play = TRUE
    BY <1>1, <1>2, <1>22 DEF SameControl
  <2> QED BY <1>21, <1>22, <2>1
<1>27. AlikeFor(o.motion, q.motion, (1..n) \ Has(g))
  BY <1>7, <1>13, <1>22 DEF AlikeFor
<1>28. HeldBy(q.motion, h, s, f, c)
  <2>1. HeldBy(o.motion, g, s, f, c)
    BY <1>3 DEF ObjectsInv, HeldOK
  <2>2. \A e \in ToSet(h.playing) :
          e \in ToSet(g.playing) /\ e # m /\ mq[e] = o.motion[e] /\ (e = g.current => e = h.current)
    BY <1>4, <1>9, <1>13, <1>21, FingerMotions
  <2> QED BY <1>22, <2>1, <2>2 DEF HeldBy
<1>29. ObjectsInv(q, n, k, S, out, c)
  BY <1>3, <1>15, <1>21, <1>22, <1>23, <1>25, <1>26, <1>27, <1>28, FingerStep
<1> QED BY <1>3, <1>9, <1>21, <1>22, <1>29 DEF Kept, PlayedOn

-----------------------------------------------------------------------------
(* process_finger_motions and process_session                              *)

Turn(s, f, m, quiet) == [session |-> s, finger |-> f, motion |-> m, quiet |-> quiet]

WithSession(o, s, c2) == [o EXCEPT !.session[s] = c2]

(* The finger h has the motions of the finger g, and may play next any one *)
(* that is recorded.                                                       *)
SameLists(h, g) ==
  /\ h.recorded = g.recorded /\ h.current = g.current /\ h.playing = g.playing /\ h.mixed = g.mixed
  /\ h.next = NULL \/ h.next \in ToSet(h.recorded)

SessionSet(q, o, n, k, S, out, c, s, c2) ==
  /\ ObjectsInv(q, n, k, S, out, c) /\ q.session[s] = c2
  /\ \A r \in (1..k) \ {s} : q.session[r] = o.session[r]

LEMMA SessionUpdate ==
  ASSUME NEW n \in Nat, NEW k \in Nat, NEW S \in SUBSET (1..k), NEW out, NEW c,
         NEW o, ObjectsInv(o, n, k, S, out, c), NEW s \in S, NEW c2 \in SessionType(n),
         \A f \in Fingers : SameLists(c2.finger[f], o.session[s].finger[f]),
         ~c2.in_play => \A f \in Fingers : c2.finger[f].playing = <<>>,
         NEW q, q = WithSession(o, s, c2)
  PROVE  SessionSet(q, o, n, k, S, out, c, s, c2)
<1>1. o \in ObjectsType(n, k) /\ s \in 1..k
  BY DEF ObjectsInv
<1>2. /\ q \in ObjectsType(n, k) /\ q.motion = o.motion /\ q.freed = o.freed /\ q.sound = o.sound
      /\ q.session[s] = c2 /\ \A r \in (1..k) \ {s} : q.session[r] = o.session[r]
  <2>1. o.session \in [1..k -> SessionType(n)]
    BY <1>1 DEF ObjectsType
  <2>2. PICK tt : tt = [o.session EXCEPT ![s] = c2]
    OBVIOUS
  <2>3. tt \in [1..k -> SessionType(n)] /\ tt[s] = c2 /\ \A r \in (1..k) \ {s} : tt[r] = o.session[r]
    BY <1>1, <2>1, <2>2
  <2>4. q = [o EXCEPT !.session = tt]
    BY <2>2 DEF WithSession
  <2>5. q.session = tt /\ q.motion = o.motion /\ q.freed = o.freed /\ q.sound = o.sound
    BY <1>1, <2>4 DEF ObjectsType
  <2>6. q \in ObjectsType(n, k)
    BY <1>1, <2>3, <2>4 DEF ObjectsType
  <2> QED BY <2>3, <2>5, <2>6
<1>3. \A r \in S, f \in Fingers : /\ Has(q.session[r].finger[f]) = Has(o.session[r].finger[f])
                                  /\ q.session[r].finger[f].playing = o.session[r].finger[f].playing
  <2> SUFFICES ASSUME NEW r \in S, NEW f \in Fingers
               PROVE  /\ Has(q.session[r].finger[f]) = Has(o.session[r].finger[f])
                      /\ q.session[r].finger[f].playing = o.session[r].finger[f].playing
    OBVIOUS
  <2>1. CASE r = s
    BY <1>2, <2>1 DEF SameLists, Has
  <2>2. CASE r # s
    BY <1>2, <2>2
  <2> QED BY <2>1, <2>2
<1>4. MotionsApart(q, S)
  <2>1. MotionsApart(o, S)
    BY DEF ObjectsInv
  <2>2. \A r \in S, f \in Fingers : Has(q.session[r].finger[f]) \subseteq Has(o.session[r].finger[f])
    BY <1>3
  <2> QED BY <2>1, <2>2, ApartStep
<1>5. Covered(q, S, out)
  BY <1>2, <1>3 DEF ObjectsInv, Covered
<1>6. SoundOK(q, S, c)
  BY <1>2, <1>3 DEF ObjectsInv, SoundOK
<1>7. IndexOK(q)
  BY <1>2 DEF ObjectsInv, IndexOK
<1>8. FingersOK(q, S, out)
  <2> SUFFICES ASSUME NEW r \in S, NEW f \in Fingers
               PROVE  FingerOK(q.motion, q.session[r].finger[f], q.freed, out, q.session[r].in_play)
    BY DEF FingersOK
  <2>1. FingerOK(o.motion, o.session[r].finger[f], o.freed, out, o.session[r].in_play)
    BY DEF ObjectsInv, FingersOK
  <2>2. CASE r # s
    BY <1>2, <2>1, <2>2
  <2>3. CASE r = s
    <3>1. PICK g : g = o.session[s].finger[f]
      OBVIOUS
    <3>2. PICK h : h = c2.finger[f]
      OBVIOUS
    <3>3. /\ RecordedOK(o.motion, g) /\ PlayingOK(o.motion, g, out) /\ InOrderOf(o.motion, g)
          /\ Has(g) \cap o.freed = {}
      BY <2>1, <2>3, <3>1 DEF FingerOK
    <3>4. /\ h.recorded = g.recorded /\ h.current = g.current /\ h.playing = g.playing /\ h.mixed = g.mixed
          /\ h.next = NULL \/ h.next \in ToSet(h.recorded)
      BY <3>1, <3>2 DEF SameLists
    <3>5. RecordedOK(o.motion, h)
      BY <3>3, <3>4 DEF RecordedOK
    <3>6. PlayingOK(o.motion, h, out)
      BY <3>3, <3>4 DEF PlayingOK
    <3>7. InOrderOf(o.motion, h)
      BY <3>3, <3>4 DEF InOrderOf
    <3>8. Has(h) \cap o.freed = {}
      BY <3>3, <3>4 DEF Has
    <3>9. ~c2.in_play => h.playing = <<>>
      BY <3>2
    <3> QED BY <1>2, <2>3, <3>2, <3>5, <3>6, <3>7, <3>8, <3>9 DEF FingerOK
  <2> QED BY <2>2, <2>3
<1>9. HeldOK(q, S, c)
  <2>1. \A r \in S, f \in Fingers : q.session[r].finger[f].current = o.session[r].finger[f].current
    <3> SUFFICES ASSUME NEW r \in S, NEW f \in Fingers
                 PROVE  q.session[r].finger[f].current = o.session[r].finger[f].current
      OBVIOUS
    <3>1. CASE r = s
      BY <1>2, <3>1 DEF SameLists
    <3>2. CASE r # s
      BY <1>2, <3>2
    <3> QED BY <3>1, <3>2
  <2>2. HeldOK(o, S, c)
    BY DEF ObjectsInv
  <2> QED BY <1>2, <1>3, <2>1, <2>2 DEF HeldOK, HeldBy
<1> QED BY <1>2, <1>4, <1>5, <1>6, <1>7, <1>8, <1>9 DEF ObjectsInv, SessionSet

(* A session that starts to play starts with its first motions.            *)
LEMMA StartPlayView ==
  ASSUME NEW n \in Nat, NEW d \in SessionType(n),
         \A f \in Fingers : d.finger[f].next = NULL \/ d.finger[f].next \in ToSet(d.finger[f].recorded),
         ~d.in_play => \A f \in Fingers : d.finger[f].playing = <<>>,
         NEW e, e = StartPlay(d)
  PROVE  /\ e \in SessionType(n) /\ e.in_play /\ e.terminated = d.terminated
         /\ e.to_be_deleted = d.to_be_deleted
         /\ \A f \in Fingers : SameLists(e.finger[f], d.finger[f])
<1>1. CASE d.in_play
  <2>1. e = d
    BY <1>1 DEF StartPlay
  <2> QED BY <1>1, <2>1 DEF SameLists
<1>2. CASE ~d.in_play
  <2>1. PICK fs : fs = [f \in Fingers |-> FromTheTop(d.finger[f])]
    OBVIOUS
  <2>2. e = [d EXCEPT !.in_play = TRUE, !.position = -1, !.finger = fs]
    BY <1>2, <2>1 DEF StartPlay
  <2>3. ASSUME NEW f \in Fingers PROVE fs[f] \in FingerType(n) /\ SameLists(fs[f], d.finger[f])
    <3>1. PICK g : g = d.finger[f]
      OBVIOUS
    <3>2. g \in FingerType(n) /\ g.playing = <<>>
      BY <1>2, <3>1 DEF SessionType
    <3>3. PICK x : x = FirstOf(g.recorded)
      OBVIOUS
    <3>4. x = NULL \/ x \in ToSet(g.recorded)
      <4>1. g.recorded \in Seq(1..n)
        BY <3>2 DEF FingerType
      <4>2. CASE g.recorded = <<>>
        BY <3>3, <4>2 DEF FirstOf
      <4>3. CASE g.recorded # <<>>
        <5>1. 1 \in 1..Len(g.recorded) /\ Head(g.recorded) = g.recorded[1]
          BY <4>1, <4>3
        <5> QED BY <3>3, <4>1, <4>3, <5>1, ToSetView DEF FirstOf
      <4> QED BY <4>2, <4>3
    <3>5. fs[f] = [g EXCEPT !.next = x, !.playing = <<>>]
      BY <2>1, <3>1, <3>3 DEF FromTheTop
    <3>6. x \in (1..n) \cup {NULL}
      BY <3>2, <3>4, FingerMotions
    <3>7. <<>> \in Seq(1..n)
      OBVIOUS
    <3>8. /\ fs[f] \in FingerType(n) /\ fs[f].recorded = g.recorded /\ fs[f].current = g.current
          /\ fs[f].playing = <<>> /\ fs[f].next = x /\ fs[f].mixed = g.mixed
      BY <3>2, <3>5, <3>6, <3>7 DEF FingerType
    <3> QED BY <3>1, <3>2, <3>4, <3>8 DEF SameLists
  <2>4. fs \in [Fingers -> FingerType(n)]
    BY <2>1, <2>3
  <2>5. /\ e \in SessionType(n) /\ e.in_play = TRUE /\ e.terminated = d.terminated
        /\ e.to_be_deleted = d.to_be_deleted /\ e.finger = fs
    <3>1. -1 \in Int /\ TRUE \in BOOLEAN
      OBVIOUS
    <3> QED BY <2>2, <2>4, <3>1 DEF SessionType
  <2> QED BY <2>3, <2>5
<1> QED BY <1>1, <1>2

Placed(d) == [d EXCEPT !.position = IF @ < Late THEN @ + 1 ELSE @]

LEMMA PlacedView ==
  ASSUME NEW n \in Nat, NEW d \in SessionType(n), NEW e, e = Placed(d)
  PROVE  /\ e \in SessionType(n) /\ e.in_play = d.in_play /\ e.terminated = d.terminated
         /\ e.to_be_deleted = d.to_be_deleted /\ e.finger = d.finger
<1>1. d.position \in Int
  BY DEF SessionType
<1>2. (IF d.position < Late THEN d.position + 1 ELSE d.position) \in Int
  BY <1>1
<1> QED BY <1>2 DEF SessionType, Placed

Rested(d, in_play) == [d EXCEPT !.in_play = in_play, !.position = IF in_play THEN @ ELSE -1]

-----------------------------------------------------------------------------
(* What a session was told is kept when it is processed, and one that is   *)
(* in play and not terminated stays in play.                               *)
RanFrom(q, o, k) ==
  \A s \in 1..k :
    /\ q.session[s].terminated = o.session[s].terminated
    /\ q.session[s].to_be_deleted = o.session[s].to_be_deleted
    /\ o.session[s].in_play /\ ~o.session[s].terminated => q.session[s].in_play

LEMMA RanFromTransitive ==
  ASSUME NEW k, NEW o, NEW q, NEW r, RanFrom(q, o, k), RanFrom(r, q, k)
  PROVE  RanFrom(r, o, k)
BY DEF RanFrom

LEMMA SameIsRan ==
  ASSUME NEW k, NEW o, NEW q, SameControl(q, o, k)
  PROVE  RanFrom(q, o, k)
BY DEF RanFrom, SameControl

Ran(q, o, n, k, S, out, c) == ObjectsInv(q, n, k, S, out, c) /\ RanFrom(q, o, k)

-----------------------------------------------------------------------------
(* What was deleted is forgotten                                           *)

LEMMA GoneTypes ==
  ASSUME NEW n \in Nat
  PROVE  /\ Deleted \in MotionType /\ Deleted.index = 0 /\ Len(Deleted.at) = 1
         /\ \A t \in Int : NewSession(t) \in SessionType(n)
         /\ Gone \in SessionType(n)
<1>1. PICK pos : pos = [t |-> 0, x |-> NULL]
  OBVIOUS
<1>2. pos \in PositionType /\ <<pos>> \in Seq(PositionType) /\ Len(<<pos>>) = 1
  BY <1>1 DEF PositionType
<1>3. Deleted = [start |-> 0, at |-> <<pos>>, index |-> 0, crnt_tick |-> -1,
                 last_x |-> NULL, terminated |-> FALSE, to_be_deleted |-> FALSE]
  BY <1>1 DEF Deleted, NewMotion
<1>4. Deleted \in MotionType /\ Deleted.index = 0 /\ Deleted.at = <<pos>>
  BY <1>2, <1>3 DEF MotionType
<1>5. NoFinger \in FingerType(n)
  BY DEF NoFinger, FingerType
<1>6. \A t \in Int : NewSession(t) \in SessionType(n)
  BY <1>5 DEF NewSession, SessionType
<1>7. Gone \in SessionType(n)
  BY <1>6 DEF Gone
<1> QED BY <1>2, <1>4, <1>6, <1>7

Forgetting(o, S) ==
  [session |-> [s \in DOMAIN o.session |-> IF s \in S THEN o.session[s] ELSE Gone],
   motion  |-> [m \in DOMAIN o.motion |-> IF m \in o.freed THEN Deleted ELSE o.motion[m]],
   freed   |-> o.freed,
   sound   |-> o.sound]

Forgot(q, o, n, k, S, out, c) ==
  ObjectsInv(q, n, k, S, out, c) /\ \A s \in S : q.session[s] = o.session[s]

LEMMA ForgettingStep ==
  ASSUME NEW n \in Nat, NEW k \in Nat, NEW S \in SUBSET (1..k), NEW out, NEW c,
         NEW o, ObjectsInv(o, n, k, S, out, c), NEW q, q = Forgetting(o, S)
  PROVE  Forgot(q, o, n, k, S, out, c)
<1>1. o \in ObjectsType(n, k)
  BY DEF ObjectsInv
<1>2. /\ o.session \in [1..k -> SessionType(n)] /\ o.motion \in [1..n -> MotionType]
      /\ DOMAIN o.session = 1..k /\ DOMAIN o.motion = 1..n
  BY <1>1 DEF ObjectsType
<1>3. /\ q.session = [s \in 1..k |-> IF s \in S THEN o.session[s] ELSE Gone]
      /\ q.motion = [m \in 1..n |-> IF m \in o.freed THEN Deleted ELSE o.motion[m]]
      /\ q.freed = o.freed /\ q.sound = o.sound
      /\ q = [session |-> q.session, motion |-> q.motion, freed |-> q.freed, sound |-> q.sound]
  BY <1>2 DEF Forgetting
<1>4. /\ \A s \in S : q.session[s] = o.session[s]
      /\ \A m \in (1..n) \ o.freed : q.motion[m] = o.motion[m]
      /\ \A m \in (1..n) \cap o.freed : q.motion[m] = Deleted
  BY <1>3
<1>5. q \in ObjectsType(n, k)
  <2>1. q.session \in [1..k -> SessionType(n)]
    BY <1>2, <1>3, GoneTypes
  <2>2. q.motion \in [1..n -> MotionType]
    BY <1>2, <1>3, GoneTypes
  <2>3. o.freed \in SUBSET (1..n) /\ o.sound \in SUBSET ((1..n) \X (Columns \cup {NULL}))
    BY <1>1 DEF ObjectsType
  <2> QED BY <1>3, <2>1, <2>2, <2>3 DEF ObjectsType
<1>6. IndexOK(q)
  <2>1. DOMAIN q.motion = 1..n
    BY <1>3
  <2>2. 0 \in -1..1
    OBVIOUS
  <2> QED BY <1>2, <1>4, <2>1, <2>2, GoneTypes DEF IndexOK, ObjectsInv
<1>7. FingersOK(q, S, out)
  <2> SUFFICES ASSUME NEW s \in S, NEW f \in Fingers
               PROVE  FingerOK(q.motion, o.session[s].finger[f], o.freed, out, o.session[s].in_play)
    BY <1>3, <1>4 DEF FingersOK
  <2>1. o.session[s].finger[f] \in FingerType(n)
    BY <1>2 DEF SessionType
  <2>2. FingerOK(o.motion, o.session[s].finger[f], o.freed, out, o.session[s].in_play)
    BY DEF ObjectsInv, FingersOK
  <2>3. Has(o.session[s].finger[f]) \cap o.freed = {}
    BY <2>2 DEF FingerOK
  <2>4. Has(o.session[s].finger[f]) \subseteq (1..n) \ o.freed
    BY <2>1, <2>3, FingerMotions
  <2>5. AlikeFor(o.motion, q.motion, (1..n) \ o.freed)
    BY <1>4 DEF AlikeFor
  <2> QED BY <2>1, <2>2, <2>3, <2>4, <2>5, FingerAlike
<1>8. MotionsApart(q, S)
  <2>1. MotionsApart(o, S)
    BY DEF ObjectsInv
  <2>2. \A s \in S, f \in Fingers : Has(q.session[s].finger[f]) \subseteq Has(o.session[s].finger[f])
    BY <1>4
  <2>3. S \subseteq S
    OBVIOUS
  <2> QED BY <2>1, <2>2, <2>3, ApartStep
<1>9. Covered(q, S, out)
  BY <1>2, <1>3, <1>4 DEF Covered, ObjectsInv
<1>10. SoundOK(q, S, c)
  <2>1. SoundOK(o, S, c)
    BY DEF ObjectsInv
  <2>2. \A m \in 1..n : Plays(o, S, m) => q.motion[m] = o.motion[m] /\ Plays(q, S, m)
    <3> SUFFICES ASSUME NEW m \in 1..n, Plays(o, S, m)
                 PROVE  q.motion[m] = o.motion[m] /\ Plays(q, S, m)
      OBVIOUS
    <3>1. m \notin o.freed
      BY DEF Plays, ObjectsInv, FingersOK, FingerOK, Has
    <3> QED BY <1>4, <3>1 DEF Plays
  <2>3. \A e \in q.sound : Plays(o, S, e[1]) => q.motion[e[1]] = o.motion[e[1]] /\ Plays(q, S, e[1])
    BY <1>1, <2>2, PlaysType
  <2> QED BY <1>3, <2>1, <2>3, SoundKept
<1>11. HeldOK(q, S, c)
  <2> SUFFICES ASSUME NEW s \in S, NEW f \in Fingers
               PROVE  HeldBy(q.motion, o.session[s].finger[f], s, f, c)
    BY <1>4 DEF HeldOK
  <2>1. PICK g : g = o.session[s].finger[f]
    OBVIOUS
  <2>2. HeldBy(o.motion, g, s, f, c) /\ Has(g) \cap o.freed = {}
    BY <2>1 DEF ObjectsInv, HeldOK, FingersOK, FingerOK
  <2>3. g \in FingerType(n)
    BY <1>2, <2>1 DEF SessionType
  <2>4. \A m \in ToSet(g.playing) : q.motion[m] = o.motion[m]
    BY <1>4, <2>2, <2>3, FingerMotions, HasParts
  <2> QED BY <2>1, <2>2, <2>4, HeldAlike
<1> QED BY <1>4, <1>5, <1>6, <1>7, <1>8, <1>9, <1>10, <1>11 DEF ObjectsInv, Forgot

LEMMA SetObjectsStep ==
  ASSUME NEW n \in Nat, NEW k \in Nat, sessions' \in SUBSET (1..k), NEW c,
         c = Hands(cut', current_session', pressed'),
         NEW o, ObjectsInv(o, n, k, sessions', lost', c), SetObjects(o)
  PROVE  StateOf(n, k)' /\ \A s \in sessions' : session'[s] = o.session[s]
<1>1. Objects' = Forgetting(o, sessions')
  BY DEF Objects, Forgetting, SetObjects
<1>2. Forgot(Objects', o, n, k, sessions', lost', c)
  BY <1>1, ForgettingStep
<1>3. ObjectsInv(Objects', n, k, sessions', lost', c)
  BY <1>2 DEF Forgot
<1>4. Objects'.session = session' /\ Objects'.motion = motion'
  BY DEF Objects
<1>5. Objects' \in ObjectsType(n, k)
  BY <1>3 DEF ObjectsInv
<1>6. session' \in [1..k -> SessionType(n)] /\ motion' \in [1..n -> MotionType]
  BY <1>4, <1>5 DEF ObjectsType
<1>7. \A s \in sessions' : session'[s] = o.session[s]
  BY <1>2, <1>4 DEF Forgot
<1>8. ObjectsInv(Objects, n, k, sessions, lost, Hands(cut, current_session, pressed))'
  BY <1>3
<1> QED BY <1>6, <1>7, <1>8 DEF StateOf

LEMMA ObjectsNext ==
  ASSUME NEW n \in Nat, NEW k \in Nat, sessions' \in SUBSET (1..k), NEW c,
         c = Hands(cut', current_session', pressed'),
         NEW q, ObjectsInv(q, n, k, sessions', lost', c), Objects' = q
  PROVE  StateOf(n, k)'
<1>1. Objects'.session = session' /\ Objects'.motion = motion'
  BY DEF Objects
<1>2. q \in ObjectsType(n, k)
  BY DEF ObjectsInv
<1>3. session' \in [1..k -> SessionType(n)] /\ motion' \in [1..n -> MotionType]
  BY <1>1, <1>2 DEF ObjectsType
<1>4. ObjectsInv(Objects', n, k, sessions', lost', c)
  OBVIOUS
<1>5. ObjectsInv(Objects, n, k, sessions, lost, Hands(cut, current_session, pressed))'
  BY <1>4
<1> QED BY <1>3, <1>5 DEF StateOf

LEMMA PadInvView ==
  ASSUME PadInv
  PROVE  \E n \in Nat, k \in Nat : n = Len(motion) /\ k = Len(session) /\ StateOf(n, k)
BY DEF PadInv

LEMMA PadInvNext ==
  ASSUME NEW n \in Nat, NEW k \in Nat, StateOf(n, k)', tick' \in Int, mute' \in BOOLEAN,
         do_record' \in BOOLEAN, do_quantize' \in BOOLEAN, SessionsInv', ExportReturns'
  PROVE  PadInv'
<1>1. session' \in [1..k -> SessionType(n)] /\ motion' \in [1..n -> MotionType]
  BY DEF StateOf
<1>2. session' \in Seq(SessionType(n)) /\ motion' \in Seq(MotionType)
  BY <1>1, IntervalIsSeq
<1>3. Len(session') = k /\ Len(motion') = n
  BY <1>1, <1>2
<1>4. (\E i \in {Len(motion)}, j \in {Len(session)} : i \in Nat /\ j \in Nat /\ StateOf(i, j))'
  BY <1>3
<1> QED BY <1>4 DEF PadInv

-----------------------------------------------------------------------------
(* What goes with a session                                                *)

LEMMA OwnedView ==
  ASSUME NEW n \in Nat, NEW d \in SessionType(n)
  PROVE  /\ Owned(d) \subseteq 1..n
         /\ \A m \in Owned(d) : \E f \in Fingers : m \in Has(d.finger[f])
         /\ \A f \in Fingers : \A m \in Has(d.finger[f]) :
              m \in Owned(d) \/ m \in ToSet(d.finger[f].playing)
<1>1. \A m \in Owned(d) : \E f \in Fingers : m \in Has(d.finger[f])
  BY DEF Owned, Has
<1>2. \A f \in Fingers : Has(d.finger[f]) \subseteq 1..n
  BY FingerMotions DEF SessionType
<1>3. \A f \in Fingers : \A m \in Has(d.finger[f]) : m \in Owned(d) \/ m \in ToSet(d.finger[f].playing)
  BY DEF Owned, Has
<1> QED BY <1>1, <1>2, <1>3

WithFreed(o, F) == [o EXCEPT !.freed = @ \cup F]

Destroyed(q, o, n, k, S, out, c) == ObjectsInv(q, n, k, S, out, c) /\ q.session = o.session

(* Sessions that have come to an end are deleted, with the motions they    *)
(* own.                                                                    *)
LEMMA DestroyStep ==
  ASSUME NEW n \in Nat, NEW k \in Nat, NEW S \in SUBSET (1..k), NEW out, NEW c,
         NEW o, ObjectsInv(o, n, k, S, out, c), NEW G \in SUBSET S,
         \A s \in G, f \in Fingers : o.session[s].finger[f].playing = <<>>,
         NEW F, F = UNION {Owned(o.session[s]) : s \in G}, NEW q, q = WithFreed(o, F)
  PROVE  Destroyed(q, o, n, k, S \ G, out, c)
<1>1. o \in ObjectsType(n, k) /\ MotionsApart(o, S) /\ Covered(o, S, out) /\ SoundOK(o, S, c) /\ IndexOK(o)
  BY DEF ObjectsInv
<1>2. /\ o.session \in [1..k -> SessionType(n)] /\ o.freed \in SUBSET (1..n)
      /\ o.motion \in [1..n -> MotionType]
      /\ o = [session |-> o.session, motion |-> o.motion, freed |-> o.freed, sound |-> o.sound]
  BY <1>1 DEF ObjectsType
<1>3. /\ q.session = o.session /\ q.motion = o.motion /\ q.sound = o.sound
      /\ q.freed = o.freed \cup F
      /\ q = [session |-> q.session, motion |-> q.motion, freed |-> q.freed, sound |-> q.sound]
  BY <1>2 DEF WithFreed
<1>4. F \subseteq 1..n
  BY <1>2, OwnedView
<1>5. q \in ObjectsType(n, k)
  <2>1. q.freed \in SUBSET (1..n)
    BY <1>2, <1>3, <1>4
  <2> QED BY <1>1, <1>3, <2>1 DEF ObjectsType
<1>6. \A m \in F : \E s \in G, f \in Fingers : m \in Has(o.session[s].finger[f])
  BY <1>2, OwnedView
<1>7. FingersOK(q, S \ G, out)
  <2> SUFFICES ASSUME NEW r \in S \ G, NEW e \in Fingers
               PROVE  FingerOK(q.motion, q.session[r].finger[e], q.freed, out, q.session[r].in_play)
    BY DEF FingersOK
  <2>1. PICK g : g = o.session[r].finger[e]
    OBVIOUS
  <2>2. FingerOK(o.motion, g, o.freed, out, o.session[r].in_play)
    BY <2>1 DEF ObjectsInv, FingersOK
  <2>3. g \in FingerType(n)
    BY <1>2, <2>1 DEF SessionType
  <2>4. Has(g) \cap F = {}
    <3> SUFFICES ASSUME NEW m \in F, m \in Has(g) PROVE FALSE
      OBVIOUS
    <3>1. PICK s \in G, f \in Fingers : m \in Has(o.session[s].finger[f])
      BY <1>6
    <3>2. s \in S /\ r \in S /\ r # s
      OBVIOUS
    <3> QED BY <1>1, <2>1, <3>1, <3>2, HasOne
  <2> QED BY <1>3, <2>1, <2>2, <2>4 DEF FingerOK
<1>8. MotionsApart(q, S \ G)
  BY <1>1, <1>3 DEF MotionsApart
<1>9. Covered(q, S \ G, out)
  <2>1. \A s \in S, f \in Fingers : \A m \in Has(o.session[s].finger[f]) :
           m \in q.freed \/ m \in out \/ (s \in S \ G /\ m \in Has(q.session[s].finger[f]))
    <3> SUFFICES ASSUME NEW s \in G, NEW f \in Fingers, NEW m \in Has(o.session[s].finger[f])
                 PROVE  m \in F
      BY <1>3
    <3>1. o.session[s] \in SessionType(n)
      BY <1>2
    <3>2. m \notin ToSet(o.session[s].finger[f].playing)
      BY DEF ToSet
    <3>3. m \in Owned(o.session[s])
      BY <3>1, <3>2, OwnedView
    <3> QED BY <3>3
  <2> QED BY <1>1, <1>3, <2>1, CoveredStep
<1>10. SoundOK(q, S \ G, c)
  <2>1. \A m : Plays(o, S, m) => Plays(q, S \ G, m)
    <3> SUFFICES ASSUME NEW m, Plays(o, S, m) PROVE Plays(q, S \ G, m)
      OBVIOUS
    <3>1. PICK s \in S, f \in Fingers : m \in ToSet(o.session[s].finger[f].playing)
      BY DEF Plays
    <3>2. s \notin G
      BY <3>1 DEF ToSet
    <3> QED BY <1>3, <3>1, <3>2 DEF Plays
  <2> QED BY <1>1, <1>3, <2>1, SoundKept
<1>11. IndexOK(q)
  BY <1>1, <1>3 DEF IndexOK
<1>12. HeldOK(q, S \ G, c)
  BY <1>3 DEF ObjectsInv, HeldOK
<1> QED BY <1>3, <1>5, <1>7, <1>8, <1>9, <1>10, <1>11, <1>12 DEF ObjectsInv, Destroyed

-----------------------------------------------------------------------------
(* Deleting a session                                                      *)

RecordedIn(d) == UNION {ToSet(d.finger[f].recorded) : f \in Fingers}

Idle(mo, ms) == {m \in ms : mo[m].index = -1}

Designating(mo, ms) ==
  [m \in DOMAIN mo |-> IF m \in ms THEN [mo[m] EXCEPT !.to_be_deleted = TRUE] ELSE mo[m]]

LEMMA DesignatingView ==
  ASSUME NEW n \in Nat, NEW mo \in [1..n -> MotionType], NEW ms, NEW mq, mq = Designating(mo, ms)
  PROVE  /\ mq \in [1..n -> MotionType]
         /\ \A m \in (1..n) \ ms : mq[m] = mo[m]
         /\ \A m \in (1..n) \cap ms : mq[m].to_be_deleted
         /\ \A m \in 1..n : /\ mq[m].start = mo[m].start /\ mq[m].index = mo[m].index
                            /\ mq[m].at = mo[m].at /\ mq[m].last_x = mo[m].last_x
                            /\ mq[m].terminated = mo[m].terminated
<1>1. mq = [m \in 1..n |-> IF m \in ms THEN [mo[m] EXCEPT !.to_be_deleted = TRUE] ELSE mo[m]]
  BY DEF Designating
<1>2. ASSUME NEW p \in MotionType, NEW r, r = [p EXCEPT !.to_be_deleted = TRUE]
      PROVE  /\ r \in MotionType /\ r.to_be_deleted /\ r.start = p.start /\ r.index = p.index
             /\ r.at = p.at /\ r.last_x = p.last_x /\ r.terminated = p.terminated
  BY <1>2 DEF MotionType
<1>3. \A m \in 1..n : mo[m] \in MotionType
  OBVIOUS
<1>4. \A m \in 1..n : mq[m] = IF m \in ms THEN [mo[m] EXCEPT !.to_be_deleted = TRUE] ELSE mo[m]
  BY <1>1
<1>5. ASSUME NEW m \in 1..n
      PROVE  /\ mq[m] \in MotionType /\ (m \in ms => mq[m].to_be_deleted)
             /\ mq[m].start = mo[m].start /\ mq[m].index = mo[m].index
             /\ mq[m].at = mo[m].at /\ mq[m].last_x = mo[m].last_x
             /\ mq[m].terminated = mo[m].terminated
  <2>1. CASE m \in ms
    <3>1. mq[m] = [mo[m] EXCEPT !.to_be_deleted = TRUE]
      BY <1>4, <2>1
    <3> QED BY <1>2, <1>3, <3>1
  <2>2. CASE m \notin ms
    BY <1>3, <1>4, <2>2
  <2> QED BY <2>1, <2>2
<1>6. mq \in [1..n -> MotionType]
  BY <1>1, <1>5
<1> QED BY <1>4, <1>5, <1>6

LEMMA DeleteFingerView ==
  ASSUME NEW n \in Nat, NEW g \in FingerType(n), NEW h, h = DeleteFinger(g)
  PROVE  /\ h \in FingerType(n) /\ h.recorded = <<>> /\ h.next = NULL
         /\ h.playing = g.playing /\ h.current = g.current
<1>1. <<>> \in Seq(1..n)
  OBVIOUS
<1> QED BY <1>1 DEF DeleteFinger, FingerType

DeletedFinger(h, g, mq, fq, out, p) ==
  /\ FingerOK(mq, h, fq, out, p) /\ Has(h) \subseteq Has(g)
  /\ \A m \in Has(g) : m \in Has(h) \/ m \in fq

(* A finger loses its recorded motions: those that play go on to their     *)
(* end, the others are deleted.                                            *)
LEMMA DeleteFingerOK ==
  ASSUME NEW n \in Nat, NEW g \in FingerType(n), NEW mo \in [1..n -> MotionType], NEW fr, NEW out,
         NEW p, FingerOK(mo, g, fr, out, p),
         NEW ms, \A m \in Has(g) : m \in ms => m \in ToSet(g.recorded), ToSet(g.recorded) \subseteq ms,
         NEW mq, mq = Designating(mo, ms \ Idle(mo, ms)),
         NEW fq, fq = fr \cup Idle(mo, ms), NEW h, h = DeleteFinger(g)
  PROVE  DeletedFinger(h, g, mq, fq, out, p)
<1>1. /\ RecordedOK(mo, g) /\ PlayingOK(mo, g, out) /\ Has(g) \cap fr = {} /\ (~p => g.playing = <<>>)
  BY DEF FingerOK
<1>2. /\ h.recorded = <<>> /\ h.next = NULL /\ h.playing = g.playing /\ h.current = g.current
  BY DeleteFingerView
<1>3. ToSet(h.recorded) = {} /\ Len(h.recorded) = 0 /\ DOMAIN h.recorded = {}
  <2>1. DOMAIN <<>> = {} /\ Len(<<>>) = 0
    OBVIOUS
  <2> QED BY <1>2, <2>1 DEF ToSet
<1>4. PICK D : D = ms \ Idle(mo, ms)
  OBVIOUS
<1>5. /\ \A m \in (1..n) \ D : mq[m] = mo[m]
      /\ \A m \in (1..n) \cap D : mq[m].to_be_deleted
      /\ \A m \in 1..n : mq[m].index = mo[m].index
  BY <1>4, DesignatingView
<1>6. /\ ToSet(g.recorded) \subseteq 1..n /\ ToSet(g.playing) \subseteq 1..n
      /\ g.current \in (1..n) \cup {NULL} /\ Has(g) \subseteq 1..n
  BY FingerMotions DEF FingerType
<1>7. g.current # NULL => g.current \notin ms
  BY <1>1, HasParts DEF RecordedOK
<1>8. RecordedOK(mq, h)
  <2>1. g.current # NULL => mq[g.current] = mo[g.current]
    BY <1>4, <1>5, <1>6, <1>7
  <2> QED BY <1>1, <1>2, <1>3, <2>1 DEF RecordedOK, IsInjective
<1>9. PlayingOK(mq, h, out)
  <2> SUFFICES ASSUME NEW m \in ToSet(g.playing)
               PROVE  mq[m].index # -1 /\ (m = g.current \/ m \in out \/ mq[m].to_be_deleted)
    BY <1>1, <1>2 DEF PlayingOK
  <2>1. mo[m].index # -1 /\ mq[m].index # -1 /\ m \in 1..n
    BY <1>1, <1>5, <1>6 DEF PlayingOK
  <2>2. CASE m \in ToSet(g.recorded)
    <3>1. m \in D
      BY <1>4, <2>1, <2>2 DEF Idle
    <3> QED BY <1>5, <2>1, <3>1
  <2>3. CASE m \notin ToSet(g.recorded)
    <3>1. m \in Has(g)
      BY DEF Has
    <3>2. mq[m] = mo[m]
      BY <1>4, <1>5, <2>1, <2>3, <3>1
    <3> QED BY <1>1, <2>1, <2>3, <3>2 DEF PlayingOK
  <2> QED BY <2>2, <2>3
<1>10. InOrderOf(mq, h)
  BY <1>3 DEF InOrderOf
<1>11. Has(h) = ToSet(g.playing) \cup ({g.current} \ {NULL})
  BY <1>2, <1>3 DEF Has
<1>12. Has(h) \cap fq = {}
  <2> SUFFICES ASSUME NEW m \in Has(h) PROVE m \notin fr /\ m \notin Idle(mo, ms)
    OBVIOUS
  <2>1. m \in Has(g)
    BY <1>11, HasParts
  <2>2. m \notin Idle(mo, ms)
    BY <1>1, <1>7, <1>11 DEF PlayingOK, Idle
  <2> QED BY <1>1, <2>1, <2>2
<1>13. \A m \in Has(g) : m \in Has(h) \/ m \in fq
  <2> SUFFICES ASSUME NEW m \in ToSet(g.recorded), m \notin ToSet(g.playing) PROVE m \in Idle(mo, ms)
    BY <1>11 DEF Has
  <2> QED BY <1>1 DEF RecordedOK, Idle
<1>14. Has(h) \subseteq Has(g)
  BY <1>11, HasParts
<1> QED BY <1>1, <1>2, <1>8, <1>9, <1>10, <1>12, <1>13, <1>14 DEF FingerOK, DeletedFinger

DeletingSession(d) ==
  [d EXCEPT !.to_be_deleted = TRUE, !.finger = [f \in Fingers |-> DeleteFinger(d.finger[f])]]

SessionGoes(q, o, n, k, S, out, c, s) ==
  /\ ObjectsInv(q, n, k, S, out, c) /\ q.session[s].to_be_deleted
  /\ \A r \in (1..k) \ {s} : q.session[r] = o.session[r]

(* A session that is deleted, by internal_clear_pad or when recording is   *)
(* switched on.                                                            *)
LEMMA DeleteSessionStep ==
  ASSUME NEW n \in Nat, NEW k \in Nat, NEW S \in SUBSET (1..k), NEW out, NEW c,
         NEW o, ObjectsInv(o, n, k, S, out, c), NEW s \in S, NEW q, q = DeleteSession(o, s)
  PROVE  SessionGoes(q, o, n, k, S, out, c, s)
<1>1. o \in ObjectsType(n, k) /\ s \in 1..k /\ IndexOK(o) /\ SoundOK(o, S, c) /\ MotionsApart(o, S)
  BY DEF ObjectsInv
<1>2. /\ o.session \in [1..k -> SessionType(n)] /\ o.motion \in [1..n -> MotionType]
      /\ o.freed \in SUBSET (1..n)
      /\ o = [session |-> o.session, motion |-> o.motion, freed |-> o.freed, sound |-> o.sound]
  BY <1>1 DEF ObjectsType
<1>3. PICK d : d = o.session[s]
  OBVIOUS
<1>4. PICK ms : ms = RecordedIn(d)
  OBVIOUS
<1>5. PICK mq : mq = Designating(o.motion, ms \ Idle(o.motion, ms))
  OBVIOUS
<1>6. PICK fq : fq = o.freed \cup Idle(o.motion, ms)
  OBVIOUS
<1>7. PICK d2 : d2 = DeletingSession(d)
  OBVIOUS
<1>8. q = [session |-> [o.session EXCEPT ![s] = d2], motion |-> mq, freed |-> fq, sound |-> o.sound]
  <2>1. q = [DeleteMotions(o, ms) EXCEPT !.session[s] = d2]
    BY <1>3, <1>4, <1>7 DEF DeleteSession, RecordedIn, DeletingSession
  <2>2. DeleteMotions(o, ms) = [o EXCEPT !.freed = fq, !.motion = mq]
    BY <1>5, <1>6 DEF DeleteMotions, Idle, Designating
  <2>3. PICK o1 : o1 = DeleteMotions(o, ms)
    OBVIOUS
  <2>4. o1 = [session |-> o.session, motion |-> mq, freed |-> fq, sound |-> o.sound]
    BY <1>2, <2>2, <2>3
  <2> QED BY <2>1, <2>3, <2>4
<1>9. d \in SessionType(n) /\ \A f \in Fingers : d.finger[f] \in FingerType(n)
  BY <1>1, <1>2, <1>3 DEF SessionType
<1>10. ms \subseteq 1..n
  BY <1>4, <1>9, FingerMotions DEF RecordedIn
<1>11. /\ d2 \in SessionType(n) /\ d2.to_be_deleted /\ d2.in_play = d.in_play
       /\ \A f \in Fingers : d2.finger[f] = DeleteFinger(d.finger[f])
  <2>1. PICK fs : fs = [f \in Fingers |-> DeleteFinger(d.finger[f])]
    OBVIOUS
  <2>2. fs \in [Fingers -> FingerType(n)]
    BY <1>9, <2>1, DeleteFingerView
  <2>3. d2 = [d EXCEPT !.to_be_deleted = TRUE, !.finger = fs]
    BY <1>7, <2>1 DEF DeletingSession
  <2>4. d2 \in SessionType(n) /\ d2.to_be_deleted = TRUE /\ d2.in_play = d.in_play /\ d2.finger = fs
    BY <1>9, <2>2, <2>3 DEF SessionType
  <2> QED BY <2>1, <2>4
<1>12. /\ q.session[s] = d2 /\ \A r \in (1..k) \ {s} : q.session[r] = o.session[r]
       /\ q.motion = mq /\ q.freed = fq /\ q.sound = o.sound
       /\ q.session \in [1..k -> SessionType(n)]
  BY <1>1, <1>2, <1>8, <1>11
<1>13. PICK D : D = ms \ Idle(o.motion, ms)
  OBVIOUS
<1>14. /\ mq \in [1..n -> MotionType]
       /\ \A m \in (1..n) \ D : mq[m] = o.motion[m]
       /\ \A m \in 1..n : /\ mq[m].start = o.motion[m].start /\ mq[m].index = o.motion[m].index
                          /\ mq[m].at = o.motion[m].at /\ mq[m].last_x = o.motion[m].last_x
                          /\ mq[m].terminated = o.motion[m].terminated
  BY <1>2, <1>5, <1>13, DesignatingView
<1>15. q \in ObjectsType(n, k)
  <2>1. fq \in SUBSET (1..n)
    BY <1>2, <1>6, <1>10 DEF Idle
  <2>2. q = [session |-> q.session, motion |-> mq, freed |-> fq, sound |-> o.sound]
    BY <1>8
  <2> QED BY <1>1, <1>12, <1>14, <2>1, <2>2 DEF ObjectsType
<1>16. \A m \in ms : \E f \in Fingers : m \in ToSet(d.finger[f].recorded) /\ m \in Has(d.finger[f])
  BY <1>4 DEF RecordedIn, Has
<1>17. ASSUME NEW f \in Fingers
       PROVE  DeletedFinger(d2.finger[f], d.finger[f], mq, fq, out, d.in_play)
  <2>1. FingerOK(o.motion, d.finger[f], o.freed, out, d.in_play)
    BY <1>3 DEF ObjectsInv, FingersOK
  <2>2. \A m \in Has(d.finger[f]) : m \in ms => m \in ToSet(d.finger[f].recorded)
    <3> SUFFICES ASSUME NEW m \in Has(d.finger[f]), m \in ms PROVE m \in ToSet(d.finger[f].recorded)
      OBVIOUS
    <3>1. PICK e \in Fingers : m \in ToSet(d.finger[e].recorded) /\ m \in Has(d.finger[e])
      BY <1>16
    <3>2. e = f
      BY <1>1, <1>3, <3>1, HasOne
    <3> QED BY <3>1, <3>2
  <2>3. ToSet(d.finger[f].recorded) \subseteq ms
    BY <1>4 DEF RecordedIn
  <2>4. d.finger[f] \in FingerType(n) /\ d2.finger[f] = DeleteFinger(d.finger[f])
    BY <1>9, <1>11
  <2> QED BY <1>2, <1>5, <1>6, <2>1, <2>2, <2>3, <2>4, DeleteFingerOK
<1>18. \A f \in Fingers : /\ FingerOK(mq, d2.finger[f], fq, out, d.in_play)
                          /\ Has(d2.finger[f]) \subseteq Has(d.finger[f])
                          /\ \A m \in Has(d.finger[f]) : m \in Has(d2.finger[f]) \/ m \in fq
  BY <1>17 DEF DeletedFinger
<1>19. FingersOK(q, S, out)
  <2> SUFFICES ASSUME NEW r \in S, NEW e \in Fingers
               PROVE  FingerOK(q.motion, q.session[r].finger[e], q.freed, out, q.session[r].in_play)
    BY DEF FingersOK
  <2>1. CASE r = s
    BY <1>11, <1>12, <1>18, <2>1
  <2>2. CASE r # s
    <3>1. PICK g : g = o.session[r].finger[e]
      OBVIOUS
    <3>2. r \in (1..k) \ {s}
      BY <2>2
    <3>3. q.session[r].finger[e] = g /\ q.session[r].in_play = o.session[r].in_play
      BY <1>12, <3>1, <3>2
    <3>4. FingerOK(o.motion, g, o.freed, out, o.session[r].in_play)
      BY <3>1 DEF ObjectsInv, FingersOK
    <3>5. g \in FingerType(n)
      BY <1>2, <3>1 DEF SessionType
    <3>6. \A m \in Has(g) : m \notin ms
      <4> SUFFICES ASSUME NEW m \in Has(g), m \in ms PROVE FALSE
        OBVIOUS
      <4>1. PICK f \in Fingers : m \in Has(d.finger[f])
        BY <1>16
      <4> QED BY <1>1, <1>3, <2>2, <3>1, <4>1, HasOne
    <3>7. Has(g) \cap fq = {}
      BY <1>6, <3>4, <3>6 DEF FingerOK, Idle
    <3>8. Has(g) \subseteq (1..n) \ D
      BY <1>13, <3>5, <3>6, FingerMotions
    <3>9. AlikeFor(o.motion, mq, (1..n) \ D)
      BY <1>14 DEF AlikeFor
    <3>10. FingerOK(mq, g, fq, out, o.session[r].in_play)
      BY <3>4, <3>5, <3>7, <3>8, <3>9, FingerAlike
    <3> QED BY <1>12, <3>3, <3>10
  <2> QED BY <2>1, <2>2
<1>20. \A r \in S, e \in Fingers : Has(q.session[r].finger[e]) \subseteq Has(o.session[r].finger[e])
  <2> SUFFICES ASSUME NEW r \in S, NEW e \in Fingers
               PROVE  Has(q.session[r].finger[e]) \subseteq Has(o.session[r].finger[e])
    OBVIOUS
  <2>1. CASE r = s
    BY <1>3, <1>12, <1>18, <2>1
  <2>2. CASE r # s
    BY <1>12, <2>2
  <2> QED BY <2>1, <2>2
<1>21. MotionsApart(q, S)
  BY <1>1, <1>20, ApartStep
<1>22. Covered(q, S, out)
  <2>1. \A r \in S, e \in Fingers : \A m \in Has(o.session[r].finger[e]) :
           m \in q.freed \/ m \in out \/ (r \in S /\ m \in Has(q.session[r].finger[e]))
    <3> SUFFICES ASSUME NEW r \in S, NEW e \in Fingers, NEW m \in Has(o.session[r].finger[e])
                 PROVE  m \in q.freed \/ m \in Has(q.session[r].finger[e])
      OBVIOUS
    <3>1. CASE r = s
      BY <1>3, <1>12, <1>18, <3>1
    <3>2. CASE r # s
      BY <1>12, <3>2
    <3> QED BY <3>1, <3>2
  <2>2. Covered(o, S, out)
    BY DEF ObjectsInv
  <2>3. DOMAIN q.motion = DOMAIN o.motion /\ o.freed \subseteq q.freed
    BY <1>2, <1>6, <1>12, <1>14
  <2> QED BY <2>1, <2>2, <2>3, CoveredStep
<1>23. \A m \in 1..n : Ended(mq[m]) <=> Ended(o.motion[m])
  BY <1>14 DEF Ended
<1>24. ASSUME NEW r \in S, NEW e \in Fingers
       PROVE  /\ q.session[r].finger[e].playing = o.session[r].finger[e].playing
              /\ q.session[r].finger[e].current = o.session[r].finger[e].current
  <2>1. CASE r = s
    <3>1. d2.finger[e].playing = d.finger[e].playing /\ d2.finger[e].current = d.finger[e].current
      BY <1>9, <1>11, DeleteFingerView
    <3> QED BY <1>3, <1>12, <2>1, <3>1
  <2>2. CASE r # s
    BY <1>12, <2>2
  <2> QED BY <2>1, <2>2
<1>25. \A m \in 1..n : Plays(o, S, m) => Plays(q, S, m)
  BY <1>24 DEF Plays
<1>26. SoundOK(q, S, c)
  <2>1. \A e \in q.sound : e[1] \notin c.cut /\ Plays(o, S, e[1]) /\ ~Ended(o.motion[e[1]]) =>
           /\ q.motion[e[1]].last_x = o.motion[e[1]].last_x
           /\ ~Ended(q.motion[e[1]]) /\ Plays(q, S, e[1])
    BY <1>1, <1>12, <1>14, <1>23, <1>25, PlaysType
  <2> QED BY <1>1, <1>12, <2>1, SoundKept
<1>27. IndexOK(q)
  <2>1. DOMAIN q.motion = 1..n /\ DOMAIN o.motion = 1..n
    BY <1>2, <1>12, <1>14
  <2> QED BY <1>1, <1>12, <1>14, <2>1 DEF IndexOK
<1>28. HeldOK(q, S, c)
  <2> SUFFICES ASSUME NEW r \in S, NEW e \in Fingers
               PROVE  HeldBy(q.motion, q.session[r].finger[e], r, e, c)
    BY DEF HeldOK
  <2>1. HeldBy(o.motion, o.session[r].finger[e], r, e, c)
    BY DEF ObjectsInv, HeldOK
  <2>2. ToSet(o.session[r].finger[e].playing) \subseteq 1..n
    BY <1>2, FingerMotions DEF SessionType
  <2> QED BY <1>12, <1>14, <1>24, <2>1, <2>2, HeldAlike
<1> QED BY <1>11, <1>12, <1>15, <1>19, <1>21, <1>22, <1>26, <1>27, <1>28 DEF ObjectsInv, SessionGoes

-----------------------------------------------------------------------------
(* Terminating a session                                                   *)

LEMMA OneTickView ==
  ASSUME NEW at \in Seq(PositionType)
  PROVE  AtLeastOneTick(at) \in Seq(PositionType) /\ Len(AtLeastOneTick(at)) = Len(at)
<1>1. PICK n : n = Len(at)
  OBVIOUS
<1>2. n \in Nat
  BY <1>1
<1>3. CASE n > 1 /\ at[n].t = at[1].t
  <2>1. n \in 1..Len(at)
    BY <1>1, <1>2, <1>3
  <2>2. at[n] \in PositionType /\ at[n].t \in Int
    <3>1. at[n] \in PositionType
      BY <2>1
    <3> QED BY <3>1 DEF PositionType
  <2>3. PICK pos : pos = [at[n] EXCEPT !.t = @ + 1]
    OBVIOUS
  <2>4. pos \in PositionType
    <3>1. at[n].t + 1 \in Int
      BY <2>2
    <3> QED BY <2>2, <2>3, <3>1 DEF PositionType
  <2>5. AtLeastOneTick(at) = [at EXCEPT ![n] = pos]
    BY <1>1, <1>3, <2>3 DEF AtLeastOneTick
  <2> QED BY <2>1, <2>4, <2>5
<1>4. CASE ~(n > 1 /\ at[n].t = at[1].t)
  BY <1>1, <1>4 DEF AtLeastOneTick
<1> QED BY <1>3, <1>4

TerminatedFrom(q, p) ==
  /\ q \in MotionType /\ q.start = p.start /\ q.to_be_deleted = p.to_be_deleted
  /\ q.index = p.index /\ q.last_x = p.last_x /\ Len(q.at) = Len(p.at)
  /\ q.terminated = TRUE

LEMMA TerminatedView ==
  ASSUME NEW p \in MotionType
  PROVE  TerminatedFrom(Terminated(p), p)
<1>1. PICK at : at = AtLeastOneTick(p.at)
  OBVIOUS
<1>2. at \in Seq(PositionType) /\ Len(at) = Len(p.at)
  BY <1>1, OneTickView DEF MotionType
<1>3. PICK q : q = Terminated(p)
  OBVIOUS
<1>4. q = [p EXCEPT !.terminated = TRUE, !.at = at]
  BY <1>1, <1>3 DEF Terminated
<1>5. TRUE \in BOOLEAN
  OBVIOUS
<1>6. /\ q \in MotionType /\ q.start = p.start /\ q.to_be_deleted = p.to_be_deleted
      /\ q.index = p.index /\ q.last_x = p.last_x /\ q.at = at /\ q.terminated = TRUE
  BY <1>2, <1>4, <1>5 DEF MotionType
<1> QED BY <1>2, <1>3, <1>6 DEF TerminatedFrom

Currents(d) == {d.finger[f].current : f \in Fingers}

Terminating(mo, X) == [m \in DOMAIN mo |-> IF m \in X THEN Terminated(mo[m]) ELSE mo[m]]

TerminatedSession(d) == [d EXCEPT !.terminated = TRUE]

SessionStops(q, o, n, k, S, out, c, s) ==
  /\ ObjectsInv(q, n, k, S, out, c) /\ q.session[s].terminated
  /\ q.session[s].to_be_deleted = o.session[s].to_be_deleted
  /\ \A r \in (1..k) \ {s} : q.session[r] = o.session[r]

(* A session that is terminated when recording stops: the motions of its   *)
(* fingers have no last position, unless they were released before.        *)
LEMMA TerminateSessionStep ==
  ASSUME NEW n \in Nat, NEW k \in Nat, NEW S \in SUBSET (1..k), NEW out, NEW c,
         NEW o, ObjectsInv(o, n, k, S, out, c), NEW s \in S,
         \A m \in Currents(o.session[s]) : m \in 1..n /\ ~o.motion[m].terminated => m \in c.cut,
         NEW q, q = TerminateSession(o, s)
  PROVE  SessionStops(q, o, n, k, S, out, c, s)
<1>1. o \in ObjectsType(n, k) /\ s \in 1..k /\ IndexOK(o) /\ SoundOK(o, S, c)
  BY DEF ObjectsInv
<1>2. /\ o.session \in [1..k -> SessionType(n)] /\ o.motion \in [1..n -> MotionType]
      /\ o = [session |-> o.session, motion |-> o.motion, freed |-> o.freed, sound |-> o.sound]
  BY <1>1 DEF ObjectsType
<1>3. PICK d : d = o.session[s]
  OBVIOUS
<1>4. d \in SessionType(n)
  BY <1>1, <1>2, <1>3
<1>5. PICK d2 : d2 = TerminatedSession(d)
  OBVIOUS
<1>6. /\ d2 \in SessionType(n) /\ d2.terminated = TRUE /\ d2.to_be_deleted = d.to_be_deleted
      /\ d2.in_play = d.in_play /\ d2.finger = d.finger
  BY <1>4, <1>5 DEF SessionType, TerminatedSession
<1>7. PICK X : X = Currents(d)
  OBVIOUS
<1>8. PICK mq : mq = Terminating(o.motion, X)
  OBVIOUS
<1>9. PICK o1 : o1 = [session |-> o.session, motion |-> mq, freed |-> o.freed, sound |-> o.sound]
  OBVIOUS
<1>10. q = WithSession(o1, s, d2)
  <2>1. X = {o.session[s].finger[f].current : f \in Fingers}
    BY <1>3, <1>7 DEF Currents
  <2>2. q = [o EXCEPT !.session[s].terminated = TRUE, !.motion = mq]
    BY <1>8, <2>1 DEF TerminateSession, Terminating
  <2>3. q = [o EXCEPT !.session[s] = d2, !.motion = mq]
    BY <1>3, <1>5, <2>2 DEF TerminatedSession
  <2>4. q = [session |-> [o.session EXCEPT ![s] = d2], motion |-> mq, freed |-> o.freed,
             sound |-> o.sound]
    BY <1>2, <2>3
  <2> QED BY <1>9, <2>4 DEF WithSession
<1>11. /\ mq = [m \in 1..n |-> IF m \in X THEN Terminated(o.motion[m]) ELSE o.motion[m]]
       /\ \A m \in 1..n : mq[m] = IF m \in X THEN Terminated(o.motion[m]) ELSE o.motion[m]
  BY <1>2, <1>8 DEF Terminating
<1>12. ASSUME NEW m \in 1..n
       PROVE  /\ mq[m] \in MotionType /\ mq[m].start = o.motion[m].start
              /\ mq[m].to_be_deleted = o.motion[m].to_be_deleted
              /\ mq[m].index = o.motion[m].index /\ mq[m].last_x = o.motion[m].last_x
              /\ Len(mq[m].at) = Len(o.motion[m].at)
              /\ m \notin c.cut => mq[m].terminated = o.motion[m].terminated
              /\ o.motion[m].terminated => mq[m].terminated
  <2>1. o.motion[m] \in MotionType
    BY <1>2
  <2>2. CASE m \in X
    <3>1. TerminatedFrom(mq[m], o.motion[m])
      BY <1>11, <2>1, <2>2, TerminatedView
    <3>2. m \notin c.cut => o.motion[m].terminated = TRUE
      BY <1>3, <1>7, <2>1, <2>2 DEF MotionType
    <3> QED BY <3>1, <3>2 DEF TerminatedFrom
  <2>3. CASE m \notin X
    BY <1>11, <2>1, <2>3
  <2> QED BY <2>2, <2>3
<1>13. mq \in [1..n -> MotionType]
  BY <1>11, <1>12
<1>14. /\ o1 \in ObjectsType(n, k) /\ o1.session = o.session /\ o1.freed = o.freed
       /\ o1.motion = mq /\ o1.sound = o.sound
  BY <1>1, <1>2, <1>9, <1>13 DEF ObjectsType
<1>15. AlikeFor(o.motion, o1.motion, 1..n)
  BY <1>12, <1>14 DEF AlikeFor
<1>16. IndexOK(o1)
  <2>1. DOMAIN o1.motion = 1..n /\ DOMAIN o.motion = 1..n
    BY <1>2, <1>13, <1>14
  <2> QED BY <1>1, <1>12, <1>14, <2>1 DEF IndexOK
<1>17. SoundOK(o1, S, c)
  <2>1. \A m \in 1..n : m \notin c.cut => (Ended(mq[m]) <=> Ended(o.motion[m]))
    BY <1>12 DEF Ended
  <2>2. \A m : Plays(o, S, m) => Plays(o1, S, m)
    BY <1>14 DEF Plays
  <2>3. \A e \in o1.sound : e[1] \notin c.cut /\ Plays(o, S, e[1]) /\ ~Ended(o.motion[e[1]]) =>
          /\ o1.motion[e[1]].last_x = o.motion[e[1]].last_x
          /\ ~Ended(o1.motion[e[1]]) /\ Plays(o1, S, e[1])
    BY <1>1, <1>12, <1>14, <2>1, <2>2, PlaysType
  <2> QED BY <1>1, <1>14, <2>3, SoundKept
<1>18. ObjectsInv(o1, n, k, S, out, c)
  BY <1>14, <1>15, <1>16, <1>17, MotionsStep, HeldKept
<1>19. \A f \in Fingers : FingerOK(o.motion, d.finger[f], o.freed, out, d.in_play)
  BY <1>3 DEF ObjectsInv, FingersOK
<1>20. /\ \A f \in Fingers : SameLists(d2.finger[f], o1.session[s].finger[f])
       /\ ~d2.in_play => \A f \in Fingers : d2.finger[f].playing = <<>>
  BY <1>3, <1>6, <1>14, <1>19 DEF FingerOK, RecordedOK, SameLists
<1>21. SessionSet(q, o1, n, k, S, out, c, s, d2)
  BY <1>6, <1>10, <1>18, <1>20, SessionUpdate
<1> QED BY <1>3, <1>6, <1>14, <1>21 DEF SessionSet, SessionStops

(* No session is the current one any more. The motions that it was the     *)
(* current one of are cut, unless they were terminated.                    *)
LEMMA LetGo ==
  ASSUME NEW n \in Nat, NEW k \in Nat, NEW S \in SUBSET (1..k), NEW out, NEW o,
         NEW x, NEW y, x \subseteq y, NEW w, NEW fs, NEW gs,
         ObjectsInv(o, n, k, S, out, Hands(x, w, fs)),
         w # NULL => \A f \in Fingers : \A m \in 1..n :
           m = o.session[w].finger[f].current /\ ~o.motion[m].terminated => m \in y
  PROVE  ObjectsInv(o, n, k, S, out, Hands(y, NULL, gs))
<1>1. PICK c : c = Hands(x, w, fs)
  OBVIOUS
<1>2. PICK d : d = Hands(y, NULL, gs)
  OBVIOUS
<1>3. c.cut = x /\ c.current = w /\ d.cut = y
  BY <1>1, <1>2 DEF Hands
<1>4. SoundOK(o, S, d)
  BY <1>1, <1>3 DEF ObjectsInv, SoundOK
<1>5. HeldOK(o, S, d)
  <2> SUFFICES ASSUME NEW s \in S, NEW f \in Fingers, NEW m \in ToSet(o.session[s].finger[f].playing),
                      ~o.motion[m].terminated, m \notin y
               PROVE  FALSE
    BY <1>3 DEF HeldOK, HeldBy
  <2>1. m = o.session[s].finger[f].current /\ s = w
    BY <1>1, <1>3 DEF ObjectsInv, HeldOK, HeldBy
  <2>2. m \in 1..n
    BY FingerMotions DEF ObjectsInv, ObjectsType, SessionType
  <2>3. s # NULL
    BY PadAssumption
  <2> QED BY <2>1, <2>2, <2>3
<1> QED BY <1>1, <1>2, <1>4, <1>5 DEF ObjectsInv

(* So it is when the pad is cleared or recording is switched.              *)
LEMMA HeldLetGo ==
  ASSUME NEW n \in Nat, NEW k \in Nat, StateOf(n, k), SessionsInv, NEW x, x = cut \cup HeldMotions
  PROVE  ObjectsInv(Objects, n, k, sessions, lost, Hands(x, NULL, pressed))
<1>1. PICK o : o = Objects
  OBVIOUS
<1>2. /\ ObjectsInv(o, n, k, sessions, lost, Hands(cut, current_session, pressed))
      /\ sessions \in SUBSET (1..k) /\ o.session = session /\ o.motion = motion
  BY <1>1 DEF StateOf, Objects
<1>3. \A m \in 1..n : m # NULL
  BY PadAssumption
<1>4. current_session # NULL => \A f \in Fingers : \A m \in 1..n :
        m = o.session[current_session].finger[f].current /\ ~o.motion[m].terminated => m \in x
  BY <1>2, <1>3 DEF HeldMotions
<1> QED BY <1>1, <1>2, <1>4, LetGo

LEMMA SetRecordStep ==
  ASSUME PadInv, NEW b \in BOOLEAN, SetRecord(b)
  PROVE  PadInv'
<1>1. PICK n \in Nat, k \in Nat : n = Len(motion) /\ k = Len(session) /\ StateOf(n, k)
  BY PadInvView
<1>2. /\ ~hung /\ do_record' = b /\ current_session' = NULL
      /\ tick' = tick /\ mute' = mute /\ do_quantize' = do_quantize /\ sessions' = sessions
      /\ hung' = hung /\ lost' = lost /\ pressed' = pressed
  BY DEF SetRecord, Operation
<1>3. /\ tick \in Int /\ mute \in BOOLEAN /\ do_record \in BOOLEAN /\ do_quantize \in BOOLEAN
      /\ SessionsInv
  BY DEF PadInv
<1>4. PICK o : o = Objects
  OBVIOUS
<1>5. PICK c : c = Hands(cut \cup HeldMotions, NULL, pressed)
  OBVIOUS
<1>6. /\ ObjectsInv(o, n, k, sessions, lost, c) /\ sessions \in SUBSET (1..k)
      /\ o.session = session /\ o.motion = motion /\ c.cut = cut \cup HeldMotions
  <2>1. ObjectsInv(Objects, n, k, sessions, lost, c)
    BY <1>1, <1>3, <1>5, HeldLetGo
  <2> QED BY <1>1, <1>4, <1>5, <2>1 DEF StateOf, Objects, Hands
<1>7. cut' = cut \cup HeldMotions
  <2>1. current_session = NULL => HeldMotions = {}
    BY DEF HeldMotions
  <2> QED BY <2>1 DEF SetRecord
<1>8. c = Hands(cut', current_session', pressed')
  BY <1>2, <1>5, <1>7
<1>9. ExportReturns'
  BY <1>2 DEF ExportReturns
<1>10. StateOf(n, k)' /\ SessionsInv'
  <2>1. CASE current_session = NULL
    <3>1. session' = session /\ motion' = motion /\ freed' = freed /\ sound' = sound
      BY <2>1 DEF SetRecord
    <3>2. StateOf(n, k)'
      <4>1. Objects' = o
        BY <1>4, <3>1 DEF Objects
      <4>2. ObjectsInv(o, n, k, sessions', lost', c) /\ sessions' \in SUBSET (1..k)
        BY <1>2, <1>6
      <4> QED BY <1>8, <4>1, <4>2, ObjectsNext
    <3>3. SessionsInv'
      BY <1>2, <1>3, <2>1, <3>1 DEF SessionsInv
    <3> QED BY <3>2, <3>3
  <2>2. CASE current_session # NULL
    <3>1. PICK s \in sessions : s = current_session
      BY <1>3, <2>2 DEF SessionsInv
    <3>2. \A r \in sessions \ {s} : session[r].terminated \/ session[r].to_be_deleted
      BY <1>3, <3>1 DEF SessionsInv
    <3>3. CASE do_record
      <4>1. PICK q : q = TerminateSession(o, s)
        OBVIOUS
      <4>2. SetObjects(q)
        BY <1>4, <2>2, <3>1, <3>3, <4>1 DEF SetRecord
      <4>3. \A m \in Currents(o.session[s]) : m \in 1..n /\ ~o.motion[m].terminated => m \in c.cut
        BY <1>6, <3>1, <2>2, PadAssumption DEF Currents, HeldMotions
      <4>4. SessionStops(q, o, n, k, sessions, lost, c, s)
        BY <1>6, <4>1, <4>3, TerminateSessionStep
      <4>5. ObjectsInv(q, n, k, sessions', lost', c) /\ sessions' \in SUBSET (1..k)
        BY <1>2, <1>6, <4>4 DEF SessionStops
      <4>6. StateOf(n, k)' /\ \A r \in sessions' : session'[r] = q.session[r]
        BY <1>8, <4>2, <4>5, SetObjectsStep
      <4>7. SessionsInv'
        BY <1>2, <1>6, <3>2, <4>4, <4>6 DEF SessionsInv, SessionStops
      <4> QED BY <4>6, <4>7
    <3>4. CASE ~do_record
      <4>1. PICK q : q = DeleteSession(o, s)
        OBVIOUS
      <4>2. SetObjects(q)
        BY <1>4, <2>2, <3>1, <3>4, <4>1 DEF SetRecord
      <4>3. SessionGoes(q, o, n, k, sessions, lost, c, s)
        BY <1>6, <4>1, DeleteSessionStep
      <4>4. ObjectsInv(q, n, k, sessions', lost', c) /\ sessions' \in SUBSET (1..k)
        BY <1>2, <1>6, <4>2, <4>3 DEF SessionGoes
      <4>5. StateOf(n, k)' /\ \A r \in sessions' : session'[r] = q.session[r]
        BY <1>8, <4>2, <4>4, SetObjectsStep
      <4>6. SessionsInv'
        BY <1>2, <1>6, <3>2, <4>3, <4>5 DEF SessionsInv, SessionGoes
      <4> QED BY <4>5, <4>6
    <3> QED BY <3>3, <3>4
  <2> QED BY <2>1, <2>2
<1> QED BY <1>2, <1>3, <1>9, <1>10, PadInvNext

(* SetMute, SetQuantize, and a step that changes nothing.                  *)
LEMMA QuietStep ==
  ASSUME PadInv, UNCHANGED <<tick, do_record, current_session, object_vars, hung, pressed, seen_vars>>,
         mute' \in BOOLEAN, do_quantize' \in BOOLEAN
  PROVE  PadInv'
<1>1. PICK n \in Nat, k \in Nat : n = Len(motion) /\ k = Len(session) /\ StateOf(n, k)
  BY PadInvView
<1>2. /\ tick' = tick /\ do_record' = do_record /\ pressed' = pressed
      /\ current_session' = current_session /\ sessions' = sessions /\ session' = session
      /\ motion' = motion /\ freed' = freed /\ sound' = sound /\ hung' = hung
      /\ lost' = lost /\ cut' = cut
  BY DEF object_vars, seen_vars
<1>3. StateOf(n, k)'
  BY <1>1, <1>2 DEF StateOf, Objects
<1>4. SessionsInv'
  BY <1>2 DEF SessionsInv, PadInv
<1>5. ExportReturns'
  BY <1>2 DEF ExportReturns, Exported, Mixed, PadInv
<1>6. tick' \in Int /\ do_record' \in BOOLEAN
  BY <1>2 DEF PadInv
<1> QED BY <1>3, <1>4, <1>5, <1>6, PadInvNext

-----------------------------------------------------------------------------
(* Pad::reset, alone and in export_to_loop                                 *)

FromTheTopOf(h, g, n) ==
  /\ h \in FingerType(n) /\ h.recorded = g.recorded /\ h.current = g.current /\ h.mixed = g.mixed
  /\ h.playing = <<>> /\ (h.next = NULL \/ h.next \in ToSet(h.recorded))

LEMMA FromTheTopView ==
  ASSUME NEW n \in Nat, NEW g \in FingerType(n)
  PROVE  FromTheTopOf(FromTheTop(g), g, n)
<1>1. PICK x : x = FirstOf(g.recorded)
  OBVIOUS
<1>2. PICK h : h = FromTheTop(g)
  OBVIOUS
<1>3. x = NULL \/ x \in ToSet(g.recorded)
  <2>1. g.recorded \in Seq(1..n)
    BY DEF FingerType
  <2>2. CASE g.recorded = <<>>
    BY <1>1, <2>2 DEF FirstOf
  <2>3. CASE g.recorded # <<>>
    <3>1. 1 \in 1..Len(g.recorded) /\ Head(g.recorded) = g.recorded[1]
      BY <2>1, <2>3
    <3> QED BY <1>1, <2>1, <2>3, <3>1, ToSetView DEF FirstOf
  <2> QED BY <2>2, <2>3
<1>4. h = [g EXCEPT !.next = x, !.playing = <<>>]
  BY <1>1, <1>2 DEF FromTheTop
<1>5. x \in (1..n) \cup {NULL} /\ <<>> \in Seq(1..n)
  BY <1>3, FingerMotions
<1>6. /\ h \in FingerType(n) /\ h.recorded = g.recorded /\ h.current = g.current /\ h.mixed = g.mixed
      /\ h.playing = <<>> /\ h.next = x
  BY <1>4, <1>5 DEF FingerType
<1> QED BY <1>2, <1>3, <1>6 DEF FromTheTopOf

ResetSession(d) ==
  [d EXCEPT !.in_play = FALSE, !.position = -1,
            !.finger = [f \in Fingers |-> FromTheTop(d.finger[f])]]

ResetOf(e, d, n) ==
  /\ e \in SessionType(n) /\ e.in_play = FALSE /\ e.start = d.start
  /\ e.terminated = d.terminated /\ e.to_be_deleted = d.to_be_deleted
  /\ \A f \in Fingers : FromTheTopOf(e.finger[f], d.finger[f], n)

LEMMA ResetSessionView ==
  ASSUME NEW n \in Nat, NEW d \in SessionType(n)
  PROVE  ResetOf(ResetSession(d), d, n)
<1>1. PICK fs : fs = [f \in Fingers |-> FromTheTop(d.finger[f])]
  OBVIOUS
<1>2. PICK e : e = ResetSession(d)
  OBVIOUS
<1>3. e = [d EXCEPT !.in_play = FALSE, !.position = -1, !.finger = fs]
  BY <1>1, <1>2 DEF ResetSession
<1>4. \A f \in Fingers : FromTheTopOf(fs[f], d.finger[f], n)
  BY <1>1, FromTheTopView DEF SessionType
<1>5. fs \in [Fingers -> FingerType(n)]
  BY <1>1, <1>4 DEF FromTheTopOf
<1>6. -1 \in Int /\ FALSE \in BOOLEAN
  OBVIOUS
<1>7. /\ e \in SessionType(n) /\ e.in_play = FALSE /\ e.start = d.start
      /\ e.terminated = d.terminated /\ e.to_be_deleted = d.to_be_deleted /\ e.finger = fs
  BY <1>3, <1>5, <1>6 DEF SessionType
<1> QED BY <1>2, <1>4, <1>7 DEF ResetOf

(* What reset makes of objects o: the sessions of R start from the top.    *)
PlayingAll(ss, R) == UNION {PlayingIn(ss[s]) : s \in R}

ResetSessions(ss, R) == [s \in DOMAIN ss |-> IF s \notin R THEN ss[s] ELSE ResetSession(ss[s])]

StopMotions(mo, X) == [m \in DOMAIN mo |-> IF m \in X THEN Stopped(mo[m]) ELSE mo[m]]

Resetting(o, R, F, snd) ==
  [session |-> ResetSessions(o.session, R),
   motion  |-> StopMotions(o.motion, PlayingAll(o.session, R)),
   freed   |-> o.freed \cup F,
   sound   |-> snd]

WasReset(q, o, n, k, R, out, c) ==
  /\ ObjectsInv(q, n, k, R, out, c)
  /\ \A s \in R : ResetOf(q.session[s], o.session[s], n)

LEMMA ResettingStep ==
  ASSUME NEW n \in Nat, NEW k \in Nat, NEW S \in SUBSET (1..k), NEW out, NEW c, NEW c2,
         NEW o, ObjectsInv(o, n, k, S, out, c), NEW R \in SUBSET S,
         NEW F, F = UNION {Owned(o.session[s]) : s \in S \ R},
         NEW out2, out \subseteq out2,
         \A s \in S, f \in Fingers : \A m \in ToSet(o.session[s].finger[f].playing) :
           o.motion[m].to_be_deleted => m \in out2,
         NEW snd \in SUBSET o.sound, \A e \in snd : e[1] \in c2.cut,
         NEW q, q = Resetting(o, R, F, snd)
  PROVE  WasReset(q, o, n, k, R, out2, c2)
<1>1. o \in ObjectsType(n, k) /\ IndexOK(o) /\ MotionsApart(o, S) /\ Covered(o, S, out) /\ FingersOK(o, S, out)
  BY DEF ObjectsInv
<1>2. /\ o.session \in [1..k -> SessionType(n)] /\ o.motion \in [1..n -> MotionType]
      /\ o.freed \in SUBSET (1..n) /\ o.sound \in SUBSET ((1..n) \X (Columns \cup {NULL}))
  BY <1>1 DEF ObjectsType
<1>3. PICK X : X = PlayingAll(o.session, R)
  OBVIOUS
<1>4. PICK mq : mq = StopMotions(o.motion, X)
  OBVIOUS
<1>5. PICK tt : tt = ResetSessions(o.session, R)
  OBVIOUS
<1>6. /\ q = [session |-> tt, motion |-> mq, freed |-> o.freed \cup F, sound |-> snd]
      /\ mq = [m \in 1..n |-> IF m \in X THEN Stopped(o.motion[m]) ELSE o.motion[m]]
      /\ tt = [s \in 1..k |-> IF s \notin R THEN o.session[s] ELSE ResetSession(o.session[s])]
  <2>1. q = [session |-> tt, motion |-> mq, freed |-> o.freed \cup F, sound |-> snd]
    BY <1>3, <1>4, <1>5 DEF Resetting
  <2>2. DOMAIN o.motion = 1..n /\ DOMAIN o.session = 1..k
    BY <1>2
  <2>3. mq = [m \in 1..n |-> IF m \in X THEN Stopped(o.motion[m]) ELSE o.motion[m]]
    BY <1>4, <2>2 DEF StopMotions
  <2>4. tt = [s \in 1..k |-> IF s \notin R THEN o.session[s] ELSE ResetSession(o.session[s])]
    BY <1>5, <2>2 DEF ResetSessions
  <2> QED BY <2>1, <2>3, <2>4
<1>7. q.session = tt /\ q.motion = mq /\ q.freed = o.freed \cup F /\ q.sound = snd
  <2>1. q = [session |-> tt, motion |-> mq, freed |-> o.freed \cup F, sound |-> snd]
    BY <1>6, Zenon
  <2>2. PICK fq : fq = o.freed \cup F
    OBVIOUS
  <2>3. q = [session |-> tt, motion |-> mq, freed |-> fq, sound |-> snd]
    BY <2>1, <2>2, Zenon
  <2>4. q.session = tt /\ q.motion = mq /\ q.freed = fq /\ q.sound = snd
    BY <2>3
  <2> QED BY <2>2, <2>4, Zenon
<1>8. \A s \in R : ResetOf(tt[s], o.session[s], n)
  BY <1>2, <1>6, ResetSessionView
<1>9. tt \in [1..k -> SessionType(n)]
  BY <1>2, <1>6, <1>8 DEF ResetOf
<1>10. ASSUME NEW m \in 1..n
       PROVE  /\ mq[m] \in MotionType /\ mq[m].start = o.motion[m].start
              /\ mq[m].to_be_deleted = o.motion[m].to_be_deleted /\ mq[m].at = o.motion[m].at
              /\ mq[m].terminated = o.motion[m].terminated
              /\ mq[m].index = IF m \in X THEN -1 ELSE o.motion[m].index
  <2>1. o.motion[m] \in MotionType
    BY <1>2
  <2>2. CASE m \in X
    <3>1. mq[m] = Stopped(o.motion[m])
      BY <1>6, <2>2
    <3> QED BY <2>1, <2>2, <3>1, StoppedView
  <2>3. CASE m \notin X
    BY <1>6, <2>1, <2>3
  <2> QED BY <2>2, <2>3
<1>11. mq \in [1..n -> MotionType]
  BY <1>6, <1>10
<1>12. F \subseteq 1..n /\ \A m \in F : \E s \in S \ R, f \in Fingers : m \in Has(o.session[s].finger[f])
  BY <1>2, OwnedView
<1>13. q \in ObjectsType(n, k)
  <2>1. q.freed \in SUBSET (1..n) /\ snd \in SUBSET ((1..n) \X (Columns \cup {NULL}))
    BY <1>2, <1>7, <1>12
  <2> QED BY <1>6, <1>7, <1>9, <1>11, <2>1 DEF ObjectsType
<1>14. IndexOK(q)
  <2>1. DOMAIN q.motion = 1..n /\ DOMAIN o.motion = 1..n
    BY <1>2, <1>7, <1>11
  <2>2. \A m \in 1..n : Len(o.motion[m].at) \in Nat
    <3>1. \A p \in MotionType : p.at \in Seq(PositionType)
      BY DEF MotionType
    <3>2. \A m \in 1..n : o.motion[m].at \in Seq(PositionType)
      BY <1>2, <3>1
    <3> QED BY <3>2
  <2>3. \A m \in 1..n : -1 \in -1..Len(o.motion[m].at)
    BY <2>2
  <2>4. \A m \in 1..n : o.motion[m].index \in -1..Len(o.motion[m].at)
    BY <1>1, <2>1 DEF IndexOK
  <2>5. \A m \in 1..n : mq[m].at = o.motion[m].at /\ (mq[m].index = -1 \/ mq[m].index = o.motion[m].index)
    BY <1>10
  <2>6. \A m \in 1..n : mq[m].index \in -1..Len(mq[m].at)
    BY <2>3, <2>4, <2>5
  <2> QED BY <1>7, <2>1, <2>6 DEF IndexOK
<1>15. \A s \in R, f \in Fingers : FromTheTopOf(q.session[s].finger[f], o.session[s].finger[f], n)
  BY <1>7, <1>8 DEF ResetOf
<1>16. FingersOK(q, R, out2)
  <2> SUFFICES ASSUME NEW s \in R, NEW f \in Fingers
               PROVE  FingerOK(q.motion, q.session[s].finger[f], q.freed, out2, q.session[s].in_play)
    BY DEF FingersOK
  <2>1. PICK g : g = o.session[s].finger[f]
    OBVIOUS
  <2>2. PICK h : h = q.session[s].finger[f]
    OBVIOUS
  <2>3. /\ h \in FingerType(n) /\ h.recorded = g.recorded /\ h.current = g.current /\ h.mixed = g.mixed
        /\ h.playing = <<>> /\ (h.next = NULL \/ h.next \in ToSet(h.recorded))
    BY <1>15, <2>1, <2>2 DEF FromTheTopOf
  <2>4. /\ RecordedOK(o.motion, g) /\ InOrderOf(o.motion, g) /\ Has(g) \cap o.freed = {}
    BY <1>1, <2>1 DEF FingersOK, FingerOK
  <2>5. g \in FingerType(n)
    BY <1>2, <2>1 DEF SessionType
  <2>6. ToSet(g.recorded) \subseteq 1..n /\ Has(g) \subseteq 1..n
    BY <2>5, FingerMotions
  <2>7. ToSet(h.playing) = {}
    BY <2>3 DEF ToSet
  <2>8. \A m \in ToSet(g.playing) : m \in X
    BY <1>3, <2>1 DEF PlayingIn, PlayingAll
  <2>9. \A m \in ToSet(h.recorded) : mq[m].terminated /\ ~mq[m].to_be_deleted /\ mq[m].index = -1
    BY <1>10, <2>3, <2>4, <2>6, <2>8 DEF RecordedOK
  <2>10. RecordedOK(mq, h)
    <3>1. h.current # NULL => ~mq[h.current].to_be_deleted
      BY <1>10, <2>3, <2>4, <2>6, HasParts DEF RecordedOK
    <3> QED BY <2>3, <2>4, <2>7, <2>9, <3>1 DEF RecordedOK
  <2>11. PlayingOK(mq, h, out2)
    <3>1. IsInjective(h.playing)
      BY <2>3 DEF IsInjective
    <3> QED BY <2>7, <3>1 DEF PlayingOK
  <2>12. InOrderOf(mq, h)
    <3>1. \A m \in ToSet(g.recorded) : mq[m].start = o.motion[m].start
      BY <1>10, <2>6
    <3> QED BY <2>3, <2>4, <2>5, <3>1, InOrderAlike
  <2>13. Has(h) \cap q.freed = {}
    <3>1. Has(h) \subseteq Has(g)
      BY <2>3, <2>7 DEF Has
    <3>2. Has(g) \cap F = {}
      <4> SUFFICES ASSUME NEW m \in Has(g), m \in F PROVE FALSE
        OBVIOUS
      <4>1. PICK r \in S \ R, e \in Fingers : m \in Has(o.session[r].finger[e])
        BY <1>12
      <4>2. s \in S /\ r \in S /\ r # s
        OBVIOUS
      <4> QED BY <1>1, <2>1, <4>1, <4>2, HasOne
    <3> QED BY <1>7, <2>4, <3>1, <3>2
  <2> QED BY <1>7, <2>2, <2>3, <2>10, <2>11, <2>12, <2>13 DEF FingerOK
<1>17. MotionsApart(q, R)
  <2>1. \A s \in R, f \in Fingers : Has(q.session[s].finger[f]) \subseteq Has(o.session[s].finger[f])
    <3>1. ASSUME NEW g, NEW h, FromTheTopOf(h, g, n) PROVE Has(h) \subseteq Has(g)
      <4>1. ToSet(h.playing) = {}
        BY <3>1 DEF FromTheTopOf, ToSet
      <4> QED BY <3>1, <4>1 DEF FromTheTopOf, Has
    <3> QED BY <1>15, <3>1
  <2> QED BY <1>1, <2>1, ApartStep
<1>18. Covered(q, R, out2)
  <2>1. DOMAIN q.motion = DOMAIN o.motion /\ o.freed \subseteq q.freed
    BY <1>2, <1>7, <1>11
  <2>2. \A s \in S, f \in Fingers : \A m \in Has(o.session[s].finger[f]) :
           m \in q.freed \/ m \in out2 \/ (s \in R /\ m \in Has(q.session[s].finger[f]))
    <3> SUFFICES ASSUME NEW s \in S, NEW f \in Fingers, NEW m \in Has(o.session[s].finger[f]), m \notin out2
                 PROVE  m \in q.freed \/ (s \in R /\ m \in Has(q.session[s].finger[f]))
      OBVIOUS
    <3>1. PICK g : g = o.session[s].finger[f]
      OBVIOUS
    <3>2. PlayingOK(o.motion, g, out)
      BY <1>1, <3>1 DEF FingersOK, FingerOK
    <3>3. m \in ToSet(g.recorded) \/ m \in {g.current} \ {NULL}
      <4>1. m \in ToSet(g.playing) => m \in ToSet(g.recorded) \/ m = g.current
        BY <3>1, <3>2 DEF PlayingOK
      <4>2. g \in FingerType(n)
        BY <1>2, <3>1 DEF SessionType
      <4>3. m \in 1..n
        BY <3>1, <4>2, FingerMotions
      <4>4. m # NULL
        BY <4>3, PadAssumption
      <4> QED BY <3>1, <4>1, <4>4 DEF Has
    <3>4. CASE s \in R
      <4>1. q.session[s].finger[f].recorded = g.recorded /\ q.session[s].finger[f].current = g.current
        BY <1>15, <3>1, <3>4 DEF FromTheTopOf
      <4> QED BY <3>3, <3>4, <4>1 DEF Has
    <3>5. CASE s \notin R
      <4>1. m \in Owned(o.session[s])
        BY <3>1, <3>3 DEF Owned
      <4>2. s \in S \ R
        BY <3>5
      <4>3. m \in F
        BY <4>1, <4>2
      <4> QED BY <1>7, <4>3
    <3> QED BY <3>4, <3>5
  <2> SUFFICES ASSUME NEW m \in DOMAIN q.motion, m \notin q.freed, m \notin out2
               PROVE  \E s \in R, f \in Fingers : m \in Has(q.session[s].finger[f])
    BY DEF Covered
  <2>3. m \in DOMAIN o.motion /\ m \notin o.freed /\ m \notin out
    BY <2>1
  <2>4. PICK s \in S, f \in Fingers : m \in Has(o.session[s].finger[f])
    BY <1>1, <2>3 DEF Covered
  <2> QED BY <2>2, <2>4
<1>19. SoundOK(q, R, c2)
  BY <1>7 DEF SoundOK
<1>20. \A s \in R : ResetOf(q.session[s], o.session[s], n)
  BY <1>7, <1>8
<1>21. HeldOK(q, R, c2)
  <2> SUFFICES ASSUME NEW s \in R, NEW f \in Fingers
               PROVE  HeldBy(q.motion, q.session[s].finger[f], s, f, c2)
    BY DEF HeldOK
  <2>1. q.session[s].finger[f].playing = <<>>
    BY <1>15 DEF FromTheTopOf
  <2> QED BY <2>1 DEF HeldBy, ToSet
<1> QED BY <1>13, <1>14, <1>16, <1>17, <1>18, <1>19, <1>20, <1>21 DEF ObjectsInv, WasReset

(* What reset makes of the pad, with the notes that are left.              *)
LEMMA ResetPadStep ==
  ASSUME PadInv, ResetPad, NEW snd \in SUBSET sound, \A e \in snd : e[1] \in cut',
         SetObjects([ResetObjects EXCEPT !.sound = snd])
  PROVE  \E n \in Nat, k \in Nat :
           /\ StateOf(n, k)' /\ SessionsInv' /\ StateOf(n, k) /\ sessions' \subseteq sessions
           /\ \A s \in sessions' : s # current_session /\ ResetOf(session'[s], session[s], n)
<1>1. PICK n \in Nat, k \in Nat : n = Len(motion) /\ k = Len(session) /\ StateOf(n, k)
  BY PadInvView
<1>2. PICK R : R = sessions \ {current_session}
  OBVIOUS
<1>3. PICK o : o = Objects
  OBVIOUS
<1>4. /\ ObjectsInv(o, n, k, sessions, lost, Hands(cut, current_session, pressed)) /\ sessions \in SUBSET (1..k)
      /\ o.session = session /\ o.motion = motion /\ o.freed = freed /\ o.sound = sound
  BY <1>1, <1>3 DEF StateOf, Objects
<1>5. PICK F : F = UNION {Owned(o.session[s]) : s \in sessions \ R}
  OBVIOUS
<1>6. F = IF current_session = NULL THEN {} ELSE Owned(session[current_session])
  <2>1. NULL \notin sessions
    BY <1>4, PadAssumption
  <2>2. CASE current_session = NULL
    <3>1. sessions \ R = {}
      BY <1>2, <2>1, <2>2
    <3> QED BY <1>5, <2>2, <3>1
  <2>3. CASE current_session # NULL
    <3>1. current_session \in sessions
      BY <2>3 DEF PadInv, SessionsInv
    <3>2. sessions \ R = {current_session}
      BY <1>2, <3>1
    <3> QED BY <1>4, <1>5, <2>3, <3>2
  <2> QED BY <2>2, <2>3
<1>7. PICK q : q = Resetting(o, R, F, snd)
  OBVIOUS
<1>8. SetObjects(q)
  <2>1. q = [ResetObjects EXCEPT !.sound = snd]
    <3>1. PICK tt : tt = ResetSessions(session, R)
      OBVIOUS
    <3>2. PICK mq : mq = StopMotions(motion, PlayingAll(session, R))
      OBVIOUS
    <3>3. PICK fr : fr = freed \cup F
      OBVIOUS
    <3>4. q = [session |-> tt, motion |-> mq, freed |-> fr, sound |-> snd]
      BY <1>4, <1>7, <3>1, <3>2, <3>3 DEF Resetting
    <3>5. ResetObjects = [session |-> tt, motion |-> mq, freed |-> fr, sound |-> sound]
      BY <1>2, <1>6, <3>1, <3>2, <3>3, Zenon
         DEF ResetObjects, ResetSessions, ResetSession, StopMotions, PlayingAll
    <3> QED BY <3>4, <3>5
  <2> QED BY <2>1
<1>9. sessions' = R /\ current_session' = NULL /\ lost' = lost \cup Designated
  BY <1>2 DEF ResetPad
<1>10. \A s \in sessions, f \in Fingers : \A m \in ToSet(o.session[s].finger[f].playing) :
         o.motion[m].to_be_deleted => m \in lost'
  BY <1>4, <1>9 DEF Designated, PlayingIn
<1>11. PICK c : c = Hands(cut, current_session, pressed)
  OBVIOUS
<1>12. PICK d : d = Hands(cut', current_session', pressed')
  OBVIOUS
<1>13. WasReset(q, o, n, k, R, lost', d)
  <2>2. ObjectsInv(o, n, k, sessions, lost, c)
    BY <1>4, <1>11
  <2>3. \A e \in snd : e[1] \in d.cut
    BY <1>12 DEF Hands
  <2>1. R \in SUBSET sessions /\ lost \subseteq lost' /\ snd \in SUBSET o.sound
    BY <1>2, <1>4, <1>9
  <2>4. sessions \in SUBSET (1..k)
    BY <1>4
  <2> QED BY <1>5, <1>7, <1>10, <2>1, <2>2, <2>3, <2>4, ResettingStep
<1>14. ObjectsInv(q, n, k, sessions', lost', d) /\ sessions' \in SUBSET (1..k)
  BY <1>2, <1>4, <1>9, <1>13 DEF WasReset
<1>15. StateOf(n, k)' /\ \A s \in sessions' : session'[s] = q.session[s]
  BY <1>8, <1>14, <1>12, SetObjectsStep
<1>16. \A s \in sessions' : s # current_session /\ s \in sessions /\ ResetOf(session'[s], session[s], n)
  BY <1>2, <1>4, <1>9, <1>13, <1>15 DEF WasReset
<1>17. SessionsInv'
  <2>1. \A s \in sessions \ {current_session} : session[s].terminated \/ session[s].to_be_deleted
    BY DEF PadInv, SessionsInv
  <2> QED BY <1>9, <1>16, <2>1 DEF SessionsInv, ResetOf
<1> QED BY <1>1, <1>15, <1>16, <1>17

LEMMA ResetStep ==
  ASSUME PadInv, NEW t \in LineStarts \cup {tick}, NEW m \in BOOLEAN, Reset(t, m)
  PROVE  PadInv'
<1>1. /\ ~hung /\ ResetPad /\ SetObjects([ResetObjects EXCEPT !.sound = {}])
      /\ tick' = t /\ mute' = m /\ hung' = hung
  BY DEF Reset, Operation
<1>2. do_record' = do_record /\ do_quantize' = do_quantize
  BY <1>1 DEF ResetPad
<1>3. PICK n \in Nat, k \in Nat : StateOf(n, k)' /\ SessionsInv'
  <2>1. {} \in SUBSET sound /\ \A e \in {} : e[1] \in cut'
    OBVIOUS
  <2> QED BY <1>1, <2>1, ResetPadStep
<1>4. tick' \in Int
  <2>1. \A line \in LoopStart..(LoopEnd - 1) : line * TicksPerLine \in Int
    BY PadAssumption
  <2> QED BY <1>1, <2>1 DEF LineStarts, PadInv
<1>5. ExportReturns'
  BY <1>1 DEF ExportReturns
<1>6. mute' \in BOOLEAN /\ do_record' \in BOOLEAN /\ do_quantize' \in BOOLEAN
  BY <1>1, <1>2 DEF PadInv
<1> QED BY <1>3, <1>4, <1>5, <1>6, PadInvNext

(* An export does not return if a session does not come to its end. The    *)
(* motions of a session that is not mixed are in order, so that is one     *)
(* that was not terminated: it was designated for deletion, and is still   *)
(* there.                                                                  *)
LEMMA ExportStep ==
  ASSUME PadInv, Export
  PROVE  PadInv'
<1>1. /\ ResetPad /\ SetObjects(ResetObjects) /\ hung' = \E s \in Exported : ~Ends(session[s])
      /\ cut' = cut \cup {e[1] : e \in sound} /\ tick' = tick /\ mute' = mute
  BY DEF Export
<1>2. /\ do_record' = do_record /\ do_quantize' = do_quantize /\ current_session' = NULL
      /\ sessions' = sessions \ {current_session}
  BY <1>1 DEF ResetPad
<1>3. PICK n \in Nat, k \in Nat :
        /\ StateOf(n, k)' /\ SessionsInv' /\ StateOf(n, k) /\ sessions' \subseteq sessions
        /\ \A s \in sessions' : s # current_session /\ ResetOf(session'[s], session[s], n)
  <2>1. sound \in SUBSET sound /\ \A e \in sound : e[1] \in cut'
    BY <1>1
  <2>2. ResetObjects = [ResetObjects EXCEPT !.sound = sound]
    <3>1. \A a, b, c : [session |-> a, motion |-> b, freed |-> c, sound |-> sound]
             = [[session |-> a, motion |-> b, freed |-> c, sound |-> sound] EXCEPT !.sound = sound]
      OBVIOUS
    <3>2. \E a, b, c : ResetObjects = [session |-> a, motion |-> b, freed |-> c, sound |-> sound]
      BY Zenon DEF ResetObjects
    <3> QED BY <3>1, <3>2
  <2>3. SetObjects([ResetObjects EXCEPT !.sound = sound])
    BY <1>1, <2>2
  <2> QED BY <1>1, <2>1, <2>3, ResetPadStep
<1>4. ExportReturns'
  <2> SUFFICES ASSUME hung'
               PROVE  \E s \in Exported' : session'[s].to_be_deleted \/ \E f \in Fingers : session'[s].finger[f].mixed
    BY DEF ExportReturns, Mixed
  <2>1. PICK s \in Exported : ~Ends(session[s])
    BY <1>1
  <2>2. s \in sessions' /\ s # NULL /\ session[s].start \in Begin..(End - 1)
    <3>1. s \in sessions \ {current_session} /\ session[s].start \in Begin..(End - 1)
      BY <2>1 DEF Exported
    <3>2. s # NULL
      BY <1>3, <3>1, PadAssumption DEF StateOf
    <3> QED BY <1>2, <3>1, <3>2
  <2>3. /\ session'[s].start = session[s].start /\ session'[s].to_be_deleted = session[s].to_be_deleted
        /\ \A f \in Fingers : session'[s].finger[f].mixed = session[s].finger[f].mixed
    BY <1>3, <2>2 DEF ResetOf, FromTheTopOf
  <2>4. s \in Exported'
    BY <1>2, <2>2, <2>3 DEF Exported, Begin, End
  <2>5. session[s].to_be_deleted \/ \E f \in Fingers : session[s].finger[f].mixed
    <3> SUFFICES ASSUME \A f \in Fingers : ~session[s].finger[f].mixed
                 PROVE  session[s].to_be_deleted
      OBVIOUS
    <3>1. session[s].terminated \/ session[s].to_be_deleted
      BY <2>1 DEF PadInv, SessionsInv, Exported
    <3>2. \A f \in Fingers : LET list == session[s].finger[f].recorded
            IN \A j, i \in DOMAIN list : j < i => motion[list[j]].start <= motion[list[i]].start
      <4> SUFFICES ASSUME NEW f \in Fingers
                   PROVE  LET list == session[s].finger[f].recorded
                          IN \A j, i \in DOMAIN list : j < i => motion[list[j]].start <= motion[list[i]].start
        OBVIOUS
      <4>1. PICK g : g = session[s].finger[f]
        OBVIOUS
      <4>2. s \in sessions /\ s \in 1..k
        BY <1>3, <2>2 DEF StateOf
      <4>3. g \in FingerType(n)
        BY <1>3, <4>1, <4>2 DEF StateOf, SessionType
      <4>4. InOrderOf(motion, g)
        BY <1>3, <4>1, <4>2 DEF StateOf, ObjectsInv, FingersOK, FingerOK, Objects
      <4>5. \A j, i \in DOMAIN g.recorded : j < i => motion[g.recorded[j]].start <= motion[g.recorded[i]].start
        <5>1. ~g.mixed
          BY <4>1
        <5> QED BY <4>3, <4>4, <5>1, FingerMotions DEF InOrderOf
      <4> QED BY <4>1, <4>5
    <3>3. ASSUME ~session[s].to_be_deleted PROVE Ends(session[s])
      <4>1. session[s].terminated
        BY <3>1, <3>3
      <4>2. session[s].to_be_deleted => \A f \in Fingers : session[s].finger[f].recorded = <<>>
        BY <3>3
      <4> QED BY <3>2, <4>1, <4>2, Zenon DEF Ends
    <3> QED BY <2>1, <3>3
  <2> QED BY <2>3, <2>4, <2>5
<1>5. /\ tick' \in Int /\ mute' \in BOOLEAN /\ do_record' \in BOOLEAN /\ do_quantize' \in BOOLEAN
  BY <1>1, <1>2 DEF PadInv
<1> QED BY <1>3, <1>4, <1>5, PadInvNext

-----------------------------------------------------------------------------
(* process_events                                                          *)

LEMMA AppendOne ==
  ASSUME NEW T, NEW s \in Seq(T), IsInjective(s), NEW m \in T, m \notin ToSet(s)
  PROVE  /\ Append(s, m) \in Seq(T) /\ IsInjective(Append(s, m))
         /\ ToSet(Append(s, m)) = ToSet(s) \cup {m}
<1>1. PICK t : t = Append(s, m)
  OBVIOUS
<1>2. PICK l \in Nat : l = Len(s)
  BY ToSetView
<1>3. /\ t \in Seq(T) /\ Len(t) = l + 1 /\ t[l + 1] = m
      /\ \A j \in 1..l : t[j] = s[j]
  BY <1>1, <1>2
<1>4. DOMAIN s = 1..l /\ DOMAIN t = 1..(l + 1) /\ \A j \in 1..l : s[j] \in ToSet(s)
  BY <1>2, <1>3, ToSetView
<1>5. \A j \in 1..(l + 1) : j \in 1..l \/ j = l + 1
  OBVIOUS
<1>6. \A j \in 1..l : j \in 1..(l + 1)
  OBVIOUS
<1>7. l + 1 \in 1..(l + 1)
  OBVIOUS
<1>8. IsInjective(t)
  BY <1>3, <1>4, <1>5 DEF IsInjective
<1>9. ToSet(t) = ToSet(s) \cup {m}
  <2>1. ToSet(t) = {t[j] : j \in 1..(l + 1)} /\ ToSet(s) = {s[j] : j \in 1..l}
    BY <1>4 DEF ToSet
  <2> QED BY <1>3, <1>5, <1>6, <1>7, <2>1
<1> QED BY <1>1, <1>3, <1>8, <1>9

(* The session of an event, if it is a new one.                            *)
Opened(o, k, t) ==
  [session |-> [r \in 1..(k + 1) |-> IF r # k + 1 THEN o.session[r] ELSE NewSession(t)],
   motion |-> o.motion, freed |-> o.freed, sound |-> o.sound]

LEMMA OpenedStep ==
  ASSUME NEW n \in Nat, NEW k \in Nat, NEW S \in SUBSET (1..k), NEW out, NEW c,
         NEW o, ObjectsInv(o, n, k, S, out, c), NEW t \in Int, NEW q, q = Opened(o, k, t),
         c.current = NULL, NEW c2, c2.cut = c.cut
  PROVE  ObjectsInv(q, n, k + 1, S \cup {k + 1}, out, c2)
<1>1. /\ o \in ObjectsType(n, k) /\ IndexOK(o) /\ MotionsApart(o, S) /\ Covered(o, S, out)
      /\ FingersOK(o, S, out) /\ SoundOK(o, S, c)
  BY DEF ObjectsInv
<1>2. o.session \in [1..k -> SessionType(n)]
  BY <1>1 DEF ObjectsType
<1>3. PICK d : d = NewSession(t)
  OBVIOUS
<1>4. d \in SessionType(n) /\ \A f \in Fingers : d.finger[f] = NoFinger
  BY <1>3, GoneTypes DEF NewSession
<1>5. PICK tt : tt = [r \in 1..(k + 1) |-> IF r # k + 1 THEN o.session[r] ELSE d]
  OBVIOUS
<1>6. q = [session |-> tt, motion |-> o.motion, freed |-> o.freed, sound |-> o.sound]
  BY <1>3, <1>5 DEF Opened
<1>7. q.session = tt /\ q.motion = o.motion /\ q.freed = o.freed /\ q.sound = o.sound
  BY <1>6
<1>8. /\ \A r \in 1..k : r \in 1..(k + 1) /\ r # k + 1
      /\ k + 1 \in 1..(k + 1) /\ \A r \in 1..(k + 1) : r \in 1..k \/ r = k + 1
  OBVIOUS
<1>9. tt[k + 1] = d /\ \A r \in 1..k : tt[r] = o.session[r]
  BY <1>5, <1>8
<1>10. tt \in [1..(k + 1) -> SessionType(n)]
  BY <1>2, <1>4, <1>5, <1>8
<1>11. q \in ObjectsType(n, k + 1)
  BY <1>1, <1>6, <1>10 DEF ObjectsType
<1>12. IndexOK(q)
  BY <1>1, <1>7 DEF IndexOK
<1>13. ToSet(NoFinger.recorded) = {} /\ ToSet(NoFinger.playing) = {} /\ Has(NoFinger) = {}
  BY DEF NoFinger, Has, ToSet
<1>14. FingersOK(q, S \cup {k + 1}, out)
  <2> SUFFICES ASSUME NEW r \in S \cup {k + 1}, NEW f \in Fingers
               PROVE  FingerOK(q.motion, q.session[r].finger[f], q.freed, out, q.session[r].in_play)
    BY DEF FingersOK
  <2>1. CASE r \in S
    <3>1. q.session[r] = o.session[r]
      BY <1>7, <1>9, <2>1
    <3> QED BY <1>1, <1>7, <2>1, <3>1 DEF FingersOK
  <2>2. CASE r = k + 1
    <3>1. q.session[r].finger[f] = NoFinger
      BY <1>4, <1>7, <1>9, <2>2
    <3>2. NoFinger.recorded = <<>> /\ NoFinger.playing = <<>> /\ NoFinger.next = NULL /\ NoFinger.current = NULL
      BY DEF NoFinger
    <3>3. RecordedOK(q.motion, NoFinger)
      BY <1>13, <3>2 DEF RecordedOK, IsInjective
    <3>4. PlayingOK(q.motion, NoFinger, out)
      BY <1>13, <3>2 DEF PlayingOK, IsInjective
    <3>5. InOrderOf(q.motion, NoFinger)
      BY <1>13, <3>2 DEF InOrderOf
    <3> QED BY <1>13, <3>1, <3>2, <3>3, <3>4, <3>5 DEF FingerOK
  <2> QED BY <2>1, <2>2
<1>15. /\ \A r \in S : q.session[r] = o.session[r]
       /\ \A f \in Fingers : Has(q.session[k + 1].finger[f]) = {}
  BY <1>4, <1>7, <1>9, <1>13
<1>16. MotionsApart(q, S \cup {k + 1})
  <2>1. PICK S2 : S2 = S \cup {k + 1}
    OBVIOUS
  <2>2. MotionsApart(q, S2)
    <3> SUFFICES ASSUME NEW s \in S2, NEW r \in S2, NEW f \in Fingers, NEW h \in Fingers,
                        NEW m \in Has(q.session[s].finger[f]), m \in Has(q.session[r].finger[h])
                 PROVE  s = r /\ f = h
      BY DEF MotionsApart
    <3>1. s \in S /\ r \in S
      BY <1>15, <2>1
    <3> QED BY <1>1, <1>15, <3>1, HasOne
  <2> QED BY <2>1, <2>2
<1>17. Covered(q, S \cup {k + 1}, out)
  BY <1>1, <1>7, <1>15 DEF Covered
<1>18. SoundOK(q, S \cup {k + 1}, c2)
  BY <1>1, <1>7, <1>15 DEF SoundOK
<1>19. HeldOK(q, S \cup {k + 1}, c2)
  <2> SUFFICES ASSUME NEW r \in S \cup {k + 1}, NEW f \in Fingers
               PROVE  HeldBy(q.motion, q.session[r].finger[f], r, f, c2)
    BY DEF HeldOK
  <2>1. CASE r \in S
    <3>1. r # NULL
      BY <2>1, PadAssumption
    <3>2. HeldBy(o.motion, o.session[r].finger[f], r, f, c)
      BY <2>1 DEF ObjectsInv, HeldOK
    <3>3. q.session[r] = o.session[r] /\ q.motion = o.motion
      BY <1>7, <1>15, <2>1
    <3> QED BY <3>1, <3>2, <3>3 DEF HeldBy
  <2>2. CASE r = k + 1
    <3>1. q.session[r].finger[f] = NoFinger
      BY <1>4, <1>7, <1>9, <2>2
    <3> QED BY <1>13, <3>1 DEF HeldBy
  <2> QED BY <2>1, <2>2
<1> QED BY <1>11, <1>12, <1>14, <1>16, <1>17, <1>18, <1>19 DEF ObjectsInv

LEMMA SoundBy ==
  ASSUME NEW o, NEW S, NEW c, NEW d, d.cut = c.cut, SoundOK(o, S, c)
  PROVE  SoundOK(o, S, d)
BY DEF SoundOK

HaveOneOwner(q, S) ==
  \A a, b \in S : \A e, i \in Fingers : \A m \in Has(q.session[a].finger[e]) :
    m \in Has(q.session[b].finger[i]) => a = b /\ e = i

LEMMA ApartBy ==
  ASSUME NEW S, NEW q, HaveOneOwner(q, S)
  PROVE  MotionsApart(q, S)
BY DEF MotionsApart, HaveOneOwner

-----------------------------------------------------------------------------
(* A finger presses                                                        *)

LEMMA MoreMotions ==
  ASSUME NEW n \in Nat
  PROVE  /\ \A g \in FingerType(n) : g \in FingerType(n + 1)
         /\ \A d \in SessionType(n) : d \in SessionType(n + 1)
<1>1. 1..n \subseteq 1..(n + 1)
  OBVIOUS
<1>2. \A s \in Seq(1..n) : s \in Seq(1..(n + 1))
  BY <1>1
<1>3. \A g \in FingerType(n) : g \in FingerType(n + 1)
  BY <1>1, <1>2 DEF FingerType
<1>4. ASSUME NEW d \in SessionType(n) PROVE d \in SessionType(n + 1)
  <2>1. d.finger \in [Fingers -> FingerType(n)]
    BY <1>4 DEF SessionType
  <2>2. d.finger \in [Fingers -> FingerType(n + 1)]
    BY <1>3, <2>1
  <2> QED BY <1>4, <2>2 DEF SessionType
<1> QED BY <1>3, <1>4

NewMotionOf(p, t) ==
  /\ p \in MotionType /\ p.index = 0 /\ Len(p.at) = 1 /\ ~p.to_be_deleted /\ p.start = t

LEMMA NewMotionView ==
  ASSUME NEW t \in Int, NEW x \in Columns
  PROVE  NewMotionOf(NewMotion(t, x), t)
<1>1. PICK pos : pos = [t |-> 0, x |-> x]
  OBVIOUS
<1>2. pos \in PositionType /\ <<pos>> \in Seq(PositionType) /\ Len(<<pos>>) = 1
  BY <1>1 DEF PositionType
<1>3. PICK p : p = NewMotion(t, x)
  OBVIOUS
<1>4. p = [start |-> t, at |-> <<pos>>, index |-> 0, crnt_tick |-> -1,
           last_x |-> NULL, terminated |-> FALSE, to_be_deleted |-> FALSE]
  BY <1>1, <1>3 DEF NewMotion
<1>5. p \in MotionType /\ p.index = 0 /\ p.at = <<pos>> /\ p.to_be_deleted = FALSE /\ p.start = t
  BY <1>2, <1>4 DEF MotionType
<1> QED BY <1>2, <1>3, <1>5 DEF NewMotionOf

PressedBy(g, m) == [g EXCEPT !.current = m, !.playing = Append(@, m)]

PressOf(h, g, n) ==
  /\ h \in FingerType(n + 1) /\ h.recorded = g.recorded /\ h.next = g.next /\ h.mixed = g.mixed
  /\ h.current = n + 1 /\ IsInjective(h.playing)
  /\ ToSet(h.playing) = ToSet(g.playing) \cup {n + 1}

LEMMA PressedByView ==
  ASSUME NEW n \in Nat, NEW g \in FingerType(n), IsInjective(g.playing)
  PROVE  PressOf(PressedBy(g, n + 1), g, n)
<1>1. g \in FingerType(n + 1)
  BY MoreMotions
<1>2. PICK l : l = Append(g.playing, n + 1)
  OBVIOUS
<1>3. l \in Seq(1..(n + 1)) /\ IsInjective(l) /\ ToSet(l) = ToSet(g.playing) \cup {n + 1}
  <2>1. g.playing \in Seq(1..(n + 1)) /\ n + 1 \in 1..(n + 1)
    BY <1>1 DEF FingerType
  <2>2. n + 1 \notin ToSet(g.playing)
    <3>1. n + 1 \notin 1..n
      OBVIOUS
    <3> QED BY <3>1, FingerMotions
  <2> QED BY <1>2, <2>1, <2>2, AppendOne
<1>4. PICK h : h = PressedBy(g, n + 1)
  OBVIOUS
<1>5. h = [g EXCEPT !.current = n + 1, !.playing = l]
  BY <1>2, <1>4 DEF PressedBy
<1>6. n + 1 \in (1..(n + 1)) \cup {NULL}
  OBVIOUS
<1>7. /\ h \in FingerType(n + 1) /\ h.recorded = g.recorded /\ h.next = g.next /\ h.mixed = g.mixed
      /\ h.current = n + 1 /\ h.playing = l
  BY <1>1, <1>3, <1>5, <1>6 DEF FingerType
<1> QED BY <1>3, <1>4, <1>7 DEF PressOf

(* The objects after a press: finger h of session s has a new motion.      *)
PressedIn(o, s, f, h, p) ==
  [session |-> WithFinger(o.session, s, f, h), motion |-> Append(o.motion, p),
   freed |-> o.freed, sound |-> o.sound]

FingerDown(c2, c, s, f) ==
  /\ f \notin c.pressed /\ c2.cut = c.cut /\ c2.current = s /\ c.current = s
  /\ c2.pressed = c.pressed \cup {f}

(* The motion the finger played until now is lost unless it was recorded.  *)
LEMMA PressStep ==
  ASSUME NEW n \in Nat, NEW k \in Nat, NEW S \in SUBSET (1..k), NEW out, NEW c,
         NEW o, ObjectsInv(o, n, k, S, out, c), NEW s \in S, o.session[s].in_play, NEW f \in Fingers,
         NEW t, NEW p, NewMotionOf(p, t), NEW g, g = o.session[s].finger[f],
         NEW h, h = PressedBy(g, n + 1), NEW out2, out2 = out \cup ({g.current} \ {NULL}),
         NEW q, q = PressedIn(o, s, f, h, p), NEW c2, FingerDown(c2, c, s, f)
  PROVE  ObjectsInv(q, n + 1, k, S, out2, c2)
<1>1. /\ f \notin c.pressed /\ c2.cut = c.cut /\ c2.current = s /\ c.current = s
       /\ c2.pressed = c.pressed \cup {f}
  BY DEF FingerDown
<1>2. /\ o \in ObjectsType(n, k) /\ IndexOK(o) /\ MotionsApart(o, S) /\ Covered(o, S, out)
      /\ FingersOK(o, S, out) /\ SoundOK(o, S, c)
  BY DEF ObjectsInv
<1>3. /\ o.session \in [1..k -> SessionType(n)] /\ o.motion \in [1..n -> MotionType]
      /\ o.freed \in SUBSET (1..n) /\ o.sound \in SUBSET ((1..n) \X (Columns \cup {NULL}))
  BY <1>2 DEF ObjectsType
<1>4. /\ p \in MotionType /\ p.index = 0 /\ Len(p.at) = 1 /\ ~p.to_be_deleted
  BY DEF NewMotionOf
<1>5. PICK mq : mq = Append(o.motion, p)
  OBVIOUS
<1>6. /\ mq \in [1..(n + 1) -> MotionType] /\ mq[n + 1] = p
      /\ \A m \in 1..n : mq[m] = o.motion[m]
  <2>1. o.motion \in Seq(MotionType) /\ Len(o.motion) = n
    <3>1. o.motion \in Seq(MotionType)
      BY <1>3, IntervalIsSeq
    <3> QED BY <1>3, <3>1
  <2>2. /\ mq \in Seq(MotionType) /\ Len(mq) = n + 1 /\ mq[n + 1] = p
        /\ \A m \in 1..n : mq[m] = o.motion[m]
    BY <1>4, <1>5, <2>1
  <2> QED BY <2>2
<1>7. s \in 1..k /\ o.session \in [1..k -> SessionType(n + 1)]
  BY <1>3, MoreMotions
<1>8. g \in FingerType(n) /\ FingerOK(o.motion, g, o.freed, out, o.session[s].in_play)
  BY <1>2, <1>3 DEF SessionType, FingersOK
<1>9. RecordedOK(o.motion, g) /\ PlayingOK(o.motion, g, out) /\ InOrderOf(o.motion, g) /\ Has(g) \cap o.freed = {}
  BY <1>8 DEF FingerOK
<1>10. /\ h \in FingerType(n + 1) /\ h.recorded = g.recorded /\ h.next = g.next /\ h.mixed = g.mixed
      /\ h.current = n + 1 /\ IsInjective(h.playing)
      /\ ToSet(h.playing) = ToSet(g.playing) \cup {n + 1}
  <2>1. PressOf(h, g, n)
    BY <1>8, <1>9, PressedByView DEF PlayingOK
  <2> QED BY <2>1 DEF PressOf
<1>11. PICK tt : tt = WithFinger(o.session, s, f, h)
  OBVIOUS
<1>12. /\ tt \in [1..k -> SessionType(n + 1)] /\ tt[s].finger[f] = h
       /\ \A r \in 1..k, e \in Fingers : r # s \/ e # f => tt[r].finger[e] = o.session[r].finger[e]
       /\ \A r \in 1..k : tt[r].in_play = o.session[r].in_play
  <2>1. n + 1 \in Nat
    OBVIOUS
  <2>2. DifferAt(WithFinger(o.session, s, f, h), o.session, n + 1, k, s, f, h)
    BY <1>7, <1>10, <2>1, WithFingerView
  <2> QED BY <1>11, <2>2 DEF DifferAt
<1>13. q = [session |-> tt, motion |-> mq, freed |-> o.freed, sound |-> o.sound]
  BY <1>5, <1>11 DEF PressedIn
<1>14. q.session = tt /\ q.motion = mq /\ q.freed = o.freed /\ q.sound = o.sound
  BY <1>13
<1>15. /\ \A m \in 1..n : m \in 1..(n + 1) /\ m # n + 1
       /\ \A m \in 1..(n + 1) : m \in 1..n \/ m = n + 1
  OBVIOUS
<1>16. q \in ObjectsType(n + 1, k)
  <2>1. /\ o.freed \in SUBSET (1..(n + 1))
        /\ o.sound \in SUBSET ((1..(n + 1)) \X (Columns \cup {NULL}))
    BY <1>3, <1>15
  <2> QED BY <1>6, <1>12, <1>13, <2>1 DEF ObjectsType
<1>17. IndexOK(q)
  <2>1. DOMAIN q.motion = 1..(n + 1) /\ DOMAIN o.motion = 1..n
    BY <1>3, <1>6, <1>14
  <2>2. 0 \in -1..1
    OBVIOUS
  <2>3. \A m \in 1..n : o.motion[m].index \in -1..Len(o.motion[m].at)
    BY <1>2, <2>1 DEF IndexOK
  <2>4. ASSUME NEW m \in 1..(n + 1) PROVE mq[m].index \in -1..Len(mq[m].at)
    <3>1. CASE m \in 1..n
      <4>1. mq[m] = o.motion[m]
        BY <1>6, <3>1
      <4> QED BY <2>3, <3>1, <4>1
    <3>2. CASE m = n + 1
      <4>1. mq[m] = p
        BY <1>6, <3>2
      <4> QED BY <1>4, <2>2, <4>1
    <3> QED BY <1>15, <3>1, <3>2
  <2> QED BY <1>14, <2>1, <2>4 DEF IndexOK
<1>18. /\ Has(g) \subseteq 1..n /\ ToSet(g.recorded) \subseteq 1..n /\ ToSet(g.playing) \subseteq 1..n
  BY <1>8, FingerMotions
<1>19. FingerOK(mq, h, o.freed, out2, TRUE)
  <2>1. RecordedOK(mq, h)
    <3>1. \A m \in ToSet(h.recorded) :
            mq[m].terminated /\ ~mq[m].to_be_deleted /\ (m \in ToSet(h.playing) <=> mq[m].index # -1)
      <4> SUFFICES ASSUME NEW m \in ToSet(g.recorded)
                   PROVE  mq[m].terminated /\ ~mq[m].to_be_deleted /\ (m \in ToSet(h.playing) <=> mq[m].index # -1)
        BY <1>10
      <4>1. m \in 1..n /\ m # n + 1 /\ mq[m] = o.motion[m]
        BY <1>6, <1>15, <1>18
      <4> QED BY <1>9, <1>10, <4>1 DEF RecordedOK
    <3>2. h.current \notin ToSet(h.recorded) /\ ~mq[h.current].to_be_deleted
      <4>1. h.current = n + 1 /\ mq[n + 1] = p
        BY <1>6, <1>10
      <4>2. n + 1 \notin ToSet(g.recorded)
        BY <1>15, <1>18, Zenon
      <4>3. h.recorded = g.recorded
        BY <1>10
      <4> QED BY <1>4, <4>1, <4>2, <4>3, Zenon
    <3> QED BY <1>9, <1>10, <3>1, <3>2 DEF RecordedOK
  <2>2. PlayingOK(mq, h, out2)
    <3> SUFFICES ASSUME NEW m \in ToSet(h.playing)
                 PROVE  /\ mq[m].index # -1
                        /\ m \in ToSet(h.recorded) \/ m = h.current \/ m \in out2 \/ mq[m].to_be_deleted
      BY <1>10 DEF PlayingOK
    <3>1. CASE m = n + 1
      BY <1>4, <1>6, <1>10, <3>1
    <3>2. CASE m # n + 1
      <4>1. m \in ToSet(g.playing) /\ m \in 1..n /\ mq[m] = o.motion[m]
        BY <1>6, <1>10, <1>18, <3>2
      <4>2. m # NULL
        BY <4>1, PadAssumption
      <4> QED BY <1>9, <1>10, <4>1, <4>2 DEF PlayingOK
    <3> QED BY <3>1, <3>2
  <2>3. InOrderOf(mq, h)
    <3>1. \A m \in ToSet(g.recorded) : mq[m].start = o.motion[m].start
      BY <1>6, <1>18
    <3>2. h.recorded = g.recorded /\ h.mixed = g.mixed /\ InOrderOf(o.motion, g)
      BY <1>9, <1>10
    <3>3. g \in FingerType(n)
      BY <1>8
    <3> QED BY <3>1, <3>2, <3>3, InOrderAlike
  <2>4. Has(h) \cap o.freed = {}
    <3>1. Has(h) \subseteq Has(g) \cup {n + 1}
      BY <1>10 DEF Has
    <3>2. n + 1 \notin o.freed
      BY <1>3, <1>15
    <3> QED BY <1>9, <3>1, <3>2
  <2> QED BY <2>1, <2>2, <2>3, <2>4 DEF FingerOK
<1>20. out \subseteq out2
  OBVIOUS
<1>21. FingersOK(q, S, out2)
  <2> SUFFICES ASSUME NEW r \in S, NEW e \in Fingers
               PROVE  FingerOK(mq, tt[r].finger[e], o.freed, out2, tt[r].in_play)
    BY <1>14 DEF FingersOK
  <2>1. CASE r = s /\ e = f
    <3>1. tt[r].finger[e] = h /\ tt[r].in_play
      BY <1>7, <1>12, <2>1
    <3> QED BY <1>19, <3>1 DEF FingerOK
  <2>2. CASE r # s \/ e # f
    <3>1. PICK a : a = o.session[r].finger[e]
      OBVIOUS
    <3>2. r \in 1..k
      OBVIOUS
    <3>3. tt[r].finger[e] = a /\ tt[r].in_play = o.session[r].in_play
      BY <1>12, <2>2, <3>1, <3>2
    <3>4. a \in FingerType(n) /\ FingerOK(o.motion, a, o.freed, out, o.session[r].in_play)
      BY <1>2, <1>3, <3>1, <3>2 DEF SessionType, FingersOK
    <3>5. Has(a) \subseteq 1..n /\ Has(a) \cap o.freed = {}
      BY <3>4, FingerMotions DEF FingerOK
    <3>6. AlikeFor(o.motion, mq, 1..n)
      BY <1>6 DEF AlikeFor
    <3>7. FingerOK(mq, a, o.freed, out2, o.session[r].in_play)
      BY <1>20, <3>4, <3>5, <3>6, FingerAlike
    <3> QED BY <3>3, <3>7
  <2> QED BY <2>1, <2>2
<1>22. \A r \in S, e \in Fingers : \A m \in Has(tt[r].finger[e]) :
         \/ m = n + 1 /\ r = s /\ e = f
         \/ m \in 1..n /\ m \in Has(o.session[r].finger[e])
  <2> SUFFICES ASSUME NEW r \in S, NEW e \in Fingers, NEW m \in Has(tt[r].finger[e])
               PROVE  \/ m = n + 1 /\ r = s /\ e = f
                      \/ m \in 1..n /\ m \in Has(o.session[r].finger[e])
    OBVIOUS
  <2>1. CASE r = s /\ e = f
    <3>1. m \in Has(h)
      BY <1>7, <1>12, <2>1
    <3>2. m \in Has(g) \/ m = n + 1
      BY <1>10, <3>1 DEF Has
    <3> QED BY <1>18, <2>1, <3>2
  <2>2. CASE r # s \/ e # f
    <3>1. r \in 1..k
      OBVIOUS
    <3>2. m \in Has(o.session[r].finger[e])
      BY <1>12, <2>2, <3>1
    <3>3. o.session[r].finger[e] \in FingerType(n)
      BY <1>3, <3>1 DEF SessionType
    <3> QED BY <3>2, <3>3, FingerMotions
  <2> QED BY <2>1, <2>2
<1>23. MotionsApart(q, S)
  <2>1. ASSUME NEW a \in S, NEW b \in S, NEW e \in Fingers, NEW i \in Fingers,
               NEW m \in Has(q.session[a].finger[e]), m \in Has(q.session[b].finger[i])
        PROVE  a = b /\ e = i
    <3>1. m \in Has(tt[a].finger[e]) /\ m \in Has(tt[b].finger[i])
      BY <1>14, <2>1
    <3>2. CASE m = n + 1
      BY <1>15, <1>22, <3>1, <3>2
    <3>3. CASE m # n + 1
      <4>1. m \in Has(o.session[a].finger[e]) /\ m \in Has(o.session[b].finger[i])
        BY <1>22, <3>1, <3>3
      <4> QED BY <1>2, <4>1, HasOne
    <3> QED BY <3>2, <3>3
  <2>2. HaveOneOwner(q, S)
    BY <2>1, Zenon DEF HaveOneOwner
  <2> QED BY <2>2, ApartBy
<1>24. Covered(q, S, out2)
  <2> SUFFICES ASSUME NEW m \in 1..(n + 1), m \notin o.freed, m \notin out2
               PROVE  \E r \in S, e \in Fingers : m \in Has(tt[r].finger[e])
    <3>1. DOMAIN q.motion = 1..(n + 1)
      BY <1>6, <1>14
    <3> QED BY <1>14, <3>1 DEF Covered
  <2>1. CASE m = n + 1
    <3>1. m \in Has(h)
      BY <1>10, <2>1, HasParts
    <3> QED BY <1>7, <1>12, <3>1
  <2>2. CASE m # n + 1
    <3>1. m \in DOMAIN o.motion /\ m \in 1..n
      BY <1>3, <1>15, <2>2
    <3>2. PICK r \in S, e \in Fingers : m \in Has(o.session[r].finger[e])
      BY <1>2, <1>20, <3>1 DEF Covered
    <3>3. r \in 1..k
      OBVIOUS
    <3>4. CASE r = s /\ e = f
      <4>1. m \in Has(g) /\ m # g.current
        <5>1. m # NULL
          BY <3>1, PadAssumption
        <5> QED BY <3>2, <3>4, <5>1
      <4>2. m \in Has(h)
        BY <1>10, <4>1 DEF Has
      <4> QED BY <1>7, <1>12, <4>2
    <3>5. CASE r # s \/ e # f
      BY <1>12, <3>2, <3>3, <3>5
    <3> QED BY <3>4, <3>5
  <2> QED BY <2>1, <2>2
<1>25. SoundOK(q, S, c2)
  <2>1. ASSUME NEW m, Plays(o, S, m) PROVE Plays(q, S, m) /\ q.motion[m] = o.motion[m]
    <3>1. m \in 1..n
      BY <1>2, <2>1, PlaysType
    <3>2. PICK r \in S, e \in Fingers : m \in ToSet(o.session[r].finger[e].playing)
      BY <2>1 DEF Plays
    <3>3. r \in 1..k
      OBVIOUS
    <3>4. m \in ToSet(tt[r].finger[e].playing)
      <4>1. CASE r = s /\ e = f
        BY <1>7, <1>10, <1>12, <3>2, <4>1
      <4>2. CASE r # s \/ e # f
        BY <1>12, <3>2, <3>3, <4>2
      <4> QED BY <4>1, <4>2
    <3> QED BY <1>6, <1>14, <3>1, <3>4 DEF Plays
  <2>2. SoundOK(q, S, c)
    BY <1>2, <1>14, <2>1, SoundKept
  <2> QED BY <1>1, <2>2, SoundBy, Zenon
<1>26. HeldOK(q, S, c2)
  <2> SUFFICES ASSUME NEW r \in S, NEW e \in Fingers
               PROVE  HeldBy(mq, tt[r].finger[e], r, e, c2)
    BY <1>14 DEF HeldOK
  <2>1. PICK a : a = o.session[r].finger[e]
    OBVIOUS
  <2>2. HeldBy(o.motion, a, r, e, c)
    BY <2>1 DEF ObjectsInv, HeldOK
  <2>3. r \in 1..k
    OBVIOUS
  <2>4. a \in FingerType(n)
    BY <1>3, <2>1, <2>3 DEF SessionType
  <2>5. \A m \in ToSet(a.playing) : mq[m] = o.motion[m]
    BY <1>6, <2>4, FingerMotions
  <2>6. CASE r = s /\ e = f
    <3>1. tt[r].finger[e] = h /\ a = g
      BY <1>7, <1>12, <2>1, <2>6
    <3>2. \A m \in ToSet(g.playing) : mq[m].terminated \/ m \in c2.cut
      BY <1>1, <2>2, <2>5, <2>6, <3>1 DEF HeldBy
    <3> QED BY <1>10, <1>1, <2>6, <3>1, <3>2 DEF HeldBy
  <2>7. CASE r # s \/ e # f
    <3>1. tt[r].finger[e] = a
      BY <1>12, <2>1, <2>3, <2>7
    <3> QED BY <1>1, <2>2, <2>5, <3>1 DEF HeldBy
  <2> QED BY <2>6, <2>7
<1> QED BY <1>16, <1>17, <1>21, <1>23, <1>24, <1>25, <1>26 DEF ObjectsInv

-----------------------------------------------------------------------------
(* A finger slides or is released                                          *)

MovedOn(q, p) ==
  /\ q \in MotionType /\ q.start = p.start /\ q.to_be_deleted = p.to_be_deleted
  /\ q.index = p.index /\ q.last_x = p.last_x /\ (p.terminated => q.terminated)
  /\ p.index \in -1..Len(p.at) => q.index \in -1..Len(q.at) /\ (~Ended(p) => ~Ended(q))

AddedTo(q, p) ==
  /\ q \in MotionType /\ q.start = p.start /\ q.to_be_deleted = p.to_be_deleted
  /\ q.index = p.index /\ q.last_x = p.last_x /\ q.terminated = p.terminated
  /\ Len(q.at) = IF p.terminated THEN Len(p.at) ELSE Len(p.at) + 1

LEMMA AddPositionView ==
  ASSUME NEW p \in MotionType, NEW x \in Columns
  PROVE  AddedTo(AddPosition(p, x), p)
<1>1. CASE p.terminated
  <2>1. AddPosition(p, x) = p
    BY <1>1 DEF AddPosition
  <2> QED BY <1>1, <2>1 DEF AddedTo
<1>2. CASE ~p.terminated
  <2>1. p.at \in Seq(PositionType) /\ p.crnt_tick \in Int
    BY DEF MotionType
  <2>2. PICK pos : pos = [t |-> p.crnt_tick + 1, x |-> x]
    OBVIOUS
  <2>3. pos \in PositionType
    <3>1. p.crnt_tick + 1 \in Int
      BY <2>1
    <3> QED BY <2>2, <3>1 DEF PositionType
  <2>4. PICK at : at = Append(p.at, pos)
    OBVIOUS
  <2>5. at \in Seq(PositionType) /\ Len(at) = Len(p.at) + 1
    BY <2>1, <2>3, <2>4
  <2>6. PICK q : q = AddPosition(p, x)
    OBVIOUS
  <2>7. q = [p EXCEPT !.at = at]
    BY <1>2, <2>2, <2>4, <2>6 DEF AddPosition
  <2>8. /\ q \in MotionType /\ q.start = p.start /\ q.to_be_deleted = p.to_be_deleted
        /\ q.index = p.index /\ q.last_x = p.last_x /\ q.terminated = p.terminated /\ q.at = at
    BY <2>5, <2>7 DEF MotionType
  <2> QED BY <1>2, <2>5, <2>6, <2>8 DEF AddedTo
<1> QED BY <1>1, <1>2

LEMMA SlideView ==
  ASSUME NEW p \in MotionType, NEW x \in Columns
  PROVE  /\ MovedOn(AddPosition(p, x), p) /\ MovedOn(Terminated(AddPosition(p, x)), p)
         /\ Terminated(AddPosition(p, x)).terminated
<1>1. PICK q : q = AddPosition(p, x)
  OBVIOUS
<1>2. PICK r : r = Terminated(q)
  OBVIOUS
<1>3. /\ q \in MotionType /\ q.start = p.start /\ q.to_be_deleted = p.to_be_deleted
      /\ q.index = p.index /\ q.last_x = p.last_x /\ q.terminated = p.terminated
      /\ Len(q.at) = IF p.terminated THEN Len(p.at) ELSE Len(p.at) + 1
  BY <1>1, AddPositionView DEF AddedTo
<1>4. /\ r \in MotionType /\ r.start = q.start /\ r.to_be_deleted = q.to_be_deleted
      /\ r.index = q.index /\ r.last_x = q.last_x /\ Len(r.at) = Len(q.at) /\ r.terminated = TRUE
  BY <1>2, <1>3, TerminatedView DEF TerminatedFrom
<1>5. Len(p.at) \in Nat /\ p.index \in Int /\ p.terminated \in BOOLEAN
  <2>1. p.at \in Seq(PositionType) /\ p.index \in Int /\ p.terminated \in BOOLEAN
    BY DEF MotionType
  <2> QED BY <2>1
<1>6. MovedOn(q, p)
  <2>1. p.index \in -1..Len(p.at) => q.index \in -1..Len(q.at)
    BY <1>3, <1>5
  <2>2. ~Ended(p) => ~Ended(q)
    BY <1>3, <1>5 DEF Ended
  <2> QED BY <1>3, <2>1, <2>2 DEF MovedOn
<1>7. MovedOn(r, p)
  <2>1. p.index \in -1..Len(p.at) => r.index \in -1..Len(r.at)
    BY <1>3, <1>4, <1>5
  <2>2. p.index \in -1..Len(p.at) => (~Ended(p) => ~Ended(r))
    BY <1>3, <1>4, <1>5 DEF Ended
  <2> QED BY <1>3, <1>4, <2>1, <2>2 DEF MovedOn
<1> QED BY <1>1, <1>2, <1>4, <1>6, <1>7

Moving(o, m, p) ==
  [session |-> o.session, motion |-> [o.motion EXCEPT ![m] = p], freed |-> o.freed, sound |-> o.sound]

LEMMA MoveStep ==
  ASSUME NEW n \in Nat, NEW k \in Nat, NEW S \in SUBSET (1..k), NEW out, NEW c,
         NEW o, ObjectsInv(o, n, k, S, out, c), NEW m \in 1..n, NEW p, MovedOn(p, o.motion[m]),
         NEW q, q = Moving(o, m, p)
  PROVE  ObjectsInv(q, n, k, S, out, c)
<1>1. o \in ObjectsType(n, k) /\ IndexOK(o) /\ SoundOK(o, S, c)
  BY DEF ObjectsInv
<1>2. o.motion \in [1..n -> MotionType]
  BY <1>1 DEF ObjectsType
<1>3. PICK mq : mq = [o.motion EXCEPT ![m] = p]
  OBVIOUS
<1>4. /\ q.session = o.session /\ q.motion = mq /\ q.freed = o.freed /\ q.sound = o.sound
      /\ q = [session |-> q.session, motion |-> q.motion, freed |-> q.freed, sound |-> q.sound]
  BY <1>3 DEF Moving
<1>5. p \in MotionType
  BY DEF MovedOn
<1>6. /\ mq \in [1..n -> MotionType] /\ mq[m] = p
      /\ \A i \in 1..n : i # m => mq[i] = o.motion[i]
  BY <1>2, <1>3, <1>5
<1>7. q \in ObjectsType(n, k)
  BY <1>1, <1>4, <1>6 DEF ObjectsType
<1>8. DOMAIN q.motion = 1..n /\ DOMAIN o.motion = 1..n
  BY <1>2, <1>4, <1>6
<1>9. \A i \in 1..n : o.motion[i].index \in -1..Len(o.motion[i].at)
  BY <1>1, <1>8 DEF IndexOK
<1>10. ASSUME NEW i \in 1..n
       PROVE  /\ mq[i].start = o.motion[i].start /\ mq[i].to_be_deleted = o.motion[i].to_be_deleted
              /\ mq[i].index = o.motion[i].index /\ mq[i].last_x = o.motion[i].last_x
              /\ o.motion[i].terminated => mq[i].terminated
              /\ mq[i].index \in -1..Len(mq[i].at) /\ (~Ended(o.motion[i]) => ~Ended(mq[i]))
  <2>1. CASE i = m
    BY <1>6, <1>9, <2>1 DEF MovedOn
  <2>2. CASE i # m
    <3>1. mq[i] = o.motion[i]
      BY <1>6, <2>2
    <3> QED BY <1>9, <3>1
  <2> QED BY <2>1, <2>2
<1>11. AlikeFor(o.motion, q.motion, 1..n)
  BY <1>4, <1>10 DEF AlikeFor
<1>12. IndexOK(q)
  BY <1>4, <1>8, <1>10 DEF IndexOK
<1>13. SoundOK(q, S, c)
  <2>1. \A i : Plays(o, S, i) => Plays(q, S, i) /\ i \in 1..n
    BY <1>1, <1>4, PlaysType DEF Plays
  <2>2. \A e \in q.sound : e[1] \notin c.cut /\ Plays(o, S, e[1]) /\ ~Ended(o.motion[e[1]]) =>
          /\ q.motion[e[1]].last_x = o.motion[e[1]].last_x
          /\ ~Ended(q.motion[e[1]]) /\ Plays(q, S, e[1])
    BY <1>4, <1>10, <2>1
  <2> QED BY <1>1, <1>4, <2>2, SoundKept
<1>14. HeldOK(q, S, c)
  BY <1>4, <1>11, HeldKept
<1> QED BY <1>4, <1>7, <1>11, <1>12, <1>13, <1>14, MotionsStep

(* The motion of a finger that goes up has been terminated.                *)
LEMMA FingerUp ==
  ASSUME NEW n \in Nat, NEW k \in Nat, NEW S \in SUBSET (1..k), NEW out, NEW c,
         NEW o, ObjectsInv(o, n, k, S, out, c), NEW s \in S, NEW f \in Fingers,
         NEW g, g = o.session[s].finger[f], g.current = NULL \/ o.motion[g.current].terminated,
         NEW d, d.cut = c.cut, d.current = c.current, c.current = s, c.pressed \subseteq d.pressed \cup {f}
  PROVE  ObjectsInv(o, n, k, S, out, d)
<1>1. SoundOK(o, S, d)
  BY DEF ObjectsInv, SoundOK
<1>2. HeldOK(o, S, d)
  <2> SUFFICES ASSUME NEW r \in S, NEW e \in Fingers
               PROVE  HeldBy(o.motion, o.session[r].finger[e], r, e, d)
    BY DEF HeldOK
  <2>1. HeldBy(o.motion, o.session[r].finger[e], r, e, c)
    BY DEF ObjectsInv, HeldOK
  <2>2. CASE r = s /\ e = f
    <3>1. g \in FingerType(n)
      BY <2>2 DEF ObjectsInv, ObjectsType, SessionType
    <3>2. NULL \notin ToSet(g.playing)
      <4>1. ToSet(g.playing) \subseteq 1..n
        BY <3>1, FingerMotions
      <4> QED BY <4>1, PadAssumption
    <3> QED BY <2>1, <2>2, <3>2 DEF HeldBy
  <2>3. CASE r # s \/ e # f
    BY <2>1, <2>3 DEF HeldBy
  <2> QED BY <2>2, <2>3
<1> QED BY <1>1, <1>2 DEF ObjectsInv

-----------------------------------------------------------------------------
(* An event                                                                *)

LEMMA SessionStartType ==
  ASSUME PadInv
  PROVE  SessionStart \in Int
<1>1. tick \in Int
  BY DEF PadInv
<1>2. QuantizeTick(tick) \in Int
  BY <1>1, QuantizeView
<1>3. Begin \in Int
  BY PadAssumption DEF Begin
<1>4. PICK start \in Int : start = IF do_quantize THEN QuantizeTick(tick) ELSE tick
  BY <1>1, <1>2
<1>5. SessionStart = IF start >= End THEN start - Begin ELSE start
  BY <1>4 DEF SessionStart
<1>6. start - Begin \in Int
  BY <1>3, <1>4
<1> QED BY <1>4, <1>5, <1>6

EventSession == IF current_session = NULL THEN Len(session) + 1 ELSE current_session

EventContents == IF current_session = NULL THEN NewSession(SessionStart) ELSE session[EventSession]

EventObjects ==
  [session |-> [r \in DOMAIN session \cup {EventSession} |->
                  IF r # EventSession THEN session[r] ELSE EventContents],
   motion |-> motion, freed |-> freed, sound |-> sound]

(* The session of the event is there, in play, and stays.                  *)
EventOpens(n, k) ==
  /\ ObjectsInv(EventObjects, n, k, sessions \cup {EventSession}, lost, Hands(cut, EventSession, pressed))
  /\ EventSession \in 1..k /\ sessions \in SUBSET (1..k)
  /\ EventObjects.session[EventSession] = EventContents
  /\ \A r \in sessions \ {EventSession} : EventObjects.session[r] = session[r] /\ r # current_session
  /\ EventContents \in SessionType(n) /\ EventContents.in_play
  /\ ~EventContents.to_be_deleted /\ ~EventContents.terminated

LEMMA EventOpensView ==
  ASSUME PadInv, NEW n \in Nat, NEW k \in Nat, n = Len(motion), k = Len(session), StateOf(n, k)
  PROVE  \E l \in Nat : EventOpens(n, l)
<1>1. PICK o : o = Objects
  OBVIOUS
<1>2. /\ o.session = session /\ o.motion = motion /\ o.freed = freed /\ o.sound = sound
      /\ o = [session |-> session, motion |-> motion, freed |-> freed, sound |-> sound]
  BY <1>1 DEF Objects
<1>3. /\ ObjectsInv(o, n, k, sessions, lost, Hands(cut, current_session, pressed)) /\ sessions \in SUBSET (1..k)
      /\ session \in [1..k -> SessionType(n)]
  BY <1>1 DEF StateOf
<1>4. PICK s : s = EventSession
  OBVIOUS
<1>5. PICK d : d = EventContents
  OBVIOUS
<1>6. PICK tt : tt = [r \in DOMAIN session \cup {s} |-> IF r # s THEN session[r] ELSE d]
  OBVIOUS
<1>7. PICK q : q = EventObjects
  OBVIOUS
<1>8. q = [session |-> tt, motion |-> motion, freed |-> freed, sound |-> sound]
  BY <1>4, <1>5, <1>6, <1>7 DEF EventObjects
<1>9. q.session = tt
  BY <1>8
<1>10. CASE current_session = NULL
  <2>1. s = k + 1 /\ d = NewSession(SessionStart)
    BY <1>4, <1>5, <1>10 DEF EventSession, EventContents
  <2>2. /\ (1..k) \cup {k + 1} = 1..(k + 1) /\ k + 1 \notin 1..k /\ k + 1 \in 1..(k + 1)
        /\ sessions \in SUBSET (1..(k + 1)) /\ k + 1 \in Nat
    BY <1>3
  <2>3. DOMAIN session = 1..k
    BY <1>3
  <2>4. tt = [r \in 1..(k + 1) |-> IF r # k + 1 THEN session[r] ELSE d]
    BY <1>6, <2>1, <2>2, <2>3
  <2>5. q = Opened(o, k, SessionStart)
    BY <1>2, <1>8, <2>1, <2>4 DEF Opened
  <2>6. ObjectsInv(q, n, k + 1, sessions \cup {k + 1}, lost, Hands(cut, s, pressed))
    <3>1. PICK c : c = Hands(cut, current_session, pressed)
      OBVIOUS
    <3>2. PICK e : e = Hands(cut, s, pressed)
      OBVIOUS
    <3>3. c.current = NULL /\ e.cut = c.cut
      BY <1>10, <3>1, <3>2 DEF Hands
    <3>4. ObjectsInv(o, n, k, sessions, lost, c) /\ sessions \in SUBSET (1..k)
      BY <1>3, <3>1
    <3>5. ObjectsInv(q, n, k + 1, sessions \cup {k + 1}, lost, e)
      BY <2>5, <3>3, <3>4, OpenedStep, SessionStartType
    <3> QED BY <3>2, <3>5
  <2>7. d \in SessionType(n) /\ d.in_play /\ ~d.to_be_deleted /\ ~d.terminated
    BY <2>1, GoneTypes, SessionStartType DEF NewSession
  <2>8. q.session[s] = d /\ \A r \in sessions : q.session[r] = session[r]
    BY <1>3, <1>9, <2>1, <2>2, <2>4
  <2>9. \A r \in sessions : r # current_session
    <3>1. \A r \in sessions : r \in Nat
      BY <1>3
    <3> QED BY <1>10, <3>1, PadAssumption
  <2>10. EventOpens(n, k + 1)
    BY <1>4, <1>5, <1>7, <2>1, <2>2, <2>6, <2>7, <2>8, <2>9 DEF EventOpens
  <2> QED BY <2>2, <2>10
<1>11. CASE current_session # NULL
  <2>1. s = current_session /\ d = session[s]
    BY <1>4, <1>5, <1>11 DEF EventSession, EventContents
  <2>2. s \in sessions /\ d.in_play /\ ~d.to_be_deleted /\ ~d.terminated
    BY <1>11, <2>1 DEF PadInv, SessionsInv
  <2>3. DOMAIN session = 1..k /\ s \in 1..k /\ sessions \cup {s} = sessions
    BY <1>3, <2>2
  <2>4. tt = session
    <3>1. DOMAIN session \cup {s} = 1..k
      BY <2>3
    <3>2. tt = [r \in 1..k |-> IF r # s THEN session[r] ELSE d]
      BY <1>6, <3>1
    <3>3. tt = [r \in 1..k |-> session[r]]
      BY <2>1, <3>2
    <3> QED BY <1>3, <3>3
  <2>5. q = o
    BY <1>2, <1>8, <2>4
  <2>6. ObjectsInv(q, n, k, sessions \cup {s}, lost, Hands(cut, s, pressed))
    BY <1>3, <2>1, <2>3, <2>5
  <2>7. d \in SessionType(n)
    BY <1>3, <2>1, <2>3
  <2>8. EventOpens(n, k)
    BY <1>3, <1>4, <1>5, <1>7, <1>9, <2>1, <2>2, <2>3, <2>4, <2>6, <2>7 DEF EventOpens
  <2> QED BY <2>8
<1> QED BY <1>10, <1>11

LEMMA HandleEventStep ==
  ASSUME PadInv, NEW f \in Fingers, NEW type \in {"press", "slide", "release"}, NEW x \in Columns,
         HandleEvent(f, type, x)
  PROVE  PadInv'
<1>1. PICK n \in Nat, k \in Nat : n = Len(motion) /\ k = Len(session) /\ StateOf(n, k)
  BY PadInvView
<1>2. PICK l \in Nat : EventOpens(n, l)
  BY <1>1, EventOpensView
<1>3. PICK s : s = EventSession
  OBVIOUS
<1>4. PICK d : d = EventContents
  OBVIOUS
<1>5. PICK o : o = EventObjects
  OBVIOUS
<1>6. /\ ~hung /\ current_session' = s /\ sessions' = sessions \cup {s}
      /\ FingerEvent(d, f, type, x)
      /\ tick' = tick /\ mute' = mute /\ do_record' = do_record /\ do_quantize' = do_quantize
      /\ freed' = freed /\ sound' = sound /\ hung' = hung /\ cut' = cut
      /\ (type = "press") = (f \notin pressed)
      /\ pressed' = IF type = "release" THEN pressed \ {f} ELSE pressed \cup {f}
  BY <1>3, <1>4 DEF HandleEvent, EventSession, EventContents
<1>7. PICK c : c = Hands(cut, s, pressed)
  OBVIOUS
<1>8. PICK c2 : c2 = Hands(cut', current_session', pressed')
  OBVIOUS
<1>9. /\ c.cut = cut /\ c.current = s /\ c.pressed = pressed
       /\ c2.cut = cut /\ c2.current = s /\ c2.pressed = pressed'
  BY <1>6, <1>7, <1>8 DEF Hands
<1>10. /\ ObjectsInv(o, n, l, sessions \cup {s}, lost, c)
      /\ s \in 1..l /\ sessions \in SUBSET (1..l) /\ o.session[s] = d
      /\ \A r \in sessions \ {s} : o.session[r] = session[r] /\ r # current_session
  BY <1>2, <1>3, <1>4, <1>5, <1>7 DEF EventOpens
<1>11. d \in SessionType(n) /\ d.in_play /\ ~d.to_be_deleted /\ ~d.terminated
  BY <1>2, <1>4 DEF EventOpens
<1>12. /\ o.session = [r \in DOMAIN session \cup {s} |-> IF r # s THEN session[r] ELSE d]
      /\ o.motion = motion /\ o.freed = freed /\ o.sound = sound
  BY <1>3, <1>4, <1>5 DEF EventObjects
<1>13. sessions' \in SUBSET (1..l)
  BY <1>6, <1>10
<1>14. PICK g : g = d.finger[f]
  OBVIOUS
<1>15. g \in FingerType(n)
  BY <1>14, <1>11 DEF SessionType
<1>16. d.position \in Int
  BY <1>11 DEF SessionType
<1>17. \E i \in Nat :
         /\ StateOf(i, l)'
         /\ \A r \in sessions' : /\ session'[r].in_play = o.session[r].in_play
                                 /\ session'[r].terminated = o.session[r].terminated
                                 /\ session'[r].to_be_deleted = o.session[r].to_be_deleted
  <2>1. CASE type = "press"
    <3>1. PICK h : h = PressedBy(g, n + 1)
      OBVIOUS
    <3>2. PICK p : p = NewMotion(d.position + 1, x)
      OBVIOUS
    <3>3. PICK d2 : d2 = [d EXCEPT !.finger[f] = h]
      OBVIOUS
    <3>4. /\ motion' = Append(motion, p)
          /\ session' = [r \in DOMAIN session \cup {s} |-> IF r # s THEN session[r] ELSE d2]
          /\ lost' = IF g.current = NULL THEN lost ELSE lost \cup {g.current}
      <4>1. FingerEvent(d, f, "press", x) /\ "press" \notin {"slide", "release"}
        BY <1>6, <2>1
      <4> QED BY <1>1, <1>6, <1>14, <3>1, <3>2, <3>3, <4>1 DEF FingerEvent, PressedBy
    <3>5. lost' = lost \cup ({g.current} \ {NULL})
      BY <3>4
    <3>6. session' = WithFinger(o.session, s, f, h)
      <4>1. PICK D : D = DOMAIN session \cup {s}
        OBVIOUS
      <4>2. s \in D
        BY <4>1
      <4>3. o.session = [r \in D |-> IF r # s THEN session[r] ELSE d]
        BY <1>12, <4>1
      <4>4. WithFinger(o.session, s, f, h) = [o.session EXCEPT ![s] = d2]
        BY <1>10, <3>3 DEF WithFinger
      <4>5. session' = [r \in D |-> IF r # s THEN session[r] ELSE d2]
        BY <3>4, <4>1
      <4> QED BY <4>2, <4>3, <4>4, <4>5
    <3>7. Objects' = PressedIn(o, s, f, h, p)
      BY <1>6, <1>12, <3>4, <3>6 DEF Objects, PressedIn
    <3>8. NewMotionOf(p, d.position + 1)
      <4>1. d.position + 1 \in Int
        BY <1>16
      <4> QED BY <3>2, <4>1, NewMotionView
    <3>9. ObjectsInv(PressedIn(o, s, f, h, p), n + 1, l, sessions', lost', c2)
      <4>1. ObjectsInv(o, n, l, sessions', lost, c) /\ s \in sessions'
        BY <1>6, <1>10
      <4>3. /\ f \notin c.pressed /\ c2.cut = c.cut /\ c2.current = s /\ c.current = s
            /\ c2.pressed = c.pressed \cup {f}
        <5>1. type # "release"
          BY <2>1
        <5> QED BY <1>6, <1>9, <2>1, <5>1
      <4>2. g = o.session[s].finger[f] /\ o.session[s].in_play
        BY <1>10, <1>14, <1>11, Zenon
      <4>4. PICK S : S = sessions'
        OBVIOUS
      <4>5. PICK out2 : out2 = lost'
        OBVIOUS
      <4>6. PICK q : q = PressedIn(o, s, f, h, p)
        OBVIOUS
      <4>7. PICK t : t = d.position + 1
        OBVIOUS
      <4>8. /\ S \in SUBSET (1..l) /\ ObjectsInv(o, n, l, S, lost, c) /\ s \in S
            /\ NewMotionOf(p, t) /\ out2 = lost \cup ({g.current} \ {NULL})
        BY <1>13, <3>5, <3>8, <4>1, <4>4, <4>5, <4>7
      <4>10. FingerDown(c2, c, s, f)
        BY <4>3 DEF FingerDown
      <4>9. ObjectsInv(q, n + 1, l, S, out2, c2)
        BY <3>1, <4>2, <4>6, <4>8, <4>10, PressStep
      <4> QED BY <4>4, <4>5, <4>6, <4>9
    <3>10. StateOf(n + 1, l)'
      <4>1. n + 1 \in Nat
        OBVIOUS
      <4> QED BY <1>13, <1>8, <3>7, <3>9, <4>1, ObjectsNext
    <3>11. \A r \in sessions' : /\ session'[r].in_play = o.session[r].in_play
                                /\ session'[r].terminated = o.session[r].terminated
                                /\ session'[r].to_be_deleted = o.session[r].to_be_deleted
      <4>1. o.session \in [1..l -> SessionType(n)]
        BY <1>10 DEF ObjectsInv, ObjectsType
      <4>2. o.session \in [1..l -> SessionType(n + 1)] /\ n + 1 \in Nat
        BY <4>1, MoreMotions
      <4>3. h \in FingerType(n + 1)
        <5>1. IsInjective(g.playing)
          BY <1>10, <1>14 DEF ObjectsInv, FingersOK, FingerOK, PlayingOK
        <5> QED BY <1>15, <3>1, <5>1, PressedByView DEF PressOf
      <4>4. DifferAt(WithFinger(o.session, s, f, h), o.session, n + 1, l, s, f, h)
        BY <1>10, <4>2, <4>3, WithFingerView
      <4> QED BY <1>13, <3>6, <4>4 DEF DifferAt
    <3> QED BY <3>10, <3>11
  <2>2. CASE type # "press"
    <3>1. type \in {"slide", "release"}
      BY <2>2
    <3>2. /\ session' = [r \in DOMAIN session \cup {s} |-> IF r # s THEN session[r] ELSE d]
          /\ lost' = lost
          /\ motion' = IF g.current = NULL THEN motion
                       ELSE [motion EXCEPT ![g.current] = IF type = "slide" THEN AddPosition(@, x)
                                                          ELSE Terminated(AddPosition(@, x))]
      BY <1>6, <1>14, <2>2, <3>1 DEF FingerEvent
    <3>3. session' = o.session
      BY <1>12, <3>2
    <3>4. ObjectsInv(o, n, l, sessions', lost', c) /\ s \in sessions'
      BY <1>6, <1>10, <3>2
    <3>5. PICK q : q = Objects'
      OBVIOUS
    <3>6. q = [session |-> o.session, motion |-> motion', freed |-> o.freed, sound |-> o.sound]
      BY <1>6, <1>12, <3>3, <3>5 DEF Objects
    <3>9. ASSUME ObjectsInv(q, n, l, sessions', lost', c),
                 type = "release" => g.current = NULL \/ q.motion[g.current].terminated
          PROVE  ObjectsInv(q, n, l, sessions', lost', c2)
      <4>1. g = q.session[s].finger[f]
        BY <1>10, <1>14, <3>6
      <4>2. CASE type = "release"
        <5>1. /\ c2.cut = c.cut /\ c2.current = c.current /\ c.current = s
              /\ c.pressed \subseteq c2.pressed \cup {f}
          BY <1>6, <1>9, <4>2
        <5> QED BY <1>13, <3>4, <3>9, <4>1, <4>2, <5>1, FingerUp
      <4>3. CASE type # "release"
        <5>1. f \in pressed /\ pressed' = pressed
          BY <1>6, <2>2, <4>3
        <5>2. c2 = c
          BY <1>6, <1>7, <1>8, <5>1
        <5> QED BY <3>9, <5>2
      <4> QED BY <4>2, <4>3
    <3>7. ObjectsInv(q, n, l, sessions', lost', c2)
      <4>1. CASE g.current = NULL
        <5>1. motion' = o.motion
          BY <1>12, <3>2, <4>1
        <5>2. o = [session |-> o.session, motion |-> o.motion, freed |-> o.freed, sound |-> o.sound]
          BY <1>5 DEF EventObjects
        <5>3. q = o
          BY <3>6, <5>1, <5>2
        <5> QED BY <3>4, <3>9, <4>1, <5>3
      <4>2. CASE g.current # NULL
        <5>1. PICK m \in 1..n : m = g.current
          BY <1>15, <4>2 DEF FingerType
        <5>2. o.motion \in [1..n -> MotionType]
          BY <1>10 DEF ObjectsInv, ObjectsType
        <5>3. PICK p : p = IF type = "slide" THEN AddPosition(o.motion[m], x)
                           ELSE Terminated(AddPosition(o.motion[m], x))
          OBVIOUS
        <5>4. MovedOn(p, o.motion[m]) /\ (type = "release" => p.terminated)
          BY <5>2, <5>3, SlideView
        <5>5. motion' = [o.motion EXCEPT ![m] = p]
          BY <1>12, <3>2, <4>2, <5>1, <5>3
        <5>6. q = Moving(o, m, p)
          BY <3>6, <5>5 DEF Moving
        <5>7. ObjectsInv(q, n, l, sessions', lost', c)
          BY <1>13, <3>4, <5>4, <5>6, MoveStep
        <5>8. q.motion[m] = p
          BY <3>6, <5>2, <5>5
        <5> QED BY <3>9, <5>1, <5>4, <5>7, <5>8
      <4> QED BY <4>1, <4>2
    <3>8. StateOf(n, l)'
      BY <1>13, <1>8, <3>5, <3>7, ObjectsNext
    <3> QED BY <3>3, <3>8
  <2> QED BY <2>1, <2>2
<1>18. SessionsInv'
  <2>1. \A r \in sessions \ {current_session} : session[r].terminated \/ session[r].to_be_deleted
    BY DEF PadInv, SessionsInv
  <2>2. /\ s \in sessions' /\ session'[s].in_play /\ ~session'[s].to_be_deleted
        /\ ~session'[s].terminated
    <3>1. s \in sessions' /\ o.session[s] = d
      BY <1>6, <1>10, Zenon
    <3> QED BY <1>17, <1>11, <3>1, Zenon
  <2>3. \A r \in sessions' \ {s} : session'[r].terminated \/ session'[r].to_be_deleted
    BY <1>6, <1>10, <1>17, <2>1
  <2> QED BY <1>6, <2>2, <2>3 DEF SessionsInv
<1>19. ExportReturns'
  BY <1>6 DEF ExportReturns
<1>20. tick' \in Int /\ mute' \in BOOLEAN /\ do_record' \in BOOLEAN /\ do_quantize' \in BOOLEAN
  BY <1>6 DEF PadInv
<1> QED BY <1>17, <1>18, <1>19, <1>20, PadInvNext

-----------------------------------------------------------------------------
(* A new pad, or a loaded one                                              *)

LoadedAs(p) ==
  /\ p \in MotionType /\ p.index = -1 /\ p.terminated /\ p.to_be_deleted = FALSE
  /\ Len(p.at) \in Nat

LEMMA LoadedMotionView ==
  ASSUME NEW x \in Columns
  PROVE  LoadedAs(LoadedMotion(x)) /\ LoadedAs([LoadedMotion(x) EXCEPT !.start = 1])
<1>1. PICK p : p = NewMotion(0, x)
  OBVIOUS
<1>2. p \in MotionType /\ ~p.to_be_deleted
  BY <1>1, NewMotionView DEF NewMotionOf
<1>3. PICK q : q = Stopped(p)
  OBVIOUS
<1>4. q \in MotionType /\ ~q.to_be_deleted /\ q.index = -1
  BY <1>2, <1>3, StoppedView
<1>5. q.at \in Seq(PositionType) /\ q.to_be_deleted \in BOOLEAN
  BY <1>4 DEF MotionType
<1>6. PICK pos : pos = [t |-> 1, x |-> x]
  OBVIOUS
<1>7. pos \in PositionType
  BY <1>6 DEF PositionType
<1>8. PICK at : at = Append(q.at, pos)
  OBVIOUS
<1>9. at \in Seq(PositionType) /\ Len(at) \in Nat
  BY <1>5, <1>7, <1>8
<1>10. PICK r : r = LoadedMotion(x)
  OBVIOUS
<1>11. r = [q EXCEPT !.at = at, !.terminated = TRUE]
  BY <1>1, <1>3, <1>6, <1>8, <1>10 DEF LoadedMotion
<1>12. /\ r \in MotionType /\ r.index = -1 /\ r.terminated = TRUE /\ r.to_be_deleted = FALSE /\ r.at = at
  BY <1>4, <1>5, <1>9, <1>11 DEF MotionType
<1>13. PICK u : u = [r EXCEPT !.start = 1]
  OBVIOUS
<1>14. /\ u \in MotionType /\ u.index = -1 /\ u.terminated = TRUE /\ u.to_be_deleted = FALSE /\ u.at = at
  <2>1. 1 \in Int
    OBVIOUS
  <2> QED BY <1>12, <1>13, <2>1 DEF MotionType
<1> QED BY <1>9, <1>10, <1>12, <1>13, <1>14 DEF LoadedAs

FirstFinger(f) == [NoFinger EXCEPT !.recorded = IF f = 0 THEN <<1>> ELSE <<>>]

LEMMA FirstFingerView ==
  ASSUME NEW f
  PROVE  LET g == FirstFinger(f)
         IN /\ g \in FingerType(1) /\ g.playing = <<>> /\ g.next = NULL /\ g.current = NULL
            /\ g.recorded = IF f = 0 THEN <<1>> ELSE <<>>
<1>1. PICK l : l = IF f = 0 THEN <<1>> ELSE <<>>
  OBVIOUS
<1>2. l \in Seq(1..1)
  <2>1. 1 \in 1..1
    OBVIOUS
  <2>2. <<1>> \in Seq(1..1) /\ <<>> \in Seq(1..1)
    BY <2>1
  <2> QED BY <1>1, <2>2
<1>3. FirstFinger(f) = [NoFinger EXCEPT !.recorded = l]
  BY <1>1 DEF FirstFinger
<1>4. FirstFinger(f) = [recorded |-> l, next |-> NULL, playing |-> <<>>, current |-> NULL, mixed |-> FALSE]
  BY <1>3 DEF NoFinger
<1> QED BY <1>1, <1>2, <1>4 DEF FingerType

HasFirst(d) == d \in SessionType(1) /\ \A f \in Fingers : d.finger[f] = FirstFinger(f)

LEMMA FirstSessionView ==
  /\ HasFirst(LoadedSession) /\ LoadedSession.terminated = TRUE
  /\ HasFirst(RecordingSession) /\ RecordingSession.in_play = TRUE
  /\ RecordingSession.terminated = FALSE /\ RecordingSession.to_be_deleted = FALSE
<1>1. PICK fs : fs = [f \in Fingers |-> FirstFinger(f)]
  OBVIOUS
<1>2. fs \in [Fingers -> FingerType(1)] /\ \A f \in Fingers : fs[f] = FirstFinger(f)
  BY <1>1, FirstFingerView
<1>3. PICK d : d = NewSession(Begin)
  OBVIOUS
<1>4. d \in SessionType(1) /\ d.in_play = TRUE /\ d.terminated = FALSE /\ d.to_be_deleted = FALSE
  <2>1. Begin \in Int
    BY PadAssumption DEF Begin
  <2> QED BY <1>3, <2>1, GoneTypes DEF NewSession
<1>5. FirstRecorded = fs
  BY <1>1 DEF FirstRecorded, FirstFinger
<1>6. TRUE \in BOOLEAN /\ FALSE \in BOOLEAN /\ 3 \in Int
  OBVIOUS
<1>7. PICK e : e = LoadedSession
  OBVIOUS
<1>8. e = [d EXCEPT !.in_play = FALSE, !.terminated = TRUE, !.finger = fs]
  BY <1>3, <1>5, <1>7 DEF LoadedSession
<1>9. e \in SessionType(1) /\ e.terminated = TRUE /\ e.finger = fs
  BY <1>2, <1>4, <1>6, <1>8 DEF SessionType
<1>10. PICK r : r = RecordingSession
  OBVIOUS
<1>11. r = [d EXCEPT !.position = 3, !.finger = fs]
  BY <1>3, <1>5, <1>10 DEF RecordingSession
<1>12. /\ r \in SessionType(1) /\ r.finger = fs
       /\ r.in_play = TRUE /\ r.terminated = FALSE /\ r.to_be_deleted = FALSE
  BY <1>2, <1>4, <1>6, <1>11 DEF SessionType
<1> QED BY <1>2, <1>7, <1>9, <1>10, <1>12 DEF HasFirst

(* One session with one motion, which does not play.                       *)
LEMMA FirstStateOf ==
  ASSUME NEW p, LoadedAs(p), NEW d, HasFirst(d), motion = <<p>>, session = <<d>>, sessions = {1},
         freed = {}, sound = {}, lost = {}
  PROVE  StateOf(1, 1) /\ Len(motion) = 1 /\ Len(session) = 1 /\ session[1] = d
<1>1. PICK o : o = Objects
  OBVIOUS
<1>2. /\ o = [session |-> session, motion |-> motion, freed |-> {}, sound |-> {}]
      /\ o.session = session /\ o.motion = motion /\ o.freed = {} /\ o.sound = {}
  BY <1>1 DEF Objects
<1>3. p \in MotionType /\ p.index = -1 /\ p.terminated /\ ~p.to_be_deleted /\ Len(p.at) \in Nat
  BY DEF LoadedAs
<1>4. d \in SessionType(1) /\ \A f \in Fingers : d.finger[f] = FirstFinger(f)
  BY DEF HasFirst
<1>5. /\ session \in [1..1 -> SessionType(1)] /\ motion \in [1..1 -> MotionType]
      /\ Len(session) = 1 /\ Len(motion) = 1 /\ DOMAIN motion = 1..1
      /\ session[1] = d /\ motion[1] = p
  <2>1. <<d>> \in Seq(SessionType(1)) /\ <<p>> \in Seq(MotionType) /\ Len(<<d>>) = 1 /\ Len(<<p>>) = 1
    BY <1>3, <1>4
  <2> QED BY <2>1
<1>6. o \in ObjectsType(1, 1)
  BY <1>2, <1>5 DEF ObjectsType
<1>7. \A m \in 1..1 : m = 1
  OBVIOUS
<1>8. IndexOK(o)
  <2>1. -1 \in -1..Len(p.at)
    BY <1>3
  <2> QED BY <1>2, <1>3, <1>5, <1>7, <2>1 DEF IndexOK
<1>9. ASSUME NEW f \in Fingers
      PROVE  /\ ToSet(d.finger[f].recorded) \subseteq {1} /\ ToSet(d.finger[f].playing) = {}
             /\ d.finger[f].current = NULL /\ d.finger[f].next = NULL /\ d.finger[f].playing = <<>>
             /\ IsInjective(d.finger[f].recorded) /\ IsInjective(d.finger[f].playing)
             /\ Len(d.finger[f].recorded) \in {0, 1}
             /\ f # 0 => d.finger[f].recorded = <<>>
             /\ f = 0 => d.finger[f].recorded = <<1>>
  <2>1. PICK g : g = d.finger[f]
    OBVIOUS
  <2>2. /\ g.playing = <<>> /\ g.next = NULL /\ g.current = NULL
        /\ g.recorded = IF f = 0 THEN <<1>> ELSE <<>>
    BY <1>4, <2>1, FirstFingerView
  <2>3. ToSet(g.playing) = {} /\ IsInjective(g.playing)
    BY <2>2 DEF ToSet, IsInjective
  <2>4. ToSet(g.recorded) \subseteq {1} /\ IsInjective(g.recorded) /\ Len(g.recorded) \in {0, 1}
    <3>1. CASE f = 0
      <4>1. g.recorded = <<1>> /\ Len(<<1>>) = 1 /\ DOMAIN <<1>> = 1..1 /\ <<1>>[1] = 1
        BY <2>2, <3>1
      <4> QED BY <1>7, <4>1 DEF ToSet, IsInjective
    <3>2. CASE f # 0
      BY <2>2, <3>2 DEF ToSet, IsInjective
    <3> QED BY <3>1, <3>2
  <2> QED BY <2>1, <2>2, <2>3, <2>4
<1>10. FingersOK(o, {1}, {})
  <2> SUFFICES ASSUME NEW f \in Fingers
               PROVE  FingerOK(motion, d.finger[f], {}, {}, d.in_play)
    BY <1>2, <1>5 DEF FingersOK
  <2>1. PICK g : g = d.finger[f]
    OBVIOUS
  <2>2. /\ ToSet(g.recorded) \subseteq {1} /\ ToSet(g.playing) = {}
        /\ g.current = NULL /\ g.next = NULL /\ g.playing = <<>>
        /\ IsInjective(g.recorded) /\ IsInjective(g.playing) /\ Len(g.recorded) \in {0, 1}
    BY <1>9, <2>1
  <2>3. motion[1].terminated /\ ~motion[1].to_be_deleted /\ motion[1].index = -1
    BY <1>3, <1>5
  <2>4. RecordedOK(motion, g)
    <3>1. NULL # 1
      BY PadAssumption
    <3> QED BY <2>2, <2>3, <3>1 DEF RecordedOK
  <2>5. PlayingOK(motion, g, {})
    BY <2>2 DEF PlayingOK
  <2>6. InOrderOf(motion, g)
    <3>1. PICK l : l = Len(g.recorded)
      OBVIOUS
    <3>2. l = 0 \/ l = 1
      BY <2>2, <3>1
    <3>3. \A i, j \in 1..l : ~(i < j)
      BY <3>2
    <3> QED BY <3>1, <3>3 DEF InOrderOf
  <2> QED BY <2>1, <2>2, <2>4, <2>5, <2>6 DEF FingerOK
<1>11. \A f \in Fingers : /\ f # 0 => Has(d.finger[f]) = {}
                          /\ f = 0 => 1 \in Has(d.finger[f])
  <2> SUFFICES ASSUME NEW f \in Fingers
               PROVE  /\ f # 0 => Has(d.finger[f]) = {}
                      /\ f = 0 => 1 \in Has(d.finger[f])
    OBVIOUS
  <2>1. ToSet(<<>>) = {} /\ 1 \in ToSet(<<1>>)
    BY DEF ToSet
  <2> QED BY <1>9, <2>1 DEF Has
<1>12. MotionsApart(o, {1})
  BY <1>2, <1>5, <1>11 DEF MotionsApart
<1>13. Covered(o, {1}, {})
  <2>1. 0 \in Fingers /\ 1 \in Has(d.finger[0])
    BY <1>11, PadAssumption
  <2> QED BY <1>2, <1>5, <1>7, <2>1 DEF Covered
<1>14. PICK c : c = Hands(cut, current_session, pressed)
  OBVIOUS
<1>15. SoundOK(o, {1}, c)
  BY <1>2 DEF SoundOK
<1>16. HeldOK(o, {1}, c)
  BY <1>2, <1>5, <1>9 DEF HeldOK, HeldBy
<1>17. ObjectsInv(o, 1, 1, {1}, {}, c)
  BY <1>6, <1>8, <1>10, <1>12, <1>13, <1>15, <1>16 DEF ObjectsInv
<1>18. {1} \in SUBSET (1..1)
  OBVIOUS
<1> QED BY <1>1, <1>5, <1>14, <1>17, <1>18 DEF StateOf

LEMMA LoopTicks == Begin \in Int /\ Begin + (4 % (End - Begin)) \in Int
<1>1. PICK a \in Nat, b \in Nat, d \in Nat \ {0} : a = LoopStart /\ b = LoopEnd /\ d = TicksPerLine /\ a < b
  BY PadAssumption
<1>2. d * (a + 1) <= d * b
  BY <1>1, LinesOrder
<1>3. d * (a + 1) = d * a + d
  OBVIOUS
<1>4. d * a \in Int /\ d * b \in Int /\ a * d = d * a /\ b * d = d * b
  OBVIOUS
<1>5. PICK x \in Int, y \in Int : x = d * a /\ y = d * b
  BY <1>4
<1>6. x + d <= y
  BY <1>2, <1>3, <1>5
<1>7. y - x \in Nat \ {0}
  BY <1>5, <1>6
<1>8. Begin = x /\ End = y
  BY <1>1, <1>4, <1>5 DEF Begin, End
<1>9. 4 % (y - x) \in Int
  BY <1>7
<1> QED BY <1>5, <1>8, <1>9

LEMMA PadInitStep ==
  ASSUME PadInit
  PROVE  PadInv
<1>1. /\ mute = FALSE /\ do_record \in BOOLEAN /\ do_quantize \in BOOLEAN
      /\ freed = {} /\ sound = {} /\ hung = FALSE /\ lost = {} /\ cut = {}
  BY DEF PadInit
<1>2. tick \in Int
  BY LoopTicks DEF PadInit
<1>3. ExportReturns
  BY <1>1 DEF ExportReturns
<1>4. CASE current_session = NULL /\ sessions = {} /\ session = <<>> /\ motion = <<>>
  <2>1. PICK o : o = Objects
    OBVIOUS
  <2>2. /\ o = [session |-> session, motion |-> motion, freed |-> {}, sound |-> {}]
        /\ o.session = session /\ o.motion = motion /\ o.freed = {} /\ o.sound = {}
    BY <1>1, <2>1 DEF Objects
  <2>3. /\ session \in [1..0 -> SessionType(0)] /\ motion \in [1..0 -> MotionType]
        /\ Len(session) = 0 /\ Len(motion) = 0 /\ DOMAIN motion = {}
    <3>1. <<>> \in Seq(SessionType(0)) /\ <<>> \in Seq(MotionType) /\ Len(<<>>) = 0
      OBVIOUS
    <3> QED BY <1>4, <3>1
  <2>4. o \in ObjectsType(0, 0)
    BY <2>2, <2>3 DEF ObjectsType
  <2>5. PICK c : c = Hands(cut, current_session, pressed)
    OBVIOUS
  <2>6. /\ IndexOK(o) /\ FingersOK(o, {}, {}) /\ MotionsApart(o, {}) /\ Covered(o, {}, {})
        /\ SoundOK(o, {}, c) /\ HeldOK(o, {}, c)
    BY <2>2, <2>3 DEF IndexOK, FingersOK, MotionsApart, Covered, SoundOK, HeldOK
  <2>7. StateOf(0, 0)
    BY <1>1, <1>4, <2>1, <2>3, <2>4, <2>5, <2>6 DEF StateOf, ObjectsInv
  <2>8. SessionsInv
    BY <1>4 DEF SessionsInv
  <2>9. \E n \in {Len(motion)}, k \in {Len(session)} : n \in Nat /\ k \in Nat /\ StateOf(n, k)
    BY <2>3, <2>7
  <2> QED BY <1>1, <1>2, <1>3, <2>8, <2>9 DEF PadInv
<1>5. ASSUME StateOf(1, 1), Len(motion) = 1, Len(session) = 1, SessionsInv
      PROVE  PadInv
  <2>1. \E n \in {Len(motion)}, k \in {Len(session)} : n \in Nat /\ k \in Nat /\ StateOf(n, k)
    BY <1>5
  <2> QED BY <1>1, <1>2, <1>3, <1>5, <2>1 DEF PadInv
<1>6. CASE /\ current_session = NULL /\ sessions = {1} /\ session = <<LoadedSession>>
           /\ \E x \in Columns : motion = <<LoadedMotion(x)>>
  <2>1. PICK x \in Columns : motion = <<LoadedMotion(x)>>
    BY <1>6
  <2>2. LoadedAs(LoadedMotion(x)) /\ HasFirst(LoadedSession) /\ LoadedSession.terminated
    BY LoadedMotionView, FirstSessionView
  <2>3. StateOf(1, 1) /\ Len(motion) = 1 /\ Len(session) = 1 /\ session[1] = LoadedSession
    BY <1>1, <1>6, <2>1, <2>2, FirstStateOf
  <2>4. SessionsInv
    BY <1>6, <2>2, <2>3 DEF SessionsInv
  <2> QED BY <1>5, <2>3, <2>4
<1>7. CASE /\ current_session = 1 /\ sessions = {1} /\ session = <<RecordingSession>>
           /\ \E x \in Columns : motion = <<[LoadedMotion(x) EXCEPT !.start = 1]>>
  <2>1. PICK x \in Columns : motion = <<[LoadedMotion(x) EXCEPT !.start = 1]>>
    BY <1>7
  <2>2. /\ LoadedAs([LoadedMotion(x) EXCEPT !.start = 1]) /\ HasFirst(RecordingSession)
        /\ RecordingSession.in_play /\ ~RecordingSession.terminated /\ ~RecordingSession.to_be_deleted
    BY LoadedMotionView, FirstSessionView
  <2>3. StateOf(1, 1) /\ Len(motion) = 1 /\ Len(session) = 1 /\ session[1] = RecordingSession
    BY <1>1, <1>7, <2>1, <2>2, FirstStateOf
  <2>4. SessionsInv
    BY <1>7, <2>2, <2>3 DEF SessionsInv
  <2> QED BY <1>5, <2>3, <2>4
<1> QED BY <1>4, <1>6, <1>7 DEF PadInit

-----------------------------------------------------------------------------
(* What the invariant says of the motions and the notes                    *)

LEMMA InjectiveCount ==
  ASSUME NEW T, NEW s \in Seq(T), IsInjective(s)
  PROVE  Cardinality(ToSet(s)) = Len(s)
<1>1. PICK l \in Nat : l = Len(s)
  BY ToSetView
<1>2. s \in [1..l -> ToSet(s)]
  BY <1>1, ToSetView
<1>3. s \in Bijection(1..l, ToSet(s))
  <2>1. s \in Injection(1..l, ToSet(s))
    BY <1>2 DEF Injection
  <2>2. s \in Surjection(1..l, ToSet(s))
    BY <1>1, <1>2, ToSetView DEF Surjection
  <2> QED BY <2>1, <2>2 DEF Bijection
<1>4. ExistsBijection(1..l, ToSet(s))
  BY <1>3 DEF ExistsBijection
<1> QED BY <1>1, <1>4, FS_CountingElements

FingerPointers(g) == ToSet(g.recorded) \cup ToSet(g.playing) \cup {g.next, g.current}

LEMMA PointersView ==
  ASSUME NEW d
  PROVE  \A m : m \in Pointers(d) <=> m # NULL /\ \E f \in Fingers : m \in FingerPointers(d.finger[f])
<1>1. Pointers(d) = (UNION {FingerPointers(d.finger[f]) : f \in Fingers}) \ {NULL}
  BY DEF Pointers, FingerPointers
<1> QED BY <1>1

LEMMA PadInvOwned ==
  ASSUME PadInv
  PROVE  MotionsOwned
<1>1. PICK n \in Nat, k \in Nat : n = Len(motion) /\ k = Len(session) /\ StateOf(n, k)
  BY PadInvView
<1>2. PICK o : o = Objects
  OBVIOUS
<1>3. /\ o.session = session /\ o.motion = motion /\ o.freed = freed /\ o.sound = sound
      /\ FingersOK(o, sessions, lost) /\ MotionsApart(o, sessions) /\ Covered(o, sessions, lost)
      /\ session \in [1..k -> SessionType(n)] /\ motion \in [1..n -> MotionType]
      /\ sessions \in SUBSET (1..k)
  BY <1>1, <1>2 DEF StateOf, ObjectsInv, Objects
<1>4. \A s \in sessions, f \in Fingers :
        /\ session[s].finger[f] \in FingerType(n)
        /\ FingerOK(motion, session[s].finger[f], freed, lost, session[s].in_play)
  BY <1>3 DEF SessionType, FingersOK
<1>5. ASSUME NEW s \in sessions, NEW m \in Pointers(session[s])
      PROVE  \E f \in Fingers : m \in Has(session[s].finger[f])
  <2>1. PICK f \in Fingers : m \in FingerPointers(session[s].finger[f])
    BY <1>5, PointersView
  <2>2. m # NULL
    BY <1>5, PointersView
  <2>3. RecordedOK(motion, session[s].finger[f])
    BY <1>4 DEF FingerOK
  <2>4. m \in Has(session[s].finger[f])
    BY <2>1, <2>2, <2>3 DEF RecordedOK, Has, FingerPointers
  <2> QED BY <2>4
<1>6. \A s \in sessions : Pointers(session[s]) \cap freed = {}
  BY <1>4, <1>5 DEF FingerOK
<1>7. \A s, r \in sessions : s # r => Pointers(session[s]) \cap Pointers(session[r]) = {}
  <2> SUFFICES ASSUME NEW s \in sessions, NEW r \in sessions, NEW m \in Pointers(session[s]),
                      m \in Pointers(session[r])
               PROVE  s = r
    OBVIOUS
  <2>1. PICK f \in Fingers : m \in Has(session[s].finger[f])
    BY <1>5
  <2>2. PICK h \in Fingers : m \in Has(session[r].finger[h])
    BY <1>5
  <2> QED BY <1>3, <2>1, <2>2, HasOne
<1>8. \A s \in sessions, f \in Fingers :
        LET g == session[s].finger[f]
        IN g.current \notin ToSet(g.recorded) /\ Cardinality(ToSet(g.recorded)) = Len(g.recorded)
  <2> SUFFICES ASSUME NEW s \in sessions, NEW f \in Fingers, NEW g, g = session[s].finger[f]
               PROVE  g.current \notin ToSet(g.recorded) /\ Cardinality(ToSet(g.recorded)) = Len(g.recorded)
    OBVIOUS
  <2>1. g.current \notin ToSet(g.recorded) /\ IsInjective(g.recorded)
    BY <1>4 DEF FingerOK, RecordedOK
  <2>2. g.recorded \in Seq(1..n)
    BY <1>4 DEF FingerType
  <2> QED BY <2>1, <2>2, InjectiveCount
<1>9. \A m \in DOMAIN motion \ (freed \cup lost) : \E s \in sessions : m \in Pointers(session[s])
  <2> SUFFICES ASSUME NEW m \in DOMAIN motion \ (freed \cup lost)
               PROVE  \E s \in sessions : m \in Pointers(session[s])
    OBVIOUS
  <2>1. PICK s \in sessions, f \in Fingers : m \in Has(session[s].finger[f])
    BY <1>3 DEF Covered
  <2>2. m # NULL
    BY <1>3, PadAssumption
  <2>3. m \in Pointers(session[s])
    <3>1. m \in FingerPointers(session[s].finger[f])
      BY <2>1 DEF Has, FingerPointers
    <3> QED BY <2>2, <3>1, PointersView
  <2> QED BY <2>3
<1> QED BY <1>6, <1>7, <1>8, <1>9 DEF MotionsOwned

LEMMA PadInvSilent ==
  ASSUME PadInv
  PROVE  SilentAfterwards
<1>1. PICK n \in Nat, k \in Nat : n = Len(motion) /\ k = Len(session) /\ StateOf(n, k)
  BY PadInvView
<1>2. PICK o : o = Objects
  OBVIOUS
<1>3. PICK c : c = Hands(cut, current_session, pressed)
  OBVIOUS
<1>4. /\ o.session = session /\ o.motion = motion /\ o.sound = sound /\ o.freed = freed
      /\ SoundOK(o, sessions, c) /\ HeldOK(o, sessions, c) /\ FingersOK(o, sessions, lost)
      /\ motion \in [1..n -> MotionType] /\ session \in [1..k -> SessionType(n)] /\ sessions \in SUBSET (1..k)
  BY <1>1, <1>2, <1>3 DEF StateOf, ObjectsInv, Objects
<1>5. c.cut = cut /\ c.current = current_session /\ c.pressed = pressed
  BY <1>3 DEF Hands
<1>6. ASSUME NEW e \in sound, e[1] \notin cut, NEW m, m = e[1]
      PROVE  \E s \in sessions, f \in Fingers :
               /\ session[s].in_play /\ m \in ToSet(session[s].finger[f].playing)
               /\ IF motion[m].terminated THEN motion[m].index < Len(motion[m].at)
                  ELSE s = current_session /\ m = session[s].finger[f].current /\ f \in pressed
  <2>1. ~Ended(motion[m]) /\ \E s \in sessions, f \in Fingers : m \in ToSet(session[s].finger[f].playing)
    BY <1>4, <1>5, <1>6 DEF SoundOK
  <2>2. PICK s \in sessions, f \in Fingers : m \in ToSet(session[s].finger[f].playing)
    BY <2>1
  <2>3. PICK g : g = session[s].finger[f]
    OBVIOUS
  <2>4. g \in FingerType(n) /\ FingerOK(motion, g, freed, lost, session[s].in_play)
    BY <1>4, <2>3 DEF FingersOK, SessionType
  <2>5. session[s].in_play
    <3>1. g.playing # <<>>
      BY <2>2, <2>3 DEF ToSet
    <3> QED BY <2>4, <3>1 DEF FingerOK
  <2>6. m \in 1..n
    BY <2>2, <2>3, <2>4, FingerMotions
  <2>7. motion[m].terminated => motion[m].index < Len(motion[m].at)
    <3>1. motion[m] \in MotionType
      BY <1>4, <2>6
    <3>2. motion[m].index \in Int /\ motion[m].at \in Seq(PositionType)
      BY <3>1 DEF MotionType
    <3> QED BY <2>1, <3>2 DEF Ended
  <2>8. HeldBy(motion, g, s, f, c)
    BY <1>4, <2>3 DEF HeldOK
  <2>9. ~motion[m].terminated => s = current_session /\ m = g.current /\ f \in pressed
    BY <1>5, <1>6, <2>2, <2>3, <2>8 DEF HeldBy
  <2> QED BY <2>2, <2>3, <2>5, <2>7, <2>9
<1> QED BY <1>6 DEF SilentAfterwards

-----------------------------------------------------------------------------
(* The folds: one pass of process_sessions, and what deletes every session.*)
(* Each stays in the sets that its steps stay in.                          *)

Position == INSTANCE ListLemmas WITH Op <- PlayPosition
LEMMA PositionStays ==
  ASSUME NEW T, NEW s \in Seq(T), NEW base, NEW I, base \in I[0],
         \A k \in 1..Len(s) : \A q \in I[k - 1] : PlayPosition(q, s[k]) \in I[k]
  PROVE  FoldLeft(PlayPosition, base, s) \in I[Len(s)]
<1>1. Position!FoldLeft(PlayPosition, base, s) = FoldLeft(PlayPosition, base, s)
  BY DEF Position!FoldLeft, FoldLeft, Position!MapThenFoldSet, MapThenFoldSet, Position!Max, Max
<1> QED BY <1>1, Position!FoldStays

Motion == INSTANCE ListLemmas WITH Op <- PlayOn
LEMMA MotionStays ==
  ASSUME NEW T, NEW s \in Seq(T), NEW base, NEW I, base \in I[0],
         \A k \in 1..Len(s) : \A q \in I[k - 1] : PlayOn(q, s[k]) \in I[k]
  PROVE  FoldLeft(PlayOn, base, s) \in I[Len(s)]
<1>1. Motion!FoldLeft(PlayOn, base, s) = FoldLeft(PlayOn, base, s)
  BY DEF Motion!FoldLeft, FoldLeft, Motion!MapThenFoldSet, MapThenFoldSet, Motion!Max, Max
<1> QED BY <1>1, Motion!FoldStays

Finger == INSTANCE ListLemmas WITH Op <- ProcessFinger
LEMMA FingerStays ==
  ASSUME NEW T, NEW s \in Seq(T), NEW base, NEW I, base \in I[0],
         \A k \in 1..Len(s) : \A q \in I[k - 1] : ProcessFinger(q, s[k]) \in I[k]
  PROVE  FoldLeft(ProcessFinger, base, s) \in I[Len(s)]
<1>1. Finger!FoldLeft(ProcessFinger, base, s) = FoldLeft(ProcessFinger, base, s)
  BY DEF Finger!FoldLeft, FoldLeft, Finger!MapThenFoldSet, MapThenFoldSet, Finger!Max, Max
<1> QED BY <1>1, Finger!FoldStays

Session == INSTANCE ListLemmas WITH Op <- ProcessSession
LEMMA SessionStays ==
  ASSUME NEW T, NEW s \in Seq(T), NEW base, NEW I, base \in I[0],
         \A k \in 1..Len(s) : \A q \in I[k - 1] : ProcessSession(q, s[k]) \in I[k]
  PROVE  FoldLeft(ProcessSession, base, s) \in I[Len(s)]
<1>1. Session!FoldLeft(ProcessSession, base, s) = FoldLeft(ProcessSession, base, s)
  BY DEF Session!FoldLeft, FoldLeft, Session!MapThenFoldSet, MapThenFoldSet, Session!Max, Max
<1> QED BY <1>1, Session!FoldStays

(* There are no more rounds than positions left: the rounds stay within    *)
(* the motion, and each one keeps the invariant.                           *)
LEMMA ProcessMotionStep ==
  ASSUME NEW n \in Nat, NEW k \in Nat, NEW S \in SUBSET (1..k), NEW out, NEW c,
         NEW o, ObjectsInv(o, n, k, S, out, c), NEW m \in 1..n, Plays(o, S, m), NEW quiet
  PROVE  /\ ObjectsInv(ProcessMotion(o, m, quiet), n, k, S, out, c)
         /\ ProcessMotion(o, m, quiet).session = o.session
<1> DEFINE e == Part(m, quiet)
<1>1. PICK p : p = Ticked(o.motion[m])
  OBVIOUS
<1>2. PICK o1 : o1 = WithMotion(o, m, Ticked(o.motion[m]))
  OBVIOUS
<1>3. PICK d : d = Cardinality(Due(p))
  OBVIOUS
<1>4. PICK es : es = [j \in 1..d |-> e]
  OBVIOUS
<1>5. ProcessMotion(o, m, quiet) = FoldLeft(PlayPosition, o1, es)
  <2>1. ProcessMotion(o, m, quiet) =
          FoldLeft(PlayPosition, WithMotion(o, m, Ticked(o.motion[m])),
                   [j \in 1..Cardinality(Due(Ticked(o.motion[m]))) |-> e])
    BY DEF ProcessMotion, Part, WithMotion
  <2> HIDE DEF e
  <2> QED BY <1>1, <1>2, <1>3, <1>4, <2>1
<1>6. ObjectsInv(o1, n, k, S, out, c) /\ o1.session = o.session /\ o1.motion[m] = p
  BY <1>1, <1>2, TickStep
<1>7. PICK i : i = p.index
  OBVIOUS
<1>8. PICK l : l = Len(p.at)
  OBVIOUS
<1>9. /\ p.index = o.motion[m].index /\ p.at = o.motion[m].at
      /\ i \in 0..l /\ l \in Nat
  <2>1. o.motion[m] \in MotionType
    BY DEF ObjectsInv, ObjectsType
  <2>2. p.index = o.motion[m].index /\ p.at = o.motion[m].at
    BY <1>1, <2>1, TickedView
  <2> QED BY <1>7, <1>8, <2>2, PlaysHasIndex
<1>10. d \in Nat /\ i + d <= l
  <2>1. i + 1 \in Int /\ l \in Int
    BY <1>9
  <2>2. IsFiniteSet((i + 1)..l) /\ Cardinality((i + 1)..l) = IF i + 1 > l THEN 0 ELSE l - (i + 1) + 1
    BY <2>1, FS_Interval
  <2>3. Due(p) \subseteq (i + 1)..l
    BY <1>7, <1>8 DEF Due
  <2>4. IsFiniteSet(Due(p)) /\ d <= Cardinality((i + 1)..l)
    BY <1>3, <2>2, <2>3, FS_Subset
  <2>5. d \in Nat
    BY <1>3, <2>4, FS_CardinalityType
  <2>6. Cardinality((i + 1)..l) = l - i
    BY <1>9, <2>2
  <2> QED BY <1>9, <2>4, <2>5, <2>6
<1>11. es \in Seq({e}) /\ Len(es) = d /\ \A j \in 1..d : es[j] = e
  <2> HIDE DEF e
  <2>1. es \in [1..d -> {e}]
    BY <1>4
  <2>2. es \in Seq({e})
    BY <1>10, <2>1, IntervalIsSeq
  <2> QED BY <1>4, <1>10, <2>2
<1> DEFINE I == [j \in 0..d |-> {q \in ObjectsType(n, k) :
                   /\ ObjectsInv(q, n, k, S, out, c) /\ q.session = o.session
                   /\ q.motion[m].index = i + j /\ q.motion[m].at = p.at}]
<1>12. o1 \in I[0]
  <2>1. 0 \in 0..d /\ i + 0 = i
    BY <1>9, <1>10
  <2>2. o1 \in ObjectsType(n, k)
    BY <1>6 DEF ObjectsInv
  <2> QED BY <1>6, <1>7, <2>1, <2>2
<1>13. ASSUME NEW j \in 1..Len(es), NEW q \in I[j - 1] PROVE PlayPosition(q, es[j]) \in I[j]
  <2>1. j \in 1..d /\ j - 1 \in 0..d /\ j \in 0..d
    BY <1>10, <1>11
  <2>2. /\ ObjectsInv(q, n, k, S, out, c) /\ q.session = o.session
        /\ q.motion[m].index = i + (j - 1) /\ q.motion[m].at = p.at
    BY <1>13, <2>1
  <2>3. i + (j - 1) \in 0..(l - 1)
    BY <1>9, <1>10, <2>1
  <2>4. HasMore(q.motion[m])
    BY <1>8, <2>2, <2>3 DEF HasMore
  <2>5. Plays(q, S, m)
    BY <2>2 DEF Plays
  <2>6. PICK r : r = PlayPosition(q, e)
    OBVIOUS
  <2>7. /\ ObjectsInv(r, n, k, S, out, c) /\ r.session = q.session
        /\ r.motion[m].index = q.motion[m].index + 1 /\ r.motion[m].at = q.motion[m].at
    <3>1. ObjectsInv(q, n, k, S, out, c)
      BY <2>2
    <3> HIDE DEF I
    <3>2. RoundOf(r, q, n, k, S, out, c, m)
      BY <2>4, <2>5, <2>6, <3>1, PlayPositionStep
    <3> QED BY <3>2 DEF RoundOf
  <2>8. i + (j - 1) + 1 = i + j
    BY <1>9, <2>1
  <2>9. r \in ObjectsType(n, k)
    BY <2>7 DEF ObjectsInv
  <2>10. r \in I[j]
    BY <2>1, <2>2, <2>7, <2>8, <2>9
  <2> HIDE DEF e, I
  <2> QED BY <1>11, <2>1, <2>6, <2>10
<1>14. FoldLeft(PlayPosition, o1, es) \in I[Len(es)]
  <2> HIDE DEF I, e
  <2>1. \A j \in 1..Len(es) : \A q \in I[j - 1] : PlayPosition(q, es[j]) \in I[j]
    BY <1>13
  <2> QED BY <1>11, <1>12, <2>1, PositionStays
<1>15. d \in 0..d
  BY <1>10
<1>16. \A q \in I[d] : ObjectsInv(q, n, k, S, out, c) /\ q.session = o.session
  BY <1>15
<1> HIDE DEF I, e
<1> QED BY <1>5, <1>11, <1>14, <1>16

LEMMA PlayOnStep ==
  ASSUME NEW n \in Nat, NEW k \in Nat, NEW S \in SUBSET (1..k), NEW out, NEW c,
         NEW o, ObjectsInv(o, n, k, S, out, c), NEW s \in S, NEW f \in Fingers,
         o.session[s].in_play, do_quantize \in BOOLEAN,
         NEW m \in ToSet(o.session[s].finger[f].playing), NEW quiet,
         NEW q, q = PlayOn(o, Turn(s, f, m, quiet))
  PROVE  PlayedOn(q, o, n, k, S, out, c, s, f, m)
<1>1. CASE Ended(o.motion[m])
  <2>1. q = EndMotion(o, s, f, m)
    BY <1>1 DEF PlayOn, Turn
  <2> QED BY <1>1, <2>1, EndMotionStep
<1>2. CASE ~Ended(o.motion[m])
  <2>1. q = ProcessMotion(o, m, quiet)
    BY <1>2 DEF PlayOn, Turn
  <2>2. Plays(o, S, m)
    BY DEF Plays
  <2>3. m \in 1..n
    BY <2>2, PlaysType DEF ObjectsInv
  <2>4. /\ ObjectsInv(ProcessMotion(o, m, quiet), n, k, S, out, c)
        /\ ProcessMotion(o, m, quiet).session = o.session
    BY <2>2, <2>3, ProcessMotionStep
  <2>5. ObjectsInv(q, n, k, S, out, c) /\ q.session = o.session
    BY <2>1, <2>4
  <2>6. SameControl(q, o, k)
    BY <2>5 DEF SameControl
  <2> QED BY <2>5, <2>6 DEF PlayedOn, Kept
<1> QED BY <1>1, <1>2

LEMMA ProcessFingerStep ==
  ASSUME NEW n \in Nat, NEW k \in Nat, NEW S \in SUBSET (1..k), NEW out, NEW c,
         NEW o, ObjectsInv(o, n, k, S, out, c), NEW s \in S, NEW f \in Fingers,
         o.session[s].in_play, do_quantize \in BOOLEAN, NEW quiet \in BOOLEAN,
         NEW q, q = ProcessFinger(o, [session |-> s, finger |-> f, quiet |-> quiet])
  PROVE  Kept(q, o, n, k, S, out, c)
<1>1. PICK o1 : o1 = StartMotions(o, s, f, quiet)
  OBVIOUS
<1>2. PICK pl : pl = o1.session[s].finger[f].playing
  OBVIOUS
<1>3. PICK es : es = [j \in DOMAIN pl |-> Turn(s, f, pl[j], quiet)]
  OBVIOUS
<1>4. q = FoldLeft(PlayOn, o1, es)
  BY <1>1, <1>2, <1>3 DEF ProcessFinger, Turn
<1>5. Kept(o1, o, n, k, S, out, c)
  BY <1>1, StartMotionsStep
<1>6. ObjectsInv(o1, n, k, S, out, c) /\ SameControl(o1, o, k)
  BY <1>5 DEF Kept
<1>7. pl \in Seq(1..n) /\ IsInjective(pl) /\ Len(pl) \in Nat /\ DOMAIN pl = 1..Len(pl)
  <2>1. o1.session[s].finger[f] \in FingerType(n)
    BY <1>6 DEF ObjectsInv, ObjectsType, SessionType
  <2>2. PlayingOK(o1.motion, o1.session[s].finger[f], out)
    BY <1>6 DEF ObjectsInv, FingersOK, FingerOK
  <2>3. pl \in Seq(1..n) /\ IsInjective(pl)
    BY <1>2, <2>1, <2>2 DEF FingerType, PlayingOK
  <2> QED BY <2>3, ToSetView
<1>8. PICK l : l = Len(pl)
  OBVIOUS
<1>9. /\ es \in Seq({Turn(s, f, pl[j], quiet) : j \in 1..l}) /\ Len(es) = l /\ l \in Nat
      /\ \A j \in 1..l : es[j] = Turn(s, f, pl[j], quiet)
  <2>1. es \in [1..l -> {Turn(s, f, pl[j], quiet) : j \in 1..l}]
    BY <1>3, <1>7, <1>8
  <2>2. l \in Nat
    BY <1>7, <1>8
  <2>3. es \in Seq({Turn(s, f, pl[j], quiet) : j \in 1..l})
    BY <2>1, <2>2, IntervalIsSeq
  <2>4. \A j \in 1..l : es[j] = Turn(s, f, pl[j], quiet)
    BY <1>3, <1>7, <1>8
  <2> QED BY <2>1, <2>2, <2>3, <2>4
<1> DEFINE I == [j \in 0..l |-> {r \in ObjectsType(n, k) :
                   /\ Kept(r, o, n, k, S, out, c)
                   /\ \A i \in (j + 1)..l : pl[i] \in ToSet(r.session[s].finger[f].playing)}]
<1>10. o1 \in I[0]
  <2>1. 0 \in 0..l
    BY <1>9
  <2>2. o1 \in ObjectsType(n, k)
    BY <1>6 DEF ObjectsInv
  <2>3. \A i \in 1..l : pl[i] \in ToSet(o1.session[s].finger[f].playing)
    BY <1>2, <1>7, <1>8, ToSetView
  <2> QED BY <1>5, <2>1, <2>2, <2>3
<1>11. ASSUME NEW j \in 1..Len(es), NEW r \in I[j - 1] PROVE PlayOn(r, es[j]) \in I[j]
  <2>1. j \in 1..l /\ j - 1 \in 0..l /\ j \in 0..l /\ (j - 1) + 1 = j
    BY <1>9
  <2>2. /\ Kept(r, o, n, k, S, out, c)
        /\ \A i \in j..l : pl[i] \in ToSet(r.session[s].finger[f].playing)
    BY <1>11, <2>1
  <2> HIDE DEF I
  <2>3. PICK m : m = pl[j]
    OBVIOUS
  <2>4. PICK t : t = PlayOn(r, Turn(s, f, m, quiet))
    OBVIOUS
  <2>5. m \in ToSet(r.session[s].finger[f].playing)
    BY <1>9, <2>1, <2>2, <2>3
  <2>6. ObjectsInv(r, n, k, S, out, c) /\ SameControl(r, o, k)
    BY <2>2 DEF Kept
  <2>7. r.session[s].in_play
    BY <2>6 DEF SameControl
  <2>8. PlayedOn(t, r, n, k, S, out, c, s, f, m)
    BY <2>4, <2>5, <2>6, <2>7, PlayOnStep
  <2>9. /\ ObjectsInv(t, n, k, S, out, c) /\ SameControl(t, r, k)
        /\ ToSet(r.session[s].finger[f].playing) \ {m} \subseteq ToSet(t.session[s].finger[f].playing)
    BY <2>8 DEF PlayedOn, Kept
  <2>10. Kept(t, o, n, k, S, out, c)
    BY <2>6, <2>9, SameControlTransitive DEF Kept
  <2>11. \A i \in (j + 1)..l : pl[i] \in ToSet(t.session[s].finger[f].playing)
    <3> SUFFICES ASSUME NEW i \in (j + 1)..l PROVE pl[i] \in ToSet(t.session[s].finger[f].playing)
      OBVIOUS
    <3>1. i \in j..l /\ i \in 1..l /\ i # j
      BY <1>9, <2>1
    <3>2. pl[i] # m
      BY <1>7, <1>8, <2>1, <2>3, <3>1 DEF IsInjective
    <3> QED BY <2>2, <2>9, <3>1, <3>2
  <2>12. t \in ObjectsType(n, k)
    BY <2>9 DEF ObjectsInv
  <2>13. t \in I[j]
    BY <2>1, <2>10, <2>11, <2>12 DEF I
  <2> QED BY <1>9, <2>1, <2>3, <2>4, <2>13
<1>12. FoldLeft(PlayOn, o1, es) \in I[Len(es)]
  <2> HIDE DEF I
  <2>1. \A j \in 1..Len(es) : \A r \in I[j - 1] : PlayOn(r, es[j]) \in I[j]
    BY <1>11
  <2> QED BY <1>9, <1>10, <2>1, MotionStays
<1>13. l \in 0..l
  BY <1>9
<1>14. \A r \in I[l] : Kept(r, o, n, k, S, out, c)
  BY <1>13
<1> HIDE DEF I
<1> QED BY <1>4, <1>9, <1>12, <1>14

LEMMA FingersStep ==
  ASSUME NEW n \in Nat, NEW k \in Nat, NEW S \in SUBSET (1..k), NEW out, NEW c,
         NEW o, ObjectsInv(o, n, k, S, out, c), NEW s \in S, o.session[s].in_play,
         do_quantize \in BOOLEAN, NEW quiet \in BOOLEAN,
         NEW fs, fs = SetToSeq(Fingers), NEW q,
         q = FoldLeft(ProcessFinger, o, [j \in DOMAIN fs |->
                        [session |-> s, finger |-> fs[j], quiet |-> quiet]])
  PROVE  Kept(q, o, n, k, S, out, c)
<1> DEFINE At(j) == [session |-> s, finger |-> fs[j], quiet |-> quiet]
<1>1. fs \in Seq(Fingers) /\ Len(fs) \in Nat /\ DOMAIN fs = 1..Len(fs)
  <2>1. fs \in Seq(Fingers)
    BY SetToSeqView, PadAssumption
  <2> QED BY <2>1
<1>2. PICK es : es = [j \in 1..Len(fs) |-> At(j)]
  OBVIOUS
<1>3. q = FoldLeft(ProcessFinger, o, es)
  BY <1>1, <1>2
<1>4. /\ es \in Seq({At(j) : j \in 1..Len(fs)}) /\ Len(es) = Len(fs)
      /\ \A j \in 1..Len(fs) : es[j] = At(j)
  <2> HIDE DEF At
  <2>1. es \in [1..Len(fs) -> {At(j) : j \in 1..Len(fs)}]
    BY <1>2
  <2>2. es \in Seq({At(j) : j \in 1..Len(fs)})
    BY <1>1, <2>1, IntervalIsSeq
  <2> QED BY <1>1, <1>2, <2>1, <2>2
<1> DEFINE I == [j \in 0..Len(fs) |-> {r \in ObjectsType(n, k) : Kept(r, o, n, k, S, out, c)}]
<1>5. o \in I[0]
  <2>1. 0 \in 0..Len(fs)
    BY <1>1
  <2>2. o \in ObjectsType(n, k) /\ SameControl(o, o, k)
    BY DEF ObjectsInv, SameControl
  <2> QED BY <2>1, <2>2 DEF Kept
<1>6. ASSUME NEW j \in 1..Len(es), NEW r \in I[j - 1] PROVE ProcessFinger(r, es[j]) \in I[j]
  <2>1. j \in 1..Len(fs) /\ j - 1 \in 0..Len(fs) /\ j \in 0..Len(fs)
    BY <1>1, <1>4
  <2>2. Kept(r, o, n, k, S, out, c)
    BY <1>6, <2>1
  <2> HIDE DEF I
  <2>3. PICK t : t = ProcessFinger(r, [session |-> s, finger |-> fs[j], quiet |-> quiet])
    OBVIOUS
  <2>4. ObjectsInv(r, n, k, S, out, c) /\ SameControl(r, o, k)
    BY <2>2 DEF Kept
  <2>5. r.session[s].in_play
    BY <2>4 DEF SameControl
  <2>6. fs[j] \in Fingers
    BY <1>1, <2>1
  <2>7. Kept(t, r, n, k, S, out, c)
    BY <2>3, <2>4, <2>5, <2>6, ProcessFingerStep
  <2>8. Kept(t, o, n, k, S, out, c) /\ t \in ObjectsType(n, k)
    BY <2>4, <2>7, SameControlTransitive DEF Kept, ObjectsInv
  <2>9. t \in I[j]
    BY <2>1, <2>8 DEF I
  <2> QED BY <1>4, <2>1, <2>3, <2>9
<1>7. FoldLeft(ProcessFinger, o, es) \in I[Len(es)]
  <2> HIDE DEF I, At
  <2>1. \A j \in 1..Len(es) : \A r \in I[j - 1] : ProcessFinger(r, es[j]) \in I[j]
    BY <1>6
  <2> QED BY <1>4, <1>5, <2>1, FingerStays
<1>8. Len(fs) \in 0..Len(fs)
  BY <1>1
<1>9. \A r \in I[Len(fs)] : Kept(r, o, n, k, S, out, c)
  BY <1>8
<1> HIDE DEF I, At
<1> QED BY <1>3, <1>4, <1>7, <1>9

LEMMA ProcessSessionStep ==
  ASSUME NEW n \in Nat, NEW k \in Nat, NEW S \in SUBSET (1..k), NEW out, NEW c,
         NEW o, ObjectsInv(o, n, k, S, out, c), NEW s \in S,
         do_quantize \in BOOLEAN, mute \in BOOLEAN, NEW q, q = ProcessSession(o, s)
  PROVE  Ran(q, o, n, k, S, out, c)
<1>1. PICK quiet : quiet = (s # current_session /\ mute)
  OBVIOUS
<1>2. PICK d : d = o.session[s]
  OBVIOUS
<1>3. PICK d1 : d1 = StartPlay(d)
  OBVIOUS
<1>4. PICK d2 : d2 = Placed(d1)
  OBVIOUS
<1>5. PICK o1 : o1 = WithSession(o, s, d2)
  OBVIOUS
<1>6. PICK fs : fs = SetToSeq(Fingers)
  OBVIOUS
<1>7. PICK o2 : o2 = FoldLeft(ProcessFinger, o1, [j \in DOMAIN fs |->
                        [session |-> s, finger |-> fs[j], quiet |-> quiet]])
  OBVIOUS
<1>8. PICK in_play : in_play = ~(Completed(o2.session[s]) /\ o2.session[s].terminated)
  OBVIOUS
<1>9. q = [o2 EXCEPT !.session[s].in_play = in_play,
                     !.session[s].position = IF in_play THEN @ ELSE -1]
  BY <1>1, <1>2, <1>3, <1>4, <1>5, <1>6, <1>7, <1>8 DEF ProcessSession, WithSession, Placed
<1>10. quiet \in BOOLEAN /\ in_play \in BOOLEAN /\ s \in 1..k
  BY <1>1, <1>8
<1>11. /\ d \in SessionType(n)
       /\ \A f \in Fingers : d.finger[f].next = NULL \/ d.finger[f].next \in ToSet(d.finger[f].recorded)
       /\ ~d.in_play => \A f \in Fingers : d.finger[f].playing = <<>>
  BY <1>2, <1>10 DEF ObjectsInv, ObjectsType, FingersOK, FingerOK, RecordedOK
<1>12. /\ d1 \in SessionType(n) /\ d1.in_play /\ d1.terminated = d.terminated
       /\ d1.to_be_deleted = d.to_be_deleted
       /\ \A f \in Fingers : SameLists(d1.finger[f], d.finger[f])
  BY <1>3, <1>11, StartPlayView
<1>13. /\ d2 \in SessionType(n) /\ d2.in_play /\ d2.terminated = d.terminated
       /\ d2.to_be_deleted = d.to_be_deleted
       /\ \A f \in Fingers : SameLists(d2.finger[f], d.finger[f])
  BY <1>4, <1>12, PlacedView
<1>14. SessionSet(o1, o, n, k, S, out, c, s, d2)
  BY <1>2, <1>5, <1>13, SessionUpdate
<1>15. /\ ObjectsInv(o1, n, k, S, out, c) /\ o1.session[s] = d2
       /\ \A r \in (1..k) \ {s} : o1.session[r] = o.session[r]
  BY <1>14 DEF SessionSet
<1>16. RanFrom(o1, o, k)
  BY <1>2, <1>13, <1>15 DEF RanFrom
<1>17. Kept(o2, o1, n, k, S, out, c)
  <2>1. o1.session[s].in_play
    BY <1>13, <1>15
  <2> QED BY <1>6, <1>7, <1>10, <1>15, <2>1, FingersStep
<1>18. ObjectsInv(o2, n, k, S, out, c) /\ RanFrom(o2, o1, k)
  BY <1>17, SameIsRan DEF Kept
<1>19. PICK e : e = o2.session[s]
  OBVIOUS
<1>20. /\ e \in SessionType(n) /\ o2 \in ObjectsType(n, k)
       /\ \A f \in Fingers : SameLists(e.finger[f], e.finger[f])
  BY <1>10, <1>18, <1>19 DEF ObjectsInv, ObjectsType, FingersOK, FingerOK, RecordedOK, SameLists
<1>21. PICK e2 : e2 = Rested(e, in_play)
  OBVIOUS
<1>22. /\ e2 \in SessionType(n) /\ e2.in_play = in_play /\ e2.terminated = e.terminated
       /\ e2.to_be_deleted = e.to_be_deleted /\ e2.finger = e.finger
  <2>1. e.position \in Int
    BY <1>20 DEF SessionType
  <2>2. (IF in_play THEN e.position ELSE -1) \in Int
    BY <2>1
  <2> QED BY <1>10, <1>20, <1>21, <2>2 DEF SessionType, Rested
<1>23. q = WithSession(o2, s, e2)
  BY <1>9, <1>10, <1>19, <1>20, <1>21 DEF WithSession, Rested, ObjectsType, SessionType
<1>24. ~e2.in_play => \A f \in Fingers : e2.finger[f].playing = <<>>
  BY <1>8, <1>19, <1>22 DEF Completed
<1>25. SessionSet(q, o2, n, k, S, out, c, s, e2)
  BY <1>18, <1>19, <1>20, <1>22, <1>23, <1>24, SessionUpdate
<1>26. /\ ObjectsInv(q, n, k, S, out, c) /\ q.session[s] = e2
       /\ \A r \in (1..k) \ {s} : q.session[r] = o2.session[r]
  BY <1>25 DEF SessionSet
<1>27. RanFrom(q, o2, k)
  <2>1. ~e.terminated => in_play
    BY <1>8, <1>19
  <2> QED BY <1>19, <1>22, <1>26, <2>1 DEF RanFrom
<1>28. RanFrom(q, o, k)
  BY <1>16, <1>18, <1>27, RanFromTransitive
<1> QED BY <1>26, <1>28 DEF Ran

LEMMA SessionsStep ==
  ASSUME NEW n \in Nat, NEW k \in Nat, NEW S \in SUBSET (1..k), NEW out, NEW c,
         NEW o, ObjectsInv(o, n, k, S, out, c), NEW P \in SUBSET S,
         do_quantize \in BOOLEAN, mute \in BOOLEAN, NEW q, q = FoldLeft(ProcessSession, o, SetToSeq(P))
  PROVE  Ran(q, o, n, k, S, out, c)
<1>1. IsFiniteSet(P)
  <2>1. IsFiniteSet(1..k)
    BY FS_Interval
  <2> QED BY <2>1, FS_Subset
<1>2. PICK ss : ss = SetToSeq(P)
  OBVIOUS
<1>3. ss \in Seq(P) /\ Len(ss) \in Nat
  <2>1. ss \in Seq(P)
    BY <1>1, <1>2, SetToSeqView
  <2> QED BY <2>1
<1> DEFINE I == [j \in 0..Len(ss) |-> {r \in ObjectsType(n, k) : Ran(r, o, n, k, S, out, c)}]
<1>4. o \in I[0]
  <2>1. 0 \in 0..Len(ss)
    BY <1>3
  <2>2. o \in ObjectsType(n, k) /\ RanFrom(o, o, k)
    BY DEF ObjectsInv, RanFrom
  <2> QED BY <2>1, <2>2 DEF Ran
<1>5. ASSUME NEW j \in 1..Len(ss), NEW r \in I[j - 1] PROVE ProcessSession(r, ss[j]) \in I[j]
  <2>1. j - 1 \in 0..Len(ss) /\ j \in 0..Len(ss)
    BY <1>3
  <2>2. Ran(r, o, n, k, S, out, c)
    BY <1>5, <2>1
  <2> HIDE DEF I
  <2>3. PICK t : t = ProcessSession(r, ss[j])
    OBVIOUS
  <2>4. ObjectsInv(r, n, k, S, out, c) /\ RanFrom(r, o, k)
    BY <2>2 DEF Ran
  <2>5. ss[j] \in S
    <3>1. ss[j] \in P
      BY <1>3
    <3> QED BY <3>1
  <2>6. Ran(t, r, n, k, S, out, c)
    BY <2>3, <2>4, <2>5, ProcessSessionStep
  <2>7. Ran(t, o, n, k, S, out, c) /\ t \in ObjectsType(n, k)
    BY <2>4, <2>6, RanFromTransitive DEF Ran, ObjectsInv
  <2>8. t \in I[j]
    BY <2>1, <2>7 DEF I
  <2> QED BY <2>3, <2>8
<1>6. FoldLeft(ProcessSession, o, ss) \in I[Len(ss)]
  <2> HIDE DEF I
  <2>1. \A j \in 1..Len(ss) : \A r \in I[j - 1] : ProcessSession(r, ss[j]) \in I[j]
    BY <1>5
  <2> QED BY <1>3, <1>4, <2>1, SessionStays
<1>7. Len(ss) \in 0..Len(ss)
  BY <1>3
<1>8. \A r \in I[Len(ss)] : Ran(r, o, n, k, S, out, c)
  BY <1>7
<1> HIDE DEF I
<1> QED BY <1>2, <1>6, <1>8

LEMMA ProcessSessionsStep ==
  ASSUME PadInv, ProcessSessions
  PROVE  PadInv'
<1>1. PICK n \in Nat, k \in Nat : n = Len(motion) /\ k = Len(session) /\ StateOf(n, k)
  BY PadInvView
<1>2. PICK P : P = {s \in sessions : session[s].in_play \/ session[s].start = tick}
  OBVIOUS
<1>3. PICK o : o = FoldLeft(ProcessSession, Objects, SetToSeq(P))
  OBVIOUS
<1>4. PICK G : G = {s \in P : o.session[s].to_be_deleted /\ Completed(o.session[s])}
  OBVIOUS
<1>5. PICK F : F = UNION {Owned(o.session[s]) : s \in G}
  OBVIOUS
<1>6. PICK q : q = WithFreed(o, F)
  OBVIOUS
<1>7. /\ ~hung /\ sessions' = sessions \ G /\ SetObjects(q)
      /\ tick' = IF tick + 1 = End THEN Begin ELSE tick + 1
      /\ mute' = mute /\ do_record' = do_record /\ do_quantize' = do_quantize
      /\ current_session' = current_session /\ hung' = hung /\ lost' = lost /\ cut' = cut
      /\ pressed' = pressed
  BY <1>2, <1>3, <1>4, <1>5, <1>6 DEF ProcessSessions, WithFreed, seen_vars
<1>8. /\ tick \in Int /\ mute \in BOOLEAN /\ do_record \in BOOLEAN /\ do_quantize \in BOOLEAN
      /\ SessionsInv
  BY DEF PadInv
<1>9. PICK c : c = Hands(cut, current_session, pressed)
  OBVIOUS
<1>10. PICK b : b = Objects
  OBVIOUS
<1>11. /\ ObjectsInv(b, n, k, sessions, lost, c) /\ sessions \in SUBSET (1..k)
       /\ b.session = session
  BY <1>1, <1>10, <1>9 DEF StateOf, Objects
<1>12. Ran(o, b, n, k, sessions, lost, c)
  <2>1. P \in SUBSET sessions /\ o = FoldLeft(ProcessSession, b, SetToSeq(P))
    BY <1>2, <1>3, <1>10
  <2> QED BY <1>8, <1>11, <2>1, SessionsStep
<1>13. ObjectsInv(o, n, k, sessions, lost, c) /\ RanFrom(o, b, k)
  BY <1>12 DEF Ran
<1>14. ObjectsInv(q, n, k, sessions \ G, lost, c) /\ q.session = o.session
  <2>1. G \in SUBSET sessions
    BY <1>2, <1>4
  <2>2. \A s \in G, f \in Fingers : o.session[s].finger[f].playing = <<>>
    BY <1>4 DEF Completed
  <2>3. Destroyed(q, o, n, k, sessions \ G, lost, c)
    BY <1>5, <1>6, <1>11, <1>13, <2>1, <2>2, DestroyStep
  <2> QED BY <2>3 DEF Destroyed
<1>15. StateOf(n, k)' /\ \A s \in sessions' : session'[s] = o.session[s]
  <2>1. sessions' \in SUBSET (1..k)
    BY <1>7, <1>11
  <2>2. ObjectsInv(q, n, k, sessions', lost', c)
    BY <1>7, <1>14
  <2>3. SetObjects(q) /\ c = Hands(cut', current_session', pressed')
    BY <1>7, <1>9
  <2>4. StateOf(n, k)' /\ \A s \in sessions' : session'[s] = q.session[s]
    BY <2>1, <2>2, <2>3, SetObjectsStep
  <2> QED BY <1>14, <2>4
<1>16. SessionsInv'
  <2>1. \A s \in sessions' :
          /\ s \in sessions /\ session'[s].terminated = session[s].terminated
          /\ session'[s].to_be_deleted = session[s].to_be_deleted
          /\ session[s].in_play /\ ~session[s].terminated => session'[s].in_play
    BY <1>7, <1>11, <1>13, <1>15 DEF RanFrom
  <2>2. current_session # NULL => current_session \in sessions'
    BY <1>4, <1>7, <1>8, <1>11, <1>13 DEF SessionsInv, RanFrom
  <2> QED BY <1>7, <1>8, <2>1, <2>2 DEF SessionsInv
<1>17. tick' \in Int
  BY <1>7, <1>8, PadAssumption DEF Begin
<1>18. ExportReturns'
  BY <1>7 DEF ExportReturns
<1> QED BY <1>7, <1>8, <1>15, <1>16, <1>17, <1>18, PadInvNext

Deletion == INSTANCE ListLemmas WITH Op <- DeleteSession
LEMMA DeletionStays ==
  ASSUME NEW T, NEW s \in Seq(T), NEW base, NEW I, base \in I[0],
         \A k \in 1..Len(s) : \A q \in I[k - 1] : DeleteSession(q, s[k]) \in I[k]
  PROVE  FoldLeft(DeleteSession, base, s) \in I[Len(s)]
<1>1. Deletion!FoldLeft(DeleteSession, base, s) = FoldLeft(DeleteSession, base, s)
  BY DEF Deletion!FoldLeft, FoldLeft, Deletion!MapThenFoldSet, MapThenFoldSet, Deletion!Max, Max
<1> QED BY <1>1, Deletion!FoldStays

LEMMA DeleteAllStep ==
  ASSUME NEW n \in Nat, NEW k \in Nat, NEW S \in SUBSET (1..k), NEW out, NEW c,
         NEW o, ObjectsInv(o, n, k, S, out, c), NEW q, q = FoldLeft(DeleteSession, o, SetToSeq(S))
  PROVE  ObjectsInv(q, n, k, S, out, c) /\ \A s \in S : q.session[s].to_be_deleted
<1>1. IsFiniteSet(S)
  <2>1. IsFiniteSet(1..k)
    BY FS_Interval
  <2> QED BY <2>1, FS_Subset
<1>2. PICK ss : ss = SetToSeq(S)
  OBVIOUS
<1>3. /\ ss \in Seq(S) /\ Len(ss) \in Nat
      /\ \A x \in S : \E j \in 1..Len(ss) : ss[j] = x
  <2>1. ss \in Seq(S) /\ \A x \in S : \E j \in 1..Len(ss) : ss[j] = x
    BY <1>1, <1>2, SetToSeqView
  <2> QED BY <2>1
<1> DEFINE I == [j \in 0..Len(ss) |-> {r \in ObjectsType(n, k) :
                   /\ ObjectsInv(r, n, k, S, out, c)
                   /\ \A i \in 1..j : r.session[ss[i]].to_be_deleted}]
<1>4. o \in I[0]
  <2>1. 0 \in 0..Len(ss) /\ \A i \in 1..0 : FALSE
    BY <1>3
  <2>2. o \in ObjectsType(n, k)
    BY DEF ObjectsInv
  <2> QED BY <2>1, <2>2
<1>5. ASSUME NEW j \in 1..Len(ss), NEW r \in I[j - 1] PROVE DeleteSession(r, ss[j]) \in I[j]
  <2>1. j - 1 \in 0..Len(ss) /\ j \in 0..Len(ss)
    BY <1>3
  <2>2. ObjectsInv(r, n, k, S, out, c) /\ \A i \in 1..(j - 1) : r.session[ss[i]].to_be_deleted
    BY <1>5, <2>1
  <2> HIDE DEF I
  <2>3. PICK t : t = DeleteSession(r, ss[j])
    OBVIOUS
  <2>4. \A i \in 1..Len(ss) : ss[i] \in S /\ ss[i] \in 1..k
    <3>1. \A i \in 1..Len(ss) : ss[i] \in S
      BY <1>3
    <3> QED BY <3>1
  <2>5. SessionGoes(t, r, n, k, S, out, c, ss[j])
    BY <2>2, <2>3, <2>4, DeleteSessionStep
  <2>6. /\ ObjectsInv(t, n, k, S, out, c) /\ t.session[ss[j]].to_be_deleted
        /\ \A x \in (1..k) \ {ss[j]} : t.session[x] = r.session[x]
    BY <2>5 DEF SessionGoes
  <2>7. ASSUME NEW i \in 1..j PROVE t.session[ss[i]].to_be_deleted
    <3>1. CASE ss[i] = ss[j]
      BY <2>6, <3>1
    <3>2. CASE ss[i] # ss[j]
      <4>1. i \in 1..(j - 1) /\ i \in 1..Len(ss)
        BY <1>3, <2>1, <3>2
      <4>2. ss[i] \in (1..k) \ {ss[j]}
        BY <2>4, <3>2, <4>1
      <4> QED BY <2>2, <2>6, <4>1, <4>2
    <3> QED BY <3>1, <3>2
  <2>8. t \in ObjectsType(n, k)
    BY <2>6 DEF ObjectsInv
  <2>9. t \in I[j]
    BY <2>1, <2>6, <2>7, <2>8 DEF I
  <2> QED BY <2>3, <2>9
<1>6. FoldLeft(DeleteSession, o, ss) \in I[Len(ss)]
  <2> HIDE DEF I
  <2>1. \A j \in 1..Len(ss) : \A r \in I[j - 1] : DeleteSession(r, ss[j]) \in I[j]
    BY <1>5
  <2> QED BY <1>3, <1>4, <2>1, DeletionStays
<1>7. Len(ss) \in 0..Len(ss)
  BY <1>3
<1>8. \A r \in I[Len(ss)] : /\ ObjectsInv(r, n, k, S, out, c)
                            /\ \A i \in 1..Len(ss) : r.session[ss[i]].to_be_deleted
  BY <1>7
<1> HIDE DEF I
<1>9. /\ ObjectsInv(q, n, k, S, out, c)
      /\ \A i \in 1..Len(ss) : q.session[ss[i]].to_be_deleted
  BY <1>2, <1>6, <1>8
<1> QED BY <1>3, <1>9

LEMMA ClearPadStep ==
  ASSUME PadInv, ClearPad
  PROVE  PadInv'
<1>1. PICK n \in Nat, k \in Nat : n = Len(motion) /\ k = Len(session) /\ StateOf(n, k)
  BY PadInvView
<1>2. PICK o : o = Objects
  OBVIOUS
<1>3. PICK q : q = FoldLeft(DeleteSession, o, SetToSeq(sessions))
  OBVIOUS
<1>4. /\ ~hung /\ do_record' = do_record /\ current_session' = NULL
      /\ tick' = tick /\ mute' = mute /\ do_quantize' = do_quantize /\ sessions' = sessions
      /\ hung' = hung /\ lost' = lost /\ cut' = cut \cup HeldMotions /\ pressed' = pressed /\ SetObjects(q)
  BY <1>2, <1>3 DEF ClearPad, Operation
<1>5. /\ tick \in Int /\ mute \in BOOLEAN /\ do_record \in BOOLEAN /\ do_quantize \in BOOLEAN
      /\ SessionsInv
  BY DEF PadInv
<1>6. PICK c : c = Hands(cut', current_session', pressed')
  OBVIOUS
<1>7. ObjectsInv(o, n, k, sessions, lost, c) /\ sessions \in SUBSET (1..k)
  BY <1>1, <1>2, <1>4, <1>5, <1>6, HeldLetGo DEF StateOf
<1>8. ObjectsInv(q, n, k, sessions, lost, c) /\ \A s \in sessions : q.session[s].to_be_deleted
  BY <1>3, <1>7, DeleteAllStep
<1>9. ObjectsInv(q, n, k, sessions', lost', c) /\ sessions' \in SUBSET (1..k)
  BY <1>4, <1>7, <1>8
<1>10. StateOf(n, k)' /\ \A s \in sessions' : session'[s] = q.session[s]
  <2>1. SetObjects(q)
    BY <1>4
  <2> QED BY <1>6, <1>9, <2>1, SetObjectsStep
<1>11. SessionsInv'
  BY <1>4, <1>8, <1>10 DEF SessionsInv
<1>12. ExportReturns'
  BY <1>4 DEF ExportReturns
<1> QED BY <1>4, <1>5, <1>10, <1>11, <1>12, PadInvNext

-----------------------------------------------------------------------------
(* The theorems                                                            *)

LEMMA PadNextStep ==
  ASSUME PadInv, [PadNext]_pad_vars
  PROVE  PadInv'
<1>1. CASE ProcessSessions
  BY <1>1, ProcessSessionsStep
<1>2. CASE \E f \in Fingers, type \in {"press", "slide", "release"}, x \in Columns : HandleEvent(f, type, x)
  BY <1>2, HandleEventStep
<1>3. CASE \E b \in BOOLEAN : SetRecord(b)
  BY <1>3, SetRecordStep
<1>4. CASE \E b \in BOOLEAN : SetMute(b)
  <2>1. do_quantize \in BOOLEAN
    BY DEF PadInv
  <2> QED BY <1>4, <2>1, QuietStep DEF SetMute
<1>5. CASE \E b \in BOOLEAN : SetQuantize(b)
  <2>1. mute \in BOOLEAN
    BY DEF PadInv
  <2> QED BY <1>5, <2>1, QuietStep DEF SetQuantize
<1>6. CASE \E t \in LineStarts \cup {tick}, m \in BOOLEAN : Reset(t, m)
  BY <1>6, ResetStep
<1>7. CASE ClearPad
  BY <1>7, ClearPadStep
<1>8. CASE Export
  BY <1>8, ExportStep
<1>9. CASE UNCHANGED pad_vars
  <2>1. mute' \in BOOLEAN /\ do_quantize' \in BOOLEAN
    BY <1>9 DEF pad_vars, PadInv
  <2> QED BY <1>9, <2>1, QuietStep DEF pad_vars
<1> QED BY <1>1, <1>2, <1>3, <1>4, <1>6, <1>7, <1>8, <1>9, <1>5 DEF PadNext

LEMMA PadInvAlways == PadSpec => []PadInv
<1>1. PadInit => PadInv
  BY PadInitStep
<1>2. PadInv /\ [PadNext]_pad_vars => PadInv'
  BY PadNextStep
<1> QED BY <1>1, <1>2, PTL DEF PadSpec

(* No finger refers to a motion that was deleted, no two owners would      *)
(* delete the same one, and a motion nobody refers to was lost by one of   *)
(* the two ways pad.cc has of losing one.                                  *)
THEOREM MotionsOwnedAlways == PadSpec => []MotionsOwned
<1>1. PadInv => MotionsOwned
  BY PadInvOwned
<1> QED BY <1>1, PadInvAlways, PTL

(* A note that sounds will end: process_sessions has its motion before it, *)
(* and the motion its last position, unless the finger is still down and   *)
(* its release will come to this motion. Only a motion that was cut by     *)
(* set_record, clear_pad or an export may sound on.                        *)
THEOREM SilentAfterwardsAlways == PadSpec => []SilentAfterwards
<1>1. PadInv => SilentAfterwards
  BY PadInvSilent
<1> QED BY <1>1, PadInvAlways, PTL

(* export_to_loop returns whatever was recorded and whenever set_quantize  *)
(* was used, unless a session that was designated for deletion is still    *)
(* there or a motion was recorded with quantize on after one with it off.  *)
THEOREM ExportReturnsAlways == PadSpec => []ExportReturns
<1>1. PadInv => ExportReturns
  BY DEF PadInv
<1> QED BY <1>1, PadInvAlways, PTL

=============================================================================
