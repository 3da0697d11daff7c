-------------------------- MODULE LoopPlayerProofs --------------------------
(***************************************************************************)
(* Proofs about LoopPlayer, for every number of loops, notes, lines and    *)
(* operations: the sequence names loops that exist, deleting a loop leaves *)
(* the lines of the others alone, the sequencer and the transport count    *)
(* alike, a loop does not fall behind its own next note, and no deleted    *)
(* note is used but in the two cases that ReadsLiveNotes names.            *)
(*                                                                         *)
(* StoreInv is about the transport, the store and the sequence, and is     *)
(* inductive on its own. NoteInv, about the lists of notes, needs it: the  *)
(* pointer to the next note is in its list and ahead because lists are     *)
(* sorted, which inserting and deleting preserve, and because no note is   *)
(* in two places, so that moving one note disturbs one loop only.          *)
(* LiveInv, about the notes that sound, needs both: what process_note_on   *)
(* takes is in the list, hence not deleted, and of no other loop.          *)
(***************************************************************************)
EXTENDS LoopPlayer, TLAPS, SequenceTheorems, FiniteSetTheorems
INSTANCE ListLemmas WITH Op <- Activate
Off == INSTANCE ListLemmas WITH Op <- CountDown

Clocks == [tick : Int, position : 0..End, resume : 0..End, do_loop : BOOLEAN,
           start : 0..End, stop : Int, playing : BOOLEAN]

(* The transport, the store and the sequence.                              *)
StoreInv ==
  /\ clock \in Clocks
  /\ store \in Seq(Loops \cup {NULL}) /\ Len(store) > 0
  /\ last_free \in Nat
  /\ sequence \in [0..(SequenceLength - 1) -> Int]
  /\ \A p \in 0..(SequenceLength - 1) : sequence[p] >= NOT_SET
  /\ current \in Loops \cup {NULL}
  /\ SequencedLoopsExist

-----------------------------------------------------------------------------
(* The transport                                                           *)

LEMMA AdvanceTyped == ASSUME NEW c \in Clocks PROVE Advance(c) \in Clocks
<1>1. /\ c.tick \in Int /\ c.position \in 0..End /\ c.start \in 0..End /\ c.stop \in Int
      /\ c.do_loop \in BOOLEAN /\ End \in Nat /\ TicksPerLine \in Nat \ {0}
  BY TransportAssumption DEF Clocks
<1>2. (c.tick + 1) % TicksPerLine \in Int
  BY <1>1
<1>3. Wrap(c.do_loop, c.start, c.stop, c.position + 1) \in 0..End
  BY <1>1 DEF Wrap
<1> QED BY <1>1, <1>2, <1>3 DEF Advance, Clocks

LEMMA FieldsTyped ==
  ASSUME NEW c \in Clocks
  PROVE  /\ c.position \in 0..End /\ c.resume \in 0..End /\ c.start \in 0..End /\ c.stop \in Int
         /\ \A x \in Int : [c EXCEPT !.tick = x] \in Clocks /\ [c EXCEPT !.stop = x] \in Clocks
         /\ \A x \in 0..End : /\ [c EXCEPT !.position = x] \in Clocks
                              /\ [c EXCEPT !.resume = x] \in Clocks
                              /\ [c EXCEPT !.start = x] \in Clocks
         /\ \A x \in BOOLEAN : /\ [c EXCEPT !.do_loop = x] \in Clocks
                               /\ [c EXCEPT !.playing = x] \in Clocks
<1>1. c.position \in 0..End /\ c.resume \in 0..End /\ c.start \in 0..End /\ c.stop \in Int
  BY DEF Clocks
<1>2. ASSUME NEW x \in Int PROVE [c EXCEPT !.tick = x] \in Clocks /\ [c EXCEPT !.stop = x] \in Clocks
  BY Zenon DEF Clocks
<1>3. ASSUME NEW x \in 0..End
      PROVE  /\ [c EXCEPT !.position = x] \in Clocks
             /\ [c EXCEPT !.resume = x] \in Clocks
             /\ [c EXCEPT !.start = x] \in Clocks
  BY Zenon DEF Clocks
<1>4. ASSUME NEW x \in BOOLEAN
      PROVE  [c EXCEPT !.do_loop = x] \in Clocks /\ [c EXCEPT !.playing = x] \in Clocks
  BY Zenon DEF Clocks
<1> QED BY <1>1, <1>2, <1>3, <1>4

LEMMA OperationsTyped ==
  ASSUME NEW c \in Clocks
  PROVE  /\ PlayClock(c) \in Clocks /\ StopClock(c) \in Clocks /\ Rewind(c) \in Clocks
         /\ \A line \in Lines : JumpTo(c, line) \in Clocks /\ SetLoopStart(c, line) \in Clocks
         /\ \A b \in BOOLEAN : SetLoopState(c, b) \in Clocks
         /\ \A len \in Lengths : SetLoopLength(c, len) \in Clocks
<1>1. 0 \in 0..End /\ Lines \subseteq 0..End /\ Lengths \subseteq Nat
  BY TransportAssumption, PlayerAssumption
<1>2. PlayClock(c) \in Clocks /\ StopClock(c) \in Clocks
  <2>1. TRUE \in BOOLEAN /\ FALSE \in BOOLEAN /\ 0 \in Int
    OBVIOUS
  <2> DEFINE d == [c EXCEPT !.playing = TRUE]
             e == [d EXCEPT !.position = c.resume]
             g == [c EXCEPT !.resume = c.position]
  <2>2. d \in Clocks /\ g \in Clocks
    BY <2>1, FieldsTyped
  <2>3. e \in Clocks
    <3> HIDE DEF d
    <3> QED BY <2>2, FieldsTyped
  <2>4. [e EXCEPT !.tick = 0] \in Clocks
    <3> HIDE DEF e
    <3> QED BY <2>1, <2>3, FieldsTyped
  <2>5. [g EXCEPT !.playing = FALSE] \in Clocks
    <3> HIDE DEF g
    <3> QED BY <2>1, <2>2, FieldsTyped
  <2>6. PlayClock(c) = [e EXCEPT !.tick = 0] /\ StopClock(c) = [g EXCEPT !.playing = FALSE]
    BY DEF PlayClock, ResetPlayback, StopClock
  <2> QED BY <2>4, <2>5, <2>6
<1>3. ASSUME NEW line \in 0..End PROVE [ResetPlayback(c, line) EXCEPT !.resume = line] \in Clocks
  <2> DEFINE d == [c EXCEPT !.position = line]
             e == [d EXCEPT !.tick = 0]
  <2>1. d \in Clocks
    BY <1>3, FieldsTyped
  <2>2. e \in Clocks
    <3> HIDE DEF d
    <3>1. 0 \in Int
      OBVIOUS
    <3> QED BY <2>1, <3>1, FieldsTyped
  <2>3. [e EXCEPT !.resume = line] \in Clocks
    <3> HIDE DEF e
    <3> QED BY <1>3, <2>2, FieldsTyped
  <2> QED BY <2>3 DEF ResetPlayback
<1>4. Rewind(c) \in Clocks
  <2>1. (IF c.do_loop THEN c.start ELSE 0) \in 0..End
    BY <1>1, FieldsTyped
  <2> QED BY <1>3, <2>1 DEF Rewind
<1>5. ASSUME NEW line \in Lines PROVE JumpTo(c, line) \in Clocks /\ SetLoopStart(c, line) \in Clocks
  <2> DEFINE d == [c EXCEPT !.tick = 0]
             to == IF c.do_loop /\ (line < c.start \/ line > c.stop) THEN c.start ELSE line
  <2>0. 0 \in Int /\ line \in 0..End /\ c.start \in 0..End
    BY <1>1, FieldsTyped
  <2>1. d \in Clocks /\ to \in 0..End
    BY <2>0, FieldsTyped
  <2>2. [d EXCEPT !.position = to] \in Clocks
    <3> HIDE DEF d, to
    <3> QED BY <2>1, FieldsTyped
  <2> QED BY <2>0, <2>2, FieldsTyped DEF JumpTo, SetLoopStart
<1>6. \A b \in BOOLEAN : SetLoopState(c, b) \in Clocks
  BY FieldsTyped DEF SetLoopState
<1>7. \A len \in Lengths : SetLoopLength(c, len) \in Clocks
  <2> SUFFICES ASSUME NEW len \in Lengths PROVE SetLoopLength(c, len) \in Clocks
    OBVIOUS
  <2>1. c.start + len \in Int
    BY <1>1, FieldsTyped
  <2> QED BY <2>1, FieldsTyped DEF SetLoopLength
<1> QED BY <1>2, <1>4, <1>5, <1>6, <1>7

(* fill_buffers and calculate_next_tick_at_and_sequence_position agree.    *)
LEMMA SameAdvance == ASSUME NEW c \in Clocks PROVE SequencerAdvance(c) = Advance(c)
<1>1. /\ c.tick \in Int /\ c.position \in 0..End /\ c.start \in 0..End /\ c.stop \in Int
      /\ End \in Nat
  BY TransportAssumption DEF Clocks
<1> DEFINE tick == (c.tick + 1) % TicksPerLine
<1>2. (c.stop - c.start) + c.start = c.stop
  BY <1>1
<1>3. CASE tick = 0
  BY <1>1, <1>2, <1>3 DEF SequencerAdvance, Advance, Wrap
<1>4. CASE tick # 0
  <2>1. ~(c.position > End)
    BY <1>1
  <2> QED BY <1>4, <2>1 DEF SequencerAdvance, Advance
<1> QED BY <1>3, <1>4

-----------------------------------------------------------------------------
(* The store and the sequence                                              *)

LEMMA StoreInit == ASSUME Init PROVE StoreInv
<1> USE PlayerAssumption, TransportAssumption
<1>1. clock \in Clocks
  BY DEF Init, ClockInit, Clocks
<1> DEFINE e(k) == IF k = 1 THEN FirstLoop ELSE NULL
<1>2. store = [k \in 1..StoreSize |-> e(k)] /\ StoreSize \in Nat \ {0}
  BY DEF Init
<1>3. store \in Seq(Loops \cup {NULL}) /\ Len(store) = StoreSize /\ store[1] = FirstLoop
  <2> HIDE DEF e
  <2>1. store \in Seq(Loops \cup {NULL})
    <3>1. \A k \in 1..StoreSize : e(k) \in Loops \cup {NULL}
      BY DEF e
    <3> QED BY <1>2, <3>1
  <2>2. Len(store) = StoreSize /\ store[1] = e(1)
    BY <1>2
  <2> QED BY <2>1, <2>2 DEF e
<1>4. PICK id \in {NOT_SET, 0} :
        sequence = [p \in 0..(SequenceLength - 1) |-> IF p = 0 THEN id ELSE NOT_SET]
  BY DEF Init
<1>5. \A p \in 0..(SequenceLength - 1) : sequence[p] \in {NOT_SET, 0}
  BY <1>4
<1>6. sequence \in [0..(SequenceLength - 1) -> Int] /\ \A p \in 0..(SequenceLength - 1) : sequence[p] >= NOT_SET
  BY <1>4, <1>5 DEF NOT_SET
<1>7. SequencedLoopsExist
  BY <1>2, <1>3, <1>5, <1>6 DEF SequencedLoopsExist, NOT_SET
<1> QED BY <1>1, <1>3, <1>6, <1>7 DEF StoreInv, Init

(* Where the sequence names a loop there is one.                           *)
LEMMA NamedLoop ==
  ASSUME StoreInv, NEW p \in 0..(SequenceLength - 1), sequence[p] # NOT_SET
  PROVE  sequence[p] \in Nat /\ sequence[p] + 1 \in 1..Len(store) /\ store[sequence[p] + 1] \in Loops
<1>1. sequence[p] < Len(store) /\ store[sequence[p] + 1] # NULL
  BY DEF StoreInv, SequencedLoopsExist
<1>2. sequence[p] \in Nat /\ sequence[p] + 1 \in 1..Len(store)
  BY <1>1 DEF StoreInv, NOT_SET
<1>3. store[sequence[p] + 1] \in Loops \cup {NULL}
  BY <1>2, ElementOfSeq DEF StoreInv
<1> QED BY <1>1, <1>2, <1>3

LEMMA FillStore ==
  ASSUME StoreInv, Fill
  PROVE  StoreInv'
<1>1. clock' = Advance(clock) /\ current' = Playing /\ UNCHANGED <<store, last_free, sequence>>
  BY DEF Fill, FillBuffers, store_vars
<1>2. clock' \in Clocks
  BY <1>1, AdvanceTyped DEF StoreInv
<1>3. Playing \in Loops \cup {NULL}
  <2>1. CASE Starts
    <3>1. clock.position \in 0..(SequenceLength - 1) /\ sequence[clock.position] # NOT_SET
      BY <2>1, PlayerAssumption DEF Starts, StoreInv, Clocks
    <3> QED BY <2>1, <3>1, NamedLoop DEF Playing
  <2>2. CASE ~Starts
    BY <2>2 DEF Playing, StoreInv
  <2> QED BY <2>1, <2>2
<1> QED BY <1>1, <1>2, <1>3 DEF StoreInv, SequencedLoopsExist

LEMMA TransportStore ==
  ASSUME StoreInv, TransportOperation
  PROVE  StoreInv'
<1>1. /\ clock' \in Clocks /\ current' \in {current, NULL}
      /\ UNCHANGED <<store, last_free, sequence>>
  <2>1. clock \in Clocks
    BY DEF StoreInv
  <2> QED BY <2>1, OperationsTyped DEF TransportOperation, SetClock, ResetAndSetClock, store_vars
<1> QED BY <1>1 DEF StoreInv, SequencedLoopsExist

(* AddNewLoop changes one free place of a store that may have grown.       *)
LEMMA AddView ==
  ASSUME StoreInv, AddNewLoop
  PROVE  \E place \in Nat \ {0} :
           /\ store' \in Seq(Loops \cup {NULL})
           /\ place <= Len(store') /\ Len(store) <= Len(store')
           /\ place <= Len(store) => store[place] = NULL
           /\ \A k \in 1..Len(store) : k # place => store'[k] = store[k]
           /\ last_free' = place
           /\ UNCHANGED <<clock, current, sequence>>
<1> DEFINE l == CHOOSE l \in Unused : TRUE
           S == Loops \cup {NULL}
           more == store \o [k \in DOMAIN store |-> NULL]
<1>1. l \in Loops /\ l \in S
  BY DEF AddNewLoop, Unused
<1>2. store \in Seq(S) /\ DOMAIN store = 1..Len(store) /\ Len(store) \in Nat
  BY DEF StoreInv
<1>3. FirstFree # 0 => FirstFree \in 1..Len(store) /\ store[FirstFree] = NULL
  <2> DEFINE I == {i \in 1..Len(store) : store[i] = NULL}
  <2>1. FirstFree = IF I # {} THEN Min(I) ELSE 0
    BY DEF FirstFree, SelectInSeq
  <2>2. I # {} => Min(I) \in I
    <3>1. I \subseteq Nat
      BY <1>2
    <3> HIDE DEF I
    <3> QED BY <3>1, MinIsMember
  <2> QED BY <2>1, <2>2
<1> HIDE DEF l, S
<1>4. CASE FirstFree # 0
  <2>1. /\ store' = [store EXCEPT ![FirstFree] = l] /\ last_free' = FirstFree
        /\ UNCHANGED <<clock, current, sequence>>
    BY <1>4 DEF AddNewLoop, PutLoop, l
  <2>2. /\ store' \in Seq(S) /\ Len(store') = Len(store)
        /\ \A k \in 1..Len(store) : k # FirstFree => store'[k] = store[k]
    BY <1>1, <1>2, <1>3, <1>4, <2>1, ExceptSeq
  <2>3. FirstFree \in Nat \ {0} /\ FirstFree <= Len(store')
    BY <1>2, <1>3, <1>4, <2>2
  <2>4. Len(store) <= Len(store')
    BY <1>2, <2>2
  <2> QED BY <1>3, <1>4, <2>1, <2>2, <2>3, <2>4 DEF S
<1>5. CASE FirstFree = 0
  <2> DEFINE n == Len(store)
             none == [k \in 1..n |-> NULL]
  <2>1. /\ store' = [more EXCEPT ![n + 1] = l] /\ last_free' = n + 1
        /\ UNCHANGED <<clock, current, sequence>>
    BY <1>5 DEF AddNewLoop, PutLoop, l
  <2>2. n \in Nat \ {0}
    BY <1>2 DEF StoreInv
  <2>3. none \in Seq(S) /\ Len(none) = n
    BY <1>2 DEF S
  <2>4. /\ more \in Seq(S) /\ Len(more) = n + n
        /\ \A k \in 1..(n + n) : more[k] = IF k <= n THEN store[k] ELSE none[k - n]
    <3>1. more = store \o none
      BY <1>2
    <3> HIDE DEF none, more
    <3>2. /\ more \in Seq(S) /\ Len(more) = Len(store) + Len(none)
          /\ \A k \in 1..(Len(store) + Len(none)) :
                more[k] = IF k <= Len(store) THEN store[k] ELSE none[k - Len(store)]
      BY <1>2, <2>3, <3>1, ConcatProperties
    <3> QED BY <2>3, <3>2
  <2>5. \A k \in 1..n : more[k] = store[k]
    BY <2>2, <2>4
  <2> HIDE DEF n, more
  <2>6. n + 1 \in 1..Len(more)
    BY <2>2, <2>4
  <2>7. /\ store' \in Seq(S) /\ Len(store') = n + n
        /\ \A k \in 1..(n + n) : k # n + 1 => store'[k] = more[k]
    BY <1>1, <2>1, <2>4, <2>6, ExceptSeq
  <2>8. \A k \in 1..n : k # n + 1 => store'[k] = store[k]
    BY <2>2, <2>5, <2>7
  <2>9. n + 1 <= Len(store') /\ n <= Len(store') /\ n + 1 \in Nat \ {0} /\ ~(n + 1 <= n)
    BY <2>2, <2>7
  <2>10. store' \in Seq(Loops \cup {NULL}) /\ Len(store) <= Len(store')
    BY <2>7, <2>9 DEF S, n
  <2>11. n + 1 <= Len(store) => store[n + 1] = NULL
    BY <2>9 DEF n
  <2>12. \A k \in 1..Len(store) : k # n + 1 => store'[k] = store[k]
    BY <2>8 DEF n
  <2> QED BY <2>1, <2>9, <2>10, <2>11, <2>12
<1> QED BY <1>4, <1>5


LEMMA AddStore ==
  ASSUME StoreInv, AddNewLoop
  PROVE  StoreInv' /\ \A p \in 0..(SequenceLength - 1) : At(p)' = At(p) /\ sequence[p] # last_free' - 1
<1>1. PICK place \in Nat \ {0} :
         /\ store' \in Seq(Loops \cup {NULL})
         /\ place <= Len(store') /\ Len(store) <= Len(store')
         /\ place <= Len(store) => store[place] = NULL
         /\ \A k \in 1..Len(store) : k # place => store'[k] = store[k]
         /\ last_free' = place
         /\ UNCHANGED <<clock, current, sequence>>
  BY AddView
<1>2. ASSUME NEW p \in 0..(SequenceLength - 1), sequence[p] # NOT_SET
      PROVE  /\ sequence[p] < Len(store') /\ store'[sequence[p] + 1] = store[sequence[p] + 1]
             /\ store[sequence[p] + 1] # NULL /\ sequence[p] + 1 # place
  <2>1. sequence[p] \in Nat /\ sequence[p] + 1 \in 1..Len(store) /\ store[sequence[p] + 1] \in Loops
    BY <1>2, NamedLoop
  <2>2. store[sequence[p] + 1] # NULL
    BY <2>1, PlayerAssumption
  <2>3. sequence[p] + 1 # place
    BY <1>1, <2>1, <2>2
  <2>4. Len(store) \in Nat /\ Len(store') \in Nat
    BY <1>1 DEF StoreInv
  <2> QED BY <1>1, <2>1, <2>2, <2>3, <2>4
<1>3. StoreInv'
  <2>1. Len(store') > 0
    BY <1>1 DEF StoreInv
  <2>2. DOMAIN sequence = 0..(SequenceLength - 1)
    BY DEF StoreInv
  <2>3. SequencedLoopsExist'
    BY <1>1, <1>2, <2>2 DEF SequencedLoopsExist
  <2> QED BY <1>1, <2>1, <2>3 DEF StoreInv
<1>4. ASSUME NEW p \in 0..(SequenceLength - 1) PROVE At(p)' = At(p) /\ sequence[p] # last_free' - 1
  <2>1. CASE sequence[p] = NOT_SET
    BY <1>1, <2>1 DEF At, NOT_SET
  <2>2. CASE sequence[p] # NOT_SET
    <3>1. At(p)' = At(p)
      BY <1>1, <1>2, <2>2 DEF At
    <3>2. sequence[p] \in Nat
      BY <2>2, NamedLoop
    <3> QED BY <1>1, <1>2, <2>2, <3>1, <3>2
  <2> QED BY <2>1, <2>2
<1> QED BY <1>3, <1>4

(* What deleting a loop does to the sequence and to the store.             *)
LEMMA DeleteView ==
  ASSUME StoreInv, NEW id \in AddedIds, DeleteLoop(id)
  PROVE  /\ id < last_free /\ last_free' = last_free - 1
         /\ UNCHANGED <<clock, current>>
         /\ sequence' \in [0..(SequenceLength - 1) -> Int]
         /\ \A p \in 0..(SequenceLength - 1) :
              sequence'[p] = IF sequence[p] = id THEN NOT_SET
                             ELSE IF sequence[p] > id THEN sequence[p] - 1 ELSE sequence[p]
         /\ store' \in Seq(Loops \cup {NULL}) /\ Len(store') = Len(store)
         /\ \A k \in 1..Len(store) :
              store'[k] = IF k - 1 < id \/ k = Len(store) THEN store[k] ELSE store[k + 1]
<1> DEFINE S == Loops \cup {NULL}
           n == Len(store)
           e(k) == IF k - 1 < id \/ k = n THEN store[k] ELSE store[k + 1]
           g(k) == IF k = id THEN NOT_SET ELSE IF k > id THEN k - 1 ELSE k
<1>1. /\ id < last_free /\ last_free' = last_free - 1 /\ UNCHANGED <<clock, current>>
      /\ sequence' = [p \in DOMAIN sequence |-> g(sequence[p])]
      /\ store' = [k \in DOMAIN store |-> e(k)]
  BY DEF DeleteLoop, DropLoop, AddedIds
<1>2. store \in Seq(S) /\ n \in Nat /\ DOMAIN store = 1..n /\ DOMAIN sequence = 0..(SequenceLength - 1)
  BY DEF StoreInv
<1>3. id \in 0..(n - 1)
  BY DEF AddedIds
<1>4. \A k \in 1..n : e(k) \in S
  <2>1. \A k \in 1..n : store[k] \in S
    BY <1>2
  <2> HIDE DEF n, S
  <2>2. \A k \in 1..n : k # n => k + 1 \in 1..n
    BY <1>2
  <2> QED BY <2>1, <2>2
<1>5. \A p \in 0..(SequenceLength - 1) : g(sequence[p]) \in Int
  BY <1>3 DEF StoreInv, NOT_SET
<1>6. sequence' \in [0..(SequenceLength - 1) -> Int] /\ \A p \in 0..(SequenceLength - 1) : sequence'[p] = g(sequence[p])
  <2> HIDE DEF g
  <2> QED BY <1>1, <1>2, <1>5
<1>7. store' \in Seq(S) /\ Len(store') = n /\ \A k \in 1..n : store'[k] = e(k)
  <2> HIDE DEF e, n, S
  <2> QED BY <1>1, <1>2, <1>4
<1> QED BY <1>1, <1>6, <1>7

LEMMA DeleteStore ==
  ASSUME StoreInv, NEW id \in AddedIds, DeleteLoop(id)
  PROVE  /\ StoreInv' /\ id \in 0..last_free
         /\ \A p \in 0..(SequenceLength - 1) : At(p)' = IF sequence[p] = id THEN NULL ELSE At(p)
<1> DEFINE n == Len(store)
<1>0. n \in Nat /\ last_free \in Nat /\ id \in 0..(n - 1)
  BY DEF StoreInv, AddedIds
<1>1. ASSUME NEW p \in 0..(SequenceLength - 1)
      PROVE  /\ sequence'[p] >= NOT_SET
             /\ At(p)' = IF sequence[p] = id THEN NULL ELSE At(p)
             /\ sequence'[p] # NOT_SET => sequence'[p] < n /\ store'[sequence'[p] + 1] # NULL
  <2> DEFINE k == sequence[p]
  <2>0. sequence'[p] = IF k = id THEN NOT_SET ELSE IF k > id THEN k - 1 ELSE k
    BY DeleteView
  <2>1. CASE k = NOT_SET
    <3>1. sequence'[p] = NOT_SET /\ k # id
      BY <1>0, <2>0, <2>1 DEF NOT_SET
    <3> QED BY <2>1, <3>1 DEF At, NOT_SET
  <2>2. CASE k = id
    <3>1. sequence'[p] = NOT_SET
      BY <2>0, <2>2
    <3> QED BY <2>2, <3>1 DEF At, NOT_SET
  <2>3. CASE k # NOT_SET /\ k # id
    <3>1. k \in Nat /\ k + 1 \in 1..n /\ store[k + 1] \in Loops
      BY <2>3, NamedLoop
    <3>2. store[k + 1] # NULL
      BY <3>1, PlayerAssumption
    <3> HIDE DEF k, n
    <3>3. CASE k > id
      <4>1. sequence'[p] = k - 1 /\ k \in 1..n /\ ~(k - 1 < id) /\ k # n /\ k - 1 + 1 = k
        BY <1>0, <2>0, <2>3, <3>1, <3>3
      <4>2. store'[k] = store[k + 1]
        BY <4>1, DeleteView DEF n
      <4>3. k - 1 # NOT_SET /\ k - 1 >= NOT_SET /\ k - 1 < n
        BY <1>0, <3>1, <3>3, <4>1 DEF NOT_SET
      <4>4. At(p)' = store'[k] /\ At(p) = store[k + 1]
        BY <2>3, <4>1, <4>3 DEF At, k
      <4> QED BY <2>3, <3>2, <4>1, <4>2, <4>3, <4>4 DEF k
    <3>4. CASE ~(k > id)
      <4>1. sequence'[p] = k /\ (k + 1) - 1 < id /\ k < n /\ k >= NOT_SET
        BY <1>0, <2>0, <2>3, <3>1, <3>4 DEF NOT_SET
      <4>2. store'[k + 1] = store[k + 1]
        BY <3>1, <4>1, DeleteView DEF n
      <4>3. At(p)' = store'[k + 1] /\ At(p) = store[k + 1]
        BY <2>3, <4>1 DEF At, k
      <4> QED BY <2>3, <3>2, <4>1, <4>2, <4>3 DEF k
    <3> QED BY <3>3, <3>4
  <2> QED BY <2>1, <2>2, <2>3
<1>2. /\ store' \in Seq(Loops \cup {NULL}) /\ Len(store') = n /\ UNCHANGED <<clock, current>>
      /\ sequence' \in [0..(SequenceLength - 1) -> Int]
      /\ id < last_free /\ last_free' = last_free - 1
  BY DeleteView
<1>3. SequencedLoopsExist'
  <2>1. DOMAIN sequence' = 0..(SequenceLength - 1)
    BY <1>2
  <2> QED BY <1>1, <1>2, <2>1 DEF SequencedLoopsExist
<1>4. StoreInv'
  <2>1. last_free' \in Nat /\ Len(store') > 0
    BY <1>0, <1>2 DEF StoreInv
  <2>2. \A p \in 0..(SequenceLength - 1) : sequence'[p] >= NOT_SET
    BY <1>1
  <2> QED BY <1>2, <1>3, <2>1, <2>2 DEF StoreInv
<1>5. id \in 0..last_free
  BY <1>0, <1>2
<1> QED BY <1>1, <1>4, <1>5

LEMMA SetStore ==
  ASSUME StoreInv, NEW q \in DOMAIN sequence, NEW id \in NOT_SET..(Len(store) - 1), SetLoopIdAt(q, id)
  PROVE  StoreInv'
<1>1. /\ sequence' = [sequence EXCEPT ![q] = id] /\ id \in Ids \cup {NOT_SET}
      /\ UNCHANGED <<clock, store, last_free, current>>
  BY DEF SetLoopIdAt
<1>2. sequence' \in [0..(SequenceLength - 1) -> Int] /\ id >= NOT_SET
  BY <1>1 DEF StoreInv, NOT_SET
<1>3. id # NOT_SET => id < Len(store) /\ store[id + 1] # NULL
  BY <1>1 DEF StoreInv, Ids, NOT_SET
<1> QED BY <1>1, <1>2, <1>3 DEF StoreInv, SequencedLoopsExist

(* The operations on notes leave the store and the sequence alone.         *)
NoteOperation ==
  \E l \in Stored :
    \/ ClearLoop(l)
    \/ \E n \in Notes : InsertNote(l, n) \/ DeleteNote(l, n)
    \/ \E n \in Notes, time \in Times : UpdateNote(l, n, time)

LEMMA NoteStore ==
  ASSUME NoteOperation
  PROVE  UNCHANGED <<clock, store, last_free, sequence, current, wild>>
  BY DEF NoteOperation, ClearLoop, InsertNote, PutNote, DeleteNote, UpdateNote, store_vars

LEMMA StoreNext ==
  ASSUME StoreInv, [Next]_vars
  PROVE  StoreInv'
<1>1. CASE Edit
  <2>1. CASE AddNewLoop
    BY <2>1, AddStore
  <2>2. CASE \E id \in AddedIds : DeleteLoop(id)
    BY <2>2, DeleteStore
  <2>3. CASE \E p \in DOMAIN sequence, id \in NOT_SET..(Len(store) - 1) : SetLoopIdAt(p, id)
    BY <2>3, SetStore
  <2>4. CASE NoteOperation
    BY <2>4, NoteStore DEF StoreInv, SequencedLoopsExist
  <2> QED BY <1>1, <2>1, <2>2, <2>3, <2>4 DEF Edit, NoteOperation
<1>2. CASE UNCHANGED vars
  BY <1>2 DEF vars, store_vars, StoreInv, SequencedLoopsExist
<1> QED BY <1>1, <1>2, FillStore, TransportStore DEF Next

LEMMA StoreAlways == Spec => []StoreInv
<1>1. Init => StoreInv
  BY StoreInit
<1>2. StoreInv /\ [Next]_vars => StoreInv'
  BY StoreNext
<1> QED BY <1>1, <1>2, PTL DEF Spec

(* Where the sequence names a loop, the store has one, after any number of *)
(* internal_add_new_loop, delete_loop and internal_set_loop_id_at:         *)
(* fill_buffers dereferences loop_store[loop_id] without a check.          *)
THEOREM SequencedLoopsExistAlways == Spec => []SequencedLoopsExist
<1>1. StoreInv => SequencedLoopsExist
  BY DEF StoreInv
<1> QED BY <1>1, StoreAlways, PTL

(* The tick and line fill_buffers counts on its own are those the          *)
(* transport comes to, wherever operations have put it and its loop.       *)
THEOREM ClocksAgreeAlways == Spec => []ClocksAgree
<1>1. StoreInv => ClocksAgree
  BY SameAdvance DEF StoreInv, ClocksAgree
<1> QED BY <1>1, StoreAlways, PTL

(* delete_loop takes the loop, and no other, from all lines that start it. *)
THEOREM LinesKeepLoopsAlways == Spec => LinesKeepLoops
<1> DEFINE A == last_free' < last_free =>
                  \E id \in 0..last_free : \A p \in DOMAIN sequence :
                    At(p)' = IF sequence[p] = id THEN NULL ELSE At(p)
<1>1. ASSUME StoreInv, [Next]_vars PROVE A
  <2>0. last_free \in Nat /\ DOMAIN sequence = 0..(SequenceLength - 1)
    BY <1>1 DEF StoreInv
  <2>1. CASE last_free' = last_free
    BY <2>0, <2>1
  <2>2. CASE AddNewLoop
    <3> SUFFICES ASSUME last_free' < last_free PROVE A
      OBVIOUS
    <3>1. \A p \in 0..(SequenceLength - 1) : At(p)' = At(p) /\ sequence[p] # last_free' - 1
      BY <1>1, <2>2, AddStore
    <3>2. last_free' \in Nat \ {0}
      BY <1>1, <2>2, AddView
    <3>3. last_free' - 1 \in 0..last_free
      <4> DEFINE m == last_free'
      <4>1. m < last_free /\ m \in Nat \ {0}
        BY <3>2
      <4> HIDE DEF m
      <4>2. m - 1 \in 0..last_free
        BY <2>0, <4>1
      <4> QED BY <4>2 DEF m
    <3> QED BY <2>0, <3>1, <3>3
  <2>3. CASE \E id \in AddedIds : DeleteLoop(id)
    BY <1>1, <2>0, <2>3, DeleteStore
  <2>4. Fill \/ TransportOperation \/ NoteOperation \/ UNCHANGED vars => last_free' = last_free
    BY NoteStore DEF Fill, FillBuffers, TransportOperation, SetClock, ResetAndSetClock, vars, store_vars
  <2>5. (\E p \in DOMAIN sequence, id \in NOT_SET..(Len(store) - 1) : SetLoopIdAt(p, id)) => last_free' = last_free
    BY DEF SetLoopIdAt
  <2> QED BY <1>1, <2>1, <2>2, <2>3, <2>4, <2>5 DEF Next, Edit, NoteOperation
<1>2. StoreInv /\ [Next]_vars => [A]_vars
  BY <1>1
<1>3. Spec => [][A]_vars
  BY <1>2, StoreAlways, PTL DEF Spec
<1> QED BY <1>3 DEF LinesKeepLoops


-----------------------------------------------------------------------------
(* The notes of a loop, and the pointer to the next one                    *)

Listed(l, n) == \E i \in 1..Len(list[l]) : list[l][i] = n

Sorted(l) ==
  \A i, j \in 1..Len(list[l]) : i < j => on_at[list[l][i]] =< on_at[list[l][j]]

(* A note is in one place of one list only.                                *)
Distinct ==
  \A l, m \in Loops : \A i \in 1..Len(list[l]), j \in 1..Len(list[m]) :
     list[l][i] = list[m][j] => l = m /\ i = j

(* The pointer of loop l is to one of its notes, and not behind.           *)
PointerInv(l) ==
  next[l] # NULL =>
    /\ Listed(l, next[l])
    /\ l \notin moved => on_at[next[l]] >= at[l]

NoteInv ==
  /\ list \in [Loops -> Seq(Notes)]
  /\ at \in [Loops -> Nat] /\ on_at \in [Notes -> Nat]
  /\ next = [l \in Loops |-> next[l]]
  /\ misused \in BOOLEAN
  /\ Distinct
  /\ \A l \in Loops \ moved : Sorted(l)
  /\ ~misused => \A l \in Loops : PointerInv(l)

LEMMA ListedIsRange ==
  ASSUME NoteInv, NEW l \in Loops
  PROVE  /\ DOMAIN list[l] = 1..Len(list[l]) /\ Len(list[l]) \in Nat
         /\ \A n : n \in Range(list[l]) <=> Listed(l, n)
         /\ \A i \in 1..Len(list[l]) : list[l][i] \in Notes
<1>1. list[l] \in Seq(Notes)
  BY DEF NoteInv
<1>2. DOMAIN list[l] = 1..Len(list[l]) /\ Len(list[l]) \in Nat
  BY <1>1
<1>3. \A i \in 1..Len(list[l]) : list[l][i] \in Notes
  BY <1>1
<1> QED BY <1>2, <1>3 DEF Range, Listed

LEMMA PlaceIsThere ==
  ASSUME NoteInv, NEW l \in Loops, NEW n, Listed(l, n)
  PROVE  PlaceOf(l, n) \in 1..Len(list[l]) /\ list[l][PlaceOf(l, n)] = n
  BY ListedIsRange DEF PlaceOf, Listed

(* What process_note_on leaves as the next note: it is in the list, and    *)
(* behind all that start now.                                              *)
LEMMA FollowingIsAhead ==
  ASSUME NoteInv, NEW l \in Loops, NEW first, first # NULL, Listed(l, first), NEW time \in Nat,
         NEW f, f = Following(l, first, Starting(l, first, time)), f # NULL
  PROVE  /\ Listed(l, f)
         /\ Sorted(l) /\ on_at[first] >= time => on_at[f] >= time + 1
<1> DEFINE s == list[l]
           i == PlaceOf(l, first)
           run == {j \in i..Len(s) : \A k \in i..j : on_at[s[k]] = time}
           c == Cardinality(run)
           taken == SubSeq(s, i, i + c - 1)
<1>1. i \in 1..Len(s) /\ s[i] = first /\ Len(s) \in Nat /\ \A k \in 1..Len(s) : s[k] \in Notes
  BY PlaceIsThere, ListedIsRange
<1>2. IsFiniteSet(i..Len(s)) /\ run \subseteq i..Len(s)
  <2>1. i \in Int /\ Len(s) \in Int
    BY <1>1
  <2> HIDE DEF i, s
  <2>2. IsFiniteSet(i..Len(s))
    BY <2>1, FS_Interval
  <2> QED BY <2>2
<1>3. IsFiniteSet(run) /\ c \in Nat
  BY <1>2, FS_Subset, FS_CardinalityType
<1>4. Starting(l, first, time) = taken
  BY DEF Starting
<1> HIDE DEF s, run, c, i
<1>5. Len(taken) = c
  <2> DEFINE S == {s[k] : k \in i..(i + c - 1)}
  <2>1. \A k \in i..(i + c - 1) : s[k] \in S
    OBVIOUS
  <2>2. i \in Int /\ i + c - 1 \in Int
    BY <1>1, <1>3
  <2> HIDE DEF S
  <2> DEFINE j == i + c - 1
  <2>3. taken = SubSeq(s, i, j) /\ j = i + c - 1 /\ \A k \in i..j : s[k] \in S
    BY <2>1
  <2> HIDE DEF j, taken
  <2>4. j \in Int
    BY <2>2, <2>3
  <2>5. Len(SubSeq(s, i, j)) = IF i <= j THEN j - i + 1 ELSE 0
    BY <2>2, <2>3, <2>4, SubSeqProperties
  <2>6. Len(taken) = IF i <= j THEN j - i + 1 ELSE 0
    BY <2>3, <2>5
  <2> QED BY <1>1, <1>3, <2>3, <2>6
<1> HIDE DEF taken
<1>6. i + c \in 1..Len(s) /\ f = s[i + c]
  <2>1. ~(i + c > Len(s)) /\ f = s[i + c]
    BY <1>4, <1>5 DEF Following, s, i
  <2> QED BY <1>1, <1>3, <2>1
<1>7. Listed(l, f)
  BY <1>6 DEF Listed, s
<1>8. ASSUME Sorted(l), on_at[first] >= time, ~(on_at[f] >= time + 1) PROVE FALSE
  <2>0. \A k \in 1..Len(s) : on_at[s[k]] \in Nat
    BY <1>1 DEF NoteInv
  <2>1. ASSUME NEW k \in i..(i + c) PROVE on_at[s[k]] = time
    <3>1. k \in 1..Len(s) /\ (k = i \/ i < k) /\ (k = i + c \/ k < i + c)
      BY <1>1, <1>3, <1>6
    <3>2. on_at[s[i]] <= on_at[s[k]]
      BY <1>1, <1>8, <2>0, <3>1 DEF Sorted, s
    <3>3. on_at[s[k]] <= on_at[s[i + c]]
      BY <1>6, <1>8, <2>0, <3>1 DEF Sorted, s
    <3> QED BY <1>1, <1>6, <1>8, <2>0, <3>1, <3>2, <3>3
  <2>2. i..(i + c) \subseteq run
    <3> SUFFICES ASSUME NEW j \in i..(i + c) PROVE j \in run
      OBVIOUS
    <3>1. j \in i..Len(s) /\ \A k \in i..j : k \in i..(i + c)
      BY <1>1, <1>3, <1>6
    <3> QED BY <2>1, <3>1 DEF run
  <2>3. Cardinality(i..(i + c)) = c + 1
    BY <1>1, <1>3, FS_Interval
  <2>4. Cardinality(i..(i + c)) <= Cardinality(run)
    BY <1>3, <2>2, FS_Subset
  <2> QED BY <1>3, <2>3, <2>4 DEF c
<1> QED BY <1>7, <1>8

LEMMA NoteInit == ASSUME Init PROVE NoteInv
<1> USE PlayerAssumption
<1>1. PICK s \in {<<>>, Loaded} : list = [l \in Loops |-> IF l = FirstLoop THEN s ELSE <<>>]
  BY DEF Init
<1>2. s \in Seq(Notes) /\ IsInjective(s) /\ DOMAIN s = 1..Len(s)
  <2>1. CASE s = <<>>
    <3>1. DOMAIN s = {} /\ s \in Seq(Notes)
      BY <2>1
    <3> QED BY <3>1 DEF IsInjective
  <2>2. CASE s = Loaded
    BY <2>2
  <2> QED BY <2>1, <2>2
<1>3. list \in [Loops -> Seq(Notes)]
  BY <1>1, <1>2
<1>4. at \in [Loops -> Nat] /\ on_at \in [Notes -> Nat] /\ misused \in BOOLEAN
  BY DEF Init
<1>5. next = [l \in Loops |-> next[l]] /\ \A l \in Loops : PointerInv(l)
  BY DEF Init, PointerInv
<1>6. \A l \in Loops \ {FirstLoop} : list[l] = <<>> /\ Len(list[l]) = 0
  BY <1>1
<1>7. list[FirstLoop] = s
  BY <1>1
<1>8. Distinct
  <2> SUFFICES ASSUME NEW l \in Loops, NEW m \in Loops,
                      NEW i \in 1..Len(list[l]), NEW j \in 1..Len(list[m]),
                      list[l][i] = list[m][j]
               PROVE  l = m /\ i = j
    BY DEF Distinct
  <2>1. l = FirstLoop /\ m = FirstLoop
    BY <1>6
  <2> QED BY <1>2, <1>7, <2>1 DEF IsInjective
<1>9. \A l \in Loops : Sorted(l)
  <2>1. \A i, j \in DOMAIN s : i < j => OnAt[s[i]] <= OnAt[s[j]]
    <3>1. CASE s = <<>>
      <4>1. DOMAIN s = {}
        BY <3>1
      <4> QED BY <4>1
    <3>2. CASE s = Loaded
      BY <3>2
    <3> QED BY <3>1, <3>2
  <2>2. on_at = OnAt
    BY DEF Init
  <2>3. Sorted(FirstLoop)
    BY <1>2, <1>7, <2>1, <2>2 DEF Sorted
  <2>4. ASSUME NEW l \in Loops \ {FirstLoop} PROVE Sorted(l)
    <3>1. Len(list[l]) = 0
      BY <1>6
    <3> QED BY <3>1 DEF Sorted
  <2> QED BY <2>3, <2>4
<1> QED BY <1>3, <1>4, <1>5, <1>8, <1>9 DEF NoteInv


LEMMA SameNotes ==
  ASSUME NoteInv, UNCHANGED <<list, at, next, on_at, misused, moved>>
  PROVE  NoteInv'
  BY DEF NoteInv, Distinct, Sorted, PointerInv, Listed

(* One tick: only the pointer and the position of the loop that plays      *)
(* change.                                                                 *)
LEMMA FillNotes ==
  ASSUME StoreInv, NoteInv, Fill
  PROVE  NoteInv'
<1>0. PICK l : l = Playing
  OBVIOUS
<1> DEFINE first == IF Starts THEN IF list[l] = <<>> THEN NULL ELSE list[l][1] ELSE next[l]
           time == IF Starts THEN 0 ELSE at[l]
           f == Following(l, first, Starting(l, first, time))
<1>1. UNCHANGED <<list, on_at, misused, moved>>
  BY DEF Fill, FillBuffers, loop_vars, seen_vars
<1>2. CASE UNCHANGED <<at, next>>
  BY <1>1, <1>2, SameNotes
<1>3. CASE /\ l # NULL
           /\ at' = [at EXCEPT ![l] = IF time = Late THEN Late ELSE time + 1]
           /\ next' = [next EXCEPT ![l] = f]
  <2>1. l \in Loops
    <3>1. l = current'
      BY <1>0 DEF Fill, FillBuffers
    <3> QED BY <1>3, <3>1, FillStore DEF StoreInv
  <2>2. time \in Nat
    BY <2>1 DEF NoteInv
  <2> DEFINE a == IF time = Late THEN Late ELSE time + 1
  <2>3. a \in Nat /\ a <= time + 1
    BY <2>2
  <2>4. at' \in [Loops -> Nat] /\ at'[l] = a /\ \A m \in Loops \ {l} : at'[m] = at[m]
    <3> HIDE DEF a
    <3>1. at \in [Loops -> Nat] /\ at' = [at EXCEPT ![l] = a]
      BY <1>3 DEF NoteInv, a
    <3> QED BY <2>1, <2>3, <3>1
  <2>5. /\ next' = [m \in Loops |-> next'[m]] /\ next'[l] = f
        /\ \A m \in Loops \ {l} : next'[m] = next[m]
    <3> HIDE DEF f
    <3> QED BY <1>3, <2>1 DEF NoteInv
  <2>6. \A m \in Loops : Sorted(m)' <=> Sorted(m)
    BY <1>1 DEF Sorted
  <2>7. Distinct'
    BY <1>1 DEF NoteInv, Distinct
  <2>8. ASSUME ~misused, NEW m \in Loops \ {l} PROVE PointerInv(m)'
    BY <1>1, <2>4, <2>5, <2>8 DEF PointerInv, Listed, NoteInv
  <2>9. ASSUME ~misused PROVE PointerInv(l)'
    <3>1. first # NULL => Listed(l, first) /\ (l \notin moved => on_at[first] >= time)
      <4>1. PointerInv(l)
        BY <2>1, <2>9 DEF NoteInv
      <4>2. CASE ~Starts
        BY <4>1, <4>2 DEF PointerInv
      <4>3. CASE Starts
        <5>1. list[l] \in Seq(Notes)
          BY <2>1 DEF NoteInv
        <5> SUFFICES ASSUME list[l] # <<>> PROVE Listed(l, list[l][1]) /\ on_at[list[l][1]] >= 0
          BY <4>3
        <5>2. Len(list[l]) \in Nat \ {0}
          BY <5>1, EmptySeq
        <5>3. 1 \in 1..Len(list[l]) /\ list[l][1] \in Notes
          BY <5>1, <5>2
        <5> QED BY <5>3 DEF Listed, NoteInv
      <4> QED BY <4>2, <4>3
    <3> HIDE DEF first, time
    <3>2. SUFFICES ASSUME f # NULL PROVE Listed(l, f) /\ (l \notin moved => on_at[f] >= a)
      BY <1>1, <2>4, <2>5 DEF PointerInv, Listed
    <3>3. first # NULL
      BY <3>2 DEF Following
    <3>4. Listed(l, f) /\ (Sorted(l) /\ on_at[first] >= time => on_at[f] >= time + 1)
      BY <2>1, <2>2, <3>1, <3>2, <3>3, FollowingIsAhead
    <3>5. on_at[f] \in Nat
      BY <2>1, <3>4, ListedIsRange DEF Listed, NoteInv
    <3>6. l \notin moved => on_at[f] >= time + 1
      BY <2>1, <3>1, <3>3, <3>4 DEF NoteInv
    <3> HIDE DEF a, f
    <3> QED BY <2>2, <2>3, <3>4, <3>5, <3>6
  <2> QED BY <1>1, <2>4, <2>5, <2>6, <2>7, <2>8, <2>9 DEF NoteInv
<1> QED BY <1>0, <1>2, <1>3 DEF Fill, FillBuffers, loop_vars

(* A new loop has no notes.                                                *)
LEMMA AddNotes ==
  ASSUME NoteInv, AddNewLoop
  PROVE  NoteInv'
<1>1. PICK l \in Loops : /\ list' = [list EXCEPT ![l] = <<>>]
                         /\ next' = [next EXCEPT ![l] = NULL]
                         /\ moved' = moved \ {l}
                         /\ UNCHANGED <<at, on_at, misused>>
  BY DEF AddNewLoop, PutLoop, Unused
<1>2. /\ list' \in [Loops -> Seq(Notes)] /\ list'[l] = <<>> /\ Len(list'[l]) = 0
      /\ \A m \in Loops \ {l} : list'[m] = list[m]
  BY <1>1 DEF NoteInv
<1>3. /\ next' = [m \in Loops |-> next'[m]] /\ next'[l] = NULL
      /\ \A m \in Loops \ {l} : next'[m] = next[m]
  BY <1>1 DEF NoteInv
<1>4. Distinct'
  <2> SUFFICES ASSUME NEW j \in Loops, NEW m \in Loops,
                      NEW i \in 1..Len(list'[j]), NEW k \in 1..Len(list'[m]),
                      list'[j][i] = list'[m][k]
               PROVE  j = m /\ i = k
    BY DEF Distinct
  <2>1. j # l /\ m # l
    BY <1>2
  <2>2. list'[j] = list[j] /\ list'[m] = list[m]
    BY <1>2, <2>1
  <2>3. Distinct
    BY DEF NoteInv
  <2> QED BY <2>2, <2>3 DEF Distinct
<1>5. \A m \in Loops \ moved' : Sorted(m)'
  <2>1. Sorted(l)'
    BY <1>2 DEF Sorted
  <2>2. \A m \in Loops \ {l} : Sorted(m) => Sorted(m)'
    BY <1>1, <1>2 DEF Sorted
  <2> QED BY <1>1, <2>1, <2>2 DEF NoteInv
<1>6. ~misused' => \A m \in Loops : PointerInv(m)'
  BY <1>1, <1>2, <1>3 DEF NoteInv, PointerInv, Listed
<1> QED BY <1>1, <1>2, <1>3, <1>4, <1>5, <1>6 DEF NoteInv

LEMMA ClearNotes ==
  ASSUME NoteInv, NEW l \in Loops, ClearLoop(l)
  PROVE  NoteInv'
<1>1. /\ list' = [list EXCEPT ![l] = <<>>]
      /\ misused' = (misused \/ ({next[l]} \cup Range(active[l])) \cap Range(list[l]) # {})
      /\ UNCHANGED <<at, next, on_at, moved>>
  BY DEF ClearLoop
<1>2. /\ list' \in [Loops -> Seq(Notes)] /\ list'[l] = <<>> /\ Len(list'[l]) = 0
      /\ \A m \in Loops \ {l} : list'[m] = list[m]
  BY <1>1 DEF NoteInv
<1>3. Distinct'
  <2> SUFFICES ASSUME NEW j \in Loops, NEW m \in Loops,
                      NEW i \in 1..Len(list'[j]), NEW k \in 1..Len(list'[m]),
                      list'[j][i] = list'[m][k]
               PROVE  j = m /\ i = k
    BY DEF Distinct
  <2>1. j # l /\ m # l
    BY <1>2
  <2>2. list'[j] = list[j] /\ list'[m] = list[m]
    BY <1>2, <2>1
  <2>3. Distinct
    BY DEF NoteInv
  <2> QED BY <2>2, <2>3 DEF Distinct
<1>4. \A m \in Loops \ moved' : Sorted(m)'
  <2>1. Sorted(l)'
    BY <1>2 DEF Sorted
  <2>2. \A m \in Loops \ {l} : Sorted(m) => Sorted(m)'
    BY <1>1, <1>2 DEF Sorted
  <2> QED BY <1>1, <2>1, <2>2 DEF NoteInv
<1>5. misused' \in BOOLEAN /\ (misused => misused')
  BY <1>1 DEF NoteInv
<1>6. ASSUME ~misused', NEW m \in Loops PROVE PointerInv(m)'
  <2>1. PointerInv(m)
    BY <1>5, <1>6 DEF NoteInv
  <2>2. CASE m # l
    BY <1>1, <1>2, <2>1, <2>2 DEF PointerInv, Listed
  <2>3. CASE m = l
    <3>1. next[l] \notin Range(list[l])
      BY <1>1, <1>6
    <3>2. next[l] = NULL
      BY <2>1, <2>3, <3>1, ListedIsRange DEF PointerInv
    <3> QED BY <1>1, <2>3, <3>2 DEF PointerInv
  <2> QED BY <2>2, <2>3
<1> QED BY <1>1, <1>2, <1>3, <1>4, <1>5, <1>6 DEF NoteInv

(* A note whose time changes belongs to this loop only.                    *)
LEMMA UpdateNotes ==
  ASSUME NoteInv, NEW l \in Loops, NEW n \in Notes, NEW time \in Times, UpdateNote(l, n, time)
  PROVE  NoteInv'
<1>1. /\ Listed(l, n) /\ on_at' = [on_at EXCEPT ![n] = time] /\ moved' = moved \cup {l}
      /\ UNCHANGED <<list, at, next, misused>>
  BY ListedIsRange DEF UpdateNote
<1>2. on_at' \in [Notes -> Nat] /\ \A m \in Notes \ {n} : on_at'[m] = on_at[m]
  <2>1. time \in Nat
    BY PlayerAssumption
  <2> QED BY <1>1, <2>1 DEF NoteInv
<1>3. ASSUME NEW m \in Loops \ {l}, NEW i \in 1..Len(list[m]) PROVE on_at'[list[m][i]] = on_at[list[m][i]]
  <2>1. list[m][i] # n
    BY <1>1 DEF Listed, NoteInv, Distinct
  <2> QED BY <1>2, <2>1, ListedIsRange
<1>4. \A m \in Loops \ moved' : Sorted(m)'
  <2> SUFFICES ASSUME NEW m \in Loops \ moved' PROVE Sorted(m)'
    OBVIOUS
  <2>1. Sorted(m) /\ m \in Loops \ {l}
    BY <1>1 DEF NoteInv
  <2> QED BY <1>1, <1>3, <2>1 DEF Sorted
<1>5. ASSUME ~misused, NEW m \in Loops PROVE PointerInv(m)'
  <2>1. PointerInv(m)
    BY <1>5 DEF NoteInv
  <2>2. CASE m = l
    BY <1>1, <2>1, <2>2 DEF PointerInv, Listed
  <2>3. CASE m # l /\ next[m] # NULL
    <3>1. PICK i \in 1..Len(list[m]) : list[m][i] = next[m]
      BY <2>1, <2>3 DEF PointerInv, Listed
    <3>2. on_at'[next[m]] = on_at[next[m]]
      BY <1>3, <2>3, <3>1
    <3>3. m \notin moved' => m \notin moved /\ on_at[next[m]] >= at[m]
      BY <1>1, <2>1, <2>3 DEF PointerInv
    <3> QED BY <1>1, <3>1, <3>2, <3>3 DEF PointerInv, Listed
  <2>4. CASE next[m] = NULL
    BY <1>1, <2>4 DEF PointerInv
  <2> QED BY <2>2, <2>3, <2>4
<1>6. Distinct'
  <2>1. Distinct /\ list' = list
    BY <1>1 DEF NoteInv
  <2> QED BY <2>1 DEF Distinct
<1>7. list' \in [Loops -> Seq(Notes)] /\ at' \in [Loops -> Nat] /\ misused' \in BOOLEAN
  BY <1>1 DEF NoteInv
<1>8. next' = [m \in Loops |-> next'[m]] /\ misused' = misused
  BY <1>1 DEF NoteInv
<1> QED BY <1>2, <1>4, <1>5, <1>6, <1>7, <1>8 DEF NoteInv


(* What becomes of the invariant when list l becomes s, the notes of which *)
(* were in list l before, or in none.                                      *)
LEMMA ListReplaced ==
  ASSUME NoteInv, NEW l \in Loops, NEW s \in Seq(Notes), list' = [list EXCEPT ![l] = s],
         UNCHANGED <<at, on_at, moved>>,
         next' = [m \in Loops |-> next'[m]], \A m \in Loops \ {l} : next'[m] = next[m],
         misused' \in BOOLEAN, misused => misused',
         \A i, j \in 1..Len(s) : s[i] = s[j] => i = j,
         \A i \in 1..Len(s) : Listed(l, s[i]) \/ \A m \in Loops : ~Listed(m, s[i]),
         l \notin moved =>
            \A i, j \in 1..Len(s) : i < j => on_at[s[i]] =< on_at[s[j]],
         ~misused' => PointerInv(l)'
  PROVE  NoteInv'
<1>1. /\ list' \in [Loops -> Seq(Notes)] /\ list'[l] = s
      /\ \A m \in Loops \ {l} : list'[m] = list[m]
  BY DEF NoteInv
<1>2. Distinct'
  <2> SUFFICES ASSUME NEW j \in Loops, NEW m \in Loops,
                      NEW i \in 1..Len(list'[j]), NEW k \in 1..Len(list'[m]),
                      list'[j][i] = list'[m][k]
               PROVE  j = m /\ i = k
    BY DEF Distinct
  <2>0. Distinct
    BY DEF NoteInv
  <2>1. CASE j = l /\ m = l
    BY <1>1, <2>1
  <2>2. CASE j # l /\ m # l
    <3>1. list'[j] = list[j] /\ list'[m] = list[m]
      BY <1>1, <2>2
    <3> QED BY <2>0, <3>1 DEF Distinct
  <2>3. ASSUME NEW o \in Loops \ {l}, NEW a \in 1..Len(list[o]), NEW b \in 1..Len(s), list[o][a] = s[b] PROVE FALSE
    <3>1. Listed(o, s[b])
      BY <2>3 DEF Listed
    <3>2. Listed(l, s[b])
      BY <3>1
    <3> QED BY <2>0, <2>3, <3>2 DEF Listed, Distinct
  <2>4. CASE j = l /\ m # l
    BY <1>1, <2>3, <2>4
  <2>5. CASE j # l /\ m = l
    BY <1>1, <2>3, <2>5
  <2> QED BY <2>1, <2>2, <2>4, <2>5
<1>3. \A m \in Loops \ moved' : Sorted(m)'
  <2>1. \A m \in Loops \ {l} : Sorted(m) => Sorted(m)'
    BY <1>1 DEF Sorted
  <2>2. l \notin moved => Sorted(l)'
    BY <1>1 DEF Sorted
  <2> QED BY <2>1, <2>2 DEF NoteInv
<1>4. ~misused' => \A m \in Loops : PointerInv(m)'
  <2>1. ~misused' => \A m \in Loops \ {l} : PointerInv(m)'
    <3> SUFFICES ASSUME ~misused', NEW m \in Loops \ {l} PROVE PointerInv(m)'
      OBVIOUS
    <3>1. PointerInv(m)
      BY DEF NoteInv
    <3>2. list'[m] = list[m] /\ next'[m] = next[m]
      BY <1>1
    <3> QED BY <3>1, <3>2 DEF PointerInv, Listed
  <2> QED BY <2>1
<1> QED BY <1>1, <1>2, <1>3, <1>4 DEF NoteInv

(* internal_insert_note keeps the list sorted.                             *)
LEMMA InsertNotes ==
  ASSUME NoteInv, NEW l \in Loops, NEW n \in Notes, InsertNote(l, n)
  PROVE  NoteInv'
<1> DEFINE s == list[l]
           I == {i \in 1..Len(s) : on_at[s[i]] > on_at[n]}
           k == SelectInSeq(s, LAMBDA m : on_at[m] > on_at[n])
           place == IF k = 0 THEN Len(s) + 1 ELSE k
           r == InsertAt(s, place, n)
<1>1. /\ \A m \in Loops : n \notin Range(list[m])
      /\ list' = [list EXCEPT ![l] = r]
      /\ UNCHANGED <<at, next, on_at, misused, moved>>
  BY DEF InsertNote, PutNote, seen_vars
<1>2. s \in Seq(Notes) /\ Len(s) \in Nat /\ \A i \in 1..Len(s) : s[i] \in Notes /\ on_at[s[i]] \in Nat
  BY ListedIsRange DEF NoteInv
<1>3. on_at[n] \in Nat
  BY DEF NoteInv
<1>4. /\ place \in 1..(Len(s) + 1)
      /\ \A i \in 1..Len(s) : i < place => on_at[s[i]] =< on_at[n]
      /\ place <= Len(s) => on_at[s[place]] > on_at[n]
  <2>1. k = IF I # {} THEN Min(I) ELSE 0
    BY DEF SelectInSeq
  <2>2. I \subseteq Nat /\ \A i \in I : i \in 1..Len(s) /\ i # 0
    BY <1>2
  <2>3. I # {} => Min(I) \in I /\ \A y \in I : Min(I) =< y
    BY <2>2, MinIsMember
  <2>4. CASE I = {}
    <3>1. place = Len(s) + 1 /\ \A i \in 1..Len(s) : ~(on_at[s[i]] > on_at[n])
      BY <2>1, <2>4
    <3> HIDE DEF s, place
    <3> QED BY <1>2, <1>3, <3>1
  <2>5. CASE I # {}
    <3>1. place = Min(I) /\ place \in I /\ \A y \in I : place =< y
      BY <2>1, <2>2, <2>3, <2>5
    <3> HIDE DEF s, place
    <3>2. place \in 1..Len(s) /\ on_at[s[place]] > on_at[n]
      BY <3>1
    <3>3. ASSUME NEW i \in 1..Len(s), i < place PROVE on_at[s[i]] =< on_at[n]
      <4>0. ~(place =< i)
        BY <1>2, <3>2, <3>3
      <4>1. i \notin I
        <5> HIDE DEF I
        <5> QED BY <3>1, <4>0
      <4> QED BY <1>2, <1>3, <4>1
    <3> QED BY <1>2, <3>2, <3>3
  <2> QED BY <2>4, <2>5
<1> HIDE DEF k, place
<1>5. /\ r \in Seq(Notes) /\ Len(r) = Len(s) + 1
      /\ \A i \in 1..(Len(s) + 1) :
           r[i] = IF i < place THEN s[i] ELSE IF i = place THEN n ELSE s[i - 1]
  <2> HIDE DEF s
  <2> QED BY <1>2, <1>4, InsertView
<1>6. \A m \in Loops : ~Listed(m, n)
  BY <1>1, ListedIsRange
<1>7. \A i, j \in 1..Len(s) : s[i] = s[j] => i = j
  BY DEF NoteInv, Distinct
<1>8. \A i \in 1..Len(s) : s[i] # n /\ Listed(l, s[i])
  BY <1>6 DEF Listed
<1>9. l \notin moved => \A i, j \in 1..Len(s) : i < j => on_at[s[i]] =< on_at[s[j]]
  BY DEF NoteInv, Sorted
<1>10. ~misused => PointerInv(l)'
  <2> SUFFICES ASSUME ~misused, next[l] # NULL
               PROVE  Listed(l, next[l])' /\ (l \notin moved => on_at[next[l]] >= at[l])
    BY <1>1 DEF PointerInv
  <2>1. Listed(l, next[l]) /\ (l \notin moved => on_at[next[l]] >= at[l])
    BY DEF NoteInv, PointerInv
  <2>2. PICK i \in 1..Len(s) : s[i] = next[l]
    BY <2>1 DEF Listed
  <2>3. list'[l] = r /\ next'[l] = next[l]
    BY <1>1 DEF NoteInv
  <2> HIDE DEF s, r
  <2>4. \E j \in 1..Len(r) : r[j] = next[l]
    <3>1. CASE i < place
      BY <1>2, <1>5, <2>2, <3>1
    <3>2. CASE ~(i < place)
      <4>1. i + 1 \in 1..(Len(s) + 1) /\ ~(i + 1 < place) /\ i + 1 # place /\ (i + 1) - 1 = i
        BY <1>2, <1>4, <3>2
      <4>2. r[i + 1] = s[i]
        BY <1>5, <4>1
      <4> QED BY <1>5, <2>2, <4>1, <4>2
    <3> QED BY <3>1, <3>2
  <2> QED BY <2>1, <2>3, <2>4 DEF Listed
<1> HIDE DEF r, s
<1>11. \A i \in 1..Len(r) : \/ i < place /\ i \in 1..Len(s) /\ r[i] = s[i]
                            \/ i = place /\ r[i] = n
                            \/ i > place /\ i - 1 \in 1..Len(s) /\ r[i] = s[i - 1]
  BY <1>2, <1>4, <1>5
<1>12. \A i \in 1..Len(r) : Listed(l, r[i]) \/ \A m \in Loops : ~Listed(m, r[i])
  BY <1>6, <1>8, <1>11
<1>13. ASSUME NEW i \in 1..Len(r), NEW j \in 1..Len(r), i < j
       PROVE  r[i] # r[j] /\ (l \notin moved => on_at[r[i]] =< on_at[r[j]])
  <2>0. place \in 1..(Len(s) + 1) /\ Len(r) = Len(s) + 1
    BY <1>4, <1>5
  <2>1. CASE j < place
    <3>1. i \in 1..Len(s) /\ j \in 1..Len(s) /\ r[i] = s[i] /\ r[j] = s[j] /\ i # j
      BY <1>2, <1>11, <1>13, <2>0, <2>1
    <3> QED BY <1>7, <1>9, <1>13, <3>1
  <2>2. CASE j = place
    <3>1. i \in 1..Len(s) /\ i < place /\ r[i] = s[i] /\ r[j] = n
      BY <1>2, <1>11, <1>13, <2>0, <2>2
    <3> QED BY <1>4, <1>8, <3>1
  <2>3. CASE j > place
    <3>1. j - 1 \in 1..Len(s) /\ r[j] = s[j - 1] /\ place \in 1..Len(s) /\ place <= j - 1
      BY <1>2, <1>11, <1>13, <2>0, <2>3
    <3>2. l \notin moved => on_at[s[place]] =< on_at[s[j - 1]]
      BY <1>2, <1>9, <3>1
    <3>3. CASE i < place
      <4>1. i \in 1..Len(s) /\ i < j - 1 /\ r[i] = s[i]
        BY <1>2, <1>11, <1>13, <2>0, <3>1, <3>3
      <4> QED BY <1>7, <1>9, <3>1, <4>1
    <3>4. CASE i = place
      <4>1. r[i] = n /\ r[i] # r[j]
        BY <1>8, <1>11, <2>0, <3>1, <3>4
      <4>2. on_at[s[place]] > on_at[n]
        BY <1>2, <1>4, <3>1
      <4> QED BY <1>2, <1>3, <3>1, <3>2, <4>1, <4>2
    <3>5. CASE i > place
      <4>1. i - 1 \in 1..Len(s) /\ i - 1 < j - 1 /\ r[i] = s[i - 1]
        BY <1>2, <1>11, <1>13, <2>0, <3>5
      <4> QED BY <1>7, <1>9, <3>1, <4>1
    <3> QED BY <2>0, <3>3, <3>4, <3>5
  <2> QED BY <2>0, <2>1, <2>2, <2>3
<1>14. \A i, j \in 1..Len(r) : r[i] = r[j] => i = j
  <2> SUFFICES ASSUME NEW i \in 1..Len(r), NEW j \in 1..Len(r), r[i] = r[j] PROVE i = j
    OBVIOUS
  <2>1. ~(i < j) /\ ~(j < i)
    BY <1>13
  <2> QED BY <2>1
<1>15. next' = [m \in Loops |-> next'[m]] /\ misused' \in BOOLEAN
  BY <1>1 DEF NoteInv
<1> QED BY <1>1, <1>5, <1>10, <1>12, <1>13, <1>14, <1>15, ListReplaced

(* note_delete leaves the pointer in the list.                             *)
LEMMA DeleteNotes ==
  ASSUME NoteInv, NEW l \in Loops, NEW n \in Notes, DeleteNote(l, n)
  PROVE  NoteInv'
<1> DEFINE s == list[l]
           p == PlaceOf(l, n)
           r == RemoveAt(s, p)
           x == IF next[l] = n THEN Following(l, n, <<n>>) ELSE next[l]
<1>1. /\ Listed(l, n) /\ list' = [list EXCEPT ![l] = r]
      /\ next' = [next EXCEPT ![l] = x]
      /\ misused' = (misused \/ n \in Range(active[l]))
      /\ UNCHANGED <<at, on_at, moved>>
  BY ListedIsRange DEF DeleteNote
<1>2. s \in Seq(Notes) /\ Len(s) \in Nat /\ \A i \in 1..Len(s) : s[i] \in Notes /\ on_at[s[i]] \in Nat
  BY ListedIsRange DEF NoteInv
<1>3. p \in 1..Len(s) /\ s[p] = n
  BY <1>1, PlaceIsThere
<1> HIDE DEF p
<1>4. /\ r \in Seq(Notes) /\ Len(r) = Len(s) - 1
      /\ \A i \in 1..(Len(s) - 1) : r[i] = IF i < p THEN s[i] ELSE s[i + 1]
  <2> HIDE DEF s
  <2> QED BY <1>2, <1>3, RemoveView
<1>5. \A i, j \in 1..Len(s) : s[i] = s[j] => i = j
  BY DEF NoteInv, Distinct
<1>6. \A i \in 1..Len(s) : Listed(l, s[i])
  BY DEF Listed
<1>7. l \notin moved => \A i, j \in 1..Len(s) : i < j => on_at[s[i]] =< on_at[s[j]]
  BY DEF NoteInv, Sorted
<1>8. misused' \in BOOLEAN /\ (misused => misused')
  BY <1>1 DEF NoteInv
<1>9. /\ list'[l] = r /\ next'[l] = x /\ next' = [m \in Loops |-> next'[m]]
      /\ \A m \in Loops \ {l} : next'[m] = next[m]
  <2> HIDE DEF x, r
  <2> QED BY <1>1 DEF NoteInv
<1>10. next[l] = n => /\ x # NULL => p + 1 \in 1..Len(s) /\ x = s[p + 1]
  <2> SUFFICES ASSUME next[l] = n, x # NULL PROVE p + 1 \in 1..Len(s) /\ x = s[p + 1]
    OBVIOUS
  <2>1. Len(<<n>>) = 1 /\ x = Following(l, n, <<n>>)
    OBVIOUS
  <2>2. ~(p + 1 > Len(s)) /\ x = s[p + 1]
    BY <2>1 DEF Following, p
  <2> QED BY <1>2, <1>3, <2>2
<1> HIDE DEF r, s, x
<1>11. \A i \in 1..Len(s) : i # p => \E j \in 1..Len(r) : r[j] = s[i]
  <2> SUFFICES ASSUME NEW i \in 1..Len(s), i # p PROVE \E j \in 1..Len(r) : r[j] = s[i]
    OBVIOUS
  <2>1. CASE i < p
    <3>1. i \in 1..(Len(s) - 1)
      BY <1>2, <1>3, <2>1
    <3> QED BY <1>4, <2>1, <3>1
  <2>2. CASE ~(i < p)
    <3>1. i - 1 \in 1..(Len(s) - 1) /\ ~(i - 1 < p) /\ (i - 1) + 1 = i
      BY <1>2, <1>3, <2>2
    <3>2. r[i - 1] = s[i]
      BY <1>4, <3>1
    <3> QED BY <1>4, <3>1, <3>2
  <2> QED BY <2>1, <2>2
<1>12. ~misused' => PointerInv(l)'
  <2> SUFFICES ASSUME ~misused', x # NULL
               PROVE  /\ \E j \in 1..Len(r) : r[j] = x
                      /\ l \notin moved => on_at[x] >= at[l]
    BY <1>1, <1>9 DEF PointerInv, Listed
  <2>1. next[l] # NULL => Listed(l, next[l]) /\ (l \notin moved => on_at[next[l]] >= at[l])
    BY <1>8 DEF NoteInv, PointerInv
  <2>2. CASE next[l] = n
    <3>1. p + 1 \in 1..Len(s) /\ x = s[p + 1]
      BY <1>10, <2>2
    <3>2. p + 1 # p /\ p < p + 1
      BY <1>3
    <3>3. \E j \in 1..Len(r) : r[j] = x
      BY <1>11, <3>1, <3>2
    <3>4. l \notin moved => on_at[n] =< on_at[x] /\ on_at[n] >= at[l]
      <4>1. n # NULL
        BY PlayerAssumption
      <4> QED BY <1>3, <1>7, <2>1, <2>2, <3>1, <3>2, <4>1
    <3>5. on_at[n] \in Nat /\ on_at[x] \in Nat /\ at[l] \in Nat
      BY <1>2, <3>1 DEF NoteInv
    <3> QED BY <3>3, <3>4, <3>5
  <2>3. CASE next[l] # n
    <3>1. x = next[l]
      BY <2>3 DEF x
    <3>2. PICK i \in 1..Len(s) : s[i] = x
      BY <2>1, <3>1 DEF Listed, s
    <3>3. i # p
      BY <1>3, <2>3, <3>1, <3>2
    <3> QED BY <1>11, <2>1, <3>1, <3>2, <3>3
  <2> QED BY <2>2, <2>3
<1>13. \A i \in 1..Len(r) : \E k \in 1..Len(s) : r[i] = s[k] /\ k = IF i < p THEN i ELSE i + 1
  <2> SUFFICES ASSUME NEW i \in 1..Len(r)
               PROVE  \E k \in 1..Len(s) : r[i] = s[k] /\ k = IF i < p THEN i ELSE i + 1
    OBVIOUS
  <2>1. i \in 1..(Len(s) - 1) /\ i \in 1..Len(s) /\ i + 1 \in 1..Len(s)
    BY <1>2, <1>4
  <2> QED BY <1>4, <2>1
<1>14. \A i \in 1..Len(r) : Listed(l, r[i])
  BY <1>6, <1>13
<1>15. ASSUME NEW i \in 1..Len(r), NEW j \in 1..Len(r), i < j
       PROVE  r[i] # r[j] /\ (l \notin moved => on_at[r[i]] =< on_at[r[j]])
  <2>1. PICK a \in 1..Len(s) : r[i] = s[a] /\ a = IF i < p THEN i ELSE i + 1
    BY <1>13
  <2>2. PICK b \in 1..Len(s) : r[j] = s[b] /\ b = IF j < p THEN j ELSE j + 1
    BY <1>13
  <2>3. a < b
    BY <1>3, <1>15, <2>1, <2>2
  <2> QED BY <1>5, <1>7, <2>1, <2>2, <2>3
<1>16. \A i, j \in 1..Len(r) : r[i] = r[j] => i = j
  <2> SUFFICES ASSUME NEW i \in 1..Len(r), NEW j \in 1..Len(r), r[i] = r[j] PROVE i = j
    OBVIOUS
  <2>1. ~(i < j) /\ ~(j < i)
    BY <1>15
  <2> QED BY <2>1
<1> QED BY <1>1, <1>4, <1>8, <1>9, <1>12, <1>14, <1>15, <1>16, ListReplaced

LEMMA NoteNext ==
  ASSUME StoreInv, NoteInv, [Next]_vars
  PROVE  NoteInv'
<1>1. CASE TransportOperation \/ UNCHANGED vars
  BY <1>1, SameNotes DEF TransportOperation, SetClock, ResetAndSetClock, vars, loop_vars, seen_vars
<1>2. CASE NoteOperation
  <2>1. Stored \subseteq Loops
    BY DEF Stored, Range, StoreInv
  <2> QED BY <1>2, <2>1, ClearNotes, InsertNotes, DeleteNotes, UpdateNotes DEF NoteOperation
<1>3. CASE \E id \in AddedIds : DeleteLoop(id)
  BY <1>3, SameNotes DEF DeleteLoop, DropLoop, loop_vars
<1>4. CASE \E p \in DOMAIN sequence, id \in NOT_SET..(Len(store) - 1) : SetLoopIdAt(p, id)
  BY <1>4, SameNotes DEF SetLoopIdAt, loop_vars, seen_vars
<1> QED BY <1>1, <1>2, <1>3, <1>4, FillNotes, AddNotes DEF Next, Edit, NoteOperation

(* The next note of the loop that plays is not behind its position, though *)
(* notes are inserted and deleted while it plays, unless internal_update_  *)
(* note has moved one or a note was deleted that a pointer was kept to.    *)
THEOREM NextIsAheadAlways == Spec => []NextIsAhead
<1>1. Init => StoreInv /\ NoteInv
  BY StoreInit, NoteInit
<1>2. StoreInv /\ NoteInv /\ [Next]_vars => (StoreInv /\ NoteInv)'
  BY StoreNext, NoteNext
<1>3. StoreInv /\ NoteInv => NextIsAhead
  BY DEF StoreInv, NoteInv, PointerInv, NextIsAhead
<1> QED BY <1>1, <1>2, <1>3, PTL DEF Spec


-----------------------------------------------------------------------------
(* The notes that sound                                                    *)

(* The notes in the slots are all from A.                                  *)
SlotsIn(s, A) ==
  s = [active |-> s.active, left |-> s.left] /\ s.active \in [1..MaxActive -> A]

LEMMA ActivateKeeps ==
  ASSUME NEW s, NEW A, SlotsIn(s, A), NEW n \in A
  PROVE  SlotsIn(Activate(s, n), A)
<1>1. PICK k : k = Place(s.active, LAMBDA m : m = NULL)
  OBVIOUS
<1>2. CASE k = 0
  BY <1>1, <1>2 DEF Activate
<1>3. CASE k # 0
  <2>1. PICK x, y : x = [s.active EXCEPT ![k] = n] /\ y = [s.left EXCEPT ![n] = Length[n] + 1]
    OBVIOUS
  <2>2. Activate(s, n) = [active |-> x, left |-> y]
    BY <1>1, <1>3, <2>1 DEF Activate
  <2>3. x \in [1..MaxActive -> A]
    BY <2>1 DEF SlotsIn
  <2> QED BY <2>2, <2>3 DEF SlotsIn
<1> QED BY <1>2, <1>3

LEMMA CountDownKeeps ==
  ASSUME NEW s, NEW A, SlotsIn(s, A), NEW k, NULL \in A
  PROVE  SlotsIn(CountDown(s, k), A)
<1>1. PICK n, j : n = s.active[k] /\ j = Place(s.active, LAMBDA m : m = n)
  OBVIOUS
<1>2. PICK a, b : a = s.active /\ b = s.left /\ s = [active |-> a, left |-> b] /\ a \in [1..MaxActive -> A]
  BY DEF SlotsIn
<1>3. CASE CountDown(s, k) = s
  BY <1>3
<1>4. CASE CountDown(s, k) = [s EXCEPT !.left[n] = @ - 1]
  <2>1. PICK y : y = [b EXCEPT ![n] = b[n] - 1]
    OBVIOUS
  <2>2. CountDown(s, k) = [active |-> a, left |-> y]
    BY <1>2, <1>4, <2>1
  <2> QED BY <1>2, <2>2 DEF SlotsIn
<1>5. CASE CountDown(s, k) = [s EXCEPT !.active[j] = NULL]
  <2>1. PICK x : x = [a EXCEPT ![j] = NULL]
    OBVIOUS
  <2>2. CountDown(s, k) = [active |-> x, left |-> b]
    BY <1>2, <1>5, <2>1
  <2>3. x \in [1..MaxActive -> A]
    BY <1>2, <2>1
  <2> QED BY <2>2, <2>3 DEF SlotsIn
<1> QED BY <1>1, <1>3, <1>4, <1>5 DEF CountDown

(* process_note_on activates notes of A only.                              *)
LEMMA ActivateAll ==
  ASSUME NEW A, NEW t \in Seq(A), NEW base, SlotsIn(base, A)
  PROVE  SlotsIn(FoldLeft(Activate, base, t), A)
<1>1. PICK r : IsRun(r, base, t) /\ r[Len(t)] = FoldLeft(Activate, base, t)
  BY FoldHasRun
<1>2. PICK n \in Nat : n = Len(t)
  OBVIOUS
<1>3. r[0] = base /\ \A k \in 1..n : r[k] = Activate(r[k - 1], t[k]) /\ t[k] \in A
  BY <1>1, <1>2 DEF IsRun
<1>4. SlotsIn(r[n], A)
  <2> DEFINE Bad == {k \in 0..n : ~SlotsIn(r[k], A)}
  <2>1. CASE Bad = {}
    BY <2>1
  <2>2. CASE Bad # {}
    <3>1. PICK k \in Bad : \A y \in Bad : k =< y
      <4>1. Bad \subseteq Nat
        OBVIOUS
      <4> QED BY <2>2, <4>1, MinIsMember
    <3>2. k \in 0..n /\ ~SlotsIn(r[k], A) /\ k # 0
      BY <1>3, <3>1
    <3>3. k - 1 \in 0..n /\ k - 1 \notin Bad /\ k \in 1..n
      BY <3>1, <3>2
    <3>4. SlotsIn(r[k - 1], A)
      BY <3>3
    <3>5. r[k] = Activate(r[k - 1], t[k]) /\ t[k] \in A
      BY <1>3, <3>3
    <3> QED BY <3>2, <3>4, <3>5, ActivateKeeps
  <2> QED BY <2>1, <2>2
<1> QED BY <1>1, <1>2, <1>4

(* process_note_off takes notes away.                                      *)
LEMMA CountDownAll ==
  ASSUME NEW A, NULL \in A, NEW S, NEW t \in Seq(S), NEW base, SlotsIn(base, A)
  PROVE  SlotsIn(FoldLeft(CountDown, base, t), A)
<1>0. Off!FoldLeft(CountDown, base, t) = FoldLeft(CountDown, base, t)
  BY DEF Off!FoldLeft, FoldLeft, Off!MapThenFoldSet, MapThenFoldSet, Off!Max, Max
<1>1. PICK r : Off!IsRun(r, base, t) /\ r[Len(t)] = FoldLeft(CountDown, base, t)
  BY <1>0, Off!FoldHasRun
<1>2. PICK n \in Nat : n = Len(t)
  OBVIOUS
<1>3. r[0] = base /\ \A k \in 1..n : r[k] = CountDown(r[k - 1], t[k])
  BY <1>1, <1>2 DEF Off!IsRun
<1>4. SlotsIn(r[n], A)
  <2> DEFINE Bad == {k \in 0..n : ~SlotsIn(r[k], A)}
  <2>1. CASE Bad = {}
    BY <2>1
  <2>2. CASE Bad # {}
    <3>1. PICK k \in Bad : \A y \in Bad : k =< y
      <4>1. Bad \subseteq Nat
        OBVIOUS
      <4> QED BY <2>2, <4>1, MinIsMember
    <3>2. k \in 0..n /\ ~SlotsIn(r[k], A) /\ k # 0
      BY <1>3, <3>1
    <3>3. k - 1 \in 0..n /\ k - 1 \notin Bad /\ k \in 1..n
      BY <3>1, <3>2
    <3>4. SlotsIn(r[k - 1], A)
      BY <3>3
    <3>5. r[k] = CountDown(r[k - 1], t[k])
      BY <1>3, <3>3
    <3> QED BY <3>2, <3>4, <3>5, CountDownKeeps
  <2> QED BY <2>1, <2>2
<1> QED BY <1>1, <1>2, <1>4


(* No pointer to a deleted note is kept. A note that sounds is of the loop *)
(* that plays it, or of none: deleting it elsewhere is not possible.       *)
KeptInv(l) ==
  /\ active[l] \in [1..MaxActive -> Notes \cup {NULL}]
  /\ \A n \in freed : ~Listed(l, n)
  /\ \A k \in 1..MaxActive : /\ active[l][k] \notin freed
                             /\ \A m \in Loops : Listed(m, active[l][k]) => l = m

LiveInv ==
  /\ active = [l \in Loops |-> active[l]]
  /\ freed \subseteq Notes
  /\ wild \in BOOLEAN /\ (wild => misused)
  /\ ~misused => \A l \in Loops : KeptInv(l)

LEMMA LiveInit == ASSUME Init PROVE LiveInv
<1>1. freed = {} /\ wild = FALSE /\ active = [l \in Loops |-> Silent]
  BY DEF Init
<1>2. Silent \in [1..MaxActive -> Notes \cup {NULL}] /\ \A k \in 1..MaxActive : Silent[k] = NULL
  BY DEF Silent
<1>3. active = [l \in Loops |-> active[l]]
  BY <1>1
<1>4. \A l, m \in Loops : ~Listed(m, NULL)
  BY NoteInit, ListedIsRange, PlayerAssumption DEF Listed
<1>5. \A l \in Loops : KeptInv(l)
  BY <1>1, <1>2, <1>4 DEF KeptInv
<1> QED BY <1>1, <1>3, <1>5 DEF LiveInv

LEMMA SameLive ==
  ASSUME LiveInv, UNCHANGED <<list, active, freed, wild, misused>>
  PROVE  LiveInv'
<1>1. \A l, n : Listed(l, n)' = Listed(l, n)
  BY DEF Listed
<1> QED BY <1>1 DEF LiveInv, KeptInv

(* The notes that process_note_on takes are in the list.                   *)
LEMMA StartingIsListed ==
  ASSUME NoteInv, NEW l \in Loops, NEW first, Listed(l, first), NEW time
  PROVE  Starting(l, first, time) \in Seq({n \in Notes : Listed(l, n)})
<1> DEFINE s == list[l]
           i == PlaceOf(l, first)
           run == {j \in i..Len(s) : \A k \in i..j : on_at[s[k]] = time}
           c == Cardinality(run)
           S == {n \in Notes : Listed(l, n)}
<1>1. i \in 1..Len(s) /\ Len(s) \in Nat /\ \A k \in 1..Len(s) : s[k] \in S
  BY PlaceIsThere, ListedIsRange DEF Listed
<1>2. first # NULL
  BY PlayerAssumption, ListedIsRange DEF Listed
<1>3. Starting(l, first, time) = SubSeq(s, i, i + c - 1)
  BY <1>2 DEF Starting
<1>4. IsFiniteSet(i..Len(s)) /\ Cardinality(i..Len(s)) = Len(s) - i + 1 /\ run \in SUBSET (i..Len(s))
  <2>1. i \in Int /\ Len(s) \in Int /\ i =< Len(s)
    BY <1>1
  <2> HIDE DEF i, s
  <2>2. IsFiniteSet(i..Len(s)) /\ Cardinality(i..Len(s)) = Len(s) - i + 1
    BY <2>1, FS_Interval
  <2> QED BY <2>2
<1> HIDE DEF s, run, i
<1>5. c \in Nat /\ c =< Len(s) - i + 1
  BY <1>4, FS_Subset, FS_CardinalityType
<1> HIDE DEF c, S
<1>6. PICK j : j = i + c - 1
  OBVIOUS
<1>7. i \in Int /\ j \in Int /\ \A k \in i..j : s[k] \in S
  <2>1. i \in Int /\ j \in Int /\ j =< Len(s) /\ i >= 1
    BY <1>1, <1>5, <1>6
  <2>2. \A k \in i..j : k \in 1..Len(s)
    BY <1>1, <2>1
  <2> QED BY <1>1, <2>1, <2>2
<1>8. SubSeq(s, i, j) \in Seq(S)
  BY <1>7, SubSeqProperties
<1> QED BY <1>3, <1>6, <1>8 DEF S


(* Where a tick begins in the list of loop l.                              *)
First(l) == IF Starts THEN IF list[l] = <<>> THEN NULL ELSE list[l][1] ELSE next[l]

LEMMA FirstIsListed ==
  ASSUME NoteInv, NEW l \in Loops, ~misused, First(l) # NULL
  PROVE  Listed(l, First(l))
<1>1. CASE ~Starts
  BY <1>1 DEF NoteInv, PointerInv, First
<1>2. CASE Starts
  <2>1. list[l] \in Seq(Notes) /\ list[l] # <<>>
    BY <1>2 DEF NoteInv, First
  <2>2. Len(list[l]) \in Nat \ {0}
    BY <2>1, EmptySeq
  <2>3. 1 \in 1..Len(list[l]) /\ First(l) = list[l][1]
    BY <1>2, <2>1, <2>2 DEF First
  <2> QED BY <2>3 DEF Listed
<1> QED BY <1>1, <1>2

(* A tick from slots that hold notes of the loop, or of none.              *)
TickSlots(l, time, a, b) ==
  FoldLeft(CountDown,
           IF clock.playing
           THEN FoldLeft(Activate, [active |-> a, left |-> b], Starting(l, First(l), time))
           ELSE [active |-> a, left |-> b],
           [k \in 1..MaxActive |-> k])

LEMMA TickKeeps ==
  ASSUME NEW A, NULL \in A, NEW l, NEW time, NEW a \in [1..MaxActive -> A], NEW b,
         Starting(l, First(l), time) \in Seq(A)
  PROVE  TickSlots(l, time, a, b).active \in [1..MaxActive -> A]
<1>1. PICK base : base = [active |-> a, left |-> b]
  OBVIOUS
<1>2. SlotsIn(base, A)
  BY <1>1 DEF SlotsIn
<1>3. PICK t : t = Starting(l, First(l), time)
  OBVIOUS
<1>4. SlotsIn(FoldLeft(Activate, base, t), A)
  BY <1>2, <1>3, ActivateAll
<1>5. PICK on : on = IF clock.playing THEN FoldLeft(Activate, base, t) ELSE base
  OBVIOUS
<1>6. SlotsIn(on, A)
  BY <1>2, <1>4, <1>5
<1>7. PICK ks : ks = [k \in 1..MaxActive |-> k]
  OBVIOUS
<1>8. ks \in Seq(Nat)
  <2>1. ks \in [1..MaxActive -> Nat] /\ MaxActive \in Nat
    BY <1>7, PlayerAssumption
  <2> QED BY <2>1, IntervalIsSeq
<1>9. SlotsIn(FoldLeft(CountDown, on, ks), A)
  BY <1>6, <1>8, CountDownAll
<1>10. TickSlots(l, time, a, b) = FoldLeft(CountDown, on, ks)
  BY <1>1, <1>3, <1>5, <1>7 DEF TickSlots
<1> QED BY <1>9, <1>10 DEF SlotsIn

(* One tick of the rendering.                                              *)
LEMMA FillLive ==
  ASSUME StoreInv, NoteInv, LiveInv, Fill
  PROVE  LiveInv'
<1>0. PICK l : l = Playing
  OBVIOUS
<1>1. PICK time, off : /\ time = (IF Starts THEN 0 ELSE at[l])
                       /\ off = TickSlots(l, time, active[l], left)
  OBVIOUS
<1>2. /\ UNCHANGED <<list, freed, misused>> /\ ~wild /\ current' = l
      /\ \/ UNCHANGED <<active, wild>>
         \/ /\ l # NULL /\ ({First(l)} \cup Range(active[l])) \cap freed # {}
            /\ wild' = TRUE /\ active' = active
         \/ /\ l # NULL /\ wild' = wild
            /\ active' = [active EXCEPT ![l] = off.active]
  BY <1>0, <1>1 DEF Fill, FillBuffers, loop_vars, seen_vars, First, TickSlots
<1>3. l # NULL => l \in Loops
  BY <1>2, FillStore DEF StoreInv
<1>4. CASE UNCHANGED <<active, wild>>
  BY <1>2, <1>4, SameLive
<1>5. CASE l # NULL /\ ({First(l)} \cup Range(active[l])) \cap freed # {} /\ wild' = TRUE /\ active' = active
  <2>1. ASSUME ~misused PROVE FALSE
    <3>1. KeptInv(l) /\ l \in Loops
      BY <1>3, <1>5, <2>1 DEF LiveInv
    <3>2. First(l) \notin freed
      <4>1. NULL \notin freed
        BY PlayerAssumption DEF LiveInv
      <4>2. First(l) # NULL => Listed(l, First(l))
        BY <2>1, <3>1, FirstIsListed
      <4> QED BY <3>1, <4>1, <4>2 DEF KeptInv
    <3>3. Range(active[l]) \cap freed = {}
      BY <3>1 DEF KeptInv, Range
    <3> QED BY <1>5, <3>2, <3>3
  <2>2. misused = TRUE
    BY <2>1 DEF NoteInv
  <2> QED BY <1>2, <1>5, <2>2 DEF LiveInv
<1>6. CASE l # NULL /\ wild' = wild /\ active' = [active EXCEPT ![l] = off.active]
  <2>1. /\ active' = [m \in Loops |-> active'[m]] /\ active'[l] = off.active
        /\ \A m \in Loops \ {l} : active'[m] = active[m]
    BY <1>3, <1>6 DEF LiveInv
  <2>2. \A m, n : Listed(m, n)' = Listed(m, n)
    BY <1>2 DEF Listed
  <2>3. ASSUME ~misused PROVE KeptInv(l)'
    <3>1. KeptInv(l) /\ l \in Loops
      BY <1>3, <1>6, <2>3 DEF LiveInv
    <3>2. PICK A : A = {active[l][k] : k \in 1..MaxActive} \cup {NULL} \cup {n \in Notes : Listed(l, n)}
      OBVIOUS
    <3>3. NULL \in A /\ active[l] \in [1..MaxActive -> A] /\ A \subseteq Notes \cup {NULL}
      BY <3>1, <3>2 DEF KeptInv
    <3>4. Starting(l, First(l), time) \in Seq(A)
      <4>1. CASE First(l) = NULL
        <5>1. Starting(l, First(l), time) = <<>>
          BY <4>1 DEF Starting
        <5> QED BY <5>1
      <4>2. CASE First(l) # NULL
        <5>1. Listed(l, First(l))
          BY <2>3, <3>1, <4>2, FirstIsListed
        <5>2. PICK S : S = {n \in Notes : Listed(l, n)}
          OBVIOUS
        <5>3. Starting(l, First(l), time) \in Seq(S)
          BY <3>1, <5>1, <5>2, StartingIsListed
        <5>4. S \subseteq A
          BY <3>2, <5>2
        <5> QED BY <5>3, <5>4
      <4> QED BY <4>1, <4>2
    <3>5. off.active \in [1..MaxActive -> A]
      BY <1>1, <3>3, <3>4, TickKeeps
    <3>6. NULL \notin freed /\ \A m \in Loops : ~Listed(m, NULL)
      BY PlayerAssumption, ListedIsRange DEF LiveInv, Listed
    <3>7. \A m \in Loops : \A n : Listed(l, n) /\ Listed(m, n) => l = m
      BY <3>1 DEF NoteInv, Distinct, Listed
    <3>8. \A n \in A : n \notin freed /\ \A m \in Loops : Listed(m, n) => l = m
      BY <3>1, <3>2, <3>6, <3>7 DEF KeptInv
    <3>9. \A k \in 1..MaxActive : active'[l][k] \in A
      BY <2>1, <3>5
    <3>10. active'[l] \in [1..MaxActive -> Notes \cup {NULL}]
      BY <2>1, <3>3, <3>5
    <3> QED BY <1>2, <2>2, <3>1, <3>8, <3>9, <3>10 DEF KeptInv
  <2>4. ASSUME ~misused, NEW m \in Loops \ {l} PROVE KeptInv(m)'
    BY <1>2, <2>1, <2>2, <2>4 DEF LiveInv, KeptInv
  <2> QED BY <1>2, <1>6, <2>1, <2>3, <2>4 DEF LiveInv
<1> QED BY <1>2, <1>4, <1>5, <1>6


(* An operation that may free notes and take them from the lists: what is  *)
(* still listed was listed and is not freed.                               *)
LEMMA FewerNotes ==
  ASSUME NoteInv, LiveInv, NEW l \in Loops, NEW gone \in SUBSET Notes,
         \A n \in gone : Listed(l, n),
         freed' = freed \cup gone, wild' = wild, active' = active,
         misused' = (misused \/ misused'),
         ~misused' => \A k \in 1..MaxActive : active[l][k] \notin gone,
         \A m \in Loops : \A n : Listed(m, n)' => Listed(m, n) /\ n \notin gone
  PROVE  LiveInv'
<1>1. misused => misused'
  BY DEF NoteInv
<1>2. ASSUME ~misused', NEW m \in Loops PROVE KeptInv(m)'
  <2>1. KeptInv(m)
    BY <1>1, <1>2 DEF LiveInv
  <2>2. \A n \in freed' : ~Listed(m, n)'
    BY <2>1 DEF KeptInv
  <2>3. ASSUME NEW k \in 1..MaxActive PROVE active[m][k] \notin gone
    BY <1>2, <2>1 DEF KeptInv
  <2> QED BY <2>1, <2>2, <2>3 DEF KeptInv
<1>3. wild' => misused'
  BY <1>1 DEF LiveInv
<1> QED BY <1>2, <1>3 DEF LiveInv

LEMMA ClearLive ==
  ASSUME NoteInv, LiveInv, NEW l \in Loops, ClearLoop(l)
  PROVE  LiveInv'
<1>1. PICK gone : gone = Range(list[l])
  OBVIOUS
<1>2. /\ list' = [list EXCEPT ![l] = <<>>] /\ freed' = freed \cup gone
      /\ misused' = (misused \/ ({next[l]} \cup Range(active[l])) \cap gone # {})
      /\ wild' = wild /\ active' = active
  BY <1>1 DEF ClearLoop
<1>3. gone \in SUBSET Notes /\ \A n : n \in gone <=> Listed(l, n)
  <2>1. \A n : n \in gone <=> Listed(l, n)
    BY <1>1, ListedIsRange
  <2>2. \A n : Listed(l, n) => n \in Notes
    BY ListedIsRange DEF Listed
  <2> QED BY <2>1, <2>2
<1>4. /\ Len(list'[l]) = 0 /\ \A m \in Loops \ {l} : list'[m] = list[m]
  BY <1>2 DEF NoteInv
<1>5. ASSUME NEW m \in Loops, NEW n, Listed(m, n)' PROVE Listed(m, n) /\ n \notin gone
  <2>1. m # l
    BY <1>4, <1>5 DEF Listed
  <2>2. Listed(m, n)
    BY <1>4, <1>5, <2>1 DEF Listed
  <2> QED BY <1>3, <2>1, <2>2 DEF NoteInv, Distinct, Listed
<1>6. ASSUME ~misused', NEW k \in 1..MaxActive PROVE active[l][k] \notin gone
  <2>1. KeptInv(l)
    BY <1>2, <1>6 DEF LiveInv
  <2>2. active[l][k] \in Range(active[l])
    BY <2>1 DEF KeptInv, Range
  <2> QED BY <1>2, <1>6, <2>2
<1>7. misused' = (misused \/ misused')
  BY <1>2 DEF NoteInv
<1> QED BY <1>2, <1>3, <1>5, <1>6, <1>7, FewerNotes

LEMMA DeleteLive ==
  ASSUME NoteInv, LiveInv, NEW l \in Loops, NEW n \in Notes, DeleteNote(l, n)
  PROVE  LiveInv'
<1>1. PICK s, p : s = list[l] /\ p = PlaceOf(l, n)
  OBVIOUS
<1>2. PICK r : r = RemoveAt(s, p)
  OBVIOUS
<1>3. /\ Listed(l, n) /\ list' = [list EXCEPT ![l] = r] /\ freed' = freed \cup {n}
      /\ misused' = (misused \/ n \in Range(active[l]))
      /\ wild' = wild /\ active' = active
  BY <1>1, <1>2, ListedIsRange DEF DeleteNote
<1>4. s \in Seq(Notes) /\ p \in 1..Len(s) /\ s[p] = n /\ Len(s) \in Nat
  BY <1>1, <1>3, PlaceIsThere DEF NoteInv
<1>5. /\ Len(r) = Len(s) - 1
      /\ \A i \in 1..(Len(s) - 1) : r[i] = IF i < p THEN s[i] ELSE s[i + 1]
  BY <1>2, <1>4, RemoveView
<1>6. list'[l] = r /\ \A m \in Loops \ {l} : list'[m] = list[m]
  BY <1>3 DEF NoteInv
<1>7. ASSUME NEW i \in 1..Len(r) PROVE Listed(l, r[i]) /\ r[i] # n
  <2>1. PICK j \in 1..Len(s) : r[i] = s[j] /\ j # p
    <3>1. i \in 1..(Len(s) - 1) /\ i \in 1..Len(s) /\ i + 1 \in 1..Len(s)
      BY <1>4, <1>5
    <3>2. CASE i < p
      BY <1>4, <1>5, <3>1, <3>2
    <3>3. CASE ~(i < p)
      <4>1. r[i] = s[i + 1] /\ i + 1 # p
        BY <1>4, <1>5, <3>1, <3>3
      <4> QED BY <3>1, <4>1
    <3> QED BY <3>2, <3>3
  <2>2. s[j] # s[p]
    BY <1>1, <1>4, <2>1 DEF NoteInv, Distinct
  <2> QED BY <1>1, <1>4, <2>1, <2>2 DEF Listed
<1>8. ASSUME NEW m \in Loops, NEW x, Listed(m, x)' PROVE Listed(m, x) /\ x \notin {n}
  <2>1. CASE m = l
    BY <1>6, <1>7, <1>8, <2>1 DEF Listed
  <2>2. CASE m # l
    <3>1. Listed(m, x)
      BY <1>6, <1>8, <2>2 DEF Listed
    <3> QED BY <1>3, <2>2, <3>1 DEF NoteInv, Distinct, Listed
  <2> QED BY <2>1, <2>2
<1>9. ASSUME ~misused', NEW k \in 1..MaxActive PROVE active[l][k] \notin {n}
  <2>1. KeptInv(l)
    BY <1>3, <1>9 DEF LiveInv
  <2>2. active[l][k] \in Range(active[l])
    BY <2>1 DEF KeptInv, Range
  <2> QED BY <1>3, <1>9, <2>2
<1>10. misused' = (misused \/ misused')
  BY <1>3 DEF NoteInv
<1>11. {n} \in SUBSET Notes /\ \A x \in {n} : Listed(l, x)
  BY <1>3
<1> QED BY <1>3, <1>8, <1>9, <1>10, <1>11, FewerNotes


LEMMA InsertLive ==
  ASSUME NoteInv, LiveInv, NEW l \in Loops, NEW n \in Notes, InsertNote(l, n)
  PROVE  LiveInv'
<1>1. PICK s : s = list[l]
  OBVIOUS
<1>2. PICK k : k = SelectInSeq(s, LAMBDA m : on_at[m] > on_at[n])
  OBVIOUS
<1>3. PICK place : place = IF k = 0 THEN Len(s) + 1 ELSE k
  OBVIOUS
<1>4. PICK r : r = InsertAt(s, place, n)
  OBVIOUS
<1>5. /\ n \notin freed /\ \A m \in Loops : n \notin Range(list[m]) /\ n \notin Range(active[m])
      /\ list' = [list EXCEPT ![l] = r]
      /\ UNCHANGED <<active, freed, wild, misused>>
  BY <1>1, <1>2, <1>3, <1>4 DEF InsertNote, PutNote, seen_vars
<1>6. s \in Seq(Notes) /\ Len(s) \in Nat
  BY <1>1 DEF NoteInv
<1>7. place \in 1..(Len(s) + 1)
  <2>1. PICK I : I = {i \in 1..Len(s) : on_at[s[i]] > on_at[n]}
    OBVIOUS
  <2>2. k = IF I # {} THEN Min(I) ELSE 0
    BY <1>2, <2>1 DEF SelectInSeq
  <2>3. I \subseteq Nat /\ I \subseteq 1..Len(s)
    BY <1>6, <2>1
  <2>4. I # {} => Min(I) \in I
    BY <2>3, MinIsMember
  <2> QED BY <1>3, <1>6, <2>2, <2>3, <2>4
<1>8. /\ Len(r) = Len(s) + 1
      /\ \A i \in 1..(Len(s) + 1) :
           r[i] = IF i < place THEN s[i] ELSE IF i = place THEN n ELSE s[i - 1]
  BY <1>4, <1>6, <1>7, InsertView
<1>9. list'[l] = r /\ \A m \in Loops \ {l} : list'[m] = list[m]
  BY <1>5 DEF NoteInv
<1>10. ASSUME NEW i \in 1..Len(r) PROVE r[i] = n \/ Listed(l, r[i])
  <2>1. i \in 1..(Len(s) + 1)
    BY <1>8
  <2>2. CASE i < place
    <3>1. i \in 1..Len(s) /\ r[i] = s[i]
      BY <1>6, <1>7, <1>8, <2>1, <2>2
    <3> QED BY <1>1, <3>1 DEF Listed
  <2>3. CASE i = place
    <3>1. ~(i < place)
      BY <1>7, <2>3
    <3> QED BY <1>8, <2>1, <2>3, <3>1
  <2>4. CASE ~(i < place) /\ i # place
    <3>1. i - 1 \in 1..Len(s) /\ r[i] = s[i - 1]
      BY <1>6, <1>7, <1>8, <2>1, <2>4
    <3> QED BY <1>1, <3>1 DEF Listed
  <2> QED BY <2>2, <2>3, <2>4
<1>11. \A m \in Loops : \A x : Listed(m, x)' => x = n \/ Listed(m, x)
  <2> SUFFICES ASSUME NEW m \in Loops, NEW x, Listed(m, x)' PROVE x = n \/ Listed(m, x)
    OBVIOUS
  <2>1. CASE m = l
    BY <1>9, <1>10, <2>1 DEF Listed
  <2>2. CASE m # l
    BY <1>9, <2>2 DEF Listed
  <2> QED BY <2>1, <2>2
<1>12. ASSUME ~misused', NEW m \in Loops PROVE KeptInv(m)'
  <2>1. KeptInv(m) /\ freed' = freed /\ active' = active
    BY <1>5, <1>12 DEF LiveInv
  <2>2. \A j \in 1..MaxActive : active[m][j] # n
    BY <1>5, <2>1 DEF KeptInv, Range
  <2>3. \A x \in freed' : ~Listed(m, x)'
    BY <1>5, <1>11, <2>1 DEF KeptInv
  <2>4. ASSUME NEW j \in 1..MaxActive, NEW o \in Loops, Listed(o, active[m][j])' PROVE m = o
    BY <1>11, <2>1, <2>2, <2>4 DEF KeptInv
  <2> QED BY <2>1, <2>3, <2>4 DEF KeptInv
<1> QED BY <1>5, <1>12 DEF LiveInv

(* A new loop has no notes and is silent.                                  *)
LEMMA AddLive ==
  ASSUME NoteInv, LiveInv, AddNewLoop
  PROVE  LiveInv'
<1>1. PICK l \in Loops : /\ list' = [list EXCEPT ![l] = <<>>]
                         /\ active' = [active EXCEPT ![l] = Silent]
                         /\ UNCHANGED <<freed, wild, misused>>
  BY DEF AddNewLoop, PutLoop, Unused
<1>2. Len(list'[l]) = 0 /\ \A m \in Loops \ {l} : list'[m] = list[m]
  BY <1>1 DEF NoteInv
<1>3. /\ active' = [m \in Loops |-> active'[m]] /\ active'[l] = Silent
      /\ \A m \in Loops \ {l} : active'[m] = active[m]
  BY <1>1 DEF LiveInv
<1>4. \A m \in Loops : \A n : Listed(m, n)' => m # l /\ Listed(m, n)
  BY <1>2 DEF Listed
<1>5. Silent \in [1..MaxActive -> Notes \cup {NULL}] /\ \A k \in 1..MaxActive : Silent[k] = NULL
  BY DEF Silent
<1>6. NULL \notin freed /\ \A m \in Loops : ~Listed(m, NULL)
  BY PlayerAssumption, ListedIsRange DEF LiveInv, Listed
<1>7. KeptInv(l)'
  BY <1>1, <1>3, <1>4, <1>5, <1>6 DEF KeptInv
<1>8. ASSUME ~misused, NEW m \in Loops \ {l} PROVE KeptInv(m)'
  BY <1>1, <1>3, <1>4, <1>8 DEF LiveInv, KeptInv
<1> QED BY <1>1, <1>3, <1>7, <1>8 DEF LiveInv

LEMMA LiveNext ==
  ASSUME StoreInv, NoteInv, LiveInv, [Next]_vars
  PROVE  LiveInv'
<1>1. CASE TransportOperation \/ UNCHANGED vars
  BY <1>1, SameLive DEF TransportOperation, SetClock, ResetAndSetClock, vars, loop_vars, seen_vars
<1>2. CASE NoteOperation
  <2>1. Stored \subseteq Loops
    BY DEF Stored, Range, StoreInv
  <2>2. ASSUME NEW l \in Loops, NEW n \in Notes, NEW time \in Times, UpdateNote(l, n, time)
        PROVE  LiveInv'
    BY <2>2, SameLive DEF UpdateNote
  <2> QED BY <1>2, <2>1, <2>2, ClearLive, InsertLive, DeleteLive DEF NoteOperation
<1>3. CASE \E id \in AddedIds : DeleteLoop(id)
  BY <1>3, SameLive DEF DeleteLoop, DropLoop, loop_vars
<1>4. CASE \E p \in DOMAIN sequence, id \in NOT_SET..(Len(store) - 1) : SetLoopIdAt(p, id)
  BY <1>4, SameLive DEF SetLoopIdAt, loop_vars, seen_vars
<1> QED BY <1>1, <1>2, <1>3, <1>4, FillLive, AddLive DEF Next, Edit, NoteOperation

(* Loop::process uses no deleted note, in whatever order notes are added,  *)
(* moved and deleted and loops are played, unless note_delete or           *)
(* clear_loop deleted one that active_note or, in clear_loop,              *)
(* next_note_to_play pointed to at that moment. There is no other way.     *)
THEOREM ReadsLiveNotesAlways == Spec => []ReadsLiveNotes
<1>1. Init => StoreInv /\ NoteInv /\ LiveInv
  BY StoreInit, NoteInit, LiveInit
<1>2. StoreInv /\ NoteInv /\ LiveInv /\ [Next]_vars => (StoreInv /\ NoteInv /\ LiveInv)'
  BY StoreNext, NoteNext, LiveNext
<1>3. LiveInv => ReadsLiveNotes
  BY DEF LiveInv, ReadsLiveNotes
<1> QED BY <1>1, <1>2, <1>3, PTL DEF Spec
=============================================================================
