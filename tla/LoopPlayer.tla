----------------------------- MODULE LoopPlayer -----------------------------
(***************************************************************************)
(* A MachineSequencer and the transport (machine_sequencer.cc).            *)
(*                                                                         *)
(* The sequencer has a store of loops and a sequence that says which loop  *)
(* starts at which line. A loop is a list of notes, sorted by the time     *)
(* they start; it plays with a pointer to the next note and an array of    *)
(* pointers to the notes that sound. Loops are never deleted, notes are.   *)
(*                                                                         *)
(* Edits are machine operations, Fill is one tick of the rendering: an     *)
(* operation never comes between the steps of a tick (MachineOps).         *)
(***************************************************************************)
EXTENDS Transport, FiniteSets, Functions

CONSTANTS
  NULL,
  Loops,           \* Loop objects
  Notes,           \* NoteEntry objects
  OnAt, Length,    \* where in the loop a new note starts, and its length
  Times,           \* the times a note may be moved to
  MaxActive,       \* MAX_ACTIVE_NOTES: 16
  StoreSize,       \* loop_store_size to begin with: 16
  MaxLoops,        \* loops one sequencer may have: 100
  SequenceLength,  \* loop_sequence_length
  Lines, Lengths,  \* the lines and lengths operations name
  FirstLoop,       \* the loop the constructor makes
  Loaded,          \* its notes in a project that is loaded
  MaxOps           \* bound on the operations

ASSUME PlayerAssumption ==
  /\ IsFiniteSet(Loops) /\ IsFiniteSet(Notes) /\ FirstLoop \in Loops
  /\ NULL \notin Loops \cup Notes
  /\ Loaded \in Seq(Notes) /\ IsInjective(Loaded)
  /\ \A i, j \in DOMAIN Loaded : i < j => OnAt[Loaded[i]] <= OnAt[Loaded[j]]
  /\ OnAt \in [Notes -> Nat] /\ Length \in [Notes -> Nat]
  /\ Times \subseteq Nat /\ MaxActive \in Nat \ {0} /\ StoreSize \in Nat \ {0}
  /\ {MaxLoops, SequenceLength, MaxOps} \subseteq Nat
  /\ Lines \subseteq 0..End /\ Lengths \subseteq Nat
  /\ SequenceLength <= End

NOT_SET == -1

VARIABLES
  clock,
  store,       \* loop_store: a sequence, store[k + 1] the loop with id k
  last_free,   \* last_free_loop_store_position
  sequence,    \* loop_sequence
  current,     \* current_loop
  list,        \* list[l]: the notes of loop l, in order
  at,          \* loop_position
  next,        \* next_note_to_play
  active,      \* active_note
  on_at,
  left,        \* ticks2off
  freed,       \* notes that were deleted
  ops,         \* operations so far
  misused,     \* a note was deleted while a pointer to it was kept
  wild,        \* a deleted note was used: what happens now is undefined
  moved        \* loops with a note whose time was changed

loop_vars == <<list, at, next, active, on_at, left, freed>>
store_vars == <<store, last_free, sequence>>
seen_vars == <<misused, moved>>
vars == <<clock, store_vars, current, loop_vars, ops, wild, seen_vars>>

Silent == [k \in 1..MaxActive |-> NULL]

(* The constructor, or a project that was loaded.                          *)
Init ==
  /\ clock = ClockInit(End)
  /\ store = [k \in 1..StoreSize |-> IF k = 1 THEN FirstLoop ELSE NULL]
  /\ last_free = 1
  /\ \E id \in {NOT_SET, 0} :
       sequence = [p \in 0..(SequenceLength - 1) |-> IF p = 0 THEN id ELSE NOT_SET]
  /\ current = NULL
  /\ list \in {[l \in Loops |-> IF l = FirstLoop THEN s ELSE <<>>] : s \in {<<>>, Loaded}}
  /\ at = [l \in Loops |-> 0]
  /\ next = [l \in Loops |-> NULL]
  /\ active = [l \in Loops |-> Silent]
  /\ on_at = OnAt /\ left = [n \in Notes |-> 0]
  /\ freed = {} /\ ops = 0
  /\ misused = FALSE /\ wild = FALSE /\ moved = {}

-----------------------------------------------------------------------------
(* Loop::process, one tick of a loop.                                      *)

(* Behind every note one time is like another.                             *)
Late == Max(Times \cup Range(OnAt)) + 1

(* Where in the list of loop l note n is.                                  *)
PlaceOf(l, n) == CHOOSE i \in DOMAIN list[l] : list[l][i] = n

(* The notes process_note_on takes from the list: from the next one on, as *)
(* long as they start at this time.                                        *)
Starting(l, first, time) ==
  LET i == PlaceOf(l, first)
      run == {j \in i..Len(list[l]) : \A k \in i..j : on_at[list[l][k]] = time}
  IN IF first = NULL THEN <<>> ELSE SubSeq(list[l], i, i + Cardinality(run) - 1)

(* The note after these, NULL behind the last one.                         *)
Following(l, first, taken) ==
  LET i == PlaceOf(l, first)
  IN IF first = NULL \/ i + Len(taken) > Len(list[l]) THEN NULL ELSE list[l][i + Len(taken)]

(* The first place where P holds, or 0.                                    *)
Place(slots, P(_)) == SelectInSeq(slots, P)

(* activate_note, and ticks2off if there was room.                         *)
Activate(s, n) ==
  LET k == Place(s.active, LAMBDA m : m = NULL)
  IN IF k = 0 THEN s ELSE [active |-> [s.active EXCEPT ![k] = n],
                           left   |-> [s.left EXCEPT ![n] = Length[n] + 1]]

(* A fault to detect: a note that has no tick left goes on.                *)
CountDownOnly(s, k) ==
  LET n == s.active[k]
  IN IF n = NULL \/ s.left[n] = 0 THEN s ELSE [s EXCEPT !.left[n] = @ - 1]

(* process_note_off for place k; deactivate_note clears the first place    *)
(* that has the note.                                                      *)
CountDown(s, k) ==
  LET n == s.active[k]
  IN IF n = NULL THEN s
     ELSE IF s.left[n] > 0 THEN [s EXCEPT !.left[n] = @ - 1]
     ELSE [s EXCEPT !.active[Place(s.active, LAMBDA m : m = n)] = NULL]

(* A fault to detect: the line behind the loop is played.                  *)
SequencerAdvanceLate(c) ==
  LET tick == (c.tick + 1) % TicksPerLine
      line == IF tick = 0 THEN c.position + 1 ELSE c.position
  IN [c EXCEPT !.tick = tick,
               !.position = IF tick = 0 /\ c.do_loop /\ line > c.stop THEN c.start
                            ELSE IF line > End THEN End ELSE line]

(* fill_buffers counts ticks and lines on its own, from a copy of the      *)
(* transport's state.                                                      *)
SequencerAdvance(c) ==
  LET tick == (c.tick + 1) % TicksPerLine
      loop_stop == (c.stop - c.start) + c.start
      line == IF tick = 0 THEN c.position + 1 ELSE c.position
  IN [c EXCEPT !.tick = tick,
               !.position = IF tick = 0 /\ c.do_loop /\ line >= loop_stop THEN c.start
                            ELSE IF line > End THEN End ELSE line]

(* start_to_play is called where the sequence has a loop.                  *)
Starts == clock.tick = 0 /\ clock.position < SequenceLength /\ sequence[clock.position] # NOT_SET

Playing == IF Starts THEN store[sequence[clock.position] + 1] ELSE current

(* One tick of fill_buffers, and the transport's state after it. Notes     *)
(* that start while the engine does not play are passed over.              *)
FillBuffers(next_clock) ==
  LET l == Playing
      first == IF Starts THEN IF list[l] = <<>> THEN NULL ELSE list[l][1] ELSE next[l]
      time == IF Starts THEN 0 ELSE at[l]
      taken == Starting(l, first, time)
      on == IF clock.playing THEN FoldLeft(Activate, [active |-> active[l], left |-> left], taken)
            ELSE [active |-> active[l], left |-> left]
      off == FoldLeft(CountDown, on, [k \in 1..MaxActive |-> k])
  IN /\ ~wild
     /\ clock' = next_clock
     /\ current' = l
     /\ \/ l = NULL /\ UNCHANGED <<loop_vars, wild>>
        \/ /\ l # NULL
           /\ ({first} \cup Range(active[l])) \cap freed # {}
           /\ wild' = TRUE
           /\ UNCHANGED loop_vars
        \/ /\ l # NULL
           /\ ({first} \cup Range(active[l])) \cap freed = {}
           /\ at' = [at EXCEPT ![l] = IF time = Late THEN Late ELSE time + 1]
           /\ next' = [next EXCEPT ![l] = Following(l, first, taken)]
           /\ active' = [active EXCEPT ![l] = off.active]
           /\ left' = off.left
           /\ UNCHANGED <<list, on_at, freed, wild>>
     /\ UNCHANGED <<store_vars, ops, seen_vars>>

(* A fault to detect: the transport waits until the engine plays.          *)
FillWhilePlaying == FillBuffers(IF clock.playing THEN Advance(clock) ELSE clock)

(* One tick of a rendering: the sequencer, then the transport.             *)
Fill == FillBuffers(Advance(clock))

-----------------------------------------------------------------------------
(* Operations.                                                             *)

Operation == ~wild /\ ops < MaxOps /\ ops' = ops + 1

(* The transport; some of its operations reset all machines.               *)
SetClock(c) ==
  /\ Operation
  /\ clock' = c
  /\ UNCHANGED <<store_vars, current, loop_vars, wild, seen_vars>>

ResetAndSetClock(c) ==
  /\ Operation
  /\ clock' = c
  /\ current' = NULL
  /\ UNCHANGED <<store_vars, loop_vars, wild, seen_vars>>

TransportOperation ==
  \/ ResetAndSetClock(PlayClock(clock))
  \/ ResetAndSetClock(StopClock(clock))
  \/ ResetAndSetClock(Rewind(clock))
  \/ \E line \in Lines : ResetAndSetClock(JumpTo(clock, line)) \/ SetClock(SetLoopStart(clock, line))
  \/ \E b \in BOOLEAN : SetClock(SetLoopState(clock, b))
  \/ \E len \in Lengths : len >= MinLength /\ SetClock(SetLoopLength(clock, len))

(* A new Loop takes this place of a store.                                 *)
PutLoop(l, place, into) ==
  /\ Operation
  /\ last_free # MaxLoops
  /\ store' = [into EXCEPT ![place] = l]
  /\ last_free' = place
  /\ list' = [list EXCEPT ![l] = <<>>]
  /\ next' = [next EXCEPT ![l] = NULL]
  /\ active' = [active EXCEPT ![l] = Silent]
  /\ moved' = moved \ {l}
  /\ UNCHANGED <<clock, sequence, current, at, on_at, left, freed, wild, misused>>

FirstFree == SelectInSeq(store, LAMBDA l : l = NULL)

(* An object that is not in use stands for the new one.                    *)
Unused == Loops \ (Range(store) \cup {current})

(* internal_add_new_loop: the first free place, or the first one of the    *)
(* doubled store.                                                          *)
AddNewLoop ==
  /\ Unused # {}
  /\ IF FirstFree # 0 THEN PutLoop(CHOOSE l \in Unused : TRUE, FirstFree, store)
     ELSE PutLoop(CHOOSE l \in Unused : TRUE, Len(store) + 1,
                  store \o [k \in DOMAIN store |-> NULL])

(* The loops behind it move down, the last place keeps what it has. The    *)
(* loop goes on playing if it is the current one.                          *)
DropLoop(id, entry(_)) ==
  /\ Operation
  /\ sequence' = [p \in DOMAIN sequence |-> entry(sequence[p])]
  /\ store' = [k \in DOMAIN store |-> IF k - 1 < id \/ k = Len(store) THEN store[k] ELSE store[k + 1]]
  /\ last_free' = last_free - 1
  /\ UNCHANGED <<clock, current, loop_vars, wild, misused, moved>>

(* A fault to detect: the ids behind it are changed first, and the one     *)
(* behind it is taken for it.                                              *)
DeleteLoopSwapped(id) ==
  DropLoop(id, LAMBDA k : IF k \in {id, id + 1} THEN NOT_SET ELSE IF k > id THEN k - 1 ELSE k)

(* delete_loop. It takes any id, and nothing calls it yet; it is modelled  *)
(* for the ids of loops that were added and are still there.               *)
DeleteLoop(id) ==
  DropLoop(id, LAMBDA k : IF k = id THEN NOT_SET ELSE IF k > id THEN k - 1 ELSE k)

AddedIds == {id \in 0..(Len(store) - 1) : id < last_free}

Ids == {k - 1 : k \in {k \in DOMAIN store : store[k] # NULL}}

(* A fault to detect: any id within the store is taken.                    *)
SetLoopIdAtUnchecked(p, id) ==
  /\ Operation
  /\ sequence' = [sequence EXCEPT ![p] = id]
  /\ UNCHANGED <<clock, store, last_free, current, loop_vars, wild, seen_vars>>

(* internal_set_loop_id_at refuses an id without a loop.                   *)
SetLoopIdAt(p, id) ==
  /\ Operation
  /\ id \in Ids \cup {NOT_SET}
  /\ sequence' = [sequence EXCEPT ![p] = id]
  /\ UNCHANGED <<clock, store, last_free, current, loop_vars, wild, seen_vars>>

Stored == Range(store) \ {NULL}

PutNote(l, n, place) ==
  /\ Operation
  /\ n \notin freed /\ \A m \in Loops : n \notin Range(list[m]) \cup Range(active[m])
  /\ list' = [list EXCEPT ![l] = InsertAt(@, place, n)]
  /\ UNCHANGED <<clock, store_vars, current, at, next, active, on_at, left, freed, wild, seen_vars>>

(* A fault to detect: the note goes to the end of the list.                *)
AppendNote(l, n) == PutNote(l, n, Len(list[l]) + 1)

(* internal_insert_note: before the first note that starts later.          *)
InsertNote(l, n) ==
  LET k == SelectInSeq(list[l], LAMBDA m : on_at[m] > on_at[n])
  IN PutNote(l, n, IF k = 0 THEN Len(list[l]) + 1 ELSE k)

(* A fault to detect: the pointer to the next note stays.                  *)
DeleteNoteOnly(l, n) ==
  /\ Operation
  /\ n \in Range(list[l])
  /\ list' = [list EXCEPT ![l] = RemoveAt(@, PlaceOf(l, n))]
  /\ freed' = freed \cup {n}
  /\ misused' = (misused \/ n \in Range(active[l]))
  /\ UNCHANGED <<clock, store_vars, current, at, next, active, on_at, left, wild, moved>>

(* note_delete: the pointer to the next note moves on, the note stays in   *)
(* active_note.                                                            *)
DeleteNote(l, n) ==
  /\ Operation
  /\ n \in Range(list[l])
  /\ list' = [list EXCEPT ![l] = RemoveAt(@, PlaceOf(l, n))]
  /\ next' = [next EXCEPT ![l] = IF @ = n THEN Following(l, n, <<n>>) ELSE @]
  /\ freed' = freed \cup {n}
  /\ misused' = (misused \/ n \in Range(active[l]))
  /\ UNCHANGED <<clock, store_vars, current, at, active, on_at, left, wild, moved>>

(* internal_update_note: the note stays where it is in the list.           *)
UpdateNote(l, n, time) ==
  /\ Operation
  /\ n \in Range(list[l])
  /\ on_at' = [on_at EXCEPT ![n] = time]
  /\ moved' = moved \cup {l}
  /\ UNCHANGED <<clock, store_vars, current, list, at, next, active, left, freed, wild, misused>>

(* clear_loop: neither pointers to notes are touched.                      *)
ClearLoop(l) ==
  /\ Operation
  /\ list' = [list EXCEPT ![l] = <<>>]
  /\ freed' = freed \cup Range(list[l])
  /\ misused' = (misused \/ ({next[l]} \cup Range(active[l])) \cap Range(list[l]) # {})
  /\ UNCHANGED <<clock, store_vars, current, at, next, active, on_at, left, wild, moved>>

Edit ==
  \/ AddNewLoop
  \/ \E id \in AddedIds : DeleteLoop(id)
  \/ \E p \in DOMAIN sequence, id \in NOT_SET..(Len(store) - 1) : SetLoopIdAt(p, id)
  \/ \E l \in Stored :
       \/ ClearLoop(l)
       \/ \E n \in Notes : InsertNote(l, n) \/ DeleteNote(l, n)
       \/ \E n \in Notes, time \in Times : UpdateNote(l, n, time)

Next == Fill \/ TransportOperation \/ Edit

Spec == Init /\ [][Next]_vars

(* The audio thread renders as long as there is a sink.                    *)
FairSpec == Spec /\ WF_vars(Fill)

-----------------------------------------------------------------------------
(* Properties.                                                             *)

(* The sequencers, which are executed before the transport moves and count *)
(* on their own, come to the same tick and line as the transport, from     *)
(* wherever operations have put it and wherever they have put the loop.    *)
ClocksAgree == SequencerAdvance(clock) = Advance(clock)

(* Where the sequence names a loop, the store has one: fill_buffers calls  *)
(* it without a check, after any number of additions and deletions.        *)
SequencedLoopsExist ==
  \A p \in DOMAIN sequence :
    sequence[p] # NOT_SET => sequence[p] < Len(store) /\ store[sequence[p] + 1] # NULL

At(p) == IF sequence[p] = NOT_SET THEN NULL ELSE store[sequence[p] + 1]

(* Deleting a loop takes it, and no other, from all lines that start it:   *)
(* the other lines start the loops they did, although their ids change.    *)
LinesKeepLoops ==
  [][last_free' < last_free =>
       \E id \in 0..last_free : \A p \in DOMAIN sequence :
         At(p)' = IF sequence[p] = id THEN NULL ELSE At(p)]_vars

(* No deleted note is used in a rendering, unless it was deleted while it  *)
(* sounded, or its loop was cleared while it sounded or was to come next.  *)
ReadsLiveNotes == wild => misused

(* The next note of the loop that plays is not behind: the loop would wait *)
(* for it and miss all others. Moving notes may break this, inserting and  *)
(* deleting them does not.                                                 *)
NextIsAhead ==
  current # NULL /\ current \notin moved /\ ~misused /\ next[current] # NULL =>
    on_at[next[current]] >= at[current]

Sounds(n) == current # NULL /\ n \in Range(active[current])

(* A note that sounds comes to its end, unless its loop is left before     *)
(* that, or it is started again meanwhile and counted twice.               *)
NotesEnd ==
  \A n \in Notes :
    Sounds(n) ~> \/ ~Sounds(n) \/ wild
                 \/ Cardinality({k \in 1..MaxActive : active[current][k] = n}) > 1

(* Once the settings stay as they are, a transport that repeats a loop is  *)
(* in it for ever; if the loop ends before it starts, in its first line.   *)
LoopIsReached ==
  <>[](wild \/ (clock.do_loop =>
         IF clock.start < clock.stop THEN clock.position \in clock.start..(clock.stop - 1)
         ELSE clock.position = clock.start))
=============================================================================
