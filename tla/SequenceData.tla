---------------------------- MODULE SequenceData ----------------------------
(***************************************************************************)
(* What one Sequence holds, and the process_* functions that change it     *)
(* (engine_code/sequence.cc).  The server and the client run the same      *)
(* code: the server on a request, the client on the command that announces *)
(* it.                                                                     *)
(*                                                                         *)
(* The contents of a Sequence are                                          *)
(*   patterns    a function from pattern ids to lists of notes,            *)
(*   instances   the list of the places where a pattern is to be played.   *)
(* Both lists are LinkedList objects (linked_list.hh), here sequences.     *)
(* A note is [on_at, note], everything else about it being data; an        *)
(* instance is [pattern_id, start_at, loop_length, stop_at].               *)
(***************************************************************************)
EXTENDS Integers, FiniteSets, Sequences, SequencesExt

Empty == [patterns |-> <<>>, instances |-> <<>>]

-----------------------------------------------------------------------------
(* LinkedList.                                                             *)

(* insert_element: in front of the head, or behind the first element that  *)
(* is not less or has no next one. The list does not stay sorted:          *)
(* inserting 3 into <<1, 5>> gives <<1, 5, 3>>.                            *)
InsertElement(list, e, Less(_, _)) ==
  IF list = <<>> \/ Less(e, Head(list)) THEN <<e>> \o list
  ELSE LET k == CHOOSE k \in DOMAIN list :
                  /\ k = Len(list) \/ ~Less(list[k], e)
                  /\ \A j \in 1..(k - 1) : Less(list[j], e)
       IN InsertAt(list, k + 1, e)

(* drop_element: the first element that is equal, if there is one.         *)
DropElement(list, Same(_)) ==
  LET k == SelectInSeq(list, Same)
  IN IF k = 0 THEN list ELSE RemoveAt(list, k)

-----------------------------------------------------------------------------
(* Patterns.                                                               *)

WithPatterns(s, patterns) == [patterns |-> patterns, instances |-> s.instances]
WithInstances(s, instances) == [patterns |-> s.patterns, instances |-> instances]

ProcessAddPattern(s, id) ==
  WithPatterns(s, [p \in DOMAIN s.patterns \cup {id} |->
                     IF p = id THEN <<>> ELSE s.patterns[p]])

(* The instances of the pattern stay where they are.                       *)
ProcessDelPattern(s, id) ==
  WithPatterns(s, [p \in DOMAIN s.patterns \ {id} |-> s.patterns[p]])

-----------------------------------------------------------------------------
(* Instances.                                                              *)

(* A fault to detect: only the start of the instance is looked at.         *)
MeetsAtStart(old, new) == old.start_at >= new.start_at /\ old.start_at <= new.stop_at

(* The overlap test: an instance that is there starts or stops within the  *)
(* new one.                                                                *)
Meets(old, new) ==
  \/ old.start_at >= new.start_at /\ old.start_at <= new.stop_at
  \/ old.stop_at  >= new.start_at /\ old.stop_at  <= new.stop_at

MayAddInstance(s, new) ==
  /\ new.stop_at - new.start_at > 0
  /\ new.pattern_id \in DOMAIN s.patterns
  /\ \A k \in DOMAIN s.instances : ~Meets(s.instances[k], new)

InsertInstance(list, new) == InsertElement(list, new, LAMBDA a, b : a.start_at < b.start_at)

ProcessAddPatternInstance(s, new) ==
  IF MayAddInstance(s, new) THEN WithInstances(s, InsertInstance(s.instances, new)) ELSE s

(* PatternInstance::operator== does not look at loop_length.               *)
SameInstance(a, b) ==
  a.pattern_id = b.pattern_id /\ a.start_at = b.start_at /\ a.stop_at = b.stop_at

DropInstance(list, old) == DropElement(list, LAMBDA i : SameInstance(i, old))

ProcessDelPatternInstance(s, old) == WithInstances(s, DropInstance(s.instances, old))

-----------------------------------------------------------------------------
(* Notes. Nothing happens when the pattern is not there (any more).        *)

InsertNote(list, note) == InsertElement(list, note, LAMBDA a, b : a.on_at < b.on_at)
DropNote(list, note) == DropElement(list, LAMBDA n : n = note)

ProcessAddNote(s, id, note) ==
  IF id \in DOMAIN s.patterns
  THEN WithPatterns(s, [s.patterns EXCEPT ![id] = InsertNote(@, note)])
  ELSE s

ProcessDeleteNote(s, id, note) ==
  IF id \in DOMAIN s.patterns
  THEN WithPatterns(s, [s.patterns EXCEPT ![id] = DropNote(@, note)])
  ELSE s
=============================================================================
