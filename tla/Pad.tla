--------------------------------- MODULE Pad --------------------------------
(***************************************************************************)
(* The pad of a sequencer (engine_code/pad.cc): what fingers do on it is   *)
(* played at once and, while it records, kept and played again.            *)
(*                                                                         *)
(* What a finger does between a press and a release is a PadMotion. The    *)
(* motions since recording was last switched on or off form a PadSession,  *)
(* which starts again whenever the transport comes to the tick at which it *)
(* began. Motions and sessions are objects that are deleted by hand: a     *)
(* session when it is designated for deletion and all its motions have     *)
(* ended, a motion when it ends or, designated for deletion, later.        *)
(*                                                                         *)
(* The transport repeats a loop. Fingers play single notes: the            *)
(* arpeggiator and chords are off.                                         *)
(***************************************************************************)
EXTENDS Integers, FiniteSets, Sequences, SequencesExt

CONSTANTS
  NULL,
  Fingers,             \* 0..4
  Columns,             \* the columns of the pad, one note each
  TicksPerLine,        \* MACHINE_TICKS_PER_LINE: 16
  LoopStart, LoopEnd,  \* the loop of the transport, in lines
  MaxSessions,         \* bounds on the sessions and
  MaxMotions,          \*   motions that are made,
  MaxEvents,           \*   the finger events,
  MaxOps,              \*   the operations,
  Moments,             \*   the ticks at which these come, and
  Late                 \*   the ticks that are told apart in a session

ASSUME PadAssumption ==
  /\ NULL \notin Nat
  /\ IsFiniteSet(Fingers) /\ 0 \in Fingers /\ IsFiniteSet(Columns)
  /\ TicksPerLine \in Nat \ {0} /\ {LoopStart, LoopEnd} \subseteq Nat /\ LoopStart < LoopEnd
  /\ {MaxSessions, MaxMotions, MaxEvents, MaxOps, Late} \subseteq Nat

VARIABLES
  tick,        \* the tick that is processed next
  mid_tick,    \* process_events has begun, process_sessions is to come
  mute,        \* no_sound of fill_buffers: mute, or the engine does not play
  do_record,
  do_quantize,
  current_session,
  sessions,    \* recorded_sessions
  session,     \* session[s]: the contents of session s
  motion,      \* motion[m]: the contents of motion m
  freed,       \* motions that were deleted
  sound,       \* <<m, x>>: motion m has started the note of column x
  hung,        \* an export goes on for ever
  pressed,     \* fingers that are on the pad
  events, ops, \* finger events and operations so far
  lost,        \* motions nobody refers to any more, for a reason given below
  cut          \* motions that will not come to a last position

object_vars == <<sessions, session, motion, freed, sound>>
seen_vars == <<lost, cut>>
pad_vars == <<tick, mid_tick, mute, do_record, do_quantize, current_session, object_vars,
          hung, pressed, events, ops, seen_vars>>

Begin == LoopStart * TicksPerLine
End == LoopEnd * TicksPerLine

(* quantize_tick: to the closest line.                                     *)
QuantizeTick(t) ==
  LET line == t \div TicksPerLine
  IN TicksPerLine * (IF t % TicksPerLine > TicksPerLine \div 2 THEN line + 1 ELSE line)

PlaceIn(list, m) == CHOOSE i \in DOMAIN list : list[i] = m

FirstOf(list) == IF list = <<>> THEN NULL ELSE Head(list)

-----------------------------------------------------------------------------
(* Motions. A position is [t, x]: a tick since the start, and a column.    *)

(* The constructor, and start_motion.                                      *)
NewMotion(start, x) ==
  [start |-> start, at |-> <<[t |-> 0, x |-> x]>>, index |-> 0, crnt_tick |-> -1,
   last_x |-> NULL, terminated |-> FALSE, to_be_deleted |-> FALSE]

Started(p) == [p EXCEPT !.index = 0, !.crnt_tick = -1, !.last_x = NULL]

Stopped(p) == [p EXCEPT !.index = -1, !.crnt_tick = -1, !.last_x = NULL]

AddPosition(p, x) ==
  IF p.terminated THEN p ELSE [p EXCEPT !.at = Append(@, [t |-> p.crnt_tick + 1, x |-> x])]

(* terminate: a motion lasts one tick at least.                            *)
AtLeastOneTick(at) ==
  LET n == Len(at)
  IN IF n > 1 /\ at[n].t = at[1].t THEN [at EXCEPT ![n].t = @ + 1] ELSE at

Terminated(p) == [p EXCEPT !.terminated = TRUE, !.at = AtLeastOneTick(@)]

(* quantize, if it is on.                                                  *)
Quantized(p) == IF do_quantize THEN [p EXCEPT !.start = QuantizeTick(@)] ELSE p

(* A fault to detect: the last position starts a note like the others.     *)
PlayPositionAlways(o, e) ==
  LET m == e.motion
      p == o.motion[m]
      x == p.at[p.index + 1].x
      off == IF p.last_x # x \/ p.to_be_deleted THEN {<<m, p.last_x>>} ELSE {}
      on == IF ~p.to_be_deleted /\ p.last_x # x /\ ~e.quiet THEN {<<m, x>>} ELSE {}
  IN [o EXCEPT !.sound = (@ \ off) \cup on,
               !.motion[m] = [p EXCEPT !.last_x = x, !.index = @ + 1]]

(* One round of the loop in process_motion: a new column starts its note   *)
(* and ends the old one; the last position, or any one of a motion that is *)
(* to be deleted, only ends it. e says which motion, and if it is muted.   *)
PlayPosition(o, e) ==
  LET m == e.motion
      p == o.motion[m]
      x == p.at[p.index + 1].x
      final == p.terminated /\ p.index = Len(p.at) - 1
      off == IF p.last_x # x \/ p.to_be_deleted \/ final THEN {<<m, p.last_x>>} ELSE {}
      on == IF ~p.to_be_deleted /\ p.last_x # x /\ ~e.quiet /\ ~final THEN {<<m, x>>} ELSE {}
  IN [o EXCEPT !.sound = (@ \ off) \cup on,
               !.motion[m] = [p EXCEPT !.last_x = x, !.index = @ + 1]]

Ended(p) == p.terminated /\ p.index >= Len(p.at)

Ticked(p) == [p EXCEPT !.crnt_tick = IF @ < Late THEN @ + 1 ELSE @]

(* The positions that are to be played now.                                *)
Due(p) ==
  {k \in (p.index + 1)..Len(p.at) : \A j \in (p.index + 1)..k : p.at[j].t <= p.crnt_tick}

(* process_motion for a motion that has not ended.                         *)
ProcessMotion(o, m, quiet) ==
  LET p == Ticked(o.motion[m])
  IN FoldLeft(PlayPosition, [o EXCEPT !.motion[m] = p],
              [k \in 1..Cardinality(Due(p)) |-> [motion |-> m, quiet |-> quiet]])

-----------------------------------------------------------------------------
(* Fingers.                                                                *)

(* mixed is not in the code: a motion was quantized after it had found its *)
(* place among motions that were not.                                      *)
NoFinger == [recorded |-> <<>>, next |-> NULL, playing |-> <<>>, current |-> NULL, mixed |-> FALSE]

(* start_from_the_top, and what reset does to a finger.                    *)
FromTheTop(g) == [g EXCEPT !.next = FirstOf(g.recorded), !.playing = <<>>]

(* record_motion: before the first motion that starts later.               *)
RecordMotion(o, list, m) ==
  LET k == SelectInSeq(list, LAMBDA n : o.motion[n].start > o.motion[m].start)
  IN InsertAt(list, IF k = 0 THEN Len(list) + 1 ELSE k, m)

OnLines(o, list) == \A m \in ToSet(list) : o.motion[m].start % TicksPerLine = 0

(* Recorded motions that start at this position: from the next one on, as  *)
(* long as they do.                                                        *)
Starting(o, g, position) ==
  LET i == PlaceIn(g.recorded, g.next)
      run == {j \in i..Len(g.recorded) : \A k \in i..j :
                LET p == o.motion[g.recorded[k]] IN p.index = -1 /\ p.start = position}
  IN SubSeq(g.recorded, i, i + Cardinality(run) - 1)

(* A fault to detect: a muted finger waits for its next motion.            *)
StartMotionsWaiting(o, s, f, quiet) ==
  LET g == o.session[s].finger[f]
      starting == Starting(o, g, o.session[s].position)
      rest == PlaceIn(g.recorded, g.next) + Len(starting)
  IN IF quiet \/ g.next = NULL \/ o.session[s].to_be_deleted THEN o
     ELSE [o EXCEPT
       !.motion = [m \in DOMAIN @ |-> IF m \in ToSet(starting) THEN Started(@[m]) ELSE @[m]],
       !.session[s].finger[f] =
         [g EXCEPT !.playing = @ \o starting,
                   !.next = IF rest > Len(g.recorded) THEN NULL ELSE g.recorded[rest]]]

(* The first part of process_finger_motions.                               *)
StartMotions(o, s, f, quiet) ==
  LET g == o.session[s].finger[f]
      starting == Starting(o, g, o.session[s].position)
      rest == PlaceIn(g.recorded, g.next) + Len(starting)
  IN IF quiet THEN [o EXCEPT !.session[s].finger[f].next = NULL]
     ELSE IF g.next = NULL \/ o.session[s].to_be_deleted THEN o
     ELSE [o EXCEPT
       !.motion = [m \in DOMAIN @ |-> IF m \in ToSet(starting) THEN Started(@[m]) ELSE @[m]],
       !.session[s].finger[f] =
         [g EXCEPT !.playing = @ \o starting,
                   !.next = IF rest > Len(g.recorded) THEN NULL ELSE g.recorded[rest]]]

(* A fault to detect: the motion of the user is forgotten, not deleted.    *)
EndMotionForget(o, s, f, m) ==
  LET g == o.session[s].finger[f]
      p == o.motion[m]
      list == RecordMotion(o, g.recorded, m)
      kept == m = g.current /\ do_record
      mine == m = g.current
  IN [o EXCEPT !.motion[m] = IF kept THEN Quantized(Stopped(p)) ELSE Stopped(p),
               !.freed = IF ~mine /\ p.to_be_deleted THEN @ \cup {m} ELSE @,
               !.session[s].finger[f] =
                 [g EXCEPT !.recorded = IF kept THEN list ELSE @,
                           !.current = IF mine THEN NULL ELSE @,
                           !.mixed = @ \/ (kept /\ do_quantize /\ ~OnLines(o, g.recorded)),
                           !.playing = RemoveAt(@, PlaceIn(@, m))]]

(* A motion has ended. The one of the user is recorded or deleted; a       *)
(* recorded one is deleted if it was designated.                           *)
EndMotion(o, s, f, m) ==
  LET g == o.session[s].finger[f]
      p == o.motion[m]
      list == RecordMotion(o, g.recorded, m)
      kept == m = g.current /\ do_record
      mine == m = g.current
  IN [o EXCEPT !.motion[m] = IF kept THEN Quantized(Stopped(p)) ELSE Stopped(p),
               !.freed = IF (mine /\ ~kept) \/ (~mine /\ p.to_be_deleted) THEN @ \cup {m} ELSE @,
               !.session[s].finger[f] =
                 [g EXCEPT !.recorded = IF kept THEN list ELSE @,
                           !.current = IF mine THEN NULL ELSE @,
                           !.mixed = @ \/ (kept /\ do_quantize /\ ~OnLines(o, g.recorded)),
                           !.playing = RemoveAt(@, PlaceIn(@, m))]]

(* What happens to a motion that plays; e says what plays it.              *)
PlayOn(o, e) ==
  IF Ended(o.motion[e.motion]) THEN EndMotion(o, e.session, e.finger, e.motion)
  ELSE ProcessMotion(o, e.motion, e.quiet)

(* process_finger_motions.                                                 *)
ProcessFinger(o, e) ==
  LET begun == StartMotions(o, e.session, e.finger, e.quiet)
      playing == begun.session[e.session].finger[e.finger].playing
  IN FoldLeft(PlayOn, begun,
              [k \in DOMAIN playing |-> [session |-> e.session, finger |-> e.finger,
                                         motion |-> playing[k], quiet |-> e.quiet]])

-----------------------------------------------------------------------------
(* Sessions.                                                               *)

NewSession(start) ==
  [start |-> start, position |-> -1, in_play |-> TRUE, terminated |-> FALSE,
   to_be_deleted |-> FALSE, finger |-> [f \in Fingers |-> NoFinger]]

(* What load_pad_from_xml makes of a project with one recorded motion.     *)
LoadedMotion(x) ==
  [Stopped(NewMotion(0, x)) EXCEPT !.at = Append(@, [t |-> 1, x |-> x]), !.terminated = TRUE]

FirstRecorded == [f \in Fingers |-> [NoFinger EXCEPT !.recorded = IF f = 0 THEN <<1>> ELSE <<>>]]

LoadedSession ==
  [NewSession(Begin) EXCEPT !.in_play = FALSE, !.terminated = TRUE, !.finger = FirstRecorded]

(* A session with one motion, which began at its second tick and has just  *)
(* been recorded.                                                          *)
RecordingSession == [NewSession(Begin) EXCEPT !.position = 3, !.finger = FirstRecorded]

(* A new pad, a loaded one, or one that records. The first event comes     *)
(* whatever was switched on before.                                        *)
PadInit ==
  /\ mid_tick = FALSE /\ mute = FALSE
  /\ do_record \in BOOLEAN /\ do_quantize \in BOOLEAN
  /\ \/ /\ tick = Begin /\ current_session = NULL
        /\ sessions = {} /\ session = <<>> /\ motion = <<>>
     \/ /\ tick = Begin /\ current_session = NULL
        /\ sessions = {1} /\ session = <<LoadedSession>>
        /\ \E x \in Columns : motion = <<LoadedMotion(x)>>
     \/ /\ tick = Begin + (4 % (End - Begin)) /\ current_session = 1 /\ do_record
        /\ sessions = {1} /\ session = <<RecordingSession>>
        /\ \E x \in Columns : motion = <<[LoadedMotion(x) EXCEPT !.start = 1]>>
  /\ freed = {} /\ sound = {}
  /\ hung = FALSE /\ pressed = {} /\ events = 0 /\ ops = 0
  /\ lost = {} /\ cut = {}

Gone == NewSession(0)
Deleted == NewMotion(0, NULL)

(* Everything process and the operations change, as one value.             *)
Objects == [session |-> session, motion |-> motion, freed |-> freed, sound |-> sound]

(* The contents of what was deleted are forgotten.                         *)
SetObjects(o) ==
  /\ session' = [s \in DOMAIN o.session |-> IF s \in sessions' THEN o.session[s] ELSE Gone]
  /\ motion' = [m \in DOMAIN o.motion |-> IF m \in o.freed THEN Deleted ELSE o.motion[m]]
  /\ freed' = o.freed /\ sound' = o.sound

Completed(c) == \A f \in Fingers : c.finger[f].playing = <<>> /\ c.finger[f].next = NULL

(* start_play.                                                             *)
StartPlay(c) ==
  IF c.in_play THEN c
  ELSE [c EXCEPT !.in_play = TRUE, !.position = -1,
                 !.finger = [f \in Fingers |-> FromTheTop(c.finger[f])]]

(* process_session.                                                        *)
ProcessSession(o, s) ==
  LET c == StartPlay(o.session[s])
      begun == [o EXCEPT !.session[s] =
                  [c EXCEPT !.position = IF @ < Late THEN @ + 1 ELSE @]]
      fingers == SetToSeq(Fingers)
      done == FoldLeft(ProcessFinger, begun,
                       [k \in DOMAIN fingers |->
                          [session |-> s, finger |-> fingers[k],
                           quiet |-> s # current_session /\ mute]])
      in_play == ~(Completed(done.session[s]) /\ done.session[s].terminated)
  IN [done EXCEPT !.session[s].in_play = in_play,
                  !.session[s].position = IF in_play THEN @ ELSE -1]

(* The motions the destructor deletes.                                     *)
Owned(c) ==
  UNION {ToSet(c.finger[f].recorded) \cup ({c.finger[f].current} \ {NULL}) : f \in Fingers}

PlayingIn(c) == UNION {ToSet(c.finger[f].playing) : f \in Fingers}

(* Pad::process_sessions: those in play, and those that start now. A       *)
(* session that is to be deleted goes when it is completed.                *)
ProcessSessions ==
  LET playing == {s \in sessions : session[s].in_play \/ session[s].start = tick}
      o == FoldLeft(ProcessSession, Objects, SetToSeq(playing))
      gone == {s \in playing : o.session[s].to_be_deleted /\ Completed(o.session[s])}
  IN /\ ~hung
     /\ mid_tick' = FALSE
     /\ tick' = IF tick + 1 = End THEN Begin ELSE tick + 1
     /\ sessions' = sessions \ gone
     /\ SetObjects([o EXCEPT !.freed = @ \cup UNION {Owned(o.session[s]) : s \in gone}])
     /\ UNCHANGED <<mute, do_record, do_quantize, current_session, hung, pressed, events, ops, seen_vars>>

(* The session of an event, made if there is none. Its start is moved back *)
(* into the loop if it was quantized out of it, or so it was meant.        *)
SessionStart ==
  LET start == IF do_quantize THEN QuantizeTick(tick) ELSE tick
  IN IF start >= End THEN start - Begin ELSE start

(* process_finger_events.                                                  *)
FingerEvent(c, f, type, x) ==
  LET g == c.finger[f]
      m == g.current
      new == Len(motion) + 1
  IN CASE type = "press" ->
            /\ new <= MaxMotions
            /\ motion' = Append(motion, NewMotion(c.position + 1, x))
            /\ session' = [n \in DOMAIN session \cup {current_session'} |->
                 IF n # current_session' THEN session[n]
                 ELSE [c EXCEPT !.finger[f] = [g EXCEPT !.current = new,
                                                        !.playing = Append(@, new)]]]
            /\ lost' = IF m = NULL THEN lost ELSE lost \cup {m}
       [] type \in {"slide", "release"} ->
            /\ motion' = IF m = NULL THEN motion
                         ELSE [motion EXCEPT ![m] =
                                 IF type = "slide" THEN AddPosition(@, x)
                                 ELSE Terminated(AddPosition(@, x))]
            /\ session' = [n \in DOMAIN session \cup {current_session'} |->
                             IF n # current_session' THEN session[n] ELSE c]
            /\ UNCHANGED lost

(* Pad::process_events, one event.                                         *)
HandleEvent(f, type, x) ==
  LET new == Len(session) + 1
      s == IF current_session = NULL THEN new ELSE current_session
      c == IF current_session = NULL THEN NewSession(SessionStart) ELSE session[s]
      m == c.finger[f].current
  IN /\ ~hung /\ tick \in Moments /\ events < MaxEvents /\ s <= MaxSessions
     /\ c.position + 1 < Late /\ (m # NULL => motion[m].crnt_tick + 1 < Late)
     /\ (type = "press") = (f \notin pressed)
     /\ pressed' = IF type = "release" THEN pressed \ {f} ELSE pressed \cup {f}
     /\ events' = events + 1
     /\ mid_tick' = TRUE
     /\ current_session' = s
     /\ sessions' = sessions \cup {s}
     /\ FingerEvent(c, f, type, x)
     /\ UNCHANGED <<tick, mute, do_record, do_quantize, freed, sound, hung, ops, cut>>

-----------------------------------------------------------------------------
(* Operations.                                                             *)

Operation == ~hung /\ ~mid_tick /\ tick \in Moments /\ ops < MaxOps /\ ops' = ops + 1

(* delete_motion: one that plays is deleted when it ends.                  *)
DeleteMotions(o, ms) ==
  LET idle == {m \in ms : o.motion[m].index = -1}
  IN [o EXCEPT !.freed = @ \cup idle,
               !.motion = [m \in DOMAIN @ |-> IF m \in ms \ idle
                                              THEN [@[m] EXCEPT !.to_be_deleted = TRUE]
                                              ELSE @[m]]]

(* delete_pad_finger: the motion of the user goes on.                      *)
DeleteFinger(g) == [g EXCEPT !.recorded = <<>>, !.next = NULL]

DeleteSession(o, s) ==
  LET c == o.session[s]
      recorded == UNION {ToSet(c.finger[f].recorded) : f \in Fingers}
  IN [DeleteMotions(o, recorded) EXCEPT
        !.session[s] = [c EXCEPT !.to_be_deleted = TRUE,
                                 !.finger = [f \in Fingers |-> DeleteFinger(c.finger[f])]]]

(* The motions of the fingers that are down. Their releases will go to     *)
(* another session.                                                        *)
HeldMotions ==
  IF current_session = NULL THEN {}
  ELSE {m \in {session[current_session].finger[f].current : f \in Fingers} \ {NULL} :
          ~motion[m].terminated}

(* A fault to detect: only the fingers are terminated.                     *)
TerminateFingers(o, s) ==
  [o EXCEPT !.motion = [m \in DOMAIN @ |->
                          IF m \in {o.session[s].finger[f].current : f \in Fingers}
                          THEN Terminated(@[m]) ELSE @[m]]]

(* PadSession::terminate.                                                  *)
TerminateSession(o, s) ==
  [o EXCEPT !.session[s].terminated = TRUE,
            !.motion = [m \in DOMAIN @ |->
                          IF m \in {o.session[s].finger[f].current : f \in Fingers}
                          THEN Terminated(@[m]) ELSE @[m]]]

(* internal_set_record: what was played without recording is deleted, what *)
(* was recorded is terminated.                                             *)
SetRecord(b) ==
  /\ Operation
  /\ b # do_record
  /\ do_record' = b
  /\ current_session' = NULL
  /\ UNCHANGED <<tick, mid_tick, mute, do_quantize, sessions, hung, pressed, events, lost>>
  /\ IF current_session = NULL THEN UNCHANGED <<session, motion, freed, sound, cut>>
     ELSE IF do_record
     THEN /\ SetObjects(TerminateSession(Objects, current_session))
          /\ cut' = cut \cup HeldMotions
     ELSE SetObjects(DeleteSession(Objects, current_session)) /\ cut' = cut \cup HeldMotions

(* internal_clear_pad.                                                     *)
ClearPad ==
  /\ Operation
  /\ UNCHANGED <<tick, mid_tick, mute, do_record, do_quantize, sessions, hung, pressed, events, lost>>
  /\ SetObjects(FoldLeft(DeleteSession, Objects, SetToSeq(sessions)))
  /\ cut' = cut \cup HeldMotions
  /\ current_session' = NULL

(* Pad::reset: the current session is deleted, the others stop.            *)
ResetObjects ==
  LET stopped == UNION {PlayingIn(session[s]) : s \in sessions \ {current_session}}
      gone == IF current_session = NULL THEN {} ELSE Owned(session[current_session])
  IN [session |-> [s \in DOMAIN session |->
                     IF s \notin sessions \ {current_session} THEN session[s]
                     ELSE [session[s] EXCEPT !.in_play = FALSE, !.position = -1,
                             !.finger = [f \in Fingers |-> FromTheTop(session[s].finger[f])]]],
      motion  |-> [m \in DOMAIN motion |->
                     IF m \in stopped THEN Stopped(motion[m]) ELSE motion[m]],
      freed   |-> freed \cup gone,
      sound   |-> sound]

(* Motions that play and are to be deleted when they end.                  *)
Designated == {m \in UNION {PlayingIn(session[s]) : s \in sessions} : motion[m].to_be_deleted}

ResetPad ==
  /\ sessions' = sessions \ {current_session}
  /\ current_session' = NULL
  /\ lost' = lost \cup Designated
  /\ UNCHANGED <<mid_tick, do_record, do_quantize, pressed, events>>

(* The transport plays, stops, jumps or rewinds: all machines are reset,   *)
(* which also ends all notes.                                              *)
Reset(t, m) ==
  /\ Operation
  /\ ResetPad
  /\ SetObjects([ResetObjects EXCEPT !.sound = {}])
  /\ tick' = t /\ mute' = m
  /\ UNCHANGED <<hung, cut>>

SetMute(b) ==
  /\ Operation
  /\ b # mute
  /\ mute' = b
  /\ UNCHANGED <<tick, mid_tick, do_record, do_quantize, current_session, object_vars, hung,
                 pressed, events, seen_vars>>

SetQuantize(b) ==
  /\ Operation
  /\ b # do_quantize
  /\ do_quantize' = b
  /\ UNCHANGED <<tick, mid_tick, mute, do_record, current_session, object_vars, hung,
                 pressed, events, seen_vars>>

(* A session comes to its end when it is played from its start. One that   *)
(* was designated for deletion waits for what it has recorded since.       *)
Ends(c) ==
  /\ c.terminated
  /\ c.to_be_deleted => \A f \in Fingers : c.finger[f].recorded = <<>>
  /\ \A f \in Fingers : LET list == c.finger[f].recorded
                        IN \A j, k \in DOMAIN list : j < k => motion[list[j]].start <= motion[list[k]].start

Exported == {s \in sessions \ {current_session} : session[s].start \in Begin..(End - 1)}

(* export_to_loop: after a reset the sessions of the loop are played to    *)
(* their end, and reset again.                                             *)
Export ==
  /\ Operation
  /\ ResetPad
  /\ SetObjects(ResetObjects)
  /\ hung' = \E s \in Exported : ~Ends(session[s])
  /\ cut' = cut \cup {m[1] : m \in sound}
  /\ UNCHANGED <<tick, mute>>

-----------------------------------------------------------------------------
LineStarts == {line * TicksPerLine : line \in LoopStart..(LoopEnd - 1)}

PadNext ==
  \/ ProcessSessions
  \/ \E f \in Fingers, type \in {"press", "slide", "release"}, x \in Columns : HandleEvent(f, type, x)
  \/ \E b \in BOOLEAN : SetRecord(b) \/ SetMute(b) \/ SetQuantize(b)
  \/ \E t \in LineStarts \cup {tick}, m \in BOOLEAN : Reset(t, m)
  \/ ClearPad \/ Export

PadSpec == PadInit /\ [][PadNext]_pad_vars

(* The audio thread renders as long as there is a sink. ProcessSessions    *)
(* can be taken unless an export hangs, and the operations are bounded, so *)
(* this is weak fairness of it, said of the tick.                          *)
PadFairSpec ==
  /\ PadSpec
  /\ []<>(hung \/ tick = Begin)
  /\ []<>(hung \/ tick # Begin)

-----------------------------------------------------------------------------
(* Properties.                                                             *)

Pointers(c) ==
  (UNION {ToSet(c.finger[f].recorded) \cup ToSet(c.finger[f].playing)
          \cup {c.finger[f].next, c.finger[f].current} : f \in Fingers}) \ {NULL}

(* A motion belongs to one session, until it is deleted: no finger refers  *)
(* to a deleted motion and no two owners would delete the same, whatever   *)
(* is cleared, reset, recorded or exported while it plays. A motion nobody *)
(* refers to any more is never deleted: that happens to one that was       *)
(* followed by another press before it had ended, which is also not        *)
(* recorded, and to one that was designated for deletion and stopped by a  *)
(* reset, and to no other.                                                 *)
MotionsOwned ==
  /\ \A s \in sessions : Pointers(session[s]) \cap freed = {}
  /\ \A s, r \in sessions : s # r => Pointers(session[s]) \cap Pointers(session[r]) = {}
  /\ \A s \in sessions, f \in Fingers :
       LET g == session[s].finger[f]
       IN g.current \notin ToSet(g.recorded)
          /\ Cardinality(ToSet(g.recorded)) = Len(g.recorded)
  /\ \A m \in DOMAIN motion \ (freed \cup lost) : \E s \in sessions : m \in Pointers(session[s])

(* A note that sounds will end: its motion plays, in a session that is     *)
(* processed, and has come to its last position but not played it yet, or  *)
(* its finger is down and the release will go to this session. This is so  *)
(* except for a motion that recording was switched on or off, or the pad   *)
(* cleared, during, and for those that an export stopped.                  *)
SilentAfterwards ==
  \A n \in sound : n[1] \in cut \/
    \E s \in sessions, f \in Fingers :
      LET m == n[1]
          g == session[s].finger[f]
      IN /\ session[s].in_play /\ m \in ToSet(g.playing)
         /\ IF motion[m].terminated THEN motion[m].index < Len(motion[m].at)
            ELSE s = current_session /\ m = g.current /\ f \in pressed

(* Nobody will release these fingers: their events go to another session.  *)
Stranded(s) ==
  s # current_session /\ \E m \in PlayingIn(session[s]) : ~motion[m].terminated

(* A motion that ended after its session was designated for deletion has   *)
(* been recorded all the same. When another finger keeps the session until *)
(* a reset, it waits for this motion, which is not started any more.       *)
Reopened(s) ==
  session[s].to_be_deleted /\ \E f \in Fingers : session[s].finger[f].recorded # <<>>

(* Recorded partly with quantize switched on and partly off.               *)
Mixed(s) == \E f \in Fingers : session[s].finger[f].mixed

(* A session that was recorded comes to its end each time it plays, muted  *)
(* or not, and one designated for deletion is deleted, unless a finger was *)
(* down, a motion was recorded in it afterwards, or its start is outside   *)
(* the loop. One in which motions are out of order because quantize was    *)
(* switched on in between need not come to its end.                        *)
SessionsEnd ==
  \A s \in 1..MaxSessions :
    /\ s \in sessions /\ session[s].to_be_deleted ~>
         \/ s \notin sessions \/ hung \/ Stranded(s) \/ Reopened(s)
         \/ session[s].start \notin Begin..(End - 1)
    /\ s \in sessions /\ session[s].in_play /\ session[s].terminated ~>
         s \notin sessions \/ ~session[s].in_play \/ hung \/ Reopened(s) \/ Mixed(s)

(* An export returns, unless a session that was designated for deletion is *)
(* still there, or motions are out of order because quantize was switched  *)
(* on while they were recorded.                                            *)
ExportReturns ==
  hung => \E s \in Exported : session[s].to_be_deleted \/ Mixed(s)
=============================================================================
