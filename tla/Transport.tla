------------------------------ MODULE Transport -----------------------------
(***************************************************************************)
(* The transport (machine.cc): where in the sequence the engine is, and    *)
(* the loop it repeats. All of it is changed by machine operations and by  *)
(* the rendering, which exclude each other (MachineOps).                   *)
(*                                                                         *)
(* The clock is a record                                                   *)
(*   tick      __current_tick, in 0..(TicksPerLine - 1)                    *)
(*   position  __next_sequence_position, a line                            *)
(*   resume    __resume_sequence_position                                  *)
(*   do_loop, start, stop    __do_loop, __loop_start, __loop_stop          *)
(*   playing   is_playing                                                  *)
(* The clock goes on when the engine does not play.                        *)
(***************************************************************************)
EXTENDS Integers, SequencesExt

CONSTANTS
  TicksPerLine,   \* MACHINE_TICKS_PER_LINE: 16
  MinLength,      \* the shortest loop: 4 lines
  End             \* stands for every line from there on: a sequence ends earlier

ASSUME TransportAssumption ==
  TicksPerLine \in Nat \ {0} /\ MinLength \in Nat \ {0} /\ End \in Nat

ClockInit(length) ==
  [tick |-> 0, position |-> 0, resume |-> 0,
   do_loop |-> TRUE, start |-> 0, stop |-> length, playing |-> FALSE]

(* The line that follows, in a loop.                                       *)
Wrap(do_loop, start, stop, line) ==
  IF do_loop /\ line >= stop THEN start ELSE IF line > End THEN End ELSE line

(* One tick in calculate_next_tick_at_and_sequence_position.               *)
Advance(c) ==
  LET tick == (c.tick + 1) % TicksPerLine
  IN [c EXCEPT !.tick = tick,
               !.position = IF tick = 0 THEN Wrap(c.do_loop, c.start, c.stop, @ + 1) ELSE @]

(* reset_global_playback_parameters.                                       *)
ResetPlayback(c, position) == [c EXCEPT !.position = position, !.tick = 0]

PlayClock(c) == ResetPlayback([c EXCEPT !.playing = TRUE], c.resume)

StopClock(c) == [c EXCEPT !.resume = c.position, !.playing = FALSE]

(* jump_to: a line outside the loop is its start; the one behind it is not *)
(* outside. Where play resumes does not change.                            *)
JumpTo(c, line) ==
  [c EXCEPT !.tick = 0,
            !.position = IF c.do_loop /\ (line < c.start \/ line > c.stop) THEN c.start ELSE line]

Rewind(c) ==
  LET line == IF c.do_loop THEN c.start ELSE 0
  IN [ResetPlayback(c, line) EXCEPT !.resume = line]

SetLoopState(c, do_loop) == [c EXCEPT !.do_loop = do_loop]

(* The end of the loop stays where it is, even before its new start.       *)
SetLoopStart(c, line) == [c EXCEPT !.start = line]

SetLoopLength(c, length) == [c EXCEPT !.stop = c.start + length]
=============================================================================
