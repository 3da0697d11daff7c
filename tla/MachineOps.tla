----------------------------- MODULE MachineOps -----------------------------
(***************************************************************************)
(* How machine operations reach the machine network (machine.cc).          *)
(*                                                                         *)
(* A caller thread hands an operation to machine_operation_enqueue.  As    *)
(* long as there is no sink, or the sink has not switched to low latency   *)
(* mode, the caller runs it itself under the machine space lock.           *)
(* Otherwise the operation goes into a queue that the audio thread empties *)
(* between two renderings, without any lock, and the caller waits for it   *)
(* unless it asked not to.  Both ways must keep operations and renderings  *)
(* from overlapping, across every change of sink and of mode.              *)
(*                                                                         *)
(* The audio thread is the one of the sink plugin (dynlib/liveout.c): it   *)
(* reads inst->mt, which the plugin's init and delete set, enables low     *)
(* latency mode when that has changed and calls fill_sink.                 *)
(***************************************************************************)
EXTENDS Integers, FiniteSets, Sequences, SequencesExt

CONSTANTS
  Callers,      \* threads that are not the audio thread
  audio,        \* the audio thread
  NULL,
  Kount,        \* operations per call of machine_operation_dequeue: 50
  MaxOps,       \* bound on the operations each caller requests
  MaxQueue,     \* bound on the operations queued at a time
  Kinds,        \* the kinds of operations requested, see below
  Plugins,      \* the builds of the sink plugin that are considered
  Reuse,        \* the builds where a new sink may get the address of a
                \* destroyed one, and
  RenderFails   \* those where render_chain may throw

ASSUME OpsAssumption ==
  /\ audio \notin Callers /\ NULL \notin Callers \cup Nat \cup {audio}
  /\ Kount \in Nat \ {0} /\ MaxOps \in Nat /\ MaxQueue \in Nat
  /\ Kinds \subseteq {"plain", "throw", "make", "kill"}
  /\ Plugins \subseteq {"OpenSL", "ALSA"}
  /\ Reuse \subseteq Plugins /\ RenderFails \subseteq Plugins

Threads == Callers \cup {audio}

VARIABLES
  sink,     \* Machine::sink
  lowlat,   \* Machine::low_latency_mode
  mt,       \* the plugin's inst->mt: the sink whose machine table it has
  lock,     \* machine_space_lock, a recursive monitor: [owner, depth]
  tupla_p,  \* the number of enters not left yet
  queue,    \* machine_operation_queue
  stack,    \* stack[t]: what thread t is in the middle of
  pc,       \* pc[c]: what caller c is doing
  issued,   \* issued[c]: operations c has requested so far
  started,  \* started[c]: the last operation of c that began
  apc,      \* control of the audio thread
  cur,      \* its local mt, and
  last,     \*   its last_mt
  made,     \* sink machines made so far: their addresses are 1..made
  plugin    \* the build of the sink plugin; it does not change

vars == <<sink, lowlat, mt, lock, tupla_p, queue, stack, pc, issued, started,
          apc, cur, last, made, plugin>>

graph_vars  == <<sink, lowlat, mt, made>>
lock_vars   == <<lock, tupla_p>>
caller_vars == <<pc, issued>>
audio_vars  == <<apc, cur, last, plugin>>

(* The OpenSL ES build uses low latency mode, the ALSA build does not.     *)
LowLatency == plugin = "OpenSL"

(* What an operation does as far as this module can see: "plain" ones do   *)
(* not touch the sink, "throw" stands for those that end in a jException,  *)
(* "make" creates a sink machine, "kill" destroys it.                      *)
Ops == [caller : Callers, id : Nat, kind : Kinds, sync : BOOLEAN]

Running(op, from) == [frame |-> "op", op |-> op, from |-> from, at |-> "start"]
Dequeueing        == [frame |-> "dequeue", left |-> Kount]

Init ==
  /\ sink = NULL /\ lowlat = FALSE /\ mt = NULL /\ made = 0
  /\ lock = [owner |-> NULL, depth |-> 0] /\ tupla_p = 0
  /\ queue = <<>>
  /\ stack = [t \in Threads |-> <<>>]
  /\ pc = [c \in Callers |-> "idle"]
  /\ issued = [c \in Callers |-> 0]
  /\ started = [c \in Callers |-> 0]
  /\ apc = "look" /\ cur = NULL /\ last = NULL
  /\ plugin \in Plugins

-----------------------------------------------------------------------------
(* lock_machine_space and unlock_machine_space                             *)

CanEnter(t) == lock.owner \in {NULL, t}

(* A fault to detect: the monitor does not keep a second thread out.       *)
EnterAlways(t) ==
  /\ lock' = [owner |-> t, depth |-> lock.depth + 1]
  /\ tupla_p' = tupla_p + 1

Enter(t) ==
  /\ CanEnter(t)
  /\ lock' = [owner |-> t, depth |-> lock.depth + 1]
  /\ tupla_p' = tupla_p + 1

(* A fault to detect: the counter is not taken down.                       *)
LeaveUncounted(t) ==
  /\ UNCHANGED tupla_p
  /\ lock' = [owner |-> IF lock.depth = 1 THEN NULL ELSE t, depth |-> lock.depth - 1]

(* Below zero the thread prints "Complete failure." forever and does not   *)
(* leave. Leaving a monitor one does not own has no effect on it.          *)
Leave(t) ==
  /\ tupla_p' = tupla_p - 1
  /\ lock' = IF tupla_p' < 0 \/ lock.owner # t THEN lock
             ELSE [owner |-> IF lock.depth = 1 THEN NULL ELSE t,
                   depth |-> lock.depth - 1]

-----------------------------------------------------------------------------
(* machine_operation_enqueue                                               *)

(* Only callers that wait may be told of an exception; operations that are *)
(* not waited for (play, rewind, midi data) do not throw.                  *)
Request(c, kind, sync) ==
  /\ pc[c] = "idle" /\ issued[c] < MaxOps
  /\ sync \/ kind = "plain"
  /\ issued' = [issued EXCEPT ![c] = @ + 1]
  /\ LET op == [caller |-> c, id |-> issued'[c], kind |-> kind, sync |-> sync]
     IN \/ /\ sink = NULL \/ ~lowlat
           /\ Enter(c)
           /\ stack' = [stack EXCEPT ![c] = <<Running(op, "direct")>>]
           /\ started' = [started EXCEPT ![c] = op.id]
           /\ pc' = [pc EXCEPT ![c] = "direct"]
           /\ UNCHANGED queue
        \/ /\ sink # NULL /\ lowlat
           /\ CanEnter(c)
           /\ Len(queue) < MaxQueue
           /\ queue' = Append(queue, op)
           /\ pc' = [pc EXCEPT ![c] = IF sync THEN "wait" ELSE "idle"]
           /\ UNCHANGED <<lock_vars, stack, started>>
  /\ UNCHANGED <<graph_vars, audio_vars>>

(* The caller's own operation is over: unlock, then return or rethrow.     *)
DirectReturn(c) ==
  /\ pc[c] = "direct" /\ stack[c] = <<>>
  /\ Leave(c)
  /\ pc' = [pc EXCEPT ![c] = IF tupla_p' < 0 THEN "stuck" ELSE "idle"]
  /\ UNCHANGED <<graph_vars, queue, stack, issued, started, audio_vars>>

-----------------------------------------------------------------------------
(* machine_operation_dequeue, one step of its loop                         *)

Top(t) == Head(stack[t])

MayDequeue(f) == f.left > 0 /\ queue # <<>>

DequeueStep(t) ==
  /\ stack[t] # <<>> /\ Top(t).frame = "dequeue"
  /\ IF MayDequeue(Top(t))
     THEN LET op == Head(queue)
          IN /\ queue' = Tail(queue)
             /\ stack' = [stack EXCEPT ![t] =
                  <<Running(op, "queue"), [Top(t) EXCEPT !.left = @ - 1]>> \o Tail(@)]
             /\ started' = [started EXCEPT ![op.caller] = op.id]
     ELSE /\ stack' = [stack EXCEPT ![t] = Tail(@)]
          /\ UNCHANGED <<queue, started>>
  /\ UNCHANGED <<graph_vars, lock_vars, caller_vars, audio_vars>>

-----------------------------------------------------------------------------
(* The operations themselves                                               *)

InOp(t, kind, at) ==
  /\ stack[t] # <<>> /\ Top(t).frame = "op"
  /\ Top(t).op.kind = kind /\ Top(t).at = at

(* The operation ends, normally or with a jException; if it came from the  *)
(* queue and its caller waits, the synch object is triggered.              *)
Finish(t) ==
  LET f == Top(t)
  IN /\ stack' = [stack EXCEPT ![t] = Tail(@)]
     /\ pc' = IF f.from = "queue" /\ f.op.sync
              THEN [pc EXCEPT ![f.op.caller] = "idle"] ELSE pc
     /\ UNCHANGED <<issued, started>>

GoOn(t, at) ==
  /\ stack' = [stack EXCEPT ![t] = <<[Top(t) EXCEPT !.at = at]>> \o Tail(@)]
  /\ UNCHANGED <<pc, issued, started>>

PlainOp(t) ==
  /\ \E kind \in {"plain", "throw"} : InOp(t, kind, "start")
  /\ Finish(t)
  /\ UNCHANGED <<graph_vars, lock_vars, queue, audio_vars>>

(* A new sink machine: setup_dynamic_machine registers it as the sink,     *)
(* the plugin's init publishes its table, the constructor goes on.         *)
(* With a sink in place internal_register_sink throws.                     *)
MakeRefused(t) ==
  /\ InOp(t, "make", "start")
  /\ sink # NULL
  /\ Finish(t)
  /\ UNCHANGED <<graph_vars, lock_vars, queue, audio_vars>>

MakeRegister(t) ==
  /\ InOp(t, "make", "start")
  /\ sink = NULL
  /\ CanEnter(t)
  /\ \/ sink' = made + 1 /\ made' = made + 1
     \/ plugin \in Reuse /\ sink' \in 1..made /\ UNCHANGED made
  /\ GoOn(t, "init")
  /\ UNCHANGED <<lowlat, mt, lock_vars, queue, audio_vars>>

MakeInit(t) ==
  /\ InOp(t, "make", "init")
  /\ mt' = sink
  /\ GoOn(t, "rest")
  /\ UNCHANGED <<sink, lowlat, made, lock_vars, queue, audio_vars>>

MakeRest(t) ==
  /\ InOp(t, "make", "rest")
  /\ Finish(t)
  /\ UNCHANGED <<graph_vars, lock_vars, queue, audio_vars>>

(* The destruction of the sink. The delete of a low latency plugin calls   *)
(* deactivate_low_latency_mode, which takes the lock, clears the mode and  *)
(* empties the queue in the middle of this operation; then the plugin      *)
(* forgets the table and the machine is deregistered.                      *)
KillRefused(t) ==
  /\ InOp(t, "kill", "start")
  /\ sink = NULL
  /\ Finish(t)
  /\ UNCHANGED <<graph_vars, lock_vars, queue, audio_vars>>

(* A fault to detect: the queue is not emptied.                            *)
KillDeactivateOnly(t) ==
  /\ InOp(t, "kill", "start")
  /\ sink # NULL /\ LowLatency
  /\ Enter(t)
  /\ lowlat' = FALSE
  /\ GoOn(t, "deactivated")
  /\ UNCHANGED <<sink, mt, made, queue, audio_vars>>

KillDeactivate(t) ==
  /\ InOp(t, "kill", "start")
  /\ sink # NULL /\ LowLatency
  /\ Enter(t)
  /\ lowlat' = FALSE
  /\ stack' = [stack EXCEPT ![t] =
       <<Dequeueing, [Top(t) EXCEPT !.at = "deactivated"]>> \o Tail(@)]
  /\ UNCHANGED <<sink, mt, made, queue, pc, issued, started, audio_vars>>

KillForget(t) ==
  /\ InOp(t, "kill", "deactivated")
  /\ Leave(t)
  /\ mt' = NULL
  /\ GoOn(t, "deregister")
  /\ UNCHANGED <<sink, lowlat, made, queue, audio_vars>>

KillForgetOnly(t) ==
  /\ InOp(t, "kill", "start")
  /\ sink # NULL /\ ~LowLatency
  /\ mt' = NULL
  /\ GoOn(t, "deregister")
  /\ UNCHANGED <<sink, lowlat, made, lock_vars, queue, audio_vars>>

KillDeregister(t) ==
  /\ InOp(t, "kill", "deregister")
  /\ CanEnter(t)
  /\ sink' = NULL
  /\ Finish(t)
  /\ UNCHANGED <<lowlat, mt, made, lock_vars, queue, audio_vars>>

-----------------------------------------------------------------------------
(* The audio thread                                                        *)

AudioSkip == UNCHANGED <<queue, pc, issued, started, plugin>>

AudioLook ==
  /\ apc = "look"
  /\ cur' = mt
  /\ apc' = IF cur' = NULL THEN "look"
            ELSE IF LowLatency /\ cur' # last THEN "enable" ELSE "check"
  /\ UNCHANGED <<graph_vars, lock_vars, stack, last>> /\ AudioSkip

(* A fault to detect: the mode is turned on without the lock.              *)
AudioEnableUnlocked ==
  /\ apc = "enable"
  /\ lowlat' = TRUE
  /\ last' = cur
  /\ apc' = "check"
  /\ UNCHANGED <<sink, mt, made, lock_vars, stack, cur>> /\ AudioSkip

(* activate_low_latency_mode                                               *)
AudioEnable ==
  /\ apc = "enable"
  /\ CanEnter(audio)
  /\ lowlat' = TRUE
  /\ last' = cur
  /\ apc' = "check"
  /\ UNCHANGED <<sink, mt, made, lock_vars, stack, cur>> /\ AudioSkip

(* fill_this_sink reads sink, then low_latency_mode, holding no lock.      *)
AudioCheck ==
  /\ apc = "check"
  /\ apc' = IF sink # cur THEN "look" ELSE "mode"
  /\ UNCHANGED <<graph_vars, lock_vars, stack, cur, last>> /\ AudioSkip

AudioMode ==
  /\ apc = "mode"
  /\ apc' = IF lowlat THEN "render" ELSE "lock"
  /\ UNCHANGED <<graph_vars, lock_vars, stack, cur, last>> /\ AudioSkip

(* A fault to detect: the queue is not served after a rendering.           *)
AudioRenderedOnly ==
  /\ apc = "render"
  /\ apc' = "look"
  /\ UNCHANGED <<graph_vars, lock_vars, stack, cur, last>> /\ AudioSkip

AudioRendered ==
  /\ apc = "render"
  /\ apc' = "dequeue"
  /\ stack' = [stack EXCEPT ![audio] = <<Dequeueing>>]
  /\ UNCHANGED <<graph_vars, lock_vars, cur, last>> /\ AudioSkip

AudioDequeued ==
  /\ apc = "dequeue" /\ stack[audio] = <<>>
  /\ apc' = "look"
  /\ UNCHANGED <<graph_vars, lock_vars, stack, cur, last>> /\ AudioSkip

AudioLock ==
  /\ apc = "lock"
  /\ Enter(audio)
  /\ apc' = "fill"
  /\ UNCHANGED <<graph_vars, stack, cur, last>> /\ AudioSkip

AudioFilled ==
  /\ apc = "fill"
  /\ apc' = "unlock"
  /\ UNCHANGED <<graph_vars, lock_vars, stack, cur, last>> /\ AudioSkip

(* internal_fill_sink throws: the handler unlocks and does not return.     *)
AudioFillThrows ==
  /\ plugin \in RenderFails
  /\ apc = "fill"
  /\ Leave(audio)
  /\ apc' = IF tupla_p' < 0 THEN "stuck" ELSE "unlock"
  /\ UNCHANGED <<graph_vars, stack, cur, last>> /\ AudioSkip

AudioUnlock ==
  /\ apc = "unlock"
  /\ Leave(audio)
  /\ apc' = IF tupla_p' < 0 THEN "stuck" ELSE "look"
  /\ UNCHANGED <<graph_vars, stack, cur, last>> /\ AudioSkip

-----------------------------------------------------------------------------
Execute(t) ==
  \/ DequeueStep(t) \/ PlainOp(t)
  \/ MakeRefused(t) \/ MakeRegister(t) \/ MakeInit(t) \/ MakeRest(t)
  \/ KillRefused(t) \/ KillDeactivate(t) \/ KillForget(t) \/ KillForgetOnly(t)
  \/ KillDeregister(t)

Audio ==
  \/ AudioLook \/ AudioEnable \/ AudioCheck \/ AudioMode \/ AudioRendered
  \/ AudioDequeued \/ AudioLock \/ AudioFilled \/ AudioFillThrows \/ AudioUnlock

Next ==
  \/ \E c \in Callers, kind \in Kinds, sync \in BOOLEAN : Request(c, kind, sync)
  \/ \E c \in Callers : DirectReturn(c)
  \/ \E t \in Threads : Execute(t)
  \/ Audio

Spec == Init /\ [][Next]_vars

(* Threads that can go on do: the plugin's feeder thread loops forever.    *)
FairSpec ==
  /\ Spec
  /\ WF_vars(Audio)
  /\ \A t \in Threads : WF_vars(Execute(t))
  /\ \A c \in Callers : WF_vars(DirectReturn(c))

-----------------------------------------------------------------------------
(* Properties.                                                             *)

OpFrames(t) == {k \in DOMAIN stack[t] : stack[t][k].frame = "op"}

(* No operation is under way while the audio thread renders the chain, in  *)
(* either mode and through every change of mode and of sink: fill_this_    *)
(* sink, "In low latency mode we use the machine operation queue for       *)
(* synchronization", "If not in low latency mode, we use the machine space *)
(* lock".                                                                  *)
RenderAlone == apc \in {"render", "fill"} => \A t \in Threads : OpFrames(t) = {}

(* Two threads never execute operations at the same time: the lock and the *)
(* queue together admit one of them.                                       *)
OneExecutor == \A t, u \in Threads : OpFrames(t) # {} /\ OpFrames(u) # {} => t = u

(* The destruction of a low latency sink turns the mode off and unlocks    *)
(* before it is over. Until then, and after it, the switch between direct  *)
(* and queued execution never lets two threads execute operations at the   *)
(* same time.                                                              *)
TearingDown == \E t \in Threads : \E k \in OpFrames(t) :
                 stack[t][k].at \in {"deactivated", "deregister"}
OneExecutorBetweenSinks == (LowLatency /\ TearingDown) \/ OneExecutor

(* The operations of one caller start in the order it requested them,      *)
(* though some are queued and others run at once.                          *)
InOrder ==
  \A c \in Callers : \A k \in DOMAIN queue :
     queue[k].caller = c => started[c] < queue[k].id

(* unlock_machine_space does not meet its "Complete failure." branch: the  *)
(* counter agrees with the monitor, whichever way the mode and the sink    *)
(* change while the lock is held, as long as no rendering throws.          *)
LockIsCounted == plugin \notin RenderFails => tupla_p = lock.depth

(* Every caller that waits for its operation gets an answer.               *)
WaitersReturn == \A c \in Callers : pc[c] = "wait" ~> pc[c] # "wait"
=============================================================================
