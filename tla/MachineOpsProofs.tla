-------------------------- MODULE MachineOpsProofs --------------------------
(***************************************************************************)
(* Proofs about MachineOps: renderings and operations do not overlap, two  *)
(* threads do not execute operations at the same time, the operations of   *)
(* one caller start in order, and the lock is counted right.               *)
(*                                                                         *)
(* None of these is inductive.  The inductive invariant Inv says           *)
(*   - what a thread's stack may look like: operations and dequeues take   *)
(*     turns, and a dequeue below which there is a frame was started by a  *)
(*     kill in the middle of deactivate_low_latency_mode (ShapeInv);       *)
(*   - how often a thread with such a stack has entered the monitor        *)
(*     (LockInv) and that the counter agrees (CountInv);                   *)
(*   - that a sink which switched to low latency mode keeps every caller   *)
(*     from executing operations until it is torn down (ModeInv), that one *)
(*     which does not never leaves the lock's discipline (PlainInv);       *)
(*   - when the queue must be empty (QueueInv);                            *)
(*   - that what is queued is younger than what has begun (OrderInv), and  *)
(*     whom each awaited operation belongs to (WaitInv).                   *)
(*                                                                         *)
(* The step from one state to the next is proved per action; the actions   *)
(* that change a stack share the lemmas on what Pop, Retop, Push and Begin *)
(* do to it.                                                               *)
(***************************************************************************)
EXTENDS MachineOps, TLAPS, SequenceTheorems

(* What a thread can be in the middle of.                                  *)
Frame == [frame : {"op"}, op : Ops, from : {"direct", "queue"},
          at : {"start", "init", "rest", "deactivated", "deregister"}]
         \cup [frame : {"dequeue"}, left : Nat]

(* The addresses of the sinks made so far.                                 *)
Addresses == 1..made \cup {NULL}

TypeInv ==
  /\ made \in Nat
  /\ sink \in Addresses /\ mt \in Addresses /\ cur \in Addresses /\ last \in Addresses
  /\ lowlat \in BOOLEAN
  /\ lock \in [owner : Threads \cup {NULL}, depth : Nat]
  /\ tupla_p \in Int
  /\ queue \in Seq(Ops) /\ Len(queue) =< MaxQueue
  /\ stack \in [Threads -> Seq(Frame)]
  /\ pc \in [Callers -> {"idle", "direct", "wait", "stuck"}]
  /\ issued \in [Callers -> Nat]
  /\ started \in [Callers -> Nat]
  /\ apc \in {"look", "enable", "check", "mode", "render", "dequeue", "lock",
              "fill", "unlock", "stuck"}
  /\ plugin \in Plugins

IsOp(t, k) == stack[t][k].frame = "op"

(* Frame k of t: an operation is what the dequeue below it runs, or the    *)
(* caller's own at the bottom; a dequeue that is not at the bottom belongs *)
(* to a kill, and may take all that is queued; at the bottom is only the   *)
(* one of the audio thread after a rendering.                              *)
ShapeAt(t, k) ==
  /\ IsOp(t, k) => /\ k < Len(stack[t]) => ~IsOp(t, k + 1)
                   /\ k >= Len(stack[t]) => t # audio
                   /\ stack[t][k].from = "direct" <=> k >= Len(stack[t])
  /\ ~IsOp(t, k) => /\ k < Len(stack[t]) => /\ IsOp(t, k + 1)
                                            /\ stack[t][k + 1].at = "deactivated"
                                            /\ Len(queue) =< stack[t][k].left
                    /\ k >= Len(stack[t]) => t = audio

ShapeInv == \A t \in Threads : \A k \in 1..Len(stack[t]) : ShapeAt(t, k)

(* t empties the queue in the middle of a kill; the kill on top of its     *)
(* stack has emptied it; either way t is tearing the sink down.            *)
Draining(t) == Len(stack[t]) > 2 \/ (t # audio /\ Len(stack[t]) > 1)
Drained(t) == stack[t] # <<>> /\ IsOp(t, 1) /\ stack[t][1].at \in {"deactivated", "deregister"}
Torn(t) == Draining(t) \/ Drained(t)

(* Twice the number of enters t has not left: its own operation is one,    *)
(* and each kill that empties the queue, every second frame, another.      *)
Owed(t) ==
  IF stack[t] = <<>> THEN IF t = audio THEN 0 ELSE 2
  ELSE LET n == IF t = audio THEN Len(stack[t]) - 2 ELSE Len(stack[t]) + 1
       IN  IF ~IsOp(t, 1) THEN n + 1
           ELSE IF stack[t][1].at = "deactivated" THEN n + 2 ELSE n

(* Who executes operations has the lock, as often as its stack says, and   *)
(* only the audio thread, after a rendering, may execute without it.       *)
LockInv ==
  /\ lock.depth = 0 <=> lock.owner = NULL
  /\ \A c \in Callers :
       /\ stack[c] # <<>> => pc[c] = "direct"
       /\ pc[c] = "direct" => lock.owner = c /\ 2 * lock.depth = Owed(c)
       /\ lock.owner = c => pc[c] \in {"direct", "stuck"}
  /\ stack[audio] # <<>> => apc = "dequeue"
  /\ Owed(audio) > 0 => lock.owner = audio /\ 2 * lock.depth = Owed(audio)
  /\ lock.owner = audio => Owed(audio) > 0 \/ apc \in {"fill", "unlock", "stuck"}
  /\ apc = "fill" => lock.owner = audio
  /\ lock.owner = audio /\ ~(Owed(audio) > 0) => lock.depth = 1

(* tupla_p agrees with the monitor until a rendering throws.               *)
CountInv ==
  LowLatency \/ plugin \notin RenderFails =>
    /\ tupla_p = lock.depth
    /\ apc = "unlock" => lock.owner = audio /\ lock.depth = 1
    /\ apc # "stuck" /\ \A c \in Callers : pc[c] # "stuck"

(* The ALSA build: no mode, no queue, one frame per caller.                *)
PlainInv ==
  ~LowLatency =>
    /\ ~lowlat /\ queue = <<>> /\ stack[audio] = <<>>
    /\ apc \notin {"enable", "render", "dequeue"}
    /\ \A c \in Callers : Owed(c) = 2

(* The OpenSL build: once the sink is the one whose mode was enabled, no   *)
(* caller executes anything until the audio thread tears it down; and the  *)
(* audio thread only empties the queue of such a sink.                     *)
ModeInv ==
  LowLatency =>
    /\ apc \notin {"lock", "fill", "unlock", "stuck"}
    /\ apc = "enable" => cur # NULL
    /\ apc \in {"check", "mode", "render", "dequeue"} => cur # NULL /\ cur = last
    /\ apc \in {"mode", "render"} => sink = cur
    /\ sink # NULL /\ sink = last =>
         Torn(audio) \/ (lowlat /\ \A c \in Callers : stack[c] = <<>>)
    /\ stack[audio] # <<>> /\ ~Torn(audio) =>
         \/ sink # NULL /\ sink = last
         \/ ~lowlat /\ queue = <<>> /\ Len(stack[audio]) =< 1

(* The mode is off while something is queued only as long as a kill is     *)
(* emptying the queue.                                                     *)
QueueInv ==
  /\ sink = NULL => queue = <<>>
  /\ queue # <<>> /\ ~lowlat => \E t \in Threads : lock.owner = t /\ Draining(t)
  /\ \A t \in Threads :
       /\ Torn(t) => ~lowlat
       /\ Drained(t) => queue = <<>>

(* The operations on the stacks have begun.                                *)
Begun == \A t \in Threads : \A k \in 1..Len(stack[t]) :
           IsOp(t, k) => stack[t][k].op.id =< started[stack[t][k].op.caller]

(* What is queued is younger than what has begun, and in order.            *)
OrderInv ==
  /\ InOrder
  /\ \A c \in Callers : started[c] =< issued[c]
  /\ \A k \in 1..Len(queue) :
       /\ queue[k].id =< issued[queue[k].caller]
       /\ \A j \in 1..Len(queue) :
             j < k /\ queue[j].caller = queue[k].caller => queue[j].id < queue[k].id
  /\ Begun

(* Frame k of t executes a queued operation that c waits for.              *)
Waited(t, k, c) ==
  /\ IsOp(t, k) /\ stack[t][k].from = "queue"
  /\ stack[t][k].op.sync /\ stack[t][k].op.caller = c

(* An operation that is waited for is its caller's last one, and it is in  *)
(* one place only.                                                         *)
WaitInv ==
  \A c \in Callers :
    /\ \A k \in 1..Len(queue) :
          queue[k].sync /\ queue[k].caller = c => pc[c] = "wait" /\ queue[k].id = issued[c]
    /\ \A t \in Threads : \A k \in 1..Len(stack[t]) :
          Waited(t, k, c) =>
            /\ pc[c] = "wait" /\ stack[t][k].op.id = issued[c]
            /\ \A u \in Threads : \A j \in 1..Len(stack[u]) :
                 Waited(u, j, c) => u = t /\ j = k

Inv == TypeInv /\ ShapeInv /\ LockInv /\ CountInv /\ PlainInv /\ ModeInv /\ QueueInv /\ OrderInv /\ WaitInv

-----------------------------------------------------------------------------
(* What happens to a stack                                                 *)

LEMMA NoFrames ==
  ASSUME NEW S, NEW s \in Seq(S)
  PROVE  (s = <<>> <=> Len(s) = 0) /\ Len(s) \in Nat
  OBVIOUS

LEMMA Popped ==
  ASSUME NEW S, NEW s \in Seq(S), s # <<>>
  PROVE  /\ Tail(s) \in Seq(S) /\ Len(Tail(s)) = Len(s) - 1
         /\ \A k \in 1..(Len(s) - 1) : Tail(s)[k] = s[k + 1]
         /\ Head(s) = s[1] /\ s[1] \in S /\ Len(s) \in Nat \ {0}
  OBVIOUS

LEMMA Retopped ==
  ASSUME NEW S, NEW s \in Seq(S), s # <<>>, NEW f \in S
  PROVE  /\ <<f>> \o Tail(s) \in Seq(S) /\ Len(<<f>> \o Tail(s)) = Len(s)
         /\ (<<f>> \o Tail(s))[1] = f
         /\ \A k \in 2..Len(s) : (<<f>> \o Tail(s))[k] = s[k]
  OBVIOUS

LEMMA Pushed ==
  ASSUME NEW S, NEW s \in Seq(S), s # <<>>, NEW f \in S, NEW g \in S
  PROVE  /\ <<f, g>> \o Tail(s) \in Seq(S)
         /\ Len(<<f, g>> \o Tail(s)) = Len(s) + 1
         /\ (<<f, g>> \o Tail(s))[1] = f /\ (<<f, g>> \o Tail(s))[2] = g
         /\ \A k \in 3..(Len(s) + 1) : (<<f, g>> \o Tail(s))[k] = s[k - 1]
  OBVIOUS

(* The frame of an operation that has come to another point, and the one   *)
(* of a dequeue that may take one operation less.                          *)
Moved(f, a) == [f EXCEPT !.at = a]
Counted(f) == [f EXCEPT !.left = @ - 1]

LEMMA OpFrame ==
  ASSUME NEW f \in Frame, f.frame = "op",
         NEW a \in {"start", "init", "rest", "deactivated", "deregister"}
  PROVE  /\ Moved(f, a) \in Frame /\ Moved(f, a).frame = "op" /\ Moved(f, a).at = a
         /\ Moved(f, a).op = f.op /\ Moved(f, a).from = f.from
         /\ f.op \in Ops /\ f.from \in {"direct", "queue"}
  BY DEF Frame, Moved

LEMMA DequeueFrame ==
  ASSUME NEW f \in Frame, f.frame = "dequeue"
  PROVE  /\ f.left \in Nat
         /\ f.left > 0 => /\ Counted(f) \in Frame /\ Counted(f).frame = "dequeue"
                          /\ Counted(f).left = f.left - 1
  BY DEF Frame, Counted

LEMMA NewFrames ==
  /\ Dequeueing \in Frame /\ Dequeueing.frame = "dequeue" /\ Dequeueing.left = Kount
  /\ \A op \in Ops, from \in {"direct", "queue"} :
        LET f == Running(op, from)
        IN  f \in Frame /\ f.frame = "op" /\ f.op = op /\ f.from = from /\ f.at = "start"
  BY OpsAssumption DEF Frame, Dequeueing, Running

(* The ways an executing thread changes its stack.                   *)
Pop(t) == stack' = [stack EXCEPT ![t] = Tail(@)]
Retop(t, f) == stack' = [stack EXCEPT ![t] = <<f>> \o Tail(@)]
Begin(t, f) == stack' = [stack EXCEPT ![t] = <<f>>]
Push(t, f, g) == stack' = [stack EXCEPT ![t] = <<f, g>> \o Tail(@)]

LEMMA PopView ==
  ASSUME TypeInv, NEW t \in Threads, stack[t] # <<>>, Pop(t)
  PROVE  /\ stack' \in [Threads -> Seq(Frame)]
         /\ \A u \in Threads \ {t} : stack'[u] = stack[u]
         /\ Len(stack[t]) \in Nat \ {0} /\ Len(stack'[t]) = Len(stack[t]) - 1
         /\ stack'[t] = <<>> <=> Len(stack[t]) = 1
         /\ \A k \in 1..Len(stack'[t]) : stack'[t][k] = stack[t][k + 1]
         /\ Head(stack[t]) = stack[t][1] /\ stack[t][1] \in Frame
<1> DEFINE s == stack[t]
<1>1. s \in Seq(Frame) /\ stack'[t] = Tail(s)
  BY DEF TypeInv, Pop
<1> DEFINE r == Tail(s)
<1>2. /\ r \in Seq(Frame) /\ Len(r) = Len(s) - 1
      /\ \A k \in 1..(Len(s) - 1) : r[k] = s[k + 1]
      /\ Len(s) \in Nat \ {0} /\ Head(s) = s[1] /\ s[1] \in Frame
  BY <1>1, Popped
<1>3. r = <<>> <=> Len(r) = 0
  BY <1>2, NoFrames
<1>4. \A u \in Threads \ {t} : stack'[u] = stack[u]
  BY DEF TypeInv, Pop
<1>5. stack' \in [Threads -> Seq(Frame)]
  BY <1>1, <1>2 DEF TypeInv, Pop
<1>6. Len(stack'[t]) = Len(s) - 1 /\ (stack'[t] = <<>> <=> Len(s) = 1)
  <2> HIDE DEF r, s
  <2> QED BY <1>1, <1>2, <1>3
<1>7. \A k \in 1..Len(stack'[t]) : stack'[t][k] = s[k + 1]
  <2> HIDE DEF r, s
  <2> QED BY <1>1, <1>2
<1> QED BY <1>2, <1>4, <1>5, <1>6, <1>7

LEMMA RetopView ==
  ASSUME TypeInv, NEW t \in Threads, stack[t] # <<>>, NEW f \in Frame, Retop(t, f)
  PROVE  /\ stack' \in [Threads -> Seq(Frame)]
         /\ \A u \in Threads \ {t} : stack'[u] = stack[u]
         /\ Len(stack[t]) \in Nat \ {0} /\ Len(stack'[t]) = Len(stack[t])
         /\ stack'[t] # <<>> /\ stack'[t][1] = f
         /\ \A k \in 2..Len(stack[t]) : stack'[t][k] = stack[t][k]
         /\ Head(stack[t]) = stack[t][1] /\ stack[t][1] \in Frame
<1> DEFINE s == stack[t]
           r == <<f>> \o Tail(s)
<1>1. s \in Seq(Frame) /\ stack'[t] = r
  BY DEF TypeInv, Retop
<1>2. r \in Seq(Frame) /\ Len(r) = Len(s) /\ r[1] = f /\ \A k \in 2..Len(s) : r[k] = s[k]
  BY <1>1, Retopped
<1>3. Len(s) \in Nat \ {0} /\ Head(s) = s[1] /\ s[1] \in Frame
  BY <1>1, Popped
<1>4. \A u \in Threads \ {t} : stack'[u] = stack[u]
  BY DEF TypeInv, Retop
<1>5. DOMAIN stack' = Threads /\ stack' \in [Threads -> Seq(Frame)]
  BY <1>1, <1>2 DEF TypeInv, Retop
<1> HIDE DEF r
<1> QED BY <1>1, <1>2, <1>3, <1>4, <1>5

LEMMA PushView ==
  ASSUME TypeInv, NEW t \in Threads, stack[t] # <<>>, NEW f \in Frame, NEW g \in Frame,
         Push(t, f, g)
  PROVE  /\ stack' \in [Threads -> Seq(Frame)]
         /\ \A u \in Threads \ {t} : stack'[u] = stack[u]
         /\ Len(stack[t]) \in Nat \ {0} /\ Len(stack'[t]) = Len(stack[t]) + 1
         /\ stack'[t] # <<>> /\ stack'[t][1] = f /\ stack'[t][2] = g
         /\ \A k \in 3..Len(stack'[t]) : stack'[t][k] = stack[t][k - 1]
         /\ Head(stack[t]) = stack[t][1] /\ stack[t][1] \in Frame
<1> DEFINE s == stack[t]
           r == <<f, g>> \o Tail(s)
<1>1. s \in Seq(Frame) /\ stack'[t] = r
  BY DEF TypeInv, Push
<1>2. /\ r \in Seq(Frame) /\ Len(r) = Len(s) + 1 /\ r[1] = f /\ r[2] = g
      /\ \A k \in 3..(Len(s) + 1) : r[k] = s[k - 1]
  BY <1>1, Pushed
<1>3. Len(s) \in Nat \ {0} /\ Head(s) = s[1] /\ s[1] \in Frame
  BY <1>1, Popped
<1>4. \A u \in Threads \ {t} : stack'[u] = stack[u]
  BY DEF TypeInv, Push
<1>5. DOMAIN stack' = Threads /\ stack' \in [Threads -> Seq(Frame)]
  BY <1>1, <1>2 DEF TypeInv, Push
<1> HIDE DEF r
<1> QED BY <1>1, <1>2, <1>3, <1>4, <1>5

LEMMA BeginView ==
  ASSUME TypeInv, NEW t \in Threads, NEW f \in Frame, Begin(t, f)
  PROVE  /\ stack' \in [Threads -> Seq(Frame)]
         /\ \A u \in Threads \ {t} : stack'[u] = stack[u]
         /\ stack'[t] # <<>> /\ Len(stack'[t]) = 1 /\ stack'[t][1] = f
<1>1. stack'[t] = <<f>> /\ \A u \in Threads \ {t} : stack'[u] = stack[u]
  BY DEF TypeInv, Begin
<1>2. <<f>> \in Seq(Frame) /\ <<f>> # <<>> /\ Len(<<f>>) = 1 /\ <<f>>[1] = f
  OBVIOUS
<1>3. stack' \in [Threads -> Seq(Frame)]
  BY <1>2 DEF TypeInv, Begin
<1> QED BY <1>1, <1>2, <1>3

-----------------------------------------------------------------------------
(* The shape of the stacks                                                 *)

LEMMA ShapePop ==
  ASSUME TypeInv, ShapeInv, NEW t \in Threads, stack[t] # <<>>, Pop(t), queue' = queue
  PROVE  ShapeInv'
<1> SUFFICES ASSUME NEW u \in Threads, NEW k \in 1..Len(stack'[u])
             PROVE  (ShapeAt(u, k))'
  BY DEF ShapeInv
<1>1. CASE u # t
  BY <1>1, PopView DEF ShapeInv, ShapeAt, IsOp
<1>2. CASE u = t
  <2>1. k + 1 \in 1..Len(stack[t]) /\ stack'[t][k] = stack[t][k + 1]
    BY <1>2, PopView
  <2>2. k < Len(stack'[t]) => stack'[t][k + 1] = stack[t][(k + 1) + 1]
    BY <1>2, PopView
  <2>3. k < Len(stack'[t]) <=> k + 1 < Len(stack[t])
    BY <1>2, PopView
  <2>4. k >= Len(stack'[t]) <=> k + 1 >= Len(stack[t])
    BY <1>2, PopView
  <2>5. ShapeAt(t, k + 1)
    BY <2>1 DEF ShapeInv
  <2> QED BY <1>2, <2>1, <2>2, <2>3, <2>4, <2>5 DEF ShapeAt, IsOp
<1> QED BY <1>1, <1>2

LEMMA ShapeRetop ==
  ASSUME TypeInv, ShapeInv, NEW t \in Threads, stack[t] # <<>>, IsOp(t, 1),
         NEW f \in Frame, f.frame = "op", f.from = stack[t][1].from,
         Retop(t, f), queue' = queue
  PROVE  ShapeInv'
<1> SUFFICES ASSUME NEW u \in Threads, NEW k \in 1..Len(stack'[u])
             PROVE  (ShapeAt(u, k))'
  BY DEF ShapeInv
<1>1. ShapeAt(u, k) /\ Len(stack'[u]) = Len(stack[u])
  BY RetopView DEF ShapeInv
<1>2. CASE u # t
  BY <1>2, <1>1, RetopView DEF ShapeAt, IsOp
<1>3. CASE u = t
  <2>1. k < Len(stack[t]) => stack'[t][k + 1] = stack[t][k + 1]
    <3>1. k < Len(stack[t]) => k + 1 \in 2..Len(stack[t])
      BY <1>1, <1>3, RetopView
    <3> QED BY <3>1, RetopView
  <2>2. CASE k = 1
    BY <1>1, <1>3, <2>1, <2>2, RetopView DEF ShapeAt, IsOp
  <2>3. CASE k # 1
    <3>1. stack'[t][k] = stack[t][k]
      BY <1>3, <2>3, RetopView
    <3> QED BY <1>1, <1>3, <2>1, <3>1 DEF ShapeAt, IsOp
  <2> QED BY <2>2, <2>3
<1> QED BY <1>2, <1>3

(* machine_operation_dequeue begins an operation.                          *)
LEMMA ShapePushOp ==
  ASSUME TypeInv, ShapeInv, NEW t \in Threads, stack[t] # <<>>, ~IsOp(t, 1),
         NEW f \in Frame, f.frame = "op", f.from = "queue",
         NEW g \in Frame, g.frame = "dequeue", g.left = stack[t][1].left - 1,
         stack[t][1].left \in Nat, Push(t, f, g),
         Len(queue') \in Nat, Len(queue') = Len(queue) - 1
  PROVE  ShapeInv'
<1> SUFFICES ASSUME NEW u \in Threads, NEW k \in 1..Len(stack'[u])
             PROVE  (ShapeAt(u, k))'
  BY DEF ShapeInv
<1>a. \A v \in Threads, j \in Nat : j \in 1..Len(stack[v]) /\ ~IsOp(v, j) => stack[v][j].left \in Nat
  <2> SUFFICES ASSUME NEW v \in Threads, NEW j \in 1..Len(stack[v]), ~IsOp(v, j)
               PROVE  stack[v][j].left \in Nat
    OBVIOUS
  <2>1. stack[v][j] \in Frame
    BY DEF TypeInv
  <2>2. stack[v][j].frame = "dequeue"
    BY <2>1 DEF Frame, IsOp
  <2> QED BY <2>1, <2>2, DequeueFrame
<1>b. Len(queue) \in Nat
  BY DEF TypeInv
<1>2. CASE u # t
  <2>1. ShapeAt(u, k) /\ stack'[u] = stack[u] /\ k \in 1..Len(stack[u])
    BY <1>2, PushView DEF ShapeInv
  <2> QED BY <2>1, <1>a, <1>b DEF ShapeAt, IsOp
<1>3. CASE u = t
  <2>1. CASE k = 1
    BY <1>3, <2>1, PushView DEF ShapeAt, IsOp
  <2>2. CASE k = 2
    <3>1. ShapeAt(t, k - 1)
      BY <2>2, PushView DEF ShapeInv
    <3>2. k < Len(stack'[t]) => stack'[t][k + 1] = stack[t][(k - 1) + 1]
      BY <2>2, PushView
    <3>3. stack'[t][k] = g /\ k - 1 = 1
      BY <2>2, PushView
    <3>4. /\ Len(stack[t]) \in Nat \ {0} /\ Len(stack'[t]) = Len(stack[t]) + 1
          /\ ~IsOp(t, k)' /\ ~IsOp(t, k - 1)
      BY <2>2, <3>3, PushView DEF IsOp
    <3>5. k < Len(stack'[t]) =>
            /\ IsOp(t, k + 1)' /\ stack'[t][k + 1].at = "deactivated"
            /\ Len(queue') =< stack'[t][k].left
      <4> SUFFICES ASSUME k < Len(stack'[t])
                   PROVE  /\ IsOp(t, k + 1)' /\ stack'[t][k + 1].at = "deactivated"
                          /\ Len(queue') =< stack'[t][k].left
        OBVIOUS
      <4>1. k - 1 < Len(stack[t])
        BY <2>2, <3>4
      <4>2. /\ IsOp(t, (k - 1) + 1) /\ stack[t][(k - 1) + 1].at = "deactivated"
            /\ Len(queue) =< stack[t][k - 1].left
        BY <3>1, <3>4, <4>1 DEF ShapeAt
      <4>3. Len(queue') =< g.left
        BY <1>b, <3>3, <4>2
      <4> QED BY <3>2, <3>3, <4>2, <4>3 DEF IsOp
    <3>6. k >= Len(stack'[t]) => t = audio
      BY <2>2, <3>1, <3>4 DEF ShapeAt
    <3> QED BY <1>3, <3>4, <3>5, <3>6 DEF ShapeAt
  <2>3. CASE k > 2
    <3>1. k - 1 \in 1..Len(stack[t]) /\ stack'[t][k] = stack[t][k - 1]
      BY <1>3, <2>3, PushView
    <3>2. k < Len(stack'[t]) => stack'[t][k + 1] = stack[t][(k - 1) + 1]
      <4>1. k < Len(stack'[t]) => k + 1 \in 3..Len(stack'[t])
        BY <1>3, <2>3, PushView
      <4>2. (k + 1) - 1 = (k - 1) + 1
        OBVIOUS
      <4> QED BY <4>1, <4>2, PushView
    <3>3. ShapeAt(t, k - 1)
      BY <3>1 DEF ShapeInv
    <3>4. (k < Len(stack'[t]) <=> k - 1 < Len(stack[t])) /\ (k >= Len(stack'[t]) <=> k - 1 >= Len(stack[t]))
      BY <1>3, PushView
    <3>5. ~IsOp(t, k - 1) => stack[t][k - 1].left \in Nat
      BY <3>1, <1>a
    <3>6. /\ IsOp(t, k)' <=> IsOp(t, k - 1)
          /\ k < Len(stack'[t]) => (IsOp(t, k + 1)' <=> IsOp(t, (k - 1) + 1))
      BY <3>1, <3>2 DEF IsOp
    <3>7. CASE IsOp(t, k - 1)
      BY <1>3, <3>1, <3>2, <3>3, <3>4, <3>6, <3>7 DEF ShapeAt
    <3>8. CASE ~IsOp(t, k - 1)
      <4>1. k < Len(stack'[t]) => Len(queue) =< stack[t][k - 1].left
        BY <3>3, <3>4, <3>8 DEF ShapeAt
      <4>2. k < Len(stack'[t]) => Len(queue') =< stack'[t][k].left
        <5>1. PICK x, y, z : x = stack[t][k - 1].left /\ y = Len(queue) /\ z = Len(queue')
          OBVIOUS
        <5>2. x \in Nat /\ y \in Nat /\ z \in Nat /\ z = y - 1 /\ stack'[t][k].left = x
          BY <1>b, <3>1, <3>5, <3>8, <5>1
        <5> QED BY <4>1, <5>1, <5>2
      <4> QED BY <1>3, <3>1, <3>2, <3>3, <3>4, <3>6, <3>8, <4>2 DEF ShapeAt
    <3> QED BY <3>7, <3>8
  <2> QED BY <2>1, <2>2, <2>3
<1> QED BY <1>2, <1>3

(* deactivate_low_latency_mode begins to empty the queue.                  *)
LEMMA ShapePushDequeue ==
  ASSUME TypeInv, ShapeInv, MaxQueue =< Kount,
         NEW t \in Threads, stack[t] # <<>>, IsOp(t, 1),
         NEW g \in Frame, g.frame = "op", g.at = "deactivated", g.from = stack[t][1].from,
         Push(t, Dequeueing, g), queue' = queue
  PROVE  ShapeInv'
<1> SUFFICES ASSUME NEW u \in Threads, NEW k \in 1..Len(stack'[u])
             PROVE  (ShapeAt(u, k))'
  BY DEF ShapeInv
<1> DEFINE d == Dequeueing
<1>1. d \in Frame /\ d.frame = "dequeue" /\ Len(queue) =< d.left
  BY NewFrames, OpsAssumption DEF TypeInv
<1> HIDE DEF d
<1>2. CASE u # t
  <2>1. ShapeAt(u, k) /\ stack'[u] = stack[u]
    BY <1>1, <1>2, PushView DEF ShapeInv, d
  <2> QED BY <2>1 DEF ShapeAt, IsOp
<1>3. CASE u = t
  <2>0. /\ Len(stack[t]) \in Nat \ {0} /\ Len(stack'[t]) = Len(stack[t]) + 1
        /\ stack'[t][1] = d /\ stack'[t][2] = g
        /\ \A j \in 3..Len(stack'[t]) : stack'[t][j] = stack[t][j - 1]
    BY <1>1, PushView DEF d
  <2>1. CASE k = 1
    BY <1>1, <1>3, <2>0, <2>1 DEF ShapeAt, IsOp
  <2>2. CASE k = 2
    <3>1. ShapeAt(t, k - 1)
      BY <2>0, <2>2 DEF ShapeInv
    <3>2. k < Len(stack'[t]) => stack'[t][k + 1] = stack[t][(k - 1) + 1]
      <4>1. k + 1 = 3 /\ (k - 1) + 1 = 2 /\ 3 - 1 = 2
        BY <2>2
      <4>2. k < Len(stack'[t]) => 3 \in 3..Len(stack'[t])
        BY <2>0, <2>2
      <4>3. 3 \in 3..Len(stack'[t]) => stack'[t][3] = stack[t][3 - 1]
        BY <2>0
      <4> QED BY <4>1, <4>2, <4>3
    <3>3. stack'[t][k] = g /\ k - 1 = 1
      BY <2>0, <2>2
    <3> QED BY <1>3, <2>0, <3>1, <3>2, <3>3 DEF ShapeAt, IsOp
  <2>3. CASE k > 2
    <3>1. k - 1 \in 1..Len(stack[t]) /\ stack'[t][k] = stack[t][k - 1]
      BY <1>3, <2>3, <2>0
    <3>2. k < Len(stack'[t]) => stack'[t][k + 1] = stack[t][(k - 1) + 1]
      <4>1. k < Len(stack'[t]) => k + 1 \in 3..Len(stack'[t])
        BY <1>3, <2>3, <2>0
      <4>2. (k + 1) - 1 = (k - 1) + 1
        OBVIOUS
      <4> QED BY <4>1, <4>2, <2>0
    <3>3. ShapeAt(t, k - 1)
      BY <3>1 DEF ShapeInv
    <3>4. (k < Len(stack'[t]) <=> k - 1 < Len(stack[t])) /\ (k >= Len(stack'[t]) <=> k - 1 >= Len(stack[t]))
      BY <1>3, <2>0
    <3> QED BY <1>3, <3>1, <3>2, <3>3, <3>4 DEF ShapeAt, IsOp
  <2> QED BY <2>1, <2>2, <2>3
<1> QED BY <1>2, <1>3

(* A thread with nothing under way begins: a caller with its own operation, *)
(* the audio thread with the queue.                                        *)
LEMMA ShapeBegin ==
  ASSUME TypeInv, ShapeInv, NEW t \in Threads, NEW f \in Frame, Begin(t, f), queue' = queue,
         \/ f.frame = "op" /\ f.from = "direct" /\ t # audio
         \/ f.frame = "dequeue" /\ t = audio
  PROVE  ShapeInv'
<1> SUFFICES ASSUME NEW u \in Threads, NEW k \in 1..Len(stack'[u])
             PROVE  (ShapeAt(u, k))'
  BY DEF ShapeInv
<1>1. CASE u # t
  <2>1. stack'[u] = stack[u]
    BY <1>1, BeginView
  <2> QED BY <2>1 DEF ShapeInv, ShapeAt, IsOp
<1>2. CASE u = t
  <2>1. Len(stack'[t]) = 1 /\ stack'[t][1] = f
    BY BeginView
  <2>2. k = 1
    BY <1>2, <2>1
  <2> QED BY <1>2, <2>1, <2>2 DEF ShapeAt, IsOp
<1> QED BY <1>1, <1>2

(* While the queue grows no thread is emptying it in the middle of a kill. *)
LEMMA ShapeEnqueue ==
  ASSUME TypeInv, ShapeInv, stack' = stack, \A t \in Threads : ~Draining(t)
  PROVE  ShapeInv'
<1> SUFFICES ASSUME NEW u \in Threads, NEW k \in 1..Len(stack[u])
             PROVE  (ShapeAt(u, k))'
  BY DEF ShapeInv
<1>1. Len(stack[u]) \in Nat /\ ShapeAt(u, k)
  BY DEF TypeInv, ShapeInv
<1>2. k < Len(stack[u]) => IsOp(u, k)
  <2> SUFFICES ASSUME k < Len(stack[u]), ~IsOp(u, k) PROVE FALSE
    OBVIOUS
  <2>1. ~Draining(u) /\ Len(stack[u]) > 1
    BY <1>1
  <2>2. u = audio /\ k = 1 /\ ~(2 < Len(stack[u])) /\ 2 \in 1..Len(stack[u])
    BY <1>1, <2>1 DEF Draining
  <2>3. ShapeAt(u, 2)
    BY <2>2 DEF ShapeInv
  <2> QED BY <1>1, <2>2, <2>3 DEF ShapeAt
<1> QED BY <1>1, <1>2 DEF ShapeAt, IsOp

-----------------------------------------------------------------------------
(* What the other invariants see of a stack                                *)

Same(u) ==
  /\ stack'[u] = <<>> <=> stack[u] = <<>>
  /\ Owed(u)' = Owed(u)
  /\ Draining(u)' <=> Draining(u)
  /\ Drained(u)' <=> Drained(u)

LEMMA SameStack ==
  ASSUME NEW u, stack'[u] = stack[u]
  PROVE  Same(u)
  BY DEF Same, Owed, Draining, Drained, IsOp

LEMMA OwedIsInt ==
  ASSUME TypeInv, NEW t \in Threads
  PROVE  /\ Owed(t) \in Int /\ Len(stack[t]) \in Nat
         /\ stack[t] = <<>> <=> Len(stack[t]) < 1
         /\ Draining(t) => Owed(t) > 0
         /\ t # audio => Owed(t) > 1
<1> DEFINE n == Len(stack[t])
<1>1. n \in Nat /\ (stack[t] = <<>> <=> n = 0)
  BY NoFrames DEF TypeInv
<1> HIDE DEF n
<1>2. stack[t] = <<>> <=> n < 1
  BY <1>1
<1>3. Owed(t) \in Int /\ (t # audio => Owed(t) > 1)
  BY <1>1 DEF Owed, n
<1>4. Draining(t) => Owed(t) > 0
  BY <1>1 DEF Owed, Draining, n
<1> QED BY <1>1, <1>2, <1>3, <1>4 DEF n

(* The operation on top ends.                                              *)
LEMMA AfterFinish ==
  ASSUME TypeInv, ShapeInv, NEW t \in Threads, stack[t] # <<>>, IsOp(t, 1),
         stack[t][1].at # "deactivated", Pop(t)
  PROVE  /\ \A u \in Threads \ {t} : Same(u)
         /\ Owed(t)' = Owed(t)
         /\ Draining(t)' <=> Draining(t)
         /\ ~Drained(t)'
         /\ t = audio => stack'[t] # <<>>
         /\ stack'[t] = <<>> => t # audio
         /\ t = audio /\ ~Draining(t) => Len(stack'[t]) =< 1
<1>1. \A u \in Threads \ {t} : Same(u)
  BY PopView, SameStack
<1> DEFINE n == Len(stack[t])
<1>2. n \in Nat \ {0} /\ Len(stack'[t]) = n - 1 /\ (stack'[t] = <<>> <=> n = 1)
  BY PopView
<1>3. n > 1 => stack'[t][1] = stack[t][2]
  BY PopView
<1>4. ShapeAt(t, 1) /\ (n > 1 => ShapeAt(t, 2)) /\ (n > 2 => ShapeAt(t, 3))
  BY <1>2 DEF ShapeInv
<1>5. n > 1 => ~IsOp(t, 2)
  BY <1>2, <1>4 DEF ShapeAt
<1>6. n > 1 => ~IsOp(t, 1)'
  BY <1>3, <1>5 DEF IsOp
<1>7. ~(n > 1) => t # audio
  BY <1>2, <1>4 DEF ShapeAt
<1>8. n > 1 /\ ~(n > 2) => t = audio
  BY <1>2, <1>4, <1>5 DEF ShapeAt
<1>9. n > 2 => IsOp(t, 3)
  BY <1>2, <1>4, <1>5 DEF ShapeAt
<1>10. n > 2 /\ ~(n > 3) => t # audio
  BY <1>2, <1>4, <1>9 DEF ShapeAt
<1>11. stack[t] # <<>>
  OBVIOUS
<1> HIDE DEF n
<1>12. Owed(t)' = Owed(t)
  BY <1>2, <1>6, <1>7 DEF Owed, n
<1>13. Draining(t)' <=> Draining(t)
  BY <1>2, <1>8, <1>10 DEF Draining, n
<1>14. ~Drained(t)'
  BY <1>2, <1>6 DEF Drained
<1>15. stack'[t] = <<>> => t # audio
  BY <1>2, <1>7
<1>16. t = audio /\ ~Draining(t) => Len(stack'[t]) =< 1
  BY <1>2 DEF Draining, n
<1> QED BY <1>1, <1>12, <1>13, <1>14, <1>15, <1>16

(* machine_operation_dequeue returns.                                      *)
LEMMA AfterDequeue ==
  ASSUME TypeInv, ShapeInv, NEW t \in Threads, stack[t] # <<>>, ~IsOp(t, 1), Pop(t)
  PROVE  /\ \A u \in Threads \ {t} : Same(u)
         /\ Owed(t)' = Owed(t)
         /\ Draining(t)' => Draining(t)
         /\ Drained(t)' <=> Draining(t)
         /\ t # audio => stack'[t] # <<>> /\ Draining(t)
         /\ stack'[t] = <<>> <=> ~Draining(t)
         /\ Draining(t) => Len(queue) =< stack[t][1].left
<1>1. \A u \in Threads \ {t} : Same(u)
  BY PopView, SameStack
<1> DEFINE n == Len(stack[t])
<1>2. n \in Nat \ {0} /\ Len(stack'[t]) = n - 1 /\ (stack'[t] = <<>> <=> n = 1)
  BY PopView
<1>3. n > 1 => stack'[t][1] = stack[t][2]
  BY PopView
<1>4. ShapeAt(t, 1) /\ (n > 1 => ShapeAt(t, 2)) /\ (n > 2 => ShapeAt(t, 3))
  BY <1>2 DEF ShapeInv
<1>5. n > 1 => IsOp(t, 2) /\ stack[t][2].at = "deactivated" /\ Len(queue) =< stack[t][1].left
  BY <1>2, <1>4 DEF ShapeAt
<1>6. n > 1 => IsOp(t, 1)' /\ stack'[t][1].at = "deactivated"
  BY <1>3, <1>5 DEF IsOp
<1>7. ~(n > 1) => t = audio
  BY <1>2, <1>4 DEF ShapeAt
<1>8. n > 1 /\ ~(n > 2) => t # audio
  BY <1>2, <1>4, <1>5 DEF ShapeAt
<1> HIDE DEF n
<1>12. Owed(t)' = Owed(t)
  BY <1>2, <1>6, <1>7 DEF Owed, n
<1>13. Draining(t) <=> n > 1
  BY <1>2, <1>7, <1>8 DEF Draining, n
<1>14. Drained(t)' <=> n > 1
  BY <1>2, <1>6 DEF Drained
<1>15. Draining(t)' => n > 1
  BY <1>2 DEF Draining
<1> QED BY <1>1, <1>2, <1>5, <1>7, <1>12, <1>13, <1>14, <1>15

(* machine_operation_dequeue begins an operation.                          *)
LEMMA AfterPushOp ==
  ASSUME TypeInv, ShapeInv, NEW t \in Threads, stack[t] # <<>>, ~IsOp(t, 1),
         NEW f \in Frame, f.frame = "op", f.at = "start", NEW g \in Frame, Push(t, f, g)
  PROVE  /\ \A u \in Threads \ {t} : Same(u)
         /\ Same(t)
<1>1. \A u \in Threads \ {t} : Same(u)
  BY PushView, SameStack
<1> DEFINE n == Len(stack[t])
<1>2. n \in Nat \ {0} /\ Len(stack'[t]) = n + 1 /\ stack'[t] # <<>> /\ stack'[t][1] = f
  BY PushView
<1>4. ShapeAt(t, 1) /\ (n > 1 => ShapeAt(t, 2))
  BY <1>2 DEF ShapeInv
<1>5. n > 1 => IsOp(t, 2)
  BY <1>2, <1>4 DEF ShapeAt
<1>7. ~(n > 1) => t = audio
  BY <1>2, <1>4 DEF ShapeAt
<1>8. n > 1 /\ ~(n > 2) => t # audio
  BY <1>2, <1>4, <1>5 DEF ShapeAt
<1> HIDE DEF n
<1>12. Owed(t)' = Owed(t)
  BY <1>2 DEF Owed, n, IsOp
<1>13. Draining(t)' <=> Draining(t)
  BY <1>2, <1>7, <1>8 DEF Draining, n
<1>14. ~Drained(t)' /\ ~Drained(t)
  BY <1>2 DEF Drained, IsOp
<1> QED BY <1>1, <1>2, <1>12, <1>13, <1>14 DEF Same

(* deactivate_low_latency_mode begins to empty the queue.                  *)
LEMMA AfterDeactivate ==
  ASSUME TypeInv, ShapeInv, NEW t \in Threads, stack[t] # <<>>, IsOp(t, 1),
         stack[t][1].at # "deactivated",
         NEW f \in Frame, f.frame = "dequeue", NEW g \in Frame, Push(t, f, g)
  PROVE  /\ \A u \in Threads \ {t} : Same(u)
         /\ Owed(t)' = Owed(t) + 2
         /\ Draining(t)' /\ ~Drained(t)' /\ stack'[t] # <<>>
<1>1. \A u \in Threads \ {t} : Same(u)
  BY PushView, SameStack
<1> DEFINE n == Len(stack[t])
<1>2. n \in Nat \ {0} /\ Len(stack'[t]) = n + 1 /\ stack'[t] # <<>> /\ stack'[t][1] = f
  BY PushView
<1>4. ShapeAt(t, 1)
  BY <1>2 DEF ShapeInv
<1>7. ~(n > 1) => t # audio
  BY <1>2, <1>4 DEF ShapeAt
<1> HIDE DEF n
<1>12. Owed(t)' = Owed(t) + 2
  BY <1>2 DEF Owed, n, IsOp
<1>13. Draining(t)'
  BY <1>2, <1>7 DEF Draining, n
<1>14. ~Drained(t)'
  BY <1>2 DEF Drained, IsOp
<1> QED BY <1>1, <1>2, <1>12, <1>13, <1>14

(* The operation on top goes on.                                           *)
LEMMA AfterGoOn ==
  ASSUME TypeInv, NEW t \in Threads, stack[t] # <<>>, IsOp(t, 1),
         NEW f \in Frame, f.frame = "op", f.at # "deactivated", Retop(t, f)
  PROVE  /\ \A u \in Threads \ {t} : Same(u)
         /\ Owed(t)' = IF stack[t][1].at = "deactivated" THEN Owed(t) - 2 ELSE Owed(t)
         /\ Draining(t)' <=> Draining(t)
         /\ Drained(t)' <=> f.at = "deregister"
         /\ stack'[t] # <<>>
<1>1. \A u \in Threads \ {t} : Same(u)
  BY RetopView, SameStack
<1> DEFINE n == Len(stack[t])
<1>2. n \in Nat \ {0} /\ Len(stack'[t]) = n /\ stack'[t] # <<>> /\ stack'[t][1] = f
  BY RetopView
<1> HIDE DEF n
<1>12. Owed(t)' = IF stack[t][1].at = "deactivated" THEN Owed(t) - 2 ELSE Owed(t)
  BY <1>2 DEF Owed, n, IsOp
<1>13. Draining(t)' <=> Draining(t)
  BY <1>2 DEF Draining, n
<1>14. Drained(t)' <=> f.at = "deregister"
  BY <1>2 DEF Drained, IsOp
<1> QED BY <1>1, <1>2, <1>12, <1>13, <1>14

-----------------------------------------------------------------------------
(* The operations on the stacks                                            *)

(* Below the new frames, K of them at the top of the stack of t, the       *)
(* operations are the ones that were there, d places away.                 *)
Kept(t, d, K) ==
  /\ \A u \in Threads \ {t} : stack'[u] = stack[u]
  /\ \A k \in 1..Len(stack'[t]) :
       IsOp(t, k)' /\ k > K =>
         /\ k + d \in 1..Len(stack[t]) /\ IsOp(t, k + d)
         /\ stack'[t][k].op = stack[t][k + d].op
         /\ stack'[t][k].from = stack[t][k + d].from

LEMMA PopKeeps ==
  ASSUME TypeInv, NEW t \in Threads, stack[t] # <<>>, Pop(t)
  PROVE  Kept(t, 1, 0)
  BY PopView DEF Kept, IsOp

LEMMA RetopKeeps ==
  ASSUME TypeInv, NEW t \in Threads, stack[t] # <<>>, IsOp(t, 1), NEW f \in Frame,
         f.op = stack[t][1].op, f.from = stack[t][1].from, Retop(t, f)
  PROVE  Kept(t, 0, 0)
<1> SUFFICES ASSUME NEW k \in 1..Len(stack'[t]), IsOp(t, k)'
             PROVE  /\ k + 0 \in 1..Len(stack[t]) /\ IsOp(t, k + 0)
                    /\ stack'[t][k].op = stack[t][k + 0].op
                    /\ stack'[t][k].from = stack[t][k + 0].from
  BY RetopView DEF Kept
<1>1. k + 0 = k /\ k \in 1..Len(stack[t]) /\ (k # 1 => k \in 2..Len(stack[t]))
  BY RetopView
<1>2. CASE k = 1
  BY <1>1, <1>2, RetopView
<1>3. CASE k # 1
  BY <1>1, <1>3, RetopView DEF IsOp
<1> QED BY <1>2, <1>3

LEMMA PushOpKeeps ==
  ASSUME TypeInv, NEW t \in Threads, stack[t] # <<>>, NEW f \in Frame,
         NEW g \in Frame, g.frame = "dequeue", Push(t, f, g)
  PROVE  Kept(t, -1, 1)
<1> SUFFICES ASSUME NEW k \in 1..Len(stack'[t]), IsOp(t, k)', k > 1
             PROVE  /\ k + (-1) \in 1..Len(stack[t]) /\ IsOp(t, k + (-1))
                    /\ stack'[t][k].op = stack[t][k + (-1)].op
                    /\ stack'[t][k].from = stack[t][k + (-1)].from
  BY PushView DEF Kept
<1>1. k # 2
  BY PushView DEF IsOp
<1>2. k \in 3..Len(stack'[t]) /\ k + (-1) = k - 1 /\ k - 1 \in 1..Len(stack[t])
  BY <1>1, PushView
<1> QED BY <1>2, PushView DEF IsOp

LEMMA DeactivateKeeps ==
  ASSUME TypeInv, NEW t \in Threads, stack[t] # <<>>, IsOp(t, 1),
         NEW f \in Frame, f.frame = "dequeue",
         NEW g \in Frame, g.op = stack[t][1].op, g.from = stack[t][1].from, Push(t, f, g)
  PROVE  Kept(t, -1, 0)
<1> SUFFICES ASSUME NEW k \in 1..Len(stack'[t]), IsOp(t, k)'
             PROVE  /\ k + (-1) \in 1..Len(stack[t]) /\ IsOp(t, k + (-1))
                    /\ stack'[t][k].op = stack[t][k + (-1)].op
                    /\ stack'[t][k].from = stack[t][k + (-1)].from
  BY PushView DEF Kept
<1>1. k # 1
  BY PushView DEF IsOp
<1>2. k + (-1) = k - 1 /\ k - 1 \in 1..Len(stack[t])
  BY <1>1, PushView
<1>3. CASE k = 2
  BY <1>2, <1>3, PushView
<1>4. CASE k # 2
  <2>1. k \in 3..Len(stack'[t])
    BY <1>1, <1>4, PushView
  <2> QED BY <1>2, <2>1, PushView DEF IsOp
<1> QED BY <1>3, <1>4

-----------------------------------------------------------------------------
(* The order of the operations, and the callers that wait                  *)

LEMMA OpsTyped ==
  ASSUME TypeInv
  PROVE  /\ \A t \in Threads : \A k \in 1..Len(stack[t]) :
              IsOp(t, k) => /\ stack[t][k].op.caller \in Callers /\ stack[t][k].op.id \in Nat
                            /\ stack[t][k].op.sync \in BOOLEAN /\ stack[t][k] \in Frame
         /\ \A k \in 1..Len(queue) : /\ queue[k].caller \in Callers /\ queue[k].id \in Nat
                                     /\ queue[k].sync \in BOOLEAN /\ queue[k] \in Ops
<1>1. ASSUME NEW t \in Threads, NEW k \in 1..Len(stack[t]), IsOp(t, k)
      PROVE  /\ stack[t][k].op.caller \in Callers /\ stack[t][k].op.id \in Nat
             /\ stack[t][k].op.sync \in BOOLEAN /\ stack[t][k] \in Frame
  <2>1. stack[t][k] \in Frame
    BY DEF TypeInv
  <2>2. stack[t][k].op \in Ops
    BY <1>1, <2>1, OpFrame DEF IsOp
  <2> QED BY <2>1, <2>2 DEF Ops
<1>2. \A k \in 1..Len(queue) : queue[k] \in Ops
  BY DEF TypeInv
<1> QED BY <1>1, <1>2 DEF Ops

(* Nothing is queued or begun.                                             *)
LEMMA OrderKept ==
  ASSUME TypeInv, OrderInv, NEW t \in Threads, NEW d \in Int, Kept(t, d, 0),
         UNCHANGED <<queue, issued, started>>
  PROVE  OrderInv'
<1> SUFFICES ASSUME NEW u \in Threads, NEW k \in 1..Len(stack'[u]), IsOp(u, k)'
             PROVE  stack'[u][k].op.id =< started[stack'[u][k].op.caller]
  BY DEF OrderInv, InOrder, Begun
<1>1. CASE u # t
  BY <1>1 DEF Kept, OrderInv, Begun, IsOp
<1>2. CASE u = t
  BY <1>2 DEF Kept, OrderInv, Begun
<1> QED BY <1>1, <1>2

LEMMA WaitKept ==
  ASSUME TypeInv, WaitInv, NEW t \in Threads, NEW d \in Int, Kept(t, d, 0),
         UNCHANGED <<queue, issued, pc>>
  PROVE  WaitInv'
<1>1. ASSUME NEW u \in Threads, NEW k \in 1..Len(stack'[u]), NEW c, Waited(u, k, c)'
      PROVE  LET j == IF u = t THEN k + d ELSE k
             IN  j \in 1..Len(stack[u]) /\ Waited(u, j, c) /\ stack'[u][k].op = stack[u][j].op
  <2>1. CASE u # t
    BY <1>1, <2>1 DEF Kept, Waited, IsOp
  <2>2. CASE u = t
    BY <1>1, <2>2 DEF Kept, Waited, IsOp
  <2> QED BY <2>1, <2>2
<1>2. ASSUME NEW c \in Callers, NEW k \in 1..Len(queue'), queue'[k].sync, queue'[k].caller = c
      PROVE  pc'[c] = "wait" /\ queue'[k].id = issued'[c]
  BY <1>2 DEF WaitInv
<1>3. ASSUME NEW c \in Callers, NEW u \in Threads, NEW k \in 1..Len(stack'[u]), Waited(u, k, c)'
      PROVE  pc'[c] = "wait" /\ stack'[u][k].op.id = issued'[c]
  BY <1>1, <1>3 DEF WaitInv
<1>4. ASSUME NEW c \in Callers, NEW u \in Threads, NEW k \in 1..Len(stack'[u]), Waited(u, k, c)',
             NEW v \in Threads, NEW j \in 1..Len(stack'[v]), Waited(v, j, c)'
      PROVE  v = u /\ j = k
  <2> DEFINE k0 == IF u = t THEN k + d ELSE k
             j0 == IF v = t THEN j + d ELSE j
  <2>1. k0 \in 1..Len(stack[u]) /\ Waited(u, k0, c)
    BY <1>1, <1>4
  <2>2. j0 \in 1..Len(stack[v]) /\ Waited(v, j0, c)
    BY <1>1, <1>4
  <2>3. v = u /\ j0 = k0
    <3> HIDE DEF j0, k0
    <3> QED BY <2>1, <2>2 DEF WaitInv
  <2> QED BY <2>3
<1> QED BY <1>2, <1>3, <1>4 DEF WaitInv

(* The operation on top of the stack of t ends: if its caller waits for    *)
(* it, it has no other operation to wait for.                              *)
LEMMA WaitFinish ==
  ASSUME TypeInv, OrderInv, WaitInv, NEW t \in Threads, stack[t] # <<>>, IsOp(t, 1), Pop(t),
         pc' = IF stack[t][1].from = "queue" /\ stack[t][1].op.sync
               THEN [pc EXCEPT ![stack[t][1].op.caller] = "idle"] ELSE pc,
         UNCHANGED <<queue, issued>>
  PROVE  /\ WaitInv'
         /\ pc' \in [Callers -> {"idle", "direct", "wait", "stuck"}]
         /\ \A c \in Callers : pc'[c] = pc[c] \/ (pc[c] = "wait" /\ pc'[c] = "idle")
<1>0. Kept(t, 1, 0) /\ 1 \in 1..Len(stack[t])
  BY PopKeeps, PopView
<1>1. CASE ~(stack[t][1].from = "queue" /\ stack[t][1].op.sync)
  <2>1. pc' = pc
    BY <1>1
  <2>2. WaitInv'
    BY <1>0, <2>1, WaitKept
  <2> QED BY <2>1, <2>2 DEF TypeInv
<1>2. CASE stack[t][1].from = "queue" /\ stack[t][1].op.sync
  <2> DEFINE b == stack[t][1].op.caller
  <2>1. b \in Callers /\ Waited(t, 1, b) /\ stack[t][1].op.id \in Nat
    BY <1>0, <1>2, OpsTyped DEF Waited
  <2>2. pc[b] = "wait" /\ stack[t][1].op.id = issued[b] /\ issued[b] =< started[b]
    BY <1>0, <2>1 DEF WaitInv, OrderInv, Begun
  <2>3. pc' = [pc EXCEPT ![b] = "idle"]
    BY <1>2
  <2>4. /\ pc' \in [Callers -> {"idle", "direct", "wait", "stuck"}] /\ pc'[b] = "idle"
        /\ \A c \in Callers \ {b} : pc'[c] = pc[c]
    BY <2>1, <2>3 DEF TypeInv
  <2> HIDE DEF b
  <2>5. ASSUME NEW u \in Threads, NEW k \in 1..Len(stack'[u]), NEW c \in Callers, Waited(u, k, c)'
        PROVE  LET j == IF u = t THEN k + 1 ELSE k
               IN  /\ j \in 1..Len(stack[u]) /\ Waited(u, j, c)
                   /\ stack'[u][k].op = stack[u][j].op /\ c # b
    <3> DEFINE j == IF u = t THEN k + 1 ELSE k
    <3>1. j \in 1..Len(stack[u]) /\ Waited(u, j, c) /\ stack'[u][k].op = stack[u][j].op
      <4>1. CASE u # t
        BY <1>0, <2>5, <4>1 DEF Kept, Waited, IsOp
      <4>2. CASE u = t
        BY <1>0, <2>5, <4>2 DEF Kept, Waited, IsOp
      <4> QED BY <4>1, <4>2
    <3>2. u # t \/ j # 1
      OBVIOUS
    <3>3. c # b
      <4> HIDE DEF j
      <4> QED BY <1>0, <2>1, <3>1, <3>2 DEF WaitInv
    <3> QED BY <3>1, <3>3
  <2>6. ASSUME NEW c \in Callers, NEW k \in 1..Len(queue), queue[k].sync, queue[k].caller = c
        PROVE  pc'[c] = "wait" /\ queue[k].id = issued[c]
    <3>1. pc[c] = "wait" /\ queue[k].id = issued[c]
      BY <2>6 DEF WaitInv
    <3>2. started[c] < queue[k].id
      BY <2>6 DEF OrderInv, InOrder, TypeInv
    <3>3. issued[c] \in Nat /\ started[c] \in Nat
      BY DEF TypeInv
    <3>4. c # b
      BY <2>2, <3>1, <3>2, <3>3
    <3> QED BY <2>4, <3>1, <3>4
  <2>7. ASSUME NEW c \in Callers, NEW u \in Threads, NEW k \in 1..Len(stack'[u]), Waited(u, k, c)'
        PROVE  pc'[c] = "wait" /\ stack'[u][k].op.id = issued[c]
    BY <2>4, <2>5, <2>7 DEF WaitInv
  <2>8. ASSUME NEW c \in Callers, NEW u \in Threads, NEW k \in 1..Len(stack'[u]), Waited(u, k, c)',
               NEW v \in Threads, NEW j \in 1..Len(stack'[v]), Waited(v, j, c)'
        PROVE  v = u /\ j = k
    <3> DEFINE k0 == IF u = t THEN k + 1 ELSE k
               j0 == IF v = t THEN j + 1 ELSE j
    <3>1. k0 \in 1..Len(stack[u]) /\ Waited(u, k0, c)
      BY <2>5, <2>8
    <3>2. j0 \in 1..Len(stack[v]) /\ Waited(v, j0, c)
      BY <2>5, <2>8
    <3>3. v = u /\ j0 = k0
      <4> HIDE DEF j0, k0
      <4> QED BY <3>1, <3>2 DEF WaitInv
    <3> QED BY <3>3
  <2>9. WaitInv'
    BY <2>6, <2>7, <2>8 DEF WaitInv
  <2> QED BY <2>2, <2>4, <2>9
<1> QED BY <1>1, <1>2

(* machine_operation_dequeue takes the first operation of the queue.       *)
LEMMA DequeueOrder ==
  ASSUME TypeInv, OrderInv, WaitInv, NEW t \in Threads, queue # <<>>,
         Kept(t, -1, 1), Len(stack'[t]) > 1,
         IsOp(t, 1)', stack'[t][1].op = queue[1], stack'[t][1].from = "queue",
         Len(queue') = Len(queue) - 1, \A k \in 1..Len(queue') : queue'[k] = queue[k + 1],
         started' = [started EXCEPT ![queue[1].caller] = queue[1].id],
         UNCHANGED <<issued, pc>>
  PROVE  OrderInv' /\ WaitInv'
<1> DEFINE op == queue[1]
           b == queue[1].caller
<1>0. Len(queue) \in Nat /\ 1 \in 1..Len(queue)
  BY DEF TypeInv
<1>1. b \in Callers /\ op.id \in Nat
  BY <1>0, OpsTyped
<1>2. started[b] < op.id /\ op.id =< issued[b]
  BY <1>0, <1>1 DEF OrderInv, InOrder, TypeInv
<1>3. /\ started' \in [Callers -> Nat] /\ started'[b] = op.id
      /\ \A c \in Callers \ {b} : started'[c] = started[c]
  BY <1>1 DEF TypeInv
<1>a. issued \in [Callers -> Nat] /\ started \in [Callers -> Nat]
  BY DEF TypeInv
<1>4. \A c \in Callers : started[c] =< started'[c] /\ started'[c] =< issued[c]
  BY <1>1, <1>2, <1>3, <1>a DEF OrderInv
<1>5. ASSUME NEW k \in 1..Len(queue')
      PROVE  /\ queue'[k] = queue[k + 1] /\ k + 1 \in 1..Len(queue)
             /\ queue'[k].id =< issued[queue'[k].caller]
             /\ started'[queue'[k].caller] < queue'[k].id
             /\ \A j \in 1..Len(queue') : j < k /\ queue'[j].caller = queue'[k].caller
                                           => queue'[j].id < queue'[k].id
  <2>1. queue'[k] = queue[k + 1] /\ k + 1 \in 1..Len(queue) /\ k + 1 > 1
    BY <1>0
  <2>2. queue[k + 1].caller = b => op.id < queue[k + 1].id
    BY <1>0, <2>1 DEF OrderInv
  <2>3. started[queue[k + 1].caller] < queue[k + 1].id /\ queue[k + 1].caller \in Callers
    <3>1. k + 1 \in DOMAIN queue
      BY <2>1 DEF TypeInv
    <3>2. queue[k + 1].caller \in Callers
      BY <2>1, OpsTyped
    <3> QED BY <3>1, <3>2 DEF OrderInv, InOrder
  <2>4. \A j \in 1..Len(queue') : queue'[j] = queue[j + 1] /\ j + 1 \in 1..Len(queue)
    BY <1>0
  <2>5. \A j \in 1..Len(queue') : j < k => j + 1 < k + 1
    BY <1>0
  <2>6. started'[queue'[k].caller] < queue'[k].id
    BY <2>1, <2>2, <2>3, <1>3
  <2>7. queue'[k].id =< issued[queue'[k].caller]
    BY <2>1 DEF OrderInv
  <2>8. \A j \in 1..Len(queue') : j < k /\ queue'[j].caller = queue'[k].caller
                                           => queue'[j].id < queue'[k].id
    BY <2>1, <2>4, <2>5 DEF OrderInv
  <2> QED BY <2>1, <2>6, <2>7, <2>8
<1>6. \A u \in Threads : \A k \in 1..Len(stack'[u]) :
         u # t => stack'[u] = stack[u] /\ (IsOp(u, k)' <=> IsOp(u, k))
  BY DEF Kept, IsOp
<1>7. Begun'
  <2> SUFFICES ASSUME NEW u \in Threads, NEW k \in 1..Len(stack'[u]), IsOp(u, k)'
               PROVE  stack'[u][k].op.id =< started'[stack'[u][k].op.caller]
    BY DEF Begun
  <2>1. CASE u = t /\ k = 1
    BY <1>1, <1>3, <2>1
  <2>2. CASE ~(u = t /\ k = 1)
    <3> DEFINE j == IF u = t THEN k + (-1) ELSE k
    <3>1. j \in 1..Len(stack[u]) /\ IsOp(u, j) /\ stack'[u][k].op = stack[u][j].op
      <4>1. CASE u = t
        <5>1. k > 1 /\ k \in 1..Len(stack'[t]) /\ IsOp(t, k)' /\ j = k + (-1)
          BY <2>2, <4>1
        <5> HIDE DEF j
        <5>2. /\ k + (-1) \in 1..Len(stack[t]) /\ IsOp(t, k + (-1))
              /\ stack'[t][k].op = stack[t][k + (-1)].op
          BY <5>1 DEF Kept
        <5> QED BY <4>1, <5>1, <5>2
      <4>2. CASE u # t
        BY <1>6, <4>2
      <4> QED BY <4>1, <4>2
    <3> HIDE DEF j
    <3>2. /\ stack[u][j].op.caller \in Callers /\ stack[u][j].op.id \in Nat
          /\ stack[u][j].op.id =< started[stack[u][j].op.caller]
      BY <3>1, OpsTyped DEF OrderInv, Begun
    <3> DEFINE x == stack[u][j].op.caller
               i == stack[u][j].op.id
    <3>3. started[x] =< started'[x] /\ started[x] \in Nat /\ started'[x] \in Nat
      BY <3>2, <1>3, <1>4, <1>a
    <3>4. i =< started'[x]
      <4>1. i \in Nat /\ i =< started[x]
        BY <3>2
      <4> HIDE DEF i, x
      <4> QED BY <3>3, <4>1
    <3> QED BY <3>1, <3>4
  <2> QED BY <2>1, <2>2
<1>8. OrderInv'
  <2>1. InOrder'
    <3> SUFFICES ASSUME NEW c \in Callers, NEW k \in DOMAIN queue', queue'[k].caller = c
                 PROVE  started'[c] < queue'[k].id
      BY DEF InOrder
    <3>1. k \in 1..Len(queue')
      BY DEF TypeInv
    <3> QED BY <1>5, <3>1
  <2> QED BY <1>4, <1>5, <1>7, <2>1 DEF OrderInv
<1>9. WaitInv'
  <2>1. ASSUME NEW u \in Threads, NEW k \in 1..Len(stack'[u]), NEW c \in Callers, Waited(u, k, c)'
        PROVE  \/ u = t /\ k = 1 /\ c = b /\ op.sync
               \/ LET j == IF u = t THEN k + (-1) ELSE k
                  IN  /\ j \in 1..Len(stack[u]) /\ Waited(u, j, c)
                      /\ stack'[u][k].op = stack[u][j].op /\ ~(u = t /\ k = 1)
    <3>1. CASE u = t /\ k = 1
      BY <2>1, <3>1 DEF Waited
    <3>2. CASE u = t /\ k # 1
      BY <2>1, <3>2 DEF Kept, Waited
    <3>3. CASE u # t
      BY <2>1, <3>3, <1>6 DEF Waited
    <3> QED BY <3>1, <3>2, <3>3
  <2>2. op.sync => /\ pc[b] = "wait" /\ op.id = issued[b]
                   /\ \A u \in Threads : \A j \in 1..Len(stack[u]) : ~Waited(u, j, b)
    <3> SUFFICES ASSUME op.sync
                 PROVE  /\ pc[b] = "wait" /\ op.id = issued[b]
                        /\ \A u \in Threads : \A j \in 1..Len(stack[u]) : ~Waited(u, j, b)
      OBVIOUS
    <3>1. pc[b] = "wait" /\ op.id = issued[b]
      BY <1>0, <1>1 DEF WaitInv
    <3>2. ASSUME NEW u \in Threads, NEW j \in 1..Len(stack[u]), Waited(u, j, b) PROVE FALSE
      <4>1. stack[u][j].op.id = issued[b] /\ stack[u][j].op.id =< started[b]
        BY <1>1, <3>2 DEF WaitInv, OrderInv, Begun, Waited
      <4> QED BY <1>1, <1>2, <1>a, <3>1, <4>1
    <3> QED BY <3>1, <3>2
  <2> HIDE DEF op, b
  <2>3. ASSUME NEW c \in Callers, NEW k \in 1..Len(queue'), queue'[k].sync, queue'[k].caller = c
        PROVE  pc'[c] = "wait" /\ queue'[k].id = issued'[c]
    BY <1>5, <2>3 DEF WaitInv
  <2>4. ASSUME NEW c \in Callers, NEW u \in Threads, NEW k \in 1..Len(stack'[u]), Waited(u, k, c)'
        PROVE  pc'[c] = "wait" /\ stack'[u][k].op.id = issued'[c]
    <3>1. CASE u = t /\ k = 1 /\ c = b /\ op.sync
      BY <2>2, <3>1 DEF op
    <3>2. CASE ~(u = t /\ k = 1 /\ c = b /\ op.sync)
      <4> DEFINE j == IF u = t THEN k + (-1) ELSE k
      <4>1. j \in 1..Len(stack[u]) /\ Waited(u, j, c) /\ stack'[u][k].op = stack[u][j].op
        BY <2>1, <2>4, <3>2
      <4> HIDE DEF j
      <4> QED BY <4>1 DEF WaitInv
    <3> QED BY <3>1, <3>2
  <2>5. ASSUME NEW c \in Callers, NEW u \in Threads, NEW k \in 1..Len(stack'[u]), Waited(u, k, c)',
               NEW v \in Threads, NEW j \in 1..Len(stack'[v]), Waited(v, j, c)'
        PROVE  v = u /\ j = k
    <3> DEFINE k0 == IF u = t THEN k + (-1) ELSE k
               j0 == IF v = t THEN j + (-1) ELSE j
    <3>1. (u = t /\ k = 1 /\ c = b /\ op.sync) \/ (k0 \in 1..Len(stack[u]) /\ Waited(u, k0, c) /\ ~(u = t /\ k = 1))
      BY <2>1, <2>5
    <3>2. (v = t /\ j = 1 /\ c = b /\ op.sync) \/ (j0 \in 1..Len(stack[v]) /\ Waited(v, j0, c) /\ ~(v = t /\ j = 1))
      BY <2>1, <2>5
    <3>3. CASE c = b /\ op.sync
      <4> HIDE DEF j0, k0
      <4> QED BY <2>2, <3>1, <3>2, <3>3
    <3>4. CASE ~(c = b /\ op.sync)
      <4>1. v = u /\ j0 = k0
        <5> HIDE DEF j0, k0
        <5> QED BY <3>1, <3>2, <3>4 DEF WaitInv
      <4> QED BY <4>1
    <3> QED BY <3>3, <3>4
  <2> QED BY <2>3, <2>4, <2>5 DEF WaitInv
<1> QED BY <1>8, <1>9

-----------------------------------------------------------------------------
(* The operations of a caller and of the audio thread, action by action    *)

LEMMA SinkTyped ==
  ASSUME TypeInv, UNCHANGED made
  PROVE  Addresses' = Addresses
  BY DEF Addresses

(* An operation ends; the one that ends a kill takes the sink away.        *)
LEMMA FinishStep ==
  ASSUME Inv, NEW t \in Threads, stack[t] # <<>>, IsOp(t, 1), stack[t][1].at # "deactivated",
         Finish(t),
         UNCHANGED <<lowlat, mt, made, lock_vars, queue, audio_vars>>,
         \/ stack[t][1].at # "deregister" /\ sink' = sink
         \/ stack[t][1].at = "deregister" /\ sink' = NULL
  PROVE  Inv'
<1> USE DEF Inv
<1>1. Pop(t) /\ UNCHANGED <<issued, started>>
  BY DEF Finish, Pop
<1>2. Head(stack[t]) = stack[t][1]
  BY <1>1, PopView
<1>3. pc' = IF stack[t][1].from = "queue" /\ stack[t][1].op.sync
            THEN [pc EXCEPT ![stack[t][1].op.caller] = "idle"] ELSE pc
  BY <1>2 DEF Finish, Top
<1>4. /\ WaitInv'
      /\ pc' \in [Callers -> {"idle", "direct", "wait", "stuck"}]
      /\ \A c \in Callers : pc'[c] = pc[c] \/ (pc[c] = "wait" /\ pc'[c] = "idle")
  BY <1>1, <1>3, WaitFinish
<1>5. TypeInv'
  <2>1. Addresses' = Addresses /\ sink' \in Addresses
    BY SinkTyped DEF TypeInv, Addresses
  <2>2. stack' \in [Threads -> Seq(Frame)]
    BY <1>1, PopView
  <2> QED BY <1>1, <1>4, <2>1, <2>2 DEF TypeInv, lock_vars, audio_vars
<1>6. ShapeInv'
  BY <1>1, ShapePop
<1>7. OrderInv'
  <2>1. Kept(t, 1, 0)
    BY <1>1, PopKeeps
  <2> QED BY <1>1, <2>1, OrderKept
<1>8. /\ \A u \in Threads \ {t} : Same(u) /\ stack'[u] = stack[u]
      /\ Owed(t)' = Owed(t)
      /\ Draining(t)' <=> Draining(t)
      /\ ~Drained(t)'
      /\ t = audio => stack'[t] # <<>>
      /\ t = audio /\ ~Draining(t) => Len(stack'[t]) =< 1
  BY <1>1, AfterFinish, PopView
<1>9. Drained(t) <=> stack[t][1].at = "deregister"
  BY DEF Drained
<1>10. \A c \in Callers : c \in Threads /\ c # audio
  BY OpsAssumption DEF Threads
<1>11. audio \in Threads
  BY DEF Threads
<1>12. LockInv'
  BY <1>4, <1>8, <1>10, <1>11 DEF LockInv, Same, lock_vars, audio_vars
<1>13. CountInv'
  BY <1>4, <1>8 DEF CountInv, LowLatency, lock_vars, audio_vars
<1>14. PlainInv'
  BY <1>8, <1>10, <1>11 DEF PlainInv, LowLatency, Same, audio_vars
<1>15. ModeInv'
  <2> SUFFICES ASSUME LowLatency PROVE ModeInv'
    BY DEF ModeInv, LowLatency, audio_vars
  <2>1. t # audio => t \in Callers
    BY DEF Threads
  <2>2. t = audio => apc = "dequeue"
    BY DEF LockInv
  <2>3. CASE sink' = sink /\ stack[t][1].at # "deregister"
    <3>1. Torn(audio)' <=> Torn(audio)
      BY <1>8, <1>9, <1>11, <2>3 DEF Torn, Same
    <3>2. t # audio => stack'[audio] = stack[audio]
      BY <1>8, <1>11
    <3>3. \A c \in Callers : stack'[c] = <<>> => stack[c] = <<>> \/ c = t
      BY <1>8, <1>10
    <3> QED BY <1>8, <1>10, <1>11, <2>1, <2>3, <3>1, <3>2, <3>3 DEF ModeInv, Same, audio_vars, Torn
  <2>4. CASE sink' = NULL /\ stack[t][1].at = "deregister"
    <3>1. ~(apc \in {"mode", "render"})
      <4>1. CASE t = audio
        BY <2>2, <4>1
      <4>2. CASE t # audio
        <5>1. stack[audio] = <<>> \/ apc = "dequeue"
          BY DEF LockInv
        <5>2. stack[audio] = <<>> => ~Torn(audio)
          BY DEF Torn, Draining, Drained
        <5> QED BY <2>1, <4>2, <5>1, <5>2 DEF ModeInv
      <4> QED BY <4>1, <4>2
    <3>2. stack'[audio] # <<>> /\ ~Torn(audio)' => ~lowlat /\ queue = <<>> /\ Len(stack'[audio]) =< 1
      <4>1. CASE t = audio
        BY <1>8, <1>9, <2>4, <4>1 DEF QueueInv, Torn
      <4>2. CASE t # audio
        <5>1. stack'[audio] = stack[audio] /\ (Torn(audio)' <=> Torn(audio))
          BY <1>8, <1>11, <4>2 DEF Same, Torn
        <5> QED BY <2>1, <4>2, <5>1 DEF ModeInv
      <4> QED BY <4>1, <4>2
    <3> QED BY <2>4, <3>1, <3>2 DEF ModeInv, audio_vars
  <2> QED BY <2>3, <2>4
<1>16. QueueInv'
  <2>1. sink' = NULL => queue = <<>>
    BY <1>9 DEF QueueInv
  <2>2. \A u \in Threads : (Draining(u)' <=> Draining(u)) /\ (Drained(u)' => Drained(u))
    BY <1>8 DEF Same
  <2> QED BY <2>1, <2>2 DEF QueueInv, Torn, lock_vars
<1> QED BY <1>4, <1>5, <1>6, <1>7, <1>12, <1>13, <1>14, <1>15, <1>16

(* The top of the stack as the actions see it.                             *)
LEMMA TopIsFirst ==
  ASSUME TypeInv, NEW t \in Threads, stack[t] # <<>>
  PROVE  /\ Top(t) = stack[t][1] /\ stack[t][1] \in Frame
         /\ Len(stack[t]) \in Nat \ {0}
         /\ IsOp(t, 1) <=> Top(t).frame = "op"
         /\ ~IsOp(t, 1) <=> Top(t).frame = "dequeue"
<1>1. Top(t) = stack[t][1] /\ stack[t][1] \in Frame /\ Len(stack[t]) \in Nat \ {0}
  BY Popped DEF TypeInv, Top
<1> QED BY <1>1 DEF IsOp, Frame

(* An operation goes on without the lock: the constructor of a sink, or    *)
(* the destruction of one without low latency mode.                        *)
LEMMA GoOnStep ==
  ASSUME Inv, "OpenSL" \notin Reuse,
         NEW t \in Threads, stack[t] # <<>>, IsOp(t, 1),
         stack[t][1].at \notin {"deactivated", "deregister"}, NEW a \in {"init", "rest", "deregister"}, GoOn(t, a),
         a = "deregister" => ~LowLatency,
         UNCHANGED <<lowlat, lock_vars, queue, audio_vars>>, mt' \in Addresses',
         \/ UNCHANGED <<sink, made>>
         \/ sink = NULL /\ sink' = made + 1 /\ made' = made + 1
         \/ sink = NULL /\ plugin \in Reuse /\ sink' \in 1..made /\ UNCHANGED made
  PROVE  Inv'
<1> USE DEF Inv
<1> DEFINE f == Moved(stack[t][1], a)
<1>0. IsOp(t, 1) /\ Top(t) = stack[t][1] /\ stack[t][1] \in Frame
  BY TopIsFirst
<1>1. /\ f \in Frame /\ f.frame = "op" /\ f.at = a
      /\ f.op = stack[t][1].op /\ f.from = stack[t][1].from
  BY <1>0, OpFrame DEF IsOp
<1>2. Retop(t, f) /\ UNCHANGED <<pc, issued, started>>
  BY <1>0 DEF GoOn, Retop, Moved
<1> HIDE DEF f
<1>3. Kept(t, 0, 0)
  BY <1>0, <1>1, <1>2, RetopKeeps
<1>4. OrderInv' /\ WaitInv'
  BY <1>2, <1>3, OrderKept, WaitKept
<1>5. TypeInv'
  <2>1. sink' \in Addresses' /\ cur \in Addresses' /\ last \in Addresses' /\ made' \in Nat
    BY DEF TypeInv, Addresses
  <2>2. stack' \in [Threads -> Seq(Frame)]
    BY <1>1, <1>2, RetopView
  <2> QED BY <1>2, <2>1, <2>2 DEF TypeInv, lock_vars, audio_vars
<1>6. ShapeInv'
  BY <1>1, <1>2, ShapeRetop
<1>8. /\ \A u \in Threads \ {t} : Same(u) /\ stack'[u] = stack[u]
      /\ Owed(t)' = Owed(t)
      /\ Draining(t)' <=> Draining(t)
      /\ Drained(t)' <=> a = "deregister"
      /\ stack'[t] # <<>> /\ Len(stack'[t]) = Len(stack[t])
  BY <1>1, <1>2, AfterGoOn, RetopView
<1>9. Drained(t) <=> stack[t][1].at = "deregister"
  BY DEF Drained
<1>10. \A c \in Callers : c \in Threads /\ c # audio
  BY OpsAssumption DEF Threads
<1>11. audio \in Threads
  BY DEF Threads
<1>12. LockInv'
  BY <1>2, <1>8, <1>10, <1>11 DEF LockInv, Same, lock_vars, audio_vars
<1>13. CountInv'
  BY <1>2, <1>8 DEF CountInv, LowLatency, lock_vars, audio_vars
<1>14. PlainInv'
  BY <1>8, <1>10, <1>11 DEF PlainInv, LowLatency, Same, audio_vars
<1>a. ASSUME ~LowLatency PROVE ModeInv' /\ QueueInv'
  <2>1. ~lowlat /\ queue = <<>> /\ ~LowLatency'
    BY <1>a DEF PlainInv, audio_vars, LowLatency
  <2> QED BY <2>1 DEF ModeInv, QueueInv
<1>b. ASSUME LowLatency PROVE ModeInv' /\ QueueInv'
  <2>0. a # "deregister" /\ LowLatency' /\ plugin \notin Reuse
    BY <1>b DEF LowLatency, audio_vars
  <2>1. sink' = sink \/ (sink = NULL /\ sink' # NULL /\ sink' # last)
    BY <2>0, OpsAssumption DEF TypeInv, Addresses
  <2>2. ~Drained(t)' /\ (Draining(t)' <=> Draining(t))
    BY <1>8, <2>0
  <2>3. QueueInv'
    <3>1. \A u \in Threads : (Draining(u)' <=> Draining(u)) /\ (Drained(u)' => Drained(u))
      BY <1>8, <2>2 DEF Same
    <3> QED BY <2>1, <3>1 DEF QueueInv, Torn, lock_vars
  <2>4. \A u \in Threads : (Torn(u)' <=> Torn(u)) /\ Len(stack'[u]) = Len(stack[u])
                           /\ (stack'[u] = <<>> <=> stack[u] = <<>>)
    BY <1>8, <1>9, <2>2 DEF Same, Torn
  <2>5. ModeInv'
    BY <1>b, <1>10, <1>11, <2>0, <2>1, <2>4 DEF ModeInv, audio_vars
  <2> QED BY <2>3, <2>5
<1> QED BY <1>4, <1>5, <1>6, <1>12, <1>13, <1>14, <1>a, <1>b

(* Two threads do not hold the lock.                                       *)
LEMMA OneHolds ==
  ASSUME LockInv, NEW t \in Threads, lock.owner = t
  PROVE  /\ \A c \in Callers : c # t => pc[c] # "direct" /\ stack[c] = <<>>
         /\ audio # t => ~(Owed(audio) > 0)
  BY DEF LockInv

(* A thread whose kill has deactivated the mode holds the lock.            *)
LEMMA DeactivatedHolds ==
  ASSUME Inv, NEW t \in Threads, stack[t] # <<>>, IsOp(t, 1), stack[t][1].at = "deactivated"
  PROVE  /\ LowLatency /\ lock.owner = t /\ 2 * lock.depth = Owed(t)
         /\ Owed(t) > 1 /\ (t # audio => Owed(t) > 3)
         /\ lock.depth > 0 /\ tupla_p = lock.depth
         /\ Drained(t) /\ queue = <<>> /\ ~lowlat
<1> USE DEF Inv
<1>1. Len(stack[t]) \in Nat \ {0} /\ Owed(t) \in Int
  BY TopIsFirst, OwedIsInt
<1>2. t = audio => Len(stack[t]) > 1
  <2>1. ShapeAt(t, 1)
    BY <1>1 DEF ShapeInv
  <2> QED BY <1>1, <2>1 DEF ShapeAt
<1>3. Owed(t) > 1 /\ (t # audio => Owed(t) > 3)
  BY <1>1, <1>2 DEF Owed
<1>4. t # audio => t \in Callers
  BY DEF Threads
<1>5. LowLatency
  BY <1>3, <1>4 DEF PlainInv
<1>6. lock.owner = t /\ 2 * lock.depth = Owed(t)
  BY <1>1, <1>3, <1>4 DEF LockInv
<1>7. lock.depth \in Nat
  BY DEF TypeInv
<1>8. Drained(t)
  BY DEF Drained
<1> QED BY <1>1, <1>3, <1>5, <1>6, <1>7, <1>8 DEF CountInv, QueueInv, Torn

LEMMA KillForgetStep ==
  ASSUME Inv, NEW t \in Threads, KillForget(t)
  PROVE  Inv'
<1> USE DEF Inv
<1> DEFINE f == Moved(stack[t][1], "deregister")
<1>0. /\ stack[t] # <<>> /\ IsOp(t, 1) /\ stack[t][1].at = "deactivated"
      /\ Top(t) = stack[t][1] /\ stack[t][1] \in Frame
  BY TopIsFirst DEF KillForget, InOp
<1>1. /\ f \in Frame /\ f.frame = "op" /\ f.at = "deregister"
      /\ f.op = stack[t][1].op /\ f.from = stack[t][1].from
  BY <1>0, OpFrame DEF IsOp
<1>2. Retop(t, f) /\ UNCHANGED <<pc, issued, started, sink, lowlat, made, queue, audio_vars>> /\ mt' = NULL
  BY <1>0 DEF KillForget, GoOn, Retop, Moved
<1> HIDE DEF f
<1>3. Kept(t, 0, 0)
  BY <1>0, <1>1, <1>2, RetopKeeps
<1>4. OrderInv' /\ WaitInv'
  BY <1>2, <1>3, OrderKept, WaitKept
<1>d. /\ LowLatency /\ lock.owner = t /\ 2 * lock.depth = Owed(t)
      /\ Owed(t) > 1 /\ (t # audio => Owed(t) > 3)
      /\ lock.depth > 0 /\ tupla_p = lock.depth
      /\ Drained(t) /\ queue = <<>> /\ ~lowlat
  BY <1>0, DeactivatedHolds
<1>e. lock.depth \in Nat /\ Owed(t) \in Int /\ t # NULL
  BY OwedIsInt, OpsAssumption DEF TypeInv, Threads
<1>f. /\ tupla_p' = tupla_p - 1 /\ lock'.depth = lock.depth - 1
      /\ lock'.owner = IF lock.depth = 1 THEN NULL ELSE t
      /\ lock' \in [owner : Threads \cup {NULL}, depth : Nat]
  BY <1>d, <1>e DEF KillForget, Leave
<1>5. TypeInv'
  <2>1. Addresses' = Addresses
    BY <1>2, SinkTyped
  <2>2. stack' \in [Threads -> Seq(Frame)]
    BY <1>1, <1>2, <1>0, RetopView
  <2>3. tupla_p' \in Int /\ mt' \in Addresses
    BY <1>2, <1>f DEF TypeInv, Addresses
  <2> QED BY <1>2, <1>f, <2>1, <2>2, <2>3 DEF TypeInv, audio_vars
<1>6. ShapeInv'
  BY <1>0, <1>1, <1>2, ShapeRetop
<1>8. /\ \A u \in Threads \ {t} : Same(u) /\ stack'[u] = stack[u]
      /\ Owed(t)' = Owed(t) - 2
      /\ Draining(t)' <=> Draining(t)
      /\ Drained(t)'
      /\ stack'[t] # <<>> /\ Len(stack'[t]) = Len(stack[t])
  BY <1>0, <1>1, <1>2, AfterGoOn, RetopView
<1>10. \A c \in Callers : c \in Threads /\ c # audio
  BY OpsAssumption DEF Threads
<1>11. audio \in Threads /\ (t # audio => t \in Callers)
  BY DEF Threads
<1>12. LockInv'
  <2>1. 2 * lock'.depth = Owed(t)'
    BY <1>d, <1>e, <1>f, <1>8
  <2>2. t # audio => lock'.owner = t
    BY <1>d, <1>e, <1>f
  <2>3. lock'.depth = 0 <=> lock'.owner = NULL
    BY <1>d, <1>e, <1>f
  <2>4. lock'.owner \in {NULL, t} /\ (lock'.owner = t => Owed(t)' > 0) /\ (Owed(t)' > 0 => lock'.owner = t)
    BY <1>d, <1>e, <1>f, <1>8
  <2>5. apc # "fill"
    BY <1>d DEF ModeInv
  <2>6. \A c \in Callers : c # t => pc[c] # "direct" /\ stack[c] = <<>> /\ stack'[c] = stack[c]
    BY <1>d, <1>8, <1>10, OneHolds
  <2>7. audio # t => ~(Owed(audio)' > 0) /\ stack'[audio] = stack[audio]
    BY <1>d, <1>8, <1>11, OneHolds DEF Same
  <2>8. t # audio => pc[t] = "direct"
    BY <1>0, <1>11 DEF LockInv
  <2>9. t = audio => apc = "dequeue"
    BY <1>0 DEF LockInv
  <2>10. NULL \notin Callers /\ NULL # audio
    BY OpsAssumption
  <2> QED BY <1>2, <1>10, <1>11, <2>1, <2>2, <2>3, <2>4, <2>5, <2>6, <2>7, <2>8, <2>9, <2>10 DEF LockInv, audio_vars
<1>13. CountInv'
  BY <1>2, <1>d, <1>f DEF CountInv, ModeInv, LowLatency, audio_vars
<1>14. PlainInv'
  BY <1>2, <1>d DEF PlainInv, LowLatency, audio_vars
<1>g. \A u \in Threads : /\ Torn(u)' <=> Torn(u)
                         /\ Drained(u)' <=> Drained(u)
                         /\ Len(stack'[u]) = Len(stack[u])
                         /\ stack'[u] = <<>> <=> stack[u] = <<>>
  BY <1>d, <1>0, <1>8 DEF Torn, Same
<1>15. ModeInv'
  BY <1>2, <1>d, <1>10, <1>11, <1>g DEF ModeInv, LowLatency, audio_vars
<1>16. QueueInv'
  BY <1>2, <1>d, <1>g DEF QueueInv
<1> QED BY <1>4, <1>5, <1>6, <1>12, <1>13, <1>14, <1>15, <1>16

LEMMA KillDeactivateStep ==
  ASSUME Inv, MaxQueue =< Kount, NEW t \in Threads, KillDeactivate(t)
  PROVE  Inv'
<1> USE DEF Inv
<1> DEFINE g == Moved(stack[t][1], "deactivated")
           d == Dequeueing
<1>0. /\ stack[t] # <<>> /\ IsOp(t, 1) /\ stack[t][1].at = "start"
      /\ Top(t) = stack[t][1] /\ stack[t][1] \in Frame /\ LowLatency
  BY TopIsFirst DEF KillDeactivate, InOp
<1>1. /\ g \in Frame /\ g.frame = "op" /\ g.at = "deactivated"
      /\ g.op = stack[t][1].op /\ g.from = stack[t][1].from
  BY <1>0, OpFrame DEF IsOp
<1>a. d \in Frame /\ d.frame = "dequeue"
  BY NewFrames
<1>2. Push(t, d, g) /\ UNCHANGED <<pc, issued, started, sink, mt, made, queue, audio_vars>> /\ ~lowlat' /\ lowlat' \in BOOLEAN
  BY <1>0 DEF KillDeactivate, Push, Moved
<1> HIDE DEF g
<1>6. ShapeInv'
  BY <1>0, <1>1, <1>2, ShapePushDequeue
<1> HIDE DEF d
<1>3. Kept(t, -1, 0)
  BY <1>0, <1>1, <1>a, <1>2, DeactivateKeeps
<1>4. OrderInv' /\ WaitInv'
  BY <1>2, <1>3, OrderKept, WaitKept
<1>e. lock.depth \in Nat /\ Owed(t) \in Int /\ t # NULL /\ tupla_p \in Int
  BY OwedIsInt, OpsAssumption DEF TypeInv, Threads
<1>f. /\ tupla_p' = tupla_p + 1 /\ lock'.depth = lock.depth + 1
      /\ lock'.owner = t /\ lock.owner \in {NULL, t}
      /\ lock' \in [owner : Threads \cup {NULL}, depth : Nat]
  BY <1>e DEF KillDeactivate, Enter, CanEnter
<1>5. TypeInv'
  <2>1. Addresses' = Addresses
    BY <1>2, SinkTyped
  <2>2. stack' \in [Threads -> Seq(Frame)]
    BY <1>1, <1>2, <1>a, <1>0, PushView
  <2>3. tupla_p' \in Int
    BY <1>e, <1>f
  <2> QED BY <1>2, <1>f, <2>1, <2>2, <2>3 DEF TypeInv, audio_vars
<1>8. /\ \A u \in Threads \ {t} : Same(u) /\ stack'[u] = stack[u]
      /\ Owed(t)' = Owed(t) + 2
      /\ Draining(t)' /\ ~Drained(t)' /\ stack'[t] # <<>>
  <2>1. stack[t][1].at # "deactivated"
    BY <1>0
  <2> QED BY <1>0, <1>1, <1>2, <1>a, <2>1, AfterDeactivate, PushView
<1>10. \A c \in Callers : c \in Threads /\ c # audio
  BY OpsAssumption DEF Threads
<1>11. audio \in Threads /\ (t # audio => t \in Callers)
  BY DEF Threads
<1>b. Owed(t) >= 0
  <2>1. Len(stack[t]) \in Nat \ {0}
    BY <1>0, TopIsFirst
  <2>2. ShapeAt(t, 1)
    BY <2>1 DEF ShapeInv
  <2>3. t = audio => Len(stack[t]) > 1
    BY <1>0, <2>1, <2>2 DEF ShapeAt
  <2> QED BY <1>0, <2>1, <2>3 DEF Owed
<1>c. apc \notin {"fill", "unlock", "stuck"}
  BY <1>0 DEF ModeInv
<1>12. LockInv'
  <2>0. NULL \notin Callers /\ NULL # audio
    BY OpsAssumption
  <2>1. 2 * lock.depth = Owed(t)
    <3>1. CASE t # audio
      BY <1>0, <1>11, <3>1 DEF LockInv
    <3>2. CASE t = audio /\ Owed(t) > 0
      BY <3>2 DEF LockInv
    <3>3. CASE t = audio /\ ~(Owed(t) > 0)
      <4>1. Owed(t) = 0
        BY <1>b, <1>e, <3>3
      <4>2. lock.owner = NULL
        BY <1>c, <1>f, <3>3 DEF LockInv
      <4> QED BY <1>e, <4>1, <4>2 DEF LockInv
    <3> QED BY <3>1, <3>2, <3>3
  <2>2. 2 * lock'.depth = Owed(t)' /\ lock'.depth # 0 /\ Owed(t)' > 0
    BY <1>b, <1>e, <1>f, <1>8, <2>1
  <2>6. \A c \in Callers : c # t => pc[c] # "direct" /\ stack[c] = <<>> /\ stack'[c] = stack[c]
    BY <1>f, <1>8, <1>10, <2>0 DEF LockInv
  <2>7. audio # t => ~(Owed(audio)' > 0) /\ stack'[audio] = stack[audio]
    BY <1>f, <1>8, <1>11, <2>0 DEF LockInv, Same
  <2>8. t # audio => pc[t] = "direct"
    BY <1>0, <1>11 DEF LockInv
  <2>9. t = audio => apc = "dequeue"
    BY <1>0 DEF LockInv
  <2> QED BY <1>2, <1>c, <1>e, <1>f, <1>10, <1>11, <2>2, <2>6, <2>7, <2>8, <2>9 DEF LockInv, audio_vars
<1>13. CountInv'
  BY <1>0, <1>2, <1>e, <1>f DEF CountInv, ModeInv, LowLatency, audio_vars
<1>14. PlainInv'
  BY <1>0, <1>2 DEF PlainInv, LowLatency, audio_vars
<1>15. ModeInv'
  <2>1. LowLatency' /\ UNCHANGED <<sink, apc, cur, last, queue>>
    BY <1>0, <1>2 DEF LowLatency, audio_vars
  <2>2. CASE t = audio
    <3>1. Torn(audio)' /\ apc = "dequeue"
      BY <1>0, <1>8, <2>2 DEF Torn, LockInv
    <3> QED BY <1>0, <2>1, <3>1 DEF ModeInv
  <2>3. CASE t # audio
    <3>1. stack'[audio] = stack[audio] /\ (Torn(audio)' <=> Torn(audio))
      BY <1>8, <1>11, <2>3 DEF Torn, Same
    <3>2. stack[t] # <<>> /\ t \in Callers
      BY <1>0, <1>11, <2>3
    <3> QED BY <1>0, <1>2, <2>1, <3>1, <3>2 DEF ModeInv
  <2> QED BY <2>2, <2>3
<1>16. QueueInv'
  <2>1. \A u \in Threads : Drained(u)' => Drained(u)
    BY <1>8 DEF Same
  <2> QED BY <1>2, <1>f, <1>8, <2>1 DEF QueueInv
<1> QED BY <1>4, <1>5, <1>6, <1>12, <1>13, <1>14, <1>15, <1>16

LEMMA DequeueReturn ==
  ASSUME Inv, NEW t \in Threads, DequeueStep(t), ~MayDequeue(Top(t))
  PROVE  Inv'
<1> USE DEF Inv
<1>0. stack[t] # <<>> /\ ~IsOp(t, 1) /\ Top(t) = stack[t][1] /\ stack[t][1] \in Frame
  BY TopIsFirst DEF DequeueStep
<1>1. Pop(t)
  BY DEF DequeueStep, Pop
<1>2. UNCHANGED <<sink, lowlat, mt, made, lock, tupla_p, queue, pc, issued, started, apc, cur, last, plugin>>
  BY DEF DequeueStep, graph_vars, lock_vars, caller_vars, audio_vars
<1>3. Kept(t, 1, 0)
  BY <1>0, <1>1, PopKeeps
<1>4. OrderInv' /\ WaitInv'
  BY <1>2, <1>3, OrderKept, WaitKept
<1>5. TypeInv'
  <2>1. Addresses' = Addresses
    BY <1>2, SinkTyped
  <2>2. stack' \in [Threads -> Seq(Frame)]
    BY <1>0, <1>1, PopView
  <2> QED BY <1>2, <2>1, <2>2 DEF TypeInv
<1>6. ShapeInv'
  BY <1>0, <1>1, <1>2, ShapePop
<1>8. /\ \A u \in Threads \ {t} : Same(u) /\ stack'[u] = stack[u]
      /\ Owed(t)' = Owed(t)
      /\ Draining(t)' => Draining(t)
      /\ Drained(t)' <=> Draining(t)
      /\ t # audio => stack'[t] # <<>> /\ Draining(t)
      /\ stack'[t] = <<>> <=> ~Draining(t)
      /\ Draining(t) => Len(queue) =< stack[t][1].left
  BY <1>0, <1>1, AfterDequeue, PopView
<1>9. Draining(t) => queue = <<>>
  <2>1. stack[t][1].left \in Nat
    BY <1>0, TopIsFirst, DequeueFrame
  <2>2. Len(queue) \in Nat /\ (queue = <<>> <=> Len(queue) = 0)
    BY NoFrames DEF TypeInv
  <2>3. ~(stack[t][1].left > 0 /\ queue # <<>>)
    BY <1>0 DEF MayDequeue
  <2> QED BY <1>8, <2>1, <2>2, <2>3
<1>10. \A c \in Callers : c \in Threads /\ c # audio
  BY OpsAssumption DEF Threads
<1>11. audio \in Threads /\ (t # audio => t \in Callers)
  BY DEF Threads
<1>12. LockInv'
  <2>1. \A c \in Callers : (stack'[c] # <<>> => stack[c] # <<>>) /\ Owed(c)' = Owed(c)
    BY <1>0, <1>8, <1>10 DEF Same
  <2>2. (stack'[audio] # <<>> => stack[audio] # <<>>) /\ Owed(audio)' = Owed(audio)
    BY <1>0, <1>8, <1>11 DEF Same
  <2> QED BY <1>2, <2>1, <2>2 DEF LockInv
<1>13. CountInv'
  BY <1>2 DEF CountInv, LowLatency
<1>14. PlainInv'
  <2>1. \A c \in Callers : Owed(c)' = Owed(c)
    BY <1>8, <1>10 DEF Same
  <2>2. stack[audio] = <<>> => stack'[audio] = <<>>
    BY <1>0, <1>8, <1>11
  <2> QED BY <1>2, <2>1, <2>2 DEF PlainInv, LowLatency
<1>g. \A u \in Threads : Torn(u)' <=> Torn(u)
  <2>1. ~Drained(t)
    BY <1>0 DEF Drained
  <2> QED BY <2>1, <1>8 DEF Torn, Same
<1>15. ModeInv'
  <2>1. \A c \in Callers : stack[c] = <<>> => stack'[c] = <<>>
    BY <1>0, <1>8, <1>10
  <2>2. stack'[audio] # <<>> /\ ~Torn(audio) => stack'[audio] = stack[audio]
    BY <1>8, <1>11 DEF Torn
  <2> QED BY <1>2, <1>11, <1>g, <2>1, <2>2 DEF ModeInv, LowLatency
<1>16. QueueInv'
  <2>1. \A u \in Threads : Drained(u)' => queue = <<>>
    BY <1>8, <1>9 DEF QueueInv, Same
  <2>2. queue # <<>> => \A u \in Threads : Draining(u) => Draining(u)'
    BY <1>8, <1>9 DEF Same
  <2> QED BY <1>2, <1>g, <2>1, <2>2 DEF QueueInv
<1> QED BY <1>4, <1>5, <1>6, <1>12, <1>13, <1>14, <1>15, <1>16

LEMMA DequeueBegin ==
  ASSUME Inv, NEW t \in Threads, DequeueStep(t), MayDequeue(Top(t))
  PROVE  Inv'
<1> USE DEF Inv
<1> DEFINE op == queue[1]
           f == Running(op, "queue")
           g == Counted(stack[t][1])
<1>0. stack[t] # <<>> /\ ~IsOp(t, 1) /\ Top(t) = stack[t][1] /\ stack[t][1] \in Frame
  BY TopIsFirst DEF DequeueStep
<1>a. stack[t][1].frame = "dequeue"
  BY <1>0, TopIsFirst
<1>b. stack[t][1].left \in Nat /\ stack[t][1].left > 0 /\ queue # <<>>
  BY <1>0, <1>a, DequeueFrame DEF MayDequeue
<1>c. g \in Frame /\ g.frame = "dequeue" /\ g.left = stack[t][1].left - 1
  BY <1>0, <1>a, <1>b, DequeueFrame
<1>d. /\ Tail(queue) \in Seq(Ops) /\ Len(Tail(queue)) = Len(queue) - 1
      /\ \A k \in 1..(Len(queue) - 1) : Tail(queue)[k] = queue[k + 1]
      /\ Head(queue) = queue[1] /\ op \in Ops /\ Len(queue) \in Nat \ {0}
  BY <1>b, Popped DEF TypeInv
<1>e. f \in Frame /\ f.frame = "op" /\ f.op = op /\ f.from = "queue" /\ f.at = "start"
  BY <1>d, NewFrames
<1>f. queue' = Tail(queue) /\ started' = [started EXCEPT ![op.caller] = op.id] /\ Push(t, f, g)
  BY <1>0, <1>d DEF DequeueStep, Push, Counted
<1>2. UNCHANGED <<sink, lowlat, mt, made, lock, tupla_p, pc, issued, apc, cur, last, plugin>>
  BY DEF DequeueStep, graph_vars, lock_vars, caller_vars, audio_vars
<1> HIDE DEF f, g
<1>3. /\ queue' \in Seq(Ops) /\ Len(queue') = Len(queue) - 1 /\ Len(queue') \in Nat
      /\ \A k \in 1..Len(queue') : queue'[k] = queue[k + 1]
  BY <1>d, <1>f
<1>h. /\ stack' \in [Threads -> Seq(Frame)] /\ Len(stack'[t]) > 1 /\ stack'[t][1] = f
      /\ Len(stack'[t]) = Len(stack[t]) + 1
      /\ \A u \in Threads \ {t} : stack'[u] = stack[u]
  BY <1>0, <1>c, <1>e, <1>f, PushView
<1>4. OrderInv' /\ WaitInv'
  <2>1. Kept(t, -1, 1)
    BY <1>0, <1>c, <1>e, <1>f, PushOpKeeps
  <2>2. IsOp(t, 1)' /\ stack'[t][1].op = queue[1] /\ stack'[t][1].from = "queue"
    BY <1>e, <1>h DEF IsOp
  <2> QED BY <1>b, <1>2, <1>3, <1>f, <1>h, <2>1, <2>2, DequeueOrder
<1>5. TypeInv'
  <2>1. Addresses' = Addresses
    BY <1>2, SinkTyped
  <2>2. op.caller \in Callers /\ op.id \in Nat
    BY <1>d DEF Ops
  <2>3. started' \in [Callers -> Nat]
    BY <1>f, <2>2 DEF TypeInv
  <2>4. Len(queue') =< MaxQueue
    BY <1>3, <1>d, OpsAssumption DEF TypeInv
  <2> QED BY <1>2, <1>3, <1>h, <2>1, <2>3, <2>4 DEF TypeInv
<1>6. ShapeInv'
  BY <1>0, <1>b, <1>c, <1>e, <1>f, <1>3, ShapePushOp
<1>8. \A u \in Threads : Same(u)
  BY <1>0, <1>c, <1>e, <1>f, AfterPushOp
<1>10. \A c \in Callers : c \in Threads /\ c # audio
  BY OpsAssumption DEF Threads
<1>11. audio \in Threads
  BY DEF Threads
<1>12. LockInv'
  BY <1>2, <1>8, <1>10, <1>11 DEF LockInv, Same
<1>13. CountInv'
  BY <1>2 DEF CountInv, LowLatency
<1>14. PlainInv'
  BY <1>2, <1>b DEF PlainInv, LowLatency
<1>g. \A u \in Threads : (Torn(u)' <=> Torn(u)) /\ (Drained(u)' <=> Drained(u)) /\ (Draining(u)' <=> Draining(u))
  BY <1>8 DEF Torn, Same
<1>15. ModeInv'
  <2>1. \A c \in Callers : stack'[c] = <<>> <=> stack[c] = <<>>
    BY <1>8, <1>10 DEF Same
  <2>2. stack'[audio] = <<>> <=> stack[audio] = <<>>
    BY <1>8, <1>11 DEF Same
  <2> QED BY <1>2, <1>b, <1>11, <1>g, <2>1, <2>2 DEF ModeInv, LowLatency
<1>16. QueueInv'
  BY <1>2, <1>b, <1>g DEF QueueInv
<1> QED BY <1>4, <1>5, <1>6, <1>12, <1>13, <1>14, <1>15, <1>16

(* Any step of a thread in machine_operation_dequeue or in an operation.   *)
LEMMA ExecuteStep ==
  ASSUME Inv, MaxQueue =< Kount, "OpenSL" \notin Reuse, NEW t \in Threads, Execute(t)
  PROVE  Inv'
<1>0. TypeInv
  BY DEF Inv
<1>1. CASE DequeueStep(t)
  BY <1>1, DequeueReturn, DequeueBegin
<1>2. ASSUME NEW kind, NEW at, InOp(t, kind, at)
      PROVE  stack[t] # <<>> /\ IsOp(t, 1) /\ stack[t][1].at = at
  BY <1>0, <1>2, TopIsFirst DEF InOp
<1>3. CASE PlainOp(t) \/ MakeRefused(t) \/ MakeRest(t) \/ KillRefused(t)
  <2>1. \E at \in {"start", "rest"}, kind \in {"plain", "throw", "make", "kill"} : InOp(t, kind, at)
    BY <1>3 DEF PlainOp, MakeRefused, MakeRest, KillRefused
  <2>2. stack[t] # <<>> /\ IsOp(t, 1) /\ stack[t][1].at \in {"start", "rest"}
    BY <1>2, <2>1
  <2>3. Finish(t) /\ UNCHANGED <<graph_vars, lock_vars, queue, audio_vars>>
    BY <1>3 DEF PlainOp, MakeRefused, MakeRest, KillRefused
  <2> QED BY <2>2, <2>3, FinishStep DEF graph_vars
<1>4. CASE KillDeregister(t)
  <2>1. stack[t] # <<>> /\ IsOp(t, 1) /\ stack[t][1].at = "deregister"
    BY <1>2, <1>4 DEF KillDeregister
  <2> QED BY <1>4, <2>1, FinishStep DEF KillDeregister
<1>5. CASE MakeRegister(t)
  <2>1. stack[t] # <<>> /\ IsOp(t, 1) /\ stack[t][1].at = "start"
    BY <1>2, <1>5 DEF MakeRegister
  <2>2. mt' \in Addresses'
    BY <1>0, <1>5 DEF MakeRegister, TypeInv, Addresses
  <2> QED BY <1>5, <2>1, <2>2, GoOnStep DEF MakeRegister
<1>6. CASE MakeInit(t)
  <2>1. stack[t] # <<>> /\ IsOp(t, 1) /\ stack[t][1].at = "init"
    BY <1>2, <1>6 DEF MakeInit
  <2>2. mt' \in Addresses'
    BY <1>0, <1>6 DEF MakeInit, TypeInv, Addresses
  <2> QED BY <1>6, <2>1, <2>2, GoOnStep DEF MakeInit
<1>7. CASE KillForgetOnly(t)
  <2>1. stack[t] # <<>> /\ IsOp(t, 1) /\ stack[t][1].at = "start"
    BY <1>2, <1>7 DEF KillForgetOnly
  <2>2. mt' \in Addresses'
    BY <1>7 DEF KillForgetOnly, Addresses
  <2> QED BY <1>7, <2>1, <2>2, GoOnStep DEF KillForgetOnly
<1> QED BY <1>1, <1>3, <1>4, <1>5, <1>6, <1>7, KillForgetStep, KillDeactivateStep DEF Execute

(* A caller runs its operation itself.                                     *)
LEMMA RequestDirect ==
  ASSUME Inv, NEW c \in Callers, NEW kind \in Kinds, NEW sync \in BOOLEAN,
         Request(c, kind, sync), sink = NULL \/ ~lowlat
  PROVE  Inv'
<1> USE DEF Inv
<1> DEFINE i == issued[c] + 1
           op == [caller |-> c, id |-> i, kind |-> kind, sync |-> sync]
           f == Running(op, "direct")
<1>0. pc[c] = "idle" /\ issued \in [Callers -> Nat] /\ started \in [Callers -> Nat] /\ issued[c] \in Nat
  BY DEF Request, TypeInv
<1>1. /\ issued' = [issued EXCEPT ![c] = i] /\ issued'[c] = i /\ i \in Nat
      /\ issued' \in [Callers -> Nat]
  BY <1>0 DEF Request
<1>2. /\ Enter(c) /\ Begin(c, f) /\ started' = [started EXCEPT ![c] = i]
      /\ pc' = [pc EXCEPT ![c] = "direct"] /\ queue' = queue
  BY <1>1 DEF Request, Begin
<1>3. UNCHANGED <<sink, lowlat, mt, made, apc, cur, last, plugin>>
  BY DEF Request, graph_vars, audio_vars
<1>4. op \in Ops /\ op.caller = c /\ op.id = i
  BY <1>1 DEF Ops
<1>5. f \in Frame /\ f.frame = "op" /\ f.op = op /\ f.from = "direct" /\ f.at = "start"
  <2> HIDE DEF op
  <2> QED BY <1>4, NewFrames
<1> HIDE DEF op, f, i
<1>6. c \in Threads /\ c # audio /\ c # NULL /\ audio \in Threads /\ \A b \in Callers : b \in Threads /\ b # audio
  BY OpsAssumption DEF Threads
<1>7. stack[c] = <<>> /\ lock.owner = NULL /\ lock.depth = 0
  BY <1>0, <1>2 DEF LockInv, Enter, CanEnter
<1>8. /\ lock'.owner = c /\ lock'.depth = 1 /\ tupla_p' = tupla_p + 1
      /\ lock' \in [owner : Threads \cup {NULL}, depth : Nat]
  BY <1>2, <1>6, <1>7 DEF Enter
<1>9. queue = <<>>
  <2>1. \A t \in Threads : lock.owner # t
    BY <1>7, OpsAssumption DEF Threads
  <2> QED BY <2>1 DEF QueueInv
<1>10. /\ stack' \in [Threads -> Seq(Frame)]
       /\ \A u \in Threads \ {c} : stack'[u] = stack[u]
       /\ stack'[c] # <<>> /\ Len(stack'[c]) = 1 /\ stack'[c][1] = f
  BY <1>2, <1>5, <1>6, BeginView
<1>11. /\ started' \in [Callers -> Nat] /\ started'[c] = i /\ issued'[c] = i
       /\ pc' \in [Callers -> {"idle", "direct", "wait", "stuck"}] /\ pc'[c] = "direct"
       /\ \A b \in Callers \ {c} : started'[b] = started[b] /\ issued'[b] = issued[b] /\ pc'[b] = pc[b]
  BY <1>0, <1>1, <1>2 DEF TypeInv
<1>12. TypeInv'
  <2>1. Addresses' = Addresses
    BY <1>3, SinkTyped
  <2>2. tupla_p' \in Int
    BY <1>8 DEF TypeInv
  <2> QED BY <1>1, <1>2, <1>3, <1>8, <1>10, <1>11, <2>1, <2>2 DEF TypeInv
<1>13. ShapeInv'
  BY <1>2, <1>5, <1>6, ShapeBegin
<1>14. /\ \A u \in Threads \ {c} : Same(u)
       /\ Owed(c)' = 2 /\ ~Draining(c)' /\ ~Drained(c)'
  <2>1. \A u \in Threads \ {c} : Same(u)
    BY <1>10, SameStack
  <2>2. Owed(c)' = 2
    BY <1>5, <1>6, <1>10 DEF Owed, IsOp
  <2>3. ~Draining(c)' /\ ~Drained(c)'
    BY <1>5, <1>10 DEF Draining, Drained, IsOp
  <2> QED BY <2>1, <2>2, <2>3
<1>15. LockInv'
  <2>1. \A b \in Callers \ {c} : pc[b] # "direct" /\ stack'[b] = <<>>
    BY <1>6, <1>7, <1>10, OpsAssumption DEF LockInv
  <2>2. stack'[audio] = stack[audio] /\ Owed(audio)' = Owed(audio) /\ ~(Owed(audio) > 0) /\ apc # "fill"
    BY <1>6, <1>7, <1>10, <1>14, OpsAssumption DEF LockInv, Same
  <2>3. 2 * lock'.depth = Owed(c)' /\ lock'.depth # 0
    BY <1>8, <1>14
  <2>4. ASSUME NEW b \in Callers
        PROVE  /\ stack'[b] # <<>> => pc'[b] = "direct"
               /\ pc'[b] = "direct" => lock'.owner = b /\ 2 * lock'.depth = Owed(b)'
               /\ lock'.owner = b => pc'[b] \in {"direct", "stuck"}
    <3>1. CASE b = c
      BY <1>8, <1>11, <2>3, <3>1
    <3>2. CASE b # c
      BY <1>8, <1>11, <2>1, <3>2
    <3> QED BY <3>1, <3>2
  <2>5. lock'.owner # NULL /\ lock'.owner # audio
    BY <1>6, <1>8
  <2> QED BY <1>3, <2>2, <2>3, <2>4, <2>5 DEF LockInv
<1>16. CountInv'
  <2>1. LowLatency \/ plugin \notin RenderFails => apc # "unlock"
    BY <1>6, <1>7, OpsAssumption DEF CountInv
  <2> QED BY <1>3, <1>7, <1>8, <1>11, <2>1 DEF CountInv, LowLatency
<1>17. PlainInv'
  BY <1>2, <1>3, <1>6, <1>10, <1>14 DEF PlainInv, LowLatency, Same
<1>18. ModeInv'
  <2>1. stack'[audio] = stack[audio] /\ (Torn(audio)' <=> Torn(audio))
    BY <1>6, <1>10, <1>14 DEF Torn, Same
  <2> QED BY <1>2, <1>3, <2>1 DEF ModeInv, LowLatency
<1>19. QueueInv'
  BY <1>2, <1>3, <1>9, <1>14 DEF QueueInv, Torn, Same
<1>a. ASSUME NEW u \in Threads, NEW k \in 1..Len(stack'[u])
      PROVE  \/ u = c /\ k = 1 /\ stack'[u][k] = f
             \/ u # c /\ stack'[u] = stack[u] /\ k \in 1..Len(stack[u])
  <2>1. CASE u = c
    <3>1. k \in 1..1
      BY <1>10, <2>1
    <3>2. k = 1
      BY <3>1
    <3> QED BY <1>10, <2>1, <3>2
  <2>2. CASE u # c
    BY <1>10, <2>2
  <2> QED BY <2>1, <2>2
<1>20. OrderInv'
  <2>1. Begun'
    <3> SUFFICES ASSUME NEW u \in Threads, NEW k \in 1..Len(stack'[u]), IsOp(u, k)'
                 PROVE  stack'[u][k].op.id =< started'[stack'[u][k].op.caller]
      BY DEF Begun
    <3>1. CASE u = c
      BY <3>1, <1>a, <1>1, <1>4, <1>5, <1>11
    <3>2. CASE u # c
      <4> DEFINE o == stack[u][k].op
      <4>1. stack'[u][k].op = o /\ IsOp(u, k) /\ k \in 1..Len(stack[u])
        BY <1>a, <3>2 DEF IsOp
      <4>2. o.caller \in Callers /\ o.id \in Nat /\ o.id =< started[o.caller]
        BY <4>1, OpsTyped DEF OrderInv, Begun
      <4>3. started[c] =< issued[c]
        BY DEF OrderInv
      <4> HIDE DEF o
      <4>4. o.id =< started'[o.caller]
        <5>1. CASE o.caller = c
          <6>1. i = issued[c] + 1
            BY DEF i
          <6> QED BY <1>0, <1>11, <4>2, <4>3, <5>1, <6>1
        <5>2. CASE o.caller # c
          BY <1>11, <4>2, <5>2
        <5> QED BY <5>1, <5>2
      <4> QED BY <4>1, <4>4
    <3> QED BY <3>1, <3>2
  <2>2. \A b \in Callers : started'[b] =< issued'[b]
    BY <1>1, <1>11 DEF OrderInv
  <2>3. queue' = <<>> /\ DOMAIN queue' = {} /\ 1..Len(queue') = {}
    BY <1>2, <1>9
  <2> QED BY <2>1, <2>2, <2>3 DEF OrderInv, InOrder
<1>21. WaitInv'
  <2>1. 1..Len(queue') = {}
    BY <1>2, <1>9
  <2>2. ASSUME NEW u \in Threads, NEW k \in 1..Len(stack'[u]), NEW b \in Callers, Waited(u, k, b)'
        PROVE  /\ u # c /\ stack'[u] = stack[u] /\ k \in 1..Len(stack[u]) /\ Waited(u, k, b) /\ b # c
    <3>1. u # c /\ stack'[u] = stack[u] /\ k \in 1..Len(stack[u])
      BY <1>a, <1>5, <2>2 DEF Waited
    <3>2. Waited(u, k, b)
      BY <2>2, <3>1 DEF Waited, IsOp
    <3> QED BY <1>0, <3>1, <3>2 DEF WaitInv
  <2>3. ASSUME NEW b \in Callers, NEW u \in Threads, NEW k \in 1..Len(stack'[u]), Waited(u, k, b)'
        PROVE  pc'[b] = "wait" /\ stack'[u][k].op.id = issued'[b]
    BY <1>11, <2>2, <2>3 DEF WaitInv
  <2>4. ASSUME NEW b \in Callers, NEW u \in Threads, NEW k \in 1..Len(stack'[u]), Waited(u, k, b)',
               NEW v \in Threads, NEW j \in 1..Len(stack'[v]), Waited(v, j, b)'
        PROVE  v = u /\ j = k
    <3>1. k \in 1..Len(stack[u]) /\ Waited(u, k, b)
      BY <2>2, <2>4
    <3>2. j \in 1..Len(stack[v]) /\ Waited(v, j, b)
      BY <2>2, <2>4
    <3> QED BY <3>1, <3>2 DEF WaitInv
  <2> QED BY <2>1, <2>3, <2>4 DEF WaitInv
<1> QED BY <1>12, <1>13, <1>15, <1>16, <1>17, <1>18, <1>19, <1>20, <1>21

(* A caller leaves its operation to the audio thread.                      *)
LEMMA RequestQueued ==
  ASSUME Inv, NEW c \in Callers, NEW kind \in Kinds, NEW sync \in BOOLEAN,
         Request(c, kind, sync), sink # NULL /\ lowlat
  PROVE  Inv'
<1> USE DEF Inv
<1> DEFINE i == issued[c] + 1
           op == [caller |-> c, id |-> i, kind |-> kind, sync |-> sync]
<1>0. /\ pc[c] = "idle" /\ issued \in [Callers -> Nat] /\ started \in [Callers -> Nat]
      /\ issued[c] \in Nat /\ queue \in Seq(Ops) /\ started[c] =< issued[c]
  BY DEF Request, TypeInv, OrderInv
<1>1. /\ issued' = [issued EXCEPT ![c] = i] /\ issued'[c] = i /\ i \in Nat /\ i > issued[c]
      /\ issued' \in [Callers -> Nat] /\ \A b \in Callers \ {c} : issued'[b] = issued[b]
  BY <1>0 DEF Request
<1>2. /\ queue' = Append(queue, op) /\ Len(queue) < MaxQueue
      /\ pc' = [pc EXCEPT ![c] = IF sync THEN "wait" ELSE "idle"]
  BY <1>1 DEF Request
<1>3. UNCHANGED <<sink, lowlat, mt, made, apc, cur, last, plugin, lock, tupla_p, stack, started>>
  BY DEF Request, graph_vars, audio_vars, lock_vars
<1>4. op \in Ops /\ op.caller = c /\ op.id = i /\ op.sync = sync
  BY <1>1 DEF Ops
<1> HIDE DEF op, i
<1>5. /\ queue' \in Seq(Ops) /\ Len(queue') = Len(queue) + 1 /\ Len(queue) \in Nat
      /\ queue'[Len(queue) + 1] = op /\ \A k \in 1..Len(queue) : queue'[k] = queue[k]
  BY <1>0, <1>2, <1>4, AppendProperties
<1>6. c \in Threads /\ c # audio /\ audio \in Threads /\ \A b \in Callers : b \in Threads /\ b # audio
  BY OpsAssumption DEF Threads
<1>7. /\ pc' \in [Callers -> {"idle", "direct", "wait", "stuck"}]
      /\ pc'[c] = (IF sync THEN "wait" ELSE "idle")
      /\ \A b \in Callers \ {c} : pc'[b] = pc[b]
  BY <1>2 DEF TypeInv
<1>8. \A u \in Threads : Same(u) /\ stack'[u] = stack[u]
  BY <1>3, SameStack
<1>9. \A u \in Threads : ~Torn(u) /\ ~Draining(u) /\ ~Drained(u)
  BY DEF QueueInv, Torn
<1>10. LowLatency
  BY DEF PlainInv
<1>12. TypeInv'
  <2>1. Addresses' = Addresses
    BY <1>3, SinkTyped
  <2>2. Len(queue') =< MaxQueue
    BY <1>2, <1>5, OpsAssumption
  <2> QED BY <1>1, <1>3, <1>5, <1>7, <2>1, <2>2 DEF TypeInv
<1>13. ShapeInv'
  BY <1>3, <1>9, ShapeEnqueue
<1>15. LockInv'
  <2>1. pc'[c] # "direct" /\ stack[c] = <<>> /\ lock.owner # c
    BY <1>0, <1>7 DEF LockInv
  <2>2. \A u \in Threads : Owed(u)' = Owed(u)
    BY <1>8 DEF Same
  <2> QED BY <1>3, <1>6, <1>7, <2>1, <2>2 DEF LockInv
<1>16. CountInv'
  BY <1>3, <1>7 DEF CountInv, LowLatency
<1>17. PlainInv'
  BY <1>3, <1>10 DEF PlainInv, LowLatency
<1>18. ModeInv'
  <2>1. Torn(audio)' <=> Torn(audio)
    BY <1>6, <1>8 DEF Torn, Same
  <2> QED BY <1>3, <1>6, <1>9, <2>1 DEF ModeInv, LowLatency
<1>19. QueueInv'
  BY <1>3, <1>8, <1>9 DEF QueueInv, Torn, Same
<1>20. OrderInv'
  <2>1. Begun'
    BY <1>3 DEF OrderInv, Begun, IsOp
  <2>2. \A b \in Callers : started'[b] =< issued'[b]
    BY <1>0, <1>1, <1>3 DEF OrderInv
  <2>3. ASSUME NEW k \in 1..Len(queue')
        PROVE  /\ queue'[k].id =< issued'[queue'[k].caller]
               /\ started'[queue'[k].caller] < queue'[k].id
               /\ \A j \in 1..Len(queue') : j < k /\ queue'[j].caller = queue'[k].caller
                                              => queue'[j].id < queue'[k].id
    <3>0. ASSUME NEW j \in 1..Len(queue)
          PROVE  /\ queue'[j] = queue[j] /\ queue[j].caller \in Callers /\ queue[j].id \in Nat
                 /\ queue[j].id =< issued[queue[j].caller]
                 /\ started[queue[j].caller] < queue[j].id
      <4>1. j \in DOMAIN queue
        BY <1>0
      <4>2. queue[j].caller \in Callers /\ queue[j].id \in Nat
        BY OpsTyped
      <4> QED BY <1>5, <4>1, <4>2 DEF OrderInv, InOrder
    <3>1. CASE k \in 1..Len(queue)
      <4>1. \A j \in 1..Len(queue') : j < k => j \in 1..Len(queue)
        BY <1>5, <3>1
      <4>2. queue[k].id =< issued'[queue[k].caller]
        <5>1. CASE queue[k].caller = c
          BY <1>0, <1>1, <3>0, <3>1, <5>1
        <5>2. CASE queue[k].caller # c
          BY <1>1, <3>0, <3>1, <5>2
        <5> QED BY <5>1, <5>2
      <4> QED BY <1>3, <3>0, <3>1, <4>1, <4>2 DEF OrderInv
    <3>2. CASE k = Len(queue) + 1
      <4>1. queue'[k] = op /\ \A j \in 1..Len(queue') : j < k => j \in 1..Len(queue)
        BY <1>5, <3>2
      <4>2. ASSUME NEW j \in 1..Len(queue), queue[j].caller = c PROVE queue[j].id < i
        <5>1. queue[j].id \in Nat /\ queue[j].id =< issued[c]
          BY <3>0, <4>2
        <5> QED BY <1>0, <1>1, <5>1
      <4>3. started[c] < i /\ i =< i
        BY <1>0, <1>1
      <4>4. op.id =< issued'[op.caller] /\ started'[op.caller] < op.id
        BY <1>1, <1>3, <1>4, <4>3
      <4>5. \A j \in 1..Len(queue') : j < k /\ queue'[j].caller = c => queue'[j].id < i
        BY <3>0, <4>1, <4>2
      <4> QED BY <1>4, <4>1, <4>4, <4>5
    <3> QED BY <1>5, <3>1, <3>2
  <2>4. DOMAIN queue' = 1..Len(queue')
    BY <1>5
  <2> QED BY <2>1, <2>2, <2>3, <2>4 DEF OrderInv, InOrder
<1>21. WaitInv'
  <2>1. \A u \in Threads, b \in Callers : \A k \in 1..Len(stack[u]) :
            (Waited(u, k, b)' <=> Waited(u, k, b)) /\ (Waited(u, k, b) => b # c)
    BY <1>0, <1>3 DEF WaitInv, Waited, IsOp
  <2>2. ASSUME NEW b \in Callers, NEW k \in 1..Len(queue'), queue'[k].sync, queue'[k].caller = b
        PROVE  pc'[b] = "wait" /\ queue'[k].id = issued'[b]
    <3>1. CASE k \in 1..Len(queue)
      <4>1. pc[b] = "wait" /\ queue[k].id = issued[b] /\ queue'[k] = queue[k]
        BY <1>5, <2>2, <3>1 DEF WaitInv
      <4> QED BY <1>0, <1>1, <1>7, <4>1
    <3>2. CASE k = Len(queue) + 1
      BY <1>1, <1>4, <1>5, <1>7, <2>2, <3>2
    <3> QED BY <1>5, <3>1, <3>2
  <2>3. ASSUME NEW b \in Callers, NEW u \in Threads, NEW k \in 1..Len(stack[u]), Waited(u, k, b)
        PROVE  pc'[b] = "wait" /\ stack[u][k].op.id = issued'[b]
    BY <1>1, <1>7, <2>1, <2>3 DEF WaitInv
  <2>4. ASSUME NEW b \in Callers, NEW u \in Threads, NEW k \in 1..Len(stack[u]), Waited(u, k, b),
               NEW v \in Threads, NEW j \in 1..Len(stack[v]), Waited(v, j, b)
        PROVE  v = u /\ j = k
    BY <2>4 DEF WaitInv
  <2> QED BY <1>3, <2>1, <2>2, <2>3, <2>4 DEF WaitInv
<1> QED BY <1>12, <1>13, <1>15, <1>16, <1>17, <1>18, <1>19, <1>20, <1>21

(* A caller's own operation is over.                                       *)
LEMMA DirectReturnStep ==
  ASSUME Inv, NEW c \in Callers, DirectReturn(c)
  PROVE  Inv'
<1> USE DEF Inv
<1>1. pc[c] = "direct" /\ stack[c] = <<>>
  BY DEF DirectReturn
<1>2. UNCHANGED <<sink, lowlat, mt, made, apc, cur, last, plugin, queue, stack, issued, started>>
  BY DEF DirectReturn, graph_vars, audio_vars
<1>3. c \in Threads /\ c # audio /\ c # NULL /\ audio \in Threads /\ \A b \in Callers : b \in Threads /\ b # audio
  BY OpsAssumption DEF Threads
<1>4. lock.owner = c /\ lock.depth = 1
  <2>1. Owed(c) = 2
    BY <1>1, <1>3 DEF Owed
  <2>2. lock.owner = c /\ 2 * lock.depth = 2 /\ lock.depth \in Nat
    BY <1>1, <2>1 DEF LockInv, TypeInv
  <2> QED BY <2>2
<1>5. /\ tupla_p' = tupla_p - 1 /\ tupla_p \in Int
      /\ pc' = [pc EXCEPT ![c] = IF tupla_p' < 0 THEN "stuck" ELSE "idle"]
      /\ tupla_p' < 0 => lock' = lock
      /\ ~(tupla_p' < 0) => lock'.owner = NULL /\ lock'.depth = 0
      /\ lock' \in [owner : Threads \cup {NULL}, depth : Nat]
  BY <1>4 DEF DirectReturn, Leave, TypeInv
<1>6. /\ pc' \in [Callers -> {"idle", "direct", "wait", "stuck"}]
      /\ pc'[c] = (IF tupla_p' < 0 THEN "stuck" ELSE "idle")
      /\ \A b \in Callers \ {c} : pc'[b] = pc[b] /\ pc[b] # "direct" /\ stack[b] = <<>>
  BY <1>3, <1>4, <1>5, OneHolds DEF TypeInv
<1>7. \A u \in Threads : Same(u)
  BY <1>2, SameStack
<1>8. TypeInv'
  <2>1. Addresses' = Addresses /\ tupla_p' \in Int
    BY <1>2, <1>5, SinkTyped
  <2> QED BY <1>2, <1>5, <1>6, <2>1 DEF TypeInv
<1>9. ShapeInv'
  BY <1>2 DEF ShapeInv, ShapeAt, IsOp
<1>10. LockInv'
  <2>1. ~(Owed(audio) > 0) /\ Owed(audio)' = Owed(audio)
    BY <1>3, <1>4, <1>7, OneHolds DEF Same
  <2>2. apc # "fill"
    BY <1>3, <1>4 DEF LockInv
  <2>3. lock'.owner \in {NULL, c} /\ (lock'.depth = 0 <=> lock'.owner = NULL) /\ (lock'.owner = c => pc'[c] = "stuck")
    BY <1>3, <1>4, <1>5, <1>6
  <2>4. pc'[c] # "direct"
    BY <1>6
  <2>5. NULL \notin Callers /\ NULL # audio
    BY OpsAssumption
  <2> QED BY <1>1, <1>2, <1>3, <1>6, <2>1, <2>2, <2>3, <2>4, <2>5 DEF LockInv
<1>11. CountInv'
  <2> SUFFICES ASSUME LowLatency \/ plugin \notin RenderFails
               PROVE  /\ tupla_p' = lock'.depth
                      /\ apc' # "unlock" /\ apc' # "stuck" /\ \A b \in Callers : pc'[b] # "stuck"
    BY <1>2 DEF CountInv, LowLatency
  <2>1. tupla_p = 1 /\ apc # "unlock" /\ apc # "stuck" /\ \A b \in Callers : pc[b] # "stuck"
    BY <1>3, <1>4 DEF CountInv
  <2> QED BY <1>2, <1>5, <1>6, <2>1
<1>12. PlainInv'
  BY <1>2, <1>3, <1>7 DEF PlainInv, LowLatency, Same
<1>13. ModeInv'
  BY <1>2, <1>3, <1>7 DEF ModeInv, LowLatency, Same, Torn
<1>14. QueueInv'
  <2>1. ~Draining(c)
    BY <1>1 DEF Draining
  <2>2. queue # <<>> => lowlat
    BY <1>4, <2>1 DEF QueueInv
  <2> QED BY <1>2, <1>7, <2>2 DEF QueueInv, Torn, Same
<1>15. OrderInv'
  BY <1>2 DEF OrderInv, InOrder, Begun, IsOp
<1>16. WaitInv'
  <2>1. \A u \in Threads, b \in Callers : \A k \in 1..Len(stack[u]) :
            (Waited(u, k, b)' <=> Waited(u, k, b)) /\ (Waited(u, k, b) => b # c)
    BY <1>1, <1>2 DEF WaitInv, Waited, IsOp
  <2>2. ASSUME NEW b \in Callers, NEW k \in 1..Len(queue), queue[k].sync, queue[k].caller = b
        PROVE  pc'[b] = "wait" /\ queue[k].id = issued[b]
    <3>1. pc[b] = "wait" /\ queue[k].id = issued[b]
      BY <2>2 DEF WaitInv
    <3> QED BY <1>1, <1>6, <3>1
  <2>3. ASSUME NEW b \in Callers, NEW u \in Threads, NEW k \in 1..Len(stack[u]), Waited(u, k, b)
        PROVE  pc'[b] = "wait" /\ stack[u][k].op.id = issued[b]
    BY <1>6, <2>1, <2>3 DEF WaitInv
  <2>4. ASSUME NEW b \in Callers, NEW u \in Threads, NEW k \in 1..Len(stack[u]), Waited(u, k, b),
               NEW v \in Threads, NEW j \in 1..Len(stack[v]), Waited(v, j, b)
        PROVE  v = u /\ j = k
    BY <2>4 DEF WaitInv
  <2> QED BY <1>2, <2>1, <2>2, <2>3, <2>4 DEF WaitInv
<1> QED BY <1>8, <1>9, <1>10, <1>11, <1>12, <1>13, <1>14, <1>15, <1>16

-----------------------------------------------------------------------------
(* The audio thread                                                        *)

(* The stacks and the queue are as they were.                              *)
LEMMA AudioKeeps ==
  ASSUME Inv, UNCHANGED <<stack, queue, pc, issued, started, plugin>>
  PROVE  /\ ShapeInv' /\ OrderInv' /\ WaitInv' /\ (LowLatency' <=> LowLatency)
         /\ \A u \in Threads : Same(u)
<1> USE DEF Inv
<1>1. ShapeInv'
  BY DEF ShapeInv, ShapeAt, IsOp
<1>2. OrderInv'
  BY DEF OrderInv, InOrder, Begun, IsOp
<1>3. WaitInv'
  BY DEF WaitInv, Waited, IsOp
<1>4. \A u \in Threads : Same(u)
  BY SameStack
<1> QED BY <1>1, <1>2, <1>3, <1>4 DEF LowLatency

(* The audio thread moves on, and nothing changes that others see.         *)
LEMMA AudioMoves ==
  ASSUME Inv, AudioLook \/ AudioCheck \/ AudioMode \/ AudioDequeued \/ AudioFilled
  PROVE  Inv'
<1> USE DEF Inv
<1>0. UNCHANGED <<sink, lowlat, mt, made, lock, tupla_p, stack, queue, pc, issued, started, plugin, last>>
  BY DEF AudioLook, AudioCheck, AudioMode, AudioDequeued, AudioFilled, AudioSkip, graph_vars, lock_vars
<1>1. /\ ShapeInv' /\ OrderInv' /\ WaitInv' /\ (LowLatency' <=> LowLatency)
      /\ \A u \in Threads : Same(u)
  BY <1>0, AudioKeeps
<1>2. \A c \in Callers : c \in Threads /\ c # audio
  BY OpsAssumption DEF Threads
<1>3. audio \in Threads
  BY DEF Threads
<1>4. \A u \in Threads : (Torn(u)' <=> Torn(u)) /\ Owed(u)' = Owed(u) /\ (Draining(u)' <=> Draining(u)) /\ (Drained(u)' <=> Drained(u))
  BY <1>1 DEF Same, Torn
<1>5. stack[audio] = <<>>
  BY DEF AudioLook, AudioCheck, AudioMode, AudioDequeued, AudioFilled, LockInv
<1>a. ~Torn(audio) /\ ~(Owed(audio) > 0)
  BY <1>5 DEF Torn, Draining, Drained, Owed
<1>6. QueueInv'
  BY <1>0, <1>4 DEF QueueInv
<1>7. CASE AudioLook
  <2>1. /\ apc = "look" /\ cur' = mt /\ apc' \in {"look", "check", "enable"}
        /\ cur' = NULL => apc' = "look"
        /\ ~LowLatency => apc' # "enable"
        /\ LowLatency /\ apc' = "check" => cur' = last
    BY <1>7 DEF AudioLook
  <2>2. TypeInv'
    BY <1>0, <2>1, SinkTyped DEF TypeInv
  <2>3. LockInv' /\ CountInv' /\ PlainInv'
    BY <1>0, <1>1, <1>2, <1>3, <1>4, <1>5, <1>a, <2>1 DEF LockInv, CountInv, PlainInv
  <2>4. ModeInv'
    BY <1>0, <1>1, <1>2, <1>3, <1>4, <1>5, <1>a, <2>1 DEF ModeInv
  <2> QED BY <1>1, <1>6, <2>2, <2>3, <2>4
<1>8. CASE AudioCheck
  <2>1. apc = "check" /\ cur' = cur /\ apc' = IF sink # cur THEN "look" ELSE "mode"
    BY <1>8 DEF AudioCheck
  <2>2. TypeInv'
    BY <1>0, <2>1, SinkTyped DEF TypeInv
  <2>3. LockInv' /\ CountInv' /\ PlainInv'
    BY <1>0, <1>1, <1>2, <1>3, <1>4, <1>5, <1>a, <2>1 DEF LockInv, CountInv, PlainInv
  <2>4. ModeInv'
    BY <1>0, <1>1, <1>2, <1>3, <1>4, <1>5, <1>a, <2>1 DEF ModeInv
  <2> QED BY <1>1, <1>6, <2>2, <2>3, <2>4
<1>9. CASE AudioMode
  <2>1. apc = "mode" /\ cur' = cur /\ apc' = IF lowlat THEN "render" ELSE "lock"
    BY <1>9 DEF AudioMode
  <2>2. TypeInv'
    BY <1>0, <2>1, SinkTyped DEF TypeInv
  <2>3. LockInv' /\ CountInv' /\ PlainInv'
    BY <1>0, <1>1, <1>2, <1>3, <1>4, <1>5, <1>a, <2>1 DEF LockInv, CountInv, PlainInv
  <2>5. LowLatency => lowlat
    BY <1>a, <2>1 DEF ModeInv
  <2>4. ModeInv'
    BY <1>0, <1>1, <1>2, <1>3, <1>4, <1>5, <1>a, <2>1, <2>5 DEF ModeInv
  <2> QED BY <1>1, <1>6, <2>2, <2>3, <2>4
<1>10. CASE AudioDequeued
  <2>1. apc = "dequeue" /\ cur' = cur /\ apc' = "look"
    BY <1>10 DEF AudioDequeued
  <2>2. TypeInv'
    BY <1>0, <2>1, SinkTyped DEF TypeInv
  <2>3. LockInv' /\ CountInv' /\ PlainInv'
    BY <1>0, <1>1, <1>2, <1>3, <1>4, <1>5, <1>a, <2>1 DEF LockInv, CountInv, PlainInv
  <2>4. ModeInv'
    BY <1>0, <1>1, <1>2, <1>3, <1>4, <1>5, <1>a, <2>1 DEF ModeInv
  <2> QED BY <1>1, <1>6, <2>2, <2>3, <2>4
<1>11. CASE AudioFilled
  <2>1. apc = "fill" /\ cur' = cur /\ apc' = "unlock"
    BY <1>11 DEF AudioFilled
  <2>2. TypeInv'
    BY <1>0, <2>1, SinkTyped DEF TypeInv
  <2>3. LockInv' /\ CountInv' /\ PlainInv'
    BY <1>0, <1>1, <1>2, <1>3, <1>4, <1>5, <1>a, <2>1 DEF LockInv, CountInv, PlainInv
  <2>4. ModeInv'
    BY <1>1, <2>1 DEF ModeInv
  <2> QED BY <1>1, <1>6, <2>2, <2>3, <2>4
<1> QED BY <1>7, <1>8, <1>9, <1>10, <1>11

(* activate_low_latency_mode: nobody has the lock, so nobody executes an   *)
(* operation of its own.                                                   *)
LEMMA AudioEnableStep ==
  ASSUME Inv, AudioEnable
  PROVE  Inv'
<1> USE DEF Inv
<1>0. UNCHANGED <<sink, mt, made, lock, tupla_p, stack, queue, pc, issued, started, plugin, cur>>
  BY DEF AudioEnable, AudioSkip, lock_vars
<1>1. apc = "enable" /\ lock.owner \in {NULL, audio} /\ lowlat' = TRUE /\ last' = cur /\ apc' = "check"
  BY DEF AudioEnable, CanEnter
<1>2. /\ ShapeInv' /\ OrderInv' /\ WaitInv' /\ (LowLatency' <=> LowLatency)
      /\ \A u \in Threads : Same(u)
  BY <1>0, AudioKeeps
<1>3. LowLatency /\ LowLatency'
  BY <1>1, <1>2 DEF PlainInv
<1>4. (\A c \in Callers : c \in Threads /\ c # audio /\ c # NULL) /\ audio \in Threads
  BY OpsAssumption DEF Threads
<1>5. stack[audio] = <<>> /\ \A c \in Callers : stack[c] = <<>>
  BY <1>1, <1>4 DEF LockInv
<1>6. \A u \in Threads : stack[u] = <<>>
  BY <1>5 DEF Threads
<1>7. \A u \in Threads : ~Torn(u) /\ ~Torn(u)' /\ ~Drained(u)'
  BY <1>0, <1>6 DEF Torn, Draining, Drained
<1>8. TypeInv'
  BY <1>0, <1>1, SinkTyped DEF TypeInv
<1>9. LockInv' /\ CountInv'
  BY <1>0, <1>1, <1>2, <1>4, <1>5 DEF LockInv, CountInv, Same
<1>10. PlainInv'
  BY <1>3 DEF PlainInv
<1>11. ModeInv'
  BY <1>0, <1>1, <1>3, <1>5 DEF ModeInv
<1>12. QueueInv'
  BY <1>0, <1>1, <1>7 DEF QueueInv
<1> QED BY <1>2, <1>8, <1>9, <1>10, <1>11, <1>12

(* fill_this_sink has rendered and goes on to the queue.                   *)
LEMMA AudioRenderedStep ==
  ASSUME Inv, AudioRendered
  PROVE  Inv'
<1> USE DEF Inv
<1> DEFINE d == Dequeueing
<1>0. UNCHANGED <<sink, lowlat, mt, made, lock, tupla_p, queue, pc, issued, started, plugin, cur, last>>
  BY DEF AudioRendered, AudioSkip, graph_vars, lock_vars
<1>1. apc = "render" /\ apc' = "dequeue" /\ Begin(audio, d)
  BY DEF AudioRendered, Begin
<1>2. d \in Frame /\ d.frame = "dequeue"
  BY NewFrames
<1> HIDE DEF d
<1>3. LowLatency /\ LowLatency'
  BY <1>0, <1>1 DEF PlainInv, LowLatency
<1>4. (\A c \in Callers : c \in Threads /\ c # audio /\ c # NULL) /\ audio \in Threads
  BY OpsAssumption DEF Threads
<1>5. /\ stack' \in [Threads -> Seq(Frame)]
      /\ \A u \in Threads \ {audio} : stack'[u] = stack[u]
      /\ stack'[audio] # <<>> /\ Len(stack'[audio]) = 1 /\ stack'[audio][1] = d
  BY <1>1, <1>2, <1>4, BeginView
<1>6. stack[audio] = <<>>
  BY <1>1 DEF LockInv
<1>7. \A u \in Threads \ {audio} : Same(u)
  BY <1>5, SameStack
<1>8. Owed(audio)' = 0 /\ Owed(audio) = 0 /\ ~Torn(audio)' /\ ~Torn(audio) /\ ~Draining(audio) /\ ~Drained(audio)'
  <2>1. Owed(audio) = 0 /\ ~Torn(audio) /\ ~Draining(audio)
    BY <1>6 DEF Owed, Torn, Draining, Drained
  <2>2. Owed(audio)' = 0
    BY <1>2, <1>5 DEF Owed, IsOp
  <2>3. ~Torn(audio)' /\ ~Drained(audio)'
    BY <1>2, <1>5 DEF Torn, Draining, Drained, IsOp
  <2> QED BY <2>1, <2>2, <2>3
<1>9. TypeInv'
  <2>1. Addresses' = Addresses
    BY <1>0, SinkTyped
  <2> QED BY <1>0, <1>1, <1>5, <2>1 DEF TypeInv
<1>10. ShapeInv'
  BY <1>0, <1>1, <1>2, <1>4, ShapeBegin
<1>11. LockInv'
  BY <1>0, <1>1, <1>4, <1>5, <1>7, <1>8 DEF LockInv, Same
<1>12. CountInv' /\ PlainInv'
  BY <1>0, <1>1, <1>3 DEF CountInv, PlainInv
<1>13. ModeInv'
  <2>1. \A c \in Callers : stack'[c] = stack[c]
    BY <1>4, <1>5
  <2> QED BY <1>0, <1>1, <1>3, <1>8, <2>1 DEF ModeInv
<1>14. QueueInv'
  <2>1. \A u \in Threads : (Torn(u)' => Torn(u)) /\ (Drained(u)' => Drained(u)) /\ (Draining(u) => Draining(u)')
    BY <1>7, <1>8 DEF Torn, Same
  <2> QED BY <1>0, <2>1 DEF QueueInv
<1>15. Kept(audio, 0, 0)
  <2>1. \A k \in 1..Len(stack'[audio]) : stack'[audio][k] = d
    <3> SUFFICES ASSUME NEW k \in 1..Len(stack'[audio]) PROVE stack'[audio][k] = d
      OBVIOUS
    <3>1. k \in 1..1
      BY <1>5
    <3>2. k = 1
      BY <3>1
    <3> QED BY <1>5, <3>2
  <2> QED BY <1>2, <1>5, <2>1 DEF Kept, IsOp
<1>16. OrderInv' /\ WaitInv'
  BY <1>0, <1>4, <1>15, OrderKept, WaitKept
<1> QED BY <1>9, <1>10, <1>11, <1>12, <1>13, <1>14, <1>16

(* fill_this_sink with the lock: it is taken, and given back once or, when *)
(* the rendering throws, twice.                                            *)
LEMMA AudioLockStep ==
  ASSUME Inv, AudioLock \/ AudioFillThrows \/ AudioUnlock
  PROVE  Inv'
<1> USE DEF Inv
<1>0. UNCHANGED <<sink, lowlat, mt, made, stack, queue, pc, issued, started, plugin, cur, last>>
  BY DEF AudioLock, AudioFillThrows, AudioUnlock, AudioSkip, graph_vars
<1>1. apc \in {"lock", "fill", "unlock"} /\ apc' \in {"fill", "unlock", "look", "stuck"}
  BY DEF AudioLock, AudioFillThrows, AudioUnlock
<1>2. /\ ShapeInv' /\ OrderInv' /\ WaitInv' /\ (LowLatency' <=> LowLatency)
      /\ \A u \in Threads : Same(u)
  BY <1>0, AudioKeeps
<1>3. ~LowLatency /\ ~LowLatency'
  BY <1>1, <1>2 DEF ModeInv
<1>4. (\A c \in Callers : c \in Threads /\ c # audio /\ c # NULL) /\ audio \in Threads /\ audio # NULL
  BY OpsAssumption DEF Threads
<1>5. stack[audio] = <<>> /\ ~lowlat /\ queue = <<>> /\ Owed(audio) = 0 /\ Owed(audio)' = 0
  BY <1>0, <1>3 DEF PlainInv, Owed
<1>6. ModeInv' /\ QueueInv'
  BY <1>0, <1>3, <1>5 DEF ModeInv, QueueInv
<1>7. PlainInv'
  BY <1>0, <1>1, <1>2, <1>4 DEF PlainInv, Same
<1>8. lock \in [owner : Threads \cup {NULL}, depth : Nat] /\ lock.depth \in Nat /\ tupla_p \in Int
  BY DEF TypeInv
<1>9. ASSUME lock' \in [owner : Threads \cup {NULL}, depth : Nat], tupla_p' \in Int
      PROVE  TypeInv'
  <2>1. Addresses' = Addresses
    BY <1>0, SinkTyped
  <2> QED BY <1>0, <1>1, <1>9, <2>1 DEF TypeInv
<1>10. CASE AudioLock
  <2>1. apc = "lock" /\ apc' = "fill" /\ lock.owner \in {NULL, audio}
    BY <1>10 DEF AudioLock, Enter, CanEnter
  <2>2. lock.owner = NULL /\ lock.depth = 0
    BY <2>1, <1>5 DEF LockInv
  <2>3. lock'.owner = audio /\ lock'.depth = 1 /\ tupla_p' = tupla_p + 1 /\ lock' \in [owner : Threads \cup {NULL}, depth : Nat]
    BY <1>4, <1>10, <2>2 DEF AudioLock, Enter
  <2>4. TypeInv'
    BY <1>8, <1>9, <2>3
  <2>5. LockInv'
    <3>1. \A c \in Callers : pc[c] # "direct" /\ stack[c] = <<>>
      BY <1>4, <2>2 DEF LockInv
    <3> QED BY <1>0, <1>4, <1>5, <2>1, <2>3, <3>1 DEF LockInv
  <2>6. CountInv'
    BY <1>0, <1>2, <2>1, <2>2, <2>3 DEF CountInv
  <2> QED BY <1>2, <1>6, <1>7, <2>4, <2>5, <2>6
<1>11. CASE AudioFillThrows \/ AudioUnlock
  <2>1. apc \in {"fill", "unlock"} /\ apc' \in {"unlock", "look", "stuck"} /\ Leave(audio)
    BY <1>11 DEF AudioFillThrows, AudioUnlock
  <2>2. /\ tupla_p' = tupla_p - 1
        /\ lock.owner # audio \/ tupla_p' < 0 => lock' = lock
        /\ lock.owner = audio /\ ~(tupla_p' < 0) =>
             /\ lock'.owner = (IF lock.depth = 1 THEN NULL ELSE audio) /\ lock'.depth = lock.depth - 1
             /\ lock.depth # 0
    BY <1>4, <2>1 DEF Leave, LockInv
  <2>3. lock.owner = audio => \A c \in Callers : pc[c] # "direct" /\ stack[c] = <<>>
    BY <1>4 DEF LockInv
  <2>4. lock' \in [owner : Threads \cup {NULL}, depth : Nat]
    <3>1. CASE lock.owner # audio \/ tupla_p' < 0
      BY <1>8, <2>2, <3>1
    <3>2. CASE lock.owner = audio /\ ~(tupla_p' < 0)
      <4>1. lock' = [owner |-> IF lock.depth = 1 THEN NULL ELSE audio, depth |-> lock.depth - 1]
        BY <2>1, <3>2 DEF Leave
      <4> QED BY <1>4, <1>8, <2>2, <3>2, <4>1
    <3> QED BY <3>1, <3>2
  <2>5. TypeInv'
    BY <1>8, <1>9, <2>2, <2>4
  <2>6. lock.owner = audio => lock.depth = 1
    BY <1>1, <1>4, <1>5 DEF LockInv
  <2>7. LockInv'
    <3>1. CASE lock' = lock /\ lock.owner # audio
      BY <1>0, <1>2, <1>4, <1>5, <2>1, <3>1 DEF LockInv, Same
    <3>2. CASE lock' = lock /\ lock.owner = audio /\ apc' = "stuck"
      BY <1>0, <1>2, <1>4, <1>5, <2>1, <3>2 DEF LockInv, Same
    <3>3. CASE lock.owner = audio /\ lock'.owner = NULL /\ lock'.depth = 0
      BY <1>0, <1>2, <1>4, <1>5, <2>1, <2>3, <3>3 DEF LockInv, Same
    <3>4. tupla_p' < 0 => apc' = "stuck"
      BY <1>11 DEF AudioFillThrows, AudioUnlock
    <3> QED BY <1>8, <2>2, <2>6, <3>1, <3>2, <3>3, <3>4
  <2>8. CountInv'
    <3> SUFFICES ASSUME plugin \notin RenderFails PROVE CountInv'
      BY <1>0, <1>3 DEF CountInv
    <3>1. AudioUnlock /\ apc = "unlock"
      BY <1>11 DEF AudioFillThrows, AudioUnlock
    <3>2. tupla_p = 1 /\ lock.owner = audio /\ lock.depth = 1
      BY <3>1 DEF CountInv
    <3>3. tupla_p' = 0 /\ lock'.depth = 0 /\ apc' = "look"
      BY <2>2, <3>1, <3>2 DEF AudioUnlock
    <3> QED BY <1>0, <3>3 DEF CountInv
  <2> QED BY <1>2, <1>6, <1>7, <2>5, <2>7, <2>8
<1> QED BY <1>10, <1>11


-----------------------------------------------------------------------------
(* The invariant and what follows from it                                  *)

LEMMA InvInit == ASSUME Init PROVE Inv
<1>1. /\ \A t \in Threads : stack[t] = <<>> /\ Len(stack[t]) = 0
      /\ queue = <<>> /\ Len(queue) = 0
  BY DEF Init
<1>2. \A c \in Callers : c \in Threads /\ c # audio /\ c # NULL
  BY OpsAssumption DEF Threads
<1>3. audio \in Threads /\ audio # NULL
  BY OpsAssumption DEF Threads
<1>4. \A t \in Threads : ~Torn(t) /\ ~Draining(t) /\ ~Drained(t)
  BY <1>1 DEF Torn, Draining, Drained
<1>5. Owed(audio) = 0 /\ \A c \in Callers : Owed(c) = 2
  BY <1>1, <1>2, <1>3 DEF Owed
<1>6. TypeInv
  <2>1. queue \in Seq(Ops) /\ Len(queue) =< MaxQueue
    BY <1>1, OpsAssumption
  <2>2. stack \in [Threads -> Seq(Frame)]
    BY DEF Init
  <2>3. NULL \in Addresses
    BY DEF Addresses
  <2>4. lock \in [owner : Threads \cup {NULL}, depth : Nat]
    BY DEF Init
  <2>5. pc \in [Callers -> {"idle", "direct", "wait", "stuck"}]
    BY DEF Init
  <2>6. issued \in [Callers -> Nat] /\ started \in [Callers -> Nat]
    BY DEF Init
  <2>7. sink \in Addresses /\ mt \in Addresses /\ cur \in Addresses /\ last \in Addresses
    BY <2>3 DEF Init
  <2>9. lowlat \in BOOLEAN
    BY DEF Init
  <2>10. made = 0
    BY DEF Init
  <2>8. tupla_p = 0 /\ apc = "look" /\ plugin \in Plugins
    BY DEF Init
  <2> QED BY <2>1, <2>2, <2>3, <2>4, <2>5, <2>6, <2>7, <2>8, <2>9, <2>10 DEF TypeInv
<1>7. ShapeInv /\ OrderInv /\ WaitInv
  BY <1>1 DEF Init, ShapeInv, OrderInv, InOrder, Begun, WaitInv
<1>8. LockInv
  BY <1>1, <1>2, <1>3, <1>5 DEF Init, LockInv
<1>9. CountInv /\ PlainInv /\ ModeInv /\ QueueInv
  BY <1>1, <1>3, <1>4, <1>5 DEF Init, CountInv, PlainInv, ModeInv, QueueInv
<1> QED BY <1>6, <1>7, <1>8, <1>9 DEF Inv

LEMMA InvStutter == ASSUME Inv, UNCHANGED vars PROVE Inv'
<1> USE DEF Inv
<1>0. UNCHANGED <<sink, lowlat, mt, lock, tupla_p, queue, stack, pc, issued, started,
                  apc, cur, last, made, plugin>>
  BY DEF vars
<1>1. /\ ShapeInv' /\ OrderInv' /\ WaitInv' /\ (LowLatency' <=> LowLatency)
      /\ \A u \in Threads : Same(u)
  BY <1>0, AudioKeeps
<1>2. (\A c \in Callers : c \in Threads /\ c # audio) /\ audio \in Threads
  BY OpsAssumption DEF Threads
<1>3. TypeInv'
  <2>1. Addresses' = Addresses
    BY <1>0, SinkTyped
  <2> QED BY <1>0, <2>1 DEF TypeInv
<1>4. \A u \in Threads : (Torn(u)' <=> Torn(u)) /\ Owed(u)' = Owed(u) /\ (Draining(u)' <=> Draining(u)) /\ (Drained(u)' <=> Drained(u))
  BY <1>1 DEF Same, Torn
<1>5. LockInv' /\ CountInv' /\ PlainInv'
  BY <1>0, <1>1, <1>2, <1>4 DEF LockInv, CountInv, PlainInv
<1>6. ModeInv' /\ QueueInv'
  BY <1>0, <1>1, <1>2, <1>4 DEF ModeInv, QueueInv
<1> QED BY <1>1, <1>3, <1>5, <1>6

LEMMA InvNext ==
  ASSUME MaxQueue =< Kount, "OpenSL" \notin Reuse, Inv, [Next]_vars
  PROVE  Inv'
<1>1. CASE \E c \in Callers, kind \in Kinds, sync \in BOOLEAN : Request(c, kind, sync)
  <2> PICK c \in Callers, kind \in Kinds, sync \in BOOLEAN : Request(c, kind, sync)
    BY <1>1
  <2>1. lowlat \in BOOLEAN
    BY DEF Inv, TypeInv
  <2> QED BY <2>1, RequestDirect, RequestQueued
<1>2. CASE \E c \in Callers : DirectReturn(c)
  BY <1>2, DirectReturnStep
<1>3. CASE \E t \in Threads : Execute(t)
  BY <1>3, ExecuteStep
<1>4. CASE Audio
  BY <1>4, AudioMoves, AudioEnableStep, AudioRenderedStep, AudioLockStep DEF Audio
<1>5. CASE UNCHANGED vars
  BY <1>5, InvStutter
<1> QED BY <1>1, <1>2, <1>3, <1>4, <1>5 DEF Next

LEMMA FramesOfOps ==
  ASSUME TypeInv, NEW t \in Threads
  PROVE  /\ DOMAIN stack[t] = 1..Len(stack[t]) /\ Len(stack[t]) \in Nat
         /\ \A k : k \in OpFrames(t) <=> k \in 1..Len(stack[t]) /\ IsOp(t, k)
         /\ stack[t] = <<>> <=> Len(stack[t]) = 0
<1>1. stack[t] \in Seq(Frame)
  BY DEF TypeInv
<1>2. DOMAIN stack[t] = 1..Len(stack[t]) /\ Len(stack[t]) \in Nat
  BY <1>1
<1> QED BY <1>1, <1>2, NoFrames DEF OpFrames, IsOp

LEMMA InvRenders == ASSUME Inv PROVE RenderAlone
<1> USE DEF Inv
<1> SUFFICES ASSUME apc \in {"render", "fill"}, NEW t \in Threads
             PROVE  stack[t] = <<>>
  BY FramesOfOps DEF RenderAlone
<1>1. t = audio \/ t \in Callers
  BY DEF Threads
<1>2. stack[audio] = <<>>
  BY DEF LockInv
<1>3. ASSUME t \in Callers PROVE stack[t] = <<>>
  <2>0. t # audio
    BY <1>3, OpsAssumption
  <2>1. CASE apc = "render"
    <3>1. ~Torn(audio)
      BY <1>2 DEF Torn, Draining, Drained
    <3> QED BY <1>3, <2>1, <3>1 DEF PlainInv, ModeInv
  <2>2. CASE apc = "fill"
    BY <1>3, <2>0, <2>2 DEF LockInv
  <2> QED BY <2>1, <2>2
<1> QED BY <1>1, <1>2, <1>3

LEMMA TornTearsDown ==
  ASSUME TypeInv, ShapeInv, Torn(audio)
  PROVE  TearingDown
<1>0. audio \in Threads
  BY DEF Threads
<1> DEFINE n == Len(stack[audio])
<1>1. n \in Nat /\ (stack[audio] = <<>> <=> n = 0)
  BY <1>0, FramesOfOps
<1> HIDE DEF n
<1> SUFFICES \E k \in 1..n : /\ IsOp(audio, k)
                             /\ stack[audio][k].at \in {"deactivated", "deregister"}
  BY <1>0, FramesOfOps DEF TearingDown, n
<1>2. CASE Drained(audio)
  <2>1. 1 \in 1..n
    BY <1>1, <1>2 DEF Drained
  <2> QED BY <1>2, <2>1 DEF Drained
<1>3. CASE Draining(audio)
  <2>1. n > 2 /\ 1 \in 1..n /\ 2 \in 1..n /\ 3 \in 1..n
    BY <1>1, <1>3 DEF Draining, n
  <2>2. ShapeAt(audio, 1) /\ ShapeAt(audio, 2)
    BY <1>0, <1>1, <2>1 DEF ShapeInv, n
  <2>3. CASE ~IsOp(audio, 1)
    <3>1. IsOp(audio, 2) /\ stack[audio][2].at = "deactivated"
      BY <1>1, <2>1, <2>2, <2>3 DEF ShapeAt, n
    <3> QED BY <2>1, <3>1
  <2>4. CASE IsOp(audio, 1)
    <3>1. ~IsOp(audio, 2)
      BY <1>1, <2>1, <2>2, <2>4 DEF ShapeAt, n
    <3>2. IsOp(audio, 3) /\ stack[audio][3].at = "deactivated"
      BY <1>1, <2>1, <2>2, <3>1 DEF ShapeAt, n
    <3> QED BY <2>1, <3>2
  <2> QED BY <2>3, <2>4
<1> QED BY <1>2, <1>3 DEF Torn

LEMMA InvOneExecutor == ASSUME Inv PROVE OneExecutorBetweenSinks
<1> USE DEF Inv
<1>0. audio \in Threads /\ \A c \in Callers : c \in Threads /\ c # audio
  BY OpsAssumption DEF Threads
<1> SUFFICES ASSUME ~(LowLatency /\ TearingDown) PROVE OneExecutor
  BY DEF OneExecutorBetweenSinks
<1>1. \A t \in Threads : OpFrames(t) # {} => stack[t] # <<>>
  BY FramesOfOps
<1>2. ASSUME NEW c \in Callers, OpFrames(c) # {}, OpFrames(audio) # {} PROVE FALSE
  <2>1. stack[c] # <<>> /\ stack[audio] # <<>>
    BY <1>0, <1>1, <1>2
  <2>2. LowLatency
    BY <2>1 DEF PlainInv
  <2>3. ~Torn(audio)
    BY <2>2, TornTearsDown
  <2>4. ~(sink # NULL /\ sink = last)
    BY <1>2, <2>1, <2>2, <2>3 DEF ModeInv
  <2>5. Len(stack[audio]) =< 1
    BY <2>1, <2>2, <2>3, <2>4 DEF ModeInv
  <2> PICK k \in OpFrames(audio) : TRUE
    BY <1>2
  <2>6. k \in 1..Len(stack[audio]) /\ IsOp(audio, k) /\ Len(stack[audio]) \in Nat
    BY <1>0, FramesOfOps
  <2>7. k >= Len(stack[audio])
    BY <2>5, <2>6
  <2>8. ShapeAt(audio, k)
    BY <1>0, <2>6 DEF ShapeInv
  <2> QED BY <2>6, <2>7, <2>8 DEF ShapeAt
<1>3. ASSUME NEW c \in Callers, NEW d \in Callers, OpFrames(c) # {}, OpFrames(d) # {} PROVE c = d
  BY <1>0, <1>1, <1>3 DEF LockInv
<1> QED BY <1>2, <1>3 DEF OneExecutor, Threads

LEMMA InvCounted == ASSUME Inv PROVE LockIsCounted
  BY DEF Inv, CountInv, LockIsCounted

LEMMA InvAlways ==
  ASSUME MaxQueue =< Kount, "OpenSL" \notin Reuse
  PROVE  Spec => []Inv
<1>1. Init => Inv
  BY InvInit
<1>2. Inv /\ [Next]_vars => Inv'
  BY InvNext
<1> QED BY <1>1, <1>2, PTL DEF Spec

(* No operation is under way while fill_this_sink renders, in either mode  *)
(* and through every change of mode and of sink, for every number of       *)
(* callers, as long as one call of machine_operation_dequeue can empty the *)
(* queue (kount is 50) and a new sink does not get the address of the one  *)
(* the feeder thread of the OpenSL build remembers in last_mt.             *)
THEOREM RenderAloneAlways ==
  ASSUME MaxQueue =< Kount, "OpenSL" \notin Reuse
  PROVE  Spec => []RenderAlone
  BY InvAlways, InvRenders, PTL

(* Under the same conditions machine_operation_enqueue and _dequeue never  *)
(* let two threads execute operations at the same time, except while       *)
(* deactivate_low_latency_mode has already turned the mode off for a sink  *)
(* that is still being destroyed.                                          *)
THEOREM OneExecutorAlways ==
  ASSUME MaxQueue =< Kount, "OpenSL" \notin Reuse
  PROVE  Spec => []OneExecutorBetweenSinks
  BY InvAlways, InvOneExecutor, PTL

(* Under the same conditions the operations of one caller start in the     *)
(* order in which it passed them to machine_operation_enqueue, though some *)
(* are queued and others run at once.                                      *)
THEOREM InOrderAlways ==
  ASSUME MaxQueue =< Kount, "OpenSL" \notin Reuse
  PROVE  Spec => []InOrder
<1>1. Inv => InOrder
  BY DEF Inv, OrderInv
<1> QED BY <1>1, InvAlways, PTL

(* Under the same conditions the counter of unlock_machine_space agrees    *)
(* with the depth of the monitor, so that its "Complete failure." branch   *)
(* is never taken, unless a rendering throws.                              *)
THEOREM LockIsCountedAlways ==
  ASSUME MaxQueue =< Kount, "OpenSL" \notin Reuse
  PROVE  Spec => []LockIsCounted
  BY InvAlways, InvCounted, PTL
=============================================================================
