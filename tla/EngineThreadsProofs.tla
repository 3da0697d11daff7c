------------------------ MODULE EngineThreadsProofs -------------------------
(***************************************************************************)
(* Proofs about EngineThreads, for any number of machines, connections     *)
(* between them, operations and events: the values stay in their types,    *)
(* the server's table of machines follows the machine space, and the io    *)
(* thread knows whether the machines play.                                 *)
(*                                                                         *)
(* The types (TypeInv) say who holds the space and what it still has to    *)
(* report, that the pool's events are free, queued or with the async       *)
(* thread, and what the server's io thread is in the middle of. That the   *)
(* table follows the space is a fold over the events under way, wherever   *)
(* they are; it needs that the server begins to listen only once and that  *)
(* nothing under way tells of a machine before (Starting).                 *)
(***************************************************************************)
EXTENDS EngineThreads, TLAPS, FiniteSetTheorems
INSTANCE ListLemmas WITH Op <- After

(* The events and handlers, and what the server's tables can hold.         *)
Names  == Machines \cup {NULL}
About  == {"registered", "unregistered", "sequence_registered", "sequence_attached",
           "sequence_detached", "sequence_unregistered"}
Events == {ev \in [kind : About \cup {"attached", "detached", "services", "row", "write", "stop"},
                   m : Names, n : Names] :
             /\ ev.kind \in {"registered", "unregistered"} => ev.m \in Machines
             /\ ev.kind \in {"attached", "detached"} => <<ev.m, ev.n>> \in Wires}
(* The events that come out of the pool.                                   *)
Told   == {ev \in Events : ev.kind \notin {"services", "stop"}}

Places == {"idle", "listen", "check", "lock", "make", "attach", "undo", "tie", "op",
           "stop", "ended"}

SpaceInv ==
  /\ space \in Threads \cup {NULL} /\ riff \in {"closed", "open", "polled"}
  /\ space = NULL <=> todo = <<>> /\ riff # "polled"
  /\ riff = "polled" => todo = <<>>
  /\ todo \in Seq(Told)
  /\ pending \in Seq({"play", "periodic"})
  /\ ops \in 0..MaxOps

PoolInv ==
  /\ free \in Nat /\ queue \in Seq(Told) /\ async \in {"idle", "waiting"}
  /\ free + Len(queue) + (IF async = "waiting" THEN 1 ELSE 0) = Pool

(* The async thread waits for every line that is played, so that there is  *)
(* never more than one handler of a line.                                  *)
RowsAwaited ==
  \A k \in 1..Len(posted) :
    posted[k].kind = "row" =>
      /\ async = "waiting"
      /\ \A j \in 1..Len(posted) : posted[j].kind = "row" => j = k

ServerInv ==
  /\ mutex \in {"ui", "io", NULL}
  /\ posted \in Seq(Events) /\ RowsAwaited
  /\ io \in [at : Places, m : Names]
  /\ io.at \in {"check", "lock", "make", "attach", "undo", "tie"} => io.m \in Machines

NetInv ==
  /\ live \cup dead \cup tied \subseteq Machines /\ live \cap dead = {}
  /\ wired \subseteq Wires /\ \A w \in wired : {w[1], w[2]} \subseteq live
  /\ early \subseteq wired

RiInv == known \subseteq Machines /\ table \subseteq Wires

(* The inductive invariant of TypeOK.                                      *)
TypeInv == SpaceInv /\ PoolInv /\ ServerInv /\ NetInv /\ RiInv

-----------------------------------------------------------------------------
(* The inductive invariant of TableFollows: before the server listens,     *)
(* nothing under way tells of a machine, and it begins to listen only      *)
(* once.                                                                   *)

Quiet(s) == \A k \in 1..Len(s) : s[k].kind \in {"services", "row", "write", "stop"}

Starting ==
  /\ \A k \in 1..Len(posted) :
       posted[k].kind = "services" => k = 1 /\ ~listening /\ io.at # "listen"
  /\ server = "absent" => /\ posted = <<>> /\ queue = <<>> /\ todo = <<>> /\ pending = <<>>
                          /\ ~periodic /\ ~is_playing /\ ~listening /\ io.at = "idle"
  /\ io.at = "listen" => ~listening /\ server = "up"
  /\ ~listening /\ server # "stopped" =>
       known = {} /\ table = {} /\ Quiet(posted) /\ Quiet(queue) /\ Quiet(todo)

FollowInv == TypeInv /\ Starting /\ TableFollows

-----------------------------------------------------------------------------
(* Types                                                                   *)

LEMMA Engine ==
  /\ IsFiniteSet(Machines) /\ Midi \subseteq Machines /\ Wires \subseteq Machines \X Machines
  /\ Pool \in Nat /\ MaxRows \in Nat /\ MaxWrites \in Nat /\ MaxOps \in Nat
  /\ NULL \notin Threads
BY EngineAssumption DEF Threads

(* Events about one machine, about a wire, and about none.                 *)
LEMMA MachineEvent ==
  ASSUME NEW m \in Machines,
         NEW kind \in About
  PROVE  Event(kind, m, NULL) \in Told
BY DEF Event, Told, Events, Names, About

LEMMA PlainEvent ==
  ASSUME NEW kind \in {"services", "stop", "row", "write"}
  PROVE  /\ Event(kind, NULL, NULL) \in Events /\ Event(kind, NULL, NULL).kind = kind
         /\ kind \in {"row", "write"} => Event(kind, NULL, NULL) \in Told
BY DEF Event, Told, Events, Names, About

LEMMA WireTyped ==
  ASSUME NEW w \in Wires
  PROVE  /\ w[1] \in Machines /\ w[2] \in Machines /\ w = <<w[1], w[2]>>
         /\ Detached(w) \in Told /\ Event("attached", w[1], w[2]) \in Told
<1>1. w \in Machines \X Machines
  BY Engine
<1>2. w[1] \in Machines /\ w[2] \in Machines /\ w = <<w[1], w[2]>>
  BY <1>1
<1> QED BY <1>2 DEF Detached, Event, Told, Events, Names, About

(* The sets that are listed as events are finite.                          *)
LEMMA DetachedList ==
  ASSUME NEW W \in SUBSET Wires
  PROVE  /\ SetToSeq({Detached(w) : w \in W}) \in Seq({Detached(w) : w \in W})
         /\ SetToSeq({Detached(w) : w \in W}) \in Seq(Told)
         /\ IsFiniteSet({Detached(w) : w \in W})
<1> DEFINE D == {Detached(w) : w \in W}
<1>1. IsFiniteSet(W)
  <2>1. IsFiniteSet(Machines \X Machines)
    BY Engine, FS_Product
  <2>2. W \in SUBSET (Machines \X Machines)
    BY Engine
  <2> QED BY <2>1, <2>2, FS_Subset
<1>2. [w \in W |-> Detached(w)] \in Surjection(W, D)
  BY DEF Surjection
<1>3. IsFiniteSet(D)
  BY <1>1, <1>2, FS_Surjection
<1>4. SetToSeq(D) \in Seq(D)
  BY <1>3, SetToSeqView
<1>5. D \subseteq Told
  BY WireTyped
<1> QED BY <1>3, <1>4, <1>5

LEMMA RegisteredList ==
  ASSUME NEW M \in SUBSET Machines
  PROVE  /\ SetToSeq({Event("registered", m, NULL) : m \in M}) \in Seq({Event("registered", m, NULL) : m \in M})
         /\ SetToSeq({Event("registered", m, NULL) : m \in M}) \in Seq(Told)
         /\ IsFiniteSet({Event("registered", m, NULL) : m \in M})
<1> DEFINE D == {Event("registered", m, NULL) : m \in M}
<1>1. IsFiniteSet(M)
  BY Engine, FS_Subset
<1>2. [m \in M |-> Event("registered", m, NULL)] \in Surjection(M, D)
  BY DEF Surjection
<1>3. IsFiniteSet(D)
  BY <1>1, <1>2, FS_Surjection
<1>4. SetToSeq(D) \in Seq(D)
  BY <1>3, SetToSeqView
<1>5. D \subseteq Told
  BY MachineEvent DEF About
<1> QED BY <1>3, <1>4, <1>5

(* An operation leaves the space to its thread, or at once.                *)
LEMMA OperationTyped ==
  ASSUME NEW t \in Threads, NEW events \in Seq(Told), Operation(t, events),
         SpaceInv, UNCHANGED <<pending, riff>>, ops' \in 0..MaxOps
  PROVE  SpaceInv'
<1>1. todo' \in Seq(Told)
  BY DEF Operation
<1>2. space' = IF todo' = <<>> THEN NULL ELSE t
  BY DEF Operation
<1>3. riff' # "polled"
  BY DEF Operation, SpaceInv
<1> QED BY <1>1, <1>2, <1>3, Engine DEF SpaceInv

(* The events a destroyed machine leaves behind.                           *)
Farewell(m) ==
  (IF m \in tied THEN <<Event("sequence_detached", m, NULL)>> ELSE <<>>)
  \o SetToSeq({Detached(w) : w \in {w \in wired : m \in {w[1], w[2]}}})
  \o (IF m \in tied THEN <<Event("sequence_unregistered", m, NULL)>> ELSE <<>>)
  \o <<Event("unregistered", m, NULL)>>

LEMMA FarewellTyped ==
  ASSUME NEW m \in Machines, wired \subseteq Wires
  PROVE  Farewell(m) \in Seq(Told)
<1>1. SetToSeq({Detached(w) : w \in {w \in wired : m \in {w[1], w[2]}}}) \in Seq(Told)
  BY DetachedList
<1>2. /\ Event("sequence_detached", m, NULL) \in Told
      /\ Event("sequence_unregistered", m, NULL) \in Told
      /\ Event("unregistered", m, NULL) \in Told
  BY MachineEvent DEF About
<1> QED BY <1>1, <1>2 DEF Farewell

LEMMA DestroyTyped ==
  ASSUME TypeInv, NEW t \in Threads, NEW m \in Machines, Destroy(t, m),
         UNCHANGED <<pending, riff>>, ops' \in 0..MaxOps
  PROVE  SpaceInv' /\ NetInv'
<1>1. Farewell(m) \in Seq(Told)
  BY FarewellTyped DEF TypeInv, NetInv
<1>2. Operation(t, Farewell(m))
  BY DEF Destroy, Farewell
<1>3. SpaceInv'
  BY <1>1, <1>2, OperationTyped DEF TypeInv
<1>4. NetInv'
  BY DEF Destroy, TypeInv, NetInv
<1> QED BY <1>3, <1>4

LEMMA ChangeTyped ==
  ASSUME TypeInv, NEW t \in Threads, NEW nameable, nameable \subseteq Machines, Change(t, nameable),
         UNCHANGED <<pending, riff>>, ops' \in 0..MaxOps
  PROVE  SpaceInv' /\ NetInv'
<1> USE DEF TypeInv
<1>0. SpaceInv
  OBVIOUS
<1>1. ASSUME NEW m \in Machines, Make(t, m) PROVE SpaceInv' /\ NetInv'
  <2>1. <<Event("registered", m, NULL)>> \in Seq(Told)
    BY MachineEvent DEF About
  <2>2. SpaceInv'
    BY <1>0, <1>1, <2>1, OperationTyped DEF Make
  <2>3. NetInv'
    BY <1>1 DEF Make, NetInv
  <2> QED BY <2>2, <2>3
<1>2. ASSUME NEW m \in nameable, Destroy(t, m) PROVE SpaceInv' /\ NetInv'
  BY <1>2, DestroyTyped
<1>3. ASSUME NEW w \in Wires, AttachInput(t, w) PROVE SpaceInv' /\ NetInv'
  <2>1. <<Event("attached", w[1], w[2])>> \in Seq(Told)
    BY WireTyped
  <2>2. SpaceInv'
    BY <1>0, <1>3, <2>1, OperationTyped DEF AttachInput
  <2>3. NetInv'
    BY <1>3 DEF AttachInput, NetInv
  <2> QED BY <2>2, <2>3
<1>4. ASSUME NEW w \in Wires, DetachInput(t, w) PROVE SpaceInv' /\ NetInv'
  <2>1. <<Detached(w)>> \in Seq(Told)
    BY WireTyped
  <2>2. SpaceInv'
    BY <1>0, <1>4, <2>1, OperationTyped DEF DetachInput
  <2>3. NetInv'
    BY <1>4 DEF DetachInput, NetInv
  <2> QED BY <2>2, <2>3
<1> QED BY <1>1, <1>2, <1>3, <1>4 DEF Change


(* The next handler is taken from the queue.                               *)
LEMMA HandlerTyped ==
  ASSUME ServerInv, NEW kind, Handler(kind)
  PROVE  /\ Head(posted) \in Events /\ Head(posted).kind = kind
         /\ posted' \in Seq(Events)
         /\ UNCHANGED async => RowsAwaited'
         /\ kind = "row" => async = "waiting" /\ \A k \in 1..Len(posted') : posted'[k].kind # "row"
<1>1. PICK n, h : n = Len(posted) /\ h = Head(posted)
  OBVIOUS
<1>2. /\ n \in Nat /\ n >= 1 /\ posted' \in Seq(Events) /\ Len(posted') = n - 1
      /\ \A k \in 1..(n - 1) : posted'[k] = posted[k + 1]
      /\ h = posted[1] /\ h \in Events /\ h.kind = kind
  BY <1>1, TailView DEF Handler, ServerInv
<1>3. ASSUME UNCHANGED async PROVE RowsAwaited'
  BY <1>1, <1>2, <1>3 DEF RowsAwaited, ServerInv
<1>4. ASSUME kind = "row"
      PROVE  async = "waiting" /\ \A k \in 1..Len(posted') : posted'[k].kind # "row"
  BY <1>1, <1>2, <1>4 DEF RowsAwaited, ServerInv
<1> QED BY <1>1, <1>2, <1>3, <1>4

(* A handler is posted.                                                    *)
LEMMA PostTyped ==
  ASSUME ServerInv, NEW ev \in Events, posted' = Append(posted, ev),
         IF ev.kind = "row" THEN async = "idle" /\ async' = "waiting" ELSE UNCHANGED async
  PROVE  posted' \in Seq(Events) /\ RowsAwaited'
<1>1. PICK n : n = Len(posted)
  OBVIOUS
<1>2. /\ n \in Nat /\ posted' \in Seq(Events) /\ Len(posted') = n + 1
      /\ \A k \in 1..n : posted'[k] = posted[k]
      /\ posted'[n + 1] = ev
  BY <1>1, AppendView DEF ServerInv
<1>3. CASE ev.kind = "row"
  <2>1. \A k \in 1..n : posted[k].kind # "row"
    BY <1>1, <1>3 DEF ServerInv, RowsAwaited
  <2> QED BY <1>2, <1>3, <2>1 DEF RowsAwaited
<1>4. CASE ev.kind # "row"
  BY <1>1, <1>2, <1>4 DEF ServerInv, RowsAwaited
<1> QED BY <1>2, <1>3, <1>4

LEMMA IoTyped ==
  /\ Idle \in [at : Places, m : Names] /\ Idle.at = "idle"
  /\ \A pc \in Places, m \in Names : /\ At(pc, m) \in [at : Places, m : Names]
                                     /\ At(pc, m).at = pc /\ At(pc, m).m = m
  /\ NULL \in Names /\ Machines \subseteq Names
BY DEF Idle, At, Places, Names

LEMMA TypeInit == Init => TypeInv
<1> SUFFICES ASSUME Init PROVE TypeInv
  OBVIOUS
<1>1. SpaceInv
  BY Engine DEF Init, SpaceInv
<1>2. PoolInv
  BY Engine DEF Init, PoolInv
<1>3. ServerInv
  BY IoTyped DEF Init, ServerInv, RowsAwaited
<1>4. NetInv /\ RiInv
  BY DEF Init, NetInv, RiInv
<1> QED BY <1>1, <1>2, <1>3, <1>4 DEF TypeInv

(* What an action leaves alone.                                            *)
LEMMA Same ==
  ASSUME TypeInv
  PROVE  /\ UNCHANGED space_vars => SpaceInv'
         /\ UNCHANGED pool_vars => PoolInv'
         /\ UNCHANGED <<mutex, posted, io, async>> => ServerInv'
         /\ UNCHANGED <<live, dead, wired, tied, early>> => NetInv'
         /\ UNCHANGED ri_vars => RiInv'
<1>1. UNCHANGED space_vars => SpaceInv'
  BY DEF TypeInv, space_vars, SpaceInv
<1>2. UNCHANGED pool_vars => PoolInv'
  BY DEF TypeInv, pool_vars, PoolInv
<1>3. UNCHANGED <<mutex, posted, io, async>> => ServerInv'
  BY DEF TypeInv, ServerInv, RowsAwaited
<1>4. UNCHANGED <<live, dead, wired, tied, early>> => NetInv'
  BY DEF TypeInv, NetInv
<1>5. UNCHANGED ri_vars => RiInv'
  BY DEF TypeInv, ri_vars, RiInv
<1> QED BY <1>1, <1>2, <1>3, <1>4, <1>5

LEMMA UiTyped ==
  ASSUME TypeInv, UiOperation \/ UiStop \/ StartServer \/ StopServer \/ Joined
  PROVE  TypeInv'
<1>1. CASE UiOperation
  <2>1. ops' \in 0..MaxOps /\ live \subseteq Machines
    BY <1>1, Engine DEF UiOperation, Asked, TypeInv, SpaceInv, NetInv
  <2>2. SpaceInv' /\ NetInv'
    BY <1>1, <2>1, ChangeTyped DEF UiOperation, Threads
  <2> QED BY <1>1, <2>2, Same DEF UiOperation, TypeInv, pool_vars, server_vars
<1>2. CASE UiStop
  <2>1. SpaceInv'
    BY <1>2, Engine DEF UiStop, Asked, TypeInv, SpaceInv
  <2> QED BY <1>2, <2>1, Same DEF UiStop, TypeInv, pool_vars, server_vars, net_vars
<1>3. CASE StartServer
  <2>1. PICK ev : ev = Event("services", NULL, NULL)
    OBVIOUS
  <2>2. ev \in Events /\ ev.kind = "services" /\ posted' = <<ev>>
    BY <1>3, <2>1, PlainEvent DEF StartServer
  <2>3. posted' \in Seq(Events) /\ RowsAwaited'
    BY <2>2 DEF RowsAwaited
  <2>4. ServerInv'
    BY <1>3, <2>3 DEF StartServer, TypeInv, ServerInv
  <2> QED BY <1>3, <2>4, Same DEF StartServer, TypeInv, net_vars
<1>4. CASE StopServer
  <2>1. PICK ev : ev = Event("stop", NULL, NULL)
    OBVIOUS
  <2>2. ev \in Events /\ ev.kind = "stop" /\ posted' = Append(posted, ev) /\ UNCHANGED async
    BY <1>4, <2>1, PlainEvent DEF StopServer, pool_vars
  <2>3. posted' \in Seq(Events) /\ RowsAwaited'
    BY <2>2, PostTyped DEF TypeInv
  <2>4. ServerInv'
    BY <1>4, <2>3 DEF StopServer, TypeInv, ServerInv
  <2> QED BY <1>4, <2>4, Same DEF StopServer, TypeInv, net_vars
<1>5. CASE Joined
  <2>1. ServerInv'
    BY <1>5 DEF Joined, TypeInv, ServerInv, RowsAwaited, pool_vars
  <2> QED BY <1>5, <2>1, Same DEF Joined, TypeInv
<1> QED BY <1>1, <1>2, <1>3, <1>4, <1>5

(* What the audio thread does of itself.                                   *)
AudioSteps == PlayLine \/ Record \/ Pause \/ CloseFile \/ DequeuePending

LEMMA EventsTyped ==
  ASSUME TypeInv, QueueEvent \/ Execute \/ AudioSteps
  PROVE  TypeInv'
<1>1. CASE QueueEvent
  <2>1. PICK h : h = Head(todo)
    OBVIOUS
  <2>2. h \in Told /\ todo' \in Seq(Told) /\ queue' = Append(queue, h)
    BY <1>1, <2>1, TailView DEF QueueEvent, TypeInv, SpaceInv
  <2>3. SpaceInv'
    <3>1. space # NULL /\ space \in Threads \cup {NULL} /\ riff' \in {"closed", "open"}
      BY <1>1 DEF QueueEvent, TypeInv, SpaceInv
    <3>2. space' = IF todo' = <<>> THEN NULL ELSE space
      BY <1>1 DEF QueueEvent
    <3>3. pending' \in Seq({"play", "periodic"}) /\ ops' \in 0..MaxOps
      BY <1>1 DEF QueueEvent, TypeInv, SpaceInv
    <3> QED BY <2>2, <3>1, <3>2, <3>3 DEF SpaceInv
  <2>4. PoolInv'
    <3>1. queue' \in Seq(Told) /\ Len(queue') = Len(queue) + 1
      BY <2>2, AppendView DEF TypeInv, PoolInv
    <3>2. free' = free - 1 /\ free > 0 /\ UNCHANGED async
      BY <1>1 DEF QueueEvent
    <3> QED BY <3>1, <3>2 DEF TypeInv, PoolInv
  <2> QED BY <1>1, <2>3, <2>4, Same DEF QueueEvent, TypeInv, server_vars, net_vars
<1>2. CASE Execute
  <2>1. PICK ev : ev = Head(queue)
    OBVIOUS
  <2>2. /\ ev \in Told /\ ev \in Events /\ async = "idle" /\ queue # <<>> /\ queue' = Tail(queue)
        /\ async' = (IF ev.kind = "row" THEN "waiting" ELSE "idle")
        /\ free' = (IF ev.kind = "row" THEN free ELSE free + 1)
        /\ posted' = (IF ev.kind \in {"sequence_registered", "write"} THEN posted ELSE Append(posted, ev))
    BY <1>2, <2>1, TailView DEF Execute, TypeInv, PoolInv, Told
  <2>3. PoolInv'
    <3>1. queue' \in Seq(Told) /\ Len(queue') = Len(queue) - 1 /\ Len(queue) \in Nat
      BY <2>2, TailView DEF TypeInv, PoolInv
    <3>2. free \in Nat /\ free + Len(queue) = Pool
      BY <2>2, Engine DEF TypeInv, PoolInv
    <3>3. CASE ev.kind = "row"
      BY <2>2, <3>1, <3>2, <3>3 DEF PoolInv
    <3>4. CASE ev.kind # "row"
      BY <2>2, <3>1, <3>2, <3>4 DEF PoolInv
    <3> QED BY <3>3, <3>4
  <2>4. posted' \in Seq(Events) /\ RowsAwaited'
    <3>1. CASE ev.kind \in {"sequence_registered", "write"}
      BY <2>2, <3>1 DEF TypeInv, ServerInv, RowsAwaited
    <3>2. CASE ev.kind \notin {"sequence_registered", "write"}
      BY <2>2, <3>2, PostTyped DEF TypeInv
    <3> QED BY <3>1, <3>2
  <2>5. ServerInv'
    BY <1>2, <2>4 DEF Execute, TypeInv, ServerInv
  <2> QED BY <1>2, <2>3, <2>5, Same DEF Execute, TypeInv, net_vars
<1>3. CASE PlayLine
  <2>1. PICK ev : ev = Event("row", NULL, NULL)
    OBVIOUS
  <2>2. ev \in Told /\ todo' = <<ev>> /\ space' = "audio"
    BY <1>3, <2>1, PlainEvent DEF PlayLine
  <2>3. SpaceInv'
    BY <1>3, <2>2, Engine DEF PlayLine, TypeInv, SpaceInv, Threads
  <2> QED BY <1>3, <2>3, Same DEF PlayLine, TypeInv, pool_vars, server_vars, net_vars
<1>4. CASE Record
  <2>1. PICK ev : ev = Event("write", NULL, NULL)
    OBVIOUS
  <2>2. ev \in Told /\ todo' = <<ev>> /\ space' = "audio"
    BY <1>4, <2>1, PlainEvent DEF Record
  <2>3. SpaceInv'
    BY <1>4, <2>2, Engine DEF Record, TypeInv, SpaceInv, Threads
  <2> QED BY <1>4, <2>3, Same DEF Record, TypeInv, pool_vars, server_vars, net_vars
<1>5. CASE Pause
  <2>1. SpaceInv'
    BY <1>5, Engine DEF Pause, TypeInv, SpaceInv, Threads
  <2> QED BY <1>5, <2>1, Same DEF Pause, TypeInv, pool_vars, server_vars, net_vars
<1>6. CASE CloseFile
  <2>1. SpaceInv'
    BY <1>6, Engine DEF CloseFile, TypeInv, SpaceInv, Threads
  <2> QED BY <1>6, <2>1, Same DEF CloseFile, TypeInv, pool_vars, server_vars, net_vars
<1>7. CASE DequeuePending
  <2>1. pending' \in Seq({"play", "periodic"})
    BY <1>7, TailView DEF DequeuePending, TypeInv, SpaceInv
  <2>2. SpaceInv'
    BY <1>7, <2>1 DEF DequeuePending, TypeInv, SpaceInv
  <2> QED BY <1>7, <2>2, Same DEF DequeuePending, TypeInv, pool_vars, server_vars, net_vars
<1> QED BY <1>1, <1>2, <1>3, <1>4, <1>5, <1>6, <1>7 DEF AudioSteps

LEMMA HandlersTyped ==
  ASSUME TypeInv, Handlers
  PROVE  TypeInv'
<1>0. ServerInv /\ io \in [at : Places, m : Names] /\ mutex \in {"ui", "io", NULL}
  BY DEF TypeInv, ServerInv
<1>1. CASE HandleServices
  <2>1. posted' \in Seq(Events) /\ RowsAwaited'
    BY <1>0, <1>1, HandlerTyped DEF HandleServices, pool_vars
  <2>2. ServerInv'
    BY <1>0, <1>1, <2>1, IoTyped DEF HandleServices, ServerInv, Places
  <2>3. pending' \in Seq({"play", "periodic"})
    BY <1>1 DEF HandleServices, TypeInv, SpaceInv
  <2>4. SpaceInv'
    BY <1>1, <2>3 DEF HandleServices, TypeInv, SpaceInv
  <2> QED BY <1>1, <2>2, <2>4, Same DEF HandleServices, TypeInv, net_vars
<1>2. CASE HandleRegistered
  <2>1. PICK h : h = Head(posted)
    OBVIOUS
  <2>2. posted' \in Seq(Events) /\ RowsAwaited' /\ h \in Events /\ h.kind = "registered"
    BY <1>0, <1>2, <2>1, HandlerTyped DEF HandleRegistered, pool_vars
  <2>3. h.m \in Machines
    BY <2>2 DEF Events
  <2>4. io' = IF h.m \in Midi THEN At("check", h.m) ELSE Idle
    BY <1>2, <2>1 DEF HandleRegistered
  <2>5. /\ io' \in [at : Places, m : Names]
        /\ io'.at \in {"check", "lock", "make", "attach", "undo", "tie"} => io'.m \in Machines
    BY <2>3, <2>4, IoTyped DEF Places
  <2>6. ServerInv'
    BY <1>0, <1>2, <2>2, <2>5 DEF HandleRegistered, ServerInv
  <2>7. RiInv'
    BY <1>2, <2>1, <2>3 DEF HandleRegistered, RiInv, TypeInv
  <2> QED BY <1>2, <2>6, <2>7, Same DEF HandleRegistered, TypeInv, net_vars
<1>3. CASE HandleUnregistered
  <2>1. posted' \in Seq(Events) /\ RowsAwaited'
    BY <1>0, <1>3, HandlerTyped DEF HandleUnregistered, pool_vars
  <2>2. ServerInv'
    BY <1>0, <1>3, <2>1 DEF HandleUnregistered, ServerInv
  <2>3. RiInv'
    BY <1>3 DEF HandleUnregistered, RiInv, TypeInv
  <2> QED BY <1>3, <2>2, <2>3, Same DEF HandleUnregistered, TypeInv, net_vars
<1>4. CASE HandleAttached
  <2>1. PICK h : h = Head(posted)
    OBVIOUS
  <2>2. posted' \in Seq(Events) /\ RowsAwaited' /\ h \in Events /\ h.kind = "attached"
    BY <1>0, <1>4, <2>1, HandlerTyped DEF HandleAttached, pool_vars
  <2>3. <<h.m, h.n>> \in Wires
    BY <2>2 DEF Events
  <2>4. ServerInv'
    BY <1>0, <1>4, <2>2 DEF HandleAttached, ServerInv
  <2>5. RiInv'
    BY <1>4, <2>1, <2>3 DEF HandleAttached, RiInv, TypeInv
  <2> QED BY <1>4, <2>4, <2>5, Same DEF HandleAttached, TypeInv, net_vars
<1>5. CASE HandleDetached
  <2>1. posted' \in Seq(Events) /\ RowsAwaited'
    BY <1>0, <1>5, HandlerTyped DEF HandleDetached, pool_vars
  <2>2. ServerInv'
    BY <1>0, <1>5, <2>1 DEF HandleDetached, ServerInv
  <2>3. RiInv'
    BY <1>5 DEF HandleDetached, RiInv, TypeInv
  <2> QED BY <1>5, <2>2, <2>3, Same DEF HandleDetached, TypeInv, net_vars
<1>6. CASE HandleOfSequence
  <2>1. PICK kind : Handler(kind)
    BY <1>6 DEF HandleOfSequence
  <2>2. UNCHANGED <<mutex, io, async>>
    BY <1>6 DEF HandleOfSequence, pool_vars
  <2>3. posted' \in Seq(Events) /\ RowsAwaited'
    BY <1>0, <2>1, <2>2, HandlerTyped
  <2>4. ServerInv'
    BY <1>0, <2>2, <2>3 DEF ServerInv
  <2> QED BY <1>6, <2>4, Same DEF HandleOfSequence, TypeInv, net_vars
<1>7. CASE HandleRow
  <2>1. /\ posted' \in Seq(Events) /\ async = "waiting"
        /\ \A k \in 1..Len(posted') : posted'[k].kind # "row"
    BY <1>0, <1>7, HandlerTyped DEF HandleRow
  <2>2. RowsAwaited'
    BY <2>1 DEF RowsAwaited
  <2>3. ServerInv'
    BY <1>0, <1>7, <2>1, <2>2 DEF HandleRow, ServerInv
  <2>4. PoolInv'
    BY <1>7, <2>1 DEF HandleRow, TypeInv, PoolInv
  <2> QED BY <1>7, <2>3, <2>4, Same DEF HandleRow, TypeInv, net_vars
<1>8. CASE HandleStop
  <2>1. posted' \in Seq(Events) /\ RowsAwaited'
    BY <1>0, <1>8, HandlerTyped DEF HandleStop, pool_vars
  <2>2. ServerInv'
    BY <1>0, <1>8, <2>1, IoTyped DEF HandleStop, ServerInv, Places
  <2> QED BY <1>8, <2>2, Same DEF HandleStop, TypeInv, net_vars
<1> QED BY <1>1, <1>2, <1>3, <1>4, <1>5, <1>6, <1>7, <1>8 DEF Handlers

LEMMA OtherIoTyped ==
  ASSUME TypeInv, LockServer \/ IoOperations
  PROVE  TypeInv'
<1>0. /\ ServerInv /\ io \in [at : Places, m : Names] /\ mutex \in {"ui", "io", NULL}
      /\ SpaceInv /\ pending \in Seq({"play", "periodic"}) /\ ops \in 0..MaxOps
      /\ io.at \in {"check", "lock", "make", "attach", "undo", "tie"} => io.m \in Machines
  BY DEF TypeInv, ServerInv, SpaceInv
<1>1. ASSUME UNCHANGED <<posted, async>>, mutex' \in {"ui", "io", NULL},
             NEW pc \in Places, io' = At(pc, io.m), io.m \in Machines
      PROVE  ServerInv'
  BY <1>0, <1>1, IoTyped DEF ServerInv, RowsAwaited
<1>2. ASSUME UNCHANGED <<posted, async>>, mutex' \in {"ui", "io", NULL}, io' = Idle
      PROVE  ServerInv'
  BY <1>0, <1>2, IoTyped DEF ServerInv, RowsAwaited
<1>3. CASE LockServer
  <2>1. io' = At("make", io.m) /\ io.m \in Machines /\ mutex' = "io" /\ UNCHANGED <<posted, async>>
    BY <1>0, <1>3 DEF LockServer, pool_vars
  <2>2. ServerInv'
    BY <1>1, <2>1 DEF Places
  <2> QED BY <1>3, <2>2, Same DEF LockServer, TypeInv, net_vars
<1>4. CASE Listen
  <2>1. ServerInv'
    BY <1>0, <1>2, <1>4 DEF Listen, pool_vars
  <2>2. todo' \in Seq(Told)
    BY <1>4, RegisteredList DEF Listen, TypeInv, NetInv
  <2>3. space' = IF todo' = <<>> THEN NULL ELSE "io"
    BY <1>4 DEF Listen
  <2>4. /\ pending' \in Seq({"play", "periodic"}) /\ ops' \in 0..MaxOps
        /\ riff' \in {"closed", "open"}
    BY <1>0, <1>4 DEF Listen, SpaceInv
  <2>5. SpaceInv'
    BY <2>2, <2>3, <2>4, Engine DEF SpaceInv, Threads
  <2>6. NetInv'
    BY <1>4 DEF Listen, TypeInv, NetInv
  <2> QED BY <1>4, <2>1, <2>5, <2>6, Same DEF Listen, TypeInv
<1>5. CASE CheckSequence
  <2>1. io' = At("lock", io.m) /\ io.m \in Machines /\ UNCHANGED <<mutex, posted, async>>
    BY <1>0, <1>5 DEF CheckSequence, pool_vars
  <2>2. ServerInv'
    BY <1>0, <1>1, <2>1 DEF Places
  <2> QED BY <1>5, <2>2, Same DEF CheckSequence, TypeInv, net_vars
<1>6. CASE MakeSequence
  <2>1. io' = At("attach", io.m) /\ io.m \in Machines /\ UNCHANGED <<mutex, posted, async>>
    BY <1>0, <1>6 DEF MakeSequence, pool_vars
  <2>2. ServerInv'
    BY <1>0, <1>1, <2>1 DEF Places
  <2>3. <<Event("sequence_registered", io.m, NULL)>> \in Seq(Told)
    BY <2>1, MachineEvent DEF About
  <2>4. UNCHANGED <<pending, riff>> /\ ops' \in 0..MaxOps
    BY <1>0, <1>6 DEF MakeSequence
  <2>5. SpaceInv'
    BY <1>0, <1>6, <2>3, <2>4, OperationTyped DEF MakeSequence, Threads
  <2> QED BY <1>6, <2>2, <2>5, Same DEF MakeSequence, TypeInv, net_vars
<1>7. CASE AttachSequence
  <2>1. io' = At("tie", io.m) /\ io.m \in Machines /\ UNCHANGED <<mutex, posted, async>>
    BY <1>0, <1>7 DEF AttachSequence, pool_vars
  <2>2. ServerInv'
    BY <1>0, <1>1, <2>1 DEF Places
  <2>3. <<Event("sequence_attached", io.m, NULL)>> \in Seq(Told)
    BY <2>1, MachineEvent DEF About
  <2>4. UNCHANGED <<pending, riff>> /\ ops' \in 0..MaxOps
    BY <1>0, <1>7 DEF AttachSequence
  <2>5. SpaceInv'
    BY <1>0, <1>7, <2>3, <2>4, OperationTyped DEF AttachSequence, Threads
  <2> QED BY <1>7, <2>2, <2>5, Same DEF AttachSequence, TypeInv, net_vars
<1>8. CASE TieSequence
  <2>1. ServerInv'
    BY <1>2, <1>8 DEF TieSequence, pool_vars
  <2>2. NetInv'
    BY <1>8 DEF TieSequence, TypeInv, NetInv
  <2> QED BY <1>8, <2>1, <2>2, Same DEF TieSequence, TypeInv
<1>9. CASE IoOperation
  <2>1. ServerInv'
    BY <1>0, <1>2, <1>9 DEF IoOperation, pool_vars
  <2>2. UNCHANGED <<pending, riff>> /\ ops' \in 0..MaxOps /\ known \subseteq Machines
    BY <1>0, <1>9 DEF IoOperation, TypeInv, RiInv
  <2>3. SpaceInv' /\ NetInv'
    BY <1>9, <2>2, ChangeTyped DEF IoOperation, Threads
  <2> QED BY <1>9, <2>1, <2>3, Same DEF IoOperation, TypeInv
<1>10. CASE IoRefused
  <2>1. ServerInv'
    BY <1>0, <1>2, <1>10 DEF IoRefused, pool_vars
  <2> QED BY <1>10, <2>1, Same DEF IoRefused, TypeInv, net_vars
<1>11. CASE HandleStopPlaying
  <2>1. ServerInv'
    BY <1>0, <1>2, <1>11 DEF HandleStopPlaying, pool_vars
  <2> QED BY <1>11, <2>1, Same DEF HandleStopPlaying, TypeInv, net_vars
<1>12. CASE AttachFails
  <2>1. io' = At("undo", io.m) /\ io.m \in Machines /\ mutex' = NULL /\ UNCHANGED <<posted, async>>
    BY <1>0, <1>12 DEF AttachFails, pool_vars
  <2>2. ServerInv'
    BY <1>1, <2>1 DEF Places
  <2> QED BY <1>12, <2>2, Same DEF AttachFails, TypeInv, net_vars
<1>13. CASE UndoMachine
  <2>1. /\ UNCHANGED <<mutex, posted, async, pending, riff>> /\ ops' \in 0..MaxOps
        /\ io.m \in Machines
    BY <1>0, <1>13 DEF UndoMachine, pool_vars
  <2>2. CASE Destroy("io", io.m) /\ io' = Idle
    <3>1. ServerInv'
      BY <1>0, <1>2, <2>1, <2>2
    <3>2. SpaceInv' /\ NetInv'
      BY <2>1, <2>2, DestroyTyped DEF Threads
    <3> QED BY <1>13, <3>1, <3>2, Same DEF UndoMachine, TypeInv
  <2>3. CASE io' = At("ended", NULL) /\ UNCHANGED <<space, todo, net_vars>>
    <3>1. ServerInv'
      BY <1>0, <2>1, <2>3, IoTyped DEF ServerInv, RowsAwaited, Places
    <3>2. SpaceInv'
      BY <1>0, <2>1, <2>3 DEF SpaceInv
    <3> QED BY <1>13, <2>3, <3>1, <3>2, Same DEF UndoMachine, TypeInv, net_vars
  <2> QED BY <1>13, <2>2, <2>3 DEF UndoMachine
<1> QED BY <1>3, <1>4, <1>5, <1>6, <1>7, <1>8, <1>9, <1>10, <1>11, <1>12, <1>13 DEF IoOperations

LEMMA RequestsTyped ==
  ASSUME TypeInv, Accept \/ Request("op") \/ Request("stop") \/ HandlePlay
  PROVE  TypeInv'
<1>1. CASE Accept
  BY <1>1, Same DEF Accept, TypeInv, pool_vars, server_vars, net_vars
<1>2. ASSUME NEW pc \in {"op", "stop"}, Request(pc) PROVE TypeInv'
  <2>1. SpaceInv'
    BY <1>2, Engine DEF Request, Asked, TypeInv, SpaceInv
  <2>2. pc \in Places /\ pc \notin {"check", "lock", "make", "attach", "undo", "tie"} /\ io' = At(pc, NULL)
    BY <1>2 DEF Request, Places
  <2>3. ServerInv'
    BY <1>2, <2>2, IoTyped DEF Request, TypeInv, ServerInv, RowsAwaited, pool_vars
  <2> QED BY <1>2, <2>1, <2>3, Same DEF Request, TypeInv, net_vars
<1>3. CASE HandlePlay
  <2>1. pending' \in Seq({"play", "periodic"})
    BY <1>3 DEF HandlePlay, TypeInv, SpaceInv
  <2>2. SpaceInv'
    BY <1>3, <2>1, Engine DEF HandlePlay, Asked, TypeInv, SpaceInv
  <2> QED BY <1>3, <2>2, Same DEF HandlePlay, TypeInv, pool_vars, server_vars, net_vars
<1> QED BY <1>1, <1>2, <1>3

LEMMA TypeStep == TypeInv /\ [Next]_vars => TypeInv'
<1> SUFFICES ASSUME TypeInv, [Next]_vars PROVE TypeInv'
  OBVIOUS
<1>1. CASE UNCHANGED vars
  BY <1>1, Same DEF TypeInv, vars, pool_vars, server_vars, net_vars
<1>2. CASE UiOperation \/ UiStop \/ StartServer \/ StopServer \/ Joined
  BY <1>2, UiTyped
<1>3. CASE QueueEvent \/ Execute \/ AudioSteps
  BY <1>3, EventsTyped
<1>4. CASE Handlers
  BY <1>4, HandlersTyped
<1>5. CASE LockServer \/ IoOperations
  BY <1>5, OtherIoTyped
<1>6. CASE Accept \/ Request("op") \/ Request("stop") \/ HandlePlay
  BY <1>6, RequestsTyped
<1> QED BY <1>1, <1>2, <1>3, <1>4, <1>5, <1>6 DEF Next, AudioSteps

(* The state has its shape, and no event of the pool is lost or put back   *)
(* twice: queue_event takes one, and the async thread returns it, for the  *)
(* line that is played when post_action is woken.                          *)
THEOREM TypeAlways == Spec => []TypeOK
<1>1. TypeInv => TypeOK
  BY DEF TypeInv, SpaceInv, PoolInv, ServerInv, NetInv, RiInv, TypeOK, Places
<1> QED BY <1>1, TypeInit, TypeStep, PTL DEF Spec


-----------------------------------------------------------------------------
(* Playing                                                                 *)

(* The request to play that was posted counts as executed.                 *)
PlayInv ==
  /\ pending \in Seq({"play", "periodic"})
  /\ is_playing \in BOOLEAN /\ client \in {"none", "playing", "paused"}
  /\ client # "none" /\ ~untold =>
       (client = "playing" <=> is_playing \/ "play" \in ToSet(pending))

LEMMA PendingView ==
  ASSUME NEW S, NEW s \in Seq(S), NEW e \in S
  PROVE  /\ ToSet(Append(s, e)) = ToSet(s) \cup {e}
         /\ s # <<>> => ToSet(s) = ToSet(Tail(s)) \cup {Head(s)}
         /\ ToSet(<<>>) = {}
<1>1. ToSet(Append(s, e)) = ToSet(s) \cup {e}
  BY AppendView DEF ToSet
<1>2. ASSUME s # <<>> PROVE ToSet(s) = ToSet(Tail(s)) \cup {Head(s)}
  <2>1. PICK n, t : n = Len(s) /\ t = Tail(s)
    OBVIOUS
  <2>2. /\ n \in Nat /\ n >= 1 /\ t \in Seq(S) /\ Len(t) = n - 1
        /\ \A k \in 1..(n - 1) : t[k] = s[k + 1]
        /\ Head(s) = s[1]
    BY <1>2, <2>1, TailView
  <2>3. DOMAIN s = 1..n /\ DOMAIN t = 1..(n - 1)
    BY <2>1, <2>2
  <2>4. \A k \in 1..n : k = 1 \/ (k - 1 \in 1..(n - 1) /\ s[k] = t[k - 1])
    BY <2>2
  <2>5. \A k \in 1..(n - 1) : k + 1 \in 1..n
    BY <2>2
  <2>6. \A x \in ToSet(s) : x = s[1] \/ x \in ToSet(t)
    BY <2>3, <2>4 DEF ToSet
  <2>7. \A x \in ToSet(t) : x \in ToSet(s)
    BY <2>2, <2>3, <2>5 DEF ToSet
  <2>8. s[1] \in ToSet(s)
    BY <2>2, <2>3 DEF ToSet
  <2> QED BY <2>1, <2>2, <2>6, <2>7, <2>8
<1>3. ToSet(<<>>) = {}
  BY DEF ToSet
<1> QED BY <1>1, <1>2, <1>3

LEMMA PlayStep == PlayInv /\ [Next]_vars => PlayInv'
<1> SUFFICES ASSUME PlayInv, [Next]_vars PROVE PlayInv'
  OBVIOUS
<1> DEFINE Coming == "play" \in ToSet(pending)
<1>0. ToSet(<<>>) = {}
  BY DEF ToSet
<1>1. CASE UNCHANGED <<pending, is_playing, client, untold>>
  BY <1>1 DEF PlayInv
<1>2. CASE UiStop
  BY <1>0, <1>2 DEF UiStop, PlayInv
<1>3. CASE DequeuePending
  <2>1. pending' \in Seq({"play", "periodic"}) /\ ToSet(pending) = ToSet(pending') \cup {Head(pending)}
    BY <1>3, PendingView DEF DequeuePending, PlayInv
  <2>2. (is_playing \/ Coming) <=> (is_playing' \/ "play" \in ToSet(pending'))
    BY <1>3, <2>1 DEF DequeuePending
  <2> QED BY <1>3, <2>1, <2>2 DEF DequeuePending, PlayInv
<1>4. CASE HandleServices
  <2>1. pending' \in Seq({"play", "periodic"}) /\ ToSet(pending') = ToSet(pending) \cup {"periodic"}
    BY <1>4, PendingView DEF HandleServices, PlayInv
  <2> QED BY <1>4, <2>1 DEF HandleServices, PlayInv, play_vars
<1>5. CASE HandleStop
  BY <1>5 DEF HandleStop, PlayInv, space_vars
<1>6. CASE Accept
  BY <1>6 DEF Accept, PlayInv, space_vars
<1>7. CASE HandlePlay
  <2>1. pending' \in Seq({"play", "periodic"}) /\ ToSet(pending') = ToSet(pending) \cup {"play"}
    BY <1>7, PendingView DEF HandlePlay, PlayInv
  <2> QED BY <1>7, <2>1 DEF HandlePlay, PlayInv
<1>8. CASE HandleStopPlaying
  BY <1>0, <1>8 DEF HandleStopPlaying, PlayInv, space_vars
<1>9. CASE UNCHANGED vars
  BY <1>1, <1>9 DEF vars, space_vars, play_vars
<1>10. CASE UiOperation \/ StartServer \/ StopServer \/ Joined
  BY <1>1, <1>10 DEF UiOperation, StartServer, StopServer, Joined, space_vars, play_vars
<1>11. CASE QueueEvent \/ Execute \/ PlayLine \/ Record \/ Pause \/ CloseFile \/ LockServer
  BY <1>1, <1>11 DEF QueueEvent, Execute, PlayLine, Record, Pause, CloseFile, LockServer,
                     space_vars, play_vars
<1>12. CASE HandleRegistered \/ HandleUnregistered \/ HandleAttached \/ HandleDetached \/ HandleOfSequence \/ HandleRow
  BY <1>1, <1>12 DEF HandleRegistered, HandleUnregistered, HandleAttached, HandleDetached,
                     HandleOfSequence, HandleRow, space_vars, play_vars
<1>13. CASE \/ Listen \/ CheckSequence \/ MakeSequence \/ AttachSequence \/ AttachFails
            \/ UndoMachine \/ TieSequence \/ IoOperation \/ IoRefused
  BY <1>1, <1>13 DEF Listen, CheckSequence, MakeSequence, AttachSequence, AttachFails,
                     UndoMachine, TieSequence, IoOperation, IoRefused, space_vars, play_vars
<1>14. CASE Request("op") \/ Request("stop")
  BY <1>1, <1>14 DEF Request, space_vars, play_vars
<1> QED BY <1>2, <1>3, <1>4, <1>5, <1>6, <1>7, <1>8, <1>9, <1>10, <1>11, <1>12, <1>13, <1>14
        DEF Next, Handlers, IoOperations

(* Whatever threads play and stop, a client shows whether the engine plays *)
(* once no operation of playing is pending, unless loading a project       *)
(* stopped the engine or the client connected during a request to play:    *)
(* "play" is announced before it is executed, "stop" afterwards.           *)
THEOREM PlayStateKnownAlways == Spec => []PlayStateKnown
<1>1. Init => PlayInv
  <2>1. <<>> \in Seq({"play", "periodic"}) /\ FALSE \in BOOLEAN
    OBVIOUS
  <2> QED BY <2>1 DEF Init, PlayInv
<1>2. PlayInv => PlayStateKnown
  BY DEF PlayInv, PlayStateKnown, ToSet
<1> QED BY <1>1, <1>2, PlayStep, PTL DEF Spec


-----------------------------------------------------------------------------
(* How the server begins to listen                                         *)

LEMMA QuietView ==
  ASSUME NEW S, NEW s \in Seq(S), NEW e \in S
  PROVE  /\ Quiet(<<>>)
         /\ Quiet(Append(s, e)) <=> Quiet(s) /\ e.kind \in {"services", "row", "write", "stop"}
         /\ s # <<>> /\ Quiet(s) => Quiet(Tail(s)) /\ Head(s).kind \in {"services", "row", "write", "stop"}
<1>1. Quiet(<<>>)
  BY DEF Quiet
<1>2. Quiet(Append(s, e)) <=> Quiet(s) /\ e.kind \in {"services", "row", "write", "stop"}
  <2>1. PICK n, t : n = Len(s) /\ t = Append(s, e)
    OBVIOUS
  <2>2. n \in Nat /\ Len(t) = n + 1 /\ (\A k \in 1..n : t[k] = s[k]) /\ t[n + 1] = e
    BY <2>1, AppendView
  <2> QED BY <2>1, <2>2 DEF Quiet
<1>3. ASSUME s # <<>>, Quiet(s) PROVE Quiet(Tail(s)) /\ Head(s).kind \in {"services", "row", "write", "stop"}
  <2>1. PICK n, t : n = Len(s) /\ t = Tail(s)
    OBVIOUS
  <2>2. /\ n \in Nat /\ n >= 1 /\ Len(t) = n - 1 /\ (\A k \in 1..(n - 1) : t[k] = s[k + 1])
        /\ Head(s) = s[1]
    BY <1>3, <2>1, TailView
  <2> QED BY <1>3, <2>1, <2>2 DEF Quiet
<1> QED BY <1>1, <1>2, <1>3

(* Operations are not announced before the server listens.                 *)
LEMMA OperationStarting ==
  ASSUME TypeInv, Starting, NEW t, NEW events, Operation(t, events),
         UNCHANGED <<posted, queue, pending, periodic, is_playing, listening, server, known, table>>,
         io' = io \/ (io'.at # "listen" /\ (server = "absent" => io'.at = "idle"))
  PROVE  Starting'
<1>1. ~listening => todo' = <<>>
  BY DEF Operation
<1>2. Quiet(<<>>)
  BY DEF Quiet
<1> QED BY <1>1, <1>2 DEF Starting, Quiet

LEMMA ChangeIsOperation ==
  ASSUME NEW t, NEW nameable, Change(t, nameable)
  PROVE  (\E events : Operation(t, events)) /\ UNCHANGED listening
BY DEF Change, Make, Destroy, AttachInput, DetachInput

(* The next handler.                                                       *)
LEMMA HandlerStarting ==
  ASSUME TypeInv, Starting, NEW kind, Handler(kind),
         UNCHANGED <<queue, todo, listening, server>>,
         kind \notin {"services", "row", "write", "stop"} \/ UNCHANGED <<known, table>>,
         io'.at = "listen" => kind = "services"
  PROVE  Starting'
<1>1. PICK n, h : n = Len(posted) /\ h = Head(posted)
  OBVIOUS
<1>2. /\ posted \in Seq(Events) /\ posted # <<>> /\ server = "up"
      /\ n \in Nat /\ n >= 1 /\ posted' \in Seq(Events) /\ Len(posted') = n - 1
      /\ \A k \in 1..(n - 1) : posted'[k] = posted[k + 1]
      /\ h = posted[1] /\ h \in Events /\ h.kind = kind /\ posted' = Tail(posted)
  BY <1>1, TailView DEF Handler, TypeInv, ServerInv
<1>3. \A k \in 1..(n - 1) : posted'[k].kind # "services"
  <2> SUFFICES ASSUME NEW k \in 1..(n - 1) PROVE posted'[k].kind # "services"
    OBVIOUS
  <2>1. k + 1 \in 1..n /\ k + 1 # 1
    BY <1>2
  <2> QED BY <1>1, <1>2, <2>1 DEF Starting
<1>4. io'.at = "listen" => ~listening
  BY <1>1, <1>2 DEF Starting
<1>5. ASSUME ~listening
      PROVE  known' = {} /\ table' = {} /\ Quiet(posted') /\ Quiet(queue') /\ Quiet(todo')
  <2>1. known = {} /\ table = {} /\ Quiet(posted) /\ Quiet(queue) /\ Quiet(todo)
    BY <1>2, <1>5 DEF Starting
  <2>2. Quiet(posted') /\ kind \in {"services", "row", "write", "stop"}
    BY <1>1, <1>2, <2>1, QuietView
  <2> QED BY <2>1, <2>2 DEF Quiet
<1> QED BY <1>2, <1>3, <1>4, <1>5 DEF Starting

LEMMA StartingSame ==
  ASSUME Starting, UNCHANGED <<posted, queue, todo, periodic, listening, server, known, table>>,
         UNCHANGED pending \/ server # "absent",
         UNCHANGED is_playing \/ is_playing' = FALSE \/ server # "absent",
         UNCHANGED io \/ (server # "absent" /\ io'.at # "listen")
  PROVE  Starting'
BY DEF Starting, Quiet

LEMMA UiStarting ==
  ASSUME TypeInv, Starting, UiOperation \/ UiStop \/ StartServer \/ StopServer \/ Joined
  PROVE  Starting'
<1>1. CASE UiOperation
  <2>1. PICK events : Operation("ui", events)
    BY <1>1, ChangeIsOperation DEF UiOperation
  <2>2. UNCHANGED <<posted, queue, pending, periodic, is_playing, listening, server, known, table, io>>
    BY <1>1, ChangeIsOperation DEF UiOperation, pool_vars, server_vars, ri_vars, play_vars
  <2> QED BY <2>1, <2>2, OperationStarting
<1>2. CASE UiStop
  BY <1>2, StartingSame DEF UiStop, pool_vars, server_vars, net_vars, ri_vars
<1>3. CASE StartServer
  <2>1. PICK ev : ev = Event("services", NULL, NULL)
    OBVIOUS
  <2>2. ev.kind = "services" /\ posted' = <<ev>> /\ server = "absent" /\ server' = "up"
    BY <1>3, <2>1, PlainEvent DEF StartServer
  <2>3. UNCHANGED <<queue, todo, pending, periodic, is_playing, listening, io, known, table>>
    BY <1>3 DEF StartServer, space_vars, pool_vars, net_vars, ri_vars, play_vars
  <2>4. Quiet(posted') /\ \A k \in 1..Len(posted') : k = 1
    BY <2>2 DEF Quiet
  <2>5. queue' = <<>> /\ todo' = <<>> /\ known' = {} /\ table' = {} /\ ~listening' /\ io'.at = "idle"
    BY <2>2, <2>3 DEF Starting
  <2>6. Quiet(queue') /\ Quiet(todo')
    BY <2>5 DEF Quiet
  <2> QED BY <2>2, <2>4, <2>5, <2>6 DEF Starting
<1>4. CASE StopServer
  <2>1. PICK ev, n : ev = Event("stop", NULL, NULL) /\ n = Len(posted)
    OBVIOUS
  <2>2. /\ ev \in Events /\ ev.kind = "stop" /\ posted' = Append(posted, ev) /\ server = "up"
        /\ posted \in Seq(Events)
    BY <1>4, <2>1, PlainEvent DEF StopServer, TypeInv, ServerInv
  <2>3. UNCHANGED <<queue, todo, pending, periodic, is_playing, listening, io, known, table, server>>
    BY <1>4 DEF StopServer, space_vars, pool_vars, net_vars, ri_vars, play_vars
  <2>4. /\ n \in Nat /\ Len(posted') = n + 1 /\ posted'[n + 1] = ev
        /\ \A k \in 1..n : posted'[k] = posted[k]
    BY <2>1, <2>2, AppendView
  <2>5. \A k \in 1..(n + 1) : posted'[k].kind = "services" => k = 1 /\ ~listening /\ io.at # "listen"
    BY <2>1, <2>2, <2>4 DEF Starting
  <2>6. Quiet(posted) => Quiet(posted')
    BY <2>2, QuietView
  <2> QED BY <2>2, <2>3, <2>4, <2>5, <2>6 DEF Starting, Quiet
<1>5. CASE Joined
  BY <1>5 DEF Joined, Starting, Quiet, pool_vars, space_vars, ri_vars, play_vars
<1> QED BY <1>1, <1>2, <1>3, <1>4, <1>5


LEMMA EventsStarting ==
  ASSUME TypeInv, Starting, QueueEvent \/ Execute \/ AudioSteps
  PROVE  Starting'
<1>1. CASE QueueEvent
  <2>1. PICK h : h = Head(todo)
    OBVIOUS
  <2>2. /\ h \in Told /\ todo \in Seq(Told) /\ queue \in Seq(Told) /\ todo # <<>>
        /\ todo' = Tail(todo) /\ queue' = Append(queue, h)
    BY <1>1, <2>1, TailView DEF QueueEvent, TypeInv, SpaceInv, PoolInv
  <2>3. UNCHANGED <<posted, pending, periodic, is_playing, listening, server, known, table, io>>
    BY <1>1 DEF QueueEvent, server_vars, net_vars, ri_vars, play_vars
  <2>4. Quiet(queue) /\ Quiet(todo) => Quiet(queue') /\ Quiet(todo')
    BY <2>1, <2>2, QuietView
  <2> QED BY <2>2, <2>3, <2>4 DEF Starting, Quiet
<1>2. CASE Execute
  <2>1. PICK ev, n : ev = Head(queue) /\ n = Len(posted)
    OBVIOUS
  <2>2. /\ ev \in Told /\ ev \in Events /\ queue \in Seq(Told) /\ queue # <<>> /\ queue' = Tail(queue)
        /\ posted' = (IF ev.kind \in {"sequence_registered", "write"} THEN posted ELSE Append(posted, ev))
        /\ posted \in Seq(Events)
    BY <1>2, <2>1, TailView DEF Execute, TypeInv, PoolInv, ServerInv, Told
  <2>3. UNCHANGED <<todo, pending, periodic, is_playing, listening, server, known, table, io>>
    BY <1>2 DEF Execute, space_vars, net_vars, ri_vars, play_vars
  <2>4. Quiet(queue) /\ Quiet(posted) => Quiet(queue') /\ Quiet(posted')
    BY <2>1, <2>2, QuietView
  <2>5. \A k \in 1..Len(posted') :
          posted'[k].kind = "services" => k = 1 /\ ~listening /\ io.at # "listen"
    <3>1. CASE ev.kind \in {"sequence_registered", "write"}
      BY <2>2, <3>1 DEF Starting
    <3>2. CASE ev.kind \notin {"sequence_registered", "write"}
      <4>1. /\ n \in Nat /\ Len(posted') = n + 1 /\ posted'[n + 1] = ev
            /\ \A k \in 1..n : posted'[k] = posted[k]
        BY <2>1, <2>2, <3>2, AppendView
      <4> QED BY <2>1, <2>2, <4>1 DEF Starting, Told
    <3> QED BY <3>1, <3>2
  <2> QED BY <2>2, <2>3, <2>4, <2>5 DEF Starting, Quiet
<1>3. CASE PlayLine
  <2>1. PICK ev : ev = Event("row", NULL, NULL)
    OBVIOUS
  <2>2. ev.kind = "row" /\ todo' = <<ev>> /\ periodic
    BY <1>3, <2>1, PlainEvent DEF PlayLine
  <2>3. Quiet(todo')
    BY <2>2 DEF Quiet
  <2>4. UNCHANGED <<posted, queue, pending, periodic, is_playing, listening, server, known, table, io>>
    BY <1>3 DEF PlayLine, pool_vars, server_vars, net_vars, ri_vars, play_vars
  <2> QED BY <2>2, <2>3, <2>4 DEF Starting, Quiet
<1>4. CASE Record
  <2>1. PICK ev : ev = Event("write", NULL, NULL)
    OBVIOUS
  <2>2. ev.kind = "write" /\ todo' = <<ev>> /\ is_playing
    BY <1>4, <2>1, PlainEvent DEF Record
  <2>3. Quiet(todo')
    BY <2>2 DEF Quiet
  <2>4. UNCHANGED <<posted, queue, pending, periodic, is_playing, listening, server, known, table, io>>
    BY <1>4 DEF Record, pool_vars, server_vars, net_vars, ri_vars, play_vars
  <2> QED BY <2>2, <2>3, <2>4 DEF Starting, Quiet
<1>5. CASE Pause \/ CloseFile
  BY <1>5, StartingSame DEF Pause, CloseFile, pool_vars, server_vars, net_vars, ri_vars, play_vars
<1>6. CASE DequeuePending
  <2>1. UNCHANGED <<posted, queue, todo, listening, server, known, table, io>> /\ pending # <<>>
    BY <1>6 DEF DequeuePending, pool_vars, server_vars, net_vars, ri_vars
  <2> QED BY <2>1 DEF Starting, Quiet
<1> QED BY <1>1, <1>2, <1>3, <1>4, <1>5, <1>6 DEF AudioSteps

LEMMA HandlersStarting ==
  ASSUME TypeInv, Starting, Handlers
  PROVE  Starting'
<1> USE DEF pool_vars, space_vars, net_vars, ri_vars, play_vars
<1>0. ASSUME NEW kind, Handler(kind) PROVE io.at = "idle"
  BY <1>0 DEF Handler
<1>1. CASE HandleServices
  BY <1>1, HandlerStarting DEF HandleServices
<1>2. CASE HandleRegistered
  <2>1. io'.at # "listen"
    BY <1>2 DEF HandleRegistered, At, Idle
  <2> QED BY <1>2, <2>1, HandlerStarting DEF HandleRegistered
<1>3. CASE HandleUnregistered
  BY <1>0, <1>3, HandlerStarting DEF HandleUnregistered
<1>4. CASE HandleAttached
  BY <1>0, <1>4, HandlerStarting DEF HandleAttached
<1>5. CASE HandleDetached
  BY <1>0, <1>5, HandlerStarting DEF HandleDetached
<1>6. CASE HandleOfSequence
  BY <1>0, <1>6, HandlerStarting DEF HandleOfSequence
<1>7. CASE HandleRow
  BY <1>0, <1>7, HandlerStarting DEF HandleRow
<1>8. CASE HandleStop
  <2>1. io'.at # "listen"
    BY <1>8 DEF HandleStop, At
  <2> QED BY <1>8, <2>1, HandlerStarting DEF HandleStop
<1> QED BY <1>1, <1>2, <1>3, <1>4, <1>5, <1>6, <1>7, <1>8 DEF Handlers

LEMMA OthersStarting ==
  ASSUME TypeInv, Starting,
         LockServer \/ IoOperations \/ Accept \/ Request("op") \/ Request("stop") \/ HandlePlay
  PROVE  Starting'
<1> USE DEF pool_vars, space_vars, server_vars, net_vars, ri_vars, play_vars
<1>0. io.at # "idle" => server # "absent"
  BY DEF Starting
<1>1. CASE LockServer
  BY <1>0, <1>1, StartingSame DEF LockServer, At
<1>2. CASE Listen
  <2>1. /\ io' = Idle /\ io.at = "listen" /\ listening' = TRUE
        /\ UNCHANGED <<posted, queue, pending, periodic, is_playing, server, known, table>>
    BY <1>2 DEF Listen
  <2>2. server = "up" /\ \A k \in 1..Len(posted) : posted[k].kind # "services"
    BY <2>1 DEF Starting
  <2> QED BY <2>1, <2>2 DEF Starting, Idle
<1>3. CASE CheckSequence
  BY <1>0, <1>3, StartingSame DEF CheckSequence, At
<1>4. CASE MakeSequence
  <2>1. io'.at # "listen" /\ server # "absent"
    BY <1>0, <1>4 DEF MakeSequence, At
  <2> QED BY <1>4, <2>1, OperationStarting DEF MakeSequence
<1>5. CASE AttachSequence
  <2>1. io'.at # "listen" /\ server # "absent"
    BY <1>0, <1>5 DEF AttachSequence, At
  <2> QED BY <1>5, <2>1, OperationStarting DEF AttachSequence
<1>6. CASE TieSequence
  BY <1>0, <1>6, StartingSame DEF TieSequence, Idle
<1>7. CASE IoOperation
  <2>1. io'.at = "idle"
    BY <1>7 DEF IoOperation, Idle
  <2>2. (\E events : Operation("io", events)) /\ UNCHANGED listening
    BY <1>7, ChangeIsOperation DEF IoOperation
  <2> QED BY <1>7, <2>1, <2>2, OperationStarting DEF IoOperation
<1>8. CASE IoRefused
  BY <1>0, <1>8, StartingSame DEF IoRefused, Idle
<1>9. CASE HandleStopPlaying
  BY <1>0, <1>9, StartingSame DEF HandleStopPlaying, Idle
<1>10. CASE Accept
  BY <1>10, StartingSame DEF Accept
<1>11. ASSUME NEW pc \in {"op", "stop"}, Request(pc) PROVE Starting'
  BY <1>11, StartingSame DEF Request, Free, At
<1>12. CASE HandlePlay
  BY <1>12, StartingSame DEF HandlePlay, Free
<1>13. CASE AttachFails
  BY <1>0, <1>13, StartingSame DEF AttachFails, At
<1>14. CASE UndoMachine
  <2>1. server # "absent"
    BY <1>0, <1>14 DEF UndoMachine
  <2>2. CASE Destroy("io", io.m) /\ io' = Idle
    <3>1. (\E events : Operation("io", events)) /\ UNCHANGED listening /\ io'.at = "idle"
      BY <2>2 DEF Destroy, Idle
    <3> QED BY <1>14, <2>1, <3>1, OperationStarting DEF UndoMachine
  <2>3. CASE io' = At("ended", NULL) /\ UNCHANGED <<space, todo, net_vars>>
    BY <1>14, <2>1, <2>3, StartingSame DEF UndoMachine, At
  <2> QED BY <1>14, <2>2, <2>3 DEF UndoMachine
<1> QED BY <1>1, <1>2, <1>3, <1>4, <1>5, <1>6, <1>7, <1>8, <1>9, <1>10, <1>11, <1>12, <1>13, <1>14
        DEF IoOperations

LEMMA StartingStep == TypeInv /\ Starting /\ [Next]_vars => Starting'
<1> SUFFICES ASSUME TypeInv, Starting, [Next]_vars PROVE Starting'
  OBVIOUS
<1>1. CASE UNCHANGED vars
  BY <1>1, StartingSame DEF vars, pool_vars, space_vars, server_vars, net_vars, ri_vars, play_vars
<1> QED BY <1>1, UiStarting, EventsStarting, HandlersStarting, OthersStarting DEF Next, AudioSteps


-----------------------------------------------------------------------------
(* What the server will know                                               *)

Know(a, t) == [known |-> a, table |-> t]

(* After, kind by kind.                                                    *)
LEMMA AfterRegistered ==
  ASSUME NEW a, NEW t, NEW ev, ev.kind = "registered"
  PROVE  After(Know(a, t), ev) = Know(a \cup {ev.m}, t)
BY DEF After, Know

LEMMA AfterUnregistered ==
  ASSUME NEW a, NEW t, NEW ev, ev.kind = "unregistered"
  PROVE  After(Know(a, t), ev) = Know(a \ {ev.m}, {w \in t : w[2] # ev.m})
BY DEF After, Know

LEMMA AfterAttached ==
  ASSUME NEW a, NEW t, NEW ev, ev.kind = "attached"
  PROVE  After(Know(a, t), ev) =
           Know(a, IF {ev.m, ev.n} \subseteq a THEN t \cup {<<ev.m, ev.n>>} ELSE t)
BY DEF After, Know

LEMMA AfterDetached ==
  ASSUME NEW a, NEW t, NEW ev, ev.kind = "detached"
  PROVE  After(Know(a, t), ev) =
           Know(a, IF {ev.m, ev.n} \subseteq a THEN t \ {<<ev.m, ev.n>>} ELSE t)
BY DEF After, Know

LEMMA AfterInert ==
  ASSUME NEW k, NEW ev, ev.kind \notin {"registered", "unregistered", "attached", "detached"}
  PROVE  After(k, ev) = k
BY DEF After

(* What is announced of nothing, of machines and of connections at once.   *)
LEMMA QuietFold ==
  ASSUME NEW s \in Seq(Events), Quiet(s), NEW base
  PROVE  FoldLeft(After, base, s) = base
<1> DEFINE r == [k \in 0..Len(s) |-> base]
<1>1. \A k \in 1..Len(s) : After(base, s[k]) = base
  BY AfterInert DEF Quiet
<1>2. \A k \in 1..Len(s) : k - 1 \in 0..Len(s) /\ k \in 0..Len(s)
  OBVIOUS
<1>3. 0 \in 0..Len(s) /\ Len(s) \in 0..Len(s)
  OBVIOUS
<1>4. IsRun(r, base, s)
  BY <1>1, <1>2, <1>3 DEF IsRun
<1>5. FoldLeft(After, base, s) = r[Len(s)]
  BY <1>4, FoldOfRun
<1> QED BY <1>3, <1>5

LEMMA RegisterAll ==
  ASSUME NEW M \in SUBSET Machines, NEW t
  PROVE  FoldLeft(After, Know({}, t), SetToSeq({Event("registered", m, NULL) : m \in M})) = Know(M, t)
<1> DEFINE D == {Event("registered", m, NULL) : m \in M}
<1>1. PICK d, n : d = SetToSeq(D) /\ n = Len(d)
  OBVIOUS
<1>2. d \in Seq(D) /\ n \in Nat /\ IsFiniteSet(D)
  BY <1>1, RegisteredList
<1>3. /\ \A x \in D : \E k \in 1..n : d[k] = x
      /\ \A k \in 1..n : d[k] \in D
  <2> HIDE DEF D
  <2> QED BY <1>1, <1>2, SetToSeqView
<1> DEFINE Seen(k) == {m \in M : \E j \in 1..k : d[j] = Event("registered", m, NULL)}
           r == [k \in 0..n |-> Know(Seen(k), t)]
<1>4. Seen(0) = {} /\ Seen(n) = M
  BY <1>3
<1>5. ASSUME NEW k \in 1..n PROVE r[k] = After(r[k - 1], d[k])
  <2>1. PICK m0 \in M : d[k] = Event("registered", m0, NULL)
    BY <1>3
  <2>2. d[k].kind = "registered" /\ d[k].m = m0
    BY <2>1 DEF Event
  <2>3. \A m \in M : d[k] = Event("registered", m, NULL) <=> m = m0
    BY <2>1 DEF Event
  <2>4. \A j \in 1..k : j = k \/ j \in 1..(k - 1)
    OBVIOUS
  <2>5. Seen(k) = Seen(k - 1) \cup {m0}
    BY <1>2, <2>3, <2>4
  <2> HIDE DEF Seen
  <2>6. PICK x, ev : x = Seen(k - 1) /\ ev = d[k]
    OBVIOUS
  <2>7. After(Know(x, t), ev) = Know(x \cup {ev.m}, t)
    <3>1. ev.kind = "registered"
      BY <2>2, <2>6
    <3> QED BY <3>1, AfterRegistered
  <2>8. r[k] = Know(Seen(k), t) /\ r[k - 1] = Know(Seen(k - 1), t)
    BY <1>2
  <2> QED BY <2>2, <2>5, <2>6, <2>7, <2>8
<1>6. r[0] = Know({}, t) /\ r[n] = Know(M, t) /\ DOMAIN r = 0..n
  <2>1. 0 \in 0..n /\ n \in 0..n
    BY <1>2
  <2>2. r[0] = Know(Seen(0), t) /\ r[n] = Know(Seen(n), t)
    <3> HIDE DEF Seen
    <3> QED BY <2>1
  <2> QED BY <1>4, <2>2
<1> HIDE DEF r
<1>7. IsRun(r, Know({}, t), d)
  BY <1>1, <1>5, <1>6 DEF IsRun
<1>8. FoldLeft(After, Know({}, t), d) = r[n]
  BY <1>1, <1>2, <1>7, FoldOfRun
<1> QED BY <1>1, <1>6, <1>8

LEMMA DetachAll ==
  ASSUME NEW W \in SUBSET Wires, NEW a, NEW t \in SUBSET Wires,
         \A w \in W : {w[1], w[2]} \subseteq a
  PROVE  FoldLeft(After, Know(a, t), SetToSeq({Detached(w) : w \in W})) = Know(a, t \ W)
<1> DEFINE D == {Detached(w) : w \in W}
<1>1. PICK d, n : d = SetToSeq(D) /\ n = Len(d)
  OBVIOUS
<1>2. d \in Seq(D) /\ n \in Nat /\ IsFiniteSet(D)
  BY <1>1, DetachedList
<1>3. /\ \A x \in D : \E k \in 1..n : d[k] = x
      /\ \A k \in 1..n : d[k] \in D
  <2> HIDE DEF D
  <2> QED BY <1>1, <1>2, SetToSeqView
<1>4. \A v, w \in Wires : Detached(v) = Detached(w) => v = w
  <2> SUFFICES ASSUME NEW v \in Wires, NEW w \in Wires, Detached(v) = Detached(w) PROVE v = w
    OBVIOUS
  <2>1. v[1] = w[1] /\ v[2] = w[2]
    BY DEF Detached, Event
  <2>2. v = <<v[1], v[2]>> /\ w = <<w[1], w[2]>>
    BY WireTyped
  <2> QED BY <2>1, <2>2
<1> DEFINE Left(k) == {w \in t : \A j \in 1..k : d[j] # Detached(w)}
           r == [k \in 0..n |-> Know(a, Left(k))]
<1>5. Left(0) = t
  OBVIOUS
<1>6. Left(n) = t \ W
  <2>1. \A w \in W : \E k \in 1..n : d[k] = Detached(w)
    BY <1>3
  <2>2. \A k \in 1..n : \E w \in W : d[k] = Detached(w)
    BY <1>3
  <2> QED BY <1>4, <2>1, <2>2
<1>7. ASSUME NEW k \in 1..n PROVE r[k] = After(r[k - 1], d[k])
  <2>1. PICK w0 \in W : d[k] = Detached(w0)
    BY <1>3
  <2>2. d[k].kind = "detached" /\ d[k].m = w0[1] /\ d[k].n = w0[2]
    BY <2>1 DEF Detached, Event
  <2>3. w0 = <<d[k].m, d[k].n>> /\ {d[k].m, d[k].n} \subseteq a
    BY <2>2, WireTyped
  <2>4. \A w \in t : d[k] = Detached(w) <=> w = w0
    BY <1>4, <2>1
  <2>5. \A j \in 1..k : j = k \/ j \in 1..(k - 1)
    OBVIOUS
  <2>6. Left(k) = Left(k - 1) \ {w0}
    BY <1>2, <2>4, <2>5
  <2> HIDE DEF Left
  <2>7. PICK x, ev : x = Left(k - 1) /\ ev = d[k]
    OBVIOUS
  <2>8. After(Know(a, x), ev) = Know(a, x \ {<<ev.m, ev.n>>})
    <3>1. ev.kind = "detached" /\ {ev.m, ev.n} \subseteq a
      BY <2>2, <2>3, <2>7
    <3> QED BY <3>1, AfterDetached
  <2>9. r[k] = Know(a, Left(k)) /\ r[k - 1] = Know(a, Left(k - 1))
    BY <1>2
  <2> QED BY <2>3, <2>6, <2>7, <2>8, <2>9
<1>8. r[0] = Know(a, t) /\ r[n] = Know(a, t \ W) /\ DOMAIN r = 0..n
  <2>1. 0 \in 0..n /\ n \in 0..n
    BY <1>2
  <2>2. r[0] = Know(a, Left(0)) /\ r[n] = Know(a, Left(n))
    <3> HIDE DEF Left
    <3> QED BY <2>1
  <2> QED BY <1>5, <1>6, <2>2
<1> HIDE DEF r
<1>9. IsRun(r, Know(a, t), d)
  BY <1>1, <1>7, <1>8 DEF IsRun
<1>10. FoldLeft(After, Know(a, t), d) = r[n]
  BY <1>1, <1>2, <1>9, FoldOfRun
<1> QED BY <1>1, <1>8, <1>10


(* The three queues, one after the other.                                  *)
LEMMA Queues ==
  ASSUME NEW p \in Seq(Events), NEW q \in Seq(Events), NEW s \in Seq(Events), NEW base
  PROVE  FoldLeft(After, base, p \o q \o s) =
           FoldLeft(After, FoldLeft(After, FoldLeft(After, base, p), q), s)
<1>1. PICK u : u = p \o q
  OBVIOUS
<1>2. u \in Seq(Events)
  BY <1>1
<1>3. FoldLeft(After, base, u) = FoldLeft(After, FoldLeft(After, base, p), q)
  BY <1>1, FoldConcat
<1>4. FoldLeft(After, base, u \o s) = FoldLeft(After, FoldLeft(After, base, u), s)
  BY <1>2, FoldConcat
<1> QED BY <1>1, <1>3, <1>4

LEMMA QueuesTyped ==
  ASSUME TypeInv
  PROVE  posted \in Seq(Events) /\ queue \in Seq(Events) /\ todo \in Seq(Events)
<1>1. Told \subseteq Events
  BY DEF Told
<1> QED BY <1>1 DEF TypeInv, SpaceInv, PoolInv, ServerInv

(* What is known and will be known at the end of each queue.               *)
Posted == FoldLeft(After, Know(known, table), posted)
Queued == FoldLeft(After, Posted, queue)

LEMMA EventualView ==
  ASSUME TypeInv PROVE Eventual = FoldLeft(After, Queued, todo)
<1>1. posted \in Seq(Events) /\ queue \in Seq(Events) /\ todo \in Seq(Events)
  BY QueuesTyped
<1> QED BY <1>1, Queues DEF Eventual, Queued, Posted, Know

(* An operation does to the network what its events tell of it.            *)
LEMMA OperationFollows ==
  ASSUME TypeInv, TypeInv', TableFollows, NEW t, NEW events, Operation(t, events),
         UNCHANGED <<posted, queue, listening, known, table>>,
         listening => FoldLeft(After, Know(live, wired \ early), events)
                        = Know(live', wired' \ early')
  PROVE  TableFollows'
<1> SUFFICES ASSUME listening PROVE Eventual' = Know(live', wired' \ early')
  BY DEF TableFollows, Know
<1>1. todo = <<>> /\ todo' = events
  BY DEF Operation, TypeInv, SpaceInv
<1>2. Eventual = Queued
  BY <1>1, EventualView, FoldEmpty
<1>3. Queued = Know(live, wired \ early)
  BY <1>2 DEF TableFollows, Know
<1>4. posted' \in Seq(Events) /\ queue' \in Seq(Events) /\ todo' \in Seq(Events)
  BY QueuesTyped DEF TypeInv, SpaceInv, PoolInv, ServerInv, Told
<1>5. Eventual' = FoldLeft(After, FoldLeft(After, FoldLeft(After, Know(known, table), posted), queue), events)
  BY <1>1, <1>4, Queues DEF Eventual, Know
<1> QED BY <1>3, <1>5 DEF Queued, Posted


LEMMA FarewellFold ==
  ASSUME TypeInv, NEW m \in Machines
  PROVE  FoldLeft(After, Know(live, wired \ early), Farewell(m)) =
           Know(live \ {m}, {w \in wired \ early : m \notin {w[1], w[2]}})
<1> DEFINE W == {w \in wired : m \in {w[1], w[2]}}
<1>1. PICK a, d, c, u :
        /\ a = (IF m \in tied THEN <<Event("sequence_detached", m, NULL)>> ELSE <<>>)
        /\ d = SetToSeq({Detached(w) : w \in W})
        /\ c = (IF m \in tied THEN <<Event("sequence_unregistered", m, NULL)>> ELSE <<>>)
        /\ u = Event("unregistered", m, NULL)
  OBVIOUS
<1>2. Farewell(m) = a \o d \o c \o <<u>>
  BY <1>1 DEF Farewell
<1>3. PICK base, t : base = Know(live, t) /\ t = wired \ early
  OBVIOUS
<1>4. W \in SUBSET Wires /\ t \in SUBSET Wires /\ \A w \in W : {w[1], w[2]} \subseteq live
  BY <1>3 DEF TypeInv, NetInv
<1>5. /\ Event("sequence_detached", m, NULL) \in Events
      /\ Event("sequence_unregistered", m, NULL) \in Events
      /\ u \in Events
  BY <1>1, MachineEvent DEF About, Told
<1>6. d \in Seq(Events)
  <2>1. d \in Seq(Told)
    BY <1>1, <1>4, DetachedList
  <2> QED BY <2>1 DEF Told
<1>7. a \in Seq(Events) /\ c \in Seq(Events) /\ a \o d \o c \in Seq(Events) /\ <<u>> \in Seq(Events)
  BY <1>1, <1>5, <1>6
<1>8. FoldLeft(After, base, a) = base
  <2>1. PICK ev : ev = Event("sequence_detached", m, NULL)
    OBVIOUS
  <2>2. After(base, ev) = base
    BY <2>1, AfterInert DEF Event
  <2> QED BY <1>1, <2>1, <2>2, FoldEmpty, FoldOne
<1>9. FoldLeft(After, base, d) = Know(live, t \ W)
  BY <1>1, <1>3, <1>4, DetachAll
<1>10. FoldLeft(After, Know(live, t \ W), c) = Know(live, t \ W)
  <2>1. PICK ev, b : ev = Event("sequence_unregistered", m, NULL) /\ b = Know(live, t \ W)
    OBVIOUS
  <2>2. After(b, ev) = b
    BY <2>1, AfterInert DEF Event
  <2>3. FoldLeft(After, b, c) = b
    BY <1>1, <2>1, <2>2, FoldEmpty, FoldOne
  <2> QED BY <2>1, <2>3
<1>11. FoldLeft(After, base, a \o d \o c) = Know(live, t \ W)
  BY <1>6, <1>7, <1>8, <1>9, <1>10, Queues
<1>12. FoldLeft(After, base, a \o d \o c \o <<u>>) = After(Know(live, t \ W), u)
  <2>1. PICK v : v = a \o d \o c
    OBVIOUS
  <2>2. FoldLeft(After, base, v \o <<u>>) = FoldLeft(After, FoldLeft(After, base, v), <<u>>)
    BY <1>7, <2>1, FoldConcat
  <2> QED BY <1>11, <2>1, <2>2, FoldOne
<1>13. After(Know(live, t \ W), u) = Know(live \ {m}, {w \in t \ W : w[2] # m})
  <2>1. u.kind = "unregistered" /\ u.m = m
    BY <1>1 DEF Event
  <2> QED BY <2>1, AfterUnregistered
<1>14. {w \in t \ W : w[2] # m} = {w \in wired \ early : m \notin {w[1], w[2]}}
  BY <1>3
<1> QED BY <1>2, <1>3, <1>12, <1>13, <1>14

LEMMA DestroyFollows ==
  ASSUME TypeInv, TypeInv', TableFollows, NEW t, NEW m \in Machines, Destroy(t, m),
         UNCHANGED <<posted, queue, known, table>>
  PROVE  TableFollows'
<1>1. Operation(t, Farewell(m)) /\ UNCHANGED listening
  BY DEF Destroy, Farewell
<1>2. FoldLeft(After, Know(live, wired \ early), Farewell(m)) =
        Know(live \ {m}, {w \in wired \ early : m \notin {w[1], w[2]}})
  BY FarewellFold
<1>3. live' = live \ {m} /\ wired' \ early' = {w \in wired \ early : m \notin {w[1], w[2]}}
  BY DEF Destroy
<1> QED BY <1>1, <1>2, <1>3, OperationFollows

LEMMA ChangeFollows ==
  ASSUME TypeInv, TypeInv', TableFollows, NEW t, NEW nameable, nameable \subseteq Machines,
         Change(t, nameable), UNCHANGED <<posted, queue, known, table>>
  PROVE  TableFollows'
<1>0. UNCHANGED listening
  BY ChangeIsOperation
<1>1. ASSUME NEW m \in Machines, Make(t, m) PROVE TableFollows'
  <2>1. PICK ev : ev = Event("registered", m, NULL)
    OBVIOUS
  <2>2. ev.kind = "registered" /\ ev.m = m
    BY <2>1 DEF Event
  <2>3. After(Know(live, wired \ early), ev) = Know(live \cup {m}, wired \ early)
    BY <2>2, AfterRegistered
  <2>4. FoldLeft(After, Know(live, wired \ early), <<ev>>) = Know(live', wired' \ early')
    BY <1>1, <2>3, FoldOne DEF Make
  <2> QED BY <1>0, <1>1, <2>1, <2>4, OperationFollows DEF Make
<1>2. ASSUME NEW m \in nameable, Destroy(t, m) PROVE TableFollows'
  BY <1>2, DestroyFollows
<1>3. ASSUME NEW w \in Wires, AttachInput(t, w) PROVE TableFollows'
  <2>1. PICK ev : ev = Event("attached", w[1], w[2])
    OBVIOUS
  <2>2. ev.kind = "attached" /\ ev.m = w[1] /\ ev.n = w[2] /\ w = <<ev.m, ev.n>>
    BY <2>1, WireTyped DEF Event
  <2>3. {ev.m, ev.n} \subseteq live /\ w \notin early
    BY <1>3, <2>2 DEF AttachInput, TypeInv, NetInv
  <2>4. After(Know(live, wired \ early), ev) = Know(live, (wired \ early) \cup {w})
    BY <2>2, <2>3, AfterAttached
  <2>5. live' = live /\ wired' \ early' = (wired \ early) \cup {w}
    BY <1>3, <2>3 DEF AttachInput
  <2>6. FoldLeft(After, Know(live, wired \ early), <<ev>>) = Know(live', wired' \ early')
    BY <2>4, <2>5, FoldOne
  <2> QED BY <1>0, <1>3, <2>1, <2>6, OperationFollows DEF AttachInput
<1>4. ASSUME NEW w \in Wires, DetachInput(t, w) PROVE TableFollows'
  <2>1. PICK ev : ev = Detached(w)
    OBVIOUS
  <2>2. ev.kind = "detached" /\ ev.m = w[1] /\ ev.n = w[2] /\ w = <<ev.m, ev.n>>
    BY <2>1, WireTyped DEF Detached, Event
  <2>3. {ev.m, ev.n} \subseteq live
    BY <1>4, <2>2 DEF DetachInput, TypeInv, NetInv
  <2>4. After(Know(live, wired \ early), ev) = Know(live, (wired \ early) \ {w})
    <3>1. After(Know(live, wired \ early), ev) =
            Know(live, IF {ev.m, ev.n} \subseteq live THEN (wired \ early) \ {<<ev.m, ev.n>>}
                       ELSE wired \ early)
      BY <2>2, AfterDetached
    <3> QED BY <2>2, <2>3, <3>1
  <2>5. live' = live /\ wired' \ early' = (wired \ early) \ {w}
    BY <1>4 DEF DetachInput
  <2>6. FoldLeft(After, Know(live, wired \ early), <<ev>>) = Know(live', wired' \ early')
    BY <2>4, <2>5, FoldOne
  <2> QED BY <1>0, <1>4, <2>1, <2>6, OperationFollows DEF DetachInput
<1> QED BY <1>1, <1>2, <1>3, <1>4 DEF Change

(* An operation that tells nothing of the network leaves it alone.         *)
LEMMA SequenceFollows ==
  ASSUME TypeInv, TypeInv', TableFollows, NEW t, NEW ev,
         ev.kind \in {"sequence_registered", "sequence_attached"}, Operation(t, <<ev>>),
         UNCHANGED <<posted, queue, listening, known, table, live, wired, early>>
  PROVE  TableFollows'
<1>1. FoldLeft(After, Know(live, wired \ early), <<ev>>) = Know(live, wired \ early)
  BY AfterInert, FoldOne
<1> QED BY <1>1, OperationFollows

(* Events move from one queue to the next.                                 *)
LEMMA MoveFollows ==
  ASSUME TypeInv, TypeInv', TableFollows, QueueEvent \/ Execute
  PROVE  TableFollows'
<1>1. UNCHANGED <<known, table, live, wired, early, listening>>
  BY DEF QueueEvent, Execute, net_vars, ri_vars
<1>2. posted \in Seq(Events) /\ queue \in Seq(Events) /\ todo \in Seq(Events)
  BY QueuesTyped
<1>3. posted' \in Seq(Events) /\ queue' \in Seq(Events) /\ todo' \in Seq(Events)
  <2>1. Told \subseteq Events
    BY DEF Told
  <2>2. posted' \in Seq(Events) /\ queue' \in Seq(Told) /\ todo' \in Seq(Told)
    BY DEF TypeInv, SpaceInv, PoolInv, ServerInv
  <2> QED BY <2>1, <2>2
<1>4. Eventual = FoldLeft(After, Queued, todo)
  BY EventualView
<1>5. PICK base : base = Know(known, table)
  OBVIOUS
<1>6. Eventual' = FoldLeft(After, FoldLeft(After, FoldLeft(After, base, posted'), queue'), todo')
  BY <1>1, <1>3, <1>5, Queues DEF Eventual, Know
<1>7. CASE QueueEvent
  <2>1. PICK h : h = Head(todo)
    OBVIOUS
  <2>2. todo # <<>> /\ todo' = Tail(todo) /\ queue' = Append(queue, h) /\ posted' = posted /\ h \in Events
    BY <1>2, <1>7, <2>1, TailView DEF QueueEvent, server_vars
  <2>3. FoldLeft(After, Posted, queue') = After(Queued, h)
    BY <1>2, <2>2, FoldAppend DEF Queued
  <2>4. Eventual = FoldLeft(After, After(Queued, h), todo')
    BY <1>2, <1>4, <2>1, <2>2, FoldHead
  <2>5. Eventual' = Eventual
    BY <1>5, <1>6, <2>2, <2>3, <2>4 DEF Posted
  <2> QED BY <1>1, <2>5 DEF TableFollows
<1>8. CASE Execute
  <2>1. PICK ev : ev = Head(queue)
    OBVIOUS
  <2>2. /\ ev \in Events /\ queue # <<>> /\ queue' = Tail(queue) /\ todo' = todo
        /\ posted' = (IF ev.kind \in {"sequence_registered", "write"} THEN posted ELSE Append(posted, ev))
    BY <1>2, <1>8, <2>1, TailView DEF Execute, space_vars
  <2>3. Queued = FoldLeft(After, After(Posted, ev), queue')
    BY <1>2, <2>1, <2>2, FoldHead DEF Queued
  <2>4. FoldLeft(After, base, posted') = After(Posted, ev)
    <3>1. CASE ev.kind \in {"sequence_registered", "write"}
      BY <1>5, <2>2, <3>1, AfterInert DEF Posted
    <3>2. CASE ev.kind \notin {"sequence_registered", "write"}
      BY <1>2, <1>5, <2>2, <3>2, FoldAppend DEF Posted
    <3> QED BY <3>1, <3>2
  <2>5. Eventual' = Eventual
    BY <1>4, <1>6, <2>2, <2>3, <2>4
  <2> QED BY <1>1, <2>5 DEF TableFollows
<1> QED BY <1>7, <1>8

(* A handler does what After says.                                         *)
LEMMA HandlerFollows ==
  ASSUME TypeInv, TypeInv', TableFollows, NEW kind, Handler(kind),
         UNCHANGED <<queue, todo, listening, live, wired, early>>,
         Know(known', table') = After(Know(known, table), Head(posted))
  PROVE  TableFollows'
<1>1. posted \in Seq(Events) /\ queue \in Seq(Events) /\ todo \in Seq(Events)
  BY QueuesTyped
<1>2. posted' \in Seq(Events) /\ posted # <<>> /\ posted' = Tail(posted)
  BY DEF TypeInv, ServerInv, Handler
<1>3. Posted = FoldLeft(After, Know(known', table'), posted')
  BY <1>1, <1>2, FoldHead DEF Posted
<1>4. Eventual' = FoldLeft(After, FoldLeft(After, Posted, queue), todo)
  <2>1. PICK p, b : p = posted' /\ b = Know(known', table')
    OBVIOUS
  <2>2. FoldLeft(After, b, p \o queue \o todo) =
          FoldLeft(After, FoldLeft(After, FoldLeft(After, b, p), queue), todo)
    <3>1. p \in Seq(Events)
      BY <1>2, <2>1
    <3> QED BY <1>1, <3>1, Queues
  <2>3. Eventual' = FoldLeft(After, b, p \o queue \o todo)
    BY <2>1 DEF Eventual, Know
  <2> QED BY <1>3, <2>1, <2>2, <2>3
<1>5. Eventual' = Eventual
  BY <1>4, EventualView DEF Queued
<1> QED BY <1>5 DEF TableFollows


LEMMA HandlersFollow ==
  ASSUME TypeInv, TypeInv', Starting, TableFollows, Handlers
  PROVE  TableFollows'
<1>0. PICK kind : Handler(kind)
  BY DEF Handlers, HandleServices, HandleRegistered, HandleUnregistered, HandleAttached,
         HandleDetached, HandleOfSequence, HandleRow, HandleStop
<1>1. PICK h : h = Head(posted)
  OBVIOUS
<1>2. UNCHANGED <<queue, todo, listening, live, wired, early>>
  BY DEF Handlers, HandleServices, HandleRegistered, HandleUnregistered, HandleAttached,
         HandleDetached, HandleOfSequence, HandleRow, HandleStop, pool_vars, space_vars, net_vars
<1>3. CASE HandleRegistered
  <2>1. h.kind = "registered" /\ known' = known \cup {h.m} /\ table' = table
    BY <1>1, <1>3 DEF HandleRegistered, Handler
  <2>2. After(Know(known, table), h) = Know(known', table')
    BY <2>1, AfterRegistered
  <2> QED BY <1>0, <1>1, <1>2, <2>2, HandlerFollows
<1>4. CASE HandleUnregistered
  <2>1. h.kind = "unregistered" /\ known' = known \ {h.m} /\ table' = {w \in table : w[2] # h.m}
    BY <1>1, <1>4 DEF HandleUnregistered, Handler
  <2>2. After(Know(known, table), h) = Know(known', table')
    BY <2>1, AfterUnregistered
  <2> QED BY <1>0, <1>1, <1>2, <2>2, HandlerFollows
<1>5. CASE HandleAttached
  <2>1. /\ h.kind = "attached" /\ known' = known
        /\ table' = IF {h.m, h.n} \subseteq known THEN table \cup {<<h.m, h.n>>} ELSE table
    BY <1>1, <1>5 DEF HandleAttached, Handler
  <2>2. After(Know(known, table), h) = Know(known', table')
    BY <2>1, AfterAttached
  <2> QED BY <1>0, <1>1, <1>2, <2>2, HandlerFollows
<1>6. CASE HandleDetached
  <2>1. /\ h.kind = "detached" /\ known' = known
        /\ table' = IF {h.m, h.n} \subseteq known THEN table \ {<<h.m, h.n>>} ELSE table
    BY <1>1, <1>6 DEF HandleDetached, Handler
  <2>2. After(Know(known, table), h) = Know(known', table')
    BY <2>1, AfterDetached
  <2> QED BY <1>0, <1>1, <1>2, <2>2, HandlerFollows
<1>7. CASE HandleServices \/ HandleOfSequence \/ HandleRow \/ HandleStop
  <2>1. /\ h.kind \notin {"registered", "unregistered", "attached", "detached"}
        /\ known' = known /\ table' = table
    BY <1>1, <1>7 DEF HandleServices, HandleOfSequence, HandleRow, HandleStop, Handler, ri_vars
  <2>2. After(Know(known, table), h) = Know(known', table')
    BY <2>1, AfterInert
  <2> QED BY <1>0, <1>1, <1>2, <2>2, HandlerFollows
<1> QED BY <1>3, <1>4, <1>5, <1>6, <1>7 DEF Handlers

(* The server begins to listen: it is told of all machines, and of nothing *)
(* before.                                                                 *)
LEMMA ListenFollows ==
  ASSUME TypeInv, TypeInv', Starting, Listen
  PROVE  TableFollows'
<1>1. known = {} /\ table = {} /\ Quiet(posted) /\ Quiet(queue)
  BY DEF Starting, Listen
<1>2. posted \in Seq(Events) /\ queue \in Seq(Events)
  BY QueuesTyped
<1>3. PICK d, base : d = SetToSeq({Event("registered", m, NULL) : m \in live}) /\ base = Know({}, {})
  OBVIOUS
<1>4. live \in SUBSET Machines
  BY DEF TypeInv, NetInv
<1>5. d \in Seq(Events)
  <2>1. d \in Seq(Told)
    BY <1>3, <1>4, RegisteredList
  <2> QED BY <2>1 DEF Told
<1>6. FoldLeft(After, base, d) = Know(live, {})
  BY <1>3, <1>4, RegisterAll
<1>7. FoldLeft(After, base, posted) = base /\ FoldLeft(After, base, queue) = base
  BY <1>1, <1>2, QuietFold
<1>8. FoldLeft(After, base, posted \o queue \o d) = Know(live, {})
  BY <1>2, <1>5, <1>6, <1>7, Queues
<1>9. /\ known' = {} /\ table' = {} /\ posted' = posted /\ queue' = queue /\ todo' = d
      /\ live' = live /\ wired' \ early' = {}
  BY <1>1, <1>3 DEF Listen, pool_vars, ri_vars
<1> QED BY <1>3, <1>8, <1>9 DEF TableFollows, Eventual, Know

LEMMA FollowsSame ==
  ASSUME TableFollows,
         UNCHANGED <<posted, queue, todo, known, table, live, wired, early, listening>>
  PROVE  TableFollows'
BY DEF TableFollows, Eventual

LEMMA FollowStep == FollowInv /\ [Next]_vars => FollowInv'
<1> SUFFICES ASSUME FollowInv, [Next]_vars PROVE TableFollows'
  BY TypeStep, StartingStep DEF FollowInv
<1>0. TypeInv /\ TypeInv' /\ Starting /\ TableFollows
  BY TypeStep DEF FollowInv
<1> USE DEF pool_vars, space_vars, server_vars, net_vars, ri_vars, play_vars
<1>1. CASE UNCHANGED vars
  BY <1>0, <1>1, FollowsSame DEF vars
<1>2. CASE UiOperation
  <2>1. live \subseteq Machines
    BY <1>0 DEF TypeInv, NetInv
  <2> QED BY <1>0, <1>2, <2>1, ChangeFollows DEF UiOperation
<1>3. CASE StartServer
  <2>1. ~listening'
    BY <1>0, <1>3 DEF StartServer, Starting
  <2> QED BY <2>1 DEF TableFollows
<1>4. CASE StopServer
  <2>1. PICK ev, p : ev = Event("stop", NULL, NULL) /\ p = posted'
    OBVIOUS
  <2>2. ev \in Events /\ ev.kind = "stop" /\ p = Append(posted, ev)
    BY <1>4, <2>1, PlainEvent DEF StopServer
  <2>3. posted \in Seq(Events) /\ queue \in Seq(Events) /\ todo \in Seq(Events) /\ p \in Seq(Events)
    BY <1>0, <2>2, QueuesTyped
  <2>4. FoldLeft(After, Know(known, table), p) = Posted
    <3>1. PICK b : b = Know(known, table)
      OBVIOUS
    <3>2. FoldLeft(After, b, Append(posted, ev)) = After(FoldLeft(After, b, posted), ev)
      BY <2>2, <2>3, FoldAppend
    <3>3. After(FoldLeft(After, b, posted), ev) = FoldLeft(After, b, posted)
      BY <2>2, AfterInert
    <3> QED BY <2>2, <3>1, <3>2, <3>3 DEF Posted
  <2>5. FoldLeft(After, Know(known, table), p \o queue \o todo) = Eventual
    BY <1>0, <2>3, <2>4, Queues, EventualView DEF Queued
  <2>6. UNCHANGED <<queue, todo, known, table, live, wired, early, listening>>
    BY <1>4 DEF StopServer
  <2>7. Eventual' = Eventual
    BY <2>1, <2>5, <2>6 DEF Eventual, Know
  <2> QED BY <1>0, <2>6, <2>7 DEF TableFollows
<1>5. CASE Joined
  BY <1>5 DEF Joined, TableFollows
<1>6. CASE QueueEvent \/ Execute
  BY <1>0, <1>6, MoveFollows
<1>7. CASE PlayLine \/ Record
  <2>1. PICK ev, s : /\ ev \in {Event("row", NULL, NULL), Event("write", NULL, NULL)}
                     /\ s = todo' /\ todo' = <<ev>>
    BY <1>7 DEF PlayLine, Record
  <2>2. ev \in Events /\ ev.kind \in {"row", "write"} /\ s = <<ev>> /\ todo = <<>>
    BY <1>0, <1>7, <2>1, PlainEvent DEF PlayLine, Record, TypeInv, SpaceInv
  <2>3. posted \in Seq(Events) /\ queue \in Seq(Events) /\ s \in Seq(Events)
    BY <1>0, <2>2, QueuesTyped
  <2>4. FoldLeft(After, Queued, s) = Queued
    BY <2>2, FoldOne, AfterInert
  <2>5. Eventual = Queued
    BY <1>0, <2>2, EventualView, FoldEmpty
  <2>6. FoldLeft(After, Know(known, table), posted \o queue \o s) = Eventual
    BY <2>3, <2>4, <2>5, Queues DEF Queued, Posted
  <2>7. UNCHANGED <<posted, queue, known, table, live, wired, early, listening>>
    BY <1>7 DEF PlayLine, Record
  <2>8. Eventual' = Eventual
    BY <2>1, <2>6, <2>7 DEF Eventual, Know
  <2> QED BY <1>0, <2>7, <2>8 DEF TableFollows
<1>8. CASE Handlers
  BY <1>0, <1>8, HandlersFollow
<1>9. CASE Listen
  BY <1>0, <1>9, ListenFollows
<1>10. CASE MakeSequence
  <2>1. PICK ev : ev = Event("sequence_registered", io.m, NULL)
    OBVIOUS
  <2>2. ev.kind = "sequence_registered" /\ Operation("io", <<ev>>)
    BY <1>10, <2>1 DEF MakeSequence, Event
  <2> QED BY <1>0, <1>10, <2>2, SequenceFollows DEF MakeSequence
<1>11. CASE AttachSequence
  <2>1. PICK ev : ev = Event("sequence_attached", io.m, NULL)
    OBVIOUS
  <2>2. ev.kind = "sequence_attached" /\ Operation("io", <<ev>>)
    BY <1>11, <2>1 DEF AttachSequence, Event
  <2> QED BY <1>0, <1>11, <2>2, SequenceFollows DEF AttachSequence
<1>12. CASE IoOperation
  <2>1. known \subseteq Machines
    BY <1>0 DEF TypeInv, RiInv
  <2> QED BY <1>0, <1>12, <2>1, ChangeFollows DEF IoOperation
<1>13. CASE \/ LockServer \/ CheckSequence \/ AttachFails \/ TieSequence \/ IoRefused
            \/ HandleStopPlaying
  BY <1>0, <1>13, FollowsSame DEF LockServer, CheckSequence, AttachFails, TieSequence, IoRefused, HandleStopPlaying
<1>14. CASE UiStop \/ Pause \/ CloseFile \/ DequeuePending
  BY <1>0, <1>14, FollowsSame DEF UiStop, Pause, CloseFile, DequeuePending
<1>15. CASE Accept \/ Request("op") \/ Request("stop") \/ HandlePlay
  BY <1>0, <1>15, FollowsSame DEF Accept, Request, HandlePlay
<1>16. CASE UndoMachine
  <2>1. io.m \in Machines /\ UNCHANGED <<posted, queue, known, table>>
    BY <1>0, <1>16 DEF UndoMachine, TypeInv, ServerInv
  <2>2. CASE Destroy("io", io.m)
    BY <1>0, <2>1, <2>2, DestroyFollows
  <2>3. CASE UNCHANGED <<space, todo, net_vars>>
    BY <1>0, <2>1, <2>3, FollowsSame
  <2> QED BY <1>16, <2>2, <2>3 DEF UndoMachine
<1> QED BY <1>1, <1>2, <1>3, <1>4, <1>5, <1>6, <1>7, <1>8, <1>9, <1>10, <1>11, <1>12, <1>13, <1>14,
           <1>15, <1>16
        DEF Next, IoOperations

(* Whoever changes the network, from whichever thread and however far      *)
(* events and handlers lag behind: once all of them are handled, in the    *)
(* order they were queued, machine2rimachine holds the machines there are  *)
(* and the RIMachines hold their connections, except for those made before *)
(* register_machine_set_listener, which announces machines only.           *)
THEOREM TableFollowsAlways == Spec => []TableFollows
<1>1. Init => FollowInv
  <2> SUFFICES ASSUME Init PROVE Starting /\ TableFollows
    BY TypeInit DEF FollowInv
  <2>1. Quiet(<<>>)
    BY DEF Quiet
  <2> QED BY <2>1 DEF Init, Starting, TableFollows, Idle
<1>2. FollowInv => TableFollows
  BY DEF FollowInv
<1> QED BY <1>1, <1>2, FollowStep, PTL DEF Spec
=============================================================================
