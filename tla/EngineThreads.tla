--------------------------- MODULE EngineThreads ----------------------------
(***************************************************************************)
(* The threads of the engine and what they wait for (machine.cc,           *)
(* async_operations.cc, remote_interface.cc, engine_code/server.cc):       *)
(*   ui      loads projects with machine operations, starts and stops the  *)
(*           server,                                                       *)
(*   io      the server's thread: handlers in the order they were posted,  *)
(*           and requests of clients,                                      *)
(*   async   executes the queued events, one at a time,                    *)
(*   audio   renders, and queues an event at every line that is played and *)
(*           for every rendering that is recorded.                         *)
(*                                                                         *)
(* Machine operations and renderings exclude each other (this is shown in  *)
(* MachineOps): here a thread is in the machine space or it is not. In low *)
(* latency mode, which is modelled, the audio thread executes the          *)
(* operation while the caller waits; the caller stands for both.           *)
(*                                                                         *)
(* An operation announces what it does to the server by events from a      *)
(* pre-allocated pool. It waits for a free event, in the machine space.    *)
(* The async thread turns an event into a handler of the io thread and     *)
(* puts it back; but for the line that is played it waits for the handler. *)
(* It also writes what was recorded; when the engine pauses, the audio     *)
(* thread waits for that, in the machine space.                            *)
(***************************************************************************)
EXTENDS Integers, FiniteSets, Sequences, SequencesExt

CONSTANTS
  Machines,   \* machines, each of which is made at most once
  Midi,       \* the machines with a midi input
  Wires,      \* connections that can be made, as <<source, destination>>
  Pool,       \* events in the pool: 100
  MaxRows,    \* bound on the lines under way to the clients
  MaxWrites,  \* bound on the recorded renderings that are to be written
  MaxOps,     \* bound on what ui and clients ask for
  NULL

ASSUME EngineAssumption ==
  /\ IsFiniteSet(Machines) /\ Midi \subseteq Machines
  /\ Wires \subseteq Machines \X Machines
  /\ {Pool, MaxRows, MaxWrites, MaxOps} \subseteq Nat
  /\ NULL \notin {"ui", "io", "audio"}

VARIABLES
  space,      \* the thread in the machine space, or NULL
  todo,       \* the events it still has to queue
  pending,    \* operations nobody waits for: "play", "periodic"
  ops,        \* what was asked for so far
  riff,       \* the file that is recorded to: "closed", "open", or "polled" by
              \* the audio thread until nothing is to be written
  free,       \* free_events, how many
  queue,      \* eq: the events that are queued
  async,      \* "idle", or "waiting" in post_action
  server,     \* "absent", "up", "stopped"
  mutex,      \* the owner of server_mutex, or NULL
  posted,     \* the handlers posted to io_service
  io,         \* [at, m]: where the io thread is, and for which machine
  ui,         \* "idle", or "join": in stop_server
  live, dead, \* machine_set; the machines that were destroyed
  wired,      \* the connections of the machines
  tied,       \* the machines tied to a Sequence
  known,      \* machine2rimachine
  table,      \* the connection_data of all RIMachines
  early,      \* connections made before the server listened
  listening,  \* the server is a machine set listener
  periodic,   \* the periodic function of the GlobalControlObject is known
  is_playing,
  client,     \* what a client knows: "none", "playing", "paused"
  untold      \* is_playing was changed, or about to be, and client not told

space_vars == <<space, todo, pending, ops, riff>>
pool_vars == <<free, queue, async>>
server_vars == <<server, mutex, posted, io, ui>>
net_vars == <<live, dead, wired, tied, early, listening>>
ri_vars == <<known, table>>
play_vars == <<periodic, is_playing, client, untold>>
vars == <<space_vars, pool_vars, server_vars, net_vars, ri_vars, play_vars>>

Idle == [at |-> "idle", m |-> NULL]

Init ==
  /\ space = NULL /\ todo = <<>> /\ pending = <<>> /\ ops = 0 /\ riff = "closed"
  /\ free = Pool /\ queue = <<>> /\ async = "idle"
  /\ server = "absent" /\ mutex = NULL /\ posted = <<>> /\ io = Idle /\ ui = "idle"
  /\ live = {} /\ dead = {} /\ wired = {} /\ tied = {} /\ early = {} /\ listening = FALSE
  /\ known = {} /\ table = {}
  /\ periodic = FALSE /\ is_playing = FALSE /\ client = "none" /\ untold = FALSE

-----------------------------------------------------------------------------
(* The machine space.                                                      *)

(* Thread t executes an operation that announces events. Without a         *)
(* listener there is nobody to announce them to.                           *)
Operation(t, events) ==
  /\ space = NULL
  /\ todo' = IF listening THEN events ELSE <<>>
  /\ space' = IF todo' = <<>> THEN NULL ELSE t

(* queue_event: one of the events, as soon as the pool has a free one.     *)
QueueEvent ==
  /\ todo # <<>> /\ free > 0
  /\ free' = free - 1
  /\ queue' = Append(queue, Head(todo))
  /\ todo' = Tail(todo)
  /\ space' = IF todo' = <<>> THEN NULL ELSE space
  /\ UNCHANGED <<pending, ops, riff, async, server_vars, net_vars, ri_vars, play_vars>>

Event(kind, a, b) == [kind |-> kind, m |-> a, n |-> b]
Detached(w) == Event("detached", w[1], w[2])

(* The constructor: internal_register_machine.                             *)
Make(t, m) ==
  /\ m \notin live \cup dead
  /\ Operation(t, <<Event("registered", m, NULL)>>)
  /\ live' = live \cup {m}
  /\ UNCHANGED <<dead, wired, tied, early, listening>>

AttachInput(t, w) ==
  /\ {w[1], w[2]} \subseteq live /\ w \notin wired
  /\ Operation(t, <<Event("attached", w[1], w[2])>>)
  /\ wired' = wired \cup {w}
  /\ UNCHANGED <<live, dead, tied, early, listening>>

DetachInput(t, w) ==
  /\ w \in wired
  /\ Operation(t, <<Detached(w)>>)
  /\ wired' = wired \ {w}
  /\ early' = early \ {w}
  /\ UNCHANGED <<live, dead, tied, listening>>

(* A fault to detect: the connections are cut without a word.              *)
DestroySilently(t, m) ==
  /\ m \in live
  /\ Operation(t, <<Event("unregistered", m, NULL)>>)
  /\ live' = live \ {m} /\ dead' = dead \cup {m}
  /\ wired' = {w \in wired : m \notin {w[1], w[2]}}
  /\ early' = early \cap wired'
  /\ tied' = tied \ {m}
  /\ UNCHANGED listening

(* disconnect_and_destroy: detach_all_inputs, detach_all_outputs, the      *)
(* Sequence the machine is tied to, and the machine.                       *)
Destroy(t, m) ==
  /\ m \in live
  /\ Operation(t,
       (IF m \in tied THEN <<Event("sequence_detached", m, NULL)>> ELSE <<>>)
       \o SetToSeq({Detached(w) : w \in {w \in wired : m \in {w[1], w[2]}}})
       \o (IF m \in tied THEN <<Event("sequence_unregistered", m, NULL)>> ELSE <<>>)
       \o <<Event("unregistered", m, NULL)>>)
  /\ live' = live \ {m} /\ dead' = dead \cup {m}
  /\ wired' = {w \in wired : m \notin {w[1], w[2]}}
  /\ early' = early \cap wired'
  /\ tied' = tied \ {m}
  /\ UNCHANGED listening

(* The operations of thread t on machines of a set.                        *)
Change(t, nameable) ==
  \/ \E m \in Machines : Make(t, m)
  \/ \E m \in nameable : Destroy(t, m)
  \/ \E w \in Wires : {w[1], w[2]} \subseteq nameable /\ (AttachInput(t, w) \/ DetachInput(t, w))

Asked == ops < MaxOps /\ ops' = ops + 1

-----------------------------------------------------------------------------
(* The ui thread.                                                          *)

(* Projects are loaded and cleared without the server's knowledge.         *)
UiOperation ==
  /\ ui = "idle" /\ space # "ui"
  /\ Asked
  /\ Change("ui", live)
  /\ UNCHANGED <<pending, riff, pool_vars, server_vars, ri_vars, play_vars>>

(* Machine::stop by the code that loads a project: clients are not told.   *)
UiStop ==
  /\ ui = "idle" /\ space = NULL /\ pending = <<>>
  /\ Asked
  /\ is_playing' = FALSE
  /\ untold' = (untold \/ client = "playing")
  /\ UNCHANGED <<space, todo, pending, riff, pool_vars, server_vars, net_vars, ri_vars, periodic, client>>

(* start_server; the constructor posts create_service_objects.             *)
StartServer ==
  /\ ui = "idle" /\ space # "ui" /\ server = "absent"
  /\ server' = "up"
  /\ posted' = <<Event("services", NULL, NULL)>>
  /\ UNCHANGED <<mutex, io, ui, space_vars, pool_vars, net_vars, ri_vars, play_vars>>

(* stop_server takes server_mutex, posts the end and joins the io thread.  *)
StopServer ==
  /\ ui = "idle" /\ space # "ui" /\ server = "up" /\ mutex = NULL
  /\ mutex' = "ui" /\ ui' = "join"
  /\ posted' = Append(posted, Event("stop", NULL, NULL))
  /\ UNCHANGED <<server, io, space_vars, pool_vars, net_vars, ri_vars, play_vars>>

(* The io thread has ended: the server, and with it the listener, is gone. *)
Joined ==
  /\ ui = "join" /\ io.at = "ended"
  /\ ui' = "idle" /\ mutex' = NULL /\ server' = "stopped"
  /\ listening' = FALSE
  /\ UNCHANGED <<posted, io, space_vars, pool_vars, live, dead, wired, tied, early, ri_vars, play_vars>>

-----------------------------------------------------------------------------
(* The async thread.                                                       *)

(* A fault to detect: the event is not put back into the pool.             *)
ExecuteAndKeep ==
  LET ev == Head(queue)
  IN /\ async = "idle" /\ queue # <<>>
     /\ queue' = Tail(queue)
     /\ async' = IF ev.kind = "row" THEN "waiting" ELSE "idle"
     /\ posted' = IF ev.kind \in {"sequence_registered", "write"} THEN posted
                  ELSE Append(posted, ev)
     /\ UNCHANGED <<free, space_vars, server, mutex, io, ui, net_vars, ri_vars, play_vars>>

(* One event. Those about a Sequence being registered end here, and so     *)
(* does an AsyncOp, which writes and is finished. The line being played is *)
(* sent with post_action, which waits; all other functions post a handler  *)
(* and return. A server that was stopped keeps its handlers.               *)
Execute ==
  LET ev == Head(queue)
  IN /\ async = "idle" /\ queue # <<>>
     /\ queue' = Tail(queue)
     /\ async' = IF ev.kind = "row" THEN "waiting" ELSE "idle"
     /\ free' = IF ev.kind = "row" THEN free ELSE free + 1
     /\ posted' = IF ev.kind \in {"sequence_registered", "write"} THEN posted
                  ELSE Append(posted, ev)
     /\ UNCHANGED <<space_vars, server, mutex, io, ui, net_vars, ri_vars, play_vars>>

-----------------------------------------------------------------------------
(* The audio thread.                                                       *)

Rows == Cardinality({k \in DOMAIN queue : queue[k].kind = "row"})
        + (IF async = "waiting" THEN 1 ELSE 0)

(* trigger_periodic_functions at the first tick of a line.                 *)
PlayLine ==
  /\ is_playing /\ periodic
  /\ space = NULL /\ Rows < MaxRows
  /\ space' = "audio"
  /\ todo' = <<Event("row", NULL, NULL)>>
  /\ UNCHANGED <<pending, ops, riff, pool_vars, server_vars, net_vars, ri_vars, play_vars>>

Writes == Cardinality({k \in DOMAIN queue : queue[k].kind = "write"})

(* _sinkRecord: the file is opened, and from then on every rendering is    *)
(* queued to be written. (A client or the ui may have asked for it or not.)*)
Record ==
  /\ is_playing
  /\ space = NULL /\ Writes < MaxWrites
  /\ riff' = "open"
  /\ space' = "audio"
  /\ todo' = <<Event("write", NULL, NULL)>>
  /\ UNCHANGED <<pending, ops, pool_vars, server_vars, net_vars, ri_vars, play_vars>>

(* _sinkPaused, at the first rendering after the engine was stopped:       *)
(* RIFF_close_file waits for what is to be written.                        *)
Pause ==
  /\ ~is_playing /\ riff = "open"
  /\ space = NULL
  /\ riff' = "polled"
  /\ space' = "audio"
  /\ UNCHANGED <<todo, pending, ops, pool_vars, server_vars, net_vars, ri_vars, play_vars>>

(* poll_pending_async_riff_writers has found all of them finished.         *)
CloseFile ==
  /\ riff = "polled" /\ Writes = 0
  /\ riff' = "closed"
  /\ space' = NULL
  /\ UNCHANGED <<todo, pending, ops, pool_vars, server_vars, net_vars, ri_vars, play_vars>>

(* machine_operation_dequeue, for the operations nobody waits for.         *)
DequeuePending ==
  /\ space = NULL /\ pending # <<>>
  /\ pending' = Tail(pending)
  /\ is_playing' = (is_playing \/ Head(pending) = "play")
  /\ periodic' = (periodic \/ Head(pending) = "periodic")
  /\ UNCHANGED <<space, todo, ops, riff, pool_vars, server_vars, net_vars, ri_vars, client, untold>>

-----------------------------------------------------------------------------
(* The io thread.                                                          *)

At(pc, m) == [at |-> pc, m |-> m]

(* The next handler, if it is of this kind.                                *)
Handler(kind) ==
  /\ server = "up" /\ io.at = "idle" /\ space # "io"
  /\ posted # <<>> /\ Head(posted).kind = kind
  /\ posted' = Tail(posted)

(* create_service_objects: the GlobalControlObject registers its periodic  *)
(* function and does not wait for it.                                      *)
HandleServices ==
  /\ Handler("services")
  /\ pending' = Append(pending, "periodic")
  /\ io' = At("listen", NULL)
  /\ UNCHANGED <<space, todo, ops, riff, pool_vars, server, mutex, ui, net_vars, ri_vars, play_vars>>

(* register_machine_set_listener: all machines are announced, their        *)
(* connections are not.                                                    *)
Listen ==
  /\ io.at = "listen" /\ space = NULL /\ pending = <<>>
  /\ listening' = TRUE
  /\ early' = wired
  /\ todo' = SetToSeq({Event("registered", m, NULL) : m \in live})
  /\ space' = IF todo' = <<>> THEN NULL ELSE "io"
  /\ io' = Idle
  /\ UNCHANGED <<pending, ops, riff, pool_vars, server, mutex, posted, ui, live, dead, wired, tied,
                 ri_vars, play_vars>>

(* machine_registered: the RIMachine, then a Sequence for a machine that   *)
(* takes midi.                                                             *)
HandleRegistered ==
  LET m == Head(posted).m
  IN /\ Handler("registered")
     /\ known' = known \cup {m}
     /\ io' = IF m \in Midi THEN At("check", m) ELSE Idle
     /\ UNCHANGED <<space_vars, pool_vars, server, mutex, ui, net_vars, table, play_vars>>

(* create_sequence_for_machine, first the operation that looks for one.    *)
CheckSequence ==
  /\ io.at = "check" /\ space = NULL /\ pending = <<>>
  /\ io' = At("lock", io.m)
  /\ UNCHANGED <<space_vars, pool_vars, server, mutex, posted, ui, net_vars, ri_vars, play_vars>>

(* create_object: server_mutex.                                            *)
LockServer ==
  /\ io.at = "lock" /\ mutex = NULL
  /\ mutex' = "io"
  /\ io' = At("make", io.m)
  /\ UNCHANGED <<space_vars, pool_vars, server, posted, ui, net_vars, ri_vars, play_vars>>

MakeSequence ==
  /\ io.at = "make" /\ pending = <<>>
  /\ Operation("io", <<Event("sequence_registered", io.m, NULL)>>)
  /\ io' = At("attach", io.m)
  /\ UNCHANGED <<pending, ops, riff, pool_vars, server, mutex, posted, ui, net_vars, ri_vars, play_vars>>

AttachSequence ==
  /\ io.at = "attach" /\ io.m \in live /\ pending = <<>>
  /\ Operation("io", <<Event("sequence_attached", io.m, NULL)>>)
  /\ io' = At("tie", io.m)
  /\ UNCHANGED <<pending, ops, riff, pool_vars, server, mutex, posted, ui, net_vars, ri_vars, play_vars>>

(* The machine is destroyed already, or its midi input is taken: the       *)
(* exception leaves create_object.                                         *)
AttachFails ==
  /\ io.at = "attach" /\ space = NULL /\ pending = <<>>
  /\ mutex' = NULL
  /\ io' = At("undo", io.m)
  /\ UNCHANGED <<space_vars, pool_vars, server, posted, ui, net_vars, ri_vars, play_vars>>

(* machine_registered catches it and destroys the machine. For one that is *)
(* destroyed already this throws again, and the io thread ends.            *)
UndoMachine ==
  /\ io.at = "undo" /\ pending = <<>>
  /\ \/ /\ Destroy("io", io.m)
        /\ io' = Idle
     \/ /\ io.m \notin live /\ space = NULL
        /\ io' = At("ended", NULL)
        /\ UNCHANGED <<space, todo, net_vars>>
  /\ UNCHANGED <<pending, ops, riff, pool_vars, server, mutex, posted, ui, ri_vars, play_vars>>

(* tightly_connect, and the end of create_object.                          *)
TieSequence ==
  /\ io.at = "tie" /\ space = NULL /\ pending = <<>>
  /\ tied' = IF io.m \in live THEN tied \cup {io.m} ELSE tied
  /\ mutex' = NULL
  /\ io' = Idle
  /\ UNCHANGED <<space_vars, pool_vars, server, posted, ui, live, dead, wired, early, listening,
                 ri_vars, play_vars>>

(* machine_unregistered: the RIMachine goes with its connection_data.      *)
HandleUnregistered ==
  /\ Handler("unregistered")
  /\ known' = known \ {Head(posted).m}
  /\ table' = {w \in table : w[2] # Head(posted).m}
  /\ UNCHANGED <<space_vars, pool_vars, server, mutex, io, ui, net_vars, play_vars>>

(* machine_input_attached and RIMachine::attach_input.                     *)
HandleAttached ==
  LET w == <<Head(posted).m, Head(posted).n>>
  IN /\ Handler("attached")
     /\ table' = IF {w[1], w[2]} \subseteq known THEN table \cup {w} ELSE table
     /\ UNCHANGED <<known, space_vars, pool_vars, server, mutex, io, ui, net_vars, play_vars>>

(* machine_input_detached and RIMachine::detach_input.                     *)
HandleDetached ==
  LET w == <<Head(posted).m, Head(posted).n>>
  IN /\ Handler("detached")
     /\ table' = IF {w[1], w[2]} \subseteq known THEN table \ {w} ELSE table
     /\ UNCHANGED <<known, space_vars, pool_vars, server, mutex, io, ui, net_vars, play_vars>>

(* A Sequence has no RIMachine: its connections and its end are ignored.   *)
HandleOfSequence ==
  /\ \E kind \in {"sequence_attached", "sequence_detached", "sequence_unregistered"} : Handler(kind)
  /\ UNCHANGED <<space_vars, pool_vars, server, mutex, io, ui, net_vars, ri_vars, play_vars>>

(* A fault to detect: the waiting thread is not woken.                     *)
HandleRowSilently ==
  /\ Handler("row")
  /\ UNCHANGED <<space_vars, pool_vars, server, mutex, io, ui, net_vars, ri_vars, play_vars>>

(* The line goes to the clients, and the async thread, which waits in      *)
(* post_action, puts the event back.                                       *)
HandleRow ==
  /\ Handler("row")
  /\ async' = "idle" /\ free' = free + 1
  /\ UNCHANGED <<queue, space_vars, server, mutex, io, ui, net_vars, ri_vars, play_vars>>

(* A fault to detect: io_service is not stopped.                           *)
HandleStopOn ==
  /\ Handler("stop")
  /\ client' = "none" /\ untold' = FALSE
  /\ UNCHANGED <<io, space_vars, pool_vars, server, mutex, ui, net_vars, ri_vars,
                 periodic, is_playing>>

(* The handler of stop_server: the clients are disconnected, io_service    *)
(* stops.                                                                  *)
HandleStop ==
  /\ Handler("stop")
  /\ io' = At("ended", NULL)
  /\ client' = "none" /\ untold' = FALSE
  /\ UNCHANGED <<space_vars, pool_vars, server, mutex, ui, net_vars, ri_vars,
                 periodic, is_playing>>

-----------------------------------------------------------------------------
(* Requests of clients: handlers of the io thread as well.                 *)

Free == server = "up" /\ io.at = "idle" /\ listening /\ space # "io"

(* do_accept: the new client is sent the state of the GlobalControlObject. *)
Accept ==
  /\ Free /\ client = "none"
  /\ client' = IF is_playing THEN "playing" ELSE "paused"
  /\ untold' = ("play" \in ToSet(pending))
  /\ UNCHANGED <<space_vars, pool_vars, server_vars, net_vars, ri_vars, periodic, is_playing>>

(* A request that needs a machine operation; the io thread waits for it.   *)
Request(pc) ==
  /\ Free /\ client # "none"
  /\ Asked
  /\ io' = At(pc, NULL)
  /\ UNCHANGED <<space, todo, pending, riff, pool_vars, server, mutex, posted, ui, net_vars, ri_vars, play_vars>>

(* It names machines the server has told of.                               *)
IoOperation ==
  /\ io.at = "op" /\ pending = <<>>
  /\ Change("io", known)
  /\ io' = Idle
  /\ UNCHANGED <<pending, ops, riff, pool_vars, server, mutex, posted, ui, ri_vars, play_vars>>

(* What was asked for is not possible (any more): the operation throws.    *)
IoRefused ==
  /\ io.at = "op" /\ space = NULL /\ pending = <<>>
  /\ io' = Idle
  /\ UNCHANGED <<space_vars, pool_vars, server, mutex, posted, ui, net_vars, ri_vars, play_vars>>

(* "play": Machine::play does not wait; the clients are told at once.      *)
HandlePlay ==
  /\ Free /\ client # "none"
  /\ Asked
  /\ pending' = Append(pending, "play")
  /\ client' = "playing" /\ untold' = FALSE
  /\ UNCHANGED <<space, todo, riff, pool_vars, server_vars, net_vars, ri_vars, periodic, is_playing>>

(* A fault to detect: the clients are not told.                            *)
HandleStopPlayingSilently ==
  /\ io.at = "stop" /\ space = NULL /\ pending = <<>>
  /\ is_playing' = FALSE
  /\ io' = Idle
  /\ UNCHANGED <<space_vars, pool_vars, server, mutex, posted, ui, net_vars, ri_vars,
                 periodic, client, untold>>

(* "stop": Machine::stop waits, then the clients are told.                 *)
HandleStopPlaying ==
  /\ io.at = "stop" /\ space = NULL /\ pending = <<>>
  /\ is_playing' = FALSE
  /\ client' = "paused" /\ untold' = FALSE
  /\ io' = Idle
  /\ UNCHANGED <<space_vars, pool_vars, server, mutex, posted, ui, net_vars, ri_vars, periodic>>

-----------------------------------------------------------------------------
Handlers ==
  \/ HandleServices \/ HandleRegistered \/ HandleUnregistered
  \/ HandleAttached \/ HandleDetached \/ HandleOfSequence
  \/ HandleRow \/ HandleStop

IoOperations ==
  \/ Listen \/ CheckSequence \/ MakeSequence \/ AttachSequence \/ AttachFails \/ UndoMachine
  \/ TieSequence
  \/ IoOperation \/ IoRefused \/ HandleStopPlaying

Next ==
  \/ UiOperation \/ UiStop \/ StartServer \/ StopServer \/ Joined
  \/ QueueEvent \/ Execute \/ PlayLine \/ Record \/ Pause \/ CloseFile \/ DequeuePending
  \/ Handlers \/ LockServer \/ IoOperations
  \/ Accept \/ Request("op") \/ Request("stop") \/ HandlePlay

Spec == Init /\ [][Next]_vars

(* The threads run. The audio thread executes operations in the order they *)
(* were queued, so that none of the io thread is passed over for ever.     *)
FairSpec ==
  /\ Spec
  /\ WF_vars(QueueEvent) /\ WF_vars(Execute) /\ WF_vars(Handlers) /\ WF_vars(LockServer)
  /\ WF_vars(Joined) /\ WF_vars(CloseFile)
  /\ SF_vars(DequeuePending) /\ SF_vars(IoOperations)

-----------------------------------------------------------------------------
(* Properties.                                                             *)

Threads == {"ui", "io", "audio"}

(* The shape of the state; every event of the pool is free, queued or with *)
(* the async thread.                                                       *)
TypeOK ==
  /\ space \in Threads \cup {NULL} /\ riff \in {"closed", "open", "polled"}
  /\ space = NULL <=> todo = <<>> /\ riff # "polled"
  /\ pending \in Seq({"play", "periodic"})
  /\ ops \in 0..MaxOps
  /\ free + Len(queue) + (IF async = "waiting" THEN 1 ELSE 0) = Pool
  /\ mutex \in {"ui", "io", NULL}
  /\ io.at \in {"idle", "listen", "check", "lock", "make", "attach", "undo", "tie", "op",
               "stop", "ended"}
  /\ live \cup dead \cup tied \cup known \subseteq Machines /\ live \cap dead = {}
  /\ wired \subseteq Wires /\ table \subseteq Wires

(* What the server will know after one more handler.                       *)
After(k, ev) ==
  CASE ev.kind = "registered"   -> [k EXCEPT !.known = @ \cup {ev.m}]
    [] ev.kind = "unregistered" -> [known |-> k.known \ {ev.m},
                                    table |-> {w \in k.table : w[2] # ev.m}]
    [] ev.kind = "attached" /\ {ev.m, ev.n} \subseteq k.known ->
                                   [k EXCEPT !.table = @ \cup {<<ev.m, ev.n>>}]
    [] ev.kind = "detached" /\ {ev.m, ev.n} \subseteq k.known ->
                                   [k EXCEPT !.table = @ \ {<<ev.m, ev.n>>}]
    [] OTHER -> k

Eventual == FoldLeft(After, [known |-> known, table |-> table], posted \o queue \o todo)

(* Whoever changes the network, from whichever thread, and however events  *)
(* and handlers lag behind: once they are handled, the server knows the    *)
(* machines there are and how they are connected, except for connections   *)
(* that were there before the server was started.                          *)
TableFollows ==
  listening => Eventual = [known |-> live, table |-> wired \ early]

(* A client shows whether the engine plays, except until the operation or  *)
(* message under way, and except when it connected between the request to  *)
(* play and its execution or when loading a project stopped the engine.    *)
PlayStateKnown ==
  client # "none" /\ pending = <<>> /\ ~untold => (client = "playing" <=> is_playing)

(* The ways in which the threads end up waiting for each other.            *)

(* The async thread waits for the io thread, that one for the machine      *)
(* space, and the thread in there for an event.                            *)
PoolCircle ==
  async = "waiting" /\ free = 0 /\ todo # <<>> /\ (io.at # "idle" \/ space = "io")

(* The same, but the audio thread in there waits for what was recorded to  *)
(* be written, behind the line that the async thread is busy with.         *)
PollCircle == async = "waiting" /\ riff = "polled" /\ Writes > 0 /\ io.at # "idle"

(* stop_server waits for the io thread, that one for server_mutex.         *)
MutexCircle == ui = "join" /\ io.at = "lock"

(* The async thread waits for a handler of a server that was stopped.      *)
AsyncLost == io.at = "ended" /\ async = "waiting"

Stuck == PoolCircle \/ PollCircle \/ MutexCircle \/ AsyncLost

(* Every machine operation and every rendering ends, and the io thread     *)
(* comes back from whatever it does, unless the threads are stuck in one   *)
(* of these four ways: there is no fifth one.                              *)
OperationsEnd ==
  /\ \A t \in Threads : space = t ~> space # t \/ Stuck
  /\ io.at # "idle" ~> io.at \in {"idle", "ended"} \/ Stuck

(* stop_server returns, unless the io thread waits for its mutex, or is in *)
(* one of the circles through the machine space.                           *)
StopReturns == ui = "join" ~> ui = "idle" \/ MutexCircle \/ PoolCircle \/ PollCircle
=============================================================================
