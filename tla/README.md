# A TLA+ development for libvuknob

libvuknob (also called satan in its sources) is the engine of a music
workstation: a network of *machines* (synths, effects, mixers, sequencers and
one sink) that an audio thread renders, and a server that publishes the
machines as remote objects to any number of clients, the program's own user
interface being one of them.

This directory models the parts of it in which several threads, several
clients or several steps have to agree, checks the models with TLC and proves
what can be proved of them with TLAPS. All paths below are relative to
`src/src_jni/` unless they start with `src/`.

## 1. Inventory

### 1.1 Parts, state and operations

| Part | State | Operations |
|------|-------|------------|
| **Machine network** (`machine.cc`, `signal.cc`) | `machine_set`, `sink`; per machine its input lists, `dependant`, `tightly_connected`; per signal `attached_machines`, `next`, `previous`; `top_render_chain` | register, attach, detach, tie, destroy (recursive), recalculate the render chain |
| **Machine operations** (`machine.cc`, `dynlib/liveout.c`) | `machine_operation_queue`, `machine_space_lock`, `low_latency_mode`, `sink`, the plugin's `inst->mt` | enqueue (direct or queued), dequeue, activate and deactivate low latency mode, fill the sink |
| **Object replication** (`engine_code/server.cc`, `client.cc`, `remote_interface.cc`) | the server's `all_objects`, `last_obj_id`, `client_agents`; the client's `all_objects`, `msg_waiting_for_reply` | accept, create, delete, distribute, route, receive, drop |
| **Message transport** (`remote_interface.cc`) | `write_msgs`, the read buffers, the length header | read and write loops, encode, decode, `post_action` |
| **Lifecycle** (`server.cc`, `client.cc`) | the singletons, `server_mutex`, `client_mutex`, the io threads | start, stop, connect, disconnect, create_object |
| **Remote objects** (`remote_interface.cc`, `scales.cc`) | RIMachine's connection table, HandleList, SampleBank, Scales, GlobalControlObject | serialize, process_message, on_delete |
| **Sequence** (`engine_code/sequence.cc`) | patterns, pattern instances, notes, id allocators, a copy on each side | add and delete pattern, instance, note; fill_buffers; replicate |
| **MachineSequencer** (`machine_sequencer.cc`) | the store of loops, the sequence of loops, per loop its notes, the next note and those that sound | add and delete loop, place it, insert, delete, move and clear notes, fill_buffers, reset |
| **Pad** (`engine_code/pad.cc`) | sessions, per finger the recorded, playing and current motions, recording, quantizing | finger events, process, record, clear, reset, export |
| **Controller envelopes** | control points | insert, erase, process |
| **Async operations** (`async_operations.cc`, `dynlib/riff_wave_output.c`) | a pool of events, its free list and queue; the pending writes of a recording | queue and process an event, write, wait for the writes |
| **Transport** (`machine.cc`) | playing, position, loop bounds, tick | play, stop, jump, set loop, get_next_tick |
| Plugins, fixed point arithmetic, project files, samples, export, user interface, platform glue | | outside of the models, see section 7 |

### 1.2 How the parts interact

* Every change of the network is a **machine operation**: a function handed to
  `machine_operation_enqueue`, which runs it on the caller's thread under
  `machine_space_lock`, or on the audio thread between two renderings.
* The network notifies `Server` (a `Machine::MachineSetListener`) of
  registrations, connections and deregistrations. `Server` **posts** what
  follows to its io thread; by the time the handler runs, the machine may be
  gone.
* For every machine the io thread creates an RIMachine and, if there is a midi
  input, a `Sequence`, which is a machine itself: it is registered, attached
  and tied in separate machine operations, between which others run.
* Clients name objects by number. A request is routed to the object and may
  change the network, be answered, or make the server tell all clients.
* What the network notifies goes through a pool of events and a thread of its
  own (`AsyncOperations`) before it is posted to the io thread; for the line
  that is played the async thread waits until the io thread has handled it.
* Sequencers are machines: the audio thread executes `fill_buffers` tick by
  tick, and edits, finger operations and the transport are machine operations
  between two renderings.
* Destroying a machine tears down the machines tied to it. A `Sequence` that
  is torn down asks for its own removal as an object (`request_delete_me`).

### 1.3 What is hard here

Two threads decide by what they have just read (`sink`, `low_latency_mode`,
`inst->mt`) whether a lock or a queue protects them. Operations throw half way.
Machines are destroyed by one thread while another is building on them, and
objects are named across threads after they are gone. Handlers that throw end
an io thread, or are taken for a lost connection. Callers wait without a
timeout. The full list, at the lines where it bites, is `hazards` in
`PROJECT.json`.

### 1.4 What makes the parts correct

* **Network**: no loop; the render chain holds what the sink needs, once, in
  an order in which inputs are ready; the three records of a connection agree;
  nothing leads to a destroyed machine; tied machines live and die together.
* **Operations**: one at a time, never during a rendering, in the order of
  request, and every caller that waits is answered.
* **Replication**: every connected client converges to the server's objects;
  it is not cut off while its connection is up, and not told that it is; its
  questions are answered; a removal happens once.
* **Transport of messages**: each message is delivered once, in order, and
  after a reconnect nothing of the old connection is left.
* **Sequence**: instances do not overlap; both sides hold the same patterns;
  an id names one pattern.
* **Threads**: the server's table of machines and connections comes to be what
  the network is; every operation ends; stopping the server returns.
* **Sequencer and transport**: clocks agree; what the sequence names is there;
  no deleted note is used; a note that starts ends; a loop is entered.
* **Pad**: a motion has one owner until it is deleted, once; notes, sessions
  and exports end.

## 2. Modules

    SignalLists <- MachineGraph      <- MachineGraphProofs
                   MachineOps        <- MachineOpsProofs
                   ObjectReplication <- ObjectReplicationProofs   (L)
        Channel <- MessageLink       <- MessageLinkProofs         (L)
    SequenceData <- SequenceReplica  <- SequencerProofs           (L)
                   Pad               <- SequencerProofs
                   EngineThreads     <- EngineThreadsProofs       (L)
      Transport <- LoopPlayer        <- LoopPlayerProofs          (L)

`SignalLists` is instantiated by `MachineGraph`, and `Channel` by
`MessageLink`, which implements it; the other arrows are EXTENDS. The proof
modules marked (L) instantiate `ListLemmas`, facts about the sequence operators
the models are built from. For each module X in the middle there is a module
`MCX`, which only adds values for the constants. Definitions whose comment
starts with "A fault to detect" are variants of the definition below them with
a plausible mistake in it. No specification uses them; they show that a
property can fail (`mutants` in `PROJECT.json`).

### 2.1 MachineGraph and SignalLists

An action is the body of one machine operation, which runs to its end before
the next (that this is so is what `MachineOps` is about), or one handler of
the io thread.

| Model | Code |
|-------|------|
| `life` | membership of `Machine::machine_set` |
| `links[T]` | T's `input` map and the `next[T]`, `previous[T]` of all signals, on which `Link`, `Unlink` and `Drain` work pointer by pointer |
| `attached[T][s]`, `dependant[T][o]` | the two counts of a connection, kept by the signal and by the destination |
| `chain` | `top_render_chain`, in order of execution |
| `calls` | the call stack of `internal_disconnect_and_destroy`, because a machine destroys the tied ones in the middle of its own teardown |
| `io`, `published` | how far the io thread is with a new machine's Sequence, and its RIMachine |
| `AttachInput`, `DetachInput`, `TightlyConnect` | `attach_input` and `detach_input` with the test of `has_been_deregistered` inside the operation, `internal_attach_input`, `internal_detach_input`, `tightly_connect`, which has no such test |
| `h_late` | not in the code: the machines of a tie made when one of the two was deregistered already |
| `Publish`, `CreateSequence`, `AttachSequence`, `AttachSequenceFails`, `Unpublish` | `Server::machine_registered`, `create_sequence_for_machine`, `machine_unregistered` |
| `DisconnectAndDestroy`, `EnterDestroy`, `LeaveDestroy` | `disconnect_and_destroy`, `detach_and_destroy`, `destroy_tightly_attached_machines`, `internal_deregister_machine` |

The recursive walks of the code are written as what they compute where that is
a set (`FindMachineInGraph`: everything below a machine, as the least closed
set), and as the loop itself where the order matters
(`RecalculateRenderChain`, `Drain`).

Machines are destroyed at any time, by clients and by the program, before,
between and after the steps in which the io thread builds a Sequence, and also
a second time: `destroy_all_machines` looks a machine up in one operation and
destroys it in the next. What the steps of the io thread then do is in the
model: attaching throws, the handler of that exception destroys the machine, or
throws in turn and ends the io thread (`Ended`); tying does not notice.

`Requests` says what callers do beyond orderly use: attach a signal to a
machine it is attached to already ("repeat"), detach it where it is not
("stale"). The code does not stop them. The runs separate what holds anyway
(`graph_unruly`) from what holds without such requests (`graph_orderly`).

### 2.2 MachineOps

Callers, the queue, the recursive lock and the audio thread, with every read
of shared state a step of its own where the code reads it without the lock.
`stack[t]` holds what thread t is in the middle of: an operation, or the loop
of `machine_operation_dequeue`, which can be nested, because the destruction of
a low latency sink empties the queue from within an operation. An operation is
abstracted to what it does to the sink: nothing ("plain"), nothing and throw
("throw"), create one ("make"), destroy it ("kill").

A behaviour belongs to one of `Plugins`: the OpenSL ES back end of `liveout.c`
(its feeder thread enables low latency mode and dequeues) or the ALSA one
(which does not). `Reuse` names those with which a new sink may have the
address of the old one, `RenderFails` those whose rendering may throw. The ALSA
back end starts a thread per sink instance; the model has one, which then works
for the next sink.

### 2.3 ObjectReplication

The server's handlers, one at a time, two streams per connection and the
client's handlers. Objects are numbers, as in the code, because the order of
the map and the fact that a Sequence gets the number after its RIMachine both
matter. A message is its type and the object it names: "create", "delete",
"update" and "reply" from the server; "update", "query" and "remove" from the
client. The contents of objects are left out.

Registering a machine is a handler that makes several machine operations, each
of which waits for its turn, so that the program may destroy the machine, or
the new Sequence, in between. The handler is one action per outcome:
`MachineRegistered` (both live to see its end), `SequenceInitFails` (the midi
input is taken, or the Sequence is gone: it is stored but not announced),
`DestroyedBefore` (the machine is gone before the attachment: the handler of
that exception throws as well and the io thread ends) and `TiedLate` (one or
both are gone between the attachment and the tie). `orphans` are Sequences that
were stored and never tied, `late` the machines that were tied too late. A
machine without midi input that was destroyed before its registration is
announced and removed as if it had been destroyed later.

A machine that is destroyed again throws in `internal_deregister_machine`. In
`Serve` this has two outcomes, because what is thrown is a `jException`, a class
of a library that is not in the repository: whether `catch(std::exception&)` in
`do_read_body` takes it depends on that class. `__MSG_DELETE_OBJECT` from a
client has no action: only `request_delete_me` would send it, and that is
called by a Sequence of the server alone.

### 2.4 MessageLink and Channel

The way of a message from a client to the server, below the level at which
`ObjectReplication` has a stream per connection. The client has one
`MessageHandler` for all its connections, one after the other, and keeps its
`write_msgs` from one to the next; the server makes a new `ClientAgent` for
each.

| Model | Code |
|-------|------|
| `session`, `sock`, `link` | how often `connect_client` was called (and whose callbacks are set), `my_socket`, and whether the network still carries the connection |
| `reading`, `writing` | an `async_read` or `async_write` that asio has not completed; `writing` holds the pieces left |
| `ready` | completed operations whose handler waits in the io queue, in that order; closing a socket adds failures |
| `posted`, `handed` | the functions of `send_object_message` on the io thread, and the messages given to `deliver_message` |
| `write_msgs`, `Deliver`, `HandleWritten`, `HandleFailure` | `deliver_message`, `do_write` and the handlers of its completion; a failed write leaves `write_msgs` as it is |
| `Connect`, `Disconnect`, `OnConnectionDropped` | `connect_client`, `disconnect_client`, `on_connection_dropped` of `client.cc` |
| `agent`, `ReadHeader`, `ReadBody` | `do_read_header`, `do_read_body` of the server's side |
| `Encode`, `Decode` | `encode` and `decode_body`, with `data2send` as the length in the header |

A message is its number, the number of `set_value` calls and the number of
different keys. On the wire it is a header that announces the number of calls
and a piece per key, which is enough to tell a header that is too long. What is
read in the place of a header announces any length. The other direction uses
the same loops on the server's side, where a handler serves one connection
only. Left out are the resolver's failure, and a connection attempt that is
given up between its completion and its handler.

`Channel` says what those that hand over a message may rely on: on each
connection messages come out whole, in order and at most once over all
connections. It allows loss, since the code does not retry.

### 2.5 SequenceReplica and SequenceData

`SequenceData` holds the functions `process_add_pattern` ... that both sides
apply to the contents of a Sequence, with the insertion of `linked_list.hh`
(which does not keep a list sorted: replicas agree because both sides insert in
the same order). `SequenceReplica` has the server's Sequences and the pool of
pattern ids they share, the handlers of the seven requests, `serialize`, and
per connection the commands under way and the replicas.

Requests are inputs: a client may send any of them at any time. Three things
the code does are in the model and in the statements of the properties.
Deleting a note is announced with the command that deletes an instance, which
has not the fields the client reads: the client takes the exception for a lost
connection and drops its objects ("flushed"). `serialize` leaves out the
instances, so a client that connects later misses them (`missed`). And the
overlap test compares end points only.

### 2.6 EngineThreads

Four threads and what they wait for: the program's own (it loads projects,
starts and stops the server), the server's io thread, the async thread and the
audio thread, in low latency mode.

| Model | Code |
|-------|------|
| `space`, `todo` | the thread in the machine space, and the events its operation still has to queue |
| `riff` | the file that is recorded to, and whether the audio thread waits in `wait_for_pending_async_riff_writers` |
| `free`, `queue`, `async` | the free list and queue of `AsyncOperations`; the async thread idle or inside `post_action` |
| `server`, `mutex`, `posted`, `io` | the singleton, `server_mutex`, the handlers of `io_service`, and where the io thread is in the one it executes |
| `live`, `wired`, `tied` | the network, as far as the server is told of it |
| `known`, `table` | `machine2rimachine`, and the `connection_data` of all RIMachines |
| `is_playing`, `client` | whether the engine plays, and what a client was told last |

An operation is one step into the machine space, one per event it queues and
one out of it. `QueueEvent` has to wait when the pool is empty. What attaching
and destroying do inside the network is the subject of `MachineGraph`; late or
repeated requests are left to it. While the engine plays and records, every
rendering queues a write (`Record`), an `AsyncOp` from the same pool; when the
engine has been stopped, the audio thread closes the file in the machine space
and waits until no write is pending (`Pause`, `CloseFile`). A Sequence that
cannot be attached makes `machine_registered` destroy its machine (`AttachFails`,
`UndoMachine`). A server is started and stopped once.

### 2.7 LoopPlayer and Transport

`Transport` is the clock of `machine.cc` as a record and functions on it.
`LoopPlayer` is one `MachineSequencer` under it. `Fill` is one tick of
`fill_buffers` (the model renders tick by tick) and the advance of the
transport; all else is a machine operation and comes between ticks. Notes and
loops are pointers, as in the code: `active` and `next` keep the pointer to a
note that was deleted (`misused`), and using it sets `wild`, after which nothing
is claimed. The store of loops doubles when it is full and its ids are shifted
by a deletion, in the store and in the sequence. `delete_loop` takes any id and
is called by nobody in this commit; it is modelled for the ids of loops that
were added (`AddedIds`).

### 2.8 Pad

One tick is any number of `HandleEvent` steps (`process_events`) and
`ProcessSessions`, which treats all sessions and fingers as the nested loops
do, with the objects handed from one to the next as one record. `motion` and
`session` are the objects, `freed` what was deleted; contents of what was
deleted, and values that are set again before they are read, are forgotten.
`sound` are the notes that were started and not ended, by motion. Recording and
quantize are switched at any time. `mixed` and `cut` are not in the code: that a
motion of this finger was quantized after it had found its place among motions
that were not on lines, and the motions that will not come to their last
position. A behaviour starts with a new pad, with one that was loaded with a
recorded motion, or in the middle of a recording, with one motion recorded. A
finger is put down, moved and lifted by one user. `Export` is one step: after
the reset each session of the loop either comes to its end, or the loop in
`export_to_loop` does not (`hung`); `Ends` says when.

## 3. What the runs check

| Run | Checks | Shows |
|-----|--------|-------|
| `graph_orderly` | CountsMatch, ListsSound, NotInUse, TiedTogether | A sink with two summing inputs, a synth, an effect with three outputs that is a rival midi source, and the Sequence of the synth, which comes into being in four steps, in every order of building, connecting and destroying, also twice and between these steps; the path in which attaching the Sequence fails, too. |
| `graph_unruly` | Acyclic, ChainComplete | Both kinds of unruly requests: still no loop, and the chain still follows the counts. |
| `ops_both` | RenderAlone, OneExecutorBetweenSinks, InOrder, LockIsCounted, WaitersReturn | Two callers with four operations each across creation and destruction of sinks, with and without low latency mode; without it, renderings throw and addresses are reused. |
| `objects_replica` | ReplicaFollows, NoSpuriousDrop, RemovalsArrive, QueriesReturn | Two clients that connect, work, ask, remove and disconnect whenever they like, in a race with the program, which destroys machines and Sequences before, during and after their registration. |
| `link_channel` | OneWrite, ImplementsChannel, Delivery, LossIsNoticed | Three messages over two connections that are lost, closed or refused at any point, also in the middle of a write: nothing is mixed up, and what the handler is writing arrives if the connection stays. |
| `sequence_follow` | PatternsFollow, InstancesFollow, IdsUnique, NoPartialOverlap | Four requests to two Sequences, in every order and stale ones too, and a client that connects, reads and disconnects between any two of them. |
| `engine_threads` | TypeOK, TableFollows, PlayStateKnown, OperationsEnd, StopReturns | Two machines made, connected and destroyed by the program and by clients while the server starts and stops and lines are played and recorded: the table follows, and there are four ways to get stuck and no fifth. |
| `player_play` | ClocksAgree, SequencedLoopsExist, ReadsLiveNotes, NextIsAhead, LinesKeepLoops, NotesEnd, LoopIsReached | Four operations on loops, notes, sequence and transport, at any tick of a sequencer that plays. |
| `pad_sessions` | MotionsOwned, SilentAfterwards, ExportReturns, SessionsEnd | Three finger events and two operations at five ticks of a line, on a pad that is new, loaded or in the middle of a recording. |

Three runs show a disagreement between the code and what it says about itself
(`findings` in `PROJECT.json`):

* `graph_order`: `push_to_render_chain` skips a machine that is in the chain
  already. With 3 reading 2 and the sink reading 2 and 3, the sink pushes 2,
  then 3 on top, and 2 is not moved: 3 is executed before its input is ready.
* `objects_served`: a request that lost a race against a removal throws
  NoSuchObject, and one to remove a machine that is being removed throws too.
  `do_read_body` takes this for a lost connection and has the agent taken out of
  `client_agents`, but reads on and leaves the socket open: the client gets no
  update any more, and does not know (StillServed). "transmit the update to the
  connected clients", says the comment in `RIMachine::attach_input`.
* `link_length`: `set_value` adds to the announced length on every call, also
  when the key is there already. Five requests of `Sequence` set "id" a second
  time: the server waits for more than was sent, takes the rest from the next
  message and never finds a header again.

What passes depends on its constants. These changes of them make a property of
a passing run fail, and show where the guarantee ends:

* `Requests = {"repeat"}` in `graph_orderly`: ListsSound and CountsMatch fail.
  The links of a signal are kept per machine; attaching it a second time makes
  its list lead to itself, and a detach later meets the state the code calls
  "dependant count error!".
* `Requests = {"stale"}` in `graph_orderly`: NotInUse and CountsMatch fail. A
  detach at the wrong input counts the signal down before it throws, and the
  teardown of the source no longer finds the destination.
* `Kount` below `MaxQueue` in `ops_both`: WaitersReturn fails. When the
  sink is destroyed with more operations queued than one call executes (50 in
  the code), nobody executes the rest.
* `Reuse = {"OpenSL"}` in `ops_both`: RenderAlone fails. The feeder thread
  recognises a new sink by the address of its table.
* `Repeats = TRUE` in `link_channel`: ImplementsChannel fails, for the reason
  given for `link_length`.

Some properties name the cases in which the code does not do what one would
expect; without that clause each of them is violated:

* `TiedTogether` excepts a machine and a Sequence of which one was destroyed
  between the attachment and the tie: `tightly_connect` does not look, and the
  other one lives on.
* `ReplicaFollows` and `NoSpuriousDrop` except Sequences that were stored and
  whose init callback threw: they are not announced. Clients that connect later
  know them, earlier ones do not, and a change of one makes those flush
  everything. `RemovalsArrive` does not ask that such a Sequence, or one that was
  tied too late, goes with its machine; nobody removes it. It and
  `QueriesReturn` except clients whose agent was dropped, as `objects_served`
  shows, and a server whose io thread an exception has ended: destroying a
  machine before its Sequence is attached does that, and so does removing a
  Sequence a second time.
* `LockIsCounted` excepts renderings that throw: the handler in
  `fill_this_sink` unlocks, and the unlock behind it is reached as well, which
  `unlock_machine_space` calls "Complete failure." and does not return from.
* `OneExecutorBetweenSinks` stands for `OneExecutor`, which fails with low
  latency mode: `deactivate_low_latency_mode` gives the lock back while the
  operation that destroys the sink is still running on the audio thread, and a
  caller that comes then executes directly, next to it.
* `Delivery` has `WriteInProgress` as a premise, which the variable of that
  name in `deliver_message` takes for granted. It fails after a failed write:
  `write_msgs` stays as it is, and a client that reconnects never writes again.
* `PatternsFollow` excepts clients that were told of a deleted note,
  `InstancesFollow` the instances from before a client connected, and
  `NoPartialOverlap` instances that lie strictly within another (section 2.5).
* `OperationsEnd` and `StopReturns` name four states: `PoolCircle`, the async
  thread waiting for the io thread, that one for the machine space, and the
  thread in there for an event (the comment at `async_operations.cc:125`
  expects "performance drops"); `PollCircle`, the same with the audio thread in
  there, which waits for recorded data to be written, behind the line that the
  async thread is busy with (`riff_wave_output.c:169`); `MutexCircle`,
  `stop_server` waiting with `server_mutex` for an io thread that wants it;
  `AsyncLost`, the async thread waiting for the io thread of a server that was
  stopped. `StopReturns` excepts the first three.
* `TableFollows` excepts connections from before the server was started: the
  listener is told of the machines there are, not of their connections.
  `PlayStateKnown` excepts a client that connects between the request to play
  and its execution, and the stop when a project is loaded, of which nobody is
  told.
* `ReadsLiveNotes` says that a deleted note is used only if it was deleted, or
  its loop cleared, while it sounded or was the next one. `NextIsAhead` is for
  loops without a moved note; `update_note` does not move it in the list.
  `NotesEnd` excepts a note that starts again while it sounds, which is counted
  down twice per tick, and one whose loop is left.
* `LoopIsReached` covers a loop whose end comes before its start, which
  `set_loop_start` makes: the transport then stays in the first line of it.
* `MotionsOwned` names two ways to lose a motion: a press before the last
  motion of that finger has been processed to its end, and a reset while a
  motion plays that is to be deleted. `SilentAfterwards` says of a note that
  sounds that its end will come: its motion has its last position still to
  play, or the finger is down and its release goes to this session. It excepts
  motions during which recording was switched or the pad cleared with the
  finger down (the release then goes to another session, and the note may sound
  for ever), and the notes that sound during an export, which resets the pad
  and no other machine. `SessionsEnd` excepts a session
  that was deleted with the finger down, for the same reason,
  and one that starts at the end of the loop: a quantized start there is moved
  back by the start of the loop, not by its length (the comment says "if we are
  looping and we end up at or after __loop_stop, move us back"). Such sessions
  are never `terminated`, and an export that meets one does not return.
* `record_motion` sorts a motion in by its start, and quantizing moves the start
  afterwards. When quantize is switched on after a motion was recorded without
  it, the list may be unsorted: playback waits for a motion whose time is over,
  and an export does not return. `SessionsEnd` and `ExportReturns` except
  sessions that were recorded partly with quantize and partly without (`Mixed`);
  `ExportReturns` says that these and the sessions designated for deletion are
  the only ones that keep an export from returning.

### 3.1 Bounds

* *Machines, signals, inputs.* Four machines allow a path of three
  connections, two paths to one machine, and a machine whose inputs are drained
  in the middle of a list of three (which is why one of them has two audio
  outputs). `MaxCount` = 2 lets a repeated attach
  happen; orderly callers never reach it. Each machine lives once: an
  address is not reused, so the runs end, and `CHECK_DEADLOCK FALSE` says so.
* *Operations.* `MaxOps` = 4 per caller lets a sink be made, used, destroyed
  and made again while the other caller's operations are queued; `MaxQueue` = 3
  operations in the queue need a caller that does not wait. `Kount` = 3 stands
  for the code's 50, and is not below `MaxQueue`: see above for what happens
  otherwise. A thread may end in the endless loop of "Complete failure.", hence
  `CHECK_DEADLOCK FALSE`.
* *Replication.* Two connections, each made and closed once; `MaxId` = 2 allows
  a machine with its Sequence, or two without. One client sends one request, the
  other only listens: that suffices for each race, since the program itself
  removes machines as well. `MaxRemovals` = 1 keeps the program, not the clients,
  from posting a second removal of a Sequence while one is under way.
  `MaxUpdates` keeps the server from starting a creation or a change while a
  client has that many messages under way; removals, replies and answers to
  requests are never held back.
* *Messages.* Two connections are what a reconnect needs; three messages allow
  one that is written, one that waits behind it and one that is handed over
  after the reconnect. `MaxFields` = 2 lets a connection end between any two
  pieces. After the last connection has ended nothing is left to happen, hence
  `CHECK_DEADLOCK FALSE`.

* *Sequences.* Two Sequences share a pool that starts with `InitialIds` = 1, so
  that it is emptied, grows and gets ids back; `MaxServed` = 4 requests are a
  pattern, an instance or note in it, a deletion and what comes after. The
  instances requests name (`FewInstances`) include one within another, one that
  overlaps it in part, and one of no length. One connection suffices: replicas do not
  influence each other or the server.
* *Threads.* `Pool` = 3 stands for 100: an operation queues up to three events,
  and the pool runs empty. `MaxOps` = 4 allows start, load, request and stop;
  `MaxRows` = 1 line and `MaxWrites` = 1 write under way are what the circles
  need, in either order in the queue.
  The threads may be stuck, hence `CHECK_DEADLOCK FALSE`.
* *Player.* Two ticks per line, two lines, a note of one tick and one of none, two places
  for sounding notes (16 in the code) and a store of two loops (16) that three
  loops overflow. `End` stands for every line behind the sequence. `MaxOps` = 4
  edits and moves of the transport; after a use of a deleted note the model
  stops.
* *Pad.* One finger and one column: fingers have no state in common but that of
  their session. For the invariants the proofs cover any number of fingers. A
  session that is cleared while two are in use may be kept by one of them until
  a reset, and then waits for what the other recorded since; `Reopened`, which
  *SessionsEnd* excepts, is about that. With two fingers and three events
  *SessionsEnd* was checked too, with quantize left as it is. A line of eight
  ticks is the shortest in which a motion that is quantized down can pass an
  earlier one of the same finger; two motions suffice, as a behaviour may start with one
  that was recorded at the second tick. `Moments` are the ticks at which events
  and operations come: both sides of the middle of the line, from which
  `quantize_tick` goes up, and two in a row; sessions are processed at every
  tick. `Late` = 5 is the longest motion or session that is told apart. Three
  events are a complete motion and the next press, or what ends a motion that
  began earlier. Two operations allow a session to be terminated and cleared or
  exported, quantize to be switched and the pad exported, and a motion to be
  cleared while it plays and then reset. An export that hangs stops everything,
  hence `CHECK_DEADLOCK FALSE`.

### 3.2 Fairness

`ops_both` assumes that the audio thread takes its steps (the feeder thread is
an endless loop paced by the device), and that a thread inside an operation
goes on. `player_play` and `pad_sessions` assume the former only; in `Pad` it is
written in terms of the tick. `objects_replica` assumes that `io_service.run`
executes the handlers it was given, on both sides, and that what arrives is
read. `link_channel` assumes the same, and that a socket whose connection is up
takes what is to be written; not that a connection attempt succeeds.
`engine_threads` assumes that a thread that does not wait goes on (weak
fairness of queueing, executing, handling, locking, joining and closing the file), and strong
fairness for the operations the io thread has requested and for those that are
pending: the audio thread executes operations in the order they were queued, so
that renderings and other operations, which also take the machine space, cannot
pass one over for ever. Nothing is assumed of the callers, of the clients or of
the program.

## 4. What is proved

Each theorem is for every value of the constants that satisfies the named
assumption of its module, so for any number of machines, callers, clients,
messages, notes and so on. Where a theorem needs more it says so in its ASSUME;
section 3 shows what goes wrong otherwise. For each invariant there is a
stronger, inductive one in the proof module, and one lemma per action that says
it is preserved. TLC was run on the inductive invariants it can evaluate, with
the constants of the runs, before they were proved.

| Theorem | States | Beyond the module's assumption |
|---------|--------|------|
| `AcyclicAlways`, `ChainCompleteAlways` | `[]Acyclic`, `[]ChainComplete` | |
| `TiedTogetherAlways` | `[]TiedTogether` | |
| `CountsMatchAlways`, `ListsSoundAlways`, `NotInUseAlways` | `[]CountsMatch`, `[]ListsSound`, `[]NotInUse` | `"repeat" \notin Requests`, `"stale" \notin Requests` |
| `RenderAloneAlways`, `OneExecutorAlways`, `InOrderAlways`, `LockIsCountedAlways` | the four invariants of `MachineOps` | `MaxQueue =< Kount`, no address of an OpenSL sink is reused |
| `ReplicaFollowsAlways`, `NoSpuriousDropAlways` | `[]ReplicaFollows`, `NoSpuriousDrop` | |
| `OneWriteAlways` | `[]OneWrite` | |
| `ImplementsChannelAlways`, `InStepAlways` | the refinement of `Channel`, `[]InStep` | `~Repeats` |
| `IdsUniqueAlways`, `NoPartialOverlapAlways`, `PatternsFollowAlways`, `InstancesFollowAlways` | the four invariants of `SequenceReplica` | |
| `TypeAlways`, `TableFollowsAlways`, `PlayStateKnownAlways` | the three invariants of `EngineThreads` | |
| `SequencedLoopsExistAlways`, `ClocksAgreeAlways`, `NextIsAheadAlways`, `ReadsLiveNotesAlways` | the four invariants of `LoopPlayer` | |
| `LinesKeepLoopsAlways` | the action property `LinesKeepLoops` | |
| `MotionsOwnedAlways`, `SilentAfterwardsAlways`, `ExportReturnsAlways` | the three invariants of `Pad` | |

### 4.1 The machine network

*Acyclic* says that every non-empty set of machines has a member that depends
on no other member; stated on sets, it can be proved without induction over
paths. The inductive invariant `GraphInv` adds only that the counts are
natural numbers. The argument:

1. Removing dependencies keeps a graph acyclic (`ShrinkKeepsAcyclic`): all
   actions but an attach leave the counts alone or make them smaller, which
   `Less` guarantees even where it is asked to go below zero.
2. An attach of m's signal at T adds one edge, from T to m. The check
   `~FindMachineInGraph(dependant, m, T)` gives a set R that contains m, is
   closed under dependencies and does not contain T. A set S that meets R has
   an independent member in `S \cap R`, for R's members depend on members of R
   only; a set that does not meet R does not contain m, and the new edge does
   not matter (`AttachKeepsAcyclic`).

So the check in `internal_attach_input` needs neither the input lists nor the
other counts to be right. This matters because after a repeated attach they are
not (section 3).

*ChainComplete.* `ChainInv` says that the chain is empty or what
`RecalculateRenderChain` makes of the counts and the sink as they are. It is
kept because every operation that changes the counts ends in a
`recalculate_render_chain`, but for the detach that throws, which finds a count
of zero and leaves it so; and because the sink changes only from none, when the
chain is empty, or to none, when it is rebuilt. The rest is about
`push_to_render_chain`. `PushInv` holds after each push: chain and stack hold
only machines that the sink needs, the dependencies of what is in the chain are
in the chain or on the stack, and no machine is in the chain twice. That the
stack is empty after `MaxPushes` pushes, so that the chain is closed under
dependencies, is a matter of counting: a push takes an entry from the stack,
and adds up to N when it puts one of the N machines into the chain, which it
does at most N times.

*TiedTogether.* `TieInv` says that ties come in pairs (`Paired`), mutual while
the two are alive, and which forms the call stack of a teardown can have: one
machine, or a machine and the one tied to it, the tie of which has been undone
on the other side (`Widowed`), so that the recursion does not come back. The
steps in which the io thread builds a Sequence are why this needs an invariant:
machines that are not registered or that the io thread has not heard of, and
the two it is working on, are tied to nothing (`SingleInv`), however often they
have been destroyed since. A tie that was made too late is recorded on both
sides, and of the others a dead machine is tied to dead ones only (`LateInv`),
which is what makes a second teardown of it harmless: it ends at the exception
before anything that lives is reached.

*ListsSound* and *CountsMatch*. The pointers alone say little about what a walk
along them meets. `Shape` therefore says of the lists of a machine that there
are ghosts: an owner (the input) and a place for each listed signal, and a
length for each input, with which the pointers agree. From this follows what a
walk meets (`MembersView`); and each operation on the lists has a lemma that
gives the new ghosts: a signal linked at the head moves the others up by one
(`PutFirst`, `LinkSecond`), one unlinked closes the gap (`UnlinkOne`). The hard
part is `detach_all_inputs`, which unlinks the signals of a machine while it
walks a list, and starts again after each one. `Draining` holds in each round:
the lists are still lists, what has been unlinked had to be, and what lies
behind the walk did not. A variant, which the rounds bring down to zero, shows
that there are rounds enough (`DrainView`). `ListInv` is then inductive: the
two counts of each connection are what the lists hold (`Sound`), and a machine
that is not built, or a Sequence that the io thread has not attached yet, is in
no list (`Unheard`). The last part is needed where a machine is built: its
signals enter their first list there. `ListsAssumption` says that the inputs
of a machine are numbered and finite in number, as in the code.

*NotInUse*. `OutInv` says that from the moment it is disconnected a machine is
in no list and has no inputs (`Unheard`, `Deaf`), and that the sink is alive.
Together with *ChainComplete*, a chain without it follows. A machine that is out
of use stays so because `attach_input` looks at `has_been_deregistered` inside
the operation; a second teardown finds nothing to disconnect. Repeated and stale
requests have to be excluded: each of them can bring a disconnected machine
back.

### 4.2 Operations and the audio thread

The four invariants have one inductive invariant, `Inv` of `MachineOpsProofs`:

* `ShapeInv`: operations and dequeues take turns on a thread's stack, and a
  dequeue with a frame below it was started by the destruction of a low latency
  sink.
* `LockInv`, `CountInv`: how often a thread with such a stack has entered the
  monitor, and that the counter of `unlock_machine_space` agrees.
* `ModeInv`, `PlainInv`: a sink that switched to low latency mode keeps callers
  from executing operations until it is torn down; one that did not never
  leaves the discipline of the lock.
* `QueueInv`: when the queue must be empty. This is where `MaxQueue =< Kount`
  is used: the audio thread that is told of the end of its sink has executed
  everything, so that callers may execute at once again without overtaking.
* `OrderInv`, `WaitInv`: what is queued is younger than what its caller has
  begun, and whom an awaited operation belongs to.

The actions that change a stack share lemmas on `Pop`, `Retop`, `Push` and
`Begin`. That no address of an OpenSL sink is reused is used where the feeder
thread compares the sink it works for with the one there is.

### 4.3 Replicas of the server's objects

`ReplicaFollows` is about all messages under way. The proof says what a stream
does to the set it is applied to: a stream `Fits` a replica if
each creation in it is new, each change follows the creation of its object or is
of a Sequence that was never announced, and nothing but replies follows a
deletion; then no handler of the client throws but for such a change (which is
`NoSpuriousDrop`), and `Outcome`, read off the stream, is what the
client has in the end. `FollowInv` says that the stream of every open
connection fits, and that its outcome is `objects`, without some of `orphans`, as
long as the server has the agent. Reading the first message keeps both; appending an announcement
changes the outcome as the server changes `objects`; the stream of a client
that is accepted creates each object once, in the order of the map. Ids are
never given out twice (`IdsInv`), which makes a creation new. An object that was
stored and not announced goes into `orphans` in the same step, whichever way its
initialisation failed, and what is deleted is not in `objects` any more
(`DeletedGone`), so that the deletion of an orphan fits a client that never knew
it.

### 4.4 Messages

*OneWrite* alone is not inductive: `deliver_message` does not look whether a
write is under way, only whether `write_msgs` is empty. `WriterInv` adds
`WriteHasMessage`, that a write under way, or one that succeeded and waits for
its handler, has its message still in `write_msgs`. A write starts in two
places. In `Deliver` the queue was empty, so by `WriteHasMessage` nothing was
under way; in `HandleWritten` the success that is handled was the only one by
*OneWrite*. The end of a connection only adds failures, which do not shorten the
queue. That is what makes `WriteHasMessage` survive a reconnect, and also what
makes `WriteInProgress` fail there.

`ImplementsChannelAlways` is the refinement: `MessageLink` implements `Channel`
when no message repeats a key. A `Deliver` that hands over a message is a
`Send`, the `ReadBody` that completes one is a `Receive`, all else is a
stutter. That a completed message may be received (it was sent, it is newer than
what came out, and did not come out on another connection) is the inductive
part:

1. All that is on its way on a connection is one stream: what the agent has of
   the message it reads, what is on the wire, what is left of the write under
   way (`Views`). Most steps move a piece from one part to the next and leave
   the stream as it is, or cut off its end.
2. `StreamInv` says that there is a labelling of every stream: which piece of
   which message each piece is. Along a stream the numbers grow, all messages
   but the last are whole, what came out is older than what is under way, and
   no message is labelled on two connections. Messages are numbered in the
   order they were handed over (`NumberedInv`), and `Cursor` counts the writes
   begun: a new write gets the next number, larger than any label.
3. A write is added to a stream of whole messages only (`Whole`), because the
   writer of a connection that is up stops only between messages. A connection
   that is given up keeps a part of a message at its end, nothing is written to
   it again, and the message is written again nowhere.
4. The agent therefore finds a header where it expects one, and the length in
   it is the number of pieces that follow: here `~Repeats` is used.

`InStepAlways` is the same invariant read at the server: it never takes for a
message what is none. The run `link_length` shows that it fails without
`~Repeats`.

### 4.5 Sequences

*Ids.* `IdInv` adds types to *IdsUnique*. Lemmas say what each `process_*`
function does to the set of ids of a Sequence, so only two requests matter:
adding a pattern takes the least id of the pool or, if that is empty,
`total_amount`, which nobody has by the third conjunct; deleting one gives back
an id that no other Sequence has by the second. The third conjunct, that pool
and Sequences have all ids below `total_amount`, makes the other two inductive.

*Instances.* `NoPartialOverlap` is inductive with its types (`SpanInv`): wherever
the search of `process_add_pattern_instance` stops, a new instance that is not
compatible with some old one has been refused, and inserting or removing
compares no two instances that were not compared before.

*Replicas.* `FollowInv`: what a client has when everything under way to it has
been handled (`Eventual`, a fold over the commands) agrees with the server on
all the client has not missed. A request changes the server and appends a
command whose handling makes the same change, and handling the first command
moves it from the stream to the replica; both are facts about folds. For
instances the two sides apply the overlap test to different lists, as the
client may lack some; that the client accepts what the server accepted follows
since its list is part of the server's.

### 4.6 Threads of the engine

`TypeInv` adds to *TypeOK* that who is in the machine space has events to queue
or waits for the file to be written, and not both, that an event of the pool is free, queued or with the async thread, and
that at most one line is under way to the io thread, for which the async thread
waits. `TableFollows` is again a fold, over the events wherever they are: still
to be queued, queued, posted. Moving an event from one list to the next does
not change their concatenation, and handling the first one moves it into the
table. It needs `Starting`: before the server listens nothing under way tells of
a machine, and it begins to listen only once, so that the machines it is then
told of are told once. `PlayStateKnown` needs that a request to play counts as
executed while it is pending (`PlayInv`).

### 4.7 Loops, lines and notes

`StoreInv`, of the transport, the store and the sequence, is inductive on its
own and gives `SequencedLoopsExist`, `ClocksAgree` and, for a step, the action
property `LinesKeepLoops`. `NextIsAhead` needs `NoteInv`: lists are sorted,
which inserting and deleting preserve, the pointer to the next note is to a note
of its list that is not behind, and no note is in two places, so that changing
one disturbs one loop only.

`ReadsLiveNotes` needs `LiveInv` beside it: as long as no note has been deleted
in one of the two ways the property names, no listed note and no note in a
slot of `active_note` is deleted, and a note in a slot of one loop is in no list
of another, so that deleting it there is not possible. A tick puts notes from
the list into slots and takes others out; since both are folds over `Activate`
and `CountDown`, the invariant of the slots is shown place by place
(`ActivateAll`, `CountDownAll`).

### 4.8 Motions of the pad

`PadInv` says of the objects (`ObjectsInv`): they have their types, and the
index of a motion is within its positions; what a finger refers to was not
deleted, is in no list twice and belongs to no other finger (`MotionsApart`);
every motion was deleted, is lost, or some finger refers to it (`Covered`);
what a finger plays is also recorded, its current motion, to be deleted, or
lost, so that it is not forgotten when it ends (`PlayingOK`); a recorded motion
is in the list of those that play exactly if its index says so, hence is not
started twice (`RecordedOK`); the recorded motions of a finger are in the order
in which they start, unless it is `mixed`, although `record_motion` sorts in a
motion before it is quantized: among motions that are on lines this does no
harm, since `quantize_tick` moves no start past another line (`InOrderOf`,
`QuantizeView`); what plays is terminated, was cut, or is held by a finger that
is down in the current session (`HeldBy`); and a note that sounds is the
last one of a motion that plays and has positions left, or its motion was cut
(`SoundOK`), since the last position ends it. Of the sessions (`SessionsInv`): the current
one is in play and was told neither to end nor to go, every other one was told
one or the other. So an export can only wait for a session that was designated
for deletion or is mixed: any other one is terminated, and its motions are in
order.

`ProcessSessions` is four folds, one in another: sessions, fingers, motions,
positions. `FoldStays` of `ListLemmas` says that a fold stays in a family of
sets if its steps do. It is instantiated for each of the four operators, and for
deleting all sessions, with the objects that satisfy `ObjectsInv`, have the same
sessions and differ only in what the step may change. These instances come last
in `SequencerProofs`, as every obligation behind one carries all of its
definitions; the lemmas before them are about single steps.

### 4.9 Folds without induction

The provers cannot use the induction theorems of the library, whose parameter
is an operator. `ListLemmas` proves what is needed of `FoldLeft` all the same:
that a fold over a concatenation is the fold over its second part from the
result of the first (`FoldConcat`), for a fixed operator `Op`, a constant that
each proof module replaces by its own when it instantiates the module. In place
of an induction stands the least place at which a claim fails, which exists
because the natural numbers are well-founded: so it is shown that the recursive
function behind `FoldLeft` exists for every length, and that the results of a
fold, place by place, are the only sequence that follows the operator
(`FoldOfRun`).

### 4.10 What the proofs changed in the models

* `MachineOps`: the alternatives of the audio thread's look at the sink
  overlapped where there was no sink and none before. TLC takes the first one;
  a proof could not.
* `ObjectReplication`: whose machine an object belongs to (`OwnerOf`) was not
  right for a Sequence whose init callback had failed. `orphans` holds these now.
* `MessageLink`, `EngineThreads`, `LoopPlayer`: the assumptions say of what NULL
  is to be different.
* `Pad`: a finger of a session that is designated for deletion starts no
  recorded motion (`pad.cc:936`). The model started it, which the invariant for
  two fingers brought up. With the guard such a session can wait for ever, in
  play and in an export (`Reopened`, `Ends`).
* Definitions that could not be reasoned about as they stood were put
  differently and mean the same: where an inserted note goes and how a deleted
  one is taken out (`PlaceOf`), the order in which objects are announced to a
  new client and machines pushed into the chain (`InMapOrder`), the recursion
  of `push_to_render_chain`, one push at a time (`PushToRenderChain`), and the
  loops of the pad as folds of named operators over records (`PlayPosition`,
  `PlayOn`, `ProcessFinger`).

### 4.11 Only model-checked

* All liveness properties: `WaitersReturn`, `RemovalsArrive`, `QueriesReturn`,
  `Delivery`, `LossIsNoticed`, `OperationsEnd`, `StopReturns`, `NotesEnd`,
  `LoopIsReached`, `SessionsEnd`. Fairness and ENABLED are beyond the prover.

## 5. Simplifications

* An operation of `MachineGraph` is one step; `MachineOps` shows in which cases
  this is not so (`OneExecutor`, and the queue emptied in the middle of the
  destruction of a sink).
* One sink machine. A second one throws in the constructor after it has been
  registered.
* In `ObjectReplication`, what other threads send to the io thread arrives
  there in any order.
* UDP is compiled out of the code, and of the model.
* `ObjectAllocator` (`common.hh`) hands out pointers into a vector, which
  dangle when it grows; the models assume that objects stay where they are.
  Deleting a note and freeing it are one step.
* The request of a Sequence is modelled as its handler reads it, although five
  of them lose the number of the object on the way (`link_length`).
* In `SequenceReplica`, a pattern is deleted without its instances, as in the
  code; nothing says what should become of them, since a Sequence does not play
  instances yet.
* In `LoopPlayer`, mute acts as not playing; a sequence does not grow
  (`set_loop_id_at` beyond its length), and ids of loaded loops are below the
  initial size of the store (the loader makes the store one place too small for
  an id of 16 or more). The limit on loops is `MaxLoops`: the comment at
  `machine_sequencer.cc:565` speaks of 99, the test is for 100.
* In `Pad`, arpeggio, chords and controllers are off. With the loop of the
  transport off, an export goes to tick 0x7fffffff.
* In `MachineGraph`, the data of a plugin is left out, which a second teardown
  deletes a second time (`dynamic_machine.cc:1002`).
* In `EngineThreads`, what a client or the program asks for while it records is
  left open (`Record` may come or not), and a write takes no time of its own.
* In `EngineThreads` the periodic function of the GlobalControlObject, which is
  never unregistered, does nothing once the server has stopped; in the code it
  uses an object that is gone.

## 6. Plan

1. Controller envelopes as an algorithm on a map of control points; the
   arpeggiator; the growth of a sequence; a second start of the server.
2. Abstract specifications: a single replicated set that `ObjectReplication`
   implements for every client that is served; a serial executor that
   `MachineOps` implements between sinks.

## 7. Not modelled

Most of the lines of the repository hold no state machine. Two files are
numeric tables (`fixedpointmathlib_exp_table.cc`, `fixedpointmathlib_ln_table.cc`,
65543 of 132594 lines). The plugins under `dynlib/` and the arithmetic under
them work on sample buffers, where every property is about the numbers. The
user interface (`ui_code/`) is drawing, animation and touch handling; it
appears in the models as the source of requests. Vendored libraries (FFT, the
lock-free queue, Vorbis, asio) are used as given. Project files, samples and
export are file input and output, and the platform glue is bindings. So the
models cover a small part of all lines, and the larger part of the engine's
own: `machine.cc`, `machine_sequencer.cc`, `remote_interface.cc`, `server.cc`,
`client.cc`, `sequence.cc`, `pad.cc` and `async_operations.cc`.

Of those files, left out are: names, positions and controllers of machines, the
XML form of everything, the objects that only store and pass on a value
(HandleList, SampleBank, Scales, tempo, shuffle), controller envelopes, midi
data from clients, and the arpeggiator.
