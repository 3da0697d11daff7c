------------------------- MODULE ObjectReplication -------------------------
(***************************************************************************)
(* How the server's objects reach the clients (engine_code/server.cc,      *)
(* engine_code/client.cc, remote_interface.cc).                            *)
(*                                                                         *)
(* The server keeps a map of objects, numbered upwards, and sends every    *)
(* client that connects a creation message for each of them, then every    *)
(* later creation, change and deletion.  All of that is done by handlers   *)
(* that run one at a time on the server's io thread; what other threads    *)
(* want from it is posted.  A client applies the messages in the order of  *)
(* arrival on an io thread of its own, and sends requests that name        *)
(* objects of its replica: to change one, to ask it something and wait for *)
(* the reply, or to remove a machine.                                      *)
(*                                                                         *)
(* A machine with a midi input has two objects: the RIMachine r and the    *)
(* Sequence r+1, made in one handler and removed by two. The handler is    *)
(* posted when the machine is registered, and every operation on machines  *)
(* that it makes waits for its turn: the program may destroy the machine   *)
(* before the handler or between any two of its operations, and the new    *)
(* Sequence too. The handler is one action here, with one action for each  *)
(* thing that may have happened to it in between.                          *)
(***************************************************************************)
EXTENDS Integers, FiniteSets, Sequences, SequencesExt

CONSTANTS
  Conns,        \* connections, each made and closed at most once
  MaxId,        \* bound on object ids
  MaxRequests,  \* bounds on the requests sent over each connection
  MaxUpdates,   \* no creation or change starts while so many messages are
                \* under way to a client
  MaxRemovals   \* the program asks for no removal of a Sequence while so
                \* many are posted

ASSUME ReplicationAssumption ==
  /\ IsFiniteSet(Conns)
  /\ MaxId \in Nat /\ MaxRequests \in [Conns -> Nat] /\ MaxUpdates \in Nat
  /\ MaxRemovals \in Nat

Ids == 0..MaxId

VARIABLES
  objects,      \* domain of the server's all_objects
  last_obj_id,
  with_seq,     \* RIMachines whose Sequence is tied to them
  late,         \* those of them that were tied after one of the two machines
                \* had been destroyed
  orphans,      \* Sequences that were remembered and never tied
  destroyed,    \* RIMachines whose machine is destroyed: as long as they are
                \* objects too, machine_unregistered is on its way
  removing,     \* removing[q]: on_remove_object(q) handlers posted
  io_ended,     \* an exception has left io_service.run
  agents,       \* client_agents
  reading,      \* connections whose do_read_header/do_read_body chain goes on
  phase,        \* of the client's socket: "none", "open", "closed"
  down, up,     \* the two streams of a connection
  replica,      \* domain of the client's all_objects
  waiting,      \* a thread of the client waits for a reply
  told,         \* the client has called disconnect_callback
  sent          \* requests sent

server_vars ==
  <<objects, last_obj_id, with_seq, late, orphans, destroyed, removing, io_ended>>
client_vars == <<phase, replica, waiting, told, sent>>
vars == <<server_vars, agents, reading, down, up, client_vars>>

(* Object 0 stands for the service objects: made before the first accept,  *)
(* never removed.                                                          *)
Init ==
  /\ objects = {0} /\ last_obj_id = 0
  /\ with_seq = {} /\ late = {} /\ orphans = {} /\ destroyed = {}
  /\ removing = [id \in Ids |-> 0] /\ io_ended = FALSE
  /\ agents = {} /\ reading = {}
  /\ phase = [c \in Conns |-> "none"]
  /\ down = [c \in Conns |-> <<>>] /\ up = [c \in Conns |-> <<>>]
  /\ replica = [c \in Conns |-> {}]
  /\ waiting = [c \in Conns |-> FALSE] /\ told = [c \in Conns |-> FALSE]
  /\ sent = [c \in Conns |-> 0]

Msg(type, id) == [type |-> type, id |-> id]

(* distribute_message, for some messages in a row. What is written to a    *)
(* connection that its client has closed is lost.                          *)
Distribute(msgs) ==
  down' = [c \in Conns |-> IF c \in agents /\ phase[c] = "open" THEN down[c] \o msgs
                           ELSE down[c]]

Room == \A c \in agents : Len(down[c]) < MaxUpdates

-----------------------------------------------------------------------------
(* Handlers of the server's io thread.                                     *)

Enlist(c) == agents \cup {c}

(* All objects, in map order.                                              *)
InMapOrder(ids) ==
  ToSet(ids) = objects /\ \A i, j \in DOMAIN ids : i < j => ids[i] < ids[j]

(* do_accept: the new client is sent every object.                         *)
Accept(c) ==
  /\ ~io_ended
  /\ phase[c] = "none"
  /\ phase' = [phase EXCEPT ![c] = "open"]
  /\ agents' = Enlist(c) /\ reading' = reading \cup {c}
  /\ \E ids \in [1..Cardinality(objects) -> objects] :
       /\ InMapOrder(ids)
       /\ down' = [down EXCEPT ![c] = [k \in DOMAIN ids |-> Msg("create", ids[k])]]
  /\ UNCHANGED <<server_vars, up, replica, waiting, told, sent>>

(* machine_registered: an RIMachine and, if there is a midi input, its     *)
(* Sequence are remembered, initialised and then announced. The machines   *)
(* live to see the end of it.                                              *)
MachineRegistered(midi) ==
  LET r    == last_obj_id + 1
      made == IF midi THEN <<r, r + 1>> ELSE <<r>>
  IN /\ ~io_ended
     /\ last_obj_id + Len(made) <= MaxId /\ Room
     /\ last_obj_id' = last_obj_id + Len(made)
     /\ objects' = objects \cup ToSet(made)
     /\ with_seq' = IF midi THEN with_seq \cup {r} ELSE with_seq
     /\ Distribute([k \in DOMAIN made |-> Msg("create", made[k])])
     /\ UNCHANGED <<late, orphans, destroyed, removing, io_ended, agents, reading, up,
                    client_vars>>

(* The midi input is taken, or the Sequence has been destroyed (and asked  *)
(* for its removal): the init callback throws. The Sequence is remembered  *)
(* already, but is neither tied nor announced. The machine is destroyed.   *)
(* (All clients are sent a failure message, which changes nothing they     *)
(* hold.)                                                                  *)
SequenceInitFails ==
  LET r == last_obj_id + 1
  IN /\ ~io_ended
     /\ r + 1 <= MaxId /\ Room
     /\ last_obj_id' = r + 1
     /\ objects' = objects \cup {r, r + 1}
     /\ orphans' = orphans \cup {r + 1} /\ destroyed' = destroyed \cup {r}
     /\ \E asked \in 0..1 : removing' = [removing EXCEPT ![r + 1] = @ + asked]
     /\ Distribute(<<Msg("create", r)>>)
     /\ UNCHANGED <<with_seq, late, io_ended, agents, reading, up, client_vars>>

(* The machine has been destroyed before the Sequence is attached to it:   *)
(* the init callback throws, and so does disconnect_and_destroy in the     *)
(* handler of that exception. (A machine without a midi input is announced *)
(* and removed as if it had been destroyed later.)                         *)
DestroyedBefore ==
  LET r == last_obj_id + 1
  IN /\ ~io_ended
     /\ r + 1 <= MaxId /\ Room
     /\ last_obj_id' = r + 1
     /\ objects' = objects \cup {r, r + 1}
     /\ orphans' = orphans \cup {r + 1} /\ destroyed' = destroyed \cup {r}
     /\ Distribute(<<Msg("create", r)>>)
     /\ io_ended' = TRUE
     /\ UNCHANGED <<with_seq, late, removing, agents, reading, up, client_vars>>

(* The machine, its Sequence or both are destroyed between the attachment  *)
(* and tightly_connect, which does not notice.                             *)
TiedLate ==
  LET r == last_obj_id + 1
  IN /\ ~io_ended
     /\ r + 1 <= MaxId /\ Room
     /\ last_obj_id' = r + 1
     /\ objects' = objects \cup {r, r + 1}
     /\ with_seq' = with_seq \cup {r} /\ late' = late \cup {r}
     /\ \E dead \in SUBSET {r, r + 1} \ {{}} :
          /\ destroyed' = destroyed \cup (dead \cap {r})
          /\ removing' = IF r + 1 \in dead THEN [removing EXCEPT ![r + 1] = @ + 1]
                         ELSE removing
     /\ Distribute(<<Msg("create", r), Msg("create", r + 1)>>)
     /\ UNCHANGED <<orphans, io_ended, agents, reading, up, client_vars>>

(* The RIMachine that a Sequence was made for; other objects are their own. *)
OwnerOf(id) == IF id - 1 \in with_seq \/ id \in orphans THEN id - 1 ELSE id

(* The objects that are RIMachines.                                        *)
RIMachines == {r \in objects \ {0} : OwnerOf(r) = r}

(* The Sequence tied to r's machine asks for its own removal, once more if *)
(* it has done so before and is still there (request_delete_me); it comes  *)
(* back to the io thread by way of other threads.                          *)
SequenceAsks(r) ==
  removing' = IF r \in with_seq /\ r + 1 \in objects
              THEN [removing EXCEPT ![r + 1] = @ + 1] ELSE removing

(* disconnect_and_destroy of a machine does not get past the deregistering *)
(* of one that is deregistered already: the machine itself, or the one it  *)
(* was tied to too late.                                                   *)
Throws(r) == r \in destroyed \cup late

(* disconnect_and_destroy of r's machine. machine_unregistered is sent for *)
(* r, if nothing is thrown.                                                *)
Destroy(r) ==
  /\ SequenceAsks(r)
  /\ destroyed' = IF Throws(r) THEN destroyed ELSE destroyed \cup {r}

(* The program the server runs in destroys a machine, at any time and in   *)
(* any state, or the Sequence it is tied to.                               *)
DestroyMachine(r) ==
  /\ r \in 1..last_obj_id /\ OwnerOf(r) = r
  /\ r \in with_seq => removing[r + 1] < MaxRemovals
  /\ Destroy(r)
  /\ UNCHANGED <<objects, last_obj_id, with_seq, late, orphans, io_ended, agents, reading,
                 down, up, client_vars>>

(* The program destroys a Sequence that is tied to no machine.             *)
DestroyOrphan(q) ==
  /\ q \in orphans \cap objects
  /\ removing[q] < MaxRemovals
  /\ removing' = [removing EXCEPT ![q] = @ + 1]
  /\ UNCHANGED <<objects, last_obj_id, with_seq, late, orphans, destroyed, io_ended, agents,
                 reading, down, up, client_vars>>

(* A fault to detect: the clients are not told.                            *)
DeleteSilently(id) ==
  /\ objects' = objects \ {id}
  /\ UNCHANGED down

DeleteObject(id) ==
  /\ objects' = objects \ {id}
  /\ Distribute(<<Msg("delete", id)>>)

MachineUnregistered(r) ==
  /\ ~io_ended
  /\ r \in destroyed \cap objects
  /\ DeleteObject(r)
  /\ UNCHANGED <<last_obj_id, with_seq, late, orphans, destroyed, removing, io_ended,
                 agents, reading, up, client_vars>>

(* The handler that on_remove_object posts. NoSuchObject leaves run().     *)
RemoveObject(id) ==
  /\ ~io_ended
  /\ removing[id] > 0
  /\ removing' = [removing EXCEPT ![id] = @ - 1]
  /\ \/ id \in objects /\ DeleteObject(id) /\ UNCHANGED io_ended
     \/ id \notin objects /\ io_ended' = TRUE /\ UNCHANGED <<objects, down>>
  /\ UNCHANGED <<last_obj_id, with_seq, late, orphans, destroyed, agents, reading, up,
                 client_vars>>

(* A fault to detect: a change of an object that is removed is announced.  *)
ServerUpdateUnchecked(r) ==
  /\ ~io_ended /\ Room
  /\ r \in 1..last_obj_id
  /\ Distribute(<<Msg("update", r)>>)
  /\ UNCHANGED <<server_vars, agents, reading, up, client_vars>>

(* send_object_message on the server: project_loaded, machine_input_       *)
(* attached and machine_input_detached tell the clients of a change.       *)
ServerUpdate(r) ==
  /\ ~io_ended /\ Room
  /\ r \in RIMachines
  /\ Distribute(<<Msg("update", r)>>)
  /\ UNCHANGED <<server_vars, agents, reading, up, client_vars>>

(* route_incomming_message. NoSuchObject is not a FailureResponse: it gets *)
(* to do_read_body, which drops the client and reads on. So does what      *)
(* disconnect_and_destroy throws, unless it ends the io thread or the      *)
(* process. (__MSG_DELETE_OBJECT is what the server sends; no client of    *)
(* this code does, as request_delete_me is only called by a Sequence of    *)
(* the server.)                                                            *)
Serve(c) ==
  LET msg == Head(up[c])
      id  == msg.id
  IN /\ ~io_ended
     /\ c \in reading /\ up[c] # <<>>
     /\ up' = [up EXCEPT ![c] = Tail(@)]
     /\ \/ /\ id \notin objects
           /\ agents' = agents \ {c}
           /\ UNCHANGED <<destroyed, removing, io_ended, down>>
        \/ /\ id \in objects /\ msg.type = "update"
           /\ Distribute(<<Msg("update", id)>>)
           /\ UNCHANGED <<destroyed, removing, io_ended, agents>>
        \/ /\ id \in objects /\ msg.type = "query"
           /\ down' = [down EXCEPT ![c] =
                          IF phase[c] = "open" THEN Append(@, Msg("reply", 0)) ELSE @]
           /\ UNCHANGED <<destroyed, removing, io_ended, agents>>
        \/ /\ id \in objects /\ msg.type = "remove"
           /\ Destroy(id)
           /\ \/ ~Throws(id) /\ UNCHANGED <<io_ended, agents>>
              \/ Throws(id) /\ agents' = agents \ {c} /\ UNCHANGED io_ended
              \/ Throws(id) /\ io_ended' = TRUE /\ UNCHANGED agents
           /\ UNCHANGED down
     /\ UNCHANGED <<objects, last_obj_id, with_seq, late, orphans, reading, client_vars>>

(* The client's socket is closed: reading what it sent ends in an error,   *)
(* at its end or before.                                                   *)
ServerDrop(c) ==
  /\ ~io_ended
  /\ c \in reading /\ phase[c] = "closed"
  /\ agents' = agents \ {c} /\ reading' = reading \ {c}
  /\ up' = [up EXCEPT ![c] = <<>>]
  /\ UNCHANGED <<server_vars, down, client_vars>>

-----------------------------------------------------------------------------
(* The client.                                                             *)

(* send_object_message, with and without a reply handler.                  *)
Request(c, type, id) ==
  /\ phase[c] = "open" /\ ~waiting[c] /\ sent[c] < MaxRequests[c]
  /\ id \in replica[c]
  /\ type = "remove" => id # 0 /\ OwnerOf(id) = id
  /\ up' = [up EXCEPT ![c] = Append(@, Msg(type, id))]
  /\ sent' = [sent EXCEPT ![c] = @ + 1]
  /\ waiting' = [waiting EXCEPT ![c] = type = "query"]
  /\ UNCHANGED <<server_vars, agents, reading, phase, down, replica, told>>

(* A fault to detect: the waiting threads are forgotten.                   *)
DroppedUnanswered(c) ==
  /\ UNCHANGED waiting
  /\ replica' = [replica EXCEPT ![c] = {}]
  /\ told' = [told EXCEPT ![c] = TRUE]

(* on_connection_dropped: the waiting threads are told, the replica is     *)
(* flushed and disconnect_callback is called.                              *)
Dropped(c) ==
  /\ waiting' = [waiting EXCEPT ![c] = FALSE]
  /\ replica' = [replica EXCEPT ![c] = {}]
  /\ told' = [told EXCEPT ![c] = TRUE]

(* on_message_received. link_object throws for an id that is there, and a  *)
(* message for an id that is not there throws; do_read_body takes both for *)
(* a lost connection, and reads on. A deletion need not find its object.   *)
Receive(c) ==
  LET msg == Head(down[c])
      id  == msg.id
  IN /\ phase[c] = "open" /\ down[c] # <<>>
     /\ down' = [down EXCEPT ![c] = Tail(@)]
     /\ \/ /\ msg.type = "create" /\ id \notin replica[c]
           /\ replica' = [replica EXCEPT ![c] = @ \cup {id}]
           /\ UNCHANGED <<waiting, told>>
        \/ /\ msg.type = "delete"
           /\ replica' = [replica EXCEPT ![c] = @ \ {id}]
           /\ UNCHANGED <<waiting, told>>
        \/ /\ msg.type = "reply"
           /\ waiting' = [waiting EXCEPT ![c] = FALSE]
           /\ UNCHANGED <<replica, told>>
        \/ /\ msg.type = "update" /\ id \in replica[c]
           /\ UNCHANGED <<replica, waiting, told>>
        \/ /\ \/ msg.type = "create" /\ id \in replica[c]
              \/ msg.type = "update" /\ id \notin replica[c]
           /\ Dropped(c)
     /\ UNCHANGED <<server_vars, agents, reading, phase, up, sent>>

(* disconnect_client, or the network fails: the pending read ends in an    *)
(* error.                                                                  *)
Close(c) ==
  /\ phase[c] = "open"
  /\ phase' = [phase EXCEPT ![c] = "closed"]
  /\ Dropped(c)
  /\ down' = [down EXCEPT ![c] = <<>>]
  /\ UNCHANGED <<server_vars, agents, reading, up, sent>>

-----------------------------------------------------------------------------
Server ==
  \/ \E c \in Conns : Serve(c) \/ ServerDrop(c)
  \/ \E id \in Ids : MachineUnregistered(id) \/ RemoveObject(id)

Next ==
  \/ Server
  \/ \E c \in Conns : Accept(c) \/ Receive(c) \/ Close(c)
  \/ \E c \in Conns, id \in Ids, type \in {"update", "query", "remove"} :
       Request(c, type, id)
  \/ \E midi \in BOOLEAN : MachineRegistered(midi)
  \/ SequenceInitFails \/ DestroyedBefore \/ TiedLate
  \/ \E id \in Ids : DestroyMachine(id) \/ DestroyOrphan(id) \/ ServerUpdate(id)

Spec == Init /\ [][Next]_vars

(* io_service.run executes every handler it is given, on both sides.       *)
FairSpec ==
  /\ Spec
  /\ \A c \in Conns : WF_vars(Serve(c)) /\ WF_vars(ServerDrop(c)) /\ WF_vars(Receive(c))
  /\ \A id \in Ids : WF_vars(MachineUnregistered(id)) /\ WF_vars(RemoveObject(id))

-----------------------------------------------------------------------------
(* Properties.                                                             *)

(* What a client will have once everything under way has arrived.          *)
Expected(c) ==
  {id \in Ids : /\ id \in replica[c] \/ Msg("create", id) \in ToSet(down[c])
                /\ Msg("delete", id) \notin ToSet(down[c])}

(* A client in client_agents is never beyond repair: what it has, once     *)
(* everything under way has arrived, is what the server has, but for       *)
(* Sequences that were remembered, failed to be initialised and so were    *)
(* never announced. No creation is lost between                            *)
(* send_all_objects_to_new_client and later announcements, and no deletion *)
(* either, wherever in its registration a machine was destroyed.           *)
ReplicaFollows ==
  \A c \in agents : phase[c] = "open" /\ ~told[c] =>
    Expected(c) \subseteq objects /\ objects \ Expected(c) \subseteq orphans

(* A client whose connection is up is told that it is down by a change of  *)
(* a Sequence that was never announced to it, and by nothing else:         *)
(* whatever the interleaving of creations, changes and deletions, no other *)
(* message meets an object that the client does not know (any more) or     *)
(* knows already.                                                          *)
NoSpuriousDrop ==
  [][\A c \in Conns : told'[c] /\ ~told[c] =>
       \/ phase'[c] = "closed"
       \/ Head(down[c]).type = "update" /\ Head(down[c]).id \in orphans]_vars

(* "transmit the update to the connected clients": a client whose          *)
(* connection is up, and that has not been told otherwise, gets updates.   *)
StillServed == \A c \in Conns : phase[c] = "open" /\ ~told[c] => c \in agents

(* A thread that waits for a reply is answered, or told that the           *)
(* connection is lost, unless the io thread of the server has ended, or    *)
(* the server has dropped the agent of a client whose connection is up.    *)
QueriesReturn ==
  \A c \in Conns :
    waiting[c] ~> ~waiting[c] \/ io_ended \/ (phase[c] = "open" /\ c \notin agents)

(* A machine that was destroyed disappears from every client that has an   *)
(* agent, for good, and so does its Sequence, unless it was tied too late  *)
(* or not at all; or the io thread has ended.                              *)
RemovalsArrive ==
  \A c \in Conns, r \in Ids \ {0} :
    r \in destroyed ~>
      [](\/ io_ended \/ c \notin agents
         \/ replica[c] \cap (IF r \in with_seq \ late THEN {r, r + 1} ELSE {r}) = {})
=============================================================================
