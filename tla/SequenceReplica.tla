--------------------------- MODULE SequenceReplica --------------------------
(***************************************************************************)
(* The Sequence objects of the server and their replicas                   *)
(* (engine_code/sequence.cc, common.hh).                                   *)
(*                                                                         *)
(* The handlers of the requests run on the server's io thread, one at a    *)
(* time: each changes the Sequence in a machine operation it waits for and *)
(* then sends a command to all clients. A client that connects is sent the *)
(* serialised objects first. Whether the objects themselves come and go in *)
(* step is the subject of ObjectReplication; here they are there all the   *)
(* time.                                                                   *)
(*                                                                         *)
(* Any client may send any request at any time, on the ground of what it   *)
(* once saw, so that requests are taken as inputs. They are modelled as    *)
(* the handlers read them: what send_message makes of their "id" field on  *)
(* the way is the subject of MessageLink.                                  *)
(***************************************************************************)
EXTENDS SequenceData

CONSTANTS
  Seqs,        \* the Sequence objects
  Conns,       \* client connections
  InitialIds,  \* pattern ids in the pool to begin with: 32
  MaxId,       \* bound on pattern ids
  Instances_,  \* the instances requests name, without their pattern_id
  Notes,       \* the notes requests name
  MaxServed    \* bound on the requests served

ASSUME SequenceAssumption ==
  /\ IsFiniteSet(Seqs) /\ IsFiniteSet(Conns)
  /\ InitialIds \in Nat /\ MaxId \in Nat /\ MaxServed \in Nat
  /\ InitialIds <= MaxId
  /\ \A i \in Instances_ : {i.start_at, i.loop_length, i.stop_at} \subseteq Int
  /\ \A n \in Notes : n.on_at \in Int

Ids == 0..(MaxId - 1)

VARIABLES
  server,         \* server[q]: the contents of Sequence q
  available_ids,  \* pattern_id_allocator, one for all Sequences
  total_amount,
  served,         \* requests served
  client,         \* client[c][q]: the replicas
  down,           \* down[c]: messages under way to client c
  link,           \* "closed"; "open"; "flushed": the client has taken an
                  \* exception for a lost connection and dropped its objects
  missed          \* missed[c][q]: instances that were there when c connected

server_vars == <<server, available_ids, total_amount, served>>
client_vars == <<client, down, link, missed>>
vars == <<server_vars, client_vars>>

Init ==
  /\ server = [q \in Seqs |-> Empty]
  /\ available_ids = 0..(InitialIds - 1) /\ total_amount = InitialIds
  /\ served = 0
  /\ client = [c \in Conns |-> server]
  /\ down = [c \in Conns |-> <<>>]
  /\ link = [c \in Conns |-> "closed"]
  /\ missed = [c \in Conns |-> [q \in Seqs |-> {}]]

-----------------------------------------------------------------------------
(* The server.                                                             *)

(* send_message on the server: to every client agent.                      *)
SendMessage(msg) ==
  down' = [c \in Conns |-> IF link[c] = "closed" THEN down[c] ELSE Append(down[c], msg)]

Serving == served < MaxServed /\ served' = served + 1

(* IDAllocator::get_id.                                                    *)
GetId == IF available_ids # {} THEN Min(available_ids) ELSE total_amount

(* A fault to detect: the id stays in the pool.                            *)
HandleReqAddPatternKeep(q) ==
  /\ Serving
  /\ GetId \in Ids
  /\ total_amount' = IF available_ids = {} THEN total_amount + 1 ELSE total_amount
  /\ server' = [server EXCEPT ![q] = ProcessAddPattern(@, GetId)]
  /\ SendMessage([cmd |-> "add_pattern", seq |-> q, id |-> GetId])
  /\ UNCHANGED <<available_ids, client, link, missed>>

HandleReqAddPattern(q) ==
  /\ Serving
  /\ GetId \in Ids
  /\ available_ids' = available_ids \ {GetId}
  /\ total_amount' = IF available_ids = {} THEN total_amount + 1 ELSE total_amount
  /\ server' = [server EXCEPT ![q] = ProcessAddPattern(@, GetId)]
  /\ SendMessage([cmd |-> "add_pattern", seq |-> q, id |-> GetId])
  /\ UNCHANGED <<client, link, missed>>

(* A pattern that is not there is ignored. free_id throws IDFreedTwice for *)
(* an id that is in the pool, before anything is sent.                     *)
HandleReqDelPattern(q, id) ==
  /\ Serving
  /\ server' = [server EXCEPT ![q] = ProcessDelPattern(@, id)]
  /\ available_ids' = IF id \in DOMAIN server[q].patterns THEN available_ids \cup {id}
                      ELSE available_ids
  /\ IF id \in DOMAIN server[q].patterns /\ id \notin available_ids
     THEN SendMessage([cmd |-> "del_pattern", seq |-> q, id |-> id])
     ELSE UNCHANGED down
  /\ UNCHANGED <<total_amount, client, link, missed>>

HandleReqAddPatternInstance(q, i) ==
  /\ Serving
  /\ server' = [server EXCEPT ![q] = ProcessAddPatternInstance(@, i)]
  /\ IF MayAddInstance(server[q], i)
     THEN SendMessage([cmd |-> "add_pattern_instance", seq |-> q, instance |-> i])
     ELSE UNCHANGED down
  /\ UNCHANGED <<available_ids, total_amount, client, link, missed>>

(* A fault to detect: the clients are not told.                            *)
HandleReqDelPatternInstanceSilently(q, i) ==
  /\ Serving
  /\ server' = [server EXCEPT ![q] = ProcessDelPatternInstance(@, i)]
  /\ missed' = [c \in Conns |-> [missed[c] EXCEPT ![q] = {m \in @ : ~SameInstance(m, i)}]]
  /\ UNCHANGED <<available_ids, total_amount, client, down, link>>

HandleReqDelPatternInstance(q, i) ==
  /\ Serving
  /\ server' = [server EXCEPT ![q] = ProcessDelPatternInstance(@, i)]
  /\ SendMessage([cmd |-> "del_pattern_instance", seq |-> q, instance |-> i])
  /\ missed' = [c \in Conns |-> [missed[c] EXCEPT ![q] = {m \in @ : ~SameInstance(m, i)}]]
  /\ UNCHANGED <<available_ids, total_amount, client, link>>

HandleReqAddNote(q, id, note) ==
  /\ Serving
  /\ server' = [server EXCEPT ![q] = ProcessAddNote(@, id, note)]
  /\ SendMessage([cmd |-> "add_note", seq |-> q, id |-> id, note |-> note])
  /\ UNCHANGED <<available_ids, total_amount, client, link, missed>>

(* The clients are sent cmd_del_pattern_instance with the fields of a note.*)
HandleReqDelNote(q, id, note) ==
  /\ Serving
  /\ server' = [server EXCEPT ![q] = ProcessDeleteNote(@, id, note)]
  /\ SendMessage([cmd |-> "del_pattern_instance", seq |-> q, id |-> id, note |-> note])
  /\ UNCHANGED <<available_ids, total_amount, client, link, missed>>

(* A fault to detect: of the notes only the first one is serialised.       *)
SerializeHeads(s) ==
  WithPatterns(Empty, [p \in DOMAIN s.patterns |-> SelectSeq(s.patterns[p], LAMBDA n : n = s.patterns[p][1])])

(* serderize_sequence: the patterns with their notes, no instances.        *)
Serialize(s) == WithInstances(s, <<>>)

(* do_accept: the new client is sent every object.                         *)
Connect(c) ==
  /\ link[c] = "closed"
  /\ link' = [link EXCEPT ![c] = "open"]
  /\ down' = [down EXCEPT ![c] =
       <<[cmd |-> "create", contents |-> [q \in Seqs |-> Serialize(server[q])]]>>]
  /\ missed' = [missed EXCEPT ![c] = [q \in Seqs |-> ToSet(server[q].instances)]]
  /\ UNCHANGED <<server_vars, client>>

-----------------------------------------------------------------------------
(* The client.                                                             *)

NoObjects == [q \in Seqs |-> Empty]

(* cmd_del_pattern_instance must have a start_at.                          *)
Readable(msg) == msg.cmd = "del_pattern_instance" => "instance" \in DOMAIN msg

(* The constructor and the handle_cmd_* functions.                         *)
HandleCmd(all, msg) ==
  CASE msg.cmd = "create"       -> msg.contents
    [] msg.cmd = "add_pattern"  -> [all EXCEPT ![msg.seq] = ProcessAddPattern(@, msg.id)]
    [] msg.cmd = "del_pattern"  -> [all EXCEPT ![msg.seq] = ProcessDelPattern(@, msg.id)]
    [] msg.cmd = "add_pattern_instance" ->
         [all EXCEPT ![msg.seq] = ProcessAddPatternInstance(@, msg.instance)]
    [] msg.cmd = "del_pattern_instance" ->
         [all EXCEPT ![msg.seq] = ProcessDelPatternInstance(@, msg.instance)]
    [] msg.cmd = "add_note"     -> [all EXCEPT ![msg.seq] = ProcessAddNote(@, msg.id, msg.note)]

(* A message is processed; get_value throws NoSuchKey for one that cannot  *)
(* be read, which is taken for a lost connection: the objects are dropped, *)
(* but reading goes on.                                                    *)
Receive(c) ==
  LET msg == Head(down[c])
  IN /\ down[c] # <<>>
     /\ down' = [down EXCEPT ![c] = Tail(@)]
     /\ \/ /\ link[c] = "open" /\ Readable(msg)
           /\ client' = [client EXCEPT ![c] = HandleCmd(@, msg)]
           /\ UNCHANGED link
        \/ /\ link[c] = "flushed" \/ ~Readable(msg)
           /\ client' = [client EXCEPT ![c] = NoObjects]
           /\ link' = [link EXCEPT ![c] = "flushed"]
     /\ UNCHANGED <<server_vars, missed>>

(* disconnect, or the connection is lost.                                  *)
Disconnect(c) ==
  /\ link[c] # "closed"
  /\ link' = [link EXCEPT ![c] = "closed"]
  /\ down' = [down EXCEPT ![c] = <<>>]
  /\ client' = [client EXCEPT ![c] = NoObjects]
  /\ missed' = [missed EXCEPT ![c] = [q \in Seqs |-> {}]]
  /\ UNCHANGED server_vars

-----------------------------------------------------------------------------
PatternInstances == {[pattern_id |-> id, start_at |-> i.start_at, loop_length |-> i.loop_length,
                      stop_at |-> i.stop_at] : id \in Ids, i \in Instances_}

Serve(q) ==
  \/ HandleReqAddPattern(q)
  \/ \E id \in Ids : HandleReqDelPattern(q, id)
  \/ \E i \in PatternInstances :
       HandleReqAddPatternInstance(q, i) \/ HandleReqDelPatternInstance(q, i)
  \/ \E id \in Ids, note \in Notes :
       HandleReqAddNote(q, id, note) \/ HandleReqDelNote(q, id, note)

Next ==
  \/ \E q \in Seqs : Serve(q)
  \/ \E c \in Conns : Connect(c) \/ Receive(c) \/ Disconnect(c)

Spec == Init /\ [][Next]_vars

-----------------------------------------------------------------------------
(* Properties.                                                             *)

(* What client c will have once everything under way has arrived.          *)
Eventual(c) == FoldLeft(HandleCmd, client[c], down[c])

Sound(c) == link[c] = "open" /\ \A k \in DOMAIN down[c] : Readable(down[c][k])

(* Whenever a client connects, and however requests cross each other, its  *)
(* patterns and the notes in them, in their order, come to be those of the *)
(* server, as long as no note is deleted.                                  *)
PatternsFollow ==
  \A c \in Conns, q \in Seqs :
    Sound(c) => Eventual(c)[q].patterns = server[q].patterns

(* A client comes to have every instance the server has but those that     *)
(* were there when it connected, and none that the server has not: the     *)
(* overlap test of the client, which knows fewer of them, decides as the   *)
(* one of the server did.                                                  *)
InstancesFollow ==
  \A c \in Conns, q \in Seqs :
    Sound(c) => /\ ToSet(Eventual(c)[q].instances) = ToSet(server[q].instances) \ missed[c][q]
                /\ missed[c][q] \subseteq ToSet(server[q].instances)

(* A pattern id belongs to one Sequence or to the pool: no command for one *)
(* pattern ever reaches another, and free_id never throws IDFreedTwice.    *)
IdsUnique ==
  /\ \A q \in Seqs : DOMAIN server[q].patterns \cap available_ids = {}
  /\ \A q, r \in Seqs :
       q # r => DOMAIN server[q].patterns \cap DOMAIN server[r].patterns = {}
  /\ available_ids \cup UNION {DOMAIN server[q].patterns : q \in Seqs} = 0..(total_amount - 1)

Within(a, b) == b.start_at < a.start_at /\ a.stop_at < b.stop_at
Apart(a, b) == a.stop_at < b.start_at \/ b.stop_at < a.start_at

(* Two instances of a Sequence never overlap in part ("can't do -          *)
(* overlapping"): they are apart, or one of them lies strictly within the  *)
(* other, which the test does not see.                                     *)
NoPartialOverlap ==
  \A q \in Seqs : \A j, k \in DOMAIN server[q].instances :
    LET a == server[q].instances[j]
        b == server[q].instances[k]
    IN j # k => Apart(a, b) \/ Within(a, b) \/ Within(b, a)
=============================================================================
