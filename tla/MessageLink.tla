----------------------------- MODULE MessageLink -----------------------------
(***************************************************************************)
(* How messages get from a client to the server: the write loop of the     *)
(* client's MessageHandler, the length header of a Message and the read    *)
(* loop of the server's ClientAgent (remote_interface.cc,                  *)
(* engine_code/client.cc).                                                 *)
(*                                                                         *)
(* The client has one MessageHandler for all its connections, one after    *)
(* the other; the server makes a new ClientAgent for each. What asio has   *)
(* completed waits in the client's io queue until its handler runs, in     *)
(* the order of completion; meanwhile the socket may have been closed, or  *)
(* be on its way to the next connection.                                   *)
(*                                                                         *)
(* A message is its number, the set_value calls made on it and the number  *)
(* of different keys among them. On the wire it is a header that says how  *)
(* many fields follow, and its fields.                                     *)
(***************************************************************************)
EXTENDS Integers, FiniteSets, Sequences, SequencesExt

CONSTANTS
  MaxSessions,  \* bound on the connections the client makes
  MaxMsgs,      \* bound on the messages it sends
  MaxFields,    \* bound on the fields of a message
  Repeats,      \* may a message have set_value called twice for one key
  NULL

Pieces == [kind : {"header", "field"}, n : Nat]

ASSUME LinkAssumption ==
  /\ MaxSessions \in Nat /\ MaxMsgs \in Nat /\ MaxFields \in Nat \ {0}
  /\ Repeats \in BOOLEAN /\ NULL \notin Seq(Pieces)

Sessions == 1..MaxSessions

VARIABLES
  session,     \* connections made so far; the callbacks are those of the last
  sock,        \* my_socket: "closed", "connecting", "open"
  link,        \* link[s], the network's view: "none", "up", "broken"
  reading,     \* an async_read is under way on my_socket
  write_msgs,
  writing,     \* what the async_write under way still has to write, or NULL
  ready,       \* completions whose handler has not run: [op, ok]
  linked,      \* the client has objects
  posted,      \* send_object_message handlers that have not run
  told,        \* told[s]: disconnect_callback of connection s was called
  wire,        \* wire[s]: what is written to connection s and not read
  agent,       \* agent[s]: the server's read loop, see NewAgent
  handed,      \* the messages given to deliver_message, in order
  got          \* got[s]: the messages the agent's on_message_received got

client_vars == <<session, sock, reading, write_msgs, writing, ready, linked,
                 posted, told, handed>>
agent_vars  == <<agent, got>>
vars == <<client_vars, agent_vars, link, wire>>

NewAgent == [state |-> "header", left |-> 0, body |-> <<>>]

Init ==
  /\ session = 0 /\ sock = "closed"
  /\ link = [s \in Sessions |-> "none"]
  /\ reading = FALSE /\ write_msgs = <<>> /\ writing = NULL /\ ready = <<>>
  /\ linked = FALSE /\ posted = <<>> /\ told = [s \in Sessions |-> FALSE]
  /\ wire = [s \in Sessions |-> <<>>]
  /\ agent = [s \in Sessions |-> NewAgent]
  /\ handed = <<>> /\ got = [s \in Sessions |-> <<>>]

-----------------------------------------------------------------------------
(* Message                                                                 *)

Header(n)   == [kind |-> "header", n |-> n]
Field(no)   == [kind |-> "field", n |-> no]

(* encode: the header is data2send, to which every set_value has added;    *)
(* the body has each key once.                                             *)
Encode(m) == <<Header(m.sets)>> \o [k \in 1..m.fields |-> Field(m.no)]

(* decode_body: fields up to the first thing that is none. The message is  *)
(* recognised if it is all there; 0 stands for anything else.              *)
Decode(body, fields) ==
  IF /\ body # <<>> /\ Head(body).kind = "field"
     /\ Len(body) >= fields[Head(body).n]
     /\ \A k \in 1..fields[Head(body).n] : body[k] = Head(body)
  THEN Head(body).n ELSE 0

-----------------------------------------------------------------------------
(* The client's io thread                                                  *)

Up == sock = "open" /\ link[session] = "up"

Failed(op) == [op |-> op, ok |-> FALSE]
Done(op)   == [op |-> op, ok |-> TRUE]

(* close(), or the end of the connection: what is under way fails.         *)
Aborted == (IF reading THEN <<Failed("read")>> ELSE <<>>)
           \o (IF writing # NULL THEN <<Failed("write")>> ELSE <<>>)

(* do_write, with rest the completions that are waiting: on a socket that  *)
(* is connecting the write waits, on one that cannot write it fails.       *)
DoWrite(msgs, rest) ==
  IF Up \/ sock = "connecting"
  THEN writing' = Encode(Head(msgs)) /\ ready' = rest
  ELSE writing' = NULL /\ ready' = Append(rest, Failed("write"))

(* A fault to detect: disconnect_callback is forgotten.                    *)
OnConnectionDroppedSilently ==
  /\ linked' = FALSE
  /\ UNCHANGED told

(* Client::on_connection_dropped: the objects are flushed and the current  *)
(* disconnect_callback is called.                                          *)
OnConnectionDropped ==
  /\ linked' = FALSE
  /\ told' = [told EXCEPT ![session] = TRUE]

Hangup == IF session = 0 THEN UNCHANGED link
          ELSE link' = [link EXCEPT ![session] = IF @ = "up" THEN "broken" ELSE @]

(* connect_client: the old socket is closed, if open, and the next         *)
(* connection begun with callbacks of its own.                             *)
Connect ==
  /\ session < MaxSessions
  /\ Hangup
  /\ ready' = ready \o Aborted
  /\ session' = session + 1 /\ sock' = "connecting"
  /\ reading' = FALSE /\ writing' = NULL
  /\ UNCHANGED <<write_msgs, linked, posted, told, handed, agent_vars, wire>>

(* disconnect_client                                                       *)
Disconnect ==
  /\ sock # "closed"
  /\ Hangup
  /\ ready' = ready \o Aborted
  /\ sock' = "closed" /\ reading' = FALSE /\ writing' = NULL
  /\ UNCHANGED <<session, write_msgs, linked, posted, told, handed, agent_vars, wire>>

(* The handler of async_connect, behind all that was completed before.     *)
Connected ==
  /\ sock = "connecting" /\ ready = <<>>
  /\ sock' = "open" /\ reading' = TRUE
  /\ link' = [link EXCEPT ![session] = "up"]
  /\ UNCHANGED <<session, write_msgs, writing, ready, linked, posted, told,
                 handed, agent_vars, wire>>

ConnectFails ==
  /\ sock = "connecting" /\ ready = <<>>
  /\ sock' = "closed"
  /\ ready' = Aborted /\ writing' = NULL
  /\ UNCHANGED <<session, link, reading, write_msgs, linked, posted, told,
                 handed, agent_vars, wire>>

(* The connection ends, by the network or by the server.                   *)
Break ==
  /\ Up
  /\ link' = [link EXCEPT ![session] = "broken"]
  /\ ready' = ready \o Aborted /\ reading' = FALSE /\ writing' = NULL
  /\ UNCHANGED <<session, sock, write_msgs, linked, posted, told, handed,
                 agent_vars, wire>>

(* A message of the server makes objects; the read loop goes on.           *)
Arrive ==
  /\ Up /\ reading /\ ready = <<>> /\ ~linked
  /\ linked' = TRUE
  /\ UNCHANGED <<session, sock, link, reading, write_msgs, writing, ready,
                 posted, told, handed, agent_vars, wire>>

(* send_object_message of a valid object: the rest is left to the io       *)
(* thread, and does not look again.                                        *)
Post(fields, twice) ==
  /\ linked
  /\ Len(posted) + Len(handed) < MaxMsgs
  /\ posted' = Append(posted, [no     |-> Len(posted) + Len(handed) + 1,
                               sets   |-> fields + twice,
                               fields |-> fields])
  /\ UNCHANGED <<session, sock, link, reading, write_msgs, writing, ready,
                 linked, told, handed, agent_vars, wire>>

(* A fault to detect: a write is started though one is under way.          *)
DeliverAtOnce ==
  /\ posted # <<>>
  /\ posted' = Tail(posted)
  /\ handed' = Append(handed, Head(posted))
  /\ write_msgs' = Append(write_msgs, Head(posted))
  /\ DoWrite(write_msgs', ready)
  /\ UNCHANGED <<session, sock, link, reading, linked, told, agent_vars, wire>>

(* deliver_message: "write_in_progress" is that write_msgs is not empty.   *)
Deliver ==
  LET m == Head(posted)
  IN /\ posted # <<>>
     /\ posted' = Tail(posted)
     /\ handed' = Append(handed, m)
     /\ write_msgs' = Append(write_msgs, m)
     /\ IF write_msgs = <<>> THEN DoWrite(write_msgs', ready)
        ELSE UNCHANGED <<writing, ready>>
     /\ UNCHANGED <<session, sock, link, reading, linked, told, agent_vars, wire>>

(* asio writes the next piece; the last one completes the write.           *)
WriteSome ==
  /\ Up /\ writing # NULL
  /\ wire' = [wire EXCEPT ![session] = Append(@, Head(writing))]
  /\ LET rest == Tail(writing)
     IN IF rest = <<>> THEN writing' = NULL /\ ready' = Append(ready, Done("write"))
                       ELSE writing' = rest /\ UNCHANGED ready
  /\ UNCHANGED <<session, sock, link, reading, write_msgs, linked, posted, told,
                 handed, agent_vars>>

(* The handler of a completion. A write that failed leaves write_msgs as   *)
(* it is.                                                                  *)
HandleFailure ==
  /\ ready # <<>> /\ ~Head(ready).ok
  /\ ready' = Tail(ready)
  /\ OnConnectionDropped
  /\ UNCHANGED <<session, sock, link, reading, write_msgs, writing, posted,
                 handed, agent_vars, wire>>

(* Faults to detect: the message stays in front; the next one is not       *)
(* written.                                                                *)
HandleWrittenUnpopped ==
  /\ ready # <<>> /\ Head(ready).ok
  /\ UNCHANGED write_msgs
  /\ DoWrite(write_msgs, Tail(ready))
  /\ UNCHANGED <<session, sock, link, reading, linked, posted, told, handed,
                 agent_vars, wire>>

HandleWrittenOnce ==
  /\ ready # <<>> /\ Head(ready).ok
  /\ write_msgs' = Tail(write_msgs)
  /\ ready' = Tail(ready)
  /\ UNCHANGED <<session, sock, link, reading, writing, linked, posted, told,
                 handed, agent_vars, wire>>

HandleWritten ==
  /\ ready # <<>> /\ Head(ready).ok
  /\ write_msgs' = Tail(write_msgs)
  /\ IF write_msgs' = <<>> THEN ready' = Tail(ready) /\ UNCHANGED writing
     ELSE DoWrite(write_msgs', Tail(ready))
  /\ UNCHANGED <<session, sock, link, reading, linked, posted, told, handed,
                 agent_vars, wire>>

-----------------------------------------------------------------------------
(* The server's io thread: do_read_header and do_read_body of the agent of *)
(* connection s, one piece at a time.                                      *)

FieldsOf == [no \in 1..Len(handed) |-> handed[no].fields]

(* What is no header makes no length, or any.                              *)
ReadHeader(s) ==
  /\ agent[s].state = "header" /\ wire[s] # <<>>
  /\ wire' = [wire EXCEPT ![s] = Tail(@)]
  /\ LET t == Head(wire[s])
     IN \E n \in IF t.kind = "header" THEN {t.n} ELSE 1..MaxFields :
          agent' = [agent EXCEPT ![s] = [state |-> "body", left |-> n, body |-> <<>>]]
  /\ UNCHANGED <<client_vars, link, got>>

ReadBody(s) ==
  LET body == Append(agent[s].body, Head(wire[s]))
  IN /\ agent[s].state = "body" /\ wire[s] # <<>>
     /\ wire' = [wire EXCEPT ![s] = Tail(@)]
     /\ IF agent[s].left > 1
        THEN /\ agent' = [agent EXCEPT ![s].left = @ - 1, ![s].body = body]
             /\ UNCHANGED got
        ELSE /\ agent' = [agent EXCEPT ![s] = NewAgent]
             /\ got' = [got EXCEPT ![s] = Append(@, Decode(body, FieldsOf))]
     /\ UNCHANGED <<client_vars, link>>

(* The read fails: on_connection_dropped, and no further read. What was    *)
(* written before the end may or may not have been read.                   *)
AgentEnds(s) ==
  /\ link[s] = "broken" /\ agent[s].state # "gone"
  /\ agent' = [agent EXCEPT ![s] = [NewAgent EXCEPT !.state = "gone"]]
  /\ wire' = [wire EXCEPT ![s] = <<>>]
  /\ UNCHANGED <<client_vars, link, got>>

-----------------------------------------------------------------------------
Client ==
  \/ Connect \/ Disconnect \/ Connected \/ ConnectFails \/ Break \/ Arrive
  \/ \E fields \in 1..MaxFields, twice \in IF Repeats THEN {0, 1} ELSE {0} :
       Post(fields, twice)
  \/ Deliver \/ WriteSome \/ HandleFailure \/ HandleWritten

Next == Client \/ \E s \in Sessions : ReadHeader(s) \/ ReadBody(s) \/ AgentEnds(s)

Spec == Init /\ [][Next]_vars

(* io_service.run executes what it is given, sockets that can write do,    *)
(* and the server reads what has arrived.                                  *)
FairSpec ==
  /\ Spec
  /\ WF_vars(Deliver) /\ WF_vars(WriteSome)
  /\ WF_vars(HandleFailure \/ HandleWritten)
  /\ \A s \in Sessions : WF_vars(ReadHeader(s) \/ ReadBody(s))

-----------------------------------------------------------------------------
(* Properties.                                                             *)

MessageType == [no : Nat, sets : Nat, fields : Nat]

(* Whatever is lost with a connection, what the server gets is whole, in   *)
(* order and not twice, also when the client reconnects with writes under  *)
(* way: the MessageHandlers implement Channel.                             *)
AsChannel == INSTANCE Channel WITH
  Connections <- Sessions, Messages <- 1..MaxMsgs, sent <- [k \in DOMAIN handed |-> handed[k].no]
ImplementsChannel == AsChannel!Spec

(* "data2send[%d] =? checksum[%d] ?" in Message::encode: the length in the *)
(* header is that of the body, so that the reader of a connection never    *)
(* loses step and takes for a message what is none.                        *)
InStep == \A s \in Sessions : 0 \notin ToSet(got[s])

(* "write_in_progress": when write_msgs is not empty, a write is under     *)
(* way, or has ended and its handler is going to run.                      *)
WriteInProgress ==
  write_msgs # <<>> => \/ writing # NULL
                       \/ \E k \in DOMAIN ready : ready[k].op = "write"

(* There is never more than one write that is under way or has succeeded   *)
(* and waits for its handler: two would mix their pieces on the wire, and  *)
(* their handlers would take out a message that is not written.            *)
OneWrite ==
  /\ \A j, k \in DOMAIN ready : ready[j] = Done("write") /\ ready[k] = Done("write") => j = k
  /\ writing # NULL => \A k \in DOMAIN ready : ready[k] # Done("write")

(* A message that is queued on a handler that writes is received, or the   *)
(* connection ends.                                                        *)
Queued(no) == \E k \in DOMAIN write_msgs : write_msgs[k].no = no
Delivery ==
  \A no \in 1..MaxMsgs :
    Queued(no) /\ WriteInProgress ~> ~Up \/ no \in AsChannel!Received

(* The client is told when its connection ends under it, unless it has     *)
(* gone on to the next.                                                    *)
LossIsNoticed ==
  \A s \in Sessions : link[s] = "broken" ~> told[s] \/ session # s
=============================================================================
