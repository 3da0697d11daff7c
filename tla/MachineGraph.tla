---------------------------- MODULE MachineGraph ----------------------------
(***************************************************************************)
(* The machine network of machine.cc: which machines exist, how their      *)
(* outputs are attached to inputs of others, the counts kept about that,   *)
(* the render chain computed from the counts, and the teardown of a        *)
(* machine together with the ones tightly connected to it.                 *)
(*                                                                         *)
(* Every action but Publish, Unpublish and the io bookkeeping is the body  *)
(* of one machine operation: it runs to its end before any other operation *)
(* (MachineOps.tla models how that is arranged).  Destruction is recursive *)
(* in the code; here its call stack is the variable calls, and no other    *)
(* operation runs while it is non-empty.                                   *)
(*                                                                         *)
(* Two threads request operations: the user interface (project loading,    *)
(* clearing) and the server's io thread, which serves the clients and,     *)
(* for each machine it hears of, builds a RIMachine and a Sequence.        *)
(***************************************************************************)
EXTENDS Integers, FiniteSets, Sequences, SequencesExt

CONSTANTS
  Machines,     \* machine addresses: naturals, std::map order is <
  Sequences_,   \* the machines that are ServerSpace::Sequence objects
  SequenceOf,   \* [Machines \ Sequences_ -> Sequences_ \cup {NULL}]: the
                \* Sequence built for a machine with a midi input
  Sinks,        \* the machines whose Handle says is_sink()
  Signals,      \* output signals
  Originator,   \* [Signals -> Machines]
  Midi,         \* signals of dimension _MIDI
  Inputs,       \* 1..n
  Fits,         \* <<signal, machine, input>> whose types match
  NULL,
  MaxCount,     \* bound on every dependant and attached count
  Requests      \* what callers may do beyond orderly use, see below

(* Callers are orderly when they never                                     *)
(*   "repeat"  attach a signal to a machine that it is attached to already,*)
(*   "stale"   detach a signal from an input it is not attached to.        *)
(* Nothing in the code stops them: Requests says which of these happen.    *)
ASSUME GraphAssumption ==
  /\ Machines \subseteq Nat /\ IsFiniteSet(Machines)
  /\ Sequences_ \subseteq Machines /\ Sinks \subseteq Machines
  /\ SequenceOf \in [Machines \ Sequences_ -> Sequences_ \cup {NULL}]
  /\ Originator \in [Signals -> Machines]
  /\ Midi \subseteq Signals
  /\ Fits \subseteq Signals \X Machines \X Inputs
  /\ NULL \notin Machines \cup Signals
  /\ MaxCount \in Nat
  /\ Requests \subseteq {"repeat", "stale"}

ASSUME ListsAssumption ==
  /\ IsFiniteSet(Signals)
  /\ IsFiniteSet(Inputs) /\ Inputs = 1..Cardinality(Inputs)

VARIABLES
  life,       \* machine_set: "new" (not built), "live" (in it), "dead"
  published,  \* the RIMachine object of a machine: "no", "yes", "gone"
  io,         \* what the io thread is building: [stage, machine]
  sink,
  links,      \* per machine, its input lists (SignalLists)
  attached,   \* attached[T][s] = s->attached_machines[T]
  dependant,  \* dependant[T][o] = T->dependant[o]; 0 is no entry
  tight,      \* tightly_connected
  calls,      \* call stack of internal_disconnect_and_destroy
  chain,      \* top_render_chain, in order of execution
  h_late      \* history: the machines of a tie that was made when one of
              \* the two was deregistered already

vars == <<life, published, io, sink, links, attached, dependant, tight,
          calls, chain, h_late>>

Lists == INSTANCE SignalLists

(* Between two handlers, and after an exception has left io_service.run.   *)
Idle  == [stage |-> "idle", machine |-> NULL]
Ended == [stage |-> "ended", machine |-> NULL]

Init ==
  /\ life = [m \in Machines |-> "new"]
  /\ published = [m \in Machines |-> "no"]
  /\ io = Idle
  /\ sink = NULL
  /\ links = [m \in Machines |-> Lists!NoLinks]
  /\ attached = [m \in Machines |-> [s \in Signals |-> 0]]
  /\ dependant = [m \in Machines |-> [o \in Machines |-> 0]]
  /\ tight = [m \in Machines |-> {}]
  /\ calls = <<>>
  /\ chain = <<>>
  /\ h_late = {}

-----------------------------------------------------------------------------
(* The graph spanned by the dependant counts.                              *)

Dependencies(dep, m) == {o \in Machines : dep[m][o] > 0}

Closed(dep, R) == \A m \in R : Dependencies(dep, m) \subseteq R

AcyclicGraph(dep) ==
  \A S \in (SUBSET Machines) \ {{}} :
     \E m \in S : Dependencies(dep, m) \cap S = {}

(* A fault to detect: the search is started at the wrong end.              *)
FindFromTarget(dep, m, x) ==
  \A R \in SUBSET Machines : x \in R /\ Closed(dep, R) => m \in R

(* find_machine_in_graph: x is m, or is found below m.                     *)
FindMachineInGraph(dep, m, x) ==
  \A R \in SUBSET Machines : m \in R /\ Closed(dep, R) => x \in R

(* The members of a set of machines as a loop over a std::map or std::set  *)
(* of their addresses meets them.                                          *)
InMapOrder(S) ==
  CHOOSE q \in [1..Cardinality(S) -> S] :
    \A j, k \in 1..Cardinality(S) : j < k => q[j] < q[k]

(* push_to_render_chain: a machine that is not in the chain yet goes on    *)
(* top of it, then its dependencies are pushed. r.todo is the recursion's  *)
(* stack.                                                                  *)
PushToRenderChain(r, dep) ==
  LET m == Head(r.todo)
  IN IF r.todo = <<>> THEN r
     ELSE IF m \in ToSet(r.chain) THEN [r EXCEPT !.todo = Tail(@)]
     ELSE [todo  |-> InMapOrder(Dependencies(dep, m)) \o Tail(r.todo),
           chain |-> <<m>> \o r.chain]

(* Each machine is put into the chain once, and pushes at most all.        *)
MaxPushes == 1 + Cardinality(Machines) * Cardinality(Machines)

(* A fault to detect: only the sink's own dependencies are pushed.         *)
ChainOfDepthOne(dep, top) ==
  IF top = NULL THEN <<>> ELSE InMapOrder(Dependencies(dep, top)) \o <<top>>

(* recalculate_render_chain, from the sink.                                *)
RecalculateRenderChain(dep, top) ==
  LET step[n \in 0..MaxPushes] ==
        IF n = 0 THEN [todo |-> IF top = NULL THEN <<>> ELSE <<top>>, chain |-> <<>>]
        ELSE PushToRenderChain(step[n - 1], dep)
  IN step[MaxPushes].chain

(* decr_dep_count and Signal::detach, v times: an entry that is not there  *)
(* is left alone.                                                          *)
Less(c, v) == IF v \in 0..c THEN c - v ELSE 0

-----------------------------------------------------------------------------
(* Machines come into being.                                               *)

Quiet == calls = <<>>

(* setup_machine, then register_this_sink when the machine is a sink. A    *)
(* second sink throws inside the constructor, after the registration.      *)
RegisterMachine(m) ==
  /\ Quiet
  /\ life[m] = "new"
  /\ m \notin Sequences_
  /\ m \in Sinks => sink = NULL
  /\ life' = [life EXCEPT ![m] = "live"]
  /\ sink' = IF m \in Sinks THEN m ELSE sink
  /\ UNCHANGED <<published, io, links, attached, dependant, tight, calls, chain, h_late>>

(* Server::machine_registered, posted to the io thread: the RIMachine is   *)
(* created, then create_sequence_for_machine starts if there is a midi     *)
(* input. The handler holds the machine: it may be destroyed meanwhile.    *)
Publish(m) ==
  /\ io = Idle
  /\ life[m] # "new"
  /\ published[m] = "no"
  /\ m \notin Sequences_
  /\ published' = [published EXCEPT ![m] = "yes"]
  /\ io' = IF SequenceOf[m] = NULL THEN Idle
           ELSE [stage |-> "create", machine |-> m]
  /\ UNCHANGED <<life, sink, links, attached, dependant, tight, calls, chain, h_late>>

(* Server::machine_unregistered, posted to the io thread.                  *)
Unpublish(m) ==
  /\ io = Idle
  /\ life[m] = "dead"
  /\ published[m] = "yes"
  /\ published' = [published EXCEPT ![m] = "gone"]
  /\ UNCHANGED <<life, io, sink, links, attached, dependant, tight, calls, chain,
                 h_late>>

(* Server::create_object<Sequence>: the constructor registers a machine.   *)
CreateSequence(m) ==
  /\ Quiet
  /\ io = [stage |-> "create", machine |-> m]
  /\ life[SequenceOf[m]] = "new"
  /\ life' = [life EXCEPT ![SequenceOf[m]] = "live"]
  /\ io' = [io EXCEPT !.stage = "attach"]
  /\ UNCHANGED <<published, sink, links, attached, dependant, tight, calls, chain,
                 h_late>>

-----------------------------------------------------------------------------
(* Attaching and detaching.                                                *)

(* internal_attach_input once its checks have passed.                      *)
Attach(T, s, i) ==
  LET m    == Originator[s]
      head == links[T].input[i]
  IN /\ Quiet
     /\ <<s, T, i>> \in Fits
     /\ ~FindMachineInGraph(dependant, m, T)
     /\ head = NULL \/ head \notin Midi
     /\ dependant[T][m] < MaxCount /\ attached[T][s] < MaxCount
     /\ links' = [links EXCEPT ![T] =
                    IF head = NULL THEN [@ EXCEPT !.input[i] = s]
                                   ELSE Lists!Link(@, head, s)]
     /\ attached' = [attached EXCEPT ![T][s] = @ + 1]
     /\ dependant' = [dependant EXCEPT ![T][m] = @ + 1]
     /\ chain' = RecalculateRenderChain(dependant', sink)
     /\ UNCHANGED <<life, published, sink, tight, calls, h_late>>

(* A client's attach message, or a connection of a loaded project. Inside  *)
(* the operation attach_input refuses machines that are deregistered.      *)
AttachInput(T, s, i) ==
  /\ life[T] = "live" /\ life[Originator[s]] = "live"
  /\ Originator[s] \notin Sequences_
  /\ "repeat" \in Requests \/ attached[T][s] = 0
  /\ Attach(T, s, i)
  /\ UNCHANGED io

(* The Sequence's midi output goes to its sibling's midi input.            *)
AttachSequence(m) ==
  /\ io = [stage |-> "attach", machine |-> m]
  /\ life[m] = "live" /\ life[SequenceOf[m]] = "live"
  /\ \E s \in Midi, i \in Inputs :
        Originator[s] = SequenceOf[m] /\ Attach(m, s, i)
  /\ io' = [io EXCEPT !.stage = "tie"]

(* attach_input throws: that input has a midi signal already, or one of    *)
(* the two is deregistered by now. machine_registered catches it and       *)
(* destroys the sibling, and the Sequence stays as it is. If the sibling   *)
(* was destroyed before, internal_deregister_machine throws out of that    *)
(* handler, which ends the io thread.                                      *)
AttachSequenceFails(m) ==
  /\ Quiet
  /\ io = [stage |-> "attach", machine |-> m]
  /\ \/ life[m] # "live" \/ life[SequenceOf[m]] # "live"
     \/ \E s \in Midi, i \in Inputs :
          /\ Originator[s] = SequenceOf[m] /\ <<s, m, i>> \in Fits
          /\ links[m].input[i] \in Midi
  /\ io' = IF life[m] = "live" THEN Idle ELSE Ended
  /\ calls' = <<[enter |-> TRUE, machine |-> m]>>
  /\ UNCHANGED <<life, published, sink, links, attached, dependant, tight, chain, h_late>>

(* tightly_connect, as the last step of create_sequence_for_machine. It    *)
(* does not look whether the machines are still registered.                *)
TightlyConnect(m) ==
  LET q == SequenceOf[m]
  IN /\ Quiet
     /\ io = [stage |-> "tie", machine |-> m]
     /\ m \notin tight[q] /\ q \notin tight[m]
     /\ tight' = [tight EXCEPT ![q] = @ \cup {m}, ![m] = @ \cup {q}]
     /\ io' = Idle
     /\ h_late' = IF life[m] = "live" /\ life[q] = "live" THEN h_late
                  ELSE h_late \cup {m, q}
     /\ UNCHANGED <<life, published, sink, links, attached, dependant, calls, chain>>

(* A fault to detect: the unlink succeeds, but dependant is left as it is. *)
DetachUncounted(T, s, i) ==
  LET u == Lists!Unlink(links[T], links[T].input[i], s)
  IN /\ Quiet
     /\ life[T] = "live" /\ life[Originator[s]] = "live"
     /\ Originator[s] \notin Sequences_
     /\ links[T].input[i] # NULL
     /\ s \in Lists!Members(links[T], links[T].input[i])
     /\ attached' = [attached EXCEPT ![T][s] = Less(@, 1)]
     /\ links' = [links EXCEPT ![T] = [u.links EXCEPT !.input[i] = u.head]]
     /\ UNCHANGED <<life, published, io, sink, dependant, tight, calls, chain, h_late>>

(* detach_input, of machines that are not deregistered, and then           *)
(* internal_detach_input. s->detach comes before the unlink that throws    *)
(* when s is not in the list of input i; the count is checked only after   *)
(* the unlink, and the chain is not rebuilt when that check throws.        *)
DetachInput(T, s, i) ==
  LET m    == Originator[s]
      l    == links[T]
      head == l.input[i]
      u    == Lists!Unlink(l, head, s)
  IN /\ Quiet
     /\ life[T] = "live" /\ life[m] = "live"
     /\ m \notin Sequences_
     /\ head # NULL
     /\ attached' = [attached EXCEPT ![T][s] = Less(@, 1)]
     /\ \/ /\ "stale" \in Requests
           /\ s \notin Lists!Members(l, head) /\ Lists!Terminates(l, head)
           /\ UNCHANGED <<links, dependant, chain>>
        \/ /\ s \in Lists!Members(l, head)
           /\ links' = [links EXCEPT ![T] =
                          [u.links EXCEPT !.input[i] = u.head]]
           /\ dependant' = [dependant EXCEPT ![T][m] = Less(@, 1)]
           /\ chain' = IF dependant[T][m] = 0 THEN chain
                       ELSE RecalculateRenderChain(dependant', sink)
     /\ UNCHANGED <<life, published, io, sink, tight, calls, h_late>>

-----------------------------------------------------------------------------
(* Destruction.                                                            *)

(* disconnect_and_destroy: a client's "deleteme", or the user interface    *)
(* clearing the project at any time, which finds machines by their name in *)
(* one operation and destroys them in another. So the machine may be       *)
(* destroyed already; its memory is there until the last handler that      *)
(* holds it is done.                                                       *)
DisconnectAndDestroy(m) ==
  /\ Quiet
  /\ life[m] # "new" /\ published[m] # "gone"
  /\ calls' = <<[enter |-> TRUE, machine |-> m]>>
  /\ UNCHANGED <<life, published, io, sink, links, attached, dependant, tight, chain,
                 h_late>>

(* A fault to detect: detach_all_outputs is left out.                      *)
OutOfInputsOnly(m, T) == IF T = m THEN Signals ELSE {}

(* The signals that the teardown of m removes from machine T.              *)
Out(m, T) ==
  IF T = m THEN Signals
  ELSE IF \E s \in Signals : Originator[s] = m /\ attached[T][s] > 0
       THEN {s \in Signals : Originator[s] = m} ELSE {}

(* A fault to detect: the reverse pointers are left in place.              *)
UntieNone(m) == tight

(* destroy_tightly_attached_machines: the others forget m, m keeps them.   *)
Untie(m) == [o \in Machines |-> IF o \in tight[m] THEN tight[o] \ {m} ELSE tight[o]]

(* detach_and_destroy (all inputs of m, then its outputs at every machine  *)
(* they are attached to) and the start of destroy_tightly_attached_        *)
(* machines: the others forget m and are destroyed before m is left.       *)
EnterDestroy ==
  LET m     == Head(calls).machine
      drain == [T \in Machines |-> Lists!Drain(links[T], Out(m, T))]
      gone  == [T \in Machines |-> [o \in Machines |->
                  MapThenSumSet(LAMBDA s : drain[T].visits[s],
                                {s \in Signals : Originator[s] = o})]]
  IN /\ calls # <<>> /\ Head(calls).enter
     /\ links' = [T \in Machines |-> drain[T].links]
     /\ attached' = [T \in Machines |-> [s \in Signals |->
                       Less(attached[T][s], drain[T].visits[s])]]
     /\ dependant' = [T \in Machines |-> [o \in Machines |->
                        Less(dependant[T][o], gone[T][o])]]
     /\ tight' = Untie(m)
     /\ calls' = [k \in 1..Cardinality(tight[m]) |->
                    [enter |-> TRUE, machine |-> InMapOrder(tight[m])[k]]]
                 \o <<[enter |-> FALSE, machine |-> m]>> \o Tail(calls)
     /\ chain' = RecalculateRenderChain(dependant', sink)
     /\ UNCHANGED <<life, published, io, sink, h_late>>

(* internal_deregister_machine, then the last recalculate_render_chain. A  *)
(* machine that is not in machine_set throws through all the calls.        *)
LeaveDestroy ==
  LET m == Head(calls).machine
  IN /\ calls # <<>> /\ ~Head(calls).enter
     /\ IF life[m] = "live"
        THEN /\ life' = [life EXCEPT ![m] = "dead"]
             /\ sink' = IF sink = m THEN NULL ELSE sink
             /\ calls' = Tail(calls)
             /\ chain' = RecalculateRenderChain(dependant, sink')
        ELSE /\ calls' = <<>>
             /\ UNCHANGED <<life, sink, chain>>
     /\ UNCHANGED <<published, io, links, attached, dependant, tight, h_late>>

-----------------------------------------------------------------------------
Next ==
  \/ \E m \in Machines \ Sequences_ :
       \/ RegisterMachine(m) \/ Publish(m) \/ Unpublish(m)
       \/ CreateSequence(m) \/ AttachSequence(m) \/ AttachSequenceFails(m)
       \/ TightlyConnect(m)
  \/ \E T \in Machines, s \in Signals, i \in Inputs :
       AttachInput(T, s, i) \/ DetachInput(T, s, i)
  \/ \E m \in Machines : DisconnectAndDestroy(m)
  \/ EnterDestroy
  \/ LeaveDestroy

Spec == Init /\ [][Next]_vars

-----------------------------------------------------------------------------
(* Properties.                                                             *)

(* The loop check of internal_attach_input is enough: no set of machines   *)
(* ever waits in a circle for each other's output, whatever the clients    *)
(* ask for. (find_machine_in_graph recurses without a visited set, and     *)
(* would not return on a circle.)                                          *)
Acyclic == AcyclicGraph(dependant)

NeededBy(m) ==
  {x \in Machines : \A R \in SUBSET Machines :
                       m \in R /\ Closed(dependant, R) => x \in R}

(* Whenever no operation is under way, a non-empty render chain holds      *)
(* each machine the sink depends on, directly or not, exactly once, and no *)
(* other: every operation that changes the counts rebuilds it.             *)
ChainComplete ==
  Quiet /\ chain # <<>> =>
    /\ sink # NULL
    /\ ToSet(chain) = NeededBy(sink)
    /\ IsInjective(chain)

(* The input lists of a machine end, do not share a signal, and can be     *)
(* walked backwards: what premix and the destructors rely on.              *)
ListsSound ==
  \A T \in Machines : LET l == links[T] IN
    /\ \A i \in Inputs : l.input[i] # NULL =>
         /\ Lists!Terminates(l, l.input[i])
         /\ l.previous[l.input[i]] = NULL
         /\ \A s \in Lists!Members(l, l.input[i]) :
              /\ l.next[s] # NULL => l.previous[l.next[s]] = s
              /\ \A j \in Inputs \ {i} : s \notin Lists!Members(l, l.input[j])

(* The three records of a connection agree: the count kept in the signal,  *)
(* the count kept in the destination, and the input lists.                 *)
Held(T) == UNION {Lists!Members(links[T], links[T].input[i]) : i \in Inputs}

CountsMatch ==
  \A T \in Machines :
    /\ \A s \in Signals : attached[T][s] = IF s \in Held(T) THEN 1 ELSE 0
    /\ \A o \in Machines :
         dependant[T][o] = Cardinality({s \in Held(T) : Originator[s] = o})

(* "notify listeners that the machine is no longer in use": once a machine *)
(* is deregistered and the operation is over, it is not rendered, nothing  *)
(* depends on it and no list leads to one of its signals, whichever thread *)
(* destroyed it and whatever the io thread was building.                   *)
NotInUse ==
  Quiet => \A m \in Machines : life[m] = "dead" =>
    /\ m \notin ToSet(chain) /\ sink # m
    /\ \A T \in Machines : life[T] = "live" =>
         /\ dependant[T][m] = 0
         /\ \A s \in Held(T) : Originator[s] # m

(* "Tightly connected machines should be considered one": whenever they    *)
(* were both there when tightly_connect tied them, they live and die       *)
(* together, though either may be destroyed, and destroyed again, by       *)
(* either thread at any time. And each of them is torn down once: the      *)
(* recursion of the teardown does not come back to a machine it is         *)
(* already destroying.                                                     *)
TiedTogether ==
  /\ Quiet => \A m \in Machines \ h_late : \A o \in tight[m] :
                life[m] = "live" => life[o] = "live" /\ m \in tight[o]
  /\ \A j, k \in DOMAIN calls : calls[j].machine = calls[k].machine => j = k

(* What "Push the machines we depend on on top" promises: a machine is     *)
(* rendered after every machine whose output it reads.                     *)
RenderOrder ==
  Quiet => \A j, k \in DOMAIN chain :
             dependant[chain[k]][chain[j]] > 0 => j < k
=============================================================================
