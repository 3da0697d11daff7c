------------------------- MODULE MachineGraphProofs -------------------------
(***************************************************************************)
(* Proofs about MachineGraph, for every set of machines, signals and       *)
(* inputs.                                                                 *)
(*   - For every kind of request, orderly or not: the network has no loop, *)
(*     and the render chain holds what the sink needs.                     *)
(*   - As long as no request names a machine that is deregistered already: *)
(*     machines that are tied live and die together.                       *)
(*   - As long as no request attaches a signal twice or detaches one that  *)
(*     is not there: the input lists are lists, and the counts agree with  *)
(*     them.                                                               *)
(*   - When all requests are orderly: a machine that is deregistered is    *)
(*     out of use.                                                         *)
(***************************************************************************)
EXTENDS MachineGraph, TLAPS, FiniteSetTheorems, SequenceTheorems

INSTANCE ListLemmas WITH Op <- PushToRenderChain

(* The counts have the types that Less and the attach increments keep.     *)
CountsType ==
  /\ attached \in [Machines -> [Signals -> Nat]]
  /\ dependant \in [Machines -> [Machines -> Nat]]

(* The inductive invariant: Acyclic alone says nothing about the values    *)
(* that the counts are decremented from.                                   *)
GraphInv == CountsType /\ Acyclic

-----------------------------------------------------------------------------
(* Less stays within the naturals and makes no dependency out of none.     *)
LEMMA LessFacts ==
  ASSUME NEW c \in Nat, NEW v
  PROVE  Less(c, v) \in Nat /\ (Less(c, v) > 0 => c > 0)
  BY DEF Less

(* Removing dependencies (detach, teardown) cannot close a circle.         *)
LEMMA ShrinkKeepsAcyclic ==
  ASSUME NEW dep \in [Machines -> [Machines -> Nat]],
         NEW new \in [Machines -> [Machines -> Nat]],
         \A x, o \in Machines : new[x][o] > 0 => dep[x][o] > 0,
         AcyclicGraph(dep)
  PROVE  AcyclicGraph(new)
<1>1. \A x \in Machines : Dependencies(new, x) \subseteq Dependencies(dep, x)
  BY DEF Dependencies
<1>2. SUFFICES ASSUME NEW S \in (SUBSET Machines) \ {{}}
               PROVE  \E x \in S : Dependencies(new, x) \cap S = {}
  BY DEF AcyclicGraph
<1>3. PICK x \in S : Dependencies(dep, x) \cap S = {}
  BY DEF AcyclicGraph
<1> QED BY <1>1, <1>3

(* The loop check of internal_attach_input: a new dependency of T on m     *)
(* closes no circle when T is not found in the graph below m. R is a set   *)
(* of machines closed under dependencies with m inside and T outside; a    *)
(* circle through the new edge would have to leave R.                      *)
LEMMA AttachKeepsAcyclic ==
  ASSUME NEW dep \in [Machines -> [Machines -> Nat]],
         NEW new \in [Machines -> [Machines -> Nat]],
         NEW T \in Machines, NEW m \in Machines,
         \A x, o \in Machines :
            new[x][o] > 0 => dep[x][o] > 0 \/ (x = T /\ o = m),
         ~FindMachineInGraph(dep, m, T),
         AcyclicGraph(dep)
  PROVE  AcyclicGraph(new)
<1>1. PICK R \in SUBSET Machines : m \in R /\ Closed(dep, R) /\ T \notin R
  BY DEF FindMachineInGraph
<1>2. \A x \in Machines : Dependencies(new, x) \subseteq Dependencies(dep, x) \cup {m}
  BY DEF Dependencies
<1>3. \A x \in Machines \ {T} : Dependencies(new, x) \subseteq Dependencies(dep, x)
  BY DEF Dependencies
<1>4. SUFFICES ASSUME NEW S \in (SUBSET Machines) \ {{}}
               PROVE  \E x \in S : Dependencies(new, x) \cap S = {}
  BY DEF AcyclicGraph
<1>5. CASE S \cap R # {}
  <2>1. PICK x \in S \cap R : Dependencies(dep, x) \cap (S \cap R) = {}
    BY <1>5 DEF AcyclicGraph
  <2>2. Dependencies(dep, x) \subseteq R
    BY <1>1, <2>1 DEF Closed
  <2>3. Dependencies(new, x) \subseteq Dependencies(dep, x)
    BY <1>1, <1>3
  <2> QED BY <2>1, <2>2, <2>3
<1>6. CASE S \cap R = {}
  <2>1. PICK x \in S : Dependencies(dep, x) \cap S = {}
    BY DEF AcyclicGraph
  <2>2. m \notin S
    BY <1>1, <1>6
  <2> QED BY <1>2, <2>1, <2>2
<1> QED BY <1>5, <1>6

-----------------------------------------------------------------------------
LEMMA InitGraph == Init => GraphInv
  BY DEF Init, GraphInv, CountsType, Acyclic, AcyclicGraph, Dependencies

(* internal_attach_input, for a client and for a Sequence alike.           *)
LEMMA AttachStep ==
  ASSUME GraphInv,
         NEW T \in Machines, NEW s \in Signals, NEW i \in Inputs, Attach(T, s, i)
  PROVE  GraphInv'
<1> DEFINE m == Originator[s]
<1>1. m \in Machines
  BY GraphAssumption
<1>2. /\ attached' = [attached EXCEPT ![T][s] = @ + 1]
      /\ dependant' = [dependant EXCEPT ![T][m] = @ + 1]
      /\ ~FindMachineInGraph(dependant, m, T)
  BY DEF Attach
<1>3. CountsType'
  BY <1>1, <1>2 DEF GraphInv, CountsType
<1>4. \A x, o \in Machines :
         dependant'[x][o] > 0 => dependant[x][o] > 0 \/ (x = T /\ o = m)
  BY <1>1, <1>2 DEF GraphInv, CountsType
<1>5. AcyclicGraph(dependant')
  <2>1. PICK before, after : before = dependant /\ after = dependant'
    OBVIOUS
  <2>2. /\ before \in [Machines -> [Machines -> Nat]] /\ AcyclicGraph(before)
        /\ after \in [Machines -> [Machines -> Nat]]
    BY <1>3, <2>1 DEF GraphInv, CountsType, Acyclic
  <2>3. PICK o : o = m
    OBVIOUS
  <2>4. /\ ~FindMachineInGraph(before, o, T) /\ o \in Machines
        /\ \A x, y \in Machines : after[x][y] > 0 => before[x][y] > 0 \/ (x = T /\ y = o)
    BY <1>1, <1>2, <1>4, <2>1, <2>3
  <2>5. AcyclicGraph(after)
    BY <2>2, <2>4, AttachKeepsAcyclic
  <2> QED BY <2>1, <2>5
<1> QED BY <1>3, <1>5 DEF GraphInv, Acyclic

(* A step that leaves both counts alone.                                   *)
LEMMA CountsUnchanged ==
  ASSUME GraphInv, UNCHANGED <<attached, dependant>>
  PROVE  GraphInv'
<1>1. CountsType'
  BY DEF GraphInv, CountsType
<1>2. AcyclicGraph(dependant')
  BY DEF GraphInv, Acyclic
<1> QED BY <1>1, <1>2 DEF GraphInv, Acyclic

(* A step after which each count is at most what it was.                   *)
LEMMA CountsShrink ==
  ASSUME GraphInv, CountsType',
         \A x, o \in Machines : dependant'[x][o] > 0 => dependant[x][o] > 0
  PROVE  GraphInv'
<1>1. AcyclicGraph(dependant')
  BY ShrinkKeepsAcyclic DEF GraphInv, CountsType, Acyclic
<1> QED BY <1>1 DEF GraphInv, Acyclic

LEMMA DetachStep ==
  ASSUME GraphInv,
         NEW T \in Machines, NEW s \in Signals, NEW i \in Inputs, DetachInput(T, s, i)
  PROVE  GraphInv'
<1>1. PICK m \in Machines : m = Originator[s]
  BY GraphAssumption
<1>2. PICK a \in Nat : a = Less(attached[T][s], 1)
  BY LessFacts DEF GraphInv, CountsType
<1>3. PICK d \in Nat : d = Less(dependant[T][m], 1)
  BY LessFacts DEF GraphInv, CountsType
<1>4. d > 0 => dependant[T][m] > 0
  BY <1>3, LessFacts DEF GraphInv, CountsType
<1>5. attached' = [attached EXCEPT ![T] = [attached[T] EXCEPT ![s] = a]]
  BY <1>2 DEF DetachInput
<1>6. \/ dependant' = dependant
      \/ dependant' = [dependant EXCEPT ![T] = [dependant[T] EXCEPT ![m] = d]]
  BY <1>1, <1>3 DEF DetachInput
<1>7. CountsType'
  <2>1. [attached[T] EXCEPT ![s] = a] \in [Signals -> Nat]
    BY DEF GraphInv, CountsType
  <2>2. [dependant[T] EXCEPT ![m] = d] \in [Machines -> Nat]
    BY DEF GraphInv, CountsType
  <2>3. attached' \in [Machines -> [Signals -> Nat]]
    BY <1>5, <2>1 DEF GraphInv, CountsType
  <2>4. dependant' \in [Machines -> [Machines -> Nat]]
    BY <1>6, <2>2 DEF GraphInv, CountsType
  <2> QED BY <2>3, <2>4 DEF CountsType
<1>8. ASSUME NEW x \in Machines, NEW o \in Machines, dependant'[x][o] > 0
      PROVE  dependant[x][o] > 0
  <2>1. CASE dependant' = dependant
    BY <1>8, <2>1
  <2>2. CASE dependant' = [dependant EXCEPT ![T] = [dependant[T] EXCEPT ![m] = d]]
    <3>1. dependant \in [Machines -> [Machines -> Nat]]
      BY DEF GraphInv, CountsType
    <3>2. CASE x = T /\ o = m
      BY <1>4, <1>8, <2>2, <3>1, <3>2
    <3>3. CASE ~(x = T /\ o = m)
      <4>1. dependant'[x][o] = dependant[x][o]
        BY <2>2, <3>1, <3>3
      <4> QED BY <1>8, <4>1
    <3> QED BY <3>2, <3>3
  <2> QED BY <1>6, <2>1, <2>2
<1> QED BY <1>7, <1>8, CountsShrink

(* The teardown of a machine, whatever the lists hold: the counts only go  *)
(* down, however many signals the drain loops visit.                       *)
LEMMA DestroyStep ==
  ASSUME GraphInv, EnterDestroy
  PROVE  GraphInv'
<1> DEFINE drain == [T \in Machines |->
                       Lists!Drain(links[T], Out(Head(calls).machine, T))]
           V(T, s) == drain[T].visits[s]
           G(T, o) == [x \in Machines |-> [y \in Machines |->
                        MapThenSumSet(LAMBDA s : drain[x].visits[s],
                                      {s \in Signals : Originator[s] = y})]][T][o]
<1>1. attached' = [T \in Machines |-> [s \in Signals |->
                     Less(attached[T][s], V(T, s))]]
  BY DEF EnterDestroy
<1>2. dependant' = [T \in Machines |-> [o \in Machines |->
                      Less(dependant[T][o], G(T, o))]]
  BY DEF EnterDestroy
<1> HIDE DEF drain, V, G
<1>3. \A T \in Machines, s \in Signals : Less(attached[T][s], V(T, s)) \in Nat
  BY LessFacts DEF GraphInv, CountsType
<1>4. \A T, o \in Machines : /\ Less(dependant[T][o], G(T, o)) \in Nat
                             /\ Less(dependant[T][o], G(T, o)) > 0 => dependant[T][o] > 0
  BY LessFacts DEF GraphInv, CountsType
<1>5. CountsType'
  BY <1>1, <1>2, <1>3, <1>4 DEF CountsType
<1>6. \A x, o \in Machines : dependant'[x][o] > 0 => dependant[x][o] > 0
  BY <1>2, <1>4
<1> QED BY <1>5, <1>6, CountsShrink

LEMMA NextGraph == GraphInv /\ [Next]_vars => GraphInv'
<1> SUFFICES ASSUME GraphInv, [Next]_vars
             PROVE  GraphInv'
  OBVIOUS
<1>1. CASE UNCHANGED vars
  BY <1>1, CountsUnchanged DEF vars
<1>2. ASSUME NEW m \in Machines,
             \/ RegisterMachine(m) \/ Publish(m) \/ Unpublish(m)
             \/ CreateSequence(m) \/ AttachSequenceFails(m) \/ TightlyConnect(m)
             \/ DisconnectAndDestroy(m)
      PROVE  GraphInv'
  BY <1>2, CountsUnchanged
     DEF RegisterMachine, Publish, Unpublish, CreateSequence,
         AttachSequenceFails, TightlyConnect, DisconnectAndDestroy
<1>3. ASSUME NEW m \in Machines, AttachSequence(m)
      PROVE  GraphInv'
  <2>1. PICK s \in Midi, i \in Inputs : Attach(m, s, i)
    BY <1>3 DEF AttachSequence
  <2>2. s \in Signals
    BY GraphAssumption
  <2> QED BY <2>1, <2>2, AttachStep
<1>4. ASSUME NEW T \in Machines, NEW s \in Signals, NEW i \in Inputs,
             AttachInput(T, s, i) \/ DetachInput(T, s, i)
      PROVE  GraphInv'
  BY <1>4, AttachStep, DetachStep DEF AttachInput
<1>5. CASE EnterDestroy
  BY <1>5, DestroyStep
<1>6. CASE LeaveDestroy
  BY <1>6, CountsUnchanged DEF LeaveDestroy
<1> QED BY <1>1, <1>2, <1>3, <1>4, <1>5, <1>6 DEF Next

(* No reachable state of the network has a circle of dependencies, for     *)
(* every number of machines, and even when the clients repeat an attach,   *)
(* detach what is not attached or name machines already destroyed: the     *)
(* loop check of Machine::internal_attach_input is sufficient.             *)
THEOREM AcyclicAlways == Spec => []Acyclic
<1>1. Spec => []GraphInv
  BY InitGraph, NextGraph, PTL DEF Spec
<1> QED BY <1>1, PTL DEF GraphInv
-----------------------------------------------------------------------------
(* Tied machines                                                           *)

TieType ==
  /\ life \in [Machines -> {"new", "live", "dead"}]
  /\ published \in [Machines -> {"no", "yes", "gone"}]
  /\ tight \in [Machines -> SUBSET Machines]
  /\ \/ io \in {Idle, Ended}
     \/ \E m \in Machines \ Sequences_ :
          /\ SequenceOf[m] # NULL /\ published[m] = "yes"
          /\ io \in [stage : {"create", "attach", "tie"}, machine : {m}]

(* The io thread is building a Sequence.                                   *)
Building == io.stage \in {"create", "attach", "tie"}

(* A machine that nothing is tied to, nor was too late.                    *)
Single(m) == m \notin h_late /\ tight[m] = {} /\ \A o \in Machines : m \notin tight[o]

(* Ties come in pairs: the one machine that o is tied to is the one that   *)
(* is tied to o, if any.                                                   *)
Paired ==
  \A m, o \in Machines : o \in tight[m] =>
    /\ o # m /\ tight[m] = {o} /\ tight[o] \subseteq {m}
    /\ \A n \in Machines : o \in tight[n] => n = m

(* What the io thread ties is single until then: machines that are not     *)
(* registered, machines that it has not heard of, and the two it works on. *)
SingleInv ==
  /\ \A m \in Machines : life[m] = "new" => Single(m)
  /\ \A m \in Machines \ Sequences_ : published[m] = "no" => Single(m)
  /\ \A m \in Machines : published[m] = "yes" => life[m] # "new"
  /\ Building => Single(io.machine)
  /\ io.stage \in {"attach", "tie"} =>
       Single(SequenceOf[io.machine]) /\ life[SequenceOf[io.machine]] # "new"

(* A tie that was made too late is not tied to one that was made in time,  *)
(* and of those in time a dead machine is tied to dead machines only.      *)
LateInv ==
  /\ h_late \subseteq Machines
  /\ \A m, o \in Machines : o \in tight[m] => (m \in h_late <=> o \in h_late)
  /\ \A m \in Machines \ h_late : life[m] = "dead" => \A o \in tight[m] : life[o] = "dead"

PairInv == Paired /\ SingleInv /\ LateInv

(* The ties of m are alive with it, and mutual.                            *)
Mutual(m) ==
  m \notin h_late /\ life[m] = "live" => \A o \in tight[m] : life[o] = "live" /\ m \in tight[o]

Enter(m) == [enter |-> TRUE, machine |-> m]
Leave(m) == [enter |-> FALSE, machine |-> m]

(* m is about to be deregistered, or the exception about to be thrown.     *)
LastOne(m) ==
  /\ \A o \in Machines \ {m} : Mutual(o)
  /\ m \notin h_late /\ life[m] = "live" =>
       /\ \A o \in Machines : m \notin tight[o]
       /\ \A o \in tight[m] : life[o] = "dead"

(* m keeps its tie to q while they are torn down; q has forgotten it.      *)
Widowed(m, q) ==
  /\ m # q /\ tight[m] = {q} /\ tight[q] = {}
  /\ \A o \in Machines \ {m} : Mutual(o)
  /\ m \notin h_late /\ life[m] = "live" => life[q] = "live"

(* The call stack of the teardown is one of these.                         *)
CallsInv ==
  \/ calls = <<>> /\ \A o \in Machines : Mutual(o)
  \/ \E m \in Machines : calls = <<Enter(m)>> /\ \A o \in Machines : Mutual(o)
  \/ \E m \in Machines : calls = <<Leave(m)>> /\ LastOne(m)
  \/ \E m, q \in Machines :
       /\ calls \in {<<Enter(q), Leave(m)>>, <<Leave(q), Leave(m)>>}
       /\ Widowed(m, q)

TieInv == TieType /\ PairInv /\ CallsInv

LEMMA InitTie == Init => TieInv
<1> SUFFICES ASSUME Init PROVE TieInv
  OBVIOUS
<1>1. \A m \in Machines : Single(m) /\ Mutual(m)
  BY DEF Init, Single, Mutual
<1>2. io.stage = "idle"
  BY DEF Init, Idle
<1> QED BY <1>1, <1>2 DEF Init, TieInv, TieType, PairInv, Paired, SingleInv, LateInv, Building,
                          CallsInv

(* The Sequence of a machine is a machine.                                 *)
LEMMA SequenceIsMachine ==
  ASSUME NEW m \in Machines \ Sequences_, SequenceOf[m] # NULL
  PROVE  SequenceOf[m] \in Sequences_ /\ SequenceOf[m] \in Machines /\ SequenceOf[m] # m
  BY GraphAssumption

(* What the io thread is at.                                               *)
LEMMA IoView ==
  ASSUME TieType, NEW m, NEW g \in {"create", "attach", "tie"}, io = [stage |-> g, machine |-> m]
  PROVE  /\ m \in Machines \ Sequences_ /\ published[m] = "yes"
         /\ SequenceOf[m] \in Machines \cap Sequences_ /\ SequenceOf[m] # m
         /\ SequenceOf[m] # NULL /\ io.machine = m /\ io.stage = g
<1>1. io \notin {Idle, Ended}
  BY DEF Idle, Ended
<1>2. PICK n \in Machines \ Sequences_ :
        /\ SequenceOf[n] # NULL /\ published[n] = "yes"
        /\ io \in [stage : {"create", "attach", "tie"}, machine : {n}]
  BY <1>1 DEF TieType
<1>3. m = n
  BY <1>2
<1> QED BY <1>2, <1>3, SequenceIsMachine

LEMMA BuildingView ==
  ASSUME TieType, Building
  PROVE  /\ io.machine \in Machines \ Sequences_ /\ published[io.machine] = "yes"
         /\ SequenceOf[io.machine] \in Machines \cap Sequences_
<1>1. io \notin {Idle, Ended}
  BY DEF Idle, Ended, Building
<1>2. PICK n \in Machines \ Sequences_ :
        /\ SequenceOf[n] # NULL /\ published[n] = "yes"
        /\ io \in [stage : {"create", "attach", "tie"}, machine : {n}]
  BY <1>1 DEF TieType
<1> QED BY <1>2, SequenceIsMachine

(* Ties, lives and calls stay what they are.                               *)
LEMMA TiesUntouched ==
  ASSUME UNCHANGED <<life, tight, h_late>>
  PROVE  /\ \A m : Single(m)' = Single(m)
         /\ \A m : Mutual(m)' = Mutual(m)
         /\ \A m : LastOne(m)' = LastOne(m)
         /\ \A m, q : Widowed(m, q)' = Widowed(m, q)
         /\ Paired' = Paired /\ LateInv' = LateInv
<1>1. /\ \A m : Single(m)' = Single(m)
      /\ \A m : Mutual(m)' = Mutual(m)
      /\ Paired' = Paired /\ LateInv' = LateInv
  BY DEF Single, Mutual, Paired, LateInv
<1> QED BY <1>1 DEF LastOne, Widowed

LEMMA TieUnchanged ==
  ASSUME TieInv, UNCHANGED <<life, published, io, tight, calls, h_late>>
  PROVE  TieInv'
<1>1. TieType'
  BY DEF TieInv, TieType
<1>2. PairInv'
  BY TiesUntouched DEF TieInv, PairInv, SingleInv, Building
<1>3. CallsInv'
  BY TiesUntouched DEF TieInv, CallsInv
<1> QED BY <1>1, <1>2, <1>3 DEF TieInv

LEMMA PublishTie ==
  ASSUME TieInv, NEW m \in Machines \ Sequences_, Publish(m)
  PROVE  TieInv'
<1>1. /\ published[m] = "no" /\ published' = [published EXCEPT ![m] = "yes"]
      /\ io' = IF SequenceOf[m] = NULL THEN Idle ELSE [stage |-> "create", machine |-> m]
      /\ life[m] # "new" /\ UNCHANGED <<life, tight, calls, h_late>>
  BY DEF Publish
<1>2. TieType'
  BY <1>1 DEF TieInv, TieType
<1>3. Single(m)
  BY <1>1 DEF TieInv, PairInv, SingleInv
<1>4. \A n \in Machines : n # m => published'[n] = published[n]
  BY <1>1 DEF TieInv, TieType
<1>5. io'.stage \notin {"attach", "tie"} /\ (io'.stage = "create" => io'.machine = m)
  BY <1>1 DEF Idle
<1>6. SingleInv'
  <2>1. \A n \in Machines : life'[n] = "new" => Single(n)'
    BY <1>1, TiesUntouched DEF TieInv, PairInv, SingleInv
  <2>2. \A n \in Machines \ Sequences_ : published'[n] = "no" => Single(n)'
    BY <1>1, <1>3, <1>4, TiesUntouched DEF TieInv, PairInv, SingleInv
  <2>3. \A n \in Machines : published'[n] = "yes" => life'[n] # "new"
    BY <1>1, <1>4 DEF TieInv, PairInv, SingleInv
  <2> QED BY <1>1, <1>3, <1>5, <2>1, <2>2, <2>3, TiesUntouched DEF SingleInv, Building
<1>7. CallsInv'
  BY <1>1, TiesUntouched DEF TieInv, CallsInv
<1> QED BY <1>1, <1>2, <1>6, <1>7, TiesUntouched DEF TieInv, PairInv

LEMMA UnpublishTie ==
  ASSUME TieInv, NEW m \in Machines, Unpublish(m)
  PROVE  TieInv'
<1>1. /\ io = Idle /\ published[m] = "yes" /\ published' = [published EXCEPT ![m] = "gone"]
      /\ UNCHANGED <<life, io, tight, calls, h_late>>
  BY DEF Unpublish
<1>2. TieType'
  BY <1>1 DEF TieInv, TieType
<1>3. \A n \in Machines : /\ published'[n] = "no" => published[n] = "no"
                          /\ published'[n] = "yes" => published[n] = "yes"
  BY <1>1 DEF TieInv, TieType
<1>4. SingleInv'
  BY <1>1, <1>3, TiesUntouched DEF TieInv, PairInv, SingleInv, Building
<1>5. CallsInv'
  BY <1>1, TiesUntouched DEF TieInv, CallsInv
<1> QED BY <1>1, <1>2, <1>4, <1>5, TiesUntouched DEF TieInv, PairInv

(* A machine that is single comes to life.                                 *)
LEMMA BornTie ==
  ASSUME TieInv, NEW m \in Machines, life[m] = "new", calls = <<>>, calls' = calls,
         life' = [life EXCEPT ![m] = "live"], UNCHANGED <<tight, h_late>>
  PROVE  /\ \A n : Single(n)' = Single(n)
         /\ CallsInv' /\ Paired' /\ LateInv'
         /\ Single(m) /\ life'[m] = "live" /\ \A n \in Machines : n # m => life'[n] = life[n]
         /\ life' \in [Machines -> {"new", "live", "dead"}]
<1>1. Single(m)
  BY DEF TieInv, PairInv, SingleInv
<1>2. \A n : Single(n)' = Single(n)
  BY DEF Single
<1>3. /\ life'[m] = "live" /\ \A n \in Machines : n # m => life'[n] = life[n]
      /\ life' \in [Machines -> {"new", "live", "dead"}]
  BY DEF TieInv, TieType
<1>4. \A n \in Machines : Mutual(n)
  BY DEF TieInv, CallsInv
<1>5. \A n \in Machines : tight[n] \subseteq Machines /\ m \notin tight[n]
  BY <1>1 DEF Single, TieInv, TieType
<1>6. \A n \in Machines : Mutual(n)'
  BY <1>1, <1>3, <1>4, <1>5 DEF Mutual, Single
<1>7. CallsInv'
  BY <1>6 DEF CallsInv
<1>8. Paired'
  BY DEF TieInv, PairInv, Paired
<1>9. LateInv'
  BY <1>3, <1>5 DEF TieInv, PairInv, LateInv
<1> QED BY <1>1, <1>2, <1>3, <1>7, <1>8, <1>9

LEMMA RegisterTie ==
  ASSUME TieInv, NEW m \in Machines, RegisterMachine(m)
  PROVE  TieInv'
<1>1. /\ life[m] = "new" /\ calls = <<>> /\ calls' = calls /\ UNCHANGED <<tight, h_late>>
      /\ life' = [life EXCEPT ![m] = "live"] /\ io' = io /\ published' = published
  BY DEF RegisterMachine, Quiet
<1>2. /\ \A n : Single(n)' = Single(n)
      /\ CallsInv' /\ Paired' /\ LateInv'
      /\ Single(m) /\ life'[m] = "live" /\ \A n \in Machines : n # m => life'[n] = life[n]
      /\ life' \in [Machines -> {"new", "live", "dead"}]
  BY <1>1, BornTie
<1>3. TieType'
  BY <1>1, <1>2 DEF TieInv, TieType
<1>4. io.stage \in {"attach", "tie"} => SequenceOf[io.machine] \in Machines
  BY BuildingView DEF TieInv, Building
<1>5. \A n \in Machines : life'[n] = "new" => life[n] = "new"
  BY <1>2
<1>6. SingleInv'
  BY <1>1, <1>2, <1>4, <1>5 DEF TieInv, PairInv, SingleInv, Building
<1> QED BY <1>2, <1>3, <1>6 DEF TieInv, PairInv

LEMMA CreateTie ==
  ASSUME TieInv, NEW m \in Machines \ Sequences_, CreateSequence(m)
  PROVE  TieInv'
<1>1. PICK q : q = SequenceOf[m]
  OBVIOUS
<1>2. /\ life[q] = "new" /\ calls = <<>> /\ calls' = calls /\ UNCHANGED <<tight, h_late>>
      /\ life' = [life EXCEPT ![q] = "live"] /\ published' = published
      /\ io = [stage |-> "create", machine |-> m] /\ io' = [io EXCEPT !.stage = "attach"]
  BY <1>1 DEF CreateSequence, Quiet
<1>3. io' = [stage |-> "attach", machine |-> m]
  BY <1>2
<1>4. /\ q \in Machines /\ q \in Sequences_ /\ published[m] = "yes" /\ SequenceOf[m] # NULL
      /\ io.machine = m /\ io.stage = "create"
  BY <1>1, <1>2, IoView DEF TieInv
<1>5. /\ \A n : Single(n)' = Single(n)
      /\ CallsInv' /\ Paired' /\ LateInv'
      /\ Single(q) /\ life'[q] = "live" /\ \A n \in Machines : n # q => life'[n] = life[n]
      /\ life' \in [Machines -> {"new", "live", "dead"}]
  BY <1>2, <1>4, BornTie
<1>6. TieType'
  BY <1>2, <1>3, <1>4, <1>5 DEF TieInv, TieType
<1>7. io'.machine = m /\ io'.stage = "attach" /\ Single(m)
  BY <1>2, <1>3, <1>4 DEF TieInv, PairInv, SingleInv, Building
<1>8. SingleInv'
  <2>1. \A n \in Machines : life'[n] = "new" => Single(n)'
    BY <1>5 DEF TieInv, PairInv, SingleInv
  <2>2. \A n \in Machines \ Sequences_ : published'[n] = "no" => Single(n)'
    BY <1>2, <1>5 DEF TieInv, PairInv, SingleInv
  <2>3. \A n \in Machines : published'[n] = "yes" => life'[n] # "new"
    BY <1>2, <1>5 DEF TieInv, PairInv, SingleInv
  <2>4. Single(io.machine)'
    BY <1>5, <1>7
  <2>5. Single(SequenceOf[io.machine])' /\ life'[SequenceOf[io'.machine]] # "new"
    BY <1>1, <1>5, <1>7
  <2> QED BY <2>1, <2>2, <2>3, <2>4, <2>5 DEF SingleInv
<1> QED BY <1>5, <1>6, <1>8 DEF TieInv, PairInv

(* The Sequence has been attached; of the ties only io changes.            *)
LEMMA AttachSequenceTie ==
  ASSUME TieInv, NEW m \in Machines, AttachSequence(m)
  PROVE  TieInv'
<1>1. /\ io = [stage |-> "attach", machine |-> m] /\ io' = [io EXCEPT !.stage = "tie"]
      /\ UNCHANGED <<life, published, tight, calls, h_late>>
  BY DEF AttachSequence, Attach
<1>2. io' = [stage |-> "tie", machine |-> m]
  BY <1>1
<1>3. /\ io.machine = m /\ io.stage = "attach" /\ published[m] = "yes"
      /\ m \in Machines \ Sequences_ /\ SequenceOf[m] # NULL
  BY <1>1, IoView DEF TieInv
<1>4. TieType'
  BY <1>1, <1>2, <1>3 DEF TieInv, TieType
<1>5. io'.machine = io.machine /\ io'.stage = "tie"
  BY <1>2, <1>3
<1>6. SingleInv'
  BY <1>1, <1>3, <1>5, TiesUntouched DEF TieInv, PairInv, SingleInv, Building
<1>7. CallsInv'
  BY <1>1, TiesUntouched DEF TieInv, CallsInv
<1> QED BY <1>1, <1>4, <1>6, <1>7, TiesUntouched DEF TieInv, PairInv

(* A teardown begins.                                                      *)
LEMMA BeginTie ==
  ASSUME TieInv, NEW m \in Machines, calls = <<>>, calls' = <<Enter(m)>>,
         io' \in {Idle, Ended, io}, UNCHANGED <<life, published, tight, h_late>>
  PROVE  TieInv'
<1>1. TieType'
  BY DEF TieInv, TieType
<1>2. io' = io \/ (~Building' /\ io'.stage \notin {"attach", "tie"})
  BY DEF Building, Idle, Ended
<1>3. SingleInv'
  BY <1>2, TiesUntouched DEF TieInv, PairInv, SingleInv, Building
<1>4. CallsInv'
  <2>1. \A o \in Machines : Mutual(o)
    BY DEF TieInv, CallsInv
  <2> QED BY <2>1, TiesUntouched DEF CallsInv
<1> QED BY <1>1, <1>3, <1>4, TiesUntouched DEF TieInv, PairInv

LEMMA AttachFailsTie ==
  ASSUME TieInv, NEW m \in Machines, AttachSequenceFails(m)
  PROVE  TieInv'
<1>1. /\ io' \in {Idle, Ended} /\ calls = <<>>
      /\ calls' = <<Enter(m)>> /\ UNCHANGED <<life, published, tight, h_late>>
  BY DEF AttachSequenceFails, Quiet, Enter
<1> QED BY <1>1, BeginTie

LEMMA DisconnectTie ==
  ASSUME TieInv, NEW m \in Machines, DisconnectAndDestroy(m)
  PROVE  TieInv'
<1>1. /\ io' = io /\ calls = <<>>
      /\ calls' = <<Enter(m)>> /\ UNCHANGED <<life, published, tight, h_late>>
  BY DEF DisconnectAndDestroy, Quiet, Enter
<1> QED BY <1>1, BeginTie

LEMMA ConnectTie ==
  ASSUME TieInv, NEW m \in Machines, TightlyConnect(m)
  PROVE  TieInv'
<1>1. PICK q : q = SequenceOf[m]
  OBVIOUS
<1>2. /\ calls = <<>> /\ calls' = calls /\ io = [stage |-> "tie", machine |-> m] /\ io' = Idle
      /\ UNCHANGED <<life, published>>
      /\ tight' = [tight EXCEPT ![q] = @ \cup {m}, ![m] = @ \cup {q}]
      /\ h_late' = IF life[m] = "live" /\ life[q] = "live" THEN h_late ELSE h_late \cup {m, q}
  BY <1>1 DEF TightlyConnect, Quiet
<1>3. /\ q \in Machines /\ q \in Sequences_ /\ q # m /\ m \notin Sequences_ /\ published[m] = "yes"
      /\ io.machine = m /\ io.stage = "tie"
  BY <1>1, <1>2, IoView DEF TieInv
<1>4. Single(m) /\ Single(q) /\ life[q] # "new" /\ life[m] # "new"
  BY <1>1, <1>3 DEF TieInv, PairInv, SingleInv, Building
<1>5. /\ tight' \in [Machines -> SUBSET Machines]
      /\ tight'[m] = {q} /\ tight'[q] = {m}
      /\ \A o \in Machines : o # m /\ o # q => tight'[o] = tight[o]
  BY <1>2, <1>3, <1>4 DEF TieInv, TieType, Single
<1>6. \A n, o \in Machines : o \in tight[n] => n # m /\ n # q /\ o # m /\ o # q
  BY <1>4 DEF Single
<1>7. /\ h_late' \subseteq Machines
      /\ \A n \in Machines : n # m /\ n # q => (n \in h_late' <=> n \in h_late)
      /\ \/ m \in h_late' /\ q \in h_late'
         \/ life[m] = "live" /\ life[q] = "live" /\ m \notin h_late' /\ q \notin h_late'
  BY <1>2, <1>3, <1>4 DEF TieInv, PairInv, LateInv, Single
<1>11. \A o \in Machines : o # m /\ o # q /\ Single(o) => Single(o)'
  BY <1>3, <1>5, <1>7 DEF Single
<1>8. TieType'
  BY <1>2, <1>5 DEF TieInv, TieType
<1>9. Paired'
  BY <1>3, <1>5, <1>6 DEF TieInv, PairInv, Paired, TieType
<1>10. SingleInv'
  <2>1. io'.stage \notin {"attach", "tie"} /\ ~Building'
    BY <1>2 DEF Idle, Building
  <2>2. \A n \in Machines : life'[n] = "new" => Single(n)'
    BY <1>2, <1>4, <1>11 DEF TieInv, PairInv, SingleInv
  <2>3. \A n \in Machines \ Sequences_ : published'[n] = "no" => Single(n)'
    BY <1>2, <1>3, <1>11 DEF TieInv, PairInv, SingleInv
  <2>4. \A n \in Machines : published'[n] = "yes" => life'[n] # "new"
    BY <1>2 DEF TieInv, PairInv, SingleInv
  <2> QED BY <2>1, <2>2, <2>3, <2>4 DEF SingleInv
<1>13. LateInv'
  <2>1. \A n, o \in Machines : o \in tight'[n] => (n \in h_late' <=> o \in h_late')
    BY <1>3, <1>5, <1>6, <1>7 DEF TieInv, PairInv, LateInv
  <2>2. \A n \in Machines \ h_late' : life'[n] = "dead" => \A o \in tight'[n] : life'[o] = "dead"
    BY <1>2, <1>3, <1>5, <1>7 DEF TieInv, PairInv, LateInv
  <2> QED BY <1>7, <2>1, <2>2 DEF LateInv
<1>14. CallsInv'
  <2>1. \A o \in Machines : Mutual(o)
    BY <1>2 DEF TieInv, CallsInv
  <2>2. \A o \in Machines : Mutual(o)'
    BY <1>2, <1>3, <1>5, <1>6, <1>7, <2>1 DEF Mutual, TieInv, TieType
  <2> QED BY <1>2, <2>2 DEF CallsInv
<1> QED BY <1>8, <1>9, <1>10, <1>13, <1>14 DEF TieInv, PairInv

(* The loop over one tied machine, or none.                                *)
LEMMA OneInOrder ==
  ASSUME NEW q
  PROVE  /\ Cardinality({q}) = 1 /\ Cardinality({}) = 0
         /\ q \in Nat => InMapOrder({q}) = <<q>>
<1>1. Cardinality({q}) = 1 /\ Cardinality({}) = 0
  BY FS_Singleton, FS_EmptySet
<1>2. ASSUME q \in Nat PROVE InMapOrder({q}) = <<q>>
  <2>1. PICK f : f = InMapOrder({q})
    OBVIOUS
  <2>2. \E g \in [1..1 -> {q}] : \A j, k \in 1..1 : j < k => g[j] < g[k]
    <3>1. [i \in 1..1 |-> q] \in [1..1 -> {q}]
      OBVIOUS
    <3>2. \A j, k \in 1..1 : ~(j < k)
      OBVIOUS
    <3> QED BY <3>1, <3>2
  <2>3. f \in [1..1 -> {q}]
    BY <1>1, <2>1, <2>2 DEF InMapOrder
  <2>4. f = [i \in 1..1 |-> q]
    BY <2>3
  <2>5. [i \in 1..1 |-> q] = <<q>>
    OBVIOUS
  <2> QED BY <2>1, <2>4, <2>5
<1> QED BY <1>1, <1>2

LEMMA TwoCalls ==
  ASSUME NEW a, NEW b
  PROVE  <<a>> \o <<b>> = <<a, b>>
<1>1. PICK S : S = {a, b}
  OBVIOUS
<1>2. PICK u : u = <<a>>
  OBVIOUS
<1>3. u \in Seq(S) /\ b \in S
  BY <1>1, <1>2
<1>4. Append(u, b) = u \o <<b>>
  BY <1>3, AppendIsConcat
<1>5. PICK w, x : w = Append(u, b) /\ x = <<a, b>>
  OBVIOUS
<1>6. w \in Seq(S) /\ Len(w) = 2 /\ w[1] = a /\ w[2] = b
  BY <1>2, <1>3, <1>5
<1>7. x \in Seq(S) /\ Len(x) = 2 /\ x[1] = a /\ x[2] = b
  BY <1>1, <1>5
<1>8. w = x
  BY <1>6, <1>7, SeqEqual
<1> QED BY <1>2, <1>4, <1>5, <1>8

(* The calls that the teardown of a machine starts.                        *)
LEMMA EnterCalls ==
  ASSUME TieInv, EnterDestroy, NEW m, m = Head(calls).machine, NEW rest, rest = Tail(calls),
         tight[m] \subseteq Nat
  PROVE  /\ tight[m] = {} => calls' = <<Leave(m)>> \o rest
         /\ \A q : tight[m] = {q} => calls' = <<Enter(q), Leave(m)>> \o rest
<1>1. calls' = [k \in 1..Cardinality(tight[m]) |-> Enter(InMapOrder(tight[m])[k])]
                 \o <<Leave(m)>> \o rest
  BY DEF EnterDestroy, Enter, Leave
<1>2. ASSUME tight[m] = {} PROVE calls' = <<Leave(m)>> \o rest
  <2>1. PICK c \in Nat : c = Cardinality(tight[m]) /\ c = 0
    BY <1>2, OneInOrder
  <2>2. PICK f : f = [k \in 1..c |-> Enter(InMapOrder(tight[m])[k])]
    OBVIOUS
  <2>3. f = <<>>
    <3>1. 1..c = {}
      BY <2>1
    <3> QED BY <2>2, <3>1
  <2>4. PICK b : b = Leave(m)
    OBVIOUS
  <2>5. <<>> \o <<b>> = <<b>>
    OBVIOUS
  <2> QED BY <1>1, <2>1, <2>2, <2>3, <2>4, <2>5
<1>3. ASSUME NEW q, tight[m] = {q} PROVE calls' = <<Enter(q), Leave(m)>> \o rest
  <2>1. Cardinality(tight[m]) = 1 /\ InMapOrder(tight[m]) = <<q>>
    BY <1>3, OneInOrder
  <2>2. PICK f : f = [k \in 1..Cardinality(tight[m]) |-> Enter(InMapOrder(tight[m])[k])]
    OBVIOUS
  <2>3. f = <<Enter(q)>>
    BY <2>1, <2>2
  <2>4. PICK a, b : a = Enter(q) /\ b = Leave(m)
    OBVIOUS
  <2>5. <<a>> \o <<b>> = <<a, b>>
    BY TwoCalls
  <2> QED BY <1>1, <2>2, <2>3, <2>4, <2>5
<1> QED BY <1>2, <1>3

(* A teardown only takes ties away: what is single stays so.               *)
LEMMA UntieView ==
  ASSUME TieType, NEW m \in Machines, tight' = Untie(m), h_late' = h_late
  PROVE  /\ tight' \in [Machines -> SUBSET Machines]
         /\ \A o \in Machines : tight'[o] \subseteq tight[o]
         /\ \A o \in Machines : o \notin tight[m] => tight'[o] = tight[o]
         /\ \A o \in tight[m] : tight'[o] = tight[o] \ {m}
         /\ \A o \in Machines : Single(o) => Single(o)'
<1>1. /\ tight' \in [Machines -> SUBSET Machines]
      /\ \A o \in Machines : tight'[o] \subseteq tight[o]
      /\ \A o \in Machines : o \notin tight[m] => tight'[o] = tight[o]
      /\ \A o \in tight[m] : tight'[o] = tight[o] \ {m}
  BY DEF Untie, TieType
<1> QED BY <1>1 DEF Single

(* EnterDestroy leaves PairInv alone.                                      *)
LEMMA EnterPair ==
  ASSUME TieType, PairInv, NEW m \in Machines, tight' = Untie(m),
         UNCHANGED <<life, published, io, h_late>>
  PROVE  TieType' /\ PairInv'
<1>1. /\ tight' \in [Machines -> SUBSET Machines]
      /\ \A o \in Machines : tight'[o] \subseteq tight[o]
      /\ \A o \in Machines : Single(o) => Single(o)'
  BY UntieView
<1>2. TieType'
  BY <1>1 DEF TieType
<1>3. Paired'
  BY <1>1 DEF PairInv, Paired
<1>4. LateInv'
  BY <1>1 DEF PairInv, LateInv
<1>5. Building => io.machine \in Machines
  BY BuildingView
<1>6. io.stage \in {"attach", "tie"} => SequenceOf[io.machine] \in Machines
  BY BuildingView DEF Building
<1>7. SingleInv'
  BY <1>1, <1>5, <1>6 DEF PairInv, SingleInv, Building
<1> QED BY <1>2, <1>3, <1>4, <1>7 DEF PairInv

(* m is tied to q: the two are torn down together.                         *)
LEMMA EnterPairTie ==
  ASSUME TieType, PairInv, NEW m \in Machines, NEW q \in tight[m],
         \A o \in Machines : Mutual(o), tight' = Untie(m), UNCHANGED <<life, h_late>>
  PROVE  q \in Machines /\ tight[m] = {q} /\ Widowed(m, q)'
<1>1. /\ q \in Machines /\ m # q /\ tight[m] = {q} /\ tight[q] \subseteq {m}
      /\ \A n \in Machines : q \in tight[n] => n = m
  BY DEF TieType, PairInv, Paired
<1>2. tight'[m] = {q} /\ tight'[q] = {} /\ \A o \in Machines : o # q => tight'[o] = tight[o]
  BY <1>1, UntieView
<1>3. ASSUME NEW o \in Machines, o # m PROVE Mutual(o)'
  <2>1. CASE o = q
    BY <1>2, <2>1 DEF Mutual
  <2>2. CASE o # q
    <3>1. tight'[o] = tight[o] /\ q \notin tight[o]
      BY <1>1, <1>2, <1>3, <2>2
    <3>2. \A p \in tight[o] : p \in Machines /\ tight'[p] = tight[p]
      BY <1>2, <3>1 DEF TieType
    <3> QED BY <3>1, <3>2 DEF Mutual
  <2> QED BY <2>1, <2>2
<1>4. m \notin h_late /\ life[m] = "live" => life[q] = "live"
  BY DEF Mutual
<1> QED BY <1>1, <1>2, <1>3, <1>4 DEF Widowed

(* The first call of each form of the stack, and what is under it.         *)
LEMMA StackView ==
  ASSUME NEW m, NEW q
  PROVE  /\ Head(<<Enter(m)>>) = Enter(m) /\ Tail(<<Enter(m)>>) = <<>>
         /\ Head(<<Leave(m)>>) = Leave(m) /\ Tail(<<Leave(m)>>) = <<>>
         /\ Head(<<Enter(q), Leave(m)>>) = Enter(q) /\ Tail(<<Enter(q), Leave(m)>>) = <<Leave(m)>>
         /\ Head(<<Leave(q), Leave(m)>>) = Leave(q) /\ Tail(<<Leave(q), Leave(m)>>) = <<Leave(m)>>
         /\ Enter(m).enter = TRUE /\ Enter(m).machine = m
         /\ Leave(m).enter = FALSE /\ Leave(m).machine = m
<1>1. /\ Enter(m).enter = TRUE /\ Enter(m).machine = m
      /\ Leave(m).enter = FALSE /\ Leave(m).machine = m
  BY DEF Enter, Leave
<1>2. PICK a, b, c : a = Enter(q) /\ b = Leave(m) /\ c = Leave(q)
  OBVIOUS
<1>3. /\ Head(<<a, b>>) = a /\ Tail(<<a, b>>) = <<b>>
      /\ Head(<<c, b>>) = c /\ Tail(<<c, b>>) = <<b>>
  OBVIOUS
<1>4. PICK e, l : e = Enter(m) /\ l = Leave(m)
  OBVIOUS
<1>5. Head(<<e>>) = e /\ Tail(<<e>>) = <<>> /\ Head(<<l>>) = l /\ Tail(<<l>>) = <<>>
  OBVIOUS
<1> QED BY <1>1, <1>2, <1>3, <1>4, <1>5

(* A call stack that begins with a teardown not started.                   *)
LEMMA EnterForm ==
  ASSUME CallsInv, calls # <<>>, Head(calls).enter
  PROVE  \/ \E m \in Machines : calls = <<Enter(m)>> /\ \A o \in Machines : Mutual(o)
         \/ \E m, q \in Machines : calls = <<Enter(q), Leave(m)>> /\ Widowed(m, q)
<1>1. ASSUME NEW m, calls = <<Leave(m)>> PROVE FALSE
  <2>1. Head(calls) = Leave(m) /\ Leave(m).enter = FALSE
    BY <1>1, StackView
  <2> QED BY <2>1
<1>2. ASSUME NEW m, NEW q, calls = <<Leave(q), Leave(m)>> PROVE FALSE
  <2>1. Head(<<Leave(q), Leave(m)>>) = Leave(q)
    BY StackView
  <2>2. Leave(q).enter = FALSE
    BY StackView
  <2> QED BY <1>2, <2>1, <2>2
<1> QED BY <1>1, <1>2 DEF CallsInv

(* EnterDestroy of the first machine.                                      *)
LEMMA EnterFirstTie ==
  ASSUME TieInv, EnterDestroy, NEW m \in Machines, calls = <<Enter(m)>>,
         \A o \in Machines : Mutual(o)
  PROVE  TieInv'
<1>1. m = Head(calls).machine /\ Tail(calls) = <<>>
  BY StackView
<1>2. tight' = Untie(m) /\ UNCHANGED <<life, published, io, h_late>>
  BY <1>1 DEF EnterDestroy
<1>3. tight[m] \subseteq Machines /\ tight[m] \subseteq Nat
  BY GraphAssumption DEF TieInv, TieType
<1>4. TieType' /\ PairInv'
  BY <1>2, EnterPair DEF TieInv
<1>5. CASE tight[m] = {}
  <2>1. calls' = <<Leave(m)>>
    <3>1. calls' = <<Leave(m)>> \o <<>>
      BY <1>1, <1>3, <1>5, EnterCalls
    <3>2. PICK b : b = Leave(m)
      OBVIOUS
    <3>3. <<b>> \o <<>> = <<b>>
      OBVIOUS
    <3> QED BY <3>1, <3>2, <3>3
  <2>2. ASSUME m \notin h_late, life[m] = "live", NEW o \in Machines, m \in tight[o]
        PROVE  FALSE
    <3>1. o \notin h_late
      BY <2>2 DEF TieInv, PairInv, LateInv
    <3>2. life[o] # "dead" /\ life[o] # "new"
      BY <2>2, <3>1 DEF TieInv, PairInv, LateInv, SingleInv, Single
    <3>3. life[o] = "live"
      BY <3>2 DEF TieInv, TieType
    <3> QED BY <1>5, <2>2, <3>1, <3>3 DEF Mutual
  <2>3. LastOne(m)
    BY <1>5, <2>2 DEF LastOne
  <2>4. tight' = tight
    BY <1>2, <1>5 DEF Untie, TieInv, TieType
  <2>5. LastOne(m)'
    BY <1>2, <2>3, <2>4, TiesUntouched
  <2>6. CallsInv'
    BY <2>1, <2>5 DEF CallsInv
  <2> QED BY <1>4, <2>6 DEF TieInv
<1>6. CASE tight[m] # {}
  <2>1. PICK q \in tight[m] : TRUE
    BY <1>6
  <2>2. q \in Machines /\ tight[m] = {q} /\ Widowed(m, q)'
    BY <1>2, EnterPairTie DEF TieInv
  <2>3. calls' = <<Enter(q), Leave(m)>>
    <3>1. calls' = <<Enter(q), Leave(m)>> \o <<>>
      BY <1>1, <1>3, <2>2, EnterCalls
    <3>2. PICK a, b : a = Enter(q) /\ b = Leave(m)
      OBVIOUS
    <3>3. <<a, b>> \o <<>> = <<a, b>>
      OBVIOUS
    <3> QED BY <3>1, <3>2, <3>3
  <2>4. CallsInv'
    BY <2>2, <2>3 DEF CallsInv
  <2> QED BY <1>4, <2>4 DEF TieInv
<1> QED BY <1>5, <1>6

(* EnterDestroy of the machine tied to the first.                          *)
LEMMA EnterSecondTie ==
  ASSUME TieInv, EnterDestroy, NEW m \in Machines, NEW q \in Machines,
         calls = <<Enter(q), Leave(m)>>, Widowed(m, q)
  PROVE  TieInv'
<1>1. q = Head(calls).machine /\ Tail(calls) = <<Leave(m)>>
  <2>1. Head(calls) = Enter(q) /\ Tail(calls) = <<Leave(m)>> /\ Enter(q).machine = q
    BY StackView
  <2> QED BY <2>1
<1>2. tight' = Untie(q) /\ UNCHANGED <<life, published, io, h_late>>
  BY <1>1 DEF EnterDestroy
<1>3. tight[q] = {}
  BY DEF Widowed
<1>4. calls' = <<Leave(q), Leave(m)>>
  <2>1. tight[q] \subseteq Nat
    BY <1>3
  <2>2. calls' = <<Leave(q)>> \o <<Leave(m)>>
    BY <1>1, <1>3, <2>1, EnterCalls
  <2> QED BY <2>2, TwoCalls
<1>5. TieType' /\ PairInv'
  BY <1>2, EnterPair DEF TieInv
<1>6. tight' = tight
  BY <1>2, <1>3 DEF Untie, TieInv, TieType
<1>7. Widowed(m, q)'
  BY <1>2, <1>6, TiesUntouched
<1>8. CallsInv'
  BY <1>4, <1>7 DEF CallsInv
<1> QED BY <1>5, <1>8 DEF TieInv

LEMMA EnterTie ==
  ASSUME TieInv, EnterDestroy
  PROVE  TieInv'
<1>1. calls # <<>> /\ Head(calls).enter
  BY DEF EnterDestroy
<1> QED BY <1>1, EnterForm, EnterFirstTie, EnterSecondTie DEF TieInv

(* A machine that is not tied to a live one is deregistered.               *)
LEMMA DieView ==
  ASSUME TieType, PairInv, NEW m \in Machines, life[m] = "live",
         life' = [life EXCEPT ![m] = "dead"], UNCHANGED <<published, io, tight, h_late>>,
         m \notin h_late => \A o \in tight[m] : life[o] = "dead"
  PROVE  /\ TieType' /\ PairInv'
         /\ \A o \in Machines : Mutual(o) /\ m \notin tight[o] => Mutual(o)'
         /\ Mutual(m)' /\ life'[m] = "dead" /\ \A o \in Machines : o # m => life'[o] = life[o]
<1>1. /\ life' \in [Machines -> {"new", "live", "dead"}]
      /\ life'[m] = "dead" /\ \A o \in Machines : o # m => life'[o] = life[o]
  BY DEF TieType
<1>2. TieType'
  BY <1>1 DEF TieType
<1>3. (\A o : Single(o)' = Single(o)) /\ Paired'
  BY DEF Single, PairInv, Paired
<1>4. Building => SequenceOf[io.machine] \in Machines
  BY BuildingView
<1>5. LateInv'
  BY <1>1 DEF PairInv, LateInv, TieType
<1>6. SingleInv'
  BY <1>1, <1>3, <1>4 DEF PairInv, SingleInv, Building
<1>7. \A o \in Machines : Mutual(o) /\ m \notin tight[o] => Mutual(o)'
  BY <1>1 DEF Mutual, TieType
<1>8. Mutual(m)'
  BY <1>1 DEF Mutual
<1> QED BY <1>1, <1>2, <1>3, <1>5, <1>6, <1>7, <1>8 DEF PairInv

(* What LeaveDestroy does with the machine m on top of the calls.          *)
LEMMA LeaveView ==
  ASSUME LeaveDestroy, NEW m, Head(calls) = Leave(m)
  PROVE  /\ life[m] = "live" => /\ life' = [life EXCEPT ![m] = "dead"]
                                /\ calls' = Tail(calls)
         /\ life[m] # "live" => life' = life /\ calls' = <<>>
         /\ UNCHANGED <<published, io, tight, h_late>>
<1>1. m = Head(calls).machine
  BY StackView
<1> QED BY <1>1 DEF LeaveDestroy

(* A machine that is not in machine_set: the exception ends the teardown.  *)
LEMMA LeaveThrowsTie ==
  ASSUME TieInv, LeaveDestroy, NEW m \in Machines, Head(calls) = Leave(m),
         life[m] # "live", \A o \in Machines : Mutual(o)
  PROVE  TieInv'
<1>1. calls' = <<>> /\ UNCHANGED <<life, published, io, tight, h_late>>
  BY LeaveView
<1>2. TieType'
  BY <1>1 DEF TieInv, TieType
<1>3. PairInv'
  BY <1>1, TiesUntouched DEF TieInv, PairInv, SingleInv, Building
<1>4. CallsInv'
  BY <1>1, TiesUntouched DEF CallsInv
<1> QED BY <1>2, <1>3, <1>4 DEF TieInv

(* The machine on its own, or the first of two once the other is gone.     *)
LEMMA LeaveLastTie ==
  ASSUME TieInv, LeaveDestroy, NEW m \in Machines, calls = <<Leave(m)>>, LastOne(m)
  PROVE  TieInv'
<1>1. Head(calls) = Leave(m) /\ Tail(calls) = <<>>
  BY StackView
<1>2. CASE life[m] = "live"
  <2>1. /\ life' = [life EXCEPT ![m] = "dead"] /\ calls' = <<>>
        /\ UNCHANGED <<published, io, tight, h_late>>
    BY <1>1, <1>2, LeaveView
  <2>2. /\ TieType' /\ PairInv' /\ Mutual(m)' /\ life'[m] = "dead"
        /\ \A o \in Machines : Mutual(o) /\ m \notin tight[o] => Mutual(o)'
    BY <1>2, <2>1, DieView DEF TieInv, LastOne
  <2>3. ASSUME NEW o \in Machines, o # m PROVE Mutual(o)'
    <3>1. CASE m \in tight[o] /\ m \in h_late
      <4>1. o \in h_late'
        BY <2>1, <3>1 DEF TieInv, PairInv, LateInv
      <4> QED BY <4>1 DEF Mutual
    <3>2. CASE m \in tight[o] /\ m \notin h_late
      BY <1>2, <3>2 DEF LastOne
    <3>3. CASE m \notin tight[o]
      BY <2>2, <2>3, <3>3 DEF LastOne
    <3> QED BY <3>1, <3>2, <3>3
  <2>4. CallsInv'
    BY <2>1, <2>2, <2>3 DEF CallsInv
  <2> QED BY <2>2, <2>4 DEF TieInv
<1>3. CASE life[m] # "live"
  BY <1>1, <1>3, LeaveThrowsTie DEF LastOne, Mutual
<1> QED BY <1>2, <1>3

(* The second of two.                                                      *)
LEMMA LeaveSecondTie ==
  ASSUME TieInv, LeaveDestroy, NEW m \in Machines, NEW q \in Machines,
         calls = <<Leave(q), Leave(m)>>, Widowed(m, q)
  PROVE  TieInv'
<1>1. Head(calls) = Leave(q) /\ Tail(calls) = <<Leave(m)>>
  BY StackView
<1>2. m # q /\ tight[m] = {q} /\ tight[q] = {}
  BY DEF Widowed
<1>3. CASE life[q] = "live"
  <2>1. /\ life' = [life EXCEPT ![q] = "dead"] /\ calls' = <<Leave(m)>>
        /\ UNCHANGED <<published, io, tight, h_late>>
    BY <1>1, <1>3, LeaveView
  <2>2. /\ TieType' /\ PairInv' /\ life'[q] = "dead"
        /\ \A o \in Machines : Mutual(o) /\ q \notin tight[o] => Mutual(o)'
    BY <1>2, <1>3, <2>1, DieView DEF TieInv
  <2>3. \A o \in Machines : o # m => q \notin tight[o] /\ m \notin tight[o]
    BY <1>2 DEF TieInv, PairInv, Paired
  <2>4. m \notin tight[m]
    BY <1>2
  <2>5. LastOne(m)'
    BY <1>2, <2>1, <2>2, <2>3, <2>4 DEF Widowed, LastOne
  <2>6. CallsInv'
    BY <2>1, <2>5 DEF CallsInv
  <2> QED BY <2>2, <2>6 DEF TieInv
<1>4. CASE life[q] # "live"
  <2>1. \A o \in Machines : Mutual(o)
    BY <1>4 DEF Widowed, Mutual
  <2> QED BY <1>1, <1>4, <2>1, LeaveThrowsTie
<1> QED BY <1>3, <1>4

LEMMA LeaveForm ==
  ASSUME CallsInv, calls # <<>>, ~Head(calls).enter
  PROVE  \/ \E m \in Machines : calls = <<Leave(m)>> /\ LastOne(m)
         \/ \E m, q \in Machines : calls = <<Leave(q), Leave(m)>> /\ Widowed(m, q)
<1>1. ASSUME NEW m, calls = <<Enter(m)>> PROVE FALSE
  <2>1. Head(calls) = Enter(m) /\ Enter(m).enter = TRUE
    BY <1>1, StackView
  <2> QED BY <2>1
<1>2. ASSUME NEW m, NEW q, calls = <<Enter(q), Leave(m)>> PROVE FALSE
  <2>1. Head(<<Enter(q), Leave(m)>>) = Enter(q)
    BY StackView
  <2>2. Enter(q).enter = TRUE
    BY StackView
  <2> QED BY <1>2, <2>1, <2>2
<1> QED BY <1>1, <1>2 DEF CallsInv

LEMMA LeaveTie ==
  ASSUME TieInv, LeaveDestroy
  PROVE  TieInv'
<1>1. calls # <<>> /\ ~Head(calls).enter
  BY DEF LeaveDestroy
<1> QED BY <1>1, LeaveForm, LeaveLastTie, LeaveSecondTie DEF TieInv

LEMMA NextTie == TieInv /\ [Next]_vars => TieInv'
<1> SUFFICES ASSUME TieInv, [Next]_vars
             PROVE  TieInv'
  OBVIOUS
<1>1. CASE UNCHANGED vars
  BY <1>1, TieUnchanged DEF vars
<1>2. ASSUME NEW m \in Machines \ Sequences_,
             \/ RegisterMachine(m) \/ Publish(m) \/ Unpublish(m)
             \/ CreateSequence(m) \/ AttachSequence(m) \/ AttachSequenceFails(m)
             \/ TightlyConnect(m)
      PROVE  TieInv'
  BY <1>2, RegisterTie, PublishTie, UnpublishTie, CreateTie, AttachSequenceTie,
     AttachFailsTie, ConnectTie
<1>3. ASSUME NEW T \in Machines, NEW s \in Signals, NEW i \in Inputs,
             AttachInput(T, s, i) \/ DetachInput(T, s, i)
      PROVE  TieInv'
  BY <1>3, TieUnchanged DEF AttachInput, DetachInput, Attach
<1>4. ASSUME NEW m \in Machines, DisconnectAndDestroy(m)
      PROVE  TieInv'
  BY <1>4, DisconnectTie
<1> QED BY <1>1, <1>2, <1>3, <1>4, EnterTie, LeaveTie DEF Next

(* The call stack never holds a machine twice.                             *)
LEMMA TieTogether == TieInv => TiedTogether
<1> SUFFICES ASSUME TieInv PROVE TiedTogether
  OBVIOUS
<1>1. ASSUME Quiet, NEW m \in Machines \ h_late, NEW o \in tight[m],
             life[m] = "live"
      PROVE  life[o] = "live" /\ m \in tight[o]
  BY <1>1 DEF TieInv, CallsInv, Quiet, Mutual
<1>2. ASSUME NEW j \in DOMAIN calls, NEW k \in DOMAIN calls, calls[j].machine = calls[k].machine
      PROVE  j = k
  <2>1. CASE \E m, q \in Machines :
               /\ calls \in {<<Enter(q), Leave(m)>>, <<Leave(q), Leave(m)>>}
               /\ Widowed(m, q)
    <3>1. PICK m, q : /\ calls \in {<<Enter(q), Leave(m)>>, <<Leave(q), Leave(m)>>}
                      /\ m # q
      BY <2>1 DEF Widowed
    <3>2. PICK a, b, c : a = Enter(q) /\ b = Leave(m) /\ c = Leave(q)
      OBVIOUS
    <3>3. a.machine = q /\ b.machine = m /\ c.machine = q
      BY <3>2, StackView
    <3>4. calls = <<a, b>> \/ calls = <<c, b>>
      BY <3>1, <3>2
    <3>5. DOMAIN calls = {1, 2} /\ calls[1].machine = q /\ calls[2].machine = m
      BY <3>3, <3>4
    <3> QED BY <1>2, <3>1, <3>5
  <2>2. CASE \E e : calls = <<e>>
    BY <2>2
  <2>3. CASE calls = <<>>
    BY <2>3
  <2> QED BY <2>1, <2>2, <2>3 DEF TieInv, CallsInv
<1> QED BY <1>1, <1>2 DEF TiedTogether

(* Machines that were both there when tightly_connect tied them live and   *)
(* die together, and the recursion of internal_disconnect_and_destroy      *)
(* visits each once: whatever the requests are, whichever thread destroys  *)
(* a machine and how often, also while the io thread builds its Sequence.  *)
THEOREM TiedTogetherAlways == Spec => []TiedTogether
<1>1. Spec => []TieInv
  BY InitTie, NextTie, PTL DEF Spec
<1> QED BY <1>1, TieTogether, PTL

-----------------------------------------------------------------------------
(* The render chain                                                        *)

Increasing(f, S, n) == f \in [1..n -> S] /\ \A j, k \in 1..n : j < k => f[j] < f[k]

(* A finite set of addresses can be listed in increasing order. The least  *)
(* size of a set that cannot is impossible: take out its least element.    *)
LEMMA OrderExists ==
  ASSUME NEW S, S \subseteq Nat, IsFiniteSet(S)
  PROVE  \E f : Increasing(f, S, Cardinality(S))
<1> DEFINE Good(n) == \A R \in SUBSET Nat :
                        IsFiniteSet(R) /\ Cardinality(R) = n => \E f : Increasing(f, R, n)
           Bad == {n \in Nat : ~Good(n)}
<1>1. Good(0)
  <2> SUFFICES ASSUME NEW R \in SUBSET Nat PROVE \E f : Increasing(f, R, 0)
    OBVIOUS
  <2>1. 1..0 = {}
    OBVIOUS
  <2>2. [i \in 1..0 |-> 0] \in [1..0 -> R]
    BY <2>1
  <2> QED BY <2>1, <2>2 DEF Increasing
<1>2. ASSUME NEW n \in Nat, Good(n) PROVE Good(n + 1)
  <2> SUFFICES ASSUME NEW R \in SUBSET Nat, IsFiniteSet(R), Cardinality(R) = n + 1
               PROVE  \E f : Increasing(f, R, n + 1)
    OBVIOUS
  <2>1. R # {}
    BY FS_EmptySet
  <2>2. PICK x \in R : \A y \in R : x =< y
    BY <2>1, MinIsMember
  <2>3. PICK Q : Q = R \ {x}
    OBVIOUS
  <2>4. Q \in SUBSET Nat /\ IsFiniteSet(Q) /\ Cardinality(Q) = n
    <3>1. IsFiniteSet(R \ {x}) /\ Cardinality(R \ {x}) = Cardinality(R) - 1
      BY FS_RemoveElement
    <3> QED BY <2>3, <3>1
  <2>5. PICK f : Increasing(f, Q, n)
    BY <1>2, <2>4
  <2>6. f \in [1..n -> Q] /\ \A j, k \in 1..n : j < k => f[j] < f[k]
    BY <2>5 DEF Increasing
  <2>7. PICK g : g = [k \in 1..(n + 1) |-> IF k = 1 THEN x ELSE f[k - 1]]
    OBVIOUS
  <2>8. ASSUME NEW k \in 1..(n + 1), k # 1
        PROVE  k - 1 \in 1..n /\ g[k] = f[k - 1] /\ g[k] \in R /\ g[k] \in Nat /\ x < g[k]
    <3>1. k - 1 \in 1..n
      BY <2>8
    <3>2. g[k] = f[k - 1] /\ f[k - 1] \in Q
      BY <2>6, <2>7, <2>8, <3>1
    <3>3. g[k] \in R /\ g[k] # x /\ g[k] \in Nat /\ x \in Nat
      BY <2>3, <3>2
    <3>4. x =< g[k]
      BY <2>2, <3>3
    <3> QED BY <3>1, <3>2, <3>3, <3>4
  <2>9. 1 \in 1..(n + 1) /\ g[1] = x
    BY <2>7
  <2>10. g \in [1..(n + 1) -> R]
    BY <2>7, <2>8, <2>9
  <2>11. ASSUME NEW j \in 1..(n + 1), NEW k \in 1..(n + 1), j < k PROVE g[j] < g[k]
    <3>1. k # 1
      BY <2>11
    <3>2. CASE j = 1
      BY <2>8, <2>9, <3>1, <3>2
    <3>3. CASE j # 1
      <4>1. g[j] = f[j - 1] /\ g[k] = f[k - 1] /\ j - 1 \in 1..n /\ k - 1 \in 1..n
        BY <2>8, <3>1, <3>3
      <4>2. j - 1 < k - 1
        BY <2>11
      <4> QED BY <2>6, <4>1, <4>2
    <3> QED BY <3>2, <3>3
  <2> QED BY <2>10, <2>11 DEF Increasing
<1> HIDE DEF Good
<1>3. Bad = {}
  <2> SUFFICES ASSUME Bad # {} PROVE FALSE
    OBVIOUS
  <2>1. PICK n \in Bad : \A y \in Bad : n =< y
    BY MinIsMember
  <2>2. n \in Nat /\ ~Good(n) /\ n # 0
    BY <1>1, <2>1
  <2>3. n - 1 \in Nat /\ n - 1 \notin Bad /\ (n - 1) + 1 = n
    BY <2>1, <2>2
  <2>4. Good(n - 1)
    BY <2>3
  <2> QED BY <1>2, <2>2, <2>3, <2>4
<1>4. Good(Cardinality(S))
  BY <1>3, FS_CardinalityType
<1> QED BY <1>4 DEF Good

(* The loop over a map meets each of its keys once.                        *)
LEMMA InMapOrderView ==
  ASSUME NEW S \in SUBSET Machines
  PROVE  /\ InMapOrder(S) \in Seq(Machines) /\ Len(InMapOrder(S)) = Cardinality(S)
         /\ Cardinality(S) \in Nat /\ Cardinality(S) =< Cardinality(Machines)
         /\ ToSet(InMapOrder(S)) = S
<1>1. /\ IsFiniteSet(S) /\ S \subseteq Nat /\ Cardinality(S) =< Cardinality(Machines)
      /\ Cardinality(S) \in Nat
  BY FS_Subset, FS_CardinalityType, GraphAssumption
<1>2. PICK n \in Nat : n = Cardinality(S)
  BY <1>1
<1>3. PICK q : q = InMapOrder(S)
  OBVIOUS
<1>4. q \in [1..n -> S] /\ \A j, k \in 1..n : j < k => q[j] < q[k]
  <2>1. \E f \in [1..n -> S] : \A j, k \in 1..n : j < k => f[j] < f[k]
    BY <1>1, <1>2, OrderExists DEF Increasing
  <2> QED BY <1>2, <1>3, <2>1 DEF InMapOrder
<1>5. ASSUME NEW j \in 1..n, NEW k \in 1..n, q[j] = q[k] PROVE j = k
  <2>1. q[j] \in Nat /\ q[k] \in Nat
    BY <1>1, <1>4
  <2>2. ~(q[j] < q[k]) /\ ~(q[k] < q[j])
    BY <1>5, <2>1
  <2>3. ~(j < k) /\ ~(k < j)
    BY <1>4, <2>2
  <2> QED BY <2>3
<1>6. q \in Injection(1..n, S)
  BY <1>4, <1>5 DEF Injection, IsInjective
<1>7. q \in Surjection(1..n, S)
  <2>1. Cardinality(1..n) = n
    BY FS_Interval
  <2> QED BY <1>1, <1>2, <1>6, <2>1, FS_Injection
<1>8. ToSet(q) = S
  BY <1>4, <1>7 DEF ToSet, Surjection
<1>9. q \in [1..n -> Machines]
  BY <1>4
<1>10. q \in Seq(Machines)
  BY <1>9, IntervalIsSeq
<1>11. Len(q) = n
  BY <1>9, <1>10, LenProperties
<1> QED BY <1>1, <1>2, <1>3, <1>8, <1>10, <1>11

(* The machines that m needs: m and what is found below it.                *)
Below(dep, m) == {x \in Machines : FindMachineInGraph(dep, m, x)}

LEMMA BelowFacts ==
  ASSUME NEW dep, NEW m \in Machines
  PROVE  /\ m \in Below(dep, m)
         /\ \A x \in Below(dep, m) : Dependencies(dep, x) \subseteq Below(dep, m)
         /\ \A R \in SUBSET Machines : m \in R /\ Closed(dep, R) => Below(dep, m) \subseteq R
  BY DEF Below, FindMachineInGraph, Closed, Dependencies

(* What push_to_render_chain keeps to while it runs from top, after n      *)
(* pushes. Each push that is left is paid for by an entry of todo or by a  *)
(* machine that is not in the chain yet.                                   *)
PushInv(r, dep, top, n) ==
  /\ r.chain \in Seq(Machines) /\ r.todo \in Seq(Machines)
  /\ IsInjective(r.chain)
  /\ ToSet(r.chain) \cup ToSet(r.todo) \subseteq Below(dep, top)
  /\ top \in ToSet(r.chain) \cup ToSet(r.todo)
  /\ \A m \in ToSet(r.chain) : Dependencies(dep, m) \subseteq ToSet(r.chain) \cup ToSet(r.todo)
  /\ \/ r.todo = <<>>
     \/ n + Len(r.todo) + Cardinality(Machines) * (Cardinality(Machines) - Cardinality(ToSet(r.chain)))
          =< MaxPushes

LEMMA ToSetConcat ==
  ASSUME NEW S, NEW s \in Seq(S), NEW t \in Seq(S)
  PROVE  s \o t \in Seq(S) /\ Len(s \o t) = Len(s) + Len(t) /\ ToSet(s \o t) = ToSet(s) \cup ToSet(t)
<1>1. PICK a \in Nat, b \in Nat : a = Len(s) /\ b = Len(t) /\ DOMAIN s = 1..a /\ DOMAIN t = 1..b
  OBVIOUS
<1>2. PICK u : u = s \o t
  OBVIOUS
<1>3. /\ u \in Seq(S) /\ Len(u) = a + b
      /\ \A k \in 1..(a + b) : u[k] = IF k <= a THEN s[k] ELSE t[k - a]
  BY <1>1, <1>2, ConcatProperties
<1>4. DOMAIN u = 1..(a + b)
  BY <1>3
<1>5. ASSUME NEW k \in 1..(a + b) PROVE u[k] \in ToSet(s) \cup ToSet(t)
  <2>1. CASE k =< a
    <3>1. k \in 1..a /\ u[k] = s[k]
      BY <1>3, <2>1
    <3> QED BY <1>1, <3>1 DEF ToSet
  <2>2. CASE ~(k =< a)
    <3>1. k - a \in 1..b /\ u[k] = t[k - a]
      BY <1>3, <2>2
    <3> QED BY <1>1, <3>1 DEF ToSet
  <2> QED BY <2>1, <2>2
<1>6. ASSUME NEW k \in 1..a PROVE s[k] \in ToSet(u)
  <2>1. k \in 1..(a + b) /\ u[k] = s[k]
    BY <1>3
  <2> QED BY <1>4, <2>1 DEF ToSet
<1>7. ASSUME NEW k \in 1..b PROVE t[k] \in ToSet(u)
  <2>1. k + a \in 1..(a + b) /\ ~(k + a <= a) /\ (k + a) - a = k
    OBVIOUS
  <2>2. u[k + a] = t[k]
    BY <1>3, <2>1
  <2> QED BY <1>4, <2>1, <2>2 DEF ToSet
<1>8. ToSet(u) = ToSet(s) \cup ToSet(t)
  <2>1. ToSet(u) \subseteq ToSet(s) \cup ToSet(t)
    BY <1>4, <1>5 DEF ToSet
  <2>2. ToSet(s) \subseteq ToSet(u)
    BY <1>1, <1>6 DEF ToSet
  <2>3. ToSet(t) \subseteq ToSet(u)
    BY <1>1, <1>7 DEF ToSet
  <2> QED BY <2>1, <2>2, <2>3
<1> QED BY <1>1, <1>2, <1>3, <1>8

(* Taking the first of todo.                                               *)
LEMMA ToSetHead ==
  ASSUME NEW S, NEW s \in Seq(S), s # <<>>
  PROVE  /\ Head(s) \in S /\ Tail(s) \in Seq(S) /\ Len(s) \in Nat /\ Len(s) >= 1
         /\ Len(Tail(s)) = Len(s) - 1
         /\ ToSet(s) = {Head(s)} \cup ToSet(Tail(s))
<1>1. PICK n \in Nat : n = Len(s) /\ DOMAIN s = 1..n /\ n >= 1
  OBVIOUS
<1>2. PICK t : t = Tail(s)
  OBVIOUS
<1>3. /\ t \in Seq(S) /\ Len(t) = n - 1 /\ \A k \in 1..(n - 1) : t[k] = s[k + 1]
      /\ Head(s) = s[1] /\ s[1] \in S
  BY <1>1, <1>2, TailView
<1>4. DOMAIN t = 1..(n - 1)
  BY <1>1, <1>3
<1>5. ASSUME NEW k \in 1..n PROVE s[k] = s[1] \/ s[k] \in ToSet(t)
  <2>1. CASE k = 1
    BY <2>1
  <2>2. CASE k # 1
    <3>1. k - 1 \in 1..(n - 1) /\ (k - 1) + 1 = k
      BY <2>2
    <3>2. t[k - 1] = s[k]
      BY <1>3, <3>1
    <3> QED BY <1>4, <3>1, <3>2 DEF ToSet
  <2> QED BY <2>1, <2>2
<1>6. ASSUME NEW k \in 1..(n - 1) PROVE t[k] \in ToSet(s)
  <2>1. k + 1 \in 1..n /\ t[k] = s[k + 1]
    BY <1>3
  <2> QED BY <1>1, <2>1 DEF ToSet
<1>7. ToSet(s) \subseteq {s[1]} \cup ToSet(t)
  BY <1>1, <1>5 DEF ToSet
<1>8. ToSet(t) \subseteq ToSet(s)
  BY <1>4, <1>6 DEF ToSet
<1>9. s[1] \in ToSet(s)
  BY <1>1 DEF ToSet
<1> QED BY <1>1, <1>2, <1>3, <1>7, <1>8, <1>9

(* A machine that is not in the chain goes on top of it.                   *)
LEMMA PutOnTop ==
  ASSUME NEW c \in Seq(Machines), IsInjective(c), NEW m \in Machines, m \notin ToSet(c)
  PROVE  /\ <<m>> \o c \in Seq(Machines) /\ IsInjective(<<m>> \o c)
         /\ ToSet(<<m>> \o c) = ToSet(c) \cup {m}
         /\ Cardinality(ToSet(<<m>> \o c)) = Cardinality(ToSet(c)) + 1
<1>1. PICK n \in Nat : n = Len(c) /\ DOMAIN c = 1..n
  OBVIOUS
<1>2. PICK h : h = <<m>>
  OBVIOUS
<1>3. h \in Seq(Machines) /\ Len(h) = 1 /\ DOMAIN h = {1} /\ h[1] = m
  BY <1>2
<1>4. ToSet(h) = {m}
  BY <1>3 DEF ToSet
<1>5. PICK u : u = h \o c
  OBVIOUS
<1>6. u \in Seq(Machines) /\ Len(u) = 1 + n /\ ToSet(u) = ToSet(h) \cup ToSet(c)
  <2>1. /\ h \o c \in Seq(Machines) /\ Len(h \o c) = Len(h) + Len(c)
        /\ ToSet(h \o c) = ToSet(h) \cup ToSet(c)
    <3>1. h \in Seq(Machines)
      BY <1>3
    <3> QED BY <3>1, ToSetConcat, Zenon
  <2> QED BY <1>1, <1>3, <1>5, <2>1
<1>7. \A k \in 1..(1 + n) : u[k] = IF k <= 1 THEN h[k] ELSE c[k - 1]
  <2>1. \A i \in 1..(Len(h) + Len(c)) :
          (h \o c)[i] = IF i <= Len(h) THEN h[i] ELSE c[i - Len(h)]
    <3>1. h \in Seq(Machines)
      BY <1>3
    <3> QED BY <3>1, ConcatProperties, Zenon
  <2> QED BY <1>1, <1>3, <1>5, <2>1
<1>8. u[1] = m /\ \A k \in 1..(1 + n) : k # 1 => k - 1 \in 1..n /\ u[k] = c[k - 1] /\ u[k] \in ToSet(c)
  BY <1>1, <1>3, <1>7 DEF ToSet
<1>9. DOMAIN u = 1..(1 + n)
  BY <1>6
<1>10. ASSUME NEW j \in 1..(1 + n), NEW k \in 1..(1 + n), u[j] = u[k] PROVE j = k
  <2>1. CASE j = 1 \/ k = 1
    BY <1>8, <1>10, <2>1
  <2>2. CASE j # 1 /\ k # 1
    <3>1. j - 1 \in DOMAIN c /\ k - 1 \in DOMAIN c /\ c[j - 1] = c[k - 1]
      BY <1>1, <1>8, <1>10, <2>2
    <3>2. j - 1 = k - 1
      BY <3>1 DEF IsInjective
    <3> QED BY <3>2
  <2> QED BY <2>1, <2>2
<1>11. IsInjective(u)
  BY <1>9, <1>10 DEF IsInjective
<1>12. ToSet(c) \in SUBSET Machines
  BY <1>1 DEF ToSet
<1>13. IsFiniteSet(ToSet(c))
  BY <1>12, FS_Subset, GraphAssumption
<1>14. Cardinality(ToSet(c) \cup {m}) = Cardinality(ToSet(c)) + 1
  BY <1>13, FS_AddElement
<1>15. ToSet(u) = ToSet(c) \cup {m}
  BY <1>4, <1>6
<1> QED BY <1>2, <1>5, <1>6, <1>11, <1>14, <1>15

(* A push ends with a machine that is in the chain already.                *)
LEMMA PushOld ==
  ASSUME NEW r, NEW dep, NEW top, NEW n \in Nat, PushInv(r, dep, top, n),
         NEW new, new.chain = r.chain, new.todo = Tail(r.todo),
         r.todo # <<>>, Head(r.todo) \in ToSet(r.chain)
  PROVE  PushInv(new, dep, top, n + 1)
<1>1. PICK c, t, m : c = r.chain /\ t = r.todo /\ m = Head(r.todo)
  OBVIOUS
<1>2. PICK u : u = Tail(t)
  OBVIOUS
<1>3. c \in Seq(Machines) /\ t \in Seq(Machines) /\ t # <<>> /\ m \in ToSet(c)
  BY <1>1 DEF PushInv
<1>4. /\ u \in Seq(Machines) /\ Len(t) \in Nat /\ Len(u) = Len(t) - 1
      /\ ToSet(t) = {m} \cup ToSet(u)
  BY <1>1, <1>2, <1>3, ToSetHead
<1>5. ToSet(c) \cup ToSet(u) = ToSet(c) \cup ToSet(t)
  BY <1>3, <1>4
<1>6. PICK w : w = Cardinality(Machines) * (Cardinality(Machines) - Cardinality(ToSet(c)))
  OBVIOUS
<1>7. n + Len(t) + w =< MaxPushes
  BY <1>1, <1>3, <1>6 DEF PushInv
<1>8. (n + 1) + Len(u) = n + Len(t)
  BY <1>4
<1>9. (n + 1) + Len(u) + w =< MaxPushes
  BY <1>7, <1>8
<1> QED BY <1>1, <1>2, <1>4, <1>5, <1>6, <1>9 DEF PushInv

(* The arithmetic of a push that puts a machine into the chain.            *)
LEMMA PushPays ==
  ASSUME NEW N \in Nat, NEW c \in Nat, NEW d \in Nat, NEW l \in Nat, NEW n \in Nat, NEW x \in Nat,
         d =< N, l >= 1, n + l + N * (N - c) =< x
  PROVE  (n + 1) + (d + (l - 1)) + N * (N - (c + 1)) =< x
<1>1. N * (N - (c + 1)) = N * (N - c) - N
  OBVIOUS
<1>2. N * (N - c) \in Int
  OBVIOUS
<1>3. PICK w \in Int : w = N * (N - c)
  BY <1>2
<1>4. (n + 1) + (d + (l - 1)) + (w - N) =< n + l + w
  OBVIOUS
<1> QED BY <1>1, <1>3, <1>4

(* A push of a machine that is not in the chain yet.                       *)
LEMMA PushNew ==
  ASSUME NEW r, NEW dep, NEW top \in Machines, NEW n \in Nat, PushInv(r, dep, top, n),
         r.todo # <<>>, NEW m, m = Head(r.todo), m \notin ToSet(r.chain), NEW new,
         new.chain = <<m>> \o r.chain,
         new.todo = InMapOrder(Dependencies(dep, m)) \o Tail(r.todo)
  PROVE  PushInv(new, dep, top, n + 1)
<1>1. PICK c, t : c = r.chain /\ t = r.todo
  OBVIOUS
<1>2. PICK u : u = Tail(t)
  OBVIOUS
<1>3. c \in Seq(Machines) /\ t \in Seq(Machines) /\ t # <<>> /\ m \notin ToSet(c) /\ IsInjective(c)
  BY <1>1 DEF PushInv
<1>4. /\ m \in Machines /\ u \in Seq(Machines) /\ Len(t) \in Nat /\ Len(t) >= 1
      /\ Len(u) = Len(t) - 1 /\ ToSet(t) = {m} \cup ToSet(u)
  BY <1>1, <1>2, <1>3, ToSetHead
<1>5. PICK D : D = Dependencies(dep, m)
  OBVIOUS
<1>6. PICK o : o = InMapOrder(D)
  OBVIOUS
<1>7. /\ o \in Seq(Machines) /\ Len(o) = Cardinality(D) /\ Cardinality(D) \in Nat
      /\ Cardinality(D) =< Cardinality(Machines) /\ ToSet(o) = D
  <2>1. D \in SUBSET Machines
    BY <1>5 DEF Dependencies
  <2> QED BY <1>6, <2>1, InMapOrderView
<1>8. PICK nt, nc : nt = o \o u /\ nc = <<m>> \o c
  OBVIOUS
<1>9. nt \in Seq(Machines) /\ Len(nt) = Len(o) + Len(u) /\ ToSet(nt) = D \cup ToSet(u)
  <2>1. /\ o \o u \in Seq(Machines) /\ Len(o \o u) = Len(o) + Len(u)
        /\ ToSet(o \o u) = ToSet(o) \cup ToSet(u)
    <3>1. o \in Seq(Machines)
      BY <1>7
    <3>2. u \in Seq(Machines)
      BY <1>4
    <3> QED BY <3>1, <3>2, ToSetConcat
  <2>2. nt = o \o u
    BY <1>8
  <2>3. /\ nt \in Seq(Machines) /\ Len(nt) = Len(o) + Len(u)
        /\ ToSet(nt) = ToSet(o) \cup ToSet(u)
    BY <2>1, <2>2, Zenon
  <2> QED BY <1>7, <2>3
<1>10. /\ nc \in Seq(Machines) /\ IsInjective(nc) /\ ToSet(nc) = ToSet(c) \cup {m}
       /\ Cardinality(ToSet(nc)) = Cardinality(ToSet(c)) + 1
  BY <1>3, <1>4, <1>8, PutOnTop
<1>11. new.chain = nc /\ new.todo = nt
  BY <1>1, <1>2, <1>5, <1>6, <1>8
<1>12. /\ ToSet(c) \cup ToSet(t) \subseteq Below(dep, top)
       /\ top \in ToSet(c) \cup ToSet(t)
       /\ \A x \in ToSet(c) : Dependencies(dep, x) \subseteq ToSet(c) \cup ToSet(t)
  BY <1>1 DEF PushInv
<1>13. D \subseteq Below(dep, top)
  BY <1>4, <1>5, <1>12, BelowFacts
<1>14. ToSet(nc) \cup ToSet(nt) = ToSet(c) \cup ToSet(t) \cup D
  BY <1>4, <1>9, <1>10
<1>15. ToSet(nc) \cup ToSet(nt) \subseteq Below(dep, top) /\ top \in ToSet(nc) \cup ToSet(nt)
  BY <1>12, <1>13, <1>14
<1>16. \A x \in ToSet(nc) : Dependencies(dep, x) \subseteq ToSet(nc) \cup ToSet(nt)
  BY <1>5, <1>10, <1>12, <1>14
<1>17. (n + 1) + Len(nt) + Cardinality(Machines) * (Cardinality(Machines) - Cardinality(ToSet(nc)))
         =< MaxPushes
  <2>1. PICK N \in Nat : N = Cardinality(Machines)
    BY FS_CardinalityType, GraphAssumption
  <2>2. PICK k \in Nat : k = Cardinality(ToSet(c))
    <3>1. ToSet(c) \in SUBSET Machines
      BY <1>12 DEF Below
    <3> QED BY <3>1, FS_Subset, FS_CardinalityType, GraphAssumption
  <2>3. PICK x \in Nat : x = MaxPushes
    BY <2>1 DEF MaxPushes
  <2>4. PICK l \in Nat : l = Len(t)
    BY <1>4
  <2>5. PICK d \in Nat : d = Cardinality(D)
    BY <1>7
  <2>6. d =< N /\ l >= 1
    BY <1>4, <1>7, <2>1, <2>4, <2>5
  <2>7. n + l + N * (N - k) =< x
    BY <1>1, <1>3, <2>1, <2>2, <2>3, <2>4 DEF PushInv
  <2>8. (n + 1) + (d + (l - 1)) + N * (N - (k + 1)) =< x
    BY <2>6, <2>7, PushPays
  <2>9. Len(nt) = d + (l - 1) /\ Cardinality(ToSet(nc)) = k + 1
    BY <1>4, <1>7, <1>9, <1>10, <2>2, <2>4, <2>5
  <2> QED BY <2>1, <2>3, <2>8, <2>9
<1> QED BY <1>9, <1>10, <1>11, <1>15, <1>16, <1>17 DEF PushInv

LEMMA PushStep ==
  ASSUME NEW r, NEW dep, NEW top \in Machines, NEW n \in Nat, PushInv(r, dep, top, n)
  PROVE  PushInv(PushToRenderChain(r, dep), dep, top, n + 1)
<1>1. PICK new : new = PushToRenderChain(r, dep)
  OBVIOUS
<1>2. CASE r.todo = <<>>
  <2>1. new = r
    BY <1>1, <1>2 DEF PushToRenderChain
  <2> QED BY <1>1, <1>2, <2>1 DEF PushInv
<1>3. CASE r.todo # <<>> /\ Head(r.todo) \in ToSet(r.chain)
  <2>1. new = [r EXCEPT !.todo = Tail(@)]
    BY <1>1, <1>3 DEF PushToRenderChain
  <2>2. new.chain = r.chain /\ new.todo = Tail(r.todo)
    BY <2>1
  <2> QED BY <1>1, <1>3, <2>2, PushOld
<1>4. CASE r.todo # <<>> /\ Head(r.todo) \notin ToSet(r.chain)
  <2>1. PICK m : m = Head(r.todo)
    OBVIOUS
  <2>2. new = [todo  |-> InMapOrder(Dependencies(dep, m)) \o Tail(r.todo),
               chain |-> <<m>> \o r.chain]
    BY <1>1, <1>4, <2>1 DEF PushToRenderChain
  <2>3. /\ new.chain = <<m>> \o r.chain
        /\ new.todo = InMapOrder(Dependencies(dep, m)) \o Tail(r.todo)
    BY <2>2
  <2> QED BY <1>1, <1>4, <2>1, <2>3, PushNew
<1> QED BY <1>2, <1>3, <1>4

FirstPush(top) == [todo |-> IF top = NULL THEN <<>> ELSE <<top>>, chain |-> <<>>]

(* The recursion of recalculate_render_chain, push by push.                *)
Pushes(f, dep, top) ==
  f = [n \in 0..MaxPushes |-> IF n = 0 THEN FirstPush(top) ELSE PushToRenderChain(f[n - 1], dep)]

LEMMA MaxPushesNat == Cardinality(Machines) \in Nat /\ MaxPushes \in Nat
<1>1. PICK N \in Nat : N = Cardinality(Machines)
  BY FS_CardinalityType, GraphAssumption
<1> QED BY <1>1 DEF MaxPushes

LEMMA PushesExist ==
  ASSUME NEW dep, NEW top
  PROVE  \E f : Pushes(f, dep, top)
<1>1. PICK n \in Nat : n = MaxPushes
  BY MaxPushesNat
<1>2. PICK s : s = [k \in 1..n |-> dep]
  OBVIOUS
<1>3. s \in [1..n -> {dep}]
  BY <1>2
<1>4. s \in Seq({dep}) /\ Len(s) = n
  <2>1. s \in Seq({dep})
    BY <1>3, IntervalIsSeq
  <2> QED BY <1>3, <2>1, LenProperties
<1>5. PICK b : b = FirstPush(top)
  OBVIOUS
<1>6. PICK r : IsRun(r, b, s)
  BY <1>4, FoldHasRun
<1>7. /\ r[0] = b /\ \A k \in 1..n : r[k] = PushToRenderChain(r[k - 1], dep)
  BY <1>2, <1>4, <1>6 DEF IsRun
<1>8. PICK f : f = [k \in 0..n |-> r[k]]
  OBVIOUS
<1>9. \A k \in 0..n : f[k] = IF k = 0 THEN b ELSE PushToRenderChain(f[k - 1], dep)
  <2> SUFFICES ASSUME NEW k \in 0..n
               PROVE  f[k] = IF k = 0 THEN b ELSE PushToRenderChain(f[k - 1], dep)
    OBVIOUS
  <2>1. CASE k = 0
    BY <1>7, <1>8, <2>1
  <2>2. CASE k # 0
    <3>1. k \in 1..n /\ k - 1 \in 0..n
      BY <2>2
    <3>2. f[k] = r[k] /\ f[k - 1] = r[k - 1]
      BY <1>8, <3>1
    <3> QED BY <1>7, <2>2, <3>1, <3>2
  <2> QED BY <2>1, <2>2
<1>10. f = [k \in 0..n |-> IF k = 0 THEN b ELSE PushToRenderChain(f[k - 1], dep)]
  BY <1>8, <1>9
<1> QED BY <1>1, <1>5, <1>10 DEF Pushes

LEMMA RecalculateView ==
  ASSUME NEW dep, NEW top
  PROVE  \E f : /\ f[0] = FirstPush(top)
                /\ \A n \in 1..MaxPushes : f[n] = PushToRenderChain(f[n - 1], dep)
                /\ RecalculateRenderChain(dep, top) = f[MaxPushes].chain
<1>1. PICK f : f = CHOOSE g : Pushes(g, dep, top)
  OBVIOUS
<1>2. Pushes(f, dep, top)
  BY <1>1, PushesExist
<1>3. RecalculateRenderChain(dep, top) = f[MaxPushes].chain
  BY <1>1 DEF RecalculateRenderChain, Pushes, FirstPush
<1>4. f[0] = FirstPush(top)
  BY <1>2, MaxPushesNat DEF Pushes
<1>5. \A n \in 1..MaxPushes : f[n] = PushToRenderChain(f[n - 1], dep)
  BY <1>2, MaxPushesNat DEF Pushes
<1> QED BY <1>3, <1>4, <1>5

(* recalculate_render_chain puts each machine that the top needs into the  *)
(* chain, once, and stops: MaxPushes pushes are enough.                    *)
LEMMA ChainIsBelow ==
  ASSUME NEW dep, NEW top \in Machines, NEW c, c = RecalculateRenderChain(dep, top)
  PROVE  ToSet(c) = Below(dep, top) /\ IsInjective(c)
<1>1. PICK f : /\ f[0] = FirstPush(top)
               /\ \A n \in 1..MaxPushes : f[n] = PushToRenderChain(f[n - 1], dep)
               /\ c = f[MaxPushes].chain
  BY RecalculateView
<1>2. PICK N \in Nat, x \in Nat : N = Cardinality(Machines) /\ x = MaxPushes /\ x = 1 + N * N
  BY MaxPushesNat DEF MaxPushes
<1>3. PushInv(f[0], dep, top, 0)
  <2>1. PICK r, t : r = f[0] /\ t = <<top>>
    OBVIOUS
  <2>2. r = [todo |-> t, chain |-> <<>>]
    BY <1>1, <2>1, GraphAssumption DEF FirstPush
  <2>3. r.todo = t /\ r.chain = <<>>
    BY <2>2
  <2>4. t \in Seq(Machines) /\ Len(t) = 1 /\ DOMAIN t = {1} /\ t[1] = top
    BY <2>1
  <2>5. ToSet(t) = {top}
    BY <2>4 DEF ToSet
  <2>6. PICK e : e = <<>>
    OBVIOUS
  <2>7. e \in Seq(Machines) /\ DOMAIN e = {}
    BY <2>6
  <2>12. ToSet(e) = {} /\ IsInjective(e)
    BY <2>7 DEF ToSet, IsInjective
  <2>8. Cardinality(ToSet(e)) = 0
    BY <2>12, FS_EmptySet
  <2>9. 0 + 1 + N * (N - 0) =< x
    BY <1>2
  <2>10. top \in Below(dep, top)
    BY BelowFacts
  <2>11. r.chain = e /\ r.todo = t
    BY <2>3, <2>6
  <2> QED BY <1>2, <2>1, <2>4, <2>5, <2>7, <2>8, <2>9, <2>10, <2>11, <2>12 DEF PushInv
<1>4. PushInv(f[x], dep, top, x)
  <2> DEFINE Bad == {n \in 0..x : ~PushInv(f[n], dep, top, n)}
  <2>1. CASE Bad = {}
    BY <2>1
  <2>2. CASE Bad # {}
    <3>1. PICK n \in Bad : \A y \in Bad : n =< y
      <4>1. Bad \subseteq Nat
        OBVIOUS
      <4> QED BY <2>2, <4>1, MinIsMember
    <3>2. n \in 0..x /\ ~PushInv(f[n], dep, top, n) /\ n # 0
      BY <1>3, <3>1
    <3>3. n - 1 \in Nat /\ n - 1 \in 0..x /\ n - 1 \notin Bad /\ (n - 1) + 1 = n /\ n \in 1..x
      BY <3>1, <3>2
    <3> HIDE DEF Bad
    <3>4. PushInv(f[n - 1], dep, top, n - 1)
      BY <3>3 DEF Bad
    <3>5. PushInv(PushToRenderChain(f[n - 1], dep), dep, top, (n - 1) + 1)
      BY <3>3, <3>4, PushStep
    <3>6. f[n] = PushToRenderChain(f[n - 1], dep)
      BY <1>1, <1>2, <3>3
    <3> QED BY <3>2, <3>3, <3>5, <3>6
  <2> QED BY <2>1, <2>2
<1>5. PICK r : r = f[x]
  OBVIOUS
<1>6. PICK t : t = r.todo
  OBVIOUS
<1>7. c = r.chain
  BY <1>1, <1>2, <1>5
<1>8. /\ c \in Seq(Machines) /\ t \in Seq(Machines) /\ IsInjective(c)
      /\ ToSet(c) \cup ToSet(t) \subseteq Below(dep, top)
      /\ top \in ToSet(c) \cup ToSet(t)
      /\ \A m \in ToSet(c) : Dependencies(dep, m) \subseteq ToSet(c) \cup ToSet(t)
      /\ t = <<>> \/ x + Len(t) + N * (N - Cardinality(ToSet(c))) =< x
  BY <1>2, <1>4, <1>5, <1>6, <1>7 DEF PushInv
<1>9. t = <<>>
  <2> SUFFICES ASSUME t # <<>> PROVE FALSE
    OBVIOUS
  <2>1. PICK l \in Nat : l = Len(t) /\ l >= 1
    BY <1>8
  <2>2. PICK k \in Nat : k = Cardinality(ToSet(c)) /\ k =< N
    <3>1. ToSet(c) \in SUBSET Machines
      BY <1>8 DEF Below
    <3> QED BY <1>2, <3>1, FS_Subset, FS_CardinalityType, GraphAssumption
  <2>3. x + l + N * (N - k) =< x
    BY <1>8, <2>1, <2>2
  <2>4. N * (N - k) >= 0
    BY <2>2
  <2> QED BY <2>1, <2>3, <2>4
<1>10. ToSet(t) = {}
  BY <1>9 DEF ToSet
<1>11. top \in ToSet(c) /\ Closed(dep, ToSet(c)) /\ ToSet(c) \in SUBSET Machines
  BY <1>8, <1>10 DEF Closed, Below
<1>12. Below(dep, top) \subseteq ToSet(c)
  BY <1>11, BelowFacts
<1> QED BY <1>8, <1>12

(* Without a sink there is nothing to push.                                *)
LEMMA NoSinkNoChain ==
  ASSUME NEW dep
  PROVE  RecalculateRenderChain(dep, NULL) = <<>>
<1>1. PICK f : /\ f[0] = FirstPush(NULL)
               /\ \A n \in 1..MaxPushes : f[n] = PushToRenderChain(f[n - 1], dep)
               /\ RecalculateRenderChain(dep, NULL) = f[MaxPushes].chain
  BY RecalculateView
<1>2. PICK b : b = [todo |-> <<>>, chain |-> <<>>]
  OBVIOUS
<1>3. f[0] = b /\ PushToRenderChain(b, dep) = b
  BY <1>1, <1>2 DEF FirstPush, PushToRenderChain
<1>4. PICK x \in Nat : x = MaxPushes
  BY MaxPushesNat
<1>5. f[x] = b
  <2> DEFINE Bad == {n \in 0..x : f[n] # b}
  <2>1. CASE Bad = {}
    BY <2>1
  <2>2. CASE Bad # {}
    <3>1. PICK n \in Bad : \A y \in Bad : n =< y
      <4>1. Bad \subseteq Nat
        OBVIOUS
      <4> QED BY <2>2, <4>1, MinIsMember
    <3>2. n \in 0..x /\ f[n] # b /\ n # 0
      BY <1>3, <3>1
    <3>3. n - 1 \in 0..x /\ n - 1 \notin Bad /\ n \in 1..x
      BY <3>1, <3>2
    <3>4. f[n - 1] = b
      BY <3>3
    <3>5. f[n] = PushToRenderChain(f[n - 1], dep)
      BY <1>1, <1>4, <3>3
    <3> QED BY <1>3, <3>2, <3>4, <3>5
  <2> QED BY <2>1, <2>2
<1> QED BY <1>1, <1>2, <1>4, <1>5

(* The chain is empty or what recalculate_render_chain makes of the counts *)
(* as they are. This holds inside a teardown too.                          *)
ChainInv ==
  /\ CountsType
  /\ sink \in Machines \cup {NULL}
  /\ chain = <<>> \/ (sink # NULL /\ chain = RecalculateRenderChain(dependant, sink))

(* A step that ends in recalculate_render_chain.                           *)
LEMMA RebuiltChain ==
  ASSUME CountsType', sink' \in Machines \cup {NULL},
         chain' = RecalculateRenderChain(dependant', sink')
  PROVE  ChainInv'
<1>1. CASE sink' = NULL
  BY <1>1, NoSinkNoChain DEF ChainInv
<1>2. CASE sink' # NULL
  BY <1>2 DEF ChainInv
<1> QED BY <1>1, <1>2

(* A step that has no part in the chain.                                   *)
LEMMA ChainUntouched ==
  ASSUME ChainInv, UNCHANGED <<attached, dependant, sink, chain>>
  PROVE  ChainInv'
<1>1. CountsType'
  BY DEF ChainInv, CountsType
<1> QED BY <1>1 DEF ChainInv

LEMMA AttachChain ==
  ASSUME ChainInv, GraphInv',
         NEW T \in Machines, NEW s \in Signals, NEW i \in Inputs, Attach(T, s, i)
  PROVE  ChainInv'
<1>1. chain' = RecalculateRenderChain(dependant', sink) /\ sink' = sink
  BY DEF Attach
<1>2. CountsType'
  BY DEF GraphInv
<1> QED BY <1>1, <1>2, RebuiltChain DEF ChainInv

(* A detach that finds no count leaves the counts and the chain alone.     *)
LEMMA DetachChain ==
  ASSUME ChainInv, GraphInv',
         NEW T \in Machines, NEW s \in Signals, NEW i \in Inputs, DetachInput(T, s, i)
  PROVE  ChainInv'
<1>1. PICK m \in Machines : m = Originator[s]
  BY GraphAssumption
<1>2. /\ sink' = sink
      /\ \/ dependant' = dependant /\ chain' = chain
         \/ /\ dependant' = [dependant EXCEPT ![T][m] = Less(@, 1)]
            /\ chain' = IF dependant[T][m] = 0 THEN chain
                        ELSE RecalculateRenderChain(dependant', sink)
  BY <1>1 DEF DetachInput
<1>3. CountsType'
  BY DEF GraphInv
<1>4. CASE dependant' = dependant /\ chain' = chain
  BY <1>2, <1>3, <1>4 DEF ChainInv
<1>5. CASE /\ dependant' = [dependant EXCEPT ![T][m] = Less(@, 1)]
           /\ dependant[T][m] = 0 /\ chain' = chain
  <2>1. Less(0, 1) = 0
    BY DEF Less
  <2>2. dependant' = dependant
    BY <1>5, <2>1 DEF ChainInv, CountsType
  <2> QED BY <1>2, <1>3, <1>5, <2>2 DEF ChainInv
<1>6. CASE chain' = RecalculateRenderChain(dependant', sink)
  BY <1>2, <1>3, <1>6, RebuiltChain DEF ChainInv
<1> QED BY <1>2, <1>4, <1>5, <1>6

LEMMA NextChain ==
  GraphInv /\ GraphInv' /\ ChainInv /\ [Next]_vars => ChainInv'
<1> SUFFICES ASSUME GraphInv, GraphInv', ChainInv, [Next]_vars
             PROVE  ChainInv'
  OBVIOUS
<1>1. CASE UNCHANGED vars
  BY <1>1, ChainUntouched DEF vars
<1>2. ASSUME NEW m \in Machines,
             \/ Publish(m) \/ Unpublish(m) \/ CreateSequence(m) \/ AttachSequenceFails(m)
             \/ TightlyConnect(m) \/ DisconnectAndDestroy(m)
      PROVE  ChainInv'
  BY <1>2, ChainUntouched
     DEF Publish, Unpublish, CreateSequence, AttachSequenceFails, TightlyConnect,
         DisconnectAndDestroy
<1>3. ASSUME NEW m \in Machines, RegisterMachine(m)
      PROVE  ChainInv'
  <2>1. /\ m \in Sinks => sink = NULL
        /\ sink' = IF m \in Sinks THEN m ELSE sink
        /\ UNCHANGED <<attached, dependant, chain>>
    BY <1>3 DEF RegisterMachine
  <2>2. CASE m \in Sinks
    BY <2>1, <2>2 DEF ChainInv, CountsType
  <2>3. CASE m \notin Sinks
    BY <2>1, <2>3, ChainUntouched
  <2> QED BY <2>2, <2>3
<1>4. ASSUME NEW m \in Machines, AttachSequence(m)
      PROVE  ChainInv'
  <2>1. PICK s \in Midi, i \in Inputs : Attach(m, s, i)
    BY <1>4 DEF AttachSequence
  <2>2. s \in Signals
    BY GraphAssumption
  <2> QED BY <2>1, <2>2, AttachChain
<1>5. ASSUME NEW T \in Machines, NEW s \in Signals, NEW i \in Inputs,
             AttachInput(T, s, i) \/ DetachInput(T, s, i)
      PROVE  ChainInv'
  BY <1>5, AttachChain, DetachChain DEF AttachInput
<1>6. CASE EnterDestroy
  <2>1. sink' = sink /\ chain' = RecalculateRenderChain(dependant', sink')
    BY <1>6 DEF EnterDestroy
  <2> QED BY <2>1, RebuiltChain DEF ChainInv, GraphInv
<1>7. CASE LeaveDestroy
  <2>1. PICK m : m = Head(calls).machine
    OBVIOUS
  <2>2. UNCHANGED <<attached, dependant>>
    BY <1>7 DEF LeaveDestroy
  <2>3. CASE life[m] = "live"
    <3>1. /\ sink' = IF sink = m THEN NULL ELSE sink
          /\ chain' = RecalculateRenderChain(dependant, sink')
      BY <1>7, <2>1, <2>3 DEF LeaveDestroy
    <3>2. sink' \in Machines \cup {NULL}
      BY <3>1 DEF ChainInv
    <3> QED BY <2>2, <3>1, <3>2, RebuiltChain DEF GraphInv
  <2>4. CASE life[m] # "live"
    BY <1>7, <2>1, <2>2, <2>4, ChainUntouched DEF LeaveDestroy
  <2> QED BY <2>3, <2>4
<1> QED BY <1>1, <1>2, <1>3, <1>4, <1>5, <1>6, <1>7 DEF Next

LEMMA ChainInvComplete == ChainInv => ChainComplete
<1> SUFFICES ASSUME ChainInv, chain # <<>>
             PROVE  /\ sink # NULL
                    /\ ToSet(chain) = NeededBy(sink)
                    /\ IsInjective(chain)
  BY DEF ChainComplete
<1>1. sink \in Machines /\ chain = RecalculateRenderChain(dependant, sink)
  BY DEF ChainInv
<1>2. ToSet(chain) = Below(dependant, sink) /\ IsInjective(chain)
  BY <1>1, ChainIsBelow
<1>3. NeededBy(sink) = Below(dependant, sink)
  BY DEF NeededBy, Below, FindMachineInGraph
<1> QED BY <1>1, <1>2, <1>3, GraphAssumption

(* For every number of machines and every kind of request, a render chain  *)
(* that is not empty holds exactly the machines the sink needs, each once: *)
(* no operation changes the counts without rebuilding the chain, and       *)
(* push_to_render_chain reaches all of them and comes to an end.           *)
THEOREM ChainCompleteAlways == Spec => []ChainComplete
<1>1. Init => ChainInv
  BY InitGraph DEF Init, ChainInv, GraphInv
<1>2. Spec => []GraphInv
  BY InitGraph, NextGraph, PTL DEF Spec
<1>3. Spec => []ChainInv
  BY <1>1, <1>2, NextChain, PTL DEF Spec
<1> QED BY <1>3, ChainInvComplete, PTL

-----------------------------------------------------------------------------
(* The input lists                                                         *)

LinkFields == [input    : [Inputs -> Signals \cup {NULL}],
               next     : [Signals -> Signals \cup {NULL}],
               previous : [Signals -> Signals \cup {NULL}]]

(* The pointers around signal s, which is in the list of input own[s] at   *)
(* place rank[s], counted from 1.                                          *)
Placed(l, own, rank, size, s) ==
  /\ rank[s] >= 1 /\ rank[s] =< size[own[s]]
  /\ \/ l.next[s] = NULL /\ rank[s] = size[own[s]]
     \/ l.next[s] # NULL /\ own[l.next[s]] = own[s] /\ rank[l.next[s]] = rank[s] + 1
  /\ \/ l.previous[s] = NULL /\ rank[s] = 1
     \/ l.previous[s] # NULL /\ own[l.previous[s]] = own[s] /\ rank[l.previous[s]] = rank[s] - 1

(* The head of input i.                                                    *)
Headed(l, own, rank, size, i) ==
  \/ l.input[i] = NULL /\ size[i] = 0
  \/ l.input[i] # NULL /\ own[l.input[i]] = i /\ rank[l.input[i]] = 1

GhostType(own, rank, size) ==
  own \in [Signals -> Inputs \cup {0}] /\ rank \in [Signals -> Nat] /\ size \in [Inputs -> Nat]

(* The pointers of l form lists: size[i] signals are in the one of input i.*)
Shape(l, own, rank, size) ==
  /\ l \in LinkFields /\ GhostType(own, rank, size)
  /\ \A s \in Signals : own[s] = 0 => l.next[s] = NULL /\ l.previous[s] = NULL
  /\ \A s \in Signals : own[s] # 0 => Placed(l, own, rank, size, s)
  /\ \A s, t \in Signals : own[s] # 0 /\ own[s] = own[t] /\ rank[s] = rank[t] => s = t
  /\ \A i \in Inputs : Headed(l, own, rank, size, i)

WellLinked(l) == \E own, rank, size : Shape(l, own, rank, size)

Listed(l) == UNION {Lists!Members(l, l.input[i]) : i \in Inputs}

(* The instance has operators of its own for what it takes from FiniteSets.*)
LEMMA SameCardinality == ASSUME NEW S PROVE Lists!Cardinality(S) = Cardinality(S)
  BY DEF Lists!Cardinality, Cardinality

LEMMA InputsFacts == 0 \notin Inputs /\ NULL \notin Signals /\ IsFiniteSet(Signals)
                     /\ Cardinality(Signals) \in Nat
  BY ListsAssumption, GraphAssumption, FS_CardinalityType

LEMMA NoLinksShape ==
  LET own == [s \in Signals |-> 0]
      size == [i \in Inputs |-> 0]
  IN Shape(Lists!NoLinks, own, own, size)
  BY InputsFacts DEF Shape, GhostType, LinkFields, Placed, Headed, Lists!NoLinks

(* A list that was empty gets its first signal.                            *)
LEMMA PutFirst ==
  ASSUME NEW l, NEW own, NEW rank, NEW size, Shape(l, own, rank, size),
         NEW i \in Inputs, NEW s \in Signals, own[s] = 0, l.input[i] = NULL
  PROVE  Shape([l EXCEPT !.input[i] = s],
               [own EXCEPT ![s] = i], [rank EXCEPT ![s] = 1], [size EXCEPT ![i] = 1])
<1>0. 0 \notin Inputs /\ NULL \notin Signals
  BY InputsFacts
<1>1. PICK l2, own2, rank2, size2 :
        /\ l2 = [l EXCEPT !.input[i] = s] /\ own2 = [own EXCEPT ![s] = i]
        /\ rank2 = [rank EXCEPT ![s] = 1] /\ size2 = [size EXCEPT ![i] = 1]
  OBVIOUS
<1>2. l \in LinkFields /\ GhostType(own, rank, size) /\ size[i] = 0
  BY <1>0 DEF Shape, Headed
<1>3. /\ l2 \in LinkFields /\ GhostType(own2, rank2, size2)
      /\ l2.next = l.next /\ l2.previous = l.previous
      /\ l2.input[i] = s /\ \A j \in Inputs \ {i} : l2.input[j] = l.input[j]
  BY <1>1, <1>2 DEF LinkFields, GhostType
<1>4. /\ own2[s] = i /\ rank2[s] = 1 /\ size2[i] = 1
      /\ \A t \in Signals \ {s} : own2[t] = own[t] /\ rank2[t] = rank[t]
      /\ \A j \in Inputs \ {i} : size2[j] = size[j]
  BY <1>1, <1>2 DEF GhostType
<1>5. \A t \in Signals : own[t] # 0 =>
        /\ own[t] # i
        /\ l.next[t] # s /\ l.previous[t] # s
  BY <1>0, <1>2 DEF Shape, Placed, GhostType
<1>6. \A t \in Signals : own2[t] = 0 => l2.next[t] = NULL /\ l2.previous[t] = NULL
  BY <1>0, <1>3, <1>4 DEF Shape
<1>7. \A t \in Signals : own2[t] # 0 => Placed(l2, own2, rank2, size2, t)
  <2> SUFFICES ASSUME NEW t \in Signals, own2[t] # 0 PROVE Placed(l2, own2, rank2, size2, t)
    OBVIOUS
  <2>1. CASE t = s
    BY <1>3, <1>4, <2>1 DEF Shape, Placed
  <2>2. CASE t # s
    <3>1. Placed(l, own, rank, size, t) /\ own[t] \in Inputs \ {i}
      BY <1>2, <1>4, <1>5, <2>2 DEF Shape, GhostType
    <3>2. l.next[t] \in (Signals \ {s}) \cup {NULL} /\ l.previous[t] \in (Signals \ {s}) \cup {NULL}
      BY <1>2, <1>4, <1>5, <2>2 DEF LinkFields
    <3> QED BY <1>3, <1>4, <2>2, <3>1, <3>2 DEF Placed
  <2> QED BY <2>1, <2>2
<1>8. \A t, u \in Signals : own2[t] # 0 /\ own2[t] = own2[u] /\ rank2[t] = rank2[u] => t = u
  BY <1>0, <1>4, <1>5 DEF Shape
<1>9. \A j \in Inputs : Headed(l2, own2, rank2, size2, j)
  <2> SUFFICES ASSUME NEW j \in Inputs PROVE Headed(l2, own2, rank2, size2, j)
    OBVIOUS
  <2>1. CASE j = i
    BY <1>0, <1>3, <1>4, <2>1 DEF Headed
  <2>2. CASE j # i
    <3>1. Headed(l, own, rank, size, j) /\ l.input[j] \in Signals \cup {NULL}
      BY <1>2 DEF Shape, LinkFields
    <3>2. l.input[j] # s
      BY <1>0, <2>2, <3>1 DEF Headed
    <3> QED BY <1>3, <1>4, <2>2, <3>1, <3>2 DEF Headed
  <2> QED BY <2>1, <2>2
<1>10. Shape(l2, own2, rank2, size2)
  BY <1>3, <1>6, <1>7, <1>8, <1>9 DEF Shape
<1> QED BY <1>1, <1>10

(* Signal::link: the new signal goes right behind the head.                *)
LEMMA LinkSecond ==
  ASSUME NEW l, NEW own, NEW rank, NEW size, Shape(l, own, rank, size),
         NEW i \in Inputs, NEW s \in Signals, own[s] = 0, l.input[i] # NULL
  PROVE  Shape(Lists!Link(l, l.input[i], s), [own EXCEPT ![s] = i],
               [t \in Signals |-> IF t = s THEN 2
                                  ELSE IF own[t] = i /\ rank[t] > 1 THEN rank[t] + 1 ELSE rank[t]],
               [size EXCEPT ![i] = @ + 1])
<1>0. 0 \notin Inputs /\ NULL \notin Signals
  BY InputsFacts
<1>1. PICK h, n, l2, own2, rank2, size2 :
        /\ h = l.input[i] /\ n = l.next[h] /\ l2 = Lists!Link(l, h, s)
        /\ own2 = [own EXCEPT ![s] = i]
        /\ rank2 = [t \in Signals |-> IF t = s THEN 2
                      ELSE IF own[t] = i /\ rank[t] > 1 THEN rank[t] + 1 ELSE rank[t]]
        /\ size2 = [size EXCEPT ![i] = @ + 1]
  OBVIOUS
<1>2. l \in LinkFields /\ GhostType(own, rank, size)
  BY DEF Shape
<1>3. h \in Signals /\ own[h] = i /\ rank[h] = 1 /\ h # s /\ n \in Signals \cup {NULL}
  BY <1>0, <1>1, <1>2 DEF Shape, Headed, LinkFields
<1>4. Placed(l, own, rank, size, h)
  BY <1>0, <1>3 DEF Shape
<1>5. IF n = NULL THEN size[i] = 1 ELSE own[n] = i /\ rank[n] = 2 /\ n # s /\ n # h /\ l.previous[n] = h
  <2>1. n = NULL => size[i] = 1
    BY <1>1, <1>3, <1>4 DEF Placed
  <2>2. n # NULL => own[n] = i /\ rank[n] = 2 /\ n # s /\ n # h
    BY <1>0, <1>1, <1>3, <1>4 DEF Placed
  <2>3. n # NULL => l.previous[n] = h
    <3> SUFFICES ASSUME n # NULL PROVE l.previous[n] = h
      OBVIOUS
    <3>1. Placed(l, own, rank, size, n) /\ l.previous[n] \in Signals \cup {NULL}
      BY <1>0, <1>2, <1>3, <2>2 DEF Shape, LinkFields
    <3>2. own[l.previous[n]] = i /\ rank[l.previous[n]] = 1 /\ l.previous[n] \in Signals
      BY <2>2, <3>1 DEF Placed
    <3> QED BY <1>0, <1>3, <3>2 DEF Shape
  <2> QED BY <2>1, <2>2, <2>3
<1>6a. PICK nx : nx = [l.next EXCEPT ![h] = s, ![s] = n]
  OBVIOUS
<1>6b. PICK pv : pv = IF n = NULL THEN [l.previous EXCEPT ![s] = h]
                      ELSE [[l.previous EXCEPT ![s] = h] EXCEPT ![n] = nx[h]]
  OBVIOUS
<1>6. l2 = [l EXCEPT !.next = nx, !.previous = pv]
  BY <1>1, <1>6a, <1>6b DEF Lists!Link
<1>7. /\ nx \in [Signals -> Signals \cup {NULL}] /\ pv \in [Signals -> Signals \cup {NULL}]
      /\ nx[h] = s /\ nx[s] = n /\ pv[s] = h /\ (n # NULL => pv[n] = s)
      /\ \A t \in Signals \ {h, s} : nx[t] = l.next[t]
      /\ \A t \in Signals \ {s, n} : pv[t] = l.previous[t]
  BY <1>2, <1>3, <1>5, <1>6a, <1>6b DEF LinkFields
<1>8. l2 \in LinkFields /\ l2.next = nx /\ l2.previous = pv /\ l2.input = l.input
  BY <1>2, <1>6, <1>7 DEF LinkFields
<1>9. /\ GhostType(own2, rank2, size2)
      /\ own2[s] = i /\ rank2[s] = 2 /\ size2[i] = size[i] + 1
      /\ \A t \in Signals \ {s} :
           own2[t] = own[t] /\ rank2[t] = IF own[t] = i /\ rank[t] > 1 THEN rank[t] + 1 ELSE rank[t]
      /\ \A j \in Inputs \ {i} : size2[j] = size[j]
  BY <1>1, <1>2 DEF GhostType
<1>10. \A t \in Signals : own2[t] = 0 => l2.next[t] = NULL /\ l2.previous[t] = NULL
  BY <1>0, <1>3, <1>5, <1>7, <1>8, <1>9 DEF Shape
<1>11. ASSUME NEW t \in Signals, own2[t] # 0 PROVE Placed(l2, own2, rank2, size2, t)
  <2>1. CASE t = s
    <3>1. size[i] \in Nat /\ size[i] >= 1
      BY <1>2, <1>3, <1>4 DEF Placed, GhostType
    <3>2. own2[h] = i /\ rank2[h] = 1 /\ l2.previous[s] = h /\ h # NULL
      BY <1>0, <1>3, <1>7, <1>8, <1>9
    <3>3. l2.next[s] = n /\ (n # NULL => own2[n] = i /\ rank2[n] = 3)
      BY <1>3, <1>5, <1>7, <1>8, <1>9
    <3>4. n = NULL => size2[i] = 2
      BY <1>5, <1>9
    <3> QED BY <1>9, <2>1, <3>1, <3>2, <3>3, <3>4 DEF Placed
  <2>2. CASE t = h
    BY <1>0, <1>2, <1>3, <1>4, <1>5, <1>7, <1>8, <1>9, <2>2 DEF Placed, GhostType
  <2>3. CASE t # s /\ t # h
    <3>1. /\ Placed(l, own, rank, size, t) /\ own[t] \in Inputs /\ own2[t] = own[t]
          /\ l.next[t] \in Signals \cup {NULL} /\ l.previous[t] \in Signals \cup {NULL}
          /\ rank[t] \in Nat /\ size[own[t]] \in Nat
      BY <1>0, <1>2, <1>9, <1>11, <2>3 DEF Shape, GhostType, LinkFields
    <3>2. l.next[t] # s /\ l.previous[t] # s
      BY <1>0, <3>1 DEF Placed
    <3>3. own[t] = i => rank[t] > 1
      BY <1>0, <1>3, <2>3, <3>1 DEF Shape, Placed
    <3>4. CASE own[t] # i
      <4>1. rank2[t] = rank[t] /\ size2[own[t]] = size[own[t]] /\ t # n
        BY <1>0, <1>5, <1>9, <2>3, <3>1, <3>4
      <4>2. l2.next[t] = l.next[t] /\ l2.previous[t] = l.previous[t]
        BY <1>7, <1>8, <2>3, <4>1
      <4>3. \A u \in Signals : own[u] = own[t] => u # s /\ own2[u] = own[u] /\ rank2[u] = rank[u]
        BY <1>9, <3>1, <3>4, <1>0
      <4> QED BY <3>1, <4>1, <4>2, <4>3 DEF Placed
    <3>5. CASE own[t] = i
      <4>1. rank2[t] = rank[t] + 1 /\ size2[own[t]] = size[own[t]] + 1
        BY <1>9, <2>3, <3>1, <3>3, <3>5
      <4>2. rank2[t] >= 1 /\ rank2[t] =< size2[own2[t]]
        BY <3>1, <4>1 DEF Placed
      <4>3. \/ l2.next[t] = NULL /\ rank2[t] = size2[own2[t]]
            \/ l2.next[t] # NULL /\ own2[l2.next[t]] = own2[t] /\ rank2[l2.next[t]] = rank2[t] + 1
        <5>1. l2.next[t] = l.next[t]
          BY <1>7, <1>8, <2>3
        <5>2. CASE l.next[t] = NULL
          BY <3>1, <4>1, <5>1, <5>2 DEF Placed
        <5>3. CASE l.next[t] # NULL
          <6>1. PICK u \in Signals : u = l.next[t]
            BY <3>1, <5>3
          <6>2. own[u] = i /\ rank[u] = rank[t] + 1 /\ rank[u] > 1 /\ u # s
            BY <3>1, <3>2, <3>3, <3>5, <5>3, <6>1 DEF Placed
          <6>3. own2[u] = i /\ rank2[u] = rank[t] + 1 + 1
            BY <1>9, <6>2
          <6> QED BY <3>1, <3>5, <4>1, <5>1, <5>3, <6>1, <6>3
        <5> QED BY <5>2, <5>3
      <4>4. \/ l2.previous[t] = NULL /\ rank2[t] = 1
            \/ /\ l2.previous[t] # NULL /\ own2[l2.previous[t]] = own2[t]
               /\ rank2[l2.previous[t]] = rank2[t] - 1
        <5>1. CASE t = n
          BY <1>0, <1>5, <1>7, <1>8, <1>9, <3>1, <4>1, <5>1
        <5>2. CASE t # n
          <6>1. l2.previous[t] = l.previous[t]
            BY <1>7, <1>8, <2>3, <5>2
          <6>2. PICK u \in Signals : u = l.previous[t] /\ own[u] = i /\ rank[u] = rank[t] - 1 /\ u # s
            BY <3>1, <3>2, <3>3, <3>5 DEF Placed
          <6>3. rank[u] # 1
            <7> SUFFICES ASSUME rank[u] = 1 PROVE FALSE
              OBVIOUS
            <7>1. u = h
              BY <1>0, <1>3, <6>2 DEF Shape
            <7>2. Placed(l, own, rank, size, h) /\ rank[t] = 2
              BY <1>4, <3>1, <6>2
            <7>3. n # NULL
              BY <1>1, <1>3, <3>1, <3>5, <7>2 DEF Placed
            <7>4. own[n] = i /\ rank[n] = 2 /\ n \in Signals
              BY <1>3, <1>5, <7>3
            <7> QED BY <1>0, <3>5, <5>2, <7>2, <7>4 DEF Shape
          <6>4. rank[u] \in Nat /\ rank[u] > 1
            BY <1>2, <3>1, <3>3, <3>5, <6>2, <6>3 DEF GhostType
          <6>5. own2[u] = i /\ rank2[u] = rank[u] + 1
            BY <1>9, <6>2, <6>4
          <6> QED BY <1>0, <3>1, <3>5, <4>1, <6>1, <6>2, <6>4, <6>5
        <5> QED BY <5>1, <5>2
      <4> QED BY <4>2, <4>3, <4>4 DEF Placed
    <3> QED BY <3>4, <3>5
  <2> QED BY <2>1, <2>2, <2>3
<1>12. ASSUME NEW t \in Signals, NEW u \in Signals, own2[t] # 0, own2[t] = own2[u], rank2[t] = rank2[u]
       PROVE  t = u
  <2>1. rank[t] \in Nat /\ rank[u] \in Nat
    BY <1>2 DEF GhostType
  <2>2. \A v \in Signals : v # s /\ own[v] = i => rank2[v] # 2
    BY <1>2, <1>9 DEF GhostType
  <2>3. t = s \/ u = s => t = u
    BY <1>9, <1>12, <2>2
  <2>4. CASE t # s /\ u # s
    <3>1. own[t] # 0 /\ own[t] = own[u]
      BY <1>9, <1>12, <2>4
    <3>2. rank[t] = rank[u]
      BY <1>9, <1>12, <2>1, <2>4, <3>1
    <3> QED BY <3>1, <3>2 DEF Shape
  <2> QED BY <2>3, <2>4
<1>13. ASSUME NEW j \in Inputs PROVE Headed(l2, own2, rank2, size2, j)
  <2>1. Headed(l, own, rank, size, j) /\ l.input[j] \in Signals \cup {NULL} /\ l2.input[j] = l.input[j]
    BY <1>2, <1>8 DEF Shape, LinkFields
  <2>2. CASE j = i
    BY <1>0, <1>1, <1>3, <1>9, <2>1, <2>2 DEF Headed
  <2>3. CASE j # i
    <3>1. l.input[j] # s
      BY <1>0, <2>1 DEF Headed
    <3> QED BY <1>9, <2>1, <2>3, <3>1 DEF Headed
  <2> QED BY <2>2, <2>3
<1>14. Shape(l2, own2, rank2, size2)
  BY <1>8, <1>9, <1>10, <1>11, <1>12, <1>13 DEF Shape
<1> QED BY <1>1, <1>14

(* The links as they are once the head is stored back into the input map.  *)
Stored(k, h, i) == [k EXCEPT !.input[i] = h]

(* Signal::unlink: the neighbours of s are joined.                         *)
LEMMA UnlinkOne ==
  ASSUME NEW l, NEW own, NEW rank, NEW size, Shape(l, own, rank, size),
         NEW i \in Inputs, NEW s \in Signals, own[s] = i
  PROVE  \E u, own2, rank2, size2 :
           /\ u = Lists!Unlink(l, l.input[i], s)
           /\ own2 = [own EXCEPT ![s] = 0] /\ size2 = [size EXCEPT ![i] = @ - 1]
           /\ Shape(Stored(u.links, u.head, i), own2, rank2, size2)
<1>0. 0 \notin Inputs /\ NULL \notin Signals
  BY InputsFacts
<1>1. PICK h, n, p, u, own2, rank2, size2 :
        /\ h = l.input[i] /\ n = l.next[s] /\ p = l.previous[s] /\ u = Lists!Unlink(l, l.input[i], s)
        /\ own2 = [own EXCEPT ![s] = 0]
        /\ rank2 = [t \in Signals |-> IF own[t] = i /\ rank[t] > rank[s] THEN rank[t] - 1 ELSE rank[t]]
        /\ size2 = [size EXCEPT ![i] = @ - 1]
  OBVIOUS
<1>2. l \in LinkFields /\ GhostType(own, rank, size)
  BY DEF Shape
<1>3. /\ Placed(l, own, rank, size, s) /\ rank[s] \in Nat /\ size[i] \in Nat
      /\ n \in Signals \cup {NULL} /\ p \in Signals \cup {NULL} /\ h \in Signals \cup {NULL}
  BY <1>0, <1>1, <1>2 DEF Shape, LinkFields, GhostType
<1>4. rank[s] >= 1 /\ rank[s] =< size[i]
  BY <1>3 DEF Placed
<1>5. IF n = NULL THEN rank[s] = size[i]
      ELSE own[n] = i /\ rank[n] = rank[s] + 1 /\ n \in Signals /\ n # s /\ l.previous[n] = s
  <2>1. n = NULL => rank[s] = size[i]
    BY <1>1, <1>3 DEF Placed
  <2>2. n # NULL => own[n] = i /\ rank[n] = rank[s] + 1 /\ n \in Signals /\ n # s
    BY <1>1, <1>3 DEF Placed
  <2>3. ASSUME n # NULL PROVE l.previous[n] = s
    <3>1. Placed(l, own, rank, size, n) /\ l.previous[n] \in Signals \cup {NULL}
      BY <1>0, <1>2, <2>2, <2>3 DEF Shape, LinkFields
    <3>2. own[l.previous[n]] = i /\ rank[l.previous[n]] = rank[s] /\ l.previous[n] \in Signals
      BY <1>3, <1>4, <2>2, <2>3, <3>1 DEF Placed
    <3> QED BY <1>0, <3>2 DEF Shape
  <2> QED BY <2>1, <2>2, <2>3
<1>6. IF p = NULL THEN rank[s] = 1 /\ h = s
      ELSE own[p] = i /\ rank[p] = rank[s] - 1 /\ p \in Signals /\ p # s /\ l.next[p] = s /\ h # s
  <2>0. h # NULL /\ h \in Signals /\ own[h] = i /\ rank[h] = 1
    BY <1>1, <1>3, <1>4 DEF Shape, Headed
  <2>1. p = NULL => rank[s] = 1 /\ h = s
    BY <1>0, <1>1, <1>3, <2>0 DEF Placed, Shape
  <2>2. p # NULL => own[p] = i /\ rank[p] = rank[s] - 1 /\ p \in Signals /\ p # s
    BY <1>1, <1>3 DEF Placed
  <2>3. ASSUME p # NULL PROVE l.next[p] = s /\ h # s
    <3>1. /\ Placed(l, own, rank, size, p) /\ l.next[p] \in Signals \cup {NULL}
          /\ rank[p] \in Nat /\ rank[p] >= 1
      BY <1>0, <1>2, <2>2, <2>3 DEF Shape, LinkFields, GhostType, Placed
    <3>2. own[l.next[p]] = i /\ rank[l.next[p]] = rank[s] /\ l.next[p] \in Signals
      BY <1>3, <1>4, <2>2, <2>3, <3>1 DEF Placed
    <3> QED BY <1>0, <1>3, <2>0, <2>2, <2>3, <3>1, <3>2 DEF Shape
  <2> QED BY <2>1, <2>2, <2>3
<1>7. PICK nx, pv, l2 :
        /\ nx = [(IF p = NULL THEN l.next ELSE [l.next EXCEPT ![p] = n]) EXCEPT ![s] = NULL]
        /\ pv = [(IF n = NULL THEN l.previous ELSE [l.previous EXCEPT ![n] = p]) EXCEPT ![s] = NULL]
        /\ l2 = [u.links EXCEPT !.input[i] = u.head]
  OBVIOUS
<1>8. u.head = (IF s = h THEN n ELSE h) /\ u.links = [l EXCEPT !.next = nx, !.previous = pv]
  BY <1>1, <1>7 DEF Lists!Unlink
<1>9. /\ nx \in [Signals -> Signals \cup {NULL}] /\ pv \in [Signals -> Signals \cup {NULL}]
      /\ nx[s] = NULL /\ pv[s] = NULL /\ (n # NULL => pv[n] = p) /\ (p # NULL => nx[p] = n)
      /\ \A t \in Signals \ {p, s} : nx[t] = l.next[t]
      /\ \A t \in Signals \ {s, n} : pv[t] = l.previous[t]
  BY <1>2, <1>3, <1>5, <1>6, <1>7 DEF LinkFields
<1>10. /\ l2 \in LinkFields /\ l2.next = nx /\ l2.previous = pv
       /\ l2.input[i] = (IF s = h THEN n ELSE h) /\ \A j \in Inputs \ {i} : l2.input[j] = l.input[j]
  <2>1. PICK k, e : k = u.links /\ e = u.head
    OBVIOUS
  <2>2. k = [l EXCEPT !.next = nx, !.previous = pv] /\ e = (IF s = h THEN n ELSE h)
    BY <1>8, <2>1
  <2>3. k \in LinkFields /\ k.next = nx /\ k.previous = pv /\ k.input = l.input
    BY <1>2, <1>9, <2>2 DEF LinkFields
  <2>4. l2 = [k EXCEPT !.input[i] = e] /\ e \in Signals \cup {NULL}
    BY <1>3, <1>7, <2>1, <2>2
  <2> QED BY <1>2, <2>2, <2>3, <2>4 DEF LinkFields
<1>11. /\ GhostType(own2, rank2, size2)
       /\ own2[s] = 0 /\ size2[i] = size[i] - 1
       /\ \A t \in Signals \ {s} : own2[t] = own[t]
       /\ \A t \in Signals : rank2[t] = IF own[t] = i /\ rank[t] > rank[s] THEN rank[t] - 1 ELSE rank[t]
       /\ \A j \in Inputs \ {i} : size2[j] = size[j]
  BY <1>1, <1>2, <1>3, <1>4 DEF GhostType
<1>12. \A t \in Signals : own2[t] = 0 => l2.next[t] = NULL /\ l2.previous[t] = NULL
  BY <1>0, <1>5, <1>6, <1>9, <1>10, <1>11 DEF Shape
<1>13. ASSUME NEW t \in Signals, own2[t] # 0 PROVE Placed(l2, own2, rank2, size2, t)
  <2>1. /\ Placed(l, own, rank, size, t) /\ own[t] \in Inputs /\ own2[t] = own[t] /\ t # s
        /\ l.next[t] \in Signals \cup {NULL} /\ l.previous[t] \in Signals \cup {NULL}
        /\ rank[t] \in Nat /\ size[own[t]] \in Nat /\ rank[t] >= 1 /\ rank[t] =< size[own[t]]
    BY <1>0, <1>2, <1>11, <1>13 DEF Shape, GhostType, LinkFields, Placed
  <2>2. own[t] = i => rank[t] # rank[s]
    BY <1>0, <2>1 DEF Shape
  <2>3. CASE own[t] # i
    <3>1. rank2[t] = rank[t] /\ size2[own[t]] = size[own[t]] /\ t # n /\ t # p
      BY <1>0, <1>5, <1>6, <1>11, <2>1, <2>3
    <3>2. l2.next[t] = l.next[t] /\ l2.previous[t] = l.previous[t]
      BY <1>9, <1>10, <2>1, <3>1
    <3>3. \A v \in Signals : own[v] = own[t] => v # s /\ own2[v] = own[v] /\ rank2[v] = rank[v]
      BY <1>11, <2>3
    <3> QED BY <2>1, <3>1, <3>2, <3>3 DEF Placed
  <2>4. CASE own[t] = i
    <3>1. size2[own2[t]] = size[i] - 1
      BY <1>11, <2>1, <2>4
    <3>2. rank2[t] >= 1 /\ rank2[t] =< size2[own2[t]]
      BY <1>3, <1>4, <1>11, <2>1, <2>2, <2>4, <3>1
    <3>3. \/ l2.next[t] = NULL /\ rank2[t] = size2[own2[t]]
          \/ l2.next[t] # NULL /\ own2[l2.next[t]] = own2[t] /\ rank2[l2.next[t]] = rank2[t] + 1
      <4>1. CASE t = p
        <5>1. l2.next[t] = n /\ rank[t] = rank[s] - 1 /\ rank2[t] = rank[t]
          BY <1>3, <1>6, <1>9, <1>10, <1>11, <2>1, <4>1, <1>0
        <5>2. n # NULL => own2[n] = i /\ rank2[n] = rank[s]
          BY <1>3, <1>5, <1>11
        <5>3. n = NULL => rank2[t] = size[i] - 1
          BY <1>5, <5>1
        <5> QED BY <1>3, <2>1, <2>4, <3>1, <5>1, <5>2, <5>3
      <4>2. CASE t # p
        <5>1. l2.next[t] = l.next[t]
          BY <1>9, <1>10, <2>1, <4>2
        <5>2. CASE l.next[t] = NULL
          <6>1. rank[t] = size[i]
            BY <2>1, <2>4, <5>2 DEF Placed
          <6>2. rank2[t] = size[i] - 1
            BY <1>3, <1>4, <1>11, <2>1, <2>2, <2>4, <6>1
          <6> QED BY <3>1, <5>1, <5>2, <6>2
        <5>3. CASE l.next[t] # NULL
          <6>1. PICK v \in Signals : v = l.next[t] /\ own[v] = i /\ rank[v] = rank[t] + 1
            BY <2>1, <2>4, <5>3 DEF Placed
          <6>2. v # s
            <7> SUFFICES ASSUME v = s PROVE FALSE
              OBVIOUS
            <7>1. rank[s] = rank[t] + 1
              BY <6>1
            <7>2. p # NULL /\ own[p] = i /\ rank[p] = rank[t] /\ p \in Signals
              BY <1>3, <1>6, <2>1, <7>1
            <7> QED BY <1>0, <2>4, <4>2, <7>2 DEF Shape
          <6>3. own2[v] = i /\ rank2[v] = IF rank[v] > rank[s] THEN rank[v] - 1 ELSE rank[v]
            BY <1>11, <6>1, <6>2
          <6>4. rank[v] # rank[s]
            BY <1>0, <6>1, <6>2 DEF Shape
          <6>5. rank2[v] = rank2[t] + 1
            BY <1>3, <1>11, <2>1, <2>2, <2>4, <6>1, <6>3, <6>4
          <6> QED BY <2>1, <2>4, <5>1, <5>3, <6>1, <6>3, <6>5
        <5> QED BY <5>2, <5>3
      <4> QED BY <4>1, <4>2
    <3>4. \/ l2.previous[t] = NULL /\ rank2[t] = 1
          \/ /\ l2.previous[t] # NULL /\ own2[l2.previous[t]] = own2[t]
             /\ rank2[l2.previous[t]] = rank2[t] - 1
      <4>1. CASE t = n
        <5>1. l2.previous[t] = p /\ rank[t] = rank[s] + 1 /\ rank2[t] = rank[s]
          BY <1>0, <1>3, <1>5, <1>9, <1>10, <1>11, <2>1, <2>4, <4>1
        <5>2. p # NULL => own2[p] = i /\ rank2[p] = rank[s] - 1
          BY <1>3, <1>6, <1>11
        <5> QED BY <1>6, <2>1, <2>4, <5>1, <5>2
      <4>2. CASE t # n
        <5>1. l2.previous[t] = l.previous[t]
          BY <1>9, <1>10, <2>1, <4>2
        <5>2. CASE l.previous[t] = NULL
          <6>1. rank[t] = 1
            BY <2>1, <5>2 DEF Placed
          <6>2. rank2[t] = 1
            BY <1>3, <1>4, <1>11, <2>1, <2>2, <2>4, <6>1
          <6> QED BY <5>1, <5>2, <6>2
        <5>3. CASE l.previous[t] # NULL
          <6>1. PICK v \in Signals : v = l.previous[t] /\ own[v] = i /\ rank[v] = rank[t] - 1
            BY <2>1, <2>4, <5>3 DEF Placed
          <6>2. v # s
            <7> SUFFICES ASSUME v = s PROVE FALSE
              OBVIOUS
            <7>1. rank[s] = rank[t] - 1
              BY <6>1
            <7>2. n # NULL /\ own[n] = i /\ rank[n] = rank[t] /\ n \in Signals
              BY <1>3, <1>5, <2>1, <2>4, <7>1
            <7> QED BY <1>0, <2>4, <4>2, <7>2 DEF Shape
          <6>3. own2[v] = i /\ rank2[v] = IF rank[v] > rank[s] THEN rank[v] - 1 ELSE rank[v]
            BY <1>11, <6>1, <6>2
          <6>4. rank[v] # rank[s]
            BY <1>0, <6>1, <6>2 DEF Shape
          <6>5. rank2[v] = rank2[t] - 1
            BY <1>3, <1>11, <2>1, <2>2, <2>4, <6>1, <6>3, <6>4
          <6> QED BY <2>1, <2>4, <5>1, <5>3, <6>1, <6>3, <6>5
        <5> QED BY <5>2, <5>3
      <4> QED BY <4>1, <4>2
    <3> QED BY <3>2, <3>3, <3>4 DEF Placed
  <2> QED BY <2>3, <2>4
<1>14. ASSUME NEW t \in Signals, NEW v \in Signals, own2[t] # 0, own2[t] = own2[v], rank2[t] = rank2[v]
       PROVE  t = v
  <2>1. own[t] # 0 /\ own[t] = own[v] /\ t # s /\ v # s /\ rank[t] \in Nat /\ rank[v] \in Nat
    BY <1>2, <1>11, <1>14 DEF GhostType
  <2>2. own[t] = i => rank[t] # rank[s] /\ rank[v] # rank[s]
    BY <1>0, <2>1 DEF Shape
  <2>3. rank[t] = rank[v]
    BY <1>3, <1>11, <1>14, <2>1, <2>2
  <2> QED BY <2>1, <2>3 DEF Shape
<1>15. ASSUME NEW j \in Inputs PROVE Headed(l2, own2, rank2, size2, j)
  <2>1. Headed(l, own, rank, size, j) /\ l.input[j] \in Signals \cup {NULL}
    BY <1>2 DEF Shape, LinkFields
  <2>2. CASE j # i
    <3>1. l.input[j] # s
      BY <1>0, <2>1, <2>2 DEF Headed
    <3> QED BY <1>10, <1>11, <2>1, <2>2, <3>1 DEF Headed
  <2>3. CASE j = i /\ s # h
    <3>1. h # NULL /\ h \in Signals /\ own[h] = i /\ rank[h] = 1
      BY <1>1, <1>3, <1>4, <2>1, <2>3 DEF Headed
    <3>2. own2[h] = i /\ rank2[h] = 1
      BY <1>3, <1>4, <1>11, <2>3, <3>1
    <3> QED BY <1>10, <2>3, <3>1, <3>2 DEF Headed
  <2>4. CASE j = i /\ s = h
    <3>1. rank[s] = 1 /\ l2.input[i] = n
      BY <1>6, <1>10, <2>4
    <3>2. n = NULL => size2[i] = 0
      BY <1>5, <1>11, <3>1
    <3>3. n # NULL => own2[n] = i /\ rank2[n] = 1
      BY <1>5, <1>11, <3>1
    <3> QED BY <2>4, <3>1, <3>2, <3>3 DEF Headed
  <2> QED BY <2>2, <2>3, <2>4
<1>16. Shape(l2, own2, rank2, size2)
  BY <1>10, <1>11, <1>12, <1>13, <1>14, <1>15 DEF Shape
<1> QED BY <1>1, <1>7, <1>16 DEF Stored

(* Every place of a list is taken.                                         *)
LEMMA PlacesTaken ==
  ASSUME NEW l, NEW own, NEW rank, NEW size, Shape(l, own, rank, size), NEW i \in Inputs
  PROVE  /\ \A k \in 1..size[i] : \E s \in Signals : own[s] = i /\ rank[s] = k
         /\ size[i] \in Nat /\ size[i] =< Cardinality(Signals)
<1>0. 0 \notin Inputs /\ NULL \notin Signals
  BY InputsFacts
<1>1. /\ size[i] \in Nat /\ l.input[i] \in Signals \cup {NULL} /\ Headed(l, own, rank, size, i)
      /\ \A s \in Signals : l.next[s] \in Signals \cup {NULL} /\ rank[s] \in Nat
      /\ \A s \in Signals : own[s] = i => Placed(l, own, rank, size, s)
  BY <1>0 DEF Shape, GhostType, LinkFields
<1> DEFINE Bad == {k \in 1..size[i] : ~\E s \in Signals : own[s] = i /\ rank[s] = k}
<1>2. CASE Bad # {}
  <2>1. PICK k \in Bad : \A y \in Bad : k =< y
    <3>1. Bad \subseteq Nat
      BY <1>1
    <3> HIDE DEF Bad
    <3> QED BY <1>2, <3>1, MinIsMember
  <2>2. k \in 1..size[i] /\ ~\E s \in Signals : own[s] = i /\ rank[s] = k
    BY <2>1
  <2>3. k # 1
    BY <1>1, <2>2 DEF Headed
  <2>4. k - 1 \in 1..size[i] /\ k - 1 \notin Bad
    BY <1>1, <2>1, <2>2, <2>3
  <2>5. PICK s \in Signals : own[s] = i /\ rank[s] = k - 1
    BY <2>4
  <2>6. l.next[s] \in Signals /\ own[l.next[s]] = i /\ rank[l.next[s]] = k
    BY <1>1, <2>2, <2>5 DEF Placed
  <2> QED BY <2>2, <2>6
<1>3. \A k \in 1..size[i] : \E s \in Signals : own[s] = i /\ rank[s] = k
  BY <1>2
<1> DEFINE f == [k \in 1..size[i] |-> CHOOSE s \in Signals : own[s] = i /\ rank[s] = k]
<1>4. \A k \in 1..size[i] : f[k] \in Signals /\ own[f[k]] = i /\ rank[f[k]] = k
  BY <1>3
<1>5. f \in Injection(1..size[i], Signals)
  <2>1. f \in [1..size[i] -> Signals]
    BY <1>4
  <2>2. \A j, k \in 1..size[i] : f[j] = f[k] => j = k
    BY <1>4
  <2> HIDE DEF f
  <2> QED BY <2>1, <2>2 DEF Injection, IsInjective
<1>6. Cardinality(1..size[i]) =< Cardinality(Signals)
  BY <1>5, InputsFacts, FS_Injection
<1>7. Cardinality(1..size[i]) = size[i]
  BY <1>1, FS_Interval
<1> QED BY <1>1, <1>3, <1>6, <1>7

IsWalk(f, l, h) ==
  f = [n \in 0..Lists!Cardinality(Signals) |->
         IF n = 0 THEN h
         ELSE LET s == f[n-1] IN IF s = NULL THEN NULL ELSE l.next[s]]

(* Following next from the head meets the signals of the list by their     *)
(* place, then NULL.                                                       *)
LEMMA WalkPlaces ==
  ASSUME NEW l, NEW own, NEW rank, NEW size, Shape(l, own, rank, size), NEW i \in Inputs,
         NEW f, NEW n \in 0..Cardinality(Signals),
         IsWalk(f, l, l.input[i])
  PROVE  IF n < size[i] THEN f[n] \in Signals /\ own[f[n]] = i /\ rank[f[n]] = n + 1
         ELSE f[n] = NULL
<1>0. NULL \notin Signals /\ 0 \notin Inputs /\ Cardinality(Signals) \in Nat
  BY InputsFacts
<1>1. PICK N \in Nat, z \in Nat, h \in Signals \cup {NULL} :
         N = Cardinality(Signals) /\ z = size[i] /\ h = l.input[i] /\ z =< N
  BY <1>0, PlacesTaken DEF Shape, LinkFields
<1>2. f[0] = h /\ \A k \in 1..N : f[k] = IF f[k - 1] = NULL THEN NULL ELSE l.next[f[k - 1]]
  BY <1>1, SameCardinality DEF IsWalk
<1>3. /\ Headed(l, own, rank, size, i)
      /\ \A s \in Signals : l.next[s] \in Signals \cup {NULL} /\ rank[s] \in Nat
      /\ \A s \in Signals : own[s] = i => Placed(l, own, rank, size, s)
  BY <1>0 DEF Shape, GhostType, LinkFields
<1> DEFINE Good(k) == IF k < z THEN f[k] \in Signals /\ own[f[k]] = i /\ rank[f[k]] = k + 1
                      ELSE f[k] = NULL
           Bad == {k \in 0..N : ~Good(k)}
<1>4. Good(0)
  BY <1>0, <1>1, <1>2, <1>3 DEF Headed, Placed
<1>5. ASSUME NEW k \in 1..N, Good(k - 1) PROVE Good(k)
  <2>1. CASE k - 1 < z
    <3>1. PICK s \in Signals : s = f[k - 1] /\ own[s] = i /\ rank[s] = k
      BY <1>5, <2>1
    <3>2. f[k] = l.next[s]
      BY <1>0, <1>2, <3>1
    <3>3. IF l.next[s] = NULL THEN k = z ELSE own[l.next[s]] = i /\ rank[l.next[s]] = k + 1 /\ k + 1 =< z
      BY <1>1, <1>3, <3>1 DEF Placed
    <3> QED BY <1>1, <1>3, <2>1, <3>1, <3>2, <3>3
  <2>2. CASE ~(k - 1 < z)
    <3>1. f[k] = NULL
      BY <1>2, <1>5, <2>2
    <3> QED BY <1>1, <2>2, <3>1
  <2> QED BY <2>1, <2>2
<1>6. CASE Bad # {}
  <2>1. PICK k \in Bad : \A y \in Bad : k =< y
    <3>1. Bad \subseteq Nat
      BY <1>1
    <3> QED BY <1>6, <3>1, MinIsMember
  <2>2. k \in 0..N /\ ~Good(k) /\ k # 0
    BY <1>4, <2>1
  <2>3. k \in 1..N /\ k - 1 \in 0..N /\ k - 1 \notin Bad
    BY <2>1, <2>2
  <2>4. Good(k - 1)
    BY <2>3
  <2> QED BY <1>5, <2>2, <2>3, <2>4
<1>7. Good(n)
  BY <1>1, <1>6
<1> QED BY <1>1, <1>7

LEMMA WalkExists ==
  ASSUME NEW l, NEW own, NEW rank, NEW size, Shape(l, own, rank, size), NEW i \in Inputs
  PROVE  \E f : IsWalk(f, l, l.input[i])
<1>0. NULL \notin Signals /\ 0 \notin Inputs /\ Cardinality(Signals) \in Nat
  BY InputsFacts
<1>1. PICK N \in Nat, z \in Nat, h \in Signals \cup {NULL} :
         N = Cardinality(Signals) /\ z = size[i] /\ h = l.input[i] /\ z =< N
  BY <1>0, PlacesTaken DEF Shape, LinkFields
<1>2. \A k \in 1..z : \E s \in Signals : own[s] = i /\ rank[s] = k
  BY <1>1, PlacesTaken
<1>3. /\ Headed(l, own, rank, size, i)
      /\ \A s \in Signals : l.next[s] \in Signals \cup {NULL} /\ rank[s] \in Nat
      /\ \A s \in Signals : own[s] = i => Placed(l, own, rank, size, s)
      /\ \A s, t \in Signals : own[s] = i /\ own[t] = i /\ rank[s] = rank[t] => s = t
  BY <1>0 DEF Shape, GhostType, LinkFields
<1> DEFINE f == [n \in 0..N |-> IF n < z THEN CHOOSE s \in Signals : own[s] = i /\ rank[s] = n + 1
                                ELSE NULL]
<1>4. \A n \in 0..N : IF n < z THEN f[n] \in Signals /\ own[f[n]] = i /\ rank[f[n]] = n + 1
                      ELSE f[n] = NULL
  <2> SUFFICES ASSUME NEW n \in 0..N
               PROVE  IF n < z THEN f[n] \in Signals /\ own[f[n]] = i /\ rank[f[n]] = n + 1
                      ELSE f[n] = NULL
    OBVIOUS
  <2>1. CASE n < z
    <3>1. n + 1 \in 1..z
      BY <1>1, <2>1
    <3> QED BY <1>2, <2>1, <3>1
  <2> QED BY <2>1
<1>5. DOMAIN f = 0..N
  OBVIOUS
<1> HIDE DEF f
<1>6. f[0] = h
  <2>1. 0 \in 0..N /\ 0 + 1 = 1
    BY <1>1
  <2> QED BY <1>0, <1>1, <1>3, <1>4, <2>1 DEF Headed, Placed
<1>7. ASSUME NEW n \in 1..N PROVE f[n] = IF f[n - 1] = NULL THEN NULL ELSE l.next[f[n - 1]]
  <2>1. n - 1 \in 0..N /\ n \in 0..N /\ (n - 1) + 1 = n
    BY <1>1
  <2>2. CASE n - 1 < z
    <3>1. PICK s \in Signals : s = f[n - 1] /\ own[s] = i /\ rank[s] = n
      BY <1>4, <2>1, <2>2
    <3>2. IF l.next[s] = NULL THEN n = z ELSE own[l.next[s]] = i /\ rank[l.next[s]] = n + 1 /\ n + 1 =< z
      BY <1>1, <1>3, <3>1 DEF Placed
    <3>3. CASE l.next[s] = NULL
      BY <1>0, <1>1, <1>4, <2>1, <3>1, <3>2, <3>3
    <3>4. CASE l.next[s] # NULL
      <4>1. PICK t \in Signals : t = l.next[s]
        BY <1>3, <3>4
      <4>2. f[n] \in Signals /\ own[f[n]] = i /\ rank[f[n]] = n + 1
        BY <1>1, <1>4, <2>1, <3>2, <3>4
      <4>3. f[n] = t
        BY <1>3, <3>2, <3>4, <4>1, <4>2
      <4> QED BY <1>0, <3>1, <4>1, <4>3
    <3> QED BY <3>3, <3>4
  <2>3. CASE ~(n - 1 < z)
    <3>1. f[n - 1] = NULL /\ f[n] = NULL
      BY <1>1, <1>4, <2>1, <2>3
    <3> QED BY <3>1
  <2> QED BY <2>2, <2>3
<1>8. f = [n \in 0..N |-> f[n]]
  BY <1>5 DEF f
<1>9. \A n \in 0..N : f[n] = IF n = 0 THEN h ELSE IF f[n - 1] = NULL THEN NULL ELSE l.next[f[n - 1]]
  BY <1>1, <1>6, <1>7
<1>10. f = [n \in 0..N |-> IF n = 0 THEN h ELSE IF f[n - 1] = NULL THEN NULL ELSE l.next[f[n - 1]]]
  BY <1>8, <1>9
<1> QED BY <1>1, <1>10, SameCardinality DEF IsWalk

(* What the walks of the code meet.                                        *)
LEMMA MembersView ==
  ASSUME NEW l, NEW own, NEW rank, NEW size, Shape(l, own, rank, size), NEW i \in Inputs
  PROVE  /\ Lists!Members(l, l.input[i]) = {s \in Signals : own[s] = i}
         /\ Lists!Terminates(l, l.input[i])
<1>0. NULL \notin Signals /\ 0 \notin Inputs /\ Cardinality(Signals) \in Nat
  BY InputsFacts
<1>1. PICK w : w = Lists!Walk(l, l.input[i])
  OBVIOUS
<1>2. w = CHOOSE f : IsWalk(f, l, l.input[i])
  BY <1>1 DEF Lists!Walk, IsWalk
<1>3. IsWalk(w, l, l.input[i])
  BY <1>2, WalkExists
<1>4. PICK N \in Nat, z \in Nat : N = Cardinality(Signals) /\ z = size[i] /\ z =< N
  BY <1>0, PlacesTaken
<1>5. \A n \in 0..N : IF n < z THEN w[n] \in Signals /\ own[w[n]] = i /\ rank[w[n]] = n + 1
                      ELSE w[n] = NULL
  BY <1>3, <1>4, WalkPlaces
<1>6. \A s \in Signals : own[s] = i => rank[s] \in 1..z
  BY <1>0, <1>4 DEF Shape, GhostType, Placed
<1>7. ASSUME NEW s \in Signals, own[s] = i PROVE \E n \in 0..N : w[n] = s
  <2>1. PICK n : n = rank[s] - 1
    OBVIOUS
  <2>2. n \in 0..N /\ n < z /\ n + 1 = rank[s]
    BY <1>4, <1>6, <1>7, <2>1
  <2>3. w[n] \in Signals /\ own[w[n]] = i /\ rank[w[n]] = rank[s]
    BY <1>5, <2>2
  <2>4. w[n] = s
    BY <1>0, <1>7, <2>3 DEF Shape
  <2> QED BY <2>2, <2>4
<1>8. {w[n] : n \in 0..N} \ {NULL} = {s \in Signals : own[s] = i}
  BY <1>0, <1>5, <1>7
<1>9. w[N] = NULL
  BY <1>4, <1>5
<1> QED BY <1>1, <1>4, <1>8, <1>9, SameCardinality DEF Lists!Members, Lists!Terminates

LEMMA ListedView ==
  ASSUME NEW l, NEW own, NEW rank, NEW size, Shape(l, own, rank, size)
  PROVE  Listed(l) = {s \in Signals : own[s] # 0}
<1>1. \A i \in Inputs : Lists!Members(l, l.input[i]) = {s \in Signals : own[s] = i}
  BY MembersView
<1>2. own \in [Signals -> Inputs \cup {0}] /\ 0 \notin Inputs
  BY InputsFacts DEF Shape, GhostType
<1> QED BY <1>1, <1>2 DEF Listed

(* One round of the inner loop of detach_all_inputs.                       *)
DrainStep(r, out) ==
  LET u == Lists!Unlink(r.links, r.head, r.at)
  IN CASE r.at = NULL -> r
       [] r.at \in out ->
            [links |-> u.links, head |-> u.head, at |-> u.head,
             visits |-> [r.visits EXCEPT ![r.at] = @ + 1]]
       [] OTHER -> [r EXCEPT !.at = r.links.next[r.at]]

Round == INSTANCE ListLemmas WITH Op <- DrainStep

FirstRound(l, i) ==
  [links  |-> l, head |-> l.input[i], at |-> l.input[i], visits |-> [s \in Signals |-> 0]]

IsRounds(f, l, i, out) ==
  f = [n \in 0..Lists!Rounds |-> IF n = 0 THEN FirstRound(l, i) ELSE DrainStep(f[n-1], out)]

LEMMA RoundsFacts ==
  /\ Lists!Rounds \in Nat /\ Cardinality(Signals) \in Nat
  /\ Lists!Rounds = (Cardinality(Signals) + 1) * (Cardinality(Signals) + 1)
<1>1. PICK N \in Nat : N = Cardinality(Signals)
  BY InputsFacts
<1>2. (N + 1) * (N + 1) \in Nat
  OBVIOUS
<1>3. Lists!Rounds = (N + 1) * (N + 1)
  BY <1>1, SameCardinality DEF Lists!Rounds
<1> QED BY <1>1, <1>2, <1>3

LEMMA RoundsExist ==
  ASSUME NEW l, NEW i, NEW out
  PROVE  \E f : IsRounds(f, l, i, out)
<1>1. PICK n \in Nat : n = Lists!Rounds
  BY RoundsFacts
<1>2. PICK s : s = [k \in 1..n |-> out]
  OBVIOUS
<1>3. s \in [1..n -> {out}]
  BY <1>2
<1>4. s \in Seq({out}) /\ Len(s) = n
  BY <1>3, IntervalIsSeq, LenProperties
<1>5. PICK b : b = FirstRound(l, i)
  OBVIOUS
<1>6. PICK r : Round!IsRun(r, b, s)
  BY <1>4, Round!FoldHasRun
<1>7. /\ r[0] = b /\ \A k \in 1..n : r[k] = DrainStep(r[k - 1], out)
  BY <1>2, <1>4, <1>6 DEF Round!IsRun
<1>8. PICK f : f = [k \in 0..n |-> r[k]]
  OBVIOUS
<1>9. \A k \in 0..n : f[k] = IF k = 0 THEN b ELSE DrainStep(f[k - 1], out)
  <2> SUFFICES ASSUME NEW k \in 0..n
               PROVE  f[k] = IF k = 0 THEN b ELSE DrainStep(f[k - 1], out)
    OBVIOUS
  <2>1. CASE k = 0
    BY <1>7, <1>8, <2>1
  <2>2. CASE k # 0
    <3>1. k \in 1..n /\ k - 1 \in 0..n
      BY <2>2
    <3>2. f[k] = r[k] /\ f[k - 1] = r[k - 1]
      BY <1>8, <3>1
    <3> QED BY <1>7, <2>2, <3>1, <3>2
  <2> QED BY <2>1, <2>2
<1>10. f = [k \in 0..n |-> IF k = 0 THEN b ELSE DrainStep(f[k - 1], out)]
  BY <1>8, <1>9
<1> QED BY <1>1, <1>5, <1>10 DEF IsRounds

(* DrainInput runs that loop Rounds times.                                 *)
LEMMA DrainInputRounds ==
  ASSUME NEW l, NEW i, NEW out
  PROVE  \E f : /\ f[0] = FirstRound(l, i)
                /\ \A n \in 1..Lists!Rounds : f[n] = DrainStep(f[n - 1], out)
                /\ Lists!DrainInput(l, i, out) =
                     [links  |-> [f[Lists!Rounds].links EXCEPT !.input[i] = f[Lists!Rounds].head],
                      visits |-> f[Lists!Rounds].visits]
<1>1. PICK f : f = CHOOSE g : IsRounds(g, l, i, out)
  OBVIOUS
<1>2. IsRounds(f, l, i, out)
  BY <1>1, RoundsExist
<1>3. Lists!DrainInput(l, i, out) =
        [links  |-> [f[Lists!Rounds].links EXCEPT !.input[i] = f[Lists!Rounds].head],
         visits |-> f[Lists!Rounds].visits]
  BY <1>1 DEF Lists!DrainInput, IsRounds, FirstRound, DrainStep
<1>4. f[0] = FirstRound(l, i)
  BY <1>2, RoundsFacts DEF IsRounds
<1>5. \A n \in 1..Lists!Rounds : f[n] = DrainStep(f[n - 1], out)
  BY <1>2, RoundsFacts DEF IsRounds
<1> QED BY <1>3, <1>4, <1>5

LEMMA SameFields ==
  ASSUME NEW x \in LinkFields, NEW y \in LinkFields,
         x.input = y.input, x.next = y.next, x.previous = y.previous
  PROVE  x = y
  BY DEF LinkFields

(* The next fields (or, with the neighbours exchanged, the previous ones)  *)
(* once s is taken from between p and n.                                   *)
Without(b, p, n, s) == [(IF p = NULL THEN b ELSE [b EXCEPT ![p] = n]) EXCEPT ![s] = NULL]

Relinked(k, nx, pv) == [k EXCEPT !.next = nx, !.previous = pv]

LEMMA UnlinkForm ==
  ASSUME NEW k, NEW h, NEW s
  PROVE  Lists!Unlink(k, h, s) =
           [head  |-> IF s = h THEN k.next[s] ELSE h,
            links |-> Relinked(k, Without(k.next, k.previous[s], k.next[s], s),
                                  Without(k.previous, k.next[s], k.previous[s], s))]
  BY DEF Lists!Unlink, Without, Relinked

(* Unlink does not look at the input it is told the head of.               *)
LEMMA UnlinkAgrees ==
  ASSUME NEW k \in LinkFields, NEW h \in Signals \cup {NULL}, NEW i \in Inputs, NEW s \in Signals,
         NEW v, v = Stored(k, h, i),
         NEW u, u = Lists!Unlink(k, h, s), NEW x, x = Lists!Unlink(v, v.input[i], s)
  PROVE  /\ u.head = x.head /\ u.links \in LinkFields /\ u.head \in Signals \cup {NULL}
         /\ Stored(u.links, u.head, i) = Stored(x.links, x.head, i)
<1>1. PICK a, b, c : a = k.input /\ b = k.next /\ c = k.previous
  OBVIOUS
<1>2. /\ a \in [Inputs -> Signals \cup {NULL}] /\ b \in [Signals -> Signals \cup {NULL}]
      /\ c \in [Signals -> Signals \cup {NULL}]
  BY <1>1 DEF LinkFields
<1>3. /\ v \in LinkFields /\ v.input = [a EXCEPT ![i] = h] /\ v.next = b /\ v.previous = c
  BY <1>1 DEF LinkFields, Stored
<1>4. v.input[i] = h
  BY <1>2, <1>3
<1>5. PICK n, p : n = b[s] /\ p = c[s]
  OBVIOUS
<1>6. PICK nx, pv, e :
        /\ nx = Without(b, p, n, s) /\ pv = Without(c, n, p, s)
        /\ e = IF s = h THEN n ELSE h
  OBVIOUS
<1>7. /\ n \in Signals \cup {NULL} /\ p \in Signals \cup {NULL} /\ e \in Signals \cup {NULL}
      /\ nx \in [Signals -> Signals \cup {NULL}] /\ pv \in [Signals -> Signals \cup {NULL}]
  BY <1>2, <1>5, <1>6 DEF Without
<1>8. PICK y, z : y = Relinked(k, nx, pv) /\ z = Relinked(v, nx, pv)
  OBVIOUS
<1>9. u = [head |-> e, links |-> y]
  BY <1>1, <1>5, <1>6, <1>8, UnlinkForm
<1>10. x = [head |-> e, links |-> z]
  <2>1. x = Lists!Unlink(v, h, s) /\ v.next = b /\ v.previous = c
    BY <1>3, <1>4
  <2>2. Lists!Unlink(v, h, s) = [head |-> e, links |-> z]
    BY <1>5, <1>6, <1>8, <2>1, UnlinkForm
  <2> QED BY <2>1, <2>2
<1>11. u.head = e /\ x.head = e /\ u.links = y /\ x.links = z
  BY <1>9, <1>10
<1>12. y \in LinkFields /\ y.input = a /\ y.next = nx /\ y.previous = pv
  BY <1>1, <1>7, <1>8 DEF LinkFields, Relinked
<1>13. z \in LinkFields /\ z.input = [a EXCEPT ![i] = h] /\ z.next = nx /\ z.previous = pv
  BY <1>3, <1>7, <1>8 DEF LinkFields, Relinked
<1>14. PICK f, g : f = [y EXCEPT !.input[i] = e] /\ g = [z EXCEPT !.input[i] = e]
  OBVIOUS
<1>15. f \in LinkFields /\ f.input = [a EXCEPT ![i] = e] /\ f.next = nx /\ f.previous = pv
  BY <1>7, <1>12, <1>14 DEF LinkFields
<1>16. g \in LinkFields /\ g.input = [[a EXCEPT ![i] = h] EXCEPT ![i] = e] /\ g.next = nx /\ g.previous = pv
  BY <1>7, <1>13, <1>14 DEF LinkFields
<1>17. [a EXCEPT ![i] = e] = [[a EXCEPT ![i] = h] EXCEPT ![i] = e]
  BY <1>2
<1>18. f = g
  BY <1>15, <1>16, <1>17, SameFields
<1> QED BY <1>7, <1>11, <1>12, <1>14, <1>18 DEF Stored

RoundFields == [links : LinkFields, head : Signals \cup {NULL}, at : Signals \cup {NULL},
                visits : [Signals -> Nat]]

(* After n rounds on input i, of lists that were own0: signals of out have *)
(* been taken out, each counted once, those that are left are at or behind *)
(* r.at, and the rounds that are left are enough.                          *)
Draining(r, n, own0, i, out, own, rank, size) ==
  /\ r \in RoundFields
  /\ Shape(Stored(r.links, r.head, i), own, rank, size)
  /\ \A s \in Signals : /\ own[s] = own0[s] \/ (own0[s] = i /\ s \in out /\ own[s] = 0)
                        /\ r.visits[s] = IF own[s] = own0[s] THEN 0 ELSE 1
                        /\ own[s] = i /\ s \in out => r.at # NULL /\ rank[s] >= rank[r.at]
  /\ r.at # NULL =>
       /\ own[r.at] = i
       /\ n + size[i] * (Cardinality(Signals) + 1) + (size[i] - rank[r.at] + 1) =< Lists!Rounds

LEMMA StoredFields ==
  ASSUME NEW k \in LinkFields, NEW h \in Signals \cup {NULL}, NEW i \in Inputs
  PROVE  /\ Stored(k, h, i) \in LinkFields /\ Stored(k, h, i).input[i] = h
         /\ Stored(k, h, i).next = k.next /\ Stored(k, h, i).previous = k.previous
  BY DEF Stored, LinkFields

LEMMA DrainBegins ==
  ASSUME NEW l, NEW own, NEW rank, NEW size, Shape(l, own, rank, size), NEW i \in Inputs, NEW out
  PROVE  Draining(FirstRound(l, i), 0, own, i, out, own, rank, size)
<1>0. 0 \notin Inputs /\ NULL \notin Signals
  BY InputsFacts
<1>1. PICK r : r = FirstRound(l, i)
  OBVIOUS
<1>2. l \in LinkFields /\ l.input[i] \in Signals \cup {NULL}
  BY DEF Shape, LinkFields
<1>3. /\ r \in RoundFields /\ r.links = l /\ r.head = l.input[i] /\ r.at = l.input[i]
      /\ r.visits = [s \in Signals |-> 0]
  BY <1>1, <1>2 DEF FirstRound, RoundFields
<1>4. Stored(r.links, r.head, i) = l
  <2>1. PICK a : a = l.input
    OBVIOUS
  <2>2. a \in [Inputs -> Signals \cup {NULL}] /\ [a EXCEPT ![i] = a[i]] = a
    BY <1>2, <2>1 DEF LinkFields
  <2>3. PICK y : y = Stored(l, a[i], i)
    OBVIOUS
  <2>4. y \in LinkFields /\ y.input = [a EXCEPT ![i] = a[i]] /\ y.next = l.next /\ y.previous = l.previous
    BY <1>2, <2>1, <2>2, <2>3 DEF Stored, LinkFields
  <2>5. y = l
    BY <1>2, <2>1, <2>2, <2>4, SameFields
  <2> QED BY <1>3, <2>1, <2>3, <2>5
<1>5. Headed(l, own, rank, size, i) /\ GhostType(own, rank, size)
  BY DEF Shape
<1>6. \A s \in Signals : own[s] = i => r.at # NULL /\ rank[s] >= rank[r.at]
  <2> SUFFICES ASSUME NEW s \in Signals, own[s] = i PROVE r.at # NULL /\ rank[s] >= rank[r.at]
    OBVIOUS
  <2>1. Placed(l, own, rank, size, s) /\ rank[s] \in Nat /\ size[i] \in Nat
    BY <1>0, <1>5 DEF Shape, GhostType
  <2>2. rank[s] >= 1 /\ size[i] # 0
    BY <2>1 DEF Placed
  <2> QED BY <1>3, <1>5, <2>2 DEF Headed
<1>7. ASSUME r.at # NULL
      PROVE  /\ own[r.at] = i
             /\ 0 + size[i] * (Cardinality(Signals) + 1) + (size[i] - rank[r.at] + 1) =< Lists!Rounds
  <2>1. own[r.at] = i /\ rank[r.at] = 1
    BY <1>3, <1>5, <1>7 DEF Headed
  <2>2. PICK z \in Nat, N \in Nat : z = size[i] /\ N = Cardinality(Signals) /\ z =< N
    BY <1>5, InputsFacts, PlacesTaken DEF GhostType
  <2>3. Lists!Rounds = (N + 1) * (N + 1)
    BY <2>2, RoundsFacts
  <2>4. PICK d \in Nat : N = z + d
    <3>1. N - z \in Nat /\ N = z + (N - z)
      BY <2>2
    <3> QED BY <3>1
  <2>5. (z + d + 1) * (N + 1) = z * (N + 1) + d * (N + 1) + (N + 1)
    OBVIOUS
  <2>6. PICK w \in Nat, v \in Nat : w = z * (N + 1) /\ v = d * (N + 1)
    OBVIOUS
  <2>7. (N + 1) * (N + 1) = w + v + (N + 1)
    BY <2>4, <2>5, <2>6
  <2>8. 0 + w + (z - 1 + 1) =< w + v + (N + 1)
    BY <2>2, <2>6
  <2> QED BY <2>1, <2>2, <2>3, <2>6, <2>7, <2>8
<1>8. Draining(r, 0, own, i, out, own, rank, size)
  BY <1>3, <1>4, <1>6, <1>7 DEF Draining
<1> QED BY <1>1, <1>8

(* The walk is over, and nothing is left to take out.                      *)
LEMMA DrainRests ==
  ASSUME NEW r, NEW n, NEW own0, NEW i, NEW out \in SUBSET Signals, NEW own, NEW rank, NEW size,
         Draining(r, n, own0, i, out, own, rank, size), r.at = NULL
  PROVE  Draining(DrainStep(r, out), n + 1, own0, i, out, own, rank, size)
<1>1. DrainStep(r, out) = r
  BY InputsFacts DEF DrainStep
<1>2. Draining(r, n + 1, own0, i, out, own, rank, size)
  BY DEF Draining
<1> QED BY <1>1, <1>2

(* The walk goes past a signal that stays.                                 *)
LEMMA DrainMoves ==
  ASSUME NEW r, NEW n \in Nat, NEW own0, NEW i \in Inputs, NEW out, NEW own, NEW rank, NEW size,
         Draining(r, n, own0, i, out, own, rank, size), r.at # NULL, r.at \notin out
  PROVE  Draining(DrainStep(r, out), n + 1, own0, i, out, own, rank, size)
<1>0. 0 \notin Inputs /\ NULL \notin Signals
  BY InputsFacts
<1>1. PICK q, a, b : q = DrainStep(r, out) /\ a = r.at /\ b = r.links.next[r.at]
  OBVIOUS
<1>2. r \in RoundFields /\ Shape(Stored(r.links, r.head, i), own, rank, size)
  BY DEF Draining
<1>3. r.links \in LinkFields /\ r.head \in Signals \cup {NULL} /\ a \in Signals
  BY <1>1, <1>2 DEF RoundFields
<1>4. b \in Signals \cup {NULL}
  BY <1>1, <1>3 DEF LinkFields
<1>5. q = [r EXCEPT !.at = b]
  BY <1>1 DEF DrainStep
<1>6. q \in RoundFields /\ q.links = r.links /\ q.head = r.head /\ q.at = b /\ q.visits = r.visits
  BY <1>2, <1>4, <1>5 DEF RoundFields
<1>7. PICK v : v = Stored(r.links, r.head, i)
  OBVIOUS
<1>8. v.next[a] = b /\ Shape(v, own, rank, size)
  BY <1>1, <1>2, <1>3, <1>7, StoredFields
<1>9. own[a] = i /\ GhostType(own, rank, size)
  BY <1>1, <1>2 DEF Draining, Shape
<1>10. Placed(v, own, rank, size, a)
  BY <1>0, <1>3, <1>8, <1>9 DEF Shape
<1>11. rank[a] \in Nat /\ size[i] \in Nat
  BY <1>3, <1>9 DEF GhostType
<1>12. IF b = NULL THEN rank[a] = size[i] ELSE own[b] = i /\ rank[b] = rank[a] + 1
  BY <1>8, <1>9, <1>10 DEF Placed
<1>13. ASSUME NEW s \in Signals, own[s] = i, s \in out PROVE b # NULL /\ rank[s] >= rank[b]
  <2>1. rank[s] >= rank[a] /\ s # a /\ rank[s] \in Nat
    BY <1>1, <1>9, <1>13 DEF Draining, GhostType
  <2>2. rank[s] # rank[a]
    BY <1>0, <1>3, <1>8, <1>9, <1>13, <2>1 DEF Shape
  <2>3. rank[s] =< size[i]
    BY <1>0, <1>8, <1>13 DEF Shape, Placed
  <2> QED BY <1>11, <1>12, <2>1, <2>2, <2>3
<1>14. ASSUME b # NULL
       PROVE  n + 1 + size[i] * (Cardinality(Signals) + 1) + (size[i] - rank[b] + 1) =< Lists!Rounds
  <2>1. PICK w \in Nat, R \in Nat : w = size[i] * (Cardinality(Signals) + 1) /\ R = Lists!Rounds
    BY <1>11, RoundsFacts
  <2>2. n + w + (size[i] - rank[a] + 1) =< R
    BY <1>1, <2>1 DEF Draining
  <2>3. n + 1 + w + (size[i] - (rank[a] + 1) + 1) =< R
    BY <1>11, <2>1, <2>2
  <2> QED BY <1>12, <1>14, <2>1, <2>3
<1>15. Draining(q, n + 1, own0, i, out, own, rank, size)
  BY <1>2, <1>6, <1>12, <1>13, <1>14 DEF Draining
<1> QED BY <1>1, <1>15

(* The walk takes out the signal it is at, and starts again at the head.   *)
LEMMA DrainDrops ==
  ASSUME NEW r, NEW n \in Nat, NEW own0, NEW i \in Inputs, NEW out, NEW own, NEW rank, NEW size,
         Draining(r, n, own0, i, out, own, rank, size), r.at # NULL, r.at \in out
  PROVE  \E own2, rank2, size2 :
            Draining(DrainStep(r, out), n + 1, own0, i, out, own2, rank2, size2)
<1>0. 0 \notin Inputs /\ NULL \notin Signals
  BY InputsFacts
<1>1. PICK q, a, k, h : q = DrainStep(r, out) /\ a = r.at /\ k = r.links /\ h = r.head
  OBVIOUS
<1>2. PICK u : u = Lists!Unlink(k, h, a)
  OBVIOUS
<1>3. /\ r \in RoundFields /\ a \in Signals /\ k \in LinkFields /\ h \in Signals \cup {NULL}
      /\ r.visits \in [Signals -> Nat]
  BY <1>1 DEF Draining, RoundFields
<1>4. PICK v : v = Stored(k, h, i)
  OBVIOUS
<1>5. PICK x : x = Lists!Unlink(v, v.input[i], a)
  OBVIOUS
<1>6. /\ u.links \in LinkFields /\ u.head \in Signals \cup {NULL}
      /\ Stored(u.links, u.head, i) = Stored(x.links, x.head, i)
  BY <1>2, <1>3, <1>4, <1>5, UnlinkAgrees
<1>7. Shape(v, own, rank, size) /\ own[a] = i /\ GhostType(own, rank, size)
  BY <1>1, <1>4 DEF Draining, Shape
<1>8. PICK own2, rank2, size2 :
        /\ own2 = [own EXCEPT ![a] = 0] /\ size2 = [size EXCEPT ![i] = @ - 1]
        /\ Shape(Stored(x.links, x.head, i), own2, rank2, size2)
  BY <1>3, <1>5, <1>7, UnlinkOne
<1>9. Shape(Stored(u.links, u.head, i), own2, rank2, size2)
  BY <1>6, <1>8
<1>10. PICK vis : vis = [r.visits EXCEPT ![a] = @ + 1]
  OBVIOUS
<1>11. q = [links |-> u.links, head |-> u.head, at |-> u.head, visits |-> vis]
  BY <1>1, <1>2, <1>10 DEF DrainStep
<1>12. /\ q \in RoundFields /\ q.links = u.links /\ q.head = u.head /\ q.at = u.head /\ q.visits = vis
       /\ vis[a] = r.visits[a] + 1 /\ \A s \in Signals \ {a} : vis[s] = r.visits[s]
  BY <1>3, <1>6, <1>10, <1>11 DEF RoundFields
<1>13. own2[a] = 0 /\ (\A s \in Signals \ {a} : own2[s] = own[s]) /\ size2[i] = size[i] - 1
  BY <1>3, <1>7, <1>8 DEF GhostType
<1>14. PICK y : y = Stored(u.links, u.head, i)
  OBVIOUS
<1>15. Headed(y, own2, rank2, size2, i) /\ y.input[i] = u.head /\ GhostType(own2, rank2, size2)
  BY <1>6, <1>9, <1>14, StoredFields DEF Shape
<1>16. IF u.head = NULL THEN size2[i] = 0 ELSE own2[u.head] = i /\ rank2[u.head] = 1
  BY <1>15 DEF Headed
<1>17. ASSUME NEW s \in Signals, own2[s] = i
       PROVE  u.head # NULL /\ rank2[s] >= rank2[u.head]
  <2>1. Placed(y, own2, rank2, size2, s) /\ rank2[s] \in Nat /\ size2[i] \in Nat
    BY <1>0, <1>9, <1>14, <1>15, <1>17 DEF Shape, GhostType
  <2>2. rank2[s] >= 1 /\ size2[i] # 0
    BY <1>17, <2>1 DEF Placed
  <2> QED BY <1>16, <2>2
<1>18. own[a] = own0[a] /\ own0[a] = i /\ a \in out /\ r.visits[a] = 0
  BY <1>0, <1>1, <1>3, <1>7 DEF Draining
<1>19. ASSUME NEW s \in Signals
       PROVE  /\ own2[s] = own0[s] \/ (own0[s] = i /\ s \in out /\ own2[s] = 0)
              /\ vis[s] = IF own2[s] = own0[s] THEN 0 ELSE 1
  <2>1. CASE s = a
    BY <1>0, <1>12, <1>13, <1>18, <2>1
  <2>2. CASE s # a
    <3>1. own2[s] = own[s] /\ vis[s] = r.visits[s]
      BY <1>12, <1>13, <2>2
    <3> QED BY <3>1 DEF Draining
  <2> QED BY <2>1, <2>2
<1>20. ASSUME u.head # NULL
       PROVE  n + 1 + size2[i] * (Cardinality(Signals) + 1) + (size2[i] - rank2[u.head] + 1)
                =< Lists!Rounds
  <2>1. PICK z \in Nat, N \in Nat, K \in Nat, R \in Nat, p \in Nat :
          /\ z = size[i] /\ N = Cardinality(Signals) /\ K = N + 1 /\ R = Lists!Rounds /\ p = rank[a]
    <3>1. size[i] \in Nat /\ rank[a] \in Nat /\ Cardinality(Signals) + 1 \in Nat
      BY <1>3, <1>7, RoundsFacts DEF GhostType
    <3> QED BY <3>1, RoundsFacts
  <2>2. z =< N /\ p =< z
    <3>1. Placed(v, own, rank, size, a)
      BY <1>0, <1>3, <1>7 DEF Shape
    <3> QED BY <1>7, <2>1, <3>1, PlacesTaken DEF Placed
  <2>3. PICK w \in Nat : w = z * K
    OBVIOUS
  <2>4. n + w + (z - p + 1) =< R
    BY <1>1, <2>1, <2>3 DEF Draining
  <2>5. (z - 1) * K = z * K - K
    OBVIOUS
  <2>6. (z - 1) * K = w - K
    BY <2>3, <2>5
  <2>7. n + 1 + (w - K) + ((z - 1) - 1 + 1) =< R
    BY <2>1, <2>2, <2>3, <2>4
  <2>8. rank2[u.head] = 1 /\ size2[i] = z - 1
    BY <1>13, <1>16, <1>20, <2>1
  <2> QED BY <2>1, <2>6, <2>7, <2>8
<1>21. Draining(q, n + 1, own0, i, out, own2, rank2, size2)
  <2>1. \A s \in Signals : own2[s] = i /\ s \in out => q.at # NULL /\ rank2[s] >= rank2[q.at]
    BY <1>12, <1>17
  <2>2. q.at # NULL =>
          /\ own2[q.at] = i
          /\ n + 1 + size2[i] * (Cardinality(Signals) + 1) + (size2[i] - rank2[q.at] + 1) =< Lists!Rounds
    BY <1>12, <1>16, <1>20
  <2>3. q \in RoundFields /\ Shape(Stored(q.links, q.head, i), own2, rank2, size2)
    BY <1>9, <1>12
  <2>4. \A s \in Signals : /\ own2[s] = own0[s] \/ (own0[s] = i /\ s \in out /\ own2[s] = 0)
                           /\ q.visits[s] = IF own2[s] = own0[s] THEN 0 ELSE 1
    BY <1>12, <1>19
  <2> QED BY <2>1, <2>2, <2>3, <2>4 DEF Draining
<1> QED BY <1>1, <1>21

Drains(r, n, own0, i, out) ==
  \E own, rank, size : Draining(r, n, own0, i, out, own, rank, size)

LEMMA DrainsStep ==
  ASSUME NEW r, NEW n \in Nat, NEW own0, NEW i \in Inputs, NEW out \in SUBSET Signals,
         Drains(r, n, own0, i, out)
  PROVE  Drains(DrainStep(r, out), n + 1, own0, i, out)
<1>1. PICK own, rank, size : Draining(r, n, own0, i, out, own, rank, size)
  BY DEF Drains
<1>2. CASE r.at = NULL
  <2>1. Draining(DrainStep(r, out), n + 1, own0, i, out, own, rank, size)
    BY <1>1, <1>2, DrainRests
  <2> QED BY <2>1 DEF Drains
<1>3. CASE r.at # NULL /\ r.at \notin out
  <2>1. Draining(DrainStep(r, out), n + 1, own0, i, out, own, rank, size)
    BY <1>1, <1>3, DrainMoves
  <2> QED BY <2>1 DEF Drains
<1>4. CASE r.at # NULL /\ r.at \in out
  BY <1>1, <1>4, DrainDrops DEF Drains
<1> QED BY <1>2, <1>3, <1>4

(* What detach_all_inputs does to one input: the signals of out leave the  *)
(* list, each once, and the others stay.                                   *)
LEMMA DrainInputView ==
  ASSUME NEW l, NEW own, NEW rank, NEW size, Shape(l, own, rank, size), NEW i \in Inputs,
         NEW out \in SUBSET Signals, NEW d, d = Lists!DrainInput(l, i, out)
  PROVE  \E own2, rank2, size2 :
           /\ Shape(d.links, own2, rank2, size2) /\ d.visits \in [Signals -> Nat]
           /\ \A s \in Signals :
                /\ own2[s] = IF own[s] = i /\ s \in out THEN 0 ELSE own[s]
                /\ d.visits[s] = IF own[s] = i /\ s \in out THEN 1 ELSE 0
<1>0. 0 \notin Inputs /\ NULL \notin Signals
  BY InputsFacts
<1>1. PICK R \in Nat : R = Lists!Rounds
  BY RoundsFacts
<1>2. PICK f : /\ f[0] = FirstRound(l, i)
               /\ \A n \in 1..R : f[n] = DrainStep(f[n - 1], out)
               /\ d = [links |-> Stored(f[R].links, f[R].head, i), visits |-> f[R].visits]
  BY <1>1, DrainInputRounds DEF Stored
<1> DEFINE Good(n) == Drains(f[n], n, own, i, out)
           Bad == {n \in 0..R : ~Good(n)}
<1>3. Good(0)
  BY <1>2, DrainBegins DEF Drains
<1>4. ASSUME NEW n \in 1..R, Good(n - 1) PROVE Good(n)
  <2>1. n - 1 \in Nat /\ (n - 1) + 1 = n
    OBVIOUS
  <2>2. Drains(DrainStep(f[n - 1], out), (n - 1) + 1, own, i, out)
    BY <1>4, <2>1, DrainsStep
  <2> QED BY <1>2, <2>1, <2>2
<1>5. ASSUME Bad # {} PROVE FALSE
  <2>1. PICK k \in Bad : \A y \in Bad : k =< y
    <3>1. Bad \subseteq Nat
      OBVIOUS
    <3> HIDE DEF Bad
    <3> QED BY <1>5, <3>1, MinIsMember
  <2>2. k \in 0..R /\ ~Good(k) /\ k # 0
    BY <1>3, <2>1
  <2>3. k \in 1..R /\ k - 1 \in 0..R /\ k - 1 \notin Bad
    BY <2>1, <2>2
  <2>4. Good(k - 1)
    BY <2>3
  <2> QED BY <1>4, <2>2, <2>3, <2>4
<1>6. Good(R)
  <2>1. R \in 0..R
    OBVIOUS
  <2> QED BY <1>5, <2>1
<1>7. PICK r : r = f[R]
  OBVIOUS
<1>8. PICK own2, rank2, size2 : Draining(r, R, own, i, out, own2, rank2, size2)
  BY <1>6, <1>7 DEF Drains
<1>9. r \in RoundFields /\ Shape(Stored(r.links, r.head, i), own2, rank2, size2)
  BY <1>8 DEF Draining
<1>10. r.at = NULL
  <2> SUFFICES ASSUME r.at # NULL PROVE FALSE
    OBVIOUS
  <2>1. PICK a \in Signals : a = r.at
    BY <1>9 DEF RoundFields
  <2>2. GhostType(own2, rank2, size2) /\ own2[a] = i
    BY <1>8, <1>9, <2>1 DEF Draining, Shape
  <2>3. PICK v : v = Stored(r.links, r.head, i)
    OBVIOUS
  <2>4. Placed(v, own2, rank2, size2, a)
    BY <1>0, <1>9, <2>2, <2>3 DEF Shape
  <2>5. PICK z \in Nat, p \in Nat, K \in Nat : z = size2[i] /\ p = rank2[a] /\ K = Cardinality(Signals) + 1
    <3>1. size2[i] \in Nat /\ rank2[a] \in Nat /\ Cardinality(Signals) + 1 \in Nat
      BY <2>2, InputsFacts DEF GhostType
    <3> QED BY <3>1
  <2>6. PICK w \in Nat : w = z * K
    OBVIOUS
  <2>7. p =< z
    BY <2>2, <2>4, <2>5 DEF Placed
  <2>8. R + w + (z - p + 1) =< R
    BY <1>1, <1>8, <2>1, <2>5, <2>6 DEF Draining
  <2> QED BY <2>7, <2>8
<1>11. d.links = Stored(r.links, r.head, i) /\ d.visits = r.visits /\ r.visits \in [Signals -> Nat]
  BY <1>2, <1>7, <1>9 DEF RoundFields
<1>12. ASSUME NEW s \in Signals
       PROVE  /\ own2[s] = IF own[s] = i /\ s \in out THEN 0 ELSE own[s]
              /\ d.visits[s] = IF own[s] = i /\ s \in out THEN 1 ELSE 0
  <2>1. /\ own2[s] = own[s] \/ (own[s] = i /\ s \in out /\ own2[s] = 0)
        /\ r.visits[s] = IF own2[s] = own[s] THEN 0 ELSE 1
        /\ ~(own2[s] = i /\ s \in out)
    BY <1>8, <1>10 DEF Draining
  <2> QED BY <1>0, <1>11, <2>1
<1> QED BY <1>9, <1>11, <1>12

(* The outer loop of detach_all_inputs: one input after the other.         *)
DrainUpto(r, e) ==
  LET d == Lists!DrainInput(r.links, e[1], e[2])
  IN [links |-> d.links, visits |-> [s \in Signals |-> r.visits[s] + d.visits[s]]]

Upto == INSTANCE ListLemmas WITH Op <- DrainUpto

FirstUpto(l) == [links |-> l, visits |-> [s \in Signals |-> 0]]

IsUpto(f, l, out) ==
  f = [i \in {0} \cup Inputs |-> IF i = 0 THEN FirstUpto(l) ELSE DrainUpto(f[i-1], <<i, out>>)]

LEMMA UptoExists ==
  ASSUME NEW l, NEW out
  PROVE  \E f : IsUpto(f, l, out)
<1>1. PICK n \in Nat : n = Cardinality(Inputs) /\ Inputs = 1..n /\ {0} \cup Inputs = 0..n
  <2>1. Cardinality(Inputs) \in Nat /\ Inputs = 1..Cardinality(Inputs)
    BY ListsAssumption, FS_CardinalityType
  <2>2. {0} \cup (1..Cardinality(Inputs)) = 0..Cardinality(Inputs)
    BY <2>1
  <2> QED BY <2>1, <2>2
<1>2. PICK s : s = [k \in 1..n |-> <<k, out>>]
  OBVIOUS
<1>3. PICK E : E = {<<k, out>> : k \in 1..n}
  OBVIOUS
<1>4. s \in [1..n -> E]
  BY <1>2, <1>3
<1>5. s \in Seq(E) /\ Len(s) = n
  BY <1>4, IntervalIsSeq, LenProperties
<1>6. PICK b : b = FirstUpto(l)
  OBVIOUS
<1>7. PICK r : Upto!IsRun(r, b, s)
  BY <1>5, Upto!FoldHasRun
<1>8. /\ r[0] = b /\ \A k \in 1..n : r[k] = DrainUpto(r[k - 1], <<k, out>>)
  BY <1>2, <1>5, <1>7 DEF Upto!IsRun
<1>9. PICK f : f = [k \in 0..n |-> r[k]]
  OBVIOUS
<1>10. \A k \in 0..n : f[k] = IF k = 0 THEN b ELSE DrainUpto(f[k - 1], <<k, out>>)
  <2> SUFFICES ASSUME NEW k \in 0..n
               PROVE  f[k] = IF k = 0 THEN b ELSE DrainUpto(f[k - 1], <<k, out>>)
    OBVIOUS
  <2>1. CASE k = 0
    BY <1>8, <1>9, <2>1
  <2>2. CASE k # 0
    <3>1. k \in 1..n /\ k - 1 \in 0..n
      BY <2>2
    <3>2. f[k] = r[k] /\ f[k - 1] = r[k - 1]
      BY <1>9, <3>1
    <3> QED BY <1>8, <2>2, <3>1, <3>2
  <2> QED BY <2>1, <2>2
<1>11. f = [k \in 0..n |-> IF k = 0 THEN b ELSE DrainUpto(f[k - 1], <<k, out>>)]
  BY <1>9, <1>10
<1> QED BY <1>1, <1>6, <1>11 DEF IsUpto

LEMMA DrainRun ==
  ASSUME NEW l, NEW out
  PROVE  \E f : /\ f[0] = FirstUpto(l)
                /\ \A i \in Inputs : f[i] = DrainUpto(f[i - 1], <<i, out>>)
                /\ Lists!Drain(l, out) = f[Cardinality(Inputs)]
<1>1. PICK f : f = CHOOSE g : IsUpto(g, l, out)
  OBVIOUS
<1>2. IsUpto(f, l, out)
  BY <1>1, UptoExists
<1>3. Lists!Drain(l, out) = f[Lists!Cardinality(Inputs)]
  BY <1>1 DEF Lists!Drain, IsUpto, FirstUpto, DrainUpto
<1>4. f[0] = FirstUpto(l)
  BY <1>2, InputsFacts DEF IsUpto
<1>5. \A i \in Inputs : f[i] = DrainUpto(f[i - 1], <<i, out>>)
  BY <1>2, InputsFacts DEF IsUpto
<1> QED BY <1>3, <1>4, <1>5, SameCardinality

(* After the inputs up to n, of lists that were own0.                      *)
Emptied(r, n, own0, out, own, rank, size) ==
  /\ Shape(r.links, own, rank, size)
  /\ r.visits \in [Signals -> Nat]
  /\ \A s \in Signals :
       /\ own[s] = IF own0[s] =< n /\ s \in out THEN 0 ELSE own0[s]
       /\ r.visits[s] = IF own0[s] # 0 /\ own0[s] =< n /\ s \in out THEN 1 ELSE 0

Empties(r, n, own0, out) == \E own, rank, size : Emptied(r, n, own0, out, own, rank, size)

LEMMA EmptiesStep ==
  ASSUME NEW r, NEW i \in Inputs, NEW own0 \in [Signals -> Inputs \cup {0}], NEW out \in SUBSET Signals,
         Empties(r, i - 1, own0, out)
  PROVE  Empties(DrainUpto(r, <<i, out>>), i, own0, out)
<1>0. i \in Nat /\ i # 0 /\ \A s \in Signals : own0[s] \in Nat
  <2>1. PICK M \in Nat : Inputs = 1..M
    BY ListsAssumption, FS_CardinalityType
  <2>2. \A j \in Inputs \cup {0} : j \in Nat
    BY <2>1
  <2>3. \A s \in Signals : own0[s] \in Inputs \cup {0}
    OBVIOUS
  <2> QED BY <2>1, <2>2, <2>3
<1>1. PICK own, rank, size : Emptied(r, i - 1, own0, out, own, rank, size)
  BY DEF Empties
<1>2. PICK d : d = Lists!DrainInput(r.links, i, out)
  OBVIOUS
<1>3. Shape(r.links, own, rank, size) /\ r.visits \in [Signals -> Nat]
  BY <1>1 DEF Emptied
<1>4. PICK own2, rank2, size2 :
           /\ Shape(d.links, own2, rank2, size2) /\ d.visits \in [Signals -> Nat]
           /\ \A s \in Signals :
                /\ own2[s] = IF own[s] = i /\ s \in out THEN 0 ELSE own[s]
                /\ d.visits[s] = IF own[s] = i /\ s \in out THEN 1 ELSE 0
  BY <1>2, <1>3, DrainInputView
<1>5. PICK q : q = [links |-> d.links, visits |-> [s \in Signals |-> r.visits[s] + d.visits[s]]]
  OBVIOUS
<1>6. q = DrainUpto(r, <<i, out>>)
  BY <1>2, <1>5 DEF DrainUpto
<1>7. q.links = d.links /\ q.visits = [s \in Signals |-> r.visits[s] + d.visits[s]]
  BY <1>5
<1>8. q.visits \in [Signals -> Nat] /\ \A s \in Signals : q.visits[s] = r.visits[s] + d.visits[s]
  BY <1>3, <1>4, <1>7
<1>9. ASSUME NEW s \in Signals
      PROVE  /\ own2[s] = IF own0[s] =< i /\ s \in out THEN 0 ELSE own0[s]
             /\ q.visits[s] = IF own0[s] # 0 /\ own0[s] =< i /\ s \in out THEN 1 ELSE 0
  <2>1. /\ own[s] = IF own0[s] =< i - 1 /\ s \in out THEN 0 ELSE own0[s]
        /\ r.visits[s] = IF own0[s] # 0 /\ own0[s] =< i - 1 /\ s \in out THEN 1 ELSE 0
    BY <1>1 DEF Emptied
  <2>2. PICK o \in Nat : o = own0[s]
    BY <1>0
  <2>3. CASE s \notin out
    BY <1>4, <1>8, <2>1, <2>3
  <2>4. CASE s \in out
    <3>1. own[s] = (IF o =< i - 1 THEN 0 ELSE o) /\ r.visits[s] = IF o # 0 /\ o =< i - 1 THEN 1 ELSE 0
      BY <2>1, <2>2, <2>4
    <3>2. own2[s] = (IF own[s] = i THEN 0 ELSE own[s]) /\ d.visits[s] = IF own[s] = i THEN 1 ELSE 0
      BY <1>4, <2>4
    <3> QED BY <1>0, <1>8, <2>2, <2>4, <3>1, <3>2
  <2> QED BY <2>3, <2>4
<1>10. Emptied(q, i, own0, out, own2, rank2, size2)
  BY <1>4, <1>7, <1>8, <1>9 DEF Emptied
<1> QED BY <1>6, <1>10 DEF Empties

(* What detach_all_inputs, called with the signals out, does: the lists    *)
(* lose them, each once, and stay lists.                                   *)
LEMMA DrainView ==
  ASSUME NEW l, WellLinked(l), NEW out \in SUBSET Signals, NEW d, d = Lists!Drain(l, out)
  PROVE  /\ WellLinked(d.links) /\ Listed(d.links) = Listed(l) \ out
         /\ d.visits \in [Signals -> Nat]
         /\ \A s \in Signals : d.visits[s] = IF s \in Listed(l) \cap out THEN 1 ELSE 0
<1>1. PICK M \in Nat : M = Cardinality(Inputs) /\ Inputs = 1..M
  BY ListsAssumption, FS_CardinalityType
<1>2. PICK f : /\ f[0] = FirstUpto(l)
               /\ \A i \in 1..M : f[i] = DrainUpto(f[i - 1], <<i, out>>)
               /\ d = f[M]
  <2>1. PICK f : /\ f[0] = FirstUpto(l)
                 /\ \A i \in Inputs : f[i] = DrainUpto(f[i - 1], <<i, out>>)
                 /\ Lists!Drain(l, out) = f[Cardinality(Inputs)]
    BY DrainRun
  <2>2. \A i \in 1..M : f[i] = DrainUpto(f[i - 1], <<i, out>>)
    BY <1>1, <2>1
  <2>3. d = f[M]
    BY <1>1, <2>1
  <2> QED BY <2>1, <2>2, <2>3
<1>3. PICK own0, rank0, size0 : Shape(l, own0, rank0, size0)
  BY DEF WellLinked
<1>4. own0 \in [Signals -> Inputs \cup {0}]
  BY <1>3 DEF Shape, GhostType
<1>5. \A s \in Signals : own0[s] \in 0..M
  <2>1. \A j \in Inputs \cup {0} : j \in 0..M
    <3>1. 0 \in 0..M /\ \A j \in 1..M : j \in 0..M
      OBVIOUS
    <3> QED BY <1>1, <3>1
  <2>2. \A s \in Signals : own0[s] \in Inputs \cup {0}
    BY <1>4
  <2> QED BY <2>1, <2>2
<1> DEFINE Good(n) == Empties(f[n], n, own0, out)
           Bad == {n \in 0..M : ~Good(n)}
<1>6. Good(0)
  <2>1. PICK q : q = f[0]
    OBVIOUS
  <2>2. q.links = l /\ q.visits = [s \in Signals |-> 0]
    BY <1>2, <2>1 DEF FirstUpto
  <2>3. \A s \in Signals : own0[s] = IF own0[s] =< 0 /\ s \in out THEN 0 ELSE own0[s]
    BY <1>5
  <2>4. \A s \in Signals : q.visits[s] = IF own0[s] # 0 /\ own0[s] =< 0 /\ s \in out THEN 1 ELSE 0
    BY <1>5, <2>2
  <2>5. q.visits \in [Signals -> Nat]
    BY <2>2
  <2>6. Emptied(q, 0, own0, out, own0, rank0, size0)
    BY <1>3, <2>2, <2>3, <2>4, <2>5 DEF Emptied
  <2> QED BY <2>1, <2>6 DEF Empties
<1>7. ASSUME NEW n \in 1..M, Good(n - 1) PROVE Good(n)
  <2>1. n \in Inputs
    BY <1>1
  <2>2. Empties(DrainUpto(f[n - 1], <<n, out>>), n, own0, out)
    BY <1>4, <1>7, <2>1, EmptiesStep
  <2> QED BY <1>2, <2>2
<1>8. ASSUME Bad # {} PROVE FALSE
  <2>1. PICK k \in Bad : \A y \in Bad : k =< y
    <3>1. Bad \subseteq Nat
      OBVIOUS
    <3> HIDE DEF Bad
    <3> QED BY <1>8, <3>1, MinIsMember
  <2>2. k \in 0..M /\ ~Good(k) /\ k # 0
    BY <1>6, <2>1
  <2>3. k \in 1..M /\ k - 1 \in 0..M /\ k - 1 \notin Bad
    BY <2>1, <2>2
  <2>4. Good(k - 1)
    BY <2>3
  <2> QED BY <1>7, <2>2, <2>3, <2>4
<1>9. Good(M)
  <2>1. M \in 0..M
    OBVIOUS
  <2> QED BY <1>8, <2>1
<1>10. PICK own, rank, size : Emptied(d, M, own0, out, own, rank, size)
  BY <1>2, <1>9 DEF Empties
<1>11. Shape(d.links, own, rank, size) /\ d.visits \in [Signals -> Nat]
  BY <1>10 DEF Emptied
<1>12. Listed(l) = {s \in Signals : own0[s] # 0} /\ Listed(d.links) = {s \in Signals : own[s] # 0}
  BY <1>3, <1>11, ListedView
<1>13. \A s \in Signals : /\ own[s] = IF s \in out THEN 0 ELSE own0[s]
                          /\ d.visits[s] = IF own0[s] # 0 /\ s \in out THEN 1 ELSE 0
  BY <1>5, <1>10 DEF Emptied
<1>14. Listed(d.links) = Listed(l) \ out
  BY <1>12, <1>13
<1>15. \A s \in Signals : d.visits[s] = IF s \in Listed(l) \cap out THEN 1 ELSE 0
  BY <1>12, <1>13
<1>16. WellLinked(d.links)
  BY <1>11 DEF WellLinked
<1> QED BY <1>11, <1>14, <1>15, <1>16

(* The sum with which the model counts the visits.                         *)
Total(v, S) == MapThenSumSet(LAMBDA s : v[s], S)

IsSum(g, v, S) ==
  g = [P \in SUBSET S |-> IF P = {} THEN 0
                          ELSE v[CHOOSE x \in P : TRUE] + g[P \ {CHOOSE x \in P : TRUE}]]

Marked(v, S) == {x \in S : v[x] = 1}

(* Marked by ones, a set is counted by the sum.                            *)
LEMMA CountTake ==
  ASSUME NEW v, NEW P, IsFiniteSet(P), NEW x \in P, v[x] \in {0, 1}
  PROVE  /\ IsFiniteSet(P \ {x}) /\ Cardinality(P \ {x}) = Cardinality(P) - 1
         /\ Cardinality(Marked(v, P)) = v[x] + Cardinality(Marked(v, P \ {x}))
<1>1. PICK A, B : A = Marked(v, P) /\ B = Marked(v, P \ {x})
  OBVIOUS
<1>2. A \subseteq P /\ B \subseteq P /\ IsFiniteSet(A) /\ IsFiniteSet(B)
  BY <1>1, FS_Subset DEF Marked
<1>3. Cardinality(B) \in Nat /\ Cardinality(A) \in Nat
  BY <1>2, FS_CardinalityType
<1>4. IsFiniteSet(P \ {x}) /\ Cardinality(P \ {x}) = Cardinality(P) - 1
  BY FS_RemoveElement
<1>5. CASE v[x] = 1
  <2>1. x \in A /\ B = A \ {x}
    BY <1>1, <1>5 DEF Marked
  <2>2. Cardinality(B) = Cardinality(A) - 1
    BY <1>2, <2>1, FS_RemoveElement
  <2>3. Cardinality(A) = v[x] + Cardinality(B)
    BY <1>3, <1>5, <2>2
  <2> QED BY <1>1, <1>4, <2>3
<1>6. CASE v[x] = 0
  <2>1. A = B
    BY <1>1, <1>6 DEF Marked
  <2>2. Cardinality(A) = v[x] + Cardinality(B)
    BY <1>3, <1>6, <2>1
  <2> QED BY <1>1, <1>4, <2>2
<1> QED BY <1>5, <1>6

LEMMA SumExists ==
  ASSUME NEW S, IsFiniteSet(S), NEW v, \A x \in S : v[x] \in {0, 1}
  PROVE  \E g : IsSum(g, v, S)
<1>1. PICK g : g = [P \in SUBSET S |-> Cardinality(Marked(v, P))]
  OBVIOUS
<1>2. ASSUME NEW P \in SUBSET S
      PROVE  g[P] = IF P = {} THEN 0
                    ELSE v[CHOOSE x \in P : TRUE] + g[P \ {CHOOSE x \in P : TRUE}]
  <2>1. PICK c : c = CHOOSE x \in P : TRUE
    OBVIOUS
  <2>2. CASE P = {}
    <3>1. Marked(v, P) = {}
      BY <2>2 DEF Marked
    <3>2. g[P] = 0
      BY <1>1, <3>1, FS_EmptySet
    <3> QED BY <2>2, <3>2
  <2>3. CASE P # {}
    <3>1. c \in P /\ P \ {c} \in SUBSET S
      BY <2>1, <2>3
    <3>2. IsFiniteSet(P) /\ v[c] \in {0, 1}
      BY <3>1, FS_Subset
    <3>3. Cardinality(Marked(v, P)) = v[c] + Cardinality(Marked(v, P \ {c}))
      BY <3>1, <3>2, CountTake
    <3>4. g[P] = v[c] + g[P \ {c}]
      BY <1>1, <3>1, <3>3
    <3> QED BY <2>1, <2>3, <3>4
  <2> QED BY <2>2, <2>3
<1>3. g = [P \in SUBSET S |-> IF P = {} THEN 0
                              ELSE v[CHOOSE x \in P : TRUE] + g[P \ {CHOOSE x \in P : TRUE}]]
  BY <1>1, <1>2
<1> QED BY <1>3 DEF IsSum

LEMMA SumCounts ==
  ASSUME NEW S, IsFiniteSet(S), NEW v, \A x \in S : v[x] \in {0, 1}
  PROVE  Total(v, S) = Cardinality(Marked(v, S))
<1>1. PICK g : g = CHOOSE h : IsSum(h, v, S)
  OBVIOUS
<1>2. Total(v, S) = g[S]
  BY <1>1 DEF Total, MapThenSumSet, MapThenFoldSet, IsSum
<1>3. IsSum(g, v, S)
  BY <1>1, SumExists
<1> DEFINE Good(P) == g[P] = Cardinality(Marked(v, P))
           Bad == {n \in Nat : \E P \in SUBSET S : Cardinality(P) = n /\ ~Good(P)}
<1>4. \A P \in SUBSET S : IsFiniteSet(P) /\ Cardinality(P) \in Nat
  BY FS_Subset, FS_CardinalityType
<1>5. ASSUME Bad # {} PROVE FALSE
  <2>1. PICK k \in Bad : \A y \in Bad : k =< y
    <3>1. Bad \subseteq Nat
      OBVIOUS
    <3> HIDE DEF Bad
    <3> QED BY <1>5, <3>1, MinIsMember
  <2>2. PICK P \in SUBSET S : Cardinality(P) = k /\ ~Good(P)
    BY <2>1
  <2>3. P # {}
    <3> SUFFICES ASSUME P = {} PROVE FALSE
      OBVIOUS
    <3>1. g[P] = 0 /\ Marked(v, P) = {}
      BY <1>3 DEF IsSum, Marked
    <3> QED BY <2>2, <3>1, FS_EmptySet
  <2>4. PICK c : c = CHOOSE x \in P : TRUE
    OBVIOUS
  <2>5. c \in P /\ P \ {c} \in SUBSET S /\ v[c] \in {0, 1} /\ IsFiniteSet(P)
    BY <1>4, <2>3, <2>4
  <2>6. g[P] = v[c] + g[P \ {c}]
    BY <1>3, <2>3, <2>4 DEF IsSum
  <2>13. Cardinality(P \ {c}) = Cardinality(P) - 1
    BY <2>5, CountTake
  <2>7. Cardinality(Marked(v, P)) = v[c] + Cardinality(Marked(v, P \ {c}))
    BY <2>5, CountTake
  <2>8. ~Good(P \ {c})
    BY <2>2, <2>6, <2>7
  <2>9. Cardinality(P \ {c}) \in Nat
    BY <1>4, <2>5
  <2>10. Cardinality(P \ {c}) \in Bad
    BY <2>5, <2>8, <2>9
  <2>11. k =< Cardinality(P \ {c})
    BY <2>1, <2>10
  <2>12. k \in Nat
    BY <2>1
  <2> HIDE DEF Bad
  <2> QED BY <2>2, <2>13, <2>9, <2>11, <2>12
<1>6. Good(S)
  <2>1. S \in SUBSET S
    OBVIOUS
  <2> QED BY <1>4, <1>5, <2>1
<1> QED BY <1>2, <1>6

-----------------------------------------------------------------------------
(* The records of a connection                                             *)

(* Those of the signals of S that machine o sends.                         *)
Sent(S, o) == {s \in S : Originator[s] = o}

(* What one machine knows of its connections: its lists l, the counts a    *)
(* that the signals keep about it, and its own counts d.                   *)
Sound(l, a, d) ==
  /\ WellLinked(l)
  /\ a \in [Signals -> Nat] /\ d \in [Machines -> Nat]
  /\ \A s \in Signals : a[s] = IF s \in Listed(l) THEN 1 ELSE 0
  /\ \A o \in Machines : d[o] = Cardinality(Sent(Listed(l), o))

LEMMA SentFacts ==
  ASSUME NEW S \in SUBSET Signals, NEW o
  PROVE  IsFiniteSet(Sent(S, o)) /\ Cardinality(Sent(S, o)) \in Nat
<1>1. Sent(S, o) \in SUBSET Signals
  BY DEF Sent
<1>2. IsFiniteSet(Sent(S, o))
  BY <1>1, InputsFacts, FS_Subset
<1> QED BY <1>2, FS_CardinalityType

LEMMA SentOneMore ==
  ASSUME NEW S \in SUBSET Signals, NEW s \in Signals, s \notin S, NEW o
  PROVE  Cardinality(Sent(S \cup {s}, o)) =
           IF o = Originator[s] THEN Cardinality(Sent(S, o)) + 1 ELSE Cardinality(Sent(S, o))
<1>1. IsFiniteSet(Sent(S, o))
  BY SentFacts
<1>2. CASE o = Originator[s]
  <2>1. Sent(S \cup {s}, o) = Sent(S, o) \cup {s} /\ s \notin Sent(S, o)
    BY <1>2 DEF Sent
  <2> QED BY <1>1, <1>2, <2>1, FS_AddElement
<1>3. CASE o # Originator[s]
  <2>1. Sent(S \cup {s}, o) = Sent(S, o)
    BY <1>3 DEF Sent
  <2> QED BY <1>3, <2>1
<1> QED BY <1>2, <1>3

LEMMA ListedFacts == ASSUME NEW l, WellLinked(l) PROVE Listed(l) \in SUBSET Signals
<1>1. PICK own, rank, size : Shape(l, own, rank, size)
  BY DEF WellLinked
<1>2. Listed(l) = {s \in Signals : own[s] # 0}
  BY <1>1, ListedView
<1> QED BY <1>2

(* One more signal in the lists, and both counts go up.                    *)
LEMMA SoundMore ==
  ASSUME NEW l, NEW a, NEW d, Sound(l, a, d), NEW s \in Signals, a[s] = 0,
         NEW l2, WellLinked(l2), Listed(l2) = Listed(l) \cup {s},
         NEW a2, a2 = [a EXCEPT ![s] = @ + 1],
         NEW d2, d2 = [d EXCEPT ![Originator[s]] = @ + 1]
  PROVE  Sound(l2, a2, d2)
<1>1. Listed(l) \in SUBSET Signals /\ s \notin Listed(l)
  BY ListedFacts DEF Sound
<1>2. a \in [Signals -> Nat] /\ d \in [Machines -> Nat] /\ Originator[s] \in Machines
  BY GraphAssumption DEF Sound
<1>3. a2 \in [Signals -> Nat] /\ d2 \in [Machines -> Nat]
  BY <1>2
<1>4. \A t \in Signals : a2[t] = IF t \in Listed(l2) THEN 1 ELSE 0
  BY <1>1, <1>2 DEF Sound
<1>5. ASSUME NEW o \in Machines PROVE d2[o] = Cardinality(Sent(Listed(l2), o))
  <2>1. d[o] = Cardinality(Sent(Listed(l), o))
    BY DEF Sound
  <2>2. Cardinality(Sent(Listed(l) \cup {s}, o)) = IF o = Originator[s] THEN d[o] + 1 ELSE d[o]
    BY <1>1, <2>1, SentOneMore
  <2> QED BY <1>2, <2>2
<1> QED BY <1>3, <1>4, <1>5 DEF Sound

(* internal_attach_input on a machine that does not hold the signal yet.   *)
LEMMA AttachSound ==
  ASSUME NEW l, NEW a, NEW d, Sound(l, a, d), NEW s \in Signals, a[s] = 0, NEW i \in Inputs,
         NEW l2, l2 = (IF l.input[i] = NULL THEN [l EXCEPT !.input[i] = s]
                       ELSE Lists!Link(l, l.input[i], s)),
         NEW a2, a2 = [a EXCEPT ![s] = @ + 1],
         NEW d2, d2 = [d EXCEPT ![Originator[s]] = @ + 1]
  PROVE  Sound(l2, a2, d2)
<1>0. 0 \notin Inputs
  BY InputsFacts
<1>1. PICK own, rank, size : Shape(l, own, rank, size)
  BY DEF Sound, WellLinked
<1>2. Listed(l) = {t \in Signals : own[t] # 0}
  BY <1>1, ListedView
<1>3. own[s] = 0
  BY <1>2 DEF Sound
<1>4. PICK own2 : own2 = [own EXCEPT ![s] = i]
  OBVIOUS
<1>5. \E rank2, size2 : Shape(l2, own2, rank2, size2)
  <2>1. CASE l.input[i] = NULL
    <3>1. l2 = [l EXCEPT !.input[i] = s]
      BY <2>1
    <3>2. Shape([l EXCEPT !.input[i] = s],
               [own EXCEPT ![s] = i], [rank EXCEPT ![s] = 1], [size EXCEPT ![i] = 1])
      BY <1>1, <1>3, <2>1, PutFirst
    <3> QED BY <1>4, <3>1, <3>2
  <2>2. CASE l.input[i] # NULL
    <3>1. l2 = Lists!Link(l, l.input[i], s)
      BY <2>2
    <3>2. Shape(Lists!Link(l, l.input[i], s), [own EXCEPT ![s] = i],
               [t \in Signals |-> IF t = s THEN 2
                                  ELSE IF own[t] = i /\ rank[t] > 1 THEN rank[t] + 1 ELSE rank[t]],
               [size EXCEPT ![i] = @ + 1])
      BY <1>1, <1>3, <2>2, LinkSecond
    <3> QED BY <1>4, <3>1, <3>2
  <2> QED BY <2>1, <2>2
<1>6. WellLinked(l2) /\ Listed(l2) = {t \in Signals : own2[t] # 0}
  BY <1>5, ListedView DEF WellLinked
<1>7. own \in [Signals -> Inputs \cup {0}]
  BY <1>1 DEF Shape, GhostType
<1>8. Listed(l2) = Listed(l) \cup {s}
  BY <1>0, <1>2, <1>4, <1>6, <1>7
<1> QED BY <1>6, <1>8, SoundMore

(* internal_detach_input of a signal that the list of input i holds.       *)
LEMMA DetachSound ==
  ASSUME NEW l, NEW a, NEW d, Sound(l, a, d), NEW s \in Signals, NEW i \in Inputs,
         s \in Lists!Members(l, l.input[i]),
         NEW u, u = Lists!Unlink(l, l.input[i], s),
         NEW l2, l2 = Stored(u.links, u.head, i),
         NEW a2, a2 = [a EXCEPT ![s] = Less(@, 1)],
         NEW d2, d2 = [d EXCEPT ![Originator[s]] = Less(@, 1)]
  PROVE  Sound(l2, a2, d2)
<1>0. 0 \notin Inputs
  BY InputsFacts
<1>1. PICK own, rank, size : Shape(l, own, rank, size)
  BY DEF Sound, WellLinked
<1>2. Listed(l) = {t \in Signals : own[t] # 0}
  BY <1>1, ListedView
<1>3. own[s] = i
  BY <1>1, MembersView
<1>4. PICK own2, rank2, size2 : own2 = [own EXCEPT ![s] = 0] /\ Shape(l2, own2, rank2, size2)
  BY <1>1, <1>3, UnlinkOne
<1>5. Listed(l2) = {t \in Signals : own2[t] # 0} /\ WellLinked(l2)
  BY <1>4, ListedView DEF WellLinked
<1>6. own \in [Signals -> Inputs \cup {0}]
  BY <1>1 DEF Shape, GhostType
<1>7. Listed(l) = Listed(l2) \cup {s} /\ s \notin Listed(l2) /\ s \in Listed(l)
  BY <1>0, <1>2, <1>3, <1>4, <1>5, <1>6
<1>8. a \in [Signals -> Nat] /\ d \in [Machines -> Nat] /\ Originator[s] \in Machines
  BY GraphAssumption DEF Sound
<1>9. Less(1, 1) = 0 /\ \A c \in Nat : Less(c + 1, 1) = c /\ Less(c, 1) \in Nat
  BY DEF Less
<1>10. a2 \in [Signals -> Nat] /\ d2 \in [Machines -> Nat]
  BY <1>8, <1>9
<1>11. \A t \in Signals : a2[t] = IF t \in Listed(l2) THEN 1 ELSE 0
  BY <1>7, <1>8, <1>9 DEF Sound
<1>12. Listed(l2) \in SUBSET Signals
  BY <1>5
<1>13. ASSUME NEW o \in Machines PROVE d2[o] = Cardinality(Sent(Listed(l2), o))
  <2>1. PICK c \in Nat : c = Cardinality(Sent(Listed(l2), o))
    BY <1>12, SentFacts
  <2>2. d[o] = Cardinality(Sent(Listed(l2) \cup {s}, o))
    BY <1>7 DEF Sound
  <2>3. d[o] = IF o = Originator[s] THEN c + 1 ELSE c
    BY <1>7, <1>12, <2>1, <2>2, SentOneMore
  <2> QED BY <1>8, <1>9, <2>1, <2>3
<1> QED BY <1>5, <1>10, <1>11, <1>13 DEF Sound

(* Each signal of out that S has is visited once.                          *)
VisitsOnce(v, S, out) == \A s \in Signals : v[s] = IF s \in S \cap out THEN 1 ELSE 0

(* The sum of the visits of a teardown: each signal that leaves counts.    *)
LEMMA DrainSum ==
  ASSUME NEW S \in SUBSET Signals, NEW out \in SUBSET Signals, NEW v \in [Signals -> Nat],
         VisitsOnce(v, S, out), NEW o
  PROVE  /\ Total(v, Sent(Signals, o)) = Cardinality(Sent(S \cap out, o))
         /\ Cardinality(Sent(S \cap out, o)) =< Cardinality(Sent(S, o))
         /\ Cardinality(Sent(S \ out, o)) = Cardinality(Sent(S, o)) - Cardinality(Sent(S \cap out, o))
<1>1. PICK A, B, C : A = Sent(S, o) /\ B = Sent(S \cap out, o) /\ C = Sent(Signals, o)
  OBVIOUS
<1>2. IsFiniteSet(A) /\ IsFiniteSet(C) /\ B \in SUBSET A
  BY <1>1, SentFacts DEF Sent
<1>3. \A s \in C : v[s] \in {0, 1}
  BY <1>1 DEF Sent, VisitsOnce
<1>4. Total(v, C) = Cardinality(Marked(v, C))
  BY <1>2, <1>3, SumCounts
<1>5. Marked(v, C) = B
  BY <1>1 DEF Marked, Sent, VisitsOnce
<1>6. Cardinality(B) =< Cardinality(A)
  BY <1>2, FS_Subset
<1>7. A \ out = Sent(S \ out, o) /\ A \cap out = B
  BY <1>1 DEF Sent
<1>8. Cardinality(A \ out) = Cardinality(A) - Cardinality(A \cap out)
  BY <1>2, FS_Difference
<1> QED BY <1>1, <1>4, <1>5, <1>6, <1>7, <1>8

(* What a teardown does to one machine when it takes out the signals out.  *)
LEMMA DrainSound ==
  ASSUME NEW l, NEW a, NEW d, Sound(l, a, d), NEW out \in SUBSET Signals,
         NEW e, e = Lists!Drain(l, out),
         NEW a2, a2 = [s \in Signals |-> Less(a[s], e.visits[s])],
         NEW d2, d2 = [o \in Machines |-> Less(d[o], Total(e.visits, Sent(Signals, o)))]
  PROVE  Sound(e.links, a2, d2) /\ Listed(e.links) = Listed(l) \ out
<1>1. WellLinked(l) /\ Listed(l) \in SUBSET Signals
  BY ListedFacts DEF Sound
<1>2. /\ WellLinked(e.links) /\ Listed(e.links) = Listed(l) \ out
      /\ e.visits \in [Signals -> Nat]
      /\ \A s \in Signals : e.visits[s] = IF s \in Listed(l) \cap out THEN 1 ELSE 0
  BY <1>1, DrainView
<1>3. /\ Less(1, 1) = 0 /\ Less(1, 0) = 1 /\ Less(0, 0) = 0
      /\ \A c, v \in Nat : v =< c => Less(c, v) = c - v
      /\ \A c \in Nat : \A v : Less(c, v) \in Nat
  BY DEF Less
<1>4. a2 \in [Signals -> Nat] /\ d2 \in [Machines -> Nat]
  BY <1>3 DEF Sound
<1>5. \A s \in Signals : a2[s] = IF s \in Listed(e.links) THEN 1 ELSE 0
  BY <1>2, <1>3 DEF Sound
<1>6. ASSUME NEW o \in Machines PROVE d2[o] = Cardinality(Sent(Listed(e.links), o))
  <2>1. PICK c \in Nat, k \in Nat : /\ c = Cardinality(Sent(Listed(l), o))
                                    /\ k = Cardinality(Sent(Listed(l) \cap out, o))
    <3>1. Listed(l) \cap out \in SUBSET Signals
      BY <1>1
    <3> QED BY <1>1, <3>1, SentFacts
  <2>2. d[o] = c
    BY <2>1 DEF Sound
  <2>3. Total(e.visits, Sent(Signals, o)) = k /\ k =< c /\ Cardinality(Sent(Listed(l) \ out, o)) = c - k
    <3>1. PICK S \in SUBSET Signals, v \in [Signals -> Nat] : S = Listed(l) /\ v = e.visits
      BY <1>1, <1>2
    <3>2. VisitsOnce(v, S, out)
      BY <1>2, <3>1 DEF VisitsOnce
    <3>3. /\ Total(v, Sent(Signals, o)) = Cardinality(Sent(S \cap out, o))
          /\ Cardinality(Sent(S \cap out, o)) =< Cardinality(Sent(S, o))
          /\ Cardinality(Sent(S \ out, o)) = Cardinality(Sent(S, o)) - Cardinality(Sent(S \cap out, o))
      BY <3>2, DrainSum
    <3> QED BY <2>1, <3>1, <3>3
  <2>4. d2[o] = Less(c, k)
    BY <2>2, <2>3
  <2> QED BY <1>2, <1>3, <2>1, <2>3, <2>4
<1> QED BY <1>2, <1>4, <1>5, <1>6 DEF Sound

(* The records of all machines.                                            *)
RecordsInv ==
  /\ CountsType
  /\ links \in [Machines -> LinkFields]
  /\ \A T \in Machines : Sound(links[T], attached[T], dependant[T])

(* No machine listens to o.                                                *)
Unheard(o) == \A T \in Machines : \A s \in Signals : Originator[s] = o => attached[T][s] = 0

(* A machine is unheard until it is built, and the Sequence under          *)
(* construction until create_sequence_for_machine attaches it.             *)
UnheardInv ==
  /\ \A o \in Machines : life[o] = "new" => Unheard(o)
  /\ io.stage = "attach" => Unheard(SequenceOf[io.machine])
  /\ io.stage \in {"attach", "tie"} => life[SequenceOf[io.machine]] # "new"

ListInv == TieType /\ RecordsInv /\ UnheardInv

LEMMA HeldIsListed == \A T : Held(T) = Listed(links[T])
  BY DEF Held, Listed

LEMMA InitLists == Init => ListInv
<1> SUFFICES ASSUME Init PROVE ListInv
  OBVIOUS
<1>1. TieType
  BY InitTie DEF TieInv
<1>2. CountsType
  BY InitGraph DEF GraphInv
<1>3. PICK l : l = Lists!NoLinks
  OBVIOUS
<1>4. PICK own, size : own = [s \in Signals |-> 0] /\ size = [i \in Inputs |-> 0]
  OBVIOUS
<1>5. Shape(l, own, own, size)
  BY <1>3, <1>4, NoLinksShape
<1>6. WellLinked(l) /\ l \in LinkFields /\ Listed(l) = {s \in Signals : own[s] # 0}
  BY <1>5, ListedView DEF WellLinked, Shape
<1>7. Listed(l) = {}
  BY <1>4, <1>6
<1>8. links \in [Machines -> LinkFields] /\ \A T \in Machines : links[T] = l
  BY <1>3, <1>6 DEF Init
<1>9. \A o : Cardinality(Sent({}, o)) = 0
  <2>1. \A o : Sent({}, o) = {}
    BY DEF Sent
  <2> QED BY <2>1, FS_EmptySet
<1>10. ASSUME NEW T \in Machines PROVE Sound(links[T], attached[T], dependant[T])
  <2>1. attached[T] = [s \in Signals |-> 0] /\ dependant[T] = [o \in Machines |-> 0] /\ links[T] = l
    BY <1>8 DEF Init
  <2> QED BY <1>6, <1>7, <1>9, <2>1 DEF Sound
<1>11. RecordsInv
  BY <1>2, <1>8, <1>10 DEF RecordsInv
<1>12. UnheardInv
  BY DEF Init, UnheardInv, Unheard, Idle
<1> QED BY <1>1, <1>11, <1>12 DEF ListInv

LEMMA RecordsUntouched ==
  ASSUME RecordsInv, UNCHANGED <<links, attached, dependant>>
  PROVE  RecordsInv'
  BY DEF RecordsInv, CountsType

(* A step on the records of one machine.                                   *)
LEMMA RecordsOne ==
  ASSUME RecordsInv, NEW T \in Machines, NEW l2, NEW a2, NEW d2, Sound(l2, a2, d2),
         links' = [links EXCEPT ![T] = l2],
         attached' = [attached EXCEPT ![T] = a2], dependant' = [dependant EXCEPT ![T] = d2]
  PROVE  RecordsInv'
<1>1. l2 \in LinkFields /\ a2 \in [Signals -> Nat] /\ d2 \in [Machines -> Nat]
  BY DEF Sound, WellLinked, Shape
<1>2. CountsType' /\ links' \in [Machines -> LinkFields]
  BY <1>1 DEF RecordsInv, CountsType
<1>3. ASSUME NEW U \in Machines PROVE Sound(links'[U], attached'[U], dependant'[U])
  <2>1. CASE U = T
    BY <2>1 DEF RecordsInv, CountsType
  <2>2. CASE U # T
    BY <2>2 DEF RecordsInv, CountsType
  <2> QED BY <2>1, <2>2
<1> QED BY <1>2, <1>3 DEF RecordsInv

LEMMA AttachRecords ==
  ASSUME RecordsInv, NEW T \in Machines, NEW s \in Signals, NEW i \in Inputs, Attach(T, s, i),
         attached[T][s] = 0
  PROVE  /\ RecordsInv'
         /\ \A U \in Machines : \A t \in Signals :
              attached'[U][t] = IF U = T /\ t = s THEN 1 ELSE attached[U][t]
<1>1. PICK l, a, d : l = links[T] /\ a = attached[T] /\ d = dependant[T]
  OBVIOUS
<1>2. Sound(l, a, d) /\ a[s] = 0 /\ attached \in [Machines -> [Signals -> Nat]]
      /\ dependant \in [Machines -> [Machines -> Nat]]
  BY <1>1 DEF RecordsInv, CountsType
<1>3. PICK l2, a2, d2 :
        /\ l2 = (IF l.input[i] = NULL THEN [l EXCEPT !.input[i] = s] ELSE Lists!Link(l, l.input[i], s))
        /\ a2 = [a EXCEPT ![s] = @ + 1] /\ d2 = [d EXCEPT ![Originator[s]] = @ + 1]
  OBVIOUS
<1>4. Sound(l2, a2, d2)
  BY <1>2, <1>3, AttachSound
<1>5. links' = [links EXCEPT ![T] = l2]
  <2>1. links' = [links EXCEPT ![T] =
                    IF links[T].input[i] = NULL THEN [links[T] EXCEPT !.input[i] = s]
                                   ELSE Lists!Link(links[T], links[T].input[i], s)]
    BY DEF Attach
  <2> QED BY <1>1, <1>3, <2>1
<1>6. attached' = [attached EXCEPT ![T] = a2]
  BY <1>1, <1>2, <1>3 DEF Attach
<1>7. dependant' = [dependant EXCEPT ![T] = d2]
  BY <1>1, <1>2, <1>3 DEF Attach
<1>8. RecordsInv'
  BY <1>4, <1>5, <1>6, <1>7, RecordsOne
<1>9. a2[s] = 1 /\ \A t \in Signals : t # s => a2[t] = a[t]
  BY <1>1, <1>2, <1>3
<1>10. \A U \in Machines : \A t \in Signals :
              attached'[U][t] = IF U = T /\ t = s THEN 1 ELSE attached[U][t]
  BY <1>1, <1>2, <1>6, <1>9
<1> QED BY <1>8, <1>10

LEMMA DetachRecords ==
  ASSUME RecordsInv, "stale" \notin Requests,
         NEW T \in Machines, NEW s \in Signals, NEW i \in Inputs, DetachInput(T, s, i)
  PROVE  /\ RecordsInv'
         /\ \A U \in Machines : \A t \in Signals : attached[U][t] = 0 => attached'[U][t] = 0
         /\ UNCHANGED <<life, io, tight, calls, sink>>
<1>1. PICK l, a, d : l = links[T] /\ a = attached[T] /\ d = dependant[T]
  OBVIOUS
<1>2. Sound(l, a, d) /\ attached \in [Machines -> [Signals -> Nat]]
      /\ dependant \in [Machines -> [Machines -> Nat]]
  BY <1>1 DEF RecordsInv, CountsType
<1>3. PICK u : u = Lists!Unlink(l, l.input[i], s)
  OBVIOUS
<1>4. PICK l2, a2, d2 :
        /\ l2 = Stored(u.links, u.head, i)
        /\ a2 = [a EXCEPT ![s] = Less(@, 1)] /\ d2 = [d EXCEPT ![Originator[s]] = Less(@, 1)]
  OBVIOUS
<1>5. s \in Lists!Members(l, l.input[i])
  BY <1>1 DEF DetachInput
<1>6. Sound(l2, a2, d2)
  BY <1>2, <1>3, <1>4, <1>5, DetachSound
<1>7. links' = [links EXCEPT ![T] = l2]
  BY <1>1, <1>3, <1>4 DEF DetachInput, Stored
<1>8. attached' = [attached EXCEPT ![T] = a2]
  BY <1>1, <1>2, <1>4 DEF DetachInput
<1>9. dependant' = [dependant EXCEPT ![T] = d2]
  BY <1>1, <1>2, <1>4 DEF DetachInput
<1>10. RecordsInv'
  BY <1>6, <1>7, <1>8, <1>9, RecordsOne
<1>11. Less(0, 1) = 0
  BY DEF Less
<1>12. \A t \in Signals : a[t] = 0 => a2[t] = 0
  BY <1>1, <1>2, <1>4, <1>11
<1>13. \A U \in Machines : \A t \in Signals : attached[U][t] = 0 => attached'[U][t] = 0
  BY <1>1, <1>2, <1>8, <1>12
<1>14. UNCHANGED <<life, io, tight, calls, sink>>
  BY DEF DetachInput
<1> QED BY <1>10, <1>13, <1>14

(* What the teardown of m takes out at each machine, and the sums that it  *)
(* takes off the counts.                                                   *)
DrainOf(m) == [T \in Machines |-> Lists!Drain(links[T], Out(m, T))]

Gone(m) == [T \in Machines |-> [o \in Machines |-> Total(DrainOf(m)[T].visits, Sent(Signals, o))]]

(* detach_and_destroy: nothing is left in the lists of m, and nothing that *)
(* m sends is left in any list.                                            *)
LEMMA EnterRecords ==
  ASSUME RecordsInv, EnterDestroy, NEW m, m = Head(calls).machine
  PROVE  /\ RecordsInv'
         /\ \A T \in Machines : \A s \in Signals : attached[T][s] = 0 => attached'[T][s] = 0
         /\ \A T \in Machines : \A s \in Signals : T = m \/ Originator[s] = m => attached'[T][s] = 0
         /\ UNCHANGED <<life, published, io, sink>> /\ tight' = Untie(m)
<1>1. PICK e : e = [T \in Machines |-> Lists!Drain(links[T], Out(m, T))]
  OBVIOUS
<1>2. /\ links' = [T \in Machines |-> e[T].links]
      /\ attached' = [T \in Machines |-> [s \in Signals |-> Less(attached[T][s], e[T].visits[s])]]
  BY <1>1 DEF EnterDestroy
<1>3. \A T \in Machines : dependant'[T] =
        [o \in Machines |-> Less(dependant[T][o], Total(e[T].visits, Sent(Signals, o)))]
  <2>1. dependant' = [T \in Machines |-> [o \in Machines |->
                        Less(dependant[T][o], Gone(Head(calls).machine)[T][o])]]
    BY DEF EnterDestroy, Total, Sent, Gone, DrainOf
  <2>2. e = DrainOf(m)
    BY <1>1 DEF DrainOf
  <2>3. \A T \in Machines : \A o \in Machines : Gone(m)[T][o] = Total(e[T].visits, Sent(Signals, o))
    BY <2>2 DEF Gone
  <2> QED BY <2>1, <2>3
<1>4. ASSUME NEW T \in Machines
      PROVE  /\ Sound(links'[T], attached'[T], dependant'[T])
             /\ Listed(links'[T]) = Listed(links[T]) \ Out(m, T)
  <2>1. PICK l, a, d : l = links[T] /\ a = attached[T] /\ d = dependant[T]
    OBVIOUS
  <2>2. Sound(l, a, d)
    BY <2>1 DEF RecordsInv
  <2>3. PICK out \in SUBSET Signals : out = Out(m, T)
    BY DEF Out
  <2>4. PICK x : x = Lists!Drain(l, out)
    OBVIOUS
  <2>5. e[T] = x
    BY <1>1, <2>1, <2>3, <2>4
  <2>6. links'[T] = x.links
    BY <1>2, <2>5
  <2>7. attached'[T] = [s \in Signals |-> Less(a[s], x.visits[s])]
    BY <1>2, <2>1, <2>5
  <2>8. dependant'[T] = [o \in Machines |-> Less(d[o], Total(x.visits, Sent(Signals, o)))]
    BY <1>3, <2>1, <2>5
  <2>9. PICK a2, d2 : a2 = attached'[T] /\ d2 = dependant'[T]
    OBVIOUS
  <2>10. Sound(x.links, a2, d2) /\ Listed(x.links) = Listed(l) \ out
    BY <2>2, <2>4, <2>7, <2>8, <2>9, DrainSound
  <2> QED BY <2>1, <2>3, <2>6, <2>9, <2>10
<1>5. links' \in [Machines -> LinkFields]
  <2>1. \A T \in Machines : links'[T] \in LinkFields
    BY <1>4 DEF Sound, WellLinked, Shape
  <2> QED BY <1>2, <2>1
<1>6. CountsType'
  <2>1. \A T \in Machines : attached'[T] \in [Signals -> Nat] /\ dependant'[T] \in [Machines -> Nat]
    BY <1>4 DEF Sound
  <2>2. attached' = [T \in Machines |-> attached'[T]] /\ dependant' = [T \in Machines |-> dependant'[T]]
    BY DEF EnterDestroy
  <2> QED BY <2>1, <2>2 DEF CountsType
<1>7. RecordsInv'
  BY <1>4, <1>5, <1>6 DEF RecordsInv
<1>8. \A T \in Machines : \A s \in Signals :
        /\ attached[T][s] = IF s \in Listed(links[T]) THEN 1 ELSE 0
        /\ attached'[T][s] = IF s \in Listed(links'[T]) THEN 1 ELSE 0
  BY <1>4 DEF RecordsInv, Sound
<1>9. \A T \in Machines : \A s \in Signals : attached[T][s] = 0 => attached'[T][s] = 0
  BY <1>4, <1>8
<1>10. ASSUME NEW T \in Machines, NEW s \in Signals, T = m \/ Originator[s] = m
       PROVE  attached'[T][s] = 0
  <2>1. CASE T = m
    BY <1>4, <1>8, <2>1 DEF Out
  <2>2. CASE T # m /\ attached[T][s] = 0
    BY <1>9, <2>2
  <2>3. CASE T # m /\ attached[T][s] # 0
    <3>1. Originator[s] = m /\ attached[T][s] > 0
      BY <1>8, <1>10, <2>3
    <3>2. s \in Out(m, T)
      BY <2>3, <3>1 DEF Out
    <3> QED BY <1>4, <1>8, <3>2
  <2> QED BY <2>1, <2>2, <2>3
<1>11. UNCHANGED <<life, published, io, sink>> /\ tight' = Untie(m)
  BY DEF EnterDestroy
<1> QED BY <1>7, <1>9, <1>10, <1>11

(* The types that the teardown and the io thread rely on hold for every    *)
(* kind of request.                                                        *)
LEMMA NextTieType == TieType /\ [Next]_vars => TieType'
<1> SUFFICES ASSUME TieType, [Next]_vars PROVE TieType'
  OBVIOUS
<1>1. CASE UNCHANGED <<life, published, io, tight>>
  BY <1>1 DEF TieType
<1>2. ASSUME NEW m \in Machines \ Sequences_, RegisterMachine(m) PROVE TieType'
  BY <1>2 DEF TieType, RegisterMachine
<1>3. ASSUME NEW m \in Machines \ Sequences_, Publish(m) PROVE TieType'
  <2>1. /\ published' = [published EXCEPT ![m] = "yes"] /\ life' = life /\ tight' = tight
        /\ io' = IF SequenceOf[m] = NULL THEN Idle ELSE [stage |-> "create", machine |-> m]
    BY <1>3 DEF Publish
  <2> QED BY <2>1 DEF TieType
<1>4. ASSUME NEW m \in Machines \ Sequences_, Unpublish(m) PROVE TieType'
  BY <1>4 DEF TieType, Unpublish
<1>5. ASSUME NEW m \in Machines \ Sequences_, NEW g, NEW h \in {"attach", "tie"},
             io = [stage |-> g, machine |-> m], g \in {"create", "attach", "tie"},
             io' = [io EXCEPT !.stage = h],
             life' \in [Machines -> {"new", "live", "dead"}], UNCHANGED <<published, tight>>
      PROVE  TieType'
  <2>2. SequenceOf[m] \in Machines /\ published[m] = "yes"
    BY <1>5, IoView
  <2>3. io' = [stage |-> h, machine |-> m]
    BY <1>5
  <2>4. SequenceOf[m] # NULL
    BY <2>2, GraphAssumption
  <2> QED BY <1>5, <2>2, <2>3, <2>4 DEF TieType
<1>6. ASSUME NEW m \in Machines \ Sequences_, CreateSequence(m) PROVE TieType'
  <2>1. io = [stage |-> "create", machine |-> m] /\ io' = [io EXCEPT !.stage = "attach"]
        /\ life' = [life EXCEPT ![SequenceOf[m]] = "live"] /\ UNCHANGED <<published, tight>>
    BY <1>6 DEF CreateSequence
  <2>2. life' \in [Machines -> {"new", "live", "dead"}]
    BY <2>1 DEF TieType
  <2> QED BY <1>5, <2>1, <2>2
<1>7. ASSUME NEW m \in Machines \ Sequences_, AttachSequence(m) PROVE TieType'
  <2>1. io = [stage |-> "attach", machine |-> m] /\ io' = [io EXCEPT !.stage = "tie"]
        /\ life' = life /\ UNCHANGED <<published, tight>>
    BY <1>7 DEF AttachSequence, Attach
  <2>2. life' \in [Machines -> {"new", "live", "dead"}]
    BY <2>1 DEF TieType
  <2> QED BY <1>5, <2>1, <2>2
<1>8. ASSUME NEW m \in Machines \ Sequences_, AttachSequenceFails(m) PROVE TieType'
  BY <1>8 DEF TieType, AttachSequenceFails
<1>9. ASSUME NEW m \in Machines \ Sequences_, TightlyConnect(m) PROVE TieType'
  <2>1. PICK q : q = SequenceOf[m]
    OBVIOUS
  <2>2. io = [stage |-> "tie", machine |-> m] /\ io' = Idle /\ UNCHANGED <<life, published>>
        /\ tight' = [tight EXCEPT ![q] = @ \cup {m}, ![m] = @ \cup {q}]
    BY <1>9, <2>1 DEF TightlyConnect
  <2>3. q \in Machines
    BY <2>1, <2>2, IoView
  <2>4. tight' \in [Machines -> SUBSET Machines]
    BY <2>2, <2>3 DEF TieType
  <2> QED BY <2>2, <2>4 DEF TieType
<1>10. ASSUME NEW T \in Machines, NEW s \in Signals, NEW i \in Inputs,
              AttachInput(T, s, i) \/ DetachInput(T, s, i)
       PROVE  TieType'
  BY <1>1, <1>10 DEF AttachInput, DetachInput, Attach
<1>11. ASSUME NEW m \in Machines, DisconnectAndDestroy(m) PROVE TieType'
  BY <1>1, <1>11 DEF DisconnectAndDestroy
<1>12. CASE EnterDestroy
  <2>1. PICK m : m = Head(calls).machine
    OBVIOUS
  <2>2. tight' = Untie(m) /\ UNCHANGED <<life, published, io>>
    BY <1>12, <2>1 DEF EnterDestroy
  <2>3. tight' \in [Machines -> SUBSET Machines]
    BY <2>2 DEF Untie, TieType
  <2> QED BY <2>2, <2>3 DEF TieType
<1>13. CASE LeaveDestroy
  <2>1. PICK m : m = Head(calls).machine
    OBVIOUS
  <2>2. UNCHANGED <<published, io, tight>> /\ life' \in {life, [life EXCEPT ![m] = "dead"]}
    BY <1>13, <2>1 DEF LeaveDestroy
  <2>3. life' \in [Machines -> {"new", "live", "dead"}]
    BY <2>2 DEF TieType
  <2> QED BY <2>2, <2>3 DEF TieType
<1>14. CASE UNCHANGED vars
  BY <1>1, <1>14 DEF vars
<1> QED BY <1>2, <1>3, <1>4, <1>6, <1>7, <1>8, <1>9, <1>10, <1>11, <1>12, <1>13, <1>14 DEF Next

(* The Sequence that the io thread works on is a machine.                  *)
LEMMA IoSequence ==
  ASSUME TieType, io.stage \in {"attach", "tie"}
  PROVE  SequenceOf[io.machine] \in Machines \cap Sequences_
  BY BuildingView DEF Building

(* A step that attaches nothing and builds no Sequence.                    *)
LEMMA UnheardKept ==
  ASSUME TieType, UnheardInv,
         \A o \in Machines : life'[o] = "new" => life[o] = "new",
         \A T \in Machines : \A s \in Signals : attached[T][s] = 0 => attached'[T][s] = 0,
         io' = io \/ io'.stage \notin {"attach", "tie"}
  PROVE  UnheardInv'
<1>1. \A o : Unheard(o) => Unheard(o)'
  BY DEF Unheard
<1>2. \A o \in Machines : life'[o] = "new" => Unheard(o)'
  BY <1>1 DEF UnheardInv
<1>3. io'.stage = "attach" =>
        \A T \in Machines : \A s \in Signals :
          Originator[s] = SequenceOf[io'.machine] => attached'[T][s] = 0
  BY DEF UnheardInv, Unheard
<1>4. io'.stage \in {"attach", "tie"} => life'[SequenceOf[io'.machine]] # "new"
  BY IoSequence DEF UnheardInv
<1> QED BY <1>2, <1>3, <1>4 DEF UnheardInv, Unheard

LEMMA AttachInputLists ==
  ASSUME ListInv, "repeat" \notin Requests,
         NEW T \in Machines, NEW s \in Signals, NEW i \in Inputs, AttachInput(T, s, i)
  PROVE  RecordsInv' /\ UnheardInv'
<1>1. /\ attached[T][s] = 0 /\ Attach(T, s, i) /\ io' = io /\ life' = life
      /\ Originator[s] \notin Sequences_ /\ life[Originator[s]] # "new"
  BY DEF AttachInput, Attach
<1>2. /\ RecordsInv'
      /\ \A U \in Machines : \A t \in Signals :
           attached'[U][t] = IF U = T /\ t = s THEN 1 ELSE attached[U][t]
  BY <1>1, AttachRecords DEF ListInv
<1>3. \A o : o # Originator[s] /\ Unheard(o) => Unheard(o)'
  BY <1>2 DEF Unheard
<1>4. \A o \in Machines : life'[o] = "new" => Unheard(o)'
  BY <1>1, <1>3 DEF UnheardInv, ListInv
<1>5. io'.stage = "attach" =>
        \A U \in Machines : \A t \in Signals :
          Originator[t] = SequenceOf[io'.machine] => attached'[U][t] = 0
  BY <1>1, <1>2, IoSequence DEF UnheardInv, ListInv, Unheard
<1>6. io'.stage \in {"attach", "tie"} => life'[SequenceOf[io'.machine]] # "new"
  BY <1>1 DEF UnheardInv, ListInv
<1> QED BY <1>2, <1>4, <1>5, <1>6 DEF UnheardInv, Unheard

LEMMA AttachSequenceLists ==
  ASSUME ListInv, NEW m \in Machines \ Sequences_, AttachSequence(m)
  PROVE  RecordsInv' /\ UnheardInv'
<1>1. PICK q : q = SequenceOf[m]
  OBVIOUS
<1>2. io = [stage |-> "attach", machine |-> m] /\ io' = [io EXCEPT !.stage = "tie"]
  BY DEF AttachSequence
<1>3. io.stage = "attach" /\ io.machine = m /\ io'.stage = "tie" /\ io'.machine = m
  BY <1>2
<1>4. PICK s \in Midi, i \in Inputs : Originator[s] = q /\ Attach(m, s, i)
  BY <1>1 DEF AttachSequence
<1>5. s \in Signals /\ life' = life
  BY <1>4, GraphAssumption DEF Attach
<1>6. Unheard(q) /\ life[q] # "new"
  BY <1>1, <1>3 DEF ListInv, UnheardInv
<1>7. attached[m][s] = 0
  BY <1>4, <1>5, <1>6 DEF Unheard
<1>8. /\ RecordsInv'
      /\ \A U \in Machines : \A t \in Signals :
           attached'[U][t] = IF U = m /\ t = s THEN 1 ELSE attached[U][t]
  BY <1>4, <1>5, <1>7, AttachRecords DEF ListInv
<1>9. \A o : o # q /\ Unheard(o) => Unheard(o)'
  BY <1>4, <1>8 DEF Unheard
<1>10. \A o \in Machines : life'[o] = "new" => Unheard(o)'
  BY <1>5, <1>6, <1>9 DEF UnheardInv, ListInv
<1>11. life'[SequenceOf[io'.machine]] # "new"
  BY <1>1, <1>3, <1>5, <1>6
<1> QED BY <1>3, <1>8, <1>10, <1>11 DEF UnheardInv

LEMMA CreateLists ==
  ASSUME ListInv, NEW m \in Machines \ Sequences_, CreateSequence(m)
  PROVE  RecordsInv' /\ UnheardInv'
<1>1. PICK q : q = SequenceOf[m]
  OBVIOUS
<1>2. /\ io = [stage |-> "create", machine |-> m] /\ io' = [io EXCEPT !.stage = "attach"]
      /\ life[q] = "new" /\ life' = [life EXCEPT ![q] = "live"]
      /\ UNCHANGED <<links, attached, dependant>>
  BY <1>1 DEF CreateSequence
<1>3. q \in Machines
  BY <1>1, <1>2, IoView DEF ListInv
<1>4. io'.stage = "attach" /\ io'.machine = m
  BY <1>2
<1>5. life'[q] = "live" /\ \A o \in Machines : o # q => life'[o] = life[o]
  BY <1>2, <1>3 DEF ListInv, TieType
<1>6. \A o : Unheard(o)' = Unheard(o)
  BY <1>2 DEF Unheard
<1>7. Unheard(q)
  BY <1>2, <1>3 DEF ListInv, UnheardInv
<1>8. UnheardInv'
  BY <1>1, <1>4, <1>5, <1>6, <1>7 DEF ListInv, UnheardInv
<1> QED BY <1>2, <1>8, RecordsUntouched DEF ListInv

LEMMA NextLists ==
  ASSUME "repeat" \notin Requests, "stale" \notin Requests
  PROVE  ListInv /\ [Next]_vars => ListInv'
<1> SUFFICES ASSUME ListInv, [Next]_vars PROVE ListInv'
  OBVIOUS
<1>1. TieType'
  BY NextTieType DEF ListInv
<1> SUFFICES RecordsInv' /\ UnheardInv'
  BY <1>1 DEF ListInv
<1>2. ASSUME UNCHANGED <<links, attached, dependant>>,
             \A o \in Machines : life'[o] = "new" => life[o] = "new",
             io' = io \/ io'.stage \notin {"attach", "tie"}
      PROVE  RecordsInv' /\ UnheardInv'
  BY <1>2, RecordsUntouched, UnheardKept DEF ListInv
<1>3. CASE UNCHANGED vars
  BY <1>2, <1>3 DEF vars
<1>4. ASSUME NEW m \in Machines \ Sequences_, RegisterMachine(m) PROVE RecordsInv' /\ UnheardInv'
  <2>1. life' = [life EXCEPT ![m] = "live"] /\ UNCHANGED <<links, attached, dependant, io>>
    BY <1>4 DEF RegisterMachine
  <2>2. \A o \in Machines : life'[o] = "new" => life[o] = "new"
    BY <2>1 DEF ListInv, TieType
  <2> QED BY <1>2, <2>1, <2>2
<1>5. ASSUME NEW m \in Machines \ Sequences_,
             Publish(m) \/ Unpublish(m) \/ AttachSequenceFails(m) \/ TightlyConnect(m)
      PROVE  RecordsInv' /\ UnheardInv'
  <2>1. UNCHANGED <<links, attached, dependant, life>>
    BY <1>5 DEF Publish, Unpublish, AttachSequenceFails, TightlyConnect
  <2>2. io' = io \/ io' = Idle \/ io' = Ended \/ io' = [stage |-> "create", machine |-> m]
    BY <1>5 DEF Publish, Unpublish, AttachSequenceFails, TightlyConnect
  <2>3. io' = io \/ io'.stage \notin {"attach", "tie"}
    BY <2>2 DEF Idle, Ended
  <2> QED BY <1>2, <2>1, <2>3
<1>6. ASSUME NEW T \in Machines, NEW s \in Signals, NEW i \in Inputs, DetachInput(T, s, i)
      PROVE  RecordsInv' /\ UnheardInv'
  <2>1. /\ RecordsInv' /\ life' = life /\ io' = io
        /\ \A U \in Machines : \A t \in Signals : attached[U][t] = 0 => attached'[U][t] = 0
    BY <1>6, DetachRecords DEF ListInv
  <2> QED BY <2>1, UnheardKept DEF ListInv
<1>7. ASSUME NEW m \in Machines, DisconnectAndDestroy(m) PROVE RecordsInv' /\ UnheardInv'
  BY <1>2, <1>7 DEF DisconnectAndDestroy
<1>8. CASE EnterDestroy
  <2>1. PICK m : m = Head(calls).machine
    OBVIOUS
  <2>2. /\ RecordsInv' /\ life' = life /\ io' = io
        /\ \A U \in Machines : \A t \in Signals : attached[U][t] = 0 => attached'[U][t] = 0
    BY <1>8, <2>1, EnterRecords DEF ListInv
  <2> QED BY <2>2, UnheardKept DEF ListInv
<1>9. CASE LeaveDestroy
  <2>1. PICK m : m = Head(calls).machine
    OBVIOUS
  <2>2. /\ UNCHANGED <<links, attached, dependant, io>>
        /\ life' \in {life, [life EXCEPT ![m] = "dead"]}
    BY <1>9, <2>1 DEF LeaveDestroy
  <2>3. \A o \in Machines : life'[o] = "new" => life[o] = "new"
    BY <2>2 DEF ListInv, TieType
  <2> QED BY <1>2, <2>2, <2>3
<1> QED BY <1>3, <1>4, <1>5, <1>6, <1>7, <1>8, <1>9, AttachInputLists, AttachSequenceLists,
           CreateLists DEF Next

LEMMA RecordsMatch == RecordsInv => CountsMatch
<1> SUFFICES ASSUME RecordsInv, NEW T \in Machines
             PROVE  /\ \A s \in Signals : attached[T][s] = IF s \in Held(T) THEN 1 ELSE 0
                    /\ \A o \in Machines :
                         dependant[T][o] = Cardinality({s \in Held(T) : Originator[s] = o})
  BY DEF CountsMatch
<1>1. Held(T) = Listed(links[T]) /\ Sound(links[T], attached[T], dependant[T])
  BY HeldIsListed DEF RecordsInv
<1> QED BY <1>1 DEF Sound, Sent

(* Pointers that form lists can be walked in both directions.              *)
LEMMA ShapeSound ==
  ASSUME NEW l, WellLinked(l), NEW i \in Inputs, l.input[i] # NULL
  PROVE  /\ Lists!Terminates(l, l.input[i])
         /\ l.previous[l.input[i]] = NULL
         /\ \A s \in Lists!Members(l, l.input[i]) :
              /\ l.next[s] # NULL => l.previous[l.next[s]] = s
              /\ \A j \in Inputs \ {i} : s \notin Lists!Members(l, l.input[j])
<1>0. 0 \notin Inputs /\ NULL \notin Signals
  BY InputsFacts
<1>1. PICK own, rank, size : Shape(l, own, rank, size)
  BY DEF WellLinked
<1>2. \A j \in Inputs : /\ Lists!Members(l, l.input[j]) = {s \in Signals : own[s] = j}
                        /\ Lists!Terminates(l, l.input[j])
  BY <1>1, MembersView
<1>3. l \in LinkFields /\ GhostType(own, rank, size)
  BY <1>1 DEF Shape
<1>4. PICK h \in Signals : h = l.input[i] /\ own[h] = i /\ rank[h] = 1
  BY <1>1, <1>3 DEF Shape, Headed, LinkFields
<1>5. l.previous[h] = NULL
  <2> SUFFICES ASSUME l.previous[h] # NULL PROVE FALSE
    OBVIOUS
  <2>1. Placed(l, own, rank, size, h)
    BY <1>0, <1>1, <1>4 DEF Shape
  <2>2. PICK p \in Signals : p = l.previous[h] /\ own[p] = i /\ rank[p] = 0
    BY <1>3, <1>4, <2>1 DEF Placed, LinkFields
  <2>3. rank[p] >= 1
    BY <1>0, <1>1, <2>2 DEF Shape, Placed
  <2> QED BY <2>2, <2>3
<1>6. ASSUME NEW s \in Signals, own[s] = i, l.next[s] # NULL PROVE l.previous[l.next[s]] = s
  <2>1. Placed(l, own, rank, size, s) /\ rank[s] \in Nat /\ rank[s] >= 1
    BY <1>0, <1>1, <1>3, <1>6 DEF Shape, GhostType, Placed
  <2>2. PICK n \in Signals : n = l.next[s] /\ own[n] = i /\ rank[n] = rank[s] + 1
    BY <1>3, <1>6, <2>1 DEF Placed, LinkFields
  <2>3. Placed(l, own, rank, size, n) /\ l.previous[n] \in Signals \cup {NULL}
    BY <1>0, <1>1, <1>3, <2>2 DEF Shape, LinkFields
  <2>4. l.previous[n] \in Signals /\ own[l.previous[n]] = i /\ rank[l.previous[n]] = rank[s]
    BY <2>1, <2>2, <2>3 DEF Placed
  <2>5. l.previous[n] = s
    BY <1>0, <1>1, <1>6, <2>4 DEF Shape
  <2> QED BY <2>2, <2>5
<1>7. \A s \in Lists!Members(l, l.input[i]) :
        /\ l.next[s] # NULL => l.previous[l.next[s]] = s
        /\ \A j \in Inputs \ {i} : s \notin Lists!Members(l, l.input[j])
  BY <1>2, <1>6
<1> QED BY <1>2, <1>4, <1>5, <1>7

LEMMA RecordsSound == RecordsInv => ListsSound
<1> SUFFICES ASSUME RecordsInv PROVE ListsSound
  OBVIOUS
<1>1. \A T \in Machines : WellLinked(links[T])
  BY DEF RecordsInv, Sound
<1> QED BY <1>1, ShapeSound DEF ListsSound

LEMMA ListsAlways ==
  ASSUME "repeat" \notin Requests, "stale" \notin Requests
  PROVE  Spec => []ListInv
  BY InitLists, NextLists, PTL DEF Spec

(* As long as no request attaches a signal twice to a machine or detaches  *)
(* one that is not there, the counts that the signals keep, the counts     *)
(* that recalculate_render_chain reads and the input lists tell the same,  *)
(* through every attach, detach and teardown, for every number of          *)
(* machines, signals and inputs.                                           *)
THEOREM CountsMatchAlways ==
  ASSUME "repeat" \notin Requests, "stale" \notin Requests
  PROVE  Spec => []CountsMatch
<1>1. Spec => []ListInv
  BY ListsAlways
<1>2. ListInv => CountsMatch
  BY RecordsMatch DEF ListInv
<1> QED BY <1>1, <1>2, PTL

(* Under the same condition Signal::link and Signal::unlink keep the input *)
(* lists what premix and the destructors take them for: lists that end,    *)
(* apart from each other, with back pointers that agree.                   *)
THEOREM ListsSoundAlways ==
  ASSUME "repeat" \notin Requests, "stale" \notin Requests
  PROVE  Spec => []ListsSound
<1>1. Spec => []ListInv
  BY ListsAlways
<1>2. ListInv => ListsSound
  BY RecordsSound DEF ListInv
<1> QED BY <1>1, <1>2, PTL

-----------------------------------------------------------------------------
(* Machines out of use                                                     *)

(* The machines in the stack c that are disconnected already, and have     *)
(* still to be deregistered.                                               *)
Leavers(c) == {c[k].machine : k \in {j \in DOMAIN c : ~c[j].enter}}

LEMMA LeaversView ==
  ASSUME NEW m, NEW q
  PROVE  /\ Leavers(<<>>) = {} /\ Leavers(<<Enter(m)>>) = {} /\ Leavers(<<Leave(m)>>) = {m}
         /\ Leavers(<<Enter(q), Leave(m)>>) = {m}
         /\ Leavers(<<Leave(q), Leave(m)>>) = {q, m}
<1>1. PICK e, b, f, c : e = Enter(m) /\ b = Leave(m) /\ f = Enter(q) /\ c = Leave(q)
  OBVIOUS
<1>2. /\ e.enter = TRUE /\ b.enter = FALSE /\ b.machine = m
      /\ f.enter = TRUE /\ c.enter = FALSE /\ c.machine = q
  BY <1>1, StackView
<1>3. Leavers(<<>>) = {}
  BY DEF Leavers
<1>4. Leavers(<<e>>) = {} /\ Leavers(<<b>>) = {m}
  BY <1>2 DEF Leavers
<1>5. Leavers(<<f, b>>) = {m}
  <2>1. PICK x : x = <<f, b>>
    OBVIOUS
  <2>2. DOMAIN x = {1, 2} /\ x[1] = f /\ x[2] = b
    BY <2>1
  <2>3. Leavers(x) = {m}
    BY <1>2, <2>2 DEF Leavers
  <2> QED BY <2>1, <2>3
<1>6. Leavers(<<c, b>>) = {q, m}
  <2>1. PICK x : x = <<c, b>>
    OBVIOUS
  <2>2. DOMAIN x = {1, 2} /\ x[1] = c /\ x[2] = b
    BY <2>1
  <2>3. Leavers(x) = {q, m}
    BY <1>2, <2>2 DEF Leavers
  <2> QED BY <2>1, <2>3
<1> QED BY <1>1, <1>3, <1>4, <1>5, <1>6

(* EnterDestroy disconnects the machine on top of the stack, and no other. *)
LEMMA EnterLeavers ==
  ASSUME TieInv, EnterDestroy, NEW m, m = Head(calls).machine
  PROVE  m \in Machines /\ Leavers(calls') \subseteq Leavers(calls) \cup {m}
<1>1. calls # <<>> /\ Head(calls).enter
  BY DEF EnterDestroy
<1>2. ASSUME NEW n \in Machines, calls = <<Enter(n)>>
      PROVE  m \in Machines /\ Leavers(calls') \subseteq Leavers(calls) \cup {m}
  <2>1. m = n /\ Tail(calls) = <<>>
    BY <1>2, StackView
  <2>2. tight[m] \subseteq Machines /\ tight[m] \subseteq Nat
    BY <1>2, <2>1, GraphAssumption DEF TieInv, TieType
  <2>3. CASE tight[m] = {}
    <3>1. calls' = <<Leave(m)>> \o <<>>
      BY <2>1, <2>2, <2>3, EnterCalls
    <3>2. PICK b : b = Leave(m)
      OBVIOUS
    <3>3. <<b>> \o <<>> = <<b>>
      OBVIOUS
    <3>4. Leavers(calls') = {m}
      BY <3>1, <3>2, <3>3, LeaversView
    <3> QED BY <1>2, <2>1, <3>4
  <2>4. CASE tight[m] # {}
    <3>1. PICK q \in tight[m] : tight[m] = {q}
      BY <1>2, <2>1, <2>2, <2>4 DEF TieInv, PairInv, Paired
    <3>2. calls' = <<Enter(q), Leave(m)>> \o <<>>
      BY <2>1, <2>2, <3>1, EnterCalls
    <3>3. PICK a, b : a = Enter(q) /\ b = Leave(m)
      OBVIOUS
    <3>4. <<a, b>> \o <<>> = <<a, b>>
      OBVIOUS
    <3>5. Leavers(calls') = {m}
      <4>1. calls' = <<Enter(q), Leave(m)>>
        BY <3>2, <3>3, <3>4
      <4>2. Leavers(<<Enter(q), Leave(m)>>) = {m}
        BY LeaversView
      <4> QED BY <4>1, <4>2
    <3> QED BY <1>2, <2>1, <3>5
  <2> QED BY <2>3, <2>4
<1>3. ASSUME NEW n \in Machines, NEW q \in Machines, calls = <<Enter(q), Leave(n)>>, Widowed(n, q)
      PROVE  m \in Machines /\ Leavers(calls') \subseteq Leavers(calls) \cup {m}
  <2>1. m = q /\ Tail(calls) = <<Leave(n)>>
    <3>1. Head(calls) = Enter(q) /\ Tail(calls) = <<Leave(n)>> /\ Enter(q).machine = q
      BY <1>3, StackView
    <3> QED BY <3>1
  <2>2. tight[m] = {} /\ tight[m] \subseteq Nat
    BY <1>3, <2>1 DEF Widowed
  <2>3. calls' = <<Leave(q)>> \o <<Leave(n)>>
    BY <2>1, <2>2, EnterCalls
  <2>4. calls' = <<Leave(q), Leave(n)>>
    BY <2>3, TwoCalls
  <2>5. Leavers(calls') = {q, n} /\ Leavers(calls) = {n}
    BY <1>3, <2>4, LeaversView
  <2> QED BY <1>3, <2>1, <2>5
<1> QED BY <1>1, <1>2, <1>3, EnterForm DEF TieInv

(* LeaveDestroy deregisters a machine that is disconnected.                *)
LEMMA LeaveLeavers ==
  ASSUME TieInv, LeaveDestroy, NEW m, m = Head(calls).machine
  PROVE  m \in Leavers(calls) /\ Leavers(calls') \subseteq Leavers(calls)
<1>1. calls # <<>> /\ ~Head(calls).enter
  BY DEF LeaveDestroy
<1>2. calls' = <<>> \/ calls' = Tail(calls)
  BY DEF LeaveDestroy
<1>3. Leavers(<<>>) = {}
  BY LeaversView
<1>4. ASSUME NEW n \in Machines, calls = <<Leave(n)>>
      PROVE  m \in Leavers(calls) /\ Leavers(calls') \subseteq Leavers(calls)
  <2>1. Head(calls) = Leave(n) /\ Tail(calls) = <<>> /\ Leave(n).machine = n
    BY <1>4, StackView
  <2>2. Leavers(calls) = {n}
    BY <1>4, LeaversView
  <2> QED BY <1>2, <1>3, <2>1, <2>2
<1>5. ASSUME NEW n \in Machines, NEW q \in Machines, calls = <<Leave(q), Leave(n)>>
      PROVE  m \in Leavers(calls) /\ Leavers(calls') \subseteq Leavers(calls)
  <2>1. Head(calls) = Leave(q) /\ Tail(calls) = <<Leave(n)>> /\ Leave(q).machine = q
    BY <1>5, StackView
  <2>2. Leavers(calls) = {q, n} /\ Leavers(<<Leave(n)>>) = {n}
    BY <1>5, LeaversView
  <2>3. m = q
    BY <2>1
  <2>4. Leavers(calls') = {} \/ Leavers(calls') = {n}
    <3>1. calls' = <<>> \/ calls' = <<Leave(n)>>
      BY <1>2, <2>1
    <3> QED BY <1>3, <2>2, <3>1
  <2> QED BY <2>2, <2>3, <2>4
<1> QED BY <1>1, <1>4, <1>5, LeaveForm DEF TieInv

(* m listens to no machine.                                                *)
Deaf(m) == \A s \in Signals : attached[m][s] = 0

(* Out of use: disconnected for good, deregistered or about to be.         *)
OutOfUse(m) == life[m] = "dead" \/ m \in Leavers(calls)

OutInv ==
  /\ \A m \in Machines : OutOfUse(m) => Unheard(m) /\ Deaf(m)
  /\ sink \in Machines \cup {NULL}
  /\ sink # NULL => life[sink] = "live"

LEMMA InitOut == Init => OutInv
  BY LeaversView DEF Init, OutInv, OutOfUse

(* A step that attaches nothing and takes nothing out of use.              *)
LEMMA OutKept ==
  ASSUME OutInv, \A m \in Machines : OutOfUse(m)' => OutOfUse(m),
         \A T \in Machines : \A s \in Signals : attached[T][s] = 0 => attached'[T][s] = 0,
         sink' \in Machines \cup {NULL}, sink' # NULL => life'[sink'] = "live"
  PROVE  OutInv'
<1>1. ASSUME NEW m \in Machines, OutOfUse(m)' PROVE Unheard(m)' /\ Deaf(m)'
  <2>1. Unheard(m) /\ Deaf(m)
    BY <1>1 DEF OutInv
  <2> QED BY <2>1 DEF Unheard, Deaf
<1> QED BY <1>1 DEF OutInv

(* An attach between two machines in use.                                  *)
LEMMA AttachOut ==
  ASSUME OutInv, RecordsInv, NEW T \in Machines, NEW s \in Signals, NEW i \in Inputs,
         Attach(T, s, i), attached[T][s] = 0, life[T] = "live", life[Originator[s]] = "live"
  PROVE  OutInv'
<1>1. calls = <<>> /\ UNCHANGED <<life, sink, calls>>
  BY DEF Attach, Quiet
<1>2. Leavers(calls) = {}
  BY <1>1, LeaversView
<1>3. \A U \in Machines : \A t \in Signals :
        attached'[U][t] = IF U = T /\ t = s THEN 1 ELSE attached[U][t]
  BY AttachRecords
<1>4. ASSUME NEW m \in Machines, OutOfUse(m)' PROVE Unheard(m)' /\ Deaf(m)'
  <2>1. life[m] = "dead"
    BY <1>1, <1>2, <1>4 DEF OutOfUse
  <2>2. Unheard(m) /\ Deaf(m) /\ m # T /\ m # Originator[s]
    BY <2>1 DEF OutInv, OutOfUse
  <2> QED BY <1>3, <2>2 DEF Unheard, Deaf
<1> QED BY <1>1, <1>4 DEF OutInv

LEMMA NextOut ==
  ASSUME "repeat" \notin Requests, "stale" \notin Requests
  PROVE  TieInv /\ ListInv /\ OutInv /\ [Next]_vars => OutInv'
<1> SUFFICES ASSUME TieInv, ListInv, OutInv, [Next]_vars PROVE OutInv'
  OBVIOUS
<1>0. sink \in Machines \cup {NULL} /\ (sink # NULL => life[sink] = "live")
  BY DEF OutInv
<1>1. ASSUME UNCHANGED <<life, attached, sink>>,
             calls' = calls \/ \E m : calls' = <<Enter(m)>>
      PROVE  OutInv'
  <2>1. Leavers(calls') \subseteq Leavers(calls)
    BY <1>1, LeaversView
  <2>2. \A m \in Machines : OutOfUse(m)' => OutOfUse(m)
    BY <1>1, <2>1 DEF OutOfUse
  <2> QED BY <1>0, <1>1, <2>2, OutKept
<1>2. CASE UNCHANGED vars
  BY <1>1, <1>2 DEF vars
<1>3. ASSUME NEW q \in Machines, life[q] = "new", life' = [life EXCEPT ![q] = "live"],
             UNCHANGED <<attached, calls>>, sink' \in {q, sink}
      PROVE  OutInv'
  <2>1. life'[q] = "live" /\ \A m \in Machines : m # q => life'[m] = life[m]
    BY <1>3 DEF TieInv, TieType
  <2>2. \A m \in Machines : OutOfUse(m)' => OutOfUse(m)
    BY <1>3, <2>1 DEF OutOfUse
  <2>3. sink' # NULL => life'[sink'] = "live"
    BY <1>0, <1>3, <2>1
  <2> QED BY <1>0, <1>3, <2>2, <2>3, OutKept
<1>4. ASSUME NEW m \in Machines \ Sequences_, RegisterMachine(m) PROVE OutInv'
  BY <1>3, <1>4 DEF RegisterMachine
<1>5. ASSUME NEW m \in Machines \ Sequences_, CreateSequence(m) PROVE OutInv'
  <2>1. io = [stage |-> "create", machine |-> m]
    BY <1>5 DEF CreateSequence
  <2>2. SequenceOf[m] \in Machines
    BY <2>1, IoView DEF TieInv
  <2> QED BY <1>3, <1>5, <2>2 DEF CreateSequence
<1>6. ASSUME NEW m \in Machines, Publish(m) \/ Unpublish(m) \/ TightlyConnect(m) PROVE OutInv'
  BY <1>1, <1>6 DEF Publish, Unpublish, TightlyConnect
<1>7. ASSUME NEW m \in Machines, AttachSequenceFails(m) \/ DisconnectAndDestroy(m) PROVE OutInv'
  <2>1. calls' = <<Enter(m)>> /\ UNCHANGED <<life, attached, sink>>
    BY <1>7 DEF AttachSequenceFails, DisconnectAndDestroy, Enter
  <2> QED BY <1>1, <2>1
<1>8. ASSUME NEW m \in Machines \ Sequences_, AttachSequence(m) PROVE OutInv'
  <2>1. PICK q : q = SequenceOf[m]
    OBVIOUS
  <2>2. io = [stage |-> "attach", machine |-> m] /\ life[m] = "live" /\ life[q] = "live"
    BY <1>8, <2>1 DEF AttachSequence
  <2>3. PICK s \in Midi, i \in Inputs : Originator[s] = q /\ Attach(m, s, i)
    BY <1>8, <2>1 DEF AttachSequence
  <2>4. s \in Signals /\ io.stage = "attach" /\ io.machine = m
    BY <2>2, <2>3, GraphAssumption
  <2>5. Unheard(q)
    BY <2>1, <2>4 DEF ListInv, UnheardInv
  <2>6. attached[m][s] = 0
    BY <2>3, <2>4, <2>5 DEF Unheard
  <2> QED BY <2>2, <2>3, <2>4, <2>5, <2>6, AttachOut DEF ListInv
<1>9. ASSUME NEW T \in Machines, NEW s \in Signals, NEW i \in Inputs, AttachInput(T, s, i)
      PROVE  OutInv'
  <2>1. Attach(T, s, i) /\ attached[T][s] = 0 /\ life[T] = "live" /\ life[Originator[s]] = "live"
    BY <1>9 DEF AttachInput
  <2> QED BY <2>1, AttachOut DEF ListInv
<1>10. ASSUME NEW T \in Machines, NEW s \in Signals, NEW i \in Inputs, DetachInput(T, s, i)
       PROVE  OutInv'
  <2>1. /\ UNCHANGED <<life, calls, sink>>
        /\ \A U \in Machines : \A t \in Signals : attached[U][t] = 0 => attached'[U][t] = 0
    BY <1>10, DetachRecords DEF ListInv
  <2>2. \A m \in Machines : OutOfUse(m)' => OutOfUse(m)
    BY <2>1 DEF OutOfUse
  <2> QED BY <1>0, <2>1, <2>2, OutKept
<1>11. CASE EnterDestroy
  <2>1. PICK m : m = Head(calls).machine
    OBVIOUS
  <2>2. m \in Machines /\ Leavers(calls') \subseteq Leavers(calls) \cup {m}
    BY <1>11, <2>1, EnterLeavers
  <2>3. /\ \A T \in Machines : \A s \in Signals : attached[T][s] = 0 => attached'[T][s] = 0
        /\ \A T \in Machines : \A s \in Signals : T = m \/ Originator[s] = m => attached'[T][s] = 0
        /\ UNCHANGED <<life, sink>>
    BY <1>11, <2>1, EnterRecords DEF ListInv
  <2>4. ASSUME NEW n \in Machines, OutOfUse(n)' PROVE Unheard(n)' /\ Deaf(n)'
    <3>1. CASE n = m
      BY <2>2, <2>3, <3>1 DEF Unheard, Deaf
    <3>2. CASE n # m
      <4>1. OutOfUse(n)
        BY <2>2, <2>3, <2>4, <3>2 DEF OutOfUse
      <4>2. Unheard(n) /\ Deaf(n)
        BY <4>1 DEF OutInv
      <4> QED BY <2>3, <4>2 DEF Unheard, Deaf
    <3> QED BY <3>1, <3>2
  <2> QED BY <1>0, <2>3, <2>4 DEF OutInv
<1>12. CASE LeaveDestroy
  <2>1. PICK m : m = Head(calls).machine
    OBVIOUS
  <2>2. m \in Leavers(calls) /\ Leavers(calls') \subseteq Leavers(calls)
    BY <1>12, <2>1, LeaveLeavers
  <2>3. attached' = attached
    BY <1>12 DEF LeaveDestroy
  <2>4. CASE life[m] = "live"
    <3>1. life' = [life EXCEPT ![m] = "dead"] /\ sink' = IF sink = m THEN NULL ELSE sink
      BY <1>12, <2>1, <2>4 DEF LeaveDestroy
    <3>2. \A n \in Machines : n # m => life'[n] = life[n]
      BY <3>1 DEF TieInv, TieType
    <3>3. \A n \in Machines : OutOfUse(n)' => OutOfUse(n)
      BY <2>2, <3>2 DEF OutOfUse
    <3>4. sink' \in Machines \cup {NULL} /\ (sink' # NULL => life'[sink'] = "live")
      BY <1>0, <3>1, <3>2
    <3> QED BY <2>3, <3>3, <3>4, OutKept
  <2>5. CASE life[m] # "live"
    <3>1. life' = life /\ sink' = sink
      BY <1>12, <2>1, <2>5 DEF LeaveDestroy
    <3>2. \A n \in Machines : OutOfUse(n)' => OutOfUse(n)
      BY <2>2, <3>1 DEF OutOfUse
    <3> QED BY <1>0, <2>3, <3>1, <3>2, OutKept
  <2> QED BY <2>4, <2>5
<1> QED BY <1>2, <1>4, <1>5, <1>6, <1>7, <1>8, <1>9, <1>10, <1>11, <1>12 DEF Next

LEMMA OutNotInUse == RecordsInv /\ OutInv /\ ChainComplete => NotInUse
<1> SUFFICES ASSUME RecordsInv, OutInv, ChainComplete, Quiet, NEW m \in Machines, life[m] = "dead"
             PROVE  /\ m \notin ToSet(chain) /\ sink # m
                    /\ \A T \in Machines : life[T] = "live" =>
                         /\ dependant[T][m] = 0
                         /\ \A s \in Held(T) : Originator[s] # m
  BY DEF NotInUse
<1>1. Unheard(m)
  BY DEF OutInv, OutOfUse
<1>2. sink # m /\ sink \in Machines \cup {NULL}
  BY GraphAssumption DEF OutInv
<1>3. ASSUME NEW T \in Machines
      PROVE  dependant[T][m] = 0 /\ \A s \in Held(T) : Originator[s] # m
  <2>1. Sound(links[T], attached[T], dependant[T]) /\ Held(T) = Listed(links[T])
    BY HeldIsListed DEF RecordsInv
  <2>2. Listed(links[T]) \in SUBSET Signals
    BY <2>1, ListedFacts DEF Sound
  <2>3. \A s \in Listed(links[T]) : Originator[s] # m
    BY <1>1, <2>1, <2>2 DEF Sound, Unheard
  <2>4. Sent(Listed(links[T]), m) = {}
    BY <2>3 DEF Sent
  <2>5. dependant[T][m] = 0
    BY <2>1, <2>4, FS_EmptySet DEF Sound
  <2> QED BY <2>1, <2>3, <2>5
<1>4. m \notin ToSet(chain)
  <2>1. CASE chain = <<>>
    BY <2>1 DEF ToSet
  <2>2. CASE chain # <<>>
    <3>1. sink # NULL /\ ToSet(chain) = NeededBy(sink)
      BY <2>2 DEF ChainComplete
    <3>2. PICK R : R = Machines \ {m}
      OBVIOUS
    <3>3. Closed(dependant, R)
      BY <1>3, <3>2 DEF Closed, Dependencies
    <3>4. sink \in R /\ R \in SUBSET Machines
      BY <1>2, <3>1, <3>2
    <3>5. NeededBy(sink) \subseteq R
      BY <3>3, <3>4 DEF NeededBy
    <3> QED BY <3>1, <3>2, <3>5
  <2> QED BY <2>1, <2>2
<1> QED BY <1>2, <1>3, <1>4

(* As long as no request attaches a signal twice to a machine or detaches  *)
(* one that is not there, a machine that is deregistered is out of use     *)
(* once the operation is over: it is not in the render chain, it is not    *)
(* the sink, nothing counts on it and no list holds a signal of it. What   *)
(* "machine is no longer in use" tells the listeners is true, whichever    *)
(* thread destroyed it, and when: has_been_deregistered is enough to keep  *)
(* a late attach out.                                                      *)
THEOREM NotInUseAlways ==
  ASSUME "repeat" \notin Requests, "stale" \notin Requests
  PROVE  Spec => []NotInUse
<1>2. Spec => []ListInv
  BY ListsAlways
<1>3. Spec => []TieInv
  BY InitTie, NextTie, PTL DEF Spec
<1>4. Spec => []OutInv
  <2>1. TieInv /\ ListInv /\ OutInv /\ [Next]_vars => OutInv'
    BY NextOut
  <2> QED BY <1>2, <1>3, <2>1, InitOut, PTL DEF Spec
<1>5. ListInv /\ OutInv /\ ChainComplete => NotInUse
  BY OutNotInUse DEF ListInv
<1> QED BY <1>2, <1>4, <1>5, ChainCompleteAlways, PTL
=============================================================================
