----------------------------- MODULE ListLemmas -----------------------------
(***************************************************************************)
(* Facts about the sequence operators that the models are built from, for  *)
(* the proofs of the other modules: what an operator returns, element by   *)
(* element, and how the folds of SequencesExt take in one more element at  *)
(* either end.                                                             *)
(*                                                                         *)
(* Op is the operator that is folded. A proof module names its own when it *)
(* instantiates this one; a module whose model folds nothing names any.    *)
(* What a fold computes is unfolded from its definition by looking at the  *)
(* shortest run that goes wrong: least elements take the place of          *)
(* induction.                                                              *)
(***************************************************************************)
EXTENDS Integers, Sequences, SequencesExt, SequenceTheorems, FiniteSetTheorems,
        WellFoundedInduction, TLAPS

CONSTANT Op(_, _)  \* the operator of the folds

(* A set of naturals that is not empty has a least element, and Min is it. *)
LEMMA MinIsMember ==
  ASSUME NEW S, S \subseteq Nat, S # {}
  PROVE  Min(S) \in S /\ \A y \in S : Min(S) =< y
<1>1. PICK x \in S : \A y \in S : ~(<<y, x>> \in OpToRel(<, Nat))
  BY NatLessThanWellFounded, WFMin
<1>2. \A y \in S : x =< y
  <2> SUFFICES ASSUME NEW y \in S PROVE x =< y
    OBVIOUS
  <2>1. ~(y < x)
    BY <1>1 DEF OpToRel
  <2> QED BY <2>1
<1> QED BY <1>2 DEF Min

LEMMA MaxIsMember ==
  ASSUME NEW m \in Nat, NEW P \in SUBSET (1..m), P # {}
  PROVE  Max(P) \in P /\ \A y \in P : Max(P) >= y
<1> DEFINE Q == {m - x : x \in P}
<1>1. Q \subseteq Nat /\ Q # {}
  <2>1. \A x \in P : x \in Int /\ 1 =< x /\ x =< m
    OBVIOUS
  <2>2. PICK x \in P : TRUE
    OBVIOUS
  <2>3. m - x \in Q
    OBVIOUS
  <2>4. \A x1 \in P : m - x1 \in Nat
    BY <2>1
  <2> QED BY <2>3, <2>4
<1>2. PICK q \in Q : \A y \in Q : q =< y
  BY <1>1, MinIsMember
<1>3. m - q \in P /\ \A y \in P : m - q >= y
  <2>1. \A y \in P : m - y \in Q
    OBVIOUS
  <2> QED BY <1>2, <2>1
<1> QED BY <1>3 DEF Max

-----------------------------------------------------------------------------
(* Append, Tail, and a sequence given by its elements.                     *)

LEMMA AppendView ==
  ASSUME NEW S, NEW s \in Seq(S), NEW e \in S
  PROVE  /\ s \o <<e>> = Append(s, e)
         /\ Append(s, e) \in Seq(S)
         /\ Len(Append(s, e)) = Len(s) + 1
         /\ \A k \in 1..Len(s) : Append(s, e)[k] = s[k]
         /\ Append(s, e)[Len(s) + 1] = e
OBVIOUS

LEMMA TailView ==
  ASSUME NEW S, NEW s \in Seq(S), s # <<>>
  PROVE  /\ Tail(s) \in Seq(S)
         /\ Len(s) \in Nat /\ Len(s) >= 1
         /\ Len(Tail(s)) = Len(s) - 1
         /\ \A k \in 1..(Len(s) - 1) : Tail(s)[k] = s[k + 1]
         /\ Head(s) = s[1] /\ s[1] \in S
OBVIOUS

(* Two elements in a row are appended one after the other.                 *)
LEMMA TwoView ==
  ASSUME NEW S, NEW s \in Seq(S), NEW d \in S, NEW e \in S
  PROVE  s \o <<d, e>> = Append(Append(s, d), e)
<1>1. s \o <<d, e>> \in Seq(S) /\ Append(Append(s, d), e) \in Seq(S)
  OBVIOUS
<1>2. Len(s \o <<d, e>>) = Len(s) + 2 /\ Len(Append(Append(s, d), e)) = Len(s) + 2
  OBVIOUS
<1>3. \A k \in 1..(Len(s) + 2) : (s \o <<d, e>>)[k] = Append(Append(s, d), e)[k]
  OBVIOUS
<1> QED BY <1>1, <1>2, <1>3

LEMMA IntervalIsSeq ==
  ASSUME NEW S, NEW n \in Nat, NEW s \in [1..n -> S]
  PROVE  s \in Seq(S)
<1>1. \E m \in Nat : s \in [1..m -> S]
  OBVIOUS
<1>2. s \in UNION {[1..m -> S] : m \in Nat}
  BY <1>1
<1> QED BY <1>2, SeqDef

(* SetToSeq lists a finite set.                                            *)
LEMMA SetToSeqView ==
  ASSUME NEW S, IsFiniteSet(S)
  PROVE  /\ SetToSeq(S) \in Seq(S) /\ Len(SetToSeq(S)) = Cardinality(S)
         /\ \A x \in S : \E k \in 1..Len(SetToSeq(S)) : SetToSeq(S)[k] = x
<1>1. PICK n : n = Cardinality(S) /\ n \in Nat
  BY FS_CardinalityType
<1>2. \E f \in [1..n -> S] : IsInjective(f)
  BY <1>1, FS_CardinalityType DEF ExistsBijection, Bijection, Injection
<1>3. PICK f : f = SetToSeq(S)
  OBVIOUS
<1>4. f \in [1..n -> S] /\ IsInjective(f)
  BY <1>1, <1>2, <1>3 DEF SetToSeq
<1>5. f \in Seq(S)
  BY <1>1, <1>4, IntervalIsSeq
<1>6. Len(f) = n
  BY <1>1, <1>4, <1>5, LenProperties
<1>7. f \in Surjection(1..n, S)
  <2>1. 1 \in Int /\ n \in Int
    BY <1>1
  <2>2. IsFiniteSet(1..n) /\ Cardinality(1..n) = n
    BY <1>1, <2>1, FS_Interval
  <2>3. f \in Injection(1..n, S)
    BY <1>4 DEF Injection
  <2> QED BY <1>1, <2>2, <2>3, FS_Injection
<1>8. \A x \in S : \E k \in 1..n : f[k] = x
  BY <1>7 DEF Surjection
<1> QED BY <1>1, <1>3, <1>5, <1>6, <1>8

-----------------------------------------------------------------------------
(* What RemoveAt and InsertAt do to the places of the other elements.      *)

LEMMA RemoveView ==
  ASSUME NEW S, NEW s \in Seq(S), NEW i \in 1..Len(s)
  PROVE  /\ RemoveAt(s, i) \in Seq(S) /\ Len(RemoveAt(s, i)) = Len(s) - 1
         /\ \A k \in 1..(Len(s) - 1) : RemoveAt(s, i)[k] = IF k < i THEN s[k] ELSE s[k + 1]
<1> DEFINE u == SubSeq(s, 1, i - 1)
           v == SubSeq(s, i + 1, Len(s))
<1>1. u \in Seq(S) /\ Len(u) = i - 1 /\ \A k \in 1..(i - 1) : u[k] = s[k]
  OBVIOUS
<1>2. /\ v \in Seq(S) /\ Len(v) = Len(s) - i
      /\ \A k \in 1..(Len(s) - i) : v[k] = s[i + k]
  <2>1. \A k \in (i + 1)..Len(s) : s[k] \in S
    OBVIOUS
  <2>2. /\ v \in Seq(S) /\ Len(v) = IF i + 1 <= Len(s) THEN Len(s) - (i + 1) + 1 ELSE 0
        /\ \A k \in 1..(Len(s) - (i + 1) + 1) : v[k] = s[(i + 1) + k - 1]
    BY <2>1, SubSeqProperties
  <2> QED BY <2>2
<1> HIDE DEF u, v
<1>3. /\ u \o v \in Seq(S) /\ Len(u \o v) = Len(u) + Len(v)
      /\ \A k \in 1..(Len(u) + Len(v)) : (u \o v)[k] = IF k <= Len(u) THEN u[k] ELSE v[k - Len(u)]
  BY <1>1, <1>2, ConcatProperties
<1>4. RemoveAt(s, i) = u \o v
  BY DEF RemoveAt, u, v
<1>5. Len(u \o v) = Len(s) - 1
  BY <1>1, <1>2, <1>3
<1>6. ASSUME NEW k \in 1..(Len(s) - 1)
      PROVE  (u \o v)[k] = IF k < i THEN s[k] ELSE s[k + 1]
  <2>1. (u \o v)[k] = IF k <= i - 1 THEN u[k] ELSE v[k - (i - 1)]
    BY <1>1, <1>2, <1>3
  <2>2. CASE k < i
    BY <1>1, <2>1, <2>2
  <2>3. CASE ~(k < i)
    <3>1. v[k - (i - 1)] = s[i + (k - (i - 1))]
      BY <1>2, <2>3
    <3>2. i + (k - (i - 1)) = k + 1
      OBVIOUS
    <3> QED BY <2>1, <2>3, <3>1, <3>2
  <2> QED BY <2>2, <2>3
<1> QED BY <1>3, <1>4, <1>5, <1>6

LEMMA InsertView ==
  ASSUME NEW S, NEW s \in Seq(S), NEW i \in 1..(Len(s) + 1), NEW e \in S
  PROVE  /\ InsertAt(s, i, e) \in Seq(S) /\ Len(InsertAt(s, i, e)) = Len(s) + 1
         /\ \A k \in 1..(Len(s) + 1) :
              InsertAt(s, i, e)[k] = IF k < i THEN s[k] ELSE IF k = i THEN e ELSE s[k - 1]
<1> DEFINE u == SubSeq(s, 1, i - 1)
           v == SubSeq(s, i, Len(s))
           w == u \o <<e>>
<1>1. u \in Seq(S) /\ Len(u) = i - 1 /\ \A k \in 1..(i - 1) : u[k] = s[k]
  OBVIOUS
<1>2. /\ v \in Seq(S) /\ Len(v) = Len(s) - i + 1
      /\ \A k \in 1..(Len(s) - i + 1) : v[k] = s[i + k - 1]
  <2>1. \A k \in i..Len(s) : s[k] \in S
    OBVIOUS
  <2> QED BY <2>1, SubSeqProperties
<1>3. w \in Seq(S) /\ Len(w) = i /\ w[i] = e /\ \A k \in 1..(i - 1) : w[k] = s[k]
  <2> HIDE DEF u
  <2> QED BY <1>1
<1> HIDE DEF u, v, w
<1>4. /\ w \o v \in Seq(S) /\ Len(w \o v) = Len(w) + Len(v)
      /\ \A k \in 1..(Len(w) + Len(v)) : (w \o v)[k] = IF k <= Len(w) THEN w[k] ELSE v[k - Len(w)]
  BY <1>2, <1>3, ConcatProperties
<1>5. InsertAt(s, i, e) = w \o v
  BY DEF InsertAt, u, v, w
<1>6. Len(w \o v) = Len(s) + 1
  BY <1>2, <1>3, <1>4
<1>7. ASSUME NEW k \in 1..(Len(s) + 1)
      PROVE  (w \o v)[k] = IF k < i THEN s[k] ELSE IF k = i THEN e ELSE s[k - 1]
  <2>1. (w \o v)[k] = IF k <= i THEN w[k] ELSE v[k - i]
    BY <1>2, <1>3, <1>4
  <2>2. CASE k <= i
    BY <1>3, <2>1, <2>2
  <2>3. CASE ~(k <= i)
    <3>1. v[k - i] = s[i + (k - i) - 1]
      BY <1>2, <2>3
    <3>2. i + (k - i) - 1 = k - 1
      OBVIOUS
    <3> QED BY <2>1, <2>3, <3>1, <3>2
  <2> QED BY <2>2, <2>3
<1> QED BY <1>4, <1>5, <1>6, <1>7

-----------------------------------------------------------------------------
(* Folding                                                                 *)

(* r lists the values before and after each element of s.                  *)
IsRun(r, base, s) ==
  /\ DOMAIN r = 0..Len(s) /\ r[0] = base
  /\ \A k \in 1..Len(s) : r[k] = Op(r[k - 1], s[k])

(* The function that FoldLeft is defined with, on the sets of the first m  *)
(* places.                                                                 *)
IsIter(g, base, s, m) ==
  g = [P \in SUBSET (1..m) |-> IF P = {} THEN base ELSE Op(g[P \ {Max(P)}], s[Max(P)])]

LEMMA IterGrows ==
  ASSUME NEW m \in Nat, NEW base, NEW s, NEW g, IsIter(g, base, s, m)
  PROVE  \E h : IsIter(h, base, s, m + 1)
<1> DEFINE h == [P \in SUBSET (1..(m + 1)) |->
                   IF m + 1 \in P THEN Op(g[P \ {m + 1}], s[m + 1]) ELSE g[P]]
<1>1. \A P \in SUBSET (1..m) : m + 1 \notin P /\ P \in SUBSET (1..(m + 1)) /\ h[P] = g[P]
  OBVIOUS
<1>2. ASSUME NEW P \in SUBSET (1..(m + 1))
      PROVE  h[P] = IF P = {} THEN base ELSE Op(h[P \ {Max(P)}], s[Max(P)])
  <2>1. CASE m + 1 \in P
    <3>0. m + 1 \in Nat /\ P # {}
      BY <2>1
    <3>1. Max(P) \in P /\ \A y \in P : Max(P) >= y
      BY <3>0, MaxIsMember
    <3>2. Max(P) = m + 1
      <4>1. PICK x : x = Max(P)
        OBVIOUS
      <4>2. x \in 1..(m + 1) /\ x >= m + 1
        BY <2>1, <3>1, <4>1
      <4> QED BY <4>1, <4>2
    <3>3. P \ {m + 1} \in SUBSET (1..m)
      OBVIOUS
    <3> QED BY <1>1, <2>1, <3>2, <3>3
  <2>2. CASE m + 1 \notin P
    <3>1. P \in SUBSET (1..m)
      BY <2>2
    <3>2. g[P] = IF P = {} THEN base ELSE Op(g[P \ {Max(P)}], s[Max(P)])
      BY <3>1 DEF IsIter
    <3>3. P # {} => P \ {Max(P)} \in SUBSET (1..m)
      BY <3>1
    <3> QED BY <1>1, <3>1, <3>2, <3>3
  <2> QED BY <2>1, <2>2
<1>3. h = [P \in SUBSET (1..(m + 1)) |-> IF P = {} THEN base ELSE Op(h[P \ {Max(P)}], s[Max(P)])]
  BY <1>2
<1>4. IsIter(h, base, s, m + 1)
  BY <1>3 DEF IsIter
<1> QED BY <1>4

LEMMA IterExists ==
  ASSUME NEW base, NEW s, NEW n \in Nat
  PROVE  \E g : IsIter(g, base, s, n)
<1> DEFINE T == {m \in Nat : ~\E g : IsIter(g, base, s, m)}
<1>1. 0 \notin T
  <2> DEFINE g == [P \in SUBSET (1..0) |-> base]
  <2>1. \A P \in SUBSET (1..0) : P = {}
    OBVIOUS
  <2>2. IsIter(g, base, s, 0)
    BY <2>1 DEF IsIter
  <2> QED BY <2>2
<1>2. CASE T # {}
  <2>1. PICK m \in T : \A y \in T : m =< y
    BY <1>2, MinIsMember
  <2>2. m - 1 \in Nat /\ m - 1 \notin T
    BY <1>1, <2>1
  <2>3. PICK g : IsIter(g, base, s, m - 1)
    BY <2>2
  <2>4. \E h : IsIter(h, base, s, (m - 1) + 1)
    BY <2>2, <2>3, IterGrows
  <2> QED BY <2>1, <2>4
<1> QED BY <1>2

LEMMA FoldHasRun ==
  ASSUME NEW S, NEW s \in Seq(S), NEW base
  PROVE  \E r : IsRun(r, base, s) /\ r[Len(s)] = FoldLeft(Op, base, s)
<1>1. PICK n : n = Len(s) /\ n \in Nat /\ DOMAIN s = 1..n
  OBVIOUS
<1>2. PICK g : /\ g = CHOOSE h : IsIter(h, base, s, n)
               /\ FoldLeft(Op, base, s) = g[1..n]
  BY <1>1 DEF FoldLeft, MapThenFoldSet, IsIter
<1>3. IsIter(g, base, s, n)
  BY <1>1, <1>2, IterExists
<1> DEFINE r == [k \in 0..n |-> g[1..k]]
<1>4. r[0] = base
  BY <1>1, <1>3 DEF IsIter
<1>5. ASSUME NEW k \in 1..n PROVE r[k] = Op(r[k - 1], s[k])
  <2>1. k \in Int /\ k >= 1 /\ k =< n /\ n \in Int
    BY <1>1
  <2>2. 1..k \in SUBSET (1..n) /\ k \in 1..k /\ (1..k) \ {k} = 1..(k - 1)
    BY <2>1
  <2>3. Max(1..k) \in 1..k /\ Max(1..k) >= k
    BY <1>1, <2>2, MaxIsMember
  <2>4. Max(1..k) = k
    BY <2>1, <2>3
  <2>5. g[1..k] = Op(g[(1..k) \ {Max(1..k)}], s[Max(1..k)])
    BY <1>3, <2>2 DEF IsIter
  <2>6. r[k] = g[1..k] /\ r[k - 1] = g[1..(k - 1)]
    BY <2>1
  <2> HIDE DEF r
  <2> QED BY <2>2, <2>4, <2>5, <2>6
<1>6. IsRun(r, base, s)
  BY <1>1, <1>4, <1>5 DEF IsRun
<1> QED BY <1>1, <1>2, <1>6

LEMMA RunUnique ==
  ASSUME NEW S, NEW s \in Seq(S), NEW base, NEW q, NEW r, IsRun(q, base, s), IsRun(r, base, s)
  PROVE  q[Len(s)] = r[Len(s)]
<1>1. PICK n : n = Len(s) /\ n \in Nat
  OBVIOUS
<1> DEFINE T == {k \in 0..n : q[k] # r[k]}
<1>2. CASE T # {}
  <2>0. T \subseteq Nat
    BY <1>1
  <2>1. PICK k \in T : \A y \in T : k =< y
    BY <1>2, <2>0, MinIsMember
  <2>2. k # 0
    BY <2>1 DEF IsRun
  <2>3. k - 1 \in 0..n /\ k - 1 \notin T /\ k \in 1..n
    BY <1>1, <2>1, <2>2
  <2> QED BY <1>1, <2>1, <2>3 DEF IsRun
<1> QED BY <1>1, <1>2

(* To know what a fold is, give a run.                                     *)
LEMMA FoldOfRun ==
  ASSUME NEW S, NEW s \in Seq(S), NEW base, NEW r, IsRun(r, base, s)
  PROVE  FoldLeft(Op, base, s) = r[Len(s)]
<1>1. PICK q : IsRun(q, base, s) /\ q[Len(s)] = FoldLeft(Op, base, s)
  BY FoldHasRun
<1> QED BY <1>1, RunUnique


(* Folds are computed from the left, from the right and by parts.          *)
LEMMA FoldEmpty == ASSUME NEW base PROVE FoldLeft(Op, base, <<>>) = base
<1> DEFINE r == [k \in 0..0 |-> base]
<1>1. <<>> \in Seq({}) /\ Len(<<>>) = 0
  OBVIOUS
<1>2. IsRun(r, base, <<>>)
  BY <1>1 DEF IsRun
<1>3. FoldLeft(Op, base, <<>>) = r[0]
  BY <1>1, <1>2, FoldOfRun
<1> QED BY <1>3

LEMMA FoldConcat ==
  ASSUME NEW S, NEW s \in Seq(S), NEW t \in Seq(S), NEW base
  PROVE  FoldLeft(Op, base, s \o t) = FoldLeft(Op, FoldLeft(Op, base, s), t)
<1>1. PICK p : IsRun(p, base, s) /\ p[Len(s)] = FoldLeft(Op, base, s)
  BY FoldHasRun
<1>2. PICK q : IsRun(q, p[Len(s)], t) /\ q[Len(t)] = FoldLeft(Op, p[Len(s)], t)
  BY FoldHasRun
<1>3. PICK m, n, u : m = Len(s) /\ n = Len(t) /\ u = s \o t
  OBVIOUS
<1>4. /\ m \in Nat /\ n \in Nat /\ u \in Seq(S) /\ Len(u) = m + n
      /\ \A k \in 1..(m + n) : u[k] = IF k =< m THEN s[k] ELSE t[k - m]
  BY <1>3
<1> DEFINE r == [k \in 0..(m + n) |-> IF k =< m THEN p[k] ELSE q[k - m]]
<1>5. r[0] = base /\ r[m] = p[m]
  BY <1>1, <1>4 DEF IsRun
<1>6. ASSUME NEW k \in 1..(m + n) PROVE r[k] = Op(r[k - 1], u[k])
  <2>1. CASE k =< m
    <3>1. p[k] = Op(p[k - 1], s[k])
      BY <1>1, <1>3, <1>4, <2>1 DEF IsRun
    <3> QED BY <1>4, <2>1, <3>1
  <2>2. CASE k > m
    <3>1. PICK j : j = k - m
      OBVIOUS
    <3>2. j \in 1..n /\ k - 1 \in 0..(m + n)
      BY <1>4, <2>2, <3>1
    <3>3. q[j] = Op(q[j - 1], t[j])
      BY <1>2, <1>3, <3>2 DEF IsRun
    <3>4. r[k - 1] = q[j - 1]
      <4>1. CASE j = 1
        <5>1. k - 1 = m /\ j - 1 = 0
          BY <1>4, <3>1, <4>1
        <5>2. q[0] = p[m]
          BY <1>2, <1>3 DEF IsRun
        <5> QED BY <1>5, <5>1, <5>2
      <4>2. CASE j # 1
        BY <1>4, <2>2, <3>1, <3>2, <4>2
      <4> QED BY <4>1, <4>2
    <3>5. r[k] = q[j] /\ u[k] = t[j]
      BY <1>4, <2>2, <3>1
    <3> HIDE DEF r
    <3> QED BY <3>3, <3>4, <3>5
  <2> QED BY <1>4, <2>1, <2>2
<1>7. r[m + n] = q[n]
  <2>1. CASE n = 0
    BY <1>2, <1>3, <1>4, <2>1 DEF IsRun
  <2>2. CASE n # 0
    BY <1>4, <2>2
  <2> QED BY <2>1, <2>2
<1>8. DOMAIN r = 0..Len(u) /\ \A k \in 1..Len(u) : r[k] = Op(r[k - 1], u[k])
  BY <1>4, <1>6
<1>9. IsRun(r, base, u)
  <2> HIDE DEF r
  <2> QED BY <1>5, <1>8 DEF IsRun
<1>10. FoldLeft(Op, base, u) = r[m + n]
  <2> HIDE DEF r
  <2> QED BY <1>4, <1>9, FoldOfRun
<1> QED BY <1>1, <1>2, <1>3, <1>7, <1>10

LEMMA FoldOne == ASSUME NEW base, NEW e PROVE FoldLeft(Op, base, <<e>>) = Op(base, e)
<1> DEFINE r == [k \in 0..1 |-> IF k = 0 THEN base ELSE Op(base, e)]
<1>1. PICK s : s = <<e>>
  OBVIOUS
<1>2. s \in Seq({e}) /\ Len(s) = 1 /\ s[1] = e
  BY <1>1
<1>3. r[0] = base /\ r[1] = Op(base, e) /\ DOMAIN r = 0..1
  OBVIOUS
<1> HIDE DEF r
<1>4. \A k \in 1..1 : r[k] = Op(r[k - 1], s[k])
  BY <1>2, <1>3
<1>5. IsRun(r, base, s)
  BY <1>2, <1>3, <1>4 DEF IsRun
<1>6. FoldLeft(Op, base, s) = r[1]
  BY <1>2, <1>5, FoldOfRun
<1> QED BY <1>1, <1>3, <1>6

LEMMA FoldAppend ==
  ASSUME NEW S, NEW s \in Seq(S), NEW e \in S, NEW base
  PROVE  FoldLeft(Op, base, Append(s, e)) = Op(FoldLeft(Op, base, s), e)
<1>1. Append(s, e) = s \o <<e>> /\ <<e>> \in Seq(S)
  BY AppendView
<1>2. FoldLeft(Op, base, s \o <<e>>) = FoldLeft(Op, FoldLeft(Op, base, s), <<e>>)
  BY <1>1, FoldConcat
<1> QED BY <1>1, <1>2, FoldOne

LEMMA FoldHead ==
  ASSUME NEW S, NEW s \in Seq(S), s # <<>>, NEW base
  PROVE  FoldLeft(Op, base, s) = FoldLeft(Op, Op(base, Head(s)), Tail(s))
<1>1. PICK e, t : e = Head(s) /\ t = Tail(s)
  OBVIOUS
<1>2. e \in S /\ t \in Seq(S) /\ <<e>> \in Seq(S)
  BY <1>1
<1>3. s = <<e>> \o t
  <2>1. <<e>> \o t \in Seq(S) /\ Len(<<e>> \o t) = Len(s)
    BY <1>1, <1>2
  <2>2. \A k \in 1..Len(s) : s[k] = (<<e>> \o t)[k]
    BY <1>1, <1>2
  <2> QED BY <2>1, <2>2
<1>4. FoldLeft(Op, base, <<e>> \o t) = FoldLeft(Op, FoldLeft(Op, base, <<e>>), t)
  BY <1>2, FoldConcat
<1> QED BY <1>1, <1>3, <1>4, FoldOne

(* A fold stays within the sets I[0], I[1], ... if each of its steps does. *)
LEMMA FoldStays ==
  ASSUME NEW S, NEW s \in Seq(S), NEW base, NEW I, base \in I[0],
         \A k \in 1..Len(s) : \A q \in I[k - 1] : Op(q, s[k]) \in I[k]
  PROVE  FoldLeft(Op, base, s) \in I[Len(s)]
<1>1. PICK r : IsRun(r, base, s) /\ r[Len(s)] = FoldLeft(Op, base, s)
  BY FoldHasRun
<1>2. PICK n : n = Len(s) /\ n \in Nat
  OBVIOUS
<1> DEFINE T == {k \in 0..n : r[k] \notin I[k]}
<1>3. CASE T # {}
  <2>1. T \subseteq Nat
    BY <1>2
  <2>2. Min(T) \in T /\ \A y \in T : Min(T) =< y
    BY <1>3, <2>1, MinIsMember
  <2>3. PICK m : m = Min(T)
    OBVIOUS
  <2>4. m \in 0..n /\ r[m] \notin I[m] /\ \A y \in T : m =< y
    BY <2>2, <2>3
  <2>5. m # 0
    BY <1>1, <2>4 DEF IsRun
  <2>6. m \in 1..n /\ m - 1 \in 0..n /\ m - 1 \notin T
    BY <1>2, <2>4, <2>5
  <2>7. r[m - 1] \in I[m - 1]
    BY <2>6
  <2>8. r[m] = Op(r[m - 1], s[m])
    BY <1>1, <1>2, <2>6 DEF IsRun
  <2> QED BY <1>2, <2>4, <2>6, <2>7, <2>8
<1>4. CASE T = {}
  BY <1>1, <1>2, <1>4
<1> QED BY <1>3, <1>4
=============================================================================
