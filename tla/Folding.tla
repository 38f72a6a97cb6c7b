------------------------------- MODULE Folding -------------------------------
EXTENDS Integers, Sequences, SequencesExt, SequenceTheorems, WellFoundedInduction, TLAPS

CONSTANTS Op(_, _), Base

Fold(seq) == FoldLeft(Op, Base, seq)

-----------------------------------------------------------------------------
\* Induction over a set of numbers.
LEMMA InductiveSet ==
  ASSUME NEW S, 0 \in S, \A n \in Nat : n \in S => n + 1 \in S
  PROVE  Nat \subseteq S
  <1> DEFINE T == Nat \ S
             R == OpToRel(<, Nat)
  <1> SUFFICES ASSUME T # {} PROVE FALSE
    OBVIOUS
  <1>1. IsWellFoundedOn(R, Nat)
    BY NatLessThanWellFounded
  <1>2. T \subseteq Nat
    OBVIOUS
  <1>a. \A x, y \in Nat : x < y => <<x, y>> \in R
    BY DEF OpToRel
  <1> HIDE DEF R, T
  <1>3. PICK x \in T : \A y \in T : ~ (<<y, x>> \in R)
    BY <1>1, <1>2, WFMin
  <1>4. x \in Nat /\ x # 0 /\ x \notin S
    BY <1>3 DEF T
  <1>5. x - 1 \in Nat /\ x - 1 < x /\ (x - 1) + 1 = x
    BY <1>4
  <1>6. x - 1 \notin T
    BY <1>3, <1>4, <1>5, <1>a
  <1> QED BY <1>4, <1>5, <1>6 DEF T

-----------------------------------------------------------------------------
\* What the definition of the fold chooses: its value on every set of places.
Folds(f, seq, n) ==
  f = [s \in SUBSET (1 .. n) |->
          IF s = {} THEN Base ELSE Op(f[s \ {Max(s)}], seq[Max(s)])]

LEMMA MaxIs ==
  ASSUME NEW k \in Nat, NEW s \in SUBSET (1 .. k + 1), k + 1 \in s
  PROVE  Max(s) = k + 1
  <1>1. k + 1 \in s /\ \A y \in s : k + 1 >= y
    OBVIOUS
  <1>2. \A x \in s : (\A y \in s : x >= y) => x = k + 1
    OBVIOUS
  <1> QED BY <1>1, <1>2, Zenon DEF Max

\* A longer sequence is folded in the same way up to the end of the shorter one.
LEMMA FoldsAgree ==
  ASSUME NEW f, NEW g, NEW p, NEW q, NEW n \in Nat,
         Folds(f, p, n), Folds(g, q, n + 1), \A i \in 1 .. n : p[i] = q[i]
  PROVE  \A s \in SUBSET (1 .. n) : g[s] = f[s]
  <1> DEFINE S == {k \in Nat : k <= n => \A s \in SUBSET (1 .. k) : f[s] = g[s]}
  <1>0. /\ \A s \in SUBSET (1 .. n) :
             f[s] = IF s = {} THEN Base ELSE Op(f[s \ {Max(s)}], p[Max(s)])
        /\ \A s \in SUBSET (1 .. n + 1) :
             g[s] = IF s = {} THEN Base ELSE Op(g[s \ {Max(s)}], q[Max(s)])
    BY Zenon DEF Folds
  <1>1. 0 \in S
    <2>1. \A s \in SUBSET (1 .. 0) : s = {}
      OBVIOUS
    <2>2. {} \in SUBSET (1 .. n) /\ {} \in SUBSET (1 .. n + 1)
      OBVIOUS
    <2>3. f[{}] = g[{}]
      BY <1>0, <2>2, Zenon
    <2> QED BY <2>1, <2>3
  <1>2. ASSUME NEW k \in Nat, k \in S PROVE k + 1 \in S
    <2> SUFFICES ASSUME k + 1 <= n, NEW s \in SUBSET (1 .. k + 1) PROVE f[s] = g[s]
      OBVIOUS
    <2>1. \A t \in SUBSET (1 .. k) : f[t] = g[t]
      BY <1>2
    <2>2. CASE k + 1 \notin s
      <3>1. s \in SUBSET (1 .. k)
        BY <2>2
      <3> QED BY <3>1, <2>1
    <2>3. CASE k + 1 \in s
      <3>1. Max(s) = k + 1
        BY <2>3, MaxIs
      <3>2. s # {} /\ s \in SUBSET (1 .. n) /\ s \in SUBSET (1 .. n + 1) /\ s \ {k + 1} \in SUBSET (1 .. k)
        BY <2>3
      <3>3. p[k + 1] = q[k + 1]
        OBVIOUS
      <3>4. f[s] = Op(f[s \ {k + 1}], p[k + 1]) /\ g[s] = Op(g[s \ {k + 1}], q[k + 1])
        BY <3>1, <3>2, <1>0, Zenon
      <3>5. f[s \ {k + 1}] = g[s \ {k + 1}]
        BY <3>2, <2>1, Zenon
      <3> QED BY <3>3, <3>4, <3>5, Zenon
    <2> QED BY <2>2, <2>3
  <1> HIDE DEF S
  <1>3. n \in S
    BY <1>1, <1>2, InductiveSet
  <1> QED BY <1>3 DEF S

\* There is such a function for every length.
LEMMA FoldsExist ==
  ASSUME NEW seq, NEW n \in Nat
  PROVE  \E f : Folds(f, seq, n)
  <1> DEFINE S == {k \in Nat : \E f : Folds(f, seq, k)}
  <1>1. 0 \in S
    <2> DEFINE f == [s \in SUBSET (1 .. 0) |-> Base]
    <2>1. \A s \in SUBSET (1 .. 0) : s = {}
      OBVIOUS
    <2>2. f = [s \in SUBSET (1 .. 0) |->
                 IF s = {} THEN Base ELSE Op(f[s \ {Max(s)}], seq[Max(s)])]
      BY <2>1, Zenon
    <2> QED BY <2>2, Zenon DEF Folds
  <1>2. ASSUME NEW k \in Nat, k \in S PROVE k + 1 \in S
    <2>1. PICK f : Folds(f, seq, k)
      BY <1>2
    <2> DEFINE g == [s \in SUBSET (1 .. k + 1) |->
                       IF k + 1 \in s THEN Op(f[s \ {k + 1}], seq[k + 1]) ELSE f[s]]
    <2>a. \A s \in SUBSET (1 .. k + 1) : k + 1 \in s => s # {} /\ Max(s) = k + 1 /\ s \ {k + 1} \in SUBSET (1 .. k)
      BY MaxIs
    <2>b. \A s \in SUBSET (1 .. k + 1) : k + 1 \notin s => s \in SUBSET (1 .. k)
      OBVIOUS
    <2>c. \A s \in SUBSET (1 .. k) : s \in SUBSET (1 .. k + 1) /\ k + 1 \notin s
      OBVIOUS
    <2>d. \A s \in SUBSET (1 .. k) : f[s] = IF s = {} THEN Base ELSE Op(f[s \ {Max(s)}], seq[Max(s)])
      BY <2>1, Zenon DEF Folds
    <2>e. \A s \in SUBSET (1 .. k) : g[s] = f[s]
      BY <2>c, Zenon
    <2>f. \A s \in SUBSET (1 .. k) : s \ {Max(s)} \in SUBSET (1 .. k)
      OBVIOUS
    <2>2. ASSUME NEW s \in SUBSET (1 .. k + 1)
          PROVE  g[s] = IF s = {} THEN Base ELSE Op(g[s \ {Max(s)}], seq[Max(s)])
      <3>1. CASE k + 1 \in s
        <4>1. g[s] = Op(f[s \ {k + 1}], seq[k + 1])
          BY <3>1, Zenon
        <4>2. g[s \ {k + 1}] = f[s \ {k + 1}]
          BY <3>1, <2>a, <2>e, Zenon
        <4> HIDE DEF g
        <4> QED BY <4>1, <4>2, <3>1, <2>a, Zenon
      <3>2. CASE k + 1 \notin s
        <4>1. s \in SUBSET (1 .. k)
          BY <3>2, <2>b
        <4> HIDE DEF g
        <4>2. g[s] = f[s] /\ g[s \ {Max(s)}] = f[s \ {Max(s)}]
          BY <4>1, <2>e, <2>f, Zenon
        <4> QED BY <4>1, <4>2, <2>d, Zenon
      <3> QED BY <3>1, <3>2, Zenon
    <2>3. g = [s \in SUBSET (1 .. k + 1) |-> g[s]]
      BY Zenon
    <2> HIDE DEF g
    <2>4. g = [s \in SUBSET (1 .. k + 1) |->
                 IF s = {} THEN Base ELSE Op(g[s \ {Max(s)}], seq[Max(s)])]
      BY <2>2, <2>3, Zenon
    <2>5. Folds(g, seq, k + 1)
      BY <2>4, Zenon DEF Folds
    <2> QED BY <2>5
  <1> HIDE DEF S
  <1>3. n \in S
    BY <1>1, <1>2, InductiveSet
  <1> QED BY <1>3 DEF S

\* The fold of a sequence is the value of that function on all its places.
LEMMA FoldIs ==
  ASSUME NEW T, NEW seq \in Seq(T)
  PROVE  \E f : Folds(f, seq, Len(seq)) /\ Fold(seq) = f[1 .. Len(seq)]
  <1>1. DOMAIN seq = 1 .. Len(seq) /\ Len(seq) \in Nat
    BY LenProperties
  <1>2. Fold(seq) = (CHOOSE f : Folds(f, seq, Len(seq)))[1 .. Len(seq)]
    <2>1. Fold(seq) =
            (CHOOSE f : f = [s \in SUBSET (DOMAIN seq) |->
                IF s = {} THEN Base ELSE Op(f[s \ {Max(s)}], seq[Max(s)])])[DOMAIN seq]
      BY Zenon DEF Fold, FoldLeft, MapThenFoldSet
    <2> QED BY <1>1, <2>1, Zenon DEF Folds
  <1>3. \E f : Folds(f, seq, Len(seq))
    BY <1>1, FoldsExist
  <1>4. Folds(CHOOSE f : Folds(f, seq, Len(seq)), seq, Len(seq))
    BY <1>3, Zenon
  <1> QED BY <1>2, <1>4, Zenon

-----------------------------------------------------------------------------
\* Nothing is folded to the base.
THEOREM FoldEmpty == Fold(<<>>) = Base
  <1>1. PICK f : Folds(f, <<>>, Len(<<>>)) /\ Fold(<<>>) = f[1 .. Len(<<>>)]
    <2>1. <<>> \in Seq({})
      OBVIOUS
    <2> QED BY <2>1, FoldIs, Zenon
  <1>2. 1 .. Len(<<>>) = {}
    OBVIOUS
  <1>3. {} \in SUBSET (1 .. Len(<<>>))
    OBVIOUS
  <1> QED BY <1>1, <1>2, <1>3, Zenon DEF Folds

\* One more element is one more step.
THEOREM FoldAppend ==
  ASSUME NEW T, NEW seq \in Seq(T), NEW x \in T
  PROVE  Fold(Append(seq, x)) = Op(Fold(seq), x)
  <1> DEFINE n == Len(seq)
             longer == Append(seq, x)
  <1>1. /\ n \in Nat /\ longer \in Seq(T) /\ Len(longer) = n + 1 /\ longer[n + 1] = x
        /\ \A i \in 1 .. n : longer[i] = seq[i]
    BY AppendProperties, LenProperties
  <1>2. PICK f : Folds(f, seq, n) /\ Fold(seq) = f[1 .. n]
    BY FoldIs, Zenon
  <1> HIDE DEF longer
  <1>3. PICK g : Folds(g, longer, n + 1) /\ Fold(longer) = g[1 .. n + 1]
    BY <1>1, FoldIs, Zenon
  <1> HIDE DEF n
  <1>4. 1 .. n \in SUBSET (1 .. n) 
    BY <1>1
  <1>5. g[1 .. n] = f[1 .. n]
    <2>1. \A s \in SUBSET (1 .. n) : g[s] = f[s]
      BY <1>1, <1>2, <1>3, FoldsAgree
    <2> QED BY <2>1, <1>4, Zenon
  <1>6. /\ 1 .. n + 1 \in SUBSET (1 .. n + 1) /\ 1 .. n + 1 # {} /\ n + 1 \in 1 .. n + 1
        /\ (1 .. n + 1) \ {n + 1} = 1 .. n
    <2>1. n + 1 \in 1 .. n + 1
      BY <1>1
    <2>2. (1 .. n + 1) \ {n + 1} = 1 .. n
      BY <1>1
    <2> QED BY <2>1, <2>2, Zenon
  <1>7. Max(1 .. n + 1) = n + 1
    BY <1>1, <1>6, MaxIs, Zenon
  <1>8. g[1 .. n + 1] = Op(g[1 .. n], longer[n + 1])
    BY <1>3, <1>6, <1>7, Zenon DEF Folds
  <1> QED BY <1>1, <1>2, <1>3, <1>5, <1>8, Zenon DEF longer

-----------------------------------------------------------------------------
\* What holds of no element, and of one more whenever it holds, holds of them all.
THEOREM InductiveSequences ==
  ASSUME NEW T, NEW S, <<>> \in S,
         \A seq \in Seq(T) : \A x \in T : seq \in S => Append(seq, x) \in S
  PROVE  Seq(T) \subseteq S
  <1> DEFINE N == {n \in Nat : \A seq \in Seq(T) : Len(seq) = n => seq \in S}
  <1>1. 0 \in N
    <2>1. \A seq \in Seq(T) : Len(seq) = 0 => seq = <<>>
      BY EmptySeq
    <2> QED BY <2>1
  <1>2. ASSUME NEW n \in Nat, n \in N PROVE n + 1 \in N
    <2> SUFFICES ASSUME NEW seq \in Seq(T), Len(seq) = n + 1 PROVE seq \in S
      OBVIOUS
    <2> DEFINE front == [i \in 1 .. n |-> seq[i]]
    <2>1. \A i \in 1 .. n + 1 : seq[i] \in T
      BY ElementOfSeq
    <2>2. front \in Seq(T) /\ Len(front) = n
      BY <2>1
    <2>3. n + 1 \in 1 .. n + 1 /\ seq[n + 1] \in T
      BY <2>1
    <2>4. seq = Append(front, seq[n + 1])
      <3>1. /\ Append(front, seq[n + 1]) \in Seq(T) /\ Len(Append(front, seq[n + 1])) = n + 1
            /\ \A i \in 1 .. n : Append(front, seq[n + 1])[i] = front[i]
            /\ Append(front, seq[n + 1])[n + 1] = seq[n + 1]
        BY <2>2, <2>3, AppendProperties
      <3>2. \A i \in 1 .. n + 1 : Append(front, seq[n + 1])[i] = seq[i]
        BY <3>1
      <3> QED BY <3>1, <3>2, SeqEqual
    <2>5. front \in S
      BY <1>2, <2>2
    <2> QED BY <2>2, <2>3, <2>4, <2>5
  <1> HIDE DEF N
  <1>3. Nat \subseteq N
    BY <1>1, <1>2, InductiveSet
  <1>4. \A seq \in Seq(T) : Len(seq) \in Nat
    BY LenProperties
  <1> QED BY <1>3, <1>4 DEF N

\* A set that no step leaves holds every fold.
THEOREM FoldInvariant ==
  ASSUME NEW T, NEW I, Base \in I, \A a \in I : \A x \in T : Op(a, x) \in I
  PROVE  \A seq \in Seq(T) : Fold(seq) \in I
  <1> DEFINE S == {seq \in Seq(T) : Fold(seq) \in I}
  <1>1. <<>> \in S
    BY FoldEmpty
  <1>2. \A seq \in Seq(T) : \A x \in T : seq \in S => Append(seq, x) \in S
    BY FoldAppend, AppendProperties
  <1> HIDE DEF S
  <1>3. Seq(T) \subseteq S
    BY <1>1, <1>2, InductiveSequences
  <1> QED BY <1>3 DEF S
=============================================================================
