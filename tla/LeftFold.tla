------------------------------- MODULE LeftFold -------------------------------
(***************************************************************************)
(* What FoldLeft computes, for any operator that is folded.                *)
(***************************************************************************)
EXTENDS Integers, Sequences, Folds, WellFoundedInduction

CONSTANT Op(_, _)

Greatest(S) == CHOOSE x \in S : \A y \in S : x >= y

\* FoldLeft(Op, base, seq), from Folds: an instance of this module brings all
\* that it extends, and SequencesExt is large.
Fold(base, seq) ==
    MapThenFoldSet(LAMBDA x, y : Op(y, x), base, LAMBDA i : seq[i],
                   LAMBDA S : Greatest(S), DOMAIN seq)

-----------------------------------------------------------------------------
\* A set of numbers has a least one.
LEMMA LeastNumber ==
    ASSUME NEW S \in SUBSET Nat, S # {}
    PROVE  \E n \in S : \A m \in S : n <= m
<1> DEFINE R == OpToRel(<, Nat)
<1>1. IsWellFoundedOn(R, Nat)
  BY NatLessThanWellFounded
<1>2. PICK n \in S : \A m \in S : <<m, n>> \notin R
  <2> HIDE DEF R
  <2> QED BY <1>1, WFMin
<1>3. \A x, y \in Nat : <<y, x>> \in R <=> y < x
  BY DEF OpToRel
<1> HIDE DEF R
<1>4. \A m \in S : ~(m < n)
  BY <1>2, <1>3
<1> QED BY <1>4

\* Induction, for a set of numbers.
THEOREM SetInduction ==
    ASSUME NEW S, 0 \in S, \A n \in Nat : n \in S => n + 1 \in S
    PROVE  Nat \subseteq S
<1> SUFFICES ASSUME ~(Nat \subseteq S) PROVE FALSE
  OBVIOUS
<1> DEFINE Bad == Nat \ S
<1>1. Bad \in SUBSET Nat /\ Bad # {}
  OBVIOUS
<1>2. PICK n \in Bad : \A m \in Bad : n <= m
  BY <1>1, LeastNumber
<1>3. n # 0 /\ n - 1 \in Nat /\ n - 1 \notin Bad
  BY <1>2
<1> QED BY <1>2, <1>3

-----------------------------------------------------------------------------
\* The recursion that FoldLeft is made of, on the first n numbers.
Folds(iter, base, seq, n) ==
    iter = [s \in SUBSET (1..n) |->
              IF s = {} THEN base ELSE Op(iter[s \ {Greatest(s)}], seq[Greatest(s)])]

\* The greatest of some numbers up to n.
LEMMA GreatestIs ==
    ASSUME NEW s, NEW n \in s, s \subseteq Int, \A m \in s : m <= n
    PROVE  Greatest(s) = n
<1>1. \A x \in s : (\A y \in s : x >= y) => x = n
  OBVIOUS
<1>2. \E x \in s : \A y \in s : x >= y
  OBVIOUS
<1> QED BY <1>1, <1>2 DEF Greatest

\* It has a solution.
LEMMA FoldsExist ==
    ASSUME NEW base, NEW seq
    PROVE  \A n \in Nat : \E iter : Folds(iter, base, seq, n)
<1> DEFINE S == {n \in Nat : \E iter : Folds(iter, base, seq, n)}
<1>1. 0 \in S
  <2> DEFINE iter == [s \in SUBSET (1..0) |-> base]
  <2>1. SUBSET (1..0) = {{}}
    OBVIOUS
  <2>2. Folds(iter, base, seq, 0)
    BY <2>1 DEF Folds
  <2> QED BY <2>2
<1>2. ASSUME NEW n \in Nat, n \in S
      PROVE  n + 1 \in S
  <2>1. PICK iter : Folds(iter, base, seq, n)
    BY <1>2
  <2> DEFINE old(s) == s \ {n + 1}
             next == [s \in SUBSET (1..n + 1) |->
                        IF n + 1 \in s THEN Op(iter[old(s)], seq[n + 1])
                        ELSE iter[s]]
  <2>2. ASSUME NEW s \in SUBSET (1..n + 1)
        PROVE  next[s] = IF s = {} THEN base
                         ELSE Op(next[s \ {Greatest(s)}], seq[Greatest(s)])
    <3>1. CASE n + 1 \in s
      <4>1. Greatest(s) = n + 1
        <5>1. s \subseteq Int /\ \A m \in s : m <= n + 1
          OBVIOUS
        <5> QED BY <3>1, <5>1, GreatestIs
      <4>2. old(s) \in SUBSET (1..n + 1) /\ n + 1 \notin old(s)
        OBVIOUS
      <4>3. next[old(s)] = iter[old(s)] /\ next[s] = Op(iter[old(s)], seq[n + 1])
        BY <3>1, <4>2
      <4> QED BY <3>1, <4>1, <4>3
    <3>2. CASE n + 1 \notin s
      <4>1. s \in SUBSET (1..n)
        BY <3>2
      <4>2. iter[s] = IF s = {} THEN base
                      ELSE Op(iter[s \ {Greatest(s)}], seq[Greatest(s)])
        BY <2>1, <4>1 DEF Folds
      <4>3. next[s] = iter[s] /\ next[s \ {Greatest(s)}] = iter[s \ {Greatest(s)}]
        BY <3>2
      <4> QED BY <4>2, <4>3
    <3> QED BY <3>1, <3>2
  <2>3. Folds(next, base, seq, n + 1)
    <3>1. next = [s \in SUBSET (1..n + 1) |-> next[s]]
      OBVIOUS
    <3> HIDE DEF next
    <3> QED BY <2>2, <3>1 DEF Folds
  <2> QED BY <2>3
<1> HIDE DEF S
<1>3. Nat \subseteq S
  BY <1>1, <1>2, SetInduction
<1> QED BY <1>3 DEF S

\* The accumulator goes from base to the fold, one element at a time.
THEOREM FoldTrace ==
    ASSUME NEW T, NEW seq \in Seq(T), NEW base
    PROVE  \E acc : /\ acc[0] = base
                    /\ \A i \in 1..Len(seq) : acc[i] = Op(acc[i - 1], seq[i])
                    /\ Fold(base, seq) = acc[Len(seq)]
<1> DEFINE n == Len(seq)
           iter == CHOOSE f : Folds(f, base, seq, n)
           acc == [i \in 0..n |-> iter[1..i]]
<1>1. n \in Nat /\ DOMAIN seq = 1..n
  OBVIOUS
<1>2. Folds(iter, base, seq, n)
  BY <1>1, FoldsExist
<1>3. Fold(base, seq) = iter[1..n]
  BY <1>1 DEF Fold, MapThenFoldSet, Folds
<1> HIDE DEF iter, n
<1>4. acc[0] = base
  <2>1. 1..0 = {}
    OBVIOUS
  <2> QED BY <1>1, <1>2, <2>1 DEF Folds
<1>5. ASSUME NEW i \in 1..n PROVE acc[i] = Op(acc[i - 1], seq[i])
  <2>1. 1..i \in SUBSET (1..n) /\ 1..i # {} /\ i \in 1..i /\ 1..i \subseteq Int
    BY <1>1
  <2>2. Greatest(1..i) = i
    <3>1. \A m \in 1..i : m <= i
      OBVIOUS
    <3> QED BY <2>1, <3>1, GreatestIs
  <2>3. (1..i) \ {i} = 1..i - 1 /\ i \in 0..n /\ i - 1 \in 0..n
    BY <1>1
  <2>4. iter[1..i] = Op(iter[1..i - 1], seq[i])
    BY <1>2, <2>1, <2>2, <2>3 DEF Folds
  <2> QED BY <2>3, <2>4
<1>6. acc[n] = iter[1..n]
  BY <1>1
<1> QED BY <1>3, <1>4, <1>5, <1>6 DEF n

\* Whatever goes from base one element at a time is that accumulator.
THEOREM FoldIs ==
    ASSUME NEW T, NEW seq \in Seq(T), NEW base, NEW acc, acc[0] = base,
           \A i \in 1..Len(seq) : acc[i] = Op(acc[i - 1], seq[i])
    PROVE  Fold(base, seq) = acc[Len(seq)]
<1>1. PICK other : /\ other[0] = base
                   /\ \A i \in 1..Len(seq) : other[i] = Op(other[i - 1], seq[i])
                   /\ Fold(base, seq) = other[Len(seq)]
  BY FoldTrace
<1> DEFINE S == {i \in Nat : i <= Len(seq) => other[i] = acc[i]}
<1>2. 0 \in S
  BY <1>1
<1>3. ASSUME NEW i \in Nat, i \in S PROVE i + 1 \in S
  <2>1. i + 1 <= Len(seq) => i + 1 \in 1..Len(seq) /\ i + 1 - 1 = i
    OBVIOUS
  <2> QED BY <1>1, <1>3, <2>1
<1> HIDE DEF S
<1>4. Nat \subseteq S
  BY <1>2, <1>3, SetInduction
<1>5. Len(seq) \in S
  BY <1>4
<1> QED BY <1>1, <1>5 DEF S

\* Nothing to fold.
THEOREM FoldEmpty ==
    ASSUME NEW base
    PROVE  Fold(base, <<>>) = base
<1>1. <<>> \in Seq({}) /\ Len(<<>>) = 0
  OBVIOUS
<1>2. PICK acc : /\ acc[0] = base
                 /\ \A i \in 1..Len(<<>>) : acc[i] = Op(acc[i - 1], <<>>[i])
                 /\ Fold(base, <<>>) = acc[Len(<<>>)]
  <2> DEFINE seq == <<>>
  <2>1. seq \in Seq({})
    BY <1>1
  <2> HIDE DEF seq
  <2>2. \E acc : /\ acc[0] = base
                 /\ \A i \in 1..Len(seq) : acc[i] = Op(acc[i - 1], seq[i])
                 /\ Fold(base, seq) = acc[Len(seq)]
    BY <2>1, FoldTrace
  <2> QED BY <2>2 DEF seq
<1> QED BY <1>1, <1>2

\* What every step keeps, the fold keeps.
THEOREM FoldKeeps ==
    ASSUME NEW T, NEW seq \in Seq(T), NEW U, NEW base \in U,
           \A u \in U, e \in T : Op(u, e) \in U
    PROVE  Fold(base, seq) \in U
<1>1. PICK acc : /\ acc[0] = base
                 /\ \A i \in 1..Len(seq) : acc[i] = Op(acc[i - 1], seq[i])
                 /\ Fold(base, seq) = acc[Len(seq)]
  BY FoldTrace
<1> DEFINE S == {i \in Nat : i <= Len(seq) => acc[i] \in U}
<1>2. 0 \in S
  BY <1>1
<1>3. ASSUME NEW i \in Nat, i \in S PROVE i + 1 \in S
  <2>1. i + 1 <= Len(seq) => /\ i + 1 \in 1..Len(seq) /\ i + 1 - 1 = i
                             /\ seq[i + 1] \in T
    OBVIOUS
  <2> QED BY <1>1, <1>3, <2>1
<1> HIDE DEF S
<1>4. Nat \subseteq S
  BY <1>2, <1>3, SetInduction
<1>5. Len(seq) \in S
  BY <1>4
<1> QED BY <1>1, <1>5 DEF S

\* One more element.
THEOREM FoldAppend ==
    ASSUME NEW T, NEW seq \in Seq(T), NEW e \in T, NEW base
    PROVE  Fold(base, Append(seq, e)) = Op(Fold(base, seq), e)
<1>1. Append(seq, e) \in Seq(T)
  OBVIOUS
<1>2. PICK acc : /\ acc[0] = base
                 /\ \A i \in 1..Len(Append(seq, e)) :
                      acc[i] = Op(acc[i - 1], Append(seq, e)[i])
                 /\ Fold(base, Append(seq, e)) = acc[Len(Append(seq, e))]
  BY <1>1, FoldTrace
<1>3. \A i \in 1..Len(seq) : acc[i] = Op(acc[i - 1], seq[i])
  BY <1>2
<1>4. Fold(base, seq) = acc[Len(seq)]
  BY <1>2, <1>3, FoldIs
<1> QED BY <1>2, <1>4

\* A sequence after another.
THEOREM FoldConcat ==
    ASSUME NEW T, NEW s \in Seq(T), NEW t \in Seq(T), NEW base
    PROVE  Fold(base, s \o t) = Fold(Fold(base, s), t)
<1>1. s \o t \in Seq(T)
  OBVIOUS
<1>2. PICK acc : /\ acc[0] = base
                 /\ \A i \in 1..Len(s \o t) :
                      acc[i] = Op(acc[i - 1], (s \o t)[i])
                 /\ Fold(base, s \o t) = acc[Len(s \o t)]
  BY <1>1, FoldTrace
<1>3. \A i \in 1..Len(s) : acc[i] = Op(acc[i - 1], s[i])
  BY <1>2
<1>4. Fold(base, s) = acc[Len(s)]
  BY <1>2, <1>3, FoldIs
<1> DEFINE tail == [i \in 0..Len(t) |-> acc[Len(s) + i]]
<1>5. \A i \in 1..Len(t) : tail[i] = Op(tail[i - 1], t[i])
  <2> SUFFICES ASSUME NEW i \in 1..Len(t) PROVE tail[i] = Op(tail[i - 1], t[i])
    OBVIOUS
  <2>1. Len(s) + i \in 1..Len(s \o t) /\ (s \o t)[Len(s) + i] = t[i]
    OBVIOUS
  <2>2. Len(s) + i - 1 = Len(s) + (i - 1) /\ i - 1 \in 0..Len(t) /\ i \in 0..Len(t)
    OBVIOUS
  <2> QED BY <1>2, <2>1, <2>2
<1>6. tail[0] = Fold(base, s) /\ tail[Len(t)] = acc[Len(s) + Len(t)]
  BY <1>4
<1>7. Fold(Fold(base, s), t) = tail[Len(t)]
  <2> HIDE DEF tail
  <2> QED BY <1>5, <1>6, FoldIs
<1> QED BY <1>2, <1>6, <1>7

\* The first element before the others.
THEOREM FoldTail ==
    ASSUME NEW T, NEW seq \in Seq(T), seq # <<>>, NEW base
    PROVE  Fold(base, seq) = Fold(Op(base, Head(seq)), Tail(seq))
<1>1. /\ Tail(seq) \in Seq(T) /\ Len(Tail(seq)) = Len(seq) - 1
      /\ Head(seq) = seq[1] /\ Len(seq) \in Nat \ {0}
      /\ \A i \in 1..Len(seq) - 1 : Tail(seq)[i] = seq[i + 1]
  OBVIOUS
<1>2. PICK acc : /\ acc[0] = base
                 /\ \A i \in 1..Len(seq) : acc[i] = Op(acc[i - 1], seq[i])
                 /\ Fold(base, seq) = acc[Len(seq)]
  BY FoldTrace
<1> DEFINE later == [i \in 0..Len(seq) - 1 |-> acc[i + 1]]
<1>3. later[0] = Op(base, Head(seq)) /\ later[Len(seq) - 1] = acc[Len(seq)]
  BY <1>1, <1>2
<1>4. \A i \in 1..Len(Tail(seq)) : later[i] = Op(later[i - 1], Tail(seq)[i])
  <2> SUFFICES ASSUME NEW i \in 1..Len(Tail(seq))
               PROVE  later[i] = Op(later[i - 1], Tail(seq)[i])
    OBVIOUS
  <2>1. /\ i + 1 \in 1..Len(seq) /\ (i + 1) - 1 = i /\ (i - 1) + 1 = i
        /\ i \in 0..Len(seq) - 1 /\ i - 1 \in 0..Len(seq) - 1
        /\ Tail(seq)[i] = seq[i + 1]
    BY <1>1
  <2> QED BY <1>2, <2>1
<1>5. Fold(later[0], Tail(seq)) = later[Len(Tail(seq))]
  <2> HIDE DEF later
  <2> QED BY <1>1, <1>4, FoldIs
<1> QED BY <1>1, <1>2, <1>3, <1>5

-----------------------------------------------------------------------------
(***************************************************************************)
(* Operators that only add to a sequence.                                  *)
(***************************************************************************)
Accumulates(T, U) ==
    \A x \in Seq(U), y \in Seq(U), e \in T :
      Op(y, e) \in Seq(U) /\ Op(x \o y, e) = x \o Op(y, e)

\* What is there already stays in front.
THEOREM FoldAccumulates ==
    ASSUME NEW T, NEW seq \in Seq(T), NEW U, NEW base \in Seq(U),
           Accumulates(T, U)
    PROVE  /\ Fold(<<>>, seq) \in Seq(U)
           /\ Fold(base, seq) = base \o Fold(<<>>, seq)
<1>1. PICK acc : /\ acc[0] = <<>>
                 /\ \A i \in 1..Len(seq) : acc[i] = Op(acc[i - 1], seq[i])
                 /\ Fold(<<>>, seq) = acc[Len(seq)]
  BY FoldTrace
<1> DEFINE n == Len(seq)
           S == {i \in Nat : i <= n => acc[i] \in Seq(U)}
           longer == [i \in 0..n |-> base \o acc[i]]
<1>2. 0 \in S
  <2>1. <<>> \in Seq(U)
    OBVIOUS
  <2> QED BY <1>1, <2>1
<1>3. ASSUME NEW i \in Nat, i \in S PROVE i + 1 \in S
  <2> SUFFICES ASSUME i + 1 <= n PROVE acc[i + 1] \in Seq(U)
    OBVIOUS
  <2>1. acc[i + 1] = Op(acc[i], seq[i + 1]) /\ seq[i + 1] \in T /\ acc[i] \in Seq(U)
    BY <1>1, <1>3
  <2>2. Op(acc[i], seq[i + 1]) \in Seq(U)
    BY <2>1 DEF Accumulates
  <2> QED BY <2>1, <2>2
<1>4. Nat \subseteq S
  <2> HIDE DEF S
  <2> QED BY <1>2, <1>3, SetInduction
<1>5. \A i \in 0..n : acc[i] \in Seq(U)
  BY <1>4
<1>6. longer[0] = base
  <2>1. base \o <<>> = base
    OBVIOUS
  <2> QED BY <1>1, <2>1
<1>7. ASSUME NEW i \in 1..n PROVE longer[i] = Op(longer[i - 1], seq[i])
  <2>1. /\ i \in 0..n /\ i - 1 \in 0..n /\ seq[i] \in T
        /\ acc[i] = Op(acc[i - 1], seq[i]) /\ acc[i - 1] \in Seq(U)
    BY <1>1, <1>5
  <2>2. Op(base \o acc[i - 1], seq[i]) = base \o Op(acc[i - 1], seq[i])
    BY <2>1 DEF Accumulates
  <2> QED BY <2>1, <2>2
<1>8. n \in 0..n /\ longer[n] = base \o acc[n]
  OBVIOUS
<1> HIDE DEF longer
<1>9. Fold(base, seq) = longer[n]
  BY <1>6, <1>7, FoldIs
<1> QED BY <1>1, <1>5, <1>8, <1>9

\* A sequence after another.
THEOREM FoldSplits ==
    ASSUME NEW T, NEW s \in Seq(T), NEW t \in Seq(T), NEW U,
           Accumulates(T, U)
    PROVE  Fold(<<>>, s \o t) = Fold(<<>>, s) \o Fold(<<>>, t)
<1>1. <<>> \in Seq(U)
  OBVIOUS
<1>2. Fold(<<>>, s) \in Seq(U)
  BY <1>1, FoldAccumulates
<1>3. Fold(<<>>, s \o t) = Fold(Fold(<<>>, s), t)
  BY FoldConcat
<1> DEFINE base == Fold(<<>>, s)
<1>4. base \in Seq(U)
  BY <1>2
<1> HIDE DEF base
<1>5. Fold(base, t) = base \o Fold(<<>>, t)
  BY <1>4, FoldAccumulates
<1> QED BY <1>3, <1>5 DEF base
=============================================================================
