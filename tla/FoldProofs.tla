----------------------------- MODULE FoldProofs -----------------------------
(***************************************************************************)
(* What Through computes: the recursion has one solution, which goes       *)
(* through the sequence from left to right.                                *)
(***************************************************************************)
EXTENDS Fold, WellFoundedInduction, TLAPS

\* The states on the way, and what is left to show of them: that there are.
IsAfter(f, s, seq) ==
  f = [n \in 0 .. Len(seq) |-> IF n = 0 THEN s ELSE Op(f[n - 1], seq[n])]

After(s, seq) == CHOOSE f : IsAfter(f, s, seq)

LEMMA ThroughIsAfter ==
  ASSUME NEW s, NEW seq
  PROVE  Through(s, seq) = After(s, seq)[Len(seq)]
BY Zenon DEF Through, After, IsAfter

IsList(seq) == \E S : seq \in Seq(S)

\* The first n elements.
First(seq, n) == [i \in 1 .. n |-> seq[i]]

LEMMA LeastNumber ==
  ASSUME NEW S \in SUBSET Nat, S # {}
  PROVE  \E n \in S : \A m \in S : n <= m
<1>1. PICK n \in S : \A m \in S : <<m, n>> \notin OpToRel(<, Nat)
  BY NatLessThanWellFounded, WFMin, Zenon
<1>2. \A m \in S : ~(m < n)
  BY <1>1, Zenon DEF OpToRel
<1> QED
  BY <1>2

\* Induction over the numbers, for a set of them.
LEMMA AllNumbers ==
  ASSUME NEW S, 0 \in S, \A n \in Nat : n \in S => n + 1 \in S
  PROVE  \A n \in Nat : n \in S
<1> SUFFICES ASSUME Nat \ S # {} PROVE FALSE
  OBVIOUS
<1>1. PICK n \in Nat \ S : \A m \in Nat \ S : n <= m
  <2> DEFINE T == Nat \ S
  <2>1. T \in SUBSET Nat /\ T # {}
    OBVIOUS
  <2> HIDE DEF T
  <2>2. \E n \in T : \A m \in T : n <= m
    BY <2>1, LeastNumber
  <2> QED
    BY <2>2 DEF T
<1>2. n # 0 /\ n - 1 \in Nat
  OBVIOUS
<1>3. n - 1 \in S
  BY <1>1, <1>2
<1> QED
  BY <1>1, <1>2, <1>3

\* The recursion has a solution.
LEMMA AfterExists ==
  ASSUME NEW s, NEW seq, Len(seq) \in Nat
  PROVE  IsAfter(After(s, seq), s, seq)
<1> DEFINE Step(f, n) == \A i \in 0 .. n : f[i] = IF i = 0 THEN s ELSE Op(f[i - 1], seq[i])
           S == {n \in Nat : \E f : Step(f, n)}
<1>1. 0 \in S
  <2>1. Step([i \in 0 .. 0 |-> s], 0)
    OBVIOUS
  <2> HIDE DEF Step
  <2> QED
    BY <2>1
<1>2. ASSUME NEW n \in Nat, n \in S PROVE n + 1 \in S
  <2>1. PICK f : Step(f, n)
    BY <1>2
  <2> DEFINE g == [i \in 0 .. n + 1 |-> IF i = n + 1 THEN Op(f[n], seq[n + 1]) ELSE f[i]]
  <2>2. Step(g, n + 1)
    <3> SUFFICES ASSUME NEW i \in 0 .. n + 1
                 PROVE  g[i] = IF i = 0 THEN s ELSE Op(g[i - 1], seq[i])
      BY DEF Step
    <3>1. CASE i = 0
      BY <3>1, <2>1
    <3>2. CASE i \in 1 .. n
      <4>1. g[i] = f[i] /\ g[i - 1] = f[i - 1]
        BY <3>2
      <4> HIDE DEF g
      <4> QED
        BY <3>2, <4>1, <2>1
    <3>3. CASE i = n + 1
      <4>1. g[i] = Op(f[n], seq[n + 1]) /\ g[n] = f[n] /\ i - 1 = n
        BY <3>3
      <4> HIDE DEF g
      <4> QED
        BY <3>3, <4>1
    <3> QED
      BY <3>1, <3>2, <3>3
  <2> HIDE DEF Step, g
  <2> QED
    BY <2>2
<1>3. Len(seq) \in S
  <2> HIDE DEF S
  <2> QED
    BY <1>1, <1>2, AllNumbers
<1>4. PICK f : Step(f, Len(seq))
  BY <1>3
<1> DEFINE g == [i \in 0 .. Len(seq) |-> f[i]]
<1>5. \A i \in 0 .. Len(seq) : g[i] = IF i = 0 THEN s ELSE Op(g[i - 1], seq[i])
  <2> TAKE i \in 0 .. Len(seq)
  <2>1. g[i] = f[i] /\ (i # 0 => g[i - 1] = f[i - 1])
    OBVIOUS
  <2> HIDE DEF g
  <2> QED
    BY <2>1, <1>4
<1>6. g = [i \in 0 .. Len(seq) |-> g[i]]
  OBVIOUS
<1>7. IsAfter(g, s, seq)
  <2> HIDE DEF g
  <2> QED
    BY <1>5, <1>6 DEF IsAfter
<1> HIDE DEF g
<1> QED
  BY <1>7, Zenon DEF After

\* Hence the states on the way, one by one.
LEMMA AfterSteps ==
  ASSUME NEW s, NEW seq, Len(seq) \in Nat
  PROVE  /\ After(s, seq)[0] = s
         /\ \A n \in 1 .. Len(seq) : After(s, seq)[n] = Op(After(s, seq)[n - 1], seq[n])
<1> DEFINE f == After(s, seq)
<1>1. f = [n \in 0 .. Len(seq) |-> IF n = 0 THEN s ELSE Op(f[n - 1], seq[n])]
  BY AfterExists DEF IsAfter
<1> HIDE DEF f
<1>2. f[0] = s
  BY <1>1
<1>3. \A n \in 1 .. Len(seq) : f[n] = Op(f[n - 1], seq[n])
  BY <1>1
<1> QED
  BY <1>2, <1>3 DEF f

\* The states on the way, for a proof that goes along.
Goes(f, s, seq) ==
  /\ f[0] = s /\ Through(s, seq) = f[Len(seq)]
  /\ \A n \in 1 .. Len(seq) : f[n] = Op(f[n - 1], seq[n])

THEOREM ThroughSteps ==
  ASSUME NEW s, NEW seq, Len(seq) \in Nat
  PROVE  \E f : Goes(f, s, seq)
BY AfterSteps, ThroughIsAfter DEF Goes

\* What holds at first, and after each element if it did before, holds at
\* the end: good[n] is what may have come of the first n.
THEOREM ThroughKeeps ==
  ASSUME NEW s, NEW seq, Len(seq) \in Nat, NEW good, s \in good[0],
         \A n \in 1 .. Len(seq) : \A t \in good[n - 1] : Op(t, seq[n]) \in good[n]
  PROVE  Through(s, seq) \in good[Len(seq)]
<1> DEFINE f == After(s, seq)
           S == {n \in Nat : n <= Len(seq) => f[n] \in good[n]}
<1>1. f[0] = s /\ \A n \in 1 .. Len(seq) : f[n] = Op(f[n - 1], seq[n])
  BY AfterSteps
<1> HIDE DEF f
<1>2. 0 \in S
  BY <1>1
<1>3. ASSUME NEW n \in Nat, n \in S PROVE n + 1 \in S
  <2> SUFFICES ASSUME n + 1 <= Len(seq) PROVE f[n + 1] \in good[n + 1]
    OBVIOUS
  <2>1. n + 1 \in 1 .. Len(seq) /\ (n + 1) - 1 = n
    OBVIOUS
  <2>2. f[n] \in good[n]
    BY <1>3, <2>1
  <2> QED
    BY <1>1, <2>1, <2>2
<1>4. Len(seq) \in S
  <2> HIDE DEF S
  <2> QED
    BY <1>2, <1>3, AllNumbers
<1> QED
  BY <1>4, ThroughIsAfter DEF f

\* Two sequences whose elements do the same come to the same.
THEOREM ThroughAlike ==
  ASSUME NEW s, NEW p, NEW q, Len(p) \in Nat, Len(q) = Len(p), NEW T, s \in T,
         \A n \in 1 .. Len(p) : \A t \in T : Op(t, p[n]) = Op(t, q[n]) /\ Op(t, p[n]) \in T
  PROVE  Through(s, p) = Through(s, q)
<1> DEFINE f == After(s, p)
           g == After(s, q)
           S == {n \in Nat : n <= Len(p) => f[n] = g[n] /\ f[n] \in T}
<1>1. /\ f[0] = s /\ \A n \in 1 .. Len(p) : f[n] = Op(f[n - 1], p[n])
      /\ g[0] = s /\ \A n \in 1 .. Len(p) : g[n] = Op(g[n - 1], q[n])
  BY AfterSteps
<1>2. Through(s, p) = f[Len(p)] /\ Through(s, q) = g[Len(p)]
  BY ThroughIsAfter
<1> HIDE DEF f, g
<1>3. 0 \in S
  BY <1>1
<1>4. ASSUME NEW n \in Nat, n \in S PROVE n + 1 \in S
  <2> SUFFICES ASSUME n + 1 <= Len(p) PROVE f[n + 1] = g[n + 1] /\ f[n + 1] \in T
    OBVIOUS
  <2>1. n + 1 \in 1 .. Len(p) /\ (n + 1) - 1 = n
    OBVIOUS
  <2>2. f[n] = g[n] /\ f[n] \in T
    BY <1>4, <2>1
  <2>3. f[n + 1] = Op(f[n], p[n + 1]) /\ g[n + 1] = Op(g[n], q[n + 1])
    BY <1>1, <2>1
  <2> QED
    BY <2>1, <2>2, <2>3
<1>5. Len(p) \in S
  <2> HIDE DEF S
  <2> QED
    BY <1>3, <1>4, AllNumbers
<1> QED
  BY <1>2, <1>5

LEMMA ThroughFirst ==
  ASSUME NEW s, NEW seq, NEW m \in Nat, Len(seq) \in Nat, m <= Len(seq)
  PROVE  Through(s, First(seq, m)) = After(s, seq)[m]
<1> DEFINE p == First(seq, m)
           f == After(s, p)
           g == After(s, seq)
           S == {n \in Nat : n <= m => f[n] = g[n]}
<1>1. Len(p) = m /\ \A n \in 1 .. m : p[n] = seq[n]
  BY DEF First
<1>2. /\ f[0] = s /\ \A n \in 1 .. m : f[n] = Op(f[n - 1], seq[n])
      /\ g[0] = s /\ \A n \in 1 .. m : g[n] = Op(g[n - 1], seq[n])
  <2>1. /\ f[0] = s /\ \A n \in 1 .. Len(p) : f[n] = Op(f[n - 1], p[n])
        /\ g[0] = s /\ \A n \in 1 .. Len(seq) : g[n] = Op(g[n - 1], seq[n])
    BY <1>1, AfterSteps
  <2> HIDE DEF f, g, p
  <2> QED
    BY <1>1, <2>1
<1>3. Through(s, p) = f[m]
  BY <1>1, ThroughIsAfter
<1> HIDE DEF f, g, p
<1>4. 0 \in S
  BY <1>2
<1>5. ASSUME NEW n \in Nat, n \in S PROVE n + 1 \in S
  <2> SUFFICES ASSUME n + 1 <= m PROVE f[n + 1] = g[n + 1]
    OBVIOUS
  <2>1. n + 1 \in 1 .. m /\ (n + 1) - 1 = n
    OBVIOUS
  <2>2. f[n] = g[n]
    BY <1>5, <2>1
  <2>3. f[n + 1] = Op(f[n], seq[n + 1]) /\ g[n + 1] = Op(g[n], seq[n + 1])
    BY <1>2, <2>1
  <2> QED
    BY <2>2, <2>3
<1>6. m \in S
  <2> HIDE DEF S
  <2> QED
    BY <1>4, <1>5, AllNumbers
<1> QED
  BY <1>3, <1>6 DEF g, p

\* Nothing to go through.
THEOREM ThroughNone ==
  ASSUME NEW s
  PROVE  Through(s, <<>>) = s
<1>1. Len(<<>>) = 0
  OBVIOUS
<1> QED
  BY <1>1, ThroughIsAfter, AfterSteps

\* The last element comes last.
THEOREM ThroughLast ==
  ASSUME NEW s, NEW seq, Len(seq) \in Nat, Len(seq) > 0
  PROVE  Through(s, seq) = Op(Through(s, First(seq, Len(seq) - 1)), seq[Len(seq)])
<1>1. Len(seq) - 1 \in Nat /\ Len(seq) - 1 <= Len(seq) /\ Len(seq) \in 1 .. Len(seq)
  OBVIOUS
<1>2. Through(s, First(seq, Len(seq) - 1)) = After(s, seq)[Len(seq) - 1]
  BY <1>1, ThroughFirst
<1>3. After(s, seq)[Len(seq)] = Op(After(s, seq)[Len(seq) - 1], seq[Len(seq)])
  BY <1>1, AfterSteps
<1> QED
  BY <1>2, <1>3, ThroughIsAfter

\* One element more.
THEOREM ThroughAppend ==
  ASSUME NEW s, NEW seq, IsList(seq), NEW e
  PROVE  Through(s, Append(seq, e)) = Op(Through(s, seq), e)
<1>1. PICK S : seq \in Seq(S)
  BY DEF IsList
<1>2. seq \in Seq(S \cup {e}) /\ e \in S \cup {e}
  BY <1>1
<1> DEFINE q == Append(seq, e)
<1>3. /\ Len(seq) \in Nat /\ Len(q) = Len(seq) + 1 /\ q[Len(q)] = e
      /\ \A i \in 1 .. Len(seq) : q[i] = seq[i]
  BY <1>2
<1>4. First(q, Len(q) - 1) = seq
  <2>1. seq = [i \in 1 .. Len(seq) |-> seq[i]]
    BY <1>2
  <2>2. Len(q) - 1 = Len(seq)
    BY <1>3
  <2> HIDE DEF q
  <2> QED
    BY <1>3, <2>1, <2>2 DEF First
<1> HIDE DEF q
<1>5. Through(s, q) = Op(Through(s, First(q, Len(q) - 1)), q[Len(q)])
  BY <1>3, ThroughLast
<1> QED
  BY <1>3, <1>4, <1>5 DEF q

LEMMA ListEmpty == IsList(<<>>)
<1>1. <<>> \in Seq({})
  OBVIOUS
<1> QED
  BY <1>1, Zenon DEF IsList

LEMMA ListAppend ==
  ASSUME NEW seq, IsList(seq), NEW e
  PROVE  IsList(Append(seq, e))
<1>1. PICK S : seq \in Seq(S)
  BY DEF IsList
<1>2. Append(seq, e) \in Seq(S \cup {e})
  BY <1>1
<1> QED
  BY <1>2, Zenon DEF IsList

THEOREM ThroughOne ==
  ASSUME NEW s, NEW e
  PROVE  Through(s, <<e>>) = Op(s, e)
<1>1. Through(s, Append(<<>>, e)) = Op(Through(s, <<>>), e)
  BY ListEmpty, ThroughAppend, Zenon
<1>2. Append(<<>>, e) = <<e>>
  OBVIOUS
<1> QED
  BY <1>1, <1>2, ThroughNone, Zenon

THEOREM ThroughTwo ==
  ASSUME NEW s, NEW d, NEW e
  PROVE  Through(s, <<d, e>>) = Op(Op(s, d), e)
<1> DEFINE q == <<d, e>>
           f == After(s, q)
<1>1. Len(q) = 2 /\ q[1] = d /\ q[2] = e
  OBVIOUS
<1>2. Through(s, q) = f[Len(q)]
  BY ThroughIsAfter
<1>3. f[0] = s /\ \A n \in 1 .. Len(q) : f[n] = Op(f[n - 1], q[n])
  BY <1>1, AfterSteps
<1> HIDE DEF q, f
<1>4. f[1] = Op(s, d) /\ f[2] = Op(f[1], e)
  BY <1>1, <1>3
<1>5. Through(s, q) = Op(Op(s, d), e)
  BY <1>1, <1>2, <1>4
<1> QED
  BY <1>5 DEF q
=============================================================================
