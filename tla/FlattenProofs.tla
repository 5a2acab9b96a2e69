-------------------------- MODULE FlattenProofs --------------------------
(***************************************************************************)
(* What FlattenSeq makes of no sequence, of one and of one more, for         *)
(* sequences of every length: the messages are put together with it.        *)
(***************************************************************************)
EXTENDS SequencesExt, SequenceTheorems, WellFoundedInduction, TLAPS

\* A set of numbers that is not empty has a least one: induction, without an
\* operator to instantiate.
LEMMA LeastNumber ==
  ASSUME NEW S \in SUBSET Nat, S # {}
  PROVE  \E n \in S : \A m \in S : n <= m
<1>1. PICK n \in S : \A m \in S : ~(<<m, n>> \in OpToRel(<, Nat))
  BY NatLessThanWellFounded, WFMin
<1>2. \A m \in S : ~(m < n)
  BY <1>1 DEF OpToRel
<1> QED BY <1>2

\* The function behind FlattenSeq: what the first i sequences of ss make.
Flattens(f, ss) ==
  f = [i \in 1..Len(ss) |-> IF i = 1 THEN ss[i] ELSE f[i - 1] \o ss[i]]

LEMMA FlattensValues ==
  ASSUME NEW ss, NEW f, Flattens(f, ss), Len(ss) \in Nat, NEW i \in 1..Len(ss)
  PROVE  f[i] = IF i = 1 THEN ss[i] ELSE f[i - 1] \o ss[i]
<1> DEFINE g == [k \in 1..Len(ss) |-> IF k = 1 THEN ss[k] ELSE f[k - 1] \o ss[k]]
<1>1. g[i] = IF i = 1 THEN ss[i] ELSE f[i - 1] \o ss[i]
  BY Zenon
<1>2. f = g
  BY Zenon DEF Flattens
<1> HIDE DEF g
<1> QED BY <1>1, <1>2, Zenon

\* There is one, for as many of the sequences as one likes.
LEMMA FlattensUpTo ==
  ASSUME NEW ss, NEW n \in Nat
  PROVE  \E f : f = [i \in 1..n |-> IF i = 1 THEN ss[i] ELSE f[i - 1] \o ss[i]]
<1> DEFINE Up(f, k) == f = [i \in 1..k |-> IF i = 1 THEN ss[i] ELSE f[i - 1] \o ss[i]]
           None == {k \in Nat : ~ \E f : Up(f, k)}
<1>1. SUFFICES ASSUME None # {} PROVE FALSE
  BY Zenon
<1>2. PICK k \in None : \A m \in None : k <= m
  <2>1. None \in SUBSET Nat
    BY Zenon
  <2> HIDE DEF None
  <2> QED BY <1>1, <2>1, LeastNumber
<1>3. k # 0
  <2>1. 1..0 = {}
    OBVIOUS
  <2> DEFINE z == [i \in {} |-> {}]
  <2>2. z = [i \in 1..0 |-> IF i = 1 THEN ss[i] ELSE z[i - 1] \o ss[i]]
    BY <2>1
  <2>3. Up(z, 0)
    BY <2>2
  <2> QED BY <2>3
<1>4. k - 1 \in Nat /\ k \in Nat /\ ~(k <= k - 1)
  BY <1>3
<1>5. PICK f : Up(f, k - 1)
  <2>1. k - 1 \notin None
    BY <1>2, <1>4
  <2> QED BY <1>4, <2>1, Zenon
<1> DEFINE g == [i \in 1..k |-> IF i = 1 THEN ss[i] ELSE f[i - 1] \o ss[i]]
<1>6. ASSUME NEW i \in 1..(k - 1) PROVE f[i] = g[i]
  <2>1. i \in 1..k
    BY <1>4
  <2>2. g[i] = IF i = 1 THEN ss[i] ELSE f[i - 1] \o ss[i]
    BY <2>1, Zenon
  <2>3. f[i] = IF i = 1 THEN ss[i] ELSE f[i - 1] \o ss[i]
    <3> DEFINE h == [j \in 1..(k - 1) |-> IF j = 1 THEN ss[j] ELSE f[j - 1] \o ss[j]]
    <3>1. h[i] = IF i = 1 THEN ss[i] ELSE f[i - 1] \o ss[i]
      BY Zenon
    <3>2. f = h
      BY <1>5, Zenon
    <3> HIDE DEF h
    <3> QED BY <3>1, <3>2, Zenon
  <2> QED BY <2>2, <2>3, Zenon
<1>7. Up(g, k)
  <2> SUFFICES ASSUME NEW i \in 1..k
               PROVE  (IF i = 1 THEN ss[i] ELSE f[i - 1] \o ss[i])
                      = (IF i = 1 THEN ss[i] ELSE g[i - 1] \o ss[i])
    BY Zenon
  <2>1. i = 1 \/ i - 1 \in 1..(k - 1)
    BY <1>4
  <2> HIDE DEF g
  <2> QED BY <1>6, <2>1, Zenon
<1> QED BY <1>7, Zenon

LEMMA FlattensExists ==
  ASSUME NEW ss, Len(ss) \in Nat
  PROVE  \E f : Flattens(f, ss)
BY FlattensUpTo DEF Flattens

\* Two of them agree on the sequences they share.
LEMMA FlattensAgree ==
  ASSUME NEW ss, NEW tt, NEW f, NEW g, Flattens(f, ss), Flattens(g, tt),
         Len(ss) \in Nat, Len(tt) \in Nat, Len(ss) <= Len(tt),
         \A i \in 1..Len(ss) : ss[i] = tt[i]
  PROVE  \A i \in 1..Len(ss) : f[i] = g[i]
<1> DEFINE Differ == {i \in 1..Len(ss) : f[i] # g[i]}
<1> SUFFICES ASSUME Differ # {} PROVE FALSE
  BY Zenon
<1>1. PICK i \in Differ : \A j \in Differ : i <= j
  <2>1. Differ \in SUBSET Nat
    OBVIOUS
  <2> HIDE DEF Differ
  <2> QED BY <2>1, LeastNumber
<1>2. i \in 1..Len(ss) /\ i \in 1..Len(tt) /\ ss[i] = tt[i] /\ f[i] # g[i]
  OBVIOUS
<1>3. /\ f[i] = IF i = 1 THEN ss[i] ELSE f[i - 1] \o ss[i]
      /\ g[i] = IF i = 1 THEN tt[i] ELSE g[i - 1] \o tt[i]
  BY <1>2, FlattensValues, Zenon
<1>4. i # 1
  BY <1>2, <1>3, Zenon
<1>5. i - 1 \in 1..Len(ss) /\ ~(i <= i - 1)
  BY <1>2, <1>4
<1>6. f[i - 1] = g[i - 1]
  BY <1>1, <1>5
<1> QED BY <1>2, <1>3, <1>4, <1>6, Zenon

\* The function that FlattenSeq chooses.
LEMMA FlattenSeqDef ==
  ASSUME NEW ss, Len(ss) \in Nat, Len(ss) # 0
  PROVE  \E f : Flattens(f, ss) /\ FlattenSeq(ss) = f[Len(ss)]
<1> DEFINE f == CHOOSE h : Flattens(h, ss)
<1>1. Flattens(f, ss)
  BY FlattensExists, Zenon
<1>2. FlattenSeq(ss) = f[Len(ss)]
  BY Zenon DEF FlattenSeq, Flattens
<1> HIDE DEF f
<1> QED BY <1>1, <1>2

LEMMA FlattenNone == FlattenSeq(<<>>) = <<>>
BY DEF FlattenSeq

LEMMA FlattenOne ==
  ASSUME NEW s
  PROVE  FlattenSeq(<<s>>) = s
<1> DEFINE ss == <<s>>
<1>1. Len(ss) = 1 /\ ss[1] = s /\ 1 \in 1..1
  OBVIOUS
<1> HIDE DEF ss
<1>2. PICK f : Flattens(f, ss) /\ FlattenSeq(ss) = f[1]
  <2>1. Len(ss) \in Nat /\ Len(ss) # 0
    BY <1>1
  <2> QED BY <1>1, <2>1, FlattenSeqDef
<1>3. f[1] = ss[1]
  BY <1>1, <1>2, FlattensValues
<1> QED BY <1>1, <1>2, <1>3 DEF ss

LEMMA FlattenAppend ==
  ASSUME NEW T, NEW ss \in Seq(T), ss # <<>>, NEW s \in T
  PROVE  FlattenSeq(Append(ss, s)) = FlattenSeq(ss) \o s
<1> DEFINE tt == Append(ss, s)
           n == Len(ss)
<1>1. /\ n \in Nat /\ n # 0 /\ Len(tt) = n + 1 /\ tt[n + 1] = s
      /\ \A i \in 1..n : ss[i] = tt[i]
  BY AppendProperties
<1> HIDE DEF tt, n
<1>2. PICK f : Flattens(f, ss) /\ FlattenSeq(ss) = f[n]
  BY <1>1, FlattenSeqDef DEF n
<1>3. PICK g : Flattens(g, tt) /\ FlattenSeq(tt) = g[n + 1]
  <2>1. Len(tt) \in Nat /\ Len(tt) # 0
    BY <1>1
  <2> QED BY <1>1, <2>1, FlattenSeqDef
<1>4. f[n] = g[n]
  <2>1. n \in 1..Len(ss) /\ Len(ss) <= Len(tt) /\ Len(tt) \in Nat
    BY <1>1 DEF n
  <2> QED BY <1>1, <1>2, <1>3, <2>1, FlattensAgree DEF n
<1>5. g[n + 1] = g[(n + 1) - 1] \o tt[n + 1]
  <2>1. n + 1 \in 1..Len(tt) /\ n + 1 # 1 /\ Len(tt) \in Nat
    BY <1>1
  <2> QED BY <1>3, <2>1, FlattensValues
<1>6. (n + 1) - 1 = n
  BY <1>1
<1> QED BY <1>1, <1>2, <1>3, <1>4, <1>5, <1>6 DEF tt
=============================================================================
