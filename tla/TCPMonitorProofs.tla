-------------------------- MODULE TCPMonitorProofs --------------------------
(***************************************************************************)
(* Proofs about the /proc/net/tcp parser of startTCPMonitoring: the counts *)
(* Stats computes with strings.Split, lines[1:], strings.Fields and the    *)
(* len(fields) < 4 test are the reference counts RefStats, for every text  *)
(* over Chars, and so every report the monitor logs matches its file.      *)
(*                                                                         *)
(* The folds are recursive functions; what they compute is shown by        *)
(* induction on the prefix length, done with the least-element principle   *)
(* of WellFoundedInduction (the induction theorems with an operator        *)
(* parameter cannot be instantiated by the provers).                       *)
(***************************************************************************)
EXTENDS TCPMonitor, SequenceTheorems, FiniteSetTheorems, WellFoundedInduction,
        TLAPS

-----------------------------------------------------------------------------
(* Induction on an interval of naturals.                                   *)

\* A non-empty set of naturals has a least element.
LEMMA Least ==
  ASSUME NEW T \in SUBSET Nat, T # {}
  PROVE  \E m \in T : \A k \in T : ~(k < m)
<1> DEFINE R == {ss \in Nat \X Nat : ss[1] < ss[2]}
<1>1. IsWellFoundedOn(R, Nat)
  BY NatLessThanWellFounded DEF OpToRel
<1>2. \E x \in T : \A y \in T : ~(<<y, x>> \in R)
  BY <1>1, WFMin, Zenon
<1>3. PICK x \in T : \A y \in T : ~(<<y, x>> \in R)
  BY <1>2
<1>4. \A y \in T : y < x => <<y, x>> \in R
  OBVIOUS
<1>5. \A y \in T : ~(y < x)
  BY <1>3, <1>4, Zenon
<1>6. QED
  BY <1>5

\* A set that holds 0 and is closed under successor below N holds 0..N.
LEMMA UpTo ==
  ASSUME NEW N \in Nat, NEW S, 0 \in S,
         \A n \in 0..(N - 1) : n \in S => n + 1 \in S
  PROVE  0..N \subseteq S
<1> DEFINE T == {n \in 0..N : n \notin S}
<1> SUFFICES ASSUME T # {} PROVE FALSE
  OBVIOUS
<1>0. T \in SUBSET Nat /\ T # {}
  OBVIOUS
<1>1. PICK m \in T : \A k \in T : ~(k < m)
  BY <1>0, Least, Zenon
<1>2. m # 0 /\ m - 1 \in 0..(N - 1)
  OBVIOUS
<1>3. ~(m - 1 \in T)
  BY <1>1, <1>2
<1>4. m - 1 \in S
  BY <1>2, <1>3
<1>5. QED
  BY <1>1, <1>2, <1>4

-----------------------------------------------------------------------------
(* The recursion equations of the three folds.                            *)

\* The pieces after i characters are one SplitStep from those after i - 1.
LEMMA SplitPrefixUnfold ==
  ASSUME NEW s \in Seq(Chars)
  PROVE  /\ SplitPrefix(s)[0] = << << >> >>
         /\ \A i \in 1..Len(s) :
              SplitPrefix(s)[i] = SplitStep(SplitPrefix(s)[i - 1], s[i])
<1> DEFINE Base == << << >> >>
           Eqn(g) == g = [i \in 0..Len(s) |->
                            IF i = 0 THEN Base ELSE SplitStep(g[i - 1], s[i])]
           Ok(g, n) == /\ g = [i \in 0..n |-> g[i]] /\ g[0] = Base
                       /\ \A i \in 1..n : g[i] = SplitStep(g[i - 1], s[i])
           S == {n \in Nat : \E g : Ok(g, n)}
<1>0. Len(s) \in Nat
  OBVIOUS
<1>1. 0..Len(s) \subseteq S
  <2>1. 0 \in S
    <3>1. Ok([i \in 0..0 |-> Base], 0)
      OBVIOUS
    <3>2. QED
      BY <3>1
  <2>2. ASSUME NEW n \in 0..(Len(s) - 1), n \in S PROVE n + 1 \in S
    <3>1. PICK g : Ok(g, n)
      BY <2>2
    <3>1b. /\ g[0] = Base
           /\ \A i \in 1..n : g[i] = SplitStep(g[i - 1], s[i])
      BY <3>1, Zenon
    <3> DEFINE h == [i \in 0..(n + 1) |->
                       IF i <= n THEN g[i] ELSE SplitStep(g[n], s[n + 1])]
    <3>2. \A i \in 1..(n + 1) : h[i] = SplitStep(h[i - 1], s[i])
      <4> SUFFICES ASSUME NEW i \in 1..(n + 1)
                   PROVE  h[i] = SplitStep(h[i - 1], s[i])
        OBVIOUS
      <4>1. CASE i <= n
        <5>1. h[i] = g[i] /\ h[i - 1] = g[i - 1]
          BY <4>1
        <5>2. g[i] = SplitStep(g[i - 1], s[i])
          BY <3>1b, <4>1
        <5>3. QED
          BY <5>1, <5>2, Zenon
      <4>2. CASE i = n + 1
        BY <4>2
      <4>3. QED
        BY <4>1, <4>2
    <3>3. h = [i \in 0..(n + 1) |-> h[i]]
      OBVIOUS
    <3>5. h[0] = Base
      BY <3>1b
    <3>3a. Ok(h, n + 1)
      BY <3>2, <3>3, <3>5, Zenon
    <3>6. n + 1 \in Nat
      OBVIOUS
    <3>4. QED
      BY <3>3a, <3>6, Zenon
  <2>3. QED
    BY <1>0, <2>1, <2>2, UpTo, Zenon
<1>2. \E g : Eqn(g)
  <2>1. Len(s) \in S
    <3>1. Len(s) \in 0..Len(s)
      BY <1>0
    <3>2. QED
      BY <1>1, <3>1, Zenon
  <2>2. PICK g : Ok(g, Len(s))
    BY <2>1
  <2>3. \A i \in 0..Len(s) :
          g[i] = IF i = 0 THEN Base ELSE SplitStep(g[i - 1], s[i])
    BY <2>2
  <2>5. Eqn(g)
    BY <2>2, <2>3
  <2>4. QED
    BY <2>5
<1>3. Eqn(SplitPrefix(s))
  BY <1>2, Zenon DEF SplitPrefix
<1>4. QED
  BY <1>3, SMTT(30)

\* The scan's state after i characters is one FieldsStep from that after i - 1.
LEMMA FieldsPrefixUnfold ==
  ASSUME NEW S, NEW s \in Seq(S)
  PROVE  /\ FieldsPrefix(s)[0] = [fields |-> << >>, inField |-> FALSE]
         /\ \A i \in 1..Len(s) :
              FieldsPrefix(s)[i] = FieldsStep(FieldsPrefix(s)[i - 1], s[i])
<1> DEFINE Base == [fields |-> << >>, inField |-> FALSE]
           Eqn(g) == g = [i \in 0..Len(s) |->
                            IF i = 0 THEN Base ELSE FieldsStep(g[i - 1], s[i])]
           Ok(g, n) == /\ g = [i \in 0..n |-> g[i]] /\ g[0] = Base
                       /\ \A i \in 1..n : g[i] = FieldsStep(g[i - 1], s[i])
           Reach == {n \in Nat : \E g : Ok(g, n)}
<1>0. Len(s) \in Nat
  OBVIOUS
<1>1. 0..Len(s) \subseteq Reach
  <2>1. 0 \in Reach
    <3>1. Ok([i \in 0..0 |-> Base], 0)
      OBVIOUS
    <3>2. QED
      BY <3>1
  <2>2. ASSUME NEW n \in 0..(Len(s) - 1), n \in Reach PROVE n + 1 \in Reach
    <3>1. PICK g : Ok(g, n)
      BY <2>2
    <3>1b. /\ g[0] = Base
           /\ \A i \in 1..n : g[i] = FieldsStep(g[i - 1], s[i])
      BY <3>1, Zenon
    <3> DEFINE h == [i \in 0..(n + 1) |->
                       IF i <= n THEN g[i] ELSE FieldsStep(g[n], s[n + 1])]
    <3>2. \A i \in 1..(n + 1) : h[i] = FieldsStep(h[i - 1], s[i])
      <4> SUFFICES ASSUME NEW i \in 1..(n + 1)
                   PROVE  h[i] = FieldsStep(h[i - 1], s[i])
        OBVIOUS
      <4>1. CASE i <= n
        <5>1. h[i] = g[i] /\ h[i - 1] = g[i - 1]
          BY <4>1
        <5>2. g[i] = FieldsStep(g[i - 1], s[i])
          BY <3>1b, <4>1
        <5>3. QED
          BY <5>1, <5>2, Zenon
      <4>2. CASE i = n + 1
        BY <4>2
      <4>3. QED
        BY <4>1, <4>2
    <3>3. h = [i \in 0..(n + 1) |-> h[i]]
      OBVIOUS
    <3>5. h[0] = Base
      BY <3>1b
    <3>3a. Ok(h, n + 1)
      BY <3>2, <3>3, <3>5, Zenon
    <3>6. n + 1 \in Nat
      OBVIOUS
    <3>4. QED
      BY <3>3a, <3>6, Zenon
  <2>3. QED
    BY <1>0, <2>1, <2>2, UpTo, Zenon
<1>2. \E g : Eqn(g)
  <2>1. Len(s) \in Reach
    <3>1. Len(s) \in 0..Len(s)
      BY <1>0
    <3>2. QED
      BY <1>1, <3>1, Zenon
  <2>2. PICK g : Ok(g, Len(s))
    BY <2>1
  <2>3. \A i \in 0..Len(s) :
          g[i] = IF i = 0 THEN Base ELSE FieldsStep(g[i - 1], s[i])
    BY <2>2, SMTT(30)
  <2>5. Eqn(g)
    BY <2>2, <2>3
  <2>4. QED
    BY <2>5
<1>3. Eqn(FieldsPrefix(s))
  BY <1>2, Zenon DEF FieldsPrefix
<1>4. FieldsPrefix(s)[0] = Base
  <2>1. 0 \in 0..Len(s)
    OBVIOUS
  <2>2. QED
    BY <1>3, <2>1, Zenon
<1>5. ASSUME NEW i \in 1..Len(s)
      PROVE  FieldsPrefix(s)[i] = FieldsStep(FieldsPrefix(s)[i - 1], s[i])
  <2>1. i \in 0..Len(s) /\ i # 0
    OBVIOUS
  <2>2. QED
    BY <1>3, <2>1, Zenon
<1>6. QED
  BY <1>4, <1>5

\* The counts after i lines are one CountLine from those after i - 1.
LEMMA CountPrefixUnfold ==
  ASSUME NEW st, NEW s, Len(s) \in Nat
  PROVE  /\ CountPrefix(st, s)[0] = st
         /\ \A i \in 1..Len(s) :
              CountPrefix(st, s)[i] = CountLine(CountPrefix(st, s)[i - 1], s[i])
<1> DEFINE Base == st
           Eqn(g) == g = [i \in 0..Len(s) |->
                            IF i = 0 THEN Base ELSE CountLine(g[i - 1], s[i])]
           Ok(g, n) == /\ g = [i \in 0..n |-> g[i]] /\ g[0] = Base
                       /\ \A i \in 1..n : g[i] = CountLine(g[i - 1], s[i])
           S == {n \in Nat : \E g : Ok(g, n)}
<1>0. Len(s) \in Nat
  OBVIOUS
<1>1. 0..Len(s) \subseteq S
  <2>1. 0 \in S
    <3>1. Ok([i \in 0..0 |-> Base], 0)
      OBVIOUS
    <3>2. QED
      BY <3>1
  <2>2. ASSUME NEW n \in 0..(Len(s) - 1), n \in S PROVE n + 1 \in S
    <3>1. PICK g : Ok(g, n)
      BY <2>2
    <3>1b. /\ g[0] = Base
           /\ \A i \in 1..n : g[i] = CountLine(g[i - 1], s[i])
      BY <3>1, Zenon
    <3> DEFINE h == [i \in 0..(n + 1) |->
                       IF i <= n THEN g[i] ELSE CountLine(g[n], s[n + 1])]
    <3>2. \A i \in 1..(n + 1) : h[i] = CountLine(h[i - 1], s[i])
      <4> SUFFICES ASSUME NEW i \in 1..(n + 1)
                   PROVE  h[i] = CountLine(h[i - 1], s[i])
        OBVIOUS
      <4>1. CASE i <= n
        <5>1. h[i] = g[i] /\ h[i - 1] = g[i - 1]
          BY <4>1
        <5>2. g[i] = CountLine(g[i - 1], s[i])
          BY <3>1b, <4>1
        <5>3. QED
          BY <5>1, <5>2, Zenon
      <4>2. CASE i = n + 1
        BY <4>2
      <4>3. QED
        BY <4>1, <4>2
    <3>3. h = [i \in 0..(n + 1) |-> h[i]]
      OBVIOUS
    <3>5. h[0] = Base
      BY <3>1b
    <3>3a. Ok(h, n + 1)
      BY <3>2, <3>3, <3>5, Zenon
    <3>6. n + 1 \in Nat
      OBVIOUS
    <3>4. QED
      BY <3>3a, <3>6, Zenon
  <2>3. QED
    BY <1>0, <2>1, <2>2, UpTo, Zenon
<1>2. \E g : Eqn(g)
  <2>1. Len(s) \in S
    <3>1. Len(s) \in 0..Len(s)
      BY <1>0
    <3>2. QED
      BY <1>1, <3>1, Zenon
  <2>2. PICK g : Ok(g, Len(s))
    BY <2>1
  <2>3. \A i \in 0..Len(s) :
          g[i] = IF i = 0 THEN Base ELSE CountLine(g[i - 1], s[i])
    BY <2>2
  <2>5. Eqn(g)
    BY <2>2, <2>3
  <2>4. QED
    BY <2>5
<1>3. Eqn(CountPrefix(st, s))
  BY <1>2, Zenon DEF CountPrefix
<1>4. QED
  BY <1>3


\* The same, for one line i.
LEMMA CountPrefixStep ==
  ASSUME NEW st, NEW s, Len(s) \in Nat, NEW i \in 1..Len(s)
  PROVE  CountPrefix(st, s)[i] = CountLine(CountPrefix(st, s)[i - 1], s[i])
BY CountPrefixUnfold

-----------------------------------------------------------------------------
(* Newlines before a position: the k of LinePos(d, k).                     *)

NLs(d, i) == Cardinality({j \in 1..i : d[j] = NL})

\* The newlines among the first i characters are finitely many.
LEMMA NLsFinite ==
  ASSUME NEW d, NEW i \in Int
  PROVE  IsFiniteSet({j \in 1..i : d[j] = NL})
<1>1. IsFiniteSet(1..i)
  BY FS_Interval
<1>2. QED
  BY <1>1, FS_Subset, Zenon

\* ... so they have a count.
LEMMA NLsType ==
  ASSUME NEW d, NEW i \in Int
  PROVE  NLs(d, i) \in Nat
BY NLsFinite, FS_CardinalityType DEF NLs

\* No character, no newline.
LEMMA NLsZero ==
  ASSUME NEW d
  PROVE  NLs(d, 0) = 0
<1>1. {j \in 1..0 : d[j] = NL} = {}
  OBVIOUS
<1>2. QED
  BY <1>1, FS_EmptySet DEF NLs

\* One more character adds one newline exactly when it is one.
LEMMA NLsStep ==
  ASSUME NEW d, NEW i \in Nat
  PROVE  NLs(d, i + 1) = IF d[i + 1] = NL THEN NLs(d, i) + 1 ELSE NLs(d, i)
<1> DEFINE P == {j \in 1..i : d[j] = NL}
<1>1. IsFiniteSet(P)
  BY NLsFinite
<1>2. CASE d[i + 1] = NL
  <2>1. {j \in 1..(i + 1) : d[j] = NL} = P \cup {i + 1}
    BY <1>2
  <2>2. i + 1 \notin P
    OBVIOUS
  <2>3. QED
    BY <1>1, <1>2, <2>1, <2>2, FS_AddElement DEF NLs
<1>3. CASE d[i + 1] # NL
  <2>1. {j \in 1..(i + 1) : d[j] = NL} = P
    BY <1>3
  <2>2. QED
    BY <1>3, <2>1 DEF NLs
<1>4. QED
  BY <1>2, <1>3

\* Counting further never counts fewer newlines.
LEMMA NLsMono ==
  ASSUME NEW d, NEW i \in Int, NEW j \in Int, i <= j
  PROVE  NLs(d, i) <= NLs(d, j)
<1>1. {k \in 1..i : d[k] = NL} \subseteq {k \in 1..j : d[k] = NL}
  OBVIOUS
<1>2. QED
  BY <1>1, NLsFinite, FS_Subset DEF NLs

\* A stretch a..b without newline adds none.
LEMMA NLsFlat ==
  ASSUME NEW d, NEW a \in Int, NEW b \in Int, a - 1 <= b,
         \A p \in a..b : d[p] # NL
  PROVE  NLs(d, b) = NLs(d, a - 1)
<1>1. {k \in 1..b : d[k] = NL} = {k \in 1..(a - 1) : d[k] = NL}
  OBVIOUS
<1>2. QED
  BY <1>1 DEF NLs

\* A newline at p counts for every position from p on.
LEMMA NLsPast ==
  ASSUME NEW d, NEW p \in Nat \ {0}, NEW q \in Int, p <= q, d[p] = NL
  PROVE  NLs(d, p - 1) + 1 <= NLs(d, q)
<1>1. NLs(d, p) = NLs(d, p - 1) + 1
  BY NLsStep
<1>2. QED
  BY <1>1, NLsMono, NLsType


-----------------------------------------------------------------------------
(* strings.Split: line k of the first i characters is the stretch from a   *)
(* start a (the first character or one after a newline) that has k - 1     *)
(* newlines before it and none in it, and that ends at i if it is the last *)
(* line and just before a newline otherwise.                               *)

Piece(d, a, l) ==
  /\ a \in Nat \ {0}
  /\ l \in Seq(Chars)
  /\ \A q \in 1..Len(l) : l[q] = d[a + q - 1]
  /\ \A p \in a..(a + Len(l) - 1) : d[p] # NL
  /\ a = 1 \/ d[a - 1] = NL

LineOf(d, i, A, k, a) ==
  /\ Piece(d, a, A[k])
  /\ NLs(d, a - 1) = k - 1
  /\ IF k = Len(A) THEN a + Len(A[k]) - 1 = i
                   ELSE a + Len(A[k]) - 1 < i /\ d[a + Len(A[k])] = NL

SplitInv(d, i, A) ==
  /\ A \in Seq(Seq(Chars))
  /\ Len(A) = NLs(d, i) + 1
  /\ \A k \in 1..Len(A) : \E a \in 1..(i + 1) : LineOf(d, i, A, k, a)

\* Appending c to the last of a non-empty sequence of sequences.
LEMMA AppendToLast ==
  ASSUME NEW T, NEW A \in Seq(Seq(T)), Len(A) # 0, NEW c \in T,
         NEW B, B = [A EXCEPT ![Len(A)] = Append(A[Len(A)], c)]
  PROVE  /\ B \in Seq(Seq(T))
         /\ Len(B) = Len(A)
         /\ \A k \in 1..(Len(A) - 1) : B[k] = A[k]
         /\ B[Len(A)] = Append(A[Len(A)], c)
<1>1. Len(A) \in 1..Len(A)
  OBVIOUS
<1>2. Append(A[Len(A)], c) \in Seq(T)
  BY <1>1, AppendProperties
<1>3. QED
  BY <1>1, <1>2, ExceptSeq

\* One character keeps the lines of the prefix read so far.
LEMMA SplitStepInv ==
  ASSUME NEW d \in Seq(Chars), NEW i \in 0..(Len(d) - 1),
         NEW A, SplitInv(d, i, A),
         NEW B, B = SplitStep(A, d[i + 1])
  PROVE  SplitInv(d, i + 1, B)
<1> DEFINE c == d[i + 1]
<1>1. c \in Chars /\ i \in Nat
  OBVIOUS
<1>2. NLs(d, i) \in Nat
  BY <1>1, NLsType
<1>3. A \in Seq(Seq(Chars)) /\ Len(A) = NLs(d, i) + 1
  BY DEF SplitInv
<1>4. CASE c = NL
  <2>1. B = Append(A, << >>)
    BY <1>4 DEF SplitStep
  <2>2. /\ B \in Seq(Seq(Chars))
        /\ Len(B) = Len(A) + 1
        /\ \A k \in 1..Len(A) : B[k] = A[k]
        /\ B[Len(A) + 1] = << >>
    BY <1>3, <2>1, AppendProperties
  <2>3. Len(B) = NLs(d, i + 1) + 1
    BY <1>1, <1>3, <1>4, <2>2, NLsStep
  <2>4. ASSUME NEW k \in 1..Len(B)
        PROVE  \E a \in 1..(i + 2) : LineOf(d, i + 1, B, k, a)
    <3>1. CASE k <= Len(A)
      <4>1. PICK a \in 1..(i + 1) : LineOf(d, i, A, k, a)
        BY <3>1, <1>2, <1>3 DEF SplitInv
      <4>2. A[k] \in Seq(Chars) /\ k # Len(B)
        BY <1>2, <1>3, <2>2, <3>1
      <4>3. B[k] = A[k]
        BY <2>2, <3>1, SMTT(30)
      <4>4. Piece(d, a, B[k]) /\ NLs(d, a - 1) = k - 1
        BY <4>1, <4>3, Zenon DEF LineOf
      <4>5. a + Len(A[k]) - 1 < i + 1 /\ d[a + Len(A[k])] = NL
        <5>1. CASE k = Len(A)
          <6>1. a + Len(A[k]) - 1 = i
            BY <4>1, <5>1, Zenon DEF LineOf
          <6>2. QED
            BY <1>4, <4>2, <6>1
        <5>2. CASE k # Len(A)
          <6>1. a + Len(A[k]) - 1 < i /\ d[a + Len(A[k])] = NL
            BY <4>1, <5>2, Zenon DEF LineOf
          <6>2. QED
            BY <4>2, <6>1
        <5>3. QED
          BY <5>1, <5>2
      <4>6. a \in 1..(i + 2)
        BY <1>1
      <4>7. LineOf(d, i + 1, B, k, a)
        <5>1. /\ Piece(d, a, B[k]) /\ NLs(d, a - 1) = k - 1
              /\ a + Len(B[k]) - 1 < i + 1 /\ d[a + Len(B[k])] = NL
          BY <4>3, <4>4, <4>5
        <5>2. QED
          BY <4>2, <5>1, Zenon DEF LineOf
      <4>8. QED
        BY <4>6, <4>7
    <3>2. CASE k = Len(A) + 1
      <4>1. NLs(d, i + 1) = k - 1
        BY <1>1, <1>3, <1>4, <3>2, NLsStep
      <4>2. B[k] = << >> /\ k = Len(B)
        BY <2>2, <3>2
      <4>5. Piece(d, i + 2, << >>)
        BY <1>1, <1>4 DEF Piece
      <4>6. (i + 2) - 1 = i + 1 /\ i + 2 + Len(<< >>) - 1 = i + 1
        BY <1>1
      <4>3. LineOf(d, i + 1, B, k, i + 2)
        BY <4>1, <4>2, <4>5, <4>6, Zenon DEF LineOf
      <4>4. QED
        BY <4>3
    <3>3. QED
      BY <1>2, <1>3, <2>2, <3>1, <3>2
  <2>5. QED
    BY <2>2, <2>3, <2>4 DEF SplitInv
<1>5. CASE c # NL
  <2>1. B = [A EXCEPT ![Len(A)] = Append(A[Len(A)], c)]
    BY <1>5 DEF SplitStep
  <2>2. /\ B \in Seq(Seq(Chars))
        /\ Len(B) = Len(A)
        /\ \A k \in 1..(Len(A) - 1) : B[k] = A[k]
        /\ B[Len(A)] = Append(A[Len(A)], c)
    BY <1>1, <1>2, <1>3, <2>1, AppendToLast
  <2>3. Len(B) = NLs(d, i + 1) + 1
    BY <1>1, <1>3, <1>5, <2>2, NLsStep
  <2>4. ASSUME NEW k \in 1..Len(B)
        PROVE  \E a \in 1..(i + 2) : LineOf(d, i + 1, B, k, a)
    <3>1. PICK a \in 1..(i + 1) : LineOf(d, i, A, k, a)
      BY <2>2 DEF SplitInv
    <3>2. A[k] \in Seq(Chars)
      BY <1>2, <1>3, <2>2
    <3>3. CASE k < Len(A)
      <4>0. k \in 1..(Len(A) - 1) /\ k # Len(B)
        BY <2>2, <3>3
      <4>2. B[k] = A[k] /\ k # Len(B)
        BY <2>2, <4>0, Zenon
      <4>3. a + Len(A[k]) - 1 < i /\ d[a + Len(A[k])] = NL
        BY <3>1, <4>2, <2>2, Zenon DEF LineOf
      <4>4. a + Len(A[k]) - 1 < i + 1
        BY <3>2, <4>3
      <4>1. LineOf(d, i + 1, B, k, a)
        BY <3>1, <4>2, <4>3, <4>4, Zenon DEF LineOf
      <4>5. QED
        BY <4>1
    <3>4. CASE k = Len(A)
      <4> DEFINE l == A[k]
      <4>1. Piece(d, a, l) /\ NLs(d, a - 1) = k - 1 /\ a + Len(l) - 1 = i
        BY <3>1, <3>4 DEF LineOf
      <4>2. B[k] = Append(l, c) /\ Len(Append(l, c)) = Len(l) + 1
        BY <1>1, <2>2, <3>2, <3>4, AppendProperties
      <4>3. Piece(d, a, Append(l, c))
        <5>1. Append(l, c) \in Seq(Chars)
          BY <1>1, <3>2, AppendProperties
        <5>2. \A q \in 1..Len(l) + 1 : Append(l, c)[q] = d[a + q - 1]
          <6>1. /\ \A q \in 1..Len(l) : Append(l, c)[q] = l[q]
                /\ Append(l, c)[Len(l) + 1] = c
            BY <1>1, <3>2, AppendProperties
          <6>2. \A q \in 1..Len(l) : l[q] = d[a + q - 1]
            BY <4>1, Zenon DEF Piece
          <6>3. a \in Nat /\ a + (Len(l) + 1) - 1 = i + 1
            BY <3>2, <4>1 DEF Piece
          <6>4. QED
            BY <3>2, <6>1, <6>2, <6>3
        <5>3. \A p \in a..(a + Len(l)) : d[p] # NL
          BY <1>5, <3>2, <4>1 DEF Piece
        <5>4. QED
          BY <4>1, <4>2, <5>1, <5>2, <5>3, SMTT(30) DEF Piece
      <4>4. LineOf(d, i + 1, B, k, a)
        <5>1. k = Len(B) /\ a + Len(B[k]) - 1 = i + 1
          <6>1. Len(B[k]) = Len(A[k]) + 1
            BY <4>2, Zenon
          <6>2. Len(A[k]) \in Nat /\ a + Len(A[k]) - 1 = i
            BY <3>2, <4>1
          <6>3. k = Len(B)
            BY <2>2, <3>4, Zenon
          <6>4. a + Len(B[k]) - 1 = i + 1
            BY <6>1, <6>2
          <6>5. QED
            BY <6>3, <6>4
        <5>2. Piece(d, a, B[k]) /\ NLs(d, a - 1) = k - 1
          BY <4>1, <4>2, <4>3, Zenon
        <5>3. QED
          BY <5>1, <5>2, Zenon DEF LineOf
      <4>5. a \in 1..(i + 2)
        BY <1>1
      <4>6. QED
        BY <4>4, <4>5, Zenon
    <3>5. QED
      BY <1>2, <1>3, <2>2, <3>3, <3>4
  <2>5. QED
    BY <2>2, <2>3, <2>4 DEF SplitInv
<1>6. QED
  BY <1>4, <1>5

\* Every prefix of the text is split into its lines.
LEMMA SplitInvariant ==
  ASSUME NEW d \in Seq(Chars)
  PROVE  \A i \in 0..Len(d) : SplitInv(d, i, SplitPrefix(d)[i])
<1> DEFINE SPd == SplitPrefix(d)
           S == {i \in 0..Len(d) : SplitInv(d, i, SPd[i])}
<1>1. 0 \in S
  <2>1. SPd[0] = << << >> >>
    BY SplitPrefixUnfold
  <2>2. LineOf(d, 0, << << >> >>, 1, 1)
    BY NLsZero DEF LineOf, Piece
  <2>3. SplitInv(d, 0, << << >> >>)
    BY <2>2, NLsZero DEF SplitInv
  <2>4. QED
    BY <2>1, <2>3
<1>2. ASSUME NEW i \in 0..(Len(d) - 1), i \in S PROVE i + 1 \in S
  <2>1. SPd[i + 1] = SplitStep(SPd[i], d[i + 1])
    BY SplitPrefixUnfold
  <2>2. SplitInv(d, i + 1, SPd[i + 1])
    BY <1>2, <2>1, SplitStepInv
  <2>3. QED
    BY <2>2
<1>3. Len(d) \in Nat
  OBVIOUS
<1>4. 0..Len(d) \subseteq S
  BY <1>1, <1>2, <1>3, UpTo, Zenon
<1>5. QED
  BY <1>4


\* strings.Split returns one line more than the text has newlines.
LEMMA SplitLen ==
  ASSUME NEW d \in Seq(Chars)
  PROVE  /\ Split(d) \in Seq(Seq(Chars))
         /\ Len(Split(d)) = 1 + Cardinality({i \in DOMAIN d : d[i] = NL})
<1>1. SplitInv(d, Len(d), Split(d))
  BY SplitInvariant DEF Split
<1>2. {i \in DOMAIN d : d[i] = NL} = {j \in 1..Len(d) : d[j] = NL}
  OBVIOUS
<1>3. Split(d) \in Seq(Seq(Chars)) /\ Len(Split(d)) = NLs(d, Len(d)) + 1
  BY <1>1, Zenon DEF SplitInv
<1>4. NLs(d, Len(d)) = Cardinality({i \in DOMAIN d : d[i] = NL})
  BY <1>2, Zenon DEF NLs
<1>5. NLs(d, Len(d)) \in Nat
  BY NLsType
<1>6. Len(Split(d)) = 1 + Cardinality({i \in DOMAIN d : d[i] = NL})
  BY <1>3, <1>4, <1>5
<1>7. QED
  BY <1>3, <1>6

\* Line k of strings.Split is the stretch a..e of the text that the
\* reference calls line k.
LEMMA SplitLines ==
  ASSUME NEW d \in Seq(Chars), NEW k \in 1..Len(Split(d))
  PROVE  \E a \in 1..(Len(d) + 1) :
           /\ Piece(d, a, Split(d)[k])
           /\ LinePos(d, k) = a..(a + Len(Split(d)[k]) - 1)
<1> DEFINE n == Len(d)
           A == Split(d)
           l == A[k]
<1>1. SplitInv(d, n, A)
  BY SplitInvariant DEF Split
<1>2. PICK a \in 1..(n + 1) : LineOf(d, n, A, k, a)
  BY <1>1 DEF SplitInv
<1> DEFINE e == a + Len(l) - 1
<1>3. /\ Piece(d, a, l)
      /\ NLs(d, a - 1) = k - 1
      /\ IF k = Len(A) THEN e = n ELSE e < n /\ d[a + Len(l)] = NL
  BY <1>2, Zenon DEF LineOf
<1>4. /\ l \in Seq(Chars) /\ Len(l) \in Nat /\ n \in Nat
      /\ \A p \in a..e : d[p] # NL
      /\ a = 1 \/ d[a - 1] = NL
  BY <1>3 DEF Piece
<1>5. e <= n
  BY <1>3, <1>4
<1>6. ASSUME NEW p \in a..e PROVE p \in LinePos(d, k)
  <2>1. p \in DOMAIN d /\ d[p] # NL
    BY <1>4, <1>5
  <2>2. NLs(d, p - 1) = NLs(d, a - 1)
    BY <1>4, NLsFlat
  <2>3. QED
    BY <1>3, <2>1, <2>2 DEF LinePos, NLs
<1>7. ASSUME NEW p \in LinePos(d, k) PROVE p \in a..e
  <2>1. p \in 1..n /\ d[p] # NL /\ NLs(d, p - 1) = k - 1
    BY DEF LinePos, NLs
  <2>2. ~(p < a)
    <3> SUFFICES ASSUME p < a PROVE FALSE
      OBVIOUS
    <3>1. d[a - 1] = NL /\ a - 1 \in Nat \ {0} /\ p <= a - 2
      BY <1>4, <2>1
    <3>2. NLs(d, a - 2) + 1 <= NLs(d, a - 1)
      BY <3>1, NLsPast
    <3>3. NLs(d, p - 1) <= NLs(d, a - 2)
      BY <2>1, <3>1, NLsMono
    <3>4. NLs(d, a - 2) \in Nat /\ NLs(d, a - 1) \in Nat /\ NLs(d, p - 1) \in Nat
      BY <3>1, <2>1, NLsType
    <3>5. QED
      BY <1>3, <2>1, <3>2, <3>3, <3>4
  <2>3. ~(p > e)
    <3> SUFFICES ASSUME p > e PROVE FALSE
      OBVIOUS
    <3>1. k # Len(A)
      BY <1>3, <2>1
    <3>2. e < n /\ d[e + 1] = NL
      BY <1>3, <1>4, <3>1
    <3>3. e + 1 \in Nat \ {0} /\ e + 1 <= p - 1
      <4>1. p # e + 1
        BY <2>1, <3>2, Zenon
      <4>2. Len(l) \in Nat /\ n \in Nat
        BY <1>4, Zenon
      <4>3. p \in 1..n
        BY <2>1, Zenon
      <4>4. QED
        BY <4>1, <4>2, <4>3
    <3>4. NLs(d, e) + 1 <= NLs(d, p - 1)
      BY <2>1, <3>2, <3>3, NLsPast
    <3>5. NLs(d, e) = NLs(d, a - 1)
      BY <1>4, NLsFlat
    <3>6. NLs(d, e) \in Nat /\ NLs(d, p - 1) \in Nat
      BY <1>4, <2>1, NLsType
    <3>7. QED
      BY <1>3, <2>1, <3>4, <3>5, <3>6
  <2>4. QED
    BY <2>1, <2>2, <2>3, <1>4
<1>8. QED
  BY <1>3, <1>6, <1>7


-----------------------------------------------------------------------------
(* strings.Fields on the line that starts at a: after j characters, field  *)
(* m starts at the start position of rank m - 1 (a position of the line    *)
(* that is no space and follows a space or the line's start) and runs to   *)
(* the next space, or to the last character read while inField holds.     *)

Starts(d, a, j) == {p \in a..(a + j - 1) : d[p] # SP /\ (p = a \/ d[p - 1] = SP)}

Rank(G, s) == Cardinality({t \in G : t < s})

FieldOf(d, u, st, m, s) ==
  LET f == st.fields[m] IN
  /\ Len(f) \in Nat \ {0}
  /\ \A q \in 1..Len(f) : f[q] = d[s + q - 1]
  /\ \A p \in s..(s + Len(f) - 1) : d[p] # SP
  /\ IF m = Len(st.fields) /\ st.inField
       THEN s + Len(f) - 1 = u
       ELSE s + Len(f) - 1 < u /\ d[s + Len(f)] = SP

FieldsInv(d, a, j, st) ==
  LET G == Starts(d, a, j) IN
  /\ st \in [fields : Seq(Seq(Chars)), inField : BOOLEAN]
  /\ Len(st.fields) = Cardinality(G)
  /\ st.inField <=> (j # 0 /\ d[a + j - 1] # SP)
  /\ st.inField => Len(st.fields) # 0
  /\ \A m \in 1..Len(st.fields) :
       \E s \in G : Rank(G, s) = m - 1 /\ FieldOf(d, a + j - 1, st, m, s)

\* The starts read so far are finitely many positions of the line.
LEMMA StartsFinite ==
  ASSUME NEW d, NEW a \in Int, NEW j \in Int
  PROVE  /\ IsFiniteSet(Starts(d, a, j))
         /\ Starts(d, a, j) \subseteq a..(a + j - 1)
         /\ Cardinality(Starts(d, a, j)) \in Nat
<1>1. IsFiniteSet(a..(a + j - 1))
  BY FS_Interval
<1>2. Starts(d, a, j) \subseteq a..(a + j - 1)
  BY DEF Starts
<1>3. IsFiniteSet(Starts(d, a, j))
  BY <1>1, <1>2, FS_Subset
<1>4. QED
  BY <1>2, <1>3, FS_CardinalityType

\* A character that is a space, or that follows a non-space of the line,
\* starts no field ...
LEMMA StartsSame ==
  ASSUME NEW d, NEW a \in Int, NEW j \in Nat,
         ~(d[a + j] # SP /\ (j = 0 \/ d[a + j - 1] = SP))
  PROVE  Starts(d, a, j + 1) = Starts(d, a, j)
BY DEF Starts

\* ... and any other character does.
LEMMA StartsAdd ==
  ASSUME NEW d, NEW a \in Int, NEW j \in Nat,
         d[a + j] # SP, j = 0 \/ d[a + j - 1] = SP
  PROVE  Starts(d, a, j + 1) = Starts(d, a, j) \cup {a + j}
BY DEF Starts

\* One character keeps the fields of the part of the line read so far.
LEMMA FieldsStepInv ==
  ASSUME NEW d, NEW a \in Nat \ {0}, NEW j \in Nat,
         NEW c \in Chars, d[a + j] = c,
         NEW st, FieldsInv(d, a, j, st),
         NEW st2, st2 = FieldsStep(st, c)
  PROVE  FieldsInv(d, a, j + 1, st2)
<1> DEFINE G == Starts(d, a, j)
           G2 == Starts(d, a, j + 1)
           u == a + j - 1
           F == st.fields
<1>0. a + (j + 1) - 1 = u + 1
  OBVIOUS
<1>1. st \in [fields : Seq(Seq(Chars)), inField : BOOLEAN]
  BY <1>0, Zenon DEF FieldsInv
<1>2. Len(F) = Cardinality(G)
  BY <1>0, Zenon DEF FieldsInv
<1>3. st.inField <=> (j # 0 /\ d[u] # SP)
  BY <1>0, Zenon DEF FieldsInv
<1>4. st.inField => Len(F) # 0
  BY <1>0, Zenon DEF FieldsInv
<1>5. \A m \in 1..Len(F) : \E s \in G : Rank(G, s) = m - 1 /\ FieldOf(d, u, st, m, s)
  BY <1>0, Zenon DEF FieldsInv
<1>6. IsFiniteSet(G) /\ G \subseteq a..u /\ Cardinality(G) \in Nat
  BY StartsFinite
<1>7. F \in Seq(Seq(Chars)) /\ st.inField \in BOOLEAN
  BY <1>1
<1>7b. st.inField \in BOOLEAN
  BY <1>1, Zenon
<1>8. Len(F) \in Nat /\ \A m \in 1..Len(F) : F[m] \in Seq(Chars)
  BY <1>7, LenProperties
<1>9. d[u + 1] = c
  OBVIOUS
<1>10. CASE c = SP
  <2>1. st2 = [st EXCEPT !.inField = FALSE]
    BY <1>10 DEF FieldsStep
  <2>2. st2.fields = F /\ st2.inField = FALSE
    BY <1>1, <2>1
  <2>3. st2 \in [fields : Seq(Seq(Chars)), inField : BOOLEAN]
    BY <1>1, <2>1
  <2>4. G2 = G
    <3>1. ~(d[a + j] # SP /\ (j = 0 \/ d[a + j - 1] = SP))
      BY <1>10
    <3>2. QED
      BY <3>1, StartsSame
  <2>5. ~(j + 1 # 0 /\ d[a + (j + 1) - 1] # SP)
    BY <1>10
  <2>6. ASSUME NEW m \in 1..Len(st2.fields)
        PROVE  \E s \in G2 : Rank(G2, s) = m - 1 /\ FieldOf(d, u + 1, st2, m, s)
    <3>0. m \in 1..Len(F)
      BY <2>2
    <3>1. PICK s \in G : Rank(G, s) = m - 1 /\ FieldOf(d, u, st, m, s)
      BY <1>5, <3>0
    <3>1s. s \in a..u
      BY <1>6
    <3> DEFINE f == F[m]
    <3>2. /\ Len(f) \in Nat \ {0}
          /\ \A q \in 1..Len(f) : f[q] = d[s + q - 1]
          /\ \A p \in s..(s + Len(f) - 1) : d[p] # SP
      BY <3>1, Zenon DEF FieldOf
    <3>3. IF m = Len(F) /\ st.inField
            THEN s + Len(f) - 1 = u
            ELSE s + Len(f) - 1 < u /\ d[s + Len(f)] = SP
      BY <3>1, Zenon DEF FieldOf
    <3>4. s + Len(f) - 1 < u + 1 /\ d[s + Len(f)] = SP
      <4>1. CASE m = Len(F) /\ st.inField
        <5>1. s + Len(f) - 1 = u
          BY <3>3, <4>1, Zenon
        <5>2. s + Len(f) - 1 < u + 1 /\ s + Len(f) = u + 1
          BY <3>1s, <3>2, <5>1
        <5>3. d[s + Len(f)] = SP
          BY <1>9, <1>10, <5>2, Zenon
        <5>4. QED
          BY <5>2, <5>3
      <4>2. CASE ~(m = Len(F) /\ st.inField)
        <5>1. s + Len(f) - 1 < u /\ d[s + Len(f)] = SP
          BY <3>3, <4>2, Zenon
        <5>2. QED
          BY <3>1s, <3>2, <5>1
      <4>3. QED
        BY <4>1, <4>2
    <3>5. FieldOf(d, u + 1, st2, m, s)
      BY <2>2, <3>2, <3>4, Zenon DEF FieldOf
    <3>6. QED
      BY <2>4, <3>1, <3>5
  <2>7. QED
    BY <1>2, <2>2, <2>3, <2>4, <2>5, <2>6, <1>0, Zenon DEF FieldsInv
<1>11. CASE c # SP /\ st.inField
  <2> DEFINE F2 == [F EXCEPT ![Len(F)] = Append(F[Len(F)], c)]
  <2>1. st2 = [st EXCEPT !.fields = F2]
    BY <1>11 DEF FieldsStep
  <2>2. st2.fields = F2 /\ st2.inField = TRUE
    BY <1>1, <1>11, <2>1
  <2>3. /\ F2 \in Seq(Seq(Chars))
        /\ Len(F2) = Len(F)
        /\ \A k \in 1..(Len(F) - 1) : F2[k] = F[k]
        /\ F2[Len(F)] = Append(F[Len(F)], c)
    BY <1>4, <1>7, <1>11, AppendToLast
  <2>3b. /\ Len(F2) = Len(F)
         /\ \A k \in 1..(Len(F) - 1) : F2[k] = F[k]
         /\ F2[Len(F)] = Append(F[Len(F)], c)
    BY <2>3, Zenon
  <2>4. st2 \in [fields : Seq(Seq(Chars)), inField : BOOLEAN]
    BY <1>1, <2>1, <2>3
  <2>5. j # 0 /\ d[u] # SP
    BY <1>3, <1>11
  <2>6. G2 = G
    BY <2>5, StartsSame
  <2>7. j + 1 # 0 /\ d[a + (j + 1) - 1] # SP
    BY <1>11
  <2>8. ASSUME NEW m \in 1..Len(st2.fields)
        PROVE  \E s \in G2 : Rank(G2, s) = m - 1 /\ FieldOf(d, u + 1, st2, m, s)
    <3>0. m \in 1..Len(F) /\ Len(st2.fields) = Len(F)
      BY <2>2, <2>3b
    <3>1. PICK s \in G : Rank(G, s) = m - 1 /\ FieldOf(d, u, st, m, s)
      BY <1>5, <3>0
    <3>1s. s \in a..u
      BY <1>6
    <3> DEFINE f == F[m]
    <3>2. /\ Len(f) \in Nat \ {0}
          /\ \A q \in 1..Len(f) : f[q] = d[s + q - 1]
          /\ \A p \in s..(s + Len(f) - 1) : d[p] # SP
      BY <3>1, Zenon DEF FieldOf
    <3>3. IF m = Len(F) /\ st.inField
            THEN s + Len(f) - 1 = u
            ELSE s + Len(f) - 1 < u /\ d[s + Len(f)] = SP
      BY <3>1, Zenon DEF FieldOf
    <3>4. CASE m # Len(F)
      <4>1. st2.fields[m] = f /\ m # Len(st2.fields)
        BY <2>2, <2>3b, <3>0, <3>4
      <4>2. s + Len(f) - 1 < u + 1 /\ d[s + Len(f)] = SP
        BY <1>7b, <3>1s, <3>2, <3>3, <3>4
      <4>3. FieldOf(d, u + 1, st2, m, s)
        BY <3>2, <4>1, <4>2, Zenon DEF FieldOf
      <4>4. QED
        BY <2>6, <3>1, <4>3
    <3>5. CASE m = Len(F)
      <4>1. f \in Seq(Chars) /\ s + Len(f) - 1 = u
        BY <1>8, <1>11, <3>0, <3>1s, <3>3, <3>5
      <4>2. st2.fields[m] = Append(f, c) /\ m = Len(st2.fields)
        BY <2>2, <2>3b, <3>0, <3>5
      <4>3. /\ Len(Append(f, c)) = Len(f) + 1
            /\ \A q \in 1..Len(f) : Append(f, c)[q] = f[q]
            /\ Append(f, c)[Len(f) + 1] = c
        BY <4>1, AppendProperties
      <4> DEFINE g == st2.fields[m]
      <4>4. Len(g) = Len(f) + 1 /\ g[Len(f) + 1] = c
        BY <4>2, <4>3, Zenon
      <4>5. \A q \in 1..Len(f) : g[q] = d[s + q - 1]
        BY <3>2, <4>2, <4>3, SMTT(30)
      <4>6. d[s + Len(f)] = c
        BY <1>9, <3>1s, <3>2, <4>1
      <4>6a. d[s + Len(f)] # SP /\ g[Len(f) + 1] = d[s + (Len(f) + 1) - 1]
        BY <1>11, <3>1s, <3>2, <4>4, <4>6
      <4>6b. Len(f) \in Nat /\ Len(g) = Len(f) + 1 /\ s \in Int
        BY <3>1s, <3>2, <4>4
      <4>7. \A q \in 1..Len(g) : g[q] = d[s + q - 1]
        <5> SUFFICES ASSUME NEW q \in 1..Len(g) PROVE g[q] = d[s + q - 1]
          OBVIOUS
        <5>1. CASE q <= Len(f)
          BY <4>5, <4>6b, <5>1
        <5>2. CASE q = Len(f) + 1
          BY <4>6a, <5>2
        <5>0. q <= Len(f) \/ q = Len(f) + 1
          BY <4>6b
        <5>3. QED
          BY <5>0, <5>1, <5>2, Zenon
      <4>8. \A p \in s..(s + Len(g) - 1) : d[p] # SP
        <5> SUFFICES ASSUME NEW p \in s..(s + Len(g) - 1) PROVE d[p] # SP
          OBVIOUS
        <5>1. CASE p <= s + Len(f) - 1
          BY <3>2, <4>6b, <5>1
        <5>2. CASE p = s + Len(f)
          BY <4>6a, <5>2
        <5>0. p <= s + Len(f) - 1 \/ p = s + Len(f)
          BY <4>6b, SMTT(40)
        <5>3. QED
          BY <5>0, <5>1, <5>2, Zenon
      <4>9. Len(g) \in Nat \ {0} /\ s + Len(g) - 1 = u + 1
        BY <4>1, <4>6b, SMTT(40)
      <4>10. FieldOf(d, u + 1, st2, m, s)
        BY <2>2, <4>2, <4>7, <4>8, <4>9, Zenon DEF FieldOf
      <4>11. QED
        BY <2>6, <3>1, <4>10
    <3>6. QED
      BY <3>4, <3>5
  <2>9. Len(st2.fields) = Cardinality(G2)
    BY <1>2, <2>2, <2>3b, <2>6
  <2>10. st2.inField <=> (j + 1 # 0 /\ d[a + (j + 1) - 1] # SP)
    BY <2>2, <2>7, Zenon
  <2>11. st2.inField => Len(st2.fields) # 0
    BY <1>4, <1>11, <2>2, <2>3b
  <2>12. QED
    BY <2>4, <2>8, <2>9, <2>10, <2>11, <1>0, Zenon DEF FieldsInv
<1>12. CASE c # SP /\ ~st.inField
  <2> DEFINE F2 == Append(F, <<c>>)
  <2>1. st2 = [fields |-> F2, inField |-> TRUE]
    BY <1>12 DEF FieldsStep
  <2>2. /\ F2 \in Seq(Seq(Chars))
        /\ Len(F2) = Len(F) + 1
        /\ \A k \in 1..Len(F) : F2[k] = F[k]
        /\ F2[Len(F) + 1] = <<c>>
    BY <1>7, AppendProperties
  <2>2a. st2.fields = F2 /\ st2.inField = TRUE
    BY <2>1
  <2>2b. /\ Len(F2) = Len(F) + 1
         /\ \A k \in 1..Len(F) : F2[k] = F[k]
         /\ F2[Len(F) + 1] = <<c>>
    BY <2>2, Zenon
  <2>3. st2 \in [fields : Seq(Seq(Chars)), inField : BOOLEAN]
    BY <2>1, <2>2
  <2>4. j = 0 \/ d[u] = SP
    BY <1>3, <1>12
  <2>5. G2 = G \cup {u + 1}
    <3>1. d[a + j] # SP
      BY <1>9, <1>12
    <3>0. a \in Int /\ j \in Nat
      OBVIOUS
    <3>2. G2 = G \cup {a + j}
      BY <3>0, <3>1, <2>4, StartsAdd, Zenon
    <3>3. QED
      BY <3>2
  <2>6. u + 1 \notin G /\ \A t \in G : t < u + 1
    BY <1>6
  <2>7. Cardinality(G2) = Len(F2)
    BY <1>2, <1>6, <1>8, <2>2b, <2>5, <2>6, FS_AddElement
  <2>8. ASSUME NEW m \in 1..Len(F2)
        PROVE  \E s \in G2 : Rank(G2, s) = m - 1 /\ FieldOf(d, u + 1, st2, m, s)
    <3>1. CASE m <= Len(F)
      <4>0. m \in 1..Len(F) /\ m # Len(F2)
        BY <1>8, <2>2b, <3>1
      <4>1. PICK s \in G : Rank(G, s) = m - 1 /\ FieldOf(d, u, st, m, s)
        BY <1>5, <4>0
      <4>1s. s \in a..u
        BY <1>6
      <4> DEFINE f == F[m]
      <4>2. /\ Len(f) \in Nat \ {0}
            /\ \A q \in 1..Len(f) : f[q] = d[s + q - 1]
            /\ \A p \in s..(s + Len(f) - 1) : d[p] # SP
        BY <4>1, Zenon DEF FieldOf
      <4>3. s + Len(f) - 1 < u /\ d[s + Len(f)] = SP
        BY <4>1, <1>12, Zenon DEF FieldOf
      <4>4. s + Len(f) - 1 < u + 1
        BY <4>1s, <4>2, <4>3
      <4>5. {t \in G2 : t < s} = {t \in G : t < s}
        BY <2>5, <2>6, <4>1s
      <4>6. Rank(G2, s) = m - 1
        BY <4>1, <4>5 DEF Rank
      <4>7. st2.fields[m] = f /\ m # Len(st2.fields)
        BY <2>2a, <2>2b, <4>0, Zenon
      <4>8. FieldOf(d, u + 1, st2, m, s)
        BY <4>2, <4>3, <4>4, <4>7, Zenon DEF FieldOf
      <4>9. s \in G2
        BY <2>5
      <4>10. QED
        BY <4>6, <4>8, <4>9
    <3>2. CASE m = Len(F) + 1
      <4>1. {t \in G2 : t < u + 1} = G
        BY <2>5, <2>6
      <4>2. Rank(G2, u + 1) = m - 1
        <5>1. Rank(G2, u + 1) = Cardinality(G)
          BY <4>1, Zenon DEF Rank
        <5>2. QED
          BY <1>2, <1>8, <3>2, <5>1
      <4>3. st2.fields[m] = <<c>> /\ m = Len(st2.fields) /\ st2.inField
        BY <2>2a, <2>2b, <3>2, Zenon
      <4>4. /\ Len(<<c>>) \in Nat \ {0}
            /\ \A q \in 1..Len(<<c>>) : <<c>>[q] = d[(u + 1) + q - 1]
            /\ \A p \in (u + 1)..((u + 1) + Len(<<c>>) - 1) : d[p] # SP
            /\ (u + 1) + Len(<<c>>) - 1 = u + 1
        BY <1>9, <1>12
      <4>5. FieldOf(d, u + 1, st2, m, u + 1)
        BY <4>3, <4>4, Zenon DEF FieldOf
      <4>6. u + 1 \in G2
        BY <2>5
      <4>7. QED
        BY <4>2, <4>5, <4>6
    <3>3. QED
      BY <1>8, <3>1, <3>2
  <2>9. TRUE <=> (j + 1 # 0 /\ d[a + (j + 1) - 1] # SP)
    BY <1>12
  <2>10. Len(st2.fields) = Cardinality(G2)
    BY <2>2a, <2>7, Zenon
  <2>11. st2.inField <=> (j + 1 # 0 /\ d[a + (j + 1) - 1] # SP)
    BY <2>2a, <2>9, Zenon
  <2>12. st2.inField => Len(st2.fields) # 0
    BY <1>8, <2>2a, <2>2b
  <2>13. \A m \in 1..Len(st2.fields) :
           \E s \in G2 : Rank(G2, s) = m - 1 /\ FieldOf(d, u + 1, st2, m, s)
    BY <2>2a, <2>8, Zenon
  <2>14. QED
    BY <2>3, <2>10, <2>11, <2>12, <2>13, <1>0, Zenon DEF FieldsInv
<1>13. QED
  BY <1>7, <1>10, <1>11, <1>12


\* The scan of a line l that sits at a..(a + Len(l) - 1) of the text keeps
\* the invariant over every prefix of the line.
LEMMA FieldsInvariant ==
  ASSUME NEW d, NEW a \in Nat \ {0}, NEW l \in Seq(Chars),
         \A q \in 1..Len(l) : l[q] = d[a + q - 1]
  PROVE  \A j \in 0..Len(l) : FieldsInv(d, a, j, FieldsPrefix(l)[j])
<1> DEFINE FP == FieldsPrefix(l)
           S == {j \in 0..Len(l) : FieldsInv(d, a, j, FP[j])}
<1>1. 0 \in S
  <2> DEFINE st0 == [fields |-> << >>, inField |-> FALSE]
  <2>1. FP[0] = st0
    BY FieldsPrefixUnfold
  <2>2. Starts(d, a, 0) = {}
    BY DEF Starts
  <2>3. st0 \in [fields : Seq(Seq(Chars)), inField : BOOLEAN]
    OBVIOUS
  <2>4. Len(st0.fields) = Cardinality(Starts(d, a, 0))
    BY <2>2, FS_EmptySet
  <2>5. FieldsInv(d, a, 0, st0)
    BY <2>3, <2>4 DEF FieldsInv
  <2>6. QED
    BY <2>1, <2>5
<1>2. ASSUME NEW j \in 0..(Len(l) - 1), j \in S PROVE j + 1 \in S
  <2>1. FP[j + 1] = FieldsStep(FP[j], l[j + 1])
    BY FieldsPrefixUnfold
  <2>2. l[j + 1] \in Chars /\ d[a + j] = l[j + 1] /\ j \in Nat
    OBVIOUS
  <2>3. FieldsInv(d, a, j + 1, FP[j + 1])
    BY <1>2, <2>1, <2>2, FieldsStepInv
  <2>4. QED
    BY <2>3
<1>3. Len(l) \in Nat
  OBVIOUS
<1>4. 0..Len(l) \subseteq S
  BY <1>1, <1>2, <1>3, UpTo, Zenon
<1>5. QED
  BY <1>4

\* Two starts of a line with as many starts before them are the same.
LEMMA RankInjective ==
  ASSUME NEW G \in SUBSET Int, IsFiniteSet(G), NEW s \in G, NEW t \in G,
         Rank(G, s) = Rank(G, t)
  PROVE  s = t
<1>1. ASSUME NEW x \in G, NEW y \in G, x < y PROVE Rank(G, x) < Rank(G, y)
  <2> DEFINE Bx == {z \in G : z < x}
             By == {z \in G : z < y}
  <2>1. IsFiniteSet(Bx) /\ IsFiniteSet(By)
    <3>1. Bx \subseteq G /\ By \subseteq G
      OBVIOUS
    <3>2. QED
      BY <3>1, FS_Subset, Zenon
  <2>2. \A z \in G : z < x => z < y
    BY <1>1
  <2>3. ~(x < x)
    OBVIOUS
  <2>4. Bx \cup {x} \subseteq By /\ x \notin Bx
    BY <1>1, <2>2, <2>3, Zenon
  <2>5. Cardinality(Bx \cup {x}) = Cardinality(Bx) + 1
    BY <2>1, <2>4, FS_AddElement
  <2>6. Cardinality(Bx \cup {x}) <= Cardinality(By)
    BY <2>1, <2>4, FS_Subset
  <2>7. Cardinality(Bx) \in Nat /\ Cardinality(By) \in Nat
    BY <2>1, FS_CardinalityType
  <2>8. Rank(G, x) = Cardinality(Bx) /\ Rank(G, y) = Cardinality(By)
    BY DEF Rank
  <2>9. QED
    BY <2>5, <2>6, <2>7, <2>8
<1>2. s \in Int /\ t \in Int
  OBVIOUS
<1>3. s < t \/ t < s \/ s = t
  BY <1>2
<1>4. (s < t => Rank(G, s) < Rank(G, t)) /\ (t < s => Rank(G, t) < Rank(G, s))
  BY <1>1, Zenon
<1>5. Rank(G, s) \in Nat
  <2>1. IsFiniteSet({z \in G : z < s})
    BY FS_Subset, Zenon
  <2>2. QED
    BY <2>1, FS_CardinalityType DEF Rank
<1>6. QED
  BY <1>3, <1>4, <1>5


\* A maximal run f of non-spaces starting at s and ending at or before e is
\* "01" exactly when the characters at s and s + 1 are 0 and 1 and the run
\* stops there.
LEMMA Run01 ==
  ASSUME NEW d, NEW f \in Seq(Chars), NEW s \in Int, NEW e \in Int,
         Len(f) \in Nat \ {0},
         \A q \in 1..Len(f) : f[q] = d[s + q - 1],
         \A p \in s..(s + Len(f) - 1) : d[p] # SP,
         s + Len(f) - 1 <= e,
         s + Len(f) - 1 = e \/ d[s + Len(f)] = SP
  PROVE  f = <<"0", "1">> <=>
           /\ d[s] = "0" /\ s + 1 <= e /\ d[s + 1] = "1"
           /\ (s + 2 > e \/ d[s + 2] = SP)
<1> DEFINE L == Len(f)
<1>1. ASSUME f = <<"0", "1">>
      PROVE  /\ d[s] = "0" /\ s + 1 <= e /\ d[s + 1] = "1"
             /\ (s + 2 > e \/ d[s + 2] = SP)
  <2>1. L = 2 /\ f[1] = "0" /\ f[2] = "1"
    BY <1>1
  <2>2. QED
    BY <2>1
<1>2. ASSUME d[s] = "0", s + 1 <= e, d[s + 1] = "1", s + 2 > e \/ d[s + 2] = SP
      PROVE  f = <<"0", "1">>
  <2>1. L # 1
    BY <1>2 DEF SP
  <2>2. ~(L >= 3)
    <3>1. SUFFICES ASSUME L >= 3 PROVE FALSE
      OBVIOUS
    <3>2. s + 2 \in s..(s + L - 1) /\ s + 2 <= e
      BY <3>1
    <3>3. QED
      BY <3>2, <1>2
  <2>3. L = 2
    <3>1. L \in Nat \ {0}
      OBVIOUS
    <3>2. \A x \in Nat \ {0} : x # 1 /\ ~(x >= 3) => x = 2
      OBVIOUS
    <3>3. QED
      BY <2>1, <2>2, <3>1, <3>2, Zenon
  <2>4. f[1] = "0" /\ f[2] = "1"
    <3>1. 1 \in 1..L /\ 2 \in 1..L
      BY <2>3
    <3>2. f[1] = d[s + 1 - 1] /\ f[2] = d[s + 2 - 1]
      BY <3>1, Zenon
    <3>3. s + 1 - 1 = s /\ s + 2 - 1 = s + 1
      OBVIOUS
    <3>4. QED
      BY <3>2, <3>3, <1>2, Zenon
  <2>5. <<"0", "1">> \in Seq(Chars) /\ Len(<<"0", "1">>) = 2
    BY DEF Chars
  <2>6. \A i \in 1..L : f[i] = <<"0", "1">>[i]
    BY <2>3, <2>4
  <2>7. QED
    BY <2>3, <2>5, <2>6, SeqEqual
<1>3. QED
  BY <1>1, <1>2

\* A line l found at a..(a + Len(l) - 1): its fields are the reference's
\* field starts, and its fourth field is "01" exactly when the reference
\* says so.
LEMMA LineFields ==
  ASSUME NEW d, NEW k, NEW a \in Nat \ {0}, NEW l \in Seq(Chars),
         \A q \in 1..Len(l) : l[q] = d[a + q - 1],
         LinePos(d, k) = a..(a + Len(l) - 1)
  PROVE  /\ Fields(l) \in Seq(Seq(Chars))
         /\ Len(Fields(l)) = Cardinality(FieldStarts(d, k))
         /\ Len(Fields(l)) >= 4 =>
              (Fields(l)[4] = <<"0", "1">> <=> FourthIs01(d, k))
<1> DEFINE n == Len(l)
           e == a + n - 1
           st == FieldsPrefix(l)[n]
           F == st.fields
           G == Starts(d, a, n)
<1>1. FieldsInv(d, a, n, st)
  <2>1. n \in 0..Len(l)
    OBVIOUS
  <2>2. QED
    BY <2>1, FieldsInvariant
<1>2. FieldStarts(d, k) = G
  BY DEF FieldStarts, Starts
<1>3. F = Fields(l)
  BY DEF Fields
<1>4. F \in Seq(Seq(Chars)) /\ Len(F) = Cardinality(G)
  BY <1>1, Zenon DEF FieldsInv
<1>5. IsFiniteSet(G) /\ G \subseteq a..e
  BY StartsFinite
<1>6. ASSUME Len(F) >= 4 PROVE F[4] = <<"0", "1">> <=> FourthIs01(d, k)
  <2>1. 4 \in 1..Len(F) /\ 4 - 1 = 3
    BY <1>4, <1>6
  <2>2. \A m \in 1..Len(F) : \E s \in G : Rank(G, s) = m - 1 /\ FieldOf(d, e, st, m, s)
    BY <1>1, Zenon DEF FieldsInv
  <2>3. PICK s \in G : Rank(G, s) = 3 /\ FieldOf(d, e, st, 4, s)
    BY <2>1, <2>2, Zenon
  <2> DEFINE f == F[4]
             L == Len(f)
  <2>4. f \in Seq(Chars) /\ s \in a..e
    BY <1>4, <1>5, <2>1, ElementOfSeq
  <2>5. /\ L \in Nat \ {0}
        /\ \A q \in 1..L : f[q] = d[s + q - 1]
        /\ \A p \in s..(s + L - 1) : d[p] # SP
        /\ s + L - 1 <= e
        /\ s + L - 1 = e \/ d[s + L] = SP
    <3>1. FieldOf(d, e, st, 4, s)
      BY <2>3
    <3>2. /\ L \in Nat \ {0}
          /\ \A q \in 1..L : f[q] = d[s + q - 1]
          /\ \A p \in s..(s + L - 1) : d[p] # SP
      BY <3>1, Zenon DEF FieldOf
    <3>3. s + L - 1 = e \/ (s + L - 1 < e /\ d[s + L] = SP)
      BY <3>1, Zenon DEF FieldOf
    <3>4. s \in Int /\ e \in Int
      BY <2>4
    <3>5. QED
      BY <3>2, <3>3, <3>4, SMTT(30)
  <2>6. f = <<"0", "1">> <=>
          /\ d[s] = "0" /\ s + 1 <= e /\ d[s + 1] = "1"
          /\ (s + 2 > e \/ d[s + 2] = SP)
    <3>1. s \in Int /\ e \in Int
      BY <2>4
    <3> HIDE DEF f, e
    <3>2. QED
      BY <2>4, <2>5, <3>1, Run01, ZenonT(60)
  <2>7. Cardinality({t \in FieldStarts(d, k) : t < s}) = 3 /\ s \in FieldStarts(d, k)
    BY <2>3, <1>2 DEF Rank
  <2>8. ASSUME f = <<"0", "1">> PROVE FourthIs01(d, k)
    <3>1. /\ d[s] = "0" /\ s + 1 \in LinePos(d, k) /\ d[s + 1] = "1"
          /\ (s + 2 \notin LinePos(d, k) \/ d[s + 2] = SP)
      BY <2>4, <2>6, <2>8
    <3>2. QED
      BY <2>7, <3>1 DEF FourthIs01
  <2>9. ASSUME FourthIs01(d, k) PROVE f = <<"0", "1">>
    <3>1. PICK s2 \in G :
            /\ Rank(G, s2) = 3
            /\ d[s2] = "0" /\ s2 + 1 \in a..e /\ d[s2 + 1] = "1"
            /\ (s2 + 2 \notin a..e \/ d[s2 + 2] = SP)
      BY <2>9, <1>2 DEF FourthIs01, Rank
    <3>2. s2 = s
      BY <3>1, <2>3, <1>5, RankInjective
    <3>3. /\ d[s] = "0" /\ s + 1 <= e /\ d[s + 1] = "1"
          /\ (s + 2 > e \/ d[s + 2] = SP)
      BY <3>1, <3>2, <2>4
    <3>4. QED
      BY <3>3, <2>6
  <2>10. QED
    BY <2>8, <2>9
<1>7. QED
  BY <1>2, <1>3, <1>4, <1>6


\* Line k of strings.Split(data, "\n"): what strings.Fields makes of it is
\* what the reference reads off the positions of line k.
LEMMA SplitLineFields ==
  ASSUME NEW d \in Seq(Chars), NEW k \in 1..Len(Split(d))
  PROVE  /\ Fields(Split(d)[k]) \in Seq(Seq(Chars))
         /\ Len(Fields(Split(d)[k])) = Cardinality(FieldStarts(d, k))
         /\ Len(Fields(Split(d)[k])) >= 4 =>
              (Fields(Split(d)[k])[4] = <<"0", "1">> <=> FourthIs01(d, k))
<1>1. PICK a \in 1..(Len(d) + 1) :
        /\ Piece(d, a, Split(d)[k])
        /\ LinePos(d, k) = a..(a + Len(Split(d)[k]) - 1)
  BY SplitLines
<1>2. /\ a \in Nat \ {0}
      /\ Split(d)[k] \in Seq(Chars)
      /\ \A q \in 1..Len(Split(d)[k]) : Split(d)[k][q] = d[a + q - 1]
  BY <1>1, Zenon DEF Piece
<1>3. QED
  BY <1>1, <1>2, LineFields

-----------------------------------------------------------------------------
(* The loop over lines[1:]: after m lines, the counts are those of the     *)
(* reference over lines 2..m + 1.                                          *)

ActiveLines(d, m) ==
  {k \in 2..(m + 1) : Cardinality(FieldStarts(d, k)) >= 4 /\ FourthIs01(d, k)}

IdleLines(d, m) ==
  {k \in 2..(m + 1) : Cardinality(FieldStarts(d, k)) >= 4 /\ ~FourthIs01(d, k)}

CountInv(d, m, st) ==
  st = [Active |-> Cardinality(ActiveLines(d, m)),
        Idle |-> Cardinality(IdleLines(d, m)), none |-> FALSE]

LEMMA LinesFinite ==
  ASSUME NEW d, NEW m \in Nat
  PROVE  /\ IsFiniteSet(ActiveLines(d, m)) /\ Cardinality(ActiveLines(d, m)) \in Nat
         /\ IsFiniteSet(IdleLines(d, m)) /\ Cardinality(IdleLines(d, m)) \in Nat
<1>1. IsFiniteSet(2..(m + 1))
  BY FS_Interval
<1>2. ActiveLines(d, m) \subseteq 2..(m + 1) /\ IdleLines(d, m) \subseteq 2..(m + 1)
  BY DEF ActiveLines, IdleLines
<1>3. IsFiniteSet(ActiveLines(d, m)) /\ IsFiniteSet(IdleLines(d, m))
  BY <1>1, <1>2, FS_Subset
<1>4. QED
  BY <1>3, FS_CardinalityType

\* Incrementing the active count of a TCPStats record ...
LEMMA IncActive ==
  ASSUME NEW x, NEW y, NEW z
  PROVE  [[Active |-> x, Idle |-> y, none |-> z] EXCEPT !.Active = @ + 1]
           = [Active |-> x + 1, Idle |-> y, none |-> z]
<1> DEFINE r == [[Active |-> x, Idle |-> y, none |-> z] EXCEPT !.Active = @ + 1]
<1>1. DOMAIN r = {"Active", "Idle", "none"} /\ r.Active = x + 1 /\ r.Idle = y /\ r.none = z
  OBVIOUS
<1>2. QED
  BY <1>1

\* ... and the idle count.
LEMMA IncIdle ==
  ASSUME NEW x, NEW y, NEW z
  PROVE  [[Active |-> x, Idle |-> y, none |-> z] EXCEPT !.Idle = @ + 1]
           = [Active |-> x, Idle |-> y + 1, none |-> z]
<1> DEFINE r == [[Active |-> x, Idle |-> y, none |-> z] EXCEPT !.Idle = @ + 1]
<1>1. DOMAIN r = {"Active", "Idle", "none"} /\ r.Active = x /\ r.Idle = y + 1 /\ r.none = z
  OBVIOUS
<1>2. QED
  BY <1>1

\* The loop body on one line: skip it, count it active, or count it idle.
LEMMA CountLineCases ==
  ASSUME NEW st, NEW line, NEW n, NEW fo,
         Len(Fields(line)) \in Nat, Len(Fields(line)) = n,
         Len(Fields(line)) >= 4 => (Fields(line)[4] = <<"0", "1">> <=> fo)
  PROVE  CountLine(st, line) =
           IF n >= 4 THEN IF fo THEN [st EXCEPT !.Active = @ + 1]
                                ELSE [st EXCEPT !.Idle = @ + 1]
                     ELSE st
BY DEF CountLine

\* One turn of the loop body on line m + 2 keeps the counts.
LEMMA CountStepInv ==
  ASSUME NEW d, NEW m \in Nat, NEW st, CountInv(d, m, st), NEW st2,
         st2 = IF Cardinality(FieldStarts(d, m + 2)) >= 4
                 THEN IF FourthIs01(d, m + 2) THEN [st EXCEPT !.Active = @ + 1]
                                              ELSE [st EXCEPT !.Idle = @ + 1]
                 ELSE st
  PROVE  CountInv(d, m + 1, st2)
<1> DEFINE k == m + 2
           C == Cardinality(FieldStarts(d, k)) >= 4
           Fo == FourthIs01(d, k)
           A0 == ActiveLines(d, m)
           A1 == ActiveLines(d, m + 1)
           I0 == IdleLines(d, m)
           I1 == IdleLines(d, m + 1)
<1>1. /\ A1 = IF C /\ Fo THEN A0 \cup {k} ELSE A0
      /\ I1 = IF C /\ ~Fo THEN I0 \cup {k} ELSE I0
      /\ k \notin A0 /\ k \notin I0
  BY DEF ActiveLines, IdleLines
<1>2. /\ IsFiniteSet(A0) /\ Cardinality(A0) \in Nat
      /\ IsFiniteSet(I0) /\ Cardinality(I0) \in Nat
  BY LinesFinite
<1>3. st = [Active |-> Cardinality(A0), Idle |-> Cardinality(I0), none |-> FALSE]
  BY DEF CountInv
<1>4. CASE ~C
  <2>1. st2 = st /\ A1 = A0 /\ I1 = I0
    BY <1>1, <1>4
  <2>2. QED
    BY <1>3, <2>1 DEF CountInv
<1>5. CASE C /\ Fo
  <2>1. st2 = [st EXCEPT !.Active = @ + 1] /\ A1 = A0 \cup {k} /\ I1 = I0
    BY <1>1, <1>5
  <2>2. Cardinality(A1) = Cardinality(A0) + 1
    BY <1>1, <1>2, <2>1, FS_AddElement
  <2>3. st2 = [Active |-> Cardinality(A0) + 1, Idle |-> Cardinality(I0), none |-> FALSE]
    BY <1>3, <2>1, IncActive
  <2>4. QED
    BY <2>1, <2>2, <2>3 DEF CountInv
<1>6. CASE C /\ ~Fo
  <2>1. st2 = [st EXCEPT !.Idle = @ + 1] /\ I1 = I0 \cup {k} /\ A1 = A0
    BY <1>1, <1>6
  <2>2. Cardinality(I1) = Cardinality(I0) + 1
    BY <1>1, <1>2, <2>1, FS_AddElement
  <2>3. st2 = [Active |-> Cardinality(A0), Idle |-> Cardinality(I0) + 1, none |-> FALSE]
    BY <1>3, <2>1, IncIdle
  <2>4. QED
    BY <2>1, <2>2, <2>3 DEF CountInv
<1>7. QED
  BY <1>4, <1>5, <1>6


\* The lines after the first: there are as many as the text has newlines,
\* and line i of them is line i + 1 of the text.
LEMMA TailLines ==
  ASSUME NEW d \in Seq(Chars)
  PROVE  /\ Tail(Split(d)) \in Seq(Seq(Chars))
         /\ Len(Tail(Split(d))) = Cardinality({i \in DOMAIN d : d[i] = NL})
         /\ Cardinality({i \in DOMAIN d : d[i] = NL}) \in Nat
         /\ \A i \in 1..Len(Tail(Split(d))) : Tail(Split(d))[i] = Split(d)[i + 1]
<1> DEFINE A == Split(d)
           N == Cardinality({i \in DOMAIN d : d[i] = NL})
<1>1. A \in Seq(Seq(Chars)) /\ Len(A) = 1 + N
  BY SplitLen
<1>2. N \in Nat
  <2>1. IsFiniteSet(1..Len(d))
    BY FS_Interval
  <2>2. {i \in DOMAIN d : d[i] = NL} \subseteq 1..Len(d)
    OBVIOUS
  <2>3. QED
    BY <2>1, <2>2, FS_Subset, FS_CardinalityType
<1>3. A # << >>
  <2>1. Len(A) # 0
    BY <1>1, <1>2
  <2>2. QED
    BY <2>1
<1>4. /\ Tail(A) \in Seq(Seq(Chars))
      /\ Len(Tail(A)) = Len(A) - 1
      /\ \A i \in 1..Len(Tail(A)) : Tail(A)[i] = A[i + 1]
  BY <1>1, <1>3, HeadTailProperties, Zenon
<1>5. Len(Tail(A)) = N
  <2>1. Len(A) = 1 + N /\ Len(Tail(A)) = Len(A) - 1
    BY <1>1, <1>4, Zenon
  <2>2. QED
    BY <2>1, <1>2
<1>6. QED
  BY <1>2, <1>4, <1>5, Zenon

\* Line i of lines[1:] is line i + 1 of the text, with what the reference
\* says of that line.
LEMMA TailLineFields ==
  ASSUME NEW d \in Seq(Chars), NEW i \in 1..Len(Tail(Split(d)))
  PROVE  /\ Len(Fields(Tail(Split(d))[i])) \in Nat
         /\ Len(Fields(Tail(Split(d))[i])) = Cardinality(FieldStarts(d, i + 1))
         /\ Len(Fields(Tail(Split(d))[i])) >= 4 =>
              (Fields(Tail(Split(d))[i])[4] = <<"0", "1">> <=> FourthIs01(d, i + 1))
<1> DEFINE A == Split(d)
<1>1. Tail(A)[i] = A[i + 1]
  BY TailLines, Zenon
<1>2. i + 1 \in 1..Len(A)
  <2>1. Len(Tail(A)) = Cardinality({j \in DOMAIN d : d[j] = NL})
        /\ Cardinality({j \in DOMAIN d : d[j] = NL}) \in Nat
    BY TailLines, Zenon
  <2>2. Len(A) = 1 + Cardinality({j \in DOMAIN d : d[j] = NL})
    BY SplitLen, Zenon
  <2>3. QED
    BY <2>1, <2>2
<1>3. /\ Fields(A[i + 1]) \in Seq(Seq(Chars))
      /\ Len(Fields(A[i + 1])) = Cardinality(FieldStarts(d, i + 1))
      /\ Len(Fields(A[i + 1])) >= 4 =>
           (Fields(A[i + 1])[4] = <<"0", "1">> <=> FourthIs01(d, i + 1))
  BY <1>2, SplitLineFields
<1>4. Len(Fields(A[i + 1])) \in Nat
  <2>1. Fields(A[i + 1]) \in Seq(Seq(Chars))
    BY <1>3, Zenon
  <2>2. QED
    BY <2>1, LenProperties, Zenon
<1>5. QED
  BY <1>1, <1>3, <1>4, Zenon

\* The loop over lines, each line i of which the reference sees as line
\* i + 1 of the text, counts after m lines the reference's lines 2..m + 1.
LEMMA CountInvariant ==
  ASSUME NEW d, NEW T, Len(T) \in Nat,
         \A i \in 1..Len(T) :
           /\ Len(Fields(T[i])) \in Nat
           /\ Len(Fields(T[i])) = Cardinality(FieldStarts(d, i + 1))
           /\ Len(Fields(T[i])) >= 4 =>
                (Fields(T[i])[4] = <<"0", "1">> <=> FourthIs01(d, i + 1))
  PROVE  \A m \in 0..Len(T) :
           CountInv(d, m, CountPrefix([Active |-> 0, Idle |-> 0, none |-> FALSE], T)[m])
<1> DEFINE zero == [Active |-> 0, Idle |-> 0, none |-> FALSE]
           P == CountPrefix(zero, T)
           S == {m \in 0..Len(T) : CountInv(d, m, P[m])}
<1>1. 0 \in S
  <2>1. P[0] = zero
    BY CountPrefixUnfold
  <2>2. ActiveLines(d, 0) = {} /\ IdleLines(d, 0) = {}
    BY DEF ActiveLines, IdleLines
  <2>3. CountInv(d, 0, zero)
    BY <2>2, FS_EmptySet DEF CountInv
  <2>4. QED
    BY <2>1, <2>3
<1>2. ASSUME NEW m \in 0..(Len(T) - 1), m \in S PROVE m + 1 \in S
  <2> DEFINE line == T[m + 1]
  <2>1. m + 1 \in 1..Len(T) /\ m \in Nat /\ m + 1 + 1 = m + 2
    OBVIOUS
  <2>2. P[m + 1] = CountLine(P[m], line)
    BY <2>1, CountPrefixStep
  <2>3. /\ Len(Fields(line)) \in Nat
        /\ Len(Fields(line)) = Cardinality(FieldStarts(d, m + 2))
        /\ Len(Fields(line)) >= 4 =>
             (Fields(line)[4] = <<"0", "1">> <=> FourthIs01(d, m + 2))
    <3>1. /\ Len(Fields(line)) \in Nat
          /\ Len(Fields(line)) = Cardinality(FieldStarts(d, m + 1 + 1))
          /\ Len(Fields(line)) >= 4 =>
               (Fields(line)[4] = <<"0", "1">> <=> FourthIs01(d, m + 1 + 1))
      BY <2>1, Zenon
    <3>2. QED
      BY <3>1, <2>1, Zenon
  <2>4. CountLine(P[m], line) =
          IF Cardinality(FieldStarts(d, m + 2)) >= 4
            THEN IF FourthIs01(d, m + 2) THEN [P[m] EXCEPT !.Active = @ + 1]
                                         ELSE [P[m] EXCEPT !.Idle = @ + 1]
            ELSE P[m]
    BY <2>3, CountLineCases
  <2>5. CountInv(d, m + 1, P[m + 1])
    BY <1>2, <2>1, <2>2, <2>4, CountStepInv
  <2>6. QED
    BY <2>1, <2>5
<1>3. 0..Len(T) \subseteq S
  BY <1>1, <1>2, UpTo, Zenon
<1>4. QED
  BY <1>3


\* What startTCPMonitoring computes from the text of /proc/net/tcp is the
\* reference's count of active and idle connections.
LEMMA StatsIsRef ==
  ASSUME NEW d \in Seq(Chars)
  PROVE  Stats(d) = RefStats(d)
<1> DEFINE T == Tail(Split(d))
           N == Cardinality({i \in DOMAIN d : d[i] = NL})
           zero == [Active |-> 0, Idle |-> 0, none |-> FALSE]
<1>1. Len(T) = N /\ N \in Nat
  BY TailLines, Zenon
<1>2. ASSUME NEW i \in 1..Len(T)
      PROVE  /\ Len(Fields(T[i])) \in Nat
             /\ Len(Fields(T[i])) = Cardinality(FieldStarts(d, i + 1))
             /\ Len(Fields(T[i])) >= 4 =>
                  (Fields(T[i])[4] = <<"0", "1">> <=> FourthIs01(d, i + 1))
  BY TailLineFields
<1>3. Stats(d) = CountPrefix(zero, T)[Len(T)]
  BY DEF Stats
<1> HIDE DEF T
<1>4. CountInv(d, Len(T), CountPrefix(zero, T)[Len(T)])
  <2>1. Len(T) \in Nat
    BY <1>1
  <2>2. Len(T) \in 0..Len(T)
    BY <2>1
  <2>3. QED
    BY <1>2, <2>1, <2>2, CountInvariant
<1>5. Stats(d) = [Active |-> Cardinality(ActiveLines(d, N)),
                  Idle |-> Cardinality(IdleLines(d, N)), none |-> FALSE]
  BY <1>1, <1>3, <1>4 DEF CountInv
<1>6. \A M \in Nat :
        /\ ActiveLines(d, M) =
             {k \in {k \in 2..(1 + M) : Cardinality(FieldStarts(d, k)) >= 4} : FourthIs01(d, k)}
        /\ IdleLines(d, M) =
             {k \in {k \in 2..(1 + M) : Cardinality(FieldStarts(d, k)) >= 4} : ~FourthIs01(d, k)}
  BY DEF ActiveLines, IdleLines
<1>7. QED
  BY <1>1, <1>5, <1>6 DEF RefStats


-----------------------------------------------------------------------------
(* The monitor's log.                                                      *)

\* The inductive invariant: the file last read is a text over Chars, and a
\* logged report is what the loop of startTCPMonitoring computed from it.
ReportIsStats ==
  /\ file \in Seq(Chars)
  /\ report # NoReport => report = Stats(file)

\* Every step keeps it: ticks, cancellation, the return and a failed read
\* leave file and report alone, and a tick that reads data logs Stats(data).
LEMMA ReportIsStatsInductive ==
  Init /\ [][Next]_vars => []ReportIsStats
<1>1. Init => ReportIsStats
  BY DEF Init, ReportIsStats
<1>2. ReportIsStats /\ [Next]_vars => ReportIsStats'
  <2> SUFFICES ASSUME ReportIsStats, [Next]_vars PROVE ReportIsStats'
    OBVIOUS
  <2>1. CASE \E d \in Files : Monitor(d)
    <3>1. PICK d \in Files : Monitor(d)
      BY <2>1
    <3>2. d \in Seq(Chars)
      BY FilesAssumption
    <3>3. file' = d /\ report' = Stats(d)
      BY <3>1 DEF Monitor
    <3>4. QED
      BY <3>2, <3>3 DEF ReportIsStats
  <2>2. CASE UNCHANGED <<file, report>>
    BY <2>2 DEF ReportIsStats
  <2>3. QED
    BY <2>1, <2>2 DEF Next, Tick, Cancel, Stop, ReadFails, vars
<1>3. QED
  BY <1>1, <1>2, PTL

\* Every count startTCPMonitoring logs is the reference count of the
\* established and the other connection lines of the file it read, for
\* every content /proc/net/tcp may have: the property the tcp_monitor run
\* checks on a header and up to two sample lines.
THEOREM ReportCorrect == Spec => []ReportMatchesReference
<1>1. ReportIsStats => ReportMatchesReference
  BY StatsIsRef DEF ReportIsStats, ReportMatchesReference
<1>2. QED
  BY <1>1, ReportIsStatsInductive, PTL DEF Spec

====
