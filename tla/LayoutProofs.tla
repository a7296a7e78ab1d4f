---------------------------- MODULE LayoutProofs ----------------------------
(***************************************************************************)
(* Proofs about layouts: what the parts that are added to one hold, and    *)
(* that every read gives what the whole virtual file has there.  Induction *)
(* is done over sets, and what recursive functions are is shown first.     *)
(***************************************************************************)
EXTENDS Layout, WellFoundedInduction, SequenceTheorems, TLAPS

-----------------------------------------------------------------------------
(* Induction and recursion over numbers and sequences.                       *)

LEMMA LessWellFounded == IsWellFoundedOn({p \in Nat \X Nat : p[1] < p[2]}, Nat)
BY NatLessThanWellFounded DEF OpToRel

LEMMA LeastNumber ==
  ASSUME NEW S \in SUBSET Nat, S # {}
  PROVE  \E n \in S : \A m \in S : n <= m
<1>1. \E n \in S : \A m \in S : ~(<<m, n>> \in {p \in Nat \X Nat : p[1] < p[2]})
  BY LessWellFounded, WFMin
<1>2. ASSUME NEW m \in Nat, NEW n \in Nat, ~(<<m, n>> \in {p \in Nat \X Nat : p[1] < p[2]}) PROVE n <= m
  BY <1>2
<1> QED BY <1>1, <1>2

LEMMA SetInduction ==
  ASSUME NEW S, 0 \in S, \A n \in Nat : n \in S => n + 1 \in S
  PROVE  Nat \subseteq S
<1> SUFFICES ASSUME Nat \ S # {} PROVE FALSE OBVIOUS
<1>1. PICK n \in Nat \ S : \A m \in Nat \ S : n <= m
  BY LeastNumber, Nat \ S \in SUBSET Nat
<1>2. n # 0 /\ n - 1 \in Nat OBVIOUS
<1>3. n - 1 \in S BY <1>1, <1>2
<1> QED BY <1>2, <1>3, n - 1 + 1 = n

LEMMA DownwardInduction ==
  ASSUME NEW S, NEW m \in Int, NEW n \in Int,
         \A p \in m..n : ((p + 1)..n \subseteq S) => p \in S
  PROVE  m..n \subseteq S
<1> DEFINE T == {k \in Nat : \A p \in m..n : n - p < k => p \in S}
<1>1. 0 \in T OBVIOUS
<1>2. ASSUME NEW k \in Nat, k \in T PROVE k + 1 \in T
  <2> SUFFICES ASSUME NEW p \in m..n, n - p < k + 1 PROVE p \in S OBVIOUS
  <2>1. \A q \in (p + 1)..n : q \in m..n /\ n - q < k OBVIOUS
  <2>2. (p + 1)..n \subseteq S BY <2>1, <1>2
  <2> QED BY <2>2
<1> HIDE DEF T
<1>3. Nat \subseteq T BY <1>1, <1>2, SetInduction
<1>4. ASSUME NEW p \in m..n PROVE p \in S
  <2>1. n - p + 1 \in Nat OBVIOUS
  <2>2. n - p + 1 \in T BY <1>3, <2>1
  <2> QED BY <2>2 DEF T
<1> QED BY <1>4

LEMMA AppendInduction ==
  ASSUME NEW T, NEW P, <<>> \in P,
         \A s \in Seq(T) : \A e \in T : s \in P => Append(s, e) \in P
  PROVE  Seq(T) \subseteq P
<1> DEFINE S == {n \in Nat : \A s \in Seq(T) : Len(s) = n => s \in P}
<1>1. 0 \in S
  <2>1. \A s \in Seq(T) : Len(s) = 0 => s = <<>> BY EmptySeq
  <2> QED BY <2>1
<1>2. ASSUME NEW n \in Nat, n \in S PROVE n + 1 \in S
  <2> SUFFICES ASSUME NEW s \in Seq(T), Len(s) = n + 1 PROVE s \in P OBVIOUS
  <2>1. s # <<>> OBVIOUS
  <2>2. PICK t \in Seq(T), e \in T : s = Append(t, e) BY <2>1, SequenceEmptyOrAppend
  <2>3. Len(t) = n BY <2>2
  <2>4. t \in P BY <2>3, <1>2
  <2> QED BY <2>2, <2>4
<1> HIDE DEF S
<1>3. Nat \subseteq S BY <1>1, <1>2, SetInduction
<1>4. ASSUME NEW s \in Seq(T) PROVE s \in P
  <2>1. Len(s) \in S BY <1>3
  <2> QED BY <2>1 DEF S
<1> QED BY <1>4

\* Over a range of numbers, from its first one on.
Within(m, n, S) == \A i \in m..n : i \in S

LEMMA RangeInduction ==
  ASSUME NEW S, NEW m, NEW n, m \in Int, n \in Int,
         m <= n => m \in S,
         \A i \in m..n : i > m /\ i - 1 \in S => i \in S
  PROVE  Within(m, n, S)
<1> DEFINE T == {k \in Nat : m + k <= n => m + k \in S}
<1>1. 0 \in T OBVIOUS
<1>2. ASSUME NEW k \in Nat, k \in T PROVE k + 1 \in T
  <2> SUFFICES ASSUME m + k + 1 <= n PROVE m + k + 1 \in S OBVIOUS
  <2>1. m + k + 1 \in m..n /\ m + k + 1 > m /\ (m + k + 1) - 1 = m + k OBVIOUS
  <2> QED BY <1>2, <2>1
<1> HIDE DEF T
<1>3. Nat \subseteq T BY <1>1, <1>2, SetInduction
<1>4. ASSUME NEW i \in m..n PROVE i \in S
  <2>1. i - m \in Nat /\ m + (i - m) = i OBVIOUS
  <2>2. i - m \in T BY <1>3, <2>1
  <2> QED BY <2>1, <2>2 DEF T
<1> QED BY <1>4 DEF Within

\* There is a function on m..n that starts with c and goes on by its steps.
Recursive(T, m, n, c, step) ==
  \E g \in [m..n -> T] : \A i \in m..n : g[i] = IF i = m THEN c ELSE step[i][g[i - 1]]

LEMMA FiniteRecursion ==
  ASSUME NEW T, NEW m, NEW n, NEW c, NEW step,
         m \in Int, n \in Int, c \in T, step \in [m..n -> [T -> T]]
  PROVE  Recursive(T, m, n, c, step)
<1> DEFINE Follows(g, k) == \A i \in m..k : g[i] = IF i = m THEN c ELSE step[i][g[i - 1]]
           S == {k \in m..n : \E g \in [m..k -> T] : Follows(g, k)}
<1>1. m <= n => m \in S
  <2> DEFINE g == [i \in m..m |-> c]
  <2>1. g \in [m..m -> T] /\ Follows(g, m) OBVIOUS
  <2> HIDE DEF g
  <2> QED BY <2>1
<1>2. ASSUME NEW k \in m..n, k > m, k - 1 \in S PROVE k \in S
  <2>1. PICK g \in [m..(k - 1) -> T] : Follows(g, k - 1) BY <1>2
  <2> DEFINE h == [i \in m..k |-> IF i = k THEN step[k][g[k - 1]] ELSE g[i]]
  <2>2. step[k][g[k - 1]] \in T BY <1>2
  <2>3. h \in [m..k -> T] BY <2>2
  <2>4. ASSUME NEW i \in m..k PROVE h[i] = IF i = m THEN c ELSE step[i][h[i - 1]]
    <3>1. CASE i = k
      <4>1. h[i - 1] = g[k - 1] BY <3>1, <1>2
      <4> QED BY <4>1, <3>1, <1>2
    <3>2. CASE i \in m..(k - 1)
      <4>1. h[i] = g[i] BY <3>2
      <4>2. i # m => h[i - 1] = g[i - 1] BY <3>2
      <4> QED BY <4>1, <4>2, <3>2, <2>1
    <3> QED BY <3>1, <3>2
  <2> HIDE DEF h
  <2> QED BY <2>3, <2>4
<1> HIDE DEF S
<1>3. Within(m, n, S) BY <1>1, <1>2, RangeInduction
<1>4. CASE m <= n
  <2>1. n \in S BY <1>3, <1>4 DEF Within
  <2> QED BY <2>1 DEF S, Recursive
<1>5. CASE ~(m <= n)
  <2> DEFINE g == [i \in m..n |-> c]
  <2>1. g \in [m..n -> T] /\ \A i \in m..n : g[i] = IF i = m THEN c ELSE step[i][g[i - 1]] BY <1>5
  <2> QED BY <2>1 DEF Recursive
<1> QED BY <1>4, <1>5

\* Functions that follow the same recursion are the same.
Agree(g, h, m, n) == \A i \in m..n : g[i] = h[i]

LEMMA FiniteRecursionUnique ==
  ASSUME NEW g, NEW h, NEW m, NEW n, m \in Int, n \in Int,
         m <= n => g[m] = h[m],
         \A i \in m..n : i > m /\ g[i - 1] = h[i - 1] => g[i] = h[i]
  PROVE  Agree(g, h, m, n)
<1> DEFINE S == {i \in m..n : g[i] = h[i]}
<1>1. m <= n => m \in S OBVIOUS
<1>2. \A i \in m..n : i > m /\ i - 1 \in S => i \in S OBVIOUS
<1> HIDE DEF S
<1>3. Within(m, n, S) BY <1>1, <1>2, RangeInduction
<1> QED BY <1>3 DEF S, Within, Agree

\* There is a function on m..n that goes by its steps from what it is at a higher number.
Chained(U, m, n, next, step, c) ==
  \E g \in [m..n -> U] : \A p \in m..n : g[p] = step[p][IF next[p] \in (p + 1)..n THEN g[next[p]] ELSE c]

LEMMA ChainRecursion ==
  ASSUME NEW U, NEW m, NEW n, NEW next, NEW step, NEW c,
         m \in Int, n \in Int, c \in U, step \in [m..n -> [U -> U]]
  PROVE  Chained(U, m, n, next, step, c)
<1> DEFINE Follows(g, k) ==
             \A p \in (n - k + 1)..n : g[p] = step[p][IF next[p] \in (p + 1)..n THEN g[next[p]] ELSE c]
           S == {k \in 0..(n - m + 1) : \E g \in [(n - k + 1)..n -> U] : Follows(g, k)}
<1>1. 0 <= n - m + 1 => 0 \in S
  <2> DEFINE g == [p \in (n - 0 + 1)..n |-> c]
  <2>1. g \in [(n - 0 + 1)..n -> U] /\ Follows(g, 0) OBVIOUS
  <2> HIDE DEF g
  <2> QED BY <2>1
<1>2. ASSUME NEW k \in 0..(n - m + 1), k > 0, k - 1 \in S PROVE k \in S
  <2> DEFINE q == n - k + 1
  <2>1. q \in m..n /\ n - (k - 1) + 1 = q + 1 /\ q \in Int BY <1>2
  <2>2. PICK g \in [(q + 1)..n -> U] :
          \A p \in (q + 1)..n : g[p] = step[p][IF next[p] \in (p + 1)..n THEN g[next[p]] ELSE c]
    BY <1>2, <2>1
  <2> HIDE DEF q
  <2> DEFINE v == IF next[q] \in (q + 1)..n THEN g[next[q]] ELSE c
             h == [p \in q..n |-> IF p = q THEN step[q][v] ELSE g[p]]
  <2>3. v \in U BY <2>2
  <2>4. step[q][v] \in U BY <2>1, <2>3
  <2>5. \A p \in q..n : p # q => p \in (q + 1)..n BY <2>1
  <2> HIDE DEF v
  <2>6. h \in [q..n -> U] BY <2>2, <2>4, <2>5
  <2>7. h[q] = step[q][v] /\ \A p \in (q + 1)..n : h[p] = g[p]
    <3>1. q \in q..n /\ \A p \in (q + 1)..n : p \in q..n /\ p # q BY <2>1
    <3> QED BY <3>1
  <2> HIDE DEF h
  <2>8. ASSUME NEW p \in q..n
        PROVE  h[p] = step[p][IF next[p] \in (p + 1)..n THEN h[next[p]] ELSE c]
    <3>1. \A x \in (p + 1)..n : x \in (q + 1)..n BY <2>1
    <3>2. CASE p = q
      <4>1. v = IF next[q] \in (q + 1)..n THEN h[next[q]] ELSE c BY <2>7 DEF v
      <4> QED BY <2>7, <3>2, <4>1
    <3>3. CASE p # q
      <4>1. p \in (q + 1)..n BY <2>5, <3>3
      <4>2. h[p] = g[p] BY <2>7, <4>1
      <4>3. next[p] \in (p + 1)..n => h[next[p]] = g[next[p]] BY <2>7, <3>1
      <4> QED BY <2>2, <4>1, <4>2, <4>3
    <3> QED BY <3>2, <3>3
  <2>9. \E f \in [(n - k + 1)..n -> U] : Follows(f, k) BY <2>6, <2>8 DEF q
  <2> QED BY <2>9
<1>3. Within(0, n - m + 1, S)
  <2>1. 0 \in Int /\ n - m + 1 \in Int OBVIOUS
  <2> DEFINE z == n - m + 1
  <2>2. z \in Int OBVIOUS
  <2>3. 0 <= z => 0 \in S BY <1>1
  <2>4. \A k \in 0..z : k > 0 /\ k - 1 \in S => k \in S BY <1>2
  <2> HIDE DEF S, z
  <2>5. Within(0, z, S) BY <2>2, <2>3, <2>4, RangeInduction
  <2> QED BY <2>5 DEF z
<1>4. CASE m <= n
  <2>1. n - m + 1 \in 0..(n - m + 1) /\ n - (n - m + 1) + 1 = m BY <1>4
  <2>2. n - m + 1 \in S
    <3> HIDE DEF S
    <3> QED BY <1>3, <2>1 DEF Within
  <2>3. \E g \in [m..n -> U] :
          \A p \in m..n : g[p] = step[p][IF next[p] \in (p + 1)..n THEN g[next[p]] ELSE c]
    BY <2>1, <2>2
  <2> QED BY <2>3 DEF Chained
<1>5. CASE ~(m <= n)
  <2> DEFINE g == [p \in m..n |-> c]
  <2>1. g \in [m..n -> U]
        /\ \A p \in m..n : g[p] = step[p][IF next[p] \in (p + 1)..n THEN g[next[p]] ELSE c] BY <1>5
  <2> QED BY <2>1 DEF Chained
<1> QED BY <1>4, <1>5

LEMMA FunctionIsSequence ==
  ASSUME NEW T, NEW n, NEW s, n \in Nat, s \in [1..n -> T]
  PROVE  s \in Seq(T) /\ Len(s) = n
<1>1. s \in Seq(T) BY SeqDef
<1>2. Len(s) \in Nat /\ DOMAIN s = 1..Len(s) /\ DOMAIN s = 1..n BY <1>1, LenProperties
<1> QED BY <1>1, <1>2

-----------------------------------------------------------------------------
(* Sequences of sequences.                                                   *)

Regrouping(x, y, z) == (x \o y) \o z = x \o (y \o z)

LEMMA Associated ==
  ASSUME NEW T, NEW x, NEW y, NEW z, x \in Seq(T), y \in Seq(T), z \in Seq(T)
  PROVE  Regrouping(x, y, z)
BY ConcatAssociative DEF Regrouping

\* The function by which FlattenSeq is defined.
Flattened(U, ss) ==
  \E g \in [1..Len(ss) -> U] :
    /\ FlattenSeq(ss) = g[Len(ss)]
    /\ \A i \in 1..Len(ss) : g[i] = IF i = 1 THEN ss[i] ELSE g[i - 1] \o ss[i]

LEMMA FlattenRecursion ==
  ASSUME NEW T, NEW U, NEW ss, U = Seq(T), ss \in Seq(U), ss # <<>>
  PROVE  Flattened(U, ss)
<1> DEFINE n == Len(ss)
           step == [i \in 1..n |-> [v \in U |-> v \o ss[i]]]
<1>1. n \in Nat /\ n >= 1 /\ ss[1] \in U /\ \A i \in 1..n : ss[i] \in U OBVIOUS
<1>2. \A u, v \in U : u \o v \in U OBVIOUS
<1>3. step \in [1..n -> [U -> U]] BY <1>1, <1>2
<1>4. PICK g \in [1..n -> U] : \A i \in 1..n : g[i] = IF i = 1 THEN ss[1] ELSE step[i][g[i - 1]]
  <2>1. n \in Int /\ ss[1] \in U BY <1>1
  <2> HIDE DEF n, step
  <2>2. Recursive(U, 1, n, ss[1], step) BY <2>1, <1>3, FiniteRecursion
  <2> QED BY <2>2 DEF Recursive
<1> DEFINE flatten[i \in 1..n] == IF i = 1 THEN ss[i] ELSE flatten[i - 1] \o ss[i]
<1>5. g = [i \in 1..n |-> IF i = 1 THEN ss[i] ELSE g[i - 1] \o ss[i]]
  <2>2. \A i \in 1..n : \A v \in U : step[i][v] = v \o ss[i] BY <1>1
  <2> HIDE DEF step, n, flatten
  <2>1. \A i \in 1..n : i # 1 => g[i - 1] \in U BY <1>1
  <2> QED BY <2>1, <2>2, <1>4
<1>6. flatten = [i \in 1..n |-> IF i = 1 THEN ss[i] ELSE flatten[i - 1] \o ss[i]] BY <1>5
<1> HIDE DEF step
<1>7. \A i \in 1..n : g[i] = flatten[i]
  <2> HIDE DEF flatten
  <2> DEFINE S == {i \in 1..n : g[i] = flatten[i]}
  <2>1. 1 \in S BY <1>1, <1>5, <1>6
  <2>2. \A i \in 1..n : i > 1 /\ i - 1 \in S => i \in S
    <3> SUFFICES ASSUME NEW i \in 1..n, i > 1, i - 1 \in S PROVE i \in S OBVIOUS
    <3>1. g[i - 1] = flatten[i - 1] /\ i # 1 OBVIOUS
    <3>2. g[i] = g[i - 1] \o ss[i]
      <4> HIDE DEF n
      <4> QED BY <1>5, <3>1
    <3>3. flatten[i] = flatten[i - 1] \o ss[i]
      <4> HIDE DEF n
      <4> QED BY <1>6, <3>1
    <3> HIDE DEF n
    <3> QED BY <3>1, <3>2, <3>3
  <2> HIDE DEF n, S
  <2>3. n \in Int BY <1>1
  <2>4. Within(1, n, S) BY <2>1, <2>2, <2>3, RangeInduction
  <2> QED BY <2>4 DEF S, Within
<1>8. FlattenSeq(ss) = flatten[n] BY <1>1 DEF FlattenSeq
<1>9. FlattenSeq(ss) = g[n]
  <2> HIDE DEF flatten
  <2> QED BY <1>1, <1>7, <1>8
<1> QED BY <1>5, <1>9 DEF Flattened

LEMMA FlattenEmpty == FlattenSeq(<<>>) = <<>>
BY DEF FlattenSeq

LEMMA FlattenType ==
  ASSUME NEW T, NEW ss, ss \in Seq(Seq(T))
  PROVE  FlattenSeq(ss) \in Seq(T)
<1>1. CASE ss = <<>>
  <2>1. <<>> \in Seq(T) OBVIOUS
  <2> QED BY <1>1, <2>1, FlattenEmpty
<1>2. CASE ss # <<>>
  <2> DEFINE U == Seq(T)
  <2>1. U = Seq(T) /\ ss \in Seq(U) OBVIOUS
  <2> HIDE DEF U
  <2>2. Flattened(U, ss) BY <1>2, <2>1, FlattenRecursion
  <2>3. Len(ss) \in 1..Len(ss) BY <1>2, <2>1
  <2>4. FlattenSeq(ss) \in U
    <3> DEFINE n == Len(ss)
    <3>1. n \in 1..n BY <2>3
    <3>2. PICK g \in [1..n -> U] : FlattenSeq(ss) = g[n] BY <2>2 DEF Flattened
    <3> HIDE DEF n
    <3> QED BY <3>1, <3>2
  <2> QED BY <2>1, <2>4
<1> QED BY <1>1, <1>2

LEMMA FlattenAppend ==
  ASSUME NEW T, NEW ss, NEW s, ss \in Seq(Seq(T)), s \in Seq(T)
  PROVE  FlattenSeq(Append(ss, s)) = FlattenSeq(ss) \o s
<1> DEFINE U == Seq(T)
           more == Append(ss, s)
           n == Len(ss)
<1>0. U = Seq(T) /\ ss \in Seq(U) /\ s \in U OBVIOUS
<1> HIDE DEF U
<1>1. more \in Seq(U) /\ more # <<>> /\ Len(more) = n + 1 /\ more[n + 1] = s
      /\ n \in Nat /\ \A i \in 1..n : more[i] = ss[i]
  BY <1>0
<1> HIDE DEF more
<1>2. PICK h \in [1..(n + 1) -> U] :
        /\ FlattenSeq(more) = h[n + 1]
        /\ \A i \in 1..(n + 1) : h[i] = IF i = 1 THEN more[i] ELSE h[i - 1] \o more[i]
  <2>1. Flattened(U, more) BY <1>0, <1>1, FlattenRecursion
  <2> QED BY <1>1, <2>1 DEF Flattened
<1>3. CASE ss = <<>>
  <2>1. n = 0 /\ h[1] = s BY <1>1, <1>2, <1>3
  <2>2. FlattenSeq(ss) \o s = s BY <1>0, <1>3, FlattenEmpty
  <2> QED BY <1>2, <2>1, <2>2 DEF more
<1>4. CASE ss # <<>>
  <2>1. n >= 1 BY <1>0, <1>4
  <2>2. PICK g \in [1..n -> U] :
          /\ FlattenSeq(ss) = g[n]
          /\ \A i \in 1..n : g[i] = IF i = 1 THEN ss[i] ELSE g[i - 1] \o ss[i]
    <3>1. Flattened(U, ss) BY <1>0, <1>4, FlattenRecursion
    <3> QED BY <1>1, <3>1 DEF Flattened
  <2>3. n \in Nat /\ \A i \in 1..n : h[i] = IF i = 1 THEN ss[i] ELSE h[i - 1] \o ss[i]
    <3>1. \A i \in 1..n : i \in 1..(n + 1) /\ more[i] = ss[i] BY <1>1
    <3> QED BY <3>1, <1>1, <1>2
  <2> DEFINE S == {i \in 1..n : g[i] = h[i]}
  <2>4. 1 \in S
    <3>1. 1 \in 1..n BY <2>1
    <3>2. g[1] = ss[1] /\ h[1] = ss[1] BY <3>1, <2>2, <2>3
    <3> QED BY <3>1, <3>2
  <2>5. \A i \in 1..n : i > 1 /\ i - 1 \in S => i \in S BY <2>2, <2>3
  <2> HIDE DEF n, S
  <2>6. Within(1, n, S)
    <3>1. n \in Int BY <2>3
    <3> QED BY <3>1, <2>4, <2>5, RangeInduction
  <2>7. n \in 1..n /\ n + 1 \in 1..(n + 1) BY <2>1, <2>3
  <2>8. g[n] = h[n] BY <2>6, <2>7 DEF S, Within
  <2>9. h[n + 1] = h[n] \o s
    <3>1. n + 1 # 1 /\ (n + 1) - 1 = n BY <2>1, <2>3
    <3>2. more[n + 1] = s BY <1>1
    <3> QED BY <1>2, <2>7, <3>1, <3>2
  <2> QED BY <1>2, <2>2, <2>8, <2>9 DEF more
<1> QED BY <1>3, <1>4

LEMMA FlattenSingle ==
  ASSUME NEW T, NEW s, s \in Seq(T)
  PROVE  FlattenSeq(<<s>>) = s
<1>1. <<>> \in Seq(Seq(T)) /\ Append(<<>>, s) = <<s>> OBVIOUS
<1>2. FlattenSeq(Append(<<>>, s)) = FlattenSeq(<<>>) \o s BY <1>1, FlattenAppend
<1> QED BY <1>1, <1>2, FlattenEmpty

LEMMA FlattenConcat ==
  ASSUME NEW T, NEW ss, NEW tt, ss \in Seq(Seq(T)), tt \in Seq(Seq(T))
  PROVE  FlattenSeq(ss \o tt) = FlattenSeq(ss) \o FlattenSeq(tt)
<1> DEFINE U == Seq(T)
           P == {u \in Seq(U) : FlattenSeq(ss \o u) = FlattenSeq(ss) \o FlattenSeq(u)}
<1>0. U = Seq(T) /\ ss \in Seq(U) /\ tt \in Seq(U) OBVIOUS
<1>t. \A u \in Seq(U) : FlattenSeq(u) \in Seq(T) BY FlattenType
<1>a. \A u \in Seq(U) : \A s \in U : FlattenSeq(Append(u, s)) = FlattenSeq(u) \o s BY FlattenAppend
<1> HIDE DEF U
<1>1. <<>> \in P
  <2>1. ss \o <<>> = ss /\ <<>> \in Seq(U) BY <1>0
  <2>2. FlattenSeq(ss) \o <<>> = FlattenSeq(ss) BY <1>0, <1>t
  <2> QED BY <2>1, <2>2, FlattenEmpty
<1>2. ASSUME NEW u \in Seq(U), NEW s \in U, u \in P PROVE Append(u, s) \in P
  <2>1. ss \o Append(u, s) = Append(ss \o u, s) /\ ss \o u \in Seq(U) BY <1>0
  <2>2. FlattenSeq(ss \o Append(u, s)) = FlattenSeq(ss \o u) \o s BY <2>1, <1>a
  <2>3. FlattenSeq(Append(u, s)) = FlattenSeq(u) \o s BY <1>a
  <2>4. FlattenSeq(ss) \in Seq(T) /\ FlattenSeq(u) \in Seq(T) /\ s \in Seq(T) BY <1>0, <1>t
  <2>5. (FlattenSeq(ss) \o FlattenSeq(u)) \o s = FlattenSeq(ss) \o (FlattenSeq(u) \o s)
    <3> HIDE DEF P
    <3>1. Regrouping(FlattenSeq(ss), FlattenSeq(u), s) BY <2>4, Associated
    <3> QED BY <3>1 DEF Regrouping
  <2>6. Append(u, s) \in Seq(U) OBVIOUS
  <2> QED BY <1>2, <2>2, <2>3, <2>5, <2>6
<1> HIDE DEF P
<1>3. Seq(U) \subseteq P BY <1>1, <1>2, AppendInduction
<1> QED BY <1>0, <1>3 DEF P

-----------------------------------------------------------------------------
(* Parts and what they hold.                                                 *)

\* Parts whose cells are there, and those that a layout may have.
Part(C, file) ==
  {p \in [literal : BOOLEAN, data : Seq(C), off : Nat, len : Nat] :
     IF p.literal THEN Len(p.data) = p.len ELSE p.off + p.len <= Len(file)}
Placed(C, file) == {p \in Part(C, file) : p.literal \/ p.len > 0}

PartCells(p, file) == IF p.literal THEN p.data ELSE SubSeq(file, p.off + 1, p.off + p.len)

LEMMA SliceType ==
  ASSUME NEW C, NEW s, NEW a, NEW n, s \in Seq(C), a \in Nat, n \in Nat, a + n <= Len(s)
  PROVE  SubSeq(s, a + 1, a + n) \in Seq(C) /\ Len(SubSeq(s, a + 1, a + n)) = n
<1>1. a + 1 \in Int /\ a + n \in Int /\ \A i \in (a + 1)..(a + n) : s[i] \in C OBVIOUS
<1>2. SubSeq(s, a + 1, a + n) \in Seq(C)
      /\ Len(SubSeq(s, a + 1, a + n)) = IF a + 1 <= a + n THEN (a + n) - (a + 1) + 1 ELSE 0
  BY <1>1, SubSeqProperties
<1> QED BY <1>2

\* A part that continues another one, and the two in one.
Continues(r, p) == ~r.literal /\ ~p.literal /\ r.off + r.len = p.off /\ p.len # 0
Continued(r, p) == [r EXCEPT !.len = @ + p.len]

LEMMA MergeRanges ==
  ASSUME NEW C, NEW file, NEW r, NEW p, file \in Seq(C), r \in Part(C, file), p \in Part(C, file),
         Continues(r, p)
  PROVE  /\ Continued(r, p) \in Placed(C, file)
         /\ PartCells(Continued(r, p), file) = PartCells(r, file) \o PartCells(p, file)
<1> USE DEF Continues
<1> DEFINE q == [r EXCEPT !.len = @ + p.len]
<1>1. r.off \in Nat /\ r.len \in Nat /\ p.off \in Nat /\ p.len \in Nat /\ p.off + p.len <= Len(file)
      /\ r.data \in Seq(C)
  BY DEF Part
<1>2. /\ q \in [literal : BOOLEAN, data : Seq(C), off : Nat, len : Nat]
      /\ ~q.literal /\ q.data = r.data /\ q.off = r.off /\ q.len = r.len + p.len
  <2>1. r \in [literal : BOOLEAN, data : Seq(C), off : Nat, len : Nat] BY DEF Part
  <2>2. r.data \in Seq(C) /\ r.len + p.len \in Nat BY <1>1
  <2> QED BY <2>1, <2>2
<1> HIDE DEF q
<1>3. q \in Placed(C, file)
  <2>1. r.len + p.len \in Nat /\ r.len + p.len > 0 /\ r.off + (r.len + p.len) <= Len(file) BY <1>1
  <2> QED BY <1>1, <1>2, <2>1 DEF Placed, Part
<1>4. SubSeq(file, r.off + 1, r.off + r.len) \o SubSeq(file, r.off + r.len + 1, r.off + r.len + p.len)
        = SubSeq(file, r.off + 1, r.off + r.len + p.len)
  <2> DEFINE m == r.off + 1
             k == r.off + r.len
             n == r.off + r.len + p.len
  <2>1. m \in 1..(Len(file) + 1) /\ k \in (m - 1)..Len(file) /\ n \in k..Len(file) BY <1>1
  <2> HIDE DEF m, k, n
  <2>2. SubSeq(file, m, k) \o SubSeq(file, k + 1, n) = SubSeq(file, m, n)
    BY <2>1, ConcatAdjacentSubSeq
  <2> QED BY <2>2 DEF m, k, n
<1>5. PartCells(r, file) = SubSeq(file, r.off + 1, r.off + r.len)
      /\ PartCells(p, file) = SubSeq(file, r.off + r.len + 1, r.off + r.len + p.len)
  BY DEF PartCells
<1>6. PartCells(q, file) = SubSeq(file, r.off + 1, r.off + (r.len + p.len)) BY <1>2 DEF PartCells
<1>7. r.off + (r.len + p.len) = r.off + r.len + p.len BY <1>1
<1>8. PartCells(q, file) = PartCells(r, file) \o PartCells(p, file) BY <1>4, <1>5, <1>6, <1>7
<1> QED BY <1>3, <1>8 DEF q, Continued

\* Two literals in one.
Lengthened(r, p) == [r EXCEPT !.data = @ \o p.data, !.len = @ + p.len]

LEMMA MergeLiterals ==
  ASSUME NEW C, NEW file, NEW r, NEW p, file \in Seq(C), r \in Part(C, file), p \in Part(C, file),
         r.literal, p.literal
  PROVE  /\ Lengthened(r, p) \in Placed(C, file)
         /\ PartCells(Lengthened(r, p), file) = PartCells(r, file) \o PartCells(p, file)
<1> DEFINE q == [r EXCEPT !.data = @ \o p.data, !.len = @ + p.len]
<1>1. r.off \in Nat /\ r.data \in Seq(C) /\ p.data \in Seq(C) /\ Len(r.data) = r.len /\ Len(p.data) = p.len
      /\ r.len \in Nat /\ p.len \in Nat
  BY DEF Part
<1>2. r.data \o p.data \in Seq(C) /\ Len(r.data \o p.data) = r.len + p.len
  <2> DEFINE d == r.data
             e == p.data
  <2>1. d \in Seq(C) /\ e \in Seq(C) /\ Len(d) = r.len /\ Len(e) = p.len BY <1>1
  <2> HIDE DEF d, e
  <2>2. d \o e \in Seq(C) /\ Len(d \o e) = r.len + p.len BY <2>1
  <2> QED BY <2>2 DEF d, e
<1>3. /\ q \in [literal : BOOLEAN, data : Seq(C), off : Nat, len : Nat]
      /\ q.literal /\ q.data = r.data \o p.data /\ q.off = r.off /\ q.len = r.len + p.len
  <2>1. r \in [literal : BOOLEAN, data : Seq(C), off : Nat, len : Nat] BY DEF Part
  <2>2. r.data \o p.data \in Seq(C) /\ r.len + p.len \in Nat BY <1>1, <1>2
  <2> QED BY <2>1, <2>2
<1> HIDE DEF q
<1>4. q \in Placed(C, file)
  <2>1. r.len + p.len \in Nat BY <1>1
  <2> QED BY <1>1, <1>2, <1>3, <2>1 DEF Placed, Part
<1>5. PartCells(q, file) = PartCells(r, file) \o PartCells(p, file) BY <1>3 DEF PartCells
<1> QED BY <1>4, <1>5 DEF q, Lengthened

LEMMA PartCellsType ==
  ASSUME NEW C, NEW file, NEW p, file \in Seq(C), p \in Part(C, file)
  PROVE  PartCells(p, file) \in Seq(C) /\ Len(PartCells(p, file)) = p.len
<1>1. CASE p.literal BY <1>1 DEF Part, PartCells
<1>2. CASE ~p.literal
  <2>1. p.off \in Nat /\ p.len \in Nat /\ p.off + p.len <= Len(file) BY <1>2 DEF Part
  <2>3. SubSeq(file, p.off + 1, p.off + p.len) \in Seq(C)
        /\ Len(SubSeq(file, p.off + 1, p.off + p.len)) = p.len
    BY <2>1, SliceType
  <2> QED BY <1>2, <2>3 DEF PartCells
<1> QED BY <1>1, <1>2

CellsOf(parts, file) == [i \in DOMAIN parts |-> PartCells(parts[i], file)]

LEMMA CellsOfType ==
  ASSUME NEW C, NEW file, NEW parts, file \in Seq(C), parts \in Seq(Part(C, file))
  PROVE  CellsOf(parts, file) \in Seq(Seq(C))
<1> DEFINE U == Seq(C)
<1>1. Len(parts) \in Nat /\ DOMAIN parts = 1..Len(parts) BY LenProperties
<1>2. \A i \in 1..Len(parts) : PartCells(parts[i], file) \in U
  <2>1. \A i \in 1..Len(parts) : parts[i] \in Part(C, file) OBVIOUS
  <2> QED BY <2>1, PartCellsType
<1> HIDE DEF U
<1>3. CellsOf(parts, file) \in [1..Len(parts) -> U] BY <1>1, <1>2 DEF CellsOf
<1>4. CellsOf(parts, file) \in Seq(U) BY <1>1, <1>3, FunctionIsSequence
<1> QED BY <1>4 DEF U

LEMMA ContentIsFlat ==
  ASSUME NEW parts, NEW file
  PROVE  Content(parts, file) = FlattenSeq(CellsOf(parts, file))
BY DEF Content, CellsOf, PartCells

LEMMA ContentEmpty == \A file : Content(<<>>, file) = <<>>
<1>1. \A file : CellsOf(<<>>, file) = <<>> BY DEF CellsOf
<1> QED BY <1>1, ContentIsFlat, FlattenEmpty

LEMMA ContentType ==
  ASSUME NEW C, NEW file, NEW parts, file \in Seq(C), parts \in Seq(Part(C, file))
  PROVE  Content(parts, file) \in Seq(C)
BY CellsOfType, ContentIsFlat, FlattenType

LEMMA ContentAppend ==
  ASSUME NEW C, NEW file, NEW parts, NEW p,
         file \in Seq(C), parts \in Seq(Part(C, file)), p \in Part(C, file)
  PROVE  Content(Append(parts, p), file) = Content(parts, file) \o PartCells(p, file)
<1>1. CellsOf(parts, file) \in Seq(Seq(C)) BY CellsOfType
<1>2. PartCells(p, file) \in Seq(C) BY PartCellsType
<1>3. CellsOf(Append(parts, p), file) = Append(CellsOf(parts, file), PartCells(p, file))
  <2> DEFINE n == Len(parts)
             U == Seq(C)
             cells == CellsOf(parts, file)
             more == CellsOf(Append(parts, p), file)
  <2>1. n \in Nat /\ DOMAIN parts = 1..n /\ DOMAIN Append(parts, p) = 1..(n + 1)
        /\ Append(parts, p)[n + 1] = p /\ \A i \in 1..n : Append(parts, p)[i] = parts[i]
    <3> DEFINE P == Part(C, file)
    <3>1. parts \in Seq(P) /\ p \in P OBVIOUS
    <3> HIDE DEF P
    <3>2. Len(parts) \in Nat /\ DOMAIN parts = 1..Len(parts) BY <3>1, LenProperties
    <3>3. Append(parts, p) \in Seq(P) /\ Len(Append(parts, p)) = Len(parts) + 1
          /\ (\A i \in 1..Len(parts) : Append(parts, p)[i] = parts[i])
          /\ Append(parts, p)[Len(parts) + 1] = p
      BY <3>1, AppendProperties
    <3>4. DOMAIN Append(parts, p) = 1..(Len(parts) + 1) BY <3>3, LenProperties
    <3> QED BY <3>2, <3>3, <3>4
  <2>2. cells \in Seq(U) /\ Len(cells) = n /\ \A i \in 1..n : cells[i] = PartCells(parts[i], file)
    <3>1. DOMAIN cells = 1..n BY <2>1 DEF CellsOf
    <3>2. cells \in Seq(U) /\ DOMAIN cells = 1..Len(cells) /\ Len(cells) \in Nat BY <1>1, LenProperties
    <3>3. Len(cells) = n BY <2>1, <3>1, <3>2
    <3> QED BY <3>2, <3>3, <2>1 DEF CellsOf
  <2>3. more \in Seq(U) /\ Len(more) = n + 1 /\ more[n + 1] = PartCells(p, file)
        /\ \A i \in 1..n : more[i] = PartCells(parts[i], file)
    <3>1. Append(parts, p) \in Seq(Part(C, file)) OBVIOUS
    <3>2. more \in Seq(U) BY <3>1, CellsOfType
    <3>3. DOMAIN more = 1..(n + 1) BY <2>1 DEF CellsOf
    <3>4. DOMAIN more = 1..Len(more) /\ Len(more) \in Nat BY <3>2, LenProperties
    <3>5. Len(more) = n + 1 BY <2>1, <3>3, <3>4
    <3> QED BY <3>2, <3>5, <2>1 DEF CellsOf
  <2>4. PartCells(p, file) \in U BY <1>2
  <2> HIDE DEF n, U, cells, more
  <2>5. Append(cells, PartCells(p, file)) \in Seq(U) /\ Len(Append(cells, PartCells(p, file))) = n + 1
        /\ Append(cells, PartCells(p, file))[n + 1] = PartCells(p, file)
        /\ \A i \in 1..n : Append(cells, PartCells(p, file))[i] = cells[i]
    BY <2>2, <2>4, AppendProperties
  <2>6. \A i \in 1..(n + 1) : more[i] = Append(cells, PartCells(p, file))[i]
    BY <2>1, <2>2, <2>3, <2>5
  <2>7. more = Append(cells, PartCells(p, file)) BY <2>3, <2>5, <2>6, SeqEqual
  <2> QED BY <2>7 DEF more, cells
<1> QED BY <1>1, <1>2, <1>3, ContentIsFlat, FlattenAppend

LEMMA PrefixAppend ==
  ASSUME NEW T, NEW s, NEW i, s \in Seq(T), i \in 1..Len(s)
  PROVE  /\ SubSeq(s, 1, i) \in Seq(T) /\ Len(SubSeq(s, 1, i)) = i
         /\ SubSeq(s, 1, i - 1) \in Seq(T) /\ Len(SubSeq(s, 1, i - 1)) = i - 1
         /\ SubSeq(s, 1, i) = Append(SubSeq(s, 1, i - 1), s[i])
<1>1. SubSeq(s, 1, i) \in Seq(T) /\ Len(SubSeq(s, 1, i)) = i
      /\ \A j \in 1..i : SubSeq(s, 1, i)[j] = s[j]
  OBVIOUS
<1>2. SubSeq(s, 1, i - 1) \in Seq(T) /\ Len(SubSeq(s, 1, i - 1)) = i - 1
      /\ \A j \in 1..(i - 1) : SubSeq(s, 1, i - 1)[j] = s[j]
  OBVIOUS
<1>3. s[i] \in T OBVIOUS
<1> DEFINE u == SubSeq(s, 1, i)
           v == Append(SubSeq(s, 1, i - 1), s[i])
<1>4. v \in Seq(T) /\ Len(v) = i /\ \A j \in 1..i : v[j] = s[j] BY <1>2, <1>3
<1>5. u = v
  <2> HIDE DEF v
  <2> QED BY <1>1, <1>4, SeqEqual
<1> QED BY <1>1, <1>2, <1>5

LEMMA WholeSubSeq ==
  ASSUME NEW T, NEW s, s \in Seq(T)
  PROVE  SubSeq(s, 1, Len(s)) = s
<1>1. SubSeq(s, 1, Len(s)) \in Seq(T) /\ Len(SubSeq(s, 1, Len(s))) = Len(s)
      /\ \A j \in 1..Len(s) : SubSeq(s, 1, Len(s))[j] = s[j]
  OBVIOUS
<1> QED BY <1>1, SeqEqual

\* Sequences that are as long one by one are as long put together.
LEMMA FlattenLens ==
  ASSUME NEW T, NEW ss, NEW tt, ss \in Seq(Seq(T)), tt \in Seq(Seq(T)), Len(ss) = Len(tt),
         \A i \in 1..Len(ss) : Len(ss[i]) = Len(tt[i])
  PROVE  Len(FlattenSeq(ss)) = Len(FlattenSeq(tt))
<1> DEFINE U == Seq(T)
           n == Len(ss)
           P == {i \in 0..n : Len(FlattenSeq(SubSeq(ss, 1, i))) = Len(FlattenSeq(SubSeq(tt, 1, i)))}
<1>0. ss \in Seq(U) /\ tt \in Seq(U) /\ n \in Nat /\ n = Len(tt) OBVIOUS
<1>1. \A s \in Seq(U) : \A x \in U : /\ FlattenSeq(s) \in U
                                     /\ FlattenSeq(Append(s, x)) = FlattenSeq(s) \o x
  BY FlattenType, FlattenAppend
<1>2. \A x, y \in U : Len(x \o y) = Len(x) + Len(y) OBVIOUS
<1>6. \A i \in 1..n : ss[i] \in U /\ tt[i] \in U /\ Len(ss[i]) = Len(tt[i])
  <2> HIDE DEF U
  <2> QED BY <1>0
<1> HIDE DEF U
<1>3. 0 \in P
  <2>1. SubSeq(ss, 1, 0) = <<>> /\ SubSeq(tt, 1, 0) = <<>> BY <1>0
  <2>2. Len(FlattenSeq(SubSeq(ss, 1, 0))) = Len(FlattenSeq(SubSeq(tt, 1, 0))) BY <2>1
  <2>3. 0 \in 0..n BY <1>0
  <2> HIDE DEF n
  <2> QED BY <2>2, <2>3
<1>4. ASSUME NEW i \in 0..n, i > 0 /\ i - 1 \in P PROVE i \in P
  <2> DEFINE s == SubSeq(ss, 1, i - 1)
             t == SubSeq(tt, 1, i - 1)
  <2>1. i \in 1..n BY <1>4
  <2>2. s \in Seq(U) /\ SubSeq(ss, 1, i) = Append(s, ss[i]) BY <1>0, <2>1, PrefixAppend
  <2>3. t \in Seq(U) /\ SubSeq(tt, 1, i) = Append(t, tt[i]) BY <1>0, <2>1, PrefixAppend
  <2>4. Len(FlattenSeq(s)) = Len(FlattenSeq(t)) BY <1>4
  <2>5. ss[i] \in U /\ tt[i] \in U /\ Len(ss[i]) = Len(tt[i]) BY <1>6, <2>1
  <2> HIDE DEF s, t, n
  <2>6. FlattenSeq(Append(s, ss[i])) = FlattenSeq(s) \o ss[i] /\ FlattenSeq(s) \in U BY <1>1, <2>2, <2>5
  <2>7. FlattenSeq(Append(t, tt[i])) = FlattenSeq(t) \o tt[i] /\ FlattenSeq(t) \in U BY <1>1, <2>3, <2>5
  <2>8. Len(FlattenSeq(Append(s, ss[i]))) = Len(FlattenSeq(Append(t, tt[i])))
    BY <1>2, <2>4, <2>5, <2>6, <2>7
  <2> QED BY <2>2, <2>3, <2>8
<1>5. Within(0, n, P)
  <2> HIDE DEF P, n
  <2>1. 0 \in Int /\ n \in Int BY <1>0
  <2> QED BY <1>3, <1>4, <2>1, RangeInduction
<1>7. n \in P
  <2>1. n \in 0..n BY <1>0
  <2> HIDE DEF P
  <2> QED BY <1>5, <2>1 DEF Within
<1>8. SubSeq(ss, 1, n) = ss /\ SubSeq(tt, 1, n) = tt BY <1>0, WholeSubSeq
<1> QED BY <1>7, <1>8

\* Parts are as long as what they hold.
LEMMA PartsLenContent ==
  ASSUME NEW C, NEW file, NEW parts, file \in Seq(C), parts \in Seq(Part(C, file))
  PROVE  PartsLen(parts) = Len(Content(parts, file))
<1> DEFINE P == Part(C, file)
           n == Len(parts)
           g == [i \in 0..n |-> Len(Content(SubSeq(parts, 1, i), file))]
           len[i \in 0..n] == IF i = 0 THEN 0 ELSE len[i - 1] + parts[i].len
<1>0. n \in Nat /\ parts \in Seq(P) OBVIOUS
<1>1. ASSUME NEW i \in 0..n PROVE g[i] = IF i = 0 THEN 0 ELSE g[i - 1] + parts[i].len
  <2> USE <1>1
  <2>1. CASE i = 0
    <3>1. SubSeq(parts, 1, 0) = <<>> BY SubSeqEmpty
    <3>2. g[0] = Len(Content(<<>>, file)) BY <2>1, <3>1
    <3> QED BY <2>1, <3>2, ContentEmpty
  <2>2. CASE i # 0
    <3>1. i \in 1..Len(parts) BY <2>2
    <3> DEFINE q == SubSeq(parts, 1, i - 1)
    <3>2. q \in Seq(P) /\ SubSeq(parts, 1, i) = Append(q, parts[i]) /\ parts[i] \in P
      <4> HIDE DEF P
      <4> QED BY <1>0, <3>1, PrefixAppend
    <3>3. Content(SubSeq(parts, 1, i), file) = Content(q, file) \o PartCells(parts[i], file)
      BY <3>2, ContentAppend
    <3>4. Content(q, file) \in Seq(C) BY <3>2, ContentType
    <3>5. PartCells(parts[i], file) \in Seq(C) /\ Len(PartCells(parts[i], file)) = parts[i].len
      BY <3>2, PartCellsType
    <3>6. Len(Content(SubSeq(parts, 1, i), file)) = Len(Content(q, file)) + parts[i].len
      <4> DEFINE x == Content(q, file)
                 y == PartCells(parts[i], file)
      <4>1. x \in Seq(C) /\ y \in Seq(C) BY <3>4, <3>5
      <4> HIDE DEF x, y
      <4>2. Len(x \o y) = Len(x) + Len(y) BY <4>1, ConcatProperties
      <4> QED BY <3>3, <3>5, <4>2 DEF x, y
    <3>7. g[i] = Len(Content(SubSeq(parts, 1, i), file)) /\ g[i - 1] = Len(Content(q, file)) BY <3>1
    <3> HIDE DEF g, q
    <3> QED BY <2>2, <3>6, <3>7
  <2> QED BY <2>1, <2>2
<1>2. g = [i \in 0..n |-> IF i = 0 THEN 0 ELSE g[i - 1] + parts[i].len]
  <2>1. DOMAIN g = 0..n OBVIOUS
  <2>2. g = [i \in 0..n |-> g[i]] OBVIOUS
  <2> HIDE DEF g
  <2> QED BY <1>1, <2>2
<1>3. len = [i \in 0..n |-> IF i = 0 THEN 0 ELSE len[i - 1] + parts[i].len]
  <2> HIDE DEF g, n
  <2> QED BY <1>2
<1>4. Agree(g, len, 0, n)
  <2>1. \A i \in 0..n : len[i] = IF i = 0 THEN 0 ELSE len[i - 1] + parts[i].len
    <3> HIDE DEF len
    <3> QED BY <1>3
  <2>2. 0 <= n => g[0] = len[0]
    <3>1. 0 \in 0..n BY <1>0
    <3>2. g[0] = 0
      <4> HIDE DEF g, n
      <4> QED BY <1>1, <3>1
    <3> HIDE DEF g, len, n
    <3> QED BY <2>1, <3>1, <3>2
  <2>3. \A i \in 0..n : i > 0 /\ g[i - 1] = len[i - 1] => g[i] = len[i]
    <3> HIDE DEF g, len
    <3> QED BY <1>1, <2>1
  <2> HIDE DEF g, len, n
  <2>4. n \in Int BY <1>0
  <2> QED BY <2>2, <2>3, <2>4, FiniteRecursionUnique
<1>5. PartsLen(parts) = len[n] BY DEF PartsLen
<1>6. g[n] = len[n]
  <2> HIDE DEF g, len, n
  <2>1. n \in 0..n BY <1>0
  <2> QED BY <1>4, <2>1 DEF Agree
<1>7. g[n] = Len(Content(SubSeq(parts, 1, n), file)) BY <1>0
<1>8. SubSeq(parts, 1, n) = parts
  <2> HIDE DEF P
  <2> QED BY <1>0, WholeSubSeq
<1> HIDE DEF g, len
<1> QED BY <1>5, <1>6, <1>7, <1>8

LEMMA AddPartFacts ==
  ASSUME NEW C, NEW file, NEW parts, NEW p,
         file \in Seq(C), parts \in Seq(Placed(C, file)), p \in Part(C, file)
  PROVE  /\ AddPart(parts, p) \in Seq(Placed(C, file))
         /\ Content(AddPart(parts, p), file) = Content(parts, file) \o PartCells(p, file)
<1> DEFINE P == Placed(C, file)
           Q == Part(C, file)
           n == Len(parts)
           last == Last(parts)
           front == Front(parts)
<1>1. P \subseteq Q BY DEF Placed
<1>2. parts \in Seq(P) /\ p \in Q OBVIOUS
<1>3. \A s \in Seq(P) : s \in Seq(Q)
  <2> HIDE DEF P, Q
  <2> QED BY <1>1, SeqMonotonic
<1>4. PartCells(p, file) \in Seq(C) /\ Len(PartCells(p, file)) = p.len BY PartCellsType
<1>5. Content(parts, file) \in Seq(C) BY <1>2, <1>3, ContentType
<1>6. CASE p.len = 0
  <2>1. AddPart(parts, p) = parts BY <1>6 DEF AddPart
  <2>2. PartCells(p, file) = <<>> BY <1>4, <1>6, EmptySeq
  <2>3. Content(parts, file) \o <<>> = Content(parts, file) BY <1>5, ConcatEmptySeq
  <2> QED BY <2>1, <2>2, <2>3
<1>7. ASSUME parts # <<>>, NEW q \in P,
             PartCells(q, file) = PartCells(last, file) \o PartCells(p, file),
             AddPart(parts, p) = front \o <<q>>
      PROVE  /\ AddPart(parts, p) \in Seq(P)
             /\ Content(AddPart(parts, p), file) = Content(parts, file) \o PartCells(p, file)
  <2>1. front \in Seq(P) /\ last \in P /\ parts = Append(front, last)
    <3> HIDE DEF P
    <3>1. Len(parts) \in 1..Len(parts) BY <1>2, <1>7
    <3>2. SubSeq(parts, 1, Len(parts)) = parts BY <1>2, WholeSubSeq
    <3>3. SubSeq(parts, 1, Len(parts) - 1) \in Seq(P)
          /\ parts = Append(SubSeq(parts, 1, Len(parts) - 1), parts[Len(parts)])
      BY <1>2, <3>1, <3>2, PrefixAppend
    <3>4. parts[Len(parts)] \in P BY <1>2, <3>1
    <3> QED BY <3>3, <3>4 DEF Front, Last
  <2>2. front \o <<q>> = Append(front, q) /\ Append(front, q) \in Seq(P)
    <3> HIDE DEF P, front
    <3> QED BY <1>7, <2>1, AppendIsConcat
  <2>3. front \in Seq(Q) /\ last \in Q /\ q \in Q BY <1>1, <1>3, <1>7, <2>1
  <2>4. Content(Append(front, q), file) = Content(front, file) \o PartCells(q, file)
    BY <2>3, ContentAppend
  <2>5. Content(Append(front, last), file) = Content(front, file) \o PartCells(last, file)
    BY <2>3, ContentAppend
  <2>6. Content(front, file) \in Seq(C) /\ PartCells(last, file) \in Seq(C)
    BY <2>3, ContentType, PartCellsType
  <2>7. (Content(front, file) \o PartCells(last, file)) \o PartCells(p, file)
          = Content(front, file) \o (PartCells(last, file) \o PartCells(p, file))
    <3> DEFINE x == Content(front, file)
               y == PartCells(last, file)
               z == PartCells(p, file)
    <3>1. x \in Seq(C) /\ y \in Seq(C) /\ z \in Seq(C) BY <1>4, <2>6
    <3> HIDE DEF x, y, z
    <3>2. Regrouping(x, y, z) BY <3>1, Associated
    <3> QED BY <3>2 DEF Regrouping, x, y, z
  <2> HIDE DEF P, Q, front, last
  <2> QED BY <1>7, <2>1, <2>2, <2>4, <2>5, <2>7
<1>8. parts # <<>> => last \in P /\ last \in Q
  <2> SUFFICES ASSUME parts # <<>> PROVE last \in P BY <1>1
  <2> HIDE DEF P
  <2>1. Len(parts) \in 1..Len(parts) BY <1>2
  <2> QED BY <1>2, <2>1 DEF Last
<1>9. CASE p.len # 0 /\ parts # <<>> /\ ~p.literal /\ ~last.literal /\ last.off + last.len = p.off
  <2> DEFINE q == [last EXCEPT !.len = @ + p.len]
  <2>1. AddPart(parts, p) = front \o <<q>> BY <1>9 DEF AddPart
  <2>2. q \in P /\ PartCells(q, file) = PartCells(last, file) \o PartCells(p, file)
    <3>1. last \in Q BY <1>8, <1>9
    <3> HIDE DEF last
    <3>2. Continues(last, p) BY <1>9 DEF Continues
    <3>3. q = Continued(last, p) BY DEF Continued
    <3> HIDE DEF last, q
    <3> QED BY <3>1, <3>2, <3>3, MergeRanges
  <2> HIDE DEF q, last, front
  <2> QED BY <1>7, <1>9, <2>1, <2>2
<1>10. CASE p.len # 0 /\ parts # <<>> /\ p.literal /\ last.literal
  <2> DEFINE q == [last EXCEPT !.data = @ \o p.data, !.len = @ + p.len]
  <2>1. AddPart(parts, p) = front \o <<q>> BY <1>10 DEF AddPart
  <2>2. q \in P /\ PartCells(q, file) = PartCells(last, file) \o PartCells(p, file)
    <3>1. last \in Q /\ last.literal /\ p.literal BY <1>8, <1>10
    <3>2. q = Lengthened(last, p) BY DEF Lengthened
    <3> HIDE DEF last, q
    <3> QED BY <3>1, <3>2, MergeLiterals
  <2> HIDE DEF q, last, front
  <2> QED BY <1>7, <1>10, <2>1, <2>2
<1>11. CASE /\ p.len # 0
            /\ ~(parts # <<>> /\ ~p.literal /\ ~last.literal /\ last.off + last.len = p.off)
            /\ ~(parts # <<>> /\ p.literal /\ last.literal)
  <2>1. p \in P
    <3>1. p.len \in Nat BY DEF Part
    <3> QED BY <1>11, <3>1 DEF Placed
  <2>2. AddPart(parts, p) = parts \o <<p>> BY <1>11 DEF AddPart
  <2>3. parts \o <<p>> = Append(parts, p) /\ Append(parts, p) \in Seq(P)
    <3> HIDE DEF P
    <3> QED BY <1>2, <2>1, AppendIsConcat
  <2>4. Content(Append(parts, p), file) = Content(parts, file) \o PartCells(p, file)
    BY <1>2, <1>3, ContentAppend
  <2> QED BY <2>2, <2>3, <2>4
<1> QED BY <1>6, <1>9, <1>10, <1>11

LEMMA AppendAllFacts ==
  ASSUME NEW C, NEW file, NEW parts, NEW more,
         file \in Seq(C), parts \in Seq(Placed(C, file)), more \in Seq(Part(C, file))
  PROVE  /\ AppendAll(parts, more) \in Seq(Placed(C, file))
         /\ Content(AppendAll(parts, more), file) = Content(parts, file) \o Content(more, file)
<1> DEFINE Q == Part(C, file)
           U == Seq(Placed(C, file))
           n == Len(more)
           step == [i \in 0..n |-> [u \in U |-> IF i = 0 THEN u ELSE AddPart(u, more[i])]]
           with[i \in 0..n] == IF i = 0 THEN parts ELSE AddPart(with[i - 1], more[i])
<1>1. n \in Nat /\ more \in Seq(Q) /\ \A i \in 1..n : more[i] \in Q OBVIOUS
<1>2. \A u \in U : \A p \in Q : AddPart(u, p) \in U BY AddPartFacts
<1>3. step \in [0..n -> [U -> U]]
  <2>1. \A i \in 0..n : i # 0 => i \in 1..n BY <1>1
  <2> HIDE DEF n, U, Q
  <2> QED BY <1>1, <1>2, <2>1
<1>4. PICK g \in [0..n -> U] : \A i \in 0..n : g[i] = IF i = 0 THEN parts ELSE step[i][g[i - 1]]
  <2>1. 0 \in Int /\ n \in Int /\ parts \in U BY <1>1
  <2> HIDE DEF n, U, step
  <2>2. Recursive(U, 0, n, parts, step) BY <2>1, <1>3, FiniteRecursion
  <2> QED BY <2>2 DEF Recursive
<1>5. \A i \in 0..n : g[i] = IF i = 0 THEN parts ELSE AddPart(g[i - 1], more[i])
  <2> SUFFICES ASSUME NEW i \in 0..n, i # 0 PROVE g[i] = AddPart(g[i - 1], more[i]) BY <1>4
  <2>1. i - 1 \in 0..n BY <1>1
  <2> HIDE DEF n, U
  <2>2. g[i - 1] \in U BY <2>1
  <2> QED BY <1>4, <2>2
<1>6. with = [i \in 0..n |-> IF i = 0 THEN parts ELSE AddPart(with[i - 1], more[i])]
  <2>1. g = [i \in 0..n |-> IF i = 0 THEN parts ELSE AddPart(g[i - 1], more[i])]
    <3> HIDE DEF n, U
    <3> QED BY <1>5
  <2> HIDE DEF n, U
  <2> QED BY <2>1
<1>7. Agree(g, with, 0, n)
  <2> HIDE DEF with
  <2>1. \A i \in 0..n : with[i] = IF i = 0 THEN parts ELSE AddPart(with[i - 1], more[i]) BY <1>6
  <2> HIDE DEF n, U, step
  <2>2. 0 <= n => g[0] = with[0]
    <3>1. 0 <= n => 0 \in 0..n BY <1>1
    <3> QED BY <3>1, <2>1, <1>5
  <2>3. \A i \in 0..n : i > 0 /\ g[i - 1] = with[i - 1] => g[i] = with[i] BY <2>1, <1>5
  <2>4. n \in Int BY <1>1
  <2> QED BY <2>2, <2>3, <2>4, FiniteRecursionUnique
<1> DEFINE head(i) == SubSeq(more, 1, i)
           S == {i \in 0..n : Content(g[i], file) = Content(parts, file) \o Content(head(i), file)}
<1>8. Content(parts, file) \in Seq(C)
  <2>1. Placed(C, file) \subseteq Part(C, file) BY DEF Placed
  <2>2. parts \in Seq(Part(C, file)) BY <2>1, SeqMonotonic
  <2> QED BY <2>2, ContentType
<1>9. 0 \in S
  <2>1. head(0) = <<>> BY SubSeqEmpty
  <2>2. Content(head(0), file) = <<>> BY <2>1, ContentEmpty
  <2>3. g[0] = parts /\ 0 \in 0..n BY <1>1, <1>5
  <2>4. Content(parts, file) \o <<>> = Content(parts, file) BY <1>8, ConcatEmptySeq
  <2> HIDE DEF n, head
  <2> QED BY <2>2, <2>3, <2>4
<1>10. ASSUME NEW i \in 0..n, i > 0, i - 1 \in S PROVE i \in S
  <2>1. i \in 1..Len(more) /\ i \in 1..n /\ i - 1 \in 0..n BY <1>10
  <2>2. head(i - 1) \in Seq(Q) /\ head(i) = Append(head(i - 1), more[i])
    <3> HIDE DEF Q
    <3> QED BY <1>1, <2>1, PrefixAppend
  <2>3. more[i] \in Q /\ g[i - 1] \in U /\ g[i] = AddPart(g[i - 1], more[i])
    <3> HIDE DEF Q, U, n
    <3> QED BY <1>1, <1>5, <1>10, <2>1
  <2>4. Content(g[i], file) = Content(g[i - 1], file) \o PartCells(more[i], file)
    <3> HIDE DEF n, step
    <3> QED BY <2>3, AddPartFacts
  <2> HIDE DEF head, n, U
  <2>5. Content(head(i), file) = Content(head(i - 1), file) \o PartCells(more[i], file)
    BY <2>2, <2>3, ContentAppend
  <2>6. Content(head(i - 1), file) \in Seq(C) /\ PartCells(more[i], file) \in Seq(C)
    BY <2>2, <2>3, ContentType, PartCellsType
  <2>7. Content(g[i - 1], file) = Content(parts, file) \o Content(head(i - 1), file) BY <1>10
  <2>8. (Content(parts, file) \o Content(head(i - 1), file)) \o PartCells(more[i], file)
          = Content(parts, file) \o (Content(head(i - 1), file) \o PartCells(more[i], file))
    <3> DEFINE x == Content(parts, file)
               y == Content(head(i - 1), file)
               z == PartCells(more[i], file)
    <3>1. x \in Seq(C) /\ y \in Seq(C) /\ z \in Seq(C) BY <1>8, <2>6
    <3> HIDE DEF x, y, z
    <3>2. Regrouping(x, y, z) BY <3>1, Associated
    <3> QED BY <3>2 DEF Regrouping, x, y, z
  <2> QED BY <2>4, <2>5, <2>7, <2>8
<1>11. Within(0, n, S)
  <2>1. 0 \in Int /\ n \in Int BY <1>1
  <2> HIDE DEF S, n
  <2> QED BY <2>1, <1>9, <1>10, RangeInduction
<1>12. n \in 0..n /\ AppendAll(parts, more) = with[n] BY <1>1 DEF AppendAll
<1>13. AppendAll(parts, more) = g[n] /\ g[n] \in U /\ n \in S
  <2> HIDE DEF n, with, S, U
  <2> QED BY <1>7, <1>11, <1>12 DEF Agree, Within
<1>14. head(n) = more
  <2> HIDE DEF Q
  <2> QED BY <1>1, WholeSubSeq
<1> HIDE DEF head, n, with
<1> QED BY <1>13, <1>14

-----------------------------------------------------------------------------
(* Where a part is in the virtual file.                                      *)

LEMMA SliceOfFirst ==
  ASSUME NEW C, NEW s, NEW t, NEW a, NEW n, s \in Seq(C), t \in Seq(C), a \in Nat, n \in Nat, a + n <= Len(s)
  PROVE  SubSeq(s \o t, a + 1, a + n) = SubSeq(s, a + 1, a + n)
<1>1. s \o t \in Seq(C) /\ Len(s \o t) = Len(s) + Len(t)
      /\ \A i \in 1..Len(s) : (s \o t)[i] = s[i]
  OBVIOUS
<1> DEFINE st == s \o t
<1> HIDE DEF st
<1>2. SubSeq(st, a + 1, a + n) \in Seq(C) /\ Len(SubSeq(st, a + 1, a + n)) = n BY <1>1, SliceType DEF st
<1>3. SubSeq(s, a + 1, a + n) \in Seq(C) /\ Len(SubSeq(s, a + 1, a + n)) = n BY SliceType
<1>4. \A i \in 1..n : SubSeq(st, a + 1, a + n)[i] = SubSeq(s, a + 1, a + n)[i]
  <2>1. st \in Seq(C) /\ Len(st) >= Len(s) /\ \A i \in 1..Len(s) : st[i] = s[i] BY <1>1 DEF st
  <2> QED BY <2>1
<1>5. SubSeq(st, a + 1, a + n) = SubSeq(s, a + 1, a + n) BY <1>2, <1>3, <1>4, SeqEqual
<1> QED BY <1>5 DEF st

LEMMA SliceOfSecond ==
  ASSUME NEW C, NEW s, NEW t, s \in Seq(C), t \in Seq(C)
  PROVE  SubSeq(s \o t, Len(s) + 1, Len(s) + Len(t)) = t
<1> DEFINE st == s \o t
<1>1. st \in Seq(C) /\ Len(st) = Len(s) + Len(t)
      /\ \A i \in 1..Len(t) : st[Len(s) + i] = t[i]
  OBVIOUS
<1> HIDE DEF st
<1>2. SubSeq(st, Len(s) + 1, Len(s) + Len(t)) \in Seq(C)
      /\ Len(SubSeq(st, Len(s) + 1, Len(s) + Len(t))) = Len(t)
  <2>1. Len(s) \in Nat /\ Len(t) \in Nat OBVIOUS
  <2> QED BY <1>1, <2>1, SliceType
<1>3. \A i \in 1..Len(t) : SubSeq(st, Len(s) + 1, Len(s) + Len(t))[i] = t[i] BY <1>1
<1>4. SubSeq(st, Len(s) + 1, Len(s) + Len(t)) = t BY <1>2, <1>3, SeqEqual
<1> QED BY <1>4 DEF st

LEMMA SliceOfSlice ==
  ASSUME NEW C, NEW s, NEW a, NEW m, NEW b, NEW n, s \in Seq(C), a \in Nat, m \in Nat, b \in Nat, n \in Nat,
         a + m <= Len(s), b + n <= m
  PROVE  SubSeq(SubSeq(s, a + 1, a + m), b + 1, b + n) = SubSeq(s, a + b + 1, a + b + n)
<1> DEFINE u == SubSeq(s, a + 1, a + m)
<1>1. u \in Seq(C) /\ Len(u) = m BY SliceType
<1>2. \A i \in 1..m : u[i] = s[a + i] OBVIOUS
<1> HIDE DEF u
<1>3. SubSeq(u, b + 1, b + n) \in Seq(C) /\ Len(SubSeq(u, b + 1, b + n)) = n BY <1>1, SliceType
<1>4. a + b \in Nat /\ a + b + n <= Len(s) OBVIOUS
<1>5. SubSeq(s, a + b + 1, a + b + n) \in Seq(C) /\ Len(SubSeq(s, a + b + 1, a + b + n)) = n
  <2> DEFINE c == a + b
  <2> HIDE DEF c
  <2>1. SubSeq(s, c + 1, c + n) \in Seq(C) /\ Len(SubSeq(s, c + 1, c + n)) = n BY <1>4, SliceType DEF c
  <2> QED BY <2>1 DEF c
<1>6. \A i \in 1..n : SubSeq(u, b + 1, b + n)[i] = SubSeq(s, a + b + 1, a + b + n)[i]
  <2>1. \A i \in 1..n : SubSeq(u, b + 1, b + n)[i] = u[b + i] BY <1>1
  <2>2. \A i \in 1..n : SubSeq(s, a + b + 1, a + b + n)[i] = s[a + b + i] BY <1>4
  <2>3. \A i \in 1..n : b + i \in 1..m /\ a + (b + i) = a + b + i OBVIOUS
  <2> QED BY <1>2, <2>1, <2>2, <2>3
<1>7. SubSeq(u, b + 1, b + n) = SubSeq(s, a + b + 1, a + b + n) BY <1>3, <1>5, <1>6, SeqEqual
<1> QED BY <1>7 DEF u

\* Where the first i parts end in the virtual file.
Reach(parts, i) == PartsLen(SubSeq(parts, 1, i))

\* What a part adds to those before it.
Reached(C, file, parts, i) ==
  /\ Reach(parts, i) = Reach(parts, i - 1) + parts[i].len
  /\ Reach(parts, i - 1) \in Nat /\ parts[i].len \in Nat
  /\ Reach(parts, i - 1) = Len(Content(SubSeq(parts, 1, i - 1), file))
  /\ Reach(parts, i) = Len(Content(SubSeq(parts, 1, i), file))
  /\ Content(SubSeq(parts, 1, i), file)
       = Content(SubSeq(parts, 1, i - 1), file) \o PartCells(parts[i], file)
  /\ Content(SubSeq(parts, 1, i - 1), file) \in Seq(C)
  /\ Content(SubSeq(parts, 1, i), file) \in Seq(C)

LEMMA ReachStep ==
  ASSUME NEW C, NEW file, NEW parts, NEW i,
         file \in Seq(C), parts \in Seq(Part(C, file)), i \in 1..Len(parts)
  PROVE  Reached(C, file, parts, i)
<1> DEFINE P == Part(C, file)
           u == SubSeq(parts, 1, i - 1)
           v == SubSeq(parts, 1, i)
<1>1. parts \in Seq(P) /\ parts[i] \in P OBVIOUS
<1>2. u \in Seq(P) /\ v \in Seq(P) /\ v = Append(u, parts[i])
  <2> HIDE DEF P
  <2> QED BY <1>1, PrefixAppend
<1> HIDE DEF u, v
<1>3. Content(v, file) = Content(u, file) \o PartCells(parts[i], file) BY <1>1, <1>2, ContentAppend
<1>4. Content(u, file) \in Seq(C) /\ Content(v, file) \in Seq(C) BY <1>2, ContentType
<1>5. PartCells(parts[i], file) \in Seq(C) /\ Len(PartCells(parts[i], file)) = parts[i].len
  BY <1>1, PartCellsType
<1>6. PartsLen(u) = Len(Content(u, file)) /\ PartsLen(v) = Len(Content(v, file)) BY <1>2, PartsLenContent
<1>7. Len(Content(v, file)) = Len(Content(u, file)) + parts[i].len
  BY <1>3, <1>4, <1>5, ConcatProperties
<1>8. Len(Content(u, file)) \in Nat BY <1>4, LenProperties
<1>9. parts[i].len \in Nat BY <1>1 DEF Part
<1> QED BY <1>3, <1>4, <1>6, <1>7, <1>8, <1>9 DEF Reached, Reach, u, v

LEMMA ReachEnds ==
  ASSUME NEW C, NEW file, NEW parts, file \in Seq(C), parts \in Seq(Part(C, file))
  PROVE  /\ Reach(parts, 0) = 0
         /\ Reach(parts, Len(parts)) = Len(Content(parts, file))
         /\ Reach(parts, Len(parts)) = PartsLen(parts)
<1> DEFINE P == Part(C, file)
<1>1. parts \in Seq(P) OBVIOUS
<1>2. SubSeq(parts, 1, Len(parts)) = parts
  <2> HIDE DEF P
  <2> QED BY <1>1, WholeSubSeq
<1>3. SubSeq(parts, 1, 0) = <<>> BY SubSeqEmpty
<1>4. <<>> \in Seq(P) OBVIOUS
<1>5. PartsLen(<<>>) = Len(Content(<<>>, file)) /\ PartsLen(parts) = Len(Content(parts, file))
  BY <1>1, <1>4, PartsLenContent
<1>6. Content(<<>>, file) = <<>> BY ContentEmpty
<1> QED BY <1>2, <1>3, <1>5, <1>6 DEF Reach

\* A part's cells are where it is in the virtual file, which is what is before it and it.
PlacedAt(parts, file, i, k) ==
  /\ SubSeq(Content(SubSeq(parts, 1, k), file), Reach(parts, i - 1) + 1, Reach(parts, i))
       = PartCells(parts[i], file)
  /\ Reach(parts, i) <= Reach(parts, k)

LEMMA PartPlace ==
  ASSUME NEW C, NEW file, NEW parts, NEW i, NEW k,
         file \in Seq(C), parts \in Seq(Part(C, file)), i \in 1..Len(parts), k \in i..Len(parts)
  PROVE  PlacedAt(parts, file, i, k)
<1> DEFINE n == Len(parts)
           S == {j \in i..n : PlacedAt(parts, file, i, j)}
<1>0. n \in Nat OBVIOUS
<1>r. Reached(C, file, parts, i) BY ReachStep
<1>1. i <= n => i \in S
  <2> DEFINE s == Content(SubSeq(parts, 1, i - 1), file)
             t == PartCells(parts[i], file)
  <2>1. s \in Seq(C) /\ Content(SubSeq(parts, 1, i), file) = s \o t /\ Reach(parts, i - 1) = Len(s)
        /\ Reach(parts, i) = Reach(parts, i - 1) + parts[i].len /\ parts[i].len \in Nat
    BY <1>r DEF Reached
  <2>2. t \in Seq(C) /\ Len(t) = parts[i].len
    <3>1. parts[i] \in Part(C, file) OBVIOUS
    <3> QED BY <3>1, PartCellsType
  <2> HIDE DEF s, t
  <2>3. SubSeq(s \o t, Len(s) + 1, Len(s) + Len(t)) = t BY <2>1, <2>2, SliceOfSecond
  <2>4. Reach(parts, i) <= Reach(parts, i)
    <3>1. Len(s) \in Nat BY <2>1, LenProperties
    <3> QED BY <2>1, <3>1
  <2>5. PlacedAt(parts, file, i, i) BY <2>1, <2>2, <2>3, <2>4 DEF PlacedAt, t
  <2> QED BY <2>5
<1>2. ASSUME NEW j \in i..n, j > i, j - 1 \in S PROVE j \in S
  <2> DEFINE s == Content(SubSeq(parts, 1, j - 1), file)
             t == PartCells(parts[j], file)
             a == Reach(parts, i - 1)
             m == parts[i].len
  <2>0. j \in 1..Len(parts) BY <1>0
  <2>r. Reached(C, file, parts, j) BY <2>0, ReachStep
  <2>1. /\ s \in Seq(C) /\ Content(SubSeq(parts, 1, j), file) = s \o t /\ Reach(parts, j - 1) = Len(s)
        /\ Reach(parts, j) = Reach(parts, j - 1) + parts[j].len
        /\ parts[j].len \in Nat /\ Reach(parts, j - 1) \in Nat
    BY <2>r DEF Reached
  <2>2. t \in Seq(C)
    <3>1. parts[j] \in Part(C, file) BY <2>0
    <3> QED BY <3>1, PartCellsType
  <2>3. a \in Nat /\ m \in Nat /\ Reach(parts, i) = a + m BY <1>r DEF Reached
  <2>4. SubSeq(s, a + 1, Reach(parts, i)) = PartCells(parts[i], file) /\ Reach(parts, i) <= Reach(parts, j - 1)
    BY <1>2 DEF PlacedAt
  <2> HIDE DEF s, t, a, m
  <2>5. SubSeq(s \o t, a + 1, a + m) = SubSeq(s, a + 1, a + m) BY <2>1, <2>2, <2>3, <2>4, SliceOfFirst
  <2>6. Reach(parts, i) <= Reach(parts, j) BY <2>1, <2>3, <2>4
  <2>7. PlacedAt(parts, file, i, j) BY <2>1, <2>3, <2>4, <2>5, <2>6 DEF PlacedAt, a
  <2> QED BY <2>7
<1>3. Within(i, n, S)
  <2>1. i \in Int /\ n \in Int BY <1>0
  <2> HIDE DEF n, S
  <2> QED BY <2>1, <1>1, <1>2, RangeInduction
<1> QED BY <1>3 DEF Within

LEMMA ReachMonotonic ==
  ASSUME NEW C, NEW file, NEW parts, NEW i, NEW k,
         file \in Seq(C), parts \in Seq(Part(C, file)), i \in 0..Len(parts), k \in i..Len(parts)
  PROVE  Reach(parts, i) \in Nat /\ Reach(parts, i) <= Reach(parts, k)
<1>0. Len(parts) \in Nat OBVIOUS
<1>1. \A j \in 1..Len(parts) : Reached(C, file, parts, j) BY ReachStep
<1>2. \A j \in 0..Len(parts) : Reach(parts, j) \in Nat
  <2> SUFFICES ASSUME NEW j \in 0..Len(parts) PROVE Reach(parts, j) \in Nat OBVIOUS
  <2>1. CASE j = 0 BY <2>1, ReachEnds
  <2>2. CASE j # 0
    <3>1. j \in 1..Len(parts) BY <2>2
    <3>2. Reach(parts, j) = Reach(parts, j - 1) + parts[j].len /\ Reach(parts, j - 1) \in Nat /\ parts[j].len \in Nat
      BY <3>1, <1>1 DEF Reached
    <3> QED BY <3>2
  <2> QED BY <2>1, <2>2
<1>3. CASE i = 0
  <2>1. Reach(parts, 0) = 0 BY ReachEnds
  <2> QED BY <2>1, <1>0, <1>2, <1>3
<1>4. CASE i # 0
  <2>1. i \in 1..Len(parts) BY <1>4
  <2>2. PlacedAt(parts, file, i, k) BY <2>1, PartPlace
  <2> QED BY <1>2, <2>2 DEF PlacedAt
<1> QED BY <1>3, <1>4

-----------------------------------------------------------------------------
(* Reads.                                                                    *)

\* What a read takes from a part: n cells, b cells after its first.
Taken(p, file, b, n) ==
  IF p.literal THEN SubSeq(p.data, b + 1, b + n) ELSE SubSeq(file, p.off + b + 1, p.off + b + n)

Covers(p, b, n) == b \in Nat /\ n \in Nat /\ b + n <= p.len

LEMMA TakenIsSlice ==
  ASSUME NEW C, NEW file, NEW p, NEW b, NEW n, file \in Seq(C), p \in Part(C, file), Covers(p, b, n)
  PROVE  Taken(p, file, b, n) = SubSeq(PartCells(p, file), b + 1, b + n)
<1>1. CASE p.literal BY <1>1 DEF Taken, PartCells
<1>2. CASE ~p.literal
  <2> DEFINE a == p.off
             m == p.len
  <2>1. a \in Nat /\ m \in Nat /\ a + m <= Len(file) BY <1>2 DEF Part
  <2>2. b \in Nat /\ n \in Nat /\ b + n <= m BY DEF Covers
  <2> HIDE DEF a, m
  <2>3. SubSeq(SubSeq(file, a + 1, a + m), b + 1, b + n) = SubSeq(file, a + b + 1, a + b + n)
    BY <2>1, <2>2, SliceOfSlice
  <2> QED BY <1>2, <2>3 DEF Taken, PartCells, a, m
<1> QED BY <1>1, <1>2

\* Between two places in a part, that is what the virtual file has.
LEMMA TakenFromContent ==
  ASSUME NEW C, NEW file, NEW parts, NEW i, NEW x, NEW y,
         file \in Seq(C), parts \in Seq(Part(C, file)), i \in 1..Len(parts),
         x \in Nat, y \in Nat, Reach(parts, i - 1) <= x, x <= y, y <= Reach(parts, i)
  PROVE  /\ Taken(parts[i], file, x - Reach(parts, i - 1), y - x) = SubSeq(Content(parts, file), x + 1, y)
         /\ y <= Len(Content(parts, file))
<1> DEFINE a == Reach(parts, i - 1)
           m == parts[i].len
           b == x - a
           n == y - x
           K == Content(parts, file)
           P == Part(C, file)
<1>0. parts \in Seq(P) /\ parts[i] \in P /\ Len(parts) \in i..Len(parts) OBVIOUS
<1>1. a \in Nat /\ m \in Nat /\ Reach(parts, i) = a + m
  <2>1. Reached(C, file, parts, i) BY ReachStep
  <2> QED BY <2>1 DEF Reached
<1>2. SubSeq(K, a + 1, a + m) = PartCells(parts[i], file) /\ a + m <= Len(K)
  <2>1. PlacedAt(parts, file, i, Len(parts)) BY <1>0, PartPlace
  <2>2. SubSeq(parts, 1, Len(parts)) = parts
    <3> HIDE DEF P
    <3> QED BY <1>0, WholeSubSeq
  <2>3. Reach(parts, Len(parts)) = Len(K) BY ReachEnds
  <2> QED BY <1>1, <2>1, <2>2, <2>3 DEF PlacedAt
<1>3. K \in Seq(C) BY ContentType
<1>4. b \in Nat /\ n \in Nat /\ b + n <= m /\ a + b = x /\ a + b + n = y
  <2>1. a <= x /\ y <= a + m BY <1>1
  <2> HIDE DEF a, m
  <2> QED BY <1>1, <2>1
<1>5. Taken(parts[i], file, b, n) = SubSeq(PartCells(parts[i], file), b + 1, b + n)
  <2> DEFINE p == parts[i]
  <2>1. p \in Part(C, file) /\ Covers(p, b, n) BY <1>0, <1>4 DEF Covers
  <2> HIDE DEF b, n, p
  <2>2. Taken(p, file, b, n) = SubSeq(PartCells(p, file), b + 1, b + n) BY <2>1, TakenIsSlice
  <2> QED BY <2>2 DEF p
<1>6. SubSeq(SubSeq(K, a + 1, a + m), b + 1, b + n) = SubSeq(K, a + b + 1, a + b + n)
  <2> HIDE DEF a, m, b, n, K
  <2> QED BY <1>1, <1>2, <1>3, <1>4, SliceOfSlice
<1>7. y <= Len(K)
  <2>1. Len(K) \in Nat BY <1>3, LenProperties
  <2> QED BY <2>1, <1>1, <1>2
<1>8. Taken(parts[i], file, b, n) = SubSeq(K, x + 1, y)
  <2> HIDE DEF a, m, b, n, K
  <2> QED BY <1>2, <1>4, <1>5, <1>6
<1> QED BY <1>7, <1>8

\* The part a read starts in: the last one that does not start later.
First(parts, off, i) ==
  /\ i \in 1..Len(parts) /\ Reach(parts, i - 1) <= off
  /\ \A j \in (i + 1)..Len(parts) : Reach(parts, j - 1) > off

StartsIn(parts, off) == \E i \in 1..Len(parts) : First(parts, off, i)

LEMMA FirstExists ==
  ASSUME NEW C, NEW file, NEW parts, NEW off,
         file \in Seq(C), parts \in Seq(Part(C, file)), off \in Nat, off < Reach(parts, Len(parts))
  PROVE  StartsIn(parts, off)
<1> DEFINE n == Len(parts)
           T == {k \in Nat : k < n /\ Reach(parts, n - k - 1) <= off}
<1>0. n \in Nat OBVIOUS
<1>1. Reach(parts, 0) = 0 BY ReachEnds
<1>2. n # 0 BY <1>1
<1>3. n - 1 \in T
  <2>1. n - 1 \in Nat /\ n - (n - 1) - 1 = 0 BY <1>0, <1>2
  <2>2. n - 1 < n BY <1>0
  <2>3. Reach(parts, n - (n - 1) - 1) = Reach(parts, 0) BY <2>1
  <2> HIDE DEF n
  <2> QED BY <2>1, <2>2, <2>3, <1>1
<1>4. T \in SUBSET Nat OBVIOUS
<1>5. PICK k \in T : \A m \in T : k <= m
  <2> HIDE DEF T
  <2> QED BY <1>3, <1>4, LeastNumber
<1> DEFINE i == n - k
<1>6. i \in 1..n /\ Reach(parts, i - 1) <= off BY <1>0
<1>7. ASSUME NEW j \in (i + 1)..n PROVE Reach(parts, j - 1) > off
  <2>1. n - j \in Nat /\ n - j < k /\ n - j < n /\ n - (n - j) - 1 = j - 1 /\ j - 1 \in 0..n BY <1>0, <1>6
  <2>2. n - j \notin T
    <3> HIDE DEF T
    <3> QED BY <1>5, <2>1, <1>4
  <2>3. Reach(parts, j - 1) \in Nat
    <3>1. n \in (j - 1)..n BY <1>0, <2>1
    <3> QED BY <2>1, <3>1, ReachMonotonic
  <2>4. ~(Reach(parts, n - (n - j) - 1) <= off) BY <2>1, <2>2
  <2> QED BY <2>1, <2>3, <2>4
<1> HIDE DEF i
<1> QED BY <1>6, <1>7 DEF First, StartsIn

\* Where a read that starts in the part first is after the part i.
ReadTo(parts, first, off, n, i) ==
  IF i = first - 1 THEN off ELSE IF off + n < Reach(parts, i) THEN off + n ELSE Reach(parts, i)

\* The step of a read over a part: it goes on inside the part, or it has all it wants.
ReadOn(parts, first, off, n, i) ==
  LET x == ReadTo(parts, first, off, n, i - 1)
      y == ReadTo(parts, first, off, n, i)
  IN  /\ x \in Nat /\ y \in Nat /\ off <= x /\ x <= y /\ x <= Reach(parts, Len(parts))
      /\ Want(parts[i], x - Reach(parts, i - 1), n - (x - off)) = y - x
      /\ Reach(parts, i - 1) \in Nat
      /\ (Reach(parts, i - 1) <= x /\ y <= Reach(parts, i)) \/ x = y

LEMMA ReadGoesOn ==
  ASSUME NEW C, NEW file, NEW parts, NEW off, NEW n, NEW first, NEW i,
         file \in Seq(C), parts \in Seq(Part(C, file)), off \in Nat, n \in Nat,
         off < Reach(parts, Len(parts)), First(parts, off, first), i \in first..Len(parts)
  PROVE  ReadOn(parts, first, off, n, i)
<1> DEFINE a == Reach(parts, i - 1)
           m == parts[i].len
           N == Len(parts)
           x == ReadTo(parts, first, off, n, i - 1)
           y == ReadTo(parts, first, off, n, i)
<1>1. first \in 1..N /\ i \in 1..N /\ N \in Nat /\ i - 1 \in 0..N /\ i \in 0..N BY DEF First
<1>2. a \in Nat /\ m \in Nat /\ Reach(parts, i) = a + m
  <2>1. Reached(C, file, parts, i) BY <1>1, ReachStep
  <2> QED BY <2>1 DEF Reached
<1>3. off < Reach(parts, i)
  <2>1. CASE i = N BY <2>1
  <2>2. CASE i # N
    <3>1. i + 1 \in (first + 1)..N /\ (i + 1) - 1 = i BY <1>1, <2>2
    <3>2. Reach(parts, (i + 1) - 1) > off BY <3>1 DEF First
    <3> QED BY <3>1, <3>2
  <2> QED BY <2>1, <2>2
<1>4. i # first => off < a
  <2>1. i # first => i \in (first + 1)..N BY <1>1
  <2> QED BY <2>1 DEF First
<1>5. i = first => a <= off BY DEF First
<1>6. a <= Reach(parts, N)
  <2>1. N \in (i - 1)..N BY <1>1
  <2> QED BY <1>1, <2>1, ReachMonotonic
<1>7. y = IF off + n < a + m THEN off + n ELSE a + m BY <1>1, <1>2 DEF ReadTo
<1>8. x = IF i = first THEN off ELSE IF off + n < a THEN off + n ELSE a BY <1>1 DEF ReadTo
<1>9. Want(parts[i], x - a, n - (x - off))
        = IF m - (x - a) > n - (x - off) THEN n - (x - off) ELSE m - (x - a)
  BY DEF Want
<1>10. off < a + m /\ off < Reach(parts, N) BY <1>2, <1>3
<1> HIDE DEF a, m, N, x, y
<1>11. Reach(parts, N) \in Nat
  <2>1. N \in 0..N /\ N \in N..N BY <1>1
  <2>2. Len(parts) \in 0..Len(parts) /\ Len(parts) \in Len(parts)..Len(parts) BY <2>1 DEF N
  <2> QED BY <2>2, ReachMonotonic DEF N
<1>12. x \in Nat /\ y \in Nat /\ off <= x /\ x <= y /\ x <= Reach(parts, N)
  BY <1>1, <1>2, <1>4, <1>5, <1>6, <1>7, <1>8, <1>10, <1>11
<1>13. (a <= x /\ y <= a + m) \/ x = y BY <1>1, <1>2, <1>4, <1>5, <1>7, <1>8, <1>10
<1>14. Want(parts[i], x - a, n - (x - off)) = y - x
  BY <1>1, <1>2, <1>4, <1>5, <1>7, <1>8, <1>9, <1>10, <1>12
<1> QED BY <1>2, <1>12, <1>13, <1>14 DEF ReadOn, a, x, y, N

\* A read gives what the virtual file has there, up to n cells or to its end, whatever
\* parts it spans and wherever in them it starts and ends (ReadAt).
ReadExactly(parts, file, off, n) ==
  ReadAt(parts, file, off, n) =
    SubSeq(Content(parts, file), off + 1,
           IF off + n < Len(Content(parts, file)) THEN off + n ELSE Len(Content(parts, file)))

THEOREM ReadsAreExact ==
  ASSUME NEW C, NEW file, NEW parts, NEW off, NEW n,
         file \in Seq(C), parts \in Seq(Part(C, file)), off \in Nat, n \in Nat
  PROVE  ReadExactly(parts, file, off, n)
<1> DEFINE K == Content(parts, file)
           N == Len(parts)
           end == IF off + n < Len(K) THEN off + n ELSE Len(K)
<1>1. K \in Seq(C) /\ Len(K) \in Nat /\ N \in Nat /\ PartsLen(parts) = Len(K) /\ Reach(parts, N) = Len(K)
  <2>1. K \in Seq(C) BY ContentType
  <2>2. Len(K) \in Nat BY <2>1, LenProperties
  <2>3. Reach(parts, N) = Len(K) /\ Reach(parts, N) = PartsLen(parts) BY ReachEnds
  <2> QED BY <2>1, <2>2, <2>3
<1>2. CASE off >= PartsLen(parts)
  <2>1. ReadAt(parts, file, off, n) = <<>> BY <1>2 DEF ReadAt
  <2>2. off + 1 \in Int /\ end \in Int /\ end < off + 1 BY <1>1, <1>2
  <2>3. SubSeq(K, off + 1, end) = <<>>
    <3> HIDE DEF K, end
    <3> QED BY <2>2, SubSeqEmpty
  <2> QED BY <2>1, <2>3 DEF ReadExactly
<1>3. CASE ~(off >= PartsLen(parts))
  <2> DEFINE offsets == Offsets(parts)
             first == CHOOSE i \in DOMAIN parts :
                        offsets[i] <= off /\ \A j \in (i + 1)..Len(parts) : offsets[j] > off
  <2>0. off < Reach(parts, N) BY <1>1, <1>3
  <2>1. \A i \in 1..N : offsets[i] = Reach(parts, i - 1)
    <3>1. DOMAIN parts = 1..N OBVIOUS
    <3> QED BY <3>1 DEF Offsets, Reach
  <2>2. First(parts, off, first)
    <3>1. StartsIn(parts, off) BY <2>0, FirstExists
    <3>2. PICK i \in 1..N : First(parts, off, i) BY <3>1 DEF StartsIn
    <3>3. DOMAIN parts = 1..N OBVIOUS
    <3>4. \A j \in 1..N : \A k \in (j + 1)..N : k \in 1..N BY <1>1
    <3> HIDE DEF offsets
    <3>5. \A j \in 1..N : First(parts, off, j)
            <=> offsets[j] <= off /\ \A k \in (j + 1)..N : offsets[k] > off
      BY <2>1, <3>4 DEF First
    <3>6. \E j \in DOMAIN parts : offsets[j] <= off /\ \A k \in (j + 1)..Len(parts) : offsets[k] > off
      BY <3>2, <3>3, <3>5
    <3>7. first \in DOMAIN parts /\ offsets[first] <= off /\ \A k \in (first + 1)..Len(parts) : offsets[k] > off
      BY <3>6
    <3> HIDE DEF first
    <3> QED BY <3>3, <3>5, <3>7
  <2> DEFINE read[i \in (first - 1)..Len(parts)] ==
               IF i = first - 1 THEN <<>>
               ELSE LET got == read[i - 1]
                        within == off + Len(got) - offsets[i]
                        want == Want(parts[i], within, n - Len(got))
                    IN  got \o IF parts[i].literal THEN SubSeq(parts[i].data, within + 1, within + want)
                               ELSE SubSeq(file, parts[i].off + within + 1, parts[i].off + within + want)
  <2>3. ReadAt(parts, file, off, n) = read[Len(parts)] BY <1>3 DEF ReadAt
  <2> DEFINE next(got, i) ==
               got \o Taken(parts[i], file, off + Len(got) - offsets[i],
                            Want(parts[i], off + Len(got) - offsets[i], n - Len(got)))
             to(i) == ReadTo(parts, first, off, n, i)
             g == [i \in (first - 1)..N |-> SubSeq(K, off + 1, to(i))]
  <2>4. first \in 1..N /\ first \in Int BY <2>2 DEF First
  <2>5. g[first - 1] = <<>>
    <3>1. to(first - 1) = off BY DEF ReadTo
    <3>2. SubSeq(K, off + 1, off) = <<>> BY SubSeqEmpty
    <3>3. first - 1 \in (first - 1)..N BY <1>1, <2>4
    <3> HIDE DEF K, to, first, N
    <3> QED BY <3>1, <3>2, <3>3
  <2>6. ASSUME NEW i \in first..N PROVE g[i] = next(g[i - 1], i)
    <3> DEFINE x == to(i - 1)
               y == to(i)
               a == Reach(parts, i - 1)
               p == parts[i]
    <3>1. i \in 1..N /\ i - 1 \in (first - 1)..N /\ i \in (first - 1)..N /\ i \in first..Len(parts)
      BY <1>1, <2>4
    <3>2. ReadOn(parts, first, off, n, i)
      <4> HIDE DEF first
      <4> QED BY <2>0, <2>2, <3>1, ReadGoesOn
    <3>3. /\ x \in Nat /\ y \in Nat /\ off <= x /\ x <= y /\ x <= Len(K) /\ a \in Nat
          /\ Want(p, x - a, n - (x - off)) = y - x
          /\ (a <= x /\ y <= Reach(parts, i)) \/ x = y
      <4> HIDE DEF first, K
      <4> QED BY <3>2, <1>1 DEF ReadOn
    <3>4. g[i - 1] = SubSeq(K, off + 1, x) /\ g[i] = SubSeq(K, off + 1, y)
      <4> HIDE DEF K, to, first, N
      <4> QED BY <3>1
    <3>5. offsets[i] = a BY <2>1, <3>1
    <3> HIDE DEF first, K, to, g, offsets, x, y, a, p
    <3>6. Len(SubSeq(K, off + 1, x)) = x - off
      <4> DEFINE k == x - off
      <4>1. k \in Nat /\ off + k = x BY <3>3
      <4> HIDE DEF k
      <4>2. Len(SubSeq(K, off + 1, off + k)) = k BY <1>1, <3>3, <4>1, SliceType
      <4> QED BY <4>1, <4>2 DEF k
    <3>7. off + Len(g[i - 1]) - offsets[i] = x - a /\ n - Len(g[i - 1]) = n - (x - off)
      BY <3>3, <3>4, <3>5, <3>6
    <3>8. next(g[i - 1], i) = g[i - 1] \o Taken(p, file, x - a, y - x) BY <3>3, <3>7 DEF p
    <3>9. Taken(p, file, x - a, y - x) = SubSeq(K, x + 1, y) /\ (x = y \/ y <= Len(K))
      <4>1. CASE x = y
        <5>1. SubSeq(K, x + 1, y) = <<>>
          <6>1. x + 1 \in Int /\ y \in Int /\ y < x + 1 BY <3>3, <4>1
          <6> QED BY <6>1, SubSeqEmpty
        <5>2. parts[i] \in Part(C, file) BY <3>1
        <5>3. p.off \in Nat BY <5>2 DEF p, Part
        <5> DEFINE b == x - a
                   o == p.off
        <5>4. b \in Int /\ o \in Int /\ y - x = 0 BY <3>3, <4>1, <5>3
        <5> HIDE DEF b, o
        <5>5. SubSeq(p.data, b + 1, b + 0) = <<>>
          <6>1. b + 1 \in Int /\ b + 0 \in Int /\ b + 0 < b + 1 BY <5>4
          <6> QED BY <6>1, SubSeqEmpty
        <5>6. SubSeq(file, o + b + 1, o + b + 0) = <<>>
          <6>1. o + b + 1 \in Int /\ o + b + 0 \in Int /\ o + b + 0 < o + b + 1 BY <5>4
          <6> QED BY <6>1, SubSeqEmpty
        <5>7. Taken(p, file, b, 0) = <<>> BY <5>5, <5>6 DEF Taken, o
        <5> QED BY <4>1, <5>1, <5>4, <5>7 DEF b
      <4>2. CASE x # y
        <5>1. a <= x /\ y <= Reach(parts, i) BY <3>3, <4>2
        <5>2. Taken(parts[i], file, x - Reach(parts, i - 1), y - x) = SubSeq(Content(parts, file), x + 1, y)
              /\ y <= Len(Content(parts, file))
          BY <3>1, <3>3, <5>1, TakenFromContent DEF a
        <5> QED BY <5>2 DEF p, a, K
      <4> QED BY <4>1, <4>2
    <3>10. SubSeq(K, off + 1, x) \o SubSeq(K, x + 1, y) = SubSeq(K, off + 1, y)
      <4>1. off + 1 \in 1..(Len(K) + 1) /\ x \in ((off + 1) - 1)..Len(K) /\ y \in x..Len(K)
        BY <1>1, <3>3, <3>9
      <4> QED BY <1>1, <4>1, ConcatAdjacentSubSeq
    <3> QED BY <3>4, <3>8, <3>9, <3>10
  <2> DEFINE R(h) == [i \in (first - 1)..Len(parts) |->
                        IF i = first - 1 THEN <<>> ELSE next(h[i - 1], i)]
  <2>7. g = R(g)
    <3>1. \A i \in (first - 1)..N : i # first - 1 => i \in first..N BY <2>4
    <3> HIDE DEF next, first, to, K, N
    <3>2. \A i \in (first - 1)..N : g[i] = IF i = first - 1 THEN <<>> ELSE next(g[i - 1], i)
      <4> HIDE DEF g
      <4> QED BY <2>5, <2>6, <3>1
    <3>3. g = [i \in (first - 1)..N |-> g[i]] OBVIOUS
    <3> HIDE DEF g
    <3> QED BY <3>2, <3>3 DEF N
  <2>8. read = R(read)
    <3> HIDE DEF g, first, offsets
    <3> QED BY <2>7 DEF Taken
  <2>9. Agree(g, read, first - 1, N)
    <3> HIDE DEF g, read
    <3>1. \A i \in (first - 1)..N : /\ g[i] = IF i = first - 1 THEN <<>> ELSE next(g[i - 1], i)
                                    /\ read[i] = IF i = first - 1 THEN <<>> ELSE next(read[i - 1], i)
      <4> HIDE DEF next, first
      <4> QED BY <2>7, <2>8
    <3> HIDE DEF next, first, N
    <3>2. first - 1 <= N => g[first - 1] = read[first - 1]
      <4>1. first - 1 \in (first - 1)..N BY <1>1, <2>4
      <4> QED BY <3>1, <4>1
    <3>3. \A i \in (first - 1)..N : i > first - 1 /\ g[i - 1] = read[i - 1] => g[i] = read[i] BY <3>1, <2>4
    <3>4. first - 1 \in Int /\ N \in Int BY <1>1, <2>4
    <3> QED BY <3>2, <3>3, <3>4, FiniteRecursionUnique
  <2>10. g[N] = read[N]
    <3>1. N \in (first - 1)..N BY <1>1, <2>4
    <3> HIDE DEF g, read, first, N
    <3> QED BY <2>9, <3>1 DEF Agree
  <2>11. g[N] = SubSeq(K, off + 1, end)
    <3>1. N \in (first - 1)..N /\ N # first - 1 BY <1>1, <2>4
    <3> HIDE DEF first, K, N
    <3>2. to(N) = IF off + n < Len(K) THEN off + n ELSE Len(K) BY <1>1, <3>1 DEF ReadTo
    <3> QED BY <3>1, <3>2
  <2> HIDE DEF g, read, K
  <2> QED BY <2>3, <2>10, <2>11 DEF ReadExactly, K
<1> QED BY <1>2, <1>3
=============================================================================
