--------------------------- MODULE SequenceLemmas ---------------------------
(***************************************************************************)
(* Facts about numbers and sequences the proofs of several components      *)
(* need.  Induction over data is by least counterexample: a set of numbers *)
(* has a least, and a bounded one a greatest.  So a sequence of sequences  *)
(* in one (FlattenSeq) holds each item of each, in one place and in order. *)
(***************************************************************************)
EXTENDS Positions, SequencesExt, WellFoundedInduction, FiniteSetTheorems, SequenceTheorems, TLAPS

LEMMA LeastNumber ==
  ASSUME NEW T, T \subseteq Nat, T # {}
  PROVE  \E m \in T : \A n \in T : m <= n
  <1> DEFINE R == OpToRel(<, Nat)
  <1>1. IsWellFoundedOn(R, Nat)
    BY NatLessThanWellFounded
  <1>2. \A n, m \in Nat : n < m => <<n, m>> \in R
    BY DEF OpToRel
  <1> HIDE DEF R
  <1>3. PICK x \in T : \A y \in T : ~(<<y, x>> \in R)
    BY <1>1, WFMin
  <1>4. \A y \in T : ~(y < x)
    BY <1>2, <1>3
  <1> QED
    BY <1>4

LEMMA BoundedHasGreatest ==
  ASSUME NEW T, T \subseteq Nat, T # {}, NEW bound \in Nat, \A n \in T : n <= bound
  PROVE  \E m \in T : \A n \in T : n <= m
  <1> DEFINE bounds == {b \in Nat : \A n \in T : n <= b}
  <1>1. PICK m \in bounds : \A b \in bounds : m <= b
    <2>1. bounds \subseteq Nat /\ bound \in bounds
      OBVIOUS
    <2> HIDE DEF bounds
    <2> QED
      BY <2>1, LeastNumber
  <1>2. CASE m \in T
    BY <1>1, <1>2
  <1>3. CASE m \notin T
    <2>1. PICK t \in T : TRUE
      OBVIOUS
    <2>2. \A n \in T : n \in Nat /\ n <= m /\ n # m
      BY <1>1, <1>3
    <2>3. m - 1 \in Nat
      BY <1>1, <2>1, <2>2
    <2>4. m - 1 \in bounds
      BY <1>1, <2>2, <2>3
    <2> QED
      BY <1>1, <2>3, <2>4
  <1> QED
    BY <1>2, <1>3

LEMMA AllUpTo ==
  ASSUME NEW S, NEW N \in Nat, 0 \in S, \A n \in 0..N : n \in S /\ n < N => n + 1 \in S
  PROVE  \A n \in 0..N : n \in S
<1> DEFINE T == {n \in 0..N : n \notin S}
<1>1. CASE T # {}
  <2>1. T \subseteq Nat
    OBVIOUS
  <2>2. PICK m \in T : \A n \in T : m <= n
    <3> HIDE DEF T
    <3> QED BY <1>1, <2>1, LeastNumber
  <2>3. m # 0 /\ m \in 0..N /\ m \notin S
    OBVIOUS
  <2>4. m - 1 \in 0..N /\ m - 1 < N /\ m - 1 < m
    BY <2>3
  <2>5. m - 1 \in S
    BY <2>2, <2>3, <2>4
  <2> QED BY <2>3, <2>4, <2>5
<1> QED BY <1>1

LEMMA FunctionIsSeq ==
  ASSUME NEW S, NEW n \in Nat, NEW f \in [1..n -> S]
  PROVE  f \in Seq(S) /\ Len(f) = n
BY SeqDef

-----------------------------------------------------------------------------
\* FlattenSeq joins a sequence of sequences from its first on.
Joins(g, ss, n) == g = [i \in 1..n |-> IF i = 1 THEN ss[i] ELSE g[i - 1] \o ss[i]]

LEMMA JoinsExtend ==
  ASSUME NEW n \in Nat, NEW ss, NEW g, Joins(g, ss, n)
  PROVE  \E h : Joins(h, ss, n + 1)
<1> DEFINE h == [i \in 1..(n + 1) |-> IF i <= n THEN g[i] ELSE IF i = 1 THEN ss[i] ELSE g[n] \o ss[i]]
<1>1. \A i \in 1..n : g[i] = IF i = 1 THEN ss[i] ELSE g[i - 1] \o ss[i]
  BY DEF Joins
<1>2. \A i \in 1..n : h[i] = g[i]
  OBVIOUS
<1>3. \A i \in 1..(n + 1) : h[i] = IF i = 1 THEN ss[i] ELSE h[i - 1] \o ss[i]
  <2> TAKE i \in 1..(n + 1)
  <2>1. CASE i <= n
    <3>1. i \in 1..n /\ h[i] = g[i] /\ (i # 1 => i - 1 \in 1..n)
      BY <2>1
    <3> QED BY <3>1, <1>1, <1>2
  <2>2. CASE ~(i <= n)
    <3>1. i = n + 1 /\ (i # 1 => n \in 1..n /\ i - 1 = n)
      BY <2>2
    <3>2. h[i] = IF i = 1 THEN ss[i] ELSE g[n] \o ss[i]
      BY <2>2
    <3> QED BY <3>1, <3>2, <1>2
  <2> QED BY <2>1, <2>2
<1>4. Joins(h, ss, n + 1)
  <2>1. h = [i \in 1..(n + 1) |-> h[i]]
    OBVIOUS
  <2> HIDE DEF h
  <2> QED BY <2>1, <1>3 DEF Joins
<1> QED BY <1>4

LEMMA JoinsExist ==
  ASSUME NEW n \in Nat, NEW ss
  PROVE  \E g : Joins(g, ss, n)
<1> DEFINE T == {m \in Nat : ~ \E g : Joins(g, ss, m)}
<1>1. SUFFICES ASSUME T # {} PROVE FALSE
  OBVIOUS
<1>2. PICK m \in T : \A k \in T : m <= k
  BY <1>1, LeastNumber
<1>3. m # 0
  <2>1. Joins([i \in 1..0 |-> 0], ss, 0)
    BY DEF Joins
  <2> QED BY <1>2, <2>1
<1>4. m - 1 \in Nat /\ m - 1 \notin T /\ m - 1 + 1 = m
  BY <1>2, <1>3
<1>5. PICK g : Joins(g, ss, m - 1)
  BY <1>4
<1> QED BY <1>2, <1>4, <1>5, JoinsExtend

LEMMA FlattenIs ==
  ASSUME NEW S, NEW ss \in Seq(S), ss # << >>
  PROVE  \E g : Joins(g, ss, Len(ss)) /\ FlattenSeq(ss) = g[Len(ss)]
<1>1. Len(ss) \in Nat /\ Len(ss) # 0
  BY EmptySeq, LenProperties
<1> DEFINE f == CHOOSE g : g = [i \in 1..Len(ss) |-> IF i = 1 THEN ss[i] ELSE g[i - 1] \o ss[i]]
<1>2. Joins(f, ss, Len(ss))
  BY <1>1, JoinsExist DEF Joins
<1>3. FlattenSeq(ss) = f[Len(ss)]
  BY <1>1 DEF FlattenSeq
<1> QED BY <1>2, <1>3

\* s holds just the i-th items of the k-th sequences, for all these pairs <<k, i>>.
Pairs(ss, n) == {p \in (1..n) \X Nat : p[2] \in 1..Len(ss[p[1]])}

Comes(s, ss, n) ==
  \E at \in [1..Len(s) -> Pairs(ss, n)] :
    /\ \A p \in 1..Len(s) : s[p] = ss[at[p][1]][at[p][2]]
    /\ \A p, o \in 1..Len(s) : at[p] = at[o] => p = o
    /\ \A pair \in Pairs(ss, n) : \E p \in 1..Len(s) : at[p] = pair

LEMMA SamePair ==
  ASSUME NEW a, NEW b, NEW c, NEW d, <<a, b>> = <<c, d>>
  PROVE  a = c /\ b = d
OBVIOUS

LEMMA NothingComes == ASSUME NEW ss PROVE Comes(<< >>, ss, 0)
<1>1. Pairs(ss, 0) = {} /\ Len(<< >>) = 0
  BY DEF Pairs
<1> DEFINE at == [p \in 1..0 |-> 0]
<1>2. at \in [1..0 -> Pairs(ss, 0)]
  OBVIOUS
<1> QED BY <1>1, <1>2 DEF Comes

LEMMA MoreComes ==
  ASSUME NEW S, NEW ss, NEW n \in Nat, NEW s \in Seq(S), ss[n + 1] \in Seq(S), Comes(s, ss, n)
  PROVE  Comes(s \o ss[n + 1], ss, n + 1)
<1> DEFINE x == ss[n + 1]
           L == Len(s)
           M == Len(x)
<1>2. /\ Len(s \o x) = L + M /\ L \in Nat /\ M \in Nat
      /\ \A p \in 1..(L + M) : (s \o x)[p] = IF p <= L THEN s[p] ELSE x[p - L]
  BY ConcatProperties, LenProperties
<1>3. PICK at \in [1..L -> Pairs(ss, n)] :
                /\ \A p \in 1..L : s[p] = ss[at[p][1]][at[p][2]]
                /\ \A p, o \in 1..L : at[p] = at[o] => p = o
                /\ \A pair \in Pairs(ss, n) : \E p \in 1..L : at[p] = pair
  BY DEF Comes
<1> DEFINE to == [p \in 1..(L + M) |-> IF p <= L THEN at[p] ELSE <<n + 1, p - L>>]
<1>4. \A pair \in Pairs(ss, n + 1) : pair \in Pairs(ss, n) \/ \E j \in 1..M : pair = <<n + 1, j>>
  BY DEF Pairs
<1>5. /\ \A pair \in Pairs(ss, n) : pair \in Pairs(ss, n + 1) /\ pair[1] # n + 1
      /\ \A j \in 1..M : <<n + 1, j>> \in Pairs(ss, n + 1)
  BY <1>2 DEF Pairs
<1>0. x = ss[n + 1]
  OBVIOUS
<1> HIDE DEF L, M, x
<1>6. /\ DOMAIN to = 1..(L + M)
      /\ \A p \in 1..(L + M) : /\ p <= L => p \in 1..L /\ to[p] = at[p]
                               /\ ~(p <= L) => p - L \in 1..M /\ to[p] = <<n + 1, p - L>>
  BY <1>2
<1>7. to \in [1..(L + M) -> Pairs(ss, n + 1)]
  <2>1. ASSUME NEW p \in 1..(L + M) PROVE to[p] \in Pairs(ss, n + 1)
    <3>1. CASE p <= L
      <4>1. p \in 1..L /\ to[p] = at[p]
        BY <3>1, <1>6
      <4>2. at[p] \in Pairs(ss, n)
        BY <4>1
      <4> QED BY <4>1, <4>2, <1>5
    <3>2. CASE ~(p <= L)
      BY <3>2, <1>5, <1>6
    <3> QED BY <3>1, <3>2
  <2>2. to = [p \in 1..(L + M) |-> to[p]]
    OBVIOUS
  <2> HIDE DEF to
  <2> QED BY <2>1, <2>2
<1> HIDE DEF to
<1>8. \A p \in 1..(L + M) : (s \o x)[p] = ss[to[p][1]][to[p][2]]
  <2> TAKE p \in 1..(L + M)
  <2>1. CASE p <= L
    BY <2>1, <1>2, <1>3, <1>6
  <2>2. CASE ~(p <= L)
    <3>1. to[p] = <<n + 1, p - L>> /\ (s \o x)[p] = x[p - L]
      BY <2>2, <1>2, <1>6
    <3> QED BY <3>1, <1>0
  <2> QED BY <2>1, <2>2
<1>9. \A p, o \in 1..(L + M) : to[p] = to[o] => p = o
  <2> SUFFICES ASSUME NEW p \in 1..(L + M), NEW o \in 1..(L + M), to[p] = to[o] PROVE p = o
    OBVIOUS
  <2>1. p <= L => to[p] \in Pairs(ss, n)
    BY <1>6
  <2>2. o <= L => to[o] \in Pairs(ss, n)
    BY <1>6
  <2>3. (p <= L) <=> (o <= L)
    <3>1. ~(p <= L) => to[p][1] = n + 1
      BY <1>6
    <3>2. ~(o <= L) => to[o][1] = n + 1
      BY <1>6
    <3> QED BY <2>1, <2>2, <3>1, <3>2, <1>5
  <2>4. CASE p <= L
    BY <2>3, <2>4, <1>3, <1>6
  <2>5. CASE ~(p <= L)
    <3>0. to[p] = <<n + 1, p - L>> /\ to[o] = <<n + 1, o - L>>
      BY <2>3, <2>5, <1>6
    <3>3. <<n + 1, p - L>> = <<n + 1, o - L>>
      BY <3>0
    <3>1. p - L = o - L
      BY <3>3, SamePair
    <3>2. p \in Nat /\ o \in Nat /\ L \in Nat
      BY <1>2
    <3> QED BY <3>1, <3>2
  <2> QED BY <2>4, <2>5
<1>10. \A pair \in Pairs(ss, n + 1) : \E p \in 1..(L + M) : to[p] = pair
  <2> TAKE pair \in Pairs(ss, n + 1)
  <2>1. CASE pair \in Pairs(ss, n)
    <3>1. PICK p \in 1..L : at[p] = pair
      BY <2>1, <1>3
    <3>2. p \in 1..(L + M) /\ p <= L
      BY <1>2
    <3> QED BY <3>1, <3>2, <1>6
  <2>2. CASE \E j \in 1..M : pair = <<n + 1, j>>
    <3>1. PICK j \in 1..M : pair = <<n + 1, j>>
      BY <2>2
    <3> DEFINE p == L + j
    <3>2. p \in 1..(L + M) /\ ~(p <= L) /\ p - L = j
      BY <1>2
    <3> HIDE DEF p
    <3>3. to[p] = <<n + 1, p - L>>
      BY <3>2, <1>6
    <3> QED BY <3>1, <3>2, <3>3
  <2> QED BY <2>1, <2>2, <1>4
<1>11. Comes(s \o x, ss, n + 1)
  <2> DEFINE new == s \o x
             N == L + M
  <2>1. Len(new) = N
    BY <1>2
  <2>2. /\ to \in [1..N -> Pairs(ss, n + 1)]
        /\ \A p \in 1..N : new[p] = ss[to[p][1]][to[p][2]]
        /\ \A p, o \in 1..N : to[p] = to[o] => p = o
        /\ \A pair \in Pairs(ss, n + 1) : \E p \in 1..N : to[p] = pair
    BY <1>7, <1>8, <1>9, <1>10
  <2> HIDE DEF new, N
  <2>3. Comes(new, ss, n + 1)
    BY <2>1, <2>2 DEF Comes
  <2> QED BY <2>3 DEF new
<1> QED BY <1>11, <1>0

\* Where the elements of a flattened sequence come from.
LEMMA FlattenComes ==
  ASSUME NEW S, NEW ss \in Seq(Seq(S))
  PROVE  FlattenSeq(ss) \in Seq(S) /\ Comes(FlattenSeq(ss), ss, Len(ss))
<1>0. Len(ss) \in Nat /\ \A k \in 1..Len(ss) : ss[k] \in Seq(S)
  BY LenProperties, ElementOfSeq
<1>1. CASE ss = << >>
  <2>1. FlattenSeq(ss) = << >> /\ Len(ss) = 0
    BY <1>1 DEF FlattenSeq
  <2>2. << >> \in Seq(S)
    OBVIOUS
  <2> QED BY <2>1, <2>2, NothingComes
<1>3. CASE ss # << >>
  <2>1. PICK g : Joins(g, ss, Len(ss)) /\ FlattenSeq(ss) = g[Len(ss)]
    BY <1>3, FlattenIs
  <2>2. \A i \in 1..Len(ss) : g[i] = IF i = 1 THEN ss[i] ELSE g[i - 1] \o ss[i]
    BY <2>1 DEF Joins
  <2> DEFINE T == {n \in 1..Len(ss) : ~(g[n] \in Seq(S) /\ Comes(g[n], ss, n))}
  <2>4. T = {}
    <3> SUFFICES ASSUME T # {} PROVE FALSE
      OBVIOUS
    <3>1. T \subseteq Nat
      BY <1>0
    <3> HIDE DEF T
    <3>2. PICK m \in T : \A k \in T : m <= k
      BY <3>1, LeastNumber
    <3>3. m \in 1..Len(ss) /\ ~(g[m] \in Seq(S) /\ Comes(g[m], ss, m))
      BY <3>2 DEF T
    <3>4. CASE m = 1
      <4>1. 0 \in Nat /\ 0 + 1 = 1 /\ ss[1] \in Seq(S) /\ << >> \in Seq(S)
        BY <3>3, <3>4, <1>0
      <4>2. Comes(<< >> \o ss[0 + 1], ss, 0 + 1)
        BY <4>1, MoreComes, NothingComes
      <4>3. << >> \o ss[1] = ss[1] /\ g[1] = ss[1]
        BY <3>3, <3>4, <4>1, <2>2, ConcatEmptySeq
      <4> QED BY <3>3, <3>4, <4>1, <4>2, <4>3
    <3>5. CASE m # 1
      <4>1. m - 1 \in Nat /\ m - 1 \in 1..Len(ss) /\ m - 1 + 1 = m /\ ~(m <= m - 1)
        BY <3>3, <3>5, <1>0
      <4>2. g[m - 1] \in Seq(S) /\ Comes(g[m - 1], ss, m - 1)
        BY <3>2, <4>1 DEF T
      <4>3. ss[m] \in Seq(S)
        BY <3>3, <1>0
      <4>4. g[m] = g[m - 1] \o ss[m]
        BY <3>3, <3>5, <2>2
      <4>5. Comes(g[m - 1] \o ss[m - 1 + 1], ss, m - 1 + 1)
        BY <4>1, <4>2, <4>3, MoreComes
      <4>6. g[m] \in Seq(S)
        BY <4>2, <4>3, <4>4, ConcatProperties
      <4> QED BY <3>3, <4>1, <4>4, <4>5, <4>6
    <3> QED BY <3>4, <3>5
  <2>5. Len(ss) \in 1..Len(ss)
    BY <1>0, <1>3, EmptySeq
  <2> QED BY <2>1, <2>4, <2>5
<1> QED BY <1>1, <1>3

\* What is joined first is the same whatever follows.
SameUpTo(s, t, n) == \A i \in 1..n : s[i] = t[i]
LEMMA JoinsAgree ==
  ASSUME NEW n \in Nat, NEW m \in Nat, m <= n, NEW ss, NEW tt, SameUpTo(ss, tt, m),
         NEW g, Joins(g, ss, m), NEW h, Joins(h, tt, n)
  PROVE  SameUpTo(g, h, m)
<1>1. /\ \A i \in 1..m : g[i] = IF i = 1 THEN ss[i] ELSE g[i - 1] \o ss[i]
      /\ \A i \in 1..n : h[i] = IF i = 1 THEN tt[i] ELSE h[i - 1] \o tt[i]
  BY DEF Joins
<1> DEFINE T == {i \in 1..m : g[i] # h[i]}
<1>2. SUFFICES ASSUME T # {} PROVE FALSE
  BY DEF SameUpTo
<1>3. PICK i \in T : \A k \in T : i <= k
  <2>1. T \subseteq Nat
    OBVIOUS
  <2> HIDE DEF T
  <2> QED BY <1>2, <2>1, LeastNumber
<1>4. i \in 1..m /\ i \in 1..n /\ ss[i] = tt[i]
  BY <1>3 DEF SameUpTo
<1>5. CASE i = 1
  BY <1>1, <1>3, <1>4, <1>5
<1>6. CASE i # 1
  <2>1. i - 1 \in 1..m /\ ~(i <= i - 1)
    BY <1>4, <1>6
  <2>2. g[i - 1] = h[i - 1]
    BY <1>3, <2>1
  <2> QED BY <1>1, <1>3, <1>4, <1>6, <2>2
<1> QED BY <1>5, <1>6

LEMMA FlattenNothing == FlattenSeq(<< >>) = << >>
BY DEF FlattenSeq

LEMMA FlattenAppend ==
  ASSUME NEW S, NEW ss \in Seq(Seq(S)), NEW s \in Seq(S)
  PROVE  FlattenSeq(Append(ss, s)) = FlattenSeq(ss) \o s
<1> DEFINE tt == Append(ss, s)
           n == Len(ss)
<1>1. /\ tt \in Seq(Seq(S)) /\ tt # << >> /\ Len(tt) = n + 1 /\ n \in Nat
      /\ \A i \in 1..n : tt[i] = ss[i]
      /\ tt[n + 1] = s
  BY AppendProperties, LenProperties
<1> HIDE DEF tt
<1>2. PICK h : Joins(h, tt, n + 1) /\ FlattenSeq(tt) = h[n + 1]
  BY <1>1, FlattenIs
<1>3. h[n + 1] = IF n + 1 = 1 THEN s ELSE h[n] \o s
  <2>1. n + 1 \in 1..(n + 1) /\ n + 1 - 1 = n
    BY <1>1
  <2>2. \A i \in 1..(n + 1) : h[i] = IF i = 1 THEN tt[i] ELSE h[i - 1] \o tt[i]
    BY <1>2, Zenon DEF Joins
  <2>3. h[n + 1] = IF n + 1 = 1 THEN tt[n + 1] ELSE h[n + 1 - 1] \o tt[n + 1]
    BY <2>1, <2>2
  <2> QED BY <1>1, <2>1, <2>3
<1>4. CASE ss = << >>
  <2>1. n = 0 /\ FlattenSeq(ss) = << >> /\ << >> \o s = s
    BY <1>4, FlattenNothing, ConcatEmptySeq
  <2> QED BY <1>2, <1>3, <2>1 DEF tt
<1>5. CASE ss # << >>
  <2>1. PICK g : Joins(g, ss, n) /\ FlattenSeq(ss) = g[n]
    BY <1>5, FlattenIs
  <2>2. n # 0
    <3>1. \A R : \A r \in Seq(R) : r # << >> => Len(r) \in Nat \ {0}
      BY EmptySeq
    <3> QED BY <1>5, <3>1
  <2>3. \A i \in 1..n : g[i] = h[i]
    <3>1. n + 1 \in Nat /\ n \in Nat /\ n <= n + 1 /\ SameUpTo(ss, tt, n)
      BY <1>1 DEF SameUpTo
    <3> HIDE DEF n
    <3>2. SameUpTo(g, h, n)
      BY <1>2, <2>1, <3>1, JoinsAgree
    <3> QED BY <3>2 DEF SameUpTo
  <2>4. g[n] = h[n] /\ n + 1 # 1
    BY <1>1, <2>2, <2>3
  <2> QED BY <1>2, <1>3, <2>1, <2>4 DEF tt
<1> QED BY <1>4, <1>5

LEMMA FlattenConcat ==
  ASSUME NEW S, NEW ss \in Seq(Seq(S)), NEW tt \in Seq(Seq(S))
  PROVE  FlattenSeq(ss \o tt) = FlattenSeq(ss) \o FlattenSeq(tt)
<1> DEFINE Joined(uu) == FlattenSeq(ss \o uu) = FlattenSeq(ss) \o FlattenSeq(uu)
           T == {n \in Nat : \E uu \in Seq(Seq(S)) : Len(uu) = n /\ ~Joined(uu)}
<1>1. SUFFICES ASSUME T # {} PROVE FALSE
  <2> HIDE DEF Joined
  <2>1. Len(tt) \in Nat
    BY LenProperties
  <2>2. Joined(tt)
    BY <2>1
  <2> QED BY <2>2 DEF Joined
<1> HIDE DEF Joined
<1>2. PICK n \in T : \A k \in T : n <= k
  BY <1>1, LeastNumber
<1>3. PICK uu \in Seq(Seq(S)) : Len(uu) = n /\ ~Joined(uu)
  BY <1>2
<1>4. FlattenSeq(ss) \in Seq(S)
  BY FlattenComes
<1>5. CASE uu = << >>
  <2>1. ss \o << >> = ss /\ FlattenSeq(ss) \o << >> = FlattenSeq(ss)
    BY <1>4, ConcatEmptySeq
  <2> QED BY <1>3, <1>5, <2>1, FlattenNothing DEF Joined
<1>6. CASE uu # << >>
  <2>1. PICK vv \in Seq(Seq(S)), s \in Seq(S) : uu = Append(vv, s)
    BY <1>6, SequenceEmptyOrAppend
  <2>2. Len(uu) = Len(vv) + 1 /\ Len(vv) \in Nat
    <3>1. Len(Append(vv, s)) = Len(vv) + 1
      BY AppendProperties
    <3>2. Len(vv) \in Nat
      BY LenProperties
    <3> QED BY <2>1, <3>1, <3>2
  <2>3. Joined(vv)
    <3> SUFFICES ASSUME ~Joined(vv) PROVE FALSE
      OBVIOUS
    <3>1. Len(vv) \in T
      BY <2>2
    <3> HIDE DEF T
    <3>2. n <= Len(vv)
      BY <1>2, <3>1
    <3> QED BY <1>3, <2>2, <3>2
  <2>4. uu = vv \o <<s>> /\ ss \o vv \in Seq(Seq(S)) /\ <<s>> \in Seq(Seq(S))
    BY <2>1, AppendIsConcat, ConcatProperties
  <2>5. ss \o uu = (ss \o vv) \o <<s>>
    BY <2>4, ConcatAssociative
  <2>6. ss \o uu = Append(ss \o vv, s)
    BY <2>4, <2>5, AppendIsConcat
  <2>7. FlattenSeq(ss \o uu) = (FlattenSeq(ss) \o FlattenSeq(vv)) \o s
    BY <2>3, <2>4, <2>6, FlattenAppend DEF Joined
  <2>8. FlattenSeq(uu) = FlattenSeq(vv) \o s /\ FlattenSeq(vv) \in Seq(S)
    <3>1. FlattenSeq(Append(vv, s)) = FlattenSeq(vv) \o s
      BY FlattenAppend
    <3>2. FlattenSeq(vv) \in Seq(S)
      BY FlattenComes
    <3> QED BY <2>1, <3>1, <3>2
  <2>9. (FlattenSeq(ss) \o FlattenSeq(vv)) \o s = FlattenSeq(ss) \o (FlattenSeq(vv) \o s)
    <3> DEFINE a == FlattenSeq(ss)
               b == FlattenSeq(vv)
    <3>1. a \in Seq(S) /\ b \in Seq(S)
      BY <1>4, <2>8
    <3> HIDE DEF a, b
    <3>2. (a \o b) \o s = a \o (b \o s)
      BY <3>1, ConcatAssociative
    <3> QED BY <3>2 DEF a, b
  <2> QED BY <1>3, <2>7, <2>8, <2>9 DEF Joined
<1> QED BY <1>5, <1>6

-----------------------------------------------------------------------------
\* The positions of a finite set of numbers, in order.
LEMMA AscendingIsOrder ==
  ASSUME NEW P, P \subseteq Nat, IsFiniteSet(P)
  PROVE  /\ Cardinality(P) \in Nat
         /\ Ascending(P) \in [1..Cardinality(P) -> P]
         /\ \A k \in 1..Cardinality(P) : Cardinality({q \in P : q <= Ascending(P)[k]}) = k
         /\ \A p, q \in P : p < q => Cardinality({o \in P : o <= p}) < Cardinality({o \in P : o <= q})
         /\ \A p \in P : \E k \in 1..Cardinality(P) : Ascending(P)[k] = p
         /\ \A i, j \in 1..Cardinality(P) : i < j => Ascending(P)[i] < Ascending(P)[j]
<1> DEFINE UpTo(p) == {q \in P : q <= p}
           N == Cardinality(P)
           rank == [p \in P |-> Cardinality(UpTo(p))]
<1>1. \A p \in P : /\ UpTo(p) \in SUBSET P /\ p \in UpTo(p)
                    /\ IsFiniteSet(UpTo(p)) /\ Cardinality(UpTo(p)) \in 1..N
  <2> TAKE p \in P
  <2>1. UpTo(p) \in SUBSET P /\ p \in UpTo(p)
    OBVIOUS
  <2>2. IsFiniteSet(UpTo(p)) /\ Cardinality(UpTo(p)) <= N
    BY <2>1, FS_Subset
  <2>3. Cardinality(UpTo(p)) \in Nat /\ Cardinality(UpTo(p)) # 0 /\ N \in Nat
    BY <2>1, <2>2, FS_CardinalityType, FS_EmptySet
  <2> QED BY <2>1, <2>2, <2>3
<1>2. N \in Nat
  BY FS_CardinalityType
<1>3. \A p, q \in P : p < q => rank[p] < rank[q]
  <2> SUFFICES ASSUME NEW p \in P, NEW q \in P, p < q PROVE rank[p] < rank[q]
    OBVIOUS
  <2>0. p \in Nat /\ q \in Nat /\ \A o \in P : o \in Nat
    OBVIOUS
  <2>1. UpTo(p) \in SUBSET UpTo(q)
    <3>1. ASSUME NEW o \in P, o <= p PROVE o <= q
      <4>1. o \in Nat /\ p \in Nat /\ q \in Nat
        BY <2>0
      <4> QED BY <4>1, <3>1
    <3> QED BY <3>1
  <2>3. q \in UpTo(q) /\ q \notin UpTo(p)
    BY <2>0
  <2>2. Cardinality(UpTo(p)) <= Cardinality(UpTo(q)) /\ Cardinality(UpTo(p)) # Cardinality(UpTo(q))
    BY <2>1, <2>3, <1>1, FS_Subset
  <2> QED BY <2>2, <1>1
<1>4. rank \in [P -> 1..N]
  BY <1>1
<1>5. rank \in Injection(P, 1..N)
  <2> HIDE DEF rank
  <2>1. \A p, q \in P : p = q \/ p < q \/ q < p
    OBVIOUS
  <2>2. \A p, q \in P : rank[p] = rank[q] => p = q
    BY <2>1, <1>3, <1>4
  <2>3. IsInjective(rank)
    BY <2>2, <1>4 DEF IsInjective
  <2> QED BY <2>3, <1>4 DEF Injection
<1>6. rank \in Surjection(P, 1..N)
  <2>1. IsFiniteSet(1..N) /\ Cardinality(1..N) = N
    BY <1>2, FS_Interval
  <2> QED BY <1>5, <2>1, FS_Injection
<1> HIDE DEF rank
<1>7. \A k \in 1..N : \E p \in P : rank[p] = k
  BY <1>6 DEF Surjection
<1>8. \A p \in P : rank[p] = Cardinality({q \in P : q <= p})
  BY DEF rank
<1>9. Ascending(P) \in [1..N -> P]
  BY <1>7, <1>8 DEF Ascending
<1>10. \A k \in 1..N : rank[Ascending(P)[k]] = k
  BY <1>7, <1>8 DEF Ascending
<1>11. \A p \in P : \E k \in 1..N : Ascending(P)[k] = p
  <2> SUFFICES ASSUME NEW p \in P PROVE \E k \in 1..N : Ascending(P)[k] = p
    OBVIOUS
  <2>1. rank[p] \in 1..N /\ rank[Ascending(P)[rank[p]]] = rank[p]
    BY <1>4, <1>10
  <2> QED BY <2>1, <1>5, <1>9 DEF Injection, IsInjective
<1>12. \A i, j \in 1..N : i < j => Ascending(P)[i] < Ascending(P)[j]
  <2> SUFFICES ASSUME NEW i \in 1..N, NEW j \in 1..N, i < j PROVE Ascending(P)[i] < Ascending(P)[j]
    OBVIOUS
  <2> DEFINE a == Ascending(P)[i]
             b == Ascending(P)[j]
  <2>1. a \in P /\ b \in P /\ rank[a] = i /\ rank[b] = j
    BY <1>9, <1>10
  <2> HIDE DEF a, b
  <2>2. ~(b < a) /\ a # b
    BY <2>1, <1>3
  <2>3. a < b
    BY <2>1, <2>2
  <2> QED BY <2>3 DEF a, b
<1>13. \A p, q \in P : p < q => Cardinality({o \in P : o <= p}) < Cardinality({o \in P : o <= q})
  BY <1>3, <1>8
<1> QED BY <1>2, <1>8, <1>9, <1>10, <1>11, <1>12, <1>13

\* What a filter keeps.
LEMMA OnlyIs ==
  ASSUME NEW S, NEW s \in Seq(S), NEW P \in SUBSET DOMAIN s
  PROVE  /\ Only(s, P) \in Seq(S)
         /\ \E at \in [DOMAIN Only(s, P) -> P] :
              /\ \A k \in DOMAIN Only(s, P) : Only(s, P)[k] = s[at[k]]
              /\ \A k, l \in DOMAIN Only(s, P) : at[k] = at[l] => k = l
              /\ \A p \in P : \E k \in DOMAIN Only(s, P) : at[k] = p
<1> DEFINE n == Cardinality(P)
           at == Ascending(P)
<1>1. Len(s) \in Nat /\ DOMAIN s = 1..Len(s) /\ \A p \in DOMAIN s : s[p] \in S
  BY LenProperties, ElementOfSeq
<1>2. IsFiniteSet(P) /\ P \subseteq Nat
  <2>1. IsFiniteSet(1..Len(s))
    BY <1>1, FS_Interval
  <2> QED BY <1>1, <2>1, FS_Subset
<1>3. /\ n \in Nat /\ at \in [1..n -> P]
      /\ \A p \in P : \E k \in 1..n : at[k] = p
      /\ \A k, l \in 1..n : k < l => at[k] < at[l]
  BY <1>2, AscendingIsOrder
<1>4. Only(s, P) = [k \in 1..n |-> s[at[k]]]
  BY <1>3 DEF Only
<1> HIDE DEF n, at
<1>5. [k \in 1..n |-> s[at[k]]] \in [1..n -> S]
  BY <1>1, <1>3
<1>6. \A k, l \in 1..n : at[k] = at[l] => k = l
  <2> SUFFICES ASSUME NEW k \in 1..n, NEW l \in 1..n, k # l PROVE at[k] # at[l]
    OBVIOUS
  <2>1. k < l \/ l < k
    OBVIOUS
  <2>2. at[k] \in Nat /\ at[l] \in Nat
    BY <1>2, <1>3
  <2>3. at[k] < at[l] \/ at[l] < at[k]
    BY <2>1, <1>3
  <2> QED BY <2>2, <2>3
<1> QED BY <1>3, <1>4, <1>5, <1>6, FunctionIsSeq

LEMMA OnlyHolds ==
  ASSUME NEW S, NEW s \in Seq(S), NEW P \in SUBSET DOMAIN s
  PROVE  /\ Only(s, P) \in Seq(S)
         /\ ToSet(Only(s, P)) = {s[p] : p \in P}
<1>1. PICK at \in [DOMAIN Only(s, P) -> P] :
              /\ \A k \in DOMAIN Only(s, P) : Only(s, P)[k] = s[at[k]]
              /\ \A k, l \in DOMAIN Only(s, P) : at[k] = at[l] => k = l
              /\ \A p \in P : \E k \in DOMAIN Only(s, P) : at[k] = p
  BY OnlyIs
<1> DEFINE o == Only(s, P)
<1>2. o \in Seq(S)
  BY OnlyIs
<1> HIDE DEF o
<1>3. \A v \in ToSet(o) : v \in {s[p] : p \in P}
  BY <1>1 DEF ToSet, o
<1>4. \A p \in P : s[p] \in ToSet(o)
  BY <1>1 DEF ToSet, o
<1> QED BY <1>2, <1>3, <1>4 DEF o

LEMMA OfHolds ==
  ASSUME NEW S, NEW s \in Seq(S), NEW T
  PROVE  Of(s, T) \in Seq(S) /\ ToSet(Of(s, T)) = ToSet(s) \cap T
<1> DEFINE P == {k \in DOMAIN s : s[k] \in T}
<1>1. Of(s, T) = Only(s, P) /\ P \in SUBSET DOMAIN s
  BY DEF Of
<1>2. {s[p] : p \in P} = ToSet(s) \cap T
  BY DEF ToSet
<1> HIDE DEF P
<1> QED BY <1>1, <1>2, OnlyHolds

\* Items told apart, and records told apart by their ids.
Apart(s) == \A k, l \in DOMAIN s : s[k] = s[l] => k = l
IdsApart(s) == \A k, l \in DOMAIN s : s[k].id = s[l].id => k = l
LEMMA OfApart ==
  ASSUME NEW S, NEW s \in Seq(S), NEW T, IdsApart(s)
  PROVE  IdsApart(Of(s, T))
<1> DEFINE P == {k \in DOMAIN s : s[k] \in T}
           o == Only(s, P)
<1>1. Of(s, T) = o /\ P \in SUBSET DOMAIN s
  BY DEF Of
<1>2. PICK at \in [DOMAIN o -> P] : /\ \A k \in DOMAIN o : o[k] = s[at[k]]
                                   /\ \A k, l \in DOMAIN o : at[k] = at[l] => k = l
  <2> HIDE DEF P
  <2> QED BY <1>1, OnlyIs
<1> HIDE DEF P, o
<1>3. \A k \in DOMAIN o : at[k] \in DOMAIN s
  BY <1>1, <1>2
<1>4. \A k, l \in DOMAIN o : o[k].id = o[l].id => k = l
  BY <1>2, <1>3 DEF IdsApart
<1> QED BY <1>1, <1>4 DEF IdsApart

\* Each item once.
LEMMA DedupeHolds ==
  ASSUME NEW S, NEW s \in Seq(S)
  PROVE  /\ Dedupe(s) \in Seq(S)
         /\ ToSet(Dedupe(s)) = ToSet(s)
         /\ Apart(Dedupe(s))
<1> DEFINE P == {k \in DOMAIN s : \A i \in 1..(k - 1) : s[i] # s[k]}
<1>0. Len(s) \in Nat /\ DOMAIN s = 1..Len(s)
  BY LenProperties
<1>1. Dedupe(s) = Only(s, P) /\ P \in SUBSET DOMAIN s
  BY DEF Dedupe
<1>2. ToSet(s) \subseteq {s[p] : p \in P}
  <2> SUFFICES ASSUME NEW k \in DOMAIN s PROVE \E p \in P : s[p] = s[k]
    BY DEF ToSet
  <2> DEFINE T == {i \in DOMAIN s : s[i] = s[k]}
  <2>1. T # {} /\ T \subseteq Nat
    BY <1>0
  <2>2. PICK m \in T : \A i \in T : m <= i
    <3> HIDE DEF T
    <3> QED BY <2>1, LeastNumber
  <2>3. \A i \in 1..(m - 1) : i \in DOMAIN s /\ ~(m <= i)
    BY <1>0, <2>2
  <2>4. \A i \in 1..(m - 1) : s[i] # s[m]
    BY <2>2, <2>3
  <2> QED BY <2>2, <2>4
<1>3. {s[p] : p \in P} \subseteq ToSet(s)
  BY DEF ToSet
<1>4. \A p, q \in P : s[p] = s[q] => p = q
  <2> SUFFICES ASSUME NEW p \in P, NEW q \in P, p # q PROVE s[p] # s[q]
    OBVIOUS
  <2>1. p \in Nat \ {0} /\ q \in Nat \ {0}
    BY <1>0
  <2>2. p \in 1..(q - 1) \/ q \in 1..(p - 1)
    BY <2>1
  <2> QED BY <2>2
<1> HIDE DEF P
<1>5. PICK at \in [DOMAIN Only(s, P) -> P] :
              /\ \A k \in DOMAIN Only(s, P) : Only(s, P)[k] = s[at[k]]
              /\ \A k, l \in DOMAIN Only(s, P) : at[k] = at[l] => k = l
  BY <1>1, OnlyIs
<1>6. Apart(Dedupe(s))
  <2> SUFFICES ASSUME NEW k \in DOMAIN Only(s, P), NEW l \in DOMAIN Only(s, P),
                      Only(s, P)[k] = Only(s, P)[l]
               PROVE  k = l
    BY <1>1 DEF Apart
  <2>1. at[k] \in P /\ at[l] \in P /\ s[at[k]] = s[at[l]]
    BY <1>5
  <2> QED BY <2>1, <1>4, <1>5
<1> QED BY <1>1, <1>2, <1>3, <1>6, OnlyHolds

LEMMA FlattenHolds ==
  ASSUME NEW S, NEW ss \in Seq(Seq(S))
  PROVE  /\ FlattenSeq(ss) \in Seq(S)
         /\ \A v : v \in ToSet(FlattenSeq(ss)) <=> \E i \in DOMAIN ss : v \in ToSet(ss[i])
<1> DEFINE f == FlattenSeq(ss)
           n == Len(ss)
<1>1. f \in Seq(S) /\ Comes(f, ss, n)
  BY FlattenComes
<1>2. /\ n \in Nat /\ DOMAIN ss = 1..n /\ DOMAIN f = 1..Len(f)
      /\ \A i \in 1..n : DOMAIN ss[i] = 1..Len(ss[i]) /\ Len(ss[i]) \in Nat
  BY <1>1, LenProperties, ElementOfSeq
<1> HIDE DEF f, n
<1>3. PICK at \in [1..Len(f) -> Pairs(ss, n)] :
            /\ \A p \in 1..Len(f) : f[p] = ss[at[p][1]][at[p][2]]
            /\ \A pair \in Pairs(ss, n) : \E p \in 1..Len(f) : at[p] = pair
  BY <1>1 DEF Comes
<1>4. ASSUME NEW p \in 1..Len(f) PROVE \E i \in 1..n : f[p] \in ToSet(ss[i])
  <2> DEFINE i == at[p][1]
             j == at[p][2]
  <2>1. i \in 1..n /\ j \in 1..Len(ss[i]) /\ f[p] = ss[i][j]
    <3>1. at[p] \in Pairs(ss, n)
      BY <1>3
    <3> QED BY <3>1, <1>3 DEF Pairs
  <2> HIDE DEF i, j
  <2>2. f[p] \in ToSet(ss[i])
    BY <2>1, <1>2 DEF ToSet
  <2> QED BY <2>1, <2>2
<1>5. ASSUME NEW i \in 1..n, NEW j \in DOMAIN ss[i] PROVE ss[i][j] \in ToSet(f)
  <2>1. <<i, j>> \in Pairs(ss, n)
    BY <1>2 DEF Pairs
  <2>2. PICK p \in 1..Len(f) : at[p] = <<i, j>>
    BY <2>1, <1>3
  <2>3. f[p] = ss[i][j]
    BY <2>2, <1>3
  <2> QED BY <2>3, <1>2 DEF ToSet
<1> DEFINE In(v, i) == v \in ToSet(ss[i])
<1>6. \A v : v \in ToSet(f) <=> \E i \in 1..n : In(v, i)
  <2>1. \A v \in ToSet(f) : \E i \in 1..n : In(v, i)
    BY <1>2, <1>4 DEF ToSet
  <2>2. \A v, i : i \in 1..n /\ In(v, i) => v \in ToSet(f)
    BY <1>5 DEF ToSet
  <2> QED BY <2>1, <2>2
<1> QED BY <1>1, <1>2, <1>6 DEF f

LEMMA ConcatHolds ==
  ASSUME NEW S, NEW s \in Seq(S), NEW t \in Seq(S)
  PROVE  s \o t \in Seq(S) /\ ToSet(s \o t) = ToSet(s) \cup ToSet(t)
<1> DEFINE L == Len(s)
           M == Len(t)
           c == s \o t
<1>1. /\ L \in Nat /\ M \in Nat /\ DOMAIN s = 1..L /\ DOMAIN t = 1..M
      /\ c \in Seq(S) /\ Len(c) = L + M /\ DOMAIN c = 1..(L + M)
      /\ \A k \in 1..(L + M) : c[k] = IF k <= L THEN s[k] ELSE t[k - L]
  BY ConcatProperties, LenProperties
<1> HIDE DEF L, M, c
<1>2. \A k \in 1..(L + M) : c[k] \in ToSet(s) \cup ToSet(t)
  <2> TAKE k \in 1..(L + M)
  <2>1. CASE k <= L
    <3>1. k \in 1..L /\ c[k] = s[k]
      BY <2>1, <1>1
    <3> QED BY <3>1, <1>1 DEF ToSet
  <2>2. CASE ~(k <= L)
    <3>1. k - L \in 1..M /\ c[k] = t[k - L]
      BY <2>2, <1>1
    <3> QED BY <3>1, <1>1 DEF ToSet
  <2> QED BY <2>1, <2>2
<1>3. \A k \in 1..L : s[k] \in ToSet(c)
  <2> TAKE k \in 1..L
  <2>1. k \in 1..(L + M) /\ c[k] = s[k]
    BY <1>1
  <2> QED BY <2>1, <1>1 DEF ToSet
<1>4. \A k \in 1..M : t[k] \in ToSet(c)
  <2> TAKE k \in 1..M
  <2>1. L + k \in 1..(L + M) /\ ~(L + k <= L) /\ L + k - L = k
    BY <1>1
  <2>2. c[L + k] = t[k]
    BY <2>1, <1>1
  <2> QED BY <2>1, <2>2, <1>1 DEF ToSet
<1>5. ToSet(c) = ToSet(s) \cup ToSet(t)
  BY <1>1, <1>2, <1>3, <1>4 DEF ToSet
<1> QED BY <1>1, <1>5 DEF c
=============================================================================
