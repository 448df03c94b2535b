--------------------------- MODULE FoldingProofs ---------------------------
(***************************************************************************)
(* Induction, and what a fold over a sequence computes: FoldLeft is        *)
(* defined by recursion over sets, and these are its two equations, for    *)
(* whatever operation Op and first value Base a module instantiates this   *)
(* one with.                                                               *)
(***************************************************************************)
EXTENDS SequencesExt, SequenceTheorems, WellFoundedInduction, TLAPS

CONSTANTS Op(_, _), Base

-----------------------------------------------------------------------------
(* Least and greatest                                                      *)

\* The least counterexample: every set of naturals has a least element.
LEMMA Least ==
    ASSUME NEW T, T \subseteq Nat, T # {}
    PROVE  \E x \in T : \A y \in T : x <= y
<1> DEFINE R == OpToRel(<, Nat)
<1>1. \A x, y \in Nat : <<y, x>> \in R <=> y < x
  BY DEF OpToRel
<1>2. IsWellFoundedOn(R, Nat)
  BY NatLessThanWellFounded
<1> HIDE DEF R
<1>3. PICK x \in T : \A y \in T : ~(<<y, x>> \in R)
  BY <1>2, WFMin
<1>4. ASSUME NEW y \in T PROVE x <= y
  <2>1. x \in Nat /\ y \in Nat /\ ~(y < x)
    BY <1>1, <1>3
  <2> QED
    BY <2>1
<1> QED
  BY <1>4

\* Induction over sequences: a set that holds the empty one and whatever comes of
\* appending to one it holds, holds them all.
LEMMA AllSequences ==
    ASSUME NEW S, NEW T, <<>> \in T, \A s \in Seq(S) \cap T, e \in S : Append(s, e) \in T
    PROVE  \A s \in Seq(S) : s \in T
<1> DEFINE Bad == {n \in Nat : \E s \in Seq(S) : Len(s) = n /\ s \notin T}
<1> SUFFICES ASSUME Bad # {} PROVE FALSE
  <2>1. ASSUME NEW s \in Seq(S), s \notin T PROVE Len(s) \in Bad
    BY <2>1, LenProperties
  <2> QED
    BY <2>1
<1>1. PICK n \in Bad : \A m \in Bad : n <= m
  BY Least
<1>2. PICK s \in Seq(S) : Len(s) = n /\ s \notin T
  OBVIOUS
<1>3. PICK r \in Seq(S), e \in S : s = Append(r, e)
  BY <1>2, SequenceEmptyOrAppend
<1>4. Len(r) \in Nat /\ Len(s) = Len(r) + 1
  BY <1>3, AppendProperties, LenProperties
<1>5. r \notin T
  BY <1>2, <1>3
<1>6. Len(r) \in Bad
  BY <1>4, <1>5
<1> QED
  BY <1>1, <1>2, <1>4, <1>6

LEMMA MaxIs ==
    ASSUME NEW n \in Nat, NEW t, t \subseteq 1..n, t # {}
    PROVE  Max(t) \in t /\ \A y \in t : y <= Max(t)
<1> DEFINE U == {m \in Nat : \A y \in t : y <= m}
<1>1. n \in U /\ U \subseteq Nat
  OBVIOUS
<1>2. PICK m \in U : \A k \in U : m <= k
  BY <1>1, Least
<1>3. m \in Nat /\ \A y \in t : y <= m
  BY <1>2
<1>4. m \in t
  <2> SUFFICES ASSUME m \notin t PROVE FALSE
    OBVIOUS
  <2>1. PICK y \in t : y \in 1..n
    OBVIOUS
  <2>2. m - 1 \in Nat /\ \A x \in t : x <= m - 1
    <3>1. \A x \in t : x \in Nat /\ x # m /\ x >= 1
      OBVIOUS
    <3> QED
      BY <1>3, <2>1, <3>1
  <2>3. m - 1 \in U
    BY <2>2
  <2> QED
    BY <1>2, <1>3, <2>3
<1>5. \A y \in t : m >= y
  BY <1>3
<1>6. Max(t) \in t /\ \A y \in t : Max(t) >= y
  BY <1>4, <1>5 DEF Max
<1> QED
  BY <1>6

-----------------------------------------------------------------------------
(* The fold                                                                *)

\* What is under the last element of a set.
LEMMA Below ==
    ASSUME NEW m \in Nat, NEW t \in SUBSET (1..(m + 1)), t # {}
    PROVE  t \ {Max(t)} \in SUBSET (1..m)
<1>0. m + 1 \in Nat /\ t \subseteq 1..(m + 1)
  OBVIOUS
<1>1. Max(t) \in t /\ \A y \in t : y <= Max(t)
  BY <1>0, MaxIs
<1>2. ASSUME NEW y \in t, y # Max(t) PROVE y \in 1..m
  <2>1. y \in 1..(m + 1) /\ Max(t) \in 1..(m + 1)
    BY <1>0, <1>1
  <2>2. y <= Max(t)
    BY <1>1
  <2> QED
    BY <1>2, <2>1, <2>2
<1> QED
  BY <1>2

\* g folds every set of positions of s up to m.
Folds(g, s, m) ==
    g = [t \in SUBSET (1..m) |->
            IF t = {} THEN Base ELSE Op(g[t \ {Max(t)}], s[Max(t)])]

LEMMA FoldsExist ==
    ASSUME NEW s, NEW n \in Nat
    PROVE  \E g : Folds(g, s, n)
<1> DEFINE T == {m \in Nat : ~ \E g : Folds(g, s, m)}
<1> SUFFICES ASSUME T # {} PROVE FALSE
  OBVIOUS
<1>1. PICK m \in T : \A k \in T : m <= k
  BY Least
<1>2. m \in Nat /\ ~ \E g : Folds(g, s, m)
  OBVIOUS
<1>3. m # 0
  <2> SUFFICES ASSUME m = 0 PROVE FALSE
    OBVIOUS
  <2> DEFINE g == [t \in SUBSET (1..0) |-> Base]
  <2>1. Folds(g, s, 0)
    BY DEF Folds
  <2> QED
    BY <1>2, <2>1
<1>4. m - 1 \in Nat /\ m - 1 \notin T
  BY <1>1, <1>2, <1>3
<1> DEFINE k == m - 1
<1>5. k \in Nat /\ m = k + 1
  BY <1>4, <1>2
<1>6. PICK g : Folds(g, s, k)
  BY <1>4
<1> HIDE DEF k, T
<1> DEFINE h == [t \in SUBSET (1..m) |->
                    IF t = {} THEN Base ELSE Op(g[t \ {Max(t)}], s[Max(t)])]
<1>7. ASSUME NEW u \in SUBSET (1..k) PROVE h[u] = g[u]
  <2>1. u \in SUBSET (1..m)
    BY <1>5
  <2>2. g[u] = IF u = {} THEN Base ELSE Op(g[u \ {Max(u)}], s[Max(u)])
    BY <1>6 DEF Folds
  <2> QED
    BY <2>1, <2>2
<1>8. ASSUME NEW t \in SUBSET (1..m)
      PROVE  (IF t = {} THEN Base ELSE Op(g[t \ {Max(t)}], s[Max(t)]))
               = (IF t = {} THEN Base ELSE Op(h[t \ {Max(t)}], s[Max(t)]))
  BY <1>5, <1>7, Below
<1>9. h = [t \in SUBSET (1..m) |->
              IF t = {} THEN Base ELSE Op(h[t \ {Max(t)}], s[Max(t)])]
  BY <1>8
<1> HIDE DEF h
<1>10. Folds(h, s, m)
  BY <1>9 DEF Folds
<1> QED
  BY <1>2, <1>10

\* Folds of sequences that begin alike begin alike.
LEMMA FoldsAgree ==
    ASSUME NEW n \in Nat, NEW m \in Nat, n <= m, NEW s, NEW r, \A i \in 1..n : s[i] = r[i],
           NEW g, Folds(g, s, n), NEW h, Folds(h, r, m)
    PROVE  g[1..n] = h[1..n]
<1> DEFINE T == {k \in Nat : k <= n /\ ~ \A t \in SUBSET (1..k) : g[t] = h[t]}
<1> SUFFICES ASSUME T # {} PROVE FALSE
  <2>1. n \notin T => \A t \in SUBSET (1..n) : g[t] = h[t]
    OBVIOUS
  <2> QED
    BY <2>1
<1>1. PICK k \in T : \A l \in T : k <= l
  BY Least
<1>2. k \in Nat /\ k <= n
  OBVIOUS
<1>3. PICK t \in SUBSET (1..k) : g[t] # h[t]
  OBVIOUS
<1>4. t \in SUBSET (1..n) /\ t \in SUBSET (1..m)
  BY <1>2
<1>5. /\ g[t] = IF t = {} THEN Base ELSE Op(g[t \ {Max(t)}], s[Max(t)])
      /\ h[t] = IF t = {} THEN Base ELSE Op(h[t \ {Max(t)}], r[Max(t)])
  BY <1>4 DEF Folds
<1>6. t # {}
  BY <1>3, <1>5
<1>7. Max(t) \in 1..n
  BY <1>4, <1>6, MaxIs
<1>8. k # 0
  <2>1. PICK i \in t : i \in 1..k
    BY <1>6
  <2> QED
    BY <1>2, <2>1
<1>9. k - 1 \in Nat /\ k - 1 <= n /\ k - 1 \notin T
  BY <1>1, <1>2, <1>8
<1>10. t \ {Max(t)} \in SUBSET (1..(k - 1))
  <2>1. k = (k - 1) + 1
    BY <1>2
  <2> QED
    BY <1>6, <1>9, <2>1, Below
<1>11. g[t \ {Max(t)}] = h[t \ {Max(t)}]
  BY <1>9, <1>10
<1> QED
  BY <1>3, <1>5, <1>6, <1>7, <1>11

LEMMA FoldLeftIs ==
    ASSUME NEW S, NEW s \in Seq(S)
    PROVE  \E g : Folds(g, s, Len(s)) /\ FoldLeft(Op, Base, s) = g[1..Len(s)]
<1>1. Len(s) \in Nat /\ DOMAIN s = 1..Len(s)
  BY LenProperties
<1>2. \E g : Folds(g, s, Len(s))
  BY <1>1, FoldsExist
<1> DEFINE g == CHOOSE g : Folds(g, s, Len(s))
<1>3. Folds(g, s, Len(s))
  BY <1>2
<1>4. FoldLeft(Op, Base, s) = g[1..Len(s)]
  BY <1>1 DEF Folds, FoldLeft, MapThenFoldSet
<1> QED
  BY <1>3, <1>4

\* A fold over nothing is the first value.
LEMMA FoldOfNone ==
    ASSUME NEW s, s = <<>>
    PROVE  FoldLeft(Op, Base, s) = Base
<1>1. <<>> \in Seq({}) /\ Len(<<>>) = 0
  OBVIOUS
<1>2. PICK g : Folds(g, <<>>, 0) /\ FoldLeft(Op, Base, <<>>) = g[1..0]
  BY <1>1, FoldLeftIs
<1> QED
  BY <1>2 DEF Folds

\* A fold over one element more is one application more, of whatever operator a module
\* folds: the keys of a descriptor, the replacement of "**", the steps that are read.
LEMMA FoldOfAppend ==
    ASSUME NEW S, NEW s \in Seq(S), NEW e \in S
    PROVE  FoldLeft(Op, Base, Append(s, e)) = Op(FoldLeft(Op, Base, s), e)
<1> DEFINE n == Len(s)
           r == Append(s, e)
<1>1. n \in Nat /\ r \in Seq(S) /\ Len(r) = n + 1 /\ r[n + 1] = e /\ \A i \in 1..n : s[i] = r[i]
  BY AppendProperties, LenProperties
<1>2. PICK g : Folds(g, s, n) /\ FoldLeft(Op, Base, s) = g[1..n]
  BY FoldLeftIs
<1>3. PICK h : Folds(h, r, n + 1) /\ FoldLeft(Op, Base, r) = h[1..(n + 1)]
  BY <1>1, FoldLeftIs
<1> HIDE DEF n, r
<1>4. g[1..n] = h[1..n]
  BY <1>1, <1>2, <1>3, FoldsAgree, SMTT(30)
<1> DEFINE t == 1..(n + 1)
<1>5. t # {} /\ t \in SUBSET (1..(n + 1)) /\ Max(t) = n + 1 /\ t \ {Max(t)} = 1..n
  <2>1. n + 1 \in t /\ n + 1 \in Nat
    BY <1>1
  <2>2. Max(t) \in t /\ \A y \in t : y <= Max(t)
    BY <2>1, MaxIs
  <2>3. Max(t) = n + 1
    BY <1>1, <2>1, <2>2
  <2> QED
    BY <1>1, <2>1, <2>3
<1> HIDE DEF t
<1>6. h[t] = Op(h[t \ {Max(t)}], r[Max(t)])
  BY <1>3, <1>5 DEF Folds
<1> QED
  BY <1>1, <1>2, <1>3, <1>4, <1>5, <1>6 DEF r, t
=============================================================================
