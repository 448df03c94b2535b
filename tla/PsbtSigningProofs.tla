------------------------- MODULE PsbtSigningProofs -------------------------
(***************************************************************************)
(* No signature is lost and no derivation is, for any transaction, any     *)
(* devices and any number of copies.  Of a PSBT the proofs need the type,  *)
(* and that only the internal key signs an input as a whole: then merging  *)
(* never replaces one signature by another.                                *)
(*                                                                         *)
(* Each round through the documented filters signs every input, and all    *)
(* on one spending path if they pay to one descriptor.  For that the       *)
(* proofs need that a device in a round is shown what the filter leaves    *)
(* of the derivations the input came with.                                 *)
(***************************************************************************)
EXTENDS PsbtSigning, FiniteSetTheorems, TLAPS

Whole(p) == \A i \in Inputs : p[i].keysig \in {NoKey, Internal[i]}

\* Between two rounds nothing is ignored.
IInv ==
    /\ TypeOK
    /\ round.pc = "none" => round = NoRound
    /\ Whole(psbt) /\ \A c \in Copies : Whole(copy[c].psbt)
    /\ NoSignatureLost
    /\ DerivationsKept

-----------------------------------------------------------------------------
(* The operators                                                           *)

\* A device signs with keys.
LEMMA AnswersType ==
    ASSUME NEW p \in Psbts, NEW s \in Signers, NEW a \in Answers(s, p) \union Parts(s, p)
    PROVE  \A i \in Inputs : a[i] \subseteq Keys
<1> SUFFICES ASSUME NEW i \in Inputs PROVE a[i] \subseteq Keys
    OBVIOUS
<1>1. Matching(s, p, i) \subseteq Keys
    BY InputsType DEF Matching, Psbts, InputRecords
<1>2. a[i] \in Choices(s, p, i) \union {{}}
    BY DEF Answers, Parts
<1>3. a[i] = {} \/ a[i] = Matching(s, p, i) \/ \E k \in Matching(s, p, i) : a[i] = {k}
    BY <1>2 DEF Choices
<1> QED
    BY <1>1, <1>3

\* What a device returns is a PSBT that bears its signatures.
LEMMA ReturnedSigns ==
    ASSUME NEW a, \A i \in Inputs : a[i] \subseteq Keys
    PROVE  /\ Returned(a) \in Psbts /\ Whole(Returned(a))
           /\ \A i \in Inputs : a[i] \subseteq SignedBy(Returned(a)[i])
<1> DEFINE q == Returned(a)
<1>1. ASSUME NEW i \in Inputs
      PROVE  /\ q[i].partial = a[i] \ Origins[i]
             /\ q[i].leaf = (a[i] \intersect Origins[i]) \ {Internal[i]}
             /\ q[i].keysig = IF Internal[i] \in a[i] THEN Internal[i] ELSE NoKey
    BY DEF Returned
<1>2. ASSUME NEW i \in Inputs PROVE q[i] \in InputRecords
  <2> DEFINE P == a[i] \ Origins[i]
             L == (a[i] \intersect Origins[i]) \ {Internal[i]}
             K == IF Internal[i] \in a[i] THEN Internal[i] ELSE NoKey
  <2>1. q[i] = [deriv |-> {}, partial |-> P, leaf |-> L, keysig |-> K]
    BY DEF Returned
  <2>2. P \in SUBSET Keys /\ L \in SUBSET Keys /\ K \in Keys \union {NoKey}
    OBVIOUS
  <2> HIDE DEF q, P, L, K
  <2> QED
    BY <2>1, <2>2 DEF InputRecords
<1>3. q \in Psbts
    BY <1>2 DEF Returned, Psbts
<1>4. Whole(q)
    BY <1>1 DEF Whole
<1>5. ASSUME NEW i \in Inputs PROVE a[i] \subseteq SignedBy(q[i])
  <2>1. SignedBy(q[i]) = q[i].partial \union q[i].leaf \union ({q[i].keysig} \ {NoKey})
    BY DEF SignedBy
  <2>2. SUFFICES ASSUME NEW k \in a[i] PROVE k \in SignedBy(q[i])
    OBVIOUS
  <2>3. k # NoKey
    BY InputsType
  <2> HIDE DEF q
  <2> QED
    BY <1>1, <2>1, <2>3
<1> QED
    BY <1>3, <1>4, <1>5

\* Merging keeps every signature and touches no derivation.
LEMMA MergedKeeps ==
    ASSUME NEW p \in Psbts, NEW q \in Psbts, Whole(p), Whole(q)
    PROVE  /\ Merged(p, q) \in Psbts /\ Whole(Merged(p, q))
           /\ \A i \in Inputs :
                 /\ SignedBy(p[i]) \subseteq SignedBy(Merged(p, q)[i])
                 /\ SignedBy(q[i]) \subseteq SignedBy(Merged(p, q)[i])
                 /\ Merged(p, q)[i].deriv = p[i].deriv
                 /\ Merged(p, q)[i].partial = p[i].partial \union q[i].partial
<1> DEFINE m == Merged(p, q)
<1>1. \A i \in Inputs : p[i] \in InputRecords /\ q[i] \in InputRecords
    BY DEF Psbts
<1>2. ASSUME NEW i \in Inputs
      PROVE  /\ m[i].deriv = p[i].deriv
             /\ m[i].partial = p[i].partial \union q[i].partial
             /\ m[i].leaf = p[i].leaf \union q[i].leaf
             /\ m[i].keysig = IF q[i].keysig # NoKey THEN q[i].keysig ELSE p[i].keysig
    BY <1>1 DEF Merged, InputRecords
<1>3. ASSUME NEW i \in Inputs PROVE m[i] \in InputRecords
    BY <1>1 DEF Merged, InputRecords
<1>4. m \in Psbts
    BY <1>3 DEF Merged, Psbts
<1>5. Whole(m)
  <2> SUFFICES ASSUME NEW i \in Inputs PROVE m[i].keysig \in {NoKey, Internal[i]}
    BY DEF Whole
  <2>1. p[i].keysig \in {NoKey, Internal[i]} /\ q[i].keysig \in {NoKey, Internal[i]}
    BY DEF Whole
  <2> HIDE DEF m
  <2> QED
    BY <1>2, <2>1
<1>6. ASSUME NEW i \in Inputs
      PROVE  SignedBy(p[i]) \subseteq SignedBy(m[i]) /\ SignedBy(q[i]) \subseteq SignedBy(m[i])
  <2>1. p[i].keysig \in {NoKey, Internal[i]} /\ q[i].keysig \in {NoKey, Internal[i]}
    BY DEF Whole
  <2> HIDE DEF m
  <2> QED
    BY <1>2, <2>1 DEF SignedBy
<1> QED
    BY <1>2, <1>4, <1>5, <1>6

\* A call that fails leaves the signatures and the derivations that were there.
LEMMA LeftoversKeep ==
    ASSUME NEW p \in Psbts, Whole(p), NEW s \in Signers, NEW r \in Leftovers(s, p)
    PROVE  /\ r \in Psbts /\ Whole(r)
           /\ \A i \in Inputs : SignedBy(p[i]) \subseteq SignedBy(r[i])
<1>1. CASE r = p
    BY <1>1
<1>2. CASE r # p
  <2>1. PICK a \in Parts(s, p) : r = Merged(p, Returned(a))
    BY <1>2 DEF Leftovers
  <2>2. Returned(a) \in Psbts /\ Whole(Returned(a))
    BY AnswersType, ReturnedSigns
  <2> QED
    BY <2>1, <2>2, MergedKeeps
<1> QED
    BY <1>1, <1>2

-----------------------------------------------------------------------------
(* The invariant                                                           *)

LEMMA InitInv == Init => IInv
<1> SUFFICES ASSUME Init PROVE IInv
    OBVIOUS
<1>1. Unsigned \in Psbts /\ Whole(Unsigned)
  <2>1. \A i \in Inputs : InputOf(i) \in InputRecords
    BY InputsType DEF InputOf, InputRecords
  <2> QED
    BY <2>1 DEF Unsigned, Psbts, Whole, InputOf
<1>2. NoRound \in [pc : {"none", "device"}, by : Signers \union {NoOne}, filter : Filters,
                   ignored : [Inputs -> SUBSET Keys]]
    BY DEF NoRound, Filters
<1>3. NoCopy \in [pc : {"free", "device", "message"}, by : Signers \union {NoOne}, psbt : Psbts]
    BY <1>1 DEF NoCopy
<1>4. TypeOK
  <2>1. /\ psbt \in Psbts
        /\ round \in [pc : {"none", "device"}, by : Signers \union {NoOne}, filter : Filters,
                      ignored : [Inputs -> SUBSET Keys]]
        /\ round.pc # "device"
    BY <1>1, <1>2 DEF Init, NoRound
  <2>2. /\ copy \in [Copies -> [pc : {"free", "device", "message"}, by : Signers \union {NoOne},
                                psbt : Psbts]]
        /\ \A c \in Copies : copy[c].pc = "free"
    BY <1>3 DEF Init, NoCopy
  <2>3. plan \in [ask : SUBSET Signers, times : Nat] /\ failed \in BOOLEAN
    BY PlansType DEF Init
  <2>4. given \in [Inputs -> SUBSET Keys] /\ rounds \in [Signers -> Nat]
    BY DEF Init
  <2> QED
    BY <2>1, <2>2, <2>3, <2>4 DEF TypeOK
<1>5. Whole(psbt) /\ \A c \in Copies : Whole(copy[c].psbt)
    BY <1>1 DEF Init, NoCopy
<1>6. NoSignatureLost
    BY DEF Init, NoSignatureLost
<1>7. DerivationsKept
    BY InputsType DEF Init, DerivationsKept, NoRound, NoCopy, Unsigned, InputOf
<1> QED
    BY <1>4, <1>5, <1>6, <1>7 DEF Init, IInv

RoundType == [pc : {"none", "device"}, by : Signers \union {NoOne}, filter : Filters,
              ignored : [Inputs -> SUBSET Keys]]
CopyType == [pc : {"free", "device", "message"}, by : Signers \union {NoOne}, psbt : Psbts]

\* A filter leaves some of the derivations; what it ignored makes up for the others.
LEMMA FilteredIsPart ==
    ASSUME NEW f \in Filters, NEW input \in InputRecords
    PROVE  Filtered(f, input) \subseteq input.deriv
BY DEF Filters, Filtered, WithoutSame, WithoutSigned

LEMMA BeginInv ==
    ASSUME IInv, NEW s \in Signers, NEW f \in Filters, Begin(s, f)
    PROVE  IInv'
<1> DEFINE kept == [i \in Inputs |-> Filtered(f, psbt[i])]
           ignored == [i \in Inputs |-> psbt[i].deriv \ kept[i]]
<1> USE DEF IInv
<1>1. ASSUME NEW i \in Inputs
      PROVE  /\ psbt[i] \in InputRecords
             /\ kept[i] \subseteq psbt[i].deriv /\ psbt[i].deriv \subseteq Keys
             /\ psbt'[i] = [psbt[i] EXCEPT !.deriv = kept[i]]
  <2>1. psbt[i] \in InputRecords
    BY DEF TypeOK, Psbts
  <2> QED
    BY <2>1, FilteredIsPart DEF Begin, InputRecords
<1>2. ASSUME NEW i \in Inputs
      PROVE  /\ psbt'[i] \in InputRecords /\ psbt'[i].deriv = kept[i]
             /\ SignedBy(psbt'[i]) = SignedBy(psbt[i]) /\ psbt'[i].keysig = psbt[i].keysig
  <2> HIDE DEF kept, IInv
  <2> QED
    BY <1>1 DEF InputRecords, SignedBy
<1>3. psbt' \in Psbts
    BY <1>2 DEF Begin, Psbts
<1>4. /\ round' = [pc |-> "device", by |-> s, filter |-> f, ignored |-> ignored]
      /\ ignored \in [Inputs -> SUBSET Keys]
    BY <1>1 DEF Begin
<1>5. round' \in RoundType
    BY <1>4 DEF RoundType
<1>6. TypeOK'
  <2>1. plan' \in [ask : SUBSET Signers, times : Nat]
    BY DEF Begin, TypeOK
  <2> QED
    BY <1>3, <1>4, <1>5, <2>1 DEF Begin, TypeOK, RoundType
<1>7. Whole(psbt') /\ \A c \in Copies : Whole(copy'[c].psbt)
    BY <1>2 DEF Begin, Whole
<1>8. NoSignatureLost'
    BY <1>2 DEF Begin, NoSignatureLost
<1>9. DerivationsKept'
  <2> SUFFICES ASSUME ~failed, NEW i \in Inputs
               PROVE  psbt'[i].deriv \union ignored[i] = Derivations[i]
    BY <1>4 DEF Begin, DerivationsKept
  <2>1. psbt[i].deriv \union round.ignored[i] = Derivations[i] /\ round = NoRound
    BY DEF Begin, DerivationsKept
  <2>2. round.ignored[i] = {}
    BY <2>1 DEF NoRound
  <2> QED
    BY <1>1, <1>2, <2>1, <2>2
<1> QED
    BY <1>4, <1>6, <1>7, <1>8, <1>9

LEMMA SignPsbtInv ==
    ASSUME IInv, SignPsbt
    PROVE  IInv'
<1> USE DEF IInv
<1>1. PICK a \in Answers(round.by, psbt) :
         /\ psbt' = [i \in Inputs |-> [Merged(psbt, Returned(a))[i] EXCEPT
                                          !.deriv = @ \union round.ignored[i]]]
         /\ given' = [i \in Inputs |-> given[i] \union a[i]]
    BY DEF SignPsbt
<1> DEFINE m == Merged(psbt, Returned(a))
<1>2. psbt \in Psbts /\ round.by \in Signers /\ round \in RoundType
    BY DEF SignPsbt, TypeOK, RoundType
<1>3. \A i \in Inputs : a[i] \subseteq Keys
    BY <1>2, AnswersType
<1>4. /\ Returned(a) \in Psbts /\ Whole(Returned(a))
      /\ \A i \in Inputs : a[i] \subseteq SignedBy(Returned(a)[i])
    BY <1>3, ReturnedSigns
<1>5. /\ m \in Psbts /\ Whole(m)
      /\ \A i \in Inputs : /\ SignedBy(psbt[i]) \subseteq SignedBy(m[i])
                           /\ SignedBy(Returned(a)[i]) \subseteq SignedBy(m[i])
                           /\ m[i].deriv = psbt[i].deriv
    BY <1>2, <1>4, MergedKeeps
<1> HIDE DEF m
<1>6. ASSUME NEW i \in Inputs
      PROVE  /\ psbt'[i] \in InputRecords
             /\ psbt'[i].deriv = psbt[i].deriv \union round.ignored[i]
             /\ SignedBy(psbt'[i]) = SignedBy(m[i]) /\ psbt'[i].keysig = m[i].keysig
  <2>1. m[i] \in InputRecords /\ round.ignored[i] \in SUBSET Keys
    BY <1>2, <1>5 DEF Psbts, RoundType
  <2>2. psbt'[i] = [m[i] EXCEPT !.deriv = @ \union round.ignored[i]]
    BY <1>1 DEF m
  <2> HIDE DEF IInv
  <2> QED
    BY <1>5, <2>1, <2>2 DEF InputRecords, SignedBy
<1>7. psbt' \in Psbts
    BY <1>1, <1>6 DEF Psbts
<1>8. round' = NoRound /\ NoRound \in RoundType
    BY DEF SignPsbt, NoRound, RoundType, Filters
<1>9. TypeOK'
  <2>1. given' \in [Inputs -> SUBSET Keys]
    BY <1>1, <1>3 DEF TypeOK
  <2>2. rounds' \in [Signers -> Nat]
    BY <1>2 DEF SignPsbt, TypeOK
  <2> QED
    BY <1>7, <1>8, <2>1, <2>2 DEF SignPsbt, TypeOK, RoundType, NoRound
<1>10. Whole(psbt') /\ \A c \in Copies : Whole(copy'[c].psbt)
    BY <1>5, <1>6 DEF SignPsbt, Whole
<1>11. NoSignatureLost'
  <2> SUFFICES ASSUME NEW i \in Inputs, NEW k \in given'[i]
               PROVE  \/ k \in SignedBy(psbt'[i])
                      \/ \E c \in Copies : copy[c].pc = "message" /\ k \in SignedBy(copy[c].psbt[i])
    BY DEF SignPsbt, NoSignatureLost
  <2>1. k \in given[i] \/ k \in a[i]
    BY <1>1
  <2> QED
    BY <1>4, <1>5, <1>6, <2>1 DEF NoSignatureLost
<1>12. DerivationsKept'
  <2>1. \A i \in Inputs : round'.ignored[i] = {}
    BY <1>8 DEF NoRound
  <2>2. failed' = failed /\ copy' = copy
    BY DEF SignPsbt
  <2> QED
    BY <1>6, <2>1, <2>2 DEF DerivationsKept
<1> QED
    BY <1>8, <1>9, <1>10, <1>11, <1>12

LEMMA SignPsbtFailsInv ==
    ASSUME IInv, SignPsbtFails
    PROVE  IInv'
<1> USE DEF IInv
<1>1. psbt \in Psbts /\ round.by \in Signers
    BY DEF SignPsbtFails, TypeOK
<1>2. /\ psbt' \in Psbts /\ Whole(psbt')
      /\ \A i \in Inputs : SignedBy(psbt[i]) \subseteq SignedBy(psbt'[i])
    BY <1>1, LeftoversKeep DEF SignPsbtFails
<1>3. round' = NoRound /\ NoRound \in RoundType
    BY DEF SignPsbtFails, NoRound, RoundType, Filters
<1>4. TypeOK'
    BY <1>2, <1>3 DEF SignPsbtFails, TypeOK, RoundType, NoRound
<1>5. \A c \in Copies : Whole(copy'[c].psbt)
    BY DEF SignPsbtFails
<1>6. NoSignatureLost'
    BY <1>2 DEF SignPsbtFails, NoSignatureLost
<1>7. DerivationsKept'
    BY DEF SignPsbtFails, DerivationsKept
<1> QED
    BY <1>2, <1>3, <1>4, <1>5, <1>6, <1>7

LEMMA RequestInv ==
    ASSUME IInv, NEW c \in Copies, NEW s \in Signers, Request(c, s)
    PROVE  IInv'
<1> USE DEF IInv
<1> DEFINE new == [pc |-> "device", by |-> s, psbt |-> psbt]
<1>1. /\ copy' = [copy EXCEPT ![c] = new] /\ copy \in [Copies -> CopyType]
      /\ new \in CopyType
    BY DEF Request, TypeOK, CopyType
<1>2. ASSUME NEW d \in Copies PROVE copy'[d] = IF d = c THEN new ELSE copy[d]
    BY <1>1
<1>3. copy' \in [Copies -> CopyType]
    BY <1>1
<1>4. TypeOK'
  <2>1. plan' \in [ask : SUBSET Signers, times : Nat]
    BY DEF Request, TypeOK
  <2>2. \A d \in Copies : copy'[d].pc # "free" => copy'[d].by \in Signers
    BY <1>2 DEF TypeOK
  <2> QED
    BY <1>3, <2>1, <2>2 DEF Request, TypeOK, CopyType
<1>5. Whole(psbt') /\ \A d \in Copies : Whole(copy'[d].psbt)
    BY <1>2 DEF Request
<1>6. NoSignatureLost'
  <2>1. \A d \in Copies : copy[d].pc = "message" => copy'[d] = copy[d]
    BY <1>2 DEF Request
  <2> QED
    BY <2>1 DEF Request, NoSignatureLost
<1>7. DerivationsKept'
  <2>1. ~failed => \A i \in Inputs : psbt[i].deriv = Derivations[i]
    <3>1. round = NoRound /\ \A i \in Inputs : NoRound.ignored[i] = {}
      BY DEF Request, NoRound
    <3> QED
      BY <3>1 DEF DerivationsKept
  <2> QED
    BY <1>2, <2>1 DEF Request, DerivationsKept
<1>8. round' = round
    BY DEF Request
<1> QED
    BY <1>4, <1>5, <1>6, <1>7, <1>8

LEMMA CopySignedInv ==
    ASSUME IInv, NEW c \in Copies, CopySigned(c)
    PROVE  IInv'
<1> USE DEF IInv
<1> DEFINE p == copy[c].psbt
<1>1. PICK a \in Answers(copy[c].by, p) :
         /\ copy' = [copy EXCEPT ![c].pc = "message", ![c].psbt = Merged(@, Returned(a))]
         /\ given' = [i \in Inputs |-> given[i] \union a[i]]
    BY DEF CopySigned
<1> DEFINE m == Merged(p, Returned(a))
<1>2. /\ p \in Psbts /\ copy[c].by \in Signers /\ copy \in [Copies -> CopyType]
      /\ Whole(p) /\ copy[c].pc = "device"
    BY DEF CopySigned, TypeOK, CopyType
<1>3. \A i \in Inputs : a[i] \subseteq Keys
    BY <1>2, AnswersType
<1>4. /\ Returned(a) \in Psbts /\ Whole(Returned(a))
      /\ \A i \in Inputs : a[i] \subseteq SignedBy(Returned(a)[i])
    BY <1>3, ReturnedSigns
<1>5. /\ m \in Psbts /\ Whole(m)
      /\ \A i \in Inputs : /\ SignedBy(Returned(a)[i]) \subseteq SignedBy(m[i])
                           /\ m[i].deriv = p[i].deriv
    BY <1>2, <1>4, MergedKeeps
<1>6. copy'[c] = [[copy[c] EXCEPT !.pc = "message"] EXCEPT !.psbt = m]
    BY <1>1, <1>2
<1> HIDE DEF m
<1>7. /\ copy'[c] \in CopyType /\ copy'[c].pc = "message"
      /\ copy'[c].by = copy[c].by /\ copy'[c].psbt = m
    BY <1>2, <1>5, <1>6 DEF CopyType
<1>8. copy' \in [Copies -> CopyType] /\ \A d \in Copies \ {c} : copy'[d] = copy[d]
    BY <1>1, <1>2, <1>7
<1>9. TypeOK'
  <2>1. given' \in [Inputs -> SUBSET Keys]
    BY <1>1, <1>3 DEF TypeOK
  <2>2. \A d \in Copies : copy'[d].pc # "free" => copy'[d].by \in Signers
    BY <1>2, <1>7, <1>8 DEF TypeOK
  <2> QED
    BY <1>8, <2>1, <2>2 DEF CopySigned, TypeOK, CopyType
<1>10. Whole(psbt') /\ \A d \in Copies : Whole(copy'[d].psbt)
    BY <1>5, <1>7, <1>8 DEF CopySigned
<1>11. NoSignatureLost'
  <2> SUFFICES ASSUME NEW i \in Inputs, NEW k \in given'[i]
               PROVE  \/ k \in SignedBy(psbt'[i])
                      \/ \E d \in Copies : copy'[d].pc = "message" /\ k \in SignedBy(copy'[d].psbt[i])
    BY DEF NoSignatureLost
  <2>1. CASE k \in a[i]
    BY <1>4, <1>5, <1>7, <2>1
  <2>2. CASE k \in given[i]
    <3>1. \A d \in Copies : copy[d].pc = "message" => copy'[d] = copy[d]
      BY <1>2, <1>8
    <3> QED
      BY <2>2, <3>1 DEF CopySigned, NoSignatureLost
  <2> QED
    BY <1>1, <2>1, <2>2
<1>12. DerivationsKept'
  <2> SUFFICES ASSUME ~failed, NEW d \in Copies, NEW i \in Inputs
               PROVE  copy'[d].psbt[i].deriv = Derivations[i]
    BY DEF CopySigned, DerivationsKept
  <2> QED
    BY <1>5, <1>7, <1>8 DEF DerivationsKept
<1>13. round' = round
    BY DEF CopySigned
<1> QED
    BY <1>9, <1>10, <1>11, <1>12, <1>13

\* A copy that is let go: nothing of it is claimed any more.
LEMMA NoCopyKeeps ==
    /\ NoCopy \in CopyType /\ Whole(NoCopy.psbt)
    /\ \A i \in Inputs : NoCopy.psbt[i].deriv = Derivations[i]
<1>1. \A i \in Inputs : InputOf(i) \in InputRecords /\ Unsigned[i] = InputOf(i)
    BY InputsType DEF InputOf, InputRecords, Unsigned
<1>2. Unsigned \in Psbts
    BY <1>1 DEF Unsigned, Psbts
<1>3. /\ Whole(Unsigned) /\ \A i \in Inputs : Unsigned[i].deriv = Derivations[i]
      /\ NoCopy.psbt = Unsigned
  <2>1. \A i \in Inputs : Unsigned[i].deriv = Derivations[i] /\ Unsigned[i].keysig = NoKey
    BY DEF Unsigned, InputOf
  <2>2. NoCopy.psbt = Unsigned
    BY DEF NoCopy
  <2> QED
    BY <2>1, <2>2 DEF Whole
<1>4. NoCopy \in CopyType
    BY <1>2 DEF NoCopy, CopyType
<1> QED
    BY <1>3, <1>4

LEMMA CopyFailsInv ==
    ASSUME IInv, NEW c \in Copies, CopyFails(c)
    PROVE  IInv'
<1> USE DEF IInv
<1>1. copy' = [copy EXCEPT ![c] = NoCopy] /\ copy \in [Copies -> CopyType]
    BY DEF CopyFails, TypeOK, CopyType
<1>2. /\ copy'[c] = NoCopy /\ copy' \in [Copies -> CopyType]
      /\ \A d \in Copies \ {c} : copy'[d] = copy[d]
    BY <1>1, NoCopyKeeps
<1>3. TypeOK'
    BY <1>2 DEF CopyFails, TypeOK, CopyType, NoCopy
<1>4. Whole(psbt') /\ \A d \in Copies : Whole(copy'[d].psbt)
    BY <1>2, NoCopyKeeps DEF CopyFails
<1>5. NoSignatureLost'
  <2>1. \A d \in Copies : copy[d].pc = "message" => copy'[d] = copy[d]
    BY <1>2 DEF CopyFails
  <2> QED
    BY <2>1 DEF CopyFails, NoSignatureLost
<1>6. DerivationsKept'
    BY <1>2, NoCopyKeeps DEF CopyFails, DerivationsKept
<1>7. round' = round
    BY DEF CopyFails
<1> QED
    BY <1>3, <1>4, <1>5, <1>6, <1>7

LEMMA ReceiveInv ==
    ASSUME IInv, NEW c \in Copies, Receive(c)
    PROVE  IInv'
<1> DEFINE q == copy[c].psbt
<1> USE DEF IInv
<1>1. /\ copy' = [copy EXCEPT ![c] = NoCopy] /\ copy \in [Copies -> CopyType]
      /\ psbt' = Merged(psbt, copy[c].psbt)
      /\ psbt \in Psbts /\ copy[c].psbt \in Psbts
    BY DEF Receive, TypeOK, CopyType
<1>2. /\ copy'[c] = NoCopy /\ copy' \in [Copies -> CopyType]
      /\ \A d \in Copies \ {c} : copy'[d] = copy[d]
    BY <1>1, NoCopyKeeps
<1>3. /\ psbt' \in Psbts /\ Whole(psbt')
      /\ \A i \in Inputs : /\ SignedBy(psbt[i]) \subseteq SignedBy(psbt'[i])
                           /\ SignedBy(copy[c].psbt[i]) \subseteq SignedBy(psbt'[i])
                           /\ psbt'[i].deriv = psbt[i].deriv
    <2>1. psbt \in Psbts /\ q \in Psbts /\ Whole(psbt) /\ Whole(q) /\ psbt' = Merged(psbt, q)
      BY <1>1
    <2> HIDE DEF q
    <2>2. /\ psbt' \in Psbts /\ Whole(psbt')
          /\ \A i \in Inputs : /\ SignedBy(psbt[i]) \subseteq SignedBy(psbt'[i])
                               /\ SignedBy(q[i]) \subseteq SignedBy(psbt'[i])
                               /\ psbt'[i].deriv = psbt[i].deriv
      BY <2>1, MergedKeeps
    <2> QED
      BY <2>2 DEF q
<1>4. TypeOK'
    BY <1>2, <1>3 DEF Receive, TypeOK, CopyType, NoCopy
<1>5. \A d \in Copies : Whole(copy'[d].psbt)
    BY <1>2, NoCopyKeeps
<1>6. NoSignatureLost'
  <2> SUFFICES ASSUME NEW i \in Inputs, NEW k \in given[i]
               PROVE  \/ k \in SignedBy(psbt'[i])
                      \/ \E d \in Copies : copy'[d].pc = "message" /\ k \in SignedBy(copy'[d].psbt[i])
    BY DEF Receive, NoSignatureLost
  <2> QED
    BY <1>2, <1>3 DEF NoSignatureLost
<1>7. DerivationsKept'
    BY <1>2, <1>3, NoCopyKeeps DEF Receive, DerivationsKept
<1>8. round' = round
    BY DEF Receive
<1> QED
    BY <1>3, <1>4, <1>5, <1>6, <1>7, <1>8

-----------------------------------------------------------------------------
(* The theorems                                                            *)

\* The invariant holds in every state that can be reached.
THEOREM Invariance == Spec => []IInv
<1>1. ASSUME IInv, [Next]_vars PROVE IInv'
  <2>1. CASE UNCHANGED vars
    <3>1. /\ TypeOK' = TypeOK /\ NoSignatureLost' = NoSignatureLost
          /\ DerivationsKept' = DerivationsKept /\ round' = round
          /\ psbt' = psbt /\ copy' = copy
      BY <2>1 DEF vars, TypeOK, NoSignatureLost, DerivationsKept
    <3> QED
      BY <1>1, <3>1 DEF IInv
  <2>2. ASSUME NEW s \in Signers, NEW f \in Filters, Begin(s, f) PROVE IInv'
    BY <1>1, <2>2, BeginInv
  <2>3. CASE SignPsbt
    BY <1>1, <2>3, SignPsbtInv
  <2>4. CASE SignPsbtFails
    BY <1>1, <2>4, SignPsbtFailsInv
  <2>5. ASSUME NEW c \in Copies, NEW s \in Signers, Request(c, s) PROVE IInv'
    BY <1>1, <2>5, RequestInv
  <2>6. ASSUME NEW c \in Copies, CopySigned(c) PROVE IInv'
    BY <1>1, <2>6, CopySignedInv
  <2>7. ASSUME NEW c \in Copies, CopyFails(c) PROVE IInv'
    BY <1>1, <2>7, CopyFailsInv
  <2>8. ASSUME NEW c \in Copies, Receive(c) PROVE IInv'
    BY <1>1, <2>8, ReceiveInv
  <2> QED
    BY <1>1, <2>1, <2>2, <2>3, <2>4, <2>5, <2>6, <2>7, <2>8 DEF Next
<1> QED
    BY InitInv, <1>1, PTL DEF Spec

\* The variables have their types, for any transaction and any devices.
THEOREM TypeCorrect == Spec => []TypeOK
<1>1. IInv => TypeOK
    BY DEF IInv
<1> QED
    BY <1>1, Invariance, PTL

\* What a device has signed stays in the consumer's PSBT, or is on its way there,
\* whatever the rounds and copies, and however many.
THEOREM SignaturesStay == Spec => []NoSignatureLost
<1>1. IInv => NoSignatureLost
    BY DEF IInv
<1> QED
    BY <1>1, Invariance, PTL

\* Until a call fails, the derivations come back out of every filter.
THEOREM DerivationsStay == Spec => []DerivationsKept
<1>1. IInv => DerivationsKept
    BY DEF IInv
<1> QED
    BY <1>1, Invariance, PTL

-----------------------------------------------------------------------------
(* The rounds through the filters                                          *)

\* Of some keys, one has a path that no other's comes after.
LEMMA LastPath ==
    ASSUME NEW D \in SUBSET Keys, D # {}
    PROVE  \E k \in D : \A l \in D : ~(Path[k] < Path[l])
<1> DEFINE Beyond(k) == {l \in D : Path[k] < Path[l]}
           Beyonds == {Beyond(k) : k \in D}
           R == StrictSubsetOrdering(D)
<1>1. IsFiniteSet(D)
    BY KeysFinite, FS_Subset
<1>2. Beyonds \subseteq SUBSET D
    OBVIOUS
<1>3. IsWellFoundedOn(R, SUBSET D)
    BY <1>1, FS_FiniteSubsetsOfFinite, FS_StrictSubsetOrderingWellFounded
<1>4. \A S, T \in SUBSET D : <<S, T>> \in R <=> S \subseteq T /\ S # T
    BY DEF StrictSubsetOrdering
<1>5. Beyonds # {}
    OBVIOUS
<1>6. PICK B \in Beyonds : \A C \in Beyonds : ~(<<C, B>> \in R)
  <2> HIDE DEF R, Beyonds
  <2> QED
    BY <1>2, <1>3, <1>5, WFMin
<1>7. PICK k \in D : B = Beyond(k)
    OBVIOUS
<1>8. ASSUME NEW l \in D, Path[k] < Path[l] PROVE FALSE
  <2>1. \A m \in D : Path[m] \in Int
    BY PathsType
  <2>2. Beyond(l) \subseteq Beyond(k)
    BY <1>8, <2>1
  <2>3. l \in Beyond(k) /\ l \notin Beyond(l)
    BY <1>8, <2>1
  <2>4. <<Beyond(l), B>> \in R
    BY <1>2, <1>4, <1>7, <2>2, <2>3
  <2> QED
    BY <1>6, <2>4
<1> QED
    BY <1>7, <1>8

\* A device is asked for the keys of the input it is shown, no others.
LEMMA AnswersMatch ==
    ASSUME NEW p, NEW s, NEW a \in Answers(s, p) \union Parts(s, p), NEW i \in Inputs
    PROVE  a[i] \subseteq Matching(s, p, i)
<1>1. a[i] \in Choices(s, p, i) \union {{}}
    BY DEF Answers, Parts
<1> QED
    BY <1>1 DEF Choices

\* What is shown and signed of a PSBT are keys of its inputs.
Native(p) == \A i \in Inputs : p[i].deriv \subseteq Derivations[i] /\ p[i].partial \subseteq Derivations[i]

\* A device signs for keys of the inputs.
LEMMA MergedNative ==
    ASSUME NEW p \in Psbts, Whole(p), Native(p), NEW s \in Signers,
           NEW a \in Answers(s, p) \union Parts(s, p)
    PROVE  /\ Native(Merged(p, Returned(a)))
           /\ \A i \in Inputs :
                 Merged(p, Returned(a))[i].partial = p[i].partial \union (a[i] \ Origins[i])
<1> DEFINE m == Merged(p, Returned(a))
<1>1. \A i \in Inputs : a[i] \subseteq Keys
    BY AnswersType
<1>2. Returned(a) \in Psbts /\ Whole(Returned(a))
    BY <1>1, ReturnedSigns
<1>3. \A i \in Inputs : Returned(a)[i].partial = a[i] \ Origins[i]
    BY DEF Returned
<1>4. \A i \in Inputs : m[i].deriv = p[i].deriv /\ m[i].partial = p[i].partial \union (a[i] \ Origins[i])
    BY <1>2, <1>3, MergedKeeps
<1>5. \A i \in Inputs : a[i] \ Origins[i] \subseteq p[i].deriv
    BY AnswersMatch DEF Matching
<1> HIDE DEF m
<1>6. Native(m)
    BY <1>4, <1>5 DEF Native
<1> QED
    BY <1>4, <1>6 DEF m

\* What the invariant for the rounds adds to IInv: the PSBTs are native, and
\* in a round the device is shown what the filter leaves.
FilterHolds ==
    round.pc = "device" /\ ~failed => \A i \in Inputs :
        psbt[i].deriv = Filtered(round.filter, [psbt[i] EXCEPT !.deriv = Derivations[i]])
RoundsInv ==
    /\ Native(psbt) /\ \A c \in Copies : Native(copy[c].psbt)
    /\ \A i \in Inputs : round.ignored[i] \subseteq Derivations[i]
    /\ FilterHolds

LEMMA FilteredOnly ==
    ASSUME NEW f \in Filters, NEW x \in InputRecords, NEW y \in InputRecords,
           x.deriv = y.deriv, x.partial = y.partial
    PROVE  Filtered(f, x) = Filtered(f, y)
BY DEF Filters, Filtered, WithoutSame, WithoutSigned

LEMMA SignPsbtEffect ==
    ASSUME IInv, RoundsInv, SignPsbt
    PROVE  \E a \in Answers(round.by, psbt) : \A i \in Inputs :
              /\ psbt'[i].deriv = psbt[i].deriv \union round.ignored[i]
              /\ psbt'[i].partial = psbt[i].partial \union (a[i] \ Origins[i])
<1>1. PICK a \in Answers(round.by, psbt) :
         psbt' = [i \in Inputs |-> [Merged(psbt, Returned(a))[i] EXCEPT
                                       !.deriv = @ \union round.ignored[i]]]
    BY DEF SignPsbt
<1> DEFINE m == Merged(psbt, Returned(a))
<1>2. psbt \in Psbts /\ Whole(psbt) /\ round.by \in Signers /\ Native(psbt)
    BY DEF SignPsbt, TypeOK, IInv, RoundsInv
<1>3. \A i \in Inputs : a[i] \subseteq Keys
    BY <1>2, AnswersType
<1>4. m \in Psbts /\ \A i \in Inputs : m[i].deriv = psbt[i].deriv
    BY <1>2, <1>3, ReturnedSigns, MergedKeeps
<1>5. \A i \in Inputs : m[i].partial = psbt[i].partial \union (a[i] \ Origins[i])
    BY <1>2, MergedNative
<1>6. ASSUME NEW i \in Inputs
      PROVE  /\ psbt'[i].deriv = psbt[i].deriv \union round.ignored[i]
             /\ psbt'[i].partial = psbt[i].partial \union (a[i] \ Origins[i])
  <2>1. m[i] \in InputRecords
    BY <1>4 DEF Psbts
  <2>2. psbt'[i] = [m[i] EXCEPT !.deriv = @ \union round.ignored[i]]
    BY <1>1
  <2> HIDE DEF m
  <2> QED
    BY <1>4, <1>5, <2>1, <2>2 DEF InputRecords
<1> QED
    BY <1>6

LEMMA RoundsNext ==
    ASSUME IInv, RoundsInv, Next
    PROVE  RoundsInv'
<1>1. psbt \in Psbts /\ Whole(psbt) /\ copy \in [Copies -> CopyType] /\ round \in RoundType
    BY DEF IInv, TypeOK, CopyType, RoundType
<1>2. \A i \in Inputs : NoRound.ignored[i] = {}
    BY DEF NoRound
<1>3. NoRound.pc = "none"
    BY DEF NoRound
<1>4. ASSUME NEW s \in Signers, NEW f \in Filters, Begin(s, f) PROVE RoundsInv'
  <2> DEFINE kept == [i \in Inputs |-> Filtered(f, psbt[i])]
  <2>1. /\ round'.pc = "device" /\ round'.filter = f
        /\ \A i \in Inputs : round'.ignored[i] = psbt[i].deriv \ kept[i]
    BY <1>4 DEF Begin
  <2>2. ASSUME NEW i \in Inputs
        PROVE  /\ psbt[i] \in InputRecords /\ psbt'[i] \in InputRecords
               /\ psbt'[i].deriv = kept[i] /\ psbt'[i].partial = psbt[i].partial
               /\ kept[i] \subseteq psbt[i].deriv /\ kept[i] = Filtered(f, psbt[i])
    <3>1. psbt[i] \in InputRecords
      BY <1>1 DEF Psbts
    <3>2. psbt'[i] = [psbt[i] EXCEPT !.deriv = kept[i]]
      BY <1>4 DEF Begin
    <3>3. kept[i] \subseteq psbt[i].deriv /\ psbt[i].deriv \subseteq Keys
      BY <3>1, FilteredIsPart DEF InputRecords
    <3>4. kept[i] = Filtered(f, psbt[i])
      OBVIOUS
    <3> HIDE DEF kept
    <3> QED
      BY <3>1, <3>2, <3>3, <3>4 DEF InputRecords
  <2> HIDE DEF kept
  <2>3. Native(psbt')
    BY <2>2 DEF Native, RoundsInv
  <2>4. \A i \in Inputs : round'.ignored[i] \subseteq Derivations[i]
    BY <2>1 DEF Native, RoundsInv
  <2>5. FilterHolds'
    <3> SUFFICES ASSUME ~failed', NEW i \in Inputs
                 PROVE  psbt'[i].deriv = Filtered(f, [psbt'[i] EXCEPT !.deriv = Derivations[i]])
      BY <2>1 DEF FilterHolds
    <3> DEFINE y == [psbt'[i] EXCEPT !.deriv = Derivations[i]]
    <3>1. ~failed /\ round = NoRound
      BY <1>4 DEF Begin, IInv
    <3>2. psbt[i].deriv \union round.ignored[i] = Derivations[i]
      BY <3>1 DEF IInv, DerivationsKept
    <3>3. psbt[i].deriv = Derivations[i]
      BY <1>2, <3>1, <3>2
    <3>4. y \in InputRecords /\ y.deriv = Derivations[i] /\ y.partial = psbt'[i].partial
      BY <2>2, InputsType DEF InputRecords
    <3> HIDE DEF y
    <3>5. Filtered(f, y) = Filtered(f, psbt[i])
      BY <2>2, <3>3, <3>4, FilteredOnly
    <3> QED
      BY <2>2, <3>5 DEF y
  <2>6. \A c \in Copies : Native(copy'[c].psbt)
    BY <1>4 DEF Begin, RoundsInv
  <2> QED
    BY <2>3, <2>4, <2>5, <2>6 DEF RoundsInv
<1>5. CASE SignPsbt
  <2>1. PICK a \in Answers(round.by, psbt) : \A i \in Inputs :
              /\ psbt'[i].deriv = psbt[i].deriv \union round.ignored[i]
              /\ psbt'[i].partial = psbt[i].partial \union (a[i] \ Origins[i])
    BY <1>5, SignPsbtEffect
  <2>2. \A i \in Inputs : a[i] \ Origins[i] \subseteq psbt[i].deriv
    BY AnswersMatch DEF Matching
  <2>3. Native(psbt')
    BY <2>1, <2>2 DEF Native, RoundsInv
  <2>4. round' = NoRound /\ copy' = copy
    BY <1>5 DEF SignPsbt
  <2> QED
    BY <1>2, <1>3, <2>3, <2>4 DEF RoundsInv, FilterHolds
<1>6. CASE SignPsbtFails
  <2>1. psbt' \in Leftovers(round.by, psbt) /\ round' = NoRound /\ copy' = copy
        /\ round.by \in Signers
    BY <1>6 DEF SignPsbtFails, IInv, TypeOK
  <2>2. Native(psbt')
    <3>1. CASE psbt' = psbt
      BY <3>1 DEF RoundsInv
    <3>2. CASE psbt' # psbt
      <4>1. PICK a \in Parts(round.by, psbt) : psbt' = Merged(psbt, Returned(a))
        BY <2>1, <3>2 DEF Leftovers
      <4> QED
        BY <1>1, <2>1, <4>1, MergedNative DEF RoundsInv
    <3> QED
      BY <3>1, <3>2
  <2> QED
    BY <1>2, <1>3, <2>1, <2>2 DEF RoundsInv, FilterHolds
<1>7. ASSUME NEW c \in Copies, NEW s \in Signers, Request(c, s) PROVE RoundsInv'
  <2>1. /\ psbt' = psbt /\ round' = round /\ failed' = failed
        /\ copy' = [copy EXCEPT ![c] = [pc |-> "device", by |-> s, psbt |-> psbt]]
    BY <1>7 DEF Request
  <2>2. \A d \in Copies : copy'[d].psbt = IF d = c THEN psbt ELSE copy[d].psbt
    BY <1>1, <2>1
  <2> QED
    BY <2>1, <2>2 DEF RoundsInv, FilterHolds
<1>8. ASSUME NEW c \in Copies, CopySigned(c) PROVE RoundsInv'
  <2> DEFINE p == copy[c].psbt
  <2>1. PICK a \in Answers(copy[c].by, p) :
           copy' = [copy EXCEPT ![c].pc = "message", ![c].psbt = Merged(@, Returned(a))]
    BY <1>8 DEF CopySigned
  <2> DEFINE m == Merged(p, Returned(a))
  <2>2. p \in Psbts /\ Whole(p) /\ Native(p) /\ copy[c].by \in Signers /\ copy[c] \in CopyType
    BY <1>1, <1>8 DEF CopySigned, IInv, TypeOK, CopyType, RoundsInv
  <2>3. Native(m)
    BY <2>2, MergedNative
  <2>4. copy'[c] = [[copy[c] EXCEPT !.pc = "message"] EXCEPT !.psbt = m]
    BY <1>1, <2>1
  <2> HIDE DEF m
  <2>5. copy'[c].psbt = m
    BY <2>2, <2>4 DEF CopyType
  <2>6. \A d \in Copies \ {c} : copy'[d] = copy[d]
    BY <1>1, <2>1
  <2>7. psbt' = psbt /\ round' = round /\ failed' = failed
    BY <1>8 DEF CopySigned
  <2>8. \A d \in Copies : Native(copy'[d].psbt)
    BY <2>3, <2>5, <2>6 DEF RoundsInv
  <2> QED
    BY <2>7, <2>8 DEF RoundsInv, FilterHolds
<1>9. Native(NoCopy.psbt)
  <2>1. \A i \in Inputs : Unsigned[i].deriv = Derivations[i] /\ Unsigned[i].partial = {}
    BY DEF Unsigned, InputOf
  <2>2. NoCopy.psbt = Unsigned
    BY DEF NoCopy
  <2> QED
    BY <2>1, <2>2 DEF Native
<1>10. ASSUME NEW c \in Copies, CopyFails(c) PROVE RoundsInv'
  <2>1. /\ psbt' = psbt /\ round' = round /\ failed' = failed
        /\ copy' = [copy EXCEPT ![c] = NoCopy]
    BY <1>10 DEF CopyFails
  <2>2. \A d \in Copies : copy'[d] = IF d = c THEN NoCopy ELSE copy[d]
    BY <1>1, <2>1
  <2> QED
    BY <1>9, <2>1, <2>2 DEF RoundsInv, FilterHolds
<1>11. ASSUME NEW c \in Copies, Receive(c) PROVE RoundsInv'
  <2>1. /\ psbt' = Merged(psbt, copy[c].psbt) /\ round' = round /\ round.pc = "none"
        /\ copy' = [copy EXCEPT ![c] = NoCopy]
    BY <1>11 DEF Receive
  <2>2. copy[c].psbt \in Psbts /\ Whole(copy[c].psbt)
    BY <1>1 DEF CopyType, IInv
  <2>3. \A i \in Inputs : /\ psbt'[i].deriv = psbt[i].deriv
                          /\ psbt'[i].partial = psbt[i].partial \union copy[c].psbt[i].partial
    BY <1>1, <2>1, <2>2, MergedKeeps
  <2>4. Native(psbt')
    BY <2>3 DEF Native, RoundsInv
  <2>5. \A d \in Copies : copy'[d] = IF d = c THEN NoCopy ELSE copy[d]
    BY <1>1, <2>1
  <2> QED
    BY <1>9, <2>1, <2>4, <2>5 DEF RoundsInv, FilterHolds
<1> QED
    BY <1>4, <1>5, <1>6, <1>7, <1>8, <1>10, <1>11 DEF Next

LEMMA RoundsInit == Init => RoundsInv
<1> SUFFICES ASSUME Init PROVE RoundsInv
    OBVIOUS
<1>1. \A i \in Inputs : Unsigned[i].deriv = Derivations[i] /\ Unsigned[i].partial = {}
    BY DEF Unsigned, InputOf
<1>2. psbt = Unsigned /\ \A c \in Copies : copy[c].psbt = Unsigned
    BY DEF Init, NoCopy
<1>3. round.pc = "none" /\ \A i \in Inputs : round.ignored[i] = {}
    BY DEF Init, NoRound
<1> QED
    BY <1>1, <1>2, <1>3 DEF RoundsInv, Native, FilterHolds

\* Of a device's keys, both filters in their order show the last it has yet to sign with.
Open(s, i) == Own(s, i) \ psbt[i].partial
Last(k, D) == k \in D /\ \A l \in D : ~(Path[k] < Path[l])

LEMMA Shown ==
    ASSUME IInv, RoundsInv, round.pc = "device", round.filter = Documented, ~failed,
           NEW i \in Inputs, NEW k \in KeysOf(round.by)
    PROVE  k \in psbt[i].deriv <=> Last(k, Open(round.by, i))
<1> DEFINE y == [psbt[i] EXCEPT !.deriv = Derivations[i]]
           d == Derivations[i] \ psbt[i].partial
<1>1. psbt[i] \in InputRecords
    BY DEF IInv, TypeOK, Psbts
<1>2. y.deriv = Derivations[i] /\ y.partial = psbt[i].partial
    BY <1>1 DEF InputRecords
<1>3. psbt[i].deriv = Filtered(round.filter, y)
    BY DEF RoundsInv, FilterHolds
<1> HIDE DEF y
<1>4. WithoutSigned(y.deriv, y) = d
    BY <1>2 DEF WithoutSigned
<1>5. psbt[i].deriv = WithoutSame(d)
    BY <1>3, <1>4 DEF Filtered, Documented
<1>6. \A l \in d : l \in Open(round.by, i) <=> Fg[l] = round.by
    BY InputsType DEF Open, Own, KeysOf
<1>7. Open(round.by, i) \subseteq d /\ Fg[k] = round.by
    BY DEF Open, Own, KeysOf
<1> HIDE DEF d
<1> QED
    BY <1>5, <1>6, <1>7 DEF WithoutSame, Weaker, Last

\* A round through both filters signs each input with a last open key, if one is open.
LEMMA RoundSigns ==
    ASSUME IInv, RoundsInv, SignPsbt, round.filter = Documented, ~failed
    PROVE  \A i \in Inputs :
              \E S : /\ psbt'[i].partial = psbt[i].partial \union S
                     /\ \A k \in S : Last(k, Open(round.by, i))
                     /\ Open(round.by, i) # {} => S # {}
<1> DEFINE s == round.by
<1>1. PICK a \in Answers(s, psbt) : \A i \in Inputs :
              /\ psbt'[i].deriv = psbt[i].deriv \union round.ignored[i]
              /\ psbt'[i].partial = psbt[i].partial \union (a[i] \ Origins[i])
    BY SignPsbtEffect
<1>2. s \in Signers /\ round.pc = "device"
    BY DEF SignPsbt, IInv, TypeOK
<1> SUFFICES ASSUME NEW i \in Inputs
             PROVE  \E S : /\ psbt'[i].partial = psbt[i].partial \union S
                           /\ \A k \in S : Last(k, Open(s, i))
                           /\ Open(s, i) # {} => S # {}
    OBVIOUS
<1> DEFINE S == a[i] \ Origins[i]
<1>3. psbt[i].deriv \subseteq Derivations[i] /\ Derivations[i] \subseteq Keys
    BY InputsType DEF RoundsInv, Native
<1>4. a[i] \subseteq Matching(s, psbt, i)
    BY AnswersMatch
<1>5. ASSUME NEW k \in S PROVE Last(k, Open(s, i))
  <2>1. k \in psbt[i].deriv /\ Fg[k] = s
    BY <1>4 DEF Matching
  <2>2. k \in KeysOf(s)
    BY <1>3, <2>1 DEF KeysOf
  <2> QED
    BY <1>2, <2>1, <2>2, Shown
<1>6. ASSUME Open(s, i) # {} PROVE S # {}
  <2>1. Open(s, i) \in SUBSET Keys /\ Open(s, i) \subseteq Derivations[i]
    BY <1>3 DEF Open, Own
  <2>2. PICK k \in Open(s, i) : \A l \in Open(s, i) : ~(Path[k] < Path[l])
    BY <1>6, <2>1, LastPath
  <2>3. k \in KeysOf(s) /\ Last(k, Open(s, i))
    BY <2>2 DEF Last, Open, Own
  <2>4. k \in psbt[i].deriv
    BY <1>2, <2>3, Shown
  <2>5. k \in Matching(s, psbt, i) /\ Origins[i] = {}
    BY <1>3, <2>1, <2>3, <2>4, TaprootOrNot DEF Matching, KeysOf
  <2>6. a[i] # {}
    BY <2>5 DEF Answers, Choices
  <2> QED
    BY <2>5, <2>6
<1> QED
    BY <1>1, <1>5, <1>6

LEMMA PartialGrows ==
    ASSUME IInv, RoundsInv, Next, NEW i \in Inputs
    PROVE  psbt[i].partial \subseteq psbt'[i].partial
<1>1. psbt \in Psbts /\ Whole(psbt)
    BY DEF IInv, TypeOK
<1>2. ASSUME NEW s \in Signers, NEW f \in Filters, Begin(s, f)
      PROVE  psbt'[i].partial = psbt[i].partial
  <2>1. psbt[i] \in InputRecords
    BY <1>1 DEF Psbts
  <2> DEFINE kept == [j \in Inputs |-> Filtered(f, psbt[j])]
  <2>2. psbt'[i] = [psbt[i] EXCEPT !.deriv = kept[i]]
    BY <1>2 DEF Begin
  <2> HIDE DEF kept
  <2> QED
    BY <2>1, <2>2 DEF InputRecords
<1>3. CASE SignPsbt
    BY <1>3, SignPsbtEffect
<1>4. CASE SignPsbtFails
  <2>1. psbt' \in Leftovers(round.by, psbt) /\ round.by \in Signers
    BY <1>4 DEF SignPsbtFails, IInv, TypeOK
  <2>2. CASE psbt' # psbt
    <3>1. PICK a \in Parts(round.by, psbt) : psbt' = Merged(psbt, Returned(a))
      BY <2>1, <2>2 DEF Leftovers
    <3> QED
      BY <1>1, <2>1, <3>1, MergedNative DEF RoundsInv
  <2> QED
    BY <2>2
<1>5. ASSUME NEW c \in Copies, Receive(c) PROVE psbt[i].partial \subseteq psbt'[i].partial
  <2>1. psbt' = Merged(psbt, copy[c].psbt) /\ copy[c].psbt \in Psbts /\ Whole(copy[c].psbt)
    BY <1>5 DEF Receive, IInv, TypeOK
  <2> QED
    BY <1>1, <2>1, MergedKeeps
<1>6. (\E c \in Copies : (\E s \in Signers : Request(c, s)) \/ CopySigned(c) \/ CopyFails(c))
         => psbt' = psbt
    BY DEF Request, CopySigned, CopyFails
<1> QED
    BY <1>2, <1>3, <1>4, <1>5, <1>6 DEF Next

LEMMA EachRoundNext ==
    ASSUME IInv, IInv', RoundsInv, EachRoundSigns, Next
    PROVE  EachRoundSigns'
<1> SUFFICES ASSUME ~failed', NEW s \in Signers, NEW i \in Inputs, ~(Own(s, i) \subseteq psbt'[i].partial)
             PROVE  Cardinality(psbt'[i].partial \intersect KeysOf(s)) >= rounds'[s]
    BY DEF EachRoundSigns
<1> DEFINE before == psbt[i].partial \intersect KeysOf(s)
           after == psbt'[i].partial \intersect KeysOf(s)
<1>1. before \subseteq after /\ ~(Own(s, i) \subseteq psbt[i].partial)
    BY PartialGrows
<1>2. before \in SUBSET Keys /\ after \in SUBSET Keys
    BY DEF KeysOf
<1>3. /\ IsFiniteSet(before) /\ IsFiniteSet(after)
      /\ Cardinality(before) \in Nat /\ Cardinality(after) \in Nat
      /\ Cardinality(before) <= Cardinality(after)
      /\ before # after => Cardinality(before) # Cardinality(after)
    BY <1>1, <1>2, KeysFinite, FS_Subset, FS_CardinalityType
<1>4. rounds \in [Signers -> Nat]
    BY DEF IInv, TypeOK
<1>5. ~failed
    BY DEF Next, Begin, SignPsbt, SignPsbtFails, Request, CopySigned, CopyFails, Receive
<1>6. Cardinality(before) >= rounds[s]
    BY <1>1, <1>5 DEF EachRoundSigns
<1>7. CASE rounds'[s] = rounds[s]
  <2> HIDE DEF before, after
  <2>1. rounds[s] \in Nat
    BY <1>4
  <2>2. Cardinality(after) >= rounds'[s]
    BY <1>3, <1>6, <1>7, <2>1
  <2> QED
    BY <2>2 DEF after
<1>8. CASE rounds'[s] # rounds[s]
  <2>1. SignPsbt /\ round.filter = Documented /\ round.by = s /\ rounds'[s] = rounds[s] + 1
    <3>1. SignPsbt
      BY <1>8 DEF Next, Begin, SignPsbtFails, Request, CopySigned, CopyFails, Receive
    <3>2. rounds' = [rounds EXCEPT ![round.by] = IF round.filter = Documented THEN @ + 1 ELSE @]
      BY <3>1 DEF SignPsbt
    <3> QED
      BY <1>4, <1>8, <3>1, <3>2
  <2>2. Open(s, i) # {}
    BY <1>1 DEF Open
  <2>3. PICK S : /\ psbt'[i].partial = psbt[i].partial \union S
                 /\ \A k \in S : Last(k, Open(s, i))
                 /\ S # {}
    BY <1>5, <2>1, <2>2, RoundSigns
  <2>4. PICK k \in S : k \in Open(s, i)
    BY <2>3 DEF Last
  <2>5. k \in after /\ k \notin before
    BY <2>3, <2>4 DEF Open, Own
  <2>6. before # after /\ rounds[s] \in Nat
    BY <1>4, <2>5
  <2> HIDE DEF before, after
  <2>7. Cardinality(after) >= rounds'[s]
    BY <1>3, <1>6, <2>1, <2>6
  <2> QED
    BY <2>7 DEF after
<1> QED
    BY <1>7, <1>8

\* Where the inputs are signed alike, a spending path is open in one if it is in another.
LEMMA OpenAlike ==
    ASSUME OneDescriptor, RoundsInv, NEW s \in Signers, Alike(psbt, s),
           NEW i \in Inputs, NEW j \in Inputs, Derivations[i] # {}, Derivations[j] # {},
           NEW k \in Open(s, i), NEW m \in Own(s, j), Spending[m] = Spending[k]
    PROVE  m \in Open(s, j)
<1> SUFFICES ASSUME m \in psbt[j].partial PROVE FALSE
    BY DEF Open
<1>1. Spending[m] \in Signed(psbt, s, j)
    BY DEF Signed, Own
<1>2. Spending[m] \in Signed(psbt, s, i)
    BY <1>1 DEF Alike
<1>3. PICK l \in psbt[i].partial \intersect KeysOf(s) : Spending[l] = Spending[k]
    BY <1>2 DEF Signed
<1>4. l \in Own(s, i) /\ k \in Own(s, i) /\ l # k
    BY <1>3 DEF RoundsInv, Native, Own, Open
<1> QED
    BY <1>3, <1>4 DEF OneDescriptor

LEMMA SignsAlike ==
    ASSUME OneDescriptor, IInv, RoundsInv, SignPsbt, round.filter = Documented, ~failed,
           Alike(psbt, round.by)
    PROVE  Alike(psbt', round.by)
<1> DEFINE s == round.by
<1>1. s \in Signers
    BY DEF SignPsbt, IInv, TypeOK
<1>2. \A i \in Inputs :
         \E S : /\ psbt'[i].partial = psbt[i].partial \union S
                /\ \A k \in S : Last(k, Open(s, i))
                /\ Open(s, i) # {} => S # {}
    BY RoundSigns
<1> HIDE DEF s
<1>3. ASSUME NEW i \in Inputs, NEW j \in Inputs, Derivations[i] # {}, Derivations[j] # {},
             NEW k \in psbt'[i].partial \intersect KeysOf(s)
      PROVE  \E n \in psbt'[j].partial \intersect KeysOf(s) : Spending[n] = Spending[k]
  <2>1. PICK S : /\ psbt'[i].partial = psbt[i].partial \union S
                 /\ \A l \in S : Last(l, Open(s, i))
    BY <1>2
  <2>2. PICK T : /\ psbt'[j].partial = psbt[j].partial \union T
                 /\ \A l \in T : Last(l, Open(s, j))
                 /\ Open(s, j) # {} => T # {}
    BY <1>2
  <2>3. CASE k \in psbt[i].partial
    <3>1. Spending[k] \in Signed(psbt, s, j)
      BY <1>3, <2>3 DEF Signed, Alike, s
    <3> QED
      BY <2>2, <3>1 DEF Signed
  <2>4. CASE k \in S
    <3>1. k \in Open(s, i) /\ k \in Own(s, i) /\ \A l \in Open(s, i) : ~(Path[k] < Path[l])
      BY <2>1, <2>4 DEF Last, Open
    <3>2. PICK m \in Own(s, j) : Spending[m] = Spending[k]
      BY <1>1, <1>3, <3>1 DEF OneDescriptor
    <3>3. m \in Open(s, j)
      BY <1>1, <1>3, <3>1, <3>2, OpenAlike DEF s
    <3>4. PICK n \in T : Last(n, Open(s, j))
      BY <2>2, <3>3
    <3>5. n \in Open(s, j) /\ n \in Own(s, j) /\ ~(Path[n] < Path[m])
      BY <3>3, <3>4 DEF Last, Open
    <3>6. n = m
      <4> SUFFICES ASSUME n # m PROVE FALSE
        OBVIOUS
      <4>1. Path[n] # Path[m]
        BY <1>1, <3>2, <3>5 DEF OneDescriptor
      <4>2. Path[m] < Path[n]
        <5>1. n \in Keys /\ m \in Keys
          BY <3>2, <3>5 DEF Own, KeysOf
        <5>2. Path[n] \in Int /\ Path[m] \in Int
          BY <5>1, PathsType
        <5> QED
          BY <3>5, <4>1, <5>2
      <4>3. PICK l \in Own(s, i) : Spending[l] = Spending[n]
        BY <1>1, <1>3, <3>5 DEF OneDescriptor
      <4>4. l \in Open(s, i)
        BY <1>1, <1>3, <3>5, <4>3, OpenAlike DEF s
      <4>5. Path[k] < Path[l]
        BY <1>1, <1>3, <3>1, <3>2, <3>5, <4>2, <4>3 DEF OneDescriptor
      <4> QED
        BY <3>1, <4>4, <4>5
    <3> QED
      BY <2>2, <3>2, <3>4, <3>5, <3>6 DEF Own
  <2> QED
    BY <2>1, <2>3, <2>4
<1>4. Alike(psbt', s)
  <2> SUFFICES ASSUME NEW i \in Inputs, NEW j \in Inputs, Derivations[i] # {}, Derivations[j] # {}
               PROVE  Signed(psbt', s, i) \subseteq Signed(psbt', s, j)
    BY DEF Alike
  <2> QED
    BY <1>3 DEF Signed
<1> QED
    BY <1>4 DEF s

\* Until a call fails, n rounds through both filters sign every input with n keys of a
\* device, or with all it has there: for any number of inputs, keys, devices and copies.
THEOREM EachRoundProgresses == Spec => []EachRoundSigns
<1>1. Init => EachRoundSigns
  <2> SUFFICES ASSUME Init, NEW s \in Signers, NEW i \in Inputs
               PROVE  Cardinality(psbt[i].partial \intersect KeysOf(s)) >= rounds[s]
    BY DEF EachRoundSigns
  <2>1. psbt[i].partial \intersect KeysOf(s) = {} /\ rounds[s] = 0
    BY DEF Init, Unsigned, InputOf
  <2>2. Cardinality({}) = 0
    BY FS_EmptySet
  <2> QED
    BY <2>1, <2>2
<1>2. ASSUME IInv, IInv', RoundsInv, EachRoundSigns, [Next]_vars
      PROVE  RoundsInv' /\ EachRoundSigns'
  <2>1. CASE Next
    BY <1>2, <2>1, RoundsNext, EachRoundNext
  <2>2. CASE UNCHANGED vars
    BY <1>2, <2>2 DEF vars, RoundsInv, FilterHolds, Native, EachRoundSigns
  <2> QED
    BY <1>2, <2>1, <2>2
<1> QED
    BY <1>1, <1>2, RoundsInit, Invariance, PTL DEF Spec

\* If the inputs pay to one descriptor, no round through both filters makes a device sign
\* two inputs on different spending paths, until a call fails.
THEOREM RoundsStayOnOnePath ==
    ASSUME OneDescriptor
    PROVE  Spec => OneSpendingPath
<1>1. ASSUME IInv, RoundsInv, [Next]_vars PROVE RoundsInv'
  <2>1. CASE Next
    BY <1>1, <2>1, RoundsNext
  <2>2. CASE UNCHANGED vars
    BY <1>1, <2>2 DEF vars, RoundsInv, FilterHolds, Native
  <2> QED
    BY <1>1, <2>1, <2>2
<1>2. Spec => []RoundsInv
    BY <1>1, RoundsInit, Invariance, PTL DEF Spec
<1>3. ASSUME IInv, RoundsInv
      PROVE  [SignPsbt /\ round.filter = Documented /\ ~failed /\ Alike(psbt, round.by)
                => Alike(psbt', round.by)]_vars
    BY <1>3, SignsAlike
<1> QED
    BY <1>2, <1>3, Invariance, PTL DEF OneSpendingPath
=============================================================================
