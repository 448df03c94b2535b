------------------------ MODULE WalletClientsProofs ------------------------
(***************************************************************************)
(* Proofs about WalletClients and the modules it is made of, for any       *)
(* descriptors, derivations, paths and firmwares: versions compare as an   *)
(* order; a derivation means what BIP389 says; a template and its keys     *)
(* determine the descriptor; and with that what the clients tell about     *)
(* the wallets on a device.                                                *)
(***************************************************************************)
EXTENDS WalletClients, SequenceTheorems, FiniteSetTheorems, TLAPS

\* Folding of the keys, of the replacement of "**", and of the steps that are read.
Keys == INSTANCE FoldingProofs WITH Op <- AddKey, Base <- <<>>
Replacing == INSTANCE FoldingProofs WITH Op <- Replace, Base <- <<>>
Reading == INSTANCE FoldingProofs WITH Op <- Accept, Base <- NothingRead

-----------------------------------------------------------------------------
(* Versions                                                                *)

\* A captured version whose numbers fit is a version, and no other is.
LEMMA ParsedType ==
    ASSUME NEW c \in Captures
    PROVE  ParseVersion(c) \in Version \union {NoVersion}
BY U32MaxAssumption DEF ParseVersion, Captures, Version, Absent

\* partial_cmp is the same seen from both sides (lib.rs, PartialOrd for Version).
THEOREM CompareDual ==
    ASSUME NEW v \in Version, NEW w \in Version
    PROVE  /\ PartialCmp(v, w) = "Less" <=> PartialCmp(w, v) = "Greater"
           /\ PartialCmp(v, w) = "Equal" <=> v = w /\ ~v.pre
           /\ PartialCmp(v, w) = "None" <=> PartialCmp(w, v) = "None"
<1>1. v = w <=> v.major = w.major /\ v.minor = w.minor /\ v.patch = w.patch /\ v.pre = w.pre
    BY DEF Version
<1>2. /\ v.major \in Nat /\ v.minor \in Nat /\ v.patch \in Nat /\ v.pre \in BOOLEAN
      /\ w.major \in Nat /\ w.minor \in Nat /\ w.patch \in Nat /\ w.pre \in BOOLEAN
    BY DEF Version
<1> QED
    BY <1>1, <1>2 DEF PartialCmp, Compare

\* What is below what is below is below, prereleases included.
THEOREM BelowTransitive ==
    ASSUME NEW u \in Version, NEW v \in Version, NEW w \in Version, Below(u, v), Below(v, w)
    PROVE  Below(u, w)
<1>1. /\ u.major \in Nat /\ u.minor \in Nat /\ u.patch \in Nat /\ u.pre \in BOOLEAN
      /\ v.major \in Nat /\ v.minor \in Nat /\ v.patch \in Nat /\ v.pre \in BOOLEAN
      /\ w.major \in Nat /\ w.minor \in Nat /\ w.patch \in Nat /\ w.pre \in BOOLEAN
    BY DEF Version
<1> QED
    BY <1>1 DEF Below, PartialCmp, Compare

\* The Ledger check is the floor 2.1.0 in this order (ledger_version_supported).
THEOREM LedgerFloor ==
    ASSUME NEW v \in Version
    PROVE  LedgerVersionSupported(v) <=> AtLeast(v, Release(2, 1, 0))
<1>1. v.major \in Nat /\ v.minor \in Nat /\ v.patch \in Nat /\ v.pre \in BOOLEAN
    BY DEF Version
<1> QED
    BY <1>1 DEF LedgerVersionSupported, AtLeast, Release, PartialCmp, Compare

\* A release by its numbers later than one that reaches a floor reaches it.
LEMMA FloorKept ==
    ASSUME NEW v \in Version, NEW w \in Version, NEW m \in Version,
           Later(v, w), AtLeast(v, m)
    PROVE  AtLeast(w, m)
<1>1. /\ m.major \in Nat /\ m.minor \in Nat /\ m.patch \in Nat /\ m.pre \in BOOLEAN
      /\ v.major \in Nat /\ v.minor \in Nat /\ v.patch \in Nat /\ v.pre \in BOOLEAN
      /\ w.major \in Nat /\ w.minor \in Nat /\ w.patch \in Nat /\ w.pre \in BOOLEAN
    BY DEF Version
<1> QED
    BY <1>1 DEF Later, AtLeast, PartialCmp, Compare

\* No upgrade makes a device incompatible with tapminiscript, or a Ledger unsupported,
\* and a compatible Ledger is supported (is_compatible_with_tapminiscript).
THEOREM UpgradeKeeps ==
    ASSUME NEW k \in Kinds, NEW v \in Version, NEW w \in Version, Later(v, w)
    PROVE  /\ LedgerVersionSupported(v) => LedgerVersionSupported(w)
           /\ IsCompatible(k, v) => IsCompatible(k, w)
           /\ IsCompatible("Ledger", v) => LedgerVersionSupported(v)
<1>1. Release(2, 1, 0) \in Version /\ Release(2, 2, 0) \in Version
    BY DEF Release, Version
<1>2. LedgerVersionSupported(v) => LedgerVersionSupported(w)
    BY <1>1, LedgerFloor, FloorKept
<1>3. MinimalVersion(k) \in Version \union {NoVersion}
    BY DEF MinimalVersion, Release, Version, Kinds
<1>4. w # NoVersion
    BY DEF Version, NoVersion, Absent
<1>5. IsCompatible(k, v) => IsCompatible(k, w)
    BY <1>3, <1>4, FloorKept DEF IsCompatible
<1>6. IsCompatible("Ledger", v) => AtLeast(v, Release(2, 2, 0))
  <2>1. MinimalVersion("Ledger") = Release(2, 2, 0) /\ Release(2, 2, 0) # NoVersion
    BY DEF MinimalVersion, Release, NoVersion, Absent
  <2> QED
    BY <2>1 DEF IsCompatible
<1>7. AtLeast(v, Release(2, 2, 0)) => LedgerVersionSupported(v)
  <2>1. v.major \in Nat /\ v.minor \in Nat /\ v.patch \in Nat /\ v.pre \in BOOLEAN
    BY DEF Version
  <2> QED
    BY <2>1 DEF LedgerVersionSupported, AtLeast, Release, PartialCmp, Compare
<1> QED
    BY <1>2, <1>5, <1>6, <1>7

-----------------------------------------------------------------------------
(* Types                                                                   *)

\* The inductive invariant: only a Ledger's client has an hmac, and a Ledger forgets
\* no wallet.
IInv ==
    /\ TypeOK
    /\ options \in {NoWallet} \union [name : Names, policy : Wallets, hmac : BOOLEAN]
    /\ options.hmac => kind = "Ledger"

LEMMA Owned ==
    ASSUME NEW name \in Names, NEW policy \in Wallets
    PROVE  Entry(name, policy) \in Entries
BY DEF Entry, Entries

LEMMA EnrolledType ==
    ASSUME IInv, NEW name \in Names, NEW policy \in Wallets
    PROVE  /\ Enrolled(name, policy) \subseteq Entries
           /\ kind = "Ledger" => device \subseteq Enrolled(name, policy)
BY Owned DEF Enrolled, IInv, TypeOK

\* A step that leaves the device and its client as they are.
LEMMA Idling ==
    ASSUME IInv, UNCHANGED <<kind, firmware, device, waiting, options>>
    PROVE  IInv'
BY DEF IInv, TypeOK

LEMMA InitInv == Init => IInv
<1> SUFFICES ASSUME Init PROVE IInv
  OBVIOUS
<1>1. Cardinality({}) = 0
  BY FS_EmptySet
<1> QED
  BY <1>1 DEF Init, IInv, TypeOK, NoWallet

LEMMA NextInv == IInv /\ [Next]_vars => IInv'
<1> SUFFICES ASSUME IInv, [Next]_vars PROVE IInv'
  OBVIOUS
<1>1. Cardinality({}) = 0 /\ \A w : Cardinality({w}) = 1
  BY FS_EmptySet, FS_Singleton
<1>2. ASSUME NEW name \in Names, NEW policy \in Wallets,
             Register(name, policy) \/ RegisterBitBox02(name, policy)
      PROVE  IInv'
  <2>1. /\ device' \in {device, Enrolled(name, policy)}
        /\ UNCHANGED <<kind, firmware, waiting, options>>
    BY <1>2 DEF Register, RegisterBitBox02
  <2>2. device' \subseteq Entries /\ (kind = "Ledger" => device \subseteq device')
    BY <2>1, EnrolledType DEF IInv, TypeOK
  <2> QED
    BY <2>1, <2>2 DEF IInv, TypeOK
<1>3. ASSUME NEW name \in Names, NEW policy \in Wallets, RegisterColdcard(name, policy)
      PROVE  IInv'
  <2>1. /\ kind = "Coldcard" /\ waiting' = {Entry(name, policy)}
        /\ UNCHANGED <<kind, firmware, device, options>>
    BY <1>3 DEF RegisterColdcard
  <2>2. Cardinality(waiting') <= 1 /\ waiting' \subseteq Entries
    BY <1>1, <2>1, Owned
  <2> QED
    BY <2>1, <2>2 DEF IInv, TypeOK
<1>4. ASSUME NEW name \in Names, NEW policy \in Wallets, WithWallet(name, policy)
      PROVE  IInv'
  BY <1>4 DEF WithWallet, IInv, TypeOK
<1>5. CASE Decide
  <2>1. PICK w \in waiting : device' \in {device, Enrolled(w.name, w.policy)}
    BY <1>5 DEF Decide
  <2>2. waiting' = {} /\ UNCHANGED <<kind, firmware, options>>
    BY <1>5 DEF Decide
  <2>3. w.name \in Names /\ w.policy \in Wallets /\ kind = "Coldcard"
    BY DEF IInv, TypeOK, Entries
  <2>4. device' \subseteq Entries
    BY <2>1, <2>3, EnrolledType DEF IInv, TypeOK
  <2> QED
    BY <1>1, <2>2, <2>3, <2>4 DEF IInv, TypeOK
<1>6. ASSUME NEW other \in Firmwares[kind], Flash(other) PROVE IInv'
  BY <1>6 DEF Flash, IInv, TypeOK
<1>7. CASE UNCHANGED vars
  BY <1>7, Idling DEF vars
<1>8. ASSUME NEW name \in Names, NEW policy \in Wallets,
             RegisterRefused(name, policy) \/ IsWalletRegistered(name, policy)
      PROVE  IInv'
  BY <1>8, Idling DEF RegisterRefused, IsWalletRegistered
<1>9. ASSUME NEW path, DisplayP2tr(path) PROVE IInv'
  BY <1>9, Idling DEF DisplayP2tr
<1>10. ASSUME NEW change, NEW index, DisplayMiniscript(change, index) PROVE IInv'
  BY <1>10, Idling DEF DisplayMiniscript
<1>11. ASSUME NEW steps, ParseDerivation(steps) PROVE IInv'
  BY <1>11, Idling DEF ParseDerivation
<1> QED
  BY <1>2, <1>3, <1>4, <1>5, <1>6, <1>7, <1>8, <1>9, <1>10, <1>11 DEF Next

LEMMA Invariance == Spec => []IInv
BY InitInv, NextInv, PTL DEF Spec

\* The variables have their types: what a device keeps was enrolled, at most one wallet
\* waits, on a Coldcard, and a client with an hmac has one the device gave out.
THEOREM TypeCorrect == Spec => []TypeOK
<1>1. IInv => TypeOK
  BY DEF IInv
<1> QED
  BY <1>1, Invariance, PTL

-----------------------------------------------------------------------------
(* What the clients answer                                                 *)

\* The first of a set of positions.
LEMMA MinIs ==
    ASSUME NEW t, t \subseteq Nat, t # {}
    PROVE  Min(t) \in t /\ \A y \in t : Min(t) <= y
<1>1. \E x \in t : \A y \in t : x <= y
  BY Keys!Least
<1> QED
  BY <1>1 DEF Min

LEMMA VersionFound ==
    ASSUME NEW lines \in Seq(Captures)
    PROVE  GetVersion(lines) \in Version \union {NoVersion}
<1> DEFINE versions == {i \in DOMAIN lines : ParseVersion(lines[i]) # NoVersion}
<1>1. CASE versions = {}
  BY <1>1 DEF GetVersion
<1>2. CASE versions # {}
  <2>1. versions \subseteq DOMAIN lines /\ DOMAIN lines = 1..Len(lines) /\ Len(lines) \in Nat
    BY LenProperties
  <2>2. versions \subseteq Nat
    BY <2>1
  <2>3. Min(versions) \in versions
    BY <1>2, <2>2, MinIs
  <2>4. lines[Min(versions)] \in Captures
    BY <2>1, <2>3, ElementOfSeq
  <2>5. GetVersion(lines) = ParseVersion(lines[Min(versions)])
    BY <1>2 DEF GetVersion
  <2> QED
    BY <2>4, <2>5, ParsedType
<1> QED
  BY <1>1, <1>2

\* No upgrade of the firmware makes a Ledger unsupported or a device incompatible with
\* tapminiscript, and a Ledger that is compatible is listed: for any firmwares.
THEOREM UpgradeIsSafe == Spec => UpgradeKeepsSupport
<1> DEFINE v == GetVersion(firmware)
           w == GetVersion(firmware')
           Kept == v # NoVersion /\ w # NoVersion /\ Later(v, w) =>
                     /\ Supported(firmware).listed => Supported(firmware').listed
                     /\ Supported(firmware).tapminiscript =>
                            Supported(firmware').tapminiscript /\ Supported(firmware').listed
<1>1. IInv /\ [Next]_vars => [Kept]_vars
  <2> SUFFICES ASSUME IInv, [Next]_vars, ~UNCHANGED vars,
                      v # NoVersion, w # NoVersion, Later(v, w)
               PROVE  /\ Supported(firmware).listed => Supported(firmware').listed
                      /\ Supported(firmware).tapminiscript =>
                             Supported(firmware').tapminiscript /\ Supported(firmware').listed
    OBVIOUS
  <2>1. firmware \in Firmwares[kind] /\ kind \in Devices
    BY DEF IInv, TypeOK
  <2>2. firmware' \in Firmwares[kind]
    BY <2>1 DEF Next, Register, RegisterBitBox02, RegisterColdcard, RegisterRefused,
           IsWalletRegistered, WithWallet, Decide, DisplayP2tr, DisplayMiniscript,
           ParseDerivation, Flash
  <2>3. firmware \in Seq(Captures) /\ firmware' \in Seq(Captures)
    BY <2>1, <2>2, WalletClientsAssumption
  <2>4. v \in Version /\ w \in Version
    BY <2>3, VersionFound
  <2>5. kind \in Kinds
    BY <2>1, WalletClientsAssumption DEF Kinds
  <2> HIDE DEF v, w
  <2>6. /\ LedgerVersionSupported(v) => LedgerVersionSupported(w)
        /\ IsCompatible(kind, v) => IsCompatible(kind, w)
        /\ IsCompatible("Ledger", v) => LedgerVersionSupported(v)
    BY <2>4, <2>5, UpgradeKeeps
  <2>7. /\ Supported(firmware).listed = (kind = "Ledger" => LedgerVersionSupported(v))
        /\ Supported(firmware).tapminiscript = IsCompatible(kind, v)
        /\ Supported(firmware').listed = (kind = "Ledger" => LedgerVersionSupported(w))
        /\ Supported(firmware').tapminiscript = IsCompatible(kind, w)
    BY DEF Supported, v, w
  <2> QED
    BY <2>6, <2>7
<1> QED
  BY <1>1, Invariance, PTL DEF Spec, UpgradeKeepsSupport

\* A step that is not a question about a wallet is another call, or none.
LEMMA OtherCalls ==
    ASSUME [Next]_vars
    PROVE  \/ UNCHANGED vars
           \/ answer'.call \in {"none", "register_wallet"}
           \/ \E name \in Names, policy \in Wallets : IsWalletRegistered(name, policy)
           \/ \E path \in Paths : DisplayP2tr(path)
           \/ \E change \in BOOLEAN, index \in Indexed : DisplayMiniscript(change, index)
           \/ \E steps \in Derivations : ParseDerivation(steps)
<1>1. Silence.call = "none" /\ Registered.call = "register_wallet"
      /\ NotRegistered.call = "register_wallet"
  BY DEF Silence, Registered, NotRegistered
<1> QED
  BY <1>1 DEF Next, Register, RegisterBitBox02, RegisterColdcard, RegisterRefused,
         WithWallet, Decide, Flash

LEMMA LedgerShowsAsked ==
    ASSUME NEW path \in Seq(Children)
    PROVE  LedgerShows(path) \in {<<>>, path}
<1>1. CASE ~(IsBip86(path) /\ path[4] \in {Normal(0), Normal(1)})
  BY <1>1 DEF LedgerShows
<1>2. CASE IsBip86(path) /\ path[4] \in {Normal(0), Normal(1)}
  <2> DEFINE last == Normal(IF path[4] = Normal(1) THEN 1 ELSE 0)
             start == SubSeq(path, 1, 3)
             end == <<last, path[5]>>
             shown == start \o end
  <2>1. LedgerShows(path) = shown
    BY <1>2 DEF LedgerShows
  <2>2. Len(path) = 5 /\ \A i \in 1..5 : path[i] \in Children
    BY <1>2, ElementOfSeq DEF IsBip86
  <2>3. last = path[4]
    BY <1>2 DEF Normal, Child
  <2>4. start \in Seq(Children) /\ Len(start) = 3 /\ \A i \in 1..3 : start[i] = path[i]
    BY <2>2, SubSeqProperties
  <2> HIDE DEF last, start
  <2>5. end \in Seq(Children) /\ Len(end) = 2 /\ end[1] = path[4] /\ end[2] = path[5]
    BY <2>2, <2>3
  <2> HIDE DEF end
  <2>6. /\ shown \in Seq(Children) /\ Len(shown) = Len(start) + Len(end)
        /\ \A i \in 1..(Len(start) + Len(end)) :
              shown[i] = IF i <= Len(start) THEN start[i] ELSE end[i - Len(start)]
    BY <2>4, <2>5, ConcatProperties
  <2> HIDE DEF shown
  <2>7. Len(shown) = 5 /\ \A i \in 1..5 : shown[i] = path[i]
    <3>1. end[4 - 3] = path[4] /\ end[5 - 3] = path[5]
      BY <2>5
    <3>2. \A i \in 1..5 : i \in 1..3 \/ i = 4 \/ i = 5
      OBVIOUS
    <3> QED
      BY <2>4, <2>5, <2>6, <3>1, <3>2
  <2>8. shown = path
    BY <2>2, <2>6, <2>7, SeqEqual
  <2> QED
    BY <2>1, <2>8
<1> QED
  BY <1>1, <1>2

\* A P2TR address that is displayed is the one of the path that was asked for, whatever
\* the path and the device.
THEOREM DisplayIsAsked == Spec => []DisplayedAsAsked
<1>1. Init => DisplayedAsAsked
  BY DEF Init, Silence, DisplayedAsAsked
<1>2. DisplayedAsAsked /\ [Next]_vars => DisplayedAsAsked'
  <2> SUFFICES ASSUME DisplayedAsAsked, [Next]_vars PROVE DisplayedAsAsked'
    OBVIOUS
  <2>1. CASE UNCHANGED vars
    BY <2>1 DEF vars, DisplayedAsAsked
  <2>2. ASSUME NEW path \in Paths, DisplayP2tr(path) PROVE DisplayedAsAsked'
    <3>1. path \in Seq(Children)
      BY WalletClientsAssumption
    <3>2. LedgerShows(path) \in {<<>>, path}
      BY <3>1, LedgerShowsAsked
    <3>3. answer'.asked = path /\ answer'.shown \in {<<>>, path}
      BY <2>2, <3>2 DEF DisplayP2tr
    <3> QED
      BY <3>3 DEF DisplayedAsAsked
  <2>3. CASE answer'.call # "display_p2tr"
    BY <2>3 DEF DisplayedAsAsked
  <2> QED
    BY <2>1, <2>2, <2>3, OtherCalls DEF IsWalletRegistered, DisplayMiniscript, ParseDerivation
<1> QED
  BY <1>1, <1>2, PTL DEF Spec

-----------------------------------------------------------------------------
(* What is enrolled is recognised                                          *)

\* WithH leaves all but the marks of the keys.
LEMMA WithHType ==
    ASSUME NEW pieces \in Seq(Pieces)
    PROVE  /\ WithH(pieces) \in Seq(Pieces) /\ Len(WithH(pieces)) = Len(pieces)
<1> DEFINE w(i) == IF pieces[i].is = "key" /\ pieces[i].expression.origin.mark = "'"
                   THEN [pieces[i] EXCEPT !.expression.origin.mark = "h"] ELSE pieces[i]
<1>1. Len(pieces) \in Nat /\ DOMAIN pieces = 1..Len(pieces)
  BY LenProperties
<1>2. ASSUME NEW i \in 1..Len(pieces) PROVE w(i) \in Pieces
  <2>1. pieces[i] \in Pieces
    BY ElementOfSeq
  <2> QED
    BY <2>1 DEF Pieces, Expressions
<1> HIDE DEF w
<1>3. [i \in 1..Len(pieces) |-> w(i)] \in Seq(Pieces)
  BY <1>1, <1>2
<1>4. WithH(pieces) = [i \in 1..Len(pieces) |-> w(i)]
  BY <1>1 DEF WithH, w
<1> QED
  BY <1>1, <1>3, <1>4

LEMMA Whole ==
    ASSUME NEW S, NEW s \in Seq(S)
    PROVE  s \in SubSeqs(s)
<1>1. SubSeq(s, 0 + 1, Len(s)) = s /\ Len(s) \in Nat
  BY SubSeqFull, LenProperties
<1>2. 0 \in 0..Len(s) /\ Len(s) \in 0..Len(s)
  BY <1>1
<1> QED
  BY <1>1, <1>2 DEF SubSeqs

\* Two descriptors that differ at most in their checksum.
LEMMA MarkedIs ==
    ASSUME NEW p \in Descriptors, NEW q \in Descriptors, Marked(p) = Marked(q)
    PROVE  p.pieces = q.pieces
BY DEF Marked, Descriptors

LEMMA SameConversions ==
    ASSUME NEW p, NEW q, p.pieces = q.pieces
    PROVE  /\ ExtractKeysAndTemplate(p) = ExtractKeysAndTemplate(q)
           /\ Structured(p) = Structured(q)
<1>1. ExtractKeysAndTemplate(p) = ExtractKeysAndTemplate(q)
  BY DEF ExtractKeysAndTemplate
<1> QED
  BY <1>1 DEF Structured

LEMMA SearchFinds ==
    ASSUME NEW p \in Descriptors, NEW q \in Descriptors, p.pieces = q.pieces, Fit(q)
    PROVE  Searched(q) \in SubSeqs(WithH(p.pieces))
<1>1. p.pieces \in Seq(Pieces) /\ q.pieces \in Seq(Pieces)
  BY DEF Descriptors
<1>2. Searched(q) = WithH(p.pieces)
  BY DEF Searched, Fit
<1> QED
  BY <1>1, <1>2, WithHType, Whole

\* is_wallet_registered recognises the wallets of the device, for any wallets, on a
\* Coldcard if each has a checksum or writes its hardened steps with h: one that has
\* neither is what the run ColdcardRegistered finds.
THEOREM EnrolledRecognised ==
    ASSUME "Coldcard" \in Devices => \A policy \in Wallets : Fit(policy)
    PROVE  Spec => []EnrolledIsRecognised
<1>1. Init => EnrolledIsRecognised
  BY DEF Init, Silence, EnrolledIsRecognised
<1>2. IInv /\ EnrolledIsRecognised /\ [Next]_vars => EnrolledIsRecognised'
  <2> SUFFICES ASSUME IInv, EnrolledIsRecognised, [Next]_vars PROVE EnrolledIsRecognised'
    OBVIOUS
  <2>1. CASE UNCHANGED vars
    BY <2>1 DEF vars, EnrolledIsRecognised
  <2>2. ASSUME NEW name \in Names, NEW policy \in Wallets, IsWalletRegistered(name, policy)
        PROVE  EnrolledIsRecognised'
    <3>1. /\ answer'.name = name /\ answer'.policy = policy
          /\ answer'.result = Recognised(name, policy)
          /\ kind' = kind /\ device' = device /\ options' = options
      BY <2>2 DEF IsWalletRegistered
    <3> DEFINE w(e) == /\ e \in device
                       /\ kind = "Ledger" => options.hmac /\ e = Entry(options.name, options.policy)
                       /\ e.name = name /\ Marked(e.policy) = Marked(policy)
    <3>2. ASSUME NEW e, w(e) PROVE Recognised(name, policy)
      <4>1. e \in Entries /\ policy \in Descriptors /\ e.policy \in Descriptors
        BY <3>2, WalletClientsAssumption DEF IInv, TypeOK, Entries
      <4>2. e.policy.pieces = policy.pieces
        BY <3>2, <4>1, MarkedIs
      <4>3. /\ ExtractKeysAndTemplate(e.policy) = ExtractKeysAndTemplate(policy)
            /\ Structured(e.policy) = Structured(policy)
        BY <4>2, SameConversions
      <4>4. kind \in Devices /\ kind \in {"Ledger", "Jade", "BitBox02", "Coldcard"}
        BY WalletClientsAssumption DEF IInv, TypeOK
      <4>5. CASE kind = "Ledger"
        <5>1. options.hmac /\ e.name = options.name /\ e.policy = options.policy
          BY <3>2, <4>5 DEF Entry
        <5>2. options # NoWallet
          BY <5>1 DEF NoWallet
        <5> QED
          BY <3>2, <4>3, <4>5, <5>1, <5>2 DEF Recognised
      <4>6. CASE kind = "Jade"
        BY <3>2, <4>3, <4>6 DEF Recognised
      <4>7. CASE kind = "BitBox02"
        BY <3>2, <4>3, <4>7 DEF Recognised
      <4>8. CASE kind = "Coldcard"
        <5>1. Fit(policy)
          BY <4>4, <4>8
        <5>2. Searched(policy) \in SubSeqs(WithH(e.policy.pieces))
          BY <4>1, <4>2, <5>1, SearchFinds
        <5> QED
          BY <3>2, <4>8, <5>2 DEF Recognised
      <4> QED
        BY <4>4, <4>5, <4>6, <4>7, <4>8
    <3> QED
      BY <3>1, <3>2 DEF EnrolledIsRecognised
  <2>3. CASE answer'.call # "is_wallet_registered"
    BY <2>3 DEF EnrolledIsRecognised
  <2> QED
    BY <2>1, <2>2, <2>3, OtherCalls DEF DisplayP2tr, DisplayMiniscript, ParseDerivation
<1> QED
  BY <1>1, <1>2, Invariance, PTL DEF Spec

-----------------------------------------------------------------------------
(* What is recognised was enrolled                                         *)

\* One piece more is one key more at most.
LEMMA KeysFold ==
    /\ KeysOf(<<>>) = <<>>
    /\ \A s \in Seq(Pieces), e \in Pieces : KeysOf(Append(s, e)) = AddKey(KeysOf(s), e)
<1>1. KeysOf(<<>>) = <<>>
  BY Keys!FoldOfNone DEF KeysOf, FoldLeft, MapThenFoldSet, Max,
     Keys!FoldLeft, Keys!MapThenFoldSet, Keys!Max
<1>2. ASSUME NEW s \in Seq(Pieces), NEW e \in Pieces
      PROVE  KeysOf(Append(s, e)) = AddKey(KeysOf(s), e)
  BY Keys!FoldOfAppend DEF KeysOf, FoldLeft, MapThenFoldSet, Max,
     Keys!FoldLeft, Keys!MapThenFoldSet, Keys!Max
<1> QED
  BY <1>1, <1>2

\* Every key of the pieces is among those that are found.
LEMMA KeysFound ==
    ASSUME NEW pieces \in Seq(Pieces)
    PROVE  /\ KeysOf(pieces) \in Seq(Expressions)
           /\ \A i \in 1..Len(pieces) :
                 pieces[i].is = "key" => \E k \in 1..Len(KeysOf(pieces)) :
                                            KeysOf(pieces)[k] = pieces[i].expression
<1> DEFINE Good(s) == /\ KeysOf(s) \in Seq(Expressions)
                      /\ \A i \in 1..Len(s) :
                            s[i].is = "key" => \E k \in 1..Len(KeysOf(s)) :
                                                  KeysOf(s)[k] = s[i].expression
           T == {s \in Seq(Pieces) : Good(s)}
<1>1. <<>> \in T
  <2>1. KeysOf(<<>>) = <<>>
    BY KeysFold
  <2>2. <<>> \in Seq(Expressions) /\ <<>> \in Seq(Pieces) /\ Len(<<>>) = 0
    BY EmptySeq
  <2>3. Good(<<>>)
    <3>1. 1..Len(<<>>) = {}
      BY <2>2
    <3>2. KeysOf(<<>>) \in Seq(Expressions)
      BY <2>1, <2>2
    <3> QED
      BY <3>1, <3>2
  <2> QED
    BY <2>2, <2>3
<1>2. ASSUME NEW s \in Seq(Pieces), Good(s), NEW e \in Pieces PROVE Good(Append(s, e))
  <2> DEFINE r == Append(s, e)
             keys == KeysOf(s)
             more == KeysOf(r)
  <2>1. r \in Seq(Pieces) /\ Len(r) = Len(s) + 1 /\ Len(s) \in Nat
        /\ r[Len(s) + 1] = e /\ \A i \in 1..Len(s) : r[i] = s[i]
    BY AppendProperties, LenProperties
  <2>2. more = AddKey(keys, e)
    BY KeysFold
  <2>3. keys \in Seq(Expressions) /\ Len(keys) \in Nat
    BY <1>2, LenProperties
  <2>4. \A i \in 1..Len(s) :
           s[i].is = "key" => \E k \in 1..Len(keys) : keys[k] = s[i].expression
    BY <1>2
  <2>5. e.is = "key" => e.expression \in Expressions
    BY DEF Pieces
  <2> HIDE DEF r, keys, more
  <2>6. more \in Seq(Expressions) /\ Len(more) \in Nat /\ Len(keys) <= Len(more)
        /\ (\A k \in 1..Len(keys) : more[k] = keys[k])
        /\ (e.is = "key" => \E k \in 1..Len(more) : more[k] = e.expression)
    <3>1. CASE e.is = "key" /\ ~Contains(keys, e.expression)
      <4>1. more = Append(keys, e.expression) /\ e.expression \in Expressions
        BY <2>2, <2>5, <3>1 DEF AddKey
      <4>2. more \in Seq(Expressions) /\ Len(more) = Len(keys) + 1
            /\ (\A k \in 1..Len(keys) : more[k] = keys[k])
            /\ more[Len(keys) + 1] = e.expression
        BY <2>3, <4>1, AppendProperties
      <4> QED
        BY <2>3, <4>2
    <3>2. CASE ~(e.is = "key" /\ ~Contains(keys, e.expression))
      <4>1. more = keys
        BY <2>2, <3>2 DEF AddKey
      <4> QED
        BY <2>3, <3>2, <4>1 DEF Contains
    <3> QED
      BY <3>1, <3>2
  <2>7. ASSUME NEW i \in 1..Len(r), r[i].is = "key"
        PROVE  \E k \in 1..Len(more) : more[k] = r[i].expression
    <3>1. CASE i \in 1..Len(s)
      <4>1. r[i] = s[i]
        BY <2>1, <3>1
      <4>2. PICK k \in 1..Len(keys) : keys[k] = r[i].expression
        BY <2>4, <2>7, <3>1, <4>1
      <4> QED
        BY <2>3, <2>6, <4>2
    <3>2. CASE i = Len(s) + 1
      BY <2>1, <2>6, <2>7, <3>2
    <3> QED
      BY <2>1, <3>1, <3>2
  <2> QED
    BY <2>6, <2>7 DEF r, more
<1>3. \A s \in Seq(Pieces) : s \in T
  <2>1. \A s \in Seq(Pieces) \cap T, e \in Pieces : Append(s, e) \in T
    BY <1>2, AppendProperties
  <2> HIDE DEF T
  <2> QED
    BY <1>1, <2>1, Keys!AllSequences
<1> QED
  BY <1>3

\* A place of the template and the key it names tell the expression that stood there.
LEMMA PlaceTells ==
    ASSUME NEW keys \in Seq(Expressions), NEW p,
           \E i \in 1..Len(keys) : keys[i] = p.expression
    PROVE  \E k \in 1..Len(keys), left \in {NoOrigin, p.expression.origin} :
              /\ PlaceOf(keys, p) = Place(k - 1, left, p.steps)
              /\ p.expression = IF left = NoOrigin THEN keys[k] ELSE Expression(left, keys[k].xpub)
<1> DEFINE t == {i \in DOMAIN keys : FoundIn(keys[i], p.expression)}
           k == Min(t)
           left == IF keys[k] = p.expression THEN NoOrigin ELSE p.expression.origin
<1> HIDE DEF left
<1>1. DOMAIN keys = 1..Len(keys) /\ Len(keys) \in Nat
  BY LenProperties
<1>2. t \subseteq Nat /\ t # {}
  BY <1>1 DEF FoundIn
<1>3. k \in t
  BY <1>2, MinIs
<1>4. k \in 1..Len(keys) /\ FoundIn(keys[k], p.expression)
  BY <1>1, <1>3
<1>5. p.expression \in Expressions /\ keys[k] \in Expressions
  BY <1>4, ElementOfSeq
<1>6. /\ PlaceOf(keys, p) = Place(k - 1, left, p.steps)
      /\ left \in {NoOrigin, p.expression.origin}
  BY DEF PlaceOf, left
<1> HIDE DEF k, t
<1>7. p.expression = IF left = NoOrigin THEN keys[k] ELSE Expression(left, keys[k].xpub)
  <2>1. CASE keys[k] = p.expression
    BY <2>1 DEF left
  <2>2. CASE keys[k] # p.expression
    <3>1. /\ keys[k].origin = NoOrigin /\ keys[k].xpub = p.expression.xpub
          /\ left = p.expression.origin
      BY <1>4, <2>2 DEF FoundIn, IsBare, left
    <3>2. /\ p.expression = [origin |-> p.expression.origin, xpub |-> p.expression.xpub]
          /\ keys[k] = [origin |-> keys[k].origin, xpub |-> keys[k].xpub]
      BY <1>5 DEF Expressions
    <3>3. left # NoOrigin
      BY <2>2, <3>1, <3>2
    <3>4. Expression(left, keys[k].xpub) = p.expression
      BY <3>1, <3>2 DEF Expression
    <3> QED
      BY <3>3, <3>4
  <2> QED
    BY <2>1, <2>2
<1> QED
  BY <1>4, <1>6, <1>7

\* What a piece shows when it is not shown how hardened steps are written.
Shown(p) == IF p.is = "key" THEN [p EXCEPT !.expression = Parsed(@)] ELSE p

LEMMA UnmarkedIs ==
    ASSUME NEW policy \in Descriptors
    PROVE  /\ policy.pieces \in Seq(Pieces)
           /\ DOMAIN policy.pieces = 1..Len(policy.pieces) /\ Len(policy.pieces) \in Nat
           /\ Unmarked(policy) = [i \in 1..Len(policy.pieces) |-> Shown(policy.pieces[i])]
<1>1. policy.pieces \in Seq(Pieces)
  BY DEF Descriptors
<1>2. DOMAIN policy.pieces = 1..Len(policy.pieces) /\ Len(policy.pieces) \in Nat
  BY <1>1, LenProperties
<1> QED
  BY <1>1, <1>2 DEF Unmarked, Shown

\* What stands at a position of the template.
LEMMA TemplateIs ==
    ASSUME NEW policy \in Descriptors
    PROVE  LET keys == KeysOf(policy.pieces)
               s == Structured(policy)
           IN /\ s.template = [i \in 1..Len(policy.pieces) |->
                                 IF policy.pieces[i].is = "key" THEN PlaceOf(keys, policy.pieces[i])
                                 ELSE policy.pieces[i]]
              /\ s.keys = [k \in 1..Len(keys) |-> Parsed(keys[k])]
<1> DEFINE keys == KeysOf(policy.pieces)
<1>1. /\ policy.pieces \in Seq(Pieces) /\ DOMAIN policy.pieces = 1..Len(policy.pieces)
  BY UnmarkedIs
<1>2. keys \in Seq(Expressions)
  BY <1>1, KeysFound
<1>3. DOMAIN keys = 1..Len(keys)
  BY <1>2, LenProperties
<1> QED
  BY <1>1, <1>3 DEF Structured, ExtractKeysAndTemplate

\* A template and its keys determine the descriptor, up to its checksum and how
\* hardened steps are written (utils.rs extract_keys_and_template).
THEOREM StructureTells ==
    ASSUME NEW p \in Descriptors, NEW q \in Descriptors, Structured(p) = Structured(q)
    PROVE  Unmarked(p) = Unmarked(q)
<1> DEFINE n == Len(p.pieces)
           m == Len(q.pieces)
           keys == KeysOf(p.pieces)
           others == KeysOf(q.pieces)
           place(i) == IF p.pieces[i].is = "key" THEN PlaceOf(keys, p.pieces[i]) ELSE p.pieces[i]
           other(i) == IF q.pieces[i].is = "key" THEN PlaceOf(others, q.pieces[i]) ELSE q.pieces[i]
<1>1. /\ p.pieces \in Seq(Pieces) /\ n \in Nat
      /\ Unmarked(p) = [i \in 1..n |-> Shown(p.pieces[i])]
  BY UnmarkedIs
<1>2. /\ q.pieces \in Seq(Pieces) /\ m \in Nat
      /\ Unmarked(q) = [i \in 1..m |-> Shown(q.pieces[i])]
  BY UnmarkedIs
<1>3. /\ keys \in Seq(Expressions)
      /\ \A i \in 1..n : p.pieces[i].is = "key" => \E k \in 1..Len(keys) :
                                                      keys[k] = p.pieces[i].expression
  BY <1>1, KeysFound
<1>4. /\ others \in Seq(Expressions)
      /\ \A i \in 1..m : q.pieces[i].is = "key" => \E k \in 1..Len(others) :
                                                      others[k] = q.pieces[i].expression
  BY <1>2, KeysFound
<1>5. [i \in 1..n |-> place(i)] = [i \in 1..m |-> other(i)]
      /\ [k \in 1..Len(keys) |-> Parsed(keys[k])] = [k \in 1..Len(others) |-> Parsed(others[k])]
  BY TemplateIs
<1> HIDE DEF n, m, keys, others, place, other
<1>6. n = m /\ \A i \in 1..n : place(i) = other(i)
  <2>1. 1..n = 1..m
    BY <1>5
  <2> QED
    BY <1>1, <1>2, <1>5, <2>1
<1>7. \A k \in 1..Len(keys) : k \in 1..Len(others) /\ Parsed(keys[k]) = Parsed(others[k])
  <2>1. 1..Len(keys) = 1..Len(others)
    BY <1>5
  <2> QED
    BY <1>5, <2>1
<1>8. ASSUME NEW i \in 1..n PROVE Shown(p.pieces[i]) = Shown(q.pieces[i])
  <2> DEFINE x == p.pieces[i]
             y == q.pieces[i]
  <2>1. x \in Pieces /\ y \in Pieces
    BY <1>1, <1>2, <1>6, ElementOfSeq DEF n, m
  <2>2. place(i) = IF x.is = "key" THEN PlaceOf(keys, x) ELSE x
    BY DEF place
  <2>3. other(i) = IF y.is = "key" THEN PlaceOf(others, y) ELSE y
    BY DEF other
  <2>4. /\ x.is = "key" => \E k \in 1..Len(keys) : keys[k] = x.expression
        /\ y.is = "key" => \E k \in 1..Len(others) : others[k] = y.expression
    BY <1>3, <1>4, <1>6
  <2>5. place(i) = other(i)
    BY <1>6
  <2> HIDE DEF x, y
  <2>6. \A keyz, z : PlaceOf(keyz, z).is = "place"
    BY DEF PlaceOf, Place
  <2>7. x.is \in {"key", "text"} /\ y.is \in {"key", "text"}
    BY <2>1 DEF Pieces
  <2>8. x.is = "key" <=> y.is = "key"
    BY <2>2, <2>3, <2>5, <2>6, <2>7
  <2>9. CASE x.is # "key"
    <3>1. x = y
      BY <2>2, <2>3, <2>5, <2>8, <2>9
    <3> QED
      BY <3>1 DEF x, y
  <2>10. CASE x.is = "key"
    <3>1. PICK k \in 1..Len(keys), left \in {NoOrigin, x.expression.origin} :
             /\ PlaceOf(keys, x) = Place(k - 1, left, x.steps)
             /\ x.expression = IF left = NoOrigin THEN keys[k] ELSE Expression(left, keys[k].xpub)
      BY <1>3, <2>4, <2>10, PlaceTells
    <3>2. PICK l \in 1..Len(others), rest \in {NoOrigin, y.expression.origin} :
             /\ PlaceOf(others, y) = Place(l - 1, rest, y.steps)
             /\ y.expression = IF rest = NoOrigin THEN others[l] ELSE Expression(rest, others[l].xpub)
      BY <1>4, <2>4, <2>8, <2>10, PlaceTells
    <3>3. Place(k - 1, left, x.steps) = Place(l - 1, rest, y.steps)
      BY <2>2, <2>3, <2>5, <2>8, <2>10, <3>1, <3>2
    <3>4. Len(keys) \in Nat /\ Len(others) \in Nat
      BY <1>3, <1>4, LenProperties
    <3>5. k - 1 = l - 1 /\ left = rest /\ x.steps = y.steps
      BY <3>3 DEF Place
    <3>6. k = l
      BY <3>4, <3>5
    <3>7. keys[k] \in Expressions /\ others[k] \in Expressions
      BY <1>3, <1>4, <3>6, ElementOfSeq
    <3>8. Parsed(keys[k]) = Parsed(others[k])
      BY <1>7
    <3>9. Parsed(x.expression) = Parsed(y.expression)
      <4>1. CASE left = NoOrigin
        BY <3>1, <3>2, <3>5, <3>6, <3>8, <4>1
      <4>2. CASE left # NoOrigin
        <5>1. keys[k].xpub = others[k].xpub
          BY <3>7, <3>8 DEF Parsed, Expressions
        <5> QED
          BY <3>1, <3>2, <3>5, <3>6, <4>2, <5>1
      <4> QED
        BY <4>1, <4>2
    <3>10. /\ x = [is |-> "key", expression |-> x.expression, steps |-> x.steps]
           /\ y = [is |-> "key", expression |-> y.expression, steps |-> y.steps]
      BY <2>1, <2>8, <2>10 DEF Pieces
    <3>11. Shown(x) = [is |-> "key", expression |-> Parsed(x.expression), steps |-> x.steps]
      BY <2>10, <3>10 DEF Shown
    <3>12. Shown(y) = [is |-> "key", expression |-> Parsed(y.expression), steps |-> y.steps]
      BY <2>8, <2>10, <3>10 DEF Shown
    <3> QED
      BY <3>5, <3>9, <3>11, <3>12 DEF x, y
  <2> QED
    BY <2>9, <2>10
<1> QED
  BY <1>1, <1>2, <1>6, <1>8

LEMMA ParsedIs ==
    ASSUME NEW e \in Expressions
    PROVE  Parsed([e EXCEPT !.origin.mark = "h"]) = Parsed(e)
BY DEF Parsed, Expressions

\* What a Coldcard writes, and what is searched for, shows the same but for the marks.
LEMMA ShownWithH ==
    ASSUME NEW pieces \in Seq(Pieces), NEW i \in 1..Len(pieces)
    PROVE  Shown(WithH(pieces)[i]) = Shown(pieces[i])
<1>1. pieces[i] \in Pieces /\ i \in DOMAIN pieces
  BY LenProperties, ElementOfSeq
<1> DEFINE p == pieces[i]
<1>2. WithH(pieces)[i] = IF p.is = "key" /\ p.expression.origin.mark = "'"
                         THEN [p EXCEPT !.expression.origin.mark = "h"] ELSE p
  BY <1>1 DEF WithH
<1>3. CASE p.is = "key" /\ p.expression.origin.mark = "'"
  <2> DEFINE e == p.expression
             f == [e EXCEPT !.origin.mark = "h"]
  <2>1. p = [is |-> "key", expression |-> e, steps |-> p.steps] /\ e \in Expressions
    BY <1>1, <1>3 DEF Pieces
  <2>2. WithH(pieces)[i] = [is |-> "key", expression |-> f, steps |-> p.steps]
    BY <1>2, <1>3, <2>1
  <2> HIDE DEF p, e
  <2>3. Parsed(f) = Parsed(e)
    BY <2>1, ParsedIs
  <2> HIDE DEF f
  <2>4. Shown(WithH(pieces)[i]) = [is |-> "key", expression |-> Parsed(f), steps |-> p.steps]
    BY <2>2 DEF Shown
  <2>5. Shown(p) = [is |-> "key", expression |-> Parsed(e), steps |-> p.steps]
    BY <2>1 DEF Shown
  <2> QED
    BY <2>3, <2>4, <2>5 DEF p
<1>4. CASE ~(p.is = "key" /\ p.expression.origin.mark = "'")
  BY <1>2, <1>4
<1> QED
  BY <1>3, <1>4

LEMMA SearchedIs ==
    ASSUME NEW policy \in Descriptors
    PROVE  /\ Searched(policy) \in Seq(Pieces) /\ Len(Searched(policy)) = Len(policy.pieces)
           /\ \A i \in 1..Len(policy.pieces) : Shown(Searched(policy)[i]) = Shown(policy.pieces[i])
<1>1. policy.pieces \in Seq(Pieces)
  BY UnmarkedIs
<1>2. /\ WithH(policy.pieces) \in Seq(Pieces) /\ Len(WithH(policy.pieces)) = Len(policy.pieces)
      /\ \A i \in 1..Len(policy.pieces) : Shown(WithH(policy.pieces)[i]) = Shown(policy.pieces[i])
  BY <1>1, WithHType, ShownWithH
<1> QED
  BY <1>1, <1>2 DEF Searched

\* A descriptor that is found in what the Coldcard keeps is a part of what was enrolled.
LEMMA FoundIsPart ==
    ASSUME NEW p \in Descriptors, NEW q \in Descriptors,
           Searched(q) \in SubSeqs(WithH(p.pieces))
    PROVE  Unmarked(q) \in SubSeqs(Unmarked(p))
<1> DEFINE n == Len(p.pieces)
           m == Len(q.pieces)
           kept == WithH(p.pieces)
           sought == Searched(q)
           U == Unmarked(p)
           V == Unmarked(q)
           S == {Shown(piece) : piece \in Pieces}
<1>1. /\ p.pieces \in Seq(Pieces) /\ n \in Nat /\ U = [i \in 1..n |-> Shown(p.pieces[i])]
  BY UnmarkedIs
<1>2. /\ q.pieces \in Seq(Pieces) /\ m \in Nat /\ V = [i \in 1..m |-> Shown(q.pieces[i])]
  BY UnmarkedIs
<1>3. /\ kept \in Seq(Pieces) /\ Len(kept) = n
      /\ \A i \in 1..n : Shown(kept[i]) = Shown(p.pieces[i])
  BY <1>1, WithHType, ShownWithH
<1>4. /\ Len(sought) = m
      /\ \A i \in 1..m : Shown(sought[i]) = Shown(q.pieces[i])
  BY SearchedIs
<1>5. PICK a \in 0..n, b \in 0..n : sought = SubSeq(kept, a + 1, b)
  BY <1>3 DEF SubSeqs
<1>6. U \in Seq(S) /\ Len(U) = n
  <2>1. \A i \in 1..n : p.pieces[i] \in Pieces
    BY <1>1, ElementOfSeq
  <2> HIDE DEF U, n
  <2>2. \A i \in 1..n : Shown(p.pieces[i]) \in S
    BY <2>1
  <2> HIDE DEF S
  <2> QED
    BY <1>1, <2>2
<1>7. V \in Seq(S)
  <2>1. \A i \in 1..m : q.pieces[i] \in Pieces
    BY <1>2, ElementOfSeq
  <2> HIDE DEF V, m
  <2>2. \A i \in 1..m : Shown(q.pieces[i]) \in S
    BY <2>1
  <2> HIDE DEF S
  <2> QED
    BY <1>2, <2>2
<1>8. Len(V) = m
  <2> HIDE DEF m
  <2> QED
    BY <1>2
<1> HIDE DEF n, m, kept, sought, U, V, S
<1> DEFINE W == SubSeq(U, a + 1, b)
<1>9. a + 1 \in Int /\ b \in Int /\ a \in Nat /\ b \in Nat
  BY <1>1
<1>10. \A i \in (a + 1)..b : i \in 1..n
  BY <1>1, <1>9
<1>11. /\ Len(sought) = (IF a + 1 <= b THEN b - (a + 1) + 1 ELSE 0)
       /\ \A i \in 1..(b - (a + 1) + 1) : sought[i] = kept[(a + 1) + i - 1]
  <2>1. \A i \in (a + 1)..b : kept[i] \in Pieces
    BY <1>3, <1>10, ElementOfSeq
  <2> QED
    BY <1>5, <1>9, <2>1, SubSeqProperties
<1>12. /\ W \in Seq(S) /\ Len(W) = (IF a + 1 <= b THEN b - (a + 1) + 1 ELSE 0)
       /\ \A i \in 1..(b - (a + 1) + 1) : W[i] = U[(a + 1) + i - 1]
  <2>1. \A i \in (a + 1)..b : U[i] \in S
    BY <1>6, <1>10, ElementOfSeq
  <2> QED
    BY <1>9, <2>1, SubSeqProperties
<1> HIDE DEF W
<1>13. ASSUME NEW i \in 1..m PROVE V[i] = W[i]
  <2>1. i \in 1..(b - (a + 1) + 1) /\ (a + 1) + i - 1 \in 1..n
    BY <1>2, <1>4, <1>9, <1>10, <1>11
  <2>2. V[i] = Shown(sought[i]) /\ sought[i] = kept[(a + 1) + i - 1]
    BY <1>2, <1>4, <1>11, <2>1
  <2>3. W[i] = Shown(p.pieces[(a + 1) + i - 1])
    BY <1>1, <1>12, <2>1
  <2> QED
    BY <1>3, <2>1, <2>2, <2>3
<1>14. V = W
  <2>1. Len(V) = Len(W)
    BY <1>4, <1>8, <1>11, <1>12
  <2> QED
    BY <1>7, <1>8, <1>12, <1>13, <2>1, SeqEqual
<1>15. V \in SubSeqs(U)
  BY <1>5, <1>6, <1>14 DEF SubSeqs, W
<1> QED
  BY <1>15 DEF U, V

\* is_wallet_registered answers true only for what the owner accepted, for any wallets,
\* on every device: the Ledger's by the hmac it gave out, the others' by what they keep.
THEOREM RecognisedEnrolled == Spec => []RecognisedWasEnrolled
<1>1. Init => RecognisedWasEnrolled
  BY DEF Init, Silence, RecognisedWasEnrolled
<1>2. IInv /\ RecognisedWasEnrolled /\ [Next]_vars => RecognisedWasEnrolled'
  <2> SUFFICES ASSUME IInv, RecognisedWasEnrolled, [Next]_vars PROVE RecognisedWasEnrolled'
    OBVIOUS
  <2>1. CASE UNCHANGED vars
    BY <2>1 DEF vars, RecognisedWasEnrolled
  <2>2. ASSUME NEW name \in Names, NEW policy \in Wallets, IsWalletRegistered(name, policy)
        PROVE  RecognisedWasEnrolled'
    <3>1. /\ answer'.name = name /\ answer'.policy = policy
          /\ answer'.result = Recognised(name, policy)
          /\ kind' = kind /\ device' = device
      BY <2>2 DEF IsWalletRegistered
    <3> DEFINE Match(w) == /\ kind # "BitBox02" => w.name = name
                           /\ IF kind = "Coldcard"
                              THEN Unmarked(policy) \in SubSeqs(Unmarked(w.policy))
                              ELSE Unmarked(policy) = Unmarked(w.policy)
    <3>2. policy \in Descriptors /\ \A w \in device : w.policy \in Descriptors
      BY WalletClientsAssumption DEF IInv, TypeOK, Entries
    <3>3. kind \in {"Ledger", "Jade", "BitBox02", "Coldcard"}
      BY WalletClientsAssumption DEF IInv, TypeOK
    <3>4. ASSUME Recognised(name, policy) PROVE \E w \in device : Match(w)
      <4>1. CASE kind = "Ledger"
        <5>1. /\ options.hmac /\ name = options.name
              /\ Structured(policy) = Structured(options.policy)
          BY <3>4, <4>1 DEF Recognised
        <5> DEFINE w == Entry(options.name, options.policy)
        <5>2. w \in device /\ w.name = name /\ w.policy = options.policy
          BY <5>1 DEF IInv, TypeOK, Entry
        <5> HIDE DEF w
        <5>3. Unmarked(policy) = Unmarked(w.policy)
          BY <3>2, <5>1, <5>2, StructureTells
        <5> QED
          BY <4>1, <5>2, <5>3
      <4>2. CASE kind = "Jade"
        <5>1. PICK w \in device :
                 /\ w.name = name
                 /\ ExtractKeysAndTemplate(w.policy) = ExtractKeysAndTemplate(policy)
          BY <3>4, <4>2 DEF Recognised
        <5>2. Structured(w.policy) = Structured(policy)
          BY <5>1 DEF Structured
        <5>3. Unmarked(policy) = Unmarked(w.policy)
          BY <3>2, <5>2, StructureTells
        <5> QED
          BY <4>2, <5>1, <5>3
      <4>3. CASE kind = "BitBox02"
        <5>1. PICK w \in device : Structured(w.policy) = Structured(policy)
          BY <3>4, <4>3 DEF Recognised
        <5>2. Unmarked(policy) = Unmarked(w.policy)
          BY <3>2, <5>1, StructureTells
        <5> QED
          BY <4>3, <5>2
      <4>4. CASE kind = "Coldcard"
        <5>1. PICK w \in device :
                 w.name = name /\ Searched(policy) \in SubSeqs(WithH(w.policy.pieces))
          BY <3>4, <4>4 DEF Recognised
        <5>2. Unmarked(policy) \in SubSeqs(Unmarked(w.policy))
          BY <3>2, <5>1, FoundIsPart
        <5> QED
          BY <4>4, <5>1, <5>2
      <4> QED
        BY <3>3, <4>1, <4>2, <4>3, <4>4
    <3>5. answer'.result => \E w \in device : Match(w)
      BY <3>1, <3>4
    <3> QED
      BY <3>1, <3>5 DEF RecognisedWasEnrolled
  <2>3. CASE answer'.call # "is_wallet_registered"
    BY <2>3 DEF RecognisedWasEnrolled
  <2> QED
    BY <2>1, <2>2, <2>3, OtherCalls DEF DisplayP2tr, DisplayMiniscript, ParseDerivation
<1> QED
  BY <1>1, <1>2, Invariance, PTL DEF Spec

-----------------------------------------------------------------------------
(* What a derivation stands for                                            *)

\* Meaning in parts: where the lists are, how many paths there are, and each path.
ListsOf(f) == {i \in 1..Len(f) : IsList(f[i])}
CountOf(f) == IF f = <<>> THEN 0
              ELSE IF ListsOf(f) = {} THEN 1
              ELSE Len(Indexes(f[CHOOSE i \in ListsOf(f) : TRUE]))
PathOf(f, n) == [i \in 1..Len(f) |-> Indexes(f[i])[IF i \in ListsOf(f) THEN n ELSE 1]]
PathsOf(f) == [n \in 1..CountOf(f) |-> PathOf(f, n)]

\* A derivation that can be read, without the wildcard it may end with.
Plain(f) == Readable(f) /\ \A i \in 1..Len(f) : f[i] \notin Wildcards

Ended(s) == s # <<>> /\ IsWildcard(Last(s))
EndedHardened(s) == s # <<>> /\ IsHardened(Last(s))

\* The steps that are left are an index or a list, of at least one index.
LEMMA StepIs ==
    ASSUME NEW e \in StepSet, e \notin Unreadable, e \notin Wildcards,
           IsList(e) => Len(Indexes(e)) >= 2
    PROVE  /\ Indexes(e) \in Seq(Children) /\ Len(Indexes(e)) \in Nat /\ Len(Indexes(e)) >= 1
           /\ ~IsList(e) => Len(Indexes(e)) = 1
<1>1. CASE e \in Shorthands
  <2>1. Indexes(e) = <<Normal(0), Normal(1)>>
    BY <1>1 DEF Indexes
  <2>2. Normal(0) \in Children /\ Normal(1) \in Children
    BY DEF Normal, Child, Children
  <2>3. IsList(e)
    BY <1>1 DEF IsList
  <2> QED
    BY <2>1, <2>2, <2>3
<1>2. CASE e \notin Shorthands
  <2>1. /\ e \in [is : {"index", "multi"}, of : Seq(Children)]
        /\ e.is = "index" => Len(e.of) = 1
    BY <1>2 DEF StepSet, Wildcards
  <2>2. Indexes(e) = e.of
    BY <1>2 DEF Indexes
  <2>3. e.of \in Seq(Children) /\ e.is \in {"index", "multi"}
    BY <2>1
  <2>4. Len(e.of) \in Nat
    BY <2>3, LenProperties
  <2>5. IsList(e) <=> e.is = "multi"
    BY <1>2 DEF IsList
  <2>6. IsList(e) \/ Len(e.of) = 1
    BY <2>1, <2>3, <2>5
  <2>7. Len(e.of) >= 1
    <3>1. IsList(e) => Len(e.of) >= 2
      BY <2>2
    <3>2. \A m \in Nat : m >= 2 \/ m = 1 => m >= 1
      OBVIOUS
    <3> QED
      BY <2>4, <2>6, <3>1, <3>2
  <2> QED
    BY <2>2, <2>3, <2>4, <2>6, <2>7
<1> QED
  BY <1>1, <1>2

LEMMA PlainIs ==
    ASSUME NEW f \in Seq(StepSet), Plain(f)
    PROVE  /\ \A i \in 1..Len(f) :
                 /\ Indexes(f[i]) \in Seq(Children)
                 /\ Len(Indexes(f[i])) \in Nat /\ Len(Indexes(f[i])) >= 1
                 /\ IsList(f[i]) => Len(Indexes(f[i])) = CountOf(f)
           /\ CountOf(f) \in Nat
           /\ f # <<>> => CountOf(f) >= 1
<1>1. Len(f) \in Nat /\ DOMAIN f = 1..Len(f)
  BY LenProperties
<1>2. ASSUME NEW i \in 1..Len(f)
      PROVE  /\ Indexes(f[i]) \in Seq(Children)
             /\ Len(Indexes(f[i])) \in Nat /\ Len(Indexes(f[i])) >= 1
  <2>1. f[i] \in StepSet
    BY ElementOfSeq
  <2>2. f[i] \notin Unreadable /\ f[i] \notin Wildcards /\ (IsList(f[i]) => Len(Indexes(f[i])) >= 2)
    BY <1>1 DEF Plain, Readable, WellFormed, Unreadable
  <2> QED
    BY <2>1, <2>2, StepIs
<1> DEFINE c == CHOOSE i \in ListsOf(f) : TRUE
<1>3. ASSUME ListsOf(f) # {} PROVE c \in 1..Len(f) /\ IsList(f[c]) /\ f # <<>>
  <2>1. c \in ListsOf(f)
    BY <1>3
  <2>2. c \in 1..Len(f) /\ IsList(f[c])
    BY <2>1 DEF ListsOf
  <2>3. f # <<>>
    BY <1>1, <2>2, EmptySeq
  <2> QED
    BY <2>2, <2>3
<1>4. CountOf(f) = IF f = <<>> THEN 0 ELSE IF ListsOf(f) = {} THEN 1 ELSE Len(Indexes(f[c]))
  BY DEF CountOf
<1> HIDE DEF c
<1>5. ASSUME NEW i \in 1..Len(f), IsList(f[i]) PROVE Len(Indexes(f[i])) = CountOf(f)
  <2>1. i \in ListsOf(f)
    BY <1>5 DEF ListsOf
  <2>2. c \in 1..Len(f) /\ IsList(f[c]) /\ f # <<>>
    BY <1>3, <2>1
  <2>3. i = c
    BY <1>1, <1>5, <2>2 DEF Plain, Readable, WellFormed, Unreadable
  <2> QED
    BY <1>4, <2>1, <2>2, <2>3
<1>6. CountOf(f) \in Nat /\ (f # <<>> => CountOf(f) >= 1)
  BY <1>2, <1>3, <1>4
<1> QED
  BY <1>2, <1>5, <1>6

LEMMA PathsType ==
    ASSUME NEW f \in Seq(StepSet), Plain(f)
    PROVE  /\ \A n \in 1..CountOf(f) : /\ PathOf(f, n) \in Seq(Children)
                                       /\ Len(PathOf(f, n)) = Len(f)
           /\ PathsOf(f) \in Seq(Seq(Children)) /\ Len(PathsOf(f)) = CountOf(f)
<1>1. Len(f) \in Nat /\ CountOf(f) \in Nat
  BY PlainIs, LenProperties
<1>2. ASSUME NEW n \in 1..CountOf(f)
      PROVE  PathOf(f, n) \in Seq(Children) /\ Len(PathOf(f, n)) = Len(f)
  <2> DEFINE e(i) == Indexes(f[i])[IF i \in ListsOf(f) THEN n ELSE 1]
  <2>1. ASSUME NEW i \in 1..Len(f) PROVE e(i) \in Children
    <3> DEFINE k == IF i \in ListsOf(f) THEN n ELSE 1
    <3>1. Indexes(f[i]) \in Seq(Children) /\ Len(Indexes(f[i])) \in Nat
          /\ Len(Indexes(f[i])) >= 1 /\ (i \in ListsOf(f) => Len(Indexes(f[i])) = CountOf(f))
      BY PlainIs DEF ListsOf
    <3>2. k \in 1..Len(Indexes(f[i]))
      BY <1>1, <3>1
    <3> HIDE DEF k
    <3>3. Indexes(f[i])[k] \in Children
      BY <3>1, <3>2, ElementOfSeq
    <3> QED
      BY <3>3 DEF k
  <2>2. PathOf(f, n) = [i \in 1..Len(f) |-> e(i)]
    BY DEF PathOf
  <2> HIDE DEF e
  <2> QED
    BY <1>1, <2>1, <2>2
<1>3. PathsOf(f) = [n \in 1..CountOf(f) |-> PathOf(f, n)]
  BY DEF PathsOf
<1> DEFINE P == Seq(Children)
<1>4. \A n \in 1..CountOf(f) : PathOf(f, n) \in P
  BY <1>2
<1> HIDE DEF P
<1>5. PathsOf(f) \in Seq(P) /\ Len(PathsOf(f)) = CountOf(f)
  BY <1>1, <1>3, <1>4
<1> QED
  BY <1>2, <1>5 DEF P

\* Extending the paths there are by one index.
LEMMA ExtendOnce ==
    ASSUME NEW paths \in Seq(Seq(Children)), Len(paths) >= 1,
           NEW is \in Seq(Children), Len(is) = 1
    PROVE  Extend(paths, is) = [p \in 1..Len(paths) |-> Append(paths[p], is[1])]
<1> DEFINE P == Seq(Children)
           n == Len(paths)
           extended == [p \in 1..n |-> Append(paths[p], is[1])]
           further == [k \in 1..(Len(is) - 1) |-> Append(Front(extended[1]), is[k + 1])]
<1>1. n \in Nat /\ DOMAIN paths = 1..n /\ paths # <<>>
  BY LenProperties, EmptySeq
<1>2. \A p \in 1..n : Append(paths[p], is[1]) \in P
  <2>1. is[1] \in Children
    <3>1. 1 \in 1..Len(is)
      OBVIOUS
    <3> QED
      BY <3>1, ElementOfSeq
  <2>2. \A p \in 1..n : paths[p] \in P
    BY ElementOfSeq
  <2> QED
    BY <2>1, <2>2, AppendProperties
<1>3. Extend(paths, is) = extended \o further
  BY <1>1 DEF Extend
<1> HIDE DEF P, n
<1>4. extended \in Seq(P)
  BY <1>1, <1>2
<1> HIDE DEF extended
<1>5. further = <<>>
  <2>1. 1..(Len(is) - 1) = {}
    OBVIOUS
  <2> HIDE DEF further
  <2>2. further \in Seq(P) /\ Len(further) = 0
    <3>1. further = [k \in {} |-> Append(Front(extended[1]), is[k + 1])]
      BY <2>1 DEF further
    <3>2. further = [k \in 1..0 |-> <<>>]
      BY <3>1
    <3> QED
      BY <3>2
  <2> QED
    BY <2>2, EmptySeq
<1> HIDE DEF further
<1> QED
  BY <1>3, <1>4, <1>5, ConcatEmptySeq DEF extended, n

LEMMA FrontOfAppend ==
    ASSUME NEW S, NEW s \in Seq(S), NEW x \in S
    PROVE  Front(Append(s, x)) = s
<1> DEFINE r == Append(s, x)
<1>1. /\ r \in Seq(S) /\ Len(r) = Len(s) + 1 /\ Len(s) \in Nat
      /\ \A i \in 1..Len(s) : r[i] = s[i]
  BY AppendProperties, LenProperties
<1> HIDE DEF r
<1>2. Front(r) = SubSeq(r, 1, Len(s))
  BY <1>1 DEF Front
<1>3. \A i \in 1..Len(s) : r[i] \in S
  BY <1>1, ElementOfSeq
<1>4. /\ Front(r) \in Seq(S) /\ Len(Front(r)) = Len(s)
      /\ \A i \in 1..Len(s) : Front(r)[i] = s[i]
  <2>1. /\ SubSeq(r, 1, Len(s)) \in Seq(S)
        /\ Len(SubSeq(r, 1, Len(s))) = IF 1 <= Len(s) THEN Len(s) - 1 + 1 ELSE 0
        /\ \A i \in 1..(Len(s) - 1 + 1) : SubSeq(r, 1, Len(s))[i] = r[1 + i - 1]
    BY <1>1, <1>3, SubSeqProperties
  <2>2. Len(s) - 1 + 1 = Len(s) /\ (1 <= Len(s) \/ Len(s) = 0)
    BY <1>1
  <2>3. \A i \in 1..Len(s) : 1 + i - 1 = i
    BY <1>1
  <2> QED
    BY <1>1, <1>2, <2>1, <2>2, <2>3
<1>5. Front(r) = s
  BY <1>4, SeqEqual
<1> QED
  BY <1>5 DEF r

\* Extending one path, or none, by the indexes of a step.
LEMMA ExtendFresh ==
    ASSUME NEW base \in Seq(Children), NEW is \in Seq(Children), Len(is) >= 1,
           NEW paths, paths = <<base>> \/ (paths = <<>> /\ base = <<>>)
    PROVE  Extend(paths, is) = [k \in 1..Len(is) |-> Append(base, is[k])]
<1> DEFINE P == Seq(Children)
           first == Append(base, is[1])
           n == Len(is)
           further == [k \in 1..(n - 1) |-> Append(base, is[k + 1])]
           all == [k \in 1..n |-> Append(base, is[k])]
<1>1. n \in Nat /\ n >= 1 /\ \A k \in 1..n : is[k] \in Children
  BY LenProperties, ElementOfSeq
<1>2. is[1] \in Children /\ first \in P /\ \A k \in 1..n : Append(base, is[k]) \in P
  <2>1. 1 \in 1..n
    BY <1>1
  <2> QED
    BY <1>1, <2>1, AppendProperties
<1>3. Front(first) = base
  BY <1>2, FrontOfAppend
<1>4. Extend(paths, is) = <<first>> \o further
  <2> DEFINE extended == IF paths = <<>> THEN << <<is[1]>> >>
                         ELSE [p \in DOMAIN paths |-> Append(paths[p], is[1])]
  <2>1. extended = <<first>>
    <3>1. CASE paths = <<>> /\ base = <<>>
      <4>1. Append(<<>>, is[1]) = <<is[1]>>
        OBVIOUS
      <4> QED
        BY <3>1, <4>1
    <3>2. CASE paths = <<base>>
      <4>1. paths # <<>> /\ DOMAIN paths = 1..1 /\ paths[1] = base
        BY <3>2
      <4>2. extended = [p \in 1..1 |-> Append(paths[p], is[1])]
        BY <4>1
      <4>3. extended = [p \in 1..1 |-> first]
        <5>1. \A p \in 1..1 : Append(paths[p], is[1]) = first
          BY <4>1
        <5> QED
          BY <4>2, <5>1
      <4> HIDE DEF extended, first
      <4>4. <<first>> = [p \in 1..1 |-> first]
        OBVIOUS
      <4> QED
        BY <4>3, <4>4
    <3> QED
      BY <3>1, <3>2
  <2>2. Extend(paths, is) =
          extended \o [k \in 1..(n - 1) |-> Append(Front(extended[1]), is[k + 1])]
    BY DEF Extend
  <2> HIDE DEF extended, first
  <2>3. extended[1] = first
    BY <2>1
  <2> QED
    BY <1>3, <2>1, <2>2, <2>3
<1>5. further \in Seq(P) /\ Len(further) = n - 1
  <2>1. \A k \in 1..(n - 1) : k + 1 \in 1..n
    BY <1>1
  <2>2. \A k \in 1..(n - 1) : Append(base, is[k + 1]) \in P
    BY <1>2, <2>1
  <2> DEFINE e(k) == Append(base, is[k + 1])
             m == n - 1
  <2>3. further = [k \in 1..m |-> e(k)] /\ m \in Nat /\ \A k \in 1..m : e(k) \in P
    BY <1>1, <2>2
  <2> HIDE DEF P, e, m, further
  <2>4. further \in Seq(P) /\ Len(further) = m
    BY <2>3
  <2> QED
    BY <2>4 DEF m
<1>6. all \in Seq(P) /\ Len(all) = n
  <2> HIDE DEF n, P
  <2> QED
    BY <1>1, <1>2
<1>7. <<first>> \in Seq(P) /\ Len(<<first>>) = 1 /\ <<first>>[1] = first
  <2> HIDE DEF first, P
  <2> QED
    BY <1>2
<1> DEFINE one == <<first>>
           both == one \o further
<1> HIDE DEF one
<1>8. /\ both \in Seq(P) /\ Len(both) = 1 + (n - 1)
      /\ \A i \in 1..(1 + (n - 1)) : both[i] = IF i <= 1 THEN one[i] ELSE further[i - 1]
  <2>1. one \in Seq(P) /\ Len(one) = 1
    BY <1>7 DEF one
  <2> HIDE DEF P, further, both, n
  <2>2. /\ one \o further \in Seq(P) /\ Len(one \o further) = Len(one) + Len(further)
        /\ \A i \in 1..(Len(one) + Len(further)) :
              (one \o further)[i] = IF i <= Len(one) THEN one[i] ELSE further[i - Len(one)]
    BY <1>5, <2>1, ConcatProperties
  <2>3. both = one \o further
    BY DEF both
  <2> QED
    BY <1>5, <2>1, <2>2, <2>3
<1>9. ASSUME NEW i \in 1..n PROVE both[i] = all[i]
  <2>1. CASE i = 1
    <3>1. both[i] = first
      BY <1>1, <1>7, <1>8, <2>1 DEF one
    <3> QED
      BY <2>1, <3>1
  <2>2. CASE i # 1
    <3>1. i - 1 \in 1..(n - 1) /\ ~(i <= 1) /\ (i - 1) + 1 = i /\ i \in 1..(1 + (n - 1))
      BY <1>1, <2>2
    <3>2. both[i] = further[i - 1]
      BY <1>8, <3>1
    <3>3. further[i - 1] = Append(base, is[(i - 1) + 1])
      BY <3>1
    <3> QED
      BY <3>1, <3>2, <3>3
  <2> QED
    BY <2>1, <2>2
<1> HIDE DEF P, both, all
<1>10. both = all
  <2>1. Len(both) = n
    BY <1>1, <1>8
  <2> QED
    BY <1>6, <1>8, <1>9, <2>1, SeqEqual
<1> QED
  BY <1>4, <1>10 DEF both, one, all

\* One step more, where there is no list yet: as many paths as the step has indexes.
LEMMA PathsFresh ==
    ASSUME NEW f \in Seq(StepSet), NEW e \in StepSet, Plain(f), Plain(Append(f, e)),
           ListsOf(f) = {}
    PROVE  PathsOf(Append(f, e)) = Extend(PathsOf(f), Indexes(e))
<1> DEFINE g == Append(f, e)
           n == Len(f)
           is == Indexes(e)
           base == PathOf(f, 1)
<1>1. /\ g \in Seq(StepSet) /\ Len(g) = n + 1 /\ n \in Nat /\ g # <<>>
      /\ g[n + 1] = e /\ \A i \in 1..n : g[i] = f[i]
  BY AppendProperties, LenProperties
<1>2. f = <<>> <=> n = 0
  BY EmptySeq
<1>3. /\ is \in Seq(Children) /\ Len(is) \in Nat /\ Len(is) >= 1
      /\ IsList(e) => Len(is) = CountOf(g)
      /\ ~IsList(e) => Len(is) = 1
  <2>1. n + 1 \in 1..Len(g)
    BY <1>1
  <2>2. /\ Indexes(g[n + 1]) \in Seq(Children) /\ Len(Indexes(g[n + 1])) \in Nat
        /\ Len(Indexes(g[n + 1])) >= 1
        /\ IsList(g[n + 1]) => Len(Indexes(g[n + 1])) = CountOf(g)
    BY <1>1, <2>1, PlainIs
  <2>3. e \notin Unreadable /\ e \notin Wildcards /\ (IsList(e) => Len(is) >= 2)
    <3>1. DOMAIN g = 1..Len(g)
      BY <1>1, LenProperties
    <3> QED
      BY <1>1, <2>1, <3>1 DEF Plain, Readable, WellFormed, Unreadable
  <2> QED
    BY <1>1, <2>2, <2>3, StepIs
<1>4. \A i \in 1..n : ~IsList(f[i])
  BY DEF ListsOf
<1> HIDE DEF g, n, is
<1>5. CountOf(g) = Len(is)
  <2>1. CASE IsList(e)
    BY <1>3, <2>1
  <2>2. CASE ~IsList(e)
    <3>1. ListsOf(g) = {}
      BY <1>1, <1>4, <2>2 DEF ListsOf
    <3> QED
      BY <1>1, <1>3, <2>2, <3>1 DEF CountOf
  <2> QED
    BY <2>1, <2>2
<1>6. /\ base \in Seq(Children) /\ Len(base) = n
      /\ PathsOf(f) = <<base>> \/ (PathsOf(f) = <<>> /\ base = <<>>)
  <2>1. CASE f = <<>>
    <3>1. CountOf(f) = 0 /\ n = 0
      BY <1>2, <2>1 DEF CountOf
    <3>2. PathsOf(f) \in Seq(Seq(Children)) /\ Len(PathsOf(f)) = 0
      BY <3>1, PathsType
    <3>3. PathsOf(f) = <<>>
      BY <3>2, EmptySeq
    <3>4. base = [i \in 1..0 |-> Indexes(f[i])[IF i \in ListsOf(f) THEN 1 ELSE 1]]
      BY <3>1 DEF PathOf, n
    <3>5. base \in Seq(Children) /\ Len(base) = 0
      <4> HIDE DEF base
      <4>1. base = [i \in 1..0 |-> <<>>]
        BY <3>4
      <4> QED
        BY <4>1
    <3>6. base = <<>>
      BY <3>5, EmptySeq
    <3> QED
      BY <3>1, <3>3, <3>5, <3>6
  <2>2. CASE f # <<>>
    <3>1. CountOf(f) = 1
      BY <2>2 DEF CountOf
    <3>2. base \in Seq(Children) /\ Len(base) = n
      BY <3>1, PathsType DEF n
    <3>3. PathsOf(f) = [m \in 1..1 |-> PathOf(f, m)]
      BY <3>1 DEF PathsOf
    <3>4. PathsOf(f) = [m \in 1..1 |-> base]
      BY <3>3
    <3> HIDE DEF base
    <3>5. <<base>> = [m \in 1..1 |-> base]
      OBVIOUS
    <3> QED
      BY <3>2, <3>4, <3>5
  <2> QED
    BY <2>1, <2>2
<1>7. Extend(PathsOf(f), is) = [k \in 1..Len(is) |-> Append(base, is[k])]
  <2> HIDE DEF base
  <2> QED
    BY <1>3, <1>6, ExtendFresh
<1>8. ASSUME NEW k \in 1..Len(is) PROVE PathOf(g, k) = Append(base, is[k])
  <2> DEFINE p == PathOf(g, k)
             q == Append(base, is[k])
  <2>1. p \in Seq(Children) /\ Len(p) = n + 1
    BY <1>1, <1>5, PathsType DEF g
  <2>2. is[k] \in Children
    BY <1>3, ElementOfSeq
  <2>3. q \in Seq(Children) /\ Len(q) = n + 1 /\ q[n + 1] = is[k] /\ \A i \in 1..n : q[i] = base[i]
    <3> HIDE DEF base
    <3> QED
      BY <1>6, <2>2, AppendProperties
  <2>4. p[n + 1] = is[k]
    <3>1. p[n + 1] = Indexes(g[n + 1])[IF n + 1 \in ListsOf(g) THEN k ELSE 1]
      BY <1>1 DEF PathOf
    <3>2. n + 1 \in ListsOf(g) <=> IsList(e)
      BY <1>1 DEF ListsOf
    <3>3. ~IsList(e) => k = 1
      <4>1. ~IsList(e) => k \in 1..1
        BY <1>3
      <4> QED
        BY <4>1
    <3> QED
      BY <1>1, <3>1, <3>2, <3>3 DEF is
  <2>5. ASSUME NEW i \in 1..n PROVE p[i] = q[i]
    <3>1. i \in 1..Len(g) /\ g[i] = f[i] /\ ~IsList(g[i])
      BY <1>1, <1>4
    <3>2. i \notin ListsOf(g)
      BY <3>1 DEF ListsOf
    <3>3. p[i] = Indexes(f[i])[1]
      BY <3>1, <3>2 DEF PathOf
    <3>4. base[i] = Indexes(f[i])[1]
      BY DEF PathOf, n
    <3> QED
      BY <2>3, <3>3, <3>4
  <2> HIDE DEF p, q
  <2>6. \A i \in 1..Len(p) : p[i] = q[i]
    <3>1. \A i \in 1..Len(p) : i \in 1..n \/ i = n + 1
      BY <1>1, <2>1
    <3> QED
      BY <2>3, <2>4, <2>5, <3>1, Zenon
  <2>7. p = q
    BY <2>1, <2>3, <2>6, SeqEqual
  <2> QED
    BY <2>7 DEF p, q
<1> HIDE DEF base
<1>9. PathsOf(g) = [k \in 1..Len(is) |-> PathOf(g, k)]
  BY <1>5 DEF PathsOf
<1> QED
  BY <1>7, <1>8, <1>9 DEF g, is

\* One step more after a list: each path takes the one index it has.
LEMMA PathsOn ==
    ASSUME NEW f \in Seq(StepSet), NEW e \in StepSet, Plain(f), Plain(Append(f, e)),
           ListsOf(f) # {}
    PROVE  PathsOf(Append(f, e)) = Extend(PathsOf(f), Indexes(e))
<1> DEFINE g == Append(f, e)
           n == Len(f)
           is == Indexes(e)
           c == CountOf(f)
<1>1. /\ g \in Seq(StepSet) /\ Len(g) = n + 1 /\ n \in Nat /\ g # <<>>
      /\ g[n + 1] = e /\ \A i \in 1..n : g[i] = f[i]
  BY AppendProperties, LenProperties
<1>2. DOMAIN g = 1..Len(g)
  BY <1>1, LenProperties
<1>3. PICK j \in 1..n : IsList(f[j])
  BY DEF ListsOf
<1>4. f # <<>>
  BY <1>1, <1>3, EmptySeq
<1>5. ~IsList(e) /\ e \notin Unreadable /\ e \notin Wildcards
  <2>1. IsList(g[j]) /\ j \in 1..Len(g) /\ n + 1 \in 1..Len(g) /\ j # n + 1
    BY <1>1, <1>3
  <2> QED
    BY <1>1, <1>2, <2>1 DEF Plain, Readable, WellFormed, Unreadable
<1>6. is \in Seq(Children) /\ Len(is) = 1 /\ is[1] \in Children
  <2>1. is \in Seq(Children) /\ Len(is) = 1
    BY <1>5, StepIs
  <2> HIDE DEF is
  <2>2. 1 \in 1..Len(is)
    BY <2>1
  <2> QED
    BY <2>1, <2>2, ElementOfSeq
<1> HIDE DEF g, n, is, c
<1>7. ListsOf(g) = ListsOf(f)
  BY <1>1, <1>5 DEF ListsOf, n
<1>8. CountOf(g) = c /\ c \in Nat /\ c >= 1
  <2> DEFINE at == CHOOSE i \in ListsOf(f) : TRUE
  <2>1. at \in ListsOf(f)
    OBVIOUS
  <2>2. at \in 1..n
    BY <2>1 DEF ListsOf, n
  <2>3. CountOf(g) = Len(Indexes(g[at]))
    BY <1>1, <1>7 DEF CountOf
  <2>4. c = Len(Indexes(f[at]))
    BY <1>4 DEF CountOf, c
  <2>5. CountOf(g) = c
    BY <1>1, <2>2, <2>3, <2>4
  <2> QED
    BY <1>4, <2>5, PlainIs DEF c
<1>9. PathsOf(f) \in Seq(Seq(Children)) /\ Len(PathsOf(f)) = c
  BY PathsType DEF c
<1>10. Extend(PathsOf(f), is) = [p \in 1..c |-> Append(PathsOf(f)[p], is[1])]
  BY <1>6, <1>8, <1>9, ExtendOnce
<1>11. ASSUME NEW k \in 1..c PROVE PathOf(g, k) = Append(PathsOf(f)[k], is[1])
  <2> DEFINE p == PathOf(g, k)
             base == PathOf(f, k)
             q == Append(base, is[1])
  <2>1. p \in Seq(Children) /\ Len(p) = n + 1
    BY <1>1, <1>8, PathsType DEF g
  <2>2. base \in Seq(Children) /\ Len(base) = n
    BY PathsType DEF n, c
  <2>3. q \in Seq(Children) /\ Len(q) = n + 1 /\ q[n + 1] = is[1] /\ \A i \in 1..n : q[i] = base[i]
    <3> HIDE DEF base
    <3> QED
      BY <1>6, <2>2, AppendProperties
  <2>4. p[n + 1] = is[1]
    <3>1. p[n + 1] = Indexes(g[n + 1])[IF n + 1 \in ListsOf(g) THEN k ELSE 1]
      BY <1>1 DEF PathOf
    <3>2. n + 1 \notin ListsOf(g)
      BY <1>1, <1>5 DEF ListsOf
    <3> QED
      BY <1>1, <3>1, <3>2 DEF is
  <2>5. ASSUME NEW i \in 1..n PROVE p[i] = q[i]
    <3>1. i \in 1..Len(g) /\ g[i] = f[i]
      BY <1>1
    <3>2. p[i] = Indexes(f[i])[IF i \in ListsOf(f) THEN k ELSE 1]
      BY <1>7, <3>1 DEF PathOf
    <3>3. base[i] = Indexes(f[i])[IF i \in ListsOf(f) THEN k ELSE 1]
      BY DEF PathOf, n
    <3> QED
      BY <2>3, <3>2, <3>3
  <2> HIDE DEF p, q, base
  <2>6. \A i \in 1..Len(p) : p[i] = q[i]
    <3>1. \A i \in 1..Len(p) : i \in 1..n \/ i = n + 1
      BY <1>1, <2>1
    <3> QED
      BY <2>3, <2>4, <2>5, <3>1, Zenon
  <2>7. p = q
    BY <2>1, <2>3, <2>6, SeqEqual
  <2>8. PathsOf(f)[k] = base
    BY DEF PathsOf, c, base
  <2> QED
    BY <2>7, <2>8 DEF p, q
<1>12. PathsOf(g) = [k \in 1..c |-> PathOf(g, k)]
  BY <1>8 DEF PathsOf
<1> QED
  BY <1>10, <1>11, <1>12 DEF g, is

\* Meaning is what those parts say of the steps up to the wildcard.
LEMMA MeaningIs ==
    ASSUME NEW s \in Seq(StepSet)
    PROVE  /\ s # <<>> /\ Last(s) \in Wildcards =>
                  Front(s) \in Seq(StepSet) /\ Meaning(s) = PathsOf(Front(s))
           /\ ~(s # <<>> /\ Last(s) \in Wildcards) => Meaning(s) = PathsOf(s)
<1> DEFINE Part(f) == LET lists == {i \in DOMAIN f : IsList(f[i])}
                          count == IF f = <<>> THEN 0
                                   ELSE IF lists = {} THEN 1
                                   ELSE Len(Indexes(f[CHOOSE i \in lists : TRUE]))
                      IN [n \in 1..count |->
                            [i \in DOMAIN f |-> Indexes(f[i])[IF i \in lists THEN n ELSE 1]]]
<1>1. ASSUME NEW f \in Seq(StepSet) PROVE Part(f) = PathsOf(f)
  <2>1. DOMAIN f = 1..Len(f)
    BY LenProperties
  <2>2. {i \in DOMAIN f : IsList(f[i])} = ListsOf(f)
    BY <2>1 DEF ListsOf
  <2> QED
    BY <2>1, <2>2 DEF PathsOf, CountOf, PathOf
<1>2. Meaning(s) = Part(IF s # <<>> /\ Last(s) \in Wildcards THEN Front(s) ELSE s)
  BY DEF Meaning
<1>3. s # <<>> => Front(s) \in Seq(StepSet)
  <2> SUFFICES ASSUME s # <<>> PROVE Front(s) \in Seq(StepSet)
    OBVIOUS
  <2>1. PICK r \in Seq(StepSet), x \in StepSet : s = Append(r, x)
    BY SequenceEmptyOrAppend
  <2> QED
    BY <2>1, FrontOfAppend
<1> HIDE DEF Part
<1> QED
  BY <1>1, <1>2, <1>3

\* What it takes to go on: no wildcard yet, and no second list.
LEMMA ReadableAppend ==
    ASSUME NEW s \in Seq(StepSet), NEW e \in StepSet
    PROVE  Readable(Append(s, e)) <=>
              /\ Readable(s) /\ ~Ended(s) /\ e \notin Unreadable
              /\ IsList(e) => Len(Indexes(e)) >= 2 /\ ListsOf(s) = {}
<1> DEFINE g == Append(s, e)
           n == Len(s)
<1>1. /\ g \in Seq(StepSet) /\ Len(g) = n + 1 /\ n \in Nat
      /\ g[n + 1] = e /\ \A i \in 1..n : g[i] = s[i]
  BY AppendProperties, LenProperties
<1>2. DOMAIN g = 1..(n + 1) /\ DOMAIN s = 1..n
  BY <1>1, LenProperties
<1>3. Ended(s) <=> n # 0 /\ IsWildcard(s[n])
  <2>1. s = <<>> <=> n = 0
    BY EmptySeq
  <2> QED
    BY <2>1 DEF Ended, Last
<1> HIDE DEF g, n
<1>4. Readable(g) <=>
         /\ \A i \in 1..(n + 1) : /\ g[i] \notin Unreadable
                                  /\ IsWildcard(g[i]) => i = n + 1
                                  /\ IsList(g[i]) => Len(Indexes(g[i])) >= 2
         /\ \A i, j \in 1..(n + 1) : IsList(g[i]) /\ IsList(g[j]) => i = j
  BY <1>1, <1>2 DEF Readable, WellFormed, Unreadable
<1>5. Readable(s) <=>
         /\ \A i \in 1..n : /\ s[i] \notin Unreadable
                            /\ IsWildcard(s[i]) => i = n
                            /\ IsList(s[i]) => Len(Indexes(s[i])) >= 2
         /\ \A i, j \in 1..n : IsList(s[i]) /\ IsList(s[j]) => i = j
  BY <1>2 DEF Readable, WellFormed, Unreadable, n
<1>6. n + 1 \in 1..(n + 1) /\ (\A i \in 1..n : i \in 1..(n + 1) /\ i # n + 1)
      /\ (\A i \in 1..(n + 1) : i \in 1..n \/ i = n + 1) /\ (n # 0 => n \in 1..n)
  BY <1>1
<1>7. ListsOf(s) = {} <=> \A i \in 1..n : ~IsList(s[i])
  BY DEF ListsOf, n
<1>8. ASSUME Readable(g)
      PROVE  /\ Readable(s) /\ ~Ended(s) /\ e \notin Unreadable
             /\ IsList(e) => Len(Indexes(e)) >= 2 /\ ListsOf(s) = {}
  <2>1. \A i \in 1..n : s[i] \notin Unreadable /\ ~IsWildcard(s[i])
                        /\ (IsList(s[i]) => Len(Indexes(s[i])) >= 2)
    BY <1>1, <1>4, <1>6, <1>8
  <2>2. \A i, j \in 1..n : IsList(s[i]) /\ IsList(s[j]) => i = j
    BY <1>1, <1>4, <1>6, <1>8
  <2>3. e \notin Unreadable /\ (IsList(e) => Len(Indexes(e)) >= 2)
    BY <1>1, <1>4, <1>6, <1>8
  <2>4. IsList(e) => \A i \in 1..n : ~IsList(s[i])
    BY <1>1, <1>4, <1>6, <1>8
  <2> QED
    BY <1>3, <1>5, <1>6, <1>7, <2>1, <2>2, <2>3, <2>4
<1>9. ASSUME Readable(s), ~Ended(s), e \notin Unreadable,
             IsList(e) => Len(Indexes(e)) >= 2 /\ ListsOf(s) = {}
      PROVE  Readable(g)
  <2>1. \A i \in 1..n : ~IsWildcard(s[i])
    BY <1>3, <1>5, <1>6, <1>9, <1>1
  <2>2. \A i \in 1..n : /\ g[i] \notin Unreadable /\ ~IsWildcard(g[i])
                        /\ IsList(g[i]) => Len(Indexes(g[i])) >= 2
    BY <1>1, <1>5, <1>9, <2>1
  <2>3. g[n + 1] \notin Unreadable /\ (IsList(g[n + 1]) => Len(Indexes(g[n + 1])) >= 2)
    BY <1>1, <1>9
  <2>4. ASSUME NEW i \in 1..(n + 1), NEW j \in 1..(n + 1), IsList(g[i]), IsList(g[j])
        PROVE  i = j
    <3>1. CASE i \in 1..n /\ j \in 1..n
      BY <1>1, <1>5, <1>9, <2>4, <3>1
    <3>2. CASE i = n + 1 /\ j \in 1..n
      BY <1>1, <1>7, <1>9, <2>4, <3>2
    <3>3. CASE j = n + 1 /\ i \in 1..n
      BY <1>1, <1>7, <1>9, <2>4, <3>3
    <3> QED
      BY <1>6, <3>1, <3>2, <3>3
  <2>5. \A i \in 1..(n + 1) : /\ g[i] \notin Unreadable
                              /\ IsWildcard(g[i]) => i = n + 1
                              /\ IsList(g[i]) => Len(Indexes(g[i])) >= 2
    BY <1>6, <2>2, <2>3
  <2> QED
    BY <1>4, <2>4, <2>5
<1> QED
  BY <1>8, <1>9 DEF g

\* What one step more adds to the meaning.
LEMMA MeaningAppend ==
    ASSUME NEW s \in Seq(StepSet), NEW e \in StepSet, Readable(Append(s, e))
    PROVE  /\ Meaning(Append(s, e)) \in Seq(Seq(Children))
           /\ e \in Wildcards => Meaning(Append(s, e)) = Meaning(s)
           /\ e \notin Wildcards => Meaning(Append(s, e)) = Extend(Meaning(s), Indexes(e))
<1> DEFINE g == Append(s, e)
           n == Len(s)
<1>1. /\ g \in Seq(StepSet) /\ Len(g) = n + 1 /\ n \in Nat /\ g # <<>>
      /\ g[n + 1] = e /\ \A i \in 1..n : g[i] = s[i]
  BY AppendProperties, LenProperties
<1>2. Readable(s) /\ ~Ended(s)
  BY ReadableAppend
<1>3. Last(g) = e /\ Front(g) = s
  BY <1>1, FrontOfAppend DEF Last
<1>4. \A i \in 1..n : s[i] \notin Wildcards
  <2>1. DOMAIN g = 1..(n + 1)
    BY <1>1, LenProperties
  <2>2. \A i \in 1..n : i \in 1..(n + 1) /\ i # n + 1
    BY <1>1
  <2>3. \A i \in 1..(n + 1) : IsWildcard(g[i]) => i = n + 1
    BY <1>1, <2>1 DEF Readable, WellFormed, Unreadable
  <2> QED
    BY <1>1, <2>2, <2>3 DEF IsWildcard
<1>5. Plain(s)
  BY <1>2, <1>4 DEF Plain
<1>6. Meaning(s) = PathsOf(s)
  <2>1. ~(s # <<>> /\ Last(s) \in Wildcards)
    BY <1>2 DEF Ended, IsWildcard
  <2> QED
    BY <2>1, MeaningIs
<1> HIDE DEF g
<1>7. CASE e \in Wildcards
  <2>1. Meaning(g) = PathsOf(s)
    BY <1>1, <1>3, <1>7, MeaningIs
  <2> QED
    BY <1>5, <1>6, <1>7, <2>1, PathsType DEF g
<1>8. CASE e \notin Wildcards
  <2>1. Meaning(g) = PathsOf(g)
    BY <1>1, <1>3, <1>8, MeaningIs
  <2>2. Plain(g)
    <3>1. \A i \in 1..(n + 1) : i \in 1..n \/ i = n + 1
      BY <1>1
    <3>2. \A i \in 1..Len(g) : g[i] \notin Wildcards
      BY <1>1, <1>4, <1>8, <3>1
    <3> QED
      BY <3>2 DEF Plain, g
  <2>3. PathsOf(g) = Extend(PathsOf(s), Indexes(e))
    BY <1>5, <2>2, PathsFresh, PathsOn DEF g
  <2>4. PathsOf(g) \in Seq(Seq(Children))
    BY <1>1, <2>2, PathsType
  <2> QED
    BY <1>6, <1>8, <2>1, <2>3, <2>4 DEF g
<1> QED
  BY <1>7, <1>8

\* The fold of parse_xkey_deriv, one step at a time.
Read(s) == FoldLeft(Accept, NothingRead, Replaced(s))
FirstList == Multi(<<Normal(0), Normal(1)>>)

LEMMA ReplacedFold ==
    /\ Replaced(<<>>) = <<>>
    /\ \A s \in Seq(StepSet), e \in StepSet : Replaced(Append(s, e)) = Replace(Replaced(s), e)
<1>1. Replaced(<<>>) = <<>>
  BY Replacing!FoldOfNone DEF Replaced, FoldLeft, MapThenFoldSet, Max,
     Replacing!FoldLeft, Replacing!MapThenFoldSet, Replacing!Max
<1>2. ASSUME NEW s \in Seq(StepSet), NEW e \in StepSet
      PROVE  Replaced(Append(s, e)) = Replace(Replaced(s), e)
  BY Replacing!FoldOfAppend DEF Replaced, FoldLeft, MapThenFoldSet, Max,
     Replacing!FoldLeft, Replacing!MapThenFoldSet, Replacing!Max
<1> QED
  BY <1>1, <1>2

LEMMA AcceptFold ==
    /\ FoldLeft(Accept, NothingRead, <<>>) = NothingRead
    /\ \A s \in Seq(StepSet), e \in StepSet :
          FoldLeft(Accept, NothingRead, Append(s, e)) = Accept(FoldLeft(Accept, NothingRead, s), e)
<1>1. FoldLeft(Accept, NothingRead, <<>>) = NothingRead
  BY Reading!FoldOfNone DEF FoldLeft, MapThenFoldSet, Max,
     Reading!FoldLeft, Reading!MapThenFoldSet, Reading!Max
<1>2. ASSUME NEW s \in Seq(StepSet), NEW e \in StepSet
      PROVE  FoldLeft(Accept, NothingRead, Append(s, e)) = Accept(FoldLeft(Accept, NothingRead, s), e)
  BY Reading!FoldOfAppend DEF FoldLeft, MapThenFoldSet, Max,
     Reading!FoldLeft, Reading!MapThenFoldSet, Reading!Max
<1> QED
  BY <1>1, <1>2

\* The wildcard that stands for the end of "**".
EndOf(e) == IF e = TwoStars THEN Star ELSE StarHardened

LEMMA Marks ==
    /\ FirstList \in StepSet /\ FirstList \notin Shorthands
    /\ \A e : EndOf(e) \in StepSet /\ EndOf(e) \in Wildcards /\ EndOf(e) \notin Shorthands
<1>1. Normal(0) \in Children /\ Normal(1) \in Children
  BY DEF Normal, Child, Children
<1>2. <<Normal(0), Normal(1)>> \in Seq(Children)
  BY <1>1
<1> QED
  BY <1>2 DEF FirstList, Multi, EndOf, Star, StarHardened, Wildcards, Shorthands, TwoStars,
         TwoStarsHardened, StepSet

LEMMA ReplaceIs ==
    ASSUME NEW s \in Seq(StepSet), NEW e \in StepSet
    PROVE  /\ e \in Shorthands => Replace(s, e) = Append(Append(s, FirstList), EndOf(e))
           /\ e \notin Shorthands => Replace(s, e) = Append(s, e)
<1>1. CASE e \notin Shorthands
  <2>1. Replace(s, e) = s \o <<e>>
    BY <1>1 DEF Replace
  <2> QED
    BY <1>1, <2>1, AppendIsConcat
<1>2. CASE e \in Shorthands
  <2>1. Replace(s, e) = s \o <<FirstList, EndOf(e)>>
    BY <1>2 DEF Replace, LongFor, EndOf, FirstList
  <2>2. <<FirstList, EndOf(e)>> = <<FirstList>> \o <<EndOf(e)>>
    OBVIOUS
  <2>3. <<FirstList>> \in Seq(StepSet) /\ <<EndOf(e)>> \in Seq(StepSet)
    BY Marks
  <2>4. Replace(s, e) = (s \o <<FirstList>>) \o <<EndOf(e)>>
    BY <2>1, <2>2, <2>3, ConcatAssociative
  <2>5. s \o <<FirstList>> = Append(s, FirstList) /\ Append(s, FirstList) \in Seq(StepSet)
    BY Marks, AppendIsConcat, AppendProperties
  <2>6. Append(s, FirstList) \o <<EndOf(e)>> = Append(Append(s, FirstList), EndOf(e))
    BY <2>5, Marks, AppendIsConcat
  <2> QED
    BY <1>2, <2>4, <2>5, <2>6
<1> QED
  BY <1>1, <1>2

LEMMA ReplacedType == \A s \in Seq(StepSet) : Replaced(s) \in Seq(StepSet)
<1> DEFINE T == {s \in Seq(StepSet) : Replaced(s) \in Seq(StepSet)}
<1>1. <<>> \in T
  <2>1. <<>> \in Seq(StepSet)
    BY EmptySeq
  <2> QED
    BY <2>1, ReplacedFold
<1>2. ASSUME NEW s \in Seq(StepSet) \cap T, NEW e \in StepSet PROVE Append(s, e) \in T
  <2>1. Replaced(s) \in Seq(StepSet) /\ Append(s, e) \in Seq(StepSet)
    BY AppendProperties
  <2>2. Replaced(Append(s, e)) = Replace(Replaced(s), e)
    BY ReplacedFold
  <2>3. Append(Replaced(s), e) \in Seq(StepSet)
        /\ Append(Append(Replaced(s), FirstList), EndOf(e)) \in Seq(StepSet)
    BY <2>1, Marks, AppendProperties
  <2>4. Replace(Replaced(s), e) \in Seq(StepSet)
    BY <2>1, <2>3, ReplaceIs
  <2> QED
    BY <2>1, <2>2, <2>4
<1> HIDE DEF T
<1>3. \A s \in Seq(StepSet) : s \in T
  BY <1>1, <1>2, Replacing!AllSequences
<1> QED
  BY <1>3 DEF T

LEMMA ReadStep ==
    /\ Read(<<>>) = NothingRead
    /\ \A s \in Seq(StepSet), e \in StepSet :
          /\ e \in Shorthands => Read(Append(s, e)) = Accept(Accept(Read(s), FirstList), EndOf(e))
          /\ e \notin Shorthands => Read(Append(s, e)) = Accept(Read(s), e)
<1>1. Read(<<>>) = NothingRead
  BY ReplacedFold, AcceptFold DEF Read
<1>2. ASSUME NEW s \in Seq(StepSet), NEW e \in StepSet
      PROVE  /\ e \in Shorthands =>
                   Read(Append(s, e)) = Accept(Accept(Read(s), FirstList), EndOf(e))
             /\ e \notin Shorthands => Read(Append(s, e)) = Accept(Read(s), e)
  <2> DEFINE r == Replaced(s)
  <2>1. r \in Seq(StepSet)
    BY ReplacedType
  <2>2. Replaced(Append(s, e)) = Replace(r, e)
    BY ReplacedFold
  <2> HIDE DEF r
  <2>3. Append(r, FirstList) \in Seq(StepSet)
    BY <2>1, Marks, AppendProperties
  <2>4. FoldLeft(Accept, NothingRead, Append(r, e)) = Accept(FoldLeft(Accept, NothingRead, r), e)
    BY <2>1, AcceptFold
  <2>5. FoldLeft(Accept, NothingRead, Append(Append(r, FirstList), EndOf(e)))
          = Accept(Accept(FoldLeft(Accept, NothingRead, r), FirstList), EndOf(e))
    BY <2>1, <2>3, Marks, AcceptFold
  <2>6. CASE e \in Shorthands
    <3>1. Replaced(Append(s, e)) = Append(Append(r, FirstList), EndOf(e))
      BY <2>1, <2>2, <2>6, ReplaceIs
    <3> QED
      BY <2>5, <2>6, <3>1 DEF Read, r
  <2>7. CASE e \notin Shorthands
    <3>1. Replaced(Append(s, e)) = Append(r, e)
      BY <2>1, <2>2, <2>7, ReplaceIs
    <3> QED
      BY <2>4, <2>7, <3>1 DEF Read, r
  <2> QED
    BY <2>6, <2>7
<1> QED
  BY <1>1, <1>2

\* What has been read, and what it says of the steps it was read from.
Accumulated == [ok : BOOLEAN, paths : Seq(Seq(Children)),
                wildcard : {"None", "Unhardened", "Hardened"}, multipath : BOOLEAN]

Tells(acc, s) ==
    /\ acc \in Accumulated
    /\ acc.ok <=> Readable(s)
    /\ acc.ok => /\ acc.paths = Meaning(s)
                 /\ acc.wildcard # "None" <=> Ended(s)
                 /\ acc.wildcard = "Hardened" <=> EndedHardened(s)
                 /\ acc.multipath <=> ListsOf(s) # {}

\* One turn of the closure, by what it finds.
LEMMA AcceptIs ==
    ASSUME NEW acc \in Accumulated, NEW e \in StepSet
    PROVE  /\ ~acc.ok => Accept(acc, e) = acc
           /\ acc.ok /\ acc.wildcard # "None" =>
                 Accept(acc, e) \in Accumulated /\ ~Accept(acc, e).ok
           /\ acc.ok /\ acc.wildcard = "None" /\ e \in Wildcards =>
                 /\ Accept(acc, e) \in Accumulated /\ Accept(acc, e).ok
                 /\ Accept(acc, e).paths = acc.paths
                 /\ Accept(acc, e).wildcard # "None"
                 /\ Accept(acc, e).wildcard = "Hardened" <=> IsHardened(e)
                 /\ Accept(acc, e).multipath = acc.multipath
           /\ /\ acc.ok /\ acc.wildcard = "None" /\ e \notin Wildcards
              /\ e \in Unreadable \/ (e.is = "multi" /\ (acc.multipath \/ Len(e.of) < 2))
              => Accept(acc, e) \in Accumulated /\ ~Accept(acc, e).ok
           /\ /\ acc.ok /\ acc.wildcard = "None" /\ e \notin Wildcards
              /\ ~(e \in Unreadable \/ (e.is = "multi" /\ (acc.multipath \/ Len(e.of) < 2)))
              /\ Extend(acc.paths, e.of) \in Seq(Seq(Children))
              => /\ Accept(acc, e) \in Accumulated /\ Accept(acc, e).ok
                 /\ Accept(acc, e).paths = Extend(acc.paths, e.of)
                 /\ Accept(acc, e).wildcard = "None"
                 /\ Accept(acc, e).multipath <=> acc.multipath \/ e.is = "multi"
<1>1. ASSUME ~acc.ok PROVE Accept(acc, e) = acc
  BY <1>1 DEF Accept
<1>2. ASSUME acc.ok, acc.wildcard # "None"
      PROVE  Accept(acc, e) \in Accumulated /\ ~Accept(acc, e).ok
  <2>1. Accept(acc, e) = [acc EXCEPT !.ok = FALSE]
    BY <1>2 DEF Accept
  <2> QED
    BY <2>1 DEF Accumulated
<1>3. ASSUME acc.ok, acc.wildcard = "None", e \in Wildcards
      PROVE  /\ Accept(acc, e) \in Accumulated /\ Accept(acc, e).ok
             /\ Accept(acc, e).paths = acc.paths
             /\ Accept(acc, e).wildcard # "None"
             /\ Accept(acc, e).wildcard = "Hardened" <=> IsHardened(e)
             /\ Accept(acc, e).multipath = acc.multipath
  <2>1. Accept(acc, e) = [acc EXCEPT !.wildcard = WildcardOf(e)]
    BY <1>3 DEF Accept
  <2>2. /\ WildcardOf(e) \in {"Unhardened", "Hardened"}
        /\ WildcardOf(e) = "Hardened" <=> IsHardened(e)
    BY <1>3 DEF WildcardOf, Wildcards, Star, StarHardened, IsHardened, TwoStarsHardened
  <2> QED
    BY <1>3, <2>1, <2>2 DEF Accumulated
<1>4. ASSUME acc.ok, acc.wildcard = "None", e \notin Wildcards,
             e \in Unreadable \/ (e.is = "multi" /\ (acc.multipath \/ Len(e.of) < 2))
      PROVE  Accept(acc, e) \in Accumulated /\ ~Accept(acc, e).ok
  <2>1. Accept(acc, e) = [acc EXCEPT !.ok = FALSE]
    BY <1>4 DEF Accept
  <2> QED
    BY <2>1 DEF Accumulated
<1>5. ASSUME acc.ok, acc.wildcard = "None", e \notin Wildcards,
             ~(e \in Unreadable \/ (e.is = "multi" /\ (acc.multipath \/ Len(e.of) < 2))),
             Extend(acc.paths, e.of) \in Seq(Seq(Children))
      PROVE  /\ Accept(acc, e) \in Accumulated /\ Accept(acc, e).ok
             /\ Accept(acc, e).paths = Extend(acc.paths, e.of)
             /\ Accept(acc, e).wildcard = "None"
             /\ Accept(acc, e).multipath <=> acc.multipath \/ e.is = "multi"
  <2>1. Accept(acc, e) = [acc EXCEPT !.paths = Extend(acc.paths, e.of),
                                     !.multipath = acc.multipath \/ e.is = "multi"]
    BY <1>5 DEF Accept
  <2> DEFINE P == Seq(Seq(Children))
             paths == Extend(acc.paths, e.of)
             more == acc.multipath \/ e.is = "multi"
  <2>2. paths \in P /\ more \in BOOLEAN
    BY <1>5
  <2>3. acc \in [ok : BOOLEAN, paths : P,
                 wildcard : {"None", "Unhardened", "Hardened"}, multipath : BOOLEAN]
    BY DEF Accumulated
  <2> HIDE DEF P, paths, more
  <2>4. LET b == [acc EXCEPT !.paths = paths, !.multipath = more]
        IN /\ b \in [ok : BOOLEAN, paths : P,
                     wildcard : {"None", "Unhardened", "Hardened"}, multipath : BOOLEAN]
           /\ b.ok = acc.ok /\ b.paths = paths /\ b.wildcard = acc.wildcard
           /\ b.multipath = more
    BY <2>2, <2>3
  <2> QED
    BY <1>5, <2>1, <2>4 DEF P, paths, more, Accumulated
<1> QED
  BY <1>1, <1>2, <1>3, <1>4, <1>5

LEMMA StepKinds ==
    ASSUME NEW e \in StepSet, e \notin Shorthands
    PROVE  /\ Indexes(e) = e.of
           /\ IsList(e) <=> e.is = "multi"
           /\ IsWildcard(e) <=> e \in Wildcards
           /\ e \in Wildcards => ~IsList(e) /\ e \notin Unreadable
           /\ e.is = "multi" => e.of \in Seq(Children)
<1>1. /\ Indexes(e) = e.of
      /\ IsList(e) <=> e.is = "multi"
      /\ IsWildcard(e) <=> e \in Wildcards
  BY DEF Indexes, IsList, IsWildcard
<1>2. CASE e \in Wildcards \union Unreadable
  BY <1>1, <1>2 DEF Star, StarHardened, Garbage, CapitalH, Wildcards, Unreadable
<1>3. CASE e \in [is : {"index", "multi"}, of : Seq(Children)]
  <2>1. e.is \in {"index", "multi"} /\ e.of \in Seq(Children)
    BY <1>3
  <2>2. e \notin Unreadable /\ e \notin Wildcards
    BY <2>1 DEF Star, StarHardened, Garbage, CapitalH, Wildcards, Unreadable
  <2> QED
    BY <1>1, <2>1, <2>2
<1> QED
  BY <1>2, <1>3 DEF StepSet, Wildcards

LEMMA OneMore ==
    ASSUME NEW s \in Seq(StepSet), NEW e \in StepSet
    PROVE  /\ Append(s, e) \in Seq(StepSet)
           /\ Ended(Append(s, e)) <=> IsWildcard(e)
           /\ EndedHardened(Append(s, e)) <=> IsHardened(e)
           /\ ListsOf(Append(s, e)) # {} <=> ListsOf(s) # {} \/ IsList(e)
<1> DEFINE g == Append(s, e)
           n == Len(s)
<1>1. /\ g \in Seq(StepSet) /\ Len(g) = n + 1 /\ n \in Nat /\ g # <<>>
      /\ g[n + 1] = e /\ \A i \in 1..n : g[i] = s[i]
  BY AppendProperties, LenProperties
<1> HIDE DEF g
<1>2. /\ Ended(g) <=> IsWildcard(e)
      /\ EndedHardened(g) <=> IsHardened(e)
  BY <1>1 DEF Ended, EndedHardened, Last
<1>3. /\ n + 1 \in 1..(n + 1) /\ \A i \in 1..n : i \in 1..(n + 1)
      /\ \A i \in 1..(n + 1) : i \in 1..n \/ i = n + 1
  BY <1>1
<1>4. ListsOf(g) # {} <=> \E i \in 1..(n + 1) : IsList(g[i])
  BY <1>1 DEF ListsOf
<1>5. ListsOf(s) # {} <=> \E i \in 1..n : IsList(s[i])
  BY DEF ListsOf
<1>6. (\E i \in 1..(n + 1) : IsList(g[i])) <=> (\E i \in 1..n : IsList(s[i])) \/ IsList(e)
  BY <1>1, <1>3
<1> QED
  BY <1>1, <1>2, <1>4, <1>5, <1>6 DEF g

\* One step that is no shorthand keeps what has been read true to the steps.
LEMMA TellsStep ==
    ASSUME NEW s \in Seq(StepSet), NEW acc, Tells(acc, s), NEW e \in StepSet,
           e \notin Shorthands
    PROVE  Tells(Accept(acc, e), Append(s, e))
<1> DEFINE g == Append(s, e)
           next == Accept(acc, e)
<1>1. /\ acc \in Accumulated /\ (acc.ok <=> Readable(s))
      /\ acc.ok => /\ acc.paths = Meaning(s)
                   /\ acc.wildcard # "None" <=> Ended(s)
                   /\ acc.wildcard = "Hardened" <=> EndedHardened(s)
                   /\ acc.multipath <=> ListsOf(s) # {}
  BY DEF Tells
<1>2. /\ Indexes(e) = e.of
      /\ IsList(e) <=> e.is = "multi"
      /\ IsWildcard(e) <=> e \in Wildcards
      /\ e \in Wildcards => ~IsList(e) /\ e \notin Unreadable
  BY StepKinds
<1>3. Readable(g) <=>
         /\ Readable(s) /\ ~Ended(s) /\ e \notin Unreadable
         /\ IsList(e) => Len(Indexes(e)) >= 2 /\ ListsOf(s) = {}
  BY ReadableAppend
<1>4. /\ Ended(g) <=> IsWildcard(e)
      /\ EndedHardened(g) <=> IsHardened(e)
      /\ ListsOf(g) # {} <=> ListsOf(s) # {} \/ IsList(e)
  BY OneMore
<1>5. Readable(g) =>
         /\ Meaning(g) \in Seq(Seq(Children))
         /\ e \in Wildcards => Meaning(g) = Meaning(s)
         /\ e \notin Wildcards => Meaning(g) = Extend(Meaning(s), Indexes(e))
  BY MeaningAppend
<1>6. e.is = "multi" => (Len(Indexes(e)) >= 2 <=> ~(Len(e.of) < 2))
  <2>1. e.is = "multi" => Len(e.of) \in Nat
    BY StepKinds, LenProperties
  <2> QED
    BY <1>2, <2>1
<1> HIDE DEF g, next
<1>7. CASE ~acc.ok
  <2>1. next = acc
    BY <1>1, <1>7, AcceptIs DEF next
  <2> QED
    BY <1>1, <1>3, <1>7, <2>1 DEF Tells, g, next
<1>8. CASE acc.ok /\ acc.wildcard # "None"
  <2>1. next \in Accumulated /\ ~next.ok
    BY <1>1, <1>8, AcceptIs DEF next
  <2> QED
    BY <1>1, <1>3, <1>8, <2>1 DEF Tells, g, next
<1>9. CASE acc.ok /\ acc.wildcard = "None" /\ e \in Wildcards
  <2>1. /\ next \in Accumulated /\ next.ok /\ next.paths = acc.paths
        /\ next.wildcard # "None" /\ next.multipath = acc.multipath
        /\ next.wildcard = "Hardened" <=> IsHardened(e)
    BY <1>1, <1>9, AcceptIs DEF next
  <2>2. Readable(g) /\ Meaning(g) = Meaning(s)
    BY <1>1, <1>2, <1>3, <1>5, <1>9
  <2> QED
    BY <1>1, <1>2, <1>4, <1>9, <2>1, <2>2 DEF Tells, g, next
<1>10. CASE /\ acc.ok /\ acc.wildcard = "None" /\ e \notin Wildcards
            /\ e \in Unreadable \/ (e.is = "multi" /\ (acc.multipath \/ Len(e.of) < 2))
  <2>1. next \in Accumulated /\ ~next.ok
    BY <1>1, <1>10, AcceptIs DEF next
  <2>2. ~Readable(g)
    BY <1>1, <1>2, <1>3, <1>6, <1>10
  <2> QED
    BY <2>1, <2>2 DEF Tells, g, next
<1>11. CASE /\ acc.ok /\ acc.wildcard = "None" /\ e \notin Wildcards
            /\ ~(e \in Unreadable \/ (e.is = "multi" /\ (acc.multipath \/ Len(e.of) < 2)))
  <2>1. Readable(g)
    BY <1>1, <1>2, <1>3, <1>6, <1>11
  <2>2. /\ Extend(acc.paths, e.of) = Meaning(g)
        /\ Extend(acc.paths, e.of) \in Seq(Seq(Children))
    BY <1>1, <1>2, <1>5, <1>11, <2>1
  <2>3. /\ next \in Accumulated /\ next.ok /\ next.paths = Meaning(g)
        /\ next.wildcard = "None"
        /\ next.multipath <=> acc.multipath \/ e.is = "multi"
    BY <1>1, <1>11, <2>2, AcceptIs DEF next
  <2>4. ~IsHardened(e)
    BY <1>11 DEF Wildcards, Shorthands, IsHardened
  <2> QED
    BY <1>1, <1>2, <1>4, <1>11, <2>1, <2>3, <2>4 DEF Tells, g, next
<1> QED
  BY <1>1, <1>7, <1>8, <1>9, <1>10, <1>11 DEF Accumulated

\* "**" says what the list of 0 and 1 and a wildcard say, and so does "**h".
LEMMA ShorthandMeans ==
    ASSUME NEW s \in Seq(StepSet), NEW e \in Shorthands, NEW acc,
           Tells(acc, Append(Append(s, FirstList), EndOf(e)))
    PROVE  Tells(acc, Append(s, e))
<1> DEFINE r == Append(s, FirstList)
           star == EndOf(e)
           g == Append(r, star)
           h == Append(s, e)
<1>1. /\ FirstList \in StepSet /\ star \in StepSet /\ e \in StepSet
      /\ star \in Wildcards /\ FirstList \notin Shorthands /\ star \notin Shorthands
  BY Marks DEF StepSet
<1>2. /\ Indexes(FirstList) = Indexes(e) /\ Len(Indexes(FirstList)) >= 2
      /\ IsList(FirstList) /\ IsList(e) /\ IsWildcard(e)
      /\ FirstList \notin Unreadable /\ e \notin Unreadable
      /\ FirstList \notin Wildcards /\ e \notin Wildcards
  <2>1. FirstList.is = "multi" /\ FirstList.of = <<Normal(0), Normal(1)>>
    BY DEF FirstList, Multi
  <2>2. /\ FirstList \notin Unreadable /\ e \notin Unreadable
        /\ FirstList \notin Wildcards /\ e \notin Wildcards
    BY <2>1 DEF Shorthands, TwoStars, TwoStarsHardened, Star, StarHardened, Garbage, CapitalH,
           Unreadable, Wildcards
  <2>3. Indexes(FirstList) = <<Normal(0), Normal(1)>> /\ Indexes(e) = <<Normal(0), Normal(1)>>
    BY <1>1, <2>1 DEF Indexes
  <2>4. Len(Indexes(FirstList)) >= 2
    BY <2>3
  <2> QED
    BY <2>1, <2>2, <2>3, <2>4 DEF IsList, IsWildcard
<1>3. IsWildcard(star) /\ ~IsList(star) /\ star \notin Unreadable
  BY <1>1, StepKinds
<1>4. ~IsWildcard(FirstList)
  BY <1>1, <1>2 DEF IsWildcard
<1>5. /\ r \in Seq(StepSet) /\ ~Ended(r) /\ ListsOf(r) # {}
      /\ Ended(g) /\ ListsOf(g) # {} /\ Ended(h) /\ ListsOf(h) # {}
  BY <1>1, <1>2, <1>3, <1>4, OneMore
<1>6. EndedHardened(g) <=> EndedHardened(h)
  <2>1. IsHardened(star) <=> IsHardened(e)
    BY DEF IsHardened, EndOf, Shorthands, TwoStars, TwoStarsHardened, Star, StarHardened
  <2> HIDE DEF star
  <2> QED
    BY <1>1, <1>5, <2>1, OneMore
<1>7. Readable(g) <=> Readable(r)
  BY <1>1, <1>3, <1>5, ReadableAppend
<1>8. Readable(r) <=> Readable(s) /\ ~Ended(s) /\ ListsOf(s) = {}
  BY <1>1, <1>2, ReadableAppend
<1>9. Readable(h) <=> Readable(s) /\ ~Ended(s) /\ ListsOf(s) = {}
  BY <1>1, <1>2, ReadableAppend
<1>10. Readable(g) => Meaning(g) = Meaning(h)
  <2> SUFFICES ASSUME Readable(g) PROVE Meaning(g) = Meaning(h)
    OBVIOUS
  <2>1. Readable(r) /\ Readable(h)
    BY <1>7, <1>8, <1>9
  <2>2. Meaning(g) = Meaning(r)
    BY <1>1, <1>3, <1>5, MeaningAppend
  <2>3. Meaning(r) = Extend(Meaning(s), Indexes(FirstList))
    BY <1>1, <1>2, <2>1, MeaningAppend
  <2>4. Meaning(h) = Extend(Meaning(s), Indexes(e))
    BY <1>1, <1>2, <2>1, MeaningAppend
  <2> QED
    BY <1>2, <2>2, <2>3, <2>4
<1> HIDE DEF r, g, h, star
<1>11. Tells(acc, g)
  BY DEF g, r, star
<1>12. Tells(acc, h)
  BY <1>5, <1>6, <1>7, <1>8, <1>9, <1>10, <1>11 DEF Tells
<1> QED
  BY <1>12 DEF h

LEMMA ReadTells == \A s \in Seq(StepSet) : Tells(Read(s), s)
<1> DEFINE T == {s \in Seq(StepSet) : Tells(Read(s), s)}
<1>1. <<>> \in T
  <2>1. <<>> \in Seq(StepSet) /\ Len(<<>>) = 0 /\ DOMAIN <<>> = {}
    BY EmptySeq, LenProperties
  <2>2. Readable(<<>>)
    BY <2>1 DEF Readable, WellFormed, Unreadable
  <2>3. ListsOf(<<>>) = {}
    BY <2>1 DEF ListsOf
  <2>4. Plain(<<>>) /\ CountOf(<<>>) = 0
    BY <2>1, <2>2 DEF Plain, CountOf
  <2>5. Meaning(<<>>) = <<>>
    <3>1. Meaning(<<>>) = PathsOf(<<>>)
      BY <2>1, MeaningIs
    <3>2. PathsOf(<<>>) \in Seq(Seq(Children)) /\ Len(PathsOf(<<>>)) = 0
      BY <2>1, <2>4, PathsType
    <3> QED
      BY <3>1, <3>2, EmptySeq
  <2>6. NothingRead \in Accumulated /\ NothingRead.ok /\ NothingRead.paths = <<>>
        /\ NothingRead.wildcard = "None" /\ ~NothingRead.multipath
    BY DEF NothingRead, Accumulated
  <2>7. ~Ended(<<>>) /\ ~EndedHardened(<<>>)
    BY DEF Ended, EndedHardened
  <2>8. Tells(NothingRead, <<>>)
    BY <2>2, <2>3, <2>5, <2>6, <2>7 DEF Tells
  <2> QED
    BY <2>1, <2>8, ReadStep
<1>2. ASSUME NEW s \in Seq(StepSet) \cap T, NEW e \in StepSet PROVE Append(s, e) \in T
  <2>1. Append(s, e) \in Seq(StepSet) /\ Tells(Read(s), s)
    BY OneMore
  <2>2. CASE e \notin Shorthands
    BY <2>1, <2>2, TellsStep, ReadStep
  <2>3. CASE e \in Shorthands
    <3> DEFINE r == Append(s, FirstList)
               acc == Accept(Read(s), FirstList)
               star == EndOf(e)
    <3>1. /\ FirstList \in StepSet /\ star \in StepSet
          /\ FirstList \notin Shorthands /\ star \notin Shorthands
      BY Marks
    <3>2. r \in Seq(StepSet) /\ Tells(acc, r)
      BY <2>1, <3>1, OneMore, TellsStep
    <3>3. Read(Append(s, e)) = Accept(acc, star)
      BY <2>3, ReadStep
    <3> HIDE DEF r, acc, star
    <3>4. Tells(Accept(acc, star), Append(r, star))
      BY <3>1, <3>2, TellsStep
    <3>5. Tells(Accept(acc, star), Append(s, e))
      BY <2>3, <3>4, ShorthandMeans DEF r, star
    <3> QED
      BY <2>1, <3>3, <3>5
  <2> QED
    BY <2>2, <2>3
<1> HIDE DEF T
<1>3. \A s \in Seq(StepSet) : s \in T
  BY <1>1, <1>2, Reading!AllSequences
<1> QED
  BY <1>3 DEF T

\* parse_xkey_deriv reads a derivation as BIP389 has it, whatever its length: it accepts
\* what is well formed and has no H for a hardened index, with the paths it stands for, in
\* their order, and the wildcard at its end (bip389.rs).  There is no derivation of no
\* steps: an empty text is one that cannot be read.
THEOREM ParseIsMeaning ==
    ASSUME NEW steps \in Seq(StepSet) \ {<<>>}
    PROVE  /\ ParseXkeyDeriv(steps).ok <=> Readable(steps)
           /\ Readable(steps) => /\ ParseXkeyDeriv(steps).paths = Meaning(steps)
                                 /\ ParseXkeyDeriv(steps).wildcard = Ending(steps)
<1>1. Tells(Read(steps), steps)
  BY ReadTells
<1>2. ParseXkeyDeriv(steps) = IF Read(steps).ok
                              THEN [ok |-> TRUE, paths |-> Read(steps).paths,
                                    wildcard |-> Read(steps).wildcard]
                              ELSE Failure
  BY DEF ParseXkeyDeriv, Read
<1>3. Readable(steps) => Read(steps).wildcard = Ending(steps)
  BY <1>1 DEF Tells, Accumulated, Ended, EndedHardened, Ending
<1> QED
  BY <1>1, <1>2, <1>3 DEF Tells, Failure

\* Every answer of parse_xkey_deriv is what BIP389 says, for any derivations: the paths and
\* the wildcard if each of their steps can be read, an error otherwise.
THEOREM DerivationMeaning == Spec => []DerivationMeansBip389
<1>1. Init => DerivationMeansBip389
  BY DEF Init, Silence, DerivationMeansBip389
<1>2. DerivationMeansBip389 /\ [Next]_vars => DerivationMeansBip389'
  <2> SUFFICES ASSUME DerivationMeansBip389, [Next]_vars PROVE DerivationMeansBip389'
    OBVIOUS
  <2>1. CASE UNCHANGED vars
    BY <2>1 DEF vars, DerivationMeansBip389
  <2>2. ASSUME NEW steps \in Derivations, ParseDerivation(steps) PROVE DerivationMeansBip389'
    <3>1. steps \in Seq(StepSet) \ {<<>>}
      BY WalletClientsAssumption
    <3>2. answer'.steps = steps /\ answer'.result = ParseXkeyDeriv(steps)
      BY <2>2 DEF ParseDerivation
    <3> QED
      BY <3>1, <3>2, ParseIsMeaning DEF DerivationMeansBip389
  <2>3. CASE answer'.call # "parse_xkey_deriv"
    BY <2>3 DEF DerivationMeansBip389
  <2> QED
    BY <2>1, <2>2, <2>3, OtherCalls DEF IsWalletRegistered, DisplayP2tr, DisplayMiniscript
<1> QED
  BY <1>1, <1>2, PTL DEF Spec

-----------------------------------------------------------------------------
(* What a BitBox02 displays                                                *)

\* The first derivation with a wildcard: its paths, and the wildcard it ends with.
LEMMA ParseEnds ==
    ASSUME NEW steps \in Seq(StepSet), ParseXkeyDeriv(steps).ok
    PROVE  /\ ParseXkeyDeriv(steps).wildcard \in {"None", "Unhardened", "Hardened"}
           /\ ParseXkeyDeriv(steps).wildcard # "None" <=> Ended(steps)
           /\ ParseXkeyDeriv(steps).wildcard = "Hardened" <=> EndedHardened(steps)
           /\ ParseXkeyDeriv(steps).paths \in Seq(Seq(Children))
<1>1. Tells(Read(steps), steps)
  BY ReadTells
<1>2. ParseXkeyDeriv(steps) = IF Read(steps).ok
                              THEN [ok |-> TRUE, paths |-> Read(steps).paths,
                                    wildcard |-> Read(steps).wildcard]
                              ELSE Failure
  BY DEF ParseXkeyDeriv, Read
<1> QED
  BY <1>1, <1>2 DEF Tells, Failure, Accumulated

\* In a descriptor whose keys are separate, a place shows the key it is numbered with.
LEMMA PlaceNumbers ==
    ASSUME NEW policy \in Descriptors, Separate(policy),
           NEW j \in 1..Len(policy.pieces), policy.pieces[j].is = "key"
    PROVE  LET keys == KeysOf(policy.pieces)
               place == Structured(policy).template[j]
           IN /\ place.is = "place" /\ place.steps = policy.pieces[j].steps
              /\ place.key \in 0..9
              /\ \A k \in 1..Len(keys) : k = place.key + 1 <=> keys[k] = policy.pieces[j].expression
<1> DEFINE keys == KeysOf(policy.pieces)
           place == Structured(policy).template[j]
           p == policy.pieces[j]
<1>1. policy.pieces \in Seq(Pieces)
  BY UnmarkedIs
<1>2. keys \in Seq(Expressions) /\ \E k \in 1..Len(keys) : keys[k] = p.expression
  BY <1>1, KeysFound
<1>3. Len(keys) \in Nat /\ DOMAIN keys = 1..Len(keys)
  BY <1>2, LenProperties
<1>4. Len(keys) <= 10 /\ \A k, l \in 1..Len(keys) : keys[k].xpub = keys[l].xpub => k = l
  BY <1>3 DEF Separate
<1>5. place = PlaceOf(keys, p)
  BY TemplateIs
<1> HIDE DEF keys, place, p
<1>6. PICK k \in 1..Len(keys), left \in {NoOrigin, p.expression.origin} :
         /\ PlaceOf(keys, p) = Place(k - 1, left, p.steps)
         /\ p.expression = IF left = NoOrigin THEN keys[k] ELSE Expression(left, keys[k].xpub)
  BY <1>2, PlaceTells
<1>7. place.is = "place" /\ place.key = k - 1 /\ place.steps = p.steps
  BY <1>5, <1>6 DEF Place
<1>8. p.expression.xpub = keys[k].xpub
  BY <1>6 DEF Expression
<1>9. PICK l \in 1..Len(keys) : keys[l] = p.expression
  BY <1>2
<1>10. l = k
  BY <1>4, <1>8, <1>9
<1>11. k - 1 \in 0..9 /\ (k - 1) + 1 = k
  BY <1>3, <1>4
<1>12. \A m \in 1..Len(keys) : m = k <=> keys[m] = p.expression
  BY <1>4, <1>8, <1>9, <1>10
<1> QED
  BY <1>7, <1>11, <1>12 DEF keys, place, p

\* What FirstAppended looks for: a place of the key, with a wildcard or unreadable.
Appends(p, i) ==
    /\ p.is = "place" /\ p.steps # <<>> /\ DigitsBegin(p.key, i)
    /\ LET d == ParseXkeyDeriv(p.steps) IN ~d.ok \/ d.wildcard # "None"

\* Where the first of the device's keys has a wildcard, the path is read off a piece
\* with this very key.
LEMMA PieceFound ==
    ASSUME NEW policy \in Descriptors, Separate(policy), FirstRanged(policy),
           NEW m, LET keys == KeysOf(policy.pieces)
                      own == {k \in DOMAIN keys : keys[k].origin.fg = Fingerprint}
                  IN own # {} /\ m = Min(own)
    PROVE  \E j \in 1..Len(policy.pieces) :
              /\ policy.pieces[j].is = "key"
              /\ policy.pieces[j].expression = KeysOf(policy.pieces)[m]
              /\ FirstAppended(m - 1, Structured(policy).template)
                    = ParseXkeyDeriv(policy.pieces[j].steps)
              /\ Appends(Structured(policy).template[j], m - 1)
<1> DEFINE pieces == policy.pieces
           n == Len(pieces)
           keys == KeysOf(pieces)
           own == {k \in DOMAIN keys : keys[k].origin.fg = Fingerprint}
           template == Structured(policy).template
           found == {j \in DOMAIN template : Appends(template[j], m - 1)}
<1>1. pieces \in Seq(Pieces) /\ n \in Nat /\ DOMAIN pieces = 1..n
  BY UnmarkedIs
<1>2. keys \in Seq(Expressions) /\ DOMAIN keys = 1..Len(keys) /\ Len(keys) \in Nat
  <2>1. keys \in Seq(Expressions)
    BY <1>1, KeysFound
  <2> QED
    BY <2>1, LenProperties
<1>3. /\ DOMAIN template = 1..n
      /\ \A j \in 1..n : pieces[j].is # "key" => template[j] = pieces[j]
  BY TemplateIs
<1>4. \A j \in 1..n : pieces[j].is = "key" =>
         /\ template[j].is = "place" /\ template[j].steps = pieces[j].steps
         /\ template[j].key \in 0..9
         /\ \A k \in 1..Len(keys) : k = template[j].key + 1 <=> keys[k] = pieces[j].expression
  BY PlaceNumbers
<1>5. own # {} /\ m = Min(own)
  OBVIOUS
<1>6. m \in 1..Len(keys)
  <2>1. own \subseteq Nat /\ own \subseteq 1..Len(keys)
    BY <1>2
  <2> HIDE DEF own
  <2> QED
    BY <1>5, <2>1, MinIs
<1>7. \E p \in OwnKeys(policy) : p.expression = keys[m]
  BY <1>5 DEF FirstRanged
<1>8. FirstAppended(m - 1, template) =
         IF found = {} THEN [ok |-> TRUE, paths |-> <<>>, wildcard |-> "None"]
         ELSE ParseXkeyDeriv(template[Min(found)].steps)
  BY DEF FirstAppended, Appends
<1>9. \A j \in 1..n : pieces[j].is \in {"key", "text"}
  <2>1. \A j \in 1..n : pieces[j] \in Pieces
    BY <1>1, ElementOfSeq
  <2> QED
    BY <2>1 DEF Pieces
<1> HIDE DEF keys, own, template, found, n, pieces
<1>10. found # {}
  <2>1. PICK p \in OwnKeys(policy) : p.expression = keys[m]
    BY <1>7
  <2>2. /\ p.is = "key" /\ Ended(p.steps)
        /\ \E j \in DOMAIN pieces : p = pieces[j]
    BY DEF OwnKeys, ToSet, Ended, pieces
  <2>3. PICK j \in 1..n : p = pieces[j]
    BY <1>1, <2>2
  <2>4. /\ template[j].is = "place" /\ template[j].steps = p.steps
        /\ template[j].key \in 0..9 /\ m = template[j].key + 1
    BY <1>4, <1>6, <2>1, <2>2, <2>3
  <2>5. DigitsBegin(template[j].key, m - 1)
    BY <2>4 DEF DigitsBegin
  <2>6. p.steps \in Seq(StepSet)
    <3>1. p \in Pieces
      BY <1>1, <2>3, ElementOfSeq DEF n
    <3> QED
      BY <2>2, <3>1 DEF Pieces
  <2>7. LET d == ParseXkeyDeriv(p.steps) IN ~d.ok \/ d.wildcard # "None"
    BY <2>2, <2>6, ParseEnds
  <2>8. Appends(template[j], m - 1)
    BY <2>2, <2>4, <2>5, <2>7 DEF Appends, Ended
  <2> QED
    BY <1>3, <2>8 DEF found
<1>11. found \subseteq Nat /\ found \subseteq 1..n
  BY <1>1, <1>3 DEF found
<1>12. Min(found) \in found
  BY <1>10, <1>11, MinIs
<1> DEFINE j == Min(found)
<1>13. j \in 1..n /\ Appends(template[j], m - 1)
  BY <1>11, <1>12 DEF found
<1>14. FirstAppended(m - 1, template) = ParseXkeyDeriv(template[j].steps)
  BY <1>8, <1>10
<1> HIDE DEF j
<1>15. pieces[j].is = "key"
  <2>1. template[j].is = "place"
    BY <1>13 DEF Appends
  <2> QED
    BY <1>3, <1>9, <1>13, <2>1
<1>16. template[j].key = m - 1
  <2>1. template[j].key \in 0..9 /\ DigitsBegin(template[j].key, m - 1)
    BY <1>4, <1>13, <1>15 DEF Appends
  <2> QED
    BY <2>1 DEF DigitsBegin
<1>17. keys[m] = pieces[j].expression /\ template[j].steps = pieces[j].steps
  <2>1. m = template[j].key + 1
    BY <1>2, <1>6, <1>16
  <2> QED
    BY <1>4, <1>6, <1>13, <1>15, <2>1
<1> QED
  BY <1>13, <1>14, <1>15, <1>17 DEF keys, template, pieces, n

LEMMA KeypathOnDescriptor ==
    ASSUME NEW policy \in Descriptors, Separate(policy), FirstRanged(policy),
           OwnKeys(policy) # {}, NEW change \in BOOLEAN, NEW index, NEW limit,
           Keypath(policy, Fingerprint, change, index, limit).ok
    PROVE  \E p \in OwnKeys(policy) :
              Leads(Keypath(policy, Fingerprint, change, index, limit).path, p, change, index)
<1> DEFINE pieces == policy.pieces
           keys == KeysOf(pieces)
           s == Structured(policy)
           own == {k \in DOMAIN keys : keys[k].origin.fg = Fingerprint}
           m == Min(own)
           appended == FirstAppended(m - 1, s.template)
           child == IF appended.wildcard = "None" THEN <<>>
                    ELSE <<Child(index, appended.wildcard = "Hardened")>>
           result == Keypath(policy, Fingerprint, change, index, limit)
<1>1. pieces \in Seq(Pieces) /\ DOMAIN pieces = 1..Len(pieces)
  BY UnmarkedIs
<1>2. /\ keys \in Seq(Expressions)
      /\ \A i \in 1..Len(pieces) :
            pieces[i].is = "key" => \E k \in 1..Len(keys) : keys[k] = pieces[i].expression
  BY <1>1, KeysFound
<1>3. DOMAIN keys = 1..Len(keys) /\ Len(keys) \in Nat
  BY <1>2, LenProperties
<1>4. s.keys = [k \in 1..Len(keys) |-> Parsed(keys[k])]
  BY TemplateIs
<1>5. \A k \in 1..Len(keys) :
         Parsed(keys[k]).origin.fg = keys[k].origin.fg /\ Parsed(keys[k]).origin.path = keys[k].origin.path
  <2>1. \A k \in 1..Len(keys) : keys[k] \in Expressions
    BY <1>2, ElementOfSeq
  <2> QED
    BY <2>1 DEF Parsed, Expressions
<1>6. {k \in DOMAIN s.keys : s.keys[k].origin.fg = Fingerprint} = own
  BY <1>3, <1>4, <1>5
<1>7. own # {}
  <2>1. PICK p \in OwnKeys(policy) : TRUE
    OBVIOUS
  <2>2. p.is = "key" /\ p.expression.origin.fg = Fingerprint /\ \E j \in DOMAIN pieces : p = pieces[j]
    BY <2>1 DEF OwnKeys, ToSet
  <2>3. PICK k \in 1..Len(keys) : keys[k] = p.expression
    BY <1>1, <1>2, <2>2
  <2> QED
    BY <1>3, <2>2, <2>3
<1>8. m \in own
  <2>1. own \subseteq Nat
    BY <1>3
  <2> HIDE DEF own
  <2> QED
    BY <1>7, <2>1, MinIs
<1>9. m \in 1..Len(keys) /\ keys[m].origin.fg = Fingerprint
  BY <1>3, <1>8
<1>10. PICK j \in 1..Len(pieces) :
          /\ pieces[j].is = "key" /\ pieces[j].expression = keys[m]
          /\ appended = ParseXkeyDeriv(pieces[j].steps)
          /\ Appends(s.template[j], m - 1)
  BY <1>7, PieceFound
<1>11. s.template[j].steps = pieces[j].steps
  BY <1>10, PlaceNumbers
<1>12. result = IF ~appended.ok \/ (child # <<>> /\ index > limit) THEN Refused
                ELSE [ok |-> TRUE, path |-> s.keys[m].origin.path
                                            \o Branch(appended.paths, change) \o child]
  BY <1>6, <1>7 DEF Keypath
<1>13. s.keys[m].origin.path = keys[m].origin.path
  BY <1>4, <1>5, <1>9
<1> DEFINE p == pieces[j]
<1>14. p.steps \in Seq(StepSet)
  <2>1. p \in Pieces
    BY <1>1, ElementOfSeq
  <2> QED
    BY <1>10, <2>1 DEF Pieces
<1>15. result.ok
  OBVIOUS
<1> HIDE DEF own, m, appended, result, s, keys, child, pieces
<1>16. appended.ok
  BY <1>12, <1>15 DEF Refused
<1>17. result.path = keys[m].origin.path \o Branch(appended.paths, change) \o child
  BY <1>12, <1>13, <1>15 DEF Refused
<1>18. /\ appended.wildcard # "None" /\ Ended(p.steps)
       /\ appended.wildcard = "Hardened" <=> EndedHardened(p.steps)
       /\ appended.paths \in Seq(Seq(Children))
  BY <1>10, <1>11, <1>14, <1>16, ParseEnds DEF Appends
<1>19. WellFormed(p.steps) /\ appended.paths = Meaning(p.steps)
  BY <1>10, <1>14, <1>16, <1>18, ParseIsMeaning DEF Ended, Readable
<1>20. p \in OwnKeys(policy)
  <2>1. p \in ToSet(pieces)
    BY <1>1 DEF ToSet
  <2> QED
    BY <1>9, <1>10, <1>18, <2>1 DEF OwnKeys, Ended, pieces
<1>21. child = <<Child(index, IsHardened(Last(p.steps)))>>
  <2>1. (appended.wildcard = "Hardened") = IsHardened(Last(p.steps))
    BY <1>18 DEF Ended, EndedHardened, IsHardened
  <2> QED
    BY <1>18, <2>1 DEF child
<1>22. Branch(appended.paths, change) =
          IF Meaning(p.steps) = <<>> THEN <<>>
          ELSE Meaning(p.steps)[IF change /\ Len(Meaning(p.steps)) > 1 THEN 2 ELSE 1]
  <2>1. Len(appended.paths) \in Nat
    BY <1>18, LenProperties
  <2>2. Len(appended.paths) >= 2 <=> Len(appended.paths) > 1
    BY <2>1
  <2> QED
    BY <1>19, <2>2 DEF Branch
<1>23. p.expression.origin.path = keys[m].origin.path
  BY <1>10
<1>24. Leads(result.path, p, change, index)
  BY <1>17, <1>19, <1>21, <1>22, <1>23 DEF Leads
<1> QED
  BY <1>20, <1>24 DEF result

\* display_address of the BitBox02 gives it a path to a key of its own in the descriptor,
\* whatever the descriptor, if in each the first of the device's keys has a wildcard: if
\* only a later one has, the path is that of the first key, without branch or index.
THEOREM DisplayIsOnDescriptor ==
    ASSUME \A policy \in Wallets : FirstRanged(policy)
    PROVE  Spec => []DisplayedOnDescriptor
<1>1. Init => DisplayedOnDescriptor
  BY DEF Init, Silence, DisplayedOnDescriptor
<1>2. IInv /\ DisplayedOnDescriptor /\ [Next]_vars => DisplayedOnDescriptor'
  <2> SUFFICES ASSUME IInv, DisplayedOnDescriptor, [Next]_vars PROVE DisplayedOnDescriptor'
    OBVIOUS
  <2>1. CASE UNCHANGED vars
    BY <2>1 DEF vars, DisplayedOnDescriptor
  <2>2. ASSUME NEW change \in BOOLEAN, NEW index \in Indexed, DisplayMiniscript(change, index)
        PROVE  DisplayedOnDescriptor'
    <3> SUFFICES ASSUME answer'.result.ok, kind' = "BitBox02",
                        OwnKeys(options'.policy) # {}, Separate(options'.policy)
                 PROVE  DisplayedOnDescriptor'
      BY DEF DisplayedOnDescriptor
    <3>1. options' = options /\ kind = "BitBox02"
          /\ answer'.change = change /\ answer'.index = index
      BY <2>2 DEF DisplayMiniscript
    <3>2. options # NoWallet
      BY <2>2 DEF DisplayMiniscript, Refused
    <3>3. options.policy \in Wallets /\ options.policy \in Descriptors
      BY <3>2, WalletClientsAssumption DEF IInv, TypeOK
    <3>4. answer'.result = Keypath(options.policy, Fingerprint, change, index, MaxIndex)
      BY <2>2, <3>1, <3>2 DEF DisplayMiniscript
    <3> DEFINE policy == options.policy
    <3>5. /\ policy \in Descriptors /\ Separate(policy) /\ FirstRanged(policy)
          /\ OwnKeys(policy) # {}
          /\ Keypath(policy, Fingerprint, change, index, MaxIndex).ok
      BY <3>1, <3>3, <3>4
    <3> HIDE DEF policy
    <3>6. \E p \in OwnKeys(policy) :
             Leads(Keypath(policy, Fingerprint, change, index, MaxIndex).path, p, change, index)
      BY <3>5, KeypathOnDescriptor
    <3> QED
      BY <3>1, <3>4, <3>6 DEF DisplayedOnDescriptor, policy
  <2>3. CASE answer'.call # "display_miniscript"
    BY <2>3 DEF DisplayedOnDescriptor
  <2> QED
    BY <2>1, <2>2, <2>3, OtherCalls DEF IsWalletRegistered, DisplayP2tr, ParseDerivation
<1> QED
  BY <1>1, <1>2, Invariance, PTL DEF Spec
=============================================================================
