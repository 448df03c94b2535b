---------------------------- MODULE PsbtSigning ----------------------------
(***************************************************************************)
(* A PSBT that several devices sign, some of them in several rounds.  The  *)
(* consumer signs it in place through a Bip32DerivationFilter, or sends a  *)
(* copy to a SupportedDevice and merges the copy that comes back.          *)
(*                                                                         *)
(* A device holds many keys of one input under one fingerprint, one for    *)
(* each spending path.  Some devices sign an input with one key a round;   *)
(* the filter decides which keys they are shown.                           *)
(***************************************************************************)
EXTENDS Integers, FiniteSets

CONSTANTS
    Inputs,       \* the inputs of the transaction
    Keys,         \* the keys of all devices, in all inputs
    Signers,      \* the devices, named by their fingerprints
    Kind,         \* the kind of each device
    Fg,           \* the device of each key
    Path,         \* the order of the keys' derivation paths
    Spending,     \* the spending path each key belongs to
    Derivations,  \* of each input, the keys in its bip32_derivation
    Origins,      \* and those in its tap_key_origins
    Internal,     \* the internal key of a taproot input, or NoKey
    Copies,       \* bound: requests to SupportedDevices at once
    Plans         \* bounds: in each, the devices asked to sign and how often they are

Kinds == {"coldcard", "bitbox", "ledger", "jade", "specter"}
NoKey == "no key"
NoOne == "no one"
KeysOf(s) == {k \in Keys : Fg[k] = s}

ASSUME SignersType == Kind \in [Signers -> Kinds] /\ Fg \in [Keys -> Signers]
ASSUME PathsType == Path \in [Keys -> Int] /\ Spending \in [Keys -> Int]
ASSUME InputsType ==
    /\ Derivations \in [Inputs -> SUBSET Keys] /\ Origins \in [Inputs -> SUBSET Keys]
    /\ Internal \in [Inputs -> Keys \union {NoKey}]
    /\ NoKey \notin Keys
\* A PSBT is finite, and an input is taproot or it is not.
ASSUME KeysFinite == IsFiniteSet(Keys)
ASSUME TaprootOrNot == \A i \in Inputs : Derivations[i] = {} \/ Origins[i] = {}
ASSUME CopiesType == Copies \subseteq Nat
ASSUME PlansType == Plans \subseteq [ask : SUBSET Signers, times : Nat]

VARIABLES
    psbt,    \* the consumer's PSBT
    round,   \* the call of sign_psbt in progress: its filter, what the filter has ignored
    copy,    \* the requests to SupportedDevices, each with its own PSBT
    plan,    \* who may be asked to sign, and how many times yet
    failed,  \* a call of sign_psbt has returned an error
    given,   \* the keys devices have signed each input with, in calls that succeeded
    rounds   \* how often sign_psbt succeeded on each device, through the documented filter

vars == <<psbt, round, copy, plan, failed, given, rounds>>

Filters == {"none", "signed", "same", "signed then same", "same then signed"}
Documented == "signed then same"

InputOf(i) == [deriv |-> Derivations[i], partial |-> {}, leaf |-> {}, keysig |-> NoKey]
Unsigned == [i \in Inputs |-> InputOf(i)]
NoRound == [pc |-> "none", by |-> NoOne, filter |-> "none", ignored |-> [i \in Inputs |-> {}]]
NoCopy == [pc |-> "free", by |-> NoOne, psbt |-> Unsigned]

\* The keys an input bears signatures of.
SignedBy(input) == input.partial \union input.leaf \union ({input.keysig} \ {NoKey})

Init ==
    /\ psbt = Unsigned
    /\ round = NoRound
    /\ copy = [c \in Copies |-> NoCopy]
    /\ plan \in Plans
    /\ failed = FALSE
    /\ given = [i \in Inputs |-> {}]
    /\ rounds = [s \in Signers |-> 0]

-----------------------------------------------------------------------------
\* Bip32DerivationFilter

\* Mutant of Weaker: only the last of a device's derivations is ignored.
Weakest(d) == {k \in d : /\ \E l \in d : Fg[k] = Fg[l] /\ Path[k] < Path[l]
                         /\ \A l \in d : Fg[k] = Fg[l] => Path[k] <= Path[l]}

\* Of the derivations of one device the first in priority_order is kept: the
\* sort puts the last path first.
Weaker(d) == {k \in d : \E l \in d : Fg[k] = Fg[l] /\ Path[k] < Path[l]}

\* ignore_same_fg_bip32_derivations and ignore_signed_key_derivation.
WithoutSame(d) == d \ Weaker(d)
WithoutSigned(d, input) == d \ input.partial

\* Mutant of Filtered: the two filters in the wrong order.
FilteredReversed(f, input) ==
    LET d == input.deriv IN
    CASE f = "none" -> d
      [] f = "signed" -> WithoutSigned(d, input)
      [] f = "same" -> WithoutSame(d)
      [] f = "signed then same" -> WithoutSigned(WithoutSame(d), input)
      [] f = "same then signed" -> WithoutSame(WithoutSigned(d, input))

\* What the filters, called in this order, leave of an input's bip32_derivation.
Filtered(f, input) ==
    LET d == input.deriv IN
    CASE f = "none" -> d
      [] f = "signed" -> WithoutSigned(d, input)
      [] f = "same" -> WithoutSame(d)
      [] f = "signed then same" -> WithoutSame(WithoutSigned(d, input))
      [] f = "same then signed" -> WithoutSigned(WithoutSame(d), input)

-----------------------------------------------------------------------------
\* The devices and their clients

OneKeyAnInput(s) == Kind[s] \in {"coldcard", "bitbox"}

\* The keys of the input the device finds in what it is shown.
Matching(s, p, i) == {k \in p[i].deriv \union Origins[i] : Fg[k] = s}

\* The keys each input is signed with: one of those that match, or all.
Choices(s, p, i) ==
    IF OneKeyAnInput(s) /\ Matching(s, p, i) # {} THEN {{k} : k \in Matching(s, p, i)}
    ELSE {Matching(s, p, i)}
Answers(s, p) == {a \in [Inputs -> UNION {Choices(s, p, i) : i \in Inputs}] :
                    \A i \in Inputs : a[i] \in Choices(s, p, i)}

\* The client of a Specter returns an error if nothing was signed.
Accepted(s, a) == Kind[s] = "specter" => \E i \in Inputs : a[i] # {}

\* The PSBT a device returns: its signatures and nothing else.
Returned(a) ==
    [i \in Inputs |->
        [deriv |-> {}, partial |-> a[i] \ Origins[i],
         leaf |-> (a[i] \intersect Origins[i]) \ {Internal[i]},
         keysig |-> IF Internal[i] \in a[i] THEN Internal[i] ELSE NoKey]]

\* Mutant of Merged: the signatures replace the ones that were there.
MergedOver(p, q) ==
    [i \in Inputs |->
        [p[i] EXCEPT !.partial = IF q[i].partial = {} THEN @ ELSE q[i].partial,
                     !.leaf = @ \union q[i].leaf,
                     !.keysig = IF q[i].keysig # NoKey THEN q[i].keysig ELSE @]]

\* merge_signatures, and what the clients do in their own words.
Merged(p, q) ==
    [i \in Inputs |->
        [p[i] EXCEPT !.partial = @ \union q[i].partial,
                     !.leaf = @ \union q[i].leaf,
                     !.keysig = IF q[i].keysig # NoKey THEN q[i].keysig ELSE @]]

\* The answers of which only some inputs have come in.
Parts(s, p) == {a \in [Inputs -> UNION {Choices(s, p, i) \union {{}} : i \in Inputs}] :
                    \A i \in Inputs : a[i] \in Choices(s, p, i) \union {{}}}

\* What is left in the PSBT when sign_tx fails: a Ledger's signatures are put in
\* one after another until one is for an input there is not.
Leftovers(s, p) ==
    {p} \union IF Kind[s] = "ledger" THEN {Merged(p, Returned(a)) : a \in Parts(s, p)} ELSE {}

-----------------------------------------------------------------------------
\* In place

Begin(s, f) ==
    /\ round.pc = "none"
    /\ s \in plan.ask /\ plan.times > 0
    /\ plan' = [plan EXCEPT !.times = @ - 1]
    /\ LET kept == [i \in Inputs |-> Filtered(f, psbt[i])] IN
       /\ psbt' = [i \in Inputs |-> [psbt[i] EXCEPT !.deriv = kept[i]]]
       /\ round' = [pc |-> "device", by |-> s, filter |-> f,
                    ignored |-> [i \in Inputs |-> psbt[i].deriv \ kept[i]]]
    /\ UNCHANGED <<copy, failed, given, rounds>>

\* Mutant of SignPsbt: the ignored derivations take the place of the others.
SignPsbtSwaps ==
    /\ round.pc = "device"
    /\ \E a \in Answers(round.by, psbt) :
          /\ Accepted(round.by, a)
          /\ psbt' = [i \in Inputs |->
                        [Merged(psbt, Returned(a))[i] EXCEPT
                            !.deriv = IF round.ignored[i] = {} THEN @ ELSE round.ignored[i]]]
          /\ given' = [i \in Inputs |-> given[i] \union a[i]]
    /\ rounds' = [rounds EXCEPT ![round.by] = IF round.filter = Documented THEN @ + 1 ELSE @]
    /\ round' = NoRound
    /\ UNCHANGED <<copy, plan, failed>>

\* sign_psbt succeeds: the signatures are in and the ignored derivations back.
SignPsbt ==
    /\ round.pc = "device"
    /\ \E a \in Answers(round.by, psbt) :
          /\ Accepted(round.by, a)
          /\ psbt' = [i \in Inputs |-> [Merged(psbt, Returned(a))[i] EXCEPT
                                           !.deriv = @ \union round.ignored[i]]]
          /\ given' = [i \in Inputs |-> given[i] \union a[i]]
    /\ rounds' = [rounds EXCEPT ![round.by] = IF round.filter = Documented THEN @ + 1 ELSE @]
    /\ round' = NoRound
    /\ UNCHANGED <<copy, plan, failed>>

\* It fails, and returns before anything is put back.
SignPsbtFails ==
    /\ round.pc = "device"
    /\ psbt' \in Leftovers(round.by, psbt)
    /\ failed' = TRUE
    /\ round' = NoRound
    /\ UNCHANGED <<copy, plan, given, rounds>>

-----------------------------------------------------------------------------
\* By copies

\* SupportedDevice::sign_tx: the task has a PSBT of its own.
Request(c, s) ==
    /\ round.pc = "none"
    /\ s \in plan.ask /\ plan.times > 0
    /\ copy[c].pc = "free" /\ \A d \in Copies : copy[d].pc = "free" => c <= d
    /\ plan' = [plan EXCEPT !.times = @ - 1]
    /\ copy' = [copy EXCEPT ![c] = [pc |-> "device", by |-> s, psbt |-> psbt]]
    /\ UNCHANGED <<psbt, round, failed, given, rounds>>

\* TransactionSigned is sent, with the signed copy.
CopySigned(c) ==
    /\ copy[c].pc = "device"
    /\ \E a \in Answers(copy[c].by, copy[c].psbt) :
          /\ Accepted(copy[c].by, a)
          /\ copy' = [copy EXCEPT ![c].pc = "message", ![c].psbt = Merged(@, Returned(a))]
          /\ given' = [i \in Inputs |-> given[i] \union a[i]]
    /\ UNCHANGED <<psbt, round, plan, failed, rounds>>

\* Mutant of CopyFails: the consumer is sent the copy all the same.
CopyFailsKept(c) ==
    /\ copy[c].pc = "device"
    /\ copy' = [copy EXCEPT ![c] = [NoCopy EXCEPT !.pc = "message"]]
    /\ UNCHANGED <<psbt, round, plan, failed, given, rounds>>

\* Error is sent, and the copy dropped with whatever is in it.
CopyFails(c) ==
    /\ copy[c].pc = "device"
    /\ copy' = [copy EXCEPT ![c] = NoCopy]
    /\ UNCHANGED <<psbt, round, plan, failed, given, rounds>>

\* The consumer merges what it receives into its own PSBT.
Receive(c) ==
    /\ round.pc = "none"
    /\ copy[c].pc = "message"
    /\ psbt' = Merged(psbt, copy[c].psbt)
    /\ copy' = [copy EXCEPT ![c] = NoCopy]
    /\ UNCHANGED <<round, plan, failed, given, rounds>>

-----------------------------------------------------------------------------
Next ==
    \/ \E s \in Signers, f \in Filters : Begin(s, f)
    \/ SignPsbt
    \/ SignPsbtFails
    \/ \E c \in Copies :
          \/ \E s \in Signers : Request(c, s)
          \/ CopySigned(c)
          \/ CopyFails(c)
          \/ Receive(c)

Spec == Init /\ [][Next]_vars

-----------------------------------------------------------------------------
\* Properties

InputRecords == [deriv : SUBSET Keys, partial : SUBSET Keys, leaf : SUBSET Keys,
                 keysig : Keys \union {NoKey}]
Psbts == [Inputs -> InputRecords]

\* The types; a filter ignores only what it has found in the PSBT.
TypeOK ==
    /\ psbt \in Psbts
    /\ round \in [pc : {"none", "device"}, by : Signers \union {NoOne}, filter : Filters,
                  ignored : [Inputs -> SUBSET Keys]]
    /\ round.pc = "device" => round.by \in Signers
    /\ copy \in [Copies -> [pc : {"free", "device", "message"}, by : Signers \union {NoOne},
                            psbt : Psbts]]
    /\ \A c \in Copies : copy[c].pc # "free" => copy[c].by \in Signers
    /\ plan \in [ask : SUBSET Signers, times : Nat]
    /\ failed \in BOOLEAN
    /\ given \in [Inputs -> SUBSET Keys]
    /\ rounds \in [Signers -> Nat]

\* What a device has signed is in the consumer's PSBT or in a message to the
\* consumer, however in-place rounds and copies made before or after them overlap.
NoSignatureLost ==
    \A i \in Inputs : \A k \in given[i] :
        \/ k \in SignedBy(psbt[i])
        \/ \E c \in Copies : copy[c].pc = "message" /\ k \in SignedBy(copy[c].psbt[i])

\* As long as no round has failed, the derivations are those the PSBT came with,
\* after any filters in any order, and in every copy sent to a device.
DerivationsKept ==
    ~failed =>
        /\ \A i \in Inputs : psbt[i].deriv \union round.ignored[i] = Derivations[i]
        /\ \A c \in Copies : \A i \in Inputs : copy[c].psbt[i].deriv = Derivations[i]

\* The keys of a device that an input pays to, by their derivations.
Own(s, i) == Derivations[i] \intersect KeysOf(s)

\* Through both filters every round signs with one key more, until all are used:
\* n rounds with a device give n of its signatures, in every input.
EachRoundSigns ==
    ~failed => \A s \in Signers : \A i \in Inputs :
        \/ Own(s, i) \subseteq psbt[i].partial
        \/ Cardinality(psbt[i].partial \intersect KeysOf(s)) >= rounds[s]

\* The inputs pay to one descriptor: in all of them a device is on the same spending
\* paths, with one key on each, and the derivation paths of these are in one order.
OneDescriptor ==
    \A s \in Signers :
        /\ \A i \in Inputs : \A k, l \in Own(s, i) :
              k # l => Spending[k] # Spending[l] /\ Path[k] # Path[l]
        /\ \A i, j \in Inputs : Derivations[i] # {} /\ Derivations[j] # {} =>
              /\ \A k \in Own(s, i) : \E m \in Own(s, j) : Spending[m] = Spending[k]
              /\ \A k, l \in Own(s, i), m, n \in Own(s, j) :
                    Spending[m] = Spending[k] /\ Spending[n] = Spending[l] =>
                        (Path[k] < Path[l] <=> Path[m] < Path[n])

\* The spending paths a device has signed in an input.
Signed(p, s, i) == {Spending[k] : k \in p[i].partial \intersect KeysOf(s)}
Alike(p, s) == \A i, j \in Inputs :
                  Derivations[i] # {} /\ Derivations[j] # {} => Signed(p, s, i) = Signed(p, s, j)

\* A device that signs with one key an input, through both filters, takes the
\* same spending path in all inputs, if so far it did.
OneSpendingPath ==
    [][SignPsbt /\ round.filter = Documented /\ ~failed /\ Alike(psbt, round.by)
          => Alike(psbt', round.by)]_vars
=============================================================================
