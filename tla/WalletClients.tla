--------------------------- MODULE WalletClients ---------------------------
(***************************************************************************)
(* What the clients of the Ledger, the Jade, the BitBox02 and the Coldcard *)
(* make of a wallet policy: they enroll it, tell whether it is enrolled,   *)
(* and have its addresses displayed, on a device whose owner accepts or    *)
(* refuses and whose firmware gets newer.  There is one device; its client *)
(* is used by one caller, and may be given a wallet to work with.          *)
(***************************************************************************)
EXTENDS Versions, Policies

CONSTANTS
    Devices,        \* the kinds of devices looked at
    Firmwares,      \* what the firmware of each may report: sequences of lines
    Names,          \* names of wallets
    Wallets,        \* descriptors
    Paths,          \* paths asked for as BIP86
    Derivations,    \* derivations given to parse_xkey_deriv
    Memory,         \* the bound on the wallets a device keeps
    Indexed,        \* indexes of addresses
    MaxIndex,       \* the last index there is
    Fingerprint     \* of the device

ASSUME WalletClientsAssumption ==
    /\ Devices \subseteq {"Ledger", "Jade", "BitBox02", "Coldcard"}
    /\ Firmwares \in [Devices -> SUBSET Seq(Captures)]
    /\ Wallets \subseteq Descriptors
    /\ Paths \subseteq Seq(Children) /\ Derivations \subseteq Seq(StepSet) \ {<<>>}
    /\ {Memory, MaxIndex} \subseteq Nat

VARIABLES
    kind,       \* of the device
    firmware,   \* what it reports as its version
    device,     \* the wallets its owner has accepted
    waiting,    \* the wallets a Coldcard shows and its owner has yet to accept
    options,    \* the wallet the client was built with
    answer      \* the last call, and what it returned

vars == <<kind, firmware, device, waiting, options, answer>>

NoWallet == [name |-> "none", policy |-> [pieces |-> <<>>, hash |-> FALSE], hmac |-> FALSE]
Entry(name, policy) == [name |-> name, policy |-> policy]
Entries == [name : Names, policy : Wallets]
Silence == [call |-> "none"]

-----------------------------------------------------------------------------
\* get_version: the only line, or for a Coldcard the first that is a version.
GetVersion(lines) ==
    LET versions == {i \in DOMAIN lines : ParseVersion(lines[i]) # NoVersion}
    IN IF versions = {} THEN NoVersion ELSE ParseVersion(lines[Min(versions)])

\* A Coldcard writes every hardened step with h.
WithH(pieces) ==
    [i \in DOMAIN pieces |->
        IF pieces[i].is = "key" /\ pieces[i].expression.origin.mark = "'"
        THEN [pieces[i] EXCEPT !.expression.origin.mark = "h"] ELSE pieces[i]]

\* Mutant of Searched: the checksum is searched for, too.
SearchedWhole(policy) ==
    IF policy.hash THEN Append(WithH(policy.pieces), Text("#")) ELSE policy.pieces

\* What is_wallet_registered of the Coldcard searches for: the policy is rewritten
\* on the way to being split at its checksum, and only then.
Searched(policy) == IF policy.hash THEN WithH(policy.pieces) ELSE policy.pieces

\* Mutant of Recognised: the keys of a wallet are not compared.
RecognisedByTemplate(name, policy) ==
    CASE kind = "Ledger" ->
            /\ options # NoWallet /\ options.hmac /\ name = options.name
            /\ Structured(policy).template = Structured(options.policy).template
      [] kind = "Jade" -> \E w \in device : name = w.name
      [] kind = "BitBox02" -> \E w \in device : Structured(w.policy) = Structured(policy)
      [] kind = "Coldcard" -> \E w \in device : w.name = name

\* is_wallet_registered.  The Ledger compares with the wallet of its client, the
\* others with what the device keeps; the BitBox02 does not look at the name.
Recognised(name, policy) ==
    CASE kind = "Ledger" ->
            /\ options # NoWallet /\ options.hmac /\ name = options.name
            /\ Structured(policy) = Structured(options.policy)
      [] kind = "Jade" ->
            \E w \in device :
                /\ w.name = name
                /\ ExtractKeysAndTemplate(w.policy) = ExtractKeysAndTemplate(policy)
      [] kind = "BitBox02" -> \E w \in device : Structured(w.policy) = Structured(policy)
      [] kind = "Coldcard" ->
            \E w \in device :
                w.name = name /\ Searched(policy) \in SubSeqs(WithH(w.policy.pieces))

IsWalletRegistered(name, policy) ==
    /\ answer' = [call |-> "is_wallet_registered", name |-> name, policy |-> policy,
                  result |-> Recognised(name, policy)]
    /\ UNCHANGED <<kind, firmware, device, waiting, options>>

-----------------------------------------------------------------------------
\* A device keeps one wallet of a name, a BitBox02 one of a content.
Enrolled(name, policy) ==
    {w \in device : w.name # name \/ kind \in {"Ledger", "BitBox02"}} \union {Entry(name, policy)}

Room(name, policy) == Cardinality(Enrolled(name, policy)) <= Memory

Registered == [call |-> "register_wallet", ok |-> TRUE]
NotRegistered == [call |-> "register_wallet", ok |-> FALSE]

\* register_wallet of the Ledger, which returns an hmac, and of the Jade: the owner
\* has accepted when it returns.
Register(name, policy) ==
    /\ kind \in {"Ledger", "Jade"}
    /\ Room(name, policy)
    /\ device' = Enrolled(name, policy)
    /\ answer' = Registered
    /\ UNCHANGED <<kind, firmware, waiting, options>>

\* register_wallet of the BitBox02 asks first, and leaves a wallet that is known alone.
RegisterBitBox02(name, policy) ==
    /\ kind = "BitBox02"
    /\ Room(name, policy)
    /\ device' = IF Recognised(name, policy) THEN device ELSE Enrolled(name, policy)
    /\ answer' = Registered
    /\ UNCHANGED <<kind, firmware, waiting, options>>

\* register_wallet of the Coldcard returns when the file has arrived.
RegisterColdcard(name, policy) ==
    /\ kind = "Coldcard"
    /\ Room(name, policy)
    /\ waiting' = {Entry(name, policy)}
    /\ answer' = Registered
    /\ UNCHANGED <<kind, firmware, device, options>>

\* register_wallet, where the owner refuses, or the device fails.
RegisterRefused(name, policy) ==
    /\ kind = "BitBox02" => ~Recognised(name, policy)
    /\ answer' = NotRegistered
    /\ UNCHANGED <<kind, firmware, device, waiting, options>>

\* The owner of a Coldcard accepts or refuses what it shows.
Decide ==
    \E w \in waiting :
        /\ waiting' = {}
        /\ device' \in {device, Enrolled(w.name, w.policy)}
        /\ answer' = Silence
        /\ UNCHANGED <<kind, firmware, options>>

\* Mutant of WithWallet: any registration of the name will do for the hmac.
WithWalletOfName(name, policy) ==
    /\ options' = [name |-> name, policy |-> policy,
                   hmac |-> kind = "Ledger" /\ \E w \in device : w.name = name]
    /\ answer' = Silence
    /\ UNCHANGED <<kind, firmware, device, waiting>>

\* with_wallet, with_policy or with_wallet_name: the caller passes the hmac of the
\* wallet if a registration returned it.
WithWallet(name, policy) ==
    /\ options' = [name |-> name, policy |-> policy,
                   hmac |-> kind = "Ledger" /\ Entry(name, policy) \in device]
    /\ answer' = Silence
    /\ UNCHANGED <<kind, firmware, device, waiting>>

-----------------------------------------------------------------------------
\* Mutant of LedgerShows: the Ledger is not kept from other branches.
LedgerShowsAny(path) ==
    IF IsBip86(path)
    THEN SubSeq(path, 1, 3) \o <<Normal(IF path[4] = Normal(1) THEN 1 ELSE 0), path[5]>>
    ELSE <<>>

\* The Ledger shows the branch 0 or 1 of a policy, of which the key is the account's.
LedgerShows(path) ==
    IF IsBip86(path) /\ path[4] \in {Normal(0), Normal(1)}
    THEN SubSeq(path, 1, 3) \o <<Normal(IF path[4] = Normal(1) THEN 1 ELSE 0), path[5]>>
    ELSE <<>>

\* display_address of a P2TR address, an error if nothing is shown.  The BitBox02 is
\* given the path; the Jade and the Coldcard do not implement it.
DisplayP2tr(path) ==
    /\ answer' = [call |-> "display_p2tr", asked |-> path,
                  shown |-> CASE kind = "BitBox02" -> path
                              [] kind = "Ledger" -> LedgerShows(path)
                              [] OTHER -> <<>>]
    /\ UNCHANGED <<kind, firmware, device, waiting, options>>

\* display_address of an address of the client's wallet: the BitBox02 is given the
\* path to a key, the others branch and index.
DisplayMiniscript(change, index) ==
    /\ answer' = [call |-> "display_miniscript", change |-> change, index |-> index,
                  result |-> IF options = NoWallet THEN Refused
                             ELSE IF kind = "BitBox02"
                             THEN Keypath(options.policy, Fingerprint, change, index, MaxIndex)
                             ELSE [ok |-> TRUE, path |-> <<Normal(IF change THEN 1 ELSE 0),
                                                           Normal(index)>>]]
    /\ UNCHANGED <<kind, firmware, device, waiting, options>>

\* The bound on the next two actions: neither reads or writes anything of a wallet,
\* so one state of the wallets is enough to see them from.
Fresh == device = {} /\ waiting = {} /\ options = NoWallet /\ answer = Silence

\* parse_xkey_deriv, called with any derivation.
ParseDerivation(steps) ==
    /\ Fresh
    /\ answer' = [call |-> "parse_xkey_deriv", steps |-> steps, result |-> ParseXkeyDeriv(steps)]
    /\ UNCHANGED <<kind, firmware, device, waiting, options>>

\* The owner installs another firmware.
Flash(other) ==
    /\ Fresh
    /\ firmware' = other
    /\ answer' = Silence
    /\ UNCHANGED <<kind, device, waiting, options>>

-----------------------------------------------------------------------------
Init ==
    /\ kind \in Devices /\ firmware \in Firmwares[kind]
    /\ device = {} /\ waiting = {}
    /\ options = NoWallet
    /\ answer = Silence

Next ==
    \/ \E name \in Names, policy \in Wallets :
          \/ Register(name, policy)
          \/ RegisterBitBox02(name, policy)
          \/ RegisterColdcard(name, policy)
          \/ RegisterRefused(name, policy)
          \/ IsWalletRegistered(name, policy)
          \/ WithWallet(name, policy)
    \/ Decide
    \/ \E path \in Paths : DisplayP2tr(path)
    \/ \E change \in BOOLEAN, index \in Indexed : DisplayMiniscript(change, index)
    \/ \E steps \in Derivations : ParseDerivation(steps)
    \/ \E other \in Firmwares[kind] : Flash(other)

Spec == Init /\ [][Next]_vars

-----------------------------------------------------------------------------
\* The variables have their types: what a device keeps is what was enrolled, and a
\* client with an hmac has one the device gave out (Ledger::with_wallet).
TypeOK ==
    /\ kind \in Devices /\ firmware \in Firmwares[kind]
    /\ device \subseteq Entries /\ waiting \subseteq Entries
    /\ Cardinality(waiting) <= 1 /\ (waiting # {} => kind = "Coldcard")
    /\ options # NoWallet => options.name \in Names /\ options.policy \in Wallets
    /\ options.hmac => Entry(options.name, options.policy) \in device

Marked(policy) == [policy EXCEPT !.hash = FALSE]
Unmarked(policy) ==
    [i \in DOMAIN policy.pieces |->
        LET p == policy.pieces[i]
        IN IF p.is = "key" THEN [p EXCEPT !.expression = Parsed(@)] ELSE p]

\* is_wallet_registered recognises a wallet: asked about a name and a descriptor it
\* holds, with the checksum or without, the client answers true.  It is about the
\* clients' conversions of the descriptor, on its way to the device and when it is
\* compared; the Ledger's client has to be built with the wallet.
EnrolledIsRecognised ==
    answer.call = "is_wallet_registered" =>
        \A w \in (IF kind = "Ledger" THEN {e \in device : /\ options.hmac
                                                          /\ e = Entry(options.name, options.policy)}
                  ELSE device) :
            w.name = answer.name /\ Marked(w.policy) = Marked(answer.policy) => answer.result

\* A descriptor is fit for a Coldcard if it has a checksum or hardened steps with h.
Fit(policy) == ~policy.hash => WithH(policy.pieces) = policy.pieces

\* is_wallet_registered answers true only for a wallet the owner accepted under this
\* name, the same up to its checksum and how hardened steps are written.  A BitBox02
\* does not compare names, a Coldcard may hold a descriptor around the one asked for.
RecognisedWasEnrolled ==
    answer.call = "is_wallet_registered" /\ answer.result =>
        \E w \in device :
            /\ kind # "BitBox02" => w.name = answer.name
            /\ IF kind = "Coldcard" THEN Unmarked(answer.policy) \in SubSeqs(Unmarked(w.policy))
               ELSE Unmarked(answer.policy) = Unmarked(w.policy)

OwnKeys(policy) == {p \in ToSet(policy.pieces) : /\ p.is = "key"
                                                 /\ p.expression.origin.fg = Fingerprint
                                                 /\ p.steps # <<>> /\ IsWildcard(Last(p.steps))}

\* No key stands in the descriptor both with and without its origin, and there are at
\* most ten: the template shows each of them under its own number.
Separate(policy) ==
    LET keys == KeysOf(policy.pieces)
    IN /\ Len(keys) <= 10
       /\ \A i, j \in DOMAIN keys : keys[i].xpub = keys[j].xpub => i = j

\* Of the device's keys, the first the descriptor names has a wildcard somewhere.
FirstRanged(policy) ==
    LET keys == KeysOf(policy.pieces)
        own == {k \in DOMAIN keys : keys[k].origin.fg = Fingerprint}
    IN own # {} => \E p \in OwnKeys(policy) : p.expression = keys[Min(own)]

\* A path leads to the key of a piece, by the branch and the index of an address.
Leads(path, p, change, index) ==
    LET paths == Meaning(p.steps)
        branch == IF paths = <<>> THEN <<>>
                  ELSE paths[IF change /\ Len(paths) > 1 THEN 2 ELSE 1]
    IN /\ WellFormed(p.steps)
       /\ path = p.expression.origin.path \o branch
                 \o <<Child(index, IsHardened(Last(p.steps)))>>

\* The path a BitBox02 is given for an address leads to a key of its own in the
\* descriptor, by the branch and the index that were asked for (bitbox.rs
\* display_address): what the owner compares is an address of this wallet.
DisplayedOnDescriptor ==
    /\ answer.call = "display_miniscript" /\ answer.result.ok /\ kind = "BitBox02"
    /\ OwnKeys(options.policy) # {} /\ Separate(options.policy)
    => \E p \in OwnKeys(options.policy) :
          Leads(answer.result.path, p, answer.change, answer.index)

\* A P2TR address that is displayed is the one of the path asked for: the Ledger's
\* detour by a policy and a branch ends at the same key (ledger.rs display_address).
DisplayedAsAsked ==
    answer.call = "display_p2tr" => answer.shown \in {<<>>, answer.asked}

\* parse_xkey_deriv accepts what BIP389 allows, less the H for a hardened index that the
\* comment in it names (5H, bip389.rs line 42), and takes "**" and "**h" for a list and a
\* wildcard; it returns the paths BIP389 says, in order, and the wildcard at the end.
DerivationMeansBip389 ==
    answer.call = "parse_xkey_deriv" =>
        /\ answer.result.ok <=> Readable(answer.steps)
        /\ answer.result.ok => /\ answer.result.paths = Meaning(answer.steps)
                               /\ answer.result.wildcard = Ending(answer.steps)

Supported(lines) ==
    LET v == GetVersion(lines)
    IN [listed |-> kind = "Ledger" => LedgerVersionSupported(v),
        tapminiscript |-> IsCompatible(kind, v)]

\* A firmware of a later version does all that the one before did: no upgrade makes a
\* Ledger unsupported or a device incompatible with tapminiscript, and a Ledger that
\* is compatible with it is listed (service.rs is_compatible_with_tapminiscript).
UpgradeKeepsSupport ==
    [][LET v == GetVersion(firmware)
           w == GetVersion(firmware')
       IN v # NoVersion /\ w # NoVersion /\ Later(v, w) =>
              /\ Supported(firmware).listed => Supported(firmware').listed
              /\ Supported(firmware).tapminiscript =>
                     Supported(firmware').tapminiscript /\ Supported(firmware').listed]_vars
=============================================================================
