-------------------------- MODULE MCWalletClients --------------------------
EXTENDS WalletClients

V(a, b, c, pre) == [major |-> a, minor |-> b, patch |-> c, pre |-> pre]

\* On both sides of the least versions the code names; a prerelease, a number that
\* does not fit, no patch, a Coldcard's date before its version.
MCFirmwares ==
    [Ledger |-> {<<V(2, 0, 5, FALSE)>>, <<V(2, 1, Absent, FALSE)>>, <<V(2, 2, 0, TRUE)>>,
                 <<V(3, 0, 1, FALSE)>>},
     Jade |-> {<<V(1, 0, 33, FALSE)>>},
     BitBox02 |-> {<<V(9, 20, 100, FALSE)>>, <<V(10, 0, 0, FALSE)>>},
     Coldcard |-> {<<V(100, 1, 1, FALSE), V(6, 3, 3, TRUE)>>,
                   <<V(100, 7, 1, FALSE), V(6, 2, 4, FALSE), V(7, 0, 0, FALSE)>>}]
ColdcardFirmwares == [Coldcard |-> MCFirmwares["Coldcard"]]

Account(fg, mark) == [fg |-> fg, path |-> <<Hardened(48), Hardened(0)>>, mark |-> mark]
Own(mark) == Expression(Account("fg", mark), "x")
Other == Expression(Account("fh", "h"), "y")
Bare == Expression(NoOrigin, "x")

Policy(pieces, hash) == [pieces |-> pieces, hash |-> hash]
Wrap(pieces) == <<Text("sh(")>> \o pieces \o <<Text(")")>>

Receive == <<Multi(<<Normal(0), Normal(1)>>), Star>>
Recovery == <<Multi(<<Normal(2), Normal(3)>>), Star>>
Pair(own, other) == <<Text("wsh("), Key(other, <<TwoStars>>), Key(own, Receive),
                      Key(own, Recovery), Text(")")>>
Alone(piece) == <<Text("tr("), piece, Text(")")>>

\* One wallet in its spellings; one with the keys swapped, one around another; a
\* wallet whose key is fixed before it has a wildcard; a key with its origin and
\* without.
MCWallets ==
    {Policy(Pair(Own("h"), Other), FALSE), Policy(Pair(Own("'"), Other), TRUE),
     Policy(Pair(Other, Own("h")), FALSE),
     Policy(Wrap(Pair(Own("h"), Other)), FALSE),
     Policy(<<Key(Own("h"), <<Index(Normal(5))>>), Key(Own("h"), <<StarHardened>>)>>, FALSE),
     Policy(<<Key(Bare, Receive), Key(Own("h"), Receive)>>, FALSE)}
\* A wallet as most software writes it: hardened steps with ', no checksum.
QuotedWallets == {Policy(Pair(Own("'"), Other), FALSE)}

Bip86(branch) == <<Hardened(86), Hardened(0), Hardened(0), branch, Normal(7)>>
MCPaths == {Bip86(Normal(0)), Bip86(Normal(1)), Bip86(Normal(2)), Bip86(Hardened(0)),
            SubSeq(Bip86(Normal(0)), 1, 4), [Bip86(Normal(0)) EXCEPT ![1] = Hardened(84)]}

Steps == {Index(Normal(6)), Multi(<<Normal(0), Hardened(1), Normal(2)>>), Multi(<<Normal(4)>>),
          Star, StarHardened, TwoStars, TwoStarsHardened, Garbage, CapitalH}
MCDerivations == BoundedSeq(Steps, 3) \ {<<>>}

\* The wallets are ones that the theorems about EnrolledIsRecognised and
\* DisplayedOnDescriptor speak of; the quoted one is not fit, and not recognised.
ASSUME WalletsFit == \A policy \in MCWallets : Fit(policy)
ASSUME WalletsRanged == \A policy \in MCWallets \union QuotedWallets : FirstRanged(policy)
=============================================================================
