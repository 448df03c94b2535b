--------------------------- MODULE MCPsbtSigning ---------------------------
EXTENDS PsbtSigning, TLC

CONSTANTS cc, sp, ld,
          a1, a2, a3, b1, b2, b3, as, bs, al, bl, tc, tl

(* Inputs 1 and 2 pay to one descriptor, where the Coldcard is on three      *)
(* spending paths; input 3 is taproot, with the Coldcard's internal key.     *)
MCInputs == 1..3
MCKeys == {a1, a2, a3, b1, b2, b3, as, bs, al, bl, tc, tl}
MCSigners == {cc, sp, ld}
MCKind == cc :> "coldcard" @@ sp :> "specter" @@ ld :> "ledger"
MCFg == [k \in MCKeys |-> IF k \in {as, bs} THEN sp ELSE IF k \in {al, bl, tl} THEN ld ELSE cc]

\* Within an input the paths are in the order of the spending paths.
MCSpending == a1 :> 1 @@ b1 :> 1 @@ a2 :> 2 @@ b2 :> 2 @@ a3 :> 3 @@ b3 :> 3
              @@ as :> 1 @@ bs :> 1 @@ al :> 1 @@ bl :> 1 @@ tc :> 0 @@ tl :> 0
MCPath == [k \in MCKeys |-> 10 * MCSpending[k] + IF k \in {b1, b2, b3, bs, bl} THEN 1 ELSE 0]

MCDerivations == <<{a1, a2, a3, as, al}, {b1, b2, b3, bs, bl}, {}>>
MCOrigins == <<{}, {}, {tc, tl}>>
MCInternal == <<NoKey, NoKey, tc>>

\* The Coldcard uses up its keys, or signs beside another device.
MCPlans == {[ask |-> {cc, sp}, times |-> 3], [ask |-> {cc, ld}, times |-> 3]}

\* The transaction is one that the theorem about OneSpendingPath speaks of.
ASSUME OneWallet == OneDescriptor
=============================================================================
