--------------------------- MODULE MCHwiRegistry ---------------------------
EXTENDS HwiRegistry, TLC

CONSTANTS bb, cc, ld, ls, jd, sp, ss

MCIds == {bb, cc, ld, ls, jd, sp, ss}
MCKindOf == bb :> "bitbox" @@ cc :> "coldcard" @@ ld :> "ledger" @@ jd :> "jade"
            @@ sp :> "specter" @@ ls :> "ledger-simulator" @@ ss :> "specter-simulator"

World(times, n) ==
    [plugs |-> [i \in MCIds |-> IF i \in DOMAIN times THEN times[i] ELSE 0],
     faults |-> n]

(* Every kind is plugged in twice in some world, alone or with what shares *)
(* its handler's prefix; faults strike where they are cheap to explore.    *)
BitboxWorld == World(bb :> 2, 1)
ColdcardWorld == World(cc :> 2, 1)
JadeWorld == World(jd :> 2, 0)
JadeFaultWorld == World(jd :> 1, 1)
LedgerWorld == World(ld :> 2, 1)
LedgersWorld == World(ld :> 1 @@ ls :> 1, 0)
SpectersWorld == World(sp :> 1 @@ ss :> 1, 0)
SpecterFaultWorld == World(sp :> 1, 1)
SimulatorFaultWorld == World(ss :> 1, 1)

AllWorlds == {BitboxWorld, ColdcardWorld, JadeWorld, JadeFaultWorld, LedgerWorld,
              LedgersWorld, SpectersWorld, SpecterFaultWorld, SimulatorFaultWorld}
OnlyColdcard == {ColdcardWorld}
OnlyJade == {JadeFaultWorld}
OnlyLedger == {LedgerWorld}
=============================================================================
