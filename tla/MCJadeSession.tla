---------------------------- MODULE MCJadeSession ---------------------------
EXTENDS JadeSession, TLC

CONSTANTS x, y, a, p, w, d, s, t

MCMethod == x :> "get_extended_pubkey" @@ y :> "get_extended_pubkey"
            @@ a :> "display_miniscript" @@ p :> "display_p2tr" @@ w :> "register_wallet"
            @@ d :> "is_wallet_registered" @@ s :> "sign_tx" @@ t :> "sign_tx"
MCPieces == [r \in Requests |-> IF r \in {s, t} THEN 3 ELSE 1]

(* Three requests at once: two whose answers could be taken for each other *)
(* or whose pieces could mix, and a third that comes in between.  The      *)
(* client of a service has no wallet; another may have.                    *)
Session(made, wallet) == [made |-> made, named |-> wallet]
MCSessions ==
    {Session({x, y, a, p}, TRUE), Session({x, a, s}, TRUE), Session({a, d, w}, TRUE),
     Session({x, a, w}, FALSE), Session({x, s, t}, FALSE), Session({d, s, t}, FALSE)}
TwoKeys == {Session({x, y, w}, FALSE)}
=============================================================================
