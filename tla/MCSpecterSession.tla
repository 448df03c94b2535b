-------------------------- MODULE MCSpecterSession -------------------------
EXTENDS SpecterSession, TLC

CONSTANTS key1, key2, reg, sig

MCMethod == key1 :> "get_extended_pubkey" @@ key2 :> "get_extended_pubkey"
            @@ reg :> "register_wallet" @@ sig :> "sign_tx"

(* Two requests for keys, whose answers could be taken for each other, and *)
(* requests of other kinds between them.                                   *)
MCSessions == {{key1, key2, sig}, {key1, reg}}
=============================================================================
