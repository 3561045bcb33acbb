----------------------------- MODULE MCLuaTable -----------------------------
(* Two keys with one main position in every size, and one that collides with   *)
(* the integers.                                                               *)
EXTENDS LuaTable

CONSTANTS k1, k2, k3

MCOther == {k1, k2, k3}
MCHash == (k1 :> 1) @@ (k2 :> 5) @@ (k3 :> 2)
=============================================================================
