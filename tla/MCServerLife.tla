---------------------------- MODULE MCServerLife ----------------------------
EXTENDS ServerLife, TLC

CONSTANTS r1, r2, r3, token

(* r1 and r2 come to the server of schedules and share a carrier's token;    *)
(* r3 comes to the server of voyages and is answered from the database.      *)
MCAsks == (r1 :> {token}) @@ (r2 :> {token}) @@ (r3 :> {})
MCServerOf == (r1 :> 1) @@ (r2 :> 1) @@ (r3 :> 2)
=============================================================================
