--------------------------- MODULE MCResponseCache ---------------------------
EXTENDS ResponseCache, TLC

CONSTANTS r1, r2, token, schedule

(* Two requests that share a carrier's token; the first also asks for a      *)
(* schedule.                                                                 *)
MCAsks == (r1 :> {token, schedule}) @@ (r2 :> {token})
=============================================================================
