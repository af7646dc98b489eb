----------------------------- MODULE MCHttpFetch -----------------------------
(* HttpFetch with the production number of retries. *)
EXTENDS HttpFetch
=============================================================================
