----------------------------- MODULE SharedCache -----------------------------
(***************************************************************************)
(* What the requests of all processes, one after the other, may rely on of *)
(* the answers in Redis: whatever is there was given by a carrier, and it  *)
(* stays as it is until it expires, whoever else has an answer to store    *)
(* and whichever process dies in between.  Answers that are not stored yet *)
(* may be lost.                                                            *)
(***************************************************************************)
CONSTANTS Keys, Values, Absent

VARIABLES
  stored,       \* stored[k]: what is held under k
  offered       \* answers of carriers on their way to it, as <<key, value>>

cache == <<stored, offered>>

Init == stored = [k \in Keys |-> Absent] /\ offered = {}

Answer(k, v) == offered' = offered \cup {<<k, v>>} /\ UNCHANGED stored

(* Of the answers offered some are stored, where there is none, and some lost. *)
Store ==
  /\ stored' \in [Keys -> Values \cup {Absent}]
  /\ \A k \in Keys : stored'[k] # stored[k] =>
       stored[k] = Absent /\ <<k, stored'[k]>> \in offered
  /\ offered' \subseteq offered

Expire(k) == stored' = [stored EXCEPT ![k] = Absent] /\ UNCHANGED offered

Next == Store \/ \E k \in Keys : Expire(k) \/ \E v \in Values : Answer(k, v)

Spec == Init /\ [][Next]_cache
=============================================================================
