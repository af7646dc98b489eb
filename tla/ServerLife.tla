------------------------------ MODULE ServerLife ------------------------------
(***************************************************************************)
(* The life of the process around the requests and the cache they share:   *)
(* it starts, serves, is told to stop and shuts its servers down, one after *)
(* the other under one deadline, or it is gone at once, because a goroutine *)
(* panicked on a document outside any recovery.  What it had in memory is  *)
(* lost, Redis is not, and a new process starts.                           *)
(*                                                                         *)
(* Of its four servers, the two that use the cache are modelled.           *)
(***************************************************************************)
EXTENDS ResponseCache

CONSTANTS
  Servers,      \* their number, in the order of their shutdown
  ServerOf,     \* ServerOf[r]: the server that request r comes to
  MaxBegun      \* bound: the requests that come, of all that may

ASSUME ServerAssumption ==
  Servers \in Nat \ {0} /\ ServerOf \in [Requests -> 1..Servers] /\ MaxBegun \in Nat

VARIABLES
  process,      \* "up", "stopping", or how it ended: "exited" or "crashed"
  closed,       \* how many servers Shutdown has been called of
  late          \* the deadline of the shutdown has passed

life == <<process, closed, late>>
all == <<vars, life>>

Alive == process \in {"up", "stopping"}

LifeInit == Init /\ process = "up" /\ closed = 0 /\ late = FALSE

-----------------------------------------------------------------------------
(* What the goroutines of a process do while there is one. *)

Begun == Cardinality({r \in Requests : handler[r] # "new"})

\* mutant of Accept: listeners are closed when the process exits
AcceptWhileAlive(r) == Alive /\ Begun < MaxBegun /\ Begin(r) /\ UNCHANGED life

(* A server accepts requests until its own Shutdown closes its listeners.    *)
Accept(r) ==
  /\ Alive /\ ServerOf[r] > closed /\ Begun < MaxBegun
  /\ Begin(r) /\ UNCHANGED life

Fetching(f) == Alive /\ FetchStep(f) /\ UNCHANGED life
Returning(r) == Alive /\ Return(r) /\ UNCHANGED life
Setting(r) == Alive /\ SetStep(r) /\ UNCHANGED life
Leaving(r) == Alive /\ Disconnect(r) /\ UNCHANGED life
Expiring(k) == Expire(k) /\ UNCHANGED life

-----------------------------------------------------------------------------
(* How it ends, and starts again. *)

(* The memory of the process is gone with its goroutines. *)
Gone ==
  /\ handler' = [r \in Requests |-> IF handler[r] = "serving" THEN "abandoned" ELSE handler[r]]
  /\ gone' = [r \in Requests |-> gone[r] \/ handler[r] # "new"]
  /\ fetch' = [f \in Fetches |-> IF handler[f[1]] = "new" THEN "start" ELSE "failed"]
  /\ got' = [f \in Fetches |-> Absent]
  /\ queue' = << >> /\ mutex' = Free
  /\ set' = [r \in Requests |->
               IF handler[r] = "new" \/ set[r] \in SetEnded THEN set[r] ELSE "error"]
  /\ batch' = [r \in Requests |-> << >>] /\ tries' = [r \in Requests |-> 0]
  /\ closed' = 0 /\ late' = FALSE
  /\ UNCHANGED stored

\* mutant of Panic: the goroutine recovers, and its carrier is left out
PanicRecovered(f) ==
  /\ Alive /\ fetch[f] \in Ended /\ got[f] # Absent
  /\ got' = [got EXCEPT ![f] = Absent]
  /\ UNCHANGED <<handler, gone, fetch, queue, mutex, set, batch, tries, stored, life>>

(* The token is asserted to be a string, the first location indexed: in a    *)
(* goroutine of the request, which Recovery does not cover.                  *)
Panic(f) ==
  /\ Alive /\ fetch[f] \in Ended /\ got[f] # Absent
  /\ process' = "crashed" /\ Gone

(* SIGINT or SIGTERM. *)
Stop ==
  /\ process = "up"
  /\ process' = "stopping" /\ UNCHANGED <<vars, closed, late>>

Deadline ==
  /\ process = "stopping" /\ ~late
  /\ late' = TRUE /\ UNCHANGED <<vars, process, closed>>

Idle(server) == \A r \in Requests : handler[r] = "serving" => ServerOf[r] # server

(* Shutdown closes the listeners, then waits until the server is idle or the *)
(* deadline has passed; its error is not looked at.  After the last, main    *)
(* returns.                                                                  *)
Shutdown ==
  /\ process = "stopping"
  /\ closed > 0 => Idle(closed) \/ late
  /\ IF closed < Servers
     THEN closed' = closed + 1 /\ UNCHANGED <<vars, process, late>>
     ELSE process' = "exited" /\ Gone

(* A new process: the dependencies first, then the servers. *)
StartUp ==
  /\ ~Alive
  /\ process' = "up" /\ UNCHANGED <<vars, closed, late>>

Life == Stop \/ Deadline \/ Shutdown \/ StartUp

LifeNext ==
  \/ \E r \in Requests : Accept(r) \/ Returning(r) \/ Leaving(r) \/ Setting(r)
  \/ \E f \in Fetches : Fetching(f) \/ Panic(f)
  \/ \E k \in Keys : Expiring(k)
  \/ Life

(* Every goroutine runs - one per fetch, which then reads the document, and  *)
(* one per request, for its handler and its Set -, and a Go mutex hands      *)
(* itself to whoever has waited long.  That a Fetch ends is what HttpFetch   *)
(* shows (Returns), and that a transaction ends, with whatever result, is up *)
(* to the Redis client.                                                      *)
LifeFairness ==
  /\ \A f \in Fetches : SF_all(Fetching(f) \/ Panic(f))
  /\ \A r \in Requests : SF_all(Returning(r) \/ Setting(r))

LifeSpec == LifeInit /\ [][LifeNext]_all
FairLifeSpec == LifeSpec /\ LifeFairness

-----------------------------------------------------------------------------
(* Properties. *)

LifeTypeOK ==
  /\ TypeOK
  /\ process \in {"up", "stopping", "exited", "crashed"}
  /\ closed \in 0..Servers /\ late \in BOOLEAN

(* Answers on their way to Redis, in whichever goroutine or in the channel.  *)
InFlight ==
  {<<f[2], got[f]>> : f \in {f \in Fetches : fetch[f] = "answered"}} \cup
  {<<e.by[2], e.value>> : e \in Range(queue) \cup
     UNION {Range(batch[r]) : r \in {r \in Requests : set[r] \in {"draining", "committing"}}}}

(* Redis, as all processes together use it, is a cache whose entries only    *)
(* expiry removes and nothing overwrites: no late Set of an old request, no  *)
(* transaction that failed half-way, and no crash or restart.                *)
Cache == INSTANCE SharedCache WITH Values <- 1..MaxAnswer, offered <- InFlight
ImplementsCache == Cache!Spec

(* main.go: "Wait for all active requests to complete": unless the deadline  *)
(* passed, no request is being served when the process exits - not even one  *)
(* that came to the second server while the first was shut down.             *)
ActiveRequestsComplete ==
  [][process = "stopping" /\ process' = "exited" /\ ~late =>
       \A r \in Requests : handler[r] # "serving"]_all
=============================================================================
