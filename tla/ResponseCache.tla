---------------------------- MODULE ResponseCache ----------------------------
(***************************************************************************)
(* The response cache the requests share: every Fetch looks its key up in  *)
(* Redis, and hands a fresh answer to a bounded channel without waiting;   *)
(* when a handler is done, a goroutine of its own, Set, drains the channel *)
(* under the mutex and stores what it drained, whoever queued it.          *)
(*                                                                         *)
(* Carriers and Redis are the environment: a carrier answers differently   *)
(* over time, a stored answer expires, a transaction fails.  A Fetch is    *)
(* reduced to what it does to the cache (HttpFetch has the rest).  What    *)
(* became of a document that its reader cannot use is in ServerLife.       *)
(***************************************************************************)
EXTENDS Naturals, Sequences, FiniteSets, Functions

CONSTANTS
  Requests,     \* the requests that may come
  Keys,         \* namespace and URL, hashed: the keys of Redis
  Asks,         \* Asks[r]: the keys request r fetches
  Capacity,     \* of the channel
  MaxTries,     \* maxRetries of redis.go: transactions per Set
  MaxAnswer,    \* bound: the different answers a carrier may give to one key
  Unusable      \* answers whose reader panics: a token document without a token

Free == "free"

ASSUME CacheAssumption ==
  /\ Asks \in [Requests -> SUBSET Keys] /\ Free \notin Requests
  /\ Capacity \in Nat /\ MaxTries \in Nat \ {0} /\ MaxAnswer \in Nat \ {0}
  /\ Unusable \subseteq 1..MaxAnswer

VARIABLES
  handler,      \* handler[r]: "new", "serving", or how StreamResponse returned
  gone,         \* gone[r]: the request's context is cancelled
  fetch,        \* fetch[f]: where the Fetch f is, or how it ended
  got,          \* got[f]: an answer f has not handed on, or its reader cannot use
  queue,        \* r.ch
  mutex,        \* r.mu: the request whose Set holds it, or Free
  set,          \* set[r]: where the Set of r is, or how it ended
  batch,        \* batch[r]: cacheEntries
  tries,        \* tries[r]: transactions its Set has lost to a conflict
  stored        \* stored[k]: what Redis holds under k

vars == <<handler, gone, fetch, got, queue, mutex, set, batch, tries, stored>>

Fetches == {f \in Requests \X Keys : f[2] \in Asks[f[1]]}
Of(r) == {f \in Fetches : f[1] = r}
Absent == 0
Ended == {"hit", "failed", "dropped", "queued"}
SetEnded == {"stored", "lost", "error"}

(* A RedisCache value; the fetch that queued it stands for the key. *)
Entry(f) == [by |-> f, value |-> got[f]]
Entries == [by : Fetches, value : 1..MaxAnswer]
ToRead(answer) == IF answer \in Unusable THEN answer ELSE Absent

Init ==
  /\ handler = [r \in Requests |-> "new"]
  /\ gone = [r \in Requests |-> FALSE]
  /\ fetch = [f \in Fetches |-> "start"]
  /\ got = [f \in Fetches |-> Absent]
  /\ queue = << >> /\ mutex = Free
  /\ set = [r \in Requests |-> "waiting"]
  /\ batch = [r \in Requests |-> << >>]
  /\ tries = [r \in Requests |-> 0]
  /\ stored = [k \in Keys |-> Absent]

-----------------------------------------------------------------------------
(* A Fetch. *)

FetchOnly == UNCHANGED <<handler, gone, mutex, set, batch, tries, stored>>

(* The cancellation check at the head of Fetch. *)
Start(f) ==
  /\ handler[f[1]] # "new" /\ fetch[f] = "start"
  /\ fetch' = [fetch EXCEPT ![f] = IF gone[f[1]] THEN "failed" ELSE "lookup"]
  /\ UNCHANGED <<got, queue>> /\ FetchOnly

(* Get.  An error of Redis counts as a miss. *)
Get(f) ==
  /\ fetch[f] = "lookup"
  /\ \/ /\ stored[f[2]] # Absent
        /\ fetch' = [fetch EXCEPT ![f] = "hit"]
        /\ got' = [got EXCEPT ![f] = ToRead(stored[f[2]])]
     \/ fetch' = [fetch EXCEPT ![f] = "asking"] /\ UNCHANGED got
  /\ UNCHANGED queue /\ FetchOnly

(* The carrier answered: an answer under way survives a cancellation. *)
Answered(f) ==
  /\ fetch[f] = "asking"
  /\ fetch' = [fetch EXCEPT ![f] = "answered"]
  /\ \E a \in 1..MaxAnswer : got' = [got EXCEPT ![f] = a]
  /\ UNCHANGED queue /\ FetchOnly

Unanswered(f) ==
  /\ fetch[f] = "asking"
  /\ fetch' = [fetch EXCEPT ![f] = "failed"]
  /\ UNCHANGED <<got, queue>> /\ FetchOnly

\* mutant of AddToChannel: the send has no default case
AddToChannelBlocking(f) ==
  /\ fetch[f] = "answered" /\ mutex = Free /\ Len(queue) < Capacity
  /\ fetch' = [fetch EXCEPT ![f] = "queued"] /\ queue' = Append(queue, Entry(f))
  /\ got' = [got EXCEPT ![f] = ToRead(@)] /\ FetchOnly

\* mutant of AddToChannel: sends without taking the mutex
AddToChannelUnlocked(f) ==
  /\ fetch[f] = "answered"
  /\ IF Len(queue) < Capacity
     THEN fetch' = [fetch EXCEPT ![f] = "queued"] /\ queue' = Append(queue, Entry(f))
     ELSE fetch' = [fetch EXCEPT ![f] = "dropped"] /\ UNCHANGED queue
  /\ got' = [got EXCEPT ![f] = ToRead(@)] /\ FetchOnly

(* AddToChannel: a full channel drops the entry.  The document itself is     *)
(* read by who called Fetch, only then.                                      *)
AddToChannel(f) ==
  /\ fetch[f] = "answered" /\ mutex = Free
  /\ IF Len(queue) < Capacity
     THEN fetch' = [fetch EXCEPT ![f] = "queued"] /\ queue' = Append(queue, Entry(f))
     ELSE fetch' = [fetch EXCEPT ![f] = "dropped"] /\ UNCHANGED queue
  /\ got' = [got EXCEPT ![f] = ToRead(@)] /\ FetchOnly

-----------------------------------------------------------------------------
(* The handler, and the Set it leaves behind. *)

Begin(r) ==
  /\ handler[r] = "new"
  /\ handler' = [handler EXCEPT ![r] = "serving"]
  /\ UNCHANGED <<gone, fetch, got, queue, mutex, set, batch, tries, stored>>

\* mutant of Return: StreamResponse does not wait for the carriers
ReturnUnwaited(r) ==
  /\ handler[r] = "serving"
  /\ handler' = [handler EXCEPT ![r] = IF gone[r] THEN "abandoned" ELSE "completed"]
  /\ gone' = [gone EXCEPT ![r] = TRUE]
  /\ set' = [set EXCEPT ![r] = "locking"]
  /\ UNCHANGED <<fetch, got, queue, mutex, batch, tries, stored>>

(* StreamResponse returns when every fetch is through and its document read  *)
(* or, if the client is gone, at any time; then Set starts and the context   *)
(* is cancelled.                                                             *)
Return(r) ==
  /\ handler[r] = "serving"
  /\ \/ gone[r] /\ handler' = [handler EXCEPT ![r] = "abandoned"]
     \/ /\ \A f \in Of(r) : fetch[f] \in Ended /\ got[f] = Absent
        /\ handler' = [handler EXCEPT ![r] = "completed"]
  /\ gone' = [gone EXCEPT ![r] = TRUE]
  /\ set' = [set EXCEPT ![r] = "locking"]
  /\ UNCHANGED <<fetch, got, queue, mutex, batch, tries, stored>>

Disconnect(r) ==
  /\ handler[r] = "serving" /\ ~gone[r]
  /\ gone' = [gone EXCEPT ![r] = TRUE]
  /\ UNCHANGED <<handler, fetch, got, queue, mutex, set, batch, tries, stored>>

SetOnly == UNCHANGED <<handler, gone, fetch, got>>

Lock(r) ==
  /\ set[r] = "locking" /\ mutex = Free
  /\ mutex' = r /\ set' = [set EXCEPT ![r] = "draining"]
  /\ UNCHANGED <<queue, batch, tries, stored>> /\ SetOnly

\* mutant of Drain: what is read is not removed, as from a slice
DrainKeeps(r) ==
  /\ set[r] = "draining"
  /\ batch' = [batch EXCEPT ![r] = queue]
  /\ mutex' = Free /\ set' = [set EXCEPT ![r] = "committing"]
  /\ UNCHANGED <<queue, tries, stored>> /\ SetOnly

(* One turn of the drain loop; an empty channel ends it and unlocks. *)
Drain(r) ==
  /\ set[r] = "draining"
  /\ IF queue # << >>
     THEN /\ batch' = [batch EXCEPT ![r] = Append(@, Head(queue))]
          /\ queue' = Tail(queue)
          /\ UNCHANGED <<mutex, set>>
     ELSE /\ mutex' = Free /\ set' = [set EXCEPT ![r] = "committing"]
          /\ UNCHANGED <<queue, batch>>
  /\ UNCHANGED <<tries, stored>> /\ SetOnly

(* The entries of a batch for one key, and the first of them. *)
For(k, b) == {i \in DOMAIN b : b[i].by[2] = k}
First(k, b) == {i \in For(k, b) : \A j \in For(k, b) : i <= j}
ValueAt(b, places) == b[CHOOSE i \in places : TRUE].value

\* mutant of Stored: SET, so that the last value wins
StoredOverwrites(b) ==
  [k \in Keys |-> LET last == {i \in For(k, b) : \A j \in For(k, b) : i >= j} IN
                  IF last = {} THEN stored[k] ELSE ValueAt(b, last)]

(* SETNX of each entry: what is there stays, of several the first is kept. *)
Stored(b) ==
  [k \in Keys |-> IF stored[k] # Absent \/ First(k, b) = {} THEN stored[k]
                  ELSE ValueAt(b, First(k, b))]

Commit(r) ==
  /\ set[r] = "committing"
  /\ stored' = Stored(batch[r])
  /\ set' = [set EXCEPT ![r] = "stored"] /\ tries' = [tries EXCEPT ![r] = 0]
  /\ UNCHANGED <<queue, mutex, batch>> /\ SetOnly

\* mutant of Conflict: i <= maxRetries, one transaction more
ConflictOnceMore(r) ==
  /\ set[r] = "committing"
  /\ IF tries[r] + 1 <= MaxTries
     THEN tries' = [tries EXCEPT ![r] = @ + 1] /\ UNCHANGED set
     ELSE tries' = [tries EXCEPT ![r] = 0] /\ set' = [set EXCEPT ![r] = "lost"]
  /\ UNCHANGED <<queue, mutex, batch, stored>> /\ SetOnly

(* TxFailedErr: another client wrote the watched key, nothing was applied. *)
Conflict(r) ==
  /\ set[r] = "committing"
  /\ IF tries[r] + 1 < MaxTries
     THEN tries' = [tries EXCEPT ![r] = @ + 1] /\ UNCHANGED set
     ELSE tries' = [tries EXCEPT ![r] = 0] /\ set' = [set EXCEPT ![r] = "lost"]
  /\ UNCHANGED <<queue, mutex, batch, stored>> /\ SetOnly

(* Any other error: not retried, whether or not the commands took effect. *)
Fail(r) ==
  /\ set[r] = "committing"
  /\ stored' \in {stored, Stored(batch[r])}
  /\ set' = [set EXCEPT ![r] = "error"] /\ tries' = [tries EXCEPT ![r] = 0]
  /\ UNCHANGED <<queue, mutex, batch>> /\ SetOnly

-----------------------------------------------------------------------------
(* The carriers and Redis. *)

Expire(k) ==
  /\ stored[k] # Absent
  /\ stored' = [stored EXCEPT ![k] = Absent]
  /\ UNCHANGED <<handler, gone, fetch, got, queue, mutex, set, batch, tries>>

FetchStep(f) ==
  Start(f) \/ Get(f) \/ Answered(f) \/ Unanswered(f) \/ AddToChannel(f)
SetStep(r) == Lock(r) \/ Drain(r) \/ Commit(r) \/ Conflict(r) \/ Fail(r)

Next ==
  \/ \E f \in Fetches : FetchStep(f)
  \/ \E r \in Requests : Begin(r) \/ Return(r) \/ Disconnect(r) \/ SetStep(r)
  \/ \E k \in Keys : Expire(k)

Spec == Init /\ [][Next]_vars

-----------------------------------------------------------------------------
(* Properties. *)

TypeOK ==
  /\ handler \in [Requests -> {"new", "serving", "completed", "abandoned"}]
  /\ gone \in [Requests -> BOOLEAN]
  /\ fetch \in [Fetches -> {"start", "lookup", "asking", "answered"} \cup Ended]
  /\ got \in [Fetches -> 0..MaxAnswer]
  /\ queue \in Seq(Entries) /\ Len(queue) <= Capacity
  /\ mutex \in Requests \cup {Free}
  /\ set \in [Requests -> {"waiting", "locking", "draining", "committing"} \cup SetEnded]
  /\ batch \in [Requests -> Seq(Entries)]
  /\ tries \in [Requests -> 0..MaxTries - 1]
  /\ stored \in [Keys -> 0..MaxAnswer]

Places(f) ==
  {<<"queue", i>> : i \in {i \in DOMAIN queue : queue[i].by = f}} \cup
  UNION {{<<"batch", r, i>> : i \in {i \in DOMAIN batch[r] : batch[r][i].by = f}} : r \in Requests}

(* No answer is duplicated or lost between the channel and the Sets: one     *)
(* that was queued is in the channel or in the batch of exactly one Set,     *)
(* whichever requests drain at the same time; one that was not is nowhere.   *)
InOnePlace ==
  \A f \in Fetches : Cardinality(Places(f)) = IF fetch[f] = "queued" THEN 1 ELSE 0

(* A request that was served to its end leaves nothing behind: once its Set  *)
(* has drained the channel, none of its own answers is in it.  (An abandoned *)
(* one may: its late answers wait for the Set of some later request.)        *)
LeavesNothingBehind ==
  \A r \in Requests :
    handler[r] = "completed" /\ set[r] \in {"committing"} \cup SetEnded =>
      \A i \in DOMAIN queue : queue[i].by[1] # r

(* The mutex keeps producers out while a Set drains, so that a Set takes no  *)
(* more than the channel held, however busy the other requests are.          *)
BatchBounded == \A r \in Requests : Len(batch[r]) <= Capacity

(* An answer that panics its reader is not stored by a request that was      *)
(* served to its end with it: it is neither in the channel nor in any batch. *)
(* (It can get there: by a request that was abandoned, and be stored by the  *)
(* Set of another before the process is gone.)                               *)
CompletedLeavesUsable ==
  \A r \in Requests : handler[r] = "completed" =>
    \A e \in Range(queue) \cup UNION {Range(batch[q]) : q \in Requests} :
      e.by[1] = r => e.value \notin Unusable

(* When no more requests come, every Set ends, stored or given up: a full    *)
(* channel blocks no Fetch, the mutex comes free, and no transaction is      *)
(* retried forever.                                                          *)
EverySetEnds == <>[](\A r \in Requests : handler[r] # "new" => set[r] \in SetEnded)

(* README.md: "all the original json response are cached in a RedisDB".      *)
(* When every request was served to its end and no transaction has failed,   *)
(* every answer a Fetch received from a carrier was in a stored batch.       *)
AllAnswersCached ==
  (\A r \in Requests : handler[r] = "completed" /\ set[r] = "stored") =>
  \A f \in Fetches : fetch[f] \in {"dropped", "queued"} =>
    \E r \in Requests : \E i \in DOMAIN batch[r] : batch[r][i].by = f
=============================================================================
