--------------------------- MODULE ServerLifeProofs ---------------------------
(***************************************************************************)
(* Safety of the shared cache over the lives of a process, for any number  *)
(* of requests, keys, servers and answers, and any size of the channel.    *)
(*                                                                         *)
(* A step of the process is one of ResponseCache, the loss of its memory   *)
(* (Gone), or leaves the cache alone.  The inductive invariant says who is *)
(* draining (Locked), where each queued answer is (Located) and whether it *)
(* can be used (Marked), and what a completed request has behind it.       *)
(***************************************************************************)
EXTENDS ServerLife, SequenceTheorems, FiniteSetTheorems, TLAPS

(* A Set starts once, after its handler. *)
Waiting == \A r \in Requests : handler[r] \in {"new", "serving"} => set[r] = "waiting"

(* An answer that was received is there to be handed on. *)
Received == \A f \in Fetches : fetch[f] = "answered" => got[f] # Absent

(* The mutex is held by the Set that drains, which takes what the channel    *)
(* held when it began.                                                       *)
Locked ==
  /\ \A r \in Requests : set[r] = "draining" <=> mutex = r
  /\ \A r \in Requests : set[r] \in {"waiting", "locking"} => batch[r] = << >>
  /\ \A r \in Requests : set[r] = "draining" => Len(batch[r]) + Len(queue) <= Capacity

(* A queued answer is in the channel or in a batch, at one place, and so is  *)
(* no other.                                                                 *)
InQueue(f) == \E i \in DOMAIN queue : queue[i].by = f
InBatch(f) == \E r \in Requests : \E i \in DOMAIN batch[r] : batch[r][i].by = f

Located ==
  /\ \A f \in Fetches : fetch[f] = "queued" <=> InQueue(f) \/ InBatch(f)
  /\ \A f \in Fetches : ~InQueue(f) \/ ~InBatch(f)
  /\ \A i, j \in DOMAIN queue : queue[i].by = queue[j].by => i = j
  /\ \A r, q \in Requests : \A i \in DOMAIN batch[r], j \in DOMAIN batch[q] :
       batch[r][i].by = batch[q][j].by => r = q /\ i = j

(* An unusable answer that was handed over is still to be read. *)
Held == Range(queue) \cup UNION {Range(batch[r]) : r \in Requests}
Marked == \A e \in Held : e.value \in Unusable => got[e.by] = e.value

Served ==
  \A r \in Requests : handler[r] = "completed" =>
    \A f \in Of(r) : fetch[f] \in Ended /\ got[f] = Absent

(* While there is time, a server that was shut down has no requests. *)
Closing ==
  /\ ~late => \A r \in Requests : handler[r] = "serving" => ServerOf[r] >= closed
  /\ process = "stopping" \/ closed = 0

IInv == /\ LifeTypeOK /\ Waiting /\ Received /\ Locked /\ BatchBounded /\ Located /\ Marked
        /\ Served /\ LeavesNothingBehind /\ Closing

-----------------------------------------------------------------------------
(* What a step does to the cache. *)
LEMMA StepsOfCache == LifeNext => Next \/ Gone \/ UNCHANGED vars
BY DEF LifeNext, Accept, Returning, Leaving, Setting, Fetching, Panic, Expiring, Life, Stop,
       Deadline, Shutdown, StartUp, Next

LEMMA FetchesTyped == \A f \in Fetches : f[1] \in Requests /\ f[2] \in Keys /\ f \in Of(f[1])
BY DEF Fetches, Of

(* A transaction stores answers of its batch, where there was none. *)
LEMMA StoredFromBatch ==
  ASSUME TypeOK, NEW b \in Seq(Entries)
  PROVE  /\ Stored(b) \in [Keys -> 0..MaxAnswer]
         /\ \A k \in Keys : Stored(b)[k] # stored[k] =>
              stored[k] = Absent /\ \E e \in Range(b) : e.by[2] = k /\ e.value = Stored(b)[k]
<1>1. ASSUME NEW k \in Keys, First(k, b) # {}
      PROVE  \E e \in Range(b) : /\ e.by[2] = k /\ e.value = ValueAt(b, First(k, b))
                                 /\ e.value \in 0..MaxAnswer
  <2> DEFINE i == CHOOSE i \in First(k, b) : TRUE
  <2>1. i \in First(k, b)
    BY <1>1
  <2>2. i \in DOMAIN b /\ b[i].by[2] = k
    BY <2>1 DEF First, For
  <2>3. b[i] \in Entries /\ b[i] \in Range(b)
    <3> HIDE DEF i
    <3>1. b[i] \in Entries
      BY <2>2
    <3> QED BY <2>2, <3>1 DEF Range
  <2>4. b[i].value \in 0..MaxAnswer
    BY <2>3, CacheAssumption DEF Entries
  <2> QED BY <2>2, <2>3, <2>4 DEF ValueAt
<1>2. ASSUME NEW k \in Keys
      PROVE  Stored(b)[k] = IF stored[k] # Absent \/ First(k, b) = {} THEN stored[k]
                            ELSE ValueAt(b, First(k, b))
  BY DEF Stored
<1>3. \A k \in Keys : Stored(b)[k] \in 0..MaxAnswer
  BY <1>1, <1>2 DEF TypeOK
<1>4. Stored(b) \in [Keys -> 0..MaxAnswer]
  BY <1>3 DEF Stored
<1> QED BY <1>1, <1>2, <1>4

LEMMA InitTyped == LifeInit => LifeTypeOK
<1> SUFFICES ASSUME LifeInit PROVE LifeTypeOK
  OBVIOUS
<1> USE DEF LifeInit, Init
<1>1. queue \in Seq(Entries) /\ Len(queue) <= Capacity /\ batch \in [Requests -> Seq(Entries)]
  BY EmptySeq, CacheAssumption
<1>2. /\ got \in [Fetches -> 0..MaxAnswer] /\ stored \in [Keys -> 0..MaxAnswer]
      /\ tries \in [Requests -> 0..MaxTries - 1]
  BY CacheAssumption DEF Absent
<1>3. /\ handler \in [Requests -> {"new", "serving", "completed", "abandoned"}]
      /\ gone \in [Requests -> BOOLEAN] /\ mutex \in Requests \cup {Free}
      /\ fetch \in [Fetches -> {"start", "lookup", "asking", "answered"} \cup Ended]
      /\ set \in [Requests -> {"waiting", "locking", "draining", "committing"} \cup SetEnded]
  <2>1. handler \in [Requests -> {"new", "serving", "completed", "abandoned"}]
    OBVIOUS
  <2>2. gone \in [Requests -> BOOLEAN] /\ mutex \in Requests \cup {Free}
    OBVIOUS
  <2>3. fetch \in [Fetches -> {"start", "lookup", "asking", "answered"} \cup Ended]
    OBVIOUS
  <2>4. set \in [Requests -> {"waiting", "locking", "draining", "committing"} \cup SetEnded]
    OBVIOUS
  <2> QED BY <2>1, <2>2, <2>3, <2>4
<1>4. closed \in 0..Servers
  BY ServerAssumption
<1>5. late \in BOOLEAN /\ process = "up"
  OBVIOUS
<1> QED BY <1>1, <1>2, <1>3, <1>4, <1>5 DEF LifeTypeOK, TypeOK

LEMMA FetchTyped ==
  ASSUME TypeOK, Received, NEW f \in Fetches, FetchStep(f)
  PROVE  TypeOK'
<1>1. UNCHANGED <<handler, gone, mutex, set, batch, tries, stored>>
  BY DEF FetchStep, Start, Get, Answered, Unanswered, AddToChannel, FetchOnly
<1>2. fetch' \in [Fetches -> {"start", "lookup", "asking", "answered"} \cup Ended]
  <2>1. \E s \in {"lookup", "asking", "answered", "hit", "failed", "dropped", "queued"} :
          fetch' = [fetch EXCEPT ![f] = s]
    BY DEF FetchStep, Start, Get, Answered, Unanswered, AddToChannel
  <2> QED BY <2>1 DEF TypeOK, Ended
<1>3. got' \in [Fetches -> 0..MaxAnswer]
  <2>1. \A a \in 0..MaxAnswer : ToRead(a) \in 0..MaxAnswer
    BY CacheAssumption DEF ToRead, Absent
  <2>2. got[f] \in 0..MaxAnswer /\ stored[f[2]] \in 0..MaxAnswer
    BY FetchesTyped DEF TypeOK
  <2>3. got' = got \/ \E a \in 0..MaxAnswer : got' = [got EXCEPT ![f] = a]
    <3>1. CASE Start(f) \/ Unanswered(f)
      BY <3>1 DEF Start, Unanswered
    <3>2. CASE Get(f)
      BY <2>1, <2>2, <3>2 DEF Get
    <3>3. CASE Answered(f)
      <4>1. PICK a \in 1..MaxAnswer : got' = [got EXCEPT ![f] = a]
        BY <3>3 DEF Answered
      <4>2. a \in 0..MaxAnswer
        BY CacheAssumption
      <4> QED BY <4>1, <4>2
    <3>4. CASE AddToChannel(f)
      BY <2>1, <2>2, <3>4 DEF AddToChannel
    <3> QED BY <3>1, <3>2, <3>3, <3>4 DEF FetchStep
  <2> QED BY <2>3 DEF TypeOK
<1>4. queue' \in Seq(Entries) /\ Len(queue') <= Capacity
  <2>1. CASE AddToChannel(f) /\ Len(queue) < Capacity
    <3>1. Entry(f) \in Entries
      <4>1. got[f] \in 0..MaxAnswer /\ got[f] # 0
        BY <2>1 DEF AddToChannel, Received, TypeOK, Absent
      <4> QED BY <4>1, CacheAssumption DEF Entry, Entries
    <3>2. queue' = Append(queue, Entry(f))
      BY <2>1 DEF AddToChannel
    <3> QED BY <2>1, <3>1, <3>2, AppendProperties, CacheAssumption DEF TypeOK
  <2>2. CASE UNCHANGED queue
    BY <2>2 DEF TypeOK
  <2> QED BY <2>1, <2>2 DEF FetchStep, Start, Get, Answered, Unanswered, AddToChannel
<1> QED BY <1>1, <1>2, <1>3, <1>4 DEF TypeOK

LEMMA SetTyped ==
  ASSUME TypeOK, NEW r \in Requests, SetStep(r)
  PROVE  TypeOK'
<1> USE CacheAssumption DEF TypeOK, SetOnly, SetEnded
<1>1. CASE Lock(r)
  BY <1>1 DEF Lock
<1>2. CASE Drain(r) /\ queue # << >>
  <2>1. /\ Head(queue) \in Entries /\ Tail(queue) \in Seq(Entries)
        /\ Len(Tail(queue)) <= Capacity
    BY <1>2, HeadTailProperties
  <2>2. batch' \in [Requests -> Seq(Entries)]
    <3>1. Append(batch[r], Head(queue)) \in Seq(Entries)
      BY <2>1, AppendProperties
    <3> QED BY <1>2, <3>1 DEF Drain
  <2> QED BY <1>2, <2>1, <2>2 DEF Drain
<1>3. CASE Drain(r) /\ queue = << >>
  BY <1>3 DEF Drain
<1>4. CASE Commit(r) \/ Fail(r)
  <2>1. stored' \in [Keys -> 0..MaxAnswer]
    <3>1. stored' \in {stored, Stored(batch[r])} /\ batch[r] \in Seq(Entries)
      BY <1>4 DEF Commit, Fail
    <3> QED BY <3>1, StoredFromBatch
  <2>2. \E s \in SetEnded : set' = [set EXCEPT ![r] = s]
    BY <1>4 DEF Commit, Fail
  <2>3. set' \in [Requests -> {"waiting", "locking", "draining", "committing"} \cup SetEnded]
    BY <2>2
  <2>4. tries' \in [Requests -> 0..MaxTries - 1]
    <3>1. tries' = [tries EXCEPT ![r] = 0] /\ 0 \in 0..MaxTries - 1
      BY <1>4 DEF Commit, Fail
    <3> QED BY <3>1
  <2>5. UNCHANGED <<handler, gone, fetch, got, queue, mutex, batch>>
    BY <1>4 DEF Commit, Fail
  <2> HIDE DEF SetEnded
  <2> QED BY <2>1, <2>3, <2>4, <2>5
<1>5. CASE Conflict(r)
  <2>1. set' \in [Requests -> {"waiting", "locking", "draining", "committing"} \cup SetEnded]
    BY <1>5 DEF Conflict
  <2>2. \E n \in 0..MaxTries - 1 : tries' = [tries EXCEPT ![r] = n]
    <3>1. tries[r] \in 0..MaxTries - 1 /\ MaxTries \in Nat \ {0}
      OBVIOUS
    <3> QED BY <1>5, <3>1 DEF Conflict
  <2>3. tries' \in [Requests -> 0..MaxTries - 1]
    BY <2>2
  <2>4. UNCHANGED <<handler, gone, fetch, got, queue, mutex, batch, stored>>
    BY <1>5 DEF Conflict
  <2> HIDE DEF SetEnded
  <2> QED BY <2>1, <2>3, <2>4
<1> QED BY <1>1, <1>2, <1>3, <1>4, <1>5 DEF SetStep

LEMMA CacheTyped ==
  ASSUME TypeOK, Received, Next \/ Gone \/ UNCHANGED vars
  PROVE  TypeOK'
<1>1. ASSUME NEW r \in Requests, Begin(r) \/ Return(r) \/ Disconnect(r)
      PROVE  TypeOK'
  BY <1>1 DEF Begin, Return, Disconnect, TypeOK
<1>2. ASSUME NEW k \in Keys, Expire(k)
      PROVE  TypeOK'
  BY <1>2, CacheAssumption DEF Expire, TypeOK, Absent
<1>3. CASE Gone
  <2>1. queue' \in Seq(Entries) /\ Len(queue') <= Capacity /\ batch' \in [Requests -> Seq(Entries)]
    BY <1>3, EmptySeq, CacheAssumption DEF Gone
  <2>2. got' \in [Fetches -> 0..MaxAnswer] /\ tries' \in [Requests -> 0..MaxTries - 1]
    BY <1>3, CacheAssumption DEF Gone, Absent
  <2>3. /\ handler' \in [Requests -> {"new", "serving", "completed", "abandoned"}]
        /\ gone' \in [Requests -> BOOLEAN]
        /\ fetch' \in [Fetches -> {"start", "lookup", "asking", "answered"} \cup Ended]
        /\ set' \in [Requests -> {"waiting", "locking", "draining", "committing"} \cup SetEnded]
    <3>1. handler' \in [Requests -> {"new", "serving", "completed", "abandoned"}]
      BY <1>3 DEF Gone, TypeOK
    <3>2. gone' \in [Requests -> BOOLEAN]
      BY <1>3 DEF Gone
    <3>3. fetch' \in [Fetches -> {"start", "lookup", "asking", "answered"} \cup Ended]
      BY <1>3 DEF Gone, Ended
    <3>4. set' \in [Requests -> {"waiting", "locking", "draining", "committing"} \cup SetEnded]
      BY <1>3 DEF Gone, TypeOK, SetEnded
    <3> QED BY <3>1, <3>2, <3>3, <3>4
  <2> QED BY <1>3, <2>1, <2>2, <2>3 DEF Gone, TypeOK
<1>4. CASE UNCHANGED vars
  BY <1>4 DEF vars, TypeOK
<1> QED BY <1>1, <1>2, <1>3, <1>4, FetchTyped, SetTyped DEF Next

LEMMA LifeTyped ==
  ASSUME LifeTypeOK, Received, LifeNext
  PROVE  LifeTypeOK'
<1>1. TypeOK'
  BY CacheTyped, StepsOfCache DEF LifeTypeOK
<1>2. CASE UNCHANGED life
  BY <1>1, <1>2 DEF life, LifeTypeOK
<1>3. CASE Life \/ \E f \in Fetches : Panic(f)
  <2>1. process' \in {"up", "stopping", "exited", "crashed"}
    BY <1>3 DEF Life, Panic, Stop, Deadline, Shutdown, StartUp, LifeTypeOK
  <2>2. CASE UNCHANGED closed \/ closed' = 0
    <3>1. closed' \in 0..Servers
      BY <2>2, ServerAssumption DEF LifeTypeOK
    <3>2. late' \in BOOLEAN
      BY <1>3 DEF Life, Panic, Stop, Deadline, Shutdown, StartUp, LifeTypeOK, Gone
    <3> QED BY <1>1, <2>1, <3>1, <3>2 DEF LifeTypeOK
  <2>3. CASE closed < Servers /\ closed' = closed + 1 /\ UNCHANGED late
    BY <1>1, <2>1, <2>3, ServerAssumption DEF LifeTypeOK
  <2> QED BY <1>3, <2>2, <2>3 DEF Life, Panic, Stop, Deadline, Shutdown, StartUp, Gone
<1> QED BY <1>2, <1>3 DEF LifeNext, Accept, Returning, Leaving, Setting, Fetching, Expiring

-----------------------------------------------------------------------------
(* The Sets and the mutex. *)

LEMMA WaitingKept ==
  ASSUME TypeOK, Waiting, Next \/ Gone \/ UNCHANGED vars
  PROVE  Waiting'
<1>1. CASE UNCHANGED <<handler, set>>
  BY <1>1 DEF Waiting
<1>2. ASSUME NEW r \in Requests, Begin(r) \/ Return(r)
      PROVE  Waiting'
  BY <1>2 DEF Begin, Return, Waiting, TypeOK
<1>3. ASSUME NEW r \in Requests, SetStep(r)
      PROVE  Waiting'
  <2>1. UNCHANGED handler /\ set[r] # "waiting" /\ \A q \in Requests \ {r} : set'[q] = set[q]
    BY <1>3 DEF SetStep, Lock, Drain, Commit, Conflict, Fail, SetOnly, TypeOK
  <2> QED BY <2>1 DEF Waiting
<1>4. CASE Gone
  BY <1>4 DEF Gone, Waiting
<1> QED
  BY <1>1, <1>2, <1>3, <1>4 DEF Next, FetchStep, Start, Get, Answered, Unanswered, AddToChannel,
     FetchOnly, Disconnect, Expire, vars

LEMMA ReceivedKept ==
  ASSUME TypeOK, Received, Next \/ Gone \/ UNCHANGED vars
  PROVE  Received'
<1>1. CASE UNCHANGED <<fetch, got>>
  BY <1>1 DEF Received
<1>2. ASSUME NEW f \in Fetches, FetchStep(f)
      PROVE  Received'
  <2>1. CASE Answered(f)
    <3>1. PICK a \in 1..MaxAnswer : got' = [got EXCEPT ![f] = a]
      BY <2>1 DEF Answered
    <3>2. a # Absent
      BY CacheAssumption DEF Absent
    <3> QED BY <2>1, <3>1, <3>2 DEF Answered, Received, TypeOK
  <2>2. CASE ~Answered(f)
    <3>1. fetch'[f] # "answered" /\ \A g \in Fetches \ {f} : fetch'[g] = fetch[g] /\ got'[g] = got[g]
      BY <1>2, <2>2 DEF FetchStep, Start, Get, Unanswered, AddToChannel, TypeOK
    <3> QED BY <3>1 DEF Received
  <2> QED BY <2>1, <2>2
<1>3. CASE Gone
  BY <1>3 DEF Gone, Received
<1> QED
  BY <1>1, <1>2, <1>3 DEF Next, Begin, Return, Disconnect, SetStep, Lock, Drain, Commit, Conflict,
     Fail, SetOnly, Expire, vars

(* Nobody hands an answer over while a Set drains. *)
LEMMA LockedKept ==
  ASSUME TypeOK, Waiting, Locked, BatchBounded, Next \/ Gone \/ UNCHANGED vars
  PROVE  Locked' /\ BatchBounded'
<1>1. CASE UNCHANGED <<set, mutex, batch, queue>>
  BY <1>1 DEF Locked, BatchBounded
<1>2. ASSUME NEW f \in Fetches, AddToChannel(f)
      PROVE  Locked' /\ BatchBounded'
  <2>1. UNCHANGED <<set, mutex, batch>> /\ \A r \in Requests : set[r] # "draining"
    BY <1>2, CacheAssumption DEF AddToChannel, FetchOnly, Locked
  <2> QED BY <2>1 DEF Locked, BatchBounded
<1>3. ASSUME NEW r \in Requests, Return(r)
      PROVE  Locked' /\ BatchBounded'
  <2>1. set[r] = "waiting" /\ set'[r] = "locking" /\ UNCHANGED <<mutex, batch, queue>>
    BY <1>3 DEF Return, Waiting, TypeOK
  <2>2. \A q \in Requests \ {r} : set'[q] = set[q]
    BY <1>3 DEF Return, TypeOK
  <2> QED BY <2>1, <2>2 DEF Locked, BatchBounded
<1>4. ASSUME NEW r \in Requests, Lock(r)
      PROVE  Locked' /\ BatchBounded'
  <2>1. /\ set'[r] = "draining" /\ mutex' = r /\ batch[r] = << >>
        /\ UNCHANGED <<batch, queue>>
    BY <1>4 DEF Lock, Locked, TypeOK
  <2>2. \A q \in Requests \ {r} : set'[q] = set[q] /\ set[q] # "draining"
    BY <1>4, CacheAssumption DEF Lock, Locked, TypeOK
  <2>3. Len(batch'[r]) + Len(queue') <= Capacity
    BY <2>1, CacheAssumption DEF TypeOK
  <2> QED BY <2>1, <2>2, <2>3 DEF Locked, BatchBounded
<1>5. ASSUME NEW r \in Requests, Drain(r)
      PROVE  Locked' /\ BatchBounded'
  <2>1. \A q \in Requests \ {r} : set[q] # "draining" /\ set'[q] = set[q] /\ batch'[q] = batch[q]
    BY <1>5 DEF Drain, Locked, TypeOK
  <2>2. set[r] = "draining" /\ mutex = r /\ Len(batch[r]) + Len(queue) <= Capacity
    BY <1>5 DEF Drain, Locked
  <2>3. CASE queue # << >>
    <3>1. /\ batch'[r] = Append(batch[r], Head(queue)) /\ queue' = Tail(queue)
          /\ UNCHANGED <<mutex, set>>
      BY <1>5, <2>3 DEF Drain, TypeOK
    <3>2. Head(queue) \in Entries /\ Len(queue') = Len(queue) - 1 /\ Len(queue') \in Nat
      BY <2>3, <3>1, HeadTailProperties DEF TypeOK
    <3>3. Len(batch'[r]) = Len(batch[r]) + 1 /\ Len(batch[r]) \in Nat
      BY <3>1, <3>2, AppendProperties DEF TypeOK
    <3>4. Len(batch'[r]) + Len(queue') <= Capacity /\ Len(batch'[r]) <= Capacity
      BY <2>2, <3>2, <3>3, CacheAssumption DEF TypeOK
    <3> QED BY <2>1, <2>2, <3>1, <3>4 DEF Locked, BatchBounded
  <2>4. CASE queue = << >>
    <3>1. set'[r] = "committing" /\ mutex' = Free /\ UNCHANGED <<queue, batch>>
      BY <1>5, <2>4 DEF Drain, TypeOK
    <3> QED BY <2>1, <2>2, <3>1, CacheAssumption DEF Locked, BatchBounded
  <2> QED BY <2>3, <2>4
<1>6. ASSUME NEW r \in Requests, Commit(r) \/ Conflict(r) \/ Fail(r)
      PROVE  Locked' /\ BatchBounded'
  <2>1. /\ set[r] = "committing" /\ set'[r] \in {"committing"} \cup SetEnded
        /\ UNCHANGED <<mutex, batch, queue>> /\ \A q \in Requests \ {r} : set'[q] = set[q]
    BY <1>6 DEF Commit, Conflict, Fail, SetEnded, TypeOK
  <2> QED BY <2>1 DEF Locked, BatchBounded, SetEnded
<1>7. CASE Gone
  <2>1. \A r \in Requests : set'[r] = IF handler[r] = "new" THEN "waiting"
                                     ELSE IF set[r] \in SetEnded THEN set[r] ELSE "error"
    BY <1>7 DEF Gone, Waiting
  <2>2. \A r \in Requests : set'[r] # "draining"
    BY <2>1 DEF SetEnded
  <2>3. mutex' = Free /\ queue' = << >> /\ \A r \in Requests : batch'[r] = << >>
    BY <1>7 DEF Gone
  <2>4. \A r \in Requests : Len(batch'[r]) <= Capacity
    BY <2>3, CacheAssumption
  <2> QED BY <2>2, <2>3, <2>4, CacheAssumption DEF Locked, BatchBounded
<1> QED
  BY <1>1, <1>2, <1>3, <1>4, <1>5, <1>6, <1>7 DEF Next, FetchStep, Start, Get, Answered,
     Unanswered, FetchOnly, Begin, Disconnect, SetStep, Expire, vars

-----------------------------------------------------------------------------
(* What a completed request has behind it. *)

LEMMA ServedKept ==
  ASSUME TypeOK, Served, Next \/ Gone \/ UNCHANGED vars
  PROVE  Served'
<1>1. CASE UNCHANGED <<handler, fetch, got>>
  BY <1>1 DEF Served
<1>2. ASSUME NEW f \in Fetches, FetchStep(f)
      PROVE  Served'
  <2>1. f[1] \in Requests /\ f \in Of(f[1])
    BY FetchesTyped
  <2>2. fetch[f] \notin Ended /\ UNCHANGED handler
    BY <1>2 DEF FetchStep, Start, Get, Answered, Unanswered, AddToChannel, FetchOnly, Ended
  <2>3. \A g \in Fetches \ {f} : fetch'[g] = fetch[g] /\ got'[g] = got[g]
    BY <1>2 DEF FetchStep, Start, Get, Answered, Unanswered, AddToChannel, TypeOK
  <2>4. ASSUME NEW r \in Requests, handler[r] = "completed", NEW g \in Of(r)
        PROVE  g \in Fetches \ {f}
    BY <2>2, <2>4 DEF Served, Of
  <2> QED BY <2>2, <2>3, <2>4 DEF Served
<1>3. ASSUME NEW r \in Requests, Begin(r) \/ Return(r) \/ Disconnect(r)
      PROVE  Served'
  BY <1>3 DEF Begin, Return, Disconnect, Served, TypeOK
<1>4. CASE Gone
  <2>1. ASSUME NEW r \in Requests, handler'[r] = "completed", NEW f \in Of(r)
        PROVE  fetch'[f] \in Ended /\ got'[f] = Absent
    BY <1>4, <2>1 DEF Gone, Of, Ended
  <2> QED BY <2>1 DEF Served
<1> QED
  BY <1>1, <1>2, <1>3, <1>4 DEF Next, SetStep, Lock, Drain, Commit, Conflict, Fail, SetOnly,
     Expire, vars

(* A Set has emptied the channel, and nothing of a completed request follows. *)
LEMMA LeftBehindKept ==
  ASSUME TypeOK, Waiting, Served, LeavesNothingBehind, Next \/ Gone \/ UNCHANGED vars
  PROVE  LeavesNothingBehind'
<1> USE DEF LeavesNothingBehind
<1>1. CASE UNCHANGED <<handler, set, queue>>
  BY <1>1
<1>2. ASSUME NEW f \in Fetches, AddToChannel(f)
      PROVE  LeavesNothingBehind'
  <2>1. /\ UNCHANGED <<handler, set>>
        /\ queue' = queue \/ queue' = Append(queue, Entry(f))
    BY <1>2 DEF AddToChannel, FetchOnly
  <2>2. handler[f[1]] # "completed"
    BY <1>2, FetchesTyped DEF AddToChannel, Served, Ended
  <2>3. \A i \in DOMAIN queue' : (i \in DOMAIN queue /\ queue'[i] = queue[i]) \/ queue'[i].by = f
    <3>1. CASE queue' = queue
      BY <3>1
    <3>2. CASE queue' = Append(queue, Entry(f))
      <4>1. Entry(f).by = f /\ DOMAIN queue = 1..Len(queue) /\ Len(queue) \in Nat
        BY DEF Entry, TypeOK
      <4>2. \A i \in DOMAIN queue' : (i \in DOMAIN queue /\ queue'[i] = queue[i]) \/ queue'[i] = Entry(f)
        BY <3>2, <4>1 DEF TypeOK
      <4> QED BY <4>1, <4>2
    <3> QED BY <2>1, <3>1, <3>2
  <2> QED BY <2>1, <2>2, <2>3
<1>3. ASSUME NEW r \in Requests, Begin(r) \/ Return(r)
      PROVE  LeavesNothingBehind'
  <2>1. UNCHANGED queue /\ \A q \in Requests \ {r} : handler'[q] = handler[q] /\ set'[q] = set[q]
    BY <1>3 DEF Begin, Return, TypeOK
  <2>2. handler'[r] = "serving" \/ set'[r] = "locking"
    BY <1>3 DEF Begin, Return, TypeOK
  <2> QED BY <2>1, <2>2 DEF SetEnded
<1>4. ASSUME NEW r \in Requests, Drain(r) /\ queue # << >>
      PROVE  LeavesNothingBehind'
  <2>1. UNCHANGED <<handler, set>> /\ queue' = Tail(queue)
    BY <1>4 DEF Drain, SetOnly
  <2>2. \A i \in DOMAIN queue' : i + 1 \in DOMAIN queue /\ queue'[i] = queue[i + 1]
    BY <1>4, <2>1, HeadTailProperties DEF TypeOK
  <2> QED BY <2>1, <2>2
<1>5. ASSUME NEW r \in Requests, Drain(r) /\ queue = << >>
      PROVE  LeavesNothingBehind'
  BY <1>5 DEF Drain
<1>6. ASSUME NEW r \in Requests, Lock(r) \/ Commit(r) \/ Conflict(r) \/ Fail(r)
      PROVE  LeavesNothingBehind'
  <2>1. /\ UNCHANGED <<handler, queue>> /\ \A q \in Requests \ {r} : set'[q] = set[q]
        /\ set'[r] = "draining" \/ set[r] = "committing"
    BY <1>6 DEF Lock, Commit, Conflict, Fail, SetOnly, TypeOK
  <2> QED BY <2>1 DEF SetEnded
<1>7. CASE Gone
  BY <1>7 DEF Gone
<1> QED
  BY <1>1, <1>2, <1>3, <1>4, <1>5, <1>6, <1>7 DEF Next, FetchStep, Start, Get, Answered,
     Unanswered, FetchOnly, Disconnect, SetStep, Expire, vars

-----------------------------------------------------------------------------
(* Where the answers are. *)

(* The channel, with one more answer at its end. *)
LEMMA QueueAppended ==
  ASSUME TypeOK, NEW f \in Fetches, queue' = Append(queue, Entry(f))
  PROVE  /\ DOMAIN queue = 1..Len(queue) /\ DOMAIN queue' = 1..(Len(queue) + 1)
         /\ Len(queue) \in Nat
         /\ \A i \in DOMAIN queue : queue'[i] = queue[i]
         /\ queue'[Len(queue) + 1] = Entry(f) /\ Entry(f).by = f
<1>1. Entry(f).by = f /\ DOMAIN queue = 1..Len(queue) /\ Len(queue) \in Nat
  BY DEF Entry, TypeOK
<1> QED BY <1>1 DEF TypeOK

(* One turn of the drain loop moves the first answer to the end of a batch. *)
LEMMA Drained ==
  ASSUME TypeOK, NEW r \in Requests, Drain(r), queue # << >>
  PROVE  /\ DOMAIN queue = 1..Len(queue) /\ DOMAIN queue' = 1..(Len(queue) - 1)
         /\ Len(queue) \in Nat \ {0}
         /\ \A i \in DOMAIN queue' : queue'[i] = queue[i + 1]
         /\ DOMAIN batch[r] = 1..Len(batch[r]) /\ DOMAIN batch'[r] = 1..(Len(batch[r]) + 1)
         /\ Len(batch[r]) \in Nat
         /\ \A i \in DOMAIN batch[r] : batch'[r][i] = batch[r][i]
         /\ batch'[r][Len(batch[r]) + 1] = queue[1]
         /\ \A q \in Requests \ {r} : batch'[q] = batch[q]
<1>1. /\ batch'[r] = Append(batch[r], Head(queue)) /\ queue' = Tail(queue)
      /\ \A q \in Requests \ {r} : batch'[q] = batch[q]
  BY DEF Drain, TypeOK
<1>2. queue \in Seq(Entries) /\ batch[r] \in Seq(Entries)
  BY DEF TypeOK
<1>3. Head(queue) = queue[1] /\ Len(queue) \in Nat \ {0} /\ DOMAIN queue = 1..Len(queue)
  BY <1>2, EmptySeq
<1>4. /\ DOMAIN queue' = 1..(Len(queue) - 1)
      /\ \A i \in DOMAIN queue' : queue'[i] = queue[i + 1]
  BY <1>1, <1>2, HeadTailProperties
<1>5. /\ DOMAIN batch[r] = 1..Len(batch[r]) /\ DOMAIN batch'[r] = 1..(Len(batch[r]) + 1)
      /\ Len(batch[r]) \in Nat
      /\ \A i \in DOMAIN batch[r] : batch'[r][i] = batch[r][i]
      /\ batch'[r][Len(batch[r]) + 1] = Head(queue)
  BY <1>1, <1>2
<1> QED BY <1>1, <1>3, <1>4, <1>5

(* Entries only come in by AddToChannel. *)
LEMMA HeldStep ==
  ASSUME TypeOK, Next \/ Gone \/ UNCHANGED vars
  PROVE  \/ Held' \subseteq Held
         \/ \E f \in Fetches : AddToChannel(f) /\ Held' \subseteq Held \cup {Entry(f)}
<1>1. CASE UNCHANGED <<queue, batch>>
  BY <1>1 DEF Held
<1>2. ASSUME NEW f \in Fetches, AddToChannel(f)
      PROVE  Held' \subseteq Held \cup {Entry(f)}
  <2>1. UNCHANGED batch
    BY <1>2 DEF AddToChannel, FetchOnly
  <2>2. Range(queue') \subseteq Range(queue) \cup {Entry(f)}
    <3>1. CASE queue' = queue
      BY <3>1
    <3>2. CASE queue' = Append(queue, Entry(f))
      BY <3>2, QueueAppended DEF Range
    <3> QED BY <1>2, <3>1, <3>2 DEF AddToChannel
  <2> QED BY <2>1, <2>2 DEF Held
<1>3. ASSUME NEW r \in Requests, Drain(r)
      PROVE  Held' \subseteq Held
  <2>1. CASE queue = << >>
    <3>1. UNCHANGED <<queue, batch>>
      BY <1>3, <2>1 DEF Drain
    <3> QED BY <3>1 DEF Held
  <2>2. CASE queue # << >>
    <3>1. Range(queue') \subseteq Range(queue)
      BY <1>3, <2>2, Drained DEF Range
    <3>2. \A q \in Requests : Range(batch'[q]) \subseteq Range(batch[q]) \cup Range(queue)
      BY <1>3, <2>2, Drained DEF Range
    <3> QED BY <3>1, <3>2 DEF Held
  <2> QED BY <2>1, <2>2
<1>4. CASE Gone
  <2>1. Range(<< >>) = {}
    BY DEF Range
  <2>2. Range(queue') = {} /\ \A r \in Requests : Range(batch'[r]) = {}
    BY <1>4, <2>1 DEF Gone
  <2> QED BY <2>2 DEF Held
<1> QED
  BY <1>1, <1>2, <1>3, <1>4 DEF Next, FetchStep, Start, Get, Answered, Unanswered, FetchOnly,
     Begin, Return, Disconnect, SetStep, Lock, Commit, Conflict, Fail, SetOnly, Expire, vars

(* Only queued answers are held. *)
LEMMA HeldQueued ==
  ASSUME TypeOK, Located, NEW e \in Held
  PROVE  e \in Entries /\ e.by \in Fetches /\ fetch[e.by] = "queued"
<1>1. CASE e \in Range(queue)
  <2>1. PICK i \in DOMAIN queue : e = queue[i]
    BY <1>1 DEF Range
  <2>2. queue \in Seq(Entries)
    BY DEF TypeOK
  <2>3. e \in Entries
    BY <2>1, <2>2
  <2>4. e.by \in Fetches
    BY <2>3 DEF Entries
  <2>5. InQueue(e.by)
    BY <2>1 DEF InQueue
  <2> QED BY <2>3, <2>4, <2>5 DEF Located
<1>2. ASSUME NEW r \in Requests, e \in Range(batch[r])
      PROVE  e \in Entries /\ e.by \in Fetches /\ fetch[e.by] = "queued"
  <2>1. PICK i \in DOMAIN batch[r] : e = batch[r][i]
    BY <1>2 DEF Range
  <2>2. batch[r] \in Seq(Entries)
    BY DEF TypeOK
  <2>3. e \in Entries
    BY <2>1, <2>2
  <2>4. e.by \in Fetches
    BY <2>3 DEF Entries
  <2>5. InBatch(e.by)
    BY <2>1 DEF InBatch
  <2> QED BY <2>3, <2>4, <2>5 DEF Located
<1> QED BY <1>1, <1>2 DEF Held

LEMMA MarkedKept ==
  ASSUME TypeOK, Located, Marked, Next \/ Gone \/ UNCHANGED vars
  PROVE  Marked'
<1>1. CASE UNCHANGED got /\ Held' \subseteq Held
  BY <1>1 DEF Marked
<1>2. ASSUME NEW f \in Fetches, FetchStep(f)
      PROVE  Marked'
  <2>1. fetch[f] # "queued" /\ \A g \in Fetches \ {f} : got'[g] = got[g]
    BY <1>2 DEF FetchStep, Start, Get, Answered, Unanswered, AddToChannel, TypeOK
  <2>2. \A e \in Held : got'[e.by] = got[e.by]
    BY <2>1, HeldQueued
  <2>3. CASE Held' \subseteq Held
    BY <2>2, <2>3 DEF Marked
  <2>4. CASE AddToChannel(f) /\ Held' \subseteq Held \cup {Entry(f)}
    <3>1. got'[f] = ToRead(got[f]) /\ Entry(f).by = f /\ Entry(f).value = got[f]
      BY <2>4 DEF AddToChannel, Entry, TypeOK
    <3> QED BY <2>2, <2>4, <3>1 DEF Marked, ToRead
  <2>5. ASSUME NEW g \in Fetches, AddToChannel(g), g # f
        PROVE  FALSE
    <3>1. got'[g] = got[g] /\ fetch'[g] = fetch[g]
      BY <1>2, <2>5 DEF FetchStep, Start, Get, Answered, Unanswered, AddToChannel, TypeOK
    <3>2. fetch[g] = "answered" /\ fetch'[g] \in {"queued", "dropped"}
      BY <2>5 DEF AddToChannel, TypeOK
    <3> QED BY <3>1, <3>2
  <2> QED BY <1>2, <2>3, <2>4, <2>5, HeldStep
<1>3. CASE Gone
  <2>1. Held' = {}
    <3>1. Range(<< >>) = {}
      BY DEF Range
    <3> QED BY <1>3, <3>1 DEF Gone, Held
  <2> QED BY <2>1 DEF Marked
<1>4. CASE ~(\E f \in Fetches : FetchStep(f)) /\ ~Gone
  <2>1. UNCHANGED got
    BY <1>4 DEF Next, Begin, Return, Disconnect, SetStep, Lock, Drain, Commit, Conflict, Fail,
       SetOnly, Expire, vars
  <2>2. Held' \subseteq Held
    BY <1>4, HeldStep DEF FetchStep
  <2> QED BY <1>1, <2>1, <2>2
<1> QED BY <1>2, <1>3, <1>4

LEMMA LocatedKept ==
  ASSUME TypeOK, Located, Next \/ Gone \/ UNCHANGED vars
  PROVE  Located'
<1>1. CASE UNCHANGED <<queue, batch>> /\ \A f \in Fetches : fetch'[f] = "queued" <=> fetch[f] = "queued"
  BY <1>1 DEF Located, InQueue, InBatch
<1>2. ASSUME NEW f \in Fetches, FetchStep(f), UNCHANGED queue
      PROVE  Located'
  <2>1. UNCHANGED batch
    BY <1>2 DEF FetchStep, Start, Get, Answered, Unanswered, AddToChannel, FetchOnly
  <2>2. fetch[f] # "queued" /\ \A g \in Fetches \ {f} : fetch'[g] = fetch[g]
    BY <1>2 DEF FetchStep, Start, Get, Answered, Unanswered, AddToChannel, TypeOK
  <2>3. fetch'[f] # "queued"
    <3>1. queue # Append(queue, Entry(f))
      <4>1. CASE queue = Append(queue, Entry(f))
        <5>1. queue' = Append(queue, Entry(f))
          BY <1>2, <4>1
        <5>2. Len(queue) + 1 \in 1..(Len(queue) + 1) /\ DOMAIN queue' = 1..(Len(queue) + 1) /\ DOMAIN queue = 1..Len(queue) /\ Len(queue) \in Nat
          BY <5>1, QueueAppended
        <5> QED BY <1>2, <5>2
      <4> QED BY <4>1
    <3> QED BY <1>2, <3>1 DEF FetchStep, Start, Get, Answered, Unanswered, AddToChannel, TypeOK
  <2> QED BY <1>1, <1>2, <2>1, <2>2, <2>3
<1>3. ASSUME NEW f \in Fetches, AddToChannel(f), queue' = Append(queue, Entry(f))
      PROVE  Located'
  <2>1. UNCHANGED batch
    BY <1>3 DEF AddToChannel, FetchOnly
  <2>2. CASE Len(queue) < Capacity
    <3>1. fetch'[f] = "queued" /\ fetch[f] # "queued" /\ \A g \in Fetches \ {f} : fetch'[g] = fetch[g]
      BY <1>3, <2>2 DEF AddToChannel, TypeOK
    <3>2. ~InQueue(f) /\ ~InBatch(f)
      BY <3>1 DEF Located
    <3>3. \A g \in Fetches : /\ InQueue(g)' <=> InQueue(g) \/ g = f
                             /\ InBatch(g)' <=> InBatch(g)
      <4>1. \A g \in Fetches : InQueue(g)' <=> InQueue(g) \/ g = f
        BY <1>3, QueueAppended DEF InQueue
      <4>2. \A g \in Fetches : InBatch(g)' <=> InBatch(g)
        BY <2>1 DEF InBatch
      <4> QED BY <4>1, <4>2
    <3>4. \A i, j \in DOMAIN queue' : queue'[i].by = queue'[j].by => i = j
      BY <1>3, <3>2, QueueAppended DEF InQueue, Located
    <3>5. \A r, q \in Requests : \A i \in DOMAIN batch'[r], j \in DOMAIN batch'[q] :
            batch'[r][i].by = batch'[q][j].by => r = q /\ i = j
      BY <2>1 DEF Located
    <3> HIDE DEF InQueue, InBatch
    <3>6. \A g \in Fetches : fetch'[g] = "queued" <=> InQueue(g)' \/ InBatch(g)'
      BY <3>1, <3>3 DEF Located
    <3>7. \A g \in Fetches : ~InQueue(g)' \/ ~InBatch(g)'
      BY <3>2, <3>3 DEF Located
    <3> QED BY <3>4, <3>5, <3>6, <3>7 DEF Located
  <2>3. CASE ~(Len(queue) < Capacity)
    BY <1>2, <1>3, <2>3 DEF AddToChannel, FetchStep
  <2> QED BY <2>2, <2>3
<1>4. ASSUME NEW r \in Requests, Drain(r), queue # << >>
      PROVE  Located'
  <2>1. UNCHANGED fetch
    BY <1>4 DEF Drain, SetOnly
  <2>2. \A f \in Fetches : InQueue(f)' => InQueue(f) /\ queue[1].by # f
    <3>1. ASSUME NEW f \in Fetches, NEW i \in DOMAIN queue', queue'[i].by = f
          PROVE  InQueue(f) /\ queue[1].by # f
      <4>1. i + 1 \in DOMAIN queue /\ 1 \in DOMAIN queue /\ i + 1 # 1 /\ queue[i + 1].by = f
        BY <1>4, <3>1, Drained
      <4> QED BY <4>1 DEF InQueue, Located
    <3> QED BY <3>1 DEF InQueue
  <2>3. \A f \in Fetches : InQueue(f) => InQueue(f)' \/ queue[1].by = f
    <3>1. ASSUME NEW f \in Fetches, NEW i \in DOMAIN queue, queue[i].by = f, i # 1
          PROVE  InQueue(f)'
      <4>1. i - 1 \in DOMAIN queue' /\ queue'[i - 1] = queue[i]
        BY <1>4, <3>1, Drained
      <4> QED BY <3>1, <4>1 DEF InQueue
    <3> QED BY <3>1 DEF InQueue
  <2>4. \A f \in Fetches : InBatch(f)' <=> InBatch(f) \/ queue[1].by = f
    <3>1. ASSUME NEW f \in Fetches, InBatch(f)'
          PROVE  InBatch(f) \/ queue[1].by = f
      <4>1. PICK q \in Requests : \E i \in DOMAIN batch'[q] : batch'[q][i].by = f
        BY <3>1 DEF InBatch
      <4>2. CASE q = r
        <5> PICK i \in DOMAIN batch'[r] : batch'[r][i].by = f
          BY <4>1, <4>2
        <5>1. i = Len(batch[r]) + 1 \/ i \in DOMAIN batch[r]
          BY <1>4, Drained
        <5>2. CASE i = Len(batch[r]) + 1
          BY <1>4, <5>2, Drained
        <5>3. CASE i \in DOMAIN batch[r]
          <6>1. batch[r][i].by = f
            BY <1>4, <5>3, Drained
          <6> QED BY <5>3, <6>1 DEF InBatch
        <5> QED BY <5>1, <5>2, <5>3
      <4>3. CASE q # r
        <5>1. batch'[q] = batch[q]
          BY <1>4, <4>3, Drained
        <5> QED BY <4>1, <5>1 DEF InBatch
      <4> QED BY <4>2, <4>3
    <3>2. ASSUME NEW f \in Fetches, InBatch(f)
          PROVE  InBatch(f)'
      <4>1. PICK q \in Requests : \E i \in DOMAIN batch[q] : batch[q][i].by = f
        BY <3>2 DEF InBatch
      <4>2. \A i \in DOMAIN batch[q] : i \in DOMAIN batch'[q] /\ batch'[q][i] = batch[q][i]
        BY <1>4, Drained
      <4> QED BY <4>1, <4>2 DEF InBatch
    <3>3. ASSUME NEW f \in Fetches, queue[1].by = f
          PROVE  InBatch(f)'
      <4>1. Len(batch[r]) + 1 \in DOMAIN batch'[r] /\ batch'[r][Len(batch[r]) + 1].by = f
        BY <1>4, <3>3, Drained
      <4> QED BY <4>1 DEF InBatch
    <3> QED BY <3>1, <3>2, <3>3
  <2>5. 1 \in DOMAIN queue
    BY <1>4, Drained
  <2>6. \A i, j \in DOMAIN queue' : queue'[i].by = queue'[j].by => i = j
    <3> SUFFICES ASSUME NEW i \in DOMAIN queue', NEW j \in DOMAIN queue',
                        queue'[i].by = queue'[j].by
                 PROVE  i = j
      OBVIOUS
    <3>1. /\ i + 1 \in DOMAIN queue /\ j + 1 \in DOMAIN queue /\ i \in Int /\ j \in Int
          /\ queue'[i] = queue[i + 1] /\ queue'[j] = queue[j + 1]
      BY <1>4, Drained
    <3>2. i + 1 = j + 1
      BY <3>1 DEF Located
    <3> QED BY <3>1, <3>2
  <2>7. \A q \in Requests : \A i \in DOMAIN batch[q] : batch[q][i].by # queue[1].by
    <3>1. queue \in Seq(Entries)
      BY DEF TypeOK
    <3>2. queue[1] \in Entries
      BY <2>5, <3>1
    <3>3. queue[1].by \in Fetches
      BY <3>2 DEF Entries
    <3>4. InQueue(queue[1].by)
      BY <2>5 DEF InQueue
    <3> QED BY <3>3, <3>4 DEF Located, InBatch
  <2>8. \A p, q \in Requests : \A i \in DOMAIN batch'[p], j \in DOMAIN batch'[q] :
          batch'[p][i].by = batch'[q][j].by => p = q /\ i = j
    <3> SUFFICES ASSUME NEW p \in Requests, NEW q \in Requests,
                        NEW i \in DOMAIN batch'[p], NEW j \in DOMAIN batch'[q],
                        batch'[p][i].by = batch'[q][j].by
                 PROVE  p = q /\ i = j
      OBVIOUS
    <3> DEFINE Old(s, n) == n \in DOMAIN batch[s] /\ batch'[s][n] = batch[s][n]
               New(s, n) == s = r /\ n = Len(batch[r]) + 1 /\ batch'[s][n] = queue[1]
    <3>1. \A s \in Requests : \A n \in DOMAIN batch'[s] : Old(s, n) \/ New(s, n)
      <4>1. ASSUME NEW n \in DOMAIN batch'[r]
            PROVE  Old(r, n) \/ New(r, n)
        <5>1. n = Len(batch[r]) + 1 \/ n \in DOMAIN batch[r]
          BY <1>4, <4>1, Drained
        <5> QED BY <1>4, <5>1, Drained
      <4>2. ASSUME NEW s \in Requests \ {r}, NEW n \in DOMAIN batch'[s]
            PROVE  Old(s, n)
        BY <1>4, <4>2, Drained
      <4> QED BY <4>1, <4>2
    <3>2. CASE Old(p, i) /\ Old(q, j)
      BY <3>2 DEF Located
    <3>3. CASE New(p, i) /\ New(q, j)
      BY <3>3
    <3>4. CASE New(p, i) /\ Old(q, j)
      BY <2>7, <3>4
    <3>5. CASE Old(p, i) /\ New(q, j)
      BY <2>7, <3>5
    <3> HIDE DEF Old, New
    <3> QED BY <3>1, <3>2, <3>3, <3>4, <3>5
  <2>9. \A f \in Fetches : fetch'[f] = "queued" <=> InQueue(f)' \/ InBatch(f)'
    <3>1. \A f \in Fetches : queue[1].by = f => InQueue(f)
      BY <2>5 DEF InQueue
    <3> QED BY <2>1, <2>2, <2>3, <2>4, <3>1 DEF Located
  <2>10. \A f \in Fetches : ~InQueue(f)' \/ ~InBatch(f)'
    BY <2>2, <2>4 DEF Located
  <2> QED BY <2>6, <2>8, <2>9, <2>10 DEF Located
<1>5. ASSUME NEW r \in Requests, Drain(r), queue = << >>
      PROVE  Located'
  BY <1>1, <1>5 DEF Drain, SetOnly
<1>6. CASE Gone
  <2>1. queue' = << >> /\ \A r \in Requests : batch'[r] = << >>
    BY <1>6 DEF Gone
  <2>2. \A f \in Fetches : fetch'[f] # "queued"
    BY <1>6 DEF Gone
  <2> QED BY <2>1, <2>2 DEF Located, InQueue, InBatch
<1> QED
  BY <1>1, <1>2, <1>3, <1>4, <1>5, <1>6 DEF Next, FetchStep, Start, Get, Answered, Unanswered,
     AddToChannel, Begin, Return, Disconnect, SetStep, Lock, Commit, Conflict, Fail, SetOnly,
     Expire, vars

-----------------------------------------------------------------------------
(* The shutdown, and the invariant. *)

LEMMA ClosingKept ==
  ASSUME LifeTypeOK, Closing, LifeNext
  PROVE  Closing'
<1> USE DEF LifeTypeOK
<1>1. CASE UNCHANGED life /\ \A r \in Requests : handler'[r] = "serving" => handler[r] = "serving"
  BY <1>1 DEF Closing, life
<1>2. ASSUME NEW r \in Requests, Accept(r)
      PROVE  Closing'
  <2>1. UNCHANGED life /\ \A q \in Requests \ {r} : handler'[q] = handler[q]
    BY <1>2 DEF Accept, Begin, TypeOK
  <2>2. ServerOf[r] >= closed
    BY <1>2, ServerAssumption DEF Accept
  <2> QED BY <2>1, <2>2 DEF Closing, life
<1>3. ASSUME NEW r \in Requests, Returning(r) \/ Leaving(r) \/ Setting(r)
      PROVE  Closing'
  BY <1>1, <1>3 DEF Returning, Leaving, Setting, Return, Disconnect, SetStep, Lock, Drain, Commit,
     Conflict, Fail, SetOnly, TypeOK
<1>4. ASSUME NEW f \in Fetches, Fetching(f)
      PROVE  Closing'
  BY <1>1, <1>4 DEF Fetching, FetchStep, Start, Get, Answered, Unanswered, AddToChannel, FetchOnly
<1>5. ASSUME NEW k \in Keys, Expiring(k)
      PROVE  Closing'
  BY <1>1, <1>5 DEF Expiring, Expire
<1>6. CASE Gone
  BY <1>6 DEF Gone, Closing
<1>7. CASE Stop \/ Deadline \/ StartUp
  BY <1>7 DEF Stop, Deadline, StartUp, Closing, Alive, vars
<1>8. CASE Shutdown /\ closed < Servers
  <2>1. /\ process = "stopping" /\ closed' = closed + 1 /\ UNCHANGED <<handler, process, late>>
        /\ closed > 0 => Idle(closed) \/ late
    BY <1>8 DEF Shutdown, vars
  <2>2. ASSUME NEW r \in Requests, ~late, handler[r] = "serving"
        PROVE  ServerOf[r] >= closed + 1
    <3>1. closed \in Nat /\ ServerOf[r] \in Nat \ {0} /\ ServerOf[r] >= closed
      BY <2>2, ServerAssumption DEF Closing
    <3>2. closed > 0 => ServerOf[r] # closed
      BY <2>1, <2>2 DEF Idle
    <3> QED BY <3>1, <3>2
  <2> QED BY <2>1, <2>2 DEF Closing
<1> QED
  BY <1>2, <1>3, <1>4, <1>5, <1>6, <1>7, <1>8 DEF LifeNext, Life, Panic, Shutdown

LEMMA InitIInv == LifeInit => IInv
<1> SUFFICES ASSUME LifeInit PROVE IInv
  OBVIOUS
<1>1. LifeTypeOK
  BY InitTyped
<1>2. Waiting /\ Received /\ Served /\ LeavesNothingBehind /\ Closing
  BY FetchesTyped, ServerAssumption DEF LifeInit, Init, Waiting, Received, Served,
     LeavesNothingBehind, Closing
<1>3. Locked /\ BatchBounded
  BY CacheAssumption, EmptySeq DEF LifeInit, Init, Locked, BatchBounded
<1>4. Located
  BY DEF LifeInit, Init, Located, InQueue, InBatch
<1>5. Marked
  <2>1. Held = {}
    BY DEF LifeInit, Init, Held, Range
  <2> QED BY <2>1 DEF Marked
<1> QED BY <1>1, <1>2, <1>3, <1>4, <1>5 DEF IInv

LEMMA NextIInv ==
  ASSUME IInv, LifeNext
  PROVE  IInv'
<1> USE DEF IInv, LifeTypeOK
<1>1. Next \/ Gone \/ UNCHANGED vars
  BY StepsOfCache
<1>2. LifeTypeOK'
  BY LifeTyped
<1> QED
  BY <1>1, <1>2, WaitingKept, ReceivedKept, LockedKept, LocatedKept, MarkedKept, ServedKept,
     LeftBehindKept, ClosingKept

(* The inductive invariant of the process and its cache, over any number of  *)
(* starts, shutdowns and crashes.                                            *)
THEOREM Invariance == LifeSpec => []IInv
<1>1. IInv /\ [LifeNext]_all => IInv'
  <2>1. CASE LifeNext
    BY <2>1, NextIInv
  <2>2. CASE UNCHANGED all
    BY <2>2 DEF all, vars, life, IInv, LifeTypeOK, TypeOK, Waiting, Received, Locked, BatchBounded,
       Located, InQueue, InBatch, Marked, Held, Served, LeavesNothingBehind, Closing
  <2> QED BY <2>1, <2>2
<1> QED BY InitIInv, <1>1, PTL DEF LifeSpec

(* Every variable keeps its type, the channel never exceeds its capacity and *)
(* no Set retries more often than it may.                                    *)
THEOREM TypeCorrect == LifeSpec => []LifeTypeOK
BY Invariance, PTL DEF IInv

(* A Set takes no more out of the channel than fits in it, since nobody can  *)
(* put anything in while it drains.                                          *)
THEOREM NoLargerBatch == LifeSpec => []BatchBounded
BY Invariance, PTL DEF IInv

(* No answer of a request that was served to its end is left in the channel  *)
(* by the drain of its own Set.                                              *)
THEOREM NothingLeft == LifeSpec => []LeavesNothingBehind
BY Invariance, PTL DEF IInv

(* Of a request that was served to its end, nothing on the way to Redis is a *)
(* document that panics its reader: it would have to be read before.         *)
THEOREM OnlyUsable == LifeSpec => []CompletedLeavesUsable
<1>1. IInv => CompletedLeavesUsable
  <2> SUFFICES ASSUME IInv, NEW r \in Requests, handler[r] = "completed", NEW e \in Held,
                      e.by[1] = r, e.value \in Unusable
               PROVE  FALSE
    BY DEF CompletedLeavesUsable, Held
  <2>1. e.by \in Of(r)
    BY HeldQueued DEF IInv, LifeTypeOK, Of
  <2>2. got[e.by] = Absent
    BY <2>1 DEF IInv, Served
  <2>3. got[e.by] = e.value
    BY DEF IInv, Marked
  <2> QED BY <2>2, <2>3, CacheAssumption DEF Absent
<1> QED BY Invariance, <1>1, PTL

(* main.go waits for the active requests: when the process exits in time, no *)
(* request is being served by any of its servers.                            *)
THEOREM ExitsIdle == LifeSpec => ActiveRequestsComplete
<1>1. ASSUME IInv, LifeNext, process = "stopping", process' = "exited", ~late,
             NEW r \in Requests, handler[r] = "serving"
      PROVE  FALSE
  <2>1. Shutdown /\ closed >= Servers
    BY <1>1, ServerAssumption DEF LifeNext, Life, Panic, Stop, Deadline, StartUp, Alive, Accept,
       Returning, Leaving, Setting, Fetching, Expiring, life, Shutdown, IInv, LifeTypeOK
  <2>2. closed = Servers /\ closed > 0
    BY <1>1, <2>1, ServerAssumption DEF IInv, LifeTypeOK
  <2>3. ServerOf[r] # closed
    BY <1>1, <2>1, <2>2 DEF Shutdown, Idle
  <2>4. ServerOf[r] >= closed /\ ServerOf[r] \in 1..Servers
    BY <1>1, ServerAssumption DEF IInv, Closing
  <2> QED BY <2>2, <2>3, <2>4, ServerAssumption
<1>2. IInv /\ [LifeNext]_all =>
        [process = "stopping" /\ process' = "exited" /\ ~late =>
           \A r \in Requests : handler[r] # "serving"]_all
  BY <1>1
<1> QED BY Invariance, <1>2, PTL DEF LifeSpec, ActiveRequestsComplete

(* No queued answer is lost or doubled between the channel and the batches   *)
(* of however many Sets, and an answer that was not queued is nowhere.       *)
THEOREM NoAnswerTwice == LifeSpec => []InOnePlace
<1>1. ASSUME IInv, NEW f \in Fetches
      PROVE  Cardinality(Places(f)) = IF fetch[f] = "queued" THEN 1 ELSE 0
  <2>1. ASSUME NEW x \in Places(f)
        PROVE  \/ \E i \in DOMAIN queue : queue[i].by = f /\ x = <<"queue", i>>
               \/ \E r \in Requests : \E i \in DOMAIN batch[r] :
                    batch[r][i].by = f /\ x = <<"batch", r, i>>
    BY <2>1 DEF Places
  <2>2. CASE InQueue(f)
    <3>1. PICK i \in DOMAIN queue : queue[i].by = f
      BY <2>2 DEF InQueue
    <3>2. <<"queue", i>> \in Places(f)
      BY <3>1 DEF Places
    <3>3. \A j \in DOMAIN queue : queue[j].by = f => j = i
      BY <1>1, <3>1 DEF IInv, Located
    <3>4. \A r \in Requests : \A j \in DOMAIN batch[r] : batch[r][j].by # f
      BY <1>1, <2>2 DEF IInv, Located, InBatch
    <3>5. Places(f) = {<<"queue", i>>}
      BY <2>1, <3>2, <3>3, <3>4
    <3> QED BY <1>1, <2>2, <3>5, FS_Singleton DEF IInv, Located
  <2>3. CASE InBatch(f)
    <3>1. PICK r \in Requests : \E i \in DOMAIN batch[r] : batch[r][i].by = f
      BY <2>3 DEF InBatch
    <3>2. PICK i \in DOMAIN batch[r] : batch[r][i].by = f
      BY <3>1
    <3>3. <<"batch", r, i>> \in Places(f)
      BY <3>2 DEF Places
    <3>4. \A q \in Requests : \A j \in DOMAIN batch[q] : batch[q][j].by = f => q = r /\ j = i
      BY <1>1, <3>2 DEF IInv, Located
    <3>5. \A j \in DOMAIN queue : queue[j].by # f
      BY <1>1, <2>3 DEF IInv, Located, InQueue
    <3>6. Places(f) = {<<"batch", r, i>>}
      BY <2>1, <3>3, <3>4, <3>5
    <3> QED BY <1>1, <2>3, <3>6, FS_Singleton DEF IInv, Located
  <2>4. CASE ~InQueue(f) /\ ~InBatch(f)
    <3>1. Places(f) = {}
      BY <2>1, <2>4 DEF InQueue, InBatch
    <3> QED BY <1>1, <2>4, <3>1, FS_EmptySet DEF IInv, Located
  <2> QED BY <2>2, <2>3, <2>4
<1>2. IInv => InOnePlace
  BY <1>1 DEF InOnePlace
<1> QED BY Invariance, <1>2, PTL

-----------------------------------------------------------------------------
(* The refinement: an answer is offered to Redis as long as it is with its   *)
(* Fetch (Given), or in the channel or a batch of a Set at work (Going).     *)
Given == {f \in Fetches : fetch[f] = "answered"}
Going == Range(queue) \cup
         UNION {Range(batch[r]) : r \in {r \in Requests : set[r] \in {"draining", "committing"}}}

LEMMA Offers ==
  /\ InFlight = {<<f[2], got[f]>> : f \in Given} \cup {<<e.by[2], e.value>> : e \in Going}
  /\ InFlight' = {<<f[2], got'[f]>> : f \in Given'} \cup {<<e.by[2], e.value>> : e \in Going'}
BY DEF InFlight, Given, Going

(* Only a carrier's answer adds to what is given. *)
LEMMA GivenStep ==
  ASSUME TypeOK, Next \/ Gone \/ UNCHANGED vars
  PROVE  \/ \E f \in Fetches : Answered(f)
         \/ \A f \in Given' : f \in Given /\ got'[f] = got[f]
<1>1. CASE UNCHANGED <<fetch, got>>
  BY <1>1 DEF Given
<1>2. ASSUME NEW f \in Fetches, FetchStep(f), ~Answered(f)
      PROVE  \A g \in Given' : g \in Given /\ got'[g] = got[g]
  <2>1. fetch'[f] # "answered" /\ \A g \in Fetches \ {f} : fetch'[g] = fetch[g] /\ got'[g] = got[g]
    BY <1>2 DEF FetchStep, Start, Get, Unanswered, AddToChannel, TypeOK
  <2> QED BY <2>1 DEF Given
<1>3. CASE Gone
  <2>1. \A f \in Fetches : fetch'[f] # "answered"
    BY <1>3 DEF Gone
  <2> QED BY <2>1 DEF Given
<1> QED
  BY <1>1, <1>2, <1>3 DEF Next, Begin, Return, Disconnect, SetStep, Lock, Drain, Commit, Conflict,
     Fail, SetOnly, Expire, vars

(* Only AddToChannel adds to what goes to Redis: a Set that begins has an    *)
(* empty batch.                                                              *)
LEMMA GoingStep ==
  ASSUME TypeOK, Locked, Next \/ Gone \/ UNCHANGED vars
  PROVE  \/ Going' \subseteq Going
         \/ \E f \in Fetches : AddToChannel(f) /\ Going' \subseteq Going \cup {Entry(f)}
<1> DEFINE Working == {"draining", "committing"}
<1>1. ASSUME UNCHANGED <<queue, batch>>,
             \A r \in Requests : set'[r] \in Working => set[r] \in Working \/ batch[r] = << >>
      PROVE  Going' \subseteq Going
  <2>1. Range(<< >>) = {}
    BY DEF Range
  <2> QED BY <1>1, <2>1 DEF Going
<1>2. ASSUME NEW f \in Fetches, AddToChannel(f)
      PROVE  Going' \subseteq Going \cup {Entry(f)}
  <2>1. UNCHANGED <<batch, set>>
    BY <1>2 DEF AddToChannel, FetchOnly
  <2>2. Range(queue') \subseteq Range(queue) \cup {Entry(f)}
    <3>1. CASE queue' = queue
      BY <3>1
    <3>2. CASE queue' = Append(queue, Entry(f))
      BY <3>2, QueueAppended DEF Range
    <3> QED BY <1>2, <3>1, <3>2 DEF AddToChannel
  <2> QED BY <2>1, <2>2 DEF Going
<1>3. ASSUME NEW r \in Requests, Drain(r), queue # << >>
      PROVE  Going' \subseteq Going
  <2>1. Range(queue') \subseteq Range(queue)
    BY <1>3, Drained DEF Range
  <2>2. \A q \in Requests : Range(batch'[q]) \subseteq Range(batch[q]) \cup Range(queue)
    BY <1>3, Drained DEF Range
  <2>3. UNCHANGED set
    BY <1>3 DEF Drain
  <2> QED BY <2>1, <2>2, <2>3 DEF Going
<1>4. ASSUME NEW r \in Requests, SetStep(r), ~(Drain(r) /\ queue # << >>)
      PROVE  Going' \subseteq Going
  <2>1. UNCHANGED <<queue, batch>>
    BY <1>4 DEF SetStep, Lock, Drain, Commit, Conflict, Fail
  <2>2. \A q \in Requests \ {r} : set'[q] = set[q]
    BY <1>4 DEF SetStep, Lock, Drain, Commit, Conflict, Fail, TypeOK
  <2>3. set[r] \in Working \/ batch[r] = << >>
    BY <1>4 DEF SetStep, Lock, Drain, Commit, Conflict, Fail, Locked
  <2> QED BY <1>1, <2>1, <2>2, <2>3
<1>5. ASSUME NEW r \in Requests, Begin(r) \/ Return(r) \/ Disconnect(r)
      PROVE  Going' \subseteq Going
  <2>1. UNCHANGED <<queue, batch>> /\ \A q \in Requests : set'[q] \in Working => set[q] \in Working
    BY <1>5 DEF Begin, Return, Disconnect, TypeOK
  <2> QED BY <1>1, <2>1
<1>6. CASE Gone
  <2>1. Range(<< >>) = {}
    BY DEF Range
  <2>2. Range(queue') = {} /\ \A r \in Requests : Range(batch'[r]) = {}
    BY <1>6, <2>1 DEF Gone
  <2> QED BY <2>2 DEF Going
<1>7. CASE UNCHANGED <<queue, batch, set>>
  BY <1>7 DEF Going
<1> QED
  BY <1>2, <1>3, <1>4, <1>5, <1>6, <1>7 DEF Next, FetchStep, Start, Get, Answered, Unanswered,
     FetchOnly, Expire, vars

(* What is offered comes from a carrier and otherwise only gets less. *)
LEMMA OffersShrink ==
  ASSUME TypeOK, Locked, Next \/ Gone \/ UNCHANGED vars, ~\E f \in Fetches : Answered(f)
  PROVE  InFlight' \subseteq InFlight
<1>1. \A f \in Given' : f \in Given /\ got'[f] = got[f]
  BY GivenStep
<1>2. \A e \in Going' : e \in Going \/ \E f \in Given : e = Entry(f)
  BY GoingStep DEF AddToChannel, Given
<1>3. ASSUME NEW x \in InFlight'
      PROVE  x \in InFlight
  <2>1. CASE \E f \in Given' : x = <<f[2], got'[f]>>
    BY <1>1, <2>1, Offers
  <2>2. CASE \E e \in Going' : x = <<e.by[2], e.value>>
    <3>1. PICK e \in Going' : x = <<e.by[2], e.value>>
      BY <2>2
    <3>2. CASE e \in Going
      BY <3>1, <3>2, Offers
    <3>3. ASSUME NEW f \in Given, e = Entry(f)
          PROVE  x \in InFlight
      <4>1. e.by = f /\ e.value = got[f]
        BY <3>3 DEF Entry
      <4> QED BY <3>1, <4>1, Offers
    <3> QED BY <1>2, <3>2, <3>3
  <2> QED BY <2>1, <2>2, Offers
<1> QED BY <1>3

LEMMA InitRefines == LifeInit => Cache!Init
<1> SUFFICES ASSUME LifeInit PROVE Cache!Init
  OBVIOUS
<1>1. Range(<< >>) = {}
  BY DEF Range
<1>2. InFlight = {}
  BY <1>1, Offers DEF LifeInit, Init, Given, Going
<1> QED BY <1>2 DEF LifeInit, Init, Cache!Init

LEMMA AnswerRefines ==
  ASSUME TypeOK, NEW f \in Fetches, Answered(f)
  PROVE  \E v \in 1..MaxAnswer : Cache!Answer(f[2], v)
<1>1. PICK v \in 1..MaxAnswer : got' = [got EXCEPT ![f] = v]
  BY DEF Answered
<1>2. UNCHANGED <<queue, batch, set, stored>> /\ fetch' = [fetch EXCEPT ![f] = "answered"]
  BY DEF Answered, FetchOnly
<1>3. Going' = Going
  BY <1>2 DEF Going
<1>4. Given' = Given \cup {f} /\ f \notin Given
  BY <1>2 DEF Given, TypeOK, Answered
<1>5. got'[f] = v /\ \A g \in Given : got'[g] = got[g]
  BY <1>1, <1>4 DEF Given, TypeOK
<1>6. InFlight' = InFlight \cup {<<f[2], v>>}
  BY <1>3, <1>4, <1>5, Offers
<1> QED BY <1>2, <1>6 DEF Cache!Answer

(* A transaction stores what was offered. *)
LEMMA StoreRefines ==
  ASSUME TypeOK, Locked, NEW r \in Requests, Commit(r) \/ Fail(r)
  PROVE  Cache!Store
<1>1. set[r] = "committing" /\ stored' \in {stored, Stored(batch[r])} /\ UNCHANGED <<fetch, got>>
  BY DEF Commit, Fail, SetOnly
<1>2. batch[r] \in Seq(Entries)
  BY DEF TypeOK
<1>3. Range(batch[r]) \subseteq Going
  BY <1>1 DEF Going
<1>4. \A k \in Keys : stored'[k] # stored[k] =>
        stored[k] = Absent /\ <<k, stored'[k]>> \in InFlight
  BY <1>1, <1>2, <1>3, StoredFromBatch, Offers
<1>5. stored' \in [Keys -> 1..MaxAnswer \cup {Absent}]
  <2>1. stored' \in [Keys -> 0..MaxAnswer]
    BY <1>1, <1>2, StoredFromBatch DEF TypeOK
  <2>2. 0..MaxAnswer \subseteq 1..MaxAnswer \cup {Absent}
    BY CacheAssumption DEF Absent
  <2> QED BY <2>1, <2>2
<1>6. InFlight' \subseteq InFlight
  <2>1. ~\E f \in Fetches : Answered(f)
    BY <1>1 DEF Answered, TypeOK
  <2> QED BY <2>1, OffersShrink DEF Next, SetStep
<1> QED BY <1>4, <1>5, <1>6 DEF Cache!Store

LEMMA StepRefines ==
  ASSUME IInv, [LifeNext]_all
  PROVE  [Cache!Next]_(Cache!cache)
<1> USE DEF IInv, LifeTypeOK
<1>1. Next \/ Gone \/ UNCHANGED vars
  BY StepsOfCache DEF all
<1>2. CASE \E f \in Fetches : Answered(f)
  BY <1>2, AnswerRefines, FetchesTyped DEF Cache!Next
<1>3. CASE \E r \in Requests : Commit(r) \/ Fail(r)
  BY <1>3, StoreRefines DEF Cache!Next
<1>4. CASE \E k \in Keys : Expire(k)
  <2>1. PICK k \in Keys : Expire(k)
    BY <1>4
  <2>2. UNCHANGED <<fetch, got, queue, batch, set>> /\ stored' = [stored EXCEPT ![k] = Absent]
    BY <2>1 DEF Expire
  <2>3. InFlight' = InFlight
    BY <2>2 DEF InFlight
  <2> QED BY <2>2, <2>3 DEF Cache!Next, Cache!Expire
<1>5. CASE UNCHANGED stored /\ ~\E f \in Fetches : Answered(f)
  <2>1. InFlight' \subseteq InFlight
    BY <1>1, <1>5, OffersShrink
  <2>2. stored \in [Keys -> 1..MaxAnswer \cup {Absent}]
    <3>1. 0..MaxAnswer \subseteq 1..MaxAnswer \cup {Absent}
      BY CacheAssumption DEF Absent
    <3> QED BY <3>1 DEF TypeOK
  <2> QED BY <1>5, <2>1, <2>2 DEF Cache!Next, Cache!Store
<1> QED
  BY <1>1, <1>2, <1>3, <1>4, <1>5 DEF Next, FetchStep, Start, Get, Unanswered, AddToChannel,
     FetchOnly, Begin, Return, Disconnect, SetStep, Lock, Drain, Conflict, Gone, vars

(* Redis with all its users, over all their lives, implements the shared     *)
(* cache: what it holds was offered by a carrier and is overwritten by none. *)
THEOREM Refinement == LifeSpec => ImplementsCache
BY Invariance, InitRefines, StepRefines, PTL DEF LifeSpec, ImplementsCache, Cache!Spec
=============================================================================
