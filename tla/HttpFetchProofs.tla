--------------------------- MODULE HttpFetchProofs ---------------------------
(***************************************************************************)
(* Safety of Fetch for any number of retries and of pages.                 *)
(*                                                                         *)
(* The inductive invariant says what a Fetch that has not returned has     *)
(* done: nothing for the caller or the cache, one request per attempt, and *)
(* no page outside fetchPartialContent.                                    *)
(***************************************************************************)
EXTENDS HttpFetch, SequenceTheorems, TLAPS

(* Only a return gives anything to the caller or the cache. *)
Unreturned == pc # "returned" => result = NoResult /\ queued = << >>

(* One request per attempt, of which there are MaxRetries + 1. *)
SentPerAttempt ==
  /\ pc # "returned" => sent <= IF pc \in {"attempt", "lookup", "request"} THEN attempt
                                ELSE attempt + 1
  /\ pc \notin {"attempt", "returned"} => attempt <= MaxRetries
  /\ pc = "sleep" => attempt < MaxRetries

(* A 206 never fails once its pages are asked for, so there are no pages of  *)
(* an earlier attempt.                                                       *)
PagesIdle == pc \notin {"pages", "returned"} => pages = [p \in Further |-> "absent"]

(* What the buffer holds while pages come in: the first page, and each of    *)
(* the merged ones at one place.                                             *)
Merging ==
  pc = "pages" =>
    /\ buffer # << >> /\ buffer[1] = FirstPart
    /\ \A i \in DOMAIN buffer : i # 1 =>
         buffer[i].page \in Further /\ pages[buffer[i].page] = "merged"
    /\ \A i, j \in DOMAIN buffer : buffer[i].page = buffer[j].page => i = j
    /\ \A p \in Further : pages[p] = "merged" => \E i \in DOMAIN buffer : buffer[i].page = p

IInv == /\ TypeOK /\ Unreturned /\ SentPerAttempt /\ PagesIdle /\ Merging
        /\ CachesWhatItReturns /\ PagesOnce /\ NoStragglers

-----------------------------------------------------------------------------
Results == [kind : {"none", "error", "cached", "ok"}, body : Seq(Parts)]

(* What Fetch returns is a result, given that a body is made of parts. *)
LEMMA ResultsTyped ==
  /\ NoResult \in Results /\ Failed \in Results /\ Hit \in Results
  /\ \A b \in Seq(Parts) : Ok(b) \in Results
<1>1. << >> \in Seq(Parts)
  BY EmptySeq
<1> QED BY <1>1 DEF NoResult, Failed, Hit, Ok, Results

(* Initially there is nothing of anything. *)
LEMMA InitIInv == Init => IInv
<1> SUFFICES ASSUME Init PROVE IInv
  OBVIOUS
<1>1. TypeOK
  <2>1. {wellFormed, cached, cancelled, expired} \subseteq BOOLEAN
    BY DEF Init
  <2>2. attempt \in 0..MaxRetries + 1 /\ sent \in 0..MaxRetries + 1 /\ pc = "attempt"
    BY BoundsAssumption DEF Init
  <2>3. pages \in [Further -> {"absent", "asking", "merged", "failed"}]
    BY DEF Init
  <2>4. buffer \in Seq(Parts) /\ queued \in Seq(Seq(Parts)) /\ result \in Results
    BY EmptySeq, ResultsTyped DEF Init
  <2> QED BY <2>1, <2>2, <2>3, <2>4 DEF TypeOK, Results
<1>2. Unreturned /\ SentPerAttempt /\ PagesIdle /\ Merging
  BY BoundsAssumption DEF Init, Unreturned, SentPerAttempt, PagesIdle, Merging
<1>3. CachesWhatItReturns /\ PagesOnce /\ NoStragglers
  BY DEF Init, NoResult, CachesWhatItReturns, PagesOnce, NoStragglers
<1> QED BY <1>1, <1>2, <1>3 DEF IInv

(* The loop's counters: an attempt is started only while some are left, and  *)
(* sends one request.                                                        *)
LEMMA SentPerAttemptKept ==
  ASSUME TypeOK, SentPerAttempt, Next
  PROVE  SentPerAttempt'
<1> USE BoundsAssumption
<1>1. CASE StartAttempt
  BY <1>1 DEF StartAttempt, Return, SentPerAttempt, TypeOK
<1>2. CASE Lookup \/ Send \/ DoFails
  BY <1>2 DEF Lookup, Send, DoFails, Return, SentPerAttempt, TypeOK
<1>3. CASE Answers
  BY <1>3 DEF Answers, AnswerOK, AnswerPartial, AnswerOther, Succeed, Return, SentPerAttempt, TypeOK
<1>4. CASE Page
  BY <1>4 DEF Page, PageMerges, PageFails, SentPerAttempt
<1>5. CASE PagesDone
  BY <1>5 DEF PagesDone, Succeed, Return, SentPerAttempt
<1>6. CASE Retry
  BY <1>6 DEF Retry, Return, SentPerAttempt, TypeOK
<1>7. CASE Wake
  BY <1>7 DEF Wake, SentPerAttempt, TypeOK
<1>8. CASE Cancel \/ Expire
  BY <1>8 DEF Cancel, Expire, SentPerAttempt
<1> QED BY <1>1, <1>2, <1>3, <1>4, <1>5, <1>6, <1>7, <1>8 DEF Next, Loop

(* Bodies are parts. *)
LEMMA PartsAppended ==
  ASSUME TypeOK, Next
  PROVE  buffer' \in Seq(Parts) /\ queued' \in Seq(Seq(Parts)) /\ result' \in Results
<1>1. FirstPart \in Parts /\ <<FirstPart>> \in Seq(Parts)
  BY BoundsAssumption DEF FirstPart, Parts
<1>2. buffer \in Seq(Parts) /\ queued \in Seq(Seq(Parts)) /\ result \in Results
  BY DEF TypeOK, Results
<1>3. ASSUME NEW b \in Seq(Parts), Succeed(b)
      PROVE  queued' \in Seq(Seq(Parts)) /\ result' \in Results
  <2>1. queued' \in Seq(Seq(Parts))
    BY <1>2, <1>3, AppendProperties DEF Succeed
  <2> QED BY <1>3, <2>1, ResultsTyped DEF Succeed, Return
<1>4. CASE UNCHANGED <<buffer, queued>> /\ (UNCHANGED result \/ Return(Failed) \/ Return(Hit))
  BY <1>2, <1>4, ResultsTyped DEF Return
<1>5. CASE AnswerOK
  <2>1. UNCHANGED buffer
    BY <1>5 DEF AnswerOK
  <2>2. CASE Succeed(<<FirstPart>>)
    BY <1>1, <1>2, <1>3, <2>1, <2>2
  <2>3. CASE UNCHANGED <<result, queued>>
    BY <1>2, <2>1, <2>3
  <2> QED BY <1>5, <2>2, <2>3 DEF AnswerOK
<1>6. CASE AnswerPartial
  BY <1>1, <1>2, <1>6 DEF AnswerPartial
<1>7. CASE Page
  <2>1. \A p \in Further, c \in {"schedules", "junk"} : [page |-> p, content |-> c] \in Parts
    BY BoundsAssumption DEF Further, Parts
  <2>2. UNCHANGED <<result, queued>>
    BY <1>7 DEF Page, PageMerges, PageFails
  <2>3. CASE \E p \in Further, c \in {"schedules", "junk"} :
               buffer' = Append(buffer, [page |-> p, content |-> c])
    BY <1>2, <2>1, <2>2, <2>3, AppendProperties
  <2>4. CASE UNCHANGED buffer
    BY <1>2, <2>2, <2>4
  <2> QED BY <1>7, <2>3, <2>4 DEF Page, PageMerges, PageFails
<1>8. CASE PagesDone
  BY <1>2, <1>3, <1>8 DEF PagesDone
<1> QED
  BY <1>4, <1>5, <1>6, <1>7, <1>8 DEF Next, Loop, Answers, StartAttempt, Lookup, Send, DoFails,
     AnswerOther, Retry, Wake, Cancel, Expire

LEMMA Typed ==
  ASSUME TypeOK, SentPerAttempt, Next
  PROVE  TypeOK'
<1> USE BoundsAssumption
<1>1. buffer' \in Seq(Parts) /\ queued' \in Seq(Seq(Parts)) /\ result' \in Results
  BY PartsAppended
<1>2. {wellFormed', cached', cancelled', expired'} \subseteq BOOLEAN
  BY DEF TypeOK, Next, Loop, Answers, Page, StartAttempt, Lookup, Send, DoFails, AnswerOK,
         AnswerPartial, AnswerOther, PageMerges, PageFails, PagesDone, Retry, Wake, Cancel, Expire
<1>3. pages' \in [Further -> {"absent", "asking", "merged", "failed"}]
  BY DEF TypeOK, Next, Loop, Answers, Page, StartAttempt, Lookup, Send, DoFails, AnswerOK,
         AnswerPartial, AnswerOther, PageMerges, PageFails, PagesDone, Retry, Wake, Cancel, Expire
<1>4. pc' \in {"attempt", "lookup", "request", "answer", "pages", "retry", "sleep", "returned"}
  BY DEF TypeOK, Next, Loop, Answers, Page, StartAttempt, Lookup, Send, DoFails, AnswerOK,
         AnswerPartial, AnswerOther, PageMerges, PageFails, PagesDone, Retry, Wake, Cancel,
         Expire, Succeed, Return
<1>5. attempt' \in 0..MaxRetries + 1 /\ sent' \in 0..MaxRetries + 1
  <2>1. CASE UNCHANGED <<attempt, sent>>
    BY <2>1 DEF TypeOK
  <2>2. CASE Send
    BY <2>2 DEF Send, TypeOK, SentPerAttempt
  <2>3. CASE Retry \/ Wake
    BY <2>3 DEF Retry, Wake, TypeOK, SentPerAttempt
  <2> QED
    BY <2>1, <2>2, <2>3 DEF Next, Loop, Answers, Page, StartAttempt, Lookup, DoFails, AnswerOK,
       AnswerPartial, AnswerOther, PageMerges, PageFails, PagesDone, Cancel, Expire
<1> QED BY <1>1, <1>2, <1>3, <1>4, <1>5 DEF TypeOK, Results

-----------------------------------------------------------------------------
(* Returning. *)

LEMMA ReturnsOnce ==
  ASSUME TypeOK, Unreturned, CachesWhatItReturns, Next
  PROVE  Unreturned' /\ CachesWhatItReturns'
<1>1. pc # "returned"
  BY DEF Next, Loop, Answers, Page, StartAttempt, Lookup, Send, DoFails, AnswerOK,
         AnswerPartial, AnswerOther, PageMerges, PageFails, PagesDone, Retry, Wake, Cancel, Expire
<1>2. result = NoResult /\ queued = << >>
  BY <1>1 DEF Unreturned
<1>3. CASE UNCHANGED <<result, queued>>
  BY <1>2, <1>3 DEF Unreturned, CachesWhatItReturns
<1>4. CASE \E r \in {Failed, Hit} : Return(r) /\ UNCHANGED queued
  BY <1>2, <1>4 DEF Unreturned, CachesWhatItReturns, Return, Failed, Hit
<1>5. CASE \E b \in {<<FirstPart>>, buffer} : Succeed(b)
  BY <1>2, <1>5 DEF Unreturned, CachesWhatItReturns, Succeed, Return, Ok
<1> QED
  BY <1>3, <1>4, <1>5 DEF Next, Loop, Answers, Page, StartAttempt, Lookup, Send, DoFails,
     AnswerOK, AnswerPartial, AnswerOther, PageMerges, PageFails, PagesDone, Retry, Wake,
     Cancel, Expire

-----------------------------------------------------------------------------
(* The pages. *)

LEMMA PagesIdleKept ==
  ASSUME TypeOK, PagesIdle, NoStragglers, Next
  PROVE  PagesIdle' /\ NoStragglers'
<1>1. CASE UNCHANGED pages /\ (pc' \in {"pages", "returned"} => pc' = pc \/ pc \notin {"pages", "returned"})
           /\ (pc \in {"pages", "returned"} => pc' = pc)
  BY <1>1 DEF PagesIdle, NoStragglers
<1>2. CASE AnswerPartial
  BY <1>2 DEF AnswerPartial, PagesIdle, NoStragglers
<1>3. CASE Page
  BY <1>3 DEF Page, PageMerges, PageFails, PagesIdle, NoStragglers
<1>4. CASE PagesDone
  BY <1>4 DEF PagesDone, Succeed, Return, PagesIdle, NoStragglers
<1> QED
  BY <1>1, <1>2, <1>3, <1>4 DEF Next, Loop, Answers, StartAttempt, Lookup, Send, DoFails,
     AnswerOK, AnswerOther, Retry, Wake, Cancel, Expire, Succeed, Return

LEMMA MergingKept ==
  ASSUME TypeOK, PagesIdle, Merging, Next
  PROVE  Merging'
<1>1. CASE pc' # "pages"
  BY <1>1 DEF Merging
<1>2. CASE pc = "pages" /\ UNCHANGED <<pc, pages, buffer>>
  BY <1>2 DEF Merging
<1>3. CASE AnswerPartial /\ pc' = "pages"
  <2>1. buffer' = <<FirstPart>> /\ \A p \in Further : pages'[p] # "merged"
    BY <1>3 DEF AnswerPartial
  <2>2. DOMAIN buffer' = {1} /\ buffer'[1] = FirstPart
    BY <2>1
  <2> QED BY <2>1, <2>2 DEF Merging
<1>4. ASSUME NEW p \in Further, PageFails(p)
      PROVE  Merging'
  BY <1>4 DEF PageFails, Merging, TypeOK
<1>5. ASSUME NEW p \in Further, PageMerges(p)
      PROVE  Merging'
  <2>1. PICK c \in {"schedules", "junk"} : buffer' = Append(buffer, [page |-> p, content |-> c])
    BY <1>5 DEF PageMerges
  <2>2. /\ Len(buffer) \in Nat /\ Len(buffer') = Len(buffer) + 1
        /\ DOMAIN buffer = 1..Len(buffer) /\ DOMAIN buffer' = 1..(Len(buffer) + 1)
        /\ \A i \in DOMAIN buffer : i \in DOMAIN buffer' /\ buffer'[i] = buffer[i]
        /\ buffer'[Len(buffer) + 1] = [page |-> p, content |-> c]
    BY <2>1 DEF TypeOK
  <2>3. /\ pc = "pages" /\ pages[p] = "asking"
        /\ pages'[p] = "merged" /\ \A q \in Further \ {p} : pages'[q] = pages[q]
    BY <1>5 DEF PageMerges, TypeOK
  <2>4. buffer # << >> /\ buffer[1] = FirstPart /\ 1 \in DOMAIN buffer
    BY <2>2, <2>3 DEF Merging, TypeOK
  <2>5. \A i \in DOMAIN buffer : buffer[i].page # p
    BY <2>3, <2>4 DEF Merging, FirstPart, Further
  <2>6. /\ buffer' # << >> /\ buffer'[1] = FirstPart
        /\ \A i, j \in DOMAIN buffer' : buffer'[i].page = buffer'[j].page => i = j
    BY <2>2, <2>3, <2>4, <2>5 DEF Merging
  <2>7. \A i \in DOMAIN buffer' : i # 1 =>
          buffer'[i].page \in Further /\ pages'[buffer'[i].page] = "merged"
    BY <2>2, <2>3, <2>5 DEF Merging
  <2>8. \A q \in Further : pages'[q] = "merged" => \E i \in DOMAIN buffer' : buffer'[i].page = q
    <3>1. Len(buffer) + 1 \in DOMAIN buffer' /\ buffer'[Len(buffer) + 1].page = p
      BY <2>2
    <3> QED BY <2>2, <2>3, <3>1 DEF Merging
  <2> QED BY <2>6, <2>7, <2>8 DEF Merging
<1> QED
  BY <1>1, <1>2, <1>3, <1>4, <1>5 DEF Next, Loop, Answers, Page, StartAttempt, Lookup, Send,
     DoFails, AnswerOK, AnswerPartial, AnswerOther, PagesDone, Retry, Wake, Cancel, Expire,
     Succeed, Return

LEMMA PagesOnceKept ==
  ASSUME IInv, Next
  PROVE  PagesOnce'
<1>1. pc # "returned"
  BY DEF Next, Loop, Answers, Page, StartAttempt, Lookup, Send, DoFails, AnswerOK,
         AnswerPartial, AnswerOther, PageMerges, PageFails, PagesDone, Retry, Wake, Cancel, Expire
<1>2. CASE UNCHANGED result \/ \E r \in {Failed, Hit} : Return(r)
  <2>1. result.kind = "none"
    BY <1>1 DEF IInv, Unreturned, NoResult
  <2>2. result'.kind # "ok"
    BY <1>2, <2>1 DEF Return, Failed, Hit
  <2> QED BY <2>2 DEF PagesOnce
<1>3. CASE AnswerOK /\ Succeed(<<FirstPart>>)
  <2>1. UNCHANGED pages /\ pages = [p \in Further |-> "absent"] /\ result' = Ok(<<FirstPart>>)
    BY <1>3 DEF AnswerOK, Succeed, Return, IInv, PagesIdle
  <2> QED BY <2>1 DEF PagesOnce, Ok, FirstPart
<1>4. CASE PagesDone
  <2>1. /\ UNCHANGED pages /\ result' = Ok(buffer) /\ pc = "pages"
        /\ \A p \in Further : pages[p] # "asking"
    BY <1>4 DEF PagesDone, Succeed, Return
  <2> QED BY <2>1 DEF PagesOnce, Ok, IInv, Merging
<1> QED
  BY <1>2, <1>3, <1>4 DEF Next, Loop, Answers, Page, StartAttempt, Lookup, Send, DoFails,
     AnswerOK, AnswerPartial, AnswerOther, PageMerges, PageFails, Retry, Wake, Cancel, Expire

-----------------------------------------------------------------------------
(* The theorems. *)

LEMMA NextIInv == IInv /\ [Next]_vars => IInv'
<1> SUFFICES ASSUME IInv, [Next]_vars PROVE IInv'
  OBVIOUS
<1>1. CASE Next
  BY <1>1, Typed, SentPerAttemptKept, ReturnsOnce, PagesIdleKept, MergingKept, PagesOnceKept
     DEF IInv
<1>2. CASE UNCHANGED vars
  BY <1>2 DEF vars, IInv, TypeOK, Unreturned, SentPerAttempt, PagesIdle, Merging,
              CachesWhatItReturns, PagesOnce, NoStragglers
<1> QED BY <1>1, <1>2

(* The inductive invariant holds in every reachable state. *)
THEOREM Invariance == Spec => []IInv
BY InitIInv, NextIInv, PTL DEF Spec

(* Every variable keeps its type; no more requests are sent than there are   *)
(* attempts.                                                                 *)
THEOREM TypeCorrect == Spec => []TypeOK
<1>1. IInv => TypeOK
  BY DEF IInv
<1> QED BY <1>1, Invariance, PTL

(* The cache is given what the caller is given, and only that, with any      *)
(* number of attempts.                                                       *)
THEOREM CachesReturned == Spec => []CachesWhatItReturns
<1>1. IInv => CachesWhatItReturns
  BY DEF IInv
<1> QED BY <1>1, Invariance, PTL

(* A response of any number of pages holds each page once, the first first,  *)
(* in whatever order they come in.                                           *)
THEOREM EachPageOnce == Spec => []PagesOnce
<1>1. IInv => PagesOnce
  BY DEF IInv
<1> QED BY <1>1, Invariance, PTL

(* No page goroutine outlives fetchPartialContent, however many there are.   *)
THEOREM PagesJoined == Spec => []NoStragglers
<1>1. IInv => NoStragglers
  BY DEF IInv
<1> QED BY <1>1, Invariance, PTL

(* However many attempts are left, none of them starts once the context is   *)
(* cancelled, and nothing more is sent.                                      *)
THEOREM WindsDown == Spec => WindsDownOnceCancelled
<1>1. ASSUME [Next]_vars
      PROVE  [cancelled => /\ sent' = sent
                           /\ pc' \in {"request", "lookup", "sleep"} => pc \in {pc', "lookup"}]_vars
  <2>1. CASE Next
    BY <2>1 DEF Next, Loop, Answers, Page, StartAttempt, Lookup, Send, DoFails, AnswerOK,
       AnswerPartial, AnswerOther, PageMerges, PageFails, PagesDone, Retry, Wake, Cancel, Expire,
       Succeed, Return
  <2>2. CASE UNCHANGED vars
    BY <2>2
  <2> QED BY <1>1, <2>1, <2>2
<1> QED BY <1>1, PTL DEF Spec, WindsDownOnceCancelled
=============================================================================
