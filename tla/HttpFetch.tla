------------------------------ MODULE HttpFetch ------------------------------
(***************************************************************************)
(* One call of HttpClientWrapper.Fetch: a cache lookup, up to MaxRetries+1 *)
(* attempts with a deadline each, a back-off between them, and, when the   *)
(* carrier answers 206, one goroutine per further page of the answer.      *)
(*                                                                         *)
(* The carrier and the network are the environment: they answer anything,  *)
(* late or never.  A context that is done makes every wait return; which   *)
(* of an answer and a done context is seen first is a choice.              *)
(***************************************************************************)
EXTENDS Naturals, Sequences, FiniteSets

CONSTANTS
  MaxRetries,   \* hc.maxRetries
  MaxPages      \* bound: pages of an answer beyond its first

ASSUME BoundsAssumption == MaxRetries \in Nat /\ MaxPages \in Nat

VARIABLES
  wellFormed,   \* methodRegister can build the request
  cached,       \* Redis holds a response for the request and answers
  cancelled,    \* the parent context is cancelled
  expired,      \* the deadline of this attempt's context has passed
  attempt,
  pc,
  sent,         \* first-page requests put on the wire so far
  pages,        \* pages[p]: the goroutine of the further page p
  buffer,       \* combinedResponses: the parts in the order they were merged
  result,       \* what Fetch returned
  queued        \* what AddToChannel was called with

vars == <<wellFormed, cached, cancelled, expired, attempt, pc, sent, pages, buffer,
          result, queued>>

Further == 1..MaxPages
Parts == [page : 0..MaxPages, content : {"schedules", "junk"}]

NoResult == [kind |-> "none", body |-> << >>]
Failed == [kind |-> "error", body |-> << >>]
Hit == [kind |-> "cached", body |-> << >>]
Ok(b) == [kind |-> "ok", body |-> b]
FirstPart == [page |-> 0, content |-> "schedules"]

Init ==
  /\ wellFormed \in BOOLEAN /\ cached \in BOOLEAN
  /\ cancelled = FALSE /\ expired = FALSE
  /\ attempt = 0 /\ pc = "attempt" /\ sent = 0
  /\ pages = [p \in Further |-> "absent"] /\ buffer = << >>
  /\ result = NoResult /\ queued = << >>

-----------------------------------------------------------------------------
(* The retry loop. *)

Return(r) == pc' = "returned" /\ result' = r

(* return result, nil *)
Succeed(b) ==
  /\ queued' = Append(queued, b)
  /\ Return(Ok(b))

\* mutant of StartAttempt: the loop runs while attempt <= maxRetries + 1
StartAttemptOffByOne ==
  /\ pc = "attempt"
  /\ IF attempt > MaxRetries + 1 \/ cancelled \/ ~wellFormed
     THEN Return(Failed) /\ UNCHANGED expired
     ELSE pc' = "request" /\ expired' = FALSE /\ UNCHANGED result
  /\ UNCHANGED <<wellFormed, cached, cancelled, attempt, sent, pages, buffer, queued>>

(* The head of the loop: the loop condition, then the cancellation check,    *)
(* then a context with a deadline and the request, whose failure breaks.     *)
StartAttempt ==
  /\ pc = "attempt"
  /\ IF attempt > MaxRetries \/ cancelled \/ ~wellFormed
     THEN Return(Failed) /\ UNCHANGED expired
     ELSE /\ pc' = IF attempt = 0 THEN "lookup" ELSE "request"
          /\ expired' = FALSE
          /\ UNCHANGED result
  /\ UNCHANGED <<wellFormed, cached, cancelled, attempt, sent, pages, buffer, queued>>

Lookup ==
  /\ pc = "lookup"
  /\ IF cached THEN Return(Hit) ELSE pc' = "request" /\ UNCHANGED result
  /\ UNCHANGED <<wellFormed, cached, cancelled, expired, attempt, sent, pages, buffer, queued>>

(* hc.client.Do: a context that is done already lets nothing on the wire.    *)
Send ==
  /\ pc = "request" /\ ~cancelled /\ ~expired
  /\ pc' = "answer" /\ sent' = sent + 1
  /\ UNCHANGED <<wellFormed, cached, cancelled, expired, attempt, pages, buffer, result, queued>>

(* Do returned an error: the transport's, or the context's. *)
DoFails ==
  /\ pc = "answer" \/ (pc = "request" /\ (cancelled \/ expired))
  /\ IF cancelled THEN Return(Failed) ELSE pc' = "retry" /\ UNCHANGED result
  /\ UNCHANGED <<wellFormed, cached, cancelled, expired, attempt, sent, pages, buffer, queued>>

\* mutant of AnswerOK: the body is cached before the read error is looked at
AnswerOKCachesFirst ==
  /\ pc = "answer"
  /\ \/ Succeed(<<FirstPart>>)
     \/ pc' = "retry" /\ queued' = Append(queued, <<FirstPart>>) /\ UNCHANGED result
  /\ UNCHANGED <<wellFormed, cached, cancelled, expired, attempt, sent, pages, buffer>>

(* 200: the body is read whole, or the read fails and the call is retried. *)
AnswerOK ==
  /\ pc = "answer"
  /\ \/ Succeed(<<FirstPart>>)
     \/ pc' = "retry" /\ UNCHANGED <<result, queued>>
  /\ UNCHANGED <<wellFormed, cached, cancelled, expired, attempt, sent, pages, buffer>>

\* mutant of AnswerPartial: the body that came with the 206 is not written
AnswerPartialLosesFirst ==
  /\ pc = "answer"
  /\ pc' = "pages"
  /\ \E n \in 0..MaxPages :
       pages' = [p \in Further |-> IF p <= n THEN "asking" ELSE "absent"]
  /\ buffer' = << >>
  /\ UNCHANGED <<wellFormed, cached, cancelled, expired, attempt, sent, result, queued>>

(* 206: fetchPartialContent.  A Content-Range it cannot parse or a body it   *)
(* cannot read is an error; otherwise one goroutine per further page.        *)
AnswerPartial ==
  /\ pc = "answer"
  /\ \/ /\ pc' = "pages"
        /\ \E n \in 0..MaxPages :
             pages' = [p \in Further |-> IF p <= n THEN "asking" ELSE "absent"]
        /\ buffer' = <<FirstPart>>
     \/ pc' = "retry" /\ UNCHANGED <<pages, buffer>>
  /\ UNCHANGED <<wellFormed, cached, cancelled, expired, attempt, sent, result, queued>>

(* Any other status is final: not retried. *)
AnswerOther ==
  /\ pc = "answer"
  /\ Return(Failed)
  /\ UNCHANGED <<wellFormed, cached, cancelled, expired, attempt, sent, pages, buffer, queued>>

(* A page goroutine never looks at the status: whatever body it can read is  *)
(* merged under the mutex.  An error is logged and the page left out.        *)
PageMerges(p) ==
  /\ pc = "pages" /\ pages[p] = "asking"
  /\ pages' = [pages EXCEPT ![p] = "merged"]
  /\ \E c \in {"schedules", "junk"} : buffer' = Append(buffer, [page |-> p, content |-> c])
  /\ UNCHANGED <<wellFormed, cached, cancelled, expired, attempt, pc, sent, result, queued>>

PageFails(p) ==
  /\ pc = "pages" /\ pages[p] = "asking"
  /\ pages' = [pages EXCEPT ![p] = "failed"]
  /\ UNCHANGED <<wellFormed, cached, cancelled, expired, attempt, pc, sent, buffer, result, queued>>

\* mutant of PagesDone: wg.Add is called by the goroutine, so Wait may return early
PagesDoneEarly ==
  /\ pc = "pages"
  /\ Succeed(buffer)
  /\ UNCHANGED <<wellFormed, cached, cancelled, expired, attempt, sent, pages, buffer>>

(* wg.Wait() returned. *)
PagesDone ==
  /\ pc = "pages" /\ \A p \in Further : pages[p] # "asking"
  /\ Succeed(buffer)
  /\ UNCHANGED <<wellFormed, cached, cancelled, expired, attempt, sent, pages, buffer>>

\* mutant of Retry: no look at the parent context before the back-off
RetryUnchecked ==
  /\ pc = "retry"
  /\ IF attempt < MaxRetries THEN pc' = "sleep" /\ UNCHANGED <<attempt, result>>
     ELSE pc' = "attempt" /\ attempt' = attempt + 1 /\ UNCHANGED result
  /\ UNCHANGED <<wellFormed, cached, cancelled, expired, sent, pages, buffer, queued>>

(* After a failed attempt: give up if cancelled, else back off, unless it    *)
(* was the last one.  time.Sleep is not interrupted by a cancellation.       *)
Retry ==
  /\ pc = "retry"
  /\ IF cancelled THEN Return(Failed) /\ UNCHANGED attempt
     ELSE IF attempt < MaxRetries THEN pc' = "sleep" /\ UNCHANGED <<attempt, result>>
     ELSE pc' = "attempt" /\ attempt' = attempt + 1 /\ UNCHANGED result
  /\ UNCHANGED <<wellFormed, cached, cancelled, expired, sent, pages, buffer, queued>>

Wake ==
  /\ pc = "sleep"
  /\ pc' = "attempt" /\ attempt' = attempt + 1
  /\ UNCHANGED <<wellFormed, cached, cancelled, expired, sent, pages, buffer, result, queued>>

-----------------------------------------------------------------------------
(* The environment. *)

\* mutant of Expire: the context of an attempt has no deadline
ExpireNever == FALSE /\ UNCHANGED vars

Cancel ==
  /\ ~cancelled /\ pc # "returned"
  /\ cancelled' = TRUE
  /\ UNCHANGED <<wellFormed, cached, expired, attempt, pc, sent, pages, buffer, result, queued>>

Expire ==
  /\ ~expired /\ pc \in {"lookup", "request", "answer", "pages"}
  /\ expired' = TRUE
  /\ UNCHANGED <<wellFormed, cached, cancelled, attempt, pc, sent, pages, buffer, result, queued>>

Answers == AnswerOK \/ AnswerPartial \/ AnswerOther
Page == \E p \in Further : PageMerges(p) \/ PageFails(p)
Loop == StartAttempt \/ Lookup \/ Send \/ PagesDone \/ Retry \/ Wake

Next == Loop \/ DoFails \/ Answers \/ Page \/ Cancel \/ Expire

(* The goroutine runs, and a context that is done makes what waits on it     *)
(* return with an error.  Nothing makes a carrier answer.                    *)
Fairness ==
  /\ WF_vars(Loop)
  /\ WF_vars(Expire)
  /\ WF_vars((cancelled \/ expired) /\ DoFails)
  /\ \A p \in Further : WF_vars((cancelled \/ expired) /\ PageFails(p))

Spec == Init /\ [][Next]_vars
FairSpec == Spec /\ Fairness

-----------------------------------------------------------------------------
(* Properties. *)

TypeOK ==
  /\ {wellFormed, cached, cancelled, expired} \subseteq BOOLEAN
  /\ attempt \in 0..MaxRetries + 1
  /\ pc \in {"attempt", "lookup", "request", "answer", "pages", "retry", "sleep", "returned"}
  /\ sent \in 0..MaxRetries + 1
  /\ pages \in [Further -> {"absent", "asking", "merged", "failed"}]
  /\ buffer \in Seq(Parts)
  /\ result \in [kind : {"none", "error", "cached", "ok"}, body : Seq(Parts)]
  /\ queued \in Seq(Seq(Parts))

(* The cache is given exactly what the caller is given, once, and nothing of *)
(* a call that failed, was cancelled in time or was answered by the cache.   *)
CachesWhatItReturns ==
  queued = IF result.kind = "ok" THEN <<result.body>> ELSE << >>

(* A response holds each of its pages once, its first page first, whatever   *)
(* order the page goroutines end in, and lacks only pages that failed.       *)
PagesOnce ==
  result.kind = "ok" =>
    /\ result.body # << >> /\ result.body[1] = FirstPart
    /\ \A i, j \in DOMAIN result.body : result.body[i].page = result.body[j].page => i = j
    /\ \A p \in Further : pages[p] \in {"asking", "merged"} =>
         \E i \in DOMAIN result.body : result.body[i].page = p

(* No page goroutine outlives the attempt that started it: none can append   *)
(* to the buffer of a later attempt or of a response already returned.       *)
NoStragglers == (\E p \in Further : pages[p] = "asking") => pc = "pages"

(* A cancelled call winds down: it sends nothing, starts no attempt and goes *)
(* to sleep no more, wherever the cancellation met it.                       *)
WindsDownOnceCancelled ==
  [][cancelled => /\ sent' = sent
                  /\ pc' \in {"request", "lookup", "sleep"} => pc \in {pc', "lookup"}]_vars

(* Whatever the carrier does or leaves undone, Fetch returns.                *)
Returns == <>(pc = "returned")

(* The comment on fetchPartialContent: "All or nothing approach."  What it   *)
(* returns holds every page of the answer, or it is an error.                *)
AllOrNothing ==
  result.kind = "ok" =>
    /\ \A p \in Further : pages[p] # "failed"
    /\ \A i \in DOMAIN result.body : result.body[i].content = "schedules"
=============================================================================
