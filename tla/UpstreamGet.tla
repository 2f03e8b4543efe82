---------------------------- MODULE UpstreamGet ----------------------------
(***************************************************************************)
(* SGUClient._get: every request to the SGU API goes through one           *)
(* asyncio.Semaphore and is tried up to MaxRetries times.  The calls are   *)
(* tasks of one event loop: a step runs from one await to the next, so the *)
(* interleavings are those of the awaits (the backoff sleep, the wait for  *)
(* the semaphore, the request).  A task may be cancelled at any of them.   *)
(***************************************************************************)
EXTENDS Integers, Sequences, FiniteSets

CONSTANTS Calls,         \* slots for concurrent calls; a slot is reused
          MaxConcurrency,\* settings.max_upstream_concurrency
          MaxRetries,    \* _MAX_RETRIES
          Outcomes,      \* how a request may end, a subset of AllOutcomes
          None

Transient == {"timeout", "server_error", "request_error"}
Final == {"ok", "bad_json", "client_error"}
AllOutcomes == Transient \cup Final

ASSUME CallsAssumption == IsFiniteSet(Calls)
ASSUME LimitsAssumption == MaxConcurrency \in Nat \ {0} /\ MaxRetries \in Nat \ {0}
ASSUME OutcomesAssumption == Outcomes \subseteq AllOutcomes

\* What the caller of _get sees for each outcome that is the last one.
Verdict == [ok            |-> "data",
            bad_json      |-> "JSONDecodeError",
            client_error  |-> "SGUResponseError",
            server_error  |-> "SGUUnavailableError",
            request_error |-> "SGUUnavailableError",
            timeout       |-> "SGUTimeoutError"]
Results == {Verdict[o] : o \in AllOutcomes} \cup {"CancelledError"}

VARIABLES pc,        \* where each call is
          attempt,   \* the loop variable
          lastExc,   \* last_exc
          result,    \* what the latest call of the slot returned or raised
          answers,   \* history: the outcomes of the requests of the call
          permits,   \* Semaphore._value
          queue      \* Semaphore._waiters that have not been granted a permit

semaphore == <<permits, queue>>
vars == <<pc, attempt, lastExc, result, answers, permits, queue>>

At(where) == {c \in Calls : pc[c] = where}
Holders == At("granted") \cup At("sending")

Places == {"idle", "backoff", "queued", "granted", "sending", "done"}
TypeOK ==
    /\ pc \in [Calls -> Places]
    /\ attempt \in [Calls -> 0..MaxRetries - 1]
    /\ lastExc \in [Calls -> Results \cup {None}]
    /\ result \in [Calls -> Results \cup {None}]
    /\ answers \in [Calls -> Seq(Outcomes)]
    /\ permits \in 0..MaxConcurrency
    /\ queue \in Seq(Calls)
    /\ \A i \in 1..Len(queue) : pc[queue[i]] = "queued"
    /\ \A c \in At("queued") : \E i \in 1..Len(queue) : queue[i] = c
    /\ \A i \in 1..Len(queue), j \in 1..Len(queue) : queue[i] = queue[j] => i = j

Init == /\ pc = [c \in Calls |-> "idle"]
        /\ attempt = [c \in Calls |-> 0]
        /\ lastExc = [c \in Calls |-> None]
        /\ result = [c \in Calls |-> None]
        /\ answers = [c \in Calls |-> <<>>]
        /\ permits = MaxConcurrency
        /\ queue = <<>>
-----------------------------------------------------------------------------
(* The semaphore of asyncio (Python 3.12).  A granted waiter owns its      *)
(* permit before its task runs again, and whoever finds a waiter, granted  *)
(* or not, goes to the back of the queue.                                  *)

HandOverLatest(n, free, waiting, places) ==   \* altered: serves the newest waiter first
    LET k == IF n < Len(waiting) THEN n ELSE Len(waiting)
        rest == Len(waiting) - k
    IN /\ permits' = free - k
       /\ queue' = SubSeq(waiting, 1, rest)
       /\ pc' = [c \in Calls |-> IF \E i \in rest + 1..Len(waiting) : waiting[i] = c
                                 THEN "granted" ELSE places[c]]

\* Grant up to n of the free permits to the first waiters.
HandOver(n, free, waiting, places) ==
    LET k == IF n < Len(waiting) THEN n ELSE Len(waiting)
    IN /\ permits' = free - k
       /\ queue' = SubSeq(waiting, k + 1, Len(waiting))
       /\ pc' = [c \in Calls |-> IF \E i \in 1..k : waiting[i] = c
                                 THEN "granted" ELSE places[c]]

Locked == permits = 0 \/ queue # <<>> \/ At("granted") # {}

\* "async with self._semaphore" as far as it goes without waiting.
Acquire(c) ==
    \/ /\ ~Locked
       /\ permits' = permits - 1
       /\ pc' = [pc EXCEPT ![c] = "sending"]
       /\ UNCHANGED queue
    \/ /\ Locked
       /\ queue' = Append(queue, c)
       /\ pc' = [pc EXCEPT ![c] = "queued"]
       /\ UNCHANGED permits

ReleaseSilently(c, next) ==       \* altered: the permit comes back, nobody is woken
    /\ permits' = permits + 1
    /\ pc' = [pc EXCEPT ![c] = next]
    /\ UNCHANGED queue

\* Leaving the block: the permit goes to the first waiter, if there is one.
Release(c, next) == HandOver(1, permits + 1, queue, [pc EXCEPT ![c] = next])
-----------------------------------------------------------------------------
\* A caller enters _get and its first attempt asks for the semaphore.
Begin(c) ==
    /\ pc[c] \in {"idle", "done"}
    /\ attempt' = [attempt EXCEPT ![c] = 0]
    /\ lastExc' = [lastExc EXCEPT ![c] = None]
    /\ result' = [result EXCEPT ![c] = None]
    /\ answers' = [answers EXCEPT ![c] = <<>>]
    /\ Acquire(c)

\* The sleep of a later attempt is over.
BackoffOver(c) ==
    /\ pc[c] = "backoff"
    /\ Acquire(c)
    /\ UNCHANGED <<attempt, lastExc, result, answers>>

RunOrRequeue(c) ==                \* altered: a woken task finds others waiting and queues again
    /\ pc[c] = "granted"
    /\ IF queue = <<>>
       THEN HandOver(permits, permits, queue, [pc EXCEPT ![c] = "sending"])
       ELSE HandOver(permits + 1, permits + 1, Append(queue, c), [pc EXCEPT ![c] = "queued"])
    /\ UNCHANGED <<attempt, lastExc, result, answers>>

\* The task of a granted waiter runs: it sends, and wakes further waiters if
\* permits are free.
Run(c) ==
    /\ pc[c] = "granted"
    /\ HandOver(permits, permits, queue, [pc EXCEPT ![c] = "sending"])
    /\ UNCHANGED <<attempt, lastExc, result, answers>>

End(c, r) == result' = [result EXCEPT ![c] = r]

AnswerFinal(c, o) ==
    /\ o \in Final
    /\ Release(c, "done")
    /\ End(c, Verdict[o])
    /\ UNCHANGED <<attempt, lastExc>>

RetryOnceMore(c, o) ==            \* altered: compares with MaxRetries before counting
    /\ o \in Transient
    /\ attempt[c] < MaxRetries
    /\ lastExc' = [lastExc EXCEPT ![c] = Verdict[o]]
    /\ attempt' = [attempt EXCEPT ![c] = @ + 1]
    /\ Release(c, "backoff")
    /\ UNCHANGED result

RetryKeepingPermit(c, o) ==       \* altered: a failed request does not release
    /\ o \in Transient
    /\ attempt[c] + 1 < MaxRetries
    /\ lastExc' = [lastExc EXCEPT ![c] = Verdict[o]]
    /\ attempt' = [attempt EXCEPT ![c] = @ + 1]
    /\ pc' = [pc EXCEPT ![c] = "backoff"]
    /\ UNCHANGED <<result, semaphore>>

RetryClientError(c, o) ==         \* altered: a 4xx is retried as well
    /\ o \in Transient \cup {"client_error"}
    /\ attempt[c] + 1 < MaxRetries
    /\ lastExc' = [lastExc EXCEPT ![c] = Verdict[o]]
    /\ attempt' = [attempt EXCEPT ![c] = @ + 1]
    /\ Release(c, "backoff")
    /\ UNCHANGED result

AnswerRetried(c, o) ==
    /\ o \in Transient
    /\ attempt[c] + 1 < MaxRetries
    /\ lastExc' = [lastExc EXCEPT ![c] = Verdict[o]]
    /\ attempt' = [attempt EXCEPT ![c] = @ + 1]
    /\ Release(c, "backoff")
    /\ UNCHANGED result

GiveUpWithFirst(c, o) ==          \* altered: raises the first error, not the last
    /\ o \in Transient
    /\ attempt[c] + 1 = MaxRetries
    /\ lastExc' = [lastExc EXCEPT ![c] = IF @ = None THEN Verdict[o] ELSE @]
    /\ Release(c, "done")
    /\ End(c, lastExc'[c])
    /\ UNCHANGED attempt

\* The loop is over: "raise last_exc", the exception of this very attempt.
AnswerGivenUp(c, o) ==
    /\ o \in Transient
    /\ attempt[c] + 1 = MaxRetries
    /\ lastExc' = [lastExc EXCEPT ![c] = Verdict[o]]
    /\ Release(c, "done")
    /\ End(c, lastExc'[c])
    /\ UNCHANGED attempt

\* httpx returns or raises; its timeouts bound the wait for this.
Answer(c, o) ==
    /\ pc[c] = "sending"
    /\ answers' = [answers EXCEPT ![c] = Append(@, o)]
    /\ AnswerFinal(c, o) \/ AnswerRetried(c, o) \/ AnswerGivenUp(c, o)

\* Position-wise removal, for a waiter that gives up.
Left(c) ==
    LET i == CHOOSE j \in 1..Len(queue) : queue[j] = c
    IN SubSeq(queue, 1, i - 1) \o SubSeq(queue, i + 1, Len(queue))

\* The task is cancelled: CancelledError is raised at the await it is in, and a
\* permit it owns goes back.
Cancel(c) ==
    /\ \/ /\ pc[c] = "backoff"
          /\ pc' = [pc EXCEPT ![c] = "done"]
          /\ UNCHANGED semaphore
       \/ /\ pc[c] = "queued"
          /\ HandOver(permits, permits, Left(c), [pc EXCEPT ![c] = "done"])
       \/ /\ pc[c] = "granted"
          /\ HandOver(permits + 1, permits + 1, queue, [pc EXCEPT ![c] = "done"])
       \/ /\ pc[c] = "sending"
          /\ Release(c, "done")
    /\ End(c, "CancelledError")
    /\ UNCHANGED <<attempt, lastExc, answers>>

CallStep(c) == \/ Begin(c) \/ BackoffOver(c) \/ Run(c) \/ Cancel(c)
               \/ \E o \in Outcomes : Answer(c, o)

Next == \E c \in Calls : CallStep(c)

\* The event loop runs every ready task, sleeps end and httpx times out; nothing
\* obliges a caller to begin or to cancel.
Fairness ==
    \A c \in Calls : WF_vars(Run(c) \/ BackoffOver(c) \/ \E o \in Outcomes : Answer(c, o))

Spec == Init /\ [][Next]_vars
FairSpec == Spec /\ Fairness
-----------------------------------------------------------------------------
\* No permit is lost or made: retries, errors and cancellations at any await
\* leave as many as the setting says, so no more than MaxConcurrency requests
\* of the client are under way.
PermitsConserved == permits + Cardinality(Holders) = MaxConcurrency

\* A call waits while a permit is free only behind a granted one whose task has
\* yet to run and will wake it: no release, cancellation or late arrival leaves
\* a waiter that nobody is going to wake.
NoLostWakeup == permits > 0 /\ queue # <<>> => At("granted") # {}

\* What a call reports is decided by the whole row of answers it got: data or a
\* final error only by its last request, all the earlier ones having failed in a
\* way worth retrying; a transient error only after MaxRetries requests, and it
\* is that of the last one.
Justified(r, row) ==
    LET n == Len(row)
    IN /\ n \in 1..MaxRetries
       /\ \A i \in 1..n - 1 : row[i] \in Transient
       /\ r = Verdict[row[n]]
       /\ row[n] \in Transient => n = MaxRetries
VerdictFollowsAnswers ==
    \A c \in At("done") : result[c] # "CancelledError" => Justified(result[c], answers[c])

\* The calls before c in the queue.
Ahead(c) ==
    {d \in Calls : \E i, j \in 1..Len(queue) : i < j /\ queue[i] = d /\ queue[j] = c}

\* While a call waits, a permit goes only to a call that was in the queue before it, and
\* nobody gets in before it: not a new call or a retry that finds a permit free, and not
\* when a waiter between them is cancelled.
NoOvertaking ==
    [][\A c \in At("queued") : pc'[c] = "queued" =>
          Holders' \ Holders \subseteq Ahead(c) /\ Ahead(c)' \subseteq Ahead(c)]_vars

\* The steps a call has before it at the most: four to an attempt.
Remaining(c) ==
    CASE pc[c] = "backoff" -> 4 * (MaxRetries - attempt[c])
      [] pc[c] = "queued"  -> 4 * (MaxRetries - attempt[c]) - 1
      [] pc[c] = "granted" -> 4 * (MaxRetries - attempt[c]) - 2
      [] pc[c] = "sending" -> 4 * (MaxRetries - attempt[c]) - 3
      [] OTHER -> 0

\* Whatever a call under way does, and whatever others do to it by handing over permits,
\* brings it nearer to its end: no step puts it back.
GoesForward ==
    [][\A c \in Calls : pc[c] \notin {"idle", "done"} /\ pc'[c] # pc[c] =>
          Remaining(c)' < Remaining(c)]_vars

\* Every call that was begun ends, however many others keep arriving: nobody
\* starves in the queue and no retry goes on for ever.
EveryCallEnds ==
    \A c \in Calls : pc[c] \in Places \ {"idle", "done"} ~> pc[c] = "done"
=============================================================================
