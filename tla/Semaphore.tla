----------------------------- MODULE Semaphore -----------------------------
(***************************************************************************)
(* The counting semaphore of util/semaphore.js over the FIFO of            *)
(* util/wait_queue.js, used by coroutines of one process through           *)
(* surround(), surround_count() and submit_background().                   *)
(*                                                                         *)
(* Every method runs to completion, so each is one action.  A woken        *)
(* waiter already owns its count when release() returns.  Time is          *)
(* abstracted to its order: waiters time out in the order they came.       *)
(***************************************************************************)
EXTENDS Integers, FiniteSets, Sequences, SequencesExt

CONSTANTS
    SemProcs,  \* coroutines
    Initial,   \* the initial count
    Args,      \* what callers pass as count; -1 stands for "not a number"
    Timed      \* params.timeout is given

ASSUME SemProcsAssumption == IsFiniteSet(SemProcs)
ASSUME InitialAssumption  == Initial \in Nat
ASSUME ArgsAssumption     == Args \subseteq Int
ASSUME TimedAssumption    == Timed \in BOOLEAN

VARIABLES
    value,     \* _value
    waiting,   \* _waiting_value
    wq,        \* _wq: the waiting coroutines
    timer,     \* _timer is set
    sem_pc,    \* "idle", "waiting", or "holding" while its function runs
    count      \* the count a coroutine asked for

semVars == <<value, waiting, wq, timer, sem_pc, count>>

\* to_sem_count (rounding is left out: counts are integers)
ToSemCount(c) == IF c >= 0 THEN c ELSE 1

Total(S) == SumFunctionOnSet(count, S)
First(n) == {wq[i] : i \in 1..n}

SemInit ==
    /\ value = Initial
    /\ waiting = 0
    /\ wq = <<>>
    /\ timer = FALSE
    /\ sem_pc = [p \in SemProcs |-> "idle"]
    /\ count = [p \in SemProcs |-> 0]

\* mutant: an acquire that does not look at the queue
FitsNowUnfair(n) == n <= value
\* try_acquire_nonblocking: "if the queue is not empty we wait to keep fairness"
FitsNow(n) == wq = <<>> /\ n <= value

\* wait(), submit_background(): the count is taken at once
Acquire(p, c) ==
    LET n == ToSemCount(c)
    IN  /\ sem_pc[p] = "idle"
        /\ FitsNow(n)
        /\ value' = value - n
        /\ sem_pc' = [sem_pc EXCEPT ![p] = "holding"]
        /\ count' = [count EXCEPT ![p] = n]
        /\ UNCHANGED <<waiting, wq, timer>>

\* wait(): the caller gets in the back of the line
Enqueue(p, c) ==
    LET n == ToSemCount(c)
    IN  /\ sem_pc[p] = "idle"
        /\ ~FitsNow(n)
        /\ wq' = Append(wq, p)
        /\ waiting' = waiting + n
        /\ timer' = (timer \/ Timed)
        /\ sem_pc' = [sem_pc EXCEPT ![p] = "waiting"]
        /\ count' = [count EXCEPT ![p] = n]
        /\ UNCHANGED value

\* how many waiters the loop of release() wakes when the value is v
Grants(v) ==
    CHOOSE n \in 0..Len(wq) :
        /\ \A i \in 1..n : Total(First(i - 1)) < v /\ Total(First(i)) <= v
        /\ n < Len(wq) => ~(Total(First(n)) < v /\ Total(First(n + 1)) <= v)

\* the function of p ended, whatever its outcome: release()
Release(p) ==
    LET v == value + count[p]
        n == Grants(v)
    IN  /\ sem_pc[p] = "holding"
        /\ value' = v - Total(First(n))
        /\ waiting' = waiting - Total(First(n))
        /\ wq' = SubSeq(wq, n + 1, Len(wq))
        /\ sem_pc' = [q \in SemProcs |-> CASE q = p -> "idle"
                                    [] q \in First(n) -> "holding"
                                    [] OTHER -> sem_pc[q]]
        /\ count' = [count EXCEPT ![p] = 0]
        /\ UNCHANGED timer

\* the n oldest waiters are rejected with the timeout error
Reject(n) ==
    /\ timer
    /\ n \in 0..Len(wq)
    /\ sem_pc' = [q \in SemProcs |-> IF q \in First(n) THEN "idle" ELSE sem_pc[q]]
    /\ count' = [q \in SemProcs |-> IF q \in First(n) THEN 0 ELSE count[q]]

\* mutants: a rejected waiter releases too; the timer not set again; the rejected
\* waiters left in the queue
OnTimeoutReleasing(n) ==
    /\ Reject(n)
    /\ value' = value + Total(First(n))
    /\ waiting' = waiting - Total(First(n))
    /\ wq' = SubSeq(wq, n + 1, Len(wq))
    /\ timer' = (n < Len(wq))
OnTimeoutOnce(n) ==
    /\ Reject(n)
    /\ waiting' = waiting - Total(First(n))
    /\ wq' = SubSeq(wq, n + 1, Len(wq))
    /\ timer' = FALSE
    /\ UNCHANGED value
OnTimeoutQueued(n) ==
    /\ Reject(n)
    /\ waiting' = waiting - Total(First(n))
    /\ timer' = (n < Len(wq))
    /\ UNCHANGED <<value, wq>>
\* _on_timeout: the n oldest waiters have waited long enough; the timer is set
\* again for the next one, and nobody is woken
OnTimeout(n) ==
    /\ Reject(n)
    /\ waiting' = waiting - Total(First(n))
    /\ wq' = SubSeq(wq, n + 1, Len(wq))
    /\ timer' = (n < Len(wq))
    /\ UNCHANGED value

SemNext ==
    \/ \E p \in SemProcs : \/ \E c \in Args : Acquire(p, c) \/ Enqueue(p, c)
                        \/ Release(p)
    \/ \E n \in 0..Len(wq) : OnTimeout(n)

(* Functions end, and the clock goes on: a timer fires, and sooner or      *)
(* later it finds the oldest waiter expired.                               *)
SemFairness ==
    /\ \A p \in SemProcs : WF_semVars(Release(p))
    /\ WF_semVars(\E n \in 1..Len(wq) : OnTimeout(n))

SemSpec == SemInit /\ [][SemNext]_semVars /\ SemFairness

-----------------------------------------------------------------------------
(* Properties *)

Holding == {p \in SemProcs : sem_pc[p] = "holding"}
Waiting == {p \in SemProcs : sem_pc[p] = "waiting"}

\* The queue holds exactly the waiting coroutines, each once, waiting_value is what
\* they ask for, and a coroutine that neither waits nor holds has no count.
SemTypeOK ==
    /\ value \in Nat /\ waiting = Total(Waiting)
    /\ timer \in BOOLEAN
    /\ sem_pc \in [SemProcs -> {"idle", "waiting", "holding"}]
    /\ count \in [SemProcs -> Nat]
    /\ wq \in Seq(SemProcs) /\ IsInjective(wq) /\ ToSet(wq) = Waiting
    /\ \A p \in SemProcs : sem_pc[p] = "idle" => count[p] = 0

\* What was taken and what is left add up to the initial count: a timeout
\* neither takes nor returns anything (the comment in surround()).
Conserved == value + Total(Holding) = Initial

\* "The semaphore is fair": a coroutine gets its count before another one that
\* keeps waiting only if it was ahead of it in the queue.
NoOvertaking ==
    [][\A p \in SemProcs, q \in SemProcs :
         (sem_pc[p] # "holding" /\ sem_pc'[p] = "holding" /\ sem_pc[q] = "waiting" /\ sem_pc'[q] = "waiting")
            => \E i, j \in 1..Len(wq) : wq[i] = p /\ wq[j] = q /\ i < j]_semVars

\* Who waits gets the count, or the timeout error.
EventuallyServed == \A p \in SemProcs : []<>(sem_pc[p] # "waiting")
=============================================================================
