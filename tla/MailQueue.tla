----------------------------- MODULE MailQueue ------------------------------
(***************************************************************************)
(* MailQueueService: outbound mail of one API instance, with a limit on    *)
(* how many sends are in flight.  JavaScript runs enqueue, the loop of     *)
(* processQueue, the part of runTask before its await, and the finally     *)
(* block without interruption, so each of them is inside one action; only  *)
(* the send itself (`await task.execute()`) takes time.                    *)
(***************************************************************************)
EXTENDS Integers, Sequences, FiniteSets

CONSTANTS
    Task,         \* calls of enqueue, each a task of its own
    IsFinite,     \* whether Number(MAIL_QUEUE_CONCURRENCY) is a finite number
    Configured    \* that number, in halves: a setting of 2.5 is 5

ASSUME ConfigAssumption == IsFinite \in BOOLEAN /\ Configured \in Int

\* Number.isFinite(configured) && configured > 0 ? Math.floor(configured) : 5
MaxConcurrent == IF IsFinite /\ Configured > 0 THEN Configured \div 2 ELSE 5

VARIABLES
    queue,        \* tasks not begun, first in first out
    activeCount,  \* the counter the loop compares with MaxConcurrent
    running,      \* tasks whose execute() is in flight
    resolved,     \* tasks whose promise resolved
    rejected,     \* tasks whose promise rejected
    arrivals,     \* history: every task, in the order of enqueue
    started       \* history: every task begun, in order

vars == <<queue, activeCount, running, resolved, rejected, arrivals, started>>

Elements(s) == {s[i] : i \in 1 .. Len(s)}

\* Mutant: activeCount rises only once the send is under way, after the loop.
LoopCountUncounted(q, active) == IF active < MaxConcurrent THEN Len(q) ELSE 0

\* how many tasks `while (activeCount < maxConcurrent && queue.length > 0)` shifts
LoopCount(q, active) ==
    IF active >= MaxConcurrent THEN 0
    ELSE IF MaxConcurrent - active <= Len(q) THEN MaxConcurrent - active ELSE Len(q)

\* Mutant: the task is taken with pop() instead of shift().
ProcessQueueLast(q, active, base) ==
    LET n == LoopCount(q, active)
        begun == SubSeq(q, Len(q) - n + 1, Len(q))
    IN  /\ queue' = SubSeq(q, 1, Len(q) - n)
        /\ activeCount' = active + n
        /\ running' = base \cup Elements(begun)
        /\ started' = started \o begun

\* the loop with runTask up to its await: shift, count, begin the send
ProcessQueue(q, active, base) ==
    LET n == LoopCount(q, active)
        begun == SubSeq(q, 1, n)
    IN  /\ queue' = SubSeq(q, n + 1, Len(q))
        /\ activeCount' = active + n
        /\ running' = base \cup Elements(begun)
        /\ started' = started \o begun

Enqueue(t) ==
    /\ t \notin Elements(arrivals)
    /\ arrivals' = Append(arrivals, t)
    /\ ProcessQueue(Append(queue, t), activeCount, running)
    /\ UNCHANGED <<resolved, rejected>>

\* Mutant: the clean-up follows resolve() instead of being in finally.
FinallySkipped(t) == UNCHANGED <<queue, activeCount, started>> /\ running' = running \ {t}

\* Mutant: activeCount falls in try as well as in finally.
FinallyTwice(t) == ProcessQueue(queue, activeCount - 2, running \ {t})

\* the finally block of runTask
Finally(t) == ProcessQueue(queue, activeCount - 1, running \ {t})

SendSucceeds(t) ==
    /\ t \in running
    /\ resolved' = resolved \cup {t}
    /\ Finally(t)
    /\ UNCHANGED <<rejected, arrivals>>

\* Mutant: a rejected send counts down but does not look at the queue again.
SendFailsQuietly(t) ==
    /\ t \in running
    /\ rejected' = rejected \cup {t}
    /\ running' = running \ {t} /\ activeCount' = activeCount - 1
    /\ UNCHANGED <<queue, started, resolved, arrivals>>

SendFails(t) ==
    /\ t \in running
    /\ rejected' = rejected \cup {t}
    /\ Finally(t)
    /\ UNCHANGED <<resolved, arrivals>>

Init ==
    /\ queue = <<>> /\ activeCount = 0 /\ running = {}
    /\ resolved = {} /\ rejected = {}
    /\ arrivals = <<>> /\ started = <<>>

SendEnds(t) == SendSucceeds(t) \/ SendFails(t)

Next == \E t \in Task : Enqueue(t) \/ SendEnds(t)

\* The Resend client answers or fails every request it was given.
Fairness == \A t \in Task : WF_vars(SendEnds(t))

Spec == Init /\ [][Next]_vars /\ Fairness

-----------------------------------------------------------------------------
settledTasks == resolved \cup rejected

\* The counter, the queue and the promises stay within their types, and a
\* task's promise is settled one way only.
TypeOK ==
    /\ queue \in Seq(Task) /\ arrivals \in Seq(Task) /\ started \in Seq(Task)
    /\ activeCount \in Nat
    /\ running \subseteq Task /\ resolved \subseteq Task /\ rejected \subseteq Task
    /\ resolved \cap rejected = {} /\ running \cap settledTasks = {}

\* activeCount is the number of sends in flight, and never above the setting.
CountIsExact == activeCount = Cardinality(running) /\ activeCount <= MaxConcurrent

\* A task waits in the queue only while the limit is reached: no failure or
\* burst leaves a slot idle beside a waiting mail.
NoIdleSlot == queue # <<>> => activeCount = MaxConcurrent

\* Mails begin in the order of their enqueue calls, none lost, none twice.
FirstInFirstOut == arrivals = started \o queue

Pool == INSTANCE MailPool
    WITH Capacity <- MaxConcurrent, waiting <- Elements(queue), sending <- running,
         settled <- settledTasks

\* MailQueue does no more than MailPool promises.
ImplementsPool == Pool!PoolSpec

\* Every promise handed out by enqueue is settled, if the limit is not zero.
EveryMailSettles ==
    \A t \in Task : t \in Elements(arrivals) ~> t \in settledTasks
=============================================================================
