-------------------------- MODULE MailQueue_proofs --------------------------
(***************************************************************************)
(* What holds of MailQueue for any number of tasks and any setting.  The   *)
(* count is exact only because a task is never in two places; a slot is    *)
(* never idle beside a waiting task; hence each pass of the loop begins at *)
(* most one task.                                                          *)
(***************************************************************************)
EXTENDS MailQueue, FiniteSetTheorems, SequenceTheorems, TLAPS

LEMMA MaxConcurrentType == MaxConcurrent \in Nat
BY ConfigAssumption DEF MaxConcurrent

Known == Elements(queue) \cup running \cup settledTasks

Distinct(s) == \A i, j \in 1 .. Len(s) : i # j => s[i] # s[j]

QueueInv ==
    /\ TypeOK /\ IsFiniteSet(running)
    /\ CountIsExact /\ NoIdleSlot /\ FirstInFirstOut
    /\ Distinct(queue)
    /\ Elements(queue) \cap (running \cup settledTasks) = {}
    /\ Elements(arrivals) = Known

LEMMA ElementsType ==
    ASSUME NEW S, NEW s \in Seq(S)
    PROVE  Elements(s) \subseteq S
BY DEF Elements

LEMMA ElementsAppend ==
    ASSUME NEW S, NEW s \in Seq(S), NEW x \in S
    PROVE  Elements(Append(s, x)) = Elements(s) \cup {x}
<1>1. Len(Append(s, x)) = Len(s) + 1 /\ Append(s, x)[Len(s) + 1] = x
  OBVIOUS
<1>2. \A i \in 1 .. Len(s) : Append(s, x)[i] = s[i]
  OBVIOUS
<1> QED  BY <1>1, <1>2 DEF Elements

LEMMA ElementsTail ==
    ASSUME NEW S, NEW s \in Seq(S), s # <<>>
    PROVE  /\ Elements(s) = {s[1]} \cup Elements(Tail(s))
           /\ Tail(s) \in Seq(S) /\ s[1] \in S /\ Len(Tail(s)) = Len(s) - 1
           /\ s = <<s[1]>> \o Tail(s)
<1>1. Len(s) \in Nat \ {0} /\ Tail(s) \in Seq(S) /\ Len(Tail(s)) = Len(s) - 1
  OBVIOUS
<1>2. \A i \in 1 .. Len(s) - 1 : Tail(s)[i] = s[i + 1]
  OBVIOUS
<1>3. \A i \in 1 .. Len(s) : i = 1 \/ (i - 1 \in 1 .. Len(s) - 1 /\ s[i] = Tail(s)[i - 1])
  BY <1>1, <1>2
<1>4. Elements(s) = {s[1]} \cup Elements(Tail(s))
  BY <1>1, <1>2, <1>3, SMTT(30) DEF Elements
<1> QED  BY <1>1, <1>4

LEMMA DistinctAppend ==
    ASSUME NEW S, NEW s \in Seq(S), NEW x \in S, Distinct(s), x \notin Elements(s)
    PROVE  Distinct(Append(s, x))
<1>1. Len(Append(s, x)) = Len(s) + 1 /\ Append(s, x)[Len(s) + 1] = x /\ Len(s) \in Nat
  OBVIOUS
<1>2. \A i \in 1 .. Len(s) : Append(s, x)[i] = s[i] /\ s[i] # x
  BY DEF Elements
<1>3. \A i \in 1 .. Len(s) + 1 : i \in 1 .. Len(s) \/ i = Len(s) + 1
  BY <1>1
<1> QED  BY <1>1, <1>2, <1>3 DEF Distinct

LEMMA DistinctTail ==
    ASSUME NEW S, NEW s \in Seq(S), s # <<>>, Distinct(s)
    PROVE  Distinct(Tail(s)) /\ s[1] \notin Elements(Tail(s))
<1>1. Len(s) \in Nat \ {0} /\ Len(Tail(s)) = Len(s) - 1
  OBVIOUS
<1>2. \A i \in 1 .. Len(s) - 1 : Tail(s)[i] = s[i + 1]
  OBVIOUS
<1>3. \A i \in 1 .. Len(s) - 1 : i + 1 \in 1 .. Len(s) /\ i + 1 # 1
  BY <1>1
<1>4. 1 \in 1 .. Len(s)
  BY <1>1
<1>5. Distinct(Tail(s))
  <2> SUFFICES ASSUME NEW i \in 1 .. Len(s) - 1, NEW j \in 1 .. Len(s) - 1, i # j
               PROVE  s[i + 1] # s[j + 1]
    BY <1>1, <1>2 DEF Distinct
  <2>1. i + 1 # j + 1 /\ i + 1 \in 1 .. Len(s) /\ j + 1 \in 1 .. Len(s)
    BY <1>1
  <2> QED  BY <2>1 DEF Distinct
<1>6. \A i \in 1 .. Len(s) - 1 : Tail(s)[i] # s[1]
  BY <1>2, <1>3, <1>4 DEF Distinct
<1> QED  BY <1>1, <1>5, <1>6 DEF Elements

-----------------------------------------------------------------------------
(***************************************************************************)
(* One pass of the loop: it begins nothing, or the first task and no other.*)
(***************************************************************************)
Idles(q, a, b) == queue' = q /\ activeCount' = a /\ running' = b /\ started' = started

Begins(q, a, b) ==
    /\ q # <<>> /\ queue' = Tail(q) /\ activeCount' = a + 1
    /\ running' = b \cup {q[1]} /\ started' = started \o <<q[1]>>

LEMMA ElementsSmall ==
    ASSUME NEW x
    PROVE  Elements(<<>>) = {} /\ Elements(<<x>>) = {x}
<1>1. Len(<<x>>) = 1 /\ <<x>>[1] = x /\ Len(<<>>) = 0
  OBVIOUS
<1> QED  BY <1>1 DEF Elements

LEMMA FirstOf ==
    ASSUME NEW S, NEW q \in Seq(S), Len(q) >= 1
    PROVE  /\ SubSeq(q, 1, 1) = <<q[1]>> /\ SubSeq(q, 2, Len(q)) = Tail(q)
           /\ Len(q) = 1 => Tail(q) = <<>>
<1>1. Len(q) \in Nat /\ 1 \in 1 .. Len(q) /\ 1 \in 1 .. 1 /\ Len(q) \in 1 .. Len(q)
  OBVIOUS
<1>2. SubSeq(q, 1 + 1, 1) = <<>>
  BY SubSeqEmpty
<1>3. SubSeq(q, 1, 1) = <<q[1]>> \o SubSeq(q, 1 + 1, 1)
  BY <1>1, SubSeqRecursiveFirst
<1>4. q[1] \in S /\ <<q[1]>> \in Seq(S) /\ <<q[1]>> \o <<>> = <<q[1]>>
  BY <1>1
<1>5. SubSeq(q, 1, 1) = <<q[1]>>
  BY <1>2, <1>3, <1>4
<1>6. Tail(SubSeq(q, 1, Len(q))) = SubSeq(q, 1 + 1, Len(q))
  BY <1>1, HeadTailOfSubSeq
<1>7. SubSeq(q, 2, Len(q)) = Tail(q)
  BY <1>6, SubSeqFull
<1>8. Len(q) = 1 => SubSeq(q, 2, Len(q)) = <<>>
  BY <1>2
<1> QED  BY <1>5, <1>7, <1>8

LEMMA LoopsOnce ==
    ASSUME NEW m \in Nat, NEW n \in Nat, NEW a \in Nat, n >= 1, a < m, n <= 1 \/ a + 1 >= m
    PROVE  ~(a >= m) /\ (IF m - a <= n THEN m - a ELSE n) = 1
OBVIOUS

LEMMA OnePass ==
    ASSUME NEW q \in Seq(Task), NEW a \in Nat, NEW b, started \in Seq(Task),
           a <= MaxConcurrent, Len(q) <= 1 \/ a + 1 >= MaxConcurrent,
           ProcessQueue(q, a, b)
    PROVE  \/ Idles(q, a, b) /\ (q = <<>> \/ a = MaxConcurrent)
           \/ Begins(q, a, b) /\ a < MaxConcurrent /\ (Tail(q) = <<>> \/ a + 1 = MaxConcurrent)
<1>1. MaxConcurrent \in Nat /\ Len(q) \in Nat /\ (q = <<>> <=> Len(q) = 0)
  BY MaxConcurrentType
<1>2. CASE q = <<>> \/ a = MaxConcurrent
  <2>1. LoopCount(q, a) = 0
    BY <1>1, <1>2 DEF LoopCount
  <2>2. /\ queue' = SubSeq(q, 1, Len(q)) /\ activeCount' = a
        /\ running' = b \cup Elements(SubSeq(q, 1, 0))
        /\ started' = started \o SubSeq(q, 1, 0)
    BY <2>1 DEF ProcessQueue
  <2>3. SubSeq(q, 1, 0) = <<>> /\ SubSeq(q, 1, Len(q)) = q
    BY SubSeqEmpty, SubSeqFull
  <2>4. started \o <<>> = started
    BY ConcatEmptySeq
  <2>5. queue' = q /\ activeCount' = a
    BY <2>2, <2>3
  <2>6. running' = b
    BY <2>2, <2>3, ElementsSmall
  <2>7. started' = started
    BY <2>2, <2>3, <2>4
  <2> QED  BY <1>2, <2>5, <2>6, <2>7 DEF Idles
<1>3. CASE q # <<>> /\ a # MaxConcurrent
  <2>1. Len(q) >= 1 /\ a < MaxConcurrent
    BY <1>1, <1>3
  <2>2. LoopCount(q, a) = 1
    BY <1>1, <2>1, LoopsOnce DEF LoopCount
  <2>3. /\ queue' = SubSeq(q, 2, Len(q)) /\ activeCount' = a + 1
        /\ running' = b \cup Elements(SubSeq(q, 1, 1))
        /\ started' = started \o SubSeq(q, 1, 1)
    BY <2>2 DEF ProcessQueue
  <2>4. /\ SubSeq(q, 1, 1) = <<q[1]>> /\ SubSeq(q, 2, Len(q)) = Tail(q)
        /\ Len(q) = 1 => Tail(q) = <<>>
    BY <2>1, FirstOf
  <2>5. Begins(q, a, b)
    BY <1>3, <2>3, <2>4, ElementsSmall DEF Begins
  <2>6. Tail(q) = <<>> \/ a + 1 = MaxConcurrent
    BY <1>1, <2>1, <2>4
  <2> QED  BY <2>1, <2>5, <2>6
<1> QED  BY <1>2, <1>3

-----------------------------------------------------------------------------
(***************************************************************************)
(* A pass of the loop, over a queue q, a count a and the sends b that the  *)
(* operation leaves, re-establishes QueueInv and is a move of MailPool.    *)
(***************************************************************************)
Moves(w, s) ==
    \E S \in SUBSET w :
        /\ Elements(queue)' = w \ S
        /\ running' = s \cup S
        /\ Cardinality(running') <= MaxConcurrent
        /\ Elements(queue)' # {} => Cardinality(running') = MaxConcurrent

LEMMA SameCardinality == \A S : Pool!Cardinality(S) = Cardinality(S)
BY DEF Pool!Cardinality, Cardinality

LEMMA PassKeepsInv ==
    ASSUME NEW q \in Seq(Task), NEW a \in Nat, NEW b \in SUBSET Task,
           IsFiniteSet(b), a = Cardinality(b), a <= MaxConcurrent,
           Len(q) <= 1 \/ a + 1 >= MaxConcurrent,
           Distinct(q), Elements(q) \cap (b \cup settledTasks') = {},
           b \cap settledTasks' = {}, resolved' \cap rejected' = {},
           resolved' \subseteq Task, rejected' \subseteq Task,
           started \in Seq(Task), arrivals' \in Seq(Task), arrivals' = started \o q,
           Elements(arrivals)' = Elements(q) \cup b \cup settledTasks',
           ProcessQueue(q, a, b)
    PROVE  QueueInv' /\ Moves(Elements(q), b)
<1>1. MaxConcurrent \in Nat
  BY MaxConcurrentType
<1>2. CASE Idles(q, a, b) /\ (q = <<>> \/ a = MaxConcurrent)
  <2>1. queue' = q /\ activeCount' = a /\ running' = b /\ started' = started
    BY <1>2 DEF Idles
  <2>2. Elements(queue)' = Elements(q) /\ Distinct(queue)'
    BY <2>1 DEF Elements, Distinct
  <2>3. QueueInv'
    BY <1>2, <2>1, <2>2 DEF QueueInv, TypeOK, CountIsExact, NoIdleSlot, FirstInFirstOut, Known,
        settledTasks
  <2>4. Elements(queue)' = Elements(q) \ {} /\ running' = b \cup {}
    BY <2>1, <2>2
  <2>5. q = <<>> => Elements(q) = {}
    BY ElementsSmall
  <2>6. Moves(Elements(q), b)
    BY <1>2, <2>1, <2>4, <2>5 DEF Moves
  <2> QED  BY <2>3, <2>6
<1>3. CASE Begins(q, a, b) /\ a < MaxConcurrent /\ (Tail(q) = <<>> \/ a + 1 = MaxConcurrent)
  <2>1. /\ q # <<>> /\ queue' = Tail(q) /\ activeCount' = a + 1
        /\ running' = b \cup {q[1]} /\ started' = started \o <<q[1]>>
    BY <1>3 DEF Begins
  <2>2. /\ Elements(q) = {q[1]} \cup Elements(Tail(q))
        /\ Tail(q) \in Seq(Task) /\ q[1] \in Task /\ q = <<q[1]>> \o Tail(q)
    BY <2>1, ElementsTail
  <2>3. Distinct(Tail(q)) /\ q[1] \notin Elements(Tail(q))
    BY <2>1, DistinctTail
  <2>4. Elements(queue)' = Elements(Tail(q)) /\ Distinct(queue)'
    BY <2>1, <2>3 DEF Elements, Distinct
  <2>5. IsFiniteSet(running') /\ Cardinality(running') = a + 1
    BY <2>1, <2>2, FS_AddElement
  <2>6. <<q[1]>> \in Seq(Task)
    BY <2>2
  <2>7. started' \in Seq(Task)
    BY <2>1, <2>6
  <2>8. arrivals' = started' \o queue'
    <3>1. started \o (<<q[1]>> \o Tail(q)) = (started \o <<q[1]>>) \o Tail(q)
      BY <2>2, <2>6, ConcatAssociative, SMTT(30)
    <3>2. arrivals' = started \o (<<q[1]>> \o Tail(q))
      BY <2>2, Zenon
    <3> QED  BY <2>1, <3>1, <3>2, Zenon
  <2>9. TypeOK'
    BY <2>1, <2>2, <2>5, <2>7 DEF TypeOK, settledTasks
  <2>10. CountIsExact' /\ NoIdleSlot'
    BY <1>1, <1>3, <2>1, <2>5 DEF CountIsExact, NoIdleSlot
  <2>11. /\ Elements(queue)' \cap (running' \cup settledTasks') = {}
         /\ Elements(arrivals)' = Elements(queue)' \cup running' \cup settledTasks'
    BY <2>1, <2>2, <2>3, <2>4
  <2>12. QueueInv'
    BY <2>4, <2>5, <2>8, <2>9, <2>10, <2>11 DEF QueueInv, FirstInFirstOut, Known
  <2>13. Tail(q) = <<>> => Elements(queue)' = {}
    BY <2>4, ElementsSmall
  <2>14. Elements(queue)' = Elements(q) \ {q[1]} /\ {q[1]} \in SUBSET Elements(q)
    BY <2>2, <2>3, <2>4
  <2>15. Moves(Elements(q), b)
    <3>1. a + 1 <= MaxConcurrent /\ (Tail(q) # <<>> => a + 1 = MaxConcurrent)
      BY <1>1, <1>3
    <3>2. Cardinality(running') <= MaxConcurrent
      BY <2>5, <3>1
    <3>3. Elements(queue)' # {} => Cardinality(running') = MaxConcurrent
      BY <2>5, <2>13, <3>1
    <3> QED  BY <2>1, <2>14, <3>2, <3>3 DEF Moves
  <2> QED  BY <2>12, <2>15
<1> QED  BY <1>2, <1>3, OnePass

LEMMA EnqueueKeeps ==
    ASSUME QueueInv, NEW t \in Task, Enqueue(t)
    PROVE  QueueInv' /\ Pool!Submit(t)
<1> DEFINE q == Append(queue, t)
<1>1. /\ queue \in Seq(Task) /\ started \in Seq(Task) /\ arrivals \in Seq(Task)
      /\ activeCount \in Nat /\ running \subseteq Task /\ t \notin Known
      /\ resolved' = resolved /\ rejected' = rejected /\ settledTasks' = settledTasks
      /\ arrivals' = Append(arrivals, t) /\ ProcessQueue(q, activeCount, running)
  BY DEF QueueInv, TypeOK, Enqueue, settledTasks
<1>2. q \in Seq(Task) /\ Len(q) = Len(queue) + 1 /\ arrivals' \in Seq(Task)
  BY <1>1
<1>3. Elements(q) = Elements(queue) \cup {t} /\ Elements(arrivals)' = Elements(arrivals) \cup {t}
  <2>1. Elements(arrivals)' = Elements(Append(arrivals, t))
    BY <1>1 DEF Elements
  <2> QED  BY <1>1, <2>1, ElementsAppend
<1>4. Distinct(q)
  BY <1>1, DistinctAppend DEF QueueInv, Known
<1>5. arrivals' = started \o q
  <2>1. \A s, u \in Seq(Task) : Append(s \o u, t) = s \o Append(u, t)
    <3> SUFFICES ASSUME NEW s \in Seq(Task), NEW u \in Seq(Task)
                 PROVE  Append(s \o u, t) = s \o Append(u, t)
      OBVIOUS
    <3>1. s \o u \in Seq(Task) /\ <<t>> \in Seq(Task)
      OBVIOUS
    <3>2. Append(s \o u, t) = (s \o u) \o <<t>> /\ Append(u, t) = u \o <<t>>
      BY <3>1, AppendIsConcat
    <3> QED  BY <3>1, <3>2, ConcatAssociative
  <2> QED  BY <1>1, <2>1 DEF QueueInv, FirstInFirstOut
<1>6. Len(q) <= 1 \/ activeCount + 1 >= MaxConcurrent
  <2>1. queue = <<>> => Len(q) = 1
    BY <1>2
  <2>2. queue # <<>> => activeCount = MaxConcurrent
    BY DEF QueueInv, NoIdleSlot
  <2> QED  BY <1>1, <2>1, <2>2, MaxConcurrentType
<1>7. QueueInv' /\ Moves(Elements(q), running)
  <2> HIDE DEF q
  <2>1. Elements(q) \cap (running \cup settledTasks') = {}
    BY <1>1, <1>3 DEF QueueInv, Known
  <2>2. running \cap settledTasks' = {} /\ resolved' \cap rejected' = {}
    BY <1>1 DEF QueueInv, TypeOK
  <2>3. resolved' \subseteq Task /\ rejected' \subseteq Task
    BY <1>1 DEF QueueInv, TypeOK
  <2>4. Elements(arrivals)' = Elements(q) \cup running \cup settledTasks'
    BY <1>1, <1>3 DEF QueueInv, Known
  <2>5. /\ IsFiniteSet(running) /\ activeCount = Cardinality(running)
        /\ activeCount <= MaxConcurrent
    BY DEF QueueInv, CountIsExact
  <2> QED  BY <1>1, <1>2, <1>4, <1>5, <1>6, <2>1, <2>2, <2>3, <2>4, <2>5, PassKeepsInv
<1>8. Pool!Submit(t)
  <2>1. t \notin Elements(queue) \cup running \cup settledTasks
    BY <1>1 DEF Known
  <2>2. Moves(Elements(queue) \cup {t}, running)
    BY <1>3, <1>7
  <2>3. Pool!Admit(Elements(queue) \cup {t}, running)
    BY <2>2, SameCardinality DEF Moves, Pool!Admit
  <2> QED  BY <1>1, <2>1, <2>3 DEF Pool!Submit
<1> QED  BY <1>7, <1>8

LEMMA FinallyKeeps ==
    ASSUME QueueInv, NEW t \in running, Finally(t), arrivals' = arrivals,
           resolved' \subseteq Task, rejected' \subseteq Task, resolved' \cap rejected' = {},
           settledTasks' = settledTasks \cup {t}
    PROVE  QueueInv' /\ Pool!Settled(t)
<1> DEFINE b == running \ {t}
           a == activeCount - 1
<1>1. /\ queue \in Seq(Task) /\ started \in Seq(Task) /\ arrivals \in Seq(Task)
      /\ activeCount \in Nat /\ running \subseteq Task /\ b \in SUBSET Task
      /\ running \cap settledTasks = {}
  BY DEF QueueInv, TypeOK
<1>2. IsFiniteSet(b) /\ activeCount \in Nat \ {0} /\ a = Cardinality(b)
  <2>1. IsFiniteSet(running) /\ activeCount = Cardinality(running)
    BY DEF QueueInv, CountIsExact
  <2>2. IsFiniteSet(b) /\ Cardinality(b) = Cardinality(running) - 1
    BY <2>1, FS_RemoveElement
  <2>3. Cardinality(b) \in Nat
    BY <2>2, FS_CardinalityType
  <2> QED  BY <1>1, <2>1, <2>2, <2>3
<1>3. a \in Nat /\ a <= MaxConcurrent
  BY <1>1, <1>2, MaxConcurrentType DEF QueueInv, CountIsExact
<1>4. Len(queue) <= 1 \/ a + 1 >= MaxConcurrent
  <2>1. queue = <<>> => Len(queue) <= 1
    OBVIOUS
  <2>2. queue # <<>> => activeCount = MaxConcurrent
    BY DEF QueueInv, NoIdleSlot
  <2> QED  BY <1>1, <1>3, <2>1, <2>2, MaxConcurrentType
<1>5. QueueInv' /\ Moves(Elements(queue), b)
  <2>1. ProcessQueue(queue, a, b)
    BY DEF Finally
  <2> HIDE DEF a, b
  <2>2. Elements(queue) \cap (b \cup settledTasks') = {} /\ b \cap settledTasks' = {}
    BY <1>1 DEF QueueInv, b
  <2>3. Elements(arrivals)' = Elements(queue) \cup b \cup settledTasks'
    <3>1. Elements(arrivals)' = Elements(arrivals)
      BY DEF Elements
    <3> QED  BY <3>1 DEF QueueInv, Known, b
  <2>4. Distinct(queue) /\ arrivals' = started \o queue
    BY DEF QueueInv, FirstInFirstOut
  <2> QED  BY <1>1, <1>2, <1>3, <1>4, <2>1, <2>2, <2>3, <2>4, PassKeepsInv
<1>6. Pool!Settled(t)
  <2>1. Pool!Admit(Elements(queue), running \ {t})
    BY <1>5, SameCardinality DEF Moves, Pool!Admit
  <2> QED  BY <2>1 DEF Pool!Settled
<1> QED  BY <1>5, <1>6

LEMMA StepKeeps ==
    ASSUME QueueInv, [Next]_vars
    PROVE  QueueInv' /\ [Pool!PoolNext]_(Pool!poolVars)
<1>1. ASSUME NEW t \in Task, Enqueue(t)
      PROVE  QueueInv' /\ Pool!PoolNext
  BY <1>1, EnqueueKeeps DEF Pool!PoolNext
<1>2. ASSUME NEW t \in Task, SendSucceeds(t)
      PROVE  QueueInv' /\ Pool!PoolNext
  <2>1. /\ t \in running /\ Finally(t) /\ arrivals' = arrivals
        /\ resolved' = resolved \cup {t} /\ rejected' = rejected
    BY <1>2 DEF SendSucceeds
  <2>2. resolved \subseteq Task /\ rejected \subseteq Task /\ resolved \cap rejected = {}
        /\ t \notin rejected
    BY <2>1 DEF QueueInv, TypeOK, settledTasks
  <2>3. /\ resolved' \subseteq Task /\ rejected' \subseteq Task /\ resolved' \cap rejected' = {}
        /\ settledTasks' = settledTasks \cup {t}
    BY <2>1, <2>2 DEF settledTasks
  <2> QED  BY <2>1, <2>3, FinallyKeeps DEF Pool!PoolNext
<1>3. ASSUME NEW t \in Task, SendFails(t)
      PROVE  QueueInv' /\ Pool!PoolNext
  <2>1. /\ t \in running /\ Finally(t) /\ arrivals' = arrivals
        /\ rejected' = rejected \cup {t} /\ resolved' = resolved
    BY <1>3 DEF SendFails
  <2>2. resolved \subseteq Task /\ rejected \subseteq Task /\ resolved \cap rejected = {}
        /\ t \notin resolved
    BY <2>1 DEF QueueInv, TypeOK, settledTasks
  <2>3. /\ resolved' \subseteq Task /\ rejected' \subseteq Task /\ resolved' \cap rejected' = {}
        /\ settledTasks' = settledTasks \cup {t}
    BY <2>1, <2>2 DEF settledTasks
  <2> QED  BY <2>1, <2>3, FinallyKeeps DEF Pool!PoolNext
<1>4. CASE UNCHANGED vars
  <2>1. QueueInv'
    <3>1. /\ queue' = queue /\ activeCount' = activeCount /\ running' = running
          /\ resolved' = resolved /\ rejected' = rejected
          /\ arrivals' = arrivals /\ started' = started
      BY <1>4 DEF vars
    <3>2. /\ Distinct(queue)' /\ Elements(queue)' = Elements(queue)
          /\ Elements(arrivals)' = Elements(arrivals) /\ settledTasks' = settledTasks
      BY <3>1 DEF QueueInv, Distinct, Elements, settledTasks
    <3> QED  BY <3>1, <3>2 DEF QueueInv, TypeOK, CountIsExact, NoIdleSlot, FirstInFirstOut, Known
  <2>2. UNCHANGED Pool!poolVars
    BY <1>4 DEF vars, Pool!poolVars, Elements, settledTasks
  <2> QED  BY <2>1, <2>2
<1> QED  BY <1>1, <1>2, <1>3, <1>4 DEF Next, SendEnds

LEMMA InitHolds ==
    ASSUME Init
    PROVE  QueueInv /\ Pool!PoolInit
<1>1. /\ queue = <<>> /\ activeCount = 0 /\ running = {} /\ resolved = {} /\ rejected = {}
      /\ arrivals = <<>> /\ started = <<>>
  BY DEF Init
<1>2. Elements(queue) = {} /\ Elements(arrivals) = {}
  BY <1>1, ElementsSmall
<1>3. IsFiniteSet({}) /\ Cardinality({}) = 0
  BY FS_EmptySet
<1>4. <<>> \in Seq(Task) /\ <<>> \o <<>> = <<>>
  BY ConcatEmptySeq, EmptySeq
<1>5. Distinct(queue)
  BY <1>1 DEF Distinct
<1>6. TypeOK /\ CountIsExact /\ NoIdleSlot /\ FirstInFirstOut
  BY <1>1, <1>3, <1>4, MaxConcurrentType
     DEF TypeOK, CountIsExact, NoIdleSlot, FirstInFirstOut, settledTasks
<1>7. QueueInv
  BY <1>1, <1>2, <1>3, <1>5, <1>6 DEF QueueInv, Known, settledTasks
<1>8. Pool!PoolInit
  BY <1>1, <1>2 DEF Pool!PoolInit, settledTasks
<1> QED  BY <1>7, <1>8

-----------------------------------------------------------------------------
(***************************************************************************)
(* What a caller may rely on, for every number of mails and every setting. *)
(***************************************************************************)
\* QueueInv is the inductive invariant of MailQueueService.
THEOREM QueueInvariant == Spec => []QueueInv
<1>1. Init => QueueInv
  BY InitHolds
<1>2. QueueInv /\ [Next]_vars => QueueInv'
  BY StepKeeps
<1> QED  BY <1>1, <1>2, PTL DEF Spec

\* TypeOK of MailQueue: every mail that began or settled was enqueued.
THEOREM MailTypeOK == Spec => []TypeOK
<1>1. QueueInv => TypeOK
  BY DEF QueueInv
<1> QED  BY <1>1, QueueInvariant, PTL

\* activeCount is exactly the number of sends in flight and never passes the
\* configured concurrency.
THEOREM CountStaysExact == Spec => []CountIsExact
<1>1. QueueInv => CountIsExact
  BY DEF QueueInv
<1> QED  BY <1>1, QueueInvariant, PTL

\* No mail waits beside a free slot.
THEOREM NoSlotIdles == Spec => []NoIdleSlot
<1>1. QueueInv => NoIdleSlot
  BY DEF QueueInv
<1> QED  BY <1>1, QueueInvariant, PTL

\* Mails begin in the order in which enqueue was called.
THEOREM BeginsInOrder == Spec => []FirstInFirstOut
<1>1. QueueInv => FirstInFirstOut
  BY DEF QueueInv
<1> QED  BY <1>1, QueueInvariant, PTL

\* The queue, the counter and the promises refine the pool of MailPool.
THEOREM QueueImplementsPool == Spec => ImplementsPool
<1>1. Init => Pool!PoolInit
  BY InitHolds
<1>2. QueueInv /\ [Next]_vars => [Pool!PoolNext]_(Pool!poolVars)
  BY StepKeeps
<1> QED  BY <1>1, <1>2, QueueInvariant, PTL DEF Spec, ImplementsPool, Pool!PoolSpec

-----------------------------------------------------------------------------
(***************************************************************************)
(* What EveryMailSettles rests on besides fairness: while a mail is not    *)
(* settled some send is in flight, and every send that ends takes the      *)
(* front of the queue.  So a mail with n others before it begins after at  *)
(* most n + 1 ends.                                                        *)
(***************************************************************************)
\* With a limit above zero, a mail that was accepted and is not settled is
\* never left with nothing in flight that would bring its turn.
THEOREM UnsettledMailMoves ==
    ASSUME MaxConcurrent # 0
    PROVE  Spec => [](Elements(arrivals) \ settledTasks # {} => running # {})
<1>1. QueueInv => (Elements(arrivals) \ settledTasks # {} => running # {})
  <2> SUFFICES ASSUME QueueInv, running = {}, NEW t \in Elements(arrivals) \ settledTasks
               PROVE  FALSE
    OBVIOUS
  <2>1. t \in Elements(queue)
    BY DEF QueueInv, Known
  <2>2. queue # <<>>
    BY <2>1, ElementsSmall
  <2>3. activeCount = MaxConcurrent /\ activeCount = Cardinality({})
    BY <2>2 DEF QueueInv, NoIdleSlot, CountIsExact
  <2> QED  BY <2>3, FS_EmptySet
<1> QED  BY <1>1, QueueInvariant, PTL

\* Whether it succeeds or fails, a send that ends beside waiting mails begins
\* the one that has waited longest.
THEOREM EveryEndBeginsTheNext ==
    Spec => [][\A t \in Task : SendEnds(t) /\ queue # <<>> =>
                 queue' = Tail(queue) /\ running' = (running \ {t}) \cup {queue[1]}]_vars
<1>1. ASSUME QueueInv, NEW t \in Task, SendEnds(t), queue # <<>>
      PROVE  queue' = Tail(queue) /\ running' = (running \ {t}) \cup {queue[1]}
  <2>1. t \in running /\ Finally(t)
    BY <1>1 DEF SendEnds, SendSucceeds, SendFails
  <2>2. /\ queue \in Seq(Task) /\ started \in Seq(Task)
        /\ activeCount = MaxConcurrent /\ activeCount = Cardinality(running) /\ IsFiniteSet(running)
    BY <1>1 DEF QueueInv, TypeOK, NoIdleSlot, CountIsExact
  <2>3. Cardinality(running) # 0
    BY <2>1, <2>2, FS_EmptySet
  <2>4. activeCount - 1 \in Nat /\ activeCount - 1 < MaxConcurrent
        /\ (activeCount - 1) + 1 >= MaxConcurrent
    BY <2>2, <2>3, MaxConcurrentType
  <2>5. ProcessQueue(queue, activeCount - 1, running \ {t})
    BY <2>1 DEF Finally
  <2> DEFINE a == activeCount - 1
             b == running \ {t}
  <2>6. a \in Nat /\ a < MaxConcurrent /\ a + 1 >= MaxConcurrent /\ ProcessQueue(queue, a, b)
    BY <2>4, <2>5
  <2> HIDE DEF a, b
  <2>7. \/ Idles(queue, a, b) /\ (queue = <<>> \/ a = MaxConcurrent)
        \/ Begins(queue, a, b)
    BY <2>2, <2>6, MaxConcurrentType, OnePass
  <2>8. Begins(queue, a, b)
    BY <1>1, <2>6, <2>7, MaxConcurrentType
  <2> QED  BY <2>8 DEF Begins, b
<1>2. QueueInv /\ [Next]_vars =>
        [\A t \in Task : SendEnds(t) /\ queue # <<>> =>
            queue' = Tail(queue) /\ running' = (running \ {t}) \cup {queue[1]}]_vars
  BY <1>1
<1> QED  BY <1>2, QueueInvariant, PTL DEF Spec
=============================================================================
