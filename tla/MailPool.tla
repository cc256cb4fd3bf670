------------------------------ MODULE MailPool ------------------------------
(***************************************************************************)
(* What MailQueueService promises to its callers, without its queue: a     *)
(* mail waits, is being sent, or is settled; at most Capacity mails are    *)
(* being sent; and a mail waits only while Capacity others are being sent. *)
(***************************************************************************)
EXTENDS Naturals, FiniteSets

CONSTANTS Task, Capacity

VARIABLES waiting, sending, settled

poolVars == <<waiting, sending, settled>>

PoolInit == waiting = {} /\ sending = {} /\ settled = {}

\* some of the mails in w begin to be sent, next to those of s
Admit(w, s) ==
    \E S \in SUBSET w :
        /\ waiting' = w \ S
        /\ sending' = s \cup S
        /\ Cardinality(sending') <= Capacity
        /\ waiting' # {} => Cardinality(sending') = Capacity

Submit(t) ==
    /\ t \notin waiting \cup sending \cup settled
    /\ Admit(waiting \cup {t}, sending)
    /\ UNCHANGED settled

Settled(t) ==
    /\ t \in sending
    /\ Admit(waiting, sending \ {t})
    /\ settled' = settled \cup {t}

PoolNext == \E t \in Task : Submit(t) \/ Settled(t)

PoolSpec == PoolInit /\ [][PoolNext]_poolVars
=============================================================================
