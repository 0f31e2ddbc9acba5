--------------------------- MODULE QueueTeardown ---------------------------
(***************************************************************************)
(* The end of a queue's life: when no thread is in a call any more, one    *)
(* thread runs ~Queue, which calls deQueue until that does not return 0    *)
(* and then destroys the semaphore.  No signal interrupts it.              *)
(***************************************************************************)
EXTENDS TwoLockQueue

CONSTANT Destroyer   \* the thread that runs ~Queue, one of Consumers

VARIABLES closing,   \* ~Queue has begun
          destroyed  \* and has returned

teardownVars == <<vars, closing, destroyed>>

Quiet == \A x \in Producers \cup Consumers : pc[x] = "idle"

TeardownInit == Init /\ closing = FALSE /\ destroyed = FALSE

Used ==
    /\ ~closing
    /\ \/ \E p \in Producers : enQueue(p)
       \/ \E c \in Consumers \ {Destroyer} : Enter(c) \/ deQueue(c)
    /\ UNCHANGED <<closing, destroyed>>

Close ==
    /\ ~closing /\ Quiet /\ closing' = TRUE
    /\ UNCHANGED <<vars, destroyed>>

Drain ==
    /\ closing /\ (Enter(Destroyer) \/ deQueue(Destroyer))
    /\ UNCHANGED <<closing, destroyed>>

LeaveLoop ==
    /\ closing /\ pc[Destroyer] = "idle" /\ \E r \in deQueueReturns : r # 0
    /\ destroyed' = TRUE
    /\ UNCHANGED <<vars, closing>>

TeardownNext == Used \/ Close \/ Drain \/ LeaveLoop

\* The thread that runs ~Queue is never stopped.
TeardownSpec ==
    /\ TeardownInit /\ [][TeardownNext]_teardownVars
    /\ WF_teardownVars(Drain) /\ WF_teardownVars(LeaveLoop)

\* ~Queue empties the queue and returns (Queue.h:101-108; the return -1 that
\* would end its loop is a comment, Queue.h:81).
DestructorReturns == closing ~> destroyed
=============================================================================
