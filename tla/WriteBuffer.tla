---------------------------- MODULE WriteBuffer ----------------------------
(***************************************************************************)
(* The sending half of BufferManager: writeDynamic queues a buffer,        *)
(* write(TCPSocket) hands the whole queue to writev, which takes as much   *)
(* as the socket has room for, and deletes what went out; a buffer of      *)
(* which a part went out stays first, with its iov_base moved on, and      *)
(* m_pLastIov remembers the address to delete.  Whoever queued a buffer is *)
(* told with writeBack.                                                    *)
(*                                                                         *)
(* Buffers are never empty: EchoAgent::package puts a header into each.    *)
(***************************************************************************)
EXTENDS Integers, Sequences, FiniteSets

CONSTANTS Buffers,      \* bound: the memory new can return
          Lengths,      \* of buffers
          MaxMessages,  \* bound: buffers queued on a connection
          Null          \* the null pointer

ASSUME WriteBufferAssumption ==
    /\ Null \notin Buffers /\ Lengths \subseteq Nat \ {0} /\ MaxMessages \in Nat

VARIABLES heap,         \* the buffers that are allocated
          m_lIovList,   \* what is still to be written
          m_pLastIov,   \* the buffer that was written in part
          phase,        \* of the agent: "open", "retired" or "destroyed"
          queued,       \* history: the lengths of the buffers queued
          wire,         \* history: the pieces the socket took
          answers       \* history: the calls of writeBack

vars == <<heap, m_lIovList, m_pLastIov, phase, queued, wire, answers>>

\* An iov_req for bytes off + 1 .. off + left of a buffer, the msg-th queued.
IovReq(msg, buf, left) ==
    [msg |-> msg, buf |-> buf, off |-> 0, left |-> left, m_bComplete |-> TRUE]

Init ==
    /\ heap = {} /\ m_lIovList = <<>> /\ m_pLastIov = Null
    /\ phase = "open"
    /\ queued = <<>> /\ wire = <<>> /\ answers = <<>>

\* Faulty: the list is replaced.
push_only(e) == <<e>>

push_back(e) == Append(m_lIovList, e)

\* TCPAgent::writeDynData, of a buffer made by new
writeDynamic(b, length) ==
    /\ phase = "open" /\ b \notin heap /\ Len(queued) < MaxMessages
    /\ heap' = heap \cup {b}
    /\ queued' = Append(queued, length)
    /\ m_lIovList' = push_back(IovReq(Len(queued) + 1, b, length))
    /\ UNCHANGED <<m_pLastIov, phase, wire, answers>>

\* What is deleted when an entry has been written.
Deleted(e) == IF e.m_bComplete THEN e.buf ELSE m_pLastIov

\* The piece of an entry that n bytes are.
Piece(e, n) == [msg |-> e.msg, from |-> e.off + 1, to |-> e.off + n]

\* Faulty: iov_base stays where it is.
AdvancedLength(e, n) == [e EXCEPT !.left = @ - n, !.m_bComplete = FALSE]

\* The entry after n of its bytes were written.
Advanced(e, n) ==
    [e EXCEPT !.off = @ + n, !.left = @ - n, !.m_bComplete = FALSE]

\* Faulty: m_pLastIov is not reset when its buffer is deleted.
LastKept(done) == m_pLastIov

\* m_pLastIov once the entries that were written are gone.
LastAfter(done) ==
    IF \E e \in done : ~e.m_bComplete THEN Null ELSE m_pLastIov

\* writev takes the first whole entries and n bytes of the next.
Written(whole, n) ==
    LET done == {m_lIovList[i] : i \in 1..whole}
        rest == SubSeq(m_lIovList, whole + 1, Len(m_lIovList))
    IN  /\ heap' = heap \ {Deleted(e) : e \in done}
        /\ answers' = answers \o
              [i \in 1..whole |-> [msg |-> m_lIovList[i].msg, result |-> TRUE]]
        /\ wire' = (wire \o [i \in 1..whole |-> Piece(m_lIovList[i], m_lIovList[i].left)])
                   \o (IF n = 0 THEN <<>> ELSE <<Piece(rest[1], n)>>)
        /\ m_lIovList' = IF n = 0 THEN rest ELSE [rest EXCEPT ![1] = Advanced(@, n)]
        /\ m_pLastIov' = IF n > 0 /\ rest[1].m_bComplete THEN rest[1].buf
                         ELSE LastAfter(done)

write(whole, n) ==
    /\ phase = "open" /\ whole + n > 0
    /\ n > 0 => whole < Len(m_lIovList) /\ n < m_lIovList[whole + 1].left
    /\ Written(whole, n)
    /\ UNCHANGED <<phase, queued>>
Write == \E whole \in 0..Len(m_lIovList) :
            \E n \in 0..(IF whole < Len(m_lIovList) THEN m_lIovList[whole + 1].left - 1
                         ELSE 0) : write(whole, n)

\* Faulty: a failed write is retried.
handleWriteErrorRetries ==
    /\ phase = "open" /\ m_lIovList # <<>>
    /\ answers' = answers \o
          [i \in 1..Len(m_lIovList) |-> [msg |-> m_lIovList[i].msg, result |-> FALSE]]
    /\ UNCHANGED <<phase, heap, m_lIovList, m_pLastIov, queued, wire>>

\* writev fails: everybody is told, the queue stays, the loop retires the agent.
handleWriteError ==
    /\ phase = "open" /\ m_lIovList # <<>>
    /\ answers' = answers \o
          [i \in 1..Len(m_lIovList) |-> [msg |-> m_lIovList[i].msg, result |-> FALSE]]
    /\ phase' = "retired"
    /\ UNCHANGED <<heap, m_lIovList, m_pLastIov, queued, wire>>

\* The loop retires the agent because a read failed: nobody is told.
Retired ==
    /\ phase = "open" /\ phase' = "retired"
    /\ UNCHANGED <<heap, m_lIovList, m_pLastIov, queued, wire, answers>>

\* ~BufferManager
Destroy ==
    /\ phase = "retired" /\ phase' = "destroyed"
    /\ heap' = heap \ ({e.buf : e \in {m_lIovList[i] : i \in {j \in 1..Len(m_lIovList) :
                                                m_lIovList[j].m_bComplete}}}
                       \cup {m_pLastIov})
    /\ m_lIovList' = <<>> /\ m_pLastIov' = Null
    /\ UNCHANGED <<queued, wire, answers>>
-----------------------------------------------------------------------------
(* Properties; Connection has the specification they are about. *)

\* Every allocated buffer has one owner, an entry of which nothing went out or
\* m_pLastIov; only the first entry can have gone out in part, and m_pLastIov is
\* its buffer.  So none leaks or is deleted twice (BufferManager.cpp:170-205,
\* 390-403, 416-429).
Whole == {i \in 1..Len(m_lIovList) : m_lIovList[i].m_bComplete}
BuffersOwned ==
    /\ heap = {m_lIovList[i].buf : i \in Whole} \cup ({m_pLastIov} \ {Null})
    /\ \A i, j \in 1..Len(m_lIovList) : m_lIovList[i].buf = m_lIovList[j].buf => i = j
    /\ \A i \in 2..Len(m_lIovList) : i \in Whole
    /\ m_pLastIov # Null <=> m_lIovList # <<>> /\ 1 \notin Whole
    /\ m_pLastIov # Null => m_pLastIov = m_lIovList[1].buf

\* The socket is given the bytes of the buffers in the order in which they were
\* queued, none missing, none twice, wherever writev stopped.
StreamInOrder ==
    /\ \A i \in 1..Len(wire) : wire[i].from <= wire[i].to
    /\ wire # <<>> => wire[1].msg = 1 /\ wire[1].from = 1
    /\ \A i \in 1..(Len(wire) - 1) :
          \/ /\ wire[i + 1].msg = wire[i].msg
             /\ wire[i + 1].from = wire[i].to + 1
          \/ /\ wire[i].to = queued[wire[i].msg]
             /\ wire[i + 1].msg = wire[i].msg + 1 /\ wire[i + 1].from = 1

\* writeBack is called once for a buffer, with true when all of it went out and
\* with false when it did not.
SentWhole(msg) == \E i \in 1..Len(wire) :
                     wire[i].msg = msg /\ wire[i].to = queued[msg]
AnsweredOnce ==
    /\ \A i, j \in 1..Len(answers) : answers[i].msg = answers[j].msg => i = j
    /\ \A i \in 1..Len(answers) : answers[i].result <=> SentWhole(answers[i].msg)
    /\ \A msg \in 1..Len(queued) :
          SentWhole(msg) => \E i \in 1..Len(answers) : answers[i].msg = msg

\* A queued buffer goes out, unless the connection is given up.
EverythingSent ==
    \A msg \in 1..MaxMessages :
        Len(queued) >= msg ~> (Len(queued) >= msg /\ SentWhole(msg)) \/ phase # "open"
=============================================================================
