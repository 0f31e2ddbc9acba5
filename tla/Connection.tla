----------------------------- MODULE Connection -----------------------------
(***************************************************************************)
(* One connection of the server: an agent with its BufferManager, of which *)
(* ReadFramer is the receiving half and WriteBuffer the sending half, from *)
(* the agent's construction to its destruction.  The loop calls recvData   *)
(* and sendData one at a time, in any order; a failure of either retires   *)
(* the agent with whatever the other half has not finished.                *)
(***************************************************************************)
EXTENDS WriteBuffer

CONSTANTS HeaderSize,   \* HEADER_SIZE
          BodyLengths,  \* the lengths a peer gives in a header
          MaxRequests   \* bound: messages the peer sends

VARIABLES lengths, arriving, ended, m_bInit, m_bReadHead, m_iOffset, m_iLen,
          m_msgHeader, ioBuf, bodies, delivered  \* see ReadFramer

In == INSTANCE ReadFramer WITH
    MaxMessages <- MaxRequests, wire <- arriving, open <- phase = "open"

ASSUME ConnectionAssumption == In!FramerAssumption

peerVars == <<lengths, arriving, ended>>
inVars == <<peerVars, m_bInit, m_bReadHead, m_iOffset, m_iLen, m_msgHeader,
            ioBuf, bodies, delivered>>
connVars == <<vars, inVars>>

ConnInit == Init /\ In!Init

\* TCPAgent::recvData, which fails at the end of the stream.
recvData == UNCHANGED vars /\ In!Read
recvDataFails == Retired /\ In!ReadNothing

\* TCPAgent::sendData
sendData == Write /\ UNCHANGED inVars
sendDataFails == handleWriteError /\ UNCHANGED inVars

\* An agent's timer or a task queues a buffer.
package == UNCHANGED inVars /\ \E b \in Buffers, length \in Lengths : writeDynamic(b, length)

\* The loop deletes the agents it retired.
Deletion == Destroy /\ UNCHANGED inVars

Peer == UNCHANGED vars /\ (In!End \/ \E length \in BodyLengths : In!Send(length))

ConnNext == \/ recvData \/ recvDataFails \/ sendData \/ sendDataFails
            \/ package \/ Deletion \/ Peer
ConnSpec == ConnInit /\ [][ConnNext]_connVars

\* The loop reads a ready descriptor again and again, writes while output is
\* queued if the peer goes on reading, and deletes what it retired (Reactor:
\* FairSpec, PendingOutputArmed).
FairSpec ==
    /\ ConnSpec
    /\ WF_connVars(recvData) /\ WF_connVars(recvDataFails)
    /\ WF_connVars(sendData) /\ WF_connVars(Deletion)
-----------------------------------------------------------------------------
(* Properties. *)

\* What ReadFramer promises, with a failed write ending the connection at any
\* byte (BufferManager.cpp:228-309); BuffersOwned, StreamInOrder, AnsweredOnce
\* and EverythingSent are WriteBuffer's, with a failed read ending it.
DeliveredAsSent == In!DeliveredAsSent

\* Every message that has come whole is delivered unless the stream or a write
\* fails: no read is for 0 bytes, whose result would be taken for the end of the
\* stream (BufferManager.cpp:230, 239, 254, 273, 281).
WriteFailed == \E i \in 1..Len(answers) : ~answers[i].result
AllDelivered ==
    \A i \in 1..MaxRequests :
        Len(lengths) >= i ~> (ended \/ WriteFailed \/ Len(delivered) >= i)

\* A connection that has ended is given up and its agent deleted.
EndIsSeen == ended ~> phase = "destroyed"

\* A connection that is gone leaves no memory behind but the body it was in the
\* middle of, which ~BufferManager does not delete: one, and only if the stream
\* ended, or a write failed, between a header and the end of its body
\* (BufferManager.cpp:247, 300, 408-433).
LeavesOnlyBody ==
    phase = "destroyed" =>
        /\ heap = {} /\ bodies \in {0, 1}
        /\ bodies = 1 =>
              /\ Len(delivered) < Len(lengths)
              /\ m_msgHeader = In!Header(Len(delivered) + 1)
              /\ Len(ioBuf) < lengths[Len(delivered) + 1]
=============================================================================
