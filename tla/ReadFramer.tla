----------------------------- MODULE ReadFramer -----------------------------
(***************************************************************************)
(* The receiving half of BufferManager: read(TCPSocket) turns the bytes of *)
(* a connection, which come in pieces of any size, into messages of a      *)
(* fixed header and a body of the length the header gives, and hands each  *)
(* to the agent (readBack).                                                *)
(*                                                                         *)
(* A byte is <<i, k>>, the k-th of the i-th message the peer sent.  The    *)
(* loop calls read only for a descriptor that is ready, so there are bytes,*)
(* an end of stream or an error (Reactor: SnapshotHolds).  Messages are    *)
(* short enough for their length to stay positive as an int.               *)
(***************************************************************************)
EXTENDS Integers, Sequences

CONSTANTS HeaderSize,   \* HEADER_SIZE
          BodyLengths,  \* the lengths a peer gives in a header
          MaxMessages,  \* bound: messages sent on the connection
          Null          \* the null pointer

\* What is assumed of them.
FramerAssumption ==
    /\ HeaderSize \in Nat \ {0} /\ MaxMessages \in Nat
    /\ BodyLengths \subseteq Nat

VARIABLES lengths,      \* the body lengths of the messages sent so far
          wire,         \* bytes sent and not read yet
          ended,        \* the peer sends no more
          open,         \* the agent has not been retired
          m_bInit, m_bReadHead, m_iOffset, m_iLen,
          m_msgHeader,  \* m_InReq: the header's bytes read so far
          ioBuf,        \* m_InReq: the body's bytes read so far, or Null
          bodies,       \* history: body buffers allocated and not deleted
          delivered     \* what readBack was given

peerVars == <<lengths, wire, ended>>
bufferVars == <<m_bInit, m_bReadHead, m_iOffset, m_iLen, m_msgHeader, ioBuf,
                bodies, delivered>>
vars == <<peerVars, open, bufferVars>>

Bytes(i, first, last) == [k \in 1..(last - first + 1) |-> <<i, first + k - 1>>]
Header(i) == Bytes(i, 1, HeaderSize)
Body(i) == Bytes(i, HeaderSize + 1, HeaderSize + lengths[i])

Init ==
    /\ lengths = <<>> /\ wire = <<>> /\ ended = FALSE /\ open = TRUE
    /\ m_bInit = TRUE /\ m_bReadHead = TRUE /\ m_iOffset = 0 /\ m_iLen = 0
    /\ m_msgHeader = <<>> /\ ioBuf = Null
    /\ bodies = 0 /\ delivered = <<>>

-----------------------------------------------------------------------------
(* BufferManager::read *)

\* How much the next read asks for.
Asked == (IF m_bReadHead THEN HeaderSize ELSE m_iLen) - m_iOffset

\* The lengths that bytes can mean when they are taken for a header.
LengthIn(header) ==
    LET real == {i \in 1..Len(lengths) : header = Header(i)}
    IN  IF real = {} THEN BodyLengths ELSE {lengths[i] : i \in real}

\* Faulty: every piece is written at the start of the buffer.
FillStart(buf, offset, new) == new \o SubSeq(buf, Len(new) + 1, offset)

\* Bytes written at an offset of a buffer.
Fill(buf, offset, new) == SubSeq(buf, 1, offset) \o new

\* readSocket delivers n bytes of those that were asked for.
Arrive(n, asked) ==
    /\ open /\ n <= asked /\ n <= Len(wire)
    /\ wire' = SubSeq(wire, n + 1, Len(wire))
    /\ UNCHANGED <<lengths, ended, open>>

\* Faulty: a message without a body is no exception.
BodylessNever(length) == FALSE

Bodyless(length) == length = 0

readBack(header, body) ==
    delivered' = Append(delivered, [header |-> header, body |-> body])

\* Faulty: the next message's header forgets the body before it is deleted.
deleteBodyNot == ioBuf' = Null /\ UNCHANGED bodies

\* delete []m_InReq.ioBuf
deleteBody == ioBuf' = Null /\ bodies' = bodies - 1

ReadHeader(n) ==
    LET offset == m_iOffset + n
        header == Fill(IF m_bInit THEN <<>> ELSE m_msgHeader, m_iOffset,
                       SubSeq(wire, 1, n))
    IN  /\ m_bReadHead /\ Arrive(n, HeaderSize - m_iOffset)
        /\ m_msgHeader' = header
        /\ \/ /\ offset < HeaderSize
              /\ m_bInit' = FALSE /\ m_iOffset' = offset
              /\ m_iLen' = IF m_bInit THEN HeaderSize ELSE m_iLen
              /\ ioBuf' = IF m_bInit THEN Null ELSE ioBuf
              /\ UNCHANGED <<m_bReadHead, bodies, delivered>>
           \/ \E length \in LengthIn(header) :
              /\ offset = HeaderSize /\ ~Bodyless(length)
              /\ m_bInit' = FALSE /\ m_iOffset' = 0 /\ m_iLen' = length
              /\ m_bReadHead' = FALSE /\ ioBuf' = <<>> /\ bodies' = bodies + 1
              /\ UNCHANGED delivered
           \/ \E length \in LengthIn(header) :
              /\ offset = HeaderSize /\ Bodyless(length)
              /\ m_bInit' = TRUE /\ m_iOffset' = 0 /\ m_iLen' = 0
              /\ ioBuf' = Null
              /\ readBack(header, <<>>)
              /\ UNCHANGED <<m_bReadHead, bodies>>

ReadBody(n) ==
    LET offset == m_iOffset + n
        body == Fill(ioBuf, m_iOffset, SubSeq(wire, 1, n))
    IN  /\ ~m_bReadHead /\ Arrive(n, m_iLen - m_iOffset)
        /\ \/ /\ offset < m_iLen
              /\ m_iOffset' = offset /\ ioBuf' = body
              /\ UNCHANGED <<m_bInit, m_bReadHead, m_iLen, bodies, delivered>>
           \/ /\ offset = m_iLen
              /\ m_iOffset' = 0 /\ m_iLen' = 0
              /\ m_bReadHead' = TRUE /\ m_bInit' = TRUE
              /\ deleteBody
              /\ readBack(m_msgHeader, body)
        /\ UNCHANGED m_msgHeader

Read == \E n \in 1..Len(wire) : ReadHeader(n) \/ ReadBody(n)

\* Faulty: the end of the stream is no failure.
ReadNothingGoesOn ==
    /\ open /\ ended /\ wire = <<>>
    /\ UNCHANGED vars

\* readSocket returns 0 at the end of the stream, but also when it is asked for
\* nothing; read fails and the loop retires the agent.
ReadNothing ==
    /\ open /\ ((ended /\ wire = <<>>) \/ Asked = 0)
    /\ open' = FALSE
    /\ UNCHANGED <<peerVars, bufferVars>>

-----------------------------------------------------------------------------
Send(length) ==
    LET i == Len(lengths) + 1
    IN  /\ ~ended /\ Len(lengths) < MaxMessages
        /\ lengths' = Append(lengths, length)
        /\ wire' = wire \o Bytes(i, 1, HeaderSize + length)
        /\ UNCHANGED <<ended, open, bufferVars>>

\* The peer closes or resets the connection, perhaps in the middle of a message;
\* what was on its way may be lost.
End ==
    /\ ~ended /\ ended' = TRUE
    /\ \E lost \in 0..Len(wire) : wire' = SubSeq(wire, 1, Len(wire) - lost)
    /\ UNCHANGED <<lengths, open, bufferVars>>
-----------------------------------------------------------------------------
(* Properties; Connection has the specification they are about. *)

\* The messages delivered are those that were sent, in order, none cut, joined
\* or repeated, however the stream was cut into pieces (BufferManager.cpp:228-309).
DeliveredAsSent ==
    /\ Len(delivered) <= Len(lengths)
    /\ \A i \in 1..Len(delivered) :
          delivered[i] = [header |-> Header(i), body |-> Body(i)]
=============================================================================
