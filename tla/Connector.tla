----------------------------- MODULE Connector -----------------------------
(***************************************************************************)
(* Agents that connect to a peer themselves: TCPAgent::connect, and what   *)
(* Epoll::run does with an agent in state CONNECTING until the connection  *)
(* stands or the agent is given up: EPOLLOUT is taken for success, EPOLLERR*)
(* or EPOLLHUP for failure, after which it tries again, MAXRECONNECTTIMES  *)
(* times before it tells the agent.                                        *)
(*                                                                         *)
(* The agent's owner calls connect once, from a handler or a timer; later  *)
(* only the loop does.  He may drop an agent from a timer, that is, while  *)
(* no event is left to handle, and writes only when connectAfter(true) was *)
(* called (writing: Reactor).  The batch has room for all that is ready.   *)
(* An entry with EPOLLIN and EPOLLOUT is handled in two steps, read then   *)
(* write, every other in one.  The branch for errno EISCONN has no action: *)
(* connect() is called on new sockets only, which never gives it.          *)
(*                                                                         *)
(* No agent here has a timer, so the timer flag (m_iTTEvent) is left out;  *)
(* setFd clears it too, and a timer started before would be forgotten.     *)
(***************************************************************************)
EXTENDS Integers, FiniteSets, EpollEvent

CONSTANTS Agents,            \* the slots an agent can be allocated in
          Fds,               \* the descriptors socket() can return
          MAXRECONNECTTIMES

ASSUME ConnectorAssumption ==
    NoFd \notin Fds /\ NoPtr \notin Agents /\ MAXRECONNECTTIMES \in Nat

VARIABLES pc,     \* of the loop: "wait", or "batch" while it handles events, or
                  \* "out" between the read and the write half of one
          cur,    \* the agent whose write half is next, at pc "out"
          batch,  \* entries of m_pEpollEvent not handled yet
          agent,  \* the TCPAgent objects
          sock    \* the kernel's sockets and epoll entries

vars == <<pc, cur, batch, agent, sock>>

Levels == {"IN", "OUT", "ERR"}

\* A slot without agent, and an agent made by TCPAgent(epl).  History: told,
\* what connectAfter was called with; got, whether a read succeeded; tries, how
\* often connect was called since connectAfter was.
Freed ==
    [phase |-> "free", m_iConnect |-> "CONNECTING", m_iConnectTimes |-> -1,
     m_iSockFd |-> NoFd, m_iFd |-> NoFd, m_iEpollEvent |-> {},
     told |-> {}, got |-> FALSE, tries |-> 0]
Constructed == [Freed EXCEPT !.phase = "live"]

\* conn is "none", "idle" (no connection begun, or refused at once), "syn", "up",
\* "eof" (the peer has closed) or "dead" (refused, timed out, reset).  History:
\* wasUp, whether it was ever connected.
NoSock == [conn |-> "none", rx |-> FALSE, wasUp |-> FALSE, entry |-> NoEntry]

Init ==
    /\ pc = "wait" /\ cur = NoPtr /\ batch = {}
    /\ agent = [a \in Agents |-> Freed]
    /\ sock = [f \in Fds |-> NoSock]

-----------------------------------------------------------------------------
(* What agent a does, on its fields ag and the sockets sk. *)

Result(ok, ag, sk) == [ok |-> ok, ag |-> ag, sk |-> sk]

View(ag, sk, room) ==
    [fd |-> ag.m_iFd, mask |-> ag.m_iEpollEvent, room |-> room,
     entry |-> IF ag.m_iFd \in Fds THEN sk[ag.m_iFd].entry ELSE NoEntry]

WithEntry(sk, fd, entry) ==
    IF fd \in Fds THEN [sk EXCEPT ![fd].entry = entry] ELSE sk

\* close() also takes the descriptor out of the epoll set.
closeSocket(sk, fd) == IF fd \in Fds THEN [sk EXCEPT ![fd] = NoSock] ELSE sk

\* Not begun, in progress (to the caller a failure too), or established.
connectSocket(ag, sk) ==
    {Result(conn = "up", ag,
            [sk EXCEPT ![ag.m_iSockFd].conn = conn,
                       ![ag.m_iSockFd].wasUp = conn = "up"]) :
        conn \in {"idle", "syn", "up"}}

\* Faulty: the events of the descriptor before are still believed in.
setFdOnly(ag) == [ag EXCEPT !.m_iFd = ag.m_iSockFd]

\* setFd forgets the events of the descriptor before (and its timer, see above).
setFd(ag) == [ag EXCEPT !.m_iFd = ag.m_iSockFd, !.m_iEpollEvent = {}]

\* The second half of connect: the epoll set may have no room.
RegisterAndConnect(a, ag, sk) ==
    LET reply(room) == registerRWEvent(View(setFd(ag), sk, room), a)
        after(s) == [setFd(ag) EXCEPT !.m_iEpollEvent = s.mask]
        entered(s) == WithEntry(sk, ag.m_iSockFd, s.entry)
    IN  UNION {IF reply(room).ok
               THEN connectSocket(after(reply(room)), entered(reply(room)))
               ELSE {Result(FALSE, after(reply(room)), entered(reply(room)))} :
                   room \in BOOLEAN}

\* A new descriptor, or none.
generateSocket(sk) == {NoFd} \cup {f \in Fds : sk[f].conn = "none"}

\* disableLinger, disableNagle and the two like them: one may be refused.
OptionsSet(ag, sk) == {Result(ok, ag, sk) : ok \in BOOLEAN}

\* Every outcome of TCPAgent::connect.  If socket() fails or an option is refused
\* the EpollEvent keeps the descriptor that was just closed.
connect(a, ag, sk) ==
    LET closed == closeSocket(sk, ag.m_iSockFd)
        again(f) == [ag EXCEPT !.m_iConnectTimes = @ + 1, !.tries = @ + 1,
                               !.m_iSockFd = f]
        opened(f) == [closed EXCEPT ![f].conn = "idle"]
        goesOn(r) == IF r.ok THEN RegisterAndConnect(a, r.ag, r.sk) ELSE {r}
    IN  UNION {IF f = NoFd THEN {Result(FALSE, again(f), closed)}
               ELSE UNION {goesOn(r) : r \in OptionsSet(again(f), opened(f))} :
                   f \in generateSocket(closed)}

\* recycler and release: unregister, then close.
Retired(a, ag, sk) ==
    LET s == unregisterRWEvent(View(ag, sk, TRUE), a)
    IN  Result(TRUE, [ag EXCEPT !.phase = "retired", !.m_iEpollEvent = s.mask,
                                !.m_iSockFd = NoFd],
               closeSocket(WithEntry(sk, ag.m_iFd, s.entry), ag.m_iSockFd))

\* TCPAgent::setState, whatever its argument.
setState(a, ag, sk) ==
    LET s == closeWEvent(View(ag, sk, TRUE), a)
    IN  Result(TRUE, [ag EXCEPT !.m_iConnect = "CONNECTED", !.m_iEpollEvent = s.mask],
               WithEntry(sk, ag.m_iFd, s.entry))

\* The agent's own override may fail.
connectAfter(r, yes) ==
    {Result(ok, [r.ag EXCEPT !.told = @ \cup {yes}, !.tries = 0], r.sk) :
        ok \in BOOLEAN}

Readable(ag, sk) == ag.m_iSockFd \in Fds /\ sk[ag.m_iSockFd].rx

\* recvData: takes what has come, or fails at the end of the stream, on an error
\* and for a header it refuses.
recvData(ag, sk) ==
    {Result(FALSE, ag, sk)} \cup
    IF Readable(ag, sk)
    THEN {Result(TRUE, [ag EXCEPT !.got = TRUE], [sk EXCEPT ![ag.m_iSockFd].rx = FALSE])}
    ELSE {}

-----------------------------------------------------------------------------
(* The loop. *)

Level(f) ==
    (IF sock[f].rx \/ sock[f].conn \in {"eof", "dead"} THEN {"IN"} ELSE {})
    \cup (IF sock[f].conn = "syn" THEN {} ELSE {"OUT"})
    \cup (IF sock[f].conn \in {"idle", "dead"} THEN {"ERR"} ELSE {})
Reported(f) == Level(f) \cap (sock[f].entry.events \cup {"ERR"})
Ready ==
    {[ptr |-> sock[f].entry.ptr, ev |-> Reported(f)] :
        f \in {g \in Fds : sock[g].entry.ptr # NoPtr /\ Reported(g) # {}}}

\* Ready descriptors, or the timeout.
EpollWait ==
    /\ pc = "wait" /\ pc' = "batch" /\ batch' = Ready
    /\ UNCHANGED <<cur, agent, sock>>

\* Faulty: an agent that failed is kept.
FinishKeeps(a, r) ==
    /\ agent' = [agent EXCEPT ![a] = r.ag]
    /\ sock' = r.sk

\* What a handler leaves: the agent is retired if it failed.
Finish(a, r) ==
    LET end == IF r.ok THEN r ELSE Retired(a, r.ag, r.sk)
    IN  /\ agent' = [agent EXCEPT ![a] = end.ag]
        /\ sock' = end.sk

\* Faulty: the entry is handled again.
HandlingStays(e) ==
    /\ pc = "batch" /\ e \in batch
    /\ UNCHANGED batch

Handling(e) ==
    /\ pc = "batch" /\ e \in batch
    /\ batch' = batch \ {e}

Connecting(e) == agent[e.ptr].m_iConnect = "CONNECTING"

\* Faulty: one attempt too many.
allowReconnectOnce(ag) == ag.m_iConnectTimes <= MAXRECONNECTTIMES

allowReconnect(ag) == ag.m_iConnectTimes < MAXRECONNECTTIMES

\* Faulty: EPOLLOUT is looked at first.
FailedNoWrite(e) == "ERR" \in e.ev /\ "OUT" \notin e.ev

\* The entry is taken for an error.
Failed(e) == "ERR" \in e.ev

\* getOppAddr, which does not fail, gives the address for another attempt.
Reconnect(e) ==
    LET a == e.ptr
    IN  /\ Handling(e) /\ Failed(e) /\ Connecting(e) /\ allowReconnect(agent[a])
        /\ \E r \in connect(a, agent[a], sock) : Finish(a, r)
        /\ UNCHANGED <<pc, cur>>

\* resetConnect, and the agent is told; it may stay, with its dead socket.
ConnectFailed(e) ==
    LET a == e.ptr
        reset == [agent[a] EXCEPT !.m_iConnectTimes = 0]
    IN  /\ Handling(e) /\ Failed(e) /\ Connecting(e) /\ ~allowReconnect(agent[a])
        /\ \E r \in connectAfter(Result(TRUE, reset, sock), FALSE) : Finish(a, r)
        /\ UNCHANGED <<pc, cur>>

\* Data, the end of the stream, or an error of an established connection.  A
\* read that fails ends the entry; so does one that succeeds without EPOLLOUT.
Read(e) ==
    LET a == e.ptr
    IN  /\ Handling(e)
        /\ IF Failed(e) THEN ~Connecting(e) ELSE "IN" \in e.ev
        /\ \E r \in recvData(agent[a], sock) :
              /\ r.ok => Failed(e) \/ "OUT" \notin e.ev
              /\ Finish(a, r)
        /\ UNCHANGED <<pc, cur>>

\* Faulty: a read that succeeds ends the entry.
ReadFirstEnds(e) ==
    LET a == e.ptr
    IN  /\ Handling(e) /\ ~Failed(e) /\ {"IN", "OUT"} \subseteq e.ev
        /\ \E r \in recvData(agent[a], sock) : r.ok /\ Finish(a, r)
        /\ UNCHANGED <<pc, cur>>

\* A read that succeeds, readBack included, goes on to EPOLLOUT.
ReadFirst(e) ==
    LET a == e.ptr
    IN  /\ Handling(e) /\ ~Failed(e) /\ {"IN", "OUT"} \subseteq e.ev
        /\ \E r \in recvData(agent[a], sock) : r.ok /\ Finish(a, r)
        /\ pc' = "out" /\ cur' = a

\* The agent whose entry is at EPOLLOUT.
OutTurn(a) ==
    \/ pc = "out" /\ cur = a /\ batch' = batch
    \/ \E e \in batch :
          /\ e.ptr = a /\ Handling(e) /\ ~Failed(e)
          /\ "OUT" \in e.ev /\ "IN" \notin e.ev

\* EPOLLOUT of an agent in state CONNECTING is taken for success.
ConnectDone(a) ==
    /\ OutTurn(a) /\ agent[a].m_iConnect = "CONNECTING"
    /\ \E r \in connectAfter(setState(a, agent[a], sock), TRUE) : Finish(a, r)
    /\ pc' = "batch" /\ cur' = NoPtr

\* The retired agents are deleted at the end of the pass.
DoTask ==
    /\ pc = "batch" /\ batch = {}
    /\ pc' = "wait"
    /\ agent' = [a \in Agents |-> IF agent[a].phase = "retired" THEN Freed ELSE agent[a]]
    /\ UNCHANGED <<cur, batch, sock>>

LoopStep ==
    \/ EpollWait
    \/ \E e \in batch : Reconnect(e) \/ ConnectFailed(e) \/ Read(e) \/ ReadFirst(e)
    \/ \E a \in Agents : ConnectDone(a)
    \/ DoTask

-----------------------------------------------------------------------------
(* The owner, the network and the peers. *)

OwnerConnects(a) ==
    /\ agent[a].phase = "free"
    /\ \E r \in connect(a, Constructed, sock) :
          agent' = [agent EXCEPT ![a] = r.ag] /\ sock' = r.sk
    /\ UNCHANGED <<pc, cur, batch>>

OwnerDrops(a) ==
    /\ pc = "wait" /\ agent[a].phase = "live"
    /\ Finish(a, Result(FALSE, agent[a], sock))
    /\ UNCHANGED <<pc, cur, batch>>

Becomes(f, conn) == [sock[f] EXCEPT !.conn = conn, !.wasUp = @ \/ conn = "up"]

\* An attempt is answered, refused, or times out.
Answered(f) ==
    /\ sock[f].conn = "syn"
    /\ \E conn \in {"up", "dead"} : sock' = [sock EXCEPT ![f] = Becomes(f, conn)]
    /\ UNCHANGED <<pc, cur, batch, agent>>

PeerSends(f) ==
    /\ sock[f].conn = "up"
    /\ sock' = [sock EXCEPT ![f].rx = TRUE]
    /\ UNCHANGED <<pc, cur, batch, agent>>

\* Closed in order, or reset, which loses what was not read.
PeerLeaves(f) ==
    /\ \/ sock[f].conn = "up" /\ sock' = [sock EXCEPT ![f].conn = "eof"]
       \/ /\ sock[f].conn \in {"up", "eof"}
          /\ sock' = [sock EXCEPT ![f].conn = "dead", ![f].rx = FALSE]
    /\ UNCHANGED <<pc, cur, batch, agent>>

Next ==
    \/ LoopStep
    \/ \E a \in Agents : OwnerConnects(a) \/ OwnerDrops(a)
    \/ \E f \in Fds : Answered(f) \/ PeerSends(f) \/ PeerLeaves(f)
Spec == Init /\ [][Next]_vars

\* The loop's thread is never stopped; the kernel gives up an attempt that is not
\* answered.
FairSpec == Spec /\ WF_vars(LoopStep) /\ \A f \in Fds : WF_vars(Answered(f))
-----------------------------------------------------------------------------
(* Properties. *)

Live(a) == agent[a].phase = "live"

AgentRecord ==
    [phase : {"free", "live", "retired"}, m_iConnect : {"CONNECTING", "CONNECTED"},
     m_iConnectTimes : -1..MAXRECONNECTTIMES, m_iSockFd : Fds \cup {NoFd},
     m_iFd : Fds \cup {NoFd}, m_iEpollEvent : SUBSET Events,
     told : SUBSET BOOLEAN, got : BOOLEAN, tries : Nat]
SockRecord ==
    [conn : {"none", "idle", "syn", "up", "eof", "dead"}, rx : BOOLEAN,
     wasUp : BOOLEAN, entry : [ptr : Agents \cup {NoPtr}, events : SUBSET Events]]

TypeOK ==
    /\ pc \in {"wait", "batch", "out"} /\ cur \in Agents \cup {NoPtr}
    /\ batch \subseteq [ptr : Agents, ev : SUBSET Levels]
    /\ agent \in [Agents -> AgentRecord]
    /\ sock \in [Fds -> SockRecord]

\* No event or half of one left to handle belongs to a retired agent, although an
\* attempt that fails again retires it in the middle of a batch in which the
\* owner has given its descriptor to another agent (Epoll.cpp:264-284).
NoDanglingEvent ==
    /\ \A e \in batch : Live(e.ptr)
    /\ \A e1, e2 \in batch : e1.ptr = e2.ptr => e1 = e2
    /\ pc = "out" => cur \in Agents /\ Live(cur) /\ \A e \in batch : e.ptr # cur

\* The epoll entry that an agent's own mask stands for.
Expected(a) ==
    IF agent[a].m_iEpollEvent = {} THEN NoEntry
    ELSE [ptr |-> a, events |-> agent[a].m_iEpollEvent]

\* Every open descriptor is that of one live agent, whichever step of connect
\* failed, and the epoll set holds what the agent believes; an agent whose
\* EpollEvent names another descriptor than its socket believes in no event, so
\* dropping it touches nobody's entry (TCPAgent.cpp:97-123, 85).
DescriptorsOwned ==
    /\ \A f \in Fds : sock[f].conn = "none" => sock[f] = NoSock
    /\ \A f \in Fds : sock[f].conn # "none" =>
          \E a \in Agents : Live(a) /\ agent[a].m_iSockFd = f
    /\ \A a, b \in Agents :
          a # b /\ agent[a].m_iSockFd = agent[b].m_iSockFd => agent[a].m_iSockFd = NoFd
    /\ \A a \in Agents :
          IF agent[a].m_iSockFd = NoFd THEN Live(a) => agent[a].m_iEpollEvent = {}
          ELSE /\ Live(a) /\ sock[agent[a].m_iSockFd].conn # "none"
               /\ sock[agent[a].m_iSockFd].entry = Expected(a)
               /\ agent[a].m_iEpollEvent # {} => agent[a].m_iFd = agent[a].m_iSockFd

\* connectAfter(true) is called only for a connection that was established, and
\* an agent that takes itself for connected has one (Epoll.cpp:249, 335-345).
ToldOfConnection ==
    \A a \in Agents :
        /\ TRUE \in agent[a].told => agent[a].m_iConnect = "CONNECTED"
        /\ Live(a) /\ agent[a].m_iConnect = "CONNECTED" =>
              agent[a].m_iSockFd \in Fds /\ sock[agent[a].m_iSockFd].wasUp

\* The loop reads before it looks at EPOLLOUT, so a peer that sends at once has
\* its data handed to an agent (readBack) that was not told of the connection.
\* But the word follows at once: such an agent is between the two halves of an
\* entry, whose write half tells it before anybody else is served, and no data
\* is ever left with an untold agent after its entry (Epoll.cpp:313-338).
WordFollowsData ==
    \A a \in Agents :
        Live(a) /\ agent[a].got /\ TRUE \notin agent[a].told => pc = "out" /\ cur = a

\* Between two words to the agent the loop makes a bounded number of attempts,
\* however they end (Agent.h:102-118, Epoll.cpp:266-297).  An agent that stays
\* after connectAfter(false) has the count started over, so this is no bound on
\* all its attempts.
RetriesBounded == \A a \in Agents : agent[a].tries <= MAXRECONNECTTIMES + 1

\* An agent that epoll knows and that is not connected yet hears of a
\* connection, of the failure of all its attempts, or is retired.
Pending(a) == Live(a) /\ agent[a].m_iEpollEvent # {} /\ agent[a].told = {}
AttemptSettled == \A a \in Agents : Pending(a) ~> ~Pending(a)
=============================================================================
