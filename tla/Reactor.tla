------------------------------ MODULE Reactor ------------------------------
(***************************************************************************)
(* The server's event loop, Epoll::run, with everything it drives: the     *)
(* listening agent that accepts connections, the EchoAgent made for each   *)
(* of them with its 2000 ms timer, the retirement of an agent whose        *)
(* connection is over (recycler, release) and the deletion of the retired  *)
(* agents by EchoTask at the end of a pass.                                *)
(*                                                                         *)
(* One thread runs the loop; the kernel and the peers act between any two  *)
(* of its steps.  A pass is: serve one overdue timer and start over, or    *)
(* wait (pc "wait"), take a snapshot of the ready descriptors (batch),     *)
(* handle its entries in any order (pc "batch"; pc "out" between the read  *)
(* and the write half of one entry), then run the tasks.                   *)
(*                                                                         *)
(* Time is the distance left between a timer's absolute and now, exact     *)
(* until the timer is overdue; of the overdue ones it keeps the order.     *)
(* Output is the number of queued buffers, exact up to IovMax.             *)
(***************************************************************************)
EXTENDS Integers, Sequences, FiniteSets, EpollEvent

CONSTANTS Agents,     \* the slots an EchoAgent can be allocated in
          Fds,        \* the descriptors accept can return
          Listener,   \* the EpollEvent of the listening agent
          EventSize,  \* m_iEventSize, the size given to epoll_wait
          Period,     \* the agents' timer, registerTimer(2000)
          IovMax,     \* writev refuses longer lists with EINVAL
          MaxRx,      \* bound: unread pieces of data in a socket
          MaxBacklog  \* bound: connections not yet accepted

ASSUME ReactorAssumption ==
    /\ NoFd \notin Fds /\ NoPtr \notin Agents /\ Listener \notin Agents
    /\ Listener # NoPtr
    /\ {EventSize, Period, IovMax, MaxBacklog} \subseteq Nat \ {0}
    /\ MaxRx \in Nat

VARIABLES pc,             \* where the loop is
          cur,            \* the agent whose write half is next, at pc "out"
          batch,          \* entries of m_pEpollEvent not handled yet
          agent,          \* the EchoAgent objects
          m_listT,        \* Manager: retired agents, waiting for deletion
          m_vAgentTimer,  \* Epoll: the timers
          sock,           \* the kernel's sockets and epoll entries
          backlog         \* the kernel's accept queue

loopVars == <<pc, cur, batch>>
vars == <<pc, cur, batch, agent, m_listT, m_vAgentTimer, sock, backlog>>

Levels == {"IN", "OUT", "ERR"}
Entry == [ptr : Agents \cup {NoPtr}, events : SUBSET Events]

\* A freed slot, and an agent as its constructors leave it.
Freed ==
    [alive |-> FALSE, m_bIsRecycler |-> FALSE, m_iRefCount |-> 0,
     m_iSockFd |-> NoFd, m_iFd |-> NoFd, m_iEpollEvent |-> {},
     timerEvent |-> FALSE, m_lIovList |-> 0]
Constructed(fd, mask) ==
    [alive |-> TRUE, m_bIsRecycler |-> FALSE, m_iRefCount |-> 1,
     m_iSockFd |-> fd, m_iFd |-> fd, m_iEpollEvent |-> mask,
     timerEvent |-> TRUE, m_lIovList |-> 0]

NoSock == [conn |-> "none", rx |-> 0, full |-> FALSE, entry |-> NoEntry]
Connected(entry) == [conn |-> "up", rx |-> 0, full |-> FALSE, entry |-> entry]

Init ==
    /\ pc = "top" /\ cur = NoPtr /\ batch = {}
    /\ agent = [a \in Agents |-> Freed]
    /\ m_listT = <<>>
    /\ m_vAgentTimer = {}
    /\ sock = [f \in Fds |-> NoSock]
    /\ backlog = 0

-----------------------------------------------------------------------------
(* What an agent sees through its EpollEvent, and what it does to it. *)

View(a) ==
    [fd |-> agent[a].m_iFd, mask |-> agent[a].m_iEpollEvent, room |-> TRUE,
     entry |-> IF agent[a].m_iFd \in Fds THEN sock[agent[a].m_iFd].entry
               ELSE NoEntry]

\* The sockets once the entry of the descriptor fd is changed.
WithEntry(fd, entry) ==
    IF fd \in Fds THEN [sock EXCEPT ![fd].entry = entry] ELSE sock

\* Faulty: nothing is closed.
closeSocketNot(sk, fd) == sk

\* close() also takes the descriptor out of the epoll set.
closeSocket(sk, fd) == IF fd \in Fds THEN [sk EXCEPT ![fd] = NoSock] ELSE sk

\* TCPAgent::recycler: once only; unregister, then close.
recycler(a) ==
    LET s == unregisterRWEvent(View(a), a)
    IN  IF agent[a].m_bIsRecycler THEN [ev |-> agent[a], sock |-> sock]
        ELSE [ev   |-> [agent[a] EXCEPT !.m_bIsRecycler = TRUE,
                            !.m_iEpollEvent = s.mask, !.m_iSockFd = NoFd],
              sock |-> closeSocket(WithEntry(agent[a].m_iFd, s.entry),
                                   agent[a].m_iSockFd)]

\* Faulty: the count is looked at before it is decremented.
releaseEarly(a, ev) ==
    /\ agent' = [agent EXCEPT ![a] = [ev EXCEPT !.m_iRefCount = ev.m_iRefCount - 1]]
    /\ m_listT' = IF ev.m_iRefCount = 0 THEN Append(m_listT, a) ELSE m_listT

\* EchoAgent::release: the last reference puts the agent on Manager's list.
release(a, ev) ==
    /\ agent' = [agent EXCEPT ![a] = [ev EXCEPT !.m_iRefCount = ev.m_iRefCount - 1]]
    /\ m_listT' = IF ev.m_iRefCount = 1 THEN Append(m_listT, a) ELSE m_listT

\* agent->recycler(); agent->release(); in every failure branch of the loop.
Retire(a) ==
    /\ release(a, recycler(a).ev)
    /\ sock' = recycler(a).sock

\* TCPAgent::writeDynData: one more buffer, and the write event is opened.
\* A failing epoll_ctl is only logged.
AtMost(n, bound) == IF n <= bound THEN n ELSE bound
writeDynData(a) ==
    LET s == openWEvent(View(a), a)
        queued == AtMost(agent[a].m_lIovList + 1, IovMax + 1)
    IN  /\ agent' = [agent EXCEPT ![a] = [agent[a] EXCEPT
                       !.m_iEpollEvent = s.mask, !.m_lIovList = queued]]
        /\ sock' = WithEntry(agent[a].m_iFd, s.entry)

-----------------------------------------------------------------------------
(* The top of a pass: getLastTime, doTimer. *)

\* Faulty: the timers are not made a heap, any of them may be the first.
OverdueAny(t) == t.left < 0

Earliest(t) == \A u \in m_vAgentTimer : t.left <= u.left
Overdue(t) == Earliest(t) /\ t.left < 0

\* doTimer serves the first timer only; EchoAgent::doTimer queues a message
\* and makes its timer persistent, so it is always re-armed from now.
Rearmed(t) == [t EXCEPT !.left = Period]
DoTimer(t) ==
    /\ pc = "top" /\ Overdue(t)
    /\ writeDynData(t.ptr)
    /\ m_vAgentTimer' = (m_vAgentTimer \ {t}) \cup {Rearmed(t)}
    /\ UNCHANGED <<loopVars, m_listT, backlog>>

EnterWait ==
    /\ pc = "top" /\ \A t \in m_vAgentTimer : ~Overdue(t)
    /\ pc' = "wait"
    /\ UNCHANGED <<cur, batch, agent, m_listT, m_vAgentTimer, sock, backlog>>

-----------------------------------------------------------------------------
(* epoll_wait, level triggered. *)

Level(f) ==
    (IF sock[f].rx > 0 \/ sock[f].conn \in {"eof", "reset"} THEN {"IN"} ELSE {})
    \cup (IF sock[f].full THEN {} ELSE {"OUT"})
    \cup (IF sock[f].conn = "reset" THEN {"ERR"} ELSE {})

\* What epoll reports of a descriptor: the requested events, and errors.
Reported(f) == Level(f) \cap (sock[f].entry.events \cup {"ERR"})

Ready ==
    {[ptr |-> sock[f].entry.ptr, ev |-> Reported(f)] :
        f \in {g \in Fds : sock[g].entry.ptr # NoPtr /\ Reported(g) # {}}}
    \cup (IF backlog > 0 THEN {[ptr |-> Listener, ev |-> {"IN"}]} ELSE {})

EpollWait ==
    /\ pc = "wait" /\ Ready # {}
    /\ \E some \in SUBSET Ready :
          /\ Cardinality(some) = AtMost(Cardinality(Ready), EventSize)
          /\ batch' = some
    /\ pc' = "batch"
    /\ UNCHANGED <<cur, agent, m_listT, m_vAgentTimer, sock, backlog>>

WaitTimeout ==
    /\ pc = "wait" /\ Ready = {}
    /\ \E t \in m_vAgentTimer : t.left <= 0
    /\ pc' = "batch"
    /\ UNCHANGED <<cur, batch, agent, m_listT, m_vAgentTimer, sock, backlog>>

\* EINTR: the pass is given up, tasks included.
WaitInterrupted ==
    /\ pc = "wait" /\ Ready = {}
    /\ pc' = "top"
    /\ UNCHANGED <<cur, batch, agent, m_listT, m_vAgentTimer, sock, backlog>>

-----------------------------------------------------------------------------
(* Handling one entry of the batch. *)

OneLess(n) == IF n > 0 THEN n - 1 ELSE 0

\* Faulty: the message is answered at once, or the end of stream is no failure.
RecvOkReplies(a) ==
    LET f == agent[a].m_iSockFd
    IN  /\ f \in Fds /\ (sock[f].rx > 0 \/ sock[f].conn = "up")
        /\ \E full \in BOOLEAN :
              sock' = [sock EXCEPT ![f].rx = OneLess(@), ![f].full = full]
        /\ UNCHANGED <<agent, m_listT>>
RecvOkAtEnd(a) ==
    LET f == agent[a].m_iSockFd
    IN  /\ f \in Fds /\ (sock[f].rx > 0 \/ sock[f].conn \in {"up", "eof"})
        /\ sock' = [sock EXCEPT ![f].rx = OneLess(@)]
        /\ UNCHANGED <<agent, m_listT>>

\* recvData: a read that takes a piece of what has come, or finds nothing
\* (EAGAIN); ReadFramer says what it does with it.
RecvOk(a) ==
    LET f == agent[a].m_iSockFd
    IN  /\ f \in Fds /\ (sock[f].rx > 0 \/ sock[f].conn = "up")
        /\ sock' = [sock EXCEPT ![f].rx = OneLess(@)]
        /\ UNCHANGED <<agent, m_listT>>

\* recvData < 0: no descriptor, end of stream, reset, or a refused header.
RecvFails(a) ==
    LET f == agent[a].m_iSockFd
    IN  f \in Fds => sock[f].rx > 0 \/ sock[f].conn # "up"

\* EPOLLERR or EPOLLHUP on a connected agent: read, and nothing else.
DispatchErr(e) ==
    /\ pc = "batch" /\ e \in batch /\ e.ptr \in Agents /\ "ERR" \in e.ev
    /\ \/ RecvOk(e.ptr)
       \/ RecvFails(e.ptr) /\ Retire(e.ptr)
    /\ batch' = batch \ {e}
    /\ UNCHANGED <<pc, cur, m_vAgentTimer, backlog>>

\* Faulty: a failure does not end the entry, or the entry stays.
DispatchInGoesOn(e) ==
    /\ pc = "batch" /\ e \in batch /\ e.ptr \in Agents
    /\ "ERR" \notin e.ev /\ {"IN", "OUT"} \subseteq e.ev
    /\ \/ RecvOk(e.ptr)
       \/ RecvFails(e.ptr) /\ Retire(e.ptr)
    /\ pc' = "out" /\ cur' = e.ptr /\ batch' = batch \ {e}
    /\ UNCHANGED <<m_vAgentTimer, backlog>>
DispatchInStays(e) ==
    /\ pc = "batch" /\ e \in batch /\ e.ptr \in Agents
    /\ "ERR" \notin e.ev /\ {"IN", "OUT"} \subseteq e.ev
    /\ RecvOk(e.ptr) /\ pc' = "out" /\ cur' = e.ptr
    /\ UNCHANGED <<batch, m_vAgentTimer, backlog>>

\* EPOLLIN: a failure ends the entry, a success goes on to EPOLLOUT.
DispatchIn(e) ==
    /\ pc = "batch" /\ e \in batch /\ e.ptr \in Agents
    /\ "ERR" \notin e.ev /\ "IN" \in e.ev
    /\ batch' = batch \ {e}
    /\ \/ /\ RecvOk(e.ptr)
          /\ pc' = IF "OUT" \in e.ev THEN "out" ELSE "batch"
          /\ cur' = IF "OUT" \in e.ev THEN e.ptr ELSE NoPtr
       \/ /\ RecvFails(e.ptr) /\ Retire(e.ptr)
          /\ UNCHANGED <<pc, cur>>
    /\ UNCHANGED <<m_vAgentTimer, backlog>>

\* sendData < 0: no descriptor, reset, a list writev refuses, or the write
\* event cannot be closed.
SendFails(a) ==
    LET f == agent[a].m_iSockFd
    IN  f \in Fds => \/ sock[f].conn = "reset"
                    \/ agent[a].m_lIovList > IovMax
                    \/ ~closeWEvent(View(a), a).ok

\* TCPAgent::writeData: some of the list is left, or all of it is written and
\* the write event is closed.  While the socket is full writev is retried.
WritePart(a) ==
    LET f == agent[a].m_iSockFd
    IN  /\ ~SendFails(a) /\ ~sock[f].full
        /\ \E left \in 1..agent[a].m_lIovList :
              agent' = [agent EXCEPT ![a].m_lIovList = left]
        /\ sock' = [sock EXCEPT ![f].full = TRUE]
WriteAll(a) ==
    LET f == agent[a].m_iSockFd
        s == closeWEvent(View(a), a)
    IN  /\ ~SendFails(a) /\ ~sock[f].full
        /\ agent' = [agent EXCEPT ![a] =
                       [agent[a] EXCEPT !.m_iEpollEvent = s.mask, !.m_lIovList = 0]]
        /\ \E full \in BOOLEAN :
              sock' = [WithEntry(agent[a].m_iFd, s.entry)
                          EXCEPT ![f].full = full]

\* The agent whose entry is at its EPOLLOUT half.
OutTurn(a) ==
    \/ pc = "out" /\ cur = a /\ batch' = batch
    \/ /\ pc = "batch" /\ [ptr |-> a, ev |-> {"OUT"}] \in batch
       /\ batch' = batch \ {[ptr |-> a, ev |-> {"OUT"}]}

DispatchOut(a) ==
    /\ OutTurn(a)
    /\ \/ WritePart(a) /\ UNCHANGED m_listT
       \/ WriteAll(a) /\ UNCHANGED m_listT
       \/ SendFails(a) /\ Retire(a)
    /\ pc' = "batch" /\ cur' = NoPtr
    /\ UNCHANGED <<m_vAgentTimer, backlog>>

\* TCPListenAgent::recvData and the EchoAgent constructor: epoll may have no
\* room for the descriptor, which is only logged; the timer starts anyway.
Accept(a, f, room) ==
    LET s == registerREvent([fd |-> f, mask |-> {}, entry |-> sock[f].entry,
                             room |-> room], a)
    IN  /\ backlog > 0 /\ ~agent[a].alive /\ sock[f].conn = "none"
        /\ agent' = [agent EXCEPT ![a] = Constructed(f, s.mask)]
        /\ sock' = [sock EXCEPT ![f] = Connected(s.entry)]
        /\ m_vAgentTimer' = m_vAgentTimer \cup {[ptr |-> a, left |-> Period]}
        /\ backlog' = backlog - 1

\* accept fails (the connection is gone, or no descriptor is left), or the
\* accepted descriptor cannot be configured: the listening agent is flagged
\* as recycled and its release does nothing.
AcceptFails ==
    /\ backlog' \in {backlog, OneLess(backlog)}
    /\ UNCHANGED <<agent, sock, m_vAgentTimer>>

DispatchListener ==
    LET e == [ptr |-> Listener, ev |-> {"IN"}]
    IN  /\ pc = "batch" /\ e \in batch
        /\ \/ \E a \in Agents, f \in Fds, room \in BOOLEAN : Accept(a, f, room)
           \/ AcceptFails
        /\ batch' = batch \ {e}
        /\ UNCHANGED <<pc, cur, m_listT>>

-----------------------------------------------------------------------------
(* The end of a pass: EchoTask deletes what is on Manager's list. *)

\* Faulty: the loop over the list ends after one agent.
ListedFirst == {m_listT[i] : i \in (1..Len(m_listT)) \cap {1}}

Listed == {m_listT[i] : i \in 1..Len(m_listT)}

\* Faulty: ~EchoAgent forgets the timer.
unregisterTimerNot(as) == m_vAgentTimer

\* ~EchoAgent: the timer goes if the flag says there is one.
unregisterTimer(as) ==
    m_vAgentTimer \ {t \in m_vAgentTimer : t.ptr \in as /\ agent[t.ptr].timerEvent}

\* Faulty: a failure ends the batch.
DoTaskEarly ==
    /\ pc = "batch"
    /\ agent' = [a \in Agents |-> IF a \in Listed THEN Freed ELSE agent[a]]
    /\ m_vAgentTimer' = unregisterTimer(Listed)
    /\ m_listT' = <<>> /\ pc' = "top"
    /\ UNCHANGED <<cur, batch, sock, backlog>>

DoTask ==
    /\ pc = "batch" /\ batch = {}
    /\ agent' = [a \in Agents |-> IF a \in Listed THEN Freed ELSE agent[a]]
    /\ m_vAgentTimer' = unregisterTimer(Listed)
    /\ m_listT' = <<>>
    /\ pc' = "top"
    /\ UNCHANGED <<cur, batch, sock, backlog>>

-----------------------------------------------------------------------------
(* The peers, the network and the clock. *)

PeerConnects ==
    /\ backlog < MaxBacklog /\ backlog' = backlog + 1
    /\ UNCHANGED <<loopVars, agent, m_listT, m_vAgentTimer, sock>>

PeerSends(f) ==
    /\ sock[f].conn = "up" /\ sock[f].rx < MaxRx
    /\ sock' = [sock EXCEPT ![f].rx = @ + 1]
    /\ UNCHANGED <<loopVars, agent, m_listT, m_vAgentTimer, backlog>>

PeerCloses(f) ==
    /\ sock[f].conn = "up"
    /\ sock' = [sock EXCEPT ![f].conn = "eof"]
    /\ UNCHANGED <<loopVars, agent, m_listT, m_vAgentTimer, backlog>>

PeerResets(f) ==
    /\ sock[f].conn \in {"up", "eof"}
    /\ sock' = [sock EXCEPT ![f].conn = "reset"]
    /\ UNCHANGED <<loopVars, agent, m_listT, m_vAgentTimer, backlog>>

PeerReads(f) ==
    /\ sock[f].full
    /\ sock' = [sock EXCEPT ![f].full = FALSE]
    /\ UNCHANGED <<loopVars, agent, m_listT, m_vAgentTimer, backlog>>

\* The clock waits for nobody.  A timer that is not overdue comes nearer.  One
\* that is moves only as far as others that become overdue after it push it: it
\* stays overdue and before them, and the distances stay few.
Moves(t) == \A n \in (t.left + 1)..0 : \E u \in m_vAgentTimer : u.left = n
Aged(t) == IF Moves(t) THEN [t EXCEPT !.left = @ - 1] ELSE t
Tick ==
    /\ m_vAgentTimer # {}
    /\ m_vAgentTimer' = {Aged(t) : t \in m_vAgentTimer}
    /\ UNCHANGED <<loopVars, agent, m_listT, sock, backlog>>

-----------------------------------------------------------------------------
LoopStep ==
    \/ \E t \in m_vAgentTimer : DoTimer(t)
    \/ EnterWait
    \/ EpollWait
    \/ WaitTimeout
    \/ \E e \in batch : DispatchErr(e) \/ DispatchIn(e)
    \/ \E a \in Agents : DispatchOut(a)
    \/ DispatchListener
    \/ DoTask

Environment ==
    \/ WaitInterrupted
    \/ PeerConnects
    \/ \E f \in Fds : PeerSends(f) \/ PeerCloses(f) \/ PeerResets(f) \/ PeerReads(f)
    \/ Tick

Next == LoopStep \/ Environment
Spec == Init /\ [][Next]_vars

\* The loop's thread is never stopped.  Nothing is assumed of the clock, of the
\* peers, of signals or of the order in which events are reported.
LoopFairSpec == Spec /\ WF_vars(LoopStep)

\* Timers do not come due as fast as the loop serves them: if it serves timers
\* again and again, then in between it also gets to epoll_wait (a period is
\* 2000 ms, serving a timer takes much less).
ClockIsSlow ==
    []<><<\E t \in m_vAgentTimer : DoTimer(t)>>_vars => []<><<EnterWait>>_vars
FairSpec == LoopFairSpec /\ ClockIsSlow
-----------------------------------------------------------------------------
(* Properties. *)

AgentRecord ==
    [alive : BOOLEAN, m_bIsRecycler : BOOLEAN, m_iRefCount : {0, 1},
     m_iSockFd : Fds \cup {NoFd}, m_iFd : Fds \cup {NoFd},
     m_iEpollEvent : SUBSET Events, timerEvent : BOOLEAN,
     m_lIovList : 0..(IovMax + 1)]
SockRecord ==
    [conn : {"none", "up", "eof", "reset"}, rx : 0..MaxRx, full : BOOLEAN,
     entry : Entry]

\* Type correctness; a reference count never leaves {0, 1}, so no agent is
\* released twice (Epoll.cpp:243-346 releases in nine places).
TypeOK ==
    /\ pc \in {"top", "wait", "batch", "out"}
    /\ cur \in Agents \cup {NoPtr}
    /\ batch \subseteq [ptr : Agents \cup {Listener}, ev : SUBSET Levels]
    /\ agent \in [Agents -> AgentRecord]
    /\ m_listT \in Seq(Agents)
    /\ m_vAgentTimer \subseteq [ptr : Agents, left : {n \in Int : n <= Period}]
    /\ sock \in [Fds -> SockRecord]
    /\ backlog \in 0..MaxBacklog

Serving(a) == agent[a].alive /\ ~agent[a].m_bIsRecycler

\* No event that is still to be handled belongs to an agent that was retired
\* or deleted: the loop reads data.ptr and the handler without knowing
\* (Epoll.cpp:243-249).
NoDanglingEvent ==
    /\ \A e \in batch : e.ptr # Listener => Serving(e.ptr)
    /\ pc = "out" => cur \in Agents /\ Serving(cur)

\* An agent has at most one event left to handle, so that retiring it while
\* handling one cannot leave another behind.
OneEventEach ==
    /\ \A e1, e2 \in batch : e1.ptr = e2.ptr => e1 = e2
    /\ pc = "out" => \A e \in batch : e.ptr # cur

\* The epoll entry that an agent's own mask stands for.
Expected(a) ==
    IF agent[a].m_iEpollEvent = {} THEN NoEntry
    ELSE [ptr |-> a, events |-> agent[a].m_iEpollEvent]

\* A descriptor is open exactly while one serving agent owns it; the epoll set
\* holds that agent's pointer and the mask the agent believes in, or nothing if
\* registration failed, whatever agent had the descriptor before.
FdAgreement ==
    /\ \A f \in Fds : sock[f].conn = "none" => sock[f] = NoSock
    /\ \A f \in Fds : sock[f].conn # "none" =>
          \E a \in Agents : Serving(a) /\ agent[a].m_iSockFd = f
    /\ \A a \in Agents : Serving(a) =>
          /\ agent[a].m_iSockFd \in Fds /\ agent[a].m_iFd = agent[a].m_iSockFd
          /\ sock[agent[a].m_iSockFd].conn # "none"
          /\ sock[agent[a].m_iSockFd].entry = Expected(a)
    /\ \A a, b \in Agents :
          Serving(a) /\ Serving(b) /\ a # b => agent[a].m_iSockFd # agent[b].m_iSockFd
    /\ \A a \in Agents :
          ~Serving(a) => agent[a].m_iSockFd = NoFd /\ agent[a].m_iEpollEvent = {}

\* EPOLLOUT is asked for exactly while a registered agent has output queued:
\* else output would wait for ever, or a writable socket would keep the loop
\* spinning (TCPAgent.cpp:143-150, 163).
PendingOutputArmed ==
    \A a \in Agents : Serving(a) =>
        ("OUT" \in agent[a].m_iEpollEvent <=>
            "IN" \in agent[a].m_iEpollEvent /\ agent[a].m_lIovList > 0)

\* A retired agent is on Manager's list, once, from release to the end of the
\* pass; nobody else is, and nobody holds a count on it.
ListedOnce ==
    /\ Listed = {a \in Agents : agent[a].alive /\ agent[a].m_bIsRecycler}
    /\ \A i, j \in 1..Len(m_listT) : m_listT[i] = m_listT[j] => i = j
    /\ \A a \in Agents : agent[a].m_iRefCount = IF Serving(a) THEN 1 ELSE 0

\* Nothing is carried over from one pass to the next, although a null handler,
\* an EINTR or an overdue timer ends a pass early (Epoll.cpp:225-249).
PassesAreSeparate ==
    pc \in {"top", "wait"} => batch = {} /\ m_listT = <<>>

\* An undeleted agent has one timer and the flag that says so; a deleted one
\* has none, so doTimer never calls through a freed pointer (Epoll.cpp:193).
TimersOwned ==
    \A a \in Agents :
        /\ agent[a].timerEvent = agent[a].alive
        /\ IF agent[a].alive
           THEN \E t \in m_vAgentTimer : {u \in m_vAgentTimer : u.ptr = a} = {t}
           ELSE \A t \in m_vAgentTimer : t.ptr # a

\* A readiness recorded in the batch is still true when its turn comes: a write
\* finds room, so BufferManager.cpp:148-157 never spins on EAGAIN with every
\* other connection waiting, and a read finds data or an end of stream.
SnapshotHolds ==
    /\ \A e \in batch : e.ptr \in Agents =>
          /\ "OUT" \in e.ev => ~sock[agent[e.ptr].m_iSockFd].full
          /\ "IN" \in e.ev => \/ sock[agent[e.ptr].m_iSockFd].rx > 0
                              \/ sock[agent[e.ptr].m_iSockFd].conn # "up"
    /\ pc = "out" => ~sock[agent[cur].m_iSockFd].full

\* A connection whose peer has gone is noticed, and its agent deleted.
PeerGone(a) ==
    /\ Serving(a) /\ agent[a].m_iEpollEvent # {}
    /\ sock[agent[a].m_iSockFd].conn \in {"eof", "reset"}
PeerGoneReclaimed ==
    \A a \in Agents : PeerGone(a) ~> ~agent[a].alive

\* A timer that is overdue is served, or its agent deleted, although doTimer
\* looks at one timer a pass and the others may come due again and again, faster
\* than the loop can serve them (Epoll.cpp:188-206).
Late(a) == \E t \in m_vAgentTimer : t.ptr = a /\ t.left < 0
OverdueTimerServed == \A a \in Agents : Late(a) ~> ~Late(a)

\* The reactor keeps what AgentLifecycle promises.
LifePhase == [a \in Agents |-> IF ~agent[a].alive THEN "free"
                               ELSE IF Serving(a) THEN "serving" ELSE "retired"]
Owners(f) == {a \in Agents : agent[a].m_iSockFd = f}
LifeOwner == [f \in Fds |->
    IF sock[f].conn = "none" THEN NoPtr
    ELSE IF \E a \in Agents : Owners(f) = {a} THEN CHOOSE a \in Agents : Owners(f) = {a}
    ELSE Listener]
Life == INSTANCE AgentLifecycle
            WITH phase <- LifePhase, owner <- LifeOwner, Nobody <- NoPtr
ImplementsLifecycle == Life!LifeSpec

\* The part of it that says what a step may do, for the runs without fairness:
\* a descriptor changes hands only through its owner, nobody deletes an agent
\* that still has one, and a deletion takes every retired agent.
StepsAsLifecycle == [][Life!LifeNext]_<<LifePhase, LifeOwner>>
=============================================================================
