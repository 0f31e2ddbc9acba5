-------------------------- MODULE Connector_proofs --------------------------
(***************************************************************************)
(* The invariants of Connector hold for every set of slots and descriptors *)
(* and every number of attempts.  A handler works on the fields of its     *)
(* agent and on the sockets: Handled says what each of them guarantees,    *)
(* Kept that this is enough for the invariant, whichever agent it was.     *)
(***************************************************************************)
EXTENDS Connector, TLAPS

\* The epoll entry of agent a for a mask.
Entry(a, mask) == IF mask = {} THEN NoEntry ELSE [ptr |-> a, events |-> mask]

\* What holds of a socket whoever owns it.
SockFit(s) ==
    /\ s.conn = "none" => s = NoSock
    /\ s.rx => s.conn \in {"up", "eof"}
    /\ s.conn \in {"up", "eof"} => s.wasUp

\* What holds of an agent's fields whether it is live or not.
Past(ag) ==
    /\ TRUE \in ag.told <=> ag.m_iConnect = "CONNECTED"
    /\ ag.tries <= ag.m_iConnectTimes + 1

\* What holds between a live agent and its socket.
Fit(a, ag, sk) ==
    /\ ag.m_iSockFd = NoFd => ag.m_iEpollEvent = {}
    /\ ag.m_iSockFd \in Fds =>
          /\ sk[ag.m_iSockFd].conn # "none"
          /\ sk[ag.m_iSockFd].entry = Entry(a, ag.m_iEpollEvent)
          /\ ag.m_iEpollEvent # {} => ag.m_iFd = ag.m_iSockFd
    /\ ag.m_iConnect = "CONNECTED" =>
          ag.m_iSockFd \in Fds /\ sk[ag.m_iSockFd].wasUp
    /\ ag.m_iConnect = "CONNECTING" /\ ag.m_iEpollEvent # {} =>
          ag.m_iEpollEvent = Events

\* Only a connected agent was handed data: what the end of an entry restores.
Told(ag) == ag.got => ag.m_iConnect = "CONNECTED"

\* What the loop may rely on when it handles an entry: an agent that is not
\* connected hears of an error, or of a connection that was established.
EventFit(e) ==
    /\ agent[e.ptr].m_iSockFd \in Fds
    /\ agent[e.ptr].m_iConnect = "CONNECTING" /\ "ERR" \notin e.ev =>
          "OUT" \in e.ev /\ sock[agent[e.ptr].m_iSockFd].wasUp

\* The same of the agent whose write half is next.
OutFit(a) ==
    /\ agent[a].m_iSockFd \in Fds
    /\ agent[a].m_iConnect = "CONNECTING" => sock[agent[a].m_iSockFd].wasUp

InOut(a) == pc = "out" /\ cur = a

AgentsInv ==
    /\ \A a \in Agents :
          /\ Past(agent[a])
          /\ IF Live(a) THEN Fit(a, agent[a], sock) ELSE agent[a].m_iSockFd = NoFd
    /\ \A a, b \in Agents :
          a # b /\ agent[a].m_iSockFd = agent[b].m_iSockFd => agent[a].m_iSockFd = NoFd
    /\ \A f \in Fds :
          /\ SockFit(sock[f])
          /\ sock[f].conn # "none" => \E a \in Agents : Live(a) /\ agent[a].m_iSockFd = f

\* The inductive invariant.
Inv ==
    /\ TypeOK
    /\ pc = "wait" => batch = {}
    /\ NoDanglingEvent
    /\ AgentsInv
    /\ \A e \in batch : EventFit(e)
    /\ pc = "out" => OutFit(cur)
    /\ \A a \in Agents : Live(a) => InOut(a) \/ Told(agent[a])

-----------------------------------------------------------------------------
(* What the methods of EpollEvent do. *)

\* registerRWEvent of a descriptor epoll does not know asks for both events.
LEMMA Registered ==
    ASSUME NEW s, NEW p, s.fd # NoFd, s.mask = {}, s.entry = NoEntry, s.room \in BOOLEAN
    PROVE  registerRWEvent(s, p) =
               IF s.room THEN Reply(TRUE, Events, [ptr |-> p, events |-> Events])
               ELSE Reply(FALSE, {}, NoEntry)
<1>1. registerRWEvent(s, p) = doEvent(s, p, "ADD", Events, Events)
  <2>1. s.mask \cup Events = Events
    OBVIOUS
  <2> QED
    BY <2>1 DEF registerRWEvent
<1> QED
  BY <1>1 DEF doEvent, Granted, Nothing

\* unregisterRWEvent does not touch an entry that is absent or not believed in;
\* otherwise it leaves that of this descriptor, or none.
LEMMA Unregistered ==
    ASSUME NEW s, NEW p, s.mask \in SUBSET Events
    PROVE  LET q == unregisterRWEvent(s, p)
           IN  /\ q.mask \in SUBSET Events
               /\ q.entry \in {s.entry, NoEntry}
               /\ s.mask = {} => q.entry = s.entry
<1>1. \A ev, mask : LET q == doEvent(s, p, "DEL", ev, mask)
                    IN  q.mask \in {s.mask, mask} /\ q.entry \in {s.entry, NoEntry}
  BY DEF doEvent, Granted, Nothing, Reply
<1>2. CASE s.fd = NoFd
  BY <1>2 DEF unregisterRWEvent, Nothing, Reply
<1>3. CASE s.fd # NoFd /\ s.mask = {}
  BY <1>3 DEF unregisterRWEvent, unregisterWEvent, Nothing, Reply
<1>4. CASE s.fd # NoFd /\ s.mask = {"IN"}
  BY <1>1, <1>4 DEF unregisterRWEvent, unregisterREvent
<1>5. CASE s.fd # NoFd /\ s.mask = {"OUT"}
  BY <1>1, <1>5 DEF unregisterRWEvent, unregisterWEvent
<1>6. CASE s.fd # NoFd /\ s.mask = {"IN", "OUT"}
  BY <1>1, <1>6 DEF unregisterRWEvent
<1> QED
  BY <1>2, <1>3, <1>4, <1>5, <1>6 DEF Events

\* closeWEvent of a descriptor registered for both events leaves the read event.
LEMMA WriteClosed ==
    ASSUME NEW s, NEW p, s.fd # NoFd, s.mask = Events, s.entry # NoEntry
    PROVE  closeWEvent(s, p) = Reply(TRUE, {"IN"}, [ptr |-> p, events |-> {"IN"}])
<1>1. s.mask \ {"OUT"} = {"IN"} /\ "OUT" \in s.mask
  BY DEF Events
<1> QED
  BY <1>1 DEF closeWEvent, doEvent, Granted

-----------------------------------------------------------------------------
(* One agent's step. *)

\* sk differs from the sockets only in what agent a had and in what it has now,
\* fd, which nobody else had.
Apart(a, fd, sk) ==
    /\ sk \in [Fds -> SockRecord]
    /\ \A g \in Fds : SockFit(sk[g])
    /\ \A g \in Fds : sock[g].conn # "none" /\ g # agent[a].m_iSockFd =>
          sk[g] = sock[g] /\ g # fd
    /\ \A g \in Fds : sk[g].conn # "none" =>
          g = fd \/ (sock[g].conn # "none" /\ g # agent[a].m_iSockFd)

\* If the agent believes in events of another descriptor than its socket's, that
\* descriptor is not in the epoll set.
Safe(ag, sk) ==
    ag.m_iFd \in Fds /\ ag.m_iEpollEvent # {} =>
        ag.m_iFd = ag.m_iSockFd \/ sk[ag.m_iFd].entry = NoEntry

\* What a handler of agent a guarantees of its result.
Handled(a, r) ==
    /\ r.ag \in AgentRecord /\ r.ag.phase = "live" /\ Past(r.ag)
    /\ Apart(a, r.ag.m_iSockFd, r.sk)
    /\ Safe(r.ag, r.sk)
    /\ r.ok => Fit(a, r.ag, r.sk) /\ Told(r.ag)

\* Nothing of the agents' invariant depends on which agent made the step.
LEMMA Kept ==
    ASSUME ConnectorAssumption, Inv, NEW a \in Agents, NEW ag \in AgentRecord, NEW sk,
           Past(ag), Apart(a, ag.m_iSockFd, sk),
           IF ag.phase = "live" THEN Fit(a, ag, sk) ELSE ag.m_iSockFd = NoFd,
           agent' = [agent EXCEPT ![a] = ag], sock' = sk
    PROVE  /\ agent' \in [Agents -> AgentRecord] /\ sock' \in [Fds -> SockRecord]
           /\ AgentsInv'
           /\ \A b \in Agents \ {a} :
                 /\ agent'[b] = agent[b]
                 /\ agent[b].m_iSockFd \in Fds =>
                       sock'[agent[b].m_iSockFd] = sock[agent[b].m_iSockFd]
<1>1. agent \in [Agents -> AgentRecord] /\ sock \in [Fds -> SockRecord] /\ NoFd \notin Fds
  BY DEF Inv, TypeOK, ConnectorAssumption
<1>2. /\ agent' \in [Agents -> AgentRecord] /\ sock' \in [Fds -> SockRecord]
      /\ agent'[a] = ag /\ \A b \in Agents \ {a} : agent'[b] = agent[b]
  BY <1>1 DEF Apart
<1>3. \A b \in Agents : agent[b].m_iSockFd \in Fds =>
         Live(b) /\ sock[agent[b].m_iSockFd].conn # "none"
  BY <1>1 DEF Inv, AgentsInv, Fit
<1>4. \A b \in Agents \ {a} : agent[b].m_iSockFd \in Fds =>
         /\ sock'[agent[b].m_iSockFd] = sock[agent[b].m_iSockFd]
         /\ agent[b].m_iSockFd # ag.m_iSockFd
  <2>1. TAKE b \in Agents \ {a}
  <2>2. HAVE agent[b].m_iSockFd \in Fds
  <2>3. agent[b].m_iSockFd # agent[a].m_iSockFd
    BY <1>1, <2>2 DEF Inv, AgentsInv
  <2> QED
    BY <1>3, <2>2, <2>3 DEF Apart
<1>5. \A b \in Agents : agent[b].m_iSockFd \in Fds \cup {NoFd}
  BY <1>1 DEF AgentRecord
<1>6. ag.m_iSockFd \in Fds \cup {NoFd}
  BY DEF AgentRecord
<1>7. \A b \in Agents : /\ Past(agent'[b])
                        /\ IF Live(b)' THEN Fit(b, agent'[b], sock')
                           ELSE agent'[b].m_iSockFd = NoFd
  <2>1. TAKE b \in Agents
  <2>2. CASE b = a
    BY <1>2, <2>2 DEF Live
  <2>3. CASE b # a
    <3>1. /\ Past(agent[b])
          /\ IF Live(b) THEN Fit(b, agent[b], sock) ELSE agent[b].m_iSockFd = NoFd
      BY DEF Inv, AgentsInv
    <3>2. agent'[b] = agent[b] /\ (Live(b)' <=> Live(b))
      BY <1>2, <2>3 DEF Live
    <3>3. Fit(b, agent[b], sock) => Fit(b, agent[b], sock')
      BY <1>4, <2>3 DEF Fit
    <3> QED
      BY <3>1, <3>2, <3>3
  <2> QED BY <2>2, <2>3
<1>8. \A b, c \in Agents :
         b # c /\ agent'[b].m_iSockFd = agent'[c].m_iSockFd => agent'[b].m_iSockFd = NoFd
  <2>1. \A b, c \in Agents \ {a} :
           b # c /\ agent'[b].m_iSockFd = agent'[c].m_iSockFd => agent'[b].m_iSockFd = NoFd
    BY <1>2 DEF Inv, AgentsInv
  <2>2. \A b \in Agents \ {a} :
           agent'[b].m_iSockFd = ag.m_iSockFd => ag.m_iSockFd = NoFd
    BY <1>2, <1>4, <1>5
  <2> QED BY <1>2, <2>1, <2>2
<1>9. \A f \in Fds : /\ SockFit(sock'[f])
                     /\ sock'[f].conn # "none" =>
                           \E b \in Agents : Live(b)' /\ agent'[b].m_iSockFd = f
  <2>1. TAKE f \in Fds
  <2>2. SockFit(sock'[f])
    BY DEF Apart
  <2>3. ASSUME sock'[f].conn # "none", f = ag.m_iSockFd
        PROVE  \E b \in Agents : Live(b)' /\ agent'[b].m_iSockFd = f
    <3>1. ag.phase = "live"
      BY <1>1, <2>3
    <3> QED BY <1>2, <2>3, <3>1 DEF Live
  <2>4. ASSUME sock'[f].conn # "none", f # ag.m_iSockFd
        PROVE  \E b \in Agents : Live(b)' /\ agent'[b].m_iSockFd = f
    <3>1. sock[f].conn # "none" /\ f # agent[a].m_iSockFd
      BY <2>4 DEF Apart
    <3>2. PICK b \in Agents : Live(b) /\ agent[b].m_iSockFd = f
      BY <3>1 DEF Inv, AgentsInv
    <3> QED BY <1>2, <3>1, <3>2 DEF Live
  <2> QED BY <2>2, <2>3, <2>4
<1> QED
  BY <1>2, <1>4, <1>7, <1>8, <1>9 DEF AgentsInv

\* Dropping an agent closes its descriptor and nobody else's, whatever its
\* EpollEvent still names.
LEMMA RetiredApart ==
    ASSUME ConnectorAssumption, TypeOK, NEW a \in Agents,
           NEW ag \in AgentRecord, NEW sk, Past(ag),
           Apart(a, ag.m_iSockFd, sk), Safe(ag, sk)
    PROVE  LET r == Retired(a, ag, sk)
           IN  /\ r.ag \in AgentRecord /\ r.ag.phase = "retired" /\ Past(r.ag)
               /\ r.ag.m_iSockFd = NoFd
               /\ Apart(a, NoFd, r.sk)
<1> DEFINE q == unregisterRWEvent(View(ag, sk, TRUE), a)
           f == ag.m_iSockFd
           c == closeSocket(WithEntry(sk, ag.m_iFd, q.entry), f)
<1>1. /\ q.mask \in SUBSET Events
      /\ q.entry \in {View(ag, sk, TRUE).entry, NoEntry}
      /\ ag.m_iEpollEvent = {} => q.entry = View(ag, sk, TRUE).entry
  <2>1. View(ag, sk, TRUE).mask = ag.m_iEpollEvent /\ ag.m_iEpollEvent \in SUBSET Events
    BY DEF View, AgentRecord
  <2> QED BY <2>1, Unregistered
<1>2. c = closeSocket(sk, f)
  <2> HIDE DEF q
  <2>1. sk \in [Fds -> SockRecord] /\ NoFd \notin Fds
    BY DEF Apart, ConnectorAssumption
  <2>2. CASE ag.m_iFd \notin Fds
    BY <2>2 DEF WithEntry
  <2>3. CASE ag.m_iFd \in Fds /\ q.entry = sk[ag.m_iFd].entry
    <3>1. [sk EXCEPT ![ag.m_iFd].entry = q.entry] = sk
      BY <2>1, <2>3 DEF SockRecord
    <3> QED BY <2>3, <3>1 DEF WithEntry
  <2>4. CASE ag.m_iFd \in Fds /\ ag.m_iFd = f
    BY <2>1, <2>4 DEF WithEntry, closeSocket
  <2>5. CASE ag.m_iFd \in Fds /\ ag.m_iFd # f
    <3>1. View(ag, sk, TRUE).entry = sk[ag.m_iFd].entry
      BY <2>5 DEF View
    <3>2. q.entry = sk[ag.m_iFd].entry
      BY <1>1, <2>5, <3>1 DEF Safe
    <3> QED BY <2>3, <2>5, <3>2
  <2> QED BY <2>2, <2>4, <2>5
<1>3. LET r == Retired(a, ag, sk)
      IN  r.ag = [ag EXCEPT !.phase = "retired", !.m_iEpollEvent = q.mask,
                            !.m_iSockFd = NoFd] /\ r.sk = c
  BY DEF Retired, Result
<1>4. Apart(a, NoFd, closeSocket(sk, f))
  <2>1. NoSock \in SockRecord /\ SockFit(NoSock)
    BY DEF NoSock, SockRecord, NoEntry, SockFit
  <2>2. NoFd \notin Fds /\ f \in Fds \cup {NoFd}
    BY DEF ConnectorAssumption, AgentRecord
  <2>3. CASE f = NoFd
    BY <2>2, <2>3 DEF Apart, closeSocket
  <2>4. CASE f \in Fds
    <3>1. /\ closeSocket(sk, f) \in [Fds -> SockRecord]
          /\ closeSocket(sk, f)[f] = NoSock
          /\ \A g \in Fds \ {f} : closeSocket(sk, f)[g] = sk[g]
      BY <2>1, <2>4 DEF closeSocket, Apart
    <3>2. NoSock.conn = "none"
      BY DEF NoSock
    <3> QED BY <2>1, <2>2, <3>1, <3>2 DEF Apart
  <2> QED BY <2>2, <2>3, <2>4
<1> DEFINE new == [ag EXCEPT !.phase = "retired", !.m_iEpollEvent = q.mask,
                             !.m_iSockFd = NoFd]
<1>5. /\ new \in AgentRecord /\ new.phase = "retired" /\ Past(new)
      /\ new.m_iSockFd = NoFd
  <2> HIDE DEF q
  <2> QED BY <1>1 DEF AgentRecord, Past
<1> HIDE DEF new, c
<1>6. Retired(a, ag, sk).ag = new /\ Retired(a, ag, sk).sk = c
  BY <1>3 DEF new
<1> QED
  BY <1>2, <1>4, <1>5, <1>6

\* A handler's result, whether the agent is then kept or dropped.
LEMMA Finished ==
    ASSUME ConnectorAssumption, Inv, NEW a \in Agents, NEW r, Handled(a, r), Finish(a, r)
    PROVE  /\ agent' \in [Agents -> AgentRecord] /\ sock' \in [Fds -> SockRecord]
           /\ AgentsInv'
           /\ Live(a)' => Told(agent'[a])
           /\ \A b \in Agents \ {a} :
                 /\ agent'[b] = agent[b]
                 /\ agent[b].m_iSockFd \in Fds =>
                       sock'[agent[b].m_iSockFd] = sock[agent[b].m_iSockFd]
<1>1. CASE r.ok
  <2>1. agent' = [agent EXCEPT ![a] = r.ag] /\ sock' = r.sk
    BY <1>1 DEF Finish
  <2>2. agent'[a] = r.ag
    BY <2>1 DEF Inv, TypeOK
  <2> QED
    BY <1>1, <2>1, <2>2, Kept DEF Handled
<1>2. CASE ~r.ok
  <2> DEFINE q == Retired(a, r.ag, r.sk)
  <2>1. agent' = [agent EXCEPT ![a] = q.ag] /\ sock' = q.sk
    BY <1>2 DEF Finish
  <2>2. /\ q.ag \in AgentRecord /\ q.ag.phase = "retired" /\ Past(q.ag)
        /\ q.ag.m_iSockFd = NoFd /\ Apart(a, NoFd, q.sk)
    BY RetiredApart DEF Handled, Inv
  <2> HIDE DEF q
  <2>3. agent'[a] = q.ag
    BY <2>1 DEF Inv, TypeOK
  <2>4. ~Live(a)'
    BY <2>2, <2>3 DEF Live
  <2> QED
    BY <2>1, <2>2, <2>4, Kept
<1> QED BY <1>1, <1>2

-----------------------------------------------------------------------------
(* TCPAgent::connect. *)

\* What connect has made of the agent's fields when it comes to the socket f.
Again(ag, f) == [ag EXCEPT !.m_iConnectTimes = @ + 1, !.tries = @ + 1, !.m_iSockFd = f]

\* A socket fresh from socket().
Idle == [conn |-> "idle", rx |-> FALSE, wasUp |-> FALSE, entry |-> NoEntry]

WithOpen(sk, f) == IF f = NoFd THEN sk ELSE [sk EXCEPT ![f].conn = "idle"]

\* A state from which an agent may connect: it is not connected, and its
\* EpollEvent names its own socket or nothing that epoll knows.
MayConnect(a, ag) ==
    /\ ag \in AgentRecord /\ ag.phase = "live" /\ Past(ag)
    /\ ag.m_iConnect = "CONNECTING" /\ ~ag.got
    /\ ag.m_iConnectTimes < MAXRECONNECTTIMES
    /\ ag.m_iSockFd = agent[a].m_iSockFd
    /\ Safe(ag, sock)

\* The old socket is closed, and the new one, if any, is open and not registered:
\* the agent may be dropped, and if it believed in no event also be kept.
LEMMA Opened ==
    ASSUME ConnectorAssumption, Inv, NEW a \in Agents, NEW ag, MayConnect(a, ag),
           NEW closed, closed = closeSocket(sock, ag.m_iSockFd),
           NEW f \in {NoFd} \cup Fds, f \in Fds => closed[f].conn = "none",
           NEW sk, sk = WithOpen(closed, f)
    PROVE  /\ Again(ag, f) \in AgentRecord /\ Past(Again(ag, f))
           /\ Again(ag, f).phase = "live" /\ Again(ag, f).m_iConnect = "CONNECTING"
           /\ Again(ag, f).m_iSockFd = f /\ ~Again(ag, f).got
           /\ Again(ag, f).m_iEpollEvent = ag.m_iEpollEvent
           /\ Apart(a, f, sk)
           /\ Safe(Again(ag, f), sk)
           /\ f \in Fds => sk[f] = Idle
<1> DEFINE old == ag.m_iSockFd
<1>1. /\ Again(ag, f) \in AgentRecord /\ Past(Again(ag, f))
      /\ Again(ag, f).phase = "live" /\ Again(ag, f).m_iConnect = "CONNECTING"
      /\ Again(ag, f).m_iSockFd = f /\ ~Again(ag, f).got
      /\ Again(ag, f).m_iEpollEvent = ag.m_iEpollEvent
      /\ Again(ag, f).m_iFd = ag.m_iFd
  <2>1. /\ ag \in AgentRecord /\ MAXRECONNECTTIMES \in Nat
        /\ ag.m_iConnectTimes \in -1..MAXRECONNECTTIMES /\ ag.tries \in Nat
        /\ ag.m_iConnectTimes < MAXRECONNECTTIMES
        /\ ag.tries <= ag.m_iConnectTimes + 1
    BY DEF MayConnect, AgentRecord, Past, ConnectorAssumption
  <2>2. /\ ag.m_iConnectTimes + 1 \in -1..MAXRECONNECTTIMES /\ ag.tries + 1 \in Nat
        /\ ag.tries + 1 <= ag.m_iConnectTimes + 1 + 1
    BY <2>1
  <2>3. /\ Again(ag, f) \in AgentRecord
        /\ Again(ag, f).tries = ag.tries + 1
        /\ Again(ag, f).m_iConnectTimes = ag.m_iConnectTimes + 1
        /\ Again(ag, f).told = ag.told /\ Again(ag, f).m_iConnect = ag.m_iConnect
        /\ Again(ag, f).phase = ag.phase /\ Again(ag, f).got = ag.got
        /\ Again(ag, f).m_iSockFd = f /\ Again(ag, f).m_iFd = ag.m_iFd
        /\ Again(ag, f).m_iEpollEvent = ag.m_iEpollEvent
    BY <2>1, <2>2 DEF Again, AgentRecord
  <2> QED BY <2>2, <2>3 DEF MayConnect, Past
<1>2. /\ sock \in [Fds -> SockRecord] /\ NoFd \notin Fds /\ old \in Fds \cup {NoFd}
      /\ \A g \in Fds : SockFit(sock[g])
  BY DEF Inv, TypeOK, AgentsInv, ConnectorAssumption, MayConnect, AgentRecord
<1>3. /\ NoSock \in SockRecord /\ SockFit(NoSock) /\ NoSock.conn = "none"
      /\ NoSock.entry = NoEntry
      /\ Idle \in SockRecord /\ SockFit(Idle) /\ Idle.conn = "idle"
      /\ Idle.entry = NoEntry
  BY DEF NoSock, Idle, SockRecord, NoEntry, SockFit
<1>4. /\ closed \in [Fds -> SockRecord]
      /\ \A g \in Fds : closed[g] = IF g = old THEN NoSock ELSE sock[g]
  BY <1>2, <1>3 DEF closeSocket
<1>5. f \in Fds => closed[f] = NoSock
  BY <1>2, <1>3, <1>4 DEF SockFit
<1>6. /\ sk \in [Fds -> SockRecord]
      /\ f \in Fds => sk[f] = Idle
      /\ \A g \in Fds : g # f => sk[g] = closed[g]
  <2>1. CASE f = NoFd
    BY <1>2, <1>4, <2>1 DEF WithOpen
  <2>2. CASE f \in Fds
    <3>1. /\ sk \in [Fds -> SockRecord]
          /\ sk[f] = [closed[f] EXCEPT !.conn = "idle"]
          /\ \A g \in Fds : g # f => sk[g] = closed[g]
      <4> DEFINE s == [closed[f] EXCEPT !.conn = "idle"]
      <4>1. sk = [closed EXCEPT ![f] = s]
        BY <1>2, <2>2 DEF WithOpen
      <4>2. s \in SockRecord
        BY <1>4, <2>2 DEF SockRecord
      <4> HIDE DEF s
      <4>3. sk \in [Fds -> SockRecord] /\ sk[f] = s /\ \A g \in Fds : g # f => sk[g] = closed[g]
        BY <1>4, <2>2, <4>1, <4>2
      <4> QED BY <4>3 DEF s
    <3>2. closed[f].rx = FALSE /\ closed[f].wasUp = FALSE /\ closed[f].entry = NoEntry
      BY <1>5, <2>2 DEF NoSock
    <3>3. /\ sk[f].conn = "idle" /\ sk[f].rx = FALSE /\ sk[f].wasUp = FALSE
          /\ sk[f].entry = NoEntry
      BY <1>4, <2>2, <3>1, <3>2 DEF SockRecord
    <3>4. sk[f] = Idle
      BY <1>3, <2>2, <3>1, <3>3 DEF SockRecord, Idle
    <3> QED BY <3>1, <3>4
  <2> QED BY <2>1, <2>2
<1>7. Apart(a, f, sk)
  <2>1. \A g \in Fds : SockFit(sk[g])
    BY <1>2, <1>3, <1>4, <1>6
  <2>2. \A g \in Fds : sock[g].conn # "none" /\ g # old => sk[g] = sock[g] /\ g # f
    BY <1>3, <1>4, <1>5, <1>6
  <2>3. \A g \in Fds : sk[g].conn # "none" => g = f \/ (sock[g].conn # "none" /\ g # old)
    BY <1>3, <1>4, <1>6
  <2>4. old = agent[a].m_iSockFd
    BY DEF MayConnect
  <2> QED BY <1>6, <2>1, <2>2, <2>3, <2>4 DEF Apart
<1>8. Safe(Again(ag, f), sk)
  <2>1. ASSUME ag.m_iFd \in Fds, ag.m_iEpollEvent # {}, ag.m_iFd # f
        PROVE  sk[ag.m_iFd].entry = NoEntry
    <3>1. ag.m_iFd = old \/ sock[ag.m_iFd].entry = NoEntry
      BY <2>1 DEF MayConnect, Safe
    <3> QED BY <1>3, <1>4, <1>6, <2>1, <3>1
  <2> QED BY <1>1, <2>1 DEF Safe
<1> QED
  BY <1>1, <1>6, <1>7, <1>8

\* Whatever the connection and the entry of the agent's own socket become.
LEMMA SetApart ==
    ASSUME NEW a \in Agents, NEW f \in Fds, NEW sk, Apart(a, f, sk),
           NEW ns \in [Fds -> SockRecord], SockFit(ns[f]),
           \A g \in Fds : g # f => ns[g] = sk[g]
    PROVE  Apart(a, f, ns)
BY DEF Apart

\* Once the socket is open the agent is sound, whatever fails afterwards.
LEMMA RegisterFits ==
    ASSUME ConnectorAssumption, NEW a \in Agents, NEW ag \in AgentRecord, NEW sk,
           ag.phase = "live", ag.m_iConnect = "CONNECTING", ~ag.got, Past(ag),
           ag.m_iSockFd \in Fds,
           Apart(a, ag.m_iSockFd, sk),
           sk[ag.m_iSockFd] = Idle,
           NEW r \in RegisterAndConnect(a, ag, sk)
    PROVE  Handled(a, r) /\ Fit(a, r.ag, r.sk) /\ Told(r.ag)
<1> DEFINE f == ag.m_iSockFd
           reply(room) == registerRWEvent(View(setFd(ag), sk, room), a)
           after(mask) == [setFd(ag) EXCEPT !.m_iEpollEvent = mask]
           both == [ptr |-> a, events |-> Events]
<1>1. sk \in [Fds -> SockRecord] /\ NoFd \notin Fds /\ NoPtr \notin Agents
  BY DEF Apart, ConnectorAssumption
<1>2. \A room \in BOOLEAN :
         reply(room) = IF room THEN Reply(TRUE, Events, [ptr |-> a, events |-> Events])
                       ELSE Reply(FALSE, {}, NoEntry)
  <2>1. TAKE room \in BOOLEAN
  <2> DEFINE v == View(setFd(ag), sk, room)
  <2>2. v.fd = f /\ v.mask = {} /\ v.room = room /\ v.entry = NoEntry
    BY DEF View, setFd, AgentRecord, Idle
  <2> HIDE DEF v
  <2>3. registerRWEvent(v, a) = IF v.room THEN Reply(TRUE, Events, [ptr |-> a, events |-> Events])
                                ELSE Reply(FALSE, {}, NoEntry)
    BY <1>1, <2>2, Registered
  <2> QED BY <2>2, <2>3 DEF v
<1>3. \/ \E conn \in {"idle", "syn", "up"} :
            r = Result(conn = "up", after(Events),
                       [WithEntry(sk, f, both) EXCEPT
                           ![f].conn = conn, ![f].wasUp = conn = "up"])
      \/ r = Result(FALSE, after({}), WithEntry(sk, f, NoEntry))
  <2>1. PICK room \in BOOLEAN :
           r \in IF reply(room).ok
                 THEN connectSocket(after(reply(room).mask),
                                    WithEntry(sk, f, reply(room).entry))
                 ELSE {Result(FALSE, after(reply(room).mask),
                              WithEntry(sk, f, reply(room).entry))}
    BY DEF RegisterAndConnect
  <2>2. after(Events).m_iSockFd = f
    BY DEF setFd, AgentRecord
  <2> DEFINE q == reply(room)
  <2>3. q = Reply(TRUE, Events, both) \/ q = Reply(FALSE, {}, NoEntry)
    BY <1>2
  <2>4. r \in IF q.ok THEN connectSocket(after(q.mask), WithEntry(sk, f, q.entry))
              ELSE {Result(FALSE, after(q.mask), WithEntry(sk, f, q.entry))}
    BY <2>1
  <2> HIDE DEF q, reply, after, both
  <2>5. CASE q = Reply(TRUE, Events, both)
    <3>1. r \in connectSocket(after(Events), WithEntry(sk, f, both))
      BY <2>4, <2>5 DEF Reply
    <3> QED BY <2>2, <3>1 DEF connectSocket
  <2>6. CASE q = Reply(FALSE, {}, NoEntry)
    BY <2>4, <2>6 DEF Reply
  <2> QED BY <2>3, <2>5, <2>6
<1>4. \A mask \in SUBSET Events :
         /\ after(mask) \in AgentRecord /\ after(mask).phase = "live"
         /\ Past(after(mask)) /\ after(mask).m_iSockFd = f /\ after(mask).m_iFd = f
         /\ after(mask).m_iEpollEvent = mask /\ after(mask).m_iConnect = "CONNECTING"
         /\ ~after(mask).got
  BY DEF setFd, AgentRecord, Past
<1> HIDE DEF after
<1>5. ASSUME NEW mask \in {{}, Events}, NEW ns \in [Fds -> SockRecord],
             SockFit(ns[f]), ns[f].conn # "none", ns[f].entry = Entry(a, mask),
             \A g \in Fds : g # f => ns[g] = sk[g],
             NEW ok, r = Result(ok, after(mask), ns)
      PROVE  Handled(a, r) /\ Fit(a, r.ag, r.sk) /\ Told(r.ag)
  <2>1. r.ag = after(mask) /\ r.sk = ns
    BY <1>5 DEF Result
  <2>2. Apart(a, f, ns)
    BY <1>5, SetApart
  <2>3. mask \in SUBSET Events
    OBVIOUS
  <2>4. Fit(a, after(mask), ns)
    BY <1>1, <1>4, <1>5, <2>3 DEF Fit
  <2>5. Safe(after(mask), ns)
    BY <1>4, <2>3 DEF Safe
  <2>6. Told(after(mask))
    BY <1>4, <2>3 DEF Told
  <2> QED BY <1>4, <2>1, <2>2, <2>3, <2>4, <2>5, <2>6 DEF Handled
<1>6. CASE r = Result(FALSE, after({}), WithEntry(sk, f, NoEntry))
  <2> DEFINE ns == WithEntry(sk, f, NoEntry)
  <2>1. ns = sk
    <3>1. sk[f].entry = NoEntry
      BY DEF Idle
    <3> QED BY <1>1, <3>1 DEF WithEntry, SockRecord
  <2>2. SockFit(sk[f]) /\ sk[f].conn # "none" /\ sk[f].entry = Entry(a, {})
    BY DEF Apart, Idle, Entry
  <2> HIDE DEF ns
  <2> QED BY <1>1, <1>5, <1>6, <2>1, <2>2 DEF ns
<1>7. ASSUME NEW conn \in {"idle", "syn", "up"},
             r = Result(conn = "up", after(Events),
                        [WithEntry(sk, f, both) EXCEPT
                            ![f].conn = conn, ![f].wasUp = conn = "up"])
      PROVE  Handled(a, r) /\ Fit(a, r.ag, r.sk) /\ Told(r.ag)
  <2> DEFINE w == WithEntry(sk, f, both)
             ns == [w EXCEPT ![f].conn = conn, ![f].wasUp = conn = "up"]
  <2>1. w \in [Fds -> SockRecord] /\ w[f].entry = both /\ w[f].rx = FALSE
    <3>1. both \in [ptr : Agents \cup {NoPtr}, events : SUBSET Events]
      OBVIOUS
    <3>2. sk[f] \in SockRecord /\ sk[f].rx = FALSE
      BY <1>1 DEF Idle
    <3>3. w = [sk EXCEPT ![f].entry = both]
      BY DEF WithEntry
    <3> HIDE DEF both
    <3> QED BY <1>1, <3>1, <3>2, <3>3 DEF SockRecord
  <2>2. /\ ns \in [Fds -> SockRecord]
        /\ ns[f].conn = conn /\ (ns[f].wasUp <=> conn = "up")
        /\ ns[f].entry = both /\ ns[f].rx = FALSE
        /\ \A g \in Fds : g # f => ns[g] = w[g]
    <3> HIDE DEF w, both
    <3> QED BY <2>1 DEF SockRecord
  <2>3. \A g \in Fds : g # f => w[g] = sk[g]
    BY <1>1 DEF WithEntry
  <2> HIDE DEF ns, w
  <2>4. SockFit(ns[f]) /\ ns[f].conn # "none"
    BY <2>2 DEF SockFit
  <2>5. ns[f].entry = Entry(a, Events)
    BY <2>2 DEF Entry, Events
  <2>6. r = Result(conn = "up", after(Events), ns)
    BY <1>7 DEF ns, w
  <2> QED BY <1>5, <2>2, <2>3, <2>4, <2>5, <2>6
<1> QED BY <1>3, <1>6, <1>7

\* Every outcome of connect, from whichever of its steps it returns.
LEMMA ConnectHandled ==
    ASSUME ConnectorAssumption, Inv, NEW a \in Agents, NEW ag, MayConnect(a, ag),
           NEW r \in connect(a, ag, sock)
    PROVE  /\ Handled(a, r)
           /\ ag.m_iEpollEvent = {} => Fit(a, r.ag, r.sk) /\ Told(r.ag)
<1> DEFINE closed == closeSocket(sock, ag.m_iSockFd)
           opened(f) == [closed EXCEPT ![f].conn = "idle"]
<1>1. NoFd \notin Fds
  BY DEF ConnectorAssumption
<1>2. \/ r = Result(FALSE, Again(ag, NoFd), closed)
      \/ \E f \in Fds :
            /\ closed[f].conn = "none"
            /\ \/ r = Result(FALSE, Again(ag, f), opened(f))
               \/ r \in RegisterAndConnect(a, Again(ag, f), opened(f))
  <2>1. \E f \in generateSocket(closed) :
           r \in IF f = NoFd THEN {Result(FALSE, Again(ag, f), closed)}
                 ELSE UNION {IF q.ok THEN RegisterAndConnect(a, q.ag, q.sk) ELSE {q} :
                                q \in OptionsSet(Again(ag, f), opened(f))}
    BY DEF connect, Again
  <2>2. PICK f \in generateSocket(closed) :
           r \in IF f = NoFd THEN {Result(FALSE, Again(ag, f), closed)}
                 ELSE UNION {IF q.ok THEN RegisterAndConnect(a, q.ag, q.sk) ELSE {q} :
                                q \in OptionsSet(Again(ag, f), opened(f))}
    BY <2>1
  <2> HIDE DEF closed, opened
  <2>3. CASE f = NoFd
    BY <2>2, <2>3
  <2>4. CASE f # NoFd
    <3>1. f \in Fds /\ closed[f].conn = "none"
      BY <2>4 DEF generateSocket
    <3>2. \E ok \in BOOLEAN : LET q == Result(ok, Again(ag, f), opened(f))
             IN  r \in IF q.ok THEN RegisterAndConnect(a, q.ag, q.sk) ELSE {q}
      BY <2>2, <2>4 DEF OptionsSet
    <3>3. \/ r = Result(FALSE, Again(ag, f), opened(f))
          \/ r \in RegisterAndConnect(a, Again(ag, f), opened(f))
      BY <3>2 DEF Result
    <3> QED BY <3>1, <3>3
  <2> QED BY <2>3, <2>4
<1>3. CASE r = Result(FALSE, Again(ag, NoFd), closed)
  <2>1. /\ Again(ag, NoFd) \in AgentRecord /\ Past(Again(ag, NoFd))
        /\ Again(ag, NoFd).phase = "live" /\ Again(ag, NoFd).m_iConnect = "CONNECTING"
        /\ Again(ag, NoFd).m_iSockFd = NoFd /\ ~Again(ag, NoFd).got
        /\ Again(ag, NoFd).m_iEpollEvent = ag.m_iEpollEvent
        /\ Apart(a, NoFd, closed) /\ Safe(Again(ag, NoFd), closed)
    BY <1>1, Opened DEF WithOpen
  <2>2. ~r.ok /\ r.ag = Again(ag, NoFd) /\ r.sk = closed
    BY <1>3 DEF Result
  <2> HIDE DEF closed
  <2>3. Told(r.ag) /\ (ag.m_iEpollEvent = {} => Fit(a, r.ag, r.sk))
    BY <1>1, <2>1, <2>2 DEF Fit, Told
  <2> QED BY <2>1, <2>2, <2>3 DEF Handled
<1>4. ASSUME NEW f \in Fds, closed[f].conn = "none",
             \/ r = Result(FALSE, Again(ag, f), opened(f))
             \/ r \in RegisterAndConnect(a, Again(ag, f), opened(f))
      PROVE  Handled(a, r) /\ (ag.m_iEpollEvent = {} => Fit(a, r.ag, r.sk) /\ Told(r.ag))
  <2>1. /\ Again(ag, f) \in AgentRecord /\ Past(Again(ag, f))
        /\ Again(ag, f).phase = "live" /\ Again(ag, f).m_iConnect = "CONNECTING"
        /\ Again(ag, f).m_iSockFd = f /\ ~Again(ag, f).got
        /\ Again(ag, f).m_iEpollEvent = ag.m_iEpollEvent
        /\ Apart(a, f, opened(f)) /\ Safe(Again(ag, f), opened(f))
        /\ opened(f)[f] = Idle
    <3> DEFINE sk == opened(f)
    <3>1. /\ f \in {NoFd} \cup Fds /\ closed = closeSocket(sock, ag.m_iSockFd)
          /\ sk = WithOpen(closed, f)
      BY <1>1 DEF WithOpen
    <3> HIDE DEF closed, sk
    <3>2. /\ Again(ag, f) \in AgentRecord /\ Past(Again(ag, f))
          /\ Again(ag, f).phase = "live" /\ Again(ag, f).m_iConnect = "CONNECTING"
          /\ Again(ag, f).m_iSockFd = f /\ ~Again(ag, f).got
          /\ Again(ag, f).m_iEpollEvent = ag.m_iEpollEvent
          /\ Apart(a, f, sk) /\ Safe(Again(ag, f), sk) /\ sk[f] = Idle
      <4>1. closed[f].conn = "none"
        BY <1>4
      <4> QED BY <3>1, <4>1, Opened
    <3> QED BY <3>2 DEF sk
  <2> HIDE DEF closed, opened
  <2>2. CASE r \in RegisterAndConnect(a, Again(ag, f), opened(f))
    BY <2>1, <2>2, RegisterFits
  <2>3. CASE r = Result(FALSE, Again(ag, f), opened(f))
    <3>1. ~r.ok /\ r.ag = Again(ag, f) /\ r.sk = opened(f)
      BY <2>3 DEF Result
    <3>2. opened(f)[f].conn = "idle" /\ opened(f)[f].entry = NoEntry
      BY <2>1 DEF Idle
    <3>3. Told(r.ag) /\ (ag.m_iEpollEvent = {} => Fit(a, r.ag, r.sk))
      BY <1>1, <2>1, <3>1, <3>2 DEF Fit, Told, Entry
    <3> QED BY <2>1, <3>1, <3>3 DEF Handled
  <2> QED BY <1>4, <2>2, <2>3
<1> QED
  <2> HIDE DEF closed, opened
  <2> QED BY <1>2, <1>3, <1>4

-----------------------------------------------------------------------------
(* The other handlers. *)

\* The agent an entry names, and what the loop may rely on.
LEMMA EntryAgent ==
    ASSUME ConnectorAssumption, Inv, NEW e \in batch
    PROVE  /\ e.ptr \in Agents /\ Live(e.ptr)
           /\ agent[e.ptr] \in AgentRecord /\ agent[e.ptr].phase = "live"
           /\ Past(agent[e.ptr]) /\ Fit(e.ptr, agent[e.ptr], sock)
           /\ EventFit(e)
           /\ Safe(agent[e.ptr], sock)
           /\ pc = "batch" => Told(agent[e.ptr])
<1>1. e.ptr \in Agents /\ Live(e.ptr) /\ EventFit(e)
  BY DEF Inv, TypeOK, NoDanglingEvent
<1>2. /\ agent[e.ptr] \in AgentRecord
      /\ Past(agent[e.ptr]) /\ Fit(e.ptr, agent[e.ptr], sock)
  BY <1>1 DEF Inv, TypeOK, AgentsInv
<1>3. Safe(agent[e.ptr], sock)
  BY <1>1, <1>2 DEF Fit, EventFit, Safe
<1>4. pc = "batch" => Told(agent[e.ptr])
  BY <1>1 DEF Inv, InOut
<1> QED BY <1>1, <1>2, <1>3, <1>4 DEF Live

LEMMA ApartSame ==
    ASSUME Inv, NEW a \in Agents
    PROVE  Apart(a, agent[a].m_iSockFd, sock)
BY DEF Inv, TypeOK, AgentsInv, Apart

\* An entry is handled: the events that are left are those of other agents.
LEMMA HandlingKeeps ==
    ASSUME ConnectorAssumption, Inv, NEW e \in batch, Handling(e), UNCHANGED <<pc, cur>>,
           NEW r, Handled(e.ptr, r), Finish(e.ptr, r)
    PROVE  Inv'
<1>1. /\ agent' \in [Agents -> AgentRecord] /\ sock' \in [Fds -> SockRecord]
      /\ AgentsInv' /\ (Live(e.ptr)' => Told(agent'[e.ptr]))
      /\ \A b \in Agents \ {e.ptr} :
            /\ agent'[b] = agent[b]
            /\ agent[b].m_iSockFd \in Fds =>
                  sock'[agent[b].m_iSockFd] = sock[agent[b].m_iSockFd]
  BY EntryAgent, Finished
<1>2. pc = "batch" /\ pc' = pc /\ cur' = cur /\ batch' = batch \ {e}
  BY DEF Handling
<1>3. \A d \in batch' : /\ d \in batch /\ d.ptr \in Agents \ {e.ptr}
                        /\ Live(d.ptr) /\ EventFit(d)
  BY <1>2 DEF Inv, TypeOK, NoDanglingEvent
<1>4. TypeOK'
  BY <1>1, <1>2 DEF Inv, TypeOK
<1>5. NoDanglingEvent'
  BY <1>1, <1>2, <1>3 DEF Inv, NoDanglingEvent, Live
<1>6. \A d \in batch' : EventFit(d)'
  BY <1>1, <1>3 DEF EventFit
<1>7. \A a \in Agents : Live(a)' => Told(agent'[a])
  <2>1. \A a \in Agents : Live(a) => Told(agent[a])
    BY <1>2 DEF Inv, InOut
  <2> QED BY <1>1, <2>1 DEF Live
<1> QED
  BY <1>1, <1>2, <1>4, <1>5, <1>6, <1>7 DEF Inv

LEMMA ReconnectKeeps ==
    ASSUME ConnectorAssumption, Inv, NEW e \in batch, Reconnect(e)
    PROVE  Inv'
<1> DEFINE a == e.ptr
<1>1. PICK r \in connect(a, agent[a], sock) : Finish(a, r)
  BY DEF Reconnect
<1>2. MayConnect(a, agent[a])
  <2>1. agent[a].m_iConnect = "CONNECTING" /\ agent[a].m_iConnectTimes < MAXRECONNECTTIMES
    BY DEF Reconnect, Connecting, allowReconnect
  <2>2. ~agent[a].got
    BY <2>1, EntryAgent DEF Reconnect, Handling, Told
  <2> QED BY <2>1, <2>2, EntryAgent DEF MayConnect
<1>3. Handled(a, r)
  BY <1>2, ConnectHandled, EntryAgent
<1>4. Handling(e) /\ UNCHANGED <<pc, cur>>
  BY DEF Reconnect
<1> QED BY <1>1, <1>3, <1>4, HandlingKeeps

LEMMA ConnectFailedKeeps ==
    ASSUME ConnectorAssumption, Inv, NEW e \in batch, ConnectFailed(e)
    PROVE  Inv'
<1> DEFINE a == e.ptr
           ag == agent[a]
           new == [[ag EXCEPT !.m_iConnectTimes = 0] EXCEPT
                      !.told = @ \cup {FALSE}, !.tries = 0]
<1>1. PICK ok \in BOOLEAN : Finish(a, Result(ok, new, sock))
  <2>1. PICK r \in connectAfter(Result(TRUE, [ag EXCEPT !.m_iConnectTimes = 0], sock), FALSE) :
           Finish(a, r)
    BY DEF ConnectFailed
  <2>2. PICK ok \in BOOLEAN : r = Result(ok, new, sock)
    BY DEF connectAfter, Result
  <2> QED BY <2>1, <2>2
<1>2. /\ new \in AgentRecord /\ new.phase = "live"
      /\ new.m_iSockFd = ag.m_iSockFd /\ new.m_iFd = ag.m_iFd
      /\ new.m_iEpollEvent = ag.m_iEpollEvent /\ new.m_iConnect = ag.m_iConnect
      /\ new.got = ag.got /\ new.tries = 0 /\ new.m_iConnectTimes = 0
      /\ new.told = ag.told \cup {FALSE}
  <2>1. ag \in AgentRecord /\ ag.phase = "live" /\ 0 \in -1..MAXRECONNECTTIMES
    BY EntryAgent DEF ConnectorAssumption
  <2> QED BY <2>1 DEF AgentRecord
<1> HIDE DEF new
<1>3. Past(new)
  <2>1. TRUE \in new.told <=> TRUE \in ag.told
    BY <1>2, Zenon
  <2>2. TRUE \in ag.told <=> ag.m_iConnect = "CONNECTED"
    BY EntryAgent DEF Past
  <2>3. new.tries <= new.m_iConnectTimes + 1
    BY <1>2
  <2> QED BY <1>2, <2>1, <2>2, <2>3 DEF Past
<1>4. Fit(a, new, sock) /\ Safe(new, sock) /\ Told(new)
  BY <1>2, EntryAgent DEF Fit, Safe, Told, ConnectFailed, Handling
<1>5. Handled(a, Result(ok, new, sock))
  BY <1>2, <1>3, <1>4, ApartSame, EntryAgent DEF Handled, Result
<1>6. Handling(e) /\ UNCHANGED <<pc, cur>>
  BY DEF ConnectFailed
<1> QED BY <1>1, <1>5, <1>6, HandlingKeeps

\* A read fails and leaves all as it is, or takes the data of the agent's socket.
LEMMA RecvEffect ==
    ASSUME ConnectorAssumption, Inv, NEW a \in Agents,
           NEW r \in recvData(agent[a], sock)
    PROVE  /\ Apart(a, agent[a].m_iSockFd, r.sk)
           /\ \A g \in Fds : /\ r.sk[g].conn = sock[g].conn
                             /\ r.sk[g].wasUp = sock[g].wasUp
                             /\ r.sk[g].entry = sock[g].entry
           /\ r.ag \in AgentRecord
           /\ \E got \in BOOLEAN : /\ r.ag = [agent[a] EXCEPT !.got = got]
                                   /\ ~r.ok => got = agent[a].got
<1> DEFINE ag == agent[a]
           f == ag.m_iSockFd
           ns == [sock EXCEPT ![f].rx = FALSE]
<1>1. ag \in AgentRecord /\ sock \in [Fds -> SockRecord]
  BY DEF Inv, TypeOK
<1>2. CASE r = Result(FALSE, ag, sock)
  <2>1. ag = [ag EXCEPT !.got = ag.got] /\ ag.got \in BOOLEAN
    BY <1>1 DEF AgentRecord
  <2> QED BY <1>1, <1>2, <2>1, ApartSame DEF Result
<1>3. CASE f \in Fds /\ r = Result(TRUE, [ag EXCEPT !.got = TRUE], ns)
  <2>1. /\ ns \in [Fds -> SockRecord]
        /\ ns[f].conn = sock[f].conn /\ ns[f].wasUp = sock[f].wasUp
        /\ ns[f].entry = sock[f].entry /\ ns[f].rx = FALSE
        /\ \A g \in Fds : g # f => ns[g] = sock[g]
    BY <1>1, <1>3 DEF SockRecord
  <2>2. sock[f].conn # "none"
    BY <1>1, <1>3 DEF Inv, AgentsInv, Fit, ConnectorAssumption
  <2>3. SockFit(sock[f])
    BY <1>3 DEF Inv, AgentsInv
  <2> HIDE DEF ns
  <2>4. SockFit(ns[f])
    BY <2>1, <2>2, <2>3 DEF SockFit
  <2>5. Apart(a, f, ns)
    BY <1>3, <2>1, <2>4, ApartSame, SetApart
  <2>6. [ag EXCEPT !.got = TRUE] \in AgentRecord
    BY <1>1 DEF AgentRecord
  <2> QED BY <1>3, <2>1, <2>5, <2>6 DEF Result
<1>4. r = Result(FALSE, ag, sock) \/
      (f \in Fds /\ r = Result(TRUE, [ag EXCEPT !.got = TRUE], ns))
  <2>1. \/ r = Result(FALSE, ag, sock)
        \/ r \in IF Readable(ag, sock) THEN {Result(TRUE, [ag EXCEPT !.got = TRUE], ns)}
                 ELSE {}
    BY DEF recvData
  <2> HIDE DEF ns
  <2>2. CASE Readable(ag, sock)
    BY <2>1, <2>2 DEF Readable
  <2>3. CASE ~Readable(ag, sock)
    BY <2>1, <2>3
  <2> QED BY <2>2, <2>3
<1> QED BY <1>2, <1>3, <1>4

LEMMA ReadKeeps ==
    ASSUME ConnectorAssumption, Inv, NEW e \in batch, Read(e)
    PROVE  Inv'
<1> DEFINE a == e.ptr
           ag == agent[a]
<1>1. PICK r \in recvData(ag, sock) : /\ r.ok => Failed(e) \/ "OUT" \notin e.ev
                                     /\ Finish(a, r)
  BY DEF Read
<1>2. /\ a \in Agents /\ ag \in AgentRecord /\ ag.phase = "live"
      /\ Past(ag) /\ Fit(a, ag, sock) /\ EventFit(e) /\ Safe(ag, sock)
  BY EntryAgent
<1>3. r.ok => ag.m_iConnect = "CONNECTED"
  <2>1. ag.m_iConnect \in {"CONNECTING", "CONNECTED"}
    BY <1>2 DEF AgentRecord
  <2> QED BY <1>1, <1>2, <2>1 DEF Read, Failed, Connecting, EventFit
<1>4. PICK got \in BOOLEAN : /\ r.ag = [ag EXCEPT !.got = got]
                             /\ ~r.ok => got = ag.got
  BY <1>2, RecvEffect
<1>5. /\ Apart(a, ag.m_iSockFd, r.sk)
      /\ \A g \in Fds : /\ r.sk[g].conn = sock[g].conn
                        /\ r.sk[g].wasUp = sock[g].wasUp
                        /\ r.sk[g].entry = sock[g].entry
      /\ r.ag \in AgentRecord
  BY <1>2, RecvEffect
<1>6. /\ r.ag.phase = "live" /\ r.ag.m_iSockFd = ag.m_iSockFd
      /\ r.ag.m_iFd = ag.m_iFd /\ r.ag.m_iEpollEvent = ag.m_iEpollEvent
      /\ r.ag.m_iConnect = ag.m_iConnect /\ r.ag.told = ag.told
      /\ r.ag.tries = ag.tries /\ r.ag.m_iConnectTimes = ag.m_iConnectTimes
  BY <1>2, <1>4 DEF AgentRecord
<1>7. Past(r.ag)
  BY <1>2, <1>6 DEF Past
<1>8. Safe(r.ag, r.sk)
  BY <1>2, <1>5, <1>6 DEF Safe
<1>9. r.ok => Fit(a, r.ag, r.sk) /\ Told(r.ag)
  BY <1>2, <1>3, <1>5, <1>6 DEF Fit, Told
<1>10. Handled(a, r)
  BY <1>5, <1>6, <1>7, <1>8, <1>9 DEF Handled
<1>11. Handling(e) /\ UNCHANGED <<pc, cur>>
  BY DEF Read
<1> QED BY <1>1, <1>10, <1>11, HandlingKeeps

\* The read half of an entry whose write half is next: the agent keeps what Fit
\* says of it, and only Told may be broken.
LEMMA ReadFirstKeeps ==
    ASSUME ConnectorAssumption, Inv, NEW e \in batch, ReadFirst(e)
    PROVE  Inv'
<1> DEFINE a == e.ptr
           ag == agent[a]
<1>1. PICK r \in recvData(ag, sock) : r.ok /\ Finish(a, r)
  BY DEF ReadFirst
<1>2. /\ a \in Agents /\ ag \in AgentRecord /\ ag.phase = "live"
      /\ Past(ag) /\ Fit(a, ag, sock) /\ EventFit(e)
  BY EntryAgent
<1>3. /\ Apart(a, ag.m_iSockFd, r.sk)
      /\ \A g \in Fds : /\ r.sk[g].conn = sock[g].conn
                        /\ r.sk[g].wasUp = sock[g].wasUp
                        /\ r.sk[g].entry = sock[g].entry
      /\ r.ag \in AgentRecord
      /\ \E got \in BOOLEAN : r.ag = [ag EXCEPT !.got = got]
  BY <1>2, RecvEffect
<1>4. /\ r.ag.phase = "live" /\ r.ag.m_iSockFd = ag.m_iSockFd
      /\ r.ag.m_iFd = ag.m_iFd /\ r.ag.m_iEpollEvent = ag.m_iEpollEvent
      /\ r.ag.m_iConnect = ag.m_iConnect /\ r.ag.told = ag.told
      /\ r.ag.tries = ag.tries /\ r.ag.m_iConnectTimes = ag.m_iConnectTimes
  BY <1>2, <1>3 DEF AgentRecord
<1>5. Past(r.ag) /\ Fit(a, r.ag, r.sk)
  <2>1. Past(r.ag)
    BY <1>2, <1>4 DEF Past
  <2>2. \A g \in Fds : /\ r.sk[g].conn = sock[g].conn
                       /\ r.sk[g].wasUp = sock[g].wasUp
                       /\ r.sk[g].entry = sock[g].entry
    BY <1>3
  <2>3. Fit(a, r.ag, r.sk)
    BY <1>2, <1>4, <2>2 DEF Fit
  <2> QED BY <2>1, <2>3
<1>6. agent' = [agent EXCEPT ![a] = r.ag] /\ sock' = r.sk
  BY <1>1 DEF Finish
<1>7. /\ agent' \in [Agents -> AgentRecord] /\ sock' \in [Fds -> SockRecord]
      /\ AgentsInv'
      /\ \A b \in Agents \ {a} :
            /\ agent'[b] = agent[b]
            /\ agent[b].m_iSockFd \in Fds =>
                  sock'[agent[b].m_iSockFd] = sock[agent[b].m_iSockFd]
  BY <1>2, <1>3, <1>4, <1>5, <1>6, Kept
<1>8. /\ pc = "batch" /\ pc' = "out" /\ cur' = a /\ batch' = batch \ {e}
      /\ ~Failed(e)
  BY DEF ReadFirst, Handling
<1>9. \A d \in batch' : /\ d \in batch /\ d.ptr \in Agents \ {a}
                        /\ Live(d.ptr) /\ EventFit(d)
  BY <1>8 DEF Inv, TypeOK, NoDanglingEvent
<1>10. agent'[a] = r.ag /\ Live(a)'
  BY <1>2, <1>4, <1>6 DEF Live, Inv, TypeOK
<1>11. TypeOK'
  BY <1>2, <1>7, <1>8 DEF Inv, TypeOK
<1>12. NoDanglingEvent'
  BY <1>2, <1>7, <1>8, <1>9, <1>10 DEF Inv, NoDanglingEvent, Live
<1>13. \A d \in batch' : EventFit(d)'
  BY <1>7, <1>9 DEF EventFit
<1>14. OutFit(a)'
  BY <1>2, <1>3, <1>4, <1>6, <1>8, <1>10 DEF EventFit, OutFit, Failed
<1>15. \A b \in Agents : Live(b)' => InOut(b)' \/ Told(agent'[b])
  <2>1. \A b \in Agents : Live(b) => Told(agent[b])
    BY <1>8 DEF Inv, InOut
  <2> QED BY <1>7, <1>8, <2>1 DEF Live, InOut
<1> QED
  BY <1>7, <1>8, <1>11, <1>12, <1>13, <1>14, <1>15 DEF Inv

\* What setState makes of an agent and its socket: it keeps the read event only,
\* and the epoll set agrees.
NowConnected(a, ag, sk, r, mask) ==
    /\ r.ag = [ag EXCEPT !.m_iConnect = "CONNECTED", !.m_iEpollEvent = mask]
    /\ r.sk \in [Fds -> SockRecord]
    /\ r.sk[ag.m_iSockFd].conn = sk[ag.m_iSockFd].conn
    /\ r.sk[ag.m_iSockFd].rx = sk[ag.m_iSockFd].rx
    /\ r.sk[ag.m_iSockFd].wasUp = sk[ag.m_iSockFd].wasUp
    /\ r.sk[ag.m_iSockFd].entry = Entry(a, mask)
    /\ \A g \in Fds : g # ag.m_iSockFd => r.sk[g] = sk[g]
    /\ mask # {} => ag.m_iFd = ag.m_iSockFd
LEMMA SetStateEffect ==
    ASSUME ConnectorAssumption, NEW a \in Agents, NEW ag \in AgentRecord,
           NEW sk \in [Fds -> SockRecord],
           ag.m_iSockFd \in Fds,
           sk[ag.m_iSockFd].entry = Entry(a, ag.m_iEpollEvent),
           (ag.m_iEpollEvent # {}) =>
               /\ ag.m_iEpollEvent = Events /\ ag.m_iFd = ag.m_iSockFd
    PROVE  \E mask \in {{}, {"IN"}} : NowConnected(a, ag, sk, setState(a, ag, sk), mask)
<1> DEFINE f == ag.m_iSockFd
           v == View(ag, sk, TRUE)
           s == closeWEvent(v, a)
           ns == WithEntry(sk, ag.m_iFd, s.entry)
<1>1. /\ setState(a, ag, sk).sk = ns
      /\ setState(a, ag, sk).ag =
            [ag EXCEPT !.m_iConnect = "CONNECTED", !.m_iEpollEvent = s.mask]
  BY DEF setState, Result
<1>2. /\ v.fd = ag.m_iFd /\ v.mask = ag.m_iEpollEvent
      /\ v.entry = IF ag.m_iFd \in Fds THEN sk[ag.m_iFd].entry ELSE NoEntry
  BY DEF View
<1>3. NoFd \notin Fds /\ NoPtr \notin Agents
  BY DEF ConnectorAssumption
<1> HIDE DEF v
<1>4. CASE ag.m_iEpollEvent = {}
  <2>1. s.mask = {} /\ s.entry = v.entry
    BY <1>2, <1>4 DEF closeWEvent, Nothing, Reply
  <2> HIDE DEF s
  <2>2. ns = sk
    BY <1>2, <2>1 DEF WithEntry, SockRecord
  <2> HIDE DEF ns
  <2> QED BY <1>1, <1>4, <2>1, <2>2 DEF NowConnected
<1>5. CASE ag.m_iEpollEvent # {}
  <2>1. v.fd # NoFd /\ v.mask = Events /\ v.entry # NoEntry
    BY <1>2, <1>3, <1>5 DEF Entry, NoEntry
  <2>2. s.mask = {"IN"} /\ s.entry = [ptr |-> a, events |-> {"IN"}]
    <3>1. s = Reply(TRUE, {"IN"}, [ptr |-> a, events |-> {"IN"}])
      BY <2>1, WriteClosed
    <3> HIDE DEF s
    <3> QED BY <3>1 DEF Reply
  <2> DEFINE new == [ptr |-> a, events |-> {"IN"}]
  <2>3. new \in [ptr : Agents \cup {NoPtr}, events : SUBSET Events] /\ new = Entry(a, {"IN"})
    BY DEF Events, Entry
  <2> HIDE DEF s, new
  <2>4. ns = [sk EXCEPT ![f].entry = new]
    BY <1>5, <2>2 DEF WithEntry, new
  <2> HIDE DEF ns
  <2>5. /\ ns \in [Fds -> SockRecord]
        /\ ns[f].conn = sk[f].conn /\ ns[f].rx = sk[f].rx /\ ns[f].wasUp = sk[f].wasUp
        /\ ns[f].entry = new
        /\ \A g \in Fds : g # f => ns[g] = sk[g]
    BY <2>3, <2>4 DEF SockRecord
  <2> QED BY <1>1, <1>5, <2>2, <2>3, <2>5 DEF NowConnected
<1> QED BY <1>4, <1>5

\* The agent at EPOLLOUT, whichever way it came there: its entry is off the
\* batch, and if it is not connected its connection was established.
LEMMA OutAgent ==
    ASSUME ConnectorAssumption, Inv, NEW a \in Agents, OutTurn(a)
    PROVE  /\ Live(a) /\ OutFit(a) /\ agent[a] \in AgentRecord
           /\ Past(agent[a]) /\ Fit(a, agent[a], sock)
           /\ pc # "wait" /\ batch' \subseteq batch
           /\ \A d \in batch' : d.ptr # a
           /\ \A b \in Agents \ {a} : Live(b) => Told(agent[b])
<1>1. CASE pc = "out" /\ cur = a /\ batch' = batch
  <2>1. Live(a) /\ OutFit(a) /\ \A d \in batch : d.ptr # a
    BY <1>1 DEF Inv, NoDanglingEvent
  <2>2. /\ agent[a] \in AgentRecord /\ Past(agent[a]) /\ Fit(a, agent[a], sock)
    BY <2>1 DEF Inv, TypeOK, AgentsInv
  <2>3. \A b \in Agents \ {a} : Live(b) => Told(agent[b])
    BY <1>1 DEF Inv, InOut
  <2> QED BY <1>1, <2>1, <2>2, <2>3
<1>2. CASE \E e \in batch : /\ e.ptr = a /\ Handling(e) /\ ~Failed(e)
                            /\ "OUT" \in e.ev /\ "IN" \notin e.ev
  <2>1. PICK e \in batch : e.ptr = a /\ Handling(e) /\ ~Failed(e)
    BY <1>2
  <2>2. pc = "batch" /\ batch' = batch \ {e} /\ "ERR" \notin e.ev
    BY <2>1 DEF Handling, Failed
  <2>3. /\ Live(a) /\ agent[a] \in AgentRecord /\ Past(agent[a])
        /\ Fit(a, agent[a], sock) /\ EventFit(e)
    BY <2>1, EntryAgent
  <2>4. OutFit(a)
    BY <2>1, <2>2, <2>3 DEF EventFit, OutFit
  <2>5. \A d \in batch' : d.ptr # a
    BY <2>1, <2>2 DEF Inv, NoDanglingEvent
  <2>6. \A b \in Agents \ {a} : Live(b) => Told(agent[b])
    BY <2>2 DEF Inv, InOut
  <2> QED BY <2>2, <2>3, <2>4, <2>5, <2>6
<1> QED BY <1>1, <1>2 DEF OutTurn

LEMMA ConnectDoneKeeps ==
    ASSUME ConnectorAssumption, Inv, NEW a \in Agents, ConnectDone(a)
    PROVE  Inv'
<1> DEFINE ag == agent[a]
           f == ag.m_iSockFd
           t == setState(a, ag, sock)
           new == [t.ag EXCEPT !.told = @ \cup {TRUE}, !.tries = 0]
<1>1. /\ OutTurn(a) /\ ag.m_iConnect = "CONNECTING" /\ pc' = "batch" /\ cur' = NoPtr
  BY DEF ConnectDone
<1>2. /\ Live(a) /\ ag \in AgentRecord /\ ag.phase = "live" /\ sock \in [Fds -> SockRecord]
      /\ Past(ag) /\ Fit(a, ag, sock) /\ f \in Fds /\ sock[f].wasUp
  BY <1>1, OutAgent DEF OutFit, Live, Inv, TypeOK
<1>3. /\ sock[f].entry = Entry(a, ag.m_iEpollEvent)
      /\ sock[f].conn # "none"
      /\ (ag.m_iEpollEvent # {}) => ag.m_iEpollEvent = Events /\ ag.m_iFd = f
  BY <1>1, <1>2 DEF Fit
<1>4. PICK mask \in {{}, {"IN"}} : NowConnected(a, ag, sock, t, mask)
  BY <1>2, <1>3, SetStateEffect
<1> HIDE DEF t
<1>5. PICK ok \in BOOLEAN : Finish(a, Result(ok, new, t.sk))
  <2>1. PICK c \in connectAfter(t, TRUE) : Finish(a, c)
    BY DEF t, ConnectDone
  <2>2. PICK ok \in BOOLEAN : c = Result(ok, new, t.sk)
    BY DEF connectAfter
  <2> QED BY <2>1, <2>2
<1>6. /\ t.ag \in AgentRecord /\ t.ag.phase = "live" /\ t.ag.m_iSockFd = f
      /\ t.ag.m_iFd = ag.m_iFd /\ t.ag.m_iEpollEvent = mask
      /\ t.ag.m_iConnect = "CONNECTED" /\ t.ag.m_iConnectTimes = ag.m_iConnectTimes
  <2>1. mask \in SUBSET Events
    BY DEF Events
  <2> QED BY <1>2, <1>4, <2>1 DEF AgentRecord, NowConnected
<1>7. /\ new \in AgentRecord /\ new.phase = "live" /\ new.m_iSockFd = f
      /\ new.m_iFd = ag.m_iFd /\ new.m_iEpollEvent = mask
      /\ new.m_iConnect = "CONNECTED" /\ new.m_iConnectTimes = ag.m_iConnectTimes
      /\ TRUE \in new.told /\ new.tries = 0
  <2>1. t.ag.told \cup {TRUE} \in SUBSET BOOLEAN /\ 0 \in Nat
    BY <1>6 DEF AgentRecord
  <2> QED BY <1>6, <2>1 DEF AgentRecord
<1> HIDE DEF new
<1>8. Past(new) /\ Told(new)
  <2>1. ag.m_iConnectTimes \in -1..MAXRECONNECTTIMES /\ MAXRECONNECTTIMES \in Nat
    BY <1>2 DEF AgentRecord, ConnectorAssumption
  <2>2. 0 <= ag.m_iConnectTimes + 1
    BY <2>1
  <2> QED BY <1>7, <2>2 DEF Past, Told
<1>9. Apart(a, f, t.sk)
  <2>1. SockFit(sock[f])
    BY <1>2 DEF Inv, AgentsInv
  <2>2. SockFit(t.sk[f])
    BY <1>2, <1>3, <1>4, <2>1 DEF SockFit, NowConnected
  <2> QED BY <1>2, <1>4, <2>2, ApartSame, SetApart DEF NowConnected
<1>10. Fit(a, new, t.sk)
  <2>1. t.sk[f].wasUp /\ t.sk[f].conn # "none" /\ t.sk[f].entry = Entry(a, mask)
    BY <1>2, <1>3, <1>4 DEF NowConnected
  <2>2. mask # {} => new.m_iFd = f
    BY <1>4, <1>7 DEF NowConnected
  <2> QED BY <1>2, <1>7, <2>1, <2>2 DEF Fit, ConnectorAssumption
<1>11. Safe(new, t.sk)
  BY <1>4, <1>7 DEF Safe, NowConnected
<1>12. Handled(a, Result(ok, new, t.sk))
  BY <1>7, <1>8, <1>9, <1>10, <1>11 DEF Handled, Result
<1>13. /\ agent' \in [Agents -> AgentRecord] /\ sock' \in [Fds -> SockRecord]
       /\ AgentsInv' /\ (Live(a)' => Told(agent'[a]))
       /\ \A b \in Agents \ {a} :
             /\ agent'[b] = agent[b]
             /\ agent[b].m_iSockFd \in Fds =>
                   sock'[agent[b].m_iSockFd] = sock[agent[b].m_iSockFd]
  BY <1>5, <1>12, Finished
<1>14. \A d \in batch' : /\ d \in batch /\ d.ptr \in Agents \ {a}
                         /\ Live(d.ptr) /\ EventFit(d)
  BY <1>1, OutAgent DEF Inv, TypeOK, NoDanglingEvent
<1>15. TypeOK'
  BY <1>1, <1>13, <1>14 DEF Inv, TypeOK
<1>16. NoDanglingEvent'
  BY <1>1, <1>13, <1>14 DEF Inv, NoDanglingEvent, Live
<1>17. \A d \in batch' : EventFit(d)'
  BY <1>13, <1>14 DEF EventFit
<1>18. \A b \in Agents : Live(b)' => Told(agent'[b])
  BY <1>1, <1>13, OutAgent DEF Live
<1> QED
  BY <1>1, <1>13, <1>15, <1>16, <1>17, <1>18 DEF Inv

-----------------------------------------------------------------------------
(* The loop without an entry, the owner, the network. *)

LEMMA EpollWaitKeeps ==
    ASSUME ConnectorAssumption, Inv, EpollWait
    PROVE  Inv'
<1>1. /\ pc = "wait" /\ pc' = "batch" /\ cur' = cur /\ batch' = Ready
      /\ agent' = agent /\ sock' = sock
  BY DEF EpollWait
<1>2. AgentsInv' /\ agent' \in [Agents -> AgentRecord] /\ sock' \in [Fds -> SockRecord]
  BY <1>1 DEF Inv, AgentsInv, TypeOK, Fit, Live
<1>3. ASSUME NEW e \in Ready
      PROVE  \E f \in Fds :
                /\ e = [ptr |-> sock[f].entry.ptr, ev |-> Reported(f)]
                /\ e.ptr \in Agents /\ Live(e.ptr)
                /\ agent[e.ptr].m_iSockFd = f
                /\ e.ev \subseteq Levels /\ EventFit(e)
  <2>1. PICK f \in Fds : /\ e = [ptr |-> sock[f].entry.ptr, ev |-> Reported(f)]
                         /\ sock[f].entry.ptr # NoPtr /\ Reported(f) # {}
    BY DEF Ready
  <2>2. e.ptr = sock[f].entry.ptr /\ e.ev = Reported(f)
    BY <2>1
  <2>3. SockFit(sock[f]) /\ sock[f] \in SockRecord
    BY DEF Inv, AgentsInv, TypeOK
  <2>4. sock[f].conn # "none"
    BY <2>1, <2>3 DEF SockFit, NoSock, NoEntry
  <2>5. PICK a \in Agents : Live(a) /\ agent[a].m_iSockFd = f
    BY <2>4 DEF Inv, AgentsInv
  <2>6. Fit(a, agent[a], sock) /\ agent[a] \in AgentRecord
    BY <2>5 DEF Inv, AgentsInv, TypeOK
  <2>7. sock[f].entry = [ptr |-> a, events |-> agent[a].m_iEpollEvent]
        /\ agent[a].m_iEpollEvent # {}
    BY <2>1, <2>5, <2>6 DEF Fit, Entry, NoEntry
  <2>8. e.ptr = a
    BY <2>2, <2>7
  <2>9. e.ev \subseteq Levels
    <3>1. Level(f) \subseteq Levels
      BY DEF Level, Levels
    <3> QED BY <2>2, <3>1 DEF Reported
  <2>10. ASSUME agent[a].m_iConnect = "CONNECTING", "ERR" \notin e.ev
         PROVE  "OUT" \in e.ev /\ sock[f].wasUp
    <3>1. sock[f].entry.events = Events
      BY <2>6, <2>7, <2>10 DEF Fit
    <3>2. "ERR" \notin Level(f)
      BY <2>2, <2>10 DEF Reported
    <3>3. sock[f].conn \in {"syn", "up", "eof"}
      BY <2>3, <2>4, <3>2 DEF Level, SockRecord
    <3>4. sock[f].conn # "syn"
      <4>1. CASE sock[f].conn = "syn"
        <5>1. ~sock[f].rx
          BY <2>3, <4>1 DEF SockFit
        <5>2. Level(f) = {}
          BY <4>1, <5>1 DEF Level
        <5> QED BY <2>1, <5>2 DEF Reported
      <4> QED BY <4>1
    <3>5. "OUT" \in Level(f)
      BY <3>4 DEF Level
    <3>6. "OUT" \in e.ev
      BY <2>2, <3>1, <3>5 DEF Reported, Events
    <3> QED BY <2>3, <3>3, <3>4, <3>6 DEF SockFit
  <2>11. EventFit(e)
    BY <2>5, <2>8, <2>10 DEF EventFit
  <2> QED BY <2>1, <2>5, <2>8, <2>9, <2>11
<1>4. TypeOK'
  <2>1. \A e \in Ready : e \in [ptr : Agents, ev : SUBSET Levels]
    BY <1>3
  <2> QED BY <1>1, <1>2, <2>1 DEF Inv, TypeOK
<1>5. NoDanglingEvent'
  <2>1. \A e \in Ready : Live(e.ptr)
    BY <1>3
  <2>2. \A e1, e2 \in Ready : e1.ptr = e2.ptr => e1 = e2
    <3>1. TAKE e1, e2 \in Ready
    <3>2. PICK f1 \in Fds : /\ e1 = [ptr |-> sock[f1].entry.ptr, ev |-> Reported(f1)]
                            /\ agent[e1.ptr].m_iSockFd = f1
      BY <1>3
    <3>3. PICK f2 \in Fds : /\ e2 = [ptr |-> sock[f2].entry.ptr, ev |-> Reported(f2)]
                            /\ agent[e2.ptr].m_iSockFd = f2
      BY <1>3
    <3> QED BY <3>2, <3>3
  <2> QED BY <1>1, <2>1, <2>2 DEF NoDanglingEvent, Live
<1>6. \A e \in batch' : EventFit(e)'
  BY <1>1, <1>3 DEF EventFit
<1>7. \A a \in Agents : Live(a)' => Told(agent'[a])
  BY <1>1 DEF Inv, InOut, Live
<1> QED BY <1>1, <1>2, <1>4, <1>5, <1>6, <1>7 DEF Inv

LEMMA DoTaskKeeps ==
    ASSUME ConnectorAssumption, Inv, DoTask
    PROVE  Inv'
<1>1. /\ pc = "batch" /\ batch = {} /\ batch' = {} /\ pc' = "wait" /\ cur' = cur
      /\ sock' = sock
      /\ agent' = [a \in Agents |-> IF agent[a].phase = "retired" THEN Freed ELSE agent[a]]
  BY DEF DoTask
<1>2. Freed \in AgentRecord /\ Past(Freed) /\ Freed.phase = "free" /\ Freed.m_iSockFd = NoFd
  <2>1. -1 \in -1..MAXRECONNECTTIMES /\ 0 \in Nat /\ 0 <= -1 + 1
    BY DEF ConnectorAssumption
  <2>2. /\ Freed.phase = "free" /\ Freed.m_iSockFd = NoFd /\ Freed.tries = 0
        /\ Freed.m_iConnectTimes = -1 /\ Freed.told = {} /\ Freed.m_iConnect = "CONNECTING"
    BY DEF Freed
  <2>3. Freed \in AgentRecord
    BY <2>1 DEF Freed, AgentRecord
  <2> QED BY <2>1, <2>2, <2>3 DEF Past
<1> HIDE DEF Freed
<1>3. agent \in [Agents -> AgentRecord]
  BY DEF Inv, TypeOK
<1>4. \A a \in Agents :
         \/ Live(a) /\ Live(a)' /\ agent'[a] = agent[a]
         \/ ~Live(a) /\ ~Live(a)' /\ Past(agent'[a]) /\ agent'[a].m_iSockFd = NoFd
  BY <1>1, <1>2 DEF Live, Inv, AgentsInv
<1>5. agent' \in [Agents -> AgentRecord]
  BY <1>1, <1>2, <1>3
<1>6. \A a \in Agents : agent'[a].m_iSockFd = agent[a].m_iSockFd
  BY <1>4 DEF Inv, AgentsInv
<1>7. AgentsInv'
  <2>1. \A a \in Agents : /\ Past(agent'[a])
                          /\ IF Live(a)' THEN Fit(a, agent'[a], sock')
                             ELSE agent'[a].m_iSockFd = NoFd
    BY <1>1, <1>4 DEF Inv, AgentsInv
  <2>2. \A f \in Fds : /\ SockFit(sock'[f])
                       /\ sock'[f].conn # "none" =>
                             \E a \in Agents : Live(a)' /\ agent'[a].m_iSockFd = f
    BY <1>1, <1>4 DEF Inv, AgentsInv
  <2>3. \A a, b \in Agents :
           a # b /\ agent'[a].m_iSockFd = agent'[b].m_iSockFd => agent'[a].m_iSockFd = NoFd
    BY <1>6 DEF Inv, AgentsInv
  <2> QED BY <2>1, <2>2, <2>3 DEF AgentsInv
<1>8. \A a \in Agents : Live(a)' => Told(agent'[a])
  BY <1>1, <1>4 DEF Inv, InOut
<1> QED
  BY <1>1, <1>5, <1>7, <1>8 DEF Inv, TypeOK, NoDanglingEvent

LEMMA OwnerConnectsKeeps ==
    ASSUME ConnectorAssumption, Inv, NEW a \in Agents, OwnerConnects(a)
    PROVE  Inv'
<1>1. PICK r \in connect(a, Constructed, sock) :
         agent' = [agent EXCEPT ![a] = r.ag] /\ sock' = r.sk
  BY DEF OwnerConnects
<1>2. /\ ~Live(a) /\ agent[a].m_iSockFd = NoFd
      /\ pc' = pc /\ cur' = cur /\ batch' = batch
  BY DEF OwnerConnects, Live, Inv, AgentsInv
<1>3. MayConnect(a, Constructed) /\ Constructed.m_iEpollEvent = {}
  <2>1. /\ -1 \in -1..MAXRECONNECTTIMES /\ 0 \in Nat /\ 0 <= -1 + 1
        /\ -1 < MAXRECONNECTTIMES
    BY DEF ConnectorAssumption
  <2>2. /\ Constructed.phase = "live" /\ Constructed.m_iSockFd = NoFd
        /\ Constructed.tries = 0 /\ Constructed.m_iConnectTimes = -1
        /\ Constructed.told = {} /\ Constructed.m_iConnect = "CONNECTING"
        /\ Constructed.m_iEpollEvent = {} /\ Constructed.got = FALSE
    BY DEF Constructed, Freed
  <2>3. Constructed \in AgentRecord
    BY <2>1 DEF Constructed, Freed, AgentRecord
  <2> QED BY <1>2, <2>1, <2>2, <2>3 DEF MayConnect, Past, Safe
<1>4. Handled(a, r) /\ Fit(a, r.ag, r.sk) /\ Told(r.ag)
  BY <1>3, ConnectHandled
<1>5. /\ agent' \in [Agents -> AgentRecord] /\ sock' \in [Fds -> SockRecord]
      /\ AgentsInv'
      /\ \A b \in Agents \ {a} :
            /\ agent'[b] = agent[b]
            /\ agent[b].m_iSockFd \in Fds =>
                  sock'[agent[b].m_iSockFd] = sock[agent[b].m_iSockFd]
  BY <1>1, <1>4, Kept DEF Handled
<1>6. /\ \A e \in batch : e.ptr \in Agents \ {a}
      /\ pc = "out" => cur \in Agents \ {a}
  BY <1>2 DEF Inv, TypeOK, NoDanglingEvent
<1>7. TypeOK'
  BY <1>2, <1>5 DEF Inv, TypeOK
<1>8. NoDanglingEvent'
  BY <1>2, <1>5, <1>6 DEF Inv, NoDanglingEvent, Live
<1>9. \A e \in batch : EventFit(e)'
  BY <1>5, <1>6 DEF Inv, EventFit
<1>10. pc' = "out" => OutFit(cur)'
  BY <1>2, <1>5, <1>6 DEF Inv, OutFit
<1>11. \A b \in Agents : Live(b)' => InOut(b)' \/ Told(agent'[b])
  <2>1. agent'[a] = r.ag
    BY <1>1 DEF Inv, TypeOK
  <2> QED BY <1>2, <1>4, <1>5, <2>1 DEF Inv, InOut, Live
<1> QED
  BY <1>2, <1>5, <1>7, <1>8, <1>9, <1>10, <1>11 DEF Inv

LEMMA OwnerDropsKeeps ==
    ASSUME ConnectorAssumption, Inv, NEW a \in Agents, OwnerDrops(a)
    PROVE  Inv'
<1>1. /\ pc = "wait" /\ batch = {} /\ pc' = pc /\ cur' = cur /\ batch' = batch /\ Live(a)
      /\ Finish(a, Result(FALSE, agent[a], sock))
  BY DEF OwnerDrops, Live, Inv
<1>2. /\ agent[a] \in AgentRecord /\ Past(agent[a]) /\ Fit(a, agent[a], sock)
  BY <1>1 DEF Inv, TypeOK, AgentsInv
<1>3. Safe(agent[a], sock)
  BY <1>2 DEF Fit, Safe, AgentRecord
<1>4. Handled(a, Result(FALSE, agent[a], sock))
  BY <1>1, <1>2, <1>3, ApartSame DEF Handled, Result, Live
<1>5. /\ agent' \in [Agents -> AgentRecord] /\ sock' \in [Fds -> SockRecord]
      /\ AgentsInv' /\ (Live(a)' => Told(agent'[a]))
      /\ \A b \in Agents \ {a} : agent'[b] = agent[b]
  BY <1>1, <1>4, Finished
<1>6. \A b \in Agents : Live(b)' => Told(agent'[b])
  BY <1>1, <1>5 DEF Inv, InOut, Live
<1> QED
  BY <1>1, <1>5, <1>6 DEF Inv, TypeOK, NoDanglingEvent

\* The kernel and the peers change a connection, and no entry.
LEMMA NetworkKeeps ==
    ASSUME ConnectorAssumption, Inv, NEW f \in Fds, NEW s \in SockRecord, SockFit(s),
           sock[f].conn # "none", s.conn # "none", s.entry = sock[f].entry,
           sock[f].wasUp => s.wasUp,
           sock' = [sock EXCEPT ![f] = s], UNCHANGED <<pc, cur, batch, agent>>
    PROVE  Inv'
<1>1. /\ sock \in [Fds -> SockRecord] /\ sock' \in [Fds -> SockRecord]
      /\ \A g \in Fds : /\ SockFit(sock'[g])
                        /\ sock'[g].conn # "none" <=> sock[g].conn # "none"
                        /\ sock'[g].entry = sock[g].entry
                        /\ sock[g].wasUp => sock'[g].wasUp
  BY DEF Inv, TypeOK, AgentsInv
<1>2. \A a \in Agents : Fit(a, agent[a], sock) => Fit(a, agent[a], sock')
  BY <1>1 DEF Fit
<1>3. AgentsInv'
  BY <1>1, <1>2 DEF Inv, AgentsInv, Live
<1>4. \A e \in batch : EventFit(e)'
  BY <1>1 DEF Inv, EventFit
<1>5. pc' = "out" => OutFit(cur)'
  BY <1>1 DEF Inv, OutFit
<1>6. \A a \in Agents : Live(a)' => InOut(a)' \/ Told(agent'[a])
  BY DEF Inv, InOut, Live
<1> QED
  BY <1>1, <1>3, <1>4, <1>5, <1>6 DEF Inv, TypeOK, NoDanglingEvent, Live

LEMMA AnsweredKeeps ==
    ASSUME ConnectorAssumption, Inv, NEW f \in Fds, Answered(f)
    PROVE  Inv'
<1>1. PICK conn \in {"up", "dead"} : sock' = [sock EXCEPT ![f] = Becomes(f, conn)]
  BY DEF Answered
<1>2. sock[f].conn = "syn" /\ UNCHANGED <<pc, cur, batch, agent>>
  BY DEF Answered
<1>3. sock[f] \in SockRecord /\ SockFit(sock[f])
  BY DEF Inv, TypeOK, AgentsInv
<1> DEFINE s == Becomes(f, conn)
<1>4. /\ s \in SockRecord /\ s.conn = conn /\ s.rx = sock[f].rx /\ s.entry = sock[f].entry
      /\ conn = "up" => s.wasUp
      /\ sock[f].wasUp => s.wasUp
  BY <1>3 DEF Becomes, SockRecord
<1> HIDE DEF s
<1>5. SockFit(s)
  BY <1>2, <1>3, <1>4 DEF SockFit
<1> QED
  BY <1>1, <1>2, <1>4, <1>5, NetworkKeeps DEF s

LEMMA PeerSendsKeeps ==
    ASSUME ConnectorAssumption, Inv, NEW f \in Fds, PeerSends(f)
    PROVE  Inv'
<1> DEFINE s == [sock[f] EXCEPT !.rx = TRUE]
<1>1. /\ sock[f].conn = "up" /\ UNCHANGED <<pc, cur, batch, agent>>
      /\ sock[f] \in SockRecord /\ SockFit(sock[f]) /\ sock \in [Fds -> SockRecord]
  BY DEF PeerSends, Inv, TypeOK, AgentsInv
<1>2. sock' = [sock EXCEPT ![f] = s]
  BY DEF PeerSends
<1>3. /\ s \in SockRecord /\ s.conn = sock[f].conn /\ s.entry = sock[f].entry
      /\ s.wasUp = sock[f].wasUp
  BY <1>1 DEF SockRecord
<1> HIDE DEF s
<1>4. SockFit(s)
  BY <1>1, <1>3 DEF SockFit
<1> QED
  BY <1>1, <1>2, <1>3, <1>4, NetworkKeeps

LEMMA PeerLeavesKeeps ==
    ASSUME ConnectorAssumption, Inv, NEW f \in Fds, PeerLeaves(f)
    PROVE  Inv'
<1>1. /\ sock[f].conn \in {"up", "eof"} /\ UNCHANGED <<pc, cur, batch, agent>>
      /\ sock[f] \in SockRecord /\ SockFit(sock[f]) /\ sock \in [Fds -> SockRecord]
  BY DEF PeerLeaves, Inv, TypeOK, AgentsInv
<1>2. CASE sock' = [sock EXCEPT ![f].conn = "eof"]
  <2> DEFINE s == [sock[f] EXCEPT !.conn = "eof"]
  <2>1. sock' = [sock EXCEPT ![f] = s]
    BY <1>2
  <2>2. /\ s \in SockRecord /\ s.conn = "eof" /\ s.entry = sock[f].entry
        /\ s.wasUp = sock[f].wasUp
    BY <1>1 DEF SockRecord
  <2> HIDE DEF s
  <2>3. SockFit(s)
    BY <1>1, <2>2 DEF SockFit
  <2> QED
    BY <1>1, <2>1, <2>2, <2>3, NetworkKeeps
<1>3. CASE sock' = [sock EXCEPT ![f].conn = "dead", ![f].rx = FALSE]
  <2> DEFINE s == [sock[f] EXCEPT !.conn = "dead", !.rx = FALSE]
  <2>1. sock' = [sock EXCEPT ![f] = s]
    BY <1>1, <1>3
  <2>2. /\ s \in SockRecord /\ s.conn = "dead" /\ s.entry = sock[f].entry
        /\ s.wasUp = sock[f].wasUp /\ s.rx = FALSE
    BY <1>1 DEF SockRecord
  <2> HIDE DEF s
  <2>3. SockFit(s)
    BY <1>1, <2>2 DEF SockFit
  <2> QED
    BY <1>1, <2>1, <2>2, <2>3, NetworkKeeps
<1> QED BY <1>2, <1>3 DEF PeerLeaves

-----------------------------------------------------------------------------
(* The theorems. *)

LEMMA InitInv ==
    ASSUME ConnectorAssumption, Init
    PROVE  Inv
<1>1. /\ pc = "wait" /\ cur = NoPtr /\ batch = {} /\ agent = [a \in Agents |-> Freed]
      /\ sock = [f \in Fds |-> NoSock]
  BY DEF Init
<1>2. /\ Freed \in AgentRecord /\ Past(Freed) /\ Freed.phase = "free"
      /\ Freed.m_iSockFd = NoFd
  <2>1. -1 \in -1..MAXRECONNECTTIMES /\ 0 \in Nat /\ 0 <= -1 + 1
    BY DEF ConnectorAssumption
  <2>2. /\ Freed.phase = "free" /\ Freed.m_iSockFd = NoFd /\ Freed.tries = 0
        /\ Freed.m_iConnectTimes = -1 /\ Freed.told = {} /\ Freed.m_iConnect = "CONNECTING"
    BY DEF Freed
  <2>3. Freed \in AgentRecord
    BY <2>1 DEF Freed, AgentRecord
  <2> QED BY <2>1, <2>2, <2>3 DEF Past
<1>3. NoSock \in SockRecord /\ SockFit(NoSock) /\ NoSock.conn = "none"
  BY DEF NoSock, SockRecord, NoEntry, SockFit
<1> HIDE DEF Freed, NoSock
<1>4. TypeOK
  BY <1>1, <1>2, <1>3 DEF TypeOK
<1>5. AgentsInv
  BY <1>1, <1>2, <1>3 DEF AgentsInv, Live
<1>6. \A a \in Agents : ~Live(a)
  BY <1>1, <1>2 DEF Live
<1> QED
  BY <1>1, <1>4, <1>5, <1>6 DEF Inv, NoDanglingEvent

\* Every step of Connector keeps the invariant.
LEMMA NextKeeps ==
    ASSUME ConnectorAssumption, Inv, [Next]_vars
    PROVE  Inv'
<1>1. CASE UNCHANGED vars
  BY <1>1 DEF vars, Inv, TypeOK, NoDanglingEvent, AgentsInv, EventFit, OutFit, InOut, Fit,
              Live
<1>2. CASE EpollWait
  BY <1>2, EpollWaitKeeps
<1>3. ASSUME NEW e \in batch, Reconnect(e) PROVE Inv'
  BY <1>3, ReconnectKeeps
<1>4. ASSUME NEW e \in batch, ConnectFailed(e) PROVE Inv'
  BY <1>4, ConnectFailedKeeps
<1>5. ASSUME NEW e \in batch, Read(e) PROVE Inv'
  BY <1>5, ReadKeeps
<1>6. ASSUME NEW a \in Agents, ConnectDone(a) PROVE Inv'
  BY <1>6, ConnectDoneKeeps
<1>13. ASSUME NEW e \in batch, ReadFirst(e) PROVE Inv'
  BY <1>13, ReadFirstKeeps
<1>7. CASE DoTask
  BY <1>7, DoTaskKeeps
<1>8. ASSUME NEW a \in Agents, OwnerConnects(a) PROVE Inv'
  BY <1>8, OwnerConnectsKeeps
<1>9. ASSUME NEW a \in Agents, OwnerDrops(a) PROVE Inv'
  BY <1>9, OwnerDropsKeeps
<1>10. ASSUME NEW f \in Fds, Answered(f) PROVE Inv'
  BY <1>10, AnsweredKeeps
<1>11. ASSUME NEW f \in Fds, PeerSends(f) PROVE Inv'
  BY <1>11, PeerSendsKeeps
<1>12. ASSUME NEW f \in Fds, PeerLeaves(f) PROVE Inv'
  BY <1>12, PeerLeavesKeeps
<1> QED
  BY <1>1, <1>2, <1>3, <1>4, <1>5, <1>6, <1>7, <1>8, <1>9, <1>10, <1>11, <1>12,
     <1>13
  DEF Next, LoopStep

LEMMA Invariance == Spec => []Inv
<1>1. Init => Inv
  BY InitInv, ConnectorAssumption
<1>2. Inv /\ [Next]_vars => Inv'
  BY NextKeeps, ConnectorAssumption
<1> QED
  BY <1>1, <1>2, PTL DEF Spec

\* The state of loop, agents and kernel keeps its types: in particular the count
\* of attempts stays within -1..MAXRECONNECTTIMES.
THEOREM TypeCorrect == Spec => []TypeOK
<1>1. Inv => TypeOK
  BY DEF Inv
<1> QED BY Invariance, <1>1, PTL

\* Whatever a reconnection does in the middle of a batch, every event left to
\* handle belongs to a live agent, which has no other.
THEOREM NoEventDangles == Spec => []NoDanglingEvent
<1>1. Inv => NoDanglingEvent
  BY DEF Inv
<1> QED BY Invariance, <1>1, PTL

\* Every open descriptor has one live owner, the epoll set holds what the owner
\* believes, and no agent can touch another's entry through a number it kept.
THEOREM DescriptorsAreOwned == Spec => []DescriptorsOwned
<1>1. ASSUME Inv PROVE DescriptorsOwned
  <2>1. \A a \in Agents : agent[a].m_iSockFd \in Fds \cup {NoFd}
    BY <1>1 DEF Inv, TypeOK, AgentRecord
  <2>2. \A a \in Agents : Entry(a, agent[a].m_iEpollEvent) = Expected(a)
    BY DEF Entry, Expected
  <2>3. \A a \in Agents :
           IF agent[a].m_iSockFd = NoFd THEN Live(a) => agent[a].m_iEpollEvent = {}
           ELSE /\ Live(a) /\ sock[agent[a].m_iSockFd].conn # "none"
                /\ sock[agent[a].m_iSockFd].entry = Expected(a)
                /\ agent[a].m_iEpollEvent # {} => agent[a].m_iFd = agent[a].m_iSockFd
    BY <1>1, <2>1, <2>2 DEF Inv, AgentsInv, Fit
  <2> QED
    BY <1>1, <2>3 DEF Inv, AgentsInv, SockFit, DescriptorsOwned
<1>2. Inv => DescriptorsOwned
  BY <1>1
<1> QED BY Invariance, <1>2, PTL

\* An agent that was told of a connection, or takes itself for connected, has
\* one that was established.
THEOREM WordIsTrue == Spec => []ToldOfConnection
<1>1. Inv => ToldOfConnection
  BY DEF Inv, AgentsInv, Past, Fit, ToldOfConnection
<1> QED BY Invariance, <1>1, PTL

\* An agent that was handed data without the word is between the read and the
\* write half of one entry, the write half being the one that tells it.
THEOREM WordFollows == Spec => []WordFollowsData
<1>1. ASSUME Inv, NEW a \in Agents, Live(a), agent[a].got, TRUE \notin agent[a].told
      PROVE  pc = "out" /\ cur = a
  <2>1. agent[a].m_iConnect # "CONNECTED"
    BY <1>1 DEF Inv, AgentsInv, Past
  <2> QED BY <1>1, <2>1 DEF Inv, InOut, Told
<1>2. Inv => WordFollowsData
  BY <1>1 DEF WordFollowsData
<1> QED BY Invariance, <1>2, PTL

\* The loop makes at most MAXRECONNECTTIMES + 1 attempts between two words.
THEOREM AttemptsBounded == Spec => []RetriesBounded
<1>1. ASSUME Inv, NEW a \in Agents PROVE agent[a].tries <= MAXRECONNECTTIMES + 1
  <2>1. /\ agent[a].tries <= agent[a].m_iConnectTimes + 1 /\ agent[a].tries \in Nat
        /\ agent[a].m_iConnectTimes \in -1..MAXRECONNECTTIMES /\ MAXRECONNECTTIMES \in Nat
    BY <1>1, ConnectorAssumption
    DEF Inv, TypeOK, AgentsInv, Past, AgentRecord, ConnectorAssumption
  <2> QED BY <2>1
<1>2. Inv => RetriesBounded
  BY <1>1 DEF RetriesBounded
<1> QED BY Invariance, <1>2, PTL
=============================================================================
