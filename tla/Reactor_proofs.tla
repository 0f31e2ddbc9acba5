--------------------------- MODULE Reactor_proofs ---------------------------
(***************************************************************************)
(* The invariants of Reactor hold for every set of slots and descriptors   *)
(* and every value of the bounds.                                          *)
(***************************************************************************)
EXTENDS Reactor, TLAPS

\* The inductive invariant: each part needs the others.
Inv ==
    /\ TypeOK
    /\ NoDanglingEvent
    /\ OneEventEach
    /\ FdAgreement
    /\ PendingOutputArmed
    /\ ListedOnce
    /\ PassesAreSeparate
    /\ TimersOwned
    /\ SnapshotHolds

-----------------------------------------------------------------------------
(* What the EpollEvent and TCPAgent methods do to an agent in service. *)

\* A serving agent finds its own entry, or none, in the epoll set.
LEMMA ServingView ==
    ASSUME ReactorAssumption, TypeOK, FdAgreement, NEW a \in Agents, Serving(a)
    PROVE  /\ View(a) = [fd |-> agent[a].m_iSockFd, room |-> TRUE,
                         mask |-> agent[a].m_iEpollEvent, entry |-> Expected(a)]
           /\ agent[a].m_iSockFd \in Fds /\ agent[a].m_iSockFd # NoFd
           /\ agent[a].m_iFd = agent[a].m_iSockFd
           /\ agent[a].m_iEpollEvent \in SUBSET Events
           /\ agent[a] \in AgentRecord
           /\ (agent[a].m_iEpollEvent # {}) => Expected(a) # NoEntry
<1>1. /\ agent[a].m_iSockFd \in Fds
      /\ agent[a].m_iFd = agent[a].m_iSockFd
      /\ sock[agent[a].m_iSockFd].entry = Expected(a)
  BY DEF FdAgreement
<1>2. agent[a] \in AgentRecord
  BY DEF TypeOK
<1>3. agent[a].m_iSockFd # NoFd
  BY <1>1 DEF ReactorAssumption
<1>4. agent[a].m_iEpollEvent \in SUBSET Events
  BY <1>2 DEF AgentRecord
<1>5. (agent[a].m_iEpollEvent # {}) => Expected(a) # NoEntry
  BY ReactorAssumption DEF Expected, NoEntry, ReactorAssumption
<1> QED
  BY <1>1, <1>2, <1>3, <1>4, <1>5 DEF View

\* unregisterRWEvent empties the mask and removes the entry, whichever of the
\* three ways it takes.
LEMMA Unregistered ==
    ASSUME ReactorAssumption, NEW s, NEW p, s.fd # NoFd,
           s.mask \in SUBSET Events, (s.mask # {}) => s.entry # NoEntry
    PROVE  unregisterRWEvent(s, p).mask = {}
<1>1. \A mask : (s.mask # {}) => doEvent(s, p, "DEL", {}, mask).mask = mask
  BY DEF doEvent, Granted, Reply
<1>2. CASE s.mask = {}
  BY <1>2 DEF unregisterRWEvent, unregisterWEvent, Nothing, Reply
<1>3. CASE s.mask = {"IN"}
  BY <1>1, <1>3 DEF unregisterRWEvent, unregisterREvent
<1>4. CASE s.mask = {"OUT"}
  BY <1>1, <1>4 DEF unregisterRWEvent, unregisterWEvent
<1>5. CASE s.mask = {"IN", "OUT"}
  BY <1>1, <1>5 DEF unregisterRWEvent
<1> QED
  BY <1>2, <1>3, <1>4, <1>5 DEF Events

\* openWEvent and closeWEvent keep mask and entry together; of a registered
\* descriptor the first always succeeds, the second leaves no write event.
LEMMA Opened ==
    ASSUME NEW s, NEW p, s.fd # NoFd, s.mask \in SUBSET Events,
           s.entry = IF s.mask = {} THEN NoEntry ELSE [ptr |-> p, events |-> s.mask],
           (s.mask # {}) => s.entry # NoEntry,
           "OUT" \in s.mask => "IN" \in s.mask
    PROVE  LET q == openWEvent(s, p)
           IN  /\ q.mask \in SUBSET Events
               /\ q.entry = IF q.mask = {} THEN NoEntry
                            ELSE [ptr |-> p, events |-> q.mask]
               /\ "IN" \in q.mask <=> "OUT" \in q.mask
<1>1. CASE "OUT" \in s.mask
  <2>1. openWEvent(s, p) = Reply(TRUE, s.mask, s.entry)
    BY <1>1 DEF openWEvent, Nothing
  <2> QED BY <1>1, <2>1 DEF Reply
<1>2. CASE s.mask = {}
  <2>1. openWEvent(s, p) = Reply(FALSE, {}, NoEntry)
    BY <1>2 DEF openWEvent, doEvent, Granted, Nothing
  <2> QED BY <2>1 DEF Reply
<1>3. CASE "OUT" \notin s.mask /\ s.mask # {}
  <2> DEFINE m == s.mask \cup {"OUT"}
  <2>1. openWEvent(s, p) = Reply(TRUE, m, [ptr |-> p, events |-> m])
    BY <1>3 DEF openWEvent, doEvent, Granted
  <2>2. m \in SUBSET Events /\ m # {} /\ "IN" \in m
    BY <1>3 DEF Events
  <2> QED BY <2>1, <2>2 DEF Reply
<1> QED BY <1>1, <1>2, <1>3

LEMMA Closed ==
    ASSUME NEW s, NEW p, s.fd # NoFd, s.mask \in SUBSET Events,
           s.entry = IF s.mask = {} THEN NoEntry ELSE [ptr |-> p, events |-> s.mask],
           (s.mask # {}) => s.entry # NoEntry,
           "IN" \in s.mask
    PROVE  LET q == closeWEvent(s, p)
           IN  /\ q.ok /\ q.mask = {"IN"}
               /\ q.entry = [ptr |-> p, events |-> {"IN"}]
<1>1. CASE "OUT" \notin s.mask
  <2>1. closeWEvent(s, p) = Reply(TRUE, s.mask, s.entry)
    BY <1>1 DEF closeWEvent, Nothing
  <2>2. s.mask = {"IN"}
    BY <1>1 DEF Events
  <2> QED BY <2>1, <2>2 DEF Reply
<1>2. CASE "OUT" \in s.mask
  <2>1. s.mask \ {"OUT"} = {"IN"}
    BY DEF Events
  <2>2. closeWEvent(s, p) = Reply(TRUE, {"IN"}, [ptr |-> p, events |-> {"IN"}])
    BY <1>2, <2>1 DEF closeWEvent, doEvent, Granted
  <2> QED BY <2>2 DEF Reply
<1> QED BY <1>1, <1>2

\* recycler closes the descriptor, takes it out of the epoll set and leaves the
\* agent without descriptor or mask.
Retired(r) ==
    [r EXCEPT !.m_bIsRecycler = TRUE, !.m_iEpollEvent = {}, !.m_iSockFd = NoFd]
LEMMA RecyclerEffect ==
    ASSUME ReactorAssumption, TypeOK, FdAgreement, NEW a \in Agents, Serving(a)
    PROVE  /\ recycler(a).ev = Retired(agent[a])
           /\ recycler(a).sock = [sock EXCEPT ![agent[a].m_iSockFd] = NoSock]
<1> DEFINE f == agent[a].m_iSockFd
           s == unregisterRWEvent(View(a), a)
<1>1. /\ f \in Fds /\ agent[a].m_iFd = f
  BY ServingView
<1>2. s.mask = {}
  <2>1. /\ View(a).fd # NoFd /\ View(a).mask \in SUBSET Events
        /\ (View(a).mask # {}) => View(a).entry # NoEntry
    BY ServingView
  <2> QED
    BY <2>1, Unregistered
<1>3. closeSocket(WithEntry(f, s.entry), f) = [sock EXCEPT ![f] = NoSock]
  <2> HIDE DEF s
  <2> QED
    BY <1>1 DEF TypeOK, closeSocket, WithEntry
<1>4. ~agent[a].m_bIsRecycler
  BY DEF Serving
<1> QED
  BY <1>1, <1>2, <1>3, <1>4 DEF recycler, Retired

-----------------------------------------------------------------------------
(* The parts of the invariant that speak of agents and descriptors, under the
   two kinds of step: one that leaves an agent in service, one that retires
   it. *)

AgentParts == FdAgreement /\ PendingOutputArmed /\ ListedOnce

\* r and q are records of an agent in the same service.
SameService(r, q) ==
    /\ r.alive = q.alive /\ r.m_bIsRecycler = q.m_bIsRecycler
    /\ r.m_iRefCount = q.m_iRefCount /\ r.timerEvent = q.timerEvent
    /\ r.m_iSockFd = q.m_iSockFd /\ r.m_iFd = q.m_iFd

\* A step that changes a serving agent's mask and output, and its descriptor's
\* data and entry, in agreement with each other.
LEMMA UpdateKeeps ==
    ASSUME ReactorAssumption, Inv,
           NEW a \in Agents, Serving(a),
           NEW r \in AgentRecord, NEW sk \in SockRecord,
           SameService(r, agent[a]),
           sk.conn # "none",
           sk.entry = IF r.m_iEpollEvent = {} THEN NoEntry
                      ELSE [ptr |-> a, events |-> r.m_iEpollEvent],
           "OUT" \in r.m_iEpollEvent <=>
               "IN" \in r.m_iEpollEvent /\ r.m_lIovList > 0,
           agent' = [agent EXCEPT ![a] = r],
           sock' = [sock EXCEPT ![agent[a].m_iSockFd] = sk],
           m_listT' = m_listT
    PROVE  /\ agent' \in [Agents -> AgentRecord] /\ sock' \in [Fds -> SockRecord]
           /\ AgentParts'
           /\ \A b \in Agents : SameService(agent'[b], agent[b])
<1> DEFINE f == agent[a].m_iSockFd
<1>1. /\ agent \in [Agents -> AgentRecord] /\ sock \in [Fds -> SockRecord]
      /\ f \in Fds
  BY DEF Inv, TypeOK, FdAgreement
<1>2. /\ agent' \in [Agents -> AgentRecord] /\ sock' \in [Fds -> SockRecord]
      /\ agent'[a] = r /\ \A b \in Agents \ {a} : agent'[b] = agent[b]
      /\ sock'[f] = sk /\ \A g \in Fds \ {f} : sock'[g] = sock[g]
  BY <1>1
<1>3. \A b \in Agents : SameService(agent'[b], agent[b])
  BY <1>2 DEF SameService
<1>4. \A b \in Agents : Serving(b)' <=> Serving(b)
  BY <1>3 DEF Serving, SameService
<1>5. \A b \in Agents \ {a} : Serving(b) => agent[b].m_iSockFd # f
  BY DEF Inv, FdAgreement
<1>6. FdAgreement'
  <2>1. \A g \in Fds : sock'[g].conn = "none" => sock'[g] = NoSock
    BY <1>2 DEF Inv, FdAgreement
  <2>2. \A g \in Fds : sock'[g].conn # "none" =>
           \E b \in Agents : Serving(b)' /\ agent'[b].m_iSockFd = g
    BY <1>2, <1>3, <1>4 DEF Inv, FdAgreement, SameService
  <2>3. \A b \in Agents : Serving(b) =>
           /\ agent'[b].m_iSockFd \in Fds /\ agent'[b].m_iFd = agent'[b].m_iSockFd
           /\ sock'[agent'[b].m_iSockFd].conn # "none"
           /\ sock'[agent'[b].m_iSockFd].entry = Expected(b)'
    <3>1. TAKE b \in Agents
    <3>2. HAVE Serving(b)
    <3>3. CASE b = a
      <4>1. r.m_iSockFd = f /\ r.m_iFd = f
        BY <3>2, <3>3 DEF Inv, FdAgreement, SameService
      <4>2. Expected(a)' = sk.entry
        BY <1>2 DEF Expected
      <4> QED
        BY <1>1, <1>2, <3>3, <4>1, <4>2
    <3>4. CASE b # a
      BY <1>2, <1>5, <3>2, <3>4 DEF Inv, FdAgreement, Expected
    <3> QED BY <3>3, <3>4
  <2>4. \A b, c \in Agents :
           Serving(b) /\ Serving(c) /\ b # c => agent'[b].m_iSockFd # agent'[c].m_iSockFd
    BY <1>3 DEF Inv, FdAgreement, SameService
  <2>5. \A b \in Agents :
           ~Serving(b) => agent'[b].m_iSockFd = NoFd /\ agent'[b].m_iEpollEvent = {}
    BY <1>2 DEF Inv, FdAgreement
  <2> QED BY <1>4, <2>1, <2>2, <2>3, <2>4, <2>5 DEF FdAgreement
<1>7. PendingOutputArmed'
  BY <1>2, <1>4 DEF Inv, PendingOutputArmed
<1>8. ListedOnce'
  BY <1>3, <1>4 DEF Inv, ListedOnce, Listed, SameService
<1> QED BY <1>2, <1>3, <1>6, <1>7, <1>8 DEF AgentParts

\* recycler and release of a serving agent.
LEMMA RetireKeeps ==
    ASSUME ReactorAssumption, Inv, NEW a \in Agents, Serving(a), Retire(a)
    PROVE  /\ agent' \in [Agents -> AgentRecord] /\ sock' \in [Fds -> SockRecord]
           /\ m_listT' \in Seq(Agents)
           /\ AgentParts'
           /\ \A b \in Agents : /\ agent'[b].alive = agent[b].alive
                                /\ agent'[b].timerEvent = agent[b].timerEvent
           /\ agent'[a].m_bIsRecycler
           /\ \A b \in Agents \ {a} : agent'[b] = agent[b]
           /\ \A g \in Fds : g # agent[a].m_iSockFd => sock'[g] = sock[g]
<1> DEFINE f == agent[a].m_iSockFd
           r == [Retired(agent[a]) EXCEPT !.m_iRefCount = Retired(agent[a]).m_iRefCount - 1]
<1>1. /\ agent \in [Agents -> AgentRecord] /\ sock \in [Fds -> SockRecord]
      /\ m_listT \in Seq(Agents)
      /\ f \in Fds /\ agent[a].m_iRefCount = 1
      /\ TypeOK /\ FdAgreement
  BY DEF Inv, TypeOK, FdAgreement, ListedOnce
<1>2. /\ agent' = [agent EXCEPT ![a] = r]
      /\ sock' = [sock EXCEPT ![f] = NoSock]
      /\ m_listT' = Append(m_listT, a)
  <2>1. Retired(agent[a]).m_iRefCount = 1
    BY <1>1 DEF Retired, AgentRecord
  <2> QED
    BY <1>1, <2>1, RecyclerEffect DEF Retire, release
<1>3. /\ r \in AgentRecord /\ r.alive /\ r.m_bIsRecycler /\ r.m_iRefCount = 0
      /\ r.m_iSockFd = NoFd /\ r.m_iEpollEvent = {}
      /\ r.timerEvent = agent[a].timerEvent /\ r.alive = agent[a].alive
  <2>1. agent[a] \in AgentRecord /\ agent[a].alive
    BY <1>1 DEF Serving
  <2>2. ASSUME NEW q \in AgentRecord, q.m_iRefCount = 1
        PROVE  LET p == [Retired(q) EXCEPT !.m_iRefCount = Retired(q).m_iRefCount - 1]
               IN  /\ p \in AgentRecord /\ p.m_bIsRecycler /\ p.m_iRefCount = 0
                   /\ p.m_iSockFd = NoFd /\ p.m_iEpollEvent = {}
                   /\ p.timerEvent = q.timerEvent /\ p.alive = q.alive
    <3> DEFINE w == Retired(q)
    <3>1. /\ w \in AgentRecord /\ w.m_bIsRecycler /\ w.m_iRefCount = 1
          /\ w.m_iSockFd = NoFd /\ w.m_iEpollEvent = {}
          /\ w.timerEvent = q.timerEvent /\ w.alive = q.alive
      BY <2>2 DEF Retired, AgentRecord
    <3> HIDE DEF w
    <3>2. LET p == [w EXCEPT !.m_iRefCount = w.m_iRefCount - 1]
          IN  /\ p \in AgentRecord /\ p.m_bIsRecycler /\ p.m_iRefCount = 0
              /\ p.m_iSockFd = NoFd /\ p.m_iEpollEvent = {}
              /\ p.timerEvent = q.timerEvent /\ p.alive = q.alive
      BY <3>1 DEF AgentRecord
    <3> QED
      BY <3>2 DEF w
  <2> QED
    BY <1>1, <2>1, <2>2
<1> HIDE DEF r
<1>4. /\ agent' \in [Agents -> AgentRecord]
      /\ agent'[a] = r /\ \A b \in Agents \ {a} : agent'[b] = agent[b]
  BY <1>1, <1>2, <1>3
<1>5. NoSock \in SockRecord /\ NoSock.conn = "none"
  BY ReactorAssumption DEF NoSock, SockRecord, Entry, NoEntry, ReactorAssumption, Events
<1>6. /\ sock' \in [Fds -> SockRecord]
      /\ sock'[f] = NoSock /\ \A g \in Fds \ {f} : sock'[g] = sock[g]
  BY <1>1, <1>2, <1>5
<1>7. /\ ~Serving(a)'
      /\ \A b \in Agents \ {a} : Serving(b)' <=> Serving(b)
  BY <1>3, <1>4 DEF Serving
<1>8. \A b \in Agents \ {a} : Serving(b) => agent[b].m_iSockFd # f
  BY DEF Inv, FdAgreement
<1>9. FdAgreement'
  <2>1. \A g \in Fds : sock'[g].conn = "none" => sock'[g] = NoSock
    BY <1>1, <1>6 DEF FdAgreement
  <2>2. \A g \in Fds : sock'[g].conn # "none" =>
           \E b \in Agents : Serving(b)' /\ agent'[b].m_iSockFd = g
    <3>1. TAKE g \in Fds
    <3>2. HAVE sock'[g].conn # "none"
    <3>3. g # f /\ sock[g].conn # "none"
      BY <1>5, <1>6, <3>2
    <3>4. PICK b \in Agents : Serving(b) /\ agent[b].m_iSockFd = g
      BY <1>1, <3>3 DEF FdAgreement
    <3> QED BY <1>4, <1>7, <3>3, <3>4
  <2>3. \A b \in Agents : Serving(b)' =>
           /\ agent'[b].m_iSockFd \in Fds /\ agent'[b].m_iFd = agent'[b].m_iSockFd
           /\ sock'[agent'[b].m_iSockFd].conn # "none"
           /\ sock'[agent'[b].m_iSockFd].entry = Expected(b)'
    BY <1>1, <1>4, <1>6, <1>7, <1>8 DEF FdAgreement, Expected
  <2>4. \A b, c \in Agents : Serving(b)' /\ Serving(c)' /\ b # c =>
           agent'[b].m_iSockFd # agent'[c].m_iSockFd
    BY <1>1, <1>4, <1>7 DEF FdAgreement
  <2>5. \A b \in Agents :
           ~Serving(b)' => agent'[b].m_iSockFd = NoFd /\ agent'[b].m_iEpollEvent = {}
    BY <1>1, <1>3, <1>4, <1>7 DEF FdAgreement
  <2> QED BY <2>1, <2>2, <2>3, <2>4, <2>5 DEF FdAgreement
<1>10. PendingOutputArmed'
  BY <1>4, <1>7 DEF Inv, PendingOutputArmed
<1>11. m_listT' \in Seq(Agents) /\ ListedOnce'
  <2>1. a \notin Listed
    BY DEF Inv, ListedOnce, Serving
  <2>2. /\ Len(m_listT') = Len(m_listT) + 1
        /\ m_listT'[Len(m_listT) + 1] = a
        /\ \A i \in 1..Len(m_listT) : m_listT'[i] = m_listT[i]
        /\ Len(m_listT) \in Nat /\ m_listT' \in Seq(Agents)
    BY <1>1, <1>2
  <2>3. Listed' = Listed \cup {a}
    <3> DEFINE n == Len(m_listT)
    <3>1. n \in Nat /\ Len(m_listT') = n + 1 /\ m_listT'[n + 1] = a
          /\ \A i \in 1..n : m_listT'[i] = m_listT[i]
      BY <2>2
    <3>2. Listed = {m_listT[i] : i \in 1..n}
          /\ Listed' = {m_listT'[i] : i \in 1..(n + 1)}
      BY <3>1 DEF Listed
    <3> HIDE DEF n
    <3>3. ASSUME NEW x \in Listed'
          PROVE  x \in Listed \cup {a}
      <4>1. PICK i \in 1..(n + 1) : x = m_listT'[i]
        BY <3>2
      <4>2. i = n + 1 \/ i \in 1..n
        BY <3>1
      <4> QED
        BY <3>1, <3>2, <4>1, <4>2
    <3>4. n + 1 \in 1..(n + 1) /\ 1..n \subseteq 1..(n + 1)
      BY <3>1
    <3>5. a \in Listed' /\ Listed \subseteq Listed'
      BY <3>1, <3>2, <3>4
    <3> QED
      BY <3>3, <3>5
  <2>4. Listed' = {b \in Agents : agent'[b].alive /\ agent'[b].m_bIsRecycler}
    BY <1>3, <1>4, <2>3 DEF Inv, ListedOnce
  <2>5. \A i, j \in 1..Len(m_listT') : m_listT'[i] = m_listT'[j] => i = j
    <3> DEFINE n == Len(m_listT)
    <3>1. /\ n \in Nat /\ Len(m_listT') = n + 1 /\ m_listT'[n + 1] = a
          /\ \A i \in 1..n : m_listT'[i] = m_listT[i]
      BY <2>2
    <3>2. \A i, j \in 1..n : m_listT[i] = m_listT[j] => i = j
      BY DEF Inv, ListedOnce
    <3>3. \A i \in 1..n : m_listT[i] # a
      BY <2>1 DEF Listed
    <3> HIDE DEF n
    <3>4. \A i \in 1..(n + 1) : i = n + 1 \/ i \in 1..n
      BY <3>1
    <3> QED
      BY <3>1, <3>2, <3>3, <3>4
  <2>6. \A b \in Agents : agent'[b].m_iRefCount = IF Serving(b)' THEN 1 ELSE 0
    BY <1>3, <1>4, <1>7 DEF Inv, ListedOnce
  <2> QED BY <2>2, <2>4, <2>5, <2>6 DEF ListedOnce
<1> QED
  BY <1>3, <1>4, <1>6, <1>9, <1>10, <1>11 DEF AgentParts, Serving

-----------------------------------------------------------------------------
(* The parts that speak of the batch and of the timers. *)

\* A step that finishes with one agent's entry, or goes on to its write half,
\* keeps what is known of the other entries.
LEMMA BatchKeeps ==
    ASSUME ReactorAssumption, Inv, NEW a \in Agents, Serving(a),
           batch' \subseteq batch, \A e \in batch' : e.ptr # a,
           pc' = "batch" \/ (pc' = "out" /\ cur' = a),
           pc' = "out" => Serving(a)' /\ ~sock'[agent'[a].m_iSockFd].full,
           \A b \in Agents \ {a} : SameService(agent'[b], agent[b]),
           \A g \in Fds : g # agent[a].m_iSockFd => sock'[g] = sock[g]
    PROVE  NoDanglingEvent' /\ OneEventEach' /\ SnapshotHolds' /\ PassesAreSeparate'
<1>1. \A e \in batch' : e.ptr # Listener => e.ptr \in Agents \ {a} /\ Serving(e.ptr)
  BY DEF Inv, TypeOK, NoDanglingEvent
<1>2. \A b \in Agents \ {a} : Serving(b)' <=> Serving(b)
  BY DEF Serving, SameService
<1>3. \A b \in Agents \ {a} : Serving(b) =>
         sock'[agent'[b].m_iSockFd] = sock[agent[b].m_iSockFd]
  BY DEF Inv, FdAgreement, SameService
<1>4. NoDanglingEvent'
  BY <1>1, <1>2 DEF NoDanglingEvent
<1>5. OneEventEach'
  BY DEF Inv, OneEventEach
<1>6. SnapshotHolds'
  <2>1. ASSUME NEW e \in batch', e.ptr \in Agents
        PROVE  /\ "OUT" \in e.ev => ~sock'[agent'[e.ptr].m_iSockFd].full
               /\ "IN" \in e.ev => \/ sock'[agent'[e.ptr].m_iSockFd].rx > 0
                                   \/ sock'[agent'[e.ptr].m_iSockFd].conn # "up"
    <3>1. e \in batch /\ e.ptr # a
      OBVIOUS
    <3>2. Serving(e.ptr)
      BY <2>1, <3>1 DEF Inv, NoDanglingEvent, ReactorAssumption
    <3> QED
      BY <1>3, <2>1, <3>1, <3>2 DEF Inv, SnapshotHolds
  <2> QED BY <2>1 DEF SnapshotHolds
<1>7. PassesAreSeparate'
  BY DEF PassesAreSeparate
<1> QED BY <1>4, <1>5, <1>6, <1>7

\* The timers, when neither they nor the agents' lives change.
LEMMA TimersKept ==
    ASSUME Inv, m_vAgentTimer' = m_vAgentTimer,
           \A b \in Agents : /\ agent'[b].alive = agent[b].alive
                             /\ agent'[b].timerEvent = agent[b].timerEvent
    PROVE  TimersOwned'
BY DEF Inv, TimersOwned

\* A step of a peer on an open descriptor: the invariant holds as long as
\* nothing that was readable or writable stops being so.
LEMMA PeerKeeps ==
    ASSUME ReactorAssumption, Inv, NEW f \in Fds, NEW sk \in SockRecord,
           sock[f].conn # "none", sk.conn # "none", sk.entry = sock[f].entry,
           sk.full => sock[f].full,
           sock[f].rx > 0 \/ sock[f].conn # "up" => sk.rx > 0 \/ sk.conn # "up",
           sock' = [sock EXCEPT ![f] = sk],
           UNCHANGED <<loopVars, agent, m_listT, m_vAgentTimer, backlog>>
    PROVE  Inv'
<1>1. PICK a \in Agents : Serving(a) /\ agent[a].m_iSockFd = f
  BY DEF Inv, FdAgreement
<1>2. /\ agent[a] \in AgentRecord /\ SameService(agent[a], agent[a])
      /\ agent' = [agent EXCEPT ![a] = agent[a]] /\ m_listT' = m_listT
      /\ sock \in [Fds -> SockRecord]
  BY DEF Inv, TypeOK, SameService
<1>3. /\ sk.entry = IF agent[a].m_iEpollEvent = {} THEN NoEntry
                    ELSE [ptr |-> a, events |-> agent[a].m_iEpollEvent]
      /\ "OUT" \in agent[a].m_iEpollEvent <=>
            "IN" \in agent[a].m_iEpollEvent /\ agent[a].m_lIovList > 0
  BY <1>1 DEF Inv, FdAgreement, Expected, PendingOutputArmed
<1>4. sock' \in [Fds -> SockRecord] /\ AgentParts'
  BY <1>1, <1>2, <1>3, UpdateKeeps
<1>5. TypeOK'
  BY <1>4 DEF Inv, TypeOK, loopVars
<1>7. NoDanglingEvent' /\ OneEventEach' /\ PassesAreSeparate' /\ TimersOwned'
  <2>1. /\ pc' = pc /\ cur' = cur /\ batch' = batch /\ m_listT' = m_listT
        /\ agent' = agent /\ m_vAgentTimer' = m_vAgentTimer
    BY DEF loopVars
  <2>2. NoDanglingEvent'
    BY <2>1 DEF Inv, NoDanglingEvent, Serving
  <2>3. OneEventEach' /\ PassesAreSeparate'
    BY <2>1 DEF Inv, OneEventEach, PassesAreSeparate
  <2>4. TimersOwned'
    BY <2>1 DEF Inv, TimersOwned
  <2> QED BY <2>2, <2>3, <2>4
<1>8. \A g \in Fds :
         /\ sock'[g].full => sock[g].full
         /\ sock[g].rx > 0 \/ sock[g].conn # "up" => sock'[g].rx > 0 \/ sock'[g].conn # "up"
  BY <1>2
<1>9. SnapshotHolds'
  <2>1. \A e \in batch : e.ptr \in Agents => agent[e.ptr].m_iSockFd \in Fds
    BY ReactorAssumption DEF Inv, NoDanglingEvent, FdAgreement, ReactorAssumption
  <2>2. pc = "out" => agent[cur].m_iSockFd \in Fds
    BY DEF Inv, NoDanglingEvent, FdAgreement
  <2> QED
    BY <1>8, <2>1, <2>2 DEF Inv, SnapshotHolds, loopVars
<1> QED BY <1>4, <1>5, <1>7, <1>9 DEF Inv, AgentParts

-----------------------------------------------------------------------------
(* One lemma per kind of step. *)

LEMMA InitInv == ASSUME ReactorAssumption, Init PROVE Inv
<1>1. TypeOK
  <2>1. Freed \in AgentRecord
    BY ReactorAssumption DEF Freed, AgentRecord, ReactorAssumption
  <2>2. NoSock \in SockRecord
    BY ReactorAssumption DEF NoSock, SockRecord, Entry, NoEntry, ReactorAssumption
  <2> QED
    BY <2>1, <2>2, ReactorAssumption DEF Init, TypeOK, ReactorAssumption
<1>2. \A a \in Agents : ~Serving(a)
  BY DEF Init, Serving, Freed
<1>3. NoDanglingEvent /\ OneEventEach /\ PassesAreSeparate /\ SnapshotHolds
  BY DEF Init, NoDanglingEvent, OneEventEach, PassesAreSeparate, SnapshotHolds
<1>4. FdAgreement /\ PendingOutputArmed /\ TimersOwned
  BY <1>2 DEF Init, FdAgreement, PendingOutputArmed, TimersOwned, Freed, NoSock
<1>5. ListedOnce
  BY <1>2 DEF Init, ListedOnce, Listed, Freed
<1> QED BY <1>1, <1>3, <1>4, <1>5 DEF Inv

\* Steps that move the loop or the accept queue and touch no agent.
LEMMA QuietSteps ==
    ASSUME ReactorAssumption, Inv,
           EnterWait \/ WaitTimeout \/ WaitInterrupted \/ PeerConnects
    PROVE  Inv'
<1>1. /\ cur' = cur /\ batch' = batch /\ agent' = agent /\ m_listT' = m_listT
      /\ m_vAgentTimer' = m_vAgentTimer /\ sock' = sock
      /\ pc' = pc \/ (pc \in {"top", "wait"} /\ pc' \in {"top", "wait", "batch"})
  BY DEF EnterWait, WaitTimeout, WaitInterrupted, PeerConnects, loopVars
<1>2. TypeOK'
  <2>1. backlog' \in 0..MaxBacklog
    BY DEF EnterWait, WaitTimeout, WaitInterrupted, PeerConnects, Inv, TypeOK,
           ReactorAssumption
  <2> QED BY <1>1, <2>1 DEF Inv, TypeOK
<1>3. NoDanglingEvent' /\ OneEventEach' /\ PassesAreSeparate' /\ SnapshotHolds'
  BY <1>1 DEF Inv, NoDanglingEvent, OneEventEach, PassesAreSeparate,
              SnapshotHolds, Serving
<1>4. FdAgreement' /\ PendingOutputArmed'
  BY <1>1 DEF Inv, FdAgreement, PendingOutputArmed, Serving, Expected
<1>5. ListedOnce' /\ TimersOwned'
  BY <1>1 DEF Inv, ListedOnce, Listed, TimersOwned, Serving
<1> QED BY <1>2, <1>3, <1>4, <1>5 DEF Inv

LEMMA PeerSteps ==
    ASSUME ReactorAssumption, Inv, NEW f \in Fds,
           PeerSends(f) \/ PeerCloses(f) \/ PeerResets(f) \/ PeerReads(f)
    PROVE  Inv'
<1>1. /\ sock \in [Fds -> SockRecord] /\ sock[f] \in SockRecord /\ MaxRx \in Nat
      /\ sock[f].conn = "none" => sock[f] = NoSock
  BY DEF Inv, TypeOK, FdAgreement, ReactorAssumption
<1>2. CASE PeerSends(f)
  <2> DEFINE sk == [sock[f] EXCEPT !.rx = @ + 1]
  <2>1. /\ sk \in SockRecord /\ sk.conn = sock[f].conn /\ sk.entry = sock[f].entry
        /\ sk.full = sock[f].full /\ sk.rx > 0
    BY <1>1, <1>2 DEF PeerSends, SockRecord
  <2>2. sock' = [sock EXCEPT ![f] = sk] /\ sock[f].conn # "none"
    BY <1>2 DEF PeerSends
  <2> HIDE DEF sk
  <2> QED BY <1>2, <2>1, <2>2, PeerKeeps DEF PeerSends
<1>3. CASE PeerCloses(f) \/ PeerResets(f)
  <2>1. PICK c \in {"eof", "reset"} :
           /\ sock' = [sock EXCEPT ![f].conn = c] /\ sock[f].conn # "none"
           /\ UNCHANGED <<loopVars, agent, m_listT, m_vAgentTimer, backlog>>
    BY <1>3 DEF PeerCloses, PeerResets
  <2> DEFINE sk == [sock[f] EXCEPT !.conn = c]
  <2>2. /\ sk \in SockRecord /\ sk.conn = c /\ sk.entry = sock[f].entry
        /\ sk.full = sock[f].full /\ sk.rx = sock[f].rx
    BY <1>1 DEF SockRecord
  <2>3. sock' = [sock EXCEPT ![f] = sk] /\ c # "none" /\ c # "up"
    BY <2>1
  <2> HIDE DEF sk
  <2> QED BY <2>1, <2>2, <2>3, PeerKeeps
<1>4. CASE PeerReads(f)
  <2> DEFINE sk == [sock[f] EXCEPT !.full = FALSE]
  <2>1. /\ sk \in SockRecord /\ sk.conn = sock[f].conn /\ sk.entry = sock[f].entry
        /\ sk.full = FALSE /\ sk.rx = sock[f].rx
    BY <1>1 DEF SockRecord
  <2>2. sock' = [sock EXCEPT ![f] = sk] /\ sock[f].conn # "none"
    BY <1>1, <1>4 DEF PeerReads, NoSock
  <2> HIDE DEF sk
  <2> QED BY <1>4, <2>1, <2>2, PeerKeeps DEF PeerReads
<1> QED BY <1>2, <1>3, <1>4

LEMMA TickStep == ASSUME ReactorAssumption, Inv, Tick PROVE Inv'
<1>1. /\ pc' = pc /\ cur' = cur /\ batch' = batch /\ agent' = agent
      /\ m_listT' = m_listT /\ sock' = sock /\ backlog' = backlog
  BY DEF Tick, loopVars
<1>2. TypeOK'
  <2>1. m_vAgentTimer' \subseteq [ptr : Agents, left : {n \in Int : n <= Period}]
    <3> DEFINE Timer == [ptr : Agents, left : {n \in Int : n <= Period}]
    <3>1. ASSUME NEW t \in m_vAgentTimer PROVE Aged(t) \in Timer
      <4>1. t \in Timer /\ Period \in Int
        BY DEF Inv, TypeOK, ReactorAssumption
      <4> QED BY <4>1 DEF Aged
    <3> HIDE DEF Timer
    <3>2. m_vAgentTimer' \subseteq Timer
      BY <3>1 DEF Tick
    <3> QED BY <3>2 DEF Timer
  <2> QED BY <1>1, <2>1 DEF Inv, TypeOK
<1>3. NoDanglingEvent' /\ OneEventEach' /\ PassesAreSeparate' /\ SnapshotHolds'
  BY <1>1 DEF Inv, NoDanglingEvent, OneEventEach, PassesAreSeparate,
              SnapshotHolds, Serving
<1>4. FdAgreement' /\ PendingOutputArmed' /\ ListedOnce'
  BY <1>1 DEF Inv, FdAgreement, PendingOutputArmed, ListedOnce, Listed, Serving, Expected
<1>5. TimersOwned'
  <2>1. \A t \in m_vAgentTimer : Aged(t).ptr = t.ptr
    BY DEF Aged, Inv, TypeOK
  <2>2. m_vAgentTimer' = {Aged(t) : t \in m_vAgentTimer}
    BY DEF Tick
  <2>3. ASSUME NEW a \in Agents, agent[a].alive
        PROVE  \E t \in m_vAgentTimer' : {u \in m_vAgentTimer' : u.ptr = a} = {t}
    <3>1. PICK t \in m_vAgentTimer : {u \in m_vAgentTimer : u.ptr = a} = {t}
      BY <2>3 DEF Inv, TimersOwned
    <3>2. {u \in m_vAgentTimer' : u.ptr = a} = {Aged(t)}
      BY <2>1, <2>2, <3>1
    <3> QED BY <2>2, <3>2
  <2>4. ASSUME NEW a \in Agents, ~agent[a].alive
        PROVE  \A t \in m_vAgentTimer' : t.ptr # a
    BY <2>1, <2>2, <2>4 DEF Inv, TimersOwned
  <2> QED BY <1>1, <2>3, <2>4 DEF Inv, TimersOwned
<1> QED BY <1>2, <1>3, <1>4, <1>5 DEF Inv

\* At the top of a pass nobody is retired, so the agent of an overdue timer is
\* in service.
LEMMA DoTimerStep ==
    ASSUME ReactorAssumption, Inv, NEW t \in m_vAgentTimer, DoTimer(t)
    PROVE  Inv'
<1> DEFINE a == t.ptr
           s == openWEvent(View(a), a)
           r == [agent[a] EXCEPT !.m_iEpollEvent = s.mask,
                       !.m_lIovList = AtMost(agent[a].m_lIovList + 1, IovMax + 1)]
           f == agent[a].m_iSockFd
           sk == [sock[f] EXCEPT !.entry = s.entry]
<1>1. a \in Agents /\ Serving(a)
  <2>1. a \in Agents /\ agent[a].alive
    BY DEF Inv, TypeOK, TimersOwned
  <2>2. Listed = {}
    BY DEF DoTimer, Inv, PassesAreSeparate, Listed
  <2> QED BY <2>1, <2>2 DEF Inv, ListedOnce, Serving
<1>2. /\ View(a) = [fd |-> f, room |-> TRUE,
                    mask |-> agent[a].m_iEpollEvent, entry |-> Expected(a)]
      /\ f \in Fds /\ f # NoFd /\ agent[a].m_iFd = f
      /\ agent[a].m_iEpollEvent \in SUBSET Events /\ agent[a] \in AgentRecord
      /\ (agent[a].m_iEpollEvent # {}) => Expected(a) # NoEntry
  BY <1>1, ServingView DEF Inv
<1>3. /\ s.mask \in SUBSET Events
      /\ s.entry = IF s.mask = {} THEN NoEntry ELSE [ptr |-> a, events |-> s.mask]
      /\ "IN" \in s.mask <=> "OUT" \in s.mask
  <2>1. /\ View(a).fd # NoFd /\ View(a).mask \in SUBSET Events
        /\ View(a).entry = IF View(a).mask = {} THEN NoEntry
                            ELSE [ptr |-> a, events |-> View(a).mask]
        /\ (View(a).mask # {}) => View(a).entry # NoEntry
        /\ "OUT" \in View(a).mask => "IN" \in View(a).mask
    BY <1>1, <1>2 DEF Expected, Inv, PendingOutputArmed
  <2> QED BY <2>1, Opened
<1>4. /\ sock \in [Fds -> SockRecord] /\ sock[f] \in SockRecord
      /\ agent \in [Agents -> AgentRecord]
      /\ sock[f].conn # "none"
  BY <1>1 DEF Inv, TypeOK, FdAgreement
<1>5. /\ agent' = [agent EXCEPT ![a] = r] /\ sock' = [sock EXCEPT ![f] = sk]
      /\ m_listT' = m_listT
  <2>1. WithEntry(f, s.entry) = [sock EXCEPT ![f] = sk]
    <3> HIDE DEF s
    <3> QED BY <1>2, <1>4 DEF WithEntry
  <2>2. sock' = WithEntry(f, s.entry) /\ m_listT' = m_listT
    BY <1>2 DEF DoTimer, writeDynData
  <2>3. agent' = [agent EXCEPT ![a] = r]
    BY DEF DoTimer, writeDynData
  <2> QED BY <2>1, <2>2, <2>3
<1> HIDE DEF s
<1>6. /\ r \in AgentRecord /\ SameService(r, agent[a])
      /\ r.m_iEpollEvent = s.mask /\ r.m_lIovList > 0
  <2>1. /\ AtMost(agent[a].m_lIovList + 1, IovMax + 1) \in 0..(IovMax + 1)
        /\ AtMost(agent[a].m_lIovList + 1, IovMax + 1) > 0
    BY <1>2, ReactorAssumption DEF AtMost, AgentRecord, ReactorAssumption
  <2> QED BY <1>2, <1>3, <2>1 DEF AgentRecord, SameService
<1>7. /\ sk \in SockRecord /\ sk.conn = sock[f].conn /\ sk.entry = s.entry
      /\ sk.full = sock[f].full /\ sk.rx = sock[f].rx
  <2>1. s.entry \in Entry
    BY <1>1, <1>3 DEF Entry, NoEntry
  <2> QED BY <1>4, <2>1 DEF SockRecord
<1> HIDE DEF r, sk
<1>8. /\ agent' \in [Agents -> AgentRecord] /\ sock' \in [Fds -> SockRecord]
      /\ AgentParts'
      /\ \A b \in Agents : SameService(agent'[b], agent[b])
  BY <1>1, <1>3, <1>4, <1>5, <1>6, <1>7, UpdateKeeps
<1>9. /\ pc = "top" /\ pc' = "top" /\ cur' = cur /\ batch' = batch /\ batch = {}
      /\ m_listT = <<>> /\ backlog' = backlog
  BY DEF DoTimer, loopVars, Inv, PassesAreSeparate
<1>10. NoDanglingEvent' /\ OneEventEach' /\ PassesAreSeparate' /\ SnapshotHolds'
  BY <1>5, <1>9 DEF NoDanglingEvent, OneEventEach, PassesAreSeparate, SnapshotHolds
<1>11. Rearmed(t) = [ptr |-> a, left |-> Period]
  BY DEF Inv, TypeOK, Rearmed
<1>12. m_vAgentTimer' = (m_vAgentTimer \ {t}) \cup {Rearmed(t)}
  BY DEF DoTimer
<1>13. TimersOwned'
  <2>1. PICK u \in m_vAgentTimer : {v \in m_vAgentTimer : v.ptr = a} = {u}
    BY <1>1 DEF Inv, TimersOwned, Serving
  <2>2. u = t
    BY <2>1
  <2>3. {v \in m_vAgentTimer' : v.ptr = a} = {Rearmed(t)}
    BY <1>11, <1>12, <2>1, <2>2
  <2>4. \A b \in Agents \ {a} :
           {v \in m_vAgentTimer' : v.ptr = b} = {v \in m_vAgentTimer : v.ptr = b}
    BY <1>11, <1>12
  <2>5. \A b \in Agents \ {a} :
           /\ agent[b].alive =>
                 \E v \in m_vAgentTimer' : {w \in m_vAgentTimer' : w.ptr = b} = {v}
           /\ ~agent[b].alive => \A v \in m_vAgentTimer' : v.ptr # b
    <3>1. TAKE b \in Agents \ {a}
    <3>2. CASE agent[b].alive
      BY <2>4, <3>2 DEF Inv, TimersOwned
    <3>3. CASE ~agent[b].alive
      BY <1>11, <1>12, <3>3 DEF Inv, TimersOwned
    <3> QED BY <3>2, <3>3
  <2>6. agent[a].alive
    BY <1>1 DEF Serving
  <2> QED
    BY <1>8, <1>12, <2>3, <2>5, <2>6 DEF Inv, TimersOwned, SameService
<1>14. TypeOK'
  <2>1. Rearmed(t) \in [ptr : Agents, left : {n \in Int : n <= Period}]
    BY <1>1, <1>11, ReactorAssumption DEF ReactorAssumption
  <2> QED
    BY <1>5, <1>8, <1>9, <1>12, <2>1 DEF Inv, TypeOK
<1> QED BY <1>8, <1>10, <1>13, <1>14 DEF Inv, AgentParts

\* Every ready entry is that of the agent that owns the descriptor.
LEMMA EpollWaitStep ==
    ASSUME ReactorAssumption, Inv, EpollWait PROVE Inv'
<1>1. /\ batch' \subseteq Ready /\ pc' = "batch" /\ cur' = cur
      /\ agent' = agent /\ m_listT' = m_listT
      /\ m_vAgentTimer' = m_vAgentTimer /\ sock' = sock /\ backlog' = backlog
  BY DEF EpollWait
<1>2. \A e \in Ready :
         \/ e = [ptr |-> Listener, ev |-> {"IN"}]
         \/ \E f \in Fds : /\ e = [ptr |-> sock[f].entry.ptr, ev |-> Reported(f)]
                           /\ sock[f].entry.ptr # NoPtr
  BY DEF Ready
<1>3. \A f \in Fds : sock[f].entry.ptr # NoPtr =>
         /\ sock[f].entry.ptr \in Agents /\ Serving(sock[f].entry.ptr)
         /\ agent[sock[f].entry.ptr].m_iSockFd = f
  <2>1. TAKE f \in Fds
  <2>2. HAVE sock[f].entry.ptr # NoPtr
  <2>3. sock[f].conn # "none"
    BY <2>2 DEF Inv, FdAgreement, NoSock, NoEntry
  <2>4. PICK a \in Agents : Serving(a) /\ agent[a].m_iSockFd = f
    BY <2>3 DEF Inv, FdAgreement
  <2>5. sock[f].entry = Expected(a)
    BY <2>4 DEF Inv, FdAgreement
  <2>6. sock[f].entry.ptr = a
    BY <2>2, <2>5 DEF Expected, NoEntry
  <2> QED BY <2>4, <2>6
<1>4. \A e \in batch' : e.ptr # Listener =>
         \E f \in Fds : /\ e = [ptr |-> sock[f].entry.ptr, ev |-> Reported(f)]
                        /\ sock[f].entry.ptr # NoPtr
                        /\ e.ptr \in Agents /\ Serving(e.ptr)
                        /\ agent[e.ptr].m_iSockFd = f
  BY <1>1, <1>2, <1>3
<1>5. \A e \in batch' : e.ptr = Listener => e = [ptr |-> Listener, ev |-> {"IN"}]
  BY <1>1, <1>2, <1>3, ReactorAssumption DEF ReactorAssumption
<1>6. TypeOK'
  <2>1. \A f \in Fds : Reported(f) \in SUBSET Levels
    BY DEF Reported, Level, Levels
  <2>2. batch' \subseteq [ptr : Agents \cup {Listener}, ev : SUBSET Levels]
    BY <1>4, <1>5, <2>1 DEF Levels
  <2> QED BY <1>1, <2>2 DEF Inv, TypeOK
<1>7. NoDanglingEvent'
  BY <1>1, <1>4 DEF NoDanglingEvent, Serving
<1>8. OneEventEach'
  BY <1>1, <1>4, <1>5 DEF OneEventEach
<1>9. SnapshotHolds'
  <2>1. \A f \in Fds :
           /\ "OUT" \in Reported(f) => ~sock[f].full
           /\ "IN" \in Reported(f) => sock[f].rx > 0 \/ sock[f].conn # "up"
    BY DEF Reported, Level
  <2> QED BY <1>1, <1>4, <2>1, ReactorAssumption DEF SnapshotHolds, ReactorAssumption
<1>10. PassesAreSeparate'
  BY <1>1 DEF PassesAreSeparate
<1>11. FdAgreement' /\ PendingOutputArmed' /\ ListedOnce' /\ TimersOwned'
  BY <1>1 DEF Inv, FdAgreement, PendingOutputArmed, ListedOnce, Listed,
              TimersOwned, Serving, Expected
<1> QED BY <1>6, <1>7, <1>8, <1>9, <1>10, <1>11 DEF Inv

\* A successful read takes at most data out of the descriptor.
LEMMA RecvKeeps ==
    ASSUME ReactorAssumption, Inv, NEW a \in Agents, Serving(a), RecvOk(a)
    PROVE  /\ agent' \in [Agents -> AgentRecord] /\ sock' \in [Fds -> SockRecord]
           /\ AgentParts' /\ m_listT' = m_listT /\ agent' = agent
           /\ sock'[agent[a].m_iSockFd].full = sock[agent[a].m_iSockFd].full
           /\ \A g \in Fds : g # agent[a].m_iSockFd => sock'[g] = sock[g]
<1> DEFINE f == agent[a].m_iSockFd
           sk == [sock[f] EXCEPT !.rx = OneLess(@)]
<1>1. /\ sock \in [Fds -> SockRecord] /\ f \in Fds /\ sock[f] \in SockRecord
      /\ agent \in [Agents -> AgentRecord] /\ agent[a] \in AgentRecord
      /\ sock[f].conn # "none" /\ sock[f].entry = Expected(a) /\ MaxRx \in Nat
  BY DEF Inv, TypeOK, FdAgreement, ReactorAssumption
<1>2. sock' = [sock EXCEPT ![f] = sk] /\ agent' = agent /\ m_listT' = m_listT
  BY DEF RecvOk
<1>3. /\ sk \in SockRecord /\ sk.conn = sock[f].conn /\ sk.entry = sock[f].entry
      /\ sk.full = sock[f].full
  BY <1>1 DEF SockRecord, OneLess
<1> HIDE DEF sk
<1>4. /\ agent' = [agent EXCEPT ![a] = agent[a]]
      /\ SameService(agent[a], agent[a])
  BY <1>1, <1>2 DEF SameService
<1>5. "OUT" \in agent[a].m_iEpollEvent <=>
         "IN" \in agent[a].m_iEpollEvent /\ agent[a].m_lIovList > 0
  BY DEF Inv, PendingOutputArmed
<1>6. sk.entry = IF agent[a].m_iEpollEvent = {} THEN NoEntry
                 ELSE [ptr |-> a, events |-> agent[a].m_iEpollEvent]
  BY <1>1, <1>3 DEF Expected
<1>7. /\ agent' \in [Agents -> AgentRecord] /\ sock' \in [Fds -> SockRecord]
      /\ AgentParts'
  BY <1>1, <1>2, <1>3, <1>4, <1>5, <1>6, UpdateKeeps
<1> QED BY <1>1, <1>2, <1>3, <1>7

\* An entry of an agent is the only one of that agent in the batch.
LEMMA EntryTaken ==
    ASSUME ReactorAssumption, Inv, NEW e \in batch, e.ptr \in Agents
    PROVE  /\ Serving(e.ptr)
           /\ \A d \in batch \ {e} : d.ptr # e.ptr
BY DEF Inv, NoDanglingEvent, OneEventEach, ReactorAssumption

LEMMA DispatchErrStep ==
    ASSUME ReactorAssumption, Inv, NEW e \in batch, DispatchErr(e)
    PROVE  Inv'
<1> DEFINE a == e.ptr
<1>1. a \in Agents /\ Serving(a) /\ \A d \in batch' : d \in batch /\ d.ptr # a
  BY EntryTaken DEF DispatchErr
<1>2. /\ pc' = "batch" /\ cur' = cur /\ batch' \subseteq batch
      /\ m_vAgentTimer' = m_vAgentTimer /\ backlog' = backlog
  BY DEF DispatchErr
<1>3. CASE RecvOk(a)
  <2>1. \A b \in Agents : SameService(agent'[b], agent[b])
    BY <1>1, <1>3, RecvKeeps DEF SameService
  <2>2. NoDanglingEvent' /\ OneEventEach' /\ SnapshotHolds' /\ PassesAreSeparate'
    BY <1>1, <1>2, <1>3, <2>1, RecvKeeps, BatchKeeps
  <2>3. TimersOwned'
    BY <1>2, <2>1, TimersKept DEF SameService
  <2>4. TypeOK'
    BY <1>1, <1>2, <1>3, RecvKeeps DEF Inv, TypeOK
  <2> QED BY <1>1, <1>3, <2>2, <2>3, <2>4, RecvKeeps DEF Inv, AgentParts
<1>4. CASE Retire(a)
  <2>1. \A b \in Agents \ {a} : SameService(agent'[b], agent[b])
    BY <1>1, <1>4, RetireKeeps DEF SameService
  <2>2. NoDanglingEvent' /\ OneEventEach' /\ SnapshotHolds' /\ PassesAreSeparate'
    BY <1>1, <1>2, <1>4, <2>1, RetireKeeps, BatchKeeps
  <2>3. TimersOwned'
    BY <1>1, <1>2, <1>4, RetireKeeps, TimersKept
  <2>4. TypeOK'
    BY <1>1, <1>2, <1>4, RetireKeeps DEF Inv, TypeOK
  <2> QED BY <1>1, <1>4, <2>2, <2>3, <2>4, RetireKeeps DEF Inv, AgentParts
<1> QED BY <1>3, <1>4 DEF DispatchErr

LEMMA DispatchInStep ==
    ASSUME ReactorAssumption, Inv, NEW e \in batch, DispatchIn(e)
    PROVE  Inv'
<1> DEFINE a == e.ptr
<1>1. a \in Agents /\ Serving(a) /\ \A d \in batch' : d \in batch /\ d.ptr # a
  BY EntryTaken DEF DispatchIn
<1>2. /\ batch' \subseteq batch
      /\ m_vAgentTimer' = m_vAgentTimer /\ backlog' = backlog
  BY DEF DispatchIn
<1>3. CASE /\ RecvOk(a)
           /\ pc' = IF "OUT" \in e.ev THEN "out" ELSE "batch"
           /\ cur' = IF "OUT" \in e.ev THEN a ELSE NoPtr
  <2>1. agent' = agent /\ \A b \in Agents : SameService(agent'[b], agent[b])
    BY <1>1, <1>3, RecvKeeps DEF SameService
  <2>2. pc' = "out" => Serving(a)' /\ ~sock'[agent'[a].m_iSockFd].full
    BY <1>1, <1>3, <2>1, RecvKeeps DEF Inv, SnapshotHolds, Serving
  <2>3. NoDanglingEvent' /\ OneEventEach' /\ SnapshotHolds' /\ PassesAreSeparate'
    BY <1>1, <1>2, <1>3, <2>1, <2>2, RecvKeeps, BatchKeeps
  <2>4. TimersOwned'
    BY <1>2, <2>1, TimersKept DEF SameService
  <2>5. TypeOK'
    BY <1>1, <1>2, <1>3, RecvKeeps DEF Inv, TypeOK
  <2> QED BY <1>1, <1>3, <2>3, <2>4, <2>5, RecvKeeps DEF Inv, AgentParts
<1>4. CASE Retire(a) /\ pc' = pc /\ cur' = cur
  <2>1. \A b \in Agents \ {a} : SameService(agent'[b], agent[b])
    BY <1>1, <1>4, RetireKeeps DEF SameService
  <2>2. pc' = "batch"
    BY <1>4 DEF DispatchIn
  <2>3. NoDanglingEvent' /\ OneEventEach' /\ SnapshotHolds' /\ PassesAreSeparate'
    BY <1>1, <1>2, <1>4, <2>1, <2>2, RetireKeeps, BatchKeeps
  <2>4. TimersOwned'
    BY <1>1, <1>2, <1>4, RetireKeeps, TimersKept
  <2>5. TypeOK'
    BY <1>1, <1>2, <1>4, RetireKeeps DEF Inv, TypeOK
  <2> QED BY <1>1, <1>4, <2>3, <2>4, <2>5, RetireKeeps DEF Inv, AgentParts
<1> QED BY <1>3, <1>4 DEF DispatchIn

\* A write that succeeds: output is left and the write event stays, or none is
\* left and it is closed.
LEMMA WriteKeeps ==
    ASSUME ReactorAssumption, Inv, NEW a \in Agents, Serving(a),
           WritePart(a) \/ WriteAll(a), m_listT' = m_listT
    PROVE  /\ agent' \in [Agents -> AgentRecord] /\ sock' \in [Fds -> SockRecord]
           /\ AgentParts'
           /\ \A b \in Agents : SameService(agent'[b], agent[b])
           /\ \A g \in Fds : g # agent[a].m_iSockFd => sock'[g] = sock[g]
<1> DEFINE f == agent[a].m_iSockFd
           s == closeWEvent(View(a), a)
<1>1. /\ View(a) = [fd |-> f, room |-> TRUE,
                    mask |-> agent[a].m_iEpollEvent, entry |-> Expected(a)]
      /\ f \in Fds /\ f # NoFd /\ agent[a].m_iFd = f
      /\ agent[a].m_iEpollEvent \in SUBSET Events /\ agent[a] \in AgentRecord
      /\ (agent[a].m_iEpollEvent # {}) => Expected(a) # NoEntry
  BY ServingView DEF Inv
<1>2. /\ sock \in [Fds -> SockRecord] /\ sock[f] \in SockRecord
      /\ agent \in [Agents -> AgentRecord] /\ IovMax \in Nat
      /\ sock[f].conn # "none" /\ sock[f].entry = Expected(a)
      /\ "OUT" \in agent[a].m_iEpollEvent <=>
            "IN" \in agent[a].m_iEpollEvent /\ agent[a].m_lIovList > 0
  BY DEF Inv, TypeOK, FdAgreement, ReactorAssumption, PendingOutputArmed
<1>3. CASE WritePart(a)
  <2>1. PICK left \in 1..agent[a].m_lIovList :
           agent' = [agent EXCEPT ![a].m_lIovList = left]
    BY <1>3 DEF WritePart
  <2> DEFINE r == [agent[a] EXCEPT !.m_lIovList = left]
             sk == [sock[f] EXCEPT !.full = TRUE]
  <2>2. agent' = [agent EXCEPT ![a] = r] /\ sock' = [sock EXCEPT ![f] = sk]
    BY <1>3, <2>1 DEF WritePart
  <2>3. /\ r \in AgentRecord /\ SameService(r, agent[a])
        /\ r.m_iEpollEvent = agent[a].m_iEpollEvent
        /\ r.m_lIovList > 0 /\ agent[a].m_lIovList > 0
    BY <1>1, <1>2 DEF AgentRecord, SameService
  <2>4. /\ sk \in SockRecord /\ sk.conn = sock[f].conn /\ sk.entry = sock[f].entry
    BY <1>2 DEF SockRecord
  <2> HIDE DEF r, sk
  <2>5. sk.entry = IF r.m_iEpollEvent = {} THEN NoEntry
                   ELSE [ptr |-> a, events |-> r.m_iEpollEvent]
    BY <1>2, <2>3, <2>4 DEF Expected
  <2>6. /\ agent' \in [Agents -> AgentRecord] /\ sock' \in [Fds -> SockRecord]
        /\ AgentParts' /\ \A b \in Agents : SameService(agent'[b], agent[b])
    BY <1>2, <2>2, <2>3, <2>4, <2>5, UpdateKeeps
  <2> QED BY <1>1, <1>2, <2>2, <2>6
<1>4. CASE WriteAll(a)
  <2>1. PICK full \in BOOLEAN :
           sock' = [WithEntry(agent[a].m_iFd, s.entry) EXCEPT ![f].full = full]
    BY <1>4 DEF WriteAll
  <2> DEFINE r == [agent[a] EXCEPT !.m_iEpollEvent = s.mask, !.m_lIovList = 0]
             sk == [sock[f] EXCEPT !.entry = s.entry, !.full = full]
  <2>2. /\ s.mask \in SUBSET Events /\ "OUT" \notin s.mask
        /\ s.entry = IF s.mask = {} THEN NoEntry
                     ELSE [ptr |-> a, events |-> s.mask]
    <3>1. CASE "IN" \in agent[a].m_iEpollEvent
      <4>1. /\ View(a).fd # NoFd /\ View(a).mask \in SUBSET Events
            /\ View(a).entry = IF View(a).mask = {} THEN NoEntry
                               ELSE [ptr |-> a, events |-> View(a).mask]
            /\ (View(a).mask # {}) => View(a).entry # NoEntry
            /\ "IN" \in View(a).mask
        BY <1>1, <3>1 DEF Expected
      <4>2. s.mask = {"IN"} /\ s.entry = [ptr |-> a, events |-> {"IN"}]
        BY <4>1, Closed
      <4> QED BY <4>2 DEF Events
    <3>2. CASE "IN" \notin agent[a].m_iEpollEvent
      <4>1. agent[a].m_iEpollEvent = {}
        BY <1>1, <1>2, <3>2 DEF Events
      <4>2. s = Reply(TRUE, {}, NoEntry)
        BY <1>1, <4>1 DEF closeWEvent, Nothing, Expected
      <4> QED BY <4>2 DEF Reply
    <3> QED BY <3>1, <3>2
  <2>3. agent' = [agent EXCEPT ![a] = r]
    BY <1>4 DEF WriteAll
  <2> HIDE DEF s
  <2>4. sock' = [sock EXCEPT ![f] = sk]
    BY <1>1, <1>2, <2>1 DEF WithEntry
  <2>5. /\ r \in AgentRecord /\ SameService(r, agent[a])
        /\ r.m_iEpollEvent = s.mask
    <3>1. \A m \in SUBSET Events, n \in 0..(IovMax + 1) :
             LET p == [agent[a] EXCEPT !.m_iEpollEvent = m, !.m_lIovList = n]
             IN  p \in AgentRecord /\ SameService(p, agent[a]) /\ p.m_iEpollEvent = m
      BY <1>1 DEF AgentRecord, SameService
    <3>2. 0 \in 0..(IovMax + 1)
      BY <1>2
    <3> QED BY <2>2, <3>1, <3>2
  <2>6. /\ sk \in SockRecord /\ sk.conn = sock[f].conn /\ sk.entry = s.entry
    <3>1. s.entry \in Entry
      BY <2>2 DEF Entry, NoEntry
    <3> QED BY <1>2, <3>1 DEF SockRecord
  <2>7. r.m_lIovList = 0
    BY <1>1 DEF AgentRecord
  <2> HIDE DEF r, sk
  <2>8. /\ sk.entry = IF r.m_iEpollEvent = {} THEN NoEntry
                      ELSE [ptr |-> a, events |-> r.m_iEpollEvent]
        /\ sk.conn # "none"
        /\ "OUT" \in r.m_iEpollEvent <=>
              "IN" \in r.m_iEpollEvent /\ r.m_lIovList > 0
    BY <1>2, <2>2, <2>5, <2>6, <2>7
  <2>9. /\ agent' \in [Agents -> AgentRecord] /\ sock' \in [Fds -> SockRecord]
        /\ AgentParts' /\ \A b \in Agents : SameService(agent'[b], agent[b])
    BY <1>2, <2>3, <2>4, <2>5, <2>6, <2>8, UpdateKeeps
  <2> QED BY <1>1, <1>2, <2>4, <2>9
<1> QED BY <1>3, <1>4

LEMMA DispatchOutStep ==
    ASSUME ReactorAssumption, Inv, NEW a \in Agents, DispatchOut(a)
    PROVE  Inv'
<1>1. /\ Serving(a) /\ batch' \subseteq batch /\ \A d \in batch' : d.ptr # a
  <2>1. CASE pc = "out" /\ cur = a /\ batch' = batch
    BY <2>1 DEF Inv, NoDanglingEvent, OneEventEach
  <2>2. CASE /\ [ptr |-> a, ev |-> {"OUT"}] \in batch
             /\ batch' = batch \ {[ptr |-> a, ev |-> {"OUT"}]}
    <3> DEFINE e == [ptr |-> a, ev |-> {"OUT"}]
    <3>1. e \in batch /\ e.ptr = a /\ e.ptr \in Agents
      BY <2>2
    <3>2. Serving(e.ptr) /\ \A d \in batch \ {e} : d.ptr # e.ptr
      BY <3>1, EntryTaken
    <3> QED BY <2>2, <3>1, <3>2
  <2> QED BY <2>1, <2>2 DEF DispatchOut, OutTurn
<1>2. /\ pc' = "batch" /\ cur' = NoPtr
      /\ m_vAgentTimer' = m_vAgentTimer /\ backlog' = backlog
  BY DEF DispatchOut
<1>3. CASE (WritePart(a) \/ WriteAll(a)) /\ m_listT' = m_listT
  <2>1. \A b \in Agents : SameService(agent'[b], agent[b])
    BY <1>1, <1>3, WriteKeeps
  <2>2. NoDanglingEvent' /\ OneEventEach' /\ SnapshotHolds' /\ PassesAreSeparate'
    BY <1>1, <1>2, <1>3, <2>1, WriteKeeps, BatchKeeps
  <2>3. TimersOwned'
    BY <1>2, <2>1, TimersKept DEF SameService
  <2>4. TypeOK'
    BY <1>1, <1>2, <1>3, WriteKeeps DEF Inv, TypeOK
  <2> QED BY <1>1, <1>3, <2>2, <2>3, <2>4, WriteKeeps DEF Inv, AgentParts
<1>4. CASE Retire(a)
  <2>1. \A b \in Agents \ {a} : SameService(agent'[b], agent[b])
    BY <1>1, <1>4, RetireKeeps DEF SameService
  <2>2. NoDanglingEvent' /\ OneEventEach' /\ SnapshotHolds' /\ PassesAreSeparate'
    BY <1>1, <1>2, <1>4, <2>1, RetireKeeps, BatchKeeps
  <2>3. TimersOwned'
    BY <1>1, <1>2, <1>4, RetireKeeps, TimersKept
  <2>4. TypeOK'
    BY <1>1, <1>2, <1>4, RetireKeeps DEF Inv, TypeOK
  <2> QED BY <1>1, <1>4, <2>2, <2>3, <2>4, RetireKeeps DEF Inv, AgentParts
<1> QED BY <1>3, <1>4 DEF DispatchOut

\* accept: the new agent takes a free descriptor, which no entry of the epoll
\* set and no event of the batch refers to.
LEMMA ListenerStep ==
    ASSUME ReactorAssumption, Inv, DispatchListener
    PROVE  Inv'
<1>1. /\ pc = "batch" /\ pc' = "batch" /\ cur' = cur /\ m_listT' = m_listT
      /\ batch' \subseteq batch
  BY DEF DispatchListener
<1>2. /\ agent \in [Agents -> AgentRecord] /\ sock \in [Fds -> SockRecord]
      /\ backlog \in 0..MaxBacklog /\ MaxBacklog \in Nat
      /\ m_vAgentTimer \subseteq [ptr : Agents, left : {n \in Int : n <= Period}]
      /\ m_listT \in Seq(Agents) /\ cur \in Agents \cup {NoPtr}
      /\ batch \subseteq [ptr : Agents \cup {Listener}, ev : SUBSET Levels]
  BY DEF Inv, TypeOK, ReactorAssumption
<1>3. OneEventEach' /\ PassesAreSeparate'
  BY <1>1 DEF Inv, OneEventEach, PassesAreSeparate
<1>4. CASE AcceptFails
  <2>1. agent' = agent /\ sock' = sock /\ m_vAgentTimer' = m_vAgentTimer
        /\ backlog' \in 0..MaxBacklog
    BY <1>2, <1>4 DEF AcceptFails, OneLess
  <2>2. TypeOK'
    BY <1>1, <1>2, <2>1 DEF TypeOK
  <2>3. NoDanglingEvent' /\ SnapshotHolds'
    BY <1>1, <2>1 DEF Inv, NoDanglingEvent, SnapshotHolds, Serving
  <2>4. FdAgreement' /\ PendingOutputArmed' /\ ListedOnce' /\ TimersOwned'
    BY <1>1, <2>1 DEF Inv, FdAgreement, PendingOutputArmed, ListedOnce, Listed,
                      TimersOwned, Serving, Expected
  <2> QED BY <1>3, <2>2, <2>3, <2>4 DEF Inv
<1>5. ASSUME NEW a \in Agents, NEW f \in Fds, NEW room \in BOOLEAN,
             Accept(a, f, room)
      PROVE  Inv'
  <2> DEFINE s == registerREvent([fd |-> f, mask |-> {}, entry |-> sock[f].entry,
                                  room |-> room], a)
             new == [ptr |-> a, left |-> Period]
  <2>1. /\ backlog > 0 /\ ~agent[a].alive /\ sock[f].conn = "none"
        /\ agent' = [agent EXCEPT ![a] = Constructed(f, s.mask)]
        /\ sock' = [sock EXCEPT ![f] = Connected(s.entry)]
        /\ m_vAgentTimer' = m_vAgentTimer \cup {new}
        /\ backlog' = backlog - 1
    BY <1>5 DEF Accept
  <2>2. f # NoFd /\ sock[f].entry = NoEntry
    BY <2>1 DEF Inv, FdAgreement, ReactorAssumption, NoSock
  <2>3. \/ s.mask = {} /\ s.entry = NoEntry
        \/ s.mask = {"IN"} /\ s.entry = [ptr |-> a, events |-> {"IN"}]
    BY <2>2 DEF registerREvent, doEvent, Granted, Nothing, Reply
  <2> HIDE DEF s
  <2> DEFINE r == Constructed(f, s.mask)
             sk == Connected(s.entry)
  <2>4. /\ r \in AgentRecord /\ r.alive = TRUE /\ r.m_bIsRecycler = FALSE
        /\ r.m_iRefCount = 1 /\ r.m_iSockFd = f /\ r.m_iFd = f
        /\ r.m_iEpollEvent = s.mask /\ r.m_lIovList = 0 /\ r.timerEvent = TRUE
    <3>1. s.mask \in SUBSET Events /\ IovMax \in Nat
      BY <2>3 DEF Events, ReactorAssumption
    <3> QED BY <3>1 DEF Constructed, AgentRecord
  <2>5. /\ sk \in SockRecord /\ sk.conn = "up" /\ sk.entry = s.entry
        /\ ~sk.full
    <3>1. s.entry \in Entry /\ MaxRx \in Nat
      BY <2>3 DEF Entry, NoEntry, Events, ReactorAssumption
    <3> QED BY <3>1 DEF Connected, SockRecord
  <2> HIDE DEF r, sk
  <2>6. /\ agent' \in [Agents -> AgentRecord] /\ sock' \in [Fds -> SockRecord]
        /\ agent'[a] = r /\ \A b \in Agents \ {a} : agent'[b] = agent[b]
        /\ sock'[f] = sk /\ \A g \in Fds \ {f} : sock'[g] = sock[g]
    BY <1>2, <2>1, <2>4, <2>5 DEF r, sk
  <2>7. /\ ~Serving(a) /\ Serving(a)'
        /\ \A b \in Agents \ {a} : Serving(b)' <=> Serving(b)
    BY <2>1, <2>4, <2>6 DEF Serving
  <2>8. \A b \in Agents : Serving(b) => agent[b].m_iSockFd # f
    BY <2>1 DEF Inv, FdAgreement
  <2>9. TypeOK'
    <3>1. new \in [ptr : Agents, left : {n \in Int : n <= Period}]
      BY DEF ReactorAssumption
    <3>2. backlog' \in 0..MaxBacklog
      BY <1>2, <2>1
    <3> QED BY <1>1, <1>2, <2>1, <2>6, <3>1, <3>2 DEF TypeOK
  <2>10. NoDanglingEvent'
    <3>1. \A e \in batch' : e.ptr # Listener => e.ptr \in Agents /\ Serving(e.ptr)
      BY <1>1, <1>2 DEF Inv, NoDanglingEvent
    <3> QED BY <1>1, <2>7, <3>1 DEF NoDanglingEvent
  <2>11. SnapshotHolds'
    <3>1. \A e \in batch' : e.ptr \in Agents => e.ptr # a /\ Serving(e.ptr)
      BY <1>1, <2>7 DEF Inv, NoDanglingEvent, ReactorAssumption
    <3>2. \A b \in Agents : Serving(b) =>
             sock'[agent'[b].m_iSockFd] = sock[agent[b].m_iSockFd]
      BY <2>6, <2>7, <2>8 DEF Inv, FdAgreement
    <3> QED BY <1>1, <3>1, <3>2 DEF Inv, SnapshotHolds
  <2>12. FdAgreement'
    <3>1. \A g \in Fds : sock'[g].conn = "none" => sock'[g] = NoSock
      BY <2>5, <2>6 DEF Inv, FdAgreement
    <3>2. \A g \in Fds : sock'[g].conn # "none" =>
             \E b \in Agents : Serving(b)' /\ agent'[b].m_iSockFd = g
      BY <2>4, <2>6, <2>7 DEF Inv, FdAgreement
    <3>3. \A b \in Agents : Serving(b)' =>
             /\ agent'[b].m_iSockFd \in Fds /\ agent'[b].m_iFd = agent'[b].m_iSockFd
             /\ sock'[agent'[b].m_iSockFd].conn # "none"
             /\ sock'[agent'[b].m_iSockFd].entry = Expected(b)'
      <4>1. TAKE b \in Agents
      <4>2. HAVE Serving(b)'
      <4>3. CASE b = a
        BY <2>3, <2>4, <2>5, <2>6, <4>3 DEF Expected
      <4>4. CASE b # a
        BY <2>6, <2>7, <2>8, <4>2, <4>4 DEF Inv, FdAgreement, Expected
      <4> QED BY <4>3, <4>4
    <3>4. \A b, c \in Agents : Serving(b)' /\ Serving(c)' /\ b # c =>
             agent'[b].m_iSockFd # agent'[c].m_iSockFd
      BY <2>4, <2>6, <2>7, <2>8 DEF Inv, FdAgreement
    <3>5. \A b \in Agents :
             ~Serving(b)' => agent'[b].m_iSockFd = NoFd /\ agent'[b].m_iEpollEvent = {}
      BY <2>6, <2>7 DEF Inv, FdAgreement
    <3> QED BY <3>1, <3>2, <3>3, <3>4, <3>5 DEF FdAgreement
  <2>13. PendingOutputArmed'
    BY <2>3, <2>4, <2>6, <2>7 DEF Inv, PendingOutputArmed
  <2>14. ListedOnce'
    BY <1>1, <2>1, <2>4, <2>6, <2>7 DEF Inv, ListedOnce, Listed
  <2>15. TimersOwned'
    <3>1. \A t \in m_vAgentTimer : t.ptr # a
      BY <2>1 DEF Inv, TimersOwned
    <3>2. {u \in m_vAgentTimer' : u.ptr = a} = {new}
      BY <2>1, <3>1
    <3>3. \A b \in Agents \ {a} :
             {u \in m_vAgentTimer' : u.ptr = b} = {u \in m_vAgentTimer : u.ptr = b}
      BY <2>1
    <3>4. ASSUME NEW b \in Agents
          PROVE  /\ agent'[b].timerEvent = agent'[b].alive
                 /\ IF agent'[b].alive
                    THEN \E t \in m_vAgentTimer' : {u \in m_vAgentTimer' : u.ptr = b} = {t}
                    ELSE \A t \in m_vAgentTimer' : t.ptr # b
      <4>1. CASE b = a
        <5>1. agent'[b].timerEvent = TRUE /\ agent'[b].alive = TRUE
          BY <2>4, <2>6, <4>1
        <5>2. new \in m_vAgentTimer' /\ {u \in m_vAgentTimer' : u.ptr = b} = {new}
          BY <2>1, <3>2, <4>1
        <5> HIDE DEF new
        <5> QED BY <5>1, <5>2
      <4>2. CASE b # a
        BY <2>1, <2>6, <3>3, <4>2 DEF Inv, TimersOwned
      <4> QED BY <4>1, <4>2
    <3> QED BY <3>4 DEF TimersOwned
  <2> QED BY <1>3, <2>9, <2>10, <2>11, <2>12, <2>13, <2>14, <2>15 DEF Inv
<1> QED BY <1>4, <1>5 DEF DispatchListener

\* The agents on Manager's list go, with their timers.
LEMMA DoTaskStep ==
    ASSUME ReactorAssumption, Inv, DoTask
    PROVE  Inv'
<1>1. /\ pc' = "top" /\ batch = {} /\ batch' = {} /\ cur' = cur
      /\ m_listT' = <<>> /\ sock' = sock /\ backlog' = backlog
      /\ agent' = [a \in Agents |-> IF a \in Listed THEN Freed ELSE agent[a]]
      /\ m_vAgentTimer' = unregisterTimer(Listed)
  BY DEF DoTask
<1>2. /\ \A a \in Listed : agent'[a] = Freed
      /\ \A a \in Agents \ Listed : agent'[a] = agent[a]
      /\ Listed = {a \in Agents : agent[a].alive /\ agent[a].m_bIsRecycler}
  BY <1>1 DEF Inv, ListedOnce
<1>3. /\ Freed \in AgentRecord /\ ~Freed.alive /\ Freed.m_iRefCount = 0
      /\ Freed.m_iSockFd = NoFd /\ Freed.m_iEpollEvent = {}
      /\ Freed.timerEvent = FALSE /\ Freed.alive = FALSE
  BY DEF Freed, AgentRecord, ReactorAssumption
<1> HIDE DEF Freed
<1>4. \A a \in Agents : Serving(a)' <=> Serving(a)
  BY <1>2, <1>3 DEF Serving
<1>5. \A a \in Agents : Serving(a) => agent'[a] = agent[a]
  BY <1>2 DEF Serving
<1>6. m_vAgentTimer' = {t \in m_vAgentTimer : t.ptr \notin Listed}
  BY <1>1, <1>2 DEF unregisterTimer, Inv, TimersOwned, TypeOK
<1>7. TypeOK'
  <2>1. agent' \in [Agents -> AgentRecord]
    BY <1>1, <1>3 DEF Inv, TypeOK
  <2>2. m_vAgentTimer' \subseteq [ptr : Agents, left : {n \in Int : n <= Period}]
    BY <1>6 DEF Inv, TypeOK
  <2> QED BY <1>1, <2>1, <2>2 DEF Inv, TypeOK
<1>8. NoDanglingEvent' /\ OneEventEach' /\ PassesAreSeparate' /\ SnapshotHolds'
  BY <1>1 DEF NoDanglingEvent, OneEventEach, PassesAreSeparate, SnapshotHolds
<1>9. FdAgreement'
  <2>1. \A a \in Agents : Serving(a) => Expected(a)' = Expected(a)
    BY <1>5 DEF Expected
  <2>2. \A a \in Agents :
           ~Serving(a) => agent'[a].m_iSockFd = NoFd /\ agent'[a].m_iEpollEvent = {}
    BY <1>2, <1>3 DEF Inv, FdAgreement
  <2> QED BY <1>1, <1>4, <1>5, <2>1, <2>2 DEF Inv, FdAgreement
<1>10. PendingOutputArmed'
  BY <1>4, <1>5 DEF Inv, PendingOutputArmed
<1>11. ListedOnce'
  <2>1. Listed' = {}
    BY <1>1 DEF Listed
  <2>2. \A a \in Agents : ~(agent'[a].alive /\ agent'[a].m_bIsRecycler)
    BY <1>2, <1>3
  <2>3. \A a \in Agents : agent'[a].m_iRefCount = IF Serving(a)' THEN 1 ELSE 0
    <3>1. \A a \in Listed : agent'[a].m_iRefCount = 0 /\ ~Serving(a)
      BY <1>2, <1>3 DEF Serving
    <3>2. \A a \in Agents \ Listed :
             agent'[a].m_iRefCount = IF Serving(a) THEN 1 ELSE 0
      BY <1>2 DEF Inv, ListedOnce
    <3> QED BY <1>4, <3>1, <3>2
  <2> QED BY <1>1, <2>1, <2>2, <2>3 DEF ListedOnce
<1>12. TimersOwned'
  <2>1. ASSUME NEW a \in Agents
        PROVE  /\ agent'[a].timerEvent = agent'[a].alive
               /\ IF agent'[a].alive
                  THEN \E t \in m_vAgentTimer' : {u \in m_vAgentTimer' : u.ptr = a} = {t}
                  ELSE \A t \in m_vAgentTimer' : t.ptr # a
    <3>1. CASE a \in Listed
      <4>1. agent'[a].timerEvent = FALSE /\ agent'[a].alive = FALSE
        BY <1>2, <1>3, <3>1
      <4>2. \A t \in m_vAgentTimer' : t.ptr # a
        BY <1>6, <3>1
      <4> QED BY <4>1, <4>2
    <3>2. CASE a \notin Listed
      <4>1. {u \in m_vAgentTimer' : u.ptr = a} = {u \in m_vAgentTimer : u.ptr = a}
        BY <1>6, <3>2
      <4>2. agent'[a] = agent[a]
        BY <1>2, <3>2
      <4>3. agent'[a].alive = agent[a].alive /\ agent'[a].timerEvent = agent[a].timerEvent
        BY <4>2
      <4>4. agent[a].timerEvent = agent[a].alive
        BY DEF Inv, TimersOwned
      <4>5. agent'[a].timerEvent = agent'[a].alive
        BY <4>3, <4>4
      <4>6. CASE agent[a].alive
        <5>1. PICK t \in m_vAgentTimer : {u \in m_vAgentTimer : u.ptr = a} = {t}
          BY <4>6 DEF Inv, TimersOwned
        <5>2. t \in m_vAgentTimer' /\ {u \in m_vAgentTimer' : u.ptr = a} = {t}
          BY <4>1, <5>1
        <5>3. \E u \in m_vAgentTimer' : {v \in m_vAgentTimer' : v.ptr = a} = {u}
          BY <5>2
        <5> QED BY <4>3, <4>5, <4>6, <5>3
      <4>7. CASE ~agent[a].alive
        <5>1. \A t \in m_vAgentTimer' : t.ptr # a
          BY <1>6, <4>7 DEF Inv, TimersOwned
        <5> QED BY <4>3, <4>5, <4>7, <5>1
      <4> QED BY <4>6, <4>7
    <3> QED BY <3>1, <3>2
  <2> QED BY <2>1 DEF TimersOwned
<1> QED BY <1>7, <1>8, <1>9, <1>10, <1>11, <1>12 DEF Inv

-----------------------------------------------------------------------------
LEMMA NextInv == ASSUME ReactorAssumption, Inv, [Next]_vars PROVE Inv'
<1>1. ASSUME NEW t \in m_vAgentTimer, DoTimer(t) PROVE Inv'
  BY <1>1, DoTimerStep
<1>2. CASE EnterWait \/ WaitTimeout \/ WaitInterrupted \/ PeerConnects
  BY <1>2, QuietSteps
<1>3. CASE EpollWait
  BY <1>3, EpollWaitStep
<1>4. ASSUME NEW e \in batch, DispatchErr(e) PROVE Inv'
  BY <1>4, DispatchErrStep
<1>5. ASSUME NEW e \in batch, DispatchIn(e) PROVE Inv'
  BY <1>5, DispatchInStep
<1>6. ASSUME NEW a \in Agents, DispatchOut(a) PROVE Inv'
  BY <1>6, DispatchOutStep
<1>7. CASE DispatchListener
  BY <1>7, ListenerStep
<1>8. CASE DoTask
  BY <1>8, DoTaskStep
<1>9. ASSUME NEW f \in Fds,
             PeerSends(f) \/ PeerCloses(f) \/ PeerResets(f) \/ PeerReads(f)
      PROVE  Inv'
  BY <1>9, PeerSteps
<1>10. CASE Tick
  BY <1>10, TickStep
<1>11. CASE UNCHANGED vars
  BY <1>11 DEF vars, Inv, TypeOK, NoDanglingEvent, OneEventEach, FdAgreement,
       PendingOutputArmed, ListedOnce, Listed, PassesAreSeparate, TimersOwned,
       SnapshotHolds, Serving, Expected
<1> QED
  BY <1>1, <1>2, <1>3, <1>4, <1>5, <1>6, <1>7, <1>8, <1>9, <1>10, <1>11
     DEF Next, LoopStep, Environment

\* The invariant holds initially and every step keeps it.
THEOREM Invariance == ASSUME ReactorAssumption PROVE Spec => []Inv
<1>1. Init => Inv
  BY InitInv
<1>2. Inv /\ [Next]_vars => Inv'
  BY NextInv
<1> QED BY <1>1, <1>2, PTL DEF Spec

\* Every variable keeps its type; no reference count leaves {0, 1}.
THEOREM TypeCorrect == ASSUME ReactorAssumption PROVE Spec => []TypeOK
BY Invariance, PTL DEF Inv

\* Every event left to handle belongs to a serving agent.
THEOREM NoDangling == ASSUME ReactorAssumption PROVE Spec => []NoDanglingEvent
BY Invariance, PTL DEF Inv

\* An agent has at most one event left to handle.
THEOREM OneEvent == ASSUME ReactorAssumption PROVE Spec => []OneEventEach
BY Invariance, PTL DEF Inv

\* Sockets, epoll entries and serving agents agree, whatever descriptors are
\* used again.
THEOREM DescriptorsAgree == ASSUME ReactorAssumption PROVE Spec => []FdAgreement
BY Invariance, PTL DEF Inv

\* EPOLLOUT is asked for exactly while output is queued.
THEOREM OutputArmed == ASSUME ReactorAssumption PROVE Spec => []PendingOutputArmed
BY Invariance, PTL DEF Inv

\* Manager's list holds the retired agents, each once.
THEOREM RetiredListed == ASSUME ReactorAssumption PROVE Spec => []ListedOnce
BY Invariance, PTL DEF Inv

\* A pass leaves nothing to the next.
THEOREM PassesApart == ASSUME ReactorAssumption PROVE Spec => []PassesAreSeparate
BY Invariance, PTL DEF Inv

\* Each undeleted agent has one timer, a deleted one none.
THEOREM TimersMatched == ASSUME ReactorAssumption PROVE Spec => []TimersOwned
BY Invariance, PTL DEF Inv

\* What the snapshot says is true when its turn comes.
THEOREM SnapshotTrue == ASSUME ReactorAssumption PROVE Spec => []SnapshotHolds
BY Invariance, PTL DEF Inv

-----------------------------------------------------------------------------
(* The refinement: what a descriptor's owner is under Inv, and one lemma per
   kind of step of AgentLifecycle. *)

OwnerFacts ==
    /\ \A a \in Agents : Serving(a) => LifeOwner[agent[a].m_iSockFd] = a
    /\ \A f \in Fds : (\A a \in Agents : Serving(a) => agent[a].m_iSockFd # f)
                        => LifeOwner[f] = NoPtr

LEMMA OwnerKnown == ASSUME ReactorAssumption PROVE Inv => OwnerFacts
<1> SUFFICES ASSUME Inv PROVE OwnerFacts
  OBVIOUS
<1>1. FdAgreement /\ NoFd \notin Fds
  BY DEF Inv, ReactorAssumption
<1>2. ASSUME NEW a \in Agents, Serving(a) PROVE LifeOwner[agent[a].m_iSockFd] = a
  <2> DEFINE f == agent[a].m_iSockFd
  <2>1. f \in Fds /\ sock[f].conn # "none"
    BY <1>1, <1>2 DEF FdAgreement
  <2>2. ASSUME NEW b \in Agents, agent[b].m_iSockFd = f PROVE b = a
    <3>1. Serving(b)
      BY <1>1, <2>1, <2>2 DEF FdAgreement
    <3> QED
      BY <1>1, <1>2, <2>2, <3>1 DEF FdAgreement
  <2>3. Owners(f) = {a}
    BY <2>2 DEF Owners
  <2>4. (\E b \in Agents : Owners(f) = {b}) /\ (CHOOSE b \in Agents : Owners(f) = {b}) = a
    <3>1. \A b \in Agents : Owners(f) = {b} <=> b = a
      BY <2>3
    <3> HIDE DEF f
    <3> QED
      BY <3>1
  <2> QED
    BY <2>1, <2>4 DEF LifeOwner
<1>3. ASSUME NEW f \in Fds, \A a \in Agents : Serving(a) => agent[a].m_iSockFd # f
      PROVE  LifeOwner[f] = NoPtr
  BY <1>1, <1>3 DEF FdAgreement, LifeOwner
<1> QED
  BY <1>2, <1>3 DEF OwnerFacts

LEMMA OwnersKnown ==
    ASSUME ReactorAssumption, Inv, Inv' PROVE OwnerFacts /\ OwnerFacts'
<1>1. Inv' => OwnerFacts'
  BY OwnerKnown, PTL
<1> QED
  BY <1>1, OwnerKnown

\* A step that leaves every agent in its service changes nothing abstract.
LEMMA LifeStutter ==
    ASSUME ReactorAssumption, Inv, Inv', \A b \in Agents : SameService(agent'[b], agent[b])
    PROVE  UNCHANGED <<LifePhase, LifeOwner>>
<1>1. \A b \in Agents : /\ Serving(b)' <=> Serving(b)
                        /\ agent'[b].alive = agent[b].alive
                        /\ agent'[b].m_iSockFd = agent[b].m_iSockFd
  BY DEF Serving, SameService
<1>2. LifePhase' = LifePhase
  BY <1>1 DEF LifePhase
<1>3. ASSUME NEW f \in Fds PROVE LifeOwner'[f] = LifeOwner[f]
  <2>1. CASE \E a \in Agents : Serving(a) /\ agent[a].m_iSockFd = f
    BY <1>1, <2>1, OwnersKnown DEF OwnerFacts
  <2>2. CASE ~\E a \in Agents : Serving(a) /\ agent[a].m_iSockFd = f
    BY <1>1, <2>2, OwnersKnown DEF OwnerFacts
  <2> QED
    BY <2>1, <2>2
<1>4. /\ LifeOwner = [f \in Fds |-> LifeOwner[f]]
      /\ LifeOwner' = [f \in Fds |-> LifeOwner'[f]]
  BY DEF LifeOwner
<1> QED
  BY <1>2, <1>3, <1>4

\* A retirement closes the agent's connection and no other.
LEMMA LifeClose ==
    ASSUME ReactorAssumption, Inv, Inv', NEW a \in Agents, Serving(a), Retire(a)
    PROVE  Life!LifeNext
<1> DEFINE f == agent[a].m_iSockFd
<1>1. /\ agent'[a].alive = agent[a].alive /\ agent'[a].m_bIsRecycler
      /\ \A b \in Agents \ {a} : agent'[b] = agent[b]
  BY RetireKeeps
<1>2. /\ f \in Fds /\ \A b \in Agents \ {a} : Serving(b) => agent[b].m_iSockFd # f
  BY DEF Inv, FdAgreement
<1>3. /\ ~Serving(a)' /\ agent[a].alive
      /\ \A b \in Agents \ {a} : Serving(b)' <=> Serving(b)
  BY <1>1 DEF Serving
<1>4. /\ LifePhase[a] = "serving" /\ LifePhase' = [LifePhase EXCEPT ![a] = "retired"]
  BY <1>1, <1>3 DEF LifePhase
<1>5. OwnerFacts /\ OwnerFacts'
  BY OwnersKnown
<1>6. LifeOwner[f] = a
  BY <1>5 DEF OwnerFacts
<1>7. ASSUME NEW g \in Fds PROVE LifeOwner'[g] = IF g = f THEN NoPtr ELSE LifeOwner[g]
  <2>1. CASE g = f
    <3>1. \A b \in Agents : Serving(b)' => agent'[b].m_iSockFd # f
      BY <1>1, <1>2, <1>3
    <3> QED
      BY <1>2, <1>5, <2>1, <3>1 DEF OwnerFacts
  <2>2. CASE g # f /\ \E b \in Agents : Serving(b) /\ agent[b].m_iSockFd = g
    <3>1. PICK b \in Agents : Serving(b) /\ agent[b].m_iSockFd = g
      BY <2>2
    <3>2. Serving(b)' /\ agent'[b].m_iSockFd = g
      BY <1>1, <1>3, <2>2, <3>1
    <3> QED
      BY <1>5, <2>2, <3>1, <3>2 DEF OwnerFacts
  <2>3. CASE g # f /\ ~\E b \in Agents : Serving(b) /\ agent[b].m_iSockFd = g
    <3>1. \A b \in Agents : Serving(b)' => agent'[b].m_iSockFd # g
      BY <1>1, <1>3, <2>3
    <3> QED
      BY <1>5, <2>3, <3>1 DEF OwnerFacts
  <2> QED
    BY <2>1, <2>2, <2>3
<1> HIDE DEF f
<1>8. LifeOwner' = [LifeOwner EXCEPT ![f] = NoPtr]
  BY <1>2, <1>7 DEF LifeOwner
<1> QED
  BY <1>2, <1>4, <1>6, <1>8 DEF Life!LifeNext, Life!Close

\* An accepted connection opens a free slot's service and no other.
LEMMA LifeOpen ==
    ASSUME ReactorAssumption, Inv, Inv', NEW a \in Agents, NEW f \in Fds,
           NEW room \in BOOLEAN, Accept(a, f, room)
    PROVE  Life!LifeNext
<1>1. /\ agent \in [Agents -> AgentRecord]
      /\ ~agent[a].alive /\ sock[f].conn = "none"
      /\ \E m : agent' = [agent EXCEPT ![a] = Constructed(f, m)]
  BY DEF Inv, TypeOK, Accept
<1>2. /\ agent'[a].alive = TRUE /\ agent'[a].m_bIsRecycler = FALSE
      /\ agent'[a].m_iSockFd = f
      /\ \A b \in Agents \ {a} : agent'[b] = agent[b]
  BY <1>1 DEF Constructed
<1>3. \A b \in Agents : Serving(b) => b # a /\ agent[b].m_iSockFd # f
  BY <1>1 DEF Inv, FdAgreement, Serving
<1>4. Serving(a)' /\ \A b \in Agents \ {a} : Serving(b)' <=> Serving(b)
  BY <1>2 DEF Serving
<1>5. LifePhase[a] = "free" /\ LifePhase' = [LifePhase EXCEPT ![a] = "serving"]
  BY <1>1, <1>2, <1>4 DEF LifePhase
<1>6. OwnerFacts /\ OwnerFacts'
  BY OwnersKnown
<1>7. LifeOwner[f] = NoPtr
  BY <1>3, <1>6 DEF OwnerFacts
<1>8. ASSUME NEW g \in Fds PROVE LifeOwner'[g] = IF g = f THEN a ELSE LifeOwner[g]
  <2>1. CASE g = f
    BY <1>2, <1>4, <1>6, <2>1 DEF OwnerFacts
  <2>2. CASE g # f /\ \E b \in Agents : Serving(b) /\ agent[b].m_iSockFd = g
    <3>1. PICK b \in Agents : Serving(b) /\ agent[b].m_iSockFd = g
      BY <2>2
    <3>2. Serving(b)' /\ agent'[b].m_iSockFd = g
      BY <1>2, <1>3, <1>4, <3>1
    <3> QED
      BY <1>6, <2>2, <3>1, <3>2 DEF OwnerFacts
  <2>3. CASE g # f /\ ~\E b \in Agents : Serving(b) /\ agent[b].m_iSockFd = g
    <3>1. \A b \in Agents : Serving(b)' => agent'[b].m_iSockFd # g
      BY <1>2, <1>4, <2>3
    <3> QED
      BY <1>6, <2>3, <3>1 DEF OwnerFacts
  <2> QED
    BY <2>1, <2>2, <2>3
<1>9. LifeOwner' = [LifeOwner EXCEPT ![f] = a]
  BY <1>8 DEF LifeOwner
<1> QED
  BY <1>5, <1>7, <1>9 DEF Life!LifeNext, Life!Open

\* The end of a pass deletes every retired agent, or there was none.
LEMMA LifeReclaim ==
    ASSUME ReactorAssumption, Inv, Inv', DoTask
    PROVE  Life!LifeNext \/ UNCHANGED <<LifePhase, LifeOwner>>
<1>1. /\ agent' = [a \in Agents |-> IF a \in Listed THEN Freed ELSE agent[a]]
      /\ sock' = sock /\ agent \in [Agents -> AgentRecord]
      /\ Listed = {a \in Agents : agent[a].alive /\ agent[a].m_bIsRecycler}
  BY DEF Inv, TypeOK, ListedOnce, DoTask
<1>2. CASE Listed = {}
  <2>1. \A b \in Agents : agent'[b] = agent[b]
    BY <1>1, <1>2
  <2>2. \A b \in Agents : SameService(agent'[b], agent[b])
    BY <2>1 DEF SameService
  <2> QED
    BY <2>2, LifeStutter
<1>3. CASE Listed # {}
  <2>1. \A b \in Agents : IF b \in Listed THEN ~agent'[b].alive ELSE agent'[b] = agent[b]
    BY <1>1 DEF Freed
  <2>2. \A b \in Agents : /\ b \in Listed => ~Serving(b) /\ ~Serving(b)'
                          /\ Serving(b)' <=> Serving(b)
                          /\ Serving(b) => agent'[b].m_iSockFd = agent[b].m_iSockFd
    BY <1>1, <2>1 DEF Serving
  <2>3. \A b \in Agents : LifePhase[b] = "retired" <=> b \in Listed
    BY <1>1 DEF LifePhase, Serving
  <2>4. LifePhase' = [b \in Agents |->
                        IF LifePhase[b] = "retired" THEN "free" ELSE LifePhase[b]]
    <3>1. \A b \in Agents : LifePhase'[b] =
                               IF LifePhase[b] = "retired" THEN "free" ELSE LifePhase[b]
      BY <2>1, <2>2, <2>3 DEF LifePhase
    <3> QED
      BY <3>1 DEF LifePhase
  <2>5. OwnerFacts /\ OwnerFacts'
    BY OwnersKnown
  <2>6. ASSUME NEW f \in Fds PROVE LifeOwner'[f] = LifeOwner[f]
    <3>1. CASE \E b \in Agents : Serving(b) /\ agent[b].m_iSockFd = f
      BY <2>2, <2>5, <3>1 DEF OwnerFacts
    <3>2. CASE ~\E b \in Agents : Serving(b) /\ agent[b].m_iSockFd = f
      BY <2>2, <2>5, <3>2 DEF OwnerFacts
    <3> QED
      BY <3>1, <3>2
  <2>7. LifeOwner' = LifeOwner
    BY <2>6 DEF LifeOwner
  <2>8. \E b \in Agents : LifePhase[b] = "retired"
    BY <1>1, <1>3, <2>3
  <2> QED
    BY <2>4, <2>7, <2>8 DEF Life!LifeNext, Life!Reclaim
<1> QED BY <1>2, <1>3

\* The agents a step of the loop or of the environment leaves in service.
LEMMA AgentsKept ==
    ASSUME agent' = agent PROVE \A b \in Agents : SameService(agent'[b], agent[b])
BY DEF SameService

LEMMA LifeSteps ==
    ASSUME ReactorAssumption, Inv, Inv', [Next]_vars
    PROVE  [Life!LifeNext]_<<LifePhase, LifeOwner>>
<1>1. ASSUME \A b \in Agents : SameService(agent'[b], agent[b])
      PROVE  UNCHANGED <<LifePhase, LifeOwner>>
  BY <1>1, LifeStutter
<1>2. ASSUME agent' = agent PROVE UNCHANGED <<LifePhase, LifeOwner>>
  BY <1>1, <1>2, AgentsKept
<1>3. ASSUME NEW a \in Agents, Serving(a), RecvOk(a)
      PROVE  UNCHANGED <<LifePhase, LifeOwner>>
  BY <1>2, <1>3 DEF RecvOk
<1>4. ASSUME NEW t \in m_vAgentTimer, DoTimer(t)
      PROVE  UNCHANGED <<LifePhase, LifeOwner>>
  <2>1. PICK m, n : /\ t.ptr \in Agents /\ agent \in [Agents -> AgentRecord]
                    /\ agent' = [agent EXCEPT ![t.ptr] = [agent[t.ptr] EXCEPT
                                   !.m_iEpollEvent = m, !.m_lIovList = n]]
    BY <1>4 DEF Inv, TypeOK, DoTimer, writeDynData
  <2>2. \A b \in Agents : SameService(agent'[b], agent[b])
    BY <2>1 DEF SameService, AgentRecord
  <2> QED BY <1>1, <2>2
<1>5. ASSUME NEW e \in batch, DispatchErr(e) \/ DispatchIn(e)
      PROVE  Life!LifeNext \/ UNCHANGED <<LifePhase, LifeOwner>>
  <2>1. /\ e.ptr \in Agents
        /\ RecvOk(e.ptr) \/ Retire(e.ptr)
    BY <1>5 DEF DispatchErr, DispatchIn
  <2>2. Serving(e.ptr)
    BY <2>1, EntryTaken
  <2> QED BY <1>3, <2>1, <2>2, LifeClose
<1>6. ASSUME NEW a \in Agents, DispatchOut(a)
      PROVE  Life!LifeNext \/ UNCHANGED <<LifePhase, LifeOwner>>
  <2>1. Serving(a)
    BY <1>6 DEF DispatchOut, OutTurn, Inv, NoDanglingEvent, ReactorAssumption
  <2>2. CASE (WritePart(a) \/ WriteAll(a)) /\ m_listT' = m_listT
    BY <1>1, <2>1, <2>2, WriteKeeps
  <2>3. CASE Retire(a)
    BY <2>1, <2>3, LifeClose
  <2> QED BY <1>6, <2>2, <2>3 DEF DispatchOut
<1>7. CASE DispatchListener
  <2>1. CASE AcceptFails
    BY <1>2, <2>1 DEF AcceptFails
  <2>2. ASSUME NEW a \in Agents, NEW f \in Fds, NEW room \in BOOLEAN, Accept(a, f, room)
        PROVE  Life!LifeNext
    BY <2>2, LifeOpen
  <2> QED BY <1>7, <2>1, <2>2 DEF DispatchListener
<1>8. CASE DoTask
  BY <1>8, LifeReclaim
<1>9. CASE EnterWait \/ EpollWait \/ WaitTimeout \/ WaitInterrupted \/ PeerConnects \/ Tick
  <2>1. agent' = agent
    BY <1>9 DEF EnterWait, EpollWait, WaitTimeout, WaitInterrupted, PeerConnects, Tick
  <2> QED BY <1>2, <2>1
<1>10. ASSUME NEW f \in Fds,
              PeerSends(f) \/ PeerCloses(f) \/ PeerResets(f) \/ PeerReads(f)
       PROVE  UNCHANGED <<LifePhase, LifeOwner>>
  <2>1. agent' = agent
    BY <1>10 DEF PeerSends, PeerCloses, PeerResets, PeerReads
  <2> QED BY <1>2, <2>1
<1>11. CASE UNCHANGED vars
  <2>1. agent' = agent
    BY <1>11 DEF vars
  <2> QED BY <1>2, <2>1
<1> QED
  BY <1>4, <1>5, <1>6, <1>7, <1>8, <1>9, <1>10, <1>11 DEF Next, LoopStep, Environment

\* The reactor implements AgentLifecycle step by step: it starts with every
\* slot free and every descriptor unowned, and whatever the loop, the kernel and
\* the peers do, a connection is opened by a free slot on a free descriptor and
\* closed by its owner only, and the deletion at the end of a pass takes every
\* retired agent (Epoll.cpp:225-346, EchoAgent.cpp release, EchoTask.cpp).
THEOREM Lifecycle ==
    ASSUME ReactorAssumption PROVE Spec => Life!LifeInit /\ StepsAsLifecycle
<1>1. Init => Life!LifeInit
  BY DEF Init, Life!LifeInit, LifePhase, LifeOwner, Freed, NoSock
<1>2. Inv /\ Inv' /\ [Next]_vars => [Life!LifeNext]_<<LifePhase, LifeOwner>>
  BY LifeSteps
<1>3. Spec => []Inv
  BY Invariance
<1> QED
  BY <1>1, <1>2, <1>3, PTL DEF Spec, StepsAsLifecycle
=============================================================================
