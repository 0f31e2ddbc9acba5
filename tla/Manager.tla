------------------------------ MODULE Manager ------------------------------
(***************************************************************************)
(* Manager<T> makes the agents, keeps those whose last reference was       *)
(* released on m_listT, and deletes them when its recycler is called.  It  *)
(* counts what it does in two unsigned members.                            *)
(*                                                                         *)
(* Agents are used through references: whoever has one may take another    *)
(* (ref) and gives each back once (release).                               *)
(***************************************************************************)
EXTENDS Integers, Sequences, FiniteSets

CONSTANTS Agents,      \* the slots an agent can be allocated in
          MaxRef,      \* bound: references held on one agent
          CounterMod   \* 2 to the width of m_iNew and m_iFree

ASSUME ManagerAssumption ==
    /\ IsFiniteSet(Agents)
    /\ MaxRef \in Nat \ {0} /\ CounterMod \in Nat \ {0}

VARIABLES alive,        \* the agents that are allocated
          m_iRefCount,  \* Agent: references held on each
          m_listT,      \* agents to delete
          m_iNew, m_iFree

vars == <<alive, m_iRefCount, m_listT, m_iNew, m_iFree>>

Init ==
    /\ alive = {}
    /\ m_iRefCount = [a \in Agents |-> 0]
    /\ m_listT = <<>>
    /\ m_iNew = 0 /\ m_iFree = 0

\* Faulty: an overload of creat forgets to count.
CountedNot(n) == n

Counted(n) == (n + 1) % CounterMod

creat(a) ==
    /\ a \in Agents \ alive
    /\ alive' = alive \cup {a}
    /\ m_iRefCount' = [m_iRefCount EXCEPT ![a] = 1]
    /\ m_iNew' = Counted(m_iNew)
    /\ UNCHANGED <<m_listT, m_iFree>>

ref(a) ==
    /\ m_iRefCount[a] \in 1..(MaxRef - 1)
    /\ m_iRefCount' = [m_iRefCount EXCEPT ![a] = @ + 1]
    /\ UNCHANGED <<alive, m_listT, m_iNew, m_iFree>>

\* Manager::recycler(T *): an agent that is still referenced is not listed.
recycle(a, count) == IF count > 0 THEN m_listT ELSE Append(m_listT, a)

\* Faulty: every release lists the agent.
releaseAlways(a) ==
    /\ m_iRefCount[a] > 0
    /\ m_iRefCount' = [m_iRefCount EXCEPT ![a] = @ - 1]
    /\ m_listT' = Append(m_listT, a)
    /\ UNCHANGED <<alive, m_iNew, m_iFree>>

\* EchoAgent::release
release(a) ==
    LET count == m_iRefCount[a] - 1
    IN  /\ m_iRefCount[a] > 0
        /\ m_iRefCount' = [m_iRefCount EXCEPT ![a] = count]
        /\ m_listT' = IF count = 0 THEN recycle(a, count) ELSE m_listT
        /\ UNCHANGED <<alive, m_iNew, m_iFree>>

\* Manager::recycler(): m_iFree is counted down, from 0.
recycler ==
    /\ m_listT # <<>>
    /\ alive' = alive \ {m_listT[i] : i \in 1..Len(m_listT)}
    /\ m_iFree' = (m_iFree - Len(m_listT)) % CounterMod
    /\ m_listT' = <<>>
    /\ UNCHANGED <<m_iRefCount, m_iNew>>

Next == recycler \/ \E a \in Agents : creat(a) \/ ref(a) \/ release(a)
Spec == Init /\ [][Next]_vars
-----------------------------------------------------------------------------
\* Type correctness, and m_iNew and m_iFree stay within their width.
TypeOK ==
    /\ alive \subseteq Agents
    /\ m_iRefCount \in [Agents -> 0..MaxRef]
    /\ m_listT \in Seq(Agents)
    /\ m_iNew \in 0..(CounterMod - 1) /\ m_iFree \in 0..(CounterMod - 1)

\* An agent is on the list, once, exactly when it is allocated and nobody has a
\* reference to it any more: no deleted agent is referenced, none is deleted
\* twice, none is forgotten (Manager.h:68-90).
UnreferencedListed ==
    /\ {m_listT[i] : i \in 1..Len(m_listT)} = {a \in alive : m_iRefCount[a] = 0}
    /\ \A i, j \in 1..Len(m_listT) : m_listT[i] = m_listT[j] => i = j
    /\ \A a \in Agents \ alive : m_iRefCount[a] = 0

\* The two counters tell how many agents are allocated, whatever wrapped: but by
\* their sum, because m_iFree is counted down (Manager.h:39, 76).
CountersTell == (m_iNew + m_iFree) % CounterMod = Cardinality(alive) % CounterMod

\* What ~Manager checks: when every agent was deleted, as many were deleted as
\* were made (Manager.h:27-31).
NumbersEqual == alive = {} => m_iFree = m_iNew
=============================================================================
