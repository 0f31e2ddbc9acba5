--------------------------- MODULE Manager_proofs ---------------------------
(***************************************************************************)
(* Manager deletes exactly the agents nobody refers to, for any number of  *)
(* agents and references.                                                  *)
(***************************************************************************)
EXTENDS Manager, FiniteSetTheorems, TLAPS

Inv == TypeOK /\ UnreferencedListed

\* The agents on the list once one more is appended.
LEMMA Appended ==
    ASSUME NEW a \in Agents, m_listT \in Seq(Agents)
    PROVE  LET longer == Append(m_listT, a)
           IN  /\ longer \in Seq(Agents)
               /\ Len(longer) = Len(m_listT) + 1
               /\ \A i \in 1..Len(m_listT) : longer[i] = m_listT[i]
               /\ longer[Len(longer)] = a
               /\ {longer[i] : i \in 1..Len(longer)} =
                      {m_listT[i] : i \in 1..Len(m_listT)} \cup {a}
<1> DEFINE longer == Append(m_listT, a)
<1>1. /\ longer \in Seq(Agents) /\ Len(longer) = Len(m_listT) + 1
      /\ \A i \in 1..Len(m_listT) : longer[i] = m_listT[i]
      /\ longer[Len(longer)] = a /\ Len(m_listT) \in Nat
  OBVIOUS
<1> HIDE DEF longer
<1>2. 1..Len(longer) = (1..Len(m_listT)) \cup {Len(longer)}
  BY <1>1
<1>3. {longer[i] : i \in 1..Len(longer)} =
          {m_listT[i] : i \in 1..Len(m_listT)} \cup {a}
  BY <1>1, <1>2
<1> QED
  BY <1>1, <1>3 DEF longer

LEMMA InitInv == ASSUME ManagerAssumption, Init PROVE Inv
<1>1. TypeOK
  BY DEF Init, TypeOK, ManagerAssumption
<1>2. UnreferencedListed
  BY DEF Init, UnreferencedListed
<1> QED
  BY <1>1, <1>2 DEF Inv

\* A new agent comes with one reference, and was on no list.
LEMMA CreatStep ==
    ASSUME ManagerAssumption, Inv, NEW a \in Agents, creat(a) PROVE Inv'
<1>1. TypeOK'
  BY DEF Inv, TypeOK, creat, Counted, ManagerAssumption
<1>2. /\ \A b \in Agents : m_iRefCount'[b] = IF b = a THEN 1 ELSE m_iRefCount[b]
      /\ a \notin alive /\ m_iRefCount[a] = 0
  BY DEF Inv, TypeOK, UnreferencedListed, creat
<1>3. {b \in alive' : m_iRefCount'[b] = 0} = {b \in alive : m_iRefCount[b] = 0}
  BY <1>2 DEF Inv, TypeOK, creat
<1>4. UnreferencedListed'
  BY <1>2, <1>3 DEF Inv, TypeOK, UnreferencedListed, creat
<1> QED
  BY <1>1, <1>4 DEF Inv

\* A reference is taken only by who has one.
LEMMA RefStep ==
    ASSUME ManagerAssumption, Inv, NEW a \in Agents, ref(a) PROVE Inv'
<1>1. /\ \A b \in Agents : m_iRefCount'[b] = IF b = a THEN m_iRefCount[a] + 1
                                             ELSE m_iRefCount[b]
      /\ m_iRefCount[a] \in Nat /\ m_iRefCount[a] > 0 /\ m_iRefCount[a] < MaxRef
  BY DEF Inv, TypeOK, ref, ManagerAssumption
<1>2. TypeOK'
  BY <1>1 DEF Inv, TypeOK, ref, ManagerAssumption
<1>3. {b \in alive' : m_iRefCount'[b] = 0} = {b \in alive : m_iRefCount[b] = 0}
  BY <1>1 DEF Inv, TypeOK, ref
<1>4. UnreferencedListed'
  BY <1>1, <1>3 DEF Inv, TypeOK, UnreferencedListed, ref
<1> QED
  BY <1>2, <1>4 DEF Inv

\* The last reference lists the agent, which was not listed before.
LEMMA ReleaseStep ==
    ASSUME ManagerAssumption, Inv, NEW a \in Agents, release(a) PROVE Inv'
<1> DEFINE count == m_iRefCount[a] - 1
<1>1. /\ \A b \in Agents : m_iRefCount'[b] = IF b = a THEN count ELSE m_iRefCount[b]
      /\ m_iRefCount[a] > 0 /\ count \in 0..MaxRef
      /\ a \in alive /\ m_listT \in Seq(Agents) /\ alive' = alive
  BY DEF Inv, TypeOK, UnreferencedListed, release, ManagerAssumption
<1>2. m_listT' = IF count = 0 THEN Append(m_listT, a) ELSE m_listT
  BY <1>1 DEF release, recycle
<1>3. a \notin {m_listT[i] : i \in 1..Len(m_listT)}
  BY <1>1 DEF Inv, UnreferencedListed
<1> HIDE DEF count
<1>4. TypeOK'
  <2>1. m_listT' \in Seq(Agents)
    BY <1>1, <1>2
  <2>2. m_iRefCount' \in [Agents -> 0..MaxRef]
    BY <1>1 DEF Inv, TypeOK, release, count
  <2> QED
    BY <2>1, <2>2 DEF Inv, TypeOK, release
<1>5. UnreferencedListed'
  <2>1. CASE count # 0
    <3>1. {b \in alive' : m_iRefCount'[b] = 0} = {b \in alive : m_iRefCount[b] = 0}
      BY <1>1, <2>1 DEF Inv, TypeOK
    <3> QED
      BY <1>1, <1>2, <2>1, <3>1 DEF Inv, UnreferencedListed
  <2>2. CASE count = 0
    <3>1. {b \in alive' : m_iRefCount'[b] = 0} =
              {b \in alive : m_iRefCount[b] = 0} \cup {a}
      BY <1>1, <2>2 DEF Inv, TypeOK
    <3>2. /\ Len(m_listT') = Len(m_listT) + 1 /\ Len(m_listT) \in Nat
          /\ \A i \in 1..Len(m_listT) : m_listT'[i] = m_listT[i]
          /\ m_listT'[Len(m_listT')] = a
          /\ {m_listT'[i] : i \in 1..Len(m_listT')} =
                 {m_listT[i] : i \in 1..Len(m_listT)} \cup {a}
      BY <1>1, <1>2, <2>2, Appended
    <3>3. \A i, j \in 1..Len(m_listT') : m_listT'[i] = m_listT'[j] => i = j
      BY <1>3, <3>2 DEF Inv, UnreferencedListed
    <3>4. \A b \in Agents \ alive' : m_iRefCount'[b] = 0
      BY <1>1 DEF Inv, UnreferencedListed
    <3> QED
      BY <3>1, <3>2, <3>3, <3>4 DEF Inv, UnreferencedListed
  <2> QED
    BY <2>1, <2>2
<1> QED
  BY <1>4, <1>5 DEF Inv

\* The deleted agents are those without a reference.
LEMMA RecyclerStep == ASSUME ManagerAssumption, Inv, recycler PROVE Inv'
<1>1. m_listT' = <<>> /\ m_iRefCount' = m_iRefCount
  BY DEF recycler
<1>2. alive' = alive \ {a \in alive : m_iRefCount[a] = 0}
  BY DEF Inv, UnreferencedListed, recycler
<1>3. m_iFree' \in 0..(CounterMod - 1)
  <2>1. Len(m_listT) \in Nat /\ m_iFree \in Nat /\ CounterMod \in Nat \ {0}
    BY DEF Inv, TypeOK, ManagerAssumption
  <2> QED
    BY <2>1 DEF recycler
<1>4. TypeOK'
  BY <1>1, <1>2, <1>3 DEF Inv, TypeOK, recycler
<1>5. UnreferencedListed'
  BY <1>1, <1>2 DEF Inv, TypeOK, UnreferencedListed
<1> QED
  BY <1>4, <1>5 DEF Inv

\* The invariant holds in every state: whoever takes and gives back references
\* in whatever order, an agent is listed once and only without a reference
\* (Manager.h:60-90).
THEOREM Invariance == ASSUME ManagerAssumption PROVE Spec => []Inv
<1>1. Init => Inv
  BY InitInv
<1>2. Inv /\ [Next]_vars => Inv'
  <2> SUFFICES ASSUME Inv, [Next]_vars PROVE Inv'
    OBVIOUS
  <2>1. CASE recycler
    BY <2>1, RecyclerStep
  <2>2. ASSUME NEW a \in Agents, creat(a) \/ ref(a) \/ release(a) PROVE Inv'
    BY <2>2, CreatStep, RefStep, ReleaseStep
  <2>3. CASE UNCHANGED vars
    BY <2>3 DEF vars, Inv, TypeOK, UnreferencedListed
  <2> QED
    BY <2>1, <2>2, <2>3 DEF Next
<1> QED
  BY <1>1, <1>2, PTL DEF Spec

\* No deleted agent is referenced, none is deleted twice, none is forgotten
\* (Manager.h:68-90).
THEOREM Unreferenced == ASSUME ManagerAssumption PROVE Spec => []UnreferencedListed
<1> Inv => UnreferencedListed
  BY DEF Inv
<1> QED
  BY Invariance, PTL

-----------------------------------------------------------------------------
(* The counters.  They are kept to their width one by one, and what they   *)
(* tell is a sum: addition commutes with taking the remainder.             *)

LEMMA ModDef ==
    ASSUME NEW a \in Int, NEW m \in Nat \ {0}
    PROVE  a % m \in 0..(m - 1) /\ a \div m \in Int /\ a = m * (a \div m) + (a % m)
OBVIOUS

\* A remainder is determined by being one.
LEMMA ModUnique ==
    ASSUME NEW m \in Nat \ {0}, NEW p \in Int, NEW q \in Int,
           NEW r \in 0..(m - 1), NEW s \in 0..(m - 1), m * p + r = m * q + s
    PROVE  r = s
<1> DEFINE k == p - q
<1>1. k \in Int /\ m * k = s - r
  <2>1. m * (p - q) = m * p - m * q /\ m * p \in Int /\ m * q \in Int
    OBVIOUS
  <2> QED
    BY <2>1
<1> HIDE DEF k
<1>2. k >= 1 => m * k >= m
  BY <1>1
<1>3. k <= -1 => m * k <= -m
  BY <1>1
<1>4. k = 0 => m * k = 0
  OBVIOUS
<1> QED
  BY <1>1, <1>2, <1>3, <1>4

LEMMA ModAdd ==
    ASSUME NEW a \in Int, NEW b \in Int, NEW m \in Nat \ {0}
    PROVE  ((a % m) + b) % m = (a + b) % m
<1> DEFINE r == a % m
           c == r + b
           d == a + b
<1>1. /\ r \in Int /\ a \div m \in Int /\ a = m * (a \div m) + r
  BY ModDef
<1>2. c \in Int /\ d \in Int
  BY <1>1
<1>3. /\ c % m \in 0..(m - 1) /\ c \div m \in Int /\ c = m * (c \div m) + (c % m)
      /\ d % m \in 0..(m - 1) /\ d \div m \in Int /\ d = m * (d \div m) + (d % m)
  BY <1>2, ModDef
<1> DEFINE x == a \div m
           y == c \div m
           z == d \div m
<1>4. m * x \in Int /\ m * y \in Int /\ m * (x + y) = m * x + m * y
  BY <1>1, <1>3
<1>5. d = c + m * x
  BY <1>1, <1>4
<1>6. m * (x + y) + (c % m) = m * z + (d % m)
  BY <1>3, <1>4, <1>5
<1>7. x + y \in Int /\ z \in Int
  BY <1>1, <1>3
<1> HIDE DEF x, y, z, c, d
<1>8. c % m = d % m
  BY <1>3, <1>6, <1>7, ModUnique
<1> QED
  BY <1>8 DEF c, d, r

LEMMA ModInt ==
    ASSUME NEW a \in Int, NEW m \in Nat \ {0} PROVE a % m \in Int
BY ModDef

\* As many agents are deleted as the list is long.
LEMMA ListedCount ==
    ASSUME ManagerAssumption, Inv
    PROVE  LET gone == {m_listT[i] : i \in 1..Len(m_listT)}
           IN  /\ gone \subseteq alive /\ IsFiniteSet(alive)
               /\ Cardinality(alive) \in Nat
               /\ Cardinality(alive \ gone) = Cardinality(alive) - Len(m_listT)
<1> DEFINE S == 1..Len(m_listT)
           gone == {m_listT[i] : i \in S}
<1>1. /\ Len(m_listT) \in Nat /\ m_listT \in [S -> Agents]
      /\ gone \subseteq alive /\ alive \in SUBSET Agents
      /\ \A i, j \in S : m_listT[i] = m_listT[j] => i = j
  BY DEF Inv, TypeOK, UnreferencedListed
<1>2. IsFiniteSet(alive) /\ Cardinality(alive) \in Nat
  BY <1>1, FS_Subset, FS_CardinalityType DEF ManagerAssumption
<1>3. m_listT \in Bijection(S, gone)
  BY <1>1 DEF Bijection, Injection, Surjection, IsInjective
<1>4. IsFiniteSet(S) /\ Cardinality(S) = Len(m_listT)
  BY <1>1, FS_Interval
<1>5. Cardinality(gone) = Len(m_listT)
  BY <1>3, <1>4, FS_Bijection DEF ExistsBijection
<1>6. alive \cap gone = gone
  BY <1>1
<1>7. Cardinality(alive \ gone) = Cardinality(alive) - Cardinality(alive \cap gone)
  BY <1>2, FS_Difference
<1> QED
  BY <1>1, <1>2, <1>5, <1>6, <1>7

LEMMA CountersStep ==
    ASSUME ManagerAssumption, Inv, CountersTell, [Next]_vars PROVE CountersTell'
<1> DEFINE M == CounterMod
           n == Cardinality(alive)
           sum == m_iNew + m_iFree
<1>1. /\ M \in Nat \ {0} /\ m_iNew \in Int /\ m_iFree \in Int /\ sum \in Int
      /\ n \in Nat /\ n \in Int /\ IsFiniteSet(alive) /\ Len(m_listT) \in Int
      /\ sum % M = n % M
  BY ListedCount DEF Inv, TypeOK, CountersTell, ManagerAssumption
<1>2. ASSUME NEW a \in Agents, creat(a) PROVE CountersTell'
  <2>1. m_iNew' = (m_iNew + 1) % M /\ m_iFree' = m_iFree
    BY <1>2 DEF creat, Counted
  <2>2. Cardinality(alive') = n + 1
    BY <1>1, <1>2, FS_AddElement DEF creat
  <2>0. m_iNew + 1 \in Int /\ 1 \in Int
    BY <1>1
  <2> HIDE DEF n, M
  <2>3. (((m_iNew + 1) % M) + m_iFree) % M = ((m_iNew + 1) + m_iFree) % M
    BY Zenon, <1>1, <2>0, ModAdd
  <2>4. ((sum % M) + 1) % M = (sum + 1) % M
    BY Zenon, <1>1, <2>0, ModAdd
  <2>5. ((n % M) + 1) % M = (n + 1) % M
    BY Zenon, <1>1, <2>0, ModAdd
  <2>6. (m_iNew + 1) + m_iFree = sum + 1
    BY <1>1
  <2>7. (m_iNew' + m_iFree') % M = (n + 1) % M
    BY <1>1, <2>1, <2>3, <2>4, <2>5, <2>6
  <2> QED
    BY <2>2, <2>7 DEF CountersTell, M
<1>3. CASE recycler
  <2> DEFINE d == Len(m_listT)
  <2>1. m_iFree' = (m_iFree - d) % M /\ m_iNew' = m_iNew
    BY <1>3 DEF recycler
  <2>2. Cardinality(alive') = n - d
    BY <1>3, ListedCount DEF recycler
  <2>3. d \in Int /\ -d \in Int /\ m_iFree - d \in Int
    BY <1>1
  <2> HIDE DEF n, M, d
  <2>4. (((m_iFree - d) % M) + m_iNew) % M = ((m_iFree - d) + m_iNew) % M
    BY <1>1, <2>3, ModAdd
  <2>5. ((sum % M) + (-d)) % M = (sum + (-d)) % M
    BY <1>1, <2>3, ModAdd
  <2>6. ((n % M) + (-d)) % M = (n + (-d)) % M
    BY <1>1, <2>3, ModAdd
  <2>7. (m_iFree - d) + m_iNew = sum + (-d) /\ n + (-d) = n - d
    BY <1>1, <2>3
  <2>8. (m_iFree - d) % M \in Int
    BY <1>1, <2>3, ModInt
  <2>9. m_iNew + m_iFree' = ((m_iFree - d) % M) + m_iNew
    BY <1>1, <2>1, <2>8
  <2>10. (m_iNew' + m_iFree') % M = (n - d) % M
    BY <1>1, <2>1, <2>4, <2>5, <2>6, <2>7, <2>9
  <2> QED
    BY <2>2, <2>10 DEF CountersTell, M
<1>4. ASSUME NEW a \in Agents, ref(a) \/ release(a) PROVE CountersTell'
  BY <1>4 DEF ref, release, CountersTell
<1>5. CASE UNCHANGED vars
  BY <1>5 DEF vars, CountersTell
<1> QED
  BY <1>2, <1>3, <1>4, <1>5 DEF Next

\* The two counters tell by their sum how many agents are allocated, however
\* often either of them has wrapped (Manager.h:39, 76): ~Manager's comparison
\* of the two is the one that fails.
THEOREM Counters == ASSUME ManagerAssumption PROVE Spec => []CountersTell
<1>1. Init => CountersTell
  <2> SUFFICES ASSUME Init PROVE CountersTell
    OBVIOUS
  <2>1. Cardinality(alive) = 0
    BY FS_EmptySet DEF Init
  <2> QED
    BY <2>1 DEF Init, CountersTell
<1>2. Inv /\ CountersTell /\ [Next]_vars => CountersTell'
  BY CountersStep
<1> QED
  BY <1>1, <1>2, Invariance, PTL DEF Spec

\* What the check of ~Manager means for any width: when every agent was deleted it
\* passes only if the number of agents made, as m_iNew has it, is 0 or half of what
\* the counter can hold, since deletions are counted down (Manager.h:27-31, 76).
THEOREM CheckPasses ==
    ASSUME ManagerAssumption
    PROVE  Spec => [](alive = {} =>
                        (m_iFree = m_iNew <=> m_iNew = 0 \/ 2 * m_iNew = CounterMod))
<1>1. Inv /\ CountersTell =>
        (alive = {} => (m_iFree = m_iNew <=> m_iNew = 0 \/ 2 * m_iNew = CounterMod))
  <2> SUFFICES ASSUME Inv, CountersTell, alive = {}
               PROVE  m_iFree = m_iNew <=> m_iNew = 0 \/ 2 * m_iNew = CounterMod
    OBVIOUS
  <2>1. /\ m_iNew \in 0..(CounterMod - 1) /\ m_iFree \in 0..(CounterMod - 1)
        /\ CounterMod \in Nat \ {0}
    BY DEF Inv, TypeOK, ManagerAssumption
  <2>2. (m_iNew + m_iFree) % CounterMod = 0
    <3>1. Cardinality(alive) = 0
      BY FS_EmptySet
    <3>2. 0 % CounterMod = 0
      BY <2>1
    <3> QED
      BY <3>1, <3>2 DEF CountersTell
  <2>3. m_iNew + m_iFree = 0 \/ m_iNew + m_iFree = CounterMod
    BY <2>1, <2>2
  <2> QED
    BY <2>1, <2>3
<1> QED
  BY <1>1, Invariance, Counters, PTL
=============================================================================
