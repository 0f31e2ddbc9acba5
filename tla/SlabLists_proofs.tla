-------------------------- MODULE SlabLists_proofs --------------------------
(***************************************************************************)
(* The allocator's pointers do what SlabCache says, for any number of      *)
(* pages and any sizes that fit: a theorem about list.h's lists, about     *)
(* get_slab's arithmetic and about the loops of slab.c together.           *)
(***************************************************************************)
EXTENDS SlabLists, Lists_proofs

C == INSTANCE SlabCache_proofs WITH
    NrSize <- nrsize, list <- PageList, used <- UsedCount, slab_list <- SlabList,
    nrfree <- m.nrfree, nralloc <- m.nralloc, nrpage <- m.nrpage,
    held <- HeldObjects

-----------------------------------------------------------------------------
(* Addresses. *)

LEMMA Divided ==
    ASSUME NEW a \in Nat, NEW n \in Nat \ {0}, NEW r \in 0..(n - 1)
    PROVE  (a * n + r) \div n = a /\ (a * n + r) % n = r
OBVIOUS

LEMMA Sizes ==
    /\ pagesize \in Nat /\ pagesize > 0 /\ size \in Nat /\ size > 0
    /\ ListSize \in Nat /\ ListSize > 0 /\ HeaderSize \in Nat
    /\ HeaderSize > 2 * ListSize /\ size >= ListSize
    /\ nrsize \in Nat /\ nrsize > 0
    /\ nrsize * size + HeaderSize < pagesize
    /\ IsFiniteSet(Pages) /\ \A p \in Pages : p \in Nat /\ p > 0
<1>1. /\ pagesize \in Nat /\ pagesize > 0 /\ size \in Nat /\ size > 0
      /\ ListSize \in Nat /\ ListSize > 0 /\ HeaderSize \in Nat
      /\ HeaderSize > 2 * ListSize /\ size >= ListSize
      /\ IsFiniteSet(Pages) /\ \A p \in Pages : p \in Nat /\ p > 0
  BY ListsAssumption DEF ListsAssumption
<1>2. nrsize \in Int /\ nrsize > 0
  BY <1>1, ListsAssumption DEF ListsAssumption, nrsize
<1>3. nrsize * size \in Int
  BY <1>1, <1>2
<1>4. nrsize * size < pagesize - HeaderSize
  BY HeaderMissed DEF HeaderMissed
<1> QED
  BY <1>1, <1>2, <1>3, <1>4

\* Objects are before the header, and the page and the index of an object are
\* found from its address.
LEMMA Objectwise ==
    ASSUME NEW p \in Pages, NEW i \in 1..nrsize
    PROVE  /\ Object(p, i) = p * pagesize + (i - 1) * size
           /\ (i - 1) * size \in 0..(pagesize - 1)
           /\ (i - 1) * size < pagesize - 1 - HeaderSize
           /\ Object(p, i) \in Nat /\ Object(p, i) >= pagesize
           /\ Named(Object(p, i)) = <<p, i>>
           /\ get_slab(Object(p, i)) = Slab(p)
<1>1. /\ p \in Nat /\ p > 0 /\ i \in Nat /\ i - 1 \in Nat /\ i <= nrsize
      /\ pagesize \in Nat \ {0} /\ size \in Nat \ {0} /\ HeaderSize \in Nat
      /\ nrsize \in Nat
  BY Sizes
<1> DEFINE r == (i - 1) * size
           base == p * pagesize
<1>2. r \in Nat /\ base \in Nat /\ base >= pagesize
  <2>1. r \in Nat /\ base \in Nat
    BY <1>1
  <2>2. (p - 1) * pagesize \in Nat /\ p * pagesize = (p - 1) * pagesize + pagesize
    BY <1>1
  <2> QED
    BY <1>1, <2>1, <2>2
<1>3. r + size <= nrsize * size
  <2>1. (nrsize - i) * size >= 0
    BY <1>1
  <2>2. nrsize * size = (nrsize - i) * size + i * size
    BY <1>1
  <2>3. i * size = (i - 1) * size + size
    BY <1>1
  <2> QED
    BY <1>1, <2>1, <2>2, <2>3
<1>4. r < pagesize - 1 - HeaderSize /\ r \in 0..(pagesize - 1)
  <2>1. nrsize * size \in Nat
    BY <1>1
  <2> HIDE DEF r
  <2> QED
    BY <1>1, <1>2, <1>3, <2>1, Sizes
<1>5. Object(p, i) = base + r
  BY DEF Object
<1>6. (base + r) \div pagesize = p /\ (base + r) % pagesize = r
  <2> HIDE DEF r
  <2> QED
    BY <1>1, <1>4, Divided
<1>7. r \div size = i - 1
  <2>1. 0 \in 0..(size - 1)
    BY <1>1
  <2>2. ((i - 1) * size + 0) \div size = i - 1
    BY <1>1, <2>1, Divided
  <2> QED
    BY <1>2, <2>2
<1>8. Named(Object(p, i)) = <<p, i>>
  <2>1. (i - 1) + 1 = i
    BY <1>1
  <2> HIDE DEF r, base
  <2> QED
    BY <1>5, <1>6, <1>7, <2>1 DEF Named
<1>9. base % pagesize = 0
  <2>1. 0 \in 0..(pagesize - 1)
    BY <1>1
  <2>2. (p * pagesize + 0) % pagesize = 0
    BY <1>1, <2>1, Divided
  <2> QED
    BY <1>2, <2>2
<1>10. get_slab(Object(p, i)) = get_slab(base)
  <2> HIDE DEF r, base
  <2> QED
    BY <1>1, <1>2, <1>4, <1>5, <1>6, <1>9 DEF get_slab
<1> HIDE DEF base
<1> QED
  BY <1>2, <1>4, <1>5, <1>8, <1>10, Sizes DEF Slab, base, r

LEMMA Slabwise ==
    ASSUME NEW p \in Pages
    PROVE  /\ Slab(p) = p * pagesize + (pagesize - 1 - HeaderSize)
           /\ ObjectList(Slab(p)) = p * pagesize + (pagesize - 1 - HeaderSize + ListSize)
           /\ p * pagesize \in Nat /\ p * pagesize >= pagesize
<1>1. p \in Nat /\ p > 0 /\ pagesize \in Nat \ {0} /\ HeaderSize \in Nat /\ ListSize \in Nat
  BY Sizes
<1> DEFINE base == p * pagesize
<1>2. base \in Nat /\ base >= pagesize
  <2>1. base \in Nat
    BY <1>1
  <2>2. (p - 1) * pagesize \in Nat /\ p * pagesize = (p - 1) * pagesize + pagesize
    BY <1>1
  <2> QED
    BY <1>1, <2>1, <2>2
<1>3. base % pagesize = 0
  <2>1. 0 \in 0..(pagesize - 1)
    BY <1>1
  <2>2. (p * pagesize + 0) % pagesize = 0
    BY <1>1, <2>1, Divided
  <2> QED
    BY <1>2, <2>2
<1>4. Slab(p) = base + (pagesize - 1 - HeaderSize)
  <2>1. Slab(p) = get_slab(base)
    BY DEF Slab
  <2> HIDE DEF base
  <2> QED
    BY <1>1, <1>2, <1>3, <2>1 DEF get_slab
<1>5. ObjectList(Slab(p)) = base + (pagesize - 1 - HeaderSize + ListSize)
  <2> HIDE DEF base
  <2> QED
    BY <1>1, <1>2, <1>4 DEF ObjectList
<1> QED
  BY <1>2, <1>4, <1>5

\* Two places in pages are the same only if their pages and offsets are.
LEMMA SamePlace ==
    ASSUME NEW p \in Pages, NEW q \in Pages,
           NEW r \in 0..(pagesize - 1), NEW s \in 0..(pagesize - 1),
           p * pagesize + r = q * pagesize + s
    PROVE  p = q /\ r = s
<1>1. p \in Nat /\ q \in Nat /\ pagesize \in Nat \ {0}
  BY Sizes
<1>2. (p * pagesize + r) \div pagesize = p /\ (p * pagesize + r) % pagesize = r
  BY <1>1, Divided
<1>3. (q * pagesize + s) \div pagesize = q /\ (q * pagesize + s) % pagesize = s
  BY <1>1, Divided
<1> QED
  BY <1>2, <1>3

\* No two nodes are at the same address.
LEMMA Apart ==
    /\ \A p, q \in Pages : Slab(p) = Slab(q) => p = q
    /\ \A p, q \in Pages : ObjectList(Slab(p)) = ObjectList(Slab(q)) => p = q
    /\ \A p, q \in Pages : Slab(p) # ObjectList(Slab(q))
    /\ \A p, q \in Pages : \A i, j \in 1..nrsize : Object(p, i) = Object(q, j) => p = q /\ i = j
    /\ \A p, q \in Pages : \A i \in 1..nrsize :
          Object(p, i) # Slab(q) /\ Object(p, i) # ObjectList(Slab(q))
    /\ \A p \in Pages : Slab(p) \notin Heads /\ ObjectList(Slab(p)) \notin Heads
    /\ \A p \in Pages : \A i \in 1..nrsize : Object(p, i) \notin Heads
<1> DEFINE so == pagesize - 1 - HeaderSize
           oo == pagesize - 1 - HeaderSize + ListSize
<1>1. so \in 0..(pagesize - 1) /\ oo \in 0..(pagesize - 1) /\ so < oo /\ pagesize > 3
      /\ so \in Nat /\ oo \in Nat
  <2>1. nrsize * size \in Nat
    BY Sizes
  <2> QED
    BY <2>1, Sizes, ListsAssumption DEF ListsAssumption
<1>2. ASSUME NEW p \in Pages
      PROVE  /\ Slab(p) = p * pagesize + so /\ ObjectList(Slab(p)) = p * pagesize + oo
             /\ p * pagesize \in Nat /\ p * pagesize >= pagesize
  BY Slabwise
<1>3. ASSUME NEW p \in Pages, NEW i \in 1..nrsize
      PROVE  /\ Object(p, i) = p * pagesize + (i - 1) * size
             /\ (i - 1) * size \in 0..(pagesize - 1)
             /\ (i - 1) * size < so /\ Object(p, i) \in Nat /\ Object(p, i) >= pagesize
  BY Objectwise
<1> HIDE DEF so, oo
<1>4. ASSUME NEW p \in Pages, NEW q \in Pages
      PROVE  /\ Slab(p) = Slab(q) => p = q
             /\ ObjectList(Slab(p)) = ObjectList(Slab(q)) => p = q
             /\ Slab(p) # ObjectList(Slab(q))
  BY <1>1, <1>2, SamePlace
<1>5. ASSUME NEW p \in Pages, NEW q \in Pages, NEW i \in 1..nrsize, NEW j \in 1..nrsize,
             Object(p, i) = Object(q, j)
      PROVE  p = q /\ i = j
  <2>1. Named(Object(p, i)) = <<p, i>> /\ Named(Object(q, j)) = <<q, j>>
    BY Objectwise
  <2> QED
    BY <1>5, <2>1
<1>6. ASSUME NEW p \in Pages, NEW q \in Pages, NEW i \in 1..nrsize
      PROVE  Object(p, i) # Slab(q) /\ Object(p, i) # ObjectList(Slab(q))
  <2>1. (i - 1) * size # so /\ (i - 1) * size # oo
    BY <1>1, <1>3
  <2> DEFINE r == (i - 1) * size
  <2>2. r # so /\ r # oo /\ r \in 0..(pagesize - 1) /\ Object(p, i) = p * pagesize + r
    BY <1>3, <2>1
  <2> HIDE DEF r
  <2> QED
    BY <1>1, <1>2, <2>2, SamePlace
<1>7. ASSUME NEW p \in Pages
      PROVE  Slab(p) \notin Heads /\ ObjectList(Slab(p)) \notin Heads
  <2> DEFINE base == p * pagesize
  <2>1. Slab(p) = base + so /\ ObjectList(Slab(p)) = base + oo /\ base \in Nat /\ base > 3
    <3>1. pagesize \in Nat
      BY Sizes
    <3> QED
      BY <1>1, <1>2, <3>1
  <2> HIDE DEF base
  <2> QED
    BY <1>1, <2>1 DEF Heads, slabs_partial, slabs_full, slabs_free
<1>8. ASSUME NEW p \in Pages, NEW i \in 1..nrsize
      PROVE  Object(p, i) \notin Heads
  BY <1>1, <1>3, Sizes DEF Heads, slabs_partial, slabs_full, slabs_free
<1> QED
  BY <1>4, <1>5, <1>6, <1>7, <1>8

-----------------------------------------------------------------------------
(* The lists of a memory, as sets. *)

Three == {"partial", "full", "free"}
HeadOf(name) == IF name = "partial" THEN slabs_partial
                ELSE IF name = "full" THEN slabs_full ELSE slabs_free

\* The slabs of the pages that L has in a list, and a page's objects of these
\* indexes.
Listed(L, name) == {Slab(p) : p \in {q \in Pages : L[q] = name}}
Loose(p, S) == {Object(p, i) : i \in S}

\* k and mm differ in next and prev only.
Relinked(k, mm) ==
    /\ DOMAIN k = DOMAIN mm
    /\ \A f \in DOMAIN mm : f # "next" /\ f # "prev" => k[f] = mm[f]

Memory(mm) ==
    /\ Listing(mm, Nodes)
    /\ {"used", "nrfree", "nralloc", "nrpage"} \subseteq DOMAIN mm
    /\ mm.used = [s \in {Slab(p) : p \in Pages} |-> mm.used[s]]

\* The lists are those of L and, for the pages M that were carved up, of O.
Shape(mm, L, O, M) ==
    /\ Memory(mm)
    /\ L \in [Pages -> Three \cup {"none"}] /\ O \in [Pages -> SUBSET (1..nrsize)]
    /\ M \in SUBSET Pages
    /\ \A name \in Three : IsList(mm, HeadOf(name), Listed(L, name))
    /\ \A p \in M : IsList(mm, ObjectList(Slab(p)), Loose(p, O[p]))
    /\ \A p \in Pages \ M : L[p] = "none" /\ O[p] = {}

LEMMA NodesHave ==
    /\ \A name \in Three : HeadOf(name) \in Nodes /\ HeadOf(name) \in Heads
    /\ \A p \in Pages : Slab(p) \in Nodes /\ ObjectList(Slab(p)) \in Nodes
    /\ \A p \in Pages : \A i \in 1..nrsize : Object(p, i) \in Nodes
    /\ \A L : \A name \in Three : Listed(L, name) \in SUBSET Nodes
    /\ \A p \in Pages : \A S \in SUBSET (1..nrsize) : Loose(p, S) \in SUBSET Nodes
<1>1. \A name \in Three : HeadOf(name) \in Heads
  BY DEF Three, HeadOf, Heads
<1>2. ASSUME NEW p \in Pages
      PROVE  Slab(p) \in Nodes /\ ObjectList(Slab(p)) \in Nodes
  BY DEF Nodes
<1>3. ASSUME NEW p \in Pages, NEW i \in 1..nrsize
      PROVE  Object(p, i) \in Nodes
  BY DEF Nodes, ObjectsOf
<1>4. Heads \subseteq Nodes
  BY DEF Nodes
<1>5. ASSUME NEW L, NEW name \in Three
      PROVE  Listed(L, name) \in SUBSET Nodes
  BY <1>2 DEF Listed
<1>6. ASSUME NEW p \in Pages, NEW S \in SUBSET (1..nrsize)
      PROVE  Loose(p, S) \in SUBSET Nodes
  BY <1>3 DEF Loose
<1> QED
  BY <1>1, <1>2, <1>3, <1>4, <1>5, <1>6

\* No two lists have a node in common.
LEMMA Separate ==
    /\ \A L : \A a, b \in Three : a # b =>
          (Listed(L, a) \cup {HeadOf(a)}) \cap (Listed(L, b) \cup {HeadOf(b)}) = {}
    /\ \A L : \A a \in Three : \A p \in Pages : \A S \in SUBSET (1..nrsize) :
          (Listed(L, a) \cup {HeadOf(a)}) \cap (Loose(p, S) \cup {ObjectList(Slab(p))}) = {}
    /\ \A p, q \in Pages : \A S, R \in SUBSET (1..nrsize) : p # q =>
          (Loose(p, S) \cup {ObjectList(Slab(p))})
             \cap (Loose(q, R) \cup {ObjectList(Slab(q))}) = {}
<1>1. ASSUME NEW L, NEW a \in Three, NEW b \in Three, a # b
      PROVE  (Listed(L, a) \cup {HeadOf(a)}) \cap (Listed(L, b) \cup {HeadOf(b)}) = {}
  <2>1. HeadOf(a) # HeadOf(b) /\ HeadOf(a) \in Heads /\ HeadOf(b) \in Heads
    BY <1>1 DEF Three, HeadOf, Heads, slabs_partial, slabs_full, slabs_free
  <2>2. \A x \in Listed(L, a) : x \notin Heads /\ x \notin Listed(L, b)
    BY <1>1, Apart DEF Listed
  <2>3. \A x \in Listed(L, b) : x \notin Heads
    BY Apart DEF Listed
  <2> QED
    BY <2>1, <2>2, <2>3
<1>2. ASSUME NEW L, NEW a \in Three, NEW p \in Pages, NEW S \in SUBSET (1..nrsize)
      PROVE  (Listed(L, a) \cup {HeadOf(a)})
                \cap (Loose(p, S) \cup {ObjectList(Slab(p))}) = {}
  <2>1. HeadOf(a) \in Heads
    BY NodesHave
  <2>2. \A x \in Listed(L, a) : x # ObjectList(Slab(p)) /\ x \notin Loose(p, S)
    BY Apart DEF Listed, Loose
  <2>3. ObjectList(Slab(p)) \notin Heads /\ \A x \in Loose(p, S) : x \notin Heads
    BY Apart DEF Loose
  <2> QED
    BY <2>1, <2>2, <2>3
<1>3. ASSUME NEW p \in Pages, NEW q \in Pages, NEW S \in SUBSET (1..nrsize),
             NEW R \in SUBSET (1..nrsize), p # q
      PROVE  (Loose(p, S) \cup {ObjectList(Slab(p))})
                \cap (Loose(q, R) \cup {ObjectList(Slab(q))}) = {}
  BY <1>3, Apart DEF Loose
<1> QED
  BY <1>1, <1>2, <1>3

\* A memory that was relinked is a memory.
LEMMA RelinkedMemory ==
    ASSUME NEW mm, Memory(mm), NEW k, Relinked(k, mm), Listing(k, Nodes)
    PROVE  Memory(k)
BY DEF Memory, Relinked

LEMMA OperationsRelink ==
    ASSUME NEW mm, Memory(mm)
    PROVE  /\ \A n : Relinked(list_init(mm, n), mm)
           /\ \A h, n : Relinked(list_add_head(mm, h, n), mm)
           /\ \A h, n : Relinked(list_add_tail(mm, h, n), mm)
           /\ \A n : Relinked(list_del_element(mm, n), mm)
<1>1. ASSUME NEW n
      PROVE  Relinked(list_init(mm, n), mm)
  BY DEF Relinked, list_init
<1>2. ASSUME NEW h, NEW n
      PROVE  Relinked(list_add_head(mm, h, n), mm)
  BY DEF Relinked, list_add_head
<1>3. ASSUME NEW h, NEW n
      PROVE  Relinked(list_add_tail(mm, h, n), mm)
  BY <1>2 DEF list_add_tail
<1>4. ASSUME NEW n
      PROVE  Relinked(list_del_element(mm, n), mm)
  BY DEF Relinked, list_del_element, list_del, list_init
<1> QED
  BY <1>1, <1>2, <1>3, <1>4

-----------------------------------------------------------------------------
(* What the operations of list.h do to the lists. *)

\* A slab is taken out of its list.
LEMMA SlabOut ==
    ASSUME NEW mm, NEW L, NEW O, NEW M, Shape(mm, L, O, M),
           NEW p \in Pages, L[p] \in Three
    PROVE  /\ Shape(list_del_element(mm, Slab(p)), [L EXCEPT ![p] = "none"], O, M)
           /\ Relinked(list_del_element(mm, Slab(p)), mm)
<1> DEFINE k == list_del_element(mm, Slab(p))
           Q == [L EXCEPT ![p] = "none"]
           a == L[p]
           S == Listed(L, a)
           head == HeadOf(a)
<1>1. /\ Memory(mm) /\ Listing(mm, Nodes) /\ head \in Nodes /\ S \in SUBSET Nodes
      /\ IsList(mm, head, S) /\ Slab(p) \in S /\ a \in Three
      /\ L \in [Pages -> Three \cup {"none"}]
  BY NodesHave DEF Shape, Memory, Listed
<1>2. Listing(k, Nodes) /\ Relinked(k, mm)
  BY <1>1, DelFields, OperationsRelink, Zenon
<1>3. Memory(k)
  BY <1>1, <1>2, RelinkedMemory
<1>4. Q \in [Pages -> Three \cup {"none"}] /\ Q[p] = "none" /\ "none" \notin Three
      /\ \A q \in Pages : q # p => Q[q] = L[q]
  BY <1>1 DEF Three
<1>5. /\ Listed(Q, a) = S \ {Slab(p)}
      /\ \A name \in Three : name # a => Listed(Q, name) = Listed(L, name)
  BY <1>1, <1>4, Apart DEF Listed
<1> HIDE DEF Q, a
<1>6. ASSUME NEW name \in Three
      PROVE  IsList(k, HeadOf(name), Listed(Q, name))
  <2>1. CASE name = a
    <3>1. IsList(k, head, S \ {Slab(p)})
      BY <1>1, ListDel, Zenon
    <3> QED
      BY <1>5, <2>1, <3>1
  <2>2. CASE name # a
    <3> DEFINE h == HeadOf(name)
               T == Listed(L, name)
    <3>1. /\ h \in Nodes /\ T \in SUBSET Nodes /\ IsList(mm, h, T)
          /\ (T \cup {h}) \cap (S \cup {head}) = {}
      BY <1>1, <2>2, NodesHave, Separate DEF Shape
    <3> HIDE DEF h, T, S, head
    <3>2. IsList(k, h, T)
      BY <1>1, <3>1, DelKeeps, Zenon
    <3> QED
      BY <1>5, <2>2, <3>2 DEF h, T
  <2> QED
    BY <2>1, <2>2
<1>7. ASSUME NEW q \in M
      PROVE  IsList(k, ObjectList(Slab(q)), Loose(q, O[q]))
  <2> DEFINE h == ObjectList(Slab(q))
             T == Loose(q, O[q])
  <2>1. /\ h \in Nodes /\ T \in SUBSET Nodes /\ IsList(mm, h, T)
        /\ (T \cup {h}) \cap (S \cup {head}) = {}
    <3>1. q \in Pages /\ O[q] \in SUBSET (1..nrsize) /\ IsList(mm, h, T)
      BY DEF Shape
    <3>2. (S \cup {head}) \cap (T \cup {h}) = {}
      BY <1>1, <3>1, Separate
    <3> QED
      BY <3>1, <3>2, NodesHave
  <2> HIDE DEF h, T, S, head
  <2>2. IsList(k, h, T)
    BY <1>1, <2>1, DelKeeps, Zenon
  <2> QED
    BY <2>2 DEF h, T
<1>8. \A q \in Pages \ M : Q[q] = "none" /\ O[q] = {}
  BY <1>4 DEF Shape
<1> HIDE DEF k
<1>9. Shape(k, Q, O, M)
  BY <1>3, <1>4, <1>6, <1>7, <1>8 DEF Shape
<1> QED
  BY <1>2, <1>9 DEF k, Q

\* One that is in no list is put last in a list.
LEMMA SlabInLast ==
    ASSUME NEW mm, NEW L, NEW O, NEW M, Shape(mm, L, O, M),
           NEW p \in M, L[p] = "none", NEW a \in Three
    PROVE  /\ Shape(list_add_tail(mm, HeadOf(a), Slab(p)), [L EXCEPT ![p] = a], O, M)
           /\ Relinked(list_add_tail(mm, HeadOf(a), Slab(p)), mm)
<1> DEFINE x == Slab(p)
           S == Listed(L, a)
           head == HeadOf(a)
           k == list_add_tail(mm, head, x)
           Q == [L EXCEPT ![p] = a]
<1>1. /\ Memory(mm) /\ Listing(mm, Nodes) /\ head \in Nodes /\ S \in SUBSET Nodes
      /\ IsList(mm, head, S) /\ x \in Nodes /\ p \in Pages
      /\ L \in [Pages -> Three \cup {"none"}]
  BY NodesHave DEF Shape, Memory
<1>2. x \notin S /\ x # head /\ "none" \notin Three
  BY <1>1, Apart, NodesHave DEF Listed, Three
<1>3. Q \in [Pages -> Three \cup {"none"}] /\ Q[p] = a
      /\ \A q \in Pages : q # p => Q[q] = L[q]
  BY <1>1
<1>4. /\ Listed(Q, a) = S \cup {x}
      /\ \A name \in Three : name # a => Listed(Q, name) = Listed(L, name)
  BY <1>1, <1>2, <1>3, Apart DEF Listed
<1> HIDE DEF x, S, head, Q
<1>5. Listing(k, Nodes)
  BY <1>1, AddTailFields, Zenon
<1>6. Relinked(k, mm)
  BY <1>1, OperationsRelink
<1>7. IsList(k, head, Listed(Q, a))
  BY <1>1, <1>2, <1>4, ListAddTail
<1>8. ASSUME NEW name \in Three, name # a
      PROVE  IsList(k, HeadOf(name), Listed(Q, name))
  <2> DEFINE h == HeadOf(name)
             T == Listed(L, name)
  <2>1. (T \cup {h}) \cap (S \cup {head, x}) = {}
    <3>1. (Listed(Q, name) \cup {h}) \cap (Listed(Q, a) \cup {head}) = {}
      BY <1>8, Separate DEF head
    <3> QED
      BY <1>4, <1>8, <3>1
  <2>2. h \in Nodes /\ T \in SUBSET Nodes /\ IsList(mm, h, T)
    BY NodesHave DEF Shape
  <2> HIDE DEF h, T
  <2>3. IsList(k, h, T)
    BY <1>1, <2>1, <2>2, AddTailKeeps
  <2> QED
    BY <1>4, <1>8, <2>3 DEF h, T
<1>9. ASSUME NEW q \in M
      PROVE  IsList(k, ObjectList(Slab(q)), Loose(q, O[q]))
  <2> DEFINE h == ObjectList(Slab(q))
             T == Loose(q, O[q])
  <2>1. q \in Pages /\ O[q] \in SUBSET (1..nrsize) /\ IsList(mm, h, T)
    BY DEF Shape
  <2>2. (T \cup {h}) \cap (S \cup {head, x}) = {}
    <3>1. (Listed(Q, a) \cup {head}) \cap (T \cup {h}) = {}
      BY <2>1, Separate DEF head
    <3> QED
      BY <1>4, <3>1
  <2>3. h \in Nodes /\ T \in SUBSET Nodes
    BY <2>1, NodesHave
  <2> HIDE DEF h, T
  <2>4. IsList(k, h, T)
    BY <1>1, <2>1, <2>2, <2>3, AddTailKeeps
  <2> QED
    BY <2>4 DEF h, T
<1>10. \A q \in Pages \ M : Q[q] = "none" /\ O[q] = {}
  BY <1>3 DEF Shape
<1>11. Memory(k)
  BY <1>1, <1>5, <1>6, RelinkedMemory
<1> HIDE DEF k
<1>12. \A name \in Three : IsList(k, HeadOf(name), Listed(Q, name))
  BY <1>7, <1>8 DEF head
<1>13. Shape(k, Q, O, M)
  BY <1>3, <1>9, <1>10, <1>11, <1>12 DEF Shape
<1> QED
  BY <1>6, <1>13 DEF k, Q, head, x

\* Or first.
LEMMA SlabInFirst ==
    ASSUME NEW mm, NEW L, NEW O, NEW M, Shape(mm, L, O, M),
           NEW p \in M, L[p] = "none", NEW a \in Three
    PROVE  /\ Shape(list_add_head(mm, HeadOf(a), Slab(p)), [L EXCEPT ![p] = a], O, M)
           /\ Relinked(list_add_head(mm, HeadOf(a), Slab(p)), mm)
<1> DEFINE x == Slab(p)
           S == Listed(L, a)
           head == HeadOf(a)
           k == list_add_head(mm, head, x)
           Q == [L EXCEPT ![p] = a]
<1>1. /\ Memory(mm) /\ Listing(mm, Nodes) /\ head \in Nodes /\ S \in SUBSET Nodes
      /\ IsList(mm, head, S) /\ x \in Nodes /\ p \in Pages
      /\ L \in [Pages -> Three \cup {"none"}]
  BY NodesHave DEF Shape, Memory
<1>2. x \notin S /\ x # head /\ "none" \notin Three
  BY <1>1, Apart, NodesHave DEF Listed, Three
<1>3. Q \in [Pages -> Three \cup {"none"}] /\ Q[p] = a
      /\ \A q \in Pages : q # p => Q[q] = L[q]
  BY <1>1
<1>4. /\ Listed(Q, a) = S \cup {x}
      /\ \A name \in Three : name # a => Listed(Q, name) = Listed(L, name)
  BY <1>1, <1>2, <1>3, Apart DEF Listed
<1> HIDE DEF x, S, head, Q
<1>5. Listing(k, Nodes)
  BY <1>1, AddHeadFields, Zenon
<1>6. Relinked(k, mm)
  BY <1>1, OperationsRelink
<1>7. IsList(k, head, Listed(Q, a))
  BY <1>1, <1>2, <1>4, ListAddHead
<1>8. ASSUME NEW name \in Three, name # a
      PROVE  IsList(k, HeadOf(name), Listed(Q, name))
  <2> DEFINE h == HeadOf(name)
             T == Listed(L, name)
  <2>1. (T \cup {h}) \cap (S \cup {head, x}) = {}
    <3>1. (Listed(Q, name) \cup {h}) \cap (Listed(Q, a) \cup {head}) = {}
      BY <1>8, Separate DEF head
    <3> QED
      BY <1>4, <1>8, <3>1
  <2>2. h \in Nodes /\ T \in SUBSET Nodes /\ IsList(mm, h, T)
    BY NodesHave DEF Shape
  <2> HIDE DEF h, T
  <2>3. IsList(k, h, T)
    BY <1>1, <2>1, <2>2, AddHeadKeeps
  <2> QED
    BY <1>4, <1>8, <2>3 DEF h, T
<1>9. ASSUME NEW q \in M
      PROVE  IsList(k, ObjectList(Slab(q)), Loose(q, O[q]))
  <2> DEFINE h == ObjectList(Slab(q))
             T == Loose(q, O[q])
  <2>1. q \in Pages /\ O[q] \in SUBSET (1..nrsize) /\ IsList(mm, h, T)
    BY DEF Shape
  <2>2. (T \cup {h}) \cap (S \cup {head, x}) = {}
    <3>1. (Listed(Q, a) \cup {head}) \cap (T \cup {h}) = {}
      BY <2>1, Separate DEF head
    <3> QED
      BY <1>4, <3>1
  <2>3. h \in Nodes /\ T \in SUBSET Nodes
    BY <2>1, NodesHave
  <2> HIDE DEF h, T
  <2>4. IsList(k, h, T)
    BY <1>1, <2>1, <2>2, <2>3, AddHeadKeeps
  <2> QED
    BY <2>4 DEF h, T
<1>10. \A q \in Pages \ M : Q[q] = "none" /\ O[q] = {}
  BY <1>3 DEF Shape
<1>11. Memory(k)
  BY <1>1, <1>5, <1>6, RelinkedMemory
<1> HIDE DEF k
<1>12. \A name \in Three : IsList(k, HeadOf(name), Listed(Q, name))
  BY <1>7, <1>8 DEF head
<1>13. Shape(k, Q, O, M)
  BY <1>3, <1>9, <1>10, <1>11, <1>12 DEF Shape
<1> QED
  BY <1>6, <1>13 DEF k, Q, head, x

\* A slab is moved to the end of a list.
LEMMA SlabMoved ==
    ASSUME NEW mm, NEW L, NEW O, NEW M, Shape(mm, L, O, M),
           NEW p \in Pages, L[p] \in Three, NEW a \in Three
    PROVE  /\ Shape(list_move(mm, HeadOf(a), Slab(p)), [L EXCEPT ![p] = a], O, M)
           /\ Relinked(list_move(mm, HeadOf(a), Slab(p)), mm)
<1> DEFINE k == list_del_element(mm, Slab(p))
           Q == [L EXCEPT ![p] = "none"]
<1>1. Shape(k, Q, O, M) /\ Relinked(k, mm)
  BY SlabOut
<1>2. p \in M /\ L \in [Pages -> Three \cup {"none"}]
  BY DEF Shape, Three
<1>3. Q[p] = "none" /\ [Q EXCEPT ![p] = a] = [L EXCEPT ![p] = a]
  BY <1>2
<1> HIDE DEF k, Q
<1> DEFINE j == list_add_tail(k, HeadOf(a), Slab(p))
<1>4. Shape(j, [Q EXCEPT ![p] = a], O, M) /\ Relinked(j, k)
  BY <1>1, <1>2, <1>3, SlabInLast
<1>5. j = list_move(mm, HeadOf(a), Slab(p))
  BY DEF list_move, k
<1> HIDE DEF j
<1>6. Relinked(j, mm)
  BY <1>1, <1>4 DEF Relinked
<1> QED
  BY <1>3, <1>4, <1>5, <1>6

\* An object is taken off its page's list.
LEMMA ObjectOut ==
    ASSUME NEW mm, NEW L, NEW O, NEW M, Shape(mm, L, O, M),
           NEW p \in M, NEW i \in O[p]
    PROVE  /\ Shape(list_del_element(mm, Object(p, i)), L, [O EXCEPT ![p] = @ \ {i}], M)
           /\ Relinked(list_del_element(mm, Object(p, i)), mm)
<1> DEFINE x == Object(p, i)
           S == Loose(p, O[p])
           head == ObjectList(Slab(p))
           k == list_del_element(mm, x)
           R == [O EXCEPT ![p] = @ \ {i}]
<1>1. /\ Memory(mm) /\ Listing(mm, Nodes) /\ p \in Pages /\ i \in 1..nrsize
      /\ O[p] \in SUBSET (1..nrsize) /\ O \in [Pages -> SUBSET (1..nrsize)]
      /\ IsList(mm, head, S)
  BY DEF Shape, Memory
<1>2. head \in Nodes /\ S \in SUBSET Nodes /\ x \in S
  BY <1>1, NodesHave DEF Loose
<1>3. /\ R \in [Pages -> SUBSET (1..nrsize)]
      /\ R[p] = O[p] \ {i} /\ \A q \in Pages : q # p => R[q] = O[q]
  BY <1>1
<1>4. Loose(p, R[p]) = S \ {x}
  <2>1. \A j \in O[p] : Object(p, j) = x => j = i
    BY <1>1, Apart
  <2> QED
    BY <1>3, <2>1 DEF Loose
<1> HIDE DEF x, S, head, R
<1>5. Listing(k, Nodes)
  BY <1>1, <1>2, DelFields, Zenon
<1>6. Relinked(k, mm)
  BY <1>1, OperationsRelink
<1>7. IsList(k, head, Loose(p, R[p]))
  BY <1>1, <1>2, <1>4, ListDel
<1>8. ASSUME NEW name \in Three
      PROVE  IsList(k, HeadOf(name), Listed(L, name))
  <2> DEFINE h == HeadOf(name)
             T == Listed(L, name)
  <2>1. (T \cup {h}) \cap (S \cup {head}) = {}
    BY <1>1, Separate DEF S, head
  <2>2. h \in Nodes /\ T \in SUBSET Nodes /\ IsList(mm, h, T)
    BY NodesHave DEF Shape
  <2> HIDE DEF h, T
  <2>3. IsList(k, h, T)
    BY <1>1, <1>2, <2>1, <2>2, DelKeeps
  <2> QED
    BY <2>3 DEF h, T
<1>9. ASSUME NEW q \in M, q # p
      PROVE  IsList(k, ObjectList(Slab(q)), Loose(q, R[q]))
  <2> DEFINE h == ObjectList(Slab(q))
             T == Loose(q, O[q])
  <2>1. q \in Pages /\ O[q] \in SUBSET (1..nrsize) /\ IsList(mm, h, T)
    BY DEF Shape
  <2>2. (T \cup {h}) \cap (S \cup {head}) = {}
    BY <1>1, <1>9, <2>1, Separate DEF S, head
  <2>3. h \in Nodes /\ T \in SUBSET Nodes
    BY <2>1, NodesHave
  <2> HIDE DEF h, T
  <2>4. IsList(k, h, T)
    BY <1>1, <1>2, <2>1, <2>2, <2>3, DelKeeps
  <2> QED
    BY <1>3, <1>9, <2>1, <2>4 DEF h, T
<1>10. \A q \in Pages \ M : L[q] = "none" /\ R[q] = {}
  BY <1>3 DEF Shape
<1>11. Memory(k)
  BY <1>1, <1>5, <1>6, RelinkedMemory
<1> HIDE DEF k
<1>12. \A q \in M : IsList(k, ObjectList(Slab(q)), Loose(q, R[q]))
  BY <1>7, <1>9 DEF head
<1>13. Shape(k, L, R, M)
  BY <1>3, <1>8, <1>10, <1>11, <1>12 DEF Shape
<1> QED
  BY <1>6, <1>13 DEF k, R, x

\* And put first on it.
LEMMA ObjectIn ==
    ASSUME NEW mm, NEW L, NEW O, NEW M, Shape(mm, L, O, M),
           NEW p \in M, NEW i \in 1..nrsize, i \notin O[p]
    PROVE  LET k == list_add_head(mm, ObjectList(Slab(p)), Object(p, i)) IN
           /\ Shape(k, L, [O EXCEPT ![p] = @ \cup {i}], M)
           /\ Relinked(k, mm)
<1> DEFINE x == Object(p, i)
           S == Loose(p, O[p])
           head == ObjectList(Slab(p))
           k == list_add_head(mm, head, x)
           R == [O EXCEPT ![p] = @ \cup {i}]
<1>1. /\ Memory(mm) /\ Listing(mm, Nodes) /\ p \in Pages
      /\ O[p] \in SUBSET (1..nrsize) /\ O \in [Pages -> SUBSET (1..nrsize)]
      /\ IsList(mm, head, S)
  BY DEF Shape, Memory
<1>2. head \in Nodes /\ S \in SUBSET Nodes /\ x \in Nodes
  BY <1>1, NodesHave
<1>3. /\ R \in [Pages -> SUBSET (1..nrsize)]
      /\ R[p] = O[p] \cup {i} /\ \A q \in Pages : q # p => R[q] = O[q]
  BY <1>1
<1>4. x \notin S /\ x # head /\ Loose(p, R[p]) = S \cup {x}
  <2>1. \A j \in O[p] : Object(p, j) # x
    BY <1>1, Apart
  <2>2. x # head
    BY <1>1, Apart
  <2> QED
    BY <1>3, <2>1, <2>2 DEF Loose
<1> HIDE DEF x, S, head, R
<1>5. Listing(k, Nodes)
  BY <1>1, <1>2, AddHeadFields, Zenon
<1>6. Relinked(k, mm)
  BY <1>1, OperationsRelink
<1>7. IsList(k, head, Loose(p, R[p]))
  BY <1>1, <1>2, <1>4, ListAddHead
<1>8. ASSUME NEW name \in Three
      PROVE  IsList(k, HeadOf(name), Listed(L, name))
  <2> DEFINE h == HeadOf(name)
             T == Listed(L, name)
  <2>1. (T \cup {h}) \cap (S \cup {head, x}) = {}
    <3>1. (T \cup {h}) \cap (Loose(p, R[p]) \cup {head}) = {}
      BY <1>1, <1>3, Separate DEF head
    <3> QED
      BY <1>4, <3>1
  <2>2. h \in Nodes /\ T \in SUBSET Nodes /\ IsList(mm, h, T)
    BY NodesHave DEF Shape
  <2> HIDE DEF h, T
  <2>3. IsList(k, h, T)
    BY <1>1, <1>2, <2>1, <2>2, AddHeadKeeps
  <2> QED
    BY <2>3 DEF h, T
<1>9. ASSUME NEW q \in M, q # p
      PROVE  IsList(k, ObjectList(Slab(q)), Loose(q, R[q]))
  <2> DEFINE h == ObjectList(Slab(q))
             T == Loose(q, O[q])
  <2>1. q \in Pages /\ O[q] \in SUBSET (1..nrsize) /\ IsList(mm, h, T)
    BY DEF Shape
  <2>2. (T \cup {h}) \cap (S \cup {head, x}) = {}
    <3>1. (T \cup {h}) \cap (Loose(p, R[p]) \cup {head}) = {}
      BY <1>1, <1>3, <1>9, <2>1, Separate DEF head
    <3> QED
      BY <1>4, <3>1
  <2>3. h \in Nodes /\ T \in SUBSET Nodes
    BY <2>1, NodesHave
  <2> HIDE DEF h, T
  <2>4. IsList(k, h, T)
    BY <1>1, <1>2, <2>1, <2>2, <2>3, AddHeadKeeps
  <2> QED
    BY <1>3, <1>9, <2>1, <2>4 DEF h, T
<1>10. \A q \in Pages \ M : L[q] = "none" /\ R[q] = {}
  BY <1>3 DEF Shape
<1>11. Memory(k)
  BY <1>1, <1>5, <1>6, RelinkedMemory
<1> HIDE DEF k
<1>12. \A q \in M : IsList(k, ObjectList(Slab(q)), Loose(q, R[q]))
  BY <1>7, <1>9 DEF head
<1>13. Shape(k, L, R, M)
  BY <1>3, <1>8, <1>10, <1>11, <1>12 DEF Shape
<1> QED
  BY <1>6, <1>13 DEF k, R, x, head

\* What is written outside the lists leaves them.
LEMMA ShapeKept ==
    ASSUME NEW mm, NEW L, NEW O, NEW M, Shape(mm, L, O, M), NEW k, Memory(k), NEW X,
           \A y \in Nodes : y \notin X => k.next[y] = mm.next[y] /\ k.prev[y] = mm.prev[y],
           \A name \in Three : X \cap (Listed(L, name) \cup {HeadOf(name)}) = {},
           \A p \in M : X \cap (Loose(p, O[p]) \cup {ObjectList(Slab(p))}) = {}
    PROVE  Shape(k, L, O, M)
<1>1. ASSUME NEW name \in Three
      PROVE  IsList(k, HeadOf(name), Listed(L, name))
  <2> DEFINE h == HeadOf(name)
             T == Listed(L, name)
  <2>1. h \in Nodes /\ T \in SUBSET Nodes /\ IsList(mm, h, T) /\ X \cap (T \cup {h}) = {}
    BY NodesHave DEF Shape
  <2> HIDE DEF h, T
  <2>2. \A y \in T \cup {h} : k.next[y] = mm.next[y] /\ k.prev[y] = mm.prev[y]
    BY <2>1
  <2>3. IsList(k, h, T)
    BY <2>1, <2>2, ListKept
  <2> QED
    BY <2>3 DEF h, T
<1>2. ASSUME NEW p \in M
      PROVE  IsList(k, ObjectList(Slab(p)), Loose(p, O[p]))
  <2> DEFINE h == ObjectList(Slab(p))
             T == Loose(p, O[p])
  <2>1. p \in Pages /\ O[p] \in SUBSET (1..nrsize) /\ IsList(mm, h, T)
    BY DEF Shape
  <2>2. h \in Nodes /\ T \in SUBSET Nodes /\ X \cap (T \cup {h}) = {}
    BY <2>1, NodesHave
  <2> HIDE DEF h, T
  <2>3. \A y \in T \cup {h} : k.next[y] = mm.next[y] /\ k.prev[y] = mm.prev[y]
    BY <2>2
  <2>4. IsList(k, h, T)
    BY <2>1, <2>3, ListKept
  <2> QED
    BY <2>4 DEF h, T
<1> QED
  BY <1>1, <1>2 DEF Shape

-----------------------------------------------------------------------------
(* A new page. *)

\* An object that is on no list is initialised, or cleared.
LEMMA ObjectWritten ==
    ASSUME NEW mm, NEW L, NEW O, NEW M, Shape(mm, L, O, M),
           NEW p \in M, NEW i \in 1..nrsize, i \notin O[p]
    PROVE  /\ Shape(list_init(mm, Object(p, i)), L, O, M)
           /\ Relinked(list_init(mm, Object(p, i)), mm)
           /\ Shape(Zeroed(mm, Object(p, i)), L, O, M)
           /\ Relinked(Zeroed(mm, Object(p, i)), mm)
<1> DEFINE x == Object(p, i)
           X == {x}
<1>1. /\ Memory(mm) /\ Listing(mm, Nodes) /\ p \in Pages
      /\ O \in [Pages -> SUBSET (1..nrsize)] /\ M \subseteq Pages
  BY DEF Shape, Memory
<1>2. x \in Nodes
  BY <1>1, NodesHave
<1>3. ASSUME NEW name \in Three
      PROVE  X \cap (Listed(L, name) \cup {HeadOf(name)}) = {}
  <2>1. (Listed(L, name) \cup {HeadOf(name)})
           \cap (Loose(p, {i}) \cup {ObjectList(Slab(p))}) = {}
    BY <1>1, Separate
  <2>2. x \in Loose(p, {i})
    BY DEF Loose
  <2> QED
    BY <2>1, <2>2
<1>4. ASSUME NEW q \in M
      PROVE  X \cap (Loose(q, O[q]) \cup {ObjectList(Slab(q))}) = {}
  <2>1. q \in Pages /\ O[q] \in SUBSET (1..nrsize)
    BY <1>1
  <2>2. x # ObjectList(Slab(q))
    BY <1>1, <2>1, Apart
  <2>3. \A j \in O[q] : Object(q, j) # x
    BY <1>1, <2>1, Apart
  <2> QED
    BY <2>2, <2>3 DEF Loose
<1> HIDE DEF x
<1>5. /\ Memory(list_init(mm, x)) /\ Relinked(list_init(mm, x), mm)
      /\ \A y \in Nodes : y \notin X => /\ list_init(mm, x).next[y] = mm.next[y]
                                       /\ list_init(mm, x).prev[y] = mm.prev[y]
  <2>1. Listing(list_init(mm, x), Nodes) /\ Relinked(list_init(mm, x), mm)
    BY <1>1, <1>2, FieldsInit, OperationsRelink, Zenon
  <2>2. Memory(list_init(mm, x))
    BY <1>1, <2>1, RelinkedMemory
  <2> QED
    BY <1>1, <1>2, <2>1, <2>2, FieldsInit
<1>6. /\ Memory(Zeroed(mm, x)) /\ Relinked(Zeroed(mm, x), mm)
      /\ \A y \in Nodes : y \notin X => /\ Zeroed(mm, x).next[y] = mm.next[y]
                                       /\ Zeroed(mm, x).prev[y] = mm.prev[y]
  <2>1. Listing(Zeroed(mm, x), Nodes) /\ Relinked(Zeroed(mm, x), mm)
    BY <1>1 DEF Listing, Zeroed, Relinked
  <2>2. Memory(Zeroed(mm, x))
    BY <1>1, <2>1, RelinkedMemory
  <2> QED
    BY <1>1, <2>1, <2>2 DEF Zeroed, Listing
<1> HIDE DEF X
<1>7. Shape(list_init(mm, x), L, O, M)
  BY <1>3, <1>4, <1>5, ShapeKept
<1>8. Shape(Zeroed(mm, x), L, O, M)
  BY <1>3, <1>4, <1>6, ShapeKept
<1> QED
  BY <1>5, <1>6, <1>7, <1>8 DEF x

\* What the loop does with one object.
Carve(mm, p, i) ==
    list_add_head(list_init(mm, Object(p, i)), ObjectList(Slab(p)), Object(p, i))

LEMMA ObjectCarved ==
    ASSUME NEW mm, NEW L, NEW O, NEW M, Shape(mm, L, O, M),
           NEW p \in M, NEW i \in 1..nrsize, i \notin O[p]
    PROVE  /\ Shape(Carve(mm, p, i), L, [O EXCEPT ![p] = @ \cup {i}], M)
           /\ Relinked(Carve(mm, p, i), mm)
<1> DEFINE k == list_init(mm, Object(p, i))
<1>1. Shape(k, L, O, M) /\ Relinked(k, mm)
  BY ObjectWritten
<1> HIDE DEF k
<1> DEFINE j == list_add_head(k, ObjectList(Slab(p)), Object(p, i))
<1>2. Shape(j, L, [O EXCEPT ![p] = @ \cup {i}], M) /\ Relinked(j, k)
  BY <1>1, ObjectIn
<1>3. j = Carve(mm, p, i)
  BY DEF Carve, k
<1> HIDE DEF j
<1>4. Relinked(j, mm)
  BY <1>1, <1>2 DEF Relinked
<1> QED
  BY <1>2, <1>3, <1>4

\* The memories that the carving loop goes through.
CarvePath(f, mm, p, bound) ==
    f = [k \in 0..bound |-> IF k = 0 THEN mm ELSE Carve(f[k - 1], p, k)]

LEMMA CarvePathExists ==
    ASSUME NEW mm, NEW p, NEW bound \in Nat
    PROVE  \E f : CarvePath(f, mm, p, bound)
<1> DEFINE T == {b \in Nat : \E f : CarvePath(f, mm, p, b)}
<1>1. 0 \in T
  <2> DEFINE f == [k \in 0..0 |-> mm]
  <2>1. \A k \in 0..0 : k = 0
    OBVIOUS
  <2>2. f = [k \in 0..0 |-> IF k = 0 THEN mm ELSE Carve(f[k - 1], p, k)]
    BY <2>1
  <2> HIDE DEF f
  <2>3. CarvePath(f, mm, p, 0)
    BY <2>2 DEF CarvePath
  <2> QED
    BY <2>3
<1>2. ASSUME NEW b \in T
      PROVE  b + 1 \in T
  <2>1. PICK f : CarvePath(f, mm, p, b)
    OBVIOUS
  <2>2. b \in Nat /\ b + 1 \in Nat /\ b \in 0..b
    OBVIOUS
  <2> DEFINE h == [k \in 0..(b + 1) |-> IF k = b + 1 THEN Carve(f[b], p, k) ELSE f[k]]
  <2>3. ASSUME NEW k \in 0..(b + 1)
        PROVE  h[k] = IF k = 0 THEN mm ELSE Carve(h[k - 1], p, k)
    <3>1. CASE k = b + 1
      <4>1. k # 0 /\ k - 1 = b /\ b \in 0..(b + 1) /\ b # b + 1
        BY <2>2, <3>1
      <4>2. h[k] = Carve(f[b], p, k) /\ h[b] = f[b]
        BY <3>1, <4>1
      <4> HIDE DEF h
      <4> QED
        BY <4>1, <4>2
    <3>2. CASE k # b + 1
      <4>1. k \in 0..b
        BY <2>2, <3>2
      <4>2. h[k] = f[k]
        BY <3>2
      <4>3. f[k] = IF k = 0 THEN mm ELSE Carve(f[k - 1], p, k)
        BY <2>1, <4>1 DEF CarvePath
      <4>4. k # 0 => k - 1 \in 0..(b + 1) /\ k - 1 # b + 1
        BY <2>2, <4>1
      <4>5. k # 0 => h[k - 1] = f[k - 1]
        BY <4>4
      <4> HIDE DEF h
      <4> QED
        BY <4>2, <4>3, <4>5
    <3> QED
      BY <3>1, <3>2
  <2>4. h = [k \in 0..(b + 1) |-> h[k]]
    OBVIOUS
  <2> HIDE DEF h
  <2>5. h = [k \in 0..(b + 1) |-> IF k = 0 THEN mm ELSE Carve(h[k - 1], p, k)]
    BY <2>3, <2>4
  <2>6. CarvePath(h, mm, p, b + 1)
    BY <2>5 DEF CarvePath
  <2> QED
    BY <2>2, <2>6
<1>3. bound \in T
  <2> HIDE DEF T
  <2>1. T \in SUBSET Nat
    BY DEF T
  <2> QED
    BY <1>1, <1>2, <2>1, AllNumbers
<1> QED
  BY <1>3


LEMMA CarvedShape ==
    ASSUME NEW mm, NEW L, NEW O, NEW M, Shape(mm, L, O, M), NEW p \in M, O[p] = {}
    PROVE  /\ Shape(Carved(mm, p), L, [O EXCEPT ![p] = 1..nrsize], M)
           /\ Relinked(Carved(mm, p), mm)
<1> DEFINE Rec(f) == f = [i \in 0..nrsize |->
                             IF i = 0 THEN mm
                             ELSE list_add_head(list_init(f[i - 1], Object(p, i)),
                                                ObjectList(Slab(p)), Object(p, i))]
           s == CHOOSE f : Rec(f)
<1>1. Carved(mm, p) = s[nrsize]
  BY Zenon DEF Carved
<1>2. nrsize \in Nat /\ O \in [Pages -> SUBSET (1..nrsize)] /\ p \in Pages
  BY Sizes DEF Shape
<1>3. \E f : Rec(f)
  <2>1. PICK f : CarvePath(f, mm, p, nrsize)
    BY <1>2, CarvePathExists
  <2>2. Rec(f)
    BY <2>1 DEF CarvePath, Carve
  <2> QED
    BY <2>2
<1>4. Rec(s)
  <2> HIDE DEF Rec
  <2> QED
    BY <1>3
<1> HIDE DEF s
<1>5. s[0] = mm /\ \A i \in 1..nrsize : s[i] = Carve(s[i - 1], p, i)
  <2>1. 0 \in 0..nrsize /\ \A i \in 1..nrsize : i \in 0..nrsize /\ i # 0
    BY <1>2
  <2> QED
    BY <1>4, <2>1 DEF Carve
<1> HIDE DEF Rec
<1> DEFINE Upto(i) == [O EXCEPT ![p] = 1..i]
           Good(i) == Shape(s[i], L, Upto(i), M) /\ Relinked(s[i], mm)
           T == {i \in Nat : i <= nrsize => Good(i)}
<1>6. 0 \in T
  <2>1. 1..0 = {}
    OBVIOUS
  <2>2. Upto(0) = O
    BY <1>2, <2>1
  <2>3. Relinked(mm, mm)
    BY DEF Relinked
  <2> HIDE DEF Upto
  <2> QED
    BY <1>5, <2>2, <2>3
<1>7. ASSUME NEW i \in T
      PROVE  i + 1 \in T
  <2>1. SUFFICES ASSUME i + 1 <= nrsize
                 PROVE  Good(i + 1)
    OBVIOUS
  <2>2. i \in Nat /\ i <= nrsize /\ i + 1 \in 1..nrsize /\ (i + 1) - 1 = i
    BY <1>2, <2>1
  <2>3. Good(i)
    BY <2>2
  <2>4. s[i + 1] = Carve(s[i], p, i + 1)
    BY <1>5, <2>2
  <2> DEFINE R == Upto(i)
             k == s[i]
             n == i + 1
  <2>5. R[p] = 1..i /\ n \notin R[p] /\ n \in 1..nrsize
    BY <1>2, <2>2
  <2>6. [R EXCEPT ![p] = @ \cup {n}] = Upto(n)
    <3>1. 1..n = (1..i) \cup {n}
      BY <2>2
    <3> QED
      BY <1>2, <3>1
  <2> HIDE DEF Upto, R, k, n
  <2>7. Shape(k, L, R, M) /\ Relinked(k, mm)
    BY <2>3 DEF R, k
  <2>8. /\ Shape(Carve(k, p, n), L, [R EXCEPT ![p] = @ \cup {n}], M)
        /\ Relinked(Carve(k, p, n), k)
    BY <2>5, <2>7, ObjectCarved
  <2>9. Relinked(Carve(k, p, n), mm)
    BY <2>7, <2>8 DEF Relinked
  <2>10. s[n] = Carve(k, p, n)
    BY <2>4 DEF k, n
  <2> QED
    BY <2>6, <2>8, <2>9, <2>10 DEF n
<1>8. nrsize \in T
  <2> HIDE DEF T
  <2>1. T \in SUBSET Nat
    BY DEF T
  <2> QED
    BY <1>2, <1>6, <1>7, <2>1, AllNumbers
<1>9. Good(nrsize)
  <2> HIDE DEF Good
  <2> QED
    BY <1>2, <1>8
<1> QED
  BY <1>1, <1>9

\* Counts that change leave the lists.
LEMMA CountsKept ==
    ASSUME NEW mm, NEW L, NEW O, NEW M, Shape(mm, L, O, M), NEW k, Memory(k),
           k.next = mm.next, k.prev = mm.prev
    PROVE  Shape(k, L, O, M)
<1>1. \A y \in Nodes : y \notin {} => k.next[y] = mm.next[y] /\ k.prev[y] = mm.prev[y]
  OBVIOUS
<1>2. \A name \in Three : {} \cap (Listed(L, name) \cup {HeadOf(name)}) = {}
  OBVIOUS
<1>3. \A p \in M : {} \cap (Loose(p, O[p]) \cup {ObjectList(Slab(p))}) = {}
  OBVIOUS
<1> QED
  BY <1>1, <1>2, <1>3, ShapeKept, Zenon

\* The header of a new page.
LEMMA HeaderNode ==
    ASSUME NEW mm, NEW L, NEW O, NEW M, Shape(mm, L, O, M), NEW p \in Pages, p \notin M,
           NEW x \in {Slab(p), ObjectList(Slab(p))}
    PROVE  /\ Shape(list_init(mm, x), L, O, M) /\ Relinked(list_init(mm, x), mm)
           /\ IsList(list_init(mm, x), x, {})
<1> DEFINE X == {x}
           k == list_init(mm, x)
<1>1. /\ Memory(mm) /\ Listing(mm, Nodes) /\ x \in Nodes /\ L[p] = "none"
      /\ O \in [Pages -> SUBSET (1..nrsize)] /\ M \subseteq Pages
  BY NodesHave DEF Shape, Memory
<1>2. ASSUME NEW name \in Three
      PROVE  X \cap (Listed(L, name) \cup {HeadOf(name)}) = {}
  <2>1. "none" \notin Three /\ HeadOf(name) \in Heads
    BY NodesHave DEF Three
  <2> QED
    BY <1>1, <2>1, Apart DEF Listed
<1>3. ASSUME NEW q \in M
      PROVE  X \cap (Loose(q, O[q]) \cup {ObjectList(Slab(q))}) = {}
  <2>1. q \in Pages /\ q # p /\ O[q] \in SUBSET (1..nrsize)
    BY <1>1
  <2>2. x # ObjectList(Slab(q)) /\ \A j \in O[q] : Object(q, j) # x
    BY <2>1, Apart
  <2> QED
    BY <2>2 DEF Loose
<1>4. /\ Listing(k, Nodes) /\ Relinked(k, mm)
      /\ \A y \in Nodes : y \notin X => k.next[y] = mm.next[y] /\ k.prev[y] = mm.prev[y]
  BY <1>1, FieldsInit, OperationsRelink
<1>5. Memory(k)
  BY <1>1, <1>4, RelinkedMemory
<1>6. IsList(k, x, {})
  BY <1>1, InitEmpty
<1> HIDE DEF X, k
<1>7. Shape(k, L, O, M)
  BY <1>2, <1>3, <1>4, <1>5, ShapeKept
<1> QED
  BY <1>4, <1>6, <1>7 DEF k

LEMMA HeaderMade ==
    ASSUME NEW mm, NEW L, NEW O, NEW M, Shape(mm, L, O, M), NEW p \in Pages, p \notin M
    PROVE  LET k == [list_init(list_init(mm, Slab(p)), ObjectList(Slab(p)))
                        EXCEPT !.used[Slab(p)] = 0]
           IN  /\ Shape(k, L, O, M \cup {p})
               /\ k.used = [mm.used EXCEPT ![Slab(p)] = 0]
               /\ k.nrfree = mm.nrfree /\ k.nralloc = mm.nralloc /\ k.nrpage = mm.nrpage
<1> DEFINE i == list_init(mm, Slab(p))
           j == list_init(i, ObjectList(Slab(p)))
           k == [j EXCEPT !.used[Slab(p)] = 0]
<1>1. Shape(i, L, O, M) /\ Relinked(i, mm)
  BY HeaderNode
<1> HIDE DEF i
<1>2. Shape(j, L, O, M) /\ Relinked(j, i) /\ IsList(j, ObjectList(Slab(p)), {})
  BY <1>1, HeaderNode
<1> HIDE DEF j
<1>3. Memory(j) /\ Memory(mm) /\ Memory(i)
  BY <1>1, <1>2 DEF Shape
<1>4. /\ DOMAIN k = DOMAIN j /\ k.next = j.next /\ k.prev = j.prev
      /\ k.used = [j.used EXCEPT ![Slab(p)] = 0]
      /\ k.nrfree = j.nrfree /\ k.nralloc = j.nralloc /\ k.nrpage = j.nrpage
  BY <1>3 DEF Memory
<1>5. k = [f \in DOMAIN k |-> k[f]]
  OBVIOUS
<1> HIDE DEF k
<1>6. Memory(k)
  BY <1>3, <1>4, <1>5 DEF Memory, Listing
<1>7. Shape(k, L, O, M)
  BY <1>2, <1>4, <1>6, CountsKept
<1>8. IsList(k, ObjectList(Slab(p)), {})
  BY <1>2, <1>4, ListKept
<1>9. Shape(k, L, O, M \cup {p})
  <2>1. O[p] = {} /\ Loose(p, {}) = {}
    BY <1>7 DEF Shape, Loose
  <2> QED
    BY <1>7, <1>8, <2>1 DEF Shape
<1>10. /\ j.used = mm.used /\ j.nrfree = mm.nrfree
       /\ j.nralloc = mm.nralloc /\ j.nrpage = mm.nrpage
  BY <1>1, <1>2, <1>3 DEF Relinked, Memory
<1> QED
  BY <1>4, <1>9, <1>10 DEF k, j, i

\* get_one_page makes a page of free objects and puts it first among the free.
LEMMA PageMade ==
    ASSUME NEW mm, NEW L, NEW O, NEW M, Shape(mm, L, O, M), NEW p \in Pages, p \notin M
    PROVE  LET k == get_one_page(mm, p)
           IN  /\ Shape(k, [L EXCEPT ![p] = "free"], [O EXCEPT ![p] = 1..nrsize], M \cup {p})
               /\ k.used = [mm.used EXCEPT ![Slab(p)] = 0]
               /\ k.nrfree = mm.nrfree + nrsize /\ k.nralloc = mm.nralloc
               /\ k.nrpage = mm.nrpage + 1
<1> DEFINE N == M \cup {p}
           header == [list_init(list_init(mm, Slab(p)), ObjectList(Slab(p)))
                         EXCEPT !.used[Slab(p)] = 0]
           c == Carved(header, p)
           a == list_add_head(c, slabs_free, Slab(p))
           k == [a EXCEPT !.nrpage = @ + 1, !.nrfree = @ + nrsize]
           R == [O EXCEPT ![p] = 1..nrsize]
           Q == [L EXCEPT ![p] = "free"]
<1>1. /\ Shape(header, L, O, N)
      /\ header.used = [mm.used EXCEPT ![Slab(p)] = 0] /\ header.nrfree = mm.nrfree
      /\ header.nralloc = mm.nralloc /\ header.nrpage = mm.nrpage
  BY HeaderMade
<1>2. O[p] = {} /\ p \in N /\ L[p] = "none"
  BY DEF Shape
<1> HIDE DEF header, N
<1>3. Shape(c, L, R, N) /\ Relinked(c, header)
  BY <1>1, <1>2, CarvedShape
<1> HIDE DEF c, R
<1>4. Shape(a, Q, R, N) /\ Relinked(a, c)
  <2>1. "free" \in Three /\ HeadOf("free") = slabs_free
    BY DEF Three, HeadOf
  <2> QED
    BY <1>2, <1>3, <2>1, SlabInFirst
<1> HIDE DEF a, Q
<1>5. Memory(a) /\ Memory(c) /\ Memory(header)
  BY <1>1, <1>3, <1>4 DEF Shape
<1>6. /\ DOMAIN k = DOMAIN a /\ k.next = a.next /\ k.prev = a.prev /\ k.used = a.used
      /\ k.nrfree = a.nrfree + nrsize /\ k.nralloc = a.nralloc /\ k.nrpage = a.nrpage + 1
  BY <1>5 DEF Memory
<1>7. k = [f \in DOMAIN k |-> k[f]]
  OBVIOUS
<1>8. get_one_page(mm, p) = k
  BY DEF get_one_page, k, a, c, header
<1> HIDE DEF k
<1>9. Memory(k)
  BY <1>5, <1>6, <1>7 DEF Memory, Listing
<1>10. Shape(k, Q, R, N)
  BY <1>4, <1>6, <1>9, CountsKept
<1>11. /\ a.used = header.used /\ a.nrfree = header.nrfree
       /\ a.nralloc = header.nralloc /\ a.nrpage = header.nrpage
  BY <1>3, <1>4, <1>5 DEF Relinked, Memory
<1> QED
  BY <1>1, <1>6, <1>8, <1>10, <1>11 DEF Q, R, N

-----------------------------------------------------------------------------
(* Empty pages. *)

\* As many slabs are in a list as pages are.
LEMMA SlabsCounted ==
    ASSUME NEW S \in SUBSET Pages
    PROVE  LET T == {Slab(p) : p \in S} IN
           /\ IsFiniteSet(S) /\ IsFiniteSet(T) /\ Cardinality(T) = Cardinality(S)
           /\ Cardinality(T) <= Cardinality(Pages) /\ Cardinality(Pages) \in Nat
           /\ Cardinality(S) \in Nat
<1> DEFINE T == {Slab(p) : p \in S}
           f == [p \in S |-> Slab(p)]
<1>1. IsFiniteSet(Pages) /\ IsFiniteSet(S) /\ Cardinality(S) <= Cardinality(Pages)
  BY Sizes, FS_Subset
<1>2. Cardinality(Pages) \in Nat /\ Cardinality(S) \in Nat
  BY <1>1, FS_CardinalityType
<1>3. f \in Surjection(S, T)
  BY DEF Surjection
<1>4. f \in Injection(S, T)
  BY Apart DEF Injection, IsInjective
<1> HIDE DEF f, T
<1>5. IsFiniteSet(T) /\ Cardinality(T) = Cardinality(S)
  BY <1>1, <1>3, <1>4, FS_Surjection
<1> QED
  BY <1>1, <1>2, <1>5 DEF T

\* The loops over the lists meet the slabs and the objects that are on them.
LEMMA SlabsVisited ==
    ASSUME NEW mm, NEW L, NEW O, NEW M, Shape(mm, L, O, M), NEW name \in Three
    PROVE  Visited(mm, HeadOf(name), Cardinality(Pages)) = Listed(L, name)
<1> DEFINE S == {p \in Pages : L[p] = name}
<1>1. S \in SUBSET Pages /\ Listed(L, name) = {Slab(p) : p \in S}
  BY DEF Listed
<1> HIDE DEF S
<1>2. /\ IsFiniteSet(Listed(L, name)) /\ Cardinality(Listed(L, name)) <= Cardinality(Pages)
      /\ Cardinality(Pages) \in Nat
  BY <1>1, SlabsCounted
<1>3. IsList(mm, HeadOf(name), Listed(L, name))
  BY DEF Shape
<1> QED
  BY <1>2, <1>3, ListVisited, Zenon

LEMMA ObjectsVisited ==
    ASSUME NEW mm, NEW L, NEW O, NEW M, Shape(mm, L, O, M), NEW p \in M
    PROVE  /\ Visited(mm, ObjectList(Slab(p)), nrsize) = Loose(p, O[p])
           /\ O[p] = {i \in 1..nrsize : Object(p, i) \in Loose(p, O[p])}
<1>1. /\ p \in Pages /\ O[p] \in SUBSET (1..nrsize) /\ nrsize \in Nat
      /\ IsList(mm, ObjectList(Slab(p)), Loose(p, O[p]))
  BY Sizes DEF Shape
<1> DEFINE S == O[p]
           T == Loose(p, S)
           f == [i \in S |-> Object(p, i)]
<1>2. IsFiniteSet(1..nrsize) /\ Cardinality(1..nrsize) = nrsize
  <2>1. 1 \in Int /\ nrsize \in Int /\ nrsize > 0
    BY <1>1, Sizes
  <2>2. IsFiniteSet(1..nrsize)
        /\ Cardinality(1..nrsize) = IF 1 > nrsize THEN 0 ELSE nrsize - 1 + 1
    BY <2>1, FS_Interval, Zenon
  <2> QED
    BY <2>1, <2>2
<1>3. IsFiniteSet(S) /\ Cardinality(S) <= nrsize
  BY <1>1, <1>2, FS_Subset
<1>4. f \in Surjection(S, T)
  BY DEF Surjection, Loose
<1>5. S = {i \in 1..nrsize : Object(p, i) \in T}
  BY <1>1, Apart DEF Loose
<1> HIDE DEF f, T, S
<1>6. IsFiniteSet(T) /\ Cardinality(T) <= Cardinality(S)
  BY <1>3, <1>4, FS_Surjection
<1>7. Cardinality(T) <= nrsize
  <2>1. Cardinality(T) \in Nat /\ Cardinality(S) \in Nat
    BY <1>3, <1>6, FS_CardinalityType
  <2> QED
    BY <1>1, <1>3, <1>6, <2>1
<1>8. IsList(mm, ObjectList(Slab(p)), T)
  BY <1>1 DEF S, T
<1>9. Visited(mm, ObjectList(Slab(p)), nrsize) = T
  BY <1>1, <1>6, <1>7, <1>8, ListVisited, Zenon
<1> QED
  BY <1>5, <1>9 DEF S, T

\* The first slab of the free list is released.
LEMMA OneReleased ==
    ASSUME NEW mm, NEW L, NEW O, NEW M, Shape(mm, L, O, M),
           \E p \in Pages : L[p] = "free",
           \A p \in Pages : L[p] = "free" => mm.used[Slab(p)] = 0
    PROVE  LET k == release_one_page(mm, mm.next[slabs_free])
           IN  \E p \in Pages :
                  /\ L[p] = "free" /\ Shape(k, [L EXCEPT ![p] = "none"], O, M)
                  /\ k.used = mm.used /\ k.nralloc = mm.nralloc
                  /\ k.nrfree = mm.nrfree - nrsize /\ k.nrpage = mm.nrpage - 1
<1>1. "free" \in Three /\ HeadOf("free") = slabs_free
  BY DEF Three, HeadOf
<1>2. IsList(mm, slabs_free, Listed(L, "free")) /\ Listed(L, "free") # {}
  BY <1>1 DEF Shape, Listed
<1>3. mm.next[slabs_free] \in Listed(L, "free")
  BY <1>2, FirstOfList
<1>4. PICK p \in Pages : L[p] = "free" /\ mm.next[slabs_free] = Slab(p)
  BY <1>3 DEF Listed
<1> DEFINE j == list_del_element(mm, Slab(p))
           k == [j EXCEPT !.nrpage = @ - 1, !.nrfree = @ - nrsize]
           Q == [L EXCEPT ![p] = "none"]
<1>5. release_one_page(mm, mm.next[slabs_free]) = k
  BY <1>4 DEF release_one_page
<1>6. Shape(j, Q, O, M) /\ Relinked(j, mm)
  BY <1>1, <1>4, SlabOut
<1> HIDE DEF j, Q
<1>7. Memory(j) /\ Memory(mm)
  BY <1>6 DEF Shape
<1>8. /\ DOMAIN k = DOMAIN j /\ k.next = j.next /\ k.prev = j.prev /\ k.used = j.used
      /\ k.nrfree = j.nrfree - nrsize /\ k.nralloc = j.nralloc /\ k.nrpage = j.nrpage - 1
  BY <1>7 DEF Memory
<1>9. k = [f \in DOMAIN k |-> k[f]]
  OBVIOUS
<1> HIDE DEF k
<1>10. Memory(k)
  BY <1>7, <1>8, <1>9 DEF Memory, Listing
<1>11. Shape(k, Q, O, M)
  BY <1>6, <1>8, <1>10, CountsKept
<1>12. /\ j.used = mm.used /\ j.nrfree = mm.nrfree
       /\ j.nralloc = mm.nralloc /\ j.nrpage = mm.nrpage
  BY <1>6, <1>7 DEF Relinked, Memory
<1> QED
  BY <1>4, <1>5, <1>8, <1>11, <1>12 DEF Q

\* The memories that releasing the first slabs goes through.
ReleasePath(f, mm, bound) ==
    f = [k \in 0..bound |-> IF k = 0 THEN mm ELSE release_one_page(f[k - 1], f[k - 1].next[slabs_free])]

LEMMA ReleasePathExists ==
    ASSUME NEW mm, NEW bound \in Nat
    PROVE  \E f : ReleasePath(f, mm, bound)
<1> DEFINE T == {b \in Nat : \E f : ReleasePath(f, mm, b)}
<1>1. 0 \in T
  <2> DEFINE f == [k \in 0..0 |-> mm]
  <2>1. \A k \in 0..0 : k = 0
    OBVIOUS
  <2>2. f = [k \in 0..0 |-> IF k = 0 THEN mm ELSE release_one_page(f[k - 1], f[k - 1].next[slabs_free])]
    BY <2>1
  <2> HIDE DEF f
  <2>3. ReleasePath(f, mm, 0)
    BY <2>2 DEF ReleasePath
  <2> QED
    BY <2>3
<1>2. ASSUME NEW b \in T
      PROVE  b + 1 \in T
  <2>1. PICK f : ReleasePath(f, mm, b)
    OBVIOUS
  <2>2. b \in Nat /\ b + 1 \in Nat /\ b \in 0..b
    OBVIOUS
  <2> DEFINE h == [k \in 0..(b + 1) |-> IF k = b + 1 THEN release_one_page(f[b], f[b].next[slabs_free]) ELSE f[k]]
  <2>3. ASSUME NEW k \in 0..(b + 1)
        PROVE  h[k] = IF k = 0 THEN mm ELSE release_one_page(h[k - 1], h[k - 1].next[slabs_free])
    <3>1. CASE k = b + 1
      <4>1. k # 0 /\ k - 1 = b /\ b \in 0..(b + 1) /\ b # b + 1
        BY <2>2, <3>1
      <4>2. h[k] = release_one_page(f[b], f[b].next[slabs_free]) /\ h[b] = f[b]
        BY <3>1, <4>1
      <4> HIDE DEF h
      <4> QED
        BY <4>1, <4>2
    <3>2. CASE k # b + 1
      <4>1. k \in 0..b
        BY <2>2, <3>2
      <4>2. h[k] = f[k]
        BY <3>2
      <4>3. f[k] = IF k = 0 THEN mm ELSE release_one_page(f[k - 1], f[k - 1].next[slabs_free])
        BY <2>1, <4>1 DEF ReleasePath
      <4>4. k # 0 => k - 1 \in 0..(b + 1) /\ k - 1 # b + 1
        BY <2>2, <4>1
      <4>5. k # 0 => h[k - 1] = f[k - 1]
        BY <4>4
      <4> HIDE DEF h
      <4> QED
        BY <4>2, <4>3, <4>5
    <3> QED
      BY <3>1, <3>2
  <2>4. h = [k \in 0..(b + 1) |-> h[k]]
    OBVIOUS
  <2> HIDE DEF h
  <2>5. h = [k \in 0..(b + 1) |-> IF k = 0 THEN mm ELSE release_one_page(h[k - 1], h[k - 1].next[slabs_free])]
    BY <2>3, <2>4
  <2>6. ReleasePath(h, mm, b + 1)
    BY <2>5 DEF ReleasePath
  <2> QED
    BY <2>2, <2>6
<1>3. bound \in T
  <2> HIDE DEF T
  <2>1. T \in SUBSET Nat
    BY DEF T
  <2> QED
    BY <1>1, <1>2, <2>1, AllNumbers
<1> QED
  BY <1>3


\* L without the pages in gone.
Without(L, gone) == [p \in Pages |-> IF p \in gone THEN "none" ELSE L[p]]

\* So many slabs are released: which ones, the list says.
LEMMA FirstReleased ==
    ASSUME NEW mm, NEW L, NEW O, NEW M, Shape(mm, L, O, M), NEW count \in Nat,
           count <= Cardinality({p \in Pages : L[p] = "free"}),
           \A p \in Pages : L[p] = "free" => mm.used[Slab(p)] = 0,
           mm.nrfree \in Int, mm.nrpage \in Int
    PROVE  LET k == ReleasedFirst(mm, count)
           IN  \E gone \in SUBSET {p \in Pages : L[p] = "free"} :
                  /\ Cardinality(gone) = count
                  /\ Shape(k, Without(L, gone), O, M)
                  /\ k.used = mm.used /\ k.nralloc = mm.nralloc
                  /\ k.nrfree = mm.nrfree - nrsize * count
                  /\ k.nrpage = mm.nrpage - count
<1> DEFINE Rec(f) == f = [k \in 0..count |->
                             IF k = 0 THEN mm
                             ELSE release_one_page(f[k - 1], f[k - 1].next[slabs_free])]
           s == CHOOSE f : Rec(f)
           E == {p \in Pages : L[p] = "free"}
<1>1. ReleasedFirst(mm, count) = s[count]
  BY Zenon DEF ReleasedFirst
<1>2. nrsize \in Nat /\ L \in [Pages -> Three \cup {"none"}]
  BY Sizes DEF Shape
<1>3. \E f : Rec(f)
  <2>1. PICK f : ReleasePath(f, mm, count)
    BY ReleasePathExists
  <2>2. Rec(f)
    BY <2>1 DEF ReleasePath
  <2> QED
    BY <2>2
<1>4. Rec(s)
  <2> HIDE DEF Rec
  <2> QED
    BY <1>3
<1> HIDE DEF s
<1>5. s[0] = mm /\ \A k \in 1..count :
                      s[k] = release_one_page(s[k - 1], s[k - 1].next[slabs_free])
  <2>1. 0 \in 0..count /\ \A k \in 1..count : k \in 0..count /\ k # 0
    OBVIOUS
  <2> QED
    BY <1>4, <2>1
<1> HIDE DEF Rec
<1> DEFINE Gone(k, gone) == /\ Cardinality(gone) = k
                            /\ Shape(s[k], Without(L, gone), O, M)
                            /\ s[k].used = mm.used /\ s[k].nralloc = mm.nralloc
                            /\ s[k].nrfree = mm.nrfree - nrsize * k
                            /\ s[k].nrpage = mm.nrpage - k
           Good(k) == \E gone \in SUBSET E : Gone(k, gone)
           T == {k \in Nat : k <= count => Good(k)}
<1>6. 0 \in T
  <2>1. Without(L, {}) = L
    BY <1>2 DEF Without
  <2>2. Cardinality({}) = 0
    BY FS_EmptySet
  <2>3. mm.nrfree - nrsize * 0 = mm.nrfree /\ mm.nrpage - 0 = mm.nrpage
    BY <1>2
  <2>4. Gone(0, {})
    BY <1>5, <2>1, <2>2, <2>3
  <2> HIDE DEF Gone
  <2> QED
    BY <2>4
<1>7. ASSUME NEW k \in T
      PROVE  k + 1 \in T
  <2>1. SUFFICES ASSUME k + 1 <= count
                 PROVE  Good(k + 1)
    OBVIOUS
  <2>2. k \in Nat /\ k <= count /\ k + 1 \in 1..count /\ (k + 1) - 1 = k
    BY <2>1
  <2>3. PICK gone \in SUBSET E : Gone(k, gone)
    BY <2>2
  <2> DEFINE Q == Without(L, gone)
             j == s[k]
             n == s[k + 1]
  <2>4. n = release_one_page(j, j.next[slabs_free])
    BY <1>5, <2>2
  <2>5. /\ Cardinality(gone) = k /\ Shape(j, Q, O, M)
        /\ j.used = mm.used /\ j.nralloc = mm.nralloc
        /\ j.nrfree = mm.nrfree - nrsize * k /\ j.nrpage = mm.nrpage - k
    BY <2>3
  <2>6. \E p \in Pages : p \in E /\ p \notin gone
    <3>1. IsFiniteSet(Pages) /\ E \in SUBSET Pages
      BY Sizes
    <3>2. IsFiniteSet(E)
      BY <3>1, FS_Subset
    <3>3. Cardinality(E) \in Nat
      BY <3>2, FS_CardinalityType
    <3>4. count <= Cardinality(E)
      OBVIOUS
    <3> HIDE DEF E
    <3>5. gone # E
      BY <2>1, <2>2, <2>5, <3>3, <3>4
    <3> QED
      BY <3>1, <3>5
  <2>7. \A p \in Pages : Q[p] = "free" <=> p \in E /\ p \notin gone
    BY DEF Without
  <2>8. /\ \E p \in Pages : Q[p] = "free"
        /\ \A p \in Pages : Q[p] = "free" => j.used[Slab(p)] = 0
    BY <2>5, <2>6, <2>7
  <2> HIDE DEF j, n, Q
  <2>9. PICK p \in Pages :
               /\ Q[p] = "free" /\ Shape(n, [Q EXCEPT ![p] = "none"], O, M)
               /\ n.used = j.used /\ n.nralloc = j.nralloc
               /\ n.nrfree = j.nrfree - nrsize /\ n.nrpage = j.nrpage - 1
    BY <2>4, <2>5, <2>8, OneReleased
  <2>10. [Q EXCEPT ![p] = "none"] = Without(L, gone \cup {p})
    BY DEF Q, Without
  <2>11. gone \cup {p} \in SUBSET E /\ p \notin gone
    BY <2>7, <2>9
  <2>12. Cardinality(gone \cup {p}) = k + 1
    <3>1. IsFiniteSet(gone)
      BY Sizes, FS_Subset
    <3> QED
      BY <2>5, <2>11, <3>1, FS_AddElement
  <2>13. /\ n.nrfree = mm.nrfree - nrsize * (k + 1)
         /\ n.nrpage = mm.nrpage - (k + 1)
    <3>1. nrsize * (k + 1) = nrsize * k + nrsize /\ nrsize * k \in Int
      BY <1>2, <2>2
    <3> QED
      BY <1>2, <2>2, <2>5, <2>9, <3>1
  <2>14. Gone(k + 1, gone \cup {p})
    BY <2>5, <2>9, <2>10, <2>12, <2>13 DEF n
  <2> HIDE DEF Gone, E
  <2> QED
    BY <2>11, <2>14
<1>8. count \in T
  <2> HIDE DEF T
  <2>1. T \in SUBSET Nat
    BY DEF T
  <2> QED
    BY <1>6, <1>7, <2>1, AllNumbers
<1>9. Good(count)
  <2> HIDE DEF Good
  <2> QED
    BY <1>8
<1> QED
  BY <1>1, <1>9

-----------------------------------------------------------------------------
(* umem_cache_alloc. *)

\* An object of a slab is given to the program.
Served(mm, L, O, M, p, i) ==
    /\ Shape(m', [L EXCEPT ![p] = IF mm.used[Slab(p)] + 1 = nrsize THEN "full"
                                  ELSE "partial"],
             [O EXCEPT ![p] = @ \ {i}], M)
    /\ m'.used = [mm.used EXCEPT ![Slab(p)] = @ + 1]
    /\ m'.nralloc = mm.nralloc + 1 /\ m'.nrfree = mm.nrfree - 1
    /\ m'.nrpage = mm.nrpage /\ held' = held \cup {Object(p, i)}

\* __alloc_node takes an object of a partial slab that is not full.
LEMMA NodeAllocated ==
    ASSUME NEW mm, NEW L, NEW O, NEW M, Shape(mm, L, O, M),
           NEW p \in Pages, L[p] = "partial", O[p] # {},
           mm.used[Slab(p)] \in Nat, mm.used[Slab(p)] # nrsize,
           alloc_node(mm, Slab(p))
    PROVE  \E i \in O[p] : Served(mm, L, O, M, p, i)
<1> DEFINE slab == Slab(p)
           u == mm.used[slab]
           part == IF u = 0 THEN list_move(mm, slabs_partial, slab) ELSE mm
           first == part.next[ObjectList(slab)]
           out == list_del_element(part, first)
           taken == [out EXCEPT !.used[slab] = @ + 1, !.nralloc = @ + 1, !.nrfree = @ - 1]
           filled == Filled(taken, slab)
<1>1. m' = Zeroed(filled, first) /\ held' = held \cup {first}
  BY DEF alloc_node
<1>2. /\ p \in M /\ "partial" \in Three /\ HeadOf("partial") = slabs_partial
      /\ "full" \in Three /\ HeadOf("full") = slabs_full
      /\ L \in [Pages -> Three \cup {"none"}] /\ O \in [Pages -> SUBSET (1..nrsize)]
  BY DEF Shape, Three, HeadOf
<1>3. Shape(part, L, O, M) /\ Relinked(part, mm)
  <2>1. CASE u = 0
    <3>1. [L EXCEPT ![p] = "partial"] = L
      BY <1>2
    <3>2. /\ Shape(list_move(mm, slabs_partial, slab), [L EXCEPT ![p] = "partial"], O, M)
          /\ Relinked(list_move(mm, slabs_partial, slab), mm)
      BY <1>2, SlabMoved
    <3> QED
      BY <2>1, <3>1, <3>2
  <2>2. CASE u # 0
    <3>1. Relinked(mm, mm)
      BY DEF Relinked
    <3> QED
      BY <2>2, <3>1
  <2> QED
    BY <2>1, <2>2
<1> HIDE DEF part
<1>4. PICK i \in O[p] : first = Object(p, i)
  <2>1. IsList(part, ObjectList(slab), Loose(p, O[p])) /\ Loose(p, O[p]) # {}
    BY <1>2, <1>3 DEF Shape, Loose
  <2>2. first \in Loose(p, O[p])
    BY <2>1, FirstOfList
  <2> QED
    BY <2>2 DEF Loose
<1> HIDE DEF first
<1> DEFINE R == [O EXCEPT ![p] = @ \ {i}]
<1>5. Shape(out, L, R, M) /\ Relinked(out, part)
  BY <1>2, <1>3, <1>4, ObjectOut
<1>6. i \in 1..nrsize /\ i \notin R[p]
  BY <1>2
<1> HIDE DEF out, R
<1>7. Memory(out) /\ Memory(part) /\ Memory(mm)
  BY <1>3, <1>5 DEF Shape
<1>8. /\ out.used = mm.used /\ out.nrfree = mm.nrfree
      /\ out.nralloc = mm.nralloc /\ out.nrpage = mm.nrpage
  BY <1>3, <1>5, <1>7 DEF Relinked, Memory
<1>9. /\ DOMAIN taken = DOMAIN out /\ taken.next = out.next /\ taken.prev = out.prev
      /\ taken.used = [mm.used EXCEPT ![slab] = @ + 1]
      /\ taken.nrfree = mm.nrfree - 1 /\ taken.nralloc = mm.nralloc + 1
      /\ taken.nrpage = mm.nrpage
  <2>1. {"next", "prev", "used", "nrfree", "nralloc", "nrpage"} \subseteq DOMAIN out
    BY <1>7 DEF Memory, Listing
  <2> HIDE DEF slab, u
  <2>2. /\ DOMAIN taken = DOMAIN out /\ taken.next = out.next /\ taken.prev = out.prev
        /\ taken.nrfree = out.nrfree - 1 /\ taken.nralloc = out.nralloc + 1
        /\ taken.nrpage = out.nrpage
    BY <2>1
  <2>3. taken.used = [out.used EXCEPT ![slab] = @ + 1]
    BY <2>1
  <2> HIDE DEF taken
  <2> QED
    BY <1>8, <2>2, <2>3
<1>10. taken = [f \in DOMAIN taken |-> taken[f]]
  OBVIOUS
<1> HIDE DEF taken
<1>11. Memory(taken)
  BY <1>7, <1>9, <1>10 DEF Memory, Listing
<1>12. Shape(taken, L, R, M)
  BY <1>5, <1>9, <1>11, CountsKept
<1>13. taken.used[slab] = u + 1
  <2>1. slab \in DOMAIN mm.used
    BY <1>7 DEF Memory
  <2> QED
    BY <1>9, <2>1
<1> DEFINE Q == [L EXCEPT ![p] = IF u + 1 = nrsize THEN "full" ELSE "partial"]
<1>14. Shape(filled, Q, R, M) /\ Relinked(filled, taken)
  <2>1. CASE u + 1 = nrsize
    <3>1. filled = list_move(taken, slabs_full, slab) /\ Q = [L EXCEPT ![p] = "full"]
      BY <1>13, <2>1 DEF Filled
    <3>2. /\ Shape(list_move(taken, slabs_full, slab), [L EXCEPT ![p] = "full"], R, M)
          /\ Relinked(list_move(taken, slabs_full, slab), taken)
      BY <1>2, <1>12, SlabMoved
    <3> QED
      BY <3>1, <3>2
  <2>2. CASE u + 1 # nrsize
    <3>1. filled = taken /\ Q = L
      BY <1>2, <1>13, <2>2 DEF Filled
    <3>2. Relinked(taken, taken)
      BY DEF Relinked
    <3> QED
      BY <1>12, <3>1, <3>2
  <2> QED
    BY <2>1, <2>2
<1> HIDE DEF filled, Q
<1>15. Shape(Zeroed(filled, first), Q, R, M) /\ Relinked(Zeroed(filled, first), filled)
  BY <1>2, <1>4, <1>6, <1>14, ObjectWritten
<1>16. Shape(m', Q, R, M) /\ Relinked(m', filled)
  BY <1>1, <1>15
<1>17. /\ m'.used = taken.used /\ m'.nrfree = taken.nrfree
       /\ m'.nralloc = taken.nralloc /\ m'.nrpage = taken.nrpage
  BY <1>14, <1>16, <1>11 DEF Relinked, Memory
<1>18. held' = held \cup {Object(p, i)}
  BY <1>1, <1>4
<1> QED
  BY <1>4, <1>9, <1>16, <1>17, <1>18 DEF Q, R, Served

\* What alloc relies on of the slabs in the lists.
Ready(mm, L, O) ==
    \A p \in Pages :
        /\ L[p] = "partial" => /\ mm.used[Slab(p)] \in Nat /\ mm.used[Slab(p)] # nrsize
                               /\ O[p] # {}
        /\ L[p] = "free" => mm.used[Slab(p)] = 0 /\ O[p] # {}

\* The object is one of a partial slab, or of a free one if there is none.
Chosen(mm, L, O, M, p, i) ==
    /\ \/ L[p] = "partial"
       \/ L[p] = "free" /\ \A q \in Pages : L[q] # "partial"
    /\ Served(mm, L, O, M, p, i)

LEMMA ListsServed ==
    ASSUME NEW mm, NEW L, NEW O, NEW M, Shape(mm, L, O, M), Ready(mm, L, O), FromLists(mm)
    PROVE  \E p \in Pages : \E i \in O[p] : Chosen(mm, L, O, M, p, i)
<1>1. /\ "partial" \in Three /\ HeadOf("partial") = slabs_partial
      /\ "free" \in Three /\ HeadOf("free") = slabs_free
      /\ L \in [Pages -> Three \cup {"none"}] /\ Memory(mm)
  BY DEF Shape, Three, HeadOf
<1>2. /\ IsList(mm, slabs_partial, Listed(L, "partial"))
      /\ IsList(mm, slabs_free, Listed(L, "free"))
  BY <1>1 DEF Shape
<1>3. CASE ~list_empty(mm, slabs_partial)
  <2>1. alloc_node(mm, mm.next[slabs_partial])
    BY <1>3 DEF FromLists
  <2>2. mm.next[slabs_partial] \in Listed(L, "partial")
    BY <1>2, <1>3, FirstOfList
  <2>3. PICK p \in Pages : L[p] = "partial" /\ mm.next[slabs_partial] = Slab(p)
    BY <2>2 DEF Listed
  <2>4. alloc_node(mm, Slab(p))
    BY <2>1, <2>3
  <2>5. mm.used[Slab(p)] \in Nat /\ mm.used[Slab(p)] # nrsize /\ O[p] # {}
    BY <2>3 DEF Ready
  <2>6. \E i \in O[p] : Served(mm, L, O, M, p, i)
    BY <2>3, <2>4, <2>5, NodeAllocated
  <2> QED
    BY <2>3, <2>6 DEF Chosen
<1>4. CASE list_empty(mm, slabs_partial)
  <2> DEFINE moved == list_move(mm, slabs_partial, mm.next[slabs_free])
  <2>1. ~list_empty(mm, slabs_free) /\ alloc_node(moved, moved.next[slabs_partial])
    BY <1>4 DEF FromLists
  <2>2. mm.next[slabs_free] \in Listed(L, "free") /\ Listed(L, "partial") = {}
    BY <1>2, <1>4, <2>1, FirstOfList
  <2>3. PICK p \in Pages : L[p] = "free" /\ mm.next[slabs_free] = Slab(p)
    BY <2>2 DEF Listed
  <2>4. \A q \in Pages : L[q] # "partial"
    BY <2>2 DEF Listed
  <2> DEFINE Q == [L EXCEPT ![p] = "partial"]
  <2>5. Shape(moved, Q, O, M) /\ Relinked(moved, mm)
    BY <1>1, <2>3, SlabMoved
  <2>6. /\ Q[p] = "partial" /\ \A q \in Pages : Q[q] = "partial" => q = p
        /\ \A x : [Q EXCEPT ![p] = x] = [L EXCEPT ![p] = x]
    BY <1>1, <2>4
  <2> HIDE DEF moved, Q
  <2>7. moved.next[slabs_partial] = Slab(p)
    <3>1. IsList(moved, slabs_partial, Listed(Q, "partial")) /\ Listed(Q, "partial") # {}
      BY <1>1, <2>5, <2>6 DEF Shape, Listed
    <3>2. moved.next[slabs_partial] \in Listed(Q, "partial")
      BY <3>1, FirstOfList
    <3> QED
      BY <2>6, <3>2 DEF Listed
  <2>8. alloc_node(moved, Slab(p))
    BY <2>1, <2>7
  <2>9. /\ moved.used = mm.used /\ moved.nrfree = mm.nrfree
        /\ moved.nralloc = mm.nralloc /\ moved.nrpage = mm.nrpage
    BY <1>1, <2>5 DEF Relinked, Memory
  <2>10. mm.used[Slab(p)] = 0 /\ nrsize # 0 /\ O[p] # {} /\ mm.used[Slab(p)] \in Nat
    BY <2>3, Sizes DEF Ready
  <2>11. PICK i \in O[p] : Served(moved, Q, O, M, p, i)
    BY <2>5, <2>6, <2>8, <2>9, <2>10, NodeAllocated
  <2>12. Served(mm, L, O, M, p, i)
    BY <2>6, <2>9, <2>11 DEF Served
  <2> QED
    BY <2>3, <2>4, <2>12 DEF Chosen
<1> QED
  BY <1>3, <1>4

-----------------------------------------------------------------------------
(* umem_cache_free and umem_cache_destroy. *)

EmptyPages(L) == {p \in Pages : L[p] = "free"}

\* k is mm when the pages in gone were released.
Shrunk(k, mm, L, O, M, gone) ==
    /\ Shape(k, Without(L, gone), O, M)
    /\ k.used = mm.used /\ k.nralloc = mm.nralloc
    /\ k.nrfree = mm.nrfree - nrsize * Cardinality(gone)
    /\ k.nrpage = mm.nrpage - Cardinality(gone)

LEMMA NoneGone ==
    ASSUME NEW mm, NEW L, NEW O, NEW M, Shape(mm, L, O, M),
           mm.nrfree \in Int, mm.nrpage \in Int
    PROVE  Shrunk(mm, mm, L, O, M, {}) /\ Cardinality({}) = 0
<1>1. L \in [Pages -> Three \cup {"none"}] /\ nrsize \in Nat
  BY Sizes DEF Shape
<1>2. Without(L, {}) = L
  BY <1>1 DEF Without
<1>3. Cardinality({}) = 0
  BY FS_EmptySet
<1>4. mm.nrfree - nrsize * 0 = mm.nrfree /\ mm.nrpage - 0 = mm.nrpage
  BY <1>1
<1> QED
  BY <1>2, <1>3, <1>4 DEF Shrunk

LEMMA SomeGone ==
    ASSUME NEW mm, NEW L, NEW O, NEW M, Shape(mm, L, O, M), NEW count \in Nat,
           count <= Cardinality(EmptyPages(L)),
           \A p \in Pages : L[p] = "free" => mm.used[Slab(p)] = 0,
           mm.nrfree \in Int, mm.nrpage \in Int
    PROVE  \E gone \in SUBSET EmptyPages(L) :
              /\ Cardinality(gone) = count
              /\ Shrunk(ReleasedFirst(mm, count), mm, L, O, M, gone)
<1> DEFINE k == ReleasedFirst(mm, count)
<1>1. count <= Cardinality({p \in Pages : L[p] = "free"})
  BY DEF EmptyPages
<1>2. PICK gone \in SUBSET {p \in Pages : L[p] = "free"} :
             /\ Cardinality(gone) = count
             /\ Shape(k, Without(L, gone), O, M)
             /\ k.used = mm.used /\ k.nralloc = mm.nralloc
             /\ k.nrfree = mm.nrfree - nrsize * count
             /\ k.nrpage = mm.nrpage - count
  BY <1>1, FirstReleased
<1>3. gone \in SUBSET EmptyPages(L)
  BY <1>2 DEF EmptyPages
<1> HIDE DEF k
<1>4. Shrunk(k, mm, L, O, M, gone)
  BY <1>2 DEF Shrunk
<1> QED
  BY <1>2, <1>3, <1>4 DEF k

LEMMA FreeSlabsCounted ==
    ASSUME NEW mm, NEW L, NEW O, NEW M, Shape(mm, L, O, M)
    PROVE  FreeSlabs(mm) = Cardinality(EmptyPages(L)) /\ Cardinality(EmptyPages(L)) \in Nat
<1>1. "free" \in Three /\ HeadOf("free") = slabs_free
  BY DEF Three, HeadOf
<1>2. Visited(mm, slabs_free, Cardinality(Pages)) = Listed(L, "free")
  BY <1>1, SlabsVisited
<1> DEFINE S == EmptyPages(L)
<1>3. S \in SUBSET Pages /\ Listed(L, "free") = {Slab(p) : p \in S}
  BY DEF EmptyPages, Listed
<1> HIDE DEF S
<1>4. Cardinality(Listed(L, "free")) = Cardinality(S) /\ Cardinality(S) \in Nat
  BY <1>3, SlabsCounted
<1> QED
  BY <1>2, <1>4 DEF FreeSlabs, S

\* How many of so many empty pages check_free releases.
TooMany(pages, empty) ==
    IF pages < PAGE_THRESHOLD THEN 0
    ELSE IF empty > PAGE_FREE THEN empty - PAGE_FREE ELSE 0

LEMMA FreeChecked ==
    ASSUME NEW mm, NEW L, NEW O, NEW M, Shape(mm, L, O, M),
           \A p \in Pages : L[p] = "free" => mm.used[Slab(p)] = 0,
           mm.nrfree \in Int, mm.nrpage \in Int
    PROVE  \E gone \in SUBSET EmptyPages(L) :
              /\ Cardinality(gone) = TooMany(mm.nrpage, Cardinality(EmptyPages(L)))
              /\ Shrunk(check_free(mm), mm, L, O, M, gone)
<1> DEFINE n == Cardinality(EmptyPages(L))
<1>1. FreeSlabs(mm) = n /\ n \in Nat
  BY FreeSlabsCounted
<1>2. PAGE_FREE \in Nat /\ PAGE_THRESHOLD \in Nat
  BY ListsAssumption DEF ListsAssumption
<1>3. CASE mm.nrpage < PAGE_THRESHOLD \/ n <= PAGE_FREE
  <2>1. check_free(mm) = mm
    BY <1>1, <1>3 DEF check_free
  <2>2. TooMany(mm.nrpage, n) = 0
    BY <1>1, <1>2, <1>3 DEF TooMany
  <2>3. Shrunk(mm, mm, L, O, M, {}) /\ Cardinality({}) = 0
    BY NoneGone
  <2> QED
    BY <2>1, <2>2, <2>3
<1>4. CASE ~ (mm.nrpage < PAGE_THRESHOLD \/ n <= PAGE_FREE)
  <2> DEFINE count == n - PAGE_FREE
  <2>1. check_free(mm) = ReleasedFirst(mm, count)
    BY <1>1, <1>4 DEF check_free
  <2>2. TooMany(mm.nrpage, n) = count /\ count \in Nat /\ count <= n
    BY <1>1, <1>2, <1>4 DEF TooMany
  <2> HIDE DEF count
  <2>3. \E gone \in SUBSET EmptyPages(L) :
           /\ Cardinality(gone) = count
           /\ Shrunk(ReleasedFirst(mm, count), mm, L, O, M, gone)
    BY <2>2, SomeGone
  <2> QED
    BY <2>1, <2>2, <2>3
<1> QED
  BY <1>3, <1>4

\* The object is back on its page's list, its slab in the list of its count and
\* some empty pages are released.
Returned(k, mm, L, O, M, p, i) ==
    LET u == mm.used[Slab(p)]
        Q == [L EXCEPT ![p] = IF u = 1 THEN "free"
                              ELSE IF u = nrsize THEN "partial" ELSE L[p]]
    IN  \E gone \in SUBSET EmptyPages(Q) :
           /\ Cardinality(gone) = IF u = 1 THEN TooMany(mm.nrpage, Cardinality(EmptyPages(Q)))
                                  ELSE 0
           /\ Shape(k, Without(Q, gone), [O EXCEPT ![p] = @ \cup {i}], M)
           /\ k.used = [mm.used EXCEPT ![Slab(p)] = @ - 1]
           /\ k.nralloc = mm.nralloc - 1
           /\ k.nrfree = (mm.nrfree + 1) - nrsize * Cardinality(gone)
           /\ k.nrpage = mm.nrpage - Cardinality(gone)

\* What free relies on.
Reclaims(mm, L, p) ==
    /\ L[p] \in Three /\ mm.used[Slab(p)] \in Nat /\ mm.used[Slab(p)] > 0
    /\ \A q \in Pages : L[q] = "free" => q # p /\ mm.used[Slab(q)] = 0
    /\ mm.nrfree \in Int /\ mm.nrpage \in Int /\ mm.nralloc \in Int

LEMMA ObjectReturned ==
    ASSUME NEW mm, NEW L, NEW O, NEW M, Shape(mm, L, O, M), NEW p \in M,
           NEW i \in 1..nrsize, i \notin O[p], Reclaims(mm, L, p)
    PROVE  Returned(Requeued(Counted(Carve(mm, p, i)), Slab(p)), mm, L, O, M, p, i)
<1> DEFINE slab == Slab(p)
           u == mm.used[slab]
           a == IF u = 1 THEN "free" ELSE IF u = nrsize THEN "partial" ELSE L[p]
           Q == [L EXCEPT ![p] = a]
           R == [O EXCEPT ![p] = @ \cup {i}]
           linked == Carve(mm, p, i)
           back == Counted(linked)
           less == [back EXCEPT !.used[slab] = @ - 1]
<1>1. /\ p \in Pages /\ L \in [Pages -> Three \cup {"none"}] /\ Memory(mm)
      /\ u \in Nat /\ u > 0 /\ L[p] \in Three
      /\ mm.nrfree \in Int /\ mm.nrpage \in Int /\ mm.nralloc \in Int
  BY DEF Shape, Reclaims
<1>2. Shape(linked, L, R, M) /\ Relinked(linked, mm)
  BY ObjectCarved
<1> HIDE DEF linked, R
<1>3. Memory(linked) /\ linked.used = mm.used /\ linked.nrfree = mm.nrfree
      /\ linked.nralloc = mm.nralloc /\ linked.nrpage = mm.nrpage
  BY <1>1, <1>2 DEF Relinked, Memory, Shape
<1>4. /\ DOMAIN back = DOMAIN linked /\ back.next = linked.next /\ back.prev = linked.prev
      /\ back.used = mm.used /\ back.nrfree = mm.nrfree + 1
      /\ back.nralloc = mm.nralloc - 1 /\ back.nrpage = mm.nrpage
      /\ back = [f \in DOMAIN back |-> back[f]]
  <2>1. {"next", "prev", "used", "nrfree", "nralloc", "nrpage"} \subseteq DOMAIN linked
    BY <1>3 DEF Memory, Listing
  <2>2. back = [linked EXCEPT !.nrfree = @ + 1, !.nralloc = @ - 1]
    BY DEF Counted
  <2> HIDE DEF back
  <2> QED
    BY <1>3, <2>1, <2>2
<1> HIDE DEF back
<1>5. Memory(back)
  BY <1>3, <1>4 DEF Memory, Listing
<1>6. {"next", "prev", "used", "nrfree", "nralloc", "nrpage"} \subseteq DOMAIN back
  BY <1>5 DEF Memory, Listing
<1>7. /\ DOMAIN less = DOMAIN back /\ less.next = back.next /\ less.prev = back.prev
      /\ less.nrfree = back.nrfree /\ less.nralloc = back.nralloc
      /\ less.nrpage = back.nrpage /\ less = [f \in DOMAIN less |-> less[f]]
  BY <1>6
<1>8. less.used = [mm.used EXCEPT ![slab] = @ - 1]
  <2>1. less.used = [back.used EXCEPT ![slab] = @ - 1]
    BY <1>6
  <2> QED
    BY <1>4, <2>1
<1>9. back.used[slab] = u
  BY <1>4
<1> HIDE DEF less
<1>10. Memory(less)
  BY <1>5, <1>7, <1>8, <1>4 DEF Memory, Listing
<1>11. Shape(less, L, R, M)
  <2>1. less.next = linked.next /\ less.prev = linked.prev
    BY <1>4, <1>7
  <2> QED
    BY <1>2, <1>10, <2>1, CountsKept
<1>12. /\ less.nrfree = mm.nrfree + 1 /\ less.nralloc = mm.nralloc - 1
       /\ less.nrpage = mm.nrpage
  BY <1>4, <1>7
<1>13. Requeued(back, slab) = IF u = 1 THEN check_free(list_move(less, slabs_free, slab))
                              ELSE IF u = nrsize THEN list_move(less, slabs_partial, slab)
                              ELSE less
  BY <1>9 DEF Requeued, less
<1> DEFINE k == Requeued(back, slab)
<1> HIDE DEF Q, a
<1>14. ASSUME NEW gone \in SUBSET EmptyPages(Q), NEW j, Shrunk(k, j, Q, R, M, gone),
              j.used = less.used, j.nrfree = less.nrfree, j.nralloc = less.nralloc,
              j.nrpage = less.nrpage,
              Cardinality(gone) = IF u = 1 THEN TooMany(mm.nrpage, Cardinality(EmptyPages(Q)))
                                  ELSE 0
       PROVE  Returned(k, mm, L, O, M, p, i)
  <2>1. /\ Shape(k, Without(Q, gone), R, M)
        /\ k.used = [mm.used EXCEPT ![slab] = @ - 1]
        /\ k.nralloc = mm.nralloc - 1
        /\ k.nrfree = (mm.nrfree + 1) - nrsize * Cardinality(gone)
        /\ k.nrpage = mm.nrpage - Cardinality(gone)
    BY <1>8, <1>12, <1>14 DEF Shrunk
  <2> HIDE DEF k
  <2> QED
    BY <1>14, <2>1 DEF Returned, Q, R, a
<1>15. ASSUME u = 1
       PROVE  Returned(k, mm, L, O, M, p, i)
  <2> DEFINE j == list_move(less, slabs_free, slab)
  <2>1. "free" \in Three /\ HeadOf("free") = slabs_free
    BY DEF Three, HeadOf
  <2>2. Q = [L EXCEPT ![p] = "free"]
    BY <1>15 DEF Q, a
  <2>3. Shape(j, Q, R, M) /\ Relinked(j, less)
    BY <1>1, <1>11, <2>1, <2>2, SlabMoved
  <2> HIDE DEF j
  <2>4. /\ j.used = less.used /\ j.nrfree = less.nrfree
        /\ j.nralloc = less.nralloc /\ j.nrpage = less.nrpage
    BY <1>10, <2>3 DEF Relinked, Memory
  <2>5. ASSUME NEW q \in Pages, Q[q] = "free"
        PROVE  j.used[Slab(q)] = 0
    <3>1. CASE q = p
      <4>1. slab \in DOMAIN mm.used
        BY <1>1 DEF Memory
      <4> QED
        BY <1>1, <1>8, <1>15, <2>4, <3>1, <4>1
    <3>2. CASE q # p
      <4>1. L[q] = "free" /\ Slab(q) # slab
        BY <1>1, <2>2, <2>5, <3>2, Apart
      <4>2. mm.used[Slab(q)] = 0
        BY <4>1 DEF Reclaims
      <4>3. Slab(q) \in DOMAIN mm.used
        BY <1>1 DEF Memory
      <4> QED
        BY <1>8, <2>4, <4>1, <4>2, <4>3
    <3> QED
      BY <3>1, <3>2
  <2>6. j.nrfree \in Int /\ j.nrpage \in Int
    BY <1>1, <1>12, <2>4
  <2>7. PICK gone \in SUBSET EmptyPages(Q) :
               /\ Cardinality(gone) = TooMany(j.nrpage, Cardinality(EmptyPages(Q)))
               /\ Shrunk(check_free(j), j, Q, R, M, gone)
    BY <2>3, <2>5, <2>6, FreeChecked
  <2>8. k = check_free(j)
    BY <1>13, <1>15 DEF j
  <2>9. Cardinality(gone) = IF u = 1 THEN TooMany(mm.nrpage, Cardinality(EmptyPages(Q)))
                            ELSE 0
    BY <1>12, <1>15, <2>4, <2>7
  <2>10. Shrunk(k, j, Q, R, M, gone)
    BY <2>7, <2>8
  <2> HIDE DEF k, u
  <2> QED
    BY <1>14, <2>4, <2>9, <2>10
<1>16. ASSUME u # 1
       PROVE  Returned(k, mm, L, O, M, p, i)
  <2>1. /\ k = IF u = nrsize THEN list_move(less, slabs_partial, slab) ELSE less
        /\ a = IF u = nrsize THEN "partial" ELSE L[p]
    BY <1>13, <1>16 DEF a
  <2>2. Shape(k, Q, R, M) /\ Relinked(k, less)
    <3>1. CASE u = nrsize
      <4>1. "partial" \in Three /\ HeadOf("partial") = slabs_partial
        BY DEF Three, HeadOf
      <4>2. Q = [L EXCEPT ![p] = "partial"] /\ k = list_move(less, slabs_partial, slab)
        BY <2>1, <3>1 DEF Q
      <4>3. /\ Shape(list_move(less, slabs_partial, slab), [L EXCEPT ![p] = "partial"], R, M)
            /\ Relinked(list_move(less, slabs_partial, slab), less)
        BY <1>1, <1>11, <4>1, SlabMoved
      <4> QED
        BY <4>2, <4>3
    <3>2. CASE u # nrsize
      <4>1. Q = L /\ k = less
        BY <1>1, <2>1, <3>2 DEF Q
      <4>2. Relinked(less, less)
        BY DEF Relinked
      <4> QED
        BY <1>11, <4>1, <4>2
    <3> QED
      BY <3>1, <3>2
  <2> HIDE DEF k
  <2>3. /\ k.used = less.used /\ k.nrfree = less.nrfree
        /\ k.nralloc = less.nralloc /\ k.nrpage = less.nrpage
    BY <1>10, <2>2 DEF Relinked, Memory
  <2>4. k.nrfree \in Int /\ k.nrpage \in Int
    BY <1>1, <1>12, <2>3
  <2>5. Shrunk(k, k, Q, R, M, {}) /\ Cardinality({}) = 0
    BY <2>2, <2>4, NoneGone
  <2>6. {} \in SUBSET EmptyPages(Q)
    OBVIOUS
  <2>7. Cardinality({}) = IF u = 1 THEN TooMany(mm.nrpage, Cardinality(EmptyPages(Q)))
                          ELSE 0
    BY <1>16, <2>5
  <2> HIDE DEF u
  <2> QED
    BY <1>14, <2>3, <2>5, <2>6, <2>7
<1> QED
  BY <1>15, <1>16 DEF k, back, linked

-----------------------------------------------------------------------------
(* The steps, on the state that SlabCache has of the pointers. *)

\* The lists tell what L and O say.
LEMMA Told ==
    ASSUME NEW mm, NEW L, NEW O, NEW M, Shape(mm, L, O, M)
    PROVE  LET on(head) == Visited(mm, head, Cardinality(Pages))
               free(p) == {i \in 1..nrsize :
                              Object(p, i) \in Visited(mm, ObjectList(Slab(p)), nrsize)}
           IN  /\ L = [p \in Pages |-> IF Slab(p) \in on(slabs_partial) THEN "partial"
                                       ELSE IF Slab(p) \in on(slabs_full) THEN "full"
                                       ELSE IF Slab(p) \in on(slabs_free) THEN "free"
                                       ELSE "none"]
               /\ O = [p \in Pages |-> IF p \in M THEN free(p) ELSE {}]
<1>1. /\ L \in [Pages -> Three \cup {"none"}] /\ O \in [Pages -> SUBSET (1..nrsize)]
      /\ \A p \in Pages : p \notin M => O[p] = {}
  BY DEF Shape
<1>2. /\ Visited(mm, slabs_partial, Cardinality(Pages)) = Listed(L, "partial")
      /\ Visited(mm, slabs_full, Cardinality(Pages)) = Listed(L, "full")
      /\ Visited(mm, slabs_free, Cardinality(Pages)) = Listed(L, "free")
  BY SlabsVisited DEF Three, HeadOf
<1>3. \A name \in Three : \A p \in Pages : Slab(p) \in Listed(L, name) <=> L[p] = name
  BY Apart DEF Listed
<1>4. ASSUME NEW p \in Pages
      PROVE  L[p] = IF Slab(p) \in Listed(L, "partial") THEN "partial"
                    ELSE IF Slab(p) \in Listed(L, "full") THEN "full"
                    ELSE IF Slab(p) \in Listed(L, "free") THEN "free" ELSE "none"
  BY <1>1, <1>3 DEF Three
<1>5. L = [p \in Pages |-> IF Slab(p) \in Listed(L, "partial") THEN "partial"
                           ELSE IF Slab(p) \in Listed(L, "full") THEN "full"
                           ELSE IF Slab(p) \in Listed(L, "free") THEN "free" ELSE "none"]
  BY <1>1, <1>4
<1>6. ASSUME NEW p \in M
      PROVE  O[p] = {i \in 1..nrsize :
                        Object(p, i) \in Visited(mm, ObjectList(Slab(p)), nrsize)}
  BY ObjectsVisited
<1>7. O = [p \in Pages |->
              IF p \in M THEN {i \in 1..nrsize :
                                  Object(p, i) \in Visited(mm, ObjectList(Slab(p)), nrsize)}
              ELSE {}]
  BY <1>1, <1>6
<1> QED
  BY <1>2, <1>5, <1>7

LEMMA ToldNow ==
    ASSUME NEW L, NEW O, Shape(m, L, O, mapped)
    PROVE  PageList = L /\ SlabList = O
BY Told DEF PageList, ListOf, On, SlabList, FreeObjects

LEMMA ToldNext ==
    ASSUME NEW L, NEW O, Shape(m', L, O, mapped')
    PROVE  PageList' = L /\ SlabList' = O
BY Told DEF PageList, ListOf, On, SlabList, FreeObjects

HeldFound == \A mem \in held : \E p \in Pages : \E i \in 1..nrsize : mem = Object(p, i)

\* The inductive invariant: the pointers are lists, and what they tell is sound.
Whole == Shape(m, PageList, SlabList, mapped) /\ HeldFound
Good == Whole /\ C!Inv

LEMMA Assumed == C!SlabAssumption
<1>1. nrsize \in Nat \ {0}
  BY Sizes
<1>2. \A S : C!IsFiniteSet(S) = IsFiniteSet(S)
  BY Zenon DEF C!IsFiniteSet, IsFiniteSet
<1> QED
  BY <1>1, <1>2, ListsAssumption DEF ListsAssumption, C!SlabAssumption

LEMMA Counting == \A S : C!Cardinality(S) = Cardinality(S)
BY Zenon DEF C!Cardinality, Cardinality

\* What the abstract invariant says of the memory.
LEMMA InvTells ==
    ASSUME C!Inv
    PROVE  /\ Ready(m, PageList, SlabList)
           /\ m.nrfree \in Int /\ m.nralloc \in Int /\ m.nrpage \in Int
           /\ \A p \in Pages : m.used[Slab(p)] \in Nat /\ UsedCount[p] = m.used[Slab(p)]
           /\ \A p \in Pages : p \notin mapped => UsedCount[p] = 0
           /\ live \in BOOLEAN
<1>1. C!TypeOK /\ C!Sound
  BY DEF C!Inv
<1>2. /\ m.nrfree \in Int /\ m.nralloc \in Int /\ m.nrpage \in Int
      /\ \A p \in Pages : UsedCount[p] \in Nat
      /\ \A p \in Pages : p \notin mapped => UsedCount[p] = 0
      /\ live \in BOOLEAN
  BY <1>1 DEF C!TypeOK, C!Sound
<1>3. \A p \in Pages : UsedCount[p] = m.used[Slab(p)]
  BY DEF UsedCount
<1>4. ASSUME NEW p \in Pages
      PROVE  /\ PageList[p] = "partial" => UsedCount[p] # nrsize /\ SlabList[p] # {}
             /\ PageList[p] = "free" => UsedCount[p] = 0 /\ SlabList[p] # {}
  <2> DEFINE h == C!HeldOf(p)
  <2>1. C!PageSound(PageList[p], UsedCount[p], SlabList[p], h)
    BY <1>1 DEF C!Sound
  <2>2. h \in SUBSET C!Objects
    BY DEF C!HeldOf
  <2> HIDE DEF h
  <2>3. /\ C!Cardinality(h) = nrsize <=> C!Objects \ h = {}
        /\ C!Cardinality(h) = 0 <=> h = {}
    BY <2>2, Assumed, C!ObjectsCounted
  <2>4. nrsize # 0
    BY Sizes
  <2> QED
    BY <2>1, <2>3, <2>4 DEF C!PageSound
<1> QED
  BY <1>2, <1>3, <1>4 DEF Ready

\* An object that is given to the program, as SlabCache sees it.
LEMMA TakenTold ==
    ASSUME NEW mm, NEW L, NEW O, NEW p \in Pages, NEW i \in O[p], HeldFound,
           mm.used = [s \in {Slab(q) : q \in Pages} |-> mm.used[s]],
           O \in [Pages -> SUBSET (1..nrsize)],
           Served(mm, L, O, mapped', p, i)
    PROVE  /\ PageList' = [L EXCEPT ![p] = C!ListFor(mm.used[Slab(p)] + 1)]
           /\ SlabList' = C!Unlinked(O, p, i)
           /\ UsedCount' = [q \in Pages |-> IF q = p THEN mm.used[Slab(p)] + 1
                                            ELSE mm.used[Slab(q)]]
           /\ m'.nralloc = mm.nralloc + 1 /\ m'.nrfree = mm.nrfree - 1
           /\ m'.nrpage = mm.nrpage
           /\ HeldObjects' = HeldObjects \cup {<<p, i>>}
           /\ Whole'
<1> DEFINE Q == [L EXCEPT ![p] = IF mm.used[Slab(p)] + 1 = nrsize THEN "full"
                                 ELSE "partial"]
           R == [O EXCEPT ![p] = @ \ {i}]
<1>1. /\ Shape(m', Q, R, mapped') /\ m'.used = [mm.used EXCEPT ![Slab(p)] = @ + 1]
      /\ m'.nralloc = mm.nralloc + 1 /\ m'.nrfree = mm.nrfree - 1
      /\ m'.nrpage = mm.nrpage /\ held' = held \cup {Object(p, i)}
  BY DEF Served
<1>2. Q = [L EXCEPT ![p] = C!ListFor(mm.used[Slab(p)] + 1)] /\ R = C!Unlinked(O, p, i)
  BY DEF C!ListFor, C!Unlinked
<1> HIDE DEF Q, R
<1>3. PageList' = Q /\ SlabList' = R
  BY <1>1, ToldNext
<1>4. UsedCount' = [q \in Pages |-> IF q = p THEN mm.used[Slab(p)] + 1
                                    ELSE mm.used[Slab(q)]]
  <2>1. ASSUME NEW q \in Pages
        PROVE  m'.used[Slab(q)] = IF q = p THEN mm.used[Slab(p)] + 1 ELSE mm.used[Slab(q)]
    <3>1. Slab(q) \in {Slab(r) : r \in Pages} /\ (Slab(q) = Slab(p) <=> q = p)
      BY Apart
    <3> QED
      BY <1>1, <3>1
  <2>2. UsedCount' = [q \in Pages |-> m'.used[Slab(q)]]
    BY DEF UsedCount
  <2> QED
    BY <2>1, <2>2
<1>5. i \in 1..nrsize
  OBVIOUS
<1>6. HeldObjects' = HeldObjects \cup {<<p, i>>}
  <2>1. Named(Object(p, i)) = <<p, i>>
    BY <1>5, Objectwise
  <2>2. HeldObjects' = {Named(mem) : mem \in held \cup {Object(p, i)}}
    BY <1>1 DEF HeldObjects
  <2> QED
    BY <2>1, <2>2 DEF HeldObjects
<1>7. HeldFound'
  BY <1>1, <1>5 DEF HeldFound
<1>8. Whole'
  BY <1>1, <1>3, <1>7 DEF Whole
<1> QED
  BY <1>1, <1>2, <1>3, <1>4, <1>6, <1>8

LEMMA AllocStep ==
    ASSUME Good, Alloc
    PROVE  Whole' /\ C!Next
<1>1. /\ Shape(m, PageList, SlabList, mapped) /\ HeldFound /\ C!Inv
      /\ live /\ m.nrfree # 0 /\ FromLists(m) /\ UNCHANGED <<mapped, live>>
  BY DEF Good, Whole, Alloc
<1>2. /\ Ready(m, PageList, SlabList)
      /\ \A p \in Pages : UsedCount[p] = m.used[Slab(p)]
  BY <1>1, InvTells
<1>3. PICK p \in Pages : \E i \in SlabList[p] : Chosen(m, PageList, SlabList, mapped, p, i)
  BY <1>1, <1>2, ListsServed
<1>4. PICK i \in SlabList[p] : Chosen(m, PageList, SlabList, mapped, p, i)
  BY <1>3
<1>5. /\ m.used = [s \in {Slab(q) : q \in Pages} |-> m.used[s]]
      /\ SlabList \in [Pages -> SUBSET (1..nrsize)]
  BY <1>1 DEF Shape, Memory
<1>6. /\ \/ PageList[p] = "partial"
         \/ PageList[p] = "free" /\ \A q \in Pages : PageList[q] # "partial"
      /\ Served(m, PageList, SlabList, mapped', p, i)
  BY <1>1, <1>4 DEF Chosen
<1>7. /\ PageList' = [PageList EXCEPT ![p] = C!ListFor(m.used[Slab(p)] + 1)]
      /\ SlabList' = C!Unlinked(SlabList, p, i)
      /\ UsedCount' = [q \in Pages |-> IF q = p THEN m.used[Slab(p)] + 1
                                       ELSE m.used[Slab(q)]]
      /\ m'.nralloc = m.nralloc + 1 /\ m'.nrfree = m.nrfree - 1
      /\ m'.nrpage = m.nrpage
      /\ HeldObjects' = HeldObjects \cup {<<p, i>>}
      /\ Whole'
  BY <1>1, <1>5, <1>6, TakenTold
<1>8. UsedCount' = [UsedCount EXCEPT ![p] = @ + 1]
  BY <1>2, <1>7 DEF UsedCount
<1>9. PageList' = [PageList EXCEPT ![p] = C!ListFor(UsedCount[p] + 1)]
  BY <1>2, <1>7
<1>10. C!TakeFrom(p, SlabList, PageList, m.nrfree)
  BY <1>7, <1>8, <1>9 DEF C!TakeFrom
<1>11. UNCHANGED <<mapped, m.nrpage, live>>
  BY <1>1, <1>7
<1>12. C!AllocPartial(p) \/ C!AllocFree(p)
  BY <1>1, <1>6, <1>10, <1>11 DEF C!AllocPartial, C!AllocFree, C!In
<1> QED
  BY <1>7, <1>12 DEF C!Next

LEMMA NewPageStep ==
    ASSUME Good, NEW new \in Pages, AllocNewPage(new)
    PROVE  Whole' /\ C!Next
<1> DEFINE mm == get_one_page(m, new)
           L == [PageList EXCEPT ![new] = "free"]
           O == [SlabList EXCEPT ![new] = 1..nrsize]
           N == mapped \cup {new}
<1>1. /\ Shape(m, PageList, SlabList, mapped) /\ HeldFound /\ C!Inv
      /\ live /\ m.nrfree = 0 /\ new \notin mapped /\ mapped' = N
      /\ FromLists(mm) /\ UNCHANGED live
  BY DEF Good, Whole, AllocNewPage
<1>2. /\ Ready(m, PageList, SlabList)
      /\ \A p \in Pages : UsedCount[p] = m.used[Slab(p)]
      /\ m.used[Slab(new)] = 0 /\ UsedCount[new] = 0
  BY <1>1, InvTells
<1>3. /\ Shape(mm, L, O, N)
      /\ mm.used = [m.used EXCEPT ![Slab(new)] = 0]
      /\ mm.nrfree = m.nrfree + nrsize /\ mm.nralloc = m.nralloc
      /\ mm.nrpage = m.nrpage + 1
  BY <1>1, PageMade
<1>4. /\ PageList \in [Pages -> Three \cup {"none"}]
      /\ SlabList \in [Pages -> SUBSET (1..nrsize)]
      /\ m.used = [s \in {Slab(q) : q \in Pages} |-> m.used[s]]
      /\ PageList[new] = "none"
  BY <1>1 DEF Shape, Memory
<1>5. \A p \in Pages : mm.used[Slab(p)] = m.used[Slab(p)]
  <2>1. ASSUME NEW p \in Pages
        PROVE  mm.used[Slab(p)] = m.used[Slab(p)]
    <3>1. Slab(p) \in {Slab(q) : q \in Pages}
      OBVIOUS
    <3> HIDE DEF mm
    <3> QED
      BY <1>2, <1>3, <1>4, <3>1
  <2> QED
    BY <2>1
<1>6. \A p \in Pages : /\ L[p] = IF p = new THEN "free" ELSE PageList[p]
                       /\ O[p] = IF p = new THEN 1..nrsize ELSE SlabList[p]
  BY <1>4
<1>7. Ready(mm, L, O)
  <2>1. 1..nrsize # {}
    <3>1. 1 \in 1..nrsize
      BY Sizes
    <3> QED
      BY <3>1
  <2> HIDE DEF mm, L, O
  <2> QED
    BY <1>2, <1>5, <1>6, <2>1 DEF Ready
<1>8. /\ L = [p \in Pages |-> IF p = new THEN "free" ELSE PageList[p]]
      /\ O = [p \in Pages |-> IF p = new THEN C!Objects ELSE SlabList[p]]
  <2>1. C!Objects = 1..nrsize
    BY DEF C!Objects
  <2> QED
    BY <1>4, <2>1
<1> HIDE DEF mm, L, O, N
<1>9. PICK p \in Pages : \E i \in O[p] : Chosen(mm, L, O, N, p, i)
  BY <1>1, <1>3, <1>7, ListsServed
<1>10. PICK i \in O[p] : Chosen(mm, L, O, N, p, i)
  BY <1>9
<1>11. /\ mm.used = [s \in {Slab(q) : q \in Pages} |-> mm.used[s]]
       /\ O \in [Pages -> SUBSET (1..nrsize)]
  BY <1>3 DEF Shape, Memory
<1>12. /\ \/ L[p] = "partial"
          \/ L[p] = "free" /\ \A q \in Pages : L[q] # "partial"
       /\ Served(mm, L, O, mapped', p, i)
  BY <1>1, <1>10 DEF Chosen
<1>13. /\ PageList' = [L EXCEPT ![p] = C!ListFor(mm.used[Slab(p)] + 1)]
       /\ SlabList' = C!Unlinked(O, p, i)
       /\ UsedCount' = [q \in Pages |-> IF q = p THEN mm.used[Slab(p)] + 1
                                        ELSE mm.used[Slab(q)]]
       /\ m'.nralloc = mm.nralloc + 1 /\ m'.nrfree = mm.nrfree - 1
       /\ m'.nrpage = mm.nrpage
       /\ HeldObjects' = HeldObjects \cup {<<p, i>>}
       /\ Whole'
  BY <1>1, <1>11, <1>12, TakenTold
<1>14. UsedCount' = [UsedCount EXCEPT ![p] = @ + 1]
  BY <1>2, <1>5, <1>13 DEF UsedCount
<1>15. PageList' = [L EXCEPT ![p] = C!ListFor(UsedCount[p] + 1)]
  <2>1. mm.used[Slab(p)] = UsedCount[p]
    BY <1>2, <1>5
  <2>2. PageList' = [L EXCEPT ![p] = C!ListFor(mm.used[Slab(p)] + 1)]
    BY <1>13
  <2> QED
    BY <2>1, <2>2, Zenon
<1>16. C!TakeFrom(p, O, L, m.nrfree + nrsize)
  BY <1>3, <1>13, <1>14, <1>15 DEF C!TakeFrom
<1>17. p \in IF C!In("partial") # {} THEN C!In("partial") ELSE C!In("free") \cup {new}
  <2>1. L[p] = "partial" => p \in C!In("partial")
    BY <1>6 DEF C!In
  <2>2. L[p] = "free" => p \in C!In("free") \cup {new}
    BY <1>6 DEF C!In
  <2>3. (\A q \in Pages : L[q] # "partial") => C!In("partial") = {}
    BY <1>4, <1>6 DEF C!In
  <2> QED
    BY <1>12, <2>1, <2>2, <2>3
<1>18. m'.nrpage = m.nrpage + 1
  BY <1>3, <1>13
<1>19. C!AllocNewPage(new)
  BY <1>1, <1>8, <1>16, <1>17, <1>18 DEF C!AllocNewPage, N
<1> QED
  BY <1>13, <1>19 DEF C!Next

\* SlabCache counts alike, and names the pages to give back alike.
LEMMA ToldCounts ==
    /\ \A n, S : C!kSubset(n, S) = {s \in SUBSET S : Cardinality(s) = n}
    /\ \A nr, S : C!Uncounted(nr, S) = nr - nrsize * Cardinality(S)
    /\ \A e : C!Excess(e) = TooMany(m.nrpage, e)
    /\ C!Objects = 1..nrsize
<1>1. \A n, S : C!kSubset(n, S) = {s \in SUBSET S : C!Cardinality(s) = n}
  BY DEF C!kSubset
<1>2. \A nr, S : C!Uncounted(nr, S) = nr - nrsize * C!Cardinality(S)
  BY DEF C!Uncounted
<1> QED
  BY <1>1, <1>2, Counting DEF C!Excess, TooMany, C!Objects

\* What the abstract invariant says of an object that the program holds.
LEMMA HeldTold ==
    ASSUME Good, NEW p \in Pages, NEW i \in 1..nrsize, Object(p, i) \in held
    PROVE  /\ <<p, i>> \in HeldObjects /\ i \notin SlabList[p] /\ p \in mapped
           /\ Reclaims(m, PageList, p)
<1>1. C!TypeOK /\ C!Sound /\ C!Inv /\ Shape(m, PageList, SlabList, mapped)
  BY DEF Good, Whole, C!Inv
<1>2. <<p, i>> \in HeldObjects
  <2>1. Named(Object(p, i)) = <<p, i>>
    BY Objectwise
  <2> QED
    BY <2>1 DEF HeldObjects
<1> DEFINE h == C!HeldOf(p)
<1>3. i \in h /\ h \in SUBSET C!Objects
  BY <1>2 DEF C!HeldOf, C!Objects
<1>4. C!PageSound(PageList[p], UsedCount[p], SlabList[p], h)
  BY <1>1 DEF C!Sound
<1>5. PageList[p] \in C!Names /\ UsedCount[p] \in Nat
  BY <1>1 DEF C!TypeOK
<1> HIDE DEF h
<1>6. UsedCount[p] - 1 \in Nat /\ PageList[p] # "none" /\ PageList[p] # "free"
  BY <1>3, <1>4, <1>5, Assumed, C!OneLess
<1>7. i \notin SlabList[p]
  BY <1>3, <1>4, <1>6 DEF C!PageSound
<1>8. p \in mapped
  BY <1>1, <1>6 DEF C!Sound
<1>9. PageList[p] \in Three
  BY <1>5, <1>6 DEF C!Names, Three
<1>10. /\ Ready(m, PageList, SlabList)
       /\ m.nrfree \in Int /\ m.nralloc \in Int /\ m.nrpage \in Int
       /\ UsedCount[p] = m.used[Slab(p)]
  BY <1>1, InvTells
<1>11. Reclaims(m, PageList, p)
  BY <1>5, <1>6, <1>9, <1>10 DEF Reclaims, Ready
<1> QED
  BY <1>2, <1>7, <1>8, <1>11

LEMMA FreeStep ==
    ASSUME Good, NEW mem \in held, Free(mem)
    PROVE  Whole' /\ C!Next
<1>1. /\ Shape(m, PageList, SlabList, mapped) /\ HeldFound /\ C!Inv
      /\ live /\ held' = held \ {mem} /\ UNCHANGED <<mapped, live>>
  BY DEF Good, Whole, Free
<1>2. PICK p \in Pages : \E i \in 1..nrsize : mem = Object(p, i)
  BY <1>1 DEF HeldFound
<1>3. PICK i \in 1..nrsize : mem = Object(p, i)
  BY <1>2
<1>4. /\ <<p, i>> \in HeldObjects /\ i \notin SlabList[p] /\ p \in mapped
      /\ Reclaims(m, PageList, p)
  BY <1>3, HeldTold
<1>5. m' = Requeued(Counted(Carve(m, p, i)), Slab(p))
  <2>1. get_slab(mem) = Slab(p)
    BY <1>3, Objectwise
  <2> QED
    BY <1>3, <2>1 DEF Free, Carve
<1>6. Returned(m', m, PageList, SlabList, mapped, p, i)
  <2>1. Returned(Requeued(Counted(Carve(m, p, i)), Slab(p)), m, PageList, SlabList, mapped, p, i)
    BY <1>1, <1>4, ObjectReturned
  <2> QED
    BY <1>5, <2>1, Zenon
<1> DEFINE u == m.used[Slab(p)]
           Q == [PageList EXCEPT ![p] = IF u = 1 THEN "free"
                                        ELSE IF u = nrsize THEN "partial" ELSE PageList[p]]
           R == [SlabList EXCEPT ![p] = @ \cup {i}]
           empty == EmptyPages(Q)
<1>7. PICK gone \in SUBSET empty :
         /\ Cardinality(gone) = IF u = 1 THEN TooMany(m.nrpage, Cardinality(empty)) ELSE 0
         /\ Shape(m', Without(Q, gone), R, mapped)
         /\ m'.used = [m.used EXCEPT ![Slab(p)] = @ - 1]
         /\ m'.nralloc = m.nralloc - 1
         /\ m'.nrfree = (m.nrfree + 1) - nrsize * Cardinality(gone)
         /\ m'.nrpage = m.nrpage - Cardinality(gone)
  BY <1>6 DEF Returned
<1>8. UsedCount[p] = u /\ m.used = [s \in {Slab(q) : q \in Pages} |-> m.used[s]]
  BY <1>1 DEF UsedCount, Shape, Memory
<1>9. Q = [PageList EXCEPT ![p] = C!ListAfter(p)]
  BY <1>8 DEF C!ListAfter
<1>10. empty = {q \in Pages : Q[q] = "free"}
  BY DEF EmptyPages
<1> HIDE DEF Q, R, empty
<1>11. PageList' = Without(Q, gone) /\ SlabList' = R
  BY <1>1, <1>7, ToldNext
<1>12. UsedCount' = [UsedCount EXCEPT ![p] = @ - 1]
  <2>1. ASSUME NEW q \in Pages
        PROVE  m'.used[Slab(q)] = IF q = p THEN u - 1 ELSE m.used[Slab(q)]
    <3>1. Slab(q) \in {Slab(r) : r \in Pages} /\ (Slab(q) = Slab(p) <=> q = p)
      BY Apart
    <3> QED
      BY <1>7, <1>8, <3>1
  <2>2. UsedCount' = [q \in Pages |-> m'.used[Slab(q)]]
    BY DEF UsedCount
  <2>3. UsedCount' = [q \in Pages |-> IF q = p THEN u - 1 ELSE m.used[Slab(q)]]
    BY <2>1, <2>2
  <2> QED
    BY <2>3 DEF UsedCount
<1>13. HeldObjects' = HeldObjects \ {<<p, i>>}
  <2>1. ASSUME NEW other \in held
        PROVE  Named(other) = <<p, i>> <=> other = mem
    <3>1. PICK q \in Pages : \E j \in 1..nrsize : other = Object(q, j)
      BY <1>1 DEF HeldFound
    <3>2. PICK j \in 1..nrsize : other = Object(q, j)
      BY <3>1
    <3>3. Named(other) = <<q, j>> /\ Named(mem) = <<p, i>>
      BY <1>3, <3>2, Objectwise
    <3> QED
      BY <1>3, <3>2, <3>3
  <2>2. HeldObjects' = {Named(other) : other \in held \ {mem}}
    BY <1>1 DEF HeldObjects
  <2> QED
    BY <2>1, <2>2 DEF HeldObjects
<1>14. HeldFound'
  BY <1>1 DEF HeldFound
<1>15. Whole'
  BY <1>1, <1>7, <1>11, <1>14 DEF Whole
<1>16. gone \in C!kSubset(IF UsedCount[p] = 1 THEN C!Excess(C!Cardinality(empty)) ELSE 0, empty)
  <2>1. C!Excess(Cardinality(empty)) = TooMany(m.nrpage, Cardinality(empty))
    BY ToldCounts
  <2>2. C!Cardinality(empty) = Cardinality(empty)
    BY Counting, Zenon
  <2>3. Cardinality(gone) = IF UsedCount[p] = 1 THEN C!Excess(C!Cardinality(empty)) ELSE 0
    BY <1>7, <1>8, <2>1, <2>2
  <2> QED
    BY <2>3, ToldCounts
<1>17. C!release(gone, Q, m.nrfree + 1)
  <2>1. C!Cardinality(gone) = Cardinality(gone)
    BY Counting, Zenon
  <2>2. m'.nrfree = C!Uncounted(m.nrfree + 1, gone)
    BY <1>7, ToldCounts
  <2> QED
    BY <1>1, <1>7, <1>11, <2>1, <2>2 DEF C!release, Without
<1>18. SlabList' = [SlabList EXCEPT ![p] = @ \cup {i}] /\ m'.nralloc = m.nralloc - 1
  BY <1>7, <1>11 DEF R
<1>19. C!Free(p, i)
  BY <1>1, <1>4, <1>9, <1>10, <1>12, <1>13, <1>16, <1>17, <1>18 DEF C!Free
<1>20. i \in C!Objects
  BY DEF C!Objects
<1> QED
  BY <1>15, <1>19, <1>20 DEF C!Next

LEMMA DestroyStep ==
    ASSUME Good, Destroy
    PROVE  Whole' /\ C!Next
<1>1. /\ Shape(m, PageList, SlabList, mapped) /\ HeldFound /\ C!Inv
      /\ live /\ live' = FALSE /\ m' = Destroyed(m) /\ UNCHANGED <<mapped, held>>
  BY DEF Good, Whole, Destroy
<1>2. HeldFound' /\ HeldObjects' = HeldObjects
  BY <1>1 DEF HeldFound, HeldObjects
<1>3. ASSUME m.nralloc # 0
      PROVE  Whole' /\ C!Destroy
  <2>1. m' = m
    BY <1>1, <1>3 DEF Destroyed
  <2>2. PageList' = PageList /\ SlabList' = SlabList
    BY <1>1, <2>1, ToldNext
  <2>3. UsedCount' = UsedCount
    BY <2>1 DEF UsedCount
  <2> QED
    BY <1>1, <1>2, <1>3, <2>1, <2>2, <2>3 DEF Whole, C!Destroy
<1>4. ASSUME m.nralloc = 0
      PROVE  Whole' /\ C!Destroy
  <2> DEFINE empty == EmptyPages(PageList)
  <2>1. FreeSlabs(m) = Cardinality(empty) /\ Cardinality(empty) \in Nat
    BY <1>1, FreeSlabsCounted
  <2>2. m' = ReleasedFirst(m, Cardinality(empty))
    BY <1>1, <1>4, <2>1 DEF Destroyed
  <2>3. /\ m.nrfree \in Int /\ m.nrpage \in Int
        /\ \A p \in Pages : PageList[p] = "free" => m.used[Slab(p)] = 0
    BY <1>1, InvTells DEF Ready
  <2>4. \E gone \in SUBSET empty :
           /\ Cardinality(gone) = Cardinality(empty)
           /\ Shrunk(ReleasedFirst(m, Cardinality(empty)), m, PageList, SlabList, mapped, gone)
    BY <1>1, <2>1, <2>3, SomeGone
  <2>5. PICK gone \in SUBSET empty :
           /\ Cardinality(gone) = Cardinality(empty)
           /\ Shrunk(m', m, PageList, SlabList, mapped, gone)
    BY <2>2, <2>4
  <2>6. gone = empty
    <3>1. empty \in SUBSET Pages
      BY DEF EmptyPages
    <3> HIDE DEF empty
    <3>2. IsFiniteSet(empty)
      BY <3>1, Sizes, FS_Subset
    <3> QED
      BY <2>5, <3>2, FS_Subset
  <2>7. empty = C!ReleasedAtEnd
    BY DEF EmptyPages, C!ReleasedAtEnd, C!In
  <2>8. /\ Shape(m', Without(PageList, empty), SlabList, mapped)
        /\ m'.used = m.used /\ m'.nralloc = m.nralloc
        /\ m'.nrfree = m.nrfree - nrsize * Cardinality(empty)
        /\ m'.nrpage = m.nrpage - Cardinality(empty)
    BY <2>5, <2>6 DEF Shrunk
  <2> HIDE DEF empty
  <2>9. PageList' = Without(PageList, empty) /\ SlabList' = SlabList
    BY <1>1, <2>8, ToldNext
  <2>10. UsedCount' = UsedCount
    BY <2>8 DEF UsedCount
  <2>11. C!release(empty, PageList, m.nrfree)
    <3>1. C!Cardinality(empty) = Cardinality(empty)
      BY Counting, Zenon
    <3>2. m'.nrfree = C!Uncounted(m.nrfree, empty)
      BY <2>8, ToldCounts
    <3> QED
      BY <1>1, <2>8, <2>9, <3>1, <3>2 DEF C!release, Without
  <2>12. Whole'
    BY <1>1, <1>2, <2>8, <2>9 DEF Whole
  <2> QED
    BY <1>1, <1>2, <1>4, <2>7, <2>8, <2>9, <2>10, <2>11, <2>12 DEF C!Destroy
<1> QED
  BY <1>3, <1>4 DEF C!Next

-----------------------------------------------------------------------------
(* umem_cache_create. *)

LEMMA FreshShape ==
    /\ Shape(Fresh, [p \in Pages |-> "none"], [p \in Pages |-> {}], {})
    /\ Fresh.nrfree = 0 /\ Fresh.nralloc = 0 /\ Fresh.nrpage = 0
    /\ \A p \in Pages : Fresh.used[Slab(p)] = 0
<1> DEFINE k == Fresh
           L == [p \in Pages |-> "none"]
           O == [p \in Pages |-> {}]
<1>1. /\ k.next = [n \in Nodes |-> IF n \in Heads THEN n ELSE 0]
      /\ k.prev = [n \in Nodes |-> IF n \in Heads THEN n ELSE 0]
      /\ k.used = [s \in {Slab(p) : p \in Pages} |-> 0]
      /\ k.nrfree = 0 /\ k.nralloc = 0 /\ k.nrpage = 0
      /\ DOMAIN k = {"next", "prev", "used", "nrfree", "nralloc", "nrpage"}
      /\ k = [f \in DOMAIN k |-> k[f]]
  BY DEF Fresh
<1> HIDE DEF k
<1>2. Memory(k)
  BY <1>1 DEF Memory, Listing
<1>3. ASSUME NEW name \in Three
      PROVE  IsList(k, HeadOf(name), Listed(L, name))
  <2>1. HeadOf(name) \in Heads /\ HeadOf(name) \in Nodes
    BY NodesHave
  <2>2. k.next[HeadOf(name)] = HeadOf(name) /\ k.prev[HeadOf(name)] = HeadOf(name)
    BY <1>1, <2>1
  <2>3. Listed(L, name) = {}
    BY DEF Listed, Three
  <2> QED
    BY <2>2, <2>3, EmptyList
<1>4. Shape(k, L, O, {})
  BY <1>2, <1>3 DEF Shape
<1>5. \A p \in Pages : k.used[Slab(p)] = 0
  BY <1>1
<1> QED
  BY <1>1, <1>4, <1>5 DEF k

LEMMA InitStep ==
    ASSUME Init
    PROVE  Whole /\ C!Init
<1> DEFINE L == [p \in Pages |-> "none"]
           O == [p \in Pages |-> {}]
<1>1. held = {} /\ live = TRUE /\ HeldFound /\ HeldObjects = {}
  BY DEF Init, HeldFound, HeldObjects
<1>2. nrsize \in Nat /\ nrsize * 0 = 0 /\ nrsize * 1 = nrsize /\ 0 + nrsize = nrsize
  BY Sizes
<1>3. C!Cardinality({}) = 0
  BY Counting, FS_EmptySet, Zenon
<1>4. ASSUME m = Fresh, mapped = {}
      PROVE  Whole /\ C!Init
  <2>1. Shape(m, L, O, mapped)
    BY <1>4, FreshShape
  <2>2. PageList = L /\ SlabList = O
    BY <2>1, ToldNow
  <2>3. UsedCount = [p \in Pages |-> 0]
    BY <1>4, FreshShape DEF UsedCount
  <2>4. m.nrfree = 0 /\ m.nralloc = 0 /\ m.nrpage = 0
    BY <1>4, FreshShape
  <2>5. Whole
    BY <1>1, <2>1, <2>2 DEF Whole
  <2>6. C!Init
    BY <1>1, <1>2, <1>3, <1>4, <2>2, <2>3, <2>4 DEF C!Init
  <2> QED
    BY <2>5, <2>6
<1>5. ASSUME NEW q \in Pages, m = get_one_page(Fresh, q), mapped = {q}
      PROVE  Whole /\ C!Init
  <2> DEFINE Q == [L EXCEPT ![q] = "free"]
             R == [O EXCEPT ![q] = 1..nrsize]
  <2>1. /\ Shape(m, Q, R, mapped)
        /\ m.used = [Fresh.used EXCEPT ![Slab(q)] = 0]
        /\ m.nrfree = nrsize /\ m.nralloc = 0 /\ m.nrpage = 1
    <3>1. {} \cup {q} = {q} /\ q \notin {}
      OBVIOUS
    <3>2. LET k == get_one_page(Fresh, q)
          IN  /\ Shape(k, Q, R, {q})
              /\ k.used = [Fresh.used EXCEPT ![Slab(q)] = 0]
              /\ k.nrfree = 0 + nrsize /\ k.nralloc = 0
              /\ k.nrpage = 0 + 1
      <4> DEFINE none == {}
                 fresh == Fresh
      <4>1. /\ Shape(fresh, L, O, none) /\ q \notin none /\ none \cup {q} = {q}
            /\ fresh.nrfree = 0 /\ fresh.nralloc = 0 /\ fresh.nrpage = 0
        BY FreshShape
      <4> HIDE DEF L, O, none, fresh
      <4>2. LET k == get_one_page(fresh, q)
            IN  /\ Shape(k, [L EXCEPT ![q] = "free"], [O EXCEPT ![q] = 1..nrsize], none \cup {q})
                /\ k.used = [fresh.used EXCEPT ![Slab(q)] = 0]
                /\ k.nrfree = fresh.nrfree + nrsize /\ k.nralloc = fresh.nralloc
                /\ k.nrpage = fresh.nrpage + 1
        BY <4>1, PageMade
      <4> QED
        BY <4>1, <4>2, Zenon DEF fresh
    <3>3. 0 + 1 = 1
      OBVIOUS
    <3> QED
      BY <1>2, <1>5, <3>2, <3>3, Zenon
  <2>2. PageList = Q /\ SlabList = R
    BY <2>1, ToldNow
  <2>3. UsedCount = [p \in Pages |-> 0]
    <3>1. ASSUME NEW p \in Pages
          PROVE  m.used[Slab(p)] = 0
      <4>1. Slab(p) \in {Slab(r) : r \in Pages}
        OBVIOUS
      <4>2. Fresh.used = [s \in {Slab(r) : r \in Pages} |-> 0]
        BY DEF Fresh
      <4> QED
        BY <2>1, <4>1, <4>2
    <3> QED
      BY <3>1 DEF UsedCount
  <2>4. C!Cardinality({q}) = 1
    BY Counting, FS_Singleton, Zenon
  <2>5. /\ Q = [p \in Pages |-> IF p \in {q} THEN "free" ELSE "none"]
        /\ R = [p \in Pages |-> IF p \in {q} THEN C!Objects ELSE {}]
    BY DEF C!Objects
  <2>6. Whole
    BY <1>1, <2>1, <2>2 DEF Whole
  <2> HIDE DEF Q, R
  <2>7. C!Init
    <3>1. {q} \in {{}} \cup {{p} : p \in Pages}
      OBVIOUS
    <3> QED
      BY <1>1, <1>2, <1>5, <2>1, <2>2, <2>3, <2>4, <2>5, <3>1 DEF C!Init
  <2> QED
    BY <2>6, <2>7
<1> QED
  BY <1>4, <1>5 DEF Init

\* A step that changes nothing changes nothing in SlabCache either.
LEMMA Stuttering ==
    ASSUME Good, UNCHANGED vars
    PROVE  Whole' /\ UNCHANGED C!vars
<1>1. m' = m /\ mapped' = mapped /\ held' = held /\ live' = live
  BY DEF vars
<1>2. /\ PageList' = PageList /\ SlabList' = SlabList /\ UsedCount' = UsedCount
      /\ HeldObjects' = HeldObjects /\ HeldFound' = HeldFound
  <2>1. \A h : On(h)' = On(h)
    BY <1>1 DEF On
  <2>2. PageList' = PageList
    BY <2>1 DEF PageList, ListOf
  <2>3. \A p : FreeObjects(p)' = FreeObjects(p)
    BY <1>1 DEF FreeObjects
  <2> QED
    BY <1>1, <2>2, <2>3 DEF SlabList, UsedCount, HeldObjects, HeldFound
<1>3. Whole'
  BY <1>1, <1>2 DEF Good, Whole
<1> QED
  BY <1>1, <1>2, <1>3 DEF C!vars

-----------------------------------------------------------------------------
(* What the pointers keep. *)

\* In every step the pointers stay lists, and the step is one of SlabCache.
LEMMA NextStep ==
    ASSUME Good, [Next]_vars
    PROVE  Good' /\ [C!Next]_(C!vars)
<1>1. Whole' /\ [C!Next]_(C!vars)
  <2>1. CASE Alloc
    BY <2>1, AllocStep
  <2>2. ASSUME NEW p \in Pages, AllocNewPage(p)
        PROVE  Whole' /\ C!Next
    BY <2>2, NewPageStep
  <2>3. ASSUME NEW mem \in held, Free(mem)
        PROVE  Whole' /\ C!Next
    BY <2>3, FreeStep
  <2>4. CASE Destroy
    BY <2>4, DestroyStep
  <2>5. CASE UNCHANGED vars
    BY <2>5, Stuttering
  <2> QED
    BY <2>1, <2>2, <2>3, <2>4, <2>5 DEF Next
<1>2. C!Inv'
  <2>1. C!Inv
    BY DEF Good
  <2> QED
    BY <1>1, <2>1, Assumed, C!NextInv
<1> QED
  BY <1>1, <1>2 DEF Good

\* The pointers are circular lists, one for each of the cache's three and one for
\* every page's free objects, with no node in common, whatever is allocated and
\* freed; and the counters agree with them.
THEOREM ListsKept == Spec => []Good
<1>1. Init => Good
  <2> SUFFICES ASSUME Init
               PROVE  Good
    OBVIOUS
  <2>1. Whole /\ C!Init
    BY InitStep
  <2>2. C!Inv
    BY <2>1, Assumed, C!InitInv
  <2> QED
    BY <2>1, <2>2 DEF Good
<1>2. Good /\ [Next]_vars => Good'
  BY NextStep
<1> QED
  BY <1>1, <1>2, PTL DEF Spec

\* Every step of the pointers is a step of SlabCache or changes nothing in it, as
\* the proofs about SlabCache have it.
LEMMA Implements == Spec => C!Spec
<1>1. Init => C!Init
  BY InitStep
<1>2. Good /\ [Next]_vars => [C!Next]_(C!vars)
  BY NextStep
<1> QED
  BY <1>1, <1>2, ListsKept, PTL DEF Spec, C!Spec

\* The pointers implement the abstract cache for any number of pages, any limits
\* and any sizes that fit: get_slab's arithmetic finds the slab of every object,
\* and what alloc and free do to the lists is what SlabCache says (slab.c).
THEOREM PointersImplement == Spec => ImplementsSlabCache
<1>1. C!Init => Cache!Init
  BY Zenon DEF C!Init, Cache!Init, C!Objects, Cache!Objects, C!Cardinality, Cache!Cardinality
<1>2. [C!Next]_(C!vars) => [Cache!Next]_(Cache!vars)
  BY Zenon DEF C!vars, C!Next, C!AllocPartial, C!AllocFree, C!AllocNewPage, C!Free,
               C!Destroy, C!TakeFrom, C!Unlinked, C!ListFor, C!In, C!Excess, C!release,
               C!Uncounted, C!ListAfter, C!ReleasedAtEnd, C!Objects, C!Cardinality,
               C!kSubset,
               Cache!vars, Cache!Next, Cache!AllocPartial, Cache!AllocFree,
               Cache!AllocNewPage, Cache!Free, Cache!Destroy, Cache!TakeFrom,
               Cache!Unlinked, Cache!ListFor, Cache!In, Cache!Excess, Cache!release,
               Cache!Uncounted, Cache!ListAfter, Cache!ReleasedAtEnd, Cache!Objects,
               Cache!Cardinality, Cache!kSubset
<1>3. C!Spec => Cache!Spec
  BY <1>1, <1>2, PTL DEF C!Spec, Cache!Spec
<1> QED
  BY <1>3, Implements, PTL DEF ImplementsSlabCache

\* No object is handed out twice: what the program holds is on no slab's list, in
\* the memory as it is (slab.c:287-299, 447).
THEOREM PointersGiveOnce == Spec => []HandedOutOnce
<1>1. C!Spec => []C!HandedOutOnce
  BY Assumed, C!GivenOnce
<1>2. C!HandedOutOnce => HandedOutOnce
  BY Zenon DEF HandedOutOnce, C!HandedOutOnce, Cache!HandedOutOnce, C!Objects, Cache!Objects
<1> QED
  BY <1>1, <1>2, Implements, PTL

\* The counters are those of the lists as a loop over them finds them, nrfree
\* included, on which umem_cache_alloc decides that it needs a page (slab.c:332).
THEOREM PointersCounted == Spec => []CountersAgree
<1>1. C!Spec => []C!CountersAgree
  BY Assumed, C!CountersHold
<1>2. C!CountersAgree => CountersAgree
  BY Zenon DEF CountersAgree, C!CountersAgree, Cache!CountersAgree, C!In, Cache!In,
               C!Cardinality, Cache!Cardinality, C!MapThenSumSet, Cache!MapThenSumSet,
               C!MapThenFoldSet, Cache!MapThenFoldSet
<1> QED
  BY <1>1, <1>2, Implements, PTL

\* check_free and umem_cache_destroy find the empty slabs on the free list and
\* take off it as many as they should (slab.c:376-400).
THEOREM PointersGoBack == Spec => []PagesGivenBack
<1>1. C!Spec => [](C!EmptyPagesBounded /\ C!NothingKept)
  BY Assumed, C!PagesGoBack
<1>2. C!EmptyPagesBounded /\ C!NothingKept => PagesGivenBack
  BY Zenon DEF PagesGivenBack, C!EmptyPagesBounded, C!NothingKept, Cache!EmptyPagesBounded,
               Cache!NothingKept, C!In, Cache!In, C!Cardinality, Cache!Cardinality
<1> QED
  BY <1>1, <1>2, Implements, PTL

\* What the inductive invariant says of the nodes.
LEMMA NodesWhole ==
    ASSUME Good
    PROVE  ListsWhole
<1>1. Shape(m, PageList, SlabList, mapped) /\ HeldFound /\ C!Inv /\ C!Sound
  BY DEF Good, Whole, C!Inv
<1>2. PageList \in [Pages -> Three \cup {"none"}] /\ SlabList \in [Pages -> SUBSET (1..nrsize)]
  BY <1>1 DEF Shape
<1>3. Cached = {p \in Pages : PageList[p] # "none"}
  BY DEF Cached, PageList
<1>4. ASSUME NEW p \in Cached
      PROVE  /\ p \in Pages /\ p \in mapped /\ PageList[p] \in Three
             /\ FreeObjects(p) = SlabList[p] /\ SlabList[p] \in SUBSET (1..nrsize)
             /\ Visited(m, ObjectList(Slab(p)), nrsize) = Loose(p, SlabList[p])
             /\ Linked(m, Loose(p, SlabList[p]) \cup {ObjectList(Slab(p))})
  <2>1. p \in Pages /\ PageList[p] # "none"
    BY <1>3
  <2>2. p \in mapped
    BY <1>1, <2>1 DEF C!Sound
  <2>3. Visited(m, ObjectList(Slab(p)), nrsize) = Loose(p, SlabList[p])
    BY <1>1, <2>2, ObjectsVisited
  <2>4. FreeObjects(p) = SlabList[p]
    BY <2>1, <2>2 DEF SlabList
  <2>5. IsList(m, ObjectList(Slab(p)), Loose(p, SlabList[p]))
    BY <1>1, <2>2 DEF Shape
  <2>6. Linked(m, Loose(p, SlabList[p]) \cup {ObjectList(Slab(p))})
    BY <2>5, RingLinked
  <2> QED
    BY <1>2, <2>1, <2>2, <2>3, <2>4, <2>6
<1>5. ASSUME NEW name \in Three
      PROVE  /\ On(HeadOf(name)) = Listed(PageList, name)
             /\ Linked(m, Listed(PageList, name) \cup {HeadOf(name)})
             /\ HeadOf(name) \in Heads
             /\ Listed(PageList, name) \subseteq {Slab(p) : p \in Cached}
  <2>1. On(HeadOf(name)) = Listed(PageList, name)
    BY <1>1, SlabsVisited DEF On
  <2>2. IsList(m, HeadOf(name), Listed(PageList, name))
    BY <1>1 DEF Shape
  <2>3. name # "none"
    BY DEF Three
  <2> QED
    BY <1>3, <2>1, <2>2, <2>3, RingLinked, NodesHave DEF Listed
<1>6. \A h \in Heads : \E name \in Three : h = HeadOf(name)
  BY DEF Heads, Three, HeadOf
<1>7. \A n : n \in LinkedNodes <=>
             \/ n \in Heads
             \/ \E p \in Cached : n = Slab(p)
             \/ \E p \in Cached : n = ObjectList(Slab(p))
             \/ \E p \in Cached : n \in Loose(p, SlabList[p])
  <2>1. \A p \in Cached : {Object(p, i) : i \in FreeObjects(p)} = Loose(p, SlabList[p])
    BY <1>4 DEF Loose
  <2>2. LinkedNodes = Heads \cup UNION {{Slab(p), ObjectList(Slab(p))}
                                           \cup Loose(p, SlabList[p]) : p \in Cached}
    BY <2>1 DEF LinkedNodes
  <2> QED
    BY <2>2
<1>8. ASSUME NEW n \in LinkedNodes
      PROVE  \E T \in SUBSET LinkedNodes : n \in T /\ Linked(m, T)
  <2>1. ASSUME NEW name \in Three, n \in Listed(PageList, name) \cup {HeadOf(name)}
        PROVE  \E T \in SUBSET LinkedNodes : n \in T /\ Linked(m, T)
    <3> DEFINE T == Listed(PageList, name) \cup {HeadOf(name)}
    <3>1. T \in SUBSET LinkedNodes
      BY <1>5, <1>7
    <3>2. n \in T /\ Linked(m, T)
      BY <1>5, <2>1
    <3> HIDE DEF T
    <3> QED
      BY <3>1, <3>2
  <2>2. ASSUME NEW p \in Cached, n \in Loose(p, SlabList[p]) \cup {ObjectList(Slab(p))}
        PROVE  \E T \in SUBSET LinkedNodes : n \in T /\ Linked(m, T)
    <3> DEFINE T == Loose(p, SlabList[p]) \cup {ObjectList(Slab(p))}
    <3>1. T \in SUBSET LinkedNodes
      BY <1>7
    <3>2. n \in T /\ Linked(m, T)
      BY <1>4, <2>2
    <3> HIDE DEF T
    <3> QED
      BY <3>1, <3>2
  <2>3. ASSUME NEW p \in Cached, n = Slab(p)
        PROVE  \E T \in SUBSET LinkedNodes : n \in T /\ Linked(m, T)
    <3>1. PageList[p] \in Three /\ n \in Listed(PageList, PageList[p])
      BY <1>4, <2>3 DEF Listed
    <3> QED
      BY <2>1, <3>1
  <2> QED
    BY <1>6, <1>7, <2>1, <2>2, <2>3
<1>9. Linked(m, LinkedNodes)
  BY <1>8 DEF Linked
<1>10. LinkedNodes \cap held = {}
  <2> SUFFICES ASSUME NEW n \in held, n \in LinkedNodes
               PROVE  FALSE
    OBVIOUS
  <2>1. PICK p \in Pages : \E i \in 1..nrsize : n = Object(p, i)
    BY <1>1 DEF HeldFound
  <2>2. PICK i \in 1..nrsize : n = Object(p, i)
    BY <2>1
  <2>3. i \notin SlabList[p]
    BY <2>2, HeldTold
  <2>4. PICK q \in Cached : n \in Loose(q, SlabList[q])
    BY <1>4, <1>7, <2>2, Apart
  <2>5. PICK j \in SlabList[q] : n = Object(q, j)
    BY <2>4 DEF Loose
  <2>6. q \in Pages /\ j \in 1..nrsize
    BY <1>4
  <2>7. p = q /\ i = j
    <3>1. Object(p, i) = Object(q, j)
      BY <2>2, <2>5, Zenon
    <3> QED
      BY <2>6, <3>1, Apart
  <2> QED
    BY <2>3, <2>5, <2>7, Zenon
<1>11. ASSUME NEW p \in Cached
       PROVE  /\ Visited(m, ObjectList(Slab(p)), nrsize) \subseteq ObjectsOf(p)
              /\ Cardinality({h \in Heads : Slab(p) \in On(h)}) = 1
  <2>1. Visited(m, ObjectList(Slab(p)), nrsize) \subseteq ObjectsOf(p)
    BY <1>4 DEF Loose, ObjectsOf
  <2>2. \A name \in Three : Slab(p) \in Listed(PageList, name) <=> PageList[p] = name
    BY <1>4, Apart DEF Listed
  <2>3. {h \in Heads : Slab(p) \in On(h)} = {HeadOf(PageList[p])}
    <3>1. ASSUME NEW h \in Heads
          PROVE  Slab(p) \in On(h) <=> h = HeadOf(PageList[p])
      <4>1. PICK name \in Three : h = HeadOf(name)
        BY <1>6
      <4>2. Slab(p) \in On(h) <=> PageList[p] = name
        BY <1>5, <2>2, <4>1
      <4>3. PageList[p] \in Three
        BY <1>4
      <4>4. HeadOf(name) = HeadOf(PageList[p]) => name = PageList[p]
        BY <4>3 DEF Three, HeadOf, slabs_partial, slabs_full, slabs_free
      <4> QED
        BY <4>1, <4>2, <4>4
    <3>2. HeadOf(PageList[p]) \in Heads
      BY <1>4, <1>5
    <3> QED
      BY <3>1, <3>2
  <2>4. Cardinality({HeadOf(PageList[p])}) = 1
    BY FS_Singleton, Zenon
  <2> QED
    BY <2>1, <2>3, <2>4
<1>12. ASSUME NEW h \in Heads
       PROVE  On(h) \subseteq {Slab(p) : p \in Pages}
  <2>1. PICK name \in Three : h = HeadOf(name)
    BY <1>6
  <2>2. Cached \subseteq Pages
    BY <1>3
  <2> QED
    BY <1>5, <2>1, <2>2
<1> QED
  BY <1>9, <1>10, <1>11, <1>12 DEF ListsWhole

\* The nodes in use by the cache are linked both ways, and each list is met from
\* its own head alone: no list runs into another or into an object that the
\* program holds (list.h:28-153).
THEOREM PointersWhole == Spec => []ListsWhole
<1>1. Good => ListsWhole
  BY NodesWhole
<1> QED
  BY <1>1, ListsKept, PTL
=============================================================================
