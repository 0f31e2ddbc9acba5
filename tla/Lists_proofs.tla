---------------------------- MODULE Lists_proofs ----------------------------
(***************************************************************************)
(* What list.h and hlist.h keep: whatever is added to, taken out of or     *)
(* moved between lists, every node stays between its neighbours, for any   *)
(* number of lists and nodes.                                              *)
(***************************************************************************)
EXTENDS LinkedList, HList, FiniteSetTheorems, TLAPS

\* A memory that has the two fields of list.h at these addresses.
Listing(m, addresses) ==
    /\ m = [f \in DOMAIN m |-> m[f]] /\ {"next", "prev"} \subseteq DOMAIN m
    /\ m.next = [a \in addresses |-> m.next[a]]
    /\ m.prev = [a \in addresses |-> m.prev[a]]

\* A node that was in no list becomes a list of its own (list.h:28).
THEOREM InitLinks ==
    ASSUME NEW m, NEW A, Listing(m, A), NEW S \in SUBSET A, Linked(m, S),
           NEW n \in A, n \notin S
    PROVE  Linked(list_init(m, n), S \cup {n})
BY DEF Listing, Linked, list_init

LEMMA FieldsAdded ==
    ASSUME NEW m, NEW A, Listing(m, A), NEW head \in A, NEW n \in A, m.next[head] \in A
    PROVE  LET k == list_add_head(m, head, n) IN
           /\ Listing(k, A)
           /\ \A x \in A : k.next[x] = IF x = head THEN n
                                       ELSE IF x = n THEN m.next[head] ELSE m.next[x]
           /\ \A x \in A : k.prev[x] = IF x = n THEN head
                                       ELSE IF x = m.next[head] THEN n ELSE m.prev[x]
BY DEF Listing, list_add_head

\* A node added after any node of a list is linked into it (list.h:33, 68).
THEOREM AddHeadLinks ==
    ASSUME NEW m, NEW A, Listing(m, A), NEW S \in SUBSET A, Linked(m, S),
           NEW head \in S, NEW n \in A, n \notin S
    PROVE  Linked(list_add_head(m, head, n), S \cup {n})
<1>1. m.next[head] \in S /\ m.next[head] \in A
  BY DEF Linked
<1> DEFINE k == list_add_head(m, head, n)
<1>2. /\ \A x \in A : k.next[x] = IF x = head THEN n
                                  ELSE IF x = n THEN m.next[head] ELSE m.next[x]
      /\ \A x \in A : k.prev[x] = IF x = n THEN head
                                  ELSE IF x = m.next[head] THEN n ELSE m.prev[x]
  BY <1>1, FieldsAdded
<1> HIDE DEF k
<1>3. Linked(k, S \cup {n})
  BY <1>1, <1>2 DEF Linked
<1> QED
  BY <1>3 DEF k

\* So is one added before it (list.h:73).
THEOREM AddTailLinks ==
    ASSUME NEW m, NEW A, Listing(m, A), NEW S \in SUBSET A, Linked(m, S),
           NEW head \in S, NEW n \in A, n \notin S
    PROVE  Linked(list_add_tail(m, head, n), S \cup {n})
<1>1. m.prev[head] \in S
  BY DEF Linked
<1> QED
  BY <1>1, AddHeadLinks DEF list_add_tail

LEMMA FieldsDeleted ==
    ASSUME NEW m, NEW A, Listing(m, A), NEW n \in A, m.next[n] \in A, m.prev[n] \in A,
           m.prev[n] = n => m.next[n] = n
    PROVE  LET k == list_del_element(m, n) IN
           /\ Listing(k, A)
           /\ \A x \in A : k.next[x] = IF x = n THEN n
                                       ELSE IF x = m.prev[n] THEN m.next[n] ELSE m.next[x]
           /\ \A x \in A : k.prev[x] = IF x = n THEN n
                                       ELSE IF x = m.next[n] THEN m.prev[n] ELSE m.prev[x]
BY DEF Listing, list_del_element, list_del, list_init

\* A node taken out of its list leaves the list whole and is linked to itself
\* (list.h:81, 113).
THEOREM DelLinks ==
    ASSUME NEW m, NEW A, Listing(m, A), NEW S \in SUBSET A, Linked(m, S), NEW n \in S
    PROVE  /\ Linked(list_del_element(m, n), S \ {n})
           /\ list_empty(list_del_element(m, n), n)
           /\ Listing(list_del_element(m, n), A)
<1>1. m.next[n] \in S /\ m.prev[n] \in S /\ m.next[n] \in A /\ m.prev[n] \in A
  BY DEF Linked
<1>2. m.prev[n] = n => m.next[n] = n
  BY DEF Linked
<1> DEFINE k == list_del_element(m, n)
<1>3. /\ Listing(k, A)
      /\ \A x \in A : k.next[x] = IF x = n THEN n
                                  ELSE IF x = m.prev[n] THEN m.next[n] ELSE m.next[x]
      /\ \A x \in A : k.prev[x] = IF x = n THEN n
                                  ELSE IF x = m.next[n] THEN m.prev[n] ELSE m.prev[x]
  BY <1>1, <1>2, FieldsDeleted
<1> HIDE DEF k
<1>4. Linked(k, S \ {n})
  BY <1>1, <1>3 DEF Linked
<1>5. list_empty(k, n)
  BY <1>3 DEF list_empty
<1> QED
  BY <1>3, <1>4, <1>5 DEF k

\* A node moved to the end of a list, another or its own, leaves all lists whole
\* (list.h:129).
THEOREM MoveLinks ==
    ASSUME NEW m, NEW A, Listing(m, A), NEW S \in SUBSET A, Linked(m, S),
           NEW dest \in S, NEW src \in S, dest # src
    PROVE  Linked(list_move(m, dest, src), S)
<1> DEFINE k == list_del_element(m, src)
<1>1. Linked(k, S \ {src}) /\ Listing(k, A)
  BY DelLinks
<1> HIDE DEF k
<1>2. Linked(list_add_tail(k, dest, src), (S \ {src}) \cup {src})
  BY <1>1, AddTailLinks
<1>3. (S \ {src}) \cup {src} = S
  OBVIOUS
<1> QED
  BY <1>2, <1>3 DEF list_move, k

-----------------------------------------------------------------------------
\* A memory that has the fields of hlist.h for these heads and nodes.
HListing(m, addresses, places) ==
    /\ m = [f \in DOMAIN m |-> m[f]] /\ {"next", "pprev"} \subseteq DOMAIN m
    /\ m.next = [a \in addresses |-> m.next[a]]
    /\ m.pprev = [a \in places |-> m.pprev[a]]

\* A node added at a head or after a node is chained (hlist.h:53, 74).
THEOREM HAddChains ==
    ASSUME NEW m, NEW A, NEW P, HListing(m, A, P), NULL \notin A,
           NEW H \in SUBSET A, NEW S \in SUBSET (A \cap P), Chained(m, H, S),
           H \cap S = {}, NEW p \in H \cup S, NEW n \in A \cap P, n \notin S \cup H
    PROVE  Chained(hlist_add_head(m, p, n), H, S \cup {n})
<1> DEFINE k == hlist_add_head(m, p, n)
<1>1. /\ \A x \in A : k.next[x] = IF x = p THEN n ELSE IF x = n THEN m.next[p] ELSE m.next[x]
      /\ \A x \in P : k.pprev[x] = IF x = n THEN p ELSE IF x = m.next[p] THEN n ELSE m.pprev[x]
  BY DEF HListing, hlist_add_head
<1> HIDE DEF k
<1>2. m.next[p] # NULL => m.next[p] \in S /\ m.pprev[m.next[p]] = p
  BY DEF Chained
<1>3. ASSUME NEW x \in H \cup S \cup {n}
      PROVE  k.next[x] # NULL => k.next[x] \in S \cup {n} /\ k.pprev[k.next[x]] = x
  BY <1>1, <1>2 DEF Chained
<1>4. ASSUME NEW x \in S \cup {n}
      PROVE  k.pprev[x] \in H \cup S \cup {n} /\ k.next[k.pprev[x]] = x
  BY <1>1, <1>2 DEF Chained
<1>5. Chained(k, H, S \cup {n})
  BY <1>3, <1>4 DEF Chained
<1> QED
  BY <1>5 DEF k

\* So is one added before a node (hlist.h:95).
THEOREM HAddBeforeChains ==
    ASSUME NEW m, NEW A, NEW P, HListing(m, A, P), NULL \notin A,
           NEW H \in SUBSET A, NEW S \in SUBSET (A \cap P), Chained(m, H, S),
           H \cap S = {}, NEW b \in S, NEW n \in A \cap P, n \notin S \cup H
    PROVE  Chained(hlist_add_before(m, b, n), H, S \cup {n})
<1> DEFINE k == hlist_add_before(m, b, n)
           q == m.pprev[b]
<1>1. q \in H \cup S /\ m.next[q] = b
  BY DEF Chained
<1>2. /\ \A x \in A : k.next[x] = IF x = q THEN n ELSE IF x = n THEN b ELSE m.next[x]
      /\ \A x \in P : k.pprev[x] = IF x = n THEN q ELSE IF x = b THEN n ELSE m.pprev[x]
  BY <1>1 DEF HListing, hlist_add_before
<1> HIDE DEF k
<1>3. ASSUME NEW x \in H \cup S \cup {n}
      PROVE  k.next[x] # NULL => k.next[x] \in S \cup {n} /\ k.pprev[k.next[x]] = x
  BY <1>1, <1>2 DEF Chained
<1>4. ASSUME NEW x \in S \cup {n}
      PROVE  k.pprev[x] \in H \cup S \cup {n} /\ k.next[k.pprev[x]] = x
  BY <1>1, <1>2 DEF Chained
<1>5. Chained(k, H, S \cup {n})
  BY <1>3, <1>4 DEF Chained
<1> QED
  BY <1>5 DEF k

\* A node taken out leaves the others chained, whether it was the first of its
\* list, the last, both or neither (hlist.h:106).
THEOREM HDelChains ==
    ASSUME NEW m, NEW A, NEW P, HListing(m, A, P), NULL \notin A,
           NEW H \in SUBSET A, NEW S \in SUBSET (A \cap P), Chained(m, H, S),
           H \cap S = {}, NEW h \in H, NEW n \in S
    PROVE  Chained(hlist_del(m, h, n), H, S \ {n})
<1> DEFINE k == hlist_del(m, h, n)
           q == m.pprev[n]
<1>1. q \in H \cup S /\ m.next[q] = n
  BY DEF Chained
<1>2. m.next[h] = n => h = q
  BY DEF Chained
<1>3. /\ \A x \in A : k.next[x] = IF x = n THEN NULL
                                  ELSE IF x = q \/ (x = h /\ m.next[h] = n) THEN m.next[n]
                                  ELSE m.next[x]
      /\ \A x \in P : k.pprev[x] = IF x = n THEN NULL
                                   ELSE IF x = m.next[n] THEN q ELSE m.pprev[x]
  BY DEF HListing, hlist_del
<1> HIDE DEF k
<1>4. m.next[n] # NULL => m.next[n] \in S /\ m.pprev[m.next[n]] = n
  BY DEF Chained
<1>5. ASSUME NEW x \in H \cup (S \ {n})
      PROVE  k.next[x] # NULL => k.next[x] \in S \ {n} /\ k.pprev[k.next[x]] = x
  BY <1>1, <1>2, <1>3, <1>4 DEF Chained
<1>6. ASSUME NEW x \in S \ {n}
      PROVE  k.pprev[x] \in H \cup (S \ {n}) /\ k.next[k.pprev[x]] = x
  BY <1>1, <1>2, <1>3, <1>4 DEF Chained
<1>7. Chained(k, H, S \ {n})
  BY <1>5, <1>6 DEF Chained
<1> QED
  BY <1>7 DEF k

-----------------------------------------------------------------------------
(* Lists as sets.  A list of n nodes is a ring of n + 1 with its head; which *)
(* nodes are on it is all that the users of list.h need.                     *)

\* c gives the head and then the n nodes of its list.
Ring(m, head, S, n, c) ==
    /\ n \in Nat /\ c \in [0..n -> S \cup {head}] /\ c[0] = head /\ head \notin S
    /\ \A x \in S : \E i \in 1..n : c[i] = x
    /\ \A i, j \in 0..n : c[i] = c[j] => i = j
    /\ \A i \in 0..(n - 1) : m.next[c[i]] = c[i + 1] /\ m.prev[c[i + 1]] = c[i]
    /\ m.next[c[n]] = head /\ m.prev[head] = c[n]

\* The nodes on the list of this head.
IsList(m, head, S) == \E n, c : Ring(m, head, S, n, c)

LEMMA RingNodes ==
    ASSUME NEW m, NEW head, NEW S, NEW n, NEW c, Ring(m, head, S, n, c)
    PROVE  /\ n \in Nat /\ 0 \in 0..n /\ n \in 0..n
           /\ \A i \in 0..n : c[i] = head <=> i = 0
           /\ \A i \in 1..n : c[i] \in S
           /\ S = {} <=> n = 0
<1>1. n \in Nat /\ 0 \in 0..n /\ n \in 0..n /\ 1..n \subseteq 0..n
  BY DEF Ring
<1>2. \A i \in 0..n : c[i] = head <=> i = 0
  BY <1>1 DEF Ring
<1>3. \A i \in 1..n : c[i] \in S
  <2>1. ASSUME NEW i \in 1..n
        PROVE  c[i] \in S
    <3>1. i \in 0..n /\ i # 0
      BY <1>1
    <3> QED
      BY <1>2, <3>1 DEF Ring
  <2> QED
    BY <2>1
<1>4. S = {} <=> n = 0
  <2>1. n # 0 => 1 \in 1..n
    BY <1>1
  <2>2. n = 0 => \A i \in 1..n : FALSE
    OBVIOUS
  <2>3. n # 0 => S # {}
    BY <1>3, <2>1
  <2>4. n = 0 => S = {}
    BY <2>2 DEF Ring
  <2> QED
    BY <2>3, <2>4
<1> QED
  BY <1>1, <1>2, <1>3, <1>4

\* Every node of a list, and its head, is between its neighbours.
LEMMA RingLinked ==
    ASSUME NEW m, NEW head, NEW S, IsList(m, head, S)
    PROVE  Linked(m, S \cup {head}) /\ head \notin S
<1>1. PICK n, c : Ring(m, head, S, n, c)
  BY DEF IsList
<1>2. n \in Nat /\ 0 \in 0..n /\ n \in 0..n /\ c[0] = head /\ head \notin S
  BY <1>1, RingNodes DEF Ring
<1>3. ASSUME NEW i \in 0..n
      PROVE  /\ m.next[c[i]] \in S \cup {head} /\ m.prev[c[i]] \in S \cup {head}
             /\ m.prev[m.next[c[i]]] = c[i] /\ m.next[m.prev[c[i]]] = c[i]
  <2>1. m.next[c[i]] \in S \cup {head} /\ m.prev[m.next[c[i]]] = c[i]
    <3>1. CASE i = n
      BY <1>1, <3>1 DEF Ring
    <3>2. CASE i # n
      <4>1. i \in 0..(n - 1) /\ i + 1 \in 0..n
        BY <1>2, <3>2
      <4> QED
        BY <1>1, <4>1 DEF Ring
    <3> QED
      BY <3>1, <3>2
  <2>2. m.prev[c[i]] \in S \cup {head} /\ m.next[m.prev[c[i]]] = c[i]
    <3>1. CASE i = 0
      BY <1>1, <1>2, <3>1 DEF Ring
    <3>2. CASE i # 0
      <4>1. i - 1 \in 0..(n - 1) /\ i - 1 \in 0..n /\ i = (i - 1) + 1
        BY <1>2, <3>2
      <4>2. PICK h \in 0..(n - 1) : h \in 0..n /\ i = h + 1
        BY <4>1
      <4>3. m.next[c[h]] = c[h + 1] /\ m.prev[c[h + 1]] = c[h] /\ c[h] \in S \cup {head}
        BY <1>1, <4>2 DEF Ring
      <4> QED
        BY <4>2, <4>3
    <3> QED
      BY <3>1, <3>2
  <2> QED
    BY <2>1, <2>2
<1>4. ASSUME NEW x \in S \cup {head}
      PROVE  \E i \in 0..n : c[i] = x
  <2>1. 1..n \subseteq 0..n
    BY <1>2
  <2> QED
    BY <1>1, <1>2, <1>4, <2>1 DEF Ring
<1>5. Linked(m, S \cup {head})
  BY <1>3, <1>4 DEF Linked
<1> QED
  BY <1>2, <1>5

\* The first node of a list is on it, and is the head when there is none.
LEMMA FirstOfList ==
    ASSUME NEW m, NEW head, NEW S, IsList(m, head, S)
    PROVE  /\ list_empty(m, head) <=> S = {}
           /\ S # {} => m.next[head] \in S
           /\ m.next[head] \in S \cup {head}
<1>1. PICK n, c : Ring(m, head, S, n, c)
  BY DEF IsList
<1>2. /\ n \in Nat /\ 0 \in 0..n
      /\ S = {} <=> n = 0
      /\ c[0] = head /\ head \notin S /\ \A i \in 1..n : c[i] \in S
  BY <1>1, RingNodes DEF Ring
<1>3. CASE n = 0
  BY <1>1, <1>2, <1>3 DEF Ring, list_empty
<1>4. CASE n # 0
  <2>1. 0 \in 0..(n - 1) /\ 0 + 1 \in 1..n
    BY <1>2, <1>4
  <2>2. m.next[head] \in S
    BY <1>1, <1>2, <2>1 DEF Ring
  <2> QED
    BY <1>2, <1>4, <2>2 DEF list_empty
<1> QED
  BY <1>3, <1>4

\* A list is what it was as long as its nodes are.
LEMMA ListKept ==
    ASSUME NEW m, NEW k, NEW head, NEW S, IsList(m, head, S),
           \A x \in S \cup {head} : k.next[x] = m.next[x] /\ k.prev[x] = m.prev[x]
    PROVE  IsList(k, head, S)
<1>1. PICK n, c : Ring(m, head, S, n, c)
  BY DEF IsList
<1>2. n \in Nat /\ \A i \in 0..n : c[i] \in S \cup {head}
  BY <1>1 DEF Ring
<1>3. \A i \in 0..(n - 1) : i \in 0..n /\ i + 1 \in 0..n
  BY <1>2
<1>4. n \in 0..n /\ head \in S \cup {head}
  BY <1>2
<1>5. Ring(k, head, S, n, c)
  BY <1>1, <1>2, <1>3, <1>4 DEF Ring
<1> QED
  BY <1>5 DEF IsList

\* A head that was just initialised has an empty list.
LEMMA EmptyList ==
    ASSUME NEW m, NEW head, m.next[head] = head, m.prev[head] = head
    PROVE  IsList(m, head, {})
<1> DEFINE c == [i \in 0..0 |-> head]
<1>1. 0..0 = {0} /\ 0 \in Nat /\ 1..0 = {} /\ 0..(0 - 1) = {}
  OBVIOUS
<1>2. c \in [0..0 -> {} \cup {head}] /\ c[0] = head
  BY <1>1
<1> HIDE DEF c
<1>3. Ring(m, head, {}, 0, c)
  BY <1>1, <1>2 DEF Ring
<1> QED
  BY <1>3 DEF IsList

\* A node added at the head of a list is on it.
LEMMA ListAddHead ==
    ASSUME NEW m, NEW A, Listing(m, A), NEW head \in A, NEW S \in SUBSET A,
           IsList(m, head, S), NEW x \in A, x \notin S, x # head
    PROVE  IsList(list_add_head(m, head, x), head, S \cup {x})
<1>1. PICK n, c : Ring(m, head, S, n, c)
  BY DEF IsList
<1>2. /\ n \in Nat /\ 0 \in 0..n /\ n \in 0..n /\ c[0] = head /\ head \notin S
      /\ \A i \in 0..n : c[i] = head <=> i = 0
      /\ \A i \in 1..n : c[i] \in S
      /\ \A i \in 0..n : c[i] \in S \cup {head} /\ c[i] # x
  BY <1>1, RingNodes DEF Ring
<1>3. m.next[head] \in S \cup {head} /\ m.next[head] \in A
  BY <1>1, FirstOfList DEF IsList
<1> DEFINE k == list_add_head(m, head, x)
           d == [i \in 0..(n + 1) |-> IF i = 0 THEN head ELSE IF i = 1 THEN x ELSE c[i - 1]]
<1>4. /\ \A y \in A : k.next[y] = IF y = head THEN x
                                  ELSE IF y = x THEN m.next[head] ELSE m.next[y]
      /\ \A y \in A : k.prev[y] = IF y = x THEN head
                                  ELSE IF y = m.next[head] THEN x ELSE m.prev[y]
  BY <1>3, FieldsAdded
<1>5. /\ d[0] = head /\ d[1] = x
      /\ \A h \in 1..n : h + 1 \in 0..(n + 1) /\ h + 1 \in 1..(n + 1) /\ d[h + 1] = c[h]
      /\ \A i \in 0..(n + 1) : i = 0 \/ i = 1 \/ \E h \in 1..n : i = h + 1
      /\ d = [i \in 0..(n + 1) |-> d[i]]
  <2>1. ASSUME NEW h \in 1..n
        PROVE  h + 1 \in 0..(n + 1) /\ h + 1 \in 1..(n + 1) /\ d[h + 1] = c[h]
    <3>1. h + 1 \in 0..(n + 1) /\ h + 1 \in 1..(n + 1) /\ h + 1 # 0 /\ h + 1 # 1
          /\ (h + 1) - 1 = h
      BY <1>2
    <3> QED
      BY <3>1
  <2>2. ASSUME NEW i \in 0..(n + 1), i # 0, i # 1
        PROVE  \E h \in 1..n : i = h + 1
    <3>1. i - 1 \in 1..n /\ i = (i - 1) + 1
      BY <1>2, <2>2
    <3> QED
      BY <3>1
  <2>3. d[0] = head /\ d[1] = x /\ d = [i \in 0..(n + 1) |-> d[i]]
    <3>1. 0 \in 0..(n + 1) /\ 1 \in 0..(n + 1)
      BY <1>2
    <3> QED
      BY <3>1
  <2> HIDE DEF d
  <2> QED
    BY <2>1, <2>2, <2>3
<1> HIDE DEF k, d
<1>6. d \in [0..(n + 1) -> (S \cup {x}) \cup {head}]
  <2>1. ASSUME NEW i \in 0..(n + 1)
        PROVE  d[i] \in (S \cup {x}) \cup {head}
    <3>1. CASE i = 0 \/ i = 1
      BY <1>5, <3>1
    <3>2. CASE \E h \in 1..n : i = h + 1
      BY <1>2, <1>5, <3>2
    <3> QED
      BY <1>5, <3>1, <3>2
  <2> QED
    BY <1>5, <2>1
<1>7. \A y \in S \cup {x} : \E i \in 1..(n + 1) : d[i] = y
  <2>1. 1 \in 1..(n + 1)
    BY <1>2
  <2>2. ASSUME NEW y \in S
        PROVE  \E i \in 1..(n + 1) : d[i] = y
    <3>1. PICK h \in 1..n : c[h] = y
      BY <1>1 DEF Ring
    <3> QED
      BY <1>5, <3>1
  <2> QED
    BY <1>5, <2>1, <2>2
<1>8. \A i, j \in 0..(n + 1) : d[i] = d[j] => i = j
  <2>1. ASSUME NEW g \in 1..n, NEW h \in 1..n, d[g + 1] = d[h + 1]
        PROVE  g = h
    <3>1. g \in 0..n /\ h \in 0..n
      BY <1>2
    <3>2. c[g] = c[h]
      BY <1>5, <2>1
    <3> QED
      BY <1>1, <3>1, <3>2 DEF Ring
  <2>2. \A h \in 1..n : d[h + 1] # head /\ d[h + 1] # x
    <3>1. ASSUME NEW h \in 1..n
          PROVE  d[h + 1] # head /\ d[h + 1] # x
      <4>1. h \in 0..n /\ h # 0 /\ d[h + 1] = c[h]
        BY <1>2, <1>5
      <4> QED
        BY <1>2, <4>1
    <3> QED
      BY <3>1
  <2>3. ASSUME NEW i \in 0..(n + 1), NEW j \in 0..(n + 1), d[i] = d[j]
        PROVE  i = j
    <3>1. CASE i \in {0, 1}
      <4>1. d[i] \in {head, x} /\ d[0] # d[1]
        BY <1>5, <3>1
      <4>2. d[j] = head \/ d[j] = x
        BY <2>3, <4>1
      <4>3. ~ (\E h \in 1..n : j = h + 1)
        BY <2>2, <4>2
      <4>4. j = 0 \/ j = 1
        BY <1>5, <4>3
      <4> QED
        BY <2>3, <3>1, <4>1, <4>4
    <3>2. CASE i \notin {0, 1}
      <4>1. PICK g \in 1..n : i = g + 1
        BY <1>5, <3>2
      <4>2. d[j] # head /\ d[j] # x
        BY <2>2, <2>3, <4>1
      <4>3. PICK h \in 1..n : j = h + 1
        BY <1>5, <4>2
      <4> QED
        BY <2>1, <2>3, <4>1, <4>3
    <3> QED
      BY <3>1, <3>2
  <2> QED
    BY <2>3
<1>9. \A i \in 0..n : k.next[d[i]] = d[i + 1] /\ k.prev[d[i + 1]] = d[i]
  <2>1. k.next[d[0]] = d[0 + 1] /\ k.prev[d[0 + 1]] = d[0]
    BY <1>4, <1>5
  <2>2. ASSUME n # 0
        PROVE  k.next[d[1]] = d[1 + 1] /\ k.prev[d[1 + 1]] = d[1]
    <3>1. 0 \in 0..(n - 1) /\ 0 + 1 = 1 /\ 1 \in 1..n
      BY <1>2, <2>2
    <3>2. m.next[c[0]] = c[0 + 1]
      BY <1>1, <3>1 DEF Ring
    <3>3. m.next[head] = c[1]
      BY <1>2, <3>1, <3>2
    <3>4. d[1 + 1] = c[1] /\ c[1] \in S
      BY <1>2, <1>5, <3>1
    <3> QED
      BY <1>4, <1>5, <3>3, <3>4
  <2>3. ASSUME NEW h \in 1..n, h + 1 \in 1..n
        PROVE  k.next[d[h + 1]] = d[(h + 1) + 1] /\ k.prev[d[(h + 1) + 1]] = d[h + 1]
    <3>1. /\ h \in 0..(n - 1) /\ h + 1 # 1 /\ 1 \in 0..n /\ h + 1 \in 0..n
          /\ 0 \in 0..(n - 1) /\ 0 + 1 = 1
      BY <1>2, <2>3
    <3>2. d[h + 1] = c[h] /\ d[(h + 1) + 1] = c[h + 1] /\ c[h] \in S /\ c[h + 1] \in S
      BY <1>2, <1>5, <2>3
    <3>3. m.next[c[h]] = c[h + 1] /\ m.prev[c[h + 1]] = c[h] /\ c[h + 1] # c[1]
      BY <1>1, <3>1 DEF Ring
    <3>4. m.next[c[0]] = c[0 + 1]
      BY <1>1, <3>1 DEF Ring
    <3>5. m.next[head] = c[1]
      BY <1>2, <3>1, <3>4
    <3> QED
      BY <1>2, <1>4, <3>2, <3>3, <3>5
  <2>4. ASSUME NEW i \in 0..n, i # 0, i # 1
        PROVE  \E h \in 1..n : h + 1 \in 1..n /\ i = h + 1
    <3>1. i - 1 \in 1..n /\ i = (i - 1) + 1 /\ i \in 1..n
      BY <1>2, <2>4
    <3> QED
      BY <3>1
  <2>5. \A i \in 0..n : i = 1 => n # 0
    BY <1>2
  <2> QED
    BY <2>1, <2>2, <2>3, <2>4, <2>5
<1>10. k.next[d[n + 1]] = head /\ k.prev[head] = d[n + 1]
  <2>1. CASE n = 0
    <3>1. n + 1 = 1 /\ m.next[head] = head
      BY <1>1, <2>1 DEF Ring
    <3> QED
      BY <1>4, <1>5, <3>1
  <2>2. CASE n # 0
    <3>1. n \in 1..n /\ 0 \in 0..(n - 1) /\ 0 + 1 = 1 /\ 1 \in 1..n
      BY <1>2, <2>2
    <3>2. d[n + 1] = c[n] /\ c[n] \in S /\ c[1] \in S
      BY <1>2, <1>5, <3>1
    <3>3. m.next[c[n]] = head /\ m.prev[head] = c[n]
      BY <1>1 DEF Ring
    <3>4. m.next[c[0]] = c[0 + 1]
      BY <1>1, <3>1 DEF Ring
    <3>5. m.next[head] = c[1]
      BY <1>2, <3>1, <3>4
    <3> QED
      BY <1>2, <1>4, <3>2, <3>3, <3>5
  <2> QED
    BY <2>1, <2>2
<1>11. n + 1 \in Nat /\ head \notin S \cup {x} /\ 0..((n + 1) - 1) = 0..n
  BY <1>2
<1>12. \A i \in 0..((n + 1) - 1) : k.next[d[i]] = d[i + 1] /\ k.prev[d[i + 1]] = d[i]
  BY <1>9, <1>11
<1>13. Ring(k, head, S \cup {x}, n + 1, d)
  BY Zenon, <1>5, <1>6, <1>7, <1>8, <1>10, <1>11, <1>12 DEF Ring
<1> QED
  BY <1>13 DEF IsList, k

\* So is one added at the end.
LEMMA ListAddTail ==
    ASSUME NEW m, NEW A, Listing(m, A), NEW head \in A, NEW S \in SUBSET A,
           IsList(m, head, S), NEW x \in A, x \notin S, x # head
    PROVE  IsList(list_add_tail(m, head, x), head, S \cup {x})
<1>1. PICK n, c : Ring(m, head, S, n, c)
  BY DEF IsList
<1>2. /\ n \in Nat /\ 0 \in 0..n /\ n \in 0..n /\ c[0] = head /\ head \notin S
      /\ \A i \in 0..n : c[i] = head <=> i = 0
      /\ \A i \in 1..n : c[i] \in S
      /\ \A i \in 0..n : c[i] \in S \cup {head} /\ c[i] # x
  BY <1>1, RingNodes DEF Ring
<1>3. /\ m.prev[head] = c[n] /\ m.next[c[n]] = head /\ c[n] \in A /\ head \in A
      /\ c[n] \in S \cup {head}
  BY <1>1, <1>2 DEF Ring
<1> DEFINE k == list_add_tail(m, head, x)
           d == [i \in 0..(n + 1) |-> IF i = n + 1 THEN x ELSE c[i]]
<1>4. /\ \A y \in A : k.next[y] = IF y = c[n] THEN x
                                  ELSE IF y = x THEN head ELSE m.next[y]
      /\ \A y \in A : k.prev[y] = IF y = x THEN c[n]
                                  ELSE IF y = head THEN x ELSE m.prev[y]
  BY <1>3, FieldsAdded DEF list_add_tail
<1>5. /\ d[n + 1] = x /\ \A i \in 0..n : d[i] = c[i]
      /\ \A i \in 0..(n + 1) : i = n + 1 \/ i \in 0..n
      /\ d = [i \in 0..(n + 1) |-> d[i]]
  BY <1>2
<1> HIDE DEF k, d
<1>6. d \in [0..(n + 1) -> S \cup {x} \cup {head}]
  <2>1. ASSUME NEW i \in 0..(n + 1)
        PROVE  d[i] \in S \cup {x} \cup {head}
    BY <1>2, <1>5
  <2> QED
    BY <1>5, <2>1
<1>7. \A y \in S \cup {x} : \E i \in 1..(n + 1) : d[i] = y
  <2>1. n + 1 \in 1..(n + 1) /\ 1..n \subseteq 1..(n + 1) /\ 1..n \subseteq 0..n
    BY <1>2
  <2>2. ASSUME NEW y \in S
        PROVE  \E i \in 1..(n + 1) : d[i] = y
    <3>1. PICK i \in 1..n : c[i] = y
      BY <1>1 DEF Ring
    <3> QED
      BY <1>5, <2>1, <3>1
  <2> QED
    BY <1>5, <2>1, <2>2
<1>8. \A i, j \in 0..(n + 1) : d[i] = d[j] => i = j
  <2>1. \A i, j \in 0..n : d[i] = d[j] => i = j
    BY <1>1, <1>5 DEF Ring
  <2>2. \A i \in 0..n : d[i] # x
    BY <1>2, <1>5
  <2> QED
    BY <1>5, <2>1, <2>2
<1>9. \A i \in 0..((n + 1) - 1) : k.next[d[i]] = d[i + 1] /\ k.prev[d[i + 1]] = d[i]
  <2>1. k.next[d[n]] = d[n + 1] /\ k.prev[d[n + 1]] = d[n]
    BY <1>2, <1>3, <1>4, <1>5
  <2>2. ASSUME NEW i \in 0..(n - 1)
        PROVE  k.next[d[i]] = d[i + 1] /\ k.prev[d[i + 1]] = d[i]
    <3>1. i \in 0..n /\ i + 1 \in 0..n /\ i # n /\ i + 1 # 0
      BY <1>2
    <3>2. m.next[c[i]] = c[i + 1] /\ m.prev[c[i + 1]] = c[i] /\ c[i] # c[n]
          /\ c[i + 1] # head /\ c[i] # x /\ c[i + 1] # x
          /\ c[i] \in A /\ c[i + 1] \in A
      BY <1>1, <1>2, <3>1 DEF Ring
    <3> QED
      BY <1>4, <1>5, <3>1, <3>2
  <2>3. \A i \in 0..((n + 1) - 1) : i = n \/ i \in 0..(n - 1)
    BY <1>2
  <2> QED
    BY <2>1, <2>2, <2>3
<1>10. k.next[d[n + 1]] = head /\ k.prev[head] = d[n + 1]
  <2>1. d[n + 1] = x /\ x # c[n]
    BY <1>2, <1>5
  <2>2. k.next[x] = head /\ k.prev[head] = x
    BY <1>4, <2>1
  <2> QED
    BY <2>1, <2>2
<1>11. n + 1 \in Nat /\ head \notin S \cup {x} /\ d[0] = head
  <2>1. d[0] = c[0]
    BY Zenon, <1>2, <1>5
  <2>2. n + 1 \in Nat
    BY <1>2
  <2> QED
    BY <1>2, <2>1, <2>2
<1>12. Ring(k, head, S \cup {x}, n + 1, d)
  BY Zenon, <1>5, <1>6, <1>7, <1>8, <1>9, <1>10, <1>11 DEF Ring
<1> QED
  BY <1>12 DEF IsList, k

\* A node taken out is not on the list any more, and the others are.
LEMMA ListDel ==
    ASSUME NEW m, NEW A, Listing(m, A), NEW head \in A, NEW S \in SUBSET A,
           IsList(m, head, S), NEW x \in S
    PROVE  IsList(list_del_element(m, x), head, S \ {x})
<1>1. PICK n, c : Ring(m, head, S, n, c)
  BY DEF IsList
<1>2. /\ n \in Nat /\ 0 \in 0..n /\ n \in 0..n /\ c[0] = head /\ head \notin S
      /\ \A i \in 0..n : c[i] = head <=> i = 0
      /\ \A i \in 1..n : c[i] \in S
      /\ \A i \in 0..n : c[i] \in S \cup {head} /\ c[i] \in A
      /\ \A i, j \in 0..n : c[i] = c[j] => i = j
  BY <1>1, RingNodes DEF Ring
<1>3. PICK j \in 1..n : c[j] = x
  BY <1>1 DEF Ring
<1>4. j \in 0..n /\ j - 1 \in 0..n /\ j - 1 \in 0..(n - 1) /\ j - 1 + 1 = j /\ n # 0
      /\ n - 1 \in Nat /\ n - 1 \in 0..(n - 1) /\ 0 \in 0..(n - 1) /\ j \in Nat
  BY <1>2, <1>3
<1> DEFINE after == IF j = n THEN head ELSE c[j + 1]
<1>5. /\ m.prev[x] = c[j - 1] /\ m.next[x] = after /\ m.prev[after] = x
      /\ m.next[c[j - 1]] = x
      /\ after \in S \cup {head} /\ after # x /\ c[j - 1] # x
  <2>1. m.prev[x] = c[j - 1] /\ m.next[c[j - 1]] = x /\ c[j - 1] # x
    BY <1>1, <1>2, <1>3, <1>4 DEF Ring
  <2>2. CASE j = n
    BY <1>1, <1>2, <1>3, <2>1, <2>2 DEF Ring
  <2>3. CASE j # n
    <3>1. j \in 0..(n - 1) /\ j + 1 \in 0..n /\ j + 1 # j
      BY <1>2, <1>3, <2>3
    <3> QED
      BY <1>1, <1>2, <1>3, <1>4, <2>1, <2>3, <3>1 DEF Ring
  <2> QED
    BY <2>2, <2>3
<1> DEFINE k == list_del_element(m, x)
           d == [i \in 0..(n - 1) |-> IF i < j THEN c[i] ELSE c[i + 1]]
<1>6. /\ \A y \in A : k.next[y] = IF y = x THEN x
                                  ELSE IF y = c[j - 1] THEN after ELSE m.next[y]
      /\ \A y \in A : k.prev[y] = IF y = x THEN x
                                  ELSE IF y = after THEN c[j - 1] ELSE m.prev[y]
  <2>1. x \in A /\ m.next[x] \in A /\ m.prev[x] \in A /\ m.prev[x] # x
    BY <1>2, <1>4, <1>5
  <2> HIDE DEF after
  <2> QED
    BY <1>5, <2>1, FieldsDeleted
<1>7. /\ \A i \in 0..(j - 1) : i \in 0..(n - 1) /\ i \in 0..n /\ d[i] = c[i]
      /\ \A i \in j..(n - 1) : i \in 0..(n - 1) /\ i + 1 \in 0..n /\ d[i] = c[i + 1]
      /\ \A i \in 0..(n - 1) : i \in 0..(j - 1) \/ i \in j..(n - 1)
      /\ d = [i \in 0..(n - 1) |-> d[i]]
  BY <1>2, <1>3, <1>4
<1> HIDE DEF k, d
<1>8. \A i \in 0..(n - 1) : d[i] # x /\ d[i] \in S \cup {head}
  <2>1. ASSUME NEW i \in 0..(j - 1)
        PROVE  d[i] # x /\ d[i] \in S \cup {head}
    <3>1. i # j
      BY <1>4
    <3> QED
      BY <1>2, <1>3, <1>4, <1>7, <3>1
  <2>2. ASSUME NEW i \in j..(n - 1)
        PROVE  d[i] # x /\ d[i] \in S \cup {head}
    <3>1. i + 1 # j
      BY <1>2, <1>4
    <3>2. d[i] = c[i + 1] /\ i + 1 \in 0..n
      BY <1>7
    <3>3. c[i + 1] # c[j]
      BY <1>2, <1>4, <3>1, <3>2
    <3> QED
      BY <1>2, <1>3, <3>2, <3>3
  <2> QED
    BY <1>7, <2>1, <2>2
<1>9. d \in [0..(n - 1) -> (S \ {x}) \cup {head}]
  <2>1. \A i \in 0..(n - 1) : d[i] \in (S \ {x}) \cup {head}
    BY <1>8
  <2> QED
    BY <1>7, <2>1
<1>10. \A y \in S \ {x} : \E i \in 1..(n - 1) : d[i] = y
  <2>1. ASSUME NEW y \in S \ {x}
        PROVE  \E i \in 1..(n - 1) : d[i] = y
    <3>1. PICK i \in 1..n : c[i] = y
      BY <1>1 DEF Ring
    <3>2. i # j
      BY <1>3, <3>1
    <3>3. CASE i < j
      <4>1. i \in 0..(j - 1) /\ i \in 1..(n - 1)
        BY <1>2, <1>3, <3>3
      <4> QED
        BY <1>7, <3>1, <4>1
    <3>4. CASE i > j
      <4>1. i - 1 \in j..(n - 1) /\ i - 1 \in 1..(n - 1) /\ i - 1 + 1 = i
        BY <1>2, <1>3, <3>4
      <4> QED
        BY <1>7, <3>1, <4>1
    <3> QED
      BY <1>2, <3>2, <3>3, <3>4
  <2> QED
    BY <2>1
<1>11. \A i, l \in 0..(n - 1) : d[i] = d[l] => i = l
  <2> DEFINE at(i) == IF i < j THEN i ELSE i + 1
  <2>1. ASSUME NEW i \in 0..(n - 1)
        PROVE  d[i] = c[at(i)] /\ at(i) \in 0..n
    <3>1. CASE i \in 0..(j - 1)
      <4>1. i < j
        BY <1>4, <3>1
      <4> QED
        BY <1>7, <3>1, <4>1
    <3>2. CASE i \in j..(n - 1)
      <4>1. ~(i < j)
        BY <1>4, <3>2
      <4> QED
        BY <1>7, <3>2, <4>1
    <3> QED
      BY <1>7, <3>1, <3>2
  <2>2. \A i, l \in 0..(n - 1) : at(i) = at(l) => i = l
    BY <1>2, <1>4
  <2> HIDE DEF at
  <2> QED
    BY <1>2, <2>1, <2>2
<1>12. \A i \in 0..(n - 1 - 1) : k.next[d[i]] = d[i + 1] /\ k.prev[d[i + 1]] = d[i]
  <2>1. ASSUME NEW i \in 0..(j - 2), i + 1 <= n - 1
        PROVE  k.next[d[i]] = d[i + 1] /\ k.prev[d[i + 1]] = d[i]
    <3>1. /\ i \in 0..(j - 1) /\ i + 1 \in 0..(j - 1) /\ i \in 0..(n - 1) /\ i \in 0..n
          /\ i + 1 \in 0..n /\ i # j /\ i # j - 1 /\ i + 1 # j /\ i + 1 # 0
          /\ (j # n => j + 1 \in 0..n /\ i + 1 # j + 1)
      BY <1>2, <1>4, <2>1
    <3>2. d[i] = c[i] /\ d[i + 1] = c[i + 1]
      BY <1>7, <3>1
    <3>3. m.next[c[i]] = c[i + 1] /\ m.prev[c[i + 1]] = c[i]
      BY <1>1, <3>1 DEF Ring
    <3>4. c[i] # x /\ c[i] # c[j - 1] /\ c[i + 1] # x /\ c[i + 1] # after
      BY <1>2, <1>3, <1>4, <3>1
    <3> HIDE DEF after
    <3> QED
      BY <1>2, <1>6, <3>1, <3>2, <3>3, <3>4
  <2>2. ASSUME j <= n - 1
        PROVE  k.next[d[j - 1]] = d[j] /\ k.prev[d[j]] = d[j - 1]
    <3>1. j - 1 \in 0..(j - 1) /\ j \in j..(n - 1) /\ j # n
      BY <1>2, <1>4, <2>2
    <3>2. d[j - 1] = c[j - 1] /\ d[j] = after
      BY <1>7, <3>1
    <3>3. after \in A
      BY <1>2, <1>5
    <3> HIDE DEF after
    <3> QED
      BY <1>2, <1>4, <1>5, <1>6, <3>2, <3>3
  <2>3. ASSUME NEW i \in j..(n - 2)
        PROVE  k.next[d[i]] = d[i + 1] /\ k.prev[d[i + 1]] = d[i]
    <3>1. /\ i \in j..(n - 1) /\ i + 1 \in j..(n - 1) /\ i + 1 \in 0..(n - 1)
          /\ i + 1 \in 0..n /\ i + 1 + 1 \in 0..n /\ i + 1 # j /\ i + 1 # j - 1
          /\ i + 1 + 1 # j /\ i + 1 + 1 # j + 1 /\ j # n /\ j + 1 \in 0..n
      BY <1>2, <1>4
    <3>2. d[i] = c[i + 1] /\ d[i + 1] = c[i + 1 + 1]
      BY <1>7, <3>1
    <3>3. m.next[c[i + 1]] = c[i + 1 + 1] /\ m.prev[c[i + 1 + 1]] = c[i + 1]
      BY <1>1, <3>1 DEF Ring
    <3>4. c[i + 1] # x /\ c[i + 1] # c[j - 1] /\ c[i + 1 + 1] # x /\ c[i + 1 + 1] # after
      BY <1>2, <1>3, <1>4, <3>1
    <3> HIDE DEF after
    <3> QED
      BY <1>2, <1>6, <3>1, <3>2, <3>3, <3>4
  <2>4. \A i \in 0..(n - 1 - 1) :
            \/ i \in 0..(j - 2) /\ i + 1 <= n - 1
            \/ i = j - 1 /\ i + 1 = j /\ j <= n - 1
            \/ i \in j..(n - 2)
    BY <1>2, <1>4
  <2> QED
    BY <2>1, <2>2, <2>3, <2>4
<1>13. k.next[d[n - 1]] = head /\ k.prev[head] = d[n - 1]
  <2>1. CASE j = n
    <3>1. d[n - 1] = c[j - 1] /\ after = head
      BY <1>4, <1>7, <2>1
    <3> HIDE DEF after
    <3> QED
      BY <1>2, <1>4, <1>5, <1>6, <3>1
  <2>2. CASE j # n
    <3>1. n - 1 \in j..(n - 1) /\ n - 1 + 1 = n /\ n # j /\ n # j - 1 /\ n \in 0..n
          /\ j + 1 \in 0..n /\ j + 1 # 0
      BY <1>2, <1>3, <1>4, <2>2
    <3>2. d[n - 1] = c[n]
      <4>1. d[n - 1] = c[(n - 1) + 1]
        BY <1>7, <3>1
      <4>2. (n - 1) + 1 = n
        BY <1>2
      <4> QED
        BY <4>1, <4>2
    <3>4. m.next[c[n]] = head /\ m.prev[head] = c[n]
      BY <1>1 DEF Ring
    <3>3. c[n] # x /\ c[n] # c[j - 1] /\ head # x /\ head # after
      BY <1>2, <1>3, <1>4, <2>2, <3>1
    <3> HIDE DEF after
    <3> QED
      BY <1>2, <1>6, <3>2, <3>3, <3>4
  <2> QED
    BY <2>1, <2>2
<1>14. d[0] = head /\ head \notin S \ {x}
  <2>1. 0 \in 0..(j - 1)
    BY <1>3, <1>4
  <2> QED
    BY <1>2, <1>7, <2>1
<1>15. Ring(k, head, S \ {x}, n - 1, d)
  BY <1>4, <1>7, <1>9, <1>10, <1>11, <1>12, <1>13, <1>14 DEF Ring
<1> QED
  BY <1>15 DEF IsList, k

-----------------------------------------------------------------------------
(* What list_for_each_entry visits.  Successor is defined by recursion; a   *)
(* set of numbers that has 0 and, with each of its members, the next, is    *)
(* Nat, which gives both that there is such a function and what it is.      *)

LEMMA AllNumbers ==
    ASSUME NEW T \in SUBSET Nat, 0 \in T, \A n \in T : n + 1 \in T
    PROVE  T = Nat
<1> SUFFICES ASSUME T # Nat PROVE FALSE
  OBVIOUS
<1> DEFINE rest == Nat \ T
           less == OpToRel(<, Nat)
<1>1. IsWellFoundedOn(less, Nat)
  BY NatLessThanWellFounded
<1>2. rest \subseteq Nat /\ rest # {}
  OBVIOUS
<1>3. \A x, y \in Nat : x < y => <<x, y>> \in less
  BY DEF OpToRel
<1> HIDE DEF less
<1>4. PICK x \in rest : \A y \in rest : ~(<<y, x>> \in less)
  BY <1>1, <1>2, WFMin
<1>5. x # 0 /\ x \in Nat /\ x - 1 \in Nat /\ x - 1 < x
  BY <1>4
<1>6. x - 1 \in T
  BY <1>3, <1>4, <1>5
<1>7. (x - 1) + 1 \in T
  BY <1>6
<1> QED
  BY <1>4, <1>5, <1>7

\* f is the path of the loop, and there is one.
Path(f, m, first, bound) ==
    f = [k \in 0..bound |-> IF k = 0 THEN first ELSE m.next[f[k - 1]]]

LEMMA Iterates ==
    ASSUME NEW m, NEW first, NEW bound \in Nat
    PROVE  \E f : Path(f, m, first, bound)
<1> DEFINE Rec(f, b) == f = [k \in 0..b |-> IF k = 0 THEN first ELSE m.next[f[k - 1]]]
           T == {b \in Nat : \E f : Rec(f, b)}
<1>1. 0 \in T
  <2> DEFINE f == [k \in 0..0 |-> first]
  <2>1. Rec(f, 0)
    <3>1. \A k \in 0..0 : k = 0
      OBVIOUS
    <3>2. f = [k \in 0..0 |-> IF k = 0 THEN first ELSE m.next[f[k - 1]]]
      BY <3>1
    <3> QED
      BY <3>2
  <2> HIDE DEF Rec, f
  <2> QED
    BY <2>1
<1>2. ASSUME NEW b \in T
      PROVE  b + 1 \in T
  <2>1. PICK f : Rec(f, b)
    OBVIOUS
  <2>2. b \in Nat /\ b + 1 \in Nat /\ b \in 0..b
    OBVIOUS
  <2> DEFINE h == [k \in 0..(b + 1) |-> IF k = b + 1 THEN m.next[f[b]] ELSE f[k]]
  <2>3. ASSUME NEW k \in 0..(b + 1)
        PROVE  h[k] = IF k = 0 THEN first ELSE m.next[h[k - 1]]
    <3>1. CASE k = b + 1
      <4>1. k # 0 /\ k - 1 = b /\ b \in 0..(b + 1) /\ b # b + 1
        BY <2>2, <3>1
      <4>2. h[k] = m.next[f[b]] /\ h[b] = f[b]
        BY <3>1, <4>1
      <4> QED
        BY <4>1, <4>2
    <3>2. CASE k # b + 1
      <4>1. k \in 0..b
        BY <2>2, <3>2
      <4>2. h[k] = f[k]
        BY <3>2
      <4>3. f[k] = IF k = 0 THEN first ELSE m.next[f[k - 1]]
        BY <2>1, <4>1
      <4>4. k # 0 => k - 1 \in 0..(b + 1) /\ k - 1 # b + 1
        BY <2>2, <4>1
      <4>5. k # 0 => h[k - 1] = f[k - 1]
        BY <4>4
      <4> HIDE DEF h, Rec
      <4> QED
        BY <4>2, <4>3, <4>5
    <3> QED
      BY <3>1, <3>2
  <2>4. h = [k \in 0..(b + 1) |-> h[k]]
    OBVIOUS
  <2> HIDE DEF h
  <2>5. h = [k \in 0..(b + 1) |-> IF k = 0 THEN first ELSE m.next[h[k - 1]]]
    BY <2>3, <2>4
  <2>6. Rec(h, b + 1)
    BY <2>5
  <2> HIDE DEF Rec
  <2> QED
    BY <2>2, <2>6
<1>3. bound \in T
  <2> HIDE DEF T
  <2>1. T \in SUBSET Nat
    BY DEF T
  <2> QED
    BY <1>1, <1>2, <2>1, AllNumbers
<1> HIDE DEF Rec
<1>4. PICK f : Rec(f, bound)
  BY <1>3
<1> QED
  BY <1>4 DEF Rec, Path

LEMMA SuccessorSteps ==
    ASSUME NEW m, NEW head, NEW bound \in Nat
    PROVE  /\ Successor(m, head, bound)[0] = head
           /\ \A k \in 1..bound : Successor(m, head, bound)[k]
                                   = m.next[Successor(m, head, bound)[k - 1]]
<1> DEFINE Rec(f) == f = [k \in 0..bound |-> IF k = 0 THEN head ELSE m.next[f[k - 1]]]
           s == CHOOSE f : Rec(f)
<1>1. Successor(m, head, bound) = s
  BY Zenon DEF Successor
<1>2. \E f : Rec(f)
  <2>1. PICK f : Path(f, m, head, bound)
    BY Iterates
  <2>2. Rec(f)
    BY <2>1 DEF Path
  <2> QED
    BY <2>2
<1>3. Rec(s)
  <2> HIDE DEF Rec
  <2> QED
    BY <1>2
<1> HIDE DEF s
<1>4. s[0] = head /\ \A k \in 1..bound : s[k] = m.next[s[k - 1]]
  <2>1. 0 \in 0..bound /\ \A k \in 1..bound : k \in 0..bound /\ k # 0
    OBVIOUS
  <2> QED
    BY <1>3, <2>1
<1> QED
  BY <1>1, <1>4

\* The loop visits exactly the nodes of the list if its bound is not too small.
LEMMA ListVisited ==
    ASSUME NEW m, NEW head, NEW S, IsList(m, head, S), NEW bound \in Nat,
           IsFiniteSet(S), Cardinality(S) <= bound
    PROVE  Visited(m, head, bound) = S
<1>1. PICK n, c : Ring(m, head, S, n, c)
  BY DEF IsList
<1>2. /\ n \in Nat /\ 0 \in 0..n /\ n \in 0..n /\ c[0] = head /\ head \notin S
      /\ \A i \in 1..n : c[i] \in S
      /\ \A i \in 0..n : c[i] \in S \cup {head}
  BY <1>1, RingNodes DEF Ring
<1> DEFINE s == Successor(m, head, bound)
<1>3. s[0] = head /\ \A k \in 1..bound : s[k] = m.next[s[k - 1]]
  BY SuccessorSteps
<1> HIDE DEF s
<1>4. n <= bound
  <2> DEFINE d == [i \in 1..n |-> c[i]]
  <2>1. d \in [1..n -> S] /\ \A i, j \in 1..n : d[i] = d[j] => i = j
    <3>1. \A i \in 1..n : i \in 0..n
      BY <1>2
    <3>2. \A i, j \in 1..n : c[i] = c[j] => i = j
      BY <1>1, <3>1 DEF Ring
    <3> QED
      BY <1>2, <3>2
  <2>2. d \in Injection(1..n, S)
    BY <2>1 DEF Injection, IsInjective
  <2>3. IsFiniteSet(1..n) /\ Cardinality(1..n) = n
    BY <1>2, FS_Interval
  <2>4. Cardinality(1..n) <= Cardinality(S)
    BY <2>2, FS_Injection
  <2>5. Cardinality(S) \in Nat
    BY FS_CardinalityType
  <2> QED
    BY <1>2, <2>3, <2>4, <2>5
<1> DEFINE Good(k) == /\ s[k] \in S \cup {head}
                      /\ k <= n => s[k] = c[k]
           T == {k \in Nat : k <= bound => Good(k)}
<1>5. 0 \in T
  BY <1>2, <1>3
<1>6. ASSUME NEW k \in T
      PROVE  k + 1 \in T
  <2>1. SUFFICES ASSUME k + 1 <= bound
                 PROVE  Good(k + 1)
    OBVIOUS
  <2>2. k \in Nat /\ k <= bound /\ k + 1 \in 1..bound /\ (k + 1) - 1 = k
    BY <2>1
  <2>3. Good(k)
    BY <2>2
  <2>4. s[k + 1] = m.next[s[k]]
    BY <1>3, <2>2
  <2>5. m.next[s[k]] \in S \cup {head}
    BY <1>1, <2>3, RingLinked DEF IsList, Linked
  <2>6. ASSUME k + 1 <= n
        PROVE  s[k + 1] = c[k + 1]
    <3>1. k <= n /\ k \in 0..(n - 1)
      BY <1>2, <2>2, <2>6
    <3>2. m.next[c[k]] = c[k + 1]
      BY <1>1, <3>1 DEF Ring
    <3> QED
      BY <2>3, <2>4, <3>1, <3>2
  <2> QED
    BY <2>4, <2>5, <2>6
<1>7. \A k \in 0..bound : s[k] \in S \cup {head} /\ (k <= n => s[k] = c[k])
  <2> HIDE DEF T
  <2>1. T \in SUBSET Nat
    BY DEF T
  <2>2. T = Nat
    BY <1>5, <1>6, <2>1, AllNumbers
  <2>3. \A k \in 0..bound : k \in Nat /\ k <= bound
    OBVIOUS
  <2> QED
    BY <2>2, <2>3 DEF T
<1>8. \A x \in S : \E k \in 0..bound : s[k] = x
  <2>1. ASSUME NEW x \in S
        PROVE  \E k \in 0..bound : s[k] = x
    <3>1. PICK i \in 1..n : c[i] = x
      BY <1>1 DEF Ring
    <3>2. i \in 0..bound /\ i <= n
      BY <1>2, <1>4
    <3> QED
      BY <1>7, <3>1, <3>2
  <2> QED
    BY <2>1
<1>9. {s[k] : k \in 0..bound} \ {head} = S
  BY <1>2, <1>7, <1>8
<1> QED
  BY <1>9 DEF Visited, s

-----------------------------------------------------------------------------
\* A memory keeps its fields, and a node that is initialised is a list.
LEMMA FieldsInit ==
    ASSUME NEW m, NEW A, Listing(m, A), NEW n \in A
    PROVE  LET k == list_init(m, n) IN
           /\ Listing(k, A)
           /\ \A x \in A : k.next[x] = IF x = n THEN n ELSE m.next[x]
           /\ \A x \in A : k.prev[x] = IF x = n THEN n ELSE m.prev[x]
BY DEF Listing, list_init

LEMMA InitKeeps ==
    ASSUME NEW m, NEW A, Listing(m, A), NEW n \in A, NEW head \in A,
           NEW S \in SUBSET A, IsList(m, head, S), n \notin S \cup {head}
    PROVE  IsList(list_init(m, n), head, S)
<1> DEFINE k == list_init(m, n)
<1>1. \A x \in S \cup {head} : k.next[x] = m.next[x] /\ k.prev[x] = m.prev[x]
  <2>1. S \cup {head} \subseteq A
    OBVIOUS
  <2> QED
    BY <2>1, FieldsInit
<1> HIDE DEF k
<1>2. IsList(k, head, S)
  BY <1>1, ListKept
<1> QED
  BY <1>2 DEF k

LEMMA InitEmpty ==
    ASSUME NEW m, NEW A, Listing(m, A), NEW n \in A
    PROVE  IsList(list_init(m, n), n, {})
<1> DEFINE k == list_init(m, n)
<1>1. k.next[n] = n /\ k.prev[n] = n
  BY FieldsInit
<1> HIDE DEF k
<1>2. IsList(k, n, {})
  BY <1>1, EmptyList
<1> QED
  BY <1>2 DEF k

\* What is done to one list leaves another that has no node in common with it.
LEMMA AddHeadKeeps ==
    ASSUME NEW m, NEW A, Listing(m, A), NEW head \in A, NEW S \in SUBSET A,
           IsList(m, head, S), NEW x \in A,
           NEW h \in A, NEW L \in SUBSET A, IsList(m, h, L),
           (L \cup {h}) \cap (S \cup {head, x}) = {}
    PROVE  IsList(list_add_head(m, head, x), h, L)
<1>1. m.next[head] \in S \cup {head} /\ m.next[head] \in A
  BY FirstOfList
<1> DEFINE k == list_add_head(m, head, x)
<1>2. /\ \A y \in A : k.next[y] = IF y = head THEN x
                                  ELSE IF y = x THEN m.next[head] ELSE m.next[y]
      /\ \A y \in A : k.prev[y] = IF y = x THEN head
                                  ELSE IF y = m.next[head] THEN x ELSE m.prev[y]
  BY <1>1, FieldsAdded
<1> HIDE DEF k
<1>3. \A y \in L \cup {h} : k.next[y] = m.next[y] /\ k.prev[y] = m.prev[y]
  BY <1>1, <1>2
<1>4. IsList(k, h, L)
  BY <1>3, ListKept
<1> QED
  BY <1>4 DEF k

LEMMA LastOfList ==
    ASSUME NEW m, NEW A, NEW head \in A, NEW S \in SUBSET A, IsList(m, head, S)
    PROVE  /\ m.prev[head] \in S \cup {head} /\ m.prev[head] \in A
           /\ m.next[m.prev[head]] = head
<1>1. Linked(m, S \cup {head})
  BY RingLinked
<1> QED
  BY <1>1 DEF Linked

LEMMA AddTailKeeps ==
    ASSUME NEW m, NEW A, Listing(m, A), NEW head \in A, NEW S \in SUBSET A,
           IsList(m, head, S), NEW x \in A,
           NEW h \in A, NEW L \in SUBSET A, IsList(m, h, L),
           (L \cup {h}) \cap (S \cup {head, x}) = {}
    PROVE  IsList(list_add_tail(m, head, x), h, L)
<1> DEFINE last == m.prev[head]
           k == list_add_tail(m, head, x)
<1>1. last \in S \cup {head} /\ last \in A /\ m.next[last] = head
  BY LastOfList
<1>2. /\ \A y \in A : k.next[y] = IF y = last THEN x
                                  ELSE IF y = x THEN m.next[last] ELSE m.next[y]
      /\ \A y \in A : k.prev[y] = IF y = x THEN last
                                  ELSE IF y = m.next[last] THEN x ELSE m.prev[y]
  BY <1>1, FieldsAdded DEF list_add_tail
<1> HIDE DEF k, last
<1>3. \A y \in L \cup {h} : k.next[y] = m.next[y] /\ k.prev[y] = m.prev[y]
  BY <1>1, <1>2
<1>4. IsList(k, h, L)
  BY <1>3, ListKept
<1> QED
  BY <1>4 DEF k

\* What becomes of the fields when a node of a list is taken out of it.
LEMMA DelFields ==
    ASSUME NEW m, NEW A, Listing(m, A), NEW head \in A, NEW S \in SUBSET A,
           IsList(m, head, S), NEW x \in S
    PROVE  LET k == list_del_element(m, x) IN
           /\ Listing(k, A)
           /\ m.next[x] \in S \cup {head} /\ m.prev[x] \in S \cup {head}
           /\ \A y \in A : k.next[y] = IF y = x THEN x
                                       ELSE IF y = m.prev[x] THEN m.next[x] ELSE m.next[y]
           /\ \A y \in A : k.prev[y] = IF y = x THEN x
                                       ELSE IF y = m.next[x] THEN m.prev[x] ELSE m.prev[y]
<1>1. Linked(m, S \cup {head}) /\ x \in A
  BY RingLinked
<1>2. /\ m.next[x] \in S \cup {head} /\ m.prev[x] \in S \cup {head}
      /\ m.next[m.prev[x]] = x
  BY <1>1 DEF Linked
<1>3. m.next[x] \in A /\ m.prev[x] \in A /\ (m.prev[x] = x => m.next[x] = x)
  BY <1>2
<1> QED
  BY <1>1, <1>2, <1>3, FieldsDeleted

LEMMA DelKeeps ==
    ASSUME NEW m, NEW A, Listing(m, A), NEW head \in A, NEW S \in SUBSET A,
           IsList(m, head, S), NEW x \in S,
           NEW h \in A, NEW L \in SUBSET A, IsList(m, h, L),
           (L \cup {h}) \cap (S \cup {head}) = {}
    PROVE  IsList(list_del_element(m, x), h, L)
<1> DEFINE k == list_del_element(m, x)
<1>1. /\ m.next[x] \in S \cup {head} /\ m.prev[x] \in S \cup {head}
      /\ \A y \in A : k.next[y] = IF y = x THEN x
                                  ELSE IF y = m.prev[x] THEN m.next[x] ELSE m.next[y]
      /\ \A y \in A : k.prev[y] = IF y = x THEN x
                                  ELSE IF y = m.next[x] THEN m.prev[x] ELSE m.prev[y]
  BY DelFields
<1> HIDE DEF k
<1>2. \A y \in L \cup {h} : k.next[y] = m.next[y] /\ k.prev[y] = m.prev[y]
  BY <1>1
<1>3. IsList(k, h, L)
  BY <1>2, ListKept
<1> QED
  BY <1>3 DEF k

LEMMA AddTailFields ==
    ASSUME NEW m, NEW A, Listing(m, A), NEW head \in A, NEW S \in SUBSET A,
           IsList(m, head, S), NEW x \in A
    PROVE  Listing(list_add_tail(m, head, x), A)
<1>1. m.prev[head] \in A /\ m.next[m.prev[head]] \in A
  BY LastOfList
<1> QED
  BY <1>1, FieldsAdded DEF list_add_tail

LEMMA AddHeadFields ==
    ASSUME NEW m, NEW A, Listing(m, A), NEW head \in A, NEW S \in SUBSET A,
           IsList(m, head, S), NEW x \in A
    PROVE  Listing(list_add_head(m, head, x), A)
<1>1. m.next[head] \in A
  BY FirstOfList
<1> QED
  BY <1>1, FieldsAdded
=============================================================================
