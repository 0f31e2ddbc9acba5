------------------------- MODULE TwoLockQueue_proofs -------------------------
(***************************************************************************)
(* The invariants of TwoLockQueue hold for any number of threads, values   *)
(* and nodes.                                                              *)
(***************************************************************************)
EXTENDS TwoLockQueue, FiniteSetTheorems, SequenceTheorems, TLAPS

Threads == Producers \cup Consumers

\* A consumer that is about to take a value still has the head it saw.
HeldHead == \A c \in Consumers : pc[c] = "take" => h1[c] = head

\* The inductive invariant.
Inv ==
    /\ TypeOK
    /\ LocksHeld
    /\ ListIsChain
    /\ NodesOwned
    /\ NoUseAfterFree
    /\ HeldHead

-----------------------------------------------------------------------------
(* Facts used in several steps. *)

\* One thread moves, the others stay where they are.
LEMMA Moved ==
    ASSUME QueueAssumption, TypeOK, NEW x \in Threads, NEW from, NEW to,
           Goto(x, from, to)
    PROVE  /\ pc[x] = from /\ pc'[x] = to
           /\ \A y \in Threads : y # x => pc'[y] = pc[y]
           /\ x \in Producers => \A c \in Consumers : pc'[c] = pc[c]
           /\ x \in Consumers => \A p \in Producers : pc'[p] = pc[p]
<1>1. \A y \in Threads : pc'[y] = IF y = x THEN to ELSE pc[y]
  BY DEF Goto, TypeOK, Threads
<1> QED
  BY <1>1 DEF Goto, QueueAssumption, Threads

\* Where a thread goes is a place of its kind.
LEMMA PlacesKept ==
    ASSUME QueueAssumption, TypeOK, NEW x \in Threads, NEW from, NEW to,
           Goto(x, from, to),
           x \in Producers => to \in ProducerPlaces,
           x \in Consumers => to \in ConsumerPlaces
    PROVE  /\ pc' \in [Producers \cup Consumers -> ProducerPlaces \cup ConsumerPlaces]
           /\ \A p \in Producers : pc'[p] \in ProducerPlaces
           /\ \A c \in Consumers : pc'[c] \in ConsumerPlaces
<1>1. \A y \in Threads : pc'[y] = IF y = x THEN to ELSE pc[y]
  BY DEF Goto, TypeOK, Threads
<1>2. to \in ProducerPlaces \cup ConsumerPlaces
  BY DEF Threads
<1>3. pc' \in [Producers \cup Consumers -> ProducerPlaces \cup ConsumerPlaces]
  BY <1>2 DEF Goto, TypeOK
<1> QED
  BY <1>1, <1>3 DEF TypeOK, Threads, QueueAssumption

\* Whoever has a lock reads a pointer to a node that exists.
LEMMA FollowedNext ==
    ASSUME QueueAssumption, LocksHeld', ListIsChain', TypeOK'
    PROVE  /\ \A p \in Producers : pc'[p] = "link" => tail' \in heap' \cup {Satellite}
           /\ head' \in heap' \cup {Satellite}
<1>1. Len(chain') \in Nat \ {0}
  BY DEF TypeOK, ListIsChain
<1>2. head' \in heap' \cup {Satellite}
  BY <1>1 DEF ListIsChain
<1>3. ASSUME NEW p \in Producers, pc'[p] = "link"
      PROVE  tail' \in heap' \cup {Satellite}
  <2>1. tlock' = p
    BY <1>3 DEF LocksHeld
  <2>2. \A q \in Producers : pc'[q] # "swing"
    BY <1>3, <2>1 DEF LocksHeld
  <2>3. tail' = chain'[Len(chain')]
    BY <2>2 DEF ListIsChain
  <2> QED
    BY <1>1, <2>3 DEF ListIsChain
<1> QED
  BY <1>2, <1>3

\* A step that leaves the list and the heap alone, and moves no thread to a
\* place where the invariant says more of it, keeps the invariant.
LEMMA QuietKeeps ==
    ASSUME QueueAssumption, Inv, UNCHANGED <<list, heap>>, TypeOK', LocksHeld',
           \A p \in Producers : /\ pc'[p] = "swing" <=> pc[p] = "swing"
                                /\ pc'[p] \in {"lock", "link"} <=> pc[p] \in {"lock", "link"}
                                /\ pc[p] \in {"lock", "link", "swing"} => pNode'[p] = pNode[p],
           \A c \in Consumers : /\ pc'[c] \in {"unlock", "delete"} <=> pc[c] \in {"unlock", "delete"}
                                /\ pc'[c] = "take" => pc[c] = "take"
                                /\ pc[c] \in {"unlock", "delete", "take"} =>
                                       h1'[c] = h1[c] /\ h2'[c] = h2[c]
    PROVE  Inv'
<1>1. /\ head' = head /\ tail' = tail /\ next' = next /\ value' = value
      /\ chain' = chain /\ heap' = heap
  BY DEF list
<1>2. ListIsChain'
  BY <1>1 DEF Inv, ListIsChain
<1>3. NodesOwned'
  BY <1>1 DEF Inv, NodesOwned, InChain, Linking, Deleting
<1>4. NoUseAfterFree'
  BY <1>1, <1>2, FollowedNext DEF Inv, NoUseAfterFree
<1>5. HeldHead'
  BY <1>1 DEF Inv, HeldHead
<1> QED
  BY <1>2, <1>3, <1>4, <1>5 DEF Inv

-----------------------------------------------------------------------------
(* enQueue: the steps that leave the list alone. *)

LEMMA LockTailStep ==
    ASSUME QueueAssumption, Inv, NEW p \in Producers, LockTail(p) PROVE Inv'
<1>0. TypeOK /\ LocksHeld /\ p \in Threads
  BY DEF Inv, Threads
<1>1. /\ pc[p] = "lock" /\ pc'[p] = "link"
      /\ \A y \in Threads : y # p => pc'[y] = pc[y]
      /\ \A c \in Consumers : pc'[c] = pc[c]
  BY <1>0, Moved DEF LockTail
<1>2. TypeOK'
  BY <1>0, PlacesKept DEF LockTail, TypeOK, list, ProducerPlaces
<1>3. LocksHeld'
  BY <1>0, <1>1 DEF LockTail, LocksHeld, Threads, QueueAssumption
<1>4. UNCHANGED <<list, heap, pNode, h1, h2>>
  BY DEF LockTail
<1> QED
  BY <1>0, <1>1, <1>2, <1>3, <1>4, QuietKeeps DEF Threads

LEMMA UnlockTailStep ==
    ASSUME QueueAssumption, Inv, NEW p \in Producers, UnlockTail(p) PROVE Inv'
<1>0. TypeOK /\ LocksHeld /\ p \in Threads
  BY DEF Inv, Threads
<1>1. /\ pc[p] = "unlock" /\ pc'[p] = "post"
      /\ \A y \in Threads : y # p => pc'[y] = pc[y]
      /\ \A c \in Consumers : pc'[c] = pc[c]
  BY <1>0, Moved DEF UnlockTail
<1>2. TypeOK'
  BY <1>0, PlacesKept DEF UnlockTail, TypeOK, list, ProducerPlaces
<1>3. LocksHeld'
  BY <1>0, <1>1 DEF UnlockTail, LocksHeld, Threads, QueueAssumption
<1>4. UNCHANGED <<list, heap, pNode, h1, h2>>
  BY DEF UnlockTail
<1> QED
  BY <1>0, <1>1, <1>2, <1>3, <1>4, QuietKeeps DEF Threads

LEMMA PostStep ==
    ASSUME QueueAssumption, Inv, NEW p \in Producers, Post(p) PROVE Inv'
<1>0. TypeOK /\ LocksHeld /\ p \in Threads
  BY DEF Inv, Threads
<1>1. /\ pc[p] = "post" /\ pc'[p] = "count"
      /\ \A y \in Threads : y # p => pc'[y] = pc[y]
      /\ \A c \in Consumers : pc'[c] = pc[c]
  BY <1>0, Moved DEF Post
<1>2. TypeOK'
  <2>1. wait' \in 0..SemMax
    BY <1>0 DEF Post, Posted, TypeOK, QueueAssumption
  <2> QED
    BY <1>0, <2>1, PlacesKept DEF Post, TypeOK, list, ProducerPlaces
<1>3. LocksHeld'
  BY <1>0, <1>1 DEF Post, LocksHeld, Threads
<1>4. UNCHANGED <<list, heap, pNode, h1, h2>>
  BY DEF Post
<1> QED
  BY <1>0, <1>1, <1>2, <1>3, <1>4, QuietKeeps DEF Threads

LEMMA CountStep ==
    ASSUME QueueAssumption, Inv, NEW p \in Producers, Count(p) PROVE Inv'
<1>0. TypeOK /\ LocksHeld /\ p \in Threads
  BY DEF Inv, Threads
<1>1. /\ pc[p] = "count" /\ pc'[p] = "idle"
      /\ \A y \in Threads : y # p => pc'[y] = pc[y]
      /\ \A c \in Consumers : pc'[c] = pc[c]
  BY <1>0, Moved DEF Count
<1>2. TypeOK'
  <2>1. size' \in 0..(CountMod - 1)
    BY <1>0 DEF Count, TypeOK, QueueAssumption
  <2> QED
    BY <1>0, <2>1, PlacesKept DEF Count, TypeOK, list, ProducerPlaces
<1>3. LocksHeld'
  BY <1>0, <1>1 DEF Count, LocksHeld, Threads
<1>4. /\ UNCHANGED <<list, heap, h1, h2>>
      /\ \A q \in Producers : q # p => pNode'[q] = pNode[q]
  BY <1>0 DEF Count, TypeOK
<1> QED
  BY <1>0, <1>1, <1>2, <1>3, <1>4, QuietKeeps DEF Threads

-----------------------------------------------------------------------------
(* deQueue: the steps that leave the list alone. *)

LEMMA EnterStep ==
    ASSUME QueueAssumption, Inv, NEW c \in Consumers, Enter(c) PROVE Inv'
<1>0. TypeOK /\ LocksHeld /\ c \in Threads
  BY DEF Inv, Threads
<1>1. /\ pc[c] = "idle" /\ pc'[c] = "again"
      /\ \A y \in Threads : y # c => pc'[y] = pc[y]
      /\ \A p \in Producers : pc'[p] = pc[p]
  BY <1>0, Moved DEF Enter
<1>2. TypeOK'
  BY <1>0, PlacesKept DEF Enter, TypeOK, list, ConsumerPlaces
<1>3. LocksHeld'
  BY <1>0, <1>1 DEF Enter, LocksHeld, Threads
<1>4. UNCHANGED <<list, heap, pNode, h1, h2>>
  BY DEF Enter
<1> QED
  BY <1>0, <1>1, <1>2, <1>3, <1>4, QuietKeeps DEF Threads

LEMMA LockHeadStep ==
    ASSUME QueueAssumption, Inv, NEW c \in Consumers, LockHead(c) PROVE Inv'
<1>0. TypeOK /\ LocksHeld /\ c \in Threads
  BY DEF Inv, Threads
<1>1. /\ pc[c] = "again" /\ pc'[c] = "look"
      /\ \A y \in Threads : y # c => pc'[y] = pc[y]
      /\ \A p \in Producers : pc'[p] = pc[p]
  BY <1>0, Moved DEF LockHead
<1>2. TypeOK'
  BY <1>0, PlacesKept DEF LockHead, TypeOK, list, ConsumerPlaces
<1>3. LocksHeld'
  BY <1>0, <1>1 DEF LockHead, LocksHeld, Threads, QueueAssumption
<1>4. UNCHANGED <<list, heap, pNode, h1, h2>>
  BY DEF LockHead
<1> QED
  BY <1>0, <1>1, <1>2, <1>3, <1>4, QuietKeeps DEF Threads

LEMMA UnlockEmptyStep ==
    ASSUME QueueAssumption, Inv, NEW c \in Consumers, UnlockEmpty(c) PROVE Inv'
<1>0. TypeOK /\ LocksHeld /\ c \in Threads
  BY DEF Inv, Threads
<1>1. /\ pc[c] = "empty" /\ pc'[c] = "sleep"
      /\ \A y \in Threads : y # c => pc'[y] = pc[y]
      /\ \A p \in Producers : pc'[p] = pc[p]
  BY <1>0, Moved DEF UnlockEmpty
<1>2. TypeOK'
  BY <1>0, PlacesKept DEF UnlockEmpty, TypeOK, list, ConsumerPlaces
<1>3. LocksHeld'
  BY <1>0, <1>1 DEF UnlockEmpty, LocksHeld, Threads, QueueAssumption
<1>4. UNCHANGED <<list, heap, pNode, h1, h2>>
  BY DEF UnlockEmpty
<1> QED
  BY <1>0, <1>1, <1>2, <1>3, <1>4, QuietKeeps DEF Threads

LEMMA DownStep ==
    ASSUME QueueAssumption, Inv, NEW c \in Consumers, Down(c) PROVE Inv'
<1>0. TypeOK /\ LocksHeld /\ c \in Threads
  BY DEF Inv, Threads
<1>1. /\ pc[c] = "sleep" /\ pc'[c] = "again"
      /\ \A y \in Threads : y # c => pc'[y] = pc[y]
      /\ \A p \in Producers : pc'[p] = pc[p]
  BY <1>0, Moved DEF Down
<1>2. TypeOK'
  <2>1. wait' \in 0..SemMax
    BY <1>0 DEF Down, TypeOK, QueueAssumption
  <2> QED
    BY <1>0, <2>1, PlacesKept DEF Down, TypeOK, list, ConsumerPlaces
<1>3. LocksHeld'
  BY <1>0, <1>1 DEF Down, LocksHeld, Threads
<1>4. UNCHANGED <<list, heap, pNode, h1, h2>>
  BY DEF Down
<1> QED
  BY <1>0, <1>1, <1>2, <1>3, <1>4, QuietKeeps DEF Threads

LEMMA InterruptedStep ==
    ASSUME QueueAssumption, Inv, NEW c \in Consumers, Interrupted(c) PROVE Inv'
<1>0. TypeOK /\ LocksHeld /\ c \in Threads
  BY DEF Inv, Threads
<1>1. /\ pc[c] = "sleep" /\ pc'[c] = "again"
      /\ \A y \in Threads : y # c => pc'[y] = pc[y]
      /\ \A p \in Producers : pc'[p] = pc[p]
  BY <1>0, Moved DEF Interrupted
<1>2. TypeOK'
  BY <1>0, PlacesKept DEF Interrupted, TypeOK, list, ConsumerPlaces
<1>3. LocksHeld'
  BY <1>0, <1>1 DEF Interrupted, LocksHeld, Threads
<1>4. UNCHANGED <<list, heap, pNode, h1, h2>>
  BY DEF Interrupted
<1> QED
  BY <1>0, <1>1, <1>2, <1>3, <1>4, QuietKeeps DEF Threads

LEMMA UnlockHeadStep ==
    ASSUME QueueAssumption, Inv, NEW c \in Consumers, UnlockHead(c) PROVE Inv'
<1>0. TypeOK /\ LocksHeld /\ c \in Threads
  BY DEF Inv, Threads
<1>1. /\ pc[c] = "unlock" /\ pc'[c] = "delete"
      /\ \A y \in Threads : y # c => pc'[y] = pc[y]
      /\ \A p \in Producers : pc'[p] = pc[p]
  BY <1>0, Moved DEF UnlockHead
<1>2. TypeOK'
  BY <1>0, PlacesKept DEF UnlockHead, TypeOK, list, ConsumerPlaces
<1>3. LocksHeld'
  BY <1>0, <1>1 DEF UnlockHead, LocksHeld, Threads, QueueAssumption
<1>4. UNCHANGED <<list, heap, pNode, h1, h2>>
  BY DEF UnlockHead
<1> QED
  BY <1>0, <1>1, <1>2, <1>3, <1>4, QuietKeeps DEF Threads

\* What a consumer sees behind the head is a node that exists.
LEMMA LookStep ==
    ASSUME QueueAssumption, Inv, NEW c \in Consumers, Look(c) PROVE Inv'
<1> DEFINE to == IF next[head] = NoNode THEN "empty" ELSE "take"
<1>0. TypeOK /\ LocksHeld /\ ListIsChain /\ c \in Threads
  BY DEF Inv, Threads
<1>1. /\ pc[c] = "look" /\ pc'[c] = to
      /\ \A y \in Threads : y # c => pc'[y] = pc[y]
      /\ \A p \in Producers : pc'[p] = pc[p]
  BY <1>0, Moved DEF Look
<1>2. /\ head' = head /\ tail' = tail /\ next' = next /\ value' = value
      /\ chain' = chain /\ heap' = heap /\ pNode' = pNode
      /\ h1'[c] = head /\ h2'[c] = next[head]
      /\ \A d \in Consumers : d # c => h1'[d] = h1[d] /\ h2'[d] = h2[d]
  BY <1>0 DEF Look, list, TypeOK
<1>3. TypeOK'
  <2>1. to \in ConsumerPlaces /\ Goto(c, "look", to)
    BY DEF Look, ConsumerPlaces
  <2>2. /\ pc' \in [Producers \cup Consumers -> ProducerPlaces \cup ConsumerPlaces]
        /\ \A p \in Producers : pc'[p] \in ProducerPlaces
        /\ \A d \in Consumers : pc'[d] \in ConsumerPlaces
    BY <1>0, <2>1, PlacesKept DEF QueueAssumption
  <2>3. h1' \in [Consumers -> Places \cup {NoNode}]
    BY <1>0 DEF Look, TypeOK
  <2>4. h2' \in [Consumers -> Places \cup {NoNode}]
    BY <1>0 DEF Look, TypeOK, Places
  <2> QED
    BY <1>0, <2>2, <2>3, <2>4 DEF Look, TypeOK, list
<1>4. LocksHeld'
  BY <1>0, <1>1 DEF Look, LocksHeld, Threads
<1>5. ListIsChain'
  BY <1>1, <1>2 DEF Inv, ListIsChain
<1>6. NodesOwned'
  BY <1>1, <1>2 DEF Inv, NodesOwned, InChain, Linking, Deleting, Threads
<1>7. next[head] # NoNode => next[head] \in heap
  <2>1. SUFFICES ASSUME next[head] # NoNode PROVE next[head] \in heap
    OBVIOUS
  <2>2. Len(chain) \in Nat /\ Len(chain) > 1
    BY <1>0, <2>1 DEF TypeOK, ListIsChain
  <2>3. next[head] = chain[2] /\ chain[2] \in heap \cup {Satellite}
    BY <1>0, <2>2 DEF ListIsChain
  <2>4. next[head] \in Nodes
    BY <1>0, <2>1 DEF TypeOK
  <2> QED
    BY <2>3, <2>4 DEF QueueAssumption
<1>8. NoUseAfterFree'
  BY <1>1, <1>2, <1>3, <1>4, <1>5, <1>7, FollowedNext DEF Inv, NoUseAfterFree, Threads
<1>9. HeldHead'
  BY <1>1, <1>2 DEF Inv, HeldHead, Threads
<1> QED
  BY <1>3, <1>4, <1>5, <1>6, <1>8, <1>9 DEF Inv

-----------------------------------------------------------------------------
(* enQueue: a node is allocated, linked, and becomes the tail. *)

LEMMA NewNodeStep ==
    ASSUME QueueAssumption, Inv, NEW p \in Producers, NewNode(p) PROVE Inv'
<1>0. TypeOK /\ LocksHeld /\ ListIsChain /\ p \in Threads
  BY DEF Inv, Threads
<1>1. /\ pc[p] = "idle" /\ pc'[p] = "lock"
      /\ \A y \in Threads : y # p => pc'[y] = pc[y]
      /\ \A c \in Consumers : pc'[c] = pc[c]
  BY <1>0, Moved DEF NewNode
<1>2. PICK n \in Nodes \ heap, v \in Values :
          /\ heap' = heap \cup {n}
          /\ pNode' = [pNode EXCEPT ![p] = n]
          /\ next' = [next EXCEPT ![n] = NoNode]
          /\ value' = [value EXCEPT ![n] = v]
  BY DEF NewNode, Node
<1>3. /\ head' = head /\ tail' = tail /\ chain' = chain
      /\ h1' = h1 /\ h2' = h2
      /\ n # Satellite /\ n # NoNode /\ n \notin heap
      /\ next'[n] = NoNode /\ \A m \in Places : m # n => next'[m] = next[m]
      /\ value'[n] \in Values /\ \A m \in Places : m # n => value'[m] = value[m]
      /\ pNode'[p] = n /\ \A q \in Producers : q # p => pNode'[q] = pNode[q]
  BY <1>0, <1>2 DEF NewNode, TypeOK, Places, QueueAssumption
<1>4. TypeOK'
  <2>1. next' \in [Places -> Nodes \cup {NoNode}] /\ value' \in [Places -> Values \cup {NoValue}]
    BY <1>0, <1>2 DEF TypeOK
  <2> QED
    BY <1>0, <1>2, <2>1, PlacesKept DEF NewNode, TypeOK, ProducerPlaces
<1>5. LocksHeld'
  BY <1>0, <1>1 DEF NewNode, LocksHeld, Threads
<1>6. Len(chain) \in Nat \ {0} /\ \A i \in 1..Len(chain) : chain[i] \in Places
  BY <1>0 DEF TypeOK, ListIsChain
<1>7. \A i \in 1..Len(chain) : chain[i] # n /\ next'[chain[i]] = next[chain[i]]
  BY <1>0, <1>3, <1>6 DEF ListIsChain
<1>8. ListIsChain'
  BY <1>0, <1>1, <1>2, <1>3, <1>6, <1>7 DEF ListIsChain, Threads
<1>9. NodesOwned'
  <2>4. \A q \in Producers : Linking(q) => q # p /\ pNode[q] # n /\ pNode[q] \in Places
    BY <1>1, <1>2, <1>3 DEF Inv, NodesOwned, Linking, TypeOK, Places
  <2>5. \A c \in Consumers : Deleting(c) => h1[c] # n
    BY <1>3 DEF Inv, NodesOwned
  <2>6. ~InChain(n)
    BY <1>7 DEF InChain
  <2>7. \A m \in heap' : (\/ InChain(m)
                          \/ \E q \in Producers : Linking(q) /\ pNode[q] = m
                          \/ \E c \in Consumers : Deleting(c) /\ h1[c] = m)'
    BY <1>1, <1>2, <1>3, <2>4 DEF Inv, NodesOwned, InChain, Linking, Deleting, Threads
  <2>8. ASSUME NEW q \in Producers, Linking(q)'
        PROVE  (/\ pNode[q] \in heap /\ ~InChain(pNode[q])
                /\ next[pNode[q]] = NoNode /\ value[pNode[q]] \in Values
                /\ \A r \in Producers : Linking(r) /\ pNode[r] = pNode[q] => r = q
                /\ \A c \in Consumers : Deleting(c) => h1[c] # pNode[q])'
    <3>1. CASE q = p
      BY <1>1, <1>2, <1>3, <2>4, <2>5, <2>6, <3>1 DEF InChain, Linking, Deleting, Threads
    <3>2. CASE q # p
      <4>1. Linking(q) /\ pNode'[q] = pNode[q] /\ pNode[q] # n /\ pNode[q] \in Places
        BY <1>1, <1>3, <2>4, <2>8, <3>2 DEF Linking, Threads
      <4> QED
        BY <1>1, <1>2, <1>3, <2>4, <3>2, <4>1
           DEF Inv, NodesOwned, InChain, Linking, Deleting, Threads
    <3> QED
      BY <3>1, <3>2
  <2>9. \A c \in Consumers : (Deleting(c) =>
          /\ h1[c] \in heap \cup {Satellite} /\ ~InChain(h1[c])
          /\ \A d \in Consumers : Deleting(d) /\ h1[d] = h1[c] => d = c)'
    BY <1>1, <1>2, <1>3 DEF Inv, NodesOwned, InChain, Deleting
  <2> QED
    BY <2>7, <2>8, <2>9 DEF NodesOwned
<1>10. NoUseAfterFree'
  <2>1. next'[head] = next[head]
    BY <1>6, <1>7, <1>0 DEF ListIsChain
  <2> QED
    BY <1>1, <1>2, <1>3, <1>4, <1>5, <1>8, <2>1, FollowedNext DEF Inv, NoUseAfterFree
<1>11. HeldHead'
  BY <1>1, <1>3 DEF Inv, HeldHead
<1> QED
  BY <1>4, <1>5, <1>8, <1>9, <1>10, <1>11 DEF Inv

\* Only the producer that has the lock writes at the tail, which is then the
\* last node.
LEMMA AtTail ==
    ASSUME QueueAssumption, TypeOK, LocksHeld, ListIsChain, NEW p \in Producers,
           pc[p] \in {"link", "swing"}
    PROVE  /\ \A q \in Producers : q # p => pc[q] \notin {"link", "swing", "unlock"}
           /\ pc[p] = "link" => tail = chain[Len(chain)]
           /\ pc[p] = "swing" => pNode[p] = chain[Len(chain)]
<1>1. \A q \in Producers : q # p => pc[q] \notin {"link", "swing", "unlock"}
  BY DEF LocksHeld
<1>2. pc[p] = "link" => \A q \in Producers : pc[q] # "swing"
  BY <1>1
<1> QED
  BY <1>1, <1>2 DEF ListIsChain

LEMMA LinkStep ==
    ASSUME QueueAssumption, Inv, NEW p \in Producers, Link(p) PROVE Inv'
<1> DEFINE n == pNode[p]
           last == Len(chain)
<1>0. TypeOK /\ LocksHeld /\ ListIsChain /\ NodesOwned /\ p \in Threads
  BY DEF Inv, Threads
<1>1. /\ pc[p] = "link" /\ pc'[p] = "swing"
      /\ \A y \in Threads : y # p => pc'[y] = pc[y]
      /\ \A c \in Consumers : pc'[c] = pc[c]
  BY <1>0, Moved DEF Link
<1>2. /\ head' = head /\ tail' = tail /\ value' = value /\ heap' = heap
      /\ pNode' = pNode /\ h1' = h1 /\ h2' = h2
  BY DEF Link
<1>3. /\ n \in heap /\ n \in Nodes /\ n \in Places /\ n # NoNode
      /\ \A i \in 1..last : chain[i] # n
      /\ next[n] = NoNode
      /\ \A q \in Producers : Linking(q) /\ pNode[q] = n => q = p
      /\ \A c \in Consumers : Deleting(c) => h1[c] # n
  BY <1>0, <1>1 DEF NodesOwned, Linking, InChain, TypeOK, Places, QueueAssumption
<1>4. /\ tail = chain[last]
      /\ \A q \in Producers : q # p => pc[q] \notin {"link", "swing", "unlock"}
  BY <1>0, <1>1, AtTail
<1>5. /\ last \in Nat \ {0} /\ \A i \in 1..last : chain[i] \in Places
      /\ tail \in Places /\ tail # n
  BY <1>0, <1>3, <1>4 DEF TypeOK, ListIsChain
<1>6. /\ next'[tail] = n /\ \A m \in Places : m # tail => next'[m] = next[m]
      /\ next' \in [Places -> Nodes \cup {NoNode}]
  BY <1>0, <1>3, <1>5 DEF Link, TypeOK
<1>7. /\ Len(chain') = last + 1 /\ chain'[last + 1] = n
      /\ \A i \in 1..last : chain'[i] = chain[i]
      /\ chain' \in Seq(Places)
  BY <1>0, <1>3 DEF Link, TypeOK
<1> HIDE DEF n, last
<1>8. TypeOK'
  BY <1>0, <1>2, <1>6, <1>7, PlacesKept DEF Link, TypeOK, ProducerPlaces
<1>9. LocksHeld'
  BY <1>0, <1>1 DEF Link, LocksHeld, Threads
<1>10. ListIsChain'
  <2>1. /\ Len(chain') > 0 /\ head' = chain'[1]
        /\ \A i \in 1..Len(chain') : chain'[i] \in heap' \cup {Satellite}
    BY <1>0, <1>2, <1>3, <1>5, <1>7 DEF ListIsChain, last
  <2>2. \A i, j \in 1..Len(chain') : chain'[i] = chain'[j] => i = j
    BY <1>0, <1>3, <1>5, <1>7 DEF ListIsChain, last
  <2>3. ASSUME NEW i \in 1..(Len(chain') - 1)
        PROVE  next'[chain'[i]] = chain'[i + 1]
    <3>1. CASE i = last
      BY <1>4, <1>5, <1>6, <1>7, <3>1
    <3>2. CASE i # last
      <4>1. i \in 1..(last - 1) /\ i \in 1..last /\ i + 1 \in 1..last /\ last \in 1..last
        BY <1>5, <1>7, <3>2
      <4>2. chain[i] # tail /\ next[chain[i]] = chain[i + 1]
        BY <1>0, <1>4, <3>2, <4>1 DEF ListIsChain, last
      <4> QED
        BY <1>5, <1>6, <1>7, <4>1, <4>2
    <3> QED
      BY <3>1, <3>2
  <2>4. next'[chain'[Len(chain')]] = NoNode
    BY <1>3, <1>5, <1>6, <1>7
  <2>5. IF \E q \in Producers : pc'[q] = "swing"
        THEN \A q \in Producers : pc'[q] = "swing" => chain'[Len(chain')] = pNode'[q]
        ELSE tail' = chain'[Len(chain')]
    BY <1>0, <1>1, <1>2, <1>4, <1>7 DEF Threads, n
  <2> QED
    BY <2>1, <2>2, <2>3, <2>4, <2>5 DEF ListIsChain
<1>11. \A m : InChain(m)' <=> InChain(m) \/ m = n
  <2>1. SUFFICES ASSUME NEW m PROVE InChain(m)' <=> InChain(m) \/ m = n
    OBVIOUS
  <2>2. 1..Len(chain') = (1..last) \cup {last + 1}
    BY <1>5, <1>7
  <2> QED
    BY <1>7, <2>2 DEF InChain, last
<1>12. NodesOwned'
  <2>1. ASSUME NEW m \in heap'
        PROVE  (\/ InChain(m)
                \/ \E q \in Producers : Linking(q) /\ pNode[q] = m
                \/ \E c \in Consumers : Deleting(c) /\ h1[c] = m)'
    BY <1>0, <1>1, <1>2, <1>11 DEF NodesOwned, Linking, Deleting, Threads, n
  <2>2. ASSUME NEW q \in Producers, Linking(q)'
        PROVE  (/\ pNode[q] \in heap /\ ~InChain(pNode[q])
                /\ next[pNode[q]] = NoNode /\ value[pNode[q]] \in Values
                /\ \A r \in Producers : Linking(r) /\ pNode[r] = pNode[q] => r = q
                /\ \A c \in Consumers : Deleting(c) => h1[c] # pNode[q])'
    <3>1. q # p /\ Linking(q) /\ pNode[q] # n /\ ~InChain(pNode[q])
      BY <1>0, <1>1, <1>3, <2>2 DEF NodesOwned, Linking, Threads
    <3>2. pNode[q] \in Places /\ pNode[q] # tail
      <4>1. InChain(tail)
        BY <1>4, <1>5 DEF InChain, last
      <4> QED
        BY <1>0, <3>1, <4>1 DEF NodesOwned, TypeOK, Places
    <3>3. \A r \in Producers : Linking(r)' => Linking(r)
      BY <1>1 DEF Linking, Threads
    <3>4. \A c \in Consumers : Deleting(c)' => Deleting(c)
      BY <1>1 DEF Deleting
    <3>5. next'[pNode[q]] = NoNode
      BY <1>0, <1>6, <3>1, <3>2 DEF NodesOwned
    <3>6. ~InChain(pNode[q])'
      BY <1>2, <1>11, <3>1
    <3> QED
      BY <1>0, <1>2, <3>1, <3>3, <3>4, <3>5, <3>6 DEF NodesOwned
  <2>3. ASSUME NEW c \in Consumers, Deleting(c)'
        PROVE  (/\ h1[c] \in heap \cup {Satellite} /\ ~InChain(h1[c])
                /\ \A d \in Consumers : Deleting(d) /\ h1[d] = h1[c] => d = c)'
    <3>1. \A d \in Consumers : Deleting(d)' => Deleting(d)
      BY <1>1 DEF Deleting
    <3>2. Deleting(c) /\ ~InChain(h1[c])'
      BY <1>0, <1>2, <1>3, <1>11, <2>3, <3>1 DEF NodesOwned
    <3> QED
      BY <1>0, <1>2, <3>1, <3>2 DEF NodesOwned
  <2> QED
    BY <2>1, <2>2, <2>3 DEF NodesOwned
<1>13. NoUseAfterFree'
  <2>1. ASSUME NEW c \in Consumers, pc'[c] = "take"
        PROVE  h2'[c] \in heap' /\ h2'[c] = next'[head']
    <3>1. h2[c] \in heap /\ h2[c] = next[head]
      BY <1>1, <2>1 DEF Inv, NoUseAfterFree
    <3>2. head # tail
      BY <1>0, <1>4, <3>1 DEF ListIsChain, TypeOK, QueueAssumption, last
    <3> QED
      BY <1>0, <1>2, <1>6, <3>1, <3>2 DEF TypeOK
  <2> QED
    BY <1>8, <1>9, <1>10, <2>1, FollowedNext DEF NoUseAfterFree
<1>14. HeldHead'
  BY <1>1, <1>2 DEF Inv, HeldHead
<1> QED
  BY <1>8, <1>9, <1>10, <1>12, <1>13, <1>14 DEF Inv

LEMMA SwingStep ==
    ASSUME QueueAssumption, Inv, NEW p \in Producers, Swing(p) PROVE Inv'
<1>0. TypeOK /\ LocksHeld /\ ListIsChain /\ p \in Threads
  BY DEF Inv, Threads
<1>1. /\ pc[p] = "swing" /\ pc'[p] = "unlock"
      /\ \A y \in Threads : y # p => pc'[y] = pc[y]
      /\ \A c \in Consumers : pc'[c] = pc[c]
  BY <1>0, Moved DEF Swing
<1>2. /\ head' = head /\ next' = next /\ value' = value /\ heap' = heap
      /\ chain' = chain /\ pNode' = pNode /\ h1' = h1 /\ h2' = h2
      /\ tail' = pNode[p]
  BY DEF Swing
<1>3. /\ pNode[p] = chain[Len(chain)]
      /\ \A q \in Producers : q # p => pc[q] \notin {"link", "swing", "unlock"}
  BY <1>0, <1>1, AtTail
<1>4. tail' \in Places
  BY <1>0, <1>2, <1>3 DEF TypeOK, ListIsChain
<1>5. TypeOK'
  BY <1>0, <1>4, PlacesKept DEF Swing, TypeOK, ProducerPlaces
<1>6. LocksHeld'
  BY <1>0, <1>1 DEF Swing, LocksHeld, Threads
<1>7. ListIsChain'
  BY <1>0, <1>1, <1>2, <1>3 DEF ListIsChain, Threads
<1>8. NodesOwned'
  BY <1>1, <1>2 DEF Inv, NodesOwned, InChain, Linking, Deleting, Threads
<1>9. NoUseAfterFree'
  BY <1>1, <1>2, <1>5, <1>6, <1>7, FollowedNext DEF Inv, NoUseAfterFree
<1>10. HeldHead'
  BY <1>1, <1>2 DEF Inv, HeldHead
<1> QED
  BY <1>5, <1>6, <1>7, <1>8, <1>9, <1>10 DEF Inv

-----------------------------------------------------------------------------
(* deQueue: the head moves on, and the node it left is deleted. *)

LEMMA TakeStep ==
    ASSUME QueueAssumption, Inv, NEW c \in Consumers, Take(c) PROVE Inv'
<1> DEFINE last == Len(chain)
<1>0. TypeOK /\ LocksHeld /\ ListIsChain /\ NodesOwned /\ c \in Threads
  BY DEF Inv, Threads
<1>1. /\ pc[c] = "take" /\ pc'[c] = "unlock"
      /\ \A y \in Threads : y # c => pc'[y] = pc[y]
      /\ \A p \in Producers : pc'[p] = pc[p]
  BY <1>0, Moved DEF Take
<1>2. /\ tail' = tail /\ next' = next /\ value' = value /\ heap' = heap
      /\ pNode' = pNode /\ h1' = h1 /\ h2' = h2 /\ head' = h2[c]
      /\ chain' = Tail(chain)
  BY DEF Take
<1>3. h1[c] = chain[1] /\ h2[c] \in heap /\ h2[c] = next[chain[1]]
  BY <1>0, <1>1 DEF Inv, HeldHead, NoUseAfterFree, ListIsChain
<1>4. last \in Nat /\ last > 1
  BY <1>0, <1>3 DEF ListIsChain, TypeOK, QueueAssumption
<1>5. h2[c] = chain[2]
  BY <1>0, <1>3, <1>4 DEF ListIsChain
<1>6. /\ Len(chain') = last - 1 /\ chain' \in Seq(Places)
      /\ \A i \in 1..(last - 1) : chain'[i] = chain[i + 1]
  BY <1>0, <1>2, <1>4 DEF TypeOK
<1> HIDE DEF last
<1>7. TypeOK'
  <2>1. h2[c] \in Places
    BY <1>0, <1>3 DEF TypeOK, Places
  <2>2. t' \in [Consumers -> Values \cup {NoValue}]
    BY <1>0, <2>1 DEF Take, ValueNew, TypeOK
  <2> QED
    BY <1>0, <1>6, <2>1, <2>2, PlacesKept DEF Take, TypeOK, ConsumerPlaces
<1>8. LocksHeld'
  BY <1>0, <1>1 DEF Take, LocksHeld, Threads
<1>9. ListIsChain'
  <2>1. Len(chain') > 0 /\ head' = chain'[1] /\ chain'[Len(chain')] = chain[last]
    BY <1>2, <1>4, <1>5, <1>6
  <2>2. \A i, j \in 1..Len(chain') : chain'[i] = chain'[j] => i = j
    <3>1. SUFFICES ASSUME NEW i \in 1..(last - 1), NEW j \in 1..(last - 1),
                          chain'[i] = chain'[j] PROVE i = j
      BY <1>6
    <3>2. i + 1 \in 1..last /\ j + 1 \in 1..last /\ chain[i + 1] = chain[j + 1]
      BY <1>4, <1>6, <3>1
    <3> QED
      BY <1>0, <3>2 DEF ListIsChain, last
  <2>3. \A i \in 1..Len(chain') : chain'[i] \in heap' \cup {Satellite}
    BY <1>0, <1>2, <1>4, <1>6 DEF ListIsChain, last
  <2>4. \A i \in 1..(Len(chain') - 1) : next'[chain'[i]] = chain'[i + 1]
    <3>1. ASSUME NEW i \in 1..(last - 2)
          PROVE  next[chain'[i]] = chain'[i + 1]
      <4>1. /\ i \in 1..(last - 1) /\ i + 1 \in 1..(last - 1)
            /\ (i + 1) + 1 = i + 2
        BY <1>4
      <4>2. chain'[i] = chain[i + 1] /\ chain'[i + 1] = chain[(i + 1) + 1]
        BY <1>6, <4>1
      <4> QED
        BY <1>0, <4>1, <4>2 DEF ListIsChain, last
    <3>2. Len(chain') - 1 = last - 2
      BY <1>4, <1>6
    <3> QED
      BY <1>2, <3>1, <3>2
  <2>5. next'[chain'[Len(chain')]] = NoNode
    BY <1>0, <1>2, <2>1 DEF ListIsChain, last
  <2>6. IF \E p \in Producers : pc'[p] = "swing"
        THEN \A p \in Producers : pc'[p] = "swing" => chain'[Len(chain')] = pNode'[p]
        ELSE tail' = chain'[Len(chain')]
    <3>1. IF \E p \in Producers : pc[p] = "swing"
          THEN \A p \in Producers : pc[p] = "swing" => chain[last] = pNode[p]
          ELSE tail = chain[last]
      BY <1>0 DEF ListIsChain, last
    <3> QED
      BY <1>1, <1>2, <2>1, <3>1
  <2> QED
    BY <2>1, <2>2, <2>3, <2>4, <2>5, <2>6 DEF ListIsChain
<1>10. \A m : InChain(m) <=> InChain(m)' \/ m = chain[1]
  <2>1. \A i \in 1..(last - 1) : i + 1 \in 1..last /\ chain'[i] = chain[i + 1]
    BY <1>4, <1>6
  <2>2. \A i \in 1..last : i = 1 \/ (i - 1 \in 1..(last - 1) /\ chain'[i - 1] = chain[i])
    BY <1>4, <1>6
  <2>3. 1 \in 1..last
    BY <1>4
  <2> QED
    BY <1>6, <2>1, <2>2, <2>3 DEF InChain, last
<1>11. \A i \in 1..Len(chain') : chain'[i] # chain[1]
  <2>1. SUFFICES ASSUME NEW i \in 1..(last - 1), chain'[i] = chain[1] PROVE FALSE
    BY <1>6
  <2>2. i + 1 \in 1..last /\ 1 \in 1..last /\ chain[i + 1] = chain[1] /\ i + 1 # 1
    BY <1>4, <1>6, <2>1
  <2> QED
    BY <1>0, <2>2 DEF ListIsChain, last
<1>12. \A d \in Consumers : Deleting(d)' <=> Deleting(d) \/ d = c
  BY <1>1 DEF Deleting, Threads
<1>13. NodesOwned'
  <2>1. ASSUME NEW m \in heap'
        PROVE  (\/ InChain(m)
                \/ \E q \in Producers : Linking(q) /\ pNode[q] = m
                \/ \E d \in Consumers : Deleting(d) /\ h1[d] = m)'
    <3>1. CASE m = chain[1]
      BY <1>2, <1>3, <1>12, <3>1
    <3>2. CASE m # chain[1]
      <4>1. CASE InChain(m)
        BY <1>10, <3>2, <4>1
      <4>2. CASE \E q \in Producers : Linking(q) /\ pNode[q] = m
        BY <1>1, <1>2, <4>2 DEF Linking
      <4>3. CASE \E d \in Consumers : Deleting(d) /\ h1[d] = m
        BY <1>2, <1>12, <4>3
      <4> QED
        BY <1>0, <1>2, <4>1, <4>2, <4>3 DEF NodesOwned
    <3> QED
      BY <3>1, <3>2
  <2>2. ASSUME NEW q \in Producers, Linking(q)'
        PROVE  (/\ pNode[q] \in heap /\ ~InChain(pNode[q])
                /\ next[pNode[q]] = NoNode /\ value[pNode[q]] \in Values
                /\ \A r \in Producers : Linking(r) /\ pNode[r] = pNode[q] => r = q
                /\ \A d \in Consumers : Deleting(d) => h1[d] # pNode[q])'
    <3>1. Linking(q) /\ \A r \in Producers : Linking(r)' => Linking(r)
      BY <1>1, <2>2 DEF Linking
    <3>2. ~InChain(pNode[q]) /\ pNode[q] # chain[1]
      BY <1>0, <1>10, <3>1 DEF NodesOwned
    <3>3. ~InChain(pNode[q])'
      BY <1>2, <1>10, <3>2
    <3>4. ASSUME NEW d \in Consumers, Deleting(d)' PROVE h1'[d] # pNode'[q]
      BY <1>0, <1>2, <1>3, <1>12, <3>1, <3>2, <3>4 DEF NodesOwned
    <3> QED
      BY <1>0, <1>2, <3>1, <3>3, <3>4 DEF NodesOwned
  <2>3. ASSUME NEW d \in Consumers, Deleting(d)'
        PROVE  (/\ h1[d] \in heap \cup {Satellite} /\ ~InChain(h1[d])
                /\ \A e \in Consumers : Deleting(e) /\ h1[e] = h1[d] => e = d)'
    <3>1. InChain(chain[1]) /\ chain[1] \in heap \cup {Satellite}
      BY <1>0, <1>4, <1>10 DEF ListIsChain, last
    <3>2. \A e \in Consumers : Deleting(e) => h1[e] # chain[1]
      BY <1>0, <3>1 DEF NodesOwned
    <3>3. CASE d = c
      <4>1. ~InChain(h1[d])'
        BY <1>2, <1>3, <1>11, <3>3 DEF InChain
      <4>2. ASSUME NEW e \in Consumers, Deleting(e)', h1'[e] = h1'[d] PROVE e = d
        BY <1>2, <1>3, <1>12, <3>2, <3>3, <4>2
      <4> QED
        BY <1>2, <1>3, <3>1, <3>3, <4>1, <4>2
    <3>4. CASE d # c
      <4>1. Deleting(d)
        BY <1>12, <2>3, <3>4
      <4>2. ~InChain(h1[d])'
        BY <1>0, <1>2, <1>10, <4>1 DEF NodesOwned
      <4>3. ASSUME NEW e \in Consumers, Deleting(e)', h1'[e] = h1'[d] PROVE e = d
        BY <1>0, <1>2, <1>3, <1>12, <3>2, <4>1, <4>3 DEF NodesOwned
      <4> QED
        BY <1>0, <1>2, <4>1, <4>2, <4>3 DEF NodesOwned
    <3> QED
      BY <3>3, <3>4
  <2> QED
    BY <2>1, <2>2, <2>3 DEF NodesOwned
<1>14. \A d \in Consumers : pc'[d] # "take"
  BY <1>0, <1>1 DEF LocksHeld, Threads
<1>15. NoUseAfterFree'
  BY <1>7, <1>8, <1>9, <1>14, FollowedNext DEF NoUseAfterFree
<1>16. HeldHead'
  BY <1>14 DEF HeldHead
<1> QED
  BY <1>7, <1>8, <1>9, <1>13, <1>15, <1>16 DEF Inv

LEMMA DeleteStep ==
    ASSUME QueueAssumption, Inv, NEW c \in Consumers, Delete(c) PROVE Inv'
<1>0. TypeOK /\ LocksHeld /\ ListIsChain /\ NodesOwned /\ c \in Threads
  BY DEF Inv, Threads
<1>1. /\ pc[c] = "delete" /\ pc'[c] = "idle"
      /\ \A y \in Threads : y # c => pc'[y] = pc[y]
      /\ \A p \in Producers : pc'[p] = pc[p]
  BY <1>0, Moved DEF Delete
<1>2. /\ head' = head /\ tail' = tail /\ next' = next /\ value' = value
      /\ chain' = chain /\ pNode' = pNode
      /\ \A d \in Consumers : d # c => h1'[d] = h1[d] /\ h2'[d] = h2[d]
      /\ heap' = heap \ ({h1[c]} \ {Satellite})
  BY <1>0 DEF Delete, Leaving, list, TypeOK
<1>3. Deleting(c) /\ ~InChain(h1[c])
  BY <1>0, <1>1 DEF NodesOwned, Deleting
<1>4. TypeOK'
  BY <1>0, <1>2, PlacesKept DEF Delete, TypeOK, list, ConsumerPlaces
<1>5. LocksHeld'
  BY <1>0, <1>1 DEF Delete, LocksHeld, Threads
<1>6. \A i \in 1..Len(chain) : chain[i] \in heap' \cup {Satellite}
  BY <1>0, <1>2, <1>3 DEF ListIsChain, InChain
<1>7. ListIsChain'
  BY <1>0, <1>1, <1>2, <1>6 DEF ListIsChain
<1>8. \A d \in Consumers : Deleting(d)' <=> Deleting(d) /\ d # c
  BY <1>1 DEF Deleting, Threads
<1>9. NodesOwned'
  <2>1. ASSUME NEW m \in heap'
        PROVE  (\/ InChain(m)
                \/ \E q \in Producers : Linking(q) /\ pNode[q] = m
                \/ \E d \in Consumers : Deleting(d) /\ h1[d] = m)'
    <3>1. m \in heap /\ m # h1[c]
      BY <1>0, <1>2, <2>1 DEF TypeOK, QueueAssumption
    <3> QED
      BY <1>0, <1>1, <1>2, <1>8, <3>1 DEF NodesOwned, InChain, Linking
  <2>2. ASSUME NEW q \in Producers, Linking(q)'
        PROVE  (/\ pNode[q] \in heap /\ ~InChain(pNode[q])
                /\ next[pNode[q]] = NoNode /\ value[pNode[q]] \in Values
                /\ \A r \in Producers : Linking(r) /\ pNode[r] = pNode[q] => r = q
                /\ \A d \in Consumers : Deleting(d) => h1[d] # pNode[q])'
    <3>1. Linking(q) /\ \A r \in Producers : Linking(r)' => Linking(r)
      BY <1>1, <2>2 DEF Linking
    <3>2. pNode[q] # h1[c]
      BY <1>0, <1>3, <3>1 DEF NodesOwned
    <3> QED
      BY <1>0, <1>2, <1>8, <3>1, <3>2 DEF NodesOwned, InChain
  <2>3. ASSUME NEW d \in Consumers, Deleting(d)'
        PROVE  (/\ h1[d] \in heap \cup {Satellite} /\ ~InChain(h1[d])
                /\ \A e \in Consumers : Deleting(e) /\ h1[e] = h1[d] => e = d)'
    <3>1. Deleting(d) /\ d # c /\ h1[d] # h1[c]
      BY <1>0, <1>3, <1>8, <2>3 DEF NodesOwned
    <3> QED
      BY <1>0, <1>2, <1>8, <3>1 DEF NodesOwned, InChain
  <2> QED
    BY <2>1, <2>2, <2>3 DEF NodesOwned
<1>10. NoUseAfterFree'
  <2>1. ASSUME NEW d \in Consumers, pc'[d] = "take"
        PROVE  h2'[d] \in heap' /\ h2'[d] = next'[head']
    <3>1. d # c /\ h2[d] \in heap /\ h2[d] = next[head]
      BY <1>1, <2>1 DEF Inv, NoUseAfterFree, Threads
    <3>2. Len(chain) \in Nat /\ Len(chain) > 1
      BY <1>0, <3>1 DEF ListIsChain, TypeOK, QueueAssumption
    <3>3. h2[d] = chain[2] /\ InChain(h2[d])
      BY <1>0, <3>1, <3>2 DEF ListIsChain, InChain
    <3> QED
      BY <1>2, <1>3, <3>1, <3>3
  <2> QED
    BY <1>4, <1>5, <1>7, <2>1, FollowedNext DEF NoUseAfterFree
<1>11. HeldHead'
  BY <1>1, <1>2 DEF Inv, HeldHead, Threads
<1> QED
  BY <1>4, <1>5, <1>7, <1>9, <1>10, <1>11 DEF Inv

-----------------------------------------------------------------------------
LEMMA InitInv == ASSUME QueueAssumption, Init PROVE Inv
<1>1. /\ chain = <<Satellite>> /\ Len(chain) = 1 /\ chain[1] = Satellite
      /\ chain \in Seq(Places)
  BY DEF Init, Places
<1>2. TypeOK
  BY <1>1 DEF Init, TypeOK, Places, QueueAssumption, ProducerPlaces, ConsumerPlaces
<1>3. LocksHeld
  BY DEF Init, LocksHeld, QueueAssumption
<1>4. ListIsChain
  BY <1>1 DEF Init, ListIsChain, Places
<1>5. NodesOwned /\ NoUseAfterFree /\ HeldHead
  BY DEF Init, NodesOwned, NoUseAfterFree, HeldHead, Linking, Deleting
<1> QED
  BY <1>2, <1>3, <1>4, <1>5 DEF Inv

LEMMA StepInv == ASSUME QueueAssumption, Inv, [Next]_vars PROVE Inv'
<1>1. ASSUME NEW p \in Producers, enQueue(p) PROVE Inv'
  BY <1>1, NewNodeStep, LockTailStep, LinkStep, SwingStep, UnlockTailStep,
     PostStep, CountStep DEF enQueue
<1>2. ASSUME NEW c \in Consumers, Enter(c) \/ deQueue(c) \/ Interrupted(c)
      PROVE  Inv'
  BY <1>2, EnterStep, LockHeadStep, LookStep, UnlockEmptyStep, DownStep,
     InterruptedStep, TakeStep, UnlockHeadStep, DeleteStep DEF deQueue
<1>3. CASE UNCHANGED vars
  <2>1. TypeOK' /\ LocksHeld'
    BY <1>3 DEF vars, Inv, TypeOK, LocksHeld
  <2> QED
    BY <1>3, <2>1, QuietKeeps DEF vars, list
<1> QED
  BY <1>1, <1>2, <1>3 DEF Next

\* The inductive invariant holds in every state, for any number of producers,
\* consumers and nodes.
THEOREM Invariance == ASSUME QueueAssumption PROVE Spec => []Inv
<1> QED
  BY InitInv, StepInv, PTL DEF Spec

\* Type correctness; the semaphore stays within its limit (Queue.h:55).
THEOREM TypeCorrect == ASSUME QueueAssumption PROVE Spec => []TypeOK
<1> QED BY Invariance, PTL DEF Inv

\* The nodes are linked in the order in which they were put, and the two ends
\* are where head and tail say (Queue.h:45-46, 84-85).
THEOREM Linked == ASSUME QueueAssumption PROVE Spec => []ListIsChain
<1> QED BY Invariance, PTL DEF Inv

\* No node leaks and none is deleted twice (Queue.h:39, 90-91).
THEOREM Owned == ASSUME QueueAssumption PROVE Spec => []NodesOwned
<1> QED BY Invariance, PTL DEF Inv

\* No thread follows a pointer to a deleted node (Queue.h:45, 72-85).
THEOREM Followed == ASSUME QueueAssumption PROVE Spec => []NoUseAfterFree
<1> QED BY Invariance, PTL DEF Inv

-----------------------------------------------------------------------------
(* Nobody oversleeps: how a step changes the number of threads that are    *)
(* about to post, or will look again.                                      *)

Announcing == {"swing", "unlock", "post"}
Searching == {"again", "look", "take"}
One(b) == IF b THEN 1 ELSE 0

LEMMA OneChanges ==
    ASSUME NEW S, NEW T, NEW x, IsFiniteSet(S), IsFiniteSet(T),
           \A y : y # x => (y \in T <=> y \in S)
    PROVE  Cardinality(T) = Cardinality(S) + One(x \in T) - One(x \in S)
<1>0. Cardinality(S) \in Nat /\ Cardinality(T) \in Nat
  BY FS_CardinalityType
<1>1. CASE x \in S <=> x \in T
  <2>1. T = S
    BY <1>1
  <2> QED
    BY <1>0, <2>1 DEF One
<1>2. CASE x \in T /\ x \notin S
  <2>1. T = S \cup {x}
    BY <1>2
  <2>2. Cardinality(T) = Cardinality(S) + 1
    BY <1>2, <2>1, FS_AddElement
  <2> QED
    BY <1>0, <1>2, <2>2 DEF One
<1>3. CASE x \in S /\ x \notin T
  <2>1. T = S \ {x}
    BY <1>3
  <2>2. Cardinality(T) = Cardinality(S) - 1
    BY <1>3, <2>1, FS_RemoveElement
  <2> QED
    BY <1>0, <1>3, <2>2 DEF One
<1> QED
  BY <1>1, <1>2, <1>3

LEMMA Counted ==
    ASSUME QueueAssumption
    PROVE  /\ IsFiniteSet(Posting) /\ IsFiniteSet(Looking)
           /\ Cardinality(Posting) \in Nat /\ Cardinality(Looking) \in Nat
<1>1. Posting \in SUBSET Producers /\ Looking \in SUBSET Consumers
  BY DEF Posting, Looking
<1>2. IsFiniteSet(Posting) /\ IsFiniteSet(Looking)
  BY <1>1, FS_Subset DEF QueueAssumption
<1> QED
  BY <1>2, FS_CardinalityType

LEMMA CountedNext ==
    ASSUME QueueAssumption
    PROVE  /\ IsFiniteSet(Posting') /\ IsFiniteSet(Looking')
           /\ Cardinality(Posting') \in Nat /\ Cardinality(Looking') \in Nat
<1>1. Posting' \in SUBSET Producers /\ Looking' \in SUBSET Consumers
  BY DEF Posting, Looking
<1>2. IsFiniteSet(Posting') /\ IsFiniteSet(Looking')
  BY <1>1, FS_Subset DEF QueueAssumption
<1> QED
  BY <1>2, FS_CardinalityType

LEMMA ProducerMoves ==
    ASSUME QueueAssumption, TypeOK, NEW p \in Producers, NEW from, NEW to,
           Goto(p, from, to)
    PROVE  /\ Cardinality(Looking') = Cardinality(Looking)
           /\ Cardinality(Posting') = Cardinality(Posting)
                 + One(to \in Announcing) - One(from \in Announcing)
<1>1. /\ pc[p] = from /\ pc'[p] = to
      /\ \A q \in Producers : q # p => pc'[q] = pc[q]
      /\ \A c \in Consumers : pc'[c] = pc[c]
  BY Moved DEF Threads
<1>2. Looking' = Looking
  BY <1>1 DEF Looking
<1>3. \A y : y # p => (y \in Posting' <=> y \in Posting)
  BY <1>1 DEF Posting
<1>4. (p \in Posting' <=> to \in Announcing) /\ (p \in Posting <=> from \in Announcing)
  BY <1>1 DEF Posting, Announcing
<1>5. Cardinality(Posting') = Cardinality(Posting)
                 + One(p \in Posting') - One(p \in Posting)
  BY <1>3, Counted, CountedNext, OneChanges
<1> QED
  BY <1>2, <1>4, <1>5 DEF One

LEMMA ConsumerMoves ==
    ASSUME QueueAssumption, TypeOK, NEW c \in Consumers, NEW from, NEW to,
           Goto(c, from, to)
    PROVE  /\ Cardinality(Posting') = Cardinality(Posting)
           /\ Cardinality(Looking') = Cardinality(Looking)
                 + One(to \in Searching) - One(from \in Searching)
<1>1. /\ pc[c] = from /\ pc'[c] = to
      /\ \A d \in Consumers : d # c => pc'[d] = pc[d]
      /\ \A p \in Producers : pc'[p] = pc[p]
  BY Moved DEF Threads
<1>2. Posting' = Posting
  BY <1>1 DEF Posting
<1>3. \A y : y # c => (y \in Looking' <=> y \in Looking)
  BY <1>1 DEF Looking
<1>4. (c \in Looking' <=> to \in Searching) /\ (c \in Looking <=> from \in Searching)
  BY <1>1 DEF Looking, Searching
<1>5. Cardinality(Looking') = Cardinality(Looking)
                 + One(c \in Looking') - One(c \in Looking)
  BY <1>3, Counted, CountedNext, OneChanges
<1> QED
  BY <1>2, <1>4, <1>5 DEF One

\* The list is never longer than the semaphore can count: no post is lost that
\* somebody needs.
LEMMA ChainFits ==
    ASSUME QueueAssumption, TypeOK, ListIsChain PROVE Len(chain) - 1 <= SemMax
<1> DEFINE S == 1..Len(chain)
<1>1. Len(chain) \in Nat /\ chain \in [S -> Places]
  BY DEF TypeOK
<1>2. chain \in Injection(S, Places)
  BY <1>1 DEF ListIsChain, Injection, IsInjective
<1>3. IsFiniteSet(Places) /\ Cardinality(Places) = Cardinality(Nodes) + 1
  BY FS_AddElement DEF Places, QueueAssumption
<1>4. Cardinality(S) = Len(chain)
  BY <1>1, FS_Interval DEF ListIsChain
<1>5. Cardinality(S) <= Cardinality(Places)
  BY <1>2, <1>3, FS_Injection
<1>6. Cardinality(Nodes) \in Nat
  BY FS_CardinalityType DEF QueueAssumption
<1> QED
  BY <1>1, <1>3, <1>4, <1>5, <1>6 DEF QueueAssumption

LEMMA AwakeProducer ==
    ASSUME QueueAssumption, Inv, NobodyOversleeps, NEW p \in Producers, enQueue(p)
    PROVE  NobodyOversleeps'
<1>0. /\ TypeOK /\ ListIsChain /\ Len(chain) \in Nat /\ wait \in Nat /\ wait <= SemMax
      /\ SemMax \in Nat
  BY DEF Inv, TypeOK, QueueAssumption
<1>1. /\ Cardinality(Posting) \in Nat /\ Cardinality(Looking) \in Nat
      /\ Cardinality(Posting') \in Nat /\ Cardinality(Looking') \in Nat
  BY Counted, CountedNext
<1>2. CASE NewNode(p) \/ LockTail(p) \/ Count(p)
  <2>1. chain' = chain /\ wait' = wait
    BY <1>2 DEF NewNode, LockTail, Count, list
  <2>2. \E from, to : /\ Goto(p, from, to)
                      /\ from \notin Announcing /\ to \notin Announcing
    BY <1>2 DEF NewNode, LockTail, Count, Announcing
  <2>3. /\ Cardinality(Looking') = Cardinality(Looking)
        /\ Cardinality(Posting') = Cardinality(Posting)
    BY <1>0, <1>1, <2>2, ProducerMoves DEF One
  <2> QED
    BY <2>1, <2>3 DEF NobodyOversleeps
<1>3. CASE Link(p)
  <2>1. wait' = wait /\ chain' = Append(chain, pNode[p])
    BY <1>3 DEF Link
  <2>2. Len(chain') = Len(chain) + 1
    BY <1>0, <2>1 DEF TypeOK
  <2>3. Goto(p, "link", "swing")
    BY <1>3 DEF Link
  <2>4. /\ Cardinality(Looking') = Cardinality(Looking)
        /\ Cardinality(Posting') = Cardinality(Posting) + 1
    BY <1>0, <1>1, <2>3, ProducerMoves DEF One, Announcing
  <2> QED
    BY <1>0, <1>1, <2>1, <2>2, <2>4 DEF NobodyOversleeps
<1>4. CASE Swing(p) \/ UnlockTail(p)
  <2>1. chain' = chain /\ wait' = wait
    BY <1>4 DEF Swing, UnlockTail, list
  <2>2. \E from, to : /\ Goto(p, from, to)
                      /\ from \in Announcing /\ to \in Announcing
    BY <1>4 DEF Swing, UnlockTail, Announcing
  <2>3. /\ Cardinality(Looking') = Cardinality(Looking)
        /\ Cardinality(Posting') = Cardinality(Posting)
    BY <1>0, <1>1, <2>2, ProducerMoves DEF One
  <2> QED
    BY <2>1, <2>3 DEF NobodyOversleeps
<1>5. CASE Post(p)
  <2>1. chain' = chain /\ wait' = Posted /\ Goto(p, "post", "count")
    BY <1>5 DEF Post, list
  <2>2. /\ Cardinality(Looking') = Cardinality(Looking)
        /\ Cardinality(Posting') = Cardinality(Posting) - 1
    BY <1>0, <1>1, <2>1, ProducerMoves DEF One, Announcing
  <2>3. CASE wait < SemMax
    BY <1>0, <1>1, <2>1, <2>2, <2>3 DEF NobodyOversleeps, Posted
  <2>4. CASE wait = SemMax
    <3>1. wait' = SemMax
      BY <1>0, <2>1, <2>4 DEF Posted
    <3> QED
      BY <1>0, <1>1, <2>1, <3>1, ChainFits DEF NobodyOversleeps
  <2> QED
    BY <1>0, <2>3, <2>4
<1> QED
  BY <1>2, <1>3, <1>4, <1>5 DEF enQueue

LEMMA AwakeConsumer ==
    ASSUME QueueAssumption, Inv, NobodyOversleeps, NEW c \in Consumers,
           Enter(c) \/ deQueue(c) \/ Interrupted(c)
    PROVE  NobodyOversleeps'
<1>0. /\ TypeOK /\ ListIsChain /\ Len(chain) \in Nat /\ wait \in Nat
      /\ Len(chain) > 0
  BY DEF Inv, TypeOK, QueueAssumption, ListIsChain
<1>1. /\ Cardinality(Posting) \in Nat /\ Cardinality(Looking) \in Nat
      /\ Cardinality(Posting') \in Nat /\ Cardinality(Looking') \in Nat
  BY Counted, CountedNext
<1>2. CASE Enter(c) \/ LockHead(c) \/ UnlockEmpty(c) \/ Interrupted(c)
           \/ UnlockHead(c) \/ Delete(c)
  <2>1. chain' = chain /\ wait' = wait
    BY <1>2 DEF Enter, LockHead, UnlockEmpty, Interrupted, UnlockHead, Delete, list
  <2>2. \E from, to : /\ Goto(c, from, to)
                      /\ from \in Searching => to \in Searching
    BY <1>2 DEF Enter, LockHead, UnlockEmpty, Interrupted, UnlockHead, Delete, Searching
  <2>3. /\ Cardinality(Posting') = Cardinality(Posting)
        /\ Cardinality(Looking') >= Cardinality(Looking)
    BY <1>0, <1>1, <2>2, ConsumerMoves DEF One
  <2> QED
    BY <1>0, <1>1, <2>1, <2>3 DEF NobodyOversleeps
<1>3. CASE Look(c)
  <2>1. chain' = chain /\ wait' = wait
    BY <1>3 DEF Look, list
  <2>2. CASE next[head] = NoNode
    <3>1. Len(chain) <= 1
      <4>1. ASSUME Len(chain) > 1 PROVE FALSE
        <5>1. next[chain[1]] = chain[1 + 1] /\ head = chain[1]
          BY <1>0, <4>1 DEF ListIsChain
        <5>2. chain[2] \in Places
          BY <1>0, <4>1 DEF TypeOK
        <5> QED
          BY <2>2, <5>1, <5>2 DEF Places, QueueAssumption
      <4> QED
        BY <1>0, <4>1
    <3> QED
      BY <1>0, <1>1, <2>1, <3>1 DEF NobodyOversleeps
  <2>3. CASE next[head] # NoNode
    <3>1. Goto(c, "look", "take")
      BY <1>3, <2>3 DEF Look
    <3>2. /\ Cardinality(Posting') = Cardinality(Posting)
          /\ Cardinality(Looking') = Cardinality(Looking)
      BY <1>0, <1>1, <3>1, ConsumerMoves DEF One, Searching
    <3> QED
      BY <2>1, <3>2 DEF NobodyOversleeps
  <2> QED
    BY <2>2, <2>3
<1>4. CASE Down(c)
  <2>1. chain' = chain /\ wait' = wait - 1 /\ Goto(c, "sleep", "again")
    BY <1>4 DEF Down, list
  <2>2. /\ Cardinality(Posting') = Cardinality(Posting)
        /\ Cardinality(Looking') = Cardinality(Looking) + 1
    BY <1>0, <1>1, <2>1, ConsumerMoves DEF One, Searching
  <2> QED
    BY <1>0, <1>1, <2>1, <2>2 DEF NobodyOversleeps
<1>5. CASE Take(c)
  <2>1. chain' = Tail(chain) /\ wait' = wait /\ Goto(c, "take", "unlock")
    BY <1>5 DEF Take
  <2>2. Len(chain') = Len(chain) - 1
    BY <1>0, <2>1 DEF TypeOK
  <2>3. /\ Cardinality(Posting') = Cardinality(Posting)
        /\ Cardinality(Looking') = Cardinality(Looking) - 1
    BY <1>0, <1>1, <2>1, ConsumerMoves DEF One, Searching
  <2> QED
    BY <1>0, <1>1, <2>1, <2>2, <2>3 DEF NobodyOversleeps
<1> QED
  BY <1>2, <1>3, <1>4, <1>5 DEF deQueue

\* Nobody oversleeps, however deQueue's unlocked sleep and enQueue's late post
\* interleave, and although sem_post may fail (Queue.h:55, 74-78).
THEOREM Awake == ASSUME QueueAssumption PROVE Spec => []NobodyOversleeps
<1>1. Init => NobodyOversleeps
  BY Counted DEF Init, NobodyOversleeps
<1>2. Inv /\ NobodyOversleeps /\ [Next]_vars => NobodyOversleeps'
  <2>1. CASE UNCHANGED vars
    BY <2>1 DEF vars, NobodyOversleeps, Posting, Looking
  <2> QED
    BY <2>1, AwakeProducer, AwakeConsumer DEF Next
<1> QED
  BY <1>1, <1>2, Invariance, PTL DEF Spec

-----------------------------------------------------------------------------
(* The refinement: what else is true of the values, and one lemma for each *)
(* step of FifoQueue.                                                      *)

\* The nodes behind the head hold values, and a consumer holds one exactly
\* from the moment it moves the head until its call returns.
ValuesKept ==
    /\ \A i \in 2..Len(chain) : value[chain[i]] \in Values
    /\ \A c \in Consumers : IF Deleting(c) THEN t[c] \in Values ELSE t[c] = NoValue

\* Where the consumer that takes a value finds it.
LEMMA TakenFrom ==
    ASSUME QueueAssumption, Inv, NEW c \in Consumers, pc[c] = "take"
    PROVE  /\ Len(chain) \in Nat /\ Len(chain) > 1
           /\ h2[c] = chain[2] /\ chain[2] \in Nodes
<1>1. h2[c] \in heap /\ h2[c] = next[head] /\ heap \subseteq Nodes
  BY DEF Inv, NoUseAfterFree, TypeOK
<1>2. next[head] # NoNode
  BY <1>1 DEF QueueAssumption
<1>3. Len(chain) \in Nat /\ Len(chain) > 0
  BY DEF Inv, TypeOK, ListIsChain
<1>4. Len(chain) > 1
  <2>1. Len(chain) = 1 => next[head] = NoNode
    BY <1>3 DEF Inv, ListIsChain
  <2>2. Len(chain) # 1
    BY <1>2, <2>1
  <2>3. \A n \in Nat : n > 0 /\ n # 1 => n > 1
    OBVIOUS
  <2> QED
    BY Zenon, <1>3, <2>2, <2>3
<1>5. next[head] = chain[2]
  BY <1>3, <1>4 DEF Inv, ListIsChain
<1> QED
  BY <1>1, <1>3, <1>4, <1>5

LEMMA ChainPlaces ==
    ASSUME Inv
    PROVE  /\ Len(chain) \in Nat \ {0} /\ chain \in Seq(Places)
           /\ \A i \in 1..Len(chain) : chain[i] \in Places /\ chain[i] \in heap \cup {Satellite}
BY DEF Inv, TypeOK, ListIsChain

\* A step that leaves the list alone, and no consumer in or out of possession.
LEMMA ValuesStay ==
    ASSUME ValuesKept, chain' = chain, value' = value, t' = t,
           \A c \in Consumers : Deleting(c)' <=> Deleting(c)
    PROVE  ValuesKept'
BY DEF ValuesKept

LEMMA ValuesProducer ==
    ASSUME QueueAssumption, Inv, ValuesKept, NEW p \in Producers, enQueue(p)
    PROVE  ValuesKept'
<1>0. TypeOK /\ NodesOwned /\ p \in Threads
  BY DEF Inv, Threads
<1>1. \A c \in Consumers : pc'[c] = pc[c]
  BY <1>0, Moved DEF enQueue, NewNode, LockTail, Link, Swing, UnlockTail, Post, Count
<1>2. t' = t /\ \A c \in Consumers : Deleting(c)' <=> Deleting(c)
  BY <1>1 DEF enQueue, NewNode, LockTail, Link, Swing, UnlockTail, Post, Count, Deleting
<1>3. CASE LockTail(p) \/ Swing(p) \/ UnlockTail(p) \/ Post(p) \/ Count(p)
  <2>1. chain' = chain /\ value' = value
    BY <1>3 DEF LockTail, Swing, UnlockTail, Post, Count, list
  <2> QED
    BY <1>2, <2>1, ValuesStay
<1>4. CASE NewNode(p)
  <2>1. PICK n \in Nodes \ heap, v \in Values : value' = [value EXCEPT ![n] = v]
    BY <1>4 DEF NewNode
  <2>2. chain' = chain /\ n # Satellite
    BY <1>4 DEF NewNode, QueueAssumption
  <2>3. \A i \in 1..Len(chain) : value'[chain[i]] = value[chain[i]]
    BY <1>0, <2>1, <2>2, ChainPlaces DEF TypeOK
  <2>4. \A i \in 2..Len(chain) : i \in 1..Len(chain)
    BY ChainPlaces
  <2> QED
    BY <1>2, <2>2, <2>3, <2>4 DEF ValuesKept
<1>5. CASE Link(p)
  <2>1. chain' = Append(chain, pNode[p]) /\ value' = value
    BY <1>5 DEF Link
  <2>2. value[pNode[p]] \in Values /\ pNode[p] \in Places
    BY <1>0, <1>5 DEF Link, Goto, NodesOwned, Linking, TypeOK, Places
  <2>3. /\ Len(chain') = Len(chain) + 1 /\ chain'[Len(chain) + 1] = pNode[p]
        /\ \A i \in 1..Len(chain) : chain'[i] = chain[i]
    BY <2>1, <2>2, ChainPlaces
  <2>4. ASSUME NEW i \in 2..Len(chain') PROVE value'[chain'[i]] \in Values
    <3>1. CASE i = Len(chain) + 1
      BY <2>1, <2>2, <2>3, <3>1
    <3>2. CASE i # Len(chain) + 1
      <4>1. i \in 2..Len(chain) /\ i \in 1..Len(chain)
        BY <2>3, <3>2, ChainPlaces
      <4> QED
        BY <2>1, <2>3, <4>1 DEF ValuesKept
    <3> QED BY <3>1, <3>2
  <2> QED
    BY <1>2, <2>4 DEF ValuesKept
<1> QED
  BY <1>3, <1>4, <1>5 DEF enQueue

LEMMA ValuesConsumer ==
    ASSUME QueueAssumption, Inv, ValuesKept, NEW c \in Consumers,
           Enter(c) \/ deQueue(c) \/ Interrupted(c)
    PROVE  ValuesKept'
<1>0. TypeOK /\ c \in Threads
  BY DEF Inv, Threads
<1>1. CASE Enter(c) \/ LockHead(c) \/ Look(c) \/ UnlockEmpty(c) \/ Down(c)
           \/ UnlockHead(c) \/ Interrupted(c)
  <2>1. chain' = chain /\ value' = value /\ t' = t
    BY <1>1 DEF Enter, LockHead, Look, UnlockEmpty, Down, UnlockHead, Interrupted, list
  <2>2. PICK from, to : /\ Goto(c, from, to)
                        /\ from \in {"unlock", "delete"} <=> to \in {"unlock", "delete"}
    BY <1>1 DEF Enter, LockHead, Look, UnlockEmpty, Down, UnlockHead, Interrupted
  <2>3. \A d \in Consumers : Deleting(d)' <=> Deleting(d)
    BY <1>0, <2>2, Moved DEF Deleting, Threads
  <2> QED
    BY <2>1, <2>3, ValuesStay
<1>2. CASE Take(c)
  <2>1. /\ Goto(c, "take", "unlock") /\ chain' = Tail(chain) /\ value' = value
        /\ t' = [t EXCEPT ![c] = value[h2[c]]]
    BY <1>2 DEF Take, ValueNew
  <2>2. /\ Deleting(c)' /\ ~Deleting(c)
        /\ \A d \in Consumers : d # c => (Deleting(d)' <=> Deleting(d))
    BY <1>0, <2>1, Moved DEF Deleting, Threads
  <2>3. Len(chain) \in Nat /\ Len(chain) > 1 /\ h2[c] = chain[2]
    BY <2>1, TakenFrom DEF Goto
  <2>4. t'[c] \in Values /\ \A d \in Consumers : d # c => t'[d] = t[d]
    BY <1>0, <2>1, <2>3 DEF TypeOK, ValuesKept
  <2>5. /\ Len(chain') = Len(chain) - 1
        /\ \A i \in 1..(Len(chain) - 1) : chain'[i] = chain[i + 1]
    BY <2>1, <2>3, ChainPlaces
  <2>6. ASSUME NEW i \in 2..Len(chain') PROVE value'[chain'[i]] \in Values
    <3>1. i + 1 \in 2..Len(chain) /\ chain'[i] = chain[i + 1]
      BY <2>3, <2>5
    <3> QED
      BY <2>1, <3>1 DEF ValuesKept
  <2> QED
    BY <2>2, <2>4, <2>6 DEF ValuesKept
<1>3. CASE Delete(c)
  <2>1. /\ Goto(c, "delete", "idle") /\ chain' = chain /\ value' = value
        /\ t' = [t EXCEPT ![c] = NoValue]
    BY <1>3 DEF Delete, list
  <2>2. /\ ~Deleting(c)'
        /\ \A d \in Consumers : d # c => (Deleting(d)' <=> Deleting(d))
    BY <1>0, <2>1, Moved DEF Deleting, Threads
  <2>3. t'[c] = NoValue /\ \A d \in Consumers : d # c => t'[d] = t[d]
    BY <1>0, <2>1 DEF TypeOK
  <2> QED
    BY <2>1, <2>2, <2>3 DEF ValuesKept
<1> QED
  BY <1>1, <1>2, <1>3 DEF deQueue

LEMMA ValuesHold == ASSUME QueueAssumption PROVE Spec => []ValuesKept
<1>1. Init => ValuesKept
  BY DEF Init, ValuesKept, Deleting
<1>2. Inv /\ ValuesKept /\ [Next]_vars => ValuesKept'
  <2>1. CASE UNCHANGED vars
    BY <2>1, ValuesStay DEF vars, Deleting
  <2> QED
    BY <2>1, ValuesProducer, ValuesConsumer DEF Next
<1> QED
  BY <1>1, <1>2, Invariance, PTL DEF Spec

\* What the abstract queue is made of.
LEMMA ItemsAre ==
    ASSUME QueueAssumption, Inv, ValuesKept
    PROVE  /\ Items \in Seq(Values) /\ Len(Items) = Len(chain) - 1
           /\ \A i \in 1..(Len(chain) - 1) : Items[i] = value[chain[i + 1]]
<1>1. Len(chain) - 1 \in Nat
  BY ChainPlaces
<1>2. \A i \in 1..(Len(chain) - 1) : value[chain[i + 1]] \in Values
  <2>1. \A i \in 1..(Len(chain) - 1) : i + 1 \in 2..Len(chain)
    BY <1>1
  <2> QED
    BY <2>1 DEF ValuesKept
<1>3. Items \in [1..(Len(chain) - 1) -> Values]
  BY <1>2 DEF Items
<1>4. Items \in Seq(Values) /\ Len(Items) = Len(chain) - 1
  BY <1>1, <1>3
<1> QED
  BY <1>4 DEF Items

\* The values that are left once the head has moved, or once a node is linked.
LEMMA ItemsTaken ==
    ASSUME QueueAssumption, Inv, ValuesKept, Len(chain) > 1,
           chain' = Tail(chain), value' = value
    PROVE  Items # <<>> /\ Head(Items) = value[chain[2]] /\ Items' = Tail(Items)
<1> DEFINE n == Len(chain)
<1>1. /\ n \in Nat /\ n > 1 /\ chain \in Seq(Places)
      /\ Items \in Seq(Values) /\ Len(Items) = n - 1
      /\ \A i \in 1..(n - 1) : Items[i] = value[chain[i + 1]]
  BY ChainPlaces, ItemsAre
<1>2. /\ Len(chain') = n - 1 /\ \A i \in 1..(n - 1) : chain'[i] = chain[i + 1]
  BY <1>1
<1>3. Items # <<>> /\ Head(Items) = value[chain[2]]
  BY <1>1
<1>4. /\ Tail(Items) \in Seq(Values) /\ Len(Tail(Items)) = n - 2
      /\ \A i \in 1..(n - 2) : Tail(Items)[i] = Items[i + 1]
  BY <1>1
<1> HIDE DEF n
<1>5. /\ Items' = [i \in 1..(n - 2) |-> value[chain'[i + 1]]]
  BY <1>1, <1>2 DEF Items
<1>6. \A i \in 1..(n - 2) : Items'[i] = Tail(Items)[i]
  <2>1. ASSUME NEW i \in 1..(n - 2) PROVE Items'[i] = Tail(Items)[i]
    <3>1. i + 1 \in 1..(n - 1)
      BY <1>1
    <3>2. Items'[i] = value[chain'[i + 1]] /\ chain'[i + 1] = chain[i + 1 + 1]
      BY <1>2, <1>5, <3>1
    <3>3. Tail(Items)[i] = Items[i + 1] /\ Items[i + 1] = value[chain[i + 1 + 1]]
      BY <1>1, <1>4, <3>1
    <3> QED
      BY <3>2, <3>3
  <2> QED BY <2>1
<1>7. Tail(Items) \in [1..(n - 2) -> Values]
  BY <1>4, LenProperties
<1>8. Tail(Items) = [i \in 1..(n - 2) |-> Tail(Items)[i]]
  BY <1>7
<1>9. Items' = [i \in 1..(n - 2) |-> Items'[i]]
  BY <1>5
<1> QED
  BY <1>3, <1>6, <1>8, <1>9

LEMMA ItemsPut ==
    ASSUME QueueAssumption, Inv, ValuesKept, NEW m \in Places, value[m] \in Values,
           chain' = Append(chain, m), value' = value
    PROVE  Items' = Append(Items, value[m])
<1> DEFINE n == Len(chain)
           new == Append(Items, value[m])
<1>1. /\ n \in Nat /\ n > 0 /\ chain \in Seq(Places)
      /\ Items \in Seq(Values) /\ Len(Items) = n - 1
      /\ \A i \in 1..(n - 1) : Items[i] = value[chain[i + 1]]
  BY ChainPlaces, ItemsAre
<1>2. /\ Len(chain') = n + 1 /\ chain'[n + 1] = m
      /\ \A i \in 1..n : chain'[i] = chain[i]
  BY <1>1
<1>3. /\ new \in Seq(Values) /\ Len(new) = n /\ new[n] = value[m]
      /\ \A i \in 1..(n - 1) : new[i] = Items[i]
  BY <1>1
<1> HIDE DEF n, new
<1>4. Items' = [i \in 1..n |-> value[chain'[i + 1]]]
  BY <1>1, <1>2 DEF Items
<1>5. ASSUME NEW i \in 1..n PROVE Items'[i] = new[i]
  <2>1. Items'[i] = value[chain'[i + 1]]
    BY <1>4
  <2>2. CASE i = n
    BY <1>2, <1>3, <2>1, <2>2
  <2>3. CASE i # n
    <3>1. i \in 1..(n - 1) /\ i + 1 \in 1..n
      BY <1>1, <2>3
    <3> QED
      BY <1>1, <1>2, <1>3, <2>1, <3>1
  <2> QED BY <2>2, <2>3
<1>6. new \in [1..n -> Values]
  BY <1>3
<1>7. new = [i \in 1..n |-> new[i]] /\ Items' = [i \in 1..n |-> Items'[i]]
  BY <1>4, <1>6
<1>8. Items' = new
  BY <1>5, <1>7
<1> QED
  BY <1>8 DEF new

\* A step that leaves the nodes of the chain and their values alone.
LEMMA ItemsStay ==
    ASSUME chain' = chain, \A i \in 1..(Len(chain) - 1) : value'[chain[i + 1]] = value[chain[i + 1]]
    PROVE  Items' = Items
BY DEF Items

LEMMA FifoProducer ==
    ASSUME QueueAssumption, Inv, ValuesKept, NEW p \in Producers, enQueue(p)
    PROVE  Fifo!FifoNext \/ UNCHANGED Fifo!fifoVars
<1>0. TypeOK /\ NodesOwned /\ p \in Threads
  BY DEF Inv, Threads
<1>1. \A c \in Consumers : pc'[c] = pc[c]
  BY <1>0, Moved DEF enQueue, NewNode, LockTail, Link, Swing, UnlockTail, Post, Count
<1>2. t' = t /\ Calling' = Calling
  BY <1>1 DEF enQueue, NewNode, LockTail, Link, Swing, UnlockTail, Post, Count, Calling
<1>3. \A q \in Producers : q # p => (Linking(q)' <=> Linking(q))
  BY <1>0, Moved DEF enQueue, NewNode, LockTail, Link, Swing, UnlockTail, Post, Count,
                     Linking, Threads
<1>4. CASE LockTail(p) \/ Swing(p) \/ UnlockTail(p) \/ Post(p) \/ Count(p)
  <2>1. chain' = chain /\ value' = value
    BY <1>4 DEF LockTail, Swing, UnlockTail, Post, Count, list
  <2>2. PICK from, to : /\ Goto(p, from, to)
                        /\ from \in {"lock", "link"} <=> to \in {"lock", "link"}
    BY <1>4 DEF LockTail, Swing, UnlockTail, Post, Count
  <2>3. Linking(p)' <=> Linking(p)
    BY <1>0, <2>2, Moved DEF Linking
  <2>4. \A q \in Producers : Linking(q) => pNode'[q] = pNode[q]
    BY <1>0, <1>4 DEF LockTail, Swing, UnlockTail, Post, Count, Goto, TypeOK, Linking
  <2>5. Offered' = Offered
    BY <1>3, <2>1, <2>3, <2>4 DEF Offered
  <2>6. Items' = Items
    BY <2>1 DEF Items
  <2> QED
    BY <1>2, <2>5, <2>6 DEF Fifo!fifoVars
<1>5. CASE NewNode(p)
  <2>1. PICK n \in Nodes \ heap, v \in Values :
           value' = [value EXCEPT ![n] = v] /\ pNode' = [pNode EXCEPT ![p] = n]
    BY <1>5 DEF NewNode
  <2>2. chain' = chain /\ n # Satellite
    BY <1>5 DEF NewNode, QueueAssumption
  <2>3. /\ ~Linking(p) /\ Linking(p)'
    BY <1>0, <1>5, Moved DEF NewNode, Linking
  <2>4. /\ value'[n] = v /\ \A m \in Places : m # n => value'[m] = value[m]
        /\ pNode'[p] = n /\ \A q \in Producers : q # p => pNode'[q] = pNode[q]
    BY <1>0, <2>1 DEF TypeOK, Places
  <2>5. \A q \in Producers : Linking(q) => pNode[q] # n /\ pNode[q] \in Places
    BY <1>0 DEF NodesOwned, TypeOK, Places
  <2>6. Offered[p] = NoValue /\ Offered' = [Offered EXCEPT ![p] = v]
    <3>1. \A q \in Producers : Offered'[q] = IF q = p THEN v ELSE Offered[q]
      BY <1>3, <2>3, <2>4, <2>5 DEF Offered
    <3> QED
      BY <2>3, <3>1 DEF Offered
  <2>7. Items' = Items
    <3>1. \A i \in 1..(Len(chain) - 1) : i + 1 \in 1..Len(chain)
      BY ChainPlaces
    <3>2. \A i \in 1..(Len(chain) - 1) : chain[i + 1] \in Places /\ chain[i + 1] # n
      BY <2>2, <3>1, ChainPlaces
    <3> QED
      BY <2>2, <2>4, <3>2, ItemsStay
  <2> QED
    BY <1>2, <2>6, <2>7 DEF Fifo!FifoNext, Fifo!Offer
<1>6. CASE Link(p)
  <2>1. /\ Goto(p, "link", "swing") /\ chain' = Append(chain, pNode[p])
        /\ value' = value /\ pNode' = pNode
    BY <1>6 DEF Link
  <2>2. Linking(p) /\ ~Linking(p)'
    BY <1>0, <2>1, Moved DEF Linking
  <2>3. value[pNode[p]] \in Values /\ pNode[p] \in Places
    BY <1>0, <2>2 DEF NodesOwned, TypeOK, Places
  <2>4. Items' = Append(Items, value[pNode[p]])
    BY <2>1, <2>3, ItemsPut
  <2>5. /\ Offered[p] = value[pNode[p]]
        /\ Offered' = [Offered EXCEPT ![p] = NoValue]
    <3>1. \A q \in Producers : Offered'[q] = IF q = p THEN NoValue ELSE Offered[q]
      BY <1>3, <2>1, <2>2 DEF Offered
    <3> QED
      BY <2>2, <3>1 DEF Offered
  <2>6. Offered[p] # NoValue
    BY <2>3, <2>5 DEF QueueAssumption
  <2> QED
    BY <1>2, <2>4, <2>5, <2>6 DEF Fifo!FifoNext, Fifo!Put
<1> QED
  BY <1>4, <1>5, <1>6 DEF enQueue

LEMMA FifoConsumer ==
    ASSUME QueueAssumption, Inv, ValuesKept, NEW c \in Consumers,
           Enter(c) \/ deQueue(c) \/ Interrupted(c)
    PROVE  Fifo!FifoNext \/ UNCHANGED Fifo!fifoVars
<1> DEFINE InCall == {"again", "look", "empty", "sleep", "take"}
<1>0. TypeOK /\ c \in Threads
  BY DEF Inv, Threads
<1>1. PICK from, to : Goto(c, from, to)
  BY DEF deQueue, Enter, LockHead, Look, UnlockEmpty, Down, Take, UnlockHead,
         Delete, Interrupted
<1>2. /\ pc[c] = from /\ pc'[c] = to
      /\ \A d \in Consumers : d # c => pc'[d] = pc[d]
      /\ \A p \in Producers : pc'[p] = pc[p]
  BY <1>0, <1>1, Moved DEF Threads
<1>3. value' = value /\ pNode' = pNode
  BY DEF deQueue, Enter, LockHead, Look, UnlockEmpty, Down, Take, UnlockHead,
         Delete, Interrupted, list
<1>4. Offered' = Offered
  BY <1>2, <1>3 DEF Offered, Linking
<1>5. Calling = {d \in Consumers : pc[d] \in InCall} /\ Calling' = {d \in Consumers : pc'[d] \in InCall}
  BY DEF Calling
<1>6. CASE LockHead(c) \/ Look(c) \/ UnlockEmpty(c) \/ Down(c) \/ UnlockHead(c)
           \/ Interrupted(c)
  <2>1. /\ chain' = chain /\ t' = t
        /\ pc'[c] \in InCall <=> pc[c] \in InCall
    BY <1>0, <1>6, Moved
       DEF LockHead, Look, UnlockEmpty, Down, UnlockHead, Interrupted, list
  <2>2. Calling' = Calling /\ Items' = Items
    BY <1>2, <1>3, <1>5, <2>1 DEF Items
  <2> QED
    BY <1>4, <2>1, <2>2 DEF Fifo!fifoVars
<1>7. CASE Enter(c)
  <2>1. /\ chain' = chain /\ t' = t /\ pc[c] = "idle" /\ pc'[c] = "again"
    BY <1>0, <1>7, Moved DEF Enter, list
  <2>2. c \notin Calling /\ Calling' = Calling \cup {c} /\ Items' = Items
    BY <1>2, <1>3, <1>5, <2>1 DEF Items
  <2>3. t[c] = NoValue
    BY <2>1 DEF ValuesKept, Deleting
  <2> QED
    BY <1>4, <2>1, <2>2, <2>3 DEF Fifo!FifoNext, Fifo!Call
<1>8. CASE Take(c)
  <2>1. /\ chain' = Tail(chain) /\ pc[c] = "take" /\ pc'[c] = "unlock"
        /\ t' = [t EXCEPT ![c] = value[h2[c]]]
    BY <1>0, <1>8, Moved DEF Take, ValueNew
  <2>2. Len(chain) > 1 /\ h2[c] = chain[2]
    BY <2>1, TakenFrom
  <2>3. Items # <<>> /\ Head(Items) = value[chain[2]] /\ Items' = Tail(Items)
    BY <1>3, <2>1, <2>2, ItemsTaken
  <2>4. c \in Calling /\ Calling' = Calling \ {c}
    BY <1>2, <1>5, <2>1
  <2>5. t' = [t EXCEPT ![c] = Head(Items)]
    BY <2>1, <2>2, <2>3
  <2> QED
    BY <1>4, <2>3, <2>4, <2>5 DEF Fifo!FifoNext, Fifo!Get
<1>9. CASE Delete(c)
  <2>1. /\ chain' = chain /\ pc[c] = "delete" /\ pc'[c] = "idle"
        /\ t' = [t EXCEPT ![c] = NoValue]
    BY <1>0, <1>9, Moved DEF Delete, list
  <2>2. Calling' = Calling /\ Items' = Items
    BY <1>2, <1>3, <1>5, <2>1 DEF Items
  <2>3. t[c] # NoValue
    BY <2>1 DEF ValuesKept, Deleting, QueueAssumption
  <2> QED
    BY <1>4, <2>1, <2>2, <2>3 DEF Fifo!FifoNext, Fifo!Return
<1> QED
  BY <1>6, <1>7, <1>8, <1>9 DEF deQueue

\* The two-lock list implements a FIFO queue step by step: a value joins the
\* queue in the one step that writes tail->next and leaves it, oldest first, in
\* the one step that moves head, whatever the threads at the two ends and the
\* memory they free and use again do in between (Queue.h:37-95).
THEOREM ImplementsFifoSteps ==
    ASSUME QueueAssumption
    PROVE  Spec => Fifo!FifoInit /\ [][Fifo!FifoNext]_(Fifo!fifoVars)
<1>1. Init => Fifo!FifoInit
  <2> SUFFICES ASSUME Init PROVE Fifo!FifoInit
    OBVIOUS
  <2>1. Len(chain) - 1 = 0
    BY DEF Init
  <2>2. Items = <<>>
    <3>1. Items \in Seq(Values) /\ Len(Items) = 0
      BY <2>1, InitInv, ItemsAre DEF Init, ValuesKept, Deleting
    <3> QED
      BY <3>1, EmptySeq
  <2>3. Offered = [p \in Producers |-> NoValue] /\ Calling = {}
    BY DEF Init, Offered, Linking, Calling
  <2> QED
    BY <2>2, <2>3 DEF Init, Fifo!FifoInit
<1>2. Inv /\ ValuesKept /\ [Next]_vars => [Fifo!FifoNext]_(Fifo!fifoVars)
  <2> SUFFICES ASSUME Inv, ValuesKept, [Next]_vars
               PROVE  Fifo!FifoNext \/ UNCHANGED Fifo!fifoVars
    OBVIOUS
  <2>1. CASE UNCHANGED vars
    BY <2>1 DEF vars, Fifo!fifoVars, Items, Offered, Calling, Linking
  <2> QED
    BY <2>1, FifoProducer, FifoConsumer DEF Next
<1> QED
  BY <1>1, <1>2, Invariance, ValuesHold, PTL DEF Spec

-----------------------------------------------------------------------------
(* Nobody waits for ever on somebody who waits. *)

\* A thread in a call that nothing holds up: it does not wait for a mutex that is
\* locked or for a semaphore at 0.  LockTail, LockHead and Down are the only steps
\* of a call with a condition besides the place where the thread is.
Unhindered(x) ==
    /\ pc[x] # "idle"
    /\ pc[x] = "lock" => tlock = Unlocked
    /\ pc[x] = "again" => hlock = Unlocked
    /\ pc[x] = "sleep" => wait > 0

\* The queue does not deadlock: while a value is in it, a call to deQueue that
\* has not returned is held up only as long as some thread in a call is not.  In
\* particular, when nobody is enqueuing and every consumer is asleep the semaphore
\* is positive, although deQueue looks at the list and sleeps under no common lock
\* (Queue.h:74-78).
THEOREM NoDeadlock ==
    ASSUME QueueAssumption
    PROVE  Spec => [](Len(chain) > 1 /\ Calling # {} => \E x \in Threads : Unhindered(x))
<1>1. Inv /\ NobodyOversleeps =>
        (Len(chain) > 1 /\ Calling # {} => \E x \in Threads : Unhindered(x))
  <2> SUFFICES ASSUME Inv, NobodyOversleeps, Len(chain) > 1, NEW c \in Calling,
                      \A x \in Threads : ~Unhindered(x)
               PROVE  FALSE
    OBVIOUS
  <2>1. TypeOK /\ LocksHeld
    BY DEF Inv
  <2>2. hlock = Unlocked
    <3>1. ASSUME hlock \in Consumers
          PROVE  FALSE
      <4>1. pc[hlock] \in {"look", "empty", "take", "unlock"}
        BY <2>1, <3>1 DEF LocksHeld
      <4> QED
        BY <3>1, <4>1 DEF Unhindered, Threads
    <3> QED
      BY <2>1, <3>1 DEF TypeOK
  <2>3. \A d \in Consumers : pc[d] \in {"idle", "sleep"}
    <3> SUFFICES ASSUME NEW d \in Consumers
                 PROVE  pc[d] \in {"idle", "sleep"}
      OBVIOUS
    <3>1. ~Unhindered(d) /\ pc[d] \in ConsumerPlaces
      BY <2>1 DEF Threads, TypeOK
    <3> QED
      BY <2>2, <3>1 DEF Unhindered, ConsumerPlaces
  <2>4. wait = 0
    <3>1. c \in Consumers /\ pc[c] = "sleep" /\ ~Unhindered(c)
      BY <2>3 DEF Calling, Threads
    <3>2. wait \in Nat
      BY <2>1, QueueAssumption DEF TypeOK, QueueAssumption
    <3> QED
      BY <3>1, <3>2 DEF Unhindered
  <2>5. \A p \in Producers : pc[p] \in {"idle", "lock"}
    <3> SUFFICES ASSUME NEW p \in Producers
                 PROVE  pc[p] \in {"idle", "lock"}
      OBVIOUS
    <3>1. ~Unhindered(p) /\ pc[p] \in ProducerPlaces
      BY <2>1 DEF Threads, TypeOK
    <3> QED
      BY <3>1 DEF Unhindered, ProducerPlaces
  <2>6. Posting = {} /\ Looking = {}
    BY <2>3, <2>5 DEF Posting, Looking
  <2>7. Len(chain) - 1 <= 0 + Cardinality({}) + Cardinality({}) /\ Len(chain) \in Nat
    BY <2>1, <2>4, <2>6 DEF NobodyOversleeps, TypeOK
  <2> QED
    BY <2>7, FS_EmptySet
<1> QED
  BY <1>1, Invariance, Awake, PTL
=============================================================================
