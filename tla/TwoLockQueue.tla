---------------------------- MODULE TwoLockQueue ----------------------------
(***************************************************************************)
(* Queue<T>: a linked list with a satellite node, a lock at either end, a  *)
(* semaphore to sleep on when it is empty and a counter behind isEmpty.    *)
(* The threads are those of test_Queue.cpp: producers that call enQueue    *)
(* and consumers that call deQueue, each again and again.                  *)
(*                                                                         *)
(* A step is one access to what the threads share.  deQueue reads          *)
(* head->next under hlock while enQueue writes it under tlock; the pointer *)
(* is aligned, so the reader sees it before or after the write.            *)
(***************************************************************************)
EXTENDS Integers, Sequences, FiniteSets

CONSTANTS Producers, Consumers,
          Values,     \* what is put into the queue
          NoValue,
          Nodes,      \* bound: the memory new can return
          Satellite,  \* the member s, which is not in the heap
          NoNode,     \* NULL
          Unlocked,   \* a mutex nobody holds
          SemMax,     \* SEM_VALUE_MAX, beyond which sem_post fails
          CountMod    \* 2 to the width of size

\* There are fewer nodes than SEM_VALUE_MAX: memory holds them all.
ASSUME QueueAssumption ==
    /\ Satellite \notin Nodes /\ NoNode \notin Nodes /\ NoNode # Satellite
    /\ Unlocked \notin Producers \cup Consumers
    /\ Producers \cap Consumers = {}
    /\ NoValue \notin Values
    /\ IsFiniteSet(Producers) /\ IsFiniteSet(Consumers) /\ IsFiniteSet(Nodes)
    /\ SemMax \in Nat /\ Cardinality(Nodes) <= SemMax
    /\ CountMod \in Nat \ {0}

VARIABLES head, tail,    \* the ends of the list
          hlock, tlock,  \* who holds the mutexes
          heap,          \* the nodes that are allocated
          next, value,   \* the fields of the nodes
          wait,          \* the semaphore's value
          size,          \* the member size
          pc,            \* where each thread is in enQueue or deQueue
          pNode,         \* of a producer: the node it is linking
          h1, h2,        \* of a consumer: the two nodes at the head
          t,             \* of a consumer: the value it is given
          chain          \* history: the nodes from head to the last linked

list == <<head, tail, next, value, chain>>
vars == <<head, tail, hlock, tlock, heap, next, value, wait, size, pc, pNode,
          h1, h2, t, chain>>

Places == Nodes \cup {Satellite}

Init ==
    /\ head = Satellite /\ tail = Satellite
    /\ hlock = Unlocked /\ tlock = Unlocked
    /\ heap = {}
    /\ next = [n \in Places |-> NoNode]
    /\ value = [n \in Places |-> NoValue]
    /\ wait = 0 /\ size = 0
    /\ pc = [x \in Producers \cup Consumers |-> "idle"]
    /\ pNode = [p \in Producers |-> NoNode]
    /\ h1 = [c \in Consumers |-> NoNode]
    /\ h2 = [c \in Consumers |-> NoNode]
    /\ t = [c \in Consumers |-> NoValue]
    /\ chain = <<Satellite>>

Goto(x, from, to) == pc[x] = from /\ pc' = [pc EXCEPT ![x] = to]

-----------------------------------------------------------------------------
(* enQueue *)

\* Faulty: Node's constructor leaves next alone.
NodeStale(n) == next

\* The next fields once Node's constructor has run.
Node(n) == [next EXCEPT ![n] = NoNode]

NewNode(p) ==
    /\ Goto(p, "idle", "lock")
    /\ \E n \in Nodes \ heap, v \in Values :
          /\ heap' = heap \cup {n}
          /\ pNode' = [pNode EXCEPT ![p] = n]
          /\ next' = Node(n)
          /\ value' = [value EXCEPT ![n] = v]
    /\ UNCHANGED <<head, tail, hlock, tlock, wait, size, h1, h2, t, chain>>

LockTail(p) ==
    /\ Goto(p, "lock", "link") /\ tlock = Unlocked /\ tlock' = p
    /\ UNCHANGED <<list, hlock, heap, wait, size, pNode, h1, h2, t>>

Link(p) ==
    /\ Goto(p, "link", "swing")
    /\ next' = [next EXCEPT ![tail] = pNode[p]]
    /\ chain' = Append(chain, pNode[p])
    /\ UNCHANGED <<head, tail, hlock, tlock, heap, value, wait, size, pNode,
                   h1, h2, t>>

Swing(p) ==
    /\ Goto(p, "swing", "unlock") /\ tail' = pNode[p]
    /\ UNCHANGED <<head, hlock, tlock, heap, next, value, wait, size, pNode,
                   h1, h2, t, chain>>

UnlockTail(p) ==
    /\ Goto(p, "unlock", "post") /\ tlock' = Unlocked
    /\ UNCHANGED <<list, hlock, heap, wait, size, pNode, h1, h2, t>>

\* Faulty: the semaphore only says that there is something; it has no limit.
PostedOnce == 1
PostedAlways == wait + 1

\* sem_post fails at the limit, and nobody looks at its result.
Posted == IF wait < SemMax THEN wait + 1 ELSE wait

Post(p) ==
    /\ Goto(p, "post", "count") /\ wait' = Posted
    /\ UNCHANGED <<list, hlock, tlock, heap, size, pNode, h1, h2, t>>

Count(p) ==
    /\ Goto(p, "count", "idle") /\ size' = (size + 1) % CountMod
    /\ pNode' = [pNode EXCEPT ![p] = NoNode]
    /\ UNCHANGED <<list, hlock, tlock, heap, wait, h1, h2, t>>

-----------------------------------------------------------------------------
(* deQueue *)

Enter(c) ==
    /\ Goto(c, "idle", "again")
    /\ UNCHANGED <<list, hlock, tlock, heap, wait, size, pNode, h1, h2, t>>

LockHead(c) ==
    /\ Goto(c, "again", "look") /\ hlock = Unlocked /\ hlock' = c
    /\ UNCHANGED <<list, tlock, heap, wait, size, pNode, h1, h2, t>>

Look(c) ==
    /\ Goto(c, "look", IF next[head] = NoNode THEN "empty" ELSE "take")
    /\ h1' = [h1 EXCEPT ![c] = head]
    /\ h2' = [h2 EXCEPT ![c] = next[head]]
    /\ UNCHANGED <<list, hlock, tlock, heap, wait, size, pNode, t>>

UnlockEmpty(c) ==
    /\ Goto(c, "empty", "sleep") /\ hlock' = Unlocked
    /\ UNCHANGED <<list, tlock, heap, wait, size, pNode, h1, h2, t>>

\* wait_queue_down; when a signal interrupts it the loop just goes on.
Down(c) ==
    /\ Goto(c, "sleep", "again") /\ wait > 0 /\ wait' = wait - 1
    /\ UNCHANGED <<list, hlock, tlock, heap, size, pNode, h1, h2, t>>

Interrupted(c) ==
    /\ Goto(c, "sleep", "again")
    /\ UNCHANGED <<list, hlock, tlock, heap, wait, size, pNode, h1, h2, t>>

\* Faulty: the value of the node that is left behind.
ValueOld(c) == value[h1[c]]

ValueNew(c) == value[h2[c]]

Take(c) ==
    /\ Goto(c, "take", "unlock")
    /\ t' = [t EXCEPT ![c] = ValueNew(c)]
    /\ head' = h2[c]
    /\ chain' = Tail(chain)
    /\ UNCHANGED <<tail, hlock, tlock, heap, next, value, wait, size, pNode, h1, h2>>

UnlockHead(c) ==
    /\ Goto(c, "unlock", "delete") /\ hlock' = Unlocked
    /\ UNCHANGED <<list, tlock, heap, wait, size, pNode, h1, h2, t>>

\* Faulty: nothing is deleted; the new head is.
LeavingNone(c) == {}
LeavingNew(c) == {h2[c]}

\* The node that is deleted, unless it is s.
Leaving(c) == {h1[c]} \ {Satellite}

\* The subtraction is from the local variable size, not from the member.
Delete(c) ==
    /\ Goto(c, "delete", "idle")
    /\ heap' = heap \ Leaving(c)
    /\ h1' = [h1 EXCEPT ![c] = NoNode]
    /\ h2' = [h2 EXCEPT ![c] = NoNode]
    /\ t' = [t EXCEPT ![c] = NoValue]
    /\ UNCHANGED <<list, hlock, tlock, wait, size, pNode>>

\* What deQueue returns when it is given a place for the value.
deQueueReturns == {0}

-----------------------------------------------------------------------------
enQueue(p) == \/ NewNode(p) \/ LockTail(p) \/ Link(p) \/ Swing(p)
              \/ UnlockTail(p) \/ Post(p) \/ Count(p)
deQueue(c) == \/ LockHead(c) \/ Look(c) \/ UnlockEmpty(c) \/ Down(c)
              \/ Take(c) \/ UnlockHead(c) \/ Delete(c)

Next == \/ \E p \in Producers : enQueue(p)
        \/ \E c \in Consumers : Enter(c) \/ deQueue(c) \/ Interrupted(c)
Spec == Init /\ [][Next]_vars

\* A call that was begun goes on; nobody has to call, and the mutexes and the
\* semaphore need not be fair.
Begun(p) == enQueue(p) /\ pc[p] # "idle"
FairSpec == /\ Spec
            /\ \A p \in Producers : WF_vars(Begun(p))
            /\ \A c \in Consumers : WF_vars(deQueue(c))
-----------------------------------------------------------------------------
(* Properties. *)

ProducerPlaces == {"idle", "lock", "link", "swing", "unlock", "post", "count"}
ConsumerPlaces == {"idle", "again", "look", "empty", "sleep", "take", "unlock",
                   "delete"}

\* Type correctness; the semaphore stays within SEM_VALUE_MAX (Queue.h:55).
TypeOK ==
    /\ head \in Places /\ tail \in Places
    /\ hlock \in Consumers \cup {Unlocked} /\ tlock \in Producers \cup {Unlocked}
    /\ heap \subseteq Nodes
    /\ next \in [Places -> Nodes \cup {NoNode}]
    /\ value \in [Places -> Values \cup {NoValue}]
    /\ wait \in 0..SemMax /\ size \in 0..(CountMod - 1)
    /\ pc \in [Producers \cup Consumers -> ProducerPlaces \cup ConsumerPlaces]
    /\ \A p \in Producers : pc[p] \in ProducerPlaces
    /\ \A c \in Consumers : pc[c] \in ConsumerPlaces
    /\ pNode \in [Producers -> Nodes \cup {NoNode}]
    /\ h1 \in [Consumers -> Places \cup {NoNode}]
    /\ h2 \in [Consumers -> Places \cup {NoNode}]
    /\ t \in [Consumers -> Values \cup {NoValue}]
    /\ chain \in Seq(Places)

\* A mutex is held exactly by the thread between its lock and its unlock.
LocksHeld ==
    /\ \A p \in Producers :
          tlock = p <=> pc[p] \in {"link", "swing", "unlock"}
    /\ \A c \in Consumers :
          hlock = c <=> pc[c] \in {"look", "empty", "take", "unlock"}

\* The memory is the chain: the nodes are linked in the order in which they were
\* put, ends are where the pointers say, and tail lags only while its lock is
\* held (Queue.h:45-46), when the node it points to may be gone already.
ListIsChain ==
    /\ Len(chain) > 0 /\ head = chain[1]
    /\ \A i, j \in 1..Len(chain) : chain[i] = chain[j] => i = j
    /\ \A i \in 1..Len(chain) : chain[i] \in heap \cup {Satellite}
    /\ \A i \in 1..(Len(chain) - 1) : next[chain[i]] = chain[i + 1]
    /\ next[chain[Len(chain)]] = NoNode
    /\ IF \E p \in Producers : pc[p] = "swing"
       THEN \A p \in Producers : pc[p] = "swing" => chain[Len(chain)] = pNode[p]
       ELSE tail = chain[Len(chain)]

\* Every allocated node is in the list, or with the one producer that has not
\* linked it yet, or with the one consumer that has still to delete it: none
\* leaks, none is deleted twice (Queue.h:39, 90-91).
InChain(n) == \E i \in 1..Len(chain) : chain[i] = n
Linking(p) == pc[p] \in {"lock", "link"}
Deleting(c) == pc[c] \in {"unlock", "delete"}
NodesOwned ==
    /\ \A n \in heap : \/ InChain(n)
                       \/ \E p \in Producers : Linking(p) /\ pNode[p] = n
                       \/ \E c \in Consumers : Deleting(c) /\ h1[c] = n
    /\ \A p \in Producers : Linking(p) =>
          /\ pNode[p] \in heap /\ ~InChain(pNode[p])
          /\ next[pNode[p]] = NoNode /\ value[pNode[p]] \in Values
          /\ \A q \in Producers : Linking(q) /\ pNode[q] = pNode[p] => q = p
          /\ \A c \in Consumers : Deleting(c) => h1[c] # pNode[p]
    /\ \A c \in Consumers : Deleting(c) =>
          /\ h1[c] \in heap \cup {Satellite} /\ ~InChain(h1[c])
          /\ \A d \in Consumers : Deleting(d) /\ h1[d] = h1[c] => d = c

\* No thread follows a pointer to a node that was deleted: not tail, which a
\* consumer can leave behind, nor head and its successor, which producers know
\* nothing about (Queue.h:45, 72-85).
NoUseAfterFree ==
    /\ \A p \in Producers : pc[p] = "link" => tail \in heap \cup {Satellite}
    /\ \A c \in Consumers : pc[c] = "look" => head \in heap \cup {Satellite}
    /\ \A c \in Consumers : pc[c] = "take" => h2[c] \in heap /\ h2[c] = next[head]

\* Nobody oversleeps.  deQueue looks and then sleeps with the lock released in
\* between (Queue.h:74-78), and consumers that find a value without sleeping
\* leave posts behind; still there are never more values in the list than posts
\* left, posts about to be made, and consumers that will look again.
Posting == {p \in Producers : pc[p] \in {"swing", "unlock", "post"}}
Looking == {c \in Consumers : pc[c] \in {"again", "look", "take"}}
NobodyOversleeps ==
    Len(chain) - 1 <= wait + Cardinality(Posting) + Cardinality(Looking)

\* Queue is a FIFO queue: the value joins it when tail->next is written, leaves
\* it when head is moved.
Items == [i \in 1..(Len(chain) - 1) |-> value[chain[i + 1]]]
Offered == [p \in Producers |-> IF Linking(p) THEN value[pNode[p]] ELSE NoValue]
Calling == {c \in Consumers : pc[c] \in {"again", "look", "empty", "sleep", "take"}}
Fifo == INSTANCE FifoQueue WITH
            items <- Items, offered <- Offered, calling <- Calling, taken <- t
ImplementsFifo == Fifo!FifoSpec
=============================================================================
