# Verification of the CSLogChecker server

TLA+ models, TLC runs and TLAPS proofs for the server in `src/Server`: an epoll
event loop with agents, timers and buffers, a slab allocator and a blocking queue.
Paths below are relative to `src/Server`.

## 1. The system

`test/test.cpp` starts one thread that runs `Epoll::run` for ever. The other
concurrency is in the kernel and the peers, which act between any two steps of the
loop, and in `Queue<T>`, which threads share.

| component | state | operations | what makes it correct |
|---|---|---|---|
| Event loop (`lib/common/Epoll.cpp`) | the batch of ready events, timers, tasks | `run`: serve one overdue timer and start over; `epoll_wait`; for each event read, then write; retire the agent when either fails; run the tasks | an event or a timer never reaches an agent that is gone; nothing is served never |
| `EpollEvent` | the descriptor and the mask it believes is registered | register, unregister, open and close events, timers, tasks | mask and kernel entry agree, also when `epoll_ctl` failed |
| Accepted agents (`TCPAgent`, `EchoAgent`) | socket, flags, reference count, buffers | read, write, `recycler` (unregister, close), `release` | retired once, deleted once, descriptor closed once; what one half of the connection leaves unfinished is given back when the other half fails |
| Connecting agents (`TCPAgent::connect`, `setState`, the CONNECTING branches of `run`) | the same, and the count of attempts | close the old socket, open and configure a new one, register, connect; again after an error, up to a limit | told of a connection only when there is one, not left untold; no attempt touches another agent's descriptor |
| Listening agent | its socket | `recvData`: accept, configure, create an agent | one agent per connection, also on a reused descriptor |
| `Manager<T>` | agents to delete, two counters | `creat`, `recycler(T*)`, `recycler()` | exactly the unreferenced agents are deleted, once |
| `EchoTask` | none | `doTask`: calls `Manager::recycler()` at the end of a pass | deletion after the last event of the batch |
| `BufferManager`, read side | two flags, offset, length, header, body | `read(TCPSocket)` | messages as they were sent, wherever the stream is cut |
| `BufferManager`, write side | list of buffers, address to delete | `writeDynamic`, `write(TCPSocket)`, `handleWriteError`, destructor | bytes in order, each buffer deleted once, each sender answered once |
| `Queue<T>` (`include/threadpool/Queue.h`) | linked list, two mutexes, semaphore, `size` | `enQueue`, `deQueue`, `isEmpty`, `~Queue` | FIFO, no use after free, no lost wake-up |
| Slab allocator (`lib/common/slab.c`) | pages in three lists, counters | create, alloc, free, destroy | an object has one owner, lists and counters agree, empty pages leave the list and the count, their memory is given back |
| Lists (`include/common/list.h`, `hlist.h`) | two pointers in every node | init, add, delete, move, next and previous of it | every node is linked both ways, no list runs into another |
| UDP sockets, addresses, errors, `MiddleServer` | | | see section 7 |

How they interact: the loop calls the agent stored with an event (`recvData`,
`sendData`, `recycler`, `release`) or with a timer (`doTimer`). The agent calls its
`EpollEvent`, which calls the loop's `doEvent`, `attachTimer` and `delTimer`, and its
`BufferManager`, which calls back `readBack` and `writeBack`. The last `release` puts
the agent on `Manager`'s list; `EchoTask` has the list deleted, which unregisters the
timer. `EchoAgent` takes its memory from the slab allocator, which keeps its pages
and their free objects on lists of `list.h`.

What is hard: the loop keeps raw pointers (`data.ptr`, timers) across calls that
retire agents; descriptors are reused within a batch; signals, overdue timers and
null pointers end a pass early; reads and writes stop anywhere; every system call may
fail with the failure only logged; `connect` has five calls after each of which it
may stop, the old descriptor already closed; a connection may end in the middle of a
message in either direction; in the queue, enqueuers and dequeuers hold
different locks and sleep outside them. `PROJECT.json` lists these hazards, each at
its line with the properties that watch it.

## 2. The modules

**EpollEvent** gives each method as an operator on what it reads (descriptor, mask,
kernel entry, room in the epoll set) that returns success and what it leaves.
`doEvent` and the caller's assignment to `m_iEpollEvent` on success are one operator.

**Reactor** composes the loop, `EpollEvent`, the listening agent, `EchoAgent`,
`EchoTask` and `Manager`'s list.

| TLA+ | code |
|---|---|
| `pc`, `cur`, `batch` | where `run` is; the agent between its two halves; the entries of `m_pEpollEvent` still to be handled |
| `agent` | the `EchoAgent` objects by memory slot: `m_bIsRecycler`, `m_iRefCount`, descriptors, mask, timer flag, number of queued buffers |
| `m_listT`, `m_vAgentTimer` | `Manager`'s list, `Epoll`'s timers |
| `sock`, `backlog` | the kernel: connection, unread data, full send buffer, epoll entry; connections to accept |
| `DoTimer`, `EnterWait` | `getLastTime`, `doTimer`, `Epoll.cpp:219-233` |
| `EpollWait`, `WaitTimeout`, `WaitInterrupted` | `Epoll.cpp:234-241`; the batch is any choice of at most `EventSize` ready entries, handled in any order |
| `DispatchErr`, `DispatchIn`, `DispatchOut` | `Epoll.cpp:249-346` for connected agents, with `recvData`, `sendData`, `recycler`, `release` |
| `DispatchListener` | `TCPListenAgent::recvData` with the constructors it runs |
| `DoTask` | `doTask`, `Manager::recycler`, the destructors |
| `PeerConnects` ... `PeerReads`, `Tick` | clients, network and clock (external) |

A handler is one action because the loop is one thread. What the kernel could do in
the middle of a handler commutes with it or shows as another outcome of the handler.
Time is the distance between a timer's `absolute` and now. The clock never stops: once
a timer is overdue, only the order of the overdue ones is kept, in which a timer that
comes due later falls in behind (`Aged`), because the loop asks nothing else of them. A
buffer list is its length, exact up to the limit of `writev`. There is no action for the null-handler
branch (`Epoll.cpp:244-248`): `NoDanglingEvent` says it is not reached.

**AgentLifecycle** is the abstract specification of Reactor: open, close by the
owner, reclaim everything that is retired. Reactor's refinement mapping derives an
agent's phase from its flags and a descriptor's owner from the agents' sockets.

**TwoLockQueue** has one action per shared access of `enQueue` (`NewNode` ...
`Count`) and `deQueue` (`LockHead` ... `Delete`). Nodes are memory: `heap` holds
those allocated, a deleted one may be returned by the next `new`. `head->next` is
read and `tail->next` written without a common lock, as in the code; the pointer is
aligned, so a read sees it before or after a write. `chain` is a history variable.
**FifoQueue** is its abstract specification. **QueueTeardown** adds `~Queue`, run by
one thread when no other is in a call.

**Connector** is the same loop for agents that connect themselves. `connect` gives
every outcome of `TCPAgent::connect`, from whichever of its calls it returns; `Finish`
is what `run` does with it. The kernel's sockets are refused, established, reset or
time out between any two steps, also between the read and the write half of one entry.
Writing and timers are Reactor's: no agent that connects itself has a timer, so the
timer flag `m_iTTEvent`, which `setFd` clears too (`EpollEvent.h:59`), is left out.

| TLA+ | code |
|---|---|
| `generateSocket`, `OptionsSet`, `RegisterAndConnect` | the steps of `TCPAgent.cpp:97-123` |
| `Reconnect`, `ConnectFailed` | `Epoll.cpp:249-297` |
| `Read` | `Epoll.cpp:299-322`, where it ends the entry: errors, data without EPOLLOUT, a read that fails |
| `ReadFirst` | `Epoll.cpp:313-322` of an entry that has EPOLLOUT too: `readBack`, and on to the write half |
| `ConnectDone` | `Epoll.cpp:324-346`: EPOLLOUT of an agent in state CONNECTING |
| `pc`, `cur` | where `run` is; the agent between the two halves of its entry |
| `told`, `got`, `tries` | history: what the agent was told, whether it read, attempts since it was told |

**Manager** has references taken and given back by anyone who has one, and counters
modulo `CounterMod`.

**Connection** is one connection from its agent's construction to its destruction:
**ReadFramer**, which is `BufferManager::read(TCPSocket)` over a stream of bytes
`<<message, position>>` read in pieces of any size, and **WriteBuffer**, which is
`writeDynamic`, `write(TCPSocket)`, `handleWriteError` and the destructor, with any
number of bytes written by `writev`. The loop interleaves the two halves; a failure of
one ends the connection with the other anywhere.

**SlabCache** is the allocator as sets: objects are members of pages, and which page
of a list is taken first is open. **SlabLists** is the allocator on memory: a page is
a range of addresses, `get_slab` computes the header from an object's address, free
objects and slabs are nodes of **LinkedList** (`list.h`), written one pointer at a
time. It implements SlabCache; the refinement mapping walks the lists. **HList** is
`hlist.h`, whose operations only `Lists_proofs` uses: the table of cache names, its
caller, is not modelled.

**MCReactor** and **MCTwoLockQueue** add symmetry sets for TLC. Definitions commented
"Faulty:" are variants of the definition that follows them; no specification uses
them. They serve to check that each property is sensitive to the code it is about.

## 3. The runs

| run | instance | what it shows |
|---|---|---|
| `reactor_safety` | 3 slots, 2 descriptors, batches of 2, period 1 | every Reactor invariant, and `StepsAsLifecycle`: each step is one of AgentLifecycle's |
| `reactor_live` | 2 slots, 1 descriptor | `PeerGoneReclaimed`; the whole of AgentLifecycle with its fairness |
| `reactor_timers` | 2 agents with timers, silent peers, batches of 1 | `OverdueTimerServed`, under `LoopFairSpec`: also when timers come due faster than they are served |
| `queue_safety` | 2 producers, 2 consumers, 3 nodes | list, memory and wake-up invariants |
| `queue_live` | 1 producer, 2 consumers, 2 values, 2 nodes | `ImplementsFifo`, liveness included |
| `manager` | 3 agents, 2 references, counters mod 5 | `UnreferencedListed`, `CountersTell` |
| `connection` | 2 messages in, header 2, bodies 0 or 2; 3 buffers out of 1 or 2 bytes, memory for 2 | `DeliveredAsSent`, `StreamInOrder`, `AnsweredOnce`, `BuffersOwned`; `LeavesOnlyBody`; `AllDelivered`, `EverythingSent`, `EndIsSeen` |
| `slab_lists` | 4 pages of 16 bytes, 2 objects of 4, header of 5 at byte 10, threshold 3, keep 1 | `ListsWhole`, and SlabCache's promises through `ImplementsSlabCache` |
| `connector` | 2 agents, 2 descriptors, 1 attempt after the first | the five safety properties of Connector, and `AttemptSettled` |
| `manager_check` | 1 agent | a violation, see section 6 |
| `queue_teardown` | 1 producer, 1 consumer, 1 destroyer | a violation, see section 6 |
| `slab_pages` | 2 pages | a violation, see section 6 |

Why the bounds are enough. Reactor: three slots and two descriptors let a descriptor
be reused in a batch while its former owner still waits for deletion; a batch of two
is smaller than the three entries that can be ready, so one is left for later; one
piece of unread data and one connection to accept give every combination of
readiness, because a handler looks only at "some" or "none". Lateness has no bound: of
overdue timers only the order is kept, in which a timer that was served comes due again
behind those still waiting. With period 1 it does so at once, faster than the loop
can serve two timers, which is the worst case for `OverdueTimerServed`. `IovMax` 1 puts the
`writev` limit within reach. The queue needs two of each kind of thread to compete
for each lock and three nodes so that one is in the list, one on its way in and one
on its way out; `SemMax` is reached. The connection's
header and bodies have two bytes, so each is cut or not; a message without a body
stands before and after one with a body; a buffer of two bytes can be written in part,
and a buffer's memory is used again while another's is still queued. The slab's four
pages pass both limits in both directions, two objects make a slab that is partial,
full and empty, and with a header one byte from the last object `get_slab` has nothing
to spare. Two connecting agents and two descriptors let an agent get the number that
another one has just closed, with both in one batch; one attempt after the first is a
count that is neither at its start nor at its end.

Deadlock checking is off only where the system ends: Connection (it is over),
SlabLists and SlabCache (destroyed), QueueTeardown.

## 4. Fairness

* Reactor: `LoopFairSpec` is `WF(LoopStep)`, the thread is never stopped;
  `OverdueTimerServed` needs no more. `FairSpec` adds `ClockIsSlow`: a loop that serves
  timers again and again gets to `epoll_wait` again and again, that is, timers do not come
  due faster than they can be served (2000 ms against a pass). Without it the loop may
  serve timers for ever, as the code does (`Epoll.cpp:219-229` starts over after each), and
  `PeerGoneReclaimed` fails. Nothing is assumed of the peers, of signals, or of which ready
  events epoll reports. `reactor_live` has a batch for everything that is ready, as the
  100 entries of `RunControl::init`.
* TwoLockQueue: a call that was begun goes on. Mutexes and semaphore may be unfair,
  nobody must call.
* Connection: the loop reads a ready descriptor again and again, writes while output is
  queued (`PendingOutputArmed`) to a peer that goes on reading, and destroys the agents
  it retired (`PeerGoneReclaimed`).
* Connector: the thread is never stopped, and the kernel gives up an attempt that
  nobody answers. Nothing is assumed of the peers or of the agents' owners.
* QueueTeardown: the thread that runs `~Queue` is never stopped.

## 5. Proofs

`Reactor_proofs` proves, for every set of slots and descriptors, every batch size,
period and bound allowed by `ReactorAssumption`, that `Inv` is invariant, and with it
`TypeOK` and each of the eight safety invariants of `reactor_safety`. `Inv` is their
conjunction: none of them is inductive alone. An event's agent is alive
(`NoDanglingEvent`) because its entry is in the epoll set of an open descriptor
(`FdAgreement`) when the batch is taken and because handling one event can retire no
agent that has another (`OneEventEach`). A reference count is 0 or 1 only because no
event names a retired agent. A deletion leaves no pointer behind because it happens
with an empty batch and takes exactly the listed agents (`ListedOnce`), whose timers
go with them (`TimersOwned`).

The argument is laid out in lemmas: what `unregisterRWEvent`, `openWEvent`,
`closeWEvent` and `recycler` do to a serving agent; `UpdateKeeps` and `RetireKeeps`,
shared by every handler that changes or retires one agent; `BatchKeeps` for taking an
entry; one lemma per action of `Next`; and `Invariance` over the disjuncts.

The assumptions are those of `ReactorAssumption`: the sentinels are not slots or
descriptors, the sizes are positive. TLC evaluates them in each run.

`TwoLockQueue_proofs` does the same for any finite sets of producers, consumers and
nodes, any values, semaphore limit and counter width that `QueueAssumption` allows.
Its `Inv` adds two conjuncts to the invariants of `queue_safety`. `LocksHeld` says who
is between a lock and its unlock, so that one producer at a time links and one
consumer at a time takes; `HeldHead` says that the head a consumer saw is still the
head when it moves it. A node cannot be deleted under a producer because a node that
`tail` points to is the last of `chain` whenever somebody is about to follow `tail`,
and only nodes that left `chain` are deleted. `NobodyOversleeps` is inductive
together with `Inv`, by counting: each action changes the length of the list, the
semaphore and the threads about to post or to look by at most one. Where `sem_post`
fails nothing is lost, since the list is never longer than the semaphore counts
(`ChainFits`: its nodes are distinct, and there are at most `SemMax`; that memory
holds fewer nodes than SEM_VALUE_MAX is the assumption to look at).

`Connector_proofs` proves the five safety properties of the run `connector`, and
`TypeOK`, for every set of slots and descriptors and every limit on the attempts. A
handler works on a copy of its agent's fields and on the sockets, so the argument is
in two parts. `Handled` says what a handler's result guarantees: other agents' sockets
are as they were (`Apart`), the `EpollEvent` names the agent's own socket or a
descriptor that epoll does not know (`Safe`), and if it succeeded the agent and its
socket agree (`Fit`); the lemmas up to `ConnectDoneKeeps` show it for each handler,
`ConnectHandled` for every outcome of `connect`. `Kept` shows that this is enough for
the invariant, whichever agent it was; `RetiredApart` adds the agent's end. The
invariant needs `EventFit`, what an entry of the batch still tells when its turn
comes: for an agent that is not connected it is an error, or it has EPOLLOUT and the
connection was established. Within one entry the loop does read first, so data reaches
`readBack` before the word; that, and `Fit`'s clause that such an agent asked for both
events, is why the write half of the same entry is still to come and brings the word
(`WordFollowsData`). The invariant says that every agent with data was told (`Told`)
but the one between its halves (`InOut`), for which `OutFit` has kept what the entry
told.

`Lists_proofs` proves of each operation of `list.h` and `hlist.h` that it leaves the
lists linked (`Linked`, `Chained`), for any memory and any nodes that satisfy the
operation's precondition, which is a hypothesis of the lemma, and the lemmas on single
lists (`IsList`) that `SlabLists_proofs` uses.

`Lifecycle` says that Reactor implements AgentLifecycle: its initial states are the
abstract ones, and every step, seen through the refinement mapping, is an abstract step
of one agent or more or leaves the abstract state alone. The mapping takes the owner of
a descriptor from the agents' flags, so the proof needs that at most one of them has it
(`OwnerFacts`); each kind of abstract step has one lemma (`LifeOpen`, `LifeClose`,
`LifeReclaim`, `LifeStutter`) and `LifeSteps` sorts the loop's actions by them.

`ImplementsFifoSteps` does the same for the queue and FifoQueue. The mapping drops the
dummy from `chain`; a value is taken at the step that moves the head. `ValuesKept` is
what must be added to the invariant: a node's value does not change from the time it
is linked until its consumer has read it, and a producer's node holds what it offered.
`NoDeadlock` is what can be proved of the queue's liveness: while a value is in it and a
`deQueue` has not returned, some thread in a call waits neither for a locked mutex nor
for a semaphore at 0. That such threads go on is the fairness, and stays with TLC.

`Manager_proofs` proves `UnreferencedListed` and `CountersTell` for any finite set of
agents, any bound on the references to one and any width of the counters. Deleting k
agents adds k to one counter modulo its width; the sum over the counters is compared
modulo the width, whence the lemmas on `%` (`ModUnique`, `ModAdd`).
`CheckPasses` follows: with every agent deleted, the comparison in `~Manager` passes only
if `m_iNew` is 0 or half of the counter's range.

`Connection_proofs` proves the six safety properties of the run `connection` and that
no read is for 0 bytes, for any header size, message lengths, buffer lengths and memory.
The two halves share nothing, so `Inv` is a conjunction. The read half's says which
bytes of the sent stream the header and body buffers hold and that the bytes on the way
follow them (`Follows`, `Reaches`): it pins down, at every cut, what the next read is
for. The write half's says that what the socket was given, the rest of the first
buffer and the buffers after it make up the buffers in the order they were queued
(`ListIsRest`, `WireMeetsList`), which buffers were answered (`AnsweredSoFar`), and
who owns each buffer between two writes (`BuffersOwned`).

`SlabCache_proofs` proves SlabCache's promises for any number of pages and objects and
any limits: `GivenOnce`, `ListsFollowUse`, `CountersHold`, `PagesGoBack`. `Sound` ties a
page's list and count to the objects held of it; `Balance` gives nrfree without a sum
over lists, which makes it inductive. That a page is asked for only when no object is
left (`NoneLeft`) follows by counting, and is what keeps a new page from being one empty
page too many. `CountersAgree` sums over a set by recursion; `SumOfLists` shows that
the sum counts the objects on the lists, because a smallest set on which the two
differed would not be one. The proof needed more of the constants than had been
assumed: with `PAGE_THRESHOLD` 1 and `PAGE_FREE` 0 a new cache breaks
`EmptyPagesBounded` (the code has 10 and 4).

`SlabLists_proofs` proves that the pointers implement SlabCache (`PointersImplement`)
for any pages, limits and sizes that `ListsAssumption` and `HeaderMissed` allow, and
hence the safety properties of the run `slab_lists`, SlabCache's own among them. It
is in four layers.
* Addresses: `Objectwise` finds an object's page, index and slab from its address by
  division; `Apart` says that no two nodes share one. This is where `HeaderMissed` and
  the order of the sizes are used.
* Lists as sets: `IsList(m, head, S)` of `Lists_proofs` says that the nodes of S can be
  numbered so that `next` and `prev` follow the numbers and close at the head. What an
  operation does to it (`AddHeadKeeps`, `DelKeeps`, `ListKept`, ...) needs no order, so
  a slab in the middle of a list is treated like any other. The inductive invariant
  `Good` says that each of the cache's lists and each page's list of free objects is
  one of the sets SlabCache has (`Shape`), that a held object is an object of some page,
  and SlabCache's own invariant, without which the code would follow a head that has
  no node: `alloc_node` takes the first object without looking whether there is one.
* Loops: carving a page, releasing slabs and walking a list are recursive functions.
  `AllNumbers` is induction in the form the provers accept (a set of numbers with 0
  and every successor is all of them), from which `CarvedShape`, `FirstReleased` and
  `ListVisited` follow for every length.
* Steps: one lemma per action (`AllocStep`, `NewPageStep`, `FreeStep`, `DestroyStep`)
  gives the next state's `Shape` and the step of SlabCache that it is. The lists are
  oldest first on memory and without order in SlabCache, so which slab `next` gives is
  one of the choices that SlabCache leaves open.

Only model-checked: the fairness in `ImplementsLifecycle` and `ImplementsFifo`, and all
liveness (`PeerGoneReclaimed`, `OverdueTimerServed`, `AttemptSettled`, `AllDelivered`,
`EverythingSent`, `EndIsSeen`), which is out of the prover's reach as `ENABLED` is.
Every safety property of a passing run is also a theorem.

## 6. What the runs found

* `Manager::recycler` counts deletions with `m_iFree--` (`Manager.h:76`), so the check
  of `~Manager` that deletions equal creations fails after the first agent
  (`manager_check`). `CountersTell` shows what the counters do tell: their sum.
* `~Queue` (`Queue.h:104`) empties the queue by calling `deQueue` until it fails, but
  `deQueue` sleeps on an empty queue; the `return -1` is a comment (`Queue.h:81`).
  The destructor never returns (`queue_teardown`).
* `release_one_page` (`slab.c:114`) gives `munmap` an address that is not the page's;
  the page stays mapped and is no longer counted (`slab_pages`). `PagesGivenBack` and
  `PagesGoBack` therefore speak of the free list and `nrpage`, not of memory.

Two more things the models need as assumptions are worth a look in the code.
`HeaderMissed` (SlabLists): `get_slab` counts back from the page's last byte, so the
header starts one byte below where `nrsize` allows for, and for object sizes that
divide the room exactly (24 or 312 bytes of 4056) the last object and the header
overlap. `LeavesOnlyBody` (Connection) is as strong as the code allows: the destructor
does not delete the body it is in the middle of: it permits that leak. `RetriesBounded`
bounds the attempts between two words to the agent: one that stays after
`connectAfter(false)` has its count started over (`Epoll.cpp:288`), and tries again.

## 7. Not modelled, and the plan

| part | why |
|---|---|
| UDP (`UDPSocket`, `BufferManager::write(UDPSocket)`) | the socket is made with SOCK_STREAM and used with `sendto` (`UDPSocket.cpp:97-99`), no agent uses it: there is no behaviour to check |
| `isEmpty` (`Queue.h:96`) | reads the member `size`, which `enQueue` counts up; `deQueue` counts down its local of that name (`Queue.h:65`), so the member only grows; nobody calls `isEmpty` |
| two threads in the slab allocator | `umem_cache_free` links the object before it locks (`slab.c:447`), but one thread allocates |
| the table of cache names, constructors of objects | one cache, made once, without a constructor |
| binding and listening | before the loop, a failure ends the program |
| the EISCONN branch (`Epoll.cpp:253`) | `getErrno` is whatever call failed last; `connect` is called on new sockets only, which never gives EISCONN |
| the width of the millisecond clock (`Epoll.cpp:157`), `CompareTimer` (`Epoll.h:57`) | Reactor keeps the distance to now and serves any earliest timer; what `make_heap` does with an order that is not strict is not specified |
| timers of agents that connect themselves | no code registers one; `setFd` clears the flag of a timer that the loop still holds (`EpollEvent.h:59`), so `connect` after `registerTimer` would leave a pointer to the agent in `m_vAgentTimer` |
| SIGPIPE (`TCPSocket.cpp:77`) | the models take the failure to be returned |
| functions that end without their `return` (`EchoAgent.h:42`) | the loop ignores the results; the model is of a build that returns |
| error reporting, address formatting, `MiddleServer` | formatting; declarations without definitions |

Next: the part of the other liveness properties that needs no fairness, as `NoDeadlock`
is for the queue: while a connection is unfinished, or an attempt unsettled, an event
that the loop will be given is registered.

Abstractions worth knowing. A persistent timer is the only kind (`EchoAgent::doTimer`
sets the flag), so the erase at `Epoll.cpp:203` is not modelled, nor is the recheck at
`Epoll.cpp:192`, which `timeout < 0` implies while the clock does not wrap. A
non-empty list for `writev` is assumed by WriteBuffer and shown by
`PendingOutputArmed`; a writable socket by `SnapshotHolds`. A header whose length is
2^31 or more makes `read` return a negative number and is the "refused header" of
`RecvFails`. Agents that epoll had no room for are kept (`registerREvent` failing is
only logged) and `PeerGoneReclaimed` does not speak of them. Failing allocations
(`new`, and `mmap` when a page is needed) have no action: they end the program or
leave the state alone. A connecting agent's owner is taken to drop it from a timer,
that is, between two batches, and to write only after it was told; code that did
otherwise would need more than Connector shows.
