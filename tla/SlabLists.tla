----------------------------- MODULE SlabLists -----------------------------
(***************************************************************************)
(* The slab allocator as slab.c has it, on memory: a page is NrSize objects*)
(* from its start, and a slab header that get_slab finds from the address  *)
(* of any object; free objects are linked through themselves, last freed   *)
(* first, and the slabs through their headers in the cache's three lists,  *)
(* oldest first.  It implements SlabCache, where an object is a member of  *)
(* a page and lists have no order.                                         *)
(*                                                                         *)
(* Only the event loop's thread uses it, so operations do not overlap.     *)
(***************************************************************************)
EXTENDS Integers, FiniteSets, FiniteSetsExt, LinkedList

CONSTANTS Pages,           \* bound: the page numbers mmap can return
          pagesize,        \* getpagesize(), a power of two
          ListSize,        \* sizeof(struct list)
          HeaderSize,      \* sizeof(struct slab)
          size,            \* of an object, aligned
          PAGE_THRESHOLD,  \* with fewer pages nothing is given back
          PAGE_FREE        \* empty pages that are kept

nrsize == (pagesize - HeaderSize) \div size

ASSUME ListsAssumption ==
    /\ IsFiniteSet(Pages) /\ Pages \subseteq Nat \ {0}
    /\ {pagesize, ListSize, HeaderSize, size} \subseteq Nat \ {0}
    /\ PAGE_THRESHOLD \in Nat \ {0, 1} /\ PAGE_FREE \in 0..(PAGE_THRESHOLD - 1)
    /\ HeaderSize >= 2 * ListSize + 1 /\ size >= ListSize /\ pagesize > 3
    /\ nrsize > 0

\* The sizes for which the header's first byte is not the last object's last
\* one; get_slab puts it a byte lower than nrsize allows for.
ASSUME HeaderMissed == nrsize * size < pagesize - HeaderSize

VARIABLES m,       \* next and prev of every node, used of every slab header,
                   \* nrfree, nralloc and nrpage of the cache
          mapped,  \* the kernel: pages mmap returned and munmap did not get
          held,    \* objects the program was given and has not freed
          live     \* the cache has not been destroyed

vars == <<m, mapped, held, live>>

\* The cache's heads, in the memory calloc gave for it.
slabs_partial == 1
slabs_full == 2
slabs_free == 3
Heads == {slabs_partial, slabs_full, slabs_free}

\* mem | (pagesize - 1) is the last byte of the page.
get_slab(mem) == mem - (mem % pagesize) + pagesize - 1 - HeaderSize
\* The header's fields list, at its start, and slab_list.
ObjectList(slab) == slab + ListSize

Slab(p) == get_slab(p * pagesize)
Object(p, i) == p * pagesize + (i - 1) * size
ObjectsOf(p) == {Object(p, i) : i \in 1..nrsize}
Nodes == Heads \cup UNION {ObjectsOf(p) \cup {Slab(p), ObjectList(Slab(p))} : p \in Pages}

\* Cleared memory.
Zeroed(mm, n) == [mm EXCEPT !.next[n] = 0, !.prev[n] = 0]

-----------------------------------------------------------------------------
(* get_one_page and release_one_page *)

\* The loop that carves a page up.
Carved(mm, p) ==
    LET upto[i \in 0..nrsize] ==
            IF i = 0 THEN mm
            ELSE list_add_head(list_init(upto[i - 1], Object(p, i)),
                               ObjectList(Slab(p)), Object(p, i))
    IN  upto[nrsize]

get_one_page(mm, p) ==
    LET slab == Slab(p)
        header == [list_init(list_init(mm, slab), ObjectList(slab))
                      EXCEPT !.used[slab] = 0]
    IN  [list_add_head(Carved(header, p), slabs_free, slab)
            EXCEPT !.nrpage = @ + 1, !.nrfree = @ + nrsize]

\* munmap is given (slab & pagesize), which is not the page: the page stays.
release_one_page(mm, slab) ==
    IF mm.used[slab] # 0 THEN mm
    ELSE [list_del_element(mm, slab) EXCEPT !.nrpage = @ - 1, !.nrfree = @ - nrsize]

\* So many slabs at the front of the free list are released.
ReleasedFirst(mm, count) ==
    LET after[k \in 0..count] ==
            IF k = 0 THEN mm
            ELSE release_one_page(after[k - 1], after[k - 1].next[slabs_free])
    IN  after[count]

FreeSlabs(mm) == Cardinality(Visited(mm, slabs_free, Cardinality(Pages)))

Fresh == [next |-> [n \in Nodes |-> IF n \in Heads THEN n ELSE 0],
          prev |-> [n \in Nodes |-> IF n \in Heads THEN n ELSE 0],
          used |-> [s \in {Slab(p) : p \in Pages} |-> 0],
          nrfree |-> 0, nralloc |-> 0, nrpage |-> 0]

\* Init is umem_cache_create, which gets a first page if mmap has one.
Init ==
    /\ held = {} /\ live = TRUE
    /\ \/ m = Fresh /\ mapped = {}
       \/ \E p \in Pages : m = get_one_page(Fresh, p) /\ mapped = {p}

-----------------------------------------------------------------------------
(* umem_cache_alloc *)

\* Faulty: a slab that has become full stays with the partial ones.
FilledStays(mm, slab) == mm

\* The last lines of __alloc_node.
Filled(mm, slab) ==
    IF mm.used[slab] = nrsize THEN list_move(mm, slabs_full, slab) ELSE mm

\* __alloc_node takes the first object of the slab, and NULL, so that nothing is
\* allocated, from a full one; memset clears it.
alloc_node(mm, slab) ==
    LET part == IF mm.used[slab] = 0 THEN list_move(mm, slabs_partial, slab) ELSE mm
        taken == [list_del_element(part, part.next[ObjectList(slab)])
                     EXCEPT !.used[slab] = @ + 1, !.nralloc = @ + 1, !.nrfree = @ - 1]
    IN  IF mm.used[slab] = nrsize THEN m' = mm /\ UNCHANGED held
        ELSE /\ m' = Zeroed(Filled(taken, slab), part.next[ObjectList(slab)])
             /\ held' = held \cup {part.next[ObjectList(slab)]}

FromLists(mm) ==
    \/ /\ ~list_empty(mm, slabs_partial)
       /\ alloc_node(mm, mm.next[slabs_partial])
    \/ LET moved == list_move(mm, slabs_partial, mm.next[slabs_free])
       IN  /\ list_empty(mm, slabs_partial) /\ ~list_empty(mm, slabs_free)
           /\ alloc_node(moved, moved.next[slabs_partial])

Alloc ==
    /\ live /\ m.nrfree # 0
    /\ FromLists(m)
    /\ UNCHANGED <<mapped, live>>

\* mmap may have no page; then alloc returns NULL and nothing changes.
AllocNewPage(new) ==
    /\ live /\ m.nrfree = 0 /\ new \notin mapped
    /\ mapped' = mapped \cup {new}
    /\ FromLists(get_one_page(m, new))
    /\ UNCHANGED live

-----------------------------------------------------------------------------
(* umem_cache_free *)

\* Faulty: one page too many is kept.
check_freeLess(mm) ==
    IF mm.nrpage < PAGE_THRESHOLD \/ FreeSlabs(mm) <= PAGE_FREE + 1 THEN mm
    ELSE ReleasedFirst(mm, FreeSlabs(mm) - PAGE_FREE - 1)

check_free(mm) ==
    IF mm.nrpage < PAGE_THRESHOLD \/ FreeSlabs(mm) <= PAGE_FREE THEN mm
    ELSE ReleasedFirst(mm, FreeSlabs(mm) - PAGE_FREE)

\* The slab that an object is put back into goes to the list of its new count.
Requeued(mm, slab) ==
    LET less == [mm EXCEPT !.used[slab] = @ - 1]
    IN  IF mm.used[slab] = 1 THEN check_free(list_move(less, slabs_free, slab))
        ELSE IF mm.used[slab] = nrsize THEN list_move(less, slabs_partial, slab)
        ELSE less

\* Faulty: the object is not counted.
CountedNot(mm) == [mm EXCEPT !.nralloc = @ - 1]

Counted(mm) == [mm EXCEPT !.nrfree = @ + 1, !.nralloc = @ - 1]

Free(mem) ==
    LET slab == get_slab(mem)
        linked == list_add_head(list_init(m, mem), ObjectList(slab), mem)
    IN  /\ live /\ mem \in held
        /\ m' = Requeued(Counted(linked), slab)
        /\ held' = held \ {mem}
        /\ UNCHANGED <<mapped, live>>

\* umem_cache_destroy: with objects still in use it only complains.
Destroyed(mm) ==
    IF mm.nralloc # 0 THEN mm ELSE ReleasedFirst(mm, FreeSlabs(mm))

Destroy ==
    /\ live /\ live' = FALSE
    /\ m' = Destroyed(m)
    /\ UNCHANGED <<mapped, held>>

Next == \/ Alloc
        \/ \E p \in Pages : AllocNewPage(p)
        \/ \E mem \in held : Free(mem)
        \/ Destroy
Spec == Init /\ [][Next]_vars
-----------------------------------------------------------------------------
(* Properties. *)

\* The pages that are in one of the lists, as SlabCache has them.
On(head) == Visited(m, head, Cardinality(Pages))
ListOf(p) == IF Slab(p) \in On(slabs_partial) THEN "partial"
             ELSE IF Slab(p) \in On(slabs_full) THEN "full"
             ELSE IF Slab(p) \in On(slabs_free) THEN "free" ELSE "none"
FreeObjects(p) == {i \in 1..nrsize :
                      Object(p, i) \in Visited(m, ObjectList(Slab(p)), nrsize)}
Cached == {p \in Pages : ListOf(p) # "none"}

\* The state that SlabCache has of them.
PageList == [p \in Pages |-> ListOf(p)]
UsedCount == [p \in Pages |-> m.used[Slab(p)]]
SlabList == [p \in Pages |-> IF p \in mapped THEN FreeObjects(p) ELSE {}]
Named(mem) == <<mem \div pagesize, (mem % pagesize) \div size + 1>>
HeldObjects == {Named(mem) : mem \in held}

Cache == INSTANCE SlabCache WITH
    NrSize <- nrsize, list <- PageList, used <- UsedCount, slab_list <- SlabList,
    nrfree <- m.nrfree, nralloc <- m.nralloc, nrpage <- m.nrpage,
    held <- HeldObjects

\* The pointers implement the abstract cache: what alloc and free do to the
\* lists, get_slab's arithmetic included, is what SlabCache says (slab.c).
ImplementsSlabCache == Cache!Spec

\* The nodes in use by the cache are linked both ways, and each list is met from
\* its own head alone: no list runs into another or into an object that the
\* program holds (list.h:28-153).
LinkedNodes ==
    Heads \cup UNION {{Slab(p), ObjectList(Slab(p))} \cup
                      {Object(p, i) : i \in FreeObjects(p)} : p \in Cached}
ListsWhole ==
    /\ live => Linked(m, LinkedNodes)
    /\ LinkedNodes \cap held = {}
    /\ \A p \in Cached :
          /\ Visited(m, ObjectList(Slab(p)), nrsize) \subseteq ObjectsOf(p)
          /\ Cardinality({h \in Heads : Slab(p) \in On(h)}) = 1
    /\ \A h \in Heads : On(h) \subseteq {Slab(p) : p \in Pages}

\* What SlabCache promises of its state, on the state the pointers stand for.
HandedOutOnce == Cache!HandedOutOnce
CountersAgree == Cache!CountersAgree

\* Pages leave the free list and the count: a cache of PAGE_THRESHOLD pages keeps
\* at most PAGE_FREE of them empty, and one destroyed with every object returned
\* keeps none.  That is the cache's bookkeeping (slab.c:376-400, 473-489); what
\* munmap makes of their memory is SlabCache's PagesConsumed.
PagesGivenBack == Cache!EmptyPagesBounded /\ Cache!NothingKept
=============================================================================
