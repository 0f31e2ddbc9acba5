----------------------------- MODULE SlabCache -----------------------------
(***************************************************************************)
(* umem_cache: the allocator behind Slab<EchoAgent>.  Pages are carved     *)
(* into NrSize objects; a page's slab header counts the objects in use and *)
(* links the others; the cache keeps its pages in three lists and gives    *)
(* pages back when it has many of them empty.                              *)
(*                                                                         *)
(* Only the event loop's thread uses it, so operations do not overlap.     *)
(* Which page of a list is first is left open.                             *)
(***************************************************************************)
EXTENDS Integers, FiniteSets, FiniteSetsExt

CONSTANTS Pages,           \* bound: the pages mmap can return
          NrSize,          \* nrsize, objects in a page
          PAGE_THRESHOLD,  \* with fewer pages nothing is given back
          PAGE_FREE        \* empty pages that are kept

\* What is assumed of them.  The code has 10 for PAGE_THRESHOLD and 4 for
\* PAGE_FREE; with 1 and 0 the page of a new cache would be one too many.
SlabAssumption ==
    /\ IsFiniteSet(Pages)
    /\ NrSize \in Nat \ {0} /\ PAGE_THRESHOLD \in Nat \ {0, 1}
    /\ PAGE_FREE \in 0..(PAGE_THRESHOLD - 1)

VARIABLES mapped,     \* the kernel: pages mmap returned and munmap did not get
          list,       \* of a page: the list its slab is in
          used,       \* of a page: slab->used
          slab_list,  \* of a page: the objects on its slab's list
          nrfree, nralloc, nrpage,
          held,       \* objects the program was given and has not freed
          live        \* the cache has not been destroyed

vars == <<mapped, list, used, slab_list, nrfree, nralloc, nrpage, held, live>>

Objects == 1..NrSize
In(name) == {p \in Pages : list[p] = name}

\* Init is umem_cache_create, which gets a first page if mmap has one.
Init ==
    \E first \in {{}} \cup {{p} : p \in Pages} :
        /\ mapped = first
        /\ list = [p \in Pages |-> IF p \in first THEN "free" ELSE "none"]
        /\ used = [p \in Pages |-> 0]
        /\ slab_list = [p \in Pages |-> IF p \in first THEN Objects ELSE {}]
        /\ nrfree = NrSize * Cardinality(first)
        /\ nralloc = 0 /\ nrpage = Cardinality(first)
        /\ held = {} /\ live = TRUE

-----------------------------------------------------------------------------
(* umem_cache_alloc *)

\* __alloc_node takes the first object of a slab that has one.
ListFor(count) == IF count = NrSize THEN "full" ELSE "partial"

Unlinked(free, p, o) == [free EXCEPT ![p] = @ \ {o}]

TakeFrom(p, free, lists, nr) ==
    \E o \in free[p] :
        /\ slab_list' = Unlinked(free, p, o)
        /\ used' = [used EXCEPT ![p] = @ + 1]
        /\ list' = [lists EXCEPT ![p] = ListFor(used[p] + 1)]
        /\ nralloc' = nralloc + 1
        /\ nrfree' = nr - 1
        /\ held' = held \cup {<<p, o>>}

AllocPartial(p) ==
    /\ live /\ nrfree # 0 /\ p \in In("partial")
    /\ TakeFrom(p, slab_list, list, nrfree)
    /\ UNCHANGED <<mapped, nrpage, live>>

AllocFree(p) ==
    /\ live /\ nrfree # 0 /\ In("partial") = {} /\ p \in In("free")
    /\ TakeFrom(p, slab_list, list, nrfree)
    /\ UNCHANGED <<mapped, nrpage, live>>

\* get_one_page, and then the object is taken from a list as before.
AllocNewPage(new) ==
    LET lists == [p \in Pages |-> IF p = new THEN "free" ELSE list[p]]
        free == [p \in Pages |-> IF p = new THEN Objects ELSE slab_list[p]]
        from == IF In("partial") # {} THEN In("partial") ELSE In("free") \cup {new}
    IN  /\ live /\ nrfree = 0 /\ new \in Pages \ mapped
        /\ mapped' = mapped \cup {new}
        /\ nrpage' = nrpage + 1
        /\ \E p \in from :
              TakeFrom(p, free, lists, nrfree + NrSize)
        /\ UNCHANGED live

-----------------------------------------------------------------------------
(* umem_cache_free *)

\* How many slabs check_free releases when so many are empty.
Excess(empty) ==
    IF nrpage < PAGE_THRESHOLD THEN 0
    ELSE IF empty > PAGE_FREE THEN empty - PAGE_FREE ELSE 0

Uncounted(nr, gone) == nr - NrSize * Cardinality(gone)

\* release_one_page gives munmap the address (slab & pagesize), which is not the
\* page's: munmap succeeds and the page stays.
release(gone, lists, nr) ==
    /\ list' = [p \in Pages |-> IF p \in gone THEN "none" ELSE lists[p]]
    /\ nrpage' = nrpage - Cardinality(gone)
    /\ nrfree' = Uncounted(nr, gone)
    /\ UNCHANGED mapped

\* The list that a slab is in when it has got an object back.
ListAfter(p) == IF used[p] = 1 THEN "free"
                ELSE IF used[p] = NrSize THEN "partial" ELSE list[p]

Free(p, o) ==
    LET lists == [list EXCEPT ![p] = ListAfter(p)]
        empty == {q \in Pages : lists[q] = "free"}
        excess == IF used[p] = 1 THEN Excess(Cardinality(empty)) ELSE 0
    IN  /\ live /\ <<p, o>> \in held
        /\ held' = held \ {<<p, o>>}
        /\ slab_list' = [slab_list EXCEPT ![p] = @ \cup {o}]
        /\ used' = [used EXCEPT ![p] = @ - 1]
        /\ nralloc' = nralloc - 1
        /\ \E gone \in kSubset(excess, empty) : release(gone, lists, nrfree + 1)
        /\ UNCHANGED live

ReleasedAtEnd == In("free")

\* umem_cache_destroy: with objects still in use it only complains.
Destroy ==
    /\ live /\ live' = FALSE
    /\ IF nralloc # 0 THEN UNCHANGED <<list, nrpage, nrfree, mapped>>
       ELSE release(ReleasedAtEnd, list, nrfree)
    /\ UNCHANGED <<used, slab_list, nralloc, held>>

Next == \/ \E p \in Pages : AllocPartial(p) \/ AllocFree(p) \/ AllocNewPage(p)
        \/ \E p \in Pages, o \in Objects : Free(p, o)
        \/ Destroy
Spec == Init /\ [][Next]_vars
-----------------------------------------------------------------------------
(* Properties. *)

\* No object is handed out twice: what the program holds is on no slab's list,
\* and together they are the objects of the cache's pages (slab.c:287-299, 447).
HandedOutOnce ==
    /\ \A p \in Pages, o \in Objects :
          IF list[p] = "none" THEN <<p, o>> \notin held
          ELSE <<p, o>> \in held <=> o \notin slab_list[p]
    /\ \A p \in Pages : list[p] # "none" => p \in mapped

\* A slab is in the list that its count says, and the count is that of the
\* objects in use (slab.c:283, 301, 454-464).
ListedByUse ==
    \A p \in Pages : list[p] # "none" =>
        /\ used[p] = Cardinality({o \in Objects : <<p, o>> \in held})
        /\ list[p] = IF used[p] = 0 THEN "free"
                     ELSE IF slab_list[p] = {} THEN "full" ELSE "partial"

\* The cache's counters agree with its lists; alloc relies on it when it looks
\* at nrfree alone to decide that a page is needed (slab.c:332).
CountersAgree ==
    /\ nrpage = Cardinality(Pages \ In("none"))
    /\ nrfree = MapThenSumSet(LAMBDA p : Cardinality(slab_list[p]), Pages \ In("none"))
    /\ nralloc = Cardinality(held)

\* However allocations and frees follow each other, a cache of PAGE_THRESHOLD
\* pages never keeps more than PAGE_FREE of them empty (slab.c:376-400), by its
\* own books: pages beyond leave the free list and the count, whatever munmap
\* does with them (PagesConsumed).
EmptyPagesBounded ==
    nrpage >= PAGE_THRESHOLD => Cardinality(In("free")) <= PAGE_FREE

\* A cache that is destroyed with every object returned counts no page any more
\* (slab.h:75).
NothingKept == ~live /\ held = {} => nrpage = 0

\* nrpage is the "total page consumed" (slab.h:41).
PagesConsumed == live => nrpage = Cardinality(mapped)
=============================================================================
