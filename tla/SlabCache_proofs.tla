-------------------------- MODULE SlabCache_proofs --------------------------
(***************************************************************************)
(* The allocator's promises hold for any number of pages, any number of    *)
(* objects in a page and any limits, however allocations and frees follow  *)
(* each other.                                                             *)
(***************************************************************************)
EXTENDS SlabCache, FiniteSetTheorems, TLAPS

Names == {"none", "free", "partial", "full"}
HeldOf(p) == {o \in Objects : <<p, o>> \in held}

\* A page in list l, with u objects in use, f on its slab's list and h held.
PageSound(l, u, f, h) ==
    IF l = "none" THEN h = {}
    ELSE /\ f = Objects \ h /\ u = Cardinality(h)
         /\ l = IF u = 0 THEN "free" ELSE IF f = {} THEN "full" ELSE "partial"

TypeOK ==
    /\ mapped \in SUBSET Pages /\ list \in [Pages -> Names]
    /\ used \in [Pages -> Nat] /\ slab_list \in [Pages -> SUBSET Objects]
    /\ nrfree \in Int /\ nralloc \in Int /\ nrpage \in Int
    /\ held \in SUBSET (Pages \X Objects) /\ live \in BOOLEAN

Sound ==
    \A p \in Pages :
        /\ PageSound(list[p], used[p], slab_list[p], HeldOf(p))
        /\ list[p] # "none" => p \in mapped
        /\ p \notin mapped => used[p] = 0

\* What nrfree counts, without a sum over the lists.
Balance ==
    /\ nrpage = Cardinality(Pages \ In("none"))
    /\ nralloc = Cardinality(held)
    /\ nrfree = NrSize * nrpage - nralloc

\* The inductive invariant.
Inv == TypeOK /\ Sound /\ Balance /\ EmptyPagesBounded /\ NothingKept

-----------------------------------------------------------------------------
(* Facts used in several steps. *)

LEMMA ObjectsCounted ==
    ASSUME SlabAssumption, NEW h \in SUBSET Objects
    PROVE  /\ IsFiniteSet(h) /\ Cardinality(h) \in Nat /\ Cardinality(h) <= NrSize
           /\ Cardinality(Objects \ h) = NrSize - Cardinality(h)
           /\ Cardinality(h) = 0 <=> h = {}
           /\ Cardinality(h) = NrSize <=> Objects \ h = {}
<1>1. NrSize \in Nat /\ 1 \in Int /\ NrSize \in Int /\ NrSize > 0
  BY DEF SlabAssumption
<1>2. IsFiniteSet(Objects) /\ Cardinality(Objects) = NrSize
  BY <1>1, FS_Interval DEF Objects
<1>3. IsFiniteSet(h) /\ Cardinality(h) <= NrSize /\ (Cardinality(h) = NrSize => Objects = h)
  BY <1>2, FS_Subset
<1>4. Cardinality(h) \in Nat /\ (Cardinality(h) = 0 <=> h = {})
  BY <1>3, FS_CardinalityType, FS_EmptySet
<1>5. Objects \cap h = h
  OBVIOUS
<1>6. Cardinality(Objects \ h) = NrSize - Cardinality(h)
  BY <1>2, <1>5, FS_Difference
<1>7. Cardinality(h) = NrSize <=> Objects \ h = {}
  <2>1. Objects \ h = {} => h = Objects
    OBVIOUS
  <2> QED
    BY <1>2, <1>3, <2>1
<1> QED
  BY <1>3, <1>4, <1>6, <1>7

LEMMA PagesCounted ==
    ASSUME SlabAssumption, NEW S \in SUBSET Pages
    PROVE  /\ IsFiniteSet(S) /\ Cardinality(S) \in Nat
           /\ Cardinality(S) = 0 <=> S = {}
<1>1. IsFiniteSet(S)
  BY FS_Subset DEF SlabAssumption
<1> QED
  BY <1>1, FS_CardinalityType, FS_EmptySet

LEMMA HeldFinite ==
    ASSUME SlabAssumption, TypeOK
    PROVE  IsFiniteSet(held) /\ Cardinality(held) \in Nat
           /\ (Cardinality(held) = 0 <=> held = {})
<1>1. IsFiniteSet(Pages) /\ IsFiniteSet(Objects)
  BY ObjectsCounted DEF SlabAssumption
<1>2. IsFiniteSet(Pages \X Objects)
  BY <1>1, FS_Product
<1>3. IsFiniteSet(held)
  BY <1>2, FS_Subset DEF TypeOK
<1> QED
  BY <1>3, FS_CardinalityType, FS_EmptySet

\* A page is free exactly when nothing of it is held, and full when all is.
LEMMA ListedMeans ==
    ASSUME SlabAssumption, NEW l \in Names, NEW u \in Nat, NEW f, NEW h \in SUBSET Objects,
           PageSound(l, u, f, h)
    PROVE  /\ l = "free" => u = 0 /\ h = {} /\ f = Objects
           /\ l = "full" => u = NrSize /\ f = {}
           /\ l = "partial" => u # 0 /\ u # NrSize
           /\ u # 0 /\ l # "none" => h # {}
BY ObjectsCounted DEF PageSound, Names

\* An object more is in use.
LEMMA OneMore ==
    ASSUME SlabAssumption, NEW l \in Names, NEW u \in Nat, NEW f, NEW h \in SUBSET Objects,
           PageSound(l, u, f, h), l # "none", NEW o \in f
    PROVE  /\ o \in Objects /\ o \notin h
           /\ PageSound(ListFor(u + 1), u + 1, f \ {o}, h \cup {o})
           /\ ListFor(u + 1) \in {"partial", "full"}
<1>1. /\ f = Objects \ h /\ u = Cardinality(h) /\ o \in Objects /\ o \notin h
      /\ f \ {o} = Objects \ (h \cup {o})
  BY DEF PageSound
<1>2. Cardinality(h \cup {o}) = u + 1
  BY <1>1, ObjectsCounted, FS_AddElement
<1>3. h \cup {o} \in SUBSET Objects
  BY <1>1
<1>4. u + 1 = NrSize <=> f \ {o} = {}
  BY <1>1, <1>2, <1>3, ObjectsCounted
<1>5. ListFor(u + 1) = IF f \ {o} = {} THEN "full" ELSE "partial"
  BY <1>4 DEF ListFor
<1> QED
  BY <1>1, <1>2, <1>5 DEF PageSound

\* An object less is in use; ListAfter, written out, is where the page goes.
LEMMA OneLess ==
    ASSUME SlabAssumption, NEW l \in Names, NEW u \in Nat, NEW f, NEW h \in SUBSET Objects,
           PageSound(l, u, f, h), NEW o \in h
    PROVE  LET after == IF u = 1 THEN "free" ELSE IF u = NrSize THEN "partial" ELSE l
           IN  /\ PageSound(after, u - 1, f \cup {o}, h \ {o})
               /\ u - 1 \in Nat /\ after \in Names /\ after # "none" /\ l # "none"
               /\ after = "free" <=> u = 1
               /\ l # "free"
<1>1. /\ l # "none" /\ f = Objects \ h /\ u = Cardinality(h) /\ o \in Objects
      /\ f \cup {o} = Objects \ (h \ {o}) /\ f \cup {o} # {}
  BY DEF PageSound
<1>2. Cardinality(h \ {o}) = u - 1 /\ u # 0
  BY <1>1, ObjectsCounted, FS_RemoveElement
<1>3. u = NrSize <=> f = {}
  BY <1>1, ObjectsCounted
<1>4. l = IF f = {} THEN "full" ELSE "partial"
  BY <1>1, <1>2 DEF PageSound
<1> QED
  BY <1>1, <1>2, <1>3, <1>4 DEF PageSound, Names

\* An object leaves its slab's list for the program: every page stays sound.
LEMMA TakeKeeps ==
    ASSUME SlabAssumption, TypeOK, NEW p \in Pages, NEW ls \in [Pages -> Names],
           NEW fr \in [Pages -> SUBSET Objects], NEW nr \in Int,
           \A q \in Pages : PageSound(ls[q], used[q], fr[q], HeldOf(q)),
           ls[p] # "none", nralloc = Cardinality(held), TakeFrom(p, fr, ls, nr)
    PROVE  /\ list' \in [Pages -> Names] /\ used' \in [Pages -> Nat]
           /\ slab_list' \in [Pages -> SUBSET Objects]
           /\ held' \in SUBSET (Pages \X Objects) /\ held' # {}
           /\ \A q \in Pages : PageSound(list'[q], used'[q], slab_list'[q], HeldOf(q)')
           /\ \A q \in Pages \ {p} : list'[q] = ls[q] /\ used'[q] = used[q]
           /\ list'[p] \in {"partial", "full"}
           /\ nralloc' = nralloc + 1 /\ nralloc' = Cardinality(held')
           /\ nrfree' = nr - 1
<1>1. PICK o \in fr[p] :
        /\ slab_list' = [fr EXCEPT ![p] = fr[p] \ {o}]
        /\ used' = [used EXCEPT ![p] = used[p] + 1]
        /\ list' = [ls EXCEPT ![p] = ListFor(used[p] + 1)]
        /\ nralloc' = nralloc + 1 /\ nrfree' = nr - 1
        /\ held' = held \cup {<<p, o>>}
  BY DEF TakeFrom, Unlinked
<1>2. /\ used \in [Pages -> Nat] /\ held \in SUBSET (Pages \X Objects)
      /\ ls[p] \in Names /\ used[p] \in Nat /\ HeldOf(p) \in SUBSET Objects
      /\ PageSound(ls[p], used[p], fr[p], HeldOf(p))
  BY DEF TypeOK, HeldOf
<1>3. /\ o \in Objects /\ o \notin HeldOf(p)
      /\ PageSound(ListFor(used[p] + 1), used[p] + 1, fr[p] \ {o}, HeldOf(p) \cup {o})
      /\ ListFor(used[p] + 1) \in {"partial", "full"}
  BY <1>2, OneMore
<1>4. HeldOf(p)' = HeldOf(p) \cup {o} /\ \A q \in Pages \ {p} : HeldOf(q)' = HeldOf(q)
  BY <1>1, <1>3 DEF HeldOf
<1>5. \A q \in Pages : PageSound(list'[q], used'[q], slab_list'[q], HeldOf(q)')
  <2>1. PageSound(list'[p], used'[p], slab_list'[p], HeldOf(p)')
    BY <1>1, <1>2, <1>3, <1>4
  <2>2. ASSUME NEW q \in Pages \ {p}
        PROVE  PageSound(list'[q], used'[q], slab_list'[q], HeldOf(q)')
    BY <1>1, <1>2, <1>4
  <2> QED
    BY <2>1, <2>2
<1>6. Cardinality(held') = Cardinality(held) + 1
  <2>1. <<p, o>> \notin held
    BY <1>3 DEF HeldOf
  <2> QED
    BY <1>1, <1>2, <2>1, HeldFinite, FS_AddElement
<1>7. held' \in SUBSET (Pages \X Objects) /\ held' # {}
  <2>1. <<p, o>> \in Pages \X Objects
    BY <1>3
  <2> QED
    BY <1>1, <1>2, <2>1, Zenon
<1>8. /\ list' \in [Pages -> Names] /\ used' \in [Pages -> Nat]
      /\ slab_list' \in [Pages -> SUBSET Objects]
  BY <1>1, <1>2, <1>3 DEF Names
<1>9. /\ \A q \in Pages \ {p} : list'[q] = ls[q] /\ used'[q] = used[q]
      /\ list'[p] \in {"partial", "full"}
  BY <1>1, <1>2, <1>3
<1> QED
  BY <1>1, <1>5, <1>6, <1>7, <1>8, <1>9

\* Empty pages leave the cache: the others are as they were.
LEMMA ReleaseKeeps ==
    ASSUME SlabAssumption, NEW ls \in [Pages -> Names], NEW us, NEW fr,
           NEW h \in [Pages -> SUBSET Objects],
           us \in [Pages -> Nat],
           \A q \in Pages : PageSound(ls[q], us[q], fr[q], h[q]),
           NEW gone \in SUBSET {q \in Pages : ls[q] = "free"},
           list' = [q \in Pages |-> IF q \in gone THEN "none" ELSE ls[q]]
    PROVE  /\ list' \in [Pages -> Names]
           /\ \A q \in Pages : PageSound(list'[q], us[q], fr[q], h[q])
           /\ \A q \in Pages : list'[q] # "none" => ls[q] # "none"
           /\ Cardinality(gone) \in Nat
           /\ Cardinality({q \in Pages : list'[q] # "none"})
                 = Cardinality({q \in Pages : ls[q] # "none"}) - Cardinality(gone)
           /\ Cardinality({q \in Pages : list'[q] = "free"})
                 = Cardinality({q \in Pages : ls[q] = "free"}) - Cardinality(gone)
<1>1. list' \in [Pages -> Names] /\ \A q \in Pages : list'[q] # "none" => ls[q] # "none"
  BY DEF Names
<1>2. ASSUME NEW q \in Pages
      PROVE  PageSound(list'[q], us[q], fr[q], h[q])
  <2>1. CASE q \in gone
    <3>1. ls[q] = "free" /\ list'[q] = "none"
      BY <2>1
    <3>2. ls[q] \in Names /\ us[q] \in Nat /\ h[q] \in SUBSET Objects
          /\ PageSound(ls[q], us[q], fr[q], h[q])
      OBVIOUS
    <3>3. h[q] = {}
      BY <3>1, <3>2, ListedMeans
    <3> QED
      BY <3>1, <3>3 DEF PageSound
  <2>2. CASE q \notin gone
    BY <2>2
  <2> QED
    BY <2>1, <2>2
<1>3. IsFiniteSet(gone) /\ Cardinality(gone) \in Nat
  <2>1. gone \in SUBSET Pages
    OBVIOUS
  <2> QED
    BY <2>1, PagesCounted
<1>4. ASSUME NEW S \in SUBSET Pages, gone \subseteq S
      PROVE  Cardinality(S \ gone) = Cardinality(S) - Cardinality(gone)
  <2>1. S \cap gone = gone
    BY <1>4
  <2> QED
    BY <2>1, PagesCounted, FS_Difference
<1>5. {q \in Pages : list'[q] # "none"} = {q \in Pages : ls[q] # "none"} \ gone
  OBVIOUS
<1>6. {q \in Pages : list'[q] = "free"} = {q \in Pages : ls[q] = "free"} \ gone
  OBVIOUS
<1>7. Cardinality({q \in Pages : ls[q] # "none"} \ gone)
         = Cardinality({q \in Pages : ls[q] # "none"}) - Cardinality(gone)
  <2>1. gone \subseteq {q \in Pages : ls[q] # "none"}
    OBVIOUS
  <2> QED
    BY <1>4, <2>1
<1>8. Cardinality({q \in Pages : ls[q] = "free"} \ gone)
         = Cardinality({q \in Pages : ls[q] = "free"}) - Cardinality(gone)
  BY <1>4
<1> QED
  BY <1>1, <1>2, <1>3, <1>5, <1>6, <1>7, <1>8

\* With nrfree at 0 every object of the cache's pages is in the program's hands.
LEMMA NoneLeft ==
    ASSUME SlabAssumption, TypeOK, Sound, Balance, nrfree = 0
    PROVE  In("partial") = {} /\ In("free") = {}
<1> DEFINE Cached == Pages \ In("none")
<1>1. IsFiniteSet(Objects) /\ Cardinality(Objects) = NrSize /\ NrSize \in Nat \ {0}
  BY FS_Interval DEF Objects, SlabAssumption
<1>2. IsFiniteSet(Cached) /\ Cardinality(Cached) \in Nat /\ Cardinality(Cached) = nrpage
  <2>1. Cached \in SUBSET Pages
    OBVIOUS
  <2> QED
    BY <2>1, PagesCounted DEF Balance
<1>3. IsFiniteSet(Cached \X Objects)
      /\ Cardinality(Cached \X Objects) = nrpage * NrSize
  BY <1>1, <1>2, FS_Product
<1>4. held \in SUBSET (Cached \X Objects)
  <2>1. ASSUME NEW x \in held
        PROVE  x \in Cached \X Objects
    <3>1. PICK p \in Pages, o \in Objects : x = <<p, o>>
      BY DEF TypeOK
    <3>2. HeldOf(p) # {}
      BY <3>1 DEF HeldOf
    <3>3. list[p] # "none"
      BY <3>2 DEF Sound, PageSound
    <3> QED
      BY <3>1, <3>3 DEF In
  <2> QED
    BY <2>1
<1>5. nrpage * NrSize = NrSize * nrpage /\ NrSize * nrpage \in Int
  BY <1>1, <1>2
<1>6. Cardinality(held) = Cardinality(Cached \X Objects)
  <2>1. nralloc = NrSize * nrpage
    <3> DEFINE all == NrSize * nrpage
    <3>1. nrfree = all - nralloc /\ all \in Int /\ nralloc \in Int
      BY <1>5 DEF Balance, TypeOK
    <3> HIDE DEF all
    <3>2. nralloc = all
      BY <3>1
    <3> QED
      BY <3>2 DEF all
  <2> QED
    BY <1>3, <1>5, <2>1 DEF Balance
<1>7. held = Cached \X Objects
  BY <1>3, <1>4, <1>6, FS_Subset
<1>8. ASSUME NEW p \in Pages
      PROVE  list[p] \notin {"partial", "free"}
  <2>1. CASE list[p] = "none"
    BY <2>1
  <2>2. CASE list[p] # "none"
    <3>1. HeldOf(p) = Objects
      BY <1>7, <2>2 DEF HeldOf, In
    <3>2. used[p] = NrSize /\ slab_list[p] = {}
      BY <1>1, <2>2, <3>1 DEF Sound, PageSound
    <3> QED
      BY <1>1, <2>2, <3>2 DEF Sound, PageSound
  <2> QED
    BY <2>1, <2>2
<1> QED
  BY <1>8 DEF In

-----------------------------------------------------------------------------
(* Every step keeps the invariant. *)

\* An object of a page that the cache has already.
LEMMA TakeStep ==
    ASSUME SlabAssumption, Inv, NEW p \in Pages, list[p] \in {"partial", "free"},
           live, TakeFrom(p, slab_list, list, nrfree),
           UNCHANGED <<mapped, nrpage, live>>
    PROVE  Inv'
<1>1. TypeOK /\ Sound /\ Balance /\ EmptyPagesBounded
  BY DEF Inv
<1>2. /\ list \in [Pages -> Names] /\ slab_list \in [Pages -> SUBSET Objects]
      /\ nrfree \in Int /\ nralloc \in Int /\ nrpage \in Int
      /\ \A q \in Pages : PageSound(list[q], used[q], slab_list[q], HeldOf(q))
      /\ nralloc = Cardinality(held) /\ list[p] # "none"
  BY <1>1 DEF TypeOK, Sound, Balance
<1>3. /\ list' \in [Pages -> Names] /\ used' \in [Pages -> Nat]
      /\ slab_list' \in [Pages -> SUBSET Objects]
      /\ held' \in SUBSET (Pages \X Objects) /\ held' # {}
      /\ \A q \in Pages : PageSound(list'[q], used'[q], slab_list'[q], HeldOf(q)')
      /\ \A q \in Pages \ {p} : list'[q] = list[q] /\ used'[q] = used[q]
      /\ list'[p] \in {"partial", "full"}
      /\ nralloc' = nralloc + 1 /\ nralloc' = Cardinality(held')
      /\ nrfree' = nrfree - 1
  BY <1>1, <1>2, TakeKeeps
<1>4. TypeOK'
  <2>1. nralloc' \in Int /\ nrfree' \in Int
    BY <1>2, <1>3
  <2> QED
    BY <1>1, <1>3, <2>1 DEF TypeOK
<1>5. Sound'
  <2>1. ASSUME NEW q \in Pages
        PROVE  /\ list'[q] # "none" => q \in mapped'
               /\ q \notin mapped' => used'[q] = 0
    BY <1>1, <1>2, <1>3 DEF Sound
  <2> QED
    BY <1>3, <2>1 DEF Sound
<1>6. Balance'
  <2>1. Pages \ In("none")' = Pages \ In("none")
    BY <1>2, <1>3 DEF In
  <2>2. NrSize * nrpage \in Int
    BY <1>2 DEF SlabAssumption
  <2>3. nrfree' = NrSize * nrpage' - nralloc'
    BY <1>1, <1>2, <1>3, <2>2 DEF Balance
  <2> QED
    BY <1>1, <1>3, <2>1, <2>3 DEF Balance
<1>7. EmptyPagesBounded'
  <2>1. In("free")' \in SUBSET In("free") /\ In("free") \in SUBSET Pages
    BY <1>2, <1>3 DEF In
  <2>2. /\ Cardinality(In("free")') <= Cardinality(In("free"))
        /\ Cardinality(In("free")') \in Nat /\ Cardinality(In("free")) \in Nat
    <3>1. In("free")' \in SUBSET Pages
      BY <2>1
    <3>2. IsFiniteSet(In("free"))
      BY <2>1, PagesCounted
    <3> QED
      BY <2>1, <3>1, <3>2, PagesCounted, FS_Subset
  <2>3. PAGE_FREE \in Int
    BY DEF SlabAssumption
  <2> QED
    BY <1>1, <2>2, <2>3 DEF EmptyPagesBounded
<1>8. NothingKept'
  BY DEF NothingKept
<1> QED
  BY <1>4, <1>5, <1>6, <1>7, <1>8 DEF Inv

LEMMA NewPageStep ==
    ASSUME SlabAssumption, Inv, NEW new \in Pages, AllocNewPage(new)
    PROVE  Inv'
<1> DEFINE ls == [q \in Pages |-> IF q = new THEN "free" ELSE list[q]]
           fr == [q \in Pages |-> IF q = new THEN Objects ELSE slab_list[q]]
<1>1. TypeOK /\ Sound /\ Balance
  BY DEF Inv
<1>2. live /\ nrfree = 0 /\ new \notin mapped /\ live' = live
      /\ mapped' = mapped \cup {new} /\ nrpage' = nrpage + 1
  BY DEF AllocNewPage
<1>3. In("partial") = {} /\ In("free") = {}
  BY <1>1, <1>2, NoneLeft
<1>4. TakeFrom(new, fr, ls, NrSize)
  <2>1. NrSize \in Int /\ 0 + NrSize = NrSize
    BY DEF SlabAssumption
  <2>2. \E p \in {new} : TakeFrom(p, fr, ls, 0 + NrSize)
    BY <1>2, <1>3 DEF AllocNewPage
  <2> QED
    BY <2>1, <2>2
<1>5. /\ list \in [Pages -> Names] /\ slab_list \in [Pages -> SUBSET Objects]
      /\ used \in [Pages -> Nat]
      /\ nralloc \in Int /\ nrpage \in Int /\ NrSize \in Int
      /\ nralloc = Cardinality(held)
  BY <1>1 DEF TypeOK, Balance, SlabAssumption
<1>6. list[new] = "none" /\ used[new] = 0 /\ HeldOf(new) = {}
  BY <1>1, <1>2 DEF Sound, PageSound
<1>7. \A q \in Pages : PageSound(ls[q], used[q], fr[q], HeldOf(q))
  <2>1. PageSound("free", 0, Objects, {})
    BY FS_EmptySet DEF PageSound
  <2>2. ASSUME NEW q \in Pages, q # new
        PROVE  PageSound(ls[q], used[q], fr[q], HeldOf(q))
    BY <1>1, <2>2 DEF Sound
  <2> QED
    BY <1>6, <2>1, <2>2
<1>8. ls \in [Pages -> Names] /\ fr \in [Pages -> SUBSET Objects] /\ ls[new] # "none"
  BY <1>5 DEF Names
<1>9. \A q \in Pages \ {new} : ls[q] = list[q]
  OBVIOUS
<1> HIDE DEF ls, fr
<1>10. /\ list' \in [Pages -> Names] /\ used' \in [Pages -> Nat]
       /\ slab_list' \in [Pages -> SUBSET Objects]
       /\ held' \in SUBSET (Pages \X Objects) /\ held' # {}
       /\ \A q \in Pages : PageSound(list'[q], used'[q], slab_list'[q], HeldOf(q)')
       /\ \A q \in Pages \ {new} : list'[q] = list[q] /\ used'[q] = used[q]
       /\ list'[new] \in {"partial", "full"}
       /\ nralloc' = nralloc + 1 /\ nralloc' = Cardinality(held')
       /\ nrfree' = NrSize - 1
  BY <1>1, <1>4, <1>5, <1>7, <1>8, <1>9, TakeKeeps
<1>11. TypeOK'
  <2>1. nralloc' \in Int /\ nrfree' \in Int /\ nrpage' \in Int
    BY <1>2, <1>5, <1>10
  <2>2. mapped' \in SUBSET Pages /\ live' \in BOOLEAN
    BY <1>1, <1>2 DEF TypeOK
  <2> QED
    BY <1>10, <2>1, <2>2 DEF TypeOK
<1>12. Sound'
  <2>1. ASSUME NEW q \in Pages
        PROVE  /\ list'[q] # "none" => q \in mapped'
               /\ q \notin mapped' => used'[q] = 0
    BY <1>1, <1>2, <1>10 DEF Sound
  <2> QED
    BY <1>10, <2>1 DEF Sound
<1>13. Balance'
  <2>1. Pages \ In("none")' = (Pages \ In("none")) \cup {new}
    BY <1>5, <1>10 DEF In
  <2>2. new \notin Pages \ In("none") /\ IsFiniteSet(Pages \ In("none"))
    <3>1. (Pages \ In("none")) \in SUBSET Pages
      OBVIOUS
    <3> QED
      BY <1>6, <3>1, PagesCounted DEF In
  <2>3. nrpage' = Cardinality(Pages \ In("none")')
    BY <1>1, <1>2, <2>1, <2>2, FS_AddElement DEF Balance
  <2>4. nrfree' = NrSize * nrpage' - nralloc'
    <3> DEFINE all == NrSize * nrpage
    <3>1. all \in Int /\ 0 = all - nralloc
      BY <1>1, <1>2, <1>5 DEF Balance
    <3>2. NrSize * nrpage' = all + NrSize
      BY <1>2, <1>5
    <3> HIDE DEF all
    <3> QED
      BY <1>5, <1>10, <3>1, <3>2
  <2> QED
    BY <1>10, <2>3, <2>4 DEF Balance
<1>14. EmptyPagesBounded'
  <2>1. In("free")' = {}
    BY <1>3, <1>10 DEF In
  <2>2. PAGE_FREE \in Nat
    BY DEF SlabAssumption
  <2> QED
    BY <2>1, <2>2, FS_EmptySet DEF EmptyPagesBounded
<1>15. NothingKept'
  BY <1>2 DEF NothingKept
<1> QED
  BY <1>11, <1>12, <1>13, <1>14, <1>15 DEF Inv

LEMMA FreeStep ==
    ASSUME SlabAssumption, Inv, NEW p \in Pages, NEW o \in Objects, Free(p, o)
    PROVE  Inv'
<1> DEFINE ls == [list EXCEPT ![p] = ListAfter(p)]
           empty == {q \in Pages : ls[q] = "free"}
           excess == IF used[p] = 1 THEN Excess(Cardinality(empty)) ELSE 0
           us == [used EXCEPT ![p] = used[p] - 1]
           fr == [slab_list EXCEPT ![p] = slab_list[p] \cup {o}]
           h == [q \in Pages |-> HeldOf(q)']
<1>1. TypeOK /\ Sound /\ Balance /\ EmptyPagesBounded
  BY DEF Inv
<1>2. /\ live /\ live' = live /\ <<p, o>> \in held /\ held' = held \ {<<p, o>>}
      /\ slab_list' = fr /\ used' = us /\ nralloc' = nralloc - 1
  BY DEF Free
<1>3. PICK gone \in kSubset(excess, empty) : release(gone, ls, nrfree + 1)
  BY DEF Free
<1>4. /\ gone \in SUBSET empty /\ Cardinality(gone) = excess
      /\ list' = [q \in Pages |-> IF q \in gone THEN "none" ELSE ls[q]]
      /\ nrpage' = nrpage - Cardinality(gone)
      /\ nrfree' = (nrfree + 1) - NrSize * Cardinality(gone)
      /\ mapped' = mapped
  <2> HIDE DEF ls, empty, excess
  <2>1. gone \in SUBSET empty /\ Cardinality(gone) = excess
    BY <1>3 DEF kSubset
  <2>2. release(gone, ls, nrfree + 1)
    BY <1>3
  <2>3. /\ list' = [q \in Pages |-> IF q \in gone THEN "none" ELSE ls[q]]
        /\ nrpage' = nrpage - Cardinality(gone)
        /\ nrfree' = (nrfree + 1) - NrSize * Cardinality(gone)
        /\ mapped' = mapped
    BY <2>2 DEF release, Uncounted
  <2> QED
    BY <2>1, <2>3
<1>5. /\ list \in [Pages -> Names] /\ used \in [Pages -> Nat]
      /\ slab_list \in [Pages -> SUBSET Objects]
      /\ held \in SUBSET (Pages \X Objects)
      /\ nralloc \in Int /\ nrpage \in Int /\ nrfree \in Int /\ NrSize \in Int
      /\ PAGE_THRESHOLD \in Int /\ PAGE_FREE \in Int
  BY <1>1 DEF TypeOK, SlabAssumption
<1>6. /\ PageSound(list[p], used[p], slab_list[p], HeldOf(p)) /\ o \in HeldOf(p)
      /\ list[p] \in Names /\ used[p] \in Nat /\ HeldOf(p) \in SUBSET Objects
  BY <1>1, <1>2, <1>5 DEF Sound, HeldOf
<1>7. /\ PageSound(ListAfter(p), used[p] - 1, slab_list[p] \cup {o}, HeldOf(p) \ {o})
      /\ used[p] - 1 \in Nat /\ ListAfter(p) \in Names /\ ListAfter(p) # "none"
      /\ list[p] # "none" /\ list[p] # "free"
      /\ ListAfter(p) = "free" <=> used[p] = 1
  BY <1>6, OneLess DEF ListAfter
<1>8. /\ HeldOf(p)' = HeldOf(p) \ {o} /\ \A q \in Pages \ {p} : HeldOf(q)' = HeldOf(q)
      /\ h \in [Pages -> SUBSET Objects]
  BY <1>2 DEF HeldOf
<1>9. /\ ls \in [Pages -> Names] /\ us \in [Pages -> Nat]
      /\ fr \in [Pages -> SUBSET Objects] /\ ls[p] = ListAfter(p)
      /\ \A q \in Pages \ {p} : ls[q] = list[q] /\ us[q] = used[q]
  BY <1>5, <1>7
<1>10. \A q \in Pages : PageSound(ls[q], us[q], fr[q], h[q])
  <2>1. PageSound(ls[p], us[p], fr[p], h[p])
    BY <1>5, <1>7, <1>8
  <2>2. ASSUME NEW q \in Pages \ {p}
        PROVE  PageSound(ls[q], us[q], fr[q], h[q])
    BY <1>1, <1>5, <1>8 DEF Sound
  <2> QED
    BY <2>1, <2>2
<1>11. \A q \in Pages : h[q] = HeldOf(q)'
  OBVIOUS
<1>12. {q \in Pages : ls[q] # "none"} = Pages \ In("none")
  BY <1>5, <1>7, <1>9 DEF In
<1>13. /\ used[p] = 1 => excess = Excess(Cardinality(empty))
       /\ used[p] # 1 => excess = 0
       /\ used[p] # 1 => empty = In("free")
  BY <1>5, <1>7, <1>9 DEF In
<1> HIDE DEF ls, us, fr, h, excess
<1>14. /\ list' \in [Pages -> Names]
       /\ \A q \in Pages : PageSound(list'[q], us[q], fr[q], h[q])
       /\ \A q \in Pages : list'[q] # "none" => ls[q] # "none"
       /\ Cardinality(gone) \in Nat
       /\ Cardinality({q \in Pages : list'[q] # "none"})
              = Cardinality({q \in Pages : ls[q] # "none"}) - Cardinality(gone)
       /\ Cardinality({q \in Pages : list'[q] = "free"})
              = Cardinality({q \in Pages : ls[q] = "free"}) - Cardinality(gone)
  <2>1. gone \in SUBSET {q \in Pages : ls[q] = "free"}
    BY <1>4
  <2>2. list' = [q \in Pages |-> IF q \in gone THEN "none" ELSE ls[q]]
    BY <1>4
  <2> HIDE DEF empty
  <2>3. /\ ls \in [Pages -> Names] /\ us \in [Pages -> Nat]
        /\ h \in [Pages -> SUBSET Objects]
    BY <1>8, <1>9
  <2> QED
    BY <1>10, <2>1, <2>2, <2>3, ReleaseKeeps, ZenonT(40)
<1>15. TypeOK'
  <2>1. /\ nralloc' \in Int /\ nrpage' \in Int /\ live' \in BOOLEAN
        /\ mapped' \in SUBSET Pages /\ held' \in SUBSET (Pages \X Objects)
    BY <1>1, <1>2, <1>4, <1>5, <1>14 DEF TypeOK
  <2>2. nrfree' \in Int
    BY <1>4, <1>5, <1>14
  <2> QED
    BY <1>2, <1>9, <1>14, <2>1, <2>2 DEF TypeOK
<1>16. Sound'
  <2>1. ASSUME NEW q \in Pages
        PROVE  /\ list'[q] # "none" => q \in mapped'
               /\ q \notin mapped' => used'[q] = 0
    <3>1. CASE q = p
      BY <1>1, <1>4, <1>7, <3>1 DEF Sound
    <3>2. CASE q # p
      BY <1>1, <1>2, <1>4, <1>9, <1>14, <3>2 DEF Sound
    <3> QED
      BY <3>1, <3>2
  <2> QED
    BY <1>2, <1>11, <1>14, <2>1 DEF Sound
<1>17. Balance'
  <2>1. Pages \ In("none")' = {q \in Pages : list'[q] # "none"}
    BY DEF In
  <2>2. nrpage' = Cardinality(Pages \ In("none")')
    BY <1>1, <1>4, <1>12, <1>14, <2>1 DEF Balance
  <2>3. nralloc' = Cardinality(held')
    BY <1>1, <1>2, HeldFinite, FS_RemoveElement DEF Balance
  <2>4. nrfree' = NrSize * nrpage' - nralloc'
    <3> DEFINE all == NrSize * nrpage
               out == NrSize * Cardinality(gone)
    <3>1. all \in Int /\ out \in Int /\ nrfree = all - nralloc
      BY <1>1, <1>5, <1>14 DEF Balance
    <3>2. NrSize * nrpage' = all - out
      BY <1>4, <1>5, <1>14
    <3>3. nrfree' = (nrfree + 1) - out
      BY <1>4
    <3> HIDE DEF all, out
    <3> QED
      BY <1>2, <1>5, <3>1, <3>2, <3>3
  <2> QED
    BY <2>2, <2>3, <2>4 DEF Balance
<1>18. EmptyPagesBounded'
  <2>1. In("free")' = {q \in Pages : list'[q] = "free"}
    BY DEF In
  <2>2. /\ Cardinality(In("free")') = Cardinality(empty) - excess
        /\ nrpage' = nrpage - excess
    BY <1>4, <1>14, <2>1
  <2>3. Cardinality(empty) \in Nat /\ excess \in Nat
    <3>1. empty \in SUBSET Pages
      OBVIOUS
    <3> QED
      BY <1>4, <1>14, <3>1, PagesCounted
  <2> HIDE DEF empty
  <2>4. CASE used[p] = 1
    <3>1. excess = IF nrpage < PAGE_THRESHOLD THEN 0
                   ELSE IF Cardinality(empty) > PAGE_FREE
                        THEN Cardinality(empty) - PAGE_FREE ELSE 0
      BY <1>13, <2>4 DEF Excess
    <3> QED
      BY <1>5, <2>2, <2>3, <3>1 DEF EmptyPagesBounded
  <2>5. CASE used[p] # 1
    BY <1>1, <1>5, <1>13, <2>2, <2>3, <2>5 DEF EmptyPagesBounded
  <2> QED
    BY <2>4, <2>5
<1>19. NothingKept'
  BY <1>2 DEF NothingKept
<1> QED
  BY <1>15, <1>16, <1>17, <1>18, <1>19 DEF Inv

LEMMA DestroyStep ==
    ASSUME SlabAssumption, Inv, Destroy
    PROVE  Inv'
<1> DEFINE h == [q \in Pages |-> HeldOf(q)]
<1>1. TypeOK /\ Sound /\ Balance /\ EmptyPagesBounded
  BY DEF Inv
<1>2. /\ live' = FALSE /\ UNCHANGED <<used, slab_list, nralloc, held>>
      /\ \A q \in Pages : HeldOf(q)' = HeldOf(q)
  BY DEF Destroy, HeldOf
<1>3. /\ list \in [Pages -> Names] /\ used \in [Pages -> Nat]
      /\ nralloc \in Int /\ nrpage \in Int /\ nrfree \in Int /\ NrSize \in Int
      /\ PAGE_THRESHOLD \in Nat \ {0}
  BY <1>1 DEF TypeOK, SlabAssumption
<1>4. CASE nralloc # 0
  <2>1. UNCHANGED <<list, nrpage, nrfree, mapped>>
    BY <1>4 DEF Destroy
  <2>2. TypeOK' /\ Sound' /\ Balance' /\ EmptyPagesBounded'
    BY <1>1, <1>2, <2>1 DEF TypeOK, Sound, Balance, EmptyPagesBounded, In
  <2>3. NothingKept'
    BY <1>1, <1>2, <1>4, FS_EmptySet DEF Balance, NothingKept
  <2> QED
    BY <2>2, <2>3 DEF Inv
<1>5. CASE nralloc = 0
  <2> DEFINE gone == In("free")
  <2>1. /\ list' = [q \in Pages |-> IF q \in gone THEN "none" ELSE list[q]]
        /\ nrpage' = nrpage - Cardinality(gone)
        /\ nrfree' = nrfree - NrSize * Cardinality(gone) /\ mapped' = mapped
    BY <1>5 DEF Destroy, release, Uncounted, ReleasedAtEnd
  <2>2. held = {}
    BY <1>1, <1>5, HeldFinite DEF Balance
  <2>3. /\ h \in [Pages -> SUBSET Objects]
        /\ \A q \in Pages : PageSound(list[q], used[q], slab_list[q], h[q])
        /\ gone \in SUBSET {q \in Pages : list[q] = "free"}
        /\ {q \in Pages : list[q] # "none"} = Pages \ In("none")
        /\ {q \in Pages : list'[q] # "none"} = Pages \ In("none")'
    BY <1>1 DEF Sound, HeldOf, In
  <2>4. \A q \in Pages : list[q] # "none" => list[q] = "free"
    <3>1. ASSUME NEW q \in Pages, list[q] # "none"
          PROVE  list[q] = "free"
      <4>1. HeldOf(q) = {}
        BY <2>2 DEF HeldOf
      <4>2. used[q] = 0
        BY <1>1, <3>1, <4>1, FS_EmptySet DEF Sound, PageSound
      <4> QED
        BY <1>1, <3>1, <4>2 DEF Sound, PageSound
    <3> QED
      BY <3>1
  <2>5. \A q \in Pages : list'[q] = "none"
    BY <2>1, <2>4 DEF In
  <2> HIDE DEF h
  <2>6. /\ list' \in [Pages -> Names]
        /\ \A q \in Pages : PageSound(list'[q], used[q], slab_list[q], h[q])
        /\ \A q \in Pages : list'[q] # "none" => list[q] # "none"
        /\ Cardinality(gone) \in Nat
        /\ Cardinality({q \in Pages : list'[q] # "none"})
              = Cardinality({q \in Pages : list[q] # "none"}) - Cardinality(gone)
    <3>1. /\ gone \in SUBSET {q \in Pages : list[q] = "free"}
          /\ list' = [q \in Pages |-> IF q \in gone THEN "none" ELSE list[q]]
      BY <2>1, <2>3
    <3> HIDE DEF gone
    <3>2. /\ list \in [Pages -> Names] /\ used \in [Pages -> Nat]
          /\ h \in [Pages -> SUBSET Objects]
          /\ \A q \in Pages : PageSound(list[q], used[q], slab_list[q], h[q])
      BY <1>3, <2>3
    <3> DEFINE fr == slab_list
    <3>3. \A q \in Pages : PageSound(list[q], used[q], fr[q], h[q])
      BY <3>2
    <3> HIDE DEF fr
    <3>4. /\ list' \in [Pages -> Names]
          /\ \A q \in Pages : PageSound(list'[q], used[q], fr[q], h[q])
          /\ \A q \in Pages : list'[q] # "none" => list[q] # "none"
          /\ Cardinality(gone) \in Nat
          /\ Cardinality({q \in Pages : list'[q] # "none"})
                = Cardinality({q \in Pages : list[q] # "none"}) - Cardinality(gone)
          /\ Cardinality({q \in Pages : list'[q] = "free"})
                = Cardinality({q \in Pages : list[q] = "free"}) - Cardinality(gone)
      BY <3>1, <3>2, <3>3, ReleaseKeeps, ZenonT(60)
    <3> QED
      BY <3>4 DEF fr
  <2>7. TypeOK'
    <3>1. nrpage' \in Int /\ nrfree' \in Int
      BY <1>3, <2>1, <2>6
    <3> QED
      BY <1>1, <1>2, <2>1, <2>6, <3>1 DEF TypeOK
  <2>8. Sound'
    BY <1>1, <1>2, <2>1, <2>2, <2>5 DEF Sound, PageSound, HeldOf
  <2>9. nrpage' = Cardinality(Pages \ In("none")') /\ nrpage' = 0
    <3>1. nrpage' = Cardinality(Pages \ In("none")')
      BY <1>1, <2>1, <2>3, <2>6 DEF Balance
    <3>2. Pages \ In("none")' = {}
      BY <2>5 DEF In
    <3> QED
      BY <3>1, <3>2, FS_EmptySet
  <2>10. Balance'
    <3> DEFINE all == NrSize * nrpage
               out == NrSize * Cardinality(gone)
    <3>1. all \in Int /\ out \in Int /\ nrfree = all - nralloc
      BY <1>1, <1>3, <2>6 DEF Balance
    <3>2. NrSize * nrpage' = all - out
      BY <1>3, <2>1, <2>6
    <3>3. nrfree' = nrfree - out
      BY <2>1
    <3> HIDE DEF all, out
    <3>4. nrfree' = NrSize * nrpage' - nralloc'
      BY <1>2, <1>3, <3>1, <3>2, <3>3
    <3>5. nralloc' = Cardinality(held')
      BY <1>1, <1>2 DEF Balance
    <3> QED
      BY <2>9, <3>4, <3>5 DEF Balance
  <2>11. EmptyPagesBounded' /\ NothingKept'
    BY <1>3, <2>9 DEF EmptyPagesBounded, NothingKept
  <2> QED
    BY <2>7, <2>8, <2>10, <2>11 DEF Inv
<1> QED
  BY <1>4, <1>5

LEMMA InitInv ==
    ASSUME SlabAssumption, Init
    PROVE  Inv
<1>1. PICK first \in {{}} \cup {{q} : q \in Pages} :
        /\ mapped = first
        /\ list = [q \in Pages |-> IF q \in first THEN "free" ELSE "none"]
        /\ used = [q \in Pages |-> 0]
        /\ slab_list = [q \in Pages |-> IF q \in first THEN Objects ELSE {}]
        /\ nrfree = NrSize * Cardinality(first)
        /\ nralloc = 0 /\ nrpage = Cardinality(first)
        /\ held = {} /\ live = TRUE
  BY DEF Init
<1>2. first \in SUBSET Pages /\ Cardinality(first) \in Nat
      /\ \/ first = {} /\ Cardinality(first) = 0
         \/ Cardinality(first) = 1
  <2>1. CASE first = {}
    BY <2>1, FS_EmptySet
  <2>2. CASE first # {}
    <3>1. PICK q \in Pages : first = {q}
      BY <2>2
    <3>2. Cardinality({q}) = 1
      BY FS_Singleton, Zenon
    <3> QED
      BY <3>1, <3>2
  <2> QED
    BY <2>1, <2>2
<1>3. NrSize \in Int /\ NrSize * Cardinality(first) \in Int
  BY <1>2 DEF SlabAssumption
<1>4. TypeOK
  BY <1>1, <1>2, <1>3 DEF TypeOK, Names
<1>5. Sound
  <2>1. \A q \in Pages : HeldOf(q) = {}
    BY <1>1 DEF HeldOf
  <2>2. PageSound("free", 0, Objects, {}) /\ PageSound("none", 0, {}, {})
    BY FS_EmptySet DEF PageSound
  <2> QED
    BY <1>1, <2>1, <2>2 DEF Sound
<1>6. Balance
  <2>1. Pages \ In("none") = first
    BY <1>1, <1>2 DEF In
  <2>2. nrfree = NrSize * nrpage - nralloc
    <3> DEFINE all == NrSize * nrpage
    <3>1. nrfree = all /\ all \in Int /\ nralloc = 0
      BY <1>1, <1>3
    <3> HIDE DEF all
    <3>2. nrfree = all - nralloc
      BY <3>1
    <3> QED
      BY <3>2 DEF all
  <2>3. nrpage = Cardinality(first) /\ nralloc = Cardinality(held)
    BY <1>1, FS_EmptySet
  <2> QED
    BY <2>1, <2>2, <2>3 DEF Balance
<1>7. EmptyPagesBounded
  <2>1. In("free") = first
    BY <1>1, <1>2 DEF In
  <2>2. /\ PAGE_FREE \in Nat /\ PAGE_THRESHOLD \in Nat
        /\ PAGE_THRESHOLD # 0 /\ PAGE_THRESHOLD # 1
    BY DEF SlabAssumption
  <2> QED
    BY <1>1, <1>2, <2>1, <2>2 DEF EmptyPagesBounded
<1> QED
  BY <1>1, <1>4, <1>5, <1>6, <1>7 DEF Inv, NothingKept

\* Every step keeps the invariant.
LEMMA NextInv ==
    ASSUME SlabAssumption, Inv, [Next]_vars
    PROVE  Inv'
<1>1. ASSUME NEW p \in Pages, AllocPartial(p)
      PROVE  Inv'
  <2>1. /\ list[p] \in {"partial", "free"} /\ live
        /\ TakeFrom(p, slab_list, list, nrfree) /\ UNCHANGED <<mapped, nrpage, live>>
    BY <1>1 DEF AllocPartial, In
  <2> QED
    BY <2>1, TakeStep
<1>2. ASSUME NEW p \in Pages, AllocFree(p)
      PROVE  Inv'
  <2>1. /\ list[p] \in {"partial", "free"} /\ live
        /\ TakeFrom(p, slab_list, list, nrfree) /\ UNCHANGED <<mapped, nrpage, live>>
    BY <1>2 DEF AllocFree, In
  <2> QED
    BY <2>1, TakeStep
<1>3. ASSUME NEW p \in Pages, AllocNewPage(p)
      PROVE  Inv'
  BY <1>3, NewPageStep
<1>4. ASSUME NEW p \in Pages, NEW o \in Objects, Free(p, o)
      PROVE  Inv'
  BY <1>4, FreeStep
<1>5. CASE Destroy
  BY <1>5, DestroyStep
<1>6. CASE UNCHANGED vars
  BY <1>6 DEF vars, Inv, TypeOK, Sound, PageSound, HeldOf, Balance, In,
              EmptyPagesBounded, NothingKept
<1> QED
  BY <1>1, <1>2, <1>3, <1>4, <1>5, <1>6 DEF Next

\* The inductive invariant holds from umem_cache_create on, whatever the program
\* allocates and frees and whichever page of a list comes first.
THEOREM Invariance ==
    ASSUME SlabAssumption
    PROVE  Spec => []Inv
<1>1. Init => Inv
  BY InitInv
<1>2. Inv /\ [Next]_vars => Inv'
  BY NextInv
<1> QED
  BY <1>1, <1>2, PTL DEF Spec

-----------------------------------------------------------------------------
(* The sum that CountersAgree takes over the lists.  It is defined by      *)
(* recursion on the set of pages; counting the objects on the lists of a   *)
(* set of pages satisfies the same recursion, so the two are equal, for a  *)
(* smallest set on which they differed would not be one.                   *)

FreeOf(S) == {x \in S \X Objects : x[2] \in slab_list[x[1]]}

\* A page's list counts for itself.
LEMMA FreeOfOneMore ==
    ASSUME SlabAssumption, TypeOK, NEW S \in SUBSET Pages, NEW p \in S
    PROVE  /\ Cardinality(FreeOf(S)) = Cardinality(slab_list[p]) + Cardinality(FreeOf(S \ {p}))
           /\ Cardinality(FreeOf(S)) \in Nat
<1>1. IsFiniteSet(S) /\ IsFiniteSet(Objects) /\ IsFiniteSet(slab_list[p])
  BY PagesCounted, ObjectsCounted DEF TypeOK
<1>2. IsFiniteSet(S \X Objects) /\ FreeOf(S) \in SUBSET (S \X Objects)
      /\ FreeOf(S \ {p}) \in SUBSET (S \X Objects)
  BY <1>1, FS_Product DEF FreeOf
<1>3. IsFiniteSet(FreeOf(S)) /\ IsFiniteSet(FreeOf(S \ {p}))
  BY <1>2, FS_Subset
<1> DEFINE mine == {p} \X slab_list[p]
<1>4. IsFiniteSet(mine) /\ Cardinality(mine) = Cardinality(slab_list[p])
  <2>1. IsFiniteSet({p}) /\ Cardinality({p}) = 1
    BY FS_Singleton, Zenon
  <2>2. IsFiniteSet(mine) /\ Cardinality(mine) = 1 * Cardinality(slab_list[p])
    BY <1>1, <2>1, FS_Product
  <2>3. Cardinality(slab_list[p]) \in Nat
    BY <1>1, FS_CardinalityType
  <2> QED
    BY <2>2, <2>3
<1>5. slab_list[p] \subseteq Objects
  BY DEF TypeOK
<1>6. FreeOf(S) = FreeOf(S \ {p}) \cup mine /\ FreeOf(S \ {p}) \cap mine = {}
  <2>1. ASSUME NEW x \in FreeOf(S), x \notin FreeOf(S \ {p})
        PROVE  x \in mine
    BY <2>1 DEF FreeOf
  <2>2. ASSUME NEW x \in mine
        PROVE  x \in FreeOf(S) /\ x \notin FreeOf(S \ {p})
    BY <1>5 DEF FreeOf
  <2>3. FreeOf(S \ {p}) \subseteq FreeOf(S)
    BY DEF FreeOf
  <2> HIDE DEF mine
  <2> QED
    BY <2>1, <2>2, <2>3
<1> HIDE DEF mine
<1>7. Cardinality(FreeOf(S))
         = Cardinality(FreeOf(S \ {p})) + Cardinality(mine) - Cardinality({})
  <2> DEFINE rest == FreeOf(S \ {p})
  <2>1. IsFiniteSet(rest) /\ IsFiniteSet(mine) /\ FreeOf(S) = rest \cup mine
        /\ rest \cap mine = {}
    BY <1>3, <1>4, <1>6
  <2> HIDE DEF rest
  <2>2. Cardinality(rest \cup mine)
           = Cardinality(rest) + Cardinality(mine) - Cardinality(rest \cap mine)
    BY <2>1, FS_Union, Zenon
  <2>3. Cardinality(FreeOf(S)) = Cardinality(rest) + Cardinality(mine) - Cardinality({})
    BY <2>1, <2>2, Zenon
  <2> QED
    BY <2>3 DEF rest
<1>8. /\ Cardinality(mine) \in Nat /\ Cardinality(FreeOf(S \ {p})) \in Nat
      /\ Cardinality(FreeOf(S)) \in Nat
  BY <1>3, <1>4, FS_CardinalityType
<1> QED
  BY <1>4, <1>7, <1>8, FS_EmptySet

LEMMA SumOfLists ==
    ASSUME SlabAssumption, TypeOK, NEW S \in SUBSET Pages
    PROVE  MapThenSumSet(LAMBDA p : Cardinality(slab_list[p]), S) = Cardinality(FreeOf(S))
<1> DEFINE Step(f, s) == IF s = {} THEN 0
                         ELSE Cardinality(slab_list[CHOOSE x \in s : TRUE])
                                + f[s \ {CHOOSE x \in s : TRUE}]
           sum == CHOOSE f : f = [s \in SUBSET S |-> Step(f, s)]
           count == [s \in SUBSET S |-> Cardinality(FreeOf(s))]
<1>1. MapThenSumSet(LAMBDA p : Cardinality(slab_list[p]), S) = sum[S]
  BY Zenon DEF MapThenSumSet, MapThenFoldSet
<1>2. ASSUME NEW s \in SUBSET S, s # {}
      PROVE  /\ (CHOOSE x \in s : TRUE) \in s
             /\ Cardinality(FreeOf(s)) = Step(count, s)
  <2>1. (CHOOSE x \in s : TRUE) \in s
    BY <1>2
  <2> DEFINE x == CHOOSE y \in s : TRUE
  <2>2. x \in s /\ s \in SUBSET Pages /\ s \ {x} \in SUBSET S
    BY <2>1
  <2>3. count[s \ {x}] = Cardinality(FreeOf(s \ {x}))
    BY <2>2
  <2> HIDE DEF x, count
  <2>4. Cardinality(FreeOf(s)) = Cardinality(slab_list[x]) + count[s \ {x}]
    BY <2>2, <2>3, FreeOfOneMore
  <2>5. Cardinality(FreeOf(s)) = Step(count, s)
    BY <1>2, <2>4 DEF x
  <2> QED
    BY <2>1, <2>5
<1>3. Cardinality(FreeOf({})) = 0
  <2>1. FreeOf({}) = {}
    BY DEF FreeOf
  <2> QED
    BY <2>1, FS_EmptySet
<1>4. \A s \in SUBSET S : count[s] = Step(count, s)
  <2>1. ASSUME NEW s \in SUBSET S
        PROVE  count[s] = Step(count, s)
    <3>1. count[s] = Cardinality(FreeOf(s))
      OBVIOUS
    <3> HIDE DEF count
    <3>2. CASE s = {}
      BY <1>3, <3>1, <3>2
    <3>3. CASE s # {}
      BY <1>2, <3>1, <3>3
    <3> QED
      BY <3>2, <3>3
  <2> QED
    BY <2>1
<1>5. sum = [s \in SUBSET S |-> Step(sum, s)]
  <2> DEFINE Rec(f) == f = [s \in SUBSET S |-> Step(f, s)]
  <2>1. Rec(count)
    <3>1. count = [s \in SUBSET S |-> count[s]]
      OBVIOUS
    <3> HIDE DEF count
    <3>2. [s \in SUBSET S |-> count[s]] = [s \in SUBSET S |-> Step(count, s)]
      BY <1>4
    <3> QED
      BY <3>1, <3>2
  <2>2. sum = CHOOSE f : Rec(f)
    OBVIOUS
  <2> HIDE DEF Rec, sum, count
  <2>3. Rec(sum)
    BY <2>1, <2>2
  <2> QED
    BY <2>3 DEF Rec
<1>6. \A s \in SUBSET S : sum[s] = Step(sum, s)
  BY <1>5
<1>7. \A s \in SUBSET S : count[s] = Cardinality(FreeOf(s))
  OBVIOUS
<1> HIDE DEF sum, count
<1> DEFINE differ == {s \in SUBSET S : sum[s] # count[s]}
<1>8. ASSUME NEW s \in differ, \A r \in differ : ~ (r \subseteq s /\ r # s)
      PROVE  FALSE
  <2>1. s # {}
    BY <1>4, <1>6
  <2> DEFINE x == CHOOSE y \in s : TRUE
  <2>2. x \in s /\ s \in SUBSET S
    BY <2>1, <1>2
  <2>3. s \ {x} \subseteq s /\ s \ {x} # s /\ s \ {x} \in SUBSET S
    BY <2>2
  <2>4. sum[s \ {x}] = count[s \ {x}]
    BY <1>8, <2>3
  <2>5. sum[s] = count[s]
    BY <1>4, <1>6, <2>1, <2>2, <2>4
  <2> QED
    BY <2>5
<1>9. differ = {}
  <2>1. IsFiniteSet(S)
    BY PagesCounted
  <2>2. IsWellFoundedOn(StrictSubsetOrdering(S), SUBSET S)
    BY <2>1, FS_StrictSubsetOrderingWellFounded, FS_FiniteSubsetsOfFinite
  <2>3. SUFFICES ASSUME differ # {}
                 PROVE  FALSE
    OBVIOUS
  <2>4. differ \subseteq SUBSET S
    OBVIOUS
  <2>5. PICK s \in differ : \A r \in differ : ~ (<<r, s>> \in StrictSubsetOrdering(S))
    <3> HIDE DEF differ
    <3> QED
      BY <2>2, <2>3, <2>4, WFMin
  <2>6. \A r \in differ : ~ (r \subseteq s /\ r # s)
    BY <2>4, <2>5 DEF StrictSubsetOrdering
  <2> QED
    BY <1>8, <2>6
<1>10. sum[S] = count[S]
  BY <1>9
<1> QED
  BY <1>1, <1>7, <1>10

-----------------------------------------------------------------------------
(* What the allocator promises. *)

\* No object is handed out twice, for any sequence of allocations and frees: an
\* object that the program holds is on no list of free objects.
THEOREM GivenOnce ==
    ASSUME SlabAssumption
    PROVE  Spec => []HandedOutOnce
<1>1. Inv => HandedOutOnce
  <2> SUFFICES ASSUME Inv
               PROVE  HandedOutOnce
    OBVIOUS
  <2>1. TypeOK /\ Sound
    BY DEF Inv
  <2>2. ASSUME NEW p \in Pages, NEW o \in Objects
        PROVE  IF list[p] = "none" THEN <<p, o>> \notin held
               ELSE <<p, o>> \in held <=> o \notin slab_list[p]
    <3>1. o \in HeldOf(p) <=> <<p, o>> \in held
      BY DEF HeldOf
    <3> QED
      BY <2>1, <3>1 DEF Sound, PageSound
  <2> QED
    BY <2>1, <2>2 DEF HandedOutOnce, Sound
<1> QED
  BY <1>1, Invariance, PTL

\* A slab's count is that of its objects in use, and says which list it is in.
THEOREM ListsFollowUse ==
    ASSUME SlabAssumption
    PROVE  Spec => []ListedByUse
<1>1. Inv => ListedByUse
  BY DEF Inv, Sound, PageSound, HeldOf, ListedByUse
<1> QED
  BY <1>1, Invariance, PTL

\* The counters are those of the lists: nrfree, which alone decides whether a
\* page is asked for, is the number of objects on the slabs' lists.
THEOREM CountersHold ==
    ASSUME SlabAssumption
    PROVE  Spec => []CountersAgree
<1>1. Inv => CountersAgree
  <2> SUFFICES ASSUME Inv
               PROVE  CountersAgree
    OBVIOUS
  <2> DEFINE Cached == Pages \ In("none")
  <2>1. TypeOK /\ Sound /\ Balance
    BY DEF Inv
  <2>2. Cached \in SUBSET Pages
    OBVIOUS
  <2>3. MapThenSumSet(LAMBDA p : Cardinality(slab_list[p]), Cached)
           = Cardinality(FreeOf(Cached))
    BY <2>1, <2>2, SumOfLists
  <2>4. FreeOf(Cached) = (Cached \X Objects) \ held
    <3>1. ASSUME NEW x \in Cached \X Objects
          PROVE  x \in FreeOf(Cached) <=> x \notin held
      <4>1. PICK p \in Cached, o \in Objects : x = <<p, o>>
        OBVIOUS
      <4>2. p \in Pages /\ list[p] # "none"
        BY DEF In
      <4>3. slab_list[p] = Objects \ HeldOf(p)
        BY <2>1, <4>2 DEF Sound, PageSound
      <4> QED
        BY <4>1, <4>3 DEF FreeOf, HeldOf
    <3> HIDE DEF Cached
    <3> QED
      BY <3>1 DEF FreeOf
  <2>5. (Cached \X Objects) \cap held = held
    <3>1. ASSUME NEW x \in held
          PROVE  x \in Cached \X Objects
      <4>1. PICK p \in Pages, o \in Objects : x = <<p, o>>
        BY <2>1 DEF TypeOK
      <4>2. HeldOf(p) # {}
        BY <4>1 DEF HeldOf
      <4>3. list[p] # "none"
        BY <2>1, <4>2 DEF Sound, PageSound
      <4> QED
        BY <4>1, <4>3 DEF In
    <3> QED
      BY <3>1
  <2>6. IsFiniteSet(Cached) /\ IsFiniteSet(Objects)
        /\ Cardinality(Cached) = nrpage /\ Cardinality(Objects) = NrSize
        /\ nrpage \in Int /\ NrSize \in Int
    <3>1. IsFiniteSet(Cached)
      BY <2>2, PagesCounted
    <3>2. NrSize \in Nat \ {0} /\ 1 \in Int
      BY DEF SlabAssumption
    <3>3. IsFiniteSet(Objects) /\ Cardinality(Objects) = NrSize
      BY <3>2, FS_Interval DEF Objects
    <3> QED
      BY <2>1, <3>1, <3>2, <3>3 DEF Balance, TypeOK
  <2> HIDE DEF Cached
  <2>7. IsFiniteSet(Cached \X Objects) /\ Cardinality(Cached \X Objects) = nrpage * NrSize
    BY <2>6, FS_Product
  <2>8. Cardinality(FreeOf(Cached)) = nrpage * NrSize - Cardinality(held)
    <3> DEFINE all == Cached \X Objects
    <3>1. IsFiniteSet(all) /\ Cardinality(all) = nrpage * NrSize
          /\ all \cap held = held /\ FreeOf(Cached) = all \ held
      BY <2>4, <2>5, <2>7
    <3> HIDE DEF all
    <3>2. Cardinality(all \ held) = Cardinality(all) - Cardinality(all \cap held)
      BY <3>1, FS_Difference, Zenon
    <3> QED
      BY <3>1, <3>2, Zenon
  <2>9. nrpage * NrSize = NrSize * nrpage
    BY <2>6
  <2>10. nrfree = Cardinality(FreeOf(Cached))
    BY <2>1, <2>8, <2>9 DEF Balance
  <2>11. nrfree = MapThenSumSet(LAMBDA p : Cardinality(slab_list[p]), Pages \ In("none"))
    BY <2>3, <2>10 DEF Cached
  <2> QED
    BY <2>1, <2>11 DEF Balance, CountersAgree
<1> QED
  BY <1>1, Invariance, PTL

\* By the cache's books, pages go back: at most PAGE_FREE are kept empty, and a
\* cache that is destroyed with every object returned counts none.
THEOREM PagesGoBack ==
    ASSUME SlabAssumption
    PROVE  Spec => [](EmptyPagesBounded /\ NothingKept)
<1>1. Inv => EmptyPagesBounded /\ NothingKept
  BY DEF Inv
<1> QED
  BY <1>1, Invariance, PTL
=============================================================================
