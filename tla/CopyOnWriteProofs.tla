------------------------- MODULE CopyOnWriteProofs --------------------------
(* What is proved of module CopyOnWrite, for any number of processes,      *)
(* frames and pages: the reference counts stay exact, IInv of               *)
(* CopyOnWriteInvariant holds in every reachable state, and with it the     *)
(* properties that TLC checks; the page tables implement PrivateMemory.     *)
EXTENDS CopyOnWriteInvariant, FiniteSetTheorems

-----------------------------------------------------------------------------
(* The holders of a frame as finite sets. *)

(* MapRefs, entry by entry. *)
LEMMA MapRefsDef ==
  ASSUME NEW f
  PROVE  /\ MapRefs(f) \subseteq Pgdir \X Page
         /\ \A d \in Pgdir, a \in Page :
              <<d, a>> \in MapRefs(f) <=> pte[d][a] = f /\ ~Pending(d, a)
<1>1. ASSUME NEW d \in Pgdir, NEW a \in Page
      PROVE <<d, a>> \in Uncounted <=> Pending(d, a)
  BY Zenon DEF Uncounted, Pending
<1>2. QED
  BY <1>1, Zenon DEF MapRefs

(* The same membership facts after a step. *)
LEMMA MapRefsDefPrime ==
  ASSUME NEW f
  PROVE  /\ MapRefs(f)' \subseteq Pgdir \X Page
         /\ \A d \in Pgdir, a \in Page :
              <<d, a>> \in MapRefs(f)' <=> pte'[d][a] = f /\ ~Pending(d, a)'
<1>1. ASSUME NEW d \in Pgdir, NEW a \in Page
      PROVE <<d, a>> \in Uncounted' <=> Pending(d, a)'
  BY Zenon DEF Uncounted, Pending
<1>2. QED
  BY <1>1, Zenon DEF MapRefs

(* The sets of holders are finite, and a uint can count them. *)
LEMMA RefsFinite ==
  ASSUME NEW f
  PROVE  /\ IsFiniteSet(MapRefs(f)) /\ Cardinality(MapRefs(f)) \in Nat
         /\ IsFiniteSet(FaultRefs(f)) /\ Cardinality(FaultRefs(f)) \in Nat
         /\ KernelRefs(f) \in 0..2
         /\ Cardinality(MapRefs(f)) + Cardinality(FaultRefs(f)) + KernelRefs(f) < UINT_MAX
         /\ UINT_MAX \in Nat
<1>1. IsFiniteSet(Page) /\ IsFiniteSet(Pgdir) /\ IsFiniteSet(Proc)
  BY FS_Interval, ProcAssumption, MemoryAssumption DEF Page
<1>2. IsFiniteSet(Pgdir \X Page)
  BY <1>1, FS_Product, Zenon
<1>3. MapRefs(f) \subseteq Pgdir \X Page
  BY MapRefsDef, Zenon
<1>4. FaultRefs(f) \subseteq Proc
  BY Zenon DEF FaultRefs
<1>5. /\ IsFiniteSet(MapRefs(f)) /\ Cardinality(MapRefs(f)) \in Nat
      /\ Cardinality(MapRefs(f)) <= Cardinality(Pgdir \X Page)
      /\ Cardinality(Pgdir \X Page) \in Nat
  BY <1>2, <1>3, FS_Subset, FS_CardinalityType, Zenon
<1>6. /\ IsFiniteSet(FaultRefs(f)) /\ Cardinality(FaultRefs(f)) \in Nat
      /\ Cardinality(FaultRefs(f)) <= Cardinality(Proc) /\ Cardinality(Proc) \in Nat
  BY <1>1, <1>4, FS_Subset, FS_CardinalityType, Zenon
<1>7. KernelRefs(f) \in 0..2
  BY DEF KernelRefs
<1>8. QED
  BY <1>5, <1>6, <1>7, CountAssumption

(* Whoever holds a frame keeps its count above zero. *)
LEMMA HolderIsCounted ==
  ASSUME IInv, NEW f \in Frame,
         \/ \E d \in Pgdir, a \in Page : pte[d][a] = f /\ ~Pending(d, a)
         \/ \E p \in Proc : pc[p] \in {"copy", "dec"} /\ fr[p] = f
         \/ f \in kheld
  PROVE  refCount[f] \in 0..UINT_MAX /\ refCount[f] >= 1
<1>1. /\ refCount[f] = Cardinality(MapRefs(f)) + Cardinality(FaultRefs(f)) + KernelRefs(f)
      /\ refCount[f] \in 0..UINT_MAX
  BY FrameTypes, Zenon DEF IInv, CountIsExact
<1>2. CASE \E d \in Pgdir, a \in Page : pte[d][a] = f /\ ~Pending(d, a)
  <2>1. MapRefs(f) # {}
    BY <1>2, MapRefsDef, Zenon
  <2>2. Cardinality(MapRefs(f)) # 0
    BY <2>1, RefsFinite, FS_EmptySet, Zenon
  <2>3. QED
    BY <1>1, <2>2, RefsFinite
<1>3. CASE \E p \in Proc : pc[p] \in {"copy", "dec"} /\ fr[p] = f
  <2>1. FaultRefs(f) # {}
    BY <1>3, Zenon DEF FaultRefs
  <2>2. Cardinality(FaultRefs(f)) # 0
    BY <2>1, RefsFinite, FS_EmptySet, Zenon
  <2>3. QED
    BY <1>1, <2>2, RefsFinite
<1>4. CASE f \in kheld
  <2>1. KernelRefs(f) >= 1
    BY <1>4 DEF KernelRefs
  <2>2. QED
    BY <1>1, <2>1, RefsFinite
<1>5. QED
  BY <1>2, <1>3, <1>4, Zenon

(* Two counted entries that map one frame add two to its count. *)
LEMMA OneCountedEntry ==
  ASSUME IInv, NEW d \in Pgdir, NEW a \in Page, NEW e \in Pgdir, NEW b \in Page,
         NEW f \in Frame, refCount[f] = 1, pte[d][a] = f, pte[e][b] = f,
         ~Pending(d, a), ~Pending(e, b)
  PROVE  e = d /\ b = a
<1>1. <<d, a>> \in MapRefs(f) /\ <<e, b>> \in MapRefs(f)
  BY MapRefsDef, Zenon
<1>2. 1 = Cardinality(MapRefs(f)) + Cardinality(FaultRefs(f)) + KernelRefs(f)
  BY Zenon DEF IInv, CountIsExact
<1>3. Cardinality(MapRefs(f)) # 0
  BY <1>1, RefsFinite, FS_EmptySet, Zenon
<1>4. /\ Cardinality(MapRefs(f)) \in Nat /\ Cardinality(FaultRefs(f)) \in Nat
      /\ KernelRefs(f) \in 0..2
  BY RefsFinite, Zenon
<1>5. Cardinality(MapRefs(f)) = 1
  BY <1>2, <1>3, <1>4
<1>6. \E x : MapRefs(f) = {x}
  BY <1>5, RefsFinite, FS_Singleton, Zenon
<1>7. <<e, b>> = <<d, a>>
  BY <1>1, <1>6
<1>8. QED
  BY <1>7, Zenon

(* So an exact count tells what the proofs about frames use. *)
LEMMA CountsTellHolders ==
  ASSUME IInv
  PROVE  CountsTell
<1>1. ASSUME NEW f \in Frame,
             \/ \E d \in Pgdir, a \in Page : pte[d][a] = f /\ ~Pending(d, a)
             \/ \E p \in Proc : pc[p] \in {"copy", "dec"} /\ fr[p] = f
             \/ f \in kheld
      PROVE  refCount[f] >= 1
  BY <1>1, HolderIsCounted, Zenon
<1>2. ASSUME NEW d \in Pgdir, NEW e \in Pgdir, NEW a \in Page, NEW b \in Page,
             pte[d][a] \in Frame, refCount[pte[d][a]] = 1, pte[e][b] = pte[d][a],
             ~Pending(d, a), ~Pending(e, b)
      PROVE  e = d /\ b = a
  BY <1>2, OneCountedEntry, Zenon
<1>3. QED
  BY <1>1, <1>2, Zenon DEF CountsTell

-----------------------------------------------------------------------------
(* Reference counts. *)

(* The uncounted mappings and the holders in PageFault stay the same. *)
SamePending == \A d \in Pgdir, a \in Page : Pending(d, a)' <=> Pending(d, a)
SameFaults == \A g \in Frame : FaultRefs(g)' = FaultRefs(g)
SameKernel == UNCHANGED <<kheld, lost>>

(* Holders of one frame after a step that adds, removes or keeps one.      *)
LEMMA MapRefsSame ==
  ASSUME NEW g, \A d \in Pgdir, a \in Page :
           pte'[d][a] = g /\ ~Pending(d, a)' <=> pte[d][a] = g /\ ~Pending(d, a)
  PROVE  MapRefs(g)' = MapRefs(g)
<1>1. ASSUME NEW h \in Pgdir \X Page PROVE h \in MapRefs(g)' <=> h \in MapRefs(g)
  <2>1. PICK d \in Pgdir, a \in Page : h = <<d, a>>
    OBVIOUS
  <2>2. QED
    BY <2>1, MapRefsDef, MapRefsDefPrime, Zenon
<1>2. MapRefs(g)' \subseteq Pgdir \X Page /\ MapRefs(g) \subseteq Pgdir \X Page
  BY MapRefsDef, MapRefsDefPrime, Zenon
<1>3. QED
  BY <1>1, <1>2, Zenon

(* Mapping one more counted entry adds one holder. *)
LEMMA MapRefsAdd ==
  ASSUME NEW g, NEW d \in Pgdir, NEW a \in Page,
         \A e \in Pgdir, b \in Page : e # d \/ b # a =>
           (pte'[e][b] = g /\ ~Pending(e, b)' <=> pte[e][b] = g /\ ~Pending(e, b)),
         ~(pte[d][a] = g /\ ~Pending(d, a)), pte'[d][a] = g /\ ~Pending(d, a)'
  PROVE  Cardinality(MapRefs(g)') = Cardinality(MapRefs(g)) + 1
<1>1. ASSUME NEW h \in Pgdir \X Page
      PROVE  h \in MapRefs(g)' <=> h \in MapRefs(g) \cup {<<d, a>>}
  <2>1. PICK e \in Pgdir, b \in Page : h = <<e, b>>
    OBVIOUS
  <2>2. QED
    BY <2>1, MapRefsDef, MapRefsDefPrime
<1>2. MapRefs(g)' \subseteq Pgdir \X Page /\ MapRefs(g) \subseteq Pgdir \X Page
  BY MapRefsDef, MapRefsDefPrime, Zenon
<1>3. MapRefs(g)' = MapRefs(g) \cup {<<d, a>>}
  BY <1>1, <1>2, Zenon
<1>4. <<d, a>> \notin MapRefs(g)
  BY MapRefsDef, Zenon
<1>5. QED
  BY <1>3, <1>4, RefsFinite, FS_AddElement, Zenon

(* Clearing one counted entry removes one holder. *)
LEMMA MapRefsRemove ==
  ASSUME NEW g, NEW d \in Pgdir, NEW a \in Page,
         \A e \in Pgdir, b \in Page : e # d \/ b # a =>
           (pte'[e][b] = g /\ ~Pending(e, b)' <=> pte[e][b] = g /\ ~Pending(e, b)),
         pte[d][a] = g /\ ~Pending(d, a), pte'[d][a] # g
  PROVE  Cardinality(MapRefs(g)') = Cardinality(MapRefs(g)) - 1
<1>1. ASSUME NEW h \in Pgdir \X Page
      PROVE  h \in MapRefs(g)' <=> h \in MapRefs(g) \ {<<d, a>>}
  <2>1. PICK e \in Pgdir, b \in Page : h = <<e, b>>
    OBVIOUS
  <2>2. QED
    BY <2>1, MapRefsDef, MapRefsDefPrime
<1>2. MapRefs(g)' \subseteq Pgdir \X Page /\ MapRefs(g) \subseteq Pgdir \X Page
  BY MapRefsDef, MapRefsDefPrime, Zenon
<1>3. MapRefs(g)' = MapRefs(g) \ {<<d, a>>}
  BY <1>1, <1>2, Zenon
<1>4. <<d, a>> \in MapRefs(g)
  BY MapRefsDef, Zenon
<1>5. IsFiniteSet(MapRefs(g))
  BY RefsFinite, Zenon
<1>6. Cardinality(MapRefs(g) \ {<<d, a>>}) = Cardinality(MapRefs(g)) - 1
  BY <1>4, <1>5, FS_RemoveElement, Zenon
<1>7. QED
  BY <1>3, <1>6, Zenon

(* A frame that kalloc hands out has no holder at all. *)
LEMMA KallocUnheld ==
  ASSUME IInv, NEW f \in Frame, freelist # <<>>, f = Head(freelist),
         freelist' = Tail(freelist)
  PROVE  /\ Cardinality(MapRefs(f)) = 0
         /\ Cardinality(FaultRefs(f)) = 0
         /\ KernelRefs(f) = 0
<1>1. /\ \A d \in Pgdir, a \in Page : pte[d][a] # f
      /\ \A p \in Proc : pc[p] \in {"copy", "dec"} => fr[p] # f
      /\ f \notin kheld \cup lost
  BY KallocFresh, Zenon
<1>2. MapRefs(f) = {}
  <2>1. ASSUME NEW h \in MapRefs(f) PROVE FALSE
    <3>1. PICK d \in Pgdir, a \in Page : h = <<d, a>>
      BY MapRefsDef
    <3>2. QED
      BY <1>1, <3>1, MapRefsDef, Zenon
  <2>2. QED
    BY <2>1, Zenon
<1>3. FaultRefs(f) = {}
  BY <1>1, Zenon DEF FaultRefs
<1>4. KernelRefs(f) = 0
  BY <1>1 DEF KernelRefs
<1>5. QED
  BY <1>2, <1>3, <1>4, FS_EmptySet, Zenon

(* kalloc followed by a mapping at an empty entry. *)
LEMMA CountMap ==
  ASSUME IInv, NEW f \in Frame, kalloc(f), NEW d \in Pgdir, NEW a \in Page,
         pte[d][a] = None, ~Pending(d, a), MapFrame(d, a, f, TRUE),
         SamePending, SameFaults, SameKernel
  PROVE  CountIsExact'
<1>1. /\ \A e \in Pgdir, b \in Page : e # d \/ b # a => pte'[e][b] = pte[e][b]
      /\ pte'[d][a] = f
  BY TableTypes, Zenon DEF IInv, MapFrame
<1>2. None \notin Frame
  BY ProcAssumption, Zenon
<1>3. ASSUME NEW g \in Frame, g # f
      PROVE  refCount'[g] = Cardinality(MapRefs(g)') + Cardinality(FaultRefs(g)') + KernelRefs(g)'
  <2>1. MapRefs(g)' = MapRefs(g)
    BY <1>1, <1>2, <1>3, MapRefsSame, Zenon DEF SamePending
  <2>2. FaultRefs(g)' = FaultRefs(g) /\ KernelRefs(g)' = KernelRefs(g)
    BY Zenon DEF SameFaults, SameKernel, KernelRefs
  <2>3. refCount'[g] = refCount[g]
    BY <1>3, FrameTypes, Zenon DEF IInv, kalloc
  <2>4. QED
    BY <2>1, <2>2, <2>3, Zenon DEF IInv, CountIsExact
<1>4. refCount'[f] = Cardinality(MapRefs(f)') + Cardinality(FaultRefs(f)') + KernelRefs(f)'
  <2>1. Cardinality(MapRefs(f)') = Cardinality(MapRefs(f)) + 1
    BY <1>1, <1>2, MapRefsAdd DEF SamePending
  <2>2. FaultRefs(f)' = FaultRefs(f) /\ KernelRefs(f)' = KernelRefs(f)
    BY Zenon DEF SameFaults, SameKernel, KernelRefs
  <2>3. refCount'[f] = 1
    BY FrameTypes, Zenon DEF IInv, kalloc
  <2>4. QED
    BY <2>1, <2>2, <2>3, KallocUnheld DEF kalloc
<1>5. QED
  BY <1>3, <1>4, Zenon DEF CountIsExact

(* Nothing a count depends on changes. *)
LEMMA CountKeep ==
  ASSUME IInv, UNCHANGED <<refCount, pte>>, SamePending, SameFaults, SameKernel
  PROVE  CountIsExact'
<1>1. ASSUME NEW g \in Frame
      PROVE  refCount'[g] = Cardinality(MapRefs(g)') + Cardinality(FaultRefs(g)') + KernelRefs(g)'
  <2>1. MapRefs(g)' = MapRefs(g)
    BY MapRefsSame, Zenon DEF SamePending
  <2>2. FaultRefs(g)' = FaultRefs(g) /\ KernelRefs(g)' = KernelRefs(g)
    BY Zenon DEF SameFaults, SameKernel, KernelRefs
  <2>3. QED
    BY <2>1, <2>2, Zenon DEF IInv, CountIsExact
<1>2. QED
  BY <1>1, Zenon DEF CountIsExact

(* kalloc without a mapping: the frame is handed to the kernel, dropped by *)
(* a failing call, kept by PageFault, or given back at once.               *)
LEMMA CountTake ==
  ASSUME IInv, NEW f \in Frame, UNCHANGED pte, SamePending,
         freelist # <<>>, f = Head(freelist), freelist' = Tail(freelist),
         NEW n \in {0, 1}, refCount' = [refCount EXCEPT ![f] = n],
         n = Cardinality(FaultRefs(f)') + KernelRefs(f)',
         \A g \in Frame : g # f =>
           FaultRefs(g)' = FaultRefs(g) /\ KernelRefs(g)' = KernelRefs(g)
  PROVE  CountIsExact'
<1>1. \A g \in Frame : MapRefs(g)' = MapRefs(g)
  BY MapRefsSame, Zenon DEF SamePending
<1>2. ASSUME NEW g \in Frame, g # f
      PROVE  refCount'[g] = Cardinality(MapRefs(g)') + Cardinality(FaultRefs(g)') + KernelRefs(g)'
  <2>1. refCount'[g] = refCount[g]
    BY <1>2, FrameTypes, Zenon DEF IInv
  <2>2. QED
    BY <1>1, <1>2, <2>1, Zenon DEF IInv, CountIsExact
<1>3. refCount'[f] = Cardinality(MapRefs(f)') + Cardinality(FaultRefs(f)') + KernelRefs(f)'
  <2>1. Cardinality(MapRefs(f)') = 0
    BY <1>1, KallocUnheld, Zenon
  <2>2. refCount'[f] = n
    BY FrameTypes, Zenon DEF IInv
  <2>3. n = 0 + n
    OBVIOUS
  <2>4. Cardinality(FaultRefs(f)') \in Nat /\ KernelRefs(f)' \in 0..2
    <3>1. IsFiniteSet(FaultRefs(f)')
      <4>1. FaultRefs(f)' \subseteq Proc
        BY Zenon DEF FaultRefs
      <4>2. QED
        BY <4>1, FS_Subset, ProcAssumption, Zenon
    <3>2. KernelRefs(f)' \in 0..2
      BY DEF KernelRefs
    <3>3. QED
      BY <3>1, <3>2, FS_CardinalityType, Zenon
  <2>5. QED
    BY <2>1, <2>2, <2>4
<1>4. QED
  BY <1>2, <1>3, Zenon DEF CountIsExact

(* The frame of a failing call. *)
LEMMA CountDrop ==
  ASSUME IInv, NEW f \in Frame, UNCHANGED <<pte, kheld>>, SamePending, SameFaults,
         \/ kalloc(f) /\ lost' = lost \cup {f}
         \/ kallocAndFree(f) /\ lost' = lost
  PROVE  CountIsExact'
<1>1. freelist # <<>> /\ f = Head(freelist) /\ freelist' = Tail(freelist)
  BY Zenon DEF kalloc, kallocAndFree
<1>2. Cardinality(FaultRefs(f)') = 0 /\ KernelRefs(f) = 0
  BY <1>1, KallocUnheld, Zenon DEF SameFaults
<1>3. f \notin kheld /\ f \notin lost
  BY <1>1, KallocFresh, Zenon
<1>4. \A g \in Frame : g # f => FaultRefs(g)' = FaultRefs(g) /\ KernelRefs(g)' = KernelRefs(g)
  BY Zenon DEF SameFaults, KernelRefs
<1>5. CASE kalloc(f) /\ lost' = lost \cup {f}
  <2>1. KernelRefs(f)' = 1
    BY <1>3, <1>5 DEF KernelRefs
  <2>2. refCount' = [refCount EXCEPT ![f] = 1]
    BY <1>5, Zenon DEF kalloc
  <2>3. 1 = Cardinality(FaultRefs(f)') + KernelRefs(f)' /\ 1 \in {0, 1}
    BY <1>2, <2>1
  <2>4. QED
    BY <1>1, <1>4, <2>2, <2>3, CountTake, Zenon
<1>6. CASE kallocAndFree(f) /\ lost' = lost
  <2>1. KernelRefs(f)' = 0
    BY <1>3, <1>6 DEF KernelRefs
  <2>2. refCount' = [refCount EXCEPT ![f] = 0]
    BY <1>6, Zenon DEF kallocAndFree
  <2>3. 0 = Cardinality(FaultRefs(f)') + KernelRefs(f)' /\ 0 \in {0, 1}
    BY <1>2, <2>1
  <2>4. QED
    BY <1>1, <1>4, <2>2, <2>3, CountTake, Zenon
<1>7. QED
  BY <1>5, <1>6, Zenon

(* deallocuvm of one page. *)
LEMMA CountRelease ==
  ASSUME IInv, NEW d \in Pgdir, NEW a \in Page, NEW f \in Frame, pte[d][a] = f, ~Pending(d, a),
         ReleasePage(d, a), SamePending, SameFaults, SameKernel
  PROVE  CountIsExact'
<1>1. /\ \A e \in Pgdir, b \in Page : e # d \/ b # a => pte'[e][b] = pte[e][b]
      /\ pte'[d][a] = None
  BY TableTypes, Zenon DEF IInv, MapFrame, ReleasePage
<1>2. /\ None \notin Frame
      /\ refCount' = [refCount EXCEPT ![f] = @ - 1]
      /\ refCount[f] \in 0..UINT_MAX /\ refCount[f] >= 1
  BY CountsTellHolders, ReleaseHeld, ProcAssumption, Zenon
<1>3. ASSUME NEW g \in Frame, g # f
      PROVE  refCount'[g] = Cardinality(MapRefs(g)') + Cardinality(FaultRefs(g)') + KernelRefs(g)'
  <2>1. MapRefs(g)' = MapRefs(g)
    BY <1>1, <1>2, <1>3, MapRefsSame, Zenon DEF SamePending
  <2>2. FaultRefs(g)' = FaultRefs(g) /\ KernelRefs(g)' = KernelRefs(g)
    BY Zenon DEF SameFaults, SameKernel, KernelRefs
  <2>3. refCount'[g] = refCount[g]
    BY <1>2, <1>3, FrameTypes, Zenon DEF IInv
  <2>4. QED
    BY <2>1, <2>2, <2>3, Zenon DEF IInv, CountIsExact
<1>4. refCount'[f] = Cardinality(MapRefs(f)') + Cardinality(FaultRefs(f)') + KernelRefs(f)'
  <2>1. Cardinality(MapRefs(f)') = Cardinality(MapRefs(f)) - 1
    BY <1>1, <1>2, MapRefsRemove DEF SamePending
  <2>2. FaultRefs(f)' = FaultRefs(f) /\ KernelRefs(f)' = KernelRefs(f)
    BY <1>2, Zenon DEF SameFaults, SameKernel, KernelRefs
  <2>3. refCount'[f] = refCount[f] - 1
    BY <1>2, FrameTypes, Zenon DEF IInv
  <2>4. refCount[f] = Cardinality(MapRefs(f)) + Cardinality(FaultRefs(f)) + KernelRefs(f)
    BY <1>2, Zenon DEF IInv, CountIsExact
  <2>5. QED
    BY <2>1, <2>2, <2>3, <2>4, RefsFinite
<1>5. QED
  BY <1>3, <1>4, Zenon DEF CountIsExact

(* A step of p outside PageFault's copy and copyuvm's increment keeps the  *)
(* uncounted mappings and the holders in PageFault.                        *)
LEMMA SameHolders ==
  ASSUME NEW p \in Proc, Confined(p), pc[p] \notin {"forkInc", "copy", "dec"},
         pc'[p] \notin {"forkInc", "copy", "dec"}
  PROVE  SamePending /\ SameFaults
<1>1. SamePending
  BY Zenon DEF SamePending, Pending, Confined, ConfinedHandlers
<1>2. ASSUME NEW g \in Frame PROVE FaultRefs(g)' = FaultRefs(g)
  <2>1. \A q \in Proc : q \in FaultRefs(g)' <=> q \in FaultRefs(g)
    BY Zenon DEF FaultRefs, Confined, ConfinedHandlers
  <2>2. FaultRefs(g) \subseteq Proc /\ FaultRefs(g)' \subseteq Proc
    BY Zenon DEF FaultRefs
  <2>3. QED
    BY <2>1, <2>2, Zenon
<1>3. QED
  BY <1>1, <1>2, Zenon DEF SameFaults

(* A PageFault that takes a frame adds one holder outside the tables. *)
LEMMA FaultRefsAdd ==
  ASSUME NEW g, NEW p \in Proc, p \notin FaultRefs(g), p \in FaultRefs(g)',
         \A q \in Proc : q # p => (q \in FaultRefs(g)' <=> q \in FaultRefs(g))
  PROVE  Cardinality(FaultRefs(g)') = Cardinality(FaultRefs(g)) + 1
<1>1. FaultRefs(g) \subseteq Proc /\ FaultRefs(g)' \subseteq Proc
  BY Zenon DEF FaultRefs
<1>2. FaultRefs(g)' = FaultRefs(g) \cup {p}
  BY <1>1, Zenon
<1>3. QED
  BY <1>2, RefsFinite, FS_AddElement, Zenon

(* A PageFault that gives a frame away removes that holder. *)
LEMMA FaultRefsRemove ==
  ASSUME NEW g, NEW p \in Proc, p \in FaultRefs(g), p \notin FaultRefs(g)',
         \A q \in Proc : q # p => (q \in FaultRefs(g)' <=> q \in FaultRefs(g))
  PROVE  Cardinality(FaultRefs(g)') = Cardinality(FaultRefs(g)) - 1
<1>1. FaultRefs(g) \subseteq Proc /\ FaultRefs(g)' \subseteq Proc
  BY Zenon DEF FaultRefs
<1>2. FaultRefs(g)' = FaultRefs(g) \ {p}
  BY <1>1, Zenon
<1>3. IsFiniteSet(FaultRefs(g))
  BY RefsFinite, Zenon
<1>4. Cardinality(FaultRefs(g) \ {p}) = Cardinality(FaultRefs(g)) - 1
  BY <1>3, FS_RemoveElement, Zenon
<1>5. QED
  BY <1>2, <1>4, Zenon

(* Other processes keep their place in FaultRefs. *)
LEMMA OtherFaults ==
  ASSUME NEW p \in Proc, Confined(p), NEW g
  PROVE  /\ \A q \in Proc : q # p => (q \in FaultRefs(g)' <=> q \in FaultRefs(g))
         /\ p \in FaultRefs(g) <=> pc[p] \in {"copy", "dec"} /\ fr[p] = g
         /\ p \in FaultRefs(g)' <=> pc'[p] \in {"copy", "dec"} /\ fr'[p] = g
BY Zenon DEF FaultRefs, Confined, ConfinedHandlers

(* Away from the second half of copyuvm's loop no entry becomes uncounted. *)
LEMMA SamePendingStep ==
  ASSUME NEW p \in Proc, Confined(p), pc[p] # "forkInc", pc'[p] # "forkInc"
  PROVE  SamePending
BY ZenonT(40) DEF SamePending, Pending, Confined, ConfinedHandlers

(* kalloc in PageFault. *)
LEMMA CountCowAlloc ==
  ASSUME IInv, NEW p \in Proc, CowAlloc(p)
  PROVE  CountIsExact'
<1>0. TypeOK /\ Confined(p) /\ pc[p] = "cow" /\ UNCHANGED pte
  BY ConfinedFault, Zenon DEF IInv, Fault, CowAlloc, tableVars
<1>1. CASE Idle(p) /\ UNCHANGED frameVars
  <2>1. pc'[p] = "user"
    BY <1>0, <1>1, IdleOthers, Zenon
  <2>2. SamePending /\ SameFaults
    BY <1>0, <2>1, SameHolders, Zenon
  <2>3. QED
    BY <1>0, <1>1, <2>2, CountKeep, Zenon DEF SameKernel, frameVars
<1>2. ASSUME NEW f \in Frame, kalloc(f), pc' = [pc EXCEPT ![p] = "copy"],
             fr' = [fr EXCEPT ![p] = f], UNCHANGED <<kheld, lost>>
      PROVE  CountIsExact'
  <2>1. pc'[p] = "copy" /\ fr'[p] = f
    BY <1>0, <1>2, TableTypes, Zenon
  <2>2. SamePending
    BY <1>0, <2>1, SamePendingStep, Zenon
  <2>3. /\ freelist # <<>> /\ f = Head(freelist) /\ freelist' = Tail(freelist)
        /\ refCount' = [refCount EXCEPT ![f] = 1]
    BY <1>2, Zenon DEF kalloc
  <2>4. Cardinality(FaultRefs(f)) = 0 /\ KernelRefs(f) = 0
    BY <2>3, KallocUnheld, Zenon
  <2>5. Cardinality(FaultRefs(f)') = Cardinality(FaultRefs(f)) + 1
    BY <1>0, <2>1, OtherFaults, FaultRefsAdd, Zenon
  <2>6. \A g \in Frame : KernelRefs(g)' = KernelRefs(g)
    BY <1>2, Zenon DEF KernelRefs
  <2>7. ASSUME NEW g \in Frame, g # f PROVE FaultRefs(g)' = FaultRefs(g)
    <3>1. \A q \in Proc : q \in FaultRefs(g)' <=> q \in FaultRefs(g)
      BY <1>0, <2>1, <2>7, OtherFaults, Zenon
    <3>2. FaultRefs(g) \subseteq Proc /\ FaultRefs(g)' \subseteq Proc
      BY Zenon DEF FaultRefs
    <3>3. QED
      BY <3>1, <3>2, Zenon
  <2>8. 1 = Cardinality(FaultRefs(f)') + KernelRefs(f)' /\ 1 \in {0, 1}
    BY <2>4, <2>5, <2>6
  <2>9. QED
    BY <1>0, <2>2, <2>3, <2>6, <2>7, <2>8, CountTake, Zenon
<1>3. QED
  BY <1>1, <1>2, Zenon DEF CowAlloc

(* The copy: the new frame changes holder, from the handler to the table,  *)
(* and the old one from the table to the handler.                          *)
LEMMA CountCowCopy ==
  ASSUME IInv, NEW p \in Proc, CowCopy(p)
  PROVE  CountIsExact'
<1>0. TypeOK /\ Confined(p) /\ pc[p] = "copy" /\ UNCHANGED <<refCount, kheld, lost>>
  BY ConfinedFault, Zenon DEF IInv, Fault, CowCopy
<1>1. pgdir[p] \in Pgdir /\ va[p] \in Page
  BY <1>0, OwnsDirs, TableTypes, Zenon
<1>2. PICK d \in Pgdir, a \in Page : d = pgdir[p] /\ a = va[p]
  BY <1>1, Zenon
<1>3. PICK f \in Frame, g \in Frame : f = fr[p] /\ g = pte[d][a]
  BY <1>0, <1>2, TableTypes DEF IInv, ThreadInv
<1>4. f # g
  BY <1>0, <1>2, <1>3, Zenon DEF IInv, CopyIsFresh
<1>5. pc'[p] = "dec" /\ fr'[p] = g
  BY <1>0, <1>2, <1>3, TableTypes, Zenon DEF CowCopy
<1>6. /\ \A e \in Pgdir, b \in Page : e # d \/ b # a => pte'[e][b] = pte[e][b]
      /\ pte'[d][a] = f
  BY <1>0, <1>2, <1>3, TableTypes, Zenon DEF CowCopy, MapFrame
<1>7. SamePending /\ ~Pending(d, a)
  BY <1>0, <1>2, <1>5, SamePendingStep, NotPending, ProcAssumption, Zenon
<1>8. \A x \in Frame : KernelRefs(x)' = KernelRefs(x)
  BY <1>0, Zenon DEF KernelRefs
<1>9. ASSUME NEW x \in Frame, x # f, x # g
      PROVE  refCount'[x] = Cardinality(MapRefs(x)') + Cardinality(FaultRefs(x)') + KernelRefs(x)'
  <2>1. MapRefs(x)' = MapRefs(x)
    BY <1>3, <1>6, <1>7, <1>9, MapRefsSame, Zenon DEF SamePending
  <2>2. \A q \in Proc : q \in FaultRefs(x)' <=> q \in FaultRefs(x)
    BY <1>0, <1>3, <1>5, <1>9, OtherFaults, Zenon
  <2>3. FaultRefs(x)' = FaultRefs(x)
    BY <2>2, Zenon DEF FaultRefs
  <2>4. QED
    BY <1>0, <1>8, <2>1, <2>3, Zenon DEF IInv, CountIsExact
<1>10. refCount'[f] = Cardinality(MapRefs(f)') + Cardinality(FaultRefs(f)') + KernelRefs(f)'
  <2>1. Cardinality(MapRefs(f)') = Cardinality(MapRefs(f)) + 1
    BY <1>3, <1>4, <1>6, <1>7, MapRefsAdd DEF SamePending
  <2>2. Cardinality(FaultRefs(f)') = Cardinality(FaultRefs(f)) - 1
    BY <1>0, <1>3, <1>4, <1>5, OtherFaults, FaultRefsRemove, Zenon
  <2>3. refCount[f] = Cardinality(MapRefs(f)) + Cardinality(FaultRefs(f)) + KernelRefs(f)
    BY Zenon DEF IInv, CountIsExact
  <2>4. QED
    BY <1>0, <1>8, <2>1, <2>2, <2>3, RefsFinite
<1>11. refCount'[g] = Cardinality(MapRefs(g)') + Cardinality(FaultRefs(g)') + KernelRefs(g)'
  <2>1. Cardinality(MapRefs(g)') = Cardinality(MapRefs(g)) - 1
    BY <1>3, <1>4, <1>6, <1>7, MapRefsRemove DEF SamePending
  <2>2. Cardinality(FaultRefs(g)') = Cardinality(FaultRefs(g)) + 1
    BY <1>0, <1>3, <1>4, <1>5, OtherFaults, FaultRefsAdd, Zenon
  <2>3. refCount[g] = Cardinality(MapRefs(g)) + Cardinality(FaultRefs(g)) + KernelRefs(g)
    BY Zenon DEF IInv, CountIsExact
  <2>4. QED
    BY <1>0, <1>8, <2>1, <2>2, <2>3, RefsFinite
<1>12. QED
  BY <1>9, <1>10, <1>11, Zenon DEF CountIsExact

(* PageFault drops the old frame's count. *)
LEMMA CountCowDecrease ==
  ASSUME IInv, NEW p \in Proc, CowDecrease(p)
  PROVE  CountIsExact'
<1>0. /\ TypeOK /\ Confined(p) /\ pc[p] = "dec" /\ UNCHANGED <<pte, kheld, lost>>
      /\ decreasePhysicalPageRefCountByOne(fr[p]) /\ Idle(p)
  BY ConfinedFault, Zenon DEF IInv, Fault, CowDecrease, tableVars
<1>1. PICK f \in Frame : f = fr[p]
  BY <1>0, Zenon DEF IInv, ThreadInv
<1>2. pc'[p] = "user"
  BY <1>0, IdleOthers, Zenon
<1>3. SamePending
  BY <1>0, <1>2, SamePendingStep, Zenon
<1>4. refCount[f] \in 0..UINT_MAX /\ refCount[f] >= 1 /\ UINT_MAX \in Nat
  BY <1>0, <1>1, CountsTellHolders, HeldIsCounted, CountAssumption, Zenon
<1>5. refCount' = [refCount EXCEPT ![f] = refCount[f] - 1]
  <2>1. refCount[f] # 0
    BY <1>4
  <2>2. QED
    BY <1>0, <1>1, <2>1, Zenon DEF decreasePhysicalPageRefCountByOne
<1>6. \A x \in Frame : MapRefs(x)' = MapRefs(x) /\ KernelRefs(x)' = KernelRefs(x)
  BY <1>0, <1>3, MapRefsSame, Zenon DEF SamePending, KernelRefs
<1>7. ASSUME NEW x \in Frame, x # f
      PROVE  refCount'[x] = Cardinality(MapRefs(x)') + Cardinality(FaultRefs(x)') + KernelRefs(x)'
  <2>1. \A q \in Proc : q \in FaultRefs(x)' <=> q \in FaultRefs(x)
    BY <1>0, <1>1, <1>2, <1>7, OtherFaults, Zenon
  <2>2. FaultRefs(x)' = FaultRefs(x)
    BY <2>1, Zenon DEF FaultRefs
  <2>3. refCount'[x] = refCount[x]
    BY <1>0, <1>5, <1>7, FrameTypes, Zenon
  <2>4. QED
    BY <1>6, <2>2, <2>3, Zenon DEF IInv, CountIsExact
<1>8. refCount'[f] = Cardinality(MapRefs(f)') + Cardinality(FaultRefs(f)') + KernelRefs(f)'
  <2>1. Cardinality(FaultRefs(f)') = Cardinality(FaultRefs(f)) - 1
    BY <1>0, <1>1, <1>2, OtherFaults, FaultRefsRemove, Zenon
  <2>2. refCount[f] = Cardinality(MapRefs(f)) + Cardinality(FaultRefs(f)) + KernelRefs(f)
    BY Zenon DEF IInv, CountIsExact
  <2>3. refCount'[f] = refCount[f] - 1
    BY <1>0, <1>5, FrameTypes, Zenon
  <2>4. QED
    BY <1>6, <2>1, <2>2, <2>3, RefsFinite
<1>9. QED
  BY <1>7, <1>8, Zenon DEF CountIsExact

(* copyuvm's mapping is not counted until copyuvm has done so. *)
LEMMA CountForkMap ==
  ASSUME IInv, NEW p \in Proc, NEW a \in Page, ForkMap(p, a)
  PROVE  CountIsExact'
<1>0. /\ TypeOK /\ Confined(p) /\ pc[p] = "fork" /\ a \in todo[p]
      /\ UNCHANGED <<refCount, kheld, lost, dir>>
  BY CountsTellHolders, ConfinedFork, Zenon DEF IInv, Fork, ForkMap, frameVars, IsFirst
<1>1. SameKernel
  BY <1>0, Zenon DEF SameKernel
<1>2. CASE UNCHANGED <<pte, pc>>
  BY <1>0, <1>1, <1>2, SameHolders, CountKeep, Zenon
<1>3. CASE pc' = [pc EXCEPT ![p] = "forkFree"] /\ UNCHANGED pte
  <2>1. pc'[p] = "forkFree"
    BY <1>0, <1>3, TableTypes, Zenon
  <2>2. QED
    BY <1>0, <1>1, <1>3, <2>1, SameHolders, CountKeep, Zenon
<1>4. CASE /\ pte[pgdir[p]][a] # None
           /\ pte' = [pte EXCEPT ![dir[p]][a] = pte[pgdir[p]][a]]
           /\ pc' = [pc EXCEPT ![p] = "forkInc"]
           /\ va' = [va EXCEPT ![p] = a]
  <2>1. PICK d \in Pgdir : d = dir[p]
    BY <1>0, OwnsDirs, Zenon DEF Builders
  <2>2. pc'[p] = "forkInc" /\ va'[p] = a /\ dir'[p] = d
    BY <1>0, <1>4, <2>1, TableTypes, Zenon
  <2>3. \A e \in Pgdir, b \in Page : e # d \/ b # a => pte'[e][b] = pte[e][b]
    BY <1>0, <1>4, <2>1, TableTypes, Zenon
  <2>4. pte[d][a] = None /\ None \notin Frame
    BY <1>0, <2>1, ProcAssumption, Zenon
       DEF IInv, EmptyWhereUnused, UnownedIsEmpty, ForkAhead, ExecAhead
  <2>5. Pending(d, a)'
    BY <2>2, Zenon DEF Pending
  <2>6. \A e \in Pgdir, b \in Page : e # d \/ b # a => (Pending(e, b)' <=> Pending(e, b))
    BY <1>0, <2>2, Zenon DEF Pending, Confined, ConfinedHandlers
  <2>7. ASSUME NEW g \in Frame
        PROVE  refCount'[g] = Cardinality(MapRefs(g)') + Cardinality(FaultRefs(g)') + KernelRefs(g)'
    <3>1. MapRefs(g)' = MapRefs(g)
      BY <2>3, <2>4, <2>5, <2>6, MapRefsSame, Zenon
    <3>2. \A q \in Proc : q \in FaultRefs(g)' <=> q \in FaultRefs(g)
      BY <1>0, <2>2, OtherFaults, Zenon
    <3>3. FaultRefs(g)' = FaultRefs(g)
      BY <3>2, Zenon DEF FaultRefs
    <3>4. KernelRefs(g)' = KernelRefs(g)
      BY <1>0, Zenon DEF KernelRefs
    <3>5. QED
      BY <1>0, <3>1, <3>3, <3>4, Zenon DEF IInv, CountIsExact
  <2>8. QED
    BY <2>7, Zenon DEF CountIsExact
<1>5. QED
  BY <1>2, <1>3, <1>4, Zenon DEF ForkMap, tableVars

(* The second half of copyuvm's loop: the child's entry is counted. *)
LEMMA CountForkIncrease ==
  ASSUME IInv, NEW p \in Proc, ForkIncrease(p)
  PROVE  CountIsExact'
<1>0. /\ TypeOK /\ Confined(p) /\ pc[p] = "forkInc"
      /\ UNCHANGED <<pte, kheld, lost, dir>>
      /\ increasePhysicalPageRefCountByOne(pte[pgdir[p]][va[p]])
      /\ pc' = [pc EXCEPT ![p] = "fork"]
  BY CountsTellHolders, ConfinedFork, Zenon DEF IInv, Fork, ForkIncrease, tableVars
<1>1. PICK d \in Pgdir, a \in Page : d = dir[p] /\ a = va[p]
  BY <1>0, OwnsDirs, TableTypes, Zenon DEF Builders
<1>2. PICK f \in Frame : f = pte[pgdir[p]][va[p]] /\ f = pte[d][a]
  <2>1. pgdir[p] \in Pgdir /\ pte[pgdir[p]][va[p]] # None
    BY <1>0, OwnsDirs, Zenon DEF IInv, ThreadInv
  <2>2. QED
    BY <1>0, <1>1, <2>1, TableTypes DEF IInv, ThreadInv
<1>3. pc'[p] = "fork"
  BY <1>0, TableTypes, Zenon
<1>4. \A q \in Proc : q # p => dir[q] # d
  BY <1>1, ProcAssumption, Zenon DEF IInv, DirOwned
<1>5. Pending(d, a)
  BY <1>0, <1>1, Zenon DEF Pending
<1>6. ~Pending(d, a)'
  BY <1>0, <1>3, <1>4, Zenon DEF Pending
<1>7. \A e \in Pgdir, b \in Page : e # d \/ b # a => (Pending(e, b)' <=> Pending(e, b))
  BY <1>0, <1>1, <1>3, Zenon DEF Pending, Confined, ConfinedHandlers
<1>8. ASSUME NEW g \in Frame
      PROVE  FaultRefs(g)' = FaultRefs(g) /\ KernelRefs(g)' = KernelRefs(g)
  <2>1. \A q \in Proc : q \in FaultRefs(g)' <=> q \in FaultRefs(g)
    BY <1>0, <1>3, OtherFaults, Zenon
  <2>2. FaultRefs(g)' = FaultRefs(g)
    BY <2>1, Zenon DEF FaultRefs
  <2>3. KernelRefs(g)' = KernelRefs(g)
    BY <1>0, Zenon DEF KernelRefs
  <2>4. QED
    BY <2>2, <2>3, Zenon
<1>9. ASSUME NEW g \in Frame, g # f
      PROVE  refCount'[g] = Cardinality(MapRefs(g)') + Cardinality(FaultRefs(g)') + KernelRefs(g)'
  <2>1. MapRefs(g)' = MapRefs(g)
    BY <1>0, <1>2, <1>7, <1>9, MapRefsSame, Zenon
  <2>2. refCount'[g] = refCount[g]
    BY <1>0, <1>2, <1>9, FrameTypes, Zenon DEF increasePhysicalPageRefCountByOne
  <2>3. QED
    BY <1>8, <2>1, <2>2, Zenon DEF IInv, CountIsExact
<1>10. refCount'[f] = Cardinality(MapRefs(f)') + Cardinality(FaultRefs(f)') + KernelRefs(f)'
  <2>1. Cardinality(MapRefs(f)') = Cardinality(MapRefs(f)) + 1
    BY <1>0, <1>2, <1>5, <1>6, <1>7, MapRefsAdd, Zenon
  <2>2. refCount[f] = Cardinality(MapRefs(f)) + Cardinality(FaultRefs(f)) + KernelRefs(f)
    BY Zenon DEF IInv, CountIsExact
  <2>3. refCount[f] < UINT_MAX /\ UINT_MAX \in Nat /\ refCount[f] \in 0..UINT_MAX
    BY <1>0, <2>2, RefsFinite, FrameTypes, Zenon
  <2>4. refCount[f] # UINT_MAX
    BY <2>3
  <2>5. refCount'[f] = refCount[f] + 1
    BY <1>0, <1>2, <2>4, FrameTypes, Zenon DEF increasePhysicalPageRefCountByOne
  <2>6. QED
    BY <1>8, <2>1, <2>2, <2>5, RefsFinite
<1>11. QED
  BY <1>9, <1>10, Zenon DEF CountIsExact

(* kalloc and kfree for the kernel's own pages. *)
LEMMA CountKernel ==
  ASSUME IInv, KernelAlloc \/ KernelFree
  PROVE  CountIsExact'
<1>0. TypeOK /\ UNCHANGED <<pte, pc, fr, dir, va, lost>>
  BY Zenon DEF IInv, KernelAlloc, KernelFree, tableVars, threadVars
<1>1. SamePending
  BY <1>0, Zenon DEF SamePending, Pending
<1>2. \A g \in Frame : FaultRefs(g)' = FaultRefs(g)
  BY <1>0, Zenon DEF FaultRefs
<1>3. CASE KernelAlloc
  <2>1. PICK f \in Frame : kalloc(f) /\ kheld' = kheld \cup {f}
    BY <1>3, Zenon DEF KernelAlloc
  <2>2. /\ freelist # <<>> /\ f = Head(freelist) /\ freelist' = Tail(freelist)
        /\ refCount' = [refCount EXCEPT ![f] = 1]
    BY <2>1, Zenon DEF kalloc
  <2>3. Cardinality(FaultRefs(f)') = 0
    BY <1>2, <2>2, KallocUnheld, Zenon
  <2>4. f \notin kheld /\ f \notin lost
    BY <2>2, KallocFresh, Zenon
  <2>5. KernelRefs(f)' = 1
    BY <1>0, <2>1, <2>4 DEF KernelRefs
  <2>6. \A g \in Frame : g # f => FaultRefs(g)' = FaultRefs(g) /\ KernelRefs(g)' = KernelRefs(g)
    BY <1>0, <1>2, <2>1, Zenon DEF KernelRefs
  <2>7. 1 = Cardinality(FaultRefs(f)') + KernelRefs(f)' /\ 1 \in {0, 1}
    BY <2>3, <2>5
  <2>8. QED
    BY <1>0, <1>1, <2>2, <2>6, <2>7, CountTake, Zenon
<1>4. CASE KernelFree
  <2>1. PICK f \in kheld : kfree(f) /\ kheld' = kheld \ {f}
    BY <1>4, Zenon DEF KernelFree
  <2>2. f \in Frame
    BY <1>0, FrameTypes, Zenon
  <2>3. refCount[f] \in 0..UINT_MAX /\ refCount[f] >= 1 /\ UINT_MAX \in Nat
    BY <2>2, CountsTellHolders, HeldIsCounted, CountAssumption, Zenon
  <2>4. refCount[f] # 0
    BY <2>3
  <2>5. refCount' = [refCount EXCEPT ![f] = @ - 1]
    BY <2>1, <2>4, Zenon DEF kfree
  <2>6. \A g \in Frame : MapRefs(g)' = MapRefs(g)
    BY <1>0, <1>1, MapRefsSame, Zenon DEF SamePending
  <2>7. ASSUME NEW g \in Frame, g # f
        PROVE  refCount'[g] = Cardinality(MapRefs(g)') + Cardinality(FaultRefs(g)') + KernelRefs(g)'
    <3>1. KernelRefs(g)' = KernelRefs(g) /\ refCount'[g] = refCount[g]
      BY <1>0, <2>1, <2>5, <2>7, FrameTypes, Zenon DEF KernelRefs
    <3>2. QED
      BY <1>2, <2>6, <3>1, Zenon DEF IInv, CountIsExact
  <2>8. refCount'[f] = Cardinality(MapRefs(f)') + Cardinality(FaultRefs(f)') + KernelRefs(f)'
    <3>1. KernelRefs(f)' = KernelRefs(f) - 1
      BY <1>0, <2>1 DEF KernelRefs
    <3>2. refCount'[f] = refCount[f] - 1
      BY <1>0, <2>2, <2>5, FrameTypes, Zenon
    <3>3. refCount[f] = Cardinality(MapRefs(f)) + Cardinality(FaultRefs(f)) + KernelRefs(f)
      BY <2>2, Zenon DEF IInv, CountIsExact
    <3>4. QED
      BY <1>2, <2>2, <2>6, <3>1, <3>2, <3>3, RefsFinite
  <2>9. QED
    BY <2>7, <2>8, Zenon DEF CountIsExact
<1>5. QED
  BY <1>3, <1>4, Zenon

(* Every count stays the number of holders. *)
LEMMA CountIsExactStep ==
  ASSUME IInv, Next
  PROVE  CountIsExact'
<1>0. TypeOK
  BY Zenon DEF IInv
<1>1. ASSUME NEW p \in Proc, Confined(p), pc[p] \notin {"forkInc", "copy", "dec"},
             pc'[p] \in Between
      PROVE  SamePending /\ SameFaults
  BY <1>1, SameHolders, Zenon DEF Between
<1>2. ASSUME NEW p \in Proc, NEW a \in Page, StackFault(p, a) \/ LazyFault(p, a)
      PROVE  CountIsExact'
  <2>1. pc[p] = "user" /\ pgdir[p] \in Pgdir
    BY <1>2, OwnsDirs, Zenon DEF StackFault, LazyFault, AtPage, InUser
  <2>2. SamePending /\ SameFaults
    BY <1>1, <1>2, <2>1, ConfinedFault, QuietStep, Zenon DEF Fault
  <2>3. \A b \in Page : ~Pending(pgdir[p], b)
    BY <2>1, NotPending, ProcAssumption, Zenon
  <2>4. CASE LazyFault(p, a)
    <3>1. CASE UNCHANGED <<frameVars, tableVars>>
      BY <2>2, <3>1, CountKeep, Zenon DEF SameKernel, frameVars, tableVars
    <3>2. ASSUME NEW f \in Frame, kalloc(f), MapFrame(pgdir[p], a, f, TRUE),
                 UNCHANGED <<lost, kheld>>
          PROVE  CountIsExact'
      BY <2>1, <2>2, <2>3, <2>4, <3>2, CountMap, Zenon DEF SameKernel, LazyFault
    <3>3. ASSUME NEW f \in Frame, kalloc(f), lost' = lost \cup {f},
                 UNCHANGED <<tableVars, kheld>>
          PROVE  CountIsExact'
      BY <2>2, <3>3, CountDrop, Zenon DEF tableVars
    <3>4. QED
      BY <2>4, <3>1, <3>2, <3>3, Zenon DEF LazyFault
  <2>5. CASE StackFault(p, a)
    <3>1. USERTOP - stackSize[p] - 1 \in Page
      BY <1>0, <1>2, <2>5, StackGrowsInRange, Zenon DEF StackFault
    <3>2. ASSUME NEW f \in Frame, stackGrow(p, f) PROVE CountIsExact'
      BY <2>1, <2>2, <2>3, <3>1, <3>2, CountMap, Zenon DEF SameKernel, stackGrow
    <3>3. ASSUME NEW f \in Frame, stackGrowRemap(p, f) PROVE CountIsExact'
      BY <2>2, <3>3, CountDrop, Zenon DEF stackGrowRemap, tableVars
    <3>4. CASE stackGrowFails(p)
      BY <2>2, <3>4, CountDrop, CountKeep, Zenon
         DEF stackGrowFails, tableVars, frameVars, SameKernel
    <3>5. QED
      BY <2>5, <3>2, <3>3, <3>4, Zenon DEF StackFault
  <2>6. QED
    BY <1>2, <2>4, <2>5, Zenon
<1>3. ASSUME NEW p \in Proc, SbrkGrow(p) PROVE CountIsExact'
  <2>1. pc[p] = "user" /\ pgdir[p] \in Pgdir /\ UNCHANGED kheld
    BY <1>3, OwnsDirs, Zenon DEF SbrkGrow, InUser
  <2>2. SamePending /\ SameFaults
    BY <1>1, <1>3, <2>1, CountsTellHolders, ConfinedSbrk, QuietStep, Zenon
  <2>3. ~Pending(pgdir[p], sz[p]) /\ sz[p] \in Page
    <3>1. sz[p] \in Page
      BY <1>0, <1>3, MemoryAssumption DEF SbrkGrow, heapLimit, Page, TypeOK
    <3>2. QED
      BY <2>1, <3>1, NotPending, ProcAssumption, Zenon
  <2>4. PICK f \in Frame :
          \/ /\ kalloc(f) /\ pte[pgdir[p]][sz[p]] = None
             /\ MapFrame(pgdir[p], sz[p], f, TRUE) /\ UNCHANGED lost
          \/ kalloc(f) /\ lost' = lost \cup {f} /\ UNCHANGED tableVars
          \/ kallocAndFree(f) /\ UNCHANGED <<lost, tableVars>>
    BY <1>3, Zenon DEF SbrkGrow
  <2>5. CASE /\ kalloc(f) /\ pte[pgdir[p]][sz[p]] = None
             /\ MapFrame(pgdir[p], sz[p], f, TRUE) /\ UNCHANGED lost
    BY <2>1, <2>2, <2>3, <2>5, CountMap, Zenon DEF SameKernel
  <2>6. CASE \/ kalloc(f) /\ lost' = lost \cup {f} /\ UNCHANGED tableVars
             \/ kallocAndFree(f) /\ UNCHANGED <<lost, tableVars>>
    BY <2>1, <2>2, <2>6, CountDrop, Zenon DEF tableVars
  <2>7. QED
    BY <2>4, <2>5, <2>6, Zenon
<1>4. ASSUME NEW p \in Proc, NEW d \in Pgdir, NEW a \in Page,
             d = pgdir[p] \/ (d = dir[p] /\ pc[p] \in {"forkFree", "free"}),
             pte[d][a] # None, ReleasePage(d, a), UNCHANGED <<kheld, lost>>,
             SamePending, SameFaults
      PROVE  CountIsExact'
  <2>1. ~Pending(d, a)
    BY <1>4, NotPending, ProcAssumption, Zenon
  <2>2. pte[d][a] \in Frame
    BY <1>0, <1>4, TableTypes
  <2>3. QED
    BY <1>4, <2>1, <2>2, CountRelease, Zenon DEF SameKernel
<1>5. ASSUME NEW p \in Proc, SbrkShrink(p) PROVE CountIsExact'
  <2>1. pc[p] = "user" /\ pgdir[p] \in Pgdir /\ UNCHANGED <<kheld, lost>>
    BY <1>5, OwnsDirs, Zenon DEF SbrkShrink, InUser
  <2>2. SamePending /\ SameFaults
    BY <1>1, <1>5, <2>1, CountsTellHolders, ConfinedSbrk, QuietStep, Zenon
  <2>3. sz[p] - 1 \in Page
    BY <1>0, <1>5, MemoryAssumption DEF SbrkShrink, Page, TypeOK
  <2>4. CASE pte[pgdir[p]][sz[p] - 1] # None
    BY <1>4, <1>5, <2>1, <2>2, <2>3, <2>4, Zenon DEF SbrkShrink
  <2>5. CASE pte[pgdir[p]][sz[p] - 1] = None
    BY <1>5, <2>1, <2>2, <2>5, CountKeep, Zenon DEF SbrkShrink, SameKernel, tableVars
  <2>6. QED
    BY <2>4, <2>5, Zenon
<1>13. ASSUME NEW p \in Proc, SbrkFails(p) PROVE CountIsExact'
  <2>1. pc[p] = "user" /\ pgdir[p] \in Pgdir /\ UNCHANGED <<kheld, lost>>
    BY <1>13, OwnsDirs, Zenon DEF SbrkFails, InUser
  <2>2. SamePending /\ SameFaults
    BY <1>1, <1>13, <2>1, CountsTellHolders, ConfinedSbrk, QuietStep, Zenon
  <2>3. sz[p] + 1 <= heapLimit(p) => sz[p] \in Page
    BY <1>0, MemoryAssumption DEF heapLimit, Page, TypeOK
  <2>4. CASE UNCHANGED <<freelist, refCount, PhysicalPageTotal, tableVars>>
    BY <2>1, <2>2, <2>4, CountKeep, Zenon DEF SameKernel, tableVars
  <2>5. QED
    BY <1>4, <1>13, <2>1, <2>2, <2>3, <2>4, Zenon DEF SbrkFails
<1>6. ASSUME NEW p \in Proc, ForkFree(p) \/ ExecFree(p) PROVE CountIsExact'
  <2>1. /\ pc[p] \in {"forkFree", "free"} /\ dir[p] \in Pgdir /\ UNCHANGED <<kheld, lost>>
        /\ pc[p] \notin {"forkInc", "copy", "dec"}
    BY <1>6, OwnsDirs, Zenon DEF ForkFree, ExecFree, Builders
  <2>2. SamePending /\ SameFaults
    BY <1>1, <1>6, <2>1, CountsTellHolders, ConfinedFork, ConfinedExec, QuietStep, Zenon
       DEF Fork, Exec
  <2>3. ASSUME NEW a \in Page, IsFirst(a, Mapped(dir[p])), ReleasePage(dir[p], a)
        PROVE  CountIsExact'
    BY <1>4, <2>1, <2>2, <2>3, FirstIsMapped, Zenon
  <2>4. CASE UNCHANGED <<freelist, refCount, PhysicalPageTotal, tableVars>>
    BY <2>1, <2>2, <2>4, CountKeep, Zenon DEF SameKernel, tableVars
  <2>5. QED
    BY <1>6, <2>3, <2>4, Zenon DEF ForkFree, ExecFree
<1>7. ASSUME NEW p \in Proc, WaitFree(p) PROVE CountIsExact'
  <2>1. pc[p] = "user" /\ pgdir[p] \in Pgdir /\ UNCHANGED <<kheld, lost>>
    BY <1>7, OwnsDirs, Zenon DEF WaitFree, IInv, DirOwned
  <2>2. SamePending /\ SameFaults
    BY <1>1, <1>7, <2>1, CountsTellHolders, ConfinedExit, QuietStep, Zenon
  <2>3. ASSUME NEW a \in Page, IsFirst(a, Mapped(pgdir[p])), ReleasePage(pgdir[p], a)
        PROVE  CountIsExact'
    BY <1>4, <2>1, <2>2, <2>3, FirstIsMapped, Zenon
  <2>4. CASE UNCHANGED <<freelist, refCount, PhysicalPageTotal, tableVars>>
    BY <2>1, <2>2, <2>4, CountKeep DEF SameKernel, tableVars
  <2>5. QED
    BY <1>7, <2>3, <2>4, Zenon DEF WaitFree
<1>8. ASSUME NEW p \in Proc, ExecStack(p) \/ \E a \in Page : ExecAlloc(p, a)
      PROVE  CountIsExact'
  <2>1. pc[p] = "exec" /\ dir[p] \in Pgdir /\ UNCHANGED <<kheld, lost>>
    BY <1>8, OwnsDirs, Zenon DEF ExecStack, ExecAlloc, Builders
  <2>2. SamePending /\ SameFaults
    BY <1>1, <1>8, <2>1, CountsTellHolders, ConfinedExec, QuietStep, Zenon DEF Exec
  <2>3. \A b \in Page : ~Pending(dir[p], b)
    BY <2>1, NotPending, Zenon
  <2>4. CASE allocFails /\ UNCHANGED tableVars
    BY <2>1, <2>2, <2>4, CountKeep, CountDrop, Zenon DEF allocFails, SameKernel, tableVars
  <2>5. ASSUME NEW f \in Frame, NEW a \in Page, kalloc(f), MapFrame(dir[p], a, f, TRUE),
               pte[dir[p]][a] = None
        PROVE  CountIsExact'
    BY <2>1, <2>2, <2>3, <2>5, CountMap, Zenon DEF SameKernel
  <2>6. CASE ExecStack(p)
    <3>1. USERTOP - 1 \in Page /\ pte[dir[p]][USERTOP - 1] = None
      BY <2>1, MemoryAssumption
         DEF Page, IInv, EmptyWhereUnused, UnownedIsEmpty, ForkAhead, ExecAhead
    <3>2. QED
      BY <2>4, <2>5, <2>6, <3>1, Zenon DEF ExecStack
  <2>7. ASSUME NEW a \in Page, ExecAlloc(p, a) PROVE CountIsExact'
    <3>1. pte[dir[p]][a] = None
      BY <2>1, <2>7, Zenon
         DEF ExecAlloc, IsFirst, IInv, EmptyWhereUnused, UnownedIsEmpty, ForkAhead, ExecAhead
    <3>2. QED
      BY <2>4, <2>5, <2>7, <3>1, Zenon DEF ExecAlloc
  <2>8. QED
    BY <1>8, <2>6, <2>7, Zenon
<1>9. ASSUME NEW p \in Proc, Confined(p), UNCHANGED <<refCount, kheld, lost, pte>>,
             pc[p] \notin {"forkInc", "copy", "dec"}, pc'[p] \notin {"forkInc", "copy", "dec"}
      PROVE  CountIsExact'
  BY <1>9, SameHolders, CountKeep, Zenon DEF SameKernel
<1>10. ASSUME NEW p \in Proc, NEW a \in Page, FaultCount(p, a) PROVE CountIsExact'
  <2>1. pc[p] = "user" /\ UNCHANGED <<refCount, kheld, lost, pte>>
    BY <1>10, Zenon DEF FaultCount, AtPage, InUser, frameVars, tableVars
  <2>2. UNCHANGED pc \/ pc' = [pc EXCEPT ![p] = "cow"]
    BY <1>10, Zenon DEF FaultCount, threadVars
  <2>3. pc'[p] \in {"user", "cow"}
    BY <1>0, <2>1, <2>2, TableTypes, Zenon
  <2>4. QED
    BY <1>9, <1>10, <2>1, <2>3, ConfinedFault, Zenon DEF Fault
<1>11. ASSUME NEW p \in Proc,
              \/ NullFault(p) \/ CowReuse(p) \/ ForkDone(p) \/ Exit(p)
              \/ \E c \in Proc, d \in Pgdir : ForkStart(p, c, d)
              \/ ExecBad(p) \/ \E d \in Pgdir : ExecStart(p, d)
              \/ \E a \in Page, v \in Value : Store(p, a, v)
       PROVE  CountIsExact'
  <2>1. UNCHANGED <<refCount, kheld, lost, pte>> /\ pc[p] \notin {"forkInc", "copy", "dec"}
    BY <1>11, Zenon
       DEF NullFault, CowReuse, ForkDone, Exit, ForkStart, ExecStart, ExecBad, Store,
       AtPage, InUser, frameVars, tableVars
  <2>2. Confined(p)
    BY <1>11, ConfinedFault, CountsTellHolders, ConfinedFork, ConfinedExec, ConfinedExit,
       Zenon DEF Fault, Fork, Exec
  <2>3. pc'[p] \in Between
    BY <1>11, QuietStep, Zenon DEF Exec
  <2>4. QED
    BY <1>9, <2>1, <2>2, <2>3, Zenon DEF Between
<1>12. QED
  BY <1>2, <1>3, <1>5, <1>6, <1>7, <1>8, <1>10, <1>11, <1>13, CountCowAlloc, CountCowCopy,
     CountCowDecrease, CountForkMap, CountForkIncrease, CountKernel, Zenon
     DEF Next, Fault, Fork, Exec

-----------------------------------------------------------------------------
(* The initial state: one directory with one page. *)

(* userinit establishes the invariant. *)
LEMMA InitIInv ==
  ASSUME Init
  PROVE  IInv
<1> DEFINE f == Head(BootList)
<1>1. PICK d \in Pgdir :
        /\ freelist = Tail(BootList)
        /\ refCount = [g \in Frame |-> IF g = f THEN 1 ELSE 0]
        /\ PhysicalPageTotal = 1
        /\ kheld = {} /\ lost = {}
        /\ mem = [g \in Frame |-> IF g = f THEN Text ELSE Zero]
        /\ pte = [e \in Pgdir |-> [a \in Page |-> IF e = d /\ a = 0 THEN f ELSE None]]
        /\ writable = [e \in Pgdir |-> IF e = d THEN {0} ELSE {}]
        /\ state = [p \in Proc |-> IF p = InitProc THEN "RUNNABLE" ELSE "UNUSED"]
        /\ pgdir = [p \in Proc |-> IF p = InitProc THEN d ELSE None]
        /\ sz = [p \in Proc |-> IF p = InitProc THEN 1 ELSE 0]
        /\ stackSize = [p \in Proc |-> 0]
        /\ killed = [p \in Proc |-> FALSE]
        /\ panicked = FALSE
        /\ pc = [p \in Proc |-> "user"]
        /\ va = [p \in Proc |-> 0]
        /\ cnt = [p \in Proc |-> 0]
        /\ fr = [p \in Proc |-> None]
        /\ dir = [p \in Proc |-> None]
        /\ child = [p \in Proc |-> None]
        /\ todo = [p \in Proc |-> {}]
  BY Zenon DEF Init
<1>2. /\ f \in Frame /\ freelist \in Seq(Frame) /\ Len(freelist) = Len(BootList) - 1
      /\ \A i \in 1..Len(freelist) : /\ i + 1 \in 1..Len(BootList)
                                     /\ freelist[i] = BootList[i + 1] /\ freelist[i] # f
  <2>1. /\ BootList \in Seq(Frame) /\ BootList # <<>> /\ f = BootList[1]
        /\ Len(BootList) \in Nat /\ Len(BootList) >= 1
    BY MemoryAssumption
  <2>2. /\ f \in Frame /\ freelist \in Seq(Frame) /\ Len(freelist) = Len(BootList) - 1
        /\ \A i \in 1..Len(freelist) : /\ i + 1 \in 1..Len(BootList) /\ i + 1 # 1
                                       /\ freelist[i] = BootList[i + 1]
    BY <1>1, <2>1
  <2>3. 1 \in 1..Len(BootList)
    BY <2>1
  <2>4. QED
    BY <2>1, <2>2, <2>3, MemoryAssumption, Zenon
<1> HIDE DEF f
<1>3. 0 \in Page /\ USERTOP \in Nat /\ USERTOP >= 1 /\ "user" \in PC
  BY MemoryAssumption DEF Page, PC
<1>4. UINT_MAX \in Nat /\ UINT_MAX >= 1
  BY CountAssumption
<1>5. None \notin Proc \cup Pgdir \cup Frame /\ InitProc \in Proc
  BY ProcAssumption, Zenon
<1>6. TypeOK
  <2>1. /\ freelist \in Seq(Frame) /\ refCount \in [Frame -> 0..UINT_MAX]
        /\ PhysicalPageTotal \in Int /\ kheld \in SUBSET Frame /\ lost \in SUBSET Frame
    BY <1>1, <1>2, <1>4
  <2>2. /\ mem \in [Frame -> Value]
        /\ pte \in [Pgdir -> [Page -> Frame \cup {None}]]
        /\ writable \in [Pgdir -> SUBSET Page]
    BY <1>1, <1>2, <1>3, MemoryAssumption, ZenonT(40)
  <2>3. /\ state \in [Proc -> {"UNUSED", "EMBRYO", "RUNNABLE", "ZOMBIE"}]
        /\ pgdir \in [Proc -> Pgdir \cup {None}]
        /\ sz \in [Proc -> 0..USERTOP] /\ stackSize \in [Proc -> 0..USERTOP]
    BY <1>1, <1>3
  <2>4. /\ pc \in [Proc -> PC] /\ va \in [Proc -> Page] /\ cnt \in [Proc -> 0..UINT_MAX]
        /\ fr \in [Proc -> Frame \cup {None}] /\ dir \in [Proc -> Pgdir \cup {None}]
        /\ child \in [Proc -> Proc \cup {None}] /\ todo \in [Proc -> SUBSET Page]
    BY <1>1, <1>3, <1>4
  <2>5. killed \in [Proc -> BOOLEAN] /\ panicked \in BOOLEAN
    BY <1>1, Zenon
  <2>6. QED
    BY <2>1, <2>2, <2>3, <2>4, <2>5, Zenon DEF TypeOK
<1>7. DirOwned /\ ChildOwned
  BY <1>1, <1>5, Zenon DEF DirOwned, ChildOwned, Builders, Forkers
<1>8. EmptyWhereUnused
  BY <1>1, <1>5, Zenon DEF EmptyWhereUnused, UnownedIsEmpty, ForkAhead, ExecAhead
<1>9. WritableIsMapped /\ ThreadInv /\ CopyIsFresh /\ OneMeansPrivate
  BY <1>1, <1>2, <1>3, <1>5, Zenon DEF WritableIsMapped, ThreadInv, CopyIsFresh, OneMeansPrivate
<1>10. WritableIsPrivate
  BY <1>1, <1>2, <1>3, <1>5, Zenon DEF WritableIsPrivate
<1>11. FreeIsUnused
  <2>1. \A i, j \in 1..Len(freelist) : freelist[j] = freelist[i] => j = i
    <3>1. SUFFICES ASSUME NEW i \in 1..Len(freelist), NEW j \in 1..Len(freelist),
                          freelist[j] = freelist[i]
                   PROVE  j = i
      OBVIOUS
    <3>2. i + 1 = j + 1
      BY <1>2, <3>1, MemoryAssumption, Zenon
    <3>3. QED
      BY <3>2
  <2>2. \A i \in 1..Len(freelist) : freelist[i] \in Frame
    BY <1>2
  <2>3. \A i \in 1..Len(freelist) : \A e \in Pgdir, a \in Page : pte[e][a] # freelist[i]
    BY <1>1, <1>2, <1>5, <2>2, Zenon
  <2>4. QED
    BY <1>1, <2>1, <2>3, Zenon DEF FreeIsUnused
<1>12. CountIsExact
  <2>1. \A e \in Pgdir, a \in Page : ~Pending(e, a)
    BY <1>1, Zenon DEF Pending
  <2>2. ASSUME NEW g \in Frame
        PROVE  refCount[g] = Cardinality(MapRefs(g)) + Cardinality(FaultRefs(g)) + KernelRefs(g)
    <3>1. FaultRefs(g) = {} /\ KernelRefs(g) = 0
      BY <1>1 DEF FaultRefs, KernelRefs
    <3>2. CASE g = f
      <4>1. \A e \in Pgdir, a \in Page : <<e, a>> \in MapRefs(g) <=> e = d /\ a = 0
        <5>1. \A e \in Pgdir, a \in Page : pte[e][a] = f <=> e = d /\ a = 0
          BY <1>1, <1>2, <1>3, <1>5, Zenon
        <5>2. QED
          BY <2>1, <3>2, <5>1, MapRefsDef, Zenon
      <4>2. MapRefs(g) = {<<d, 0>>}
        BY <1>3, <4>1, MapRefsDef
      <4>3. refCount[g] = 1
        BY <1>1, <3>2, Zenon
      <4>4. Cardinality(MapRefs(g)) = 1 /\ Cardinality(FaultRefs(g)) = 0
        BY <3>1, <4>2, FS_EmptySet, FS_Singleton, Zenon
      <4>5. QED
        BY <3>1, <4>3, <4>4
    <3>3. CASE g # f
      <4>1. \A e \in Pgdir, a \in Page : <<e, a>> \notin MapRefs(g)
        BY <1>1, <1>5, <3>3, MapRefsDef, Zenon
      <4>2. MapRefs(g) = {}
        BY <4>1, MapRefsDef
      <4>3. QED
        BY <1>1, <3>1, <3>3, <4>2, FS_EmptySet
    <3>4. QED
      BY <3>2, <3>3, Zenon
  <2>3. QED
    BY <2>2, Zenon DEF CountIsExact
<1>13. QED
  BY <1>6, <1>7, <1>8, <1>9, <1>10, <1>11, <1>12, Zenon DEF IInv

-----------------------------------------------------------------------------
(* The induction, and what it gives. *)

(* IInv is inductive: one step of any thread of the kernel, or none,        *)
(* keeps it.                                                                *)
LEMMA IInvStep ==
  ASSUME IInv, [Next]_vars
  PROVE  IInv'
<1>0. CountsTell
  BY CountsTellHolders, Zenon
<1>1. CASE Next
  <2>1. TypeOK' /\ DirOwned' /\ ChildOwned'
    BY <1>1, TypeOKStep, DirOwnedStep, ChildOwnedStep, Zenon
  <2>2. EmptyWhereUnused' /\ WritableIsMapped' /\ WritableIsPrivate'
    BY <1>1, EmptyWhereUnusedStep, WritableStep, Zenon
  <2>3. ThreadInv' /\ CopyIsFresh' /\ OneMeansPrivate'
    BY <1>0, <1>1, ThreadInvStep, CopyIsFreshStep, OneMeansPrivateStep, Zenon
  <2>4. CountIsExact' /\ FreeIsUnused'
    BY <1>0, <1>1, CountIsExactStep, FreeIsUnusedStep, Zenon
  <2>5. QED
    BY <2>1, <2>2, <2>3, <2>4, Zenon DEF IInv
<1>2. CASE UNCHANGED vars
  BY <1>2, StutterIInv, Zenon
<1>3. QED
  BY <1>1, <1>2, Zenon

(* The strengthened invariant holds in every reachable state. *)
THEOREM Invariant == Spec => []IInv
<1>1. Init => IInv
  BY InitIInv, Zenon
<1>2. IInv /\ [Next]_vars => IInv'
  BY IInvStep, Zenon
<1>3. QED
  BY <1>1, <1>2, PTL DEF Spec

(* Every variable keeps its type, so no count of kalloc.c ever leaves the   *)
(* range of a uint.                                                         *)
THEOREM TypeCorrect == Spec => []TypeOK
<1>1. IInv => TypeOK
  BY Zenon DEF IInv
<1>2. QED
  BY <1>1, Invariant, PTL

(* The count that PageFault reads is the number of holders of the frame, in *)
(* every interleaving of copyuvm, PageFault, deallocuvm, exec and freevm.   *)
THEOREM CountsAreExact == Spec => []CountIsExact
<1>1. IInv => CountIsExact
  BY Zenon DEF IInv
<1>2. QED
  BY <1>1, Invariant, PTL

(* A frame that some page table maps with PTE_W is mapped nowhere else.     *)
THEOREM WritableFramesArePrivate == Spec => []WritableIsPrivate
<1>1. IInv => WritableIsPrivate
  BY Zenon DEF IInv
<1>2. QED
  BY <1>1, Invariant, PTL

(* kalloc never hands out a frame that something still uses.                *)
THEOREM FreeFramesAreUnused == Spec => []FreeIsUnused
<1>1. IInv => FreeIsUnused
  BY Zenon DEF IInv
<1>2. QED
  BY <1>1, Invariant, PTL

(* Sharing frames copy-on-write is invisible to user programs: the page     *)
(* tables, with every interleaving of copyuvm, PageFault, exec, sbrk and    *)
(* freevm, implement one private memory per process (PrivateMemory), which  *)
(* only steps of that process change.                                       *)
THEOREM MemoriesArePrivate == Spec => MemoryIsPrivate
<1>1. Init => ViewInv /\ PM!PMInit
  BY InitView, Zenon
<1>2. IInv /\ ViewInv /\ [Next]_vars => ViewInv' /\ [MemoryStep]_vars
  <2>1. ASSUME IInv, ViewInv, Next PROVE ViewInv' /\ MemoryStep
    <3>1. CountsTell
      BY <2>1, CountsTellHolders, Zenon
    <3>2. QED
      BY <2>1, <3>1, ViewInvStep, StepRefines, Zenon
  <2>2. ASSUME ViewInv, UNCHANGED vars PROVE ViewInv'
    BY <2>2, StutterView, Zenon
  <2>3. QED
    BY <2>1, <2>2, Zenon
<1>3. QED
  BY <1>1, <1>2, Invariant, PTL DEF Spec, MemoryIsPrivate

(* So CopyOnWrite implements PrivateMemory as a specification of its own,   *)
(* whose steps do not say who takes them.                                   *)
THEOREM Implements == Spec => PM!PMSpec
<1>1. IInv /\ [MemoryStep]_vars => [PM!PMNext]_(PM!pmVars)
  <2>1. ASSUME IInv, NEW p \in Proc, ForkDone(p), PM!PMFork(p, child[p]) PROVE PM!PMNext
    <3>1. child[p] \in Proc
      BY <2>1, Zenon DEF ForkDone, IInv, ChildOwned, Forkers
    <3>2. QED
      BY <2>1, <3>1, Zenon DEF PM!PMNext
  <2>2. ASSUME IInv, MemoryStep PROVE PM!PMNext \/ UNCHANGED PM!pmVars
    BY <2>1, <2>2, Zenon DEF MemoryStep, PM!PMNext
  <2>3. ASSUME UNCHANGED vars PROVE UNCHANGED PM!pmVars
    BY <2>3, StutterView, Zenon DEF PM!pmVars
  <2>4. QED
    BY <2>2, <2>3, Zenon
<1>2. QED
  BY <1>1, Invariant, MemoriesArePrivate, PTL DEF MemoryIsPrivate, PM!PMSpec
=============================================================================
