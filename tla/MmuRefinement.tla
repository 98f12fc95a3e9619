----------------------------- MODULE MmuRefinement -----------------------------
(* Armv7Mmu implements AddressSpace, for every value of the constants.         *)
EXTENDS MmuCoherence

View == [v \in VPages |-> virt_to_phy(v)]

\* A step of AddressSpace or none, seen through the refinement mapping.
PromiseStep == [Promise!Next]_(Promise!vars)

ViewOK == View \in [VPages -> Translations]

LEMMA ViewType == TypeOK => ViewOK
  BY VirtToPhyType DEF View, ViewOK

LEMMA InitPromise == Init => Promise!Init
<1> SUFFICES ASSUME Init PROVE Promise!Init
  OBVIOUS
<1>1. View \in [VPages -> Translations]
  BY InitType, ViewType DEF ViewOK
<1>2. ~Switching
  BY CallType DEF Init, Booting, Switching
<1>3. QED
  BY <1>1, <1>2 DEF Promise!Init, Init, Booting, View

(* A step that leaves the view, the cache and the debt as they were.           *)
LEMMA StutterPromise ==
    ASSUME UNCHANGED <<tlb, owed>>, Switching' <=> Switching,
           \A v \in VPages : virt_to_phy(v)' = virt_to_phy(v)
    PROVE  PromiseStep
<1>1. [v \in VPages |-> virt_to_phy(v)]' = [v \in VPages |-> virt_to_phy(v)]
  OBVIOUS
<1>2. Switching' = Switching
  BY SMT DEF Switching
<1>3. QED
  BY <1>1, <1>2 DEF PromiseStep, Promise!vars

(* A step that changes the view and says so.                                   *)
LEMMA ChangePromise ==
    ASSUME TypeOK', ~Switching, ~Switching', owed' = "barrier", UNCHANGED tlb
    PROVE  PromiseStep
<1>0. ViewOK'
  BY ViewType, PTL
<1>1. View' \in [VPages -> Translations]
  BY <1>0 DEF ViewOK
<1>2. Promise!Change
  BY <1>1 DEF Promise!Change, View, Switching
<1>3. QED
  BY <1>2 DEF PromiseStep, Promise!Next

LEMMA StorePromise ==
    ASSUME TypeOK, TypeOK', NEW r, WellFormed(r), NEW next \in Calls,
           ~Switching, next.op \notin {"enable", "switch"},
           Perform(r, next), OweForStore(r),
           UNCHANGED <<enabled, ttbr0, ttbr1, mem, tlb, walk>>
    PROVE  PromiseStep
<1>1. ~Switching'
  BY CallType, PerformType DEF Switching
<1>2. CASE r.err = "ESUCC"
  BY <1>1, <1>2, ChangePromise DEF OweForStore
<1>3. CASE r.err # "ESUCC"
  <2>1. buf' = buf /\ owed' = owed
    BY <1>3, PerformType DEF OweForStore
  <2>2. QED
    <3>1. Switching' <=> Switching
      BY <1>1
    <3>2. QED
      BY <2>1, <3>1, SameTables, StutterPromise
<1>4. QED
  BY <1>2, <1>3

(* A write of a TTBR or of SCTLR.  With the MMU off a page is its own          *)
(* translation, whatever the registers hold.                                   *)
LEMMA RegisterPromise ==
    ASSUME TypeOK', ~Switching, OweForRegister, enabled => enabled',
           enabled' <=> Switching', UNCHANGED <<mem, buf, tlb, walk>>
    PROVE  PromiseStep
<1>1. owed' \in {owed, "barrier"}
  BY DEF OweForRegister
<1>2. CASE enabled'
  <2>1. ViewOK'
    BY ViewType, PTL
  <2>2. Switching' = TRUE
    BY <1>2, SMT DEF Switching
  <2>3. View' \in [VPages -> Translations]
    BY <2>1 DEF ViewOK
  <2>4. Promise!Switch
    BY <1>1, <2>2, <2>3 DEF Promise!Switch, View
  <2>5. QED
    BY <2>4 DEF PromiseStep, Promise!Next
<1>3. CASE ~enabled'
  <2>1. ~Switching' /\ \A v \in VPages : virt_to_phy(v)' = virt_to_phy(v)
    BY <1>3 DEF virt_to_phy
  <2>2. CASE owed' = owed
    BY <2>1, <2>2, StutterPromise
  <2>3. CASE owed' = "barrier"
    BY <2>1, <2>3, ChangePromise
  <2>4. QED
    BY <1>1, <2>2, <2>3
<1>4. QED
  BY <1>2, <1>3

LEMMA DsbPromise == ASSUME Dsb PROVE PromiseStep
<1>1. /\ UNCHANGED <<enabled, ttbr0, ttbr1, mem, buf, tlb>>
      /\ owed' = IF owed = "barrier" THEN "flush" ELSE owed
  BY DEF Dsb, mmuVars
<1>2. Switching' <=> Switching
  BY DEF Dsb, Switching, Idle
<1>3. \A v \in VPages : virt_to_phy(v)' = virt_to_phy(v)
  BY <1>1, SameTables
<1>4. CASE owed = "barrier"
  <2>1. View' = View
    BY <1>3 DEF View
  <2>2. Switching' = Switching
    BY <1>2, SMT DEF Switching
  <2>3. Promise!Barrier
    BY <1>1, <1>4, <2>1, <2>2 DEF Promise!Barrier, View
  <2>4. QED
    BY <2>3 DEF PromiseStep, Promise!Next
<1>5. CASE owed # "barrier"
  BY <1>1, <1>2, <1>3, <1>5, StutterPromise
<1>6. QED
  BY <1>4, <1>5

LEMMA FlushPromise == ASSUME InvalidateTlb PROVE PromiseStep
<1>1. /\ UNCHANGED <<enabled, ttbr0, ttbr1, mem, buf>>
      /\ tlb' = [v \in VPages |-> None]
      /\ owed' = IF owed = "flush" THEN "nothing" ELSE owed
  BY DEF InvalidateTlb
<1>2. ~Switching'
  BY CallType DEF InvalidateTlb, Switching
<1>3. Switching' = FALSE
  BY <1>2, SMT DEF Switching
<1>4. View' = View
  BY <1>1, SameTables DEF View
<1>5. Promise!Flush
  BY <1>1, <1>3, <1>4 DEF Promise!Flush, View
<1>6. QED
  BY <1>5 DEF PromiseStep, Promise!Next

(* The walker caches one page's translation or none.                           *)
LEMMA WalkPromise ==
    ASSUME TypeOK, TypeOK', NEW v \in VPages,
           UNCHANGED <<enabled, ttbr0, ttbr1, mem, buf, call, owed>>,
           \A x \in VPages \ {v} : tlb'[x] = tlb[x],
           Settled => tlb'[v] \in {tlb[v], virt_to_phy(v)}
    PROVE  PromiseStep
<1>1. \A x \in VPages : virt_to_phy(x)' = virt_to_phy(x)
  BY SameTables
<1>2. Switching' = Switching
  BY SMT DEF Switching
<1>3. /\ tlb  \in [VPages -> Translations \union {None}]
      /\ tlb' \in [VPages -> Translations \union {None}]
  BY DEF TypeOK
<1>4. CASE tlb'[v] = tlb[v]
  <2>1. tlb' = tlb
    BY <1>3, <1>4
  <2>2. QED
    BY <1>1, <1>2, <2>1, StutterPromise
<1>5. CASE tlb'[v] # tlb[v]
  <2>1. Settled => tlb'[v] = View[v]
    BY <1>5 DEF View
  <2>2. View' = View
    BY <1>1 DEF View
  <2>3. Promise!Settled => Settled
    BY DEF Promise!Settled, Settled
  <2>4. Promise!Cache(v)
    BY <1>2, <1>3, <2>1, <2>2, <2>3 DEF Promise!Cache, View
  <2>5. QED
    BY <2>4 DEF PromiseStep, Promise!Next
<1>6. QED
  BY <1>4, <1>5

LEMMA EvictPromise == ASSUME NEW v \in VPages, Evict(v) PROVE PromiseStep
<1>1. /\ UNCHANGED <<enabled, ttbr0, ttbr1, mem, buf, call, owed>>
      /\ tlb' = [tlb EXCEPT ![v] = None]
  BY DEF Evict, cpuVars
<1>2. View' = View
  BY <1>1, SameTables DEF View
<1>3. Switching' = Switching
  BY <1>1, SMT DEF Switching
<1>4. Promise!Evict(v)
  BY <1>1, <1>2, <1>3 DEF Promise!Evict, View
<1>5. QED
  BY <1>4 DEF PromiseStep, Promise!Next

-----------------------------------------------------------------------------

LEMMA NextPromise == Coherence /\ [Next]_vars => PromiseStep
<1> SUFFICES ASSUME Coherence, [Next]_vars PROVE PromiseStep
  OBVIOUS
<1>0. TypeOK /\ TypeOK'
  BY NextType DEF Coherence
<1> USE DEF cpuVars, mmuVars
<1>1. ASSUME NEW e \in MapRequests, CreateEntry(e) PROVE PromiseStep
  <2>1. WellFormed(arch_mmu_create_entry(e))
    BY <1>0, SystemAssumption, CreateEntryWellFormed DEF Request
  <2>2. QED
    BY <1>0, <1>1, <2>1, CallType, StorePromise DEF CreateEntry, Idle, Switching
<1>2. ASSUME NEW d \in DirRequests, MapPgd(d) PROVE PromiseStep
  BY <1>0, <1>2, MapPgdWellFormed, CallType, StorePromise DEF MapPgd, Idle, Switching
<1>3. ASSUME NEW r \in NewRequests, CreateNewEntry(r[1], r[2]) PROVE PromiseStep
  <2>1. \A v \in VPages : virt_to_phy(v)' = virt_to_phy(v)
    BY <1>0, <1>3, NewEntryKeepsView
  <2>2. WellFormed(arch_mmu_create_new_entry(r[1], r[2]))
    BY <1>0, <1>3, NewEntryWord DEF CreateNewEntry
  <2>3. Switching' <=> Switching
    BY <1>0, <1>3, <2>2, CallType, PerformType DEF CreateNewEntry, Switching, Idle
  <2>4. QED
    BY <1>3, <2>1, <2>3, StutterPromise DEF CreateNewEntry
<1>4. ASSUME EnableMmu PROVE PromiseStep
  BY <1>0, <1>4, CallType, RegisterPromise DEF EnableMmu, Switching, Idle
<1>5. ASSUME NEW p, SetUserPageDir(p) PROVE PromiseStep
  <2>1. CASE p \in UserPgds \union KernPgds
    BY <1>0, <1>5, <2>1, CallType, RegisterPromise DEF SetUserPageDir, Switching, Idle
  <2>2. CASE p \notin UserPgds \union KernPgds
    BY <1>5, <2>2, SameTables, StutterPromise DEF SetUserPageDir, Switching
  <2>3. QED
    BY <2>1, <2>2
<1>6. ASSUME NEW p, SetKernPgd(p) PROVE PromiseStep
  <2>1. CASE p \in KernPgds
    BY <1>0, <1>6, <2>1, CallType, RegisterPromise DEF SetKernPgd, Switching, Idle
  <2>2. CASE p \notin KernPgds
    BY <1>6, <2>2, SameTables, StutterPromise DEF SetKernPgd, Switching
  <2>3. QED
    BY <2>1, <2>2
<1>7. ASSUME NEW v \in InvalPages, InvalidatePage(v) PROVE PromiseStep
  <2>1. v \in VPages
    BY SystemAssumption
  <2>2. WellFormed(arch_mmu_create_entry(Unmapping(v)))
    BY <1>0, <2>1, UnmappingIsRequest, CreateEntryWellFormed
  <2>3. QED
    BY <1>0, <1>7, <2>1, <2>2, CallType, StorePromise DEF InvalidatePage, Idle, Switching
<1>8. ASSUME NEW r \in Regions, InvalidateRegion(r[1], r[2]) PROVE PromiseStep
  <2>1. Switching' <=> Switching
    BY <1>8 DEF InvalidateRegion, Switching, Idle
  <2>2. QED
    BY <1>8, <2>1, SameTables, StutterPromise DEF InvalidateRegion
<1>9. ASSUME RegionLoop PROVE PromiseStep
  <2>1. call.op = "region" /\ call \in Calls /\ call.cur \in VPages
    BY <1>0, <1>9 DEF RegionLoop, TypeOK, Calls
  <2>2. WellFormed(arch_mmu_create_entry(Unmapping(call.cur)))
    BY <1>0, <2>1, UnmappingIsRequest, CreateEntryWellFormed
  <2>3. /\ AfterPage(call) \in Calls /\ AfterPage(call).op = "region"
        /\ [call EXCEPT !.op = "sync"].op = "sync"
    BY <2>1, NextPageType DEF AfterPage, Calls
  <2>4. CASE call.i < call.cnt
    BY <1>0, <1>9, <2>1, <2>2, <2>3, <2>4, StorePromise DEF RegionLoop, Switching
  <2>5. CASE ~(call.i < call.cnt)
    <3>1. Switching' <=> Switching
      BY <1>9, <2>1, <2>3, <2>5 DEF RegionLoop, Switching
    <3>2. QED
      BY <1>9, <2>5, <3>1, SameTables, StutterPromise DEF RegionLoop
  <2>6. QED
    BY <2>4, <2>5
<1>10. ASSUME Dsb PROVE PromiseStep
  BY <1>10, DsbPromise
<1>11. ASSUME InvalidateTlb PROVE PromiseStep
  BY <1>11, FlushPromise
<1>12. ASSUME NEW w \in Words, Drain(w) PROVE PromiseStep
  <2>1. \A v \in VPages : virt_to_phy(v)' = virt_to_phy(v)
    BY <1>0, <1>12, DrainKeepsView
  <2>2. QED
    BY <1>12, <2>1, StutterPromise DEF Drain, Switching
<1>13. ASSUME NEW v \in VPages, WalkPgd(v) PROVE PromiseStep
  <2>1. Settled => tlb'[v] \in {tlb[v], virt_to_phy(v)}
    BY <1>13, WalkPgdFills DEF WalkPgd
  <2>2. QED
    BY <1>0, <1>13, <2>1, WalksOnePage, WalkPromise DEF WalkPgd
<1>14. ASSUME NEW v \in VPages, Evict(v) PROVE PromiseStep
  BY <1>14, EvictPromise
<1>15. ASSUME WalkPgtb PROVE PromiseStep
  <2>1. PICK v \in VPages : v = walk.va
    BY <1>0, <1>15, WalksOnePage
  <2>2. Settled => tlb'[v] \in {tlb[v], virt_to_phy(v)}
    BY <1>15, <2>1, WalkPgtbFills
  <2>3. QED
    BY <1>0, <1>15, <2>1, <2>2, WalksOnePage, WalkPromise DEF WalkPgtb
<1>16. ASSUME UNCHANGED vars PROVE PromiseStep
  BY <1>16, SameTables, StutterPromise DEF vars, Switching
<1>17. QED
  BY <1>1, <1>2, <1>3, <1>4, <1>5, <1>6, <1>7, <1>8, <1>9, <1>10, <1>11, <1>12, <1>13,
     <1>14, <1>15, <1>16 DEF Next, Cpu, ClientCall, Hardware

(* The driver, its generic layer, the store buffer and the walker together do  *)
(* nothing the abstract address space does not allow.                          *)
THEOREM Refinement == Spec => ImplementsAddressSpace
<1>1. [][Next]_vars /\ []Coherence => [][Promise!Next]_(Promise!vars)
  BY NextPromise, PTL DEF PromiseStep
<1>2. QED
  BY <1>1, InitPromise, CoherenceHolds, PTL DEF Spec, ImplementsAddressSpace, Promise!Spec
=============================================================================
