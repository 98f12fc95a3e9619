------------------------------- MODULE MmuProofs -------------------------------
(* Proofs about Armv7Mmu, for every split, every size of the tables, every set *)
(* of requests and every size of the store buffer and of the TLB.              *)
EXTENDS MmuProperties, TLAPS

-----------------------------------------------------------------------------
(* The tables.                                                                 *)

(* Every page's two words are words of memory: PgdIdx never runs past the      *)
(* directory that is_higher_half selects.                                      *)
LEMMA PgdWordInWords ==
    ASSUME ttbr0 \in KernPgds \union UserPgds, ttbr1 \in KernPgds, NEW v \in VPages
    PROVE  PgdWord(v) \in Words
<1>1. PgdIdx(v) \in 0..(PgdCnt - 1)
  BY DEF VPages, PgdIdx
<1>2. CASE is_higher_half(v)
  BY <1>1, <1>2 DEF PgdWord, PgdOf, Words
<1>3. CASE ~is_higher_half(v)
  <2>1. PgdIdx(v) \in 0..(DivSection - 1)
    <3>1. CASE PgDiv = 0
      BY <3>1, <1>1, GeometryAssumption, Z3 DEF DivSection
    <3>2. CASE PgDiv > 0
      BY <3>2, <1>1, <1>3, GeometryAssumption DEF is_higher_half
    <3>3. QED
      BY <3>1, <3>2, GeometryAssumption
  <2>2. PgdOf(v) \in KernPgds \union UserPgds
    BY <1>3 DEF PgdOf
  <2>3. QED
    BY <1>1, <2>1, <2>2 DEF PgdWord, Words
<1>4. QED
  BY <1>2, <1>3

LEMMA PgtbWordInWords ==
    ASSUME NEW l1 \in Table, NEW v \in VPages
    PROVE  PgtbWord(l1, v) \in Words
  BY DEF Table, VPages, PgtbWord, PgtbIdx, Words

(* A descriptor that says "table" is one.                                      *)
LEMMA TableType ==
    ASSUME NEW d \in Descs, d.type = "table"
    PROVE  d \in Table
  BY DEF Descs, Table, Invalid, Section, SmallPg

(* Resolve yields a translation.                                               *)
LEMMA ResolveType ==
    ASSUME NEW v \in VPages, NEW l1 \in Descs, NEW l2 \in Descs
    PROVE  Resolve(v, l1, l2) \in Translations
<1>1. PgtbIdx(v) \in 0..(PgtbCnt - 1)
  BY DEF VPages, PgtbIdx
<1>2. Fault \in Translations
  BY GeometryAssumption DEF Fault, Translations, Domains, AccPerms
<1>3. CASE l1.type = "section"
  <2>1. l1 \in Section
    BY <1>3 DEF Descs, Table, Invalid, Section, SmallPg
  <2>2. QED
    BY <1>1, <1>3, <2>1 DEF Resolve, Translations, Section
<1>4. CASE l1.type = "table" /\ l2.type = "small"
  <2>1. l1 \in Table /\ l2 \in SmallPg
    BY <1>4 DEF Descs, Table, Invalid, Section, SmallPg
  <2>2. QED
    BY <1>4, <2>1, GeometryAssumption DEF Resolve, Translations, Table, SmallPg
<1>5. CASE ~(l1.type = "section") /\ ~(l1.type = "table" /\ l2.type = "small")
  BY <1>2, <1>5 DEF Resolve
<1>6. QED
  BY <1>3, <1>4, <1>5

(* What the CPU loads is a descriptor.                                         *)
LEMMA LoadType ==
    ASSUME mem \in [Words -> Descs], buf \in [Words -> Seq(Descs)], NEW w \in Words
    PROVE  Load(w) \in Descs
<1>1. CASE buf[w] = <<>>
  BY <1>1 DEF Load
<1>2. CASE buf[w] # <<>>
  <2>1. buf[w] \in Seq(Descs)
    OBVIOUS
  <2>2. Len(buf[w]) \in 1..Len(buf[w])
    BY <1>2, <2>1
  <2>3. QED
    BY <1>2, <2>1, <2>2 DEF Load
<1>3. QED
  BY <1>1, <1>2

(* virt_to_phy is defined for every page.                                      *)
LEMMA VirtToPhyType ==
    ASSUME TypeOK
    PROVE  \A v \in VPages : virt_to_phy(v) \in Translations
<1> TAKE v \in VPages
<1>1. CASE enabled
  <2>1. PgdWord(v) \in Words
    BY PgdWordInWords DEF TypeOK
  <2>2. Load(PgdWord(v)) \in Descs
    BY <2>1, LoadType DEF TypeOK
  <2>3. CASE Load(PgdWord(v)).type = "table"
    <3>1. PgtbWord(Load(PgdWord(v)), v) \in Words
      BY <2>2, <2>3, TableType, PgtbWordInWords
    <3>2. Load(PgtbWord(Load(PgdWord(v)), v)) \in Descs
      BY <3>1, LoadType DEF TypeOK
    <3>3. QED
      BY <1>1, <2>2, <2>3, <3>2, ResolveType DEF virt_to_phy
  <2>4. CASE Load(PgdWord(v)).type # "table"
    BY <1>1, <2>2, <2>4, ResolveType DEF virt_to_phy
  <2>5. QED
    BY <2>3, <2>4
<1>2. CASE ~enabled
  BY <1>2, GeometryAssumption DEF virt_to_phy, Direct, Translations, Domains, AccPerms
<1>3. QED
  BY <1>1, <1>2

-----------------------------------------------------------------------------
(* The requests.                                                               *)

Request(e) ==
    /\ e \in Entries
    /\ e.type = "PG_DIR" => e.phy \in PgTabs
    /\ e.type = "PG_TAB" => e.phy \in Frames

(* The descriptors the interface builds from a request are well formed.        *)
LEMMA RequestDesc ==
    ASSUME NEW e, Request(e)
    PROVE  /\ IsDirEntry(e) => PgdDesc(PgdEntry(e)) \in Descs /\ PgdEntry(e).va = e.va
           /\ ~IsDirEntry(e) => PgtbDesc(PgtbEntry(e)) \in Descs /\ PgtbEntry(e).va = e.va
           /\ e.va \in VPages
<1> USE DEF Request, Entries, IsDirEntry
<1>1. arch_mmu_acc_to_domain(e.acc) \in Domains
  BY DEF arch_mmu_acc_to_domain, Domains
<1>2. arch_mmu_acc_to_armv7(e.acc) \in AccPerms
  BY DEF arch_mmu_acc_to_armv7, AccPerms, AccFlags
<1>3. CASE e.type = "PG_DIR"
  BY <1>1, <1>3 DEF PgdDesc, PgdEntry, Descs, Table
<1>4. CASE e.type = "PG_DIR_INVAL"
  BY <1>1, <1>4 DEF PgdDesc, PgdEntry, Descs, Invalid, AccPerms
<1>5. CASE e.type = "PG_TAB"
  BY <1>2, <1>5 DEF PgtbDesc, PgtbEntry, Descs, SmallPg
<1>6. CASE e.type = "PG_TAB_INVAL"
  BY <1>2, <1>6 DEF PgtbDesc, PgtbEntry, Descs, Invalid, Domains
<1>7. QED
  BY <1>3, <1>4, <1>5, <1>6

\* A store goes to a word of a table and stores a descriptor.
WellFormed(r) == r.err = "ESUCC" => r.word \in Words /\ r.desc \in Descs

(* arch_mmu_create_entry only ever stores descriptors into words.              *)
LEMMA CreateEntryWellFormed ==
    ASSUME TypeOK, NEW e, Request(e)
    PROVE  WellFormed(arch_mmu_create_entry(e))
<1>1. CASE IsDirEntry(e)
  <2> DEFINE pe == PgdEntry(e)
  <2>1. PgdDesc(pe) \in Descs /\ pe.va \in VPages
    BY <1>1, RequestDesc
  <2>2. <<PgdOf(pe.va), PgdIdx(pe.va)>> \in Words
    BY <2>1, PgdWordInWords DEF TypeOK, PgdWord
  <2> HIDE DEF pe
  <2>3. WellFormed(armv7_mmu_map_pgd(pe))
    BY <2>1, <2>2 DEF WellFormed, armv7_mmu_map_pgd, create_pgd_entry, Put, Fail
  <2>4. QED
    BY <1>1, <2>3 DEF arch_mmu_create_entry, pe
<1>2. CASE ~IsDirEntry(e)
  <2> DEFINE te == PgtbEntry(e)
  <2>1. PgtbDesc(te) \in Descs /\ te.va \in VPages
    BY <1>2, RequestDesc
  <2> HIDE DEF te
  <2>2. get_pgd_entry(te.va) \in Descs
    BY <2>1, PgdWordInWords, LoadType DEF TypeOK, get_pgd_entry
  <2>3. get_pgd_entry(te.va).type = "table"
            => <<get_pgd_entry(te.va).addr, PgtbIdx(te.va)>> \in Words
    BY <2>1, <2>2, TableType, PgtbWordInWords DEF PgtbWord
  <2>4. WellFormed(armv7_mmu_map_pgtb(te))
    BY <2>1, <2>3 DEF WellFormed, armv7_mmu_map_pgtb, create_pgtb_entry, Put, Fail
  <2>5. QED
    BY <1>2, <2>4 DEF arch_mmu_create_entry, te
<1>3. QED
  BY <1>1, <1>2

(* So does armv7_mmu_map_pgd, called with entries of its own type.             *)
LEMMA MapPgdWellFormed ==
    ASSUME TypeOK, NEW d \in DirRequests
    PROVE  WellFormed(armv7_mmu_map_pgd(d))
<1>1. /\ d.va \in VPages /\ d.dom \in Domains /\ d.ap \in AccPerms
      /\ d.type = "table" => d.phy \in PgTabs
      /\ d.type = "section" => d.phy \in Frames
  BY SystemAssumption
<1>2. <<PgdOf(d.va), PgdIdx(d.va)>> \in Words
  BY <1>1, PgdWordInWords DEF TypeOK, PgdWord
<1>3. armv7_is_supported_pgd_type(d.type) => PgdDesc(d) \in Descs
  BY <1>1 DEF armv7_is_supported_pgd_type, PgdDesc, Descs, Invalid, Table, Section, AccPerms
<1>4. QED
  BY <1>2, <1>3 DEF WellFormed, armv7_mmu_map_pgd, create_pgd_entry, Put, Fail

(* An off-line entry lands in the directory, or in the region, that was given. *)
LEMMA NewEntryWord ==
    ASSUME TypeOK, NEW r \in NewRequests, IsNew(r[1], r[2])
    PROVE  /\ WellFormed(arch_mmu_create_new_entry(r[1], r[2]))
           /\ arch_mmu_create_new_entry(r[1], r[2]).err = "ESUCC" =>
                 LET w == arch_mmu_create_new_entry(r[1], r[2]).word
                 IN  \/ w[1] \in (KernPgds \union UserPgds) \ {ttbr0, ttbr1}
                     \/ w[1] \in PgTabs /\ w[1] \notin LinkedTables
<1> DEFINE base == r[1]
           e == r[2]
<1>0. Request(e)
  BY SystemAssumption DEF Request
<1> HIDE DEF base, e
<1>1. CASE IsDirEntry(e)
  <2> DEFINE pe == PgdEntry(e)
  <2>1. PgdDesc(pe) \in Descs /\ pe.va = e.va
    BY <1>0, <1>1, RequestDesc
  <2>2. /\ <<base, PgdIdx(e.va)>> \in Words
        /\ base \in (KernPgds \union UserPgds) \ {ttbr0, ttbr1}
    BY <1>1 DEF IsNew, base, e
  <2> HIDE DEF pe
  <2>3. /\ WellFormed(create_pgd_entry(base, pe))
        /\ create_pgd_entry(base, pe).err = "ESUCC" => create_pgd_entry(base, pe).word[1] = base
    BY <2>1, <2>2 DEF WellFormed, create_pgd_entry, Put, Fail
  <2>4. arch_mmu_create_new_entry(base, e) = create_pgd_entry(base, pe)
    BY <1>1 DEF arch_mmu_create_new_entry, pe
  <2>5. QED
    BY <2>2, <2>3, <2>4 DEF base, e
<1>2. CASE ~IsDirEntry(e)
  <2> DEFINE te == PgtbEntry(e)
             t == TableInRegion(base, e.va)
  <2>1. PgtbDesc(te) \in Descs /\ te.va = e.va /\ e.va \in VPages
    BY <1>0, <1>2, RequestDesc
  <2>2. base \in PgTabs /\ base \in Nat
    BY <1>2, SystemAssumption, GeometryAssumption DEF base, e
  <2>3. t \in PgTabs /\ t \notin LinkedTables
    <3>1. PgdIdx(e.va) \in 0..(PgdCnt - 1)
      BY <2>1 DEF VPages, PgdIdx
    <3>2. CASE PgdIdx(e.va) >= KernVaddr
      <4> DEFINE i == PgdIdx(e.va) - KernVaddr
      <4>1. i \in 0..(PgdCnt - 1) /\ i < KernPgtbs
        BY <3>1, <3>2, GeometryAssumption DEF KernVaddr, KernPgtbs
      <4>2. BitOr(base, i) \in base..(base + i)
        BY <2>2, <4>1, OrAssumption
      <4>3. t = BitOr(base, i)
        BY <3>2 DEF TableInRegion
      <4> HIDE DEF i, t
      <4>4. t \in base..(base + KernPgtbs - 1)
        BY <2>2, <4>1, <4>2, <4>3, GeometryAssumption DEF KernPgtbs
      <4>5. QED
        BY <1>2, <3>2, <4>4 DEF IsNew, base, e
    <3>3. CASE ~(PgdIdx(e.va) >= KernVaddr)
      <4> DEFINE i == PgdIdx(e.va)
      <4>1. i \in 0..(PgdCnt - 1) /\ i < UserPgtbs
        BY <3>1, <3>3, GeometryAssumption DEF KernVaddr, UserPgtbs
      <4>2. BitOr(base, i) \in base..(base + i)
        BY <2>2, <4>1, OrAssumption
      <4>3. t = BitOr(base, i)
        BY <3>3 DEF TableInRegion
      <4> HIDE DEF i, t
      <4>4. t \in base..(base + UserPgtbs - 1)
        BY <2>2, <4>1, <4>2, <4>3, GeometryAssumption DEF UserPgtbs
      <4>5. QED
        BY <1>2, <3>3, <4>4 DEF IsNew, base, e
    <3>4. QED
      BY <3>2, <3>3
  <2>4. <<t, PgtbIdx(e.va)>> \in Words
    BY <2>1, <2>3 DEF Words, VPages, PgtbIdx
  <2> HIDE DEF te, t
  <2>5. /\ WellFormed(create_pgtb_entry(t, te))
        /\ create_pgtb_entry(t, te).err = "ESUCC" => create_pgtb_entry(t, te).word[1] = t
    BY <2>1, <2>4 DEF WellFormed, create_pgtb_entry, Put, Fail
  <2>6. arch_mmu_create_new_entry(base, e) = create_pgtb_entry(t, te)
    BY <1>2 DEF arch_mmu_create_new_entry, te, t
  <2>7. QED
    BY <2>3, <2>5, <2>6 DEF base, e
<1>3. QED
  BY <1>1, <1>2

(* Unmapping a page is a request like any other.                               *)
LEMMA UnmappingIsRequest ==
    ASSUME NEW v \in VPages
    PROVE  Request(Unmapping(v))
  BY DEF Unmapping, Request, Entries, AccFlags

(* The calls the driver enters are calls.                                      *)
LEMMA CallType ==
    /\ NoCall \in Calls
    /\ \A op \in {"enable", "switch", "page", "aborted"} :
          Calling(op) \in Calls /\ Calling(op).op = op
    /\ \A v \in VPages : CallOn("page", v) \in Calls /\ CallOn("page", v).op = "page"
    /\ NoCall.op = "none"
<1>1. Page0 \in VPages
  BY GeometryAssumption DEF Page0, VPages
<1>2. QED
  BY <1>1 DEF NoCall, Calling, CallOn, Calls

(* Carrying out a call leaves the variables it writes well typed.              *)
LEMMA PerformType ==
    ASSUME TypeOK, NEW r, WellFormed(r), NEW next \in Calls, Perform(r, next)
    PROVE  /\ buf' \in [Words -> Seq(Descs)]
           /\ call' \in {next, NoCall, Calling("aborted")}
           /\ call' \in Calls
           /\ ret' \in Errno
           /\ r.err # "ESUCC" => buf' = buf
<1>1. NoCall \in Calls /\ Calling("aborted") \in Calls
  BY CallType
<1>2. CASE r.err = "ESUCC"
  <2>1. r.word \in Words /\ r.desc \in Descs
    BY <1>2 DEF WellFormed
  <2>2. buf' = [buf EXCEPT ![r.word] = Append(@, r.desc)] /\ ret' = "ESUCC" /\ call' = next
    BY <1>2 DEF Perform, Errno
  <2>3. QED
    BY <1>2, <2>1, <2>2 DEF TypeOK, Errno
<1>3. CASE r.err # "ESUCC"
  BY <1>1, <1>3 DEF Perform, TypeOK
<1>4. QED
  BY <1>2, <1>3

-----------------------------------------------------------------------------
(* Type correctness.                                                           *)

LEMMA InitType == Init => TypeOK
<1> SUFFICES ASSUME Init PROVE TypeOK
  OBVIOUS
<1>1. Empty \in Descs
  BY DEF Empty, Descs, Invalid, Domains, AccPerms
<1>2. mem \in [Words -> Descs]
  <2>1. ASSUME NEW w \in Words, w[1] = BootPgd PROVE BootWord[w[2]] \in Descs
    <3>1. w[2] \in 0..(PgdCnt - 1)
      BY <2>1, SystemAssumption, GeometryAssumption DEF Words
    <3>2. QED
      BY <3>1, SystemAssumption DEF Descs
  <2>2. QED
    BY <1>1, <2>1 DEF Init, Booting
<1>3. buf \in [Words -> Seq(Descs)]
  BY DEF Init, Booting
<1>4. NoCall \in Calls
  BY CallType
<1>5. QED
  BY <1>2, <1>3, <1>4, SystemAssumption DEF Init, Booting, TypeOK, Errno

LEMMA NextPageType == \A v \in VPages : NextPage(v) \in VPages
<1> TAKE v \in VPages
<1>1. PgdIdx(v) \in 0..(PgdCnt - 1) /\ PgtbIdx(v) \in 0..(PgtbCnt - 1)
  BY DEF VPages, PgdIdx, PgtbIdx
<1>2. (PgdIdx(v) + 1) % PgdCnt \in 0..(PgdCnt - 1)
  BY <1>1, GeometryAssumption
<1>3. QED
  BY <1>1, <1>2, GeometryAssumption DEF NextPage, VPages

(* The walker reads descriptors, and caches translations.                      *)
LEMMA WalkPgdType ==
    ASSUME TypeOK, NEW v \in VPages, WalkPgd(v)
    PROVE  /\ tlb' \in [VPages -> Translations \union {None}]
           /\ walk' \in Walks \union {None}
<1> DEFINE l1 == mem[PgdWord(v)]
<1>1. l1 \in Descs
  BY PgdWordInWords DEF TypeOK
<1>2. CASE l1.type = "section" /\ Fill(v, Resolve(v, l1, l1)) /\ UNCHANGED walk
  BY <1>1, <1>2, ResolveType DEF Fill, TypeOK
<1>3. CASE l1.type = "table" /\ walk' = [va |-> v, l1 |-> l1] /\ UNCHANGED tlb
  BY <1>1, <1>3, TableType DEF TypeOK, Walks
<1>4. QED
  BY <1>2, <1>3 DEF WalkPgd

LEMMA WalkPgtbType ==
    ASSUME TypeOK, WalkPgtb
    PROVE  tlb' \in [VPages -> Translations \union {None}]
<1> DEFINE t == Resolve(walk.va, walk.l1, mem[PgtbWord(walk.l1, walk.va)])
<1>1. walk \in Walks
  BY DEF TypeOK, WalkPgtb
<1>2. walk.va \in VPages /\ walk.l1 \in Table
  BY <1>1 DEF Walks
<1>3. mem[PgtbWord(walk.l1, walk.va)] \in Descs
  BY <1>2, PgtbWordInWords DEF TypeOK
<1>4. t \in Translations
  BY <1>2, <1>3, ResolveType DEF Descs
<1> HIDE DEF t
<1>5. CASE Fill(walk.va, t)
  BY <1>2, <1>4, <1>5 DEF Fill, TypeOK
<1>6. CASE UNCHANGED tlb
  BY <1>6 DEF TypeOK
<1>7. QED
  BY <1>5, <1>6 DEF WalkPgtb, t

LEMMA NextType == TypeOK /\ [Next]_vars => TypeOK'
<1> SUFFICES ASSUME TypeOK, [Next]_vars PROVE TypeOK'
  OBVIOUS
<1> USE DEF cpuVars, mmuVars
<1>1. ASSUME NEW e \in MapRequests, CreateEntry(e) PROVE TypeOK'
  <2>1. Request(e)
    BY SystemAssumption DEF Request
  <2>2. WellFormed(arch_mmu_create_entry(e))
    BY <2>1, CreateEntryWellFormed
  <2>3. QED
    BY <1>1, <2>2, PerformType, CallType DEF CreateEntry, OweForStore, TypeOK
<1>2. ASSUME NEW d \in DirRequests, MapPgd(d) PROVE TypeOK'
  BY <1>2, MapPgdWellFormed, PerformType, CallType DEF MapPgd, OweForStore, TypeOK
<1>3. ASSUME NEW r \in NewRequests, CreateNewEntry(r[1], r[2]) PROVE TypeOK'
  <2>1. WellFormed(arch_mmu_create_new_entry(r[1], r[2]))
    BY <1>3, NewEntryWord DEF CreateNewEntry
  <2>2. QED
    BY <1>3, <2>1, PerformType, CallType DEF CreateNewEntry, TypeOK
<1>4. ASSUME EnableMmu PROVE TypeOK'
  BY <1>4, CallType DEF EnableMmu, OweForRegister, TypeOK
<1>5. ASSUME NEW p, SetUserPageDir(p) PROVE TypeOK'
  BY <1>5, CallType DEF SetUserPageDir, OweForRegister, TypeOK, Errno
<1>6. ASSUME NEW p, SetKernPgd(p) PROVE TypeOK'
  BY <1>6, CallType DEF SetKernPgd, OweForRegister, TypeOK, Errno
<1>7. ASSUME NEW v \in InvalPages, InvalidatePage(v) PROVE TypeOK'
  <2>1. v \in VPages
    BY SystemAssumption
  <2>2. WellFormed(arch_mmu_create_entry(Unmapping(v)))
    BY <2>1, UnmappingIsRequest, CreateEntryWellFormed
  <2>3. QED
    BY <1>7, <2>1, <2>2, PerformType, CallType DEF InvalidatePage, OweForStore, TypeOK
<1>8. ASSUME NEW r \in Regions, InvalidateRegion(r[1], r[2]) PROVE TypeOK'
  <2>1. r[1] \in VPages /\ r[2] \in Int
    BY SystemAssumption
  <2>2. CASE r[2] > 0
    BY <1>8, <2>1, <2>2 DEF InvalidateRegion, Calls, TypeOK, Errno
  <2>3. CASE ~(r[2] > 0)
    BY <1>8, <2>3 DEF InvalidateRegion, TypeOK, Errno
  <2>4. QED
    BY <2>2, <2>3
<1>9. ASSUME RegionLoop PROVE TypeOK'
  <2>1. call.cur \in VPages
    BY DEF TypeOK, Calls
  <2>2. WellFormed(arch_mmu_create_entry(Unmapping(call.cur)))
    BY <2>1, UnmappingIsRequest, CreateEntryWellFormed
  <2>3. AfterPage(call) \in Calls /\ [call EXCEPT !.op = "sync"] \in Calls
    BY <2>1, NextPageType DEF AfterPage, TypeOK, Calls
  <2>4. CASE call.i < call.cnt
    BY <1>9, <2>2, <2>3, <2>4, PerformType DEF RegionLoop, OweForStore, TypeOK
  <2>5. CASE ~(call.i < call.cnt)
    BY <1>9, <2>3, <2>5 DEF RegionLoop, TypeOK
  <2>6. QED
    BY <2>4, <2>5
<1>10. ASSUME Dsb PROVE TypeOK'
  BY <1>10 DEF Dsb, TypeOK, Calls
<1>11. ASSUME InvalidateTlb PROVE TypeOK'
  BY <1>11, CallType DEF InvalidateTlb, TypeOK
<1>12. ASSUME NEW w \in Words, Drain(w) PROVE TypeOK'
  <2>1. buf[w] \in Seq(Descs) /\ buf[w] # <<>>
    BY <1>12 DEF Drain, TypeOK
  <2>2. Head(buf[w]) \in Descs /\ Tail(buf[w]) \in Seq(Descs)
    BY <2>1
  <2>3. QED
    BY <1>12, <2>2 DEF Drain, TypeOK
<1>13. ASSUME NEW v \in VPages, WalkPgd(v) PROVE TypeOK'
  BY <1>13, WalkPgdType DEF WalkPgd, TypeOK
<1>14. ASSUME NEW v \in VPages, Evict(v) PROVE TypeOK'
  BY <1>14 DEF Evict, TypeOK
<1>15. ASSUME WalkPgtb PROVE TypeOK'
  BY <1>15, WalkPgtbType DEF WalkPgtb, TypeOK
<1>16. ASSUME UNCHANGED vars PROVE TypeOK'
  BY <1>16 DEF vars, TypeOK
<1>17. QED
  BY <1>1, <1>2, <1>3, <1>4, <1>5, <1>6, <1>7, <1>8, <1>9, <1>10, <1>11, <1>12, <1>13,
     <1>14, <1>15, <1>16 DEF Next, Cpu, ClientCall, Hardware

(* Every variable keeps its type; in particular every store the driver issues  *)
(* falls inside a directory or a page table.                                   *)
THEOREM TypeCorrect == Spec => []TypeOK
  BY InitType, NextType, PTL DEF Spec
=============================================================================
