------------------------------- MODULE Armv7Mmu -------------------------------
(* The running MMU: the driver source/arch/arm/armv7/mmu/armv7_mmu.c, the      *)
(* arch_mmu interface over it (armv7_arch_mmu.c) and the generic layer         *)
(* source/kernel/mm/mmu.c, on one CPU, next to the hardware they program.      *)
(*                                                                             *)
(* Two actors share the translation tables.  The CPU executes one call of the  *)
(* API at a time; its stores to a table wait in `buf' until they drain to      *)
(* `mem', in order for one word and in any order for different words, and a    *)
(* dsb waits for all of them.  The table walker runs by itself: at any moment  *)
(* it may walk any page, reading the two levels of `mem' in two steps, and     *)
(* put the result in the TLB, or evict an entry.  An invalidation of the TLB   *)
(* is taken at its most favourable: it empties the TLB and cancels the walk    *)
(* in flight at once.                                                          *)
EXTENDS PageTables, Sequences, FiniteSets

CONSTANTS
    BootPgd,      \* k_pgd of the linker script, in both TTBRs after the boot
    BootWord,     \* its contents after vexpress_boot_init wrote its sections
    OneToOne,     \* directories whose user half maps the table memory 1:1
    Unaligned,    \* addresses no alignment check accepts
    MapRequests,  \* arguments of arch_mmu_create_entry
    DirRequests,  \* arguments of armv7_mmu_map_pgd, called directly at boot
    NewRequests,  \* arguments <<pg_base, entry>> of arch_mmu_create_new_entry
    InvalPages,   \* arguments of mmu_invalidate_page
    Regions,      \* arguments <<virt_addr, pg_cnt>> of mmu_invalidate_region
    BitOr(_, _),  \* `|' of addresses
    None,         \* no TLB entry, no walk
    BufWords,     \* bound: words with stores pending at once
    BufDepth,     \* bound: pending stores to one word
    TlbSize       \* bound: entries the TLB holds at once

VARIABLES
    enabled,      \* SCTLR.M
    ttbr0, ttbr1, \* the user and the kernel page directory
    mem,          \* the words as the table walker reads them
    buf,          \* per word, the CPU's stores that have not drained
    tlb,          \* cached translations
    walk,         \* the walk between its two reads, if any
    call,         \* the API call the CPU is inside of
    ret,          \* errno of the latest call
    owed          \* what the callers still owe the MMU (a history variable)

cpuVars == <<enabled, ttbr0, ttbr1, call, ret>>
mmuVars == <<tlb, walk>>
vars    == <<enabled, ttbr0, ttbr1, mem, buf, tlb, walk, call, ret, owed>>

Errno == {"ESUCC", "EINVAL", "ENOTFND", "ENOTSUPP", "ENOTENB", "EALIGN"}

\* `call' when the CPU is in no call, and while it runs one.  A call in the
\* states "enable", "switch", "page" and "flush" is about to invalidate the TLB.
Calls ==
    [op : {"none", "enable", "switch", "page", "region", "sync", "flush", "aborted"},
     base : VPages, cnt : Int, cur : VPages, i : Nat]
Page0  == <<0, 0>>
CallOn(op, v) == [op |-> op, base |-> v, cnt |-> 0, cur |-> Page0, i |-> 0]
Calling(op)   == CallOn(op, Page0)
NoCall        == Calling("none")

\* A walk between its two reads carries its page and the word it read first.
Walks == [va : VPages, l1 : Table]

ASSUME SystemAssumption ==
    /\ None \notin Translations /\ None \notin Walks
    /\ BootPgd \in KernPgds /\ BootPgd \in OneToOne
    /\ OneToOne \subseteq KernPgds \union UserPgds
    /\ BootWord \in [0..(PgdCnt - 1) -> Invalid \union Table \union Section]
    /\ MapRequests \subseteq Entries
    /\ \A e \in MapRequests : e.type = "PG_DIR" => e.phy \in PgTabs
    /\ \A e \in MapRequests : e.type = "PG_TAB" => e.phy \in Frames
    /\ \A r \in NewRequests : r[2] \in Entries
    /\ \A r \in NewRequests : ~IsDirEntry(r[2]) => r[1] \in PgTabs
    /\ \A r \in NewRequests : r[2].type = "PG_DIR" => r[2].phy \in PgTabs
    /\ \A r \in NewRequests : r[2].type = "PG_TAB" => r[2].phy \in Frames
    /\ \A d \in DirRequests :
          /\ d.va \in VPages /\ d.dom \in Domains /\ d.ap \in AccPerms
          /\ d.type = "table"   => d.phy \in PgTabs
          /\ d.type = "section" => d.phy \in Frames
          /\ d.type \in {"invalid", "table", "section", "super"}
    /\ InvalPages \subseteq VPages
    /\ Regions \subseteq VPages \X Int

\* `|' clears no bit and carries none.
ASSUME OrAssumption ==
    \A base \in PgTabs, i \in 0..(PgdCnt - 1) : BitOr(base, i) \in base..(base + i)

-----------------------------------------------------------------------------
(* Reading the tables.                                                         *)

\* A load of the CPU sees its own stores; the walker does not.
Load(w) == IF buf[w] = <<>> THEN mem[w] ELSE buf[w][Len(buf[w])]
Drained == \A w \in Words : buf[w] = <<>>

\* armv7_mmu_get_kern_pgd and armv7_mmu_get_user_pgd, selected by the half.
PgdOf(v)   == IF is_higher_half(v) THEN ttbr1 ELSE ttbr0
PgdWord(v) == <<PgdOf(v), PgdIdx(v)>>

\* armv7_mmu_virt_to_phy; with the MMU off an address is its own translation.
virt_to_phy(v) ==
    IF enabled
    THEN LET l1 == Load(PgdWord(v))
         IN  Resolve(v, l1, IF l1.type = "table" THEN Load(PgtbWord(l1, v)) ELSE l1)
    ELSE Direct

\* The driver uses physical table addresses as pointers, which only works while
\* the user half maps table memory 1:1.
TablesReachable == enabled => ttbr0 \in OneToOne

-----------------------------------------------------------------------------
(* One descriptor store, or the reason there is none.                          *)

Fail(errno) == [err |-> errno]
Put(w, d)   == [err |-> "ESUCC", word |-> w, desc |-> d]

\* create_pgd_entry and create_pgtb_entry: the store through the table pointer.
create_pgd_entry(pgd, pe)  ==
    IF TablesReachable THEN Put(<<pgd, PgdIdx(pe.va)>>, PgdDesc(pe)) ELSE Fail("abort")

\* A mutant: the page's index is not taken from its own field of the address.
create_pgtb_entry_Unshifted(pgtb, te) ==
    IF TablesReachable
    THEN Put(<<pgtb, PgdIdx(te.va) % PgtbCnt>>, PgtbDesc(te)) ELSE Fail("abort")

create_pgtb_entry(pgtb, te) ==
    IF TablesReachable THEN Put(<<pgtb, PgtbIdx(te.va)>>, PgtbDesc(te)) ELSE Fail("abort")

armv7_mmu_map_pgd(pe) ==
    IF ~armv7_is_supported_pgd_type(pe.type) THEN Fail("ENOTSUPP")
    ELSE IF ~enabled THEN Fail("ENOTENB")
    ELSE create_pgd_entry(PgdOf(pe.va), pe)

\* get_pgd_entry finds the first-level word; anything but a table is ENOTFND.
get_pgd_entry(v) == Load(PgdWord(v))

armv7_mmu_map_pgtb(te) ==
    IF ~enabled THEN Fail("ENOTENB")
    ELSE IF ~armv7_is_supported_pgtb_type(te.type) THEN Fail("ENOTSUPP")
    ELSE IF ~TablesReachable THEN Fail("abort")
    ELSE IF get_pgd_entry(te.va).type # "table" THEN Fail("ENOTFND")
    ELSE create_pgtb_entry(get_pgd_entry(te.va).addr, te)

arch_mmu_create_entry(e) ==
    IF IsDirEntry(e) THEN armv7_mmu_map_pgd(PgdEntry(e))
                     ELSE armv7_mmu_map_pgtb(PgtbEntry(e))

\* A mutant: the index is not made relative to the half's first section.
TableInRegion_Absolute(base, va) == BitOr(base, PgdIdx(va))

\* The page table of va in the region of tables at base: `base | (index << 10)'.
TableInRegion(base, va) ==
    BitOr(base, IF PgdIdx(va) >= KernVaddr THEN PgdIdx(va) - KernVaddr ELSE PgdIdx(va))

arch_mmu_create_new_entry(base, e) ==
    IF IsDirEntry(e) THEN create_pgd_entry(base, PgdEntry(e))
                     ELSE create_pgtb_entry(TableInRegion(base, e.va), PgtbEntry(e))

-----------------------------------------------------------------------------
(* The CPU.                                                                    *)

\* A word of memory nobody has written.
Empty == [type |-> "invalid", addr |-> NoAddr, dom |-> "USER_DOMAIN", ap |-> "KRW_NOU"]

\* vexpress_boot_init with both directories written, barriered and loaded into
\* the TTBRs, before init_enable_mmu; `words' is what memory holds.
Booting(words) ==
    /\ enabled = FALSE
    /\ ttbr0 = BootPgd /\ ttbr1 = BootPgd
    /\ mem = words
    /\ buf = [w \in Words |-> <<>>]
    /\ tlb = [v \in VPages |-> None]
    /\ walk = None
    /\ call = NoCall
    /\ ret = "ESUCC"
    /\ owed = "nothing"

Init == Booting([w \in Words |-> IF w[1] = BootPgd THEN BootWord[w[2]] ELSE Empty])

Idle == call.op = "none"

\* A store stalls while the buffer is full.
Room(w) ==
    /\ Len(buf[w]) < BufDepth
    /\ buf[w] = <<>> => Cardinality({x \in Words : buf[x] # <<>>}) < BufWords

\* The effect of r on the tables and on `ret'; a store through a pointer that
\* is not mapped raises a data abort, whose handler never returns.
Perform(r, next) ==
    \/ /\ r.err = "ESUCC"
       /\ Room(r.word)
       /\ buf' = [buf EXCEPT ![r.word] = Append(@, r.desc)]
       /\ ret' = "ESUCC" /\ call' = next
    \/ /\ r.err \in Errno \ {"ESUCC"}
       /\ ret' = r.err /\ call' = NoCall /\ UNCHANGED buf
    \/ /\ r.err = "abort"
       /\ call' = Calling("aborted") /\ UNCHANGED <<buf, ret>>

\* After a store to tables in use the caller owes a dsb and an invalidation.
OweForStore(r) == owed' = IF r.err = "ESUCC" THEN "barrier" ELSE owed

\* A TTBR or SCTLR write makes every pending store one to tables in use.
OweForRegister == owed' = IF Drained THEN owed ELSE "barrier"

CreateEntry(e) ==
    /\ Idle
    /\ Perform(arch_mmu_create_entry(e), NoCall)
    /\ OweForStore(arch_mmu_create_entry(e))
    /\ UNCHANGED <<enabled, ttbr0, ttbr1, mem, mmuVars>>

MapPgd(d) ==
    /\ Idle
    /\ Perform(armv7_mmu_map_pgd(d), NoCall)
    /\ OweForStore(armv7_mmu_map_pgd(d))
    /\ UNCHANGED <<enabled, ttbr0, ttbr1, mem, mmuVars>>

\* What arch_mmu_create_new_entry asks of its caller: the directory, or the
\* whole region of tables, is not part of the tables in use.
LinkedTables ==
    {Load(PgdWord(v)).addr : v \in {x \in VPages : Load(PgdWord(x)).type = "table"}}
IsNew(base, e) ==
    IF IsDirEntry(e)
    THEN /\ base \in (KernPgds \union UserPgds) \ {ttbr0, ttbr1}
         /\ <<base, PgdIdx(e.va)>> \in Words
    ELSE LET size == IF PgdIdx(e.va) >= KernVaddr THEN KernPgtbs ELSE UserPgtbs
             region == base..(base + size - 1)
         IN  region \subseteq PgTabs /\ region \intersect LinkedTables = {}

CreateNewEntry(base, e) ==
    /\ Idle
    /\ IsNew(base, e)
    /\ Perform(arch_mmu_create_new_entry(base, e), NoCall)
    /\ UNCHANGED <<enabled, ttbr0, ttbr1, mem, mmuVars, owed>>

\* init_enable_mmu: SCTLR.M is set, then the TLB is invalidated.
EnableMmu ==
    /\ Idle /\ ~enabled
    /\ enabled' = TRUE
    /\ call' = Calling("enable")
    /\ OweForRegister
    /\ UNCHANGED <<ttbr0, ttbr1, mem, buf, mmuVars, ret>>

\* A mutant: armv7_mmu_update is not called.
SetUserPageDir_NoUpdate(p) ==
    /\ Idle
    /\ IF p \in UserPgds \union KernPgds
       THEN ttbr0' = p /\ ret' = "ESUCC" /\ OweForRegister
       ELSE ret' = "EALIGN" /\ UNCHANGED <<ttbr0, owed>>
    /\ UNCHANGED <<enabled, ttbr1, mem, buf, mmuVars, call>>

\* mmu_set_user_page_dir: TTBR0 is written, then, when the MMU is on, the TLB
\* is invalidated; there is no dsb (armv7_mmu_update(false)).
SetUserPageDir(p) ==
    /\ Idle
    /\ IF p \in UserPgds \union KernPgds
       THEN /\ ttbr0' = p /\ ret' = "ESUCC"
            /\ call' = IF enabled THEN Calling("switch") ELSE call
            /\ OweForRegister
       ELSE /\ ret' = "EALIGN"
            /\ UNCHANGED <<ttbr0, call, owed>>
    /\ UNCHANGED <<enabled, ttbr1, mem, buf, mmuVars>>

\* armv7_mmu_set_kern_pgd: the same for TTBR1, with the full alignment.
SetKernPgd(p) ==
    /\ Idle
    /\ IF p \in KernPgds
       THEN /\ ttbr1' = p /\ ret' = "ESUCC"
            /\ call' = IF enabled THEN Calling("switch") ELSE call
            /\ OweForRegister
       ELSE /\ ret' = "EALIGN"
            /\ UNCHANGED <<ttbr1, call, owed>>
    /\ UNCHANGED <<enabled, ttbr0, mem, buf, mmuVars>>

\* The entry mmu_create_pgtb_entry builds to unmap v.
Unmapping(v) ==
    [type |-> "PG_TAB_INVAL", phy |-> NoAddr, va |-> v,
     acc |-> IF PgdIdx(v) >= KernVaddr THEN "KERNEL" ELSE "USER"]

\* mmu_invalidate_page: the store, and the TLB invalidation when it succeeded.
InvalidatePage(v) ==
    /\ Idle
    /\ LET r == arch_mmu_create_entry(Unmapping(v))
       IN  /\ Perform(r, CallOn("page", v))
           /\ OweForStore(r)
    /\ UNCHANGED <<enabled, ttbr0, ttbr1, mem, mmuVars>>

InvalidateRegion(v, cnt) ==
    /\ Idle
    /\ IF cnt > 0
       THEN /\ call' = [op |-> "region", base |-> v, cnt |-> cnt, cur |-> v, i |-> 0]
            /\ ret' = "ESUCC"
       ELSE /\ ret' = "EINVAL"
            /\ UNCHANGED call
    /\ UNCHANGED <<enabled, ttbr0, ttbr1, mem, buf, mmuVars, owed>>

\* The call after one round of the loop: the address advances, the count does not.
AfterPage(c) == [c EXCEPT !.cur = NextPage(c.cur)]

\* A mutant: the loop goes on after an error.
RegionLoop_NoErrorTest ==
    /\ call.op = "region"
    /\ LET r == arch_mmu_create_entry(Unmapping(call.cur))
       IN  /\ \/ r.err \in {"ESUCC", "abort"} /\ Perform(r, AfterPage(call))
              \/ /\ r.err \notin {"ESUCC", "abort"}
                 /\ ret' = r.err /\ call' = AfterPage(call) /\ UNCHANGED buf
           /\ OweForStore(r)
    /\ UNCHANGED <<enabled, ttbr0, ttbr1, mem, mmuVars>>

\* The loop test of mmu_invalidate_region and one round of its body.
RegionLoop ==
    /\ call.op = "region"
    /\ IF call.i < call.cnt
       THEN LET r == arch_mmu_create_entry(Unmapping(call.cur))
            IN  /\ Perform(r, AfterPage(call))
                /\ OweForStore(r)
       ELSE /\ call' = [call EXCEPT !.op = "sync"]
            /\ UNCHANGED <<buf, ret, owed>>
    /\ UNCHANGED <<enabled, ttbr0, ttbr1, mem, mmuVars>>

\* arch_dsb, called by a client or before the invalidation of a region.
Dsb ==
    /\ call.op \in {"none", "sync"}
    /\ Drained
    /\ owed' = IF owed = "barrier" THEN "flush" ELSE owed
    /\ call' = IF Idle THEN call ELSE [call EXCEPT !.op = "flush"]
    /\ UNCHANGED <<enabled, ttbr0, ttbr1, mem, buf, mmuVars, ret>>

\* armv7_invalidate_unified_tlb, called by a client (arch_mmu_invalidate) or as
\* the last step of a call.
InvalidateTlb ==
    /\ call.op \in {"none", "enable", "switch", "page", "flush"}
    /\ tlb' = [v \in VPages |-> None]
    /\ walk' = None
    /\ owed' = IF owed = "flush" THEN "nothing" ELSE owed
    /\ call' = NoCall
    /\ UNCHANGED <<enabled, ttbr0, ttbr1, mem, buf, ret>>

-----------------------------------------------------------------------------
(* The hardware.                                                               *)

\* The oldest pending store of a word reaches memory.
Drain(w) ==
    /\ buf[w] # <<>>
    /\ mem' = [mem EXCEPT ![w] = Head(buf[w])]
    /\ buf' = [buf EXCEPT ![w] = Tail(@)]
    /\ UNCHANGED <<cpuVars, mmuVars, owed>>

\* A translation that is not a fault is cached.
Fill(v, t) ==
    /\ t # Fault
    /\ Cardinality({x \in VPages : tlb[x] # None}) < TlbSize
    /\ tlb' = [tlb EXCEPT ![v] = t]

\* First read of a walk: a section ends it, a table is read next.
WalkPgd(v) ==
    /\ enabled /\ walk = None /\ tlb[v] = None
    /\ LET l1 == mem[PgdWord(v)]
       IN  \/ l1.type = "section" /\ Fill(v, Resolve(v, l1, l1)) /\ UNCHANGED walk
           \/ l1.type = "table" /\ walk' = [va |-> v, l1 |-> l1] /\ UNCHANGED tlb
    /\ UNCHANGED <<cpuVars, mem, buf, owed>>

\* Second read: a page is cached, a fault is not.
WalkPgtb ==
    /\ walk # None
    /\ LET t == Resolve(walk.va, walk.l1, mem[PgtbWord(walk.l1, walk.va)])
       IN  \/ Fill(walk.va, t)
           \/ t = Fault /\ UNCHANGED tlb
    /\ walk' = None
    /\ UNCHANGED <<cpuVars, mem, buf, owed>>

Evict(v) ==
    /\ tlb[v] # None
    /\ tlb' = [tlb EXCEPT ![v] = None]
    /\ UNCHANGED <<cpuVars, mem, buf, walk, owed>>

-----------------------------------------------------------------------------

ClientCall ==
    \/ \E e \in MapRequests : CreateEntry(e)
    \/ \E d \in DirRequests : MapPgd(d)
    \/ \E r \in NewRequests : CreateNewEntry(r[1], r[2])
    \/ EnableMmu
    \/ \E p \in KernPgds \union UserPgds \union Unaligned :
          SetUserPageDir(p) \/ SetKernPgd(p)
    \/ \E v \in InvalPages : InvalidatePage(v)
    \/ \E r \in Regions : InvalidateRegion(r[1], r[2])

Cpu == ClientCall \/ RegionLoop \/ Dsb \/ InvalidateTlb

Hardware ==
    \/ \E w \in Words : Drain(w)
    \/ \E v \in VPages : WalkPgd(v) \/ Evict(v)
    \/ WalkPgtb

Next == Cpu \/ Hardware

Spec == Init /\ [][Next]_vars

\* The CPU executes the call it is in, and its stores drain.
FairSpec ==
    /\ Spec
    /\ WF_vars(RegionLoop)
    /\ WF_vars(~Idle /\ Dsb)
    /\ WF_vars(~Idle /\ InvalidateTlb)
    /\ \A w \in Words : WF_vars(Drain(w))
=============================================================================
