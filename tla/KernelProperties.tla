--------------------------- MODULE KernelProperties ---------------------------
(* What must hold of KernelTables.                                             *)
EXTENDS KernelTables, MmuProperties

\* The translation a walk of the tables finds now.
Walked(v) ==
    LET l1 == mem[PgdWord(v)]
    IN  Resolve(v, l1, IF l1.type = "table" THEN mem[PgtbWord(l1, v)] ELSE l1)

\* Translation t leads to physical page p.
LeadsTo(t, p) == t # Fault /\ t.base + t.off = p

\* What the kernel half is for while vexpress_init runs: the code it calls, and
\* in the end the stack.
InUse ==
    Pages(kinit_reg) \union Pages(kern_reg)
        \union (IF At("kernel_init") THEN Pages(kstack_reg) ELSE {})

(* While the sections under the running kernel are replaced by page tables,    *)
(* one entry at a time and with stores and walks in any order, a walk for a    *)
(* page of the kernel always finds it, and the TLB never holds another one.    *)
KernelReachable ==
    enabled =>
        \A p \in InUse :
            /\ LeadsTo(Walked(phy_to_kvm(p)), p)
            /\ tlb[phy_to_kvm(p)] # None => LeadsTo(tlb[phy_to_kvm(p)], p)

(* "maps kernel regions into specified kernel page table region"               *)
(* (vexpress_init.c:456): once the tables are built they hold every page of    *)
(* every region, each at its own address.                                      *)
RegionsMapped ==
    boot.at \in {"link", "tlbi", "sp", "kernel_init"} =>
        \A k \in DOMAIN Mapped : \A p \in Pages(Mapped[k]) :
            LET v == phy_to_kvm(p)
                d == mem[<<TabBase + PgdIdx(v) - DivSection, PgtbIdx(v)>>]
            IN  d.type = "small" /\ d.addr = p

(* "map all MiB sections of kernel" (vexpress_boot_init.c:140): before the     *)
(* page tables take over, all of the image is reached in the kernel half.      *)
SectionsCoverKernel ==
    boot.at \in {"enabled", "memset", "map", "dsb"} =>
        \A p \in lmi_start..(k_end - 1) : LeadsTo(Walked(phy_to_kvm(p)), p)

\* The pages of the kernel half, and the physical page each one is for.
UpperPages    == {v \in VPages : PgdIdx(v) >= DivSection}
WindowPage(v) == kp_start + (PgdIdx(v) - DivSection) * PgtbCnt + PgtbIdx(v)

\* The sections init_kern_pg_dir writes; the other words of the kernel half of
\* k_pgd are left as they are.
BootMapped == {PgdIdx(phy_to_kvm(lmi_start + i * PgtbCnt)) : i \in 0..(SectionCnt - 1)}
FromJunk(v, t) ==
    PgdIdx(v) \notin BootMapped /\ (JunkPgd.type = "table" \/ t = Resolve(v, JunkPgd, JunkPgd))

(* What the memory of the page tables held before never becomes a translation  *)
(* (vexpress_init.c:175 "clean (invalidate) pgtb region"): in the kernel half  *)
(* the TLB holds a page at its own address or what k_pgd itself was left with, *)
(* and the tables at kernel_init hold nothing but pages at their own address.  *)
OnlyTheWindow ==
    \A v \in UpperPages :
        /\ tlb[v] # None => LeadsTo(tlb[v], WindowPage(v)) \/ FromJunk(v, tlb[v])
        /\ At("kernel_init") /\ Drained =>
              Walked(v) = Fault \/ LeadsTo(Walked(v), WindowPage(v))

(* doc/memorybarriers.txt:5 "Access to mmu tables should be followed with dsb  *)
(* (and flush)": the TLB, invalidated after the last store to a table          *)
(* (vexpress_init.c:210-215), leads nowhere at kernel_init but where the       *)
(* tables do.                                                                  *)
NothingStale ==
    (At("kernel_init") /\ Drained) =>
        \A v \in UpperPages : tlb[v] # None => LeadsTo(Walked(v), tlb[v].base + tlb[v].off)

-----------------------------------------------------------------------------
(* What the layout of the linker script must be for the above.                 *)

\* What init_map_kern_pgtb stores: the word, the contents and the page of round
\* r[2] for region r[1].
Rounds       == UNION {{k} \X (0..(PgCnt(Mapped[k].size) - 1)) : k \in DOMAIN Mapped}
EntryOf(r)   == MapEntry(Mapped[r[1]], r[2])
EntryWord(r) == <<MapTable(Mapped[r[1]], r[2]), PgtbIdx(EntryOf(r).va)>>

\* The words of the page tables of the kernel half, and the one for page v.
TabWords     == (TabBase..(TabBase + KernPgtbs - 1)) \X (0..(PgtbCnt - 1))
TabWord(v)   == <<TabBase + PgdIdx(v) - DivSection, PgtbIdx(v)>>
LinkDesc(s)  == PgdDesc(LinkEntry(s - DivSection))

\* The pages of the kernel that stay in use.
KernPages   == Pages(kinit_reg) \union Pages(kern_reg) \union Pages(kstack_reg)
MappedPages == UNION {Pages(Mapped[k]) : k \in DOMAIN Mapped}

\* There is memory for all of it.
LayoutFits ==
    /\ PgDiv > 0
    /\ k_end - kp_start <= KernPgtbs * PgtbCnt
    /\ 0..(DivSection * PgtbCnt - 1) \subseteq Frames
    /\ kp_start..(kp_start + KernPgtbs * PgtbCnt - 1) \subseteq Frames
    /\ TabBase..(TabBase + KernPgtbs - 1) \subseteq PgTabs
    /\ \A s \in DivSection..(PgdCnt - 1) : LinkDesc(s).addr \in PgTabs
    /\ \A r \in Rounds : EntryWord(r) \in TabWords /\ EntryOf(r).phy \in Frames

\* The offset of the image in its first section, and what its length has beyond
\* whole sections, fit in one section together: init_kern_pg_dir takes the number
\* of sections from the length alone.
SectionsSuffice == (lmi_start % PgtbCnt) + ((k_end - lmi_start) % PgtbCnt) <= PgtbCnt

\* The entries for pages P are the ones they need.
EntriesRight(P) ==
    \A p \in P :
        /\ \E r \in Rounds : EntryWord(r) = TabWord(phy_to_kvm(p))
        /\ \A r \in Rounds : EntryWord(r) = TabWord(phy_to_kvm(p)) => EntryOf(r).phy = p
LinksRight(sections) == \A s \in sections : LinkDesc(s).addr = TabBase + s - DivSection

\* Every entry is stored in the word of the page it maps.
EntriesInPlace ==
    \A r \in Rounds :
        /\ EntryOf(r).phy \in kp_start..(kp_start + KernPgtbs * PgtbCnt - 1)
        /\ EntryWord(r) = TabWord(phy_to_kvm(EntryOf(r).phy))

\* The layouts the handover is safe for: the links and the entries of the pages
\* the kernel runs in are right, whatever becomes of the others.
HandoverLayout ==
    /\ LayoutFits /\ SectionsSuffice
    /\ EntriesRight(KernPages)
    /\ LinksRight({PgdIdx(phy_to_kvm(p)) : p \in KernPages})

\* Every `|' is a sum: what the alignment of a base to the (rounded) size of its
\* region gives.
OrAdds(base, cnt) == \A i \in 0..(cnt - 1) : BitOr(base, i) = base + i
AlignedLayout ==
    /\ OrAdds(TabBase, KernPgtbs)
    /\ \A k \in DOMAIN Mapped :
          LET r == Mapped[k]
          IN  /\ OrAdds(r.base, PgCnt(r.size)) /\ OrAdds(r.base - kp_start, PgCnt(r.size))
              /\ r.base - kp_start + PgCnt(r.size) <= KernPgtbs * PgtbCnt

-----------------------------------------------------------------------------
(* What makes the above inductive.                                             *)

Before == {"enable", "enabled", "memset", "map", "dsb"}
After  == {"link", "tlbi", "sp", "kernel_init"}

\* The entries and the links the CPU has stored.
RoundsDone ==
    {r \in Rounds :
        \/ At("map") /\ (r[1] < boot.reg \/ (r[1] = boot.reg /\ r[2] < boot.i))
        \/ At("dsb") \/ boot.at \in After}
Linked == {s \in DivSection..(PgdCnt - 1) : boot.at \in After /\ (At("link") => s - DivSection < boot.i)}

BootOrder ==
    /\ ttbr0 = BootPgd /\ ttbr1 = BootPgd
    /\ boot \in [at : Before \union After, reg : DOMAIN Mapped, i : Nat]
    /\ enabled <=> ~At("enable")

\* A word of the directory is a section until its link drains.
DirectoryInvariant ==
    \A s \in DivSection..(PgdCnt - 1) :
        LET w == <<BootPgd, s>>
        IN  /\ mem[w] # BootWords[s] => s \in Linked /\ mem[w] = LinkDesc(s)
            /\ \A n \in 1..Len(buf[w]) : s \in Linked /\ buf[w][n] = LinkDesc(s)
            /\ s \in Linked => Load(w) = LinkDesc(s)

\* A word of the tables is cleared, then holds the last entry stored there, and
\* is in memory before the first table is linked.
TablesInvariant ==
    \A w \in TabWords :
        /\ boot.at \in After => buf[w] = <<>>
        /\ At("memset") /\ (w[1] - TabBase) * PgtbCnt + w[2] < boot.i => Load(w) = Empty
        /\ boot.at \in {"map", "dsb"} \union After =>
              \/ Load(w) = Empty /\ \A r \in RoundsDone : EntryWord(r) # w
              \/ \E r \in RoundsDone : EntryWord(r) = w /\ Load(w) = PgtbDesc(EntryOf(r))

BootInvariant == TypeOK /\ QuietWhenOff /\ BootOrder /\ DirectoryInvariant /\ TablesInvariant

\* The walker has met nothing but the kernel where the kernel is.
WalkerInvariant ==
    \A p \in KernPages :
        LET v == phy_to_kvm(p)
        IN  /\ tlb[v] # None => LeadsTo(tlb[v], p)
            /\ walk # None /\ walk.va = v =>
                  PgdIdx(v) \in Linked /\ walk.l1 = LinkDesc(PgdIdx(v))

\* Everywhere in the kernel half it has met a section of the boot, a link, or what
\* k_pgd was left with.
WindowInvariant ==
    \A v \in UpperPages :
        /\ tlb[v] # None => LeadsTo(tlb[v], WindowPage(v)) \/ FromJunk(v, tlb[v])
        /\ walk # None /\ walk.va = v =>
              \/ PgdIdx(v) \in Linked /\ walk.l1 = LinkDesc(PgdIdx(v))
              \/ PgdIdx(v) \notin BootMapped /\ walk.l1 = JunkPgd

(* The directory of the kernel half is a mixture of boot sections and links,   *)
(* word by word and in memory as in the store buffer; the tables the links     *)
(* lead to are complete and in memory; and the TLB and a walk in flight hold   *)
(* nothing else of the pages of the kernel.                                    *)
HandoverInvariant == BootInvariant /\ WalkerInvariant

-----------------------------------------------------------------------------

(* The boot reaches kernel_init.                                               *)
BootCompletes == <>At("kernel_init")
=============================================================================
