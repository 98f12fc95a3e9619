----------------------------- MODULE KernelTables -----------------------------
(* The start of the kernel half of the address space: the sections             *)
(* vexpress_boot_init writes before it enables the MMU, and the page tables    *)
(* vexpress_init (vexpress_init.c:175-249) builds and puts in their place      *)
(* while the MMU runs, as a client of Armv7Mmu.                                *)
(*                                                                             *)
(* The symbols of the linker script are physical page numbers here.  Regions   *)
(* are whole pages, as the script aligns them.  Access permissions and the     *)
(* domain register are not modelled: a page is mapped, somewhere, or not.      *)
EXTENDS Armv7Mmu

CONSTANTS
    kp_start,           \* the physical page the kernel half is mapped to
    k_pgd, lmi_start, k_stack, hmi_start, k_start, k_end,
    PgdPages,           \* MMU_KPGD_SIZE, in pages
    TabsPerPage,        \* page tables in a page, 4 in the code
    JunkPgd, JunkPgtb   \* what the words nobody has written hold

ASSUME LayoutAssumption ==
    /\ {kp_start, k_pgd, lmi_start, k_stack, hmi_start, k_start, k_end} \subseteq Nat
    /\ kp_start % PgtbCnt = 0 /\ PgdPages \in Nat /\ TabsPerPage \in Nat \ {0}
    /\ kp_start <= k_pgd /\ k_pgd + PgdPages <= lmi_start /\ lmi_start < k_stack
    /\ k_stack <= hmi_start /\ hmi_start < k_start /\ k_start < k_end
    /\ JunkPgd \in Invalid \union Table \union Section
    /\ JunkPgtb \in Invalid \union SmallPg

VARIABLE boot   \* where vexpress_init is: the step, the region it maps, the loop counter

bootVars == <<boot, vars>>

-----------------------------------------------------------------------------
(* Addresses.                                                                  *)

\* The page of the kernel half that is n pages above kv_start.
KernPage(n) == <<DivSection + n \div PgtbCnt, n % PgtbCnt>>

phy_to_kvm(p) == KernPage(p - kp_start)

\* struct mm_reg, as vexpress_init lays them out.
Region(base, size) == [base |-> base, size |-> size]
mmu_pgtb_reg == Region((k_end \div PgtbCnt + 1) * PgtbCnt, KernPgtbs \div TabsPerPage)
mmu_pgd_reg  == Region(k_pgd, PgdPages)
kstack_reg   == Region(k_stack - 1, 1)
kinit_reg    == Region(hmi_start, k_start - hmi_start)
kern_reg     == Region(k_start, k_end - k_start)

Pages(r) == r.base..(r.base + r.size - 1)

\* The calls of init_map_kern_pgtb, in order.
Mapped == <<kinit_reg, kern_reg, kstack_reg, mmu_pgtb_reg, mmu_pgd_reg>>

\* Address of the first page table.
TabBase == mmu_pgtb_reg.base * TabsPerPage

-----------------------------------------------------------------------------
(* vexpress_boot_init.                                                         *)

\* A mutant: an address is taken to the next section.
SectionOf_Up(p) == ((p + PgtbCnt - 1) \div PgtbCnt) * PgtbCnt

SectionOf(p) == (p \div PgtbCnt) * PgtbCnt

init_pg_dir_entry(p) ==
    [type |-> "section", addr |-> SectionOf(p), dom |-> "USER_DOMAIN", ap |-> "KRW_URW"]

\* The number of sections init_kern_pg_dir maps.
SectionCnt == (k_end - lmi_start) \div PgtbCnt + 1

\* k_pgd after init_user_pg_dir and init_kern_pg_dir.
BootWords ==
    LET p(i) == lmi_start + i * PgtbCnt
        high == {i \in 0..(SectionCnt - 1) : PgdIdx(phy_to_kvm(p(i))) < PgdCnt}
    IN  [s \in 0..(PgdCnt - 1) |->
            IF s < DivSection THEN init_pg_dir_entry(s * PgtbCnt)
            ELSE IF \E i \in high : s = PgdIdx(phy_to_kvm(p(i)))
            THEN init_pg_dir_entry(p(CHOOSE i \in high : s = PgdIdx(phy_to_kvm(p(i)))))
            ELSE JunkPgd]

BootInit ==
    /\ Booting([w \in Words |-> IF w[1] = BootPgd THEN BootWords[w[2]] ELSE JunkPgtb])
    /\ boot = [at |-> "enable", reg |-> 1, i |-> 0]

-----------------------------------------------------------------------------
(* vexpress_init.  Each loop does one store per step, and leaves in a step of  *)
(* its own.                                                                    *)

At(step)   == boot.at = step
Goto(step) == boot' = [at |-> step, reg |-> 1, i |-> 0]

\* A mutant: a loop forgets to count.
Round_Stuck == UNCHANGED boot

Round      == boot' = [boot EXCEPT !.i = @ + 1]
NoStore    == UNCHANGED vars

\* init_enable_mmu, its invalidation of the TLB included.
Enable ==
    \/ At("enable") /\ EnableMmu /\ Goto("enabled")
    \/ At("enabled") /\ InvalidateTlb /\ Goto("memset")

\* A mutant: the tables keep what the memory held.
ClearTables_Skipped == At("memset") /\ NoStore /\ Goto("map")

\* memset of the page tables.
ClearTables ==
    /\ At("memset")
    /\ IF boot.i < KernPgtbs * PgtbCnt
       THEN /\ Perform(Put(<<TabBase + boot.i \div PgtbCnt, boot.i % PgtbCnt>>, Empty), NoCall)
            /\ Round
            /\ UNCHANGED <<enabled, ttbr0, ttbr1, mem, mmuVars, owed>>
       ELSE NoStore /\ Goto("map")

\* clr_lv_msb
TopBit[n \in Nat \ {0}] == IF n = 1 THEN 1 ELSE 2 * TopBit[n \div 2]
IsPowerOfTwo(n) == n # 0 /\ TopBit[n] = n

\* A mutant: the pages above the top bit of the count are lost.
PgCnt_Floor(size) == IF size = 0 THEN 0 ELSE TopBit[size]

\* The number of pages init_map_kern_pgtb maps: the next power of two.
PgCnt(size) ==
    IF size = 0 THEN 0 ELSE IF IsPowerOfTwo(size) THEN TopBit[size] ELSE 2 * TopBit[size]

\* The entry of round i for region r, and the page table it goes to.
MapEntry(r, i) ==
    [type |-> "small", phy |-> BitOr(r.base, i),
     va |-> KernPage(BitOr(r.base - kp_start, i)), ap |-> "KRW_NOU"]
MapTable(r, i) == BitOr(TabBase, (r.base - kp_start + i) \div PgtbCnt)

\* The loops of init_map_kern_pgtb, with armv7_mmu_map_new_pgtb.
MapRegions ==
    /\ At("map")
    /\ LET r == Mapped[boot.reg]
       IN  IF boot.i < PgCnt(r.size)
           THEN /\ Perform(create_pgtb_entry(MapTable(r, boot.i), MapEntry(r, boot.i)), NoCall)
                /\ Round
                /\ UNCHANGED <<enabled, ttbr0, ttbr1, mem, mmuVars, owed>>
           ELSE /\ NoStore
                /\ IF boot.reg < Len(Mapped)
                   THEN boot' = [at |-> "map", reg |-> boot.reg + 1, i |-> 0]
                   ELSE Goto("dsb")

\* A mutant: the tables are linked without waiting for their contents.
Barrier_Skipped == At("dsb") /\ NoStore /\ Goto("link")

Barrier == At("dsb") /\ Dsb /\ Goto("link")

\* init_setup_kern_pgtb, one directory entry per step; an error is a panic.
LinkEntry(i) ==
    [type |-> "table", phy |-> BitOr(TabBase, i), va |-> KernPage(i * PgtbCnt),
     dom |-> "USER_DOMAIN", ap |-> "KRW_NOU"]
LinkTables ==
    /\ At("link")
    /\ IF boot.i < KernPgtbs
       THEN LET r == armv7_mmu_map_pgd(LinkEntry(boot.i))
            IN  /\ Perform(r, NoCall)
                /\ OweForStore(r)
                /\ IF r.err = "ESUCC" THEN Round ELSE Goto("panic")
                /\ UNCHANGED <<enabled, ttbr0, ttbr1, mem, mmuVars>>
       ELSE NoStore /\ Goto("tlbi")

Invalidate == At("tlbi") /\ InvalidateTlb /\ Goto("sp")

\* From here on the stack is used at its address in the kernel half.
move_high_sp == At("sp") /\ NoStore /\ Goto("kernel_init")

BootStep ==
    Enable \/ ClearTables \/ MapRegions \/ Barrier \/ LinkTables \/ Invalidate \/ move_high_sp

BootNext == BootStep \/ (Hardware /\ UNCHANGED boot)

BootSpec == BootInit /\ [][BootNext]_bootVars

\* The CPU executes, and its stores drain.
FairBootSpec ==
    BootSpec /\ WF_bootVars(BootStep) /\ \A w \in Words : WF_bootVars(Drain(w) /\ UNCHANGED boot)
=============================================================================
