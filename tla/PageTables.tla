------------------------------ MODULE PageTables ------------------------------
(* The format of the ARMv7 short-descriptor translation tables as the driver   *)
(* source/arch/arm/armv7/mmu/armv7_mmu.c builds and reads them, and the        *)
(* conversions of source/arch/arm/armv7/mmu/armv7_arch_mmu.c from the generic  *)
(* entries of include/mm/mmu.h.                                                *)
(*                                                                             *)
(* A virtual page is the pair <<section, page>> of the two index fields of its *)
(* address (bits 31..20 and 19..12); the offset within a page plays no part    *)
(* here and is dropped.  A table word is the pair <<base, index>>.             *)
EXTENDS Integers

CONSTANTS
    PgDiv,      \* TTBCR.N, the split between TTBR0 and TTBR1
    PgdCnt,     \* PGD_ENTRY_CNT, 4096 in the code
    PgtbCnt,    \* entries of a page table, 256 in the code
    KernPgds,   \* addresses a full page directory can have: 1 << 14 aligned
    UserPgds,   \* addresses fit for a user directory only: 1 << (14 - PgDiv) aligned
    PgTabs,     \* addresses of page tables, counted in PGTB_SZ units
    Frames,     \* physical pages and sections, as far as they are told apart
    NoAddr,     \* the address field of an invalid entry
    Identity    \* the base of a translation that changes nothing

-----------------------------------------------------------------------------
(* Geometry: how a virtual address selects a directory and two words.          *)

\* First section of the upper half: 1 << (32 - N), in sections.
DivSection == PgdCnt \div 2^PgDiv

ASSUME GeometryAssumption ==
    /\ PgDiv \in 0..7
    /\ PgdCnt \in Nat \ {0}
    /\ PgtbCnt \in Nat \ {0}
    /\ DivSection \in 1..PgdCnt
    /\ PgTabs \subseteq Nat
    /\ PgTabs \intersect (KernPgds \union UserPgds) = {}
    /\ NoAddr \notin Frames

VPages == (0..(PgdCnt - 1)) \X (0..(PgtbCnt - 1))

PgdIdx(v)  == v[1]
PgtbIdx(v) == v[2]

\* A mutant: the boundary address itself is left to the lower half.
is_higher_half_Strict(v) == PgDiv > 0 /\ PgdIdx(v) > DivSection

is_higher_half(v) == PgDiv > 0 /\ PgdIdx(v) >= DivSection

\* arch_mmu_get_kern_vaddr, in sections: 0 when there is no split.
KernVaddr == IF PgDiv > 0 THEN DivSection ELSE 0

\* Page tables a half needs: arch_mmu_get_{user,kern}_pgtb_reg_sz, in PGTB_SZ.
UserPgtbs == IF PgDiv > 0 THEN DivSection ELSE PgdCnt
KernPgtbs == IF PgDiv > 0 THEN PgdCnt - DivSection ELSE PgdCnt

\* The page after v, with the wrap of a 32-bit address.
NextPage(v) ==
    IF PgtbIdx(v) + 1 < PgtbCnt
    THEN <<PgdIdx(v), PgtbIdx(v) + 1>>
    ELSE <<(PgdIdx(v) + 1) % PgdCnt, 0>>

\* Every word a translation may be read from.
Words ==
    (KernPgds \X (0..(PgdCnt - 1)))
        \union (UserPgds \X (0..(DivSection - 1)))
        \union (PgTabs \X (0..(PgtbCnt - 1)))

-----------------------------------------------------------------------------
(* Descriptors.                                                                *)

Domains  == {"USER_DOMAIN", "KERN_DOMAIN"}
AccPerms == {"KRW_NOU", "KRW_URW", "KRO_NOU", "KRO_URO"}

Invalid  == [type : {"invalid"}, addr : {NoAddr}, dom : Domains, ap : AccPerms]
Table    == [type : {"table"},   addr : PgTabs,   dom : Domains, ap : {"KRW_NOU"}]
Section  == [type : {"section"}, addr : Frames,   dom : Domains, ap : AccPerms]
SmallPg  == [type : {"small"},   addr : Frames,   dom : {"USER_DOMAIN"}, ap : AccPerms]

Descs == Invalid \union Table \union Section \union SmallPg

\* What a translation yields: a physical page (a section is entered at the
\* page's own index), the domain and the permissions checked on an access.
Fault    == [base |-> NoAddr, off |-> 0, dom |-> "USER_DOMAIN", ap |-> "KRW_NOU"]
Direct   == [base |-> Identity, off |-> 0, dom |-> "USER_DOMAIN", ap |-> "KRW_NOU"]
Translations ==
    [base : Frames \union {NoAddr, Identity}, off : 0..(PgtbCnt - 1),
     dom : Domains, ap : AccPerms]

\* The translation a first-level word l1 and, when that is a table, the
\* second-level word l2 give v.
Resolve(v, l1, l2) ==
    IF l1.type = "section"
    THEN [base |-> l1.addr, off |-> PgtbIdx(v), dom |-> l1.dom, ap |-> l1.ap]
    ELSE IF l1.type = "table" /\ l2.type = "small"
         THEN [base |-> l2.addr, off |-> 0, dom |-> l1.dom, ap |-> l2.ap]
         ELSE Fault

\* Word of the table entry l1 that v uses.
PgtbWord(l1, v) == <<l1.addr, PgtbIdx(v)>>

-----------------------------------------------------------------------------
(* Entries as the callers describe them.                                       *)

AccFlags == {"USER", "KERN_USER", "KERNEL", "KERNEL_RO", "DEVICE"}

arch_mmu_acc_to_domain(acc) ==
    IF acc \in {"USER", "KERN_USER"} THEN "USER_DOMAIN" ELSE "KERN_DOMAIN"

arch_mmu_acc_to_armv7(acc) ==
    [USER |-> "KRW_URW", KERN_USER |-> "KRO_URO", KERNEL |-> "KRW_NOU",
     KERNEL_RO |-> "KRO_NOU", DEVICE |-> "KRW_NOU"][acc]

\* struct mmu_entry
Entries ==
    [type : {"PG_DIR", "PG_DIR_INVAL", "PG_TAB", "PG_TAB_INVAL"},
     phy : PgTabs \union Frames \union {NoAddr}, va : VPages, acc : AccFlags]

IsDirEntry(e) == e.type \in {"PG_DIR", "PG_DIR_INVAL"}

\* struct armv7_mmu_pgd_entry and armv7_mmu_pgtb_entry, as arch_mmu_create_entry
\* and arch_mmu_create_new_entry fill them from a struct mmu_entry.
PgdEntry(e) ==
    [type |-> IF e.type = "PG_DIR" THEN "table" ELSE "invalid",
     phy |-> e.phy, va |-> e.va, dom |-> arch_mmu_acc_to_domain(e.acc), ap |-> "KRW_NOU"]
PgtbEntry(e) ==
    [type |-> IF e.type = "PG_TAB" THEN "small" ELSE "invalid",
     phy |-> e.phy, va |-> e.va, ap |-> arch_mmu_acc_to_armv7(e.acc)]

armv7_is_supported_pgd_type(t)  == t \in {"invalid", "section", "table"}
armv7_is_supported_pgtb_type(t) == t \in {"invalid", "small"}

\* The word create_pgd_entry stores: only a section carries permissions, and an
\* invalid entry loses its address.
PgdDesc(pe) ==
    [type |-> pe.type,
     addr |-> IF pe.type = "invalid" THEN NoAddr ELSE pe.phy,
     dom  |-> pe.dom,
     ap   |-> IF pe.type = "section" THEN pe.ap ELSE "KRW_NOU"]

\* The word create_pgtb_entry stores.  Callers that invalidate pass address 0.
PgtbDesc(te) ==
    [type |-> te.type,
     addr |-> IF te.type = "invalid" THEN NoAddr ELSE te.phy,
     dom  |-> "USER_DOMAIN", ap |-> te.ap]
=============================================================================
