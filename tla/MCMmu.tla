-------------------------------- MODULE MCMmu --------------------------------
(* Instances of Armv7Mmu for TLC: the 2G/2G split of the boot, two or four     *)
(* sections of two pages each, half of them the user's, the boot directory in  *)
(* both TTBRs and one more directory.                                          *)
EXTENDS MmuProperties, Bitwise

CONSTANTS
    kpgd,       \* k_pgd
    npgd,       \* a new directory
    odd,        \* an address of no directory
    ram, img,   \* what the sections of the boot map
    f1, f2      \* physical pages mapped later

\* The last section of each half, and the regions of page tables: the kernel
\* half's tables come first, the user half's follow.
US == DivSection - 1
KS == PgdCnt - 1
MCPgTabs == 0..KS
MCBitOr(a, b) == a | b
UserRegion == KernPgtbs
KernRegion == 0

\* init_user_pg_dir and init_kern_pg_dir: user space 1:1, one kernel section.
MCBootWord ==
    [i \in 0..KS |->
        IF i <= US + 1
        THEN [type |-> "section", addr |-> IF i <= US THEN ram ELSE img,
              dom |-> "USER_DOMAIN", ap |-> "KRW_URW"]
        ELSE Empty]

MCFrames    == {ram, img, f1, f2}

Entry(t, p, s, x, a) == [type |-> t, phy |-> p, va |-> <<s, x>>, acc |-> a]

\* The last user section gets a table; both its pages are mapped.
MCMapRequests ==
    {Entry("PG_DIR", UserRegion + US, US, 0, "USER"), Entry("PG_DIR_INVAL", NoAddr, US, 0, "USER"),
     Entry("PG_TAB", f1, US, 0, "USER"), Entry("PG_TAB", f2, US, 1, "KERN_USER")}

\* The last kernel section gets a table as init_setup_kern_pgtb links it.
MCDirRequests ==
    {[type |-> t, phy |-> KernRegion + KS - DivSection, va |-> <<KS, 0>>, dom |-> "USER_DOMAIN", ap |-> "KRW_NOU"]
        : t \in {"table", "super"}}

\* Off-line: a page of the last table of each half, and the second directory's
\* link to the user half's.
MCNewRequests ==
    {<<KernRegion, Entry("PG_TAB", f1, KS, 1, "KERNEL")>>,
     <<UserRegion, Entry("PG_TAB", f1, US, 0, "USER")>>,
     <<npgd, Entry("PG_DIR", UserRegion + US, US, 0, "USER")>>}

\* The user half's part of them, for the run that watches the hardware closely.
MCUserMapRequests == {e \in MCMapRequests : e.phy # f2}
MCUserNewRequests == {r \in MCNewRequests : r[2].acc = "USER"}
MCUserRegions     == {<<<<US, 0>>, 1>>}

\* Its pages only, for the run over both halves.
MCPageRequests    == {r \in MCNewRequests : ~IsDirEntry(r[2])}

MCInvalPages == {<<US, 0>>}
MCRegions    == {<<<<KS, 1>>, 1>>, <<<<US, 0>>, 1>>, <<<<US, 1>>, 0>>}

=============================================================================
