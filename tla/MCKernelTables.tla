---------------------------- MODULE MCKernelTables ----------------------------
(* Sections of four pages, four of them in either half, and two page tables in *)
(* a page.  The memory nobody has written maps everything to page 0.           *)
EXTENDS KernelProperties, Bitwise

CONSTANT kpgd   \* k_pgd as the address of a page directory

MCBitOr(a, b)  == a | b
MCFrames       == 0..(DivSection * PgtbCnt - 1)
MCPgTabs       == TabBase..(TabBase + KernPgtbs - 1)
MCJunkPgd      == [type |-> "section", addr |-> 0, dom |-> "USER_DOMAIN", ap |-> "KRW_URW"]
MCJunkPgtb     == [type |-> "small", addr |-> 0, dom |-> "USER_DOMAIN", ap |-> "KRW_URW"]
=============================================================================
