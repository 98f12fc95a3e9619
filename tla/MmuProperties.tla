---------------------------- MODULE MmuProperties ----------------------------
(* What must hold of Armv7Mmu.                                                 *)
EXTENDS Armv7Mmu

(* The variables hold values of their types; the walker in particular only     *)
(* ever carries a first-level word that points to a page table.                *)
TypeOK ==
    /\ enabled \in BOOLEAN
    /\ ttbr0 \in KernPgds \union UserPgds
    /\ ttbr1 \in KernPgds
    /\ mem \in [Words -> Descs]
    /\ buf \in [Words -> Seq(Descs)]
    /\ tlb \in [VPages -> Translations \union {None}]
    /\ walk \in Walks \union {None}
    /\ call \in Calls
    /\ ret \in Errno
    /\ owed \in {"nothing", "flush", "barrier"}

-----------------------------------------------------------------------------

\* The tables in use are as the call that selected them left them: no switch,
\* and no enabling of the MMU, waits for its invalidation.
Switching == call.op \in {"enable", "switch"}
Settled   == owed = "nothing" /\ ~Switching

(* A caller that follows every table change with a dsb and an invalidation, as *)
(* armv7_mmu.c:184-186 and arch_mmu.h:44-45 ask, never meets a stale           *)
(* translation: once nothing is owed the TLB holds only what virt_to_phy would *)
(* answer.  Off-line construction of tables owes nothing, and a switch of the  *)
(* user directory needs no invalidation by the caller.                         *)
NoStaleTranslation ==
    Settled => \A v \in VPages : tlb[v] \in {None, virt_to_phy(v)}

(* When no barrier is owed the walker reads, for every page, the very words    *)
(* the CPU would load: stores still pending go to tables nobody uses.          *)
ActiveTablesDrained ==
    (enabled /\ owed # "barrier") =>
        \A v \in VPages :
            /\ buf[PgdWord(v)] = <<>>
            /\ mem[PgdWord(v)].type = "table" => buf[PgtbWord(mem[PgdWord(v)], v)] = <<>>

(* A walk in flight when nothing is owed follows the table now in use.         *)
WalkIsCurrent ==
    (Settled /\ walk # None) => walk.l1 = mem[PgdWord(walk.va)]

(* The TLB is empty and no walk is under way until the MMU is on.              *)
QuietWhenOff == ~enabled => walk = None /\ \A v \in VPages : tlb[v] = None

(* What makes NoStaleTranslation inductive.                                    *)
Coherence ==
    /\ TypeOK
    /\ QuietWhenOff
    /\ ActiveTablesDrained
    /\ WalkIsCurrent
    /\ NoStaleTranslation

-----------------------------------------------------------------------------

(* A page mapped or unmapped through arch_mmu_create_entry is translated as    *)
(* asked, and only the pages that share the written word change with it.       *)
MappingIsExact ==
    [][\A e \in MapRequests :
          (/\ ~IsDirEntry(e) /\ enabled /\ ret' = "ESUCC" /\ Idle'
           /\ CreateEntry(e))
          => \A v \in VPages :
                IF /\ PgtbIdx(v) = PgtbIdx(e.va)
                   /\ Load(PgdWord(v)).type = "table"
                   /\ Load(PgdWord(v)).addr = Load(PgdWord(e.va)).addr
                THEN virt_to_phy(v)' =
                        IF e.type = "PG_TAB"
                        THEN [base |-> e.phy, off |-> 0, dom |-> Load(PgdWord(v)).dom,
                              ap |-> arch_mmu_acc_to_armv7(e.acc)]
                        ELSE Fault
                ELSE virt_to_phy(v)' = virt_to_phy(v)]_vars

(* Tables built off-line with arch_mmu_create_new_entry do "not (and must not) *)
(* effect the current operating state of the mmu" (armv7_mmu.c:225, 306).      *)
OfflineBuildInvisible ==
    [][\A r \in NewRequests :
          CreateNewEntry(r[1], r[2]) =>
              \A v \in VPages : virt_to_phy(v)' = virt_to_phy(v)]_vars

(* A switch of the user directory leaves the kernel half of the address space  *)
(* exactly as it was, whatever the new directory holds.                        *)
SwitchKeepsKernelHalf ==
    [][ttbr0' # ttbr0 =>
          \A v \in VPages :
              (PgdIdx(v) >= DivSection /\ enabled) => virt_to_phy(v)' = virt_to_phy(v)]_vars

(* Every call returns, or ends in the data abort handler.  The exception is     *)
(* what the code has: the loop of mmu_invalidate_region counts nothing, and    *)
(* ends only at an address without a page table, which need not exist.         *)
TablesEverywhere == \A v \in VPages : Load(PgdWord(v)).type = "table"
Endless          == call.op = "region" /\ TablesEverywhere
CallsReturn      == (~Idle /\ ~Endless) ~> (call.op \in {"none", "aborted"})

(* The MMU keeps the promise of AddressSpace.                                  *)
Promise == INSTANCE AddressSpace WITH
    Pages <- VPages,
    view <- [v \in VPages |-> virt_to_phy(v)],
    cached <- tlb,
    switching <- Switching
ImplementsAddressSpace == Promise!Spec

-----------------------------------------------------------------------------
(* Statements of the sources that the code does not keep.                      *)

(* mmu.c:79 "invalidates a page by removing the virtual->physical mapping":    *)
(* when mmu_invalidate_page returns ESUCC, the walker finds no mapping.        *)
InvalidatedPageIsGone ==
    [][(call.op = "page" /\ Idle') =>
          LET l1 == mem[PgdWord(call.base)]
          IN  l1.type = "table" => mem[PgtbWord(l1, call.base)].type # "small"]_vars

(* mmu.c:98-101 "invalidates a region of virtual memory", "pg_cnt number of    *)
(* pages to invalidate in region": no page outside the region is unmapped.     *)
Address(v)    == PgdIdx(v) * PgtbCnt + PgtbIdx(v)
InRegion(v, c) == (Address(v) - Address(c.base)) % (PgdCnt * PgtbCnt) < c.cnt
RegionIsBounded ==
    [][(call.op = "region" /\ \E w \in Words : Len(buf'[w]) > Len(buf[w]))
          => InRegion(call.cur, call)]_vars
=============================================================================
