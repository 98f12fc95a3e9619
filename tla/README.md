# Sugarcat in TLA+

Sugarcat is a small kernel for the ARM Cortex-A9 on the Versatile Express board: a boot path, a
device-tree and ATAG reader, a driver for the two-level ARMv7 page tables, exception vectors, and a
heap prototype that is run on the host (`src/test.c`). This directory holds TLA+ modules of the parts
where order and boundaries matter, TLC configurations that check them on small instances, and theorems
checked by TLAPS for every instance.

    tlc -config mmu_core.cfg MCMmu.tla          # model-check a run (table below)
    tlapm MmuCoherence.tla                      # check the proofs of a module

Paths below are relative to `src/`; `armv7_mmu.c` and `armv7_arch_mmu.c` are in
`source/arch/arm/armv7/mmu/`, `mmu.c` in `source/kernel/mm/`, `vexpress_*.c` in
`source/mach/vexpress_a9/`. `PROJECT.json` maps every definition to its lines.

## 1. Inventory

| Component | State it keeps | Operations | What is hard, and what makes it correct |
|---|---|---|---|
| ARMv7 MMU driver: `armv7_mmu.c`, `armv7_mmu.h`, `armv7_syscntl.h` | TTBR0/1, TTBCR, SCTLR; page directories and tables in memory; behind its back the write buffer, the TLB and the table walker | map an entry in the tables in use, or in new ones; set either directory; translate | The walker reads memory at its own times, the CPU's stores arrive late, the TLB keeps what was. Nothing stale may be left once the caller has done its barriers |
| Architecture interface: `armv7_arch_mmu.c`, `arch_mmu.h` | none | `arch_mmu_create_entry`, `arch_mmu_create_new_entry`, sizes, `arch_mmu_invalidate` | index arithmetic at the split; new tables must not show |
| Generic MMU: `mmu.c` | `mmu_pg_tbs` (never read) | `mmu_set_user_page_dir`, `mmu_invalidate_page`, `mmu_invalidate_region` | barrier before invalidation, bounded loop, errors half-way |
| First directory: `vexpress_boot_init.c` | `k_pgd` | 1:1 user half, sections of the kernel half, enable | every page of the image has a section |
| Kernel page tables: `vexpress_init.c` 104-250, 405-531 | 2048 page tables above the image | clear, map five regions, link 2048 entries, invalidate | the kernel replaces the sections it runs from while the MMU is on |
| Heap prototype: `test.c` | one page, a doubly linked list of headers | `kmalloc`, `kfree` | splitting, two-sided coalescing, best fit, rounding |
| Memory discovery: `fdt.c`, `atag.h`, `memlayout.c`, `vexpress_init.c` 262-402 | none (walks a blob) | find node, property; choose a region | prefix comparison of names, cell sizes, adjacency |
| `kernel_init.c` | bss | clears, installs vectors, prints regions | `hmi_bss_sz` is start minus end (line 39); harmless while that bss is empty |
| Vectors: `ivt/*` | VBAR; banked lr, sp, spsr; the stacks above `k_stack` | `install_ivt`, four handlers and their C functions | vector, offset and message must agree; the handlers share registers and memory with what they interrupt, and return through a link register they overwrite |
| `mm.h`, `pmm.h`, `mem.h`, `bits.h`, `str.c` | none | pure functions | wrap-around, off-by-one |
| `spinlock.c`, `pmm.c`, `main.c` | - | no code | - |
| ARMv6 port | - | not built | - |

Interaction. `vexpress_boot_init` writes `k_pgd`, loads both TTBRs with it and enables the MMU with a
2G/2G split. `kernel_init` installs the vectors; before that an exception goes to whatever lies at the low
vectors. `vexpress_init` builds page tables with `armv7_mmu_map_new_pgtb` through the 1:1 half and
links them with `armv7_mmu_map_pgd`. The generic interface goes through `arch_mmu_create_entry` to the
same driver. The driver uses physical table addresses as pointers, so it depends on the user half being
mapped 1:1, an expectation only a comment of `kernel_init.c` (31-34) states. One CPU runs, no lock exists
(`mmu.c:43` asks for one), and no handler calls the MMU interface: the concurrency is between the CPU, its write
buffer and the walker, between the program and its exceptions, and between the heap and a signal handler.

`PROJECT.json` lists the hazards at their lines, with the properties that would catch each.

## 2. Plan

Modules, in the order they were written.

1. **MMU**: `PageTables` (data), `Armv7Mmu` (all operations and the hardware), `MmuProperties`,
   `AddressSpace` (abstract), `MmuProofs`, `MmuCoherence`, `MmuRefinement`.
2. **Heap**: `Allocator` (abstract), `Heap`, `HeapProperties`, `HeapStores` (the same calls, a store at a
   time, under a signal handler), `HeapProofs`, `HeapRefinement`.
3. **Boot**: `KernelTables`, a client program composed with `Armv7Mmu`, `KernelProperties`, `KernelProofs`.
4. **Memory discovery**: `BootData` (the formats), `Discovery` (walks and callers), `DiscoveryProperties`, `DiscoveryProofs`.
5. **Exceptions**: `Exceptions`, `ExceptionProperties`, `ExceptionProofs`.

Every safety property of a passing run now has a theorem; what could follow is an
abstract specification of the discovery, which answers from the tree at once, and the walks shown to implement it.

## 3. The modules and the code

### PageTables
A virtual address is `<<section, page in section>>`; `PgdCnt` sections of `PgtbCnt` pages, split at
`DivSection` by TTBCR.N (`PgDiv`). A directory is named by its address, a page table by its number, so
that a region of tables is an interval. A word is a record `[type, addr, dom, ap]`. `Resolve` is the
architecture's translation, and the second half of `armv7_mmu_virt_to_phy`. Large pages, super sections,
cache attributes and the flags field (0 in every call) are left out; unsupported types stay as inputs
that are refused.

### Armv7Mmu
| Variable | Code or hardware |
|---|---|
| `enabled`, `ttbr0`, `ttbr1` | SCTLR.M, the two TTBRs |
| `mem` | the descriptors in memory, by word |
| `buf` | pending stores of each word: stores to one word stay in order, stores to different words do not |
| `tlb`, `walk` | the TLB, and the walk in progress between its reads of the directory and the table |
| `call`, `ret` | where the CPU is in `mmu_invalidate_*` or a register update, and the last errno |
| `owed` | what `arch_mmu.h:44-45` makes the caller's duty: a barrier, then a flush (history variable) |

Each function of the interface is an action (`CreateEntry`, `MapPgd`, `CreateNewEntry`, `SetUserPageDir`,
`SetKernPgd`, `InvalidatePage`, `InvalidateRegion`, `EnableMmu`); calls with several hardware effects take several steps, so that the
hardware gets between them. `Perform` gives the three outcomes of a store: done, an errno, or a data
abort when the table is not mapped. The hardware actions (`Drain`, `WalkPgd`, `WalkPgtb`, `Evict`) are
the architecture's freedom, and marked external in the map. A CPU load sees its own pending stores
(`Load`); the walker reads `mem`.

The model of a barrier: `Dsb` waits until every store has drained. `InvalidateTlb` empties the TLB and
drops the walk in progress. Both are what the architecture gives; weaker readings (a walk that survives
an invalidation until the next dsb) are not modelled.

`IsNew` is the precondition `arch_mmu_create_new_entry` states ("intended for new (unmapped) page
tables & directories"): the region is not linked from the tables in use. `TableInRegion` is the code's
`base | (index << 10)` (`armv7_arch_mmu.c:118`), with `|` a constant operator (`BitOr`) of which `OrAssumption` asks that it
clears no bit and carries none; `BitOr` is Bitwise's in the MC module. A base that is not aligned to its region, which
`arch_mmu_get_pgtb_alignment` allows (4 KiB), folds tables onto each other: the proofs hold for it too, the runs have aligned regions.

`CallsReturn` has an exception. The loop of `mmu_invalidate_region` ends only at an address without a page table. When every word of the
directory leads to a table, as `init_setup_kern_pgtb` makes the kernel half and a user directory may be, it does not end: the
property leaves out the region calls made in such a state (`Endless`), and `mmu_calls` reaches it.

### KernelTables
A straight-line client of `Armv7Mmu`: `boot` is its program counter, with the region and the counter of
the loop it is in. One store per step, and the hardware of `Armv7Mmu` runs between any two. Addresses are
page numbers, the linker symbols are constants, `BitOr` is `|` (Bitwise in the MC module, a constant
operator here). `BootWords` are the words of `k_pgd` as the two loops of `vexpress_boot_init` leave them,
over what memory held before (`JunkPgd`); `JunkPgtb` is what the table memory held. `vexpress_boot_init.c:71`
has the call of `vexpress_init` commented out in favour of `kernel_init`: the module models the program as
`vexpress_init.c` is written, called after `init_enable_mmu`.
Failures of `init_map_kern_pgtb` print a warning and go on in the code; with the arguments of these calls
`armv7_mmu_map_new_pgtb` cannot return one.

`KernelProperties` has what must hold of it, and the layouts it holds for, as conditions on the linker
symbols. `LayoutFits`: there is memory for the window, the tables and their entries. `SectionsSuffice`: the offset of the image in its first section and
what its length has beyond whole sections fit in one section together, as `init_kern_pg_dir` counts its sections from the length
alone (`boot_last_section` is what happens otherwise). `AlignedLayout`: every base
is aligned to the power of two its region is rounded to, so that every `|` is a sum; `kernel.ld` aligns to pages only,
and `boot_alignment` is what happens otherwise. `HandoverLayout` is weaker than that: only the entries and links of the pages the
kernel runs in must be right. `MCHandover` states them as an assumption TLC evaluates for the layout of `boot_handover`.

`OnlyTheWindow` is about both kinds of junk. What the page tables' memory held is never a translation, of a walk or of the TLB. What `k_pgd`
held in the words `init_kern_pg_dir` does not write is one while the words are there (`FromJunk`), and the TLB may keep it: the links
are stored and the TLB is invalidated with no dsb between (`boot_stale_sections`).

### Heap
An address is an offset into the page, `heap` the function from the addresses of the headers on the list
to the headers. The bytes of the blocks are not modelled. `kmalloc` is three kinds of step: the rounding,
one step of `find_best_fit` per chunk, and `Place` (split or take, or NULL). `kfree` is one step; its statements
are in `HeapStores`. The client may call `kmalloc` with any
size of `Requests`, and `kfree` with NULL or any chunk on the list; freeing a chunk that is already free is
ignored, by the status test at `test.c:196`. Freeing a block whose header a merge has swallowed is not modelled: the code
then reads a header that is no longer on the list, and it is not a legal call.

### HeapStores
The program that uses the heap installs a handler for SIGTSTP, which walks the list and prints it
(`dump_entries`). The handler may come after any store. Here `heap` is what a call amounts to, `mem` the four
fields of every header in memory, and `stores` what the call under way has still to store, in the order
of its statements: a call takes one step per store, and the next begins when there is none left. A header that
a merge has swallowed, and memory nobody has written, hold `Junk`. `DumpIsSafe` says what the handler would
see if it came now: it reaches only headers that are complete except for the status of a chunk being made, and
counts no byte twice. `StoresAgree` says that the statements, each reading what those before it have stored, amount to the
functions of `Heap`: the two modules describe one program. The stores are in program order; a compiler may
move them (the fields are not volatile), which is not modelled.

### BootData, Discovery
`BootData` is the formats as their writers lay them out: a device tree is a sequence of tags, each so many
words long, and `IsPropOf` the tree it stands for; a list of ATAGs is a sequence of regions. Names are sequences of lexemes, so that
`strcmp`, which compares up to the end of its first argument, is `IsPrefix`. `Discovery` is the program: `walk`
is the call into `fdt.c` or `atag.h` in progress, with a cursor in bytes that `fdt_get_next_tag` computes from the lengths (`ALIGN_UP`), one step per tag; `at` is the
caller that waits for the result. `init_reg` is the `mem_reg` of `vexpress_init`, `kern_reg` that of `kernel_init`, which
`mlay_get_initrd_reg` overwrites: what the variable holds first is `JunkReg`. `depth` is the length of `tabs`, and `JunkTabs` the lengths it may have before
the bss is cleared. The program may start at `vexpress_init`, and at `kernel_init`, which
`vexpress_boot_init.c:72` calls today. A cell is the number its writer meant; `Load` is what a little-endian CPU makes of its four bytes, and
`be32_to_cpu` is applied where the code applies it: to the whole cell for the memory, to its first byte for the initrd (`FirstByteOf`, `memlayout.c:93`).
A byte has `ByteValues` values (2 in the runs, 256 on the board), and an address four bytes. The digits that `sprintf` puts into the name that is searched for are one lexeme, a constant (`itox`), as no property tells them apart. Boot data are well formed, and `BootData` says what that is: `IsStructure` (every node is closed, the properties of a node come
before its children, `FDT_END` is the last tag and the only one, no lexeme is a newline) and `IsAtagList` (`ATAG_CORE` comes first, and the memory listed leaves an
address for devices, without which the sum of two sizes could wrap to 0). `BootDataAssumption` adds that the properties
the kernel searches have the cells it reads.

`DiscoveryProperties` states what is found by the names themselves: a node is called `memory` when its name is that, with a unit address or without
(`UnitMarks` are the lexemes that begin with `@`), a property when its name is exactly the one asked for. The code compares prefixes, and takes
`memory-controller` for `memory` and `reg-names` for `reg` when they come first; `MemoryFound` and `InitrdIsReported` are therefore about the trees in which
no name that only begins alike comes before the name itself (`NamesAreClear`); the run has the other trees, too.
Of the initrd, `InitrdIsReported` says what a caller may rely on: with a start and an end, success, and their region when the cells have only a high byte
(the code converts one byte of them); with one of the two or neither, ENOTFND and the region of the memory left alone. Of the short form
(`initrd-start`), which returns ESUCC with no region, it says nothing.

The module also has the inductive invariant, `DiscoveryInvariant`, which reads names as `strcmp` does. `Situation` says for every place of the program what is known there:
where a search under way has got to, and that it has passed nothing it looks for (`NodePassed`, `PropPassed`, `IsBest`), or what it has
returned (`NodeFound`, `PropFound`); and what the callers keep (`node`, `s_prop`, `init_reg`, `kern_reg`).

### Exceptions
One instruction of a handler per step: `pc` is a routine and a place in it, `Text` the four handlers of `armv7_ivt_hand.s`
with their operands (offsets from `k_stack` in pages, of addresses in instructions), `ivt` the vector table and `ldr_pc` what the load in a vector reads.
`lr`, `sp` and `spsr` are banked by mode, `masked` is CPSR.I, `r` is r0-r3 (r0 and the other three). `Program` is the
program that is interrupted: an instruction computes, or is a call that has come back (its link register then points behind it), one is `install_ivt`. `Raise`
is the entry of the CPU, for any exception at any instruction of the program; an interrupt also between any two instructions of a
handler that has returned, and not while it is masked. The C functions are one step: `dump_data_abt` does not return, the
others may change r0-r3, `c_irq_hand` is empty. `Lost` is where the code has no more say: past the end of a routine, at the low vectors nobody has set, or
in a mode that does not exist. Nothing sets SPSR_svc: it holds one of `JunkStatuses`. `raised` remembers the last exception for
the properties. The handlers raise no exception of their own: what they touch is mapped.

### AddressSpace, Allocator
What the two promise, without mechanism. `AddressSpace`: software has a view of each page, hardware may
cache a translation, a change obliges its author to a barrier and then a flush, a switch flushes by itself,
and once nothing is owed only the view is cached. `Allocator`: the live blocks lie in the page and do
not overlap, a block is at least as long as was asked (when the request is one that can be rounded up), and a
block disappears only when it is freed. `MmuProperties!Promise` and `HeapProperties!Promise` are the
refinement mappings: `view` is `virt_to_phy`, `cached` the TLB; `live` is the set of allocated chunks.

## 4. Runs

| Run | Instance | Shows |
|---|---|---|
| `mmu_core` | 2 sections of 2 pages, 2 directories, 2 pending words, 1 TLB entry | `NoStaleTranslation`, `Coherence` (the inductive invariant), `ImplementsAddressSpace` |
| `mmu_calls` | 2 sections (1 and 1) of 2 pages, an unaligned address, a refused type, regions, both halves; no TLB; fairness | `MappingIsExact`, `OfflineBuildInvisible`, `SwitchKeepsKernelHalf`, `CallsReturn` |
| `boot_handover` | 8 sections of 4 pages, tables for the kernel half, 2 pending words, 1 TLB entry | `KernelReachable`, `RegionsMapped`, `SectionsCoverKernel`, `OnlyTheWindow`, `HandoverInvariant` (the inductive invariant), `BootCompletes` |
| `heap_core` | a page of 40 bytes, 4-byte headers, 6-bit sizes | `HeapInvariant`, `Tiled`, `Coalesced`, `NothingLeaks`, `SplitSucceeds`, `DumpIsSafe`, `StoresAgree`, `BestFit`, `ImplementsAllocator`, `KmallocReturns` |
| `discovery` | trees of two children of ten kinds, lists of three regions, 4-bit addresses | `DiscoveryInvariant` (the inductive invariant), `WalksStayOnTags`, `MemoryFound`, `AtagMemoryFound`, `InitrdIsReported`, `TabsAreNesting`, `DiscoveryEnds` |
| `exceptions` | all four exceptions, a program with `install_ivt` in it, every saved status | `ExceptionInvariant` (the inductive invariant), `ReportIsRight`, `HandlersFinish` |
| `mmu_page_barrier` | one user page | violates `InvalidatedPageIsGone` |
| `mmu_region_bound` | a region of one page followed by another mapped page | violates `RegionIsBounded` |
| `boot_alignment` | page tables that span two sections and start at an odd one | violates `RegionsMapped` |
| `boot_stale_sections` | the layout of `boot_handover` | violates `NothingStale` |
| `boot_last_section` | an image that ends one section later than its size says | violates `SectionsCoverKernel` |
| `exceptions_return` | prefetch aborts only | violates `ReturnsAfter` |

Deadlock is checked in every passing run but one. `mmu_calls` turns it off: after a data abort the handler
of the code loops, and with a TLB of size 0 and no pending store nothing moves any more.

### What the failing runs show
* **mmu_page_barrier**: `mmu_invalidate_page` invalidates the TLB without a dsb (`mmu.c:163`). The store
  is still pending when the call returns; a walk finds the page, and may cache it for good.
* **mmu_region_bound**: the loop of `mmu_invalidate_region` never increments `i` (`mmu.c:111-120`). Every
  page after the region is unmapped until an address without a page table ends it with an error, and the
  dsb and the invalidation at lines 128-131 are not reached. Without such an address the loop does not end.
* **boot_alignment**: `phy_addr | (i << 12)` (`vexpress_init.c:497`). With the kernel in the first MiB the
  page tables are at 0x60100000 and 2 MiB long: bit 20 of the base is set, and the second MiB of tables is
  never mapped. `init_setup_kern_pgtb` ORs in the same way (line 436), so that the upper
  1024 sections of the kernel half share the tables of the lower 1024.
* **boot_last_section**: `cnt = (k_sz >> 20) + 1` (`vexpress_boot_init.c:138`) counts from `lmi_start`, 0x8000 into
  its section.
* **boot_stale_sections**: the dsb of `vexpress_init.c:207` is before the links of the page tables, and none is between them (line 210) and the
  invalidation of the TLB (line 215). A walk after the invalidation reads the word a pending link replaces, and the TLB keeps the boot's section, or what
  `k_pgd` held before the boot, for a page of the kernel half. For the pages of the kernel this is harmless, as both lead to the same page (`KernelReachable`).
* **exceptions_return**: `bl dump_pref_abt` (`armv7_ivt_hand.s:91`) leaves its own return address in the link register of
  abort mode, and `movs pc, lr` at line 96 goes there: to the pop of the handler, with the mode of the program. It pops four more words, from the program's
  stack, and leaves through lr_svc and SPSR_svc. The interrupt handler does the same and never gets out: `subs pc, lr, #4` leads back to its
  `bl`, so that `HandlersFinish` must except it.

### Where the text says more than the code
The comments and documents below promise what the code does not do. The models have the code; no passing property takes the code's side.

| Text | Code | In the models |
|---|---|---|
| `memlayout.c:38` "the first known physical memory region ... where the kernel resides" | The name searched for is `"memory@0x%x\n"` (line 54, and `vexpress_init.c:297`): the newline matches no name, and the first memory node is taken | `memory_at`; `MemoryFound` says the first memory node only |
| `fdt.c:84`, `:117` the node, the property "with specified name"; `str.c:96-98` 0 if equal; `vexpress_init.c:255` a region of memory | `strcmp` compares prefixes | `strcmp_is_0`; `NamesAreClear` |
| `memlayout.c:98`, `:110-115`, `kernel_init.c:76` the short form of the initrd | ESUCC, and no region; printed as the initrd | `mlay_get_initrd_reg`; nothing said |
| `memlayout.c:93-94` the initrd's start and end | one byte of each cell is converted | `FirstByteOf`; `OnlyHighByte` |
| `vexpress_init.c:147` "the largest continuous region of memory" | `init_get_mem_atag` joins a region only to the best one so far (line 350): of 8-11 and 4-7, in this order, it returns four addresses, not eight. Its own comment promises an attempt | `Joined`; `AtagMemoryFound` says that no single tag has more |
| `armv7_ivt_hand.s:42` "return to before interrupt" | the interrupt handler comes back to its own `bl` for ever | `InIrq` of `ExceptionInvariant` |
| `armv7_ivt_hand.s:78`, `doc/various_work.txt:513` of a data abort "returns after" | `dump_data_abt` loops (`armv7_ivt.c:80`) | `CReturn`; `ExceptionInvariant` |

### Bounds, and why they suffice
Two pages per section distinguish "this page", "another page of the same table" and "another section";
the boot runs, with four sections per half, also distinguish "the boundary" from "the inside". Two words pending at once allow every
reordering of a pair of stores, and no property relates three; a word's own stores stay in order by
construction, so that depth 1 only delays the CPU. One TLB entry per instant suffices because entries do
not interact. `mmu_core` has both halves but takes its requests in the user half, as the run pays for every interleaving;
`mmu_calls` has requests in both halves, a section each, so that a state in which every section has a table is one of its states, and drops the TLB, which no property of it mentions. In `mmu_core` both directories are reachable
(`OneToOne`); `mmu_calls` has one that is not, so that the abort happens.
`boot_handover` has regions of one to four pages that share tables, sizes that are and are not powers of
two, and junk in all memory nobody wrote. A heap of 40 bytes holds up to five chunks, so that a chunk can
be freed between two free ones and between two allocated ones; sizes of 6 bits include one that rounds to 0.
The program of `exceptions` has an instruction before and after `install_ivt`, and two frames on its stack for the pops that are not its own; an exception after the first one
meets every state the first has left, so that more of them add nothing but time.
Two children of a root, each one of ten, put every kind of node before and after every other; a search depends on nothing else, as it
stops at the first match. The lengths of names and properties cover the residues modulo 4. Three regions are what it takes to
join two that are not the best.

### Fairness
`FairSpec` of `Armv7Mmu`: the CPU continues the call it is in (one CPU, no preemption) and every pending
store drains (the architecture bounds neither, but the dsb of the code relies on it). No fairness on new
calls, walks or evictions. `FairBootSpec`: the same for the boot program. `FairSpec` of `Heap`: a call that has
begun continues, as the program is sequential; `FairSpec` of `Discovery` and `FairStoreSpec` likewise. `FairSpec` of `Exceptions`: the
CPU executes instructions; no exception need come, and none is excluded.

### Mutants
Each property of a passing run names a mutated definition (`..._NoUpdate`, `..._Floor`, ...) kept beside the
original: with the original's body replaced by it, TLC finds the property violated. They are plausible slips:
a forgotten barrier, a strict comparison, an index that is not made relative, a lost back link.

## 5. Proofs

All theorems hold for every value of the constants under the assumptions the modules state:
`GeometryAssumption` (the split lies inside the address space, page tables are numbered), `SystemAssumption`
(the boot directory is 1:1; requests name memory that exists), `HeapAssumption` (a header fits in the page, requests are unsigned ints),
`ExceptionAssumption` (there is a program, and its stack has a frame), `LayoutAssumption` (the order of the symbols of `kernel.ld`),
`ByteAssumption` (a byte has at least two values), `DiscoveryAssumption` (the types of the symbols and of what memory held before),
`BootDataAssumption` (boot data are well formed, as above), `OrAssumption` (of `|`, as above).
TLC evaluates them on every run. What the theorems about the boot ask of the layout beyond that is in their statements.

| Theorem | Module | Statement |
|---|---|---|
| `TypeCorrect` | MmuProofs | `Spec => []TypeOK` |
| `CoherenceHolds` | MmuCoherence | `Spec => []Coherence` |
| `NeverStale` | MmuCoherence | `Spec => []NoStaleTranslation` |
| `MappingAlwaysExact` | MmuCoherence | `Spec => MappingIsExact` |
| `OfflineBuildIsInvisible` | MmuCoherence | `Spec => OfflineBuildInvisible` |
| `KernelHalfKept` | MmuCoherence | `Spec => SwitchKeepsKernelHalf` |
| `Refinement` | MmuRefinement | `Spec => ImplementsAddressSpace` |
| `HeapSound` | HeapProofs | `Spec => []HeapInvariant` |
| `NeverExits` | HeapProofs | `Spec => []SplitSucceeds` |
| `NoLeak` | HeapProofs | `Spec => []NothingLeaks` |
| `AlwaysTiled`, `AlwaysCoalesced` | HeapProofs | `Spec => []Tiled`, `Spec => []Coalesced` |
| `HeapIsAllocator` | HeapRefinement | `Spec => ImplementsAllocator` |
| `AlwaysBestFit` | HeapRefinement | `Spec => BestFit` |
| `StoresAlwaysAgree` | HeapRefinement | `StoreSpec => []StoresAgree` |
| `DumpAlwaysSafe` | HeapRefinement | `StoreSpec => []DumpIsSafe` |
| `ExceptionInvariantHolds` | ExceptionProofs | `Spec => []ExceptionInvariant` |
| `ReportIsAlwaysRight` | ExceptionProofs | `Spec => []ReportIsRight` |
| `BootInvariantHolds` | KernelProofs | `LayoutFits => (BootSpec => []BootInvariant)` |
| `HandoverHolds` | KernelProofs | `HandoverLayout => (BootSpec => []HandoverInvariant)` |
| `KernelAlwaysReachable` | KernelProofs | `HandoverLayout => (BootSpec => []KernelReachable)` |
| `SectionsAlwaysCover` | KernelProofs | `LayoutFits /\ SectionsSuffice => (BootSpec => []SectionsCoverKernel)` |
| `RegionsAlwaysMapped` | KernelProofs | `LayoutFits /\ EntriesRight(MappedPages) => (BootSpec => []RegionsMapped)` |
| `NothingButTheWindow` | KernelProofs | `LayoutFits /\ EntriesInPlace /\ LinksRight(...) => (BootSpec => []OnlyTheWindow)` |
| `AlignedBoot` | KernelProofs | `LayoutFits /\ SectionsSuffice /\ AlignedLayout =>` `HandoverInvariant`, `KernelReachable`, `RegionsMapped`, `OnlyTheWindow` |
| `SearchesKeepTheirPlace` | DiscoveryProofs | `Spec => []DiscoveryInvariant` |
| `WalksAlwaysOnTags` | DiscoveryProofs | `Spec => []WalksStayOnTags` |
| `MemoryAlwaysFound` | DiscoveryProofs | `Spec => []MemoryFound` |
| `AtagMemoryAlwaysFound` | DiscoveryProofs | `Spec => []AtagMemoryFound` |
| `TabsAlwaysNesting` | DiscoveryProofs | `Spec => []TabsAreNesting` |
| `InitrdAlwaysReported` | DiscoveryProofs | `Spec => []InitrdIsReported` |

**MMU.** `NoStaleTranslation` is not inductive: a walk may complete after it held, and a pending store may
drain. `Coherence` adds `ActiveTablesDrained` (no pending store to the words in use unless a barrier is
owed), `WalkIsCurrent` (a walk in flight carries the current directory word once nothing is owed) and
`QuietWhenOff`. The argument, per action: a store in the tables in use makes a barrier owed, which
makes the other parts vacuous; `Dsb` restores `ActiveTablesDrained` for all words; `InvalidateTlb`
empties both TLB and walk, so that the rest holds again whatever the tables are; a drain in a settled state goes to a word
not in use, and neither `virt_to_phy` nor the walker sees it; a fill in a settled state is what the tables
say, and by `ActiveTablesDrained` that is `virt_to_phy`. `MappingIsExact` needs no invariant beyond the types: `Load` sees the last store
to a word wherever it is, so that the store of `create_pgtb_entry` changes one word of what `virt_to_phy` reads (`MappedWord`). `OfflineBuildIsInvisible` and `KernelHalfKept` follow from how `virt_to_phy` selects its words, and
`Refinement` maps each action to one of `AddressSpace` or a stutter, using `Coherence` for `Cache`.

**Heap.** `HeapInvariant` is inductive: `Tiled` (extent, forward and backward links) describes the list exactly,
`Coalesced` is what a correct merge keeps, and `SearchKnows` relates the search's position and best chunk
to the chunks it has passed; `SplitSucceeds` follows because the search and `break_chunk` use the same
test. The lemmas about `break_chunk` and `EatNext` say how each part of `Tiled` changes; `kfree` is
`EatNext` applied at most twice. `NoLeak` follows from `Tiled` and `Coalesced`: a first chunk that is free has no free
neighbour, so it has none.

`HeapIsAllocator` maps the start of a call to `Ask`, `Place` to `Grant` or `Refuse`, `kfree` to `Release`, and the search to a stutter. It
needs `Asked` (a call under way remembers its argument, and looks for its rounding) next to `HeapInvariant`; that
blocks are apart is `Extent`, and that a merge keeps the other blocks is part of the lemmas about `kfree`. `AlwaysBestFit` reads off
`SearchKnows` what the chunk found is.

**The stores of the heap.** `DumpIsSafe` and `StoresAgree` are about memory in the middle of a statement list, of which `HeapInvariant` says
nothing. `Settling` does: the stores still to be made turn `mem` into what the heap is (`Turns`), through memories each of which is `Walkable`,
which is that some set of headers (a `Trail`) has the head in it, is complete, in order, and leads nowhere else. So
`Settling` is kept by a store because it is about all the memories ahead, and is established once per call, by one lemma per list of statements: `EatTurns`
(a merge: the link, the link back, then the size), `BreakTurns` (the new header is written out before a link leads to it), `StatusTurns`, and
`RightTurns`, `LeftTurns`, `MergedTurns` for the order in which `kfree` merges, reading back its own stores. `ReachedTrail` then shows that the recursive walk of `dump_entries`
stays on a trail. The lemma `StoresFollowHeap` (the module conjoins the actions of `Heap`, so that it is no claim about the stores) lets `HeapInvariant` be used here.

**Exceptions.** `ReportIsRight` is not inductive: it needs to know what the instructions before have done. `ExceptionInvariant` says it per place: while a
handler is open (`Open`) it runs in the mode of its exception with interrupts masked, the link register is the one of the entry until the `bl`
(`Prologue`), r0 is computed from it (`Report`), the frame holds r0-r3 from the push to the pop (`Pushed`), and the link after the call leads
behind the call (`Epilogue`). Once it has returned (`Closed`), the CPU is in the program or `Late`: behind the call of a
handler, so that no address is reported again. That every link register is late or overwritten on entry makes it stay so. `IrqHandler` and
its sisters say which place has which instruction; the lemmas `...Keeps` take one instruction each, and `VectorsAgree` is the vector table.

**Boot.** `KernelReachable` is not inductive: what a walk in flight will cache, and what the store buffer will drain, is not in it.
`HandoverInvariant` says it word by word. `DirectoryInvariant`: in memory and in the buffer a word of the directory is its boot section or its link,
and the link from the moment `init_setup_kern_pgtb` has stored it. `TablesInvariant`: a word of the tables is cleared by the round of the memset that reaches it
(`ClearedWord`: the rounds and the words correspond), then holds the last entry stored there, and has nothing pending from the `dsb` on, which
is why a link that drains early or late leads to a finished table. `WalkerInvariant`: of a page of the kernel the TLB holds that page, and a walk
in flight a stored link. One lemma per action shows `BootInvariant`, with `QuietStep` for the steps that store nothing and `TabStore` for
those that store to a table; `WalkLeads` is what it gives a walk. `WindowInvariant` is the like of
`WalkerInvariant` for every page of the kernel half, where a walk in flight may also hold what `k_pgd` was left with. `AlignedBoot` adds the arithmetic of `vexpress_init`: `ImageMapped` (the loop of `init_kern_pg_dir`
reaches every page of the image), `AlignedEntry` and `AlignedEntries` (round i of a region stores the entry of page i in the word a walk of that page reads),
`PgCntCovers` (`clr_lv_msb` and the shift round up, never down).

**Memory discovery.** The theorems hold for every well-formed tree and list, of any length. The argument has four layers.
*Layout*: `SumsFacts` and `WordsOf` relate the words of the format to bytes, and `NextTag` is the result: from the start of one tag the arithmetic of
`fdt_get_next_tag` leads to the start of the next. *Tree*: `fdt_get_property` stops at the first tag that is neither a property nor a NOP, while a property belongs to a node by
nesting; `ContentIsOwn` and `OwnIsContent` show that these are the same, which is where "properties before children" is used. *Rounds*: `NodeRound`, `PropRound`, `DumpRound`
and `TagSearchGoes` take one round of each loop, and show that what a search has passed still holds nothing it looks for, so that what it returns is the first. For the list,
`JoinBest`, `FirstBest` and `BestPasses` show what `init_get_mem_atag` keeps: a region that is memory of the tags behind it, although a sum of sizes could wrap.
*Callers*: one lemma per caller (`InitGetMemFdtStep`, `MlayGetInitrdRegStep`, ...) says what each does with an answer; `PlaceOf` keeps the places apart. Two facts
about conversions are needed on the way: `CellConverted` (`be32_to_cpu` of a loaded cell is the cell, for any number of values of a byte; `HighByteKept` for the one byte of the initrd) and `ExactFindsNone` (the name
with a newline, whatever digits `itox` makes, is the name of no node, so that the second search always runs). `ClearNames` and `ClearMemory` lead from what
the searches find by prefix, which is what the invariant has, to the names themselves, where those come first.

**Induction over data.** The library's induction rules take an operator and no installed prover can instantiate them. A recursive function can still be reasoned about:
`SmallestCase` (every set of naturals has a least element) turns a claim about all numbers into one about the least counterexample, `TopBitsExist` and
`TopBitsUnique` show that the equations of `TopBit` have one solution, so that the `CHOOSE` its definition stands for has it (`TopBitIs`), and `TopBitBounds` bounds it. `SmallestOf`,
`SumsExist` and `SumsAre` do the same for the sums of a sequence.

**Only model-checked**: the liveness properties `CallsReturn`, `KmallocReturns`,
`BootCompletes`, `DiscoveryEnds` and `HandlersFinish`, which need fairness and `ENABLED` and stay with TLC. The properties of the
runs that expect a violation are false, so there is nothing to prove of them.

## 6. Not modelled

Code without callers: `fdt_get_next_property` and `fdt_get_cell_size` (the
latter returns 0 for a node that has its own `#size-cells`), `get_tag_count`, `is_within_region` and `is_overlapping` of `mm.h`, `pmm.h`, `atoi` and
`itoa`, the 16 and 64 bit conversions of `bits.h`. Malformed blobs. Printing and
string formatting, except for the one name that is searched for. Permissions and domains are carried in words and translations but no access
is checked against them (the boot's domain 0 is a manager domain). Caches, other cores, ASIDs and global
entries: the code does not use them. `mmu_interface_enable` stores a structure nothing reads.

Of exceptions: the stacks of the handlers end 0x2000 and 0x3000 bytes above `k_stack`, where `kernel.ld` puts `hm_init` and the kernel, as it
reserves 0x1000 bytes below `k_stack` only; the model has that memory as stack. r12, which a C function may change, is not saved by any handler and not
modelled. Whether interrupts are masked at reset is up to the boot loader, and both are initial states.

Other observations outside the models: `hmi_bss_sz` (`kernel_init.c:39`) is the start minus the end, and 0 only because `kernel.ld:50` has
already placed the bss of `vexpress_init.o` in `lm_init`; `alloc_test` reads its table of pointers before anything has been written to it
(`test.c:121`); `vexpress_boot.s:31` says of its `hang` "we won't" reach it, and `kernel_init` returns to it. Empty files and
the ARMv6 port are listed as components only.
