------------------------------ MODULE Discovery ------------------------------
(* How the kernel finds its memory and the initrd: the walks of fdt.c and      *)
(* atag.h, one step per tag, and their callers vexpress_init (its first half,     *)
(* vexpress_init.c:142-173) and kernel_init.  The program is sequential;       *)
(* `walk' is the library call in progress and `at' the caller that waits.      *)
(* The page tables vexpress_init builds in between are in KernelTables; its    *)
(* look at the node `chosen' (227-246) only prints.                            *)
EXTENDS BootData

CONSTANTS
    NULL,
    Provided,           \* the boot data to start from
    kv_start, kp_start, \* the virtual and physical start of the kernel
    KernelBytes,        \* kern_reg.size + kinit_reg.size + mmu_pgtb_reg.size
    JunkReg,            \* what kernel_init's mem_reg holds before it is set
    itox(_),            \* the digits of an address, a lexeme
    JunkTabs            \* lengths strlen(tabs) may have before the bss is cleared

ASSUME DiscoveryAssumption ==
    /\ NULL \notin Nat
    /\ kv_start \in Cells /\ kp_start \in Cells /\ JunkTabs \subseteq Nat
    /\ JunkReg \in [base : Cells, size : Cells]
    /\ \A addr \in Cells : itox(addr) \in STRING

\* What boot loaders provide, with the cells the callers read in the properties they search.
ASSUME BootDataAssumption ==
    \A d \in Provided :
        /\ IsBootData(d)
        /\ d.kind = "fdt" =>
              /\ \A i \in NodesNamed(d.tags, <<"memory">>) :
                    \A k \in PropsNamed(d.tags, i, <<"reg">>) : Len(d.tags[k].cells) >= 2
              /\ \A i \in NodesNamed(d.tags, <<"chosen">>) :
                    \A k \in PropsNamed(d.tags, i, <<"linux,", "initrd-start">>)
                             \union PropsNamed(d.tags, i, <<"linux,", "initrd-end">>) :
                        Len(d.tags[k].cells) >= 1

VARIABLES
    data,       \* what atag_fdt_base points to
    at,         \* the caller
    walk,       \* the call into fdt.c or atag.h: operation, argument, tag, or its result
    depth,      \* strlen(tabs)
    node, s_prop, fnd,  \* local variables of the callers
    init_reg, initrd_reg,   \* vexpress_init's mem_reg and initrd_reg
    kern_reg,   \* kernel_init's mem_reg
    mem_err, initrd_err     \* what kernel_init's two calls returned

results == <<init_reg, initrd_reg, kern_reg, mem_err, initrd_err>>
vars  == <<data, at, walk, depth, node, s_prop, fnd, results>>

-----------------------------------------------------------------------------
(* The library.                                                                *)

is_using_fdt  == data.kind = "fdt"
is_using_atag == data.kind = "atag"

\* The first byte of 1 in memory.
is_little_endian == Byte(1, 0) = 1

endswap32(x) == Word(<<Byte(x, 3), Byte(x, 2), Byte(x, 1), Byte(x, 0)>>)

be32_to_cpu(x) == IF is_little_endian THEN endswap32(x) ELSE x

\* strcmp(name, string) = 0: the loop runs over the characters of name only.
strcmp_is_0(name, string) == IsPrefix(name, string)

TagAt(cur) == data.tags[CHOOSE k \in DOMAIN data.tags : data.start[k] = cur]
OnTag(cur) == is_using_fdt /\ \E k \in DOMAIN data.tags : data.start[k] = cur

ALIGN_UP(addr, align) == ((addr + (align - 1)) \div align) * align

\* A mutant: the NUL that ends the name of a node is not counted.
fdt_get_tag_size_NoNul(t) ==
    CASE t.tag = "FDT_BEGIN_NODE" -> 4 + StrLen(t.name)
      [] t.tag = "FDT_PROP"       -> 12 + t.len
      [] OTHER                    -> 4

\* A mutant: tags without contents have no size.
fdt_get_tag_size_Zero(t) ==
    CASE t.tag = "FDT_BEGIN_NODE" -> 4 + (StrLen(t.name) + 1)
      [] t.tag = "FDT_PROP"       -> 12 + t.len
      [] OTHER                    -> 0

fdt_get_tag_size(t) ==
    CASE t.tag = "FDT_BEGIN_NODE" -> 4 + (StrLen(t.name) + 1)
      [] t.tag = "FDT_PROP"       -> 12 + t.len
      [] OTHER                    -> 4

fdt_get_next_tag(cur) ==
    IF TagAt(cur).tag = "FDT_END" THEN NULL
    ELSE ALIGN_UP(cur + fdt_get_tag_size(TagAt(cur)), 4)

fdt_get_root_node == IF is_using_fdt THEN 0 ELSE NULL

Idle             == [op |-> "idle", arg |-> NULL, cur |-> NULL]
Return(result)   == walk' = [op |-> "returned", arg |-> NULL, cur |-> result]
Returned         == walk.op = "returned"
Advance(cur)     == walk' = [walk EXCEPT !.cur = cur]

\* The calls.
dump_fdt             == [op |-> "dump_fdt", arg |-> NULL, cur |-> fdt_get_root_node]
fdt_get_node(name)   == [op |-> "fdt_get_node", arg |-> name, cur |-> fdt_get_root_node]
fdt_get_property(n, name) ==
    [op |-> "fdt_get_property", arg |-> name, cur |-> fdt_get_next_tag(n)]

\* sch is a place in the list, counted from 1.
next_tag(sch)          == sch + 1
tag_exists(tag)        == [op |-> "find_tag", arg |-> tag, cur |-> 1]
get_next_tag(sch, tag) == [op |-> "find_tag", arg |-> tag, cur |-> next_tag(sch)]
get_tag(tag)           == get_next_tag(1, tag)

-----------------------------------------------------------------------------
(* The loops of the library, a tag at a time.                                  *)

callerVars == <<data, at, node, s_prop, fnd, results>>

DumpTag ==
    /\ walk.op = "dump_fdt" /\ walk.cur # NULL
    /\ depth' = CASE TagAt(walk.cur).tag = "FDT_BEGIN_NODE" -> depth + 1
                  [] TagAt(walk.cur).tag = "FDT_END_NODE"   -> depth - 1
                  [] OTHER                                  -> depth
    /\ Advance(fdt_get_next_tag(walk.cur))
    /\ UNCHANGED callerVars

DumpEnd ==
    /\ walk.op = "dump_fdt" /\ walk.cur = NULL
    /\ Return(NULL)
    /\ UNCHANGED <<callerVars, depth>>

IsNodeNamed(name, t) ==
    /\ t.tag = "FDT_BEGIN_NODE"
    /\ strcmp_is_0(name, t.name) \/ (strcmp_is_0(name, <<"/">>) /\ StrLen(t.name) = 0)

\* fdt_get_next_node stops before FDT_END, fdt_get_next_tag at it.
NextTagOfNodes(cur) ==
    LET next == fdt_get_next_tag(cur)
    IN  IF next # NULL /\ OnTag(next) /\ TagAt(next).tag = "FDT_END" THEN NULL ELSE next

NodeTag ==
    /\ walk.op = "fdt_get_node"
    /\ IF walk.cur = NULL \/ IsNodeNamed(walk.arg, TagAt(walk.cur))
       THEN Return(walk.cur)
       ELSE Advance(NextTagOfNodes(walk.cur))
    /\ UNCHANGED <<callerVars, depth>>

\* A mutant: the search runs on into the first child.
EndsProperties_Children(t) == t.tag = "FDT_END_NODE"

EndsProperties(t) == t.tag \in {"FDT_END_NODE", "FDT_BEGIN_NODE"}

PropertyTag ==
    /\ walk.op = "fdt_get_property"
    /\ IF walk.cur = NULL \/ EndsProperties(TagAt(walk.cur)) THEN Return(NULL)
       ELSE IF TagAt(walk.cur).tag = "FDT_PROP" /\ strcmp_is_0(walk.arg, TagAt(walk.cur).name)
       THEN Return(walk.cur)
       ELSE Advance(fdt_get_next_tag(walk.cur))
    /\ UNCHANGED <<callerVars, depth>>

FindTag ==
    /\ walk.op = "find_tag"
    /\ IF ~is_using_atag \/ walk.cur > Len(data.tags) THEN Return(NULL)
       ELSE IF data.tags[walk.cur].tag = walk.arg THEN Return(walk.cur)
       ELSE Advance(next_tag(walk.cur))
    /\ UNCHANGED <<callerVars, depth>>

Library == DumpTag \/ DumpEnd \/ NodeTag \/ PropertyTag \/ FindTag

-----------------------------------------------------------------------------
(* The callers: `Result' is what the call returned, `Call' makes the next one  *)
(* and `place' is where its result is wanted.                                  *)

Result            == walk.cur
At(place)         == at = place /\ Returned
Call(call, place) == walk' = call /\ at' = place /\ UNCHANGED <<data, depth>>
Enter(fn)         == Call(Idle, <<fn, "entry">>)

\* A region from the first two cells of a property.
RegionOf(prop) ==
    LET cells == TagAt(prop).cells
    IN  Region(be32_to_cpu(Load(cells[1])), be32_to_cpu(Load(cells[2])))

\* sprintf(buf, "memory@0x%x\n", start), with the newline.  (sprintf writes no NUL:
\* in mlay_get_phy_mem_reg's uninitialized buffer anything may follow the newline,
\* which no name in a device tree has.)
memory_at(start) == <<"memory", "@0x", itox(start), "\n">>

\* What init_get_mem_fdt and mlay_get_phy_mem_reg have in common: the search for
\* a node, exact or by its first letters, then for its property.
MemNode(fn) ==
    \/ /\ At(<<fn, "exact">>) /\ Result = NULL
       /\ Call(fdt_get_node(<<"memory">>), <<fn, "memory">>)
       /\ UNCHANGED <<node, s_prop, fnd, results>>
    \/ /\ At(<<fn, "exact">>) \/ At(<<fn, "memory">>)
       /\ Result # NULL
       /\ node' = Result
       /\ Call(fdt_get_property(Result, <<"reg">>), <<fn, "reg">>)
       /\ UNCHANGED <<s_prop, fnd, results>>

NoMem(fn)  == (At(<<fn, "memory">>) \/ At(<<fn, "reg">>)) /\ Result = NULL
MemReg(fn) == At(<<fn, "reg">>) /\ Result # NULL

VexpressInit ==
    /\ at = <<"vexpress_init", "entry">>
    /\ Call(dump_fdt, <<"init_get_mem", "dumped">>)
    /\ UNCHANGED <<node, s_prop, fnd, results>>

init_get_mem ==
    /\ At(<<"init_get_mem", "dumped">>)
    /\ \/ is_using_fdt  /\ Call(fdt_get_node(memory_at(kv_start)), <<"init_get_mem_fdt", "exact">>)
       \/ is_using_atag /\ Call(get_tag("ATAG_MEM"), <<"init_get_mem_atag", "first">>)
       \/ ~is_using_fdt /\ ~is_using_atag /\ Enter("kinit_panic")
    /\ UNCHANGED <<node, s_prop, fnd, results>>

init_get_mem_fdt ==
    \/ MemNode("init_get_mem_fdt")
    \/ /\ MemReg("init_get_mem_fdt")
       /\ init_reg' = RegionOf(Result)
       /\ Enter("memory found")
       /\ UNCHANGED <<node, s_prop, fnd, initrd_reg, kern_reg, mem_err, initrd_err>>
    \/ /\ NoMem("init_get_mem_fdt")
       /\ Enter("kinit_panic")
       /\ UNCHANGED <<node, s_prop, fnd, results>>

AtagRegion(sch) == Region(data.tags[sch].start, data.tags[sch].sz)

\* A mutant: a region that is joined moves the base.
Joined_NextBase(r, next) ==
    IF Wrap(r.base + r.size) = next.base THEN Region(next.base, Wrap(r.size + next.size))
    ELSE IF r.size < next.size THEN next ELSE r

\* The best region after the next one of the list.
Joined(r, next) ==
    IF Wrap(r.base + r.size) = next.base THEN Region(r.base, Wrap(r.size + next.size))
    ELSE IF r.size < next.size THEN next ELSE r

init_get_mem_atag ==
    \/ /\ At(<<"init_get_mem_atag", "first">>) \/ At(<<"init_get_mem_atag", "next">>)
       /\ Result # NULL
       /\ fnd' = IF at[2] = "first" THEN AtagRegion(Result) ELSE Joined(fnd, AtagRegion(Result))
       /\ Call(get_next_tag(Result, "ATAG_MEM"), <<"init_get_mem_atag", "next">>)
       /\ UNCHANGED <<node, s_prop, results>>
    \/ /\ At(<<"init_get_mem_atag", "next">>) /\ Result = NULL
       /\ init_reg' = fnd
       /\ Enter("memory found")
       /\ UNCHANGED <<node, s_prop, fnd, initrd_reg, kern_reg, mem_err, initrd_err>>
    \/ /\ At(<<"init_get_mem_atag", "first">>) /\ Result = NULL
       /\ Enter("kinit_panic")
       /\ UNCHANGED <<node, s_prop, fnd, results>>

CheckMemory ==
    /\ at = <<"memory found", "entry">>
    /\ IF init_reg.size <= KernelBytes THEN Enter("kinit_panic")
       ELSE Call(tag_exists("ATAG_INITRD2"), <<"vexpress_init", "initrd">>)
    /\ UNCHANGED <<node, s_prop, fnd, results>>

GetInitrd ==
    \/ /\ At(<<"vexpress_init", "initrd">>)
       /\ IF Result = NULL THEN Enter("kernel_init")
          ELSE Call(get_tag("ATAG_INITRD2"), <<"init_get_initrd_atag", "tag">>)
       /\ UNCHANGED <<node, s_prop, fnd, results>>
    \/ /\ At(<<"init_get_initrd_atag", "tag">>)
       /\ initrd_reg' = IF Result = NULL THEN initrd_reg ELSE AtagRegion(Result)
       /\ Enter("kernel_init")
       /\ UNCHANGED <<node, s_prop, fnd, init_reg, kern_reg, mem_err, initrd_err>>

\* A mutant: the bss is not cleared.
ClearedTabs_Kept == depth

\* strlen(tabs) after the memset of the kernel's bss.
ClearedTabs == 0

KernelInit ==
    \/ /\ at = <<"kernel_init", "entry">>
       /\ depth' = ClearedTabs
       /\ walk' = dump_fdt /\ at' = <<"kernel_init", "dumped">>
       /\ UNCHANGED <<data, node, s_prop, fnd, results>>
    \/ /\ At(<<"kernel_init", "dumped">>)
       /\ Call(fdt_get_node(memory_at(kp_start)), <<"mlay_get_phy_mem_reg", "exact">>)
       /\ UNCHANGED <<node, s_prop, fnd, results>>

mlay_get_phy_mem_reg ==
    LET return == Call(fdt_get_node(<<"chosen">>), <<"mlay_get_initrd_reg", "chosen">>)
    IN  \/ MemNode("mlay_get_phy_mem_reg")
        \/ /\ MemReg("mlay_get_phy_mem_reg")
           /\ kern_reg' = RegionOf(Result) /\ mem_err' = "ESUCC"
           /\ return
           /\ UNCHANGED <<node, s_prop, fnd, init_reg, initrd_reg, initrd_err>>
        \/ /\ NoMem("mlay_get_phy_mem_reg")
           /\ mem_err' = "ENOTFND"
           /\ return
           /\ UNCHANGED <<node, s_prop, fnd, init_reg, initrd_reg, kern_reg, initrd_err>>

\* be32_to_cpu(*prop->data): data is a char, so that only the first byte is loaded.
FirstByteOf(prop) == be32_to_cpu(Byte(Load(TagAt(prop).cells[1]), 0))

\* A mutant: the errno stays what it was initialized to.
InitrdFailed_NoErrno(place) ==
    /\ At(<<"mlay_get_initrd_reg", place>>) /\ Result = NULL
    /\ initrd_err' = "ESUCC"
    /\ Enter("halt")
    /\ UNCHANGED <<node, s_prop, fnd, init_reg, initrd_reg, kern_reg, mem_err>>

InitrdFailed(place) ==
    /\ At(<<"mlay_get_initrd_reg", place>>) /\ Result = NULL
    /\ initrd_err' = "ENOTFND"
    /\ Enter("halt")
    /\ UNCHANGED <<node, s_prop, fnd, init_reg, initrd_reg, kern_reg, mem_err>>

\* Its output is the mem_reg that holds the memory region.
mlay_get_initrd_reg ==
    \/ InitrdFailed("chosen") \/ InitrdFailed("linux,initrd-end") \/ InitrdFailed("initrd-start")
    \/ /\ At(<<"mlay_get_initrd_reg", "chosen">>) /\ Result # NULL
       /\ node' = Result
       /\ Call(fdt_get_property(Result, <<"linux,", "initrd-start">>),
               <<"mlay_get_initrd_reg", "linux,initrd-start">>)
       /\ UNCHANGED <<s_prop, fnd, results>>
    \/ /\ At(<<"mlay_get_initrd_reg", "linux,initrd-start">>)
       /\ s_prop' = Result
       /\ LET next == IF Result # NULL THEN <<"linux,", "initrd-end">> ELSE <<"initrd-start">>
              place == IF Result # NULL THEN "linux,initrd-end" ELSE "initrd-start"
          IN  Call(fdt_get_property(node, next), <<"mlay_get_initrd_reg", place>>)
       /\ UNCHANGED <<node, fnd, results>>
    \/ /\ At(<<"mlay_get_initrd_reg", "linux,initrd-end">>) /\ Result # NULL
       /\ kern_reg' = Region(FirstByteOf(s_prop), Wrap(FirstByteOf(Result) - FirstByteOf(s_prop)))
       /\ initrd_err' = "ESUCC"
       /\ Enter("halt")
       /\ UNCHANGED <<node, s_prop, fnd, init_reg, initrd_reg, mem_err>>
    \/ /\ At(<<"mlay_get_initrd_reg", "initrd-start">>) /\ Result # NULL
       /\ initrd_err' = "ESUCC"
       /\ Enter("halt")
       /\ UNCHANGED <<node, s_prop, fnd, init_reg, initrd_reg, kern_reg, mem_err>>

\* while (1) of the panic, and the end of kernel_init.
Halted == at[1] \in {"kinit_panic", "halt"} /\ UNCHANGED vars

-----------------------------------------------------------------------------

\* vexpress_boot_init.c:72 calls kernel_init, the line commented out before it
\* vexpress_init.
Init ==
    /\ data \in Provided
    /\ at \in {<<"vexpress_init", "entry">>, <<"kernel_init", "entry">>}
    /\ walk = Idle /\ depth \in JunkTabs
    /\ node = NULL /\ s_prop = NULL /\ fnd = Region(0, 0)
    /\ init_reg = Region(0, 0) /\ initrd_reg = Region(0, 0) /\ kern_reg = JunkReg
    /\ mem_err = NULL /\ initrd_err = NULL

Callers ==
    \/ VexpressInit \/ init_get_mem \/ init_get_mem_fdt \/ init_get_mem_atag \/ CheckMemory
    \/ GetInitrd \/ KernelInit \/ mlay_get_phy_mem_reg \/ mlay_get_initrd_reg

Next == Library \/ Callers \/ Halted

Spec == Init /\ [][Next]_vars

\* One CPU runs the program to its end.
FairSpec == Spec /\ WF_vars(Library \/ Callers)
=============================================================================
