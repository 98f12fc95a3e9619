------------------------- MODULE DiscoveryProperties -------------------------
(* What the searches must find, stated over the tree and the list themselves.  *)
EXTENDS Discovery

CONSTANT UnitMarks  \* the lexemes that begin with "@", and with them a unit address

Regions == [base : Cells, size : Cells]

\* The variables keep their types; a cursor is NULL, or a place the calls compute.
TypeOK ==
    /\ data.kind \in {"fdt", "atag", "none"} /\ depth \in Int
    /\ walk = [op |-> walk.op, arg |-> walk.arg, cur |-> walk.cur]
    /\ walk.op \in {"idle", "returned", "dump_fdt", "fdt_get_node", "fdt_get_property", "find_tag"}
    /\ {walk.cur, node, s_prop} \subseteq Nat \union {NULL}
    /\ {fnd, init_reg, initrd_reg, kern_reg} \subseteq Regions
    /\ {mem_err, initrd_err} \subseteq {NULL, "ESUCC", "ENOTFND"}

\* fdt_get_next_tag: a walk is always at the start of a tag of the structure
\* block, whatever the lengths of the names and properties it passes.  (The
\* variables keep their types, too.)
WalksStayOnTags ==
    /\ TypeOK
    /\ is_using_fdt /\ walk.op # "find_tag" =>
           \A cur \in {walk.cur, node, s_prop} : cur # NULL => OnTag(cur)

\* What the tree itself has: the nodes called `name', with a unit address or
\* without, among those whose names begin so, and the properties called `name'.
FirstOf(S)     == CHOOSE i \in S : \A j \in S : i <= j
Nodes(d, name) == IF d.kind = "fdt" THEN NodesNamed(d.tags, name) ELSE {}
NodesCalled(d, name) ==
    {i \in Nodes(d, name) :
        d.tags[i].name = name \/ d.tags[i].name[Len(name) + 1] \in UnitMarks}
PropsCalled(d, i, name) == {k \in PropsNamed(d.tags, i, name) : d.tags[k].name = name}
TheProps(d, of, name) ==
    IF NodesCalled(d, of) = {} THEN {} ELSE PropsCalled(d, FirstOf(NodesCalled(d, of)), name)

\* No name that only begins like one of these comes before the name itself.
Leads(called, alike) == \A i \in alike : \E j \in called : j <= i
NamesAreClear(d, of, names) ==
    /\ Leads(NodesCalled(d, of), Nodes(d, of))
    /\ \A i \in NodesCalled(d, of), name \in names :
          Leads(PropsCalled(d, i, name), PropsNamed(d.tags, i, name))

HasMemory(d)   == TheProps(d, <<"memory">>, <<"reg">>) # {}
MemoryIs(d, r) ==
    /\ HasMemory(d)
    /\ LET cells == d.tags[FirstOf(TheProps(d, <<"memory">>, <<"reg">>))].cells
       IN  r = Region(cells[1], cells[2])
MemoryReported ==
    IF HasMemory(data) THEN mem_err = "ESUCC" /\ MemoryIs(data, kern_reg)
    ELSE mem_err = "ENOTFND" /\ kern_reg = JunkReg
MemoryIsClear == NamesAreClear(data, <<"memory">>, {<<"reg">>})

\* fdt_get_node, fdt_get_property: the region handed to the caller is the first reg
\* of the first memory node, and a panic or an errno says that there is none.  Of a
\* tree in which memory-controller comes before memory, or reg-names before
\* reg, it says nothing: there strcmp takes the one for the other.
MemoryFound ==
    is_using_fdt /\ MemoryIsClear =>
        /\ at[1] = "memory found" => MemoryIs(data, init_reg)
        /\ at[1] = "kinit_panic" => ~HasMemory(data) \/ MemoryIs(data, init_reg)
        /\ at = <<"mlay_get_initrd_reg", "chosen">> => MemoryReported

\* A cell with its high byte alone: an address be32_to_cpu(*prop->data) keeps.
OnlyHighByte(cell) == \E h \in 0..ByteValues - 1 : cell = Word(<<0, 0, 0, h>>)

\* mlay_get_initrd_reg: with a start and an end in the chosen node it succeeds, and
\* the region, when the cells are such that one byte of them is enough, goes from
\* the one to the other; with a start and no end, or no start in either form, it
\* fails and the region is what mlay_get_phy_mem_reg has left there.  Nothing is said
\* of the short form alone, which succeeds without a region.
InitrdIsReported ==
    /\ is_using_fdt /\ at[1] = "halt" /\ MemoryIsClear
    /\ NamesAreClear(data, <<"chosen">>,
           {<<"linux,", "initrd-start">>, <<"linux,", "initrd-end">>, <<"initrd-start">>})
    =>  LET start   == TheProps(data, <<"chosen">>, <<"linux,", "initrd-start">>)
            end     == TheProps(data, <<"chosen">>, <<"linux,", "initrd-end">>)
            short   == TheProps(data, <<"chosen">>, <<"initrd-start">>)
            cell(S) == data.tags[FirstOf(S)].cells[1]
        IN  /\ start # {} /\ end # {} =>
                  /\ initrd_err = "ESUCC"
                  /\ OnlyHighByte(cell(start)) /\ OnlyHighByte(cell(end)) =>
                        kern_reg = Region(cell(start), Wrap(cell(end) - cell(start)))
            /\ (start # {} /\ end = {}) \/ (start = {} /\ short = {}) =>
                  initrd_err = "ENOTFND" /\ MemoryReported

\* init_get_mem_atag: the region found is memory the list has, all of it, and no
\* single tag has more.
AtagMemoryFound ==
    is_using_atag /\ at[1] = "memory found" =>
        /\ Addresses(init_reg) \subseteq UNION {MemoryAt(data.tags, k) : k \in ListedMemory(data.tags)}
        /\ \A k \in ListedMemory(data.tags) : data.tags[k].sz <= init_reg.size

\* dump_fdt counts the nesting in a buffer in the bss, which the dump before
\* kernel_init uses before anyone clears it: from kernel_init on it is exact.
TabsAreNesting ==
    is_using_fdt /\ at = <<"kernel_init", "dumped">> /\ walk.op = "dump_fdt" =>
        depth = IF walk.cur = NULL THEN 0
                ELSE Nesting(data.tags, CHOOSE k \in DOMAIN data.tags : data.start[k] = walk.cur)

-----------------------------------------------------------------------------
(* What the program knows at each place, which is what makes the properties    *)
(* hold from one step to the next.                                             *)

\* What a search finds, by the beginnings of names.
Props(d, of, name) ==
    IF Nodes(d, of) = {} THEN {} ELSE PropsNamed(d.tags, FirstOf(Nodes(d, of)), name)

ListedRegs(d)     == Props(d, <<"memory">>, <<"reg">>)
IsListedReg(d, r) ==
    /\ ListedRegs(d) # {}
    /\ LET cells == d.tags[FirstOf(ListedRegs(d))].cells IN r = Region(cells[1], cells[2])

\* mlay_get_phy_mem_reg is over.
KernelMemory ==
    IF ListedRegs(data) = {} THEN mem_err = "ENOTFND" /\ kern_reg = JunkReg
    ELSE mem_err = "ESUCC" /\ IsListedReg(data, kern_reg)

\* mlay_get_initrd_reg is over.
ByteOf(d, S) == be32_to_cpu(Byte(Load(d.tags[FirstOf(S)].cells[1]), 0))
InitrdOutcome ==
    is_using_fdt =>
        LET start == Props(data, <<"chosen">>, <<"linux,", "initrd-start">>)
            end   == Props(data, <<"chosen">>, <<"linux,", "initrd-end">>)
            short == Props(data, <<"chosen">>, <<"initrd-start">>)
        IN  /\ initrd_err = IF (start # {} /\ end # {}) \/ (start = {} /\ short # {})
                            THEN "ESUCC" ELSE "ENOTFND"
            /\ IF start = {} \/ end = {} THEN KernelMemory
               ELSE kern_reg = Region(ByteOf(data, start), Wrap(ByteOf(data, end) - ByteOf(data, start)))

Cursor(d, cur) == cur = NULL \/ (d.kind = "fdt" /\ \E k \in DOMAIN d.tags : cur = d.start[k])

\* A search of nodes that has come to cur, and one that has returned it.
NodePassed(d, name, cur) ==
    IF cur = NULL THEN Nodes(d, name) = {}
    ELSE /\ d.kind = "fdt"
         /\ \E k \in DOMAIN d.tags : cur = d.start[k] /\ \A i \in Nodes(d, name) : k <= i
NodeFound(d, name, cur) ==
    IF cur = NULL THEN Nodes(d, name) = {}
    ELSE Nodes(d, name) # {} /\ cur = d.start[FirstOf(Nodes(d, name))]

\* The same for the properties of the first node that is called `of'.
IsContent(t)    == t.tag \in {"FDT_PROP", "FDT_NOP"}
IsProp(t, name) == t.tag = "FDT_PROP" /\ IsPrefix(name, t.name)
PropPassed(d, of, name, cur) ==
    IF cur = NULL THEN Props(d, of, name) = {}
    ELSE \E k \in DOMAIN d.tags :
            /\ cur = d.start[k] /\ FirstOf(Nodes(d, of)) < k
            /\ \A j \in FirstOf(Nodes(d, of)) + 1..k - 1 :
                  IsContent(d.tags[j]) /\ ~IsProp(d.tags[j], name)
PropFound(d, of, name, cur) ==
    IF cur = NULL THEN Props(d, of, name) = {}
    ELSE Props(d, of, name) # {} /\ cur = d.start[FirstOf(Props(d, of, name))]

NodeSearch(place, name) ==
    /\ at = place
    /\ \/ walk.op = "fdt_get_node" /\ walk.arg = name /\ NodePassed(data, name, walk.cur)
       \/ Returned /\ NodeFound(data, name, walk.cur)
PropSearch(place, of, name) ==
    /\ at = place /\ Nodes(data, of) # {} /\ NodeFound(data, of, node) /\ node # NULL
    /\ \/ walk.op = "fdt_get_property" /\ walk.arg = name /\ PropPassed(data, of, name, walk.cur)
       \/ Returned /\ PropFound(data, of, name, walk.cur)

MemSearch(fn, start) ==
    \/ NodeSearch(<<fn, "exact">>, memory_at(start))
    \/ NodeSearch(<<fn, "memory">>, <<"memory">>)
    \/ PropSearch(<<fn, "reg">>, <<"memory">>, <<"reg">>)

Before(d, k) == {j \in ListedMemory(d.tags) : j < k}

\* r is memory of the tags before the k-th, and none of them has more.
IsBest(d, r, k) ==
    /\ Addresses(r) \subseteq UNION {MemoryAt(d.tags, j) : j \in Before(d, k)}
    /\ \A j \in Before(d, k) : d.tags[j].sz <= r.size

\* A search for a tag, and what it has returned.
TagSearch(place, tag) ==
    /\ at = place
    /\ Returned \/ (walk.op = "find_tag" /\ walk.arg = tag /\ walk.cur \in Nat \ {0})
    /\ Returned /\ walk.cur # NULL =>
           is_using_atag /\ walk.cur \in DOMAIN data.tags /\ data.tags[walk.cur].tag = tag

\* Where the search for memory stands in the list.
Place == IF walk.cur = NULL THEN Len(data.tags) + 1 ELSE walk.cur

AtagSearch ==
    /\ is_using_atag
    /\ \/ /\ TagSearch(<<"init_get_mem_atag", "first">>, "ATAG_MEM")
          /\ \A j \in ListedMemory(data.tags) : Place <= j
       \/ /\ TagSearch(<<"init_get_mem_atag", "next">>, "ATAG_MEM")
          /\ IsBest(data, fnd, Place)

\* init_get_mem and init_get_initrd.
BootSearch ==
    \/ at = <<"vexpress_init", "entry">> /\ walk = Idle
    \/ /\ at = <<"init_get_mem", "dumped">>
       /\ (walk.op = "dump_fdt" /\ Cursor(data, walk.cur)) \/ (Returned /\ walk.cur = NULL)
    \/ MemSearch("init_get_mem_fdt", kv_start)
    \/ AtagSearch
    \/ /\ at = <<"memory found", "entry">> /\ walk = Idle
       /\ is_using_fdt  => IsListedReg(data, init_reg)
       /\ is_using_atag => IsBest(data, init_reg, Len(data.tags) + 1)
    \/ TagSearch(<<"vexpress_init", "initrd">>, "ATAG_INITRD2")
    \/ TagSearch(<<"init_get_initrd_atag", "tag">>, "ATAG_INITRD2")
    \/ /\ at = <<"kinit_panic", "entry">> /\ walk = Idle
       /\ is_using_fdt => ListedRegs(data) = {} \/ IsListedReg(data, init_reg)

\* How far a dump has nested.
DumpDepth(d, cur) ==
    IF cur = NULL THEN 0 ELSE Nesting(d.tags, CHOOSE k \in DOMAIN d.tags : d.start[k] = cur)

KernelSearch ==
    \/ at = <<"kernel_init", "entry">> /\ walk = Idle
    \/ /\ at = <<"kernel_init", "dumped">>
       /\ \/ walk.op = "dump_fdt" /\ Cursor(data, walk.cur) /\ depth = DumpDepth(data, walk.cur)
          \/ Returned /\ walk.cur = NULL
    \/ MemSearch("mlay_get_phy_mem_reg", kp_start)

InitrdSearch ==
    \/ NodeSearch(<<"mlay_get_initrd_reg", "chosen">>, <<"chosen">>)
    \/ PropSearch(<<"mlay_get_initrd_reg", "linux,initrd-start">>, <<"chosen">>, <<"linux,", "initrd-start">>)
    \/ /\ PropSearch(<<"mlay_get_initrd_reg", "linux,initrd-end">>, <<"chosen">>, <<"linux,", "initrd-end">>)
       /\ s_prop # NULL /\ PropFound(data, <<"chosen">>, <<"linux,", "initrd-start">>, s_prop)
    \/ /\ PropSearch(<<"mlay_get_initrd_reg", "initrd-start">>, <<"chosen">>, <<"initrd-start">>)
       /\ Props(data, <<"chosen">>, <<"linux,", "initrd-start">>) = {}

\* What is known where.
Situation ==
    \/ kern_reg = JunkReg /\ (BootSearch \/ KernelSearch)
    \/ KernelMemory /\ InitrdSearch
    \/ at = <<"halt", "entry">> /\ walk = Idle /\ InitrdOutcome

\* The inductive invariant: at every place the search under way has passed nothing
\* it looks for, and what the callers keep is what the searches before it have found.
DiscoveryInvariant == TypeOK /\ Cursor(data, node) /\ Cursor(data, s_prop) /\ Situation

-----------------------------------------------------------------------------

\* Every walk ends: the search for the memory reaches a panic or the end of
\* kernel_init.
DiscoveryEnds == <>(at[1] \in {"kinit_panic", "halt"})
=============================================================================
