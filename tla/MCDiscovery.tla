----------------------------- MODULE MCDiscovery -----------------------------
(* Addresses of four bits.  Device trees with up to two children of the root,  *)
(* and lists of up to three regions of memory.                                 *)
EXTENDS DiscoveryProperties

MCBytes(lexeme) == Len(lexeme)
MCitox(addr)    == <<"0", "1", "2", "3", "4", "5", "6", "7",
                     "8", "9", "A", "B", "C", "D", "E", "F">>[addr + 1]
MCJunkReg       == Region(5, 5)

memory(addr) == BeginNode(<<"memory", "@0x", MCitox(addr)>>)
reg(b, s)    == Prop(<<"reg">>, 8, <<b, s>>)
initrd(a, b) == <<Prop(<<"linux,", "initrd-start">>, 4, <<a>>), Prop(<<"linux,", "initrd-end">>, 4, <<b>>)>>
bootargs     == Prop(<<"bootargs">>, 7, <<>>)
chosen(ps)   == <<BeginNode(<<"chosen">>)>> \o ps \o <<EndNode>>
cpu          == <<BeginNode(<<"cpu">>), reg(0, 1), EndNode>>

\* Children of a root node.
Children ==
    {<<memory(6), reg(6, 4), EndNode>>,
     <<memory(12), Prop(<<"device_type">>, 7, <<>>), Nop, reg(12, 2), EndNode>>,
     <<BeginNode(<<"memory">>), Nop>> \o cpu \o <<EndNode>>,
     <<BeginNode(<<"memory", "-controller">>), Prop(<<"reg", "-names">>, 6, <<0, 8>>), reg(1, 1), EndNode>>,
     <<BeginNode(<<"cpus">>)>> \o cpu \o cpu \o <<EndNode, Nop>>,
     chosen(initrd(12, 15)), chosen(initrd(0, 8)), chosen(<<bootargs>>), chosen(<<initrd(4, 9)[1]>>),
     chosen(<<Prop(<<"initrd-start">>, 4, <<8>>)>>)}

Tree(children) ==
    DeviceTree(<<BeginNode(<<>>), Prop(<<"#size-cells">>, 4, <<1>>)>> \o FlattenSeq(children) \o <<EndNode, End>>)

MemTags  == {ATag("ATAG_MEM", b, s) : b \in {0, 4, 6, 8, 12}, s \in {2, 4}}
Overlap(t, u) == Addresses(Region(t.start, t.sz)) \intersect Addresses(Region(u.start, u.sz)) # {}
Disjoint(list) == \A i, j \in DOMAIN list : i # j => ~Overlap(list[i], list[j])
Tails    == {<<ATag("ATAG_INITRD2", 5, 1)>>, <<ATag("ATAG_CMDLINE", 0, 0), ATag("ATAG_INITRD2", 5, 1)>>}

MCProvided ==
    {Tree(c) : c \in SeqOf(Children, 2)}
    \union {AtagList(m) : m \in {m \in SeqOf(MemTags, 3) : Disjoint(m)}}
    \union {AtagList(m \o t) : m \in SeqOf(MemTags, 1), t \in Tails}
    \union {NoBootData}
=============================================================================
