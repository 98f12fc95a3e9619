------------------------------- MODULE BootData -------------------------------
(* What the boot loader leaves for the kernel: a flattened device tree or a    *)
(* list of ATAGs.  Both are read-only, and laid out by their own standards,    *)
(* not by this kernel: the layout here is the writer's, in words of 4 bytes,   *)
(* for fdt.c's arithmetic in bytes to be compared with.                        *)
(*                                                                             *)
(* A name is a sequence of lexemes, such as <<"memory", "@0x", "6">>, so that  *)
(* a name is a prefix of another when its lexemes are.                         *)
EXTENDS Integers, SequencesExt

CONSTANTS
    Bytes(_),   \* the length of a lexeme
    ByteValues  \* how many values a byte of memory has: 256, or fewer

ASSUME ByteAssumption == ByteValues \in Nat \ {0, 1}

\* An address and a cell have four bytes.
AddrValues == ByteValues * (ByteValues * (ByteValues * ByteValues))
Cells      == 0..AddrValues - 1
Wrap(n)    == n % AddrValues

\* Byte 0 is the low one.
Byte(x, i) ==
    LET one == x \div ByteValues
        two == one \div ByteValues
    IN  <<x, one, two, two \div ByteValues>>[i + 1] % ByteValues
Word(b)    == b[1] + ByteValues * (b[2] + ByteValues * (b[3] + ByteValues * b[4]))

\* A tree is written with the high byte of a cell first, the CPU takes it for the low one.
Load(cell) == Word(<<Byte(cell, 3), Byte(cell, 2), Byte(cell, 1), Byte(cell, 0)>>)

\* The sums of the first k numbers of a sequence, for each k.
Sums(numbers) ==
    LET sum[k \in 0..Len(numbers)] == IF k = 0 THEN 0 ELSE sum[k - 1] + numbers[k]
    IN  sum

StrLen(name) == Sums([i \in DOMAIN name |-> Bytes(name[i])])[Len(name)]

-----------------------------------------------------------------------------
(* The structure block of a device tree, as a sequence of tags.                *)

Tag(tag, name, len, cells) == [tag |-> tag, name |-> name, len |-> len, cells |-> cells]

BeginNode(name)        == Tag("FDT_BEGIN_NODE", name, 0, <<>>)
EndNode                == Tag("FDT_END_NODE", <<>>, 0, <<>>)
Prop(name, len, cells) == Tag("FDT_PROP", name, len, cells)
Nop                    == Tag("FDT_NOP", <<>>, 0, <<>>)
End                    == Tag("FDT_END", <<>>, 0, <<>>)

\* The words a tag takes: its own, a name with its NUL, or a length, the offset
\* of a name and data.
TagWords(t) ==
    CASE t.tag = "FDT_BEGIN_NODE" -> 1 + StrLen(t.name) \div 4 + 1
      [] t.tag = "FDT_PROP"       -> 3 + (t.len + 3) \div 4
      [] OTHER                    -> 1

\* Where each tag of a structure block begins, in bytes.
TagStarts(tags) ==
    LET words == Sums([k \in DOMAIN tags |-> TagWords(tags[k])])
    IN  [k \in DOMAIN tags |-> 4 * words[k - 1]]

\* The nodes a tag opens.
Opens(t) ==
    CASE t.tag = "FDT_BEGIN_NODE" -> 1
      [] t.tag = "FDT_END_NODE"   -> -1
      [] OTHER                    -> 0

\* How many nodes are open before tag k.
Nesting(tags, k) == Sums([j \in DOMAIN tags |-> Opens(tags[j])])[k - 1]

\* Tag k is a property of the node that begins at tag i, and not of one inside it.
IsPropOf(tags, i, k) ==
    /\ i < k /\ tags[k].tag = "FDT_PROP"
    /\ Nesting(tags, k) = Nesting(tags, i) + 1
    /\ \A j \in i + 1..k : Nesting(tags, j) > Nesting(tags, i)

Names == Seq({lexeme \in STRING : lexeme # "\n" /\ Bytes(lexeme) \in Nat})
Tags  == [tag : {"FDT_BEGIN_NODE", "FDT_END_NODE", "FDT_PROP", "FDT_NOP", "FDT_END"},
          name : Names, len : Nat, cells : Seq(Cells)]

\* What a boot loader hands over: nodes are closed again, the properties of a node
\* come before its children, and FDT_END is the last tag.
IsStructure(tags) ==
    /\ tags \in Seq(Tags) /\ tags # <<>>
    /\ \A k \in DOMAIN tags : tags[k].tag = "FDT_END" <=> k = Len(tags)
    /\ Nesting(tags, Len(tags)) = 0
    /\ \A i, k \in DOMAIN tags :
          i < k /\ tags[i].tag = "FDT_END_NODE" /\ tags[k].tag = "FDT_PROP" =>
              \E j \in i + 1..k - 1 : tags[j].tag = "FDT_BEGIN_NODE"

\* The nodes whose names begin with pre, and the properties of a node that do.
NodesNamed(tags, pre) ==
    {i \in DOMAIN tags : tags[i].tag = "FDT_BEGIN_NODE" /\ IsPrefix(pre, tags[i].name)}
PropsNamed(tags, i, pre) ==
    {k \in DOMAIN tags : IsPropOf(tags, i, k) /\ IsPrefix(pre, tags[k].name)}

\* The blob, with where its tags begin.
DeviceTree(tags) == [kind |-> "fdt", tags |-> tags, start |-> TagStarts(tags)]

-----------------------------------------------------------------------------
(* A list of ATAGs, without the ATAG_NONE that ends it.                        *)

ATag(tag, start, sz) == [tag |-> tag, start |-> start, sz |-> sz]
Core                 == ATag("ATAG_CORE", 0, 0)
AtagList(tags)       == [kind |-> "atag", tags |-> <<Core>> \o tags]

ATags == [tag : STRING, start : Cells, sz : Cells]

\* Neither of the two.
NoBootData == [kind |-> "none"]

-----------------------------------------------------------------------------
(* Regions of memory.                                                          *)

Region(base, size) == [base |-> base, size |-> size]

\* The addresses of a region; the address space wraps.
Addresses(r) == {Wrap(r.base + i) : i \in 0..r.size - 1}

\* A list of ATAGs begins with ATAG_CORE; the regions of memory it lists leave an
\* address for the devices.
ListedMemory(tags) == {k \in DOMAIN tags : tags[k].tag = "ATAG_MEM"}
MemoryAt(tags, k)  == Addresses(Region(tags[k].start, tags[k].sz))
IsAtagList(tags) ==
    /\ tags \in Seq(ATags) /\ tags # <<>> /\ tags[1] = Core
    /\ \E a \in Cells : \A k \in ListedMemory(tags) : a \notin MemoryAt(tags, k)

IsBootData(d) ==
    /\ d.kind \in {"fdt", "atag", "none"}
    /\ d.kind = "fdt" => IsStructure(d.tags) /\ d = DeviceTree(d.tags)
    /\ d.kind = "atag" => IsAtagList(d.tags)
=============================================================================
