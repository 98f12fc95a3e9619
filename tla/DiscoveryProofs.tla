---------------------------- MODULE DiscoveryProofs ----------------------------
(* The searches of fdt.c and atag.h find what they are for, in every tree and  *)
(* every list.                                                                 *)
EXTENDS DiscoveryProperties, SequenceTheorems, WellFoundedInduction, TLAPS

-----------------------------------------------------------------------------
(* Sums, and with them the layout of a structure block.                        *)

LEMMA SmallestOf ==
    ASSUME NEW S \in SUBSET Nat, S # {}
    PROVE  \E x \in S : \A y \in S : x <= y
<1>1. PICK x \in S : \A y \in S : ~ (<<y, x>> \in OpToRel(<, Nat))
  BY WFMin, NatLessThanWellFounded
<1>2. \A y \in S : ~(y < x)
  BY <1>1 DEF OpToRel
<1>3. QED
  BY <1>2

\* g holds the sums of s up to n.
SumsTo(g, s, n) ==
    /\ g \in [0..n -> Int]
    /\ \A k \in 0..n : g[k] = IF k = 0 THEN 0 ELSE g[k - 1] + s[k]

LEMMA SumsExist ==
    ASSUME NEW s \in Seq(Int), NEW n \in 0..Len(s)
    PROVE  \E g : SumsTo(g, s, n)
<1> DEFINE S == {k \in 0..Len(s) : ~ \E g : SumsTo(g, s, k)}
<1>1. SUFFICES ASSUME S # {} PROVE FALSE
  OBVIOUS
<1>2. Len(s) \in Nat /\ S \in SUBSET Nat
  OBVIOUS
<1>3. PICK k \in S : \A j \in S : k <= j
  BY <1>1, <1>2, SmallestOf
<1> HIDE DEF S
<1>4. k \in 0..Len(s) /\ k \in Nat /\ ~ \E g : SumsTo(g, s, k)
  BY <1>2, <1>3 DEF S
<1>5. k # 0
  <2> DEFINE g == [i \in 0..0 |-> 0]
  <2>1. SumsTo(g, s, 0)
    BY DEF SumsTo
  <2> HIDE DEF g
  <2>2. QED
    BY <1>4, <2>1
<1>6. PICK m \in 0..Len(s) : m = k - 1
  BY <1>2, <1>4, <1>5
<1>7. PICK g : SumsTo(g, s, m)
  BY <1>3, <1>4, <1>6 DEF S
<1>8. g[m] \in Int /\ s[k] \in Int
  BY <1>2, <1>4, <1>5, <1>6, <1>7 DEF SumsTo
<1> DEFINE h == [i \in 0..k |-> IF i = k THEN g[m] + s[k] ELSE g[i]]
<1>9. h \in [0..k -> Int] /\ h[k] = g[m] + s[k] /\ \A i \in 0..m : h[i] = g[i]
  BY <1>2, <1>4, <1>6, <1>7, <1>8 DEF SumsTo
<1> HIDE DEF h
<1>10. ASSUME NEW i \in 0..k PROVE h[i] = IF i = 0 THEN 0 ELSE h[i - 1] + s[i]
  <2>1. CASE i = k
    BY <1>4, <1>5, <1>6, <1>9, <2>1
  <2>2. CASE i # k /\ i = 0
    BY <1>6, <1>7, <1>9, <2>2 DEF SumsTo
  <2>3. CASE i # k /\ i # 0
    <3>1. i \in 0..m /\ i - 1 \in 0..m
      BY <1>4, <1>6, <2>3
    <3>2. g[i] = g[i - 1] + s[i]
      BY <1>7, <2>3, <3>1 DEF SumsTo
    <3>3. QED
      BY <1>9, <2>3, <3>1, <3>2
  <2>4. QED
    BY <2>1, <2>2, <2>3
<1>11. SumsTo(h, s, k)
  BY <1>9, <1>10 DEF SumsTo
<1>12. QED
  BY <1>4, <1>11

LEMMA SumsAre ==
    ASSUME NEW s \in Seq(Int)
    PROVE  SumsTo(Sums(s), s, Len(s))
<1> DEFINE f(g) == [k \in 0..Len(s) |-> IF k = 0 THEN 0 ELSE g[k - 1] + s[k]]
<1>1. PICK g : SumsTo(g, s, Len(s))
  BY SumsExist
<1>2. g = f(g)
  BY <1>1 DEF SumsTo
<1>3. Sums(s) = f(Sums(s))
  BY <1>2 DEF Sums
<1>4. DOMAIN Sums(s) = 0..Len(s)
  BY <1>3
<1>5. \A k \in 0..Len(s) : Sums(s)[k] = IF k = 0 THEN 0 ELSE Sums(s)[k - 1] + s[k]
  BY <1>3
<1> DEFINE S == {k \in 0..Len(s) : Sums(s)[k] # g[k]}
<1>6. S = {}
  <2>1. SUFFICES ASSUME S # {} PROVE FALSE
    OBVIOUS
  <2>2. Len(s) \in Nat /\ S \in SUBSET Nat
    OBVIOUS
  <2>3. PICK k \in S : \A j \in S : k <= j
    BY <2>1, <2>2, SmallestOf
  <2>4. k # 0
    BY <1>1, <1>5, <2>3 DEF SumsTo
  <2>5. PICK m \in 0..Len(s) : m = k - 1
    BY <2>2, <2>3, <2>4
  <2>6. Sums(s)[m] = g[m]
    BY <2>3, <2>5
  <2>7. g[k] = g[m] + s[k] /\ Sums(s)[k] = Sums(s)[m] + s[k]
    BY <1>1, <1>5, <2>3, <2>4, <2>5 DEF SumsTo
  <2>8. QED
    BY <2>3, <2>6, <2>7
<1>7. Sums(s) = g
  <2>1. \A k \in 0..Len(s) : Sums(s)[k] = g[k]
    BY <1>6
  <2>2. Sums(s) = [k \in 0..Len(s) |-> Sums(s)[k]]
    BY <1>3
  <2>3. g = [k \in 0..Len(s) |-> g[k]]
    BY <1>1 DEF SumsTo
  <2> HIDE DEF S, f
  <2>4. QED
    BY <2>1, <2>2, <2>3
<1>8. QED
  BY <1>1, <1>7

LEMMA SumsFacts ==
    ASSUME NEW s \in Seq(Int)
    PROVE  /\ Sums(s)[0] = 0 /\ \A k \in 0..Len(s) : Sums(s)[k] \in Int
           /\ \A k \in 1..Len(s) : Sums(s)[k] = Sums(s)[k - 1] + s[k]
<1>1. Len(s) \in Nat
  OBVIOUS
<1>2. QED
  BY <1>1, SumsAre DEF SumsTo

LEMMA SumsGrow ==
    ASSUME NEW s \in Seq(Nat), NEW i \in 0..Len(s), NEW j \in 0..Len(s), i <= j
    PROVE  Sums(s)[i] <= Sums(s)[j]
<1> DEFINE S == {k \in i..Len(s) : Sums(s)[k] < Sums(s)[i]}
<1>0. s \in Seq(Int) /\ Len(s) \in Nat /\ i \in Nat
  OBVIOUS
<1>1. S = {}
  <2>1. SUFFICES ASSUME S # {} PROVE FALSE
    OBVIOUS
  <2>2. PICK k \in S : \A x \in S : k <= x
    <3>1. S \in SUBSET Nat
      BY <1>0
    <3>2. QED
      BY <2>1, <3>1, SmallestOf
  <2>3. PICK m \in i..Len(s) : m = k - 1
    BY <1>0, <2>2, SumsFacts
  <2>4. ~(Sums(s)[m] < Sums(s)[i])
    BY <1>0, <2>2, <2>3
  <2>5. Sums(s)[k] = Sums(s)[m] + s[k] /\ s[k] \in Nat
    BY <1>0, <2>2, <2>3, SumsFacts
  <2>6. Sums(s)[k] \in Int /\ Sums(s)[m] \in Int /\ Sums(s)[i] \in Int
    BY <1>0, <2>2, <2>3, SumsFacts
  <2>7. QED
    BY <2>2, <2>4, <2>5, <2>6
<1>2. j \in i..Len(s) /\ Sums(s)[j] \in Int /\ Sums(s)[i] \in Int
  BY <1>0, SumsFacts
<1>3. QED
  BY <1>1, <1>2

LEMMA NameLength == ASSUME NEW name \in Names PROVE StrLen(name) \in Nat
<1> DEFINE s == [i \in DOMAIN name |-> Bytes(name[i])]
<1>1. \A i \in DOMAIN name : Bytes(name[i]) \in Nat
  BY DEF Names
<1>2. s \in Seq(Nat) /\ Len(s) = Len(name) /\ Len(name) \in Nat
  BY <1>1 DEF Names
<1> HIDE DEF s
<1>3. Sums(s)[0] = 0 /\ Sums(s)[Len(s)] \in Int /\ Sums(s)[0] <= Sums(s)[Len(s)]
  BY <1>2, SumsFacts, SumsGrow
<1>4. QED
  BY <1>2, <1>3 DEF StrLen, s

Structure(d) == d.kind = "fdt" /\ IsBootData(d)

LEMMA TagFacts ==
    ASSUME NEW d, Structure(d), NEW k \in DOMAIN d.tags
    PROVE  /\ d.tags[k] \in Tags /\ k \in Nat /\ k >= 1 /\ k <= Len(d.tags) /\ Len(d.tags) \in Nat
           /\ DOMAIN d.tags = 1..Len(d.tags)
           /\ d.tags[k].tag = "FDT_END" <=> k = Len(d.tags)
  BY DEF Structure, IsBootData, IsStructure

LEMMA RoundedUp ==
    ASSUME NEW m \in Nat, NEW n \in Nat
    PROVE  ((4 * m + n + (4 - 1)) \div 4) * 4 = 4 * m + 4 * ((n + 3) \div 4)
  OBVIOUS

LEMMA WordsOf ==
    ASSUME NEW t \in Tags
    PROVE  /\ TagWords(t) \in Nat \ {0} /\ fdt_get_tag_size(t) \in Nat
           /\ \A m \in Nat : ALIGN_UP(4 * m + fdt_get_tag_size(t), 4) = 4 * m + 4 * TagWords(t)
<1>1. StrLen(t.name) \in Nat /\ t.len \in Nat
  BY NameLength DEF Tags
<1>2. /\ TagWords(t) \in Nat \ {0} /\ fdt_get_tag_size(t) \in Nat
      /\ TagWords(t) = (fdt_get_tag_size(t) + 3) \div 4
  <2>1. CASE t.tag = "FDT_BEGIN_NODE"
    <3>1. PICK n \in Nat : n = StrLen(t.name)
      BY <1>1
    <3>2. TagWords(t) = 1 + n \div 4 + 1 /\ fdt_get_tag_size(t) = 4 + (n + 1)
      BY <2>1, <3>1 DEF TagWords, fdt_get_tag_size
    <3>3. QED
      BY <3>2
  <2>2. CASE t.tag = "FDT_PROP"
    <3>1. TagWords(t) = 3 + (t.len + 3) \div 4 /\ fdt_get_tag_size(t) = 12 + t.len
      BY <2>2 DEF TagWords, fdt_get_tag_size
    <3>2. QED
      BY <1>1, <3>1
  <2>3. CASE t.tag \notin {"FDT_BEGIN_NODE", "FDT_PROP"}
    BY <2>3 DEF TagWords, fdt_get_tag_size
  <2>4. QED
    BY <2>1, <2>2, <2>3
<1>3. ASSUME NEW m \in Nat
      PROVE  ALIGN_UP(4 * m + fdt_get_tag_size(t), 4) = 4 * m + 4 * TagWords(t)
  BY <1>2, RoundedUp DEF ALIGN_UP
<1>4. QED
  BY <1>2, <1>3

(* The tags follow each other without gap.                                     *)
LEMMA StartFacts ==
    ASSUME NEW d, Structure(d), NEW k \in DOMAIN d.tags
    PROVE  /\ d.start[k] \in Nat /\ d.start[1] = 0
           /\ \E m \in Nat : d.start[k] = 4 * m
           /\ k # Len(d.tags) => /\ k + 1 \in DOMAIN d.tags
                                 /\ d.start[k + 1] = d.start[k] + 4 * TagWords(d.tags[k])
           /\ \A j \in DOMAIN d.tags : j < k => d.start[j] < d.start[k]
<1> DEFINE s == [j \in DOMAIN d.tags |-> TagWords(d.tags[j])]
<1>1. DOMAIN d.tags = 1..Len(d.tags) /\ Len(d.tags) \in Nat
  BY TagFacts
<1>2. \A j \in DOMAIN d.tags : TagWords(d.tags[j]) \in Nat \ {0}
  BY TagFacts, WordsOf
<1>3. s \in Seq(Nat) /\ s \in Seq(Int) /\ Len(s) = Len(d.tags)
  BY <1>1, <1>2
<1>4. d.start = [j \in DOMAIN d.tags |-> 4 * Sums(s)[j - 1]]
  BY DEF Structure, IsBootData, DeviceTree, TagStarts
<1>5. \A j \in DOMAIN d.tags : s[j] = TagWords(d.tags[j])
  OBVIOUS
<1> HIDE DEF s
<1>6. \A j \in 0..Len(d.tags) : Sums(s)[j] \in Nat
  <2>1. TAKE j \in 0..Len(d.tags)
  <2>2. Sums(s)[0] = 0 /\ Sums(s)[j] \in Int /\ Sums(s)[0] <= Sums(s)[j]
    BY <1>1, <1>3, SumsFacts, SumsGrow
  <2>3. QED
    BY <2>2
<1>7. k - 1 \in 0..Len(d.tags) /\ 1 \in DOMAIN d.tags /\ k \in Nat
  BY <1>1
<1>8. d.start[k] = 4 * Sums(s)[k - 1] /\ d.start[1] = 4 * Sums(s)[0]
  BY <1>4, <1>7
<1>9. k # Len(d.tags) => k + 1 \in DOMAIN d.tags /\ d.start[k + 1] = 4 * Sums(s)[k]
  BY <1>1, <1>4
<1>10. Sums(s)[k] = Sums(s)[k - 1] + s[k] /\ s[k] \in Nat \ {0}
  BY <1>1, <1>2, <1>3, <1>5, SumsFacts
<1>11. ASSUME NEW j \in DOMAIN d.tags, j < k PROVE d.start[j] < d.start[k]
  <2>1. j \in 0..Len(d.tags) /\ j - 1 \in 0..Len(d.tags) /\ j <= k - 1 /\ j \in 1..Len(s)
    BY <1>1, <1>3, <1>11
  <2>2. Sums(s)[j] <= Sums(s)[k - 1]
    BY <1>3, <1>7, <2>1, SumsGrow
  <2>3. Sums(s)[j] = Sums(s)[j - 1] + s[j] /\ s[j] \in Nat \ {0}
    BY <1>2, <1>3, <1>5, <2>1, SumsFacts
  <2>4. d.start[j] = 4 * Sums(s)[j - 1]
    BY <1>4
  <2>5. Sums(s)[j] \in Nat /\ Sums(s)[j - 1] \in Nat /\ Sums(s)[k - 1] \in Nat
    BY <1>6, <1>7, <2>1
  <2>6. Sums(s)[j - 1] < Sums(s)[k - 1]
    BY <2>2, <2>3, <2>5
  <2>7. QED
    BY <1>8, <2>4, <2>5, <2>6
<1>12. Sums(s)[0] = 0
  BY <1>3, SumsFacts
<1>size. Sums(s)[k - 1] \in Nat
  BY <1>6, <1>7
<1>14. k # Len(d.tags) => /\ k + 1 \in DOMAIN d.tags
                          /\ d.start[k + 1] = d.start[k] + 4 * TagWords(d.tags[k])
  BY <1>5, <1>8, <1>9, <1>10, <1>size
<1>15. QED
  BY <1>8, <1>11, <1>12, <1>size, <1>14

LEMMA StartsApart ==
    ASSUME NEW d, Structure(d), NEW j \in DOMAIN d.tags, NEW k \in DOMAIN d.tags,
           d.start[j] = d.start[k]
    PROVE  j = k
<1>1. j \in Nat /\ k \in Nat /\ d.start[j] \in Nat
  BY TagFacts, StartFacts
<1>2. ~(j < k) /\ ~(k < j)
  BY <1>1, StartFacts
<1>3. QED
  BY <1>1, <1>2

LEMMA TagIs ==
    ASSUME Structure(data), NEW k \in DOMAIN data.tags
    PROVE  TagAt(data.start[k]) = data.tags[k] /\ data.start[k] # NULL
<1>1. (CHOOSE j \in DOMAIN data.tags : data.start[j] = data.start[k]) = k
  BY StartsApart
<1>2. QED
  BY <1>1, StartFacts, DiscoveryAssumption DEF TagAt

(* The arithmetic of fdt_get_next_tag leads from each tag to the next.         *)
LEMMA NextTag ==
    ASSUME Structure(data), NEW k \in DOMAIN data.tags
    PROVE  fdt_get_next_tag(data.start[k])
               = IF k = Len(data.tags) THEN NULL ELSE data.start[k + 1]
<1>1. TagAt(data.start[k]) = data.tags[k] /\ data.tags[k] \in Tags
  BY TagIs, TagFacts
<1>2. PICK m \in Nat : data.start[k] = 4 * m
  BY StartFacts
<1>3. ALIGN_UP(4 * m + fdt_get_tag_size(data.tags[k]), 4) = 4 * m + 4 * TagWords(data.tags[k])
  BY <1>1, WordsOf
<1>4. data.tags[k].tag = "FDT_END" <=> k = Len(data.tags)
  BY TagFacts
<1>5. CASE k = Len(data.tags)
  BY <1>1, <1>4, <1>5 DEF fdt_get_next_tag
<1>6. CASE k # Len(data.tags)
  <2>1. data.start[k + 1] = data.start[k] + 4 * TagWords(data.tags[k])
    BY <1>6, StartFacts
  <2>2. fdt_get_next_tag(data.start[k])
            = ALIGN_UP(data.start[k] + fdt_get_tag_size(data.tags[k]), 4)
    BY <1>1, <1>4, <1>6 DEF fdt_get_next_tag
  <2>3. QED
    BY <1>2, <1>3, <1>6, <2>1, <2>2
<1>7. QED
  BY <1>5, <1>6

LEMMA NestingFacts ==
    ASSUME NEW d, Structure(d), NEW k \in DOMAIN d.tags
    PROVE  /\ Nesting(d.tags, k) \in Int /\ Nesting(d.tags, 1) = 0
           /\ k # Len(d.tags) =>
                 Nesting(d.tags, k + 1) = Nesting(d.tags, k) + Opens(d.tags[k])
<1> DEFINE s == [j \in DOMAIN d.tags |-> Opens(d.tags[j])]
<1>1. DOMAIN d.tags = 1..Len(d.tags) /\ Len(d.tags) \in Nat
  BY TagFacts
<1>2. \A j \in DOMAIN d.tags : Opens(d.tags[j]) \in Int
  BY DEF Opens
<1>3. s \in Seq(Int) /\ Len(s) = Len(d.tags)
  BY <1>1, <1>2
<1>4. \A j \in DOMAIN d.tags : s[j] = Opens(d.tags[j])
  OBVIOUS
<1>5. \A j : Nesting(d.tags, j) = Sums(s)[j - 1]
  BY DEF Nesting
<1> HIDE DEF s
<1>6. k - 1 \in 0..Len(s) /\ k \in 1..Len(s) /\ k \in Int
  BY <1>1, <1>3
<1>7. Sums(s)[k] = Sums(s)[k - 1] + s[k] /\ Sums(s)[k - 1] \in Int /\ Sums(s)[0] = 0
  BY <1>3, <1>6, SumsFacts
<1>8. Nesting(d.tags, k) = Sums(s)[k - 1] /\ Nesting(d.tags, 1) = Sums(s)[0]
  BY <1>5
<1>9. Nesting(d.tags, k + 1) = Sums(s)[k]
  <2>1. PICK j \in Int : j = k + 1
    BY <1>6
  <2>2. Nesting(d.tags, j) = Sums(s)[j - 1] /\ j - 1 = k
    BY <1>5, <1>6, <2>1
  <2>3. QED
    BY <2>1, <2>2
<1>10. QED
  BY <1>4, <1>7, <1>8, <1>9

-----------------------------------------------------------------------------
(* Cells: the conversion undoes the byte order of the tree.                    *)

\* c divides n with quotient q and remainder r.
Divides(c, n, q, r) == q \in Nat /\ r \in 0..(c - 1) /\ n = q * c + r /\ q = n \div c /\ r = n % c

LEMMA Quotient ==
    ASSUME NEW n \in Nat, NEW c \in Nat \ {0}
    PROVE  \E q, r : Divides(c, n, q, r)
<1>1. n = (n \div c) * c + (n % c) /\ n % c \in 0..(c - 1) /\ n \div c \in Int
  OBVIOUS
<1>2. n \div c \in Nat
  <2>1. SUFFICES ASSUME n \div c < 0 PROVE FALSE
    BY <1>1
  <2>2. (n \div c) * c <= -c
    BY <1>1, <2>1
  <2>3. QED
    BY <1>1, <2>2
<1>3. Divides(c, n, n \div c, n % c)
  BY <1>1, <1>2 DEF Divides
<1>4. QED
  BY <1>3

LEMMA QuotientOf ==
    ASSUME NEW q \in Nat, NEW c \in Nat \ {0}, NEW r \in 0..(c - 1)
    PROVE  (q * c + r) \div c = q /\ (q * c + r) % c = r
  OBVIOUS

Digits == 0..ByteValues - 1

LEMMA Splits ==
    ASSUME NEW r \in Digits, NEW q \in Nat
    PROVE  /\ r + ByteValues * q \in Nat
           /\ (r + ByteValues * q) % ByteValues = r /\ (r + ByteValues * q) \div ByteValues = q
<1>1. ByteValues \in Nat \ {0}
  BY ByteAssumption
<1>2. r + ByteValues * q = q * ByteValues + r /\ q * ByteValues \in Nat /\ r \in Nat
  BY <1>1 DEF Digits
<1>3. (q * ByteValues + r) % ByteValues = r /\ (q * ByteValues + r) \div ByteValues = q
  BY <1>1, QuotientOf DEF Digits
<1>4. QED
  BY <1>2, <1>3

LEMMA WordOfBytes ==
    ASSUME NEW a \in Digits, NEW b \in Digits, NEW c \in Digits, NEW d \in Digits
    PROVE  LET w == Word(<<a, b, c, d>>)
           IN  w \in Nat /\ Byte(w, 0) = a /\ Byte(w, 1) = b /\ Byte(w, 2) = c /\ Byte(w, 3) = d
<1>1. ByteValues \in Nat \ {0}
  BY ByteAssumption
<1>2. d \in Nat /\ d % ByteValues = d
  BY <1>1 DEF Digits
<1>3. PICK u \in Nat : u = c + ByteValues * d
  BY <1>2, Splits
<1>4. PICK v \in Nat : v = b + ByteValues * u
  BY Splits
<1>5. PICK w \in Nat : w = a + ByteValues * v
  BY Splits
<1>6. Word(<<a, b, c, d>>) = w
  BY <1>3, <1>4, <1>5 DEF Word
<1>7. /\ w % ByteValues = a /\ w \div ByteValues = v
      /\ v % ByteValues = b /\ v \div ByteValues = u
      /\ u % ByteValues = c /\ u \div ByteValues = d
  BY <1>2, <1>3, <1>4, <1>5, Splits
<1>8. /\ Byte(w, 0) = w % ByteValues /\ Byte(w, 1) = v % ByteValues
      /\ Byte(w, 2) = u % ByteValues /\ Byte(w, 3) = d % ByteValues
  BY <1>7 DEF Byte
<1>9. QED
  BY <1>2, <1>6, <1>7, <1>8

LEMMA BytesOfCell ==
    ASSUME NEW x \in Cells
    PROVE  /\ Byte(x, 0) \in Digits /\ Byte(x, 1) \in Digits
           /\ Byte(x, 2) \in Digits /\ Byte(x, 3) \in Digits
           /\ Word(<<Byte(x, 0), Byte(x, 1), Byte(x, 2), Byte(x, 3)>>) = x
<1> DEFINE B == ByteValues
<1>1. B \in Nat \ {0} /\ x \in Nat
  BY ByteAssumption DEF Cells
<1> HIDE DEF B
<1>2. PICK p, a : Divides(B, x, p, a)
  BY <1>1, Quotient
<1>3. PICK q, b : Divides(B, p, q, b)
  BY <1>1, <1>2, Quotient DEF Divides
<1>4. PICK r, c : Divides(B, q, r, c)
  BY <1>1, <1>3, Quotient DEF Divides
<1>5. /\ p \in Nat /\ q \in Nat /\ r \in Nat
      /\ a \in 0..(B - 1) /\ b \in 0..(B - 1) /\ c \in 0..(B - 1)
      /\ x = p * B + a /\ p = q * B + b /\ q = r * B + c
  BY <1>2, <1>3, <1>4 DEF Divides
<1>6. /\ x \div B = p /\ p \div B = q /\ q \div B = r
      /\ x % B = a /\ p % B = b /\ q % B = c
  BY <1>2, <1>3, <1>4 DEF Divides
<1>7. r < B
  <2>1. SUFFICES ASSUME r >= B PROVE FALSE
    BY <1>1, <1>5
  <2>2. PICK s \in Nat : s = B * B
    BY <1>1
  <2>3. r * B >= s
    BY <1>1, <1>5, <2>1, <2>2
  <2>4. q >= s
    BY <1>1, <1>5, <2>2, <2>3
  <2>5. PICK t \in Nat : t = B * s
    BY <1>1
  <2>6. q * B >= t
    BY <1>1, <1>5, <2>4, <2>5
  <2>7. p >= t
    BY <1>1, <1>5, <2>5, <2>6
  <2>8. p * B >= B * t /\ B * t \in Nat
    BY <1>1, <1>5, <2>7
  <2>9. x >= B * t
    BY <1>1, <1>5, <2>8
  <2>10. AddrValues = B * t
    BY <2>2, <2>5 DEF AddrValues, B
  <2>11. QED
    BY <1>1, <2>8, <2>9, <2>10 DEF Cells
<1>8. r % B = r
  BY <1>1, <1>5, <1>7
<1>9. Byte(x, 0) = a /\ Byte(x, 1) = b /\ Byte(x, 2) = c /\ Byte(x, 3) = r
  BY <1>6, <1>8 DEF Byte, B
<1>10. a \in Digits /\ b \in Digits /\ c \in Digits /\ r \in Digits
  BY <1>1, <1>5, <1>7 DEF Digits, B
<1>11. Word(<<a, b, c, r>>) = x
  <2>1. Word(<<a, b, c, r>>) = a + B * (b + B * (c + B * r))
    BY DEF Word, B
  <2>2. c + B * r = q /\ b + B * q = p /\ a + B * p = x
    BY <1>1, <1>5
  <2>3. QED
    BY <2>1, <2>2
<1>12. QED
  BY <1>9, <1>10, <1>11

LEMMA WordIsCell ==
    ASSUME NEW a \in Digits, NEW b \in Digits, NEW c \in Digits, NEW d \in Digits
    PROVE  Word(<<a, b, c, d>>) \in Cells
<1> DEFINE B == ByteValues
<1>1. B \in Nat \ {0} /\ B - 1 \in Nat
  BY ByteAssumption
<1>2. Word(<<a, b, c, d>>) = a + B * (b + B * (c + B * d))
  BY DEF Word
<1>3. a \in 0..(B - 1) /\ b \in 0..(B - 1) /\ c \in 0..(B - 1) /\ d \in 0..(B - 1)
  BY DEF Digits
<1>4. AddrValues = B * (B * (B * B))
  BY DEF AddrValues
<1> HIDE DEF B
<1>5. PICK s \in Nat : s = B * B
  BY <1>1
<1>6. PICK t \in Nat : t = B * s
  BY <1>1, <1>5
<1>7. PICK u \in Nat : u = c + B * d
  BY <1>1, <1>3
<1>8. u + 1 <= s
  <2>1. B * (d + 1) <= B * B
    BY <1>1, <1>3
  <2>2. B * (d + 1) = B * d + B /\ B * d \in Nat
    BY <1>1, <1>3
  <2>3. QED
    BY <1>1, <1>3, <1>5, <1>7, <2>1, <2>2
<1>9. PICK v \in Nat : v = b + B * u
  BY <1>1, <1>3
<1>10. v + 1 <= t
  <2>1. B * (u + 1) <= B * s
    BY <1>1, <1>8
  <2>2. B * (u + 1) = B * u + B /\ B * u \in Nat
    BY <1>1
  <2>3. QED
    BY <1>1, <1>3, <1>6, <1>9, <2>1, <2>2
<1>11. PICK w \in Nat : w = a + B * v
  BY <1>1, <1>3
<1>12. w + 1 <= B * t
  <2>1. B * (v + 1) <= B * t
    BY <1>1, <1>10
  <2>2. B * (v + 1) = B * v + B /\ B * v \in Nat
    BY <1>1
  <2>3. QED
    BY <1>1, <1>3, <1>11, <2>1, <2>2
<1>size. AddrValues = B * t /\ B * t \in Nat
  BY <1>1, <1>4, <1>5, <1>6
<1>14. QED
  BY <1>2, <1>7, <1>9, <1>11, <1>12, <1>size DEF Cells

LEMMA CpuIsLittleEndian == is_little_endian
  BY ByteAssumption DEF is_little_endian, Byte

LEMMA Converted ==
    ASSUME NEW x \in Cells
    PROVE  be32_to_cpu(x) = endswap32(x) /\ endswap32(x) \in Cells
  BY BytesOfCell, WordIsCell, CpuIsLittleEndian DEF be32_to_cpu, endswap32

LEMMA LoadIsCell == ASSUME NEW x \in Cells PROVE Load(x) \in Cells
  BY BytesOfCell, WordIsCell DEF Load

(* be32_to_cpu undoes what loading a cell of the tree does to it.              *)
LEMMA CellConverted == ASSUME NEW x \in Cells PROVE be32_to_cpu(Load(x)) = x
<1> DEFINE a == Byte(x, 0)
           b == Byte(x, 1)
           c == Byte(x, 2)
           d == Byte(x, 3)
<1>1. a \in Digits /\ b \in Digits /\ c \in Digits /\ d \in Digits /\ Word(<<a, b, c, d>>) = x
  BY BytesOfCell
<1>2. Load(x) = Word(<<d, c, b, a>>)
  BY DEF Load
<1> HIDE DEF a, b, c, d
<1>3. /\ Byte(Load(x), 0) = d /\ Byte(Load(x), 1) = c /\ Byte(Load(x), 2) = b
      /\ Byte(Load(x), 3) = a
  BY <1>1, <1>2, WordOfBytes
<1>4. endswap32(Load(x)) = x
  BY <1>1, <1>3 DEF endswap32
<1>5. QED
  BY <1>4, LoadIsCell, Converted

LEMMA WrapIsCell == ASSUME NEW n \in Int PROVE Wrap(n) \in Cells /\ AddrValues \in Nat \ {0}
<1>1. AddrValues \in Nat \ {0}
  <2>1. PICK s \in Nat \ {0} : s = ByteValues * ByteValues
    BY ByteAssumption
  <2>2. PICK t \in Nat \ {0} : t = ByteValues * s
    BY <2>1, ByteAssumption
  <2>3. QED
    BY <2>1, <2>2, ByteAssumption DEF AddrValues
<1>2. QED
  BY <1>1 DEF Wrap, Cells

-----------------------------------------------------------------------------
(* Names: the exact name that is searched for is no node's.                    *)

LEMMA PrefixElement ==
    ASSUME NEW A, NEW s \in Seq(A), NEW B, NEW t \in Seq(B), IsPrefix(s, t), NEW i \in 1..Len(s)
    PROVE  i \in 1..Len(t) /\ s[i] = t[i]
<1>1. Len(s) \in Nat /\ Len(t) \in Nat /\ Len(s) <= Len(t)
  BY DEF IsPrefix
<1>2. SubSeq(s, 1, Len(s)) = SubSeq(t, 1, Len(s))
  BY DEF IsPrefix
<1>3. SubSeq(s, 1, Len(s))[i] = s[i] /\ SubSeq(t, 1, Len(s))[i] = t[i]
  BY <1>1
<1>4. QED
  BY <1>1, <1>2, <1>3

Lexemes == {itox(addr) : addr \in Cells} \union {"memory", "@0x", "\n", "chosen", "/"}

LEMMA OneLexeme ==
    ASSUME NEW A, NEW x \in A
    PROVE  <<x>> \in Seq(A) /\ Len(<<x>>) = 1 /\ <<x>>[1] = x
  OBVIOUS

LEMMA MemoryAtName ==
    ASSUME NEW start \in Cells
    PROVE  /\ memory_at(start) \in Seq(Lexemes) /\ Len(memory_at(start)) >= 3
           /\ memory_at(start)[1] = "memory" /\ memory_at(start)[Len(memory_at(start))] = "\n"
<1>1. PICK x \in Lexemes : x = itox(start)
  BY DEF Lexemes
<1>2. "memory" \in Lexemes /\ "@0x" \in Lexemes /\ "\n" \in Lexemes
  BY DEF Lexemes
<1>3. memory_at(start) = <<"memory", "@0x", x, "\n">>
  BY <1>1 DEF memory_at
<1> HIDE DEF Lexemes
<1>4. QED
  BY <1>2, <1>3

LEMMA NoExactName ==
    ASSUME NEW start \in Cells, NEW name \in Names
    PROVE  ~IsPrefix(memory_at(start), name)
<1> SUFFICES ASSUME IsPrefix(memory_at(start), name) PROVE FALSE
  OBVIOUS
<1>1. PICK m \in Seq(Lexemes) : m = memory_at(start) /\ Len(m) >= 3 /\ m[Len(m)] = "\n"
  BY MemoryAtName
<1>2. name[Len(m)] = "\n" /\ Len(m) \in 1..Len(name)
  BY <1>1, PrefixElement DEF Names
<1>3. QED
  BY <1>2 DEF Names

\* The names the callers search for.
SearchedNames == {memory_at(kv_start), memory_at(kp_start), <<"memory">>, <<"chosen">>}

LEMMA SearchedFirst ==
    ASSUME NEW name \in SearchedNames
    PROVE  name \in Seq(Lexemes) /\ 1 \in 1..Len(name) /\ name[1] # "/"
<1>1. "memory" \in Lexemes /\ "chosen" \in Lexemes
  BY DEF Lexemes
<1>2. CASE name \in {<<"memory">>, <<"chosen">>}
  <2>1. PICK x \in Lexemes : name = <<x>> /\ x # "/"
    BY <1>1, <1>2
  <2>2. QED
    BY <2>1, OneLexeme
<1>3. CASE name \in {memory_at(kv_start), memory_at(kp_start)}
  <2>1. PICK start \in Cells : name = memory_at(start)
    BY <1>3, DiscoveryAssumption
  <2>2. name \in Seq(Lexemes) /\ Len(name) >= 3 /\ name[1] = "memory"
    BY <2>1, MemoryAtName
  <2>3. Len(name) \in Nat
    BY <2>2
  <2>4. QED
    BY <2>2, <2>3
<1>4. QED
  BY <1>2, <1>3 DEF SearchedNames

LEMMA NodeNamed ==
    ASSUME NEW name \in SearchedNames, NEW t
    PROVE  IsNodeNamed(name, t) <=> t.tag = "FDT_BEGIN_NODE" /\ IsPrefix(name, t.name)
<1>1. PICK root : root = <<"/">>
  OBVIOUS
<1>2. root \in Seq(Lexemes) /\ root[1] = "/"
  <2>1. "/" \in Lexemes
    BY DEF Lexemes
  <2>2. QED
    BY <1>1, <2>1, OneLexeme
<1>3. ~IsPrefix(name, root)
  <2>1. SUFFICES ASSUME IsPrefix(name, root) PROVE FALSE
    OBVIOUS
  <2>2. name \in Seq(Lexemes) /\ 1 \in 1..Len(name) /\ name[1] # "/"
    BY SearchedFirst
  <2>3. name[1] = root[1]
    BY <1>2, <2>1, <2>2, PrefixElement
  <2>4. QED
    BY <1>2, <2>2, <2>3
<1>4. QED
  BY <1>1, <1>3 DEF IsNodeNamed, strcmp_is_0

-----------------------------------------------------------------------------
(* The tree: which tags the properties of a node are.                          *)

LEMMA FirstIs ==
    ASSUME NEW S \in SUBSET Nat, NEW x \in S, \A y \in S : x <= y
    PROVE  FirstOf(S) = x
<1>1. FirstOf(S) \in S /\ \A y \in S : FirstOf(S) <= y
  BY DEF FirstOf
<1>2. FirstOf(S) <= x /\ x <= FirstOf(S) /\ x \in Nat /\ FirstOf(S) \in Nat
  BY <1>1
<1>3. QED
  BY <1>2

LEMMA FirstExists ==
    ASSUME NEW S \in SUBSET Nat, S # {}
    PROVE  FirstOf(S) \in S /\ \A y \in S : FirstOf(S) <= y
  BY SmallestOf DEF FirstOf

LEMMA LastOf ==
    ASSUME NEW n \in Nat, NEW S \in SUBSET (0..n), S # {}
    PROVE  \E x \in S : \A y \in S : y <= x
<1> DEFINE T == {n - y : y \in S}
<1>1. T \in SUBSET Nat /\ T # {}
  <2>1. \A y \in S : y \in 0..n /\ n - y \in Nat
    OBVIOUS
  <2>2. PICK y : y \in S
    OBVIOUS
  <2>3. QED
    BY <2>1, <2>2
<1>2. PICK t \in T : \A u \in T : t <= u
  BY <1>1, SmallestOf
<1>3. PICK x \in S : t = n - x
  BY <1>2
<1>4. \A y \in S : t <= n - y
  BY <1>2
<1>5. QED
  BY <1>3, <1>4

(* Properties and nops open and close nothing.                                 *)
LEMMA ContentNesting ==
    ASSUME NEW d, Structure(d), NEW i \in DOMAIN d.tags, NEW k \in DOMAIN d.tags, i < k,
           d.tags[i].tag = "FDT_BEGIN_NODE",
           \A j \in DOMAIN d.tags : i < j /\ j < k => IsContent(d.tags[j])
    PROVE  Nesting(d.tags, k) = Nesting(d.tags, i) + 1
<1>1. i \in Nat /\ k \in Nat /\ DOMAIN d.tags = 1..Len(d.tags) /\ Len(d.tags) \in Nat /\ i >= 1
  BY TagFacts
<1> DEFINE S == {j \in i + 1..k : Nesting(d.tags, j) # Nesting(d.tags, i) + 1}
<1>2. S = {}
  <2>1. SUFFICES ASSUME S # {} PROVE FALSE
    OBVIOUS
  <2>2. S \in SUBSET Nat
    BY <1>1
  <2>3. PICK n \in S : \A j \in S : n <= j
    BY <2>1, <2>2, SmallestOf
  <2>4. PICK m \in DOMAIN d.tags : m = n - 1 /\ m >= i /\ m < k
    BY <1>1, <2>3
  <2>5. Nesting(d.tags, n) = Nesting(d.tags, m) + Opens(d.tags[m])
    <3>1. m # Len(d.tags) /\ n = m + 1
      BY <1>1, <2>3, <2>4
    <3>2. QED
      BY <3>1, NestingFacts
  <2>6. CASE m = i
    BY <2>3, <2>5, <2>6 DEF Opens
  <2>7. CASE m # i
    <3>1. Nesting(d.tags, m) = Nesting(d.tags, i) + 1
      BY <1>1, <2>3, <2>4, <2>7
    <3>2. IsContent(d.tags[m])
      BY <1>1, <2>4, <2>7
    <3>3. Opens(d.tags[m]) = 0
      BY <3>2 DEF IsContent, Opens
    <3>4. Nesting(d.tags, m) \in Int
      BY NestingFacts
    <3>5. QED
      BY <2>3, <2>5, <3>1, <3>3, <3>4
  <2>8. QED
    BY <2>6, <2>7
<1>3. k \in i + 1..k
  BY <1>1
<1>4. QED
  BY <1>2, <1>3

LEMMA ContentIsOwn ==
    ASSUME NEW d, Structure(d), NEW i \in DOMAIN d.tags, NEW k \in DOMAIN d.tags, i < k,
           d.tags[i].tag = "FDT_BEGIN_NODE", d.tags[k].tag = "FDT_PROP",
           \A j \in DOMAIN d.tags : i < j /\ j < k => IsContent(d.tags[j])
    PROVE  IsPropOf(d.tags, i, k)
<1>1. i \in Nat /\ k \in Nat /\ DOMAIN d.tags = 1..Len(d.tags) /\ Len(d.tags) \in Nat /\ i >= 1
  BY TagFacts
<1>2. ASSUME NEW j \in i + 1..k PROVE Nesting(d.tags, j) = Nesting(d.tags, i) + 1
  <2>1. j \in DOMAIN d.tags /\ i < j /\ j <= k /\ j \in Nat
    BY <1>1
  <2>2. \A n \in DOMAIN d.tags : i < n /\ n < j => IsContent(d.tags[n])
    BY <1>1, <2>1
  <2>3. QED
    BY <2>1, <2>2, ContentNesting
<1>3. Nesting(d.tags, i) \in Int /\ k \in i + 1..k
  BY <1>1, NestingFacts
<1>4. QED
  BY <1>2, <1>3 DEF IsPropOf

(* Properties come before children, so that nothing else lies before one.      *)
LEMMA OwnIsContent ==
    ASSUME NEW d, Structure(d), NEW i \in DOMAIN d.tags, NEW k \in DOMAIN d.tags,
           IsPropOf(d.tags, i, k)
    PROVE  \A j \in DOMAIN d.tags : i < j /\ j < k => IsContent(d.tags[j])
<1>1. i \in Nat /\ k \in Nat /\ DOMAIN d.tags = 1..Len(d.tags) /\ Len(d.tags) \in Nat /\ i >= 1
  BY TagFacts
<1> DEFINE S == {j \in i + 1..k - 1 : ~IsContent(d.tags[j])}
<1>2. S = {}
  <2>1. SUFFICES ASSUME S # {} PROVE FALSE
    OBVIOUS
  <2>2. S \in SUBSET (0..k)
    BY <1>1
  <2>3. PICK j \in S : \A n \in S : n <= j
    BY <1>1, <2>1, <2>2, LastOf
  <2>4. j \in DOMAIN d.tags /\ j \in Nat /\ i < j /\ j < k /\ j # Len(d.tags) /\ ~IsContent(d.tags[j])
    BY <1>1, <2>3
  <2>5. \A n \in DOMAIN d.tags : j < n /\ n < k => IsContent(d.tags[n])
    BY <1>1, <2>3, <2>4
  <2>6. d.tags[j].tag # "FDT_END_NODE"
    <3>1. SUFFICES ASSUME d.tags[j].tag = "FDT_END_NODE" PROVE FALSE
      OBVIOUS
    <3>2. PICK n \in j + 1..k - 1 : d.tags[n].tag = "FDT_BEGIN_NODE"
      BY <2>4, <3>1 DEF Structure, IsBootData, IsStructure, IsPropOf
    <3>3. n \in DOMAIN d.tags /\ j < n /\ n < k
      BY <1>1, <2>4
    <3>4. QED
      BY <2>5, <3>2, <3>3 DEF IsContent
  <2>7. d.tags[j].tag = "FDT_BEGIN_NODE"
    <3>1. d.tags[j] \in Tags /\ d.tags[j].tag # "FDT_END"
      BY <2>4, TagFacts
    <3>2. QED
      BY <2>4, <2>6, <3>1 DEF Tags, IsContent
  <2>8. Nesting(d.tags, k) = Nesting(d.tags, j) + 1
    BY <2>4, <2>5, <2>7, ContentNesting
  <2>9. Nesting(d.tags, k) = Nesting(d.tags, i) + 1 /\ Nesting(d.tags, j) > Nesting(d.tags, i)
    BY <1>1, <2>4 DEF IsPropOf
  <2>10. Nesting(d.tags, j) \in Int /\ Nesting(d.tags, i) \in Int
    BY <2>4, NestingFacts
  <2>11. QED
    BY <2>8, <2>9, <2>10
<1>3. QED
  BY <1>1, <1>2

LEMMA NodesAre ==
    ASSUME NEW d, Structure(d), NEW name
    PROVE  /\ Nodes(d, name) \in SUBSET Nat /\ Nodes(d, name) \subseteq DOMAIN d.tags
           /\ \A k \in DOMAIN d.tags :
                 k \in Nodes(d, name) <=> d.tags[k].tag = "FDT_BEGIN_NODE" /\ IsPrefix(name, d.tags[k].name)
<1>1. Nodes(d, name) = NodesNamed(d.tags, name)
  BY DEF Structure, Nodes
<1>2. QED
  BY <1>1, TagFacts DEF NodesNamed

\* The tags between a node and one of its properties.
IsOwn(d, i, k, name) ==
    /\ i < k /\ IsProp(d.tags[k], name)
    /\ \A j \in DOMAIN d.tags : i < j /\ j < k => IsContent(d.tags[j])

LEMMA PropsAre ==
    ASSUME NEW d, Structure(d), NEW of, NEW name, NEW i, Nodes(d, of) # {}, i = FirstOf(Nodes(d, of))
    PROVE  /\ i \in Nodes(d, of) /\ i \in DOMAIN d.tags /\ d.tags[i].tag = "FDT_BEGIN_NODE"
           /\ Props(d, of, name) \in SUBSET Nat
           /\ Props(d, of, name) = {k \in DOMAIN d.tags : IsOwn(d, i, k, name)}
<1>1. i \in Nodes(d, of) /\ i \in DOMAIN d.tags /\ d.tags[i].tag = "FDT_BEGIN_NODE"
  BY NodesAre, FirstExists
<1>2. Props(d, of, name) = {k \in DOMAIN d.tags : IsPropOf(d.tags, i, k) /\ IsPrefix(name, d.tags[k].name)}
  BY DEF Props, PropsNamed
<1>3. ASSUME NEW k \in DOMAIN d.tags
      PROVE  IsPropOf(d.tags, i, k) /\ IsPrefix(name, d.tags[k].name) <=> IsOwn(d, i, k, name)
  <2>1. ASSUME IsPropOf(d.tags, i, k), IsPrefix(name, d.tags[k].name) PROVE IsOwn(d, i, k, name)
    <3>1. i < k /\ d.tags[k].tag = "FDT_PROP"
      BY <2>1 DEF IsPropOf
    <3>2. \A j \in DOMAIN d.tags : i < j /\ j < k => IsContent(d.tags[j])
      BY <1>1, <2>1, OwnIsContent
    <3>3. QED
      BY <2>1, <3>1, <3>2 DEF IsOwn, IsProp
  <2>2. ASSUME IsOwn(d, i, k, name) PROVE IsPropOf(d.tags, i, k) /\ IsPrefix(name, d.tags[k].name)
    BY <1>1, <2>2, ContentIsOwn DEF IsOwn, IsProp
  <2>3. QED
    BY <2>1, <2>2
<1>4. Props(d, of, name) = {k \in DOMAIN d.tags : IsOwn(d, i, k, name)}
  BY <1>2, <1>3
<1>5. QED
  BY <1>1, <1>4, TagFacts

-----------------------------------------------------------------------------
(* The loops of fdt.c, a tag at a time.                                        *)

LEMMA RootPassed ==
    ASSUME IsBootData(data), NEW name
    PROVE  /\ NodePassed(data, name, fdt_get_root_node)
           /\ Cursor(data, fdt_get_root_node) /\ DumpDepth(data, fdt_get_root_node) = 0
<1>1. CASE data.kind # "fdt"
  BY <1>1 DEF fdt_get_root_node, is_using_fdt, NodePassed, Nodes, Cursor, DumpDepth
<1>2. CASE data.kind = "fdt"
  <2>1. Structure(data) /\ fdt_get_root_node = 0
    BY <1>2 DEF Structure, fdt_get_root_node, is_using_fdt
  <2>2. DOMAIN data.tags = 1..Len(data.tags) /\ Len(data.tags) \in Nat \ {0}
    BY <1>2 DEF IsBootData, IsStructure
  <2>3. 1 \in DOMAIN data.tags /\ \A i \in DOMAIN data.tags : 1 <= i
    BY <2>2
  <2>4. data.start[1] = 0 /\ 0 # NULL
    BY <2>1, <2>3, StartFacts, DiscoveryAssumption
  <2>5. NodePassed(data, name, 0)
    BY <1>2, <2>1, <2>3, <2>4, NodesAre DEF NodePassed
  <2>6. (CHOOSE k \in DOMAIN data.tags : data.start[k] = 0) = 1
    BY <2>1, <2>3, <2>4, StartsApart
  <2>7. DumpDepth(data, 0) = 0
    BY <2>1, <2>3, <2>4, <2>6, NestingFacts DEF DumpDepth
  <2>8. Cursor(data, 0)
    BY <1>2, <2>3, <2>4 DEF Cursor
  <2>9. QED
    BY <2>1, <2>5, <2>7, <2>8
<1>3. QED
  BY <1>1, <1>2

LEMMA PassedCursor ==
    ASSUME NEW d, NEW name, NEW cur, NodePassed(d, name, cur) PROVE Cursor(d, cur)
  BY DEF NodePassed, Cursor

LEMMA FoundCursor ==
    ASSUME IsBootData(data), NEW name, NEW cur, NodeFound(data, name, cur)
    PROVE  Cursor(data, cur)
<1>1. CASE cur = NULL
  BY <1>1 DEF Cursor
<1>2. CASE cur # NULL
  <2>1. Nodes(data, name) # {} /\ cur = data.start[FirstOf(Nodes(data, name))]
    BY <1>2 DEF NodeFound
  <2>2. data.kind = "fdt"
    BY <2>1 DEF Nodes
  <2>3. Structure(data)
    BY <2>2 DEF Structure
  <2>4. FirstOf(Nodes(data, name)) \in DOMAIN data.tags
    BY <2>1, <2>3, NodesAre, FirstExists
  <2>5. QED
    BY <2>1, <2>2, <2>4 DEF Cursor
<1>3. QED
  BY <1>1, <1>2

(* One round of fdt_get_node.                                                  *)
LEMMA NodeRound ==
    ASSUME IsBootData(data), NEW name \in SearchedNames, NEW cur, NodePassed(data, name, cur)
    PROVE  /\ cur = NULL \/ IsNodeNamed(name, TagAt(cur)) => NodeFound(data, name, cur)
           /\ ~(cur = NULL \/ IsNodeNamed(name, TagAt(cur))) =>
                 NodePassed(data, name, NextTagOfNodes(cur))
<1>1. CASE cur = NULL
  BY <1>1 DEF NodePassed, NodeFound
<1>2. CASE cur # NULL
  <2>1. Structure(data)
    BY <1>2 DEF NodePassed, Structure
  <2>2. PICK k \in DOMAIN data.tags : cur = data.start[k] /\ \A i \in Nodes(data, name) : k <= i
    BY <1>2 DEF NodePassed
  <2>3. TagAt(cur) = data.tags[k]
    BY <2>1, <2>2, TagIs
  <2>4. IsNodeNamed(name, TagAt(cur)) <=> k \in Nodes(data, name)
    BY <2>1, <2>3, NodeNamed, NodesAre
  <2>5. Nodes(data, name) \in SUBSET Nat /\ Nodes(data, name) \subseteq DOMAIN data.tags
    BY <2>1, NodesAre
  <2>6. k \in Nat /\ DOMAIN data.tags = 1..Len(data.tags) /\ Len(data.tags) \in Nat /\ k <= Len(data.tags)
    BY <2>1, TagFacts
  <2>7. ASSUME IsNodeNamed(name, TagAt(cur)) PROVE NodeFound(data, name, cur)
    <3>1. FirstOf(Nodes(data, name)) = k
      BY <2>2, <2>4, <2>5, <2>7, FirstIs
    <3>2. QED
      BY <1>2, <2>2, <2>4, <2>7, <3>1 DEF NodeFound
  <2>8. ASSUME ~IsNodeNamed(name, TagAt(cur)) PROVE NodePassed(data, name, NextTagOfNodes(cur))
    <3>1. \A i \in Nodes(data, name) : k < i /\ i <= Len(data.tags)
      BY <2>2, <2>4, <2>5, <2>6, <2>8
    <3>2. CASE k = Len(data.tags)
      <4>1. fdt_get_next_tag(cur) = NULL
        BY <2>1, <2>2, <3>2, NextTag
      <4>2. Nodes(data, name) = {}
        BY <2>5, <2>6, <3>1, <3>2
      <4>3. QED
        BY <4>1, <4>2 DEF NextTagOfNodes, NodePassed
    <3>3. CASE k # Len(data.tags)
      <4>1. PICK n \in DOMAIN data.tags : n = k + 1
        BY <2>6, <3>3
      <4>2. fdt_get_next_tag(cur) = data.start[n]
        BY <2>1, <2>2, <3>3, <4>1, NextTag
      <4>3. TagAt(data.start[n]) = data.tags[n] /\ data.start[n] # NULL
        BY <2>1, TagIs
      <4>4. OnTag(data.start[n])
        BY <2>1 DEF OnTag, is_using_fdt, Structure
      <4>5. \A i \in Nodes(data, name) : n <= i
        BY <2>5, <2>6, <3>1, <4>1
      <4>6. CASE data.tags[n].tag = "FDT_END"
        <5>1. n = Len(data.tags)
          BY <2>1, <4>6, TagFacts
        <5>2. n \notin Nodes(data, name)
          BY <2>1, <4>6, NodesAre
        <5>3. Nodes(data, name) = {}
          BY <2>5, <2>6, <3>1, <4>1, <4>5, <5>1, <5>2
        <5>4. NextTagOfNodes(cur) = NULL
          BY <4>2, <4>3, <4>4, <4>6 DEF NextTagOfNodes
        <5>5. QED
          BY <5>3, <5>4 DEF NodePassed
      <4>7. CASE data.tags[n].tag # "FDT_END"
        <5>1. NextTagOfNodes(cur) = data.start[n]
          BY <4>2, <4>3, <4>7 DEF NextTagOfNodes
        <5>2. QED
          BY <2>1, <4>3, <4>5, <5>1 DEF NodePassed, Structure
      <4>8. QED
        BY <4>6, <4>7
    <3>4. QED
      BY <3>2, <3>3
  <2>9. QED
    BY <1>2, <2>7, <2>8
<1>3. QED
  BY <1>1, <1>2

(* A search of properties starts behind the node it is given.                  *)
LEMMA PropStart ==
    ASSUME IsBootData(data), NEW of, NEW name, NEW n, n # NULL, NodeFound(data, of, n)
    PROVE  /\ Nodes(data, of) # {} /\ Structure(data)
           /\ PropPassed(data, of, name, fdt_get_next_tag(n))
<1>1. Nodes(data, of) # {} /\ n = data.start[FirstOf(Nodes(data, of))]
  BY DEF NodeFound
<1>2. Structure(data)
  BY <1>1 DEF Nodes, Structure
<1>3. PICK i \in DOMAIN data.tags : i = FirstOf(Nodes(data, of)) /\ data.tags[i].tag = "FDT_BEGIN_NODE"
  BY <1>1, <1>2, PropsAre
<1>4. i # Len(data.tags) /\ i \in Nat
  BY <1>2, <1>3, TagFacts
<1>5. PICK k \in DOMAIN data.tags : k = i + 1
  BY <1>2, <1>4, StartFacts
<1>6. fdt_get_next_tag(n) = data.start[k]
  BY <1>1, <1>2, <1>3, <1>4, <1>5, NextTag
<1>7. FirstOf(Nodes(data, of)) < k
  BY <1>3, <1>4, <1>5
<1>8. \A j \in FirstOf(Nodes(data, of)) + 1..k - 1 :
          IsContent(data.tags[j]) /\ ~IsProp(data.tags[j], name)
  BY <1>3, <1>4, <1>5
<1>9. data.start[k] # NULL
  BY <1>2, TagIs
<1>10. PropPassed(data, of, name, data.start[k])
  BY <1>7, <1>8, <1>9 DEF PropPassed
<1>11. QED
  BY <1>1, <1>2, <1>6, <1>10

(* One round of fdt_get_property.                                              *)
LEMMA PropRound ==
    ASSUME Structure(data), NEW of, NEW name, Nodes(data, of) # {},
           NEW cur, PropPassed(data, of, name, cur)
    PROVE  /\ Cursor(data, cur)
           /\ cur = NULL \/ EndsProperties(TagAt(cur)) => Props(data, of, name) = {}
           /\ /\ cur # NULL /\ ~EndsProperties(TagAt(cur))
              /\ TagAt(cur).tag = "FDT_PROP" /\ strcmp_is_0(name, TagAt(cur).name)
              => PropFound(data, of, name, cur)
           /\ /\ cur # NULL /\ ~EndsProperties(TagAt(cur))
              /\ ~(TagAt(cur).tag = "FDT_PROP" /\ strcmp_is_0(name, TagAt(cur).name))
              => PropPassed(data, of, name, fdt_get_next_tag(cur))
<1>1. CASE cur = NULL
  BY <1>1 DEF PropPassed, Cursor
<1>2. CASE cur # NULL
  <2>1. PICK i : i = FirstOf(Nodes(data, of))
    OBVIOUS
  <2>2. PICK k \in DOMAIN data.tags :
            /\ cur = data.start[k] /\ i < k
            /\ \A j \in i + 1..k - 1 : IsContent(data.tags[j]) /\ ~IsProp(data.tags[j], name)
    BY <1>2, <2>1 DEF PropPassed
  <2>3. TagAt(cur) = data.tags[k]
    BY <2>2, TagIs
  <2>4. i \in DOMAIN data.tags /\ Props(data, of, name) = {j \in DOMAIN data.tags : IsOwn(data, i, j, name)}
        /\ Props(data, of, name) \in SUBSET Nat
    BY <2>1, PropsAre
  <2>5. i \in Nat /\ k \in Nat /\ DOMAIN data.tags = 1..Len(data.tags) /\ Len(data.tags) \in Nat
        /\ k <= Len(data.tags) /\ i >= 1
    BY <2>4, TagFacts
  <2>6. \A j \in DOMAIN data.tags : i < j /\ j < k => IsContent(data.tags[j]) /\ ~IsProp(data.tags[j], name)
    BY <2>2, <2>5
  <2>7. \A j \in Props(data, of, name) : k <= j
    <3>1. SUFFICES ASSUME NEW j \in Props(data, of, name), j < k PROVE FALSE
      BY <2>4, <2>5
    <3>2. j \in DOMAIN data.tags /\ i < j /\ IsProp(data.tags[j], name)
      BY <2>4, <3>1 DEF IsOwn
    <3>3. QED
      BY <2>6, <3>1, <3>2
  <2>8. Cursor(data, cur)
    BY <2>2 DEF Cursor, Structure
  <2>9. ASSUME EndsProperties(TagAt(cur)) PROVE Props(data, of, name) = {}
    <3>1. ~IsContent(data.tags[k])
      BY <2>3, <2>9 DEF EndsProperties, IsContent
    <3>2. SUFFICES ASSUME NEW j \in Props(data, of, name) PROVE FALSE
      OBVIOUS
    <3>3. IsOwn(data, i, j, name) /\ k <= j /\ j \in Nat
      BY <2>4, <2>7
    <3>4. j # k
      BY <3>1, <3>3 DEF IsOwn, IsProp, IsContent
    <3>5. i < k /\ k < j
      BY <2>2, <2>5, <3>3, <3>4
    <3>6. QED
      BY <3>1, <3>3, <3>5 DEF IsOwn
  <2>10. strcmp_is_0(name, TagAt(cur).name) <=> IsPrefix(name, data.tags[k].name)
    BY <2>3 DEF strcmp_is_0
  <2>11. ASSUME IsProp(data.tags[k], name) PROVE PropFound(data, of, name, cur)
    <3>1. IsOwn(data, i, k, name)
      BY <2>2, <2>6, <2>11 DEF IsOwn
    <3>2. k \in Props(data, of, name)
      BY <2>4, <3>1
    <3>3. FirstOf(Props(data, of, name)) = k
      BY <2>4, <2>7, <3>2, FirstIs
    <3>4. QED
      BY <1>2, <2>2, <3>2, <3>3 DEF PropFound
  <2>12. ASSUME ~EndsProperties(TagAt(cur)), ~IsProp(data.tags[k], name)
         PROVE  PropPassed(data, of, name, fdt_get_next_tag(cur))
    <3>1. CASE k = Len(data.tags)
      <4>1. fdt_get_next_tag(cur) = NULL
        BY <2>2, <3>1, NextTag
      <4>2. SUFFICES ASSUME NEW j \in Props(data, of, name) PROVE FALSE
        BY <4>1 DEF PropPassed
      <4>3. j = k
        BY <2>4, <2>5, <2>7, <3>1
      <4>4. QED
        BY <2>4, <2>12, <4>3 DEF IsOwn
    <3>2. CASE k # Len(data.tags)
      <4>1. PICK m \in DOMAIN data.tags : m = k + 1
        BY <2>5, <3>2
      <4>2. fdt_get_next_tag(cur) = data.start[m]
        BY <2>2, <3>2, <4>1, NextTag
      <4>3. data.tags[k] \in Tags /\ data.tags[k].tag # "FDT_END"
        BY <3>2, TagFacts
      <4>4. IsContent(data.tags[k])
        BY <2>3, <2>12, <4>3 DEF Tags, EndsProperties, IsContent
      <4>5. \A j \in i + 1..m - 1 : IsContent(data.tags[j]) /\ ~IsProp(data.tags[j], name)
        <5>1. TAKE j \in i + 1..m - 1
        <5>2. CASE j = k
          BY <2>12, <4>4, <5>2
        <5>3. CASE j # k
          BY <2>2, <2>5, <4>1, <5>3
        <5>4. QED
          BY <5>2, <5>3
      <4>6. i < m
        BY <2>2, <2>5, <4>1
      <4>7. data.start[m] # NULL
        BY TagIs
      <4>8. PropPassed(data, of, name, data.start[m])
        BY <2>1, <4>5, <4>6, <4>7 DEF PropPassed
      <4>9. QED
        BY <4>2, <4>8
    <3>3. QED
      BY <3>1, <3>2
  <2>13. IsProp(data.tags[k], name) <=>
             TagAt(cur).tag = "FDT_PROP" /\ strcmp_is_0(name, TagAt(cur).name)
    BY <2>3, <2>10 DEF IsProp
  <2>14. QED
    BY <1>2, <2>8, <2>9, <2>11, <2>12, <2>13
<1>3. QED
  BY <1>1, <1>2

(* One round of dump_fdt.                                                      *)
LEMMA DumpRound ==
    ASSUME NEW cur, cur # NULL, Cursor(data, cur), IsBootData(data)
    PROVE  /\ Cursor(data, fdt_get_next_tag(cur))
           /\ DumpDepth(data, cur) \in Int
           /\ DumpDepth(data, fdt_get_next_tag(cur)) = DumpDepth(data, cur) + Opens(TagAt(cur))
<1>1. Structure(data)
  BY DEF Cursor, Structure
<1>2. PICK k \in DOMAIN data.tags : cur = data.start[k]
  BY DEF Cursor
<1>3. TagAt(cur) = data.tags[k]
  BY <1>1, <1>2, TagIs
<1>4. \A j \in DOMAIN data.tags : DumpDepth(data, data.start[j]) = Nesting(data.tags, j)
  <2>1. TAKE j \in DOMAIN data.tags
  <2>2. (CHOOSE m \in DOMAIN data.tags : data.start[m] = data.start[j]) = j
    BY <1>1, StartsApart
  <2>3. data.start[j] # NULL
    BY <1>1, TagIs
  <2>4. QED
    BY <2>2, <2>3 DEF DumpDepth
<1>5. Nesting(data.tags, k) \in Int
  BY <1>1, NestingFacts
<1>6. CASE k = Len(data.tags)
  <2>1. fdt_get_next_tag(cur) = NULL
    BY <1>1, <1>2, <1>6, NextTag
  <2>2. data.tags[k].tag = "FDT_END" /\ Nesting(data.tags, k) = 0
    BY <1>1, <1>6 DEF Structure, IsBootData, IsStructure
  <2>3. DumpDepth(data, cur) = 0 /\ Opens(TagAt(cur)) = 0
    BY <1>2, <1>3, <1>4, <2>2 DEF Opens
  <2>4. DumpDepth(data, NULL) = 0 /\ Cursor(data, NULL)
    BY DEF DumpDepth, Cursor
  <2>5. QED
    BY <2>1, <2>3, <2>4
<1>7. CASE k # Len(data.tags)
  <2>1. PICK m \in DOMAIN data.tags : m = k + 1
    BY <1>1, <1>7, StartFacts
  <2>2. fdt_get_next_tag(cur) = data.start[m]
    BY <1>1, <1>2, <1>7, <2>1, NextTag
  <2>3. Nesting(data.tags, m) = Nesting(data.tags, k) + Opens(data.tags[k])
    BY <1>1, <1>7, <2>1, NestingFacts
  <2>4. Cursor(data, data.start[m])
    BY <1>1 DEF Cursor, Structure
  <2>5. QED
    BY <1>2, <1>3, <1>4, <1>5, <2>2, <2>3, <2>4
<1>8. QED
  BY <1>6, <1>7

-----------------------------------------------------------------------------
(* Memory from a list of tags.                                                 *)

LEMMA WrapWhole ==
    ASSUME NEW z \in Nat
    PROVE  Wrap(z + AddrValues) = Wrap(z)
<1>1. AddrValues \in Nat \ {0}
  BY WrapIsCell
<1>2. PICK q, r : Divides(AddrValues, z, q, r)
  BY <1>1, Quotient
<1>3. q \in Nat /\ r \in 0..(AddrValues - 1) /\ z = q * AddrValues + r /\ r = z % AddrValues
  BY <1>2 DEF Divides
<1>4. PICK p \in Nat : p = q + 1
  BY <1>3
<1>5. z + AddrValues = p * AddrValues + r
  BY <1>1, <1>3, <1>4
<1>6. (p * AddrValues + r) % AddrValues = r
  BY <1>1, <1>3, <1>4, QuotientOf
<1>7. QED
  BY <1>3, <1>5, <1>6 DEF Wrap

LEMMA WrapSmall == ASSUME NEW z \in Cells PROVE Wrap(z) = z
  BY WrapIsCell DEF Wrap, Cells

LEMMA WrapSum ==
    ASSUME NEW b \in Cells, NEW s \in Cells, NEW i \in Nat
    PROVE  Wrap(Wrap(b + s) + i) = Wrap(b + s + i)
<1>1. AddrValues \in Nat \ {0} /\ b \in Nat /\ s \in Nat /\ b < AddrValues /\ s < AddrValues
  BY WrapIsCell DEF Cells
<1>2. CASE b + s < AddrValues
  <2>1. b + s \in Cells
    BY <1>1, <1>2 DEF Cells
  <2>2. QED
    BY <2>1, WrapSmall
<1>3. CASE b + s >= AddrValues
  <2>1. PICK t \in Cells : t = b + s - AddrValues
    BY <1>1, <1>3 DEF Cells
  <2>2. t \in Nat /\ b + s = t + AddrValues
    BY <1>1, <2>1 DEF Cells
  <2>3. Wrap(b + s) = t
    BY <2>1, <2>2, WrapWhole, WrapSmall
  <2>4. b + s + i = (t + i) + AddrValues /\ t + i \in Nat
    BY <1>1, <2>2
  <2>5. QED
    BY <2>3, <2>4, WrapWhole
<1>4. QED
  BY <1>1, <1>2, <1>3

LEMMA AddressOf ==
    ASSUME NEW b \in Cells, NEW a \in Cells
    PROVE  \E i \in Cells : a = Wrap(b + i)
<1>1. AddrValues \in Nat \ {0} /\ b \in Nat /\ a \in Nat /\ b < AddrValues /\ a < AddrValues
  BY WrapIsCell DEF Cells
<1>2. CASE b <= a
  <2>1. PICK i \in Cells : i = a - b
    BY <1>1, <1>2 DEF Cells
  <2>2. b + i = a
    BY <1>1, <2>1
  <2>3. QED
    BY <2>2, WrapSmall
<1>3. CASE a < b
  <2>1. PICK i \in Cells : i = a - b + AddrValues
    BY <1>1, <1>3 DEF Cells
  <2>2. b + i = a + AddrValues
    BY <1>1, <2>1
  <2>3. QED
    BY <1>1, <2>2, WrapSmall, WrapWhole
<1>4. QED
  BY <1>1, <1>2, <1>3

LEMMA InRegion ==
    ASSUME NEW b \in Cells, NEW s \in Nat, NEW a
    PROVE  a \in Addresses(Region(b, s)) <=> \E i \in Nat : i < s /\ a = Wrap(b + i)
  BY DEF Addresses, Region

(* A region and the one behind it: together they are one region, or all there  *)
(* is.                                                                         *)
LEMMA JoinedAddresses ==
    ASSUME NEW b \in Cells, NEW s \in Cells, NEW n \in Cells, NEW t \in Cells, Wrap(b + s) = n
    PROVE  /\ s + t < AddrValues =>
                 Addresses(Region(b, s + t)) \subseteq Addresses(Region(b, s)) \union Addresses(Region(n, t))
           /\ s + t >= AddrValues =>
                 Cells \subseteq Addresses(Region(b, s)) \union Addresses(Region(n, t))
<1>1. /\ AddrValues \in Nat \ {0} /\ b \in Nat /\ s \in Nat /\ n \in Nat /\ t \in Nat
      /\ s < AddrValues /\ t < AddrValues
  BY WrapIsCell DEF Cells
<1>2. ASSUME NEW i \in Nat, i < s + t
      PROVE  Wrap(b + i) \in Addresses(Region(b, s)) \union Addresses(Region(n, t))
  <2>1. CASE i < s
    BY <1>1, <2>1, InRegion
  <2>2. CASE i >= s
    <3>1. PICK j \in Nat : j = i - s /\ j < t
      BY <1>1, <1>2, <2>2
    <3>2. b + s + j = b + i
      BY <1>1, <3>1
    <3>3. Wrap(n + j) = Wrap(b + i)
      BY <3>2, WrapSum
    <3>4. Wrap(n + j) \in Addresses(Region(n, t))
      BY <1>1, <3>1, InRegion
    <3>5. QED
      BY <3>3, <3>4
  <2>3. QED
    BY <1>1, <2>1, <2>2
<1>3. ASSUME NEW a \in Addresses(Region(b, s + t))
      PROVE  a \in Addresses(Region(b, s)) \union Addresses(Region(n, t))
  <2>1. s + t \in Nat
    BY <1>1
  <2>2. PICK i \in Nat : i < s + t /\ a = Wrap(b + i)
    BY <2>1, InRegion
  <2>3. QED
    BY <1>2, <2>2
<1>4. ASSUME NEW a \in Cells, s + t >= AddrValues
      PROVE  a \in Addresses(Region(b, s)) \union Addresses(Region(n, t))
  <2>1. PICK i \in Cells : a = Wrap(b + i)
    BY AddressOf
  <2>2. i \in Nat /\ i < s + t
    BY <1>1, <1>4 DEF Cells
  <2>3. QED
    BY <1>2, <2>1, <2>2
<1>5. QED
  BY <1>3, <1>4

TagList(d) == d.kind = "atag" /\ IsBootData(d)

LEMMA ListFacts ==
    ASSUME NEW d, TagList(d)
    PROVE  /\ Len(d.tags) \in Nat \ {0} /\ DOMAIN d.tags = 1..Len(d.tags)
           /\ d.tags[1].tag # "ATAG_MEM" /\ ListedMemory(d.tags) \subseteq DOMAIN d.tags
           /\ ListedMemory(d.tags) \subseteq Nat
           /\ \A k \in DOMAIN d.tags : d.tags[k].start \in Cells /\ d.tags[k].sz \in Cells
<1>1. d.tags \in Seq(ATags) /\ d.tags # <<>> /\ d.tags[1] = Core
  BY DEF TagList, IsBootData, IsAtagList
<1>2. Len(d.tags) \in Nat \ {0} /\ DOMAIN d.tags = 1..Len(d.tags)
  BY <1>1
<1>3. \A k \in DOMAIN d.tags : d.tags[k].start \in Cells /\ d.tags[k].sz \in Cells
  <2>1. ASSUME NEW k \in DOMAIN d.tags PROVE d.tags[k] \in ATags
    BY <1>1, <1>2, <2>1
  <2>2. QED
    BY <2>1 DEF ATags
<1>4. d.tags[1].tag # "ATAG_MEM"
  BY <1>1 DEF Core, ATag
<1>5. ListedMemory(d.tags) \subseteq DOMAIN d.tags
  BY DEF ListedMemory
<1>6. ListedMemory(d.tags) \subseteq Nat
  BY <1>2, <1>5
<1>7. QED
  BY <1>2, <1>3, <1>4, <1>5, <1>6

(* What Joined makes of the best memory so far and the next tag.               *)
LEMMA JoinBest ==
    ASSUME NEW d, TagList(d), NEW k \in ListedMemory(d.tags), NEW r \in Regions, IsBest(d, r, k),
           NEW next, next = Region(d.tags[k].start, d.tags[k].sz)
    PROVE  Joined(r, next) \in Regions /\ IsBest(d, Joined(r, next), k + 1)
<1> DEFINE Best(n) == UNION {MemoryAt(d.tags, j) : j \in Before(d, n)}
<1>1. k \in DOMAIN d.tags /\ k \in Nat /\ ListedMemory(d.tags) \subseteq Nat
  <2>1. ListedMemory(d.tags) \subseteq DOMAIN d.tags /\ ListedMemory(d.tags) \subseteq Nat
    BY ListFacts
  <2>2. QED
    BY <2>1
<1>2. /\ next.base \in Cells /\ next.size \in Cells /\ next = Region(next.base, next.size)
      /\ next.size = d.tags[k].sz /\ MemoryAt(d.tags, k) = Addresses(next)
  BY <1>1, ListFacts DEF Region, MemoryAt
<1>3. r.base \in Cells /\ r.size \in Cells /\ r = Region(r.base, r.size)
  BY DEF Regions, Region
<1>4. Before(d, k + 1) = Before(d, k) \union {k}
  BY <1>1 DEF Before
<1>5. Best(k + 1) = Best(k) \union Addresses(next)
  BY <1>2, <1>4
<1>6. Addresses(r) \subseteq Best(k) /\ \A j \in Before(d, k) : d.tags[j].sz <= r.size
  BY DEF IsBest
<1>7. \A j \in Before(d, k) : d.tags[j].sz \in Cells
  BY ListFacts DEF Before
<1>8. AddrValues \in Nat \ {0} /\ Cells \subseteq Nat /\ \A c \in Cells : c < AddrValues
  BY WrapIsCell DEF Cells
<1>size. r.size \in Nat /\ next.size \in Nat /\ \A j \in Before(d, k) : d.tags[j].sz \in Nat
  BY <1>2, <1>3, <1>7, <1>8
<1>9. Best(k + 1) \subseteq UNION {MemoryAt(d.tags, j) : j \in ListedMemory(d.tags)}
  BY DEF Before
<1> HIDE DEF Best
<1>10. CASE Wrap(r.base + r.size) = next.base
  <2>1. r.size + next.size < AddrValues
    <3>1. SUFFICES ASSUME r.size + next.size >= AddrValues PROVE FALSE
      BY <1>8, <1>size
    <3>2. Cells \subseteq Addresses(r) \union Addresses(next)
      BY <1>2, <1>3, <1>10, <3>1, JoinedAddresses
    <3>3. Cells \subseteq UNION {MemoryAt(d.tags, j) : j \in ListedMemory(d.tags)}
      BY <1>5, <1>6, <1>9, <3>2
    <3>4. PICK a \in Cells : \A j \in ListedMemory(d.tags) : a \notin MemoryAt(d.tags, j)
      BY DEF TagList, IsBootData, IsAtagList
    <3>5. QED
      BY <3>3, <3>4
  <2>2. r.size + next.size \in Cells
    BY <1>2, <1>3, <1>8, <2>1 DEF Cells
  <2>3. Joined(r, next) = Region(r.base, r.size + next.size)
    BY <1>10, <2>2, WrapSmall DEF Joined
  <2>4. Addresses(Joined(r, next)) \subseteq Best(k + 1)
    BY <1>2, <1>3, <1>5, <1>6, <1>10, <2>1, <2>3, JoinedAddresses
  <2>5. Joined(r, next).size = r.size + next.size /\ Joined(r, next) \in Regions
    BY <1>3, <2>2, <2>3 DEF Region, Regions
  <2>6. \A j \in Before(d, k + 1) : d.tags[j].sz <= Joined(r, next).size
    <3>1. r.size <= Joined(r, next).size /\ next.size <= Joined(r, next).size
      BY <1>size, <2>5
    <3>2. r.size + next.size \in Nat
      BY <1>size
    <3>3. ASSUME NEW j \in Before(d, k) PROVE d.tags[j].sz <= Joined(r, next).size
      <4>1. d.tags[j].sz <= r.size /\ d.tags[j].sz \in Nat
        BY <1>6, <1>size
      <4>2. QED
        BY <1>size, <2>5, <3>1, <3>2, <4>1
    <3>4. QED
      BY <1>2, <1>4, <3>1, <3>3
  <2>7. QED
    BY <2>4, <2>5, <2>6 DEF IsBest, Best
<1>11. CASE Wrap(r.base + r.size) # next.base
  <2>1. CASE r.size < next.size
    <3>1. Joined(r, next) = next
      BY <1>11, <2>1 DEF Joined
    <3>2. next \in Regions
      BY <1>2 DEF Regions, Region
    <3>3. \A j \in Before(d, k + 1) : d.tags[j].sz <= next.size
      <4>1. ASSUME NEW j \in Before(d, k) PROVE d.tags[j].sz <= next.size
        BY <1>6, <1>size, <2>1
      <4>2. d.tags[k].sz <= next.size
        BY <1>2, <1>size
      <4>3. QED
        BY <1>4, <4>1, <4>2
    <3>4. QED
      BY <1>5, <3>1, <3>2, <3>3 DEF IsBest, Best
  <2>2. CASE ~(r.size < next.size)
    <3>1. Joined(r, next) = r
      BY <1>11, <2>2 DEF Joined
    <3>2. \A j \in Before(d, k + 1) : d.tags[j].sz <= r.size
      <4>1. d.tags[k].sz <= r.size
        BY <1>2, <1>size, <2>2
      <4>2. QED
        BY <1>4, <1>6, <4>1
    <3>3. QED
      BY <1>5, <1>6, <3>1, <3>2 DEF IsBest, Best
  <2>3. QED
    BY <2>1, <2>2
<1>12. QED
  BY <1>10, <1>11

LEMMA FirstBest ==
    ASSUME NEW d, TagList(d), NEW k \in ListedMemory(d.tags), \A j \in ListedMemory(d.tags) : k <= j,
           NEW r, r = Region(d.tags[k].start, d.tags[k].sz)
    PROVE  r \in Regions /\ IsBest(d, r, k + 1)
<1>1. k \in Nat /\ ListedMemory(d.tags) \subseteq Nat /\ k \in DOMAIN d.tags
  BY ListFacts
<1>2. Before(d, k + 1) = {k}
  BY <1>1 DEF Before
<1>3. d.tags[k].start \in Cells /\ d.tags[k].sz \in Cells /\ r.size = d.tags[k].sz
  BY <1>1, ListFacts DEF Region
<1>4. MemoryAt(d.tags, k) = Addresses(r)
  BY DEF MemoryAt
<1>5. r \in Regions /\ d.tags[k].sz <= r.size
  BY <1>3, WrapIsCell DEF Regions, Region, Cells
<1>6. QED
  BY <1>2, <1>4, <1>5 DEF IsBest

(* A tag that is not for memory changes nothing.                               *)
LEMMA BestPasses ==
    ASSUME NEW d, TagList(d), NEW r, NEW k \in Nat, NEW n \in Nat, k <= n,
           \A j \in ListedMemory(d.tags) : ~(k <= j /\ j < n)
    PROVE  IsBest(d, r, k) <=> IsBest(d, r, n)
<1>1. ListedMemory(d.tags) \subseteq Nat
  BY ListFacts
<1>2. Before(d, k) = Before(d, n)
  BY <1>1 DEF Before
<1>3. QED
  BY <1>2 DEF IsBest

-----------------------------------------------------------------------------
(* The steps of the library.                                                   *)

Inv == data \in Provided /\ DiscoveryInvariant

LEMMA Given == ASSUME data \in Provided PROVE IsBootData(data)
  BY BootDataAssumption

LEMMA CursorType ==
    ASSUME IsBootData(data), NEW cur, Cursor(data, cur)
    PROVE  cur \in Nat \union {NULL}
<1>1. CASE cur = NULL
  BY <1>1
<1>2. CASE cur # NULL
  <2>1. Structure(data)
    BY <1>2 DEF Cursor, Structure
  <2>2. QED
    BY <1>2, <2>1, StartFacts DEF Cursor
<1>3. QED
  BY <1>1, <1>2

\* What the library leaves alone.
LEMMA CallersKept ==
    ASSUME UNCHANGED callerVars
    PROVE  /\ data' = data /\ at' = at /\ node' = node /\ s_prop' = s_prop /\ fnd' = fnd
           /\ init_reg' = init_reg /\ initrd_reg' = initrd_reg /\ kern_reg' = kern_reg
           /\ mem_err' = mem_err /\ initrd_err' = initrd_err
  BY DEF callerVars, results

LEMMA KernelMemoryKept ==
    ASSUME data' = data, kern_reg' = kern_reg, mem_err' = mem_err
    PROVE  KernelMemory' <=> KernelMemory
  BY DEF KernelMemory

(* A step of the library changes the search, and keeps the types when it keeps *)
(* the form of the search.                                                     *)
LEMMA LibraryKeepsTypes ==
    ASSUME Inv, UNCHANGED callerVars, depth' \in Int,
           walk' = [op |-> walk'.op, arg |-> walk'.arg, cur |-> walk'.cur],
           walk'.op \in {walk.op, "returned"}, walk'.cur \in Nat \union {NULL}
    PROVE  data' \in Provided /\ TypeOK' /\ Cursor(data, node)' /\ Cursor(data, s_prop)'
<1>1. /\ data' = data /\ node' = node /\ s_prop' = s_prop /\ fnd' = fnd
      /\ init_reg' = init_reg /\ initrd_reg' = initrd_reg /\ kern_reg' = kern_reg
      /\ mem_err' = mem_err /\ initrd_err' = initrd_err
  BY CallersKept
<1>2. TypeOK /\ Cursor(data, node) /\ Cursor(data, s_prop) /\ data \in Provided
  BY DEF Inv, DiscoveryInvariant
<1>3. TypeOK'
  BY <1>1, <1>2 DEF TypeOK
<1>4. QED
  BY <1>1, <1>2, <1>3

LEMMA NodeSearchGoes ==
    ASSUME Inv, NodeTag, NEW CONSTANT place, NEW CONSTANT name \in SearchedNames,
           NodeSearch(place, name)
    PROVE  /\ NodeSearch(place, name)' /\ walk'.cur \in Nat \union {NULL}
           /\ walk' = [op |-> walk'.op, arg |-> walk'.arg, cur |-> walk'.cur]
           /\ walk'.op \in {walk.op, "returned"}
<1>1. IsBootData(data) /\ walk = [op |-> walk.op, arg |-> walk.arg, cur |-> walk.cur]
  BY Given DEF Inv, DiscoveryInvariant, TypeOK
<1>2. at' = place /\ data' = data
  BY CallersKept DEF NodeTag, NodeSearch
<1>3. walk.op = "fdt_get_node" /\ walk.arg = name /\ NodePassed(data, name, walk.cur)
  BY DEF NodeTag, NodeSearch, Returned
<1>4. CASE walk.cur = NULL \/ IsNodeNamed(name, TagAt(walk.cur))
  <2>1. walk' = [op |-> "returned", arg |-> NULL, cur |-> walk.cur]
    BY <1>3, <1>4 DEF NodeTag, Return
  <2>2. NodeFound(data, name, walk.cur)
    BY <1>1, <1>3, <1>4, NodeRound
  <2>3. walk'.op = "returned" /\ walk'.cur = walk.cur /\ walk'.arg = NULL
    BY <2>1
  <2>4. walk'.cur \in Nat \union {NULL}
    BY <1>1, <1>3, <2>3, PassedCursor, CursorType
  <2>5. QED
    BY <1>2, <2>1, <2>2, <2>3, <2>4 DEF NodeSearch, Returned
<1>5. CASE ~(walk.cur = NULL \/ IsNodeNamed(name, TagAt(walk.cur)))
  <2>1. walk' = [walk EXCEPT !.cur = NextTagOfNodes(walk.cur)]
    BY <1>3, <1>5 DEF NodeTag, Advance
  <2>2. NodePassed(data, name, NextTagOfNodes(walk.cur))
    BY <1>1, <1>3, <1>5, NodeRound
  <2>3. walk'.op = walk.op /\ walk'.arg = walk.arg /\ walk'.cur = NextTagOfNodes(walk.cur)
    BY <1>1, <2>1
  <2>4. walk' = [op |-> walk'.op, arg |-> walk'.arg, cur |-> walk'.cur]
    BY <1>1, <2>1
  <2>5. walk'.cur \in Nat \union {NULL}
    BY <1>1, <2>2, <2>3, PassedCursor, CursorType
  <2>6. QED
    BY <1>2, <1>3, <2>2, <2>3, <2>4, <2>5 DEF NodeSearch
<1>6. QED
  BY <1>4, <1>5

(* Where nodes are searched for.                                               *)
LEMMA NodeStep ==
    ASSUME Inv, NodeTag
    PROVE  Inv'
<1>1. walk.op = "fdt_get_node" /\ UNCHANGED callerVars /\ depth' = depth
  BY DEF NodeTag
<1>2. /\ memory_at(kv_start) \in SearchedNames /\ memory_at(kp_start) \in SearchedNames
      /\ <<"memory">> \in SearchedNames /\ <<"chosen">> \in SearchedNames
  BY DEF SearchedNames
<1>3. /\ data' = data /\ at' = at /\ node' = node /\ kern_reg' = kern_reg /\ mem_err' = mem_err
  BY <1>1, CallersKept
<1>4. \/ /\ kern_reg = JunkReg
         /\ \/ NodeSearch(<<"init_get_mem_fdt", "exact">>, memory_at(kv_start))
            \/ NodeSearch(<<"init_get_mem_fdt", "memory">>, <<"memory">>)
            \/ NodeSearch(<<"mlay_get_phy_mem_reg", "exact">>, memory_at(kp_start))
            \/ NodeSearch(<<"mlay_get_phy_mem_reg", "memory">>, <<"memory">>)
      \/ KernelMemory /\ NodeSearch(<<"mlay_get_initrd_reg", "chosen">>, <<"chosen">>)
  <2>1. walk # Idle /\ ~Returned
    BY <1>1 DEF Idle, Returned
  <2>2. \A place, tag : ~TagSearch(place, tag)
    BY <1>1, <2>1 DEF TagSearch
  <2>3. \A place, of, name : ~PropSearch(place, of, name)
    BY <1>1, <2>1 DEF PropSearch
  <2>4. ~AtagSearch
    BY <2>2 DEF AtagSearch
  <2>5. ASSUME BootSearch
        PROVE  \/ NodeSearch(<<"init_get_mem_fdt", "exact">>, memory_at(kv_start))
               \/ NodeSearch(<<"init_get_mem_fdt", "memory">>, <<"memory">>)
    BY <1>1, <2>1, <2>2, <2>3, <2>4, <2>5 DEF BootSearch, MemSearch
  <2>6. ASSUME KernelSearch
        PROVE  \/ NodeSearch(<<"mlay_get_phy_mem_reg", "exact">>, memory_at(kp_start))
               \/ NodeSearch(<<"mlay_get_phy_mem_reg", "memory">>, <<"memory">>)
    BY <1>1, <2>1, <2>3, <2>6 DEF KernelSearch, MemSearch
  <2>7. InitrdSearch => NodeSearch(<<"mlay_get_initrd_reg", "chosen">>, <<"chosen">>)
    BY <2>3 DEF InitrdSearch
  <2>8. QED
    BY <2>1, <2>5, <2>6, <2>7 DEF Inv, DiscoveryInvariant, Situation
<1>5. ASSUME NEW CONSTANT place, NEW CONSTANT name \in SearchedNames, NodeSearch(place, name)
      PROVE  /\ NodeSearch(place, name)' /\ walk'.cur \in Nat \union {NULL}
             /\ walk' = [op |-> walk'.op, arg |-> walk'.arg, cur |-> walk'.cur]
             /\ walk'.op \in {walk.op, "returned"}
  BY <1>5, NodeSearchGoes
<1>6. /\ walk'.cur \in Nat \union {NULL}
      /\ walk' = [op |-> walk'.op, arg |-> walk'.arg, cur |-> walk'.cur]
      /\ walk'.op \in {walk.op, "returned"}
  BY <1>2, <1>4, <1>5
<1>7. Situation'
  <2>1. CASE /\ kern_reg = JunkReg
             /\ \/ NodeSearch(<<"init_get_mem_fdt", "exact">>, memory_at(kv_start))
                \/ NodeSearch(<<"init_get_mem_fdt", "memory">>, <<"memory">>)
    <3>1. MemSearch("init_get_mem_fdt", kv_start)'
      BY <1>2, <1>5, <2>1 DEF MemSearch
    <3>2. QED
      BY <1>3, <2>1, <3>1 DEF Situation, BootSearch
  <2>2. CASE /\ kern_reg = JunkReg
             /\ \/ NodeSearch(<<"mlay_get_phy_mem_reg", "exact">>, memory_at(kp_start))
                \/ NodeSearch(<<"mlay_get_phy_mem_reg", "memory">>, <<"memory">>)
    <3>1. MemSearch("mlay_get_phy_mem_reg", kp_start)'
      BY <1>2, <1>5, <2>2 DEF MemSearch
    <3>2. QED
      BY <1>3, <2>2, <3>1 DEF Situation, KernelSearch
  <2>3. CASE KernelMemory /\ NodeSearch(<<"mlay_get_initrd_reg", "chosen">>, <<"chosen">>)
    <3>1. InitrdSearch' /\ KernelMemory'
      BY <1>2, <1>3, <1>5, <2>3, KernelMemoryKept DEF InitrdSearch
    <3>2. QED
      BY <3>1 DEF Situation
  <2>4. QED
    BY <1>4, <2>1, <2>2, <2>3
<1>8. TypeOK /\ depth' \in Int
  BY <1>1 DEF Inv, DiscoveryInvariant, TypeOK
<1>9. QED
  BY <1>1, <1>6, <1>7, <1>8, LibraryKeepsTypes DEF Inv, DiscoveryInvariant

LEMMA FoundIsCursor ==
    ASSUME Structure(data), NEW of, NEW name, Nodes(data, of) # {},
           NEW cur, PropFound(data, of, name, cur)
    PROVE  Cursor(data, cur)
<1>1. CASE cur = NULL
  BY <1>1 DEF Cursor
<1>2. CASE cur # NULL
  <2>1. Props(data, of, name) # {} /\ cur = data.start[FirstOf(Props(data, of, name))]
    BY <1>2 DEF PropFound
  <2>2. Props(data, of, name) \in SUBSET Nat /\ Props(data, of, name) \subseteq DOMAIN data.tags
    BY PropsAre
  <2>3. FirstOf(Props(data, of, name)) \in DOMAIN data.tags
    BY <2>1, <2>2, FirstExists
  <2>4. QED
    BY <2>1, <2>3 DEF Cursor, Structure
<1>3. QED
  BY <1>1, <1>2

LEMMA PropSearchGoes ==
    ASSUME Inv, PropertyTag, NEW CONSTANT place, NEW CONSTANT of, NEW CONSTANT name,
           PropSearch(place, of, name)
    PROVE  /\ PropSearch(place, of, name)' /\ walk'.cur \in Nat \union {NULL}
           /\ walk' = [op |-> walk'.op, arg |-> walk'.arg, cur |-> walk'.cur]
           /\ walk'.op \in {walk.op, "returned"}
<1>1. IsBootData(data) /\ walk = [op |-> walk.op, arg |-> walk.arg, cur |-> walk.cur]
  BY Given DEF Inv, DiscoveryInvariant, TypeOK
<1>2. at' = place /\ data' = data /\ node' = node
  BY CallersKept DEF PropertyTag, PropSearch
<1>3. /\ walk.op = "fdt_get_property" /\ walk.arg = name /\ PropPassed(data, of, name, walk.cur)
      /\ Nodes(data, of) # {} /\ NodeFound(data, of, node) /\ node # NULL
  BY DEF PropertyTag, PropSearch, Returned
<1>4. Structure(data)
  BY <1>1, <1>3 DEF Structure, Nodes
<1>5. (Nodes(data, of) # {} /\ NodeFound(data, of, node) /\ node # NULL)'
  BY <1>2, <1>3
<1>6. ASSUME NEW result, walk' = [op |-> "returned", arg |-> NULL, cur |-> result],
             PropFound(data, of, name, result)
      PROVE  PropSearch(place, of, name)' /\ walk'.cur \in Nat \union {NULL}
             /\ walk' = [op |-> walk'.op, arg |-> walk'.arg, cur |-> walk'.cur]
             /\ walk'.op \in {walk.op, "returned"}
  <2>1. walk'.op = "returned" /\ walk'.cur = result
        /\ walk' = [op |-> walk'.op, arg |-> walk'.arg, cur |-> walk'.cur]
    BY <1>6
  <2>2. walk'.cur \in Nat \union {NULL}
    BY <1>1, <1>3, <1>4, <1>6, <2>1, FoundIsCursor, CursorType
  <2>3. PropFound(data, of, name, walk.cur)'
    BY <1>2, <1>6, <2>1
  <2>4. QED
    BY <1>2, <1>5, <2>1, <2>2, <2>3 DEF PropSearch, Returned
<1>7. CASE walk.cur = NULL \/ EndsProperties(TagAt(walk.cur))
  <2>1. walk' = [op |-> "returned", arg |-> NULL, cur |-> NULL]
    BY <1>3, <1>7 DEF PropertyTag, Return
  <2>2. PropFound(data, of, name, NULL)
    BY <1>3, <1>4, <1>7, PropRound DEF PropFound
  <2>3. QED
    BY <1>6, <2>1, <2>2
<1>8. CASE /\ walk.cur # NULL /\ ~EndsProperties(TagAt(walk.cur))
           /\ TagAt(walk.cur).tag = "FDT_PROP" /\ strcmp_is_0(name, TagAt(walk.cur).name)
  <2>1. walk' = [op |-> "returned", arg |-> NULL, cur |-> walk.cur]
    BY <1>3, <1>8 DEF PropertyTag, Return
  <2>2. PropFound(data, of, name, walk.cur)
    BY <1>3, <1>4, <1>8, PropRound
  <2>3. QED
    BY <1>6, <2>1, <2>2
<1>9. CASE /\ walk.cur # NULL /\ ~EndsProperties(TagAt(walk.cur))
           /\ ~(TagAt(walk.cur).tag = "FDT_PROP" /\ strcmp_is_0(name, TagAt(walk.cur).name))
  <2>1. walk' = [walk EXCEPT !.cur = fdt_get_next_tag(walk.cur)]
    BY <1>3, <1>9 DEF PropertyTag, Advance
  <2>2. PropPassed(data, of, name, fdt_get_next_tag(walk.cur))
    BY <1>3, <1>4, <1>9, PropRound
  <2>3. walk'.op = walk.op /\ walk'.arg = walk.arg /\ walk'.cur = fdt_get_next_tag(walk.cur)
    BY <1>1, <2>1
  <2>4. walk' = [op |-> walk'.op, arg |-> walk'.arg, cur |-> walk'.cur]
    BY <1>1, <2>1
  <2>5. walk'.cur \in Nat \union {NULL}
    BY <1>1, <1>3, <1>4, <2>2, <2>3, PropRound, CursorType
  <2>6. PropPassed(data, of, name, walk.cur)'
    BY <1>2, <2>2, <2>3
  <2>7. QED
    BY <1>2, <1>3, <1>5, <2>3, <2>4, <2>5, <2>6 DEF PropSearch
<1>10. QED
  BY <1>7, <1>8, <1>9

(* Where properties are searched for.                                          *)
LEMMA PropStep ==
    ASSUME Inv, PropertyTag
    PROVE  Inv'
<1>1. walk.op = "fdt_get_property" /\ UNCHANGED callerVars /\ depth' = depth
  BY DEF PropertyTag
<1>2. /\ data' = data /\ at' = at /\ node' = node /\ s_prop' = s_prop
      /\ kern_reg' = kern_reg /\ mem_err' = mem_err
  BY <1>1, CallersKept
<1>3. \/ kern_reg = JunkReg /\ PropSearch(<<"init_get_mem_fdt", "reg">>, <<"memory">>, <<"reg">>)
      \/ kern_reg = JunkReg /\ PropSearch(<<"mlay_get_phy_mem_reg", "reg">>, <<"memory">>, <<"reg">>)
      \/ KernelMemory /\ InitrdSearch
  <2>1. walk # Idle /\ ~Returned
    BY <1>1 DEF Idle, Returned
  <2>2. \A place, tag : ~TagSearch(place, tag)
    BY <1>1, <2>1 DEF TagSearch
  <2>3. \A place, name : ~NodeSearch(place, name)
    BY <1>1, <2>1 DEF NodeSearch
  <2>4. ~AtagSearch
    BY <2>2 DEF AtagSearch
  <2>5. BootSearch => PropSearch(<<"init_get_mem_fdt", "reg">>, <<"memory">>, <<"reg">>)
    BY <1>1, <2>1, <2>2, <2>3, <2>4 DEF BootSearch, MemSearch
  <2>6. KernelSearch => PropSearch(<<"mlay_get_phy_mem_reg", "reg">>, <<"memory">>, <<"reg">>)
    BY <1>1, <2>1, <2>3 DEF KernelSearch, MemSearch
  <2>7. QED
    BY <2>1, <2>5, <2>6 DEF Inv, DiscoveryInvariant, Situation
<1>4. ASSUME NEW CONSTANT place, NEW CONSTANT of, NEW CONSTANT name, PropSearch(place, of, name)
      PROVE  /\ PropSearch(place, of, name)' /\ walk'.cur \in Nat \union {NULL}
             /\ walk' = [op |-> walk'.op, arg |-> walk'.arg, cur |-> walk'.cur]
             /\ walk'.op \in {walk.op, "returned"}
  BY <1>4, PropSearchGoes
<1>5. InitrdSearch =>
          \/ PropSearch(<<"mlay_get_initrd_reg", "linux,initrd-start">>, <<"chosen">>,
                        <<"linux,", "initrd-start">>)
          \/ /\ PropSearch(<<"mlay_get_initrd_reg", "linux,initrd-end">>, <<"chosen">>,
                           <<"linux,", "initrd-end">>)
             /\ s_prop # NULL /\ PropFound(data, <<"chosen">>, <<"linux,", "initrd-start">>, s_prop)
          \/ /\ PropSearch(<<"mlay_get_initrd_reg", "initrd-start">>, <<"chosen">>, <<"initrd-start">>)
             /\ Props(data, <<"chosen">>, <<"linux,", "initrd-start">>) = {}
  <2>1. \A place, name : ~NodeSearch(place, name)
    BY <1>1 DEF NodeSearch, Returned
  <2>2. QED
    BY <2>1 DEF InitrdSearch
<1>6. /\ walk'.cur \in Nat \union {NULL}
      /\ walk' = [op |-> walk'.op, arg |-> walk'.arg, cur |-> walk'.cur]
      /\ walk'.op \in {walk.op, "returned"}
  BY <1>3, <1>4, <1>5
<1>7. Situation'
  <2>1. CASE kern_reg = JunkReg /\ PropSearch(<<"init_get_mem_fdt", "reg">>, <<"memory">>, <<"reg">>)
    <3>1. MemSearch("init_get_mem_fdt", kv_start)'
      BY <1>4, <2>1 DEF MemSearch
    <3>2. QED
      BY <1>2, <2>1, <3>1 DEF Situation, BootSearch
  <2>2. CASE kern_reg = JunkReg /\ PropSearch(<<"mlay_get_phy_mem_reg", "reg">>, <<"memory">>, <<"reg">>)
    <3>1. MemSearch("mlay_get_phy_mem_reg", kp_start)'
      BY <1>4, <2>2 DEF MemSearch
    <3>2. QED
      BY <1>2, <2>2, <3>1 DEF Situation, KernelSearch
  <2>3. CASE KernelMemory /\ InitrdSearch
    <3>1. InitrdSearch'
      BY <1>2, <1>4, <1>5, <2>3 DEF InitrdSearch
    <3>2. KernelMemory'
      BY <1>2, <2>3, KernelMemoryKept
    <3>3. QED
      BY <3>1, <3>2 DEF Situation
  <2>4. QED
    BY <1>3, <2>1, <2>2, <2>3
<1>8. TypeOK /\ depth' \in Int
  BY <1>1 DEF Inv, DiscoveryInvariant, TypeOK
<1>9. QED
  BY <1>1, <1>6, <1>7, <1>8, LibraryKeepsTypes DEF Inv, DiscoveryInvariant

(* One round of the loop of find_tag.                                          *)
LEMMA TagSearchGoes ==
    ASSUME Inv, FindTag, NEW CONSTANT place, NEW CONSTANT tag, TagSearch(place, tag)
    PROVE  /\ TagSearch(place, tag)' /\ walk'.cur \in Nat \union {NULL}
           /\ walk' = [op |-> walk'.op, arg |-> walk'.arg, cur |-> walk'.cur]
           /\ walk'.op \in {walk.op, "returned"}
           /\ walk.cur \in Nat \ {0} /\ walk.cur # NULL
           /\ \/ walk'.cur = NULL /\ (is_using_atag => walk.cur > Len(data.tags))
              \/ /\ is_using_atag /\ walk.cur \in DOMAIN data.tags
                 /\ data.tags[walk.cur].tag = tag /\ walk'.cur = walk.cur
              \/ /\ is_using_atag /\ walk.cur \in DOMAIN data.tags
                 /\ data.tags[walk.cur].tag # tag /\ walk'.cur = walk.cur + 1
<1>1. IsBootData(data) /\ walk = [op |-> walk.op, arg |-> walk.arg, cur |-> walk.cur]
  BY Given DEF Inv, DiscoveryInvariant, TypeOK
<1>2. at' = place /\ data' = data
  BY CallersKept DEF FindTag, TagSearch
<1>3. walk.op = "find_tag" /\ walk.arg = tag /\ walk.cur \in Nat \ {0}
  BY DEF FindTag, TagSearch, Returned
<1>4. walk.cur # NULL
  BY <1>3, DiscoveryAssumption
<1>5. CASE ~is_using_atag \/ walk.cur > Len(data.tags)
  <2>1. walk' = [op |-> "returned", arg |-> NULL, cur |-> NULL]
    BY <1>3, <1>5 DEF FindTag, Return
  <2>2. walk'.op = "returned" /\ walk'.cur = NULL /\ walk'.arg = NULL
    BY <2>1
  <2>3. walk' = [op |-> walk'.op, arg |-> walk'.arg, cur |-> walk'.cur]
    BY <2>1
  <2>4. TagSearch(place, tag)'
    BY <1>2, <2>2 DEF TagSearch, Returned
  <2>5. QED
    BY <1>3, <1>4, <1>5, <2>2, <2>3, <2>4
<1>6. CASE is_using_atag /\ ~(walk.cur > Len(data.tags))
  <2>1. walk.cur \in DOMAIN data.tags
    <3>1. TagList(data)
      BY <1>1, <1>6 DEF TagList, is_using_atag
    <3>2. Len(data.tags) \in Nat \ {0} /\ DOMAIN data.tags = 1..Len(data.tags)
      BY <3>1, ListFacts
    <3>3. QED
      BY <1>3, <1>6, <3>2
  <2>2. CASE data.tags[walk.cur].tag = tag
    <3>1. walk' = [op |-> "returned", arg |-> NULL, cur |-> walk.cur]
      BY <1>3, <1>6, <2>2 DEF FindTag, Return
    <3>2. walk'.op = "returned" /\ walk'.cur = walk.cur
          /\ walk' = [op |-> walk'.op, arg |-> walk'.arg, cur |-> walk'.cur]
      BY <3>1
    <3>3. is_using_atag'
      BY <1>2, <1>6 DEF is_using_atag
    <3>4. TagSearch(place, tag)'
      BY <1>2, <2>1, <2>2, <3>2, <3>3 DEF TagSearch, Returned
    <3>5. QED
      BY <1>3, <1>4, <1>6, <2>1, <2>2, <3>2, <3>4
  <2>3. CASE data.tags[walk.cur].tag # tag
    <3>1. walk' = [walk EXCEPT !.cur = walk.cur + 1]
      BY <1>3, <1>6, <2>3 DEF FindTag, Advance, next_tag
    <3>2. walk'.op = "find_tag" /\ walk'.arg = tag /\ walk'.cur = walk.cur + 1
          /\ walk' = [op |-> walk'.op, arg |-> walk'.arg, cur |-> walk'.cur]
      BY <1>1, <1>3, <3>1
    <3>3. walk'.cur \in Nat \ {0}
      BY <1>3, <3>2
    <3>4. TagSearch(place, tag)'
      BY <1>2, <3>2, <3>3 DEF TagSearch, Returned
    <3>5. QED
      BY <1>3, <1>4, <1>6, <2>1, <2>3, <3>2, <3>3, <3>4
  <2>4. QED
    BY <2>2, <2>3
<1>7. QED
  BY <1>5, <1>6

(* Where tags are searched for.                                                *)
LEMMA FindStep ==
    ASSUME Inv, FindTag
    PROVE  Inv'
<1>1. walk.op = "find_tag" /\ UNCHANGED callerVars /\ depth' = depth
  BY DEF FindTag
<1>2. data' = data /\ at' = at /\ kern_reg' = kern_reg /\ fnd' = fnd
  BY <1>1, CallersKept
<1>3. /\ kern_reg = JunkReg
      /\ \/ AtagSearch
         \/ TagSearch(<<"vexpress_init", "initrd">>, "ATAG_INITRD2")
         \/ TagSearch(<<"init_get_initrd_atag", "tag">>, "ATAG_INITRD2")
  <2>1. walk # Idle /\ ~Returned
    BY <1>1 DEF Idle, Returned
  <2>2. \A place, name : ~NodeSearch(place, name)
    BY <1>1, <2>1 DEF NodeSearch
  <2>3. \A place, of, name : ~PropSearch(place, of, name)
    BY <1>1, <2>1 DEF PropSearch
  <2>4. BootSearch => \/ AtagSearch
                      \/ TagSearch(<<"vexpress_init", "initrd">>, "ATAG_INITRD2")
                      \/ TagSearch(<<"init_get_initrd_atag", "tag">>, "ATAG_INITRD2")
    BY <1>1, <2>1, <2>2, <2>3 DEF BootSearch, MemSearch
  <2>5. ~KernelSearch
    BY <1>1, <2>1, <2>2, <2>3 DEF KernelSearch, MemSearch
  <2>6. ~InitrdSearch
    BY <2>2, <2>3 DEF InitrdSearch
  <2>7. QED
    BY <2>1, <2>4, <2>5, <2>6 DEF Inv, DiscoveryInvariant, Situation
<1>4. PICK place, tag : TagSearch(place, tag)
  BY <1>3 DEF AtagSearch
<1>5. /\ walk'.cur \in Nat \union {NULL}
      /\ walk' = [op |-> walk'.op, arg |-> walk'.arg, cur |-> walk'.cur]
      /\ walk'.op \in {walk.op, "returned"}
  BY <1>4, TagSearchGoes
<1>6. ASSUME NEW CONSTANT p, NEW CONSTANT t, TagSearch(p, t)
      PROVE  TagSearch(p, t)'
  BY <1>6, TagSearchGoes
<1>7. AtagSearch => AtagSearch'
  <2>1. SUFFICES ASSUME AtagSearch PROVE AtagSearch'
    OBVIOUS
  <2>2. is_using_atag /\ is_using_atag'
    BY <1>2, <2>1 DEF AtagSearch, is_using_atag
  <2>3. TagList(data)
    BY <2>2, Given DEF TagList, is_using_atag, Inv
  <2>4. Len(data.tags) \in Nat /\ DOMAIN data.tags = 1..Len(data.tags)
        /\ ListedMemory(data.tags) \subseteq DOMAIN data.tags /\ ListedMemory(data.tags) \subseteq Nat
    BY <2>3, ListFacts
  <2>5. \E p : TagSearch(p, "ATAG_MEM")
    BY <2>1 DEF AtagSearch
  <2>6. walk.cur \in Nat \ {0} /\ walk.cur # NULL /\ Place = walk.cur
    BY <2>5, TagSearchGoes DEF Place
  <2>7. \/ walk'.cur = NULL /\ Place' = Len(data.tags) + 1 /\ walk.cur > Len(data.tags)
        \/ Place' = walk.cur
        \/ /\ walk.cur \in DOMAIN data.tags /\ walk.cur \notin ListedMemory(data.tags)
           /\ Place' = walk.cur + 1
    <3>1. \/ walk'.cur = NULL /\ walk.cur > Len(data.tags)
          \/ walk'.cur = walk.cur
          \/ /\ walk.cur \in DOMAIN data.tags /\ data.tags[walk.cur].tag # "ATAG_MEM"
             /\ walk'.cur = walk.cur + 1
      BY <2>2, <2>5, TagSearchGoes
    <3>2. walk.cur + 1 # NULL
      BY <2>6, DiscoveryAssumption
    <3>3. QED
      BY <1>2, <2>6, <3>1, <3>2 DEF Place, ListedMemory
  <2>8. CASE /\ TagSearch(<<"init_get_mem_atag", "first">>, "ATAG_MEM")
             /\ \A j \in ListedMemory(data.tags) : Place <= j
    <3>1. \A j \in ListedMemory(data.tags) : Place' <= j
      BY <2>4, <2>6, <2>7, <2>8
    <3>2. TagSearch(<<"init_get_mem_atag", "first">>, "ATAG_MEM")'
      BY <1>6, <2>8
    <3>3. QED
      BY <1>2, <2>2, <3>1, <3>2 DEF AtagSearch
  <2>9. CASE /\ TagSearch(<<"init_get_mem_atag", "next">>, "ATAG_MEM")
             /\ IsBest(data, fnd, Place)
    <3>1. IsBest(data, fnd, Place')
      <4>1. CASE Place' = Len(data.tags) + 1 /\ walk.cur > Len(data.tags)
        <5>1. PICK n \in Nat : n = Len(data.tags) + 1
          BY <2>4
        <5>2. n <= walk.cur /\ \A j \in ListedMemory(data.tags) : ~(n <= j /\ j < walk.cur)
          BY <2>4, <2>6, <4>1, <5>1
        <5>3. IsBest(data, fnd, n) <=> IsBest(data, fnd, walk.cur)
          BY <2>3, <2>6, <5>2, BestPasses
        <5>4. QED
          BY <2>6, <2>9, <4>1, <5>1, <5>3
      <4>2. CASE Place' = walk.cur
        BY <2>6, <2>9, <4>2
      <4>3. CASE walk.cur \notin ListedMemory(data.tags) /\ Place' = walk.cur + 1
        <5>1. PICK n \in Nat : n = walk.cur + 1
          BY <2>6
        <5>2. walk.cur <= n /\ \A j \in ListedMemory(data.tags) : ~(walk.cur <= j /\ j < n)
          BY <2>4, <2>6, <4>3, <5>1
        <5>3. IsBest(data, fnd, walk.cur) <=> IsBest(data, fnd, n)
          BY <2>3, <2>6, <5>2, BestPasses
        <5>4. QED
          BY <2>6, <2>9, <4>3, <5>1, <5>3
      <4>4. QED
        BY <2>7, <4>1, <4>2, <4>3
    <3>2. TagSearch(<<"init_get_mem_atag", "next">>, "ATAG_MEM")'
      BY <1>6, <2>9
    <3>3. IsBest(data, fnd, Place)'
      BY <1>2, <3>1
    <3>4. QED
      BY <2>2, <3>2, <3>3 DEF AtagSearch
  <2>10. QED
    BY <2>1, <2>8, <2>9 DEF AtagSearch
<1>8. Situation'
  <2>1. BootSearch'
    BY <1>3, <1>6, <1>7 DEF BootSearch
  <2>2. QED
    BY <1>2, <1>3, <2>1 DEF Situation
<1>9. TypeOK /\ depth' \in Int
  BY <1>1 DEF Inv, DiscoveryInvariant, TypeOK
<1>10. QED
  BY <1>1, <1>5, <1>8, <1>9, LibraryKeepsTypes DEF Inv, DiscoveryInvariant

(* Where the tree is dumped.                                                   *)
LEMMA DumpStep ==
    ASSUME Inv, DumpTag \/ DumpEnd
    PROVE  Inv'
<1>1. walk.op = "dump_fdt" /\ UNCHANGED callerVars
  BY DEF DumpTag, DumpEnd
<1>2. data' = data /\ at' = at /\ kern_reg' = kern_reg
  BY <1>1, CallersKept
<1>3. /\ IsBootData(data) /\ walk = [op |-> walk.op, arg |-> walk.arg, cur |-> walk.cur]
      /\ depth \in Int
  BY Given DEF Inv, DiscoveryInvariant, TypeOK
<1>4. /\ kern_reg = JunkReg
      /\ \/ at = <<"init_get_mem", "dumped">> /\ Cursor(data, walk.cur)
         \/ /\ at = <<"kernel_init", "dumped">> /\ Cursor(data, walk.cur)
            /\ depth = DumpDepth(data, walk.cur)
  <2>1. walk # Idle /\ ~Returned
    BY <1>1 DEF Idle, Returned
  <2>2. \A place, name : ~NodeSearch(place, name)
    BY <1>1, <2>1 DEF NodeSearch
  <2>3. \A place, of, name : ~PropSearch(place, of, name)
    BY <1>1, <2>1 DEF PropSearch
  <2>4. \A place, tag : ~TagSearch(place, tag)
    BY <1>1, <2>1 DEF TagSearch
  <2>5. ~AtagSearch
    BY <2>4 DEF AtagSearch
  <2>6. BootSearch => at = <<"init_get_mem", "dumped">> /\ Cursor(data, walk.cur)
    BY <1>1, <2>1, <2>2, <2>3, <2>4, <2>5 DEF BootSearch, MemSearch
  <2>7. KernelSearch => /\ at = <<"kernel_init", "dumped">> /\ Cursor(data, walk.cur)
                        /\ depth = DumpDepth(data, walk.cur)
    BY <1>1, <2>1, <2>2, <2>3 DEF KernelSearch, MemSearch
  <2>8. ~InitrdSearch
    BY <2>2, <2>3 DEF InitrdSearch
  <2>9. QED
    BY <2>1, <2>6, <2>7, <2>8 DEF Inv, DiscoveryInvariant, Situation
<1>5. /\ depth' \in Int /\ walk'.cur \in Nat \union {NULL}
      /\ walk' = [op |-> walk'.op, arg |-> walk'.arg, cur |-> walk'.cur]
      /\ \/ /\ walk'.op = "dump_fdt" /\ Cursor(data, walk'.cur)
            /\ depth = DumpDepth(data, walk.cur) => depth' = DumpDepth(data, walk'.cur)
         \/ walk'.op = "returned" /\ walk'.cur = NULL
  <2>1. CASE DumpTag
    <3>1. walk.cur # NULL /\ walk' = [walk EXCEPT !.cur = fdt_get_next_tag(walk.cur)]
      BY <2>1 DEF DumpTag, Advance
    <3>2. walk'.op = "dump_fdt" /\ walk'.cur = fdt_get_next_tag(walk.cur)
          /\ walk' = [op |-> walk'.op, arg |-> walk'.arg, cur |-> walk'.cur]
      BY <1>1, <1>3, <3>1
    <3>3. /\ Cursor(data, walk'.cur) /\ DumpDepth(data, walk.cur) \in Int
          /\ DumpDepth(data, walk'.cur) = DumpDepth(data, walk.cur) + Opens(TagAt(walk.cur))
      BY <1>3, <1>4, <3>1, <3>2, DumpRound
    <3>4. Opens(TagAt(walk.cur)) \in Int /\ depth' = depth + Opens(TagAt(walk.cur))
      BY <1>3, <2>1 DEF DumpTag, Opens
    <3>5. walk'.cur \in Nat \union {NULL}
      BY <1>3, <3>3, CursorType
    <3>6. depth' \in Int
      BY <1>3, <3>4
    <3>7. QED
      BY <3>2, <3>3, <3>4, <3>5, <3>6
  <2>2. CASE DumpEnd
    <3>1. walk' = [op |-> "returned", arg |-> NULL, cur |-> NULL] /\ depth' = depth
      BY <2>2 DEF DumpEnd, Return
    <3>2. walk'.op = "returned" /\ walk'.cur = NULL
          /\ walk' = [op |-> walk'.op, arg |-> walk'.arg, cur |-> walk'.cur]
      BY <3>1
    <3>3. QED
      BY <1>3, <3>1, <3>2
  <2>3. QED
    BY <2>1, <2>2
<1>6. Situation'
  <2>1. CASE at = <<"init_get_mem", "dumped">>
    BY <1>2, <1>4, <1>5, <2>1 DEF Situation, BootSearch, Returned
  <2>2. CASE at = <<"kernel_init", "dumped">> /\ depth = DumpDepth(data, walk.cur)
    BY <1>2, <1>4, <1>5, <2>2 DEF Situation, KernelSearch, Returned
  <2>3. QED
    BY <1>4, <2>1, <2>2
<1>7. QED
  BY <1>1, <1>5, <1>6, LibraryKeepsTypes DEF Inv, DiscoveryInvariant

-----------------------------------------------------------------------------
(* What is known at each place of the callers.                                 *)

LEMMA PlaceOf ==
    /\ \A fn, in : at = <<fn, in>> => at[1] = fn /\ at[2] = in
    /\ \A fn, in, name : NodeSearch(<<fn, in>>, name) => at = <<fn, in>> /\ at[1] = fn /\ at[2] = in
    /\ \A fn, in, of, name : PropSearch(<<fn, in>>, of, name) =>
                                  at = <<fn, in>> /\ at[1] = fn /\ at[2] = in
    /\ \A fn, in, tag : TagSearch(<<fn, in>>, tag) => at = <<fn, in>> /\ at[1] = fn /\ at[2] = in
    /\ \A fn, start : MemSearch(fn, start) => at[1] = fn
    /\ AtagSearch => at[1] = "init_get_mem_atag"
<1>1. \A fn, in : at = <<fn, in>> => at[1] = fn /\ at[2] = in
  OBVIOUS
<1>2. \A fn, in, name : NodeSearch(<<fn, in>>, name) => at = <<fn, in>> /\ at[1] = fn /\ at[2] = in
  BY <1>1 DEF NodeSearch
<1>3. \A fn, in, of, name : PropSearch(<<fn, in>>, of, name) =>
                               at = <<fn, in>> /\ at[1] = fn /\ at[2] = in
  BY <1>1 DEF PropSearch
<1>4. \A fn, in, tag : TagSearch(<<fn, in>>, tag) => at = <<fn, in>> /\ at[1] = fn /\ at[2] = in
  BY <1>1 DEF TagSearch
<1>5. \A fn, start : MemSearch(fn, start) => at[1] = fn
  BY <1>2, <1>3 DEF MemSearch
<1>6. AtagSearch => at[1] = "init_get_mem_atag"
  BY <1>4 DEF AtagSearch
<1>7. QED
  BY <1>1, <1>2, <1>3, <1>4, <1>5, <1>6

\* What init_get_mem knows when it has found memory, and when it gives up.
BestKnown ==
    /\ is_using_fdt  => IsListedReg(data, init_reg)
    /\ is_using_atag => IsBest(data, init_reg, Len(data.tags) + 1)
PanicKnown == is_using_fdt => ListedRegs(data) = {} \/ IsListedReg(data, init_reg)

LEMMA WhoSearches ==
    /\ BootSearch =>
          \/ at[1] \in {"vexpress_init", "init_get_mem", "init_get_initrd_atag"}
          \/ at[1] = "memory found" /\ BestKnown
          \/ at[1] = "kinit_panic" /\ PanicKnown
          \/ at[1] = "init_get_mem_fdt" /\ MemSearch("init_get_mem_fdt", kv_start)
          \/ at[1] = "init_get_mem_atag" /\ AtagSearch
    /\ KernelSearch =>
          \/ at[1] = "kernel_init"
          \/ at[1] = "mlay_get_phy_mem_reg" /\ MemSearch("mlay_get_phy_mem_reg", kp_start)
    /\ InitrdSearch => at[1] = "mlay_get_initrd_reg"
<1>1. ASSUME BootSearch
      PROVE  \/ at[1] \in {"vexpress_init", "init_get_mem", "init_get_initrd_atag"}
             \/ at[1] = "memory found" /\ BestKnown
             \/ at[1] = "kinit_panic" /\ PanicKnown
             \/ at[1] = "init_get_mem_fdt" /\ MemSearch("init_get_mem_fdt", kv_start)
             \/ at[1] = "init_get_mem_atag" /\ AtagSearch
  <2>1. \/ at = <<"vexpress_init", "entry">> \/ at = <<"init_get_mem", "dumped">>
        \/ MemSearch("init_get_mem_fdt", kv_start) \/ AtagSearch
        \/ at = <<"memory found", "entry">> /\ BestKnown
        \/ TagSearch(<<"vexpress_init", "initrd">>, "ATAG_INITRD2")
        \/ TagSearch(<<"init_get_initrd_atag", "tag">>, "ATAG_INITRD2")
        \/ at = <<"kinit_panic", "entry">> /\ PanicKnown
    BY <1>1 DEF BootSearch, BestKnown, PanicKnown
  <2>2. QED
    BY <2>1, PlaceOf
<1>2. KernelSearch =>
          \/ at[1] = "kernel_init"
          \/ at[1] = "mlay_get_phy_mem_reg" /\ MemSearch("mlay_get_phy_mem_reg", kp_start)
  BY PlaceOf DEF KernelSearch
<1>3. ASSUME InitrdSearch PROVE at[1] = "mlay_get_initrd_reg"
  <2>1. \/ NodeSearch(<<"mlay_get_initrd_reg", "chosen">>, <<"chosen">>)
        \/ PropSearch(<<"mlay_get_initrd_reg", "linux,initrd-start">>, <<"chosen">>,
                      <<"linux,", "initrd-start">>)
        \/ PropSearch(<<"mlay_get_initrd_reg", "linux,initrd-end">>, <<"chosen">>,
                      <<"linux,", "initrd-end">>)
        \/ PropSearch(<<"mlay_get_initrd_reg", "initrd-start">>, <<"chosen">>, <<"initrd-start">>)
    BY <1>3 DEF InitrdSearch
  <2>2. QED
    BY <2>1, PlaceOf
<1>4. QED
  BY <1>1, <1>2, <1>3

LEMMA WhoIsAt ==
    ASSUME Inv
    PROVE  /\ at[1] \in {"vexpress_init", "init_get_mem", "init_get_mem_fdt", "init_get_mem_atag",
                         "memory found", "init_get_initrd_atag", "kinit_panic"} =>
                 kern_reg = JunkReg /\ BootSearch
           /\ at[1] \in {"kernel_init", "mlay_get_phy_mem_reg"} => kern_reg = JunkReg /\ KernelSearch
           /\ at[1] = "mlay_get_initrd_reg" => KernelMemory /\ InitrdSearch
           /\ at[1] = "halt" => InitrdOutcome
<1>1. \/ kern_reg = JunkReg /\ BootSearch
      \/ kern_reg = JunkReg /\ KernelSearch
      \/ KernelMemory /\ InitrdSearch
      \/ at[1] = "halt" /\ InitrdOutcome
  <2>1. at = <<"halt", "entry">> => at[1] = "halt"
    OBVIOUS
  <2>2. Situation
    BY DEF Inv, DiscoveryInvariant
  <2>3. QED
    BY <2>1, <2>2 DEF Situation
<1>2. CASE kern_reg = JunkReg /\ BootSearch
  <2>1. at[1] \notin {"kernel_init", "mlay_get_phy_mem_reg", "mlay_get_initrd_reg", "halt"}
    BY <1>2, WhoSearches
  <2>2. QED
    BY <1>2, <2>1
<1>3. CASE kern_reg = JunkReg /\ KernelSearch
  BY <1>3, WhoSearches
<1>4. CASE KernelMemory /\ InitrdSearch
  BY <1>4, WhoSearches
<1>5. QED
  BY <1>1, <1>2, <1>3, <1>4

LEMMA AtBoot ==
    ASSUME Inv
    PROVE  /\ at = <<"vexpress_init", "initrd">> => TagSearch(at, "ATAG_INITRD2")
           /\ at = <<"init_get_initrd_atag", "tag">> => TagSearch(at, "ATAG_INITRD2")
           /\ at[1] = "memory found" => BestKnown
           /\ at[1] = "kinit_panic" => PanicKnown
<1>1. ASSUME at = <<"vexpress_init", "initrd">> PROVE TagSearch(at, "ATAG_INITRD2")
  BY <1>1, WhoIsAt, PlaceOf DEF BootSearch
<1>2. ASSUME at = <<"init_get_initrd_atag", "tag">> PROVE TagSearch(at, "ATAG_INITRD2")
  BY <1>2, WhoIsAt, PlaceOf DEF BootSearch
<1>3. at[1] = "memory found" => BestKnown
  BY WhoIsAt, WhoSearches
<1>4. at[1] = "kinit_panic" => PanicKnown
  BY WhoIsAt, WhoSearches
<1>5. QED
  BY <1>1, <1>2, <1>3, <1>4

LEMMA AtMem ==
    ASSUME Inv
    PROVE  /\ at[1] = "init_get_mem_fdt" => MemSearch("init_get_mem_fdt", kv_start)
           /\ at[1] = "mlay_get_phy_mem_reg" => MemSearch("mlay_get_phy_mem_reg", kp_start)
  BY WhoIsAt, WhoSearches

LEMMA AtList ==
    ASSUME Inv
    PROVE  /\ at[1] = "init_get_mem_atag" => is_using_atag /\ TagSearch(at, "ATAG_MEM")
           /\ at = <<"init_get_mem_atag", "first">> => \A j \in ListedMemory(data.tags) : Place <= j
           /\ at = <<"init_get_mem_atag", "next">> => IsBest(data, fnd, Place)
<1>1. at[1] = "init_get_mem_atag" => AtagSearch
  BY WhoIsAt, WhoSearches
<1>2. QED
  BY <1>1, PlaceOf DEF AtagSearch

LEMMA AtInitrd ==
    ASSUME Inv
    PROVE  /\ at = <<"mlay_get_initrd_reg", "chosen">> => NodeSearch(at, <<"chosen">>)
           /\ at = <<"mlay_get_initrd_reg", "linux,initrd-start">> =>
                  PropSearch(at, <<"chosen">>, <<"linux,", "initrd-start">>)
           /\ at = <<"mlay_get_initrd_reg", "linux,initrd-end">> =>
                  /\ PropSearch(at, <<"chosen">>, <<"linux,", "initrd-end">>)
                  /\ s_prop # NULL /\ PropFound(data, <<"chosen">>, <<"linux,", "initrd-start">>, s_prop)
           /\ at = <<"mlay_get_initrd_reg", "initrd-start">> =>
                  /\ PropSearch(at, <<"chosen">>, <<"initrd-start">>)
                  /\ Props(data, <<"chosen">>, <<"linux,", "initrd-start">>) = {}
<1>1. at[1] = "mlay_get_initrd_reg" => InitrdSearch
  BY WhoIsAt
<1>2. QED
  BY <1>1, PlaceOf DEF InitrdSearch

-----------------------------------------------------------------------------
(* How the calls begin, and what they have returned.                           *)

WalkForm ==
    /\ walk = [op |-> walk.op, arg |-> walk.arg, cur |-> walk.cur]
    /\ walk.op \in {"idle", "returned", "dump_fdt", "fdt_get_node", "fdt_get_property", "find_tag"}
    /\ walk.cur \in Nat \union {NULL}

LEMMA IdleForm == ASSUME walk' = Idle PROVE WalkForm'
<1>1. walk' = [op |-> "idle", arg |-> NULL, cur |-> NULL]
  BY DEF Idle
<1>2. QED
  BY <1>1 DEF WalkForm

LEMMA NodeSearchStarts ==
    ASSUME Inv, NEW CONSTANT place, NEW CONSTANT name,
           data' = data, at' = place, walk' = fdt_get_node(name)
    PROVE  NodeSearch(place, name)' /\ WalkForm'
<1>1. IsBootData(data)
  BY Given DEF Inv
<1>2. walk' = [op |-> "fdt_get_node", arg |-> name, cur |-> fdt_get_root_node]
  BY DEF fdt_get_node
<1>3. walk'.op = "fdt_get_node" /\ walk'.arg = name /\ walk'.cur = fdt_get_root_node
      /\ walk' = [op |-> walk'.op, arg |-> walk'.arg, cur |-> walk'.cur]
  BY <1>2
<1>4. NodePassed(data, name, fdt_get_root_node) /\ fdt_get_root_node \in Nat \union {NULL}
  BY <1>1, RootPassed, CursorType
<1>5. QED
  BY <1>3, <1>4 DEF NodeSearch, WalkForm

LEMMA PropSearchStarts ==
    ASSUME Inv, NEW CONSTANT place, NEW CONSTANT of, NEW CONSTANT name,
           node' # NULL, NodeFound(data, of, node'),
           data' = data, at' = place, walk' = fdt_get_property(node', name)
    PROVE  PropSearch(place, of, name)' /\ WalkForm' /\ Cursor(data, node')
<1>1. IsBootData(data)
  BY Given DEF Inv
<1>2. walk' = [op |-> "fdt_get_property", arg |-> name, cur |-> fdt_get_next_tag(node')]
  BY DEF fdt_get_property
<1>3. walk'.op = "fdt_get_property" /\ walk'.arg = name /\ walk'.cur = fdt_get_next_tag(node')
      /\ walk' = [op |-> walk'.op, arg |-> walk'.arg, cur |-> walk'.cur]
  BY <1>2
<1>4. PICK n : n = node'
  OBVIOUS
<1>5. Nodes(data, of) # {} /\ Structure(data) /\ PropPassed(data, of, name, fdt_get_next_tag(n))
  BY <1>1, <1>4, PropStart
<1>6. fdt_get_next_tag(n) \in Nat \union {NULL}
  BY <1>1, <1>5, PropRound, CursorType
<1>7. Cursor(data, node')
  BY <1>1, <1>4, FoundCursor
<1>8. QED
  BY <1>3, <1>4, <1>5, <1>6, <1>7 DEF PropSearch, WalkForm

LEMMA TagSearchStarts ==
    ASSUME NEW CONSTANT place, NEW CONSTANT tag, NEW n \in Nat \ {0},
           at' = place, walk' = [op |-> "find_tag", arg |-> tag, cur |-> n]
    PROVE  TagSearch(place, tag)' /\ WalkForm' /\ walk'.cur = n
<1>1. walk'.op = "find_tag" /\ walk'.arg = tag /\ walk'.cur = n
      /\ walk' = [op |-> walk'.op, arg |-> walk'.arg, cur |-> walk'.cur]
  OBVIOUS
<1>2. QED
  BY <1>1 DEF TagSearch, WalkForm, Returned

Kept == data \in Provided /\ TypeOK /\ Cursor(data, node) /\ Cursor(data, s_prop)

LEMMA TypesGo ==
    ASSUME Inv, data' = data, WalkForm', depth' \in Int, Cursor(data, node'), Cursor(data, s_prop'),
           {fnd', init_reg', initrd_reg', kern_reg'} \subseteq Regions,
           {mem_err', initrd_err'} \subseteq {NULL, "ESUCC", "ENOTFND"}
    PROVE  Kept'
<1>1. TypeOK /\ data \in Provided /\ IsBootData(data)
  BY Given DEF Inv, DiscoveryInvariant
<1>2. PICK n, s : n = node' /\ s = s_prop'
  OBVIOUS
<1>3. {n, s} \subseteq Nat \union {NULL}
  BY <1>1, <1>2, CursorType
<1>4. TypeOK'
  BY <1>1, <1>2, <1>3 DEF TypeOK, WalkForm
<1>5. QED
  BY <1>1, <1>4 DEF Kept

LEMMA TypesKept ==
    ASSUME Inv, data' = data, WalkForm', depth' \in Int, UNCHANGED <<node, s_prop, fnd, results>>
    PROVE  /\ Kept' /\ kern_reg' = kern_reg /\ mem_err' = mem_err /\ init_reg' = init_reg
           /\ node' = node /\ s_prop' = s_prop /\ fnd' = fnd
<1>1. /\ node' = node /\ s_prop' = s_prop /\ fnd' = fnd
      /\ init_reg' = init_reg /\ initrd_reg' = initrd_reg /\ kern_reg' = kern_reg
      /\ mem_err' = mem_err /\ initrd_err' = initrd_err
  BY DEF results
<1>2. TypeOK /\ Cursor(data, node) /\ Cursor(data, s_prop)
  BY DEF Inv, DiscoveryInvariant
<1>3. QED
  BY <1>1, <1>2, TypesGo DEF TypeOK

LEMMA InvParts ==
    /\ Inv <=> Kept /\ Situation
    /\ Inv' <=> Kept' /\ Situation'
  BY DEF Inv, DiscoveryInvariant, Kept

LEMMA Answers ==
    ASSUME Returned
    PROVE  /\ \A place, name : NodeSearch(place, name) => NodeFound(data, name, walk.cur)
           /\ \A place, of, name : PropSearch(place, of, name) =>
                  /\ PropFound(data, of, name, walk.cur)
                  /\ Nodes(data, of) # {} /\ NodeFound(data, of, node) /\ node # NULL
           /\ \A place, tag : TagSearch(place, tag) /\ walk.cur # NULL =>
                  is_using_atag /\ walk.cur \in DOMAIN data.tags /\ data.tags[walk.cur].tag = tag
  BY DEF Returned, NodeSearch, PropSearch, TagSearch

(* No tree has a node whose name is the one vexpress_init and kernel_init try  *)
(* first.                                                                      *)
LEMMA ExactFindsNone ==
    ASSUME Inv, NEW start \in Cells
    PROVE  Nodes(data, memory_at(start)) = {}
<1>1. CASE data.kind # "fdt"
  BY <1>1 DEF Nodes
<1>2. CASE data.kind = "fdt"
  <2>1. Structure(data)
    BY <1>2, Given DEF Structure, Inv
  <2>2. ASSUME NEW k \in Nodes(data, memory_at(start)) PROVE FALSE
    <3>1. k \in DOMAIN data.tags /\ IsPrefix(memory_at(start), data.tags[k].name)
      BY <2>1, NodesAre
    <3>2. data.tags[k] \in Tags
      BY <2>1, <3>1, TagFacts
    <3>3. data.tags[k].name \in Names
      BY <3>2 DEF Tags
    <3>4. QED
      BY <3>1, <3>3, NoExactName
  <2>3. QED
    BY <2>2
<1>3. QED
  BY <1>1, <1>2

(* A property that a search has found, and the cells that the callers read.    *)
LEMMA FoundProp ==
    ASSUME Inv, NEW of, NEW name, Nodes(data, of) # {},
           NEW cur, cur # NULL, PropFound(data, of, name, cur)
    PROVE  \E k \in DOMAIN data.tags :
               /\ k = FirstOf(Props(data, of, name)) /\ Props(data, of, name) # {}
               /\ TagAt(cur) = data.tags[k] /\ data.tags[k].cells \in Seq(Cells)
               /\ \E i \in NodesNamed(data.tags, of) : k \in PropsNamed(data.tags, i, name)
<1>1. Structure(data) /\ Nodes(data, of) = NodesNamed(data.tags, of)
  BY Given DEF Structure, Inv, Nodes
<1>2. PICK i : i = FirstOf(Nodes(data, of))
  OBVIOUS
<1>3. i \in Nodes(data, of) /\ Props(data, of, name) \in SUBSET Nat
      /\ Props(data, of, name) \subseteq DOMAIN data.tags
  BY <1>1, <1>2, PropsAre
<1>4. Props(data, of, name) # {} /\ cur = data.start[FirstOf(Props(data, of, name))]
  BY DEF PropFound
<1>5. PICK k : k = FirstOf(Props(data, of, name))
  OBVIOUS
<1>6. k \in Props(data, of, name)
  BY <1>3, <1>4, <1>5, FirstExists
<1>7. k \in DOMAIN data.tags
  BY <1>3, <1>6
<1>8. TagAt(cur) = data.tags[k]
  BY <1>1, <1>4, <1>5, <1>7, TagIs
<1>9. data.tags[k].cells \in Seq(Cells)
  <2>1. data.tags[k] \in Tags
    BY <1>1, <1>7, TagFacts
  <2>2. QED
    BY <2>1 DEF Tags
<1>10. Props(data, of, name) = PropsNamed(data.tags, i, name)
  BY <1>2 DEF Props
<1>11. QED
  BY <1>1, <1>3, <1>4, <1>5, <1>6, <1>7, <1>8, <1>9, <1>10

LEMMA FoundRegion ==
    ASSUME Inv, Nodes(data, <<"memory">>) # {},
           NEW cur, cur # NULL, PropFound(data, <<"memory">>, <<"reg">>, cur)
    PROVE  RegionOf(cur) \in Regions /\ IsListedReg(data, RegionOf(cur)) /\ ListedRegs(data) # {}
<1>1. PICK k \in DOMAIN data.tags :
          /\ k = FirstOf(ListedRegs(data)) /\ ListedRegs(data) # {}
          /\ TagAt(cur) = data.tags[k] /\ data.tags[k].cells \in Seq(Cells)
          /\ \E i \in NodesNamed(data.tags, <<"memory">>) : k \in PropsNamed(data.tags, i, <<"reg">>)
  BY FoundProp DEF ListedRegs
<1>2. data.kind = "fdt"
  BY DEF Nodes
<1>3. Len(data.tags[k].cells) >= 2
  BY <1>1, <1>2, BootDataAssumption DEF Inv
<1>4. PICK a, b : a = data.tags[k].cells[1] /\ b = data.tags[k].cells[2]
  OBVIOUS
<1>5. a \in Cells /\ b \in Cells
  BY <1>1, <1>3, <1>4
<1>6. RegionOf(cur) = Region(a, b)
  BY <1>1, <1>4, <1>5, CellConverted DEF RegionOf
<1>7. Region(a, b) \in Regions
  BY <1>5 DEF Region, Regions
<1>8. QED
  BY <1>1, <1>4, <1>6, <1>7 DEF IsListedReg

LEMMA FirstCell == ASSUME NEW cells \in Seq(Cells), Len(cells) >= 1 PROVE cells[1] \in Cells
  OBVIOUS

LEMMA LowByte == ASSUME NEW a \in Cells PROVE be32_to_cpu(Byte(Load(a), 0)) \in Cells
<1>1. Load(a) \in Cells
  BY LoadIsCell
<1>2. PICK b \in Digits : b = Byte(Load(a), 0)
  BY <1>1, BytesOfCell
<1>3. 0 \in Digits /\ ByteValues \in Nat /\ b \in Nat
  BY ByteAssumption DEF Digits
<1>4. Word(<<b, 0, 0, 0>>) \in Cells
  BY <1>3, WordIsCell
<1>5. Word(<<b, 0, 0, 0>>) = b + ByteValues * (0 + ByteValues * (0 + ByteValues * 0))
  BY DEF Word
<1>6. Word(<<b, 0, 0, 0>>) = b
  BY <1>3, <1>5
<1>7. QED
  BY <1>2, <1>4, <1>6, Converted

LEMMA FoundByte ==
    ASSUME Inv, NEW name \in {<<"linux,", "initrd-start">>, <<"linux,", "initrd-end">>},
           Nodes(data, <<"chosen">>) # {}, NEW cur, cur # NULL,
           PropFound(data, <<"chosen">>, name, cur)
    PROVE  /\ FirstByteOf(cur) \in Cells
           /\ FirstByteOf(cur) = ByteOf(data, Props(data, <<"chosen">>, name))
<1>1. PICK k \in DOMAIN data.tags :
          /\ k = FirstOf(Props(data, <<"chosen">>, name)) /\ TagAt(cur) = data.tags[k] /\ data.tags[k].cells \in Seq(Cells)
          /\ \E i \in NodesNamed(data.tags, <<"chosen">>) : k \in PropsNamed(data.tags, i, name)
  BY FoundProp
<1>2. data.kind = "fdt"
  BY DEF Nodes
<1>3. Len(data.tags[k].cells) >= 1
  <2>1. PICK i \in NodesNamed(data.tags, <<"chosen">>) : k \in PropsNamed(data.tags, i, name)
    BY <1>1
  <2>2. k \in PropsNamed(data.tags, i, <<"linux,", "initrd-start">>)
             \union PropsNamed(data.tags, i, <<"linux,", "initrd-end">>)
    BY <2>1
  <2>3. QED
    BY <1>2, <2>1, <2>2, BootDataAssumption DEF Inv
<1>4. PICK a : a = data.tags[k].cells[1]
  OBVIOUS
<1>5. a \in Cells
  BY <1>1, <1>3, <1>4, FirstCell
<1>6. QED
  BY <1>1, <1>4, <1>5, LowByte DEF FirstByteOf, ByteOf

-----------------------------------------------------------------------------
(* The steps of the callers.                                                   *)

LEMMA Entered ==
    ASSUME NEW CONSTANT fn, Enter(fn)
    PROVE  walk' = Idle /\ at' = <<fn, "entry">> /\ data' = data /\ depth' = depth /\ WalkForm'
  BY IdleForm DEF Enter, Call

LEMMA DepthKept == ASSUME Inv, depth' = depth PROVE depth' \in Int
  BY DEF Inv, DiscoveryInvariant, TypeOK

LEMMA DumpStarts ==
    ASSUME Inv, data' = data, walk' = dump_fdt
    PROVE  /\ WalkForm' /\ walk'.op = "dump_fdt" /\ Cursor(data, walk'.cur)
           /\ DumpDepth(data, walk'.cur) = 0
<1>1. IsBootData(data)
  BY Given DEF Inv
<1>2. walk' = [op |-> "dump_fdt", arg |-> NULL, cur |-> fdt_get_root_node]
  BY DEF dump_fdt
<1>3. walk'.op = "dump_fdt" /\ walk'.cur = fdt_get_root_node
      /\ walk' = [op |-> walk'.op, arg |-> walk'.arg, cur |-> walk'.cur]
  BY <1>2
<1>4. /\ Cursor(data, fdt_get_root_node) /\ DumpDepth(data, fdt_get_root_node) = 0
      /\ fdt_get_root_node \in Nat \union {NULL}
  BY <1>1, RootPassed, CursorType
<1>5. QED
  BY <1>3, <1>4 DEF WalkForm

LEMMA VexpressInitStep == ASSUME Inv, VexpressInit PROVE Inv'
<1>1. /\ at = <<"vexpress_init", "entry">> /\ UNCHANGED <<node, s_prop, fnd, results>>
      /\ walk' = dump_fdt /\ at' = <<"init_get_mem", "dumped">> /\ data' = data /\ depth' = depth
  BY DEF VexpressInit, Call
<1>2. WalkForm' /\ walk'.op = "dump_fdt" /\ Cursor(data, walk'.cur)
  BY <1>1, DumpStarts
<1>3. Kept' /\ kern_reg' = kern_reg
  BY <1>1, <1>2, DepthKept, TypesKept
<1>4. kern_reg = JunkReg
  <2>1. at[1] = "vexpress_init"
    BY <1>1
  <2>2. QED
    BY <2>1, WhoIsAt
<1>5. BootSearch'
  BY <1>1, <1>2 DEF BootSearch
<1>6. QED
  BY <1>3, <1>4, <1>5, InvParts DEF Situation

LEMMA InitGetMemStep == ASSUME Inv, init_get_mem PROVE Inv'
<1>1. at = <<"init_get_mem", "dumped">> /\ UNCHANGED <<node, s_prop, fnd, results>>
  BY DEF init_get_mem, At
<1>2. kern_reg = JunkReg
  <2>1. at[1] = "init_get_mem"
    BY <1>1
  <2>2. QED
    BY <2>1, WhoIsAt
<1>3. CASE is_using_fdt /\ Call(fdt_get_node(memory_at(kv_start)), <<"init_get_mem_fdt", "exact">>)
  <2>1. /\ walk' = fdt_get_node(memory_at(kv_start)) /\ at' = <<"init_get_mem_fdt", "exact">>
        /\ data' = data /\ depth' = depth
    BY <1>3 DEF Call
  <2>2. NodeSearch(<<"init_get_mem_fdt", "exact">>, memory_at(kv_start))' /\ WalkForm'
    BY <2>1, NodeSearchStarts
  <2>3. Kept' /\ kern_reg' = kern_reg
    BY <1>1, <2>1, <2>2, DepthKept, TypesKept
  <2>4. MemSearch("init_get_mem_fdt", kv_start)'
    BY <2>2 DEF MemSearch
  <2>5. BootSearch'
    BY <2>4 DEF BootSearch
  <2>6. QED
    BY <1>2, <2>3, <2>5, InvParts DEF Situation
<1>4. CASE is_using_atag /\ Call(get_tag("ATAG_MEM"), <<"init_get_mem_atag", "first">>)
  <2>1. /\ walk' = get_tag("ATAG_MEM") /\ at' = <<"init_get_mem_atag", "first">>
        /\ data' = data /\ depth' = depth
    BY <1>4 DEF Call
  <2>2. walk' = [op |-> "find_tag", arg |-> "ATAG_MEM", cur |-> 2]
    BY <2>1 DEF get_tag, get_next_tag, next_tag
  <2>3. TagSearch(<<"init_get_mem_atag", "first">>, "ATAG_MEM")' /\ WalkForm' /\ walk'.cur = 2
    BY <2>1, <2>2, TagSearchStarts
  <2>4. Kept' /\ kern_reg' = kern_reg
    BY <1>1, <2>1, <2>3, DepthKept, TypesKept
  <2>5. TagList(data)
    BY <1>4, Given DEF TagList, is_using_atag, Inv
  <2>6. \A j \in ListedMemory(data.tags) : 2 <= j
    <3>1. /\ 1 \notin ListedMemory(data.tags) /\ Len(data.tags) \in Nat
          /\ ListedMemory(data.tags) \subseteq 1..Len(data.tags)
      BY <2>5, ListFacts DEF ListedMemory
    <3>2. QED
      BY <3>1
  <2>7. Place' = 2 /\ is_using_atag'
    BY <1>4, <2>1, <2>3, DiscoveryAssumption DEF Place, is_using_atag
  <2>8. AtagSearch'
    BY <2>1, <2>3, <2>6, <2>7 DEF AtagSearch
  <2>9. BootSearch'
    BY <2>8 DEF BootSearch
  <2>10. QED
    BY <1>2, <2>4, <2>9, InvParts DEF Situation
<1>5. CASE ~is_using_fdt /\ ~is_using_atag /\ Enter("kinit_panic")
  <2>1. /\ walk' = Idle /\ at' = <<"kinit_panic", "entry">> /\ data' = data /\ depth' = depth
        /\ WalkForm'
    BY <1>5, Entered
  <2>2. Kept' /\ kern_reg' = kern_reg
    BY <1>1, <2>1, DepthKept, TypesKept
  <2>3. ~is_using_fdt'
    BY <1>5, <2>1 DEF is_using_fdt
  <2>4. (walk = Idle)'
    BY <2>1 DEF Idle
  <2>5. BootSearch'
    BY <2>1, <2>3, <2>4 DEF BootSearch
  <2>6. QED
    BY <1>2, <2>2, <2>5, InvParts DEF Situation
<1>6. QED
  BY <1>3, <1>4, <1>5 DEF init_get_mem

(* The search of the node and its property, for either caller.                 *)
LEMMA MemNodeStep ==
    ASSUME Inv, NEW CONSTANT fn, NEW CONSTANT start \in Cells, MemSearch(fn, start), MemNode(fn)
    PROVE  MemSearch(fn, start)' /\ Kept' /\ kern_reg' = kern_reg /\ mem_err' = mem_err
<1>1. UNCHANGED <<s_prop, fnd, results>> /\ Returned
  BY DEF MemNode, At
<1>2. /\ s_prop' = s_prop /\ fnd' = fnd
      /\ init_reg' = init_reg /\ initrd_reg' = initrd_reg /\ kern_reg' = kern_reg
      /\ mem_err' = mem_err /\ initrd_err' = initrd_err
  BY <1>1 DEF results
<1>3. /\ {fnd, init_reg, initrd_reg, kern_reg} \subseteq Regions
      /\ {mem_err, initrd_err} \subseteq {NULL, "ESUCC", "ENOTFND"}
      /\ Cursor(data, node) /\ Cursor(data, s_prop)
  BY DEF Inv, DiscoveryInvariant, TypeOK
<1>4. at = <<fn, "exact">> => walk.cur = NULL
  <2>1. SUFFICES ASSUME at = <<fn, "exact">> PROVE walk.cur = NULL
    OBVIOUS
  <2>2. NodeSearch(<<fn, "exact">>, memory_at(start))
    BY <2>1, PlaceOf DEF MemSearch
  <2>3. NodeFound(data, memory_at(start), walk.cur)
    BY <1>1, <2>2, Answers
  <2>4. QED
    BY <2>3, ExactFindsNone DEF NodeFound
<1>5. CASE /\ at = <<fn, "exact">> /\ node' = node
           /\ Call(fdt_get_node(<<"memory">>), <<fn, "memory">>)
  <2>1. /\ walk' = fdt_get_node(<<"memory">>) /\ at' = <<fn, "memory">>
        /\ data' = data /\ depth' = depth
    BY <1>5 DEF Call
  <2>2. NodeSearch(<<fn, "memory">>, <<"memory">>)' /\ WalkForm'
    BY <2>1, NodeSearchStarts
  <2>3. Kept'
    BY <1>2, <1>3, <1>5, <2>1, <2>2, DepthKept, TypesGo
  <2>4. QED
    BY <1>2, <2>2, <2>3 DEF MemSearch
<1>6. CASE /\ at = <<fn, "memory">> /\ Result # NULL /\ node' = Result
           /\ Call(fdt_get_property(Result, <<"reg">>), <<fn, "reg">>)
  <2>1. NodeSearch(<<fn, "memory">>, <<"memory">>)
    BY <1>6, PlaceOf DEF MemSearch
  <2>2. NodeFound(data, <<"memory">>, walk.cur)
    BY <1>1, <2>1, Answers
  <2>3. /\ walk' = fdt_get_property(node', <<"reg">>) /\ at' = <<fn, "reg">>
        /\ data' = data /\ depth' = depth /\ node' = walk.cur /\ node' # NULL
    BY <1>6 DEF Call, Result
  <2>4. PropSearch(<<fn, "reg">>, <<"memory">>, <<"reg">>)' /\ WalkForm' /\ Cursor(data, node')
    BY <2>2, <2>3, PropSearchStarts
  <2>5. Kept'
    BY <1>2, <1>3, <2>3, <2>4, DepthKept, TypesGo
  <2>6. QED
    BY <1>2, <2>4, <2>5 DEF MemSearch
<1>7. QED
  BY <1>1, <1>4, <1>5, <1>6 DEF MemNode, At, Result

(* What both callers have found in the end.                                    *)
LEMMA MemAnswers ==
    ASSUME Inv, NEW CONSTANT fn, NEW CONSTANT start, MemSearch(fn, start)
    PROVE  /\ NoMem(fn) => ListedRegs(data) = {}
           /\ MemReg(fn) => /\ data.kind = "fdt" /\ ListedRegs(data) # {}
                            /\ RegionOf(Result) \in Regions /\ IsListedReg(data, RegionOf(Result))
<1>1. ASSUME NoMem(fn) PROVE ListedRegs(data) = {}
  <2>1. Returned /\ walk.cur = NULL
    BY <1>1 DEF NoMem, At, Result
  <2>2. CASE at = <<fn, "memory">>
    <3>1. NodeSearch(<<fn, "memory">>, <<"memory">>)
      BY <2>2, PlaceOf DEF MemSearch
    <3>2. NodeFound(data, <<"memory">>, walk.cur)
      BY <2>1, <3>1, Answers
    <3>3. QED
      BY <2>1, <3>2 DEF NodeFound, ListedRegs, Props
  <2>3. CASE at = <<fn, "reg">>
    <3>1. PropSearch(<<fn, "reg">>, <<"memory">>, <<"reg">>)
      BY <2>3, PlaceOf DEF MemSearch
    <3>2. PropFound(data, <<"memory">>, <<"reg">>, walk.cur)
      BY <2>1, <3>1, Answers
    <3>3. QED
      BY <2>1, <3>2 DEF PropFound, ListedRegs
  <2>4. QED
    BY <1>1, <2>2, <2>3 DEF NoMem, At
<1>2. ASSUME MemReg(fn)
      PROVE  /\ data.kind = "fdt" /\ ListedRegs(data) # {}
             /\ RegionOf(Result) \in Regions /\ IsListedReg(data, RegionOf(Result))
  <2>1. Returned /\ walk.cur # NULL /\ at = <<fn, "reg">>
    BY <1>2 DEF MemReg, At, Result
  <2>2. PropSearch(<<fn, "reg">>, <<"memory">>, <<"reg">>)
    BY <2>1, PlaceOf DEF MemSearch
  <2>3. PropFound(data, <<"memory">>, <<"reg">>, walk.cur) /\ Nodes(data, <<"memory">>) # {}
    BY <2>1, <2>2, Answers
  <2>4. data.kind = "fdt"
    BY <2>3 DEF Nodes
  <2>5. QED
    BY <2>1, <2>3, <2>4, FoundRegion DEF Result
<1>3. QED
  BY <1>1, <1>2

LEMMA MemPlace ==
    ASSUME NEW CONSTANT fn, MemNode(fn) \/ MemReg(fn) \/ NoMem(fn)
    PROVE  at[1] = fn
<1>1. at = <<fn, "exact">> \/ at = <<fn, "memory">> \/ at = <<fn, "reg">>
  BY DEF MemNode, MemReg, NoMem, At
<1>2. QED
  BY <1>1

LEMMA InitGetMemFdtStep == ASSUME Inv, init_get_mem_fdt PROVE Inv'
<1>1. at[1] = "init_get_mem_fdt"
  BY MemPlace DEF init_get_mem_fdt
<1>2. kern_reg = JunkReg /\ MemSearch("init_get_mem_fdt", kv_start) /\ kv_start \in Cells
  BY <1>1, WhoIsAt, AtMem, DiscoveryAssumption
<1>3. CASE MemNode("init_get_mem_fdt")
  <2>1. MemSearch("init_get_mem_fdt", kv_start)' /\ Kept' /\ kern_reg' = kern_reg
    BY <1>2, <1>3, MemNodeStep
  <2>2. BootSearch'
    BY <2>1 DEF BootSearch
  <2>3. QED
    BY <1>2, <2>1, <2>2, InvParts DEF Situation
<1>4. CASE /\ MemReg("init_get_mem_fdt") /\ init_reg' = RegionOf(Result) /\ Enter("memory found")
           /\ UNCHANGED <<node, s_prop, fnd, initrd_reg, kern_reg, mem_err, initrd_err>>
  <2>1. /\ walk' = Idle /\ at' = <<"memory found", "entry">> /\ data' = data /\ depth' = depth
        /\ WalkForm'
    BY <1>4, Entered
  <2>2. /\ data.kind = "fdt" /\ init_reg' \in Regions /\ IsListedReg(data, init_reg')
    BY <1>2, <1>4, MemAnswers
  <2>3. Kept'
    BY <1>4, <2>1, <2>2, DepthKept, TypesGo DEF Inv, DiscoveryInvariant, TypeOK
  <2>4. (walk = Idle)' /\ ~is_using_atag'
    BY <2>1, <2>2 DEF Idle, is_using_atag
  <2>5. IsListedReg(data, init_reg)'
    BY <2>1, <2>2
  <2>6. BootSearch'
    BY <2>1, <2>4, <2>5 DEF BootSearch
  <2>7. QED
    BY <1>2, <1>4, <2>3, <2>6, InvParts DEF Situation
<1>5. CASE /\ NoMem("init_get_mem_fdt") /\ Enter("kinit_panic")
           /\ UNCHANGED <<node, s_prop, fnd, results>>
  <2>1. /\ walk' = Idle /\ at' = <<"kinit_panic", "entry">> /\ data' = data /\ depth' = depth
        /\ WalkForm'
    BY <1>5, Entered
  <2>2. ListedRegs(data) = {}
    BY <1>2, <1>5, MemAnswers
  <2>3. Kept' /\ kern_reg' = kern_reg
    BY <1>5, <2>1, DepthKept, TypesKept
  <2>4. (walk = Idle)' /\ ListedRegs(data') = {}
    BY <2>1, <2>2 DEF Idle
  <2>5. BootSearch'
    BY <2>1, <2>4 DEF BootSearch
  <2>6. QED
    BY <1>2, <2>3, <2>5, InvParts DEF Situation
<1>6. QED
  BY <1>3, <1>4, <1>5 DEF init_get_mem_fdt

LEMMA MlayGetPhyMemRegStep == ASSUME Inv, mlay_get_phy_mem_reg PROVE Inv'
<1>1. at[1] = "mlay_get_phy_mem_reg"
  BY MemPlace DEF mlay_get_phy_mem_reg
<1>2. kern_reg = JunkReg /\ MemSearch("mlay_get_phy_mem_reg", kp_start) /\ kp_start \in Cells
  BY <1>1, WhoIsAt, AtMem, DiscoveryAssumption
<1>3. CASE MemNode("mlay_get_phy_mem_reg")
  <2>1. MemSearch("mlay_get_phy_mem_reg", kp_start)' /\ Kept' /\ kern_reg' = kern_reg
    BY <1>2, <1>3, MemNodeStep
  <2>2. KernelSearch'
    BY <2>1 DEF KernelSearch
  <2>3. QED
    BY <1>2, <2>1, <2>2, InvParts DEF Situation
<1>4. ASSUME Call(fdt_get_node(<<"chosen">>), <<"mlay_get_initrd_reg", "chosen">>)
      PROVE  /\ InitrdSearch' /\ WalkForm' /\ data' = data /\ depth' = depth
  <2>1. /\ walk' = fdt_get_node(<<"chosen">>) /\ at' = <<"mlay_get_initrd_reg", "chosen">>
        /\ data' = data /\ depth' = depth
    BY <1>4 DEF Call
  <2>2. NodeSearch(<<"mlay_get_initrd_reg", "chosen">>, <<"chosen">>)' /\ WalkForm'
    BY <2>1, NodeSearchStarts
  <2>3. QED
    BY <2>1, <2>2 DEF InitrdSearch
<1>5. CASE /\ MemReg("mlay_get_phy_mem_reg") /\ kern_reg' = RegionOf(Result) /\ mem_err' = "ESUCC"
           /\ Call(fdt_get_node(<<"chosen">>), <<"mlay_get_initrd_reg", "chosen">>)
           /\ UNCHANGED <<node, s_prop, fnd, init_reg, initrd_reg, initrd_err>>
  <2>1. InitrdSearch' /\ WalkForm' /\ data' = data /\ depth' = depth
    BY <1>4, <1>5
  <2>2. ListedRegs(data) # {} /\ kern_reg' \in Regions /\ IsListedReg(data, kern_reg')
    BY <1>2, <1>5, MemAnswers
  <2>3. Kept'
    BY <1>5, <2>1, <2>2, DepthKept, TypesGo DEF Inv, DiscoveryInvariant, TypeOK
  <2>4. KernelMemory'
    BY <1>5, <2>1, <2>2 DEF KernelMemory
  <2>5. QED
    BY <2>1, <2>3, <2>4, InvParts DEF Situation
<1>6. CASE /\ NoMem("mlay_get_phy_mem_reg") /\ mem_err' = "ENOTFND"
           /\ Call(fdt_get_node(<<"chosen">>), <<"mlay_get_initrd_reg", "chosen">>)
           /\ UNCHANGED <<node, s_prop, fnd, init_reg, initrd_reg, kern_reg, initrd_err>>
  <2>1. InitrdSearch' /\ WalkForm' /\ data' = data /\ depth' = depth
    BY <1>4, <1>6
  <2>2. ListedRegs(data) = {}
    BY <1>2, <1>6, MemAnswers
  <2>3. Kept'
    BY <1>6, <2>1, DepthKept, TypesGo DEF Inv, DiscoveryInvariant, TypeOK
  <2>4. KernelMemory'
    BY <1>2, <1>6, <2>1, <2>2 DEF KernelMemory
  <2>5. QED
    BY <2>1, <2>3, <2>4, InvParts DEF Situation
<1>7. QED
  BY <1>3, <1>5, <1>6 DEF mlay_get_phy_mem_reg

(* init_get_mem_atag: the best memory of the tags it has passed.               *)
LEMMA InitGetMemAtagStep == ASSUME Inv, init_get_mem_atag PROVE Inv'
<1>1. Returned /\ (at = <<"init_get_mem_atag", "first">> \/ at = <<"init_get_mem_atag", "next">>)
  BY DEF init_get_mem_atag, At
<1>2. at[1] = "init_get_mem_atag"
  BY <1>1
<1>3. /\ kern_reg = JunkReg /\ is_using_atag /\ ~is_using_fdt /\ TagSearch(at, "ATAG_MEM")
      /\ TagList(data)
  BY <1>2, WhoIsAt, AtList, Given DEF is_using_atag, is_using_fdt, TagList, Inv
<1>4. /\ {fnd, init_reg, initrd_reg, kern_reg} \subseteq Regions
      /\ {mem_err, initrd_err} \subseteq {NULL, "ESUCC", "ENOTFND"}
      /\ Cursor(data, node) /\ Cursor(data, s_prop)
  BY DEF Inv, DiscoveryInvariant, TypeOK
<1>5. CASE /\ walk.cur # NULL
           /\ fnd' = IF at[2] = "first" THEN AtagRegion(walk.cur) ELSE Joined(fnd, AtagRegion(walk.cur))
           /\ Call(get_next_tag(walk.cur, "ATAG_MEM"), <<"init_get_mem_atag", "next">>)
           /\ UNCHANGED <<node, s_prop, results>>
  <2>1. PICK k : k = walk.cur
    OBVIOUS
  <2>2. k \in DOMAIN data.tags /\ data.tags[k].tag = "ATAG_MEM"
    BY <1>1, <1>3, <1>5, <2>1, Answers
  <2>3. k \in ListedMemory(data.tags) /\ Place = k
    BY <1>5, <2>1, <2>2 DEF ListedMemory, Place
  <2>4. k \in Nat
    BY <1>3, <2>3, ListFacts
  <2>5. AtagRegion(k) = Region(data.tags[k].start, data.tags[k].sz)
    BY DEF AtagRegion
  <2>6. fnd' \in Regions /\ IsBest(data, fnd', k + 1)
    <3>1. CASE at = <<"init_get_mem_atag", "first">>
      <4>1. \A j \in ListedMemory(data.tags) : k <= j
        BY <2>3, <3>1, AtList
      <4>2. at[2] = "first"
        BY <3>1
      <4>3. fnd' = AtagRegion(k)
        BY <1>5, <2>1, <4>2
      <4>4. QED
        BY <1>3, <2>3, <2>5, <4>1, <4>3, FirstBest
    <3>2. CASE at = <<"init_get_mem_atag", "next">>
      <4>1. IsBest(data, fnd, k) /\ fnd \in Regions
        BY <1>4, <2>3, <3>2, AtList
      <4>2. at[2] # "first"
        BY <3>2
      <4>3. fnd' = Joined(fnd, AtagRegion(k))
        BY <1>5, <2>1, <4>2
      <4>4. QED
        BY <1>3, <2>3, <2>5, <4>1, <4>3, JoinBest
    <3>3. QED
      BY <1>1, <3>1, <3>2
  <2>7. PICK n \in Nat \ {0} : n = k + 1
    BY <2>4
  <2>8. /\ walk' = [op |-> "find_tag", arg |-> "ATAG_MEM", cur |-> n]
        /\ at' = <<"init_get_mem_atag", "next">> /\ data' = data /\ depth' = depth
    BY <1>5, <2>1, <2>7 DEF Call, get_next_tag, next_tag
  <2>9. TagSearch(<<"init_get_mem_atag", "next">>, "ATAG_MEM")' /\ WalkForm' /\ walk'.cur = n
    BY <2>8, TagSearchStarts
  <2>10. Place' = n /\ is_using_atag'
    BY <1>3, <2>8, <2>9, DiscoveryAssumption DEF Place, is_using_atag
  <2>11. IsBest(data, fnd, Place)'
    BY <2>6, <2>7, <2>8, <2>10
  <2>12. BootSearch'
    BY <2>9, <2>10, <2>11 DEF BootSearch, AtagSearch
  <2>13. kern_reg' = kern_reg /\ Kept'
    BY <1>4, <1>5, <2>6, <2>8, <2>9, DepthKept, TypesGo DEF results
  <2>14. QED
    BY <1>3, <2>12, <2>13, InvParts DEF Situation
<1>6. CASE /\ at = <<"init_get_mem_atag", "next">> /\ walk.cur = NULL /\ init_reg' = fnd
           /\ Enter("memory found")
           /\ UNCHANGED <<node, s_prop, fnd, initrd_reg, kern_reg, mem_err, initrd_err>>
  <2>1. /\ walk' = Idle /\ at' = <<"memory found", "entry">> /\ data' = data /\ depth' = depth
        /\ WalkForm'
    BY <1>6, Entered
  <2>2. IsBest(data, fnd, Len(data.tags) + 1)
    BY <1>6, AtList DEF Place
  <2>3. Kept'
    BY <1>4, <1>6, <2>1, DepthKept, TypesGo
  <2>4. (walk = Idle)' /\ ~is_using_fdt'
    BY <1>3, <2>1 DEF Idle, is_using_fdt
  <2>5. IsBest(data, init_reg, Len(data.tags) + 1)'
    BY <1>6, <2>1, <2>2
  <2>6. BootSearch'
    BY <2>1, <2>4, <2>5 DEF BootSearch
  <2>7. QED
    BY <1>3, <1>6, <2>3, <2>6, InvParts DEF Situation
<1>7. CASE Enter("kinit_panic") /\ UNCHANGED <<node, s_prop, fnd, results>>
  <2>1. /\ walk' = Idle /\ at' = <<"kinit_panic", "entry">> /\ data' = data /\ depth' = depth
        /\ WalkForm'
    BY <1>7, Entered
  <2>2. Kept' /\ kern_reg' = kern_reg
    BY <1>7, <2>1, DepthKept, TypesKept
  <2>3. (walk = Idle)' /\ ~is_using_fdt'
    BY <1>3, <2>1 DEF Idle, is_using_fdt
  <2>4. BootSearch'
    BY <2>1, <2>3 DEF BootSearch
  <2>5. QED
    BY <1>3, <2>2, <2>4, InvParts DEF Situation
<1>8. QED
  BY <1>5, <1>6, <1>7 DEF init_get_mem_atag, At, Result

LEMMA CheckMemoryStep == ASSUME Inv, CheckMemory PROVE Inv'
<1>1. at = <<"memory found", "entry">> /\ UNCHANGED <<node, s_prop, fnd, results>>
  BY DEF CheckMemory
<1>2. kern_reg = JunkReg /\ (is_using_fdt => IsListedReg(data, init_reg))
  <2>1. at[1] = "memory found"
    BY <1>1
  <2>2. QED
    BY <2>1, WhoIsAt, AtBoot DEF BestKnown
<1>3. CASE Enter("kinit_panic")
  <2>1. /\ walk' = Idle /\ at' = <<"kinit_panic", "entry">> /\ data' = data /\ depth' = depth
        /\ WalkForm'
    BY <1>3, Entered
  <2>2. Kept' /\ kern_reg' = kern_reg /\ init_reg' = init_reg
    BY <1>1, <2>1, DepthKept, TypesKept
  <2>3. (walk = Idle)' /\ (is_using_fdt' => IsListedReg(data', init_reg'))
    BY <1>2, <2>1, <2>2 DEF Idle, is_using_fdt
  <2>4. BootSearch'
    BY <2>1, <2>3 DEF BootSearch
  <2>5. QED
    BY <1>2, <2>2, <2>4, InvParts DEF Situation
<1>4. CASE Call(tag_exists("ATAG_INITRD2"), <<"vexpress_init", "initrd">>)
  <2>1. /\ walk' = [op |-> "find_tag", arg |-> "ATAG_INITRD2", cur |-> 1]
        /\ at' = <<"vexpress_init", "initrd">> /\ data' = data /\ depth' = depth
    BY <1>4 DEF Call, tag_exists
  <2>2. TagSearch(<<"vexpress_init", "initrd">>, "ATAG_INITRD2")' /\ WalkForm'
    BY <2>1, TagSearchStarts
  <2>3. Kept' /\ kern_reg' = kern_reg
    BY <1>1, <2>1, <2>2, DepthKept, TypesKept
  <2>4. BootSearch'
    BY <2>2 DEF BootSearch
  <2>5. QED
    BY <1>2, <2>3, <2>4, InvParts DEF Situation
<1>5. QED
  BY <1>3, <1>4 DEF CheckMemory

LEMMA GetInitrdStep == ASSUME Inv, GetInitrd PROVE Inv'
<1>1. at[1] \in {"vexpress_init", "init_get_initrd_atag"}
  <2>1. at = <<"vexpress_init", "initrd">> \/ at = <<"init_get_initrd_atag", "tag">>
    BY DEF GetInitrd, At
  <2>2. QED
    BY <2>1
<1>2. kern_reg = JunkReg
  BY <1>1, WhoIsAt
<1>3. CASE Enter("kernel_init") /\ UNCHANGED <<node, s_prop, fnd, results>>
  <2>1. /\ walk' = Idle /\ at' = <<"kernel_init", "entry">> /\ data' = data /\ depth' = depth
        /\ WalkForm'
    BY <1>3, Entered
  <2>2. Kept' /\ kern_reg' = kern_reg
    BY <1>3, <2>1, DepthKept, TypesKept
  <2>3. KernelSearch'
    BY <2>1 DEF KernelSearch, Idle
  <2>4. QED
    BY <1>2, <2>2, <2>3, InvParts DEF Situation
<1>4. CASE /\ Call(get_tag("ATAG_INITRD2"), <<"init_get_initrd_atag", "tag">>)
           /\ UNCHANGED <<node, s_prop, fnd, results>>
  <2>1. /\ walk' = [op |-> "find_tag", arg |-> "ATAG_INITRD2", cur |-> 2]
        /\ at' = <<"init_get_initrd_atag", "tag">> /\ data' = data /\ depth' = depth
    BY <1>4 DEF Call, get_tag, get_next_tag, next_tag
  <2>2. TagSearch(<<"init_get_initrd_atag", "tag">>, "ATAG_INITRD2")' /\ WalkForm'
    BY <2>1, TagSearchStarts
  <2>3. Kept' /\ kern_reg' = kern_reg
    BY <1>4, <2>1, <2>2, DepthKept, TypesKept
  <2>4. BootSearch'
    BY <2>2 DEF BootSearch
  <2>5. QED
    BY <1>2, <2>3, <2>4, InvParts DEF Situation
<1>5. CASE /\ At(<<"init_get_initrd_atag", "tag">>)
           /\ initrd_reg' = IF walk.cur = NULL THEN initrd_reg ELSE AtagRegion(walk.cur)
           /\ Enter("kernel_init")
           /\ UNCHANGED <<node, s_prop, fnd, init_reg, kern_reg, mem_err, initrd_err>>
  <2>1. /\ walk' = Idle /\ at' = <<"kernel_init", "entry">> /\ data' = data /\ depth' = depth
        /\ WalkForm'
    BY <1>5, Entered
  <2>2. initrd_reg \in Regions
    BY DEF Inv, DiscoveryInvariant, TypeOK
  <2>3. ASSUME walk.cur # NULL PROVE AtagRegion(walk.cur) \in Regions
    <3>1. at = <<"init_get_initrd_atag", "tag">> /\ Returned
      BY <1>5 DEF At
    <3>2. TagSearch(at, "ATAG_INITRD2")
      BY <3>1, AtBoot
    <3>3. is_using_atag /\ walk.cur \in DOMAIN data.tags
      BY <2>3, <3>1, <3>2, Answers
    <3>4. TagList(data)
      BY <3>3, Given DEF TagList, is_using_atag, Inv
    <3>5. data.tags[walk.cur].start \in Cells /\ data.tags[walk.cur].sz \in Cells
      BY <3>3, <3>4, ListFacts
    <3>6. QED
      BY <3>5 DEF AtagRegion, Region, Regions
  <2>4. initrd_reg' \in Regions
    BY <1>5, <2>2, <2>3
  <2>5. Kept'
    BY <1>5, <2>1, <2>4, DepthKept, TypesGo DEF Inv, DiscoveryInvariant, TypeOK
  <2>6. KernelSearch'
    BY <2>1 DEF KernelSearch, Idle
  <2>7. QED
    BY <1>2, <1>5, <2>5, <2>6, InvParts DEF Situation
<1>6. QED
  BY <1>3, <1>4, <1>5 DEF GetInitrd, Result

LEMMA KernelInitStep == ASSUME Inv, KernelInit PROVE Inv'
<1>1. at[1] = "kernel_init"
  <2>1. at = <<"kernel_init", "entry">> \/ at = <<"kernel_init", "dumped">>
    BY DEF KernelInit, At
  <2>2. QED
    BY <2>1
<1>2. kern_reg = JunkReg
  BY <1>1, WhoIsAt
<1>3. CASE /\ depth' = ClearedTabs /\ walk' = dump_fdt /\ at' = <<"kernel_init", "dumped">>
           /\ UNCHANGED <<data, node, s_prop, fnd, results>>
  <2>1. /\ WalkForm' /\ walk'.op = "dump_fdt" /\ Cursor(data, walk'.cur)
        /\ DumpDepth(data, walk'.cur) = 0 /\ depth' = 0 /\ data' = data
    BY <1>3, DumpStarts DEF ClearedTabs
  <2>2. Kept' /\ kern_reg' = kern_reg
    BY <1>3, <2>1, TypesKept
  <2>3. KernelSearch'
    BY <1>3, <2>1 DEF KernelSearch
  <2>4. QED
    BY <1>2, <2>2, <2>3, InvParts DEF Situation
<1>4. CASE /\ Call(fdt_get_node(memory_at(kp_start)), <<"mlay_get_phy_mem_reg", "exact">>)
           /\ UNCHANGED <<node, s_prop, fnd, results>>
  <2>1. /\ walk' = fdt_get_node(memory_at(kp_start)) /\ at' = <<"mlay_get_phy_mem_reg", "exact">>
        /\ data' = data /\ depth' = depth
    BY <1>4 DEF Call
  <2>2. NodeSearch(<<"mlay_get_phy_mem_reg", "exact">>, memory_at(kp_start))' /\ WalkForm'
    BY <2>1, NodeSearchStarts
  <2>3. Kept' /\ kern_reg' = kern_reg
    BY <1>4, <2>1, <2>2, DepthKept, TypesKept
  <2>4. MemSearch("mlay_get_phy_mem_reg", kp_start)'
    BY <2>2 DEF MemSearch
  <2>5. KernelSearch'
    BY <2>4 DEF KernelSearch
  <2>6. QED
    BY <1>2, <2>3, <2>5, InvParts DEF Situation
<1>5. QED
  BY <1>3, <1>4 DEF KernelInit

\* What InitrdOutcome says of an errno, and of a region when there are a start and an end.
Reported(d, err, reg) ==
    d.kind = "fdt" =>
        LET start == Props(d, <<"chosen">>, <<"linux,", "initrd-start">>)
            end   == Props(d, <<"chosen">>, <<"linux,", "initrd-end">>)
            short == Props(d, <<"chosen">>, <<"initrd-start">>)
        IN  /\ err = IF (start # {} /\ end # {}) \/ (start = {} /\ short # {})
                     THEN "ESUCC" ELSE "ENOTFND"
            /\ start # {} /\ end # {} =>
                  reg = Region(ByteOf(d, start), Wrap(ByteOf(d, end) - ByteOf(d, start)))

(* The ends of mlay_get_initrd_reg.                                            *)
LEMMA InitrdEnds ==
    ASSUME Inv, Enter("halt"), UNCHANGED <<node, s_prop, fnd, init_reg, initrd_reg, mem_err>>,
           kern_reg' \in Regions, initrd_err' \in {"ESUCC", "ENOTFND"},
           Reported(data, initrd_err', kern_reg'),
           \/ Props(data, <<"chosen">>, <<"linux,", "initrd-start">>) # {}
              /\ Props(data, <<"chosen">>, <<"linux,", "initrd-end">>) # {}
           \/ KernelMemory /\ kern_reg' = kern_reg
    PROVE  Inv'
<1>1. /\ walk' = Idle /\ at' = <<"halt", "entry">> /\ data' = data /\ depth' = depth
      /\ WalkForm'
  BY Entered
<1>2. Kept'
  BY <1>1, DepthKept, TypesGo DEF Inv, DiscoveryInvariant, TypeOK
<1>3. Reported(data, initrd_err, kern_reg)'
  BY <1>1
<1>4. InitrdOutcome'
  <2>1. \/ (/\ Props(data, <<"chosen">>, <<"linux,", "initrd-start">>) # {}
            /\ Props(data, <<"chosen">>, <<"linux,", "initrd-end">>) # {})'
        \/ KernelMemory'
    BY <1>1, KernelMemoryKept
  <2>2. QED
    BY <1>3, <2>1 DEF InitrdOutcome, Reported, is_using_fdt
<1>5. (walk = Idle)'
  BY <1>1 DEF Idle
<1>6. QED
  BY <1>1, <1>2, <1>4, <1>5, InvParts DEF Situation

LEMMA InitrdFailedStep ==
    ASSUME Inv, KernelMemory,
           InitrdFailed("chosen") \/ InitrdFailed("linux,initrd-end") \/ InitrdFailed("initrd-start")
    PROVE  Inv'
<1> DEFINE start == Props(data, <<"chosen">>, <<"linux,", "initrd-start">>)
           end   == Props(data, <<"chosen">>, <<"linux,", "initrd-end">>)
           short == Props(data, <<"chosen">>, <<"initrd-start">>)
<1>1. /\ Returned /\ walk.cur = NULL /\ initrd_err' = "ENOTFND" /\ Enter("halt")
      /\ UNCHANGED <<node, s_prop, fnd, init_reg, initrd_reg, kern_reg, mem_err>>
  BY DEF InitrdFailed, At, Result
<1>2. /\ start = {} \/ end = {}
      /\ start = {} => short = {}
  <2>1. CASE at = <<"mlay_get_initrd_reg", "chosen">>
    <3>1. NodeFound(data, <<"chosen">>, walk.cur)
      BY <1>1, <2>1, AtInitrd, Answers
    <3>2. QED
      BY <1>1, <3>1 DEF NodeFound, Props
  <2>2. CASE at = <<"mlay_get_initrd_reg", "linux,initrd-end">>
    <3>1. /\ PropFound(data, <<"chosen">>, <<"linux,", "initrd-end">>, walk.cur)
          /\ s_prop # NULL /\ PropFound(data, <<"chosen">>, <<"linux,", "initrd-start">>, s_prop)
      BY <1>1, <2>2, AtInitrd, Answers
    <3>2. QED
      BY <1>1, <3>1 DEF PropFound
  <2>3. CASE at = <<"mlay_get_initrd_reg", "initrd-start">>
    <3>1. PropFound(data, <<"chosen">>, <<"initrd-start">>, walk.cur) /\ start = {}
      BY <1>1, <2>3, AtInitrd, Answers
    <3>2. QED
      BY <1>1, <3>1 DEF PropFound
  <2>4. QED
    BY <2>1, <2>2, <2>3 DEF InitrdFailed, At
<1>4. Reported(data, "ENOTFND", kern_reg)
  BY <1>2 DEF Reported
<1>5. kern_reg \in Regions
  BY DEF Inv, DiscoveryInvariant, TypeOK
<1>6. QED
  BY <1>1, <1>4, <1>5, InitrdEnds

(* mlay_get_initrd_reg: the two properties of the node chosen, or the short    *)
(* form of the first.                                                          *)
LEMMA MlayGetInitrdRegStep == ASSUME Inv, mlay_get_initrd_reg PROVE Inv'
<1>1. Returned /\ at[1] = "mlay_get_initrd_reg"
  <2>1. /\ Returned
        /\ \/ at = <<"mlay_get_initrd_reg", "chosen">>
           \/ at = <<"mlay_get_initrd_reg", "linux,initrd-start">>
           \/ at = <<"mlay_get_initrd_reg", "linux,initrd-end">>
           \/ at = <<"mlay_get_initrd_reg", "initrd-start">>
    BY DEF mlay_get_initrd_reg, InitrdFailed, At
  <2>2. QED
    BY <2>1, PlaceOf
<1>2. KernelMemory
  BY <1>1, WhoIsAt
<1>3. /\ {fnd, init_reg, initrd_reg, kern_reg} \subseteq Regions
      /\ {mem_err, initrd_err} \subseteq {NULL, "ESUCC", "ENOTFND"}
      /\ Cursor(data, node) /\ Cursor(data, s_prop) /\ IsBootData(data)
  BY Given DEF Inv, DiscoveryInvariant, TypeOK
<1>4. CASE InitrdFailed("chosen") \/ InitrdFailed("linux,initrd-end") \/ InitrdFailed("initrd-start")
  BY <1>2, <1>4, InitrdFailedStep
<1>5. CASE /\ at = <<"mlay_get_initrd_reg", "chosen">> /\ walk.cur # NULL
           /\ node' = walk.cur
           /\ Call(fdt_get_property(walk.cur, <<"linux,", "initrd-start">>),
                   <<"mlay_get_initrd_reg", "linux,initrd-start">>)
           /\ UNCHANGED <<s_prop, fnd, results>>
  <2>1. NodeFound(data, <<"chosen">>, walk.cur)
    BY <1>1, <1>5, AtInitrd, Answers
  <2>2. /\ walk' = fdt_get_property(node', <<"linux,", "initrd-start">>)
        /\ at' = <<"mlay_get_initrd_reg", "linux,initrd-start">>
        /\ data' = data /\ depth' = depth /\ node' # NULL
    BY <1>5 DEF Call
  <2>3. /\ PropSearch(<<"mlay_get_initrd_reg", "linux,initrd-start">>, <<"chosen">>,
                      <<"linux,", "initrd-start">>)'
        /\ WalkForm' /\ Cursor(data, node')
    BY <1>5, <2>1, <2>2, PropSearchStarts
  <2>4. Kept' /\ kern_reg' = kern_reg /\ mem_err' = mem_err
    BY <1>3, <1>5, <2>2, <2>3, DepthKept, TypesGo DEF results
  <2>5. InitrdSearch'
    BY <2>3 DEF InitrdSearch
  <2>6. QED
    BY <1>2, <2>2, <2>4, <2>5, KernelMemoryKept, InvParts DEF Situation
<1>6. CASE /\ at = <<"mlay_get_initrd_reg", "linux,initrd-start">> /\ s_prop' = walk.cur
           /\ UNCHANGED <<node, fnd, results>>
           /\ \/ /\ walk.cur # NULL
                 /\ Call(fdt_get_property(node, <<"linux,", "initrd-end">>),
                         <<"mlay_get_initrd_reg", "linux,initrd-end">>)
              \/ /\ walk.cur = NULL
                 /\ Call(fdt_get_property(node, <<"initrd-start">>),
                         <<"mlay_get_initrd_reg", "initrd-start">>)
  <2>1. /\ PropFound(data, <<"chosen">>, <<"linux,", "initrd-start">>, walk.cur)
        /\ Nodes(data, <<"chosen">>) # {} /\ NodeFound(data, <<"chosen">>, node) /\ node # NULL
    BY <1>1, <1>6, AtInitrd, Answers
  <2>2. Structure(data)
    BY <1>3, <2>1 DEF Structure, Nodes
  <2>3. Cursor(data, s_prop')
    <3>1. Cursor(data, walk.cur)
      BY <2>1, <2>2, FoundIsCursor
    <3>2. QED
      BY <1>6, <3>1
  <2>4. data' = data /\ depth' = depth /\ node' = node
    BY <1>6 DEF Call
  <2>5. ASSUME WalkForm' PROVE Kept' /\ kern_reg' = kern_reg /\ KernelMemory'
    <3>1. Kept' /\ kern_reg' = kern_reg /\ mem_err' = mem_err
      BY <1>3, <1>6, <2>3, <2>4, <2>5, DepthKept, TypesGo DEF results
    <3>2. QED
      BY <1>2, <2>4, <3>1, KernelMemoryKept
  <2>6. CASE /\ walk.cur # NULL
             /\ Call(fdt_get_property(node, <<"linux,", "initrd-end">>),
                     <<"mlay_get_initrd_reg", "linux,initrd-end">>)
    <3>1. /\ walk' = fdt_get_property(node', <<"linux,", "initrd-end">>)
          /\ at' = <<"mlay_get_initrd_reg", "linux,initrd-end">>
      BY <2>4, <2>6 DEF Call
    <3>2. /\ PropSearch(<<"mlay_get_initrd_reg", "linux,initrd-end">>, <<"chosen">>,
                        <<"linux,", "initrd-end">>)'
          /\ WalkForm'
      BY <2>1, <2>4, <3>1, PropSearchStarts
    <3>3. (s_prop # NULL /\ PropFound(data, <<"chosen">>, <<"linux,", "initrd-start">>, s_prop))'
      BY <1>6, <2>1, <2>4, <2>6
    <3>4. InitrdSearch'
      BY <3>2, <3>3 DEF InitrdSearch
    <3>5. QED
      BY <2>5, <3>2, <3>4, InvParts DEF Situation
  <2>7. CASE /\ walk.cur = NULL
             /\ Call(fdt_get_property(node, <<"initrd-start">>),
                     <<"mlay_get_initrd_reg", "initrd-start">>)
    <3>1. /\ walk' = fdt_get_property(node', <<"initrd-start">>)
          /\ at' = <<"mlay_get_initrd_reg", "initrd-start">>
      BY <2>4, <2>7 DEF Call
    <3>2. PropSearch(<<"mlay_get_initrd_reg", "initrd-start">>, <<"chosen">>, <<"initrd-start">>)'
          /\ WalkForm'
      BY <2>1, <2>4, <3>1, PropSearchStarts
    <3>3. (Props(data, <<"chosen">>, <<"linux,", "initrd-start">>) = {})'
      BY <2>1, <2>4, <2>7 DEF PropFound
    <3>4. InitrdSearch'
      BY <3>2, <3>3 DEF InitrdSearch
    <3>5. QED
      BY <2>5, <3>2, <3>4, InvParts DEF Situation
  <2>8. QED
    BY <1>6, <2>6, <2>7
<1>7. CASE /\ at = <<"mlay_get_initrd_reg", "linux,initrd-end">> /\ walk.cur # NULL
           /\ kern_reg' = Region(FirstByteOf(s_prop), Wrap(FirstByteOf(walk.cur) - FirstByteOf(s_prop)))
           /\ initrd_err' = "ESUCC" /\ Enter("halt")
           /\ UNCHANGED <<node, s_prop, fnd, init_reg, initrd_reg, mem_err>>
  <2>1. /\ PropFound(data, <<"chosen">>, <<"linux,", "initrd-end">>, walk.cur)
        /\ Nodes(data, <<"chosen">>) # {}
        /\ s_prop # NULL /\ PropFound(data, <<"chosen">>, <<"linux,", "initrd-start">>, s_prop)
    BY <1>1, <1>7, AtInitrd, Answers
  <2>2. PICK s, e : s = FirstByteOf(s_prop) /\ e = FirstByteOf(walk.cur)
    OBVIOUS
  <2>3. s \in Cells /\ e \in Cells
    BY <1>7, <2>1, <2>2, FoundByte
  <2>4. Wrap(e - s) \in Cells
    BY <2>3, WrapIsCell DEF Cells
  <2>5. kern_reg' \in Regions
    BY <1>7, <2>2, <2>3, <2>4 DEF Region, Regions
  <2>6. /\ Props(data, <<"chosen">>, <<"linux,", "initrd-start">>) # {}
        /\ Props(data, <<"chosen">>, <<"linux,", "initrd-end">>) # {}
    BY <1>7, <2>1 DEF PropFound
  <2>7. /\ s = ByteOf(data, Props(data, <<"chosen">>, <<"linux,", "initrd-start">>))
        /\ e = ByteOf(data, Props(data, <<"chosen">>, <<"linux,", "initrd-end">>))
    BY <1>7, <2>1, <2>2, FoundByte
  <2>8. Reported(data, initrd_err', kern_reg')
    BY <1>7, <2>2, <2>6, <2>7 DEF Reported
  <2>9. QED
    BY <1>7, <2>5, <2>6, <2>8, InitrdEnds
<1>8. CASE /\ at = <<"mlay_get_initrd_reg", "initrd-start">> /\ walk.cur # NULL
           /\ initrd_err' = "ESUCC" /\ Enter("halt")
           /\ UNCHANGED <<node, s_prop, fnd, init_reg, initrd_reg, kern_reg, mem_err>>
  <2>1. /\ PropFound(data, <<"chosen">>, <<"initrd-start">>, walk.cur)
        /\ Props(data, <<"chosen">>, <<"linux,", "initrd-start">>) = {}
    BY <1>1, <1>8, AtInitrd, Answers
  <2>2. Props(data, <<"chosen">>, <<"initrd-start">>) # {}
    BY <1>8, <2>1 DEF PropFound
  <2>3. Reported(data, initrd_err', kern_reg')
    BY <1>8, <2>1, <2>2 DEF Reported
  <2>4. QED
    BY <1>2, <1>3, <1>8, <2>3, InitrdEnds
<1>9. QED
  BY <1>4, <1>5, <1>6, <1>7, <1>8 DEF mlay_get_initrd_reg, At, Result

-----------------------------------------------------------------------------
(* The invariant, and what follows from it.                                    *)

LEMMA StutterStep == ASSUME Inv, UNCHANGED vars PROVE Inv'
<1>1. /\ data' = data /\ at' = at /\ walk' = walk /\ depth' = depth /\ node' = node
      /\ s_prop' = s_prop /\ fnd' = fnd /\ init_reg' = init_reg /\ initrd_reg' = initrd_reg
      /\ kern_reg' = kern_reg /\ mem_err' = mem_err /\ initrd_err' = initrd_err
  BY DEF vars, results
<1>2. Kept' <=> Kept
  BY <1>1 DEF Kept, TypeOK
<1>3. /\ \A place, name : NodeSearch(place, name)' <=> NodeSearch(place, name)
      /\ \A place, of, name : PropSearch(place, of, name)' <=> PropSearch(place, of, name)
      /\ \A place, tag : TagSearch(place, tag)' <=> TagSearch(place, tag)
  BY <1>1 DEF NodeSearch, PropSearch, TagSearch, Returned, is_using_atag
<1>4. /\ KernelMemory' <=> KernelMemory
      /\ InitrdOutcome' <=> InitrdOutcome
      /\ (walk = Idle)' <=> walk = Idle
  BY <1>1 DEF KernelMemory, InitrdOutcome, is_using_fdt, Idle
<1>5. \A fn, start : MemSearch(fn, start)' <=> MemSearch(fn, start)
  BY <1>3 DEF MemSearch
<1>6. AtagSearch' <=> AtagSearch
  BY <1>1, <1>3 DEF AtagSearch, is_using_atag, Place
<1>7. BootSearch' <=> BootSearch
  BY <1>1, <1>3, <1>4, <1>5, <1>6 DEF BootSearch, Returned, is_using_fdt, is_using_atag
<1>8. KernelSearch' <=> KernelSearch
  BY <1>1, <1>4, <1>5 DEF KernelSearch, Returned
<1>9. InitrdSearch' <=> InitrdSearch
  BY <1>1, <1>3 DEF InitrdSearch
<1>10. Situation' <=> Situation
  BY <1>1, <1>4, <1>7, <1>8, <1>9 DEF Situation
<1>11. QED
  BY <1>2, <1>10, InvParts

LEMMA InvStarts == ASSUME Init PROVE Inv
<1>1. Region(0, 0) \in Regions /\ JunkReg \in Regions
  <2>1. 0 \in Cells
    BY WrapIsCell DEF Cells
  <2>2. QED
    BY <2>1, DiscoveryAssumption DEF Region, Regions
<1>2. data.kind \in {"fdt", "atag", "none"}
  BY Given DEF Init, IsBootData
<1>3. WalkForm
  BY DEF Init, Idle, WalkForm
<1>4. depth \in Int
  BY DiscoveryAssumption DEF Init
<1>5. TypeOK
  BY <1>1, <1>2, <1>3, <1>4 DEF Init, TypeOK, WalkForm
<1>6. Cursor(data, node) /\ Cursor(data, s_prop)
  BY DEF Init, Cursor
<1>7. BootSearch \/ KernelSearch
  BY DEF Init, BootSearch, KernelSearch
<1>8. QED
  BY <1>5, <1>6, <1>7 DEF Init, Inv, DiscoveryInvariant, Situation

LEMMA InvStep == ASSUME Inv, [Next]_vars PROVE Inv'
<1>1. CASE Library
  BY <1>1, DumpStep, NodeStep, PropStep, FindStep DEF Library
<1>2. CASE Callers
  BY <1>2, VexpressInitStep, InitGetMemStep, InitGetMemFdtStep, InitGetMemAtagStep, CheckMemoryStep,
     GetInitrdStep, KernelInitStep, MlayGetPhyMemRegStep, MlayGetInitrdRegStep DEF Callers
<1>3. CASE Halted
  BY <1>3, StutterStep DEF Halted
<1>4. CASE UNCHANGED vars
  BY <1>4, StutterStep
<1>5. QED
  BY <1>1, <1>2, <1>3, <1>4 DEF Next

LEMMA InvAlways == Spec => []Inv
<1>1. Init => Inv
  BY InvStarts
<1>2. Inv /\ [Next]_vars => Inv'
  BY InvStep
<1>3. QED
  BY <1>1, <1>2, PTL DEF Spec

(* At every place of the program the search under way has passed nothing it    *)
(* looks for, and what vexpress_init and kernel_init keep is what their        *)
(* searches have found: the inductive invariant of fdt.c, atag.h and their     *)
(* callers.                                                                    *)
THEOREM SearchesKeepTheirPlace == Spec => []DiscoveryInvariant
<1>1. Inv => DiscoveryInvariant
  BY DEF Inv
<1>2. QED
  BY <1>1, InvAlways, PTL

(* A walk of a tree is at the start of a tag, always: the sizes that           *)
(* fdt_get_next_tag adds up are those of the layout, for every tree.           *)
THEOREM WalksAlwaysOnTags == Spec => []WalksStayOnTags
<1>1. ASSUME Inv PROVE WalksStayOnTags
  <2>1. TypeOK /\ Cursor(data, node) /\ Cursor(data, s_prop) /\ IsBootData(data)
    BY <1>1, Given DEF Inv, DiscoveryInvariant
  <2>2. SUFFICES ASSUME is_using_fdt, walk.op # "find_tag" PROVE Cursor(data, walk.cur)
    BY <2>1 DEF WalksStayOnTags, Cursor, OnTag, is_using_fdt
  <2>3. ~is_using_atag /\ Structure(data)
    BY <2>1, <2>2 DEF is_using_fdt, is_using_atag, Structure
  <2>4. Cursor(data, NULL) /\ Idle.cur = NULL
    BY DEF Cursor, Idle
  <2>5. \A place, name : NodeSearch(place, name) => Cursor(data, walk.cur)
    BY <2>1, PassedCursor, FoundCursor DEF NodeSearch
  <2>6. \A place, of, name : PropSearch(place, of, name) => Cursor(data, walk.cur)
    BY <2>3, PropRound, FoundIsCursor DEF PropSearch
  <2>7. \A place, tag : TagSearch(place, tag) => Cursor(data, walk.cur)
    BY <2>2, <2>3, <2>4 DEF TagSearch
  <2>8. \A fn, start : MemSearch(fn, start) => Cursor(data, walk.cur)
    BY <2>5, <2>6 DEF MemSearch
  <2>9. ~AtagSearch
    BY <2>3 DEF AtagSearch
  <2>10. BootSearch => Cursor(data, walk.cur)
    BY <2>4, <2>7, <2>8, <2>9 DEF BootSearch
  <2>11. KernelSearch => Cursor(data, walk.cur)
    BY <2>4, <2>8 DEF KernelSearch
  <2>12. InitrdSearch => Cursor(data, walk.cur)
    BY <2>5, <2>6 DEF InitrdSearch
  <2>13. walk = Idle => Cursor(data, walk.cur)
    BY <2>4
  <2>14. QED
    BY <1>1, <2>10, <2>11, <2>12, <2>13 DEF Inv, DiscoveryInvariant, Situation
<1>2. QED
  BY <1>1, InvAlways, PTL

LEMMA LeadFirst ==
    ASSUME NEW alike \in SUBSET Nat, NEW called \in SUBSET alike, Leads(called, alike)
    PROVE  /\ called = {} <=> alike = {}
           /\ alike # {} => FirstOf(called) = FirstOf(alike)
<1>1. called = {} <=> alike = {}
  BY DEF Leads
<1>2. ASSUME alike # {} PROVE FirstOf(called) = FirstOf(alike)
  <2>1. called \in SUBSET Nat /\ called # {}
    BY <1>1, <1>2
  <2>2. FirstOf(called) \in called /\ \A y \in called : FirstOf(called) <= y
    BY <2>1, FirstExists
  <2>3. ASSUME NEW i \in alike PROVE FirstOf(called) <= i
    <3>1. PICK j \in called : j <= i
      BY DEF Leads
    <3>2. FirstOf(called) <= j /\ FirstOf(called) \in Nat /\ j \in Nat /\ i \in Nat
      BY <2>1, <2>2
    <3>3. QED
      BY <3>1, <3>2
  <2>4. QED
    BY <2>2, <2>3, FirstIs
<1>3. QED
  BY <1>1, <1>2

(* Where the names are clear, the first node and property whose names begin    *)
(* like those searched for are the first that are called so.                   *)
LEMMA ClearNames ==
    ASSUME NEW d, Structure(d), NEW of, NEW names, NamesAreClear(d, of, names), NEW name \in names
    PROVE  /\ TheProps(d, of, name) = {} <=> Props(d, of, name) = {}
           /\ Props(d, of, name) # {} =>
                 FirstOf(TheProps(d, of, name)) = FirstOf(Props(d, of, name))
<1>1. /\ Nodes(d, of) \in SUBSET Nat /\ NodesCalled(d, of) \in SUBSET Nodes(d, of)
  BY NodesAre, TagFacts DEF NodesCalled
<1>2. /\ NodesCalled(d, of) = {} <=> Nodes(d, of) = {}
      /\ Nodes(d, of) # {} => FirstOf(NodesCalled(d, of)) = FirstOf(Nodes(d, of))
  BY <1>1, LeadFirst DEF NamesAreClear
<1>3. CASE Nodes(d, of) = {}
  BY <1>2, <1>3 DEF TheProps, Props
<1>4. CASE Nodes(d, of) # {}
  <2>1. PICK i : i = FirstOf(Nodes(d, of))
    OBVIOUS
  <2>2. i \in NodesCalled(d, of)
    BY <1>1, <1>2, <1>4, <2>1, FirstExists
  <2>3. /\ TheProps(d, of, name) = PropsCalled(d, i, name)
        /\ Props(d, of, name) = PropsNamed(d.tags, i, name)
    BY <1>2, <1>4, <2>1 DEF TheProps, Props
  <2>4. PropsNamed(d.tags, i, name) \in SUBSET Nat
    BY TagFacts DEF PropsNamed
  <2>5. PropsCalled(d, i, name) \in SUBSET PropsNamed(d.tags, i, name)
    BY DEF PropsCalled
  <2>6. Leads(PropsCalled(d, i, name), PropsNamed(d.tags, i, name))
    BY <2>2 DEF NamesAreClear
  <2>7. QED
    BY <2>3, <2>4, <2>5, <2>6, LeadFirst
<1>5. QED
  BY <1>3, <1>4

(* The memory of a tree with clear names is what the searches go by.           *)
LEMMA ClearMemory ==
    ASSUME Inv, is_using_fdt, MemoryIsClear
    PROVE  /\ HasMemory(data) <=> ListedRegs(data) # {}
           /\ \A r : MemoryIs(data, r) <=> IsListedReg(data, r)
           /\ MemoryReported <=> KernelMemory
<1>1. Structure(data)
  BY Given DEF Structure, Inv, is_using_fdt
<1>2. PICK of, name : of = <<"memory">> /\ name = <<"reg">>
  OBVIOUS
<1>3. NamesAreClear(data, of, {name}) /\ name \in {name}
  BY <1>2 DEF MemoryIsClear
<1>4. /\ TheProps(data, of, name) = {} <=> Props(data, of, name) = {}
      /\ Props(data, of, name) # {} =>
            FirstOf(TheProps(data, of, name)) = FirstOf(Props(data, of, name))
  BY <1>1, <1>3, ClearNames
<1>5. HasMemory(data) <=> ListedRegs(data) # {}
  BY <1>2, <1>4 DEF HasMemory, ListedRegs
<1>6. \A r : MemoryIs(data, r) <=> IsListedReg(data, r)
  BY <1>2, <1>4, <1>5 DEF MemoryIs, IsListedReg, ListedRegs
<1>7. QED
  BY <1>5, <1>6 DEF MemoryReported, KernelMemory

(* init_get_mem_fdt and mlay_get_phy_mem_reg find the region of the first      *)
(* memory node in every tree that has one, and nothing in the others, unless   *)
(* a name that only begins like it comes first.                                *)
THEOREM MemoryAlwaysFound == Spec => []MemoryFound
<1>1. ASSUME Inv PROVE MemoryFound
  <2>1. SUFFICES ASSUME is_using_fdt, MemoryIsClear
                 PROVE  /\ at[1] = "memory found" => MemoryIs(data, init_reg)
                        /\ at[1] = "kinit_panic" => ~HasMemory(data) \/ MemoryIs(data, init_reg)
                        /\ at = <<"mlay_get_initrd_reg", "chosen">> => MemoryReported
    BY DEF MemoryFound
  <2>2. /\ HasMemory(data) <=> ListedRegs(data) # {}
        /\ MemoryIs(data, init_reg) <=> IsListedReg(data, init_reg)
        /\ MemoryReported <=> KernelMemory
    BY <1>1, <2>1, ClearMemory
  <2>3. ASSUME at[1] = "memory found" PROVE IsListedReg(data, init_reg)
    BY <1>1, <2>1, <2>3, AtBoot DEF BestKnown
  <2>4. ASSUME at[1] = "kinit_panic"
        PROVE  ListedRegs(data) = {} \/ IsListedReg(data, init_reg)
    BY <1>1, <2>1, <2>4, AtBoot DEF PanicKnown
  <2>5. ASSUME at = <<"mlay_get_initrd_reg", "chosen">> PROVE KernelMemory
    BY <1>1, <2>5, WhoIsAt
  <2>6. QED
    BY <2>2, <2>3, <2>4, <2>5
<1>2. QED
  BY <1>1, InvAlways, PTL

(* init_get_mem_atag: the memory found is memory the list has, and no single   *)
(* tag has more, however many tags there are and however they join.            *)
THEOREM AtagMemoryAlwaysFound == Spec => []AtagMemoryFound
<1>1. ASSUME Inv PROVE AtagMemoryFound
  <2>1. SUFFICES ASSUME is_using_atag, at[1] = "memory found"
                 PROVE  /\ Addresses(init_reg) \subseteq
                              UNION {MemoryAt(data.tags, k) : k \in ListedMemory(data.tags)}
                        /\ \A k \in ListedMemory(data.tags) : data.tags[k].sz <= init_reg.size
    BY DEF AtagMemoryFound
  <2>2. IsBest(data, init_reg, Len(data.tags) + 1)
    BY <1>1, <2>1, AtBoot DEF BestKnown
  <2>3. TagList(data)
    BY <1>1, <2>1, Given DEF TagList, is_using_atag, Inv
  <2>4. Before(data, Len(data.tags) + 1) = ListedMemory(data.tags)
    <3>1. /\ ListedMemory(data.tags) \subseteq 1..Len(data.tags) /\ Len(data.tags) \in Nat
      BY <2>3, ListFacts
    <3>2. QED
      BY <3>1 DEF Before
  <2>5. QED
    BY <2>2, <2>4 DEF IsBest
<1>2. QED
  BY <1>1, InvAlways, PTL

(* From kernel_init on the tabs of dump_fdt are as many as there are nodes     *)
(* open, whatever the bss held before it was cleared.                          *)
THEOREM TabsAlwaysNesting == Spec => []TabsAreNesting
<1>1. ASSUME Inv PROVE TabsAreNesting
  <2>1. SUFFICES ASSUME at = <<"kernel_init", "dumped">>, walk.op = "dump_fdt"
                 PROVE  depth = DumpDepth(data, walk.cur)
    BY DEF TabsAreNesting, DumpDepth
  <2>2. at[1] = "kernel_init"
    BY <2>1
  <2>3. KernelSearch
    BY <1>1, <2>2, WhoIsAt
  <2>4. ~Returned /\ \A start : ~MemSearch("mlay_get_phy_mem_reg", start)
    BY <2>1, <2>2, PlaceOf DEF Returned
  <2>5. QED
    BY <2>1, <2>3, <2>4 DEF KernelSearch
<1>2. QED
  BY <1>1, InvAlways, PTL

(* What the one byte that is converted makes of a cell with its high byte alone. *)
LEMMA HighByteKept ==
    ASSUME NEW cell, OnlyHighByte(cell)
    PROVE  be32_to_cpu(Byte(Load(cell), 0)) = cell
<1>1. PICK h \in Digits : cell = Word(<<0, 0, 0, h>>)
  BY DEF OnlyHighByte, Digits
<1>2. 0 \in Digits /\ ByteValues \in Nat /\ h \in Nat
  BY ByteAssumption DEF Digits
<1>3. Byte(cell, 0) = 0 /\ Byte(cell, 1) = 0 /\ Byte(cell, 2) = 0 /\ Byte(cell, 3) = h
  BY <1>1, <1>2, WordOfBytes
<1>4. Load(cell) = Word(<<h, 0, 0, 0>>)
  BY <1>3 DEF Load
<1>5. Byte(Load(cell), 0) = h
  BY <1>2, <1>4, WordOfBytes
<1>6. Word(<<h, 0, 0, 0>>) \in Cells
  BY <1>2, WordIsCell
<1>7. Word(<<h, 0, 0, 0>>) = h
  <2>1. Word(<<h, 0, 0, 0>>) = h + ByteValues * (0 + ByteValues * (0 + ByteValues * 0))
    BY DEF Word
  <2>2. QED
    BY <1>2, <2>1
<1>8. Byte(h, 0) = h /\ Byte(h, 1) = 0 /\ Byte(h, 2) = 0 /\ Byte(h, 3) = 0
  BY <1>2, <1>7, WordOfBytes
<1>9. endswap32(h) = Word(<<0, 0, 0, h>>)
  BY <1>8 DEF endswap32
<1>10. QED
  BY <1>1, <1>5, <1>6, <1>7, <1>9, Converted

(* In every tree with clear names: a start and an end of the initrd give       *)
(* success, and their region when one byte of each is enough; a start without  *)
(* an end, or no start, gives an error and leaves the region of the memory.    *)
THEOREM InitrdAlwaysReported == Spec => []InitrdIsReported
<1>1. ASSUME Inv PROVE InitrdIsReported
  <2> DEFINE linux_start == <<"linux,", "initrd-start">>
             linux_end   == <<"linux,", "initrd-end">>
             start       == TheProps(data, <<"chosen">>, linux_start)
             end         == TheProps(data, <<"chosen">>, linux_end)
             short       == TheProps(data, <<"chosen">>, <<"initrd-start">>)
             cell(S)     == data.tags[FirstOf(S)].cells[1]
  <2>1. SUFFICES ASSUME is_using_fdt, at[1] = "halt", MemoryIsClear,
                        NamesAreClear(data, <<"chosen">>, {linux_start, linux_end, <<"initrd-start">>})
                 PROVE  /\ start # {} /\ end # {} =>
                              /\ initrd_err = "ESUCC"
                              /\ OnlyHighByte(cell(start)) /\ OnlyHighByte(cell(end)) =>
                                    kern_reg = Region(cell(start), Wrap(cell(end) - cell(start)))
                        /\ (start # {} /\ end = {}) \/ (start = {} /\ short = {}) =>
                              initrd_err = "ENOTFND" /\ MemoryReported
    BY DEF InitrdIsReported
  <2>2. Structure(data) /\ InitrdOutcome
    BY <1>1, <2>1, Given, WhoIsAt DEF Structure, Inv, is_using_fdt
  <2>3. PICK names : names = {linux_start, linux_end, <<"initrd-start">>}
    OBVIOUS
  <2>4. ASSUME NEW name \in names
        PROVE  /\ TheProps(data, <<"chosen">>, name) = {} <=> Props(data, <<"chosen">>, name) = {}
               /\ Props(data, <<"chosen">>, name) # {} =>
                     FirstOf(TheProps(data, <<"chosen">>, name)) = FirstOf(Props(data, <<"chosen">>, name))
    BY <2>1, <2>2, <2>3, ClearNames
  <2>5. /\ start = {} <=> Props(data, <<"chosen">>, linux_start) = {}
        /\ start # {} => FirstOf(start) = FirstOf(Props(data, <<"chosen">>, linux_start))
        /\ end = {} <=> Props(data, <<"chosen">>, linux_end) = {}
        /\ end # {} => FirstOf(end) = FirstOf(Props(data, <<"chosen">>, linux_end))
        /\ short = {} <=> Props(data, <<"chosen">>, <<"initrd-start">>) = {}
    <3>1. linux_start \in names /\ linux_end \in names /\ <<"initrd-start">> \in names
      BY <2>3
    <3>2. PICK s, e, i : s = linux_start /\ e = linux_end /\ i = <<"initrd-start">>
      OBVIOUS
    <3>3. s \in names /\ e \in names /\ i \in names
      BY <3>1, <3>2
    <3>4. QED
      BY <2>4, <3>2, <3>3
  <2>6. MemoryReported <=> KernelMemory
    BY <1>1, <2>1, ClearMemory
  <2> HIDE DEF start, end, short
  <2>7. ASSUME start # {}, end # {}
        PROVE  /\ initrd_err = "ESUCC"
               /\ OnlyHighByte(cell(start)) /\ OnlyHighByte(cell(end)) =>
                     kern_reg = Region(cell(start), Wrap(cell(end) - cell(start)))
    <3>1. /\ initrd_err = "ESUCC"
          /\ kern_reg = Region(ByteOf(data, start), Wrap(ByteOf(data, end) - ByteOf(data, start)))
      BY <2>1, <2>2, <2>5, <2>7 DEF InitrdOutcome, ByteOf
    <3>2. /\ OnlyHighByte(cell(start)) => ByteOf(data, start) = cell(start)
          /\ OnlyHighByte(cell(end)) => ByteOf(data, end) = cell(end)
      BY HighByteKept DEF ByteOf
    <3>3. QED
      BY <3>1, <3>2
  <2>8. ASSUME (start # {} /\ end = {}) \/ (start = {} /\ short = {})
        PROVE  initrd_err = "ENOTFND" /\ KernelMemory
    BY <2>1, <2>2, <2>5, <2>8 DEF InitrdOutcome
  <2>9. QED
    BY <2>6, <2>7, <2>8
<1>2. QED
  BY <1>1, InvAlways, PTL
=============================================================================
