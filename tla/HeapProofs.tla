-------------------------------- MODULE HeapProofs --------------------------------
(* Proofs about Heap, for every page, header and request size.                 *)
EXTENDS HeapProperties, WellFoundedInduction, TLAPS

-----------------------------------------------------------------------------
(* Sizes.                                                                      *)

LEMMA LeastElement ==
    ASSUME NEW S \in SUBSET Nat, S # {}
    PROVE  \E x \in S : \A y \in S : x <= y
<1>1. PICK x \in S : \A y \in S : ~ (<<y, x>> \in OpToRel(<, Nat))
  BY WFMin, NatLessThanWellFounded
<1>2. \A y \in S : ~(y < x)
  BY <1>1 DEF OpToRel
<1>3. QED
  BY <1>2

(* kmalloc looks for a size, and for one that is long enough as long as the    *)
(* rounding does not overflow.                                                 *)
LEMMA RoundUpType ==
    ASSUME NEW n \in Requests
    PROVE  /\ RoundUp(n) \in Nat
           /\ Above(n) # {} => RoundUp(n) >= n
<1>1. n \in Int /\ MIN_ALLOC \in Nat
  BY HeapAssumption
<1>2. CASE n < MIN_ALLOC
  BY <1>1, <1>2 DEF RoundUp
<1>3. CASE ~(n < MIN_ALLOC) /\ Above(n) = {}
  BY <1>3 DEF RoundUp
<1>4. CASE ~(n < MIN_ALLOC) /\ Above(n) # {}
  <2>1. Above(n) \in SUBSET Nat
    BY DEF Above, PowersOfTwo
  <2>2. \E p \in Above(n) : \A q \in Above(n) : p <= q
    BY <1>4, <2>1, LeastElement
  <2>3. RoundUp(n) \in Above(n)
    BY <1>4, <2>2 DEF RoundUp
  <2>4. QED
    BY <2>1, <2>3 DEF Above
<1>5. QED
  BY <1>2, <1>3, <1>4

-----------------------------------------------------------------------------
(* The list.                                                                   *)

WellTyped(h) == DOMAIN h \subseteq Addrs /\ h \in [DOMAIN h -> Headers]
List(h)      == WellTyped(h) /\ Extent(h) /\ Forward(h) /\ Backward(h)

(* Where a chunk lies, and where its neighbours do.                            *)
LEMMA ChunkFacts ==
    ASSUME NEW h, List(h), NEW a \in DOMAIN h
    PROVE  /\ a \in Nat /\ h[a].size \in Nat /\ End(h, a) \in Nat /\ NULL \notin Int
           /\ a < End(h, a) /\ End(h, a) <= PAGE_SIZE /\ PAGE_SIZE \in Nat
           /\ Hdr \in Nat \ {0} /\ End(h, a) = a + Hdr + h[a].size
           /\ h[a].next # NULL => /\ h[a].next = End(h, a) /\ h[a].next \in DOMAIN h
                                  /\ h[h[a].next].prev = a
           /\ h[a].next = NULL => End(h, a) = PAGE_SIZE
           /\ h[a].prev # NULL => h[a].prev \in DOMAIN h /\ h[h[a].prev].next = a
           /\ h[a].prev = NULL <=> a = 0
<1>1. a \in Nat /\ h[a] \in Headers
  BY HeapAssumption DEF List, WellTyped, Addrs
<1>2. h[a].size \in Nat /\ PAGE_SIZE \in Nat /\ Hdr \in Nat \ {0} /\ NULL \notin Int
  BY <1>1, HeapAssumption DEF Headers, Addrs
<1>3. QED
  BY <1>1, <1>2 DEF End, List, Extent, Forward, Backward

(* Headers, field by field.                                                    *)
LEMMA HeaderUpdate ==
    ASSUME NEW r \in Headers, NEW x
    PROVE  /\ r = [status |-> r.status, size |-> r.size, next |-> r.next, prev |-> r.prev]
           /\ [r EXCEPT !.prev = x] =
                 [status |-> r.status, size |-> r.size, next |-> r.next, prev |-> x]
           /\ [r EXCEPT !.status = x] =
                 [status |-> x, size |-> r.size, next |-> r.next, prev |-> r.prev]
           /\ r.status \in Statuses /\ r.size \in Addrs
           /\ r.next \in Addrs \union {NULL} /\ r.prev \in Addrs \union {NULL}
<1>1. r = [status |-> r.status, size |-> r.size, next |-> r.next, prev |-> r.prev]
  BY DEF Headers
<1>2. [r EXCEPT !.prev = x] =
          [status |-> r.status, size |-> r.size, next |-> r.next, prev |-> x]
  BY DEF Headers
<1>3. [r EXCEPT !.status = x] =
          [status |-> x, size |-> r.size, next |-> r.next, prev |-> r.prev]
  BY DEF Headers
<1>4. /\ r.status \in Statuses /\ r.size \in Addrs
      /\ r.next \in Addrs \union {NULL} /\ r.prev \in Addrs \union {NULL}
  BY DEF Headers
<1>5. QED
  BY <1>1, <1>2, <1>3, <1>4

\* What is known of the list g in which chunk a of h has eaten the next one.
Eaten(g, h, a) ==
    /\ List(g)
    /\ DOMAIN g = DOMAIN h \ {h[a].next}
    /\ g[a].next = h[h[a].next].next
    /\ \A x \in DOMAIN g : g[x].status = h[x].status
    /\ \A x \in DOMAIN g \ {a} : g[x].size = h[x].size /\ g[x].next = h[x].next

(* A chunk that eats the next one leaves a list.                               *)
LEMMA EatNextList ==
    ASSUME NEW h, List(h), NEW a \in DOMAIN h, h[a].next # NULL
    PROVE  Eaten(EatNext(h, a), h, a)
<1> DEFINE n == h[a].next
           m == h[n].next
           g == EatNext(h, a)
<1>1. /\ n \in DOMAIN h /\ n = End(h, a) /\ h[n].prev = a
      /\ a < n /\ n \in Nat /\ a \in Nat
  BY ChunkFacts
<1>2. m # NULL => m \in DOMAIN h /\ m = End(h, n) /\ n < m /\ m \in Nat
  BY <1>1, ChunkFacts
<1>3. DOMAIN g = DOMAIN h \ {n} /\ a \in DOMAIN g
  BY <1>1 DEF EatNext
<1>4. \A x \in DOMAIN h : h[x] \in Headers
  BY DEF List, WellTyped
<1>5. g[a] = [status |-> h[a].status, size |-> h[a].size + h[n].size + Hdr,
              next |-> m, prev |-> h[a].prev]
  BY <1>3 DEF EatNext
<1>6. \A x \in DOMAIN g \ {a} :
        g[x] = [status |-> h[x].status, size |-> h[x].size, next |-> h[x].next,
                prev |-> IF x = m THEN a ELSE h[x].prev]
  <2>1. ASSUME NEW x \in DOMAIN g \ {a}
        PROVE  g[x] = [status |-> h[x].status, size |-> h[x].size, next |-> h[x].next,
                       prev |-> IF x = m THEN a ELSE h[x].prev]
    <3>1. x \in DOMAIN h /\ g[x] = IF x = m THEN [h[x] EXCEPT !.prev = a] ELSE h[x]
      BY <1>3 DEF EatNext
    <3>2. h[x] \in Headers
      BY <1>4, <3>1
    <3>3. QED
      BY <3>1, <3>2, HeaderUpdate
  <2>2. QED
    BY <2>1
<1>7. End(g, a) = End(h, n) /\ \A x \in DOMAIN g \ {a} : End(g, x) = End(h, x)
  <2>1. End(g, a) = End(h, n)
    BY <1>1, <1>5, ChunkFacts DEF End
  <2>2. \A x \in DOMAIN g \ {a} : End(g, x) = End(h, x)
    BY <1>6 DEF End
  <2>3. QED
    BY <2>1, <2>2
<1>8. \A x \in DOMAIN g : g[x].prev = IF x = m THEN a ELSE h[x].prev
  BY <1>1, <1>2, <1>5, <1>6, HeapAssumption
<1>9. \A x \in DOMAIN g : g[x].next = IF x = a THEN m ELSE h[x].next
  BY <1>5, <1>6
<1>10. \A x \in DOMAIN g : g[x].status = h[x].status /\ (x # a => g[x].size = h[x].size)
  BY <1>5, <1>6
<1> HIDE DEF g
<1>11. WellTyped(g)
  <2>1. g[a].size \in Addrs
    BY <1>1, <1>5, <1>7, ChunkFacts DEF End, Addrs
  <2>2. g[a] \in Headers
    BY <1>1, <1>4, <1>5, <2>1 DEF Headers
  <2>3. a \in Addrs
    BY DEF List, WellTyped
  <2>4. \A x \in DOMAIN g \ {a} : g[x] \in Headers
    <3>1. \A x \in DOMAIN g \ {a} : h[x] \in Headers
      BY <1>3, <1>4
    <3>2. ASSUME NEW x \in DOMAIN g \ {a} PROVE g[x] \in Headers
      <4>1. /\ h[x].status \in Statuses /\ h[x].size \in Addrs
            /\ h[x].next \in Addrs \union {NULL} /\ h[x].prev \in Addrs \union {NULL}
        BY <3>1, HeaderUpdate
      <4>2. QED
        BY <1>6, <2>3, <4>1 DEF Headers
    <3>3. QED
      BY <3>2
  <2>5. g = [x \in DOMAIN g |-> g[x]]
    BY DEF g, EatNext
  <2>6. QED
    BY <1>3, <2>2, <2>4, <2>5 DEF WellTyped, List
<1>12. Extent(g)
  <2>1. 0 \in DOMAIN g
    BY <1>1, <1>3 DEF List, Extent
  <2>2. \A x \in DOMAIN g : End(g, x) <= PAGE_SIZE
    BY <1>1, <1>3, <1>7, ChunkFacts
  <2>3. ASSUME NEW x \in DOMAIN g, NEW y \in DOMAIN g, x < y PROVE End(g, x) <= y
    <3>1. CASE x = a
      <4>1. End(h, a) <= y
        BY <1>3, <2>3, <3>1 DEF List, Extent
      <4>2. n < y
        BY <1>1, <1>3, <4>1, ChunkFacts
      <4>3. QED
        BY <1>1, <1>3, <1>7, <3>1, <4>2 DEF List, Extent
    <3>2. CASE x # a
      BY <1>3, <1>7, <2>3, <3>2 DEF List, Extent
    <3>3. QED
      BY <3>1, <3>2
  <2>4. QED
    BY <2>1, <2>2, <2>3 DEF Extent
<1>13. Forward(g)
  <2>1. IF End(g, a) = PAGE_SIZE THEN g[a].next = NULL
        ELSE g[a].next = End(g, a) /\ End(g, a) \in DOMAIN g
    BY <1>1, <1>2, <1>3, <1>7, <1>9, ChunkFacts DEF List, Forward
  <2>2. ASSUME NEW x \in DOMAIN g \ {a}
        PROVE  IF End(g, x) = PAGE_SIZE THEN g[x].next = NULL
               ELSE g[x].next = End(g, x) /\ End(g, x) \in DOMAIN g
    <3>1. x \in DOMAIN h /\ h[x].next # n
      BY <1>1, <1>3, ChunkFacts
    <3>2. QED
      BY <1>3, <1>7, <1>9, <3>1 DEF List, Forward
  <2>3. QED
    BY <2>1, <2>2 DEF Forward
<1>14. Backward(g)
  <2>1. ASSUME NEW x \in DOMAIN g
        PROVE  /\ g[x].prev = NULL <=> x = 0
               /\ g[x].prev # NULL => g[x].prev \in DOMAIN g /\ g[g[x].prev].next = x
    <3>1. CASE x = m
      <4>1. g[x].prev = a /\ a # NULL /\ m # NULL /\ x # 0
        BY <1>1, <1>2, <1>3, <1>8, <2>1, <3>1, ChunkFacts
      <4>2. QED
        BY <1>3, <1>9, <3>1, <4>1
    <3>2. CASE x # m
      <4>1. x \in DOMAIN h /\ x # n /\ g[x].prev = h[x].prev
        BY <1>3, <1>8, <3>2
      <4>2. h[x].prev # n /\ h[x].prev # a
        <5>1. h[x].prev = n => m = x
          BY <1>1, <4>1, ChunkFacts
        <5>2. h[x].prev = a => n = x
          BY <1>1, <4>1, ChunkFacts
        <5>3. QED
          BY <3>2, <4>1, <5>1, <5>2
      <4>3. QED
        BY <1>3, <1>9, <4>1, <4>2, ChunkFacts
    <3>3. QED
      BY <3>1, <3>2
  <2>2. ASSUME NEW x \in DOMAIN g, g[x].next # NULL PROVE g[g[x].next].prev = x
    <3>1. CASE x = a
      BY <1>2, <1>3, <1>8, <1>9, <2>2, <3>1
    <3>2. CASE x # a
      <4>1. x \in DOMAIN h /\ g[x].next = h[x].next /\ h[h[x].next].prev = x /\ h[x].next \in DOMAIN h
        BY <1>3, <1>9, <2>2, <3>2, ChunkFacts
      <4>2. h[x].next # n /\ h[x].next # m
        <5>1. h[x].next # n
          BY <1>1, <3>2, <4>1
        <5>2. h[x].next = m => x = n
          BY <1>1, <1>2, <2>2, <4>1, ChunkFacts
        <5>3. QED
          BY <1>3, <5>1, <5>2
      <4>3. QED
        BY <1>3, <1>8, <4>1, <4>2
    <3>3. QED
      BY <3>1, <3>2
  <2>3. QED
    BY <2>1, <2>2 DEF Backward
<1>15. List(g)
  BY <1>11, <1>12, <1>13, <1>14 DEF List
<1>16. Eaten(g, h, a)
  BY <1>3, <1>9, <1>10, <1>15 DEF Eaten
<1>17. QED
  BY <1>16 DEF g

\* What is known of the list g in which chunk a of h has given up its end.
Broken(g, h, a, size) ==
    LET new == NewChunk(h, a, size)
    IN  /\ List(g)
        /\ new \notin DOMAIN h /\ DOMAIN g = DOMAIN h \union {new} /\ new + Hdr \in Addrs
        /\ g[new].status = "ALLOCATED" /\ g[new].size = size /\ g[new].next = h[a].next
        /\ g[a].size = h[a].size - (size + Hdr) /\ g[a].next = new
        /\ \A x \in DOMAIN h : g[x].status = h[x].status
        /\ \A x \in DOMAIN h \ {a} : g[x].size = h[x].size /\ g[x].next = h[x].next

(* So does a chunk that gives up its end.                                      *)
LEMMA BreakList ==
    ASSUME NEW h, List(h), NEW a \in DOMAIN h, NEW size \in Nat, h[a].size > size + Hdr
    PROVE  Broken(break_chunk(h, a, size), h, a, size)
<1> DEFINE new == NewChunk(h, a, size)
           rest == Rest(h, a, size)
           m == h[a].next
           g == break_chunk(h, a, size)
<1>1. /\ a \in Nat /\ h[a].size \in Nat /\ Hdr \in Nat \ {0} /\ PAGE_SIZE \in Nat /\ NULL \notin Int
      /\ End(h, a) = a + Hdr + h[a].size /\ End(h, a) <= PAGE_SIZE
  BY ChunkFacts
<1>2. /\ rest \in Nat /\ rest > 0 /\ rest = h[a].size - (size + Hdr) /\ new \in Nat
      /\ new = a + Hdr + rest /\ a < new /\ new + Hdr + size = End(h, a) /\ new < End(h, a)
  BY <1>1 DEF NewChunk, Rest
<1>3. \A x \in DOMAIN h : x > a => x >= End(h, a)
  BY DEF List, Extent
<1>4. new \notin DOMAIN h
  BY <1>1, <1>2, <1>3
<1>5. m # NULL => m \in DOMAIN h /\ m = End(h, a) /\ h[m].prev = a /\ m # a /\ m # new /\ m \in Nat
  BY <1>1, <1>2, ChunkFacts
<1>6. \A x \in DOMAIN h : h[x] \in Headers /\ x \in Addrs
  BY DEF List, WellTyped
<1>7. DOMAIN g = DOMAIN h \union {new} /\ g = [x \in DOMAIN g |-> g[x]]
  BY DEF break_chunk
<1>8. g[new] = [status |-> "ALLOCATED", size |-> size, next |-> m, prev |-> a]
  BY DEF break_chunk
<1>9. g[a] = [status |-> h[a].status, size |-> rest, next |-> new, prev |-> h[a].prev]
  BY <1>4 DEF break_chunk
<1>10. ASSUME NEW x \in DOMAIN h, x # a
       PROVE  g[x] = [status |-> h[x].status, size |-> h[x].size, next |-> h[x].next,
                      prev |-> IF x = m THEN new ELSE h[x].prev]
  <2>1. g[x] = IF x = m THEN [h[x] EXCEPT !.prev = new] ELSE h[x]
    BY <1>4, <1>10 DEF break_chunk
  <2>2. QED
    BY <1>6, <2>1, HeaderUpdate
<1> HIDE DEF g, new, rest
<1>11. End(g, new) = End(h, a) /\ End(g, a) = new /\ \A x \in DOMAIN h : x # a => End(g, x) = End(h, x)
  <2>1. End(g, new) = End(h, a) /\ End(g, a) = new
    BY <1>2, <1>8, <1>9 DEF End
  <2>2. ASSUME NEW x \in DOMAIN h, x # a PROVE End(g, x) = End(h, x)
    <3>1. g[x] = [status |-> h[x].status, size |-> h[x].size, next |-> h[x].next,
                  prev |-> IF x = m THEN new ELSE h[x].prev]
      BY <1>10, <2>2
    <3>2. g[x].size = h[x].size
      BY <3>1
    <3>3. QED
      BY <3>2 DEF End
  <2>3. QED
    BY <2>1, <2>2
<1>12. WellTyped(g)
  <2>1. new \in Addrs /\ rest \in Addrs /\ size \in Addrs
    BY <1>1, <1>2 DEF Addrs
  <2>2. g[new] \in Headers
    BY <1>5, <1>6, <1>8, <2>1 DEF Headers, Statuses
  <2>3. g[a] \in Headers
    BY <1>6, <1>9, <2>1, HeaderUpdate DEF Headers
  <2>4. ASSUME NEW x \in DOMAIN h, x # a PROVE g[x] \in Headers
    <3>1. /\ h[x].status \in Statuses /\ h[x].size \in Addrs
          /\ h[x].next \in Addrs \union {NULL} /\ h[x].prev \in Addrs \union {NULL}
      BY <1>6, HeaderUpdate
    <3>2. g[x] = [status |-> h[x].status, size |-> h[x].size, next |-> h[x].next,
                  prev |-> IF x = m THEN new ELSE h[x].prev]
      BY <1>10, <2>4
    <3>3. QED
      BY <2>1, <3>1, <3>2 DEF Headers
  <2>5. \A x \in DOMAIN g : g[x] \in Headers
    BY <1>7, <2>2, <2>3, <2>4
  <2>6. QED
    BY <1>6, <1>7, <2>1, <2>5 DEF WellTyped
<1>13. Extent(g)
  <2>1. 0 \in DOMAIN g
    BY <1>7 DEF List, Extent
  <2>2. \A x \in DOMAIN g : End(g, x) <= PAGE_SIZE
    BY <1>1, <1>2, <1>7, <1>11 DEF List, Extent
  <2>3. ASSUME NEW x \in DOMAIN g, NEW y \in DOMAIN g, x < y PROVE End(g, x) <= y
    <3>1. CASE x = new
      <4>1. y \in DOMAIN h /\ y \in Nat
        BY <1>2, <1>6, <1>7, <2>3, <3>1, HeapAssumption DEF Addrs
      <4>2. QED
        BY <1>1, <1>2, <1>3, <1>11, <2>3, <3>1, <4>1
    <3>2. CASE x = a
      <4>1. CASE y = new
        BY <1>2, <1>11, <3>2, <4>1
      <4>2. CASE y # new
        <5>1. y \in DOMAIN h /\ y \in Nat /\ y >= End(h, a)
          BY <1>3, <1>6, <1>7, <2>3, <3>2, <4>2, HeapAssumption DEF Addrs
        <5>2. QED
          BY <1>1, <1>2, <1>11, <3>2, <5>1
      <4>3. QED
        BY <4>1, <4>2
    <3>3. CASE x # new /\ x # a
      <4>1. x \in DOMAIN h /\ x \in Nat /\ End(g, x) = End(h, x) /\ End(h, x) \in Nat
        BY <1>7, <1>11, <3>3, ChunkFacts
      <4>2. CASE y = new
        <5>1. x < a
          BY <1>1, <1>2, <1>3, <2>3, <3>3, <4>1, <4>2
        <5>2. End(h, x) <= a
          BY <4>1, <5>1 DEF List, Extent
        <5>3. QED
          BY <1>1, <1>2, <4>1, <4>2, <5>2
      <4>3. CASE y # new
        BY <1>7, <2>3, <4>1, <4>3 DEF List, Extent
      <4>4. QED
        BY <4>2, <4>3
    <3>4. QED
      BY <3>1, <3>2, <3>3
  <2>4. QED
    BY <2>1, <2>2, <2>3 DEF Extent
<1>14. \A x \in DOMAIN g :
          /\ g[x].next = IF x = new THEN m ELSE IF x = a THEN new ELSE h[x].next
          /\ g[x].prev = IF x = new THEN a ELSE IF x = m THEN new ELSE h[x].prev
  BY <1>1, <1>4, <1>5, <1>7, <1>8, <1>9, <1>10
<1>15. Forward(g)
  <2>1. ASSUME NEW x \in DOMAIN h, x # a
        PROVE  IF End(g, x) = PAGE_SIZE THEN g[x].next = NULL
               ELSE g[x].next = End(g, x) /\ End(g, x) \in DOMAIN g
    BY <1>4, <1>7, <1>11, <1>14, <2>1 DEF List, Forward
  <2>2. g[new].next = m /\ (IF End(h, a) = PAGE_SIZE THEN m = NULL ELSE m = End(h, a) /\ m \in DOMAIN h)
    BY <1>7, <1>14 DEF List, Forward
  <2>3. g[a].next = new /\ new # PAGE_SIZE
    BY <1>1, <1>2, <1>4, <1>7, <1>14
  <2>4. QED
    BY <1>7, <1>11, <2>1, <2>2, <2>3 DEF Forward
<1>16. Backward(g)
  <2>1. ASSUME NEW x \in DOMAIN g
        PROVE  /\ g[x].prev = NULL <=> x = 0
               /\ g[x].prev # NULL => g[x].prev \in DOMAIN g /\ g[g[x].prev].next = x
    <3>1. CASE x = new
      BY <1>1, <1>2, <1>4, <1>7, <1>14, <3>1
    <3>2. CASE x = m
      <4>1. m # NULL /\ x # new /\ x # 0
        BY <1>1, <1>2, <1>5, <1>6, <1>7, <2>1, <3>2, HeapAssumption DEF Addrs
      <4>2. QED
        BY <1>1, <1>2, <1>7, <1>14, <3>2, <4>1
    <3>3. CASE x # new /\ x # m
      <4>1. x \in DOMAIN h /\ g[x].prev = h[x].prev /\ (h[x].prev # NULL => h[x].prev # a /\ h[x].prev # new)
        BY <1>4, <1>7, <1>14, <3>3, ChunkFacts
      <4>2. QED
        BY <1>4, <1>7, <1>14, <4>1, ChunkFacts
    <3>4. QED
      BY <3>1, <3>2, <3>3
  <2>2. ASSUME NEW x \in DOMAIN g, g[x].next # NULL PROVE g[g[x].next].prev = x
    <3>1. CASE x = new
      BY <1>5, <1>7, <1>14, <2>2, <3>1
    <3>2. CASE x = a
      BY <1>4, <1>7, <1>14, <3>2
    <3>3. CASE x # new /\ x # a
      <4>1. x \in DOMAIN h /\ g[x].next = h[x].next /\ h[x].next \in DOMAIN h /\ h[h[x].next].prev = x
        BY <1>7, <1>14, <2>2, <3>3, ChunkFacts
      <4>2. h[x].next # m /\ h[x].next # new
        BY <1>4, <1>5, <2>2, <3>3, <4>1
      <4>3. QED
        BY <1>7, <1>14, <4>1, <4>2
    <3>4. QED
      BY <3>1, <3>2, <3>3
  <2>3. QED
    BY <2>1, <2>2 DEF Backward
<1>17. new + Hdr \in Addrs
  BY <1>1, <1>2 DEF Addrs
<1>18. List(g)
  BY <1>12, <1>13, <1>15, <1>16 DEF List
<1>19. \A x \in DOMAIN h : g[x].status = h[x].status
  <2>1. ASSUME NEW x \in DOMAIN h, x # a PROVE g[x].status = h[x].status
    <3>1. g[x] = [status |-> h[x].status, size |-> h[x].size, next |-> h[x].next,
                  prev |-> IF x = m THEN new ELSE h[x].prev]
      BY <1>10, <2>1
    <3>2. QED
      BY <3>1
  <2>2. g[a].status = h[a].status
    BY <1>9
  <2>3. QED
    BY <2>1, <2>2
<1>20. \A x \in DOMAIN h \ {a} : g[x].size = h[x].size /\ g[x].next = h[x].next
  <2>1. ASSUME NEW x \in DOMAIN h \ {a} PROVE g[x].size = h[x].size /\ g[x].next = h[x].next
    <3>1. g[x] = [status |-> h[x].status, size |-> h[x].size, next |-> h[x].next,
                  prev |-> IF x = m THEN new ELSE h[x].prev]
      BY <1>10
    <3>2. QED
      BY <3>1
  <2>2. QED
    BY <2>1
<1>21. Broken(g, h, a, size)
  BY <1>2, <1>4, <1>7, <1>8, <1>9, <1>17, <1>18, <1>19, <1>20 DEF Broken, new
<1>22. QED
  BY <1>21 DEF g

-----------------------------------------------------------------------------
(* Freeing.                                                                    *)

\* No two free neighbours but a and one of its own.
NearlyCoalesced(h, a) ==
    \A x \in DOMAIN h :
        (IsFree(h, x) /\ h[x].next # NULL /\ IsFree(h, h[x].next)) => x = a \/ h[x].next = a
CoalescedList(h) ==
    \A x \in DOMAIN h : (IsFree(h, x) /\ h[x].next # NULL) => ~IsFree(h, h[x].next)

\* The chunks in the client's hands, with their sizes.
Held(h) == {x \in DOMAIN h : h[x].status = "ALLOCATED"}
SameHeld(g, h) == Held(g) = Held(h) /\ \A x \in Held(h) : g[x].size = h[x].size

LEMMA FreedList ==
    ASSUME NEW h, List(h), CoalescedList(h), NEW a \in DOMAIN h
    PROVE  /\ List(Freed(h, a)) /\ NearlyCoalesced(Freed(h, a), a)
           /\ DOMAIN Freed(h, a) = DOMAIN h /\ IsFree(Freed(h, a), a)
           /\ Held(Freed(h, a)) = Held(h) \ {a}
           /\ \A x \in DOMAIN h : Freed(h, a)[x].size = h[x].size
<1> DEFINE g == Freed(h, a)
<1>1. DOMAIN g = DOMAIN h
  BY DEF Freed
<1>2. \A x \in DOMAIN h : h[x] \in Headers
  BY DEF List, WellTyped
<1>3. ASSUME NEW x \in DOMAIN h
      PROVE  g[x] = [status |-> IF x = a THEN "FREE" ELSE h[x].status, size |-> h[x].size,
                     next |-> h[x].next, prev |-> h[x].prev]
  <2>1. CASE x = a
    <3>1. g[x] = [h[a] EXCEPT !.status = "FREE"]
      BY <2>1 DEF Freed
    <3>2. QED
      BY <1>2, <2>1, <3>1, HeaderUpdate
  <2>2. CASE x # a
    <3>1. g[x] = h[x]
      BY <2>2 DEF Freed
    <3>2. QED
      BY <1>2, <2>2, <3>1, HeaderUpdate
  <2>3. QED
    BY <2>1, <2>2
<1>4. g = [x \in DOMAIN g |-> g[x]]
  BY DEF Freed
<1> HIDE DEF g
<1>5. \A x \in DOMAIN h : /\ g[x].size = h[x].size /\ g[x].next = h[x].next
                          /\ g[x].prev = h[x].prev
                          /\ g[x].status = IF x = a THEN "FREE" ELSE h[x].status
  <2>1. ASSUME NEW x \in DOMAIN h
        PROVE  /\ g[x].size = h[x].size /\ g[x].next = h[x].next /\ g[x].prev = h[x].prev
               /\ g[x].status = IF x = a THEN "FREE" ELSE h[x].status
    <3>1. g[x] = [status |-> IF x = a THEN "FREE" ELSE h[x].status, size |-> h[x].size,
                  next |-> h[x].next, prev |-> h[x].prev]
      BY <1>3
    <3>2. QED
      BY <3>1
  <2>2. QED
    BY <2>1
<1>6. \A x \in DOMAIN h : End(g, x) = End(h, x)
  BY <1>5 DEF End
<1>7. WellTyped(g)
  <2>1. ASSUME NEW x \in DOMAIN h PROVE g[x] \in Headers
    <3>1. /\ h[x].status \in Statuses /\ h[x].size \in Addrs
          /\ h[x].next \in Addrs \union {NULL} /\ h[x].prev \in Addrs \union {NULL}
      BY <1>2, HeaderUpdate
    <3>2. g[x] = [status |-> IF x = a THEN "FREE" ELSE h[x].status, size |-> h[x].size,
                  next |-> h[x].next, prev |-> h[x].prev]
      BY <1>3
    <3>3. QED
      BY <3>1, <3>2 DEF Headers, Statuses
  <2>2. QED
    BY <1>1, <1>4, <2>1 DEF List, WellTyped
<1>8. List(g)
  <2>1. Extent(g) /\ Forward(g)
    BY <1>1, <1>5, <1>6 DEF List, Extent, Forward
  <2>2. Backward(g)
    BY <1>1, <1>5, ChunkFacts DEF Backward
  <2>3. QED
    BY <1>7, <2>1, <2>2 DEF List
<1>9. \A x \in DOMAIN g : g[x].next # NULL => g[x].next \in DOMAIN h
  BY <1>1, <1>5, ChunkFacts
<1>10. NearlyCoalesced(g, a)
  BY <1>1, <1>5, <1>9 DEF NearlyCoalesced, CoalescedList, IsFree
<1>11. IsFree(g, a) /\ Held(g) = Held(h) \ {a}
  BY <1>1, <1>5 DEF IsFree, Held
<1>12. QED
  BY <1>1, <1>5, <1>8, <1>10, <1>11 DEF g

(* Eating a free chunk keeps what the client holds.                            *)
LEMMA EatNextHeld ==
    ASSUME NEW h, List(h), NEW a \in DOMAIN h, h[a].next # NULL,
           IsFree(h, a), IsFree(h, h[a].next)
    PROVE  SameHeld(EatNext(h, a), h)
<1> DEFINE g == EatNext(h, a)
<1>1. Eaten(g, h, a)
  BY EatNextList
<1> HIDE DEF g
<1>2. Held(g) = Held(h) /\ a \notin Held(h)
  BY <1>1 DEF Eaten, Held, IsFree
<1>3. Held(g) \subseteq DOMAIN g
  BY DEF Held
<1>4. SameHeld(g, h)
  BY <1>1, <1>2, <1>3 DEF Eaten, SameHeld
<1>5. QED
  BY <1>4 DEF g

LEMMA LookRightList ==
    ASSUME NEW h, List(h), NEW a \in DOMAIN h, IsFree(h, a), NearlyCoalesced(h, a)
    PROVE  LET g == LookRight(h, a)
           IN  /\ List(g) /\ NearlyCoalesced(g, a) /\ SameHeld(g, h)
               /\ a \in DOMAIN g /\ IsFree(g, a)
               /\ g[a].next # NULL => ~IsFree(g, g[a].next)
<1> DEFINE n == h[a].next
           g == EatNext(h, a)
<1>1. CASE n # NULL /\ IsFree(h, n)
  <2>1. LookRight(h, a) = g
    BY <1>1 DEF LookRight
  <2>2. /\ n \in DOMAIN h /\ h[n].prev = a /\ a # n
        /\ h[n].next # NULL => h[n].next \in DOMAIN h /\ h[n].next # n /\ h[n].next # a
    BY <1>1, ChunkFacts
  <2>3. /\ List(g) /\ DOMAIN g = DOMAIN h \ {n}
        /\ \A x \in DOMAIN g : g[x].status = h[x].status
        /\ g[a].next = h[n].next
        /\ \A x \in DOMAIN g : x # a => g[x].next = h[x].next
    <3>1. Eaten(g, h, a)
      BY <1>1, EatNextList
    <3>2. QED
      BY <2>2, <3>1 DEF Eaten
  <2>4. h[n].next # NULL => ~IsFree(h, h[n].next)
    BY <1>1, <2>2 DEF NearlyCoalesced
  <2>5. \A x \in DOMAIN h : x # a => h[x].next # n
    BY <1>1, ChunkFacts
  <2> HIDE DEF g
  <2>6. \A x \in DOMAIN g : x # a => (g[x].next # NULL => g[x].next \in DOMAIN g)
    BY <2>3, <2>5, ChunkFacts
  <2>7. NearlyCoalesced(g, a)
    BY <2>3, <2>6 DEF NearlyCoalesced, IsFree
  <2>8. a \in DOMAIN g /\ IsFree(g, a) /\ (g[a].next # NULL => ~IsFree(g, g[a].next))
    BY <2>2, <2>3, <2>4 DEF IsFree
  <2>9. SameHeld(g, h)
    BY <1>1, EatNextHeld DEF g
  <2>10. QED
    BY <2>1, <2>3, <2>7, <2>8, <2>9
<1>2. CASE ~(n # NULL /\ IsFree(h, n))
  <2>1. LookRight(h, a) = h
    BY <1>2 DEF LookRight
  <2>2. QED
    BY <1>2, <2>1 DEF SameHeld
<1>3. QED
  BY <1>1, <1>2

LEMMA LookLeftList ==
    ASSUME NEW h, List(h), NEW a \in DOMAIN h, IsFree(h, a), NearlyCoalesced(h, a),
           h[a].next # NULL => ~IsFree(h, h[a].next)
    PROVE  LET g == LookLeft(h, a)
           IN  List(g) /\ CoalescedList(g) /\ SameHeld(g, h)
<1> DEFINE p == h[a].prev
           g == EatNext(h, p)
<1>1. CASE p # NULL /\ IsFree(h, p)
  <2>1. LookLeft(h, a) = g
    BY <1>1 DEF LookLeft
  <2>2. /\ p \in DOMAIN h /\ h[p].next = a /\ a # NULL /\ p # a
        /\ h[a].next # NULL => h[a].next \in DOMAIN h /\ h[a].next # a
    BY <1>1, ChunkFacts
  <2> HIDE DEF p
  <2>3. /\ List(g) /\ DOMAIN g = DOMAIN h \ {a}
        /\ \A x \in DOMAIN g : g[x].status = h[x].status
        /\ g[p].next = h[a].next
        /\ \A x \in DOMAIN g : x # p => g[x].next = h[x].next
    <3>1. Eaten(g, h, p)
      BY <2>2, EatNextList
    <3>2. QED
      BY <2>2, <3>1 DEF Eaten
  <2>4. \A x \in DOMAIN h : x # p => h[x].next # a
    BY <2>2, ChunkFacts
  <2>5. SameHeld(g, h)
    BY <1>1, <2>2, EatNextHeld
  <2> HIDE DEF g
  <2>6. \A x \in DOMAIN g : g[x].next # NULL => g[x].next \in DOMAIN g
    BY <2>3, ChunkFacts
  <2>7. \A x \in DOMAIN g : x # p => ~(IsFree(g, x) /\ g[x].next # NULL /\ IsFree(g, g[x].next))
    BY <2>3, <2>4, <2>6 DEF NearlyCoalesced, IsFree
  <2>8. g[p].next # NULL => ~IsFree(g, g[p].next)
    BY <2>2, <2>3, <2>6 DEF IsFree
  <2>9. CoalescedList(g)
    BY <2>7, <2>8 DEF CoalescedList
  <2>10. QED
    BY <2>1, <2>3, <2>5, <2>9
<1>2. CASE ~(p # NULL /\ IsFree(h, p))
  <2>1. LookLeft(h, a) = h
    BY <1>2 DEF LookLeft
  <2>2. \A x \in DOMAIN h : h[x].next = a => x = p /\ p # NULL
    <3>1. ASSUME NEW x \in DOMAIN h, h[x].next = a PROVE x = p /\ p # NULL
      <4>1. a # NULL /\ x # NULL
        BY ChunkFacts
      <4>2. QED
        BY <3>1, <4>1, ChunkFacts
    <3>2. QED
      BY <3>1
  <2>3. CoalescedList(h)
    BY <1>2, <2>2 DEF NearlyCoalesced, CoalescedList
  <2>4. QED
    BY <2>1, <2>3 DEF SameHeld
<1>3. QED
  BY <1>1, <1>2

(* kfree leaves a coalesced list without the block, and every other block as   *)
(* it was.                                                                     *)
LEMMA MergedList ==
    ASSUME NEW h, List(h), CoalescedList(h), NEW a \in DOMAIN h
    PROVE  /\ List(Merged(h, a)) /\ CoalescedList(Merged(h, a))
           /\ Held(Merged(h, a)) = Held(h) \ {a}
           /\ \A x \in Held(h) \ {a} : Merged(h, a)[x].size = h[x].size
<1> DEFINE f == Freed(h, a)
           r == LookRight(f, a)
<1>1. /\ List(f) /\ NearlyCoalesced(f, a) /\ a \in DOMAIN f /\ IsFree(f, a)
      /\ Held(f) = Held(h) \ {a} /\ \A x \in DOMAIN h : f[x].size = h[x].size
  BY FreedList
<1> HIDE DEF f
<1>2. /\ List(r) /\ NearlyCoalesced(r, a) /\ SameHeld(r, f)
      /\ a \in DOMAIN r /\ IsFree(r, a) /\ (r[a].next # NULL => ~IsFree(r, r[a].next))
  BY <1>1, LookRightList
<1> HIDE DEF r
<1>3. List(LookLeft(r, a)) /\ CoalescedList(LookLeft(r, a)) /\ SameHeld(LookLeft(r, a), r)
  BY <1>2, LookLeftList
<1>4. Merged(h, a) = LookLeft(r, a)
  BY DEF Merged, f, r
<1>5. QED
  BY <1>1, <1>2, <1>3, <1>4 DEF SameHeld, Held

-----------------------------------------------------------------------------
(* Allocating.                                                                 *)

LEMMA BrokenCoalesced ==
    ASSUME NEW h, List(h), CoalescedList(h), NEW a \in DOMAIN h, NEW size \in Nat,
           NEW g, Broken(g, h, a, size)
    PROVE  CoalescedList(g)
<1> DEFINE new == NewChunk(h, a, size)
<1>1. /\ DOMAIN g = DOMAIN h \union {new} /\ g[new].status = "ALLOCATED" /\ g[a].next = new
      /\ \A x \in DOMAIN h : g[x].status = h[x].status
      /\ \A x \in DOMAIN h \ {a} : g[x].next = h[x].next
  BY DEF Broken
<1> HIDE DEF new
<1>2. \A x \in DOMAIN h : h[x].next # NULL => h[x].next \in DOMAIN h
  BY ChunkFacts
<1>3. QED
  BY <1>1, <1>2 DEF CoalescedList, IsFree

LEMMA AllocatedList ==
    ASSUME NEW h, List(h), CoalescedList(h), NEW a \in DOMAIN h
    PROVE  LET g == [h EXCEPT ![a].status = "ALLOCATED"]
           IN  /\ List(g) /\ CoalescedList(g) /\ DOMAIN g = DOMAIN h
               /\ Held(g) = Held(h) \union {a}
               /\ \A x \in DOMAIN h : g[x].size = h[x].size
<1> DEFINE g == [h EXCEPT ![a].status = "ALLOCATED"]
<1>1. DOMAIN g = DOMAIN h /\ g = [x \in DOMAIN g |-> g[x]]
  OBVIOUS
<1>2. \A x \in DOMAIN h : h[x] \in Headers
  BY DEF List, WellTyped
<1>3. ASSUME NEW x \in DOMAIN h
      PROVE  g[x] = [status |-> IF x = a THEN "ALLOCATED" ELSE h[x].status, size |-> h[x].size,
                     next |-> h[x].next, prev |-> h[x].prev]
  <2>1. CASE x = a
    <3>1. g[x] = [h[a] EXCEPT !.status = "ALLOCATED"]
      BY <2>1
    <3>2. [h[a] EXCEPT !.status = "ALLOCATED"] =
              [status |-> "ALLOCATED", size |-> h[a].size, next |-> h[a].next, prev |-> h[a].prev]
      BY <1>2, HeaderUpdate
    <3>3. QED
      BY <2>1, <3>1, <3>2
  <2>2. CASE x # a
    <3>1. g[x] = h[x]
      BY <2>2
    <3>2. QED
      BY <1>2, <2>2, <3>1, HeaderUpdate
  <2>3. QED
    BY <2>1, <2>2
<1> HIDE DEF g
<1>4. ASSUME NEW x \in DOMAIN h
      PROVE  /\ g[x].size = h[x].size /\ g[x].next = h[x].next /\ g[x].prev = h[x].prev
             /\ g[x].status = IF x = a THEN "ALLOCATED" ELSE h[x].status
             /\ g[x] \in Headers
  <2>1. g[x] = [status |-> IF x = a THEN "ALLOCATED" ELSE h[x].status, size |-> h[x].size,
                next |-> h[x].next, prev |-> h[x].prev]
    BY <1>3
  <2>2. /\ h[x].status \in Statuses /\ h[x].size \in Addrs
        /\ h[x].next \in Addrs \union {NULL} /\ h[x].prev \in Addrs \union {NULL}
    BY <1>2, HeaderUpdate
  <2>3. g[x] \in Headers
    BY <2>1, <2>2 DEF Headers, Statuses
  <2>4. QED
    BY <2>1, <2>3
<1>5. \A x \in DOMAIN h : End(g, x) = End(h, x)
  BY <1>4 DEF End
<1>6. WellTyped(g)
  BY <1>1, <1>4 DEF List, WellTyped
<1>7. Extent(g) /\ Forward(g)
  BY <1>1, <1>4, <1>5 DEF List, Extent, Forward
<1>8. Backward(g)
  BY <1>1, <1>4, ChunkFacts DEF Backward
<1>9. CoalescedList(g)
  <2>1. \A x \in DOMAIN h : h[x].next # NULL => h[x].next \in DOMAIN h
    BY ChunkFacts
  <2>2. QED
    BY <1>1, <1>4, <2>1 DEF CoalescedList, IsFree
<1>10. Held(g) = Held(h) \union {a}
  BY <1>1, <1>4 DEF Held
<1>11. QED
  BY <1>1, <1>4, <1>6, <1>7, <1>8, <1>9, <1>10 DEF List, g

-----------------------------------------------------------------------------
(* The invariant.                                                              *)

LEMMA InitHeap == Init => HeapInvariant
<1> SUFFICES ASSUME Init PROVE HeapInvariant
  OBVIOUS
<1>1. /\ DOMAIN heap = {0} /\ heap = [x \in {0} |-> heap[x]]
      /\ heap[0] = [status |-> "FREE", size |-> PAGE_SIZE - Hdr, next |-> NULL, prev |-> NULL]
  BY DEF Init, Whole
<1>2. PAGE_SIZE - Hdr \in Nat /\ NULL \notin Int /\ PAGE_SIZE \in Nat /\ Hdr \in Nat
  BY HeapAssumption
<1>3. heap[0] \in Headers /\ 0 \in Addrs
  BY <1>1, <1>2 DEF Headers, Statuses, Addrs
<1>4. call = Done(NULL) /\ call.op = "none" /\ call \in Calls
  BY DEF Init, Done, Calls
<1>5. TypeOK
  BY <1>1, <1>3, <1>4 DEF TypeOK
<1>6. End(heap, 0) = PAGE_SIZE
  BY <1>1, <1>2 DEF End
<1>7. Tiled
  BY <1>1, <1>2, <1>6 DEF Tiled, Extent, Forward, Backward
<1>8. Coalesced
  BY <1>1 DEF Coalesced
<1>9. QED
  BY <1>4, <1>5, <1>7, <1>8 DEF HeapInvariant, SplitSucceeds, SearchKnows

(* The invariant is about a list.                                              *)
LEMMA InvariantList ==
    HeapInvariant => /\ List(heap) /\ CoalescedList(heap) /\ TypeOK
                     /\ SplitSucceeds /\ SearchKnows /\ call \in Calls
  BY DEF HeapInvariant, List, WellTyped, TypeOK, Tiled, Coalesced, CoalescedList

(* A step that leaves the CPU outside of kmalloc only needs a list.            *)
LEMMA IdleInvariant ==
    ASSUME List(heap'), CoalescedList(heap'), call' \in Calls, call'.op = "none"
    PROVE  HeapInvariant'
<1>1. TypeOK' /\ Tiled' /\ Coalesced'
  BY DEF List, WellTyped, TypeOK, Tiled, Extent, Forward, Backward, End, Coalesced,
         CoalescedList, IsFree
<1>2. QED
  BY <1>1 DEF HeapInvariant, SplitSucceeds, SearchKnows

LEMMA DoneType == ASSUME NEW r \in Addrs \union {NULL} PROVE Done(r) \in Calls /\ Done(r).op = "none"
  BY DEF Done, Calls

LEMMA KmallocInvariant ==
    ASSUME HeapInvariant, NEW n \in Requests, kmalloc(n) PROVE HeapInvariant'
<1>1. List(heap) /\ CoalescedList(heap) /\ heap' = heap
  BY InvariantList DEF kmalloc
<1>2. CASE n > 0
  <2>1. call' = [op |-> "search", want |-> n, size |-> RoundUp(n), at |-> 0, best |-> NULL,
                 fit |-> FALSE, ret |-> NULL]
    BY <1>2 DEF kmalloc
  <2>2. 0 \in DOMAIN heap /\ 0 \in Addrs /\ NULL \notin Int
    BY <1>1, HeapAssumption DEF List, Extent, WellTyped
  <2>3. call' \in Calls
    BY <2>1, <2>2, RoundUpType DEF Calls
  <2>4. TypeOK' /\ Tiled' /\ Coalesced'
    BY <1>1, <2>3 DEF HeapInvariant, TypeOK, Tiled, Coalesced, Extent, Forward, Backward,
                      End, IsFree
  <2>5. \A a \in DOMAIN heap : ~(a < 0)
    BY <1>1, ChunkFacts
  <2>6. SearchKnows'
    BY <1>1, <2>1, <2>2, <2>5 DEF SearchKnows, Visited
  <2>7. QED
    BY <2>1, <2>4, <2>6 DEF HeapInvariant, SplitSucceeds
<1>3. CASE ~(n > 0)
  BY <1>1, <1>3, DoneType, IdleInvariant DEF kmalloc
<1>4. QED
  BY <1>2, <1>3

(* The search passes the chunks in the order of their addresses.               *)
LEMMA PassesInOrder ==
    ASSUME NEW h, List(h), NEW a \in DOMAIN h, NEW b \in DOMAIN h,
           h[a].next = NULL \/ b < h[a].next
    PROVE  b < a \/ b = a
<1>0. a \in Nat /\ b \in Nat
  BY ChunkFacts
<1>1. SUFFICES ASSUME a < b PROVE FALSE
  BY <1>0
<1>2. End(h, a) <= b
  BY <1>1 DEF List, Extent
<1>3. CASE h[a].next = NULL
  <2>1. /\ End(h, a) = PAGE_SIZE /\ End(h, b) <= PAGE_SIZE /\ b < End(h, b)
        /\ End(h, b) \in Nat /\ PAGE_SIZE \in Nat
    BY <1>3, ChunkFacts
  <2>2. QED
    BY <1>0, <1>2, <2>1
<1>4. CASE h[a].next # NULL
  <2>1. h[a].next = End(h, a) /\ b < h[a].next /\ End(h, a) \in Nat
    BY <1>4, ChunkFacts
  <2>2. QED
    BY <1>0, <1>2, <2>1
<1>5. QED
  BY <1>3, <1>4

LEMMA SearchInvariant ==
    ASSUME HeapInvariant, find_best_fit PROVE HeapInvariant'
<1>1. /\ List(heap) /\ heap' = heap /\ call.op = "search" /\ SearchKnows /\ NULL \notin Int
      /\ call \in Calls
  BY InvariantList, HeapAssumption DEF find_best_fit
<1>2. Tiled' /\ Coalesced'
  BY <1>1 DEF HeapInvariant, Tiled, Coalesced, Extent, Forward, Backward, End, IsFree
<1>3. ASSUME call' \in Calls, call'.op # "exit", SearchKnows' PROVE HeapInvariant'
  BY <1>1, <1>2, <1>3 DEF HeapInvariant, TypeOK, SplitSucceeds
<1>4. CASE call.at # NULL /\ Fits(call.at) /\ call' = [call EXCEPT !.op = "place", !.fit = TRUE]
  <2>1. /\ call'.op = "place" /\ call'.fit = TRUE /\ call'.at = call.at /\ call'.size = call.size
        /\ call' \in Calls
    BY <1>1, <1>4 DEF Calls
  <2>2. call.at \in DOMAIN heap
    BY <1>1, <1>4 DEF SearchKnows
  <2>3. SearchKnows'
    BY <1>1, <1>4, <2>1, <2>2 DEF SearchKnows, Fits, IsFree
  <2>4. QED
    BY <1>3, <2>1, <2>3
<1>5. CASE /\ call.at # NULL /\ ~Fits(call.at)
           /\ call' = [call EXCEPT !.at = heap[call.at].next,
                                   !.best = IF Better(call.at) THEN call.at ELSE @]
  <2> DEFINE at == call.at
             best == IF Better(at) THEN at ELSE call.best
  <2>1. at \in DOMAIN heap /\ at \in Addrs /\ heap[at].next \in Addrs \union {NULL}
    BY <1>1, <1>5, HeaderUpdate DEF SearchKnows, List, WellTyped
  <2>2. /\ call'.op = "search" /\ call'.size = call.size
        /\ call'.at = heap[at].next /\ call'.best = best
    BY <1>1, <1>5 DEF Calls
  <2>3. call' \in Calls
    BY <1>1, <1>5, <2>1 DEF Calls
  <2>4. heap[at].next # NULL => heap[at].next \in DOMAIN heap /\ at < heap[at].next
    BY <1>1, <2>1, ChunkFacts
  <2>5. \A a \in DOMAIN heap : Visited(a)' => Visited(a) \/ a = at
    BY <1>1, <2>1, <2>2, PassesInOrder DEF Visited
  <2>6. call.best # NULL => /\ call.best \in DOMAIN heap /\ call.best < at /\ Divisible(call.best)
    BY <1>1, <1>5 DEF SearchKnows, Visited
  <2>7. best # NULL => best \in DOMAIN heap /\ Divisible(best) /\ (best < at \/ best = at)
    BY <2>1, <2>6 DEF Better
  <2>8. best # NULL => heap[at].next = NULL \/ best < heap[at].next
    <3>1. \A a \in DOMAIN heap : a \in Nat
      BY <1>1, ChunkFacts
    <3>2. QED
      BY <2>1, <2>4, <2>7, <3>1
  <2>9. ASSUME NEW a \in DOMAIN heap, Visited(a) \/ a = at
        PROVE  ~Fits(a) /\ (Divisible(a) => best # NULL /\ heap[best].size <= heap[a].size)
    <3>1. at # NULL /\ heap[at].size \in Nat /\ heap[a].size \in Nat
      BY <1>1, <1>5, <2>1, ChunkFacts
    <3>2. call.best # NULL => heap[call.best].size \in Nat
      BY <1>1, <2>6, ChunkFacts
    <3>3. CASE Visited(a)
      <4>1. ~Fits(a) /\ (Divisible(a) => call.best # NULL /\ heap[call.best].size <= heap[a].size)
        BY <1>1, <3>3 DEF SearchKnows
      <4>2. QED
        BY <3>1, <3>2, <4>1 DEF Better
    <3>4. CASE a = at
      BY <1>5, <3>1, <3>2, <3>4 DEF Better
    <3>5. QED
      BY <2>9, <3>3, <3>4
  <2> HIDE DEF at, best
  <2>10. SearchKnows'
    <3>1. ~call'.fit
      BY <1>1, <1>5 DEF SearchKnows, Calls
    <3>2. \A a : (Fits(a)' <=> Fits(a)) /\ (Divisible(a)' <=> Divisible(a))
      BY <1>1, <2>2 DEF Fits, Divisible, IsFree
    <3>3. call'.best # NULL =>
             call'.best \in DOMAIN heap' /\ Visited(call.best)' /\ Divisible(call.best)'
      BY <1>1, <2>2, <2>7, <2>8, <3>2 DEF Visited, Divisible, IsFree
    <3>4. \A a \in DOMAIN heap' : Visited(a)' =>
             /\ ~Fits(a)'
             /\ Divisible(a)' => call'.best # NULL /\ heap'[call'.best].size <= heap'[a].size
      BY <1>1, <2>2, <2>5, <2>9, <3>2
    <3>5. QED
      BY <1>1, <2>2, <2>4, <3>1, <3>3, <3>4 DEF SearchKnows
  <2>11. QED
    BY <1>3, <2>2, <2>3, <2>10
<1>6. CASE call.at = NULL /\ call' = [call EXCEPT !.op = "place", !.at = call.best]
  <2>1. /\ call'.op = "place" /\ call'.fit = call.fit /\ call'.at = call.best
        /\ call'.size = call.size /\ call' \in Calls
    BY <1>1, <1>6 DEF Calls
  <2>2. \A a \in DOMAIN heap : Visited(a)
    BY <1>6 DEF Visited
  <2>3. call.fit = FALSE
    BY <1>1 DEF SearchKnows
  <2>4. \A a : (Fits(a)' <=> Fits(a)) /\ (Divisible(a)' <=> Divisible(a))
    BY <1>1, <2>1 DEF Fits, Divisible, IsFree
  <2>5. \A a \in DOMAIN heap :
           /\ ~Fits(a)
           /\ Divisible(a) => call.best # NULL /\ heap[call.best].size <= heap[a].size
    BY <1>1, <2>2 DEF SearchKnows
  <2>6. call.best # NULL => call.best \in DOMAIN heap /\ Divisible(call.best)
    BY <1>1 DEF SearchKnows
  <2>7. call'.at # NULL => call'.at \in DOMAIN heap' /\ Divisible(call.at)'
    BY <1>1, <2>1, <2>6 DEF Divisible, IsFree
  <2>8. \A a \in DOMAIN heap' :
           /\ ~Fits(a)'
           /\ Divisible(a)' => call'.at # NULL /\ heap'[call'.at].size <= heap'[a].size
    BY <1>1, <2>1, <2>4, <2>5
  <2>9. SearchKnows'
    BY <2>1, <2>3, <2>7, <2>8 DEF SearchKnows
  <2>10. QED
    BY <1>3, <2>1, <2>9
<1>7. QED
  BY <1>4, <1>5, <1>6 DEF find_best_fit

LEMMA PlaceInvariant ==
    ASSUME HeapInvariant, Place PROVE HeapInvariant'
<1>1. /\ List(heap) /\ CoalescedList(heap) /\ call.op = "place" /\ SearchKnows /\ call \in Calls
  BY InvariantList DEF Place
<1>2. CASE call.at = NULL
  BY <1>1, <1>2, DoneType, IdleInvariant DEF Place
<1>3. CASE call.at # NULL /\ call.fit
  <2>1. /\ call.at \in DOMAIN heap /\ heap' = [heap EXCEPT ![call.at].status = "ALLOCATED"]
        /\ call' = Done(call.at + Hdr)
    BY <1>1, <1>3 DEF SearchKnows, Place
  <2>2. List(heap') /\ CoalescedList(heap')
    BY <1>1, <2>1, AllocatedList
  <2>3. call.at + Hdr \in Addrs
    BY <1>1, <2>1, ChunkFacts DEF Addrs
  <2>4. QED
    BY <2>1, <2>2, <2>3, DoneType, IdleInvariant
<1>4. CASE call.at # NULL /\ ~call.fit
  <2>1. call.at \in DOMAIN heap /\ Divisible(call.at) /\ call.size \in Nat
    BY <1>1, <1>4 DEF SearchKnows, Calls
  <2>2. CanBreak(heap, call.at, call.size)
    BY <2>1 DEF Divisible, CanBreak
  <2>3. /\ heap' = break_chunk(heap, call.at, call.size)
        /\ call' = Done(NewChunk(heap, call.at, call.size) + Hdr)
    BY <1>1, <1>4, <2>2 DEF Place
  <2>4. Broken(heap', heap, call.at, call.size)
    BY <1>1, <2>1, <2>3, BreakList DEF Divisible
  <2>5. CoalescedList(heap')
    BY <1>1, <2>1, <2>4, BrokenCoalesced
  <2>6. QED
    BY <2>3, <2>4, <2>5, DoneType, IdleInvariant DEF Broken
<1>5. QED
  BY <1>2, <1>3, <1>4

LEMMA KfreeInvariant ==
    ASSUME HeapInvariant, NEW p, Idle, kfree(p) PROVE HeapInvariant'
<1>1. List(heap) /\ CoalescedList(heap) /\ call \in Calls /\ call.op = "none" /\ call' = call
  BY InvariantList DEF kfree, Idle
<1>2. List(heap') /\ CoalescedList(heap')
  BY <1>1, MergedList DEF kfree
<1>3. QED
  BY <1>1, <1>2, IdleInvariant

LEMMA NextHeap == HeapInvariant /\ [Next]_vars => HeapInvariant'
<1> SUFFICES ASSUME HeapInvariant, [Next]_vars PROVE HeapInvariant'
  OBVIOUS
<1>1. ASSUME NEW n \in Requests, kmalloc(n) PROVE HeapInvariant'
  BY <1>1, KmallocInvariant
<1>2. ASSUME NEW p, kfree(p) PROVE HeapInvariant'
  BY <1>2, KfreeInvariant DEF kfree
<1>3. ASSUME find_best_fit PROVE HeapInvariant'
  BY <1>3, SearchInvariant
<1>4. ASSUME Place PROVE HeapInvariant'
  BY <1>4, PlaceInvariant
<1>5. ASSUME UNCHANGED vars PROVE HeapInvariant'
  BY <1>5 DEF vars, HeapInvariant, TypeOK, Tiled, Extent, Forward, Backward, End, Coalesced,
              IsFree, SplitSucceeds, SearchKnows, Visited, Fits, Divisible
<1>6. QED
  BY <1>1, <1>2, <1>3, <1>4, <1>5 DEF Next

(* The chunks tile the page, the list is sound, and no free run is split, for  *)
(* every sequence of calls.                                                    *)
THEOREM HeapSound == Spec => []HeapInvariant
  BY InitHeap, NextHeap, PTL DEF Spec

(* The chunks tile the page, and the list runs through them both ways, whenever *)
(* the client calls.                                                           *)
THEOREM AlwaysTiled == Spec => []Tiled
<1>1. HeapInvariant => Tiled
  BY DEF HeapInvariant
<1>2. QED
  BY <1>1, HeapSound, PTL

(* No call of kfree, in whatever order, leaves two free chunks side by side.   *)
THEOREM AlwaysCoalesced == Spec => []Coalesced
<1>1. HeapInvariant => Coalesced
  BY DEF HeapInvariant
<1>2. QED
  BY <1>1, HeapSound, PTL

(* The exit in kmalloc is dead code.                                           *)
THEOREM NeverExits == Spec => []SplitSucceeds
<1>1. HeapInvariant => SplitSucceeds
  BY DEF HeapInvariant
<1>2. QED
  BY <1>1, HeapSound, PTL

(* Freeing everything restores the page heap_init made.                        *)
THEOREM NoLeak == Spec => []NothingLeaks
<1>1. ASSUME HeapInvariant PROVE NothingLeaks
  <2>1. SUFFICES ASSUME \A a \in DOMAIN heap : IsFree(heap, a) PROVE heap = Whole
    BY DEF NothingLeaks
  <2>2. List(heap) /\ CoalescedList(heap) /\ 0 \in DOMAIN heap
    BY <1>1, InvariantList DEF List, Extent
  <2>3. heap[0].next = NULL
    BY <2>1, <2>2, ChunkFacts DEF CoalescedList
  <2>4. End(heap, 0) = PAGE_SIZE /\ heap[0].prev = NULL /\ heap[0].size = PAGE_SIZE - Hdr
    BY <2>2, <2>3, ChunkFacts
  <2>5. \A b \in DOMAIN heap : b = 0
    <3>1. ASSUME NEW b \in DOMAIN heap, b # 0 PROVE FALSE
      <4>1. End(heap, 0) <= b
        BY <2>2, <3>1, ChunkFacts DEF List, Extent
      <4>2. QED
        BY <2>2, <2>4, <4>1, ChunkFacts
    <3>2. QED
      BY <3>1
  <2>6. DOMAIN heap = {0} /\ heap = [x \in DOMAIN heap |-> heap[x]] /\ heap[0] \in Headers
    BY <2>2, <2>5 DEF List, WellTyped
  <2>7. heap[0] = [status |-> "FREE", size |-> PAGE_SIZE - Hdr, next |-> NULL, prev |-> NULL]
    <3>1. heap[0] = [status |-> heap[0].status, size |-> heap[0].size,
                     next |-> heap[0].next, prev |-> heap[0].prev]
      BY <2>6, HeaderUpdate
    <3>2. heap[0].status = "FREE"
      BY <2>1, <2>2 DEF IsFree
    <3>3. QED
      BY <2>3, <2>4, <3>1, <3>2
  <2>8. QED
    BY <2>6, <2>7 DEF Whole
<1>2. QED
  BY <1>1, HeapSound, PTL
=============================================================================
