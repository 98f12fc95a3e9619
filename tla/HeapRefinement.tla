---------------------------- MODULE HeapRefinement ----------------------------
(* Heap implements Allocator and searches best fit, and the stores of the      *)
(* program, one at a time, implement Heap and never show the signal handler a  *)
(* list it cannot walk, for every value of the constants.                      *)
EXTENDS HeapStores, HeapProofs, SequenceTheorems

Block(h, a) == [at |-> a + Hdr, len |-> h[a].size]
Live(h)     == {Block(h, a) : a \in Held(h)}

\* A step of Allocator or none, seen through the refinement mapping.
PromiseStep == [Promise!Next]_(Promise!vars)

\* What a call under way remembers of its argument.
Asked ==
    /\ Idle => call.want = 0
    /\ ~Idle => call.want # 0 /\ call.size = RoundUp(call.want)

-----------------------------------------------------------------------------

LEMMA View ==
    Promise!vars = <<Live(heap), call.want>> /\ Promise!vars' = <<Live(heap'), call'.want>>
  BY DEF Promise!vars, Live, Held, Block

LEMMA StutterStep ==
    ASSUME Live(heap') = Live(heap), call'.want = call.want
    PROVE  PromiseStep
  BY View DEF PromiseStep

LEMMA AskStep ==
    ASSUME Live(heap') = Live(heap), call.want = 0, call'.want \in Nat \ {0}
    PROVE  PromiseStep
<1>1. Promise!Ask
  BY DEF Promise!Ask, Live, Held, Block
<1>2. QED
  BY <1>1 DEF PromiseStep, Promise!Next

LEMMA RefuseStep ==
    ASSUME Live(heap') = Live(heap), call.want # 0, call'.want = 0
    PROVE  PromiseStep
<1>1. Promise!Refuse
  BY DEF Promise!Refuse, Live, Held, Block
<1>2. QED
  BY <1>1 DEF PromiseStep, Promise!Next

LEMMA ReleaseStep ==
    ASSUME List(heap), call.want = 0, call'.want = 0,
           NEW a \in Held(heap), Held(heap') = Held(heap) \ {a},
           \A x \in Held(heap') : heap'[x].size = heap[x].size
    PROVE  PromiseStep
<1>1. \A x \in Held(heap) : x \in Int
  BY ChunkFacts DEF Held
<1>2. Hdr \in Int
  BY HeapAssumption
<1>3. \A x \in Held(heap) \ {a} : Block(heap, x) # Block(heap, a)
  BY <1>1, <1>2 DEF Block
<1>4. \A x \in Held(heap') : Block(heap', x) = Block(heap, x)
  BY DEF Block
<1>5. Live(heap') = Live(heap) \ {Block(heap, a)} /\ Block(heap, a) \in Live(heap)
  BY <1>3, <1>4 DEF Live
<1>6. Promise!Release
  BY <1>5 DEF Promise!Release, Live, Held, Block
<1>7. QED
  BY <1>6 DEF PromiseStep, Promise!Next

(* Two chunks of one list share no byte.                                       *)
LEMMA ChunksApart ==
    ASSUME NEW h, List(h), NEW a \in DOMAIN h, NEW b \in DOMAIN h, a # b
    PROVE  Promise!Apart(Block(h, a), Block(h, b))
<1>1. a \in Nat /\ b \in Nat /\ h[a].size \in Nat /\ h[b].size \in Nat /\ Hdr \in Nat
  BY ChunkFacts
<1>2. End(h, a) <= b \/ End(h, b) <= a
  BY <1>1 DEF List, Extent
<1>3. QED
  BY <1>1, <1>2 DEF Promise!Apart, Block, End

LEMMA GrantStep ==
    ASSUME List(heap'), call.want # 0, call'.want = 0, call.want \in Requests,
           NEW a \in DOMAIN heap', a \notin Held(heap), Held(heap') = Held(heap) \union {a},
           \A x \in Held(heap) : heap'[x].size = heap[x].size,
           heap'[a].size = RoundUp(call.want)
    PROVE  PromiseStep
<1> DEFINE b == Block(heap', a)
<1>1. /\ a \in Nat /\ heap'[a].size \in Nat /\ Hdr \in Nat /\ PAGE_SIZE \in Nat
      /\ a + Hdr + heap'[a].size <= PAGE_SIZE
  BY ChunkFacts
<1>2. /\ b \in [at : 0..PAGE_SIZE, len : 0..PAGE_SIZE]
      /\ b.at + b.len <= PAGE_SIZE
  BY <1>1 DEF Block
<1>3. call.want \in {n \in Nat : Above(n) # {}} => b.len >= call.want
  BY RoundUpType DEF Block
<1>4. \A x \in Held(heap) : Block(heap', x) = Block(heap, x)
  BY DEF Block
<1>5. \A c \in Live(heap) : Promise!Apart(b, c)
  <2>1. ASSUME NEW x \in Held(heap) PROVE Promise!Apart(b, Block(heap, x))
    <3>1. x \in DOMAIN heap' /\ x # a
      BY DEF Held
    <3>2. Promise!Apart(b, Block(heap', x))
      BY <3>1, ChunksApart
    <3>3. QED
      BY <1>4, <3>2
  <2>2. QED
    BY <2>1 DEF Live
<1>6. Live(heap') = Live(heap) \union {b}
  BY <1>4 DEF Live
<1> HIDE DEF b
<1>7. Promise!Grant
  BY <1>2, <1>3, <1>5, <1>6 DEF Promise!Grant, Promise!Blocks, Live, Held, Block
<1>8. QED
  BY <1>7 DEF PromiseStep, Promise!Next

-----------------------------------------------------------------------------

(* The search remembers what was asked.                                        *)
LEMMA SearchKeepsCall ==
    ASSUME call \in Calls, find_best_fit
    PROVE  call'.op \in {"search", "place"} /\ call'.want = call.want /\ call'.size = call.size
<1>1. call.op = "search"
  BY DEF find_best_fit
<1>2. CASE call.at # NULL /\ Fits(call.at)
  BY <1>2 DEF find_best_fit, Calls
<1>3. CASE call.at # NULL /\ ~Fits(call.at)
  BY <1>1, <1>3 DEF find_best_fit, Calls
<1>4. CASE call.at = NULL
  BY <1>4 DEF find_best_fit, Calls
<1>5. QED
  BY <1>2, <1>3, <1>4

LEMMA DoneFields == \A p : Done(p).op = "none" /\ Done(p).want = 0
  BY DEF Done

(* Place is over when it is done: the exit is not taken.                       *)
LEMMA PlaceIsDone ==
    ASSUME HeapInvariant, Place
    PROVE  call'.op = "none" /\ call'.want = 0
<1>1. CASE call.at = NULL \/ call.fit
  BY <1>1, DoneFields DEF Place
<1>2. CASE call.at # NULL /\ ~call.fit
  <2>1. Divisible(call.at)
    BY <1>2, InvariantList DEF SearchKnows, Place
  <2>2. CanBreak(heap, call.at, call.size)
    BY <2>1 DEF Divisible, CanBreak
  <2>3. QED
    BY <1>2, <2>2, DoneFields DEF Place
<1>3. QED
  BY <1>1, <1>2

LEMMA AskedNext == HeapInvariant /\ Asked /\ [Next]_vars => Asked'
<1> SUFFICES ASSUME HeapInvariant, Asked, [Next]_vars PROVE Asked'
  OBVIOUS
<1>0. call \in Calls
  BY InvariantList
<1>1. ASSUME NEW n \in Requests, kmalloc(n) PROVE Asked'
  <2>1. CASE n > 0
    <3>1. call'.op = "search" /\ call'.want = n /\ call'.size = RoundUp(n)
      BY <1>1, <2>1 DEF kmalloc
    <3>2. n # 0
      BY <2>1
    <3>3. QED
      BY <3>1, <3>2 DEF Asked, Idle, RoundUp, Above, PowersOfTwo
  <2>2. CASE ~(n > 0)
    BY <1>1, <2>2, DoneFields DEF kmalloc, Asked, Idle
  <2>3. QED
    BY <2>1, <2>2
<1>2. ASSUME NEW p, kfree(p) PROVE Asked'
  BY <1>2 DEF kfree, Asked, Idle, RoundUp, Above, PowersOfTwo
<1>3. ASSUME find_best_fit PROVE Asked'
  <2>1. call'.op # "none" /\ call'.want = call.want /\ call'.size = call.size /\ call.op = "search"
    BY <1>0, <1>3, SearchKeepsCall DEF find_best_fit
  <2>2. QED
    BY <2>1 DEF Asked, Idle, RoundUp, Above, PowersOfTwo
<1>4. ASSUME Place PROVE Asked'
  BY <1>4, PlaceIsDone DEF Asked, Idle
<1>5. ASSUME UNCHANGED vars PROVE Asked'
  BY <1>5 DEF vars, Asked, Idle, RoundUp, Above, PowersOfTwo
<1>6. QED
  BY <1>1, <1>2, <1>3, <1>4, <1>5 DEF Next

-----------------------------------------------------------------------------

LEMMA InitPromise == Init => Promise!Init
<1> SUFFICES ASSUME Init PROVE Promise!Init
  OBVIOUS
<1>1. call.want = 0
  BY DoneFields DEF Init
<1>2. Held(heap) = {}
  BY DEF Init, Whole, Held
<1>3. QED
  BY <1>1, <1>2 DEF Promise!Init, Held

LEMMA PlacePromise ==
    ASSUME HeapInvariant, Asked, Place PROVE PromiseStep
<1>1. /\ List(heap) /\ CoalescedList(heap) /\ SearchKnows /\ call \in Calls
      /\ call.op = "place" /\ call'.want = 0
  BY InvariantList, PlaceIsDone DEF Place
<1>2. call.want # 0 /\ call.want \in Requests /\ call.size = RoundUp(call.want)
  BY <1>1 DEF Asked, Idle, Calls
<1>3. CASE call.at = NULL
  <2>1. heap' = heap
    BY <1>1, <1>3 DEF Place
  <2>2. QED
    BY <1>1, <1>2, <2>1, RefuseStep
<1>4. CASE call.at # NULL /\ call.fit
  <2>1. /\ call.at \in DOMAIN heap /\ heap' = [heap EXCEPT ![call.at].status = "ALLOCATED"]
        /\ IsFree(heap, call.at) /\ heap[call.at].size = call.size
    BY <1>1, <1>4 DEF SearchKnows, Place, Fits
  <2>2. /\ List(heap') /\ DOMAIN heap' = DOMAIN heap
        /\ Held(heap') = Held(heap) \union {call.at}
        /\ \A x \in DOMAIN heap : heap'[x].size = heap[x].size
    BY <1>1, <2>1, AllocatedList
  <2>3. call.at \notin Held(heap) /\ Held(heap) \subseteq DOMAIN heap
    BY <2>1 DEF Held, IsFree
  <2>4. QED
    BY <1>1, <1>2, <2>1, <2>2, <2>3, GrantStep
<1>5. CASE call.at # NULL /\ ~call.fit
  <2> DEFINE new == NewChunk(heap, call.at, call.size)
  <2>1. call.at \in DOMAIN heap /\ Divisible(call.at) /\ call.size \in Nat
    BY <1>1, <1>5 DEF SearchKnows, Calls
  <2>2. heap' = break_chunk(heap, call.at, call.size)
    BY <1>1, <1>5, <2>1 DEF Place, Divisible, CanBreak
  <2>3. Broken(heap', heap, call.at, call.size)
    BY <1>1, <2>1, <2>2, BreakList DEF Divisible
  <2>4. /\ List(heap') /\ new \notin DOMAIN heap /\ DOMAIN heap' = DOMAIN heap \union {new}
        /\ heap'[new].status = "ALLOCATED" /\ heap'[new].size = call.size
        /\ \A x \in DOMAIN heap : heap'[x].status = heap[x].status
        /\ \A x \in DOMAIN heap \ {call.at} : heap'[x].size = heap[x].size
    BY <2>3 DEF Broken
  <2> HIDE DEF new
  <2>5. Held(heap') = Held(heap) \union {new} /\ new \notin Held(heap)
    BY <2>4 DEF Held
  <2>6. call.at \notin Held(heap) /\ Held(heap) \subseteq DOMAIN heap
    BY <2>1 DEF Divisible, IsFree, Held
  <2>7. QED
    BY <1>1, <1>2, <2>4, <2>5, <2>6, GrantStep
<1>6. QED
  BY <1>3, <1>4, <1>5

LEMMA KfreePromise ==
    ASSUME HeapInvariant, Asked, NEW p, kfree(p) PROVE PromiseStep
<1>1. List(heap) /\ CoalescedList(heap) /\ call' = call /\ call.want = 0
  BY InvariantList DEF kfree, Asked
<1>2. CASE p # NULL /\ heap[p - Hdr].status = "ALLOCATED"
  <2>1. p - Hdr \in DOMAIN heap /\ heap' = Merged(heap, p - Hdr)
    BY <1>2 DEF kfree
  <2>2. /\ Held(heap') = Held(heap) \ {p - Hdr}
        /\ \A x \in Held(heap) \ {p - Hdr} : heap'[x].size = heap[x].size
    BY <1>1, <2>1, MergedList
  <2>3. p - Hdr \in Held(heap)
    BY <1>2, <2>1 DEF Held
  <2>4. QED
    BY <1>1, <2>2, <2>3, ReleaseStep
<1>3. CASE ~(p # NULL /\ heap[p - Hdr].status = "ALLOCATED")
  BY <1>1, <1>3, StutterStep DEF kfree
<1>4. QED
  BY <1>2, <1>3

LEMMA NextPromise == HeapInvariant /\ Asked /\ [Next]_vars => PromiseStep
<1> SUFFICES ASSUME HeapInvariant, Asked, [Next]_vars PROVE PromiseStep
  OBVIOUS
<1>1. ASSUME NEW n \in Requests, kmalloc(n) PROVE PromiseStep
  <2>1. heap' = heap /\ call.want = 0 /\ n \in Nat
    BY <1>1, HeapAssumption DEF kmalloc, Asked
  <2>2. CASE n > 0
    <3>1. call'.want = n
      BY <1>1, <2>2 DEF kmalloc
    <3>2. QED
      BY <2>1, <2>2, <3>1, AskStep
  <2>3. CASE ~(n > 0)
    <3>1. call'.want = 0
      BY <1>1, <2>3, DoneFields DEF kmalloc
    <3>2. QED
      BY <2>1, <3>1, StutterStep
  <2>4. QED
    BY <2>2, <2>3
<1>2. ASSUME NEW p, kfree(p) PROVE PromiseStep
  BY <1>2, KfreePromise
<1>3. ASSUME find_best_fit PROVE PromiseStep
  <2>1. heap' = heap /\ call'.want = call.want
    BY <1>3, InvariantList, SearchKeepsCall DEF find_best_fit
  <2>2. QED
    BY <2>1, StutterStep
<1>4. ASSUME Place PROVE PromiseStep
  BY <1>4, PlacePromise
<1>5. ASSUME UNCHANGED vars PROVE PromiseStep
  BY <1>5, StutterStep DEF vars
<1>6. QED
  BY <1>1, <1>2, <1>3, <1>4, <1>5 DEF Next

LEMMA InitAsked == Init => Asked
  BY DoneFields DEF Init, Asked, Idle

(* The heap hands out blocks of its page that are long enough and share no     *)
(* byte, and takes back only what it has handed out, for every page, header    *)
(* size and client.                                                            *)
THEOREM HeapIsAllocator == Spec => ImplementsAllocator
<1>1. Spec => []Asked
  BY InitAsked, AskedNext, HeapSound, PTL DEF Spec
<1>2. [][Next]_vars /\ []HeapInvariant /\ []Asked => [][Promise!Next]_(Promise!vars)
  BY NextPromise, PTL DEF PromiseStep
<1>3. QED
  BY <1>1, <1>2, InitPromise, HeapSound, PTL DEF Spec, ImplementsAllocator, Promise!Spec

-----------------------------------------------------------------------------

\* What kmalloc does when its search is over.
BestFitStep ==
    (call.op = "place" /\ Idle') =>
          IF \E a \in DOMAIN heap : Fits(a)
          THEN \E a \in DOMAIN heap : Fits(a) /\ heap' = [heap EXCEPT ![a].status = "ALLOCATED"]
          ELSE IF \E a \in DOMAIN heap : Divisible(a)
          THEN \E a \in DOMAIN heap :
                  /\ Divisible(a) /\ heap'[a].size = heap[a].size - (call.size + Hdr)
                  /\ \A b \in DOMAIN heap : Divisible(b) => heap[a].size <= heap[b].size
          ELSE call'.ret = NULL /\ heap' = heap

\* An exact fit is a chunk.
Found == (call.op = "place" /\ call.fit) => call.at # NULL

LEMMA FoundNext == HeapInvariant /\ Found /\ [Next]_vars => Found'
<1> SUFFICES ASSUME HeapInvariant, Found, [Next]_vars PROVE Found'
  OBVIOUS
<1>1. ASSUME NEW n \in Requests, kmalloc(n) PROVE Found'
  BY <1>1 DEF kmalloc, Done, Found
<1>2. ASSUME NEW p, kfree(p) PROVE Found'
  BY <1>2 DEF kfree, Found
<1>3. ASSUME find_best_fit PROVE Found'
  <2>1. ~call.fit /\ call \in Calls
    BY <1>3, InvariantList DEF SearchKnows, find_best_fit
  <2>2. CASE call.at # NULL
    BY <1>3, <2>1, <2>2 DEF find_best_fit, Calls, Found
  <2>3. CASE call.at = NULL
    BY <1>3, <2>1, <2>3 DEF find_best_fit, Calls, Found
  <2>4. QED
    BY <2>2, <2>3
<1>4. ASSUME Place PROVE Found'
  BY <1>4, PlaceIsDone DEF Found
<1>5. ASSUME UNCHANGED vars PROVE Found'
  BY <1>5 DEF vars, Found
<1>6. QED
  BY <1>1, <1>2, <1>3, <1>4, <1>5 DEF Next

LEMMA PlaceIsBestFit == ASSUME HeapInvariant, Found, Place PROVE BestFitStep
<1>1. /\ List(heap) /\ SearchKnows /\ call.op = "place" /\ call \in Calls
  BY InvariantList DEF Place
<1>2. CASE call.at # NULL /\ call.fit
  <2>1. /\ call.at \in DOMAIN heap /\ Fits(call.at)
        /\ heap' = [heap EXCEPT ![call.at].status = "ALLOCATED"]
    BY <1>1, <1>2 DEF SearchKnows, Place
  <2>2. QED
    BY <2>1 DEF BestFitStep
<1>3. CASE call.at = NULL
  <2>1. heap' = heap /\ call' = Done(NULL)
    BY <1>1, <1>3 DEF Place
  <2>2. CASE call.fit
    BY <1>1, <1>3, <2>2 DEF Found
  <2>3. CASE ~call.fit
    <3>1. \A a \in DOMAIN heap : ~Fits(a) /\ ~Divisible(a)
      BY <1>1, <1>3, <2>3 DEF SearchKnows
    <3>2. QED
      BY <2>1, <3>1 DEF BestFitStep, Done
  <2>4. QED
    BY <2>2, <2>3
<1>4. CASE call.at # NULL /\ ~call.fit
  <2>1. /\ call.at \in DOMAIN heap /\ Divisible(call.at) /\ call.size \in Nat
        /\ \A a \in DOMAIN heap :
              ~Fits(a) /\ (Divisible(a) => heap[call.at].size <= heap[a].size)
    BY <1>1, <1>4 DEF SearchKnows, Calls
  <2>2. heap' = break_chunk(heap, call.at, call.size)
    BY <1>1, <1>4, <2>1 DEF Place, Divisible, CanBreak
  <2>3. heap'[call.at].size = heap[call.at].size - (call.size + Hdr)
    <3>1. Broken(heap', heap, call.at, call.size)
      BY <1>1, <2>1, <2>2, BreakList DEF Divisible
    <3>2. QED
      BY <3>1 DEF Broken
  <2>4. QED
    BY <2>1, <2>3 DEF BestFitStep
<1>5. QED
  BY <1>2, <1>3, <1>4

(* kmalloc takes the best chunk there is, and gives up only when there is none.*)
THEOREM AlwaysBestFit == Spec => BestFit
<1>1. HeapInvariant /\ Found /\ [Next]_vars => [BestFitStep]_vars
  <2>1. SUFFICES ASSUME HeapInvariant, Found, Next, call.op = "place", Idle' PROVE BestFitStep
    BY DEF BestFitStep
  <2>2. Place
    BY <2>1 DEF Next, kmalloc, kfree, find_best_fit, Idle
  <2>3. QED
    BY <2>1, <2>2, PlaceIsBestFit
<1>2. Init => Found
  BY DoneFields DEF Init, Found
<1>3. Spec => []Found
  BY <1>2, FoundNext, HeapSound, PTL DEF Spec
<1>4. QED
  BY <1>1, <1>3, HeapSound, PTL DEF Spec, BestFit, BestFitStep

-----------------------------------------------------------------------------
(* The stores.                                                                 *)

Fields == {"status", "size", "next", "prev"}
Links  == Addrs \union {NULL}
Cells  == [at : Addrs, field : Fields, value : Links \union Statuses]

\* Memory, with the junk in it.
Memories ==
    [Addrs -> [status : Statuses \union {Junk}, size : Addrs \union {Junk},
               next : Links \union {Junk}, prev : Links \union {Junk}]]

\* The headers at C are written out, in order, and lead to each other alone.
Trail(C, m) ==
    /\ 0 \in C /\ C \subseteq Addrs
    /\ \A a \in C :
          /\ m[a].next \in C \union {NULL} /\ m[a].size \in Addrs /\ m[a].prev # Junk
          /\ a + Hdr + m[a].size <= IF m[a].next = NULL THEN PAGE_SIZE ELSE m[a].next

\* What dump_entries may be given to walk.
Walkable(m) == m \in Memories /\ \E C : Trail(C, m)

Stored(m, s) == [m EXCEPT ![s.at][s.field] = s.value]

\* The stores s turn memory m into k, through memories the handler may see.
Leads(s, m, k, t) ==
    /\ t[0] = m /\ t[Len(s)] = k
    /\ \A i \in 0..Len(s) : Walkable(t[i])
    /\ \A i \in 1..Len(s) : t[i] = Stored(t[i - 1], s[i])
Turns(s, m, k) == s \in Seq(Cells) /\ \E t : Leads(s, m, k, t)

LEMMA NoStore == ASSUME NEW m, Walkable(m) PROVE Turns(<<>>, m, m)
<1> DEFINE t == [i \in {0} |-> m]
<1>1. Leads(<<>>, m, m, t)
  BY DEF Leads
<1>2. QED
  BY <1>1 DEF Turns

LEMMA OneStore ==
    ASSUME NEW m, NEW s \in Cells, Walkable(m), Walkable(Stored(m, s))
    PROVE  Turns(<<s>>, m, Stored(m, s))
<1> DEFINE t == [i \in {0, 1} |-> IF i = 0 THEN m ELSE Stored(m, s)]
<1>1. t[0] = m /\ t[1] = Stored(m, s)
  OBVIOUS
<1> HIDE DEF t
<1>2. Len(<<s>>) = 1 /\ <<s>>[1] = s /\ <<s>> \in Seq(Cells)
  OBVIOUS
<1>3. Leads(<<s>>, m, Stored(m, s), t)
  BY <1>1, <1>2 DEF Leads
<1>4. QED
  BY <1>2, <1>3 DEF Turns

LEMMA MoreStores ==
    ASSUME NEW s, NEW r, NEW m, NEW k, NEW g, Turns(s, m, k), Turns(r, k, g)
    PROVE  Turns(s \o r, m, g)
<1>1. PICK t : Leads(s, m, k, t)
  BY DEF Turns
<1>2. PICK u : Leads(r, k, g, u)
  BY DEF Turns
<1>3. s \in Seq(Cells) /\ r \in Seq(Cells)
  BY DEF Turns
<1>4. /\ s \o r \in Seq(Cells) /\ Len(s) \in Nat /\ Len(r) \in Nat
      /\ Len(s \o r) = Len(s) + Len(r)
      /\ \A i \in 1..Len(s) : (s \o r)[i] = s[i]
      /\ \A i \in 1..Len(r) : (s \o r)[Len(s) + i] = r[i]
  BY <1>3
<1> DEFINE v == [i \in 0..(Len(s) + Len(r)) |-> IF i <= Len(s) THEN t[i] ELSE u[i - Len(s)]]
<1>5. \A i \in 0..Len(s) : v[i] = t[i]
  BY <1>4
<1>6. \A i \in 0..Len(r) : v[Len(s) + i] = u[i]
  <2>1. t[Len(s)] = u[0]
    BY <1>1, <1>2 DEF Leads
  <2>2. TAKE i \in 0..Len(r)
  <2>3. CASE i = 0
    BY <1>4, <2>1, <2>3
  <2>4. CASE i # 0
    <3>1. PICK j : j = Len(s) + i
      OBVIOUS
    <3>2. j \in 0..(Len(s) + Len(r)) /\ ~(j <= Len(s)) /\ j - Len(s) = i
      BY <1>4, <2>4, <3>1
    <3>3. v[j] = u[i]
      BY <3>2
    <3>4. QED
      BY <3>1, <3>3
  <2>5. QED
    BY <2>3, <2>4
<1> HIDE DEF v
<1>7. v[0] = m /\ v[Len(s \o r)] = g
  BY <1>1, <1>2, <1>4, <1>5, <1>6 DEF Leads
<1>8. \A i \in 0..Len(s \o r) : Walkable(v[i])
  <2>1. TAKE i \in 0..Len(s \o r)
  <2>2. CASE i <= Len(s)
    BY <1>1, <1>4, <1>5, <2>2 DEF Leads
  <2>3. CASE ~(i <= Len(s))
    <3>1. PICK j \in 0..Len(r) : i = Len(s) + j
      <4>1. i - Len(s) \in 0..Len(r) /\ i = Len(s) + (i - Len(s))
        BY <1>4, <2>3
      <4>2. QED
        BY <4>1
    <3>2. QED
      BY <1>2, <1>6, <3>1 DEF Leads
  <2>4. QED
    BY <2>2, <2>3
<1>9. \A i \in 1..Len(s \o r) : v[i] = Stored(v[i - 1], (s \o r)[i])
  <2>1. TAKE i \in 1..Len(s \o r)
  <2>2. CASE i <= Len(s)
    <3>1. PICK p \in 0..Len(s) : p = i - 1
      BY <1>4, <2>2
    <3>2. t[i] = Stored(t[i - 1], s[i]) /\ i \in 0..Len(s) /\ i \in 1..Len(s)
      BY <1>1, <1>4, <2>2 DEF Leads
    <3>3. QED
      BY <1>4, <1>5, <3>1, <3>2
  <2>3. CASE ~(i <= Len(s))
    <3>1. PICK j \in 1..Len(r) : i = Len(s) + j
      <4>1. i - Len(s) \in 1..Len(r) /\ i = Len(s) + (i - Len(s))
        BY <1>4, <2>3
      <4>2. QED
        BY <4>1
    <3>2. PICK p \in 0..Len(r) : p = j - 1
      BY <1>4
    <3>3. u[j] = Stored(u[p], r[j])
      BY <1>2, <3>2 DEF Leads
    <3>4. i - 1 = Len(s) + p /\ j \in 0..Len(r)
      BY <1>4, <3>1, <3>2
    <3>5. v[i] = u[j] /\ v[i - 1] = u[p] /\ (s \o r)[i] = r[j]
      BY <1>4, <1>6, <3>1, <3>4
    <3>6. QED
      BY <3>3, <3>5
  <2>4. QED
    BY <2>2, <2>3
<1>10. Leads(s \o r, m, g, v)
  BY <1>7, <1>8, <1>9 DEF Leads
<1>11. QED
  BY <1>4, <1>10 DEF Turns

(* One store of several is done.                                               *)
LEMMA FewerStores ==
    ASSUME NEW s, NEW m, NEW k, Turns(s, m, k), s # <<>>
    PROVE  /\ Turns(Tail(s), Stored(m, Head(s)), k)
           /\ Len(s) = 1 => k = Stored(m, Head(s)) /\ Tail(s) = <<>>
<1>1. PICK t : Leads(s, m, k, t)
  BY DEF Turns
<1>2. s \in Seq(Cells)
  BY DEF Turns
<1>3. /\ Len(s) \in Nat \ {0} /\ Head(s) = s[1] /\ Tail(s) \in Seq(Cells)
      /\ Len(Tail(s)) = Len(s) - 1
      /\ \A i \in 1..(Len(s) - 1) : Tail(s)[i] = s[i + 1]
  BY <1>2
<1> DEFINE u == [i \in 0..(Len(s) - 1) |-> t[i + 1]]
<1>4. \A i \in 0..(Len(s) - 1) : u[i] = t[i + 1] /\ i + 1 \in 0..Len(s) /\ i + 1 \in 1..Len(s)
  BY <1>3
<1> HIDE DEF u
<1>5. t[1] = Stored(m, Head(s))
  BY <1>1, <1>3 DEF Leads
<1>6. u[0] = Stored(m, Head(s)) /\ u[Len(s) - 1] = k
  BY <1>1, <1>3, <1>4, <1>5 DEF Leads
<1>7. \A i \in 0..(Len(s) - 1) : Walkable(u[i])
  BY <1>1, <1>4 DEF Leads
<1>8. \A i \in 1..(Len(s) - 1) : u[i] = Stored(u[i - 1], Tail(s)[i])
  <2>1. TAKE i \in 1..(Len(s) - 1)
  <2>2. PICK j \in 1..Len(s) : j = i + 1
    BY <1>3
  <2>3. t[j] = Stored(t[j - 1], s[j])
    BY <1>1 DEF Leads
  <2>4. PICK p \in 0..(Len(s) - 1) : p = i - 1
    BY <1>3
  <2>5. u[p] = t[j - 1] /\ u[i] = t[j] /\ Tail(s)[i] = s[j]
    BY <1>3, <1>4, <2>2, <2>4
  <2>6. QED
    BY <2>3, <2>4, <2>5
<1>9. Leads(Tail(s), Stored(m, Head(s)), k, u)
  BY <1>3, <1>6, <1>7, <1>8 DEF Leads
<1>10. ASSUME Len(s) = 1 PROVE k = Stored(m, Head(s)) /\ Tail(s) = <<>>
  <2>1. k = t[1]
    BY <1>1, <1>10 DEF Leads
  <2>2. Tail(s) \in Seq(Cells) /\ Len(Tail(s)) = 0
    BY <1>3, <1>10
  <2>3. Tail(s) = <<>>
    BY <2>2, EmptySeq
  <2>4. QED
    BY <1>5, <2>1, <2>3
<1>11. Turns(Tail(s), Stored(m, Head(s)), k)
  BY <1>3, <1>9 DEF Turns
<1>12. QED
  BY <1>10, <1>11

\* One field of memory.
Put(m, a, field, value) == Stored(m, [at |-> a, field |-> field, value |-> value])

(* A store changes its field and no other.                                     *)
StatusSet(k, m, a, v) ==
    /\ k \in Memories
    /\ \A x \in Addrs :
          /\ k[x].status = IF x = a THEN v ELSE m[x].status
          /\ k[x].size = m[x].size /\ k[x].next = m[x].next /\ k[x].prev = m[x].prev

LEMMA PutStatus ==
    ASSUME NEW m \in Memories, NEW a \in Addrs, NEW v \in Statuses,
           NEW k, k = Put(m, a, "status", v)
    PROVE  StatusSet(k, m, a, v)
<1>1. k = [m EXCEPT ![a].status = v]
  BY DEF Put, Stored
<1>2. QED
  BY <1>1 DEF Memories, StatusSet

SizeSet(k, m, a, v) ==
    /\ k \in Memories
    /\ \A x \in Addrs :
          /\ k[x].size = IF x = a THEN v ELSE m[x].size
          /\ k[x].status = m[x].status /\ k[x].next = m[x].next /\ k[x].prev = m[x].prev

LEMMA PutSize ==
    ASSUME NEW m \in Memories, NEW a \in Addrs, NEW v \in Addrs, NEW k, k = Put(m, a, "size", v)
    PROVE  SizeSet(k, m, a, v)
<1>1. k = [m EXCEPT ![a].size = v]
  BY DEF Put, Stored
<1>2. QED
  BY <1>1 DEF Memories, SizeSet

NextSet(k, m, a, v) ==
    /\ k \in Memories
    /\ \A x \in Addrs :
          /\ k[x].next = IF x = a THEN v ELSE m[x].next
          /\ k[x].status = m[x].status /\ k[x].size = m[x].size /\ k[x].prev = m[x].prev

LEMMA PutNext ==
    ASSUME NEW m \in Memories, NEW a \in Addrs, NEW v \in Links, NEW k, k = Put(m, a, "next", v)
    PROVE  NextSet(k, m, a, v)
<1>1. k = [m EXCEPT ![a].next = v]
  BY DEF Put, Stored
<1>2. QED
  BY <1>1 DEF Memories, NextSet

PrevSet(k, m, a, v) ==
    /\ k \in Memories
    /\ \A x \in Addrs :
          /\ k[x].prev = IF x = a THEN v ELSE m[x].prev
          /\ k[x].status = m[x].status /\ k[x].size = m[x].size /\ k[x].next = m[x].next

LEMMA PutPrev ==
    ASSUME NEW m \in Memories, NEW a \in Addrs, NEW v \in Links, NEW k, k = Put(m, a, "prev", v)
    PROVE  PrevSet(k, m, a, v)
<1>1. k = [m EXCEPT ![a].prev = v]
  BY DEF Put, Stored
<1>2. QED
  BY <1>1 DEF Memories, PrevSet

LEMMA SetTurns ==
    ASSUME NEW m, Walkable(m), NEW a \in Addrs, NEW field \in Fields,
           NEW v \in Links \union Statuses, Walkable(Put(m, a, field, v))
    PROVE  Turns(Set(a, field, v), m, Put(m, a, field, v))
  BY OneStore DEF Set, Put, Cells

(* The back links are not what the handler walks along.                        *)
LEMMA SetPrevTurns ==
    ASSUME NEW m \in Memories, NEW C, Trail(C, m), NEW x \in Links, NEW v \in Addrs
    PROVE  \E k \in Memories :
              /\ Turns(SetPrev(x, v), m, k) /\ Trail(C, k)
              /\ \A y \in Addrs :
                    /\ k[y].prev = IF y = x THEN v ELSE m[y].prev
                    /\ k[y].status = m[y].status /\ k[y].size = m[y].size /\ k[y].next = m[y].next
<1>1. Walkable(m)
  BY DEF Walkable
<1>2. NULL \notin Addrs /\ Junk \notin Addrs
  BY HeapAssumption, JunkAssumption DEF Addrs
<1>3. CASE x = NULL
  <2>1. SetPrev(x, v) = <<>>
    BY <1>3 DEF SetPrev
  <2>2. Turns(SetPrev(x, v), m, m)
    BY <1>1, <2>1, NoStore
  <2>3. QED
    BY <1>2, <1>3, <2>2
<1>4. CASE x # NULL
  <2>1. x \in Addrs /\ SetPrev(x, v) = Set(x, "prev", v)
    BY <1>4 DEF SetPrev, Links
  <2>2. v \in Links
    BY DEF Links
  <2>3. PICK k : k = Put(m, x, "prev", v)
    OBVIOUS
  <2>4. /\ k \in Memories
        /\ \A y \in Addrs :
              /\ k[y].prev = IF y = x THEN v ELSE m[y].prev
              /\ k[y].status = m[y].status /\ k[y].size = m[y].size /\ k[y].next = m[y].next
    <3>1. m \in Memories /\ x \in Addrs /\ v \in Links /\ k = Put(m, x, "prev", v)
      BY <2>1, <2>2, <2>3
    <3>2. PrevSet(k, m, x, v)
      BY <3>1, PutPrev, Zenon
    <3>3. QED
      BY <3>2 DEF PrevSet
  <2>5. Trail(C, k)
    BY <1>2, <2>4 DEF Trail
  <2>6. Walkable(k)
    BY <2>4, <2>5 DEF Walkable
  <2>7. Turns(SetPrev(x, v), m, k)
    BY <1>1, <2>1, <2>2, <2>3, <2>6, SetTurns DEF Fields
  <2>8. QED
    BY <2>4, <2>5, <2>7
<1>5. QED
  BY <1>3, <1>4

-----------------------------------------------------------------------------
(* What the stores amount to.                                                  *)

\* Memory holds the headers of h.
Agrees(m, h) ==
    /\ m \in Memories
    /\ \A x \in DOMAIN h :
          /\ m[x].status = h[x].status /\ m[x].size = h[x].size
          /\ m[x].next = h[x].next /\ m[x].prev = h[x].prev

LEMMA ListTrail ==
    ASSUME NEW h, List(h), NEW m, Agrees(m, h)
    PROVE  Trail(DOMAIN h, m) /\ Walkable(m)
<1>1. ASSUME NEW a \in DOMAIN h
      PROVE  /\ m[a].next \in DOMAIN h \union {NULL} /\ m[a].size \in Addrs /\ m[a].prev # Junk
             /\ a + Hdr + m[a].size <= IF m[a].next = NULL THEN PAGE_SIZE ELSE m[a].next
  <2>1. h[a] \in Headers
    BY DEF List, WellTyped
  <2>2. m[a].size \in Addrs /\ m[a].prev # Junk
    <3>1. h[a].size \in Addrs /\ h[a].prev \in Addrs \union {NULL}
      BY <2>1, HeaderUpdate
    <3>2. QED
      BY <3>1, JunkAssumption DEF Agrees
  <2>3. m[a].next = h[a].next /\ m[a].size = h[a].size
    BY DEF Agrees
  <2>4. QED
    BY <2>2, <2>3, ChunkFacts
<1>2. 0 \in DOMAIN h /\ DOMAIN h \subseteq Addrs
  BY DEF List, WellTyped, Extent
<1>3. Trail(DOMAIN h, m)
  BY <1>1, <1>2 DEF Trail
<1>4. QED
  BY <1>3 DEF Walkable, Agrees

(* The stores of EatNext: the chunk after it is off the list before the one    *)
(* that eats it grows.                                                         *)
LEMMA EatTurns ==
    ASSUME NEW h, List(h), NEW a \in DOMAIN h, h[a].next # NULL, NEW m, Agrees(m, h)
    PROVE  \E k : Turns(EatStores(h, a), m, k) /\ Agrees(k, EatNext(h, a))
<1>1. PICK n : n = h[a].next
  OBVIOUS
<1>2. PICK z : z = h[n].next
  OBVIOUS
<1>3. PICK size : size = h[a].size + h[n].size + Hdr
  OBVIOUS
<1>4. /\ n \in DOMAIN h /\ n = End(h, a) /\ a < n /\ a \in Nat /\ n \in Nat
      /\ z # NULL => z \in DOMAIN h /\ z = End(h, n) /\ n < z
      /\ z = NULL => End(h, n) = PAGE_SIZE
  BY <1>1, <1>2, ChunkFacts
<1>5. /\ size \in Addrs /\ a + Hdr + size = End(h, n) /\ End(h, n) \in Nat
      /\ a + Hdr + h[a].size <= End(h, n) /\ End(h, n) <= PAGE_SIZE
  BY <1>1, <1>3, <1>4, ChunkFacts DEF Addrs
<1>6. /\ DOMAIN h \subseteq Addrs /\ z \in Links /\ z # a
      /\ a \in Addrs /\ a \in Links /\ size \in Links
  BY <1>4, <1>5, HeapAssumption DEF List, WellTyped, Links
<1>7. Walkable(m) /\ Trail(DOMAIN h, m) /\ m \in Memories
  BY ListTrail DEF Agrees
<1>8. PICK k1 : k1 = Put(m, a, "next", z)
  OBVIOUS
<1>9. NextSet(k1, m, a, z)
  BY <1>6, <1>7, <1>8, PutNext, Zenon
<1>10. /\ k1 \in Memories
       /\ \A y \in Addrs :
              /\ k1[y].next = IF y = a THEN z ELSE m[y].next
              /\ k1[y].status = m[y].status /\ k1[y].size = m[y].size /\ k1[y].prev = m[y].prev
  BY <1>9 DEF NextSet
<1>11. Trail(DOMAIN h, k1)
  <2>1. k1[a].next \in DOMAIN h \union {NULL} /\ k1[a].size = h[a].size
    BY <1>4, <1>6, <1>10 DEF Agrees
  <2>2. a + Hdr + k1[a].size <= IF k1[a].next = NULL THEN PAGE_SIZE ELSE k1[a].next
    BY <1>4, <1>5, <1>6, <1>10, <2>1
  <2>3. QED
    BY <1>6, <1>7, <1>10, <2>1, <2>2 DEF Trail
<1>12. Turns(Set(a, "next", z), m, k1)
  BY <1>6, <1>7, <1>8, <1>10, <1>11, SetTurns DEF Walkable, Fields
<1>13. PICK k2 \in Memories :
          /\ Turns(SetPrev(z, a), k1, k2) /\ Trail(DOMAIN h, k2)
          /\ \A y \in Addrs :
                /\ k2[y].prev = IF y = z THEN a ELSE k1[y].prev
                /\ k2[y].status = k1[y].status /\ k2[y].size = k1[y].size /\ k2[y].next = k1[y].next
  BY <1>6, <1>10, <1>11, SetPrevTurns
<1>14. PICK k3 : k3 = Put(k2, a, "size", size)
  OBVIOUS
<1>15. SizeSet(k3, k2, a, size)
  BY <1>5, <1>6, <1>13, <1>14, PutSize, Zenon
<1>16. /\ k3 \in Memories
       /\ \A y \in Addrs :
              /\ k3[y].size = IF y = a THEN size ELSE k2[y].size
              /\ k3[y].status = k2[y].status /\ k3[y].next = k2[y].next /\ k3[y].prev = k2[y].prev
  BY <1>15 DEF SizeSet
<1>17. Trail(DOMAIN h, k3)
  <2>1. k3[a].next = z /\ k3[a].size = size
    BY <1>6, <1>10, <1>13, <1>16
  <2>2. a + Hdr + k3[a].size <= IF k3[a].next = NULL THEN PAGE_SIZE ELSE k3[a].next
    BY <1>4, <1>5, <2>1
  <2>3. QED
    BY <1>5, <1>6, <1>13, <1>16, <2>2 DEF Trail
<1>18. Turns(Set(a, "size", size), k2, k3)
  BY <1>6, <1>13, <1>14, <1>16, <1>17, SetTurns DEF Walkable, Fields
<1>19. Turns(EatStores(h, a), m, k3)
  <2>1. Turns(Set(a, "next", z) \o SetPrev(z, a), m, k2)
    BY <1>12, <1>13, MoreStores
  <2>2. Turns(Set(a, "next", z) \o SetPrev(z, a) \o Set(a, "size", size), m, k3)
    BY <1>18, <2>1, MoreStores
  <2>3. QED
    BY <1>1, <1>2, <1>3, <2>2 DEF EatStores
<1>20. ASSUME NEW y \in DOMAIN h, y # n
       PROVE  LET g == EatNext(h, a)
              IN  /\ k3[y].status = g[y].status /\ k3[y].size = g[y].size
                  /\ k3[y].next = g[y].next /\ k3[y].prev = g[y].prev
  <2>1. /\ k3[y].status = h[y].status
        /\ k3[y].size = (IF y = a THEN size ELSE h[y].size)
        /\ k3[y].next = (IF y = a THEN z ELSE h[y].next)
        /\ k3[y].prev = (IF y = z THEN a ELSE h[y].prev)
    BY <1>6, <1>10, <1>13, <1>16 DEF Agrees
  <2>2. h[y] \in Headers
    BY DEF List, WellTyped
  <2>3. EatNext(h, a)[y] =
            IF y = a THEN [status |-> h[a].status, size |-> size, next |-> z, prev |-> h[a].prev]
            ELSE IF y = z THEN [h[y] EXCEPT !.prev = a] ELSE h[y]
    BY <1>1, <1>2, <1>3, <1>20 DEF EatNext
  <2>4. CASE y = a
    BY <1>6, <2>1, <2>3, <2>4
  <2>5. CASE y # a /\ y = z
    <3>1. EatNext(h, a)[y] = [status |-> h[y].status, size |-> h[y].size, next |-> h[y].next,
                              prev |-> a]
      BY <2>2, <2>3, <2>5, HeaderUpdate
    <3>2. QED
      BY <2>1, <2>5, <3>1
  <2>6. CASE y # a /\ y # z
    BY <2>1, <2>3, <2>6
  <2>7. QED
    BY <2>4, <2>5, <2>6
<1>21. DOMAIN EatNext(h, a) = DOMAIN h \ {n}
  BY <1>1 DEF EatNext
<1>22. Agrees(k3, EatNext(h, a))
  BY <1>16, <1>20, <1>21 DEF Agrees
<1>23. QED
  BY <1>19, <1>22

(* The stores of break_chunk: the chunk shrinks before the new header is on    *)
(* the list, and the new header is complete when it is, but for its status.    *)
LEMMA BreakTurns ==
    ASSUME NEW h, List(h), NEW a \in DOMAIN h, NEW size \in Nat, h[a].size > size + Hdr,
           NEW m, Agrees(m, h), NEW s,
           s = BreakStores(h, a, size) \o Set(NewChunk(h, a, size), "status", "ALLOCATED")
    PROVE  s # <<>> /\ \E k : Turns(s, m, k) /\ Agrees(k, break_chunk(h, a, size))
<1>1. PICK z : z = h[a].next
  OBVIOUS
<1>2. PICK rest : rest = Rest(h, a, size)
  OBVIOUS
<1>3. PICK new : new = NewChunk(h, a, size)
  OBVIOUS
<1>4. /\ a \in Nat /\ End(h, a) = a + Hdr + h[a].size /\ End(h, a) \in Nat /\ End(h, a) <= PAGE_SIZE
      /\ Hdr \in Nat \ {0} /\ h[a].size \in Nat /\ PAGE_SIZE \in Nat
      /\ z # NULL => z \in DOMAIN h /\ z = End(h, a)
      /\ z = NULL => End(h, a) = PAGE_SIZE
  BY <1>1, ChunkFacts
<1>5. /\ rest \in Nat /\ rest <= h[a].size /\ new \in Nat /\ new = a + Hdr + rest /\ a < new
      /\ new + Hdr + size = End(h, a) /\ new < End(h, a)
  BY <1>2, <1>3, <1>4 DEF NewChunk, Rest
<1>6. /\ DOMAIN h \subseteq Addrs /\ a \in Addrs /\ a \in Links /\ z \in Links /\ z # a /\ z # new
      /\ rest \in Addrs /\ rest \in Links /\ size \in Addrs /\ size \in Links
      /\ new \in Addrs /\ new \in Links
  <2>1. DOMAIN h \subseteq Addrs /\ a \in Addrs /\ z \in Links
    BY <1>4 DEF List, WellTyped, Links
  <2>2. rest \in Addrs /\ size \in Addrs /\ new \in Addrs
    BY <1>4, <1>5 DEF Addrs
  <2>3. z # a /\ z # new
    BY <1>4, <1>5, HeapAssumption
  <2>4. QED
    BY <2>1, <2>2, <2>3 DEF Links
<1>7. new \notin DOMAIN h
  <2>1. a < new
    BY <1>5
  <2>2. new \in DOMAIN h => End(h, a) <= new
    BY <2>1 DEF List, Extent
  <2>3. QED
    BY <1>4, <1>5, <2>2
<1>8. Walkable(m) /\ Trail(DOMAIN h, m) /\ m \in Memories
  BY ListTrail DEF Agrees
<1>9. PICK k1 : k1 = Put(m, a, "size", rest)
  OBVIOUS
<1>10. SizeSet(k1, m, a, rest)
  BY <1>6, <1>8, <1>9, PutSize, Zenon
<1>11. /\ k1 \in Memories
       /\ \A y \in Addrs :
              /\ k1[y].size = IF y = a THEN rest ELSE m[y].size
              /\ k1[y].status = m[y].status /\ k1[y].next = m[y].next /\ k1[y].prev = m[y].prev
  BY <1>10 DEF SizeSet
<1>12. Trail(DOMAIN h, k1)
  <2>1. k1[a].size = rest /\ k1[a].next = z
    BY <1>1, <1>6, <1>11 DEF Agrees
  <2>2. a + Hdr + rest <= IF z = NULL THEN PAGE_SIZE ELSE z
    <3>1. a + Hdr + rest <= End(h, a)
      BY <1>4, <1>5
    <3>2. QED
      BY <1>4, <3>1
  <2>3. QED
    BY <1>6, <1>8, <1>11, <2>1, <2>2 DEF Trail
<1>13. Turns(Set(a, "size", rest), m, k1)
  BY <1>6, <1>8, <1>9, <1>11, <1>12, SetTurns DEF Walkable, Fields
<1>14. PICK k2 : k2 = Put(k1, new, "size", size)
  OBVIOUS
<1>15. SizeSet(k2, k1, new, size)
  BY <1>6, <1>11, <1>14, PutSize, Zenon
<1>16. /\ k2 \in Memories
       /\ \A y \in Addrs :
              /\ k2[y].size = IF y = new THEN size ELSE k1[y].size
              /\ k2[y].status = k1[y].status /\ k2[y].next = k1[y].next /\ k2[y].prev = k1[y].prev
  BY <1>15 DEF SizeSet
<1>17. Trail(DOMAIN h, k2)
  BY <1>6, <1>7, <1>12, <1>16 DEF Trail
<1>18. Turns(Set(new, "size", size), k1, k2)
  BY <1>6, <1>11, <1>12, <1>14, <1>16, <1>17, SetTurns DEF Walkable, Fields
<1>19. PICK k3 : k3 = Put(k2, new, "next", z)
  OBVIOUS
<1>20. NextSet(k3, k2, new, z)
  BY <1>6, <1>16, <1>19, PutNext, Zenon
<1>21. /\ k3 \in Memories
       /\ \A y \in Addrs :
              /\ k3[y].next = IF y = new THEN z ELSE k2[y].next
              /\ k3[y].status = k2[y].status /\ k3[y].size = k2[y].size /\ k3[y].prev = k2[y].prev
  BY <1>20 DEF NextSet
<1>22. Trail(DOMAIN h, k3)
  BY <1>6, <1>7, <1>17, <1>21 DEF Trail
<1>23. Turns(Set(new, "next", z), k2, k3)
  BY <1>6, <1>16, <1>17, <1>19, <1>21, <1>22, SetTurns DEF Walkable, Fields
<1>24. PICK k4 : k4 = Put(k3, new, "prev", a)
  OBVIOUS
<1>25. PrevSet(k4, k3, new, a)
  BY <1>6, <1>21, <1>24, PutPrev, Zenon
<1>26. /\ k4 \in Memories
       /\ \A y \in Addrs :
              /\ k4[y].prev = IF y = new THEN a ELSE k3[y].prev
              /\ k4[y].status = k3[y].status /\ k4[y].size = k3[y].size /\ k4[y].next = k3[y].next
  BY <1>25 DEF PrevSet
<1>27. Trail(DOMAIN h, k4)
  BY <1>6, <1>7, <1>22, <1>26 DEF Trail
<1>28. Turns(Set(new, "prev", a), k3, k4)
  BY <1>6, <1>21, <1>22, <1>24, <1>26, <1>27, SetTurns DEF Walkable, Fields
<1>29. PICK k5 \in Memories :
          /\ Turns(SetPrev(z, new), k4, k5) /\ Trail(DOMAIN h, k5)
          /\ \A y \in Addrs :
                /\ k5[y].prev = IF y = z THEN new ELSE k4[y].prev
                /\ k5[y].status = k4[y].status /\ k5[y].size = k4[y].size /\ k5[y].next = k4[y].next
  BY <1>6, <1>26, <1>27, SetPrevTurns
<1>30. k5 \in Memories /\ Walkable(k5)
  BY <1>29 DEF Walkable
<1>31. PICK k6 : k6 = Put(k5, a, "next", new)
  OBVIOUS
<1>32. NextSet(k6, k5, a, new)
  BY <1>6, <1>30, <1>31, PutNext, Zenon
<1>33. /\ k6 \in Memories
       /\ \A y \in Addrs :
              /\ k6[y].next = IF y = a THEN new ELSE k5[y].next
              /\ k6[y].status = k5[y].status /\ k6[y].size = k5[y].size /\ k6[y].prev = k5[y].prev
  BY <1>32 DEF NextSet
<1>34. /\ k6[new].size = size /\ k6[new].next = z /\ k6[new].prev = a
       /\ k6[a].size = rest /\ k6[a].next = new
  BY <1>5, <1>6, <1>11, <1>16, <1>21, <1>26, <1>29, <1>33
<1>35. Trail(DOMAIN h \union {new}, k6)
  <2>1. a # Junk /\ new # NULL
    BY <1>4, <1>5, <1>6, JunkAssumption, HeapAssumption
  <2>2. /\ new + Hdr + k6[new].size <= IF k6[new].next = NULL THEN PAGE_SIZE ELSE k6[new].next
        /\ a + Hdr + k6[a].size <= IF k6[a].next = NULL THEN PAGE_SIZE ELSE k6[a].next
    <3>1. new + Hdr + size <= IF z = NULL THEN PAGE_SIZE ELSE z
      BY <1>4, <1>5
    <3>2. a + Hdr + rest <= IF new = NULL THEN PAGE_SIZE ELSE new
      BY <1>4, <1>5, <2>1
    <3>3. QED
      BY <1>34, <3>1, <3>2
  <2>3. k6[new].next \in DOMAIN h \union {NULL}
    BY <1>4, <1>34
  <2>4. \A y \in DOMAIN h : /\ k6[y].next = (IF y = a THEN new ELSE k5[y].next)
                            /\ k6[y].size = k5[y].size /\ k6[y].prev = k5[y].prev
    BY <1>6, <1>33
  <2>5. Trail(DOMAIN h, k5)
    BY <1>29
  <2>6. QED
    BY <1>6, <1>34, <2>1, <2>2, <2>3, <2>4, <2>5 DEF Trail
<1>36. Walkable(k6)
  BY <1>33, <1>35 DEF Walkable
<1>37. Turns(Set(a, "next", new), k5, k6)
  BY <1>6, <1>30, <1>31, <1>36, SetTurns DEF Fields
<1>38. PICK k7 : k7 = Put(k6, new, "status", "ALLOCATED")
  OBVIOUS
<1>39. "ALLOCATED" \in Statuses
  BY DEF Statuses
<1>40. StatusSet(k7, k6, new, "ALLOCATED")
  BY <1>6, <1>33, <1>38, <1>39, PutStatus, Zenon
<1>41. /\ k7 \in Memories
       /\ \A y \in Addrs :
              /\ k7[y].status = IF y = new THEN "ALLOCATED" ELSE k6[y].status
              /\ k7[y].size = k6[y].size /\ k7[y].next = k6[y].next /\ k7[y].prev = k6[y].prev
  BY <1>40 DEF StatusSet
<1>42. Trail(DOMAIN h \union {new}, k7)
  BY <1>6, <1>35, <1>41 DEF Trail
<1>43. Turns(Set(new, "status", "ALLOCATED"), k6, k7)
  BY <1>6, <1>36, <1>38, <1>39, <1>41, <1>42, SetTurns DEF Walkable, Fields
<1>44. Turns(s, m, k7) /\ s # <<>>
  <2>1. Turns(Set(a, "size", rest) \o Set(new, "size", size), m, k2)
    BY <1>13, <1>18, MoreStores
  <2>2. Turns(Set(a, "size", rest) \o Set(new, "size", size) \o Set(new, "next", z), m, k3)
    BY <1>23, <2>1, MoreStores
  <2>3. Turns(Set(a, "size", rest) \o Set(new, "size", size) \o Set(new, "next", z)
                \o Set(new, "prev", a), m, k4)
    BY <1>28, <2>2, MoreStores
  <2>4. Turns(Set(a, "size", rest) \o Set(new, "size", size) \o Set(new, "next", z)
                \o Set(new, "prev", a) \o SetPrev(z, new), m, k5)
    BY <1>29, <2>3, MoreStores
  <2>5. Turns(Set(a, "size", rest) \o Set(new, "size", size) \o Set(new, "next", z)
                \o Set(new, "prev", a) \o SetPrev(z, new) \o Set(a, "next", new), m, k6)
    BY <1>37, <2>4, MoreStores
  <2>6. Turns(BreakStores(h, a, size), m, k6)
    BY <1>1, <1>2, <1>3, <2>5 DEF BreakStores
  <2>7. Turns(BreakStores(h, a, size) \o Set(new, "status", "ALLOCATED"), m, k7)
    BY <1>43, <2>6, MoreStores
  <2>8. BreakStores(h, a, size) \o Set(new, "status", "ALLOCATED") # <<>>
    <3>1. BreakStores(h, a, size) \in Seq(Cells) /\ Set(new, "status", "ALLOCATED") \in Seq(Cells)
      BY <1>43, <2>6 DEF Turns
    <3>2. Set(new, "status", "ALLOCATED") # <<>>
      BY DEF Set
    <3>3. QED
      BY <3>1, <3>2
  <2>9. QED
    BY <1>3, <2>7, <2>8
<1>45. PICK g : g = break_chunk(h, a, size)
  OBVIOUS
<1>46. DOMAIN g = DOMAIN h \union {new}
  BY <1>3, <1>45 DEF break_chunk
<1>47. /\ k7[new].status = g[new].status /\ k7[new].size = g[new].size
       /\ k7[new].next = g[new].next /\ k7[new].prev = g[new].prev
  <2>1. g[new] = [status |-> "ALLOCATED", size |-> size, next |-> z, prev |-> a]
    BY <1>1, <1>3, <1>45 DEF break_chunk
  <2>2. k7[new].status = "ALLOCATED" /\ k7[new].size = size /\ k7[new].next = z /\ k7[new].prev = a
    BY <1>6, <1>34, <1>41
  <2>3. QED
    BY <2>1, <2>2
<1>48. ASSUME NEW y \in DOMAIN h
       PROVE  /\ k7[y].status = g[y].status /\ k7[y].size = g[y].size
              /\ k7[y].next = g[y].next /\ k7[y].prev = g[y].prev
  <2>1. /\ k7[y].status = h[y].status
        /\ k7[y].size = (IF y = a THEN rest ELSE h[y].size)
        /\ k7[y].next = (IF y = a THEN new ELSE h[y].next)
        /\ k7[y].prev = (IF y = z THEN new ELSE h[y].prev)
    <3>1. y \in Addrs /\ y # new
      BY <1>6, <1>7
    <3>2. /\ k7[y].status = k5[y].status /\ k7[y].size = k5[y].size /\ k7[y].prev = k5[y].prev
          /\ k7[y].next = (IF y = a THEN new ELSE k5[y].next)
      BY <1>33, <1>41, <3>1
    <3>3. /\ k5[y].status = k1[y].status /\ k5[y].size = k1[y].size /\ k5[y].next = k1[y].next
          /\ k5[y].prev = (IF y = z THEN new ELSE k1[y].prev)
      BY <1>16, <1>21, <1>26, <1>29, <3>1
    <3>4. QED
      BY <1>11, <3>1, <3>2, <3>3 DEF Agrees
  <2>2. h[y] \in Headers /\ y # new
    BY <1>7 DEF List, WellTyped
  <2>3. g[y] =
            IF y = a THEN [status |-> h[a].status, size |-> rest, next |-> new, prev |-> h[a].prev]
            ELSE IF y = z THEN [h[y] EXCEPT !.prev = new] ELSE h[y]
    BY <1>1, <1>2, <1>3, <1>45, <2>2 DEF break_chunk
  <2>4. CASE y = a
    BY <1>6, <2>1, <2>3, <2>4
  <2>5. CASE y # a /\ y = z
    <3>1. g[y] = [status |-> h[y].status, size |-> h[y].size, next |-> h[y].next, prev |-> new]
      BY <2>2, <2>3, <2>5, HeaderUpdate
    <3>2. QED
      BY <2>1, <2>5, <3>1
  <2>6. CASE y # a /\ y # z
    BY <2>1, <2>3, <2>6
  <2>7. QED
    BY <2>4, <2>5, <2>6
<1>49. Agrees(k7, g)
  BY <1>41, <1>46, <1>47, <1>48 DEF Agrees
<1>50. QED
  BY <1>3, <1>44, <1>45, <1>49

(* A store of a status.                                                        *)
LEMMA StatusTurns ==
    ASSUME NEW h, List(h), NEW a \in DOMAIN h, NEW v \in Statuses, NEW m, Agrees(m, h)
    PROVE  /\ Set(a, "status", v) \in Seq(Cells) /\ Set(a, "status", v) # <<>>
           /\ \E k : /\ Turns(Set(a, "status", v), m, k)
                     /\ Agrees(k, [h EXCEPT ![a].status = v])
<1>1. a \in Addrs /\ DOMAIN h \subseteq Addrs
  BY DEF List, WellTyped
<1>2. Walkable(m) /\ Trail(DOMAIN h, m) /\ m \in Memories
  BY ListTrail DEF Agrees
<1>3. PICK k : k = Put(m, a, "status", v)
  OBVIOUS
<1>4. StatusSet(k, m, a, v)
  BY <1>1, <1>2, <1>3, PutStatus, Zenon
<1>5. Trail(DOMAIN h, k) /\ k \in Memories
  BY <1>1, <1>2, <1>4 DEF Trail, StatusSet
<1>6. Turns(Set(a, "status", v), m, k)
  BY <1>1, <1>2, <1>3, <1>5, SetTurns DEF Walkable, Fields
<1>7. PICK g : g = [h EXCEPT ![a].status = v]
  OBVIOUS
<1>8. DOMAIN g = DOMAIN h
  BY <1>7
<1>9. ASSUME NEW y \in DOMAIN h
      PROVE  /\ k[y].status = g[y].status /\ k[y].size = g[y].size
             /\ k[y].next = g[y].next /\ k[y].prev = g[y].prev
  <2>1. /\ k[y].status = (IF y = a THEN v ELSE h[y].status) /\ k[y].size = h[y].size
        /\ k[y].next = h[y].next /\ k[y].prev = h[y].prev
    BY <1>1, <1>4 DEF StatusSet, Agrees
  <2>2. h[y] \in Headers
    BY DEF List, WellTyped
  <2>3. CASE y = a
    <3>1. g[y] = [h[y] EXCEPT !.status = v]
      BY <1>7, <2>3
    <3>2. g[y] = [status |-> v, size |-> h[y].size, next |-> h[y].next, prev |-> h[y].prev]
      BY <2>2, <3>1, HeaderUpdate
    <3>3. QED
      BY <2>1, <2>3, <3>2
  <2>4. CASE y # a
    BY <1>7, <2>1, <2>4
  <2>5. QED
    BY <2>3, <2>4
<1>10. Agrees(k, g)
  BY <1>5, <1>8, <1>9 DEF Agrees
<1>11. Set(a, "status", v) # <<>>
  BY DEF Set
<1>12. QED
  BY <1>6, <1>7, <1>10, <1>11 DEF Turns

LEMMA RightTurns ==
    ASSUME NEW h, List(h), NEW a \in DOMAIN h, NEW m, Agrees(m, h)
    PROVE  \E k : Turns(RightStores(h, a), m, k) /\ Agrees(k, LookRight(h, a))
<1>1. CASE h[a].next # NULL /\ IsFree(h, h[a].next)
  <2>1. LookRight(h, a) = EatNext(h, a) /\ h[a].next \in DOMAIN h
    BY <1>1, ChunkFacts DEF LookRight
  <2>2. DOMAIN EatNext(h, a) = DOMAIN h \ {h[a].next}
    BY DEF EatNext
  <2>3. RightStores(h, a) = EatStores(h, a)
    BY <2>1, <2>2 DEF RightStores
  <2>4. QED
    BY <1>1, <2>1, <2>3, EatTurns
<1>2. CASE ~(h[a].next # NULL /\ IsFree(h, h[a].next))
  <2>1. LookRight(h, a) = h /\ RightStores(h, a) = <<>>
    BY <1>2 DEF LookRight, RightStores
  <2>2. QED
    BY <2>1, ListTrail, NoStore
<1>3. QED
  BY <1>1, <1>2

LEMMA LeftTurns ==
    ASSUME NEW h, List(h), NEW a \in DOMAIN h, NEW m, Agrees(m, h)
    PROVE  \E k : Turns(LeftStores(h, a), m, k) /\ Agrees(k, LookLeft(h, a))
<1>1. CASE h[a].prev # NULL /\ IsFree(h, h[a].prev)
  <2>1. PICK p : p = h[a].prev
    OBVIOUS
  <2>2. LookLeft(h, a) = EatNext(h, p) /\ p \in DOMAIN h /\ h[p].next = a /\ a # NULL
    BY <1>1, <2>1, ChunkFacts DEF LookLeft
  <2>3. DOMAIN EatNext(h, p) = DOMAIN h \ {a}
    BY <2>2 DEF EatNext
  <2>4. LeftStores(h, a) = EatStores(h, p)
    BY <2>1, <2>2, <2>3 DEF LeftStores
  <2>5. QED
    BY <2>2, <2>4, EatTurns
<1>2. CASE ~(h[a].prev # NULL /\ IsFree(h, h[a].prev))
  <2>1. LookLeft(h, a) = h /\ LeftStores(h, a) = <<>>
    BY <1>2 DEF LookLeft, LeftStores
  <2>2. QED
    BY <2>1, ListTrail, NoStore
<1>3. QED
  BY <1>1, <1>2

(* The stores of kfree.                                                        *)
LEMMA MergedTurns ==
    ASSUME NEW h, List(h), CoalescedList(h), NEW a \in DOMAIN h, NEW m, Agrees(m, h)
    PROVE  /\ MergedStores(h, a) # <<>>
           /\ \E k : Turns(MergedStores(h, a), m, k) /\ Agrees(k, Merged(h, a))
<1>1. PICK f : f = Freed(h, a)
  OBVIOUS
<1>2. PICK r : r = LookRight(f, a)
  OBVIOUS
<1>3. PICK s : s = Set(a, "status", "FREE")
  OBVIOUS
<1>4. List(f) /\ NearlyCoalesced(f, a) /\ a \in DOMAIN f /\ IsFree(f, a)
  BY <1>1, FreedList
<1>5. List(r) /\ a \in DOMAIN r
  BY <1>2, <1>4, LookRightList
<1>6. PICK k1 : Turns(s, m, k1) /\ Agrees(k1, f) /\ s \in Seq(Cells) /\ s # <<>>
  <2>1. "FREE" \in Statuses
    BY DEF Statuses
  <2>2. f = [h EXCEPT ![a].status = "FREE"]
    BY <1>1 DEF Freed
  <2>3. QED
    BY <1>3, <2>1, <2>2, StatusTurns
<1>7. PICK k2 : Turns(RightStores(f, a), k1, k2) /\ Agrees(k2, r)
  BY <1>2, <1>4, <1>6, RightTurns
<1>8. PICK k3 : Turns(LeftStores(r, a), k2, k3) /\ Agrees(k3, LookLeft(r, a))
  BY <1>5, <1>7, LeftTurns
<1>9. Merged(h, a) = LookLeft(r, a)
  BY <1>1, <1>2 DEF Merged
<1>10. MergedStores(h, a) = s \o RightStores(f, a) \o LeftStores(r, a)
  BY <1>1, <1>2, <1>3 DEF MergedStores
<1>11. Turns(MergedStores(h, a), m, k3)
  <2>1. Turns(s \o RightStores(f, a), m, k2)
    BY <1>6, <1>7, MoreStores
  <2>2. QED
    BY <1>8, <1>10, <2>1, MoreStores
<1>12. MergedStores(h, a) # <<>>
  <2>1. PICK q1 \in Seq(Cells), q2 \in Seq(Cells) : MergedStores(h, a) = s \o q1 \o q2
    BY <1>7, <1>8, <1>10 DEF Turns
  <2>2. QED
    BY <1>6, <2>1
<1>13. QED
  BY <1>8, <1>9, <1>11, <1>12

-----------------------------------------------------------------------------
(* The invariant: memory is on its way to what the heap is.                    *)

Settling ==
    /\ \E k : Turns(stores, mem, k) /\ Agrees(k, heap)
    /\ Calm => mem = Written(heap)

LEMMA AgreesHeader ==
    ASSUME NEW h, List(h), NEW k, Agrees(k, h), NEW a \in DOMAIN h
    PROVE  k[a] = h[a]
<1>1. h[a] \in Headers /\ a \in Addrs
  BY DEF List, WellTyped
<1>2. k[a] = [status |-> k[a].status, size |-> k[a].size, next |-> k[a].next, prev |-> k[a].prev]
  BY <1>1 DEF Agrees, Memories
<1>3. h[a] = [status |-> h[a].status, size |-> h[a].size, next |-> h[a].next, prev |-> h[a].prev]
  BY <1>1, HeaderUpdate
<1>4. QED
  BY <1>2, <1>3 DEF Agrees

LEMMA WrittenAgrees ==
    ASSUME NEW h, List(h)
    PROVE  Agrees(Written(h), h) /\ Turns(<<>>, Written(h), Written(h))
<1>1. PICK m : m = Written(h)
  OBVIOUS
<1>2. \A a \in Addrs : m[a] = IF a \in DOMAIN h THEN h[a] ELSE JunkHeader
  BY <1>1 DEF Written
<1>3. \A a \in DOMAIN h : h[a] \in Headers /\ a \in Addrs
  BY DEF List, WellTyped
<1>4. m \in Memories
  <2>1. ASSUME NEW a \in Addrs
        PROVE  m[a] \in [status : Statuses \union {Junk}, size : Addrs \union {Junk},
                         next : Links \union {Junk}, prev : Links \union {Junk}]
    <3>1. CASE a \in DOMAIN h
      <4>1. m[a] = h[a] /\ h[a] \in Headers
        BY <1>2, <1>3, <3>1
      <4>2. QED
        BY <4>1 DEF Headers, Links
    <3>2. CASE a \notin DOMAIN h
      BY <1>2, <3>2 DEF JunkHeader
    <3>3. QED
      BY <3>1, <3>2
  <2>2. m = [a \in Addrs |-> m[a]]
    BY <1>1 DEF Written
  <2>3. QED
    BY <2>1, <2>2 DEF Memories
<1>5. Agrees(m, h)
  BY <1>2, <1>3, <1>4 DEF Agrees
<1>6. QED
  BY <1>1, <1>5, ListTrail, NoStore

LEMMA SettlingStays ==
    ASSUME Settling, UNCHANGED <<heap, mem, stores>> PROVE Settling'
  BY DEF Settling, Calm

LEMMA InitSettling == StoreInit => Settling
<1> SUFFICES ASSUME StoreInit PROVE Settling
  OBVIOUS
<1>1. List(heap) /\ heap = Whole
  BY InitHeap, InvariantList DEF StoreInit, Init
<1>2. QED
  BY <1>1, WrittenAgrees DEF StoreInit, Settling

LEMMA FreeSettles ==
    ASSUME HeapInvariant, Settling, NEW p, Free(p) PROVE Settling'
<1>1. /\ List(heap) /\ CoalescedList(heap) /\ mem = Written(heap) /\ mem' = mem /\ stores = <<>>
      /\ kfree(p)
  BY InvariantList DEF Free, Settling, Calm
<1>2. Agrees(mem, heap)
  BY <1>1, WrittenAgrees
<1>3. CASE p # NULL /\ heap[p - Hdr].status = "ALLOCATED"
  <2>1. PICK a \in DOMAIN heap : a = p - Hdr
    BY <1>1, <1>3 DEF kfree
  <2>2. heap' = Merged(heap, a) /\ stores' = MergedStores(heap, a)
    BY <1>3, <2>1 DEF Free, kfree
  <2>3. stores' # <<>> /\ \E k : Turns(stores', mem, k) /\ Agrees(k, heap')
    BY <1>1, <1>2, <2>2, MergedTurns
  <2>4. QED
    BY <1>1, <2>3 DEF Settling, Calm
<1>4. CASE ~(p # NULL /\ heap[p - Hdr].status = "ALLOCATED")
  <2>1. heap' = heap /\ stores' = <<>>
    BY <1>4 DEF Free, kfree
  <2>2. QED
    BY <1>1, <2>1, SettlingStays
<1>5. QED
  BY <1>3, <1>4

LEMMA AllocateSettles ==
    ASSUME HeapInvariant, Settling, Allocate PROVE Settling'
<1>1. /\ List(heap) /\ CoalescedList(heap) /\ mem = Written(heap) /\ mem' = mem /\ stores = <<>>
      /\ Place /\ call.op = "place" /\ stores' = PlaceStores
      /\ SearchKnows /\ call \in Calls
  BY InvariantList DEF Allocate, Settling, Calm, Place
<1>2. Agrees(mem, heap)
  BY <1>1, WrittenAgrees
<1>3. CASE call.at = NULL
  <2>1. heap' = heap /\ stores' = <<>>
    BY <1>1, <1>3 DEF Place, PlaceStores
  <2>2. QED
    BY <1>1, <2>1, SettlingStays
<1>4. CASE call.at # NULL /\ call.fit
  <2>1. /\ call.at \in DOMAIN heap /\ heap' = [heap EXCEPT ![call.at].status = "ALLOCATED"]
        /\ stores' = Set(call.at, "status", "ALLOCATED")
    BY <1>1, <1>4 DEF Place, PlaceStores, SearchKnows
  <2>2. "ALLOCATED" \in Statuses
    BY DEF Statuses
  <2>3. stores' # <<>> /\ \E k : Turns(stores', mem, k) /\ Agrees(k, heap')
    BY <1>1, <1>2, <2>1, <2>2, StatusTurns
  <2>4. QED
    BY <1>1, <2>3 DEF Settling, Calm
<1>5. CASE call.at # NULL /\ ~call.fit
  <2>1. call.at \in DOMAIN heap /\ Divisible(call.at) /\ call.size \in Nat
    BY <1>1, <1>5 DEF SearchKnows, Calls
  <2>2. CanBreak(heap, call.at, call.size) /\ heap[call.at].size > call.size + Hdr
    BY <2>1 DEF CanBreak, Divisible
  <2>3. /\ heap' = break_chunk(heap, call.at, call.size)
        /\ stores' = BreakStores(heap, call.at, call.size)
                        \o Set(NewChunk(heap, call.at, call.size), "status", "ALLOCATED")
    BY <1>1, <1>5, <2>2 DEF Place, PlaceStores
  <2>4. stores' # <<>> /\ \E k : Turns(stores', mem, k) /\ Agrees(k, heap')
    BY <1>1, <1>2, <2>1, <2>2, <2>3, BreakTurns
  <2>5. QED
    BY <1>1, <2>4 DEF Settling, Calm
<1>6. QED
  BY <1>3, <1>4, <1>5

LEMMA StoreSettles ==
    ASSUME HeapInvariant, Settling, Store PROVE Settling'
<1>1. List(heap) /\ heap' = heap /\ stores # <<>> /\ stores' = Tail(stores)
  BY InvariantList DEF Store, Calm, vars
<1>2. PICK k : Turns(stores, mem, k) /\ Agrees(k, heap)
  BY DEF Settling
<1>3. PICK next : next = Stored(mem, Head(stores))
  OBVIOUS
<1>4. /\ Turns(stores', next, k)
      /\ Len(stores) = 1 => k = next /\ stores' = <<>>
      /\ Len(stores) # 1 => stores' # <<>>
  <2>1. stores \in Seq(Cells)
    BY <1>2 DEF Turns
  <2>2. ASSUME Len(stores) # 1 PROVE stores' # <<>>
    <3>1. Len(stores) \in Nat /\ Len(stores) # 0 /\ Len(Tail(stores)) = Len(stores) - 1
      BY <1>1, <2>1
    <3>2. Len(stores') # 0
      BY <1>1, <2>2, <3>1
    <3>3. QED
      BY <3>2
  <2>3. /\ Turns(Tail(stores), next, k)
        /\ Len(stores) = 1 => k = next /\ Tail(stores) = <<>>
    BY <1>1, <1>2, <1>3, FewerStores
  <2>4. QED
    BY <1>1, <2>2, <2>3
<1>5. mem' = IF Len(stores) = 1
             THEN [a \in Addrs |-> IF a \in DOMAIN heap THEN next[a] ELSE JunkHeader] ELSE next
  BY <1>3 DEF Store, Stored
<1>6. CASE Len(stores) = 1
  <2>1. \A a \in DOMAIN heap : next[a] = heap[a]
    BY <1>1, <1>2, <1>4, <1>6, AgreesHeader
  <2>2. mem' = Written(heap)
    BY <1>5, <1>6, <2>1 DEF Written
  <2>3. Turns(<<>>, mem', mem') /\ Agrees(mem', heap)
    BY <1>1, <2>2, WrittenAgrees
  <2>4. QED
    BY <1>1, <1>4, <1>6, <2>2, <2>3 DEF Settling
<1>7. CASE Len(stores) # 1
  <2>1. mem' = next /\ stores' # <<>>
    BY <1>4, <1>5, <1>7
  <2>2. QED
    BY <1>1, <1>2, <1>4, <2>1 DEF Settling, Calm
<1>8. QED
  BY <1>6, <1>7

LEMMA NextSettling == HeapInvariant /\ Settling /\ [StoreNext]_storeVars => Settling'
<1> SUFFICES ASSUME HeapInvariant, Settling, [StoreNext]_storeVars PROVE Settling'
  OBVIOUS
<1>1. ASSUME NEW n, Malloc(n) PROVE Settling'
  BY <1>1, SettlingStays DEF Malloc, kmalloc
<1>2. ASSUME Search PROVE Settling'
  BY <1>2, SettlingStays DEF Search, find_best_fit
<1>3. ASSUME UNCHANGED storeVars PROVE Settling'
  BY <1>3, SettlingStays DEF storeVars, vars
<1>4. QED
  BY <1>1, <1>2, <1>3, FreeSettles, AllocateSettles, StoreSettles DEF StoreNext

(* HeapStores takes the calls of Heap as they are and stores on the side, so   *)
(* that what holds of Heap holds of it.                                        *)
LEMMA StoresFollowHeap == StoreSpec => Spec
<1>1. StoreInit => Init
  BY DEF StoreInit
<1>2. [StoreNext]_storeVars => [Next]_vars
  BY DEF StoreNext, storeVars, vars, Malloc, Search, Allocate, Free, Store, Next
<1>3. QED
  BY <1>1, <1>2, PTL DEF StoreSpec, Spec

LEMMA AlwaysSettling == StoreSpec => []Settling
  BY StoresFollowHeap, HeapSound, InitSettling, NextSettling, PTL DEF StoreSpec

(* The statements of kfree and break_chunk, each of which reads what those     *)
(* before it have stored, amount to EatNext and break_chunk, for every list    *)
(* and every chunk.                                                            *)
THEOREM StoresAlwaysAgree == StoreSpec => []StoresAgree
<1>1. Settling => StoresAgree
  BY DEF Settling, StoresAgree
<1>2. QED
  BY <1>1, AlwaysSettling, PTL

-----------------------------------------------------------------------------
(* The walk of dump_entries, a function that is defined by recursion: it is    *)
(* there because its values up to every number of rounds are.                  *)

\* One more round of the loop, from headers S.
Onward(S) == S \union {mem[a].next : a \in S \ {NULL, Junk}}

\* g holds the rounds up to n.
RoundsTo(g, n) == \A i \in 0..n : g[i] = IF i = 0 THEN {0} ELSE Onward(g[i - 1])

LEMMA RoundsExist ==
    ASSUME NEW n \in Nat
    PROVE  \E g : RoundsTo(g, n)
<1> DEFINE S == {k \in Nat : ~ \E g : RoundsTo(g, k)}
<1>1. SUFFICES ASSUME S # {} PROVE FALSE
  OBVIOUS
<1>2. PICK k \in S : \A j \in S : k <= j
  BY <1>1, LeastElement
<1>3. k # 0
  <2> DEFINE g == [i \in {0} |-> {0}]
  <2>1. RoundsTo(g, 0)
    BY DEF RoundsTo
  <2> HIDE DEF g
  <2>2. QED
    BY <1>2, <2>1
<1>4. PICK g : RoundsTo(g, k - 1)
  BY <1>2, <1>3
<1> DEFINE h == [i \in 0..k |-> IF i < k THEN g[i] ELSE Onward(g[k - 1])]
<1>5. \A i \in 0..(k - 1) : h[i] = g[i]
  BY <1>2, <1>3
<1>6. h[k] = Onward(g[k - 1])
  BY <1>2, <1>3
<1> HIDE DEF h
<1>7. ASSUME NEW i \in 0..k PROVE h[i] = IF i = 0 THEN {0} ELSE Onward(h[i - 1])
  <2>1. CASE i = k
    BY <1>2, <1>3, <1>5, <1>6, <2>1
  <2>2. CASE i # k /\ i # 0
    <3>1. PICK j \in 0..(k - 1) : j = i - 1
      BY <1>2, <2>2
    <3>2. i \in 0..(k - 1)
      BY <1>2, <2>2
    <3>3. h[i] = g[i] /\ h[j] = g[j] /\ g[i] = Onward(g[j])
      BY <1>4, <1>5, <2>2, <3>1, <3>2 DEF RoundsTo
    <3>4. QED
      BY <2>2, <3>1, <3>3
  <2>3. CASE i # k /\ i = 0
    <3>1. 0 \in 0..(k - 1)
      BY <1>2, <1>3
    <3>2. g[0] = {0}
      BY <1>4, <3>1 DEF RoundsTo
    <3>3. QED
      BY <1>5, <2>3, <3>1, <3>2
  <2>4. QED
    BY <2>1, <2>2, <2>3
<1>8. RoundsTo(h, k)
  BY <1>7 DEF RoundsTo
<1>9. QED
  BY <1>2, <1>8

LEMMA RoundsUnique ==
    ASSUME NEW n \in Nat, NEW m \in Nat, NEW g, NEW h, RoundsTo(g, n), RoundsTo(h, m), n <= m
    PROVE  \A i \in 0..n : g[i] = h[i]
<1> DEFINE S == {i \in 0..n : g[i] # h[i]}
<1>1. SUFFICES ASSUME S # {} PROVE FALSE
  OBVIOUS
<1>2. S \in SUBSET Nat
  OBVIOUS
<1>3. PICK k \in S : \A j \in S : k <= j
  BY <1>1, <1>2, LeastElement
<1>4. k \in 0..n /\ k \in 0..m
  BY <1>3
<1>5. k # 0
  BY <1>3, <1>4 DEF RoundsTo
<1>6. PICK j \in 0..n : j = k - 1
  BY <1>4, <1>5
<1>7. g[j] = h[j]
  BY <1>3, <1>6
<1>8. g[k] = Onward(g[j]) /\ h[k] = Onward(h[j])
  BY <1>4, <1>5, <1>6 DEF RoundsTo
<1>9. QED
  BY <1>3, <1>7, <1>8

LEMMA RoundsFunction == \E F : F = [n \in Nat |-> IF n = 0 THEN {0} ELSE Onward(F[n - 1])]
<1> DEFINE G(k) == CHOOSE g : RoundsTo(g, k)
           F == [k \in Nat |-> G(k)[k]]
<1>1. \A k \in Nat : RoundsTo(G(k), k)
  BY RoundsExist
<1> HIDE DEF G
<1>2. ASSUME NEW k \in Nat PROVE F[k] = IF k = 0 THEN {0} ELSE Onward(F[k - 1])
  <2>1. G(k)[k] = IF k = 0 THEN {0} ELSE Onward(G(k)[k - 1])
    BY <1>1 DEF RoundsTo
  <2>2. CASE k # 0
    <3>1. PICK j \in Nat : j = k - 1 /\ j \in 0..j /\ j <= k
      BY <2>2
    <3>2. G(j)[j] = G(k)[j]
      BY <1>1, <3>1, RoundsUnique
    <3>3. QED
      BY <2>1, <2>2, <3>1, <3>2
  <2>3. QED
    BY <2>1, <2>2
<1>3. F = [n \in Nat |-> IF n = 0 THEN {0} ELSE Onward(F[n - 1])]
  BY <1>2
<1> HIDE DEF F
<1>4. QED
  BY <1>3

LEMMA ReachedRounds ==
    \E F : /\ \A n \in Nat : F[n] = IF n = 0 THEN {0} ELSE Onward(F[n - 1])
           /\ Reached = F[PAGE_SIZE \div Hdr]
<1> DEFINE steps[n \in Nat] ==
              IF n = 0 THEN {0}
              ELSE LET before == steps[n - 1]
                   IN  before \union {mem[a].next : a \in before \ {NULL, Junk}}
<1>1. steps = [n \in Nat |-> IF n = 0 THEN {0} ELSE Onward(steps[n - 1])]
  BY RoundsFunction DEF Onward
<1>2. Reached = steps[PAGE_SIZE \div Hdr]
  BY DEF Reached
<1> HIDE DEF steps
<1>3. QED
  BY <1>1, <1>2

(* The walk keeps to a trail.                                                  *)
LEMMA ReachedTrail ==
    ASSUME NEW C, Trail(C, mem)
    PROVE  Reached \subseteq C \union {NULL}
<1>1. PICK F : /\ \A n \in Nat : F[n] = IF n = 0 THEN {0} ELSE Onward(F[n - 1])
               /\ Reached = F[PAGE_SIZE \div Hdr]
  BY ReachedRounds
<1>2. PAGE_SIZE \div Hdr \in Nat
  BY HeapAssumption
<1> DEFINE S == {n \in Nat : ~(F[n] \subseteq C \union {NULL})}
<1>3. SUFFICES ASSUME S # {} PROVE FALSE
  BY <1>1, <1>2
<1>4. PICK k \in S : \A j \in S : k <= j
  BY <1>3, LeastElement
<1>5. k # 0
  BY <1>1, <1>4 DEF Trail
<1>6. PICK j \in Nat : j = k - 1
  BY <1>4, <1>5
<1>7. F[j] \subseteq C \union {NULL} /\ F[k] = Onward(F[j])
  BY <1>1, <1>4, <1>5, <1>6
<1>8. Onward(F[j]) \subseteq C \union {NULL}
  BY <1>7 DEF Onward, Trail
<1>9. QED
  BY <1>4, <1>7, <1>8

(* Whenever the signal comes, between any two stores of kmalloc or kfree,      *)
(* dump_entries walks complete headers in the order of their addresses and     *)
(* counts no byte twice, for every page, header size and client.               *)
THEOREM DumpAlwaysSafe == StoreSpec => []DumpIsSafe
<1>1. ASSUME Settling PROVE DumpIsSafe
  <2>1. PICK k, t : Leads(stores, mem, k, t) /\ stores \in Seq(Cells)
    BY <1>1 DEF Settling, Turns
  <2>2. 0 \in 0..Len(stores)
    BY <2>1
  <2>3. PICK C : Trail(C, mem)
    BY <2>1, <2>2 DEF Leads, Walkable
  <2>4. Reached \subseteq C \union {NULL}
    BY <2>3, ReachedTrail
  <2>5. QED
    BY <2>3, <2>4 DEF DumpIsSafe, Trail
<1>2. QED
  BY <1>1, AlwaysSettling, PTL
=============================================================================
