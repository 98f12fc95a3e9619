---------------------------------- MODULE Heap ----------------------------------
(* The kernel heap prototype, src/test.c: one page carved into chunks, each a  *)
(* header (struct mm_entry) and the bytes it describes, on a doubly linked     *)
(* list.  An address is an offset from heap_start, which is also `head'.       *)
(*                                                                             *)
(* `heap' holds the headers on the list.  A header that kfree merges into its  *)
(* neighbour stays in memory in the code, but nothing reads it again, and here *)
(* it leaves `heap'.                                                           *)
EXTENDS Integers

CONSTANTS
    PAGE_SIZE, Hdr, MIN_ALLOC,   \* Hdr is sizeof(struct mm_entry)
    Width,                       \* bits of an unsigned int, 32 in the code
    NULL,
    Requests                     \* arguments of kmalloc

ASSUME HeapAssumption ==
    /\ PAGE_SIZE \in Nat /\ Hdr \in Nat \ {0} /\ Hdr < PAGE_SIZE
    /\ MIN_ALLOC \in Nat \ {0} /\ Width \in Nat
    /\ NULL \notin Int
    /\ Requests \subseteq 0..(2^Width - 1)

VARIABLES
    heap,   \* headers by address
    call    \* the call under way, and the answer of the last one

vars == <<heap, call>>

-----------------------------------------------------------------------------

Addrs    == 0..PAGE_SIZE
Statuses == {"ALLOCATED", "FREE"}
Headers  == [status : Statuses, size : Addrs, next : Addrs \union {NULL}, prev : Addrs \union {NULL}]

\* First byte after chunk a.
End(h, a) == a + Hdr + h[a].size

IsFree(h, a) == h[a].status = "FREE"

\* What an unsigned int holds of the powers of two.
PowersOfTwo == {p \in 1..(2^Width - 1) : \E k \in 0..(Width - 1) : p = 2^k}
Above(n)    == {p \in PowersOfTwo : p >= n}

\* The size kmalloc looks for: a power of two stays, and highest_bit(n) << 1 is
\* the next one, or 0 when the shift loses the top bit.
RoundUp(n) ==
    IF n < MIN_ALLOC THEN MIN_ALLOC
    ELSE IF Above(n) = {} THEN 0
    ELSE CHOOSE p \in Above(n) : \A q \in Above(n) : p <= q

-----------------------------------------------------------------------------
(* The list.                                                                   *)

\* A mutant: the chunk after the eaten one keeps its old back link.
EatNext_NoBackLink(h, a) ==
    LET n == h[a].next
    IN  [x \in (DOMAIN h) \ {n} |->
            IF x = a THEN [h[a] EXCEPT !.next = h[n].next, !.size = @ + h[n].size + Hdr]
                     ELSE h[x]]

\* Chunk a eats the one after it.
EatNext(h, a) ==
    LET n == h[a].next
    IN  [x \in (DOMAIN h) \ {n} |->
            IF x = a
            THEN [status |-> h[a].status, size |-> h[a].size + h[n].size + Hdr,
                  next |-> h[n].next, prev |-> h[a].prev]
            ELSE IF x = h[n].next THEN [h[x] EXCEPT !.prev = a] ELSE h[x]]

\* A mutant: the room of the new header is not taken from the old chunk.
break_chunk_NoHeader(h, a, size) ==
    LET rest == h[a].size - size
        new  == a + Hdr + rest
    IN  [x \in DOMAIN h \union {new} |->
            IF x = new THEN [status |-> "ALLOCATED", size |-> size, next |-> h[a].next, prev |-> a]
            ELSE IF x = a THEN [h[a] EXCEPT !.size = rest, !.next = new]
            ELSE IF x = h[a].next THEN [h[x] EXCEPT !.prev = new] ELSE h[x]]

\* break_chunk splits `size' bytes and a header off the end of chunk a, which
\* kmalloc then allocates.
CanBreak(h, a, size) == IsFree(h, a) /\ h[a].size > size + Hdr
Rest(h, a, size)     == h[a].size - (size + Hdr)
NewChunk(h, a, size) == a + Hdr + Rest(h, a, size)
break_chunk(h, a, size) ==
    LET new == NewChunk(h, a, size)
    IN  [x \in DOMAIN h \union {new} |->
            IF x = new THEN [status |-> "ALLOCATED", size |-> size, next |-> h[a].next, prev |-> a]
            ELSE IF x = a THEN [status |-> h[a].status, size |-> Rest(h, a, size), next |-> new,
                                prev |-> h[a].prev]
            ELSE IF x = h[a].next THEN [h[x] EXCEPT !.prev = new] ELSE h[x]]

-----------------------------------------------------------------------------
(* The operations.                                                             *)

\* heap_init: the page is one free chunk.
Whole == [x \in {0} |-> [status |-> "FREE", size |-> PAGE_SIZE - Hdr, next |-> NULL, prev |-> NULL]]

\* In a search, `size' is wanted, `at' is sch_node and `best' is next_best; when
\* it is over, `at' is the chunk found and `fit' whether it fits exactly.
Calls ==
    [op : {"none", "search", "place", "exit"}, want : Requests \union {0}, size : Nat,
     at : Addrs \union {NULL}, best : Addrs \union {NULL}, fit : BOOLEAN,
     ret : Addrs \union {NULL}]
Done(ret) ==
    [op |-> "none", want |-> 0, size |-> 0, at |-> NULL, best |-> NULL, fit |-> FALSE, ret |-> ret]

Init == heap = Whole /\ call = Done(NULL)

Idle == call.op = "none"

kmalloc(n) ==
    /\ Idle
    /\ call' = IF n > 0
               THEN [op |-> "search", want |-> n, size |-> RoundUp(n), at |-> 0, best |-> NULL,
                     fit |-> FALSE, ret |-> NULL]
               ELSE Done(NULL)
    /\ UNCHANGED heap

Fits(a) == IsFree(heap, a) /\ heap[a].size = call.size

\* A mutant: a chunk that leaves no byte after the split is taken for divisible.
Divisible_Exact(a) == IsFree(heap, a) /\ heap[a].size >= call.size + Hdr

Divisible(a) == IsFree(heap, a) /\ heap[a].size > call.size + Hdr

\* A mutant: the first chunk large enough is kept.
Better_FirstFit(a) == Divisible(a) /\ call.best = NULL

Better(a) ==
    /\ Divisible(a)
    /\ call.best = NULL \/ heap[a].size < heap[call.best].size

\* A mutant: sch_node only advances past a free chunk, as its indentation suggests.
find_best_fit_Stuck ==
    /\ call.op = "search"
    /\ \/ /\ call.at # NULL /\ Fits(call.at)
          /\ call' = [call EXCEPT !.op = "place", !.fit = TRUE]
       \/ /\ call.at # NULL /\ ~Fits(call.at)
          /\ call' = [call EXCEPT !.at = IF IsFree(heap, call.at) THEN heap[call.at].next ELSE @,
                                  !.best = IF Better(call.at) THEN call.at ELSE @]
       \/ /\ call.at = NULL
          /\ call' = [call EXCEPT !.op = "place", !.at = call.best]
    /\ UNCHANGED heap

\* One round of the loop of find_best_fit, and its end.
find_best_fit ==
    /\ call.op = "search"
    /\ \/ /\ call.at # NULL /\ Fits(call.at)
          /\ call' = [call EXCEPT !.op = "place", !.fit = TRUE]
       \/ /\ call.at # NULL /\ ~Fits(call.at)
          /\ call' = [call EXCEPT !.at = heap[call.at].next,
                                  !.best = IF Better(call.at) THEN call.at ELSE @]
       \/ /\ call.at = NULL
          /\ call' = [call EXCEPT !.op = "place", !.at = call.best]
    /\ UNCHANGED heap

\* The rest of kmalloc: the chunk found is allocated, whole or in part.
Place ==
    /\ call.op = "place"
    /\ \/ /\ call.at = NULL
          /\ call' = Done(NULL) /\ UNCHANGED heap
       \/ /\ call.at # NULL /\ call.fit
          /\ heap' = [heap EXCEPT ![call.at].status = "ALLOCATED"]
          /\ call' = Done(call.at + Hdr)
       \/ /\ call.at # NULL /\ ~call.fit
          /\ IF CanBreak(heap, call.at, call.size)
             THEN /\ heap' = break_chunk(heap, call.at, call.size)
                  /\ call' = Done(NewChunk(heap, call.at, call.size) + Hdr)
             ELSE /\ call' = [call EXCEPT !.op = "exit"]
                  /\ UNCHANGED heap

\* kfree looks right, then left.
Freed(h, a)     == [h EXCEPT ![a].status = "FREE"]
LookRight(h, a) == IF h[a].next # NULL /\ IsFree(h, h[a].next) THEN EatNext(h, a) ELSE h
LookLeft(h, a)  == IF h[a].prev # NULL /\ IsFree(h, h[a].prev) THEN EatNext(h, h[a].prev) ELSE h

\* A mutant: the neighbour on the left is not looked at.
Merged_RightOnly(h, a) == LookRight(Freed(h, a), a)

Merged(h, a) == LookLeft(LookRight(Freed(h, a), a), a)

\* The client frees what it was given; freeing it again while the chunk is
\* still on the list is ignored, and so is NULL.
kfree(p) ==
    /\ Idle
    /\ p # NULL => p - Hdr \in DOMAIN heap
    /\ heap' = IF p # NULL /\ heap[p - Hdr].status = "ALLOCATED"
               THEN Merged(heap, p - Hdr) ELSE heap
    /\ UNCHANGED call

Next ==
    \/ \E n \in Requests : kmalloc(n)
    \/ \E p \in {a + Hdr : a \in DOMAIN heap} \union {NULL} : kfree(p)
    \/ find_best_fit \/ Place

Spec     == Init /\ [][Next]_vars
FairSpec == Spec /\ WF_vars(find_best_fit) /\ WF_vars(Place)
=============================================================================
