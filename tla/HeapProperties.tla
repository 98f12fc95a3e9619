---------------------------- MODULE HeapProperties ----------------------------
(* What must hold of Heap.                                                     *)
EXTENDS Heap

(* Headers are where pointers may point and sizes never leave the page.        *)
TypeOK ==
    /\ DOMAIN heap \subseteq Addrs
    /\ heap \in [DOMAIN heap -> Headers]
    /\ call \in Calls

-----------------------------------------------------------------------------

Extent(h) ==
    /\ 0 \in DOMAIN h
    /\ \A a \in DOMAIN h : End(h, a) <= PAGE_SIZE
    /\ \A a, b \in DOMAIN h : a < b => End(h, a) <= b
Forward(h) ==
    \A a \in DOMAIN h :
        IF End(h, a) = PAGE_SIZE
        THEN h[a].next = NULL
        ELSE h[a].next = End(h, a) /\ End(h, a) \in DOMAIN h
Backward(h) ==
    \A a \in DOMAIN h :
        /\ h[a].prev = NULL <=> a = 0
        /\ h[a].prev # NULL => h[a].prev \in DOMAIN h /\ h[h[a].prev].next = a
        /\ h[a].next # NULL => h[h[a].next].prev = a

(* The chunks cover the page without gap or overlap, and the list runs through *)
(* them in the order of their addresses, the same way forwards and backwards:  *)
(* what break_chunk and kfree keep by relinking up to three headers.           *)
Tiled == Extent(heap) /\ Forward(heap) /\ Backward(heap)

(* Two neighbours are never both free: kfree merges on both sides, so that a   *)
(* free run of memory is always one chunk.                                     *)
Coalesced ==
    \A a \in DOMAIN heap :
        (IsFree(heap, a) /\ heap[a].next # NULL) => ~IsFree(heap, heap[a].next)

(* Once the client has freed everything the page is one free chunk again,      *)
(* whatever the order of the calls.                                            *)
NothingLeaks == (\A a \in DOMAIN heap : IsFree(heap, a)) => heap = Whole

(* The "fix me" of kmalloc, which ends the program when break_chunk finds the  *)
(* chunk too small after find_best_fit has chosen it, is not reached.          *)
SplitSucceeds == call.op # "exit"

\* The chunks find_best_fit has passed.
Visited(a) == call.at = NULL \/ a < call.at

(* What a search knows of the chunks it has passed, and what it returns.       *)
SearchKnows ==
    /\ call.op = "search" =>
          /\ ~call.fit
          /\ call.at # NULL => call.at \in DOMAIN heap
          /\ call.best # NULL =>
                call.best \in DOMAIN heap /\ Visited(call.best) /\ Divisible(call.best)
          /\ \A a \in DOMAIN heap : Visited(a) =>
                /\ ~Fits(a)
                /\ Divisible(a) =>
                      call.best # NULL /\ heap[call.best].size <= heap[a].size
    /\ call.op = "place" =>
          /\ call.at # NULL => call.at \in DOMAIN heap
          /\ (call.at # NULL /\ call.fit) => Fits(call.at)
          /\ (call.at # NULL /\ ~call.fit) => Divisible(call.at)
          /\ ~call.fit => \A a \in DOMAIN heap :
                /\ ~Fits(a)
                /\ Divisible(a) =>
                      call.at # NULL /\ heap[call.at].size <= heap[a].size

(* What makes all of the above inductive.                                      *)
HeapInvariant ==
    /\ TypeOK /\ Tiled /\ Coalesced /\ SplitSucceeds /\ SearchKnows

(* kmalloc carves its block from the best chunk: one of the size asked for     *)
(* when there is one, else the smallest that leaves room for a header and a    *)
(* byte; it gives up only when there is neither.                               *)
BestFit ==
    [][(call.op = "place" /\ Idle') =>
          IF \E a \in DOMAIN heap : Fits(a)
          THEN \E a \in DOMAIN heap : Fits(a) /\ heap' = [heap EXCEPT ![a].status = "ALLOCATED"]
          ELSE IF \E a \in DOMAIN heap : Divisible(a)
          THEN \E a \in DOMAIN heap :
                  /\ Divisible(a) /\ heap'[a].size = heap[a].size - (call.size + Hdr)
                  /\ \A b \in DOMAIN heap : Divisible(b) => heap[a].size <= heap[b].size
          ELSE call'.ret = NULL /\ heap' = heap]_vars

(* Every kmalloc comes back.                                                   *)
KmallocReturns == (~Idle) ~> Idle

(* The heap keeps the promise of Allocator.  A request above the top bit of an *)
(* unsigned int is rounded up to nothing, so that no length is promised to it. *)
Promise == INSTANCE Allocator WITH
    Size <- PAGE_SIZE,
    Honoured <- {n \in Nat : Above(n) # {}},
    live <- {[at |-> a + Hdr, len |-> heap[a].size] :
                a \in {x \in DOMAIN heap : heap[x].status = "ALLOCATED"}},
    want <- call.want
ImplementsAllocator == Promise!Spec
=============================================================================
