------------------------------- MODULE HeapStores -------------------------------
(* The stores of the heap, one at a time.  main installs a handler for SIGTSTP *)
(* that walks the list (dump_entries), and the signal arrives whenever it      *)
(* likes: between any two stores of kmalloc and kfree.  The handler runs to    *)
(* its end before the program goes on, so that what it meets is a state.       *)
(*                                                                             *)
(* Heap decides what a call does; here its result reaches memory in the order  *)
(* of the statements of the code.  A compiler may reorder plain stores; this   *)
(* is the program as it is written.                                            *)
EXTENDS HeapProperties, Sequences

CONSTANT Junk   \* what memory holds that nobody has written

ASSUME JunkAssumption == Junk \notin Addrs /\ Junk \notin Statuses /\ Junk # NULL

VARIABLES
    mem,    \* the headers in memory
    stores  \* what the call under way, or the last one, has still to store

storeVars == <<vars, mem, stores>>

-----------------------------------------------------------------------------

Set(a, field, value) == <<[at |-> a, field |-> field, value |-> value]>>

\* if (x != NULL) x->prev = ...
SetPrev(x, prev) == IF x = NULL THEN <<>> ELSE Set(x, "prev", prev)

\* A mutant: the size grows before the chunk that is eaten is off the list.
EatStores_SizeFirst(h, a) ==
    LET n == h[a].next
    IN  Set(a, "size", h[a].size + h[n].size + Hdr) \o Set(a, "next", h[n].next)
            \o SetPrev(h[n].next, a)

\* EatNext.
EatStores(h, a) ==
    LET n == h[a].next
    IN  Set(a, "next", h[n].next) \o SetPrev(h[n].next, a)
            \o Set(a, "size", h[a].size + h[n].size + Hdr)

RightStores(h, a) == IF LookRight(h, a) = h THEN <<>> ELSE EatStores(h, a)
LeftStores(h, a)  == IF LookLeft(h, a) = h THEN <<>> ELSE EatStores(h, h[a].prev)

\* A mutant: the left neighbour gets the size the chunk had before it ate the right one.
MergedStores_Stale(h, a) ==
    LET freed == Freed(h, a)
    IN  Set(a, "status", "FREE") \o RightStores(freed, a) \o LeftStores(freed, a)

\* kfree.
MergedStores(h, a) ==
    LET freed == Freed(h, a)
    IN  Set(a, "status", "FREE") \o RightStores(freed, a) \o LeftStores(LookRight(freed, a), a)

\* break_chunk.
BreakStores(h, a, size) ==
    LET new == NewChunk(h, a, size)
    IN  Set(a, "size", Rest(h, a, size)) \o Set(new, "size", size) \o Set(new, "next", h[a].next)
            \o Set(new, "prev", a) \o SetPrev(h[a].next, new) \o Set(a, "next", new)

\* The rest of kmalloc.
PlaceStores ==
    CASE call.at = NULL -> <<>>
      [] call.at # NULL /\ call.fit -> Set(call.at, "status", "ALLOCATED")
      [] call.at # NULL /\ ~call.fit /\ CanBreak(heap, call.at, call.size) ->
            BreakStores(heap, call.at, call.size)
                \o Set(NewChunk(heap, call.at, call.size), "status", "ALLOCATED")
      [] OTHER -> <<>>

-----------------------------------------------------------------------------

JunkHeader == [status |-> Junk, size |-> Junk, next |-> Junk, prev |-> Junk]

\* The headers of h, and nothing else.
Written(h) == [a \in Addrs |-> IF a \in DOMAIN h THEN h[a] ELSE JunkHeader]

StoreInit == Init /\ mem = Written(Whole) /\ stores = <<>>

\* A call goes on when its last stores are done: the program is sequential.
Calm == stores = <<>>

Malloc(n) == Calm /\ kmalloc(n) /\ UNCHANGED <<mem, stores>>
Search    == Calm /\ find_best_fit /\ UNCHANGED <<mem, stores>>
Allocate  == Calm /\ Place /\ stores' = PlaceStores /\ UNCHANGED mem
Free(p) ==
    /\ Calm /\ kfree(p)
    /\ stores' = IF p # NULL /\ heap[p - Hdr].status = "ALLOCATED"
                 THEN MergedStores(heap, p - Hdr) ELSE <<>>
    /\ UNCHANGED mem

\* One store.  With the last one, the headers that were eaten are bytes again.
Store ==
    /\ ~Calm
    /\ LET s    == Head(stores)
           next == [mem EXCEPT ![s.at][s.field] = s.value]
       IN  mem' = IF Len(stores) = 1
                  THEN [a \in Addrs |-> IF a \in DOMAIN heap THEN next[a] ELSE JunkHeader]
                  ELSE next
    /\ stores' = Tail(stores)
    /\ UNCHANGED vars

StoreNext ==
    \/ \E n \in Requests : Malloc(n)
    \/ \E p \in {a + Hdr : a \in DOMAIN heap} \union {NULL} : Free(p)
    \/ Search \/ Allocate \/ Store

StoreSpec     == StoreInit /\ [][StoreNext]_storeVars
FairStoreSpec == StoreSpec /\ WF_storeVars(Search \/ Allocate \/ Store)

-----------------------------------------------------------------------------
(* What the handler sees.                                                      *)

\* The headers dump_entries has come to after n rounds of its loop.
Reached ==
    LET steps[n \in Nat] ==
            IF n = 0 THEN {0}
            ELSE LET before == steps[n - 1]
                 IN  before \union {mem[a].next : a \in before \ {NULL, Junk}}
    IN  steps[PAGE_SIZE \div Hdr]

(* Whenever the signal comes, dump_entries (test.c:229) ends, reads headers    *)
(* that are complete but for the status of a chunk that is being made, and     *)
(* never counts a byte twice: a chunk grows only after the one it eats is off  *)
(* the list, and shrinks before the new one is on it.                          *)
DumpIsSafe ==
    /\ Reached \subseteq Addrs \union {NULL}
    /\ \A a \in Reached \ {NULL} :
          /\ mem[a].size \in Addrs /\ mem[a].prev # Junk
          /\ a + Hdr + mem[a].size <= IF mem[a].next = NULL THEN PAGE_SIZE ELSE mem[a].next

(* When a call is over memory holds what it was to do: the statements of kfree *)
(* and break_chunk, each of which reads what those before it have stored,      *)
(* amount to EatNext and break_chunk.                                          *)
StoresAgree == Calm => mem = Written(heap)
=============================================================================
