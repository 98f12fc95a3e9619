------------------------------- MODULE Allocator -------------------------------
(* What a heap promises its client: every block it hands out is memory of the  *)
(* heap, as long as was asked for, and shares no byte with another block the   *)
(* client still holds.                                                         *)
EXTENDS Integers

CONSTANTS
    Size,      \* bytes of the heap
    Honoured   \* requests the length of whose block is promised

VARIABLES
    live,   \* blocks the client holds
    want    \* the request under way, 0 when there is none

vars == <<live, want>>

Blocks == [at : 0..Size, len : 0..Size]

Apart(b, c) == b.at + b.len <= c.at \/ c.at + c.len <= b.at

Init == live = {} /\ want = 0

Ask == want = 0 /\ want' \in Nat \ {0} /\ UNCHANGED live

Grant ==
    /\ want # 0
    /\ want' = 0
    /\ \E b \in Blocks :
          /\ b.at + b.len <= Size
          /\ want \in Honoured => b.len >= want
          /\ \A c \in live : Apart(b, c)
          /\ live' = live \union {b}

Refuse == want # 0 /\ want' = 0 /\ UNCHANGED live

Release == /\ want = 0
           /\ \E b \in live : live' = live \ {b}
           /\ UNCHANGED want

Next == Ask \/ Grant \/ Refuse \/ Release

Spec == Init /\ [][Next]_vars
=============================================================================
