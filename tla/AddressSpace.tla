----------------------------- MODULE AddressSpace -----------------------------
(* What the MMU promises the code that programs it, without tables, stores or  *)
(* walks.  Software has a view of every page's translation; the hardware may   *)
(* hold another one in a cache.  A change of the view leaves its author owing  *)
(* a barrier and then a flush, in that order; a switch of the tables in use    *)
(* flushes by itself.  When nothing is owed and no switch is under way, the    *)
(* cache holds nothing but the view.                                           *)
EXTENDS FiniteSets

CONSTANTS Pages, Translations, None

VARIABLES
    view,       \* translation of each page, in the order software wrote it
    cached,     \* translation the hardware holds for each page, or None
    owed,       \* what software owes before the cache can be relied on
    switching   \* a switch of the tables in use is not complete

vars == <<view, cached, owed, switching>>

Settled == owed = "nothing" /\ ~switching

Init ==
    /\ view \in [Pages -> Translations]
    /\ cached = [v \in Pages |-> None]
    /\ owed = "nothing"
    /\ switching = FALSE

\* Software changes the translation of some pages.
Change ==
    /\ ~switching
    /\ view' \in [Pages -> Translations]
    /\ owed' = "barrier"
    /\ UNCHANGED <<cached, switching>>

\* Software switches to other tables; stores it has not barriered stay owed.
Switch ==
    /\ ~switching
    /\ view' \in [Pages -> Translations]
    /\ owed' \in {owed, "barrier"}
    /\ switching' = TRUE
    /\ UNCHANGED cached

Barrier ==
    /\ owed = "barrier"
    /\ owed' = "flush"
    /\ UNCHANGED <<view, cached, switching>>

Flush ==
    /\ cached' = [v \in Pages |-> None]
    /\ owed' = IF owed = "flush" THEN "nothing" ELSE owed
    /\ switching' = FALSE
    /\ UNCHANGED view

\* The hardware caches a translation: the view's, when nothing is owed.
Cache(v) ==
    /\ cached' \in [Pages -> Translations \union {None}]
    /\ \A x \in Pages \ {v} : cached'[x] = cached[x]
    /\ Settled => cached'[v] = view[v]
    /\ UNCHANGED <<view, owed, switching>>

Evict(v) ==
    /\ cached' = [cached EXCEPT ![v] = None]
    /\ UNCHANGED <<view, owed, switching>>

Next ==
    \/ Change \/ Switch \/ Barrier \/ Flush
    \/ \E v \in Pages : Cache(v) \/ Evict(v)

Spec == Init /\ [][Next]_vars

\* Nothing but the view is in the cache once nothing is owed.
Coherent == Settled => \A v \in Pages : cached[v] \in {None, view[v]}
=============================================================================
