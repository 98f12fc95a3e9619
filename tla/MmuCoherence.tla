------------------------------ MODULE MmuCoherence ------------------------------
(* Coherence of the TLB with the tables, for every value of the constants, and *)
(* what rests on the same argument.                                            *)
EXTENDS MmuProofs, SequenceTheorems

-----------------------------------------------------------------------------
(* When the view stays what it was.                                            *)

(* The words a translation is read from are words, in every well-typed state.  *)
LEMMA ActiveWords ==
    TypeOK => \A v \in VPages :
        /\ PgdWord(v) \in Words
        /\ mem[PgdWord(v)].type = "table" => PgtbWord(mem[PgdWord(v)], v) \in Words
        /\ Load(PgdWord(v)).type = "table" => PgtbWord(Load(PgdWord(v)), v) \in Words
<1> SUFFICES ASSUME TypeOK, NEW v \in VPages
             PROVE  /\ PgdWord(v) \in Words
                    /\ mem[PgdWord(v)].type = "table" => PgtbWord(mem[PgdWord(v)], v) \in Words
                    /\ Load(PgdWord(v)).type = "table" => PgtbWord(Load(PgdWord(v)), v) \in Words
  OBVIOUS
<1>1. PgdWord(v) \in Words
  BY PgdWordInWords DEF TypeOK
<1>2. mem[PgdWord(v)] \in Descs /\ Load(PgdWord(v)) \in Descs
  BY <1>1, LoadType DEF TypeOK
<1>3. QED
  BY <1>1, <1>2, TableType, PgtbWordInWords

(* virt_to_phy depends on the registers and on the words the page selects: if  *)
(* only words of W change, and none of the page's, its translation stays.      *)
LEMMA SameView ==
    ASSUME TypeOK, UNCHANGED <<enabled, ttbr0, ttbr1>>, NEW v \in VPages, NEW W,
           \A w \in Words \ W : Load(w)' = Load(w),
           PgdWord(v) \notin W,
           Load(PgdWord(v)).type = "table" => PgtbWord(Load(PgdWord(v)), v) \notin W
    PROVE  virt_to_phy(v)' = virt_to_phy(v)
<1>1. PICK p \in Words \ W : p = PgdWord(v)
  BY ActiveWords
<1>2. PgdWord(v)' = p
  BY <1>1 DEF PgdWord, PgdOf
<1>3. Load(p)' = Load(p)
  OBVIOUS
<1>4. CASE Load(p).type = "table"
  <2>1. PICK q \in Words \ W : q = PgtbWord(Load(p), v)
    BY <1>1, <1>4, ActiveWords
  <2>2. Load(q)' = Load(q)
    OBVIOUS
  <2>3. virt_to_phy(v) = IF enabled THEN Resolve(v, Load(p), Load(q)) ELSE Direct
    BY <1>1, <1>4, <2>1 DEF virt_to_phy
  <2>4. virt_to_phy(v)' = IF enabled' THEN Resolve(v, Load(p)', Load(q)') ELSE Direct
    BY <1>2, <1>3, <1>4, <2>1 DEF virt_to_phy
  <2>5. QED
    BY <1>3, <2>2, <2>3, <2>4
<1>5. CASE Load(p).type # "table"
  <2>1. virt_to_phy(v) = IF enabled THEN Resolve(v, Load(p), Load(p)) ELSE Direct
    BY <1>1, <1>5 DEF virt_to_phy
  <2>2. virt_to_phy(v)' = IF enabled' THEN Resolve(v, Load(p)', Load(p)') ELSE Direct
    BY <1>2, <1>3, <1>5 DEF virt_to_phy
  <2>3. QED
    BY <1>3, <2>1, <2>2
<1>6. QED
  BY <1>4, <1>5

(* A step that changes no table and no register changes no translation.        *)
LEMMA SameTables ==
    ASSUME UNCHANGED <<enabled, ttbr0, ttbr1, mem, buf>>, NEW v \in VPages
    PROVE  virt_to_phy(v)' = virt_to_phy(v) /\ PgdWord(v)' = PgdWord(v)
  BY DEF virt_to_phy, PgdWord, PgdOf, Load

(* One store of the CPU: it is the newest of its word, and nothing else moves. *)
LEMMA StoreStep ==
    ASSUME TypeOK, NEW w \in Words, NEW d \in Descs, Perform(Put(w, d), NoCall), UNCHANGED mem
    PROVE  /\ buf' = [buf EXCEPT ![w] = Append(@, d)]
           /\ ret' \in Errno /\ call' \in Calls
           /\ buf' \in [Words -> Seq(Descs)]
           /\ Load(w)' = d
           /\ \A x \in Words \ {w} : buf'[x] = buf[x] /\ Load(x)' = Load(x)
           /\ Len(buf'[w]) = Len(buf[w]) + 1
           /\ \A n \in 1..Len(buf'[w]) :
                 buf'[w][n] = IF n <= Len(buf[w]) THEN buf[w][n] ELSE d
<1>1. buf' = [buf EXCEPT ![w] = Append(@, d)] /\ ret' = "ESUCC" /\ call' = NoCall
  BY DEF Perform, Put, Errno
<1>2. buf \in [Words -> Seq(Descs)] /\ buf[w] \in Seq(Descs)
  BY DEF TypeOK
<1>3. /\ Append(buf[w], d) \in Seq(Descs) /\ Len(Append(buf[w], d)) = Len(buf[w]) + 1
      /\ Len(buf[w]) \in Nat
  BY <1>2
<1>4. buf'[w] = Append(buf[w], d) /\ \A x \in Words \ {w} : buf'[x] = buf[x]
  BY <1>1, <1>2
<1>5. \A n \in 1..(Len(buf[w]) + 1) :
          Append(buf[w], d)[n] = IF n <= Len(buf[w]) THEN buf[w][n] ELSE d
  BY <1>2, <1>3
<1>6. Load(w)' = d
  <2>1. Append(buf[w], d) # <<>>
    BY <1>3
  <2>2. Append(buf[w], d)[Len(buf[w]) + 1] = d
    BY <1>2, <1>3
  <2>3. Load(w)' = buf'[w][Len(buf'[w])]
    BY <1>4, <2>1 DEF Load
  <2>4. QED
    BY <1>3, <1>4, <2>2, <2>3
<1>7. \A x \in Words \ {w} : Load(x)' = Load(x)
  BY <1>4 DEF Load
<1>8. buf' \in [Words -> Seq(Descs)]
  BY <1>1, <1>2, <1>3
<1>9. ret' \in Errno /\ call' \in Calls
  BY <1>1, CallType DEF Errno
<1>10. QED
  BY <1>1, <1>3, <1>4, <1>5, <1>6, <1>7, <1>8, <1>9

(* The latest store is the last to leave.                                      *)
LEMMA TailLast ==
    ASSUME NEW S, NEW s \in Seq(S), s # <<>>
    PROVE  IF Tail(s) = <<>> THEN Head(s) = s[Len(s)]
                             ELSE Tail(s)[Len(Tail(s))] = s[Len(s)]
<1>1. PICK t : t = Tail(s)
  OBVIOUS
<1>2. /\ t \in Seq(S) /\ Len(t) = Len(s) - 1
      /\ \A i \in 1..Len(t) : t[i] = s[i + 1]
  BY <1>1, HeadTailProperties
<1>3. Len(s) \in Nat /\ Len(t) \in Nat
  BY <1>2
<1>4. CASE t = <<>>
  <2>1. Len(t) = 0
    BY <1>4, EmptySeq
  <2>2. Len(s) = 1
    BY <1>2, <1>3, <2>1
  <2>3. QED
    BY <1>1, <1>4, <2>2
<1>5. CASE t # <<>>
  <2>1. Len(t) # 0
    BY <1>2, <1>5, EmptySeq
  <2>2. Len(t) \in 1..Len(t) /\ Len(t) + 1 = Len(s)
    BY <1>2, <1>3, <2>1
  <2>3. t[Len(t)] = s[Len(s)]
    BY <1>2, <2>2
  <2>4. QED
    BY <1>1, <1>5, <2>3
<1>6. QED
  BY <1>4, <1>5

(* A store that leaves the store buffer changes nothing the CPU sees.          *)
LEMMA LoadDrain ==
    ASSUME TypeOK, NEW w \in Words, Drain(w), NEW x \in Words
    PROVE  Load(x)' = Load(x)
<1>1. /\ buf[w] \in Seq(Descs) /\ buf[w] # <<>>
      /\ mem' = [mem EXCEPT ![w] = Head(buf[w])]
      /\ buf' = [buf EXCEPT ![w] = Tail(@)]
  BY DEF TypeOK, Drain
<1>2. CASE x # w
  BY <1>1, <1>2 DEF Load, TypeOK
<1>3. CASE x = w
  <2>1. buf'[x] = Tail(buf[w]) /\ mem'[x] = Head(buf[w])
    BY <1>1, <1>3 DEF TypeOK
  <2>2. QED
    BY <1>1, <1>3, <2>1, TailLast DEF Load
<1>4. QED
  BY <1>2, <1>3

LEMMA DrainKeepsView ==
    ASSUME TypeOK, NEW w \in Words, Drain(w), NEW v \in VPages
    PROVE  virt_to_phy(v)' = virt_to_phy(v)
<1>1. UNCHANGED <<enabled, ttbr0, ttbr1>>
  BY DEF Drain, cpuVars
<1> DEFINE W == {}
<1>2. \A x \in Words \ W : Load(x)' = Load(x)
  BY LoadDrain
<1>3. \A w1 : w1 \notin W
  OBVIOUS
<1> HIDE DEF W
<1>4. QED
  BY <1>1, <1>2, <1>3, SameView

(* An off-line entry is built in words no translation is read from.            *)
LEMMA NewEntryMisses ==
    ASSUME TypeOK, NEW r \in NewRequests, IsNew(r[1], r[2]),
           arch_mmu_create_new_entry(r[1], r[2]).err = "ESUCC",
           NEW w \in Words, w = arch_mmu_create_new_entry(r[1], r[2]).word,
           NEW v \in VPages
    PROVE  /\ PgdWord(v) # w
           /\ Load(PgdWord(v)).type = "table" => PgtbWord(Load(PgdWord(v)), v) # w
<1>1. \/ w[1] \in (KernPgds \union UserPgds) \ {ttbr0, ttbr1}
      \/ w[1] \in PgTabs /\ w[1] \notin LinkedTables
  BY NewEntryWord
<1>2. PgdWord(v)[1] \in {ttbr0, ttbr1} /\ PgdWord(v)[1] \in KernPgds \union UserPgds
  BY DEF PgdWord, PgdOf, TypeOK
<1>3. PgdWord(v) # w
  BY <1>1, <1>2, GeometryAssumption
<1>4. ASSUME Load(PgdWord(v)).type = "table"
      PROVE  PgtbWord(Load(PgdWord(v)), v) # w
  <2>1. Load(PgdWord(v)).addr \in LinkedTables
    BY <1>4 DEF LinkedTables
  <2>2. Load(PgdWord(v)).addr \in PgTabs
    BY <1>4, ActiveWords, LoadType, TableType DEF TypeOK, Table
  <2>3. PgtbWord(Load(PgdWord(v)), v)[1] = Load(PgdWord(v)).addr
    BY DEF PgtbWord
  <2>4. QED
    BY <1>1, <2>1, <2>2, <2>3, GeometryAssumption
<1>5. QED
  BY <1>3, <1>4

LEMMA NewEntryKeepsView ==
    ASSUME TypeOK, NEW r \in NewRequests, CreateNewEntry(r[1], r[2]), NEW v \in VPages
    PROVE  virt_to_phy(v)' = virt_to_phy(v)
<1> DEFINE res == arch_mmu_create_new_entry(r[1], r[2])
<1>1. UNCHANGED <<enabled, ttbr0, ttbr1, mem>> /\ IsNew(r[1], r[2]) /\ Perform(res, NoCall)
  BY DEF CreateNewEntry
<1>2. WellFormed(res)
  BY <1>1, NewEntryWord
<1>3. CASE res.err = "ESUCC"
  <2>1. PICK w \in Words : w = res.word
    BY <1>2, <1>3 DEF WellFormed
  <2>2. /\ PgdWord(v) # w
        /\ Load(PgdWord(v)).type = "table" => PgtbWord(Load(PgdWord(v)), v) # w
    BY <1>1, <1>3, <2>1, NewEntryMisses
  <2> HIDE DEF res
  <2>3. \A x \in Words \ {w} : Load(x)' = Load(x)
    <3>1. buf' = [buf EXCEPT ![w] = Append(@, res.desc)]
      BY <1>1, <1>3, <2>1 DEF Perform, Errno
    <3>2. QED
      BY <1>1, <3>1 DEF Load, TypeOK
  <2>4. QED
    BY <1>1, <2>2, <2>3, SameView
<1>4. CASE res.err # "ESUCC"
  <2>1. buf' = buf
    BY <1>1, <1>2, <1>4, CallType, PerformType
  <2>2. QED
    BY <1>1, <2>1, SameTables
<1>5. QED
  BY <1>3, <1>4

-----------------------------------------------------------------------------
(* Coherence is inductive.  Each lemma is one kind of step; TypeOK' is given   *)
(* by NextType.                                                                *)

LEMMA InitCoherence == Init => Coherence
  BY InitType DEF Init, Booting, Coherence, QuietWhenOff, ActiveTablesDrained, WalkIsCurrent,
                  NoStaleTranslation

(* A step of the CPU outside tables, registers and TLB.                        *)
LEMMA CallCoherence ==
    ASSUME Coherence, TypeOK', Settled' => Settled, owed' = owed,
           UNCHANGED <<enabled, ttbr0, ttbr1, mem, buf, tlb, walk>>
    PROVE  Coherence'
<1>1. \A v \in VPages : virt_to_phy(v)' = virt_to_phy(v)
  BY SameTables
<1>2. QuietWhenOff' /\ ActiveTablesDrained'
  BY DEF Coherence, QuietWhenOff, ActiveTablesDrained, PgdWord, PgdOf
<1>3. WalkIsCurrent'
  BY DEF Coherence, WalkIsCurrent, PgdWord, PgdOf
<1>4. NoStaleTranslation'
  <2>1. CASE Settled'
    BY <1>1, <2>1 DEF Coherence, NoStaleTranslation
  <2>2. CASE ~Settled'
    BY <2>2 DEF NoStaleTranslation
  <2>3. QED
    BY <2>1, <2>2
<1>5. QED
  BY <1>2, <1>3, <1>4 DEF Coherence

(* A store to the tables in use, which its caller owes a barrier for.          *)
LEMMA StoreCoherence ==
    ASSUME Coherence, TypeOK', NEW r, WellFormed(r), NEW next \in Calls,
           ~Switching, next.op \notin {"enable", "switch"},
           Perform(r, next), OweForStore(r),
           UNCHANGED <<enabled, ttbr0, ttbr1, mem, tlb, walk>>
    PROVE  Coherence'
<1>1. TypeOK
  BY DEF Coherence
<1>2. CASE r.err = "ESUCC"
  <2>1. owed' = "barrier"
    BY <1>2 DEF OweForStore
  <2>2. QuietWhenOff'
    BY DEF Coherence, QuietWhenOff
  <2>3. QED
    BY <2>1, <2>2 DEF Coherence, ActiveTablesDrained, WalkIsCurrent, NoStaleTranslation, Settled
<1>3. CASE r.err # "ESUCC"
  <2>1. buf' = buf /\ owed' = owed
    BY <1>1, <1>3, PerformType DEF OweForStore
  <2>2. Settled' => Settled
    BY <2>1 DEF Settled
  <2>3. QED
    BY <2>1, <2>2, CallCoherence
<1>4. QED
  BY <1>2, <1>3

LEMMA NewEntryCoherence ==
    ASSUME Coherence, TypeOK', NEW r \in NewRequests, CreateNewEntry(r[1], r[2])
    PROVE  Coherence'
<1> DEFINE res == arch_mmu_create_new_entry(r[1], r[2])
<1>1. TypeOK
  BY DEF Coherence
<1>2. /\ UNCHANGED <<enabled, ttbr0, ttbr1, mem, tlb, walk, owed>>
      /\ Idle /\ IsNew(r[1], r[2]) /\ Perform(res, NoCall)
  BY DEF CreateNewEntry, mmuVars
<1>3. WellFormed(res)
  BY <1>1, <1>2, NewEntryWord
<1>4. \A v \in VPages : virt_to_phy(v)' = virt_to_phy(v)
  BY <1>1, NewEntryKeepsView
<1>5. Settled' => Settled
  BY <1>2 DEF Settled, Switching, Idle
<1>6. QuietWhenOff' /\ WalkIsCurrent' /\ NoStaleTranslation'
  <2>1. QuietWhenOff'
    BY <1>2 DEF Coherence, QuietWhenOff
  <2>2. WalkIsCurrent'
    BY <1>2, <1>5 DEF Coherence, WalkIsCurrent, PgdWord, PgdOf
  <2>3. NoStaleTranslation'
    <3>1. CASE Settled'
      BY <1>2, <1>4, <1>5, <3>1 DEF Coherence, NoStaleTranslation
    <3>2. CASE ~Settled'
      BY <3>2 DEF NoStaleTranslation
    <3>3. QED
      BY <3>1, <3>2
  <2>4. QED
    BY <2>1, <2>2, <2>3
<1>7. ActiveTablesDrained'
  <2>1. SUFFICES ASSUME enabled, owed # "barrier", NEW v \in VPages
                 PROVE  LET l1 == mem[PgdWord(v)]
                        IN  /\ buf'[PgdWord(v)] = <<>>
                            /\ l1.type = "table" => buf'[PgtbWord(l1, v)] = <<>>
    BY <1>2 DEF ActiveTablesDrained, PgdWord, PgdOf
  <2>2. /\ buf[PgdWord(v)] = <<>>
        /\ mem[PgdWord(v)].type = "table" => buf[PgtbWord(mem[PgdWord(v)], v)] = <<>>
    BY <2>1 DEF Coherence, ActiveTablesDrained
  <2>3. Load(PgdWord(v)) = mem[PgdWord(v)]
    BY <2>2 DEF Load
  <2>4. CASE res.err # "ESUCC"
    <3>1. buf' = buf
      BY <1>1, <1>2, <1>3, <2>4, CallType, PerformType
    <3>2. QED
      BY <2>2, <3>1
  <2>5. CASE res.err = "ESUCC"
    <3>1. PICK w \in Words : w = res.word
      BY <1>3, <2>5 DEF WellFormed
    <3>2. buf' = [buf EXCEPT ![w] = Append(@, res.desc)]
      BY <1>2, <2>5, <3>1 DEF Perform, Errno
    <3>3. PgdWord(v) # w /\ (mem[PgdWord(v)].type = "table" => PgtbWord(mem[PgdWord(v)], v) # w)
      BY <1>1, <1>2, <2>3, <2>5, <3>1, NewEntryMisses
    <3>4. \A x \in Words : x # w => buf'[x] = buf[x]
      BY <1>1, <3>2 DEF TypeOK
    <3>5. QED
      BY <1>1, <2>2, <3>3, <3>4, ActiveWords
  <2>6. QED
    BY <2>4, <2>5
<1>8. QED
  BY <1>6, <1>7 DEF Coherence

(* The words in use of the next state are words as well.                       *)
LEMMA DrainedActive ==
    TypeOK /\ Drained => ActiveTablesDrained
  BY ActiveWords DEF Drained, ActiveTablesDrained

(* A write of SCTLR or of a TTBR: with the MMU on, an invalidation follows;    *)
(* with the MMU off, there is nothing to go stale.                             *)
LEMMA RegisterCoherence ==
    ASSUME Coherence, TypeOK', OweForRegister, enabled => enabled',
           enabled' => Switching',
           UNCHANGED <<mem, buf, tlb, walk>>
    PROVE  Coherence'
<1>1. QuietWhenOff'
  BY DEF Coherence, QuietWhenOff, TypeOK
<1>2. ActiveTablesDrained'
  <2>1. CASE owed' = "barrier"
    BY <2>1 DEF ActiveTablesDrained
  <2>2. CASE owed' # "barrier"
    <3>1. Drained'
      BY <2>2 DEF OweForRegister, Drained
    <3>2. QED
      BY <3>1, DrainedActive, PTL
  <2>3. QED
    BY <2>1, <2>2
<1>3. WalkIsCurrent' /\ NoStaleTranslation'
  <2>1. CASE enabled'
    BY <2>1 DEF WalkIsCurrent, NoStaleTranslation, Settled
  <2>2. CASE ~enabled'
    <3>1. walk' = None /\ \A v \in VPages : tlb'[v] = None
      BY <1>1, <2>2 DEF QuietWhenOff
    <3>2. QED
      BY <3>1 DEF WalkIsCurrent, NoStaleTranslation
  <2>3. QED
    BY <2>1, <2>2
<1>4. QED
  BY <1>1, <1>2, <1>3 DEF Coherence

(* A dsb only succeeds once the store buffer is empty.                         *)
LEMMA DsbCoherence ==
    ASSUME Coherence, TypeOK', Dsb
    PROVE  Coherence'
<1>1. /\ UNCHANGED <<enabled, ttbr0, ttbr1, mem, buf, tlb, walk>> /\ Drained
      /\ owed' = IF owed = "barrier" THEN "flush" ELSE owed
  BY DEF Dsb, mmuVars
<1>2. ActiveTablesDrained'
  <2>1. Drained'
    BY <1>1 DEF Drained
  <2>2. QED
    BY <2>1, DrainedActive, PTL
<1>3. Settled' => Settled
  BY <1>1 DEF Dsb, Settled, Switching, Idle
<1>4. QuietWhenOff'
  BY <1>1 DEF Coherence, QuietWhenOff
<1>5. WalkIsCurrent'
  BY <1>1, <1>3 DEF Coherence, WalkIsCurrent, PgdWord, PgdOf
<1>6. NoStaleTranslation'
  <2>1. CASE Settled'
    <3>1. \A v \in VPages : virt_to_phy(v)' = virt_to_phy(v)
      BY <1>1, SameTables
    <3>2. QED
      BY <1>1, <1>3, <2>1, <3>1 DEF Coherence, NoStaleTranslation
  <2>2. CASE ~Settled'
    BY <2>2 DEF NoStaleTranslation
  <2>3. QED
    BY <2>1, <2>2
<1>7. QED
  BY <1>2, <1>4, <1>5, <1>6 DEF Coherence

LEMMA FlushCoherence ==
    ASSUME Coherence, TypeOK', InvalidateTlb
    PROVE  Coherence'
<1>1. /\ UNCHANGED <<enabled, ttbr0, ttbr1, mem, buf>>
      /\ walk' = None /\ \A v \in VPages : tlb'[v] = None
      /\ owed' = "barrier" <=> owed = "barrier"
  BY DEF InvalidateTlb
<1>2. ActiveTablesDrained'
  BY <1>1 DEF Coherence, ActiveTablesDrained, PgdWord, PgdOf
<1>3. QED
  BY <1>1, <1>2 DEF Coherence, QuietWhenOff, WalkIsCurrent, NoStaleTranslation

(* The words in use have nothing pending once no barrier is owed, so that      *)
(* nothing drains into them.                                                   *)
LEMMA DrainCoherence ==
    ASSUME Coherence, TypeOK', NEW w \in Words, Drain(w)
    PROVE  Coherence'
<1>1. /\ UNCHANGED <<enabled, ttbr0, ttbr1, tlb, walk, call, owed>>
      /\ buf[w] # <<>>
      /\ \A x \in Words : x # w => mem'[x] = mem[x] /\ buf'[x] = buf[x]
  BY DEF Drain, cpuVars, mmuVars, Coherence, TypeOK
<1>2. TypeOK
  BY DEF Coherence
<1>3. \A v \in VPages : PgdWord(v)' = PgdWord(v)
  BY <1>1 DEF PgdWord, PgdOf
<1>4. ASSUME enabled, owed # "barrier", NEW v \in VPages
      PROVE  /\ mem'[PgdWord(v)] = mem[PgdWord(v)] /\ buf'[PgdWord(v)] = <<>>
             /\ mem[PgdWord(v)].type = "table" => buf'[PgtbWord(mem[PgdWord(v)], v)] = <<>>
  <2>1. /\ buf[PgdWord(v)] = <<>>
        /\ mem[PgdWord(v)].type = "table" => buf[PgtbWord(mem[PgdWord(v)], v)] = <<>>
    BY <1>4 DEF Coherence, ActiveTablesDrained
  <2>2. QED
    BY <1>1, <1>2, <2>1, ActiveWords
<1>5. ActiveTablesDrained'
  BY <1>1, <1>3, <1>4 DEF ActiveTablesDrained
<1>6. QuietWhenOff'
  BY <1>1 DEF Coherence, QuietWhenOff
<1>7. WalkIsCurrent'
  <2>1. SUFFICES ASSUME Settled, walk # None
                 PROVE  walk.l1 = mem'[PgdWord(walk.va)]
    BY <1>1 DEF WalkIsCurrent, Settled, Switching, PgdWord, PgdOf
  <2>2. enabled /\ walk.va \in VPages
    BY <1>2, <2>1 DEF Coherence, QuietWhenOff, TypeOK, Walks
  <2>3. QED
    BY <1>4, <2>1, <2>2 DEF Coherence, WalkIsCurrent, Settled
<1>8. NoStaleTranslation'
  <2>1. \A v \in VPages : virt_to_phy(v)' = virt_to_phy(v)
    BY <1>2, DrainKeepsView
  <2>2. Settled' <=> Settled
    BY <1>1 DEF Settled, Switching
  <2>3. QED
    BY <1>1, <2>1, <2>2 DEF Coherence, NoStaleTranslation
<1>9. QED
  BY <1>5, <1>6, <1>7, <1>8 DEF Coherence

(* What the walker caches when nothing is owed is what the CPU would find.     *)
LEMMA WalkPgdFills ==
    ASSUME Coherence, NEW v \in VPages, WalkPgd(v), Settled
    PROVE  tlb'[v] \in {None, virt_to_phy(v)}
<1> DEFINE l1 == mem[PgdWord(v)]
<1>1. enabled /\ tlb[v] = None /\ tlb \in [VPages -> Translations \union {None}]
  BY DEF WalkPgd, Coherence, TypeOK
<1>2. buf[PgdWord(v)] = <<>>
  BY <1>1 DEF Coherence, ActiveTablesDrained, Settled
<1>3. Load(PgdWord(v)) = l1
  BY <1>2 DEF Load
<1>4. CASE l1.type = "section" /\ Fill(v, Resolve(v, l1, l1))
  <2>1. tlb'[v] = Resolve(v, l1, l1)
    BY <1>1, <1>4 DEF Fill
  <2>2. QED
    BY <1>1, <1>3, <1>4, <2>1 DEF virt_to_phy
<1>5. CASE UNCHANGED tlb
  BY <1>1, <1>5
<1>6. QED
  BY <1>4, <1>5 DEF WalkPgd

LEMMA WalkPgtbFills ==
    ASSUME Coherence, WalkPgtb, Settled
    PROVE  tlb'[walk.va] \in {tlb[walk.va], virt_to_phy(walk.va)}
<1> DEFINE v == walk.va
           l1 == walk.l1
           l2 == mem[PgtbWord(l1, v)]
<1>1. walk # None /\ walk \in Walks /\ tlb \in [VPages -> Translations \union {None}]
  BY DEF WalkPgtb, Coherence, TypeOK
<1>2. v \in VPages /\ l1.type = "table"
  BY <1>1 DEF Walks, Table
<1>3. enabled /\ owed # "barrier" /\ l1 = mem[PgdWord(v)]
  BY <1>1 DEF Coherence, QuietWhenOff, WalkIsCurrent, Settled
<1>4. buf[PgdWord(v)] = <<>> /\ buf[PgtbWord(l1, v)] = <<>>
  BY <1>2, <1>3 DEF Coherence, ActiveTablesDrained
<1>5. Load(PgdWord(v)) = l1 /\ Load(PgtbWord(l1, v)) = l2
  BY <1>3, <1>4 DEF Load
<1>6. virt_to_phy(v) = Resolve(v, l1, l2)
  BY <1>2, <1>3, <1>5 DEF virt_to_phy
<1>7. tlb'[v] \in {tlb[v], Resolve(v, l1, l2)}
  BY <1>1, <1>2 DEF WalkPgtb, Fill
<1>8. QED
  BY <1>6, <1>7

(* A walk changes the TLB at its own page only.                                *)
LEMMA WalksOnePage ==
    ASSUME TypeOK
    PROVE  /\ \A v \in VPages : WalkPgd(v) => \A x \in VPages \ {v} : tlb'[x] = tlb[x]
           /\ WalkPgtb => /\ walk.va \in VPages
                          /\ \A x \in VPages \ {walk.va} : tlb'[x] = tlb[x]
<1>1. tlb \in [VPages -> Translations \union {None}] /\ walk \in Walks \union {None}
  BY DEF TypeOK
<1>2. QED
  BY <1>1 DEF WalkPgd, WalkPgtb, Fill, Walks

LEMMA WalkPgdCoherence ==
    ASSUME Coherence, TypeOK', NEW v \in VPages, WalkPgd(v)
    PROVE  Coherence'
<1>1. enabled /\ UNCHANGED <<enabled, ttbr0, ttbr1, mem, buf, call, owed>>
  BY DEF WalkPgd, cpuVars
<1>2. ActiveTablesDrained'
  BY <1>1 DEF Coherence, ActiveTablesDrained, PgdWord, PgdOf
<1>3. QuietWhenOff'
  BY <1>1 DEF QuietWhenOff
<1>4. WalkIsCurrent'
  <2>1. walk = None
    BY DEF WalkPgd
  <2>2. walk' # None => walk' = [va |-> v, l1 |-> mem[PgdWord(v)]]
    BY <2>1 DEF WalkPgd
  <2>3. QED
    BY <1>1, <2>2 DEF WalkIsCurrent, PgdWord, PgdOf
<1>5. NoStaleTranslation'
  <2>1. CASE Settled
    <3>1. \A x \in VPages : virt_to_phy(x)' = virt_to_phy(x)
      BY <1>1, SameTables
    <3>2. \A x \in VPages : tlb'[x] \in {None, virt_to_phy(x)}
      BY <2>1, WalkPgdFills, WalksOnePage DEF Coherence, NoStaleTranslation
    <3>3. QED
      BY <3>1, <3>2 DEF NoStaleTranslation
  <2>2. CASE ~Settled
    BY <1>1, <2>2 DEF NoStaleTranslation, Settled, Switching
  <2>3. QED
    BY <2>1, <2>2
<1>6. QED
  BY <1>2, <1>3, <1>4, <1>5 DEF Coherence

LEMMA WalkPgtbCoherence ==
    ASSUME Coherence, TypeOK', WalkPgtb
    PROVE  Coherence'
<1>1. /\ UNCHANGED <<enabled, ttbr0, ttbr1, mem, buf, call, owed>>
      /\ walk # None /\ walk' = None
  BY DEF WalkPgtb, cpuVars
<1>2. ActiveTablesDrained'
  BY <1>1 DEF Coherence, ActiveTablesDrained, PgdWord, PgdOf
<1>3. QuietWhenOff' /\ WalkIsCurrent'
  BY <1>1 DEF Coherence, QuietWhenOff, WalkIsCurrent
<1>4. NoStaleTranslation'
  <2>1. CASE Settled
    <3>1. \A x \in VPages : virt_to_phy(x)' = virt_to_phy(x)
      BY <1>1, SameTables
    <3>2. \A x \in VPages : tlb'[x] \in {None, virt_to_phy(x)}
      BY <2>1, WalkPgtbFills, WalksOnePage DEF Coherence, NoStaleTranslation
    <3>3. QED
      BY <3>1, <3>2 DEF NoStaleTranslation
  <2>2. CASE ~Settled
    BY <1>1, <2>2 DEF NoStaleTranslation, Settled, Switching
  <2>3. QED
    BY <2>1, <2>2
<1>5. QED
  BY <1>2, <1>3, <1>4 DEF Coherence

LEMMA EvictCoherence ==
    ASSUME Coherence, TypeOK', NEW v \in VPages, Evict(v)
    PROVE  Coherence'
<1>1. /\ UNCHANGED <<enabled, ttbr0, ttbr1, mem, buf, walk, call, owed>>
      /\ \A x \in VPages : tlb'[x] \in {None, tlb[x]}
  BY DEF Evict, cpuVars, Coherence, TypeOK
<1>2. ActiveTablesDrained' /\ WalkIsCurrent' /\ QuietWhenOff'
  BY <1>1 DEF Coherence, ActiveTablesDrained, WalkIsCurrent, QuietWhenOff, Settled,
              Switching, PgdWord, PgdOf
<1>3. \A x \in VPages : virt_to_phy(x)' = virt_to_phy(x)
  BY <1>1, SameTables
<1>4. NoStaleTranslation'
  BY <1>1, <1>3 DEF Coherence, NoStaleTranslation, Settled, Switching
<1>5. QED
  BY <1>2, <1>4 DEF Coherence

-----------------------------------------------------------------------------

LEMMA NextCoherence == Coherence /\ [Next]_vars => Coherence'
<1> SUFFICES ASSUME Coherence, [Next]_vars PROVE Coherence'
  OBVIOUS
<1>0. TypeOK /\ TypeOK'
  BY NextType DEF Coherence
<1> USE DEF cpuVars, mmuVars
<1>1. ASSUME NEW e \in MapRequests, CreateEntry(e) PROVE Coherence'
  <2>1. WellFormed(arch_mmu_create_entry(e))
    BY <1>0, SystemAssumption, CreateEntryWellFormed DEF Request
  <2>2. QED
    BY <1>0, <1>1, <2>1, CallType, StoreCoherence DEF CreateEntry, Idle, Switching
<1>2. ASSUME NEW d \in DirRequests, MapPgd(d) PROVE Coherence'
  BY <1>0, <1>2, MapPgdWellFormed, CallType, StoreCoherence DEF MapPgd, Idle, Switching
<1>3. ASSUME NEW r \in NewRequests, CreateNewEntry(r[1], r[2]) PROVE Coherence'
  BY <1>0, <1>3, NewEntryCoherence
<1>4. ASSUME EnableMmu PROVE Coherence'
  BY <1>0, <1>4, CallType, RegisterCoherence DEF EnableMmu, Switching
<1>5. ASSUME NEW p, SetUserPageDir(p) PROVE Coherence'
  <2>1. CASE p \in UserPgds \union KernPgds
    BY <1>0, <1>5, <2>1, CallType, RegisterCoherence DEF SetUserPageDir, Switching
  <2>2. CASE p \notin UserPgds \union KernPgds
    BY <1>0, <1>5, <2>2, CallCoherence DEF SetUserPageDir, Settled, Switching
  <2>3. QED
    BY <2>1, <2>2
<1>6. ASSUME NEW p, SetKernPgd(p) PROVE Coherence'
  <2>1. CASE p \in KernPgds
    BY <1>0, <1>6, <2>1, CallType, RegisterCoherence DEF SetKernPgd, Switching
  <2>2. CASE p \notin KernPgds
    BY <1>0, <1>6, <2>2, CallCoherence DEF SetKernPgd, Settled, Switching
  <2>3. QED
    BY <2>1, <2>2
<1>7. ASSUME NEW v \in InvalPages, InvalidatePage(v) PROVE Coherence'
  <2>1. v \in VPages
    BY SystemAssumption
  <2>2. WellFormed(arch_mmu_create_entry(Unmapping(v)))
    BY <1>0, <2>1, UnmappingIsRequest, CreateEntryWellFormed
  <2>3. QED
    BY <1>0, <1>7, <2>1, <2>2, CallType, StoreCoherence DEF InvalidatePage, Idle, Switching
<1>8. ASSUME NEW r \in Regions, InvalidateRegion(r[1], r[2]) PROVE Coherence'
  BY <1>0, <1>8, CallCoherence DEF InvalidateRegion, Settled, Switching, Idle
<1>9. ASSUME RegionLoop PROVE Coherence'
  <2>1. call.op = "region" /\ call \in Calls /\ call.cur \in VPages
    BY <1>0, <1>9 DEF RegionLoop, TypeOK, Calls
  <2>2. WellFormed(arch_mmu_create_entry(Unmapping(call.cur)))
    BY <1>0, <2>1, UnmappingIsRequest, CreateEntryWellFormed
  <2>3. /\ AfterPage(call) \in Calls /\ AfterPage(call).op = "region"
        /\ [call EXCEPT !.op = "sync"].op = "sync"
    BY <2>1, NextPageType DEF AfterPage, Calls
  <2>4. CASE call.i < call.cnt
    BY <1>0, <1>9, <2>1, <2>2, <2>3, <2>4, StoreCoherence DEF RegionLoop, Switching
  <2>5. CASE ~(call.i < call.cnt)
    <3>1. call' = [call EXCEPT !.op = "sync"]
      BY <1>9, <2>5 DEF RegionLoop
    <3>2. Settled' => Settled
      BY <1>9, <2>1, <2>5 DEF RegionLoop, Settled, Switching
    <3>3. QED
      BY <1>0, <1>9, <2>5, <3>2, CallCoherence DEF RegionLoop
  <2>6. QED
    BY <2>4, <2>5
<1>10. ASSUME Dsb PROVE Coherence'
  BY <1>0, <1>10, DsbCoherence
<1>11. ASSUME InvalidateTlb PROVE Coherence'
  BY <1>0, <1>11, FlushCoherence
<1>12. ASSUME NEW w \in Words, Drain(w) PROVE Coherence'
  BY <1>0, <1>12, DrainCoherence
<1>13. ASSUME NEW v \in VPages, WalkPgd(v) PROVE Coherence'
  BY <1>0, <1>13, WalkPgdCoherence
<1>14. ASSUME NEW v \in VPages, Evict(v) PROVE Coherence'
  BY <1>0, <1>14, EvictCoherence
<1>15. ASSUME WalkPgtb PROVE Coherence'
  BY <1>0, <1>15, WalkPgtbCoherence
<1>16. ASSUME UNCHANGED vars PROVE Coherence'
  BY <1>0, <1>16, CallCoherence DEF vars, Settled, Switching
<1>17. QED
  BY <1>1, <1>2, <1>3, <1>4, <1>5, <1>6, <1>7, <1>8, <1>9, <1>10, <1>11, <1>12, <1>13,
     <1>14, <1>15, <1>16 DEF Next, Cpu, ClientCall, Hardware

(* The inductive invariant holds: in every reachable state, with no barrier    *)
(* owed, nothing is pending to a table in use.                                 *)
THEOREM CoherenceHolds == Spec => []Coherence
  BY InitCoherence, NextCoherence, PTL DEF Spec

(* Software that pays what it owes is never served a stale translation.        *)
THEOREM NeverStale == Spec => []NoStaleTranslation
<1>1. Coherence => NoStaleTranslation
  BY DEF Coherence
<1>2. QED
  BY <1>1, CoherenceHolds, PTL

(* Building tables off-line changes no translation, whatever is built.         *)
THEOREM OfflineBuildIsInvisible == Spec => OfflineBuildInvisible
<1> DEFINE Invisible ==
        \A r \in NewRequests :
            CreateNewEntry(r[1], r[2]) => \A v \in VPages : virt_to_phy(v)' = virt_to_phy(v)
<1>1. TypeOK => Invisible
  BY NewEntryKeepsView
<1>2. QED
  BY <1>1, TypeCorrect, PTL DEF OfflineBuildInvisible

(* A mapping or an unmapping that succeeds is one store, to the word of the    *)
(* second level that the page is read through.                                 *)
LEMMA MappedWord ==
    ASSUME TypeOK, NEW e \in MapRequests, ~IsDirEntry(e), CreateEntry(e), enabled,
           ret' = "ESUCC", Idle'
    PROVE  LET w == PgtbWord(Load(PgdWord(e.va)), e.va)
               d == PgtbDesc(PgtbEntry(e))
           IN  /\ w \in Words /\ d \in Descs /\ e.va \in VPages
               /\ Load(PgdWord(e.va)).addr \in PgTabs
               /\ Perform(Put(w, d), NoCall)
               /\ UNCHANGED <<enabled, ttbr0, ttbr1, mem>>
<1>1. PICK r : r = armv7_mmu_map_pgtb(PgtbEntry(e))
  OBVIOUS
<1>2. PICK d : d = PgtbDesc(PgtbEntry(e))
  OBVIOUS
<1>3. Request(e)
  BY SystemAssumption DEF Request
<1>4. d \in Descs /\ PgtbEntry(e).va = e.va /\ e.va \in VPages
  BY <1>2, <1>3, RequestDesc
<1>5. PICK l1 : l1 = Load(PgdWord(e.va))
  OBVIOUS
<1>6. arch_mmu_create_entry(e) = r
  BY <1>1 DEF arch_mmu_create_entry
<1>7. Perform(r, NoCall) /\ UNCHANGED <<enabled, ttbr0, ttbr1, mem>>
  BY <1>6 DEF CreateEntry
<1>8. r.err = "ESUCC"
  <2>1. r.err # "abort"
    BY <1>7 DEF Idle, Perform, Errno, Calling, CallOn
  <2>2. r.err \notin Errno \ {"ESUCC"}
    BY <1>7, <2>1 DEF Perform
  <2>3. QED
    BY <1>7, <2>1, <2>2 DEF Perform
<1>9. l1.type = "table" /\ r = Put(<<l1.addr, PgtbIdx(e.va)>>, d)
  BY <1>1, <1>2, <1>4, <1>5, <1>8
     DEF armv7_mmu_map_pgtb, create_pgtb_entry, get_pgd_entry, Fail
<1>10. l1 \in Table
  BY <1>4, <1>5, <1>9, ActiveWords, LoadType, TableType DEF TypeOK
<1>11. PgtbWord(l1, e.va) = <<l1.addr, PgtbIdx(e.va)>> /\ l1.addr \in PgTabs
  BY <1>10 DEF PgtbWord, Table
<1>12. PgtbWord(l1, e.va) \in Words
  BY <1>4, <1>10, PgtbWordInWords
<1>13. QED
  BY <1>2, <1>4, <1>5, <1>7, <1>9, <1>11, <1>12

(* What the page is read through changes, and nothing else does.               *)
LEMMA MappedAsAsked ==
    ASSUME TypeOK, NEW e \in MapRequests, ~IsDirEntry(e), CreateEntry(e), enabled,
           ret' = "ESUCC", Idle', NEW v \in VPages
    PROVE  IF /\ PgtbIdx(v) = PgtbIdx(e.va)
              /\ Load(PgdWord(v)).type = "table"
              /\ Load(PgdWord(v)).addr = Load(PgdWord(e.va)).addr
           THEN virt_to_phy(v)' =
                   IF e.type = "PG_TAB"
                   THEN [base |-> e.phy, off |-> 0, dom |-> Load(PgdWord(v)).dom,
                         ap |-> arch_mmu_acc_to_armv7(e.acc)]
                   ELSE Fault
           ELSE virt_to_phy(v)' = virt_to_phy(v)
<1>1. PICK l1 : l1 = Load(PgdWord(e.va))
  OBVIOUS
<1>2. PICK w \in Words : w = PgtbWord(l1, e.va)
  BY <1>1, MappedWord
<1>3. PICK d \in Descs : d = PgtbDesc(PgtbEntry(e))
  BY MappedWord
<1>4. /\ l1.addr \in PgTabs /\ Perform(Put(w, d), NoCall)
      /\ UNCHANGED <<enabled, ttbr0, ttbr1, mem>>
  BY <1>1, <1>2, <1>3, MappedWord
<1>5. Load(w)' = d /\ \A x \in Words \ {w} : Load(x)' = Load(x)
  BY <1>4, StoreStep
<1>6. PICK p \in Words : p = PgdWord(v)
  BY ActiveWords
<1>7. PgdWord(v)' = p /\ p # w
  <2>1. PgdWord(v)' = p
    BY <1>4, <1>6 DEF PgdWord, PgdOf
  <2>2. p[1] \in KernPgds \union UserPgds /\ w[1] = l1.addr
    BY <1>2, <1>6 DEF PgdWord, PgdOf, PgtbWord, TypeOK
  <2>3. QED
    BY <1>4, <2>1, <2>2, GeometryAssumption
<1>8. CASE PgtbIdx(v) = PgtbIdx(e.va) /\ Load(p).type = "table" /\ Load(p).addr = l1.addr
  <2>1. PgtbWord(Load(p), v) = w
    BY <1>2, <1>8 DEF PgtbWord
  <2>2. Load(p)' = Load(p)
    BY <1>5, <1>7
  <2>3. virt_to_phy(v)' = Resolve(v, Load(p)', Load(w)')
    BY <1>4, <1>7, <1>8, <2>1, <2>2 DEF virt_to_phy
  <2>4. virt_to_phy(v)' = Resolve(v, Load(p), d)
    BY <1>5, <2>2, <2>3
  <2>5. CASE e.type = "PG_TAB"
    <3>1. d.type = "small" /\ d.addr = e.phy /\ d.ap = arch_mmu_acc_to_armv7(e.acc)
      BY <1>3, <2>5 DEF PgtbDesc, PgtbEntry
    <3>2. QED
      BY <1>1, <1>6, <1>8, <2>4, <2>5, <3>1 DEF Resolve
  <2>6. CASE e.type # "PG_TAB"
    <3>1. d.type = "invalid"
      BY <1>3, <2>6 DEF PgtbDesc, PgtbEntry
    <3>2. QED
      BY <1>1, <1>6, <1>8, <2>4, <2>6, <3>1 DEF Resolve
  <2>7. QED
    BY <2>5, <2>6
<1>9. CASE ~(PgtbIdx(v) = PgtbIdx(e.va) /\ Load(p).type = "table" /\ Load(p).addr = l1.addr)
  <2>1. Load(p).type = "table" => PgtbWord(Load(p), v) # w
    BY <1>2, <1>9 DEF PgtbWord
  <2>2. virt_to_phy(v)' = virt_to_phy(v)
    <3>1. PICK W : W = {w}
      OBVIOUS
    <3>2. \A x \in Words \ W : Load(x)' = Load(x)
      BY <1>5, <3>1
    <3>3. PgdWord(v) \notin W
      BY <1>6, <1>7, <3>1
    <3>4. Load(PgdWord(v)).type = "table" => PgtbWord(Load(PgdWord(v)), v) \notin W
      BY <1>6, <2>1, <3>1
    <3>5. UNCHANGED <<enabled, ttbr0, ttbr1>>
      BY <1>4
    <3>6. QED
      BY <3>2, <3>3, <3>4, <3>5, SameView
  <2>3. QED
    BY <1>1, <1>6, <1>9, <2>2
<1>10. QED
  BY <1>8, <1>9

(* A page mapped or unmapped in place is translated as asked, and only the     *)
(* pages that share its word change with it, for every state the driver can    *)
(* be in.                                                                      *)
THEOREM MappingAlwaysExact == Spec => MappingIsExact
<1> DEFINE Exact ==
        \A e \in MapRequests :
          (/\ ~IsDirEntry(e) /\ enabled /\ ret' = "ESUCC" /\ Idle'
           /\ CreateEntry(e))
          => \A v \in VPages :
                IF /\ PgtbIdx(v) = PgtbIdx(e.va)
                   /\ Load(PgdWord(v)).type = "table"
                   /\ Load(PgdWord(v)).addr = Load(PgdWord(e.va)).addr
                THEN virt_to_phy(v)' =
                        IF e.type = "PG_TAB"
                        THEN [base |-> e.phy, off |-> 0, dom |-> Load(PgdWord(v)).dom,
                              ap |-> arch_mmu_acc_to_armv7(e.acc)]
                        ELSE Fault
                ELSE virt_to_phy(v)' = virt_to_phy(v)
<1>1. TypeOK => Exact
  BY MappedAsAsked
<1>2. QED
  BY <1>1, TypeCorrect, PTL DEF MappingIsExact

(* Only mmu_set_user_page_dir changes TTBR0.                                   *)
LEMMA UserSwitch ==
    ASSUME [Next]_vars, ttbr0' # ttbr0
    PROVE  UNCHANGED <<enabled, ttbr1, mem, buf>>
BY DEF Next, Cpu, ClientCall, Hardware, CreateEntry, MapPgd, CreateNewEntry, EnableMmu,
       SetUserPageDir, SetKernPgd, InvalidatePage, InvalidateRegion, RegionLoop, Dsb,
       InvalidateTlb, Drain, WalkPgd, WalkPgtb, Evict, cpuVars, mmuVars, vars

(* A switch of the user directory keeps every translation of the kernel half.  *)
THEOREM KernelHalfKept == Spec => SwitchKeepsKernelHalf
<1> DEFINE Kept == ttbr0' # ttbr0 =>
        \A v \in VPages :
            (PgdIdx(v) >= DivSection /\ enabled) => virt_to_phy(v)' = virt_to_phy(v)
<1>1. ASSUME [Next]_vars PROVE Kept
  <2>1. SUFFICES ASSUME ttbr0' # ttbr0, NEW v \in VPages, PgdIdx(v) >= DivSection, enabled
                 PROVE  virt_to_phy(v)' = virt_to_phy(v)
    OBVIOUS
  <2>2. UNCHANGED <<enabled, ttbr1, mem, buf>>
    BY <1>1, <2>1, UserSwitch
  <2>3. is_higher_half(v)
    <3>1. PgdIdx(v) \in 0..(PgdCnt - 1)
      BY DEF VPages, PgdIdx
    <3>2. CASE PgDiv = 0
      BY <2>1, <3>1, <3>2, GeometryAssumption, Z3 DEF DivSection
    <3>3. CASE PgDiv > 0
      BY <2>1, <3>3 DEF is_higher_half
    <3>4. QED
      BY <3>2, <3>3, GeometryAssumption
  <2>4. PgdWord(v) = <<ttbr1, PgdIdx(v)>> /\ PgdWord(v)' = <<ttbr1, PgdIdx(v)>>
    BY <2>2, <2>3 DEF PgdWord, PgdOf
  <2>5. QED
    BY <2>2, <2>4 DEF virt_to_phy, Load
<1>2. QED
  BY <1>1, PTL DEF SwitchKeepsKernelHalf, Spec
=============================================================================
