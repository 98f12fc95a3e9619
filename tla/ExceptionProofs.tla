---------------------------- MODULE ExceptionProofs ----------------------------
(* Proofs about Exceptions, for every program, set of exceptions, stack and    *)
(* saved status: the address the kernel prints is right, a data abort is the   *)
(* last the program sees, and a handler gives back r0-r3.                      *)
EXTENDS ExceptionProperties, TLAPS

-----------------------------------------------------------------------------
(* Where the instructions of each handler are, and what they are given.        *)

LEMMA IrqHandler ==
    ASSUME InText, pc[1] = "armv7_irq_hand"
    PROVE  /\ pc[2] \in 1..6
           /\ Op("ldr sp") => pc[2] = 1
           /\ Op("add sp") => pc[2] = 2 /\ Arg = 2
           /\ Op("push") => pc[2] = 3
           /\ Op("bl") => pc[2] = 4 /\ Arg = "c_irq_hand"
           /\ Op("pop") => pc[2] = 5
           /\ Op("movs pc") => pc[2] = 6 /\ Arg = 1
           /\ ~Op("add lr") /\ ~Op("cps") /\ ~Op("mov r0") /\ ~Op("sub r0")
<1>1. Text[pc[1]] = armv7_irq_hand /\ pc[2] \in DOMAIN armv7_irq_hand
  BY DEF InText, Text
<1>. DOMAIN armv7_irq_hand = 1..6
  BY DEF armv7_irq_hand
<1>2. pc[2] \in 1..6
  BY <1>1
<1>3. /\ armv7_irq_hand[1][1] = "ldr sp" /\ armv7_irq_hand[2][1] = "add sp"
      /\ armv7_irq_hand[3][1] = "push" /\ armv7_irq_hand[4][1] = "bl"
      /\ armv7_irq_hand[5][1] = "pop" /\ armv7_irq_hand[6][1] = "movs pc"
  BY DEF armv7_irq_hand
<1>4. /\ armv7_irq_hand[2][2] = 2 /\ armv7_irq_hand[4][2] = "c_irq_hand"
      /\ armv7_irq_hand[6][2] = 1
  BY DEF armv7_irq_hand
<1>5. pc[2] = 1 \/ pc[2] = 2 \/ pc[2] = 3 \/ pc[2] = 4 \/ pc[2] = 5 \/ pc[2] = 6
  BY <1>2
<1>6. QED
  BY <1>1, <1>2, <1>3, <1>4, <1>5 DEF Op, Arg

LEMMA UndefHandler ==
    ASSUME InText, pc[1] = "armv7_undef_hand"
    PROVE  /\ pc[2] \in 1..10
           /\ Op("ldr sp") => pc[2] = 1
           /\ Op("add sp") => pc[2] = 2 /\ Arg = 3
           /\ Op("push") => pc[2] = 3
           /\ Op("mov r0") => pc[2] = 4
           /\ Op("sub r0") => pc[2] = 5 /\ Arg = 1
           /\ Op("bl") => pc[2] = 6 /\ Arg = "dump_undef_except"
           /\ Op("pop") => pc[2] = 7
           /\ Op("cps") => pc[2] = 8 /\ Arg = "UND"
           /\ Op("add lr") => pc[2] = 9 /\ Arg = 1
           /\ Op("movs pc") => pc[2] = 10 /\ Arg = 0
<1>1. Text[pc[1]] = armv7_undef_hand /\ pc[2] \in DOMAIN armv7_undef_hand
  BY DEF InText, Text
<1>. DOMAIN armv7_undef_hand = 1..10
  BY DEF armv7_undef_hand
<1>2. pc[2] \in 1..10
  BY <1>1
<1>3. /\ armv7_undef_hand[1][1] = "ldr sp" /\ armv7_undef_hand[2][1] = "add sp"
      /\ armv7_undef_hand[3][1] = "push" /\ armv7_undef_hand[4][1] = "mov r0"
      /\ armv7_undef_hand[5][1] = "sub r0" /\ armv7_undef_hand[6][1] = "bl"
      /\ armv7_undef_hand[7][1] = "pop" /\ armv7_undef_hand[8][1] = "cps"
      /\ armv7_undef_hand[9][1] = "add lr" /\ armv7_undef_hand[10][1] = "movs pc"
  BY DEF armv7_undef_hand
<1>4. /\ armv7_undef_hand[2][2] = 3 /\ armv7_undef_hand[5][2] = 1
      /\ armv7_undef_hand[6][2] = "dump_undef_except" /\ armv7_undef_hand[8][2] = "UND"
      /\ armv7_undef_hand[9][2] = 1 /\ armv7_undef_hand[10][2] = 0
  BY DEF armv7_undef_hand
<1>5. pc[2] = 1 \/ pc[2] = 2 \/ pc[2] = 3 \/ pc[2] = 4 \/ pc[2] = 5 \/ pc[2] = 6 \/ pc[2] = 7 \/ pc[2] = 8 \/ pc[2] = 9 \/ pc[2] = 10
  BY <1>2
<1>6. /\ \A name : Op(name) => armv7_undef_hand[pc[2]][1] = name
      /\ Arg = armv7_undef_hand[pc[2]][2]
  BY <1>1 DEF Op, Arg
<1>7. QED
  BY <1>2, <1>3, <1>4, <1>5, <1>6

LEMMA DataAbortHandler ==
    ASSUME InText, pc[1] = "armv7_dat_abt_hand"
    PROVE  /\ pc[2] \in 1..8
           /\ Op("ldr sp") => pc[2] = 1
           /\ Op("add sp") => pc[2] = 2 /\ Arg = 3
           /\ Op("push") => pc[2] = 3
           /\ Op("mov r0") => pc[2] = 4
           /\ Op("sub r0") => pc[2] = 5 /\ Arg = 2
           /\ Op("bl") => pc[2] = 6 /\ Arg = "dump_data_abt"
           /\ Op("pop") => pc[2] = 7
           /\ Op("movs pc") => pc[2] = 8 /\ Arg = 1
           /\ ~Op("add lr") /\ ~Op("cps")
<1>1. Text[pc[1]] = armv7_dat_abt_hand /\ pc[2] \in DOMAIN armv7_dat_abt_hand
  BY DEF InText, Text
<1>. DOMAIN armv7_dat_abt_hand = 1..8
  BY DEF armv7_dat_abt_hand
<1>2. pc[2] \in 1..8
  BY <1>1
<1>3. /\ armv7_dat_abt_hand[1][1] = "ldr sp" /\ armv7_dat_abt_hand[2][1] = "add sp"
      /\ armv7_dat_abt_hand[3][1] = "push" /\ armv7_dat_abt_hand[4][1] = "mov r0"
      /\ armv7_dat_abt_hand[5][1] = "sub r0" /\ armv7_dat_abt_hand[6][1] = "bl"
      /\ armv7_dat_abt_hand[7][1] = "pop" /\ armv7_dat_abt_hand[8][1] = "movs pc"
  BY DEF armv7_dat_abt_hand
<1>4. /\ armv7_dat_abt_hand[2][2] = 3 /\ armv7_dat_abt_hand[5][2] = 2
      /\ armv7_dat_abt_hand[6][2] = "dump_data_abt" /\ armv7_dat_abt_hand[8][2] = 1
  BY DEF armv7_dat_abt_hand
<1>5. pc[2] = 1 \/ pc[2] = 2 \/ pc[2] = 3 \/ pc[2] = 4 \/ pc[2] = 5 \/ pc[2] = 6 \/ pc[2] = 7 \/ pc[2] = 8
  BY <1>2
<1>6. QED
  BY <1>1, <1>2, <1>3, <1>4, <1>5 DEF Op, Arg

LEMMA PrefetchAbortHandler ==
    ASSUME InText, pc[1] = "armv7_pref_abt_hand"
    PROVE  /\ pc[2] \in 1..8
           /\ Op("ldr sp") => pc[2] = 1
           /\ Op("add sp") => pc[2] = 2 /\ Arg = 3
           /\ Op("push") => pc[2] = 3
           /\ Op("mov r0") => pc[2] = 4
           /\ Op("sub r0") => pc[2] = 5 /\ Arg = 1
           /\ Op("bl") => pc[2] = 6 /\ Arg = "dump_pref_abt"
           /\ Op("pop") => pc[2] = 7
           /\ Op("movs pc") => pc[2] = 8 /\ Arg = 0
           /\ ~Op("add lr") /\ ~Op("cps")
<1>1. Text[pc[1]] = armv7_pref_abt_hand /\ pc[2] \in DOMAIN armv7_pref_abt_hand
  BY DEF InText, Text
<1>. DOMAIN armv7_pref_abt_hand = 1..8
  BY DEF armv7_pref_abt_hand
<1>2. pc[2] \in 1..8
  BY <1>1
<1>3. /\ armv7_pref_abt_hand[1][1] = "ldr sp" /\ armv7_pref_abt_hand[2][1] = "add sp"
      /\ armv7_pref_abt_hand[3][1] = "push" /\ armv7_pref_abt_hand[4][1] = "mov r0"
      /\ armv7_pref_abt_hand[5][1] = "sub r0" /\ armv7_pref_abt_hand[6][1] = "bl"
      /\ armv7_pref_abt_hand[7][1] = "pop" /\ armv7_pref_abt_hand[8][1] = "movs pc"
  BY DEF armv7_pref_abt_hand
<1>4. /\ armv7_pref_abt_hand[2][2] = 3 /\ armv7_pref_abt_hand[5][2] = 1
      /\ armv7_pref_abt_hand[6][2] = "dump_pref_abt" /\ armv7_pref_abt_hand[8][2] = 0
  BY DEF armv7_pref_abt_hand
<1>5. pc[2] = 1 \/ pc[2] = 2 \/ pc[2] = 3 \/ pc[2] = 4 \/ pc[2] = 5 \/ pc[2] = 6 \/ pc[2] = 7 \/ pc[2] = 8
  BY <1>2
<1>6. QED
  BY <1>1, <1>2, <1>3, <1>4, <1>5 DEF Op, Arg

LEMMA Instructions ==
    ASSUME InText
    PROVE  /\ pc[1] \in {"armv7_irq_hand", "armv7_undef_hand", "armv7_dat_abt_hand", "armv7_pref_abt_hand"}
           /\ Op("ldr sp") => pc[2] = 1
           /\ Op("add sp") => pc[2] = 2 /\ Arg = (IF pc[1] = "armv7_irq_hand" THEN 2 ELSE 3)
           /\ Op("push") => pc[2] = 3
           /\ Op("mov r0") => pc[2] = 4 /\ pc[1] # "armv7_irq_hand"
           /\ Op("sub r0") =>
                 /\ pc[2] = 5 /\ pc[1] # "armv7_irq_hand"
                 /\ Arg = IF pc[1] = "armv7_dat_abt_hand" THEN 2 ELSE 1
           /\ Op("bl") =>
                 \/ pc[1] = "armv7_irq_hand" /\ pc[2] = 4 /\ Arg = "c_irq_hand"
                 \/ pc[1] = "armv7_undef_hand" /\ pc[2] = 6 /\ Arg = "dump_undef_except"
                 \/ pc[1] = "armv7_dat_abt_hand" /\ pc[2] = 6 /\ Arg = "dump_data_abt"
                 \/ pc[1] = "armv7_pref_abt_hand" /\ pc[2] = 6 /\ Arg = "dump_pref_abt"
           /\ Op("pop") => pc[2] = IF pc[1] = "armv7_irq_hand" THEN 5 ELSE 7
           /\ Op("cps") => pc[1] = "armv7_undef_hand" /\ pc[2] = 8 /\ Arg = "UND"
           /\ Op("add lr") => pc[1] = "armv7_undef_hand" /\ pc[2] = 9 /\ Arg = 1
           /\ Op("movs pc") =>
                 \/ pc[1] = "armv7_irq_hand" /\ pc[2] = 6 /\ Arg = 1
                 \/ pc[1] = "armv7_undef_hand" /\ pc[2] = 10 /\ Arg = 0
                 \/ pc[1] = "armv7_dat_abt_hand" /\ pc[2] = 8 /\ Arg = 1
                 \/ pc[1] = "armv7_pref_abt_hand" /\ pc[2] = 8 /\ Arg = 0
<1>1. pc[1] \in {"armv7_irq_hand", "armv7_undef_hand", "armv7_dat_abt_hand", "armv7_pref_abt_hand"}
  BY DEF InText, Handlers, Text
<1>2. CASE pc[1] = "armv7_irq_hand"
  BY <1>2, IrqHandler
<1>3. CASE pc[1] = "armv7_undef_hand"
  BY <1>3, UndefHandler
<1>4. CASE pc[1] = "armv7_dat_abt_hand"
  BY <1>4, DataAbortHandler
<1>5. CASE pc[1] = "armv7_pref_abt_hand"
  BY <1>5, PrefetchAbortHandler
<1>6. QED
  BY <1>1, <1>2, <1>3, <1>4, <1>5

-----------------------------------------------------------------------------
(* Where the invariant allows the CPU to be in the handlers.                   *)

LEMMA KindsAre ==
    ASSUME TypeOK
    PROVE  raised.kind \in {"none", "undef", "pref_abt", "dat_abt", "irq"}
BY ExceptionAssumption DEF TypeOK, Address

LEMMA InOpenHandler ==
    ASSUME ExceptionInvariant, raised.open
    PROVE  /\ raised.kind \in {"undef", "pref_abt", "dat_abt", "irq"}
           /\ mode = ModeOf[raised.kind] /\ mode \in Modes /\ masked
           /\ InText => /\ pc[1] = HandlerOf[raised.kind]
                        /\ Prologue(pc[2]) \/ Report(pc[2]) \/ Epilogue(pc[2])
<1>1. /\ Open /\ raised.kind # "none" /\ mode = ModeOf[raised.kind] /\ masked
  BY DEF ExceptionInvariant, Open
<1>2. raised.kind \in {"undef", "pref_abt", "dat_abt", "irq"}
  BY <1>1, KindsAre DEF ExceptionInvariant
<1>3. mode \in Modes
  BY <1>1, <1>2 DEF ModeOf, Modes
<1>4. CallOf[raised.kind] \in {"dump_undef_except", "dump_pref_abt", "dump_data_abt", "c_irq_hand"}
  BY <1>2 DEF CallOf
<1>5. ASSUME InText
      PROVE  /\ pc[1] = HandlerOf[raised.kind]
             /\ Prologue(pc[2]) \/ Report(pc[2]) \/ Epilogue(pc[2])
  <2>1. pc[1] \in {"armv7_irq_hand", "armv7_undef_hand", "armv7_dat_abt_hand", "armv7_pref_abt_hand"}
    BY <1>5, Instructions
  <2>2. pc[1] # "low" /\ pc[1] # "ivt" /\ pc[1] # CallOf[raised.kind]
    BY <2>1, <1>4
  <2>3. pc # <<"ivt", Vector[raised.kind]>> /\ pc # <<CallOf[raised.kind], 1>>
    BY <2>2
  <2>4. QED
    BY <1>1, <2>2, <2>3 DEF Open
<1>6. QED
  BY <1>1, <1>2, <1>3, <1>5

LEMMA InClosedHandler ==
    ASSUME ExceptionInvariant, ~raised.open, InText
    PROVE  \/ /\ raised.kind \notin {"irq", "dat_abt"}
              /\ pc[1] \in {"armv7_undef_hand", "armv7_pref_abt_hand"} /\ pc[2] >= 7
           \/ /\ raised.kind = "irq" /\ InIrq /\ pc[1] = "armv7_irq_hand"
<1>1. Closed
  BY DEF ExceptionInvariant
<1>2. pc[1] \in {"armv7_irq_hand", "armv7_undef_hand", "armv7_dat_abt_hand", "armv7_pref_abt_hand"}
  BY Instructions
<1>3. CASE raised.kind = "irq"
  BY <1>1, <1>2, <1>3 DEF Closed, InIrq
<1>4. CASE raised.kind # "irq"
  BY <1>1, <1>2, <1>4 DEF Closed, Late
<1>5. QED
  BY <1>3, <1>4

\* Nothing but an open handler executes the instructions before the call.
LEMMA EarlyIsOpen ==
    ASSUME ExceptionInvariant, InText, pc[2] < 4 \/ (pc[1] # "armv7_irq_hand" /\ pc[2] < 7)
    PROVE  raised.open
<1>1. SUFFICES ASSUME ~raised.open PROVE FALSE
  OBVIOUS
<1>2. CASE raised.kind = "irq"
  BY <1>1, <1>2, InClosedHandler DEF InIrq
<1>3. CASE raised.kind # "irq"
  <2>1. pc[2] \in Int
    BY DEF ExceptionInvariant, TypeOK, Address
  <2>2. QED
    BY <1>1, <1>3, <2>1, InClosedHandler
<1>4. QED
  BY <1>2, <1>3

-----------------------------------------------------------------------------
(* Every step keeps the invariant.                                             *)

LEMMA FetchNext ==
    ASSUME TypeOK, Fetch
    PROVE  pc' \in Address /\ pc'[1] = pc[1] /\ pc'[2] = pc[2] + 1 /\ pc[2] \in Int
BY DEF TypeOK, Fetch, Plus, Address

\* An open handler goes on.
LEMMA GoesOn ==
    ASSUME ExceptionInvariant, raised.open, InText, TypeOK',
           mode' = mode, masked' = masked, raised' = raised, pc'[1] = pc[1],
           (Prologue(pc[2]) \/ Report(pc[2]) \/ Epilogue(pc[2]))',
           \A m \in Modes \ {mode} : lr'[m] = lr[m]
    PROVE  ExceptionInvariant'
<1>1. /\ raised.kind \in {"undef", "pref_abt", "dat_abt", "irq"}
      /\ mode = ModeOf[raised.kind] /\ masked /\ pc[1] = HandlerOf[raised.kind]
  BY InOpenHandler
<1>2. Open'
  BY <1>1 DEF Open
<1>3. ASSUME raised.kind \notin {"irq", "dat_abt"}, NEW m \in Modes, m # mode
      PROVE  Late(lr[m])'
  <2>1. Late(lr[m])
    BY <1>3 DEF ExceptionInvariant
  <2>2. QED
    BY <1>3, <2>1 DEF Late
<1>4. QED
  BY <1>2, <1>3 DEF ExceptionInvariant

LEMMA LdrSpKeeps ==
    ASSUME ExceptionInvariant, LdrSp
    PROVE  ExceptionInvariant'
<1>1. InText
  BY DEF LdrSp, Op
<1>2. pc[2] = 1
  BY <1>1, Instructions DEF LdrSp
<1>3. raised.open
  BY <1>1, <1>2, EarlyIsOpen
<1>4. Fetch /\ UNCHANGED <<mode, masked, lr, spsr, r, stack, vbar, raised>>
  BY DEF LdrSp
<1>5. sp' = [sp EXCEPT ![mode] = 0]
  BY DEF LdrSp
<1>6. TypeOK
  BY DEF ExceptionInvariant
<1>7. mode \in Modes
  BY <1>3, InOpenHandler
<1>8. pc'[1] = pc[1] /\ pc'[2] = 2 /\ pc' \in Address
  BY <1>2, <1>4, <1>6, FetchNext
<1>9. Prologue(1)
  BY <1>1, <1>2, <1>3, InOpenHandler DEF Report, Epilogue, AfterCall
<1>10. sp' \in [Modes -> (-PageFrames)..Top] /\ sp'[mode] = 0
  BY <1>5, <1>6, <1>7, ExceptionAssumption DEF TypeOK, Top, Address
<1>11. TypeOK'
  BY <1>4, <1>6, <1>8, <1>10 DEF TypeOK, Address
<1>12. Prologue(pc[2])'
  BY <1>4, <1>8, <1>9, <1>10 DEF Prologue, Fresh, Entered
<1>13. QED
  BY <1>1, <1>3, <1>4, <1>8, <1>11, <1>12, GoesOn

LEMMA AddSpKeeps ==
    ASSUME ExceptionInvariant, AddSp
    PROVE  ExceptionInvariant'
<1>1. InText
  BY DEF AddSp, Op
<1>2. pc[2] = 2 /\ Arg = IF pc[1] = "armv7_irq_hand" THEN 2 ELSE 3
  BY <1>1, Instructions DEF AddSp
<1>3. raised.open
  BY <1>1, <1>2, EarlyIsOpen
<1>4. Fetch /\ UNCHANGED <<mode, masked, lr, spsr, r, stack, vbar, raised>>
  BY DEF AddSp
<1>5. sp' = [sp EXCEPT ![mode] = sp[mode] + Arg * PageFrames]
  BY DEF AddSp
<1>6. TypeOK
  BY DEF ExceptionInvariant
<1>7. /\ raised.kind \in {"undef", "pref_abt", "dat_abt", "irq"} /\ mode \in Modes
      /\ pc[1] = HandlerOf[raised.kind]
  BY <1>1, <1>3, InOpenHandler
<1>8. pc'[1] = pc[1] /\ pc'[2] = 3 /\ pc' \in Address
  BY <1>2, <1>4, <1>6, FetchNext
<1>9. Prologue(2)
  BY <1>1, <1>2, <1>3, InOpenHandler DEF Report, Epilogue, AfterCall
<1>10. sp[mode] = 0 /\ Arg = Pages[raised.kind] /\ Arg \in {2, 3}
  BY <1>2, <1>7, <1>9 DEF Prologue, HandlerOf, Pages
<1>11. sp' \in [Modes -> (-PageFrames)..Top] /\ sp'[mode] = Pages[raised.kind] * PageFrames
  BY <1>5, <1>6, <1>7, <1>10, ExceptionAssumption DEF TypeOK, Top, Address
<1>12. TypeOK'
  BY <1>4, <1>6, <1>8, <1>11 DEF TypeOK, Address
<1>13. Prologue(pc[2])'
  BY <1>4, <1>8, <1>9, <1>11 DEF Prologue, Fresh, Entered
<1>14. QED
  BY <1>1, <1>3, <1>4, <1>8, <1>12, <1>13, GoesOn

LEMMA PushKeeps ==
    ASSUME ExceptionInvariant, Push
    PROVE  ExceptionInvariant'
<1>1. InText
  BY DEF Push, Op
<1>2. pc[2] = 3
  BY <1>1, Instructions DEF Push
<1>3. raised.open
  BY <1>1, <1>2, EarlyIsOpen
<1>4. Fetch /\ UNCHANGED <<mode, masked, lr, spsr, r, vbar, raised>>
  BY DEF Push
<1>5. sp' = [sp EXCEPT ![mode] = sp[mode] - 1] /\ stack' = [stack EXCEPT ![sp[mode] - 1] = r]
  BY DEF Push
<1>6. TypeOK
  BY DEF ExceptionInvariant
<1>7. raised.kind \in {"undef", "pref_abt", "dat_abt", "irq"} /\ mode \in Modes
  BY <1>3, InOpenHandler
<1>8. pc'[1] = pc[1] /\ pc'[2] = 4 /\ pc' \in Address
  BY <1>2, <1>4, <1>6, FetchNext
<1>9. Prologue(3)
  BY <1>1, <1>2, <1>3, InOpenHandler DEF Report, Epilogue, AfterCall
<1>10. Pages[raised.kind] \in {2, 3} /\ sp[mode] = Pages[raised.kind] * PageFrames /\ Fresh
  BY <1>7, <1>9 DEF Prologue, Pages
<1>11. sp[mode] - 1 \in Frames /\ sp[mode] - 1 \in (-PageFrames)..Top
  BY <1>10, ExceptionAssumption DEF Frames, Top
<1>12. sp' \in [Modes -> (-PageFrames)..Top] /\ sp'[mode] = sp[mode] - 1
  BY <1>5, <1>6, <1>7, <1>11 DEF TypeOK, Address
<1>13. stack' \in [Frames -> Values] /\ stack'[sp[mode] - 1] = r
  BY <1>5, <1>6, <1>11 DEF TypeOK, Address
<1>14. TypeOK'
  BY <1>4, <1>6, <1>8, <1>12, <1>13 DEF TypeOK, Address
<1>15. Pushed'
  BY <1>4, <1>10, <1>12, <1>13 DEF Pushed, Fresh
<1>16. Prologue(pc[2])'
  BY <1>4, <1>8, <1>9, <1>15 DEF Prologue, Fresh, Entered
<1>17. QED
  BY <1>1, <1>3, <1>4, <1>8, <1>14, <1>16, GoesOn

LEMMA MovR0Keeps ==
    ASSUME ExceptionInvariant, MovR0
    PROVE  ExceptionInvariant'
<1>1. InText
  BY DEF MovR0, Op
<1>2. pc[2] = 4 /\ pc[1] # "armv7_irq_hand"
  BY <1>1, Instructions DEF MovR0
<1>3. raised.open
  BY <1>1, <1>2, EarlyIsOpen
<1>4. Fetch /\ UNCHANGED <<mode, masked, lr, sp, spsr, stack, vbar, raised>>
  BY DEF MovR0, banks
<1>5. r' = [r EXCEPT !.r0 = lr[mode]]
  BY DEF MovR0
<1>6. TypeOK
  BY DEF ExceptionInvariant
<1>7. /\ raised.kind \in {"undef", "pref_abt", "dat_abt", "irq"} /\ mode \in Modes
      /\ pc[1] = HandlerOf[raised.kind]
  BY <1>1, <1>3, InOpenHandler
<1>8. raised.kind # "irq"
  BY <1>2, <1>7 DEF HandlerOf
<1>9. pc'[1] = pc[1] /\ pc'[2] = 5 /\ pc' \in Address
  BY <1>2, <1>4, <1>6, FetchNext
<1>10. Prologue(4)
  BY <1>1, <1>2, <1>3, <1>8, InOpenHandler DEF Report, Epilogue, AfterCall
<1>11. r' \in Values /\ r'.r0 = lr[mode]
  BY <1>5, <1>6, <1>7 DEF TypeOK, Values, Address
<1>12. TypeOK'
  BY <1>4, <1>6, <1>9, <1>11 DEF TypeOK, Address
<1>13. Report(pc[2])'
  BY <1>4, <1>8, <1>9, <1>10, <1>11 DEF Prologue, Report, Pushed, Entered
<1>14. QED
  BY <1>1, <1>3, <1>4, <1>9, <1>12, <1>13, GoesOn

\* The offset of the handler is that of the exception.
LEMMA SubR0Keeps ==
    ASSUME ExceptionInvariant, SubR0
    PROVE  ExceptionInvariant'
<1>1. InText
  BY DEF SubR0, Op
<1>2. /\ pc[2] = 5 /\ pc[1] # "armv7_irq_hand"
      /\ Arg = IF pc[1] = "armv7_dat_abt_hand" THEN 2 ELSE 1
  BY <1>1, Instructions DEF SubR0
<1>3. raised.open
  BY <1>1, <1>2, EarlyIsOpen
<1>4. Fetch /\ UNCHANGED <<mode, masked, lr, sp, spsr, stack, vbar, raised>>
  BY DEF SubR0, banks
<1>5. r' = [r EXCEPT !.r0 = Plus(r.r0, -Arg)]
  BY DEF SubR0
<1>6. TypeOK
  BY DEF ExceptionInvariant
<1>7. /\ raised.kind \in {"undef", "pref_abt", "dat_abt", "irq"}
      /\ pc[1] = HandlerOf[raised.kind]
  BY <1>1, <1>3, InOpenHandler
<1>8. raised.kind # "irq" /\ Arg = LrAhead[raised.kind] /\ Arg \in Int
  BY <1>2, <1>7 DEF HandlerOf, LrAhead
<1>9. pc'[1] = pc[1] /\ pc'[2] = 6 /\ pc' \in Address
  BY <1>2, <1>4, <1>6, FetchNext
<1>10. Report(5)
  BY <1>1, <1>2, <1>3, <1>8, InOpenHandler DEF Prologue, Epilogue, AfterCall
<1>11. r.r0 = Plus(raised.at, Arg) /\ raised.at \in Address
  BY <1>6, <1>8, <1>10 DEF Report, TypeOK, Address
<1>12. Plus(r.r0, -Arg) = raised.at
  BY <1>8, <1>11 DEF Plus, Address
<1>13. r' \in Values /\ r'.r0 = raised.at
  BY <1>5, <1>6, <1>11, <1>12 DEF TypeOK, Values, Address
<1>14. TypeOK'
  BY <1>4, <1>6, <1>9, <1>13 DEF TypeOK, Address
<1>15. Report(pc[2])'
  BY <1>4, <1>8, <1>9, <1>10, <1>13 DEF Report, Pushed
<1>16. QED
  BY <1>1, <1>3, <1>4, <1>9, <1>14, <1>15, GoesOn

LEMMA BlKeeps ==
    ASSUME ExceptionInvariant, Bl
    PROVE  ExceptionInvariant'
<1>1. InText
  BY DEF Bl, Op
<1>2. \/ pc[1] = "armv7_irq_hand" /\ pc[2] = 4 /\ Arg = "c_irq_hand"
      \/ pc[1] = "armv7_undef_hand" /\ pc[2] = 6 /\ Arg = "dump_undef_except"
      \/ pc[1] = "armv7_dat_abt_hand" /\ pc[2] = 6 /\ Arg = "dump_data_abt"
      \/ pc[1] = "armv7_pref_abt_hand" /\ pc[2] = 6 /\ Arg = "dump_pref_abt"
  BY <1>1, Instructions DEF Bl
<1>3. UNCHANGED <<mode, masked, sp, spsr, r, stack, vbar, raised>>
  BY DEF Bl
<1>4. lr' = [lr EXCEPT ![mode] = Plus(pc, 1)] /\ pc' = <<Arg, 1>>
  BY DEF Bl
<1>5. TypeOK /\ mode \in Modes
  BY DEF ExceptionInvariant, Bl, Op
<1>6. Plus(pc, 1) = <<pc[1], pc[2] + 1>> /\ Plus(pc, 1) \in Address
  BY <1>5 DEF TypeOK, Plus, Address
<1>. Arg \in Routines
  BY <1>2 DEF Routines
<1>7. pc' \in Address /\ lr' \in [Modes -> Address] /\ lr'[mode] = <<pc[1], pc[2] + 1>>
  BY <1>4, <1>5, <1>6 DEF TypeOK, Address
<1>8. TypeOK'
  BY <1>3, <1>5, <1>7 DEF TypeOK, Address
<1>9. ASSUME NEW m \in Modes, m # mode
      PROVE  lr'[m] = lr[m]
  BY <1>4, <1>5, <1>9 DEF TypeOK, Address
<1>10. CASE raised.open
  <2>1. /\ raised.kind \in {"undef", "pref_abt", "dat_abt", "irq"} /\ mode = ModeOf[raised.kind]
        /\ masked /\ pc[1] = HandlerOf[raised.kind]
        /\ Prologue(pc[2]) \/ Report(pc[2]) \/ Epilogue(pc[2])
    BY <1>1, <1>10, InOpenHandler
  <2>2. Arg = CallOf[raised.kind] /\ pc[2] + 1 = AfterCall
    BY <1>2, <2>1 DEF HandlerOf, CallOf, AfterCall
  <2>3. Pushed /\ IF raised.kind = "irq" THEN Fresh ELSE r.r0 = raised.at
    BY <1>2, <2>1 DEF HandlerOf, AfterCall, Prologue, Report, Epilogue
  <2>4. Calling'
    BY <1>3, <1>7, <2>1, <2>2, <2>3 DEF Calling, Pushed, Fresh, AfterCall
  <2>5. Open'
    BY <1>3, <1>4, <2>1, <2>2, <2>4 DEF Open
  <2>6. ASSUME raised.kind \notin {"irq", "dat_abt"}, NEW m \in Modes, m # mode
        PROVE  Late(lr[m])'
    BY <1>9, <1>10, <2>6 DEF ExceptionInvariant, Late
  <2>7. QED
    BY <1>3, <1>8, <1>10, <2>5, <2>6 DEF ExceptionInvariant
<1>11. CASE ~raised.open
  <2>1. raised.kind = "irq" /\ pc[1] = "armv7_irq_hand"
    <3>1. pc[2] \in Int
      BY <1>5 DEF TypeOK, Address
    <3>2. QED
      BY <1>1, <1>2, <1>11, <3>1, InClosedHandler
  <2>2. pc' = <<"c_irq_hand", 1>> /\ lr'[mode] = <<"armv7_irq_hand", 5>>
    BY <1>2, <1>4, <1>7, <2>1
  <2>3. InIrq'
    BY <1>3, <2>2 DEF InIrq
  <2>4. QED
    BY <1>3, <1>8, <1>11, <2>1, <2>3 DEF ExceptionInvariant, Closed
<1>12. QED
  BY <1>10, <1>11

\* A handler that has returned once, and come back behind its call, goes on.
LEMMA GoesOnAgain ==
    ASSUME ExceptionInvariant, ~raised.open, InText, TypeOK', raised' = raised,
           raised.kind \notin {"irq", "dat_abt"},
           pc' = Plus(pc, 1), \A m \in Modes : Late(lr'[m])
    PROVE  ExceptionInvariant'
<1>1. pc[1] \in {"armv7_undef_hand", "armv7_pref_abt_hand"} /\ pc[2] >= 7 /\ pc[2] \in Int
  BY InClosedHandler DEF ExceptionInvariant, TypeOK, Address
<1>2. Late(pc')
  BY <1>1 DEF Late, Plus
<1>3. QED
  BY <1>2 DEF ExceptionInvariant, Closed, Late

LEMMA PopKeeps ==
    ASSUME ExceptionInvariant, Pop
    PROVE  ExceptionInvariant'
<1>1. InText
  BY DEF Pop, Op
<1>2. pc[2] = IF pc[1] = "armv7_irq_hand" THEN 5 ELSE 7
  BY <1>1, Instructions DEF Pop
<1>3. Fetch /\ UNCHANGED <<mode, masked, lr, spsr, stack, vbar, raised>>
  BY DEF Pop
<1>4. /\ r' = stack[IF sp[mode] < Top THEN sp[mode] ELSE Top - 1]
      /\ sp' = [sp EXCEPT ![mode] = IF sp[mode] < Top THEN sp[mode] + 1 ELSE sp[mode]]
  BY DEF Pop
<1>5. TypeOK /\ mode \in Modes
  BY DEF ExceptionInvariant, Pop, Op
<1>6. pc'[1] = pc[1] /\ pc'[2] = pc[2] + 1 /\ pc[2] \in Int /\ pc' \in Address
  BY <1>3, <1>5, FetchNext
<1>7. sp[mode] \in (-PageFrames)..Top /\ Top \in Int /\ PageFrames \in Nat \ {0} /\ Top = 3 * PageFrames
  BY <1>5, ExceptionAssumption DEF TypeOK, Top, Address
<1>8. r' \in Values
  <2>1. (IF sp[mode] < Top THEN sp[mode] ELSE Top - 1) \in Frames
    BY <1>7 DEF Frames
  <2>2. QED
    BY <1>4, <1>5, <2>1 DEF TypeOK, Address
<1>9. sp' \in [Modes -> (-PageFrames)..Top]
  <2>1. (IF sp[mode] < Top THEN sp[mode] + 1 ELSE sp[mode]) \in (-PageFrames)..Top
    BY <1>7
  <2>2. QED
    BY <1>4, <1>5, <2>1 DEF TypeOK, Address
<1>10. TypeOK'
  BY <1>3, <1>5, <1>6, <1>8, <1>9 DEF TypeOK, Address
<1>11. CASE raised.open
  <2>1. /\ raised.kind \in {"undef", "pref_abt", "dat_abt", "irq"}
        /\ pc[1] = HandlerOf[raised.kind]
        /\ Prologue(pc[2]) \/ Report(pc[2]) \/ Epilogue(pc[2])
    BY <1>1, <1>11, InOpenHandler
  <2>2. pc[2] = AfterCall
    BY <1>2, <2>1 DEF AfterCall, HandlerOf
  <2>3. Epilogue(AfterCall)
    BY <2>1, <2>2 DEF Prologue, Report, AfterCall
  <2>4. Pages[raised.kind] \in {2, 3} /\ Pushed
    BY <2>1, <2>3 DEF Pages, Epilogue
  <2>5. sp[mode] < Top
    BY <1>7, <2>4 DEF Pushed
  <2>6. r' = raised.regs
    BY <1>4, <2>4, <2>5 DEF Pushed
  <2>7. Epilogue(pc[2])'
    BY <1>3, <1>6, <2>2, <2>3, <2>6 DEF Epilogue, AfterCall, Length, Fresh, Late
  <2>8. QED
    BY <1>1, <1>3, <1>6, <1>10, <1>11, <2>7, GoesOn
<1>12. CASE ~raised.open /\ raised.kind # "irq"
  <2>1. raised.kind # "dat_abt" /\ \A m \in Modes : Late(lr[m])
    BY <1>12 DEF ExceptionInvariant, Closed
  <2>2. QED
    BY <1>1, <1>3, <1>10, <1>12, <2>1, GoesOnAgain DEF Fetch
<1>13. CASE ~raised.open /\ raised.kind = "irq"
  <2>1. InIrq /\ pc[1] = "armv7_irq_hand"
    BY <1>1, <1>13, InClosedHandler
  <2>2. pc[2] = 5 /\ lr[mode] = <<"armv7_irq_hand", 5>>
    BY <1>2, <2>1 DEF InIrq
  <2>3. pc' = <<"armv7_irq_hand", 6>>
    BY <1>3, <2>1, <2>2 DEF Fetch, Plus
  <2>4. InIrq'
    BY <1>3, <2>2, <2>3 DEF InIrq
  <2>5. QED
    BY <1>3, <1>10, <1>13, <2>4 DEF ExceptionInvariant, Closed
<1>14. QED
  BY <1>11, <1>12, <1>13

LEMMA CpsKeeps ==
    ASSUME ExceptionInvariant, Cps
    PROVE  ExceptionInvariant'
<1>1. InText
  BY DEF Cps, Op
<1>2. pc[1] = "armv7_undef_hand" /\ pc[2] = 8 /\ Arg = "UND"
  BY <1>1, Instructions DEF Cps
<1>3. Fetch /\ mode' = Arg /\ UNCHANGED <<masked, lr, sp, spsr, r, stack, vbar, raised>>
  BY DEF Cps, banks
<1>4. TypeOK
  BY DEF ExceptionInvariant
<1>5. pc'[1] = pc[1] /\ pc'[2] = 9 /\ pc' \in Address
  BY <1>2, <1>3, <1>4, FetchNext
<1>6. mode' = "UND" /\ TypeOK'
  BY <1>2, <1>3, <1>4, <1>5 DEF TypeOK, Address, Modes
<1>7. CASE raised.open
  <2>1. /\ raised.kind \in {"undef", "pref_abt", "dat_abt", "irq"} /\ mode = ModeOf[raised.kind]
        /\ pc[1] = HandlerOf[raised.kind]
        /\ Prologue(pc[2]) \/ Report(pc[2]) \/ Epilogue(pc[2])
    BY <1>1, <1>7, InOpenHandler
  <2>2. raised.kind = "undef" /\ mode = "UND"
    BY <1>2, <2>1 DEF HandlerOf, ModeOf
  <2>3. Epilogue(8)
    BY <1>2, <2>1 DEF Prologue, Report
  <2>4. Epilogue(pc[2])'
    BY <1>3, <1>5, <1>6, <2>2, <2>3 DEF Epilogue, AfterCall, Length, Fresh, Late
  <2>5. QED
    BY <1>1, <1>3, <1>5, <1>6, <1>7, <2>2, <2>4, GoesOn
<1>8. CASE ~raised.open
  <2>1. raised.kind \notin {"irq", "dat_abt"}
    BY <1>1, <1>2, <1>8, InClosedHandler
  <2>2. \A m \in Modes : Late(lr[m])
    BY <1>8, <2>1 DEF ExceptionInvariant
  <2>3. QED
    BY <1>1, <1>3, <1>6, <1>8, <2>1, <2>2, GoesOnAgain DEF Fetch
<1>9. QED
  BY <1>7, <1>8

LEMMA AddLrKeeps ==
    ASSUME ExceptionInvariant, AddLr
    PROVE  ExceptionInvariant'
<1>1. InText
  BY DEF AddLr, Op
<1>2. pc[1] = "armv7_undef_hand" /\ pc[2] = 9 /\ Arg = 1
  BY <1>1, Instructions DEF AddLr
<1>3. Fetch /\ UNCHANGED <<mode, masked, sp, spsr, r, stack, vbar, raised>>
  BY DEF AddLr
<1>4. lr' = [lr EXCEPT ![mode] = Plus(lr[mode], 1)]
  BY <1>2 DEF AddLr
<1>5. TypeOK /\ mode \in Modes
  BY DEF ExceptionInvariant, AddLr, Op
<1>6. pc'[1] = pc[1] /\ pc'[2] = 10 /\ pc' \in Address
  BY <1>2, <1>3, <1>5, FetchNext
<1>7. lr' \in [Modes -> Address] /\ lr'[mode] = <<lr[mode][1], lr[mode][2] + 1>> /\ lr[mode][2] \in Int
  BY <1>4, <1>5 DEF TypeOK, Plus, Address
<1>8. TypeOK'
  BY <1>3, <1>5, <1>6, <1>7 DEF TypeOK, Address
<1>9. ASSUME NEW m \in Modes, m # mode
      PROVE  lr'[m] = lr[m]
  BY <1>4, <1>5, <1>9 DEF TypeOK, Address
<1>10. Late(lr[mode]) => Late(lr'[mode])
  BY <1>7 DEF Late
<1>11. CASE raised.open
  <2>1. /\ raised.kind \in {"undef", "pref_abt", "dat_abt", "irq"}
        /\ pc[1] = HandlerOf[raised.kind]
        /\ Prologue(pc[2]) \/ Report(pc[2]) \/ Epilogue(pc[2])
    BY <1>1, <1>11, InOpenHandler
  <2>2. raised.kind = "undef"
    BY <1>2, <2>1 DEF HandlerOf
  <2>3. Epilogue(9)
    BY <1>2, <2>1 DEF Prologue, Report
  <2>4. Late(lr'[mode])
    BY <1>10, <2>2, <2>3 DEF Epilogue
  <2>5. Epilogue(pc[2])'
    BY <1>3, <1>6, <2>2, <2>3, <2>4 DEF Epilogue, AfterCall, Length, Fresh, Late
  <2>6. QED
    BY <1>1, <1>3, <1>6, <1>8, <1>9, <1>11, <2>5, GoesOn
<1>12. CASE ~raised.open
  <2>1. raised.kind \notin {"irq", "dat_abt"}
    BY <1>1, <1>2, <1>12, InClosedHandler
  <2>2. \A m \in Modes : Late(lr[m])
    BY <1>12, <2>1 DEF ExceptionInvariant
  <2>3. \A m \in Modes : Late(lr'[m])
    BY <1>9, <1>10, <2>2
  <2>4. QED
    BY <1>1, <1>3, <1>8, <1>12, <2>1, <2>3, GoesOnAgain DEF Fetch
<1>13. QED
  BY <1>11, <1>12


\* A handler of an exception that returns leaves through a link to late code.
LEMMA MovsPcKeeps ==
    ASSUME ExceptionInvariant, MovsPc
    PROVE  ExceptionInvariant'
<1>1. InText
  BY DEF MovsPc, Op
<1>2. \/ pc[1] = "armv7_irq_hand" /\ pc[2] = 6 /\ Arg = 1
      \/ pc[1] = "armv7_undef_hand" /\ pc[2] = 10 /\ Arg = 0
      \/ pc[1] = "armv7_dat_abt_hand" /\ pc[2] = 8 /\ Arg = 1
      \/ pc[1] = "armv7_pref_abt_hand" /\ pc[2] = 8 /\ Arg = 0
  BY <1>1, Instructions DEF MovsPc
<1>3. /\ mode' = spsr[mode].mode /\ masked' = spsr[mode].masked
      /\ UNCHANGED <<lr, sp, spsr, r, stack, vbar>>
  BY DEF MovsPc, banks
<1>4. pc' = Plus(lr[mode], -Arg) /\ raised' = [raised EXCEPT !.open = FALSE]
  BY DEF MovsPc
<1>5. TypeOK /\ mode \in Modes
  BY DEF ExceptionInvariant, MovsPc, Op
<1>6. Arg \in {0, 1}
  BY <1>2
<1>7. /\ pc' = <<lr[mode][1], lr[mode][2] - Arg>> /\ lr[mode][2] \in Int
      /\ pc' \in Address
  BY <1>4, <1>5, <1>6 DEF TypeOK, Plus, Address
<1>8. /\ raised' \in [kind : Kinds \union {"none"}, at : Address, regs : Values, open : BOOLEAN]
      /\ ~raised'.open /\ raised'.kind = raised.kind
  BY <1>4, <1>5 DEF TypeOK, Address
<1>9. /\ mode' \in Modes \union {"illegal"} /\ masked' \in BOOLEAN
  BY <1>3, <1>5 DEF TypeOK, Address
<1>10. TypeOK'
  BY <1>3, <1>5, <1>7, <1>8, <1>9 DEF TypeOK, Address
<1>11. \/ raised.kind = "irq" /\ pc[1] = "armv7_irq_hand" /\ lr[mode] = <<"armv7_irq_hand", 5>>
       \/ /\ raised.kind \notin {"irq", "dat_abt"} /\ \A m \in Modes : Late(lr[m])
          /\ pc[1] \in {"armv7_undef_hand", "armv7_pref_abt_hand"}
  <2>1. CASE raised.open
    <3>1. /\ raised.kind \in {"undef", "pref_abt", "dat_abt", "irq"}
          /\ pc[1] = HandlerOf[raised.kind]
          /\ Prologue(pc[2]) \/ Report(pc[2]) \/ Epilogue(pc[2])
      BY <1>1, <2>1, InOpenHandler
    <3>2. Epilogue(pc[2])
      BY <1>2, <3>1 DEF Prologue, Report, HandlerOf
    <3>3. /\ raised.kind # "dat_abt"
          /\ IF raised.kind = "irq" THEN lr[mode] = <<"armv7_irq_hand", 5>> ELSE Late(lr[mode])
      BY <3>2 DEF Epilogue
    <3>4. raised.kind # "irq" => \A m \in Modes : m = mode \/ Late(lr[m])
      BY <2>1, <3>3 DEF ExceptionInvariant
    <3>5. QED
      BY <3>1, <3>3, <3>4 DEF HandlerOf
  <2>2. CASE ~raised.open /\ raised.kind = "irq"
    <3>1. InIrq /\ pc[1] = "armv7_irq_hand"
      BY <1>1, <2>2, InClosedHandler
    <3>2. pc[2] = 6
      BY <1>2, <3>1
    <3>3. QED
      BY <2>2, <3>1, <3>2 DEF InIrq
  <2>3. CASE ~raised.open /\ raised.kind # "irq"
    <3>1. raised.kind # "dat_abt" /\ pc[1] \in {"armv7_undef_hand", "armv7_pref_abt_hand"}
      BY <1>1, <2>3, InClosedHandler
    <3>2. QED
      BY <2>3, <3>1 DEF ExceptionInvariant
  <2>4. QED
    BY <2>1, <2>2, <2>3
<1>12. CASE raised.kind = "irq"
  <2>1. pc' = <<"armv7_irq_hand", 4>>
    BY <1>2, <1>7, <1>11, <1>12
  <2>2. QED
    BY <1>8, <1>10, <1>12, <2>1 DEF ExceptionInvariant, Closed, InIrq
<1>13. CASE raised.kind # "irq"
  <2>1. Arg = 0
    BY <1>2, <1>11, <1>13
  <2>2. Late(lr[mode])
    BY <1>5, <1>11, <1>13
  <2>3. Late(pc)'
    BY <1>7, <2>1, <2>2 DEF Late
  <2>4. \A m \in Modes : Late(lr'[m])
    BY <1>3, <1>11, <1>13
  <2>5. QED
    BY <1>8, <1>10, <1>11, <1>13, <2>3, <2>4 DEF ExceptionInvariant, Closed, Late
<1>14. QED
  BY <1>12, <1>13

LEMMA CReturnKeeps ==
    ASSUME ExceptionInvariant, CReturn
    PROVE  ExceptionInvariant'
<1>1. /\ pc[1] \in {"dump_undef_except", "dump_pref_abt", "c_irq_hand"} /\ mode \in Modes
      /\ pc' = lr[mode]
      /\ UNCHANGED <<mode, masked, lr, sp, spsr, stack, vbar, raised>>
  BY DEF CReturn, Returning, banks
<1>2. r' = IF pc[1] = "c_irq_hand" THEN r ELSE Clobbered
  BY DEF CReturn
<1>3. TypeOK
  BY DEF ExceptionInvariant
<1>4. Clobbered \in Values
  BY DEF Clobbered, Values, Address
<1>5. pc' \in Address /\ r' \in Values
  BY <1>1, <1>2, <1>3, <1>4 DEF TypeOK, Address
<1>6. TypeOK'
  BY <1>1, <1>3, <1>5 DEF TypeOK, Address
<1>7. CASE raised.open
  <2>1. /\ raised.kind \in {"undef", "pref_abt", "dat_abt", "irq"}
        /\ mode = ModeOf[raised.kind] /\ masked
    BY <1>7, InOpenHandler
  <2>2. /\ HandlerOf[raised.kind] \in
              {"armv7_irq_hand", "armv7_undef_hand", "armv7_dat_abt_hand", "armv7_pref_abt_hand"}
    BY <2>1 DEF HandlerOf
  <2>3. pc = <<CallOf[raised.kind], 1>> /\ Calling
    BY <1>1, <1>7, <2>2 DEF ExceptionInvariant, Open
  <2>4. raised.kind # "dat_abt" /\ (raised.kind = "irq" <=> pc[1] = "c_irq_hand")
    BY <1>1, <2>1, <2>3 DEF CallOf
  <2>5. Pushed /\ lr[mode] = <<HandlerOf[raised.kind], AfterCall>>
    BY <2>3 DEF Calling
  <2>6. /\ pc'[1] = HandlerOf[raised.kind] /\ pc'[2] = AfterCall
        /\ AfterCall \in AfterCall..Length
    BY <1>1, <2>5 DEF AfterCall, Length
  <2>7. IF raised.kind = "irq" THEN lr[mode] = <<"armv7_irq_hand", 5>> ELSE Late(lr[mode])
    BY <2>1, <2>4, <2>5 DEF HandlerOf, AfterCall, Late
  <2>8. Epilogue(pc[2])'
    BY <1>1, <2>4, <2>5, <2>6, <2>7 DEF Epilogue, Pushed, AfterCall, Length, Late
  <2>9. Open'
    BY <1>1, <2>1, <2>6, <2>8 DEF Open
  <2>10. ASSUME raised.kind \notin {"irq", "dat_abt"}, NEW m \in Modes, m # mode
         PROVE  Late(lr[m])'
    BY <1>1, <1>7, <2>10 DEF ExceptionInvariant, Late
  <2>11. QED
    BY <1>1, <1>6, <1>7, <2>9, <2>10 DEF ExceptionInvariant
<1>8. CASE ~raised.open
  <2>1. Closed
    BY <1>8 DEF ExceptionInvariant
  <2>2. raised.kind = "irq" /\ lr[mode] = <<"armv7_irq_hand", 5>>
    BY <1>1, <2>1 DEF Closed, Late, InIrq
  <2>3. InIrq'
    BY <1>1, <2>2 DEF InIrq
  <2>4. QED
    BY <1>1, <1>6, <1>8, <2>2, <2>3 DEF ExceptionInvariant, Closed
<1>9. QED
  BY <1>7, <1>8

\* The program runs before the first exception, and after those that return.
LEMMA ProgramIsLate ==
    ASSUME ExceptionInvariant, InProgram
    PROVE  ~raised.open /\ raised.kind \notin {"irq", "dat_abt"} /\ \A m \in Modes : Late(lr[m])
<1>1. pc[1] = "program"
  BY DEF InProgram
<1>2. ~raised.open
  <2>1. SUFFICES ASSUME raised.open PROVE FALSE
    OBVIOUS
  <2>2. raised.kind \in {"undef", "pref_abt", "dat_abt", "irq"} /\ Open
    BY <2>1, InOpenHandler DEF ExceptionInvariant
  <2>3. HandlerOf[raised.kind] # "program" /\ CallOf[raised.kind] # "program"
    BY <2>2 DEF HandlerOf, CallOf
  <2>4. QED
    BY <1>1, <2>2, <2>3 DEF Open
<1>3. Closed
  BY <1>2 DEF ExceptionInvariant
<1>4. raised.kind \notin {"irq", "dat_abt"}
  BY <1>1, <1>3 DEF Closed, InIrq
<1>5. QED
  BY <1>2, <1>4 DEF ExceptionInvariant

LEMMA ProgramKeeps ==
    ASSUME ExceptionInvariant, Program
    PROVE  ExceptionInvariant'
<1>1. InProgram /\ Fetch /\ UNCHANGED <<mode, masked, sp, spsr, stack, raised>>
  BY DEF Program
<1>2. ~raised.open /\ raised.kind \notin {"irq", "dat_abt"} /\ \A m \in Modes : Late(lr[m])
  BY <1>1, ProgramIsLate
<1>3. TypeOK
  BY DEF ExceptionInvariant
<1>4. pc'[1] = "program" /\ pc' \in Address
  BY <1>1, <1>3, FetchNext DEF InProgram
<1>5. r' \in Values
  <2>1. pc[2] \in Int
    BY <1>3 DEF TypeOK, Address
  <2>2. r' = [r0 |-> <<"value", pc[2]>>, rest |-> <<"value", pc[2]>>]
    BY DEF Program
  <2>3. QED
    BY <2>1, <2>2 DEF Values, Address
<1>6. Plus(pc, 1) \in Address /\ Late(Plus(pc, 1))
  BY <1>1, <1>3 DEF InProgram, TypeOK, Plus, Late, Address
<1>7. lr' \in [Modes -> Address] /\ \A m \in Modes : lr'[m] \in {lr[m], Plus(pc, 1)}
  <2>1. lr' \in {lr, [lr EXCEPT ![mode] = Plus(pc, 1)]}
    BY DEF Program
  <2>2. QED
    BY <1>3, <1>6, <2>1 DEF TypeOK, Address
<1>8. \A m \in Modes : Late(lr'[m])
  BY <1>2, <1>6, <1>7
<1>9. vbar' \in {"reset", "ivt"}
  BY <1>3 DEF Program, TypeOK, Address
<1>10. TypeOK'
  BY <1>1, <1>3, <1>4, <1>5, <1>7, <1>9 DEF TypeOK, Address
<1>11. Closed'
  BY <1>1, <1>2, <1>4 DEF Closed, Late
<1>12. QED
  BY <1>1, <1>2, <1>8, <1>10, <1>11 DEF ExceptionInvariant, Late

-----------------------------------------------------------------------------
(* An exception, and its vector.                                               *)

LEMMA RaiseKeeps ==
    ASSUME ExceptionInvariant, NEW k \in Kinds, Raise(k)
    PROVE  ExceptionInvariant'
<1>1. k \in {"undef", "pref_abt", "dat_abt", "irq"}
  BY ExceptionAssumption
<1>2. /\ raised' = [kind |-> k, at |-> pc, regs |-> r, open |-> TRUE]
      /\ lr' = [lr EXCEPT ![ModeOf[k]] = Plus(pc, LrAhead[k])]
      /\ spsr' = [spsr EXCEPT ![ModeOf[k]] = [mode |-> mode, masked |-> masked]]
  BY DEF Raise
<1>3. /\ mode' = ModeOf[k] /\ masked' = TRUE /\ pc' = Vectored(k)
      /\ UNCHANGED <<sp, r, stack, vbar>>
  BY DEF Raise
<1>4. TypeOK
  BY DEF ExceptionInvariant
<1>5. ModeOf[k] \in Modes /\ LrAhead[k] \in Int /\ Vector[k] \in Int
  BY <1>1 DEF ModeOf, Modes, LrAhead, Vector
<1>6. Plus(pc, LrAhead[k]) \in Address
  BY <1>4, <1>5 DEF TypeOK, Plus, Address
<1>7. /\ lr' \in [Modes -> Address] /\ lr'[ModeOf[k]] = Plus(pc, LrAhead[k])
      /\ \A m \in Modes \ {ModeOf[k]} : lr'[m] = lr[m]
  BY <1>2, <1>4, <1>5, <1>6 DEF TypeOK, Address
<1>8. spsr' \in [Modes -> [mode : Modes \union {"illegal"}, masked : BOOLEAN]]
  <2>1. [mode |-> mode, masked |-> masked] \in [mode : Modes \union {"illegal"}, masked : BOOLEAN]
    BY <1>4 DEF TypeOK, Address
  <2>2. QED
    BY <1>2, <1>4, <1>5, <2>1 DEF TypeOK, Address
<1>9. pc' = <<"ivt", Vector[k]>> \/ pc' = <<"low", Vector[k]>>
  BY <1>3 DEF Vectored
<1>10. pc' \in Address
  BY <1>5, <1>9 DEF Address, Routines
<1>11. /\ raised' \in [kind : Kinds \union {"none"}, at : Address, regs : Values, open : BOOLEAN]
       /\ raised'.kind = k /\ raised'.open /\ raised'.at = pc /\ raised'.regs = r
  BY <1>2, <1>4 DEF TypeOK, Address
<1>12. mode' \in Modes \union {"illegal"} /\ masked' \in BOOLEAN
  BY <1>3, <1>5
<1>13. TypeOK'
  BY <1>3, <1>4, <1>7, <1>8, <1>10, <1>11, <1>12 DEF TypeOK, Address
<1>14. Fresh' /\ Entered'
  BY <1>3, <1>7, <1>11 DEF Fresh, Entered, Plus
<1>15. Open'
  <2>1. k # "none"
    BY <1>1
  <2>2. pc'[1] = "low" \/ pc' = <<"ivt", Vector[k]>>
    BY <1>9
  <2>3. QED
    BY <1>3, <1>11, <1>14, <2>1, <2>2 DEF Open
<1>16. ASSUME k \notin {"irq", "dat_abt"}, NEW m \in Modes, m # mode'
       PROVE  Late(lr[m])'
  <2>1. InProgram
    BY <1>16 DEF Raise
  <2>2. Late(lr[m])
    BY <2>1, ProgramIsLate
  <2>3. lr'[m] = lr[m]
    BY <1>3, <1>7, <1>16
  <2>4. QED
    BY <2>2, <2>3 DEF Late
<1>17. QED
  BY <1>11, <1>13, <1>15, <1>16 DEF ExceptionInvariant

\* Each vector holds the address of the handler of its exception.
LEMMA VectorsAgree ==
    ASSUME NEW k \in {"undef", "pref_abt", "dat_abt", "irq"}
    PROVE  ldr_pc(Vector[k]) = <<HandlerOf[k], 1>>
<1>1. /\ ivt[9] = <<"armv7_undef_hand", 1>> /\ ivt[11] = <<"armv7_pref_abt_hand", 1>>
      /\ ivt[12] = <<"armv7_dat_abt_hand", 1>> /\ ivt[14] = <<"armv7_irq_hand", 1>>
  BY DEF ivt
<1>2. Vector[k] + 2 + 6 = CASE k = "undef" -> 9 [] k = "pref_abt" -> 11
                            [] k = "dat_abt" -> 12 [] k = "irq" -> 14
  BY DEF Vector
<1>3. QED
  BY <1>1, <1>2 DEF ldr_pc, HandlerOf

LEMMA LdrPcKeeps ==
    ASSUME ExceptionInvariant, LdrPc
    PROVE  ExceptionInvariant'
<1>1. /\ pc[1] = "ivt" /\ pc' = ldr_pc(pc[2])
      /\ UNCHANGED <<mode, masked, lr, sp, spsr, r, stack, vbar, raised>>
  BY DEF LdrPc, banks
<1>2. raised.open
  <2>1. ASSUME ~raised.open PROVE FALSE
    BY <1>1, <2>1 DEF ExceptionInvariant, Closed, InIrq, Late
  <2>2. QED
    BY <2>1
<1>3. raised.kind \in {"undef", "pref_abt", "dat_abt", "irq"} /\ mode = ModeOf[raised.kind] /\ masked
  BY <1>2, InOpenHandler
<1>4. pc[2] = Vector[raised.kind] /\ Fresh /\ Entered
  <2>1. HandlerOf[raised.kind] # "ivt" /\ CallOf[raised.kind] # "ivt"
    BY <1>3 DEF HandlerOf, CallOf
  <2>2. QED
    BY <1>1, <1>2, <2>1 DEF ExceptionInvariant, Open
<1>5. pc' = <<HandlerOf[raised.kind], 1>>
  BY <1>1, <1>3, <1>4, VectorsAgree
<1>6. TypeOK'
  <2>1. HandlerOf[raised.kind] \in
           {"armv7_irq_hand", "armv7_undef_hand", "armv7_dat_abt_hand", "armv7_pref_abt_hand"}
    BY <1>3 DEF HandlerOf
  <2>2. pc' \in Address
    BY <1>5, <2>1 DEF Address, Routines
  <2>3. QED
    BY <1>1, <2>2 DEF ExceptionInvariant, TypeOK, Address
<1>7. Prologue(pc[2])'
  BY <1>1, <1>4, <1>5 DEF Prologue, Fresh, Entered
<1>8. Open'
  BY <1>1, <1>3, <1>5, <1>7 DEF Open
<1>9. ASSUME raised.kind \notin {"irq", "dat_abt"}, NEW m \in Modes, m # mode
      PROVE  Late(lr[m])'
  BY <1>1, <1>2, <1>9 DEF ExceptionInvariant, Late
<1>10. QED
  BY <1>1, <1>2, <1>6, <1>8, <1>9 DEF ExceptionInvariant

-----------------------------------------------------------------------------

LEMMA InitHolds ==
    ASSUME Init
    PROVE  ExceptionInvariant
<1>1. mode = "SVC" /\ masked \in BOOLEAN /\ pc = <<"program", 1>> /\ vbar = "reset"
  BY DEF Init
<1>2. lr = [m \in Modes |-> <<"program", 2>>] /\ lr \in [Modes -> Address]
  BY DEF Init, Address, Routines
<1>3. sp \in [Modes -> (-PageFrames)..Top]
  <2>1. -SvcFrames \in (-PageFrames)..Top /\ 0 \in (-PageFrames)..Top
    BY ExceptionAssumption DEF Top
  <2>2. QED
    BY <2>1 DEF Init
<1>4. spsr \in [Modes -> [mode : Modes \union {"illegal"}, masked : BOOLEAN]]
  <2>1. JunkStatuses \subseteq [mode : Modes \union {"illegal"}, masked : BOOLEAN]
    BY ExceptionAssumption DEF Modes
  <2>2. QED
    BY <2>1 DEF Init
<1>5. Clobbered \in Values
  BY DEF Clobbered, Values, Address
<1>6. r \in Values /\ stack \in [Frames -> Values]
  BY <1>5 DEF Init
<1>7. raised = [kind |-> "none", at |-> pc, regs |-> r, open |-> FALSE]
  BY DEF Init
<1>8. TypeOK
  BY <1>1, <1>2, <1>3, <1>4, <1>6, <1>7 DEF TypeOK, Address, Modes
<1>9. Closed
  BY <1>1, <1>7 DEF Closed, Late
<1>10. \A m \in Modes : Late(lr[m])
  BY <1>2 DEF Late
<1>11. QED
  BY <1>7, <1>8, <1>9, <1>10 DEF ExceptionInvariant

LEMMA NextKeeps ==
    ASSUME ExceptionInvariant, [Next]_vars
    PROVE  ExceptionInvariant'
<1>1. CASE Instruction
  BY <1>1, LdrSpKeeps, AddSpKeeps, PushKeeps, MovR0Keeps, SubR0Keeps, BlKeeps, PopKeeps,
     CpsKeeps, AddLrKeeps, MovsPcKeeps, CReturnKeeps, ProgramKeeps, LdrPcKeeps DEF Instruction
<1>2. ASSUME NEW k \in Kinds, Raise(k) PROVE ExceptionInvariant'
  BY <1>2, RaiseKeeps
<1>3. CASE UNCHANGED vars
  <2>1. UNCHANGED <<mode, masked, pc, lr, sp, spsr, r, stack, vbar, raised>>
    BY <1>3 DEF vars, banks
  <2>2. TypeOK'
    BY <2>1 DEF ExceptionInvariant, TypeOK, Address
  <2>3. Open = Open'
    BY <2>1 DEF Open, Prologue, Report, Epilogue, Calling, Pushed, Fresh, Entered, AfterCall, Length, Late
  <2>4. Closed = Closed'
    BY <2>1 DEF Closed, InIrq, Late
  <2>5. QED
    BY <2>1, <2>2, <2>3, <2>4 DEF ExceptionInvariant, Late
<1>4. QED
  BY <1>1, <1>2, <1>3 DEF Next, Halted

(* A handler that is open runs in its mode with interrupts masked, and each of *)
(* its instructions finds what those before it have left; one that has         *)
(* returned leads to the program, or past the report of a handler.             *)
THEOREM ExceptionInvariantHolds == Spec => []ExceptionInvariant
<1>1. Init => ExceptionInvariant
  BY InitHolds
<1>2. ExceptionInvariant /\ [Next]_vars => ExceptionInvariant'
  BY NextKeeps
<1>3. QED
  BY <1>1, <1>2, PTL DEF Spec

(* The address dump_undef_except, dump_pref_abt and dump_data_abt print is     *)
(* that of the instruction, whatever was interrupted.                          *)
THEOREM ReportIsAlwaysRight == Spec => []ReportIsRight
<1>1. ExceptionInvariant => ReportIsRight
  <2>1. SUFFICES ASSUME ExceptionInvariant, pc[1] \in DOMAIN Reporter
                 PROVE  raised.kind = Reporter[pc[1]] /\ r.r0 = raised.at
    BY DEF ReportIsRight
  <2>2. pc[1] \in {"dump_undef_except", "dump_pref_abt", "dump_data_abt"}
    BY <2>1 DEF Reporter
  <2>3. raised.open
    BY <2>1, <2>2 DEF ExceptionInvariant, Closed, InIrq, Late
  <2>4. raised.kind \in {"undef", "pref_abt", "dat_abt", "irq"}
    BY <2>1, <2>3, InOpenHandler
  <2>5. HandlerOf[raised.kind] \in
           {"armv7_irq_hand", "armv7_undef_hand", "armv7_dat_abt_hand", "armv7_pref_abt_hand"}
    BY <2>4 DEF HandlerOf
  <2>6. pc = <<CallOf[raised.kind], 1>> /\ Calling
    BY <2>1, <2>2, <2>3, <2>5 DEF ExceptionInvariant, Open
  <2>7. raised.kind # "irq" /\ raised.kind = Reporter[pc[1]]
    BY <2>2, <2>4, <2>6 DEF CallOf, Reporter
  <2>8. QED
    BY <2>6, <2>7 DEF Calling
<1>2. QED
  BY <1>1, ExceptionInvariantHolds, PTL

=============================================================================
