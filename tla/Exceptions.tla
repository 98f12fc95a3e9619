------------------------------- MODULE Exceptions -------------------------------
(* Exceptions: the vectors of armv7_ivt.c, the handlers of armv7_ivt_hand.s,   *)
(* one instruction per step, and the banked registers of the CPU under them.   *)
(*                                                                             *)
(* An address is a routine and an instruction in it, a register of the program *)
(* holds a value <<"value", n>>.  r0-r3 are r0 and the rest.  The stack is     *)
(* counted in frames of four words from k_stack, PageFrames to the page.       *)
(* Handlers and C functions raise no exception of their own (what they touch   *)
(* is mapped 1:1); the bodies of the C functions are one step.                 *)
EXTENDS Integers, Sequences

CONSTANTS
    Kinds,          \* the exceptions that are raised
    Last,           \* the program's last instruction, where it hangs
    Installs,       \* the instruction of the program that is install_ivt
    PageFrames,     \* frames in 0x1000 bytes
    SvcFrames,      \* frames on the program's stack when this begins
    JunkStatuses    \* what a saved status may be at reset

ASSUME ExceptionAssumption ==
    /\ Kinds \subseteq {"undef", "pref_abt", "dat_abt", "irq"}
    /\ Last \in Nat /\ Installs \in 1..Last
    /\ PageFrames \in Nat \ {0} /\ SvcFrames \in 1..PageFrames
    /\ JunkStatuses \subseteq [mode : {"SVC", "UND", "ABT", "IRQ", "illegal"}, masked : BOOLEAN]

VARIABLES
    mode, masked,       \* the mode bits of CPSR, and its I bit
    pc,                 \* the next instruction
    lr, sp, spsr,       \* banked, by mode
    r,                  \* r0-r3
    stack,              \* memory around k_stack
    vbar,               \* whether install_ivt has been called
    raised              \* history: the last exception, what it interrupted, and
                        \* whether its handler has not returned yet

banks == <<lr, sp, spsr>>
vars  == <<mode, masked, pc, banks, r, stack, vbar, raised>>

-----------------------------------------------------------------------------
(* The CPU.                                                                    *)

Modes   == {"SVC", "UND", "ABT", "IRQ"}
ModeOf  == [undef |-> "UND", pref_abt |-> "ABT", dat_abt |-> "ABT", irq |-> "IRQ"]
Vector  == [undef |-> 1, pref_abt |-> 3, dat_abt |-> 4, irq |-> 6]

\* How far behind the instruction the link register points on entry.
LrAhead == [undef |-> 1, pref_abt |-> 1, dat_abt |-> 2, irq |-> 1]

Plus(a, n) == <<a[1], a[2] + n>>

\* Frames from the bottom of the program's stack to the top of the handlers'.
Top    == 3 * PageFrames
Frames == (-PageFrames)..(Top - 1)

\* The second half of the table; the vectors without a handler hold low addresses.
ivt ==
    [i \in 8..15 |->
        CASE i = 9  -> <<"armv7_undef_hand", 1>>
          [] i = 11 -> <<"armv7_pref_abt_hand", 1>>
          [] i = 12 -> <<"armv7_dat_abt_hand", 1>>
          [] i = 14 -> <<"armv7_irq_hand", 1>>
          [] OTHER  -> <<"low", 0>>]

\* ldr pc, [pc, #0x18] in vector i: pc reads two words ahead, 0x18 is six more.
ldr_pc(i) == ivt[i + 2 + 6]

-----------------------------------------------------------------------------
(* The handlers.                                                               *)

armv7_irq_hand  ==
    <<<<"ldr sp", 0>>, <<"add sp", 2>>, <<"push", 4>>, <<"bl", "c_irq_hand">>, <<"pop", 4>>,
      <<"movs pc", 1>>>>

armv7_undef_hand ==
    <<<<"ldr sp", 0>>, <<"add sp", 3>>, <<"push", 4>>, <<"mov r0", 0>>, <<"sub r0", 1>>,
      <<"bl", "dump_undef_except">>, <<"pop", 4>>, <<"cps", "UND">>, <<"add lr", 1>>,
      <<"movs pc", 0>>>>

\* A mutant: the address is taken for that of the next instruction.
armv7_dat_abt_hand_Ahead ==
    <<<<"ldr sp", 0>>, <<"add sp", 3>>, <<"push", 4>>, <<"mov r0", 0>>, <<"sub r0", 1>>,
      <<"bl", "dump_data_abt">>, <<"pop", 4>>, <<"movs pc", 1>>>>

armv7_dat_abt_hand ==
    <<<<"ldr sp", 0>>, <<"add sp", 3>>, <<"push", 4>>, <<"mov r0", 0>>, <<"sub r0", 2>>,
      <<"bl", "dump_data_abt">>, <<"pop", 4>>, <<"movs pc", 1>>>>

\* A mutant: the return of the data abort, which here leads back to the bl.
armv7_pref_abt_hand_Copied ==
    <<<<"ldr sp", 0>>, <<"add sp", 3>>, <<"push", 4>>, <<"mov r0", 0>>, <<"sub r0", 1>>,
      <<"bl", "dump_pref_abt">>, <<"pop", 4>>, <<"movs pc", 1>>>>

armv7_pref_abt_hand ==
    <<<<"ldr sp", 0>>, <<"add sp", 3>>, <<"push", 4>>, <<"mov r0", 0>>, <<"sub r0", 1>>,
      <<"bl", "dump_pref_abt">>, <<"pop", 4>>, <<"movs pc", 0>>>>

Text ==
    [armv7_irq_hand |-> armv7_irq_hand, armv7_undef_hand |-> armv7_undef_hand,
     armv7_dat_abt_hand |-> armv7_dat_abt_hand, armv7_pref_abt_hand |-> armv7_pref_abt_hand]
Handlers == DOMAIN Text

InText   == pc[1] \in Handlers /\ pc[2] \in DOMAIN Text[pc[1]]
Op(name) == InText /\ mode \in Modes /\ Text[pc[1]][pc[2]][1] = name
Arg      == Text[pc[1]][pc[2]][2]
Fetch    == pc' = Plus(pc, 1)

LdrSp ==
    /\ Op("ldr sp") /\ Fetch
    /\ sp' = [sp EXCEPT ![mode] = 0]
    /\ UNCHANGED <<mode, masked, lr, spsr, r, stack, vbar, raised>>

AddSp ==
    /\ Op("add sp") /\ Fetch
    /\ sp' = [sp EXCEPT ![mode] = @ + Arg * PageFrames]
    /\ UNCHANGED <<mode, masked, lr, spsr, r, stack, vbar, raised>>

Push ==
    /\ Op("push") /\ Fetch
    /\ sp' = [sp EXCEPT ![mode] = @ - 1]
    /\ stack' = [stack EXCEPT ![sp[mode] - 1] = r]
    /\ UNCHANGED <<mode, masked, lr, spsr, r, vbar, raised>>

MovR0 ==
    /\ Op("mov r0") /\ Fetch
    /\ r' = [r EXCEPT !.r0 = lr[mode]]
    /\ UNCHANGED <<mode, masked, banks, stack, vbar, raised>>

SubR0 ==
    /\ Op("sub r0") /\ Fetch
    /\ r' = [r EXCEPT !.r0 = Plus(@, -Arg)]
    /\ UNCHANGED <<mode, masked, banks, stack, vbar, raised>>

Bl ==
    /\ Op("bl")
    /\ lr' = [lr EXCEPT ![mode] = Plus(pc, 1)]
    /\ pc' = <<Arg, 1>>
    /\ UNCHANGED <<mode, masked, sp, spsr, r, stack, vbar, raised>>

\* Above the handlers' stacks the memory is not modelled: the last frame stands for it.
Pop ==
    /\ Op("pop") /\ Fetch
    /\ r' = stack[IF sp[mode] < Top THEN sp[mode] ELSE Top - 1]
    /\ sp' = [sp EXCEPT ![mode] = IF @ < Top THEN @ + 1 ELSE @]
    /\ UNCHANGED <<mode, masked, lr, spsr, stack, vbar, raised>>

Cps ==
    /\ Op("cps") /\ Fetch
    /\ mode' = Arg
    /\ UNCHANGED <<masked, banks, r, stack, vbar, raised>>

AddLr ==
    /\ Op("add lr") /\ Fetch
    /\ lr' = [lr EXCEPT ![mode] = Plus(@, Arg)]
    /\ UNCHANGED <<mode, masked, sp, spsr, r, stack, vbar, raised>>

\* movs pc, lr and subs pc, lr, #n: the saved status comes back, too.
MovsPc ==
    /\ Op("movs pc")
    /\ mode' = spsr[mode].mode /\ masked' = spsr[mode].masked
    /\ pc' = Plus(lr[mode], -Arg)
    /\ raised' = [raised EXCEPT !.open = FALSE]
    /\ UNCHANGED <<banks, r, stack, vbar>>

-----------------------------------------------------------------------------
(* The C functions.                                                            *)

Clobbered == [r0 |-> <<"value", 0>>, rest |-> <<"value", 0>>]

\* dump_data_abt has its while(1).
Returning == {"dump_undef_except", "dump_pref_abt", "c_irq_hand"}

\* c_irq_hand is empty, the others print.
CReturn ==
    /\ pc[1] \in Returning /\ mode \in Modes
    /\ pc' = lr[mode]
    /\ r' = IF pc[1] = "c_irq_hand" THEN r ELSE Clobbered
    /\ UNCHANGED <<mode, masked, banks, stack, vbar, raised>>

-----------------------------------------------------------------------------
(* The program, and its exceptions.                                            *)

InProgram == pc[1] = "program" /\ pc[2] \in 1..Last /\ mode \in Modes

\* An instruction computes, or is a call that has come back; one is install_ivt.
Program ==
    /\ InProgram /\ pc[2] < Last
    /\ Fetch
    /\ r' = [r0 |-> <<"value", pc[2]>>, rest |-> <<"value", pc[2]>>]
    /\ lr' \in {lr, [lr EXCEPT ![mode] = Plus(pc, 1)]}
    /\ vbar' = IF pc[2] = Installs THEN "ivt" ELSE vbar
    /\ UNCHANGED <<mode, masked, sp, spsr, stack, raised>>

\* Before install_ivt, the vectors are the boot loader's.
Vectored(k) == IF vbar = "ivt" THEN <<"ivt", Vector[k]>> ELSE <<"low", Vector[k]>>

\* A mode that does not exist, or code that is not the kernel's: past the end of
\* a routine, or at the low addresses of the vectors nobody has set.
Lost ==
    \/ mode \notin Modes \/ pc[1] = "low"
    \/ pc[1] = "program" /\ pc[2] \notin 1..Last
    \/ pc[1] \in Handlers /\ ~InText

\* Nothing in the code sets or clears the mask: the program has the one the boot
\* loader left, and only an exception sets it.
Raise(k) ==
    /\ IF k = "irq" THEN ~masked /\ ~Lost ELSE InProgram
    /\ raised' = [kind |-> k, at |-> pc, regs |-> r, open |-> TRUE]
    /\ lr' = [lr EXCEPT ![ModeOf[k]] = Plus(pc, LrAhead[k])]
    /\ spsr' = [spsr EXCEPT ![ModeOf[k]] = [mode |-> mode, masked |-> masked]]
    /\ mode' = ModeOf[k] /\ masked' = TRUE
    /\ pc' = Vectored(k)
    /\ UNCHANGED <<sp, r, stack, vbar>>

LdrPc ==
    /\ pc[1] = "ivt"
    /\ pc' = ldr_pc(pc[2])
    /\ UNCHANGED <<mode, masked, banks, r, stack, vbar, raised>>

\* `hang' of vexpress_boot.s, and while(1) of dump_data_abt.
Halted ==
    /\ Lost \/ pc = <<"program", Last>> \/ pc[1] = "dump_data_abt"
    /\ UNCHANGED vars

-----------------------------------------------------------------------------

Init ==
    /\ mode = "SVC" /\ masked \in BOOLEAN /\ pc = <<"program", 1>>
    /\ lr = [m \in Modes |-> <<"program", 2>>]
    /\ sp = [m \in Modes |-> IF m = "SVC" THEN -SvcFrames ELSE 0]
    /\ \E s \in JunkStatuses : spsr = [m \in Modes |-> s]
    /\ r = Clobbered /\ stack = [f \in Frames |-> Clobbered]
    /\ vbar = "reset"
    /\ raised = [kind |-> "none", at |-> pc, regs |-> r, open |-> FALSE]

Instruction ==
    \/ LdrSp \/ AddSp \/ Push \/ MovR0 \/ SubR0 \/ Bl \/ Pop \/ Cps \/ AddLr \/ MovsPc
    \/ CReturn \/ Program \/ LdrPc

Next == Instruction \/ (\E k \in Kinds : Raise(k)) \/ Halted

Spec == Init /\ [][Next]_vars

\* The CPU goes on; no exception need ever be raised.
FairSpec == Spec /\ WF_vars(Instruction)
=============================================================================
