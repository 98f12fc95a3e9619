-------------------------- MODULE ExceptionProperties --------------------------
(* What must hold of Exceptions.                                               *)
EXTENDS Exceptions

Routines == {"program", "ivt", "low", "armv7_irq_hand", "armv7_undef_hand", "armv7_dat_abt_hand",
             "armv7_pref_abt_hand", "c_irq_hand", "dump_undef_except", "dump_data_abt", "dump_pref_abt"}
Address  == (Routines \union {"value"}) \X Int
Values   == [r0 : Address, rest : Address]

(* The variables keep their types.                                             *)
TypeOK ==
    /\ mode \in Modes \union {"illegal"} /\ masked \in BOOLEAN /\ pc \in Address
    /\ lr \in [Modes -> Address] /\ sp \in [Modes -> (-PageFrames)..Top]
    /\ spsr \in [Modes -> [mode : Modes \union {"illegal"}, masked : BOOLEAN]]
    /\ r \in Values /\ stack \in [Frames -> Values]
    /\ vbar \in {"reset", "ivt"}
    /\ raised \in [kind : Kinds \union {"none"}, at : Address, regs : Values, open : BOOLEAN]

(* The address the kernel prints is that of the instruction that raised the    *)
(* exception, and the function that prints it is the one for its kind: the     *)
(* vector, the ldr in it, the offset of the link register on entry and the sub *)
(* of the handler agree.                                                       *)
Reporter == [dump_undef_except |-> "undef", dump_pref_abt |-> "pref_abt", dump_data_abt |-> "dat_abt"]
ReportIsRight ==
    pc[1] \in DOMAIN Reporter => raised.kind = Reporter[pc[1]] /\ r.r0 = raised.at

-----------------------------------------------------------------------------
(* What makes it inductive.  While a handler is open it runs in                *)
(* its own mode with interrupts masked, and every instruction of it relies on  *)
(* what those before it have done.  Afterwards the CPU is in the program or    *)
(* late in a handler, past the instructions that report.                       *)

HandlerOf == [undef |-> "armv7_undef_hand", pref_abt |-> "armv7_pref_abt_hand",
              dat_abt |-> "armv7_dat_abt_hand", irq |-> "armv7_irq_hand"]
CallOf    == [undef |-> "dump_undef_except", pref_abt |-> "dump_pref_abt",
              dat_abt |-> "dump_data_abt", irq |-> "c_irq_hand"]
Pages     == [undef |-> 3, pref_abt |-> 3, dat_abt |-> 3, irq |-> 2]

Fresh   == r = raised.regs
Entered == lr[mode] = Plus(raised.at, LrAhead[raised.kind])
Pushed  == sp[mode] = Pages[raised.kind] * PageFrames - 1 /\ stack[sp[mode]] = raised.regs

AfterCall == IF raised.kind = "irq" THEN 5 ELSE 7
Length    == IF raised.kind = "undef" THEN 10 ELSE AfterCall + 1

\* The program, or a handler of the exceptions that return, behind its report.
Late(a) ==
    \/ a[1] = "program"
    \/ a[1] \in {"armv7_undef_hand", "armv7_pref_abt_hand"} /\ a[2] >= 7

\* At instruction n of the handler; the interrupt handler reports nothing.
Prologue(n) ==
    /\ n \in 1..4 /\ Entered
    /\ (n < 4 \/ raised.kind = "irq") => Fresh
    /\ n = 2 => sp[mode] = 0
    /\ n = 3 => sp[mode] = Pages[raised.kind] * PageFrames
    /\ n = 4 => Pushed
Report(n) ==
    /\ n \in 5..6 /\ raised.kind # "irq" /\ Pushed
    /\ n = 5 => r.r0 = Plus(raised.at, LrAhead[raised.kind])
    /\ n = 6 => r.r0 = raised.at
Calling ==
    /\ Pushed /\ lr[mode] = <<HandlerOf[raised.kind], AfterCall>>
    /\ IF raised.kind = "irq" THEN Fresh ELSE r.r0 = raised.at
Epilogue(n) ==
    /\ n \in AfterCall..Length /\ raised.kind # "dat_abt"
    /\ IF n = AfterCall THEN Pushed ELSE Fresh
    /\ IF raised.kind = "irq" THEN lr[mode] = <<"armv7_irq_hand", 5>> ELSE Late(lr[mode])

Open ==
    /\ raised.kind # "none" /\ mode = ModeOf[raised.kind] /\ masked
    /\ \/ pc[1] = "low"
       \/ pc = <<"ivt", Vector[raised.kind]>> /\ Fresh /\ Entered
       \/ pc[1] = HandlerOf[raised.kind] /\ (Prologue(pc[2]) \/ Report(pc[2]) \/ Epilogue(pc[2]))
       \/ pc = <<CallOf[raised.kind], 1>> /\ Calling

\* The interrupt handler comes back to its bl, for ever (where armv7_ivt_hand.s:42
\* says "return to before interrupt": ReturnsAfter, below, has the same disagreement
\* for the prefetch abort).
InIrq ==
    \/ pc = <<"armv7_irq_hand", 4>>
    \/ /\ pc \in {<<"armv7_irq_hand", 5>>, <<"armv7_irq_hand", 6>>, <<"c_irq_hand", 1>>}
       /\ lr[mode] = <<"armv7_irq_hand", 5>>

Closed ==
    /\ raised.kind # "dat_abt"
    /\ IF raised.kind = "irq" THEN InIrq ELSE Late(pc)

ExceptionInvariant ==
    /\ TypeOK
    /\ IF raised.open THEN Open ELSE Closed
    /\ raised.kind \notin {"irq", "dat_abt"} =>
          \A m \in Modes : (raised.open /\ m = mode) \/ Late(lr[m])

-----------------------------------------------------------------------------

(* The handlers of an undefined instruction and of a prefetch abort come back  *)
(* to the program unless an interrupt gets in between, if the status they      *)
(* restore in the end, SPSR_svc, is that of the kernel: nothing has set it.    *)
InHandler      == pc[1] \in {"armv7_undef_hand", "armv7_pref_abt_hand"} /\ spsr["SVC"].mode = "SVC"
HandlersFinish == InHandler ~> pc[1] \in {"program", "armv7_irq_hand"}

(* armv7_ivt_hand.s:95 "returns after": the handler of the prefetch abort      *)
(* returns to the instruction after the one that was aborted.                  *)
ReturnsAfter ==
    [][(Op("movs pc") /\ raised.open /\ raised.kind = "pref_abt")
          => pc' = Plus(raised.at, 1)]_vars
=============================================================================
