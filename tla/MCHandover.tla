------------------------------ MODULE MCHandover ------------------------------
(* The layout of MCKernelTables, aligned as the theorems ask.                  *)
EXTENDS MCKernelTables

ASSUME HandoverAssumption == LayoutFits /\ SectionsSuffice /\ AlignedLayout
=============================================================================
