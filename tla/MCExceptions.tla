----------------------------- MODULE MCExceptions -----------------------------
(* A short program that every kind of exception interrupts everywhere.         *)
EXTENDS ExceptionProperties

MCStatuses == [mode : Modes \union {"illegal"}, masked : BOOLEAN]
=============================================================================
