----------------------------- MODULE ProcessMC -----------------------------
(* Process for TLC: the requests are a plain one, and one that names an    *)
(* assistant and a format.                                                 *)
EXTENDS Process

MCRequest ==
  {[type |-> "none", format |-> "none", assistant |-> 0],
   [type |-> "none", format |-> "report", assistant |-> 3]}
=============================================================================
