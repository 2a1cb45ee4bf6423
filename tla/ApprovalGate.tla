---------------------------- MODULE ApprovalGate ----------------------------
(***************************************************************************)
(* What the human-in-the-loop flow promises about every tool call that     *)
(* needs a decision, without threads, streams, requests or timers: a call  *)
(* is asked about, decisions on it are acknowledged, and it is settled     *)
(* once or dropped.  It runs, as proposed or edited, only with a decision  *)
(* that was acknowledged while it was open and written to its entry,       *)
(* whichever question the user had in view; it may be rejected at any      *)
(* time.                                                                   *)
(***************************************************************************)
CONSTANTS Approval,     \* the questions that may be put to the user
          Allowing,     \* decisions that let the call run
          Refusing      \* decisions that keep it from running

VARIABLES gate,         \* [Approval -> {"unasked", "asked", "dropped"} or a decision]
          acked         \* [Approval -> the decisions acknowledged so far]

gateVars == <<gate, acked>>

Decision == Allowing \cup Refusing

Init ==
  /\ gate = [a \in Approval |-> "unasked"]
  /\ acked = [a \in Approval |-> {}]

Ask(a) ==
  /\ gate[a] = "unasked"
  /\ gate' = [gate EXCEPT ![a] = "asked"]
  /\ UNCHANGED acked

Acknowledge(a, d) ==
  /\ gate[a] = "asked"
  /\ acked' = [acked EXCEPT ![a] = @ \cup {d}]
  /\ UNCHANGED gate

Settle(a, d) ==
  /\ gate[a] = "asked"
  /\ d \in Refusing \cup acked[a]
  /\ gate' = [gate EXCEPT ![a] = d]
  /\ UNCHANGED acked

(* The stream that asked is gone: its questions stay unanswered for ever.  *)
Drop(A) ==
  /\ \A a \in A : gate[a] = "asked"
  /\ gate' = [a \in Approval |-> IF a \in A THEN "dropped" ELSE gate[a]]
  /\ UNCHANGED acked

Next ==
  \/ \E a \in Approval : Ask(a)
  \/ \E a \in Approval, d \in Decision : Acknowledge(a, d) \/ Settle(a, d)
  \/ \E A \in SUBSET Approval : Drop(A)

Spec == Init /\ [][Next]_gateVars
=============================================================================
