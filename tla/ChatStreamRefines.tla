------------------------- MODULE ChatStreamRefines -------------------------
(***************************************************************************)
(* ChatStream implements ApprovalGate: initial states map to initial       *)
(* states, and every step of a turn to a step of the gate or to none.      *)
(***************************************************************************)
EXTENDS ChatStreamProofs

(* The question of stream s is still to be settled.                        *)
IsOpen(s) == pc[s] \in {"asked", "waiting", "decided", "teardown"}

(* What the mapping needs beside the invariants of the properties: only    *)
(* questions that were asked are settled, the open one is not, and a       *)
(* request hits an entry once.                                             *)
OpenInv ==
  /\ \A s \in Stream : \A k \in 1 .. MaxAsks : settled[<<s, k>>] # None => k <= asks[s]
  /\ \A s \in Stream : IsOpen(s) => asks[s] > 0 /\ settled[Current(s)] = None
  /\ \A p \in Post : post[p] # "resolved" => hit[p] = None

LEMMA OpenInit == Init => OpenInv
BY DEF Init, OpenInv, IsOpen, ApprovalId

LEMMA OpenNext == TypeInv /\ OpenInv /\ [Next]_vars => OpenInv'
<1> SUFFICES ASSUME TypeInv, OpenInv, [Next]_vars PROVE OpenInv'
  OBVIOUS
<1> USE BoundsAssumption DEF OpenInv, IsOpen, Current, pendingVars, streamVars, postVars,
            recordVars
<1>1. ASSUME NEW s \in Stream,
             (\E t \in Thread : Accept(s, t)) \/ Start(s) \/ Chunk(s) \/ Fail(s)
               \/ EndRun(s)
      PROVE  OpenInv'
  BY <1>1 DEF Accept, Start, Chunk, Token, SubAgentStart, Update, Interrupt, Fail,
              EndRun, TypeInv, TypeOK
<1>2. ASSUME NEW s \in Stream, Ask(s) PROVE OpenInv'
  BY <1>2 DEF Ask, TypeInv, TypeOK
<1>3. ASSUME NEW s \in Stream,
             Wait(s) \/ Wake(s) \/ Timeout(s) \/ Disconnect(s) \/ Teardown(s)
      PROVE  OpenInv'
  BY <1>3 DEF Wait, Wake, Timeout, Disconnect, Teardown, Live, Over, TypeInv, TypeOK
<1>4. ASSUME NEW s \in Stream, Resume(s) PROVE OpenInv'
  <2>1. /\ pc' = [pc EXCEPT ![s] = "running"]
        /\ \A a \in ApprovalId : a # Current(s) => settled'[a] = settled[a]
        /\ UNCHANGED <<asks, post, hit>>
    BY <1>4 DEF Resume, TypeInv, TypeOK
  <2>2. \A o \in Stream, k \in 1 .. MaxAsks :
          <<o, k>> \in ApprovalId /\ (<<o, k>> = Current(s) <=> o = s /\ k = asks[s])
    BY DEF ApprovalId
  <2>3. \A o \in Stream \ {s} : pc'[o] = pc[o]
    BY <2>1 DEF TypeInv, TypeOK
  <2>4. \A o \in Stream : asks[o] \in 0 .. MaxAsks
    BY DEF TypeInv, TypeOK
  <2>5. pc'[s] = "running"
    BY <2>1 DEF TypeInv, TypeOK
  <2>6. \A o \in Stream, k \in 1 .. MaxAsks : settled'[<<o, k>>] # None => k <= asks'[o]
    BY <2>1, <2>2, <2>4
  <2>7. ASSUME NEW o \in Stream, IsOpen(o)'
        PROVE  asks'[o] > 0 /\ settled'[<<o, asks'[o]>>] = None
    <3>1. o # s /\ IsOpen(o)
      BY <2>3, <2>5, <2>7
    <3>2. asks[o] \in 1 .. MaxAsks /\ settled[<<o, asks[o]>>] = None
      BY <2>4, <3>1
    <3>3. <<o, asks[o]>> \in ApprovalId /\ <<o, asks[o]>> # Current(s)
      BY <2>2, <3>1, <3>2
    <3>4. settled'[<<o, asks[o]>>] = None
      BY <2>1, <3>2, <3>3
    <3> QED
      BY <2>1, <3>2, <3>4
  <2> QED
    BY <2>1, <2>6, <2>7
<1>5. ASSUME NEW s \in Stream, Save(s) \/ SaveFails(s) \/ NothingToSave(s)
      PROVE  OpenInv'
  BY <1>5 DEF Save, SaveFails, NothingToSave, TypeInv, TypeOK
<1>6. CASE Restart
  BY <1>6 DEF Restart, Live, Over, TypeInv, TypeOK
<1>7. ASSUME NEW p \in Post, PostNext(p) PROVE OpenInv'
  BY <1>7 DEF PostNext, SendDecision, Resolve, NotFound, TypeInv, TypeOK
<1>8. CASE UNCHANGED vars
  BY <1>8 DEF vars
<1> QED
  BY <1>1, <1>2, <1>3, <1>4, <1>5, <1>6, <1>7, <1>8 DEF Next, StreamNext, Work
-----------------------------------------------------------------------------
(* The four values of GateOf, without the order of its cases, before and   *)
(* after a step.                                                           *)
GateIs(s, k, g) ==
  /\ settled[<<s, k>>] # None => g = settled[<<s, k>>].decision
  /\ settled[<<s, k>>] = None /\ k > asks[s] => g = "unasked"
  /\ settled[<<s, k>>] = None /\ k = asks[s] /\ IsOpen(s) => g = "asked"
  /\ settled[<<s, k>>] = None /\ ~ k > asks[s] /\ ~ (k = asks[s] /\ IsOpen(s))
       => g = "dropped"

LEMMA GateCases ==
  ASSUME TypeInv, NEW s \in Stream, NEW k \in 1 .. MaxAsks
  PROVE  GateIs(s, k, GateOf(<<s, k>>))
BY DEF GateIs, GateOf, IsOpen, Current, TypeInv, TypeOK

LEMMA GateCasesNext ==
  ASSUME TypeInv', NEW s \in Stream, NEW k \in 1 .. MaxAsks
  PROVE  GateIs(s, k, GateOf(<<s, k>>))'
BY DEF GateIs, GateOf, IsOpen, Current, TypeInv, TypeOK

(* Every approval is one of a stream's.                                    *)
LEMMA Approvals ==
  ASSUME NEW a \in ApprovalId
  PROVE  \E s \in Stream, k \in 1 .. MaxAsks : a = <<s, k>>
BY DEF ApprovalId
-----------------------------------------------------------------------------
(***************************************************************************)
(* The steps.  Most of them only close questions: those of the gate that   *)
(* were asked by a stream that is no longer open are dropped, and there    *)
(* may be none.                                                            *)
(***************************************************************************)
LEMMA ClosingIsDrop ==
  ASSUME TypeInv, TypeInv', OpenInv,
         UNCHANGED <<settled, asks, hit, verdict>>,
         \A s \in Stream : IsOpen(s)' => IsOpen(s)
  PROVE  Gate!Next
<1> DEFINE A == {a \in ApprovalId : GateOf(a) = "asked" /\ ~ IsOpen(a[1])'}
<1>1. ASSUME NEW a \in ApprovalId
      PROVE  GateOf(a)' = IF a \in A THEN "dropped" ELSE GateOf(a)
  <2>1. PICK s \in Stream, k \in 1 .. MaxAsks : a = <<s, k>>
    BY Approvals
  <2>2. GateIs(s, k, GateOf(<<s, k>>)) /\ GateIs(s, k, GateOf(<<s, k>>))'
    BY GateCases, GateCasesNext
  <2>3. a \in A <=> GateOf(<<s, k>>) = "asked" /\ ~ IsOpen(s)'
    BY <2>1
  <2> HIDE DEF A
  <2>4. settled[<<s, k>>] # None => settled[<<s, k>>].decision \in Decision
    BY <2>1 DEF TypeInv, TypeOK, Outcome
  <2>5. GateOf(<<s, k>>)' = IF a \in A THEN "dropped" ELSE GateOf(<<s, k>>)
    BY <2>2, <2>3, <2>4 DEF GateIs, Decision
  <2> QED
    BY <2>1, <2>5
<1>2. [a \in ApprovalId |-> GateOf(a)]'
        = [a \in ApprovalId |-> IF a \in A THEN "dropped"
                                ELSE [b \in ApprovalId |-> GateOf(b)][a]]
  BY <1>1
<1>3. A \in SUBSET ApprovalId /\ \A a \in A : GateOf(a) = "asked"
  OBVIOUS
<1>4. Gate!Drop(A)
  <2> HIDE DEF A
  <2> QED
    BY <1>2, <1>3 DEF Gate!Drop
<1> QED
  BY <1>3, <1>4 DEF Gate!Next

(* A question is new: the stream's earlier ones are settled.               *)
LEMMA AskIsAsk ==
  ASSUME TypeInv, TypeInv', OpenInv, TurnInv, NEW s \in Stream, Ask(s)
  PROVE  Gate!Next
<1> DEFINE new == <<s, asks[s] + 1>>
<1>1. /\ pc[s] = "running" /\ asks[s] < MaxAsks
      /\ asks' = [asks EXCEPT ![s] = @ + 1]
      /\ pc' = [pc EXCEPT ![s] = "asked"]
      /\ UNCHANGED <<settled, hit, verdict>>
  BY DEF Ask, postVars, recordVars
<1>2. asks[s] \in Nat /\ asks[s] + 1 \in 1 .. MaxAsks /\ new \in ApprovalId
  BY <1>1, BoundsAssumption DEF TypeInv, TypeOK, ApprovalId
<1>3. settled[new] = None
  <2>1. settled[<<s, asks[s] + 1>>] # None => asks[s] + 1 <= asks[s]
    BY <1>2 DEF OpenInv
  <2> QED
    BY <1>2, <2>1
<1>4. ASSUME NEW a \in ApprovalId
      PROVE  GateOf(a)' = IF a = new THEN "asked" ELSE GateOf(a)
  <2>1. PICK o \in Stream, k \in 1 .. MaxAsks : a = <<o, k>>
    BY Approvals
  <2>2. GateIs(o, k, GateOf(<<o, k>>)) /\ GateIs(o, k, GateOf(<<o, k>>))'
    BY GateCases, GateCasesNext
  <2>3. CASE a = new
    <3>1. o = s /\ k = asks'[s] /\ IsOpen(s)' /\ settled'[<<s, k>>] = None
      <4>1. o = s /\ k = asks[s] + 1
        BY <2>1, <2>3
      <4>2. asks'[s] = asks[s] + 1 /\ pc'[s] = "asked"
        BY <1>1 DEF TypeInv, TypeOK
      <4> QED
        BY <1>1, <1>3, <4>1, <4>2 DEF IsOpen
    <3> QED
      BY <2>1, <2>2, <2>3, <3>1 DEF GateIs
  <2>4. CASE a # new /\ o = s
    <3>1. k # asks[s] + 1 /\ asks'[s] = asks[s] + 1 /\ ~ IsOpen(s)
      BY <1>1, <2>1, <2>4 DEF TypeInv, TypeOK, IsOpen
    <3>2. k <= asks[s] => settled[<<s, k>>] # None
      BY <1>1, <1>2 DEF TurnInv, EarlierSettled, Settled
    <3> QED
      BY <1>1, <1>2, <2>1, <2>2, <2>4, <3>1, <3>2 DEF GateIs
  <2>5. CASE a # new /\ o # s
    <3>1. asks'[o] = asks[o] /\ (IsOpen(o)' <=> IsOpen(o))
      BY <1>1, <2>5 DEF TypeInv, TypeOK, IsOpen
    <3> QED
      BY <1>1, <2>1, <2>2, <2>5, <3>1 DEF GateIs, TypeInv, TypeOK
  <2> QED
    BY <2>3, <2>4, <2>5
<1>5. GateOf(new) = "unasked"
  <2>1. GateIs(s, asks[s] + 1, GateOf(new))
    BY <1>2, GateCases
  <2> QED
    BY <1>2, <1>3, <2>1 DEF GateIs
<1> HIDE DEF new
<1>6. Gate!Ask(new)
  <2>1. [a \in ApprovalId |-> GateOf(a)]'
          = [[a \in ApprovalId |-> GateOf(a)] EXCEPT ![new] = "asked"]
    BY <1>4
  <2> QED
    BY <1>1, <1>2, <1>5, <2>1 DEF Gate!Ask
<1> QED
  BY <1>2, <1>6 DEF Gate!Next

(* The graph runs on: the open question is settled, with a rejection or    *)
(* with a decision that a request gave for it.                             *)
LEMMA ResumeIsSettle ==
  ASSUME TypeInv, TypeInv', OpenInv, ConsentInv, NEW s \in Stream, Resume(s)
  PROVE  Gate!Next
<1> DEFINE d == Effective(s)
           out == [decision |-> d, sent |-> ResumeCommand(d, interrupt[s]),
                   calls |-> paused[s]]
<1>1. /\ pc[s] = "decided"
      /\ settled' = [settled EXCEPT ![Current(s)] = out]
      /\ pc' = [pc EXCEPT ![s] = "running"]
      /\ UNCHANGED <<asks, hit, verdict>>
  BY DEF Resume, postVars
<1>2. out.decision = d
  OBVIOUS
<1>3. d \in Decision
  BY DEF Effective, Decision, TypeInv, TypeOK
<1>4. out # None
  BY <1>3, ResumeCommandType, NoneAssumption DEF Outcome, TypeInv, TypeOK
<1>5. d = "reject" \/ \E p \in Post : hit[p] = Current(s) /\ verdict[p] = d
  BY DEF Effective, ConsentInv, DecisionBacked, Backed
<1> HIDE DEF out, d
<1>6. Current(s) \in ApprovalId /\ IsOpen(s) /\ settled[Current(s)] = None
  BY <1>1, BoundsAssumption DEF OpenInv, IsOpen, Current, ApprovalId, TypeInv, TypeOK
<1>7. ASSUME NEW a \in ApprovalId
      PROVE  GateOf(a)' = IF a = Current(s) THEN d ELSE GateOf(a)
  <2>1. PICK o \in Stream, k \in 1 .. MaxAsks : a = <<o, k>>
    BY Approvals
  <2>2. GateIs(o, k, GateOf(<<o, k>>)) /\ GateIs(o, k, GateOf(<<o, k>>))'
    BY GateCases, GateCasesNext
  <2>3. CASE a = Current(s)
    <3>1. settled'[a] = out
      BY <1>1, <2>3 DEF TypeInv, TypeOK
    <3> QED
      BY <1>2, <1>4, <2>1, <2>2, <2>3, <3>1 DEF GateIs
  <2>4. CASE a # Current(s)
    <3>1. settled'[a] = settled[a] /\ ~ (o = s /\ k = asks[s])
      BY <1>1, <2>1, <2>4 DEF TypeInv, TypeOK, Current
    <3>2. o # s => (IsOpen(o)' <=> IsOpen(o))
      BY <1>1 DEF TypeInv, TypeOK, IsOpen
    <3> QED
      BY <1>1, <2>1, <2>2, <2>4, <3>1, <3>2 DEF GateIs
  <2> QED
    BY <2>3, <2>4
<1>8. GateOf(Current(s)) = "asked"
  <2>1. asks[s] \in 1 .. MaxAsks
    BY <1>6 DEF Current, ApprovalId
  <2>2. GateIs(s, asks[s], GateOf(Current(s)))
    BY <2>1, GateCases DEF Current
  <2> QED
    BY <1>6, <2>1, <2>2 DEF GateIs, Current
<1>9. Gate!Settle(Current(s), d)
  <2>1. [a \in ApprovalId |-> GateOf(a)]'
          = [[a \in ApprovalId |-> GateOf(a)] EXCEPT ![Current(s)] = d]
    BY <1>7
  <2>2. d \in {"reject"} \cup {verdict[p] : p \in {q \in Post : hit[q] = Current(s)}}
    BY <1>5
  <2> QED
    BY <1>1, <1>6, <1>8, <2>1, <2>2 DEF Gate!Settle
<1> QED
  BY <1>3, <1>6, <1>9 DEF Gate!Next, Gate!Decision, Decision

(* A request that finds an entry acknowledges a decision on the question   *)
(* that is open.                                                           *)
LEMMA ResolveIsAcknowledge ==
  ASSUME TypeInv, TypeInv', OpenInv, EntryIsOpen, NEW p \in Post, Resolve(p)
  PROVE  Gate!Next
<1> DEFINE entry == pending[thread[aim[p][1]]]
           Ack(a) == {verdict[q] : q \in {r \in Post : hit[r] = a}}
<1>1. /\ post[p] = "sent" /\ entry # None
      /\ hit' = [hit EXCEPT ![p] = entry]
      /\ UNCHANGED <<pc, asks, settled, verdict>>
  BY DEF Resolve, streamVars, recordVars
<1>2. aim[p] \in ApprovalId /\ asks[aim[p][1]] > 0 /\ verdict[p] \in Decision
  BY <1>1 DEF TypeInv, Shape
<1>3. aim[p][1] \in Stream
  BY <1>2 DEF ApprovalId
<1>4. thread[aim[p][1]] \in Thread
  BY <1>2, <1>3 DEF TypeInv, TypeOK, Shape
<1>5. PICK s \in Stream : entry = Current(s) /\ pc[s] \in {"asked", "waiting", "teardown"}
  BY <1>1, <1>4 DEF EntryIsOpen
<1>6. entry \in ApprovalId
  BY <1>1, <1>4 DEF TypeInv, TypeOK
<1>7. hit[p] = None
  BY <1>1 DEF OpenInv
<1> HIDE DEF entry
<1>8. GateOf(entry) = "asked"
  <2>1. asks[s] \in 1 .. MaxAsks /\ IsOpen(s) /\ settled[<<s, asks[s]>>] = None
    BY <1>5, <1>6 DEF Current, ApprovalId, OpenInv, IsOpen
  <2>2. GateIs(s, asks[s], GateOf(<<s, asks[s]>>))
    BY <2>1, GateCases
  <2> QED
    BY <1>5, <2>1, <2>2 DEF GateIs, Current
<1>9. \A a \in ApprovalId : GateOf(a)' = GateOf(a)
  BY <1>1 DEF GateOf, Current
<1>10. ASSUME NEW a \in ApprovalId
       PROVE  Ack(a)' = IF a = entry THEN Ack(a) \cup {verdict[p]} ELSE Ack(a)
  <2>1. \A q \in Post : hit'[q] = IF q = p THEN entry ELSE hit[q]
    BY <1>1 DEF TypeInv, TypeOK
  <2>2. Ack(a)' = {verdict[q] : q \in {r \in Post : hit'[r] = a}}
    BY <1>1
  <2>3. hit[p] # a
    BY <1>7, NoneAssumption
  <2>4. CASE a = entry
    <3>1. {r \in Post : hit'[r] = a} = {r \in Post : hit[r] = a} \cup {p}
      BY <2>1, <2>4
    <3> QED
      BY <2>2, <2>4, <3>1
  <2>5. CASE a # entry
    <3>1. {r \in Post : hit'[r] = a} = {r \in Post : hit[r] = a}
      BY <2>1, <2>3, <2>5
    <3> QED
      BY <2>2, <2>5, <3>1
  <2> QED
    BY <2>4, <2>5
<1>11. PICK e \in ApprovalId, v \in Gate!Decision : e = entry /\ v = verdict[p]
  BY <1>2, <1>6 DEF Gate!Decision, Decision
<1>12. Gate!Acknowledge(e, v)
  <2>1. [a \in ApprovalId |-> GateOf(a)]' = [a \in ApprovalId |-> GateOf(a)]
    BY <1>9
  <2>2. [a \in ApprovalId |-> Ack(a)]'
          = [[a \in ApprovalId |-> Ack(a)] EXCEPT ![e] = @ \cup {v}]
    BY <1>10, <1>11
  <2>3. GateOf(e) = "asked"
    BY <1>8, <1>11
  <2> QED
    BY <2>1, <2>2, <2>3 DEF Gate!Acknowledge
<1> QED
  BY <1>12 DEF Gate!Next
-----------------------------------------------------------------------------
LEMMA GateInit == Init => Gate!Init
<1> SUFFICES ASSUME Init PROVE Gate!Init
  OBVIOUS
<1>1. \A a \in ApprovalId : GateOf(a) = "unasked"
  BY DEF Init, GateOf, Current, ApprovalId
<1>2. \A a \in ApprovalId : {q \in Post : hit[q] = a} = {}
  BY NoneAssumption DEF Init
<1> QED
  BY <1>1, <1>2 DEF Gate!Init

GateInv == TypeInv /\ EntryIsOpen /\ ConsentInv /\ TurnInv /\ OpenInv

LEMMA GateStep ==
  GateInv /\ TypeInv' /\ [Next]_vars => [Gate!Next]_(Gate!gateVars)
<1> SUFFICES ASSUME GateInv, TypeInv', [Next]_vars
             PROVE  [Gate!Next]_(Gate!gateVars)
  OBVIOUS
<1> USE DEF GateInv
<1>1. ASSUME NEW s \in Stream,
             (\E t \in Thread : Accept(s, t)) \/ Start(s) \/ Chunk(s) \/ Fail(s)
               \/ EndRun(s)
      PROVE  Gate!Next
  <2>1. /\ UNCHANGED <<settled, asks, hit, verdict>>
        /\ \A o \in Stream : IsOpen(o)' => IsOpen(o)
    BY <1>1 DEF Accept, Start, Chunk, Token, SubAgentStart, Update, Interrupt, Fail,
                EndRun, IsOpen, streamVars, pendingVars, postVars, recordVars,
                TypeInv, TypeOK
  <2> QED
    BY <2>1, ClosingIsDrop
<1>2. ASSUME NEW s \in Stream,
             Wait(s) \/ Wake(s) \/ Timeout(s) \/ Disconnect(s) \/ Teardown(s)
               \/ Save(s) \/ SaveFails(s) \/ NothingToSave(s)
      PROVE  Gate!Next
  <2>1. /\ UNCHANGED <<settled, asks, hit, verdict>>
        /\ \A o \in Stream : IsOpen(o)' => IsOpen(o)
    BY <1>2 DEF Wait, Wake, Timeout, Disconnect, Teardown, Save, SaveFails,
                NothingToSave, IsOpen, streamVars, pendingVars, postVars, recordVars,
                TypeInv, TypeOK
  <2> QED
    BY <2>1, ClosingIsDrop
<1>3. ASSUME Restart PROVE Gate!Next
  <2>1. /\ UNCHANGED <<settled, asks, hit, verdict>>
        /\ \A o \in Stream : IsOpen(o)' => IsOpen(o)
    BY <1>3 DEF Restart, IsOpen, postVars, recordVars
  <2> QED
    BY <2>1, ClosingIsDrop
<1>4. ASSUME NEW s \in Stream, Ask(s) PROVE Gate!Next
  BY <1>4, AskIsAsk
<1>5. ASSUME NEW s \in Stream, Resume(s) PROVE Gate!Next
  BY <1>5, ResumeIsSettle
<1>6. ASSUME NEW p \in Post, Resolve(p) PROVE Gate!Next
  BY <1>6, ResolveIsAcknowledge
<1>7. ASSUME NEW p \in Post, NEW s \in Stream, NEW d \in Decision,
             SendDecision(p, s, d)
      PROVE  UNCHANGED Gate!gateVars
  <2>1. /\ post[p] = "unsent"
        /\ verdict' = [verdict EXCEPT ![p] = d]
        /\ UNCHANGED <<pc, asks, settled, hit>>
    BY <1>7 DEF SendDecision, streamVars, recordVars
  <2>2. hit[p] = None
    BY <2>1 DEF OpenInv
  <2>3. \A a \in ApprovalId : GateOf(a)' = GateOf(a)
    BY <2>1 DEF GateOf, Current
  <2>4. ASSUME NEW a \in ApprovalId
        PROVE  {verdict'[q] : q \in {r \in Post : hit'[r] = a}}
                 = {verdict[q] : q \in {r \in Post : hit[r] = a}}
    <3>1. p \notin {r \in Post : hit[r] = a}
      BY <2>2, NoneAssumption
    <3>2. \A q \in {r \in Post : hit[r] = a} : verdict'[q] = verdict[q]
      BY <2>1, <3>1 DEF TypeInv, TypeOK
    <3> QED
      BY <2>1, <3>2
  <2> QED
    BY <2>3, <2>4 DEF Gate!gateVars
<1>8. ASSUME (\E p \in Post : NotFound(p)) \/ UNCHANGED vars
      PROVE  UNCHANGED Gate!gateVars
  <2>1. UNCHANGED <<pc, asks, settled, hit, verdict>>
    BY <1>8 DEF NotFound, vars, streamVars, postVars, recordVars
  <2> QED
    BY <2>1 DEF Gate!gateVars, GateOf, Current
<1> QED
  BY <1>1, <1>2, <1>3, <1>4, <1>5, <1>6, <1>7, <1>8
     DEF Next, StreamNext, Work, PostNext

(* The turn keeps the promise of ApprovalGate: every question is asked     *)
(* once, decisions are acknowledged while it is open, and it is settled    *)
(* with an acknowledged decision or a rejection, or dropped.               *)
THEOREM TurnsImplementGate == Spec => ImplementsGate
BY TypeInit, TypeNext, EntryInit, EntryNext, ConsentInit, ConsentNext, TurnInit,
   TurnNext, OpenInit, OpenNext, GateInit, GateStep, PTL
   DEF Spec, ImplementsGate, Gate!Spec, GateInv
=============================================================================
