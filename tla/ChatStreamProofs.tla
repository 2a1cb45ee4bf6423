-------------------------- MODULE ChatStreamProofs --------------------------
(***************************************************************************)
(* Proofs about ChatStream, for any streams, threads, requests, subagents, *)
(* and bounds.                                                             *)
(***************************************************************************)
EXTENDS ChatStream, TLAPS

(* A chunk that reports interrupts.                                        *)
Interrupts(s) == \E calls \in Pause : \E i \in 1 .. Len(calls) : Interrupt(s, calls, i)

(* What TypeOK needs of the other variables to be preserved: a stream that *)
(* was accepted has a thread, only streams that started have asked, and a  *)
(* request that was sent names an approval that was shown.                 *)
Shape ==
  /\ \A s \in Stream : pc[s] # "idle" => thread[s] \in Thread
  /\ \A s \in Stream : pc[s] \in {"idle", "accepted"} => asks[s] = 0
  /\ \A p \in Post : post[p] # "unsent" =>
       /\ aim[p] \in ApprovalId
       /\ asks[aim[p][1]] > 0
       /\ aim[p][2] <= asks[aim[p][1]]
       /\ verdict[p] \in Decision

TypeInv == TypeOK /\ Shape

LEMMA ResumeCommandType ==
  ASSUME NEW d \in Decision, NEW n \in 0 .. MaxCalls
  PROVE  ResumeCommand(d, n) \in UNION {[1 .. k -> Decision] : k \in 0 .. MaxCalls}
<1>1. ResumeCommand(d, n) \in [1 .. n -> Decision]
  BY DEF ResumeCommand, Decision
<1> QED
  BY <1>1

LEMMA PauseType ==
  ASSUME NEW calls \in Pause
  PROVE  /\ calls \in Seq(1 .. MaxCalls)
         /\ DOMAIN calls = 1 .. Len(calls)
         /\ \A i \in 1 .. Len(calls) : calls[i] \in 1 .. MaxCalls
<1>1. PICK n \in 0 .. MaxPauses : calls \in [1 .. n -> 1 .. MaxCalls]
  BY DEF Pause
<1>2. n \in Nat /\ calls \in Seq(1 .. MaxCalls)
  BY <1>1, BoundsAssumption
<1>3. DOMAIN calls = 1 .. n
  BY <1>1
<1>4. Len(calls) = n
  BY <1>2, <1>3
<1> QED
  BY <1>1, <1>2, <1>3, <1>4

LEMMA NoPause == << >> \in Pause
<1>1. << >> \in [1 .. 0 -> 1 .. MaxCalls]
  OBVIOUS
<1> QED
  BY <1>1, BoundsAssumption DEF Pause

LEMMA TypeInit == Init => TypeInv
BY BoundsAssumption, NoPause DEF Init, TypeInv, TypeOK, Shape, StreamState, PostState

LEMMA TypeNext == TypeInv /\ [Next]_vars => TypeInv'
<1> SUFFICES ASSUME TypeInv, [Next]_vars PROVE TypeInv'
  OBVIOUS
<1> USE BoundsAssumption
    DEF TypeInv, TypeOK, Shape, StreamState, PostState, streamVars, pendingVars,
        postVars, recordVars
<1>1. ASSUME NEW s \in Stream, NEW t \in Thread, Accept(s, t) PROVE TypeInv'
  BY <1>1 DEF Accept
<1>2. ASSUME NEW s \in Stream, Start(s) PROVE TypeInv'
  BY <1>2 DEF Start
<1>3. ASSUME NEW s \in Stream, Token(s) PROVE TypeInv'
  BY <1>3 DEF Token
<1>4. ASSUME NEW s \in Stream, NEW a \in SubAgent, SubAgentStart(s, a) PROVE TypeInv'
  BY <1>4 DEF SubAgentStart
<1>5. ASSUME NEW s \in Stream, Update(s) PROVE TypeInv'
  BY <1>5 DEF Update
<1>6. ASSUME NEW s \in Stream, Interrupts(s) PROVE TypeInv'
  <2>0. PICK calls \in Pause : \E i \in 1 .. Len(calls) : Interrupt(s, calls, i)
    BY <1>6 DEF Interrupts
  <2>1. PICK i \in 1 .. Len(calls) : Interrupt(s, calls, i)
    BY <2>0
  <2>2. calls[i] \in 1 .. MaxCalls
    BY PauseType
  <2> QED
    BY <2>1, <2>2 DEF Interrupt
<1>7. ASSUME NEW s \in Stream, Fail(s) PROVE TypeInv'
  BY <1>7 DEF Fail
<1>8. ASSUME NEW s \in Stream, EndRun(s) PROVE TypeInv'
  BY <1>8 DEF EndRun
<1>9. ASSUME NEW s \in Stream, Ask(s) PROVE TypeInv'
  BY <1>9 DEF Ask, ApprovalId
<1>10. ASSUME NEW s \in Stream, Wait(s) PROVE TypeInv'
  BY <1>10 DEF Wait
<1>11. ASSUME NEW s \in Stream, Wake(s) PROVE TypeInv'
  BY <1>11 DEF Wake, Popped
<1>12. ASSUME NEW s \in Stream, Timeout(s) PROVE TypeInv'
  BY <1>12 DEF Timeout, Popped, TimeoutDecision, Decision
<1>13. ASSUME NEW s \in Stream, Resume(s) PROVE TypeInv'
  <2> DEFINE out == [decision |-> Effective(s),
                     sent |-> ResumeCommand(Effective(s), interrupt[s]),
                     calls |-> paused[s]]
  <2>1. Effective(s) \in Decision
    BY DEF Effective, Decision
  <2>2. out \in Outcome
    BY <2>1, ResumeCommandType DEF Outcome
  <2>3. settled' = [settled EXCEPT ![Current(s)] = out]
    BY <1>13 DEF Resume
  <2>4. settled' \in [ApprovalId -> Outcome \cup {None}]
    BY <2>2, <2>3
  <2> HIDE DEF out
  <2> QED
    BY <1>13, <2>4, NoPause DEF Resume
<1>14. ASSUME NEW s \in Stream, Save(s) PROVE TypeInv'
  BY <1>14 DEF Save
<1>15. ASSUME NEW s \in Stream, SaveFails(s) PROVE TypeInv'
  BY <1>15 DEF SaveFails
<1>16. ASSUME NEW s \in Stream, NothingToSave(s) PROVE TypeInv'
  BY <1>16 DEF NothingToSave
<1>17. ASSUME NEW s \in Stream, Disconnect(s) PROVE TypeInv'
  BY <1>17 DEF Disconnect, Live, Over
<1>18. ASSUME NEW s \in Stream, Teardown(s) PROVE TypeInv'
  BY <1>18 DEF Teardown, Popped
<1>19. ASSUME Restart PROVE TypeInv'
  BY <1>19 DEF Restart, Live, Over
<1>20. ASSUME NEW p \in Post, NEW s \in Stream, NEW d \in Decision,
              SendDecision(p, s, d)
       PROVE  TypeInv'
  <2>1. asks[s] \in 1 .. MaxAsks
    BY <1>20 DEF SendDecision
  <2>2. Current(s) \in ApprovalId /\ Current(s)[1] = s /\ Current(s)[2] = asks[s]
    BY <2>1 DEF Current, ApprovalId
  <2>3. /\ post' = [post EXCEPT ![p] = "sent"]
        /\ aim' = [aim EXCEPT ![p] = Current(s)]
        /\ verdict' = [verdict EXCEPT ![p] = d]
        /\ UNCHANGED <<streamVars, pendingVars, paused, hit, recordVars>>
    BY <1>20 DEF SendDecision
  <2>4. TypeOK'
    BY <2>2, <2>3
  <2>5. ASSUME NEW q \in Post, post'[q] # "unsent"
        PROVE  /\ aim'[q] \in ApprovalId /\ asks[aim'[q][1]] > 0
               /\ aim'[q][2] <= asks[aim'[q][1]] /\ verdict'[q] \in Decision
    <3>1. CASE q = p
      BY <2>1, <2>2, <2>3, <3>1
    <3>2. CASE q # p
      BY <2>3, <2>5, <3>2
    <3> QED
      BY <3>1, <3>2
  <2> QED
    BY <2>3, <2>4, <2>5
<1>21. ASSUME NEW p \in Post, Resolve(p) PROVE TypeInv'
  <2> DEFINE entry == pending[thread[aim[p][1]]]
  <2>1. aim[p] \in ApprovalId /\ verdict[p] \in Decision /\ asks[aim[p][1]] > 0
    BY <1>21 DEF Resolve
  <2>2. aim[p][1] \in Stream
    BY <2>1 DEF ApprovalId
  <2>3. thread[aim[p][1]] \in Thread
    BY <2>1, <2>2
  <2>4. entry \in ApprovalId
    BY <1>21, <2>3 DEF Resolve
  <2>5. decision' \in [Stream -> Decision \cup {None}]
    BY <1>21, <2>1 DEF Resolve
  <2>6. event' \in [Stream -> BOOLEAN]
    BY <1>21 DEF Resolve, Signalled
  <2>7. hit' \in [Post -> ApprovalId \cup {None}]
    BY <1>21, <2>4 DEF Resolve
  <2> HIDE DEF entry
  <2> QED
    BY <1>21, <2>5, <2>6, <2>7 DEF Resolve
<1>22. ASSUME NEW p \in Post, NotFound(p) PROVE TypeInv'
  BY <1>22 DEF NotFound
<1>23. CASE UNCHANGED vars
  BY <1>23 DEF vars
<1> QED
  BY <1>1, <1>2, <1>3, <1>4, <1>5, <1>6, <1>7, <1>8, <1>9, <1>10, <1>11, <1>12,
     <1>13, <1>14, <1>15, <1>16, <1>17, <1>18, <1>19, <1>20, <1>21, <1>22, <1>23
     DEF Next, StreamNext, Work, Chunk, Interrupts, PostNext

(* Every variable keeps its type: the streams, the requests, the map of    *)
(* pending interrupts, and the records of what was resumed and saved.      *)
THEOREM TypeCorrect == Spec => []TypeOK
<1>1. TypeInv => TypeOK
  BY DEF TypeInv
<1> QED
  BY TypeInit, TypeNext, <1>1, PTL DEF Spec
-----------------------------------------------------------------------------
(***************************************************************************)
(* Entries of _pending_interrupts.  EntryIsOpen is inductive: only Ask     *)
(* writes an entry, and every way out of the try block pops the slot of    *)
(* the thread, whichever stream's entry is in it.                          *)
(***************************************************************************)
LEMMA EntryInit == Init => EntryIsOpen
BY DEF Init, EntryIsOpen

LEMMA EntryNext ==
  TypeInv /\ EntryIsOpen /\ [Next]_vars => EntryIsOpen'
<1> SUFFICES ASSUME TypeInv, EntryIsOpen, [Next]_vars PROVE EntryIsOpen'
  OBVIOUS
<1> USE DEF EntryIsOpen, Current, pendingVars, streamVars, postVars, recordVars
<1>1. ASSUME NEW s \in Stream, NEW t \in Thread, Accept(s, t) PROVE EntryIsOpen'
  BY <1>1 DEF Accept, TypeInv, TypeOK
<1>2. ASSUME NEW s \in Stream,
             Start(s) \/ Token(s) \/ (\E a \in SubAgent : SubAgentStart(s, a))
               \/ Update(s) \/ Interrupts(s)
      PROVE  EntryIsOpen'
  BY <1>2 DEF Start, Token, SubAgentStart, Update, Interrupts, Interrupt, TypeInv, TypeOK
<1>3. ASSUME NEW s \in Stream,
             Fail(s) \/ EndRun(s) \/ Wait(s) \/ Resume(s) \/ Save(s)
               \/ SaveFails(s) \/ NothingToSave(s) \/ Disconnect(s)
      PROVE  EntryIsOpen'
  BY <1>3 DEF Fail, EndRun, Wait, Resume, Save, SaveFails, NothingToSave,
              Disconnect, TypeInv, TypeOK
<1>4. ASSUME NEW s \in Stream, Ask(s) PROVE EntryIsOpen'
  BY <1>4 DEF Ask, TypeInv, TypeOK, Shape
<1>5. ASSUME NEW s \in Stream, Wake(s) \/ Timeout(s) \/ Teardown(s)
      PROVE  EntryIsOpen'
  BY <1>5 DEF Wake, Timeout, Teardown, Popped, TypeInv, TypeOK
<1>6. CASE Restart
  BY <1>6 DEF Restart
<1>7. ASSUME NEW p \in Post, PostNext(p) PROVE EntryIsOpen'
  BY <1>7 DEF PostNext, SendDecision, Resolve, NotFound
<1>8. CASE UNCHANGED vars
  BY <1>8 DEF vars
<1> QED
  BY <1>1, <1>2, <1>3, <1>4, <1>5, <1>6, <1>7, <1>8
     DEF Next, StreamNext, Work, Chunk, Interrupts

(* An entry of the map is the current approval of a stream on that thread  *)
(* that is still inside its try block: however streams share a thread, are *)
(* cancelled, or time out, no entry outlives its question.                 *)
THEOREM EntriesAreOpen == Spec => []EntryIsOpen
BY TypeInit, TypeNext, EntryInit, EntryNext, PTL DEF Spec
-----------------------------------------------------------------------------
(***************************************************************************)
(* The askers.  SoleAskerIsRegistered needs what Accept records: of two    *)
(* live streams on a thread, both have overlapped.                         *)
(***************************************************************************)
OverlapsRecorded ==
  \A s, o \in Stream :
    s # o /\ Live(s) /\ Live(o) /\ thread[s] = thread[o]
      => s \in overlapped /\ o \in overlapped

AskerInv == OverlapsRecorded /\ SoleAskerIsRegistered

LEMMA AskerInit == Init => AskerInv
BY DEF Init, AskerInv, OverlapsRecorded, SoleAskerIsRegistered, Live

LEMMA AskerNext == TypeInv /\ AskerInv /\ [Next]_vars => AskerInv'
<1> SUFFICES ASSUME TypeInv, AskerInv, [Next]_vars PROVE AskerInv'
  OBVIOUS
<1> USE DEF AskerInv, OverlapsRecorded, SoleAskerIsRegistered, Live, Over, Current,
            pendingVars, streamVars, postVars, recordVars
<1>1. ASSUME NEW s \in Stream, NEW t \in Thread, Accept(s, t) PROVE AskerInv'
  BY <1>1 DEF Accept, TypeInv, TypeOK
<1>2. ASSUME NEW s \in Stream,
             Start(s) \/ Token(s) \/ (\E a \in SubAgent : SubAgentStart(s, a))
               \/ Update(s) \/ Interrupts(s)
      PROVE  AskerInv'
  BY <1>2, ZenonT(60)
     DEF Start, Token, SubAgentStart, Update, Interrupts, Interrupt, TypeInv, TypeOK
<1>3. ASSUME NEW s \in Stream,
             Fail(s) \/ EndRun(s) \/ Wait(s) \/ Resume(s) \/ Save(s)
               \/ SaveFails(s) \/ NothingToSave(s) \/ Disconnect(s)
      PROVE  AskerInv'
  <2>1. /\ UNCHANGED <<thread, asks, pending, overlapped>>
        /\ \A o \in Stream : Live(o)' => Live(o)
        /\ \A o \in Stream : pc'[o] \in {"asked", "waiting"} => pc[o] \in {"asked", "waiting"}
    BY <1>3 DEF Fail, EndRun, Wait, Resume, Save, SaveFails, NothingToSave,
                Disconnect, TypeInv, TypeOK
  <2> QED
    BY <2>1
<1>4. ASSUME NEW s \in Stream, Ask(s) PROVE AskerInv'
  BY <1>4, ZenonT(60) DEF Ask, TypeInv, TypeOK, Shape
<1>5. ASSUME NEW s \in Stream, Wake(s) \/ Timeout(s) \/ Teardown(s)
      PROVE  AskerInv'
  <2>1. /\ pending' = Popped(s)
        /\ pc[s] \in {"waiting", "teardown"}
        /\ pc' = [pc EXCEPT ![s] = IF pc[s] = "waiting" THEN "decided" ELSE "closed"]
        /\ UNCHANGED <<thread, asks, overlapped>>
    BY <1>5 DEF Wake, Timeout, Teardown
  <2>2. \A o \in Stream : o # s => pc'[o] = pc[o]
    BY <2>1 DEF TypeInv, TypeOK
  <2>3. pc'[s] \in {"decided", "closed"} /\ (pc'[s] = "decided" => pc[s] = "waiting")
    BY <2>1 DEF TypeInv, TypeOK
  <2>4. OverlapsRecorded'
    BY <2>1, <2>2, <2>3
  <2>5. ASSUME NEW o \in Stream, pc'[o] \in {"asked", "waiting"}, o \notin overlapped'
        PROVE  pending'[thread[o]] = Current(o)
    <3>1. o # s /\ pc[o] \in {"asked", "waiting"} /\ o \notin overlapped
      BY <2>1, <2>2, <2>3, <2>5
    <3>2. thread[o] # thread[s]
      BY <2>1, <3>1
    <3>3. thread[o] \in Thread
      BY <3>1 DEF TypeInv, Shape
    <3> QED
      BY <2>1, <3>1, <3>2, <3>3 DEF Popped, TypeInv, TypeOK
  <2> QED
    BY <2>1, <2>4, <2>5
<1>6. CASE Restart
  BY <1>6 DEF Restart
<1>7. ASSUME NEW p \in Post, PostNext(p) PROVE AskerInv'
  BY <1>7 DEF PostNext, SendDecision, Resolve, NotFound
<1>8. CASE UNCHANGED vars
  BY <1>8 DEF vars
<1> QED
  BY <1>1, <1>2, <1>3, <1>4, <1>5, <1>6, <1>7, <1>8
     DEF Next, StreamNext, Work, Chunk, Interrupts

(* A stream that asked and shared its thread with no other live stream is  *)
(* the one the thread's entry names, so a decision sent to the thread      *)
(* reaches it.                                                             *)
THEOREM SoleAskersAreRegistered == Spec => []SoleAskerIsRegistered
<1>1. AskerInv => SoleAskerIsRegistered
  BY DEF AskerInv
<1> QED
  BY TypeInit, TypeNext, AskerInit, AskerNext, <1>1, PTL DEF Spec
-----------------------------------------------------------------------------
(***************************************************************************)
(* Consent.  The decision a stream holds is the empty one, a rejection, or *)
(* one that a request gave for its current approval; requests keep what    *)
(* they said and what they hit.                                            *)
(***************************************************************************)
Backed(a, d) ==
  d = "reject" \/ \E p \in Post : post[p] = "resolved" /\ hit[p] = a /\ verdict[p] = d

DecisionBacked ==
  \A s \in Stream : decision[s] # None => Backed(Current(s), decision[s])

ResumeBacked ==
  \A a \in ApprovalId : settled[a] # None => Backed(a, settled[a].decision)

ConsentInv == DecisionBacked /\ ResumeBacked

LEMMA ConsentInit == Init => ConsentInv
BY DEF Init, ConsentInv, DecisionBacked, ResumeBacked, ApprovalId

LEMMA ConsentNext == TypeInv /\ ConsentInv /\ [Next]_vars => ConsentInv'
<1> SUFFICES ASSUME TypeInv, ConsentInv, [Next]_vars PROVE ConsentInv'
  OBVIOUS
<1> USE DEF ConsentInv, DecisionBacked, ResumeBacked, Backed,
            Current, pendingVars, streamVars, postVars, recordVars
<1>1. ASSUME NEW s \in Stream,
             (\E t \in Thread : Accept(s, t)) \/ Start(s) \/ Token(s)
               \/ (\E a \in SubAgent : SubAgentStart(s, a))
               \/ Update(s) \/ Interrupts(s)
      PROVE  ConsentInv'
  <2>1. UNCHANGED <<asks, decision, post, hit, verdict, settled>>
    BY <1>1 DEF Accept, Start, Token, SubAgentStart, Update, Interrupts, Interrupt
  <2> QED
    BY <2>1
<1>2. ASSUME NEW s \in Stream,
             Fail(s) \/ EndRun(s) \/ Wait(s) \/ Wake(s) \/ Save(s)
               \/ SaveFails(s) \/ NothingToSave(s) \/ Disconnect(s)
               \/ Teardown(s)
      PROVE  ConsentInv'
  BY <1>2 DEF Fail, EndRun, Wait, Wake, Save, SaveFails, NothingToSave,
              Disconnect, Teardown
<1>3. ASSUME NEW s \in Stream, Ask(s) PROVE ConsentInv'
  BY <1>3, ZenonT(60) DEF Ask, TypeInv, TypeOK
<1>4. ASSUME NEW s \in Stream, Timeout(s) PROVE ConsentInv'
  BY <1>4, ZenonT(60) DEF Timeout, TimeoutDecision, TypeInv, TypeOK
<1>5. ASSUME NEW s \in Stream, Resume(s) PROVE ConsentInv'
  <2> DEFINE out == [decision |-> Effective(s),
                     sent |-> ResumeCommand(Effective(s), interrupt[s]),
                     calls |-> paused[s]]
  <2>1. out.decision = Effective(s)
    OBVIOUS
  <2>2. settled' = [settled EXCEPT ![Current(s)] = out]
    BY <1>5 DEF Resume
  <2> HIDE DEF out
  <2>3. ResumeBacked'
    <3>1. UNCHANGED <<post, hit, verdict>>
      BY <1>5 DEF Resume
    <3>2. Backed(Current(s), out.decision)
      BY <2>1 DEF Effective
    <3>3. ASSUME NEW a \in ApprovalId, settled'[a] # None
          PROVE  Backed(a, settled'[a].decision)
      <4>1. CASE a = Current(s)
        BY <2>2, <3>2, <4>1 DEF TypeInv, TypeOK
      <4>2. CASE a # Current(s)
        BY <2>2, <3>3, <4>2 DEF TypeInv, TypeOK
      <4> QED
        BY <4>1, <4>2
    <3> QED
      BY <3>1, <3>3
  <2> QED
    BY <1>5, <2>3, ZenonT(60) DEF Resume
<1>6. CASE Restart
  BY <1>6 DEF Restart
<1>7. ASSUME NEW p \in Post, NEW s \in Stream, NEW d \in Decision,
             SendDecision(p, s, d)
      PROVE  ConsentInv'
  BY <1>7 DEF SendDecision, TypeInv, TypeOK
<1>8. ASSUME NEW p \in Post, Resolve(p) PROVE ConsentInv'
  <2> DEFINE entry == pending[thread[aim[p][1]]]
  <2>1. /\ post[p] = "sent"
        /\ hit' = [hit EXCEPT ![p] = entry]
        /\ decision' = [o \in Stream |-> IF entry = Current(o) THEN verdict[p]
                                         ELSE decision[o]]
        /\ post' = [post EXCEPT ![p] = "resolved"]
        /\ UNCHANGED <<asks, verdict, settled>>
    BY <1>8 DEF Resolve
  <2> HIDE DEF entry
  <2>2. /\ hit'[p] = entry /\ post'[p] = "resolved"
        /\ \A q \in Post : q # p => hit'[q] = hit[q] /\ post'[q] = post[q]
    BY <2>1 DEF TypeInv, TypeOK
  <2>3. ASSUME NEW o \in Stream, decision'[o] # None
        PROVE  Backed(Current(o), decision[o])'
    <3>1. CASE entry = Current(o)
      BY <2>1, <2>2, <3>1
    <3>2. CASE entry # Current(o)
      <4>1. decision'[o] = decision[o]
        BY <2>1, <3>2
      <4> QED
        BY <2>1, <2>2, <2>3, <4>1, SMTT(30)
    <3> QED
      BY <3>1, <3>2
  <2>4. ResumeBacked'
    BY <2>1, <2>2
  <2> QED
    BY <2>1, <2>3, <2>4
<1>9. ASSUME NEW p \in Post, NotFound(p) PROVE ConsentInv'
  BY <1>9, ZenonT(60) DEF NotFound, TypeInv, TypeOK
<1>10. CASE UNCHANGED vars
  BY <1>10 DEF vars
<1> QED
  BY <1>1, <1>2, <1>3, <1>4, <1>5, <1>6, <1>7, <1>8, <1>9, <1>10
     DEF Next, StreamNext, Work, Chunk, Interrupts, PostNext

(* What a step keeps: the thread of a stream that has asked, the end of a  *)
(* stream, the record of shared threads, and requests that were answered.  *)
LEMMA StepKeeps ==
  ASSUME TypeInv, [Next]_vars
  PROVE  /\ \A s \in Stream : asks[s] > 0 => asks'[s] > 0 /\ thread'[s] = thread[s]
         /\ \A s \in Stream : pc[s] \in Over => pc'[s] \in Over
         /\ overlapped \subseteq overlapped'
         /\ \A p \in Post : post[p] = "resolved"
              => post'[p] = "resolved" /\ aim'[p] = aim[p] /\ hit'[p] = hit[p]
<1> DEFINE Kept ==
         /\ \A s \in Stream : asks[s] > 0 => asks'[s] > 0 /\ thread'[s] = thread[s]
         /\ \A s \in Stream : pc[s] \in Over => pc'[s] \in Over
         /\ overlapped \subseteq overlapped'
         /\ \A p \in Post : post[p] = "resolved"
              => post'[p] = "resolved" /\ aim'[p] = aim[p] /\ hit'[p] = hit[p]
<1> USE DEF TypeInv, TypeOK, Over, pendingVars, streamVars, postVars, recordVars
<1>1. ASSUME NEW s \in Stream, NEW t \in Thread, Accept(s, t) PROVE Kept
  BY <1>1 DEF Accept, Shape
<1>2. ASSUME NEW s \in Stream,
             Start(s) \/ Token(s) \/ (\E a \in SubAgent : SubAgentStart(s, a))
               \/ Update(s) \/ Interrupts(s) \/ Fail(s) \/ EndRun(s)
      PROVE  Kept
  BY <1>2 DEF Start, Token, SubAgentStart, Update, Interrupts, Interrupt, Fail, EndRun
<1>3. ASSUME NEW s \in Stream, Ask(s) PROVE Kept
  BY <1>3, BoundsAssumption DEF Ask
<1>4. ASSUME NEW s \in Stream,
             Wait(s) \/ Wake(s) \/ Timeout(s) \/ Resume(s) \/ Save(s)
               \/ SaveFails(s) \/ NothingToSave(s)
      PROVE  Kept
  BY <1>4 DEF Wait, Wake, Timeout, Resume, Save, SaveFails, NothingToSave
<1>5. ASSUME NEW s \in Stream, Disconnect(s) \/ Teardown(s) PROVE Kept
  BY <1>5 DEF Disconnect, Teardown, Live
<1>6. CASE Restart
  BY <1>6 DEF Restart, Live
<1>7. ASSUME NEW p \in Post, PostNext(p) PROVE Kept
  BY <1>7 DEF PostNext, SendDecision, Resolve, NotFound
<1>8. CASE UNCHANGED vars
  BY <1>8 DEF vars
<1> QED
  BY <1>1, <1>2, <1>3, <1>4, <1>5, <1>6, <1>7, <1>8
     DEF Next, StreamNext, Work, Chunk, Interrupts

(* Whoever made a request that reached an entry was looking at its         *)
(* question, or at one that it took the place of.                          *)
HitsExplained ==
  \A p \in Post : hit[p] # None =>
    /\ post[p] = "resolved"
    /\ hit[p] \in ApprovalId /\ asks[hit[p][1]] > 0
    /\ GivenFor(p, hit[p])

LEMMA HitsInit == Init => HitsExplained
BY DEF Init, HitsExplained

LEMMA HitsNext ==
  ASSUME TypeInv, EntryIsOpen, AskerInv, HitsExplained, [Next]_vars
  PROVE  HitsExplained'
<1> SUFFICES ASSUME NEW p \in Post, hit'[p] # None
             PROVE  /\ post'[p] = "resolved"
                    /\ hit'[p] \in ApprovalId /\ asks'[hit'[p][1]] > 0
                    /\ GivenFor(p, hit[p])'
  BY DEF HitsExplained
<1>1. CASE hit[p] # None
  <2>1. post[p] = "resolved" /\ hit[p] \in ApprovalId /\ asks[hit[p][1]] > 0
        /\ GivenFor(p, hit[p])
    BY <1>1 DEF HitsExplained
  <2>2. aim[p] \in ApprovalId /\ asks[aim[p][1]] > 0
    BY <2>1 DEF TypeInv, Shape
  <2>3. aim[p][1] \in Stream /\ hit[p][1] \in Stream
    BY <2>1, <2>2 DEF ApprovalId
  <2>4. post'[p] = "resolved" /\ aim'[p] = aim[p] /\ hit'[p] = hit[p]
    BY <2>1, StepKeeps
  <2>5. /\ asks'[hit[p][1]] > 0
        /\ thread'[hit[p][1]] = thread[hit[p][1]]
        /\ thread'[aim[p][1]] = thread[aim[p][1]]
    BY <2>1, <2>2, <2>3, StepKeeps
  <2>6. /\ pc[aim[p][1]] \in Over => pc'[aim[p][1]] \in Over
        /\ aim[p][1] \in overlapped => aim[p][1] \in overlapped'
    BY <2>3, StepKeeps
  <2> QED
    BY <2>1, <2>4, <2>5, <2>6 DEF GivenFor
<1>2. CASE hit[p] = None
  <2>1. Resolve(p)
    <3>1. \A s \in Stream : StreamNext(s) => UNCHANGED hit
      BY DEF StreamNext, Work, Chunk, Accept, Start, Token, SubAgentStart, Update, Interrupt,
             Fail, EndRun, Ask, Wait, Wake, Timeout, Resume, Save, SaveFails,
             NothingToSave, Disconnect, Teardown, postVars
    <3>2. Restart \/ UNCHANGED vars => UNCHANGED hit
      BY DEF Restart, vars, postVars
    <3>3. \A q \in Post, s \in Stream, d \in Decision : SendDecision(q, s, d) => UNCHANGED hit
      BY DEF SendDecision
    <3>4. \A q \in Post : NotFound(q) => UNCHANGED hit
      BY DEF NotFound
    <3>5. \A q \in Post : Resolve(q) /\ q # p => hit'[p] = hit[p]
      BY DEF Resolve, TypeInv, TypeOK
    <3> QED
      BY <1>2, <3>1, <3>2, <3>3, <3>4, <3>5 DEF Next, PostNext
  <2> DEFINE entry == pending[thread[aim[p][1]]]
  <2>2. /\ post[p] = "sent" /\ entry # None
        /\ hit'[p] = entry /\ post'[p] = "resolved"
        /\ UNCHANGED <<pc, asks, thread, aim, overlapped>>
    BY <2>1 DEF Resolve, streamVars, recordVars, TypeInv, TypeOK
  <2>3. aim[p] \in ApprovalId /\ asks[aim[p][1]] > 0 /\ aim[p][2] <= asks[aim[p][1]]
    BY <2>2 DEF TypeInv, Shape
  <2>4. aim[p][1] \in Stream
    BY <2>3 DEF ApprovalId
  <2>5. pc[aim[p][1]] # "idle" /\ thread[aim[p][1]] \in Thread
    BY <2>3, <2>4 DEF TypeInv, TypeOK, Shape
  <2>6. PICK s \in Stream : /\ entry = Current(s)
                            /\ thread[s] = thread[aim[p][1]]
                            /\ pc[s] \in {"asked", "waiting", "teardown"}
    BY <2>2, <2>5 DEF EntryIsOpen
  <2>7. entry \in ApprovalId
    BY <2>2, <2>5 DEF TypeInv, TypeOK
  <2>8. entry[1] = s /\ entry[2] = asks[s] /\ asks[s] > 0
    BY <2>6, <2>7, BoundsAssumption DEF Current, ApprovalId
  <2> HIDE DEF entry
  <2>9. \/ aim[p][1] = s
        \/ pc[aim[p][1]] \in Over
        \/ aim[p][1] \in overlapped
    BY <2>4, <2>5, <2>6 DEF AskerInv, OverlapsRecorded, Live, Over
  <2>10. GivenFor(p, hit[p])'
    BY <2>2, <2>3, <2>6, <2>8, <2>9 DEF GivenFor
  <2> QED
    BY <2>2, <2>7, <2>8, <2>10
<1> QED
  BY <1>1, <1>2

(* No paused tool call runs, as proposed or edited, without a request that *)
(* reached its question's entry with that decision, made by a user who had *)
(* in view that question or one on the same thread that it took the place  *)
(* of.                                                                     *)
THEOREM CallsRunWithConsent == Spec => []RunsWithConsent
<1>1. ConsentInv /\ HitsExplained => RunsWithConsent
  <2> SUFFICES ASSUME ConsentInv, HitsExplained, NEW a \in ApprovalId,
                      settled[a] # None, settled[a].decision # "reject"
               PROVE  \E p \in Post : /\ hit[p] = a
                                      /\ verdict[p] = settled[a].decision
                                      /\ GivenFor(p, a)
    BY DEF RunsWithConsent
  <2>1. PICK p \in Post : hit[p] = a /\ verdict[p] = settled[a].decision
    BY DEF ConsentInv, ResumeBacked, Backed
  <2>2. GivenFor(p, hit[p])
    BY <2>1, NoneAssumption DEF HitsExplained
  <2> QED
    BY <2>1, <2>2
<1> QED
  BY TypeInit, TypeNext, EntryInit, EntryNext, AskerInit, AskerNext, ConsentInit,
     ConsentNext, HitsInit, HitsNext, <1>1, PTL DEF Spec
-----------------------------------------------------------------------------
(***************************************************************************)
(* Resume commands.  interrupt_data is that of an interrupt the graph is   *)
(* paused on, whenever there is one to ask about.                          *)
(***************************************************************************)
PauseIsAskedAbout ==
  \A s \in Stream :
    /\ interrupt[s] > 0 => \E i \in DOMAIN paused[s] : interrupt[s] = paused[s][i]
    /\ pc[s] \in {"asked", "waiting", "decided"} => interrupt[s] > 0

CallsInv == PauseIsAskedAbout /\ OneDecisionPerCall

LEMMA CallsInit == Init => CallsInv
BY DEF Init, CallsInv, PauseIsAskedAbout, OneDecisionPerCall

LEMMA CallsNext == TypeInv /\ CallsInv /\ [Next]_vars => CallsInv'
<1> SUFFICES ASSUME TypeInv, CallsInv, [Next]_vars PROVE CallsInv'
  OBVIOUS
<1> USE DEF CallsInv, PauseIsAskedAbout, OneDecisionPerCall, pendingVars,
            streamVars, postVars, recordVars
<1>1. ASSUME NEW s \in Stream,
             (\E t \in Thread : Accept(s, t)) \/ Start(s) \/ Token(s)
               \/ (\E a \in SubAgent : SubAgentStart(s, a)) \/ Fail(s)
               \/ EndRun(s)
      PROVE  CallsInv'
  <2>1. /\ UNCHANGED <<paused, interrupt, settled>>
        /\ \A o \in Stream : pc'[o] \in {"asked", "waiting", "decided"} => pc'[o] = pc[o]
    BY <1>1 DEF Accept, Start, Token, SubAgentStart, Fail, EndRun, TypeInv, TypeOK
  <2> QED
    BY <2>1
<1>2. ASSUME NEW s \in Stream,
             Update(s)
      PROVE  CallsInv'
  BY <1>2 DEF Update, TypeInv, TypeOK
<1>9. ASSUME NEW s \in Stream, Interrupts(s) PROVE CallsInv'
  <2>0. PICK calls \in Pause : \E i \in 1 .. Len(calls) : Interrupt(s, calls, i)
    BY <1>9 DEF Interrupts
  <2>1. PICK i \in 1 .. Len(calls) : Interrupt(s, calls, i)
    BY <2>0
  <2>2. i \in DOMAIN calls /\ calls[i] \in 1 .. MaxCalls
    BY PauseType
  <2>3. /\ paused' = [paused EXCEPT ![s] = calls]
        /\ interrupt' = [interrupt EXCEPT ![s] = calls[i]]
        /\ UNCHANGED <<pc, settled>>
    BY <2>1 DEF Interrupt
  <2>4. interrupt'[s] = calls[i] /\ paused'[s] = calls
    BY <2>3 DEF TypeInv, TypeOK
  <2>5. \A o \in Stream : o # s => interrupt'[o] = interrupt[o] /\ paused'[o] = paused[o]
    BY <2>3 DEF TypeInv, TypeOK
  <2>6. calls[i] > 0
    BY <2>2, BoundsAssumption
  <2> QED
    BY <2>2, <2>3, <2>4, <2>5, <2>6
<1>3. ASSUME NEW s \in Stream, Ask(s) \/ Wait(s) \/ Wake(s) \/ Timeout(s)
      PROVE  CallsInv'
  <2>1. /\ UNCHANGED <<paused, interrupt, settled>>
        /\ \A o \in Stream : pc'[o] \in {"asked", "waiting", "decided"}
             => interrupt[o] > 0 \/ pc[o] \in {"asked", "waiting", "decided"}
    BY <1>3 DEF Ask, Wait, Wake, Timeout, TypeInv, TypeOK
  <2> QED
    BY <2>1
<1>4. ASSUME NEW s \in Stream,
             Save(s) \/ SaveFails(s) \/ NothingToSave(s) \/ Disconnect(s)
               \/ Teardown(s)
      PROVE  CallsInv'
  <2>1. /\ UNCHANGED <<paused, interrupt, settled>>
        /\ \A o \in Stream : pc'[o] \in {"asked", "waiting", "decided"} => pc'[o] = pc[o]
    BY <1>4 DEF Save, SaveFails, NothingToSave, Disconnect, Teardown, TypeInv, TypeOK
  <2> QED
    BY <2>1
<1>5. ASSUME NEW s \in Stream, Resume(s) PROVE CallsInv'
  <2> DEFINE out == [decision |-> Effective(s),
                     sent |-> ResumeCommand(Effective(s), interrupt[s]),
                     calls |-> paused[s]]
  <2>1. \E i \in DOMAIN out.calls : DOMAIN out.sent = 1 .. out.calls[i]
    BY <1>5 DEF Resume, ResumeCommand
  <2>2. settled' = [settled EXCEPT ![Current(s)] = out]
    BY <1>5 DEF Resume
  <2> HIDE DEF out
  <2>3. OneDecisionPerCall'
    BY <2>1, <2>2 DEF TypeInv, TypeOK
  <2>4. PauseIsAskedAbout'
    BY <1>5 DEF Resume, TypeInv, TypeOK
  <2> QED
    BY <2>3, <2>4
<1>6. CASE Restart
  BY <1>6 DEF Restart, TypeInv, TypeOK
<1>7. ASSUME NEW p \in Post, PostNext(p) PROVE CallsInv'
  BY <1>7 DEF PostNext, SendDecision, Resolve, NotFound
<1>8. CASE UNCHANGED vars
  BY <1>8 DEF vars
<1> QED
  BY <1>1, <1>2, <1>3, <1>4, <1>5, <1>6, <1>7, <1>8, <1>9
     DEF Next, StreamNext, Work, Chunk, Interrupts

(* The command that resumes the graph carries one decision for each call   *)
(* of an interrupt the graph is paused on, and so for every paused call    *)
(* when there is one interrupt, whatever the decision, the number of calls *)
(* and the chunks between the pause and the question.                      *)
THEOREM EveryCallIsDecided == Spec => []OneDecisionPerCall
<1>1. CallsInv => OneDecisionPerCall
  BY DEF CallsInv
<1> QED
  BY TypeInit, TypeNext, CallsInit, CallsNext, <1>1, PTL DEF Spec
-----------------------------------------------------------------------------
(***************************************************************************)
(* Turns.  A turn that runs, ends, or is done has settled every question   *)
(* it asked; one with a question open has settled the earlier ones.        *)
(***************************************************************************)
Settled(a) == settled[a] # None

EarlierSettled ==
  \A s \in Stream : \A k \in 1 .. asks[s] :
    k < asks[s] \/ pc[s] \in {"running", "ended", "done"} => Settled(<<s, k>>)

SavedIsDone == \A s \in Stream : <<s, "assistant">> \in saved => pc[s] = "done"

TurnInv == EarlierSettled /\ SavedIsDone

LEMMA TurnInit == Init => TurnInv
BY DEF Init, TurnInv, EarlierSettled, SavedIsDone

LEMMA TurnNext == TypeInv /\ TurnInv /\ [Next]_vars => TurnInv'
<1> SUFFICES ASSUME TypeInv, TurnInv, [Next]_vars PROVE TurnInv'
  OBVIOUS
<1> USE BoundsAssumption DEF TurnInv, EarlierSettled, SavedIsDone, Settled, pendingVars,
            streamVars, postVars, recordVars
<1>1. ASSUME NEW s \in Stream, NEW t \in Thread, Accept(s, t) PROVE TurnInv'
  BY <1>1 DEF Accept, TypeInv, TypeOK, Shape
<1>2. ASSUME NEW s \in Stream, Start(s) PROVE TurnInv'
  BY <1>2 DEF Start, TypeInv, TypeOK, Shape
<1>3. ASSUME NEW s \in Stream, Ask(s) PROVE TurnInv'
  BY <1>3 DEF Ask, TypeInv, TypeOK
<1>4. ASSUME NEW s \in Stream, Chunk(s) \/ Fail(s) \/ EndRun(s) PROVE TurnInv'
  BY <1>4 DEF Chunk, Token, SubAgentStart, Update, Interrupts, Interrupt, Fail, EndRun,
              TypeInv, TypeOK
<1>5. ASSUME NEW s \in Stream,
             Wait(s) \/ Wake(s) \/ Timeout(s) \/ Disconnect(s) \/ Teardown(s)
      PROVE  TurnInv'
  BY <1>5 DEF Wait, Wake, Timeout, Disconnect, Teardown, Live, Over, TypeInv, TypeOK
<1>6. ASSUME NEW s \in Stream, Resume(s) PROVE TurnInv'
  <2> DEFINE out == [decision |-> Effective(s),
                     sent |-> ResumeCommand(Effective(s), interrupt[s]),
                     calls |-> paused[s]]
  <2>1. out # None
    <3>1. Effective(s) \in Decision
      BY DEF Effective, Decision, TypeInv, TypeOK
    <3> QED
      BY <3>1, ResumeCommandType, NoneAssumption DEF Outcome, TypeInv, TypeOK
  <2>2. settled' = [settled EXCEPT ![Current(s)] = out]
    BY <1>6 DEF Resume
  <2> HIDE DEF out
  <2>3. ASSUME NEW o \in Stream, NEW k \in 1 .. asks[o], settled[<<o, k>>] # None
        PROVE  settled'[<<o, k>>] # None
    <3>1. <<o, k>> \in ApprovalId
      BY DEF ApprovalId, TypeInv, TypeOK
    <3> QED
      BY <2>1, <2>2, <2>3, <3>1 DEF TypeInv, TypeOK
  <2>4. asks[s] > 0 => settled'[<<s, asks[s]>>] # None
    BY <2>1, <2>2 DEF Current, ApprovalId, TypeInv, TypeOK
  <2>5. EarlierSettled'
    <3> SUFFICES ASSUME NEW o \in Stream, NEW k \in 1 .. asks[o],
                        k < asks[o] \/ pc'[o] \in {"running", "ended", "done"}
                 PROVE  settled'[<<o, k>>] # None
      BY <1>6 DEF Resume
    <3>1. CASE k < asks[o]
      BY <2>3, <3>1
    <3>2. CASE o = s /\ k = asks[o]
      BY <2>4, <3>2
    <3>3. CASE o # s
      <4>1. pc'[o] = pc[o]
        BY <1>6, <3>3 DEF Resume, TypeInv, TypeOK
      <4>2. settled[<<o, k>>] # None
        BY <4>1
      <4> QED
        BY <2>3, <4>2
    <3>4. asks[o] \in Nat
      BY DEF TypeInv, TypeOK
    <3> QED
      BY <3>1, <3>2, <3>3, <3>4
  <2> QED
    BY <1>6, <2>5 DEF Resume, TypeInv, TypeOK
<1>7. ASSUME NEW s \in Stream, Save(s) \/ SaveFails(s) \/ NothingToSave(s)
      PROVE  TurnInv'
  BY <1>7 DEF Save, SaveFails, NothingToSave, TypeInv, TypeOK
<1>8. CASE Restart
  BY <1>8 DEF Restart, Live, Over, TypeInv, TypeOK
<1>9. ASSUME NEW p \in Post, PostNext(p) PROVE TurnInv'
  BY <1>9 DEF PostNext, SendDecision, Resolve, NotFound
<1>10. CASE UNCHANGED vars
  BY <1>10 DEF vars
<1> QED
  BY <1>1, <1>2, <1>3, <1>4, <1>5, <1>6, <1>7, <1>8, <1>9, <1>10
     DEF Next, StreamNext, Work

(* An assistant message is only saved for a turn in which every question   *)
(* was decided, by the user or by the timer, and sent back to the graph.   *)
THEOREM SavedTurnsAreSettled == Spec => []SavedTurnIsSettled
<1>1. TurnInv => SavedTurnIsSettled
  BY DEF TurnInv, EarlierSettled, SavedIsDone, Settled, SavedTurnIsSettled
<1> QED
  BY TypeInit, TypeNext, TurnInit, TurnNext, <1>1, PTL DEF Spec
-----------------------------------------------------------------------------
(***************************************************************************)
(* Answers.  full_content outlives the questions of a turn: whoever was    *)
(* shown text has some of it there.                                        *)
(***************************************************************************)
AnswerInv ==
  /\ \A s \in Stream : s \in shown => content[s]
  /\ AnswerSavedOrReported

LEMMA AnswerInit == Init => AnswerInv
BY DEF Init, AnswerInv, AnswerSavedOrReported

LEMMA AnswerNext == TypeInv /\ AnswerInv /\ [Next]_vars => AnswerInv'
<1> SUFFICES ASSUME TypeInv, AnswerInv, [Next]_vars PROVE AnswerInv'
  OBVIOUS
<1> USE DEF AnswerInv, AnswerSavedOrReported, pendingVars, streamVars, postVars,
            recordVars, TypeInv, TypeOK
<1>1. ASSUME NEW s \in Stream,
             (\E t \in Thread : Accept(s, t)) \/ Start(s) \/ Chunk(s) \/ Fail(s)
               \/ EndRun(s) \/ Ask(s)
      PROVE  AnswerInv'
  <2>1. \A o \in Stream : pc'[o] = "done" => pc[o] = "done" /\ o # s
    BY <1>1 DEF Accept, Start, Chunk, Token, SubAgentStart, Update, Interrupt, Fail,
                EndRun, Ask
  <2>2. UNCHANGED reported /\ saved \subseteq saved'
    BY <1>1 DEF Accept, Start, Chunk, Token, SubAgentStart, Update, Interrupt, Fail,
                EndRun, Ask
  <2>3. /\ shown' \subseteq shown \cup {s}
        /\ \A o \in Stream : o \in shown' => content'[o]
    BY <1>1 DEF Accept, Start, Chunk, Token, SubAgentStart, Update, Interrupt, Fail,
                EndRun, Ask
  <2> QED
    BY <2>1, <2>2, <2>3
<1>2. ASSUME NEW s \in Stream,
             Wait(s) \/ Wake(s) \/ Timeout(s) \/ Resume(s) \/ Disconnect(s) \/ Teardown(s)
      PROVE  AnswerInv'
  BY <1>2 DEF Wait, Wake, Timeout, Resume, Disconnect, Teardown
<1>3. ASSUME NEW s \in Stream, Save(s) \/ SaveFails(s) \/ NothingToSave(s)
      PROVE  AnswerInv'
  BY <1>3 DEF Save, SaveFails, NothingToSave
<1>4. CASE Restart
  BY <1>4 DEF Restart, Live, Over
<1>5. ASSUME NEW p \in Post, PostNext(p) PROVE AnswerInv'
  BY <1>5 DEF PostNext, SendDecision, Resolve, NotFound
<1>6. CASE UNCHANGED vars
  BY <1>6 DEF vars
<1> QED
  BY <1>1, <1>2, <1>3, <1>4, <1>5, <1>6 DEF Next, StreamNext, Work

(* Text the client was shown in a turn that is done is in the database, or *)
(* the client was told that it is not, whatever was asked in between.      *)
THEOREM AnswersAreSavedOrReported == Spec => []AnswerSavedOrReported
<1>1. AnswerInv => AnswerSavedOrReported
  BY DEF AnswerInv
<1> QED
  BY TypeInit, TypeNext, AnswerInit, AnswerNext, <1>1, PTL DEF Spec
=============================================================================
