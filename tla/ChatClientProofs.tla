-------------------------- MODULE ChatClientProofs --------------------------
(***************************************************************************)
(* Proofs about ChatClient, for any threads, any number of messages sent   *)
(* and approvals asked for, and any number of loads in flight.             *)
(***************************************************************************)
EXTENDS ChatClient, TLAPS

(* The effect that runs after a handler keeps the types of what it sets.   *)
LEMMA RenderedTypes ==
  ASSUME TypeOK, NEW thread \in Thread \cup {None}, NEW loading \in BOOLEAN,
         Rendered(thread, loading)
  PROVE  /\ currentThreadId' \in Thread \cup {None}
         /\ isLoading' \in BOOLEAN
         /\ isThreadLoading' \in BOOLEAN
         /\ load' \in [Load -> {None} \cup [thread : Thread, answer : {None} \cup SUBSET Item]]
<1>1. currentThreadId' \in Thread \cup {None} /\ isLoading' \in BOOLEAN
  BY DEF Rendered
<1>2. CASE /\ isThreadLoading' = TRUE
           /\ thread # None
           /\ \E i \in Load : load' = [load EXCEPT ![i] = [thread |-> thread, answer |-> None]]
  BY <1>1, <1>2 DEF TypeOK
<1>3. CASE UNCHANGED <<isThreadLoading, load>>
  BY <1>1, <1>3 DEF TypeOK
<1> QED
  BY <1>2, <1>3 DEF Rendered

LEMMA AbortedType ==
  ASSUME TypeOK
  PROVE  Aborted(reader) \in [Send -> ReaderState]
BY DEF TypeOK, Aborted, ReaderState

LEMMA TypeInit == Init => TypeOK
<1> SUFFICES ASSUME Init PROVE TypeOK
  OBVIOUS
<1>1. PICK i \in Load :
        load = [j \in Load |-> IF j = i /\ currentThreadId # None
                               THEN [thread |-> currentThreadId, answer |-> None]
                               ELSE None]
  BY DEF Init
<1>2. currentThreadId \in Thread \cup {None}
  BY DEF Init, Thread
<1>3. load \in [Load -> {None} \cup [thread : Thread, answer : {None} \cup SUBSET Item]]
  BY <1>1, <1>2
<1>4. asks \in [Send -> 0 .. MaxAsks]
  BY BoundsAssumption DEF Init
<1>5. isThreadLoading \in BOOLEAN
  BY DEF Init
<1> QED
  BY <1>2, <1>3, <1>4, <1>5 DEF Init, TypeOK, ReaderState

(* The steps with which a call of handleSend is over.                      *)
Ends(s) == AbortDelivered(s) \/ RequestFails(s) \/ ConnectionFails(s) \/ ReaderDone(s)

LEMMA TypeNext == TypeOK /\ [Next]_vars => TypeOK'
<1> SUFFICES ASSUME TypeOK, [Next]_vars PROVE TypeOK'
  OBVIOUS
<1> USE DEF page, dialog, server, ReaderState
<1>1. ASSUME NEW s \in Send, NEW kept \in SUBSET messages, Submit(s, kept) PROVE TypeOK'
  <2>1. messages' \subseteq Item
    BY <1>1 DEF Submit, Item, TypeOK
  <2>2. Rendered(currentThreadId, TRUE)
    BY <1>1 DEF Submit
  <2>3. currentThreadId \in Thread \cup {None}
    BY DEF TypeOK
  <2> QED
    BY <1>1, <2>1, <2>2, <2>3, RenderedTypes, AbortedType DEF Submit, TypeOK
<1>2. ASSUME NEW s \in Send, HandleSend(s) PROVE TypeOK'
  BY <1>1, <1>2 DEF HandleSend
<1>3. ASSUME NEW s \in Send, NEW m \in Item, HandleRetry(s, m) PROVE TypeOK'
  BY <1>1, <1>3 DEF HandleRetry
<1>4. ASSUME NEW s \in Send, Ends(s) PROVE TypeOK'
  <2>1. Rendered(currentThreadId, FALSE) /\ controller' \in {None, controller}
    BY <1>4 DEF Ends, AbortDelivered, RequestFails, ConnectionFails, ShowError,
                ReaderDone, Finally
  <2>3. messages' \subseteq Item
    BY <1>4 DEF Ends, AbortDelivered, RequestFails, ConnectionFails, ShowError,
                ReaderDone, Item, TypeOK
  <2>2. currentThreadId \in Thread \cup {None}
    BY DEF TypeOK
  <2> QED
    BY <1>4, <2>1, <2>2, <2>3, RenderedTypes
       DEF Ends, AbortDelivered, RequestFails, ConnectionFails, ShowError, ReaderDone,
           TypeOK
<1>5. ASSUME NEW s \in Send, Opened(s) PROVE TypeOK'
  <2>1. Rendered(target[s], isLoading) /\ target[s] \in Thread \cup {None}
        /\ isLoading \in BOOLEAN
    BY <1>5 DEF Opened, TypeOK
  <2>2. messages' \subseteq Item
    BY <1>5 DEF Opened, Item, TypeOK
  <2>3. /\ currentThreadId' \in Thread \cup {None}
        /\ isLoading' \in BOOLEAN
        /\ isThreadLoading' \in BOOLEAN
        /\ load' \in [Load -> {None} \cup [thread : Thread, answer : {None} \cup SUBSET Item]]
    BY <2>1, RenderedTypes
  <2>4. /\ reader' = [reader EXCEPT ![s] = "reading"]
        /\ UNCHANGED <<dialog, controller, post, server>>
    BY <1>5 DEF Opened
  <2> QED
    BY <2>2, <2>3, <2>4 DEF TypeOK
<1>6. ASSUME HandleStop \/ HandleNewConversation \/ \E t \in Thread : HandleSelectThread(t)
      PROVE  TypeOK'
  <2>1. \E t \in Thread \cup {None}, l \in BOOLEAN : Rendered(t, l)
    BY <1>6 DEF HandleStop, HandleNewConversation, HandleSelectThread, TypeOK
  <2>2. /\ currentThreadId' \in Thread \cup {None}
        /\ isLoading' \in BOOLEAN
        /\ isThreadLoading' \in BOOLEAN
        /\ load' \in [Load -> {None} \cup [thread : Thread, answer : {None} \cup SUBSET Item]]
    BY <2>1, RenderedTypes
  <2>3. /\ reader' = Aborted(reader)
        /\ messages' \in {{}, messages}
        /\ pendingApproval' \in {None, pendingApproval}
        /\ controller' \in {None, controller}
        /\ UNCHANGED <<isApprovalSubmitting, post, server>>
    BY <1>6 DEF HandleStop, HandleNewConversation, HandleSelectThread
  <2> QED
    BY <2>2, <2>3, AbortedType DEF TypeOK
<1>7. ASSUME NEW i \in Load, LoadServed(i) PROVE TypeOK'
  <2>1. Saved(load[i].thread) \subseteq Item
    BY DEF Saved, Item
  <2> QED
    BY <1>7, <2>1 DEF LoadServed, TypeOK
<1>8. ASSUME NEW i \in Load, LoadReturned(i) PROVE TypeOK'
  <2>1. load[i].answer \in SUBSET Item
    BY <1>8 DEF LoadReturned, TypeOK
  <2> QED
    BY <1>8, <2>1 DEF LoadReturned, TypeOK
<1>9. ASSUME NEW i \in Load, LoadFailed(i) PROVE TypeOK'
  BY <1>9 DEF LoadFailed, TypeOK
<1>10. ASSUME SubmitDecision PROVE TypeOK'
  BY <1>10 DEF SubmitDecision, TypeOK
<1>11. ASSUME NEW a \in Approval, Answer(a) \/ DecisionFails(a) PROVE TypeOK'
  <2>1. CASE DecisionArrives(a)
    BY <2>1, ZenonT(60) DEF DecisionArrives, TypeOK
  <2>2. CASE DecisionReturns(a)
    BY <2>2, ZenonT(60) DEF DecisionReturns, TypeOK
  <2>3. CASE DecisionFails(a)
    BY <2>3, ZenonT(60) DEF DecisionFails, TypeOK
  <2> QED
    BY <1>11, <2>1, <2>2, <2>3 DEF Answer
<1>12. ASSUME NEW s \in Send, Accept(s) PROVE TypeOK'
  BY <1>12 DEF Accept, TypeOK, Thread
<1>13. ASSUME NEW s \in Send, Ask(s) PROVE TypeOK'
  <2>1. asks[s] + 1 \in 1 .. MaxAsks /\ <<s, asks[s] + 1>> \in Approval
    BY <1>13, BoundsAssumption DEF Ask, TypeOK, Approval
  <2>2. isApprovalSubmitting' \in BOOLEAN
    <3>1. CASE reader[s] = "reading"
      BY <1>13, <3>1 DEF Ask
    <3>2. CASE reader[s] # "reading"
      BY <1>13, <3>2 DEF Ask, TypeOK
    <3> QED
      BY <3>1, <3>2
  <2>3. pendingApproval' \in {<<s, asks[s] + 1>>, pendingApproval}
        /\ entry' = [entry EXCEPT ![target[s]] = <<s, asks[s] + 1>>]
        /\ asks' = [asks EXCEPT ![s] = @ + 1]
    BY <1>13 DEF Ask
  <2>4. pendingApproval' \in Approval \cup {None}
    BY <2>1, <2>3 DEF TypeOK
  <2>5. entry' \in [Thread -> Approval \cup {None}]
    BY <2>1, <2>3 DEF TypeOK
  <2>6. asks' \in [Send -> 0 .. MaxAsks]
    BY <2>1, <2>3 DEF TypeOK
  <2> QED
    BY <1>13, <2>2, <2>4, <2>5, <2>6 DEF Ask, TypeOK
<1>14. ASSUME NEW s \in Send, Settle(s) \/ EndTurn(s) \/ Disconnected(s) \/ FailTurn(s)
       PROVE  TypeOK'
  BY <1>14 DEF Settle, EndTurn, Disconnected, FailTurn, Gone, TypeOK
<1>15. CASE UNCHANGED vars
  BY <1>15 DEF vars, TypeOK
<1> QED
  BY <1>2, <1>3, <1>4, <1>5, <1>6, <1>7, <1>8, <1>9, <1>10, <1>11, <1>12, <1>13, <1>14,
     <1>15 DEF Next, User, Reader, Server, Loader, Failure, Ends

(* Every variable of the page and of the server keeps its type.            *)
THEOREM TypeCorrect == Spec => []TypeOK
BY TypeInit, TypeNext, PTL DEF Spec
-----------------------------------------------------------------------------
(***************************************************************************)
(* What the steps do to the readers and the ref.  As the controller is     *)
(* that of every stream being read, aborting it aborts them all.           *)
(***************************************************************************)
Ending(s) ==
  /\ reader[s] \in {"aborted", "fetching", "reading"}
  /\ \E r \in {"stopped", "failed", "finished"} :
       /\ reader' = [reader EXCEPT ![s] = r]
       /\ r = "stopped" <=> reader[s] = "aborted"
  /\ controller' = IF controller = s THEN None ELSE controller

LEMMA AbortsAll ==
  ASSUME TypeOK, StreamIsControlled, NEW s \in Send
  PROVE  /\ Aborted(reader)[s] \notin {"fetching", "reading"}
         /\ Aborted(reader)[s] = "unsent" <=> reader[s] = "unsent"
BY DEF TypeOK, StreamIsControlled, Aborted, Streaming

LEMMA EndingSteps ==
  ASSUME TypeOK, NEW s \in Send, Ends(s)
  PROVE  /\ Ending(s)
         /\ UNCHANGED <<currentThreadId, pendingApproval, target>>
BY DEF TypeOK, Ends, AbortDelivered, RequestFails, ConnectionFails, ShowError, ReaderDone,
       Streaming, Finally, Rendered, Ending, dialog, server

LEMMA ControlNext == TypeOK /\ StreamIsControlled /\ [Next]_vars => StreamIsControlled'
<1> SUFFICES ASSUME TypeOK, StreamIsControlled, [Next]_vars PROVE StreamIsControlled'
  OBVIOUS
<1> USE DEF StreamIsControlled, Streaming, page, dialog, server
<1>1. ASSUME NEW s \in Send, NEW kept, Submit(s, kept) PROVE StreamIsControlled'
  BY <1>1, AbortsAll, AbortedType DEF Submit
<1>2. ASSUME NEW s \in Send, Ending(s) PROVE StreamIsControlled'
  BY <1>2 DEF Ending, TypeOK
<1>3. ASSUME NEW s \in Send, Opened(s) PROVE StreamIsControlled'
  BY <1>3 DEF Opened, TypeOK
<1>4. ASSUME reader' = Aborted(reader) PROVE StreamIsControlled'
  BY <1>4, AbortsAll
<1>5. ASSUME UNCHANGED <<reader, controller>> PROVE StreamIsControlled'
  BY <1>5
<1>6. ASSUME User PROVE StreamIsControlled'
  <2>1. \/ \E s \in Send : \E kept : Submit(s, kept)
        \/ reader' = Aborted(reader)
        \/ UNCHANGED <<reader, controller>>
    BY <1>6 DEF User, HandleSend, HandleRetry, HandleStop, HandleNewConversation,
                SubmitDecision, HandleSelectThread
  <2> QED
    BY <1>1, <1>4, <1>5, <2>1
<1>7. ASSUME NEW s \in Send, Ends(s) \/ Opened(s) PROVE StreamIsControlled'
  BY <1>2, <1>3, <1>7, EndingSteps
<1>8. ASSUME \/ \E s \in Send : Server(s) \/ Ask(s) \/ FailTurn(s)
             \/ \E i \in Load : Loader(i)
             \/ \E a \in Approval : Answer(a) \/ DecisionFails(a)
             \/ UNCHANGED vars
      PROVE  StreamIsControlled'
  BY <1>5, <1>8 DEF Server, Accept, Settle, EndTurn, Disconnected, Ask, FailTurn, Loader,
                    LoadServed, LoadReturned, LoadFailed, Answer, DecisionArrives,
                    DecisionReturns, DecisionFails, vars
<1> QED
  BY <1>6, <1>7, <1>8 DEF Next, Reader, Failure, Ends

LEMMA ControlInit == Init => StreamIsControlled
BY DEF Init, StreamIsControlled, Streaming

(* There is one stream being read at most, and the ref holds its           *)
(* controller: whatever the page aborts is all that it reads.              *)
THEOREM StreamsAreControlled == Spec => []StreamIsControlled
BY TypeInit, TypeNext, ControlInit, ControlNext, PTL DEF Spec
-----------------------------------------------------------------------------
(***************************************************************************)
(* The dialog.  Messages are sent in order, a stream that is read is the   *)
(* last one sent, and the page is on its thread.                           *)
(***************************************************************************)
InOrder ==
  \A s, o \in Send : s < o /\ (reader[s] = "unsent" \/ Streaming(s)) => reader[o] = "unsent"

ReadIsCurrent == \A s \in Send : reader[s] = "reading" => currentThreadId = target[s]

DialogInv == InOrder /\ ReadIsCurrent /\ DialogIsOfCurrentTurn

LEMMA DialogInit == Init => DialogInv
BY DEF Init, DialogInv, InOrder, ReadIsCurrent, DialogIsOfCurrentTurn, Streaming

(* Only a turn that the server has accepted asks.                          *)
AskedByTurn == pendingApproval # None => turn[pendingApproval[1]] # "none"

LEMMA AskedInit == Init => AskedByTurn
BY DEF Init, AskedByTurn

LEMMA AskedNext == TypeOK /\ AskedByTurn /\ [Next]_vars => AskedByTurn'
<1> SUFFICES ASSUME TypeOK, AskedByTurn, [Next]_vars PROVE AskedByTurn'
  OBVIOUS
<1>0. pendingApproval # None => pendingApproval[1] \in Send
  BY DEF TypeOK, Approval
<1> USE <1>0 DEF AskedByTurn, page, dialog, server
<1>1. ASSUME UNCHANGED turn, pendingApproval' \in {None, pendingApproval}
      PROVE  AskedByTurn'
  BY <1>1
<1>2. ASSUME User \/ (\E s \in Send : Ends(s) \/ Opened(s))
      PROVE  AskedByTurn'
  BY <1>1, <1>2
     DEF User, HandleSend, HandleRetry, Submit, HandleStop, HandleNewConversation,
         SubmitDecision, HandleSelectThread, Ends, AbortDelivered, RequestFails,
         ConnectionFails, ShowError, ReaderDone, Opened
<1>3. ASSUME NEW s \in Send, Accept(s) \/ Settle(s) \/ EndTurn(s) \/ Disconnected(s) \/ FailTurn(s)
      PROVE  AskedByTurn'
  BY <1>3 DEF Accept, Settle, EndTurn, Disconnected, FailTurn, TypeOK
<1>4. ASSUME NEW s \in Send, Ask(s) PROVE AskedByTurn'
  BY <1>4 DEF Ask, TypeOK
<1>5. ASSUME NEW a \in Approval, DecisionArrives(a) PROVE AskedByTurn'
  BY <1>5 DEF DecisionArrives, TypeOK
<1>6. ASSUME (\E i \in Load : Loader(i))
               \/ (\E a \in Approval : DecisionReturns(a) \/ DecisionFails(a))
               \/ UNCHANGED vars
      PROVE  AskedByTurn'
  BY <1>1, <1>6 DEF Loader, LoadServed, LoadReturned, LoadFailed, DecisionReturns,
                    DecisionFails, vars
<1> QED
  BY <1>2, <1>3, <1>4, <1>5, <1>6 DEF Next, Server, Reader, Answer, Failure, Ends

LEMMA DialogNext ==
  TypeOK /\ StreamIsControlled /\ AskedByTurn /\ DialogInv /\ [Next]_vars => DialogInv'
<1> SUFFICES ASSUME TypeOK, StreamIsControlled, AskedByTurn, DialogInv, [Next]_vars
             PROVE  DialogInv'
  OBVIOUS
<1>0. /\ \A s \in Send : s \in Int
      /\ pendingApproval # None => pendingApproval[1] \in Send
  BY DEF Send, TypeOK, Approval
<1> USE <1>0 DEF DialogInv, InOrder, ReadIsCurrent, DialogIsOfCurrentTurn, Streaming, page,
                 dialog, server
<1>1. ASSUME NEW s \in Send, NEW kept, Submit(s, kept) PROVE DialogInv'
  <2>1. /\ reader[s] = "unsent" /\ \A o \in Send : o < s => reader[o] # "unsent"
        /\ pendingApproval' = None
        /\ reader' = [Aborted(reader) EXCEPT ![s] = "fetching"]
    BY <1>1 DEF Submit
  <2>2. /\ reader'[s] = "fetching"
        /\ \A o \in Send \ {s} : /\ reader'[o] \notin {"fetching", "reading"}
                                 /\ reader'[o] = "unsent" <=> reader[o] = "unsent"
    BY <2>1, AbortsAll, AbortedType
  <2>3. InOrder'
    BY <2>1, <2>2
  <2> QED
    BY <2>1, <2>2, <2>3
<1>2. ASSUME NEW s \in Send, Ending(s), UNCHANGED <<currentThreadId, pendingApproval, target>>
      PROVE  DialogInv'
  <2>1. /\ reader[s] \in {"aborted", "fetching", "reading"}
        /\ reader'[s] \in {"stopped", "failed", "finished"}
        /\ reader'[s] = "stopped" <=> reader[s] = "aborted"
        /\ \A o \in Send \ {s} : reader'[o] = reader[o]
    BY <1>2 DEF Ending, TypeOK
  <2>2. InOrder' /\ ReadIsCurrent'
    BY <1>2, <2>1
  <2>3. DialogIsOfCurrentTurn'
    <3> SUFFICES ASSUME pendingApproval # None
                 PROVE  LET o == pendingApproval[1] IN
                        /\ currentThreadId = target[o]
                        /\ reader'[o] \in {"reading", "failed", "finished"}
                        /\ \A q \in Send : q > o => reader'[q] = "unsent"
      BY <1>2
    <3>1. PICK o \in Send : o = pendingApproval[1]
      OBVIOUS
    <3>2. reader'[o] \in {"reading", "failed", "finished"}
      BY <1>2, <2>1, <3>1
    <3>3. \A q \in Send : q > o => reader'[q] = "unsent"
      BY <2>1, <3>1
    <3> QED
      BY <3>1, <3>2, <3>3
  <2> QED
    BY <2>2, <2>3
<1>3. ASSUME NEW s \in Send, Opened(s) PROVE DialogInv'
  <2>1. /\ reader[s] = "fetching" /\ currentThreadId' = target[s]
        /\ \A o \in Send : reader'[o] = IF o = s THEN "reading" ELSE reader[o]
        /\ UNCHANGED <<pendingApproval, target>>
    BY <1>3 DEF Opened, Rendered, TypeOK
  <2>2. pendingApproval = None
    BY <2>1
  <2>3. \A o \in Send \ {s} : reader[o] # "reading"
    BY <2>1 DEF StreamIsControlled
  <2> QED
    BY <2>1, <2>2, <2>3
<1>4. ASSUME reader' = Aborted(reader), pendingApproval' = None PROVE DialogInv'
  <2>1. \A s \in Send : /\ reader'[s] \notin {"fetching", "reading"}
                        /\ reader'[s] = "unsent" <=> reader[s] = "unsent"
    BY <1>4, AbortsAll
  <2> QED
    BY <1>4, <2>1
<1>5. ASSUME UNCHANGED <<currentThreadId, reader, target>>,
             pendingApproval' \in {None, pendingApproval}
      PROVE  DialogInv'
  BY <1>5
<1>6. ASSUME User PROVE DialogInv'
  <2>1. \/ \E s \in Send : \E kept : Submit(s, kept)
        \/ reader' = Aborted(reader) /\ pendingApproval' = None
        \/ UNCHANGED <<currentThreadId, reader, target, pendingApproval>>
    BY <1>6 DEF User, HandleSend, HandleRetry, HandleStop, HandleNewConversation,
                SubmitDecision, HandleSelectThread
  <2> QED
    BY <1>1, <1>4, <1>5, <2>1
<1>7. ASSUME NEW s \in Send, Ends(s) \/ Opened(s) PROVE DialogInv'
  BY <1>2, <1>3, <1>7, EndingSteps
<1>8. ASSUME NEW s \in Send, Accept(s) PROVE DialogInv'
  <2>1. /\ UNCHANGED <<currentThreadId, reader, pendingApproval>>
        /\ reader[s] \in {"fetching", "aborted", "stopped", "failed"}
        /\ \A o \in Send : target'[o] = target[o] \/ o = s
    BY <1>8 DEF Accept, TypeOK
  <2>2. InOrder' /\ ReadIsCurrent'
    BY <2>1
  <2>3. pendingApproval # None => target'[pendingApproval[1]] = target[pendingApproval[1]]
    BY <1>8, <2>1 DEF AskedByTurn, Accept
  <2>4. DialogIsOfCurrentTurn'
    BY <2>1, <2>3
  <2> QED
    BY <2>2, <2>4
<1>9. ASSUME NEW s \in Send, Ask(s) PROVE DialogInv'
  <2>1. /\ UNCHANGED <<currentThreadId, reader, target>>
        /\ \/ pendingApproval' = pendingApproval
           \/ reader[s] = "reading" /\ pendingApproval' = <<s, asks[s] + 1>>
    BY <1>9 DEF Ask
  <2> QED
    BY <2>1
<1>10. ASSUME \/ \E s \in Send : Settle(s) \/ EndTurn(s) \/ Disconnected(s) \/ FailTurn(s)
              \/ \E i \in Load : Loader(i)
              \/ \E a \in Approval : Answer(a) \/ DecisionFails(a)
              \/ UNCHANGED vars
       PROVE  DialogInv'
  BY <1>5, <1>10 DEF Settle, EndTurn, Disconnected, FailTurn, Loader, LoadServed,
                     LoadReturned, LoadFailed, Answer, DecisionArrives, DecisionReturns,
                     DecisionFails, vars
<1> QED
  BY <1>6, <1>7, <1>8, <1>9, <1>10 DEF Next, Server, Reader, Failure, Ends

(* The dialog asks about the thread on the page and the last turn that was *)
(* sent, whatever was stopped, left or sent since it opened.               *)
THEOREM DialogsAreOfCurrentTurn == Spec => []DialogIsOfCurrentTurn
<1>1. DialogInv => DialogIsOfCurrentTurn
  BY DEF DialogInv
<1> QED
  BY TypeInit, TypeNext, ControlInit, ControlNext, AskedInit, AskedNext, DialogInit,
     DialogNext, <1>1, PTL DEF Spec
=============================================================================
