----------------------------- MODULE ChatClient -----------------------------
(***************************************************************************)
(* The chat page (ChatInterface.tsx): the streams it reads, the approval   *)
(* dialog, and the messages it shows, against the part of the backend that *)
(* answers them (ChatStream has the backend in full).                      *)
(*                                                                         *)
(* A step of the page is a handler up to its next await, with the state    *)
(* updates it makes and the effect that runs after them.  A server event   *)
(* is read when it is sent; requests and their responses take time, and a  *)
(* connection may break before or after the server has acted.              *)
(* Messages are abstracted to the turn they belong to; threads are not     *)
(* deleted here.                                                           *)
(***************************************************************************)
EXTENDS Integers, FiniteSets

CONSTANTS Existing,     \* threads that were there before
          MaxSends,     \* bound: messages sent by the page
          MaxAsks,      \* bound: approvals asked for in one turn
          Load,         \* GET /threads/{id} requests that may be in flight at once
          None          \* null

Send == 1 .. MaxSends                 \* calls of handleSend, in the order they are made
Approval == Send \X (1 .. MaxAsks)    \* approval_id
Thread == Existing \cup Send          \* send s creates thread s, if it creates one

ASSUME BoundsAssumption == MaxSends \in Nat /\ MaxAsks \in Nat
ASSUME NoneAssumption == None \notin Thread /\ None \notin Approval

Item == ({"history"} \X Existing) \cup ({"user", "answer"} \X Send)

VARIABLES
  currentThreadId, isLoading, messages, isThreadLoading,
  pendingApproval, isApprovalSubmitting,
  controller,    \* abortControllerRef.current: the send it belongs to
  reader,        \* where each handleSend is
  load,          \* loadThreadMessages calls: the thread asked for, and the answer once sent
  post,          \* POST /chat/approval of each approval the page waits for
  turn,          \* server: the turn of each send
  target,        \* server: its thread
  asks,          \* server: approvals it has asked for
  entry,         \* server: _pending_interrupts
  db             \* server: messages of the turn that were saved

page == <<currentThreadId, isLoading, messages, isThreadLoading, load>>
dialog == <<pendingApproval, isApprovalSubmitting>>
server == <<turn, target, asks, entry, db>>
vars == <<page, dialog, controller, reader, post, server>>

ReaderState == {"unsent", "fetching", "reading", "aborted", "stopped", "failed", "finished"}

TypeOK ==
  /\ currentThreadId \in Thread \cup {None}
  /\ isLoading \in BOOLEAN
  /\ messages \subseteq Item
  /\ isThreadLoading \in BOOLEAN
  /\ pendingApproval \in Approval \cup {None}
  /\ isApprovalSubmitting \in BOOLEAN
  /\ controller \in Send \cup {None}
  /\ reader \in [Send -> ReaderState]
  /\ load \in [Load -> {None} \cup [thread : Thread, answer : {None} \cup SUBSET Item]]
  /\ post \in [Approval -> {"none", "sent", "ok", "notfound"}]
  /\ turn \in [Send -> {"none", "open", "asking", "decided", "over"}]
  /\ target \in [Send -> Thread \cup {None}]
  /\ asks \in [Send -> 0 .. MaxAsks]
  /\ entry \in [Thread -> Approval \cup {None}]
  /\ db \in [Send -> SUBSET {"user", "answer"}]

(* The messages of a thread in the database.                               *)
Saved(t) == {<<"history", h>> : h \in Existing \cap {t}}
              \cup {m \in {"user", "answer"} \X Send :
                     target[m[2]] = t /\ m[1] \in db[m[2]]}

(* The page opens on the thread it remembers, if any, and loads it.        *)
Init ==
  /\ currentThreadId \in Existing \cup {None}
  /\ isLoading = FALSE
  /\ messages = {}
  /\ isThreadLoading = (currentThreadId # None)
  /\ pendingApproval = None
  /\ isApprovalSubmitting = FALSE
  /\ controller = None
  /\ reader = [s \in Send |-> "unsent"]
  /\ \E i \in Load :
       load = [j \in Load |-> IF j = i /\ currentThreadId # None
                              THEN [thread |-> currentThreadId, answer |-> None]
                              ELSE None]
  /\ post = [a \in Approval |-> "none"]
  /\ turn = [s \in Send |-> "none"]
  /\ target = [s \in Send |-> None]
  /\ asks = [s \in Send |-> 0]
  /\ entry = [t \in Thread |-> None]
  /\ db = [s \in Send |-> {}]
-----------------------------------------------------------------------------
(* The effect on [currentThreadId, isLoading]: with a thread and no        *)
(* loading, its messages are asked for.                                    *)
Rendered(thread, loading) ==
  /\ currentThreadId' = thread
  /\ isLoading' = loading
  /\ IF <<thread, loading>> # <<currentThreadId, isLoading>> /\ thread # None /\ ~loading
     THEN /\ isThreadLoading' = TRUE
          /\ \E i \in Load :
               /\ load[i] = None
               /\ load' = [load EXCEPT ![i] = [thread |-> thread, answer |-> None]]
     ELSE UNCHANGED <<isThreadLoading, load>>

Streaming(s) == reader[s] \in {"fetching", "reading"}

(* abortControllerRef.current?.abort(), over the given readers.            *)
Aborted(r) ==
  [s \in Send |-> IF s = controller /\ Streaming(s) THEN "aborted" ELSE r[s]]

(* handleSend up to the fetch; the previous stream is aborted.             *)
Submit(s, kept) ==
  /\ reader[s] = "unsent"
  /\ \A o \in Send : o < s => reader[o] # "unsent"
  /\ pendingApproval = None
  /\ messages' = kept \cup {<<"user", s>>}
  /\ Rendered(currentThreadId, TRUE)
  /\ controller' = s
  /\ reader' = [Aborted(reader) EXCEPT ![s] = "fetching"]
  /\ target' = [target EXCEPT ![s] = currentThreadId]
  /\ UNCHANGED <<dialog, post, turn, asks, entry, db>>

(* The input box is disabled while loading.                                *)
HandleSend(s) == ~isLoading /\ Submit(s, messages)

(* handleRetry of an answer, offered on every assistant message with text, *)
(* a turn loading or not (a thread loading hides the messages): what       *)
(* follows its user message is removed.  A thread's history stands for all *)
(* its messages; its last answer is retried.                               *)
HandleRetry(s, m) ==
  /\ ~isThreadLoading
  /\ m \in messages
  /\ \/ m[1] = "history"
     \/ m[1] = "answer" /\ <<"user", m[2]>> \in messages
  /\ Submit(s, {n \in messages :
                  \/ n[1] = "history"
                  \/ m[1] = "answer" /\ (n[2] < m[2] \/ n = <<"user", m[2]>>)})

(* Bug: the ref is cleared whosever controller it holds.                   *)
ClearController(s) ==
  /\ controller' = None
  /\ Rendered(currentThreadId, FALSE)

(* The finally block of handleSend.                                        *)
Finally(s) ==
  /\ controller' = IF controller = s THEN None ELSE controller
  /\ Rendered(currentThreadId, FALSE)

(* Bug: an abort returns without the finally block.                        *)
ReturnOnAbort(s) ==
  /\ reader[s] = "aborted"
  /\ reader' = [reader EXCEPT ![s] = "stopped"]
  /\ UNCHANGED <<page, dialog, controller, post, server>>

(* fetch() or read() rejects with AbortError.                              *)
AbortDelivered(s) ==
  /\ reader[s] = "aborted"
  /\ reader' = [reader EXCEPT ![s] = "stopped"]
  /\ Finally(s)
  /\ UNCHANGED <<messages, dialog, post, server>>

(* The catch and finally blocks of handleSend: an error message, shown as  *)
(* an answer, and the end of loading.  The dialog stays as it is.          *)
ShowError(s) ==
  /\ messages' = messages \cup {<<"answer", s>>}
  /\ Finally(s)
  /\ UNCHANGED <<dialog, post, server>>

(* An error status: the server refused the message.                        *)
RequestFails(s) ==
  /\ reader[s] = "fetching"
  /\ turn[s] = "none"
  /\ reader' = [reader EXCEPT ![s] = "finished"]
  /\ ShowError(s)

(* fetch() or read() rejects with a network error: the request may not     *)
(* have arrived yet, its response may be lost, the turn may be under way.  *)
ConnectionFails(s) ==
  /\ Streaming(s)
  /\ reader' = [reader EXCEPT ![s] = "failed"]
  /\ ShowError(s)

(* The response arrives: an empty assistant message, then message_start.   *)
Opened(s) ==
  /\ reader[s] = "fetching"
  /\ turn[s] # "none"
  /\ reader' = [reader EXCEPT ![s] = "reading"]
  /\ messages' = messages \cup {<<"answer", s>>}
  /\ Rendered(target[s], isLoading)
  /\ UNCHANGED <<dialog, controller, post, server>>

(* read() returns done.                                                    *)
ReaderDone(s) ==
  /\ reader[s] = "reading"
  /\ turn[s] = "over"
  /\ reader' = [reader EXCEPT ![s] = "finished"]
  /\ Finally(s)
  /\ UNCHANGED <<messages, dialog, post, server>>
-----------------------------------------------------------------------------
(* handleStop.  The dialog, while it is open, covers the button.           *)
HandleStop ==
  /\ isLoading
  /\ pendingApproval = None
  /\ reader' = Aborted(reader)
  /\ controller' = None
  /\ Rendered(currentThreadId, FALSE)
  /\ UNCHANGED <<messages, dialog, post, server>>

(* handleSelectThread, of a thread that exists; the dialog covers the      *)
(* sidebar.                                                                *)
HandleSelectThread(t) ==
  /\ t # currentThreadId
  /\ t \in Existing \/ t \in {target[s] : s \in {o \in Send : turn[o] # "none"}}
  /\ pendingApproval = None
  /\ reader' = Aborted(reader)
  /\ messages' = {}
  /\ Rendered(t, isLoading)
  /\ UNCHANGED <<dialog, controller, post, server>>

(* Bug: the dialog of the conversation that is left stays open.            *)
KeepDialog ==
  /\ reader' = Aborted(reader)
  /\ messages' = {}
  /\ Rendered(None, isLoading)
  /\ UNCHANGED <<dialog, controller, post, server>>

(* handleNewConversation, also by Ctrl+N with the dialog open.             *)
HandleNewConversation ==
  /\ reader' = Aborted(reader)
  /\ messages' = {}
  /\ pendingApproval' = None
  /\ Rendered(None, isLoading)
  /\ UNCHANGED <<isApprovalSubmitting, controller, post, server>>
-----------------------------------------------------------------------------
(* loadThreadMessages: the server answers, the answer arrives whatever the *)
(* page shows by then, or the request fails and changes nothing.           *)
LoadServed(i) ==
  /\ load[i] # None
  /\ load[i].answer = None
  /\ load' = [load EXCEPT ![i].answer = Saved(load[i].thread)]
  /\ UNCHANGED <<currentThreadId, isLoading, messages, isThreadLoading, dialog,
                 controller, reader, post, server>>

LoadReturned(i) ==
  /\ load[i] # None
  /\ load[i].answer # None
  /\ messages' = load[i].answer
  /\ load' = [load EXCEPT ![i] = None]
  /\ isThreadLoading' = FALSE
  /\ UNCHANGED <<currentThreadId, isLoading, dialog, controller, reader, post, server>>

LoadFailed(i) ==
  /\ load[i] # None
  /\ load' = [load EXCEPT ![i] = None]
  /\ isThreadLoading' = FALSE
  /\ UNCHANGED <<currentThreadId, isLoading, messages, dialog, controller, reader,
                 post, server>>
-----------------------------------------------------------------------------
(* handleApprovalDecision up to the request; the buttons are disabled      *)
(* while submitting.                                                       *)
SubmitDecision ==
  /\ pendingApproval # None
  /\ ~isApprovalSubmitting
  /\ isApprovalSubmitting' = TRUE
  /\ post' = [post EXCEPT ![pendingApproval] = "sent"]
  /\ UNCHANGED <<page, pendingApproval, controller, reader, server>>

(* resolve_interrupt: the thread's entry, whichever it is, is decided, or  *)
(* there is none.                                                          *)
DecisionArrives(a) ==
  LET e == entry[target[a[1]]] IN
  /\ post[a] = "sent"
  /\ post' = [post EXCEPT ![a] = IF e = None THEN "notfound" ELSE "ok"]
  /\ turn' = [s \in Send |-> IF e # None /\ turn[s] = "asking" /\ e = <<s, asks[s]>>
                             THEN "decided" ELSE turn[s]]
  /\ UNCHANGED <<page, dialog, controller, reader, target, asks, entry, db>>

(* Bug: the dialog is closed with an empty request instead of null.        *)
CloseWithEmpty(a) ==
  /\ post[a] \in {"ok", "notfound"}
  /\ post' = [post EXCEPT ![a] = "none"]
  /\ pendingApproval' = IF post[a] = "ok" THEN <<0, 0>> ELSE pendingApproval
  /\ isApprovalSubmitting' = FALSE
  /\ UNCHANGED <<page, controller, reader, server>>

(* The rest of handleApprovalDecision.                                     *)
DecisionReturns(a) ==
  /\ post[a] \in {"ok", "notfound"}
  /\ post' = [post EXCEPT ![a] = "none"]
  /\ pendingApproval' = IF post[a] = "ok" THEN None ELSE pendingApproval
  /\ isApprovalSubmitting' = FALSE
  /\ UNCHANGED <<page, controller, reader, server>>

(* The request is refused or lost, or the response of a decision that was  *)
(* set is lost: the catch block leaves the dialog open, to be answered     *)
(* again.  (A request that arrives after the page gave it up is one of     *)
(* ChatStream's, where the requests wait for nobody.)                      *)
DecisionFails(a) ==
  /\ post[a] \in {"sent", "ok"}
  /\ post' = [post EXCEPT ![a] = "none"]
  /\ isApprovalSubmitting' = FALSE
  /\ UNCHANGED <<page, pendingApproval, controller, reader, server>>
-----------------------------------------------------------------------------
(***************************************************************************)
(* The server.                                                             *)
(***************************************************************************)

(* POST /chat/stream: a thread is created if none was named.  The request  *)
(* may get there after the page has given it up.                           *)
Accept(s) ==
  /\ turn[s] = "none"
  /\ reader[s] \in {"fetching", "aborted", "stopped", "failed"}
  /\ target' = [target EXCEPT ![s] = IF @ = None THEN s ELSE @]
  /\ turn' = [turn EXCEPT ![s] = "open"]
  /\ db' = [db EXCEPT ![s] = {"user"}]
  /\ UNCHANGED <<page, dialog, controller, reader, post, asks, entry>>

(* approval_required.  A page that reads the stream shows it, and lets go  *)
(* of the submission of an earlier one.                                    *)
Ask(s) ==
  LET a == <<s, asks[s] + 1>>
      shown == reader[s] = "reading" IN
  /\ turn[s] = "open"
  /\ asks[s] < MaxAsks
  /\ turn' = [turn EXCEPT ![s] = "asking"]
  /\ asks' = [asks EXCEPT ![s] = @ + 1]
  /\ entry' = [entry EXCEPT ![target[s]] = a]
  /\ pendingApproval' = IF shown THEN a ELSE pendingApproval
  /\ isApprovalSubmitting' = IF shown THEN FALSE ELSE isApprovalSubmitting
  /\ UNCHANGED <<page, controller, reader, post, target, db>>

Gone(s) == [entry EXCEPT ![target[s]] = None]

(* A decision or, after five minutes, none: approval_result is sent, which *)
(* leaves the dialog as it is.                                             *)
Settle(s) ==
  /\ turn[s] \in {"asking", "decided"}
  /\ turn' = [turn EXCEPT ![s] = "open"]
  /\ entry' = Gone(s)
  /\ UNCHANGED <<page, dialog, controller, reader, post, target, asks, db>>

(* message_end, then the answer is saved, then the response ends.          *)
EndTurn(s) ==
  /\ turn[s] = "open"
  /\ turn' = [turn EXCEPT ![s] = "over"]
  /\ db' = [db EXCEPT ![s] = @ \cup {"answer"}]
  /\ UNCHANGED <<page, dialog, controller, reader, post, target, asks, entry>>

(* An error event: nothing is saved.                                       *)
FailTurn(s) ==
  /\ turn[s] = "open"
  /\ turn' = [turn EXCEPT ![s] = "over"]
  /\ UNCHANGED <<page, dialog, controller, reader, post, target, asks, entry, db>>

(* The server notices that nobody reads any more.                          *)
Disconnected(s) ==
  /\ turn[s] \in {"open", "asking", "decided"}
  /\ reader[s] \in {"aborted", "stopped", "failed"}
  /\ turn' = [turn EXCEPT ![s] = "over"]
  /\ entry' = IF turn[s] = "open" THEN entry ELSE Gone(s)
  /\ UNCHANGED <<page, dialog, controller, reader, post, target, asks, db>>
-----------------------------------------------------------------------------
User ==
  \/ \E s \in Send : HandleSend(s) \/ \E m \in Item : HandleRetry(s, m)
  \/ HandleStop \/ HandleNewConversation \/ SubmitDecision
  \/ \E t \in Thread : HandleSelectThread(t)

Reader(s) ==
  AbortDelivered(s) \/ Opened(s) \/ ReaderDone(s)

Loader(i) == LoadServed(i) \/ LoadReturned(i) \/ LoadFailed(i)

Answer(a) == DecisionArrives(a) \/ DecisionReturns(a)

Failure ==
  \/ \E s \in Send : RequestFails(s) \/ ConnectionFails(s) \/ FailTurn(s)
  \/ \E a \in Approval : DecisionFails(a)

Server(s) ==
  \/ Accept(s) \/ Settle(s) \/ EndTurn(s) \/ Disconnected(s)

Next ==
  \/ User
  \/ \E s \in Send : Reader(s) \/ Server(s) \/ Ask(s)
  \/ \E i \in Load : Loader(i)
  \/ \E a \in Approval : Answer(a)
  \/ Failure

Spec == Init /\ [][Next]_vars

(* The network answers, a run of the graph ends, and nobody waits longer   *)
(* than the timer: the page and the server are fair, users and failures    *)
(* are not.                                                                *)
FairSpec ==
  /\ Spec
  /\ \A s \in Send : WF_vars(Reader(s)) /\ WF_vars(Server(s))
  /\ \A i \in Load : WF_vars(Loader(i))
  /\ \A a \in Approval : WF_vars(Answer(a))
-----------------------------------------------------------------------------
(***************************************************************************)
(* Properties.                                                             *)
(***************************************************************************)

(* The controller in the ref is that of the stream being read, and there   *)
(* is no other: Stop, a new thread, or a new message reach every stream.   *)
StreamIsControlled == \A s \in Send : Streaming(s) => controller = s

(* The dialog belongs to the thread on the page and to its last stream,    *)
(* which nobody stopped or left, though its connection may have failed:    *)
(* what the user answers is not another conversation's question, nor one   *)
(* whose turn the page has abandoned.                                      *)
DialogIsOfCurrentTurn ==
  pendingApproval # None =>
    LET s == pendingApproval[1] IN
    /\ currentThreadId = target[s]
    /\ reader[s] \in {"reading", "failed", "finished"}
    /\ \A o \in Send : o > s => reader[o] = "unsent"

(* The page comes out of every loading state, aborted streams included.    *)
LoadingEnds == isLoading ~> ~isLoading
=============================================================================
