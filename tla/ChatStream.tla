----------------------------- MODULE ChatStream -----------------------------
(***************************************************************************)
(* The chat turn of the backend: POST /chat/stream (routes/chat.py), the   *)
(* interrupt/resume loop of AgentService.stream_response, and the approval *)
(* requests that resolve an interrupt (AgentService.resolve_interrupt).    *)
(*                                                                         *)
(* A step runs from one await or yield of the event loop to the next.      *)
(* The LangGraph run behind astream() is external: it yields chunks in any *)
(* order, may pause on tool calls that need a decision, may raise, and at  *)
(* some point ends.  Bounds: MaxAsks questions a stream, MaxPauses         *)
(* interrupts at once, each of at most MaxCalls tool calls.                *)
(***************************************************************************)
EXTENDS Integers, FiniteSets, Sequences

CONSTANTS Thread,       \* conversation threads
          Stream,       \* POST /chat/stream requests, each made at most once
          Post,         \* POST /chat/approval requests, each made at most once
          SubAgent,     \* subagent names a run may report
          MaxAsks,      \* bound: interrupts in one stream
          MaxCalls,     \* bound: tool calls in one interrupt
          MaxPauses,    \* bound: interrupts a graph is paused on at once
          None          \* dict.get() of a missing key, an attribute not yet set

ApprovalId == Stream \X (1 .. MaxAsks)     \* str(uuid.uuid4()), unique by construction
Decision == {"approve", "edit", "reject"}
StreamState == {"idle", "accepted", "running", "asked", "waiting", "decided",
                "ended", "teardown", "closed", "failed", "done"}
Over == {"closed", "failed", "done"}
PostState == {"unsent", "sent", "resolved", "notfound"}

ASSUME BoundsAssumption ==
  MaxAsks \in Nat \ {0} /\ MaxCalls \in Nat \ {0} /\ MaxPauses \in Nat \ {0}

(* What a graph is paused on: the number of tool calls of each interrupt.  *)
Pause == UNION {[1 .. n -> 1 .. MaxCalls] : n \in 0 .. MaxPauses}

(* How an approval ended: the decision, the decisions sent to the graph,   *)
(* and what the graph was paused on.                                       *)
Outcome == [decision : Decision, calls : Pause,
            sent : UNION {[1 .. n -> Decision] : n \in 0 .. MaxCalls}]

ASSUME NoneAssumption == /\ None \notin ApprovalId
                         /\ None \notin Decision
                         /\ None \notin Outcome

VARIABLES
  pc,          \* where stream s is suspended
  thread,      \* its thread_id
  asks,        \* how many approvals it has asked for; the current one is <<s, asks[s]>>
  interrupt,   \* interrupt_data of the current run: action_count, 0 when None
  active,      \* active_subagents
  content,     \* full_content is not empty
  pending,     \* _pending_interrupts: thread_id -> the approval registered for it
  decision,    \* _PendingInterrupt.decision of the stream's current approval; once it is
               \* popped, the generator's local
  event,       \* _PendingInterrupt.decision_event is set
  paused,      \* external: the interrupts the graph of stream s is paused on
  post,        \* state of each approval request
  aim,         \* approval shown to the user who made it (not part of the body)
  verdict,     \* body.decision
  hit,         \* approval whose _PendingInterrupt it resolved
  settled,     \* history: how each approval was resumed: the decision, the Command's
               \* decisions, and what the graph was paused on
  shown,       \* history: streams whose client got text of the answer
  saved,       \* messages in the database: <<s, role>>
  reported,    \* streams whose client got the "Failed to save" error event
  overlapped   \* history: streams that shared a live thread with another stream

streamVars == <<pc, thread, asks, interrupt, active, content>>
pendingVars == <<pending, decision, event>>
postVars == <<post, aim, verdict, hit>>
recordVars == <<settled, shown, saved, reported, overlapped>>
vars == <<streamVars, pendingVars, paused, postVars, recordVars>>

(* Bug: one decision, however many calls are paused.                       *)
SingleDecision(d, n) == <<d>>

(* _build_resume_command: one decision for each of the n paused calls; an  *)
(* edit is for the first call and lets the others run as proposed.         *)
ResumeCommand(d, n) ==
  [i \in 1 .. n |-> IF d = "edit" /\ i > 1 THEN "approve" ELSE d]

Current(s) == <<s, asks[s]>>
Live(s) == pc[s] \notin {"idle"} \cup Over

(* Bug: the finally block is forgotten.                                    *)
KeepEntry(s) == pending

(* Bug: every thread's entry is cleared.                                   *)
ClearEntries(s) == [t \in Thread |-> None]

(* dict.pop(thread_id, None): whichever approval the slot holds.           *)
Popped(s) == [pending EXCEPT ![thread[s]] = None]

(* Bug: silence is taken for consent.                                      *)
ApproveOnTimeout == "approve"

(* Bug: a decision type that the middleware does not know.                 *)
UnknownOnTimeout == "timeout"

(* What an expired wait decides.                                           *)
TimeoutDecision == "reject"

(* pending.decision, or a rejection if it was never set.                   *)
Effective(s) == IF decision[s] = None THEN "reject" ELSE decision[s]

(* Bug: the decision is stored and nobody is told.                         *)
NotSignalled(e) == event

(* decision_event.set() on entry e.                                        *)
Signalled(e) ==
  [o \in Stream |-> IF e = Current(o) THEN TRUE ELSE event[o]]

TypeOK ==
  /\ pc \in [Stream -> StreamState]
  /\ thread \in [Stream -> Thread \cup {None}]
  /\ asks \in [Stream -> 0 .. MaxAsks]
  /\ interrupt \in [Stream -> 0 .. MaxCalls]
  /\ active \in [Stream -> SUBSET SubAgent]
  /\ content \in [Stream -> BOOLEAN]
  /\ pending \in [Thread -> ApprovalId \cup {None}]
  /\ decision \in [Stream -> Decision \cup {None}]
  /\ event \in [Stream -> BOOLEAN]
  /\ paused \in [Stream -> Pause]
  /\ post \in [Post -> PostState]
  /\ aim \in [Post -> ApprovalId \cup {None}]
  /\ verdict \in [Post -> Decision \cup {None}]
  /\ hit \in [Post -> ApprovalId \cup {None}]
  /\ settled \in [ApprovalId -> Outcome \cup {None}]
  /\ shown \subseteq Stream
  /\ saved \subseteq Stream \X {"user", "assistant"}
  /\ reported \subseteq Stream
  /\ overlapped \subseteq Stream

Init ==
  /\ pc = [s \in Stream |-> "idle"]
  /\ thread = [s \in Stream |-> None]
  /\ asks = [s \in Stream |-> 0]
  /\ interrupt = [s \in Stream |-> 0]
  /\ active = [s \in Stream |-> {}]
  /\ content = [s \in Stream |-> FALSE]
  /\ pending = [t \in Thread |-> None]
  /\ decision = [s \in Stream |-> None]
  /\ event = [s \in Stream |-> FALSE]
  /\ paused = [s \in Stream |-> << >>]
  /\ post = [p \in Post |-> "unsent"]
  /\ aim = [p \in Post |-> None]
  /\ verdict = [p \in Post |-> None]
  /\ hit = [p \in Post |-> None]
  /\ settled = [a \in ApprovalId |-> None]
  /\ shown = {}
  /\ saved = {}
  /\ reported = {}
  /\ overlapped = {}
-----------------------------------------------------------------------------
(***************************************************************************)
(* The request handler and the start of the generator.                     *)
(***************************************************************************)

(* The thread is resolved and the user message committed before the        *)
(* response starts.  Nothing looks for another stream on the thread.       *)
Accept(s, t) ==
  LET others == {o \in Stream \ {s} : Live(o) /\ thread[o] = t}
  IN  /\ pc[s] = "idle"
      /\ pc' = [pc EXCEPT ![s] = "accepted"]
      /\ thread' = [thread EXCEPT ![s] = t]
      /\ saved' = saved \cup {<<s, "user">>}
      /\ overlapped' = IF others = {} THEN overlapped
                                      ELSE overlapped \cup others \cup {s}
      /\ UNCHANGED <<asks, interrupt, active, content, pendingVars, paused,
                     postVars, settled, shown, reported>>

(* message_start is yielded and astream() entered.                         *)
Start(s) ==
  /\ pc[s] = "accepted"
  /\ pc' = [pc EXCEPT ![s] = "running"]
  /\ UNCHANGED <<thread, asks, interrupt, active, content, pendingVars, paused,
                 postVars, recordVars>>
-----------------------------------------------------------------------------
(***************************************************************************)
(* Chunks of the graph's run.                                              *)
(***************************************************************************)

(* A messages-mode chunk of the supervisor that carries text.              *)
Token(s) ==
  /\ pc[s] = "running"
  /\ content' = [content EXCEPT ![s] = TRUE]
  /\ shown' = shown \cup {s}
  /\ UNCHANGED <<pc, thread, asks, interrupt, active, pendingVars, paused,
                 postVars, settled, saved, reported, overlapped>>

(* The first chunk in a subagent's namespace: sub_agent_start.             *)
SubAgentStart(s, a) ==
  /\ pc[s] = "running"
  /\ a \notin active[s]
  /\ active' = [active EXCEPT ![s] = @ \cup {a}]
  /\ UNCHANGED <<pc, thread, asks, interrupt, content, pendingVars, paused,
                 postVars, recordVars>>

(* An updates-mode chunk with no __interrupt__ key: extract_interrupt      *)
(* returns None and the local is assigned all the same.                    *)
Update(s) ==
  /\ pc[s] = "running"
  /\ interrupt' = [interrupt EXCEPT ![s] = 0]
  /\ UNCHANGED <<pc, thread, asks, active, content, pendingVars, paused,
                 postVars, recordVars>>

(* An updates-mode chunk with the key __interrupt__: the graph is paused   *)
(* on these interrupts, those it reported before included, and the chunk   *)
(* lists the i-th first.  extract_interrupt takes that one and no other.   *)
Interrupt(s, calls, i) ==
  /\ pc[s] = "running"
  /\ asks[s] < MaxAsks
  /\ Len(paused[s]) <= Len(calls)
  /\ \A j \in 1 .. Len(paused[s]) : calls[j] = paused[s][j]
  /\ paused' = [paused EXCEPT ![s] = calls]
  /\ interrupt' = [interrupt EXCEPT ![s] = calls[i]]
  /\ UNCHANGED <<pc, thread, asks, active, content, pendingVars, postVars,
                 recordVars>>

(* astream() raises: an error event, no message_end, so the route finds    *)
(* full_content empty and saves nothing.                                   *)
Fail(s) ==
  /\ pc[s] = "running"
  /\ pc' = [pc EXCEPT ![s] = "failed"]
  /\ UNCHANGED <<thread, asks, interrupt, active, content, pendingVars, paused,
                 postVars, recordVars>>
-----------------------------------------------------------------------------
(***************************************************************************)
(* The end of a run: sub_agent_end for the active subagents, then          *)
(* message_end, or a question to the user.                                 *)
(***************************************************************************)
EndRun(s) ==
  /\ pc[s] = "running"
  /\ interrupt[s] = 0
  /\ active' = [active EXCEPT ![s] = {}]
  /\ pc' = [pc EXCEPT ![s] = "ended"]
  /\ UNCHANGED <<thread, asks, interrupt, content, pendingVars, paused,
                 postVars, recordVars>>

(* A fresh _PendingInterrupt replaces whatever the thread's slot held, and *)
(* approval_required is yielded.                                           *)
Ask(s) ==
  /\ pc[s] = "running"
  /\ interrupt[s] > 0
  /\ asks[s] < MaxAsks
  /\ active' = [active EXCEPT ![s] = {}]
  /\ asks' = [asks EXCEPT ![s] = @ + 1]
  /\ pending' = [pending EXCEPT ![thread[s]] = <<s, asks[s] + 1>>]
  /\ decision' = [decision EXCEPT ![s] = None]
  /\ event' = [event EXCEPT ![s] = FALSE]
  /\ pc' = [pc EXCEPT ![s] = "asked"]
  /\ UNCHANGED <<thread, interrupt, content, paused, postVars, recordVars>>

(* The event has been sent; the generator enters wait_for().               *)
Wait(s) ==
  /\ pc[s] = "asked"
  /\ pc' = [pc EXCEPT ![s] = "waiting"]
  /\ UNCHANGED <<thread, asks, interrupt, active, content, pendingVars, paused,
                 postVars, recordVars>>

(* decision_event was set; the finally block pops the thread's slot and    *)
(* approval_result is yielded.                                             *)
Wake(s) ==
  /\ pc[s] = "waiting"
  /\ event[s]
  /\ pending' = Popped(s)
  /\ pc' = [pc EXCEPT ![s] = "decided"]
  /\ UNCHANGED <<thread, asks, interrupt, active, content, decision, event,
                 paused, postVars, recordVars>>

(* Bug: wait_for() without a timeout.                                      *)
NoTimer(s) == FALSE /\ UNCHANGED vars

(* Bug: an expired wait leaves the loop instead of resuming the graph.     *)
EndOnTimeout(s) ==
  /\ pc[s] = "waiting"
  /\ pending' = Popped(s)
  /\ pc' = [pc EXCEPT ![s] = "ended"]
  /\ UNCHANGED <<thread, asks, interrupt, active, content, decision, event,
                 paused, postVars, recordVars>>

(* wait_for() times out, which it may also do after the event was set but  *)
(* before the generator runs again: the decision is overwritten.           *)
Timeout(s) ==
  /\ pc[s] = "waiting"
  /\ decision' = [decision EXCEPT ![s] = TimeoutDecision]
  /\ pending' = Popped(s)
  /\ pc' = [pc EXCEPT ![s] = "decided"]
  /\ UNCHANGED <<thread, asks, interrupt, active, content, event, paused,
                 postVars, recordVars>>

(* Bug: full_content belongs to the loop's body and starts anew.           *)
ResumeAfresh(s) ==
  /\ pc[s] = "decided"
  /\ settled' = [settled EXCEPT ![Current(s)] =
                   [decision |-> Effective(s),
                    sent |-> ResumeCommand(Effective(s), interrupt[s]),
                    calls |-> paused[s]]]
  /\ paused' = [paused EXCEPT ![s] = << >>]
  /\ interrupt' = [interrupt EXCEPT ![s] = 0]
  /\ content' = [content EXCEPT ![s] = FALSE]
  /\ pc' = [pc EXCEPT ![s] = "running"]
  /\ UNCHANGED <<thread, asks, active, pendingVars, postVars, shown, saved,
                 reported, overlapped>>

(* The graph runs on with the command, which has decisions for one         *)
(* interrupt; what the graph does about others it was paused on (report    *)
(* them again, raise) is in the chunks that follow.  full_content goes on. *)
Resume(s) ==
  /\ pc[s] = "decided"
  /\ settled' = [settled EXCEPT ![Current(s)] =
                   [decision |-> Effective(s),
                    sent |-> ResumeCommand(Effective(s), interrupt[s]),
                    calls |-> paused[s]]]
  /\ paused' = [paused EXCEPT ![s] = << >>]
  /\ interrupt' = [interrupt EXCEPT ![s] = 0]
  /\ pc' = [pc EXCEPT ![s] = "running"]
  /\ UNCHANGED <<thread, asks, active, content, pendingVars, postVars, shown,
                 saved, reported, overlapped>>
-----------------------------------------------------------------------------
(***************************************************************************)
(* After message_end: the route saves the assistant message if it has any  *)
(* text, and reports a failure to do so.                                   *)
(***************************************************************************)
Save(s) ==
  /\ pc[s] = "ended"
  /\ content[s]
  /\ saved' = saved \cup {<<s, "assistant">>}
  /\ pc' = [pc EXCEPT ![s] = "done"]
  /\ UNCHANGED <<thread, asks, interrupt, active, content, pendingVars, paused,
                 postVars, settled, shown, reported, overlapped>>

SaveFails(s) ==
  /\ pc[s] = "ended"
  /\ content[s]
  /\ reported' = reported \cup {s}
  /\ pc' = [pc EXCEPT ![s] = "done"]
  /\ UNCHANGED <<thread, asks, interrupt, active, content, pendingVars, paused,
                 postVars, settled, shown, saved, overlapped>>

NothingToSave(s) ==
  /\ pc[s] = "ended"
  /\ ~content[s]
  /\ pc' = [pc EXCEPT ![s] = "done"]
  /\ UNCHANGED <<thread, asks, interrupt, active, content, pendingVars, paused,
                 postVars, recordVars>>
-----------------------------------------------------------------------------
(***************************************************************************)
(* The client goes away, or the process does.                              *)
(***************************************************************************)

(* Cancellation inside the try leaves the finally block to run; elsewhere  *)
(* the frames unwind with no effect.                                       *)
Disconnect(s) ==
  /\ Live(s)
  /\ pc[s] # "teardown"
  /\ pc' = [pc EXCEPT ![s] = IF pc[s] \in {"asked", "waiting"} THEN "teardown"
                                                               ELSE "closed"]
  /\ UNCHANGED <<thread, asks, interrupt, active, content, pendingVars, paused,
                 postVars, recordVars>>

(* The finally block of a cancelled stream: at once when it was inside     *)
(* wait_for(), when the generator is finalised if it was at the yield.     *)
Teardown(s) ==
  /\ pc[s] = "teardown"
  /\ pending' = Popped(s)
  /\ pc' = [pc EXCEPT ![s] = "closed"]
  /\ UNCHANGED <<thread, asks, interrupt, active, content, decision, event,
                 paused, postVars, recordVars>>

(* The process restarts: the map and the generators are gone, the database *)
(* is not.                                                                 *)
Restart ==
  /\ \E s \in Stream : Live(s)
  /\ pc' = [s \in Stream |-> IF Live(s) THEN "closed" ELSE pc[s]]
  /\ pending' = [t \in Thread |-> None]
  /\ UNCHANGED <<thread, asks, interrupt, active, content, decision, event,
                 paused, postVars, recordVars>>
-----------------------------------------------------------------------------
(***************************************************************************)
(* Approval requests.                                                      *)
(***************************************************************************)

(* The user answers the dialog of the latest approval_required of stream s *)
(* (nothing clears it when the approval times out); the body carries the   *)
(* thread and the decision only.                                           *)
SendDecision(p, s, d) ==
  /\ post[p] = "unsent"
  /\ asks[s] > 0
  /\ post' = [post EXCEPT ![p] = "sent"]
  /\ aim' = [aim EXCEPT ![p] = Current(s)]
  /\ verdict' = [verdict EXCEPT ![p] = d]
  /\ UNCHANGED <<streamVars, pendingVars, paused, hit, recordVars>>

(* resolve_interrupt: the thread's entry, whichever approval it is, takes  *)
(* the decision, over an earlier one too.                                  *)
Resolve(p) ==
  LET entry == pending[thread[aim[p][1]]] IN
      /\ post[p] = "sent"
      /\ entry # None
      /\ post' = [post EXCEPT ![p] = "resolved"]
      /\ hit' = [hit EXCEPT ![p] = entry]
      /\ decision' = [o \in Stream |-> IF entry = Current(o) THEN verdict[p]
                                       ELSE decision[o]]
      /\ event' = Signalled(entry)
      /\ UNCHANGED <<streamVars, pending, paused, aim, verdict, recordVars>>

(* No entry: False, and 404.                                               *)
NotFound(p) ==
  /\ post[p] = "sent"
  /\ pending[thread[aim[p][1]]] = None
  /\ post' = [post EXCEPT ![p] = "notfound"]
  /\ UNCHANGED <<streamVars, pendingVars, paused, aim, verdict, hit, recordVars>>
-----------------------------------------------------------------------------
Chunk(s) ==
  \/ Token(s)
  \/ \E a \in SubAgent : SubAgentStart(s, a)
  \/ Update(s)
  \/ \E calls \in Pause : \E i \in 1 .. Len(calls) : Interrupt(s, calls, i)

Work(s) ==
  \/ Start(s) \/ EndRun(s) \/ Ask(s) \/ Wait(s) \/ Wake(s) \/ Resume(s)
  \/ Save(s) \/ SaveFails(s) \/ NothingToSave(s) \/ Teardown(s)

StreamNext(s) ==
  \/ \E t \in Thread : Accept(s, t)
  \/ Work(s) \/ Timeout(s) \/ Chunk(s) \/ Fail(s) \/ Disconnect(s)

PostNext(p) ==
  \/ \E s \in Stream, d \in Decision : SendDecision(p, s, d)
  \/ Resolve(p) \/ NotFound(p)

Next ==
  \/ \E s \in Stream : StreamNext(s)
  \/ \E p \in Post : PostNext(p)
  \/ Restart

Spec == Init /\ [][Next]_vars

(* The event loop runs what is ready, an external run ends, and the client *)
(* reads what it is sent or disconnects: each is a step of Work.  Requests *)
(* that were sent arrive.  Users, chunks, failures, and restarts are not   *)
(* fair.                                                                   *)
FairSpec ==
  /\ Spec
  /\ \A s \in Stream : WF_vars(Work(s))
  /\ \A p \in Post : WF_vars(Resolve(p) \/ NotFound(p))

(* The 300 s timer of wait_for() fires.                                    *)
TimerFires == \A s \in Stream : WF_vars(Timeout(s))
-----------------------------------------------------------------------------
(***************************************************************************)
(* Properties.                                                             *)
(***************************************************************************)

(* Always clean up, even if the stream is cancelled mid-wait: an entry of  *)
(* _pending_interrupts is the current approval of a stream on that thread  *)
(* whose try block is still open, so a request that is answered with       *)
(* success never reached a finished approval.                              *)
EntryIsOpen ==
  \A t \in Thread : pending[t] # None =>
    \E s \in Stream : /\ pending[t] = Current(s)
                      /\ thread[s] = t
                      /\ pc[s] \in {"asked", "waiting", "teardown"}

(* As long as no second stream shared its thread, a stream that asked can  *)
(* be answered: its approval is the one the thread's entry names.          *)
SoleAskerIsRegistered ==
  \A s \in Stream :
    pc[s] \in {"asked", "waiting"} /\ s \notin overlapped
      => pending[thread[s]] = Current(s)

(* The user who made request p was looking at question a, or at one on the *)
(* same thread that a took the place of: an earlier question of the same   *)
(* stream, or one of a stream that is over or shared the thread.           *)
GivenFor(p, a) ==
  LET seen == aim[p] IN
      /\ thread[seen[1]] = thread[a[1]]
      /\ \/ seen[1] = a[1] /\ seen[2] <= a[2]
         \/ pc[seen[1]] \in Over
         \/ seen[1] \in overlapped

(* Tool calls run, as proposed or edited, only when a request with that    *)
(* decision reached their question's entry in the map: a timeout or a      *)
(* missing decision never lets them run, nor does a decision made for      *)
(* another thread or for the open question of another stream that had its  *)
(* thread to itself.  A late answer to an earlier question of the thread   *)
(* does let them run: AnswersWhatWasShown below.                           *)
RunsWithConsent ==
  \A a \in ApprovalId :
    settled[a] # None /\ settled[a].decision # "reject"
      => \E p \in Post : /\ hit[p] = a
                        /\ verdict[p] = settled[a].decision
                        /\ GivenFor(p, a)

(* The decisions sent to the graph are as many as the tool calls of one of *)
(* the interrupts it is paused on: with a single interrupt one for every   *)
(* paused call, whatever chunks came between the pause and the question.   *)
(* Of several interrupts the others get none.                              *)
OneDecisionPerCall ==
  \A a \in ApprovalId : settled[a] # None =>
    \E i \in DOMAIN settled[a].calls :
      DOMAIN settled[a].sent = 1 .. settled[a].calls[i]

(* Text the client was shown in a turn that reached its end, before or     *)
(* after any number of approvals, is in the database, or the client was    *)
(* told that it is not.                                                    *)
AnswerSavedOrReported ==
  \A s \in Stream : pc[s] = "done" /\ s \in shown
    => <<s, "assistant">> \in saved \/ s \in reported

(* An assistant message in the database comes from a turn all of whose     *)
(* questions were settled and sent back to the graph, timeouts included.   *)
SavedTurnIsSettled ==
  \A s \in Stream : <<s, "assistant">> \in saved
    => \A k \in 1 .. asks[s] : settled[<<s, k>>] # None

(* With the timer every turn ends, whatever the users do: nobody has to    *)
(* answer.                                                                 *)
TurnEnds ==
  TimerFires => \A s \in Stream : pc[s] = "accepted" ~> pc[s] \in Over

(* A decision that was acknowledged unblocks the stream that waits for it, *)
(* with no help from the timer.                                            *)
AnswerUnblocks ==
  \A p \in Post, s \in Stream :
    hit[p] # None /\ hit[p] = Current(s) /\ pc[s] = "waiting"
      ~> pc[s] # "waiting"
-----------------------------------------------------------------------------
(***************************************************************************)
(* The abstract gate, seen in this state.                                  *)
(***************************************************************************)
GateOf(a) ==
  LET s == a[1] IN
  CASE settled[a] # None -> settled[a].decision
    [] settled[a] = None /\ a[2] > asks[s] -> "unasked"
    [] settled[a] = None /\ a = Current(s)
         /\ pc[s] \in {"asked", "waiting", "decided", "teardown"} -> "asked"
    [] OTHER -> "dropped"

Gate == INSTANCE ApprovalGate WITH
          Approval <- ApprovalId,
          Allowing <- {"approve", "edit"},
          Refusing <- {"reject"},
          gate <- [a \in ApprovalId |-> GateOf(a)],
          acked <- [a \in ApprovalId |-> {verdict[p] : p \in {q \in Post : hit[q] = a}}]

(* The turn keeps the promise of ApprovalGate for every approval.          *)
ImplementsGate == Gate!Spec
-----------------------------------------------------------------------------
(***************************************************************************)
(* Statements of the sources that the code does not keep.                  *)
(***************************************************************************)

(* "Tool call approved successfully": an acknowledged decision is the one  *)
(* the call is settled with.                                               *)
AcknowledgedIsApplied ==
  \A p \in Post : hit[p] # None /\ settled[hit[p]] # None
    => settled[hit[p]].decision = verdict[p]

(* The dialog answers the approval it shows.                               *)
AnswersWhatWasShown == \A p \in Post : hit[p] # None => hit[p] = aim[p]
=============================================================================
