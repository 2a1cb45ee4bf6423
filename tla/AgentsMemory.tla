---------------------------- MODULE AgentsMemory ----------------------------
(***************************************************************************)
(* A user's AGENTS.md: the store (agents/middleware.py), the memory        *)
(* endpoints, the turns whose agent edits it and are watched for that      *)
(* (routes/chat.py), the badge, and the modal that shows it                *)
(* (MemoryModal.tsx).                                                      *)
(*                                                                         *)
(* A step of the backend runs from one suspension of the event loop to the *)
(* next: the store is in memory and its awaits do not suspend.  The agent  *)
(* edits the file from a worker thread.  A step of the modal is a handler  *)
(* up to its next await.  Left out: created_at, which nobody reads, the    *)
(* size limit, and the error messages.                                     *)
(***************************************************************************)
EXTENDS Integers

CONSTANTS Text,         \* contents of the file
          Empty,        \* the empty text
          Default,      \* DEFAULT_AGENTS_MD_CONTENT
          Turn,         \* chat turns of the user
          MaxSaves,     \* bound: saves from the modal
          MaxEdits,     \* bound: edits by agents
          None          \* no item in the store, no request

Save == 1 .. MaxSaves
MaxWrites == MaxSaves + MaxEdits
File == [content : Text, modified_at : 1 .. MaxWrites]

ASSUME TextAssumption == /\ {Empty, Default} \subseteq Text
                         /\ None \notin Text \cup File \cup 1 .. MaxWrites
ASSUME BoundsAssumption == MaxSaves \in Nat /\ MaxEdits \in Nat

VARIABLES
  file,          \* item of the user's namespace in _memory_store
  clock,         \* writes so far: each has a time of its own
  stored,        \* history: contents the file has had
  turn,          \* where each turn is
  before,        \* its modified_at_before
  edit,          \* what its agent read for the edit under way; NoEdit without one
  edits,         \* edits begun
  wrote,         \* history: turns whose agent has written
  unseen,        \* history: turns that wrote and ended since the modal was last opened
  memoryUpdated, \* the badge
  open, content, savedContent, status,
  load,          \* GET /memory of the current opening
  save,          \* PUT /memory requests
  timer,         \* savedTimerRef holds a timer
  stray          \* timers that are in no ref

NoEdit == [idle |-> TRUE]
NoLoad == [state |-> "none", answer |-> Empty]

storeVars == <<file, clock, stored>>
turnVars == <<turn, before, edit, edits, wrote, unseen>>
modalVars == <<open, content, savedContent, status, load>>
timerVars == <<timer, stray>>
vars == <<storeVars, turnVars, memoryUpdated, modalVars, save, timerVars>>

TypeOK ==
  /\ file \in File \cup {None}
  /\ clock \in 0 .. MaxWrites
  /\ stored \subseteq Text
  /\ turn \in [Turn -> {"idle", "running", "done", "aborted"}]
  /\ before \in [Turn -> (1 .. MaxWrites) \cup {None}]
  /\ edit \in [Turn -> {NoEdit} \cup [seen : File \cup {None}]]
  /\ edits \in 0 .. MaxEdits
  /\ wrote \subseteq Turn /\ unseen \subseteq wrote
  /\ memoryUpdated \in BOOLEAN
  /\ open \in BOOLEAN
  /\ {content, savedContent} \subseteq Text
  /\ status \in {"idle", "loading", "saving", "saved", "error"}
  /\ load \in [state : {"none", "sent", "served"}, answer : Text]
  /\ save \in [Save -> [text : Text, server : {"unsent", "sent", "written"},
                        client : {"unsent", "waiting", "done"}]]
  /\ timer \in BOOLEAN
  /\ stray \in 0 .. MaxSaves

(* A fresh process, and a page that has just been opened.                  *)
Init ==
  /\ file = None
  /\ clock = 0
  /\ stored = {}
  /\ turn = [k \in Turn |-> "idle"]
  /\ before = [k \in Turn |-> None]
  /\ edit = [k \in Turn |-> NoEdit]
  /\ edits = 0
  /\ wrote = {}
  /\ unseen = {}
  /\ memoryUpdated = FALSE
  /\ open = FALSE
  /\ content = Empty
  /\ savedContent = Empty
  /\ status = "idle"
  /\ load = NoLoad
  /\ save = [i \in Save |-> [text |-> Empty, server |-> "unsent", client |-> "unsent"]]
  /\ timer = FALSE
  /\ stray = 0
-----------------------------------------------------------------------------
(***************************************************************************)
(* The store and the turns.                                                *)
(***************************************************************************)

(* aput() of a file with this text, modified now.                          *)
Put(text) ==
  /\ clock' = clock + 1
  /\ file' = [content |-> text, modified_at |-> clock + 1]
  /\ stored' = stored \cup {text}

(* get_agents_md: the default stands in for a missing file.                *)
Content == IF file = None THEN Default ELSE file.content

(* get_agents_md_modified_at                                               *)
ModifiedAt == IF file = None THEN None ELSE file.modified_at

(* The snapshot before the agent runs.                                     *)
StartTurn(k) ==
  /\ turn[k] = "idle"
  /\ turn' = [turn EXCEPT ![k] = "running"]
  /\ before' = [before EXCEPT ![k] = ModifiedAt]
  /\ UNCHANGED <<storeVars, edit, edits, wrote, unseen, memoryUpdated, modalVars,
                 save, timerVars>>

(* External, StoreBackend on a worker thread: the agent reads the file...  *)
ReadForEdit(k) ==
  /\ turn[k] = "running"
  /\ edit[k] = NoEdit
  /\ edits < MaxEdits
  /\ edit' = [edit EXCEPT ![k] = [seen |-> file]]
  /\ edits' = edits + 1
  /\ UNCHANGED <<storeVars, turn, before, wrote, unseen, memoryUpdated, modalVars,
                 save, timerVars>>

(* ... and writes the whole of it, whatever was written since.  A thread   *)
(* outlives the turn that was aborted.                                     *)
WriteEdit(k, text) ==
  /\ edit[k] # NoEdit
  /\ edit[k].seen # None => text # edit[k].seen.content
  /\ Put(text)
  /\ edit' = [edit EXCEPT ![k] = NoEdit]
  /\ wrote' = wrote \cup {k}
  /\ UNCHANGED <<turn, before, edits, unseen, memoryUpdated, modalVars, save,
                 timerVars>>

(* Bug: only the creation of the file is noticed.                          *)
CreatedSince(k) == before[k] = None /\ ModifiedAt # None

(* modified_at_after differs from modified_at_before.                      *)
ModifiedSince(k) == ModifiedAt # None /\ ModifiedAt # before[k]

(* memory_updated lights the badge, then the answer is saved.              *)
EndTurn(k) ==
  /\ turn[k] = "running"
  /\ edit[k] = NoEdit
  /\ turn' = [turn EXCEPT ![k] = "done"]
  /\ memoryUpdated' = (memoryUpdated \/ ModifiedSince(k))
  /\ unseen' = unseen \cup ({k} \cap wrote)
  /\ UNCHANGED <<storeVars, before, edit, edits, wrote, modalVars, save, timerVars>>

(* The page goes away in the middle of the turn.                           *)
AbortTurn(k) ==
  /\ turn[k] = "running"
  /\ turn' = [turn EXCEPT ![k] = "aborted"]
  /\ UNCHANGED <<storeVars, before, edit, edits, wrote, unseen, memoryUpdated,
                 modalVars, save, timerVars>>

(* teardown, or a crash, and setup with an InMemoryStore.  The seed goes   *)
(* to the namespace of no user.                                            *)
Restart ==
  /\ file' = None
  /\ turn' = [k \in Turn |-> IF turn[k] = "running" THEN "aborted" ELSE turn[k]]
  /\ edit' = [k \in Turn |-> NoEdit]
  /\ UNCHANGED <<clock, stored, before, edits, wrote, unseen, memoryUpdated,
                 modalVars, save, timerVars>>
-----------------------------------------------------------------------------
(***************************************************************************)
(* The modal.                                                              *)
(***************************************************************************)
isDirty == content # savedContent
Busy == status \in {"loading", "saving"}

(* The button puts the badge out; the effect on [open] starts from a clean *)
(* slate and loads.                                                        *)
Open ==
  /\ ~open
  /\ open' = TRUE
  /\ memoryUpdated' = FALSE
  /\ unseen' = {}
  /\ content' = Empty
  /\ savedContent' = Empty
  /\ status' = "loading"
  /\ load' = [state |-> "sent", answer |-> Empty]
  /\ UNCHANGED <<storeVars, turn, before, edit, edits, wrote, save, timerVars>>

LoadServed ==
  /\ load.state = "sent"
  /\ load' = [state |-> "served", answer |-> Content]
  /\ UNCHANGED <<storeVars, turnVars, memoryUpdated, open, content, savedContent,
                 status, save, timerVars>>

LoadReturned ==
  /\ load.state = "served"
  /\ content' = load.answer
  /\ savedContent' = load.answer
  /\ status' = "idle"
  /\ load' = NoLoad
  /\ UNCHANGED <<storeVars, turnVars, memoryUpdated, open, save, timerVars>>

(* Bug: a failed load leaves the spinner on.                               *)
KeepLoading ==
  /\ load # NoLoad
  /\ load' = NoLoad
  /\ UNCHANGED <<storeVars, turnVars, memoryUpdated, open, content, savedContent,
                 status, save, timerVars>>

LoadFailed ==
  /\ load # NoLoad
  /\ status' = "error"
  /\ load' = NoLoad
  /\ UNCHANGED <<storeVars, turnVars, memoryUpdated, open, content, savedContent,
                 save, timerVars>>

(* onChange of the textarea, hidden or disabled while busy.                *)
Type(text) ==
  /\ open
  /\ ~Busy
  /\ text # content
  /\ content' = text
  /\ status' = "idle"
  /\ UNCHANGED <<storeVars, turnVars, memoryUpdated, open, savedContent, load, save,
                 timerVars>>

HandleReset ==
  /\ open
  /\ isDirty
  /\ ~Busy
  /\ content' = savedContent
  /\ status' = "idle"
  /\ UNCHANGED <<storeVars, turnVars, memoryUpdated, open, savedContent, load, save,
                 timerVars>>

(* handleOpenChange(false), possible at any time: unsaved edits go, and    *)
(* the load is cancelled.                                                  *)
Close ==
  /\ open
  /\ open' = FALSE
  /\ content' = savedContent
  /\ status' = IF isDirty THEN "idle" ELSE status
  /\ load' = NoLoad
  /\ UNCHANGED <<storeVars, turnVars, memoryUpdated, savedContent, save, timerVars>>

(* handleSave up to the request.                                           *)
HandleSave(i) ==
  /\ open
  /\ isDirty
  /\ ~Busy
  /\ save[i].client = "unsent"
  /\ \A j \in Save : j < i => save[j].client # "unsent"
  /\ status' = "saving"
  /\ save' = [save EXCEPT ![i] = [text |-> content, server |-> "sent",
                                  client |-> "waiting"]]
  /\ UNCHANGED <<storeVars, turnVars, memoryUpdated, open, content, savedContent,
                 load, timerVars>>

(* PUT /memory: set_agents_md                                              *)
SaveServed(i) ==
  /\ save[i].server = "sent"
  /\ Put(save[i].text)
  /\ save' = [save EXCEPT ![i].server = "written"]
  /\ UNCHANGED <<turnVars, memoryUpdated, modalVars, timerVars>>

(* The response, wherever the modal is by then; of the two timers started  *)
(* for the indicator one replaces the ref's.                               *)
SaveReturned(i) ==
  /\ save[i].client = "waiting"
  /\ save[i].server = "written"
  /\ content' = save[i].text
  /\ savedContent' = save[i].text
  /\ status' = "saved"
  /\ save' = [save EXCEPT ![i].client = "done"]
  /\ timer' = TRUE
  /\ stray' = stray + 1
  /\ UNCHANGED <<storeVars, turnVars, memoryUpdated, open, load>>

(* Bug: a save that failed counts as saved.                                *)
SavedAnyway(i) ==
  /\ save[i].client = "waiting"
  /\ savedContent' = save[i].text
  /\ content' = save[i].text
  /\ status' = "saved"
  /\ save' = [save EXCEPT ![i].client = "done"]
  /\ UNCHANGED <<storeVars, turnVars, memoryUpdated, open, load, timerVars>>

(* An error, also one on the way back or of a request that arrives late.   *)
SaveFailed(i) ==
  /\ save[i].client = "waiting"
  /\ status' = "error"
  /\ save' = [save EXCEPT ![i].client = "done"]
  /\ UNCHANGED <<storeVars, turnVars, memoryUpdated, open, content, savedContent,
                 load, timerVars>>

(* Two seconds later, whatever the status is by then.                      *)
TimerFires ==
  /\ timer
  /\ timer' = FALSE
  /\ status' = "idle"
  /\ UNCHANGED <<storeVars, turnVars, memoryUpdated, open, content, savedContent,
                 load, save, stray>>

(* Bug: an interval that goes on firing.                                   *)
IntervalFires ==
  /\ stray' = stray - 1
  /\ status' = "idle"
  /\ UNCHANGED <<storeVars, turnVars, memoryUpdated, open, content, savedContent,
                 load, save, timer>>

StrayTimerFires ==
  /\ stray > 0
  /\ stray' = stray - 1
  /\ status' = "idle"
  /\ UNCHANGED <<storeVars, turnVars, memoryUpdated, open, content, savedContent,
                 load, save, timer>>
-----------------------------------------------------------------------------
Agent(k) ==
  ReadForEdit(k) \/ \E text \in Text : WriteEdit(k, text)

User ==
  \/ Open \/ Close \/ HandleReset
  \/ \E text \in Text : Type(text)
  \/ \E i \in Save : HandleSave(i)

Loading == LoadServed \/ LoadReturned \/ LoadFailed

Saving(i) == SaveReturned(i) \/ SaveFailed(i)

Next ==
  \/ User \/ Loading \/ TimerFires \/ StrayTimerFires \/ Restart
  \/ \E k \in Turn : StartTurn(k) \/ Agent(k) \/ EndTurn(k) \/ AbortTurn(k)
  \/ \E i \in Save : SaveServed(i) \/ Saving(i)

Spec == Init /\ [][Next]_vars

(* A request is answered or fails.                                         *)
FairSpec ==
  /\ Spec
  /\ WF_vars(Loading)
  /\ \A i \in Save : WF_vars(Saving(i))
-----------------------------------------------------------------------------
(***************************************************************************)
(* Properties.                                                             *)
(***************************************************************************)

(* "Memory saved successfully" stands over a text that the store has had,  *)
(* without unsaved edits, whichever requests were late or failed.          *)
SavedWasStored == status = "saved" => ~isDirty /\ content \in stored

(* What an agent wrote in a turn that ended is announced by the badge      *)
(* until the modal is opened, whoever else wrote in the meantime.          *)
WritesAreNoticed == unseen # {} => memoryUpdated

(* A modal that stays open comes out of loading and saving.                *)
BusyEnds == open /\ Busy ~> ~open \/ ~Busy
=============================================================================
