------------------------ MODULE AgentsMemoryProofs ------------------------
(***************************************************************************)
(* Proofs about AgentsMemory, for any texts, turns (finitely many or not), *)
(* and bounds.                                                             *)
(***************************************************************************)
EXTENDS AgentsMemory, FiniteSetTheorems, TLAPS

(* The assumptions, one constant at a time.                                *)
LEMMA Constants ==
  /\ MaxSaves \in Nat /\ MaxEdits \in Nat
  /\ MaxWrites \in Nat /\ MaxWrites = MaxSaves + MaxEdits
  /\ Empty \in Text /\ Default \in Text
  /\ None \notin Text /\ None \notin File /\ None \notin 1 .. MaxWrites
BY TextAssumption, BoundsAssumption DEF MaxWrites

(* An edit under way is not the absence of one.                            *)
LEMMA EditIsSome == ASSUME NEW x PROVE [seen |-> x] # NoEdit
<1>1. DOMAIN [seen |-> x] = {"seen"} /\ DOMAIN NoEdit = {"idle"}
  BY DEF NoEdit
<1>2. "seen" # "idle"
  OBVIOUS
<1> QED
  BY <1>1, <1>2
-----------------------------------------------------------------------------
(***************************************************************************)
(* Types.  That clock and stray stay within their bounds takes counting:   *)
(* a write belongs to an edit that is no longer under way or to a save     *)
(* that was served, a timer without a ref to a save that returned.         *)
(***************************************************************************)
Editing == {k \in Turn : edit[k] # NoEdit}
Written == {i \in Save : save[i].server = "written"}
Returned == {i \in Save : save[i].client = "done"}

Types ==
  /\ TypeOK
  /\ \A i \in Save : save[i].client = "unsent" => save[i].server = "unsent"

Counts ==
  /\ IsFiniteSet(Editing)
  /\ clock + Cardinality(Editing) <= edits + Cardinality(Written)
  /\ stray <= Cardinality(Returned)

TypeInv == Types /\ Counts

(* What TypeOK says, but for the bounds of the two counters and what       *)
(* depends on them.                                                        *)
LEMMA Saves ==
  ASSUME NEW S \in SUBSET Save
  PROVE  IsFiniteSet(S) /\ Cardinality(S) \in 0 .. MaxSaves
<1>1. IsFiniteSet(1 .. MaxSaves) /\ Cardinality(1 .. MaxSaves) = MaxSaves
  BY Constants, FS_Interval
<1>2. IsFiniteSet(S) /\ Cardinality(S) <= MaxSaves
  BY <1>1, FS_Subset DEF Save
<1> QED
  BY <1>2, FS_CardinalityType, Constants

LEMMA CountsInit == Init => Counts
<1> SUFFICES ASSUME Init PROVE Counts
  OBVIOUS
<1>1. Editing = {} /\ clock = 0 /\ edits = 0 /\ stray = 0
  BY DEF Init, Editing
<1>2. IsFiniteSet({}) /\ Cardinality({}) = 0
  BY FS_EmptySet
<1>3. Cardinality(Written) \in Nat /\ Cardinality(Returned) \in Nat
  BY Saves, Constants DEF Written, Returned
<1> QED
  BY <1>1, <1>2, <1>3 DEF Counts

(* Most steps touch none of what is counted.                               *)
LEMMA CountsKept ==
  ASSUME Counts,
         UNCHANGED <<clock, edits, edit, stray>>,
         Written' = Written, Returned' = Returned
  PROVE  Counts'
BY DEF Counts, Editing

LEMMA CountsNext == Types /\ Counts /\ [Next]_vars => Counts'
<1> SUFFICES ASSUME Types, Counts, [Next]_vars PROVE Counts'
  OBVIOUS
<1> USE DEF storeVars, turnVars, modalVars, timerVars
<1>0. /\ Cardinality(Editing) \in Nat
      /\ Cardinality(Written) \in Nat /\ Cardinality(Returned) \in Nat
      /\ clock \in Nat /\ edits \in Nat /\ stray \in Nat
      /\ IsFiniteSet(Written) /\ IsFiniteSet(Returned) /\ IsFiniteSet(Editing)
  BY Saves, FS_CardinalityType, Constants DEF Counts, Written, Returned, Types, TypeOK
<1>1. ASSUME UNCHANGED <<clock, edits, edit, stray, save>> PROVE Counts'
  BY <1>1, CountsKept DEF Written, Returned
<1>2. ASSUME NEW k \in Turn, ReadForEdit(k) PROVE Counts'
  <2>1. /\ edit' = [edit EXCEPT ![k] = [seen |-> file]]
        /\ edits' = edits + 1
        /\ UNCHANGED <<clock, stray, save>>
    BY <1>2 DEF ReadForEdit
  <2>2. Editing' = Editing \cup {k}
    BY <2>1, EditIsSome DEF Editing, Types, TypeOK
  <2>3. IsFiniteSet(Editing') /\ Cardinality(Editing') <= Cardinality(Editing) + 1
        /\ Cardinality(Editing') \in Nat
    BY <1>0, <2>2, FS_AddElement, SMTT(30)
  <2>4. Written' = Written /\ Returned' = Returned
    BY <2>1 DEF Written, Returned
  <2> QED
    BY <1>0, <2>1, <2>3, <2>4 DEF Counts
<1>3. ASSUME NEW k \in Turn, NEW text \in Text, WriteEdit(k, text) PROVE Counts'
  <2>1. /\ edit[k] # NoEdit
        /\ edit' = [edit EXCEPT ![k] = NoEdit]
        /\ clock' = clock + 1
        /\ UNCHANGED <<edits, stray, save>>
    BY <1>3 DEF WriteEdit, Put
  <2>2. k \in Editing /\ Editing' = Editing \ {k}
    BY <2>1 DEF Editing, Types, TypeOK
  <2>3. IsFiniteSet(Editing') /\ Cardinality(Editing') = Cardinality(Editing) - 1
    BY <1>0, <2>2, FS_RemoveElement
  <2>4. Written' = Written /\ Returned' = Returned
    BY <2>1 DEF Written, Returned
  <2> QED
    BY <1>0, <2>1, <2>3, <2>4 DEF Counts
<1>4. ASSUME Restart PROVE Counts'
  <2>1. Editing' = {} /\ UNCHANGED <<clock, edits, stray, save>>
    BY <1>4 DEF Restart, Editing
  <2>2. IsFiniteSet(Editing') /\ Cardinality(Editing') = 0
    BY <2>1, FS_EmptySet
  <2>3. Written' = Written /\ Returned' = Returned
    BY <2>1 DEF Written, Returned
  <2> QED
    BY <1>0, <2>1, <2>2, <2>3 DEF Counts
<1>5. ASSUME NEW i \in Save, HandleSave(i) PROVE Counts'
  <2>1. /\ save[i].client = "unsent"
        /\ save' = [save EXCEPT ![i] = [text |-> content, server |-> "sent",
                                        client |-> "waiting"]]
        /\ UNCHANGED <<clock, edits, edit, stray>>
    BY <1>5 DEF HandleSave
  <2>2. save[i].server = "unsent"
    BY <2>1 DEF Types
  <2>3. Written' = Written /\ Returned' = Returned
    BY <2>1, <2>2 DEF Written, Returned, Types, TypeOK
  <2> QED
    BY <2>1, <2>3, CountsKept
<1>6. ASSUME NEW i \in Save, SaveServed(i) PROVE Counts'
  <2>1. /\ save[i].server = "sent"
        /\ save' = [save EXCEPT ![i].server = "written"]
        /\ clock' = clock + 1
        /\ UNCHANGED <<edits, edit, stray>>
    BY <1>6 DEF SaveServed, Put
  <2>2. i \notin Written /\ Written' = Written \cup {i} /\ Returned' = Returned
    BY <2>1 DEF Written, Returned, Types, TypeOK
  <2>3. Cardinality(Written') = Cardinality(Written) + 1
    BY <1>0, <2>2, FS_AddElement
  <2>4. Editing' = Editing
    BY <2>1 DEF Editing
  <2> QED
    BY <1>0, <2>1, <2>2, <2>3, <2>4 DEF Counts
<1>7. ASSUME NEW i \in Save, SaveReturned(i) \/ SaveFailed(i) PROVE Counts'
  <2>1. /\ save[i].client = "waiting"
        /\ save' = [save EXCEPT ![i].client = "done"]
        /\ stray' \in {stray, stray + 1}
        /\ UNCHANGED <<clock, edits, edit>>
    BY <1>7 DEF SaveReturned, SaveFailed
  <2>2. i \notin Returned /\ Returned' = Returned \cup {i} /\ Written' = Written
    BY <2>1 DEF Written, Returned, Types, TypeOK
  <2>3. Cardinality(Returned') = Cardinality(Returned) + 1
    BY <1>0, <2>2, FS_AddElement
  <2>4. Editing' = Editing
    BY <2>1 DEF Editing
  <2> QED
    BY <1>0, <2>1, <2>2, <2>3, <2>4 DEF Counts
<1>8. ASSUME StrayTimerFires PROVE Counts'
  <2>1. stray' = stray - 1 /\ UNCHANGED <<clock, edits, edit, save>>
    BY <1>8 DEF StrayTimerFires
  <2>2. Written' = Written /\ Returned' = Returned /\ Editing' = Editing
    BY <2>1 DEF Written, Returned, Editing
  <2> QED
    BY <1>0, <2>1, <2>2 DEF Counts
<1>9. ASSUME Open \/ Close \/ HandleReset \/ (\E text \in Text : Type(text))
               \/ Loading \/ TimerFires \/ UNCHANGED vars
      PROVE  Counts'
  BY <1>1, <1>9 DEF Open, Close, HandleReset, Type, Loading, LoadServed, LoadReturned,
                    LoadFailed, TimerFires, vars
<1>10. ASSUME NEW k \in Turn, StartTurn(k) \/ EndTurn(k) \/ AbortTurn(k)
       PROVE  Counts'
  BY <1>1, <1>10 DEF StartTurn, EndTurn, AbortTurn
<1> QED
  BY <1>2, <1>3, <1>4, <1>5, <1>6, <1>7, <1>8, <1>9, <1>10
     DEF Next, User, Agent, Saving

LEMMA TypesInit == Init => Types
<1> SUFFICES ASSUME Init PROVE Types
  OBVIOUS
<1>1. file \in File \cup {None} /\ clock \in 0 .. MaxWrites /\ stored \subseteq Text
  BY Constants DEF Init
<1>2. /\ save \in [Save -> [text : Text, server : {"unsent", "sent", "written"},
                           client : {"unsent", "waiting", "done"}]]
      /\ load \in [state : {"none", "sent", "served"}, answer : Text]
      /\ \A i \in Save : save[i].client = "unsent" => save[i].server = "unsent"
  BY Constants DEF Init, NoLoad
<1>3. /\ turn \in [Turn -> {"idle", "running", "done", "aborted"}]
      /\ before \in [Turn -> (1 .. MaxWrites) \cup {None}]
      /\ edit \in [Turn -> {NoEdit} \cup [seen : File \cup {None}]]
      /\ wrote \subseteq Turn /\ unseen \subseteq wrote
  BY DEF Init
<1>4. /\ edits \in 0 .. MaxEdits /\ stray \in 0 .. MaxSaves
      /\ {content, savedContent} \subseteq Text
      /\ status \in {"idle", "loading", "saving", "saved", "error"}
  BY Constants DEF Init
<1>5. memoryUpdated \in BOOLEAN /\ open \in BOOLEAN /\ timer \in BOOLEAN
  BY DEF Init
<1> QED
  BY <1>1, <1>2, <1>3, <1>4, <1>5 DEF Types, TypeOK

(* The two bounds, from the counts.                                        *)
LEMMA Bounds ==
  ASSUME Counts, clock \in Nat, stray \in Nat, edits \in 0 .. MaxEdits
  PROVE  clock \in 0 .. MaxWrites /\ stray \in 0 .. MaxSaves
<1>1. /\ Cardinality(Written) \in 0 .. MaxSaves
      /\ Cardinality(Returned) \in 0 .. MaxSaves
  BY Saves DEF Written, Returned
<1>2. Cardinality(Editing) \in Nat
  BY FS_CardinalityType DEF Counts
<1> QED
  BY <1>1, <1>2, Constants DEF Counts

LEMMA BoundsNext ==
  ASSUME Counts', clock' \in Nat, stray' \in Nat, edits' \in 0 .. MaxEdits
  PROVE  clock' \in 0 .. MaxWrites /\ stray' \in 0 .. MaxSaves
<1>1. /\ Cardinality(Written') \in 0 .. MaxSaves
      /\ Cardinality(Returned') \in 0 .. MaxSaves
  BY Saves DEF Written, Returned
<1>2. Cardinality(Editing') \in Nat
  BY FS_CardinalityType DEF Counts
<1> QED
  BY <1>1, <1>2, Constants DEF Counts

LEMMA TypesNext == Types /\ Counts' /\ [Next]_vars => Types'
<1> SUFFICES ASSUME Types, Counts', [Next]_vars PROVE Types'
  OBVIOUS
<1>0. clock \in Nat /\ stray \in Nat /\ edits \in 0 .. MaxEdits
  BY Constants DEF Types, TypeOK
<1> USE Constants DEF Types, TypeOK, storeVars, turnVars, modalVars, timerVars
<1>1. ASSUME NEW k \in Turn, StartTurn(k) PROVE Types'
  BY <1>1 DEF StartTurn, ModifiedAt, File
<1>2. ASSUME NEW k \in Turn, ReadForEdit(k) PROVE Types'
  BY <1>2 DEF ReadForEdit
<1>3. ASSUME NEW k \in Turn, NEW text \in Text, WriteEdit(k, text) PROVE Types'
  <2>1. clock' \in 1 .. MaxWrites
    BY <1>0, <1>3, BoundsNext DEF WriteEdit, Put
  <2>2. file' \in File
    BY <1>3, <2>1 DEF WriteEdit, Put, File
  <2> QED
    BY <1>3, <2>1, <2>2 DEF WriteEdit, Put
<1>4. ASSUME NEW k \in Turn, EndTurn(k) \/ AbortTurn(k) PROVE Types'
  <2>1. memoryUpdated' \in BOOLEAN
    BY <1>4, Zenon DEF EndTurn, AbortTurn
  <2> QED
    BY <1>4, <2>1 DEF EndTurn, AbortTurn
<1>5. ASSUME Restart PROVE Types'
  BY <1>5 DEF Restart
<1>6. ASSUME HandleReset \/ (\E text \in Text : Type(text)) \/ TimerFires
      PROVE  Types'
  BY <1>6, ZenonT(60) DEF HandleReset, Type, TimerFires
<1>14. ASSUME Open PROVE Types'
  BY <1>14 DEF Open
<1>15. ASSUME Close PROVE Types'
  <2>1. load' \in [state : {"none", "sent", "served"}, answer : Text]
    BY <1>15 DEF Close, NoLoad
  <2> QED
    BY <1>15, <2>1 DEF Close
<1>7. ASSUME Loading PROVE Types'
  BY <1>7 DEF Loading, LoadServed, LoadReturned, LoadFailed, NoLoad, Content, File
<1>8. ASSUME NEW i \in Save, HandleSave(i) PROVE Types'
  BY <1>8 DEF HandleSave
<1>9. ASSUME NEW i \in Save, SaveServed(i) PROVE Types'
  <2>1. clock' \in 1 .. MaxWrites
    BY <1>0, <1>9, BoundsNext DEF SaveServed, Put
  <2>2. file' \in File /\ stored' \subseteq Text
    BY <1>9, <2>1 DEF SaveServed, Put, File
  <2> QED
    BY <1>9, <2>1, <2>2 DEF SaveServed, Put
<1>10. ASSUME NEW i \in Save, SaveReturned(i) PROVE Types'
  <2>1. stray' \in 0 .. MaxSaves
    BY <1>0, <1>10, BoundsNext DEF SaveReturned
  <2> QED
    BY <1>10, <2>1 DEF SaveReturned
<1>11. ASSUME NEW i \in Save, SaveFailed(i) PROVE Types'
  BY <1>11 DEF SaveFailed
<1>12. ASSUME StrayTimerFires PROVE Types'
  BY <1>12 DEF StrayTimerFires
<1>13. CASE UNCHANGED vars
  BY <1>13 DEF vars
<1> QED
  BY <1>1, <1>2, <1>3, <1>4, <1>5, <1>6, <1>7, <1>8, <1>9, <1>10, <1>11, <1>12, <1>13,
     <1>14, <1>15
     DEF Next, User, Agent, Saving

(* Every variable of the store, the turns and the modal keeps its type,    *)
(* and no step writes more often than saves and edits allow.               *)
THEOREM TypeCorrect == Spec => []TypeOK
<1>1. Types => TypeOK
  BY DEF Types
<1> QED
  BY CountsInit, CountsNext, TypesInit, TypesNext, <1>1, PTL DEF Spec
-----------------------------------------------------------------------------
(***************************************************************************)
(* "Saved": a response only tells of a write that was made.                *)
(***************************************************************************)
SavedInv ==
  /\ \A i \in Save : save[i].server = "written" => save[i].text \in stored
  /\ SavedWasStored

LEMMA SavedInit == Init => SavedInv
BY DEF Init, SavedInv, SavedWasStored

LEMMA SavedNext == Types /\ SavedInv /\ [Next]_vars => SavedInv'
<1> SUFFICES ASSUME Types, SavedInv, [Next]_vars PROVE SavedInv'
  OBVIOUS
<1> USE DEF SavedInv, SavedWasStored, isDirty, Types, TypeOK, storeVars, turnVars,
            modalVars, timerVars
<1>1. ASSUME NEW k \in Turn,
             StartTurn(k) \/ Agent(k) \/ EndTurn(k) \/ AbortTurn(k)
      PROVE  SavedInv'
  BY <1>1 DEF StartTurn, Agent, ReadForEdit, WriteEdit, Put, EndTurn, AbortTurn
<1>2. ASSUME User \/ Loading \/ TimerFires \/ StrayTimerFires \/ Restart
      PROVE  SavedInv'
  BY <1>2 DEF User, Open, Close, HandleReset, Type, HandleSave, Loading, LoadServed,
              LoadReturned, LoadFailed, TimerFires, StrayTimerFires, Restart
<1>3. ASSUME NEW i \in Save, SaveServed(i) PROVE SavedInv'
  BY <1>3 DEF SaveServed, Put
<1>4. ASSUME NEW i \in Save, Saving(i) PROVE SavedInv'
  BY <1>4 DEF Saving, SaveReturned, SaveFailed
<1>5. CASE UNCHANGED vars
  BY <1>5 DEF vars
<1> QED
  BY <1>1, <1>2, <1>3, <1>4, <1>5 DEF Next

(* When the modal says that the memory is saved, the text it shows is one  *)
(* the store has had, however saves, loads, edits and restarts interleave. *)
THEOREM SavedTextWasStored == Spec => []SavedWasStored
<1>1. SavedInv => SavedWasStored
  BY DEF SavedInv
<1> QED
  BY CountsInit, CountsNext, TypesInit, TypesNext, SavedInit, SavedNext, <1>1, PTL
     DEF Spec
-----------------------------------------------------------------------------
(***************************************************************************)
(* The badge.  The file is as old as the last write, snapshots are not     *)
(* younger, and the agent of a running turn that has written did so after  *)
(* the snapshot of the turn.                                               *)
(***************************************************************************)
Dated ==
  /\ file # None => file.modified_at = clock
  /\ \A k \in Turn : before[k] # None => before[k] <= clock

WroteSince ==
  \A k \in Turn :
    /\ turn[k] = "idle" => edit[k] = NoEdit /\ k \notin wrote
    /\ turn[k] = "running" /\ k \in wrote
         => file # None /\ (before[k] # None => before[k] < file.modified_at)

NoticeInv == Dated /\ WroteSince /\ WritesAreNoticed

LEMMA NoticeInit == Init => NoticeInv
BY DEF Init, NoticeInv, Dated, WroteSince, WritesAreNoticed

LEMMA NoticeNext == Types /\ Types' /\ NoticeInv /\ [Next]_vars => NoticeInv'
<1> SUFFICES ASSUME Types, Types', NoticeInv, [Next]_vars PROVE NoticeInv'
  OBVIOUS
<1>0. clock \in Nat /\ \A k \in Turn : before[k] # None => before[k] \in Nat
  BY Constants DEF Types, TypeOK
<1> USE DEF NoticeInv, Dated, WroteSince, WritesAreNoticed, Types, TypeOK, storeVars,
            turnVars, modalVars, timerVars
<1>1. ASSUME NEW k \in Turn, StartTurn(k) PROVE NoticeInv'
  BY <1>0, <1>1 DEF StartTurn, ModifiedAt
<1>2. ASSUME NEW k \in Turn, ReadForEdit(k) \/ AbortTurn(k) PROVE NoticeInv'
  BY <1>2 DEF ReadForEdit, AbortTurn
<1>3. ASSUME NEW text \in Text, Put(text),
             UNCHANGED <<turn, before, unseen, memoryUpdated>>,
             \/ \E k \in Turn : /\ edit[k] # NoEdit
                                /\ edit' = [edit EXCEPT ![k] = NoEdit]
                                /\ wrote' = wrote \cup {k}
             \/ UNCHANGED <<edit, wrote>>
      PROVE  NoticeInv'
  <2>1. /\ file' = [content |-> text, modified_at |-> clock + 1]
        /\ clock' = clock + 1
    BY <1>3 DEF Put
  <2>2. file' # None
    <3>1. clock' \in 1 .. MaxWrites
      BY <1>0, <2>1, Constants
    <3>2. file' \in File
      BY <2>1, <3>1 DEF File
    <3> QED
      BY <3>2, Constants
  <2>3. Dated'
    BY <1>0, <1>3, <2>1
  <2>4. \A k \in Turn : before[k] # None => before[k] < file'.modified_at
    BY <1>0, <2>1
  <2>5. ASSUME NEW k \in Turn
        PROVE  /\ turn'[k] = "idle" => edit'[k] = NoEdit /\ k \notin wrote'
               /\ turn'[k] = "running" /\ k \in wrote'
                    => file' # None
                       /\ (before'[k] # None => before'[k] < file'.modified_at)
    BY <1>3, <2>2, <2>4
  <2> QED
    BY <1>3, <2>3, <2>5
<1>4. ASSUME NEW k \in Turn, NEW text \in Text, WriteEdit(k, text) PROVE NoticeInv'
  BY <1>3, <1>4 DEF WriteEdit
<1>5. ASSUME NEW k \in Turn, EndTurn(k) PROVE NoticeInv'
  <2>1. k \in wrote => ModifiedSince(k)
    <3> SUFFICES ASSUME k \in wrote PROVE ModifiedSince(k)
      OBVIOUS
    <3>1. turn[k] = "running"
      BY <1>5 DEF EndTurn
    <3>2. /\ file # None
          /\ before[k] # None => before[k] < file.modified_at
      BY <3>1
    <3>3. file.modified_at \in 1 .. MaxWrites
      BY <3>2 DEF File
    <3>4. file.modified_at # None /\ file.modified_at # before[k]
      BY <1>0, <3>2, <3>3, Constants
    <3> QED
      BY <3>2, <3>4 DEF ModifiedSince, ModifiedAt
  <2>2. unseen' # {} => unseen # {} \/ k \in wrote
    BY <1>5 DEF EndTurn
  <2>3. unseen' # {} => memoryUpdated'
    BY <1>5, <2>1, <2>2, Zenon DEF EndTurn
  <2>4. Dated' /\ WroteSince'
    BY <1>5 DEF EndTurn
  <2> QED
    BY <2>3, <2>4
<1>6. ASSUME Open \/ Close \/ HandleReset \/ (\E text \in Text : Type(text))
               \/ Loading \/ TimerFires \/ StrayTimerFires
      PROVE  NoticeInv'
  BY <1>6 DEF Open, Close, HandleReset, Type, Loading, LoadServed, LoadReturned,
              LoadFailed, TimerFires, StrayTimerFires
<1>7. ASSUME Restart PROVE NoticeInv'
  BY <1>7 DEF Restart
<1>8. ASSUME NEW i \in Save, HandleSave(i) \/ Saving(i) PROVE NoticeInv'
  BY <1>8 DEF HandleSave, Saving, SaveReturned, SaveFailed
<1>9. ASSUME NEW i \in Save, SaveServed(i) PROVE NoticeInv'
  BY <1>3, <1>9 DEF SaveServed
<1>10. CASE UNCHANGED vars
  BY <1>10 DEF vars
<1> QED
  BY <1>1, <1>2, <1>4, <1>5, <1>6, <1>7, <1>8, <1>9, <1>10
     DEF Next, User, Agent

(* A write of an agent in a turn that ended keeps the badge lit until the  *)
(* modal is opened: no write of a save or of another turn hides it from    *)
(* the comparison with the snapshot.                                       *)
THEOREM AgentWritesAreNoticed == Spec => []WritesAreNoticed
<1>1. NoticeInv => WritesAreNoticed
  BY DEF NoticeInv
<1> QED
  BY CountsInit, CountsNext, TypesInit, TypesNext, NoticeInit, NoticeNext, <1>1, PTL
     DEF Spec
=============================================================================
