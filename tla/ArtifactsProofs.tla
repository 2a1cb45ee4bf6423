--------------------------- MODULE ArtifactsProofs ---------------------------
(***************************************************************************)
(* Proofs about Artifacts, for any threads, paths, outputs and calls, and  *)
(* any bound on the writes of a file.                                      *)
(***************************************************************************)
EXTENDS Artifacts, FiniteSetTheorems, TLAPS

LEMMA Constants == MaxVersion \in Nat /\ None \notin Text
BY ArtifactsAssumption

(* Texts are told apart by the edit alone.                                 *)
LEMMA Texts == Written \subseteq Text /\ \A text \in Text : Edited(text) \in Text
BY DEF Text, Edited
-----------------------------------------------------------------------------
(***************************************************************************)
(* Types: the kinds of call there are, and the rest of the state.          *)
(***************************************************************************)
AskedCall == [state : {"asked", "ok", "error", "raised", "told"}, thread : Thread,
              tool : Tools, path : Path, text : Text]
FoundCall == [state : {"found", "ok", "told"}, thread : Thread, tool : Tools, path : Path,
              text : Text, row : Nat, was : Text \cup {None}]
ListedCall == [state : {"ok", "told"}, thread : Thread, tool : Tools, path : Path,
               listed : SUBSET Path]
RanCall == [state : {"ok", "told"}, thread : Thread, tool : Tools, path : Path,
            exit : {"zero", "one", "nothing"}]

Calls1 == {Idle} \cup AskedCall \cup FoundCall \cup ListedCall \cup RanCall

RowType == [thread : Thread, path : Path, text : Text, deleted : BOOLEAN]

FilesTyped ==
  /\ rows \in Seq(RowType)
  /\ want \in [Thread -> [Path -> Text \cup {None}]]
  /\ raced \in [Thread -> [Path -> BOOLEAN]]

OutputsTyped ==
  /\ workspace \in [Output -> [mtime : 0 .. MaxVersion, large : BOOLEAN, fresh : BOOLEAN]]
  /\ emitted \in [Output -> Nat]
  /\ handed \in [Output -> SUBSET Nat]
  /\ \A f \in Output : /\ emitted[f] <= workspace[f].mtime
                       /\ handed[f] \subseteq 1 .. workspace[f].mtime
                       /\ emitted[f] > 0 /\ emitted[f] = workspace[f].mtime
                            => workspace[f].mtime \in handed[f]

(* A scan is that of a command that has ended, and what it has looked at   *)
(* last is there still, in that version or a later one.                    *)
ScanTyped ==
  scan # None =>
    /\ scan \in [call : Call, left : SUBSET Output, file : Output \cup {None},
                 mtime : 0 .. MaxVersion]
    /\ call[scan.call].state \in {"ok", "error"}
    /\ scan.file # None => 1 <= scan.mtime /\ scan.mtime <= workspace[scan.file].mtime

CallsTyped == call \in [Call -> Calls1]

LEMMA StatesOf ==
  ASSUME NEW k \in Calls1
  PROVE  /\ k.state \in States
         /\ k.state = "asked" => k \in AskedCall
         /\ k.state = "found" => k \in FoundCall
         /\ k.state # "idle" => k.thread \in Thread /\ k.tool \in Tools /\ k.path \in Path
BY DEF Calls1, Idle, AskedCall, FoundCall, ListedCall, RanCall, States

(* A call that ends keeps what it asked for.                               *)
LEMMA EndedCall ==
  ASSUME NEW k \in Calls1,
         NEW state, \/ k.state = "asked" /\ state \in {"ok", "error", "raised"}
                    \/ k.state = "found" /\ state = "ok"
                    \/ k.state \in {"ok", "error"} /\ state = "told"
  PROVE  LET new == [k EXCEPT !.state = state]
         IN  /\ new \in Calls1 /\ new.state = state
             /\ new.thread = k.thread /\ new.path = k.path /\ new.tool = k.tool
<1>1. CASE k \in AskedCall
  BY <1>1 DEF Calls1, AskedCall
<1>2. CASE k \in FoundCall
  BY <1>2 DEF Calls1, FoundCall
<1>3. CASE k \in ListedCall
  BY <1>3 DEF Calls1, ListedCall
<1>4. CASE k \in RanCall
  BY <1>4 DEF Calls1, RanCall
<1>5. k # Idle
  BY DEF Idle
<1> QED
  BY <1>1, <1>2, <1>3, <1>4, <1>5 DEF Calls1

(* A call that has read goes on with what it read.                         *)
LEMMA FoundNew ==
  ASSUME CallsTyped, FilesTyped, NEW c \in Call, call[c].state = "asked",
         NEW r \in 0 .. Len(rows), NEW text \in Text, GoesOn(c, r, text)
  PROVE  /\ call'[c] \in FoundCall
         /\ call'[c] = [state |-> "found", thread |-> call[c].thread, tool |-> call[c].tool,
                        path |-> call[c].path, text |-> text, row |-> r,
                        was |-> IF r = 0 THEN None ELSE rows[r].text]
         /\ \A d \in Call \ {c} : call'[d] = call[d]
         /\ CallsTyped'
<1> DEFINE new == [state |-> "found", thread |-> call[c].thread, tool |-> call[c].tool,
                   path |-> call[c].path, text |-> text, row |-> r,
                   was |-> IF r = 0 THEN None ELSE rows[r].text]
<1>1. call' = [call EXCEPT ![c] = new]
  BY DEF GoesOn
<1>2. (IF r = 0 THEN None ELSE rows[r].text) \in Text \cup {None}
  <2>1. CASE r # 0
    <3>1. rows[r] \in RowType
      BY <2>1 DEF FilesTyped
    <3> QED
      BY <2>1, <3>1 DEF RowType
  <2> QED
    BY <2>1
<1>3. call[c].thread \in Thread /\ call[c].tool \in Tools /\ call[c].path \in Path
  BY StatesOf DEF CallsTyped
<1>4. new \in FoundCall
  BY <1>2, <1>3 DEF FoundCall
<1> HIDE DEF new
<1>5. call'[c] = new /\ (\A d \in Call \ {c} : call'[d] = call[d]) /\ CallsTyped'
  BY <1>1, <1>4 DEF CallsTyped, Calls1
<1> QED
  BY <1>4, <1>5 DEF new

LEMMA CallsNext == CallsTyped /\ FilesTyped /\ ScanTyped /\ [Next]_vars => CallsTyped'
<1> SUFFICES ASSUME CallsTyped, FilesTyped, ScanTyped, [Next]_vars PROVE CallsTyped'
  OBVIOUS
<1>1. ASSUME NEW c \in Call, NEW state, Ends(c, state),
             \/ call[c].state = "asked" /\ state \in {"ok", "error", "raised"}
             \/ call[c].state = "found" /\ state = "ok"
             \/ call[c].state \in {"ok", "error"} /\ state = "told"
      PROVE  CallsTyped'
  <2>1. call' = [call EXCEPT ![c] = [call[c] EXCEPT !.state = state]]
    BY <1>1 DEF Ends
  <2>2. [call[c] EXCEPT !.state = state] \in Calls1
    BY <1>1, EndedCall DEF CallsTyped
  <2> QED
    BY <2>1, <2>2 DEF CallsTyped
<1>2. ASSUME NEW c \in Call, NEW t \in Thread, NEW tool \in Tools, NEW p \in Path,
             NEW text \in Text, AskTool(c, t, tool, p, text)
      PROVE  CallsTyped'
  BY <1>2 DEF AskTool, CallsTyped, Calls1, AskedCall
<1>3. ASSUME NEW c \in Call, CreateFile(c) PROVE CallsTyped'
  <2>1. call[c].state = "asked" /\ call[c].text \in Text
    BY <1>3, StatesOf DEF CreateFile, Runs, CallsTyped, AskedCall
  <2>2. 0 \in 0 .. Len(rows)
    BY DEF FilesTyped
  <2>3. Ends(c, "raised") \/ Ends(c, "error") \/ GoesOn(c, 0, call[c].text)
    BY <1>3 DEF CreateFile
  <2> QED
    BY <1>1, <2>1, <2>2, <2>3, FoundNew
<1>4. ASSUME NEW c \in Call, WriteFile(c) PROVE CallsTyped'
  <2>1. call[c].state = "asked" /\ call[c].text \in Text
    BY <1>4, StatesOf DEF WriteFile, Runs, CallsTyped, AskedCall
  <2>2. Ends(c, "raised") \/ \E r \in 0 .. Len(rows) : GoesOn(c, r, call[c].text)
    BY <1>4 DEF WriteFile
  <2> QED
    BY <1>1, <2>1, <2>2, FoundNew
<1>5. ASSUME NEW c \in Call, EditFile(c) PROVE CallsTyped'
  <2>1. call[c].state = "asked"
    BY <1>5 DEF EditFile, Runs
  <2>2. \/ Ends(c, "raised") \/ Ends(c, "error")
        \/ \E r \in 0 .. Len(rows) : r # 0 /\ GoesOn(c, r, Edited(rows[r].text))
    BY <1>5 DEF EditFile
  <2>3. \A r \in 0 .. Len(rows) : r # 0 => Edited(rows[r].text) \in Text
    <3>1. \A r \in 0 .. Len(rows) : r # 0 => r \in 1 .. Len(rows) /\ rows[r] \in RowType
      BY DEF FilesTyped
    <3>2. \A r \in 0 .. Len(rows) : r # 0 => rows[r].text \in Text
      BY <3>1 DEF RowType
    <3> QED
      BY <3>2, Texts
  <2> QED
    BY <1>1, <2>1, <2>2, <2>3, FoundNew
<1>6. ASSUME NEW c \in Call, ReadFile(c) PROVE CallsTyped'
  <2>1. call[c] \in AskedCall /\ call[c].state = "asked"
    BY <1>6, StatesOf DEF ReadFile, Runs, CallsTyped
  <2>2. \/ Ends(c, "raised") \/ Ends(c, "error")
        \/ \E r \in Here(c) :
             call' = [call EXCEPT ![c] = [call[c] EXCEPT !.state = "ok", !.text = rows[r].text]]
    BY <1>6 DEF ReadFile, CallsTyped
  <2>3. ASSUME NEW r \in Here(c)
        PROVE  [call[c] EXCEPT !.state = "ok", !.text = rows[r].text] \in AskedCall
    <3>1. rows[r] \in RowType
      BY DEF Here, ActiveAt, FilesTyped
    <3>2. rows[r].text \in Text
      BY <3>1 DEF RowType
    <3> QED
      BY <2>1, <3>2 DEF AskedCall
  <2>4. AskedCall \subseteq Calls1
    BY DEF Calls1
  <2> QED
    BY <1>1, <2>1, <2>2, <2>3, <2>4 DEF CallsTyped
<1>7. ASSUME NEW c \in Call, ListFiles(c) PROVE CallsTyped'
  <2>1. call[c].thread \in Thread /\ call[c].tool \in Tools /\ call[c].path \in Path
    BY <1>7, StatesOf DEF ListFiles, Runs, CallsTyped
  <2> QED
    BY <1>7, <2>1 DEF ListFiles, CallsTyped, Calls1, ListedCall
<1>8. ASSUME NEW c \in Call, Execute(c) PROVE CallsTyped'
  <2>1. call[c].thread \in Thread /\ call[c].tool \in Tools /\ call[c].path \in Path
    BY <1>8, StatesOf DEF Execute, Runs, CallsTyped
  <2> QED
    BY <1>8, <2>1 DEF Execute, CallsTyped, Calls1, RanCall
<1>9. ASSUME NEW c \in Call, Save(c) \/ DeleteFile(c) PROVE CallsTyped'
  <2>1. \/ call[c].state = "found" /\ Ends(c, "ok")
        \/ call[c].state = "asked" /\ (Ends(c, "ok") \/ Ends(c, "error"))
    BY <1>9 DEF Save, DeleteFile, Runs
  <2> QED
    BY <1>1, <2>1
<1>10. ASSUME NEW c \in Call, MapStateUpdate(c) PROVE CallsTyped'
  <2>1. call[c].state \in {"ok", "error"} /\ (Ends(c, "told") \/ UNCHANGED call)
    BY <1>10 DEF MapStateUpdate
  <2> QED
    BY <1>1, <2>1 DEF CallsTyped
<1>11. ASSUME ScanEnd PROVE CallsTyped'
  BY <1>1, <1>11 DEF ScanEnd, ScanTyped
<1>12. ASSUME UNCHANGED call PROVE CallsTyped'
  BY <1>12 DEF CallsTyped
<1>13. ASSUME \/ \E f \in Output : Produce(f) \/ Age(f) \/ ScanStat(f)
              \/ ScanRead \/ UNCHANGED vars
       PROVE  CallsTyped'
  BY <1>12, <1>13 DEF Produce, Age, ScanStat, ScanRead, vars
<1>14. \A tool \in Tools : (IF tool \in {"create_file", "write_file"} THEN Written ELSE {<<>>})
                             \subseteq Text
  BY DEF Text, Written
<1> QED
  BY <1>2, <1>3, <1>4, <1>5, <1>6, <1>7, <1>8, <1>9, <1>10, <1>11, <1>13, <1>14 DEF Next

(* An element of a sequence is written.                                    *)
LEMMA ElementWritten ==
  ASSUME NEW S, NEW s \in Seq(S), NEW n, NEW e, n \in DOMAIN s => e \in S
  PROVE  [s EXCEPT ![n] = e] \in Seq(S)
<1> DEFINE new == [s EXCEPT ![n] = e]
<1>1. DOMAIN s = 1 .. Len(s) /\ Len(s) \in Nat /\ \A i \in 1 .. Len(s) : s[i] \in S
  OBVIOUS
<1>2. new \in [1 .. Len(s) -> S]
  BY <1>1
<1> QED
  BY <1>1, <1>2

(* What a step does to the table and to its histories.                     *)
LEMMA RowsStep ==
  ASSUME [Next]_vars
  PROVE  \/ UNCHANGED fileVars
         \/ \E c \in Call : Save(c)
         \/ \E c \in Call : DeleteFile(c)
<1>1. ASSUME NEW c \in Call, CreateFile(c) \/ WriteFile(c) \/ EditFile(c) PROVE UNCHANGED fileVars
  BY <1>1 DEF CreateFile, WriteFile, EditFile
<1>2. ASSUME NEW c \in Call, ReadFile(c) \/ ListFiles(c) \/ Execute(c) \/ MapStateUpdate(c)
      PROVE  UNCHANGED fileVars
  BY <1>2 DEF ReadFile, ListFiles, Execute, MapStateUpdate
<1>3. ASSUME NEW c \in Call, NEW t, NEW tool, NEW p, NEW text, AskTool(c, t, tool, p, text)
      PROVE  UNCHANGED fileVars
  BY <1>3 DEF AskTool
<1>4. ASSUME \/ \E f \in Output : Produce(f) \/ Age(f) \/ ScanStat(f)
             \/ ScanRead \/ ScanEnd
      PROVE  UNCHANGED fileVars
  BY <1>4 DEF Produce, Age, ScanStat, ScanRead, ScanEnd
<1>5. ASSUME UNCHANGED vars PROVE UNCHANGED fileVars
  BY <1>5 DEF vars, fileVars
<1> QED
  BY <1>1, <1>2, <1>3, <1>4, <1>5 DEF Next

LEMMA FilesNext == CallsTyped /\ FilesTyped /\ [Next]_vars => FilesTyped'
<1> SUFFICES ASSUME CallsTyped, FilesTyped, [Next]_vars PROVE FilesTyped'
  OBVIOUS
<1>1. CASE UNCHANGED fileVars
  BY <1>1 DEF FilesTyped, fileVars
<1>2. ASSUME NEW c \in Call, Save(c) PROVE FilesTyped'
  <2> DEFINE k == call[c]
             row == [thread |-> k.thread, path |-> k.path, text |-> k.text, deleted |-> FALSE]
  <2>1. k \in FoundCall
    BY <1>2, StatesOf DEF Save, CallsTyped
  <2>2. k.thread \in Thread /\ k.path \in Path /\ k.text \in Text
    BY <2>1 DEF FoundCall
  <2>3. row \in RowType
    BY <2>2 DEF RowType
  <2>4. /\ \/ rows' = Append(rows, row)
           \/ rows' = rows
           \/ rows' = [rows EXCEPT ![k.row] = [rows[k.row] EXCEPT !.text = k.text]]
        /\ want' = [want EXCEPT ![k.thread][k.path] = k.text]
        /\ raced' = [raced EXCEPT ![k.thread][k.path] = @ \/ Overlapped(c)]
    BY <1>2 DEF Save, ExtractThreadId
  <2> HIDE DEF k, row
  <2>5. rows' \in Seq(RowType)
    <3>1. CASE rows' = Append(rows, row)
      BY <3>1, <2>3 DEF FilesTyped
    <3>2. CASE rows' = rows
      BY <3>2 DEF FilesTyped
    <3>3. CASE rows' = [rows EXCEPT ![k.row] = [rows[k.row] EXCEPT !.text = k.text]]
      <4>1. k.row \in DOMAIN rows => [rows[k.row] EXCEPT !.text = k.text] \in RowType
        <5>1. SUFFICES ASSUME k.row \in DOMAIN rows
                       PROVE  [rows[k.row] EXCEPT !.text = k.text] \in RowType
          OBVIOUS
        <5>2. rows[k.row] \in RowType
          BY <5>1 DEF FilesTyped
        <5> QED
          BY <5>2, <2>2 DEF RowType
      <4> QED
        BY <3>3, <4>1, ElementWritten DEF FilesTyped
    <3> QED
      BY <2>4, <3>1, <3>2, <3>3
  <2>6. want' \in [Thread -> [Path -> Text \cup {None}]]
    BY <2>2, <2>4 DEF FilesTyped
  <2>7. raced' \in [Thread -> [Path -> BOOLEAN]]
    <3>1. (raced[k.thread][k.path] \/ Overlapped(c)) \in BOOLEAN
      OBVIOUS
    <3> QED
      BY <2>2, <2>4, <3>1 DEF FilesTyped
  <2> QED
    BY <2>5, <2>6, <2>7 DEF FilesTyped
<1>3. ASSUME NEW c \in Call, DeleteFile(c) PROVE FilesTyped'
  <2> DEFINE k == call[c]
  <2>1. k.thread \in Thread /\ k.path \in Path
    BY <1>3, StatesOf DEF DeleteFile, Runs, CallsTyped
  <2>2. /\ rows' = [r \in DOMAIN rows |->
                      IF r \in Here(c) THEN [rows[r] EXCEPT !.deleted = TRUE] ELSE rows[r]]
        /\ want' = [want EXCEPT ![k.thread][k.path] = None]
        /\ raced' = [raced EXCEPT ![k.thread][k.path] = Overlapped(c)]
    BY <1>3 DEF DeleteFile
  <2> HIDE DEF k
  <2>3. rows' \in Seq(RowType)
    <3>1. \A r \in DOMAIN rows : rows[r] \in RowType
      BY DEF FilesTyped
    <3>2. \A r \in DOMAIN rows :
            (IF r \in Here(c) THEN [rows[r] EXCEPT !.deleted = TRUE] ELSE rows[r]) \in RowType
      BY <3>1 DEF RowType
    <3>3. DOMAIN rows = 1 .. Len(rows) /\ Len(rows) \in Nat
      BY DEF FilesTyped
    <3> QED
      BY <2>2, <3>2, <3>3
  <2>4. want' \in [Thread -> [Path -> Text \cup {None}]]
    BY <2>1, <2>2 DEF FilesTyped
  <2>5. raced' \in [Thread -> [Path -> BOOLEAN]]
    <3>1. Overlapped(c) \in BOOLEAN
      BY DEF Overlapped
    <3> QED
      BY <2>1, <2>2, <3>1 DEF FilesTyped
  <2> QED
    BY <2>3, <2>4, <2>5 DEF FilesTyped
<1> QED
  BY <1>1, <1>2, <1>3, RowsStep

(* What a step does to the outputs and to what is known of them.           *)
outputVars == <<workspace, emitted, handed>>

LEMMA OutputsStep ==
  ASSUME [Next]_vars
  PROVE  \/ UNCHANGED outputVars
         \/ \E f \in Output : Produce(f) \/ Age(f)
         \/ ScanRead
<1>1. ASSUME NEW c \in Call, CreateFile(c) \/ WriteFile(c) \/ EditFile(c)
      PROVE  UNCHANGED outputVars
  BY <1>1 DEF CreateFile, WriteFile, EditFile, scanVars, outputVars
<1>2. ASSUME NEW c \in Call, ReadFile(c) \/ ListFiles(c) \/ Execute(c) \/ MapStateUpdate(c)
      PROVE  UNCHANGED outputVars
  BY <1>2 DEF ReadFile, ListFiles, Execute, MapStateUpdate, scanVars, outputVars
<1>3. ASSUME NEW c \in Call, NEW t, NEW tool, NEW p, NEW text, AskTool(c, t, tool, p, text)
      PROVE  UNCHANGED outputVars
  BY <1>3 DEF AskTool, scanVars, outputVars
<1>4. ASSUME NEW c \in Call, Save(c) \/ DeleteFile(c) PROVE UNCHANGED outputVars
  BY <1>4 DEF Save, DeleteFile, scanVars, outputVars
<1>5. ASSUME ScanEnd \/ \E f \in Output : ScanStat(f) PROVE UNCHANGED outputVars
  BY <1>5 DEF ScanStat, ScanEnd, outputVars
<1>6. ASSUME UNCHANGED vars PROVE UNCHANGED outputVars
  BY <1>6 DEF vars, outputVars
<1> QED
  BY <1>1, <1>2, <1>3, <1>4, <1>5, <1>6 DEF Next

LEMMA OutputsNext == OutputsTyped /\ ScanTyped /\ [Next]_vars => OutputsTyped'
<1> SUFFICES ASSUME OutputsTyped, ScanTyped, [Next]_vars PROVE OutputsTyped'
  OBVIOUS
<1>1. CASE UNCHANGED outputVars
  BY <1>1 DEF OutputsTyped, outputVars
<1>2. ASSUME NEW f \in Output, Produce(f) PROVE OutputsTyped'
  <2>1. PICK large \in BOOLEAN :
          workspace' = [workspace EXCEPT ![f] =
                          [mtime |-> workspace[f].mtime + 1, large |-> large, fresh |-> TRUE]]
    BY <1>2 DEF Produce
  <2>2. emitted' = emitted /\ handed' = handed /\ workspace[f].mtime < MaxVersion
    BY <1>2 DEF Produce, scanVars
  <2>3. workspace[f].mtime \in Nat /\ workspace[f].mtime + 1 \in 0 .. MaxVersion
    BY <2>2, Constants DEF OutputsTyped
  <2>4. [mtime |-> workspace[f].mtime + 1, large |-> large, fresh |-> TRUE]
          \in [mtime : 0 .. MaxVersion, large : BOOLEAN, fresh : BOOLEAN]
    BY <2>3
  <2>5. /\ workspace' \in [Output -> [mtime : 0 .. MaxVersion, large : BOOLEAN, fresh : BOOLEAN]]
        /\ workspace'[f].mtime = workspace[f].mtime + 1
        /\ \A g \in Output \ {f} : workspace'[g] = workspace[g]
    BY <2>1, <2>4 DEF OutputsTyped
  <2>6. \A g \in Output : emitted[g] \in Nat /\ handed[g] \subseteq Nat
    BY DEF OutputsTyped
  <2>7. ASSUME NEW g \in Output
        PROVE  /\ emitted'[g] <= workspace'[g].mtime
               /\ handed'[g] \subseteq 1 .. workspace'[g].mtime
               /\ emitted'[g] > 0 /\ emitted'[g] = workspace'[g].mtime
                    => workspace'[g].mtime \in handed'[g]
    <3>1. CASE g = f
      BY <3>1, <2>2, <2>3, <2>5, <2>6 DEF OutputsTyped
    <3>2. CASE g # f
      BY <3>2, <2>2, <2>5 DEF OutputsTyped
    <3> QED
      BY <3>1, <3>2
  <2> QED
    BY <2>2, <2>5, <2>7 DEF OutputsTyped
<1>3. ASSUME NEW f \in Output, Age(f) PROVE OutputsTyped'
  <2>1. workspace' = [workspace EXCEPT ![f] = [workspace[f] EXCEPT !.fresh = FALSE]]
    BY <1>3 DEF Age
  <2>2. emitted' = emitted /\ handed' = handed
    BY <1>3 DEF Age, scanVars
  <2>3. /\ workspace' \in [Output -> [mtime : 0 .. MaxVersion, large : BOOLEAN, fresh : BOOLEAN]]
        /\ \A g \in Output : workspace'[g].mtime = workspace[g].mtime
    BY <2>1 DEF OutputsTyped
  <2> QED
    BY <2>2, <2>3 DEF OutputsTyped
<1>4. ASSUME ScanRead PROVE OutputsTyped'
  <2> DEFINE f == scan.file
  <2>1. /\ workspace' = workspace
        /\ \/ emitted' = emitted /\ handed' = handed
           \/ /\ emitted' = [emitted EXCEPT ![f] = scan.mtime]
              /\ handed' = [handed EXCEPT ![f] = handed[f] \cup {workspace[f].mtime}]
    BY <1>4 DEF ScanRead
  <2>2. f \in Output /\ scan.mtime \in 0 .. MaxVersion
        /\ 1 <= scan.mtime /\ scan.mtime <= workspace[f].mtime
    BY <1>4 DEF ScanRead, ScanTyped
  <2> HIDE DEF f
  <2>3. workspace[f].mtime \in 0 .. MaxVersion /\ scan.mtime \in Nat
    BY <2>2 DEF OutputsTyped
  <2>4. CASE emitted' = emitted /\ handed' = handed
    BY <2>1, <2>4 DEF OutputsTyped
  <2>5. CASE /\ emitted' = [emitted EXCEPT ![f] = scan.mtime]
             /\ handed' = [handed EXCEPT ![f] = handed[f] \cup {workspace[f].mtime}]
    <3>1. emitted' \in [Output -> Nat] /\ handed' \in [Output -> SUBSET Nat]
      BY <2>2, <2>3, <2>5 DEF OutputsTyped
    <3>2. /\ emitted'[f] = scan.mtime /\ handed'[f] = handed[f] \cup {workspace[f].mtime}
          /\ \A g \in Output \ {f} : emitted'[g] = emitted[g] /\ handed'[g] = handed[g]
      BY <2>2, <2>5 DEF OutputsTyped
    <3>3. workspace[f].mtime \in 1 .. workspace[f].mtime
      BY <2>2, <2>3
    <3>4. handed[f] \subseteq 1 .. workspace[f].mtime
      BY <2>2 DEF OutputsTyped
    <3>5. ASSUME NEW g \in Output
          PROVE  /\ emitted'[g] <= workspace'[g].mtime
                 /\ handed'[g] \subseteq 1 .. workspace'[g].mtime
                 /\ emitted'[g] > 0 /\ emitted'[g] = workspace'[g].mtime
                      => workspace'[g].mtime \in handed'[g]
      <4>1. CASE g = f
        BY <4>1, <3>2, <3>3, <3>4, <2>1, <2>2
      <4>2. CASE g # f
        BY <4>2, <3>2, <2>1 DEF OutputsTyped
      <4> QED
        BY <4>1, <4>2
    <3> QED
      BY <3>1, <3>5, <2>1 DEF OutputsTyped
  <2> QED
    BY <2>1, <2>4, <2>5
<1> QED
  BY <1>1, <1>2, <1>3, <1>4, OutputsStep

LEMMA ScanNext == CallsTyped /\ OutputsTyped /\ ScanTyped /\ [Next]_vars => ScanTyped'
<1> SUFFICES ASSUME CallsTyped, OutputsTyped, ScanTyped, [Next]_vars PROVE ScanTyped'
  OBVIOUS
<1>1. ASSUME UNCHANGED <<scan, call>>,
             \A f \in Output : workspace[f].mtime <= workspace'[f].mtime
                               /\ workspace'[f].mtime \in Nat
      PROVE  ScanTyped'
  <2> SUFFICES ASSUME scan # None
               PROVE  /\ scan \in [call : Call, left : SUBSET Output, file : Output \cup {None},
                                   mtime : 0 .. MaxVersion]
                      /\ call[scan.call].state \in {"ok", "error"}
                      /\ scan.file # None => /\ 1 <= scan.mtime
                                             /\ scan.mtime <= workspace'[scan.file].mtime
    BY <1>1 DEF ScanTyped
  <2>1. /\ scan \in [call : Call, left : SUBSET Output, file : Output \cup {None},
                     mtime : 0 .. MaxVersion]
        /\ call[scan.call].state \in {"ok", "error"}
        /\ scan.file # None => 1 <= scan.mtime /\ scan.mtime <= workspace[scan.file].mtime
    BY DEF ScanTyped
  <2>2. scan.file # None => scan.file \in Output /\ scan.mtime \in Int
                            /\ workspace[scan.file].mtime \in Int
    BY <2>1 DEF OutputsTyped
  <2>3. scan.file # None => scan.mtime <= workspace'[scan.file].mtime
    BY <2>1, <2>2, <1>1
  <2> QED
    BY <2>1, <2>3
<1>2. \A f \in Output : workspace[f].mtime \in 0 .. MaxVersion
  BY DEF OutputsTyped
<1>3. ASSUME scan' = None PROVE ScanTyped'
  BY <1>3 DEF ScanTyped
<1>4. ASSUME NEW c \in Call, CreateFile(c) \/ WriteFile(c) \/ EditFile(c) PROVE ScanTyped'
  <2>1. scan' = None
    BY <1>4 DEF CreateFile, WriteFile, EditFile, Runs, scanVars
  <2> QED
    BY <2>1, <1>3
<1>5. ASSUME NEW c \in Call, ReadFile(c) \/ ListFiles(c) \/ Execute(c) PROVE ScanTyped'
  <2>1. scan' = None
    BY <1>5 DEF ReadFile, ListFiles, Execute, Runs, scanVars
  <2> QED
    BY <2>1, <1>3
<1>6. ASSUME NEW c \in Call, NEW t, NEW tool, NEW p, NEW text, AskTool(c, t, tool, p, text)
      PROVE  ScanTyped'
  BY <1>6, <1>3 DEF AskTool, scanVars
<1>7. ASSUME NEW c \in Call, Save(c) \/ DeleteFile(c) PROVE ScanTyped'
  <2>1. scan' = None
    BY <1>7 DEF Save, DeleteFile, Runs, scanVars
  <2> QED
    BY <2>1, <1>3
<1>8. ASSUME NEW c \in Call, MapStateUpdate(c) PROVE ScanTyped'
  <2>1. \/ scan' = None
        \/ /\ scan' = [call |-> c, left |-> Output, file |-> None, mtime |-> 0]
           /\ call' = call /\ call[c].state \in {"ok", "error"}
    BY <1>8 DEF MapStateUpdate
  <2>2. 0 \in 0 .. MaxVersion
    BY Constants
  <2> QED
    BY <2>1, <2>2, <1>3 DEF ScanTyped
<1>9. ASSUME NEW f \in Output, Produce(f) PROVE ScanTyped'
  <2>1. \A g \in Output : workspace'[g].mtime = workspace[g].mtime \/
                          workspace'[g].mtime = workspace[g].mtime + 1
    BY <1>9 DEF Produce, OutputsTyped
  <2>2. UNCHANGED <<scan, call>>
    BY <1>9 DEF Produce, scanVars
  <2> QED
    BY <1>1, <1>2, <2>1, <2>2
<1>10. ASSUME NEW f \in Output, Age(f) PROVE ScanTyped'
  <2>1. \A g \in Output : workspace'[g].mtime = workspace[g].mtime
    BY <1>10 DEF Age, OutputsTyped
  <2>2. UNCHANGED <<scan, call>>
    BY <1>10 DEF Age, scanVars
  <2> QED
    BY <1>1, <1>2, <2>1, <2>2
<1>11. ASSUME NEW f \in Output, ScanStat(f) PROVE ScanTyped'
  <2>1. /\ scan # None /\ workspace' = workspace /\ call' = call
        /\ \/ scan' = [scan EXCEPT !.left = scan.left \ {f}]
           \/ /\ scan' = [scan EXCEPT !.left = scan.left \ {f}, !.file = f,
                                      !.mtime = workspace[f].mtime]
              /\ workspace[f].mtime # 0
    BY <1>11 DEF ScanStat
  <2>2. /\ scan \in [call : Call, left : SUBSET Output, file : Output \cup {None},
                     mtime : 0 .. MaxVersion]
        /\ call[scan.call].state \in {"ok", "error"}
        /\ scan.file # None => 1 <= scan.mtime /\ scan.mtime <= workspace[scan.file].mtime
    BY <2>1 DEF ScanTyped
  <2>3. CASE scan' = [scan EXCEPT !.left = scan.left \ {f}]
    BY <2>1, <2>2, <2>3 DEF ScanTyped
  <2>4. CASE /\ scan' = [scan EXCEPT !.left = scan.left \ {f}, !.file = f,
                                     !.mtime = workspace[f].mtime]
             /\ workspace[f].mtime # 0
    <3>1. workspace[f].mtime \in 0 .. MaxVersion /\ 1 <= workspace[f].mtime
          /\ workspace[f].mtime <= workspace[f].mtime
      BY <2>4, <1>2
    <3>2. /\ scan' \in [call : Call, left : SUBSET Output, file : Output \cup {None},
                         mtime : 0 .. MaxVersion]
          /\ scan'.call = scan.call /\ scan'.file = f /\ scan'.mtime = workspace[f].mtime
      BY <2>2, <2>4, <3>1
    <3> QED
      BY <2>1, <2>2, <3>1, <3>2 DEF ScanTyped
  <2> QED
    BY <2>1, <2>3, <2>4
<1>12. ASSUME ScanRead PROVE ScanTyped'
  <2>1. scan # None /\ scan' = [scan EXCEPT !.file = None] /\ call' = call
    BY <1>12 DEF ScanRead
  <2>2. /\ scan \in [call : Call, left : SUBSET Output, file : Output \cup {None},
                     mtime : 0 .. MaxVersion]
        /\ call[scan.call].state \in {"ok", "error"}
    BY <2>1 DEF ScanTyped
  <2> QED
    BY <2>1, <2>2 DEF ScanTyped
<1>13. ASSUME ScanEnd PROVE ScanTyped'
  BY <1>13, <1>3 DEF ScanEnd
<1>14. ASSUME UNCHANGED vars PROVE ScanTyped'
  BY <1>1, <1>2, <1>14 DEF vars
<1> QED
  BY <1>4, <1>5, <1>6, <1>7, <1>8, <1>9, <1>10, <1>11, <1>12, <1>13, <1>14 DEF Next
-----------------------------------------------------------------------------
Typed == CallsTyped /\ FilesTyped /\ OutputsTyped /\ ScanTyped

LEMMA TypedInit == Init => Typed
<1> SUFFICES ASSUME Init PROVE Typed
  OBVIOUS
<1>1. CallsTyped
  BY DEF Init, CallsTyped, Calls1
<1>2. FilesTyped
  BY DEF Init, FilesTyped
<1>3. 0 \in 0 .. MaxVersion
  BY Constants
<1>4. OutputsTyped
  BY <1>3 DEF Init, OutputsTyped
<1>5. ScanTyped
  BY DEF Init, ScanTyped
<1> QED
  BY <1>1, <1>2, <1>4, <1>5 DEF Typed

LEMMA TypedNext == Typed /\ [Next]_vars => Typed'
BY CallsNext, FilesNext, OutputsNext, ScanNext DEF Typed

LEMMA TypedMeans == Typed => TypeOK /\ PassedOverWasShown
<1> SUFFICES ASSUME Typed PROVE TypeOK /\ PassedOverWasShown
  OBVIOUS
<1>1. \A c \in Call : call[c].state \in States
  BY StatesOf DEF Typed, CallsTyped
<1>2. ASSUME NEW r \in DOMAIN rows
      PROVE  /\ rows[r].thread \in Thread /\ rows[r].path \in Path
             /\ rows[r].text \in Text /\ rows[r].deleted \in BOOLEAN
  <2>1. rows[r] \in RowType
    BY DEF Typed, FilesTyped
  <2> QED
    BY <2>1 DEF RowType
<1>3. \A f \in Output : /\ workspace[f].mtime \in 0 .. MaxVersion
                        /\ emitted[f] \in 0 .. workspace[f].mtime
                        /\ handed[f] \subseteq 1 .. workspace[f].mtime
  <2>1. \A f \in Output : workspace[f].mtime \in 0 .. MaxVersion /\ emitted[f] \in Nat
    BY DEF Typed, OutputsTyped
  <2> QED
    BY <2>1 DEF Typed, OutputsTyped
<1>4. \A t \in Thread, p \in Path : want[t][p] \in Text \cup {None} /\ raced[t][p] \in BOOLEAN
  BY DEF Typed, FilesTyped
<1>5. PassedOverWasShown
  BY DEF Typed, OutputsTyped, PassedOverWasShown
<1> QED
  BY <1>1, <1>2, <1>3, <1>4, <1>5 DEF TypeOK

LEMMA TypedAlways == Spec => []Typed
BY TypedInit, TypedNext, PTL DEF Spec

(* The calls, the table of files and the bookkeeping of the scans are of   *)
(* the types the tools declare; in particular nothing is held to be        *)
(* emitted in a version that the workspace has not reached.                *)
THEOREM TypeCorrect == Spec => []TypeOK
BY TypedAlways, TypedMeans, PTL

(* However commands write while a scan runs, and however reads fail: the   *)
(* version that scans pass over was in an event.  The stat of a file is    *)
(* taken before it is read, so what is marked is never newer than what was *)
(* shown (_scan_execute_artifacts).                                        *)
THEOREM PassedOverVersionsWereShown == Spec => []PassedOverWasShown
BY TypedAlways, TypedMeans, PTL
-----------------------------------------------------------------------------
(***************************************************************************)
(* The calls at a path add up.  Where none has overlapped since the last   *)
(* deletion, there is one file at most, with the text the last call left;  *)
(* and every call that has read there and is yet to commit has read what   *)
(* the table still holds.                                                  *)
(***************************************************************************)
At(c, t, p) == call[c].state = "found" /\ call[c].thread = t /\ call[c].path = p

Current(c) ==
  LET k == call[c]
  IN IF k.row = 0 THEN ActiveAt(k.thread, k.path) = {}
     ELSE ActiveAt(k.thread, k.path) = {k.row} /\ k.was = rows[k.row].text

OneFile(t, p) ==
  IF want[t][p] = None THEN ActiveAt(t, p) = {}
  ELSE \E r \in DOMAIN rows : ActiveAt(t, p) = {r} /\ rows[r].text = want[t][p]

AddUpAt(t, p) ==
  ~ raced[t][p] => OneFile(t, p) /\ \A c \in Call : At(c, t, p) => Current(c)

(* The row a call has read is one of its thread and path.                  *)
RowsRead ==
  \A c \in Call : call[c].state = "found" /\ call[c].row # 0 =>
    /\ call[c].row \in DOMAIN rows
    /\ rows[call[c].row].thread = call[c].thread
    /\ rows[call[c].row].path = call[c].path

AddUpInv == RowsRead /\ \A t \in Thread, p \in Path : AddUpAt(t, p)

LEMMA EndKept ==
  ASSUME CallsTyped, NEW c \in Call, NEW state, state # "found", Ends(c, state)
  PROVE  \A d \in Call : call'[d].state = "found" => call'[d] = call[d]
<1>1. call' = [call EXCEPT ![c] = [call[c] EXCEPT !.state = state]]
  BY DEF Ends
<1>2. ASSUME call[c] = Idle PROVE [call[c] EXCEPT !.state = state].state # "found"
  BY <1>2 DEF Idle
<1>3. ASSUME call[c] # Idle PROVE [call[c] EXCEPT !.state = state].state # "found"
  BY <1>3 DEF CallsTyped, Calls1, AskedCall, FoundCall, ListedCall, RanCall
<1> QED
  BY <1>1, <1>2, <1>3 DEF CallsTyped

(* No file, or one.                                                        *)
LEMMA HereCounted ==
  ASSUME FilesTyped, NEW c \in Call
  PROVE  /\ Cardinality(Here(c)) \in Nat
         /\ Cardinality(Here(c)) = 0 <=> Here(c) = {}
<1>1. Here(c) \subseteq 1 .. Len(rows)
  BY DEF Here, ActiveAt, FilesTyped
<1>2. Len(rows) \in Nat
  BY DEF FilesTyped
<1>3. IsFiniteSet(1 .. Len(rows))
  BY <1>2, FS_Interval
<1>4. IsFiniteSet(Here(c))
  BY <1>1, <1>3, FS_Subset
<1> QED
  BY <1>4, FS_CardinalityType, FS_EmptySet

Kept == /\ UNCHANGED fileVars
        /\ \A c \in Call : call'[c].state = "found" => call'[c] = call[c]

Reads(c) ==
  /\ UNCHANGED fileVars
  /\ call[c].state = "asked"
  /\ \E r \in 0 .. Len(rows), text \in Text : Finds(c, r) /\ GoesOn(c, r, text)

(* What a step does to the files and to the calls that are to commit.      *)
LEMMA FoundStep ==
  ASSUME Typed, [Next]_vars
  PROVE  Kept \/ \E c \in Call : Reads(c) \/ Save(c) \/ DeleteFile(c)
<1> USE DEF Typed
<1>1. ASSUME NEW c \in Call, NEW t \in Thread, NEW tool \in Tools, NEW p \in Path, NEW text,
             AskTool(c, t, tool, p, text)
      PROVE  Kept
  BY <1>1 DEF AskTool, Kept, CallsTyped
<1>2. ASSUME NEW c \in Call, CreateFile(c) PROVE Kept \/ Reads(c)
  <2>1. UNCHANGED fileVars /\ call[c].state = "asked" /\ call[c].text \in Text
    BY <1>2, StatesOf DEF CreateFile, Runs, CallsTyped, AskedCall
  <2>2. CASE Raises(c)
    <3>1. Ends(c, "raised")
      BY <1>2, <2>2 DEF CreateFile, Raises
    <3> QED
      BY <2>1, <3>1, EndKept DEF Kept
  <2>3. CASE ~ Raises(c) /\ Cardinality(Here(c)) = 1
    <3>1. Ends(c, "error")
      BY <1>2, <2>3 DEF CreateFile, Raises
    <3> QED
      BY <2>1, <3>1, EndKept DEF Kept
  <2>4. CASE ~ Raises(c) /\ Cardinality(Here(c)) # 1
    <3>1. GoesOn(c, 0, call[c].text)
      BY <1>2, <2>4 DEF CreateFile
    <3>2. Here(c) = {}
      BY <2>4, HereCounted DEF Raises
    <3>3. Finds(c, 0) /\ 0 \in 0 .. Len(rows)
      BY <3>2 DEF Finds, FilesTyped
    <3> QED
      BY <2>1, <3>1, <3>3 DEF Reads
  <2> QED
    BY <2>2, <2>3, <2>4
<1>3. ASSUME NEW c \in Call, WriteFile(c) PROVE Kept \/ Reads(c)
  <2>1. UNCHANGED fileVars /\ call[c].state = "asked" /\ call[c].text \in Text
    BY <1>3, StatesOf DEF WriteFile, Runs, CallsTyped, AskedCall
  <2>2. CASE Raises(c)
    <3>1. Ends(c, "raised")
      BY <1>3, <2>2 DEF WriteFile
    <3> QED
      BY <2>1, <3>1, EndKept DEF Kept
  <2>3. CASE ~ Raises(c)
    BY <1>3, <2>1, <2>3 DEF WriteFile, Reads
  <2> QED
    BY <2>2, <2>3
<1>4. ASSUME NEW c \in Call, EditFile(c) PROVE Kept \/ Reads(c)
  <2>1. UNCHANGED fileVars /\ call[c].state = "asked"
    BY <1>4 DEF EditFile, Runs
  <2>2. CASE Ends(c, "raised") \/ Ends(c, "error")
    BY <2>1, <2>2, EndKept DEF Kept
  <2>3. CASE \E r \in 0 .. Len(rows) : /\ r # 0 /\ Finds(c, r)
                                       /\ GoesOn(c, r, Edited(rows[r].text))
    <3>1. PICK r \in 0 .. Len(rows) : r # 0 /\ Finds(c, r) /\ GoesOn(c, r, Edited(rows[r].text))
      BY <2>3
    <3>2. rows[r] \in RowType
      BY <3>1 DEF FilesTyped
    <3>3. Edited(rows[r].text) \in Text
      BY <3>2, Texts DEF RowType
    <3> QED
      BY <2>1, <3>1, <3>3 DEF Reads
  <2> QED
    BY <1>4, <2>2, <2>3 DEF EditFile
<1>5. ASSUME NEW c \in Call, ReadFile(c) PROVE Kept
  <2>1. UNCHANGED fileVars /\ call[c] \in AskedCall
    BY <1>5, StatesOf DEF ReadFile, Runs, CallsTyped
  <2>2. CASE Ends(c, "raised") \/ Ends(c, "error")
    BY <2>1, <2>2, EndKept DEF Kept
  <2>3. CASE \E r \in Here(c) :
               call' = [call EXCEPT ![c] = [call[c] EXCEPT !.state = "ok", !.text = rows[r].text]]
    <3>1. PICK r \in Here(c) :
            call' = [call EXCEPT ![c] = [call[c] EXCEPT !.state = "ok", !.text = rows[r].text]]
      BY <2>3
    <3>2. [call[c] EXCEPT !.state = "ok", !.text = rows[r].text].state = "ok"
      BY <2>1 DEF AskedCall
    <3> QED
      BY <2>1, <3>1, <3>2 DEF Kept, CallsTyped
  <2> QED
    BY <1>5, <2>2, <2>3 DEF ReadFile, CallsTyped
<1>6. ASSUME NEW c \in Call, ListFiles(c) PROVE Kept
  BY <1>6 DEF ListFiles, Kept, CallsTyped
<1>7. ASSUME NEW c \in Call, Execute(c) PROVE Kept
  BY <1>7 DEF Execute, Kept, CallsTyped
<1>8. ASSUME NEW c \in Call, MapStateUpdate(c) PROVE Kept
  <2>1. UNCHANGED fileVars /\ (Ends(c, "told") \/ UNCHANGED call)
    BY <1>8 DEF MapStateUpdate
  <2> QED
    BY <2>1, EndKept DEF Kept
<1>9. ASSUME \/ \E f \in Output : Produce(f) \/ Age(f) \/ ScanStat(f)
             \/ ScanRead
      PROVE  Kept
  BY <1>9 DEF Produce, Age, ScanStat, ScanRead, Kept
<1>10. ASSUME ScanEnd PROVE Kept
  <2>1. UNCHANGED fileVars /\ scan.call \in Call /\ Ends(scan.call, "told")
    BY <1>10 DEF ScanEnd, ScanTyped
  <2> QED
    BY <2>1, EndKept DEF Kept
<1>11. ASSUME UNCHANGED vars PROVE Kept
  BY <1>11 DEF vars, Kept, fileVars
<1>12. ASSUME Next PROVE Kept \/ \E c \in Call : Reads(c) \/ Save(c) \/ DeleteFile(c)
  BY <1>12, <1>1, <1>2, <1>3, <1>4, <1>5, <1>6, <1>7, <1>8, <1>9, <1>10 DEF Next
<1> QED
  BY <1>11, <1>12

LEMMA AddUpKept ==
  ASSUME AddUpInv, Kept
  PROVE  AddUpInv'
<1>1. rows' = rows /\ want' = want /\ raced' = raced
  BY DEF Kept, fileVars
<1>2. \A c \in Call : call'[c].state = "found" => call'[c] = call[c]
  BY DEF Kept
<1>3. RowsRead'
  BY <1>1, <1>2 DEF AddUpInv, RowsRead
<1>4. ASSUME NEW t \in Thread, NEW p \in Path PROVE AddUpAt(t, p)'
  <2>1. SUFFICES ASSUME ~ raced[t][p]
                 PROVE  OneFile(t, p)' /\ \A c \in Call : At(c, t, p)' => Current(c)'
    BY <1>1 DEF AddUpAt
  <2>2. OneFile(t, p) /\ \A c \in Call : At(c, t, p) => Current(c)
    BY <2>1 DEF AddUpInv, AddUpAt
  <2>3. OneFile(t, p)'
    BY <1>1, <2>2 DEF OneFile, ActiveAt
  <2>4. ASSUME NEW c \in Call, At(c, t, p)' PROVE Current(c)'
    <3>1. call'[c] = call[c] /\ At(c, t, p)
      BY <2>4, <1>2 DEF At
    <3>2. Current(c)
      BY <3>1, <2>2
    <3> QED
      BY <3>1, <3>2, <1>1 DEF Current, ActiveAt
  <2> QED
    BY <2>3, <2>4
<1> QED
  BY <1>3, <1>4 DEF AddUpInv

(* A call that reads finds the one file there is, or that there is none.   *)
LEMMA AddUpReads ==
  ASSUME Typed, AddUpInv, NEW c \in Call, Reads(c)
  PROVE  AddUpInv'
<1> DEFINE k == call[c]
<1>1. PICK r \in 0 .. Len(rows), text \in Text : Finds(c, r) /\ GoesOn(c, r, text)
  BY DEF Reads
<1>2. rows' = rows /\ want' = want /\ raced' = raced /\ k.state = "asked"
  BY DEF Reads, fileVars
<1>3. /\ call'[c] = [state |-> "found", thread |-> k.thread, tool |-> k.tool,
                     path |-> k.path, text |-> text, row |-> r,
                     was |-> IF r = 0 THEN None ELSE rows[r].text]
      /\ \A d \in Call \ {c} : call'[d] = call[d]
  BY <1>1, <1>2, FoundNew DEF Typed
<1>4. k.thread \in Thread /\ k.path \in Path
  BY <1>2, StatesOf DEF Typed, CallsTyped
<1>5. IF ActiveAt(k.thread, k.path) = {} THEN r = 0 ELSE r \in ActiveAt(k.thread, k.path)
  BY <1>1 DEF Finds, Here, ExtractThreadId
<1> HIDE DEF k
<1>6. /\ call'[c].row = r /\ call'[c].thread = k.thread /\ call'[c].path = k.path
      /\ r # 0 => call'[c].was = rows[r].text
  BY <1>3
<1>7. RowsRead'
  <2>1. r # 0 => r \in DOMAIN rows /\ rows[r].thread = k.thread /\ rows[r].path = k.path
    BY <1>5 DEF ActiveAt
  <2>2. \A d \in Call \ {c} : call'[d].state = "found" /\ call'[d].row # 0 =>
          /\ call'[d].row \in DOMAIN rows
          /\ rows[call'[d].row].thread = call'[d].thread
          /\ rows[call'[d].row].path = call'[d].path
    BY <1>3 DEF AddUpInv, RowsRead
  <2> QED
    BY <1>2, <1>6, <2>1, <2>2 DEF RowsRead
<1>8. ASSUME NEW t \in Thread, NEW p \in Path PROVE AddUpAt(t, p)'
  <2>1. SUFFICES ASSUME ~ raced[t][p]
                 PROVE  OneFile(t, p)' /\ \A d \in Call : At(d, t, p)' => Current(d)'
    BY <1>2 DEF AddUpAt
  <2>2. OneFile(t, p) /\ \A d \in Call : At(d, t, p) => Current(d)
    BY <2>1 DEF AddUpInv, AddUpAt
  <2>3. OneFile(t, p)'
    BY <1>2, <2>2 DEF OneFile, ActiveAt
  <2>4. ASSUME NEW d \in Call, d # c, At(d, t, p)' PROVE Current(d)'
    <3>1. call'[d] = call[d] /\ At(d, t, p)
      BY <2>4, <1>3 DEF At
    <3>2. Current(d)
      BY <3>1, <2>2
    <3> QED
      BY <3>1, <3>2, <1>2 DEF Current, ActiveAt
  <2>5. ASSUME At(c, t, p)' PROVE Current(c)'
    <3>1. k.thread = t /\ k.path = p
      BY <2>5, <1>6 DEF At
    <3>2. ActiveAt(t, p) = {} \/ \E x \in DOMAIN rows : ActiveAt(t, p) = {x}
      BY <2>2 DEF OneFile
    <3>3. IF r = 0 THEN ActiveAt(t, p) = {} ELSE ActiveAt(t, p) = {r}
      <4>1. CASE ActiveAt(t, p) = {}
        BY <4>1, <1>5, <3>1
      <4>2. CASE ActiveAt(t, p) # {}
        <5>1. PICK x \in DOMAIN rows : ActiveAt(t, p) = {x}
          BY <4>2, <3>2
        <5>2. r = x
          BY <5>1, <1>5, <3>1
        <5>3. x # 0
          BY DEF Typed, FilesTyped
        <5> QED
          BY <5>1, <5>2, <5>3
      <4> QED
        BY <4>1, <4>2
    <3>4. ActiveAt(call[c].thread, call[c].path)' = ActiveAt(t, p)
      BY <1>2, <1>6, <3>1 DEF ActiveAt
    <3> QED
      BY <1>2, <1>6, <3>3, <3>4 DEF Current
  <2> QED
    BY <2>3, <2>4, <2>5
<1> QED
  BY <1>7, <1>8 DEF AddUpInv

(* A step of a call at t0, p0 that leaves the files of other paths alone.  *)
LEMMA AddUpElsewhere ==
  ASSUME AddUpInv, NEW c \in Call, NEW t0, NEW p0,
         call'[c].state # "found", \A d \in Call \ {c} : call'[d] = call[d],
         NEW t \in Thread, NEW p \in Path, t # t0 \/ p # p0,
         want'[t][p] = want[t][p], raced'[t][p] = raced[t][p],
         DOMAIN rows \subseteq DOMAIN rows',
         ActiveAt(t, p)' = ActiveAt(t, p),
         \A r \in ActiveAt(t, p) : rows'[r].text = rows[r].text
  PROVE  AddUpAt(t, p)'
<1>1. SUFFICES ASSUME ~ raced[t][p]
               PROVE  OneFile(t, p)' /\ \A d \in Call : At(d, t, p)' => Current(d)'
  BY DEF AddUpAt
<1>2. OneFile(t, p) /\ \A d \in Call : At(d, t, p) => Current(d)
  BY <1>1 DEF AddUpInv, AddUpAt
<1>3. OneFile(t, p)'
  <2>1. CASE want[t][p] = None
    BY <1>2, <2>1 DEF OneFile
  <2>2. CASE want[t][p] # None
    <3>1. PICK r \in DOMAIN rows : ActiveAt(t, p) = {r} /\ rows[r].text = want[t][p]
      BY <1>2, <2>2 DEF OneFile
    <3>2. r \in DOMAIN rows' /\ ActiveAt(t, p)' = {r} /\ rows'[r].text = want'[t][p]
      BY <3>1
    <3> QED
      BY <3>2, <2>2 DEF OneFile
  <2> QED
    BY <2>1, <2>2
<1>4. ASSUME NEW d \in Call, At(d, t, p)' PROVE Current(d)'
  <2>1. call'[d] = call[d] /\ At(d, t, p)
    BY <1>4 DEF At
  <2>2. call[d].thread = t /\ call[d].path = p /\ Current(d)
    BY <2>1, <1>2 DEF At
  <2>3. IF call[d].row = 0 THEN ActiveAt(t, p) = {}
        ELSE ActiveAt(t, p) = {call[d].row} /\ call[d].was = rows[call[d].row].text
    BY <2>2 DEF Current
  <2>4. IF call'[d].row = 0 THEN ActiveAt(t, p)' = {}
        ELSE ActiveAt(t, p)' = {call'[d].row} /\ call'[d].was = rows'[call'[d].row].text
    BY <2>1, <2>3
  <2>5. ActiveAt(call[d].thread, call[d].path)' = ActiveAt(t, p)'
    BY <2>1, <2>2 DEF ActiveAt
  <2> QED
    BY <2>4, <2>5 DEF Current
<1> QED
  BY <1>3, <1>4

(* A commit adds a file where there is none, or writes the one there is.   *)
LEMMA AddUpSave ==
  ASSUME Typed, AddUpInv, NEW c \in Call, Save(c)
  PROVE  AddUpInv'
<1> DEFINE k == call[c]
           row == [thread |-> k.thread, path |-> k.path, text |-> k.text, deleted |-> FALSE]
<1>1. k \in FoundCall /\ k.state = "found"
  BY StatesOf DEF Save, Typed, CallsTyped
<1>2. k.thread \in Thread /\ k.path \in Path /\ k.text \in Text /\ k.row \in Nat
  BY <1>1 DEF FoundCall
<1>3. /\ rows' = IF k.row = 0 THEN Append(rows, row)
                 ELSE IF k.text = k.was THEN rows
                      ELSE [rows EXCEPT ![k.row] = [rows[k.row] EXCEPT !.text = k.text]]
      /\ want' = [want EXCEPT ![k.thread][k.path] = k.text]
      /\ raced' = [raced EXCEPT ![k.thread][k.path] = raced[k.thread][k.path] \/ Overlapped(c)]
  BY DEF Save, ExtractThreadId
<1>4. call' = [call EXCEPT ![c] = [k EXCEPT !.state = "ok"]]
  BY DEF Save, Ends
<1>5. k.row # 0 => /\ k.row \in DOMAIN rows
                   /\ rows[k.row].thread = k.thread /\ rows[k.row].path = k.path
  BY <1>1 DEF AddUpInv, RowsRead
<1>6. call'[c].state = "ok" /\ \A d \in Call \ {c} : call'[d] = call[d]
  BY <1>1, <1>4 DEF Typed, CallsTyped, FoundCall
<1>7. rows \in Seq(RowType) /\ DOMAIN rows = 1 .. Len(rows) /\ Len(rows) \in Nat
  BY DEF Typed, FilesTyped
<1>8. /\ want'[k.thread][k.path] = k.text
      /\ raced'[k.thread][k.path] = (raced[k.thread][k.path] \/ Overlapped(c))
  BY <1>2, <1>3 DEF Typed, FilesTyped
<1>9. \A t \in Thread, p \in Path : t # k.thread \/ p # k.path =>
        want'[t][p] = want[t][p] /\ raced'[t][p] = raced[t][p]
  BY <1>3, <1>2 DEF Typed, FilesTyped
<1>10. \A d \in Call \ {c} : /\ call[d].state = "found" /\ call[d].thread = k.thread
                             /\ call[d].path = k.path
                             => Overlapped(c)
  BY DEF Overlapped
<1> HIDE DEF k
<1>11. /\ row.thread = k.thread /\ row.path = k.path /\ row.text = k.text /\ row.deleted = FALSE
  OBVIOUS
<1> HIDE DEF row
(* What the commit does to the rows. *)
<1>12. /\ DOMAIN rows \subseteq DOMAIN rows'
       /\ \A r \in DOMAIN rows : /\ rows'[r].thread = rows[r].thread
                                 /\ rows'[r].path = rows[r].path
                                 /\ rows'[r].deleted = rows[r].deleted
                                 /\ r # k.row => rows'[r] = rows[r]
  <2>1. CASE k.row = 0
    <3>1. /\ DOMAIN rows' = 1 .. Len(rows) + 1
          /\ \A r \in DOMAIN rows : rows'[r] = rows[r]
      BY <1>3, <1>7, <2>1
    <3> QED
      BY <1>7, <3>1
  <2>2. CASE k.row # 0 /\ k.text = k.was
    BY <1>3, <2>2
  <2>3. CASE k.row # 0 /\ k.text # k.was
    <3>1. rows' = [rows EXCEPT ![k.row] = [rows[k.row] EXCEPT !.text = k.text]]
      BY <1>3, <2>3
    <3>2. rows[k.row] \in RowType
      BY <1>5, <2>3, <1>7
    <3> QED
      BY <3>1, <3>2, <1>5, <1>7, <2>3 DEF RowType
  <2> QED
    BY <2>1, <2>2, <2>3
<1>13. ASSUME k.row = 0
       PROVE  /\ Len(rows) + 1 \notin DOMAIN rows
              /\ DOMAIN rows' = DOMAIN rows \cup {Len(rows) + 1}
              /\ rows'[Len(rows) + 1] = row
  BY <1>3, <1>7, <1>13
<1>14. ASSUME k.row # 0 PROVE DOMAIN rows' = DOMAIN rows
  BY <1>3, <1>5, <1>7, <1>14
<1>15. RowsRead'
  <2> SUFFICES ASSUME NEW d \in Call, call'[d].state = "found", call'[d].row # 0
               PROVE  /\ call'[d].row \in DOMAIN rows'
                      /\ rows'[call'[d].row].thread = call'[d].thread
                      /\ rows'[call'[d].row].path = call'[d].path
    BY DEF RowsRead
  <2>1. call'[d] = call[d]
    BY <1>6
  <2>2. /\ call[d].row \in DOMAIN rows
        /\ rows[call[d].row].thread = call[d].thread
        /\ rows[call[d].row].path = call[d].path
    BY <2>1 DEF AddUpInv, RowsRead
  <2> QED
    BY <2>1, <2>2, <1>12
<1>16. ASSUME NEW t \in Thread, NEW p \in Path, t # k.thread \/ p # k.path
       PROVE  AddUpAt(t, p)'
  <2>1. ActiveAt(t, p)' = ActiveAt(t, p)
    <3>1. CASE k.row = 0
      BY <1>11, <1>12, <1>13, <1>16, <3>1 DEF ActiveAt
    <3>2. CASE k.row # 0
      BY <1>12, <1>14, <3>2 DEF ActiveAt
    <3> QED
      BY <3>1, <3>2
  <2>2. ASSUME NEW r \in ActiveAt(t, p) PROVE rows'[r].text = rows[r].text
    <3>1. r \in DOMAIN rows /\ rows[r].thread = t /\ rows[r].path = p
      BY <2>2 DEF ActiveAt
    <3>2. r # k.row
      <4>1. r # 0
        BY <1>7, <3>1
      <4> QED
        BY <3>1, <4>1, <1>5, <1>16
    <3> QED
      BY <3>1, <3>2, <1>12
  <2> QED
    BY <1>6, <1>9, <1>12, <1>16, <2>1, <2>2, AddUpElsewhere
<1>17. ASSUME NEW t \in Thread, NEW p \in Path, t = k.thread, p = k.path
       PROVE  AddUpAt(t, p)'
  <2>1. SUFFICES ASSUME ~ raced[t][p], ~ Overlapped(c)
                 PROVE  OneFile(t, p)' /\ \A d \in Call : At(d, t, p)' => Current(d)'
    <3>1. raced'[t][p] = (raced[t][p] \/ Overlapped(c))
      BY <1>8, <1>17
    <3> QED
      BY <3>1 DEF AddUpAt
  <2>2. At(c, t, p)
    BY <1>1, <1>17 DEF At, k
  <2>3. Current(c)
    BY <2>1, <2>2 DEF AddUpInv, AddUpAt
  <2>4. IF k.row = 0 THEN ActiveAt(t, p) = {}
        ELSE ActiveAt(t, p) = {k.row} /\ k.was = rows[k.row].text
    BY <2>3, <1>17 DEF Current, k
  <2>5. \A d \in Call : ~ At(d, t, p)'
    BY <1>6, <1>10, <1>17, <2>1 DEF At
  <2>6. \E r \in DOMAIN rows' : ActiveAt(t, p)' = {r} /\ rows'[r].text = k.text
    <3>1. CASE k.row = 0
      <4>1. ActiveAt(t, p)' = {Len(rows) + 1}
        BY <1>11, <1>12, <1>13, <1>17, <2>4, <3>1 DEF ActiveAt
      <4> QED
        BY <4>1, <3>1, <1>11, <1>13
    <3>2. CASE k.row # 0
      <4>1. ActiveAt(t, p)' = {k.row}
        <5>1. ActiveAt(t, p)' = ActiveAt(t, p)
          BY <1>12, <1>14, <3>2 DEF ActiveAt
        <5> QED
          BY <5>1, <2>4, <3>2
      <4>2. rows'[k.row].text = k.text
        <5>1. CASE k.text = k.was
          BY <5>1, <1>3, <2>4, <3>2
        <5>2. CASE k.text # k.was
          <6>1. rows' = [rows EXCEPT ![k.row] = [rows[k.row] EXCEPT !.text = k.text]]
            BY <1>3, <3>2, <5>2
          <6>2. rows[k.row] \in RowType
            BY <1>5, <3>2, <1>7
          <6> QED
            BY <6>1, <6>2, <1>5, <1>7, <3>2 DEF RowType
        <5> QED
          BY <5>1, <5>2
      <4> QED
        BY <4>1, <4>2, <1>5, <1>12, <3>2
    <3> QED
      BY <3>1, <3>2
  <2>7. k.text # None
    BY <1>2, Constants
  <2>8. want'[t][p] = k.text
    BY <1>8, <1>17
  <2>9. OneFile(t, p)'
    BY <2>6, <2>7, <2>8 DEF OneFile
  <2> QED
    BY <2>5, <2>9
<1> QED
  BY <1>15, <1>16, <1>17 DEF AddUpInv

(* A deletion leaves no file, and mends what overlapping calls have done.  *)
LEMMA AddUpDelete ==
  ASSUME Typed, AddUpInv, NEW c \in Call, DeleteFile(c)
  PROVE  AddUpInv'
<1> DEFINE k == call[c]
<1>1. k.state = "asked" /\ k.thread \in Thread /\ k.path \in Path
  BY StatesOf DEF DeleteFile, Runs, Typed, CallsTyped
<1>2. /\ rows' = [r \in DOMAIN rows |->
                    IF r \in ActiveAt(k.thread, k.path)
                    THEN [rows[r] EXCEPT !.deleted = TRUE] ELSE rows[r]]
      /\ want' = [want EXCEPT ![k.thread][k.path] = None]
      /\ raced' = [raced EXCEPT ![k.thread][k.path] = Overlapped(c)]
  BY DEF DeleteFile, Here, ExtractThreadId
<1>3. PICK state \in {"ok", "error"} : call' = [call EXCEPT ![c] = [k EXCEPT !.state = state]]
  BY DEF DeleteFile, Ends
<1>4. k \in AskedCall
  BY <1>1, StatesOf DEF Typed, CallsTyped
<1>5. call'[c].state # "found" /\ \A d \in Call \ {c} : call'[d] = call[d]
  BY <1>3, <1>4 DEF Typed, CallsTyped, AskedCall
<1>6. /\ want'[k.thread][k.path] = None
      /\ raced'[k.thread][k.path] = Overlapped(c)
  BY <1>1, <1>2 DEF Typed, FilesTyped
<1>7. \A t \in Thread, p \in Path : t # k.thread \/ p # k.path =>
        want'[t][p] = want[t][p] /\ raced'[t][p] = raced[t][p]
  BY <1>1, <1>2 DEF Typed, FilesTyped
<1>8. \A d \in Call \ {c} : /\ call[d].state = "found" /\ call[d].thread = k.thread
                            /\ call[d].path = k.path
                            => Overlapped(c)
  BY DEF Overlapped
<1> HIDE DEF k
<1>9. /\ DOMAIN rows' = DOMAIN rows
      /\ \A r \in DOMAIN rows :
           /\ rows'[r].thread = rows[r].thread /\ rows'[r].path = rows[r].path
           /\ ~ rows'[r].deleted <=> ~ rows[r].deleted /\ r \notin ActiveAt(k.thread, k.path)
           /\ r \notin ActiveAt(k.thread, k.path) => rows'[r] = rows[r]
  <2>1. DOMAIN rows' = DOMAIN rows
    BY <1>2
  <2>2. ASSUME NEW r \in DOMAIN rows, r \notin ActiveAt(k.thread, k.path)
        PROVE  rows'[r] = rows[r]
    BY <2>2, <1>2
  <2>3. ASSUME NEW r \in DOMAIN rows, r \in ActiveAt(k.thread, k.path)
        PROVE  /\ rows'[r].thread = rows[r].thread /\ rows'[r].path = rows[r].path
               /\ rows'[r].deleted = TRUE
    <3>1. rows[r] \in RowType
      BY DEF Typed, FilesTyped
    <3>2. rows'[r] = [rows[r] EXCEPT !.deleted = TRUE]
      BY <2>3, <1>2
    <3> QED
      BY <3>1, <3>2 DEF RowType
  <2> QED
    BY <2>1, <2>2, <2>3
<1>10. RowsRead'
  <2> SUFFICES ASSUME NEW d \in Call, call'[d].state = "found", call'[d].row # 0
               PROVE  /\ call'[d].row \in DOMAIN rows'
                      /\ rows'[call'[d].row].thread = call'[d].thread
                      /\ rows'[call'[d].row].path = call'[d].path
    BY DEF RowsRead
  <2>1. call'[d] = call[d]
    BY <1>5
  <2>2. /\ call[d].row \in DOMAIN rows
        /\ rows[call[d].row].thread = call[d].thread
        /\ rows[call[d].row].path = call[d].path
    BY <2>1 DEF AddUpInv, RowsRead
  <2> QED
    BY <2>1, <2>2, <1>9
<1>11. ASSUME NEW t \in Thread, NEW p \in Path, t # k.thread \/ p # k.path
       PROVE  AddUpAt(t, p)'
  <2>1. \A r \in DOMAIN rows : rows[r].thread = t /\ rows[r].path = p =>
          r \notin ActiveAt(k.thread, k.path)
    BY <1>11 DEF ActiveAt
  <2>2. ActiveAt(t, p)' = ActiveAt(t, p)
    BY <2>1, <1>9 DEF ActiveAt
  <2>3. \A r \in ActiveAt(t, p) : rows'[r].text = rows[r].text
    BY <2>1, <1>9 DEF ActiveAt
  <2> QED
    BY <1>5, <1>7, <1>9, <1>11, <2>2, <2>3, AddUpElsewhere
<1>12. ASSUME NEW t \in Thread, NEW p \in Path, t = k.thread, p = k.path
       PROVE  AddUpAt(t, p)'
  <2>1. SUFFICES ASSUME ~ Overlapped(c)
                 PROVE  OneFile(t, p)' /\ \A d \in Call : At(d, t, p)' => Current(d)'
    <3>1. raced'[t][p] = Overlapped(c)
      BY <1>6, <1>12
    <3> QED
      BY <3>1 DEF AddUpAt
  <2>2. \A d \in Call : ~ At(d, t, p)'
    BY <1>5, <1>8, <1>12, <2>1 DEF At
  <2>3. ActiveAt(t, p)' = {}
    BY <1>9, <1>12 DEF ActiveAt
  <2>4. want'[t][p] = None
    BY <1>6, <1>12
  <2> QED
    BY <2>2, <2>3, <2>4 DEF OneFile
<1> QED
  BY <1>10, <1>11, <1>12 DEF AddUpInv

LEMMA AddUpInit == Init => AddUpInv
<1> SUFFICES ASSUME Init PROVE AddUpInv
  OBVIOUS
<1>1. rows = <<>> /\ \A c \in Call : call[c].state = "idle"
  BY DEF Init, Idle
<1>2. RowsRead
  BY <1>1 DEF RowsRead
<1>3. ASSUME NEW t \in Thread, NEW p \in Path PROVE AddUpAt(t, p)
  <2>1. ActiveAt(t, p) = {} /\ want[t][p] = None
    BY <1>1 DEF ActiveAt, Init
  <2> QED
    BY <1>1, <2>1 DEF AddUpAt, OneFile, At
<1> QED
  BY <1>2, <1>3 DEF AddUpInv

LEMMA AddUpNext == Typed /\ AddUpInv /\ [Next]_vars => AddUpInv'
BY FoundStep, AddUpKept, AddUpReads, AddUpSave, AddUpDelete

LEMMA AddUpAlways == Spec => []AddUpInv
BY AddUpInit, AddUpNext, TypedAlways, PTL DEF Spec

LEMMA AddUpMeans == AddUpInv => CallsAddUp
<1> SUFFICES ASSUME AddUpInv, NEW t \in Thread, NEW p \in Path, ~ raced[t][p]
             PROVE  IF want[t][p] = None THEN ActiveAt(t, p) = {}
                    ELSE /\ Cardinality(ActiveAt(t, p)) = 1
                         /\ \A r \in ActiveAt(t, p) : rows[r].text = want[t][p]
  BY DEF CallsAddUp, ActiveAt
<1>1. OneFile(t, p)
  BY DEF AddUpInv, AddUpAt
<1>2. CASE want[t][p] = None
  BY <1>1, <1>2 DEF OneFile
<1>3. CASE want[t][p] # None
  <2>1. PICK r \in DOMAIN rows : ActiveAt(t, p) = {r} /\ rows[r].text = want[t][p]
    BY <1>1, <1>3 DEF OneFile
  <2>2. Cardinality(ActiveAt(t, p)) = 1
    BY <2>1, FS_Singleton
  <2> QED
    BY <2>1, <2>2, <1>3
<1> QED
  BY <1>2, <1>3

(* Calls at a path add up to what they do one after the other, as long as  *)
(* none reads there while another is to commit: the tools look a file up   *)
(* and write it in two steps (file_tools.py), and it takes the calls that  *)
(* have read to be current for the next one to find one file at most.      *)
THEOREM CallsAddUpInOrder == Spec => []CallsAddUp
BY AddUpAlways, AddUpMeans, PTL

(* Only a call's own step ends it while it is asked for, and a read or a   *)
(* listing ends at once.                                                   *)
LEMMA OthersKept ==
  ASSUME CallsTyped, NEW d \in Call, NEW new, call' = [call EXCEPT ![d] = new]
  PROVE  \A c \in Call \ {d} : call'[c] = call[c]
BY DEF CallsTyped

LEMMA AskedStep ==
  ASSUME Typed, [Next]_vars, NEW c \in Call, call[c].state = "asked",
         call[c].tool \in {"read_file", "list_files"}, call'[c].state # "asked"
  PROVE  ReadFile(c) \/ ListFiles(c)
<1> USE DEF Typed
<1>1. ASSUME NEW d \in Call, NEW new, call' = [call EXCEPT ![d] = new] PROVE d = c
  BY <1>1, OthersKept
<1>2. ASSUME NEW d \in Call, NEW state, Ends(d, state) PROVE d = c
  BY <1>1, <1>2 DEF Ends
<1>3. ASSUME NEW d \in Call, NEW r, NEW text, GoesOn(d, r, text) PROVE d = c
  BY <1>1, <1>3 DEF GoesOn
<1>4. ASSUME NEW d \in Call, NEW t \in Thread, NEW tool \in Tools, NEW p \in Path, NEW text,
             AskTool(d, t, tool, p, text)
      PROVE  FALSE
  <2>1. d = c
    BY <1>1, <1>4 DEF AskTool
  <2> QED
    BY <2>1, <1>4 DEF AskTool, Idle
<1>5. ASSUME NEW d \in Call, CreateFile(d) \/ WriteFile(d) \/ EditFile(d) PROVE FALSE
  <2>1. d = c
    BY <1>2, <1>3, <1>5 DEF CreateFile, WriteFile, EditFile
  <2> QED
    BY <2>1, <1>5 DEF CreateFile, WriteFile, EditFile, Runs
<1>6. ASSUME NEW d \in Call, Save(d) \/ DeleteFile(d) PROVE FALSE
  <2>1. d = c
    BY <1>2, <1>6 DEF Save, DeleteFile
  <2> QED
    BY <2>1, <1>6 DEF Save, DeleteFile, Runs
<1>7. ASSUME NEW d \in Call, Execute(d) PROVE FALSE
  <2>1. d = c
    BY <1>1, <1>7 DEF Execute
  <2> QED
    BY <2>1, <1>7 DEF Execute, Runs
<1>8. ASSUME NEW d \in Call, MapStateUpdate(d) PROVE FALSE
  <2>1. d = c
    BY <1>2, <1>8 DEF MapStateUpdate
  <2> QED
    BY <2>1, <1>8 DEF MapStateUpdate
<1>9. ASSUME \/ \E f \in Output : Produce(f) \/ Age(f) \/ ScanStat(f)
             \/ ScanRead \/ UNCHANGED vars
      PROVE  FALSE
  BY <1>9 DEF Produce, Age, ScanStat, ScanRead, vars
<1>10. ASSUME ScanEnd PROVE FALSE
  <2>1. scan.call \in Call /\ call[scan.call].state # "asked" /\ Ends(scan.call, "told")
    BY <1>10 DEF ScanEnd, ScanTyped
  <2> QED
    BY <2>1, <1>2
<1>11. ASSUME NEW d \in Call, ReadFile(d) \/ ListFiles(d) PROVE ReadFile(c) \/ ListFiles(c)
  <2>1. d = c
    BY <1>1, <1>2, <1>11 DEF ReadFile, ListFiles
  <2> QED
    BY <2>1, <1>11
<1> QED
  BY <1>4, <1>5, <1>6, <1>7, <1>8, <1>9, <1>10, <1>11 DEF Next

LEMMA ReadIsCurrent ==
  ASSUME Typed, AddUpInv, NEW c \in Call, ReadFile(c),
         ~ raced[call[c].thread][call[c].path]
  PROVE  LET wanted == want[call[c].thread][call[c].path]
         IN IF wanted = None THEN call'[c].state = "error"
            ELSE call'[c].state = "ok" /\ call'[c].text = wanted
<1> DEFINE k == call[c]
<1>1. k \in AskedCall /\ k.thread \in Thread /\ k.path \in Path
  BY StatesOf DEF ReadFile, Runs, Typed, CallsTyped
<1>2. OneFile(k.thread, k.path)
  BY <1>1 DEF AddUpInv, AddUpAt
<1>3. Here(c) = ActiveAt(k.thread, k.path)
  BY DEF Here, ExtractThreadId
<1>4. CASE want[k.thread][k.path] = None
  <2>1. Here(c) = {} /\ Cardinality(Here(c)) = 0
    BY <1>2, <1>3, <1>4, HereCounted DEF OneFile, Typed
  <2>2. Ends(c, "error")
    BY <2>1 DEF ReadFile, Raises
  <2> QED
    BY <1>1, <1>4, <2>2 DEF Ends, Typed, CallsTyped, AskedCall
<1>5. CASE want[k.thread][k.path] # None
  <2>1. PICK r \in DOMAIN rows : Here(c) = {r} /\ rows[r].text = want[k.thread][k.path]
    BY <1>2, <1>3, <1>5 DEF OneFile
  <2>2. Cardinality(Here(c)) = 1 /\ Here(c) # {}
    BY <2>1, FS_Singleton
  <2>3. call' = [call EXCEPT ![c] = [k EXCEPT !.state = "ok", !.text = rows[r].text]]
    <3>1. \E x \in Here(c) :
            call' = [call EXCEPT ![c].state = "ok", ![c].text = rows[x].text]
      BY <2>2 DEF ReadFile, Raises
    <3>2. call' = [call EXCEPT ![c].state = "ok", ![c].text = rows[r].text]
      BY <2>1, <3>1
    <3> QED
      BY <3>2 DEF Typed, CallsTyped
  <2>4. call'[c] = [k EXCEPT !.state = "ok", !.text = rows[r].text]
    BY <2>3 DEF Typed, CallsTyped
  <2> QED
    BY <1>1, <1>5, <2>1, <2>4 DEF AskedCall
<1> QED
  BY <1>4, <1>5

LEMMA ListIsCurrent ==
  ASSUME Typed, AddUpInv, NEW c \in Call, ListFiles(c)
  PROVE  \A p \in Path : ~ raced[call[c].thread][p] =>
           (p \in call'[c].listed <=> want[call[c].thread][p] # None)
<1> DEFINE t == call[c].thread
<1>1. t \in Thread
  BY StatesOf DEF ListFiles, Runs, Typed, CallsTyped
<1>2. call'[c].listed = {p \in Path : ActiveAt(t, p) # {}}
  BY DEF ListFiles, ExtractThreadId, Typed, CallsTyped
<1>3. \A p \in Path : ~ raced[t][p] => OneFile(t, p)
  BY <1>1 DEF AddUpInv, AddUpAt
<1>4. \A p \in Path : ~ raced[t][p] => (ActiveAt(t, p) # {} <=> want[t][p] # None)
  BY <1>3 DEF OneFile
<1> QED
  BY <1>2, <1>4

(* A read answers with the text the calls before it have left, and with an *)
(* error where they have left none; a listing names the files there are;   *)
(* where calls have not overlapped (file_tools.py, read_file, list_files). *)
THEOREM ReadsFindTheLastWrite == Spec => ReadsAreCurrent
<1> DEFINE Right(c) ==
      call[c].state = "asked" /\ call'[c].state # "asked" =>
        LET t == call[c].thread
            wanted == want[t][call[c].path]
        IN /\ (call[c].tool = "read_file" /\ ~ raced[t][call[c].path]) =>
                IF wanted = None THEN call'[c].state = "error"
                ELSE call'[c].state = "ok" /\ call'[c].text = wanted
           /\ call[c].tool = "list_files" =>
                \A p \in Path : ~ raced[t][p] => (p \in call'[c].listed <=> want[t][p] # None)
<1>1. ASSUME Typed, AddUpInv, [Next]_vars PROVE \A c \in Call : Right(c)
  <2> SUFFICES ASSUME NEW c \in Call PROVE Right(c)
    OBVIOUS
  <2>1. ReadFile(c) => call[c].tool = "read_file"
    BY DEF ReadFile, Runs
  <2>2. ListFiles(c) => call[c].tool = "list_files"
    BY DEF ListFiles, Runs
  <2>3. call[c].state = "asked" /\ call'[c].state # "asked" /\
        call[c].tool \in {"read_file", "list_files"} => ReadFile(c) \/ ListFiles(c)
    BY <1>1, AskedStep
  <2> QED
    BY <1>1, <2>1, <2>2, <2>3, ReadIsCurrent, ListIsCurrent
<1>2. Spec => [][\A c \in Call : Right(c)]_vars
  BY <1>1, TypedAlways, AddUpAlways, PTL DEF Spec
<1> QED
  BY <1>2 DEF ReadsAreCurrent
-----------------------------------------------------------------------------
(***************************************************************************)
(* What a page shows as written has been in the table.  The arguments kept *)
(* for a call are its own until its answer is mapped; a write never        *)
(* answers with an error, and an answered one has committed its content.   *)
(***************************************************************************)
ArgsType == [path : Path, content : Text]

ArgsKept(c) ==
  call[c].state # "idle" =>
    /\ pending[c] \in ArgsType
    /\ pending[c].path = call[c].path
    /\ call[c].tool = "write_file" =>
         /\ call[c].state # "error"
         /\ call[c].state \in {"asked", "found"} => call[c].text = pending[c].content
         /\ call[c].state = "ok" =>
              <<call[c].thread, call[c].path, pending[c].content>> \in stored

PanelTyped ==
  panel \in [Thread -> [Path -> [tool : Tools, text : Text] \cup {None}]]

ShownInv ==
  /\ pending \in [Call -> ArgsType \cup {None}]
  /\ PanelTyped
  /\ \A c \in Call : ArgsKept(c)
  /\ ShownWasStored

(* A step of a call that keeps its arguments.                              *)
LEMMA ArgsStay ==
  ASSUME CallsTyped, ShownInv, NEW c \in Call, NEW new,
         call' = [call EXCEPT ![c] = new], pending' = pending, stored \subseteq stored',
         call[c].state # "idle",
         new.thread = call[c].thread, new.path = call[c].path, new.tool = call[c].tool,
         call[c].tool = "write_file" =>
           /\ new.state # "error"
           /\ new.state \in {"asked", "found"} => new.text = pending[c].content
           /\ new.state = "ok" =>
                <<call[c].thread, call[c].path, pending[c].content>> \in stored'
  PROVE  \A d \in Call : ArgsKept(d)'
<1>1. call'[c] = new /\ \A d \in Call \ {c} : call'[d] = call[d]
  BY DEF CallsTyped
<1>2. ASSUME NEW d \in Call, d # c PROVE ArgsKept(d)'
  <2>1. ArgsKept(d)
    BY DEF ShownInv
  <2>2. call'[d] = call[d] /\ pending'[d] = pending[d]
    BY <1>1, <1>2
  <2> QED
    BY <2>1, <2>2 DEF ArgsKept
<1>3. ArgsKept(c)'
  <2>1. pending[c] \in ArgsType /\ pending[c].path = call[c].path
    BY DEF ShownInv, ArgsKept
  <2>2. pending'[c] = pending[c]
    OBVIOUS
  <2> QED
    BY <1>1, <2>1, <2>2 DEF ArgsKept
<1> QED
  BY <1>2, <1>3

(* A call ends: a write only once it has committed.                        *)
LEMMA ArgsEnd ==
  ASSUME CallsTyped, ShownInv, NEW c \in Call, NEW state, Ends(c, state),
         \/ call[c].state = "asked" /\ state \in {"ok", "error", "raised"}
         \/ call[c].state = "found" /\ state = "ok"
         \/ call[c].state \in {"ok", "error"} /\ state = "told",
         pending' = pending, stored \subseteq stored',
         call[c].tool = "write_file" =>
           \/ state \in {"raised", "told"}
           \/ state = "ok" /\ <<call[c].thread, call[c].path, pending[c].content>> \in stored'
  PROVE  \A d \in Call : ArgsKept(d)'
<1> DEFINE new == [call[c] EXCEPT !.state = state]
<1>1. call[c] \in Calls1
  BY DEF CallsTyped
<1>2. /\ new.state = state
      /\ new.thread = call[c].thread /\ new.path = call[c].path /\ new.tool = call[c].tool
  BY <1>1, EndedCall
<1>3. call' = [call EXCEPT ![c] = new]
  BY DEF Ends
<1> HIDE DEF new
<1> QED
  BY <1>2, <1>3, ArgsStay

(* What a step does to the arguments and the panels.                       *)
LEMMA ArgsNext ==
  ASSUME Typed, ShownInv, [Next]_vars
  PROVE  /\ pending' \in [Call -> ArgsType \cup {None}]
         /\ \A c \in Call : ArgsKept(c)'
         /\ stored \subseteq stored'
<1> USE DEF Typed
<1> DEFINE Goal == /\ pending' \in [Call -> ArgsType \cup {None}]
                   /\ \A c \in Call : ArgsKept(c)'
                   /\ stored \subseteq stored'
<1>1. ASSUME pending' = pending PROVE pending' \in [Call -> ArgsType \cup {None}]
  BY <1>1 DEF ShownInv
<1>2. ASSUME NEW c \in Call, NEW t \in Thread, NEW tool \in Tools, NEW p \in Path,
             NEW text \in Text, AskTool(c, t, tool, p, text)
      PROVE  Goal
  <2> DEFINE new == [state |-> "asked", thread |-> t, tool |-> tool, path |-> p, text |-> text]
             args == [path |-> p, content |-> IF tool \in {"create_file", "write_file"}
                                              THEN text ELSE <<>>]
  <2>1. call' = [call EXCEPT ![c] = new] /\ pending' = [pending EXCEPT ![c] = args]
        /\ stored' = stored
    BY <1>2 DEF AskTool, fileVars
  <2>2. args \in ArgsType
    BY DEF ArgsType, Text, Written
  <2>3. /\ new.state = "asked" /\ new.path = p /\ args.path = p
        /\ new.tool = "write_file" => new.text = args.content
    OBVIOUS
  <2> HIDE DEF new, args
  <2>4. pending' \in [Call -> ArgsType \cup {None}]
    BY <2>1, <2>2 DEF ShownInv
  <2>5. call'[c] = new /\ pending'[c] = args
        /\ \A d \in Call \ {c} : call'[d] = call[d] /\ pending'[d] = pending[d]
    BY <2>1 DEF ShownInv, CallsTyped
  <2>6. ArgsKept(c)'
    BY <2>2, <2>3, <2>5 DEF ArgsKept
  <2>7. ASSUME NEW d \in Call, d # c PROVE ArgsKept(d)'
    <3>1. ArgsKept(d) /\ call'[d] = call[d] /\ pending'[d] = pending[d]
      BY <2>5, <2>7 DEF ShownInv
    <3> QED
      BY <3>1, <2>1 DEF ArgsKept
  <2> QED
    BY <2>1, <2>4, <2>6, <2>7
<1>3. ASSUME NEW c \in Call, call[c].state = "asked", call[c].tool # "write_file",
             NEW state \in {"ok", "error", "raised"}, Ends(c, state),
             pending' = pending, stored' = stored
      PROVE  Goal
  BY <1>1, <1>3, ArgsEnd
<1>4. ASSUME NEW c \in Call, call[c].state = "asked", call[c].tool # "write_file",
             NEW r \in 0 .. Len(rows), NEW text \in Text, GoesOn(c, r, text),
             pending' = pending, stored' = stored
      PROVE  Goal
  <2> DEFINE new == [state |-> "found", thread |-> call[c].thread, tool |-> call[c].tool,
                     path |-> call[c].path, text |-> text, row |-> r,
                     was |-> IF r = 0 THEN None ELSE rows[r].text]
  <2>1. call' = [call EXCEPT ![c] = new]
    BY <1>4 DEF GoesOn
  <2>2. new.thread = call[c].thread /\ new.path = call[c].path /\ new.tool = call[c].tool
    OBVIOUS
  <2> HIDE DEF new
  <2> QED
    BY <1>1, <1>4, <2>1, <2>2, ArgsStay
<1>5. ASSUME NEW c \in Call, CreateFile(c) PROVE Goal
  <2>1. /\ call[c].state = "asked" /\ call[c].tool # "write_file" /\ call[c].text \in Text
        /\ pending' = pending /\ stored' = stored
    BY <1>5, StatesOf DEF CreateFile, Runs, CallsTyped, AskedCall, fileVars
  <2>2. Ends(c, "raised") \/ Ends(c, "error") \/ GoesOn(c, 0, call[c].text)
    BY <1>5 DEF CreateFile
  <2>3. 0 \in 0 .. Len(rows)
    BY DEF FilesTyped
  <2> QED
    BY <1>3, <1>4, <2>1, <2>2, <2>3
<1>6. ASSUME NEW c \in Call, WriteFile(c) PROVE Goal
  <2>1. /\ call[c].state = "asked" /\ call[c].tool = "write_file" /\ call[c].text \in Text
        /\ pending' = pending /\ stored' = stored
    BY <1>6, StatesOf DEF WriteFile, Runs, CallsTyped, AskedCall, fileVars
  <2>2. call[c].text = pending[c].content
    BY <2>1 DEF ShownInv, ArgsKept
  <2>3. CASE Ends(c, "raised")
    BY <1>1, <2>1, <2>3, ArgsEnd
  <2>4. CASE \E r \in 0 .. Len(rows) : GoesOn(c, r, call[c].text)
    <3>1. PICK r \in 0 .. Len(rows) : GoesOn(c, r, call[c].text)
      BY <2>4
    <3> DEFINE new == [state |-> "found", thread |-> call[c].thread, tool |-> call[c].tool,
                       path |-> call[c].path, text |-> call[c].text, row |-> r,
                       was |-> IF r = 0 THEN None ELSE rows[r].text]
    <3>2. call' = [call EXCEPT ![c] = new]
      BY <3>1 DEF GoesOn
    <3>3. /\ new.thread = call[c].thread /\ new.path = call[c].path /\ new.tool = call[c].tool
          /\ new.state = "found" /\ new.text = call[c].text
      OBVIOUS
    <3> HIDE DEF new
    <3> QED
      BY <1>1, <2>1, <2>2, <3>2, <3>3, ArgsStay
  <2> QED
    BY <1>6, <2>3, <2>4 DEF WriteFile
<1>7. ASSUME NEW c \in Call, EditFile(c) PROVE Goal
  <2>1. /\ call[c].state = "asked" /\ call[c].tool # "write_file"
        /\ pending' = pending /\ stored' = stored
    BY <1>7 DEF EditFile, Runs, fileVars
  <2>2. \/ Ends(c, "raised") \/ Ends(c, "error")
        \/ \E r \in 0 .. Len(rows) : r # 0 /\ GoesOn(c, r, Edited(rows[r].text))
    BY <1>7 DEF EditFile
  <2>3. \A r \in 0 .. Len(rows) : r # 0 => Edited(rows[r].text) \in Text
    <3>1. \A r \in 0 .. Len(rows) : r # 0 => rows[r] \in RowType
      BY DEF FilesTyped
    <3> QED
      BY <3>1, Texts DEF RowType
  <2> QED
    BY <1>3, <1>4, <2>1, <2>2, <2>3
<1>8. ASSUME NEW c \in Call, ReadFile(c) PROVE Goal
  <2>1. /\ call[c].state = "asked" /\ call[c].tool # "write_file" /\ call[c] \in AskedCall
        /\ pending' = pending /\ stored' = stored
    BY <1>8, StatesOf DEF ReadFile, Runs, fileVars, CallsTyped
  <2>2. CASE Ends(c, "raised") \/ Ends(c, "error")
    BY <1>3, <2>1, <2>2
  <2>3. CASE \E r \in Here(c) : call' = [call EXCEPT ![c].state = "ok", ![c].text = rows[r].text]
    <3>1. PICK r \in Here(c) : call' = [call EXCEPT ![c].state = "ok", ![c].text = rows[r].text]
      BY <2>3
    <3> DEFINE new == [call[c] EXCEPT !.state = "ok", !.text = rows[r].text]
    <3>2. call' = [call EXCEPT ![c] = new]
      BY <3>1 DEF CallsTyped
    <3>3. /\ new.thread = call[c].thread /\ new.path = call[c].path /\ new.tool = call[c].tool
      BY <2>1 DEF AskedCall
    <3> HIDE DEF new
    <3> QED
      BY <1>1, <2>1, <3>2, <3>3, ArgsStay
  <2> QED
    BY <1>8, <2>2, <2>3 DEF ReadFile
<1>9. ASSUME NEW c \in Call, ListFiles(c) PROVE Goal
  <2>1. /\ call[c].state = "asked" /\ call[c].tool # "write_file"
        /\ pending' = pending /\ stored' = stored
    BY <1>9 DEF ListFiles, Runs, fileVars
  <2> DEFINE new == [state |-> "ok", thread |-> call[c].thread, tool |-> call[c].tool,
                     path |-> call[c].path,
                     listed |-> {p \in Path : ActiveAt(ExtractThreadId(c), p) # {}}]
  <2>2. call' = [call EXCEPT ![c] = new]
    BY <1>9 DEF ListFiles
  <2>3. new.thread = call[c].thread /\ new.path = call[c].path /\ new.tool = call[c].tool
    OBVIOUS
  <2> HIDE DEF new
  <2> QED
    BY <1>1, <2>1, <2>2, <2>3, ArgsStay
<1>10. ASSUME NEW c \in Call, Execute(c) PROVE Goal
  <2>1. /\ call[c].state = "asked" /\ call[c].tool # "write_file"
        /\ pending' = pending /\ stored' = stored
    BY <1>10 DEF Execute, Runs, fileVars
  <2>2. PICK said \in {"zero", "one", "nothing"} :
          call' = [call EXCEPT ![c] =
            [state |-> "ok", thread |-> call[c].thread, tool |-> call[c].tool,
             path |-> call[c].path, exit |-> said]]
    BY <1>10 DEF Execute
  <2> DEFINE new == [state |-> "ok", thread |-> call[c].thread, tool |-> call[c].tool,
                     path |-> call[c].path, exit |-> said]
  <2>3. /\ call' = [call EXCEPT ![c] = new]
        /\ new.thread = call[c].thread /\ new.path = call[c].path /\ new.tool = call[c].tool
    BY <2>2
  <2> HIDE DEF new
  <2> QED
    BY <1>1, <2>1, <2>3, ArgsStay
<1>11. ASSUME NEW c \in Call, Save(c) PROVE Goal
  <2>1. /\ call[c].state = "found" /\ Ends(c, "ok") /\ pending' = pending
        /\ stored' = stored \cup {<<call[c].thread, call[c].path, call[c].text>>}
    BY <1>11 DEF Save
  <2>2. call[c].tool = "write_file" => call[c].text = pending[c].content
    BY <2>1 DEF ShownInv, ArgsKept
  <2>3. call[c].tool = "write_file" =>
          <<call[c].thread, call[c].path, pending[c].content>> \in stored'
    BY <2>1, <2>2
  <2> QED
    BY <1>1, <2>1, <2>3, ArgsEnd
<1>12. ASSUME NEW c \in Call, DeleteFile(c) PROVE Goal
  <2>1. /\ call[c].state = "asked" /\ call[c].tool # "write_file"
        /\ pending' = pending /\ stored' = stored
        /\ Ends(c, "ok") \/ Ends(c, "error")
    BY <1>12 DEF DeleteFile, Runs
  <2> QED
    BY <1>3, <2>1
<1>13. ASSUME call' = call, pending' = pending, stored' = stored PROVE Goal
  <2>1. ASSUME NEW c \in Call PROVE ArgsKept(c)'
    <3>1. ArgsKept(c)
      BY DEF ShownInv
    <3> QED
      BY <1>13, <3>1 DEF ArgsKept
  <2> QED
    BY <1>1, <1>13, <2>1
<1>14. ASSUME NEW c \in Call, call[c].state \in {"ok", "error"}, Ends(c, "told"),
              pending' = pending, stored' = stored
       PROVE  Goal
  BY <1>1, <1>14, ArgsEnd
<1>15. ASSUME NEW c \in Call, MapStateUpdate(c) PROVE Goal
  <2>1. /\ call[c].state \in {"ok", "error"} /\ (Ends(c, "told") \/ call' = call)
        /\ pending' = pending /\ stored' = stored
    BY <1>15 DEF MapStateUpdate, fileVars
  <2> QED
    BY <1>13, <1>14, <2>1
<1>16. ASSUME ScanEnd PROVE Goal
  <2>1. /\ scan.call \in Call /\ call[scan.call].state \in {"ok", "error"}
        /\ Ends(scan.call, "told") /\ pending' = pending /\ stored' = stored
    BY <1>16 DEF ScanEnd, ScanTyped, fileVars
  <2> QED
    BY <1>14, <2>1
<1>17. ASSUME \/ \E f \in Output : Produce(f) \/ Age(f) \/ ScanStat(f)
              \/ ScanRead
       PROVE  Goal
  <2>1. call' = call /\ pending' = pending /\ stored' = stored
    BY <1>17 DEF Produce, Age, ScanStat, ScanRead, fileVars
  <2> QED
    BY <1>13, <2>1
<1>18. ASSUME UNCHANGED vars PROVE Goal
  BY <1>13, <1>18 DEF vars
<1>19. \A tool \in Tools : (IF tool \in {"create_file", "write_file"} THEN Written ELSE {<<>>})
                             \subseteq Text
  BY DEF Text, Written
<1> HIDE DEF Goal
<1>20. ASSUME Next PROVE Goal
  BY <1>20, <1>2, <1>5, <1>6, <1>7, <1>8, <1>9, <1>10, <1>11, <1>12, <1>15, <1>16, <1>17, <1>19
     DEF Next
<1> QED
  BY <1>18, <1>20 DEF Goal

LEMMA PanelStep ==
  ASSUME [Next]_vars
  PROVE  \/ panel' = panel
         \/ \E c \in Call : call[c].state \in {"ok", "error"} /\ ArtifactCreated(c)
<1>1. ASSUME NEW c \in Call, CreateFile(c) \/ WriteFile(c) \/ EditFile(c) PROVE panel' = panel
  BY <1>1 DEF CreateFile, WriteFile, EditFile
<1>2. ASSUME NEW c \in Call, ReadFile(c) \/ ListFiles(c) \/ Execute(c) PROVE panel' = panel
  BY <1>2 DEF ReadFile, ListFiles, Execute
<1>3. ASSUME NEW c \in Call, NEW t, NEW tool, NEW p, NEW text, AskTool(c, t, tool, p, text)
      PROVE  panel' = panel
  BY <1>3 DEF AskTool
<1>4. ASSUME NEW c \in Call, Save(c) \/ DeleteFile(c) PROVE panel' = panel
  BY <1>4 DEF Save, DeleteFile
<1>5. ASSUME NEW c \in Call, MapStateUpdate(c)
      PROVE  panel' = panel \/ (call[c].state \in {"ok", "error"} /\ ArtifactCreated(c))
  BY <1>5 DEF MapStateUpdate
<1>6. ASSUME \/ \E f \in Output : Produce(f) \/ Age(f) \/ ScanStat(f)
             \/ ScanRead \/ ScanEnd
      PROVE  panel' = panel
  BY <1>6 DEF Produce, Age, ScanStat, ScanRead, ScanEnd
<1>7. ASSUME UNCHANGED vars PROVE panel' = panel
  BY <1>7 DEF vars
<1> QED
  BY <1>1, <1>2, <1>3, <1>4, <1>5, <1>6, <1>7 DEF Next

LEMMA PanelNext ==
  ASSUME Typed, ShownInv, [Next]_vars
  PROVE  PanelTyped' /\ ShownWasStored'
<1>1. stored \subseteq stored'
  BY ArgsNext
<1>2. CASE panel' = panel
  BY <1>1, <1>2 DEF ShownInv, PanelTyped, ShownWasStored
<1>3. ASSUME NEW c \in Call, call[c].state \in {"ok", "error"}, ArtifactCreated(c), panel' # panel
      PROVE  PanelTyped' /\ ShownWasStored'
  <2> DEFINE t0 == call[c].thread
             p0 == call[c].path
             shown == [tool |-> call[c].tool, text |-> pending[c].content]
  <2>1. t0 \in Thread /\ p0 \in Path /\ call[c].tool \in Tools
    BY <1>3, StatesOf DEF Typed, CallsTyped
  <2>2. pending[c] \in ArgsType /\ pending[c].path = p0
    BY <1>3 DEF ShownInv, ArgsKept
  <2>3. call[c].tool = "write_file" => <<t0, p0, pending[c].content>> \in stored
    BY <1>3 DEF ShownInv, ArgsKept
  <2>4. panel' = [panel EXCEPT ![t0][p0] = shown]
    BY <1>3, <2>2 DEF ArtifactCreated, OriginalArgs
  <2>5. shown \in [tool : Tools, text : Text]
    BY <2>1, <2>2 DEF ArgsType
  <2>6. shown.tool = call[c].tool /\ shown.text = pending[c].content
    OBVIOUS
  <2> HIDE DEF shown, t0, p0
  <2>7. PanelTyped'
    BY <2>1, <2>4, <2>5 DEF ShownInv, PanelTyped
  <2>8. /\ panel'[t0][p0] = shown
        /\ \A t \in Thread, p \in Path : t # t0 \/ p # p0 => panel'[t][p] = panel[t][p]
    BY <2>1, <2>4 DEF ShownInv, PanelTyped
  <2>9. ASSUME NEW t \in Thread, NEW p \in Path,
               panel'[t][p] # None, panel'[t][p].tool = "write_file"
        PROVE  <<t, p, panel'[t][p].text>> \in stored'
    <3>1. CASE t = t0 /\ p = p0
      BY <1>1, <2>3, <2>6, <2>8, <2>9, <3>1
    <3>2. CASE t # t0 \/ p # p0
      BY <1>1, <2>8, <2>9, <3>2 DEF ShownInv, ShownWasStored
    <3> QED
      BY <3>1, <3>2
  <2> QED
    BY <2>7, <2>9 DEF ShownWasStored
<1> QED
  BY <1>2, <1>3, PanelStep

LEMMA ShownInit == Init => ShownInv
<1> SUFFICES ASSUME Init PROVE ShownInv
  OBVIOUS
<1>1. pending \in [Call -> ArgsType \cup {None}] /\ PanelTyped
  BY DEF Init, PanelTyped
<1>2. \A c \in Call : ArgsKept(c)
  BY DEF Init, ArgsKept, Idle
<1>3. ShownWasStored
  BY DEF Init, ShownWasStored
<1> QED
  BY <1>1, <1>2, <1>3 DEF ShownInv

LEMMA ShownNext == Typed /\ ShownInv /\ [Next]_vars => ShownInv'
BY ArgsNext, PanelNext DEF ShownInv

(* What a page shows as written by write_file has been in the table under  *)
(* that thread and path: pending_tool_calls keeps the arguments by the     *)
(* call's id until its answer comes, and the tool answers once it has      *)
(* committed, though calls run at once (deepagents_adapter.py).            *)
THEOREM ShownFilesWereStored == Spec => []ShownWasStored
<1>1. Spec => []ShownInv
  BY ShownInit, ShownNext, TypedAlways, PTL DEF Spec
<1>2. ShownInv => ShownWasStored
  BY DEF ShownInv
<1> QED
  BY <1>1, <1>2, PTL
=============================================================================
