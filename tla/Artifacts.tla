----------------------------- MODULE Artifacts -----------------------------
(***************************************************************************)
(* The files agents make and what the page is told of them: agents/tools/  *)
(* file_tools.py, whose calls run at once when a message holds several or  *)
(* turns overlap, and map_state_update with the scan of the sandbox's      *)
(* workspace in agents/deepagents_adapter.py.                              *)
(*                                                                         *)
(* A step of a file tool is a statement, or the flush and commit at its    *)
(* end.  The event loop stands still during a scan, but the shell's        *)
(* processes do not.  Left out: tokens and to-do lists, sizes and times in *)
(* a listing, the directories below the workspace.                         *)
(***************************************************************************)
EXTENDS Naturals, Sequences, FiniteSets, TLC

CONSTANTS Thread, Path,
          Output,       \* files of the workspace with an extension the page can show
          Call,         \* tool calls
          MaxVersion,   \* bound on the writes of a file of the workspace
          None

(* A file is a sequence of passages, "x" the one an edit replaces by "y".  *)
Written == {<<>>, <<"x">>, <<"x", "x">>}
Text == Written \cup {<<"y">>}

Occurrences(text) == Cardinality({n \in DOMAIN text : text[n] = "x"})
Edited(text) == IF text = <<"x">> THEN <<"y">> ELSE text

Writers == {"create_file", "write_file", "edit_file"}
Tools == Writers \cup {"read_file", "delete_file", "list_files", "execute"}

ASSUME ArtifactsAssumption == MaxVersion \in Nat /\ None \notin Thread \cup Text

VARIABLES call,       \* the tool calls of the agents
          rows,       \* the table file_artifacts, in the order of insertion
          pending,    \* pending_tool_calls of the threads' streams
          panel,      \* what each page shows at a path
          workspace,  \* of each file there: mtime (0: none), large, fresh
          emitted,    \* _emitted_artifact_files
          scan,       \* the scan that runs, if any
          handed,     \* history: the versions of a file that were put in an event
          want,       \* history: what the calls, one after the other, leave at a path
          raced,      \* history: calls overlapped at a path since it was deleted
          stored      \* history: what has been in the table

fileVars == <<rows, want, raced, stored>>
scanVars == <<emitted, scan, handed>>
vars == <<call, rows, pending, panel, workspace, emitted, scan, handed, want, raced, stored>>

Idle == [state |-> "idle"]
States == {"idle", "asked", "found", "ok", "error", "raised", "told"}

TypeOK ==
  /\ \A c \in Call : call[c].state \in States
  /\ \A r \in DOMAIN rows :
       /\ rows[r].thread \in Thread /\ rows[r].path \in Path
       /\ rows[r].text \in Text /\ rows[r].deleted \in BOOLEAN
  /\ \A f \in Output :
       /\ workspace[f].mtime \in 0 .. MaxVersion
       /\ emitted[f] \in 0 .. workspace[f].mtime
       /\ handed[f] \subseteq 1 .. workspace[f].mtime
  /\ \A t \in Thread, p \in Path :
       want[t][p] \in Text \cup {None} /\ raced[t][p] \in BOOLEAN

Init ==
  /\ call = [c \in Call |-> Idle]
  /\ rows = <<>>
  /\ pending = [c \in Call |-> None]
  /\ panel = [t \in Thread |-> [p \in Path |-> None]]
  /\ workspace = [f \in Output |-> [mtime |-> 0, large |-> FALSE, fresh |-> FALSE]]
  /\ emitted = [f \in Output |-> 0]
  /\ scan = None
  /\ handed = [f \in Output |-> {}]
  /\ want = [t \in Thread |-> [p \in Path |-> None]]
  /\ raced = [t \in Thread |-> [p \in Path |-> FALSE]]
  /\ stored = {}
-----------------------------------------------------------------------------
(* Bug: the configuration is not passed on.                                *)
DefaultThread(c) == None

ExtractThreadId(c) == call[c].thread

(* The call is one of the agent's message, whose update is mapped before   *)
(* its tools run: its arguments are kept.  An edit has no content.         *)
AskTool(c, t, tool, p, text) ==
  /\ scan = None
  /\ call[c] = Idle
  /\ call' = [call EXCEPT ![c] =
       [state |-> "asked", thread |-> t, tool |-> tool, path |-> p, text |-> text]]
  /\ pending' = [pending EXCEPT ![c] =
       [path |-> p, content |-> IF tool \in {"create_file", "write_file"} THEN text ELSE <<>>]]
  /\ UNCHANGED <<fileVars, scanVars, panel, workspace>>

(* Bug: deleted files are read.                                            *)
AllAt(t, p) == {r \in DOMAIN rows : rows[r].thread = t /\ rows[r].path = p}

ActiveAt(t, p) ==
  {r \in DOMAIN rows : rows[r].thread = t /\ rows[r].path = p /\ ~ rows[r].deleted}

Here(c) == ActiveAt(ExtractThreadId(c), call[c].path)

Runs(c, tool) == scan = None /\ call[c].state = "asked" /\ call[c].tool = tool

Ends(c, state) == call' = [call EXCEPT ![c].state = state]

(* scalar_one_or_none raises if there are several; the turn then fails.    *)
Raises(c) == Cardinality(Here(c)) > 1

(* A call goes on to its commit with the row it has read, if any.          *)
GoesOn(c, r, text) ==
  call' = [call EXCEPT ![c] =
    [state |-> "found", thread |-> @.thread, tool |-> @.tool, path |-> @.path, text |-> text,
     row |-> r, was |-> IF r = 0 THEN None ELSE rows[r].text]]

Finds(c, r) == IF Here(c) = {} THEN r = 0 ELSE r \in Here(c)

CreateFile(c) ==
  /\ Runs(c, "create_file")
  /\ CASE Raises(c) -> Ends(c, "raised")
       [] Cardinality(Here(c)) = 1 -> Ends(c, "error")
       [] OTHER -> GoesOn(c, 0, call[c].text)
  /\ UNCHANGED <<fileVars, scanVars, pending, panel, workspace>>

(* Bug: a file that exists is not looked for.                              *)
WriteAnother(c) ==
  /\ Runs(c, "write_file")
  /\ GoesOn(c, 0, call[c].text)
  /\ UNCHANGED <<fileVars, scanVars, pending, panel, workspace>>

WriteFile(c) ==
  /\ Runs(c, "write_file")
  /\ IF Raises(c) THEN Ends(c, "raised")
     ELSE \E r \in 0 .. Len(rows) : Finds(c, r) /\ GoesOn(c, r, call[c].text)
  /\ UNCHANGED <<fileVars, scanVars, pending, panel, workspace>>

EditFile(c) ==
  /\ Runs(c, "edit_file")
  /\ IF Raises(c) THEN Ends(c, "raised")
     ELSE \E r \in 0 .. Len(rows) :
       /\ Finds(c, r)
       /\ IF r = 0 \/ Occurrences(rows[r].text) # 1 THEN Ends(c, "error")
                                                   ELSE GoesOn(c, r, Edited(rows[r].text))
  /\ UNCHANGED <<fileVars, scanVars, pending, panel, workspace>>

(* What is read is the answer.                                             *)
ReadFile(c) ==
  /\ Runs(c, "read_file")
  /\ CASE Raises(c) -> Ends(c, "raised")
       [] Here(c) = {} -> Ends(c, "error")
       [] OTHER -> \E r \in Here(c) :
            call' = [call EXCEPT ![c].state = "ok", ![c].text = rows[r].text]
  /\ UNCHANGED <<fileVars, scanVars, pending, panel, workspace>>

ListFiles(c) ==
  /\ Runs(c, "list_files")
  /\ call' = [call EXCEPT ![c] =
       [state |-> "ok", thread |-> @.thread, tool |-> @.tool, path |-> @.path,
        listed |-> {p \in Path : ActiveAt(ExtractThreadId(c), p) # {}}]]
  /\ UNCHANGED <<fileVars, scanVars, pending, panel, workspace>>

(* Other calls that have read at the same path, and are to commit.         *)
Overlapped(c) ==
  \E d \in Call \ {c} : /\ call[d].state = "found"
                        /\ call[d].thread = call[c].thread /\ call[d].path = call[c].path

(* The commit: a row is added, or the row that was read is written by its  *)
(* key, deleted since or not.  A text equal to the one read is not written.*)
Save(c) ==
  /\ scan = None
  /\ call[c].state = "found"
  /\ LET k == call[c]
         t == ExtractThreadId(c)
     IN /\ rows' = IF k.row = 0
                   THEN Append(rows, [thread |-> t, path |-> k.path, text |-> k.text,
                                      deleted |-> FALSE])
                   ELSE IF k.text = k.was THEN rows
                        ELSE [rows EXCEPT ![k.row].text = k.text]
        /\ want' = [want EXCEPT ![k.thread][k.path] = k.text]
        /\ raced' = [raced EXCEPT ![k.thread][k.path] = @ \/ Overlapped(c)]
        /\ stored' = stored \cup {<<k.thread, k.path, k.text>>}
  /\ Ends(c, "ok")
  /\ UNCHANGED <<scanVars, pending, panel, workspace>>

(* One statement, whatever the number of rows.                             *)
DeleteFile(c) ==
  /\ Runs(c, "delete_file")
  /\ rows' = [r \in DOMAIN rows |->
                IF r \in Here(c) THEN [rows[r] EXCEPT !.deleted = TRUE] ELSE rows[r]]
  /\ Ends(c, IF Here(c) = {} THEN "error" ELSE "ok")
  /\ want' = [want EXCEPT ![call[c].thread][call[c].path] = None]
  /\ raced' = [raced EXCEPT ![call[c].thread][call[c].path] = Overlapped(c)]
  /\ UNCHANGED <<scanVars, pending, panel, workspace, stored>>
-----------------------------------------------------------------------------
(* _parse_execute_result: an answer that does not say a code counts as 0.  *)
ExitCode(said) == IF said = "nothing" THEN "zero" ELSE said

(* The shell's command ends, and says its exit code or does not.           *)
Execute(c) ==
  /\ Runs(c, "execute")
  /\ \E said \in {"zero", "one", "nothing"} :
       call' = [call EXCEPT ![c] =
         [state |-> "ok", thread |-> @.thread, tool |-> @.tool, path |-> @.path, exit |-> said]]
  /\ UNCHANGED <<fileVars, scanVars, pending, panel, workspace>>

(* What commands write, also after they have ended.  Two writes of a file  *)
(* differ in their mtime.                                                  *)
Produce(f) ==
  /\ workspace[f].mtime < MaxVersion
  /\ \E c \in Call : call[c].state # "idle" /\ call[c].tool = "execute"
  /\ \E large \in BOOLEAN :
       workspace' = [workspace EXCEPT ![f] =
         [mtime |-> @.mtime + 1, large |-> large, fresh |-> TRUE]]
  /\ UNCHANGED <<fileVars, scanVars, call, pending, panel>>

(* A minute passes.                                                        *)
Age(f) ==
  /\ workspace[f].fresh
  /\ workspace' = [workspace EXCEPT ![f].fresh = FALSE]
  /\ UNCHANGED <<fileVars, scanVars, call, pending, panel>>

(* Bug: the arguments are those of some call of the tool.                  *)
ArgsOfTool(c) ==
  pending[CHOOSE d \in Call : /\ call[d].state # "idle" /\ call[d].tool = call[c].tool
                              /\ call[d].thread = call[c].thread]

OriginalArgs(c) == pending[c]

(* artifact_created for a tool that writes, from the arguments it was      *)
(* called with, whatever it answered.                                      *)
ArtifactCreated(c) ==
  IF call[c].tool \in Writers /\ OriginalArgs(c).content # <<>>
  THEN panel' = [panel EXCEPT ![call[c].thread][OriginalArgs(c).path] =
                   [tool |-> call[c].tool, text |-> OriginalArgs(c).content]]
  ELSE UNCHANGED panel

(* A tool message is mapped.  Of a call that raised there is none.         *)
MapStateUpdate(c) ==
  /\ scan = None
  /\ call[c].state \in {"ok", "error"}
  /\ IF call[c].tool = "execute" /\ ExitCode(call[c].exit) = "zero"
     THEN /\ scan' = [call |-> c, left |-> Output, file |-> None, mtime |-> 0]
          /\ UNCHANGED <<call, panel>>
     ELSE /\ Ends(c, "told")
          /\ ArtifactCreated(c)
          /\ UNCHANGED scan
  /\ UNCHANGED <<fileVars, pending, workspace, emitted, handed>>

(* _scan_execute_artifacts: the stat of a file and what may skip it.       *)
ScanStat(f) ==
  /\ scan # None /\ scan.file = None /\ f \in scan.left
  /\ LET skipped == \/ workspace[f].mtime = 0 \/ ~ workspace[f].fresh \/ workspace[f].large
                    \/ emitted[f] >= workspace[f].mtime
     IN scan' = IF skipped THEN [scan EXCEPT !.left = @ \ {f}]
                ELSE [scan EXCEPT !.left = @ \ {f}, !.file = f, !.mtime = workspace[f].mtime]
  /\ UNCHANGED <<fileVars, call, pending, panel, workspace, emitted, handed>>

(* Bug: the file is marked before it is read.                              *)
MarkThenRead ==
  /\ scan # None /\ scan.file # None
  /\ LET f == scan.file
     IN /\ scan' = [scan EXCEPT !.file = None]
        /\ emitted' = [emitted EXCEPT ![f] = scan.mtime]
        /\ \/ UNCHANGED handed
           \/ handed' = [handed EXCEPT ![f] = @ \cup {workspace[f].mtime}]
  /\ UNCHANGED <<fileVars, call, pending, panel, workspace>>

(* The read, which may fail; what it finds may be newer than the stat.     *)
ScanRead ==
  /\ scan # None /\ scan.file # None
  /\ LET f == scan.file
     IN /\ scan' = [scan EXCEPT !.file = None]
        /\ \/ UNCHANGED <<emitted, handed>>
           \/ /\ emitted' = [emitted EXCEPT ![f] = scan.mtime]
              /\ handed' = [handed EXCEPT ![f] = @ \cup {workspace[f].mtime}]
  /\ UNCHANGED <<fileVars, call, pending, panel, workspace>>

ScanEnd ==
  /\ scan # None /\ scan.file = None /\ scan.left = {}
  /\ Ends(scan.call, "told")
  /\ scan' = None
  /\ UNCHANGED <<fileVars, pending, panel, workspace, emitted, handed>>
-----------------------------------------------------------------------------
Next ==
  \/ \E c \in Call :
       \/ \E t \in Thread, tool \in Tools, p \in Path :
            \E text \in IF tool \in {"create_file", "write_file"} THEN Written ELSE {<<>>} :
              AskTool(c, t, tool, p, text)
       \/ CreateFile(c) \/ WriteFile(c) \/ EditFile(c) \/ ReadFile(c) \/ ListFiles(c)
       \/ Save(c) \/ DeleteFile(c) \/ Execute(c) \/ MapStateUpdate(c)
  \/ \E f \in Output : Produce(f) \/ Age(f) \/ ScanStat(f)
  \/ ScanRead \/ ScanEnd

Spec == Init /\ [][Next]_vars

Calls == Permutations(Call)
-----------------------------------------------------------------------------
(* The calls at a path add up to what they do one after the other, as long *)
(* as none reads there while another is to commit: then there is one file  *)
(* at most, with the text the last of them left (file_tools.py).  A        *)
(* deletion that overlaps no call mends what overlapping calls have done,  *)
(* two files at one path included.                                         *)
CallsAddUp ==
  \A t \in Thread, p \in Path : ~ raced[t][p] =>
    LET live == {r \in DOMAIN rows :
                   rows[r].thread = t /\ rows[r].path = p /\ ~ rows[r].deleted}
    IN IF want[t][p] = None THEN live = {}
       ELSE Cardinality(live) = 1 /\ \A r \in live : rows[r].text = want[t][p]

(* A read finds, and a listing names, what the calls before it have left,  *)
(* where none overlapped (file_tools.py, read_file and list_files).        *)
ReadsAreCurrent ==
  [][\A c \in Call : call[c].state = "asked" /\ call'[c].state # "asked" =>
       LET t == call[c].thread
           wanted == want[t][call[c].path]
       IN /\ (call[c].tool = "read_file" /\ ~ raced[t][call[c].path]) =>
               IF wanted = None THEN call'[c].state = "error"
               ELSE call'[c].state = "ok" /\ call'[c].text = wanted
          /\ call[c].tool = "list_files" =>
               \A p \in Path : ~ raced[t][p] => (p \in call'[c].listed <=> want[t][p] # None)]_vars

(* What a page shows as written by write_file has been in the table, under *)
(* that thread and path: the arguments of calls that run at once, or have  *)
(* not run, are never taken for each other (deepagents_adapter.py,         *)
(* pending_tool_calls).                                                    *)
ShownWasStored ==
  \A t \in Thread, p \in Path :
    (panel[t][p] # None /\ panel[t][p].tool = "write_file") => <<t, p, panel[t][p].text>> \in stored

(* A version of an output that scans pass over as emitted was in an event, *)
(* though commands write while a scan runs and reads fail                  *)
(* (deepagents_adapter.py, _emitted_artifact_files).                       *)
PassedOverWasShown ==
  \A f \in Output : emitted[f] > 0 /\ emitted[f] = workspace[f].mtime =>
    workspace[f].mtime \in handed[f]
=============================================================================
