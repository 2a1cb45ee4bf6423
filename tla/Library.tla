------------------------------ MODULE Library ------------------------------
(***************************************************************************)
(* What users keep: threads, assistants and skills (services/              *)
(* thread_service.py, assistant_service.py, skill_service.py and their     *)
(* routes).  A request reads a row, works on its copy, and flushes the     *)
(* columns that differ from what it read; other requests come in between.  *)
(*                                                                         *)
(* A step is one SQL statement, or the flush and commit at the end.  The   *)
(* title of a thread is its name; the note stands for the other columns.   *)
(* Left out: messages, the pages of a list and the order within them, and  *)
(* materialize, which nothing calls.                                       *)
(***************************************************************************)
EXTENDS Naturals, FiniteSets

CONSTANTS User, System,   \* owners; System is a NULL user_id
          Name, Note,     \* values of the columns
          Id,             \* rows that users may create
          Thread0, Assistant0, Skill0, System0,  \* rows there are at first
          Founder,        \* the user who made them, but for System0
          Request,
          None

Row == Id \cup {Thread0, Assistant0, Skill0, System0}
Kind == {"thread", "assistant", "skill"}

(* The columns an update may set.                                          *)
ThreadColumns == {"name", "note"}
AssistantColumns == {"name", "note", "active", "skills"}
SkillColumns == {"name", "note", "active"}

Values(column) ==
  CASE column = "name" -> Name
    [] column = "note" -> Note
    [] column = "active" -> BOOLEAN
    [] column = "skills" -> {S \in SUBSET Row : Cardinality(S) <= 1}

RowType == [kind : Kind, owner : User \cup {System}, active : BOOLEAN,
            name : Name, note : Note, skills : SUBSET Row]

ASSUME LibraryAssumption ==
  /\ Founder \in User /\ System \notin User /\ None \notin RowType
  /\ Cardinality({Thread0, Assistant0, Skill0, System0}) = 4
  /\ {Thread0, Assistant0, Skill0, System0} \cap Id = {}

VARIABLES rows,     \* the tables
          request   \* what each request has come to

vars == <<rows, request>>

New(kind, owner, name, note, skills) ==
  [kind |-> kind, owner |-> owner, active |-> TRUE, name |-> name, note |-> note,
   skills |-> skills]

Unsent == [state |-> "unsent"]
Answers == {"ok", "not_found", "forbidden", "invalid", "error"}

Exists(i) == rows[i] # None

TypeOK ==
  /\ \A i \in Row : Exists(i) =>
       /\ rows[i] \in RowType
       /\ rows[i].skills \subseteq {j \in Row : Exists(j) /\ rows[j].kind = "skill"}
       /\ rows[i].kind = "thread" => rows[i].owner # System
  /\ \A q \in Request :
       request[q].state \in {"unsent", "loaded", "resolved", "counted"} \cup Answers

(* A library in which the founder has one of each, beside a default        *)
(* assistant.                                                              *)
Init ==
  /\ \E n, m \in Name, v \in Note :
       /\ n # m
       /\ rows = [i \in Row |->
            CASE i = Thread0 -> New("thread", Founder, n, v, {})
              [] i = Assistant0 -> New("assistant", Founder, n, v, {})
              [] i = Skill0 -> New("skill", Founder, n, v, {})
              [] i = System0 -> New("assistant", System, m, v, {})
              [] OTHER -> None]
  /\ request = [q \in Request |-> Unsent]
-----------------------------------------------------------------------------
Answer(q, answer) == request' = [request EXCEPT ![q].state = answer]

(* History: what was deleted when a request was sent.                      *)
Gone == {i \in Row : Exists(i) /\ ~ rows[i].active}

(* Bug: the skills asked for are not looked up.                            *)
ResolvedAnyway(S) == TRUE

(* Bug: the lookup does not ask for is_active.                             *)
ResolvedDeleted(S) == \A i \in S : Exists(i) /\ rows[i].kind = "skill"

(* _resolve_skills: those asked for exist and are active, whoever has them.*)
Resolved(S) == \A i \in S : Exists(i) /\ rows[i].kind = "skill" /\ rows[i].active

(* What get of each service finds.                                         *)
ThreadFound(u, i) ==
  Exists(i) /\ rows[i].kind = "thread" /\ rows[i].active /\ rows[i].owner = u
AssistantFound(u, i) ==
  Exists(i) /\ rows[i].kind = "assistant" /\ rows[i].active /\ rows[i].owner \in {u, System}
SkillFound(i) ==
  Exists(i) /\ rows[i].kind = "skill" /\ rows[i].active

(* A request begins with a read, of an assistant's links too; what it has  *)
(* read decides its answer, or the state in which it goes on.              *)
Begin(q, u, op, i, column, value, state) ==
  /\ request[q] = Unsent
  /\ request' = [request EXCEPT ![q] =
       [state |-> state, op |-> op, user |-> u, id |-> i, row |-> rows[i],
        column |-> column, value |-> value, gone |-> Gone]]
  /\ UNCHANGED rows

(* How each router answers a request for one row.                          *)
ThreadAnswer(u, i) == IF ThreadFound(u, i) THEN "resolved" ELSE "not_found"

(* Bug: who can see an assistant may change it.                            *)
SharedAnswer(u, i) == IF AssistantFound(u, i) THEN "resolved" ELSE "not_found"

(* System assistants are read-only.                                        *)
AssistantAnswer(u, i) ==
  CASE ~ AssistantFound(u, i) -> "not_found"
    [] AssistantFound(u, i) /\ rows[i].owner = System -> "forbidden"
    [] OTHER -> "resolved"

SkillAnswer(u, i) ==
  IF SkillFound(i) /\ rows[i].owner = u THEN "resolved" ELSE "not_found"

(* update: one column stands for those the request sets.  An assistant's   *)
(* skills are looked up after its row.                                     *)
UpdateThread(q, u, i) ==
  \E column \in ThreadColumns : \E value \in Values(column) :
    Begin(q, u, "update", i, column, value, ThreadAnswer(u, i))
UpdateAssistant(q, u, i) ==
  \E column \in AssistantColumns : \E value \in Values(column) :
    Begin(q, u, "update", i, column, value,
      IF AssistantAnswer(u, i) = "resolved" /\ column = "skills" THEN "loaded"
                                                               ELSE AssistantAnswer(u, i))
UpdateSkill(q, u, i) ==
  \E column \in SkillColumns : \E value \in Values(column) :
    Begin(q, u, "update", i, column, value, SkillAnswer(u, i))

Resolve(q) ==
  /\ request[q].state = "loaded"
  /\ Answer(q, IF Resolved(request[q].value) THEN "resolved" ELSE "invalid")
  /\ UNCHANGED rows

(* delete is soft.                                                         *)
DeleteThread(q, u, i) == Begin(q, u, "delete", i, "active", FALSE, ThreadAnswer(u, i))
DeleteAssistant(q, u, i) == Begin(q, u, "delete", i, "active", FALSE, AssistantAnswer(u, i))
DeleteSkill(q, u, i) == Begin(q, u, "delete", i, "active", FALSE, SkillAnswer(u, i))

(* An answer shows the skills that an assistant is linked to with it,      *)
(* whoever has them, deleted or not.                                       *)
WithSkills(S) == S \cup UNION {rows[i].skills : i \in S}

(* get: one read.                                                          *)
Show(q, u, i, seen) ==
  /\ request[q] = Unsent
  /\ request' = [request EXCEPT ![q] =
       [state |-> IF seen THEN "ok" ELSE "not_found", op |-> "get", user |-> u,
        shown |-> IF seen THEN WithSkills({i}) ELSE {}, gone |-> Gone]]
  /\ UNCHANGED rows

GetThread(q, u, i) == Show(q, u, i, ThreadFound(u, i))
GetAssistant(q, u, i) == Show(q, u, i, AssistantFound(u, i))

(* The router checks whose skill it is.                                    *)
GetSkill(q, u, i) == Show(q, u, i, SkillFound(i) /\ rows[i].owner \in {u, System})

(* What each list query selects.                                           *)
ThreadsOf(u) == {i \in Row : ThreadFound(u, i)}

AssistantsOf(u) == {i \in Row : AssistantFound(u, i)}
SkillsOf(u) == {i \in Row : SkillFound(i) /\ rows[i].owner \in {u, System}}

Listing(u, kind) ==
  CASE kind = "thread" -> ThreadsOf(u)
    [] kind = "assistant" -> AssistantsOf(u)
    [] kind = "skill" -> SkillsOf(u)

(* list: a count, then the rows.                                           *)
List(q, u, kind) ==
  /\ request[q] = Unsent
  /\ request' = [request EXCEPT ![q] =
       [state |-> "counted", op |-> "list", user |-> u, kind |-> kind, shown |-> {},
        gone |-> Gone]]
  /\ UNCHANGED rows

Fetch(q) ==
  /\ request[q].state = "counted"
  /\ request' = [request EXCEPT ![q].state = "ok",
         ![q].shown = WithSkills(Listing(request[q].user, request[q].kind))]
  /\ UNCHANGED rows

(* create: an assistant's skills are looked up before it is inserted.      *)
Add(q, u, kind, S, state) ==
  /\ request[q] = Unsent
  /\ \E name \in Name, note \in Note :
       request' = [request EXCEPT ![q] =
         [state |-> state, op |-> "create", user |-> u, row |-> New(kind, u, name, note, S),
          gone |-> Gone]]
  /\ UNCHANGED rows

CreateThread(q, u) == Add(q, u, "thread", {}, "resolved")
CreateAssistant(q, u) ==
  \E S \in Values("skills") :
    Add(q, u, "assistant", S, IF Resolved(S) THEN "resolved" ELSE "invalid")
CreateSkill(q, u) == Add(q, u, "skill", {}, "resolved")

(* The unique indexes: on the name of an assistant, and on the owner and   *)
(* name of a skill.  Rows that were deleted count.                         *)
NameFree(i, row) ==
  \A j \in Row \ {i} : Exists(j) /\ rows[j].kind = row.kind /\ rows[j].name = row.name =>
    \/ row.kind = "thread"
    \/ row.kind = "skill" /\ rows[j].owner # row.owner

(* add and commit                                                          *)
Insert(q, i) ==
  /\ request[q].state = "resolved"
  /\ request[q].op = "create"
  /\ ~ Exists(i)
  /\ IF NameFree(i, request[q].row)
     THEN rows' = [rows EXCEPT ![i] = request[q].row] /\ Answer(q, "ok")
     ELSE UNCHANGED rows /\ Answer(q, "error")

(* Bug: the whole of the copy is written back.                             *)
WholeRow(q) ==
  LET r == request[q] IN [r.row EXCEPT ![r.column] = r.value]

(* The row a flush leaves: a value equal to the one that was read is not   *)
(* written, and links are inserted and deleted one by one.                 *)
Flushed(q) ==
  LET r == request[q]
      now == rows[r.id]
  IN IF r.column = "skills"
     THEN [now EXCEPT !.skills = (@ \ (r.row.skills \ r.value)) \cup (r.value \ r.row.skills)]
     ELSE IF r.value = r.row[r.column] THEN now ELSE [now EXCEPT ![r.column] = r.value]

(* A link to delete that is gone, or to insert that is there, is an error. *)
LinksClash(q) ==
  LET r == request[q]
      now == rows[r.id].skills
  IN /\ r.column = "skills"
     /\ \/ ~ (r.row.skills \ r.value) \subseteq now
        \/ (r.value \ r.row.skills) \cap now # {}

(* flush and commit                                                        *)
Commit(q) ==
  /\ request[q].state = "resolved"
  /\ request[q].op \in {"update", "delete"}
  /\ LET i == request[q].id
         clash == \/ LinksClash(q)
                  \/ (request[q].column = "name" /\ ~ NameFree(i, Flushed(q)))
     IN IF clash THEN UNCHANGED rows /\ Answer(q, "error")
                 ELSE rows' = [rows EXCEPT ![i] = Flushed(q)] /\ Answer(q, "ok")
-----------------------------------------------------------------------------
Next ==
  \E q \in Request :
    \/ Resolve(q) \/ Commit(q) \/ Fetch(q)
    \/ \E i \in Id : Insert(q, i)
    \/ \E u \in User :
         \/ CreateThread(q, u) \/ CreateAssistant(q, u) \/ CreateSkill(q, u)
         \/ \E kind \in Kind : List(q, u, kind)
         \/ \E i \in Row :
              /\ Exists(i)
              /\ CASE rows[i].kind = "thread" ->
                        GetThread(q, u, i) \/ UpdateThread(q, u, i) \/ DeleteThread(q, u, i)
                   [] rows[i].kind = "assistant" ->
                        \/ GetAssistant(q, u, i) \/ UpdateAssistant(q, u, i)
                        \/ DeleteAssistant(q, u, i)
                   [] rows[i].kind = "skill" ->
                        GetSkill(q, u, i) \/ UpdateSkill(q, u, i) \/ DeleteSkill(q, u, i)

Spec == Init /\ [][Next]_vars
-----------------------------------------------------------------------------
(* A row that was deleted stays so: no request that read it before brings  *)
(* it back, though an update may set is_active (skill_service.py,          *)
(* assistant_service.py, update).                                          *)
DeletedStaysDeleted ==
  [][\A i \in Row : Exists(i) /\ ~ rows[i].active => ~ rows'[i].active]_vars

(* An update that succeeded is in the row, unless another request has set  *)
(* the same column: an update of one column never undoes that of another.  *)
UpdatesCompose ==
  \A q \in Request : request[q].state = "ok" /\ request[q].op \in {"update", "delete"} =>
    LET r == request[q]
    IN \/ rows[r.id][r.column] = r.value
       \/ \E p \in Request \ {q} :
            /\ request[p].state = "ok" /\ request[p].op \in {"update", "delete"}
            /\ request[p].id = r.id /\ request[p].column = r.column

(* A link of an assistant is made to a skill only that was there when the  *)
(* request that makes it was sent: one deleted before is not looked up     *)
(* (assistant_service.py, _resolve_skills), though one deleted between the *)
(* lookup and the flush is linked.                                         *)
LinkedWhenActive ==
  [][\A i \in Row : rows'[i] # None =>
       \A j \in rows'[i].skills \ (IF Exists(i) THEN rows[i].skills ELSE {}) :
         \E q \in Request : /\ request[q].state = "resolved" /\ request'[q].state = "ok"
                            /\ j \notin request[q].gone]_vars

(* What request q may answer with: rows of its user or of the system, not  *)
(* deleted when it was sent.                                               *)
MaySee(q, i) ==
  i \notin request'[q].gone /\ rows[i].owner \in {request'[q].user, System}

(* A row changes by its owner's request only, system rows never (the       *)
(* user_id conditions of the services and the routers); and an answer      *)
(* shows rows that its user may see, and with the assistants among them    *)
(* the skills these are linked to, which may be another user's or deleted  *)
(* (_resolve_skills: "ownership checks can be layered on when              *)
(* multi-tenancy requires it").                                            *)
OwnRowsOnly ==
  [][/\ \A i \in Row : Exists(i) /\ rows'[i] # rows[i] =>
          \E q \in Request : /\ request[q].state = "resolved" /\ request'[q].state = "ok"
                             /\ request[q].user = rows[i].owner
     /\ \A q \in Request :
          /\ request[q].state # "ok" /\ request'[q].state = "ok"
          /\ request'[q].op \in {"list", "get"}
          => \A i \in request'[q].shown :
               \/ MaySee(q, i)
               \/ \E a \in request'[q].shown : MaySee(q, a) /\ i \in rows[a].skills]_vars
=============================================================================
