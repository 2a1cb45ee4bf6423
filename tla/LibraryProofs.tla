---------------------------- MODULE LibraryProofs ----------------------------
(***************************************************************************)
(* Proofs about Library, for any users, rows, names and requests.          *)
(***************************************************************************)
EXTENDS Library, FiniteSetTheorems, TLAPS

Columns == {"name", "note", "active", "skills"}

LEMMA Constants == System \notin User /\ None \notin RowType /\ Founder \in User
BY LibraryAssumption

(* What a column may be set to keeps the row's type.                       *)
LEMMA ColumnSet ==
  ASSUME NEW row \in RowType, NEW column \in Columns, NEW value \in Values(column)
  PROVE  LET new == [row EXCEPT ![column] = value]
         IN  /\ new \in RowType /\ new.kind = row.kind /\ new.owner = row.owner
             /\ new[column] = value
             /\ \A other \in Columns : other # column => new[other] = row[other]
BY DEF RowType, Columns, Values

LEMMA SkillsSet ==
  ASSUME NEW row \in RowType, NEW S \in SUBSET Row, NEW new,
         new = [row EXCEPT !.skills = S]
  PROVE  /\ new \in RowType /\ new.kind = row.kind /\ new.owner = row.owner
         /\ new["skills"] = S /\ new.skills = S
         /\ \A other \in Columns : other # "skills" => new[other] = row[other]
BY DEF RowType, Columns

LEMMA Fields ==
  ASSUME NEW row \in RowType
  PROVE  /\ row["skills"] = row.skills /\ row["active"] = row.active
         /\ row["name"] = row.name /\ row["note"] = row.note
BY DEF RowType

LEMMA NewRow ==
  ASSUME NEW kind \in Kind, NEW u \in User \cup {System}, NEW name \in Name, NEW note \in Note,
         NEW S \in SUBSET Row
  PROVE  /\ New(kind, u, name, note, S) \in RowType
         /\ New(kind, u, name, note, S).kind = kind /\ New(kind, u, name, note, S).owner = u
         /\ New(kind, u, name, note, S).skills = S /\ New(kind, u, name, note, S).active = TRUE
BY DEF New, RowType
-----------------------------------------------------------------------------
(***************************************************************************)
(* The kinds of request there are, and what each knows of the rows.        *)
(***************************************************************************)
ChangeType == [state : {"loaded", "resolved"} \cup Answers, op : {"update", "delete"}, user : User,
               id : Row, row : RowType, column : Columns, value : UNION {Values(c) : c \in Columns},
               gone : SUBSET Row]
GetType == [state : {"ok", "not_found"}, op : {"get"}, user : User,
            shown : SUBSET Row, gone : SUBSET Row]
ListType == [state : {"counted", "ok"}, op : {"list"}, user : User, kind : Kind,
             shown : SUBSET Row, gone : SUBSET Row]
CreateType == [state : {"resolved", "invalid", "ok", "error"}, op : {"create"}, user : User,
               row : RowType, gone : SUBSET Row]

RequestType == {Unsent} \cup ChangeType \cup GetType \cup ListType \cup CreateType

IsSkill(i) == Exists(i) /\ rows[i].kind = "skill"

RowsTyped ==
  /\ rows \in [Row -> RowType \cup {None}]
  /\ \A i \in Row : Exists(i) =>
       /\ \A j \in rows[i].skills : IsSkill(j)
       /\ rows[i].kind = "thread" => rows[i].owner # System

(* An update or deletion under way has read a row that is still there, of  *)
(* the user's, and that was active then; the skills it goes on to link are *)
(* skills.                                                                 *)
ChangeKnows(r) ==
  /\ r.value \in Values(r.column)
  /\ Exists(r.id)
  /\ r.state \in {"loaded", "resolved"} =>
       r.row.active /\ r.row.owner = r.user /\ rows[r.id].owner = r.user
  /\ r.state = "loaded" => r.column = "skills"
  /\ r.state = "resolved" /\ r.column = "skills" => \A j \in r.value : IsSkill(j)

CreateKnows(r) ==
  r.state = "resolved" =>
    /\ \A j \in r.row.skills : IsSkill(j)
    /\ r.row.owner = r.user

RequestsTyped ==
  /\ request \in [Request -> RequestType]
  /\ \A q \in Request : /\ request[q] \in ChangeType => ChangeKnows(request[q])
                        /\ request[q] \in CreateType => CreateKnows(request[q])

Typed == RowsTyped /\ RequestsTyped

LEMMA GoneRows == Gone \in SUBSET Row
BY DEF Gone

(* What is shown are rows.                                                 *)
LEMMA ShownRows ==
  ASSUME Typed, NEW S, S \subseteq {i \in Row : Exists(i)}
  PROVE  WithSkills(S) \in SUBSET Row
<1>1. \A i \in S : rows[i].skills \in SUBSET Row
  BY DEF Typed, RowsTyped, RowType, Exists
<1> QED
  BY <1>1 DEF WithSkills

LEMMA RequestKinds ==
  ASSUME NEW r \in RequestType
  PROVE  /\ r.state \in {"unsent", "loaded", "resolved", "counted"} \cup Answers
         /\ r.state = "loaded" => r \in ChangeType
         /\ r.state = "counted" => r \in ListType
         /\ r.state # "unsent" /\ r.op \in {"update", "delete"} => r \in ChangeType
         /\ r.state # "unsent" /\ r.op = "create" => r \in CreateType
         /\ r.state # "unsent" /\ r.op \in {"list", "get"} => r \in ListType \cup GetType
         /\ r.state = "resolved" => r \in ChangeType \cup CreateType
         /\ r \in ChangeType => r.op \in {"update", "delete"} /\ r.state # "unsent"
         /\ r \in CreateType => r.op = "create" /\ r.state # "unsent"
         /\ r \in ListType => r.op = "list" /\ r.state # "unsent"
         /\ r \in GetType => r.op = "get" /\ r.state # "unsent"
         /\ r.state = "unsent" => r = Unsent
BY DEF RequestType, Unsent, ChangeType, GetType, ListType, CreateType, Answers

(***************************************************************************)
(* What a step does, whichever the resource.                               *)
(***************************************************************************)
Begins(q) ==
  \E u \in User, i \in Row, op \in {"update", "delete"}, column \in Columns,
     state \in {"loaded", "resolved", "not_found", "forbidden"} :
    \E value \in Values(column) :
      /\ Exists(i)
      /\ state \in {"loaded", "resolved"} => rows[i].active /\ rows[i].owner = u
      /\ state = "loaded" => column = "skills"
      /\ state = "resolved" => column # "skills"
      /\ Begin(q, u, op, i, column, value, state)

Shows(q) ==
  /\ request[q] = Unsent /\ UNCHANGED rows
  /\ \E u \in User, i \in Row, state \in {"ok", "not_found"}, shown \in SUBSET Row :
       /\ Exists(i)
       /\ state = "ok" => /\ rows[i].active /\ rows[i].owner \in {u, System}
                          /\ shown = WithSkills({i})
       /\ request' = [request EXCEPT ![q] =
            [state |-> state, op |-> "get", user |-> u, shown |-> shown, gone |-> Gone]]

Adds(q) ==
  \E u \in User, kind \in Kind, S \in SUBSET Row, state \in {"resolved", "invalid"} :
    /\ state = "resolved" => \A j \in S : IsSkill(j) /\ rows[j].active
    /\ Add(q, u, kind, S, state)

Lists(q) == \E u \in User, kind \in Kind : List(q, u, kind)

LEMMA BeginsOf ==
  ASSUME NEW q \in Request, NEW u \in User, NEW i \in Row, NEW op \in {"update", "delete"},
         NEW column \in Columns, NEW value \in Values(column),
         NEW state \in {"loaded", "resolved", "not_found", "forbidden"},
         Exists(i), state \in {"loaded", "resolved"} => rows[i].active /\ rows[i].owner = u,
         state = "loaded" => column = "skills", state = "resolved" => column # "skills",
         Begin(q, u, op, i, column, value, state)
  PROVE  Begins(q)
BY DEF Begins

LEMMA ThreadBegins ==
  ASSUME Typed, NEW q \in Request, NEW u \in User, NEW i \in Row, rows[i].kind = "thread",
         Exists(i),
         GetThread(q, u, i) \/ UpdateThread(q, u, i) \/ DeleteThread(q, u, i)
  PROVE  Begins(q) \/ Shows(q)
<1>1. PICK answer \in {"resolved", "not_found", "forbidden"} :
        /\ answer = ThreadAnswer(u, i)
        /\ answer = "resolved" => rows[i].active /\ rows[i].owner = u
  BY DEF ThreadAnswer, ThreadFound
<1>2. CASE UpdateThread(q, u, i)
  <2>1. ThreadColumns \subseteq Columns /\ "skills" \notin ThreadColumns
    BY DEF ThreadColumns, Columns
  <2>2. PICK column \in ThreadColumns : \E value \in Values(column) :
          Begin(q, u, "update", i, column, value, answer)
    BY <1>1, <1>2 DEF UpdateThread, Begin
  <2>3. column \in Columns /\ column # "skills"
    BY <2>1
  <2> QED
    BY <1>1, <2>2, <2>3, BeginsOf
<1>3. CASE DeleteThread(q, u, i)
  <2>1. PICK value \in Values("active") : value = FALSE
    BY DEF Values
  <2>2. Begin(q, u, "delete", i, "active", value, answer)
    BY <1>1, <1>3, <2>1 DEF DeleteThread, Begin
  <2>3. "active" \in Columns
    BY DEF Columns
  <2> QED
    BY <1>1, <2>2, <2>3, BeginsOf
<1>4. CASE GetThread(q, u, i)
  <2>0. WithSkills({i}) \in SUBSET Row
    BY ShownRows
  <2>1. CASE ThreadFound(u, i)
    BY <1>4, <2>0, <2>1 DEF GetThread, Show, Shows, ThreadFound
  <2>2. CASE ~ ThreadFound(u, i)
    BY <1>4, <2>2 DEF GetThread, Show, Shows
  <2> QED
    BY <2>1, <2>2
<1> QED
  BY <1>2, <1>3, <1>4

LEMMA AssistantBegins ==
  ASSUME Typed, NEW q \in Request, NEW u \in User, NEW i \in Row, rows[i].kind = "assistant",
         Exists(i),
         GetAssistant(q, u, i) \/ UpdateAssistant(q, u, i) \/ DeleteAssistant(q, u, i)
  PROVE  Begins(q) \/ Shows(q)
<1>1. PICK answer \in {"resolved", "not_found", "forbidden"} :
        /\ answer = AssistantAnswer(u, i)
        /\ answer = "resolved" => rows[i].active /\ rows[i].owner = u
  <2>1. CASE ~ AssistantFound(u, i)
    BY <2>1 DEF AssistantAnswer
  <2>2. CASE AssistantFound(u, i) /\ rows[i].owner = System
    BY <2>2 DEF AssistantAnswer
  <2>3. CASE AssistantFound(u, i) /\ rows[i].owner # System
    BY <2>3 DEF AssistantAnswer, AssistantFound
  <2> QED
    BY <2>1, <2>2, <2>3
<1>2. CASE UpdateAssistant(q, u, i)
  <2>1. PICK column \in AssistantColumns : \E value \in Values(column) :
          Begin(q, u, "update", i, column, value,
                IF answer = "resolved" /\ column = "skills" THEN "loaded" ELSE answer)
    BY <1>1, <1>2 DEF UpdateAssistant, Begin
  <2>2. PICK state \in {"loaded", "resolved", "not_found", "forbidden"} :
          state = IF answer = "resolved" /\ column = "skills" THEN "loaded" ELSE answer
    OBVIOUS
  <2>3. PICK value \in Values(column) : Begin(q, u, "update", i, column, value, state)
    BY <2>1, <2>2
  <2>4. column \in Columns
    BY DEF AssistantColumns, Columns
  <2> QED
    BY <1>1, <2>2, <2>3, <2>4, BeginsOf
<1>3. CASE DeleteAssistant(q, u, i)
  <2>1. PICK value \in Values("active") : value = FALSE
    BY DEF Values
  <2>2. Begin(q, u, "delete", i, "active", value, answer)
    BY <1>1, <1>3, <2>1 DEF DeleteAssistant, Begin
  <2>3. "active" \in Columns
    BY DEF Columns
  <2> QED
    BY <1>1, <2>2, <2>3, BeginsOf
<1>4. CASE GetAssistant(q, u, i)
  <2>0. WithSkills({i}) \in SUBSET Row
    BY ShownRows
  <2>1. CASE AssistantFound(u, i)
    BY <1>4, <2>0, <2>1 DEF GetAssistant, Show, Shows, AssistantFound
  <2>2. CASE ~ AssistantFound(u, i)
    BY <1>4, <2>2 DEF GetAssistant, Show, Shows
  <2> QED
    BY <2>1, <2>2
<1> QED
  BY <1>2, <1>3, <1>4

LEMMA SkillBegins ==
  ASSUME Typed, NEW q \in Request, NEW u \in User, NEW i \in Row, rows[i].kind = "skill",
         Exists(i),
         GetSkill(q, u, i) \/ UpdateSkill(q, u, i) \/ DeleteSkill(q, u, i)
  PROVE  Begins(q) \/ Shows(q)
<1>1. PICK answer \in {"resolved", "not_found", "forbidden"} :
        /\ answer = SkillAnswer(u, i)
        /\ answer = "resolved" => rows[i].active /\ rows[i].owner = u
  BY DEF SkillAnswer, SkillFound
<1>2. CASE UpdateSkill(q, u, i)
  <2>1. SkillColumns \subseteq Columns /\ "skills" \notin SkillColumns
    BY DEF SkillColumns, Columns
  <2>2. PICK column \in SkillColumns : \E value \in Values(column) :
          Begin(q, u, "update", i, column, value, answer)
    BY <1>1, <1>2 DEF UpdateSkill, Begin
  <2>3. column \in Columns /\ column # "skills"
    BY <2>1
  <2> QED
    BY <1>1, <2>2, <2>3, BeginsOf
<1>3. CASE DeleteSkill(q, u, i)
  <2>1. PICK value \in Values("active") : value = FALSE
    BY DEF Values
  <2>2. Begin(q, u, "delete", i, "active", value, answer)
    BY <1>1, <1>3, <2>1 DEF DeleteSkill, Begin
  <2>3. "active" \in Columns
    BY DEF Columns
  <2> QED
    BY <1>1, <2>2, <2>3, BeginsOf
<1>4. CASE GetSkill(q, u, i)
  <2>0. WithSkills({i}) \in SUBSET Row
    BY ShownRows
  <2>1. CASE SkillFound(i) /\ rows[i].owner \in {u, System}
    BY <1>4, <2>0, <2>1 DEF GetSkill, Show, Shows, SkillFound
  <2>2. CASE ~ (SkillFound(i) /\ rows[i].owner \in {u, System})
    BY <1>4, <2>2 DEF GetSkill, Show, Shows
  <2> QED
    BY <2>1, <2>2
<1> QED
  BY <1>2, <1>3, <1>4

LEMMA Steps ==
  ASSUME Typed, Next
  PROVE  \E q \in Request :
           \/ Resolve(q) \/ Commit(q) \/ Fetch(q) \/ \E i \in Id : Insert(q, i)
           \/ Begins(q) \/ Shows(q) \/ Adds(q) \/ Lists(q)
<1>1. PICK q \in Request :
        \/ Resolve(q) \/ Commit(q) \/ Fetch(q) \/ \E i \in Id : Insert(q, i)
        \/ \E u \in User :
             \/ CreateThread(q, u) \/ CreateAssistant(q, u) \/ CreateSkill(q, u)
             \/ \E kind \in Kind : List(q, u, kind)
             \/ \E i \in Row :
                  /\ Exists(i)
                  /\ \/ /\ rows[i].kind = "thread"
                        /\ GetThread(q, u, i) \/ UpdateThread(q, u, i) \/ DeleteThread(q, u, i)
                     \/ /\ rows[i].kind = "assistant"
                        /\ \/ GetAssistant(q, u, i) \/ UpdateAssistant(q, u, i)
                           \/ DeleteAssistant(q, u, i)
                     \/ /\ rows[i].kind = "skill"
                        /\ GetSkill(q, u, i) \/ UpdateSkill(q, u, i) \/ DeleteSkill(q, u, i)
  <2>1. \A i \in Row : Exists(i) => rows[i].kind \in Kind
    BY DEF Typed, RowsTyped, RowType, Exists
  <2> QED
    BY <2>1, ZenonT(60) DEF Next, Kind
<1>2. ASSUME NEW u \in User, CreateThread(q, u) \/ CreateSkill(q, u) PROVE Adds(q)
  BY <1>2 DEF CreateThread, CreateSkill, Adds, Kind
<1>3. ASSUME NEW u \in User, CreateAssistant(q, u) PROVE Adds(q)
  <2>1. PICK S \in Values("skills") :
          Add(q, u, "assistant", S, IF Resolved(S) THEN "resolved" ELSE "invalid")
    BY <1>3 DEF CreateAssistant
  <2>2. S \in SUBSET Row /\ "assistant" \in Kind
    BY DEF Values, Kind
  <2>3. Resolved(S) => \A j \in S : IsSkill(j) /\ rows[j].active
    BY DEF Resolved, IsSkill
  <2>4. CASE Resolved(S)
    BY <2>1, <2>2, <2>3, <2>4 DEF Adds
  <2>5. CASE ~ Resolved(S)
    BY <2>1, <2>2, <2>5 DEF Adds
  <2> QED
    BY <2>4, <2>5
<1>4. ASSUME NEW u \in User, NEW kind \in Kind, List(q, u, kind) PROVE Lists(q)
  BY <1>4 DEF Lists
<1> QED
  BY <1>1, <1>2, <1>3, <1>4, ThreadBegins, AssistantBegins, SkillBegins
-----------------------------------------------------------------------------
(***************************************************************************)
(* The flush of a change: it touches its column alone, never brings a row  *)
(* back, and sets the value that was asked for where the column is as it   *)
(* was read.                                                               *)
(***************************************************************************)
LEMMA FlushedRow ==
  ASSUME Typed, NEW q \in Request, request[q] \in ChangeType, request[q].state = "resolved"
  PROVE  LET r == request[q]
             now == rows[r.id]
             new == Flushed(q)
         IN  /\ new \in RowType /\ new.kind = now.kind /\ new.owner = now.owner
             /\ new.active => now.active
             /\ \A j \in new.skills : IsSkill(j)
             /\ \A other \in Columns : other # r.column => new[other] = now[other]
             /\ ~ LinksClash(q) /\ now[r.column] = r.row[r.column] => new[r.column] = r.value
<1> DEFINE r == request[q]
           now == rows[r.id]
           new == Flushed(q)
<1>1. /\ r.id \in Row /\ r.row \in RowType /\ r.column \in Columns
      /\ r.value \in Values(r.column) /\ Exists(r.id)
      /\ r.row.active /\ r.row.owner = r.user
      /\ r.column = "skills" => \A j \in r.value : IsSkill(j)
  BY DEF Typed, RequestsTyped, ChangeKnows, ChangeType
<1>2. now \in RowType /\ \A j \in now.skills : IsSkill(j)
  BY <1>1 DEF Typed, RowsTyped, Exists
<1>3. CASE r.column = "skills"
  <2> DEFINE S == (now.skills \ (r.row.skills \ r.value)) \cup (r.value \ r.row.skills)
  <2>1. new = [now EXCEPT !.skills = S]
    BY <1>3 DEF Flushed
  <2>2. S \in SUBSET Row
    <3>1. now.skills \in SUBSET Row
      BY <1>2 DEF RowType
    <3>2. r.value \in SUBSET Row
      BY <1>1, <1>3 DEF Values
    <3> QED
      BY <3>1, <3>2
  <2>3. \A j \in S : IsSkill(j)
    BY <1>1, <1>2, <1>3
  <2>4. ~ LinksClash(q) /\ now.skills = r.row.skills => S = r.value
    OBVIOUS
  <2> HIDE DEF S
  <2>5. /\ new \in RowType /\ new.kind = now.kind /\ new.owner = now.owner
        /\ new["skills"] = S /\ new.skills = S
        /\ \A other \in Columns : other # "skills" => new[other] = now[other]
    <3> HIDE DEF new, now
    <3> QED
      BY <1>2, <2>1, <2>2, SkillsSet
  <2>6. new.active => now.active
    <3>1. new["active"] = now["active"]
      BY <2>5 DEF Columns
    <3> QED
      BY <1>2, <2>5, <3>1, Fields
  <2>7. now["skills"] = now.skills /\ r.row["skills"] = r.row.skills
    BY <1>1, <1>2, Fields
  <2> QED
    BY <1>3, <2>3, <2>4, <2>5, <2>6, <2>7
<1>4. CASE r.column # "skills" /\ r.value = r.row[r.column]
  <2>1. new = now
    BY <1>4 DEF Flushed
  <2> QED
    BY <1>2, <1>4, <2>1
<1>5. CASE r.column # "skills" /\ r.value # r.row[r.column]
  <2>1. new = [now EXCEPT ![r.column] = r.value]
    BY <1>5 DEF Flushed
  <2>2. /\ new \in RowType /\ new.kind = now.kind /\ new.owner = now.owner
        /\ new[r.column] = r.value
        /\ \A other \in Columns : other # r.column => new[other] = now[other]
    BY <1>1, <1>2, <2>1, ColumnSet
  <2>3. new.skills = now.skills
    <3>1. new["skills"] = now["skills"]
      BY <1>5, <2>2 DEF Columns
    <3> QED
      BY <1>2, <2>2, <3>1, Fields
  <2>4. new.active => now.active
    <3>1. CASE r.column = "active"
      <4>1. r.value \in BOOLEAN
        BY <1>1, <3>1 DEF Values
      <4>2. r.row["active"] = r.row.active /\ r.row.active \in BOOLEAN
        BY <1>1, Fields DEF RowType
      <4>3. new.active = r.value
        BY <2>2, <3>1, Fields
      <4>4. r.value = FALSE
        BY <1>1, <1>5, <3>1, <4>1, <4>2
      <4> QED
        BY <4>3, <4>4
    <3>2. CASE r.column # "active"
      <4>1. new["active"] = now["active"]
        BY <2>2, <3>2 DEF Columns
      <4> QED
        BY <1>2, <2>2, <4>1, Fields
    <3> QED
      BY <3>1, <3>2
  <2> QED
    BY <1>2, <2>2, <2>3, <2>4
<1> QED
  BY <1>3, <1>4, <1>5

(* What a commit does, if it succeeds.                                     *)
LEMMA Committed ==
  ASSUME Typed, NEW q \in Request, Commit(q)
  PROVE  /\ request[q] \in ChangeType /\ request[q].state = "resolved"
         /\ \/ UNCHANGED rows /\ Answer(q, "error")
            \/ /\ rows' = [rows EXCEPT ![request[q].id] = Flushed(q)]
               /\ Answer(q, "ok") /\ ~ LinksClash(q)
<1>1. request[q] \in ChangeType /\ request[q].state = "resolved"
  BY RequestKinds DEF Commit, Typed, RequestsTyped
<1> QED
  BY <1>1 DEF Commit

(* Rows are never taken away, keep their kind and their owner, and are not *)
(* brought back.                                                           *)
RowsKept ==
  \A i \in Row : Exists(i) =>
    /\ rows'[i] # None /\ rows'[i].kind = rows[i].kind /\ rows'[i].owner = rows[i].owner
    /\ rows'[i].active => rows[i].active

LEMMA RowsSame ==
  ASSUME Typed, UNCHANGED rows
  PROVE  RowsTyped' /\ RowsKept
BY DEF Typed, RowsTyped, RowsKept, Exists, IsSkill

LEMMA RowsCommit ==
  ASSUME Typed, NEW q \in Request, Commit(q)
  PROVE  RowsTyped' /\ RowsKept
<1> DEFINE k == request[q].id
           new == Flushed(q)
<1>1. request[q] \in ChangeType /\ request[q].state = "resolved"
  BY Committed
<1>2. k \in Row /\ Exists(k)
  BY <1>1 DEF Typed, RequestsTyped, ChangeKnows, ChangeType
<1>3. /\ new \in RowType /\ new.kind = rows[k].kind /\ new.owner = rows[k].owner
      /\ new.active => rows[k].active
      /\ \A j \in new.skills : IsSkill(j)
  BY <1>1, FlushedRow
<1>4. CASE rows' = [rows EXCEPT ![k] = new]
  <2> HIDE DEF k, new
  <2>1. /\ rows' \in [Row -> RowType \cup {None}]
        /\ rows'[k] = new /\ \A i \in Row \ {k} : rows'[i] = rows[i]
    BY <1>2, <1>3, <1>4 DEF Typed, RowsTyped
  <2>2. new # None
    BY <1>3, Constants
  <2>3. RowsKept
    BY <1>3, <2>1, <2>2 DEF RowsKept, Exists
  <2>4. \A j \in Row : IsSkill(j) => IsSkill(j)'
    BY <2>3 DEF RowsKept, IsSkill, Exists
  <2>5. \A i \in Row : rows'[i] # None => rows[i] # None
    BY <1>2, <2>1 DEF Exists
  <2>6. ASSUME NEW i \in Row, rows'[i] # None
        PROVE  /\ \A j \in rows'[i].skills : IsSkill(j)'
               /\ rows'[i].kind = "thread" => rows'[i].owner # System
    <3>1. rows'[i] \in RowType /\ rows'[i].skills \subseteq Row
      BY <2>1, <2>6 DEF RowType
    <3>2. \A j \in rows'[i].skills : IsSkill(j)
      BY <1>3, <2>1, <2>6 DEF Typed, RowsTyped, Exists
    <3>3. rows[i].kind = "thread" => rows[i].owner # System
      BY <2>5, <2>6 DEF Typed, RowsTyped, Exists
    <3> QED
      BY <1>3, <2>1, <2>4, <3>1, <3>2, <3>3
  <2> QED
    BY <2>1, <2>3, <2>6 DEF RowsTyped, Exists
<1> QED
  BY <1>4, Committed, RowsSame

LEMMA RowsInsert ==
  ASSUME Typed, NEW q \in Request, NEW k \in Id, Insert(q, k)
  PROVE  RowsTyped' /\ RowsKept
<1> DEFINE new == request[q].row
<1>1. request[q] \in CreateType /\ request[q].state = "resolved" /\ ~ Exists(k) /\ k \in Row
  BY RequestKinds DEF Insert, Typed, RequestsTyped, Row
<1>2. /\ new \in RowType /\ \A j \in new.skills : IsSkill(j)
      /\ new.owner \in User
  BY <1>1 DEF Typed, RequestsTyped, CreateKnows, CreateType
<1>3. CASE rows' = [rows EXCEPT ![k] = new]
  <2> HIDE DEF new
  <2>1. /\ rows' \in [Row -> RowType \cup {None}]
        /\ rows'[k] = new /\ \A i \in Row \ {k} : rows'[i] = rows[i]
    BY <1>1, <1>2, <1>3 DEF Typed, RowsTyped
  <2>2. RowsKept
    BY <1>1, <2>1 DEF RowsKept, Exists
  <2>3. \A j \in Row : IsSkill(j) => IsSkill(j)'
    BY <2>2 DEF RowsKept, IsSkill, Exists
  <2>4. ASSUME NEW i \in Row, rows'[i] # None
        PROVE  /\ \A j \in rows'[i].skills : IsSkill(j)'
               /\ rows'[i].kind = "thread" => rows'[i].owner # System
    <3>1. rows'[i] \in RowType /\ rows'[i].skills \subseteq Row
      BY <2>1, <2>4 DEF RowType
    <3>2. /\ \A j \in rows'[i].skills : IsSkill(j)
          /\ rows'[i].kind = "thread" => rows'[i].owner # System
      BY <1>2, <2>1, <2>4, Constants DEF Typed, RowsTyped, Exists
    <3> QED
      BY <2>3, <3>1, <3>2
  <2> QED
    BY <2>1, <2>2, <2>4 DEF RowsTyped, Exists
<1> QED
  BY <1>3, RowsSame DEF Insert

LEMMA RowsNext ==
  ASSUME Typed, [Next]_vars
  PROVE  RowsTyped' /\ RowsKept
<1>1. CASE UNCHANGED vars
  BY <1>1, RowsSame DEF vars
<1>2. ASSUME NEW q \in Request,
             Resolve(q) \/ Fetch(q) \/ Begins(q) \/ Shows(q) \/ Adds(q) \/ Lists(q)
      PROVE  RowsTyped' /\ RowsKept
  BY <1>2, RowsSame DEF Resolve, Fetch, Begins, Begin, Shows, Adds, Add, Lists, List
<1> QED
  BY <1>1, <1>2, Steps, RowsCommit, RowsInsert

LEMMA KnowsKept ==
  ASSUME RowsKept, NEW r
  PROVE  /\ r \in ChangeType /\ ChangeKnows(r) => ChangeKnows(r)'
         /\ r \in CreateType /\ CreateKnows(r) => CreateKnows(r)'
<1>1. \A j \in Row : IsSkill(j) => IsSkill(j)'
  BY DEF RowsKept, IsSkill, Exists
<1>2. ASSUME r \in ChangeType, ChangeKnows(r) PROVE ChangeKnows(r)'
  <2>1. r.id \in Row /\ Exists(r.id) /\ Exists(r.id)' /\ rows'[r.id].owner = rows[r.id].owner
    BY <1>2 DEF ChangeType, ChangeKnows, RowsKept, Exists
  <2>2. r.column = "skills" => r.value \in SUBSET Row
    BY <1>2 DEF ChangeKnows, Values
  <2> QED
    BY <1>1, <1>2, <2>1, <2>2 DEF ChangeKnows
<1>3. ASSUME r \in CreateType, CreateKnows(r) PROVE CreateKnows(r)'
  <2>1. r.row.skills \in SUBSET Row
    BY <1>3 DEF CreateType, RowType
  <2> QED
    BY <1>1, <1>3, <2>1 DEF CreateKnows
<1> QED
  BY <1>2, <1>3

LEMMA OneRequest ==
  ASSUME Typed, RowsKept, NEW q \in Request, NEW new \in RequestType,
         request' = [request EXCEPT ![q] = new],
         new \in ChangeType => ChangeKnows(new)', new \in CreateType => CreateKnows(new)'
  PROVE  RequestsTyped'
<1>1. /\ request' \in [Request -> RequestType]
      /\ request'[q] = new /\ \A p \in Request \ {q} : request'[p] = request[p]
  BY DEF Typed, RequestsTyped
<1>2. ASSUME NEW p \in Request, p # q
      PROVE  /\ request'[p] \in ChangeType => ChangeKnows(request[p])'
             /\ request'[p] \in CreateType => CreateKnows(request[p])'
  <2>1. PICK r : r = request[p]
    OBVIOUS
  <2>2. r = request'[p]
    BY <1>1, <1>2, <2>1
  <2>3. /\ r \in ChangeType => ChangeKnows(r)
        /\ r \in CreateType => CreateKnows(r)
    BY <2>1 DEF Typed, RequestsTyped
  <2>4. /\ r \in ChangeType => ChangeKnows(r)'
        /\ r \in CreateType => CreateKnows(r)'
    BY <2>3, KnowsKept
  <2> QED
    BY <2>2, <2>4 DEF ChangeKnows, CreateKnows
<1>3. /\ request'[q] \in ChangeType => ChangeKnows(request[q])'
      /\ request'[q] \in CreateType => CreateKnows(request[q])'
  BY <1>1 DEF ChangeKnows, CreateKnows
<1> QED
  BY <1>1, <1>2, <1>3 DEF RequestsTyped

(* A request that is answered is otherwise as it was.                      *)
LEMMA AnsweredRequest ==
  ASSUME NEW r, NEW state
  PROVE  LET new == [r EXCEPT !.state = state]
         IN  /\ r \in ChangeType /\ state \in {"loaded", "resolved"} \cup Answers =>
                  /\ new \in ChangeType /\ new.state = state /\ new.op = r.op
                  /\ new.user = r.user /\ new.id = r.id /\ new.row = r.row
                  /\ new.column = r.column /\ new.value = r.value /\ new.gone = r.gone
             /\ r \in CreateType /\ state \in {"ok", "error"} =>
                  /\ new \in CreateType /\ new.state = state /\ new.op = r.op
                  /\ new.gone = r.gone
BY DEF ChangeType, CreateType

LEMMA RequestsNext ==
  ASSUME Typed, [Next]_vars
  PROVE  RequestsTyped'
<1>1. RowsKept /\ RowsTyped'
  BY RowsNext
<1>2. ChangeType \subseteq RequestType /\ GetType \subseteq RequestType
      /\ ListType \subseteq RequestType /\ CreateType \subseteq RequestType
  BY DEF RequestType
<1>3. \A r \in RequestType : ~ (r \in ChangeType /\ r \in CreateType)
  BY RequestKinds
<1>4. ASSUME NEW q \in Request, Resolve(q) PROVE RequestsTyped'
  <2>1. PICK r \in ChangeType : r = request[q] /\ r.state = "loaded" /\ ChangeKnows(r)
    BY <1>4, RequestKinds DEF Resolve, Typed, RequestsTyped
  <2>2. PICK state \in {"resolved", "invalid"} :
          Answer(q, state) /\ (state = "resolved" => Resolved(r.value))
    <3>1. CASE Resolved(r.value)
      BY <1>4, <2>1, <3>1 DEF Resolve
    <3>2. CASE ~ Resolved(r.value)
      BY <1>4, <2>1, <3>2 DEF Resolve
    <3> QED
      BY <3>1, <3>2
  <2>3. PICK new : new = [r EXCEPT !.state = state]
    OBVIOUS
  <2>4. /\ new \in ChangeType /\ new.state = state /\ new.user = r.user /\ new.id = r.id
        /\ new.row = r.row /\ new.column = r.column /\ new.value = r.value
    BY <2>1, <2>3, AnsweredRequest DEF Answers
  <2>5. ChangeKnows(new)
    <3>1. state = "resolved" => \A j \in r.value : IsSkill(j)
      BY <2>2 DEF Resolved, IsSkill
    <3> QED
      BY <2>1, <2>2, <2>4, <3>1 DEF ChangeKnows
  <2>6. request' = [request EXCEPT ![q] = new]
    BY <2>1, <2>2, <2>3 DEF Answer
  <2>7. ChangeKnows(new)'
    BY <1>1, <2>4, <2>5, KnowsKept
  <2> QED
    BY <1>1, <1>2, <1>3, <2>4, <2>6, <2>7, OneRequest
<1>5. ASSUME NEW q \in Request, Commit(q) PROVE RequestsTyped'
  <2>1. PICK r \in ChangeType : r = request[q] /\ ChangeKnows(r)
    BY <1>5, Committed DEF Typed, RequestsTyped
  <2>2. PICK state \in {"ok", "error"} : Answer(q, state)
    BY <1>5, Committed
  <2>3. PICK new : new = [r EXCEPT !.state = state]
    OBVIOUS
  <2>4. /\ new \in ChangeType /\ new.state = state /\ new.user = r.user /\ new.id = r.id
        /\ new.row = r.row /\ new.column = r.column /\ new.value = r.value
    BY <2>1, <2>3, AnsweredRequest DEF Answers
  <2>5. ChangeKnows(new)
    BY <2>1, <2>2, <2>4 DEF ChangeKnows
  <2>6. request' = [request EXCEPT ![q] = new]
    BY <2>1, <2>2, <2>3 DEF Answer
  <2>7. ChangeKnows(new)'
    BY <1>1, <2>4, <2>5, KnowsKept
  <2> QED
    BY <1>1, <1>2, <1>3, <2>4, <2>6, <2>7, OneRequest
<1>6. ASSUME NEW q \in Request, NEW k \in Id, Insert(q, k) PROVE RequestsTyped'
  <2>1. PICK r \in CreateType : r = request[q]
    BY <1>6, RequestKinds DEF Insert, Typed, RequestsTyped
  <2>2. PICK state \in {"ok", "error"} : Answer(q, state)
    BY <1>6 DEF Insert
  <2>3. PICK new : new = [r EXCEPT !.state = state]
    OBVIOUS
  <2>4. new \in CreateType /\ new.state = state
    BY <2>1, <2>3, AnsweredRequest
  <2>5. request' = [request EXCEPT ![q] = new]
    BY <2>1, <2>2, <2>3 DEF Answer
  <2>6. CreateKnows(new)'
    BY <2>2, <2>4 DEF CreateKnows
  <2> QED
    BY <1>1, <1>2, <1>3, <2>4, <2>5, <2>6, OneRequest
<1>7. ASSUME NEW q \in Request, NEW new \in GetType \cup ListType,
             request' = [request EXCEPT ![q] = new]
      PROVE  RequestsTyped'
  <2>1. new \in RequestType /\ new \notin ChangeType /\ new \notin CreateType
    BY <1>2, RequestKinds
  <2> QED
    BY <1>1, <1>7, <2>1, OneRequest
<1>8. ASSUME NEW q \in Request, Fetch(q) PROVE RequestsTyped'
  <2>1. request[q] \in ListType
    BY <1>8, RequestKinds DEF Fetch, Typed, RequestsTyped
  <2>2. PICK shown : shown = WithSkills(Listing(request[q].user, request[q].kind))
    OBVIOUS
  <2>3. shown \in SUBSET Row
    <3>1. request[q].kind \in Kind
      BY <2>1 DEF ListType
    <3>2. Listing(request[q].user, request[q].kind) \subseteq {i \in Row : Exists(i)}
      BY <3>1 DEF Listing, Kind, ThreadsOf, AssistantsOf, SkillsOf,
                  ThreadFound, AssistantFound, SkillFound
    <3> QED
      BY <2>2, <3>2, ShownRows
  <2>4. PICK new : new = [request[q] EXCEPT !.state = "ok", !.shown = shown]
    OBVIOUS
  <2>5. new \in ListType
    BY <2>1, <2>3, <2>4 DEF ListType
  <2>6. request' = [request EXCEPT ![q] = new]
    BY <1>8, <2>2, <2>4 DEF Fetch, Typed, RequestsTyped
  <2> QED
    BY <1>7, <2>5, <2>6
<1>9. ASSUME NEW q \in Request, Shows(q) PROVE RequestsTyped'
  <2>1. PICK u \in User, i \in Row, state \in {"ok", "not_found"}, shown \in SUBSET Row :
          request' = [request EXCEPT ![q] =
            [state |-> state, op |-> "get", user |-> u, shown |-> shown, gone |-> Gone]]
    BY <1>9 DEF Shows
  <2>2. PICK new : new = [state |-> state, op |-> "get", user |-> u, shown |-> shown,
                          gone |-> Gone]
    OBVIOUS
  <2>3. new \in GetType
    BY <2>2 DEF GetType, Gone
  <2> QED
    BY <1>7, <2>1, <2>2, <2>3
<1>10. ASSUME NEW q \in Request, Lists(q) PROVE RequestsTyped'
  <2>1. PICK u \in User, kind \in Kind : List(q, u, kind)
    BY <1>10 DEF Lists
  <2>2. PICK new : new = [state |-> "counted", op |-> "list", user |-> u, kind |-> kind,
                          shown |-> {}, gone |-> Gone]
    OBVIOUS
  <2>3. new \in ListType
    BY <2>2 DEF ListType, Gone
  <2>4. request' = [request EXCEPT ![q] = new]
    BY <2>1, <2>2 DEF List
  <2> QED
    BY <1>7, <2>3, <2>4
<1>11. ASSUME NEW q \in Request, Adds(q) PROVE RequestsTyped'
  <2>1. PICK u \in User, kind \in Kind, S \in SUBSET Row, state \in {"resolved", "invalid"} :
          /\ state = "resolved" => \A j \in S : IsSkill(j) /\ rows[j].active
          /\ Add(q, u, kind, S, state)
    BY <1>11 DEF Adds
  <2>2. PICK name \in Name, note \in Note :
          request' = [request EXCEPT ![q] =
            [state |-> state, op |-> "create", user |-> u, row |-> New(kind, u, name, note, S),
             gone |-> Gone]]
    BY <2>1 DEF Add
  <2>3. PICK row \in RowType : /\ row = New(kind, u, name, note, S)
                               /\ row.skills = S /\ row.owner = u
    <3>1. New(kind, u, name, note, S) \in RowType
      BY NewRow
    <3> QED
      BY <3>1 DEF New
  <2>4. PICK new : new = [state |-> state, op |-> "create", user |-> u, row |-> row, gone |-> Gone]
    OBVIOUS
  <2>5. new \in CreateType /\ CreateKnows(new)
    BY <2>1, <2>3, <2>4, GoneRows DEF CreateType, CreateKnows
  <2>6. CreateKnows(new)'
    BY <1>1, <2>5, KnowsKept
  <2> QED
    BY <1>1, <1>2, <1>3, <2>2, <2>3, <2>4, <2>5, <2>6, OneRequest
<1>12. ASSUME NEW q \in Request, Begins(q) PROVE RequestsTyped'
  <2>1. PICK u \in User, i \in Row, op \in {"update", "delete"}, column \in Columns,
             state \in {"loaded", "resolved", "not_found", "forbidden"} :
          \E value \in Values(column) :
            /\ Exists(i)
            /\ state \in {"loaded", "resolved"} => rows[i].active /\ rows[i].owner = u
            /\ state = "loaded" => column = "skills"
            /\ state = "resolved" => column # "skills"
            /\ Begin(q, u, op, i, column, value, state)
    BY <1>12 DEF Begins
  <2>2. PICK value \in Values(column) :
            /\ Exists(i)
            /\ state \in {"loaded", "resolved"} => rows[i].active /\ rows[i].owner = u
            /\ state = "loaded" => column = "skills"
            /\ state = "resolved" => column # "skills"
            /\ Begin(q, u, op, i, column, value, state)
    BY <2>1
  <2>3. PICK new : new = [state |-> state, op |-> op, user |-> u, id |-> i, row |-> rows[i],
                          column |-> column, value |-> value, gone |-> Gone]
    OBVIOUS
  <2>4. rows[i] \in RowType
    BY <2>2 DEF Typed, RowsTyped, Exists
  <2>5. new \in ChangeType
    BY <2>2, <2>3, <2>4, GoneRows DEF ChangeType, Answers
  <2>6. ChangeKnows(new)
    BY <2>2, <2>3 DEF ChangeKnows
  <2>7. ChangeKnows(new)'
    BY <1>1, <2>5, <2>6, KnowsKept
  <2>8. request' = [request EXCEPT ![q] = new]
    BY <2>2, <2>3 DEF Begin
  <2> QED
    BY <1>1, <1>2, <1>3, <2>5, <2>7, <2>8, OneRequest
<1>13. CASE UNCHANGED vars
  BY <1>13 DEF vars, Typed, RequestsTyped, ChangeKnows, CreateKnows, Exists, IsSkill
<1> QED
  BY <1>4, <1>5, <1>6, <1>8, <1>9, <1>10, <1>11, <1>12, <1>13, Steps

LEMMA TypedInit == Init => Typed
<1> SUFFICES ASSUME Init PROVE Typed
  OBVIOUS
<1>1. PICK n \in Name, m \in Name, v \in Note :
        rows = [i \in Row |->
            CASE i = Thread0 -> New("thread", Founder, n, v, {})
              [] i = Assistant0 -> New("assistant", Founder, n, v, {})
              [] i = Skill0 -> New("skill", Founder, n, v, {})
              [] i = System0 -> New("assistant", System, m, v, {})
              [] OTHER -> None]
  BY DEF Init
<1>2. \A i \in Row : \/ rows[i] = New("thread", Founder, n, v, {})
                     \/ rows[i] = New("assistant", Founder, n, v, {})
                     \/ rows[i] = New("skill", Founder, n, v, {})
                     \/ rows[i] = New("assistant", System, m, v, {})
                     \/ rows[i] = None
  BY <1>1
<1>3. \A i \in Row : rows[i] # None =>
        /\ rows[i] \in RowType /\ rows[i].skills = {}
        /\ rows[i].kind = "thread" => rows[i].owner # System
  <2>1. /\ New("thread", Founder, n, v, {}) \in RowType
        /\ New("assistant", Founder, n, v, {}) \in RowType
        /\ New("skill", Founder, n, v, {}) \in RowType
        /\ New("assistant", System, m, v, {}) \in RowType
    BY Constants, NewRow, ZenonT(60) DEF Kind
  <2> QED
    BY <1>2, <2>1, Constants DEF New
<1>4. RowsTyped
  BY <1>1, <1>3 DEF RowsTyped, Exists
<1>5. RequestsTyped
  <2>1. request = [q \in Request |-> Unsent]
    BY DEF Init
  <2>2. Unsent \in RequestType /\ Unsent.state = "unsent"
    BY DEF RequestType, Unsent
  <2> QED
    BY <2>1, <2>2, RequestKinds DEF RequestsTyped
<1> QED
  BY <1>4, <1>5 DEF Typed

LEMMA TypedNext == Typed /\ [Next]_vars => Typed'
BY RowsNext, RequestsNext DEF Typed

LEMMA TypedAlways == Spec => []Typed
BY TypedInit, TypedNext, PTL DEF Spec

LEMMA TypedMeans == Typed => TypeOK
<1> SUFFICES ASSUME Typed PROVE TypeOK
  OBVIOUS
<1>1. ASSUME NEW i \in Row, Exists(i)
      PROVE  /\ rows[i] \in RowType
             /\ rows[i].skills \subseteq {j \in Row : Exists(j) /\ rows[j].kind = "skill"}
             /\ rows[i].kind = "thread" => rows[i].owner # System
  <2>1. rows[i] \in RowType
    BY <1>1 DEF Typed, RowsTyped, Exists
  <2>2. rows[i].skills \subseteq Row
    BY <2>1 DEF RowType
  <2> QED
    BY <1>1, <2>1, <2>2 DEF Typed, RowsTyped, IsSkill
<1>2. \A q \in Request :
        request[q].state \in {"unsent", "loaded", "resolved", "counted"} \cup Answers
  BY RequestKinds DEF Typed, RequestsTyped
<1> QED
  BY <1>1, <1>2 DEF TypeOK

(* Every row keeps its columns, the skills of an assistant are skills that *)
(* exist, although rows are created and deleted between the look-up of the *)
(* skills and the commit, and no thread is the system's.                   *)
THEOREM TypeCorrect == Spec => []TypeOK
BY TypedAlways, TypedMeans, PTL

(* A row that was deleted stays so.  An update that sets is_active began   *)
(* with an active row, so it writes the column only to clear it            *)
(* (assistant_service.py, skill_service.py, update).                       *)
THEOREM DeletedRowsStayDeleted == Spec => DeletedStaysDeleted
<1>1. Typed /\ [Next]_vars =>
        \A i \in Row : Exists(i) /\ ~ rows[i].active => ~ rows'[i].active
  BY RowsNext DEF RowsKept
<1> QED
  BY <1>1, TypedAlways, PTL DEF Spec, DeletedStaysDeleted
-----------------------------------------------------------------------------
(***************************************************************************)
(* What was deleted when a request was sent stays so: it is not among what *)
(* the request finds afterwards, be it to link or to show.                 *)
(***************************************************************************)
Sent == ChangeType \cup CreateType \cup GetType \cup ListType

SentKnows(r) ==
  /\ \A i \in r.gone : Exists(i) /\ ~ rows[i].active
  /\ r \in ChangeType /\ r.state = "resolved" /\ r.column = "skills" =>
       \A j \in r.value : j \notin r.gone
  /\ r \in CreateType /\ r.state = "resolved" => \A j \in r.row.skills : j \notin r.gone

SentInv == \A q \in Request : request[q] \in Sent => SentKnows(request[q])

LEMMA SentKept ==
  ASSUME RowsKept, NEW r \in Sent, SentKnows(r)
  PROVE  SentKnows(r)'
<1>1. r.gone \subseteq Row
  BY DEF Sent, ChangeType, CreateType, GetType, ListType
<1>2. \A i \in r.gone : Exists(i)' /\ ~ rows'[i].active
  BY <1>1 DEF RowsKept, SentKnows, Exists
<1> QED
  BY <1>2 DEF SentKnows

(* A get or a list, when it is answered, shows what its user may see, and  *)
(* skills linked to it.                                                    *)
Theirs(r, i) == i \notin r.gone /\ rows[i].owner \in {r.user, System}

ShowsTheirs(r) ==
  r \in GetType \cup ListType /\ r.state = "ok" =>
    \A i \in r.shown :
      Theirs(r, i) \/ \E a \in r.shown : Theirs(r, a) /\ i \in rows[a].skills

LEMMA ShowsTheirSkills ==
  ASSUME NEW r, NEW S, r.shown = WithSkills(S), \A i \in S : Theirs(r, i)
  PROVE  ShowsTheirs(r)
BY DEF ShowsTheirs, WithSkills

(* One request is answered or begins; the others are as they were.  What   *)
(* is known of them after the step is known of the rows before it.         *)
SentAhead ==
  \A p \in Request, r \in Sent : r = request'[p] =>
    SentKnows(r) /\ (request[p].state # "ok" => ShowsTheirs(r))

LEMMA SentStep ==
  ASSUME Typed, SentInv, NEW q \in Request, NEW new,
         request' = [request EXCEPT ![q] = new],
         new \in Sent => SentKnows(new) /\ ShowsTheirs(new)
  PROVE  SentAhead
<1>1. request'[q] = new /\ \A p \in Request \ {q} : request'[p] = request[p]
  BY DEF Typed, RequestsTyped
<1> QED
  BY <1>1 DEF SentInv, SentAhead, ShowsTheirs

LEMMA SentNext ==
  ASSUME Typed, SentInv, [Next]_vars
  PROVE  SentAhead
<1>1. /\ ChangeType \cap GetType = {} /\ ChangeType \cap ListType = {}
      /\ CreateType \cap GetType = {} /\ CreateType \cap ListType = {}
      /\ ChangeType \cap CreateType = {}
  BY DEF ChangeType, CreateType, GetType, ListType
<1>2. \A i \in Gone : Exists(i) /\ ~ rows[i].active
  BY DEF Gone
<1>3. ASSUME NEW q \in Request, NEW new \in ChangeType \cup CreateType,
             request' = [request EXCEPT ![q] = new], SentKnows(new)
      PROVE  SentAhead
  <2>1. ShowsTheirs(new)
    BY <1>1 DEF ShowsTheirs
  <2> QED
    BY <1>3, <2>1, SentStep
<1>4. ASSUME NEW q \in Request, NEW new \in GetType \cup ListType, new.gone = Gone,
             request' = [request EXCEPT ![q] = new], ShowsTheirs(new)
      PROVE  SentAhead
  <2>1. SentKnows(new)
    BY <1>1, <1>2, <1>4 DEF SentKnows
  <2> QED
    BY <1>4, <2>1, SentStep
<1>5. ASSUME NEW q \in Request, Resolve(q) PROVE SentAhead
  <2>1. PICK r \in ChangeType : r = request[q] /\ r.state = "loaded" /\ SentKnows(r)
    BY <1>5, RequestKinds DEF Resolve, Typed, RequestsTyped, SentInv, Sent
  <2>2. PICK state \in {"resolved", "invalid"} :
          Answer(q, state) /\ (state = "resolved" => Resolved(r.value))
    <3>1. CASE Resolved(r.value)
      BY <1>5, <2>1, <3>1 DEF Resolve
    <3>2. CASE ~ Resolved(r.value)
      BY <1>5, <2>1, <3>2 DEF Resolve
    <3> QED
      BY <3>1, <3>2
  <2>3. PICK new : new = [r EXCEPT !.state = state]
    OBVIOUS
  <2>4. /\ new \in ChangeType /\ new.state = state /\ new.value = r.value
        /\ new.gone = r.gone
    BY <2>1, <2>3, AnsweredRequest DEF Answers
  <2>5. state = "resolved" => \A j \in r.value : j \notin r.gone
    BY <2>1, <2>2 DEF Resolved, SentKnows
  <2>6. SentKnows(new)
    BY <1>1, <2>1, <2>4, <2>5 DEF SentKnows
  <2>7. request' = [request EXCEPT ![q] = new]
    BY <2>1, <2>2, <2>3 DEF Answer
  <2> QED
    BY <1>3, <2>4, <2>6, <2>7
<1>6. ASSUME NEW q \in Request, Commit(q) \/ \E k \in Id : Insert(q, k) PROVE SentAhead
  <2>1. PICK r \in ChangeType \cup CreateType : r = request[q]
    BY <1>6, RequestKinds DEF Commit, Insert, Typed, RequestsTyped
  <2>2. PICK state \in {"ok", "error"} : Answer(q, state)
    BY <1>6, Committed DEF Insert
  <2>3. PICK new : new = [r EXCEPT !.state = state]
    OBVIOUS
  <2>4. new \in ChangeType \cup CreateType /\ new.state = state /\ new.gone = r.gone
    BY <2>1, <2>3, AnsweredRequest DEF Answers
  <2>5. SentKnows(new)
    BY <2>1, <2>4 DEF SentKnows, SentInv, Sent
  <2>6. request' = [request EXCEPT ![q] = new]
    BY <2>1, <2>2, <2>3 DEF Answer
  <2> QED
    BY <1>3, <2>4, <2>5, <2>6
<1>7. ASSUME NEW q \in Request, Adds(q) PROVE SentAhead
  <2>1. PICK u \in User, kind \in Kind, S \in SUBSET Row, state \in {"resolved", "invalid"} :
          /\ state = "resolved" => \A j \in S : IsSkill(j) /\ rows[j].active
          /\ Add(q, u, kind, S, state)
    BY <1>7 DEF Adds
  <2>2. PICK name \in Name, note \in Note :
          request' = [request EXCEPT ![q] =
            [state |-> state, op |-> "create", user |-> u, row |-> New(kind, u, name, note, S),
             gone |-> Gone]]
    BY <2>1 DEF Add
  <2>3. PICK row \in RowType : row = New(kind, u, name, note, S) /\ row.skills = S
    <3>1. New(kind, u, name, note, S) \in RowType
      BY NewRow
    <3> QED
      BY <3>1 DEF New
  <2>4. PICK new : new = [state |-> state, op |-> "create", user |-> u, row |-> row,
                          gone |-> Gone]
    OBVIOUS
  <2>5. new \in CreateType /\ new.state = state /\ new.row = row /\ new.gone = Gone
    BY <2>4, GoneRows DEF CreateType
  <2>6. SentKnows(new)
    BY <1>1, <1>2, <2>1, <2>3, <2>5 DEF SentKnows
  <2> QED
    BY <1>3, <2>2, <2>3, <2>4, <2>5, <2>6
<1>8. ASSUME NEW q \in Request, Begins(q) PROVE SentAhead
  <2>1. PICK u \in User, i \in Row, op \in {"update", "delete"}, column \in Columns,
             state \in {"loaded", "resolved", "not_found", "forbidden"} :
          \E value \in Values(column) :
            /\ Exists(i)
            /\ state = "resolved" => column # "skills"
            /\ Begin(q, u, op, i, column, value, state)
    BY <1>8 DEF Begins
  <2>2. PICK value \in Values(column) :
          /\ Exists(i)
          /\ state = "resolved" => column # "skills"
          /\ Begin(q, u, op, i, column, value, state)
    BY <2>1
  <2>3. PICK new : new = [state |-> state, op |-> op, user |-> u, id |-> i, row |-> rows[i],
                          column |-> column, value |-> value, gone |-> Gone]
    OBVIOUS
  <2>4. rows[i] \in RowType
    BY <2>2 DEF Typed, RowsTyped, Exists
  <2>5. new \in ChangeType /\ new.state = state /\ new.column = column /\ new.gone = Gone
    BY <2>3, <2>4, GoneRows DEF ChangeType, Answers
  <2>6. SentKnows(new)
    BY <1>1, <1>2, <2>2, <2>5 DEF SentKnows
  <2>7. request' = [request EXCEPT ![q] = new]
    BY <2>2, <2>3 DEF Begin
  <2> QED
    BY <1>3, <2>5, <2>6, <2>7
<1>9. ASSUME NEW q \in Request, Shows(q) PROVE SentAhead
  <2>1. PICK u \in User, i \in Row, state \in {"ok", "not_found"}, shown \in SUBSET Row :
          /\ Exists(i)
          /\ state = "ok" => /\ rows[i].active /\ rows[i].owner \in {u, System}
                             /\ shown = WithSkills({i})
          /\ request' = [request EXCEPT ![q] =
               [state |-> state, op |-> "get", user |-> u, shown |-> shown, gone |-> Gone]]
    BY <1>9 DEF Shows
  <2>2. PICK new : new = [state |-> state, op |-> "get", user |-> u, shown |-> shown,
                          gone |-> Gone]
    OBVIOUS
  <2>3. /\ new \in GetType /\ new.gone = Gone /\ new.state = state /\ new.user = u
        /\ new.shown = shown
    BY <2>2, GoneRows DEF GetType
  <2>4. CASE state = "ok"
    <3>1. Theirs(new, i)
      BY <2>1, <2>3, <2>4 DEF Theirs, Gone
    <3>2. ShowsTheirs(new)
      BY <2>1, <2>3, <2>4, <3>1, ShowsTheirSkills
    <3> QED
      BY <1>4, <2>1, <2>2, <2>3, <3>2
  <2>5. CASE state = "not_found"
    <3>1. ShowsTheirs(new)
      BY <2>3, <2>5 DEF ShowsTheirs
    <3> QED
      BY <1>4, <2>1, <2>2, <2>3, <3>1
  <2> QED
    BY <2>4, <2>5
<1>10. ASSUME NEW q \in Request, Lists(q) PROVE SentAhead
  <2>1. PICK u \in User, kind \in Kind : List(q, u, kind)
    BY <1>10 DEF Lists
  <2>2. PICK new : new = [state |-> "counted", op |-> "list", user |-> u, kind |-> kind,
                          shown |-> {}, gone |-> Gone]
    OBVIOUS
  <2>3. new \in ListType /\ new.gone = Gone /\ new.state = "counted"
    BY <2>2, GoneRows DEF ListType
  <2>4. ShowsTheirs(new)
    BY <2>3 DEF ShowsTheirs
  <2>5. request' = [request EXCEPT ![q] = new]
    BY <2>1, <2>2 DEF List
  <2> QED
    BY <1>4, <2>3, <2>4, <2>5
<1>11. ASSUME NEW q \in Request, Fetch(q) PROVE SentAhead
  <2>1. PICK r \in ListType : r = request[q] /\ r.state = "counted" /\ SentKnows(r)
    BY <1>11, RequestKinds DEF Fetch, Typed, RequestsTyped, SentInv, Sent
  <2>2. PICK listed : listed = Listing(r.user, r.kind)
    OBVIOUS
  <2>3. \A i \in listed : Exists(i) /\ rows[i].active /\ rows[i].owner \in {r.user, System}
    <3>1. r.kind \in Kind
      BY DEF ListType
    <3> QED
      BY <2>2, <3>1 DEF Listing, Kind, ThreadsOf, AssistantsOf, SkillsOf,
                        ThreadFound, AssistantFound, SkillFound
  <2>4. PICK new : new = [r EXCEPT !.state = "ok", !.shown = WithSkills(listed)]
    OBVIOUS
  <2>5. new.shown = WithSkills(listed) /\ new.gone = r.gone /\ new.user = r.user
    BY <2>4 DEF ListType
  <2>6. \A i \in listed : Theirs(new, i)
    BY <2>1, <2>3, <2>5 DEF SentKnows, Theirs
  <2>7. ShowsTheirs(new)
    BY <2>5, <2>6, ShowsTheirSkills
  <2>8. new.op = "list"
    BY <2>4 DEF ListType
  <2>9. SentKnows(new)
    <3>1. new \notin ChangeType /\ new \notin CreateType
      BY <2>8 DEF ChangeType, CreateType
    <3> QED
      BY <2>1, <2>5, <3>1 DEF SentKnows
  <2>10. request' = [request EXCEPT ![q] = new]
    BY <1>11, <2>1, <2>2, <2>4 DEF Fetch, Typed, RequestsTyped
  <2> QED
    BY <2>7, <2>9, <2>10, SentStep
<1>12. CASE UNCHANGED vars
  BY <1>12 DEF vars, SentInv, SentAhead, ShowsTheirs
<1> QED
  BY <1>5, <1>6, <1>7, <1>8, <1>9, <1>10, <1>11, <1>12, Steps

LEMMA SentAlways == Spec => []SentInv
<1>1. Init => SentInv
  BY DEF Init, SentInv, Sent, Unsent, ChangeType, CreateType, GetType, ListType
<1>2. Typed /\ SentInv /\ [Next]_vars => SentInv'
  <2> SUFFICES ASSUME Typed, SentInv, [Next]_vars, NEW q \in Request, request'[q] \in Sent
               PROVE  SentKnows(request[q])'
    BY DEF SentInv
  <2>1. PICK r \in Sent : r = request'[q]
    OBVIOUS
  <2>2. SentKnows(r)
    BY <2>1, SentNext DEF SentAhead
  <2>3. SentKnows(r)'
    BY <2>2, RowsNext, SentKept
  <2> QED
    BY <2>1, <2>3 DEF SentKnows
<1> QED
  BY <1>1, <1>2, TypedAlways, PTL DEF Spec

LEMMA OwnerChanges ==
  ASSUME Typed, [Next]_vars, NEW i \in Row, Exists(i), rows'[i] # rows[i]
  PROVE  \E q \in Request : /\ request[q].state = "resolved" /\ request'[q].state = "ok"
                            /\ request[q].user = rows[i].owner
<1>1. PICK q \in Request : Commit(q) \/ \E k \in Id : Insert(q, k)
  <2>1. ASSUME NEW q \in Request,
               Resolve(q) \/ Fetch(q) \/ Begins(q) \/ Shows(q) \/ Adds(q) \/ Lists(q)
        PROVE  FALSE
    BY <2>1 DEF Resolve, Fetch, Begins, Begin, Shows, Adds, Add, Lists, List
  <2>2. Next
    BY DEF vars
  <2> QED
    BY <2>1, <2>2, Steps
<1>2. ASSUME NEW k \in Id, Insert(q, k) PROVE FALSE
  <2>1. k # i
    BY <1>2 DEF Insert
  <2> QED
    BY <1>2, <2>1 DEF Insert, Typed, RowsTyped
<1>3. /\ request[q] \in ChangeType /\ request[q].state = "resolved"
      /\ rows' = [rows EXCEPT ![request[q].id] = Flushed(q)] /\ Answer(q, "ok")
  BY <1>1, <1>2, Committed
<1>4. i = request[q].id
  BY <1>3 DEF Typed, RowsTyped
<1>5. request'[q].state = "ok"
  <2>1. request'[q] = [request[q] EXCEPT !.state = "ok"]
    BY <1>3 DEF Answer, Typed, RequestsTyped
  <2> QED
    BY <1>3, <2>1 DEF ChangeType
<1>6. request[q].user = rows[i].owner
  BY <1>3, <1>4 DEF Typed, RequestsTyped, ChangeKnows
<1> QED
  BY <1>3, <1>5, <1>6

(* Users change their own rows only, the system's are never changed; and a *)
(* get or a list shows what is its user's or the system's and was not      *)
(* deleted before it was asked for, with the skills linked to that,        *)
(* whatever is created, deleted or updated between the statements of a     *)
(* request (the services' user_id conditions, the routers' checks).        *)
THEOREM RowsAreOwn == Spec => OwnRowsOnly
<1> DEFINE Changed ==
             \A i \in Row : Exists(i) /\ rows'[i] # rows[i] =>
               \E q \in Request : /\ request[q].state = "resolved" /\ request'[q].state = "ok"
                                  /\ request[q].user = rows[i].owner
           Shown ==
             \A q \in Request :
               /\ request[q].state # "ok" /\ request'[q].state = "ok"
               /\ request'[q].op \in {"list", "get"}
               => \A i \in request'[q].shown :
                    \/ MaySee(q, i)
                    \/ \E a \in request'[q].shown : MaySee(q, a) /\ i \in rows[a].skills
<1>1. Typed /\ SentInv /\ [Next]_vars => Changed /\ Shown
  <2> SUFFICES ASSUME Typed, SentInv, [Next]_vars PROVE Changed /\ Shown
    OBVIOUS
  <2>1. Changed
    BY OwnerChanges
  <2>2. ASSUME NEW q \in Request, request[q].state # "ok", request'[q].state = "ok",
               request'[q].op \in {"list", "get"}
        PROVE  \A i \in request'[q].shown :
                 \/ MaySee(q, i)
                 \/ \E a \in request'[q].shown : MaySee(q, a) /\ i \in rows[a].skills
    <3>1. request'[q] \in RequestType
      BY RequestsNext DEF RequestsTyped
    <3>2. PICK r \in GetType \cup ListType : r = request'[q]
      BY <2>2, <3>1, RequestKinds
    <3>3. ShowsTheirs(r)
      BY <2>2, <3>2, SentNext DEF SentAhead, Sent
    <3> QED
      BY <2>2, <3>2, <3>3 DEF ShowsTheirs, Theirs, MaySee
  <2> QED
    BY <2>1, <2>2
<1>2. Spec => [][/\ Changed
                 /\ Shown]_vars
  BY <1>1, TypedAlways, SentAlways, PTL DEF Spec
<1> QED
  BY <1>2 DEF OwnRowsOnly

(* A skill that was deleted before a request was sent is not linked by it, *)
(* however many updates and deletions come between its statements.         *)
THEOREM LinkedSkillsWereActive == Spec => LinkedWhenActive
<1> DEFINE Linked ==
             \A i \in Row : rows'[i] # None =>
               \A j \in rows'[i].skills \ (IF Exists(i) THEN rows[i].skills ELSE {}) :
                 \E q \in Request : /\ request[q].state = "resolved" /\ request'[q].state = "ok"
                                    /\ j \notin request[q].gone
<1>1. Typed /\ SentInv /\ [Next]_vars => Linked
  <2> SUFFICES ASSUME Typed, SentInv, [Next]_vars, NEW i \in Row, rows'[i] # None,
                      NEW j \in rows'[i].skills, Exists(i) => j \notin rows[i].skills
               PROVE  \E q \in Request : /\ request[q].state = "resolved"
                                         /\ request'[q].state = "ok"
                                         /\ j \notin request[q].gone
    OBVIOUS
  <2>0. rows'[i] # rows[i]
    BY DEF Exists
  <2>1. PICK q \in Request : Commit(q) \/ \E k \in Id : Insert(q, k)
    <3>1. ASSUME NEW q \in Request,
                 Resolve(q) \/ Fetch(q) \/ Begins(q) \/ Shows(q) \/ Adds(q) \/ Lists(q)
          PROVE  FALSE
      BY <2>0, <3>1 DEF Resolve, Fetch, Begins, Begin, Shows, Adds, Add, Lists, List
    <3>2. Next
      BY <2>0 DEF vars
    <3> QED
      BY <3>1, <3>2, Steps
  <2>2. CASE Commit(q)
    <3>1. PICK r \in ChangeType :
            /\ r = request[q] /\ r.state = "resolved" /\ SentKnows(r)
            /\ rows' = [rows EXCEPT ![r.id] = Flushed(q)] /\ Answer(q, "ok")
      BY <2>0, <2>2, Committed DEF SentInv, Sent
    <3>2. i = r.id /\ rows'[i] = Flushed(q) /\ Exists(i)
      BY <2>0, <3>1 DEF Typed, RowsTyped, RequestsTyped, ChangeKnows
    <3>3. r.column = "skills" /\ j \in r.value
      <4>1. CASE r.column = "skills"
        <5>1. rows[i] \in RowType
          BY <3>2 DEF Typed, RowsTyped, Exists
        <5>2. rows'[i].skills = (rows[i].skills \ (r.row.skills \ r.value))
                                  \cup (r.value \ r.row.skills)
          BY <3>1, <3>2, <4>1, <5>1 DEF Flushed, RowType
        <5> QED
          BY <3>2, <4>1, <5>2
      <4>2. CASE r.column # "skills"
        <5>1. "skills" \in Columns
          BY DEF Columns
        <5>2. rows'[i] \in RowType /\ rows'[i]["skills"] = rows[i]["skills"]
          BY <3>1, <3>2, <4>2, <5>1, FlushedRow
        <5>3. rows[i] \in RowType
          BY <3>2 DEF Typed, RowsTyped, Exists
        <5> QED
          BY <3>2, <5>2, <5>3, Fields
      <4> QED
        BY <4>1, <4>2
    <3>4. j \notin request[q].gone
      BY <3>1, <3>3 DEF SentKnows
    <3>5. request'[q].state = "ok"
      BY <3>1 DEF Answer, Typed, RequestsTyped, ChangeType
    <3> QED
      BY <3>1, <3>4, <3>5
  <2>3. ASSUME NEW k \in Id, Insert(q, k)
        PROVE  \E p \in Request : /\ request[p].state = "resolved" /\ request'[p].state = "ok"
                                  /\ j \notin request[p].gone
    <3>1. PICK r \in CreateType : r = request[q] /\ r.state = "resolved" /\ SentKnows(r)
      BY <2>3, RequestKinds DEF Insert, Typed, RequestsTyped, SentInv, Sent
    <3>2. /\ i = k /\ rows'[i] = r.row /\ Answer(q, "ok")
      BY <2>0, <2>3, <3>1 DEF Insert, Typed, RowsTyped
    <3>3. j \notin request[q].gone
      BY <3>1, <3>2 DEF SentKnows
    <3>4. request'[q].state = "ok"
      BY <3>1, <3>2 DEF Answer, Typed, RequestsTyped, CreateType
    <3> QED
      BY <3>1, <3>3, <3>4
  <2> QED
    BY <2>1, <2>2, <2>3
<1>2. Spec => [][Linked]_vars
  BY <1>1, TypedAlways, SentAlways, PTL DEF Spec
<1> QED
  BY <1>2 DEF LinkedWhenActive
-----------------------------------------------------------------------------
(***************************************************************************)
(* Updates compose.  As long as no change of a column has succeeded since  *)
(* a request read the row, the column is as it was read: so what the flush *)
(* compares and writes is what was asked for.                              *)
(***************************************************************************)
Done(p, i, column) ==
  /\ request[p].state = "ok" /\ request[p].op \in {"update", "delete"}
  /\ request[p].id = i /\ request[p].column = column

(* What the column of a request holds, unless another has changed it.      *)
Wanted(r) == IF r.state = "ok" THEN r.value ELSE r.row[r.column]

UnderWay(r) == r \in ChangeType /\ r.state \in {"loaded", "resolved", "ok"}

ComposeAt(q, r) ==
  \/ rows[r.id][r.column] = Wanted(r)
  \/ \E p \in Request \ {q} : Done(p, r.id, r.column)

ComposeInv == \A q \in Request : UnderWay(request[q]) => ComposeAt(q, request[q])

(* The step changes at most the column that the answered request is about. *)
OneColumn(new) ==
  \A i \in Row, c \in Columns : Exists(i) =>
    \/ rows'[i][c] = rows[i][c]
    \/ /\ new.state = "ok" /\ new.op \in {"update", "delete"}
       /\ new.id = i /\ new.column = c

LEMMA ComposeStep ==
  ASSUME Typed, ComposeInv, NEW q \in Request, NEW new,
         request' = [request EXCEPT ![q] = new], request[q].state # "ok",
         OneColumn(new),
         UnderWay(new) => \/ rows'[new.id][new.column] = Wanted(new)
                          \/ \E p \in Request \ {q} : Done(p, new.id, new.column)
  PROVE  ComposeInv'
<1>1. request'[q] = new /\ \A p \in Request \ {q} : request'[p] = request[p]
  BY DEF Typed, RequestsTyped
<1>2. ASSUME NEW p \in Request, NEW i, NEW c, Done(p, i, c) PROVE p # q /\ Done(p, i, c)'
  BY <1>1, <1>2 DEF Done
<1>3. ASSUME NEW p \in Request, NEW r, r = request'[p], UnderWay(r)
      PROVE  \/ rows'[r.id][r.column] = Wanted(r)
             \/ \E o \in Request \ {p} : Done(o, r.id, r.column)'
  <2>1. CASE p = q
    BY <1>1, <1>2, <1>3, <2>1
  <2>2. CASE p # q
    <3>1. r = request[p] /\ ComposeAt(p, r)
      BY <1>1, <1>3, <2>2 DEF ComposeInv
    <3>2. CASE \E o \in Request \ {p} : Done(o, r.id, r.column)
      BY <1>2, <3>2
    <3>3. CASE rows[r.id][r.column] = Wanted(r)
      <4>1. r.id \in Row /\ r.column \in Columns /\ Exists(r.id)
        BY <1>3, <3>1 DEF UnderWay, ChangeType, Typed, RequestsTyped, ChangeKnows
      <4>2. CASE rows'[r.id][r.column] = rows[r.id][r.column]
        BY <3>3, <4>2
      <4>3. CASE /\ new.state = "ok" /\ new.op \in {"update", "delete"}
                 /\ new.id = r.id /\ new.column = r.column
        <5>1. Done(q, r.id, r.column)'
          BY <1>1, <4>3 DEF Done
        <5> QED
          BY <2>2, <5>1
      <4> QED
        BY <4>1, <4>2, <4>3 DEF OneColumn
    <3> QED
      BY <3>1, <3>2, <3>3 DEF ComposeAt
  <2> QED
    BY <2>1, <2>2
<1>4. ASSUME NEW p \in Request, UnderWay(request[p])' PROVE ComposeAt(p, request[p])'
  <2>1. PICK r : r = request'[p]
    OBVIOUS
  <2>2. UnderWay(r)
    BY <1>4, <2>1 DEF UnderWay
  <2>3. \/ rows'[r.id][r.column] = Wanted(r)
        \/ \E o \in Request \ {p} : Done(o, r.id, r.column)'
    BY <1>3, <2>1, <2>2
  <2> QED
    BY <2>1, <2>3 DEF ComposeAt, Wanted, Done
<1> QED
  BY <1>4 DEF ComposeInv

LEMMA ComposeNext ==
  ASSUME Typed, ComposeInv, [Next]_vars
  PROVE  ComposeInv'
<1>1. ASSUME NEW q \in Request, NEW new, request' = [request EXCEPT ![q] = new],
             request[q].state # "ok", rows' = rows, ~ UnderWay(new)
      PROVE  ComposeInv'
  BY <1>1, ComposeStep DEF OneColumn
<1>2. ASSUME NEW q \in Request, Fetch(q) PROVE ComposeInv'
  <2>1. request[q] \in ListType /\ request[q].state = "counted"
    BY <1>2, RequestKinds DEF Fetch, Typed, RequestsTyped
  <2>2. PICK new : new = [request[q] EXCEPT !.state = "ok",
                            !.shown = WithSkills(Listing(request[q].user, request[q].kind))]
    OBVIOUS
  <2>3. ~ UnderWay(new)
    BY <2>1, <2>2 DEF UnderWay, ChangeType, ListType
  <2>4. request' = [request EXCEPT ![q] = new] /\ rows' = rows
    BY <1>2, <2>2 DEF Fetch, Typed, RequestsTyped
  <2> QED
    BY <1>1, <2>1, <2>3, <2>4
<1>3. ASSUME NEW q \in Request, Shows(q) PROVE ComposeInv'
  <2>1. PICK u \in User, i \in Row, state \in {"ok", "not_found"}, shown \in SUBSET Row :
          request' = [request EXCEPT ![q] =
            [state |-> state, op |-> "get", user |-> u, shown |-> shown, gone |-> Gone]]
    BY <1>3 DEF Shows
  <2>2. PICK new : new = [state |-> state, op |-> "get", user |-> u, shown |-> shown,
                          gone |-> Gone]
    OBVIOUS
  <2>3. ~ UnderWay(new)
    BY <2>2 DEF UnderWay, ChangeType
  <2>4. rows' = rows /\ request[q].state # "ok"
    BY <1>3 DEF Shows, Unsent
  <2> QED
    BY <1>1, <2>1, <2>2, <2>3, <2>4
<1>4. ASSUME NEW q \in Request, Lists(q) PROVE ComposeInv'
  <2>1. PICK u \in User, kind \in Kind : List(q, u, kind)
    BY <1>4 DEF Lists
  <2>2. PICK new : new = [state |-> "counted", op |-> "list", user |-> u, kind |-> kind,
                          shown |-> {}, gone |-> Gone]
    OBVIOUS
  <2>3. ~ UnderWay(new)
    BY <2>2 DEF UnderWay, ChangeType
  <2>4. request' = [request EXCEPT ![q] = new] /\ rows' = rows /\ request[q].state # "ok"
    BY <2>1, <2>2 DEF List, Unsent
  <2> QED
    BY <1>1, <2>3, <2>4
<1>5. ASSUME NEW q \in Request, Adds(q) PROVE ComposeInv'
  <2>1. PICK u \in User, kind \in Kind, S \in SUBSET Row, state \in {"resolved", "invalid"} :
          Add(q, u, kind, S, state)
    BY <1>5 DEF Adds
  <2>2. PICK name \in Name, note \in Note :
          request' = [request EXCEPT ![q] =
            [state |-> state, op |-> "create", user |-> u, row |-> New(kind, u, name, note, S),
             gone |-> Gone]]
    BY <2>1 DEF Add
  <2>3. PICK new : new = [state |-> state, op |-> "create", user |-> u,
                          row |-> New(kind, u, name, note, S), gone |-> Gone]
    OBVIOUS
  <2>4. ~ UnderWay(new)
    BY <2>3 DEF UnderWay, ChangeType
  <2>5. rows' = rows /\ request[q].state # "ok"
    BY <2>1 DEF Add, Unsent
  <2> QED
    BY <1>1, <2>2, <2>3, <2>4, <2>5
<1>6. ASSUME NEW q \in Request, NEW k \in Id, Insert(q, k) PROVE ComposeInv'
  <2>1. request[q] \in CreateType /\ request[q].state = "resolved" /\ ~ Exists(k)
    BY <1>6, RequestKinds DEF Insert, Typed, RequestsTyped
  <2>2. PICK state \in {"ok", "error"} : Answer(q, state)
    BY <1>6 DEF Insert
  <2>3. PICK new : new = [request[q] EXCEPT !.state = state]
    OBVIOUS
  <2>4. ~ UnderWay(new)
    BY <2>1, <2>3 DEF UnderWay, ChangeType, CreateType
  <2>5. \A i \in Row : Exists(i) => rows'[i] = rows[i]
    BY <1>6, <2>1 DEF Insert, Typed, RowsTyped
  <2>6. request' = [request EXCEPT ![q] = new]
    BY <2>2, <2>3 DEF Answer
  <2> QED
    BY <2>1, <2>4, <2>5, <2>6, ComposeStep DEF OneColumn
<1>7. ASSUME NEW q \in Request, Begins(q) PROVE ComposeInv'
  <2>1. PICK u \in User, i \in Row, op \in {"update", "delete"}, column \in Columns,
             state \in {"loaded", "resolved", "not_found", "forbidden"} :
          \E value \in Values(column) : Begin(q, u, op, i, column, value, state)
    BY <1>7 DEF Begins
  <2>2. PICK value \in Values(column) : Begin(q, u, op, i, column, value, state)
    BY <2>1
  <2>3. PICK new : new = [state |-> state, op |-> op, user |-> u, id |-> i, row |-> rows[i],
                          column |-> column, value |-> value, gone |-> Gone]
    OBVIOUS
  <2>4. request' = [request EXCEPT ![q] = new] /\ rows' = rows /\ request[q].state # "ok"
    BY <2>2, <2>3 DEF Begin, Unsent
  <2>5. rows'[new.id][new.column] = Wanted(new)
    BY <2>3, <2>4 DEF Wanted
  <2> QED
    BY <2>4, <2>5, ComposeStep DEF OneColumn
<1>8. ASSUME NEW q \in Request, Resolve(q) PROVE ComposeInv'
  <2>1. PICK r \in ChangeType : r = request[q] /\ r.state = "loaded"
    BY <1>8, RequestKinds DEF Resolve, Typed, RequestsTyped
  <2>2. PICK state \in {"resolved", "invalid"} : Answer(q, state)
    BY <1>8 DEF Resolve
  <2>3. PICK new : new = [r EXCEPT !.state = state]
    OBVIOUS
  <2>4. /\ new.state = state /\ new.id = r.id /\ new.row = r.row
        /\ new.column = r.column
    BY <2>3, AnsweredRequest DEF Answers
  <2>5. request' = [request EXCEPT ![q] = new] /\ rows' = rows
    BY <1>8, <2>1, <2>2, <2>3 DEF Answer, Resolve
  <2>6. ComposeAt(q, r)
    BY <2>1 DEF ComposeInv, UnderWay
  <2>7. Wanted(new) = Wanted(r)
    BY <2>1, <2>2, <2>4 DEF Wanted
  <2>8. \/ rows'[new.id][new.column] = Wanted(new)
        \/ \E p \in Request \ {q} : Done(p, new.id, new.column)
    BY <2>4, <2>5, <2>6, <2>7 DEF ComposeAt
  <2> QED
    BY <2>1, <2>5, <2>8, ComposeStep DEF OneColumn
<1>9. ASSUME NEW q \in Request, Commit(q) PROVE ComposeInv'
  <2>1. PICK r \in ChangeType : r = request[q] /\ r.state = "resolved" /\ ChangeKnows(r)
    BY <1>9, Committed DEF Typed, RequestsTyped
  <2>2. CASE UNCHANGED rows /\ Answer(q, "error")
    <3>1. PICK new : new = [r EXCEPT !.state = "error"]
      OBVIOUS
    <3>2. new.state = "error"
      BY <3>1, AnsweredRequest DEF Answers
    <3>3. request' = [request EXCEPT ![q] = new]
      BY <2>1, <2>2, <3>1 DEF Answer
    <3> QED
      BY <1>1, <2>1, <2>2, <3>2, <3>3 DEF UnderWay
  <2>3. CASE /\ rows' = [rows EXCEPT ![r.id] = Flushed(q)]
             /\ Answer(q, "ok") /\ ~ LinksClash(q)
    <3>1. PICK new : new = [r EXCEPT !.state = "ok"]
      OBVIOUS
    <3>2. /\ new.state = "ok" /\ new.id = r.id /\ new.op \in {"update", "delete"}
          /\ new.column = r.column /\ new.value = r.value
      BY <3>1, AnsweredRequest DEF Answers, ChangeType
    <3>3. request' = [request EXCEPT ![q] = new]
      BY <2>1, <2>3, <3>1 DEF Answer
    <3>4. r.id \in Row /\ r.column \in Columns
      BY <2>1 DEF ChangeType
    <3>5. rows'[r.id] = Flushed(q) /\ \A i \in Row \ {r.id} : rows'[i] = rows[i]
      BY <2>3, <3>4 DEF Typed, RowsTyped
    <3>6. /\ \A c \in Columns : c # r.column => rows'[r.id][c] = rows[r.id][c]
          /\ rows[r.id][r.column] = r.row[r.column] => rows'[r.id][r.column] = r.value
      BY <2>1, <2>3, <3>5, FlushedRow
    <3>7. ComposeAt(q, r)
      BY <2>1 DEF ComposeInv, UnderWay
    <3>8. \/ rows'[new.id][new.column] = Wanted(new)
          \/ \E p \in Request \ {q} : Done(p, new.id, new.column)
      BY <2>1, <3>2, <3>6, <3>7 DEF ComposeAt, Wanted
    <3>9. OneColumn(new)
      BY <3>2, <3>5, <3>6 DEF OneColumn
    <3>10. request[q].state # "ok"
      BY <2>1
    <3> QED
      BY <3>3, <3>8, <3>9, <3>10, ComposeStep
  <2> QED
    BY <1>9, <2>1, <2>2, <2>3, Committed
<1>10. CASE UNCHANGED vars
  BY <1>10 DEF vars, ComposeInv, UnderWay, ComposeAt, Wanted, Done
<1> QED
  BY <1>2, <1>3, <1>4, <1>5, <1>6, <1>7, <1>8, <1>9, <1>10, Steps

(* An update that succeeded is in the row unless another of the same       *)
(* column succeeded too: a flush writes only the columns that differ from  *)
(* what was read, so requests on one row do not undo each other's columns, *)
(* in whichever order they commit.                                         *)
THEOREM UpdatesOfColumnsCompose == Spec => []UpdatesCompose
<1>1. Init => ComposeInv
  BY DEF Init, ComposeInv, UnderWay, ChangeType, Unsent
<1>2. Spec => []ComposeInv
  BY <1>1, ComposeNext, TypedAlways, PTL DEF Spec
<1>3. Typed /\ ComposeInv => UpdatesCompose
  <2> SUFFICES ASSUME Typed, ComposeInv, NEW q \in Request,
                      request[q].state = "ok", request[q].op \in {"update", "delete"}
               PROVE  \/ rows[request[q].id][request[q].column] = request[q].value
                      \/ \E p \in Request \ {q} :
                           /\ request[p].state = "ok" /\ request[p].op \in {"update", "delete"}
                           /\ request[p].id = request[q].id
                           /\ request[p].column = request[q].column
    BY DEF UpdatesCompose
  <2>1. UnderWay(request[q])
    BY RequestKinds DEF UnderWay, Typed, RequestsTyped
  <2> QED
    BY <2>1 DEF ComposeInv, ComposeAt, Wanted, Done
<1> QED
  BY <1>2, <1>3, TypedAlways, PTL
=============================================================================
