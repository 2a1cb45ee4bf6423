---------------------------- MODULE ProcessProofs ----------------------------
(***************************************************************************)
(* Proofs about Process and AgentFactory, for any processes and threads    *)
(* (finitely many or not), any requests, and any bounds.                   *)
(***************************************************************************)
EXTENDS Process, FiniteSetTheorems, TLAPS

(* The defaults are four, numbered from 1.                                 *)
LEMMA FourDefaults == Defaults = 1 .. 4 /\ Len(DEFAULT_ASSISTANTS) = 4
BY DEF Defaults, DEFAULT_ASSISTANTS

LEMMA Bounds == MaxTurns \in Nat /\ MaxEnds \in Nat /\ MaxPuts \in Nat
BY ProcessAssumption
-----------------------------------------------------------------------------
(***************************************************************************)
(* Types.  A process sets its store up once, so it has at most two; what a *)
(* turn runs on is a process, a thread and a saver.                        *)
(***************************************************************************)
AgentShape ==
  /\ singleton = [p \in Proc |-> singleton[p]]
  /\ turn = [k \in Turn |-> turn[k]]
  /\ \A k \in Turn : Running(k) =>
       turn[k].proc \in Proc /\ turn[k].thread \in Thread

StoreOnce ==
  \A p \in Proc : phase[p] \in {"down", "count", "seed", "store"} => store[p] = 0

TypeInv == TypeOK /\ AgentShape /\ StoreOnce

LEMMA TypeInit == Init => TypeInv
<1> SUFFICES ASSUME Init PROVE TypeInv
  OBVIOUS
<1>1. interrupted \in BOOLEAN /\ fellBack \in BOOLEAN
  BY DEF Init
<1>2. /\ table \subseteq Defaults
      /\ ends \in 0 .. MaxEnds
      /\ phase \in [Proc -> {"down", "count", "seed", "store", "saver", "agent", "up",
                             "teardown", "cleanup", "stopped"}]
      /\ next \in [Proc -> 1 .. Len(DEFAULT_ASSISTANTS) + 1]
      /\ saver \in [Proc -> Savers]
      /\ store \in [Proc -> 0 .. 2]
      /\ pool \in [Proc -> Pools]
      /\ postgres \subseteq Turn /\ ram \in [Proc -> SUBSET Turn]
      /\ puts \in 0 .. MaxPuts /\ memory \in [Proc -> 0 .. MaxPuts]
  BY Bounds, FourDefaults DEF Init, Savers, Pools
<1>3. /\ sandboxes \in [Proc -> [Thread -> Turn \cup {None}]]
      /\ thread_ids \in [Proc -> SUBSET Thread]
      /\ live \in [Proc -> SUBSET Turn] /\ leftover \in [Proc -> SUBSET Turn]
      /\ box \in [Turn -> Turn \cup {None, Creating}]
      /\ \A p \in Proc : singleton[p] = NoAgent
      /\ \A k \in Turn : turn[k].state = "idle"
  BY DEF Init, IdleTurn
<1>4. AgentShape
  BY <1>3 DEF Init, AgentShape, Running
<1>5. StoreOnce
  BY DEF Init, StoreOnce
<1> QED
  BY <1>1, <1>2, <1>3, <1>4, <1>5 DEF TypeInv, TypeOK

(* What a turn runs on, and what it leaves in the table of sandboxes.      *)
LEMMA SandboxOf ==
  ASSUME TypeInv, NEW k \in Turn, Running(k)
  PROVE  sandboxes[turn[k].proc][turn[k].thread] \in Turn \cup {None}
BY DEF TypeInv, TypeOK, AgentShape

(* Changing one of a family of subsets.                                    *)
LEMMA OneChanged ==
  ASSUME NEW S, NEW T, NEW f \in [S -> SUBSET T], NEW x \in S, NEW A, A \subseteq T
  PROVE  [f EXCEPT ![x] = A] \in [S -> SUBSET T]
OBVIOUS

(* An agent is built with a saver.                                         *)
LEMMA BuildShape ==
  ASSUME TypeInv, NEW p \in Proc, NEW type, NEW format
  PROVE  LET a == Build(p, type, format)
         IN  /\ a.saver = GetCheckpointer(p)
             /\ a.saver \in Savers \ {"none"}
             /\ a.prompt = Prompt(type)
             /\ a.skills = ResolveSkillPaths(type) /\ a.format = format
BY DEF Build, CreateDeepAgent, GetCheckpointer, TypeInv, TypeOK, Savers

(* Which variables a step of the life of a process leaves alone.           *)
LEMMA LifespanKeeps ==
  ASSUME NEW p \in Proc, Lifespan(p)
  PROVE  UNCHANGED <<interrupted, ends, postgres, puts, turn, box>>
BY DEF Lifespan, Boot, CountAssistants, SeedingDone, CreateDefault, CreateRefused,
       SetUpStore, SetUpSaver, BuildSingleton, Teardown, ClosePool, CleanUp, Dispose, Exit,
       seedVars, endVars, backendVars, sandboxVars, historyVars, turnVars

LEMMA ForgetTypes ==
  ASSUME TypeInv, NEW p \in Proc, Forget(p)
  PROVE  /\ phase' \in [Proc -> {"down", "count", "seed", "store", "saver", "agent", "up",
                                 "teardown", "cleanup", "stopped"}]
         /\ next' \in [Proc -> 1 .. Len(DEFAULT_ASSISTANTS) + 1]
         /\ saver' \in [Proc -> Savers]
         /\ store' \in [Proc -> 0 .. 2]
         /\ pool' \in [Proc -> Pools]
         /\ ram' \in [Proc -> SUBSET Turn]
         /\ memory' \in [Proc -> 0 .. MaxPuts]
         /\ sandboxes' \in [Proc -> [Thread -> Turn \cup {None}]]
         /\ thread_ids' \in [Proc -> SUBSET Thread]
         /\ live' \in [Proc -> SUBSET Turn] /\ leftover' \in [Proc -> SUBSET Turn]
         /\ \A q \in Proc : singleton'[q] = IF q = p THEN NoAgent ELSE singleton[q]
         /\ singleton' = [q \in Proc |-> singleton'[q]]
         /\ StoreOnce'
<1> USE DEF TypeInv, TypeOK, Forget, Goto
<1>1. /\ phase' \in [Proc -> {"down", "count", "seed", "store", "saver", "agent", "up",
                                 "teardown", "cleanup", "stopped"}]
      /\ next' \in [Proc -> 1 .. Len(DEFAULT_ASSISTANTS) + 1]
      /\ saver' \in [Proc -> Savers]
      /\ store' \in [Proc -> 0 .. 2]
      /\ pool' \in [Proc -> Pools]
      /\ ram' \in [Proc -> SUBSET Turn]
      /\ memory' \in [Proc -> 0 .. MaxPuts]
  BY Bounds, FourDefaults DEF Savers, Pools
<1>2. /\ sandboxes' \in [Proc -> [Thread -> Turn \cup {None}]]
      /\ thread_ids' \in [Proc -> SUBSET Thread]
      /\ live' \in [Proc -> SUBSET Turn] /\ leftover' \in [Proc -> SUBSET Turn]
  OBVIOUS
<1>3. /\ \A q \in Proc : singleton'[q] = IF q = p THEN NoAgent ELSE singleton[q]
      /\ singleton' = [q \in Proc |-> singleton'[q]]
  BY DEF AgentShape
<1>4. StoreOnce'
  BY DEF StoreOnce
<1> QED
  BY <1>1, <1>2, <1>3, <1>4

LEMMA TypeNext == TypeInv /\ [Next]_vars => TypeInv'
<1> SUFFICES ASSUME TypeInv, [Next]_vars PROVE TypeInv'
  OBVIOUS
<1> USE Bounds DEF TypeInv, TypeOK, AgentShape, StoreOnce, Goto, seedVars, endVars,
            backendVars, sandboxVars, historyVars, turnVars, Running
<1>1. ASSUME NEW p \in Proc, Boot(p) \/ CountAssistants(p) PROVE TypeInv'
  BY <1>1 DEF Boot, CountAssistants, After
<1>2. ASSUME NEW p \in Proc, SeedingDone(p) \/ CreateDefault(p) \/ CreateRefused(p)
      PROVE  TypeInv'
  <2>1. CASE SeedingDone(p)
    BY <2>1, FourDefaults DEF SeedingDone, Seeded, After
  <2>2. CASE CreateDefault(p)
    BY <2>2, FourDefaults DEF CreateDefault
  <2>3. CASE CreateRefused(p)
    BY <2>3, FourDefaults DEF CreateRefused
  <2> QED
    BY <1>2, <2>1, <2>2, <2>3
<1>3. ASSUME NEW p \in Proc, SetUpStore(p) PROVE TypeInv'
  BY <1>3 DEF SetUpStore, After
<1>4. ASSUME NEW p \in Proc, SetUpSaver(p) PROVE TypeInv'
  <2>1. fellBack' \in BOOLEAN
    BY <1>4, Zenon DEF SetUpSaver
  <2>2. saver' \in [Proc -> Savers] /\ pool' \in [Proc -> Pools]
    BY <1>4 DEF SetUpSaver, Savers, Pools
  <2> QED
    BY <1>4, <2>1, <2>2 DEF SetUpSaver, After
<1>5. ASSUME NEW p \in Proc, BuildSingleton(p) PROVE TypeInv'
  <2>1. saver' \in [Proc -> Savers] /\ store' \in [Proc -> 0 .. 2]
    BY <1>5 DEF BuildSingleton, GetCheckpointer, GetMemoryStore, Savers
  <2>2. \A q \in Proc : singleton'[q] = NoAgent \/ singleton'[q].saver \in Savers \ {"none"}
    BY <1>5, BuildShape DEF BuildSingleton
  <2>3. singleton' = [q \in Proc |-> singleton'[q]]
    BY <1>5 DEF BuildSingleton
  <2> QED
    BY <1>5, <2>1, <2>2, <2>3 DEF BuildSingleton, After
<1>6. ASSUME NEW p \in Proc, Teardown(p) \/ Dispose(p) PROVE TypeInv'
  <2>1. CASE Teardown(p)
    <3>1. pool' \in [Proc -> Pools]
      BY <2>1 DEF Teardown, ClosePool, Pools
    <3>2. thread_ids' \in [Proc -> SUBSET Thread]
      BY <2>1 DEF Teardown, Registered
    <3> QED
      BY <2>1, <3>1, <3>2 DEF Teardown, ClosePool, Savers
  <2>2. CASE Dispose(p)
    BY <2>2 DEF Dispose
  <2> QED
    BY <1>6, <2>1, <2>2
<1>7. ASSUME NEW p \in Proc, NEW t \in Thread, CleanUp(p, t) PROVE TypeInv'
  <2>1. UNCHANGED phase
    BY <1>7 DEF CleanUp
  <2>2. /\ live' \in {live, [live EXCEPT ![p] = live[p] \ {sandboxes[p][t]}]}
        /\ leftover' \in {leftover, [leftover EXCEPT ![p] =
                                        leftover[p] \cup ({sandboxes[p][t]} \ {None})]}
    BY <1>7, Zenon DEF CleanUp
  <2>3. /\ live[p] \ {sandboxes[p][t]} \subseteq Turn
        /\ leftover[p] \cup ({sandboxes[p][t]} \ {None}) \subseteq Turn
    OBVIOUS
  <2>4. live' \in [Proc -> SUBSET Turn] /\ leftover' \in [Proc -> SUBSET Turn]
    <3>1. [live EXCEPT ![p] = live[p] \ {sandboxes[p][t]}] \in [Proc -> SUBSET Turn]
      BY <2>3, OneChanged
    <3>2. [leftover EXCEPT ![p] = leftover[p] \cup ({sandboxes[p][t]} \ {None})]
            \in [Proc -> SUBSET Turn]
      BY <2>3, OneChanged
    <3> QED
      BY <2>2, <3>1, <3>2
  <2>5. thread_ids' \in [Proc -> SUBSET Thread]
    BY <1>7 DEF CleanUp
  <2>6. sandboxes' \in [Proc -> [Thread -> Turn \cup {None}]]
    BY <1>7 DEF CleanUp
  <2>7. UNCHANGED <<seedVars, endVars, backendVars, historyVars, turnVars>>
    BY <1>7 DEF CleanUp
  <2> QED
    BY <2>1, <2>4, <2>5, <2>6, <2>7
<1>8. ASSUME NEW p \in Proc, Exit(p) PROVE TypeInv'
  BY <1>8, ForgetTypes DEF Exit
<1>9. ASSUME NEW p \in Proc, PutMemory(p) \/ Stop(p) PROVE TypeInv'
  <2>1. CASE PutMemory(p)
    BY <2>1 DEF PutMemory
  <2>2. CASE Stop(p)
    BY <2>2 DEF Stop
  <2> QED
    BY <1>9, <2>1, <2>2
<1>10. ASSUME NEW p \in Proc, Crash(p) PROVE TypeInv'
  <2>1. interrupted' \in BOOLEAN
    BY <1>10, Zenon DEF Crash
  <2>2. box' \in [Turn -> Turn \cup {None, Creating}]
    BY <1>10 DEF Crash
  <2>3. \A k \in Turn : turn'[k].state = "lost" \/ turn'[k] = turn[k]
    BY <1>10 DEF Crash
  <2>4. turn' = [k \in Turn |-> turn'[k]]
    BY <1>10 DEF Crash
  <2>5. Forget(p) /\ ends' \in 0 .. MaxEnds /\ UNCHANGED <<table, fellBack, postgres, puts>>
    BY <1>10 DEF Crash
  <2> QED
    BY <2>1, <2>2, <2>3, <2>4, <2>5, ForgetTypes
<1>11. ASSUME NEW k \in Turn, FindSandbox(k) PROVE TypeInv'
  BY <1>11, SandboxOf DEF FindSandbox
<1>12. ASSUME NEW k \in Turn, RegisterSandbox(k) PROVE TypeInv'
  <2>1. /\ turn[k].proc \in Proc /\ turn[k].thread \in Thread
        /\ sandboxes[turn[k].proc][turn[k].thread] \in Turn \cup {None}
    BY <1>12, SandboxOf DEF RegisterSandbox
  <2>2. live' \in [Proc -> SUBSET Turn] /\ leftover' \in [Proc -> SUBSET Turn]
    BY <1>12, <2>1 DEF RegisterSandbox
  <2> QED
    BY <1>12, <2>1, <2>2 DEF RegisterSandbox
<1>13. ASSUME NEW k \in Turn, EndTurn(k) PROVE TypeInv'
  <2>1. /\ \A j \in Turn : turn'[j] = IF j = k THEN [state |-> "done", thread |-> turn[k].thread]
                                      ELSE turn[j]
        /\ turn' = [j \in Turn |-> turn'[j]]
    BY <1>13 DEF EndTurn
  <2>2. box' \in [Turn -> Turn \cup {None, Creating}]
    BY <1>13 DEF EndTurn
  <2>3. postgres' \subseteq Turn /\ ram' \in [Proc -> SUBSET Turn]
    <3>1. /\ postgres' = postgres \cup {k} \/ postgres' = postgres
          /\ \/ ram' = [ram EXCEPT ![turn[k].proc] = ram[turn[k].proc] \cup {k}]
             \/ ram' = ram
      BY <1>13, Zenon DEF EndTurn
    <3>2. turn[k].proc \in Proc /\ ram[turn[k].proc] \cup {k} \subseteq Turn
      BY <1>13 DEF EndTurn
    <3>3. [ram EXCEPT ![turn[k].proc] = ram[turn[k].proc] \cup {k}] \in [Proc -> SUBSET Turn]
      BY <3>2, OneChanged
    <3> QED
      BY <3>1, <3>3
  <2> QED
    BY <1>13, <2>1, <2>2, <2>3 DEF EndTurn
<1>14. ASSUME NEW k \in Turn, NEW p \in Proc, NEW t \in Thread, StartTurn(k, p, t)
       PROVE  TypeInv'
  <2>1. \A j \in Turn : turn'[j] = turn[j] \/
          (turn'[j].state = "running" /\ turn'[j].proc = p /\ turn'[j].thread = t)
    BY <1>14 DEF StartTurn
  <2>2. turn' = [j \in Turn |-> turn'[j]]
    BY <1>14 DEF StartTurn
  <2>3. singleton' = singleton
    BY <1>14 DEF StartTurn, GetAgent
  <2> QED
    BY <1>14, <2>1, <2>2, <2>3, ZenonT(60) DEF StartTurn
<1>15. CASE UNCHANGED vars
  BY <1>15 DEF vars
<1> QED
  BY <1>1, <1>2, <1>3, <1>4, <1>5, <1>6, <1>7, <1>8, <1>9, <1>10, <1>11, <1>12, <1>13,
     <1>14, <1>15 DEF Next, Lifespan, TurnStep

(* Every variable keeps its type, for any number of processes that boot,   *)
(* seed, serve, stop and crash.                                            *)
THEOREM TypeCorrect == Spec => []TypeOK
<1>1. TypeInv => TypeOK
  BY DEF TypeInv
<1> QED
  BY TypeInit, TypeNext, <1>1, PTL DEF Spec
-----------------------------------------------------------------------------
(***************************************************************************)
(* Seeding.  Only the process that created the first default gets past it: *)
(* from then on the first one is taken.                                    *)
(***************************************************************************)
SeederInv ==
  /\ \A p \in Proc : next[p] > 1 => phase[p] = "seed" /\ 1 \in table
  /\ \A p, q \in Proc : next[p] > 1 /\ next[q] > 1 => p = q

LEMMA SeederInit == Init => SeederInv
BY DEF Init, SeederInv

LEMMA SeederNext == TypeInv /\ SeederInv /\ [Next]_vars => SeederInv'
<1> SUFFICES ASSUME TypeInv, SeederInv, [Next]_vars PROVE SeederInv'
  OBVIOUS
<1> USE DEF SeederInv, TypeInv, TypeOK, Goto, seedVars, endVars, backendVars, sandboxVars,
            historyVars, turnVars
<1>1. ASSUME NEW p \in Proc, Boot(p) \/ CountAssistants(p) PROVE SeederInv'
  BY <1>1 DEF Boot, CountAssistants, After
<1>2. ASSUME NEW p \in Proc, SeedingDone(p) \/ CreateRefused(p) \/ Exit(p) \/ Crash(p)
      PROVE  SeederInv'
  <2>1. /\ next' = [next EXCEPT ![p] = 1]
        /\ \A q \in Proc \ {p} : phase'[q] = phase[q]
        /\ table' = table
    BY <1>2 DEF SeedingDone, CreateRefused, Exit, Crash, Forget, After
  <2>2. next'[p] = 1 /\ \A q \in Proc \ {p} : next'[q] = next[q] /\ phase'[q] = phase[q]
    BY <2>1
  <2> QED
    BY <2>1, <2>2
<1>3. ASSUME NEW p \in Proc, CreateDefault(p) PROVE SeederInv'
  <2>1. /\ phase[p] = "seed" /\ phase' = phase
        /\ next[p] \notin table
        /\ table' = table \cup {next[p]}
        /\ next' = [next EXCEPT ![p] = @ + 1]
    BY <1>3 DEF CreateDefault
  <2>2. \A q \in Proc : next[q] \in Nat \ {0}
    BY FourDefaults, SMTT(30)
  <2>3. \A q \in Proc : next'[q] = IF q = p THEN next[p] + 1 ELSE next[q]
    BY <2>1
  <2>4. CASE next[p] = 1
    <3>1. \A q \in Proc : ~ next[q] > 1
      BY <2>1, <2>2, <2>4
    <3> QED
      BY <2>1, <2>2, <2>3, <2>4, <3>1
  <2>5. CASE next[p] > 1
    BY <2>1, <2>2, <2>3, <2>5
  <2> QED
    BY <2>2, <2>4, <2>5
<1>4. ASSUME NEW p \in Proc,
             \/ SetUpStore(p) \/ SetUpSaver(p) \/ BuildSingleton(p) \/ Teardown(p)
             \/ Dispose(p) \/ Stop(p)
      PROVE  SeederInv'
  <2>1. /\ phase[p] # "seed" /\ \A q \in Proc \ {p} : phase'[q] = phase[q]
        /\ UNCHANGED <<next, table>>
    <3>1. CASE SetUpStore(p)
      BY <3>1 DEF SetUpStore
    <3>2. CASE SetUpSaver(p)
      BY <3>2 DEF SetUpSaver
    <3>3. CASE BuildSingleton(p)
      BY <3>3 DEF BuildSingleton
    <3>4. CASE Teardown(p) \/ Dispose(p) \/ Stop(p)
      BY <3>4 DEF Teardown, ClosePool, Dispose, Stop, Up
    <3> QED
      BY <1>4, <3>1, <3>2, <3>3, <3>4
  <2> QED
    BY <2>1
<1>5. ASSUME \/ \E p \in Proc : PutMemory(p) \/ \E t \in Thread : CleanUp(p, t)
             \/ \E k \in Turn : TurnStep(k) \/ \E p \in Proc, t \in Thread : StartTurn(k, p, t)
             \/ UNCHANGED vars
      PROVE  SeederInv'
  <2>1. UNCHANGED <<next, phase, table>>
    BY <1>5 DEF PutMemory, CleanUp, TurnStep, FindSandbox, RegisterSandbox,
                EndTurn, StartTurn, vars
  <2> QED
    BY <2>1
<1> QED
  BY <1>1, <1>2, <1>3, <1>4, <1>5 DEF Next, Lifespan

(* However many processes find the table of assistants empty, at most one  *)
(* creates more than the first default; the start-up of the others fails.  *)
THEOREM OneProcessSeeds == Spec => []OneSeeder
<1>1. SeederInv => OneSeeder
  <2> SUFFICES ASSUME SeederInv PROVE OneSeeder
    OBVIOUS
  <2> DEFINE S == {p \in Proc : phase[p] = "seed" /\ next[p] > 1 /\ table # Defaults}
  <2>1. S = {} \/ \E p \in Proc : S = {p}
    BY DEF SeederInv
  <2> HIDE DEF S
  <2>2. Cardinality(S) = 0 \/ Cardinality(S) = 1
    BY <2>1, FS_EmptySet, FS_Singleton
  <2>3. Cardinality(S) <= 1
    BY <2>2
  <2> QED
    BY <2>3 DEF S, OneSeeder
<1> QED
  BY TypeInit, TypeNext, SeederInit, SeederNext, <1>1, PTL DEF Spec
-----------------------------------------------------------------------------
(***************************************************************************)
(* Histories.  As long as no process has fallen back, a process that       *)
(* serves has its checkpoints and its agent's in the database, and so has  *)
(* every turn that is done.                                                *)
(***************************************************************************)
InDatabase ==
  /\ \A p \in Proc :
       /\ saver[p] # "memory"
       /\ phase[p] \in {"agent", "up"} => saver[p] = "postgres"
       /\ phase[p] = "up" => singleton[p].saver = "postgres"
  /\ \A k \in Turn :
       /\ turn[k].state = "done" => k \in postgres
       /\ Running(k) => turn[k].agent.saver = "postgres" /\ turn[k].missed = {}

HistoryInv == ~ fellBack => InDatabase

LEMMA HistoryInit == Init => HistoryInv
BY DEF Init, HistoryInv, InDatabase, Running, IdleTurn

LEMMA HistoryNext == TypeInv /\ HistoryInv /\ [Next]_vars => HistoryInv'
<1> SUFFICES ASSUME TypeInv, HistoryInv, [Next]_vars, ~ fellBack' PROVE InDatabase'
  BY DEF HistoryInv
<1>0. ~ fellBack
  <2>1. ASSUME NEW p \in Proc, SetUpSaver(p) PROVE ~ fellBack
    BY <2>1, Zenon DEF SetUpSaver
  <2>2. CASE \A p \in Proc : ~ SetUpSaver(p)
    <3>1. fellBack' = fellBack
      BY <2>2 DEF Next, Lifespan, TurnStep, Boot, CountAssistants, SeedingDone,
                  CreateDefault, CreateRefused, SetUpStore, BuildSingleton, Teardown,
                  CleanUp, Dispose, Exit, PutMemory, Stop, Crash, FindSandbox,
                  RegisterSandbox, EndTurn, StartTurn, vars, seedVars, endVars
    <3> QED
      BY <3>1
  <2> QED
    BY <2>1, <2>2
<1> USE <1>0 DEF HistoryInv, InDatabase, TypeInv, TypeOK, AgentShape, Goto, seedVars,
                 endVars, backendVars, sandboxVars, historyVars, turnVars, Running
<1>1. ASSUME NEW p \in Proc,
             \/ Boot(p) \/ CountAssistants(p) \/ SeedingDone(p) \/ CreateDefault(p)
             \/ CreateRefused(p) \/ SetUpStore(p) \/ Dispose(p) \/ Stop(p) \/ PutMemory(p)
             \/ \E t \in Thread : CleanUp(p, t)
      PROVE  InDatabase'
  <2>1. /\ UNCHANGED <<saver, singleton, turn, postgres>>
        /\ \A q \in Proc \ {p} : phase'[q] = phase[q]
        /\ phase'[p] = phase[p] \/ phase'[p] \notin {"agent", "up"}
    BY <1>1 DEF Boot, CountAssistants, SeedingDone, CreateDefault, CreateRefused,
                SetUpStore, Dispose, Stop, PutMemory, CleanUp, After
  <2> QED
    BY <2>1
<1>2. ASSUME NEW p \in Proc, SetUpSaver(p) PROVE InDatabase'
  <2>1. saver' = [saver EXCEPT ![p] = "postgres"]
    <3>1. PICK s \in {"postgres", "memory"} :
            saver' = [saver EXCEPT ![p] = s] /\ fellBack' = (fellBack \/ s = "memory")
      BY <1>2 DEF SetUpSaver
    <3>2. s # "memory"
      BY <3>1, Zenon
    <3> QED
      BY <3>1, <3>2
  <2> QED
    BY <1>2, <2>1 DEF SetUpSaver, After
<1>3. ASSUME NEW p \in Proc, BuildSingleton(p) PROVE InDatabase'
  <2>1. saver[p] = "postgres" /\ GetCheckpointer(p) = "postgres"
    BY <1>3 DEF BuildSingleton, GetCheckpointer
  <2>2. \A q \in Proc : singleton'[q] = IF q = p THEN Build(p, "none", "none")
                                        ELSE singleton[q]
    BY <1>3 DEF BuildSingleton
  <2>3. Build(p, "none", "none").saver = "postgres"
    BY <2>1, BuildShape
  <2> QED
    BY <1>3, <2>1, <2>2, <2>3 DEF BuildSingleton, After
<1>4. ASSUME NEW p \in Proc, Teardown(p) PROVE InDatabase'
  BY <1>4 DEF Teardown, ClosePool
<1>5. ASSUME NEW p \in Proc, Exit(p) PROVE InDatabase'
  BY <1>5 DEF Exit, Forget
<1>6. ASSUME NEW p \in Proc, Crash(p) PROVE InDatabase'
  <2>1. \A k \in Turn : turn'[k] = turn[k] \/ turn'[k].state = "lost"
    BY <1>6 DEF Crash
  <2>2. \A q \in Proc : IF q = p THEN saver'[q] = "none" /\ phase'[q] = "down"
                        ELSE UNCHANGED <<saver[q], phase[q], singleton[q]>>
    BY <1>6 DEF Crash, Forget
  <2> QED
    BY <1>6, <2>1, <2>2 DEF Crash
<1>7. ASSUME NEW k \in Turn, FindSandbox(k) \/ RegisterSandbox(k) PROVE InDatabase'
  BY <1>7 DEF FindSandbox, RegisterSandbox
<1>8. ASSUME NEW k \in Turn, EndTurn(k) PROVE InDatabase'
  <2>1. \A j \in Turn : turn'[j] = IF j = k THEN [state |-> "done", thread |-> turn[k].thread]
                                   ELSE turn[j]
    BY <1>8 DEF EndTurn
  <2>2. postgres' = postgres \cup {k} /\ UNCHANGED <<saver, phase, singleton>>
    BY <1>8 DEF EndTurn
  <2> QED
    BY <2>1, <2>2
<1>9. ASSUME NEW k \in Turn, NEW p \in Proc, NEW t \in Thread, StartTurn(k, p, t)
      PROVE  InDatabase'
  <2>1. PICK r \in Request :
          LET resolved == RequestedType(r)
              format == GetResponseFormat(r.format)
              got == GetAgent(p, resolved, format)
          IN turn' = [turn EXCEPT ![k] =
               [state |-> "running", proc |-> p, thread |-> t, type |-> resolved,
                format |-> format, agent |-> got[1],
                missed |-> {j \in Turn : turn[j].state = "done" /\ turn[j].thread = t}
                             \ History(p, got[1].saver),
                memory |-> Memory(p, got[1].store), saved |-> puts]]
    BY <1>9 DEF StartTurn
  <2> DEFINE agent == GetAgent(p, RequestedType(r), GetResponseFormat(r.format))[1]
  <2>2. agent.saver = "postgres"
    <3>1. saver[p] = "postgres" /\ singleton[p].saver = "postgres"
      BY <1>9 DEF StartTurn, Up
    <3>2. \A type, format : Build(p, type, format).saver = "postgres"
      BY <3>1, BuildShape DEF GetCheckpointer
    <3> QED
      BY <3>1, <3>2 DEF GetAgent
  <2>3. /\ turn'[k].state = "running" /\ turn'[k].agent = agent
        /\ turn'[k].missed = {j \in Turn : turn[j].state = "done" /\ turn[j].thread = t}
                               \ History(p, agent.saver)
        /\ \A j \in Turn \ {k} : turn'[j] = turn[j]
    BY <2>1
  <2> HIDE DEF agent
  <2>4. turn'[k].missed = {}
    BY <2>2, <2>3 DEF History
  <2>5. UNCHANGED <<saver, phase, postgres, singleton>>
    BY <1>9 DEF StartTurn, GetAgent
  <2>6. ASSUME NEW j \in Turn
        PROVE  /\ turn'[j].state = "done" => j \in postgres'
               /\ turn'[j].state = "running"
                    => turn'[j].agent.saver = "postgres" /\ turn'[j].missed = {}
    <3>1. CASE j = k
      BY <2>2, <2>3, <2>4, <3>1
    <3>2. CASE j # k
      BY <2>3, <2>5, <3>2
    <3> QED
      BY <3>1, <3>2
  <2> QED
    BY <2>5, <2>6
<1>10. CASE UNCHANGED vars
  BY <1>10 DEF vars
<1> QED
  BY <1>1, <1>2, <1>3, <1>4, <1>5, <1>6, <1>7, <1>8, <1>9, <1>10
     DEF Next, Lifespan, TurnStep

(* As long as no process had to fall back to checkpoints in memory, a turn *)
(* starts with all that was done on its thread, in whichever process, on   *)
(* whichever agent, before or after any restart.                           *)
THEOREM HistoriesAreKept == Spec => []HistoryKept
<1>1. HistoryInv => HistoryKept
  BY DEF HistoryInv, InDatabase, HistoryKept
<1> QED
  BY TypeInit, TypeNext, HistoryInit, HistoryNext, <1>1, PTL DEF Spec
-----------------------------------------------------------------------------
(***************************************************************************)
(* Agents.  The registries of skills that the factory and the prompts keep *)
(* apart agree, and what a process builds for one turn leaves its          *)
(* singleton as it was.                                                    *)
(***************************************************************************)
LEMMA SkillsAgree ==
  ASSUME NEW type PROVE ResolveSkillPaths(type) = RecommendedSkills(type)
<1>1. DOMAIN AGENT_TYPE_SKILLS = {"researcher", "coder", "writer"}
  BY DEF AGENT_TYPE_SKILLS
<1>2. CASE type = "researcher"
  BY <1>1, <1>2 DEF ResolveSkillPaths, RecommendedSkills, AGENT_TYPE_SKILLS, SystemSkills
<1>3. CASE type = "coder"
  BY <1>1, <1>3 DEF ResolveSkillPaths, RecommendedSkills, AGENT_TYPE_SKILLS, SystemSkills
<1>4. CASE type = "writer"
  BY <1>1, <1>4 DEF ResolveSkillPaths, RecommendedSkills, AGENT_TYPE_SKILLS, SystemSkills
<1>5. CASE type \notin {"researcher", "coder", "writer"}
  BY <1>1, <1>5 DEF ResolveSkillPaths, RecommendedSkills
<1> QED
  BY <1>2, <1>3, <1>4, <1>5

(* Who asks for no type and no format gets the general agent.              *)
General(agent) ==
  /\ agent.format = "none"
  /\ agent.prompt = "general"
  /\ agent.skills = SystemSkills

AgentInv ==
  /\ \A p \in Proc : singleton[p] # NoAgent => General(singleton[p])
  /\ \A p \in Proc : phase[p] = "up" => singleton[p] # NoAgent
  /\ AgentAsRequested

LEMMA AgentInit == Init => AgentInv
BY DEF Init, AgentInv, AgentAsRequested, Running, IdleTurn

(* Whatever is asked for, the agent that is got is what was asked for.     *)
LEMMA GotAgent ==
  ASSUME TypeInv, NEW p \in Proc, General(singleton[p]), NEW type, NEW format
  PROVE  LET agent == GetAgent(p, type, format)[1]
         IN  /\ agent.format = format
             /\ agent.prompt = Prompt(type)
             /\ agent.skills = RecommendedSkills(type)
<1>1. CASE type \in {"none", "general"} /\ format = "none"
  BY <1>1 DEF GetAgent, General, Prompt, RecommendedSkills, Type
<1>2. CASE ~ (type \in {"none", "general"} /\ format = "none")
  BY <1>2, BuildShape, SkillsAgree DEF GetAgent
<1> QED
  BY <1>1, <1>2

LEMMA AgentNext == TypeInv /\ AgentInv /\ [Next]_vars => AgentInv'
<1> SUFFICES ASSUME TypeInv, AgentInv, [Next]_vars PROVE AgentInv'
  OBVIOUS
<1> USE DEF AgentInv, AgentAsRequested, TypeInv, TypeOK, AgentShape, Goto, seedVars,
            endVars, backendVars, sandboxVars, historyVars, turnVars, Running
<1>1. ASSUME NEW p \in Proc,
             \/ Boot(p) \/ CountAssistants(p) \/ SeedingDone(p) \/ CreateDefault(p)
             \/ CreateRefused(p) \/ SetUpStore(p) \/ Dispose(p) \/ Stop(p) \/ PutMemory(p)
             \/ \E t \in Thread : CleanUp(p, t)
      PROVE  AgentInv'
  <2>1. /\ UNCHANGED <<singleton, turn>>
        /\ \A q \in Proc \ {p} : phase'[q] = phase[q]
        /\ phase'[p] = phase[p] \/ phase'[p] # "up"
    BY <1>1 DEF Boot, CountAssistants, SeedingDone, CreateDefault, CreateRefused,
                SetUpStore, Dispose, Stop, PutMemory, CleanUp, After
  <2> QED
    BY <2>1
<1>2. ASSUME NEW p \in Proc, SetUpSaver(p) \/ Teardown(p) PROVE AgentInv'
  BY <1>2 DEF SetUpSaver, Teardown, ClosePool, After
<1>3. ASSUME NEW p \in Proc, BuildSingleton(p) PROVE AgentInv'
  <2> DEFINE agent == Build(p, "none", "none")
  <2>1. General(agent)
    <3>1. Prompt("none") = "general"
      BY DEF Prompt, Type
    <3>2. ResolveSkillPaths("none") = SystemSkills
      BY DEF ResolveSkillPaths, AGENT_TYPE_SKILLS
    <3> QED
      BY <3>1, <3>2, BuildShape DEF General
  <2>2. agent # NoAgent
    BY <2>1 DEF General, NoAgent
  <2>3. \A q \in Proc : singleton'[q] = IF q = p THEN agent ELSE singleton[q]
    BY <1>3 DEF BuildSingleton
  <2> HIDE DEF agent
  <2> QED
    BY <1>3, <2>1, <2>2, <2>3 DEF BuildSingleton, After
<1>4. ASSUME NEW p \in Proc, Exit(p) PROVE AgentInv'
  BY <1>4 DEF Exit, Forget
<1>5. ASSUME NEW p \in Proc, Crash(p) PROVE AgentInv'
  <2>1. \A k \in Turn : turn'[k] = turn[k] \/ turn'[k].state = "lost"
    BY <1>5 DEF Crash
  <2>2. \A q \in Proc : IF q = p THEN singleton'[q] = NoAgent /\ phase'[q] = "down"
                        ELSE UNCHANGED <<phase[q], singleton[q]>>
    BY <1>5 DEF Crash, Forget
  <2> QED
    BY <2>1, <2>2
<1>6. ASSUME NEW k \in Turn, FindSandbox(k) \/ RegisterSandbox(k) PROVE AgentInv'
  BY <1>6 DEF FindSandbox, RegisterSandbox
<1>7. ASSUME NEW k \in Turn, EndTurn(k) PROVE AgentInv'
  <2>1. \A j \in Turn : turn'[j] = IF j = k THEN [state |-> "done", thread |-> turn[k].thread]
                                   ELSE turn[j]
    BY <1>7 DEF EndTurn
  <2>2. UNCHANGED <<phase, singleton>>
    BY <1>7 DEF EndTurn
  <2>3. \A j \in Turn : turn'[j].state = "running" => turn'[j] = turn[j]
    BY <2>1
  <2> QED
    BY <2>2, <2>3
<1>8. ASSUME NEW k \in Turn, NEW p \in Proc, NEW t \in Thread, StartTurn(k, p, t)
      PROVE  AgentInv'
  <2>1. PICK r \in Request :
          LET resolved == RequestedType(r)
              format == GetResponseFormat(r.format)
              got == GetAgent(p, resolved, format)
          IN turn' = [turn EXCEPT ![k] =
               [state |-> "running", proc |-> p, thread |-> t, type |-> resolved,
                format |-> format, agent |-> got[1],
                missed |-> {j \in Turn : turn[j].state = "done" /\ turn[j].thread = t}
                             \ History(p, got[1].saver),
                memory |-> Memory(p, got[1].store), saved |-> puts]]
    BY <1>8 DEF StartTurn
  <2> DEFINE agent == GetAgent(p, RequestedType(r), GetResponseFormat(r.format))[1]
  <2>2. General(singleton[p])
    BY <1>8 DEF StartTurn, Up
  <2>3. /\ agent.format = GetResponseFormat(r.format)
        /\ agent.prompt = Prompt(RequestedType(r))
        /\ agent.skills = RecommendedSkills(RequestedType(r))
    BY <2>2, GotAgent
  <2>4. /\ turn'[k].agent = agent
        /\ turn'[k].format = GetResponseFormat(r.format)
        /\ turn'[k].type = RequestedType(r)
        /\ \A j \in Turn \ {k} : turn'[j] = turn[j]
    BY <2>1
  <2> HIDE DEF agent
  <2>5. UNCHANGED <<phase, singleton>>
    BY <1>8 DEF StartTurn, GetAgent
  <2>6. ASSUME NEW j \in Turn, turn'[j].state = "running"
        PROVE  /\ turn'[j].agent.format = turn'[j].format
               /\ turn'[j].agent.prompt = Prompt(turn'[j].type)
               /\ turn'[j].agent.skills = RecommendedSkills(turn'[j].type)
    <3>1. CASE j = k
      BY <2>3, <2>4, <3>1
    <3>2. CASE j # k
      BY <2>4, <2>6, <3>2
    <3> QED
      BY <3>1, <3>2
  <2> QED
    BY <2>5, <2>6
<1>9. CASE UNCHANGED vars
  BY <1>9 DEF vars
<1> QED
  BY <1>1, <1>2, <1>3, <1>4, <1>5, <1>6, <1>7, <1>8, <1>9 DEF Next, Lifespan, TurnStep

(* A turn runs on an agent of the type and format it asked for, with the   *)
(* skills of that type, whatever the turns before it asked for.            *)
THEOREM AgentsAreAsRequested == Spec => []AgentAsRequested
<1>1. AgentInv => AgentAsRequested
  BY DEF AgentInv
<1> QED
  BY TypeInit, TypeNext, AgentInit, AgentNext, <1>1, PTL DEF Spec
-----------------------------------------------------------------------------
(***************************************************************************)
(* Shutdown.  A sandbox that is live and not left over is named by the     *)
(* table, and from teardown on by the list that cleanup_all works off; no  *)
(* turn runs any more that could create another.                           *)
(***************************************************************************)
InTable(p, b) ==
  \E t \in Thread :
    /\ sandboxes[p][t] = b
    /\ phase[p] \in {"cleanup", "stopped"} => t \in thread_ids[p]

Accounted(p) == \A b \in live[p] : b \in leftover[p] \/ InTable(p, b)

StopInv ==
  /\ \A k \in Turn : Running(k) => phase[turn[k].proc] = "up"
  /\ \A p \in Proc :
       /\ phase[p] \in {"up", "teardown"} =>
            saver[p] \in {"memory", "postgres"} /\ singleton[p].saver = saver[p]
       /\ phase[p] \in {"cleanup", "stopped"} /\ pool[p] = "open" =>
            singleton[p].saver = "memory"
       /\ phase[p] = "stopped" => thread_ids[p] = {}
       /\ Accounted(p)

LEMMA StopInit == Init => StopInv
BY DEF Init, StopInv, Accounted, Running, IdleTurn

LEMMA StopNext == TypeInv /\ StopInv /\ [Next]_vars => StopInv'
<1> SUFFICES ASSUME TypeInv, StopInv, [Next]_vars PROVE StopInv'
  OBVIOUS
<1>0. \A k \in Turn : turn[k].state = "running" => turn[k].proc \in Proc
  BY DEF TypeInv, AgentShape, Running
<1> USE DEF StopInv, Accounted, InTable, Goto, seedVars, endVars, backendVars, sandboxVars,
            historyVars, turnVars, Running
<1>1. ASSUME NEW p \in Proc,
             \/ Boot(p) \/ CountAssistants(p) \/ SeedingDone(p) \/ CreateDefault(p)
             \/ CreateRefused(p) \/ SetUpStore(p)
      PROVE  StopInv'
  <2>1. /\ UNCHANGED <<turn, pool, saver, singleton, sandboxVars>>
        /\ \A q \in Proc \ {p} : phase'[q] = phase[q]
        /\ phase[p] \in {"down", "count", "seed", "store"}
        /\ phase'[p] \in {"down", "count", "seed", "store", "saver"}
    BY <1>1 DEF TypeInv, TypeOK, Boot, CountAssistants, SeedingDone, Seeded, CreateDefault,
                CreateRefused, SetUpStore, After
  <2> QED
    BY <1>0, <2>1
<1>2. ASSUME NEW p \in Proc, SetUpSaver(p) PROVE StopInv'
  <2>1. /\ phase[p] = "saver" /\ phase'[p] = "agent"
        /\ \A q \in Proc \ {p} : UNCHANGED <<phase[q], saver[q], pool[q]>>
        /\ UNCHANGED <<turn, singleton, sandboxVars>>
    BY <1>2 DEF TypeInv, TypeOK, SetUpSaver, After
  <2> QED
    BY <1>0, <2>1
<1>3. ASSUME NEW p \in Proc, BuildSingleton(p) PROVE StopInv'
  <2>1. /\ saver' = [saver EXCEPT ![p] = GetCheckpointer(p)]
        /\ GetCheckpointer(p) \in {"memory", "postgres"}
    BY <1>3 DEF TypeInv, TypeOK, BuildSingleton, GetCheckpointer, Savers
  <2>2. /\ saver'[p] = GetCheckpointer(p)
        /\ \A q \in Proc \ {p} : saver'[q] = saver[q]
    BY <2>1 DEF TypeInv, TypeOK
  <2>3. singleton'[p].saver = GetCheckpointer(p)
        /\ \A q \in Proc \ {p} : singleton'[q] = singleton[q]
    BY <1>3, BuildShape DEF BuildSingleton, TypeInv, AgentShape
  <2>4. /\ phase[p] = "agent" /\ phase'[p] = "up"
        /\ \A q \in Proc \ {p} : phase'[q] = phase[q]
        /\ UNCHANGED <<turn, sandboxVars, pool>>
    BY <1>3 DEF TypeInv, TypeOK, BuildSingleton, After
  <2> QED
    BY <1>0, <2>1, <2>2, <2>3, <2>4
<1>4. ASSUME NEW p \in Proc, Stop(p) PROVE StopInv'
  <2>1. /\ phase[p] = "up" /\ phase'[p] = "teardown"
        /\ \A q \in Proc \ {p} : phase'[q] = phase[q]
        /\ \A k \in Turn : Running(k) => turn[k].proc # p
        /\ UNCHANGED <<turn, sandboxVars, pool, saver, singleton>>
    BY <1>4 DEF TypeInv, TypeOK, Stop, Up, OnProc
  <2> QED
    BY <1>0, <2>1
<1>5. ASSUME NEW p \in Proc, Teardown(p) PROVE StopInv'
  <2>1. /\ phase[p] = "teardown" /\ phase'[p] = "cleanup"
        /\ \A q \in Proc \ {p} : UNCHANGED <<phase[q], saver[q], pool[q], thread_ids[q]>>
        /\ UNCHANGED <<turn, singleton, sandboxes, live, leftover>>
        /\ thread_ids'[p] = Registered(p)
    BY <1>5 DEF TypeInv, TypeOK, Teardown, ClosePool
  <2>2. pool'[p] = "open" => saver[p] # "postgres"
    BY <1>5 DEF TypeInv, TypeOK, Teardown, ClosePool
  <2>3. \A b \in live[p] : b # None
    BY ProcessAssumption DEF TypeInv, TypeOK
  <2>4. \A b \in live[p] : b \in leftover[p] \/ \E t \in Registered(p) : sandboxes[p][t] = b
    BY <2>3 DEF Registered
  <2>5. Accounted(p)'
    BY <2>1, <2>4 DEF Registered
  <2> QED
    BY <1>0, <2>1, <2>2, <2>5
<1>6. ASSUME NEW p \in Proc, NEW t \in Thread, CleanUp(p, t) PROVE StopInv'
  <2>1. /\ phase[p] = "cleanup" /\ t \in thread_ids[p]
        /\ UNCHANGED <<turn, phase, pool, saver, singleton>>
        /\ \A q \in Proc \ {p} :
             UNCHANGED <<sandboxes[q], thread_ids[q], live[q], leftover[q]>>
    BY <1>6 DEF TypeInv, TypeOK, CleanUp
  <2>2. /\ \A u \in Thread \ {t} : sandboxes'[p][u] = sandboxes[p][u]
        /\ thread_ids'[p] = thread_ids[p] \ {t}
    BY <1>6 DEF TypeInv, TypeOK, CleanUp
  <2>3. /\ live'[p] \subseteq live[p] /\ leftover[p] \subseteq leftover'[p]
        /\ \/ sandboxes[p][t] \notin live'[p]
           \/ sandboxes[p][t] \in leftover'[p] \cup {None}
    BY <1>6 DEF TypeInv, TypeOK, CleanUp
  <2>4. \A b \in live[p] : b # None
    BY ProcessAssumption DEF TypeInv, TypeOK
  <2>5. ASSUME NEW b \in live'[p], b \notin leftover'[p] PROVE InTable(p, b)'
    <3>1. PICK u \in Thread : sandboxes[p][u] = b /\ u \in thread_ids[p]
      BY <2>1, <2>3, <2>5
    <3>2. u # t
      BY <2>3, <2>4, <2>5, <3>1
    <3> QED
      BY <2>1, <2>2, <3>1, <3>2
  <2>6. \A q \in Proc : Accounted(q)'
    BY <2>1, <2>5
  <2> QED
    BY <1>0, <2>1, <2>6
<1>7. ASSUME NEW p \in Proc, Dispose(p) PROVE StopInv'
  <2>1. /\ phase[p] = "cleanup" /\ phase'[p] = "stopped" /\ thread_ids[p] = {}
        /\ \A q \in Proc \ {p} : phase'[q] = phase[q]
        /\ UNCHANGED <<turn, sandboxVars, pool, saver, singleton>>
    BY <1>7 DEF TypeInv, TypeOK, Dispose
  <2> QED
    BY <1>0, <2>1
<1>8. ASSUME NEW p \in Proc, Exit(p) \/ Crash(p) PROVE StopInv'
  <2>1. Forget(p)
    BY <1>8 DEF Exit, Crash
  <2>2. /\ phase'[p] = "down" /\ live'[p] = {}
        /\ \A q \in Proc \ {p} : UNCHANGED <<phase[q], saver[q], pool[q], singleton[q],
             sandboxes[q], thread_ids[q], live[q], leftover[q]>>
    BY <2>1 DEF TypeInv, TypeOK, AgentShape, Forget
  <2>3. \A k \in Turn : turn'[k].state = "running" => turn'[k] = turn[k] /\ turn[k].proc # p
    <3>1. CASE Exit(p)
      BY <3>1 DEF Exit
    <3>2. CASE Crash(p)
      BY <3>2 DEF Crash, OnProc, TypeInv, AgentShape
    <3> QED
      BY <1>8, <3>1, <3>2
  <2> QED
    BY <1>0, <2>2, <2>3
<1>9. ASSUME \/ \E p \in Proc : PutMemory(p)
             \/ \E k \in Turn : FindSandbox(k)
             \/ UNCHANGED vars
      PROVE  StopInv'
  <2>1. UNCHANGED <<turn, phase, pool, saver, singleton, sandboxVars>>
    BY <1>9 DEF PutMemory, FindSandbox, vars
  <2> QED
    BY <2>1
<1>10. ASSUME NEW k \in Turn, RegisterSandbox(k) PROVE StopInv'
  <2>0. PICK p \in Proc, t \in Thread : p = turn[k].proc /\ t = turn[k].thread
    BY <1>10 DEF RegisterSandbox, TypeInv, AgentShape
  <2>1. /\ phase[p] = "up"
        /\ UNCHANGED <<turn, phase, pool, saver, singleton, thread_ids>>
    BY <1>10, <2>0 DEF RegisterSandbox
  <2>2. /\ \A q \in Proc \ {p} : UNCHANGED <<sandboxes[q], live[q], leftover[q]>>
        /\ sandboxes'[p][t] = k
        /\ \A u \in Thread \ {t} : sandboxes'[p][u] = sandboxes[p][u]
        /\ live'[p] = live[p] \cup {k}
        /\ leftover'[p] = leftover[p] \cup ({sandboxes[p][t]} \ {None})
    BY <1>10, <2>0 DEF RegisterSandbox, TypeInv, TypeOK
  <2>3. \A b \in live[p] : b # None
    BY <2>1, ProcessAssumption DEF TypeInv, TypeOK
  <2>4. ASSUME NEW b \in live'[p], b \notin leftover'[p] PROVE InTable(p, b)'
    <3>1. CASE b = k
      BY <2>1, <2>2, <3>1
    <3>2. CASE b # k
      <4>1. PICK u \in Thread : sandboxes[p][u] = b
        BY <2>1, <2>2, <2>4, <3>2
      <4>2. u # t
        BY <2>2, <2>3, <2>4, <3>2, <4>1
      <4> QED
        BY <2>1, <2>2, <4>1, <4>2
    <3> QED
      BY <3>1, <3>2
  <2>5. \A q \in Proc : Accounted(q)'
    BY <2>1, <2>2, <2>4
  <2> QED
    BY <2>1, <2>5
<1>11. ASSUME NEW k \in Turn, EndTurn(k) PROVE StopInv'
  <2>1. \A j \in Turn : turn'[j] = IF j = k THEN [state |-> "done", thread |-> turn[k].thread]
                                   ELSE turn[j]
    BY <1>11 DEF TypeInv, AgentShape, EndTurn
  <2>2. UNCHANGED <<phase, pool, saver, singleton, sandboxVars>>
    BY <1>11 DEF EndTurn
  <2>3. \A j \in Turn : turn'[j].state = "running" => turn'[j] = turn[j]
    BY <2>1
  <2> QED
    BY <2>2, <2>3
<1>12. ASSUME NEW k \in Turn, NEW p \in Proc, NEW t \in Thread, StartTurn(k, p, t)
       PROVE  StopInv'
  <2>1. \A j \in Turn : turn'[j] = turn[j] \/ turn'[j].proc = p
    BY <1>12 DEF TypeInv, AgentShape, StartTurn
  <2>2. singleton' = singleton
    BY <1>12 DEF StartTurn, GetAgent, TypeInv, AgentShape
  <2>3. phase[p] = "up" /\ UNCHANGED <<phase, pool, saver, sandboxVars>>
    BY <1>12 DEF StartTurn, Up
  <2> QED
    BY <2>1, <2>2, <2>3
<1> QED
  BY <1>1, <1>2, <1>3, <1>4, <1>5, <1>6, <1>7, <1>8, <1>9, <1>10, <1>11, <1>12
     DEF Next, Lifespan, TurnStep

(* However many sandboxes a process has, and whichever of their teardowns  *)
(* fail, when it has stopped in order only the replaced ones and those     *)
(* very ones are left, whether its pool closed or not; and a pool that     *)
(* nobody tried to close belongs to a process that had fallen back to      *)
(* checkpoints in memory.                                                  *)
THEOREM StoppedProcessesAreClean == Spec => []StoppedIsClean
<1>1. StopInv => StoppedIsClean
  BY DEF StopInv, Accounted, InTable, StoppedIsClean
<1> QED
  BY TypeInit, TypeNext, StopInit, StopNext, <1>1, PTL DEF Spec
=============================================================================
