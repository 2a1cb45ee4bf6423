------------------------------ MODULE Process ------------------------------
(***************************************************************************)
(* The life of the backend processes that share one database: start-up and *)
(* shutdown (main.py), the seeding of the default assistants               *)
(* (assistant_service.py), the checkpointer and the store of each process  *)
(* (middleware.py), the agents built on them (agent_service.py,            *)
(* AgentFactory), and the sandboxes (sandbox.py) that turns use.           *)
(*                                                                         *)
(* A step is one database transaction, or code between two awaits; agents  *)
(* use sandboxes from worker threads, so a lookup and the write that       *)
(* follows it are two steps.  A shutdown waits for the turns under way, as *)
(* uvicorn does; a crash waits for nothing.  Left out: users, the contents *)
(* of turns and files, and what ChatStream says of a turn.                 *)
(***************************************************************************)
EXTENDS Naturals, Sequences, FiniteSets, AgentFactory

CONSTANTS Proc,         \* processes of the service
          Thread,
          MaxTurns,     \* bound: turns, numbered as they start
          Request,      \* what requests ask for: a type, a format, an assistant
          MaxEnds,      \* bound: shutdowns and crashes
          MaxPuts,      \* bound: saves through PUT /memory
          None, Creating

(* DEFAULT_ASSISTANTS, in the order they are created.                      *)
DEFAULT_ASSISTANTS == <<"general", "researcher", "coder", "writer">>
Defaults == DOMAIN DEFAULT_ASSISTANTS

Turn == 1 .. MaxTurns

ASSUME ProcessAssumption ==
  /\ None \notin Turn
  /\ {MaxTurns, MaxEnds, MaxPuts} \subseteq Nat
  /\ \A r \in Request : r.assistant \in Nat

VARIABLES
  table,        \* default assistants in the database
  interrupted,  \* history: a process crashed while it seeded
  fellBack,     \* history: a process had to keep its checkpoints in memory
  ends,         \* shutdowns and crashes so far
  phase,        \* of each process
  next,         \* the default it creates next
  saver, store, \* _checkpointer; _memory_store, numbered as they are created
  pool,         \* what _checkpointer_pool was set to, closed or not
  singleton,    \* AgentService._agent
  sandboxes,    \* SandboxManager._sandboxes: the turn that created each
  thread_ids,   \* what cleanup_all has left to clean up
  live,         \* sandboxes created and not torn down
  leftover,     \* history: those another replaced, or whose teardown failed
  postgres,     \* turns whose state is in the database
  ram,          \* turns whose state is in a process's MemorySaver
  memory,       \* last save in a process's current store
  puts,         \* saves so far
  turn,         \* of each turn: where it is and what it runs on
  box           \* the sandbox it uses

seedVars == <<table, interrupted, next>>
endVars == <<ends, fellBack>>
backendVars == <<saver, store, pool, singleton, memory>>
sandboxVars == <<sandboxes, thread_ids, live, leftover>>
historyVars == <<postgres, ram, puts>>
turnVars == <<turn, box>>
vars == <<seedVars, endVars, phase, backendVars, sandboxVars, historyVars, turnVars>>

NoAgent == [prompt |-> "none"]
IdleTurn == [state |-> "idle"]
Running(k) == turn[k].state = "running"
OnProc(p) == {k \in Turn : Running(k) /\ turn[k].proc = p}

Savers == {"none", "memory", "postgres"}
Pools == {"none", "open", "closed", "stuck"}
Up == "up"

TypeOK ==
  /\ table \subseteq Defaults
  /\ interrupted \in BOOLEAN /\ fellBack \in BOOLEAN
  /\ ends \in 0 .. MaxEnds
  /\ phase \in [Proc -> {"down", "count", "seed", "store", "saver", "agent", "up",
                         "teardown", "cleanup", "stopped"}]
  /\ next \in [Proc -> 1 .. Len(DEFAULT_ASSISTANTS) + 1]
  /\ saver \in [Proc -> Savers]
  /\ store \in [Proc -> 0 .. 2]
  /\ pool \in [Proc -> Pools]
  /\ \A p \in Proc : singleton[p] = NoAgent \/ singleton[p].saver \in Savers \ {"none"}
  /\ sandboxes \in [Proc -> [Thread -> Turn \cup {None}]]
  /\ thread_ids \in [Proc -> SUBSET Thread]
  /\ live \in [Proc -> SUBSET Turn] /\ leftover \in [Proc -> SUBSET Turn]
  /\ postgres \subseteq Turn /\ ram \in [Proc -> SUBSET Turn]
  /\ puts \in 0 .. MaxPuts /\ memory \in [Proc -> 0 .. MaxPuts]
  /\ \A k \in Turn : turn[k].state \in {"idle", "running", "done", "lost"}
  /\ box \in [Turn -> Turn \cup {None, Creating}]

Init ==
  /\ table = {} /\ interrupted = FALSE /\ next = [p \in Proc |-> 1]
  /\ ends = 0 /\ fellBack = FALSE
  /\ phase = [p \in Proc |-> "down"]
  /\ saver = [p \in Proc |-> "none"] /\ store = [p \in Proc |-> 0]
  /\ pool = [p \in Proc |-> "none"]
  /\ singleton = [p \in Proc |-> NoAgent]
  /\ memory = [p \in Proc |-> 0]
  /\ sandboxes = [p \in Proc |-> [t \in Thread |-> None]]
  /\ thread_ids = [p \in Proc |-> {}]
  /\ live = [p \in Proc |-> {}] /\ leftover = [p \in Proc |-> {}]
  /\ postgres = {} /\ ram = [p \in Proc |-> {}] /\ puts = 0
  /\ turn = [k \in Turn |-> IdleTurn] /\ box = [k \in Turn |-> None]
-----------------------------------------------------------------------------
(***************************************************************************)
(* Start-up, in the order of lifespan().                                   *)
(***************************************************************************)

(* Bug: the agent is built before the backends are set up.                 *)
AgentFirst == [seed |-> "agent", agent |-> "store", store |-> "saver", saver |-> "up"]

After == [seed |-> "store", store |-> "saver", saver |-> "agent", agent |-> "up"]

Goto(p, ph) == phase' = [phase EXCEPT ![p] = ph]

(* The service starts a process that is not running.                       *)
Boot(p) ==
  /\ phase[p] = "down"
  /\ Goto(p, "count")
  /\ UNCHANGED <<seedVars, endVars, backendVars, sandboxVars, historyVars, turnVars>>

(* seed_default_assistants: nothing to do if the table has rows.           *)
CountAssistants(p) ==
  /\ phase[p] = "count"
  /\ Goto(p, IF table # {} THEN After.seed ELSE "seed")
  /\ UNCHANGED <<seedVars, endVars, backendVars, sandboxVars, historyVars, turnVars>>

(* Bug: the count is taken again before each of them.                      *)
CountsAgain(p) == phase[p] = "seed" /\ (next[p] > Len(DEFAULT_ASSISTANTS) \/ table # {})

Seeded(p) == phase[p] = "seed" /\ next[p] > Len(DEFAULT_ASSISTANTS)

SeedingDone(p) ==
  /\ Seeded(p)
  /\ Goto(p, After.seed)
  /\ next' = [next EXCEPT ![p] = 1]
  /\ UNCHANGED <<table, interrupted, endVars, backendVars, sandboxVars, historyVars, turnVars>>

(* Bug: it goes on after the last of them.                                 *)
CreatePastEnd(p) ==
  /\ phase[p] = "seed"
  /\ next[p] \notin table
  /\ table' = table \cup {next[p]}
  /\ next' = [next EXCEPT ![p] = @ + 1]
  /\ UNCHANGED <<interrupted, endVars, phase, backendVars, sandboxVars, historyVars, turnVars>>

(* Each default is created and committed by itself.                        *)
CreateDefault(p) ==
  /\ phase[p] = "seed"
  /\ next[p] \in Defaults \ table
  /\ table' = table \cup {next[p]}
  /\ next' = [next EXCEPT ![p] = @ + 1]
  /\ UNCHANGED <<interrupted, endVars, phase, backendVars, sandboxVars, historyVars, turnVars>>

(* Bug: a default that exists is no error.                                 *)
PassOver(p) ==
  /\ phase[p] = "seed"
  /\ next[p] \in table
  /\ next' = [next EXCEPT ![p] = @ + 1]
  /\ UNCHANGED <<table, interrupted, endVars, phase, backendVars, sandboxVars, historyVars,
                 turnVars>>

(* Its name is taken: another process seeds.  The start-up fails.          *)
CreateRefused(p) ==
  /\ phase[p] = "seed"
  /\ next[p] \in table
  /\ Goto(p, "down")
  /\ next' = [next EXCEPT ![p] = 1]
  /\ UNCHANGED <<table, interrupted, endVars, backendVars, sandboxVars, historyVars, turnVars>>

(* setup_persistent_backends: a new store ...                              *)
SetUpStore(p) ==
  /\ phase[p] = "store"
  /\ store' = [store EXCEPT ![p] = @ + 1]
  /\ memory' = [memory EXCEPT ![p] = 0]
  /\ Goto(p, After.store)
  /\ UNCHANGED <<seedVars, endVars, saver, pool, singleton, sandboxVars, historyVars, turnVars>>

(* ... and the checkpointer, in memory if the database cannot be set up,   *)
(* which may be after a pool was opened for it: that pool stays open.      *)
SetUpSaver(p) ==
  /\ phase[p] = "saver"
  /\ \E s \in {"postgres", "memory"}, opened \in BOOLEAN :
       /\ s = "postgres" => opened
       /\ saver' = [saver EXCEPT ![p] = s]
       /\ fellBack' = (fellBack \/ s = "memory")
       /\ pool' = [pool EXCEPT ![p] = IF opened THEN "open" ELSE "none"]
  /\ Goto(p, After.saver)
  /\ UNCHANGED <<seedVars, ends, store, singleton, memory, sandboxVars, historyVars,
                 turnVars>>

(* get_checkpointer and get_memory_store, which create what is missing.    *)
GetCheckpointer(p) == IF saver[p] = "none" THEN "memory" ELSE saver[p]

GetMemoryStore(p) == IF store[p] = 0 THEN 1 ELSE store[p]

Build(p, type, format) ==
  CreateDeepAgent(type, format, GetCheckpointer(p), GetMemoryStore(p))

(* agent_service.agent, built once.                                        *)
BuildSingleton(p) ==
  /\ phase[p] = "agent"
  /\ saver' = [saver EXCEPT ![p] = GetCheckpointer(p)]
  /\ store' = [store EXCEPT ![p] = GetMemoryStore(p)]
  /\ singleton' = [singleton EXCEPT ![p] = Build(p, "none", "none")]
  /\ Goto(p, After.agent)
  /\ UNCHANGED <<seedVars, endVars, pool, memory, sandboxVars, historyVars, turnVars>>
-----------------------------------------------------------------------------
(***************************************************************************)
(* Turns and the memory endpoint, while the process is up.                 *)
(***************************************************************************)

(* What a request resolves to: its own type, or its assistant's, if it     *)
(* names one that exists.  The defaults have a type and no format.         *)
RequestedType(r) ==
  IF r.type = "none" /\ r.assistant \in table THEN DEFAULT_ASSISTANTS[r.assistant]
                                              ELSE r.type

(* Bug: an agent built for one request is kept for the next.               *)
KeptAgent(p, type, format) ==
  LET agent == IF type \in {"none", "general"} /\ format = "none" THEN singleton[p]
                                                               ELSE Build(p, type, format)
  IN <<agent, agent>>

(* get_agent: the agent of the request, and the singleton it leaves.       *)
GetAgent(p, type, format) ==
  <<IF type \in {"none", "general"} /\ format = "none" THEN singleton[p]
                                                       ELSE Build(p, type, format),
    singleton[p]>>

(* What a saver of process p holds.                                        *)
History(p, s) == IF s = "postgres" THEN postgres ELSE ram[p]

(* What a store of process p holds: one that was replaced, nothing.        *)
Memory(p, s) == IF s = store[p] THEN memory[p] ELSE 0

(* send_message: the agent is chosen, reads its checkpoint and AGENTS.md.  *)
StartTurn(k, p, t) ==
  /\ phase[p] = Up
  /\ turn[k] = IdleTurn /\ \A j \in 1 .. k - 1 : turn[j] # IdleTurn
  /\ \E r \in Request :
       LET resolved == RequestedType(r)
           format == GetResponseFormat(r.format)
           got == GetAgent(p, resolved, format)
       IN /\ turn' = [turn EXCEPT ![k] =
               [state |-> "running", proc |-> p, thread |-> t, type |-> resolved,
                format |-> format, agent |-> got[1],
                missed |-> {j \in Turn : turn[j].state = "done" /\ turn[j].thread = t}
                             \ History(p, got[1].saver),
                memory |-> Memory(p, got[1].store), saved |-> puts]]
          /\ singleton' = [singleton EXCEPT ![p] = got[2]]
  /\ UNCHANGED <<seedVars, endVars, phase, saver, store, pool, memory, sandboxVars, historyVars,
                 box>>

(* _backend_factory: get_or_create finds the thread's sandbox ...          *)
FindSandbox(k) ==
  /\ Running(k)
  /\ box[k] = None
  /\ LET found == sandboxes[turn[k].proc][turn[k].thread]
     IN box' = [box EXCEPT ![k] = IF found = None THEN Creating ELSE found]
  /\ UNCHANGED <<seedVars, endVars, phase, backendVars, sandboxVars, historyVars, turn>>

(* ... or creates one and writes it, over another's if they raced: that    *)
(* one stays with its turn, and no table names it any more.                *)
RegisterSandbox(k) ==
  /\ Running(k)
  /\ box[k] = Creating
  /\ box' = [box EXCEPT ![k] = k]
  /\ LET p == turn[k].proc
         t == turn[k].thread
     IN /\ sandboxes' = [sandboxes EXCEPT ![p][t] = k]
        /\ live' = [live EXCEPT ![p] = @ \cup {k}]
        /\ leftover' = [leftover EXCEPT ![p] = @ \cup ({sandboxes[p][t]} \ {None})]
  /\ UNCHANGED <<seedVars, endVars, phase, backendVars, thread_ids, historyVars, turn>>

(* External: the graph saves its state where its saver does.               *)
EndTurn(k) ==
  /\ Running(k)
  /\ box[k] # Creating
  /\ turn' = [turn EXCEPT ![k] = [state |-> "done", thread |-> @.thread]]
  /\ box' = [box EXCEPT ![k] = None]
  /\ LET p == turn[k].proc
     IN IF turn[k].agent.saver = "postgres"
        THEN postgres' = postgres \cup {k} /\ UNCHANGED ram
        ELSE ram' = [ram EXCEPT ![p] = @ \cup {k}] /\ UNCHANGED postgres
  /\ UNCHANGED <<seedVars, endVars, phase, backendVars, sandboxVars, puts>>

(* PUT /memory, in the process that happens to serve it.                   *)
PutMemory(p) ==
  /\ phase[p] = Up
  /\ puts < MaxPuts
  /\ puts' = puts + 1
  /\ memory' = [memory EXCEPT ![p] = puts']
  /\ UNCHANGED <<seedVars, endVars, phase, saver, store, pool, singleton, sandboxVars, postgres,
                 ram, turnVars>>
-----------------------------------------------------------------------------
(***************************************************************************)
(* Shutdown, and crashes.                                                  *)
(***************************************************************************)
Stop(p) ==
  /\ phase[p] = Up
  /\ OnProc(p) = {}
  /\ ends < MaxEnds
  /\ ends' = ends + 1
  /\ Goto(p, "teardown")
  /\ UNCHANGED <<seedVars, fellBack, backendVars, sandboxVars, historyVars, turnVars>>

Registered(p) == {t \in Thread : sandboxes[p][t] # None}

(* Bug: an error of closing the pool ends the shutdown.                    *)
UncaughtClose(p) ==
  \/ saver[p] # "postgres" /\ UNCHANGED pool /\ Goto(p, "cleanup")
  \/ saver[p] = "postgres" /\ pool' = [pool EXCEPT ![p] = "closed"] /\ Goto(p, "cleanup")
  \/ saver[p] = "postgres" /\ pool' = [pool EXCEPT ![p] = "stuck"] /\ Goto(p, "stopped")

(* Closing the pool, if it is in use: an error is logged, and the pool     *)
(* may stay open.                                                          *)
ClosePool(p) ==
  /\ \/ saver[p] # "postgres" /\ UNCHANGED pool
     \/ saver[p] = "postgres" /\ pool' = [pool EXCEPT ![p] = "closed"]
     \/ saver[p] = "postgres" /\ pool' = [pool EXCEPT ![p] = "stuck"]
  /\ Goto(p, "cleanup")

(* teardown_persistent_backends; cleanup_all then takes the threads that   *)
(* have a sandbox.                                                         *)
Teardown(p) ==
  /\ phase[p] = "teardown"
  /\ ClosePool(p)
  /\ saver' = [saver EXCEPT ![p] = "none"]
  /\ store' = [store EXCEPT ![p] = 0]
  /\ thread_ids' = [thread_ids EXCEPT ![p] = Registered(p)]
  /\ UNCHANGED <<seedVars, endVars, singleton, memory, sandboxes, live, leftover, historyVars,
                 turnVars>>

(* cleanup: the sandbox is out of the table before it is torn down; an     *)
(* error is logged, and the next thread follows.                           *)
CleanUp(p, t) ==
  /\ phase[p] = "cleanup"
  /\ t \in thread_ids[p]
  /\ thread_ids' = [thread_ids EXCEPT ![p] = @ \ {t}]
  /\ sandboxes' = [sandboxes EXCEPT ![p][t] = None]
  /\ \/ live' = [live EXCEPT ![p] = @ \ {sandboxes[p][t]}] /\ UNCHANGED leftover
     \/ /\ leftover' = [leftover EXCEPT ![p] = @ \cup ({sandboxes[p][t]} \ {None})]
        /\ UNCHANGED live
  /\ UNCHANGED <<seedVars, endVars, phase, backendVars, historyVars, turnVars>>

(* The list is done with: the database engine is disposed of, and the      *)
(* process ends.                                                           *)
Dispose(p) ==
  /\ phase[p] = "cleanup"
  /\ thread_ids[p] = {}
  /\ Goto(p, "stopped")
  /\ UNCHANGED <<seedVars, endVars, backendVars, sandboxVars, historyVars, turnVars>>

(* What a process loses when it is no more.                                *)
Forget(p) ==
  /\ Goto(p, "down")
  /\ saver' = [saver EXCEPT ![p] = "none"] /\ store' = [store EXCEPT ![p] = 0]
  /\ pool' = [pool EXCEPT ![p] = "none"]
  /\ singleton' = [singleton EXCEPT ![p] = NoAgent]
  /\ memory' = [memory EXCEPT ![p] = 0]
  /\ sandboxes' = [sandboxes EXCEPT ![p] = [t \in Thread |-> None]]
  /\ thread_ids' = [thread_ids EXCEPT ![p] = {}]
  /\ live' = [live EXCEPT ![p] = {}] /\ leftover' = [leftover EXCEPT ![p] = {}]
  /\ ram' = [ram EXCEPT ![p] = {}]
  /\ next' = [next EXCEPT ![p] = 1]

Exit(p) ==
  /\ phase[p] = "stopped"
  /\ Forget(p)
  /\ UNCHANGED <<table, interrupted, endVars, postgres, puts, turnVars>>

Crash(p) ==
  /\ phase[p] # "down"
  /\ ends < MaxEnds
  /\ ends' = ends + 1
  /\ Forget(p)
  /\ interrupted' = (interrupted \/ phase[p] = "seed")
  /\ turn' = [k \in Turn |-> IF k \in OnProc(p) THEN [state |-> "lost"] ELSE turn[k]]
  /\ box' = [k \in Turn |-> IF k \in OnProc(p) THEN None ELSE box[k]]
  /\ UNCHANGED <<table, fellBack, postgres, puts>>
-----------------------------------------------------------------------------
Lifespan(p) ==
  \/ Boot(p) \/ CountAssistants(p) \/ SeedingDone(p) \/ CreateDefault(p) \/ CreateRefused(p)
  \/ SetUpStore(p) \/ SetUpSaver(p) \/ BuildSingleton(p)
  \/ Teardown(p) \/ (\E t \in Thread : CleanUp(p, t)) \/ Dispose(p) \/ Exit(p)

TurnStep(k) == FindSandbox(k) \/ RegisterSandbox(k) \/ EndTurn(k)

Next ==
  \/ \E p \in Proc : Lifespan(p) \/ PutMemory(p) \/ Stop(p) \/ Crash(p)
  \/ \E k \in Turn : TurnStep(k) \/ \E p \in Proc, t \in Thread : StartTurn(k, p, t)

Spec == Init /\ [][Next]_vars

(* A process that starts or stops goes on, and the service restarts one    *)
(* that ended.                                                             *)
FairSpec == Spec /\ \A p \in Proc : WF_vars(Lifespan(p))
-----------------------------------------------------------------------------
(* However many processes find the table empty, the defaults are all       *)
(* created, unless a process crashed while it was creating them            *)
(* (assistant_service.py, seed_default_assistants).                        *)
SeedCompletes == <>(interrupted \/ table = Defaults)

(* One process gets past the first default: the others fail on its name.   *)
OneSeeder ==
  Cardinality({p \in Proc : phase[p] = "seed" /\ next[p] > 1 /\ table # Defaults}) <= 1

(* A turn sees every turn of its thread that was done when it started,     *)
(* if no process had to fall back to a checkpointer in memory, whichever   *)
(* process and agent ran them, and across restarts.                        *)
HistoryKept ==
  ~ fellBack =>
    \A k \in Turn : Running(k) => turn[k].missed = {}

(* A turn runs on an agent of the type and the format it asked for,        *)
(* whatever the turns before it asked for (agent_service.py: the           *)
(* "singleton cannot be shared because it would be locked to one schema"), *)
(* with the skills that the assistant of that type was given.              *)
AgentAsRequested ==
  \A k \in Turn : Running(k) =>
    /\ turn[k].agent.format = turn[k].format
    /\ turn[k].agent.prompt = Prompt(turn[k].type)
    /\ turn[k].agent.skills = RecommendedSkills(turn[k].type)

(* A process that has stopped in order leaves no sandbox behind but those  *)
(* that another replaced in the table (sandbox.py: "the first backend is   *)
(* abandoned") and those whose own teardown failed: neither another's      *)
(* failure nor a pool that does not close keeps one alive.  It leaves its  *)
(* pool open, without having tried to close it, only if it served with     *)
(* checkpoints in memory.                                                  *)
StoppedIsClean ==
  \A p \in Proc : phase[p] = "stopped" =>
    /\ live[p] \subseteq leftover[p]
    /\ pool[p] = "open" => singleton[p].saver = "memory"

(* What factory.py says of the memory of agents ("ensuring agents always   *)
(* see the latest content"): a turn reads the last saved AGENTS.md.        *)
LatestMemorySeen == \A k \in Turn : Running(k) => turn[k].memory = turn[k].saved
=============================================================================
