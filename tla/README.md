# A TLA+ model of Symphony's chat turns

Symphony is a chat application around LangGraph agents: a FastAPI backend
(`backend/app`) runs an agent for each message and streams its events, a Next.js
page (`frontend`) shows them, and tool calls that the configuration names in
`interrupt_on` stop the run until a person approves, edits or rejects them.
This directory models the parts in which several actors meet: what TLC checks
on small instances, and what TLAPS proves for every instance.

## 1. The system

| Component | State it keeps | Operations | Talks to |
|---|---|---|---|
| Turn streaming and approval: `services/agent_service.py`, `api/routes/chat.py` | `_pending_interrupts` (thread id -> entry with an event and a decision), the local state of each stream, the singleton agent | `chat_stream`, `stream_response`, `submit_approval_decision`, `get_pending_approval`, `get_agent` | the page over SSE and POST, the graph, the database |
| Event adapter: `agents/deepagents_adapter.py`, `services/sse.py` | pending tool calls of a stream, the files emitted as artifacts | one translation per chunk, a scan of the workspace | `stream_response` |
| Chat page: `components/chat/ChatInterface.tsx` and its children | current thread, loading flags, messages, approval dialog, abort controller | send, retry, stop, select thread, new conversation, load, decide, one handler per event | the chat, thread and approval endpoints |
| Agent memory: `agents/middleware.py`, `routes/memory.py` | the store's `AGENTS.md` of each user, the checkpointer and its pool | set up, tear down, get, put, seed, the agent's own writes | modal, turns (`memory_updated`), lifespan |
| Memory modal: `MemoryModal.tsx` | content, saved content, status, timer | open, edit, save, reset, close | the memory endpoints |
| Session: `lib/api.ts`, `AuthProvider.tsx`, `routes/auth.py`, `api/deps.py` | token, shared refresh promise, accounts | request with a retry, refresh, restore, login, logout, register | every endpoint |
| Rate limiter: `api/deps.py` | sorted set per user and endpoint in Redis | one check per request | Redis, which may be away |
| Sandboxes and lifespan: `agents/sandbox.py`, `main.py` | thread id -> backend | get or create, clean up, start-up, shutdown | tools on worker threads |
| Threads: `thread_service.py`, `routes/threads.py`, `ConversationSidebar.tsx` | rows | create, get, update, delete, list | page, turns |
| Assistants: `assistant_service.py`, `routes/assistants.py` | rows, defaults | seed, create, get, update, delete, list | lifespan, turns |
| Skills: `skill_service.py`, `routes/skills.py`, `agents/skills.py` | rows, directories | create, get, update, delete, list, discover, resolve | assistants, factory |
| Agent factory: `agents/factory.py`, `subagents.py`, `prompts`, `response_formats.py` | none | choice of tools, skills, prompts, subagents, backends | services |
| Tools: `agents/tools/*` | the table `file_artifacts` | create, read, write, edit, delete, list files; search | the graph, the adapter |

What is hard here:

* **A question is addressed by thread, not by its id.** The map has one slot per
  thread, the request of a decision carries only the thread id, and two streams
  may run on one thread.
* **A wait with three ends**: a decision, a five-minute timer, a cancelled
  stream. `asyncio.wait_for` may time out after the event was set, when the
  timer fires before the generator runs again.
* **Persistence after the fact**: the answer is saved after `message_end` was
  sent, and not at all if the stream was cancelled or failed.
* **The page mixes three clocks**: stream events, responses to its own requests
  and the user; handlers use state captured before an `await`.
* **State in process memory**: the map of interrupts and the memory store do
  not survive a restart, and production runs several processes.
* **Read, then write**: accounts, defaults, assistants, files and sandboxes are
  looked up in one step and written in another, mostly without a constraint in
  the database behind them.
* **Shared slots**: one refresh promise for all requests of a page, one agent
  for all plain turns, one workspace for all threads.

What makes the components correct:

* *Approval*: a paused call runs only with the consent of a person who looked at
  a question of its thread; the calls of the interrupt that is asked about get
  exactly one decision each; a question does not outlive its stream; every turn
  ends; an answer is in the database, or an error was reported.
* *Page*: every stream being read can be stopped; loading ends; the dialog shows
  a question that can be answered; the messages are the selected thread's.
* *Memory*: a save is not lost; the update notice means an update by the agent;
  the modal never shows text as saved that is not.
* *Session*: one refresh at a time, one retry per request, one account per
  address, and every request ends. *Limiter*: nobody is refused who did not
  exceed the limit.
* *Processes*: the defaults are created once and completely; turns see the
  history of their thread and run on the agent they asked for; a process that
  stops leaves behind no more than what itself could not be closed.
* *Rows*: what users change at the same time composes, what is deleted stays
  deleted, nobody changes another's row, and nobody sees one but with an
  assistant that is linked to it.
* *Files and artifacts*: calls that follow each other add up, reads are current,
  and the page is shown what was stored.

## 2. Modules

| Module | What it is |
|---|---|
| `ApprovalGate` | abstract: a question is open, acknowledged or settled; what an approval promises |
| `ChatStream` | the turns of the backend, in full detail |
| `ChatStreamMC` | symmetry sets for TLC |
| `ChatStreamProofs` | the theorems about `ChatStream` |
| `ChatStreamRefines` | the proof that `ChatStream` implements `ApprovalGate` |
| `ChatClient` | the chat page, with the part of the backend that answers it |
| `AgentsMemory` | the user's memory file: store, endpoints, turns that watch it, and modal |
| `Session` | a page's requests with token, refresh and retry; accounts; the rate limiter |
| `AgentFactory` | pure: what an agent is made of |
| `Process` | processes on one database: start-up, seeding, backends, agents, sandboxes, shutdown, crashes; extends `AgentFactory` |
| `ProcessMC` | the requests of `Process` for TLC |
| `Library` | threads, assistants and skills under concurrent requests |
| `Artifacts` | the file tools, and the artifacts the page is told of |
| `ChatClientProofs`, `AgentsMemoryProofs`, `SessionProofs`, `ProcessProofs`, `LibraryProofs`, `ArtifactsProofs` | the theorems about the module each is named after |

### ChatStream

One stream is one call of `POST /chat/stream`. `pc` is where its handler or
generator is suspended: *accepted* (the user's message is saved), *running* the
graph, *asked* (the entry is in the map, `approval_required` is being sent),
*waiting* in `wait_for`, *decided*, *ended* (the answer is to be saved),
*teardown* (cancelled, the finally block is to run), or over (*done*, *failed*,
*closed*). An action is the code between two awaits or yields, so that the
interleavings of the event loop, and no others, are those of the model.
`pending` is `_pending_interrupts`; `decision` and `event` are the fields of a
stream's own `_PendingInterrupt`, which it goes on holding after another stream
has replaced it in the map. `interrupt` is the local `interrupt_data`.

| Code | Actions |
|---|---|
| `chat_stream` up to the response | `Accept` |
| `stream_response`: chunks | `Start`, `Token`, `SubAgentStart`, `Update`, `Interrupt`, `Fail` |
| ... the end of a run | `EndRun`, `Ask` |
| ... the wait | `Wait`, `Wake`, `Timeout`, `Resume` |
| `_event_generator` after the loop | `Save`, `SaveFails`, `NothingToSave` |
| cancellation and the finally block | `Disconnect`, `Teardown` |
| a new process | `Restart` |
| `submit_approval_decision`, `resolve_interrupt` | `SendDecision` (the page), `Resolve`, `NotFound` |

`Timeout` does not ask for an unset event: the timer's callback and the request
handler may both run before the waiting generator does, and `wait_for` then
raises `TimeoutError` although the event was set.

The graph is a library: it yields any sequence of chunks, may pause on several
interrupts at once, of several calls each (`paused`, a sequence of numbers of
calls), may raise and at some point ends. Interrupts come in one chunk or in
several, each of which lists all there are, in any order. A tool call that runs
beside the paused one yields its update after the interrupt.

`aim` (the question the user was looking at), `hit` (the question whose entry a
request reached), `settled`, `shown` and `overlapped` are read by properties
only.

Abstractions: text, arguments and tool names are left out; a decision is one of
its kinds; calls of one interrupt are counted, since `_build_resume_command`
decides them together. When an update holds several interrupts the adapter
takes the first ("multiple simultaneous interrupts are rare"), and so does the
model: `interrupt` is the number of its calls, and `OneDecisionPerCall` says
that what is sent are the decisions of one of the interrupts, not that the graph
gets as many as it waits for. What a graph does with fewer is outside the code:
the chunks that follow (interrupts again, an error, an end) cover all it may do.

### ChatClient

A step is a handler of `ChatInterface` up to its next `await`, together with
React's effect on `[currentThreadId, isLoading]`, which asks for the messages of
the thread (`Rendered`). `reader` is where each call of `handleSend` is,
`controller` is `abortControllerRef`, `load` the calls of `loadThreadMessages`
in flight, with the answer fixed when the server sends it, `post` the approval
requests. The modal dialog covers everything but the keyboard: Ctrl+N starts a
new conversation under it. The backend is reduced to the phases of a turn;
events are read when they are sent, so no order of events is invented that a
connection would not give, while requests and their responses take time. They
also fail: a message is refused (`RequestFails`), a connection breaks before the
message arrives, while it is answered or after the turn (`ConnectionFails`), a
decision is refused, lost, or set with its response lost (`DecisionFails`). A
message is the turn it belongs to. A thread deleted under the page (the 404 of a
load) and the panels for tools, tasks, artifacts and subagents are left out.

### AgentsMemory

The store's file, the turns that watch it, and the modal. `file` is the user's
item in `_memory_store`, an `InMemoryStore`: its awaits do not suspend, so that
an endpoint is one step, while the agent's edit, on a worker thread, reads and
writes in two (`ReadForEdit`, `WriteEdit`, external). A restart empties the
store. `turn` and `before` are the part of `_event_generator` that compares
`modified_at`. The modal is `open`, `content`, `savedContent` and `status`; its
load is cancelled when it closes, its saves are not; each save that returns arms
the timer in the ref, replacing it, and one that is in no ref (`stray`).
Timers are not ordered by time, only by what arms them. `created_at`, the size
limit, and the messages of errors are left out.

### Session

A call is one `apiFetch`, identified by the constant `Call`. `state` is where it
is: sent, inside its endpoint (*stamped*: the limiter has read the clock;
*free*: the address was found free), answered, *waiting* for a refresh, done or
rejected. A token is its expiry. `refresh[c]` is the request that call `c` began
on behalf of all; `promise` is `refreshPromise`, which is *settled* for ever once
`attemptTokenRefresh` found no token: the async function then runs to its end,
`finally` included, before its promise is assigned.

| Code | Actions |
|---|---|
| `get_current_user`, `set_request_user_id`, `/auth/me` | `Authenticate` |
| `RateLimiter.__call__` | `Limit`, `LimitUnavailable` |
| `login`, `register_with_token`, `refresh` | `Login`, `LookUp` and `Insert`, `ServeRefresh` |
| `apiFetch` | `Start`, `ReturnOk`, `ReturnError`, `ReturnUnauthorized` (one of `StartRefresh`, `CannotRefresh`, `JoinRefresh`) |
| the end of a refresh, and the callers that awaited it | `Refreshed`, `RefreshFailed` |
| a new page: `restore` | `Reload` |
| the network, time | `Lose`, `Tick` |

`register` is `register_with_token` without the token, and the page does not use
it. One endpoint and one user are limited: the limiter's key is both. The profile
that `login` and `register` fetch after they stored the token, and the logout
button, are left out.

### Process and AgentFactory

A process goes through the phases of `lifespan`: counting and seeding the default
assistants, store, checkpointer, singleton agent, *up*, and back through the
teardown of the backends and the sandboxes. `After` is the order. A step is one
transaction or the code between two awaits; `CreateDefault` is one transaction,
as each default is committed by itself. An agent is what `CreateDeepAgent` makes
of a type, a format, a saver and a store; the singleton is built once, on the
backends there are at that moment. Turns are started as `chat_stream` and
`get_agent` do; what they read of the history and of AGENTS.md depends on where
the saver and the store of their agent live (`History`, `Memory`): in the
database, or in a process. Agents call `get_or_create` from worker threads, so
that the lookup (`FindSandbox`) and the write (`RegisterSandbox`) are two steps.

| Code | Actions |
|---|---|
| `lifespan`, start-up | `Boot`, `CountAssistants`, `CreateDefault`, `CreateRefused`, `SeedingDone`, `SetUpStore`, `SetUpSaver`, `BuildSingleton` |
| a turn | `StartTurn`, `FindSandbox`, `RegisterSandbox`, `EndTurn` |
| `PUT /memory` | `PutMemory` |
| `lifespan`, shutdown | `Stop`, `Teardown` (with `ClosePool`), `CleanUp`, `Dispose`, `Exit` |
| a crash | `Crash` |

The sandbox is a local shell (the default configuration), but its teardown may
fail, as a provider's may. `pool` is what the pool was set to: the fallback may
come before or after it was opened, and closing it may fail and leave it
*stuck*. `thread_ids` is the list `cleanup_all` works through; `live` are the
sandboxes that were created and not torn down, whether or not the table still
names them, and `leftover` those that another replaced in the table, or whose
teardown failed. A shutdown waits for the turns under way, as uvicorn does.

`interrupted` and `fellBack` remember that
a process crashed while it seeded, and that one had to keep its checkpoints in
memory: the two conditions under which the code gives its promises up.
`missed`, `memory` and `saved` of a turn are read by properties only.

### Library

One table stands for three, since the services share their shape: a request
reads a row (`Begin`, with what the read decides), looks up skills if it is to set
them (`Resolve`), and commits (`Insert`, `Commit`). What an ORM flush writes is
the difference between the copy and what was read (`Flushed`), which is why
concurrent updates of different columns compose; links to skills are inserted and
deleted one by one and fail when they are there or gone (`LinksClash`). An
answer carries the skills of its assistants with it (`WithSkills`): `shown` are
all rows an answer shows. `gone` is what was deleted when a request was sent. A request
sets one column (a bound; the request bodies have several optional fields);
`note` stands for the columns no rule is about. Soft-deleted rows keep their
names taken (`NameFree`).

| Code | Actions |
|---|---|
| `create` of the services | `CreateThread`, `CreateAssistant`, `CreateSkill`, then `Insert` |
| `get` and the routers | `GetThread`, `GetAssistant`, `GetSkill` |
| `update` | `UpdateThread`, `UpdateAssistant`, `UpdateSkill`, `Resolve`, then `Commit` |
| `delete` | `DeleteThread`, `DeleteAssistant`, `DeleteSkill`, then `Commit` |
| `list` | `List` (the count), `Fetch` (the page) |

### Artifacts

A tool call is asked for by a message (`AskTool`, which is also where
`map_state_update` keeps its arguments), runs, and has its tool message mapped
(`MapStateUpdate`). Calls of one message run at once, and turns overlap: reading
and writing a file are two steps (`CreateFile`, `WriteFile`, `EditFile`, then
`Save`), reading, listing and deleting are one statement. A file's text is a
sequence of passages, of which `"x"` is the one an edit replaces, so that the
three outcomes of `content.count(old_text)` occur. A scan of the workspace keeps
the event loop but not the shell's processes: `ScanStat` and `ScanRead` are
interleaved with `Produce`. Successive writes of a file differ in their mtime (an
assumption about the file system). `want`, `raced` and `stored` say what the
calls, one after the other, would leave; `handed` what was in an event.

`CallsAddUp` and `ReadsAreCurrent` say nothing of a path where calls overlapped,
until a deletion clears it: the code has neither a lock nor a unique index there.

## 3. Runs

| Run | Instance | Shows |
|---|---|---|
| `two_streams` | 2 streams, 2 threads, 1 question each, 2 requests | `EntryIsOpen`, `SoleAskerIsRegistered`, `RunsWithConsent`; `ImplementsGate`: the turns implement `ApprovalGate` |
| `one_stream` | 1 stream, 2 questions, up to 2 interrupts of up to 2 calls at once, 1 subagent, 2 requests | `OneDecisionPerCall`, `AnswerSavedOrReported`, `SavedTurnIsSettled` |
| `turns_live` | 2 streams on a thread, 1 request | an acknowledged decision alone wakes the stream it hit; with the timer, every turn ends |
| `page` | 2 sends, 1 question each, 1 load in flight | `StreamIsControlled`, `DialogIsOfCurrentTurn`, `LoadingEnds` |
| `memory` | 1 turn with 1 edit, 2 saves, 3 texts, any number of openings, loads and restarts | `SavedWasStored`, `WritesAreNoticed`, `BusyEnds` |
| `session` | 3 calls, 1 address, 3 instants, tokens of 2, a limit of 1 request in 1 | `OneAccountPerEmail`, `RefreshIsShared`, `SettledOnlyWhileLeaving`, `RefusedOnlyWhenBusy`, `CallsSettle` |
| `process` | 2 processes, 2 threads, 2 turns, 1 shutdown or crash, 1 save, 2 kinds of request | `OneSeeder`, `SeedCompletes`, `HistoryKept`, `AgentAsRequested`, `StoppedIsClean` |
| `library` | 2 users, 2 requests, a thread, an assistant, a skill, a default assistant and room for one row | `UpdatesCompose`, `DeletedStaysDeleted`, `LinkedWhenActive`, `OwnRowsOnly` |
| `artifacts` | 3 calls, 2 threads, 1 path, 1 workspace file of 2 versions | `CallsAddUp`, `ReadsAreCurrent`, `ShownWasStored`, `PassedOverWasShown` |

Two streams are enough for every conflict over the one slot of a thread (one
that owns it and one that takes it); two questions for an answer that comes too
late for the first; two calls for the difference between one and several
decisions; two interrupts for the one that is asked about and the one that is
not; two sends for a stream that is aborted by its successor. A single
load in flight makes a handler that would start a second one wait for it: that
is a bound. Two saves are one that is late and the next; one edit by an agent is
before, between or after them. Three calls of a page are one that refreshes, one
that joins it and one that logs in, or two registrations beside a request; three
instants let a token expire before, during and after a refresh. Two processes
that share a database meet wherever one of them can be late; two turns are one
that is done and one that must know of it, or two that race for a sandbox; one
end is a restart between them. Two requests are a reader that is late and what
happened meanwhile. Three file calls are two that overlap and one that comes
after; two versions of a file are the one that was seen and the one that
replaced it.

The remaining runs each refute a statement of the sources, and PROJECT.json
quotes it:

| Run | What happens |
|---|---|
| `acknowledged_lost` | the timer fires after the decision was set: success was returned, a rejection is applied |
| `wrong_approval` | an answer that was given to a question that timed out decides the thread's next one |
| `memory_split` | a save through one process is unknown to a turn in another: each has a store of its own |

The models contain more behaviours that a text of the sources would not lead one
to expect; no run is spent on them:

* A second stream takes the slot of its thread, and the first waits where no
  answer reaches it ("Map of thread_id -> _PendingInterrupt for active interrupt
  requests", `agent_service.py:107`).
* An update after the interrupt resets `interrupt_data` (`agent_service.py:464`):
  no question is asked and the turn ends, its graph paused.
* Of several interrupts of a graph only the first is asked about
  (`deepagents_adapter.py:573`), and the others get no decision, although "the
  resume command sends back one decision per tool call" (line 594).
* The response to an answer closes the dialog of the next question
  (`ChatInterface.tsx:492`); a question that timed out leaves a dialog that
  nothing but an answer, stopping or leaving closes.
* The `finally` block of an aborted stream ends the loading state of its successor
  (`ChatInterface.tsx:422`): Stop is not offered, although the ref holds the
  successor's controller.
* An answer whose response was lost leaves its dialog open: answered again, it is
  refused, or decides the thread's next question.
* A save from the modal during a turn is announced as the agent's (`chat.py:265`).
* `refreshPromise` is never cleared when there was no token (`api.ts:56-80`);
  the page is left at that moment, which is what `SettledOnlyWhileLeaving` needs.
* A failed `/auth/me` clears a valid token (`AuthProvider.tsx:86`: "Token is
  invalid").
* An assistant may be linked to another user's skill, or to one deleted since,
  and every answer shows it: `_resolve_skills` asks for no owner ("ownership
  checks can be layered on", `assistant_service.py:29`), while its first line
  says "accessible".
* A pool that was opened before the checkpointer fell back to memory is closed by
  nobody, and neither is a sandbox that another replaced (`sandbox.py:194`).
* A seeding that crashed half-way is never completed, as the table then has rows.
* `_parse_execute_result` says it falls back to an exit code of -1 and returns 0
  (`deepagents_adapter.py:82` and `:114`): an answer without a code is scanned for
  artifacts as a success.
* A `create_file` that failed shows its content as an artifact, an `edit_file`
  that succeeded shows nothing (`deepagents_adapter.py:449-460`).
* "concurrent threads don't share mutable state" (`sandbox.py:171`): the backends
  of all threads have one workspace directory.

`RunsWithConsent` holds although `wrong_approval` is violated. It says that a
call that runs was consented to, with that decision, by a request that reached
its question's entry, and that the person who made it was looking at that
question or at one on the same thread whose place it took (`GivenFor`). A late
answer to an earlier question of the thread is consent in that sense; one from
another thread, a timer, or a missing decision is none. That the person was
shown the very question is the statement that fails.

Some properties leave out what the code does not promise, and PROJECT.json
says so at each hazard: `DialogIsOfCurrentTurn` speaks of a dialog that is open,
not of one that a late response closes; `LoadingEnds` of the end of loading, not of
loading that ends too early; `UpdatesCompose` of different columns; `CallsAddUp`
and `ReadsAreCurrent` of paths where calls did not overlap.

**Fairness.** `FairSpec` gives weak fairness to what the event loop schedules on
its own: a generator that is ready runs, a database call returns, the graph's
run goes on, a request that was sent arrives. Nobody is required to answer, to
disconnect or to restart the process, and the graph is not required to ask. The
timer is not part of it, so that `AnswerUnblocks` shows that `Event.set` does
its work alone; `TurnEnds` adds it as a hypothesis (`TimerFires`).
`ChatClient!FairSpec` is fair to the network (a request is answered, an abort is
delivered), to the loads, and to the server's own steps including the timer
(`Settle`); the user, the graph's questions and failures (`Failure`) are not
fair, so that nothing ends because something broke.
`AgentsMemory!FairSpec` is fair to the modal's requests only.
`Session!FairSpec` lets every request be served, every answer be handled and a
redirect be followed; nobody has to start a call, to reload or to lose one.
`Process!FairSpec` is fair to the lifespan of each process: one that starts or
stops goes on, and the service starts one that is down (the desired count of the
deployment); crashes, shutdowns, turns and saves are not fair. `Disconnected`
is fair with the server: ASGI servers cancel a response whose client has gone.

Deadlock is not checked where all messages, questions and requests of the bounds
may be used up.

## 4. Proofs

Every safety invariant and every action property of the passing runs is a
theorem, and so is the refinement. They hold for any sets of streams, threads,
calls, processes, users, rows and so on, finite or not, and for any bounds: the
bounds of the runs do not enter. Each invariant is shown to hold initially, to
be preserved by each action (one step per action), and to imply its property.
TLC finds each of the inductive invariants true on the runs' instances as well.

| Module | Theorem | States |
|---|---|---|
| `ChatStreamProofs` | `TypeCorrect` | `TypeOK` |
| | `EntriesAreOpen` | `EntryIsOpen` |
| | `SoleAskersAreRegistered` | `SoleAskerIsRegistered` |
| | `CallsRunWithConsent` | `RunsWithConsent` |
| | `EveryCallIsDecided` | `OneDecisionPerCall` |
| | `SavedTurnsAreSettled` | `SavedTurnIsSettled` |
| | `AnswersAreSavedOrReported` | `AnswerSavedOrReported` |
| `ChatStreamRefines` | `TurnsImplementGate` | `ImplementsGate` |
| `ChatClientProofs` | `TypeCorrect` | `TypeOK` |
| | `StreamsAreControlled` | `StreamIsControlled` |
| | `DialogsAreOfCurrentTurn` | `DialogIsOfCurrentTurn` |
| `AgentsMemoryProofs` | `TypeCorrect` | `TypeOK` |
| | `SavedTextWasStored` | `SavedWasStored` |
| | `AgentWritesAreNoticed` | `WritesAreNoticed` |
| `SessionProofs` | `TypeCorrect` | `TypeOK` |
| | `AccountsAreUnique` | `OneAccountPerEmail` |
| | `RefreshesAreShared` | `RefreshIsShared` |
| | `SettledMeansLeaving` | `SettledOnlyWhileLeaving` |
| | `RefusalsAreEarned` | `RefusedOnlyWhenBusy` |
| `ProcessProofs` | `TypeCorrect` | `TypeOK` |
| | `OneProcessSeeds` | `OneSeeder` |
| | `HistoriesAreKept` | `HistoryKept` |
| | `AgentsAreAsRequested` | `AgentAsRequested` |
| | `StoppedProcessesAreClean` | `StoppedIsClean` |
| `LibraryProofs` | `TypeCorrect` | `TypeOK` |
| | `DeletedRowsStayDeleted` | `DeletedStaysDeleted` |
| | `LinkedSkillsWereActive` | `LinkedWhenActive` |
| | `RowsAreOwn` | `OwnRowsOnly` |
| | `UpdatesOfColumnsCompose` | `UpdatesCompose` |
| `ArtifactsProofs` | `TypeCorrect` | `TypeOK` |
| | `CallsAddUpInOrder` | `CallsAddUp` |
| | `ReadsFindTheLastWrite` | `ReadsAreCurrent` |
| | `ShownFilesWereStored` | `ShownWasStored` |
| | `PassedOverVersionsWereShown` | `PassedOverWasShown` |

**Assumptions** are those the modules declare on their constants, which TLC
evaluates in every run. Bounds are natural numbers, and positive where a
question, a lifetime, a window or a limit of zero would be another program. The
rows there are at first (`Library`) are different ones and not among those that
users create; the founder is a user and the system is not. `None` is a missing
value (a Python `None`, a JavaScript `null`, a SQL NULL) and therefore no
thread, text, token, time, row or decision. The assistants that requests of
`Process` ask for are numbers.

### Along which argument

*ChatStream.* With `TypeOK` goes `Shape`, which says what each state of a stream
and of a request comes with (a live stream has a thread, a request that was sent
has an aim): without it, no action is type correct where it looks up a thread or
a question. `EntryIsOpen` is then inductive. `SoleAskerIsRegistered` needs
`OverlapsRecorded`: two live streams on a thread are both in `overlapped`;
without that memory, a stream left alone after another popped its entry would be
a counterexample. `RunsWithConsent` needs that a decision that allows a call, in
a stream's entry (`DecisionBacked`) or in what was sent to the graph
(`ResumeBacked`), comes from a request that hit that question, and that such a hit is explained
(`HitsExplained`): the person saw that question or one on the thread whose place
it took, which no later step undoes (`StepKeeps`: a stream keeps its thread,
what is over stays so, what overlapped is remembered).
`OneDecisionPerCall` needs that `interrupt`, unless it is 0, is the number of calls of one of
the interrupts the graph is paused on; `SavedTurnIsSettled`, that every question
before the current one is settled, and the current one too unless it is open;
`AnswerSavedOrReported`, that a stream whose text was shown has content to save.

*The refinement.* `OpenInv` says that only questions that were asked are settled
and that the open one is not; `GateIs` then says, of each question, which state
the mapping gives it. A step of a turn either leaves every question's state or
is an `Ask`, `Acknowledge` or `Settle` of one question or a `Drop`, which a
restart does to several at once: the lemmas show it action by action. That an acknowledgement is not always honoured is in
the abstract specification too, as `acknowledged_lost` is what the code does.

*ChatClient.* `StreamIsControlled` is inductive: a send aborts the stream of the
controller it replaces. `DialogIsOfCurrentTurn` needs that sends go out
in order (`InOrder`), none after the one that streams, and that the stream being
read is on the selected thread (`ReadIsCurrent`).

*AgentsMemory.* That the clock keeps within its range is a matter of counting:
the writes so far and the edits under way are no more than the edits begun and
the saves the server has written (`Counts`), which uses the library's theorems on cardinality.
`SavedWasStored` needs that a save the server has written put its text in
`stored`; `WritesAreNoticed`, that the file bears the last instant (`Dated`) and
that a turn whose agent wrote has a date before the file's (`WroteSince`).

*Session.* `RefreshIsShared` needs that `promise` is pending exactly while some
`refresh[c]` is under way, and that at most one is. `RefusedOnlyWhenBusy` needs
that an entry of the sorted set is the date of its member, and that the dated
calls are finitely many: the entries in the window are then no more than the
other requests in it, though requests of one instant may have one entry
replaced.

*Process.* `OneSeeder`: a process past the first default is seeding, has the
first default in the table behind it, and is alone. `HistoryKept`: as long as
no process fell back, every saver and every agent of a running turn is on the
database, and what is done is in it (`InDatabase`). `AgentAsRequested`: the
singleton is of the general type without format (`General`), and is there
wherever a process is up; a turn is given it only if it asked for no more than that.
`StoppedIsClean`: a sandbox that lives is in the table or left over
(`Accounted`), what is in the table after the teardown is on the list, as no
turn runs any more (`StopInv`), and each thread leaves the list with its sandbox
torn down or left over; a pool that is still open was passed over because the
saver was in memory, and the singleton was built on that saver.

*Library.* With the types goes what each request knows of the rows (`ChangeKnows`,
`CreateKnows`): the row it read is there, was active, and is its user's.
`DeletedStaysDeleted` is a property of steps: no step sets `active` again
(`RowsKept`), as a flush writes the column only if it differs from what was
read, which was active. `OwnRowsOnly` and `LinkedWhenActive` need that what was
deleted when a request was sent is deleted still, so that it is neither found
and shown nor looked up to be linked (`SentInv`). `UpdatesCompose` needs that
the column of an update under way is as it was read, or another change of it
has succeeded (`ComposeInv`).

*Artifacts.* `CallsAddUp` needs, for each path without overlap, that there is one
file at most and that the calls which have looked it up still hold its row and
text (`AddUpAt`, `RowsRead`); `ReadsAreCurrent` is a property of steps that
follows. `ShownWasStored` needs that a call's arguments stay in `pending` under
its id until its answer is mapped (`ArgsKept`). `PassedOverWasShown` is a part of
`Typed`: the version marked as emitted is at most the one in the workspace, and
was handed over where it is that one.

### Only model-checked

* Liveness: `TurnEnds`, `AnswerUnblocks`, `LoadingEnds`, `BusyEnds`,
  `CallsSettle` and `SeedCompletes` rest on fairness, hence on `ENABLED`, which
  is beyond the prover.
* The three runs that refute a statement: TLC's counterexample is the proof.

## 5. Plan

1. *Done*: the modules `ApprovalGate`, `ChatStream`, `ChatClient`,
   `AgentsMemory` with the modal, `Session`, `AgentFactory`, `Process`,
   `Library` and `Artifacts`; the proofs of all their safety properties and of
   the refinement.
2. Safety lemmas on which the liveness properties rest, and which can be proved:
   a stream that waits has an entry or a timer, a refresh in flight has a
   request in flight, the page's loading flag has a reader.
3. The hazards without a property: a question that timed out and keeps its
   dialog, a response that closes the next question's, the end of loading while
   a successor streams, the response of a load that is shown on another thread,
   the sidebar's deletion, overlapping file calls, updates of one assistant's
   skills, and the workspace that all threads share. The code prevents none of
   them; each would be stated with the condition under which it does not happen.
4. The page: a thread deleted under it (the 404 of a load), tool cards, tasks and
   to-do lists on top of `Artifacts`.

## 6. Not modelled

The graph library, of which the modules take what their comments say. Web search
and the knowledge base, which hold no state. The wording of prompts, messages and
errors, layout, logging, and the Terraform configuration. `SkillService.materialize`,
`build_agent_kwargs` and the cloud sandboxes, which nothing calls or which are not
integrated. The parsing of skill files, tokens, to-do lists and structured
responses, which pass through without state. Passwords and hashing.
