# A TLA+ verification of fluent-code

fluent-code is an AI coding agent in Rust: a terminal UI that is an ACP client, a headless ACP
server, and behind it an application core that keeps a *session*, talks to a model provider, runs
the tools the model calls, and asks the user before it runs them. This directory holds TLA+ models
of that program, the configurations that check them with TLC, and proofs checked by TLAPS.

Paths below are relative to `src/crates/`; the prefixes `fluent-code-app/src/`,
`fluent-code-acp/src/` and `fluent-code-tui/src/` are left out where the file name says which it is.

Contents: 1 the system; 2 the plan and what is left of it; 3 the modules and the code; 4 the runs,
their bounds and what they show, and what the code does otherwise; 5 the proofs; 6 what is not
modelled.

## 1. The system

| Component | Code | State it keeps | Operations |
|---|---|---|---|
| Application reducer | `app/{update,delegation,permissions,state}.rs` | `AppState`: the session, the active run, the status | `update(state, Msg) -> Vec<Effect>` |
| Startup recovery | `app/recovery.rs`, `app/delegation.rs` | none | `recover_startup_foreground` on a session just loaded |
| Request builder | `app/request_builder.rs` | none | the messages, prompt and tools of each `StartAssistant` |
| Shared app host | `host/mod.rs` | `AppState`, queue of runtime messages | `submit_prompt`, `cancel_active_run`, `handle_message`, `drain_runtime_messages`, `recover_startup` |
| Runtime | `runtime/orchestrator.rs` | registry of assistant and tool tasks per run | `spawn_effect`, abort |
| Provider client | `fluent-code-provider/src/*` | none | open a stream, retry its start, forward its events |
| Permission gate | `app/update.rs`, `app/permissions.rs`, `server.rs` | remembered rules in the session | evaluate, remember, reply to a batch |
| Session records | `session/model.rs` | runs, tool invocations, turns, permission rules, foreground owner, transcript items, replay sequence | lookups, upserts, normalisation |
| Session store | `session/store.rs` | three files per session and the latest pointer | `create`, `save`, `load`, `load_or_create_latest` |
| ACP server | `server.rs` | open sessions, the live prompt turn, buffered completion, client requests | initialize, authenticate, session new/load/resume/close/list, prompt, cancel, permission response |
| ACP projection | `mapping.rs`, `server.rs` (emission state) | what was sent to the client | session to `session/update` frames |
| ACP protocol, transport | `protocol.rs`, `transport.rs`, `dev_harness.rs` | none | frames, line I/O |
| TUI: ACP client | `fluent-code-tui/src/acp.rs` | the projection of the session, the held permission, terminals of the agent | bootstrap, requests, notifications, terminal services |
| TUI: rendering and input | `acp.rs`, `view.rs`, `conversation.rs`, `markdown_render.rs` | draft, scroll position, the conversation cache | keys, event loop, draw |
| Tools, plugins | `tool.rs`, `plugin/*` | the registry of tools | discover, accept, build, run |
| Agents | `agent.rs` | built-in and configured agents | what the task tool offers and accepts |
| Configuration, bootstrap, logging | `config.rs`, `bootstrap.rs`, `logging.rs` | none | read once at a start |
| Auxiliary crates, echo plugin | `core`, `tui`, `utils`; `examples/` | none | sketches and an example, not used by the program |

**How they interact.** A user action or a runtime message reaches `SharedAppHost::handle_message`,
which calls the reducer and applies the returned effects one after the other: save the session,
start or cancel an assistant stream, start a tool. Streams and tools are tokio tasks; they answer
with messages on an unbounded channel, which the host drains one message at a time. A failing save
leaves the effect loop at once, so the effects behind it are lost. After a restart the host loads
the session as it was last saved and runs the recovery, whose effects it applies in the same way.

The ACP server owns one host per open session. A `session/prompt` is a task that starts a turn and
then, in turns, waits for the runtime, drains its messages, projects what is new and hands the
frames to the connection's dispatcher; a `session/cancel` is another task, and one lock per session
is all that orders them. The dispatcher sends one frame after another and waits for the client's answer
to a permission request. The TUI is the client on the other end: one thread on which the event
loop, the handlers of notifications and requests, and the bootstrap interleave at their awaits.
They change one projection, which the loop draws when it is woken.

**What is hard.** Messages of a finished, cancelled or superseded run are still in the channel when
the host has moved on. A batch of calls has pending, running and finished calls at once, answered in
any order. A `task` call hands the foreground to a child run, and two records in the session have to
agree about it. The process may die between any two effects, and a save is several files. A cancel
and its prompt produce the same turn's frames under one lock; the response may come from either.
Text is sent while it grows, and a reload has to give the same. The client draws a picture that
keys are pressed on after the state has moved. `PROJECT.json` lists each such hazard at its line,
with the properties that cover it or the reason why none does.

**What makes each component correct.**
- *Reducer:* a run that ended is never changed again; the foreground is a run in progress; a prompt
  ends or asks; parent and child agree about a delegation.
- *Request builder:* a run that is resumed is shown the results of its calls.
- *Permission gate:* no tool runs before its approval was given and saved, and none runs twice.
- *Recovery:* it does not run anything again, resumes what can be resumed, and may itself be interrupted.
- *Host and runtime:* effects keep their order; a session that does not wait for the user has a task
  that will move it; what a cancel has to stop can be found; a stream speaks and then ends once.
- *Store:* what was saved is what is loaded; the order of the records survives.
- *ACP server:* each prompt gets one response, that of its own turn; a cancel is served; an answer
  reaches the call it was asked for.
- *Projection:* what is sent piece by piece adds up to what a load replays.
- *TUI client:* at rest it shows the session; nothing waits for ever; keys answer what is held.
- *Rendering:* a screen nobody will redraw is current; everything said is drawn once and in order.
- *Terminals:* the output kept is the end of what was written; a wait that is answered has it all.
- *Catalog:* what the model is offered is what runs; a bad plugin fails alone.

## 2. The plan

In the order of importance, with what it came to:

1. The core: `Reducer`, `AgentHost`, the abstract `ToolGate`, properties and proofs. **Done.**
2. The tasks under the host: `Runtime` with the registry of handles, refining `StreamContract`. **Done.**
3. The ACP prompt turn and its races with a cancel: `PromptTurn`. **Done.**
4. The files: `SessionStore` with `AcpSessions`. **Done.**
5. The transcript and what is shown of it: `Transcript`, `Projection`, `Conversation`. **Done.**
6. The client: `TuiClient`, `TerminalService`, `Screen`, `Markdown`. **Done.**
7. A start: configuration, plugins, agents, tools: `Catalog`. **Done.**
8. What the model is shown: `ModelRequest`. **Done.**
9. Proofs for every value of the constants: the gate and its refinement, the stream contract, the
   current screen, answered waits, plugins that fail alone, and the prompt turn. **Done.**
10. Proofs about the records: delegations, the foreground, finished runs, recovery; the registry of
    tools; the catalog's tools and configuration. **Done.**
11. Proofs about the files: what is saved is loaded, in order and complete; and about the request: a resumed
    run is shown its calls. **Done.**

Left: proofs about the projection and the client (section 5 says which properties are
only model-checked); a composition of `PromptTurn` with the reducer itself instead of its
abstraction; session listing and the configuration options of the server.

## 3. The modules and the code

Text is a length in deltas wherever no property reads it; ids, names and errors are members of small sets. A
record of the code is a record or a function of the model. Definitions marked "mutant" are wrong
variants of the definition below them, as a plausible bug in the code would make it: with the wrong
one in place TLC finds the property violated that `PROJECT.json` lists with it. No behaviour of the
model uses them. `PROJECT.json` also maps every definition to its lines.

### The core: `Reducer`, `AgentHost`, `ToolGate`, `ModelRequest`

**`Reducer`** models `update` and the recovery. A handler is an operator from a state to a record
`[st, fx]`: the new state and the effects, in the order of the `Vec`. A message that the code ignores
gives `Ignored(s)`.

| In the model | In the code |
|---|---|
| `runs[r]`: status, parent, task | `RunRecord`: status, `parent_run_id`, `parent_tool_invocation_id` |
| `invs[i]`: run, tool, anchor, approval, exec, child, deleg | `ToolInvocationRecord`; anchor is `preceding_turn_id`; child and deleg are the `TaskDelegationRecord` |
| `turns`, `rules`, `owner` | `session.turns` (run and role), remembered permission rules, `foreground_owner` (run, phase, batch anchor) |
| `active`, `status` | the two fields of `AppState` that are not saved |
| `SubmitPrompt`, `AssistantChunk`, `AssistantToolCall`, `UnsupportedToolCall`, `AssistantEnded`, `ToolExecutionFinished`, `DenyPending`, `ApprovePending`, `CancelActiveRun` | the arms of `update` |
| `StartChildRun`, `CompleteChildRun` | `start_child_run`, `complete_child_run` |
| `RejectAlways` | the server's `remember_rejected_permission_rule` and the Deny reply that follows |
| `RecoverStartup` and its parts | `recover_startup_foreground` and its parts |

Ids are any id not in use. Turn ids are positions in `turns`; invocations are numbered in the order
of the calls, the order the code's vector has. A failure is one of three outcomes, because the code
reads its text in one place only (`read` failing with "is not accessible" does not end the run).
The arguments of a `task` call are valid or not, either way at each approval. What a child may not call is
a constant, as it depends on the agent's definition.

**`AgentHost`** is the host's loop with its environment. `pend` holds the effects of the current message
that are not applied yet, so a kill, a task or a failing save can come between any two of them;
`HostIdle` (nothing pending) is when the host takes the next message. `chan` is the runtime channel,
`streams` and `tools` are the tasks, `disk` the session as last saved, `execs` a history variable that
counts how often each call's tool ever started. `CrashAndRestart` loads `disk`, runs the recovery and
forgets everything else. A tool that executes is synchronous code that never yields, so a cancel lets it
run to its end and its result arrives late.

**`ToolGate`** is what the gate promises: a call runs only after its approval was saved, at
most once, and a decided call is never decided again. **`ModelRequest`** adds the request every
`StartAssistant` in `pend` carries (`BuildProviderRequest`, `ChildProviderRequest`), as a function of
the state. `AgentHostProperties` states the properties and the fairness.

### The tasks: `Runtime`, `StreamContract`

`tasks` is what `tokio::spawn` left, in order: a task has a place (`pc`), an attempt, what it
forwarded (`heard`) and how it fell silent (`verdict`). A task runs from its spawn on, while the handle
is only entered afterwards (`Insert`); an abort takes effect where the task awaits (`Drop`). `assistant` and
`tools` are the registry. The host is reduced to what decides the effects it emits. `Connect`,
`ReadText`, `ReadCall`, `ReadFailure`, `ReadEnd` are the loop of `rig.rs` with its retry of a stream
that failed before it said anything. `StreamContract` is the abstract stream: it speaks, then it is
silent for ever with one verdict. `AgentHost` is coarser on purpose: a stream there is a task that may send.

### The files: `SessionStore`, `AcpSessions`

A session in memory holds records with replay sequences and versions, and its transcript items. A
save is a queue of writes (`WriteMeta`, `TruncateLatest`, `WriteLine`...), and a failure or a kill may come between
any two of them, or leave a torn line. `Loaded` is `load` with `normalize_persistence`, approximate
synthesis for old sessions and `Resequence` included. `AcpSessions` is the server's session requests
over it: start-up from the latest pointer, `SessionNew`, `SessionLoad`, `SessionClose`, the saves of a prompt
turn, `WriteFails` and `Crash`. `saved`, `torn` and `scarred` are history variables.

### What is shown: `Transcript`, `Projection`, `Conversation`

`Transcript` extends `Reducer`: `On...` is what the handler of the same name does to the items beside
the records. `Projection` lets the messages of the runtime and of the user move both, through
`Reducer`'s own operators, and projects them as `mapping.rs` does: `Canonical` from an exact transcript,
`LegacyEvents` otherwise. `Emitted` is one poll of `PromptTurnEmissionState`, `Replay` what `session/load`
sends, `Shown` what an ACP client makes of frames. `watch.by` says who polls: the task of a prompt at any time, or
the handler of an answer or a cancel, which drains the runtime's messages and polls once. A turn that a load found in progress has
only the latter: its messages wait in the channel until one of them comes. `Conversation` groups the items into
the TUI's history and active cells, as `conversation.rs` does.

### The prompt turn: `PromptTurn`

A turn has the name of its prompt. `ms` is the `ManagedSession` and what these tasks read of its host;
`lockq` is the session's lock with those who wait; `pc[t]` is where the task of a prompt or a cancel
is; `out` is the dispatcher's queue. Each action is what a task does between two awaits or under the
lock: `Start`, `Drain`, `Project`, `SendFrame`, `TakeResult`, `FramesSent`, `Loop`, `Wake`, `PollTurn`,
`ApplyAnswer` for a prompt; `Prepare`, `CancelTurn`, `Cancelled`, `Store`, `CancelSent` for a cancel; `Deliver` and
`Answer` are the dispatcher and the client; `Report` is the runtime. A batch is one call here; batches
are in `Reducer` and `Projection`.

### The client: `TuiClient`, `TerminalService`, `Screen`, `Markdown`

`TuiClient` is the terminal client and the server at the other end of one pipe each way, first in first out:
bootstrap, requests and responses, notifications, the permission it holds (`held`), the projection, keys
pressed on the snapshot drawn last, a server that may exit. `TerminalService` is the terminals it runs
for the agent: requests queue for a process's mutex (`lockq`), two tasks read its pipes in chunks
cut anywhere, the buffer keeps the end of the output within its limit. `Screen` is the event loop at the grain
of its awaits (poll, draw, park, drain a burst), the wake signal with its one permit, the handlers'
duty to leave the cache dirty, the keys, and `Picture`: browser, header, conversation window and
composer of a snapshot. `Markdown` renders a text, whole or still streaming, event by event as the
renderer does. Its fences have a character, a length and a language: the parser closes a block by them, the streaming
renderer counts lines of three backticks (`Fences`), and the highlighter gives up on a language it does not know and on a long
block (`Highlights`, which also stands for an error of the highlighter).

### A start: `Catalog`

`Configure` reads one of two files and fills in what is missing; `Discover` finds the plugin directories of
both scopes in their order; `Consider` accepts or refuses the next candidate by building a registry
with those accepted before it; `Build` builds the final one. `Edit` changes a component's file at any
time. `Advertised`, `OfferedTo`, `PolicyOf` and `TaskOffers` are what the model and the gate are told.

## 4. The runs

| Run | Instance | Distinct states | Shows |
|---|---|---|---|
| `gate` | 2 runs, 2 calls, `task` and `read`, a child may call everything; always / deny / reject always; ok and error; one crash; saves may fail | 1,435,650 | a tool starts once and only on an approval that is on disk; parent and child stay linked and tell the same story; a prompt for a permission can be answered; the host refines `ToolGate` |
| `foreground` | 2 root runs, 2 calls: one that asks, one that does not, an unknown one; one crash; saves may fail | 1,495,656 | the foreground is a live run; no run is stranded; late messages leave a finished run alone; a recovery can be repeated; `TypeOK` |
| `progress` | 2 root runs, `read` and an unknown tool, ok and inaccessible; no crash; with fairness | 337,917 | every prompt ends or asks; a resumed model sees the answers of its calls |
| `runtime` | 1 run, 2 calls, 2 attempts, 4 tasks | 81,758 | no answer begins twice; a cancel finds every tool; streams keep `StreamContract`; a run settles |
| `prompt_turn` | 2 prompts, a cancel during the second, 2 text deltas, 2 calls, all answers | 47,588 | one answer, its own; no orphaned turn; answers reach their call; nothing unsaid; every request served |
| `sessions` | 2 sessions, one in the old format; 3 records, 1 change each, 1 fault, authentication required | 571,071 | round trip; order of replay sequences; complete transcripts |
| `projection` | 2 runs, 2 calls, 3 deltas or calls, 1 load, cancels; child may call everything | 420,933 | live equals replay; the waiting client was asked; transcript mirrors records; drawn in order |
| `tui` | 2 sessions, one stored and a pointer to one that is not; 1 prompt, cancel and load; 2 deltas, 1 call; the server may exit | 530,967 | a question on screen is held; at rest the session is shown; nothing waits for ever, and without a cancel the screen leaves the in-flight state |
| `terminals` | 1 terminal, 2 requests, 2 characters, limit 3 bytes | 90,775 | the buffer is the longest end; an answered wait has all; a kill ends the process, and is answered when nothing keeps the pipes |
| `screen` | 2 sessions, two texts of 14 lines cut at 8 or 14, 2 lines of code highlighted, a panel of 5 rows, 3 messages, 2 keys | 1,458,963 | a parked screen is current; what is said is drawn; a growing text reads as the finished one |
| `catalog` | 6 pairs of configuration files, 7 manifests, 2 directories per scope, 1 change of a component | 1,602,924 | advertised is served; plugins fail alone; the configuration is followed |
| `lost_calls` | 2 runs, 1 text turn; `task` and a tool that needs no approval | 5,840 until the violation | **violated:** `ResumedRunSeesItsCalls` |

**What the violation shows.** `lost_calls`: a call is attached to the last turn of the session, whichever
run said it (`update.rs:378`). A parent that delegated and, resumed, calls a tool without a word gets
its call attached to the child's turn; the request builder shows a call only behind a turn of its own
run (`request_builder.rs:58`), so the model is resumed as if it had not asked. `progress` checks the same
property for root runs, where it holds.

**Bounds.** Two runs are a prompt and the next one, or a parent and its child. Two calls are the
smallest batch whose calls are in different states, or a `task` call and a call of its child; two text
turns put the two calls into one batch or two. `MaxChan` limits only what a stream adds while it goes
on: a message a task ends with is always accepted, so late ends and results are never lost, and with 1 two
streams' ends and two results can still wait together. One crash suffices because
`RecoveryIsIdempotent` recovers twice from every saved session that is reached. Two attempts are all
the code has; four tasks are two streams and two tools, with a
stream replaced while a tool runs. Two prompts and a cancel are the smallest instance in which a response can
come from the wrong task or reach the wrong prompt. Three records are one of each file and a later one, so a
torn write can leave old and new beside each other. Two characters of up to two bytes, with
replacement marks of three, pass the limit of three bytes at every offset. One markdown text has a list that
nests, a quote of two lines, a block that is closed, a link and a block that is not; the other has blocks between tildes and between
four backticks, one too long to be highlighted and one of an unknown language; 14 lines in a panel of
5 rows scroll. With one call, `tui` tells an answer that reaches another call only by the session shown and the channel held. Seven manifests in two directories of two scopes give equal ids, equal
names and every reason of refusal beside accepted plugins.

**Deadlock** is checked in `runtime`, `terminals`, `tui` and `catalog`, where the end of all work is an action
of its own (`Settled`, `Exited`, `Stop`, the last of which is also the next start). The other configurations say `CHECK_DEADLOCK FALSE`: ids and budgets run out, and
a session whose last prompt is answered waits for a user who owes it nothing. That these do not stop too
early is what `RunSettles` and `EveryRequestServed` check.

**Symmetry** of run ids is sound where it is used (`gate`, `foreground`, `projection`, `lost_calls`): no definition orders runs,
and a `CHOOSE` over runs picks from a singleton. Runs with a liveness property do not use it.

**Fairness.**
- `progress` (`FairSpec`): the host drains the channel and applies effects; each stream ends or fails, as an HTTP
  stream does; each tool task runs, as tokio runs what was spawned and the built-in tools return. The user owes nothing.
- `runtime`: the host inserts and receives; each task that can end does. That a provider ends an answer is an assumption on
  it: the code has no timeout there.
- `prompt_turn`: each task, the dispatcher and the client go on, and a runtime that has a turn reports something
  further. Without the last one a cancel of a silent stream is never served (below).
- `tui`: weak fairness of the client's handlers, its loop, its bootstrap and the server's tasks; the model or a tool
  says something at last. Strong fairness of the user's answer: the key works only while the loop waits for keys, which it
  leaves and enters again.
- `terminals`: some request that can go on does, and some reader that can read does. A process may run for ever, and so
  may what it started.

### What the code does otherwise

The passing runs state their properties where they hold. These are the places where the code goes another way; each
was found by a run over a wider instance or by a stronger form of the property.

*Reducer and recovery*
- `update.rs:559`: the end of a stream in the channel when its child run was cancelled goes to
  `complete_child_run`. The child becomes `Completed`, its parent's call is finished again and the foreground jumps back. Late tool
  results have a guard against this (`:642`). `SettledRunsAreFrozen` is checked for root runs.
- `update.rs:152`, `delegation.rs:413`: two `task` calls approved together are both marked running; one child starts.
  The parent waits for the other for ever, and recovery calls the session broken.
- `update.rs:706`, `recovery.rs:147`: a child whose own tool fails, that calls an unknown tool, or whose tool a
  crash interrupts, ends without `complete_child_run`; the parent's `task` call stays running. `TaskMirrorsChild` is stated without these.
- `update.rs:708`: a sibling tool of the parent's batch that fails while the child runs ends the parent and clears the
  foreground under the child. `NoStrandedRun` is checked for root runs.
- `update.rs:1133`, `recovery.rs:101`: text between two calls makes two batches. Settling the second restarts the
  assistant while the first is open, and a session saved there is one that recovery refuses.
- `delegation.rs:44`: invalid arguments of a `task` call restart the assistant while others of its batch still run.
- `recovery.rs:116`: a crash with one call running and one pending restores the question; after the
  reply the run waits for a result that no task will send. `RunSettles` is checked without crashes.
- `host/mod.rs:230`: a failed save drops the effects behind it: a run in progress that nothing moves until it is cancelled.

*Runtime*
- `orchestrator.rs:141`, `:260`: a stream that was replaced removes its successor's entry, which can then not be
  aborted until it ends. `ToolsAreCancellable` is about tools, whose entries are kept. A task may also be aborted after its last message
  was sent, which the test at `:518` does not see.
- `orchestrator.rs:182`: the plugin timeout wraps a synchronous call and cannot fire before the call returns, though
  `PLUGIN_AUTHORS.md:124` promises a limit.

*ACP server*
- `server.rs:755`, `:866`: a cancel stores its completion before its frames are sent and again after. If its prompt took the
  first one, the second stays behind and answers the next prompt, whose own turn goes on unanswered. With cancels in any
  prompt TLC finds `AnswersItsOwnTurn` violated. The run and the proof keep cancels to the last prompt.
- `server.rs:750`: the prompt's task holds the session's lock while it waits for the runtime, so a cancel waits for the
  model's next message, and for ever if the stream is silent.
- `server.rs:1939`: `session/load` and `session/close` do not wait for a prompt in flight; the old host goes on saving over the new
  one. The client of `AcpSessions` does not do it (`Undisturbed`).
- `server.rs:1959`, `:2423`: nobody polls a turn that a load found in progress. Its host takes messages of the runtime only in the one
  poll behind an answer or a cancel, so a turn that goes on after the answer stands still when that poll comes before the tool's result,
  and a recovered stream is not shown at all (`Projection!Drained`). `session/resume` (`:1992`) sends nothing, so a turn left waiting is not asked
  about there; it is not modelled.
- `server.rs:3146`: a cancel during approval closes the calls in the records and not in an exact transcript, so a later load
  shows them as pending and asks about them. The test at `:3962` expects them closed; its fixture's transcript is approximate.
  `TranscriptMirrorsRecords` leaves cancelled turns out.

*Store*
- `model.rs:203`: a session from before there were sequences gets them from a load, and only a save keeps them. Saves of records that
  fail leave the new `session.json` beside old files; a load of the session, which is still open, then numbers the records
  otherwise than the open host, and if its save fails too after the item lines, the old host goes on with its own numbers. After one more
  failure `session.json` has the numbers of one and the items those of the other, and a load shows an item at a place
  that is not its record's. TLC finds this with one legacy session, four failed writes and three records; the run has one failure.
  Without a legacy session `OrderKept` excludes it for any number of failures.

*Terminal client*
- `server.rs:2234-2254`, `acp.rs:518-526`: the prompt's own row and the items of a run are not sent live, only by a load;
  `acp.rs:767-823`: text and reasoning of a turn are two rows live, in whatever order they began, and in the session's after a load.
  `ShownIsSession` compares calls and the number of words.
- `acp.rs:2789`: the bootstrap awaits the load of a session before keys are read. If that session was left waiting for a permission,
  the server asks during the load and waits for an answer no key can give. `LeftAwaiting` is empty in `tui`.
- `acp.rs:3944`: a loaded session that was left in flight shows `prompt_in_flight` without an active prompt of this client;
  q, Escape and Ctrl-C then mean "cancel the active prompt" (`acp.rs:3670`), which returns at once, so they neither
  cancel nor quit (`TuiClient!CancelPrompt` has the early return).
- `acp.rs:849`, `:3964`: a cancel's frames and the prompt's response come from two tasks. When an update of a running call, or a question,
  comes behind the response, it puts the screen in flight again with no active prompt, so nothing resets it and the same keys do
  nothing; the tests at `:4826` and `:4953` assert that the prompt is not in flight after its end. TLC finds it when
  `HasCancelled` is taken out of `NothingWaitsForEver`.
- `acp.rs:1137`: Up from the followed tail starts at the stored top, 0, and jumps to the top of the conversation.
- `markdown_render.rs:191`: the flag set after a fenced block is reset by the next soft break only (line 316), so the first
  soft break of a later paragraph is dropped and two words are joined.
- `markdown_render.rs:541`: the block that streams is found by the number of lines with three backticks and looked up among the parser's
  fenced blocks. With tildes, a longer fence or backticks inside a block the two disagree: a finished block loses its colours, or the open one
  keeps them until it closes (`MCScreen!OddText`). `StreamedAsCommitted` says which block only where the fences are three backticks.
- `acp.rs:1919`: a kill reaches the direct child. What that started keeps the pipes open, and `await_reader_tasks` (`:1937`) has no time limit, so the
  kill, or a release, may have ended the process and never be answered. `KillIsServed` promises the answer when nothing else holds the pipes.
- `acp.rs:1937`: a second wait, kill or release finds the reader tasks already taken and answers before they are done.
  `AnsweredWaitHasOutput` allows for it. `acp.rs:2014`: a chunk that ends inside a character is decoded by itself, so
  the character becomes replacement marks; `captured` in the model is what was decoded.

*Start*
- `manifest.rs:15`: the platform is a constant; `compare_semverish` ignores pre-releases; `host.rs:97`: a call reads the component
  again without its checksum (so `AdvertisedIsServed` speaks of answers while no component changes); with the default
  `data_dir` the global and the project directory of plugins are one (`config.rs:394`), and each plugin is found twice.

## 5. The proofs

TLAPS checks each of these for every value of the constants, from the named assumptions of the modules, which only say what the
constants are. Each theorem of the form `Spec => []P` rests on an inductive invariant: `IInv` of its module, or one on top of it
(`SoundInv`, `OneResult`, `LiveInv`, `AttendedInv`, `MirrorInv` and `AttachedInv` in `ForegroundProofs`, `RegInv` in `RuntimeProofs`, `AInv` and `SayInv` in
`PromptTurnProofs`, `BufferInv` in `TerminalProofs`, `ConfInv` and `ServInv` in
`CatalogProofs`). It has a lemma for `Init`, one for `Next` with one lemma per action or handler under it, and a last step by PTL.
Every invariant was checked with TLC before it was proved.

Four theorems have a hypothesis `[]H`, where `H` says which message the host does not find at the head of the channel. In these behaviours the code
leaves the property, as section 4 tells; the hypothesis names that one message and is used where it is handled and nowhere else.
The theorems of the store speak of sessions that have sequences from the start, for the reason given there.

| Theorem | Statement | Property of run |
|---|---|---|
| `AgentHostProofs!TypeCorrect` | `Spec => []TypeOK` | `foreground` |
| `AgentHostProofs!ToolsRunOnceApproved` | `Spec => []RunsOnceApproved` | `gate` |
| `AgentHostProofs!GateRefinement` | `Spec => GateImplemented`, that is `Gate!GateSpec` | `gate` |
| `RuntimeProofs!AttemptsNeverMix` | `Spec => []NothingRepeated` | `runtime` |
| `RuntimeProofs!StreamsKeepContract` | `Spec => KeepsContract`, that is `Contract!Spec` | `runtime` |
| `ForegroundProofs!DelegationLinked` | `Spec => []DelegationIsLinked` | `gate` |
| `ForegroundProofs!AwaitingAnswerable` | `Spec => []AwaitingIsAnswerable` | `gate` |
| `ForegroundProofs!ForegroundStaysLive` | `Spec /\ []NoLateChildEnd => []ForegroundIsLive` | `foreground` |
| `ForegroundProofs!SettledRunsStayFrozen` | `Spec /\ []NoLateChildEnd => SettledRunsAreFrozen` | `foreground` |
| `ForegroundProofs!RunsAreAttended` | `Spec /\ []NoLateChildEnd /\ []NoFailureInDelegation => []NoStrandedRun`, for `TaskTool \in ChildDenied` | `foreground` |
| `ForegroundProofs!TaskShowsChild` | `Spec /\ []NoUnknownChildCall => []TaskMirrorsChild` | `gate` |
| `ForegroundProofs!ResumedRunIsShownItsCalls` | `Spec => [](NoDelegation(st) => ResumedRunSeesItsCalls)` | `progress` |
| `ForegroundProofs!RecoveryMayRepeat` | `Spec => [](OnlyChildUnderWay(disk) => RecoveryIsIdempotent)` | `foreground` |
| `RuntimeProofs!ToolsStayCancellable` | `Spec => []ToolsAreCancellable` | `runtime` |
| `PromptTurnProofs!NoTurnIsOrphaned` | `Spec => []NoOrphanTurn`, for `CancelDuring \subseteq {NumPrompts}` | `prompt_turn` |
| `PromptTurnProofs!AnswersAreOwn` | `Spec => []AnswersItsOwnTurn`, likewise | `prompt_turn` |
| `PromptTurnProofs!AnswersReachAskedCalls` | `Spec => []AnswerReachesAskedCall`, likewise | `prompt_turn` |
| `PromptTurnProofs!EndedTurnsAreHeard` | `Spec => []NothingUnsaid`, likewise | `prompt_turn` |
| `AcpSessionsProofs!SessionsAreKept` | `Spec => []Kept`: the three below for each session other than `LegacySession`, beside which it may exist | |
| `AcpSessionsProofs!RoundTripKept` | `Spec => []RoundTrip`, for `LegacySession = NoId` | `sessions` |
| `AcpSessionsProofs!OrderKept` | `Spec => [](LegacySession \notin open => TranscriptIsOrdered)` | `sessions` |
| `AcpSessionsProofs!TranscriptKept` | `Spec => [](LegacySession \notin open \ scarred => TranscriptIsComplete)` | `sessions` |
| `ScreenProofs!ScreenStaysCurrent` | `Spec => []ScreenIsCurrent` | `screen` |
| `TerminalProofs!AnsweredWaitIsComplete` | `Spec => []AnsweredWaitHasOutput` | `terminals` |
| `TerminalProofs!BufferKeepsLongestEnd` | `Spec => []BufferIsLongestEnd` | `terminals` |
| `CatalogProofs!AFailureStaysAlone` | `Spec => []PluginsFailAlone` | `catalog` |
| `CatalogProofs!ServedAsAdvertised` | `Spec => []AdvertisedIsServed` | `catalog` |
| `CatalogProofs!UserIsFollowed` | `Spec => []ConfigurationIsFollowed` | `catalog` |

**The gate.** `RunsOnceApproved` is not inductive: it says nothing of a tool that is about to start. `IInv == TypeOK /\
SavedApprovals /\ QueuedTools /\ SpawnedTools` follows an approval along its way: what is approved on disk is approved in memory; an
effect that starts tools is the only such effect in `pend`, its calls are approved, have no task and never started, and either a
save is at the head of `pend` or their approval is on disk; a call with a task is approved on disk and ran at most once. A kill drops the
tasks, replaces `pend` by the recovery's effects, which start no tool, and falls back to `disk`, where `SpawnedTools` keeps
every approval a tool ever ran on. A failing save empties `pend`. The reducer enters through one contract, `Guarded` in
`AgentHostProofs`: a handler moves approvals only as `ToolGate` allows, and each call it wants started was
approved by this very step, behind a save. Each handler has a lemma that its result is well typed and guarded
(`...Guarded`), or starts no tool (`...Quiet`). `GateRefinement` maps each host step to a gate step or a stutter under `IInv`.

**The records of a session** (`ForegroundProofs`). First each handler gets a *shape*: what it leaves in every field, in the words
the invariants need (a run said something, a call was asked, a child started, a child ended, a recovery closed). The invariants are proved
on the shapes, so no handler is expanded twice.
- `Sound` and `Grows`: records only grow, links and identities of calls stay, an approved call keeps its child, and no rule is ever remembered
  for `task`. That gives `DelegationIsLinked`. A foreground that waits for approval has a pending call in its batch: who settles such a call
  also sets the foreground. That gives `AwaitingIsAnswerable`, in memory and on disk.
- `OneResult`: a call whose tool is queued, runs or has reported is one the reducer expects, and it reports once and for its own run. So
  a late result finds its call settled, and nothing is changed twice.
- `Live`: the owner of the foreground ends a *path* of runs in progress that is closed under parents, none a parent of two runs on it. A child is put
  at its end; when it ends, its parent is the end of what is left. The path makes the theorem hold for delegations of any depth. An end of
  a cancelled child's stream breaks it (`update.rs:559`), which `NoLateChildEnd` leaves out. From `Live` and `OneResult` a step that is not
  a crash leaves a finished run, its turns and its calls as they are.
- `Attended`: a run in progress is the foreground or waits for it. It holds with agents that may not delegate further, as the built-in ones;
  a failure of either run of a delegation strands the other (`update.rs:706`, `:708`; `NoFailureInDelegation`).
- `Mirrors`: a `task` call shows its child's status, unless a call of the child failed. Only a child that calls an unknown tool ends without a
  word and without a failed call (`NoUnknownChildCall`). `NoStrandedRun` and `TaskMirrorsChild` are stated, and proved, up to the first crash.
- `Attached`: while nothing was delegated, the run that has the foreground said the last turn of the session; so a call, which is attached to the
  last turn, stands at one of its own run, where the request builder shows it. A child that speaks breaks it (`lost_calls`).
- `RecoveryMayRepeat` compares the results of two recoveries for every saved session of any behaviour. An interrupted child must be all
  that was under way (`OnlyChildUnderWay`): with a second running call of the parent the first recovery resumes what the second one closes.

**The tool registry.** A call is asked for once: it is in the mailbox or has one tool task, never both nor two. So no other handle can
take the place of a tool's own, and a tool inserted and not aborted is where a cancel looks. Ends and replacements of streams do not touch it.

**The stream contract.** What a task heard comes from its current attempt, and a later attempt begins only with nothing
heard; a verdict stands once the task is past its reads. With that each step of a task speaks, ends or stutters in
`StreamContract`, and steps of the registry and of the host stutter.

**The prompt turn.** `Order`: a prompt is sent when the one before is answered, so at most one is between. `Turn`: a turn in progress is that of
a prompt in flight, is live and has not ended; live turn, pending id and latest root run never fall behind a prompt that
started. `Lock`: who drains, cancels or waits holds the lock, and while the last prompt waits to start no cancel is before
it. `Sent`: who waits for the dispatcher has one call there. `Ends`: every end that is anywhere (a result frame still to send, one a prompt or a
cancel keeps, the buffer, a response) is the end of the turn it is kept for, and a prompt whose last poll is over has no turn.
The steps fall into two lemmas, `PromptMoves` and `CancelMoves`, which say what a step that moves one task and the host without a new
turn has to show. That cancels come during the last prompt only is used in `SendCancelPreserves` and nowhere else; without it
the buffer may hold the end of an earlier turn, as section 4 describes.
On top of it, for what the client is asked and told:
- `Reports`: a poll's report is followed by more of the turn only if it is text; each call's number is used once; and while a call waits for an
  answer nobody speaks for the turn.
- `AskInv`: a call is asked about at most once. It is in one place on its way: the turn's budget, the report, awaiting and not yet asked, a frame,
  the dispatcher, asked. The frames of a poll are one note and one thing more, and a question is the last of them (`LeadingFrames`).
- `Decided`: the call a prompt asked about, or whose answer it applies, is the one the turn waits for, or the turn is over. The answer
  itself names no call; so this is why it cannot reach another one.
- `SayInv`, while no cancel was sent: what the client heard, with the one note in a prompt's hand or on the pipe, is what the polls reported; and who
  has the end polled all that was said. A cancel may take the end away from a prompt that has not polled the last text, so it is a condition there.

**The saved sessions.** A *mark* is a record with a sequence, as the records, a line or an item state it. Marks *agree* when sequences follow
the order of the records and no record has two. A file that a failed save left has old marks, or new ones, or a part of either; so
`IInv` says nothing of which save wrote a file, but that its marks are among those of the session being saved, and these among those of
the host that holds the session open (`FilesInv`, `SaveInv`, `MemoryInv`). A record that is made gets a sequence above all of the host's
marks, so all of them still agree, and the files, however many failed saves lie over one another, stay pieces of sessions
that agree. A load then finds sequences in order and changes none but `next`. `ProgressInv` says how far the save came: which files hold what it
writes and which lines of the present one. At its end the files are `FilesOf` of what was saved (`SavedInv`), and reading that back is a calculation:
the items of the records are sorted already (`SortedStays`), and the next sequence depends on the marks alone (`NextByMarks`). Completeness comes in by
`scarred`: only the files of a failed save can lack an item. Of the constants it is assumed that no session's id is what a
truncated pointer reads as (`Torn`), which holds as ids are UUIDs and a truncated file holds part of one at most.

**The current screen.** Typing of the loop's places; the cache, when it is not dirty, is what would be built of the projection; what
was drawn is the projection, with nothing dirty, while the loop waits and no news came since; and a parked loop with
news has a permit. The permit is the point: a mark that comes between the poll and the park is not lost.

**Answered waits.** Who came past a process's mutex left an ended process; a reader is done only at the end of a pipe nobody holds any
more, neither the process nor what it started; the readers are taken by the first request past the mutex, and as long as they are not done it waits for them.

**The output buffer.** Bytes add up over a concatenation (`BytesAdd`), and what a chunk decodes to is a text (`DecodedIsText`). `KeepCuts`: of a text
over the limit the fewest characters go, so one more would be too much. `BufferInv` carries the place of the cut along: an end
of the old output with the new chunk behind it is an end of the new output, and an end of an end is one (`EndOfBoth`, `EndOfEnd`).
So the cut only moves to the right, and what was too long before is too long after.

**Plugins.** The plugins accepted so far build a registry together, as long as no component changed; so a refusal has a
reason in the candidate or in one that is accepted, and the final registry is built. For `AdvertisedIsServed`: the queue and the accepted plugins have the
global ones first, accepted ones of one scope share no name and none takes a built-in one, so the registry's tool of a name is that of the last
plugin that offers it, which is a project's if there is one. `Catalog!FoundIn` orders the slots by `InOrder`.

**The configuration.** What is kept is what `FromToml` makes of the file that was read, and the agents are those of that configuration, accepted
only when their names are distinct after trimming. The rest is a calculation on one configuration.

**Only model-checked.** Liveness (`RunSettles` twice, `EveryRequestServed`, `NothingWaitsForEver`, `KillIsServed`), which rests on fairness and
`ENABLED`, out of the prover's reach. What recursive definitions compute (`StreamedAsCommitted`, `DrawnIsSaid`, `DrawnInOrder`,
`LiveEqualsReplay`): the induction theorems of the library are out of its reach. For one recursive function a least counterexample
does as well (`LeadingFrames`, `DecodedIsText`); for definitions nested as deep as these it was not attempted.
`AskIsHeld` holds in the instance and is not proved: with unbounded loads a late question of a session that was left needs an
invariant over the whole pipe. Not proved: `AwaitingClientIsAsked` and `TranscriptMirrorsRecords` of the projection, and `ShownIsSession`.

## 6. What is not modelled, and why

- **ACP protocol and transport:** serialisation and line I/O. Frames arrive in order on one pipe each way, which is what a child process's
  stdin and stdout give; `TuiClient` and `PromptTurn` rest on that.
- **Session listing, configuration options, the synchronous line protocol** of the server: the first only reads, the second sets
  fields no other handler branches on, the third is compiled for tests only (`server.rs:1639-1841`, `2453-2546`, `2787-2860`,
  `handle_session_prompt`, `run_prompt_turn`).
- **File services of the client** (`read_text_file`, `write_text_file`, path containment): one read or write, no state.
- **What tools do to files, the WASM engine, the provider's HTTP client and the model's text:** external; a call has an outcome, a stream says
  something or ends.
- **`view::render`, `events.rs`, `ui_state`:** no longer called by the program. Colours, terminal set-up, log files: no behaviour over time.
- **`Msg::NewSession`:** has no sender in the program; `create_and_swap_session` is reached from it only.
- **Texts, arguments and timestamps:** no branch reads them, but for the outcome of `read` and the validity of `task` arguments,
  which are modelled.
- **Markdown that no property is about:** indented code, tables, images, emphasis, and blocks inside lists and quotes.
- **Widths of integers:** no counter of the program is near its width in reach of a user; heights are cut to 16 bits where
  the screen has fewer rows than that.
- **Auxiliary crates and the echo example:** not used by the program.
