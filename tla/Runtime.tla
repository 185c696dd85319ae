------------------------------ MODULE Runtime -------------------------------
(* The tasks behind a run: the streams the runtime spawns for StartAssistant,
   with the provider's retry of a connection that failed before it said
   anything, the tool tasks it spawns for ExecuteTool, and the registry through
   which a cancel finds them (runtime/orchestrator.rs, provider/rig.rs).

   The program's runtime has several worker threads: a task runs from the moment
   it is spawned, before its handle is in the registry, and an abort only takes
   effect where the task awaits. The host is external here, reduced to what
   decides which effects it emits; text and reasoning change nothing in it and
   are not queued. *)
EXTENDS Naturals, Sequences, FiniteSets

CONSTANTS Runs, Calls,
          MaxAttempts,     \* OPENAI_STARTUP_STREAM_MAX_ATTEMPTS
          MaxTasks         \* bound on the tasks ever spawned

ASSUME AttemptsAssumption == MaxAttempts \in Nat \ {0}
ASSUME TasksAssumption == MaxTasks \in Nat
ASSUME CallsAreFinite == IsFiniteSet(Calls)

VARIABLES
  tasks,       \* what was spawned, in order; a task is its position
  assistant,   \* run -> the stream its registry entry holds, 0 for none
  tools,       \* run -> call -> the tool task its entry holds, 0 for none
  mailbox,     \* what tasks have sent the host and it has not received
  inserting,   \* the task the host has spawned and not yet inserted, or 0
  run,         \* run -> "new", "active", "ended", "cancelled" (host)
  open         \* run -> the calls the host waits for

taskVars == <<tasks, mailbox>>
registryVars == <<assistant, tools>>
hostVars == <<inserting, run, open>>
vars == <<tasks, assistant, tools, mailbox, inserting, run, open>>

Ids == 1..Len(tasks)
None == "none"
At(t, pcs) == t \in Ids /\ tasks[t].pc \in pcs

(* A task as tokio::spawn leaves it. heard: the events forwarded, each with the
   attempt it came from. *)
Task(kind, r, c) ==
  [kind |-> kind, run |-> r, call |-> c, polling |-> FALSE, aborted |-> FALSE,
   pc |-> IF kind = "stream" THEN "connect" ELSE "execute",
   attempt |-> 1, heard |-> {}, verdict |-> None]

Live(t) == tasks[t].pc \notin {"ended", "dropped"}
Awaits(t) == tasks[t].pc \in {"connect", "read", "execute"} /\ ~tasks[t].polling
SawCall(t) == \E n \in 1..MaxAttempts : <<n, "call">> \in tasks[t].heard

(***************************************************************************)
(* The host                                                                *)
(***************************************************************************)

Init ==
  /\ tasks = <<>> /\ mailbox = <<>> /\ inserting = 0
  /\ assistant = [r \in Runs |-> 0]
  /\ tools = [r \in Runs |-> [c \in Calls |-> 0]]
  /\ run = [r \in Runs |-> "new"]
  /\ open = [r \in Runs |-> {}]

Spawned(kind, r, c) == Append(tasks, Task(kind, r, c))

(* spawn_effect up to its insert: the task may run at once. *)
Spawn(kind, r, c) ==
  /\ Len(tasks) < MaxTasks
  /\ tasks' = Spawned(kind, r, c)
  /\ inserting' = Len(tasks) + 1

Abort(ts) == [t \in Ids |-> IF t \in ts THEN [tasks[t] EXCEPT !.aborted = TRUE] ELSE tasks[t]]

(* insert_assistant_task and insert_tool_task: the handle that was there before
   is aborted. *)
Insert ==
  /\ inserting # 0
  /\ LET new == tasks[inserting] IN
     IF new.kind = "stream"
     THEN /\ tasks' = Abort({assistant[new.run]})
          /\ assistant' = [assistant EXCEPT ![new.run] = inserting]
          /\ UNCHANGED tools
     ELSE /\ tasks' = Abort({tools[new.run][new.call]})
          /\ tools' = [tools EXCEPT ![new.run][new.call] = inserting]
          /\ UNCHANGED assistant
  /\ inserting' = 0
  /\ UNCHANGED <<mailbox, run, open>>

Prompt(r) ==
  /\ inserting = 0 /\ run[r] = "new"
  /\ run' = [run EXCEPT ![r] = "active"]
  /\ Spawn("stream", r, None)
  /\ UNCHANGED <<registryVars, mailbox, open>>

(* cancel_run_tasks: the run's entry is taken out whole and what it holds is
   aborted. *)
Held(r) == {assistant[r]} \cup {tools[r][c] : c \in Calls}

Cancel(r) ==
  /\ inserting = 0 /\ run[r] = "active"
  /\ run' = [run EXCEPT ![r] = "cancelled"]
  /\ tasks' = Abort(Held(r))
  /\ assistant' = [assistant EXCEPT ![r] = 0]
  /\ tools' = [tools EXCEPT ![r] = [c \in Calls |-> 0]]
  /\ UNCHANGED <<mailbox, inserting, open>>

(* What the host makes of a message of a run that is active: a call is executed,
   the last result of a batch starts the next stream, a verdict ends the run. *)
Receive ==
  /\ inserting = 0 /\ mailbox # <<>>
  /\ mailbox' = Tail(mailbox)
  /\ UNCHANGED registryVars
  /\ LET message == Head(mailbox)
         r == message.run IN
     \/ /\ run[r] # "active"
        /\ UNCHANGED <<tasks, hostVars>>
     \/ /\ run[r] = "active" /\ message.kind = "call"
        /\ open' = [open EXCEPT ![r] = @ \cup {message.call}]
        /\ Spawn("tool", r, message.call)
        /\ UNCHANGED run
     \/ /\ run[r] = "active" /\ message.kind = "finished"
        /\ open' = [open EXCEPT ![r] = @ \ {message.call}]
        /\ IF open'[r] = {} THEN Spawn("stream", r, None) ELSE UNCHANGED <<tasks, inserting>>
        /\ UNCHANGED run
     \/ /\ run[r] = "active" /\ message.kind \in {"done", "failed"}
        /\ run' = [run EXCEPT ![r] = "ended"]
        /\ UNCHANGED <<tasks, inserting, open>>

(***************************************************************************)
(* A stream                                                                *)
(***************************************************************************)

Send(t, kind, c) == mailbox' = Append(mailbox, [kind |-> kind, run |-> tasks[t].run, call |-> c])

(* A step of the task's future: it may start unless an abort came first, and
   once it runs it goes on until it awaits. *)
MayStep(t, pcs) == At(t, pcs) /\ (tasks[t].polling \/ ~tasks[t].aborted)

Become(t, pc, attempt, heard) ==
  tasks' = [tasks EXCEPT ![t].pc = pc, ![t].polling = TRUE,
                         ![t].attempt = attempt, ![t].heard = heard]

\* mutant: a failure is retried whatever was forwarded
ShouldRetryAlways(attempt, forwarded, retryable) == attempt < MaxAttempts /\ retryable

(* should_retry_openai_startup_failure, should_retry_empty_startup_stream. *)
ShouldRetry(attempt, forwarded, retryable) ==
  ~forwarded /\ attempt < MaxAttempts /\ retryable

Forwarded(t) == \E event \in tasks[t].heard : event[1] = tasks[t].attempt

(* The failure arms of stream_openai_with_retry: another attempt, or the error
   becomes the task's message. *)
FailAttempt(t, retryable) ==
  LET task == tasks[t] IN
  IF ShouldRetry(task.attempt, Forwarded(t), retryable)
  THEN Become(t, "connect", task.attempt + 1, task.heard) /\ UNCHANGED mailbox
  ELSE /\ tasks' = [tasks EXCEPT ![t].pc = "remove", ![t].polling = TRUE, ![t].verdict = "failed"]
       /\ Send(t, "failed", None)

Connect(t) ==
  /\ MayStep(t, {"connect"})
  /\ \/ Become(t, "read", tasks[t].attempt, tasks[t].heard) /\ UNCHANGED mailbox
     \/ \E retryable \in BOOLEAN : FailAttempt(t, retryable)
  /\ UNCHANGED <<registryVars, hostVars>>

Hear(t, kind) == Become(t, "read", tasks[t].attempt, tasks[t].heard \cup {<<tasks[t].attempt, kind>>})

ReadText(t) ==
  /\ MayStep(t, {"read"})
  /\ Hear(t, "text")
  /\ UNCHANGED <<mailbox, registryVars, hostVars>>

(* A call whose id is empty fails the stream instead (ReadFailure). Which of the
   calls not yet asked for it is makes no difference. The bound on the tasks
   leaves room for the call's own task and for the stream its result starts. *)
Asked == {tasks[t].call : t \in Ids} \cup {mailbox[i].call : i \in 1..Len(mailbox)}

ReadCall(t) ==
  /\ MayStep(t, {"read"})
  /\ Hear(t, "call")
  /\ Calls \ Asked # {} /\ Len(tasks) + Len(mailbox) + 2 <= MaxTasks
  /\ Send(t, "call", CHOOSE c \in Calls \ Asked : TRUE)
  /\ UNCHANGED <<registryVars, hostVars>>

(* Empty reasoning, deltas of calls and the final response are read and not
   forwarded. *)
ReadNothing(t) ==
  /\ MayStep(t, {"read"}) /\ ~tasks[t].polling
  /\ Become(t, "read", tasks[t].attempt, tasks[t].heard)
  /\ UNCHANGED <<mailbox, registryVars, hostVars>>

ReadFailure(t) ==
  /\ MayStep(t, {"read"})
  /\ \E retryable \in BOOLEAN : FailAttempt(t, retryable)
  /\ UNCHANGED <<registryVars, hostVars>>

\* mutant: a stream that said nothing is done
ReadEndEmpty(t) ==
  /\ MayStep(t, {"read"})
  /\ IF SawCall(t)
     THEN /\ tasks' = [tasks EXCEPT ![t].pc = "remove", ![t].polling = TRUE, ![t].verdict = "silent"]
          /\ UNCHANGED mailbox
     ELSE /\ tasks' = [tasks EXCEPT ![t].pc = "remove", ![t].polling = TRUE, ![t].verdict = "done"]
          /\ Send(t, "done", None)
  /\ UNCHANGED <<registryVars, hostVars>>

(* The stream is over: tried again when nothing was forwarded, done, or silent
   when a tool was asked for. *)
ReadEnd(t) ==
  /\ MayStep(t, {"read"})
  /\ IF ~Forwarded(t) THEN FailAttempt(t, TRUE)
     ELSE IF SawCall(t)
     THEN /\ tasks' = [tasks EXCEPT ![t].pc = "remove", ![t].polling = TRUE, ![t].verdict = "silent"]
          /\ UNCHANGED mailbox
     ELSE /\ tasks' = [tasks EXCEPT ![t].pc = "remove", ![t].polling = TRUE, ![t].verdict = "done"]
          /\ Send(t, "done", None)
  /\ UNCHANGED <<registryVars, hostVars>>

\* mutant: the whole entry of the run is removed
RemoveEntry(t) ==
  /\ At(t, {"remove"}) /\ tasks[t].kind = "stream"
  /\ tasks' = [tasks EXCEPT ![t].pc = "ended"]
  /\ assistant' = [assistant EXCEPT ![tasks[t].run] = 0]
  /\ tools' = [tools EXCEPT ![tasks[t].run] = [c \in Calls |-> 0]]
  /\ UNCHANGED <<mailbox, hostVars>>

(* remove_assistant_task: whatever stream the entry holds by now. *)
RemoveStream(t) ==
  /\ At(t, {"remove"}) /\ tasks[t].kind = "stream"
  /\ tasks' = [tasks EXCEPT ![t].pc = "ended"]
  /\ assistant' = [assistant EXCEPT ![tasks[t].run] = 0]
  /\ UNCHANGED <<tools, mailbox, hostVars>>

(***************************************************************************)
(* A tool                                                                  *)
(***************************************************************************)

(* The tool runs inside one poll, the plugin's timeout around it included: the
   timer is looked at only when the call has returned. *)
BeginTool(t) ==
  /\ At(t, {"execute"}) /\ ~tasks[t].aborted
  /\ tasks' = [tasks EXCEPT ![t].pc = "executing", ![t].polling = TRUE]
  /\ UNCHANGED <<mailbox, registryVars, hostVars>>

\* mutant: no answer when the tool times out
FinishToolOrGiveUp(t) ==
  /\ At(t, {"executing"})
  /\ tasks' = [tasks EXCEPT ![t].pc = "remove"]
  /\ Send(t, "finished", tasks[t].call) \/ UNCHANGED mailbox
  /\ UNCHANGED <<registryVars, hostVars>>

(* A result, an error or an output past max_output_bytes: an answer in any case. *)
FinishTool(t) ==
  /\ At(t, {"executing"})
  /\ tasks' = [tasks EXCEPT ![t].pc = "remove"]
  /\ Send(t, "finished", tasks[t].call)
  /\ UNCHANGED <<registryVars, hostVars>>

(* remove_tool_task. *)
RemoveTool(t) ==
  /\ At(t, {"remove"}) /\ tasks[t].kind = "tool"
  /\ tasks' = [tasks EXCEPT ![t].pc = "ended"]
  /\ tools' = [tools EXCEPT ![tasks[t].run][tasks[t].call] = 0]
  /\ UNCHANGED <<assistant, mailbox, hostVars>>

(***************************************************************************)
(* The scheduler                                                           *)
(***************************************************************************)

(* The future returns Pending: it awaits the connection or the next event. *)
Yield(t) ==
  /\ At(t, {"connect", "read"}) /\ tasks[t].polling
  /\ tasks' = [tasks EXCEPT ![t].polling = FALSE]
  /\ UNCHANGED <<mailbox, registryVars, hostVars>>

(* An aborted task that awaits is dropped, its registry entry left as it is. *)
Drop(t) ==
  /\ t \in Ids /\ Awaits(t) /\ tasks[t].aborted
  /\ tasks' = [tasks EXCEPT ![t].pc = "dropped",
                            ![t].verdict = IF @ = None THEN "silent" ELSE @]
  /\ UNCHANGED <<mailbox, registryVars, hostVars>>

Step(t) ==
  \/ Connect(t) \/ ReadText(t) \/ ReadCall(t) \/ ReadNothing(t) \/ ReadFailure(t)
  \/ ReadEnd(t) \/ RemoveStream(t) \/ BeginTool(t) \/ FinishTool(t) \/ RemoveTool(t)
  \/ Yield(t) \/ Drop(t)

Host == Insert \/ Receive \/ \E r \in Runs : Prompt(r) \/ Cancel(r)

(* Every task is done, and no message is left. *)
Settled ==
  /\ mailbox = <<>> /\ inserting = 0
  /\ \A r \in Runs : run[r] \notin {"new", "active"}
  /\ \A t \in Ids : ~Live(t)
  /\ UNCHANGED vars

Next == Host \/ (\E t \in Ids : Step(t)) \/ Settled

(* The host's loop and the workers go on. A provider that accepted a request
   ends its answer in the end: the code has no timeout of its own, so this is
   an assumption on the provider. Nobody has to prompt or to cancel. *)
Ends(t) == \/ Connect(t) \/ ReadEnd(t) \/ RemoveStream(t) \/ BeginTool(t)
           \/ FinishTool(t) \/ RemoveTool(t) \/ Drop(t)

Fairness == /\ WF_vars(Insert) /\ WF_vars(Receive)
            /\ \A t \in 1..MaxTasks : WF_vars(Ends(t))

Spec == Init /\ [][Next]_vars /\ Fairness
=============================================================================
