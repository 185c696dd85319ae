------------------------- MODULE RuntimeProperties -------------------------
(* What the host may rely on from the runtime's tasks. *)
EXTENDS Runtime

TaskType ==
  [kind: {"stream", "tool"}, run: Runs, call: Calls \cup {None},
   polling: BOOLEAN, aborted: BOOLEAN,
   pc: {"connect", "read", "execute", "executing", "remove", "ended", "dropped"},
   attempt: 1..MaxAttempts, heard: SUBSET ((1..MaxAttempts) \X {"text", "call"}),
   verdict: {None, "done", "failed", "silent"}]

(* Every variable has its type. *)
TypeOK ==
  /\ tasks \in Seq(TaskType) /\ Len(tasks) <= MaxTasks
  /\ assistant \in [Runs -> 0..Len(tasks)]
  /\ tools \in [Runs -> [Calls -> 0..Len(tasks)]]
  /\ mailbox \in Seq([kind: {"call", "finished", "done", "failed"}, run: Runs, call: Calls \cup {None}])
  /\ inserting \in 0..Len(tasks)
  /\ run \in [Runs -> {"new", "active", "ended", "cancelled"}]
  /\ open \in [Runs -> SUBSET Calls]

(* A connection is tried again only while the host has heard nothing of it: what
   a stream said never comes from two attempts, so no answer begins twice. *)
NothingRepeated ==
  \A t \in Ids : \A e1, e2 \in tasks[t].heard : e1[1] = e2[1]

(* A tool that may still start or is running can be found by a cancel, whatever
   streams of its run end meanwhile: a stream that goes leaves the run's entry
   to the tools in it. *)
ToolsAreCancellable ==
  \A t \in Ids : tasks[t].kind = "tool" /\ Live(t) /\ ~tasks[t].aborted /\ t # inserting
                   => tools[tasks[t].run][tasks[t].call] = t

(* What the host sees of a stream task, with its retries and its aborts, is a
   stream of StreamContract. *)
Contract == INSTANCE StreamContract WITH
  Streams <- 1..MaxTasks,
  said <- [t \in 1..MaxTasks |-> IF t \in Ids THEN {e[2] : e \in tasks[t].heard} ELSE {}],
  verdict <- [t \in 1..MaxTasks |-> IF t \in Ids THEN tasks[t].verdict ELSE None]
KeepsContract == Contract!Spec

(* A run that began is ended by a verdict or cancelled: a stream that is aborted
   or silent has left behind a call, whose result brings the next stream. *)
RunSettles == \A r \in Runs : run[r] = "active" ~> run[r] # "active"
=============================================================================
