---------------------------- MODULE RuntimeProofs ----------------------------
(* The runtime's streams keep their contract, for any number of runs, calls,
   tasks and attempts. The invariant: what a stream was heard to say is all of
   its present attempt, because it is tried again only when nothing of the
   attempt was forwarded. *)
EXTENDS RuntimeProperties, TLAPS

Verdicts == {"done", "failed", "silent"}
Kinds == {"text", "call"}

StreamTask ==
  [kind: {"stream", "tool"}, run: Runs, call: Calls \cup {None},
   polling: BOOLEAN, aborted: BOOLEAN,
   pc: {"connect", "read", "execute", "executing", "remove", "ended", "dropped"},
   attempt: 1..MaxAttempts, heard: SUBSET ((1..MaxAttempts) \X Kinds),
   verdict: {None} \cup Verdicts]

Message == [kind: {"call", "finished", "done", "failed"}, run: Runs, call: Calls \cup {None}]

(* A task that may still speak has no verdict. *)
Sane(task) ==
  /\ \A event \in task.heard : event[1] = task.attempt
  /\ task.pc \in {"connect", "read"} => task.verdict = None

IInv ==
  /\ tasks \in Seq(StreamTask) /\ Len(tasks) <= MaxTasks
  /\ mailbox \in Seq(Message)
  /\ \A t \in Ids : Sane(tasks[t])

(* What the contract sees of a task. *)
Said(task) == {e[2] : e \in task.heard}

SameTo(old, new) == Said(new) = Said(old) /\ new.verdict = old.verdict
SpeaksTo(old, new) ==
  /\ old.verdict = None /\ new.verdict = None
  /\ \E kind \in Kinds : Said(new) = Said(old) \cup {kind}
EndsTo(old, new) ==
  /\ old.verdict = None /\ new.verdict \in Verdicts /\ Said(new) = Said(old)
  /\ new.verdict = "done" => Said(old) = {"text"}

SaidMap == [t \in 1..MaxTasks |-> IF t \in Ids THEN {e[2] : e \in tasks[t].heard} ELSE {}]
VerdictMap == [t \in 1..MaxTasks |-> IF t \in Ids THEN tasks[t].verdict ELSE None]
ContractStep == Contract!Next \/ (SaidMap' = SaidMap /\ VerdictMap' = VerdictMap)

-----------------------------------------------------------------------------
LEMMA TaskOfId ==
  ASSUME IInv, NEW t \in Ids
  PROVE  tasks[t] \in StreamTask /\ Sane(tasks[t])
BY DEF IInv, Ids

(* Three ways in which a step changes the tasks. *)

(* One more task, which has said nothing. *)
LEMMA SpawnKeeps ==
  ASSUME IInv, mailbox' \in Seq(Message),
         NEW kind \in {"stream", "tool"}, NEW r \in Runs, NEW c \in Calls \cup {None},
         Spawn(kind, r, c)
  PROVE  IInv' /\ ContractStep
<1> DEFINE new == Task(kind, r, c)
<1>1. new \in StreamTask /\ Sane(new) /\ new.heard = {} /\ new.verdict = None
  BY AttemptsAssumption DEF Task, StreamTask, None, Sane
<1>2. tasks' = Append(tasks, new) /\ Len(tasks) < MaxTasks
  BY DEF Spawn, Spawned
<1>3. tasks' \in Seq(StreamTask) /\ Len(tasks') = Len(tasks) + 1
  BY <1>1, <1>2 DEF IInv
<1>4. \A t \in Ids' : tasks'[t] = IF t \in Ids THEN tasks[t] ELSE new
  BY <1>2, <1>3 DEF Ids, IInv
<1>5. Ids \subseteq Ids'
  BY <1>3 DEF Ids, IInv
<1>6. IInv'
  <2>1. \A t \in Ids' : Sane(tasks'[t])
    BY <1>1, <1>4 DEF IInv
  <2>2. Len(tasks') <= MaxTasks
    BY <1>2, <1>3, TasksAssumption DEF IInv
  <2>3. \A t \in Ids' : Sane(tasks[t])'
    BY <2>1 DEF Sane
  <2> QED BY <1>3, <2>2, <2>3 DEF IInv
<1>7. SaidMap' = SaidMap
  BY <1>1, <1>4, <1>5 DEF SaidMap
<1>8. VerdictMap' = VerdictMap
  BY <1>1, <1>4, <1>5 DEF VerdictMap
<1> QED BY <1>6, <1>7, <1>8 DEF ContractStep

(* One task becomes another sane one, and speaks, ends or does neither. *)
LEMMA ChangeKeeps ==
  ASSUME IInv, mailbox' \in Seq(Message), NEW t \in Ids, NEW new \in StreamTask,
         tasks' = [tasks EXCEPT ![t] = new], Sane(new),
         SameTo(tasks[t], new) \/ SpeaksTo(tasks[t], new) \/ EndsTo(tasks[t], new)
  PROVE  IInv' /\ ContractStep
<1>1. tasks' \in Seq(StreamTask) /\ Len(tasks') = Len(tasks) /\ Ids' = Ids
  BY DEF IInv, Ids
<1>2. tasks'[t] = new /\ \A s \in Ids \ {t} : tasks'[s] = tasks[s]
  BY DEF IInv, Ids
<1>3. IInv'
  BY <1>1, <1>2 DEF IInv, Sane
<1>4. t \in 1..MaxTasks
  BY TasksAssumption DEF IInv, Ids
<1>5. SaidMap' = [SaidMap EXCEPT ![t] = Said(new)]
  BY <1>1, <1>2, <1>4 DEF SaidMap, Said
<1>6. VerdictMap' = [VerdictMap EXCEPT ![t] = new.verdict]
  <2> DEFINE old(s) == IF s \in Ids THEN tasks[s].verdict ELSE None
             now(s) == IF s \in Ids THEN tasks'[s].verdict ELSE None
  <2>1. VerdictMap = [s \in 1..MaxTasks |-> old(s)] /\ VerdictMap' = [s \in 1..MaxTasks |-> now(s)]
    BY <1>1 DEF VerdictMap
  <2>2. now(t) = new.verdict /\ \A s \in (1..MaxTasks) \ {t} : now(s) = old(s)
    BY <1>2
  <2> HIDE DEF old, now
  <2> QED BY <1>4, <2>1, <2>2
<1>7. SaidMap[t] = Said(tasks[t]) /\ VerdictMap[t] = tasks[t].verdict
  BY <1>4 DEF SaidMap, VerdictMap, Said
<1>8. CASE SameTo(tasks[t], new)
  <2>1. SaidMap' = SaidMap
    BY <1>4, <1>5, <1>7, <1>8 DEF SameTo, SaidMap
  <2>2. VerdictMap' = VerdictMap
    BY <1>4, <1>6, <1>7, <1>8 DEF SameTo, VerdictMap
  <2> QED BY <1>3, <2>1, <2>2 DEF ContractStep
<1>9. CASE SpeaksTo(tasks[t], new)
  <2>1. VerdictMap' = VerdictMap
    BY <1>4, <1>6, <1>7, <1>9 DEF SpeaksTo, VerdictMap
  <2>2. \E kind \in Kinds : SaidMap' = [SaidMap EXCEPT ![t] = @ \cup {kind}]
    BY <1>5, <1>7, <1>9 DEF SpeaksTo
  <2>3. Contract!Speak(t)
    BY <1>7, <1>9, <2>1, <2>2 DEF Contract!Speak, SpeaksTo, Kinds, SaidMap, VerdictMap, None
  <2> QED BY <1>3, <1>4, <2>3 DEF ContractStep, Contract!Next
<1>10. CASE EndsTo(tasks[t], new)
  <2>1. SaidMap' = SaidMap
    BY <1>4, <1>5, <1>7, <1>10 DEF EndsTo, SaidMap
  <2>2. Contract!End(t)
    BY <1>6, <1>7, <1>10, <2>1 DEF Contract!End, EndsTo, Verdicts, SaidMap, VerdictMap, None
  <2> QED BY <1>3, <1>4, <2>2 DEF ContractStep, Contract!Next
<1> QED BY <1>8, <1>9, <1>10

(* Tasks are marked as aborted. *)
LEMMA AbortKeeps ==
  ASSUME IInv, mailbox' \in Seq(Message), NEW ts, tasks' = Abort(ts)
  PROVE  IInv' /\ ContractStep
<1>1. tasks' \in Seq(StreamTask) /\ Len(tasks') = Len(tasks) /\ Ids' = Ids
  <2>1. ASSUME NEW t \in Ids PROVE Abort(ts)[t] \in StreamTask
    <3>1. tasks[t] \in StreamTask
      BY TaskOfId
    <3>2. [tasks[t] EXCEPT !.aborted = TRUE] \in StreamTask
      BY <3>1 DEF StreamTask
    <3>3. Abort(ts)[t] = IF t \in ts THEN [tasks[t] EXCEPT !.aborted = TRUE] ELSE tasks[t]
      BY DEF Abort
    <3> QED BY <3>1, <3>2, <3>3
  <2>2. Len(tasks) \in Nat /\ Ids = 1..Len(tasks)
    BY DEF IInv, Ids
  <2>3. tasks' = [t \in 1..Len(tasks) |-> Abort(ts)[t]]
    BY <2>2 DEF Abort
  <2> DEFINE at(t) == Abort(ts)[t]
             n == Len(tasks)
  <2>4. tasks' = [t \in 1..n |-> at(t)] /\ n \in Nat /\ \A t \in 1..n : at(t) \in StreamTask
    BY <2>1, <2>2, <2>3
  <2> HIDE DEF at, n
  <2>5. tasks' \in Seq(StreamTask) /\ Len(tasks') = n
    BY <2>4
  <2>6. tasks' \in Seq(StreamTask) /\ Len(tasks') = Len(tasks)
    BY <2>5 DEF n
  <2> QED BY <2>6 DEF Ids
<1>2. \A t \in Ids : /\ tasks'[t].heard = tasks[t].heard /\ tasks'[t].verdict = tasks[t].verdict
                     /\ tasks'[t].pc = tasks[t].pc /\ tasks'[t].attempt = tasks[t].attempt
  BY DEF IInv, Ids, Abort, StreamTask
<1>3. IInv'
  BY <1>1, <1>2 DEF IInv, Sane
<1>4. SaidMap' = SaidMap /\ VerdictMap' = VerdictMap
  BY <1>1, <1>2 DEF SaidMap, VerdictMap
<1> QED BY <1>3, <1>4 DEF ContractStep

(* Nothing happens to the tasks. *)
LEMMA StillKeeps ==
  ASSUME IInv, mailbox' \in Seq(Message), tasks' = tasks
  PROVE  IInv' /\ ContractStep
BY DEF IInv, Ids, Sane, ContractStep, SaidMap, VerdictMap

-----------------------------------------------------------------------------
(* The steps *)

LEMMA OneMoreKind ==
  ASSUME NEW events, NEW n, NEW kind
  PROVE  {e[2] : e \in events \cup {<<n, kind>>}} = {e[2] : e \in events} \cup {kind}
<1> DEFINE second(e) == e[2]
<1>1. second(<<n, kind>>) = kind
  OBVIOUS
<1> HIDE DEF second
<1>2. {second(e) : e \in events \cup {<<n, kind>>}} = {second(e) : e \in events} \cup {kind}
  BY <1>1
<1> QED BY <1>2 DEF second

LEMMA SendKeepsType ==
  ASSUME IInv, NEW t \in Ids, NEW kind \in {"call", "finished", "done", "failed"},
         NEW c \in Calls \cup {None}, Send(t, kind, c)
  PROVE  mailbox' \in Seq(Message)
<1>1. tasks[t].run \in Runs
  BY TaskOfId DEF StreamTask
<1>2. [kind |-> kind, run |-> tasks[t].run, call |-> c] \in Message
  BY <1>1 DEF Message
<1> QED BY <1>2 DEF IInv, Send

(* A failed attempt: either nothing of it was forwarded and the next one starts
   with nothing heard, or the stream ends as failed. *)
LEMMA FailAttemptKeeps ==
  ASSUME IInv, NEW t \in Ids, tasks[t].pc \in {"connect", "read"}, NEW retryable \in BOOLEAN,
         FailAttempt(t, retryable)
  PROVE  IInv' /\ ContractStep
<1> DEFINE task == tasks[t]
<1>1. task \in StreamTask /\ Sane(task) /\ task.verdict = None
  BY TaskOfId DEF Sane
<1>2. CASE ShouldRetry(task.attempt, Forwarded(t), retryable)
  <2> DEFINE new == [task EXCEPT !.pc = "connect", !.polling = TRUE,
                                 !.attempt = task.attempt + 1, !.heard = task.heard]
  <2>1. task.heard = {} /\ task.attempt + 1 \in 1..MaxAttempts
    BY <1>1, <1>2, AttemptsAssumption DEF ShouldRetry, Forwarded, Sane, StreamTask
  <2>2. tasks' = [tasks EXCEPT ![t] = new] /\ mailbox' = mailbox
    BY <1>2 DEF FailAttempt, Become, IInv, Ids
  <2>3. new \in StreamTask /\ new.heard = {} /\ new.verdict = None
    BY <1>1, <2>1 DEF StreamTask
  <2>4. Sane(new) /\ SameTo(task, new)
    BY <1>1, <2>1, <2>3 DEF Sane, SameTo, Said
  <2>5. mailbox' \in Seq(Message)
    BY <2>2 DEF IInv
  <2> HIDE DEF new
  <2> QED BY <2>2, <2>3, <2>4, <2>5, ChangeKeeps
<1>3. CASE ~ShouldRetry(task.attempt, Forwarded(t), retryable)
  <2> DEFINE new == [task EXCEPT !.pc = "remove", !.polling = TRUE, !.verdict = "failed"]
  <2>1. tasks' = [tasks EXCEPT ![t] = new] /\ Send(t, "failed", None)
    BY <1>3 DEF FailAttempt, IInv, Ids
  <2>2. new \in StreamTask /\ Sane(new) /\ EndsTo(task, new)
    BY <1>1 DEF StreamTask, Sane, EndsTo, Verdicts, Said
  <2>3. mailbox' \in Seq(Message)
    BY <2>1, SendKeepsType
  <2> HIDE DEF new
  <2> QED BY <2>1, <2>2, <2>3, ChangeKeeps
<1> QED BY <1>2, <1>3

LEMMA ReadTextKeeps ==
  ASSUME IInv, NEW t \in Ids, ReadText(t)
  PROVE  IInv' /\ ContractStep
<1> DEFINE task == tasks[t]
           new == [task EXCEPT !.pc = "read", !.polling = TRUE, !.attempt = task.attempt,
                               !.heard = task.heard \cup {<<task.attempt, "text">>}]
<1>1. task \in StreamTask /\ Sane(task) /\ task.verdict = None
  BY TaskOfId DEF Sane, ReadText, MayStep, At
<1>2. tasks' = [tasks EXCEPT ![t] = new] /\ mailbox' \in Seq(Message)
  BY DEF ReadText, Hear, Become, IInv, Ids
<1>3. new \in StreamTask /\ Sane(new)
  <2>1. task.heard \cup {<<task.attempt, "text">>} \in SUBSET ((1..MaxAttempts) \X Kinds)
    BY <1>1 DEF StreamTask, Kinds
  <2>2. new \in StreamTask
    BY <1>1, <2>1 DEF StreamTask
  <2>3. Sane(new)
    BY <1>1 DEF StreamTask, Sane
  <2> QED BY <2>2, <2>3
<1>4. Said(new) = Said(task) \cup {"text"} /\ new.verdict = None
  <2>1. /\ new.heard = task.heard \cup {<<task.attempt, "text">>}
        /\ new.verdict = None
    BY <1>1 DEF StreamTask
  <2> HIDE DEF new, task
  <2> DEFINE events == task.heard
             n == task.attempt
  <2>2. new.heard = events \cup {<<n, "text">>} /\ Said(task) = {e[2] : e \in events}
    BY <2>1 DEF Said
  <2> HIDE DEF events, n
  <2>3. {e[2] : e \in events \cup {<<n, "text">>}} = {e[2] : e \in events} \cup {"text"}
    BY OneMoreKind
  <2>4. Said(new) = Said(task) \cup {"text"}
    BY <2>2, <2>3 DEF Said
  <2> QED BY <2>1, <2>4
<1> HIDE DEF new
<1> QED BY <1>1, <1>2, <1>3, <1>4, ChangeKeeps DEF SpeaksTo, Kinds

LEMMA ReadCallKeeps ==
  ASSUME IInv, NEW t \in Ids, ReadCall(t)
  PROVE  IInv' /\ ContractStep
<1> DEFINE task == tasks[t]
           new == [task EXCEPT !.pc = "read", !.polling = TRUE, !.attempt = task.attempt,
                               !.heard = task.heard \cup {<<task.attempt, "call">>}]
           c == CHOOSE d \in Calls \ Asked : TRUE
<1>1. task \in StreamTask /\ Sane(task) /\ task.verdict = None
  BY TaskOfId DEF Sane, ReadCall, MayStep, At
<1>2. tasks' = [tasks EXCEPT ![t] = new] /\ Send(t, "call", c) /\ c \in Calls \cup {None}
  BY DEF ReadCall, Hear, Become, IInv, Ids
<1>3. mailbox' \in Seq(Message)
  <2> HIDE DEF c
  <2> QED BY <1>2, SendKeepsType
<1>4. new \in StreamTask /\ Sane(new)
  <2>1. task.heard \cup {<<task.attempt, "call">>} \in SUBSET ((1..MaxAttempts) \X Kinds)
    BY <1>1 DEF StreamTask, Kinds
  <2>2. new \in StreamTask
    BY <1>1, <2>1 DEF StreamTask
  <2>3. Sane(new)
    BY <1>1 DEF StreamTask, Sane
  <2> QED BY <2>2, <2>3
<1>5. Said(new) = Said(task) \cup {"call"} /\ new.verdict = None
  <2>1. /\ new.heard = task.heard \cup {<<task.attempt, "call">>}
        /\ new.verdict = None
    BY <1>1 DEF StreamTask
  <2> HIDE DEF new, task
  <2> DEFINE events == task.heard
             n == task.attempt
  <2>2. new.heard = events \cup {<<n, "call">>} /\ Said(task) = {e[2] : e \in events}
    BY <2>1 DEF Said
  <2> HIDE DEF events, n
  <2>3. {e[2] : e \in events \cup {<<n, "call">>}} = {e[2] : e \in events} \cup {"call"}
    BY OneMoreKind
  <2>4. Said(new) = Said(task) \cup {"call"}
    BY <2>2, <2>3 DEF Said
  <2> QED BY <2>1, <2>4
<1> HIDE DEF new
<1> QED BY <1>1, <1>2, <1>3, <1>4, <1>5, ChangeKeeps DEF SpeaksTo, Kinds

(* The stream is over: when something was forwarded and no call was, what was
   said is text. *)
LEMMA ReadEndKeeps ==
  ASSUME IInv, NEW t \in Ids, ReadEnd(t)
  PROVE  IInv' /\ ContractStep
<1> DEFINE task == tasks[t]
<1>1. task \in StreamTask /\ Sane(task) /\ task.verdict = None /\ task.pc = "read"
  BY TaskOfId DEF Sane, ReadEnd, MayStep, At
<1>2. CASE ~Forwarded(t)
  BY <1>1, <1>2, FailAttemptKeeps DEF ReadEnd
<1>3. CASE Forwarded(t) /\ SawCall(t)
  <2> DEFINE new == [task EXCEPT !.pc = "remove", !.polling = TRUE, !.verdict = "silent"]
  <2>1. tasks' = [tasks EXCEPT ![t] = new] /\ mailbox' \in Seq(Message)
    BY <1>3 DEF ReadEnd, IInv, Ids
  <2>2. new \in StreamTask /\ Sane(new) /\ EndsTo(task, new)
    BY <1>1 DEF StreamTask, Sane, EndsTo, Verdicts, Said
  <2> HIDE DEF new
  <2> QED BY <2>1, <2>2, ChangeKeeps
<1>4. CASE Forwarded(t) /\ ~SawCall(t)
  <2> DEFINE new == [task EXCEPT !.pc = "remove", !.polling = TRUE, !.verdict = "done"]
  <2>1. tasks' = [tasks EXCEPT ![t] = new] /\ Send(t, "done", None)
    BY <1>4 DEF ReadEnd, IInv, Ids
  <2>2. mailbox' \in Seq(Message)
    BY <2>1, SendKeepsType
  <2>3. \A e \in task.heard : e[2] = "text"
    BY <1>1, <1>4 DEF SawCall, StreamTask, Kinds
  <2>4. Said(task) = {"text"}
    BY <1>4, <2>3 DEF Said, Forwarded
  <2>5. new \in StreamTask /\ Sane(new) /\ EndsTo(task, new)
    BY <1>1, <2>4 DEF StreamTask, Sane, EndsTo, Verdicts, Said
  <2> HIDE DEF new
  <2> QED BY <2>1, <2>2, <2>5, ChangeKeeps
<1> QED BY <1>2, <1>3, <1>4

(* The other steps of a task change neither what it said nor, while it may still
   speak, its verdict. *)
LEMMA QuietStepKeeps ==
  ASSUME IInv, NEW t \in Ids,
         \/ ReadNothing(t) \/ RemoveStream(t) \/ BeginTool(t) \/ FinishTool(t)
         \/ RemoveTool(t) \/ Yield(t) \/ Drop(t)
  PROVE  IInv' /\ ContractStep
<1> DEFINE task == tasks[t]
<1>1. task \in StreamTask /\ Sane(task)
  BY TaskOfId
<1>2. CASE ReadNothing(t)
  <2> DEFINE new == [task EXCEPT !.pc = "read", !.polling = TRUE,
                                 !.attempt = task.attempt, !.heard = task.heard]
  <2>1. tasks' = [tasks EXCEPT ![t] = new] /\ mailbox' \in Seq(Message) /\ task.pc = "read"
    BY <1>2 DEF ReadNothing, Become, IInv, Ids, MayStep, At
  <2>2. new \in StreamTask /\ Sane(new) /\ SameTo(task, new)
    BY <1>1, <2>1 DEF StreamTask, Sane, SameTo, Said
  <2> HIDE DEF new
  <2> QED BY <2>1, <2>2, ChangeKeeps
<1>3. CASE RemoveStream(t) \/ RemoveTool(t)
  <2> DEFINE new == [task EXCEPT !.pc = "ended"]
  <2>1. tasks' = [tasks EXCEPT ![t] = new] /\ mailbox' \in Seq(Message)
    BY <1>3 DEF RemoveStream, RemoveTool, IInv, Ids
  <2>2. new \in StreamTask /\ Sane(new) /\ SameTo(task, new)
    BY <1>1 DEF StreamTask, Sane, SameTo, Said
  <2> HIDE DEF new
  <2> QED BY <2>1, <2>2, ChangeKeeps
<1>4. CASE BeginTool(t)
  <2> DEFINE new == [task EXCEPT !.pc = "executing", !.polling = TRUE]
  <2>1. tasks' = [tasks EXCEPT ![t] = new] /\ mailbox' \in Seq(Message)
    BY <1>4 DEF BeginTool, IInv, Ids
  <2>2. new \in StreamTask /\ Sane(new) /\ SameTo(task, new)
    BY <1>1 DEF StreamTask, Sane, SameTo, Said
  <2> HIDE DEF new
  <2> QED BY <2>1, <2>2, ChangeKeeps
<1>5. CASE FinishTool(t)
  <2> DEFINE new == [task EXCEPT !.pc = "remove"]
  <2>1. tasks' = [tasks EXCEPT ![t] = new] /\ Send(t, "finished", task.call)
    BY <1>5 DEF FinishTool, IInv, Ids
  <2>2. mailbox' \in Seq(Message)
    BY <1>1, <2>1, SendKeepsType DEF StreamTask
  <2>3. new \in StreamTask /\ Sane(new) /\ SameTo(task, new)
    BY <1>1 DEF StreamTask, Sane, SameTo, Said
  <2> HIDE DEF new
  <2> QED BY <2>1, <2>2, <2>3, ChangeKeeps
<1>6. CASE Yield(t)
  <2> DEFINE new == [task EXCEPT !.polling = FALSE]
  <2>1. tasks' = [tasks EXCEPT ![t] = new] /\ mailbox' \in Seq(Message)
    BY <1>6 DEF Yield, IInv, Ids
  <2>2. new \in StreamTask /\ Sane(new) /\ SameTo(task, new)
    BY <1>1 DEF StreamTask, Sane, SameTo, Said
  <2> HIDE DEF new
  <2> QED BY <2>1, <2>2, ChangeKeeps
<1>7. CASE Drop(t)
  <2> DEFINE new == [task EXCEPT !.pc = "dropped",
                                 !.verdict = IF task.verdict = None THEN "silent" ELSE task.verdict]
  <2>1. tasks' = [tasks EXCEPT ![t] = new] /\ mailbox' \in Seq(Message)
    BY <1>7 DEF Drop, IInv, Ids
  <2>2. new \in StreamTask /\ Sane(new)
    BY <1>1 DEF StreamTask, Sane, Verdicts
  <2>3. SameTo(task, new) \/ EndsTo(task, new)
    BY <1>1 DEF StreamTask, SameTo, EndsTo, Said, Verdicts
  <2> HIDE DEF new
  <2> QED BY <2>1, <2>2, <2>3, ChangeKeeps
<1> QED BY <1>2, <1>3, <1>4, <1>5, <1>6, <1>7

(* The host's steps spawn, abort or leave the tasks alone. *)
LEMMA HostKeeps ==
  ASSUME IInv, Host
  PROVE  IInv' /\ ContractStep
<1>1. ASSUME Insert PROVE IInv' /\ ContractStep
  <2>1. mailbox' \in Seq(Message)
    BY <1>1 DEF Insert, IInv
  <2> QED BY <1>1, <2>1, AbortKeeps DEF Insert
<1>2. ASSUME NEW r \in Runs, Prompt(r) PROVE IInv' /\ ContractStep
  <2>1. mailbox' \in Seq(Message) /\ Spawn("stream", r, None)
    BY <1>2 DEF Prompt, IInv
  <2> QED BY <2>1, SpawnKeeps
<1>3. ASSUME NEW r \in Runs, Cancel(r) PROVE IInv' /\ ContractStep
  <2>1. mailbox' \in Seq(Message) /\ tasks' = Abort(Held(r))
    BY <1>3 DEF Cancel, IInv
  <2> QED BY <2>1, AbortKeeps
<1>4. ASSUME Receive PROVE IInv' /\ ContractStep
  <2> DEFINE message == Head(mailbox)
  <2>1. message \in Message /\ mailbox' \in Seq(Message)
    BY <1>4 DEF Receive, IInv
  <2>2. message.run \in Runs /\ message.call \in Calls \cup {None}
    BY <2>1 DEF Message
  <2>3. \/ tasks' = tasks
        \/ Spawn("tool", message.run, message.call)
        \/ Spawn("stream", message.run, None)
    BY <1>4 DEF Receive, hostVars
  <2> HIDE DEF message
  <2>4. CASE tasks' = tasks
    BY <2>1, <2>4, StillKeeps
  <2>5. CASE Spawn("tool", message.run, message.call)
    BY <2>1, <2>2, <2>5, SpawnKeeps
  <2>6. CASE Spawn("stream", message.run, None)
    BY <2>1, <2>2, <2>6, SpawnKeeps
  <2> QED BY <2>3, <2>4, <2>5, <2>6
<1> QED BY <1>1, <1>2, <1>3, <1>4 DEF Host

LEMMA ConnectKeeps ==
  ASSUME IInv, NEW t \in Ids, Connect(t)
  PROVE  IInv' /\ ContractStep
<1> DEFINE task == tasks[t]
           new == [task EXCEPT !.pc = "read", !.polling = TRUE,
                               !.attempt = task.attempt, !.heard = task.heard]
<1>1. task \in StreamTask /\ Sane(task) /\ task.pc = "connect"
  BY TaskOfId DEF Connect, MayStep, At
<1>2. CASE tasks' = [tasks EXCEPT ![t] = new] /\ mailbox' = mailbox
  <2>1. new \in StreamTask /\ Sane(new) /\ SameTo(task, new)
    BY <1>1 DEF StreamTask, Sane, SameTo, Said
  <2>2. mailbox' \in Seq(Message)
    BY <1>2 DEF IInv
  <2> HIDE DEF new
  <2> QED BY <1>2, <2>1, <2>2, ChangeKeeps
<1>3. CASE \E retryable \in BOOLEAN : FailAttempt(t, retryable)
  BY <1>1, <1>3, FailAttemptKeeps
<1>4. \/ tasks' = [tasks EXCEPT ![t] = new] /\ mailbox' = mailbox
      \/ \E retryable \in BOOLEAN : FailAttempt(t, retryable)
  BY DEF Connect, Become, IInv, Ids
<1> QED BY <1>2, <1>3, <1>4

LEMMA NextKeeps ==
  ASSUME IInv, [Next]_vars
  PROVE  IInv' /\ ContractStep
<1>1. CASE Host
  BY <1>1, HostKeeps
<1>2. ASSUME NEW t \in Ids, Step(t) PROVE IInv' /\ ContractStep
  <2>1. CASE ReadFailure(t)
    BY <2>1, FailAttemptKeeps DEF ReadFailure, MayStep, At
  <2> QED BY <1>2, <2>1, ConnectKeeps, ReadTextKeeps, ReadCallKeeps, ReadEndKeeps,
             QuietStepKeeps DEF Step
<1>3. CASE Settled \/ UNCHANGED vars
  <2>1. tasks' = tasks /\ mailbox' \in Seq(Message)
    BY <1>3 DEF Settled, vars, IInv
  <2> QED BY <2>1, StillKeeps
<1> QED BY <1>1, <1>2, <1>3 DEF Next

LEMMA InitHolds == Init => IInv /\ Contract!Init
<1> SUFFICES ASSUME Init PROVE IInv /\ Contract!Init
  OBVIOUS
<1>1. tasks = <<>> /\ mailbox = <<>> /\ Ids = {}
  BY DEF Init, Ids
<1> QED BY <1>1, TasksAssumption DEF IInv, Contract!Init, None

-----------------------------------------------------------------------------
(* The registry of tools: a call is asked for once, so it has one task at most
   and nobody else's handle takes the place of its own. *)

IsTool(t) == tasks[t].kind = "tool"
Asks(i) == mailbox[i].kind = "call"

RegInv ==
  /\ tools \in [Runs -> [Calls -> Nat]]
  /\ inserting \in 0..Len(tasks)
  /\ \A t \in Ids : IsTool(t) => tasks[t].call \in Calls
  /\ \A s, t \in Ids : IsTool(s) /\ IsTool(t) /\ tasks[s].call = tasks[t].call => s = t
  /\ \A i \in 1..Len(mailbox) : Asks(i) =>
         /\ mailbox[i].call \in Calls
         /\ \A t \in Ids : IsTool(t) => tasks[t].call # mailbox[i].call
  /\ \A i, j \in 1..Len(mailbox) :
         Asks(i) /\ Asks(j) /\ mailbox[i].call = mailbox[j].call => i = j
  /\ ToolsAreCancellable

(* What a step leaves of the tasks that are there: whose they are, and that what
   ended or was aborted stays so. *)
Kept(s) ==
  /\ tasks'[s].kind = tasks[s].kind /\ tasks'[s].run = tasks[s].run
  /\ tasks'[s].call = tasks[s].call
  /\ tasks'[s].pc \notin {"ended", "dropped"} => Live(s)
  /\ tasks[s].aborted => tasks'[s].aborted
AllKept == Ids' = Ids /\ Len(tasks') = Len(tasks) /\ \A s \in Ids : Kept(s)

(* What the mailbox may get: nothing, or one message, which asks for a new call
   if it asks for any. *)
MailGrows ==
  \/ mailbox' = mailbox
  \/ \E message \in Message :
        /\ mailbox' = Append(mailbox, message)
        /\ message.kind = "call" => message.call \in Calls \ Asked

LEMMA OneChanged ==
  ASSUME IInv, NEW t \in Ids, NEW new, tasks' = [tasks EXCEPT ![t] = new],
         new.kind = tasks[t].kind, new.run = tasks[t].run, new.call = tasks[t].call,
         new.aborted = tasks[t].aborted,
         new.pc \notin {"ended", "dropped"} => Live(t)
  PROVE  AllKept /\ tasks'[t] = new
<1>1. Ids' = Ids /\ Len(tasks') = Len(tasks)
  BY DEF IInv, Ids
<1>2. tasks'[t] = new /\ \A s \in Ids \ {t} : tasks'[s] = tasks[s]
  BY DEF IInv, Ids
<1> QED BY <1>1, <1>2 DEF AllKept, Kept, Live

LEMMA SentMessage ==
  ASSUME IInv, NEW t \in Ids, NEW kind \in {"call", "finished", "done", "failed"},
         NEW c \in Calls \cup {None}, Send(t, kind, c),
         kind = "call" => c \in Calls \ Asked
  PROVE  MailGrows
<1>1. tasks[t].run \in Runs
  BY TaskOfId DEF StreamTask
<1>2. [kind |-> kind, run |-> tasks[t].run, call |-> c] \in Message
  BY <1>1 DEF Message
<1> QED BY <1>2 DEF Send, MailGrows

(* Every step of a task is of this kind; only a tool's last one touches the
   registry of tools, at the place of its own call. *)
StepShape(t) ==
  /\ AllKept /\ MailGrows /\ inserting' = inserting
  /\ \/ tools' = tools
     \/ /\ IsTool(t) /\ tasks'[t].pc = "ended"
        /\ tools' = [tools EXCEPT ![tasks[t].run][tasks[t].call] = 0]

LEMMA FailAttemptShape ==
  ASSUME IInv, NEW t \in Ids, tasks[t].pc \in {"connect", "read"}, NEW retryable \in BOOLEAN,
         FailAttempt(t, retryable)
  PROVE  AllKept /\ MailGrows
<1> DEFINE task == tasks[t]
<1>1. task \in StreamTask /\ Live(t)
  BY TaskOfId DEF Live
<1>2. CASE ShouldRetry(task.attempt, Forwarded(t), retryable)
  <2> DEFINE new == [task EXCEPT !.pc = "connect", !.polling = TRUE,
                                 !.attempt = task.attempt + 1, !.heard = task.heard]
  <2>1. tasks' = [tasks EXCEPT ![t] = new] /\ mailbox' = mailbox
    BY <1>2 DEF FailAttempt, Become, IInv, Ids
  <2>2. /\ new.kind = task.kind /\ new.run = task.run /\ new.call = task.call
        /\ new.aborted = task.aborted
    BY <1>1 DEF StreamTask
  <2> HIDE DEF new
  <2> QED BY <1>1, <2>1, <2>2, OneChanged DEF MailGrows
<1>3. CASE ~ShouldRetry(task.attempt, Forwarded(t), retryable)
  <2> DEFINE new == [task EXCEPT !.pc = "remove", !.polling = TRUE, !.verdict = "failed"]
  <2>1. tasks' = [tasks EXCEPT ![t] = new] /\ Send(t, "failed", None)
    BY <1>3 DEF FailAttempt, IInv, Ids
  <2>2. /\ new.kind = task.kind /\ new.run = task.run /\ new.call = task.call
        /\ new.aborted = task.aborted
    BY <1>1 DEF StreamTask
  <2> HIDE DEF new
  <2>3. MailGrows
    BY <2>1, SentMessage
  <2> QED BY <1>1, <2>1, <2>2, <2>3, OneChanged
<1> QED BY <1>2, <1>3

LEMMA HearShape ==
  ASSUME IInv, NEW t \in Ids, tasks[t].pc = "read", NEW heard,
         Become(t, "read", tasks[t].attempt, heard)
  PROVE  AllKept
<1> DEFINE task == tasks[t]
           new == [task EXCEPT !.pc = "read", !.polling = TRUE, !.attempt = task.attempt,
                               !.heard = heard]
<1>1. task \in StreamTask /\ Live(t)
  BY TaskOfId DEF Live
<1>2. tasks' = [tasks EXCEPT ![t] = new]
  BY DEF Become, IInv, Ids
<1>3. /\ new.kind = task.kind /\ new.run = task.run /\ new.call = task.call
      /\ new.aborted = task.aborted
  BY <1>1 DEF StreamTask
<1> HIDE DEF new
<1> QED BY <1>1, <1>2, <1>3, OneChanged

LEMMA ReadEndShape ==
  ASSUME IInv, NEW t \in Ids, ReadEnd(t)
  PROVE  AllKept /\ MailGrows
<1> DEFINE task == tasks[t]
<1>1. task \in StreamTask /\ Live(t) /\ task.pc = "read"
  BY TaskOfId DEF Live, ReadEnd, MayStep, At
<1>2. CASE ~Forwarded(t)
  BY <1>1, <1>2, FailAttemptShape DEF ReadEnd
<1>3. ASSUME NEW verdict, tasks' = [tasks EXCEPT ![t].pc = "remove", ![t].polling = TRUE,
                                                 ![t].verdict = verdict]
      PROVE  AllKept
  <2> DEFINE new == [task EXCEPT !.pc = "remove", !.polling = TRUE, !.verdict = verdict]
  <2>1. tasks' = [tasks EXCEPT ![t] = new]
    BY <1>3 DEF IInv, Ids
  <2>2. /\ new.kind = task.kind /\ new.run = task.run /\ new.call = task.call
        /\ new.aborted = task.aborted
    BY <1>1 DEF StreamTask
  <2> HIDE DEF new
  <2> QED BY <1>1, <2>1, <2>2, OneChanged
<1>4. CASE Forwarded(t) /\ SawCall(t)
  BY <1>3, <1>4 DEF ReadEnd, MailGrows
<1>5. CASE Forwarded(t) /\ ~SawCall(t)
  <2>1. Send(t, "done", None) /\ AllKept
    BY <1>3, <1>5 DEF ReadEnd
  <2> QED BY <2>1, SentMessage
<1> QED BY <1>2, <1>4, <1>5

LEMMA StepIsShaped ==
  ASSUME IInv, NEW t \in Ids, Step(t)
  PROVE  StepShape(t)
<1> DEFINE task == tasks[t]
<1>1. task \in StreamTask
  BY TaskOfId
<1>2. CASE Connect(t)
  <2> DEFINE new == [task EXCEPT !.pc = "read", !.polling = TRUE,
                                 !.attempt = task.attempt, !.heard = task.heard]
  <2>1. task.pc = "connect" /\ tools' = tools /\ inserting' = inserting
    BY <1>2 DEF Connect, MayStep, At, registryVars, hostVars
  <2>2. CASE \E retryable \in BOOLEAN : FailAttempt(t, retryable)
    BY <2>1, <2>2, FailAttemptShape DEF StepShape
  <2>3. CASE tasks' = [tasks EXCEPT ![t] = new] /\ mailbox' = mailbox
    <3>1. /\ new.kind = task.kind /\ new.run = task.run /\ new.call = task.call
          /\ new.aborted = task.aborted /\ Live(t)
      BY <1>1, <2>1 DEF StreamTask, Live
    <3> HIDE DEF new
    <3> QED BY <2>1, <2>3, <3>1, OneChanged DEF StepShape, MailGrows
  <2> QED BY <1>2, <2>2, <2>3 DEF Connect, Become, IInv, Ids
<1>3. CASE ReadText(t) \/ ReadNothing(t)
  <2>1. /\ task.pc = "read" /\ tools' = tools /\ inserting' = inserting /\ mailbox' = mailbox
        /\ \E heard : Become(t, "read", task.attempt, heard)
    BY <1>3 DEF ReadText, ReadNothing, Hear, MayStep, At, registryVars, hostVars
  <2> QED BY <2>1, HearShape DEF StepShape, MailGrows
<1>4. CASE ReadCall(t)
  <2> DEFINE c == CHOOSE d \in Calls \ Asked : TRUE
  <2>1. /\ task.pc = "read" /\ tools' = tools /\ inserting' = inserting
        /\ \E heard : Become(t, "read", task.attempt, heard)
        /\ Send(t, "call", c) /\ c \in Calls \ Asked
    BY <1>4 DEF ReadCall, Hear, MayStep, At, registryVars, hostVars
  <2> HIDE DEF c
  <2>2. MailGrows
    BY <2>1, SentMessage
  <2> QED BY <2>1, <2>2, HearShape DEF StepShape
<1>5. CASE ReadFailure(t)
  <2>1. /\ task.pc = "read" /\ tools' = tools /\ inserting' = inserting
        /\ \E retryable \in BOOLEAN : FailAttempt(t, retryable)
    BY <1>5 DEF ReadFailure, MayStep, At, registryVars, hostVars
  <2> QED BY <2>1, FailAttemptShape DEF StepShape
<1>6. CASE ReadEnd(t)
  BY <1>6, ReadEndShape DEF ReadEnd, StepShape, registryVars, hostVars
<1>7. CASE RemoveStream(t) \/ RemoveTool(t)
  <2> DEFINE new == [task EXCEPT !.pc = "ended"]
  <2>1. tasks' = [tasks EXCEPT ![t] = new] /\ mailbox' = mailbox /\ inserting' = inserting
    BY <1>7 DEF RemoveStream, RemoveTool, IInv, Ids, hostVars
  <2>2. /\ new.kind = task.kind /\ new.run = task.run /\ new.call = task.call
        /\ new.aborted = task.aborted /\ new.pc = "ended"
    BY <1>1 DEF StreamTask
  <2>3. \/ tools' = tools
        \/ IsTool(t) /\ tools' = [tools EXCEPT ![task.run][task.call] = 0]
    BY <1>7 DEF RemoveStream, RemoveTool, IsTool
  <2> HIDE DEF new
  <2> QED BY <2>1, <2>2, <2>3, OneChanged DEF StepShape, MailGrows
<1>8. CASE BeginTool(t)
  <2> DEFINE new == [task EXCEPT !.pc = "executing", !.polling = TRUE]
  <2>1. /\ tasks' = [tasks EXCEPT ![t] = new] /\ mailbox' = mailbox
        /\ tools' = tools /\ inserting' = inserting /\ Live(t)
    BY <1>8 DEF BeginTool, IInv, Ids, At, Live, registryVars, hostVars
  <2>2. /\ new.kind = task.kind /\ new.run = task.run /\ new.call = task.call
        /\ new.aborted = task.aborted
    BY <1>1 DEF StreamTask
  <2> HIDE DEF new
  <2> QED BY <2>1, <2>2, OneChanged DEF StepShape, MailGrows
<1>9. CASE FinishTool(t)
  <2> DEFINE new == [task EXCEPT !.pc = "remove"]
  <2>1. /\ tasks' = [tasks EXCEPT ![t] = new] /\ Send(t, "finished", task.call)
        /\ tools' = tools /\ inserting' = inserting /\ Live(t)
    BY <1>9 DEF FinishTool, IInv, Ids, At, Live, registryVars, hostVars
  <2>2. /\ new.kind = task.kind /\ new.run = task.run /\ new.call = task.call
        /\ new.aborted = task.aborted /\ task.call \in Calls \cup {None}
    BY <1>1 DEF StreamTask
  <2> HIDE DEF new
  <2>3. MailGrows
    BY <2>1, <2>2, SentMessage
  <2> QED BY <2>1, <2>2, <2>3, OneChanged DEF StepShape
<1>10. CASE Yield(t)
  <2> DEFINE new == [task EXCEPT !.polling = FALSE]
  <2>1. /\ tasks' = [tasks EXCEPT ![t] = new] /\ mailbox' = mailbox
        /\ tools' = tools /\ inserting' = inserting /\ Live(t)
    BY <1>10 DEF Yield, IInv, Ids, At, Live, registryVars, hostVars
  <2>2. /\ new.kind = task.kind /\ new.run = task.run /\ new.call = task.call
        /\ new.aborted = task.aborted
    BY <1>1 DEF StreamTask
  <2> HIDE DEF new
  <2> QED BY <2>1, <2>2, OneChanged DEF StepShape, MailGrows
<1>11. CASE Drop(t)
  <2> DEFINE new == [task EXCEPT !.pc = "dropped",
                                 !.verdict = IF task.verdict = None THEN "silent" ELSE task.verdict]
  <2>1. /\ tasks' = [tasks EXCEPT ![t] = new] /\ mailbox' = mailbox
        /\ tools' = tools /\ inserting' = inserting
    BY <1>11 DEF Drop, IInv, Ids, registryVars, hostVars
  <2>2. /\ new.kind = task.kind /\ new.run = task.run /\ new.call = task.call
        /\ new.aborted = task.aborted /\ new.pc = "dropped"
    BY <1>1 DEF StreamTask
  <2> HIDE DEF new
  <2> QED BY <2>1, <2>2, OneChanged DEF StepShape, MailGrows
<1> QED BY <1>2, <1>3, <1>4, <1>5, <1>6, <1>7, <1>8, <1>9, <1>10, <1>11 DEF Step

(* What the mailbox and the tasks ask for stays apart. *)
Apart ==
  /\ \A t \in Ids : IsTool(t) => tasks[t].call \in Calls
  /\ \A s, t \in Ids : IsTool(s) /\ IsTool(t) /\ tasks[s].call = tasks[t].call => s = t
  /\ \A i \in 1..Len(mailbox) : Asks(i) =>
         /\ mailbox[i].call \in Calls
         /\ \A t \in Ids : IsTool(t) => tasks[t].call # mailbox[i].call
  /\ \A i, j \in 1..Len(mailbox) :
         Asks(i) /\ Asks(j) /\ mailbox[i].call = mailbox[j].call => i = j

LEMMA KeptStaysApart ==
  ASSUME IInv, Apart, AllKept, MailGrows
  PROVE  Apart'
<1>1. /\ Ids' = Ids
      /\ \A s \in Ids : (IsTool(s)' <=> IsTool(s)) /\ tasks'[s].call = tasks[s].call
  BY DEF AllKept, Kept, IsTool
<1>2. CASE mailbox' = mailbox
  BY <1>1, <1>2 DEF Apart, Asks
<1>3. CASE mailbox' # mailbox
  <2>1. PICK message \in Message : /\ mailbox' = Append(mailbox, message)
                                   /\ message.kind = "call" => message.call \in Calls \ Asked
    BY <1>3 DEF MailGrows
  <2> DEFINE n == Len(mailbox) + 1
  <2>2. /\ Len(mailbox) \in Nat /\ Len(mailbox') = n /\ mailbox'[n] = message
        /\ \A i \in 1..Len(mailbox) : mailbox'[i] = mailbox[i]
    BY <2>1 DEF IInv
  <2>3. \A i \in 1..Len(mailbox') : i = n \/ (i \in 1..Len(mailbox) /\ mailbox'[i] = mailbox[i])
    BY <2>2
  <2>4. message.kind = "call" =>
          /\ message.call \in Calls
          /\ \A t \in Ids : tasks[t].call # message.call
          /\ \A i \in 1..Len(mailbox) : mailbox[i].call # message.call
    BY <2>1 DEF Asked
  <2> HIDE DEF n
  <2>5. \A i \in 1..Len(mailbox') : Asks(i)' =>
          /\ mailbox'[i].call \in Calls
          /\ \A t \in Ids' : IsTool(t)' => tasks'[t].call # mailbox'[i].call
    BY <1>1, <2>2, <2>3, <2>4 DEF Apart, Asks
  <2>6. \A i, j \in 1..Len(mailbox') :
          Asks(i)' /\ Asks(j)' /\ mailbox'[i].call = mailbox'[j].call => i = j
    BY <2>2, <2>3, <2>4 DEF Apart, Asks
  <2> QED BY <1>1, <2>5, <2>6 DEF Apart
<1> QED BY <1>2, <1>3

LEMMA RegParts ==
  RegInv <=> /\ tools \in [Runs -> [Calls -> Nat]] /\ inserting \in 0..Len(tasks)
             /\ Apart /\ ToolsAreCancellable
BY DEF RegInv, Apart

LEMMA RegPartsThen ==
  /\ tools' \in [Runs -> [Calls -> Nat]] /\ inserting' \in 0..Len(tasks')
  /\ Apart' /\ ToolsAreCancellable'
  => RegInv'
BY DEF RegInv, Apart

LEMMA StepKeepsReg ==
  ASSUME IInv, RegInv, NEW t \in Ids, Step(t)
  PROVE  RegInv'
<1>1. StepShape(t)
  BY StepIsShaped
<1>2. Apart'
  BY <1>1, KeptStaysApart, RegParts DEF StepShape
<1>3. tasks[t].run \in Runs /\ (IsTool(t) => tasks[t].call \in Calls)
  BY TaskOfId DEF RegInv, StreamTask
<1>4. tools' \in [Runs -> [Calls -> Nat]] /\ inserting' \in 0..Len(tasks')
  <2>1. /\ inserting' = inserting /\ Len(tasks') = Len(tasks)
        /\ \/ tools' = tools
           \/ IsTool(t) /\ tools' = [tools EXCEPT ![tasks[t].run][tasks[t].call] = 0]
    BY <1>1 DEF StepShape, AllKept
  <2>2. tools \in [Runs -> [Calls -> Nat]] /\ inserting \in 0..Len(tasks)
    BY DEF RegInv
  <2>3. CASE IsTool(t) /\ tools' = [tools EXCEPT ![tasks[t].run][tasks[t].call] = 0]
    <3> DEFINE row == [tools[tasks[t].run] EXCEPT ![tasks[t].call] = 0]
    <3>1. row \in [Calls -> Nat]
      BY <1>3, <2>2
    <3>2. tools' = [tools EXCEPT ![tasks[t].run] = row]
      BY <2>3
    <3> HIDE DEF row
    <3> QED BY <1>3, <2>1, <2>2, <3>1, <3>2
  <2> QED BY <2>1, <2>2, <2>3
<1>5. ASSUME NEW s \in Ids, IsTool(s), tasks'[s].pc \notin {"ended", "dropped"},
             ~tasks'[s].aborted, s # inserting
      PROVE  tools'[tasks[s].run][tasks[s].call] = s
  <2>1. tools[tasks[s].run][tasks[s].call] = s /\ tasks[s].run \in Runs /\ tasks[s].call \in Calls
    BY <1>1, <1>5, TaskOfId
       DEF StepShape, AllKept, Kept, RegInv, ToolsAreCancellable, IsTool, StreamTask
  <2>2. CASE tools' = tools
    BY <2>1, <2>2
  <2>3. CASE /\ IsTool(t) /\ tasks'[t].pc = "ended"
             /\ tools' = [tools EXCEPT ![tasks[t].run][tasks[t].call] = 0]
    <3>1. tasks[s].call # tasks[t].call
      BY <1>5, <2>3 DEF RegInv
    <3> QED BY <1>3, <2>1, <2>3, <3>1 DEF RegInv
  <2> QED BY <1>1, <2>2, <2>3 DEF StepShape
<1>6. ToolsAreCancellable'
  BY <1>1, <1>5 DEF StepShape, AllKept, Kept, ToolsAreCancellable, Live, IsTool
<1> QED BY <1>2, <1>4, <1>6, RegPartsThen

LEMMA AbortShape ==
  ASSUME IInv, NEW ts, tasks' = Abort(ts)
  PROVE  /\ AllKept
         /\ \A t \in Ids : t \in ts => tasks'[t].aborted
<1>1. Len(tasks) \in Nat /\ Ids = 1..Len(tasks)
  BY DEF IInv, Ids
<1>2. tasks' \in Seq(StreamTask) /\ Len(tasks') = Len(tasks) /\ Ids' = Ids
  <2>1. ASSUME NEW t \in Ids PROVE Abort(ts)[t] \in StreamTask
    BY TaskOfId DEF Abort, StreamTask
  <2> DEFINE at(t) == Abort(ts)[t]
             n == Len(tasks)
  <2>2. tasks' = [t \in 1..n |-> at(t)] /\ n \in Nat /\ \A t \in 1..n : at(t) \in StreamTask
    BY <1>1, <2>1 DEF Abort
  <2> HIDE DEF at, n
  <2>3. tasks' \in Seq(StreamTask) /\ Len(tasks') = n
    BY <2>2
  <2>4. Len(tasks') = Len(tasks)
    BY <2>3 DEF n
  <2> QED BY <2>3, <2>4 DEF Ids
<1>3. \A t \in Ids : tasks'[t] = IF t \in ts THEN [tasks[t] EXCEPT !.aborted = TRUE] ELSE tasks[t]
  BY DEF Abort
<1>4. ASSUME NEW t \in Ids PROVE Kept(t) /\ (t \in ts => tasks'[t].aborted)
  BY <1>3, TaskOfId DEF Kept, Live, StreamTask
<1> QED BY <1>2, <1>4 DEF AllKept

LEMMA InsertKeepsReg ==
  ASSUME IInv, RegInv, Insert
  PROVE  RegInv'
<1> DEFINE new == tasks[inserting]
<1>1. inserting \in Ids /\ new \in StreamTask /\ mailbox' = mailbox /\ inserting' = 0
  <2>1. inserting \in Ids
    BY DEF Insert, RegInv, Ids, IInv
  <2> QED BY <2>1, TaskOfId DEF Insert
<1>2. CASE new.kind = "stream"
  <2>1. tasks' = Abort({assistant[new.run]}) /\ tools' = tools
    BY <1>2 DEF Insert
  <2>2. AllKept
    BY <2>1, AbortShape
  <2>3. ToolsAreCancellable'
    <3> SUFFICES ASSUME NEW t \in Ids', tasks'[t].kind = "tool",
                        tasks'[t].pc \notin {"ended", "dropped"}, ~tasks'[t].aborted
                 PROVE  tools'[tasks'[t].run][tasks'[t].call] = t
      BY DEF ToolsAreCancellable, Live
    <3>1. t \in Ids /\ Kept(t)
      BY <2>2 DEF AllKept
    <3>2. /\ tasks'[t].kind = tasks[t].kind /\ tasks'[t].run = tasks[t].run
          /\ tasks'[t].call = tasks[t].call /\ Live(t) /\ ~tasks[t].aborted
      BY <3>1 DEF Kept
    <3>3. t # inserting
      BY <1>2, <3>2
    <3>4. tools[tasks[t].run][tasks[t].call] = t
      BY <3>1, <3>2, <3>3 DEF RegInv, ToolsAreCancellable
    <3> QED BY <2>1, <3>2, <3>4
  <2>4. Apart'
    BY <1>1, <2>2, KeptStaysApart, RegParts DEF MailGrows
  <2>5. tools' \in [Runs -> [Calls -> Nat]] /\ inserting' \in 0..Len(tasks')
    BY <1>1, <2>1, <2>2 DEF RegInv, AllKept, IInv
  <2> QED BY <2>3, <2>4, <2>5, RegPartsThen
<1>3. CASE new.kind # "stream"
  <2>1. /\ tasks' = Abort({tools[new.run][new.call]})
        /\ tools' = [tools EXCEPT ![new.run][new.call] = inserting]
    BY <1>3 DEF Insert
  <2>2. AllKept
    BY <2>1, AbortShape
  <2>3. IsTool(inserting) /\ new.run \in Runs /\ new.call \in Calls
    BY <1>1, <1>3 DEF RegInv, IsTool, StreamTask
  <2>4. ASSUME NEW s \in Ids, IsTool(s), tasks'[s].pc \notin {"ended", "dropped"},
               ~tasks'[s].aborted
        PROVE  tools'[tasks[s].run][tasks[s].call] = s
    <3>1. CASE s = inserting
      BY <1>1, <2>1, <2>3, <3>1 DEF RegInv
    <3>2. CASE s # inserting
      <4>1. tools[tasks[s].run][tasks[s].call] = s /\ tasks[s].run \in Runs /\ tasks[s].call \in Calls
        BY <2>2, <2>4, <3>2, TaskOfId
           DEF AllKept, Kept, RegInv, ToolsAreCancellable, IsTool, StreamTask
      <4>2. tasks[s].call # new.call
        BY <1>1, <2>3, <2>4, <3>2 DEF RegInv
      <4> QED BY <2>1, <2>3, <4>1, <4>2 DEF RegInv
    <3> QED BY <3>1, <3>2
  <2>5. ToolsAreCancellable'
    BY <2>2, <2>4 DEF AllKept, Kept, ToolsAreCancellable, Live, IsTool
  <2>6. Apart'
    BY <1>1, <2>2, KeptStaysApart, RegParts DEF MailGrows
  <2>7. tools' \in [Runs -> [Calls -> Nat]] /\ inserting' \in 0..Len(tasks')
    <3>1. inserting \in Nat
      BY <1>1 DEF Ids
    <3> QED BY <1>1, <2>1, <2>2, <2>3, <3>1 DEF RegInv, AllKept, IInv
  <2> QED BY <2>5, <2>6, <2>7, RegPartsThen
<1> QED BY <1>2, <1>3

LEMMA CancelKeepsReg ==
  ASSUME IInv, RegInv, NEW r \in Runs, Cancel(r)
  PROVE  RegInv'
<1>1. /\ tasks' = Abort(Held(r)) /\ mailbox' = mailbox /\ inserting' = inserting /\ inserting = 0
      /\ tools' = [tools EXCEPT ![r] = [c \in Calls |-> 0]]
  BY DEF Cancel
<1>2. AllKept /\ \A t \in Ids : t \in Held(r) => tasks'[t].aborted
  BY <1>1, AbortShape
<1>3. ASSUME NEW s \in Ids, IsTool(s), tasks'[s].pc \notin {"ended", "dropped"},
             ~tasks'[s].aborted
      PROVE  tools'[tasks[s].run][tasks[s].call] = s
  <2>1. tools[tasks[s].run][tasks[s].call] = s /\ tasks[s].run \in Runs /\ tasks[s].call \in Calls
    <3>1. s # inserting
      BY <1>1 DEF Ids
    <3> QED BY <1>2, <1>3, <3>1, TaskOfId
       DEF AllKept, Kept, RegInv, ToolsAreCancellable, IsTool, StreamTask
  <2>2. tasks[s].run # r
    BY <1>2, <1>3, <2>1 DEF Held
  <2> QED BY <1>1, <2>1, <2>2 DEF RegInv
<1>4. ToolsAreCancellable'
  BY <1>2, <1>3 DEF AllKept, Kept, ToolsAreCancellable, Live, IsTool
<1>5. Apart'
  BY <1>1, <1>2, KeptStaysApart, RegParts DEF MailGrows
<1>6. tools' \in [Runs -> [Calls -> Nat]] /\ inserting' \in 0..Len(tasks')
  BY <1>1, <1>2 DEF RegInv, AllKept
<1> QED BY <1>4, <1>5, <1>6, RegPartsThen

(* One more task, which the host has not inserted yet; a tool's call was asked
   for by the message the host received. *)
LEMMA SpawnKeepsReg ==
  ASSUME IInv, RegInv, inserting = 0, NEW kind \in {"stream", "tool"}, NEW r \in Runs,
         NEW c \in Calls \cup {None}, Spawn(kind, r, c), tools' = tools,
         mailbox' = mailbox \/ (mailbox # <<>> /\ mailbox' = Tail(mailbox)),
         kind = "tool" => mailbox # <<>> /\ mailbox' = Tail(mailbox)
                          /\ Asks(1) /\ mailbox[1].call = c
  PROVE  RegInv'
<1> DEFINE new == Task(kind, r, c)
           n == Len(tasks) + 1
<1>1. new.kind = kind /\ new.run = r /\ new.call = c
  BY DEF Task
<1>2. tasks' = Append(tasks, new) /\ inserting' = n
  BY DEF Spawn, Spawned
<1> HIDE DEF new
<1>3. /\ Len(tasks) \in Nat /\ Len(tasks') = n /\ Ids' = Ids \cup {n} /\ n \notin Ids
      /\ tasks'[n] = new /\ \A t \in Ids : tasks'[t] = tasks[t]
  BY <1>2 DEF IInv, Ids
<1>4. \A i \in 1..Len(mailbox') : \E j \in 1..Len(mailbox) :
          mailbox'[i] = mailbox[j] /\ (j = i \/ (j = i + 1 /\ mailbox' = Tail(mailbox) /\ mailbox # <<>>))
  BY DEF IInv
<1>5. mailbox' = mailbox => \A i \in 1..Len(mailbox') : mailbox'[i] = mailbox[i] /\ i \in 1..Len(mailbox)
  OBVIOUS
<1>6. mailbox # <<>> /\ mailbox' = Tail(mailbox) =>
        /\ 1 \in 1..Len(mailbox)
        /\ \A i \in 1..Len(mailbox') : /\ mailbox'[i] = mailbox[i + 1] /\ i + 1 \in 1..Len(mailbox)
                                       /\ i + 1 # 1
  BY DEF IInv
<1> HIDE DEF n
<1>7. Apart'
  <2>1. \A t \in Ids' : IsTool(t)' => tasks'[t].call \in Calls
    BY <1>1, <1>3, <1>6 DEF IsTool, RegInv
  <2>2. \A s, t \in Ids' : IsTool(s)' /\ IsTool(t)' /\ tasks'[s].call = tasks'[t].call => s = t
    <3>1. kind = "tool" => \A t \in Ids : IsTool(t) => tasks[t].call # c
      BY <1>6 DEF RegInv
    <3> QED BY <1>1, <1>3, <3>1 DEF IsTool, RegInv
  <2>3. \A i \in 1..Len(mailbox') : Asks(i)' =>
          /\ mailbox'[i].call \in Calls
          /\ \A t \in Ids' : IsTool(t)' => tasks'[t].call # mailbox'[i].call
    <3> SUFFICES ASSUME NEW i \in 1..Len(mailbox'), Asks(i)'
                 PROVE  /\ mailbox'[i].call \in Calls
                        /\ \A t \in Ids' : IsTool(t)' => tasks'[t].call # mailbox'[i].call
      OBVIOUS
    <3>1. PICK j \in 1..Len(mailbox) : mailbox'[i] = mailbox[j] /\ (kind = "tool" => j # 1)
      BY <1>5, <1>6
    <3>2. mailbox[j].call \in Calls /\ \A t \in Ids : IsTool(t) => tasks[t].call # mailbox[j].call
      BY <3>1 DEF RegInv, Asks
    <3>3. kind = "tool" => mailbox[j].call # c
      BY <1>6, <3>1 DEF RegInv, Asks
    <3> QED BY <1>1, <1>3, <3>1, <3>2, <3>3 DEF IsTool
  <2>4. \A i, j \in 1..Len(mailbox') :
          Asks(i)' /\ Asks(j)' /\ mailbox'[i].call = mailbox'[j].call => i = j
    <3>1. CASE mailbox' = mailbox
      BY <1>5, <3>1 DEF RegInv, Asks
    <3>2. CASE mailbox # <<>> /\ mailbox' = Tail(mailbox)
      <4> SUFFICES ASSUME NEW i \in 1..Len(mailbox'), NEW j \in 1..Len(mailbox'),
                          Asks(i)', Asks(j)', mailbox'[i].call = mailbox'[j].call
                   PROVE  i = j
        OBVIOUS
      <4>1. Asks(i + 1) /\ Asks(j + 1) /\ mailbox[i + 1].call = mailbox[j + 1].call
            /\ i + 1 \in 1..Len(mailbox) /\ j + 1 \in 1..Len(mailbox)
        BY <1>6, <3>2 DEF Asks
      <4>2. i + 1 = j + 1
        BY <4>1 DEF RegInv
      <4> QED BY <4>2
    <3> QED BY <3>1, <3>2
  <2> QED BY <2>1, <2>2, <2>3, <2>4 DEF Apart
<1>8. ToolsAreCancellable'
  BY <1>2, <1>3 DEF RegInv, ToolsAreCancellable, Live, Ids
<1>9. tools' \in [Runs -> [Calls -> Nat]] /\ inserting' \in 0..Len(tasks')
  BY <1>2, <1>3 DEF RegInv, n
<1> QED BY <1>7, <1>8, <1>9, RegPartsThen

(* A message taken from the mailbox that spawns nothing. *)
LEMMA TakeKeepsReg ==
  ASSUME IInv, RegInv, mailbox # <<>>, mailbox' = Tail(mailbox),
         UNCHANGED <<tasks, tools, inserting>>
  PROVE  RegInv'
<1>1. \A i \in 1..Len(mailbox') : mailbox'[i] = mailbox[i + 1] /\ i + 1 \in 1..Len(mailbox)
  BY DEF IInv
<1>2. Apart'
  <2>1. \A i \in 1..Len(mailbox') : Asks(i)' =>
          /\ mailbox'[i].call \in Calls
          /\ \A t \in Ids' : IsTool(t)' => tasks'[t].call # mailbox'[i].call
    BY <1>1 DEF RegInv, Asks, IsTool, Ids
  <2>2. ASSUME NEW i \in 1..Len(mailbox'), NEW j \in 1..Len(mailbox'),
               Asks(i)', Asks(j)', mailbox'[i].call = mailbox'[j].call
        PROVE  i = j
    <3>1. Asks(i + 1) /\ Asks(j + 1) /\ mailbox[i + 1].call = mailbox[j + 1].call
          /\ i + 1 \in 1..Len(mailbox) /\ j + 1 \in 1..Len(mailbox)
      BY <1>1, <2>2 DEF Asks
    <3>2. i + 1 = j + 1
      BY <3>1 DEF RegInv
    <3> QED BY <3>2
  <2> QED BY <2>1, <2>2 DEF RegInv, Apart, IsTool, Ids
<1>3. ToolsAreCancellable'
  BY DEF RegInv, ToolsAreCancellable, Live, Ids
<1> QED BY <1>2, <1>3, RegPartsThen DEF RegInv

LEMMA ReceiveKeepsReg ==
  ASSUME IInv, RegInv, Receive
  PROVE  RegInv'
<1> DEFINE message == Head(mailbox)
<1>1. /\ message = mailbox[1] /\ message \in Message /\ mailbox # <<>> /\ mailbox' = Tail(mailbox)
      /\ tools' = tools /\ inserting = 0
  BY DEF Receive, IInv, registryVars
<1>2. message.run \in Runs /\ message.call \in Calls \cup {None}
  BY <1>1 DEF Message
<1>3. \/ UNCHANGED <<tasks, inserting>>
      \/ Spawn("tool", message.run, message.call) /\ message.kind = "call"
      \/ Spawn("stream", message.run, None)
  BY DEF Receive, hostVars
<1> HIDE DEF message
<1>4. CASE UNCHANGED <<tasks, inserting>>
  BY <1>1, <1>4, TakeKeepsReg
<1>5. CASE Spawn("tool", message.run, message.call) /\ message.kind = "call"
  BY <1>1, <1>2, <1>5, SpawnKeepsReg DEF Asks
<1>6. CASE Spawn("stream", message.run, None)
  BY <1>1, <1>2, <1>6, SpawnKeepsReg
<1> QED BY <1>3, <1>4, <1>5, <1>6

LEMMA NextKeepsReg ==
  ASSUME IInv, RegInv, [Next]_vars
  PROVE  RegInv'
<1>1. ASSUME NEW r \in Runs, Prompt(r) PROVE RegInv'
  <2>1. Spawn("stream", r, None) /\ tools' = tools /\ mailbox' = mailbox /\ inserting = 0
    BY <1>1 DEF Prompt, registryVars
  <2> QED BY <2>1, SpawnKeepsReg
<1>2. CASE Host
  BY <1>1, <1>2, InsertKeepsReg, ReceiveKeepsReg, CancelKeepsReg DEF Host
<1>3. CASE \E t \in Ids : Step(t)
  BY <1>3, StepKeepsReg
<1>4. CASE Settled \/ UNCHANGED vars
  <2>1. UNCHANGED <<tasks, tools, inserting, mailbox>>
    BY <1>4 DEF Settled, vars
  <2> QED BY <2>1 DEF RegInv, ToolsAreCancellable, IsTool, Asks, Live, Ids
<1> QED BY <1>2, <1>3, <1>4 DEF Next

LEMMA InitReg == Init => RegInv
BY DEF Init, RegInv, Ids, ToolsAreCancellable

(***************************************************************************)
(* The results                                                             *)
(***************************************************************************)

(* Whatever fails and whenever, a stream's text and calls come from one attempt
   of the provider: rig.rs tries a connection again only while it has forwarded
   nothing. *)
THEOREM AttemptsNeverMix == Spec => []NothingRepeated
<1>1. IInv => NothingRepeated
  BY DEF IInv, Sane, NothingRepeated
<1> QED BY <1>1, InitHolds, NextKeeps, PTL DEF Spec

(* Every stream task, with its retries and under every abort, is one stream of
   the contract: it has one verdict, says nothing after it, and is done only
   when it said something and asked for no tool. *)
THEOREM StreamsKeepContract == Spec => KeepsContract
<1>1. ContractStep => [Contract!Next]_(Contract!contractVars)
  BY DEF ContractStep, Contract!contractVars, SaidMap, VerdictMap
<1> QED BY <1>1, InitHolds, NextKeeps, PTL DEF Spec, KeepsContract, Contract!Spec

(* Whatever ends, is replaced or is cancelled meanwhile, a tool that may still
   start or is running is in its run's registry entry (orchestrator.rs keeps the
   entry for the tools when a stream removes itself), so cancel_run_tasks finds
   it. A call is asked for once, so no other task's insert or removal touches its
   place. *)
THEOREM ToolsStayCancellable == Spec => []ToolsAreCancellable
<1>1. RegInv => ToolsAreCancellable
  BY DEF RegInv
<1>2. IInv /\ RegInv /\ [Next]_vars => IInv' /\ RegInv'
  BY NextKeeps, NextKeepsReg
<1> QED BY <1>1, <1>2, InitHolds, InitReg, PTL DEF Spec
=============================================================================
