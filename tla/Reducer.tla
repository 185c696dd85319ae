------------------------------- MODULE Reducer -------------------------------
(***************************************************************************)
(* The application reducer of fluent-code:                                 *)
(*     update(&mut AppState, Msg) -> Vec<Effect>                           *)
(* of src/crates/fluent-code-app/src/app, with the helpers it calls in     *)
(* delegation.rs, recovery.rs and permissions.rs.                          *)
(*                                                                         *)
(* A handler is an operator from a state s (and the message's fields) to a *)
(* record [st, fx]: the state it leaves and the effects it returns, in the *)
(* order of the Vec.  A message the code ignores returns Ignored(s).       *)
(*                                                                         *)
(* Ids are handed in by the caller: Uuid::new_v4() is "any id not in use". *)
(* Texts, arguments, timestamps and the transcript items derived from the  *)
(* records are left out: no branch of the reducer reads them, except       *)
(* whether a `task` call's arguments are valid and whether a failure       *)
(* message says "is not accessible", which are inputs here.                *)
(***************************************************************************)
EXTENDS Naturals, Sequences, FiniteSets

CONSTANTS
    Run,          \* ids a run can have
    NoRun,        \* Option::<Uuid>::None
    MaxInvs,      \* bound: tool invocations of a session
    AskTools,     \* registered tools whose default action is Ask
    AllowTools,   \* plugin tools that do not require approval
    ChildDenied   \* tools the delegated agent's permissions reject

TaskTool == "task"
ReadTool == "read"
Tool == {TaskTool} \cup AskTools \cup AllowTools
Inv == 1..MaxInvs

ASSUME ReducerAssumption ==
    /\ NoRun \notin Run
    /\ MaxInvs \in Nat
    /\ TaskTool \notin AskTools \cup AllowTools
    /\ AskTools \cap AllowTools = {}

Phases == {"Generating", "AwaitingToolApproval", "RunningTool"}
Terminal == {"Completed", "Failed", "Cancelled"}

\* A root run or a child run with its links; status "Absent" is a run that does
\* not exist (yet).
RunRecord ==
    [status : {"Absent", "InProgress"} \cup Terminal, parent : {NoRun}, task : {0}]
    \cup
    [status : {"InProgress"} \cup Terminal, parent : Run, task : Inv]

NoInvRecord == [run |-> NoRun, tool |-> TaskTool, anchor |-> 0,
                approval |-> "Absent", exec |-> "NotStarted",
                child |-> NoRun, deleg |-> "None"]

\* anchor is preceding_turn_id: the turn's position in session.turns, 0 for None
InvRecord ==
    {NoInvRecord}
    \cup
    [run      : Run,
     tool     : Tool,
     anchor   : Nat,
     approval : {"Pending", "Approved", "Denied"},
     exec     : {"NotStarted", "Running", "Completed", "Failed", "Skipped"},
     child    : Run \cup {NoRun},
     deleg    : {"None", "Running"} \cup Terminal]

Turn == [run : Run, role : {"User", "Assistant"}]

Owner == [run : Run \cup {NoRun}, phase : Phases, anchor : Nat]

\* what the store writes
Session == [runs  : [Run -> RunRecord],
            invs  : [Inv -> InvRecord],
            turns : Seq(Turn),
            rules : [Tool -> {"None", "Allow", "Deny"}],
            owner : Owner]

\* AppState: the session and the two fields that live in memory only
State == [runs   : [Run -> RunRecord],
          invs   : [Inv -> InvRecord],
          turns  : Seq(Turn),
          rules  : [Tool -> {"None", "Allow", "Deny"}],
          owner  : Owner,
          active : Run \cup {NoRun},
          status : Phases \cup {"Idle", "Error"}]

NoOwner == [run |-> NoRun, phase |-> "Generating", anchor |-> 0]
NoRunRecord == [status |-> "Absent", parent |-> NoRun, task |-> 0]

EmptySession == [runs  |-> [r \in Run |-> NoRunRecord],
                 invs  |-> [i \in Inv |-> NoInvRecord],
                 turns |-> << >>,
                 rules |-> [x \in Tool |-> "None"],
                 owner |-> NoOwner]

SessionOf(s) == [runs |-> s.runs, invs |-> s.invs, turns |-> s.turns,
                 rules |-> s.rules, owner |-> s.owner]

\* AppState::new on a session read from the store
Loaded(d) == [runs |-> d.runs, invs |-> d.invs, turns |-> d.turns,
              rules |-> d.rules, owner |-> d.owner,
              active |-> NoRun, status |-> "Idle"]

-----------------------------------------------------------------------------
\* Effects.  ExecuteTools(S) stands for one Effect::ExecuteTool per invocation
\* of S: spawning a task only hands it to the scheduler, so the order among
\* them is not observable.
Effect == [kind : {"PersistSession", "StartAssistant", "CancelAssistant", "ExecuteTools"},
           run  : Run \cup {NoRun},
           ids  : SUBSET Inv]

PersistSession == [kind |-> "PersistSession", run |-> NoRun, ids |-> {}]
StartAssistant(r) == [kind |-> "StartAssistant", run |-> r, ids |-> {}]
CancelAssistant(r) == [kind |-> "CancelAssistant", run |-> r, ids |-> {}]
ExecuteTools(S) == [kind |-> "ExecuteTools", run |-> NoRun, ids |-> S]

Ignored(s) == [st |-> s, fx |-> << >>]

-----------------------------------------------------------------------------
\* Session and foreground helpers

SetForeground(s, r, phase, anchor) ==
    [s EXCEPT !.active = r,
              !.status = phase,
              !.owner = [run |-> r, phase |-> phase, anchor |-> anchor]]

\* mutant: the persisted owner is left behind
ClearActiveOnly(s) == [s EXCEPT !.active = NoRun]

ClearForeground(s) == [s EXCEPT !.active = NoRun, !.owner = NoOwner]

SetRunStatus(s, r, status) == [s EXCEPT !.runs[r].status = status]

IsChild(s, r) == s.runs[r].parent # NoRun

PushTurn(s, r, role) ==
    [s EXCEPT !.turns = Append(@, [run |-> r, role |-> role])]

\* the turn a new invocation is attached to: the last turn of the session,
\* whichever run it belongs to
LastTurn(s) == Len(s.turns)

PendingIn(s, r, anchor) ==
    {i \in Inv : /\ s.invs[i].approval = "Pending"
                 /\ s.invs[i].run = r
                 /\ s.invs[i].anchor = anchor}

Unfinished(inv) == inv.approval = "Approved" /\ inv.exec \in {"NotStarted", "Running"}

\* mutant: pending calls of the run's other batches count
BatchPhaseOfRun(s, r, anchor) ==
    IF \E i \in Inv : s.invs[i].run = r /\ s.invs[i].approval = "Pending"
    THEN "AwaitingToolApproval"
    ELSE IF \E i \in Inv : /\ s.invs[i].run = r
                           /\ s.invs[i].anchor = anchor
                           /\ Unfinished(s.invs[i])
         THEN "RunningTool"
         ELSE "Generating"

\* tool_batch_progress, named by the phase each result leads to
BatchPhase(s, r, anchor) ==
    IF PendingIn(s, r, anchor) # {} THEN "AwaitingToolApproval"
    ELSE IF \E i \in Inv : /\ s.invs[i].run = r
                           /\ s.invs[i].anchor = anchor
                           /\ Unfinished(s.invs[i])
         THEN "RunningTool"
         ELSE "Generating"

\* mutant: the assistant is not restarted
AdvanceBatchSilently(s, r, anchor) ==
    LET phase == BatchPhase(s, r, anchor)
    IN  [st |-> SetForeground(s, r, phase, IF phase = "Generating" THEN 0 ELSE anchor),
         fx |-> <<PersistSession>>]

\* what every handler does after it settled a call of a batch
AdvanceBatch(s, r, anchor) ==
    LET phase == BatchPhase(s, r, anchor)
    IN  IF phase = "Generating"
        THEN [st |-> SetForeground(s, r, "Generating", 0),
              fx |-> <<PersistSession, StartAssistant(r)>>]
        ELSE [st |-> SetForeground(s, r, phase, anchor),
              fx |-> <<PersistSession>>]

\* mutant: the run's own status is forgotten
EndForeground(s, r, status, appStatus) ==
    [ClearForeground(s) EXCEPT !.status = appStatus]

EndRun(s, r, status, appStatus) ==
    [ClearForeground(SetRunStatus(s, r, status)) EXCEPT !.status = appStatus]

-----------------------------------------------------------------------------
\* Msg::SubmitPrompt with a non-empty draft; r is the new run's id
SubmitPrompt(s, r) ==
    IF s.status \notin {"Idle", "Error"} THEN Ignored(s)
    ELSE LET t == [PushTurn(s, r, "User") EXCEPT
                      !.runs[r] = [status |-> "InProgress", parent |-> NoRun, task |-> 0]]
         IN  [st |-> SetForeground(t, r, "Generating", 0),
              fx |-> <<PersistSession, StartAssistant(r)>>]

-----------------------------------------------------------------------------
\* Msg::AssistantChunk and Msg::AssistantReasoningChunk.  due: the checkpoint
\* interval has elapsed; the save itself then is PersistSessionIfDue's.
HasOpenAssistantTurn(s, r) ==
    /\ s.turns # << >>
    /\ s.turns[LastTurn(s)] = [run |-> r, role |-> "Assistant"]
    /\ \A i \in Inv : s.invs[i].anchor # LastTurn(s)

\* mutant: no check that the run is still the active one
AnyAssistantChunk(s, r, due) ==
    LET t == IF HasOpenAssistantTurn(s, r) THEN s ELSE PushTurn(s, r, "Assistant")
    IN  [st |-> [t EXCEPT !.status = "Generating"],
         fx |-> IF due THEN <<PersistSession>> ELSE << >>]

AssistantChunk(s, r, due) ==
    IF s.active # r THEN Ignored(s)
    ELSE LET t == IF HasOpenAssistantTurn(s, r) THEN s ELSE PushTurn(s, r, "Assistant")
         IN  [st |-> [t EXCEPT !.status = "Generating"],
              fx |-> IF due THEN <<PersistSession>> ELSE << >>]

-----------------------------------------------------------------------------
\* Msg::ToolExecutionFinished.  outcome "inaccessible" is an error whose text
\* contains "is not accessible", "error" any other one.
EndsRun(tool, outcome) ==
    \/ outcome = "error"
    \/ outcome = "inaccessible" /\ tool # ReadTool

ToolExecutionFinished(s, r, i, outcome) ==
    IF \/ s.active # r /\ s.runs[r].status \in Terminal
       \/ s.invs[i].approval = "Absent"
    THEN Ignored(s)
    ELSE LET t == [s EXCEPT !.invs[i].exec = IF outcome = "ok" THEN "Completed" ELSE "Failed"]
         IN  IF EndsRun(s.invs[i].tool, outcome)
             THEN [st |-> EndRun(t, r, "Failed", "Error"), fx |-> <<PersistSession>>]
             ELSE IF s.active # r
                  THEN [st |-> t, fx |-> <<PersistSession>>]
                  ELSE AdvanceBatch(t, r, s.invs[i].anchor)

-----------------------------------------------------------------------------
\* Delegation: a `task` call runs a child run in the foreground.

\* mutant: the parent's call does not record the child's id
StartUnlinkedChild(s, r, i, valid, c) ==
    LET t == [s EXCEPT
                 !.invs[i].deleg = "Running",
                 !.runs[c] = [status |-> "InProgress", parent |-> r, task |-> i]]
    IN  [st |-> PushTurn(SetForeground(t, c, "Generating", 0), c, "User"),
         fx |-> <<PersistSession, StartAssistant(c)>>]

\* start_child_run; valid: the arguments name a known agent and a prompt; c is
\* the new child's id
StartChildRun(s, r, i, valid, c) ==
    IF ~valid
    THEN [st |-> [s EXCEPT !.invs[i].exec = "Failed", !.status = "Generating"],
          fx |-> <<PersistSession, StartAssistant(r)>>]
    ELSE LET t == [s EXCEPT
                      !.invs[i].child = c,
                      !.invs[i].deleg = "Running",
                      !.runs[c] = [status |-> "InProgress", parent |-> r, task |-> i]]
         IN  [st |-> PushTurn(SetForeground(t, c, "Generating", 0), c, "User"),
              fx |-> <<PersistSession, StartAssistant(c)>>]

\* mutant: the call's delegation is marked completed whatever the outcome
CompleteAnyChildRun(s, c, outcome) ==
    LET p == s.runs[c].parent
        i == s.runs[c].task
        t == [SetRunStatus(s, c, outcome) EXCEPT !.invs[i].deleg = "Completed"]
    IN  ToolExecutionFinished(SetForeground(t, p, "Generating", 0), p, i, "ok")

\* complete_child_run, for a run that has a parent
CompleteChildRun(s, c, outcome) ==
    LET p == s.runs[c].parent
        i == s.runs[c].task
        t == [SetRunStatus(s, c, outcome) EXCEPT
                 !.invs[i].deleg = IF @ = "None" THEN @ ELSE outcome]
    IN  ToolExecutionFinished(SetForeground(t, p, "Generating", 0), p, i, "ok")

\* Msg::AssistantDone (outcome "Completed") and Msg::AssistantFailed ("Failed")
AssistantEnded(s, r, outcome) ==
    IF IsChild(s, r) THEN CompleteChildRun(s, r, outcome)
    ELSE IF s.active = r
         THEN [st |-> EndRun(s, r, outcome, IF outcome = "Failed" THEN "Error" ELSE "Idle"),
               fx |-> <<PersistSession>>]
         ELSE Ignored(s)

\* Msg::CancelActiveRun
CancelActiveRun(s) ==
    IF s.active = NoRun THEN Ignored(s)
    ELSE IF IsChild(s, s.active)
         THEN LET done == CompleteChildRun(s, s.active, "Cancelled")
              IN  [done EXCEPT !.fx = <<CancelAssistant(s.active)>> \o @]
         ELSE [st |-> EndRun(s, s.active, "Cancelled", "Idle"),
               fx |-> <<CancelAssistant(s.active), PersistSession>>]

-----------------------------------------------------------------------------
\* Permissions

\* evaluate_tool_permission: a remembered rule wins over the tool's default
Permission(s, tool) ==
    IF s.rules[tool] # "None" THEN s.rules[tool]
    ELSE IF tool \in AllowTools THEN "Allow" ELSE "Ask"

\* agent_denied in Msg::AssistantToolCall
Decision(s, r, tool) ==
    IF IsChild(s, r) /\ tool \in ChildDenied THEN "Deny" ELSE Permission(s, tool)

Rememberable(tool) == tool # TaskTool

\* Msg::AssistantToolCall of a registered tool; i is the new invocation's id
AssistantToolCall(s, r, tool, i) ==
    IF s.active # r THEN Ignored(s)
    ELSE LET decision == Decision(s, r, tool)
             anchor == LastTurn(s)
             t == [s EXCEPT !.invs[i] =
                     [run |-> r, tool |-> tool, anchor |-> anchor,
                      approval |-> CASE decision = "Allow" -> "Approved"
                                     [] decision = "Deny"  -> "Denied"
                                     [] OTHER              -> "Pending",
                      exec |-> CASE decision = "Allow" -> "Running"
                                 [] decision = "Deny"  -> "Skipped"
                                 [] OTHER              -> "NotStarted",
                      child |-> NoRun, deleg |-> "None"]]
         IN  CASE decision = "Allow" ->
                    [st |-> SetForeground(t, r, "RunningTool", anchor),
                     fx |-> <<PersistSession, ExecuteTools({i})>>]
               [] decision = "Deny" -> AdvanceBatch(t, r, anchor)
               [] OTHER ->
                    [st |-> SetForeground(t, r, "AwaitingToolApproval", anchor),
                     fx |-> <<PersistSession>>]

\* mutant: the run's status and the app's swapped
UnsupportedToolCallSwapped(s, r) ==
    [st |-> EndRun(s, r, "Error", "Failed"), fx |-> <<PersistSession>>]

\* Msg::AssistantToolCall of a tool the registry does not know
UnsupportedToolCall(s, r) ==
    IF s.active # r THEN Ignored(s)
    ELSE [st |-> EndRun(s, r, "Failed", "Error"), fx |-> <<PersistSession>>]

\* the anchors a permission reply applies to: at most one
ReplyAnchor(s) ==
    IF s.owner.run = s.active /\ s.owner.phase = "AwaitingToolApproval"
    THEN {s.owner.anchor}
    ELSE LET Pending == {i \in Inv : s.invs[i].approval = "Pending"}
         IN  {s.invs[i].anchor : i \in {j \in Pending : /\ \A k \in Pending : k <= j
                                                        /\ s.invs[j].run = s.active}}

ReplyTargets(s) == UNION {PendingIn(s, s.active, a) : a \in ReplyAnchor(s)}

\* Msg::ReplyToPendingTool(Deny)
DenyPending(s) ==
    LET B == ReplyTargets(s)
        t == [s EXCEPT !.invs =
                 [i \in Inv |-> IF i \in B
                                THEN [@[i] EXCEPT !.approval = "Denied", !.exec = "Skipped"]
                                ELSE @[i]]]
    IN  IF s.active = NoRun \/ B = {} THEN Ignored(s)
        ELSE AdvanceBatch(t, s.active, CHOOSE a \in ReplyAnchor(s) : TRUE)

\* Msg::ReplyToPendingTool(Once | Always).  Of the `task` calls in the batch only
\* the first one starts a child run; all of them are marked Running.
ApprovePending(s, reply, valid, c) ==
    LET B == ReplyTargets(s)
        r == s.active
        Tasks == {i \in B : s.invs[i].tool = TaskTool}
        rest == IF B = Tasks THEN << >> ELSE <<ExecuteTools(B \ Tasks)>>
        approved == [s EXCEPT
            !.invs = [i \in Inv |-> IF i \in B
                                    THEN [@[i] EXCEPT !.approval = "Approved", !.exec = "Running"]
                                    ELSE @[i]],
            !.rules = [x \in Tool |-> IF /\ reply = "Always"
                                         /\ Rememberable(x)
                                         /\ \E i \in B : s.invs[i].tool = x
                                      THEN "Allow" ELSE @[x]]]
        t == SetForeground(approved, r, "RunningTool", CHOOSE a \in ReplyAnchor(s) : TRUE)
        first == CHOOSE i \in Tasks : \A j \in Tasks : i <= j
    IN  IF r = NoRun \/ B = {} THEN Ignored(s)
        ELSE IF Tasks = {}
             THEN [st |-> t, fx |-> <<PersistSession>> \o rest]
             ELSE LET child == StartChildRun(t, r, first, valid, c)
                  IN  [child EXCEPT !.fx = <<PersistSession>> \o @ \o rest]

\* remember_rejected_permission_rule of the ACP server, then the Deny reply;
\* i is the call the client was asked about
RejectAlways(s, i) ==
    LET tool == s.invs[i].tool
    IN  DenyPending(IF Rememberable(tool) THEN [s EXCEPT !.rules[tool] = "Deny"] ELSE s)

-----------------------------------------------------------------------------
\* Startup recovery, on a session just loaded

FailClosed(s) == Ignored([s EXCEPT !.active = NoRun, !.status = "Error"])

InterruptedChildren(s) ==
    {c \in Run : s.runs[c].status = "InProgress" /\ IsChild(s, c)}

\* validate_interrupted_task_invocation and the checks before it
LineageOk(s, c) ==
    LET p == s.runs[c].parent
        i == s.runs[c].task
    IN  /\ s.runs[p].status = "InProgress"
        /\ i \in Inv
        /\ s.invs[i].tool = TaskTool
        /\ s.invs[i].run = p
        /\ s.invs[i].approval = "Approved"
        /\ s.invs[i].exec = "Running"
        /\ s.invs[i].deleg = "Running"
        /\ s.invs[i].child = c

TaskLinksOk(s) ==
    \A i \in Inv :
        /\ s.invs[i].approval # "Absent"
        /\ s.invs[i].tool = TaskTool
        /\ s.invs[i].exec = "Running" \/ s.invs[i].deleg = "Running"
        => /\ s.invs[i].child # NoRun
           /\ s.runs[s.invs[i].child].task = i

\* recover_interrupted_delegated_child_for_owner; expected is NoRun without an owner
RecoverChild(s, expected) ==
    LET C == InterruptedChildren(s)
    IN  IF \/ \E c \in C : ~LineageOk(s, c)
           \/ ~TaskLinksOk(s)
           \/ Cardinality(C) > 1
           \/ expected # NoRun /\ C # {expected}
        THEN FailClosed(s)
        ELSE IF C = {} THEN Ignored(s)
             ELSE CompleteChildRun(s, CHOOSE c \in C : TRUE, "Failed")

RecoverRootGenerating(s) ==
    LET r == s.owner.run
    IN  IF \/ s.owner.anchor # 0
           \/ \E i \in Inv : /\ s.invs[i].run = r
                             /\ s.invs[i].approval = "Pending" \/ Unfinished(s.invs[i])
        THEN FailClosed(s)
        ELSE [st |-> SetForeground(s, r, "Generating", 0), fx |-> <<StartAssistant(r)>>]

\* mutant: the batch anchor is not restored
RecoverAwaitingNoAnchor(s) ==
    IF PendingIn(s, s.owner.run, s.owner.anchor) = {} THEN FailClosed(s)
    ELSE Ignored(SetForeground(s, s.owner.run, "AwaitingToolApproval", 0))

RecoverAwaitingApproval(s) ==
    IF PendingIn(s, s.owner.run, s.owner.anchor) = {} THEN FailClosed(s)
    ELSE Ignored(SetForeground(s, s.owner.run, "AwaitingToolApproval", s.owner.anchor))

\* mutant: the tools that were running are started again
RestartRunningTool(s) ==
    [st |-> SetForeground(s, s.owner.run, "RunningTool", s.owner.anchor),
     fx |-> <<ExecuteTools({i \in Inv : /\ s.invs[i].run = s.owner.run
                                       /\ s.invs[i].anchor = s.owner.anchor
                                       /\ s.invs[i].tool # TaskTool
                                       /\ Unfinished(s.invs[i])} )>>]

\* interrupt_running_tool_recovery
Interrupted(inv) ==
    [inv EXCEPT !.exec = "Failed", !.deleg = IF @ = "Running" THEN "Failed" ELSE @]

InterruptRunningTool(s) ==
    LET t == [s EXCEPT !.invs =
                [i \in Inv |->
                    IF /\ @[i].run = s.owner.run
                       /\ @[i].anchor = s.owner.anchor
                       /\ Unfinished(@[i])
                    THEN Interrupted(@[i])
                    ELSE @[i]]]
    IN  [st |-> EndRun(t, s.owner.run, "Failed", "Error"), fx |-> <<PersistSession>>]

\* recover_startup_foreground
RecoverStartup(s) ==
    LET r == s.owner.run
    IN  IF r = NoRun THEN RecoverChild(s, NoRun)
        ELSE IF s.runs[r].status # "InProgress" THEN FailClosed(s)
        ELSE CASE s.owner.phase = "Generating" ->
                    IF IsChild(s, r) THEN RecoverChild(s, r) ELSE RecoverRootGenerating(s)
               [] s.owner.phase = "AwaitingToolApproval" -> RecoverAwaitingApproval(s)
               [] s.owner.phase = "RunningTool" -> InterruptRunningTool(s)
=============================================================================
