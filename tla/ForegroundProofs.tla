---------------------------- MODULE ForegroundProofs ----------------------------
(***************************************************************************)
(* The records of a session, for every value of the constants: parents and *)
(* children stay linked, a question can be answered, the foreground is a   *)
(* live run, a finished run is left alone, a parent's `task` call tells    *)
(* what became of its child, a resumed run is shown its calls, and a       *)
(* recovery may be repeated.                                               *)
(*                                                                         *)
(* The first part says what each handler of the reducer leaves in the      *)
(* state, field by field (a shape per handler); the invariants are proved  *)
(* on the shapes, so no handler is expanded twice.                         *)
(***************************************************************************)
EXTENDS AgentHostProofs, ModelRequest, FiniteSetTheorems

-----------------------------------------------------------------------------
\* Shapes: what a handler turns s into

\* the call i is the same but for its progress
CallKept(s, t, i) ==
    /\ t.invs[i].run = s.invs[i].run
    /\ t.invs[i].tool = s.invs[i].tool
    /\ t.invs[i].anchor = s.invs[i].anchor
    /\ t.invs[i].approval = s.invs[i].approval
    /\ t.invs[i].child = s.invs[i].child

LinksKept(s, t, r) ==
    /\ t.runs[r].parent = s.runs[r].parent
    /\ t.runs[r].task = s.runs[r].task

OtherCallsSame(s, t, i) == \A j \in Inv : j # i => t.invs[j] = s.invs[j]
OtherRunsSame(s, t, r) == \A q \in Run : q # r => t.runs[q] = s.runs[q]

\* at most one turn is added, and the last one is r's
Said(s, t, r) ==
    /\ \/ t.turns = s.turns
       \/ \E role \in {"User", "Assistant"} :
             t.turns = Append(s.turns, [run |-> r, role |-> role])
    /\ t.turns # << >> /\ t.turns[Len(t.turns)].run = r

\* r has the foreground, and a question of its own if it waits for the user
Foregrounded(t, r) ==
    /\ t.active = r
    /\ t.owner.run = r
    /\ t.status \in Phases
    /\ t.owner.phase = "AwaitingToolApproval" => PendingIn(t, r, t.owner.anchor) # {}

\* the foreground runs a tool only if r has one under way, and generates for no batch
Batched(t, r) ==
    /\ t.owner.phase = "RunningTool" => \E i \in Inv : t.invs[i].run = r /\ Unfinished(t.invs[i])
    /\ t.owner.phase = "Generating" => t.owner.anchor = 0

\* r ended and left the foreground empty
Stopped(s, t, r) ==
    /\ OtherRunsSame(s, t, r)
    /\ LinksKept(s, t, r)
    /\ t.runs[r].status \in Terminal
    /\ t.owner = NoOwner
    /\ t.active = NoRun
    /\ t.status \in {"Idle", "Error"}

SameRecords(s, t) == t.runs = s.runs /\ t.invs = s.invs /\ t.rules = s.rules

Talked(s, t, r) ==
    /\ s.active = r
    /\ SameRecords(s, t)
    /\ Said(s, t, r)
    /\ t.active = s.active /\ t.owner = s.owner /\ t.status \in Phases

Submitted(s, t, r) ==
    /\ s.status \in {"Idle", "Error"}
    /\ OtherRunsSame(s, t, r)
    /\ t.runs[r] = [status |-> "InProgress", parent |-> NoRun, task |-> 0]
    /\ t.invs = s.invs /\ t.rules = s.rules
    /\ Said(s, t, r)
    /\ Foregrounded(t, r)

Ended(s, t, r) ==
    /\ s.active = r
    /\ t.invs = s.invs /\ t.rules = s.rules /\ t.turns = s.turns
    /\ Stopped(s, t, r)

\* the result of call i reached run r
Reported(s, t, r, i) ==
    /\ s.invs[i].approval # "Absent"
    /\ s.active = r \/ s.runs[r].status \notin Terminal
    /\ OtherCallsSame(s, t, i)
    /\ CallKept(s, t, i)
    /\ t.invs[i].deleg = s.invs[i].deleg
    /\ t.invs[i].exec \in {"Completed", "Failed"}
    /\ t.rules = s.rules /\ t.turns = s.turns
    /\ \/ t.invs[i].exec = "Failed" /\ Stopped(s, t, r)
       \/ /\ s.active # r
          /\ t.runs = s.runs /\ t.owner = s.owner /\ t.active = s.active /\ t.status = s.status
       \/ s.active = r /\ t.runs = s.runs /\ Foregrounded(t, r)

\* child run c ended, its parent has the foreground again
ChildEnded(s, t, c, outcome) ==
    LET i == s.runs[c].task
    IN  /\ IsChild(s, c)
        /\ OtherRunsSame(s, t, c)
        /\ LinksKept(s, t, c)
        /\ t.runs[c].status = outcome
        /\ OtherCallsSame(s, t, i)
        /\ CallKept(s, t, i)
        /\ t.invs[i].exec = "Completed"
        /\ t.invs[i].deleg = IF s.invs[i].deleg = "None" THEN "None" ELSE outcome
        /\ t.rules = s.rules /\ t.turns = s.turns
        /\ Foregrounded(t, s.runs[c].parent)
        /\ Batched(t, s.runs[c].parent)

\* run r called a tool: the call i is new
Called(s, t, r, i) ==
    /\ s.active = r
    /\ s.invs[i].approval = "Absent"
    /\ OtherCallsSame(s, t, i)
    /\ t.invs[i].run = r /\ t.invs[i].anchor = Len(s.turns)
    /\ t.invs[i].approval # "Absent"
    /\ t.invs[i].exec \notin {"Completed", "Failed"}
    /\ t.invs[i].approval = "Approved" =>
          /\ t.invs[i].exec = "Running"
          /\ t.invs[i].tool = TaskTool => s.rules[TaskTool] # "None"
    /\ t.invs[i].approval # "Denied" =>
          ~ (IsChild(s, r) /\ t.invs[i].tool \in ChildDenied)
    /\ t.runs = s.runs /\ t.rules = s.rules /\ t.turns = s.turns
    /\ Foregrounded(t, r)

\* the calls of B got their verdict, the others are the same
Verdicts(s, t, B) ==
    /\ \A j \in Inv : j \notin B => t.invs[j] = s.invs[j]
    /\ \A j \in B : /\ t.invs[j].run = s.invs[j].run
                    /\ t.invs[j].tool = s.invs[j].tool
                    /\ t.invs[j].anchor = s.invs[j].anchor
                    /\ t.invs[j].approval \in {"Approved", "Denied"}
                    /\ t.invs[j].approval = "Approved" /\ t.invs[j].tool # TaskTool =>
                          t.invs[j].exec = "Running"

\* the user decided the batch B of the foreground run
Decided(s, t, B) ==
    /\ s.active # NoRun
    /\ B \subseteq ReplyTargets(s)
    /\ Verdicts(s, t, B)
    /\ t.rules[TaskTool] = s.rules[TaskTool]
    /\ \/ t.runs = s.runs /\ t.turns = s.turns /\ Foregrounded(t, s.active)
       \/ \E c \in Run, i \in B :
             /\ ~ (s.runs[c].status # "Absent")
             /\ s.invs[i].tool = TaskTool
             /\ t.invs[i].approval = "Approved"
             /\ t.invs[i].child = c
             /\ t.invs[i].deleg = "Running"
             /\ t.invs[i].exec = "Running"
             /\ OtherRunsSame(s, t, c)
             /\ t.runs[c] = [status |-> "InProgress", parent |-> s.active, task |-> i]
             /\ Said(s, t, c)
             /\ Foregrounded(t, c)

-----------------------------------------------------------------------------
\* The helpers, field by field

LEMMA ForegroundFields ==
    ASSUME NEW s \in State, NEW r, NEW phase, NEW anchor,
           NEW t, t = SetForeground(s, r, phase, anchor)
    PROVE  /\ SameRecords(s, t) /\ t.turns = s.turns
           /\ t.active = r /\ t.status = phase
           /\ t.owner = [run |-> r, phase |-> phase, anchor |-> anchor]
  BY DEF SetForeground, State, SameRecords

LEMMA AdvanceFields ==
    ASSUME NEW s \in State, NEW r, NEW anchor,
           NEW t, t = AdvanceBatch(s, r, anchor).st
    PROVE  SameRecords(s, t) /\ t.turns = s.turns /\ Foregrounded(t, r) /\ Batched(t, r)
PROOF
  <1> DEFINE phase == BatchPhase(s, r, anchor)
             a == IF phase = "Generating" THEN 0 ELSE anchor
  <1>1. t = SetForeground(s, r, phase, a)
    BY DEF AdvanceBatch
  <1>2. phase \in Phases
    BY DEF BatchPhase, Phases
  <1>3. phase = "AwaitingToolApproval" => a = anchor /\ PendingIn(s, r, anchor) # {}
    BY DEF BatchPhase
  <1>a. /\ phase = "RunningTool" => \E i \in Inv : s.invs[i].run = r /\ Unfinished(s.invs[i])
        /\ phase = "Generating" => a = 0
    BY DEF BatchPhase
  <1> HIDE DEF phase, a
  <1>4. /\ SameRecords(s, t) /\ t.turns = s.turns
        /\ t.active = r /\ t.status = phase
        /\ t.owner = [run |-> r, phase |-> phase, anchor |-> a]
    BY <1>1, ForegroundFields
  <1>5. PendingIn(t, r, a) = PendingIn(s, r, a)
    BY <1>4 DEF PendingIn, SameRecords
  <1>6. Foregrounded(t, r)
    BY <1>2, <1>3, <1>4, <1>5 DEF Foregrounded
  <1>7. Batched(t, r)
    BY <1>4, <1>a DEF Batched, SameRecords
  <1> QED
    BY <1>4, <1>6, <1>7

LEMMA EndRunFields ==
    ASSUME NEW s \in State, NEW r \in Run, NEW status \in Terminal,
           NEW appStatus \in {"Idle", "Error"},
           NEW t, t = EndRun(s, r, status, appStatus)
    PROVE  /\ t.invs = s.invs /\ t.rules = s.rules /\ t.turns = s.turns
           /\ Stopped(s, t, r) /\ t.runs[r].status = status
PROOF
  <1> DEFINE u == SetRunStatus(s, r, status)
  <1>1. u \in State
    BY RunStatusType
  <1>2. /\ u.invs = s.invs /\ u.rules = s.rules /\ u.turns = s.turns
        /\ u.runs = [s.runs EXCEPT ![r].status = status]
    BY DEF SetRunStatus, State
  <1>3. /\ OtherRunsSame(s, u, r) /\ LinksKept(s, u, r) /\ u.runs[r].status = status
    <2>1. s.runs \in [Run -> RunRecord] /\ s.runs[r] \in RunRecord
      BY DEF State
    <2>2. /\ [s.runs[r] EXCEPT !.status = status].status = status
          /\ [s.runs[r] EXCEPT !.status = status].parent = s.runs[r].parent
          /\ [s.runs[r] EXCEPT !.status = status].task = s.runs[r].task
      BY <2>1 DEF RunRecord
    <2> QED
      BY <1>2, <2>1, <2>2 DEF OtherRunsSame, LinksKept
  <1> HIDE DEF u
  <1>4. /\ t.invs = u.invs /\ t.rules = u.rules /\ t.turns = u.turns /\ t.runs = u.runs
        /\ t.owner = NoOwner /\ t.active = NoRun /\ t.status = appStatus
    BY <1>1 DEF EndRun, ClearForeground, State, u
  <1> QED
    BY <1>2, <1>3, <1>4 DEF Stopped, OtherRunsSame, LinksKept

LEMMA ExecFields ==
    ASSUME NEW s \in State, NEW i \in Inv, NEW exec,
           NEW t, t = [s EXCEPT !.invs[i].exec = exec]
    PROVE  /\ t.runs = s.runs /\ t.rules = s.rules /\ t.turns = s.turns
           /\ t.owner = s.owner /\ t.active = s.active /\ t.status = s.status
           /\ OtherCallsSame(s, t, i) /\ CallKept(s, t, i)
           /\ t.invs[i].deleg = s.invs[i].deleg
           /\ t.invs[i].exec = exec
PROOF
  <1>1. s.invs \in [Inv -> InvRecord] /\ s.invs[i] \in InvRecord
    BY DEF State
  <1> DEFINE rec == [s.invs[i] EXCEPT !.exec = exec]
  <1>2. /\ rec.exec = exec /\ rec.deleg = s.invs[i].deleg /\ rec.run = s.invs[i].run
        /\ rec.tool = s.invs[i].tool /\ rec.anchor = s.invs[i].anchor
        /\ rec.approval = s.invs[i].approval /\ rec.child = s.invs[i].child
    BY <1>1 DEF InvRecord, NoInvRecord
  <1>3. t.invs = [s.invs EXCEPT ![i] = rec]
    BY DEF State
  <1> QED
    BY <1>1, <1>2, <1>3 DEF OtherCallsSame, CallKept, State

LEMMA PushTurnFields ==
    ASSUME NEW s \in State, NEW r, NEW role \in {"User", "Assistant"},
           NEW t, t = PushTurn(s, r, role)
    PROVE  /\ SameRecords(s, t) /\ Said(s, t, r)
           /\ t.owner = s.owner /\ t.active = s.active /\ t.status = s.status
PROOF
  <1> DEFINE turn == [run |-> r, role |-> role]
  <1>1. t.turns = Append(s.turns, turn) /\ turn.run = r
    BY DEF PushTurn, State
  <1>2. t.turns # << >> /\ t.turns[Len(t.turns)] = turn
    <2>1. s.turns \in Seq(Turn)
      BY DEF State
    <2> HIDE DEF turn
    <2> QED
      BY <1>1, <2>1
  <1>3. Said(s, t, r)
    BY <1>1, <1>2 DEF Said
  <1> QED
    BY <1>3 DEF PushTurn, State, SameRecords

-----------------------------------------------------------------------------
\* The handlers

LEMMA SubmitPromptShape ==
    ASSUME NEW s \in State, NEW r \in Run, NEW t, t = SubmitPrompt(s, r).st
    PROVE  t = s \/ Submitted(s, t, r)
PROOF
  <1> DEFINE rec == [status |-> "InProgress", parent |-> NoRun, task |-> 0]
             p == PushTurn(s, r, "User")
             u == [p EXCEPT !.runs[r] = rec]
  <1>1. CASE s.status \notin {"Idle", "Error"}
    BY <1>1 DEF SubmitPrompt, Ignored
  <1>2. CASE s.status \in {"Idle", "Error"}
    <2>1. p \in State
      BY PushTurnType
    <2>2. SameRecords(s, p) /\ Said(s, p, r)
      BY PushTurnFields
    <2>3. rec \in RunRecord
      BY DEF RunRecord
    <2>4. /\ u.invs = p.invs /\ u.rules = p.rules /\ u.turns = p.turns
          /\ u.runs = [p.runs EXCEPT ![r] = rec] /\ p.runs \in [Run -> RunRecord]
          /\ u \in State
      <3> HIDE DEF p, rec
      <3> QED
        BY <2>1, <2>3 DEF State
    <2>5. t = SetForeground(u, r, "Generating", 0)
      BY <1>2 DEF SubmitPrompt
    <2> HIDE DEF u, p
    <2>6. /\ SameRecords(u, t) /\ t.turns = u.turns
          /\ t.active = r /\ t.status = "Generating"
          /\ t.owner = [run |-> r, phase |-> "Generating", anchor |-> 0]
      BY <2>4, <2>5, ForegroundFields
    <2>7. t.runs[r] = rec /\ OtherRunsSame(s, t, r)
      BY <2>2, <2>4, <2>6 DEF SameRecords, OtherRunsSame
    <2>8. Said(s, t, r) /\ t.invs = s.invs /\ t.rules = s.rules
      BY <2>2, <2>4, <2>6 DEF SameRecords, Said
    <2>9. Foregrounded(t, r)
      BY <2>6 DEF Foregrounded, Phases
    <2> QED
      BY <1>2, <2>7, <2>8, <2>9 DEF Submitted
  <1> QED
    BY <1>1, <1>2

LEMMA AssistantChunkShape ==
    ASSUME NEW s \in State, NEW r \in Run, NEW due \in BOOLEAN,
           NEW t, t = AssistantChunk(s, r, due).st
    PROVE  t = s \/ Talked(s, t, r)
PROOF
  <1> DEFINE u == IF HasOpenAssistantTurn(s, r) THEN s ELSE PushTurn(s, r, "Assistant")
  <1>1. CASE s.active # r
    BY <1>1 DEF AssistantChunk, Ignored
  <1>2. CASE s.active = r
    <2>1. /\ SameRecords(s, u) /\ Said(s, u, r)
          /\ u.owner = s.owner /\ u.active = s.active
      <3>1. CASE HasOpenAssistantTurn(s, r)
        BY <3>1 DEF HasOpenAssistantTurn, LastTurn, SameRecords, Said
      <3>2. CASE ~HasOpenAssistantTurn(s, r)
        BY <3>2, PushTurnFields
      <3> QED
        BY <3>1, <3>2
    <2>2. u \in State
      BY PushTurnType
    <2>3. t = [u EXCEPT !.status = "Generating"]
      BY <1>2 DEF AssistantChunk
    <2> HIDE DEF u
    <2>4. /\ SameRecords(u, t) /\ t.turns = u.turns
          /\ t.owner = u.owner /\ t.active = u.active /\ t.status = "Generating"
      BY <2>2, <2>3 DEF State, SameRecords
    <2> QED
      BY <1>2, <2>1, <2>4 DEF Talked, SameRecords, Said, Phases
  <1> QED
    BY <1>1, <1>2

LEMMA ToolExecutionFinishedShape ==
    ASSUME NEW s \in State, NEW r \in Run, NEW i \in Inv, NEW outcome,
           NEW t, t = ToolExecutionFinished(s, r, i, outcome).st
    PROVE  t = s \/ Reported(s, t, r, i)
PROOF
  <1> DEFINE exec == IF outcome = "ok" THEN "Completed" ELSE "Failed"
             u == [s EXCEPT !.invs[i].exec = exec]
  <1>1. CASE \/ s.active # r /\ s.runs[r].status \in Terminal
             \/ s.invs[i].approval = "Absent"
    BY <1>1 DEF ToolExecutionFinished, Ignored
  <1>2. CASE /\ s.active = r \/ s.runs[r].status \notin Terminal
             /\ s.invs[i].approval # "Absent"
    <2>1. u \in State
      BY <1>2, ExecType
    <2>2. /\ u.runs = s.runs /\ u.rules = s.rules /\ u.turns = s.turns
          /\ u.owner = s.owner /\ u.active = s.active /\ u.status = s.status
          /\ OtherCallsSame(s, u, i) /\ CallKept(s, u, i)
          /\ u.invs[i].deleg = s.invs[i].deleg /\ u.invs[i].exec = exec
      BY ExecFields
    <2>3. EndsRun(s.invs[i].tool, outcome) => exec = "Failed"
      BY DEF EndsRun
    <2>4. t = IF EndsRun(s.invs[i].tool, outcome) THEN EndRun(u, r, "Failed", "Error")
              ELSE IF s.active # r THEN u ELSE AdvanceBatch(u, r, s.invs[i].anchor).st
      BY <1>2 DEF ToolExecutionFinished
    <2>5. exec \in {"Completed", "Failed"}
      OBVIOUS
    <2> HIDE DEF u, exec
    <2>6. CASE EndsRun(s.invs[i].tool, outcome)
      <3>1. t = EndRun(u, r, "Failed", "Error")
        BY <2>4, <2>6
      <3>2. /\ t.invs = u.invs /\ t.rules = u.rules /\ t.turns = u.turns
            /\ Stopped(u, t, r)
        BY <2>1, <3>1, EndRunFields DEF Terminal
      <3>3. Stopped(s, t, r)
        BY <2>2, <3>2 DEF Stopped, OtherRunsSame, LinksKept
      <3> QED
        BY <1>2, <2>2, <2>3, <2>5, <2>6, <3>2, <3>3 DEF Reported, OtherCallsSame, CallKept
    <2>7. CASE ~EndsRun(s.invs[i].tool, outcome) /\ s.active # r
      BY <1>2, <2>2, <2>4, <2>5, <2>7 DEF Reported, OtherCallsSame, CallKept
    <2>8. CASE ~EndsRun(s.invs[i].tool, outcome) /\ s.active = r
      <3>1. t = AdvanceBatch(u, r, s.invs[i].anchor).st
        BY <2>4, <2>8
      <3>2. SameRecords(u, t) /\ t.turns = u.turns /\ Foregrounded(t, r)
        BY <2>1, <3>1, AdvanceFields
      <3> QED
        BY <1>2, <2>2, <2>5, <2>8, <3>2 DEF Reported, OtherCallsSame, CallKept, SameRecords
    <2> QED
      BY <2>6, <2>7, <2>8
  <1> QED
    BY <1>1, <1>2

\* A child's links are its own call's (`Linked` below says so of every child); its
\* call then is an approved `task` call, and finishing it ends no run.
LEMMA CompleteChildRunShape ==
    ASSUME NEW s \in State, NEW c \in Run, IsChild(s, c), NEW outcome \in Terminal,
           s.invs[s.runs[c].task].approval = "Approved",
           s.invs[s.runs[c].task].tool = TaskTool,
           NEW t, t = CompleteChildRun(s, c, outcome).st
    PROVE  ChildEnded(s, t, c, outcome)
PROOF
  <1> DEFINE p == s.runs[c].parent
             i == s.runs[c].task
             e == SetRunStatus(s, c, outcome)
             deleg == IF s.invs[i].deleg = "None" THEN "None" ELSE outcome
             u == [e EXCEPT !.invs[i].deleg = IF @ = "None" THEN @ ELSE outcome]
             f == SetForeground(u, p, "Generating", 0)
  <1>1. p \in Run /\ i \in Inv
    BY ChildLinks
  <1>2. /\ e \in State
        /\ e.invs = s.invs /\ e.rules = s.rules /\ e.turns = s.turns
        /\ e.runs = [s.runs EXCEPT ![c].status = outcome]
    BY RunStatusType DEF SetRunStatus, State
  <1>3. OtherRunsSame(s, e, c) /\ LinksKept(s, e, c) /\ e.runs[c].status = outcome
    <2>1. s.runs \in [Run -> RunRecord] /\ s.runs[c] \in RunRecord
      BY DEF State
    <2>2. /\ [s.runs[c] EXCEPT !.status = outcome].status = outcome
          /\ [s.runs[c] EXCEPT !.status = outcome].parent = s.runs[c].parent
          /\ [s.runs[c] EXCEPT !.status = outcome].task = s.runs[c].task
      BY <2>1 DEF RunRecord
    <2> QED
      BY <1>2, <2>1, <2>2 DEF OtherRunsSame, LinksKept
  <1> HIDE DEF e
  <1>4. /\ u \in State
        /\ u.runs = e.runs /\ u.rules = e.rules /\ u.turns = e.turns
        /\ OtherCallsSame(s, u, i) /\ CallKept(s, u, i)
        /\ u.invs[i].deleg = deleg /\ u.invs[i].exec = s.invs[i].exec
    <2> DEFINE rec == [s.invs[i] EXCEPT !.deleg = deleg]
    <2>1. s.invs \in [Inv -> InvRecord] /\ s.invs[i] \in InvRecord /\ s.invs[i] # NoInvRecord
      BY <1>1 DEF State, NoInvRecord
    <2>2. /\ rec \in InvRecord
          /\ rec.deleg = deleg /\ rec.exec = s.invs[i].exec /\ rec.run = s.invs[i].run
          /\ rec.tool = s.invs[i].tool /\ rec.anchor = s.invs[i].anchor
          /\ rec.approval = s.invs[i].approval /\ rec.child = s.invs[i].child
      BY <2>1 DEF InvRecord
    <2>3. u = [e EXCEPT !.invs = [s.invs EXCEPT ![i] = rec]]
      BY <1>1, <1>2, <2>1 DEF State
    <2>4. [s.invs EXCEPT ![i] = rec] \in [Inv -> InvRecord]
      BY <1>1, <2>1, <2>2
    <2> HIDE DEF rec, u, i
    <2>5. /\ u \in State /\ u.invs = [s.invs EXCEPT ![i] = rec]
          /\ u.runs = e.runs /\ u.rules = e.rules /\ u.turns = e.turns
      BY <1>2, <2>3, <2>4 DEF State
    <2> QED
      BY <1>1, <2>1, <2>2, <2>5 DEF OtherCallsSame, CallKept
  <1> HIDE DEF u
  <1>5. /\ f \in State /\ SameRecords(u, f) /\ f.turns = u.turns /\ f.active = p
    <2>1. "Generating" \in Phases
      BY DEF Phases
    <2> HIDE DEF p
    <2>2. f \in State
      BY <1>1, <1>4, <2>1, ForegroundType
    <2>3. SameRecords(u, f) /\ f.turns = u.turns /\ f.active = p
      <3> HIDE DEF f
      <3>1. f = SetForeground(u, p, "Generating", 0)
        BY DEF f
      <3> QED
        BY <1>4, <3>1 DEF SetForeground, State, SameRecords
    <2> QED
      BY <2>2, <2>3
  <1>6. t = ToolExecutionFinished(f, p, i, "ok").st
    BY DEF CompleteChildRun, e, u
  <1> HIDE DEF f, p, i
  <1>7. f.invs[i].approval = "Approved" /\ f.invs[i].tool = TaskTool
    BY <1>4, <1>5 DEF CallKept, SameRecords, i
  <1> DEFINE g == [f EXCEPT !.invs[i].exec = "Completed"]
  <1>8. /\ g.runs = f.runs /\ g.rules = f.rules /\ g.turns = f.turns
        /\ OtherCallsSame(f, g, i) /\ CallKept(f, g, i)
        /\ g.invs[i].deleg = f.invs[i].deleg /\ g.invs[i].exec = "Completed"
    <2> HIDE DEF g
    <2>1. g = [f EXCEPT !.invs[i].exec = "Completed"]
      BY DEF g
    <2>2. f \in State /\ i \in Inv
      BY <1>1, <1>5
    <2> QED
      BY ONLY <2>1, <2>2, ExecFields
  <1>9. g \in State
    BY <1>1, <1>5, <1>7, ExecType
  <1>10. t = AdvanceBatch(g, p, f.invs[i].anchor).st
    BY <1>5, <1>6, <1>7 DEF ToolExecutionFinished, EndsRun
  <1> HIDE DEF g
  <1>11. SameRecords(g, t) /\ t.turns = g.turns /\ Foregrounded(t, p) /\ Batched(t, p)
    BY <1>9, <1>10, AdvanceFields
  <1>12. t.runs = e.runs /\ t.rules = s.rules /\ t.turns = s.turns
    BY <1>2, <1>4, <1>5, <1>8, <1>11 DEF SameRecords
  <1>13. /\ OtherCallsSame(s, t, i) /\ CallKept(s, t, i)
         /\ t.invs[i].exec = "Completed" /\ t.invs[i].deleg = deleg
    BY <1>4, <1>5, <1>8, <1>11 DEF SameRecords, OtherCallsSame, CallKept
  <1> QED
    BY <1>3, <1>11, <1>12, <1>13 DEF ChildEnded, OtherRunsSame, LinksKept, p, i

LEMMA AssistantEndedShape ==
    ASSUME NEW s \in State, NEW r \in Run, NEW outcome \in {"Completed", "Failed"},
           IsChild(s, r) => /\ s.invs[s.runs[r].task].approval = "Approved"
                            /\ s.invs[s.runs[r].task].tool = TaskTool,
           NEW t, t = AssistantEnded(s, r, outcome).st
    PROVE  \/ t = s
           \/ ChildEnded(s, t, r, outcome)
           \/ ~IsChild(s, r) /\ Ended(s, t, r)
PROOF
  <1>1. outcome \in Terminal
    BY DEF Terminal
  <1>2. CASE IsChild(s, r)
    BY <1>1, <1>2, CompleteChildRunShape DEF AssistantEnded
  <1>3. CASE ~IsChild(s, r) /\ s.active = r
    <2> DEFINE app == IF outcome = "Failed" THEN "Error" ELSE "Idle"
    <2>1. app \in {"Idle", "Error"} /\ t = EndRun(s, r, outcome, app)
      BY <1>3 DEF AssistantEnded
    <2> HIDE DEF app
    <2>2. t.invs = s.invs /\ t.rules = s.rules /\ t.turns = s.turns /\ Stopped(s, t, r)
      BY <1>1, <2>1, EndRunFields
    <2> QED
      BY <1>3, <2>2 DEF Ended
  <1>4. CASE ~IsChild(s, r) /\ s.active # r
    BY <1>4 DEF AssistantEnded, Ignored
  <1> QED
    BY <1>2, <1>3, <1>4

LEMMA CancelActiveRunShape ==
    ASSUME NEW s \in State, s.active # NoRun,
           IsChild(s, s.active) =>
               /\ s.invs[s.runs[s.active].task].approval = "Approved"
               /\ s.invs[s.runs[s.active].task].tool = TaskTool,
           NEW t, t = CancelActiveRun(s).st
    PROVE  \/ ChildEnded(s, t, s.active, "Cancelled")
           \/ ~IsChild(s, s.active) /\ Ended(s, t, s.active)
PROOF
  <1>1. s.active \in Run /\ "Cancelled" \in Terminal
    BY DEF State, Terminal
  <1>2. CASE IsChild(s, s.active)
    <2> DEFINE done == CompleteChildRun(s, s.active, "Cancelled")
    <2>1. t = done.st
      <3>1. done \in Result
        BY <1>1, <1>2, CompleteChildRunQuiet DEF Quiet
      <3> HIDE DEF done
      <3>2. [done EXCEPT !.fx = <<CancelAssistant(s.active)>> \o @].st = done.st
        BY <3>1 DEF Result
      <3> QED
        BY <1>2, <3>2 DEF CancelActiveRun, done
    <2> QED
      BY <1>1, <1>2, <2>1, CompleteChildRunShape
  <1>3. CASE ~IsChild(s, s.active)
    <2>1. t = EndRun(s, s.active, "Cancelled", "Idle")
      BY <1>3 DEF CancelActiveRun
    <2>2. t.invs = s.invs /\ t.rules = s.rules /\ t.turns = s.turns /\ Stopped(s, t, s.active)
      BY <1>1, <2>1, EndRunFields
    <2> QED
      BY <1>3, <2>2 DEF Ended
  <1> QED
    BY <1>2, <1>3

LEMMA UnsupportedToolCallShape ==
    ASSUME NEW s \in State, NEW r \in Run, NEW t, t = UnsupportedToolCall(s, r).st
    PROVE  t = s \/ Ended(s, t, r)
PROOF
  <1>1. CASE s.active # r
    BY <1>1 DEF UnsupportedToolCall, Ignored
  <1>2. CASE s.active = r
    <2>1. t = EndRun(s, r, "Failed", "Error") /\ "Failed" \in Terminal
      BY <1>2 DEF UnsupportedToolCall, Terminal
    <2>2. t.invs = s.invs /\ t.rules = s.rules /\ t.turns = s.turns /\ Stopped(s, t, r)
      BY <2>1, EndRunFields
    <2> QED
      BY <1>2, <2>2 DEF Ended
  <1> QED
    BY <1>1, <1>2

LEMMA AssistantToolCallShape ==
    ASSUME NEW s \in State, NEW r \in Run, NEW tool \in Tool,
           NEW i \in Inv, s.invs[i].approval = "Absent",
           NEW t, t = AssistantToolCall(s, r, tool, i).st
    PROVE  t = s \/ Called(s, t, r, i)
PROOF
  <1> DEFINE decision == Decision(s, r, tool)
             anchor == LastTurn(s)
             approval == CASE decision = "Allow" -> "Approved"
                           [] decision = "Deny"  -> "Denied"
                           [] OTHER              -> "Pending"
             exec == CASE decision = "Allow" -> "Running"
                       [] decision = "Deny"  -> "Skipped"
                       [] OTHER              -> "NotStarted"
             rec == [run |-> r, tool |-> tool, anchor |-> anchor,
                     approval |-> approval, exec |-> exec,
                     child |-> NoRun, deleg |-> "None"]
             u == [s EXCEPT !.invs[i] = rec]
  <1>1. CASE s.active # r
    BY <1>1 DEF AssistantToolCall, Ignored
  <1>2. CASE s.active = r
    <2>1. anchor \in Nat /\ s.invs \in [Inv -> InvRecord]
      BY LenProperties DEF LastTurn, State
    <2>2. /\ approval \in {"Pending", "Approved", "Denied"}
          /\ exec \in {"Running", "Skipped", "NotStarted"}
          /\ decision \notin {"Allow", "Deny"} => approval = "Pending"
      OBVIOUS
    <2>3. rec \in InvRecord /\ rec.run = r /\ rec.anchor = anchor
          /\ rec.approval = approval /\ rec.exec = exec
      BY <2>1, <2>2 DEF InvRecord
    <2>8. /\ approval = "Approved" =>
                exec = "Running" /\ (tool = TaskTool => s.rules[TaskTool] # "None")
          /\ approval # "Denied" => ~ (IsChild(s, r) /\ tool \in ChildDenied)
          /\ rec.tool = tool
      BY ReducerAssumption DEF Decision, Permission
    <2>4. t = CASE decision = "Allow" -> SetForeground(u, r, "RunningTool", anchor)
                [] decision = "Deny" -> AdvanceBatch(u, r, anchor).st
                [] OTHER -> SetForeground(u, r, "AwaitingToolApproval", anchor)
      BY <1>2 DEF AssistantToolCall
    <2> HIDE DEF rec
    <2>5. /\ u \in State /\ u.invs = [s.invs EXCEPT ![i] = rec]
          /\ u.runs = s.runs /\ u.rules = s.rules /\ u.turns = s.turns
      BY <2>1, <2>3 DEF State
    <2>9. rec.anchor = Len(s.turns)
      BY <2>3 DEF LastTurn
    <2>6. OtherCallsSame(s, u, i) /\ u.invs[i] = rec
      BY <2>1, <2>5 DEF OtherCallsSame
    <2> HIDE DEF u, decision, approval, exec, anchor
    <2>7. SameRecords(u, t) /\ t.turns = u.turns /\ Foregrounded(t, r)
      <3>1. CASE decision = "Allow"
        <4>1. /\ SameRecords(u, t) /\ t.turns = u.turns
              /\ t.active = r /\ t.status = "RunningTool"
              /\ t.owner = [run |-> r, phase |-> "RunningTool", anchor |-> anchor]
          BY <2>4, <2>5, <3>1, ForegroundFields
        <4> QED
          BY <4>1 DEF Foregrounded, Phases
      <3>2. CASE decision = "Deny"
        BY <2>4, <2>5, <3>2, AdvanceFields
      <3>3. CASE decision \notin {"Allow", "Deny"}
        <4>1. /\ SameRecords(u, t) /\ t.turns = u.turns
              /\ t.active = r /\ t.status = "AwaitingToolApproval"
              /\ t.owner = [run |-> r, phase |-> "AwaitingToolApproval", anchor |-> anchor]
          BY <2>4, <2>5, <3>3, ForegroundFields
        <4>2. i \in PendingIn(t, r, anchor)
          BY <2>2, <2>3, <2>6, <3>3, <4>1 DEF PendingIn, SameRecords
        <4> QED
          BY <4>1, <4>2 DEF Foregrounded, Phases
      <3> QED
        BY <3>1, <3>2, <3>3
    <2> QED
      BY <1>2, <2>2, <2>3, <2>5, <2>6, <2>7, <2>8, <2>9 DEF Called, SameRecords, OtherCallsSame
  <1> QED
    BY <1>1, <1>2

-----------------------------------------------------------------------------
\* Replies of the user

LEMMA JudgedFields ==
    ASSUME NEW s \in State, NEW B \in SUBSET Inv, NEW v, NEW exec,
           NEW t, t = Judged(s, B, v, exec)
    PROVE  /\ t.runs = s.runs /\ t.rules = s.rules /\ t.turns = s.turns
           /\ t.owner = s.owner /\ t.active = s.active
           /\ \A j \in Inv : j \notin B => t.invs[j] = s.invs[j]
           /\ \A j \in B : /\ t.invs[j].run = s.invs[j].run
                           /\ t.invs[j].tool = s.invs[j].tool
                           /\ t.invs[j].anchor = s.invs[j].anchor
                           /\ t.invs[j].approval = v
                           /\ t.invs[j].exec = exec
PROOF
  <1> DEFINE invs == [i \in Inv |-> IF i \in B
                                    THEN [s.invs[i] EXCEPT !.approval = v, !.exec = exec]
                                    ELSE s.invs[i]]
  <1>1. t = [s EXCEPT !.invs = invs]
    BY DEF Judged
  <1>2. ASSUME NEW j \in B
        PROVE  /\ invs[j].run = s.invs[j].run
               /\ invs[j].tool = s.invs[j].tool
               /\ invs[j].anchor = s.invs[j].anchor
               /\ invs[j].approval = v
               /\ invs[j].exec = exec
    <2>1. s.invs[j] \in InvRecord
      BY DEF State
    <2> QED
      BY <2>1 DEF InvRecord, NoInvRecord
  <1>3. \A j \in Inv : j \notin B => invs[j] = s.invs[j]
    OBVIOUS
  <1> HIDE DEF invs
  <1>4. /\ t.invs = invs /\ t.runs = s.runs /\ t.rules = s.rules /\ t.turns = s.turns
        /\ t.owner = s.owner /\ t.active = s.active
    BY <1>1 DEF State
  <1> QED
    BY <1>2, <1>3, <1>4

\* the batch is the foreground run's
LEMMA ReplyTargetsRun ==
    ASSUME NEW s \in State, NEW i \in ReplyTargets(s)
    PROVE  /\ i \in Inv
           /\ s.invs[i].run = s.active /\ s.active # NoRun
           /\ s.invs[i].approval = "Pending"
PROOF
  <1>1. i \in Inv /\ s.invs[i].run = s.active /\ s.invs[i].approval = "Pending"
    BY DEF ReplyTargets, PendingIn
  <1>2. s.invs[i] \in InvRecord /\ s.invs[i] # NoInvRecord
    BY <1>1 DEF State, NoInvRecord
  <1>3. s.invs[i].run \in Run
    BY <1>2 DEF InvRecord
  <1> QED
    BY <1>1, <1>3, ReducerAssumption

LEMMA DenyPendingShape ==
    ASSUME NEW s \in State, NEW t, t = DenyPending(s).st
    PROVE  \/ t = s /\ (s.active = NoRun \/ ReplyTargets(s) = {})
           \/ Decided(s, t, ReplyTargets(s))
PROOF
  <1> DEFINE B == ReplyTargets(s)
             anchor == CHOOSE a \in ReplyAnchor(s) : TRUE
             u == Judged(s, B, "Denied", "Skipped")
  <1>1. CASE s.active = NoRun \/ B = {}
    BY <1>1 DEF DenyPending, Ignored
  <1>2. CASE ~(s.active = NoRun \/ B = {})
    <2>1. u \in State /\ B \in SUBSET Inv
      BY ReplyBatch, JudgedType
    <2>2. t = AdvanceBatch(u, s.active, anchor).st
      BY <1>2 DEF DenyPending, Judged
    <2> HIDE DEF B, anchor
    <2>3. /\ u.runs = s.runs /\ u.rules = s.rules /\ u.turns = s.turns
          /\ \A j \in Inv : j \notin B => u.invs[j] = s.invs[j]
          /\ \A j \in B : /\ u.invs[j].run = s.invs[j].run
                          /\ u.invs[j].tool = s.invs[j].tool
                          /\ u.invs[j].anchor = s.invs[j].anchor
                          /\ u.invs[j].approval = "Denied"
                          /\ u.invs[j].exec = "Skipped"
      BY <2>1, JudgedFields
    <2> HIDE DEF u
    <2>4. SameRecords(u, t) /\ t.turns = u.turns /\ Foregrounded(t, s.active)
      BY <2>1, <2>2, AdvanceFields
    <2>5. Decided(s, t, B)
      BY <1>2, <2>3, <2>4 DEF Decided, Verdicts, SameRecords, B
    <2> QED
      BY <2>5 DEF B
  <1> QED
    BY <1>1, <1>2

LEMMA RejectAlwaysShape ==
    ASSUME NEW s \in State, NEW i \in ReplyTargets(s), NEW t, t = RejectAlways(s, i).st
    PROVE  Decided(s, t, ReplyTargets(s))
PROOF
  <1> DEFINE tool == s.invs[i].tool
             u == IF Rememberable(tool) THEN [s EXCEPT !.rules[tool] = "Deny"] ELSE s
  <1>1. i \in Inv /\ s.active # NoRun /\ s.invs[i].approval = "Pending"
    BY ReplyTargetsRun
  <1>2. tool \in Tool
    <2>1. s.invs[i] \in InvRecord /\ s.invs[i] # NoInvRecord
      BY <1>1 DEF State, NoInvRecord
    <2> QED
      BY <2>1 DEF InvRecord
  <1>3. /\ u \in State
        /\ u.runs = s.runs /\ u.invs = s.invs /\ u.turns = s.turns
        /\ u.owner = s.owner /\ u.active = s.active
        /\ u.rules[TaskTool] = s.rules[TaskTool]
    <2> HIDE DEF tool
    <2> DEFINE d == [s EXCEPT !.rules[tool] = "Deny"]
    <2>1. d \in State
      BY <1>2, RuleType
    <2>2. /\ d.runs = s.runs /\ d.invs = s.invs /\ d.turns = s.turns
          /\ d.owner = s.owner /\ d.active = s.active
          /\ tool # TaskTool => d.rules[TaskTool] = s.rules[TaskTool]
      BY DEF State
    <2>3. u = IF Rememberable(tool) THEN d ELSE s
      OBVIOUS
    <2> HIDE DEF d, u
    <2>4. CASE Rememberable(tool)
      BY <2>1, <2>2, <2>3, <2>4 DEF Rememberable
    <2>5. CASE ~Rememberable(tool)
      BY <2>3, <2>5
    <2> QED
      BY <2>4, <2>5
  <1>4. t = DenyPending(u).st
    BY DEF RejectAlways
  <1> HIDE DEF u, tool
  <1>5. ReplyTargets(u) = ReplyTargets(s)
    <2>1. \A a : PendingIn(u, u.active, a) = PendingIn(s, s.active, a)
      BY <1>3 DEF PendingIn
    <2>2. ReplyAnchor(u) = ReplyAnchor(s)
      BY <1>3 DEF ReplyAnchor
    <2> QED
      BY <2>1, <2>2 DEF ReplyTargets
  <1>6. Decided(u, t, ReplyTargets(u))
    BY <1>1, <1>3, <1>4, <1>5, DenyPendingShape
  <1>7. \A c : (Said(u, t, c) => Said(s, t, c)) /\ (OtherRunsSame(u, t, c) => OtherRunsSame(s, t, c))
    BY <1>3 DEF Said, OtherRunsSame
  <1>8. Verdicts(u, t, ReplyTargets(u)) => Verdicts(s, t, ReplyTargets(s))
    BY <1>3, <1>5 DEF Verdicts
  <1> DEFINE Starts(v) ==
               \E c \in Run, j \in ReplyTargets(s) :
                  /\ ~ (v.runs[c].status # "Absent")
                  /\ v.invs[j].tool = TaskTool
                  /\ t.invs[j].approval = "Approved"
                  /\ t.invs[j].child = c
                  /\ t.invs[j].deleg = "Running"
                  /\ t.invs[j].exec = "Running"
                  /\ OtherRunsSame(v, t, c)
                  /\ t.runs[c] = [status |-> "InProgress", parent |-> v.active, task |-> j]
                  /\ Said(v, t, c)
                  /\ Foregrounded(t, c)
  <1>9. \/ t.runs = u.runs /\ t.turns = u.turns /\ Foregrounded(t, u.active)
        \/ Starts(u)
    BY <1>5, <1>6 DEF Decided
  <1>10. Starts(u) => Starts(s)
    BY <1>3, <1>7
  <1>11. t.rules[TaskTool] = s.rules[TaskTool] /\ Verdicts(s, t, ReplyTargets(s))
    BY <1>3, <1>6, <1>8 DEF Decided
  <1>12. \/ t.runs = s.runs /\ t.turns = s.turns /\ Foregrounded(t, s.active)
         \/ Starts(s)
    BY <1>3, <1>9, <1>10
  <1> QED
    BY <1>1, <1>11, <1>12 DEF Decided

\* a child run for a call the user approved; with arguments that name no agent only
\* the call is marked failed
ChildStarted(s, t, r, i, c) ==
    \/ /\ t.runs = s.runs /\ t.rules = s.rules /\ t.turns = s.turns
       /\ t.owner = s.owner /\ t.active = s.active /\ t.status = "Generating"
       /\ OtherCallsSame(s, t, i) /\ CallKept(s, t, i)
    \/ /\ t.rules = s.rules
       /\ OtherCallsSame(s, t, i)
       /\ t.invs[i] = [s.invs[i] EXCEPT !.child = c, !.deleg = "Running"]
       /\ OtherRunsSame(s, t, c)
       /\ t.runs[c] = [status |-> "InProgress", parent |-> r, task |-> i]
       /\ Said(s, t, c)
       /\ Foregrounded(t, c)

LEMMA StartChildRunShape ==
    ASSUME NEW s \in State, NEW r \in Run, NEW i \in Inv, s.invs[i].approval # "Absent",
           NEW valid \in BOOLEAN, NEW c \in Run, NEW t, t = StartChildRun(s, r, i, valid, c).st
    PROVE  ChildStarted(s, t, r, i, c)
PROOF
  <1>1. CASE ~valid
    <2> DEFINE u == [s EXCEPT !.invs[i].exec = "Failed"]
    <2>1. u \in State
      BY ExecType
    <2>2. /\ u.runs = s.runs /\ u.rules = s.rules /\ u.turns = s.turns
          /\ u.owner = s.owner /\ u.active = s.active
          /\ OtherCallsSame(s, u, i) /\ CallKept(s, u, i)
      BY ExecFields
    <2>3. t = [u EXCEPT !.status = "Generating"]
      BY <1>1 DEF StartChildRun
    <2> HIDE DEF u
    <2>4. /\ t.runs = u.runs /\ t.rules = u.rules /\ t.turns = u.turns /\ t.invs = u.invs
          /\ t.owner = u.owner /\ t.active = u.active /\ t.status = "Generating"
      BY <2>1, <2>3 DEF State
    <2> QED
      BY <2>2, <2>4 DEF ChildStarted, OtherCallsSame, CallKept
  <1>2. CASE valid
    <2> DEFINE rec == [s.invs[i] EXCEPT !.child = c, !.deleg = "Running"]
               run == [status |-> "InProgress", parent |-> r, task |-> i]
               v == [s EXCEPT !.invs[i].child = c, !.invs[i].deleg = "Running"]
               u == [v EXCEPT !.runs[c] = run]
               f == SetForeground(u, c, "Generating", 0)
    <2>1. /\ v \in State
          /\ v.runs = s.runs /\ v.rules = s.rules /\ v.turns = s.turns
          /\ OtherCallsSame(s, v, i) /\ v.invs[i] = rec
      <3>1. s.invs \in [Inv -> InvRecord]
        BY DEF State
      <3>2. v \in State
        BY DelegationType
      <3>3. v = [s EXCEPT !.invs = [s.invs EXCEPT ![i] = rec]]
        BY <3>1 DEF State
      <3> HIDE DEF v, rec
      <3>4. /\ v.runs = s.runs /\ v.rules = s.rules /\ v.turns = s.turns
            /\ v.invs = [s.invs EXCEPT ![i] = rec]
        BY <3>3 DEF State
      <3> QED
        BY <3>1, <3>2, <3>4 DEF OtherCallsSame
    <2>3. t = PushTurn(f, c, "User")
      BY <1>2 DEF StartChildRun
    <2>4. run \in RunRecord
      BY DEF RunRecord
    <2> HIDE DEF v, rec, run
    <2>5. /\ u \in State
          /\ u.runs = [s.runs EXCEPT ![c] = run]
          /\ u.rules = s.rules /\ u.turns = s.turns /\ u.invs = v.invs
      BY <2>1, <2>4 DEF State
    <2>6. OtherRunsSame(s, u, c) /\ u.runs[c] = run
      BY <2>5 DEF OtherRunsSame, State
    <2> HIDE DEF u
    <2>7. /\ SameRecords(u, f) /\ f.turns = u.turns
          /\ f.active = c /\ f.status = "Generating"
          /\ f.owner = [run |-> c, phase |-> "Generating", anchor |-> 0]
      BY <2>5 DEF SetForeground, State, SameRecords
    <2>8. f \in State
      <3>1. "Generating" \in Phases
        BY DEF Phases
      <3> QED
        BY <2>5, <3>1, ForegroundType
    <2> HIDE DEF f
    <2>9. /\ SameRecords(f, t) /\ Said(f, t, c)
          /\ t.owner = f.owner /\ t.active = f.active /\ t.status = f.status
      BY <2>3, <2>8, PushTurnFields
    <2>10. Foregrounded(t, c)
      BY <2>7, <2>9 DEF Foregrounded, Phases
    <2>11. /\ t.rules = s.rules /\ t.invs = v.invs /\ t.runs = u.runs /\ Said(s, t, c)
      BY <2>5, <2>7, <2>9 DEF SameRecords, Said
    <2>12. OtherCallsSame(s, t, i) /\ t.invs[i] = rec /\ OtherRunsSame(s, t, c) /\ t.runs[c] = run
      BY <2>1, <2>6, <2>11 DEF OtherCallsSame, OtherRunsSame
    <2> QED
      BY <2>10, <2>11, <2>12 DEF ChildStarted, rec, run
  <1> QED
    BY <1>1, <1>2

\* Of a batch the user approves, the first `task` call may start a child run; c is
\* an id not in use if there is one.
LEMMA ApprovePendingShape ==
    ASSUME NEW s \in State, NEW reply, NEW valid \in BOOLEAN, NEW c \in Run,
           (\E i \in ReplyTargets(s) : s.invs[i].tool = TaskTool) => s.runs[c].status = "Absent",
           NEW t, t = ApprovePending(s, reply, valid, c).st
    PROVE  t = s \/ Decided(s, t, ReplyTargets(s))
PROOF
  <1> DEFINE B == ReplyTargets(s)
             r == s.active
             anchor == CHOOSE a \in ReplyAnchor(s) : TRUE
             Tasks == {i \in B : s.invs[i].tool = TaskTool}
             judged == Judged(s, B, "Approved", "Running")
             rules == [x \in Tool |-> IF /\ reply = "Always"
                                         /\ Rememberable(x)
                                         /\ \E i \in B : s.invs[i].tool = x
                                      THEN "Allow" ELSE s.rules[x]]
             approved == [judged EXCEPT !.rules = rules]
             f == SetForeground(approved, r, "RunningTool", anchor)
             first == CHOOSE i \in Tasks : \A j \in Tasks : i <= j
             child == StartChildRun(f, r, first, valid, c)
  <1>1. CASE r = NoRun \/ B = {}
    BY <1>1 DEF ApprovePending, Ignored
  <1>2. CASE ~(r = NoRun \/ B = {})
    <2>1. B \in SUBSET Inv /\ anchor \in Nat /\ r \in Run /\ judged \in State
      BY <1>2, ReplyBatch, JudgedType DEF State
    <2>2. /\ judged.runs = s.runs /\ judged.rules = s.rules /\ judged.turns = s.turns
          /\ \A j \in Inv : j \notin B => judged.invs[j] = s.invs[j]
          /\ \A j \in B : /\ judged.invs[j].run = s.invs[j].run
                          /\ judged.invs[j].tool = s.invs[j].tool
                          /\ judged.invs[j].anchor = s.invs[j].anchor
                          /\ judged.invs[j].approval = "Approved"
                          /\ judged.invs[j].exec = "Running"
      <3> HIDE DEF B
      <3> QED
        BY <2>1, JudgedFields
    <2>3. rules \in [Tool -> {"None", "Allow", "Deny"}] /\ rules[TaskTool] = s.rules[TaskTool]
      BY DEF State, Rememberable, Tool
    <2>4. f \in State /\ f.runs = judged.runs /\ f.invs = judged.invs /\ f.turns = judged.turns
          /\ f.rules = rules /\ Foregrounded(f, r)
      <3> HIDE DEF judged, rules, anchor, r
      <3>1. /\ approved \in State /\ approved.runs = judged.runs /\ approved.invs = judged.invs
            /\ approved.turns = judged.turns /\ approved.rules = rules
        BY <2>1, <2>3 DEF State
      <3> HIDE DEF approved
      <3>2. "RunningTool" \in Phases
        BY DEF Phases
      <3>3. f \in State
        BY <2>1, <3>1, <3>2, ForegroundType
      <3>4. /\ f.runs = approved.runs /\ f.invs = approved.invs /\ f.turns = approved.turns
            /\ f.rules = approved.rules /\ f.active = r /\ f.status = "RunningTool"
            /\ f.owner = [run |-> r, phase |-> "RunningTool", anchor |-> anchor]
        BY <3>1 DEF SetForeground, State
      <3> HIDE DEF f
      <3> QED
        BY <3>1, <3>2, <3>3, <3>4 DEF Foregrounded
    <2>5. t = IF Tasks = {} THEN f ELSE child.st
      <3>1. f \in State /\ (Tasks # {} => child \in Result)
        <4>1. Tasks # {} => first \in Inv /\ f.invs[first].approval # "Absent"
          <5>1. Tasks \in SUBSET Inv /\ Tasks \subseteq B
            BY <2>1
          <5>2. Tasks # {} => first \in Tasks
            <6> HIDE DEF Tasks
            <6> QED
              BY <5>1, LeastInv
          <5> HIDE DEF first, f, judged, B, Tasks
          <5> QED
            BY <2>1, <2>2, <2>4, <5>1, <5>2
        <4> HIDE DEF f, first, r
        <4> QED
          BY <2>1, <2>4, <4>1, StartChildRunQuiet DEF Quiet
      <3> DEFINE rest == IF B = Tasks THEN << >> ELSE <<ExecuteTools(B \ Tasks)>>
      <3>2. ApprovePending(s, reply, valid, c) =
               IF Tasks = {}
               THEN [st |-> f, fx |-> <<PersistSession>> \o rest]
               ELSE [child EXCEPT !.fx = (<<PersistSession>> \o @) \o rest]
        BY <1>2 DEF ApprovePending, Judged
      <3> HIDE DEF f, child, rest, Tasks
      <3>3. CASE Tasks = {}
        BY <3>2, <3>3
      <3>4. CASE Tasks # {}
        <4>1. [child EXCEPT !.fx = (<<PersistSession>> \o @) \o rest].st = child.st
          BY <3>1, <3>4 DEF Result
        <4> QED
          BY <3>2, <3>4, <4>1
      <3> QED
        BY <3>3, <3>4
    <2> HIDE DEF f, judged, rules, anchor
    <2>6. CASE Tasks = {}
      <3> HIDE DEF B, Tasks
      <3>1. t = f
        BY <2>5, <2>6
      <3> QED
        BY <1>2, <2>2, <2>3, <2>4, <3>1 DEF Decided, Verdicts, B
    <2>7. CASE Tasks # {}
      <3>1. first \in Tasks /\ Tasks \subseteq B /\ s.runs[c].status = "Absent"
        <4>1. Tasks \in SUBSET Inv
          BY <2>1
        <4>2. first \in Tasks
          <5> HIDE DEF Tasks
          <5> QED
            BY <2>7, <4>1, LeastInv
        <4> QED
          BY <4>2
      <3>2. s.invs[first].tool = TaskTool /\ first \in B
        BY <3>1
      <3> HIDE DEF B, Tasks, first, r
      <3>3. f.invs[first].approval = "Approved"
        BY <2>2, <2>4, <3>2
      <3>4. t = child.st
        BY <2>5, <2>7
      <3>5. ChildStarted(f, t, r, first, c)
        <4>1. first \in Inv /\ f.invs[first].approval # "Absent"
          BY <2>1, <3>2, <3>3
        <4>2. t = StartChildRun(f, r, first, valid, c).st
          BY <3>4 DEF child
        <4> HIDE DEF child
        <4> QED
          BY <2>1, <2>4, <4>1, <4>2, StartChildRunShape
      <3> HIDE DEF child
      <3>6. CASE /\ t.runs = f.runs /\ t.rules = f.rules /\ t.turns = f.turns
                 /\ t.owner = f.owner /\ t.active = f.active /\ t.status = "Generating"
                 /\ OtherCallsSame(f, t, first) /\ CallKept(f, t, first)
        <4>1. \A j \in Inv : CallKept(f, t, j)
          BY <3>6 DEF OtherCallsSame, CallKept
        <4>2. Foregrounded(t, r)
          <5>1. \A a : PendingIn(t, r, a) = PendingIn(f, r, a)
            BY <4>1 DEF PendingIn, CallKept
          <5> QED
            BY <2>4, <3>6, <5>1 DEF Foregrounded, Phases
        <4>3. \A j \in Inv : j \notin B => t.invs[j] = s.invs[j]
          BY <2>2, <2>4, <3>2, <3>6 DEF OtherCallsSame
        <4>4. \A j \in B : /\ t.invs[j].run = s.invs[j].run
                           /\ t.invs[j].tool = s.invs[j].tool
                           /\ t.invs[j].anchor = s.invs[j].anchor
                           /\ t.invs[j].approval = "Approved"
                           /\ t.invs[j].tool # TaskTool => t.invs[j].exec = "Running"
          <5>1. \A j \in B : j # first => t.invs[j].exec = "Running"
            BY <2>1, <2>2, <2>4, <3>6 DEF OtherCallsSame
          <5>2. t.invs[first].tool = TaskTool
            BY <2>1, <2>2, <2>4, <3>2, <4>1 DEF CallKept
          <5> QED
            BY <2>1, <2>2, <2>4, <4>1, <5>1, <5>2 DEF CallKept
        <4>5. Verdicts(s, t, B)
          BY <4>3, <4>4 DEF Verdicts
        <4>6. s.active # NoRun /\ B \subseteq ReplyTargets(s)
          BY <1>2 DEF B, r
        <4>7. t.rules[TaskTool] = s.rules[TaskTool]
          BY <2>3, <2>4, <3>6
        <4>8. t.runs = s.runs /\ t.turns = s.turns
          BY <2>2, <2>4, <3>6
        <4>9. Foregrounded(t, s.active)
          BY <4>2 DEF r
        <4>10. Decided(s, t, B)
          BY <4>5, <4>6, <4>7, <4>8, <4>9 DEF Decided
        <4> QED
          BY <4>10 DEF B
      <3>7. CASE /\ t.rules = f.rules
                 /\ OtherCallsSame(f, t, first)
                 /\ t.invs[first] = [f.invs[first] EXCEPT !.child = c, !.deleg = "Running"]
                 /\ OtherRunsSame(f, t, c)
                 /\ t.runs[c] = [status |-> "InProgress", parent |-> r, task |-> first]
                 /\ Said(f, t, c)
                 /\ Foregrounded(t, c)
        <4>1. f.invs[first] \in InvRecord /\ f.invs[first] # NoInvRecord /\ first \in Inv
          BY <2>1, <2>4, <3>2, <3>3 DEF State, NoInvRecord
        <4>2. /\ t.invs[first].run = f.invs[first].run
              /\ t.invs[first].tool = f.invs[first].tool
              /\ t.invs[first].anchor = f.invs[first].anchor
              /\ t.invs[first].approval = f.invs[first].approval
              /\ t.invs[first].exec = f.invs[first].exec
              /\ t.invs[first].child = c
              /\ t.invs[first].deleg = "Running"
          BY <3>7, <4>1 DEF InvRecord
        <4>3. \A j \in Inv : j \notin B => t.invs[j] = s.invs[j]
          BY <2>2, <2>4, <3>2, <3>7 DEF OtherCallsSame
        <4>4. \A j \in B : /\ t.invs[j].run = s.invs[j].run
                           /\ t.invs[j].tool = s.invs[j].tool
                           /\ t.invs[j].anchor = s.invs[j].anchor
                           /\ t.invs[j].approval = "Approved"
                           /\ t.invs[j].exec = "Running"
          <5>1. \A j \in B : j # first => t.invs[j] = f.invs[j]
            BY <2>1, <3>7 DEF OtherCallsSame
          <5> QED
            BY <2>2, <2>4, <4>2, <5>1
        <4>5. /\ t.invs[first].approval = "Approved" /\ t.invs[first].exec = "Running"
              /\ t.invs[first].child = c /\ t.invs[first].deleg = "Running"
          BY <2>2, <2>4, <3>2, <4>2
        <4>6. OtherRunsSame(s, t, c) /\ Said(s, t, c) /\ t.rules[TaskTool] = s.rules[TaskTool]
          BY <2>2, <2>3, <2>4, <3>7 DEF OtherRunsSame, Said
        <4>7. /\ s.active # NoRun /\ B \subseteq ReplyTargets(s)
              /\ t.runs[c] = [status |-> "InProgress", parent |-> s.active, task |-> first]
              /\ s.runs[c].status = "Absent"
          BY <1>2, <3>1, <3>7 DEF B, r
        <4>8. Decided(s, t, B)
          BY <3>2, <3>7, <4>3, <4>4, <4>5, <4>6, <4>7 DEF Decided, Verdicts
        <4> QED
          BY <4>8 DEF B
      <3> QED
        BY <3>5, <3>6, <3>7 DEF ChildStarted
    <2> QED
      BY <2>6, <2>7
  <1> QED
    BY <1>1, <1>2

-----------------------------------------------------------------------------
\* Recovery of a session just loaded

Closed(s, t) ==
    /\ SameRecords(s, t) /\ t.turns = s.turns /\ t.owner = s.owner
    /\ t.active = NoRun

Restored(s, t) ==
    /\ SameRecords(s, t) /\ t.turns = s.turns /\ t.owner = s.owner
    /\ s.owner.run \in Run
    /\ t.active = s.owner.run /\ t.status \in Phases

Interrupts(s, t) ==
    /\ s.owner.run \in Run
    /\ \A i \in Inv : CallKept(s, t, i)
    /\ \A i \in Inv : s.invs[i].approval # "Approved" => t.invs[i].exec = s.invs[i].exec
    /\ t.rules = s.rules /\ t.turns = s.turns
    /\ Stopped(s, t, s.owner.run)

ChildInterrupted(s, t, c) ==
    /\ s.runs[c].status = "InProgress"
    /\ LineageOk(s, c)
    /\ s.owner.run \in {NoRun, c}
    /\ ~(Cardinality(InterruptedChildren(s)) > 1)
    /\ ChildEnded(s, t, c, "Failed")

Recovers(s, t) ==
    \/ Closed(s, t)
    \/ Restored(s, t)
    \/ Interrupts(s, t)
    \/ \E c \in Run : ChildInterrupted(s, t, c)

LEMMA FailClosedShape ==
    ASSUME NEW s \in State, NEW t, t = FailClosed(s).st
    PROVE  Closed(s, t)
  BY DEF FailClosed, Ignored, State, Closed, SameRecords

LEMMA RecoverChildShape ==
    ASSUME NEW s \in State, s.active = NoRun, s.owner.run \in Run \cup {NoRun},
           NEW t, t = RecoverChild(s, s.owner.run).st
    PROVE  Closed(s, t) \/ \E c \in Run : ChildInterrupted(s, t, c)
PROOF
  <1> DEFINE C == InterruptedChildren(s)
             c == CHOOSE x \in C : TRUE
             bad == \/ \E x \in C : ~LineageOk(s, x)
                    \/ ~TaskLinksOk(s)
                    \/ Cardinality(C) > 1
                    \/ s.owner.run # NoRun /\ C # {s.owner.run}
  <1>1. CASE bad
    BY <1>1, FailClosedShape DEF RecoverChild
  <1>2. CASE ~bad /\ C = {}
    BY <1>2 DEF RecoverChild, Ignored, Closed, SameRecords
  <1>3. CASE ~bad /\ C # {}
    <2>1. c \in C
      BY <1>3
    <2>2. c \in Run /\ IsChild(s, c) /\ s.runs[c].status = "InProgress"
      BY <2>1 DEF InterruptedChildren
    <2>3. /\ LineageOk(s, c)
          /\ s.owner.run # NoRun => C = {s.owner.run}
          /\ ~(Cardinality(C) > 1)
      BY <1>3, <2>1
    <2>4. s.owner.run \in {NoRun, c}
      BY <2>1, <2>3
    <2>5. t = CompleteChildRun(s, c, "Failed").st
      BY <1>3 DEF RecoverChild
    <2> HIDE DEF c, C, bad
    <2>6. "Failed" \in Terminal
      BY DEF Terminal
    <2>7. /\ s.invs[s.runs[c].task].approval = "Approved"
          /\ s.invs[s.runs[c].task].tool = TaskTool
      BY <2>3 DEF LineageOk
    <2>8. ChildEnded(s, t, c, "Failed")
      BY <2>2, <2>5, <2>6, <2>7, CompleteChildRunShape
    <2>9. ChildInterrupted(s, t, c)
      BY <2>2, <2>3, <2>4, <2>8 DEF ChildInterrupted, C
    <2> QED
      BY <2>2, <2>9
  <1> QED
    BY <1>1, <1>2, <1>3

LEMMA InterruptShape ==
    ASSUME NEW s \in State, s.owner.run \in Run, NEW t, t = InterruptRunningTool(s).st
    PROVE  Interrupts(s, t)
PROOF
  <1> DEFINE hit(i) == /\ s.invs[i].run = s.owner.run
                       /\ s.invs[i].anchor = s.owner.anchor
                       /\ Unfinished(s.invs[i])
             invs == [i \in Inv |-> IF hit(i) THEN Interrupted(s.invs[i]) ELSE s.invs[i]]
             u == [s EXCEPT !.invs = invs]
  <1>1. ASSUME NEW i \in Inv
        PROVE  /\ invs[i] \in InvRecord
               /\ invs[i].run = s.invs[i].run
               /\ invs[i].tool = s.invs[i].tool
               /\ invs[i].anchor = s.invs[i].anchor
               /\ invs[i].approval = s.invs[i].approval
               /\ invs[i].child = s.invs[i].child
    <2>1. s.invs[i] \in InvRecord
      BY DEF State
    <2>2. CASE hit(i)
      <3>1. s.invs[i] # NoInvRecord
        BY <2>2 DEF Unfinished, NoInvRecord
      <3>2. invs[i] = Interrupted(s.invs[i])
        BY <2>2
      <3> HIDE DEF invs, hit
      <3> QED
        BY <2>1, <3>1, <3>2 DEF Interrupted, InvRecord, Terminal
    <2>3. CASE ~hit(i)
      BY <2>1, <2>3
    <2> QED
      BY <2>2, <2>3
  <1>2. t = EndRun(u, s.owner.run, "Failed", "Error")
    BY DEF InterruptRunningTool
  <1>3. invs \in [Inv -> InvRecord]
    BY <1>1
  <1>9. \A i \in Inv : s.invs[i].approval # "Approved" => invs[i] = s.invs[i]
    BY DEF Unfinished
  <1> HIDE DEF invs
  <1>4. u \in State /\ u.runs = s.runs /\ u.invs = invs /\ u.rules = s.rules /\ u.turns = s.turns
    BY <1>3 DEF State
  <1> HIDE DEF u
  <1>5. "Failed" \in Terminal
    BY DEF Terminal
  <1>6. t.invs = u.invs /\ t.rules = u.rules /\ t.turns = u.turns /\ Stopped(u, t, s.owner.run)
    BY <1>2, <1>4, <1>5, EndRunFields
  <1>7. Stopped(s, t, s.owner.run)
    BY <1>4, <1>6 DEF Stopped, OtherRunsSame, LinksKept
  <1>8. \A i \in Inv : CallKept(s, t, i)
    BY <1>1, <1>4, <1>6 DEF CallKept
  <1>10. \A i \in Inv : s.invs[i].approval # "Approved" => t.invs[i].exec = s.invs[i].exec
    BY <1>4, <1>6, <1>9
  <1> QED
    BY <1>4, <1>6, <1>7, <1>8, <1>10 DEF Interrupts

LEMMA RecoverStartupShape ==
    ASSUME NEW s \in State, s.active = NoRun, NEW t, t = RecoverStartup(s).st
    PROVE  Recovers(s, t)
PROOF
  <1>1. s.owner \in Owner /\ s.owner.run \in Run \cup {NoRun} /\ s.owner.phase \in Phases
    BY DEF State, Owner
  <1>2. CASE s.owner.run = NoRun
    <2>1. t = RecoverChild(s, s.owner.run).st
      BY <1>2 DEF RecoverStartup
    <2> QED
      BY <1>1, <2>1, RecoverChildShape DEF Recovers
  <1>3. CASE s.owner.run # NoRun
    <2>1. s.owner.run \in Run
      BY <1>1, <1>3
    <2>2. CASE t = FailClosed(s).st
      BY <2>2, FailClosedShape DEF Recovers
    <2>3. CASE t = RecoverChild(s, s.owner.run).st
      BY <1>1, <2>3, RecoverChildShape DEF Recovers
    <2>4. CASE t = RecoverRootGenerating(s).st /\ s.owner.phase = "Generating"
      <3> DEFINE f == SetForeground(s, s.owner.run, "Generating", 0)
      <3>1. t = FailClosed(s).st \/ (s.owner.anchor = 0 /\ t = f)
        BY <2>4 DEF RecoverRootGenerating
      <3>2. CASE s.owner.anchor = 0 /\ t = f
        <4>1. /\ SameRecords(s, t) /\ t.turns = s.turns
              /\ t.active = s.owner.run /\ t.status = "Generating"
              /\ t.owner = [run |-> s.owner.run, phase |-> "Generating", anchor |-> 0]
          BY <3>2, ForegroundFields
        <4>2. t.owner = s.owner
          BY <1>1, <2>4, <3>2, <4>1 DEF Owner
        <4> QED
          BY <2>1, <4>1, <4>2 DEF Recovers, Restored, Phases
      <3> QED
        BY <2>2, <3>1, <3>2
    <2>5. CASE t = RecoverAwaitingApproval(s).st /\ s.owner.phase = "AwaitingToolApproval"
      <3> DEFINE f == SetForeground(s, s.owner.run, "AwaitingToolApproval", s.owner.anchor)
      <3>1. t = FailClosed(s).st \/ t = f
        BY <2>5 DEF RecoverAwaitingApproval, Ignored
      <3>2. CASE t = f
        <4>1. /\ SameRecords(s, t) /\ t.turns = s.turns
              /\ t.active = s.owner.run /\ t.status = "AwaitingToolApproval"
              /\ t.owner = [run |-> s.owner.run, phase |-> "AwaitingToolApproval",
                            anchor |-> s.owner.anchor]
          BY <3>2, ForegroundFields
        <4>2. t.owner = s.owner
          BY <1>1, <2>5, <4>1 DEF Owner
        <4> QED
          BY <2>1, <4>1, <4>2 DEF Recovers, Restored, Phases
      <3> QED
        BY <2>2, <3>1, <3>2
    <2>6. CASE t = InterruptRunningTool(s).st
      BY <2>1, <2>6, InterruptShape DEF Recovers
    <2> QED
      BY <1>1, <1>3, <2>2, <2>3, <2>4, <2>5, <2>6 DEF RecoverStartup, Phases
  <1> QED
    BY <1>2, <1>3

-----------------------------------------------------------------------------
\* What every handler and every recovery keeps of the records

Exists(s, r) == s.runs[r].status # "Absent"

\* child run c is linked with its `task` call both ways (see DelegationIsLinked)
LinkedRun(s, c) ==
    LET i == s.runs[c].task
        p == s.runs[c].parent
    IN  /\ p # c /\ Exists(s, p)
        /\ i \in Inv
        /\ s.invs[i].child = c
        /\ s.invs[i].run = p
        /\ s.invs[i].tool = TaskTool
        /\ s.invs[i].approval = "Approved"

Linked(s) == \A c \in Run : IsChild(s, c) => LinkedRun(s, c)

CallsBelong(s) == \A i \in Inv : s.invs[i].approval # "Absent" => Exists(s, s.invs[i].run)

OwnerExists(s) == s.owner.run # NoRun => Exists(s, s.owner.run)

\* a foreground that waits for the user has a question to ask
Answerable(s) ==
    s.owner.run # NoRun /\ s.owner.phase = "AwaitingToolApproval" =>
        PendingIn(s, s.owner.run, s.owner.anchor) # {}

FinitelyMany(s) == IsFiniteSet({r \in Run : Exists(s, r)})

\* no rule is ever remembered for the `task` tool
TaskIsAsked(s) == s.rules[TaskTool] = "None"

Records(s) == Linked(s) /\ CallsBelong(s) /\ FinitelyMany(s) /\ TaskIsAsked(s)

Sound(s) == Records(s) /\ OwnerExists(s) /\ Answerable(s)

\* a foreground in memory is the persisted one
InHand(s) ==
    /\ s.active # NoRun => s.owner.run = s.active
    /\ s.status \in {"Idle", "Error"} => s.active = NoRun

\* Records only grow: runs keep their links, calls their identity, approved calls
\* their child.  What is new is linked, belongs to a run, and is at most one run.
Grows(s, t) ==
    /\ \A r \in Run : Exists(s, r) => Exists(t, r) /\ LinksKept(s, t, r)
    /\ \A r \in Run : ~Exists(s, r) => ~IsChild(t, r) \/ LinkedRun(t, r)
    /\ \E c : \A r \in Run : r # c /\ Exists(t, r) => Exists(s, r)
    /\ \A i \in Inv : s.invs[i].approval # "Absent" =>
          /\ t.invs[i].approval # "Absent"
          /\ t.invs[i].run = s.invs[i].run
          /\ t.invs[i].tool = s.invs[i].tool
    /\ \A i \in Inv : s.invs[i].approval = "Approved" =>
          t.invs[i].approval = "Approved" /\ t.invs[i].child = s.invs[i].child
    /\ \A i \in Inv : s.invs[i].approval = "Absent" =>
          t.invs[i].approval = "Absent" \/ Exists(t, t.invs[i].run)
    /\ t.rules[TaskTool] = s.rules[TaskTool]

LEMMA ChildExists ==
    ASSUME NEW s \in State, NEW c \in Run, IsChild(s, c)
    PROVE  Exists(s, c)
PROOF
  <1>1. s.runs[c] \in RunRecord
    BY DEF State
  <1> QED
    BY <1>1 DEF RunRecord, IsChild, Exists, Terminal

LEMMA CallRun ==
    ASSUME NEW s \in State, NEW i \in Inv
    PROVE  /\ s.invs[i].approval = "Absent" => s.invs[i].run = NoRun /\ s.invs[i].exec = "NotStarted"
           /\ s.invs[i].approval # "Absent" => s.invs[i].run \in Run
PROOF
  <1>1. s.invs[i] \in InvRecord
    BY DEF State
  <1> QED
    BY <1>1 DEF InvRecord, NoInvRecord

LEMMA GrowsKeepsRecords ==
    ASSUME NEW s \in State, NEW t \in State, Records(s), Grows(s, t)
    PROVE  Records(t)
PROOF
  <1>1. Linked(t)
    <2> SUFFICES ASSUME NEW c \in Run, IsChild(t, c) PROVE LinkedRun(t, c)
      BY DEF Linked
    <2>1. CASE ~Exists(s, c)
      BY <2>1 DEF Grows
    <2>2. CASE Exists(s, c)
      <3>1. LinksKept(s, t, c)
        BY <2>2 DEF Grows
      <3>2. IsChild(s, c)
        BY <3>1 DEF IsChild, LinksKept
      <3>3. LinkedRun(s, c) /\ s.runs[c].parent \in Run
        BY <3>2, ChildLinks DEF Records, Linked
      <3> DEFINE i == s.runs[c].task
                 p == s.runs[c].parent
      <3>4. t.runs[c].task = i /\ t.runs[c].parent = p
        BY <3>1 DEF LinksKept
      <3>5. /\ p # c /\ Exists(s, p) /\ i \in Inv /\ s.invs[i].child = c
            /\ s.invs[i].run = p /\ s.invs[i].tool = TaskTool /\ s.invs[i].approval = "Approved"
        BY <3>3 DEF LinkedRun
      <3> HIDE DEF i, p
      <3>6. Exists(t, p)
        BY <3>3, <3>5 DEF Grows, p
      <3>7. t.invs[i].approval = "Approved" /\ t.invs[i].child = s.invs[i].child
        BY <3>5 DEF Grows
      <3>8. t.invs[i].run = s.invs[i].run /\ t.invs[i].tool = s.invs[i].tool
        BY <3>5 DEF Grows
      <3> QED
        BY <3>4, <3>5, <3>6, <3>7, <3>8 DEF LinkedRun
    <2> QED
      BY <2>1, <2>2
  <1>2. CallsBelong(t)
    <2> SUFFICES ASSUME NEW i \in Inv, t.invs[i].approval # "Absent"
                 PROVE  Exists(t, t.invs[i].run)
      BY DEF CallsBelong
    <2>1. CASE s.invs[i].approval = "Absent"
      BY <2>1 DEF Grows
    <2>2. CASE s.invs[i].approval # "Absent"
      <3>1. s.invs[i].run \in Run /\ Exists(s, s.invs[i].run)
        BY <2>2, CallRun DEF Records, CallsBelong
      <3> QED
        BY <2>2, <3>1 DEF Grows
    <2> QED
      BY <2>1, <2>2
  <1>3. FinitelyMany(t)
    <2> DEFINE S == {r \in Run : Exists(s, r)}
               T == {r \in Run : Exists(t, r)}
    <2>1. PICK c : \A r \in Run : r # c /\ Exists(t, r) => Exists(s, r)
      BY DEF Grows
    <2>2. IsFiniteSet(S \cup {c})
      BY FS_AddElement DEF Records, FinitelyMany
    <2>3. T \subseteq S \cup {c}
      BY <2>1
    <2> QED
      BY <2>2, <2>3, FS_Subset DEF FinitelyMany
  <1>4. TaskIsAsked(t)
    BY DEF Grows, Records, TaskIsAsked
  <1> QED
    BY <1>1, <1>2, <1>3, <1>4 DEF Records

\* the calls' part of Grows, for a step that keeps all calls but their progress
LEMMA KeptCallsGrow ==
    ASSUME NEW s \in State, NEW t \in State, \A i \in Inv : CallKept(s, t, i),
           t.rules[TaskTool] = s.rules[TaskTool],
           \A r \in Run : Exists(s, r) => Exists(t, r) /\ LinksKept(s, t, r),
           \A r \in Run : ~Exists(s, r) => ~IsChild(t, r),
           \E c : \A r \in Run : r # c /\ Exists(t, r) => Exists(s, r)
    PROVE  Grows(s, t)
  BY DEF Grows, CallKept

LEMMA SameRunsGrow ==
    ASSUME NEW s \in State, NEW t \in State, \A i \in Inv : CallKept(s, t, i),
           t.rules[TaskTool] = s.rules[TaskTool], t.runs = s.runs
    PROVE  Grows(s, t)
PROOF
  <1>1. \A r \in Run : Exists(s, r) => Exists(t, r) /\ LinksKept(s, t, r)
    BY DEF Exists, LinksKept
  <1>2. \A r \in Run : ~Exists(s, r) => ~IsChild(t, r)
    <2>1. \A r \in Run : ~Exists(s, r) => ~IsChild(s, r)
      BY ChildExists
    <2> QED
      BY <2>1 DEF IsChild
  <1>3. \A r \in Run : r # NoRun /\ Exists(t, r) => Exists(s, r)
    BY DEF Exists
  <1> QED
    BY <1>1, <1>2, <1>3, KeptCallsGrow

\* only run q changes, and keeps its links
LEMMA OneRunGrows ==
    ASSUME NEW s \in State, NEW t \in State, \A i \in Inv : CallKept(s, t, i),
           t.rules[TaskTool] = s.rules[TaskTool],
           NEW q \in Run, OtherRunsSame(s, t, q), LinksKept(s, t, q),
           t.runs[q].status \in Terminal
    PROVE  Grows(s, t)
PROOF
  <1>1. Exists(t, q)
    BY DEF Exists, Terminal
  <1>2. \A r \in Run : LinksKept(s, t, r)
    BY DEF LinksKept, OtherRunsSame
  <1>3. \A r \in Run : Exists(s, r) => Exists(t, r)
    BY <1>1 DEF Exists, OtherRunsSame
  <1>4. \A r \in Run : ~Exists(s, r) => ~IsChild(t, r)
    <2>1. \A r \in Run : ~Exists(s, r) => ~IsChild(s, r)
      BY ChildExists
    <2> QED
      BY <1>2, <2>1 DEF IsChild, LinksKept
  <1>5. \A r \in Run : r # q /\ Exists(t, r) => Exists(s, r)
    BY DEF Exists, OtherRunsSame
  <1> QED
    BY <1>2, <1>3, <1>4, <1>5, KeptCallsGrow

LEMMA ForegroundedIsSound ==
    ASSUME NEW t \in State, Records(t), NEW r \in Run, Exists(t, r), Foregrounded(t, r)
    PROVE  Sound(t) /\ InHand(t)
  BY DEF Sound, InHand, Foregrounded, OwnerExists, Answerable, Phases

LEMMA EmptyForegroundIsSound ==
    ASSUME NEW t \in State, Records(t), t.owner = NoOwner, t.active = NoRun
    PROVE  Sound(t) /\ InHand(t)
  BY DEF Sound, InHand, OwnerExists, Answerable, NoOwner

LEMMA SameOwnerIsSound ==
    ASSUME NEW s \in State, NEW t \in State, Sound(s), Records(t), Grows(s, t),
           t.owner = s.owner, \A i \in Inv : CallKept(s, t, i)
    PROVE  Sound(t)
PROOF
  <1>1. OwnerExists(t)
    <2>1. s.owner.run \in Run \cup {NoRun}
      BY DEF State, Owner
    <2> QED
      BY <2>1 DEF Sound, OwnerExists, Grows
  <1>2. \A r, a : PendingIn(t, r, a) = PendingIn(s, r, a)
    BY DEF PendingIn, CallKept
  <1>3. Answerable(t)
    BY <1>2 DEF Sound, Answerable
  <1> QED
    BY <1>1, <1>3 DEF Sound

\* One lemma per shape: the records grow, and soundness is kept

LEMMA TalkedIsSound ==
    ASSUME NEW s \in State, NEW t \in State, Sound(s), InHand(s),
           NEW r \in Run, Talked(s, t, r)
    PROVE  Grows(s, t) /\ Sound(t) /\ InHand(t)
PROOF
  <1>1. \A i \in Inv : CallKept(s, t, i)
    BY DEF Talked, SameRecords, CallKept
  <1>2. Grows(s, t)
    BY <1>1, SameRunsGrow DEF Talked, SameRecords
  <1>3. Records(t)
    BY <1>2, GrowsKeepsRecords DEF Sound
  <1>4. Sound(t)
    BY <1>1, <1>2, <1>3, SameOwnerIsSound DEF Talked
  <1> QED
    BY <1>2, <1>4 DEF Talked, InHand, Phases

LEMMA SubmittedIsSound ==
    ASSUME NEW s \in State, NEW t \in State, Sound(s), InHand(s),
           NEW r \in Run, ~Exists(s, r), Submitted(s, t, r)
    PROVE  Grows(s, t) /\ Sound(t) /\ InHand(t)
PROOF
  <1>1. \A i \in Inv : CallKept(s, t, i)
    BY DEF Submitted, CallKept
  <1>2. \A q \in Run : q # r => t.runs[q] = s.runs[q]
    BY DEF Submitted, OtherRunsSame
  <1>3. Exists(t, r) /\ ~IsChild(t, r)
    BY DEF Submitted, Exists, IsChild
  <1>4. \A q \in Run : Exists(s, q) => Exists(t, q) /\ LinksKept(s, t, q)
    BY <1>2 DEF Exists, LinksKept
  <1>5. \A q \in Run : ~Exists(s, q) => ~IsChild(t, q)
    <2>1. \A q \in Run : ~Exists(s, q) => ~IsChild(s, q)
      BY ChildExists
    <2> QED
      BY <1>2, <1>3, <2>1 DEF IsChild
  <1>6. \A q \in Run : q # r /\ Exists(t, q) => Exists(s, q)
    BY <1>2 DEF Exists
  <1>7. Grows(s, t)
    BY <1>1, <1>4, <1>5, <1>6, KeptCallsGrow DEF Submitted
  <1>8. Records(t)
    BY <1>7, GrowsKeepsRecords DEF Sound
  <1>9. Foregrounded(t, r)
    BY DEF Submitted
  <1> QED
    BY <1>3, <1>7, <1>8, <1>9, ForegroundedIsSound

LEMMA EndedIsSound ==
    ASSUME NEW s \in State, NEW t \in State, Sound(s), InHand(s),
           NEW r \in Run, Ended(s, t, r)
    PROVE  Grows(s, t) /\ Sound(t) /\ InHand(t)
PROOF
  <1>1. \A i \in Inv : CallKept(s, t, i)
    BY DEF Ended, CallKept
  <1>2. Grows(s, t)
    BY <1>1, OneRunGrows DEF Ended, Stopped
  <1>3. Records(t)
    BY <1>2, GrowsKeepsRecords DEF Sound
  <1> QED
    BY <1>2, <1>3, EmptyForegroundIsSound DEF Ended, Stopped

LEMMA ReportedIsSound ==
    ASSUME NEW s \in State, NEW t \in State, Sound(s), InHand(s),
           NEW r \in Run, NEW i \in Inv, Reported(s, t, r, i)
    PROVE  Grows(s, t) /\ Sound(t) /\ InHand(t)
PROOF
  <1>1. \A j \in Inv : CallKept(s, t, j)
    BY DEF Reported, OtherCallsSame, CallKept
  <1>2. t.rules[TaskTool] = s.rules[TaskTool]
    BY DEF Reported
  <1>3. CASE Stopped(s, t, r)
    <2>1. Grows(s, t)
      BY <1>1, <1>2, <1>3, OneRunGrows DEF Stopped
    <2>2. Records(t)
      BY <2>1, GrowsKeepsRecords DEF Sound
    <2> QED
      BY <1>3, <2>1, <2>2, EmptyForegroundIsSound DEF Stopped
  <1>4. CASE /\ t.runs = s.runs /\ t.owner = s.owner
             /\ t.active = s.active /\ t.status = s.status
    <2>1. Grows(s, t)
      BY <1>1, <1>2, <1>4, SameRunsGrow
    <2>2. Records(t)
      BY <2>1, GrowsKeepsRecords DEF Sound
    <2>3. Sound(t)
      BY <1>1, <1>4, <2>1, <2>2, SameOwnerIsSound
    <2> QED
      BY <1>4, <2>1, <2>3 DEF InHand
  <1>5. CASE s.active = r /\ t.runs = s.runs /\ Foregrounded(t, r)
    <2>1. Grows(s, t)
      BY <1>1, <1>2, <1>5, SameRunsGrow
    <2>2. Records(t)
      BY <2>1, GrowsKeepsRecords DEF Sound
    <2>3. Exists(t, r)
      BY <1>5, ReducerAssumption DEF Sound, InHand, OwnerExists, Exists
    <2> QED
      BY <1>5, <2>1, <2>2, <2>3, ForegroundedIsSound
  <1> QED
    BY <1>3, <1>4, <1>5 DEF Reported

LEMMA ChildEndedIsSound ==
    ASSUME NEW s \in State, NEW t \in State, Sound(s),
           NEW c \in Run, NEW outcome \in Terminal, ChildEnded(s, t, c, outcome)
    PROVE  Grows(s, t) /\ Sound(t) /\ InHand(t)
PROOF
  <1> DEFINE p == s.runs[c].parent
  <1>1. p \in Run /\ s.runs[c].task \in Inv /\ LinkedRun(s, c)
    BY ChildLinks DEF ChildEnded, Sound, Records, Linked
  <1>2. \A i \in Inv : CallKept(s, t, i)
    BY <1>1 DEF ChildEnded, OtherCallsSame, CallKept
  <1>3. Grows(s, t)
    BY <1>2, OneRunGrows DEF ChildEnded
  <1>4. Records(t)
    BY <1>3, GrowsKeepsRecords DEF Sound
  <1>5. Exists(t, p)
    BY <1>1, <1>3 DEF LinkedRun, Grows
  <1> QED
    BY <1>1, <1>3, <1>4, <1>5, ForegroundedIsSound DEF ChildEnded

LEMMA CalledIsSound ==
    ASSUME NEW s \in State, NEW t \in State, Sound(s), InHand(s),
           NEW r \in Run, NEW i \in Inv, Called(s, t, r, i)
    PROVE  Grows(s, t) /\ Sound(t) /\ InHand(t)
PROOF
  <1>1. t.runs = s.runs /\ t.rules = s.rules
    BY DEF Called
  <1>2. \A q \in Run : Exists(s, q) <=> Exists(t, q)
    BY <1>1 DEF Exists
  <1>3. Exists(s, r)
    BY ReducerAssumption DEF Called, Sound, InHand, OwnerExists
  <1>4. \A q \in Run : LinksKept(s, t, q)
    BY <1>1 DEF LinksKept
  <1>5. \A q \in Run : ~Exists(s, q) => ~IsChild(t, q)
    <2>1. \A q \in Run : ~Exists(s, q) => ~IsChild(s, q)
      BY ChildExists
    <2> QED
      BY <1>1, <2>1 DEF IsChild
  <1>6. \A j \in Inv : j # i => t.invs[j] = s.invs[j]
    BY DEF Called, OtherCallsSame
  <1>7. /\ s.invs[i].approval = "Absent" /\ t.invs[i].run = r
    BY DEF Called
  <1>8. \A q \in Run : q # NoRun /\ Exists(t, q) => Exists(s, q)
    BY <1>2
  <1>9. Grows(s, t)
    BY <1>1, <1>2, <1>3, <1>4, <1>5, <1>6, <1>7, <1>8 DEF Grows
  <1>10. Records(t)
    BY <1>9, GrowsKeepsRecords DEF Sound
  <1> QED
    BY <1>2, <1>3, <1>9, <1>10, ForegroundedIsSound DEF Called

LEMMA DecidedIsSound ==
    ASSUME NEW s \in State, NEW t \in State, Sound(s), InHand(s),
           NEW B, Decided(s, t, B)
    PROVE  Grows(s, t) /\ Sound(t) /\ InHand(t)
PROOF
  <1>1. s.active \in Run /\ Exists(s, s.active)
    BY DEF Decided, State, Sound, InHand, OwnerExists
  <1>2. \A i \in B : /\ i \in Inv /\ s.invs[i].run = s.active
                     /\ s.invs[i].approval = "Pending"
    BY ReplyTargetsRun DEF Decided
  <1>3. /\ \A j \in Inv : j \notin B => t.invs[j] = s.invs[j]
        /\ \A j \in B : /\ t.invs[j].run = s.invs[j].run
                        /\ t.invs[j].tool = s.invs[j].tool
                        /\ t.invs[j].approval \in {"Approved", "Denied"}
    BY DEF Decided, Verdicts
  <1>4. /\ \A i \in Inv : s.invs[i].approval # "Absent" =>
              /\ t.invs[i].approval # "Absent"
              /\ t.invs[i].run = s.invs[i].run
              /\ t.invs[i].tool = s.invs[i].tool
        /\ \A i \in Inv : s.invs[i].approval = "Approved" =>
              t.invs[i].approval = "Approved" /\ t.invs[i].child = s.invs[i].child
        /\ \A i \in Inv : s.invs[i].approval = "Absent" => t.invs[i].approval = "Absent"
    BY <1>2, <1>3
  <1>5. t.rules[TaskTool] = s.rules[TaskTool]
    BY DEF Decided
  <1>6. \A q \in Run : ~Exists(s, q) => ~IsChild(s, q)
    BY ChildExists
  <1>7. CASE t.runs = s.runs /\ Foregrounded(t, s.active)
    <2>1. \A q \in Run : (Exists(s, q) <=> Exists(t, q)) /\ LinksKept(s, t, q)
      BY <1>7 DEF Exists, LinksKept
    <2>2. \A q \in Run : ~Exists(s, q) => ~IsChild(t, q)
      BY <1>6, <1>7 DEF IsChild
    <2>3. \A q \in Run : q # NoRun /\ Exists(t, q) => Exists(s, q)
      BY <2>1
    <2>4. Grows(s, t)
      BY <1>4, <1>5, <2>1, <2>2, <2>3 DEF Grows
    <2>5. Records(t)
      BY <2>4, GrowsKeepsRecords DEF Sound
    <2> QED
      BY <1>1, <1>7, <2>1, <2>4, <2>5, ForegroundedIsSound
  <1>8. ASSUME NEW c \in Run, NEW i \in B,
               s.runs[c].status = "Absent", s.invs[i].tool = TaskTool,
               t.invs[i].approval = "Approved", t.invs[i].child = c,
               OtherRunsSame(s, t, c),
               t.runs[c] = [status |-> "InProgress", parent |-> s.active, task |-> i],
               Foregrounded(t, c)
        PROVE  Grows(s, t) /\ Sound(t) /\ InHand(t)
    <2>1. \A q \in Run : q # c => t.runs[q] = s.runs[q]
      BY <1>8 DEF OtherRunsSame
    <2>2. Exists(t, c) /\ ~Exists(s, c) /\ s.active # c
      BY <1>1, <1>8 DEF Exists
    <2>3. Exists(t, s.active)
      BY <1>1, <2>1, <2>2 DEF Exists
    <2>4. LinkedRun(t, c)
      BY <1>2, <1>3, <1>8, <2>2, <2>3 DEF LinkedRun
    <2>5. \A q \in Run : ~Exists(s, q) => ~IsChild(t, q) \/ LinkedRun(t, q)
      BY <1>6, <2>1, <2>4 DEF IsChild
    <2>6. \A q \in Run : Exists(s, q) => Exists(t, q) /\ LinksKept(s, t, q)
      BY <2>1, <2>2 DEF Exists, LinksKept
    <2>7. \A q \in Run : q # c /\ Exists(t, q) => Exists(s, q)
      BY <2>1 DEF Exists
    <2>8. Grows(s, t)
      BY <1>4, <1>5, <2>5, <2>6, <2>7 DEF Grows
    <2>9. Records(t)
      BY <2>8, GrowsKeepsRecords DEF Sound
    <2> QED
      BY <1>8, <2>2, <2>8, <2>9, ForegroundedIsSound
  <1> QED
    BY <1>7, <1>8 DEF Decided

LEMMA RecoveryIsSound ==
    ASSUME NEW s \in State, NEW t \in State, Sound(s), s.active = NoRun, Recovers(s, t)
    PROVE  Grows(s, t) /\ Sound(t) /\ InHand(t)
PROOF
  <1>1. CASE Closed(s, t) \/ Restored(s, t)
    <2>1. \A i \in Inv : CallKept(s, t, i)
      BY <1>1 DEF Closed, Restored, SameRecords, CallKept
    <2>2. t.rules = s.rules /\ t.runs = s.runs /\ t.owner = s.owner
      BY <1>1 DEF Closed, Restored, SameRecords
    <2>3. Grows(s, t)
      BY <2>1, <2>2, SameRunsGrow
    <2>4. Records(t)
      BY <2>3, GrowsKeepsRecords DEF Sound
    <2>5. Sound(t)
      BY <2>1, <2>2, <2>3, <2>4, SameOwnerIsSound
    <2>6. InHand(t)
      BY <1>1 DEF Closed, Restored, InHand, Phases
    <2> QED
      BY <2>3, <2>5, <2>6
  <1>2. CASE Interrupts(s, t)
    <2>1. /\ \A i \in Inv : CallKept(s, t, i)
          /\ s.owner.run \in Run /\ Stopped(s, t, s.owner.run) /\ t.rules = s.rules
      BY <1>2 DEF Interrupts
    <2>2. Grows(s, t)
      BY <2>1, OneRunGrows DEF Stopped
    <2>3. Records(t)
      BY <2>2, GrowsKeepsRecords DEF Sound
    <2> QED
      BY <2>1, <2>2, <2>3, EmptyForegroundIsSound DEF Stopped
  <1>3. CASE \E c \in Run : ChildInterrupted(s, t, c)
    <2>1. PICK c \in Run : ChildEnded(s, t, c, "Failed")
      BY <1>3 DEF ChildInterrupted
    <2>2. "Failed" \in Terminal
      BY DEF Terminal
    <2> QED
      BY <2>1, <2>2, ChildEndedIsSound
  <1> QED
    BY <1>1, <1>2, <1>3 DEF Recovers

-----------------------------------------------------------------------------
\* The steps of the host

\* the message reports a tool's error or an unknown tool, which ends its run
Fails(s, m) ==
    \/ m.kind = "ToolCall" /\ m.tool = Unknown
    \/ m.kind = "ToolFinished" /\ EndsRun(s.invs[m.inv].tool, m.outcome)

StreamEnd(m) == m.kind \in {"AssistantDone", "AssistantFailed"}

UserShape(s, t) ==
    \/ t = s
    \/ \E r \in Run : ~Exists(s, r) /\ Submitted(s, t, r)
    \/ Decided(s, t, ReplyTargets(s))
    \/ /\ s.active \in Run
       /\ \/ ChildEnded(s, t, s.active, "Cancelled")
          \/ ~IsChild(s, s.active) /\ Ended(s, t, s.active)

MessageShape(s, t, m) ==
    \/ t = s
    \/ m.kind = "Chunk" /\ Talked(s, t, m.run)
    \/ m.kind = "ToolCall" /\ m.tool = Unknown /\ Ended(s, t, m.run)
    \/ m.kind = "ToolCall" /\ \E i \in Inv : Called(s, t, m.run, i)
    \/ StreamEnd(m) /\ ~IsChild(s, m.run) /\ Ended(s, t, m.run)
    \/ StreamEnd(m) /\ \E outcome \in {"Completed", "Failed"} : ChildEnded(s, t, m.run, outcome)
    \/ /\ m.kind = "ToolFinished"
       /\ Reported(s, t, m.run, m.inv)
       /\ Fails(s, m) \/ t.runs = s.runs

LEMMA ResultKeepsRuns ==
    ASSUME NEW s \in State, NEW r \in Run, NEW i \in Inv, NEW outcome,
           ~EndsRun(s.invs[i].tool, outcome),
           NEW t, t = ToolExecutionFinished(s, r, i, outcome).st
    PROVE  t.runs = s.runs
PROOF
  <1> DEFINE exec == IF outcome = "ok" THEN "Completed" ELSE "Failed"
             u == [s EXCEPT !.invs[i].exec = exec]
  <1>1. \/ t = s
        \/ /\ s.invs[i].approval # "Absent"
           /\ t = u \/ t = AdvanceBatch(u, r, s.invs[i].anchor).st
    BY DEF ToolExecutionFinished, Ignored
  <1>2. u.runs = s.runs
    BY ExecFields
  <1>3. s.invs[i].approval # "Absent" => u \in State
    BY ExecType
  <1> HIDE DEF u
  <1>4. \A v : s.invs[i].approval # "Absent" /\ v = AdvanceBatch(u, r, s.invs[i].anchor).st
                  => v.runs = u.runs
    BY <1>3, AdvanceFields DEF SameRecords
  <1> QED
    BY <1>1, <1>2, <1>4

LEMMA ChildHasTask ==
    ASSUME NEW s \in State, Linked(s), NEW r \in Run, IsChild(s, r)
    PROVE  /\ s.invs[s.runs[r].task].approval = "Approved"
           /\ s.invs[s.runs[r].task].tool = TaskTool
  BY DEF Linked, LinkedRun

LEMMA DispatchShape ==
    ASSUME TypeOK, Linked(st), NEW m \in Message, Dispatch(m)
    PROVE  MessageShape(st, st', m)
PROOF
  <1>1. st \in State
    BY DEF TypeOK
  <1>2. /\ m.kind \in {"Chunk", "ToolCall", "AssistantDone", "AssistantFailed", "ToolFinished"}
        /\ m.run \in Run
        /\ m.tool \in Tool \cup {Unknown}
        /\ m.kind = "ToolFinished" => m.inv \in Inv
    BY DEF Message
  <1>3. CASE m.kind = "Chunk"
    <2>1. PICK due \in BOOLEAN : st' = AssistantChunk(st, m.run, due).st
      BY <1>3 DEF Dispatch, Handle
    <2>2. st' = st \/ Talked(st, st', m.run)
      BY <1>1, <1>2, <2>1, AssistantChunkShape
    <2> QED
      BY <1>3, <2>2 DEF MessageShape
  <1>4. CASE m.kind = "ToolCall" /\ m.tool = Unknown
    <2>1. st' = UnsupportedToolCall(st, m.run).st
      BY <1>4 DEF Dispatch, Handle
    <2>2. st' = st \/ Ended(st, st', m.run)
      BY <1>1, <1>2, <2>1, UnsupportedToolCallShape
    <2> QED
      BY <1>4, <2>2 DEF MessageShape
  <1>5. CASE m.kind = "ToolCall" /\ m.tool # Unknown
    <2>1. PICK i \in Inv : NextInv(i) /\ st' = AssistantToolCall(st, m.run, m.tool, i).st
      BY <1>5 DEF Dispatch, Handle
    <2>2. m.tool \in Tool /\ st.invs[i].approval = "Absent"
      BY <1>2, <1>5, <2>1 DEF NextInv
    <2>3. st' = st \/ Called(st, st', m.run, i)
      BY <1>1, <1>2, <2>1, <2>2, AssistantToolCallShape
    <2> QED
      BY <1>5, <2>3 DEF MessageShape
  <1>6. CASE StreamEnd(m)
    <2>1. PICK outcome \in {"Completed", "Failed"} : st' = AssistantEnded(st, m.run, outcome).st
      BY <1>6 DEF Dispatch, Handle, StreamEnd
    <2>2. \/ st' = st
          \/ ChildEnded(st, st', m.run, outcome)
          \/ ~IsChild(st, m.run) /\ Ended(st, st', m.run)
      BY <1>1, <1>2, <2>1, ChildHasTask, AssistantEndedShape
    <2> QED
      BY <1>6, <2>2 DEF MessageShape
  <1>7. CASE m.kind = "ToolFinished"
    <2>1. st' = ToolExecutionFinished(st, m.run, m.inv, m.outcome).st
      BY <1>7 DEF Dispatch, Handle
    <2>2. st' = st \/ Reported(st, st', m.run, m.inv)
      BY <1>1, <1>2, <1>7, <2>1, ToolExecutionFinishedShape
    <2>3. Fails(st, m) \/ st'.runs = st.runs
      BY <1>1, <1>2, <1>7, <2>1, ResultKeepsRuns DEF Fails
    <2> QED
      BY <1>7, <2>2, <2>3 DEF MessageShape
  <1> QED
    BY <1>2, <1>3, <1>4, <1>5, <1>6, <1>7 DEF StreamEnd

LEMMA UserStepShape ==
    ASSUME TypeOK, Linked(st), User
    PROVE  UserShape(st, st')
PROOF
  <1>1. st \in State
    BY DEF TypeOK
  <1>2. CASE UserSubmits
    <2>1. PICK r \in Run : Fresh(r) /\ st' = SubmitPrompt(st, r).st
      BY <1>2 DEF UserSubmits, Handle
    <2>2. st' = st \/ Submitted(st, st', r)
      BY <1>1, <2>1, SubmitPromptShape
    <2> QED
      BY <2>1, <2>2 DEF UserShape, Fresh, Exists
  <1>3. CASE UserReplies
    <2>1. CASE st' = DenyPending(st).st
      <3>1. st' = st \/ Decided(st, st', ReplyTargets(st))
        BY <1>1, <2>1, DenyPendingShape
      <3> QED
        BY <3>1 DEF UserShape
    <2>2. CASE \E reply \in Replies \cap {"Once", "Always"}, valid \in BOOLEAN, c \in Run :
                  /\ (\E i \in ReplyTargets(st) : st.invs[i].tool = TaskTool) => Fresh(c)
                  /\ st' = ApprovePending(st, reply, valid, c).st
      <3>1. PICK reply \in Replies \cap {"Once", "Always"}, valid \in BOOLEAN, c \in Run :
                  /\ (\E i \in ReplyTargets(st) : st.invs[i].tool = TaskTool) => Fresh(c)
                  /\ st' = ApprovePending(st, reply, valid, c).st
        BY <2>2
      <3>2. st' = st \/ Decided(st, st', ReplyTargets(st))
        BY <1>1, <3>1, ApprovePendingShape DEF Fresh
      <3> QED
        BY <3>2 DEF UserShape
    <2>3. CASE \E i \in ReplyTargets(st) : st' = RejectAlways(st, i).st
      <3>1. Decided(st, st', ReplyTargets(st))
        BY <1>1, <2>3, RejectAlwaysShape
      <3> QED
        BY <3>1 DEF UserShape
    <2> QED
      BY <1>3, <2>1, <2>2, <2>3 DEF UserReplies, Handle
  <1>4. CASE UserCancels
    <2>1. st.active # NoRun /\ st' = CancelActiveRun(st).st /\ st.active \in Run
      BY <1>1, <1>4 DEF UserCancels, Handle, State
    <2>2. \/ ChildEnded(st, st', st.active, "Cancelled")
          \/ ~IsChild(st, st.active) /\ Ended(st, st', st.active)
      BY <1>1, <2>1, ChildHasTask, CancelActiveRunShape
    <2> QED
      BY <2>1, <2>2 DEF UserShape
  <1> QED
    BY <1>2, <1>3, <1>4 DEF User

\* A step changes the state by a shape, saves it, recovers it, or leaves it alone.
StepShape ==
    \/ User /\ UserShape(st, st') /\ UNCHANGED <<disk, chan, tools, crashes>>
    \/ /\ HostHandlesMessage
       /\ Head(chan) \in Message /\ MessageShape(st, st', Head(chan))
       /\ UNCHANGED <<disk, tools, crashes>>
    \/ ApplyPersistSession /\ st' = st /\ disk' = SessionOf(st) /\ crashes' = crashes
    \/ CrashAndRestart /\ Recovers(Loaded(disk), st') /\ disk' = disk /\ crashes' = crashes + 1
    \/ /\ ~ (User \/ HostHandlesMessage \/ ApplyPersistSession \/ CrashAndRestart)
       /\ UNCHANGED <<st, disk, crashes>>

LEMMA StepHasShape ==
    ASSUME IInv, Linked(st), [Next]_vars
    PROVE  StepShape
PROOF
  <1>1. TypeOK /\ st \in State /\ disk \in Session /\ chan \in Seq(Message)
    BY DEF IInv, TypeOK
  <1>2. CASE User
    <2>1. UserShape(st, st')
      BY <1>1, <1>2, UserStepShape
    <2>2. UNCHANGED <<disk, chan, tools, crashes>>
      BY <1>2 DEF User, UserSubmits, UserReplies, UserCancels
    <2> QED
      BY <1>2, <2>1, <2>2 DEF StepShape
  <1>3. CASE HostHandlesMessage
    <2>1. Head(chan) \in Message /\ Dispatch(Head(chan))
      BY <1>1, <1>3, HeadTailProperties DEF HostHandlesMessage
    <2>2. MessageShape(st, st', Head(chan))
      BY <1>1, <2>1, DispatchShape
    <2>3. UNCHANGED <<disk, tools, crashes>>
      BY <1>3 DEF HostHandlesMessage
    <2> QED
      BY <1>3, <2>1, <2>2, <2>3 DEF StepShape
  <1>4. CASE ApplyPersistSession
    BY <1>4 DEF ApplyPersistSession, StepShape
  <1>5. CASE CrashAndRestart
    <2>1. Loaded(disk) \in State /\ Loaded(disk).active = NoRun
      BY <1>1, LoadedType DEF Loaded
    <2>2. st' = RecoverStartup(Loaded(disk)).st
      BY <1>5 DEF CrashAndRestart, Handle
    <2>3. Recovers(Loaded(disk), st')
      BY <2>1, <2>2, RecoverStartupShape
    <2> QED
      BY <1>5, <2>3 DEF StepShape, CrashAndRestart
  <1>6. CASE ~ (User \/ HostHandlesMessage \/ ApplyPersistSession \/ CrashAndRestart)
    <2>1. UNCHANGED <<st, disk, crashes>>
      BY <1>6 DEF Next, Host, PersistSessionFails, ApplyStartAssistant, ApplyCancelAssistant,
                  ApplyExecuteTool, Stream, StreamEmitsText, StreamCallsTool, StreamEnds,
                  StreamFails, ToolTask, ToolStarts, ToolFinishes, vars
    <2> QED
      BY <1>6, <2>1 DEF StepShape
  <1> QED
    BY <1>2, <1>3, <1>4, <1>5, <1>6

LEMMA UserIsSound ==
    ASSUME NEW s \in State, NEW t \in State, Sound(s), InHand(s), UserShape(s, t)
    PROVE  t = s \/ (Grows(s, t) /\ Sound(t) /\ InHand(t))
PROOF
  <1>1. "Cancelled" \in Terminal
    BY DEF Terminal
  <1> QED
    BY <1>1, SubmittedIsSound, DecidedIsSound, ChildEndedIsSound, EndedIsSound DEF UserShape

LEMMA MessageIsSound ==
    ASSUME NEW s \in State, NEW t \in State, Sound(s), InHand(s),
           NEW m \in Message, MessageShape(s, t, m)
    PROVE  t = s \/ (Grows(s, t) /\ Sound(t) /\ InHand(t))
PROOF
  <1>1. "Completed" \in Terminal /\ "Failed" \in Terminal
    BY DEF Terminal
  <1>2. m.run \in Run /\ (m.kind = "ToolFinished" => m.inv \in Inv)
    BY DEF Message
  <1> QED
    BY <1>1, <1>2, TalkedIsSound, EndedIsSound, CalledIsSound, ChildEndedIsSound, ReportedIsSound
       DEF MessageShape

-----------------------------------------------------------------------------
\* Soundness is an invariant

SoundInv == Sound(st) /\ InHand(st) /\ Sound(disk)

\* The records are in the runs, the calls and the rules alone.
LEMMA RecordsOfFields ==
    ASSUME NEW s, NEW d, d.runs = s.runs, d.invs = s.invs, d.rules = s.rules, Records(s)
    PROVE  Records(d)
PROOF
  <1>1. \A r : Exists(d, r) <=> Exists(s, r)
    BY DEF Exists
  <1>2. Linked(d)
    BY <1>1 DEF Records, Linked, LinkedRun, IsChild
  <1>3. CallsBelong(d) /\ TaskIsAsked(d)
    BY <1>1 DEF Records, CallsBelong, TaskIsAsked
  <1>4. {r \in Run : Exists(d, r)} = {r \in Run : Exists(s, r)}
    BY <1>1
  <1>5. FinitelyMany(d)
    BY <1>4 DEF Records, FinitelyMany
  <1> QED
    BY <1>2, <1>3, <1>5 DEF Records

LEMMA SavedIsSound ==
    ASSUME NEW s \in State, Sound(s)
    PROVE  Sound(SessionOf(s))
PROOF
  <1> DEFINE d == SessionOf(s)
  <1>1. /\ d.runs = s.runs /\ d.invs = s.invs /\ d.rules = s.rules /\ d.owner = s.owner
    BY DEF SessionOf
  <1> HIDE DEF d
  <1>2. Records(d)
    BY <1>1, RecordsOfFields DEF Sound
  <1>3. OwnerExists(d) /\ Answerable(d)
    BY <1>1 DEF Sound, OwnerExists, Answerable, Exists, PendingIn
  <1> QED
    BY <1>2, <1>3 DEF Sound, d

LEMMA LoadedIsSound ==
    ASSUME NEW d \in Session, Sound(d)
    PROVE  Sound(Loaded(d)) /\ Loaded(d).active = NoRun
PROOF
  <1> DEFINE s == Loaded(d)
  <1>1. /\ s.runs = d.runs /\ s.invs = d.invs /\ s.rules = d.rules /\ s.owner = d.owner
        /\ s.active = NoRun
    BY DEF Loaded
  <1> HIDE DEF s
  <1>2. Records(s)
    BY <1>1, RecordsOfFields DEF Sound
  <1>3. OwnerExists(s) /\ Answerable(s)
    BY <1>1 DEF Sound, OwnerExists, Answerable, Exists, PendingIn
  <1> QED
    BY <1>1, <1>2, <1>3 DEF Sound, s

LEMMA InitSound == Init => SoundInv
PROOF
  <1> SUFFICES ASSUME Init PROVE SoundInv
    OBVIOUS
  <1> DEFINE d == EmptySession
  <1>1. /\ \A r \in Run : d.runs[r] = NoRunRecord
        /\ \A i \in Inv : d.invs[i] = NoInvRecord
        /\ d.owner = NoOwner /\ d.rules[TaskTool] = "None"
    BY DEF EmptySession, Tool
  <1>2. disk = d /\ st = Loaded(d) /\ d \in Session
    BY EmptySessionType DEF Init
  <1> HIDE DEF d
  <1>3. \A r \in Run : ~Exists(d, r) /\ ~IsChild(d, r)
    BY <1>1 DEF Exists, IsChild, NoRunRecord
  <1>4. {r \in Run : Exists(d, r)} = {}
    BY <1>3
  <1>5. Records(d)
    BY <1>1, <1>3, <1>4, FS_EmptySet DEF Records, Linked, CallsBelong, FinitelyMany, TaskIsAsked, NoInvRecord
  <1>6. Sound(d)
    BY <1>1, <1>5 DEF Sound, OwnerExists, Answerable, NoOwner
  <1>7. Sound(st) /\ InHand(st)
    BY <1>2, <1>6, LoadedIsSound DEF InHand
  <1> QED
    BY <1>2, <1>6, <1>7 DEF SoundInv

LEMMA StepKeepsSound ==
    ASSUME IInv, SoundInv, [Next]_vars
    PROVE  SoundInv' /\ (crashes' = crashes => st' = st \/ Grows(st, st'))
PROOF
  <1>1. st \in State /\ disk \in Session /\ st' \in State /\ crashes \in Nat
    BY StepKeepsInv, HostAssumption DEF IInv, TypeOK
  <1>2. StepShape
    BY StepHasShape DEF SoundInv, Sound, Records
  <1>3. CASE UserShape(st, st') /\ disk' = disk
    BY <1>1, <1>3, UserIsSound DEF SoundInv
  <1>4. CASE Head(chan) \in Message /\ MessageShape(st, st', Head(chan)) /\ disk' = disk
    BY <1>1, <1>4, MessageIsSound DEF SoundInv
  <1>5. CASE st' = st /\ disk' = SessionOf(st)
    BY <1>1, <1>5, SavedIsSound DEF SoundInv
  <1>6. CASE Recovers(Loaded(disk), st') /\ disk' = disk /\ crashes' = crashes + 1
    BY <1>1, <1>6, LoadedType, LoadedIsSound, RecoveryIsSound DEF SoundInv
  <1>7. CASE UNCHANGED <<st, disk>>
    BY <1>7 DEF SoundInv
  <1> QED
    BY <1>2, <1>3, <1>4, <1>5, <1>6, <1>7 DEF StepShape

LEMMA SoundHolds == Spec => [](IInv /\ SoundInv)
PROOF
  <1>1. Init => IInv /\ SoundInv
    BY InitInv, InitSound
  <1>2. IInv /\ SoundInv /\ [Next]_vars => (IInv /\ SoundInv)'
    BY StepKeepsInv, StepKeepsSound
  <1> QED
    BY <1>1, <1>2, PTL DEF Spec

-----------------------------------------------------------------------------
\* A child run names an approved `task` call of its parent and that call names the
\* child, through every order of replies, results, ends, cancels, saves and crashes:
\* the links are written together (start_child_run) and no later handler moves one.
THEOREM DelegationLinked == Spec => []DelegationIsLinked
PROOF
  <1>1. SoundInv => DelegationIsLinked
    BY DEF SoundInv, Sound, Records, Linked, LinkedRun, DelegationIsLinked
  <1> QED
    BY <1>1, SoundHolds, PTL

\* A question on screen, in memory or in a saved session, is one the user's reply
\* applies to: whoever sets the foreground to AwaitingToolApproval has a pending call
\* of that run and batch, and no handler settles such a call without setting the
\* foreground again.
THEOREM AwaitingAnswerable == Spec => []AwaitingIsAnswerable
PROOF
  <1>1. IInv /\ SoundInv => AwaitingIsAnswerable
    <2> SUFFICES ASSUME IInv, SoundInv PROVE AwaitingIsAnswerable
      OBVIOUS
    <2>1. ASSUME st.active # NoRun, st.owner.phase = "AwaitingToolApproval"
          PROVE  ReplyTargets(st) # {}
      <3>1. st.owner.run = st.active /\ PendingIn(st, st.active, st.owner.anchor) # {}
        BY <2>1 DEF SoundInv, InHand, Sound, Answerable
      <3>2. ReplyAnchor(st) = {st.owner.anchor}
        BY <2>1, <3>1 DEF ReplyAnchor
      <3> QED
        BY <3>1, <3>2 DEF ReplyTargets
    <2>2. Answerable(disk)
      BY DEF SoundInv, Sound
    <2> QED
      BY <2>1, <2>2 DEF AwaitingIsAnswerable, Answerable
  <1> QED
    BY <1>1, SoundHolds, PTL

-----------------------------------------------------------------------------
\* A result is awaited once
\*
\* A call whose tool is queued, running, or has sent its result is approved and
\* marked running, and is no `task` call; a result in the channel is the only sign of
\* it.  So a result is reported to the run of its call, and to a call nothing else
\* has settled.

Expected(s, i) ==
    /\ s.invs[i].approval = "Approved"
    /\ s.invs[i].exec = "Running"
    /\ s.invs[i].tool # TaskTool

Queued(i) == \E k \in 1..Len(pend) : pend[k].kind = "ExecuteTools" /\ i \in pend[k].ids

Sent(k, i) == chan[k].kind = "ToolFinished" /\ chan[k].inv = i

OneResult ==
    \A i \in Inv :
        /\ tools[i] # "idle" \/ Queued(i) => Expected(st, i)
        /\ \A k \in 1..Len(chan) : Sent(k, i) =>
              /\ Expected(st, i)
              /\ st.invs[i].run = chan[k].run
              /\ tools[i] = "idle" /\ ~Queued(i)
              /\ \A l \in 1..Len(chan) : Sent(l, i) => l = k

\* no shape but the report of its own result changes an expected call

LEMMA UserKeepsExpected ==
    ASSUME NEW s \in State, NEW t \in State, Sound(s), UserShape(s, t),
           NEW i \in Inv, Expected(s, i)
    PROVE  Expected(t, i) /\ t.invs[i].run = s.invs[i].run
PROOF
  <1>1. CASE t = s
    BY <1>1
  <1>2. CASE \E r \in Run : Submitted(s, t, r) \/ Ended(s, t, r)
    BY <1>2 DEF Submitted, Ended, Expected
  <1>3. CASE Decided(s, t, ReplyTargets(s))
    <2>1. i \notin ReplyTargets(s)
      BY ReplyTargetsRun DEF Expected
    <2> QED
      BY <1>3, <2>1 DEF Decided, Verdicts, Expected
  <1>4. CASE s.active \in Run /\ ChildEnded(s, t, s.active, "Cancelled")
    <2>1. s.runs[s.active].task # i
      BY <1>4, ChildHasTask DEF Sound, Records, ChildEnded, Expected
    <2> QED
      BY <1>4, <2>1 DEF ChildEnded, OtherCallsSame, Expected
  <1> QED
    BY <1>1, <1>2, <1>3, <1>4 DEF UserShape

LEMMA MessageKeepsExpected ==
    ASSUME NEW s \in State, NEW t \in State, Sound(s),
           NEW m \in Message, MessageShape(s, t, m),
           NEW i \in Inv, Expected(s, i), m.kind = "ToolFinished" => m.inv # i
    PROVE  Expected(t, i) /\ t.invs[i].run = s.invs[i].run
PROOF
  <1>1. m.run \in Run
    BY DEF Message
  <1>2. CASE t = s
    BY <1>2
  <1>3. CASE Talked(s, t, m.run) \/ Ended(s, t, m.run)
    BY <1>3 DEF Talked, SameRecords, Ended, Expected
  <1>4. CASE \E j \in Inv : Called(s, t, m.run, j)
    <2>1. PICK j \in Inv : Called(s, t, m.run, j)
      BY <1>4
    <2>2. j # i
      BY <2>1 DEF Called, Expected
    <2> QED
      BY <2>1, <2>2 DEF Called, OtherCallsSame, Expected
  <1>5. CASE \E outcome \in {"Completed", "Failed"} : ChildEnded(s, t, m.run, outcome)
    <2>1. s.runs[m.run].task # i
      BY <1>1, <1>5, ChildHasTask DEF Sound, Records, ChildEnded, Expected
    <2> QED
      BY <1>5, <2>1 DEF ChildEnded, OtherCallsSame, Expected
  <1>6. CASE m.kind = "ToolFinished" /\ Reported(s, t, m.run, m.inv)
    BY <1>6 DEF Reported, OtherCallsSame, Expected
  <1> QED
    BY <1>2, <1>3, <1>4, <1>5, <1>6 DEF MessageShape

\* a call a step approves, other than a `task` call the user answers, is expected

LEMMA ApprovedIsExpected ==
    ASSUME NEW s \in State, NEW t \in State, Sound(s),
           \/ UserShape(s, t)
           \/ \E m \in Message : MessageShape(s, t, m),
           NEW i \in Inv, s.invs[i].approval # "Approved", t.invs[i].approval = "Approved",
           s.invs[i].approval # "Absent" => s.invs[i].tool # TaskTool
    PROVE  Expected(t, i)
PROOF
  <1>1. CASE t.invs[i] = s.invs[i] \/ CallKept(s, t, i)
    BY <1>1 DEF CallKept
  <1>2. ASSUME NEW r \in Run, Submitted(s, t, r) \/ Ended(s, t, r) \/ Talked(s, t, r)
        PROVE  t.invs[i] = s.invs[i]
    BY <1>2 DEF Submitted, Ended, Talked, SameRecords
  <1>3. ASSUME NEW r \in Run, NEW outcome, ChildEnded(s, t, r, outcome)
        PROVE  t.invs[i] = s.invs[i] \/ CallKept(s, t, i)
    BY <1>3 DEF ChildEnded, OtherCallsSame
  <1>4. ASSUME NEW r \in Run, NEW j \in Inv, Reported(s, t, r, j)
        PROVE  t.invs[i] = s.invs[i] \/ CallKept(s, t, i)
    BY <1>4 DEF Reported, OtherCallsSame
  <1>5. ASSUME NEW r \in Run, NEW j \in Inv, Called(s, t, r, j)
        PROVE  Expected(t, i)
    <2>1. CASE j # i
      BY <1>5, <2>1 DEF Called, OtherCallsSame
    <2>2. CASE j = i
      BY <1>5, <2>2 DEF Called, Expected, Sound, Records, TaskIsAsked
    <2> QED
      BY <2>1, <2>2
  <1>6. ASSUME Decided(s, t, ReplyTargets(s))
        PROVE  Expected(t, i)
    <2>1. Verdicts(s, t, ReplyTargets(s))
      BY <1>6 DEF Decided
    <2>2. i \in ReplyTargets(s)
      BY <2>1 DEF Verdicts
    <2>3. s.invs[i].approval = "Pending"
      BY <2>2, ReplyTargetsRun
    <2> QED
      BY <2>1, <2>2, <2>3 DEF Verdicts, Expected
  <1>7. CASE UserShape(s, t)
    BY <1>1, <1>2, <1>3, <1>6, <1>7 DEF UserShape
  <1>8. CASE \E m \in Message : MessageShape(s, t, m)
    <2>1. PICK m \in Message : MessageShape(s, t, m)
      BY <1>8
    <2>2. m.run \in Run /\ (m.kind = "ToolFinished" => m.inv \in Inv)
      BY DEF Message
    <2> QED
      BY <1>1, <1>2, <1>3, <1>4, <1>5, <2>1, <2>2 DEF MessageShape
  <1> QED
    BY <1>7, <1>8

LEMMA HandledIsGuarded ==
    ASSUME IInv, User \/ HostHandlesMessage
    PROVE  \E res : Guarded(st, res) /\ Handle(res)
PROOF
  <1>1. TypeOK /\ chan \in Seq(Message)
    BY DEF IInv, TypeOK
  <1>2. CASE User
    BY <1>1, <1>2, UserIsGuarded
  <1>3. CASE HostHandlesMessage
    <2>1. Head(chan) \in Message /\ Dispatch(Head(chan))
      BY <1>1, <1>3, HeadTailProperties DEF HostHandlesMessage
    <2> QED
      BY <1>1, <2>1, DispatchIsGuarded
  <1> QED
    BY <1>2, <1>3

\* what a handled message queues it has just approved
LEMMA NewlyQueued ==
    ASSUME IInv, Sound(st), User \/ HostHandlesMessage,
           UserShape(st, st') \/ \E m \in Message : MessageShape(st, st', m),
           NEW i \in Inv, Queued(i)'
    PROVE  ~Expected(st, i) /\ Expected(st, i)'
PROOF
  <1>1. PICK res : Guarded(st, res) /\ Handle(res)
    BY HandledIsGuarded
  <1>2. st' = res.st /\ pend' = res.fx /\ ToolsGuarded(st, res) /\ st' \in State /\ st \in State
    BY <1>1 DEF Handle, Guarded, Result, IInv, TypeOK
  <1>3. PICK k \in 1..Len(pend') : pend'[k].kind = "ExecuteTools" /\ i \in pend'[k].ids
    BY DEF Queued
  <1>4. /\ st.invs[i].approval # "Approved"
        /\ st.invs[i].approval # "Absent" => st.invs[i].tool # TaskTool
        /\ st'.invs[i].approval = "Approved"
    BY <1>2, <1>3 DEF ToolsGuarded
  <1>5. Expected(st', i)
    BY <1>2, <1>4, ApprovedIsExpected
  <1> QED
    BY <1>4, <1>5 DEF Expected

-----------------------------------------------------------------------------
\* OneResult is an invariant: one lemma per group of actions

LEMMA EffectsKeepOneResult ==
    ASSUME OneResult, UNCHANGED <<st, chan>>,
           \A i \in Inv : Queued(i)' => Queued(i),
           \A i \in Inv : tools'[i] # "idle" => tools[i] # "idle" \/ Queued(i)
    PROVE  OneResult'
  BY DEF OneResult, Expected, Sent

\* the queue lost its first effect
LEMMA TailQueues ==
    ASSUME pend \in Seq(Effect), pend # << >>, pend' = Tail(pend), NEW i \in Inv, Queued(i)'
    PROVE  Queued(i)
PROOF
  <1>1. PICK k \in 1..Len(pend') : pend'[k].kind = "ExecuteTools" /\ i \in pend'[k].ids
    BY DEF Queued
  <1>2. Len(pend') = Len(pend) - 1 /\ Len(pend) \in Nat /\ pend'[k] = pend[k + 1]
    BY <1>1, HeadTailProperties, LenProperties
  <1>3. k + 1 \in 1..Len(pend)
    BY <1>2
  <1> QED
    BY <1>1, <1>2, <1>3 DEF Queued

LEMMA ExecuteToolKeepsOneResult ==
    ASSUME IInv, OneResult, ApplyExecuteTool
    PROVE  OneResult'
PROOF
  <1> DEFINE head == Head(pend)
  <1>1. PICK i \in head.ids :
             /\ tools' = [tools EXCEPT ![i] = "spawned"]
             /\ pend' = IF head.ids \ {i} = {} THEN Tail(pend)
                        ELSE <<ExecuteTools(head.ids \ {i})>> \o Tail(pend)
    BY DEF ApplyExecuteTool
  <1>2. pend # << >> /\ head.kind = "ExecuteTools" /\ UNCHANGED <<st, chan>>
    BY DEF ApplyExecuteTool, NextEffect
  <1>3. pend \in Seq(Effect) /\ tools \in [Inv -> {"idle", "spawned", "executing"}]
    BY DEF IInv, TypeOK
  <1>4. /\ head = pend[1] /\ head \in Effect
        /\ Tail(pend) \in Seq(Effect)
        /\ Len(Tail(pend)) = Len(pend) - 1
        /\ \A k \in 1..Len(Tail(pend)) : Tail(pend)[k] = pend[k + 1]
        /\ Len(pend) \in Nat /\ 1 \in 1..Len(pend)
    BY <1>2, <1>3, HeadTailProperties, LenProperties, EmptySeq
  <1>5. head.ids \in SUBSET Inv
    BY <1>4 DEF Effect
  <1>6. \A j \in head.ids : Queued(j)
    BY <1>2, <1>4 DEF Queued
  <1>7. ASSUME NEW j \in Inv, Queued(j)'
        PROVE  Queued(j)
    <2>1. CASE head.ids \ {i} = {}
      BY <1>1, <1>2, <1>3, <1>7, <2>1, TailQueues
    <2>2. CASE head.ids \ {i} # {}
      <3> DEFINE e == ExecuteTools(head.ids \ {i})
      <3>1. e \in Effect /\ e.ids = head.ids \ {i}
        BY <1>5, SaveAndToolTypes DEF ExecuteTools
      <3> HIDE DEF e, head
      <3>2. pend' = <<e>> \o Tail(pend)
        BY <1>1, <2>2 DEF e
      <3>3. <<e>> \in Seq(Effect) /\ Len(<<e>>) = 1 /\ <<e>>[1] = e
        BY <3>1
      <3>4. /\ Len(pend') = 1 + Len(Tail(pend))
            /\ \A k \in 1..Len(pend') : pend'[k] = IF k <= 1 THEN e ELSE Tail(pend)[k - 1]
        BY <1>4, <3>2, <3>3, ConcatProperties
      <3>5. PICK k \in 1..Len(pend') : pend'[k].kind = "ExecuteTools" /\ j \in pend'[k].ids
        BY <1>7 DEF Queued
      <3>6. CASE k <= 1
        BY <1>6, <3>1, <3>4, <3>5, <3>6
      <3>7. CASE ~(k <= 1)
        <4>1. k - 1 \in 1..Len(Tail(pend)) /\ pend'[k] = Tail(pend)[k - 1]
          BY <1>4, <3>4, <3>7
        <4>2. k \in 1..Len(pend) /\ pend'[k] = pend[k]
          BY <1>4, <4>1
        <4> QED
          BY <3>5, <4>2 DEF Queued
      <3> QED
        BY <3>6, <3>7
    <2> QED
      BY <2>1, <2>2
  <1>8. ASSUME NEW j \in Inv, tools'[j] # "idle"
        PROVE  tools[j] # "idle" \/ Queued(j)
    BY <1>1, <1>3, <1>6, <1>8
  <1> QED
    BY <1>2, <1>7, <1>8, EffectsKeepOneResult

LEMMA StreamKeepsOneResult ==
    ASSUME IInv, OneResult, NEW r \in Run, Stream(r)
    PROVE  OneResult'
PROOF
  <1>1. chan \in Seq(Message) /\ UNCHANGED <<st, pend, tools>>
    BY DEF IInv, TypeOK, Stream, StreamEmitsText, StreamCallsTool, StreamEnds, StreamFails
  <1>2. chan' = chan \/ \E m \in Message : m.kind # "ToolFinished" /\ chan' = Append(chan, m)
    <2>1. TaskTool \in Tool \cup {Unknown} /\ ProviderTools \subseteq Tool \cup {Unknown}
      BY HostAssumption DEF Tool
    <2>2. \A kind \in {"Chunk", "ToolCall", "AssistantDone", "AssistantFailed"},
             tool \in Tool \cup {Unknown} :
              /\ StreamMessage(kind, r, tool) \in Message
              /\ StreamMessage(kind, r, tool).kind # "ToolFinished"
      BY MessageTypes DEF StreamMessage
    <2> QED
      BY <2>1, <2>2 DEF Stream, StreamEmitsText, StreamCallsTool, StreamEnds, StreamFails, Send
  <1>3. \A i \in Inv : Queued(i)' <=> Queued(i)
    BY <1>1 DEF Queued
  <1>4. CASE chan' = chan
    BY <1>1, <1>3, <1>4, EffectsKeepOneResult
  <1>5. ASSUME NEW m \in Message, m.kind # "ToolFinished", chan' = Append(chan, m)
        PROVE  OneResult'
    <2>1. /\ Len(chan') = Len(chan) + 1 /\ Len(chan) \in Nat
          /\ \A k \in 1..Len(chan) : chan'[k] = chan[k]
          /\ chan'[Len(chan) + 1] = m
      BY <1>1, <1>5, AppendProperties, LenProperties
    <2>2. \A k \in 1..Len(chan'), i \in Inv :
             Sent(k, i)' => k \in 1..Len(chan) /\ Sent(k, i) /\ chan'[k] = chan[k]
      BY <1>5, <2>1 DEF Sent
    <2> QED
      BY <1>1, <1>3, <2>2 DEF OneResult, Expected
  <1> QED
    BY <1>2, <1>4, <1>5

LEMMA ToolTaskKeepsOneResult ==
    ASSUME IInv, OneResult, NEW i \in Inv, ToolTask(i)
    PROVE  OneResult'
PROOF
  <1>1. /\ chan \in Seq(Message) /\ UNCHANGED <<st, pend>> /\ pend \in Seq(Effect)
        /\ tools \in [Inv -> {"idle", "spawned", "executing"}]
    BY DEF IInv, TypeOK, ToolTask, ToolStarts, ToolFinishes
  <1>2. \A j \in Inv : Queued(j)' <=> Queued(j)
    BY <1>1 DEF Queued
  <1>3. CASE ToolStarts(i)
    <2>1. UNCHANGED <<st, chan>> /\ \A j \in Inv : tools'[j] # "idle" => tools[j] # "idle"
      BY <1>1, <1>3 DEF ToolStarts
    <2> QED
      BY <1>2, <2>1, EffectsKeepOneResult
  <1>4. CASE ToolFinishes(i)
    <2>1. PICK outcome \in Outcomes :
               chan' = Append(chan, ToolMessage(st.invs[i].run, i, outcome))
      BY <1>4 DEF ToolFinishes, Send
    <2> DEFINE m == ToolMessage(st.invs[i].run, i, outcome)
    <2>2. m.kind = "ToolFinished" /\ m.inv = i /\ m.run = st.invs[i].run
      BY DEF ToolMessage
    <2>3. m \in Message
      <3>1. st \in State /\ IsApproved(st, i)
        BY <1>4 DEF ToolFinishes, IInv, SpawnedTools, SavedApprovals, TypeOK
      <3>2. st.invs[i].run \in Run /\ st.invs[i].tool \in Tool
        BY <3>1, IdsAreUsed
      <3> QED
        BY <3>2, HostAssumption DEF ToolMessage, Message
    <2> HIDE DEF m
    <2>4. /\ Len(chan') = Len(chan) + 1 /\ Len(chan) \in Nat
          /\ \A k \in 1..Len(chan) : chan'[k] = chan[k]
          /\ chan'[Len(chan) + 1] = m
      BY <1>1, <2>1, <2>3, AppendProperties, LenProperties DEF m
    <2>5. tools[i] # "idle" /\ tools' = [tools EXCEPT ![i] = "idle"]
      BY <1>4 DEF ToolFinishes
    <2>6. Expected(st, i) /\ \A k \in 1..Len(chan) : ~Sent(k, i)
      BY <2>5 DEF OneResult
    <2>7. ~Queued(i)
      BY <2>5 DEF IInv, QueuedTools, Queued
    <2>8. \A k \in 1..Len(chan'), j \in Inv :
             Sent(k, j)' <=> IF k = Len(chan) + 1 THEN j = i ELSE Sent(k, j)
      BY <2>2, <2>4 DEF Sent
    <2>9. \A j \in Inv : tools'[j] = IF j = i THEN "idle" ELSE tools[j]
      BY <1>1, <2>5
    <2>10. ASSUME NEW j \in Inv, tools'[j] # "idle" \/ Queued(j)'
           PROVE  Expected(st, j)'
      BY <1>1, <1>2, <2>9, <2>10 DEF OneResult, Expected
    <2>11. ASSUME NEW j \in Inv, NEW k \in 1..Len(chan'), Sent(k, j)'
           PROVE  /\ Expected(st, j)'
                  /\ st'.invs[j].run = chan'[k].run
                  /\ tools'[j] = "idle" /\ ~Queued(j)'
                  /\ \A l \in 1..Len(chan') : Sent(l, j)' => l = k
      <3>1. CASE k = Len(chan) + 1
        <4>1. j = i
          BY <2>8, <2>11, <3>1
        <4>2. \A l \in 1..Len(chan') : Sent(l, j)' => l = k
          BY <2>4, <2>6, <2>8, <3>1, <4>1
        <4> QED
          BY <1>1, <1>2, <2>2, <2>4, <2>6, <2>7, <2>9, <3>1, <4>1, <4>2 DEF Expected
      <3>2. CASE k # Len(chan) + 1
        <4>1. k \in 1..Len(chan) /\ Sent(k, j)
          BY <2>4, <2>8, <2>11, <3>2
        <4>2. j # i
          BY <2>6, <4>1
        <4>3. /\ Expected(st, j)
              /\ st.invs[j].run = chan[k].run
              /\ tools[j] = "idle" /\ ~Queued(j)
              /\ \A l \in 1..Len(chan) : Sent(l, j) => l = k
          BY <4>1 DEF OneResult
        <4>4. \A l \in 1..Len(chan') : Sent(l, j)' => l = k
          BY <2>4, <2>8, <4>2, <4>3
        <4> QED
          BY <1>1, <1>2, <2>4, <2>9, <4>1, <4>2, <4>3, <4>4 DEF Expected
      <3> QED
        BY <3>1, <3>2
    <2> QED
      BY <2>10, <2>11 DEF OneResult
  <1> QED
    BY <1>3, <1>4 DEF ToolTask

LEMMA HandledKeepsOneResult ==
    ASSUME IInv, SoundInv, OneResult, User \/ HostHandlesMessage
    PROVE  OneResult'
PROOF
  <1>1. /\ st \in State /\ chan \in Seq(Message) /\ Sound(st) /\ st' \in State
    BY HandledMessageKeepsInv DEF IInv, TypeOK, SoundInv
  <1>2. \A i \in Inv : ~Queued(i)
    BY DEF Queued, User, UserSubmits, UserReplies, UserCancels, HostHandlesMessage, HostIdle
  <1>3. CASE User
    <2>1. UNCHANGED <<chan, tools>>
      BY <1>3 DEF User, UserSubmits, UserReplies, UserCancels
    <2>2. UserShape(st, st')
      BY <1>1, <1>3, UserStepShape DEF IInv, SoundInv, Sound, Records
    <2>3. ASSUME NEW i \in Inv, Expected(st, i)
          PROVE  Expected(st, i)' /\ st'.invs[i].run = st.invs[i].run /\ ~Queued(i)'
      <3>1. Expected(st', i) /\ st'.invs[i].run = st.invs[i].run
        BY <1>1, <2>2, <2>3, UserKeepsExpected
      <3> QED
        BY <1>1, <1>3, <2>2, <2>3, <3>1, NewlyQueued DEF Expected
    <2>4. \A i \in Inv : Queued(i)' => Expected(st, i)'
      BY <1>1, <1>3, <2>2, NewlyQueued
    <2>5. \A k, i : Sent(k, i)' <=> Sent(k, i)
      BY <2>1 DEF Sent
    <2> QED
      BY <2>1, <2>3, <2>4, <2>5 DEF OneResult
  <1>4. CASE HostHandlesMessage
    <2> DEFINE m == Head(chan)
    <2>1. chan # << >> /\ chan' = Tail(chan) /\ tools' = tools
      BY <1>4 DEF HostHandlesMessage
    <2>2. m \in Message /\ m = chan[1] /\ 1 \in 1..Len(chan)
      BY <1>1, <2>1, HeadTailProperties, EmptySeq, LenProperties
    <2>3. MessageShape(st, st', m)
      BY <1>1, <1>4, <2>2, DispatchShape DEF HostHandlesMessage, IInv, SoundInv, Sound, Records
    <2>4. /\ Len(chan') = Len(chan) - 1 /\ Len(chan) \in Nat
          /\ \A k \in 1..Len(chan') : chan'[k] = chan[k + 1]
      BY <1>1, <2>1, HeadTailProperties, LenProperties
    <2> HIDE DEF m
    <2>5. ASSUME NEW i \in Inv, Expected(st, i), ~Sent(1, i)
          PROVE  Expected(st, i)' /\ st'.invs[i].run = st.invs[i].run
      <3>1. m.kind = "ToolFinished" => m.inv # i
        BY <2>2, <2>5 DEF Sent
      <3>2. Expected(st', i) /\ st'.invs[i].run = st.invs[i].run
        BY <1>1, <2>2, <2>3, <2>5, <3>1, MessageKeepsExpected
      <3> QED
        BY <3>2 DEF Expected
    <2>6. ASSUME NEW i \in Inv, Queued(i)'
          PROVE  ~Expected(st, i) /\ Expected(st, i)'
      BY <1>1, <1>4, <2>2, <2>3, <2>6, NewlyQueued
    <2>7. ASSUME NEW i \in Inv, tools'[i] # "idle"
          PROVE  Expected(st, i)'
      <3>1. Expected(st, i) /\ ~Sent(1, i)
        BY <2>1, <2>2, <2>7 DEF OneResult
      <3> QED
        BY <2>5, <3>1
    <2>8. ASSUME NEW i \in Inv, NEW k \in 1..Len(chan'), Sent(k, i)'
          PROVE  /\ Expected(st, i)'
                 /\ st'.invs[i].run = chan'[k].run
                 /\ tools'[i] = "idle" /\ ~Queued(i)'
                 /\ \A l \in 1..Len(chan') : Sent(l, i)' => l = k
      <3>1. k + 1 \in 1..Len(chan) /\ chan'[k] = chan[k + 1] /\ Sent(k + 1, i)
        BY <2>4, <2>8 DEF Sent
      <3>2. /\ Expected(st, i)
            /\ st.invs[i].run = chan[k + 1].run
            /\ tools[i] = "idle"
            /\ \A l \in 1..Len(chan) : Sent(l, i) => l = k + 1
        BY <3>1 DEF OneResult
      <3>3. ~Sent(1, i)
        BY <2>2, <3>1, <3>2
      <3>4. \A l \in 1..Len(chan') : Sent(l, i)' => l + 1 \in 1..Len(chan) /\ Sent(l + 1, i)
        BY <2>4 DEF Sent
      <3>5. \A l \in 1..Len(chan') : Sent(l, i)' => l = k
        BY <3>2, <3>4
      <3> QED
        BY <2>1, <2>5, <2>6, <3>1, <3>2, <3>3, <3>5
    <2> QED
      BY <2>6, <2>7, <2>8 DEF OneResult
  <1> QED
    BY <1>3, <1>4

LEMMA StepKeepsOneResult ==
    ASSUME IInv, SoundInv, OneResult, [Next]_vars
    PROVE  OneResult'
PROOF
  <1>1. /\ pend \in Seq(Effect) /\ tools \in [Inv -> {"idle", "spawned", "executing"}]
        /\ disk \in Session
    BY DEF IInv, TypeOK
  <1>2. CASE User \/ HostHandlesMessage
    BY <1>2, HandledKeepsOneResult
  <1>3. CASE ApplyPersistSession \/ ApplyStartAssistant \/ ApplyCancelAssistant
    <2>1. pend # << >> /\ pend' = Tail(pend) /\ UNCHANGED <<st, chan>>
      BY <1>3 DEF ApplyPersistSession, ApplyStartAssistant, ApplyCancelAssistant, NextEffect
    <2>2. \A i \in Inv : tools'[i] # "idle" => tools[i] # "idle"
      BY <1>3 DEF ApplyPersistSession, ApplyStartAssistant, ApplyCancelAssistant
    <2> QED
      BY <1>1, <2>1, <2>2, TailQueues, EffectsKeepOneResult
  <1>4. CASE PersistSessionFails
    <2>1. UNCHANGED <<st, chan, tools>> /\ \A i \in Inv : ~Queued(i)'
      BY <1>4 DEF PersistSessionFails, Queued
    <2> QED
      BY <2>1, EffectsKeepOneResult
  <1>5. CASE ApplyExecuteTool
    BY <1>5, ExecuteToolKeepsOneResult
  <1>6. CASE \E r \in Run : Stream(r)
    BY <1>6, StreamKeepsOneResult
  <1>7. CASE \E i \in Inv : ToolTask(i)
    BY <1>7, ToolTaskKeepsOneResult
  <1>8. CASE CrashAndRestart
    <2>1. Quiet(Loaded(disk), RecoverStartup(Loaded(disk)))
      BY <1>1, LoadedType, RecoverStartupQuiet
    <2>2. \A i \in Inv : ~Queued(i)'
      BY <1>8, <2>1 DEF CrashAndRestart, Handle, Quiet, NoTools, Queued
    <2>3. chan' = << >> /\ \A i \in Inv : tools'[i] = "idle"
      BY <1>8 DEF CrashAndRestart
    <2> QED
      BY <2>2, <2>3 DEF OneResult
  <1>9. CASE UNCHANGED vars
    <2>1. UNCHANGED <<st, chan, tools>> /\ \A i \in Inv : Queued(i)' <=> Queued(i)
      BY <1>9 DEF vars, Queued
    <2> QED
      BY <2>1, EffectsKeepOneResult
  <1> QED
    BY <1>2, <1>3, <1>4, <1>5, <1>6, <1>7, <1>8, <1>9 DEF Next, Host

LEMMA OneResultHolds == Spec => [](IInv /\ SoundInv /\ OneResult)
PROOF
  <1>1. Init => OneResult
    BY DEF Init, OneResult, Queued
  <1>2. IInv /\ SoundInv /\ OneResult /\ [Next]_vars => OneResult'
    BY StepKeepsOneResult
  <1> QED
    BY <1>1, <1>2, SoundHolds, PTL DEF Spec

\* a result the reducer takes in belongs to the run it is reported to
LEMMA ResultOfItsRun ==
    ASSUME IInv, OneResult, HostHandlesMessage, Head(chan).kind = "ToolFinished"
    PROVE  LET m == Head(chan)
           IN  Expected(st, m.inv) /\ st.invs[m.inv].run = m.run
PROOF
  <1>1. chan \in Seq(Message) /\ chan # << >>
    BY DEF IInv, TypeOK, HostHandlesMessage
  <1>2. Head(chan) \in Message /\ Head(chan) = chan[1] /\ 1 \in 1..Len(chan)
    BY <1>1, HeadTailProperties, EmptySeq, LenProperties
  <1>3. Head(chan).inv \in Inv
    BY <1>2 DEF Message
  <1> QED
    BY <1>2, <1>3 DEF OneResult, Sent

-----------------------------------------------------------------------------
\* The foreground is live
\*
\* The owner and the runs that wait for it, up to the root, are in progress: S holds
\* them, closed under parents, and no two of them have the same parent.

Path(s, r, S) ==
    /\ S \subseteq Run /\ r \in S
    /\ \A x \in S : s.runs[x].status = "InProgress"
    /\ \A x \in S : IsChild(s, x) => s.runs[x].parent \in S /\ s.runs[x].parent # r
    /\ \A x, y \in S : IsChild(s, x) /\ s.runs[x].parent = s.runs[y].parent => x = y

Live(s) == s.owner.run # NoRun => \E S \in SUBSET Run : Path(s, s.owner.run, S)

LiveInv == Live(st) /\ Live(disk)

\* The end of a child's stream reaches a child that is still in the foreground.  It is
\* an assumption about the environment, and one the code needs: the end of a stream
\* that was in the channel when its child was cancelled is handled like any other
\* (update.rs:559) and moves the foreground to a parent that may have ended.
NoLateChildEnd ==
    /\ chan # << >>
    /\ StreamEnd(Head(chan))
    /\ IsChild(st, Head(chan).run)
    => st.active = Head(chan).run

LEMMA SameRunsLive ==
    ASSUME NEW s, NEW t, Live(s), t.runs = s.runs, t.owner.run \in {s.owner.run, NoRun}
    PROVE  Live(t)
  BY DEF Live, Path, IsChild

LEMMA ActiveIsLive ==
    ASSUME NEW s \in State, InHand(s), Live(s), s.active # NoRun
    PROVE  s.runs[s.active].status = "InProgress"
  BY DEF InHand, Live, Path

\* the parent a child in the foreground returns to is in progress
LEMMA ParentIsLive ==
    ASSUME NEW s \in State, Sound(s), Live(s), IsChild(s, s.owner.run), s.owner.run # NoRun,
           NEW t, NEW outcome, ChildEnded(s, t, s.owner.run, outcome)
    PROVE  /\ s.runs[s.runs[s.owner.run].parent].status = "InProgress"
           /\ Live(t)
PROOF
  <1> DEFINE c == s.owner.run
             p == s.runs[c].parent
  <1>1. PICK S \in SUBSET Run : Path(s, c, S)
    BY DEF Live
  <1>2. p \in S /\ p # c /\ p \in Run
    BY <1>1 DEF Path
  <1>3. s.runs[p].status = "InProgress"
    BY <1>1, <1>2 DEF Path
  <1>4. t.owner.run = p /\ OtherRunsSame(s, t, c)
    BY DEF ChildEnded, Foregrounded
  <1> HIDE DEF c
  <1>5. Path(t, p, S \ {c})
    <2>1. \A x \in S \ {c} : t.runs[x] = s.runs[x]
      BY <1>4 DEF OtherRunsSame
    <2>2. \A x \in S \ {c} : IsChild(t, x) =>
                s.runs[x].parent \in S /\ s.runs[x].parent # c /\ s.runs[x].parent # p
      BY <1>1, <2>1 DEF Path, IsChild
    <2> QED
      BY <1>1, <1>2, <2>1, <2>2 DEF Path, IsChild
  <1>6. S \ {c} \in SUBSET Run
    OBVIOUS
  <1> QED
    BY <1>3, <1>4, <1>5, <1>6 DEF Live, c

LEMMA DecidedIsLive ==
    ASSUME NEW s \in State, InHand(s), Live(s), NEW t, Decided(s, t, ReplyTargets(s))
    PROVE  Live(t)
PROOF
  <1>1. s.owner.run = s.active /\ s.active \in Run
    BY DEF InHand, Decided, State
  <1>2. CASE t.runs = s.runs /\ Foregrounded(t, s.active)
    BY <1>1, <1>2, SameRunsLive DEF Foregrounded
  <1>3. CASE \E c \in Run, i \in ReplyTargets(s) :
                /\ ~ (s.runs[c].status # "Absent")
                /\ OtherRunsSame(s, t, c)
                /\ t.runs[c] = [status |-> "InProgress", parent |-> s.active, task |-> i]
                /\ Foregrounded(t, c)
    <2>1. PICK c \in Run, i \in ReplyTargets(s) :
                /\ ~ (s.runs[c].status # "Absent")
                /\ OtherRunsSame(s, t, c)
                /\ t.runs[c] = [status |-> "InProgress", parent |-> s.active, task |-> i]
                /\ Foregrounded(t, c)
      BY <1>3
    <2>2. PICK S \in SUBSET Run : Path(s, s.active, S)
      BY <1>1, ReducerAssumption DEF Live
    <2>3. c \notin S
      BY <2>1, <2>2 DEF Path
    <2>4. \A x \in S : t.runs[x] = s.runs[x]
      BY <2>1, <2>3 DEF OtherRunsSame
    <2>5. t.runs[c].status = "InProgress" /\ t.runs[c].parent = s.active
      BY <2>1
    <2>6. Path(t, c, S \cup {c})
      <3>1. \A x \in S : IsChild(t, x) => t.runs[x].parent \in S /\ t.runs[x].parent # s.active
        BY <2>2, <2>4 DEF Path, IsChild
      <3>2. \A x, y \in S : IsChild(t, x) /\ t.runs[x].parent = t.runs[y].parent => x = y
        BY <2>2, <2>4 DEF Path, IsChild
      <3>3. s.active \in S /\ \A x \in S : t.runs[x].status = "InProgress"
        BY <2>2, <2>4 DEF Path
      <3>4. \A x \in S \cup {c} : IsChild(t, x) =>
                  t.runs[x].parent \in S \cup {c} /\ t.runs[x].parent # c
        BY <2>3, <2>5, <3>1, <3>3
      <3>5. \A x, y \in S \cup {c} : IsChild(t, x) /\ t.runs[x].parent = t.runs[y].parent => x = y
        <4>1. \A x \in S : t.runs[x].parent = s.active => ~IsChild(t, x)
          BY <3>1
        <4>2. \A x \in S : t.runs[x].parent # s.active
          BY <1>1, <4>1, ReducerAssumption DEF IsChild
        <4> QED
          BY <2>5, <3>2, <4>2
      <3> QED
        BY <2>5, <3>3, <3>4, <3>5 DEF Path
    <2>7. S \cup {c} \in SUBSET Run /\ t.owner.run = c
      BY <2>1 DEF Foregrounded
    <2> QED
      BY <2>6, <2>7 DEF Live
  <1> QED
    BY <1>2, <1>3 DEF Decided

LEMMA UserIsLive ==
    ASSUME NEW s \in State, Sound(s), InHand(s), Live(s), NEW t, UserShape(s, t)
    PROVE  Live(t)
PROOF
  <1>1. CASE t = s
    BY <1>1
  <1>2. CASE \E r \in Run : Submitted(s, t, r)
    <2>1. PICK r \in Run : Submitted(s, t, r)
      BY <1>2
    <2>2. t.runs[r].status = "InProgress" /\ t.runs[r].parent = NoRun /\ t.owner.run = r
      BY <2>1 DEF Submitted, Foregrounded
    <2>3. Path(t, r, {r})
      BY <2>2 DEF Path, IsChild
    <2> QED
      BY <2>2, <2>3 DEF Live
  <1>3. CASE Decided(s, t, ReplyTargets(s))
    BY <1>3, DecidedIsLive
  <1>4. CASE s.active \in Run /\ ChildEnded(s, t, s.active, "Cancelled")
    <2>1. s.owner.run = s.active /\ s.active # NoRun /\ IsChild(s, s.active)
      BY <1>4, ReducerAssumption DEF InHand, ChildEnded
    <2> QED
      BY <1>4, <2>1, ParentIsLive
  <1>5. CASE \E r \in Run : Ended(s, t, r)
    BY <1>5 DEF Ended, Stopped, Live, NoOwner
  <1> QED
    BY <1>1, <1>2, <1>3, <1>4, <1>5 DEF UserShape

LEMMA MessageIsLive ==
    ASSUME NEW s \in State, Sound(s), InHand(s), Live(s),
           NEW m \in Message, NEW t, MessageShape(s, t, m),
           StreamEnd(m) /\ IsChild(s, m.run) => s.active = m.run
    PROVE  Live(t)
PROOF
  <1>0. m.run \in Run
    BY DEF Message
  <1>1. CASE t = s
    BY <1>1
  <1>2. CASE Talked(s, t, m.run) \/ \E i \in Inv : Called(s, t, m.run, i)
    <2>1. s.active = m.run /\ t.runs = s.runs
      BY <1>2 DEF Talked, SameRecords, Called
    <2>2. s.owner.run = s.active
      BY <1>0, <2>1, ReducerAssumption DEF InHand
    <2>3. t.owner.run = s.owner.run
      BY <1>2, <2>1, <2>2 DEF Talked, Called, Foregrounded
    <2> QED
      BY <2>1, <2>3, SameRunsLive
  <1>3. CASE Ended(s, t, m.run) \/ Stopped(s, t, m.run)
    BY <1>3 DEF Ended, Stopped, Live, NoOwner
  <1>4. CASE StreamEnd(m) /\ \E outcome \in {"Completed", "Failed"} : ChildEnded(s, t, m.run, outcome)
    <2>1. PICK outcome \in {"Completed", "Failed"} : ChildEnded(s, t, m.run, outcome)
      BY <1>4
    <2>2. IsChild(s, m.run) /\ s.active = m.run
      BY <1>4, <2>1 DEF ChildEnded
    <2>3. s.owner.run = m.run /\ m.run # NoRun
      BY <1>0, <2>2, ReducerAssumption DEF InHand
    <2> QED
      BY <2>1, <2>2, <2>3, ParentIsLive
  <1>5. CASE m.kind = "ToolFinished" /\ Reported(s, t, m.run, m.inv)
    <2>1. CASE t.runs = s.runs /\ t.owner = s.owner
      BY <2>1, SameRunsLive
    <2>2. CASE s.active = m.run /\ t.runs = s.runs /\ Foregrounded(t, m.run)
      <3>1. s.owner.run = m.run
        BY <1>0, <2>2, ReducerAssumption DEF InHand
      <3> QED
        BY <2>2, <3>1, SameRunsLive DEF Foregrounded
    <2> QED
      BY <1>3, <1>5, <2>1, <2>2 DEF Reported
  <1> QED
    BY <1>1, <1>2, <1>3, <1>4, <1>5 DEF MessageShape

\* with one interrupted child, its parent is a root
LEMMA OneInterruptedChild ==
    ASSUME NEW s \in State, Records(s), ~(Cardinality(InterruptedChildren(s)) > 1),
           NEW c \in InterruptedChildren(s)
    PROVE  InterruptedChildren(s) = {c}
PROOF
  <1> DEFINE C == InterruptedChildren(s)
  <1>1. C \subseteq {r \in Run : Exists(s, r)}
    BY DEF InterruptedChildren, Exists
  <1>2. IsFiniteSet(C) /\ Cardinality(C) \in Nat
    BY <1>1, FS_Subset, FS_CardinalityType DEF Records, FinitelyMany
  <1>3. C # {} /\ Cardinality(C) # 0
    BY <1>2, FS_EmptySet
  <1>4. Cardinality(C) = 1
    BY <1>2, <1>3
  <1>5. \E x : C = {x}
    BY <1>2, <1>4, FS_Singleton
  <1> QED
    BY <1>5

LEMMA RecoveryIsLive ==
    ASSUME NEW s \in State, Sound(s), Live(s), NEW t, Recovers(s, t)
    PROVE  Live(t)
PROOF
  <1>1. CASE Closed(s, t) \/ Restored(s, t)
    BY <1>1, SameRunsLive DEF Closed, Restored, SameRecords
  <1>2. CASE Interrupts(s, t)
    BY <1>2 DEF Interrupts, Stopped, Live, NoOwner
  <1>3. CASE \E c \in Run : ChildInterrupted(s, t, c)
    <2>1. PICK c \in Run : ChildInterrupted(s, t, c)
      BY <1>3
    <2> DEFINE p == s.runs[c].parent
    <2>2. /\ IsChild(s, c) /\ s.runs[c].status = "InProgress"
          /\ s.runs[p].status = "InProgress"
          /\ OtherRunsSame(s, t, c) /\ t.owner.run = p
      BY <2>1 DEF ChildInterrupted, ChildEnded, LineageOk, Foregrounded
    <2>3. p \in Run /\ p # c
      BY <2>2, ChildLinks DEF Sound, Records, Linked, LinkedRun
    <2>4. c \in InterruptedChildren(s)
      BY <2>2 DEF InterruptedChildren
    <2>5. p \notin InterruptedChildren(s)
      BY <2>1, <2>3, <2>4, OneInterruptedChild DEF ChildInterrupted, Sound
    <2>6. ~IsChild(s, p)
      BY <2>2, <2>3, <2>5 DEF InterruptedChildren
    <2>7. t.runs[p] = s.runs[p]
      BY <2>2, <2>3 DEF OtherRunsSame
    <2> HIDE DEF p
    <2>8. Path(t, p, {p})
      BY <2>2, <2>3, <2>6, <2>7 DEF Path, IsChild
    <2> QED
      BY <2>2, <2>3, <2>8 DEF Live
  <1> QED
    BY <1>1, <1>2, <1>3 DEF Recovers

LEMMA StepKeepsLive ==
    ASSUME IInv, SoundInv, LiveInv, NoLateChildEnd, [Next]_vars
    PROVE  LiveInv'
PROOF
  <1>1. st \in State /\ disk \in Session
    BY DEF IInv, TypeOK
  <1>2. StepShape
    BY StepHasShape DEF SoundInv, Sound, Records
  <1>3. CASE UserShape(st, st') /\ disk' = disk
    BY <1>1, <1>3, UserIsLive DEF SoundInv, LiveInv, Live
  <1>4. CASE /\ HostHandlesMessage
             /\ Head(chan) \in Message /\ MessageShape(st, st', Head(chan)) /\ disk' = disk
    <2>1. StreamEnd(Head(chan)) /\ IsChild(st, Head(chan).run) => st.active = Head(chan).run
      BY <1>4 DEF NoLateChildEnd, HostHandlesMessage
    <2> QED
      BY <1>1, <1>4, <2>1, MessageIsLive DEF SoundInv, LiveInv, Live
  <1>5. CASE st' = st /\ disk' = SessionOf(st)
    <2>1. SessionOf(st).runs = st.runs /\ SessionOf(st).owner = st.owner
      BY DEF SessionOf
    <2> QED
      BY <1>5, <2>1, SameRunsLive DEF LiveInv
  <1>6. CASE Recovers(Loaded(disk), st') /\ disk' = disk
    <2>1. Loaded(disk).runs = disk.runs /\ Loaded(disk).owner = disk.owner
      BY DEF Loaded
    <2>2. Live(Loaded(disk))
      BY <2>1, SameRunsLive DEF LiveInv
    <2> QED
      BY <1>1, <1>6, <2>2, LoadedType, LoadedIsSound, RecoveryIsLive DEF SoundInv, LiveInv
  <1>7. CASE UNCHANGED <<st, disk>>
    BY <1>7 DEF LiveInv, Live
  <1> QED
    BY <1>2, <1>3, <1>4, <1>5, <1>6, <1>7 DEF StepShape

LEMMA InitLive == Init => LiveInv
PROOF
  <1>1. EmptySession.owner = NoOwner /\ Loaded(EmptySession).owner = NoOwner
    BY DEF EmptySession, Loaded
  <1>2. \A d : d.owner = NoOwner => Live(d)
    BY DEF Live, NoOwner
  <1> QED
    BY <1>1, <1>2 DEF Init, LiveInv

LEMMA LiveHolds ==
    Spec /\ []NoLateChildEnd => [](IInv /\ SoundInv /\ OneResult /\ LiveInv)
PROOF
  <1>1. IInv /\ SoundInv /\ LiveInv /\ NoLateChildEnd /\ [Next]_vars => LiveInv'
    BY StepKeepsLive
  <1> QED
    BY <1>1, InitLive, OneResultHolds, PTL DEF Spec

\* The foreground is a run in progress, in memory and in every session on disk,
\* unless the stream of a child that lost the foreground ends late.  A child that
\* ends hands the foreground to its parent, so the whole chain of parents that wait
\* for the owner has to be in progress: that chain is the invariant.
THEOREM ForegroundStaysLive == Spec /\ []NoLateChildEnd => []ForegroundIsLive
PROOF
  <1>1. IInv /\ SoundInv /\ LiveInv => ForegroundIsLive
    <2> SUFFICES ASSUME IInv, SoundInv, LiveInv PROVE ForegroundIsLive
      OBVIOUS
    <2>1. st \in State
      BY DEF IInv, TypeOK
    <2>2. st.active # NoRun => st.runs[st.active].status = "InProgress" /\ st.owner.run = st.active
      BY <2>1, ActiveIsLive DEF SoundInv, LiveInv, InHand
    <2>3. OwnerIsLive(disk)
      BY DEF LiveInv, Live, Path, OwnerIsLive
    <2> QED
      BY <2>2, <2>3 DEF ForegroundIsLive
  <1> QED
    BY <1>1, LiveHolds, PTL

-----------------------------------------------------------------------------
\* A run that ended is left alone

Frozen(s, t, r) ==
    /\ t.runs[r] = s.runs[r]
    /\ TurnsOf(t, r) = TurnsOf(s, r)
    /\ \A i \in Inv : s.invs[i].run = r => t.invs[i] = s.invs[i]

LEMMA SaidTurns ==
    ASSUME NEW s \in State, NEW t, NEW q \in Run, Said(s, t, q), NEW r \in Run, r # q
    PROVE  TurnsOf(t, r) = TurnsOf(s, r)
PROOF
  <1>1. CASE t.turns = s.turns
    BY <1>1 DEF TurnsOf
  <1>2. ASSUME NEW role \in {"User", "Assistant"},
               t.turns = Append(s.turns, [run |-> q, role |-> role])
        PROVE  TurnsOf(t, r) = TurnsOf(s, r)
    <2> DEFINE turn == [run |-> q, role |-> role]
    <2>1. s.turns \in Seq(Turn) /\ turn \in Turn /\ turn.run = q
      BY DEF State, Turn
    <2> HIDE DEF turn
    <2>2. /\ Len(t.turns) = Len(s.turns) + 1 /\ Len(s.turns) \in Nat
          /\ \A k \in 1..Len(s.turns) : t.turns[k] = s.turns[k]
          /\ t.turns[Len(s.turns) + 1] = turn
          /\ DOMAIN t.turns = 1..Len(t.turns) /\ DOMAIN s.turns = 1..Len(s.turns)
      BY <1>2, <2>1, AppendProperties, LenProperties DEF turn
    <2>3. {k \in DOMAIN t.turns : t.turns[k].run = r} = {k \in DOMAIN s.turns : s.turns[k].run = r}
      <3>1. ASSUME NEW k
            PROVE  /\ k \in DOMAIN t.turns /\ t.turns[k].run = r
                   <=> k \in DOMAIN s.turns /\ s.turns[k].run = r
        <4>1. CASE k \in DOMAIN s.turns
          BY <2>2, <4>1
        <4>2. CASE k = Len(s.turns) + 1
          BY <2>1, <2>2, <4>2
        <4>3. CASE k \notin DOMAIN t.turns
          BY <2>2, <4>3
        <4> QED
          BY <2>2, <4>1, <4>2, <4>3
      <3> QED
        BY <3>1, Zenon
    <2> QED
      BY <2>3 DEF TurnsOf
  <1> QED
    BY <1>1, <1>2 DEF Said

\* turns, runs and calls of r are the same
LEMMA FrozenIf ==
    ASSUME NEW s \in State, NEW t, NEW r \in Run,
           t.runs[r] = s.runs[r],
           t.turns = s.turns \/ \E q \in Run \ {r} : Said(s, t, q),
           \A i \in Inv : s.invs[i].run = r => t.invs[i] = s.invs[i]
    PROVE  Frozen(s, t, r)
PROOF
  <1>1. TurnsOf(t, r) = TurnsOf(s, r)
    <2>1. CASE t.turns = s.turns
      BY <2>1 DEF TurnsOf
    <2>2. CASE \E q \in Run \ {r} : Said(s, t, q)
      BY <2>2, SaidTurns
    <2> QED
      BY <2>1, <2>2
  <1> QED
    BY <1>1 DEF Frozen

\* a child in the foreground ends: its parent's call is of a run in progress
LEMMA ChildEndFreezes ==
    ASSUME NEW s \in State, Sound(s), InHand(s), Live(s), s.active \in Run,
           NEW t, NEW outcome, ChildEnded(s, t, s.active, outcome),
           NEW r \in Run, s.runs[r].status # "InProgress"
    PROVE  Frozen(s, t, r)
PROOF
  <1> DEFINE c == s.active
             i == s.runs[c].task
  <1>1. s.owner.run = c /\ c # NoRun /\ IsChild(s, c)
    BY ReducerAssumption DEF InHand, ChildEnded
  <1>2. s.runs[s.runs[c].parent].status = "InProgress" /\ s.runs[c].status = "InProgress"
    BY <1>1, ParentIsLive, ActiveIsLive
  <1>3. s.invs[i].run = s.runs[c].parent
    BY <1>1 DEF Sound, Records, Linked, LinkedRun
  <1>4. \A j \in Inv : s.invs[j].run = r => t.invs[j] = s.invs[j]
    BY <1>2, <1>3 DEF ChildEnded, OtherCallsSame
  <1>5. t.runs[r] = s.runs[r] /\ t.turns = s.turns
    BY <1>2 DEF ChildEnded, OtherRunsSame
  <1> QED
    BY <1>4, <1>5, FrozenIf

LEMMA UserFreezes ==
    ASSUME NEW s \in State, Sound(s), InHand(s), Live(s), NEW t, UserShape(s, t),
           NEW r \in Run, s.runs[r].status \in Terminal
    PROVE  Frozen(s, t, r)
PROOF
  <1>0. Exists(s, r) /\ s.runs[r].status # "InProgress"
    BY DEF Exists, Terminal
  <1>a. s.active \in Run => s.active # r
    BY <1>0, ActiveIsLive, ReducerAssumption
  <1>1. CASE t = s
    BY <1>1, FrozenIf
  <1>2. CASE \E q \in Run : ~Exists(s, q) /\ Submitted(s, t, q)
    <2>1. PICK q \in Run : ~Exists(s, q) /\ Submitted(s, t, q)
      BY <1>2
    <2>2. q # r
      BY <1>0, <2>1
    <2> QED
      BY <2>1, <2>2, FrozenIf DEF Submitted, OtherRunsSame
  <1>3. CASE Decided(s, t, ReplyTargets(s))
    <2>1. \A i \in Inv : s.invs[i].run = r => i \notin ReplyTargets(s)
      BY <1>a, ReplyTargetsRun
    <2>2. \A i \in Inv : s.invs[i].run = r => t.invs[i] = s.invs[i]
      BY <1>3, <2>1 DEF Decided, Verdicts
    <2>3. CASE t.runs = s.runs /\ t.turns = s.turns
      BY <2>2, <2>3, FrozenIf
    <2>4. CASE \E c \in Run : ~Exists(s, c) /\ OtherRunsSame(s, t, c) /\ Said(s, t, c)
      <3>1. PICK c \in Run : ~Exists(s, c) /\ OtherRunsSame(s, t, c) /\ Said(s, t, c)
        BY <2>4
      <3>2. c # r
        BY <1>0, <3>1
      <3> QED
        BY <2>2, <3>1, <3>2, FrozenIf DEF OtherRunsSame
    <2> QED
      BY <1>3, <2>3, <2>4 DEF Decided, Exists
  <1>4. CASE s.active \in Run /\ ChildEnded(s, t, s.active, "Cancelled")
    <2>1. s.active # r
      BY <1>4, <1>a
    <2> QED
      BY <1>0, <1>4, <2>1, ChildEndFreezes
  <1>5. CASE s.active \in Run /\ Ended(s, t, s.active)
    BY <1>5, <1>a, FrozenIf DEF Ended, Stopped, OtherRunsSame
  <1> QED
    BY <1>1, <1>2, <1>3, <1>4, <1>5 DEF UserShape

LEMMA MessageFreezes ==
    ASSUME NEW s \in State, Sound(s), InHand(s), Live(s),
           NEW m \in Message, NEW t, MessageShape(s, t, m),
           StreamEnd(m) /\ IsChild(s, m.run) => s.active = m.run,
           m.kind = "ToolFinished" => s.invs[m.inv].run = m.run,
           NEW r \in Run, s.runs[r].status \in Terminal
    PROVE  Frozen(s, t, r)
PROOF
  <1>0. s.runs[r].status # "InProgress" /\ m.run \in Run
    BY DEF Terminal, Message
  <1>a. s.active = m.run => m.run # r
    BY <1>0, ActiveIsLive, ReducerAssumption
  <1>1. CASE t = s
    BY <1>1, FrozenIf
  <1>2. CASE Talked(s, t, m.run)
    <2>1. m.run # r
      BY <1>2, <1>a DEF Talked
    <2> QED
      BY <1>0, <1>2, <2>1, FrozenIf DEF Talked, SameRecords
  <1>3. CASE Ended(s, t, m.run)
    BY <1>3, <1>a, FrozenIf DEF Ended, Stopped, OtherRunsSame
  <1>4. CASE \E i \in Inv : Called(s, t, m.run, i)
    <2>1. PICK i \in Inv : Called(s, t, m.run, i)
      BY <1>4
    <2>2. s.invs[i].run # r
      BY <2>1, CallRun, ReducerAssumption DEF Called
    <2> QED
      BY <2>1, <2>2, FrozenIf DEF Called, OtherCallsSame
  <1>5. CASE StreamEnd(m) /\ \E outcome \in {"Completed", "Failed"} : ChildEnded(s, t, m.run, outcome)
    <2>1. PICK outcome \in {"Completed", "Failed"} : ChildEnded(s, t, m.run, outcome)
      BY <1>5
    <2>2. s.active = m.run
      BY <1>5, <2>1 DEF ChildEnded
    <2> QED
      BY <1>0, <2>1, <2>2, ChildEndFreezes
  <1>6. CASE m.kind = "ToolFinished" /\ Reported(s, t, m.run, m.inv)
    <2>1. m.run # r
      BY <1>6, <1>a DEF Reported
    <2>2. m.inv \in Inv
      BY <1>6 DEF Message
    <2>3. \A i \in Inv : s.invs[i].run = r => t.invs[i] = s.invs[i]
      BY <1>6, <2>1, <2>2 DEF Reported, OtherCallsSame
    <2>4. t.runs[r] = s.runs[r] /\ t.turns = s.turns
      BY <1>6, <2>1 DEF Reported, Stopped, OtherRunsSame
    <2> QED
      BY <2>3, <2>4, FrozenIf
  <1> QED
    BY <1>1, <1>2, <1>3, <1>4, <1>5, <1>6 DEF MessageShape

\* Until the process dies, a run that has ended keeps its record, its calls and its
\* turns, whatever arrives late, unless a child's stream ends after the child lost
\* the foreground.  It rests on three facts: the active run and the parents that wait
\* for it are in progress, a result is reported to the run of its call, and a new
\* call or child takes an id not in use.
THEOREM SettledRunsStayFrozen == Spec /\ []NoLateChildEnd => SettledRunsAreFrozen
PROOF
  <1> DEFINE Freeze == \A r \in Run : Settled(r) /\ crashes' = crashes => Frozen(st, st', r)
  <1>1. IInv /\ SoundInv /\ OneResult /\ LiveInv /\ NoLateChildEnd /\ [Next]_vars => Freeze
    <2> SUFFICES ASSUME IInv, SoundInv, OneResult, LiveInv, NoLateChildEnd, [Next]_vars,
                        NEW r \in Run, st.runs[r].status \in Terminal, crashes' = crashes
                 PROVE  Frozen(st, st', r)
      BY DEF Settled
    <2>1. st \in State /\ crashes \in Nat
      BY HostAssumption DEF IInv, TypeOK
    <2>2. StepShape
      BY StepHasShape DEF SoundInv, Sound, Records
    <2>3. CASE UserShape(st, st')
      BY <2>1, <2>3, UserFreezes DEF SoundInv, LiveInv
    <2>4. CASE HostHandlesMessage /\ Head(chan) \in Message /\ MessageShape(st, st', Head(chan))
      <3>1. StreamEnd(Head(chan)) /\ IsChild(st, Head(chan).run) => st.active = Head(chan).run
        BY <2>4 DEF NoLateChildEnd, HostHandlesMessage
      <3>2. Head(chan).kind = "ToolFinished" => st.invs[Head(chan).inv].run = Head(chan).run
        BY <2>4, ResultOfItsRun
      <3> QED
        BY <2>1, <2>4, <3>1, <3>2, MessageFreezes DEF SoundInv, LiveInv
    <2>5. CASE st' = st
      BY <2>1, <2>5, FrozenIf
    <2> QED
      BY <2>1, <2>2, <2>3, <2>4, <2>5 DEF StepShape
  <1>2. Freeze => [\A r \in Run : Settled(r) /\ crashes' = crashes =>
          /\ st'.runs[r] = st.runs[r]
          /\ TurnsOf(st', r) = TurnsOf(st, r)
          /\ \A i \in Inv : st.invs[i].run = r => st'.invs[i] = st.invs[i]]_vars
    BY DEF Frozen
  <1> QED
    BY <1>1, <1>2, LiveHolds, PTL DEF Spec, SettledRunsAreFrozen

-----------------------------------------------------------------------------
\* No run is stranded

\* no child asks for a child of its own
NoGrandchild(s) ==
    \A i \in Inv : s.invs[i].tool = TaskTool /\ s.invs[i].approval \in {"Pending", "Approved"} =>
                      ~IsChild(s, s.invs[i].run)

\* a run in progress has the foreground or waits for the child that has it
Attended(s) ==
    \A q \in Run : s.runs[q].status = "InProgress" =>
        q = s.active \/ (s.active # NoRun /\ s.runs[s.active].parent = q)

AttendedInv == crashes = 0 => Attended(st) /\ NoGrandchild(st)

\* While a child has the foreground, no message ends a run as failed: neither a tool
\* of the child or of its parent fails, nor does the child call an unknown tool.
\* Such an end empties the foreground and leaves the other of the two runs in
\* progress (update.rs:706 and :708).
NoFailureInDelegation ==
    /\ chan # << >>
    /\ Fails(st, Head(chan))
    /\ st.runs[Head(chan).run].status = "InProgress"
    /\ st.active # NoRun
    => ~IsChild(st, st.active)

LEMMA SameRunIsNoChild ==
    ASSUME NEW s \in State, NEW t, CallsBelong(s), NoGrandchild(s), Grows(s, t),
           NEW i \in Inv, s.invs[i].tool = TaskTool,
           s.invs[i].approval \in {"Pending", "Approved"}
    PROVE  ~IsChild(t, s.invs[i].run)
PROOF
  <1>1. s.invs[i].run \in Run /\ Exists(s, s.invs[i].run) /\ ~IsChild(s, s.invs[i].run)
    BY CallRun DEF CallsBelong, NoGrandchild
  <1>2. LinksKept(s, t, s.invs[i].run)
    BY <1>1 DEF Grows
  <1> QED
    BY <1>1, <1>2 DEF LinksKept, IsChild

LEMMA KeptCallsHaveNoGrandchild ==
    ASSUME NEW s \in State, NEW t \in State, CallsBelong(s), NoGrandchild(s), Grows(s, t),
           \A i \in Inv : CallKept(s, t, i)
    PROVE  NoGrandchild(t)
PROOF
  <1> SUFFICES ASSUME NEW i \in Inv, t.invs[i].tool = TaskTool,
                      t.invs[i].approval \in {"Pending", "Approved"}
               PROVE  ~IsChild(t, t.invs[i].run)
    BY DEF NoGrandchild
  <1>1. CallKept(s, t, i)
    OBVIOUS
  <1>2. s.invs[i].tool = TaskTool /\ s.invs[i].approval \in {"Pending", "Approved"}
    BY <1>1 DEF CallKept
  <1> QED
    BY <1>1, <1>2, SameRunIsNoChild DEF CallKept

\* nothing is in progress beside an active root run
LEMMA RootIsAlone ==
    ASSUME NEW s \in State, Attended(s), s.active = NoRun \/ ~IsChild(s, s.active),
           NEW q \in Run, s.runs[q].status = "InProgress"
    PROVE  q = s.active
  BY ReducerAssumption DEF Attended, IsChild

LEMMA EndedIsAttended ==
    ASSUME NEW s \in State, Attended(s), NEW t, NEW r \in Run, Stopped(s, t, r),
           \A q \in Run : s.runs[q].status = "InProgress" => q = r
    PROVE  Attended(t)
  BY DEF Stopped, OtherRunsSame, Attended, Terminal

LEMMA ChildEndedIsAttended ==
    ASSUME NEW s \in State, Attended(s), s.active \in Run,
           NEW t, NEW outcome \in Terminal, ChildEnded(s, t, s.active, outcome)
    PROVE  Attended(t)
PROOF
  <1>1. /\ OtherRunsSame(s, t, s.active) /\ t.runs[s.active].status = outcome
        /\ t.active = s.runs[s.active].parent
    BY DEF ChildEnded, Foregrounded
  <1> QED
    BY <1>1 DEF OtherRunsSame, Attended, Terminal

LEMMA SubmittedIsAttended ==
    ASSUME NEW s \in State, InHand(s), Attended(s), NEW r \in Run, NEW t, Submitted(s, t, r)
    PROVE  Attended(t)
PROOF
  <1>1. s.active = NoRun /\ OtherRunsSame(s, t, r) /\ t.active = r
    BY DEF Submitted, InHand, Foregrounded
  <1> QED
    BY <1>1, ReducerAssumption DEF OtherRunsSame, Attended

LEMMA DecidedIsAttended ==
    ASSUME NEW s \in State, NEW t \in State, Sound(s), Attended(s), NoGrandchild(s),
           Decided(s, t, ReplyTargets(s)), Grows(s, t)
    PROVE  Attended(t) /\ NoGrandchild(t)
PROOF
  <1>1. s.active \in Run
    BY DEF Decided, State
  <1>2. Attended(t)
    <2>1. CASE t.runs = s.runs /\ Foregrounded(t, s.active)
      BY <2>1 DEF Foregrounded, Attended
    <2>2. CASE \E c \in Run, i \in ReplyTargets(s) :
                  /\ s.invs[i].tool = TaskTool
                  /\ OtherRunsSame(s, t, c)
                  /\ t.runs[c] = [status |-> "InProgress", parent |-> s.active, task |-> i]
                  /\ Foregrounded(t, c)
      <3>1. PICK c \in Run, i \in ReplyTargets(s) :
                  /\ s.invs[i].tool = TaskTool
                  /\ OtherRunsSame(s, t, c)
                  /\ t.runs[c] = [status |-> "InProgress", parent |-> s.active, task |-> i]
                  /\ Foregrounded(t, c)
        BY <2>2
      <3>2. ~IsChild(s, s.active)
        BY <3>1, ReplyTargetsRun DEF NoGrandchild
      <3>3. \A q \in Run : s.runs[q].status = "InProgress" => q = s.active
        BY <3>2, RootIsAlone
      <3>4. t.active = c /\ t.runs[c].parent = s.active
        BY <3>1 DEF Foregrounded
      <3> QED
        BY <3>1, <3>3, <3>4, ReducerAssumption DEF OtherRunsSame, Attended
    <2> QED
      BY <2>1, <2>2 DEF Decided
  <1>3. NoGrandchild(t)
    <2> SUFFICES ASSUME NEW i \in Inv, t.invs[i].tool = TaskTool,
                        t.invs[i].approval \in {"Pending", "Approved"}
                 PROVE  ~IsChild(t, t.invs[i].run)
      BY DEF NoGrandchild
    <2>1. CASE i \in ReplyTargets(s)
      <3>1. t.invs[i].run = s.invs[i].run /\ s.invs[i].tool = TaskTool
        BY <2>1 DEF Decided, Verdicts
      <3>2. s.invs[i].approval = "Pending"
        BY <2>1, ReplyTargetsRun
      <3> QED
        BY <2>1, <3>1, <3>2, SameRunIsNoChild DEF Sound, Records
    <2>2. CASE i \notin ReplyTargets(s)
      <3>1. t.invs[i] = s.invs[i]
        BY <2>2 DEF Decided, Verdicts
      <3> QED
        BY <3>1, SameRunIsNoChild DEF Sound, Records
    <2> QED
      BY <2>1, <2>2
  <1> QED
    BY <1>2, <1>3

LEMMA CalledHasNoGrandchild ==
    ASSUME TaskTool \in ChildDenied,
           NEW s \in State, NEW t \in State, Sound(s), NoGrandchild(s), Grows(s, t),
           NEW r \in Run, NEW i \in Inv, Called(s, t, r, i)
    PROVE  NoGrandchild(t)
PROOF
  <1> SUFFICES ASSUME NEW j \in Inv, t.invs[j].tool = TaskTool,
                      t.invs[j].approval \in {"Pending", "Approved"}
               PROVE  ~IsChild(t, t.invs[j].run)
    BY DEF NoGrandchild
  <1>1. CASE j = i
    <2>1. t.invs[i].run = r /\ ~IsChild(s, r) /\ t.runs = s.runs
      BY <1>1 DEF Called
    <2> QED
      BY <1>1, <2>1 DEF IsChild
  <1>2. CASE j # i
    <2>1. t.invs[j] = s.invs[j]
      BY <1>2 DEF Called, OtherCallsSame
    <2> QED
      BY <2>1, SameRunIsNoChild DEF Sound, Records
  <1> QED
    BY <1>1, <1>2

LEMMA UserIsAttended ==
    ASSUME NEW s \in State, NEW t \in State, Sound(s), InHand(s),
           Attended(s), NoGrandchild(s), UserShape(s, t)
    PROVE  Attended(t) /\ NoGrandchild(t)
PROOF
  <1>1. CASE t = s
    BY <1>1
  <1>2. Grows(s, t) \/ t = s
    BY UserIsSound
  <1>3. CASE \E r \in Run : Submitted(s, t, r)
    <2>1. PICK r \in Run : Submitted(s, t, r)
      BY <1>3
    <2>2. t.invs = s.invs
      BY <2>1 DEF Submitted
    <2>3. \A i \in Inv : CallKept(s, t, i)
      BY <2>2 DEF CallKept
    <2> QED
      BY <1>1, <1>2, <2>1, <2>3, SubmittedIsAttended, KeptCallsHaveNoGrandchild DEF Sound, Records
  <1>4. CASE Decided(s, t, ReplyTargets(s))
    BY <1>1, <1>2, <1>4, DecidedIsAttended
  <1>5. CASE s.active \in Run /\ ChildEnded(s, t, s.active, "Cancelled")
    <2>1. Attended(t)
      BY <1>5, ChildEndedIsAttended DEF Terminal
    <2>2. s.runs[s.active].task \in Inv
      BY <1>5, ChildLinks DEF ChildEnded
    <2>3. \A i \in Inv : CallKept(s, t, i)
      BY <1>5, <2>2 DEF ChildEnded, OtherCallsSame, CallKept
    <2> QED
      BY <1>1, <1>2, <2>1, <2>3, KeptCallsHaveNoGrandchild DEF Sound, Records
  <1>6. CASE s.active \in Run /\ ~IsChild(s, s.active) /\ Ended(s, t, s.active)
    <2>1. Attended(t)
      BY <1>6, RootIsAlone, EndedIsAttended DEF Ended
    <2>2. \A i \in Inv : CallKept(s, t, i)
      BY <1>6 DEF Ended, CallKept
    <2> QED
      BY <1>1, <1>2, <2>1, <2>2, KeptCallsHaveNoGrandchild DEF Sound, Records
  <1> QED
    BY <1>1, <1>3, <1>4, <1>5, <1>6 DEF UserShape

\* i's call is the one the message m reports, of m's own run
LEMMA ReportedIsAttended ==
    ASSUME NEW s \in State, NEW t \in State, Sound(s), InHand(s), Live(s), Attended(s),
           NEW r \in Run, NEW i \in Inv, Reported(s, t, r, i), s.invs[i].run = r,
           NEW failed \in BOOLEAN, failed \/ t.runs = s.runs,
           failed /\ s.runs[r].status = "InProgress" /\ s.active # NoRun => ~IsChild(s, s.active)
    PROVE  Attended(t)
PROOF
  <1>1. s.runs[r].status = "InProgress"
    <2>1. Exists(s, r) /\ s.runs[r] \in RunRecord
      BY DEF Reported, Sound, Records, CallsBelong, State
    <2>2. CASE s.active = r
      BY <2>2, ActiveIsLive, ReducerAssumption
    <2>3. CASE s.runs[r].status \notin Terminal
      BY <2>1, <2>3 DEF Exists, RunRecord
    <2> QED
      BY <2>2, <2>3 DEF Reported
  <1>2. CASE Stopped(s, t, r)
    <2>1. failed
      BY <1>1, <1>2 DEF Stopped, Terminal
    <2>2. \A q \in Run : s.runs[q].status = "InProgress" => q = s.active
      BY <1>1, <2>1, RootIsAlone
    <2>3. \A q \in Run : s.runs[q].status = "InProgress" => q = r
      BY <1>1, <2>2
    <2> QED
      BY <1>2, <2>3, EndedIsAttended
  <1>3. CASE t.runs = s.runs /\ t.active = s.active
    BY <1>3 DEF Attended
  <1>4. CASE s.active = r /\ t.runs = s.runs /\ Foregrounded(t, r)
    BY <1>4 DEF Attended, Foregrounded
  <1> QED
    BY <1>2, <1>3, <1>4 DEF Reported

LEMMA MessageIsAttended ==
    ASSUME TaskTool \in ChildDenied,
           NEW s \in State, NEW t \in State, Sound(s), InHand(s), Live(s),
           Attended(s), NoGrandchild(s),
           NEW m \in Message, MessageShape(s, t, m),
           StreamEnd(m) /\ IsChild(s, m.run) => s.active = m.run,
           m.kind = "ToolFinished" => s.invs[m.inv].run = m.run,
           Fails(s, m) /\ s.runs[m.run].status = "InProgress" /\ s.active # NoRun =>
               ~IsChild(s, s.active)
    PROVE  Attended(t) /\ NoGrandchild(t)
PROOF
  <1>0. m.run \in Run /\ (m.kind = "ToolFinished" => m.inv \in Inv)
    BY DEF Message
  <1>1. CASE t = s
    BY <1>1
  <1>2. Grows(s, t) \/ t = s
    BY MessageIsSound
  <1>3. CASE Talked(s, t, m.run)
    <2>1. \A i \in Inv : CallKept(s, t, i)
      BY <1>3 DEF Talked, SameRecords, CallKept
    <2>2. Attended(t)
      BY <1>3 DEF Talked, SameRecords, Attended
    <2> QED
      BY <1>1, <1>2, <2>1, <2>2, KeptCallsHaveNoGrandchild DEF Sound, Records
  <1>4. CASE Ended(s, t, m.run) /\ ~IsChild(s, m.run)
    <2>1. s.active = m.run /\ Stopped(s, t, m.run)
      BY <1>4 DEF Ended
    <2>2. Attended(t)
      BY <1>0, <1>4, <2>1, RootIsAlone, EndedIsAttended
    <2>3. \A i \in Inv : CallKept(s, t, i)
      BY <1>4 DEF Ended, CallKept
    <2> QED
      BY <1>1, <1>2, <2>2, <2>3, KeptCallsHaveNoGrandchild DEF Sound, Records
  <1>5. CASE m.kind = "ToolCall" /\ m.tool = Unknown /\ Ended(s, t, m.run)
    <2>1. s.active = m.run /\ s.active # NoRun
      BY <1>0, <1>5, ReducerAssumption DEF Ended
    <2>2. s.runs[m.run].status = "InProgress"
      BY <2>1, ActiveIsLive
    <2>3. Fails(s, m)
      BY <1>5 DEF Fails
    <2> QED
      BY <1>4, <1>5, <2>1, <2>2, <2>3
  <1>6. CASE \E i \in Inv : Called(s, t, m.run, i)
    <2>1. PICK i \in Inv : Called(s, t, m.run, i)
      BY <1>6
    <2>2. Attended(t)
      BY <2>1 DEF Called, Foregrounded, Attended
    <2> QED
      BY <1>0, <1>1, <1>2, <2>1, <2>2, CalledHasNoGrandchild
  <1>7. CASE StreamEnd(m) /\ \E outcome \in {"Completed", "Failed"} : ChildEnded(s, t, m.run, outcome)
    <2>1. PICK outcome \in {"Completed", "Failed"} : ChildEnded(s, t, m.run, outcome)
      BY <1>7
    <2>2. s.active = m.run /\ IsChild(s, m.run) /\ s.runs[m.run].task \in Inv
      BY <1>0, <1>7, <2>1, ChildLinks DEF ChildEnded
    <2>3. Attended(t)
      BY <1>0, <2>1, <2>2, ChildEndedIsAttended DEF Terminal
    <2>4. \A i \in Inv : CallKept(s, t, i)
      BY <2>1, <2>2 DEF ChildEnded, OtherCallsSame, CallKept
    <2> QED
      BY <1>1, <1>2, <2>3, <2>4, KeptCallsHaveNoGrandchild DEF Sound, Records
  <1>8. CASE /\ m.kind = "ToolFinished" /\ Reported(s, t, m.run, m.inv)
             /\ Fails(s, m) \/ t.runs = s.runs
    <2>1. Fails(s, m) \in BOOLEAN
      BY DEF Fails
    <2>2. Attended(t)
      BY <1>0, <1>8, <2>1, ReportedIsAttended
    <2>3. \A i \in Inv : CallKept(s, t, i)
      BY <1>0, <1>8 DEF Reported, OtherCallsSame, CallKept
    <2> QED
      BY <1>1, <1>2, <2>2, <2>3, KeptCallsHaveNoGrandchild DEF Sound, Records
  <1> QED
    BY <1>1, <1>3, <1>4, <1>5, <1>6, <1>7, <1>8 DEF MessageShape

LEMMA StepKeepsAttended ==
    ASSUME TaskTool \in ChildDenied,
           IInv, SoundInv, OneResult, LiveInv, AttendedInv,
           NoLateChildEnd, NoFailureInDelegation, [Next]_vars
    PROVE  AttendedInv'
PROOF
  <1>1. st \in State /\ st' \in State /\ crashes \in Nat
    BY StepKeepsInv, HostAssumption DEF IInv, TypeOK
  <1>2. StepShape
    BY StepHasShape DEF SoundInv, Sound, Records
  <1>3. CASE UserShape(st, st') /\ crashes' = crashes
    BY <1>1, <1>3, UserIsAttended DEF SoundInv, AttendedInv, Attended, NoGrandchild, IsChild
  <1>4. CASE /\ HostHandlesMessage
             /\ Head(chan) \in Message /\ MessageShape(st, st', Head(chan)) /\ crashes' = crashes
    <2>1. StreamEnd(Head(chan)) /\ IsChild(st, Head(chan).run) => st.active = Head(chan).run
      BY <1>4 DEF NoLateChildEnd, HostHandlesMessage
    <2>2. Head(chan).kind = "ToolFinished" => st.invs[Head(chan).inv].run = Head(chan).run
      BY <1>4, ResultOfItsRun
    <2>3. /\ Fails(st, Head(chan)) /\ st.runs[Head(chan).run].status = "InProgress"
          /\ st.active # NoRun
          => ~IsChild(st, st.active)
      BY <1>4 DEF NoFailureInDelegation, HostHandlesMessage
    <2>4. CASE crashes = 0
      <3>1. Attended(st) /\ NoGrandchild(st)
        BY <2>4 DEF AttendedInv
      <3>2. Attended(st') /\ NoGrandchild(st')
        BY <1>1, <1>4, <2>1, <2>2, <2>3, <3>1, MessageIsAttended DEF SoundInv, LiveInv
      <3> QED
        BY <3>2 DEF AttendedInv, Attended, NoGrandchild, IsChild
    <2> QED
      BY <1>4, <2>4 DEF AttendedInv
  <1>5. CASE crashes' = crashes + 1
    BY <1>1, <1>5 DEF AttendedInv
  <1>6. CASE UNCHANGED <<st, crashes>>
    BY <1>6 DEF AttendedInv, Attended, NoGrandchild, IsChild
  <1> QED
    BY <1>2, <1>3, <1>4, <1>5, <1>6 DEF StepShape

LEMMA InitAttended == Init => AttendedInv
PROOF
  <1> SUFFICES ASSUME Init PROVE Attended(st) /\ NoGrandchild(st)
    BY DEF AttendedInv
  <1>1. /\ \A r \in Run : st.runs[r] = NoRunRecord
        /\ \A i \in Inv : st.invs[i] = NoInvRecord
    BY DEF Init, Loaded, EmptySession
  <1> QED
    BY <1>1 DEF Attended, NoGrandchild, NoRunRecord, NoInvRecord

\* Before the first crash, every run in progress has the foreground or waits for the
\* child that has it, for agents that may not delegate on (the built-in ones,
\* agent.rs:166 and :187) and as long as no run fails and no child ends late while a
\* child is in the foreground.  The two hypotheses on messages are the two ways in
\* which the code does strand a run.
THEOREM RunsAreAttended ==
    ASSUME TaskTool \in ChildDenied
    PROVE  Spec /\ []NoLateChildEnd /\ []NoFailureInDelegation => []NoStrandedRun
PROOF
  <1>1. /\ IInv /\ SoundInv /\ OneResult /\ LiveInv /\ AttendedInv
        /\ NoLateChildEnd /\ NoFailureInDelegation /\ [Next]_vars
        => AttendedInv'
    BY StepKeepsAttended
  <1>2. AttendedInv => NoStrandedRun
    BY DEF AttendedInv, Attended, NoStrandedRun
  <1> QED
    BY <1>1, <1>2, InitAttended, LiveHolds, PTL DEF Spec

-----------------------------------------------------------------------------
\* The parent's call tells what became of the child

\* no call of the run c failed, in s
Unfailed(s, c) == \A i \in Inv : s.invs[i].run = c => s.invs[i].exec # "Failed"

\* the parent's call of child c shows c's status
Mirrored(s, c) ==
    s.invs[s.runs[c].task].deleg =
        IF s.runs[c].status \in Terminal THEN s.runs[c].status ELSE "Running"

Mirrors(s) ==
    /\ \A i \in Inv : s.invs[i].approval = "Pending" => s.invs[i].exec # "Failed"
    /\ \A c \in Run : IsChild(s, c) =>
          /\ s.invs[s.runs[c].task].exec # "Failed"
          /\ Unfailed(s, c) => Mirrored(s, c)

MirrorInv == crashes = 0 => Mirrors(st)

\* No child calls a tool the registry does not know: such a call ends the child
\* without a word to the parent's call (update.rs:706).
NoUnknownChildCall ==
    chan # << >> /\ Head(chan).kind = "ToolCall" /\ Head(chan).tool = Unknown
    => ~IsChild(st, Head(chan).run)

\* what Mirrors needs of a step that starts no child: a failed call stays failed, a
\* child that changes either ends with its call, or had a call fail
LEMMA MirrorsIf ==
    ASSUME NEW s \in State, NEW t \in State, Sound(s), Mirrors(s), Grows(s, t),
           \A c \in Run : ~Exists(s, c) => ~IsChild(t, c),
           \A i \in Inv : t.invs[i].approval = "Pending" /\ t.invs[i].exec = "Failed" =>
                             s.invs[i].approval = "Pending" /\ s.invs[i].exec = "Failed",
           \A i \in Inv : s.invs[i].exec = "Failed" => t.invs[i].exec = "Failed",
           \A c \in Run : IsChild(s, c) =>
              /\ t.invs[s.runs[c].task].exec = "Failed" => s.invs[s.runs[c].task].exec = "Failed"
              /\ \/ t.runs[c] = s.runs[c] /\ t.invs[s.runs[c].task].deleg = s.invs[s.runs[c].task].deleg
                 \/ Unfailed(s, c) => Mirrored(t, c)
                 \/ ~Unfailed(t, c)
    PROVE  Mirrors(t)
PROOF
  <1>1. ASSUME NEW c \in Run, IsChild(t, c)
        PROVE  /\ t.invs[t.runs[c].task].exec # "Failed"
               /\ Unfailed(t, c) => Mirrored(t, c)
    <2>1. Exists(s, c)
      BY <1>1
    <2>2. t.runs[c].task = s.runs[c].task /\ IsChild(s, c)
      BY <1>1, <2>1 DEF Grows, LinksKept, IsChild
    <2>3. s.invs[s.runs[c].task].exec # "Failed" /\ (Unfailed(s, c) => Mirrored(s, c))
      BY <2>2 DEF Mirrors
    <2>4. Unfailed(t, c) => Unfailed(s, c)
      <3> SUFFICES ASSUME Unfailed(t, c), NEW i \in Inv, s.invs[i].run = c, s.invs[i].exec = "Failed"
                   PROVE  FALSE
        BY DEF Unfailed
      <3>1. s.invs[i].approval # "Absent"
        BY CallRun
      <3>2. t.invs[i].run = c
        BY <3>1 DEF Grows
      <3> QED
        BY <3>2 DEF Unfailed
    <2>5. \/ t.runs[c] = s.runs[c] /\ t.invs[s.runs[c].task].deleg = s.invs[s.runs[c].task].deleg
          \/ Unfailed(s, c) => Mirrored(t, c)
          \/ ~Unfailed(t, c)
      BY <2>2
    <2> QED
      BY <2>2, <2>3, <2>4, <2>5 DEF Mirrored
  <1>2. \A i \in Inv : t.invs[i].approval = "Pending" => t.invs[i].exec # "Failed"
    BY DEF Mirrors
  <1> QED
    BY <1>1, <1>2 DEF Mirrors

\* the calls are the same, and only runs that are no children change
LEMMA SameCallsMirror ==
    ASSUME NEW s \in State, NEW t \in State, Sound(s), Mirrors(s), Grows(s, t), t.invs = s.invs,
           \A c \in Run : ~Exists(s, c) => ~IsChild(t, c),
           \A c \in Run : IsChild(s, c) => t.runs[c] = s.runs[c]
    PROVE  Mirrors(t)
  BY MirrorsIf

LEMMA SubmittedMirrors ==
    ASSUME NEW s \in State, NEW t \in State, Sound(s), Mirrors(s), Grows(s, t),
           NEW r \in Run, ~Exists(s, r), Submitted(s, t, r)
    PROVE  Mirrors(t)
PROOF
  <1>1. \A c \in Run : ~Exists(s, c) => ~IsChild(s, c)
    BY ChildExists
  <1>2. \A c \in Run : c # r => t.runs[c] = s.runs[c]
    BY DEF Submitted, OtherRunsSame
  <1>3. ~IsChild(t, r) /\ t.invs = s.invs
    BY DEF Submitted, IsChild
  <1>4. \A c \in Run : ~Exists(s, c) => ~IsChild(t, c)
    BY <1>1, <1>2, <1>3 DEF IsChild
  <1>5. \A c \in Run : IsChild(s, c) => t.runs[c] = s.runs[c]
    BY <1>1, <1>2
  <1> QED
    BY <1>3, <1>4, <1>5, SameCallsMirror

LEMMA EndedMirrors ==
    ASSUME NEW s \in State, NEW t \in State, Sound(s), Mirrors(s), Grows(s, t),
           NEW r \in Run, ~IsChild(s, r), Ended(s, t, r)
    PROVE  Mirrors(t)
PROOF
  <1>1. \A c \in Run : ~Exists(s, c) => ~IsChild(s, c)
    BY ChildExists
  <1>2. \A c \in Run : c # r => t.runs[c] = s.runs[c]
    BY DEF Ended, Stopped, OtherRunsSame
  <1>3. ~IsChild(t, r) /\ t.invs = s.invs
    BY DEF Ended, Stopped, LinksKept, IsChild
  <1>4. \A c \in Run : ~Exists(s, c) => ~IsChild(t, c)
    BY <1>1, <1>2, <1>3 DEF IsChild
  <1>5. \A c \in Run : IsChild(s, c) => t.runs[c] = s.runs[c]
    BY <1>2
  <1> QED
    BY <1>3, <1>4, <1>5, SameCallsMirror

LEMMA ChildEndedMirrors ==
    ASSUME NEW s \in State, NEW t \in State, Sound(s), Mirrors(s), Grows(s, t),
           NEW c \in Run, NEW outcome \in Terminal, ChildEnded(s, t, c, outcome)
    PROVE  Mirrors(t)
PROOF
  <1> DEFINE i == s.runs[c].task
  <1>1. IsChild(s, c) /\ i \in Inv /\ s.invs[i].child = c
    BY DEF ChildEnded, Sound, Records, Linked, LinkedRun
  <1>2. /\ \A j \in Inv : j # i => t.invs[j] = s.invs[j]
        /\ t.invs[i].exec = "Completed"
        /\ t.invs[i].deleg = IF s.invs[i].deleg = "None" THEN "None" ELSE outcome
        /\ t.runs[c].status = outcome /\ t.runs[c].task = i
        /\ \A r \in Run : r # c => t.runs[r] = s.runs[r]
    BY DEF ChildEnded, OtherCallsSame, OtherRunsSame, LinksKept
  <1>3. s.invs[i].exec # "Failed"
    BY <1>1 DEF Mirrors
  <1>4. \A r \in Run : IsChild(s, r) /\ r # c => s.runs[r].task # i /\ s.runs[r].task \in Inv
    BY <1>1 DEF Sound, Records, Linked, LinkedRun
  <1>5. Unfailed(s, c) => Mirrored(t, c)
    <2>1. Unfailed(s, c) => Mirrored(s, c)
      BY <1>1 DEF Mirrors
    <2>2. Mirrored(s, c) => s.invs[i].deleg # "None"
      BY DEF Mirrored, Terminal
    <2> QED
      BY <1>2, <2>1, <2>2 DEF Mirrored
  <1>6. \A r \in Run : ~Exists(s, r) => ~IsChild(t, r)
    <2>1. \A r \in Run : ~Exists(s, r) => ~IsChild(s, r) /\ r # c
      BY <1>1, ChildExists
    <2> QED
      BY <1>2, <2>1 DEF IsChild
  <1> HIDE DEF i
  <1>7. \A r \in Run : IsChild(s, r) =>
              /\ t.invs[s.runs[r].task].exec = "Failed" => s.invs[s.runs[r].task].exec = "Failed"
              /\ \/ t.runs[r] = s.runs[r] /\ t.invs[s.runs[r].task].deleg = s.invs[s.runs[r].task].deleg
                 \/ Unfailed(s, r) => Mirrored(t, r)
    <2> TAKE r \in Run
    <2> HAVE IsChild(s, r)
    <2>1. CASE r = c
      BY <1>2, <1>5, <2>1 DEF i
    <2>2. CASE r # c
      BY <1>2, <1>4, <2>2
    <2> QED
      BY <2>1, <2>2
  <1>8. \A j \in Inv : s.invs[j].exec = "Failed" => t.invs[j].exec = "Failed"
    BY <1>2, <1>3
  <1>9. \A j \in Inv : t.invs[j].approval = "Pending" /\ t.invs[j].exec = "Failed" =>
                          s.invs[j].approval = "Pending" /\ s.invs[j].exec = "Failed"
    BY <1>2
  <1> QED
    BY <1>6, <1>7, <1>8, <1>9, MirrorsIf

LEMMA CalledMirrors ==
    ASSUME NEW s \in State, NEW t \in State, Sound(s), Mirrors(s), Grows(s, t),
           NEW r \in Run, NEW i \in Inv, Called(s, t, r, i)
    PROVE  Mirrors(t)
PROOF
  <1>1. /\ \A j \in Inv : j # i => t.invs[j] = s.invs[j]
        /\ t.invs[i].exec # "Failed" /\ t.runs = s.runs /\ s.invs[i].approval = "Absent"
    BY DEF Called, OtherCallsSame
  <1>2. s.invs[i].exec # "Failed"
    BY <1>1, CallRun
  <1>3. \A c \in Run : IsChild(s, c) => s.runs[c].task # i /\ s.runs[c].task \in Inv
    BY <1>1 DEF Sound, Records, Linked, LinkedRun
  <1>4. \A c \in Run : ~Exists(s, c) => ~IsChild(t, c)
    BY <1>1, ChildExists DEF IsChild
  <1> QED
    BY <1>1, <1>2, <1>3, <1>4, MirrorsIf

LEMMA ReportedMirrors ==
    ASSUME NEW s \in State, NEW t \in State, Sound(s), Mirrors(s), Grows(s, t),
           NEW r \in Run, NEW i \in Inv, Reported(s, t, r, i),
           Expected(s, i), s.invs[i].run = r
    PROVE  Mirrors(t)
PROOF
  <1>1. /\ \A j \in Inv : j # i => t.invs[j] = s.invs[j]
        /\ t.invs[i].approval = s.invs[i].approval /\ t.invs[i].run = s.invs[i].run
        /\ t.invs[i].deleg = s.invs[i].deleg
    BY DEF Reported, OtherCallsSame, CallKept
  <1>2. s.invs[i].exec = "Running" /\ s.invs[i].tool # TaskTool /\ s.invs[i].approval = "Approved"
    BY DEF Expected
  <1>3. \A c \in Run : IsChild(s, c) => s.runs[c].task # i /\ s.runs[c].task \in Inv
    BY <1>2 DEF Sound, Records, Linked, LinkedRun
  <1>4. /\ \A c \in Run : c # r => t.runs[c] = s.runs[c]
        /\ t.runs[r] = s.runs[r] \/ (LinksKept(s, t, r) /\ ~Unfailed(t, r))
    BY <1>1 DEF Reported, Stopped, OtherRunsSame, Unfailed
  <1>5. \A c \in Run : ~Exists(s, c) => ~IsChild(t, c)
    <2>1. \A c \in Run : ~Exists(s, c) => ~IsChild(s, c)
      BY ChildExists
    <2> QED
      BY <1>4, <2>1 DEF IsChild, LinksKept
  <1>6. \A c \in Run : IsChild(s, c) => t.runs[c] = s.runs[c] \/ ~Unfailed(t, c)
    BY <1>4
  <1> QED
    BY <1>1, <1>2, <1>3, <1>5, <1>6, MirrorsIf

LEMMA DecidedMirrors ==
    ASSUME NEW s \in State, NEW t \in State, Sound(s), Mirrors(s), Grows(s, t),
           Decided(s, t, ReplyTargets(s))
    PROVE  Mirrors(t)
PROOF
  <1> DEFINE B == ReplyTargets(s)
  <1>1. \A j \in B : j \in Inv /\ s.invs[j].approval = "Pending" /\ s.invs[j].exec # "Failed"
    BY ReplyTargetsRun DEF Mirrors
  <1>2. /\ \A j \in Inv : j \notin B => t.invs[j] = s.invs[j]
        /\ \A j \in B : t.invs[j].approval # "Pending"
    BY DEF Decided, Verdicts
  <1>3. \A c \in Run : IsChild(s, c) => s.runs[c].task \notin B /\ s.runs[c].task \in Inv
    BY <1>1 DEF Sound, Records, Linked, LinkedRun
  <1>4. \A c \in Run : ~Exists(s, c) => ~IsChild(s, c)
    BY ChildExists
  <1>5. ASSUME NEW c \in Run, IsChild(t, c)
        PROVE  /\ t.invs[t.runs[c].task].exec # "Failed"
               /\ Unfailed(t, c) => Mirrored(t, c)
    <2>1. CASE Exists(s, c)
      <3>1. t.runs[c].task = s.runs[c].task /\ IsChild(s, c)
        BY <1>5, <2>1 DEF Grows, LinksKept, IsChild
      <3>2. t.invs[s.runs[c].task] = s.invs[s.runs[c].task]
        BY <1>2, <1>3, <3>1
      <3>3. s.invs[s.runs[c].task].exec # "Failed" /\ (Unfailed(s, c) => Mirrored(s, c))
        BY <3>1 DEF Mirrors
      <3>4. Unfailed(t, c) => Unfailed(s, c)
        BY <1>1, <1>2 DEF Unfailed
      <3>5. t.runs[c] = s.runs[c]
        BY <2>1 DEF Decided, OtherRunsSame, Exists
      <3> QED
        BY <3>1, <3>2, <3>3, <3>4, <3>5 DEF Mirrored
    <2>2. CASE ~Exists(s, c)
      <3>1. ~IsChild(s, c) /\ t.runs[c] # s.runs[c]
        BY <1>4, <1>5, <2>2 DEF IsChild
      <3>2. PICK d \in Run, i \in B :
                /\ t.invs[i].deleg = "Running" /\ t.invs[i].exec = "Running"
                /\ OtherRunsSame(s, t, d)
                /\ t.runs[d] = [status |-> "InProgress", parent |-> s.active, task |-> i]
        BY <3>1 DEF Decided
      <3>3. d = c
        BY <3>1, <3>2 DEF OtherRunsSame
      <3> QED
        BY <3>2, <3>3 DEF Mirrored, Terminal
    <2> QED
      BY <2>1, <2>2
  <1>6. \A i \in Inv : t.invs[i].approval = "Pending" => t.invs[i].exec # "Failed"
    BY <1>2 DEF Mirrors
  <1> QED
    BY <1>5, <1>6 DEF Mirrors

LEMMA UserMirrors ==
    ASSUME NEW s \in State, NEW t \in State, Sound(s), InHand(s), Mirrors(s), UserShape(s, t)
    PROVE  Mirrors(t)
PROOF
  <1>1. CASE t = s
    BY <1>1
  <1>2. Grows(s, t) \/ t = s
    BY UserIsSound
  <1> QED
    BY <1>1, <1>2, SubmittedMirrors, DecidedMirrors, ChildEndedMirrors, EndedMirrors
       DEF UserShape, Terminal

LEMMA MessageMirrors ==
    ASSUME NEW s \in State, NEW t \in State, Sound(s), InHand(s), Mirrors(s),
           NEW m \in Message, MessageShape(s, t, m),
           m.kind = "ToolFinished" => Expected(s, m.inv) /\ s.invs[m.inv].run = m.run,
           m.kind = "ToolCall" /\ m.tool = Unknown => ~IsChild(s, m.run)
    PROVE  Mirrors(t)
PROOF
  <1>0. m.run \in Run /\ (m.kind = "ToolFinished" => m.inv \in Inv)
    BY DEF Message
  <1>1. CASE t = s
    BY <1>1
  <1>2. Grows(s, t) \/ t = s
    BY MessageIsSound
  <1>3. CASE Talked(s, t, m.run)
    <2>1. t.runs = s.runs /\ t.invs = s.invs
      BY <1>3 DEF Talked, SameRecords
    <2>2. \A c \in Run : ~Exists(s, c) => ~IsChild(t, c)
      BY <2>1, ChildExists DEF IsChild
    <2> QED
      BY <1>1, <1>2, <2>1, <2>2, SameCallsMirror
  <1>4. CASE Ended(s, t, m.run) /\ ~IsChild(s, m.run)
    BY <1>0, <1>1, <1>2, <1>4, EndedMirrors
  <1>5. CASE \E i \in Inv : Called(s, t, m.run, i)
    BY <1>0, <1>1, <1>2, <1>5, CalledMirrors
  <1>6. CASE \E outcome \in {"Completed", "Failed"} : ChildEnded(s, t, m.run, outcome)
    BY <1>0, <1>1, <1>2, <1>6, ChildEndedMirrors DEF Terminal
  <1>7. CASE m.kind = "ToolFinished" /\ Reported(s, t, m.run, m.inv)
    BY <1>0, <1>1, <1>2, <1>7, ReportedMirrors
  <1> QED
    BY <1>1, <1>3, <1>4, <1>5, <1>6, <1>7 DEF MessageShape

LEMMA StepKeepsMirrors ==
    ASSUME IInv, SoundInv, OneResult, MirrorInv, NoUnknownChildCall, [Next]_vars
    PROVE  MirrorInv'
PROOF
  <1>1. st \in State /\ st' \in State /\ crashes \in Nat
    BY StepKeepsInv, HostAssumption DEF IInv, TypeOK
  <1>2. StepShape
    BY StepHasShape DEF SoundInv, Sound, Records
  <1>3. crashes' = 0 => crashes = 0 /\ ~(crashes' = crashes + 1)
    BY <1>1, <1>2 DEF StepShape
  <1>4. CASE UserShape(st, st') /\ crashes = 0
    <2>1. Mirrors(st')
      BY <1>1, <1>4, UserMirrors DEF SoundInv, MirrorInv
    <2> QED
      BY <2>1 DEF MirrorInv, Mirrors, IsChild, Unfailed, Mirrored
  <1>5. CASE /\ HostHandlesMessage /\ crashes = 0
             /\ Head(chan) \in Message /\ MessageShape(st, st', Head(chan))
    <2>1. /\ Head(chan).kind = "ToolFinished" =>
                Expected(st, Head(chan).inv) /\ st.invs[Head(chan).inv].run = Head(chan).run
          /\ Head(chan).kind = "ToolCall" /\ Head(chan).tool = Unknown =>
                ~IsChild(st, Head(chan).run)
      BY <1>5, ResultOfItsRun DEF NoUnknownChildCall, HostHandlesMessage
    <2>2. Mirrors(st')
      BY <1>1, <1>5, <2>1, MessageMirrors DEF SoundInv, MirrorInv
    <2> QED
      BY <2>2 DEF MirrorInv, Mirrors, IsChild, Unfailed, Mirrored
  <1>6. CASE st' = st /\ crashes = 0
    BY <1>6 DEF MirrorInv, Mirrors, IsChild, Unfailed, Mirrored
  <1>7. CASE crashes' # 0
    BY <1>7 DEF MirrorInv
  <1> QED
    BY <1>2, <1>3, <1>4, <1>5, <1>6, <1>7 DEF StepShape

LEMMA InitMirrors == Init => MirrorInv
PROOF
  <1> SUFFICES ASSUME Init PROVE Mirrors(st)
    BY DEF MirrorInv
  <1>1. /\ \A r \in Run : st.runs[r] = NoRunRecord
        /\ \A i \in Inv : st.invs[i] = NoInvRecord
    BY DEF Init, Loaded, EmptySession
  <1>2. \A r \in Run : ~IsChild(st, r)
    BY <1>1 DEF IsChild, NoRunRecord
  <1> QED
    BY <1>1, <1>2 DEF Mirrors, NoInvRecord

\* Before the first crash, the parent's `task` call shows `running` while the child
\* runs and the child's own end afterwards, in whatever order results, replies, ends
\* and cancels arrive and however deep delegation goes, unless a call of the child
\* failed or the child called an unknown tool.  A result is reported once and only
\* to a call marked running, so no late result undoes a failed call.
THEOREM TaskShowsChild == Spec /\ []NoUnknownChildCall => []TaskMirrorsChild
PROOF
  <1>1. IInv /\ SoundInv /\ OneResult /\ MirrorInv /\ NoUnknownChildCall /\ [Next]_vars
        => MirrorInv'
    BY StepKeepsMirrors
  <1>2. MirrorInv => TaskMirrorsChild
    BY DEF MirrorInv, Mirrors, TaskMirrorsChild, NoCallFailed, Settled, Unfailed, Mirrored
  <1> QED
    BY <1>1, <1>2, InitMirrors, OneResultHolds, PTL DEF Spec

-----------------------------------------------------------------------------
\* A run that is resumed sees its calls
\*
\* A call is attached to the last turn of the session, and the request shows it behind
\* a turn of its own run (see ModelRequest).  As long as nothing was delegated these
\* are one: the run that has the foreground said the last turn.

NoDelegation(s) == \A r \in Run : ~IsChild(s, r)

\* every call stands at a turn of its run, and is not settled while it is pending
CallsFollowTurns(s) ==
    \A i \in Inv : s.invs[i].approval # "Absent" =>
        /\ s.invs[i].anchor \in 1..Len(s.turns)
        /\ s.turns[s.invs[i].anchor].run = s.invs[i].run
        /\ s.invs[i].approval = "Pending" => s.invs[i].exec \notin {"Completed", "Failed"}

OwnerSpokeLast(s) ==
    s.owner.run # NoRun => s.turns # << >> /\ s.turns[Len(s.turns)].run = s.owner.run

Attached(s) == NoDelegation(s) => CallsFollowTurns(s) /\ OwnerSpokeLast(s)

AttachedInv == Attached(st) /\ Attached(disk)

\* who was a child stays one
LEMMA NoDelegationBefore ==
    ASSUME NEW s \in State, NEW t \in State, Grows(s, t), NoDelegation(t)
    PROVE  NoDelegation(s)
PROOF
  <1> SUFFICES ASSUME NEW r \in Run, IsChild(s, r) PROVE FALSE
    BY DEF NoDelegation
  <1>1. Exists(s, r)
    BY ChildExists
  <1> QED
    BY <1>1 DEF Grows, LinksKept, NoDelegation, IsChild

\* the calls keep their places when the turns only grow
LEMMA PlacesKept ==
    ASSUME NEW s \in State, NEW t \in State, CallsFollowTurns(s),
           t.turns = s.turns \/ \E x : t.turns = Append(s.turns, x),
           \A i \in Inv : t.invs[i].approval # "Absent" =>
              /\ s.invs[i].approval # "Absent"
              /\ t.invs[i].run = s.invs[i].run /\ t.invs[i].anchor = s.invs[i].anchor
              /\ t.invs[i].approval = "Pending" =>
                    s.invs[i].approval = "Pending" /\ t.invs[i].exec = s.invs[i].exec
    PROVE  CallsFollowTurns(t)
PROOF
  <1>1. s.turns \in Seq(Turn)
    BY DEF State
  <1>2. \A k \in 1..Len(s.turns) : k \in 1..Len(t.turns) /\ t.turns[k] = s.turns[k]
    <2>1. CASE t.turns = s.turns
      BY <2>1
    <2>2. CASE \E x : t.turns = Append(s.turns, x)
      <3>1. PICK x : t.turns = Append(s.turns, x)
        BY <2>2
      <3> QED
        BY <1>1, <3>1
    <2> QED
      BY <2>1, <2>2
  <1> QED
    BY <1>2 DEF CallsFollowTurns

\* the calls and the turns are the same, and who has the foreground had it before
LEMMA SameCallsAttached ==
    ASSUME NEW s \in State, NEW t \in State, Grows(s, t), Attached(s),
           t.invs = s.invs, t.turns = s.turns,
           t.owner.run # NoRun => t.owner.run = s.owner.run
    PROVE  Attached(t)
PROOF
  <1> SUFFICES ASSUME NoDelegation(t) PROVE CallsFollowTurns(t) /\ OwnerSpokeLast(t)
    BY DEF Attached
  <1>1. CallsFollowTurns(s) /\ OwnerSpokeLast(s)
    BY NoDelegationBefore DEF Attached
  <1> QED
    BY <1>1 DEF CallsFollowTurns, OwnerSpokeLast

\* a run spoke, and has the foreground
LEMMA SpokenAttached ==
    ASSUME NEW s \in State, NEW t \in State, Grows(s, t), Attached(s), t.invs = s.invs,
           NEW r, Said(s, t, r), t.owner.run = r
    PROVE  Attached(t)
PROOF
  <1> SUFFICES ASSUME NoDelegation(t) PROVE CallsFollowTurns(t) /\ OwnerSpokeLast(t)
    BY DEF Attached
  <1>1. CallsFollowTurns(s)
    BY NoDelegationBefore DEF Attached
  <1>2. t.turns = s.turns \/ \E x : t.turns = Append(s.turns, x)
    BY DEF Said
  <1>3. CallsFollowTurns(t)
    BY <1>1, <1>2, PlacesKept
  <1> QED
    BY <1>3 DEF Said, OwnerSpokeLast

LEMMA CalledAttached ==
    ASSUME NEW s \in State, NEW t \in State, InHand(s), Grows(s, t), Attached(s),
           NEW r \in Run, NEW i \in Inv, Called(s, t, r, i)
    PROVE  Attached(t)
PROOF
  <1> SUFFICES ASSUME NoDelegation(t) PROVE CallsFollowTurns(t) /\ OwnerSpokeLast(t)
    BY DEF Attached
  <1>1. CallsFollowTurns(s) /\ OwnerSpokeLast(s)
    BY NoDelegationBefore DEF Attached
  <1>2. /\ s.active = r /\ t.turns = s.turns /\ t.owner.run = r
        /\ t.invs[i].run = r /\ t.invs[i].anchor = Len(s.turns)
        /\ t.invs[i].exec \notin {"Completed", "Failed"}
        /\ \A j \in Inv : j # i => t.invs[j] = s.invs[j]
    BY DEF Called, OtherCallsSame, Foregrounded
  <1>3. s.owner.run = r
    BY <1>2, ReducerAssumption DEF InHand
  <1>4. s.turns # << >> /\ s.turns[Len(s.turns)].run = r
    BY <1>1, <1>3, ReducerAssumption DEF OwnerSpokeLast
  <1>5. Len(s.turns) \in 1..Len(s.turns)
    <2>1. s.turns \in Seq(Turn)
      BY DEF State
    <2> QED
      BY <1>4, <2>1
  <1>6. CallsFollowTurns(t)
    BY <1>1, <1>2, <1>4, <1>5 DEF CallsFollowTurns
  <1> QED
    BY <1>2, <1>4, <1>6 DEF OwnerSpokeLast

LEMMA ReportedAttached ==
    ASSUME NEW s \in State, NEW t \in State, InHand(s), Grows(s, t), Attached(s),
           NEW r \in Run, NEW i \in Inv, Reported(s, t, r, i), Expected(s, i)
    PROVE  Attached(t)
PROOF
  <1> SUFFICES ASSUME NoDelegation(t) PROVE CallsFollowTurns(t) /\ OwnerSpokeLast(t)
    BY DEF Attached
  <1>1. CallsFollowTurns(s) /\ OwnerSpokeLast(s)
    BY NoDelegationBefore DEF Attached
  <1>2. /\ t.turns = s.turns
        /\ \A j \in Inv : j # i => t.invs[j] = s.invs[j]
        /\ t.invs[i].run = s.invs[i].run /\ t.invs[i].anchor = s.invs[i].anchor
        /\ t.invs[i].approval = "Approved" /\ s.invs[i].approval = "Approved"
    BY DEF Reported, OtherCallsSame, CallKept, Expected
  <1>3. t.owner.run = NoRun \/ t.owner.run = s.owner.run
    BY ReducerAssumption DEF Reported, Stopped, NoOwner, Foregrounded, InHand
  <1>4. CallsFollowTurns(t)
    BY <1>1, <1>2, PlacesKept
  <1> QED
    BY <1>1, <1>2, <1>3, <1>4 DEF OwnerSpokeLast

LEMMA DecidedAttached ==
    ASSUME NEW s \in State, NEW t \in State, InHand(s), Grows(s, t), Attached(s),
           Decided(s, t, ReplyTargets(s))
    PROVE  Attached(t)
PROOF
  <1> SUFFICES ASSUME NoDelegation(t) PROVE CallsFollowTurns(t) /\ OwnerSpokeLast(t)
    BY DEF Attached
  <1> DEFINE B == ReplyTargets(s)
  <1>1. CallsFollowTurns(s) /\ OwnerSpokeLast(s)
    BY NoDelegationBefore DEF Attached
  <1>2. \A j \in B : j \in Inv /\ s.invs[j].approval = "Pending"
    BY ReplyTargetsRun DEF Decided
  <1> HIDE DEF B
  <1>3. /\ \A j \in Inv : j \notin B => t.invs[j] = s.invs[j]
        /\ \A j \in B : /\ t.invs[j].run = s.invs[j].run /\ t.invs[j].anchor = s.invs[j].anchor
                        /\ t.invs[j].approval # "Pending"
    BY DEF Decided, Verdicts, B
  <1>4. s.active # NoRun /\ s.owner.run = s.active
    BY DEF Decided, InHand
  <1>5. t.turns = s.turns /\ t.owner.run = s.active
    <2>1. \/ t.turns = s.turns /\ Foregrounded(t, s.active)
          \/ \E c \in Run, i \in B :
                t.runs[c] = [status |-> "InProgress", parent |-> s.active, task |-> i]
      BY Zenon DEF Decided, B
    <2>2. ASSUME NEW c \in Run, NEW i \in B,
                 t.runs[c] = [status |-> "InProgress", parent |-> s.active, task |-> i]
          PROVE  FALSE
      <3>1. t.runs[c].parent = s.active
        BY <2>2
      <3> QED
        BY <1>4, <3>1 DEF NoDelegation, IsChild
    <2> QED
      BY <2>1, <2>2 DEF Foregrounded
  <1>6. CallsFollowTurns(t)
    BY <1>1, <1>2, <1>3, <1>5, PlacesKept
  <1> QED
    BY <1>1, <1>4, <1>5, <1>6 DEF OwnerSpokeLast

\* where a child ends there is one
LEMMA ChildEndedAttached ==
    ASSUME NEW s \in State, NEW t, NEW c \in Run, NEW outcome, ChildEnded(s, t, c, outcome)
    PROVE  Attached(t)
  BY DEF ChildEnded, LinksKept, Attached, NoDelegation, IsChild

LEMMA EndedAttached ==
    ASSUME NEW s \in State, NEW t \in State, Grows(s, t), Attached(s),
           NEW r \in Run, Ended(s, t, r)
    PROVE  Attached(t)
  BY SameCallsAttached DEF Ended, Stopped, NoOwner

LEMMA UserAttached ==
    ASSUME NEW s \in State, NEW t \in State, Sound(s), InHand(s), Attached(s), UserShape(s, t)
    PROVE  Attached(t)
PROOF
  <1>1. CASE t = s
    BY <1>1
  <1>2. Grows(s, t) \/ t = s
    BY UserIsSound
  <1>3. CASE \E r \in Run : Submitted(s, t, r)
    BY <1>1, <1>2, <1>3, SpokenAttached DEF Submitted, Foregrounded
  <1> QED
    BY <1>1, <1>2, <1>3, DecidedAttached, ChildEndedAttached, EndedAttached DEF UserShape

LEMMA MessageAttached ==
    ASSUME NEW s \in State, NEW t \in State, Sound(s), InHand(s), Attached(s),
           NEW m \in Message, MessageShape(s, t, m),
           m.kind = "ToolFinished" => Expected(s, m.inv)
    PROVE  Attached(t)
PROOF
  <1>0. m.run \in Run /\ (m.kind = "ToolFinished" => m.inv \in Inv)
    BY DEF Message
  <1>1. CASE t = s
    BY <1>1
  <1>2. Grows(s, t) \/ t = s
    BY MessageIsSound
  <1>3. CASE Talked(s, t, m.run)
    <2>1. Said(s, t, m.run) /\ t.invs = s.invs /\ t.owner.run = m.run
      BY <1>0, <1>3, ReducerAssumption DEF Talked, SameRecords, InHand
    <2> QED
      BY <1>1, <1>2, <2>1, SpokenAttached
  <1>4. CASE Ended(s, t, m.run)
    BY <1>0, <1>1, <1>2, <1>4, EndedAttached
  <1>5. CASE \E i \in Inv : Called(s, t, m.run, i)
    BY <1>0, <1>1, <1>2, <1>5, CalledAttached
  <1>6. CASE \E outcome \in {"Completed", "Failed"} : ChildEnded(s, t, m.run, outcome)
    BY <1>0, <1>6, ChildEndedAttached
  <1>7. CASE m.kind = "ToolFinished" /\ Reported(s, t, m.run, m.inv)
    BY <1>0, <1>1, <1>2, <1>7, ReportedAttached
  <1> QED
    BY <1>1, <1>3, <1>4, <1>5, <1>6, <1>7 DEF MessageShape

LEMMA RecoveryAttached ==
    ASSUME NEW s \in State, NEW t \in State, Sound(s), s.active = NoRun, Attached(s),
           Recovers(s, t)
    PROVE  Attached(t)
PROOF
  <1>1. Grows(s, t)
    BY RecoveryIsSound
  <1>2. CASE Closed(s, t) \/ Restored(s, t)
    <2>1. t.invs = s.invs /\ t.turns = s.turns /\ t.owner = s.owner
      BY <1>2 DEF Closed, Restored, SameRecords
    <2> QED
      BY <1>1, <2>1, SameCallsAttached
  <1>3. CASE Interrupts(s, t)
    <2> SUFFICES ASSUME NoDelegation(t) PROVE CallsFollowTurns(t) /\ OwnerSpokeLast(t)
      BY DEF Attached
    <2>1. CallsFollowTurns(s)
      BY <1>1, NoDelegationBefore DEF Attached
    <2>2. /\ t.turns = s.turns /\ t.owner.run = NoRun
          /\ \A i \in Inv : CallKept(s, t, i)
          /\ \A i \in Inv : s.invs[i].approval # "Approved" => t.invs[i].exec = s.invs[i].exec
      BY <1>3 DEF Interrupts, Stopped, NoOwner
    <2>3. CallsFollowTurns(t)
      BY <2>1, <2>2, PlacesKept DEF CallKept
    <2> QED
      BY <2>2, <2>3 DEF OwnerSpokeLast
  <1>4. CASE \E c \in Run : ChildInterrupted(s, t, c)
    BY <1>4, ChildEndedAttached DEF ChildInterrupted
  <1> QED
    BY <1>2, <1>3, <1>4 DEF Recovers

\* what is attached is a matter of the records, the turns and the owner
LEMMA AttachedOfFields ==
    ASSUME NEW s, NEW d, d.runs = s.runs, d.invs = s.invs, d.turns = s.turns, d.owner = s.owner,
           Attached(s)
    PROVE  Attached(d)
  BY DEF Attached, NoDelegation, IsChild, CallsFollowTurns, OwnerSpokeLast

LEMMA StepKeepsAttached ==
    ASSUME IInv, SoundInv, OneResult, AttachedInv, [Next]_vars
    PROVE  AttachedInv'
PROOF
  <1>1. st \in State /\ st' \in State /\ disk \in Session
    BY StepKeepsInv DEF IInv, TypeOK
  <1>2. StepShape
    BY StepHasShape DEF SoundInv, Sound, Records
  <1>3. CASE UserShape(st, st') /\ disk' = disk
    <2>1. Attached(st')
      BY <1>1, <1>3, UserAttached DEF SoundInv, AttachedInv
    <2> QED
      BY <1>3, <2>1, AttachedOfFields DEF AttachedInv
  <1>4. CASE /\ HostHandlesMessage /\ disk' = disk
             /\ Head(chan) \in Message /\ MessageShape(st, st', Head(chan))
    <2>1. Head(chan).kind = "ToolFinished" => Expected(st, Head(chan).inv)
      BY <1>4, ResultOfItsRun DEF HostHandlesMessage
    <2>2. Attached(st')
      BY <1>1, <1>4, <2>1, MessageAttached DEF SoundInv, AttachedInv
    <2> QED
      BY <1>4, <2>2, AttachedOfFields DEF AttachedInv
  <1>5. CASE st' = st /\ disk' = SessionOf(st)
    <2>1. /\ disk'.runs = st.runs /\ disk'.invs = st.invs
          /\ disk'.turns = st.turns /\ disk'.owner = st.owner
      BY <1>5 DEF SessionOf
    <2> QED
      BY <1>5, <2>1, AttachedOfFields DEF AttachedInv
  <1>6. CASE Recovers(Loaded(disk), st') /\ disk' = disk
    <2> DEFINE s == Loaded(disk)
    <2>1. /\ s.runs = disk.runs /\ s.invs = disk.invs /\ s.turns = disk.turns
          /\ s.owner = disk.owner /\ s.active = NoRun
      BY DEF Loaded
    <2>2. s \in State /\ Sound(s)
      BY <1>1, LoadedType, LoadedIsSound DEF SoundInv
    <2> HIDE DEF s
    <2>3. Attached(s)
      BY <2>1, AttachedOfFields DEF AttachedInv
    <2>4. Attached(st')
      BY <1>1, <1>6, <2>1, <2>2, <2>3, RecoveryAttached DEF s
    <2> QED
      BY <1>6, <2>4, AttachedOfFields DEF AttachedInv
  <1>7. CASE UNCHANGED <<st, disk>>
    BY <1>7, AttachedOfFields DEF AttachedInv
  <1> QED
    BY <1>2, <1>3, <1>4, <1>5, <1>6, <1>7 DEF StepShape

LEMMA InitAttached == Init => AttachedInv
PROOF
  <1> SUFFICES ASSUME Init PROVE AttachedInv
    OBVIOUS
  <1>1. /\ \A i \in Inv : disk.invs[i].approval = "Absent" /\ st.invs[i].approval = "Absent"
        /\ disk.owner.run = NoRun /\ st.owner.run = NoRun
    BY DEF Init, Loaded, EmptySession, NoInvRecord, NoOwner
  <1> QED
    BY <1>1 DEF AttachedInv, Attached, CallsFollowTurns, OwnerSpokeLast

\* where nothing was delegated, what is attached to a run's turns is shown to it
LEMMA AttachedIsShown ==
    ASSUME TypeOK, Attached(st), NoDelegation(st)
    PROVE  ResumedRunSeesItsCalls
PROOF
  <1>1. st \in State /\ st.turns \in Seq(Turn) /\ CallsFollowTurns(st)
    BY DEF TypeOK, State, Attached
  <1> SUFFICES ASSUME NEW r \in Started, NEW i \in Inv, st.invs[i].run = r,
                      \/ st.invs[i].approval = "Denied"
                      \/ st.invs[i].exec \in {"Completed", "Failed"}
               PROVE  i \in RequestOf(st, r).results
    BY DEF ResumedRunSeesItsCalls
  <1> DEFINE a == st.invs[i].anchor
  <1>2. st.invs[i].approval # "Absent" /\ r \in Run
    BY <1>1, CallRun
  <1>3. /\ a \in 1..Len(st.turns) /\ st.turns[a].run = r
        /\ st.invs[i].approval = "Pending" => st.invs[i].exec \notin {"Completed", "Failed"}
    BY <1>1, <1>2 DEF CallsFollowTurns
  <1>4. HasResult(st.invs[i])
    <2>1. st.invs[i].approval \in {"Absent", "Pending", "Approved", "Denied"}
      BY <1>1 DEF State, InvRecord, NoInvRecord
    <2> QED
      BY <1>2, <1>3, <2>1 DEF HasResult
  <1>5. a \in ShownTurns(st, r)
    BY <1>1, <1>2, <1>3 DEF ShownTurns, NoDelegation
  <1>6. i \in ShownCalls(st, r)
    BY <1>2, <1>3, <1>5 DEF ShownCalls
  <1>7. RequestOf(st, r) = BuildProviderRequest(st, r)
    BY <1>2 DEF RequestOf, IsFirstOfChild, NoDelegation
  <1> QED
    BY <1>4, <1>6, <1>7 DEF BuildProviderRequest

\* As long as no run of the session was delegated, a run that is resumed is shown every
\* call of its own that was answered, with the answer: whatever replies, results, ends,
\* cancels, failed saves and crashes came before, a call stands at a turn of its run.
\* With delegation it is not so (the run lost_calls): the last turn of the session may
\* be the child's.
THEOREM ResumedRunIsShownItsCalls ==
    Spec => [](NoDelegation(st) => ResumedRunSeesItsCalls)
PROOF
  <1>1. IInv /\ SoundInv /\ OneResult /\ AttachedInv /\ [Next]_vars => AttachedInv'
    BY StepKeepsAttached
  <1>2. IInv /\ AttachedInv => (NoDelegation(st) => ResumedRunSeesItsCalls)
    BY AttachedIsShown DEF IInv, AttachedInv
  <1> QED
    BY <1>1, <1>2, InitAttached, OneResultHolds, PTL DEF Spec

-----------------------------------------------------------------------------
\* A recovery may be repeated

\* an interrupted child has the foreground, or nobody has, and its parent waits for
\* it alone
OnlyChildUnderWay(d) ==
    \A c \in InterruptedChildren(d) :
        /\ d.owner.run \in {NoRun, c}
        /\ \A i \in Inv :
              i # d.runs[c].task /\ d.invs[i].run = d.runs[c].parent =>
                  d.invs[i].approval # "Pending" /\ ~Unfinished(d.invs[i])

LEMMA ClosedKeepsSession ==
    ASSUME NEW s, NEW t, Closed(s, t) \/ Restored(s, t)
    PROVE  SessionOf(t) = SessionOf(s)
  BY DEF Closed, Restored, SameRecords, SessionOf

LEMMA SavedAndLoaded ==
    ASSUME NEW d \in Session
    PROVE  SessionOf(Loaded(d)) = d
  BY DEF Session, SessionOf, Loaded

\* with no foreground and no child in progress, recovery leaves the session alone
LEMMA NothingToRecover ==
    ASSUME NEW s \in State, s.active = NoRun, s.owner.run = NoRun, InterruptedChildren(s) = {},
           NEW t, t = RecoverStartup(s).st
    PROVE  Closed(s, t)
PROOF
  <1>1. t = FailClosed(s).st \/ t = Ignored(s).st
    BY DEF RecoverStartup, RecoverChild
  <1> QED
    BY <1>1, FailClosedShape DEF Ignored, Closed, SameRecords

\* the parent that an interrupted child left alone starts its assistant again
LEMMA ParentStartsAgain ==
    ASSUME NEW s \in State, Sound(s), OnlyChildUnderWay(s),
           NEW t \in State, NEW c \in Run, ChildInterrupted(s, t, c)
    PROVE  /\ t.owner = [run |-> s.runs[c].parent, phase |-> "Generating", anchor |-> 0]
           /\ t.active = s.runs[c].parent
           /\ s.runs[c].parent \in Run
           /\ t.runs[s.runs[c].parent].status = "InProgress"
           /\ ~IsChild(t, s.runs[c].parent)
           /\ \A i \in Inv : t.invs[i].run = s.runs[c].parent =>
                 t.invs[i].approval # "Pending" /\ ~Unfinished(t.invs[i])
PROOF
  <1> DEFINE p == s.runs[c].parent
             i == s.runs[c].task
  <1>1. /\ IsChild(s, c) /\ s.runs[c].status = "InProgress" /\ s.runs[p].status = "InProgress"
        /\ ~(Cardinality(InterruptedChildren(s)) > 1)
        /\ s.invs[i].approval = "Approved" /\ i \in Inv
    BY DEF ChildInterrupted, ChildEnded, LineageOk
  <1>2. c \in InterruptedChildren(s)
    BY <1>1 DEF InterruptedChildren
  <1>3. p \in Run /\ p # c
    BY <1>1, ChildLinks DEF Sound, Records, Linked, LinkedRun
  <1>4. ~IsChild(s, p)
    <2>1. p \notin InterruptedChildren(s)
      BY <1>1, <1>2, <1>3, OneInterruptedChild DEF Sound
    <2> QED
      BY <1>1, <1>3, <2>1 DEF InterruptedChildren
  <1>5. /\ t.runs[p] = s.runs[p]
        /\ \A j \in Inv : j # i => t.invs[j] = s.invs[j]
        /\ t.invs[i].exec = "Completed" /\ t.invs[i].approval = "Approved"
        /\ Foregrounded(t, p) /\ Batched(t, p)
    BY <1>1, <1>3 DEF ChildInterrupted, ChildEnded, OtherRunsSame, OtherCallsSame, CallKept
  <1>6. \A j \in Inv : t.invs[j].run = p => t.invs[j].approval # "Pending" /\ ~Unfinished(t.invs[j])
    <2> TAKE j \in Inv
    <2> HAVE t.invs[j].run = p
    <2>1. CASE j = i
      BY <1>5, <2>1 DEF Unfinished
    <2>2. CASE j # i
      BY <1>2, <1>5, <2>2 DEF OnlyChildUnderWay
    <2> QED
      BY <2>1, <2>2
  <1> HIDE DEF p, i
  <1>7. t.owner \in Owner /\ t.owner.phase \in Phases
    BY DEF State, Owner
  <1>8. PendingIn(t, p, t.owner.anchor) = {}
    BY <1>6 DEF PendingIn
  <1>9. t.owner.phase = "Generating" /\ t.owner.run = p /\ t.owner.anchor = 0 /\ t.active = p
    BY <1>5, <1>6, <1>7, <1>8 DEF Foregrounded, Batched, Phases
  <1>10. t.owner = [run |-> p, phase |-> "Generating", anchor |-> 0]
    BY <1>7, <1>9 DEF Owner
  <1> QED
    BY <1>1, <1>3, <1>4, <1>5, <1>6, <1>9, <1>10 DEF IsChild, p

LEMMA RootRestarts ==
    ASSUME NEW s \in State, NEW r \in Run,
           s.owner = [run |-> r, phase |-> "Generating", anchor |-> 0],
           s.runs[r].status = "InProgress", ~IsChild(s, r),
           \A i \in Inv : s.invs[i].run = r =>
              s.invs[i].approval # "Pending" /\ ~Unfinished(s.invs[i]),
           NEW t, t = RecoverStartup(s).st
    PROVE  SessionOf(t) = SessionOf(s) /\ t.active = r
PROOF
  <1>1. s.owner.run = r /\ r # NoRun /\ s.owner.phase = "Generating" /\ s.owner.anchor = 0
    BY ReducerAssumption
  <1>2. t = RecoverRootGenerating(s).st
    BY <1>1 DEF RecoverStartup
  <1>3. t = SetForeground(s, r, "Generating", 0)
    BY <1>1, <1>2 DEF RecoverRootGenerating
  <1>4. /\ SameRecords(s, t) /\ t.turns = s.turns /\ t.active = r
        /\ t.owner = [run |-> r, phase |-> "Generating", anchor |-> 0]
    BY <1>3, ForegroundFields
  <1> QED
    BY <1>4 DEF SameRecords, SessionOf

LEMMA RecoveryRepeats ==
    ASSUME NEW d \in Session, Sound(d), OnlyChildUnderWay(d),
           NEW once, once = RecoverStartup(Loaded(d)).st,
           NEW twice, twice = RecoverStartup(Loaded(SessionOf(once))).st
    PROVE  SessionOf(twice) = SessionOf(once) /\ twice.active = once.active
PROOF
  <1> DEFINE s == Loaded(d)
             e == SessionOf(once)
             u == Loaded(e)
  <1>1. /\ s \in State /\ s.active = NoRun /\ Sound(s) /\ SessionOf(s) = d
        /\ s.runs = d.runs /\ s.invs = d.invs /\ s.owner = d.owner
    BY LoadedType, LoadedIsSound, SavedAndLoaded DEF Loaded
  <1>2. Recovers(s, once) /\ once \in State
    <2>1. RecoverStartup(s) \in Result
      BY <1>1, RecoverStartupQuiet DEF Quiet
    <2> QED
      BY <1>1, <2>1, RecoverStartupShape DEF Result
  <1>3. OnlyChildUnderWay(s)
    BY <1>1 DEF OnlyChildUnderWay, InterruptedChildren, IsChild
  <1> HIDE DEF s
  <1>4. e \in Session
    BY <1>2, SessionOfType
  <1>5. /\ u \in State /\ u.active = NoRun /\ SessionOf(u) = e
        /\ u.runs = once.runs /\ u.invs = once.invs /\ u.owner = once.owner
    <2>1. e.runs = once.runs /\ e.invs = once.invs /\ e.owner = once.owner
      BY DEF SessionOf
    <2> HIDE DEF e
    <2> QED
      BY <1>4, <2>1, LoadedType, SavedAndLoaded DEF Loaded
  <1>6. CASE Closed(s, once) \/ Restored(s, once)
    <2>1. e = d
      BY <1>1, <1>6, ClosedKeepsSession
    <2> QED
      BY <2>1
  <1> HIDE DEF u, e
  <1>7. twice = RecoverStartup(u).st
    BY DEF u, e
  <1>8. CASE Interrupts(s, once)
    <2>1. /\ s.owner.run \in Run /\ once.owner = NoOwner /\ once.active = NoRun
          /\ once.runs[s.owner.run].status \in Terminal
          /\ \A r \in Run : r # s.owner.run => once.runs[r] = s.runs[r]
      BY <1>8 DEF Interrupts, Stopped, OtherRunsSame
    <2>2. InterruptedChildren(u) = {}
      <3> SUFFICES ASSUME NEW c \in InterruptedChildren(u) PROVE FALSE
        OBVIOUS
      <3>1. c \in Run /\ once.runs[c].status = "InProgress" /\ once.runs[c].parent # NoRun
        BY <1>5 DEF InterruptedChildren, IsChild
      <3>2. c # s.owner.run
        BY <2>1, <3>1 DEF Terminal
      <3>3. c \in InterruptedChildren(s)
        BY <2>1, <3>1, <3>2 DEF InterruptedChildren, IsChild
      <3> QED
        BY <1>3, <2>1, <3>2, <3>3, ReducerAssumption DEF OnlyChildUnderWay
    <2>3. u.owner.run = NoRun
      BY <1>5, <2>1 DEF NoOwner
    <2>4. Closed(u, twice)
      BY <1>5, <1>7, <2>2, <2>3, NothingToRecover
    <2>5. SessionOf(twice) = e /\ twice.active = NoRun
      BY <1>5, <2>4, ClosedKeepsSession DEF Closed
    <2> QED
      BY <2>1, <2>5 DEF e
  <1>9. CASE \E c \in Run : ChildInterrupted(s, once, c)
    <2>1. PICK c \in Run : ChildInterrupted(s, once, c)
      BY <1>9
    <2> DEFINE p == s.runs[c].parent
    <2>2. /\ once.owner = [run |-> p, phase |-> "Generating", anchor |-> 0]
          /\ once.active = p /\ p \in Run
          /\ once.runs[p].status = "InProgress" /\ ~IsChild(once, p)
          /\ \A i \in Inv : once.invs[i].run = p =>
                once.invs[i].approval # "Pending" /\ ~Unfinished(once.invs[i])
      BY <1>1, <1>2, <1>3, <2>1, ParentStartsAgain
    <2> HIDE DEF p
    <2>3. ~IsChild(u, p)
      BY <1>5, <2>2 DEF IsChild
    <2>4. SessionOf(twice) = e /\ twice.active = p
      BY <1>5, <1>7, <2>2, <2>3, RootRestarts
    <2> QED
      BY <2>2, <2>4 DEF e
  <1> QED
    BY <1>2, <1>6, <1>8, <1>9 DEF Recovers

\* Recovering, saving and dying again recovers the same session and the same
\* foreground, from whatever was on disk, as long as an interrupted child is the only
\* thing its parent waits for.  (With another call of the parent under way, the first
\* recovery gives the foreground back to the parent, and the second interrupts it.)
THEOREM RecoveryMayRepeat ==
    Spec => [](OnlyChildUnderWay(disk) => RecoveryIsIdempotent)
PROOF
  <1>1. IInv /\ SoundInv => (OnlyChildUnderWay(disk) => RecoveryIsIdempotent)
    BY RecoveryRepeats DEF IInv, TypeOK, SoundInv, RecoveryIsIdempotent
  <1> QED
    BY <1>1, SoundHolds, PTL
=============================================================================
