---------------------------- MODULE AgentHostProofs ----------------------------
(***************************************************************************)
(* For every value of the constants: SharedAppHost's state is well typed,  *)
(* a tool runs at most once and only after its approval was saved, and the *)
(* host implements the permission gate of ToolGate.                        *)
(*                                                                         *)
(* The inductive invariant follows an approval from the reducer to the     *)
(* running tool: an effect that starts tools waits in pend behind the save *)
(* of the approvals it acts on (QueuedTools), and a tool that was spawned  *)
(* has its approval on disk (SpawnedTools).                                *)
(***************************************************************************)
EXTENDS AgentHostProperties, SequenceTheorems, WellFoundedInduction, TLAPS

-----------------------------------------------------------------------------
(* The handlers of the reducer: each keeps the state well typed, moves the *)
(* approvals of calls only the way the permission gate allows, and asks    *)
(* for a tool to be executed only after a save that records the approval   *)
(* it has just given.                                                      *)

Result == [st : State, fx : Seq(Effect)]

SameApprovals(s, t) == \A i \in Inv : t.invs[i].approval = s.invs[i].approval

NoTools(fx) == \A k \in 1..Len(fx) : fx[k].kind # "ExecuteTools"

\* the handler neither decides a call nor starts a tool
Quiet(s, res) ==
    /\ res \in Result
    /\ SameApprovals(s, res.st)
    /\ NoTools(res.fx)

\* what a step does to the approvals: nothing, one new call, or one verdict for
\* calls that were pending
GateMoves(s, t) ==
    \/ SameApprovals(s, t)
    \/ \E i \in Inv, g \in {"Pending", "Approved", "Denied"} :
          /\ s.invs[i].approval = "Absent"
          /\ \A j \in Inv : t.invs[j].approval = IF j = i THEN g ELSE s.invs[j].approval
    \/ \E B \in SUBSET Inv, v \in {"Approved", "Denied"} :
          /\ \A i \in B : s.invs[i].approval = "Pending"
          /\ \A j \in Inv : t.invs[j].approval = IF j \in B THEN v ELSE s.invs[j].approval

\* tools are started by at most one effect, for calls the step has just approved
\* (a `task` call the user approves starts a run instead), and the first effect is a save
ToolsGuarded(s, res) ==
    \A k \in 1..Len(res.fx) : res.fx[k].kind = "ExecuteTools" =>
        /\ res.fx[1].kind = "PersistSession"
        /\ \A i \in res.fx[k].ids :
              /\ s.invs[i].approval # "Approved"
              /\ s.invs[i].approval # "Absent" => s.invs[i].tool # TaskTool
              /\ res.st.invs[i].approval = "Approved"
        /\ \A l \in 1..Len(res.fx) : res.fx[l].kind = "ExecuteTools" => l = k

Guarded(s, res) ==
    /\ res \in Result
    /\ GateMoves(s, res.st)
    /\ ToolsGuarded(s, res)

-----------------------------------------------------------------------------
\* Types of the effects and of the helpers

LEMMA EffectTypes ==
    ASSUME NEW r \in Run, NEW S \in SUBSET Inv
    PROVE  /\ PersistSession \in Effect
           /\ StartAssistant(r) \in Effect
           /\ CancelAssistant(r) \in Effect
           /\ ExecuteTools(S) \in Effect
  BY DEF Effect, PersistSession, StartAssistant, CancelAssistant, ExecuteTools

LEMMA SaveAndToolTypes ==
    ASSUME NEW S \in SUBSET Inv
    PROVE  PersistSession \in Effect /\ ExecuteTools(S) \in Effect
  BY DEF Effect, PersistSession, ExecuteTools

LEMMA ForegroundType ==
    ASSUME NEW s \in State, NEW r \in Run, NEW phase \in Phases, NEW anchor \in Nat
    PROVE  /\ SetForeground(s, r, phase, anchor) \in State
           /\ SetForeground(s, r, phase, anchor).invs = s.invs
           /\ SetForeground(s, r, phase, anchor).runs = s.runs
  BY DEF SetForeground, State, Owner

LEMMA RunStatusType ==
    ASSUME NEW s \in State, NEW r \in Run, NEW status \in Terminal
    PROVE  /\ SetRunStatus(s, r, status) \in State
           /\ SetRunStatus(s, r, status).invs = s.invs
PROOF
  <1> DEFINE rec == [s.runs[r] EXCEPT !.status = status]
  <1>1. s.runs \in [Run -> RunRecord]
    BY DEF State
  <1>2. rec \in RunRecord
    <2>1. s.runs[r] \in RunRecord
      BY <1>1
    <2>2. CASE s.runs[r].parent = NoRun
      BY <2>1, <2>2, ReducerAssumption DEF RunRecord, Terminal
    <2>3. CASE s.runs[r].parent # NoRun
      BY <2>1, <2>3 DEF RunRecord, Terminal
    <2> QED
      BY <2>2, <2>3
  <1>3. [s.runs EXCEPT ![r] = rec] \in [Run -> RunRecord]
    BY <1>1, <1>2
  <1> QED
    BY <1>3 DEF SetRunStatus, State

LEMMA EndRunType ==
    ASSUME NEW s \in State, NEW r \in Run, NEW status \in Terminal,
           NEW appStatus \in {"Idle", "Error"}
    PROVE  /\ EndRun(s, r, status, appStatus) \in State
           /\ EndRun(s, r, status, appStatus).invs = s.invs
PROOF
  <1> DEFINE t == SetRunStatus(s, r, status)
             c == ClearForeground(t)
  <1>1. t \in State /\ t.invs = s.invs
    BY RunStatusType
  <1>2. NoOwner \in Owner
    BY DEF NoOwner, Owner, Phases
  <1>3. c \in State /\ c.invs = t.invs
    BY <1>1, <1>2 DEF ClearForeground, State
  <1>4. /\ [c EXCEPT !.status = appStatus] \in State
        /\ [c EXCEPT !.status = appStatus].invs = c.invs
    BY <1>3 DEF State
  <1> QED
    BY <1>1, <1>3, <1>4 DEF EndRun

LEMMA PushTurnType ==
    ASSUME NEW s \in State, NEW r \in Run, NEW role \in {"User", "Assistant"}
    PROVE  /\ PushTurn(s, r, role) \in State
           /\ PushTurn(s, r, role).invs = s.invs
           /\ PushTurn(s, r, role).runs = s.runs
  BY AppendProperties DEF PushTurn, State, Turn

LEMMA BatchPhaseType ==
    ASSUME NEW s \in State, NEW r \in Run, NEW anchor \in Nat
    PROVE  BatchPhase(s, r, anchor) \in Phases
  BY DEF BatchPhase, Phases

-----------------------------------------------------------------------------
\* Results with at most two effects

LEMMA QuietIgnored ==
    ASSUME NEW s \in State, NEW t \in State, SameApprovals(s, t)
    PROVE  Quiet(s, [st |-> t, fx |-> << >>])
  BY DEF Quiet, Result, NoTools

LEMMA QuietOne ==
    ASSUME NEW s \in State, NEW t \in State, SameApprovals(s, t),
           NEW e \in Effect, e.kind # "ExecuteTools"
    PROVE  Quiet(s, [st |-> t, fx |-> <<e>>])
  BY DEF Quiet, Result, NoTools

LEMMA QuietTwo ==
    ASSUME NEW s \in State, NEW t \in State, SameApprovals(s, t),
           NEW e \in Effect, e.kind # "ExecuteTools",
           NEW f \in Effect, f.kind # "ExecuteTools"
    PROVE  Quiet(s, [st |-> t, fx |-> <<e, f>>])
PROOF
  <1>1. <<e, f>> \in Seq(Effect)
    OBVIOUS
  <1>2. NoTools(<<e, f>>)
    BY DEF NoTools
  <1> QED
    BY <1>1, <1>2 DEF Quiet, Result

LEMMA EffectKinds ==
    ASSUME NEW r \in Run
    PROVE  /\ PersistSession.kind = "PersistSession"
           /\ StartAssistant(r).kind = "StartAssistant"
           /\ CancelAssistant(r).kind = "CancelAssistant"
  BY DEF PersistSession, StartAssistant, CancelAssistant

LEMMA AdvanceBatchQuiet ==
    ASSUME NEW s \in State, NEW r \in Run, NEW anchor \in Nat
    PROVE  Quiet(s, AdvanceBatch(s, r, anchor))
PROOF
  <1> DEFINE phase == BatchPhase(s, r, anchor)
  <1>1. phase \in Phases /\ "Generating" \in Phases
    BY BatchPhaseType DEF Phases
  <1>2. CASE phase = "Generating"
    <2> DEFINE t == SetForeground(s, r, "Generating", 0)
    <2>1. t \in State /\ SameApprovals(s, t)
      BY <1>1, ForegroundType DEF SameApprovals
    <2>2. Quiet(s, [st |-> t, fx |-> <<PersistSession, StartAssistant(r)>>])
      BY <2>1, QuietTwo, EffectTypes, EffectKinds
    <2> QED
      BY <1>2, <2>2 DEF AdvanceBatch
  <1>3. CASE phase # "Generating"
    <2> DEFINE t == SetForeground(s, r, phase, anchor)
    <2>1. t \in State /\ SameApprovals(s, t)
      BY <1>1, ForegroundType DEF SameApprovals
    <2>2. Quiet(s, [st |-> t, fx |-> <<PersistSession>>])
      BY <2>1, QuietOne, EffectTypes, EffectKinds
    <2> QED
      BY <1>3, <2>2 DEF AdvanceBatch
  <1> QED
    BY <1>2, <1>3

LEMMA EndRunQuiet ==
    ASSUME NEW s \in State, NEW t \in State, SameApprovals(s, t), NEW r \in Run,
           NEW status \in Terminal, NEW appStatus \in {"Idle", "Error"}
    PROVE  Quiet(s, [st |-> EndRun(t, r, status, appStatus), fx |-> <<PersistSession>>])
PROOF
  <1>1. EndRun(t, r, status, appStatus) \in State
    BY EndRunType
  <1>2. SameApprovals(s, EndRun(t, r, status, appStatus))
    BY EndRunType DEF SameApprovals
  <1> QED
    BY <1>1, <1>2, QuietOne, EffectTypes, EffectKinds

-----------------------------------------------------------------------------
\* The handlers that decide no call

LEMMA SubmitPromptQuiet ==
    ASSUME NEW s \in State, NEW r \in Run
    PROVE  Quiet(s, SubmitPrompt(s, r))
PROOF
  <1> DEFINE rec == [status |-> "InProgress", parent |-> NoRun, task |-> 0]
             p == PushTurn(s, r, "User")
             t == [p EXCEPT !.runs[r] = rec]
             u == SetForeground(t, r, "Generating", 0)
  <1>1. p \in State /\ p.invs = s.invs
    BY PushTurnType
  <1>2. rec \in RunRecord
    BY DEF RunRecord
  <1>3. t \in State /\ t.invs = s.invs
    BY <1>1, <1>2 DEF State
  <1>4. u \in State /\ SameApprovals(s, u)
    BY <1>3, ForegroundType DEF Phases, SameApprovals
  <1>5. Quiet(s, [st |-> u, fx |-> <<PersistSession, StartAssistant(r)>>])
    BY <1>4, QuietTwo, EffectTypes, EffectKinds
  <1>6. Quiet(s, Ignored(s))
    BY QuietIgnored DEF Ignored, SameApprovals
  <1> QED
    BY <1>5, <1>6 DEF SubmitPrompt

LEMMA AssistantChunkQuiet ==
    ASSUME NEW s \in State, NEW r \in Run, NEW due \in BOOLEAN
    PROVE  Quiet(s, AssistantChunk(s, r, due))
PROOF
  <1> DEFINE t == IF HasOpenAssistantTurn(s, r) THEN s ELSE PushTurn(s, r, "Assistant")
             u == [t EXCEPT !.status = "Generating"]
  <1>1. t \in State /\ t.invs = s.invs
    BY PushTurnType
  <1>2. u \in State /\ u.invs = t.invs
    BY <1>1 DEF State, Phases
  <1>3. SameApprovals(s, u)
    BY <1>1, <1>2 DEF SameApprovals
  <1>4. /\ Quiet(s, [st |-> u, fx |-> << >>])
        /\ Quiet(s, [st |-> u, fx |-> <<PersistSession>>])
    BY <1>2, <1>3, QuietIgnored, QuietOne, EffectTypes, EffectKinds
  <1>5. Quiet(s, Ignored(s))
    BY QuietIgnored DEF Ignored, SameApprovals
  <1> QED
    BY <1>4, <1>5 DEF AssistantChunk

\* setting the execution state of a call that exists
LEMMA ExecType ==
    ASSUME NEW s \in State, NEW i \in Inv, s.invs[i].approval # "Absent",
           NEW exec \in {"NotStarted", "Running", "Completed", "Failed", "Skipped"}
    PROVE  /\ [s EXCEPT !.invs[i].exec = exec] \in State
           /\ SameApprovals(s, [s EXCEPT !.invs[i].exec = exec])
           /\ [s EXCEPT !.invs[i].exec = exec].invs[i].anchor \in Nat
PROOF
  <1> DEFINE rec == [s.invs[i] EXCEPT !.exec = exec]
             t == [s EXCEPT !.invs[i].exec = exec]
  <1>1. s.invs \in [Inv -> InvRecord]
    BY DEF State
  <1>2. s.invs[i] \in InvRecord /\ s.invs[i] # NoInvRecord
    BY <1>1 DEF NoInvRecord
  <1>3. /\ rec \in InvRecord
        /\ rec.approval = s.invs[i].approval
        /\ rec.anchor \in Nat
    BY <1>2 DEF InvRecord
  <1>4. [s.invs EXCEPT ![i] = rec] \in [Inv -> InvRecord]
    BY <1>1, <1>3
  <1>5. t \in State
    BY <1>4 DEF State
  <1>6. SameApprovals(s, t) /\ t.invs[i].anchor \in Nat
    BY <1>1, <1>3 DEF SameApprovals, State
  <1> QED
    BY <1>5, <1>6

LEMMA ToolExecutionFinishedQuiet ==
    ASSUME NEW s \in State, NEW r \in Run, NEW i \in Inv,
           NEW outcome \in {"ok", "error", "inaccessible"}
    PROVE  Quiet(s, ToolExecutionFinished(s, r, i, outcome))
PROOF
  <1> DEFINE t == [s EXCEPT !.invs[i].exec = IF outcome = "ok" THEN "Completed" ELSE "Failed"]
  <1>1. Quiet(s, Ignored(s))
    BY QuietIgnored DEF Ignored, SameApprovals
  <1>2. CASE s.invs[i].approval # "Absent"
    <2>1. t \in State /\ SameApprovals(s, t)
      BY <1>2, ExecType
    <2>2. Quiet(s, [st |-> EndRun(t, r, "Failed", "Error"), fx |-> <<PersistSession>>])
      BY <2>1, EndRunQuiet DEF Terminal
    <2>3. Quiet(s, [st |-> t, fx |-> <<PersistSession>>])
      BY <2>1, QuietOne, EffectTypes, EffectKinds
    <2>4. s.invs[i].anchor \in Nat
      BY DEF State, InvRecord, NoInvRecord
    <2>5. Quiet(t, AdvanceBatch(t, r, s.invs[i].anchor))
      BY <2>1, <2>4, AdvanceBatchQuiet
    <2>6. Quiet(s, AdvanceBatch(t, r, s.invs[i].anchor))
      BY <2>1, <2>5 DEF Quiet, SameApprovals
    <2> QED
      BY <1>1, <2>2, <2>3, <2>6 DEF ToolExecutionFinished
  <1> QED
    BY <1>1, <1>2 DEF ToolExecutionFinished

-----------------------------------------------------------------------------
\* Delegation

\* a call that exists stays well typed when a child run is linked to it
LEMMA DelegationType ==
    ASSUME NEW s \in State, NEW i \in Inv, s.invs[i].approval # "Absent", NEW c \in Run,
           NEW t, t = [s EXCEPT !.invs[i].child = c, !.invs[i].deleg = "Running"]
    PROVE  t \in State /\ SameApprovals(s, t)
PROOF
  <1> DEFINE rec == [[s.invs[i] EXCEPT !.child = c] EXCEPT !.deleg = "Running"]
  <1>1. s.invs \in [Inv -> InvRecord]
    BY DEF State
  <1>2. rec \in InvRecord /\ rec.approval = s.invs[i].approval
    <2>1. s.invs[i] \in InvRecord /\ s.invs[i] # NoInvRecord
      BY <1>1 DEF NoInvRecord
    <2> QED
      BY <2>1 DEF InvRecord
  <1>3. t = [s EXCEPT !.invs = [s.invs EXCEPT ![i] = rec]]
    BY <1>1 DEF State
  <1>4. [s.invs EXCEPT ![i] = rec] \in [Inv -> InvRecord]
    BY <1>1, <1>2
  <1>5. t \in State
    BY <1>3, <1>4 DEF State
  <1>6. SameApprovals(s, t)
    BY <1>1, <1>2, <1>3 DEF SameApprovals, State
  <1> QED
    BY <1>5, <1>6

LEMMA StartChildRunQuiet ==
    ASSUME NEW s \in State, NEW r \in Run, NEW i \in Inv, s.invs[i].approval # "Absent",
           NEW valid \in BOOLEAN, NEW c \in Run
    PROVE  Quiet(s, StartChildRun(s, r, i, valid, c))
PROOF
  <1>1. CASE ~valid
    <2> DEFINE e == [s EXCEPT !.invs[i].exec = "Failed"]
               t == [s EXCEPT !.invs[i].exec = "Failed", !.status = "Generating"]
    <2>1. e \in State /\ SameApprovals(s, e)
      BY ExecType
    <2>2. t = [e EXCEPT !.status = "Generating"]
      BY DEF State
    <2>3. t \in State /\ SameApprovals(s, t)
      BY <2>1, <2>2 DEF State, Phases, SameApprovals
    <2>4. Quiet(s, [st |-> t, fx |-> <<PersistSession, StartAssistant(r)>>])
      BY <2>3, QuietTwo, EffectTypes, EffectKinds
    <2> QED
      BY <1>1, <2>4 DEF StartChildRun
  <1>2. CASE valid
    <2> DEFINE rec == [status |-> "InProgress", parent |-> r, task |-> i]
               d == [s EXCEPT !.invs[i].child = c, !.invs[i].deleg = "Running"]
               t == [s EXCEPT !.invs[i].child = c, !.invs[i].deleg = "Running", !.runs[c] = rec]
               f == SetForeground(t, c, "Generating", 0)
               u == PushTurn(f, c, "User")
    <2>1. d \in State /\ SameApprovals(s, d)
      <3>1. d = [s EXCEPT !.invs[i].child = c, !.invs[i].deleg = "Running"]
        OBVIOUS
      <3> HIDE DEF d
      <3> QED
        BY <3>1, DelegationType
    <2>2. t = [d EXCEPT !.runs[c] = rec]
      BY DEF State
    <2>3. rec \in RunRecord
      BY DEF RunRecord
    <2>4. t \in State /\ t.invs = d.invs
      BY <2>1, <2>2, <2>3 DEF State
    <2>5. f \in State /\ f.invs = t.invs
      <3> HIDE DEF t
      <3>1. "Generating" \in Phases
        BY DEF Phases
      <3> QED
        BY <2>4, <3>1, ForegroundType
    <2>6. u \in State /\ u.invs = f.invs
      BY <2>5, PushTurnType
    <2>7. SameApprovals(s, u)
      BY <2>1, <2>4, <2>5, <2>6 DEF SameApprovals
    <2>8. Quiet(s, [st |-> u, fx |-> <<PersistSession, StartAssistant(c)>>])
      BY <2>6, <2>7, QuietTwo, EffectTypes, EffectKinds
    <2> QED
      BY <1>2, <2>8 DEF StartChildRun
  <1> QED
    BY <1>1, <1>2

LEMMA ChildLinks ==
    ASSUME NEW s \in State, NEW c \in Run, IsChild(s, c)
    PROVE  s.runs[c].parent \in Run /\ s.runs[c].task \in Inv
PROOF
  <1>1. s.runs[c] \in RunRecord
    BY DEF State
  <1> QED
    BY <1>1 DEF RunRecord, IsChild

LEMMA CompleteChildRunQuiet ==
    ASSUME NEW s \in State, NEW c \in Run, IsChild(s, c), NEW outcome \in Terminal
    PROVE  Quiet(s, CompleteChildRun(s, c, outcome))
PROOF
  <1> DEFINE p == s.runs[c].parent
             i == s.runs[c].task
             e == SetRunStatus(s, c, outcome)
             deleg == IF e.invs[i].deleg = "None" THEN e.invs[i].deleg ELSE outcome
             t == [e EXCEPT !.invs[i].deleg = deleg]
             f == SetForeground(t, p, "Generating", 0)
  <1>1. p \in Run /\ i \in Inv
    BY ChildLinks
  <1>2. e \in State /\ e.invs = s.invs
    BY RunStatusType
  <1>3. t \in State /\ SameApprovals(e, t)
    <2> DEFINE rec == [e.invs[i] EXCEPT !.deleg = deleg]
    <2>1. e.invs \in [Inv -> InvRecord]
      BY <1>2 DEF State
    <2>2. rec \in InvRecord /\ rec.approval = e.invs[i].approval
      <3>1. e.invs[i] \in InvRecord
        BY <1>1, <2>1
      <3>2. CASE e.invs[i] = NoInvRecord
        BY <3>2 DEF InvRecord, NoInvRecord
      <3>3. CASE e.invs[i] # NoInvRecord
        BY <3>1, <3>3 DEF InvRecord
      <3> QED
        BY <3>2, <3>3
    <2>3. [e.invs EXCEPT ![i] = rec] \in [Inv -> InvRecord]
      BY <1>1, <2>1, <2>2
    <2>4. t \in State
      BY <1>2, <2>3 DEF State
    <2> QED
      BY <1>1, <1>2, <2>1, <2>2, <2>4 DEF SameApprovals, State
  <1>4. f \in State /\ f.invs = t.invs
    <2> HIDE DEF p, t
    <2>1. "Generating" \in Phases
      BY DEF Phases
    <2> QED
      BY <1>1, <1>3, <2>1, ForegroundType
  <1>5. Quiet(f, ToolExecutionFinished(f, p, i, "ok"))
    BY <1>1, <1>4, ToolExecutionFinishedQuiet
  <1> DEFINE res == ToolExecutionFinished(f, p, i, "ok")
  <1>6. \A j \in Inv : f.invs[j].approval = s.invs[j].approval
    BY <1>2, <1>3, <1>4 DEF SameApprovals
  <1> HIDE DEF res, f
  <1>7. Quiet(s, res)
    BY <1>5, <1>6 DEF Quiet, SameApprovals, res
  <1> QED
    BY <1>7 DEF CompleteChildRun, res, f

LEMMA AssistantEndedQuiet ==
    ASSUME NEW s \in State, NEW r \in Run, NEW outcome \in {"Completed", "Failed"}
    PROVE  Quiet(s, AssistantEnded(s, r, outcome))
PROOF
  <1>1. CASE IsChild(s, r)
    BY <1>1, CompleteChildRunQuiet DEF AssistantEnded, Terminal
  <1>2. CASE ~IsChild(s, r)
    <2> DEFINE app == IF outcome = "Failed" THEN "Error" ELSE "Idle"
    <2>1. Quiet(s, [st |-> EndRun(s, r, outcome, app), fx |-> <<PersistSession>>])
      BY EndRunQuiet DEF SameApprovals, Terminal
    <2>2. Quiet(s, Ignored(s))
      BY QuietIgnored DEF Ignored, SameApprovals
    <2> QED
      BY <1>2, <2>1, <2>2 DEF AssistantEnded
  <1> QED
    BY <1>1, <1>2

LEMMA QuietPrefix ==
    ASSUME NEW s \in State, NEW res, Quiet(s, res),
           NEW e \in Effect, e.kind # "ExecuteTools"
    PROVE  Quiet(s, [res EXCEPT !.fx = <<e>> \o @])
PROOF
  <1> DEFINE fx == <<e>> \o res.fx
  <1>1. <<e>> \in Seq(Effect) /\ res.fx \in Seq(Effect) /\ Len(<<e>>) = 1 /\ <<e>>[1] = e
    BY DEF Quiet, Result
  <1>2. /\ fx \in Seq(Effect)
        /\ Len(fx) = 1 + Len(res.fx)
        /\ \A k \in 1..Len(fx) : fx[k] = IF k <= 1 THEN e ELSE res.fx[k - 1]
    BY <1>1, ConcatProperties
  <1>3. NoTools(fx)
    BY <1>1, <1>2 DEF NoTools, Quiet
  <1> QED
    BY <1>2, <1>3 DEF Quiet, Result

LEMMA CancelActiveRunQuiet ==
    ASSUME NEW s \in State
    PROVE  Quiet(s, CancelActiveRun(s))
PROOF
  <1>1. CASE s.active = NoRun
    BY <1>1, QuietIgnored DEF CancelActiveRun, Ignored, SameApprovals
  <1>2. CASE s.active # NoRun
    <2>1. s.active \in Run
      BY <1>2 DEF State
    <2>2. CASE IsChild(s, s.active)
      <3>1. Quiet(s, CompleteChildRun(s, s.active, "Cancelled"))
        BY <2>1, <2>2, CompleteChildRunQuiet DEF Terminal
      <3> QED
        BY <1>2, <2>1, <2>2, <3>1, QuietPrefix, EffectTypes, EffectKinds DEF CancelActiveRun
    <2>3. CASE ~IsChild(s, s.active)
      <3> DEFINE t == EndRun(s, s.active, "Cancelled", "Idle")
      <3>1. t \in State /\ SameApprovals(s, t)
        BY <2>1, EndRunType DEF Terminal, SameApprovals
      <3>2. Quiet(s, [st |-> t, fx |-> <<CancelAssistant(s.active), PersistSession>>])
        BY <2>1, <3>1, QuietTwo, EffectTypes, EffectKinds
      <3> QED
        BY <1>2, <2>3, <3>2 DEF CancelActiveRun
    <2> QED
      BY <2>2, <2>3
  <1> QED
    BY <1>1, <1>2

LEMMA UnsupportedToolCallQuiet ==
    ASSUME NEW s \in State, NEW r \in Run
    PROVE  Quiet(s, UnsupportedToolCall(s, r))
PROOF
  <1>1. Quiet(s, Ignored(s))
    BY QuietIgnored DEF Ignored, SameApprovals
  <1>2. Quiet(s, [st |-> EndRun(s, r, "Failed", "Error"), fx |-> <<PersistSession>>])
    BY EndRunQuiet DEF SameApprovals, Terminal
  <1> QED
    BY <1>1, <1>2 DEF UnsupportedToolCall

-----------------------------------------------------------------------------
\* The handlers that decide calls

LEMMA QuietIsGuarded ==
    ASSUME NEW s, NEW res, Quiet(s, res)
    PROVE  Guarded(s, res)
  BY DEF Quiet, Guarded, NoTools, ToolsGuarded, GateMoves

LEMMA MovesThenSame ==
    ASSUME NEW s, NEW t, NEW u, GateMoves(s, t), SameApprovals(t, u)
    PROVE  GateMoves(s, u)
PROOF
  <1>1. CASE SameApprovals(s, t)
    BY <1>1 DEF GateMoves, SameApprovals
  <1>2. CASE \E i \in Inv, g \in {"Pending", "Approved", "Denied"} :
               /\ s.invs[i].approval = "Absent"
               /\ \A j \in Inv : t.invs[j].approval = IF j = i THEN g ELSE s.invs[j].approval
    BY <1>2 DEF GateMoves, SameApprovals
  <1>3. CASE \E B \in SUBSET Inv, v \in {"Approved", "Denied"} :
               /\ \A i \in B : s.invs[i].approval = "Pending"
               /\ \A j \in Inv : t.invs[j].approval = IF j \in B THEN v ELSE s.invs[j].approval
    BY <1>3 DEF GateMoves, SameApprovals
  <1> QED
    BY <1>1, <1>2, <1>3 DEF GateMoves

\* a step that moves the gate and then does something quiet
LEMMA MovesThenQuiet ==
    ASSUME NEW s, NEW t, NEW res, GateMoves(s, t), Quiet(t, res)
    PROVE  Guarded(s, res)
PROOF
  <1>1. GateMoves(s, res.st)
    BY MovesThenSame DEF Quiet
  <1> QED
    BY <1>1 DEF Quiet, Guarded, NoTools, ToolsGuarded

LEMMA SameThenMoves ==
    ASSUME NEW s, NEW t, NEW u, SameApprovals(s, t), GateMoves(t, u)
    PROVE  GateMoves(s, u)
PROOF
  <1>1. CASE SameApprovals(t, u)
    BY <1>1 DEF GateMoves, SameApprovals
  <1>2. CASE \E i \in Inv, g \in {"Pending", "Approved", "Denied"} :
               /\ t.invs[i].approval = "Absent"
               /\ \A j \in Inv : u.invs[j].approval = IF j = i THEN g ELSE t.invs[j].approval
    BY <1>2 DEF GateMoves, SameApprovals
  <1>3. CASE \E B \in SUBSET Inv, v \in {"Approved", "Denied"} :
               /\ \A i \in B : t.invs[i].approval = "Pending"
               /\ \A j \in Inv : u.invs[j].approval = IF j \in B THEN v ELSE t.invs[j].approval
    <2>1. PICK B \in SUBSET Inv, v \in {"Approved", "Denied"} :
               /\ \A i \in B : t.invs[i].approval = "Pending"
               /\ \A j \in Inv : u.invs[j].approval = IF j \in B THEN v ELSE t.invs[j].approval
      BY <1>3
    <2>2. /\ \A i \in B : s.invs[i].approval = "Pending"
          /\ \A j \in Inv : u.invs[j].approval = IF j \in B THEN v ELSE s.invs[j].approval
      BY <2>1 DEF SameApprovals
    <2> QED
      BY <2>2 DEF GateMoves
  <1> QED
    BY <1>1, <1>2, <1>3 DEF GateMoves

\* and a step that does something the approvals do not show before it moves the gate
LEMMA SameThenGuarded ==
    ASSUME NEW s, NEW t, NEW res, SameApprovals(s, t),
           \A i \in Inv : t.invs[i].tool = s.invs[i].tool, Guarded(t, res)
    PROVE  Guarded(s, res)
PROOF
  <1>1. GateMoves(s, res.st)
    BY SameThenMoves DEF Guarded
  <1>2. \A k \in 1..Len(res.fx) : res.fx[k].ids \subseteq Inv
    <2>1. res.fx \in Seq(Effect)
      BY DEF Guarded, Result
    <2>2. \A k \in 1..Len(res.fx) : res.fx[k] \in Effect
      BY <2>1, ElementOfSeq
    <2> QED
      BY <2>2 DEF Effect
  <1>3. ToolsGuarded(s, res)
    BY <1>2 DEF ToolsGuarded, Guarded, SameApprovals
  <1> QED
    BY <1>1, <1>3 DEF Guarded

LEMMA AssistantToolCallGuarded ==
    ASSUME NEW s \in State, NEW r \in Run, NEW tool \in Tool,
           NEW i \in Inv, s.invs[i].approval = "Absent"
    PROVE  Guarded(s, AssistantToolCall(s, r, tool, i))
PROOF
  <1> DEFINE decision == Decision(s, r, tool)
             anchor == LastTurn(s)
             approval == CASE decision = "Allow" -> "Approved"
                           [] decision = "Deny"  -> "Denied"
                           [] OTHER              -> "Pending"
             exec == CASE decision = "Allow" -> "Running"
                       [] decision = "Deny"  -> "Skipped"
                       [] OTHER              -> "NotStarted"
             rec == [run |-> r, tool |-> tool, anchor |-> anchor,
                     approval |-> approval, exec |-> exec,
                     child |-> NoRun, deleg |-> "None"]
             t == [s EXCEPT !.invs[i] = rec]
  <1>1. anchor \in Nat /\ s.invs \in [Inv -> InvRecord]
    BY LenProperties DEF LastTurn, State
  <1>2. approval \in {"Pending", "Approved", "Denied"}
    OBVIOUS
  <1>3. rec \in InvRecord
    BY <1>1, <1>2 DEF InvRecord
  <1>4. t \in State
    BY <1>1, <1>3 DEF State
  <1>5. \A j \in Inv : t.invs[j].approval = IF j = i THEN approval ELSE s.invs[j].approval
    BY <1>1 DEF State
  <1>6. GateMoves(s, t)
    BY <1>2, <1>5 DEF GateMoves
  <1>7. Guarded(s, Ignored(s))
    BY QuietIgnored, QuietIsGuarded DEF Ignored, SameApprovals
  <1>8. CASE decision = "Allow" /\ s.active = r
    <2> DEFINE f == SetForeground(t, r, "RunningTool", anchor)
               fx == <<PersistSession, ExecuteTools({i})>>
    <2>1. f \in State /\ f.invs = t.invs
      <3> HIDE DEF t, anchor
      <3>1. "RunningTool" \in Phases
        BY DEF Phases
      <3> QED
        BY <1>1, <1>4, <3>1, ForegroundType
    <2>2. GateMoves(s, f)
      BY <1>6, <2>1, MovesThenSame DEF SameApprovals
    <2>3. fx \in Seq(Effect)
      BY EffectTypes
    <2>4. f.invs[i].approval = "Approved"
      BY <1>5, <1>8, <2>1
    <2>5. ToolsGuarded(s, [st |-> f, fx |-> fx])
      <3> HIDE DEF f
      <3> QED
        BY <2>4 DEF ToolsGuarded, PersistSession, ExecuteTools
    <2>6. Guarded(s, [st |-> f, fx |-> fx])
      BY <2>1, <2>2, <2>3, <2>5 DEF Guarded, Result
    <2> QED
      BY <1>8, <2>6 DEF AssistantToolCall
  <1>9. CASE decision = "Deny" /\ s.active = r
    <2>1. Quiet(t, AdvanceBatch(t, r, anchor))
      <3> HIDE DEF t, anchor
      <3> QED
        BY <1>1, <1>4, AdvanceBatchQuiet
    <2>2. Guarded(s, AdvanceBatch(t, r, anchor))
      BY <1>6, <2>1, MovesThenQuiet
    <2> QED
      BY <1>9, <2>2 DEF AssistantToolCall
  <1>10. CASE decision \notin {"Allow", "Deny"} /\ s.active = r
    <2> DEFINE f == SetForeground(t, r, "AwaitingToolApproval", anchor)
    <2>1. Quiet(t, [st |-> f, fx |-> <<PersistSession>>])
      <3> HIDE DEF t, anchor
      <3>1. "AwaitingToolApproval" \in Phases
        BY DEF Phases
      <3>2. f \in State /\ SameApprovals(t, f)
        BY <1>1, <1>4, <3>1, ForegroundType DEF SameApprovals
      <3> HIDE DEF f
      <3> QED
        BY <1>4, <3>2, QuietOne, EffectTypes, EffectKinds
    <2>2. Guarded(s, [st |-> f, fx |-> <<PersistSession>>])
      BY <1>6, <2>1, MovesThenQuiet
    <2> QED
      BY <1>10, <2>2 DEF AssistantToolCall
  <1> QED
    BY <1>7, <1>8, <1>9, <1>10 DEF AssistantToolCall

\* the calls a reply decides are pending, and their batch is known
LEMMA ReplyBatch ==
    ASSUME NEW s \in State
    PROVE  /\ ReplyTargets(s) \in SUBSET Inv
           /\ \A i \in ReplyTargets(s) : s.invs[i].approval = "Pending"
           /\ ReplyTargets(s) # {} => (CHOOSE a \in ReplyAnchor(s) : TRUE) \in Nat
PROOF
  <1>1. ReplyTargets(s) \in SUBSET Inv /\ \A i \in ReplyTargets(s) : s.invs[i].approval = "Pending"
    BY DEF ReplyTargets, PendingIn
  <1>2. ReplyAnchor(s) \subseteq Nat
    <2>1. s.owner.anchor \in Nat
      BY DEF State, Owner
    <2>2. \A i \in Inv : s.invs[i].anchor \in Nat
      <3>1. \A i \in Inv : s.invs[i] \in InvRecord
        BY DEF State
      <3> QED
        BY <3>1 DEF InvRecord, NoInvRecord
    <2> QED
      BY <2>1, <2>2 DEF ReplyAnchor
  <1>3. ReplyTargets(s) # {} => ReplyAnchor(s) # {}
    BY DEF ReplyTargets
  <1> QED
    BY <1>1, <1>2, <1>3

\* one verdict for a batch of pending calls
Judged(s, B, v, exec) ==
    [s EXCEPT !.invs = [i \in Inv |-> IF i \in B
                                      THEN [@[i] EXCEPT !.approval = v, !.exec = exec]
                                      ELSE @[i]]]

LEMMA JudgedType ==
    ASSUME NEW s \in State, NEW B \in SUBSET Inv,
           \A i \in B : s.invs[i].approval = "Pending",
           NEW v \in {"Approved", "Denied"},
           NEW exec \in {"Running", "Skipped"}
    PROVE  /\ Judged(s, B, v, exec) \in State
           /\ GateMoves(s, Judged(s, B, v, exec))
           /\ \A i \in B : Judged(s, B, v, exec).invs[i].approval = v
PROOF
  <1> DEFINE t == Judged(s, B, v, exec)
             invs == [i \in Inv |-> IF i \in B
                                    THEN [s.invs[i] EXCEPT !.approval = v, !.exec = exec]
                                    ELSE s.invs[i]]
  <1>1. s.invs \in [Inv -> InvRecord]
    BY DEF State
  <1>2. ASSUME NEW i \in B
        PROVE  /\ [s.invs[i] EXCEPT !.approval = v, !.exec = exec] \in InvRecord
               /\ [s.invs[i] EXCEPT !.approval = v, !.exec = exec].approval = v
    <2>1. i \in Inv /\ s.invs[i].approval = "Pending"
      BY <1>2
    <2>2. s.invs[i] \in InvRecord /\ s.invs[i] # NoInvRecord
      BY <1>1, <2>1 DEF NoInvRecord
    <2> QED
      BY <2>2 DEF InvRecord
  <1>3. invs \in [Inv -> InvRecord]
    BY <1>1, <1>2
  <1>4. \A j \in Inv : invs[j].approval = IF j \in B THEN v ELSE s.invs[j].approval
    BY <1>2
  <1>5. t = [s EXCEPT !.invs = invs]
    BY DEF Judged
  <1> HIDE DEF invs
  <1>6. t \in State /\ t.invs = invs
    BY <1>3, <1>5 DEF State
  <1>7. GateMoves(s, t)
    <2>1. \A j \in Inv : t.invs[j].approval = IF j \in B THEN v ELSE s.invs[j].approval
      BY <1>4, <1>6
    <2> HIDE DEF t
    <2> QED
      BY <2>1 DEF GateMoves
  <1> QED
    BY <1>4, <1>6, <1>7

LEMMA DenyPendingGuarded ==
    ASSUME NEW s \in State
    PROVE  Guarded(s, DenyPending(s))
PROOF
  <1> DEFINE B == ReplyTargets(s)
             anchor == CHOOSE a \in ReplyAnchor(s) : TRUE
             t == Judged(s, B, "Denied", "Skipped")
  <1>1. CASE s.active = NoRun \/ B = {}
    BY <1>1, QuietIgnored, QuietIsGuarded DEF DenyPending, Ignored, SameApprovals
  <1>2. CASE ~(s.active = NoRun \/ B = {})
    <2>1. t \in State /\ GateMoves(s, t)
      BY ReplyBatch, JudgedType
    <2>2. s.active \in Run /\ anchor \in Nat
      BY <1>2, ReplyBatch DEF State
    <2>3. Quiet(t, AdvanceBatch(t, s.active, anchor))
      <3> HIDE DEF t, anchor
      <3> QED
        BY <2>1, <2>2, AdvanceBatchQuiet
    <2>4. Guarded(s, AdvanceBatch(t, s.active, anchor))
      BY <2>1, <2>3, MovesThenQuiet
    <2> QED
      BY <1>2, <2>4 DEF DenyPending, Judged
  <1> QED
    BY <1>1, <1>2

\* a rule the client remembers changes no approval
LEMMA RuleType ==
    ASSUME NEW s \in State, NEW tool \in Tool
    PROVE  /\ [s EXCEPT !.rules[tool] = "Deny"] \in State
           /\ SameApprovals(s, [s EXCEPT !.rules[tool] = "Deny"])
  BY DEF State, SameApprovals

LEMMA RejectAlwaysGuarded ==
    ASSUME NEW s \in State, NEW i \in Inv
    PROVE  Guarded(s, RejectAlways(s, i))
PROOF
  <1> DEFINE tool == s.invs[i].tool
             t == IF Rememberable(tool) THEN [s EXCEPT !.rules[tool] = "Deny"] ELSE s
  <1>1. tool \in Tool
    <2>1. s.invs[i] \in InvRecord
      BY DEF State
    <2> QED
      BY <2>1 DEF InvRecord, NoInvRecord, Tool
  <1>2. t \in State /\ SameApprovals(s, t) /\ t.invs = s.invs
    BY <1>1, RuleType DEF SameApprovals, State
  <1>3. Guarded(t, DenyPending(t))
    BY <1>2, DenyPendingGuarded
  <1> QED
    BY <1>2, <1>3, SameThenGuarded DEF RejectAlways

LEMMA RulesType ==
    ASSUME NEW s \in State, NEW rules \in [Tool -> {"None", "Allow", "Deny"}],
           NEW t, t = [s EXCEPT !.rules = rules]
    PROVE  t \in State /\ t.invs = s.invs
  BY DEF State

\* the effects of an approval: a save first, the tools last
LEMMA SaveThenTools ==
    ASSUME NEW fx \in Seq(Effect), NoTools(fx), NEW S \in SUBSET Inv,
           NEW g, g = (<<PersistSession>> \o fx) \o <<ExecuteTools(S)>>
    PROVE  /\ g \in Seq(Effect)
           /\ Len(g) \in Nat
           /\ g[1] = PersistSession
           /\ g[Len(g)] = ExecuteTools(S)
           /\ \A k \in 1..Len(g) : k # Len(g) => g[k].kind # "ExecuteTools"
PROOF
  <1> DEFINE h == <<PersistSession>> \o fx
  <1>1. <<PersistSession>> \in Seq(Effect) /\ <<ExecuteTools(S)>> \in Seq(Effect)
    BY SaveAndToolTypes
  <1>2. /\ h \in Seq(Effect)
        /\ Len(h) = 1 + Len(fx)
        /\ \A k \in 1..Len(h) : h[k] = IF k <= 1 THEN PersistSession ELSE fx[k - 1]
    BY <1>1, ConcatProperties
  <1>3. Len(fx) \in Nat
    BY LenProperties
  <1>4. \A k \in 1..Len(h) : h[k].kind # "ExecuteTools"
    BY <1>2, <1>3 DEF NoTools, PersistSession
  <1>5. /\ g \in Seq(Effect)
        /\ Len(g) = Len(h) + 1
        /\ \A k \in 1..Len(g) : g[k] = IF k <= Len(h) THEN h[k] ELSE <<ExecuteTools(S)>>[k - Len(h)]
    <2> HIDE DEF h
    <2>1. g = h \o <<ExecuteTools(S)>>
      BY DEF h
    <2> QED
      BY <1>1, <1>2, <2>1, ConcatProperties
  <1> HIDE DEF h
  <1> QED
    BY <1>2, <1>3, <1>4, <1>5

LEMMA SaveThenToolsGuarded ==
    ASSUME NEW s, NEW t \in State, GateMoves(s, t),
           NEW fx \in Seq(Effect), NoTools(fx), NEW S \in SUBSET Inv,
           \A i \in S : /\ s.invs[i].approval # "Approved"
                        /\ s.invs[i].approval # "Absent" => s.invs[i].tool # TaskTool
                        /\ t.invs[i].approval = "Approved"
    PROVE  Guarded(s, [st |-> t, fx |-> (<<PersistSession>> \o fx) \o <<ExecuteTools(S)>>])
PROOF
  <1> DEFINE g == (<<PersistSession>> \o fx) \o <<ExecuteTools(S)>>
  <1>1. /\ g \in Seq(Effect)
        /\ Len(g) \in Nat
        /\ g[1] = PersistSession
        /\ g[Len(g)] = ExecuteTools(S)
        /\ \A k \in 1..Len(g) : k # Len(g) => g[k].kind # "ExecuteTools"
    BY SaveThenTools
  <1> HIDE DEF g
  <1>2. ToolsGuarded(s, [st |-> t, fx |-> g])
    BY <1>1 DEF ToolsGuarded, PersistSession, ExecuteTools
  <1>3. Guarded(s, [st |-> t, fx |-> g])
    BY <1>1, <1>2 DEF Guarded, Result
  <1> QED
    BY <1>3 DEF g

LEMMA LeastInv ==
    ASSUME NEW S \in SUBSET Inv, S # {}
    PROVE  (CHOOSE i \in S : \A j \in S : i <= j) \in S
PROOF
  <1>1. S \subseteq Nat
    BY ReducerAssumption DEF Inv
  <1> DEFINE less == OpToRel(<, Nat)
  <1>2. \A i, j \in Nat : j < i => <<j, i>> \in less
    BY DEF OpToRel
  <1>3. IsWellFoundedOn(less, Nat)
    BY NatLessThanWellFounded
  <1> HIDE DEF less
  <1>4. PICK i \in S : \A j \in S : ~ (<<j, i>> \in less)
    BY <1>1, <1>3, WFMin
  <1>5. ASSUME NEW j \in S
        PROVE  i <= j
    <2>1. i \in Nat /\ j \in Nat
      BY <1>1
    <2>2. ~ (j < i)
      BY <1>2, <1>4, <2>1
    <2> QED
      BY <2>1, <2>2
  <1> QED
    BY <1>5

LEMMA ResultFx ==
    ASSUME NEW res \in Result, NEW fx
    PROVE  [res EXCEPT !.fx = fx] = [st |-> res.st, fx |-> fx]
  BY DEF Result

LEMMA ApprovePendingGuarded ==
    ASSUME NEW s \in State, NEW reply, NEW valid \in BOOLEAN, NEW c \in Run
    PROVE  Guarded(s, ApprovePending(s, reply, valid, c))
PROOF
  <1> DEFINE B == ReplyTargets(s)
             r == s.active
             anchor == CHOOSE a \in ReplyAnchor(s) : TRUE
             Tasks == {i \in B : s.invs[i].tool = TaskTool}
             rest == IF B = Tasks THEN << >> ELSE <<ExecuteTools(B \ Tasks)>>
             judged == Judged(s, B, "Approved", "Running")
             rules == [x \in Tool |-> IF /\ reply = "Always"
                                         /\ Rememberable(x)
                                         /\ \E i \in B : s.invs[i].tool = x
                                      THEN "Allow" ELSE s.rules[x]]
             approved == [judged EXCEPT !.rules = rules]
             t == SetForeground(approved, r, "RunningTool", anchor)
             first == CHOOSE i \in Tasks : \A j \in Tasks : i <= j
             child == StartChildRun(t, r, first, valid, c)
  <1>1. CASE r = NoRun \/ B = {}
    BY <1>1, QuietIgnored, QuietIsGuarded DEF ApprovePending, Ignored, SameApprovals
  <1>2. CASE ~(r = NoRun \/ B = {})
    <2>1. /\ B \in SUBSET Inv
          /\ \A i \in B : s.invs[i].approval = "Pending"
          /\ anchor \in Nat
          /\ r \in Run
      BY <1>2, ReplyBatch DEF State
    <2>2. /\ judged \in State
          /\ GateMoves(s, judged)
          /\ \A i \in B : judged.invs[i].approval = "Approved"
      BY ReplyBatch, JudgedType
    <2>3. approved \in State /\ approved.invs = judged.invs
      <3>1. rules \in [Tool -> {"None", "Allow", "Deny"}]
        BY DEF State
      <3> HIDE DEF rules, judged
      <3> QED
        BY <2>2, <3>1 DEF State
    <2>4. t \in State /\ t.invs = approved.invs
      <3>1. "RunningTool" \in Phases
        BY DEF Phases
      <3> HIDE DEF approved, r, anchor
      <3> QED
        BY <2>1, <2>3, <3>1, ForegroundType
    <2>5. GateMoves(s, t) /\ \A i \in B : t.invs[i].approval = "Approved"
      <3> HIDE DEF t, approved, judged
      <3>1. SameApprovals(judged, t)
        BY <2>3, <2>4 DEF SameApprovals
      <3> QED
        BY <2>2, <2>3, <2>4, <3>1, MovesThenSame
    <2>6. ApprovePending(s, reply, valid, c) =
             IF Tasks = {}
             THEN [st |-> t, fx |-> <<PersistSession>> \o rest]
             ELSE [child EXCEPT !.fx = (<<PersistSession>> \o @) \o rest]
      BY <1>2 DEF ApprovePending, Judged
    <2>7. CASE Tasks = {}
      <3>1. rest = <<ExecuteTools(B)>>
        BY <1>2, <2>7
      <3>2. <<PersistSession>> \o << >> = <<PersistSession>>
        BY SaveAndToolTypes, ConcatEmptySeq
      <3>3. << >> \in Seq(Effect) /\ NoTools(<< >>)
        BY DEF NoTools
      <3>4. \A i \in B : s.invs[i].tool # TaskTool
        BY <2>7
      <3> HIDE DEF t, B
      <3>5. Guarded(s, [st |-> t, fx |-> (<<PersistSession>> \o << >>) \o <<ExecuteTools(B)>>])
        BY <2>1, <2>4, <2>5, <3>3, <3>4, SaveThenToolsGuarded
      <3> QED
        BY <2>6, <2>7, <3>1, <3>2, <3>5
    <2>8. CASE Tasks # {}
      <3>1. first \in B
        BY <2>1, <2>8, LeastInv
      <3>2. Quiet(t, child)
        <4>1. first \in Inv /\ t.invs[first].approval # "Absent"
          BY <2>1, <2>5, <3>1
        <4> HIDE DEF t, first, r
        <4> QED
          BY <2>1, <2>4, <4>1, StartChildRunQuiet
      <3> DEFINE save == [child EXCEPT !.fx = <<PersistSession>> \o @]
      <3>3. Quiet(t, save)
        <4> HIDE DEF child, t
        <4> QED
          BY <2>4, <3>2, QuietPrefix, SaveAndToolTypes, EffectKinds
      <3>4. CASE B = Tasks
        <4>1. /\ child.fx \in Seq(Effect) /\ save.fx \in Seq(Effect)
              /\ child \in Result
          <5> HIDE DEF child
          <5> QED
            BY <3>2, <3>3 DEF Quiet, Result
        <4>2. [child EXCEPT !.fx = (<<PersistSession>> \o @) \o rest] = save
          <5>1. rest = << >>
            BY <3>4
          <5>2. save.fx = <<PersistSession>> \o child.fx
            <6> HIDE DEF child
            <6> QED
              BY <4>1 DEF Result
          <5>3. (<<PersistSession>> \o child.fx) \o << >> = <<PersistSession>> \o child.fx
            BY <4>1, <5>2, ConcatEmptySeq
          <5> HIDE DEF child, rest
          <5> QED
            BY <5>1, <5>3
        <4>3. Guarded(s, save)
          BY <2>5, <3>3, MovesThenQuiet
        <4> QED
          BY <2>6, <2>8, <4>2, <4>3
      <3>5. CASE B # Tasks
        <4> DEFINE S == B \ Tasks
        <4>1. /\ child \in Result /\ NoTools(child.fx)
              /\ child.st \in State /\ child.fx \in Seq(Effect)
              /\ SameApprovals(t, child.st)
          <5> HIDE DEF child, t
          <5> QED
            BY <3>2 DEF Quiet, Result
        <4>2. S \in SUBSET Inv
          BY <2>1
        <4>3. \A i \in S : /\ s.invs[i].approval # "Approved"
                           /\ s.invs[i].tool # TaskTool
                           /\ child.st.invs[i].approval = "Approved"
          <5> HIDE DEF child, t, B
          <5> QED
            BY <2>1, <2>5, <4>1 DEF SameApprovals
        <4>4. GateMoves(s, child.st)
          BY <2>5, <4>1, MovesThenSame
        <4>5. [child EXCEPT !.fx = (<<PersistSession>> \o @) \o rest]
                = [st |-> child.st,
                   fx |-> (<<PersistSession>> \o child.fx) \o <<ExecuteTools(S)>>]
          <5>1. rest = <<ExecuteTools(S)>>
            BY <3>5
          <5>2. [child EXCEPT !.fx = (<<PersistSession>> \o child.fx) \o <<ExecuteTools(S)>>]
                  = [st |-> child.st,
                     fx |-> (<<PersistSession>> \o child.fx) \o <<ExecuteTools(S)>>]
            <6> HIDE DEF child, S
            <6> QED
              BY <4>1, ResultFx
          <5> HIDE DEF child, S, rest
          <5> QED
            BY <5>1, <5>2
        <4>6. Guarded(s, [st |-> child.st,
                          fx |-> (<<PersistSession>> \o child.fx) \o <<ExecuteTools(S)>>])
          <5> HIDE DEF child, S
          <5> QED
            BY <4>1, <4>2, <4>3, <4>4, SaveThenToolsGuarded
        <4> QED
          BY <2>6, <2>8, <4>5, <4>6
      <3> QED
        BY <3>4, <3>5
    <2> QED
      BY <2>7, <2>8
  <1> QED
    BY <1>1, <1>2

-----------------------------------------------------------------------------
\* Startup recovery decides no call and starts no tool

LEMMA FailClosedQuiet ==
    ASSUME NEW s \in State
    PROVE  Quiet(s, FailClosed(s))
PROOF
  <1> DEFINE t == [s EXCEPT !.active = NoRun, !.status = "Error"]
  <1>1. t \in State /\ SameApprovals(s, t)
    BY DEF State, SameApprovals
  <1> QED
    BY <1>1, QuietIgnored DEF FailClosed, Ignored

LEMMA RecoverChildQuiet ==
    ASSUME NEW s \in State, NEW expected \in Run \cup {NoRun}
    PROVE  Quiet(s, RecoverChild(s, expected))
PROOF
  <1> DEFINE C == InterruptedChildren(s)
             c == CHOOSE x \in C : TRUE
  <1>1. Quiet(s, FailClosed(s))
    BY FailClosedQuiet
  <1>2. Quiet(s, Ignored(s))
    BY QuietIgnored DEF Ignored, SameApprovals
  <1>3. CASE C # {}
    <2>1. c \in C
      BY <1>3
    <2>2. c \in Run /\ IsChild(s, c)
      BY <2>1 DEF InterruptedChildren
    <2>3. Quiet(s, CompleteChildRun(s, c, "Failed"))
      <3> HIDE DEF c
      <3> QED
        BY <2>2, CompleteChildRunQuiet DEF Terminal
    <2> QED
      BY <1>1, <1>3, <2>3 DEF RecoverChild
  <1>4. CASE C = {}
    BY <1>1, <1>2, <1>4 DEF RecoverChild
  <1> QED
    BY <1>3, <1>4

LEMMA RecoverRootGeneratingQuiet ==
    ASSUME NEW s \in State, s.owner.run \in Run
    PROVE  Quiet(s, RecoverRootGenerating(s))
PROOF
  <1> DEFINE r == s.owner.run
             t == SetForeground(s, r, "Generating", 0)
  <1>1. t \in State /\ SameApprovals(s, t)
    BY ForegroundType DEF Phases, SameApprovals
  <1>2. Quiet(s, [st |-> t, fx |-> <<StartAssistant(r)>>])
    <2> HIDE DEF t
    <2> QED
      BY <1>1, QuietOne, EffectTypes, EffectKinds
  <1> QED
    BY <1>2, FailClosedQuiet DEF RecoverRootGenerating

LEMMA RecoverAwaitingApprovalQuiet ==
    ASSUME NEW s \in State, s.owner.run \in Run
    PROVE  Quiet(s, RecoverAwaitingApproval(s))
PROOF
  <1> DEFINE t == SetForeground(s, s.owner.run, "AwaitingToolApproval", s.owner.anchor)
  <1>1. s.owner.anchor \in Nat
    BY DEF State, Owner
  <1>2. t \in State /\ SameApprovals(s, t)
    BY <1>1, ForegroundType DEF Phases, SameApprovals
  <1>3. Quiet(s, Ignored(t))
    <2> HIDE DEF t
    <2> QED
      BY <1>2, QuietIgnored DEF Ignored
  <1> QED
    BY <1>3, FailClosedQuiet DEF RecoverAwaitingApproval

LEMMA InterruptRunningToolQuiet ==
    ASSUME NEW s \in State, s.owner.run \in Run
    PROVE  Quiet(s, InterruptRunningTool(s))
PROOF
  <1> DEFINE hit(i) == /\ s.invs[i].run = s.owner.run
                       /\ s.invs[i].anchor = s.owner.anchor
                       /\ Unfinished(s.invs[i])
             invs == [i \in Inv |-> IF hit(i) THEN Interrupted(s.invs[i]) ELSE s.invs[i]]
             t == [s EXCEPT !.invs = invs]
  <1>1. s.invs \in [Inv -> InvRecord]
    BY DEF State
  <1>2. ASSUME NEW i \in Inv, hit(i)
        PROVE  /\ Interrupted(s.invs[i]) \in InvRecord
               /\ Interrupted(s.invs[i]).approval = s.invs[i].approval
    <2>1. s.invs[i] \in InvRecord /\ s.invs[i] # NoInvRecord
      BY <1>1, <1>2 DEF Unfinished, NoInvRecord
    <2> QED
      BY <2>1 DEF Interrupted, InvRecord, Terminal
  <1>3. /\ invs \in [Inv -> InvRecord]
        /\ \A i \in Inv : invs[i].approval = s.invs[i].approval
    <2> HIDE DEF hit
    <2> QED
      BY <1>1, <1>2
  <1>4. t \in State /\ SameApprovals(s, t)
    <2> HIDE DEF invs
    <2> QED
      BY <1>3 DEF State, SameApprovals
  <1>5. Quiet(s, [st |-> EndRun(t, s.owner.run, "Failed", "Error"), fx |-> <<PersistSession>>])
    <2> HIDE DEF t
    <2> QED
      BY <1>4, EndRunQuiet DEF Terminal
  <1>6. InterruptRunningTool(s)
          = [st |-> EndRun(t, s.owner.run, "Failed", "Error"), fx |-> <<PersistSession>>]
    BY DEF InterruptRunningTool
  <1> QED
    BY <1>5, <1>6

LEMMA RecoverStartupQuiet ==
    ASSUME NEW s \in State
    PROVE  Quiet(s, RecoverStartup(s))
PROOF
  <1>1. s.owner.run \in Run \cup {NoRun} /\ s.owner.phase \in Phases
    BY DEF State, Owner
  <1>2. CASE s.owner.run = NoRun
    BY <1>1, <1>2, RecoverChildQuiet DEF RecoverStartup
  <1>3. CASE s.owner.run # NoRun
    <2>1. s.owner.run \in Run
      BY <1>1, <1>3
    <2>2. /\ Quiet(s, FailClosed(s))
          /\ Quiet(s, RecoverChild(s, s.owner.run))
          /\ Quiet(s, RecoverRootGenerating(s))
          /\ Quiet(s, RecoverAwaitingApproval(s))
          /\ Quiet(s, InterruptRunningTool(s))
      BY <2>1, FailClosedQuiet, RecoverChildQuiet, RecoverRootGeneratingQuiet,
         RecoverAwaitingApprovalQuiet, InterruptRunningToolQuiet
    <2> QED
      BY <1>1, <1>3, <2>2 DEF RecoverStartup, Phases
  <1> QED
    BY <1>2, <1>3

\* saving and loading keep the calls
LEMMA LoadedType ==
    ASSUME NEW d \in Session
    PROVE  Loaded(d) \in State /\ Loaded(d).invs = d.invs
  BY DEF Loaded, Session, State

LEMMA SessionOfType ==
    ASSUME NEW s \in State
    PROVE  SessionOf(s) \in Session /\ SessionOf(s).invs = s.invs
  BY DEF SessionOf, Session, State

LEMMA EmptySessionType ==
    /\ EmptySession \in Session
    /\ \A i \in Inv : EmptySession.invs[i].approval = "Absent"
  BY DEF EmptySession, Session, NoRunRecord, RunRecord, NoInvRecord, InvRecord,
         NoOwner, Owner, Phases

-----------------------------------------------------------------------------
(* The host.                                                               *)

IsApproved(s, i) == s.invs[i].approval = "Approved"

\* a saved approval is never taken back
SavedApprovals == \A i \in Inv : IsApproved(disk, i) => IsApproved(st, i)

\* an effect that starts tools is alone in the queue, and the save is in front of it
\* or done
QueuedTools ==
    \A k \in 1..Len(pend) : pend[k].kind = "ExecuteTools" =>
        /\ \/ pend[1].kind = "PersistSession"
           \/ \A i \in pend[k].ids : IsApproved(disk, i)
        /\ \A i \in pend[k].ids : /\ IsApproved(st, i)
                                  /\ tools[i] = "idle"
                                  /\ execs[i] = 0
        /\ \A l \in 1..Len(pend) : pend[l].kind = "ExecuteTools" => l = k

SpawnedTools ==
    \A i \in Inv :
        /\ tools[i] # "idle" => IsApproved(disk, i)
        /\ tools[i] = "spawned" => execs[i] = 0
        /\ execs[i] # 0 => execs[i] = 1 /\ IsApproved(disk, i)

IInv == TypeOK /\ SavedApprovals /\ QueuedTools /\ SpawnedTools

-----------------------------------------------------------------------------
\* Every message the host handles gives a guarded result of the reducer

LEMMA IdsAreUsed ==
    ASSUME NEW s \in State, NEW i \in Inv, IsApproved(s, i)
    PROVE  s.invs[i].run \in Run /\ s.invs[i].tool \in Tool
PROOF
  <1>1. s.invs[i] \in InvRecord /\ s.invs[i] # NoInvRecord
    BY DEF State, IsApproved, NoInvRecord
  <1> QED
    BY <1>1 DEF InvRecord

LEMMA DispatchIsGuarded ==
    ASSUME TypeOK, NEW m \in Message, Dispatch(m)
    PROVE  \E res : Guarded(st, res) /\ Handle(res)
PROOF
  <1>1. st \in State
    BY DEF TypeOK
  <1>2. /\ m.kind \in {"Chunk", "ToolCall", "AssistantDone", "AssistantFailed", "ToolFinished"}
        /\ m.run \in Run
        /\ m.tool \in Tool \cup {Unknown}
        /\ m.kind = "ToolFinished" => /\ m.inv \in Inv
                                      /\ m.outcome \in {"ok", "error", "inaccessible"}
    BY DEF Message
  <1>3. CASE m.kind = "Chunk"
    <2>1. PICK due \in BOOLEAN : Handle(AssistantChunk(st, m.run, due))
      BY <1>3 DEF Dispatch
    <2> QED
      BY <1>1, <1>2, <2>1, AssistantChunkQuiet, QuietIsGuarded
  <1>4. CASE m.kind = "ToolCall" /\ m.tool = Unknown
    <2>1. Handle(UnsupportedToolCall(st, m.run))
      BY <1>4 DEF Dispatch
    <2> QED
      BY <1>1, <1>2, <2>1, UnsupportedToolCallQuiet, QuietIsGuarded
  <1>5. CASE m.kind = "ToolCall" /\ m.tool # Unknown
    <2>1. PICK i \in Inv : NextInv(i) /\ Handle(AssistantToolCall(st, m.run, m.tool, i))
      BY <1>5 DEF Dispatch
    <2>2. Guarded(st, AssistantToolCall(st, m.run, m.tool, i))
      BY <1>1, <1>2, <1>5, <2>1, AssistantToolCallGuarded DEF NextInv
    <2> QED
      BY <2>1, <2>2
  <1>6. CASE m.kind = "AssistantDone"
    <2>1. Handle(AssistantEnded(st, m.run, "Completed"))
      BY <1>6 DEF Dispatch
    <2> QED
      BY <1>1, <1>2, <2>1, AssistantEndedQuiet, QuietIsGuarded
  <1>7. CASE m.kind = "AssistantFailed"
    <2>1. Handle(AssistantEnded(st, m.run, "Failed"))
      BY <1>7 DEF Dispatch
    <2> QED
      BY <1>1, <1>2, <2>1, AssistantEndedQuiet, QuietIsGuarded
  <1>8. CASE m.kind = "ToolFinished"
    <2>1. Handle(ToolExecutionFinished(st, m.run, m.inv, m.outcome))
      BY <1>8 DEF Dispatch
    <2> QED
      BY <1>1, <1>2, <1>8, <2>1, ToolExecutionFinishedQuiet, QuietIsGuarded
  <1> QED
    BY <1>2, <1>3, <1>4, <1>5, <1>6, <1>7, <1>8

LEMMA UserIsGuarded ==
    ASSUME TypeOK, User
    PROVE  \E res : Guarded(st, res) /\ Handle(res)
PROOF
  <1>1. st \in State
    BY DEF TypeOK
  <1>2. CASE UserSubmits
    BY <1>1, <1>2, SubmitPromptQuiet, QuietIsGuarded DEF UserSubmits
  <1>3. CASE UserReplies
    <2>1. CASE Handle(DenyPending(st))
      BY <1>1, <2>1, DenyPendingGuarded
    <2>2. CASE \E reply \in Replies \cap {"Once", "Always"}, valid \in BOOLEAN, c \in Run :
                  Handle(ApprovePending(st, reply, valid, c))
      BY <1>1, <2>2, ApprovePendingGuarded
    <2>3. CASE \E i \in ReplyTargets(st) : Handle(RejectAlways(st, i))
      BY <1>1, <2>3, ReplyBatch, RejectAlwaysGuarded
    <2> QED
      BY <1>3, <2>1, <2>2, <2>3 DEF UserReplies
  <1>4. CASE UserCancels
    BY <1>1, <1>4, CancelActiveRunQuiet, QuietIsGuarded DEF UserCancels
  <1> QED
    BY <1>2, <1>3, <1>4 DEF User

\* handling a message keeps the invariant's gate parts
LEMMA HandleKeepsGate ==
    ASSUME IInv, NEW res, Guarded(st, res), Handle(res), UNCHANGED <<disk, tools, execs>>
    PROVE  /\ st' \in State /\ pend' \in Seq(Effect)
           /\ SavedApprovals' /\ QueuedTools' /\ SpawnedTools'
PROOF
  <1>1. st' = res.st /\ pend' = res.fx
    BY DEF Handle
  <1>2. st' \in State /\ pend' \in Seq(Effect)
    BY <1>1 DEF Guarded, Result
  <1>3. GateMoves(st, st')
    BY <1>1 DEF Guarded
  <1>4. \A i \in Inv : IsApproved(st, i) => IsApproved(st', i)
    BY <1>3 DEF GateMoves, SameApprovals, IsApproved
  <1>5. SavedApprovals'
    BY <1>4 DEF IInv, SavedApprovals, IsApproved
  <1>6. SpawnedTools'
    BY DEF IInv, SpawnedTools, IsApproved
  <1>7. \A k \in 1..Len(pend') : pend'[k].ids \subseteq Inv
    <2>1. \A k \in 1..Len(pend') : pend'[k] \in Effect
      BY <1>2, ElementOfSeq
    <2> QED
      BY <2>1 DEF Effect
  <1>8. \A i \in Inv : ~IsApproved(st, i) => tools[i] = "idle" /\ execs[i] = 0
    BY DEF IInv, SavedApprovals, SpawnedTools
  <1>9. QueuedTools'
    BY <1>1, <1>7, <1>8 DEF Guarded, ToolsGuarded, QueuedTools, IsApproved
  <1> QED
    BY <1>2, <1>5, <1>6, <1>9

-----------------------------------------------------------------------------
\* One lemma per group of actions: the step keeps the invariant

\* the queue loses its first effect, which was not one that starts tools
LEMMA TailKeepsQueue ==
    ASSUME IInv, pend # << >>, pend' = Tail(pend),
           Head(pend).kind # "PersistSession",
           UNCHANGED <<st, disk, execs>>,
           \A i \in Inv : tools[i] = "idle" => tools'[i] = "idle"
    PROVE  pend' \in Seq(Effect) /\ QueuedTools'
PROOF
  <1>1. pend \in Seq(Effect)
    BY DEF IInv, TypeOK
  <1>2. /\ pend' \in Seq(Effect)
        /\ Len(pend') = Len(pend) - 1
        /\ \A k \in 1..Len(pend') : pend'[k] = pend[k + 1]
    BY <1>1, HeadTailProperties
  <1>3. Len(pend) \in Nat /\ pend[1].kind # "PersistSession"
    BY <1>1, LenProperties
  <1>4. \A k \in 1..Len(pend) : pend[k].ids \subseteq Inv
    <2>1. \A k \in 1..Len(pend) : pend[k] \in Effect
      BY <1>1, ElementOfSeq
    <2> QED
      BY <2>1 DEF Effect
  <1>5. ASSUME NEW k \in 1..Len(pend'), pend'[k].kind = "ExecuteTools"
        PROVE  /\ \A i \in pend'[k].ids : IsApproved(disk, i)'
               /\ \A i \in pend'[k].ids : /\ IsApproved(st, i)'
                                          /\ tools'[i] = "idle"
                                          /\ execs'[i] = 0
               /\ \A l \in 1..Len(pend') : pend'[l].kind = "ExecuteTools" => l = k
    <2>1. k + 1 \in 1..Len(pend) /\ pend'[k] = pend[k + 1]
      BY <1>2, <1>3
    <2>2. /\ \A i \in pend[k + 1].ids : IsApproved(disk, i)
          /\ \A i \in pend[k + 1].ids : /\ IsApproved(st, i)
                                        /\ tools[i] = "idle"
                                        /\ execs[i] = 0
          /\ \A l \in 1..Len(pend) : pend[l].kind = "ExecuteTools" => l = k + 1
      BY <1>3, <1>5, <2>1 DEF IInv, QueuedTools
    <2>3. ASSUME NEW l \in 1..Len(pend'), pend'[l].kind = "ExecuteTools"
          PROVE  l = k
      <3>1. l + 1 \in 1..Len(pend) /\ pend'[l] = pend[l + 1]
        BY <1>2, <1>3
      <3>2. l + 1 = k + 1
        BY <2>2, <2>3, <3>1
      <3> QED
        BY <3>2
    <2> QED
      BY <1>4, <2>1, <2>2, <2>3 DEF IsApproved
  <1> QED
    BY <1>2, <1>5 DEF QueuedTools

LEMMA SaveKeepsInv ==
    ASSUME IInv, ApplyPersistSession
    PROVE  IInv'
PROOF
  <1> USE DEF ApplyPersistSession, NextEffect
  <1>1. pend \in Seq(Effect) /\ st \in State /\ disk \in Session
    BY DEF IInv, TypeOK
  <1>2. disk' \in Session /\ disk'.invs = st.invs
    BY <1>1, SessionOfType
  <1>3. /\ pend' \in Seq(Effect)
        /\ Len(pend') = Len(pend) - 1
        /\ \A k \in 1..Len(pend') : pend'[k] = pend[k + 1]
    BY <1>1, HeadTailProperties
  <1>4. Len(pend) \in Nat
    BY <1>1, LenProperties
  <1>5. TypeOK'
    BY <1>2, <1>3 DEF IInv, TypeOK
  <1>6. SavedApprovals'
    BY <1>2 DEF SavedApprovals, IsApproved
  <1>7. SpawnedTools'
    BY <1>2 DEF IInv, SavedApprovals, SpawnedTools, IsApproved
  <1>8. ASSUME NEW k \in 1..Len(pend'), pend'[k].kind = "ExecuteTools"
        PROVE  /\ \A i \in pend'[k].ids : IsApproved(disk, i)'
               /\ \A i \in pend'[k].ids : /\ IsApproved(st, i)'
                                          /\ tools'[i] = "idle"
                                          /\ execs'[i] = 0
               /\ \A l \in 1..Len(pend') : pend'[l].kind = "ExecuteTools" => l = k
    <2>1. k + 1 \in 1..Len(pend) /\ pend'[k] = pend[k + 1]
      BY <1>3, <1>4
    <2>2. /\ \A i \in pend[k + 1].ids : /\ IsApproved(st, i)
                                        /\ tools[i] = "idle"
                                        /\ execs[i] = 0
          /\ \A l \in 1..Len(pend) : pend[l].kind = "ExecuteTools" => l = k + 1
      BY <1>8, <2>1 DEF IInv, QueuedTools
    <2>3. ASSUME NEW l \in 1..Len(pend'), pend'[l].kind = "ExecuteTools"
          PROVE  l = k
      <3>1. l + 1 \in 1..Len(pend) /\ pend'[l] = pend[l + 1]
        BY <1>3, <1>4
      <3>2. l + 1 = k + 1
        BY <2>2, <2>3, <3>1
      <3> QED
        BY <3>2
    <2> QED
      BY <1>2, <2>1, <2>2, <2>3 DEF IsApproved
  <1>9. QueuedTools'
    BY <1>8 DEF QueuedTools
  <1> QED
    BY <1>5, <1>6, <1>7, <1>9 DEF IInv

LEMMA FailedSaveKeepsInv ==
    ASSUME IInv, PersistSessionFails
    PROVE  IInv'
PROOF
  <1> USE DEF PersistSessionFails
  <1>1. TypeOK'
    BY DEF IInv, TypeOK
  <1>2. SavedApprovals' /\ SpawnedTools'
    BY DEF IInv, SavedApprovals, SpawnedTools, IsApproved
  <1>3. QueuedTools'
    BY DEF QueuedTools
  <1> QED
    BY <1>1, <1>2, <1>3 DEF IInv

LEMMA AssistantEffectsKeepInv ==
    ASSUME IInv, ApplyStartAssistant \/ ApplyCancelAssistant
    PROVE  IInv'
PROOF
  <1>1. CASE ApplyStartAssistant
    <2> USE <1>1 DEF ApplyStartAssistant, NextEffect
    <2>1. pend' \in Seq(Effect) /\ QueuedTools'
      BY TailKeepsQueue
    <2>2. TypeOK'
      BY <2>1 DEF IInv, TypeOK
    <2>3. SavedApprovals' /\ SpawnedTools'
      BY DEF IInv, SavedApprovals, SpawnedTools, IsApproved
    <2> QED
      BY <2>1, <2>2, <2>3 DEF IInv
  <1>2. CASE ApplyCancelAssistant
    <2> USE <1>2 DEF ApplyCancelAssistant, NextEffect
    <2>1. \A i \in Inv : tools'[i] \in {tools[i], "idle"}
      OBVIOUS
    <2>2. pend' \in Seq(Effect) /\ QueuedTools'
      BY <2>1, TailKeepsQueue
    <2>3. TypeOK'
      BY <2>2 DEF IInv, TypeOK
    <2>4. SavedApprovals' /\ SpawnedTools'
      BY <2>1 DEF IInv, SavedApprovals, SpawnedTools, IsApproved
    <2> QED
      BY <2>2, <2>3, <2>4 DEF IInv
  <1> QED
    BY <1>1, <1>2

LEMMA ExecuteToolKeepsInv ==
    ASSUME IInv, ApplyExecuteTool
    PROVE  IInv'
PROOF
  <1> DEFINE head == Head(pend)
  <1>1. PICK i \in head.ids :
             /\ tools' = [tools EXCEPT ![i] = "spawned"]
             /\ pend' = IF head.ids \ {i} = {} THEN Tail(pend)
                        ELSE <<ExecuteTools(head.ids \ {i})>> \o Tail(pend)
    BY DEF ApplyExecuteTool
  <1>2. pend # << >> /\ head.kind = "ExecuteTools" /\ UNCHANGED <<st, disk, chan, streams, execs, crashes>>
    BY DEF ApplyExecuteTool, NextEffect
  <1>3. pend \in Seq(Effect) /\ tools \in [Inv -> {"idle", "spawned", "executing"}]
    BY DEF IInv, TypeOK
  <1>4. /\ head = pend[1] /\ head \in Effect
        /\ Tail(pend) \in Seq(Effect)
        /\ Len(Tail(pend)) = Len(pend) - 1
        /\ \A k \in 1..Len(Tail(pend)) : Tail(pend)[k] = pend[k + 1]
        /\ Len(pend) \in Nat /\ 1 \in 1..Len(pend)
    BY <1>2, <1>3, HeadTailProperties, LenProperties, EmptySeq
  <1>5. i \in Inv /\ head.ids \in SUBSET Inv
    BY <1>4 DEF Effect
  <1>6. /\ \A j \in head.ids : /\ IsApproved(disk, j)
                              /\ IsApproved(st, j)
                              /\ tools[j] = "idle"
                              /\ execs[j] = 0
        /\ \A l \in 1..Len(pend) : pend[l].kind = "ExecuteTools" => l = 1
    BY <1>2, <1>4 DEF IInv, QueuedTools
  <1>7. \A k \in 1..Len(Tail(pend)) : Tail(pend)[k].kind # "ExecuteTools"
    <2>1. ASSUME NEW k \in 1..Len(Tail(pend)), Tail(pend)[k].kind = "ExecuteTools"
          PROVE  FALSE
      <3>1. k + 1 \in 1..Len(pend) /\ Tail(pend)[k] = pend[k + 1]
        BY <1>4
      <3>2. k + 1 = 1
        BY <1>6, <2>1, <3>1
      <3> QED
        BY <3>2
    <2> QED
      BY <2>1
  <1>8. SpawnedTools'
    BY <1>1, <1>2, <1>3, <1>5, <1>6 DEF IInv, SpawnedTools, IsApproved
  <1>9. SavedApprovals'
    BY <1>2 DEF IInv, SavedApprovals, IsApproved
  <1>10. pend' \in Seq(Effect) /\ QueuedTools'
    <2>1. CASE head.ids \ {i} = {}
      BY <1>1, <1>4, <1>7, <2>1 DEF QueuedTools
    <2>2. CASE head.ids \ {i} # {}
      <3> DEFINE e == ExecuteTools(head.ids \ {i})
      <3>1. e \in Effect /\ e.kind = "ExecuteTools" /\ e.ids = head.ids \ {i}
        BY <1>5, SaveAndToolTypes DEF ExecuteTools
      <3> HIDE DEF e, head
      <3>2. pend' = <<e>> \o Tail(pend)
        BY <1>1, <2>2 DEF e
      <3>3. <<e>> \in Seq(Effect) /\ Len(<<e>>) = 1 /\ <<e>>[1] = e
        BY <3>1
      <3>4. /\ pend' \in Seq(Effect)
            /\ Len(pend') = 1 + Len(Tail(pend))
            /\ \A k \in 1..Len(pend') : pend'[k] = IF k <= 1 THEN e ELSE Tail(pend)[k - 1]
        BY <1>4, <3>2, <3>3, ConcatProperties
      <3>5. \A k \in 1..Len(pend') : pend'[k].kind = "ExecuteTools" => k = 1
        BY <1>4, <1>7, <3>4
      <3>6. pend'[1] = e
        BY <1>4, <3>4
      <3>7. \A j \in e.ids : /\ IsApproved(disk, j)'
                            /\ IsApproved(st, j)'
                            /\ tools'[j] = "idle"
                            /\ execs'[j] = 0
        BY <1>1, <1>2, <1>3, <1>5, <1>6, <3>1 DEF IsApproved
      <3> QED
        BY <3>4, <3>5, <3>6, <3>7 DEF QueuedTools
    <2> QED
      BY <2>1, <2>2
  <1>11. TypeOK'
    BY <1>1, <1>2, <1>3, <1>10 DEF IInv, TypeOK
  <1> QED
    BY <1>8, <1>9, <1>10, <1>11 DEF IInv

LEMMA MessageTypes ==
    ASSUME NEW r \in Run, NEW tool \in Tool \cup {Unknown},
           NEW kind \in {"Chunk", "ToolCall", "AssistantDone", "AssistantFailed"}
    PROVE  StreamMessage(kind, r, tool) \in Message
  BY DEF StreamMessage, Message

LEMMA StreamKeepsInv ==
    ASSUME IInv, NEW r \in Run, Stream(r)
    PROVE  IInv'
PROOF
  <1>1. TaskTool \in Tool \cup {Unknown} /\ ProviderTools \subseteq Tool \cup {Unknown}
    BY HostAssumption DEF Tool
  <1>2. chan \in Seq(Message) /\ streams \in [Run -> {"none", "open", "called"}]
    BY DEF IInv, TypeOK
  <1>3. UNCHANGED <<st, disk, pend, tools, execs, crashes>>
    BY DEF Stream, StreamEmitsText, StreamCallsTool, StreamEnds, StreamFails
  <1>4. chan' \in Seq(Message) /\ streams' \in [Run -> {"none", "open", "called"}]
    <2>1. ASSUME NEW m \in Message
          PROVE  Append(chan, m) \in Seq(Message)
      BY <1>2, AppendProperties
    <2>2. CASE StreamEmitsText(r)
      BY <1>1, <1>2, <2>1, <2>2, MessageTypes DEF StreamEmitsText, Send
    <2>3. CASE StreamCallsTool(r)
      BY <1>1, <1>2, <2>1, <2>3, MessageTypes DEF StreamCallsTool, Send
    <2>4. CASE StreamEnds(r)
      BY <1>1, <1>2, <2>1, <2>4, MessageTypes DEF StreamEnds, Send
    <2>5. CASE StreamFails(r)
      BY <1>1, <1>2, <2>1, <2>5, MessageTypes DEF StreamFails, Send
    <2> QED
      BY <2>2, <2>3, <2>4, <2>5 DEF Stream
  <1>5. TypeOK'
    BY <1>3, <1>4 DEF IInv, TypeOK
  <1> QED
    BY <1>3, <1>5 DEF IInv, SavedApprovals, QueuedTools, SpawnedTools, IsApproved

LEMMA ToolTaskKeepsInv ==
    ASSUME IInv, NEW i \in Inv, ToolTask(i)
    PROVE  IInv'
PROOF
  <1>1. /\ tools \in [Inv -> {"idle", "spawned", "executing"}]
        /\ execs \in [Inv -> Nat]
        /\ pend \in Seq(Effect) /\ chan \in Seq(Message) /\ st \in State
    BY DEF IInv, TypeOK
  <1>2. UNCHANGED <<st, disk, pend, streams, crashes>>
    BY DEF ToolTask, ToolStarts, ToolFinishes
  <1>3. tools[i] # "idle" /\ IsApproved(disk, i) /\ IsApproved(st, i)
    BY DEF ToolTask, ToolStarts, ToolFinishes, IInv, SpawnedTools, SavedApprovals
  <1>4. \A j \in Inv : j # i => tools'[j] = tools[j] /\ execs'[j] = execs[j]
    BY <1>1 DEF ToolTask, ToolStarts, ToolFinishes
  <1>5. SavedApprovals'
    BY <1>2 DEF IInv, SavedApprovals, IsApproved
  <1>6. QueuedTools'
    <2>1. \A k \in 1..Len(pend) : pend[k].ids \subseteq Inv
      <3>1. \A k \in 1..Len(pend) : pend[k] \in Effect
        BY <1>1, ElementOfSeq
      <3> QED
        BY <3>1 DEF Effect
    <2> QED
      BY <1>2, <1>3, <1>4, <2>1 DEF IInv, QueuedTools, IsApproved
  <1>7. SpawnedTools'
    <2>1. CASE ToolStarts(i)
      <3>1. tools' = [tools EXCEPT ![i] = "executing"] /\ execs' = [execs EXCEPT ![i] = @ + 1]
        BY <2>1 DEF ToolStarts
      <3>2. execs[i] = 0
        BY <2>1 DEF ToolStarts, IInv, SpawnedTools
      <3> QED
        BY <1>1, <1>2, <1>3, <3>1, <3>2 DEF IInv, SpawnedTools, IsApproved
    <2>2. CASE ToolFinishes(i)
      BY <1>1, <1>2, <2>2 DEF ToolFinishes, IInv, SpawnedTools, IsApproved
    <2> QED
      BY <2>1, <2>2 DEF ToolTask
  <1>8. TypeOK'
    <2>1. CASE ToolStarts(i)
      BY <1>1, <2>1 DEF ToolStarts, IInv, TypeOK
    <2>2. CASE ToolFinishes(i)
      <3>1. PICK outcome \in Outcomes : chan' = Append(chan, ToolMessage(st.invs[i].run, i, outcome))
        BY <2>2 DEF ToolFinishes, Send
      <3>2. st.invs[i].run \in Run /\ st.invs[i].tool \in Tool
        BY <1>1, <1>3, IdsAreUsed
      <3>3. ToolMessage(st.invs[i].run, i, outcome) \in Message
        BY <3>2, HostAssumption DEF ToolMessage, Message
      <3>4. chan' \in Seq(Message)
        BY <1>1, <3>1, <3>3, AppendProperties
      <3> QED
        BY <2>2, <3>4 DEF ToolFinishes, IInv, TypeOK
    <2> QED
      BY <2>1, <2>2 DEF ToolTask
  <1> QED
    BY <1>5, <1>6, <1>7, <1>8 DEF IInv

LEMMA CrashKeepsInv ==
    ASSUME IInv, CrashAndRestart
    PROVE  IInv' /\ \A i \in Inv : st'.invs[i].approval = disk.invs[i].approval
PROOF
  <1> DEFINE res == RecoverStartup(Loaded(disk))
  <1>1. st' = res.st /\ pend' = res.fx
    BY DEF CrashAndRestart, Handle
  <1>2. disk \in Session
    BY DEF IInv, TypeOK
  <1>3. Quiet(Loaded(disk), res)
    BY <1>2, LoadedType, RecoverStartupQuiet
  <1>4. \A i \in Inv : st'.invs[i].approval = disk.invs[i].approval
    BY <1>1, <1>2, <1>3, LoadedType DEF Quiet, SameApprovals
  <1>5. st' \in State /\ pend' \in Seq(Effect)
    BY <1>1, <1>3 DEF Quiet, Result
  <1>6. QueuedTools'
    BY <1>1, <1>3 DEF Quiet, NoTools, QueuedTools
  <1>7. SavedApprovals' /\ SpawnedTools'
    BY <1>4 DEF CrashAndRestart, IInv, SavedApprovals, SpawnedTools, IsApproved
  <1>8. TypeOK'
    <2>1. crashes' \in 0..MaxCrashes
      BY HostAssumption DEF CrashAndRestart, IInv, TypeOK
    <2> QED
      BY <1>5, <2>1 DEF CrashAndRestart, IInv, TypeOK
  <1> QED
    BY <1>4, <1>6, <1>7, <1>8 DEF IInv

-----------------------------------------------------------------------------
\* The invariant is inductive

LEMMA InitInv == Init => IInv
PROOF
  <1> SUFFICES ASSUME Init PROVE IInv
    OBVIOUS
  <1>1. Loaded(EmptySession) \in State /\ EmptySession \in Session
    BY EmptySessionType, LoadedType
  <1>2. TypeOK
    BY <1>1, HostAssumption DEF Init, TypeOK
  <1>3. SavedApprovals
    BY EmptySessionType DEF Init, SavedApprovals, IsApproved
  <1>4. QueuedTools /\ SpawnedTools
    BY DEF Init, QueuedTools, SpawnedTools
  <1> QED
    BY <1>2, <1>3, <1>4 DEF IInv

LEMMA HandledMessageKeepsInv ==
    ASSUME IInv, User \/ HostHandlesMessage
    PROVE  IInv' /\ GateMoves(st, st') /\ UNCHANGED <<disk, execs>>
PROOF
  <1>1. UNCHANGED <<disk, streams, tools, execs, crashes>>
    BY DEF User, UserSubmits, UserReplies, UserCancels, HostHandlesMessage
  <1>2. TypeOK /\ chan \in Seq(Message)
    BY DEF IInv, TypeOK
  <1>3. \E res : Guarded(st, res) /\ Handle(res)
    <2>1. CASE User
      BY <1>2, <2>1, UserIsGuarded
    <2>2. CASE HostHandlesMessage
      <3>1. Head(chan) \in Message /\ Dispatch(Head(chan))
        BY <1>2, <2>2, HeadTailProperties DEF HostHandlesMessage
      <3> QED
        BY <1>2, <3>1, DispatchIsGuarded
    <2> QED
      BY <2>1, <2>2
  <1>4. chan' \in Seq(Message)
    <2>1. CASE User
      BY <1>2, <2>1 DEF User, UserSubmits, UserReplies, UserCancels
    <2>2. CASE HostHandlesMessage
      BY <1>2, <2>2, HeadTailProperties DEF HostHandlesMessage
    <2> QED
      BY <2>1, <2>2
  <1>5. PICK res : Guarded(st, res) /\ Handle(res)
    BY <1>3
  <1>6. /\ st' \in State /\ pend' \in Seq(Effect)
        /\ SavedApprovals' /\ QueuedTools' /\ SpawnedTools'
    BY <1>1, <1>5, HandleKeepsGate
  <1>7. TypeOK'
    BY <1>1, <1>2, <1>4, <1>6 DEF TypeOK
  <1>8. GateMoves(st, st')
    BY <1>5 DEF Guarded, Handle
  <1> QED
    BY <1>1, <1>6, <1>7, <1>8 DEF IInv

LEMMA StepKeepsInv == IInv /\ [Next]_vars => IInv'
PROOF
  <1> SUFFICES ASSUME IInv, [Next]_vars PROVE IInv'
    OBVIOUS
  <1>1. CASE User \/ HostHandlesMessage
    BY <1>1, HandledMessageKeepsInv
  <1>2. CASE ApplyPersistSession
    BY <1>2, SaveKeepsInv
  <1>3. CASE PersistSessionFails
    BY <1>3, FailedSaveKeepsInv
  <1>4. CASE ApplyStartAssistant \/ ApplyCancelAssistant
    BY <1>4, AssistantEffectsKeepInv
  <1>5. CASE ApplyExecuteTool
    BY <1>5, ExecuteToolKeepsInv
  <1>6. CASE \E r \in Run : Stream(r)
    BY <1>6, StreamKeepsInv
  <1>7. CASE \E i \in Inv : ToolTask(i)
    BY <1>7, ToolTaskKeepsInv
  <1>8. CASE CrashAndRestart
    BY <1>8, CrashKeepsInv
  <1>9. CASE UNCHANGED vars
    BY <1>9 DEF vars, IInv, TypeOK, SavedApprovals, QueuedTools, SpawnedTools, IsApproved
  <1> QED
    BY <1>1, <1>2, <1>3, <1>4, <1>5, <1>6, <1>7, <1>8, <1>9 DEF Next, Host

LEMMA InvariantHolds == Spec => []IInv
  BY InitInv, StepKeepsInv, PTL DEF Spec

-----------------------------------------------------------------------------
\* The state, the saved session, the queued effects and the messages in the channel
\* are well typed, whatever the order in which users, streams, tools, failing saves
\* and crashes act: every handler of update returns an AppState whose links exist
\* (a child names a parent run and a call, a call names its run).
THEOREM TypeCorrect == Spec => []TypeOK
  BY InvariantHolds, PTL DEF IInv

\* A tool that ever started has an approved call in memory and on disk, and started
\* exactly once, for any number of runs, calls and crashes (apply_effects,
\* recover_startup_foreground, ToolExecutorRegistry).
THEOREM ToolsRunOnceApproved == Spec => []RunsOnceApproved
PROOF
  <1>1. IInv => RunsOnceApproved
    <2> SUFFICES ASSUME IInv, NEW i \in Inv, execs[i] > 0
                 PROVE  /\ execs[i] = 1
                        /\ st.invs[i].approval = "Approved"
                        /\ disk.invs[i].approval = "Approved"
      BY DEF RunsOnceApproved
    <2>1. execs[i] # 0
      BY DEF IInv, TypeOK
    <2> QED
      BY <2>1 DEF IInv, SpawnedTools, SavedApprovals, IsApproved
  <1> QED
    BY <1>1, InvariantHolds, PTL

-----------------------------------------------------------------------------
\* Refinement

LEMMA GateStart == Init => Gate!GateInit
  BY EmptySessionType, LoadedType DEF Init, Gate!GateInit

\* a handled message requests a call, decides a batch, or does not touch the gate
LEMMA HandledMessageMovesGate ==
    ASSUME GateMoves(st, st'), UNCHANGED <<disk, execs>>
    PROVE  [Gate!GateNext]_(Gate!gateVars)
PROOF
  <1>1. CASE SameApprovals(st, st')
    BY <1>1 DEF SameApprovals, Gate!gateVars
  <1>2. CASE \E i \in Inv, g \in {"Pending", "Approved", "Denied"} :
               /\ st.invs[i].approval = "Absent"
               /\ \A j \in Inv : st'.invs[j].approval = IF j = i THEN g ELSE st.invs[j].approval
    <2>1. PICK i \in Inv, g \in {"Pending", "Approved", "Denied"} :
               /\ st.invs[i].approval = "Absent"
               /\ \A j \in Inv : st'.invs[j].approval = IF j = i THEN g ELSE st.invs[j].approval
      BY <1>2
    <2>2. Gate!Request(i, g)
      BY <2>1 DEF Gate!Request
    <2> QED
      BY <2>2 DEF Gate!GateNext, Gate!Gate, Gate!Verdict
  <1>3. CASE \E B \in SUBSET Inv, v \in {"Approved", "Denied"} :
               /\ \A i \in B : st.invs[i].approval = "Pending"
               /\ \A j \in Inv : st'.invs[j].approval = IF j \in B THEN v ELSE st.invs[j].approval
    <2>1. PICK B \in SUBSET Inv, v \in {"Approved", "Denied"} :
               /\ \A i \in B : st.invs[i].approval = "Pending"
               /\ \A j \in Inv : st'.invs[j].approval = IF j \in B THEN v ELSE st.invs[j].approval
      BY <1>3
    <2>2. Gate!Decide(B, v)
      BY <2>1 DEF Gate!Decide
    <2> QED
      BY <2>2 DEF Gate!GateNext, Gate!Verdict
  <1> QED
    BY <1>1, <1>2, <1>3 DEF GateMoves

LEMMA GateStep == IInv /\ [Next]_vars => [Gate!GateNext]_(Gate!gateVars)
PROOF
  <1> SUFFICES ASSUME IInv, [Next]_vars PROVE [Gate!GateNext]_(Gate!gateVars)
    OBVIOUS
  <1>1. CASE User \/ HostHandlesMessage
    BY <1>1, HandledMessageKeepsInv, HandledMessageMovesGate
  <1>2. CASE ApplyPersistSession
    <2>1. UNCHANGED <<st, execs>> /\ disk'.invs = st.invs
      BY <1>2, SessionOfType DEF ApplyPersistSession, IInv, TypeOK
    <2>2. Gate!Save
      BY <2>1 DEF Gate!Save
    <2> QED
      BY <2>2 DEF Gate!GateNext
  <1>3. CASE UNCHANGED <<st, disk, execs>>
    BY <1>3 DEF Gate!gateVars
  <1>4. CASE \E i \in Inv : ToolStarts(i)
    <2>1. PICK i \in Inv : ToolStarts(i)
      BY <1>4
    <2>2. IsApproved(disk, i) /\ execs[i] = 0 /\ execs \in [Inv -> Nat]
      BY <2>1 DEF ToolStarts, IInv, SpawnedTools, TypeOK
    <2>3. UNCHANGED <<st, disk>> /\ execs' = [execs EXCEPT ![i] = 1]
      BY <2>1, <2>2 DEF ToolStarts
    <2>4. Gate!RunCall(i)
      BY <2>2, <2>3 DEF Gate!RunCall, IsApproved
    <2> QED
      BY <2>4 DEF Gate!GateNext
  <1>5. CASE CrashAndRestart
    <2>1. \A i \in Inv : st'.invs[i].approval = disk.invs[i].approval
      BY <1>5, CrashKeepsInv
    <2>2. Gate!Restart
      BY <1>5, <2>1 DEF Gate!Restart, CrashAndRestart
    <2> QED
      BY <2>2 DEF Gate!GateNext
  <1>6. CASE \/ PersistSessionFails \/ ApplyStartAssistant \/ ApplyCancelAssistant
             \/ ApplyExecuteTool \/ (\E r \in Run : Stream(r))
             \/ (\E i \in Inv : ToolFinishes(i)) \/ UNCHANGED vars
    <2>1. UNCHANGED <<st, disk, execs>>
      BY <1>6 DEF PersistSessionFails, ApplyStartAssistant, ApplyCancelAssistant,
                  ApplyExecuteTool, Stream, StreamEmitsText, StreamCallsTool, StreamEnds,
                  StreamFails, ToolFinishes, vars
    <2> QED
      BY <1>3, <2>1
  <1> QED
    BY <1>1, <1>2, <1>4, <1>5, <1>6 DEF Next, Host, ToolTask

\* The host, the reducer and the runtime implement the permission gate: a tool runs
\* at most once, after its approval was saved, and no restart, failed save, late
\* message or second reply changes a saved verdict.
THEOREM GateRefinement == Spec => GateImplemented
PROOF
  <1>1. Spec => Gate!GateInit /\ [][Gate!GateNext]_(Gate!gateVars)
    BY GateStart, GateStep, InvariantHolds, PTL DEF Spec
  <1> QED
    BY <1>1 DEF GateImplemented, Gate!GateSpec
================================================================================
