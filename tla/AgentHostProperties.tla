-------------------------- MODULE AgentHostProperties --------------------------
(***************************************************************************)
(* What SharedAppHost and the reducer must guarantee, and the fairness the *)
(* liveness property assumes.  TypeOK is in AgentHost.                     *)
(***************************************************************************)
EXTENDS AgentHost

-----------------------------------------------------------------------------
\* The permission gate

Gate == INSTANCE ToolGate WITH
            Call  <- Inv,
            gate  <- [i \in Inv |-> st.invs[i].approval],
            saved <- [i \in Inv |-> disk.invs[i].approval],
            runs  <- execs

\* The reducer, the effect loop and the runtime implement the permission gate: a
\* tool starts only when its call was approved (by the user, by a remembered rule
\* or by the tool's own default) and that approval is in the saved session; it
\* starts at most once, crashes and failed saves included; a verdict never changes
\* once it is saved.
GateImplemented == Gate!GateSpec

\* A tool that ever started has an approved call, in memory and in the saved
\* session, and has started once: recovery never runs an interrupted call again.
RunsOnceApproved ==
    \A i \in Inv : execs[i] > 0 =>
        /\ execs[i] = 1
        /\ st.invs[i].approval = "Approved"
        /\ disk.invs[i].approval = "Approved"

-----------------------------------------------------------------------------
\* The foreground: the one run the session works on

Settled(r) == st.runs[r].status \in Terminal

OwnerIsLive(d) == d.owner.run # NoRun => d.runs[d.owner.run].status = "InProgress"

\* Whenever the host is between two messages, the active run is the persisted
\* foreground owner and is in progress, and every session that ever reaches the
\* disk has an owner that is in progress: recover_from_foreground_owner's first
\* check never has to fail closed.
ForegroundIsLive ==
    /\ HostIdle /\ st.active # NoRun =>
          /\ st.owner.run = st.active
          /\ st.runs[st.active].status = "InProgress"
    /\ OwnerIsLive(disk)

\* A foreground that waits for the user's permission has a batch the reply applies
\* to, in memory and in every saved session: no prompt is on screen that no answer
\* can clear, whatever calls, results and chunks arrived in between.
AwaitingIsAnswerable ==
    /\ /\ HostIdle
       /\ st.active # NoRun
       /\ st.owner.phase = "AwaitingToolApproval"
       => ReplyTargets(st) # {}
    /\ /\ disk.owner.run # NoRun
       /\ disk.owner.phase = "AwaitingToolApproval"
       => PendingIn(disk, disk.owner.run, disk.owner.anchor) # {}

\* Every run in progress is the foreground or delegated to it: ending a run never
\* leaves another one, or itself, in progress with nobody to finish it.  (A restart
\* may fail closed and give up a run, so the property is about the first life.)
NoStrandedRun ==
    HostIdle /\ crashes = 0 =>
        \A r \in Run : st.runs[r].status = "InProgress" =>
            \/ r = st.active
            \/ st.active # NoRun /\ st.runs[st.active].parent = r

TurnsOf(s, r) == Cardinality({k \in DOMAIN s.turns : s.turns[k].run = r})

\* Until the process dies, nothing that is still under way when a run ends (its
\* stream, its tools, messages already in the channel, a reply of the user) changes
\* the run's record, its calls or its turns: the "ignored stale ..." returns of
\* update cover every late message.
SettledRunsAreFrozen ==
    [][\A r \in Run : Settled(r) /\ crashes' = crashes =>
          /\ st'.runs[r] = st.runs[r]
          /\ TurnsOf(st', r) = TurnsOf(st, r)
          /\ \A i \in Inv : st.invs[i].run = r => st'.invs[i] = st.invs[i]]_vars

\* Whatever was on disk when the process died, recovering from it, saving and dying
\* again recovers the same session and the same foreground: recovery may itself be
\* interrupted by a crash.
RecoveryIsIdempotent ==
    LET once == RecoverStartup(Loaded(disk)).st
        twice == RecoverStartup(Loaded(SessionOf(once))).st
    IN  /\ SessionOf(twice) = SessionOf(once)
        /\ twice.active = once.active

-----------------------------------------------------------------------------
\* Progress

AwaitsUser(r) == st.active = r /\ st.owner.phase = "AwaitingToolApproval"

\* The host loop drains the channel and applies effects, a provider stream ends or
\* fails, a started tool task returns.  The user owes nothing.
Fairness ==
    /\ WF_vars(Host)
    /\ \A r \in Run : WF_vars(StreamEnds(r) \/ StreamFails(r))
    /\ \A i \in Inv : WF_vars(ToolTask(i))

FairSpec == Spec /\ Fairness

\* A submitted prompt is never left hanging: the active run ends, or it asks the
\* user for a permission.
RunSettles == \A r \in Run : st.active = r ~> (st.active # r \/ AwaitsUser(r))

-----------------------------------------------------------------------------
\* Delegation

\* Parent and child records stay linked both ways: a child run names an approved
\* `task` call of its parent, and that call names the child.  Startup recovery
\* refuses a session where they do not (validate_interrupted_task_invocation).
DelegationIsLinked ==
    \A c \in Run : IsChild(st, c) =>
        LET i == st.runs[c].task
        IN  /\ i \in Inv
            /\ st.invs[i].child = c
            /\ st.invs[i].run = st.runs[c].parent
            /\ st.invs[i].tool = TaskTool
            /\ st.invs[i].approval = "Approved"

NoCallFailed(c) == \A i \in Inv : st.invs[i].run = c => st.invs[i].exec # "Failed"

\* The parent's `task` call shows what became of the child: running while the child
\* runs, and the child's own end once it has ended, so that no parent waits for a
\* child that is gone.  It is stated for a process that never died and a child none
\* of whose own calls failed: a failed call and a recovery end a child without
\* telling its parent.
TaskMirrorsChild ==
    \A c \in Run : (IsChild(st, c) /\ crashes = 0 /\ NoCallFailed(c)) =>
        st.invs[st.runs[c].task].deleg =
            IF Settled(c) THEN st.runs[c].status ELSE "Running"
=============================================================================
