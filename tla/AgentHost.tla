------------------------------ MODULE AgentHost ------------------------------
(***************************************************************************)
(* SharedAppHost (fluent-code-app/src/host/mod.rs) driving the reducer:    *)
(* one message at a time, its effects applied in order, while the tasks    *)
(* the runtime (runtime/orchestrator.rs) spawned for assistant streams and *)
(* tools run concurrently and answer through an unbounded FIFO channel.    *)
(* The process may be killed between any two steps and recovers from the   *)
(* last saved session.                                                     *)
(***************************************************************************)
EXTENDS Reducer

CONSTANTS
    MaxTurns,      \* bound: text turns the provider may still add
    MaxChan,       \* bound: messages waiting in the channel when a stream adds a delta or call
    MaxCrashes,    \* bound: process crashes
    Outcomes,      \* outcomes a tool can have: subset of {"ok", "error", "inaccessible"}
    ProviderTools, \* what the provider may call; may include Unknown
    Replies,       \* replies the user gives: subset of {"Once", "Always", "Deny", "RejectAlways"}
    StoreMayFail   \* whether FsSessionStore::save can return an error

Unknown == "unsupported"

ASSUME HostAssumption ==
    /\ MaxTurns \in Nat /\ MaxChan \in Nat /\ MaxCrashes \in Nat
    /\ Outcomes \subseteq {"ok", "error", "inaccessible"}
    /\ ProviderTools \subseteq Tool \cup {Unknown}
    /\ Unknown \notin Tool
    /\ Replies \subseteq {"Once", "Always", "Deny", "RejectAlways"}
    /\ StoreMayFail \in BOOLEAN

VARIABLES
    st,         \* AppState
    disk,       \* the session as last saved
    pend,       \* effects of the current message not applied yet
    chan,       \* the runtime channel
    streams,    \* the assistant task of each run
    tools,      \* the tool task of each invocation
    execs,      \* history: how often each invocation's tool started, ever
    crashes

vars == <<st, disk, pend, chan, streams, tools, execs, crashes>>

Message ==
    [kind : {"Chunk", "ToolCall", "AssistantDone", "AssistantFailed"},
     run : Run, tool : Tool \cup {Unknown}, inv : {0}, outcome : {"ok"}]
    \cup
    [kind : {"ToolFinished"},
     run : Run, tool : Tool, inv : Inv, outcome : {"ok", "error", "inaccessible"}]

StreamMessage(kind, r, tool) ==
    [kind |-> kind, run |-> r, tool |-> tool, inv |-> 0, outcome |-> "ok"]

ToolMessage(r, i, outcome) ==
    [kind |-> "ToolFinished", run |-> r, tool |-> st.invs[i].tool, inv |-> i,
     outcome |-> outcome]

TypeOK ==
    /\ st \in State
    /\ disk \in Session
    /\ pend \in Seq(Effect)
    /\ chan \in Seq(Message)
    /\ streams \in [Run -> {"none", "open", "called"}]
    /\ tools \in [Inv -> {"idle", "spawned", "executing"}]
    /\ execs \in [Inv -> Nat]
    /\ crashes \in 0..MaxCrashes

Init ==
    /\ st = Loaded(EmptySession)
    /\ disk = EmptySession
    /\ pend = << >>
    /\ chan = << >>
    /\ streams = [r \in Run |-> "none"]
    /\ tools = [i \in Inv |-> "idle"]
    /\ execs = [i \in Inv |-> 0]
    /\ crashes = 0

-----------------------------------------------------------------------------
\* ids not in use

Fresh(r) == st.runs[r].status = "Absent"

NextInv(i) ==
    /\ st.invs[i].approval = "Absent"
    /\ \A j \in Inv : j < i => st.invs[j].approval # "Absent"

Waiting(kind) == {k \in DOMAIN chan : chan[k].kind = kind}

-----------------------------------------------------------------------------
\* handle_message: update the state; its effects are applied one by one below

Handle(result) ==
    /\ st' = result.st
    /\ pend' = result.fx

HostIdle == pend = << >>

UserSubmits ==
    /\ HostIdle
    /\ st.status \in {"Idle", "Error"}
    /\ \E r \in Run : Fresh(r) /\ Handle(SubmitPrompt(st, r))
    /\ UNCHANGED <<disk, chan, streams, tools, execs, crashes>>

UserReplies ==
    /\ HostIdle
    /\ ReplyTargets(st) # {}
    /\ \/ "Deny" \in Replies /\ Handle(DenyPending(st))
       \/ \E reply \in Replies \cap {"Once", "Always"}, valid \in BOOLEAN, c \in Run :
             /\ (\E i \in ReplyTargets(st) : st.invs[i].tool = TaskTool) => Fresh(c)
             /\ Handle(ApprovePending(st, reply, valid, c))
       \/ /\ "RejectAlways" \in Replies
          /\ \E i \in ReplyTargets(st) : Handle(RejectAlways(st, i))
    /\ UNCHANGED <<disk, chan, streams, tools, execs, crashes>>

UserCancels ==
    /\ HostIdle
    /\ st.active # NoRun
    /\ Handle(CancelActiveRun(st))
    /\ UNCHANGED <<disk, chan, streams, tools, execs, crashes>>

\* drain_runtime_messages: the reducer's handler for the oldest message
Dispatch(m) ==
    CASE m.kind = "Chunk" -> \E due \in BOOLEAN : Handle(AssistantChunk(st, m.run, due))
      [] m.kind = "ToolCall" ->
            IF m.tool = Unknown
            THEN Handle(UnsupportedToolCall(st, m.run))
            ELSE \E i \in Inv : NextInv(i) /\ Handle(AssistantToolCall(st, m.run, m.tool, i))
      [] m.kind = "AssistantDone" -> Handle(AssistantEnded(st, m.run, "Completed"))
      [] m.kind = "AssistantFailed" -> Handle(AssistantEnded(st, m.run, "Failed"))
      [] m.kind = "ToolFinished" -> Handle(ToolExecutionFinished(st, m.run, m.inv, m.outcome))

HostHandlesMessage ==
    /\ HostIdle
    /\ chan # << >>
    /\ Dispatch(Head(chan))
    /\ chan' = Tail(chan)
    /\ UNCHANGED <<disk, streams, tools, execs, crashes>>

-----------------------------------------------------------------------------
\* apply_effect, one action per effect

NextEffect(kind) == pend # << >> /\ Head(pend).kind = kind

ApplyPersistSession ==
    /\ NextEffect("PersistSession")
    /\ disk' = SessionOf(st)
    /\ pend' = Tail(pend)
    /\ UNCHANGED <<st, chan, streams, tools, execs, crashes>>

\* mutant: the error of a save is logged and the other effects are applied
PersistErrorIgnored ==
    /\ StoreMayFail
    /\ NextEffect("PersistSession")
    /\ pend' = Tail(pend)
    /\ UNCHANGED <<st, disk, chan, streams, tools, execs, crashes>>

\* save returns an error: `?` leaves apply_effects, the other effects are lost
PersistSessionFails ==
    /\ StoreMayFail
    /\ NextEffect("PersistSession")
    /\ pend' = << >>
    /\ UNCHANGED <<st, disk, chan, streams, tools, execs, crashes>>

\* spawn_effect(StartAssistant): a stream the run still has is aborted
ApplyStartAssistant ==
    /\ NextEffect("StartAssistant")
    /\ streams' = [streams EXCEPT ![Head(pend).run] = "open"]
    /\ pend' = Tail(pend)
    /\ UNCHANGED <<st, disk, chan, tools, execs, crashes>>

\* cancel_run_tasks: aborts the stream and the tool tasks that have not started;
\* a tool that is executing does not yield and runs to its end
ApplyCancelAssistant ==
    /\ NextEffect("CancelAssistant")
    /\ LET r == Head(pend).run
       IN  /\ streams' = [streams EXCEPT ![r] = "none"]
           /\ tools' = [i \in Inv |-> IF st.invs[i].run = r /\ tools[i] = "spawned"
                                      THEN "idle" ELSE tools[i]]
    /\ pend' = Tail(pend)
    /\ UNCHANGED <<st, disk, chan, execs, crashes>>

\* spawn_effect(ExecuteTool) for one invocation of the group
ApplyExecuteTool ==
    /\ NextEffect("ExecuteTools")
    /\ \E i \in Head(pend).ids :
          LET left == Head(pend).ids \ {i}
          IN  /\ tools' = [tools EXCEPT ![i] = "spawned"]
              /\ pend' = IF left = {} THEN Tail(pend)
                         ELSE <<ExecuteTools(left)>> \o Tail(pend)
    /\ UNCHANGED <<st, disk, chan, streams, execs, crashes>>

-----------------------------------------------------------------------------
\* the runtime's tasks

Send(m) == chan' = Append(chan, m)

\* the channel is unbounded; the bound MaxChan holds back a stream's deltas and
\* calls only, never the message a task ends with
Room == Len(chan) < MaxChan

StreamEmitsText(r) ==
    /\ streams[r] # "none"
    /\ Room
    /\ Len(st.turns) + Cardinality(Waiting("Chunk")) < MaxTurns
    /\ Send(StreamMessage("Chunk", r, TaskTool))
    /\ UNCHANGED <<st, disk, pend, streams, tools, execs, crashes>>

StreamCallsTool(r) ==
    /\ streams[r] # "none"
    /\ Room
    /\ Cardinality({i \in Inv : st.invs[i].approval = "Absent"})
           > Cardinality(Waiting("ToolCall"))
    /\ \E tool \in ProviderTools : Send(StreamMessage("ToolCall", r, tool))
    /\ streams' = [streams EXCEPT ![r] = "called"]
    /\ UNCHANGED <<st, disk, pend, tools, execs, crashes>>

\* the provider's stream returned Ok: a stream that called a tool only pauses
StreamEnds(r) ==
    /\ streams[r] # "none"
    /\ IF streams[r] = "called" THEN UNCHANGED chan
       ELSE Send(StreamMessage("AssistantDone", r, TaskTool))
    /\ streams' = [streams EXCEPT ![r] = "none"]
    /\ UNCHANGED <<st, disk, pend, tools, execs, crashes>>

StreamFails(r) ==
    /\ streams[r] # "none"
    /\ Send(StreamMessage("AssistantFailed", r, TaskTool))
    /\ streams' = [streams EXCEPT ![r] = "none"]
    /\ UNCHANGED <<st, disk, pend, tools, execs, crashes>>

ToolStarts(i) ==
    /\ tools[i] = "spawned"
    /\ tools' = [tools EXCEPT ![i] = "executing"]
    /\ execs' = [execs EXCEPT ![i] = @ + 1]
    /\ UNCHANGED <<st, disk, pend, chan, streams, crashes>>

ToolFinishes(i) ==
    /\ tools[i] = "executing"
    /\ \E outcome \in Outcomes : Send(ToolMessage(st.invs[i].run, i, outcome))
    /\ tools' = [tools EXCEPT ![i] = "idle"]
    /\ UNCHANGED <<st, disk, pend, streams, execs, crashes>>

-----------------------------------------------------------------------------
\* the process is killed and started again: load the session, recover_startup
CrashAndRestart ==
    /\ crashes < MaxCrashes
    /\ crashes' = crashes + 1
    /\ Handle(RecoverStartup(Loaded(disk)))
    /\ chan' = << >>
    /\ streams' = [r \in Run |-> "none"]
    /\ tools' = [i \in Inv |-> "idle"]
    /\ UNCHANGED <<disk, execs>>

-----------------------------------------------------------------------------
User == UserSubmits \/ UserReplies \/ UserCancels

Host ==
    \/ HostHandlesMessage
    \/ ApplyPersistSession
    \/ PersistSessionFails
    \/ ApplyStartAssistant
    \/ ApplyCancelAssistant
    \/ ApplyExecuteTool

Stream(r) == StreamEmitsText(r) \/ StreamCallsTool(r) \/ StreamEnds(r) \/ StreamFails(r)

ToolTask(i) == ToolStarts(i) \/ ToolFinishes(i)

Next ==
    \/ User
    \/ Host
    \/ \E r \in Run : Stream(r)
    \/ \E i \in Inv : ToolTask(i)
    \/ CrashAndRestart

Spec == Init /\ [][Next]_vars
=============================================================================
