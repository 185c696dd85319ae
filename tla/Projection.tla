----------------------------- MODULE Projection -----------------------------
(***************************************************************************)
(* What an ACP client is shown of a session: SessionUpdateMapper of        *)
(* fluent-code-acp/src/mapping.rs turns the records and the transcript of  *)
(* a prompt turn into events; while the turn runs, PromptTurnEmissionState *)
(* of server.rs sends what was not sent before, poll by poll; session/load *)
(* sends everything.                                                       *)
(*                                                                         *)
(* The session moves by the messages of the runtime and of the client,     *)
(* through the reducer of module Reducer and the transcript of module      *)
(* Transcript.  Saves, channels and the server's tasks are left to the     *)
(* modules AgentHost and PromptTurn: the task of a prompt may poll between *)
(* any two messages.  A turn that session/load found in progress has no    *)
(* such task: only the answer to a question or a cancel takes messages of  *)
(* the runtime, and polls once.                                            *)
(***************************************************************************)
EXTENDS Transcript, SequencesExt

CONSTANTS
    Fidelity,   \* of the session's transcript: it is Exact or not
    MaxOutput,  \* bound: deltas and tool calls of all streams
    MaxLoads,   \* bound: restarts followed by session/load
    MayCancel   \* the client may send session/cancel

ASSUME ProjectionAssumption ==
    /\ Fidelity \subseteq BOOLEAN /\ MayCancel \in BOOLEAN
    /\ MaxOutput \in Nat /\ MaxLoads \in Nat

VARIABLES
    st,         \* AppState
    tr,         \* its transcript
    streaming,  \* the provider's stream of each run
    tasks,      \* the calls whose tool runs
    watch,      \* the live turn, who polls it, what was emitted, what the client has
    output,     \* deltas and calls so far
    loads,
    exact       \* transcript_fidelity is Exact

vars == <<st, tr, streaming, tasks, watch, output, loads, exact>>

-----------------------------------------------------------------------------
(* The mapper.                                                             *)

\* root_run_id
Root(s, r) ==
    LET up[q \in Run] == IF s.runs[q].parent = NoRun THEN q ELSE up[s.runs[q].parent]
    IN  up[r]

FinalStatus(exec) ==
    CASE exec = "NotStarted" -> "Pending"
      [] exec = "Running"    -> "InProgress"
      [] exec = "Completed"  -> "Completed"
      [] OTHER               -> "Failed"

\* ProjectionEventPhase
Phase == [User |-> 1, Thought |-> 2, Text |-> 3, Info |-> 4, Create |-> 5, Patch |-> 6,
          Permission |-> 7]

Event(seq, what, id, val) == [seq |-> seq, what |-> what, id |-> id, val |-> val]

Before(a, b) ==
    \/ a.seq < b.seq
    \/ a.seq = b.seq /\ Phase[a.what] < Phase[b.what]

\* no two events of a projection have the same place
Ordered(events) ==
    [n \in 1..Cardinality(events) |->
        CHOOSE e \in events : Cardinality({x \in events : Before(x, e)}) = n - 1]

\* tool_call_snapshot: a call is announced as pending, whatever has become of it
Creation(seq, id) == Event(seq, "Create", id, 0)

\* tool_call_patch: the status and, as its meta, the call's whole record
Patches(s, seq, i, exec) ==
    IF FinalStatus(exec) = "Pending" THEN {}
    ELSE {Event(seq, "Patch", <<"Tool", i>>, [status |-> FinalStatus(exec), inv |-> s.invs[i]])}

\* permission_request: of a batch's pending calls only the last is asked about
Requests(s, seq, i) ==
    LET batch == PendingIn(s, s.invs[i].run, s.invs[i].anchor)
    IN  IF i \in batch /\ \A j \in batch : j <= i
        THEN {Event(seq, "Permission", <<"Tool", i>>, 0)} ELSE {}

Texts(seq, id, len) == IF len = 0 THEN {} ELSE {Event(seq, id[1], id, len)}

\* project_transcript_item
EventsOf(s, t, id) ==
    LET item == t.items[id]
        seq == item.seq
    IN  CASE id[1] \in {"User", "Thought", "Text"} -> Texts(seq, id, item.len)
          [] id[1] = "Tool" ->
                {Creation(seq, id)} \cup Patches(s, seq, id[2], item.mark)
          [] id[1] = "Permission" ->
                IF item.mark = "Pending" THEN Requests(s, seq, id[2]) ELSE {}
          [] OTHER -> {Event(seq, "Info", id, 0)}

\* uses_canonical_transcript_projection: every turn and call has its item
Canonical(s, t) ==
    /\ exact /\ t.items # << >>
    /\ \A k \in DOMAIN s.turns : s.turns[k].role = "User" => Has(t, <<"User", k>>)
    /\ \A i \in Inv : s.invs[i].approval # "Absent" => Has(t, <<"Tool", i>>)

Valid(t, seq) == seq > 0 /\ seq < t.next

\* project_canonical_prompt_turn_incremental: the items behind the watermark, the
\* open ones and those that were open; with none of these left, the items up to
\* the watermark are skipped unseen
Incremental(s, t, root, mark, open) ==
    {id \in DOMAIN t.items :
        LET item == t.items[id] IN
        /\ Root(s, item.run) = root /\ Valid(t, item.seq)
        /\ mark = 0 \/ item.seq > mark \/ (open # {} /\ (item.open \/ id \in open))}

\* project_legacy_prompt_turn
LegacyEvents(s, t, root) ==
    UNION {{e \in Texts(t.turnSeq[id[2]], id, t.items[id].len) : Valid(t, e.seq)} :
              id \in {d \in DOMAIN t.items : d[1] \in {"User", "Thought", "Text"}
                                             /\ Root(s, t.items[d].run) = root}}
    \cup
    UNION {LET seq == t.items[<<"Tool", i>>].seq
           IN  {Creation(seq, <<"Tool", i>>)} \cup Patches(s, seq, i, s.invs[i].exec)
               \cup Requests(s, seq, i) :
              i \in {j \in Inv : s.invs[j].approval # "Absent" /\ Root(s, s.invs[j].run) = root}}

\* project_live_prompt_turn
Projected(s, t, root, mark, open) ==
    IF ~ Canonical(s, t)
    THEN [events |-> LegacyEvents(s, t, root), max |-> 0, open |-> {}]
    ELSE LET ids == Incremental(s, t, root, mark, open)
         IN  [events |-> UNION {EventsOf(s, t, id) : id \in ids},
              max    |-> IF ids = {} THEN 0 ELSE Max({t.items[id].seq : id \in ids}),
              open   |-> {id \in ids : t.items[id].open}]

-----------------------------------------------------------------------------
(* The emission of a live turn and the client.                             *)

NoEmission == [mark |-> 0, open |-> {}, lens |-> << >>, calls |-> {}, asked |-> {},
               updates |-> << >>]
NoClient == [text |-> << >>, calls |-> [i \in Inv |-> "None"], asked |-> {}, order |-> << >>]

Get(f, key, default) == IF key \in DOMAIN f THEN f[key] ELSE default

Sent(em, e) == Get(em.lens, <<e.seq, e.what>>, 0)

\* live_session_update and live_text_delta: is there something new to send
New(em, e) ==
    CASE e.what \in {"User", "Thought", "Text"} -> e.val > Sent(em, e)
      [] e.what = "Create"     -> e.id[2] \notin em.calls
      [] e.what = "Patch"      -> Get(em.updates, e.id[2], {}) # {e.val}
      [] e.what = "Permission" -> e.id[2] \notin em.asked
      [] e.what = "Info"       -> FALSE

Delta(em, e) ==
    IF e.what \in {"User", "Thought", "Text"} THEN [e EXCEPT !.val = @ - Sent(em, e)] ELSE e

\* project_frames
Frames(em, proj) ==
    LET fresh == {e \in proj.events : New(em, e)}
    IN  Ordered({Delta(em, e) : e \in fresh})

\* mutant: the lengths of the texts sent are not kept
EmittedTextless(em, proj) ==
    LET of(what) == {e \in proj.events : e.what \in what}
    IN  [em EXCEPT !.mark = IF proj.max > @ THEN proj.max ELSE @, !.open = proj.open,
                   !.calls = @ \cup {e.id[2] : e \in of({"Create"})},
                   !.asked = @ \cup {e.id[2] : e \in of({"Permission"})}]

Emitted(em, proj) ==
    LET of(what) == {e \in proj.events : e.what \in what}
        texts == of({"User", "Thought", "Text"})
        keys == {<<e.seq, e.what>> : e \in texts}
    IN  [mark    |-> IF proj.max > em.mark THEN proj.max ELSE em.mark,
         open    |-> proj.open,
         lens    |-> [k \in keys |-> Max({e.val : e \in {x \in texts : <<x.seq, x.what>> = k}}
                                         \cup {Get(em.lens, k, 0)})] @@ em.lens,
         calls   |-> em.calls \cup {e.id[2] : e \in of({"Create"})},
         asked   |-> em.asked \cup {e.id[2] : e \in of({"Permission"})},
         updates |-> [i \in {e.id[2] : e \in of({"Patch"})} |->
                         {(CHOOSE e \in of({"Patch"}) : e.id[2] = i).val}] @@ em.updates]

\* the client shows what it is sent: text is appended, a call has its last status
Shown(cl, frames) ==
    LET got == ToSet(frames)
        texts == {f \in got : f.what \in {"User", "Thought", "Text"}}
        patched(i) == {f.val.status : f \in {x \in got : x.what = "Patch" /\ x.id[2] = i}}
        visible == SelectSeq(frames, LAMBDA f : f.what \in {"User", "Thought", "Text", "Create"})
        first == SelectSeq(visible, LAMBDA f : f.id \notin ToSet(cl.order))
    IN  [text  |-> [id \in {f.id : f \in texts} |->
                      (CHOOSE f \in texts : f.id = id).val + Get(cl.text, id, 0)] @@ cl.text,
         calls |-> [i \in Inv |->
                      IF patched(i) # {} THEN CHOOSE v \in patched(i) : TRUE
                      ELSE IF \E f \in got : f.what = "Create" /\ f.id[2] = i THEN "Pending"
                      ELSE cl.calls[i]],
         asked |-> cl.asked \cup {f.id[2] : f \in {x \in got : x.what = "Permission"}},
         order |-> cl.order \o [n \in DOMAIN first |-> first[n].id]]

NoWatch(cl) == [live |-> NoRun, by |-> "nobody", em |-> NoEmission, cl |-> cl]

\* seed_live_prompt_turn_state: what there is counts as sent
Seeded(s, t, root, by, cl) ==
    [live |-> root, by |-> by, em |-> Emitted(NoEmission, Projected(s, t, root, 0, {})), cl |-> cl]

\* what projects and sends in poll_live_prompt_turn; the turn's end is its last poll,
\* and only the task of a prompt polls again
Polled(s, t, w) ==
    IF w.live = NoRun THEN w
    ELSE LET proj == Projected(s, t, w.live, w.em.mark, w.em.open)
             cl == Shown(w.cl, Frames(w.em, proj))
         IN  IF s.runs[w.live].status \in Terminal THEN NoWatch(cl)
             ELSE [w EXCEPT !.em = Emitted(w.em, proj), !.cl = cl,
                            !.by = IF @ = "prompt" THEN @ ELSE "nobody"]

\* project_prompt_turns and session_load_replay_frames: all turns, one after another
Roots(s) == {r \in Run : s.runs[r].status # "Absent" /\ s.runs[r].parent = NoRun}

Replay(s, t) ==
    LET events == UNION {Projected(s, t, r, 0, {}).events : r \in Roots(s)}
    IN  Ordered({e \in events : e.what # "Info"})

-----------------------------------------------------------------------------
Init ==
    /\ st = Loaded(EmptySession)
    /\ tr = NoTranscript
    /\ streaming = [r \in Run |-> "none"]
    /\ tasks = {}
    /\ watch = NoWatch(NoClient)
    /\ output = 0 /\ loads = 0
    /\ exact \in Fidelity

Fresh(r) == st.runs[r].status = "Absent"

NextInv(i) ==
    /\ st.invs[i].approval = "Absent"
    /\ \A j \in Inv : j < i => st.invs[j].approval # "Absent"

\* the streams the effects of a handler start and stop
Streams(result) ==
    [r \in Run |-> IF StartAssistant(r) \in ToSet(result.fx) THEN "open"
                   ELSE IF CancelAssistant(r) \in ToSet(result.fx) THEN "none"
                   ELSE streaming[r]]

Executed(result) == UNION {e.ids : e \in {x \in ToSet(result.fx) : x.kind = "ExecuteTools"}}

Handle(result, items) ==
    /\ st' = result.st
    /\ tr' = items
    /\ streaming' = Streams(result)
    /\ tasks' = tasks \cup Executed(result)

\* drain_runtime_messages: who is about to poll takes the messages of the runtime
Drained == watch.by # "nobody" /\ UNCHANGED <<watch, loads, exact>>

\* start_live_prompt_turn: the prompt, then the seed; the client shows its prompt
Submit ==
    /\ st.active = NoRun /\ watch.live = NoRun
    /\ \E r \in Run :
        /\ Fresh(r)
        /\ LET done == SubmitPrompt(st, r)
               items == OnSubmit(tr, done.st, r)
               id == <<"User", Len(done.st.turns)>>
               cl == [watch.cl EXCEPT !.text = (id :> 1) @@ @, !.order = Append(@, id)]
           IN  /\ Handle(done, items)
               /\ watch' = Seeded(done.st, items, r, "prompt", cl)
    /\ UNCHANGED <<output, loads, exact>>

Chunk(r, kind) ==
    /\ streaming[r] = "open" /\ output < MaxOutput
    /\ LET done == AssistantChunk(st, r, FALSE)
       IN  Handle(done, IF st.active = r THEN OnChunk(tr, st, done.st, r, kind) ELSE tr)
    /\ output' = output + 1
    /\ Drained

ToolCall(r, tool) ==
    /\ streaming[r] \in {"open", "called"}
    /\ st.active = r /\ output < MaxOutput
    /\ \E i \in Inv :
        /\ NextInv(i)
        /\ LET done == AssistantToolCall(st, r, tool, i)
           IN  /\ st' = done.st
               /\ tr' = OnToolCall(tr, st, done.st, r, i)
               /\ streaming' = [Streams(done) EXCEPT ![r] = "called"]
               /\ tasks' = tasks \cup Executed(done)
    /\ output' = output + 1
    /\ Drained

UnsupportedTool(r) ==
    /\ streaming[r] \in {"open", "called"} /\ st.active = r
    /\ Handle(UnsupportedToolCall(st, r), OnUnsupportedTool(tr))
    /\ UNCHANGED output /\ Drained

\* a stream that called tools ends without a message
StreamStops(r) ==
    /\ streaming[r] = "called"
    /\ streaming' = [streaming EXCEPT ![r] = "none"]
    /\ UNCHANGED <<st, tr, tasks, watch, output, loads, exact>>

StreamEnds(r, outcome) ==
    /\ streaming[r] = "open" \/ (streaming[r] = "called" /\ outcome = "Failed")
    /\ st.active = r
    /\ LET done == AssistantEnded(st, r, outcome)
       IN  /\ st' = done.st
           /\ tr' = OnEnded(tr, st, done.st, r)
           /\ streaming' = [Streams(done) EXCEPT ![r] = "none"]
    /\ UNCHANGED <<tasks, output>> /\ Drained

ToolFinishes(i, outcome) ==
    /\ i \in tasks
    /\ LET r == st.invs[i].run
           done == ToolExecutionFinished(st, r, i, outcome)
       IN  /\ st' = done.st
           /\ tr' = IF done.fx = << >> THEN tr ELSE OnToolFinished(tr, st, done.st, r, i)
           /\ streaming' = Streams(done)
    /\ tasks' = tasks \ {i}
    /\ UNCHANGED output /\ Drained

\* a handler other than the prompt's has the session and is about to poll it
Comes(by) == [watch EXCEPT !.by = IF @ = "nobody" THEN by ELSE @]
Between == watch.by \in {"nobody", "prompt"}

\* the client answers a request it was sent (apply_permission_response)
Reply ==
    /\ Between /\ watch.cl.asked \cap ReplyTargets(st) # {}
    /\ watch' = Comes("reply")
    /\ \/ Handle(DenyPending(st), OnDeny(tr, st, DenyPending(st).st))
       \/ \E valid \in BOOLEAN, c \in Run :
            /\ (\E i \in ReplyTargets(st) : st.invs[i].tool = TaskTool) => Fresh(c)
            /\ LET done == ApprovePending(st, "Once", valid, c)
               IN  Handle(done, OnApprove(tr, st, done.st))
    /\ UNCHANGED <<output, loads, exact>>

\* (a cancel that finds the turn ended polls it and fails)
Poll ==
    /\ watch.live # NoRun
    /\ watch.by \in {"prompt", "reply"} \/ (watch.by = "cancel" /\ st.active = NoRun)
    /\ watch' = Polled(st, tr, watch)
    /\ UNCHANGED <<st, tr, streaming, tasks, output, loads, exact>>

\* terminalize_cancelled_prompt_turn: the calls of the root's batch, not their items
Terminalized(s, root, owner) ==
    IF owner.phase \notin {"AwaitingToolApproval", "RunningTool"} THEN s
    ELSE [s EXCEPT !.invs = [i \in Inv |->
            IF @[i].run # root \/ @[i].anchor # owner.anchor THEN @[i]
            ELSE IF @[i].approval = "Pending"
                 THEN [@[i] EXCEPT !.approval = "Denied", !.exec = "Skipped"]
            ELSE IF Unfinished(@[i])
                 THEN [@[i] EXCEPT !.exec = "Failed",
                                   !.deleg = IF @ = "Running" THEN "Cancelled" ELSE @]
            ELSE @[i]]]

CancelItems(t, s, done) ==
    IF IsChild(s, s.active) THEN OnChildCompleted(t, s, done.st, s.active)
    ELSE EndedRun(t, s, done.st, s.active)

\* cancel_prompt_turn: the cancel of the run, and of its root where a child was
\* active, and the last poll of a turn that was watched as w says
Cancelled(w) ==
    /\ st.owner.run # NoRun /\ st.active # NoRun
    /\ LET root == Root(st, st.owner.run)
           one == CancelActiveRun(st)
           t1 == CancelItems(tr, st, one)
           again == IsChild(st, st.active) /\ one.st.active = root
           s2 == IF again THEN CancelActiveRun(one.st).st ELSE one.st
           t2 == IF again THEN CancelItems(t1, one.st, CancelActiveRun(one.st)) ELSE t1
           s3 == Terminalized(s2, root, st.owner)
       IN  /\ st' = s3
           /\ tr' = t2
           /\ watch' = Polled(s3, t2, w)
    /\ streaming' = [r \in Run |-> "none"]
    /\ tasks' = {}
    /\ UNCHANGED <<output, loads, exact>>

\* cancel_prompt_turn_for_session: a poll and the cancel; what is in progress is
\* watched since its prompt or its load
CancelComes ==
    /\ MayCancel /\ watch.by = "nobody" /\ watch.live # NoRun
    /\ watch' = Comes("cancel")
    /\ UNCHANGED <<st, tr, streaming, tasks, output, loads, exact>>

CancelTurn ==
    /\ watch.by = "cancel" \/ (MayCancel /\ watch.by = "prompt")
    /\ Cancelled(Polled(st, tr, watch))

\* the client cancels instead of answering: no poll comes before the cancel
ReplyCancelled ==
    /\ MayCancel /\ Between /\ watch.cl.asked \cap ReplyTargets(st) # {}
    /\ Cancelled(watch)

\* a restart, startup recovery and session/load: the client starts from the replay;
\* a turn that recovery resumed is watched, and nobody polls it
Load ==
    /\ loads < MaxLoads
    /\ LET s == Loaded(SessionOf(st))
           done == RecoverStartup(s)
           items == OnRecover(tr, s, done.st)
       IN  /\ st' = done.st
           /\ tr' = items
           /\ streaming' = [r \in Run |-> IF StartAssistant(r) \in ToSet(done.fx) THEN "open" ELSE "none"]
           /\ watch' = LET cl == Shown(NoClient, Replay(done.st, items)) IN
                IF done.st.active = NoRun THEN NoWatch(cl)
                ELSE Seeded(done.st, items, Root(done.st, done.st.active), "nobody", cl)
    /\ tasks' = {}
    /\ loads' = loads + 1
    /\ UNCHANGED <<output, exact>>

Next ==
    \/ Submit \/ Reply \/ ReplyCancelled \/ Poll \/ CancelComes \/ CancelTurn \/ Load
    \/ \E r \in Run :
        \/ \E kind \in {"Thought", "Text"} : Chunk(r, kind)
        \/ \E tool \in Tool : ToolCall(r, tool)
        \/ \E outcome \in {"Completed", "Failed"} : StreamEnds(r, outcome)
        \/ UnsupportedTool(r) \/ StreamStops(r)
    \/ \E i \in Inv, outcome \in {"ok", "error"} : ToolFinishes(i, outcome)

Spec == Init /\ [][Next]_vars
=============================================================================
