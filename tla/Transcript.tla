----------------------------- MODULE Transcript -----------------------------
(***************************************************************************)
(* The transcript of a session: the items the reducer's handlers put,      *)
(* change and commit beside the records (session/model.rs, app/update.rs,  *)
(* app/delegation.rs, app/recovery.rs).  Each operator here is what the    *)
(* handler of the same name in Reducer does to the transcript; s is the    *)
(* reducer's state before the handler, t the one after it.                 *)
(*                                                                         *)
(* An item is named by its kind and the turn, call or run it shows: the    *)
(* code derives its id from that id (transcript_..._item_id).  A text is   *)
(* its length in deltas; "mark" is the execution state of a call, or the   *)
(* state of a permission.                                                  *)
(***************************************************************************)
EXTENDS Reducer, TLC

NoTranscript == [items |-> << >>, next |-> 1, turnSeq |-> << >>]

Has(tr, id) == id \in DOMAIN tr.items

\* upsert_transcript_item
Put(tr, id, item) == [tr EXCEPT !.items = (id :> item) @@ @]

Item(seq, run, open, len, mark) ==
    [seq |-> seq, run |-> run, open |-> open, len |-> len, mark |-> mark]

\* an item keeps its sequence; a new one takes the next (allocate_replay_sequence)
PutAt(tr, id, run, open, len, mark) ==
    IF Has(tr, id)
    THEN Put(tr, id, Item(tr.items[id].seq, run, open, len, mark))
    ELSE [Put(tr, id, Item(tr.next, run, open, len, mark)) EXCEPT !.next = @ + 1]

\* TranscriptItemRecord::from_tool_invocation
PutTool(tr, t, i) ==
    PutAt(tr, <<"Tool", i>>, t.invs[i].run, t.invs[i].exec \in {"NotStarted", "Running"}, 0,
          t.invs[i].exec)

\* TranscriptItemRecord::permission
PutPermission(tr, t, i) ==
    LET approval == t.invs[i].approval
    IN  PutAt(tr, <<"Permission", i>>, t.invs[i].run, approval = "Pending", 0, approval)

\* TranscriptItemRecord::delegated_child, for a call that was delegated
PutChild(tr, t, i) ==
    IF t.invs[i].deleg = "None" THEN tr
    ELSE PutAt(tr, <<"Child", i>>, t.invs[i].run, t.invs[i].deleg = "Running", 0, t.invs[i].deleg)

\* the items of a batch that was answered; their sequences stay
PutAnswered(tr, t, batch) ==
    [tr EXCEPT !.items = [id \in DOMAIN @ |->
        IF id[2] \notin batch THEN @[id]
        ELSE CASE id[1] = "Tool"       -> PutTool(tr, t, id[2]).items[id]
               [] id[1] = "Permission" -> PutPermission(tr, t, id[2]).items[id]
               [] OTHER                -> @[id]]]

RunStarted(tr, r) == PutAt(tr, <<"Started", r>>, r, FALSE, 0, "InProgress")

\* upsert_run to a terminal status and upsert_run_terminal_transcript_item
RunTerminal(tr, t, r) == PutAt(tr, <<"Ended", r>>, r, FALSE, 0, t.runs[r].status)

\* a prompt's turn: of the user, or of the parent run for a child
UserTurn(tr, t, r) ==
    [PutAt(tr, <<"User", Len(t.turns)>>, r, FALSE, 1, "") EXCEPT
        !.turnSeq = Append(@, tr.next)]

AssistantTurnsOf(s, r) ==
    {k \in DOMAIN s.turns : s.turns[k] = [run |-> r, role |-> "Assistant"]}

SetStreams(tr, turns, open) ==
    [tr EXCEPT !.items = [id \in DOMAIN @ |->
        IF id[1] \in {"Thought", "Text"} /\ id[2] \in turns THEN [@[id] EXCEPT !.open = open]
        ELSE @[id]]]

LastOf(turns) == {k \in turns : \A j \in turns : j <= k}

\* commit_open_assistant_transcript_items_for_run: of its last assistant turn
CommitStreams(tr, s, r) == SetStreams(tr, LastOf(AssistantTurnsOf(s, r)), FALSE)

-----------------------------------------------------------------------------
(* The handlers.                                                           *)

OnSubmit(tr, t, r) == RunStarted(UserTurn(tr, t, r), r)

\* upsert_assistant_stream_transcript_item: the first stream of a turn has the
\* turn's own sequence
OnChunk(tr, s, t, r, kind) ==
    LET k == Len(t.turns)
        started == IF k = Len(s.turns) THEN tr
                   ELSE [tr EXCEPT !.turnSeq = Append(@, tr.next), !.next = @ + 1]
        id == <<kind, k>>
        first == ~ Has(started, <<"Thought", k>>) /\ ~ Has(started, <<"Text", k>>)
    IN  IF Has(started, id)
        THEN [started EXCEPT !.items[id].len = @ + 1, !.items[id].open = TRUE]
        ELSE IF first
             THEN Put(started, id, Item(started.turnSeq[k], r, TRUE, 1, ""))
             ELSE PutAt(started, id, r, TRUE, 1, "")

\* mutant: the permission has no item
OnToolCallUnasked(tr, s, t, r, i) == PutTool(CommitStreams(tr, s, r), t, i)

OnToolCall(tr, s, t, r, i) ==
    LET called == PutTool(CommitStreams(tr, s, r), t, i)
    IN  IF t.invs[i].approval = "Pending" THEN PutPermission(called, t, i) ELSE called

\* the unknown tool: the run's end takes a sequence, no item shows it
OnUnsupportedTool(tr) == [tr EXCEPT !.next = @ + 1]

EndedRun(tr, s, t, r) == RunTerminal(CommitStreams(tr, s, r), t, r)

\* mutant: the result does not reach the call's item
OnToolFinishedUnseen(tr, s, t, r, i) ==
    IF s.runs[r].status = "InProgress" /\ t.runs[r].status = "Failed"
    THEN EndedRun(tr, s, t, r) ELSE tr

OnToolFinished(tr, s, t, r, i) ==
    LET shown == PutTool(tr, t, i)
    IN  IF s.runs[r].status = "InProgress" /\ t.runs[r].status = "Failed"
        THEN EndedRun(shown, s, t, r) ELSE shown

OnStartChild(tr, t, i) ==
    LET c == t.invs[i].child
        called == PutTool(tr, t, i)
    IN  IF c = NoRun THEN PutChild(called, t, i)
        ELSE UserTurn(PutChild(RunStarted(called, c), t, i), t, c)

OnDeny(tr, s, t) == PutAnswered(tr, t, ReplyTargets(s))

OnApprove(tr, s, t) ==
    LET batch == ReplyTargets(s)
        answered == PutAnswered(tr, t, batch)
        tasks == {i \in batch : s.invs[i].tool = TaskTool}
    IN  IF tasks = {} THEN answered
        ELSE OnStartChild(answered, t, CHOOSE i \in tasks : \A j \in tasks : i <= j)

\* complete_child_run, then the parent's ToolExecutionFinished
OnChildCompleted(tr, s, t, c) ==
    LET i == s.runs[c].task
        ended == RunTerminal(tr, t, c)
    IN  PutChild(PutTool(CommitStreams(ended, s, c), t, i), t, i)

OnEnded(tr, s, t, r) ==
    IF IsChild(s, r) THEN OnChildCompleted(tr, s, t, r) ELSE EndedRun(tr, s, t, r)

\* restore_generating_transcript_items: the run's last turn without a call
OnRecoverGenerating(tr, s, r) ==
    SetStreams(tr, LastOf({k \in AssistantTurnsOf(s, r) : \A i \in Inv : s.invs[i].anchor # k}),
               TRUE)

\* restore_awaiting_tool_approval_transcript_items
OnRecoverAwaiting(tr, s, r) ==
    LET batch == PendingIn(s, r, s.owner.anchor)
    IN  [tr EXCEPT !.items = [id \in DOMAIN @ |->
            IF id[1] \in {"Tool", "Permission"} /\ id[2] \in batch
            THEN [@[id] EXCEPT !.open = TRUE,
                               !.mark = IF id[1] = "Permission" THEN "Pending" ELSE @]
            ELSE @[id]]]

\* interrupt_running_tool_recovery: the interrupted calls, the run's end, a marker
OnInterrupt(tr, s, t, r) ==
    LET hit == {i \in Inv : s.invs[i].run = r /\ s.invs[i].anchor = s.owner.anchor
                            /\ t.invs[i].approval = "Approved" /\ t.invs[i].exec = "Failed"}
        calls == [tr EXCEPT !.items = [id \in DOMAIN @ |->
                    IF id[2] \notin hit THEN @[id]
                    ELSE CASE id[1] = "Tool"  -> PutTool(tr, t, id[2]).items[id]
                           [] id[1] = "Child" -> PutChild(tr, t, id[2]).items[id]
                           [] OTHER           -> @[id]]]
    IN  PutAt(RunTerminal(calls, t, r), <<"Marker", tr.next + 1>>, r, FALSE, 0, "interrupted")

\* recover_startup_foreground; t is the recovered state
OnRecover(tr, s, t) ==
    LET r == s.owner.run
        lost == {c \in Run : s.runs[c].status = "InProgress" /\ t.runs[c].status = "Failed" /\ IsChild(s, c)}
    IN  CASE lost # {} /\ (r = NoRun \/ s.owner.phase = "Generating") ->
                OnChildCompleted(tr, s, t, CHOOSE c \in lost : TRUE)
          [] lost = {} /\ (r = NoRun \/ (t.active = NoRun /\ t.runs = s.runs)) -> tr
          [] r # NoRun /\ s.owner.phase = "AwaitingToolApproval" -> OnRecoverAwaiting(tr, s, r)
          [] r # NoRun /\ s.owner.phase = "RunningTool" -> OnInterrupt(tr, s, t, r)
          [] OTHER -> OnRecoverGenerating(tr, s, r)
=============================================================================
