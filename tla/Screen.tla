------------------------------- MODULE Screen -------------------------------
(***************************************************************************)
(* What the terminal client shows and when it draws it                     *)
(* (fluent-code-tui/src/acp.rs, view.rs): the handlers that change the     *)
(* projection and mark activity, the cache of the conversation they leave  *)
(* dirty, the event loop that draws a snapshot, parks on the wake signal   *)
(* and drains bursts, the keys, and the picture drawn of a projection.     *)
(*                                                                         *)
(* The tasks share one thread: an action is what runs between two awaits.  *)
(* Cells of the conversation come from module Conversation, lines of a     *)
(* text from module Markdown.  Every line is shorter than the screen is    *)
(* wide.  Which messages the server sends is modules TuiClient and         *)
(* PromptTurn; here they are any that a prompt or a load can bring.        *)
(***************************************************************************)
EXTENDS Conversation, Markdown

CONSTANTS
    SessionId,     \* ids of sessions
    Documents,     \* the texts a turn can have, as sequences of source lines
    Outcomes,      \* how a prompt and its run may end
    Cuts,          \* bound: the lengths of a text that a delta may leave
    Height,        \* rows of the conversation panel within its border
    BrowserHeight, \* rows of the session browser within its border
    MaxMessages,   \* bound: messages of the server
    MaxKeys        \* bound: keys

ASSUME ScreenAssumption ==
    /\ SessionId # {} /\ Documents # {} /\ <<>> \notin Documents /\ Cuts \subseteq Nat
    /\ Outcomes \subseteq {"Completed", "Failed", "Cancelled"}
    /\ {Height, BrowserHeight, MaxMessages, MaxKeys} \subseteq Nat /\ BrowserHeight > 0

VARIABLES
    projection,  \* TuiProjectionState
    news,        \* the activity sequence has moved on since the draw, since the burst looked
    permit,      \* the wake signal's Notify holds a permit
    ui,          \* the event loop: [at, then]
    prompt,      \* the active prompt and the outcome its task has
    drawn,       \* the snapshot drawn last
    budget

vars == <<projection, news, permit, ui, prompt, drawn, budget>>

Active == {"Running", "AwaitingToolApproval", "RunningTool"}
InFlight(p) == p.status \in Active

-----------------------------------------------------------------------------
(* The projection.                                                         *)

NoCall == 0
Calls(p) == DOMAIN p.invs

\* app_status
AppStatus(p) ==
    CASE p.error                               -> "Error"
      [] ~ p.error /\ p.status = "Running"     -> "Generating"
      [] ~ p.error /\ p.status \in {"AwaitingToolApproval", "RunningTool"} -> p.status
      [] OTHER                                 -> "Idle"

\* what ProjectionConversationCache::build takes
Sources(p) ==
    [s |-> [invs |-> p.invs, runs |-> [r \in Run |-> [parent |-> NoRun]],
            active |-> p.active, status |-> AppStatus(p)],
     t |-> [items |-> p.items, next |-> p.next], texts |-> p.texts]

\* reset_session_projection; transcript_run_id is a new one, and so is every prompt's
Fresh(used) == CHOOSE r \in Run \ used : TRUE

Refreshed(p) == [p EXCEPT !.dirty = TRUE]

Empty(s, sessions) ==
    [session |-> s, sessions |-> sessions, status |-> "None", error |-> FALSE, ask |-> NoCall,
     top |-> 0, follow |-> TRUE, draft |-> FALSE, run |-> Fresh({}), active |-> NoRun,
     items |-> <<>>, invs |-> <<>>, texts |-> <<>>, next |-> 1, merge |-> 0, dirty |-> TRUE,
     cache |-> [s |-> [invs |-> <<>>, runs |-> [r \in Run |-> [parent |-> NoRun]], active |-> NoRun,
                       status |-> "Idle"],
                t |-> [items |-> <<>>, next |-> 1], texts |-> <<>>]]

Reset(p, s) == [Empty(s, p.sessions) EXCEPT !.cache = p.cache]

PutItem(p, id, open, mark) ==
    LET seq == IF id \in DOMAIN p.items THEN p.items[id].seq ELSE p.next
    IN  [p EXCEPT !.items = (id :> Item(seq, p.run, open, 0, mark)) @@ @,
                  !.next = IF seq = @ THEN @ + 1 ELSE @]

\* TranscriptItemRecord::from_tool_invocation
PutCall(p, i, call) ==
    [PutItem(p, <<"Tool", i>>, call.exec \in {"NotStarted", "Running"}, call.exec)
        EXCEPT !.invs = (i :> call) @@ @]

Commit(p) == [p EXCEPT !.items = [id \in DOMAIN @ |->
    IF @[id].open THEN [@[id] EXCEPT !.open = FALSE] ELSE @[id]]]

\* mark_prompt_started
PromptStarted(p, r) ==
    Refreshed([p EXCEPT !.error = FALSE, !.draft = FALSE, !.run = r, !.active = r,
                        !.status = "Running", !.merge = 0])

\* mutant: the conversation is not refreshed
PromptFinishedStale(p, outcome) ==
    [Commit(p) EXCEPT !.active = NoRun, !.status = outcome, !.error = outcome = "Failed", !.merge = 0]

\* mark_prompt_finished, mark_prompt_error
PromptFinished(p, outcome) ==
    Refreshed([Commit(p) EXCEPT !.active = NoRun, !.status = outcome, !.error = outcome = "Failed",
                                !.merge = 0])

\* apply_loaded_session_projection
LoadedSession(p, status) ==
    Refreshed([p EXCEPT !.status = status, !.active = IF status \in Active THEN p.run ELSE NoRun])

\* append_user_chunk, append_assistant_chunk: the text that grows, or a new one, now
\* has this many lines
Growing(p, kind) == {id \in DOMAIN p.texts : id[1] = kind /\ id[2] = p.merge}

Chunk(p, kind, document, length) ==
    LET busy == kind # "User" /\ InFlight(p)
        q == [p EXCEPT !.status = IF busy THEN "Running" ELSE @, !.active = IF busy THEN p.run ELSE @]
        id == <<kind, p.next>>
    IN  IF Growing(p, kind) # {}
        THEN Refreshed([q EXCEPT !.texts[<<kind, p.merge>>].length = length])
        ELSE Refreshed([PutItem(q, id, kind # "User", "") EXCEPT
                           !.texts = (id :> [document |-> document, length |-> length]) @@ @, !.merge = p.next])

\* apply_tool_call_snapshot, apply_tool_call_update, upsert_tool_invocation
ToolCall(p, i, tool, exec) ==
    LET approval == IF i \in Calls(p) THEN p.invs[i].approval ELSE "Approved"
        running == exec = "Running" /\ i \in Calls(p)
    IN  Refreshed([PutCall(p, i, [tool |-> tool, run |-> p.run, approval |-> approval, exec |-> exec])
                      EXCEPT !.merge = 0, !.status = IF running THEN "RunningTool" ELSE @,
                             !.active = IF running THEN p.run ELSE @])

\* apply_permission_request
PermissionRequested(p, i) ==
    LET q == IF i \in Calls(p) THEN PutCall(p, i, [p.invs[i] EXCEPT !.approval = "Pending"]) ELSE p
    IN  Refreshed([q EXCEPT !.ask = i, !.status = "AwaitingToolApproval", !.active = p.run])

\* apply_permission_selection
PermissionSelected(p, allow) ==
    LET i == p.ask
        q == IF i \in Calls(p)
             THEN PutCall(p, i, [p.invs[i] EXCEPT !.approval = IF allow THEN "Approved" ELSE "Denied"])
             ELSE p
    IN  Refreshed([q EXCEPT !.ask = NoCall, !.status = IF allow THEN "RunningTool" ELSE "Running"])

\* apply_transcript_metadata_item, for the end of a run
RunEnded(p, mark) == Refreshed(PutItem(p, <<"Ended", p.run>>, FALSE, mark))

\* ensure_conversation_cache_fresh
FreshCache(p) == IF p.dirty THEN [p EXCEPT !.cache = Sources(p), !.dirty = FALSE] ELSE p

-----------------------------------------------------------------------------
(* The picture (render_projection).                                        *)

Line(text, style) == <<Span(text, style)>>

\* render_turn_row, render_reasoning_row
Label(kind) == CASE kind = "User" -> "you" [] kind = "Text" -> "assistant" [] OTHER -> "reasoning"
RenderedOnce == [document \in Documents |-> [length \in DOMAIN document |-> [open \in BOOLEAN |->
                    Rendered(SubSeq(document, 1, length), open)]]]
Lines(text, open) == RenderedOnce[text.document][text.length][open]
TextRow(c, id) ==
    <<Line(Label(id[1]), "label")>> \o Lines(c.texts[id], c.t.items[id].open)

\* approval_badge, execution_badge, render_tool_row without details
CallHeader(call) == <<Span(call.tool, "label"), Span(call.approval, "badge"), Span(call.exec, "badge")>>
CallRow(call) ==
    <<CallHeader(call), Line("summary", "text")>>
    \o (IF call.exec = "Failed" THEN <<Line("note", "error")>> ELSE <<>>)
    \o (IF call.approval = "Pending" THEN <<Line("action", "warning")>> ELSE <<>>)

\* render_tool_group_row
GroupRow(c, row) ==
    <<Line(GroupKind(c.s, row[1]), "label")>> \o [j \in DOMAIN row |-> CallHeader(ToolRow(c.s, row[j]))]

\* render_run_marker_row
MarkerRow(mark) == <<Line(mark, "marker")>>

RowLines(c, row) ==
    CASE Len(row) > 1           -> GroupRow(c, row)
      [] row[1][1] = "Tool"     -> CallRow(ToolRow(c.s, row[1]))
      [] row[1][1] = "Marker"   -> MarkerRow(row[1][2])
      [] OTHER                  -> TextRow(c, row[1])

\* a marker of the run that is active comes last, one of the run that ended comes
\* before what is still open
ConversationRows(c) ==
    LET cells == Cells(c.s, c.t)
        mark == RunMarker(c.s, c.t)
        marker == IF mark = "None" THEN <<>> ELSE <<<<<<"Marker", mark>>>>>>
    IN  IF c.s.active # NoRun THEN Rows(cells) \o marker
        ELSE FlattenSeq(cells.history) \o marker \o cells.active

\* conversation_lines_from_rows
TranscriptLines(c) ==
    LET rows == ConversationRows(c)
    IN  IF rows = <<>> THEN <<Blank, Line("No messages yet", "muted")>>
        ELSE FlattenSeq([j \in DOMAIN rows |->
                 (IF j > 1 THEN <<Blank>> ELSE <<>>) \o RowLines(c, rows[j])])

\* projection_lines
HeaderLines(p) ==
    <<Line("session", "text")>>
    \o (IF p.status = "None" THEN <<>> ELSE <<Line(p.status, "status")>>)
    \o (IF p.ask = NoCall THEN <<>> ELSE <<Blank, Line("Pending permission", "warning"), Line("call", "text")>>)
    \o (IF p.error THEN <<Blank, Line("Prompt error", "error")>> ELSE <<>>)
BodyLines(p) == HeaderLines(p) \o <<Blank>> \o TranscriptLines(p.cache)

Beyond(n, height) == IF n > height THEN n - height ELSE 0
Window(lines, top, height) ==
    SubSeq(lines, top + 1, IF top + height < Len(lines) THEN top + height ELSE Len(lines))

\* transcript_max_scroll, resolve_transcript_scroll
BodyScroll(p, lines) ==
    LET last == Beyond(Len(lines), Height)
    IN  IF p.follow \/ p.top > last THEN last ELSE p.top

IndexOf(p) == CHOOSE j \in DOMAIN p.sessions : p.sessions[j] = p.session
Listed(p) == \E j \in DOMAIN p.sessions : p.sessions[j] = p.session

\* session_browser_lines, session_browser_scroll
Browser(p) ==
    Window([j \in DOMAIN p.sessions |-> [session |-> p.sessions[j], current |-> p.sessions[j] = p.session]],
           IF Listed(p) THEN Beyond(IndexOf(p), BrowserHeight) ELSE 0, BrowserHeight)

\* footer_label
Footer(p) == IF p.ask # NoCall THEN "permission" ELSE IF InFlight(p) THEN "running" ELSE "prompt"

CanEditDraft(p) == ~ InFlight(p) /\ p.ask = NoCall

Picture(p) ==
    LET lines == BodyLines(p)
    IN  [browser |-> Browser(p), body |-> Window(lines, BodyScroll(p, lines), Height),
         draft |-> p.draft, footer |-> Footer(p), cursor |-> CanEditDraft(p)]

-----------------------------------------------------------------------------
(* The handlers' tasks.  mark_activity counts the change and wakes the     *)
(* loop: a permit is kept for a loop that is not parked yet.               *)

MarkActivity ==
    /\ news' = [draw |-> TRUE, burst |-> TRUE]
    /\ permit' = TRUE

\* what a handler does to the projection while the loop is wherever it is
Handler(p) == projection' = p /\ MarkActivity /\ UNCHANGED <<ui, prompt, drawn>>

Message == budget.messages > 0 /\ budget' = [budget EXCEPT !.messages = @ - 1]

Running == prompt = "running"
Loading == ui.at = "load"

\* notifications of a prompt, or of the replay of a load
Words(kind) ==
    /\ Message
    /\ IF kind = "User" THEN Loading ELSE Running \/ Loading
    /\ \E document \in Documents : \E length \in Cuts \cap DOMAIN document :
        /\ \A id \in Growing(projection, kind) :
            projection.texts[id].document = document /\ projection.texts[id].length < length
        /\ Handler(Chunk(projection, kind, document, length))

UserWords == Words("User")
AssistantWords == \E kind \in {"Text", "Thought"} : Words(kind)

Announce ==
    /\ Message
    /\ Running \/ Loading
    /\ \E i \in {Cardinality(Calls(projection)) + 1} \cap Inv, tool \in Tool :
        Handler(ToolCall(projection, i, tool, "NotStarted"))

CallGoesOn ==
    /\ Message
    /\ Running \/ Loading
    /\ \E i \in Calls(projection), exec \in {"Running", "Completed", "Failed"} :
        /\ projection.invs[i].exec \in {"NotStarted", "Running"} \ {exec}
        /\ Handler(ToolCall(projection, i, projection.invs[i].tool, exec))

RequestPermission ==
    /\ Message
    /\ Running \/ Loading
    /\ \E i \in Calls(projection) :
        /\ projection.invs[i].exec = "NotStarted" /\ projection.ask # i
        /\ Handler(PermissionRequested(projection, i))

EndOfRun ==
    /\ Message
    /\ Running \/ Loading
    /\ \E mark \in Outcomes : Handler(RunEnded(projection, mark))

\* the prompt's task has its response and marks activity (mark_external_activity)
PromptReturns ==
    /\ Running
    /\ \E outcome \in Outcomes : prompt' = outcome
    /\ MarkActivity
    /\ UNCHANGED <<projection, ui, drawn, budget>>

-----------------------------------------------------------------------------
(* The event loop (run_projection_iteration).                              *)

At(where) == ui' = [ui EXCEPT !.at = where]

\* poll_active_prompt: the outcome is taken, then the session list is awaited;
\* then comes what the loop polled for
Poll(then) ==
    /\ prompt \in Outcomes
    /\ projection' = PromptFinished(projection, prompt)
    /\ prompt' = "none"
    /\ MarkActivity
    /\ ui' = [ui EXCEPT !.at = "list", !.then = then]
    /\ UNCHANGED <<drawn, budget>>

\* apply_session_list
ListArrives ==
    /\ ui.at = "list"
    /\ \E s \in SessionId : projection' = [projection EXCEPT !.sessions =
            IF s \in {@[j] : j \in DOMAIN @} THEN @ ELSE Append(@, s)]
    /\ MarkActivity
    /\ At(ui.then)
    /\ UNCHANGED <<prompt, drawn, budget>>

PollBeforeDraw == ui.at = "poll" /\ Poll("draw")

NothingToPoll == (ui.at = "poll" /\ prompt \in {"none", "running"}) \/ ui.at = "draw"

\* snapshot, which freshens the cache, and draw
Draw ==
    /\ NothingToPoll
    /\ projection' = FreshCache(projection)
    /\ drawn' = FreshCache(projection)
    /\ news' = [draw |-> FALSE, burst |-> FALSE]
    /\ At("wait")
    /\ UNCHANGED <<permit, prompt, budget>>

\* wait_for_activity without activity: a permit left by an earlier one is used up
Park ==
    /\ ui.at \in {"wait", "parked"}
    /\ ~ news.draw
    /\ permit \/ ui.at = "wait"
    /\ permit' = FALSE
    /\ At(IF permit THEN "wait" ELSE "parked")
    /\ UNCHANGED <<projection, news, prompt, drawn, budget>>

\* the select is biased: activity comes first, and a burst is drained
Activity ==
    /\ ui.at = "wait" \/ (ui.at = "parked" /\ permit)
    /\ news.draw
    /\ permit' = (permit /\ ui.at = "wait")
    /\ news' = [news EXCEPT !.burst = TRUE]
    /\ At("burst")
    /\ UNCHANGED <<projection, prompt, drawn, budget>>

\* drain_projection_activity_burst: until nothing comes or the budget is used up,
\* which may be at any time
PollInBurst == ui.at = "burst" /\ Poll("drained")
Drain ==
    /\ (ui.at = "burst" /\ prompt \in {"none", "running"}) \/ ui.at = "drained"
    /\ \/ news.burst /\ At("burst")
       \/ At("poll")
    /\ news' = [news EXCEPT !.burst = FALSE]
    /\ UNCHANGED <<projection, permit, prompt, drawn, budget>>

\* apply_projection_action: a key that was there after the draw or that comes
\* while nothing wakes the loop
Key ==
    /\ ui.at = "wait" \/ (ui.at = "parked" /\ ~ permit)
    /\ ~ news.draw
    /\ budget.keys > 0 /\ budget' = [budget EXCEPT !.keys = @ - 1]

Applied(p) == Key /\ projection' = p /\ At("poll") /\ UNCHANGED <<prompt, drawn>>

\* an answer to a permission and its cancellation mark no activity
AnswerPermission ==
    /\ drawn.ask # NoCall /\ projection.ask # NoCall
    /\ \E allow \in BOOLEAN : Applied(PermissionSelected(projection, allow))
    /\ UNCHANGED <<news, permit>>
CancelPermission ==
    /\ drawn.ask # NoCall
    /\ Applied([projection EXCEPT !.ask = NoCall])
    /\ UNCHANGED <<news, permit>>

Typing == CanEditDraft(drawn) /\ ~ drawn.draft /\ Applied([projection EXCEPT !.draft = TRUE]) /\ MarkActivity

\* scroll_transcript_up and down, a page or a line, jump_transcript_top and bottom
Scroll ==
    /\ drawn.ask = NoCall
    /\ \/ \E by \in {1, 8} : Applied([projection EXCEPT !.follow = FALSE, !.top = Beyond(@, by)])
       \/ \E by \in {1, 8} : Applied([projection EXCEPT !.follow = FALSE, !.top = @ + by])
       \/ Applied([projection EXCEPT !.follow = FALSE, !.top = 0])
       \/ Applied([projection EXCEPT !.follow = TRUE])
    /\ MarkActivity

\* submit_prompt
Submit ==
    /\ CanEditDraft(drawn) /\ projection.draft /\ prompt = "none" /\ Key
    /\ \E r \in Run \ ({projection.run} \cup {projection.items[id].run : id \in DOMAIN projection.items}) :
        projection' = PromptStarted(projection, r)
    /\ prompt' = "running"
    /\ At("poll")
    /\ MarkActivity
    /\ UNCHANGED drawn

\* switch_session, load_session up to its request: adjacent_session_id
Switch ==
    /\ CanEditDraft(drawn) /\ Key /\ Listed(projection)
    /\ \E j \in {IndexOf(projection) - 1, IndexOf(projection) + 1} \cap DOMAIN projection.sessions :
        projection' = Reset(projection, projection.sessions[j])
    /\ At("load")
    /\ MarkActivity
    /\ UNCHANGED <<prompt, drawn>>

\* load_session returns, then the session list
LoadReturns ==
    /\ Loading
    /\ \E status \in {"None", "AwaitingToolApproval"} :
        projection' = LoadedSession(projection, status)
    /\ ui' = [ui EXCEPT !.at = "list", !.then = "poll"]
    /\ MarkActivity
    /\ UNCHANGED <<prompt, drawn, budget>>

\* the client has loaded a new session and listed the sessions, and the user has typed
\* a prompt
Init ==
    /\ LET sessions == SetToSeq(SessionId) IN projection = [Empty(Last(sessions), sessions) EXCEPT !.draft = TRUE]
    /\ news = [draw |-> TRUE, burst |-> FALSE] /\ permit = TRUE
    /\ ui = [at |-> "poll", then |-> "poll"]
    /\ prompt = "none"
    /\ drawn = projection
    /\ budget = [messages |-> MaxMessages, keys |-> MaxKeys]

Next ==
    \/ UserWords \/ AssistantWords \/ Announce \/ CallGoesOn \/ RequestPermission
    \/ EndOfRun \/ PromptReturns \/ ListArrives \/ PollBeforeDraw \/ Draw \/ Park
    \/ Activity \/ PollInBurst \/ Drain \/ AnswerPermission \/ CancelPermission
    \/ Typing \/ Scroll \/ Submit \/ Switch \/ LoadReturns

Spec == Init /\ [][Next]_vars
=============================================================================
