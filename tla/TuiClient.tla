----------------------------- MODULE TuiClient -----------------------------
(***************************************************************************)
(* The terminal client (fluent-code-tui/src/acp.rs) and the ACP server as  *)
(* it looks from the other end of the pipe: the event loop that draws,     *)
(* takes a key and awaits the server's answers, the handlers that apply    *)
(* the server's notifications and permission requests to the projection,   *)
(* and the server's dispatcher, prompt and cancel tasks (acp/server.rs).   *)
(*                                                                         *)
(* All tasks of the client share one thread: an action is what runs        *)
(* between two awaits.  A projected transcript is a sequence of rows in    *)
(* the order of their replay sequences; a row is a text with its length in *)
(* deltas, a call with its status, or an item without text.                *)
(* What the server does to a session's records is module Reducer, how it   *)
(* frames them modules Projection and PromptTurn; here a session is the    *)
(* rows that a load replays.                                               *)
(***************************************************************************)
EXTENDS Naturals, Sequences, FiniteSets, SequencesExt

CONSTANTS
    Session,       \* the ids the store may give out
    NoSession,
    Stored,        \* the sessions there are when the client starts
    LeftAwaiting,  \* those of them a killed server left waiting for approval
    Latest,        \* what the latest_session file may hold: an id, or NoSession without a file
    MaxPrompts,    \* bound: prompts the user sends
    MaxCancels,    \* bound: cancels the user sends
    MaxLoads,      \* bound: session switches and new sessions by key
    MaxWords,      \* bound: text and reasoning deltas of the model
    MaxCalls,      \* bound: tool calls of the model
    MayExit        \* the server process may end at any time

Call == 1..MaxCalls
NoCall == 0

ASSUME TuiAssumption ==
    /\ NoSession \notin Session /\ Latest \subseteq Session \cup {NoSession}
    /\ LeftAwaiting \subseteq Stored /\ Stored \subseteq Session
    /\ {MaxPrompts, MaxCancels, MaxLoads, MaxWords, MaxCalls} \subseteq Nat
    /\ MayExit \in BOOLEAN

VARIABLES
    projection,  \* TuiProjectionState
    held,        \* the permission request whose oneshot the client holds
    active,      \* the controller's active prompt
    ui,          \* what the event loop is about to do or awaits; it has a server
    snap,        \* the snapshot it drew last
    stale,       \* activity_sequence has moved on since
    listed,      \* the session browser
    up, down,    \* the pipe to the server and back
    server,      \* its records: [stored, awaiting, rows, last] and the prompt turn
    frames,      \* frames its tasks queued at the dispatcher
    asking,      \* the permission request the dispatcher waits with
    alive,       \* the server process runs
    budget

client == <<projection, held, active, ui, snap, stale, listed>>
remote == <<server, frames, asking, alive>>
vars == <<client, up, down, remote, budget>>

Active == {"Running", "AwaitingToolApproval", "RunningTool"}
Final == {"None", "Completed", "Cancelled", "Failed"}
Words == {"user", "text", "thought"}

-----------------------------------------------------------------------------
(* Rows and messages.                                                      *)

WordRow(kind, n) ==
    [kind |-> kind, n |-> n, open |-> kind # "user", call |-> NoCall, status |-> "", seq |-> 0]
CallRow(k, status) ==
    [kind |-> "call", n |-> 0, open |-> FALSE, call |-> k, status |-> status, seq |-> 0]
\* an item of a run's start or end, or of a permission
ItemRow(kind) == [WordRow(kind, 0) EXCEPT !.open = FALSE]

\* the server's rows have the sequences 1, 2, ...
Added(rows, row) == Append(rows, [row EXCEPT !.seq = Len(rows) + 1])

Note(s, row) == [kind |-> "note", s |-> s, row |-> row]
Ask(s, k, by) == [kind |-> "ask", s |-> s, call |-> k, by |-> by]
NoAsk == Ask(NoSession, NoCall, "none")
Answer(k, outcome) == [kind |-> "answer", call |-> k, outcome |-> outcome]
Request(kind, s) == [kind |-> kind, s |-> s]
Response(kind, s, status) == [kind |-> kind, s |-> s, status |-> status]

IsCall(row, k) == row.kind = "call" /\ row.call = k
HasCall(rows, k) == \E j \in DOMAIN rows : IsCall(rows[j], k)
TheCall(rows, k) == rows[CHOOSE j \in DOMAIN rows : IsCall(rows[j], k)]

SetCall(rows, k, status) ==
    [j \in DOMAIN rows |-> IF IsCall(rows[j], k) THEN [rows[j] EXCEPT !.status = status] ELSE rows[j]]

\* insert_transcript_item_in_order
Insert(rows, row) ==
    SelectSeq(rows, LAMBDA x : x.seq <= row.seq) \o <<row>> \o SelectSeq(rows, LAMBDA x : x.seq > row.seq)

\* upsert_tool_invocation and its transcript item: a call keeps the sequence the
\* server's metadata gives it
PutCall(rows, row) ==
    IF HasCall(rows, row.call) THEN SetCall(rows, row.call, row.status) ELSE Insert(rows, row)

-----------------------------------------------------------------------------
(* TuiProjectionState.                                                     *)

InFlight(p) == p.status \in Active
CanEditDraft(p) == ~ p.broken /\ ~ InFlight(p) /\ p.ask = NoCall

NoProjection == [shown |-> NoSession, status |-> "None", ask |-> NoCall, rows |-> <<>>,
                 next |-> 1, merge |-> 0, draft |-> FALSE, broken |-> FALSE]

\* reset_session_projection, for a new session and before a load
Reset(s) == [NoProjection EXCEPT !.shown = s]

CommitOpen(rows) == [j \in DOMAIN rows |-> [rows[j] EXCEPT !.open = FALSE]]

PromptStarted(p) == [p EXCEPT !.draft = FALSE, !.status = "Running", !.merge = 0]

\* mark_prompt_finished and mark_prompt_error
PromptFinished(p, status) ==
    [p EXCEPT !.status = status, !.rows = CommitOpen(@), !.merge = 0]

LoadedSession(p, status) == [p EXCEPT !.status = status]

StartupError(p) == [p EXCEPT !.status = "None", !.merge = 0, !.broken = TRUE]

\* append_user_chunk, append_assistant_chunk: a delta grows the row of the delta
\* before it if that is of its kind and nothing came between; a new row takes the
\* client's own next sequence
AppendWords(p, kind, n) ==
    IF \E j \in DOMAIN p.rows : p.rows[j].kind = kind /\ p.rows[j].seq = p.merge
    THEN [p EXCEPT !.rows = [j \in DOMAIN @ |->
            IF @[j].kind = kind /\ @[j].seq = p.merge THEN [@[j] EXCEPT !.n = @ + n] ELSE @[j]]]
    ELSE [p EXCEPT !.rows = Insert(@, [WordRow(kind, n) EXCEPT !.seq = p.next]),
                   !.next = p.next + 1, !.merge = p.next]

\* apply_transcript_metadata_item
SawItem(p, row) ==
    [p EXCEPT !.rows = Insert(@, row), !.next = IF row.seq >= @ THEN row.seq + 1 ELSE @]

\* mutant: the notification is applied whatever the session
NotifiedAny(p, s, row) ==
    IF row.kind = "call"
    THEN [p EXCEPT !.shown = s, !.merge = 0, !.rows = PutCall(@, row),
                   !.status = IF row.status = "InProgress" THEN "RunningTool" ELSE @]
    ELSE IF row.kind = "item" THEN SawItem(p, row)
    ELSE [AppendWords(p, row.kind, row.n) EXCEPT !.shown = s]

\* apply_session_notification
Notified(p, s, row) ==
    IF p.shown \notin {s, NoSession} THEN p
    ELSE IF row.kind = "call"
    THEN [p EXCEPT !.shown = s, !.merge = 0, !.rows = PutCall(@, row),
                   !.status = IF row.status = "InProgress" THEN "RunningTool" ELSE @]
    ELSE IF row.kind = "item" THEN [SawItem(p, row) EXCEPT !.shown = s]
    ELSE [AppendWords(p, row.kind, row.n) EXCEPT
             !.shown = s,
             !.status = IF row.kind # "user" /\ InFlight(p) THEN "Running" ELSE @]

\* apply_permission_request
PermissionRequested(p, s, k) ==
    IF p.shown \notin {s, NoSession} THEN p
    ELSE [p EXCEPT !.shown = s, !.ask = k, !.status = "AwaitingToolApproval"]

\* mutant: the request stays on the screen
PermissionStays(p, outcome) ==
    [p EXCEPT !.status = IF outcome = "Allow" THEN "RunningTool" ELSE "Running"]

\* apply_permission_selection
PermissionSelected(p, outcome) ==
    [p EXCEPT !.ask = NoCall, !.status = IF outcome = "Allow" THEN "RunningTool" ELSE "Running"]

-----------------------------------------------------------------------------
(* The server's end.                                                       *)

NoTurn == [s |-> NoSession, phase |-> "idle", call |-> NoCall, stop |-> "None", cancelled |-> FALSE]

\* latest_prompt_state: what the response to a load says of the session
LatestState(s) == IF s \in server.awaiting THEN "AwaitingToolApproval" ELSE server.last[s]

\* session_load_replay_frames, the request for the pending call, the response
Replay(s) ==
    LET sent == SelectSeq(server.rows[s], LAMBDA row : row.kind # "permission") IN
    [j \in DOMAIN sent |-> Note(s, sent[j])]
    \o (IF s \in server.awaiting THEN <<Ask(s, MaxCalls, "load")>> ELSE <<>>)
    \o <<Response("loaded", s, LatestState(s))>>

\* the rows a delta leaves: the streams of a turn grow apart, whatever their order
Grow(rows, kind) ==
    LET tail == {j \in DOMAIN rows : rows[j].kind = kind
                                     /\ \A i \in j + 1..Len(rows) : rows[i].kind \in {"text", "thought"}}
    IN  IF tail = {} THEN Added(rows, WordRow(kind, 1))
        ELSE [rows EXCEPT ![CHOOSE j \in tail : TRUE].n = @ + 1]

\* terminalize_cancelled_prompt_turn and what fails with the call
CloseCalls(rows) ==
    [j \in DOMAIN rows |-> IF rows[j].status \in {"Pending", "InProgress"}
                           THEN [rows[j] EXCEPT !.status = "Failed"] ELSE rows[j]]

\* the rows of a prompt, of a session with one answered prompt, of one that waits
Prompted(rows) == Added(Added(rows, WordRow("user", 1)), ItemRow("item"))
Answered == Added(Added(Prompted(<<>>), WordRow("text", 1)), ItemRow("item"))
Waiting == Added(Added(Prompted(<<>>), CallRow(MaxCalls, "Pending")), ItemRow("permission"))

Init ==
    /\ projection = NoProjection /\ held = NoAsk
    /\ active = [s |-> NoSession, stop |-> "None"]
    /\ ui = [at |-> "boot", runtime |-> TRUE]
    /\ snap = NoProjection /\ stale = FALSE /\ listed = {}
    /\ up = <<>> /\ down = <<>>
    /\ server = [stored |-> Stored, awaiting |-> LeftAwaiting,
                 rows |-> [s \in Session |-> IF s \in LeftAwaiting THEN Waiting
                                             ELSE IF s \in Stored THEN Answered ELSE <<>>],
                 last |-> [s \in Session |-> IF s \in Stored THEN "Completed" ELSE "None"],
                 turn |-> NoTurn]
    /\ frames = <<>> /\ asking = NoAsk /\ alive = TRUE
    /\ budget = [prompts |-> MaxPrompts, cancels |-> MaxCancels, loads |-> MaxLoads,
                 words |-> MaxWords, calls |-> IF LeftAwaiting = {} THEN MaxCalls ELSE MaxCalls - 1]

-----------------------------------------------------------------------------
(* Requests of the client.  A request in flight is what the loop awaits.   *)

Send(msg) == up' = Append(up, msg)

\* clear_pending_permission_request; the oneshot's receiver answers the server
Cleared == IF held = NoAsk THEN up ELSE Append(up, Answer(held.call, "Cancelled"))

\* load_session, up to its request
StartLoad(s) ==
    /\ projection' = Reset(s)
    /\ held' = NoAsk
    /\ up' = Append(Cleared, Request("load", s))
    /\ ui' = [ui EXCEPT !.at = "load"]

StartNew == Send(Request("new", NoSession)) /\ ui' = [ui EXCEPT !.at = "new"]
StartList == Send(Request("list", NoSession)) /\ ui' = [ui EXCEPT !.at = "list"]

Looping == ui' = [ui EXCEPT !.at = "draw"]

\* bootstrap_client and the first request of initialize_default_session
Boot ==
    /\ ui.at = "boot"
    /\ \E latest \in Latest :
        IF latest = NoSession THEN StartNew /\ UNCHANGED <<projection, held>> ELSE StartLoad(latest)
    /\ stale' = TRUE
    /\ UNCHANGED <<active, snap, listed, down, remote, budget>>

\* spawning the server or the initialize request fails or times out
BootFails ==
    /\ ui.at = "boot"
    /\ alive' = FALSE
    /\ projection' = StartupError(projection)
    /\ ui' = [at |-> "draw", runtime |-> FALSE]
    /\ stale' = TRUE
    /\ UNCHANGED <<held, active, snap, listed, up, down, server, frames, asking, budget>>

-----------------------------------------------------------------------------
(* Messages from the server.  Each is handled by a task of its own, in the *)
(* order of arrival; every change marks activity.                          *)

Arrives(kind) == down # <<>> /\ Head(down).kind = kind /\ down' = Tail(down)

Notification ==
    /\ Arrives("note")
    /\ projection' = Notified(projection, Head(down).s, Head(down).row)
    /\ stale' = TRUE
    /\ UNCHANGED <<held, active, ui, snap, listed, up, remote, budget>>

\* request_permission: an older request is answered as cancelled, the new one
\* waits on its oneshot
RequestPermission ==
    /\ Arrives("ask")
    /\ projection' = PermissionRequested(projection, Head(down).s, Head(down).call)
    /\ held' = Head(down)
    /\ up' = Cleared
    /\ stale' = TRUE
    /\ UNCHANGED <<active, ui, snap, listed, remote, budget>>

\* the prompt's task gets its response and marks activity
PromptResponse ==
    /\ Arrives("prompted")
    /\ active' = [active EXCEPT !.stop = Head(down).status]
    /\ stale' = TRUE
    /\ UNCHANGED <<projection, held, ui, snap, listed, up, remote, budget>>

\* new_session returns and the session it created is loaded
Created ==
    /\ Arrives("created") /\ ui.at = "new"
    /\ StartLoad(Head(down).s)
    /\ stale' = TRUE
    /\ UNCHANGED <<active, snap, listed, remote, budget>>

\* load_session returns: the metadata, then the session browser
LoadReturns ==
    /\ Arrives("loaded") /\ ui.at = "load"
    /\ projection' = LoadedSession(projection, Head(down).status)
    /\ StartList
    /\ stale' = TRUE
    /\ UNCHANGED <<held, active, snap, listed, remote, budget>>

\* the latest session is not there: initialize_default_session makes a new one
LatestMissing ==
    /\ Arrives("missing") /\ ui.at = "load"
    /\ StartNew
    /\ UNCHANGED <<projection, held, active, snap, stale, listed, remote, budget>>

Listed ==
    /\ Arrives("listed") /\ ui.at = "list"
    /\ listed' = server.stored
    /\ Looping
    /\ stale' = TRUE
    /\ UNCHANGED <<projection, held, active, snap, up, remote, budget>>

\* mutant: the prompt's task goes on waiting
ConnectionLostUnseen ==
    /\ ~ alive /\ down = <<>>
    /\ ui.at \in {"new", "load", "list"}
    /\ IF snap = NoProjection
       THEN projection' = StartupError(projection) /\ Looping /\ stale' = TRUE
       ELSE ui' = [ui EXCEPT !.at = "failed"] /\ UNCHANGED <<projection, stale>>
    /\ UNCHANGED <<held, active, snap, listed, up, down, remote, budget>>

\* the pipe is at its end: the prompt's task fails, and so does the request the
\* loop awaits; before the loop that is a startup error, in the loop the client exits
ConnectionLost ==
    /\ ~ alive /\ down = <<>>
    /\ \/ /\ active.s # NoSession /\ active.stop = "None"
          /\ active' = [active EXCEPT !.stop = "Failed"]
          /\ stale' = TRUE
          /\ UNCHANGED <<projection, ui>>
       \/ /\ ui.at \in {"new", "load", "list"}
          /\ IF snap = NoProjection
             THEN projection' = StartupError(projection) /\ Looping /\ stale' = TRUE
             ELSE ui' = [ui EXCEPT !.at = "failed"] /\ UNCHANGED <<projection, stale>>
          /\ UNCHANGED active
    /\ UNCHANGED <<held, snap, listed, up, down, remote, budget>>

-----------------------------------------------------------------------------
(* The event loop (run_projection_iteration).                              *)

\* poll_active_prompt: the finished prompt, then the session browser
PollActivePrompt ==
    /\ ui.at = "draw" /\ active.stop # "None"
    /\ projection' = PromptFinished(projection, active.stop)
    /\ active' = [s |-> NoSession, stop |-> "None"]
    /\ StartList
    /\ stale' = TRUE
    /\ UNCHANGED <<held, snap, listed, down, remote, budget>>

\* the snapshot is taken and drawn
Draw ==
    /\ ui.at = "draw" /\ active.stop = "None"
    /\ snap' = projection
    /\ stale' = FALSE
    /\ ui' = [ui EXCEPT !.at = "wait"]
    /\ UNCHANGED <<projection, held, active, listed, up, down, remote, budget>>

\* the select is biased: activity comes before a key
Activity ==
    /\ ui.at = "wait" /\ stale
    /\ Looping
    /\ UNCHANGED <<projection, held, active, snap, stale, listed, up, down, remote, budget>>

\* a key is mapped by the snapshot (projection_action_from_event) and applied to
\* what is there now (apply_projection_action)
Key == ui.at = "wait" /\ ~ stale

\* permission_action_for_key, resolve_pending_permission_selection; an error of an
\* action leaves the loop
AnswerPermission ==
    /\ Key /\ snap.ask # NoCall
    /\ IF held = NoAsk
       THEN ui' = [ui EXCEPT !.at = "failed"] /\ UNCHANGED <<projection, up>>
       ELSE \E outcome \in {"Allow", "Deny"} :
                /\ projection' = PermissionSelected(projection, outcome)
                /\ Send(Answer(held.call, outcome))
                /\ Looping
    /\ held' = NoAsk
    /\ UNCHANGED <<active, snap, stale, listed, down, remote, budget>>

\* cancel_pending_permission: q, Esc, Ctrl-C while a permission is shown
CancelPermission ==
    /\ Key /\ snap.ask # NoCall
    /\ up' = Cleared
    /\ projection' = IF held = NoAsk THEN projection ELSE [projection EXCEPT !.ask = NoCall]
    /\ held' = NoAsk
    /\ Looping
    /\ UNCHANGED <<active, snap, stale, listed, down, remote, budget>>

\* cancel_prompt: the same keys while a prompt is in flight; without an active
\* prompt nothing happens
CancelPrompt ==
    /\ Key /\ snap.ask = NoCall /\ InFlight(snap)
    /\ IF active.s = NoSession THEN UNCHANGED <<up, budget>>
       ELSE /\ budget.cancels > 0
            /\ Send(Request("cancel", active.s))
            /\ budget' = [budget EXCEPT !.cancels = @ - 1]
    /\ Looping
    /\ UNCHANGED <<projection, held, active, snap, stale, listed, down, remote>>

\* the same keys otherwise; shutdown ends the server
Quit ==
    /\ Key /\ snap.ask = NoCall /\ ~ InFlight(snap)
    /\ ui' = [ui EXCEPT !.at = "quit"]
    /\ UNCHANGED <<projection, held, active, snap, stale, listed, up, down, remote, budget>>

\* create_new_session; without a server nothing happens
NewSession ==
    /\ Key /\ snap.ask = NoCall /\ ~ InFlight(snap) /\ ui.runtime
    /\ budget.loads > 0 /\ server.stored # Session
    /\ budget' = [budget EXCEPT !.loads = @ - 1]
    /\ StartNew
    /\ UNCHANGED <<projection, held, active, snap, stale, listed, down, remote>>

\* switch_session, to a neighbour in the browser
SwitchSession ==
    /\ Key /\ CanEditDraft(snap)
    /\ budget.loads > 0
    /\ \E s \in listed \ {projection.shown} : StartLoad(s)
    /\ budget' = [budget EXCEPT !.loads = @ - 1]
    /\ stale' = TRUE
    /\ UNCHANGED <<active, snap, listed, down, remote>>

TypeDraft ==
    /\ Key /\ CanEditDraft(snap) /\ budget.prompts > 0
    /\ projection' = [projection EXCEPT !.draft = TRUE]
    /\ Looping /\ stale' = TRUE
    /\ UNCHANGED <<held, active, snap, listed, up, down, remote, budget>>

\* submit_prompt
SubmitPrompt ==
    /\ Key /\ CanEditDraft(snap)
    /\ projection.draft /\ projection.shown # NoSession /\ active.s = NoSession
    /\ projection' = PromptStarted(projection)
    /\ active' = [s |-> projection.shown, stop |-> "None"]
    /\ Send(Request("prompt", projection.shown))
    /\ budget' = [budget EXCEPT !.prompts = @ - 1]
    /\ Looping /\ stale' = TRUE
    /\ UNCHANGED <<held, snap, listed, down, remote>>

\* keys that scroll, and those that map to nothing
Scroll == Key /\ Looping /\ stale' = TRUE
          /\ UNCHANGED <<projection, held, active, snap, listed, up, down, remote, budget>>

-----------------------------------------------------------------------------
(* The server's tasks.                                                     *)

Takes(kind) == alive /\ up # <<>> /\ Head(up).kind = kind /\ up' = Tail(up)
Responds(msgs) == down' = down \o msgs

ServeNew ==
    /\ Takes("new")
    /\ \E s \in Session \ server.stored :
        /\ server' = [server EXCEPT !.stored = @ \cup {s}]
        /\ Responds(<<Response("created", s, "None")>>)
    /\ UNCHANGED <<client, frames, asking, alive, budget>>

\* handle_session_load: what comes before a permission request is sent, the
\* response waits for its answer
ServeLoad ==
    /\ Takes("load")
    /\ LET s == Head(up).s IN
       IF s \notin server.stored
       THEN Responds(<<Response("missing", s, "None")>>) /\ UNCHANGED asking
       ELSE IF s \in server.awaiting
       THEN /\ Responds(SubSeq(Replay(s), 1, Len(Replay(s)) - 1))
            /\ asking' = Replay(s)[Len(Replay(s)) - 1]
       ELSE Responds(Replay(s)) /\ UNCHANGED asking
    /\ UNCHANGED <<client, server, frames, alive, budget>>

ServeList ==
    /\ Takes("list")
    /\ Responds(<<Response("listed", NoSession, "None")>>)
    /\ UNCHANGED <<client, server, frames, asking, alive, budget>>

Rows == server.rows[server.turn.s]
Running == alive /\ server.turn.phase = "running"

\* the turn's rows and phase change, and a task's frames go to the dispatcher
Notes(sent, by) == [j \in DOMAIN sent |-> [msg |-> Note(server.turn.s, sent[j]), by |-> by]]
Asked(k, by) == <<[msg |-> Ask(server.turn.s, k, by), by |-> by]>>
InTurn(rows, turn, queued) ==
    /\ server' = [server EXCEPT
            !.rows[server.turn.s] = IF turn.stop = "None" THEN rows ELSE Added(rows, ItemRow("item")),
            !.turn = turn,
            !.last[server.turn.s] = IF turn.stop = "None" THEN @ ELSE turn.stop]
    /\ frames' = frames \o queued

\* a call with the states it goes through
States(row, statuses) == [j \in DOMAIN statuses |-> [row EXCEPT !.status = statuses[j]]]
Called(k, status) == Added(Rows, CallRow(k, status))

\* start_live_prompt_turn: the prompt itself counts as sent
ServePrompt ==
    /\ Takes("prompt")
    /\ LET s == Head(up).s IN
       server' = [server EXCEPT !.rows[s] = Prompted(@), !.last[s] = "Running",
                                !.turn = [NoTurn EXCEPT !.s = s, !.phase = "running"]]
    /\ UNCHANGED <<client, down, frames, asking, alive, budget>>

Stream(kind) ==
    /\ Running /\ budget.words > 0
    /\ InTurn(Grow(Rows, kind), server.turn, Notes(<<WordRow(kind, 1)>>, "prompt"))
    /\ budget' = [budget EXCEPT !.words = @ - 1]
    /\ UNCHANGED <<client, up, down, asking, alive>>

\* a call that is allowed by rule runs at once
RunCall ==
    /\ Running /\ budget.calls > 0
    /\ LET rows == Called(budget.calls, "InProgress") IN
       InTurn(rows, [server.turn EXCEPT !.phase = "tool", !.call = budget.calls],
              Notes(States(Last(rows), <<"Pending", "InProgress">>), "prompt"))
    /\ budget' = [budget EXCEPT !.calls = @ - 1]
    /\ UNCHANGED <<client, up, down, asking, alive>>

AskForCall ==
    /\ Running /\ budget.calls > 0
    /\ LET k == budget.calls
           rows == Called(k, "Pending")
       IN InTurn(Added(rows, ItemRow("permission")), [server.turn EXCEPT !.phase = "awaiting", !.call = k],
                 Notes(<<Last(rows)>>, "prompt") \o Asked(k, "prompt"))
    /\ budget' = [budget EXCEPT !.calls = @ - 1]
    /\ UNCHANGED <<client, up, down, asking, alive>>

ToolReturns ==
    /\ alive /\ server.turn.phase = "tool"
    /\ \E status \in {"Completed", "Failed"} :
        LET rows == SetCall(Rows, server.turn.call, status) IN
        InTurn(rows, [server.turn EXCEPT !.phase = "running"],
               Notes(<<TheCall(rows, server.turn.call)>>, "prompt"))
    /\ UNCHANGED <<client, up, down, asking, alive, budget>>

EndTurn ==
    /\ Running
    /\ \E stop \in {"Completed", "Failed"} :
        InTurn(Rows, [server.turn EXCEPT !.phase = "idle", !.stop = stop], <<>>)
    /\ UNCHANGED <<client, up, down, asking, alive, budget>>

CancelledTurn == [server.turn EXCEPT !.phase = "idle", !.stop = "Cancelled", !.cancelled = TRUE]

Changed(rows) == SelectSeq(rows, LAMBDA row : row.status \in {"Pending", "InProgress"})
Closing(rows) == CloseCalls(Changed(rows))

\* cancel_prompt_turn_for_session: the runtime messages the cancel's own poll
\* drains first, then the end of the turn.  A turn that is over is left alone.
ServeCancel ==
    /\ Takes("cancel")
    /\ \/ /\ server.turn.s # Head(up).s \/ server.turn.phase = "idle"
          /\ UNCHANGED <<server, frames, budget>>
       \/ /\ server.turn.s = Head(up).s /\ server.turn.phase # "idle"
          /\ InTurn(CloseCalls(Rows), CancelledTurn, Notes(Closing(Rows), "cancel"))
          /\ UNCHANGED budget
       \/ /\ server.turn.s = Head(up).s /\ Running /\ budget.words > 0
          /\ InTurn(Grow(Rows, "text"), CancelledTurn, Notes(<<WordRow("text", 1)>>, "cancel"))
          /\ budget' = [budget EXCEPT !.words = @ - 1]
       \/ /\ server.turn.s = Head(up).s /\ Running /\ budget.calls > 0
          /\ LET rows == Called(budget.calls, "Failed")
                 sent(statuses) == Notes(States(Last(rows), statuses), "cancel")
             IN  \/ InTurn(rows, CancelledTurn, sent(<<"Pending", "InProgress", "Failed">>))
                 \/ InTurn(Added(rows, ItemRow("permission")), CancelledTurn,
                           sent(<<"Pending">>) \o Asked(budget.calls, "cancel") \o sent(<<"Failed">>))
          /\ budget' = [budget EXCEPT !.calls = @ - 1]
    /\ UNCHANGED <<client, down, asking, alive>>

\* the dispatcher sends the oldest frame; behind a permission request it waits
Dispatch ==
    /\ alive /\ frames # <<>> /\ asking = NoAsk
    /\ Responds(<<Head(frames).msg>>)
    /\ frames' = Tail(frames)
    /\ asking' = IF Head(frames).msg.kind = "ask" THEN Head(frames).msg ELSE NoAsk
    /\ UNCHANGED <<client, up, server, alive, budget>>

\* process_permission_response; the answer to a cancel's request is dropped, one
\* for a cancelled turn is void, or fails the prompt where it is itself a cancel
ServeAnswer ==
    /\ Takes("answer")
    /\ LET k == Head(up).call
           outcome == Head(up).outcome
           turn == server.turn
       IN IF asking.by # "prompt" THEN UNCHANGED <<server, frames>>
          ELSE IF turn.stop # "None"
          THEN /\ server' = [server EXCEPT !.turn.stop = IF outcome = "Cancelled" THEN "Failed" ELSE @]
               /\ UNCHANGED frames
          ELSE LET sent(status) == Notes(States(TheCall(Rows, k), <<status>>), "prompt") IN
               CASE outcome = "Allow" ->
                      InTurn(SetCall(Rows, k, "InProgress"), [turn EXCEPT !.phase = "tool"], sent("InProgress"))
                 [] outcome = "Deny" ->
                      InTurn(SetCall(Rows, k, "Failed"), [turn EXCEPT !.phase = "running"], sent("Failed"))
                 [] outcome = "Cancelled" ->
                      InTurn(CloseCalls(Rows), [turn EXCEPT !.phase = "idle", !.stop = "Cancelled"],
                             Notes(Closing(Rows), "prompt"))
    /\ asking' = NoAsk
    /\ UNCHANGED <<client, down, alive, budget>>

\* the prompt's task returns its response once its own frames are sent and its
\* permission request answered; those of a cancel may still be on their way
Respond ==
    /\ alive /\ server.turn.stop # "None"
    /\ asking.by # "prompt" /\ \A j \in DOMAIN frames : frames[j].by # "prompt"
    /\ Responds(<<Response("prompted", server.turn.s, server.turn.stop)>>)
    /\ server' = [server EXCEPT !.turn = NoTurn]
    /\ UNCHANGED <<client, up, frames, asking, alive, budget>>

ServerExits ==
    /\ MayExit /\ alive
    /\ alive' = FALSE
    /\ UNCHANGED <<client, up, down, server, frames, asking, budget>>

-----------------------------------------------------------------------------
Handlers == \/ Notification \/ RequestPermission \/ PromptResponse \/ Created \/ LoadReturns
            \/ LatestMissing \/ Listed \/ ConnectionLost

Loop == PollActivePrompt \/ Draw \/ Activity

Keys == \/ AnswerPermission \/ CancelPermission \/ CancelPrompt \/ Quit \/ NewSession
        \/ SwitchSession \/ TypeDraft \/ SubmitPrompt \/ Scroll

Model == Stream("text") \/ Stream("thought") \/ RunCall \/ AskForCall \/ ToolReturns \/ EndTurn

Tasks == \/ ServeNew \/ ServeLoad \/ ServeList \/ ServePrompt \/ ServeCancel \/ ServeAnswer
         \/ Dispatch \/ Respond

\* the client has exited
Exited == ui.at \in {"quit", "failed"} /\ UNCHANGED vars

Next == Boot \/ BootFails \/ Handlers \/ Loop \/ Keys \/ Model \/ Tasks \/ ServerExits \/ Exited

\* The client's tasks and the server's run, a model or a tool says something at
\* last, the user answers what is asked
Spec ==
    /\ Init /\ [][Next]_vars
    /\ WF_vars(Boot) /\ WF_vars(Handlers) /\ WF_vars(Loop) /\ WF_vars(Tasks)
    /\ WF_vars(ToolReturns) /\ WF_vars(EndTurn)
    /\ SF_vars(AnswerPermission)
=============================================================================
