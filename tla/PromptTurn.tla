----------------------------- MODULE PromptTurn -----------------------------
(***************************************************************************)
(* A prompt turn of the ACP server (fluent-code-acp/src/server.rs): the    *)
(* tasks that serve session/prompt and session/cancel of one session, the  *)
(* one lock they share, the dispatcher that carries their notifications    *)
(* and permission requests to the client, the client's answers, and the    *)
(* messages of the runtime that move the turn.                             *)
(*                                                                         *)
(* A turn is named by the prompt that started it.  The shared host is      *)
(* abstracted to what these tasks read of it: the turn in progress and its *)
(* phase, the call that awaits approval, the number of text deltas.  The   *)
(* reducer itself is module Reducer.  A batch is one call.                 *)
(***************************************************************************)
EXTENDS Naturals, Sequences, FiniteSets, SequencesExt

CONSTANTS
    NumPrompts,    \* bound: session/prompt requests of the client
    NumCancels,    \* bound: session/cancel notifications of the client
    MaxText,       \* bound: text deltas of all turns together
    MaxCalls,      \* bound: tool calls of all turns together
    CancelDuring,  \* prompts the client may send a cancel during
    MayAnswer      \* what the client answers to a permission request

Prompt == 1..NumPrompts
Cancel == NumPrompts + 1..NumPrompts + NumCancels
Task == Prompt \cup Cancel
Call == 1..MaxCalls

ASSUME PromptTurnAssumption ==
    /\ NumPrompts \in Nat \ {0} /\ NumCancels \in Nat
    /\ MaxText \in Nat /\ MaxCalls \in Nat
    /\ CancelDuring \subseteq Prompt
    /\ MayAnswer \subseteq {"Allow", "Deny", "Cancelled"}

Stops == {"EndTurn", "Cancelled", "Failed"}

VARIABLES
    ms,       \* the ManagedSession: the host's state and the fields beside it
    box,      \* runtime messages the host has not applied yet
    budget,   \* what the model may still say: [text, calls]
    lockq,    \* who waits for the session's lock, its holder first
    pc,       \* where each task is
    todo,     \* frames a task still has to send
    got,      \* a prompt's result frame, or the completion a cancel carries
    last,     \* the task's last poll ended the turn
    ask,      \* the call a task asked about and the client's answer
    out,      \* calls the tasks sent to the dispatcher, oldest first
    result,   \* the response of each prompt
    heard,    \* text deltas of each turn the client was sent
    asks,     \* how often the client was asked about each call
    verdict   \* the call whose question decided each call, 0 for none

vars == <<ms, box, budget, lockq, pc, todo, got, last, ask, out, result,
          heard, asks, verdict>>

NoLive == [turn |-> 0, told |-> 0, asked |-> {}]
NoAsk == [call |-> 0, answer |-> "None"]

Message == [turn : Prompt, kind : {"text", "done", "fail", "result"}, call : {0}]
           \cup [turn : Prompt, kind : {"call"}, call : Call]

Note(t, n) == [kind |-> "note", turn |-> t, n |-> n]
Permission(k) == [kind |-> "permission", call |-> k]
Result(id, stop) == [kind |-> "result", id |-> id, stop |-> stop]

-----------------------------------------------------------------------------
(* The host: what a runtime message, a reply and a cancel do to the turn.  *)

EndTurn(m, stop) ==
    [m EXCEPT !.turn = 0, !.phase = "Idle", !.call = 0, !.src = "none",
              !.stop[m.turn] = stop]

\* update() on a message of the runtime; one of another turn is ignored
HostApply(m, msg) ==
    IF msg.turn # m.turn THEN m
    ELSE CASE msg.kind = "text"   -> [m EXCEPT !.said[m.turn] = @ + 1]
           [] msg.kind = "call"   -> [m EXCEPT !.phase = "Awaiting", !.call = msg.call]
           [] msg.kind = "result" -> [m EXCEPT !.phase = "Generating", !.src = "stream"]
           [] msg.kind = "done"   -> EndTurn(m, "EndTurn")
           [] msg.kind = "fail"   -> EndTurn(m, "Failed")

\* mutant: a denied call does not restart the assistant
ReplyQuietly(m, answer) ==
    IF m.phase # "Awaiting" THEN m
    ELSE IF answer = "Allow"
         THEN [m EXCEPT !.phase = "RunningTool", !.call = 0, !.src = "tool"]
         ELSE [m EXCEPT !.phase = "Generating", !.call = 0, !.src = "none"]

\* Msg::ReplyToPendingTool: it names no call, the pending one is answered
Reply(m, answer) ==
    IF m.phase # "Awaiting" THEN m
    ELSE IF answer = "Allow"
         THEN [m EXCEPT !.phase = "RunningTool", !.call = 0, !.src = "tool"]
         ELSE [m EXCEPT !.phase = "Generating", !.call = 0, !.src = "stream"]

Submit(m, p) ==
    [m EXCEPT !.turn = p, !.latest = p, !.phase = "Generating", !.src = "stream"]

-----------------------------------------------------------------------------
(* The server's steps under the session's lock.                            *)

\* seed_live_prompt_turn_state: what the turn holds so far counts as emitted
Seed(m) ==
    [m EXCEPT !.live = IF m.turn = 0 THEN NoLive
                       ELSE [turn  |-> m.turn,
                             told  |-> m.said[m.turn],
                             asked |-> IF m.phase = "Awaiting" THEN {m.call} ELSE {}]]

\* PromptTurnEmissionState::project_frames: what was not emitted before
Unsent(m) ==
    LET t == m.live.turn IN
    (IF m.said[t] > m.live.told THEN <<Note(t, m.said[t] - m.live.told)>> ELSE <<>>)
    \o (IF m.turn = t /\ m.phase = "Awaiting" /\ m.call \notin m.live.asked
        THEN <<Permission(m.call)>> ELSE <<>>)

\* poll_live_prompt_turn once the host has drained its messages.  The turn's end
\* yields the result frame, forgets the pending id and the live turn.
Ended(m) == m.live.turn # 0 /\ m.stop[m.live.turn] # "None"

\* mutant: what was asked is not remembered
PolledForgetsAsked(m) ==
    IF m.live.turn = 0 THEN m
    ELSE IF Ended(m) THEN [m EXCEPT !.live = NoLive, !.pending = 0]
    ELSE [m EXCEPT !.live.told = m.said[m.live.turn]]

Polled(m) ==
    IF m.live.turn = 0 THEN m
    ELSE IF Ended(m) THEN [m EXCEPT !.live = NoLive, !.pending = 0]
    ELSE [m EXCEPT !.live.told = m.said[m.live.turn],
                   !.live.asked = IF m.phase = "Awaiting" THEN @ \cup {m.call} ELSE @]

\* mutant: the last poll yields the result only
PolledFramesResultOnly(m) ==
    IF m.live.turn = 0 THEN <<>>
    ELSE IF Ended(m) THEN IF m.pending # 0 THEN <<Result(m.pending, m.stop[m.live.turn])>> ELSE <<>>
    ELSE Unsent(m)

PolledFrames(m) ==
    IF m.live.turn = 0 THEN <<>>
    ELSE Unsent(m) \o IF Ended(m) /\ m.pending # 0
                      THEN <<Result(m.pending, m.stop[m.live.turn])>> ELSE <<>>

\* start_live_prompt_turn, up to its poll
StartTurn(m, p) == Seed([Submit(m, p) EXCEPT !.pending = p])

HasCancelTarget(m) == m.turn # 0

\* mutant: a turn that is over was completed
TerminalStateDone(m) ==
    IF m.latest = 0 \/ m.stop[m.latest] = "None" THEN "Error" ELSE "EndTurn"

\* prompt_completion_from_terminal_state, of the latest root run
TerminalState(m) ==
    IF m.latest = 0 \/ m.stop[m.latest] = "None" THEN "Error" ELSE m.stop[m.latest]

\* buffered_prompt_completion_from_outbound_frames: the last result wins
Carried(frames) ==
    LET IsLast(i) == /\ frames[i].kind = "result"
                     /\ \A j \in DOMAIN frames : j > i => frames[j].kind # "result"
    IN  IF \E i \in DOMAIN frames : IsLast(i)
        THEN frames[CHOOSE i \in DOMAIN frames : IsLast(i)].stop ELSE "None"

\* split_prompt_completion_frames: the frames that are sent by the cancel itself
Leading(frames) ==
    LET kept[n \in 0..Len(frames)] ==
            IF n = 0 THEN <<>>
            ELSE IF frames[n].kind = "result" THEN kept[n - 1]
            ELSE Append(kept[n - 1], frames[n])
    IN  kept[Len(frames)]

-----------------------------------------------------------------------------
Init ==
    /\ ms = [turn |-> 0, latest |-> 0, phase |-> "Idle", call |-> 0, src |-> "none",
             stop |-> [p \in Prompt |-> "None"], said |-> [p \in Prompt |-> 0],
             live |-> NoLive, pending |-> 0, buffered |-> "None"]
    /\ box = <<>> /\ budget = [text |-> MaxText, calls |-> MaxCalls]
    /\ lockq = <<>> /\ out = <<>>
    /\ pc = [t \in Task |-> "idle"]
    /\ todo = [t \in Task |-> <<>>]
    /\ got = [t \in Task |-> "None"]
    /\ last = [p \in Prompt |-> FALSE]
    /\ ask = [t \in Task |-> NoAsk]
    /\ result = [p \in Prompt |-> "None"]
    /\ heard = [p \in Prompt |-> 0]
    /\ asks = [k \in Call |-> 0]
    /\ verdict = [k \in Call |-> 0]

Holds(t) == lockq # <<>> /\ Head(lockq) = t
InFlight(p) == pc[p] \notin {"idle", "done"}

\* the end of a locked section: the task goes on at "at", after the lock's other
\* waiters where that needs the lock again
Release(t, at) ==
    /\ pc' = [pc EXCEPT ![t] = at]
    /\ lockq' = IF at \in {"poll", "store"} THEN Append(Tail(lockq), t) ELSE Tail(lockq)

\* queue up for the lock
Acquire(t, at) ==
    /\ pc' = [pc EXCEPT ![t] = at]
    /\ lockq' = Append(lockq, t)

\* the client sends a prompt; it waits for the answer to the one before
SendPrompt(p) ==
    /\ pc[p] = "idle" /\ (p > 1 => pc[p - 1] = "done")
    /\ Acquire(p, "start")
    /\ UNCHANGED <<ms, box, budget, todo, got, last, ask, out, result, heard, asks, verdict>>

\* start_live_prompt_turn_for_session
Start(p) ==
    /\ pc[p] = "start" /\ Holds(p)
    /\ IF ms.turn # 0
       THEN /\ result' = [result EXCEPT ![p] = "Busy"]
            /\ Release(p, "done")
            /\ UNCHANGED ms
       ELSE /\ ms' = StartTurn(ms, p)
            /\ pc' = [pc EXCEPT ![p] = "drain"]
            /\ UNCHANGED <<lockq, result>>
    /\ UNCHANGED <<box, budget, todo, got, last, ask, out, heard, asks, verdict>>

\* drain_runtime_messages, one message of the queue; the lock is held
Drain(t) ==
    /\ pc[t] \in {"drain", "redrain"} /\ box # <<>>
    /\ ms' = HostApply(ms, Head(box))
    /\ box' = Tail(box)
    /\ UNCHANGED <<budget, lockq, pc, todo, got, last, ask, out, result, heard, asks, verdict>>

\* mutant: the last poll is taken for the turn's end
ProjectOnce(p) ==
    /\ p \in Prompt /\ pc[p] = "drain" /\ box = <<>>
    /\ ms' = Polled(ms)
    /\ todo' = [todo EXCEPT ![p] = PolledFrames(ms) \o @]
    /\ Release(p, "send")
    /\ UNCHANGED <<box, budget, got, last, ask, out, result, heard, asks, verdict>>

\* poll_live_prompt_turn for a prompt, its queue drained
Project(p) ==
    /\ p \in Prompt /\ pc[p] = "drain" /\ box = <<>>
    /\ ms' = Polled(ms)
    /\ todo' = [todo EXCEPT ![p] = PolledFrames(ms) \o @]
    /\ last' = [last EXCEPT ![p] = @ /\ Polled(ms).live.turn = 0]
    /\ Release(p, "send")
    /\ UNCHANGED <<box, budget, got, ask, out, result, heard, asks, verdict>>

\* try_route_notification_frame: a notification or a permission request goes to
\* the dispatcher, and the task waits for its acknowledgement
SendFrame(t) ==
    /\ pc[t] = "send" /\ todo[t] # <<>>
    /\ Head(todo[t]).kind \in {"note", "permission"}
    /\ out' = Append(out, [task |-> t, frame |-> Head(todo[t])])
    /\ todo' = [todo EXCEPT ![t] = Tail(@)]
    /\ pc' = [pc EXCEPT ![t] = "ack"]
    /\ UNCHANGED <<ms, box, budget, lockq, got, last, ask, result, heard, asks, verdict>>

\* process_prompt_outbound_frames at a result frame: the prompt's own is kept, an
\* error ends the prompt, another prompt's result is dropped
TakeResult(p) ==
    /\ pc[p] = "send" /\ todo[p] # <<>> /\ Head(todo[p]).kind = "result"
    /\ LET f == Head(todo[p]) IN
       IF f.stop = "Failed"
       THEN /\ result' = [result EXCEPT ![p] = IF f.id = p THEN "Failed" ELSE "Error"]
            /\ pc' = [pc EXCEPT ![p] = "done"]
            /\ UNCHANGED got
       ELSE /\ got' = IF f.id = p THEN [got EXCEPT ![p] = f.stop] ELSE got
            /\ UNCHANGED <<result, pc>>
    /\ todo' = [todo EXCEPT ![p] = Tail(@)]
    /\ UNCHANGED <<ms, box, budget, lockq, last, ask, out, heard, asks, verdict>>

\* the frames are sent: return the response, or go on to wait for the runtime
FramesSent(p) ==
    /\ p \in Prompt /\ pc[p] = "send" /\ todo[p] = <<>>
    /\ IF got[p] # "None" \/ last[p]
       THEN /\ result' = [result EXCEPT ![p] = IF got[p] # "None" THEN got[p] ELSE "Error"]
            /\ pc' = [pc EXCEPT ![p] = "done"]
            /\ UNCHANGED lockq
       ELSE Acquire(p, "loop") /\ UNCHANGED result
    /\ UNCHANGED <<ms, box, budget, todo, got, last, ask, out, heard, asks, verdict>>

\* the checks both locked sections of the loop start with
TakesBuffered(p) ==
    /\ ms.buffered # "None"
    /\ result' = [result EXCEPT ![p] = ms.buffered]
    /\ ms' = [ms EXCEPT !.buffered = "None"]
    /\ Release(p, "done")

FindsTurnOver(p) ==
    /\ ms.buffered = "None" /\ ms.live.turn = 0
    /\ result' = [result EXCEPT ![p] = TerminalState(ms)]
    /\ Release(p, "done")
    /\ UNCHANGED ms

StillLive == ms.buffered = "None" /\ ms.live.turn # 0

\* the task keeps the lock while it waits for the runtime
Loop(p) ==
    /\ pc[p] = "loop" /\ Holds(p)
    /\ \/ TakesBuffered(p)
       \/ FindsTurnOver(p)
       \/ StillLive /\ pc' = [pc EXCEPT ![p] = "wait"] /\ UNCHANGED <<ms, lockq, result>>
    /\ UNCHANGED <<box, budget, todo, got, last, ask, out, heard, asks, verdict>>

\* wait_for_runtime_activity returns: the lock is released and taken again
Wake(p) ==
    /\ pc[p] = "wait" /\ box # <<>>
    /\ Release(p, "poll")
    /\ UNCHANGED <<ms, box, budget, todo, got, last, ask, out, result, heard, asks, verdict>>

PollTurn(p) ==
    /\ pc[p] = "poll" /\ Holds(p)
    /\ \/ TakesBuffered(p) /\ UNCHANGED last
       \/ FindsTurnOver(p) /\ UNCHANGED last
       \/ /\ StillLive
          /\ last' = [last EXCEPT ![p] = TRUE]
          /\ pc' = [pc EXCEPT ![p] = "drain"]
          /\ UNCHANGED <<ms, lockq, result>>
    /\ UNCHANGED <<box, budget, todo, got, ask, out, heard, asks, verdict>>

-----------------------------------------------------------------------------
(* The dispatcher and the client.                                          *)

\* dispatch_outbound_call on a notification
Deliver ==
    /\ out # <<>> /\ Head(out).frame.kind = "note"
    /\ LET f == Head(out).frame IN heard' = [heard EXCEPT ![f.turn] = @ + f.n]
    /\ pc' = [pc EXCEPT ![Head(out).task] = "send"]
    /\ out' = Tail(out)
    /\ UNCHANGED <<ms, box, budget, lockq, todo, got, last, ask, result, asks, verdict>>

\* dispatch_outbound_call on a permission request: it waits for the client, and
\* so does everything behind it.  A cancel drops the answer.
Answer ==
    /\ out # <<>> /\ Head(out).frame.kind = "permission"
    /\ LET t == Head(out).task
           k == Head(out).frame.call
       IN  /\ asks' = [asks EXCEPT ![k] = @ + 1]
           /\ IF t \in Cancel
              THEN pc' = [pc EXCEPT ![t] = "send"] /\ UNCHANGED <<ask, lockq>>
              ELSE /\ \E a \in MayAnswer : ask' = [ask EXCEPT ![t] = [call |-> k, answer |-> a]]
                   /\ Acquire(t, "apply")
    /\ out' = Tail(out)
    /\ UNCHANGED <<ms, box, budget, todo, got, last, result, heard, verdict>>

\* apply_permission_response up to its poll; the frames of the poll are put before
\* the ones still to send (prepend_outbound_frames)
ApplyAnswer(p) ==
    /\ pc[p] = "apply" /\ Holds(p)
    /\ LET answer == ask[p].answer IN
       IF answer = "Cancelled" /\ ~ HasCancelTarget(ms)
       THEN /\ result' = [result EXCEPT ![p] = "Error"]
            /\ Release(p, "done")
            /\ UNCHANGED <<ms, verdict>>
       ELSE /\ ms' = IF answer = "Cancelled" THEN EndTurn(ms, "Cancelled") ELSE Reply(ms, answer)
            /\ verdict' = IF ms.phase = "Awaiting"
                          THEN [verdict EXCEPT ![ms.call] = ask[p].call] ELSE verdict
            /\ pc' = [pc EXCEPT ![p] = "drain"]
            /\ UNCHANGED <<lockq, result>>
    /\ ask' = [ask EXCEPT ![p] = NoAsk]
    /\ last' = [last EXCEPT ![p] = FALSE]
    /\ UNCHANGED <<box, budget, todo, got, out, heard, asks>>

-----------------------------------------------------------------------------
(* session/cancel.                                                         *)

SendCancel(c) ==
    /\ pc[c] = "idle" /\ \E p \in CancelDuring : InFlight(p)
    /\ Acquire(c, "prepare")
    /\ UNCHANGED <<ms, box, budget, todo, got, last, ask, out, result, heard, asks, verdict>>

\* cancel_prompt_turn_for_session, up to its first poll
Prepare(c) ==
    /\ pc[c] = "prepare" /\ Holds(c)
    /\ ms' = IF ms.live.turn = 0 THEN Seed(ms) ELSE ms
    /\ pc' = [pc EXCEPT ![c] = "drain"]
    /\ UNCHANGED <<box, budget, lockq, todo, got, last, ask, out, result, heard, asks, verdict>>

\* the first poll, then cancel_prompt_turn: where the drained messages ended the
\* turn there is no cancel target, and the frames are lost with the error
CancelTurn(c) ==
    /\ c \in Cancel /\ pc[c] = "drain" /\ box = <<>>
    /\ IF ~ HasCancelTarget(ms)
       THEN /\ ms' = Polled(ms)
            /\ Release(c, "done")
            /\ UNCHANGED todo
       ELSE /\ ms' = EndTurn(Polled(ms), "Cancelled")
            /\ todo' = [todo EXCEPT ![c] = PolledFrames(ms)]
            /\ pc' = [pc EXCEPT ![c] = "redrain"]
            /\ UNCHANGED lockq
    /\ UNCHANGED <<box, budget, got, last, ask, out, result, heard, asks, verdict>>

\* the poll after the cancel: split_prompt_completion_frames and
\* buffered_prompt_completion_from_outbound_frames keep the result apart
Cancelled(c) ==
    /\ pc[c] = "redrain" /\ box = <<>>
    /\ ms' = Polled(ms)
    /\ LET frames == todo[c] \o PolledFrames(ms) IN
       /\ todo' = [todo EXCEPT ![c] = Leading(frames)]
       /\ got' = [got EXCEPT ![c] = Carried(frames)]
       /\ Release(c, IF Carried(frames) = "None" THEN "send" ELSE "store")
    /\ UNCHANGED <<box, budget, last, ask, out, result, heard, asks, verdict>>

\* store_buffered_prompt_completion, before the frames are sent and again after
Store(c) ==
    /\ pc[c] \in {"store", "restore"} /\ Holds(c)
    /\ ms' = [ms EXCEPT !.buffered = got[c]]
    /\ Release(c, IF pc[c] = "store" THEN "send" ELSE "done")
    /\ UNCHANGED <<box, budget, todo, got, last, ask, out, result, heard, asks, verdict>>

\* process_cancel_outbound_frames, the frames sent
CancelSent(c) ==
    /\ c \in Cancel /\ pc[c] = "send" /\ todo[c] = <<>>
    /\ IF got[c] = "None" THEN pc' = [pc EXCEPT ![c] = "done"] /\ UNCHANGED lockq
       ELSE Acquire(c, "restore")
    /\ UNCHANGED <<ms, box, budget, todo, got, last, ask, out, result, heard, asks, verdict>>

-----------------------------------------------------------------------------
\* The runtime's task for the turn reports: a stream says text, asks for a call
\* or ends; a tool returns its result.
Report(kind) ==
    /\ ms.src = (IF kind = "result" THEN "tool" ELSE "stream")
    /\ kind = "text" => budget.text > 0
    /\ kind = "call" => budget.calls > 0
    /\ box' = Append(box, [turn |-> ms.turn, kind |-> kind,
                           call |-> IF kind = "call" THEN budget.calls ELSE 0])
    /\ budget' = CASE kind = "text" -> [budget EXCEPT !.text = @ - 1]
                   [] kind = "call" -> [budget EXCEPT !.calls = @ - 1]
                   [] OTHER -> budget
    /\ ms' = IF kind = "text" THEN ms ELSE [ms EXCEPT !.src = "none"]
    /\ UNCHANGED <<lockq, pc, todo, got, last, ask, out, result, heard, asks, verdict>>

Runtime == \E kind \in {"text", "call", "done", "fail", "result"} : Report(kind)

PromptStep(p) == \/ Start(p) \/ Drain(p) \/ Project(p) \/ SendFrame(p) \/ TakeResult(p) \/ FramesSent(p)
                 \/ Loop(p) \/ Wake(p) \/ PollTurn(p) \/ ApplyAnswer(p)
CancelStep(c) == \/ Prepare(c) \/ Drain(c) \/ CancelTurn(c) \/ Cancelled(c)
                 \/ Store(c) \/ SendFrame(c) \/ CancelSent(c)

Next ==
    \/ \E p \in Prompt : SendPrompt(p) \/ PromptStep(p)
    \/ \E c \in Cancel : SendCancel(c) \/ CancelStep(c)
    \/ Deliver \/ Answer \/ Runtime

\* The tokio tasks run, the dispatcher runs, the client answers what it is asked
ServerFairness ==
    /\ \A p \in Prompt : WF_vars(PromptStep(p))
    /\ \A c \in Cancel : WF_vars(CancelStep(c))
    /\ WF_vars(Deliver) /\ WF_vars(Answer)

\* ... and the model's stream or the tool always reports something further
Spec == Init /\ [][Next]_vars /\ ServerFairness /\ WF_vars(Runtime)
=============================================================================
