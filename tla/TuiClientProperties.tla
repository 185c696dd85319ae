------------------------ MODULE TuiClientProperties ------------------------
(* What the user of the terminal client may rely on.                       *)
EXTENDS TuiClient

\* What the user is asked is what the client holds an answer's channel for: no key
\* answers another call, and none ends the client with "no request is pending".
AskIsHeld == projection.ask # NoCall => held.call = projection.ask /\ held.s = projection.shown

\* The session is at rest on both sides.
AtRest == /\ alive /\ ui.at = "wait" /\ ~ stale /\ active.s = NoSession
          /\ up = <<>> /\ down = <<>> /\ frames = <<>> /\ asking = NoAsk
          /\ projection.shown # NoSession

Calls(rows) == SelectSeq(rows, LAMBDA row : row.kind = "call")
WordsOf(rows, kind) ==
    FoldLeft(LAMBDA sum, row : IF row.kind = kind THEN sum + row.n ELSE sum, 0, rows)
Saying == {"text", "thought"}

\* At rest the client has what the session holds: every call, once and with its
\* state, in their order, and every word, once.
ShownIsSession ==
    AtRest => LET shown == projection.rows
                  rows == server.rows[projection.shown]
              IN  /\ Calls(shown) = Calls(rows)
                  /\ \A kind \in Saying : WordsOf(shown, kind) = WordsOf(rows, kind)

\* A prompt ends, whatever is cancelled or lost; what the user is asked gets answered,
\* by a key if need be; and the screen leaves the in-flight state, unless the user
\* cancelled: an update or a question of the cancelled turn that comes behind the
\* prompt's response (apply_tool_call_update, apply_permission_request) puts it back
\* there, with no prompt left whose end would reset it.
Over == ui.at \in {"quit", "failed"}
HasCancelled == budget.cancels < MaxCancels
NothingWaitsForEver ==
    /\ (active.s # NoSession \/ InFlight(projection))
       ~> Over \/ (active.s = NoSession /\ (~ InFlight(projection) \/ HasCancelled))
    /\ projection.ask # NoCall ~> projection.ask = NoCall \/ Over
=============================================================================
