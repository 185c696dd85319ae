------------------------ MODULE PromptTurnProperties ------------------------
(* What a prompt turn of the ACP server promises its client.               *)
EXTENDS PromptTurn

\* A prompt is answered with what became of the turn it started.
AnswersItsOwnTurn ==
    \A p \in Prompt : result[p] \in Stops => ms.stop[p] = result[p]

\* No turn goes on once the prompt that started it was answered: nobody would
\* send its updates, and every later prompt would be refused.
NoOrphanTurn == ms.turn # 0 => InFlight(ms.turn)

\* The client's answer decides the call it was asked about, and no call is asked
\* about twice.
AnswerReachesAskedCall ==
    \A k \in Call : verdict[k] \in {0, k} /\ asks[k] <= 1

\* A turn that ran to its end reached the client as a whole before the response
\* did, unless a cancel was sent.
NothingUnsaid ==
    \A p \in Prompt : result[p] = "EndTurn" /\ (\A c \in Cancel : pc[c] = "idle")
                      => heard[p] = ms.said[p]

\* Every prompt is answered and every cancel is served, however the tasks take turns
\* with the session's lock and whoever takes the other's response.
EveryRequestServed ==
    \A t \in Task : pc[t] \in {"start", "prepare"} ~> pc[t] = "done"
=============================================================================
