--------------------------- MODULE StreamContract ---------------------------
(* What a stream task of the runtime promises its host, whatever the provider
   does and however often the connection is tried: it speaks, then it falls
   silent for ever with one verdict. "done" means that something was said and no
   tool was asked for; "silent" means that a tool was asked for, whose result
   will start the next stream, or that the task was aborted. *)
EXTENDS FiniteSets

CONSTANT Streams

VARIABLES said,      \* stream -> the kinds of events the host has been sent
          verdict    \* stream -> "none" until the stream has ended

contractVars == <<said, verdict>>

Init == said = [s \in Streams |-> {}] /\ verdict = [s \in Streams |-> "none"]

Speak(s) == /\ verdict[s] = "none"
            /\ \E kind \in {"text", "call"} : said' = [said EXCEPT ![s] = @ \cup {kind}]
            /\ UNCHANGED verdict

End(s) == /\ verdict[s] = "none"
          /\ \E v \in {"done", "failed", "silent"} :
                /\ v = "done" => said[s] = {"text"}
                /\ verdict' = [verdict EXCEPT ![s] = v]
          /\ UNCHANGED said

Next == \E s \in Streams : Speak(s) \/ End(s)

Spec == Init /\ [][Next]_contractVars
=============================================================================
