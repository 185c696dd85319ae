---------------------- MODULE TerminalServiceProperties ----------------------
(* What the agent may rely on of the client's terminals.                   *)
EXTENDS TerminalService

\* However the output was cut into reads, the buffer is the longest end of it that
\* fits the limit, and it says that something is missing exactly when it is.
Suffix(text, n) == SubSeq(text, n + 1, Len(text))
BufferIsLongestEnd ==
    \A t \in Terminal :
        LET all == captured[t]
            kept == buffer[t].text
        IN  /\ kept = Suffix(all, Len(all) - Len(kept))
            /\ Bytes(kept) <= Limit
            /\ kept # all => Bytes(Suffix(all, Len(all) - Len(kept) - 1)) > Limit
            /\ buffer[t].truncated = (kept # all)

\* Once a wait, a kill or a release is answered the process has ended and all its
\* output is in the buffer, unless another such request still waits for the readers.
AnsweredWaitHasOutput ==
    \A r \in Request : request[r].at = "done" /\ request[r].kind # "output" =>
        LET t == request[r].terminal IN
        /\ process[t] \in {"exited", "killed"}
        /\ \/ \A s \in Stream : pipe[t][s] = <<>> /\ reader[t][s] = "done"
           \/ \E q \in Request : request[q].terminal = t /\ request[q].at = "readers"

\* A kill or a release ends the process, also one that would run for ever, unless a
\* wait got the process's mutex before it.  Its answer is certain only once nothing
\* that the process started keeps the pipes open: the kill reaches the process alone,
\* and whoever took the reader tasks waits for the end of the pipes.
Behind(r) == {q \in Request : \E j, k \in DOMAIN lockq[request[r].terminal] :
                /\ j < k /\ lockq[request[r].terminal][j] = q /\ lockq[request[r].terminal][k] = r}
Kills(r) == request[r].kind \in {"kill", "release"}
Dead(t) == process[t] \in {"exited", "killed"}
KillIsServed ==
    \A r \in Request :
        /\ Kills(r) /\ request[r].at = "lock" /\ (\A q \in Behind(r) : request[q].kind # "wait")
           ~> Dead(request[r].terminal) /\ request[r].at \in {"readers", "done"}
        /\ Kills(r) /\ request[r].at = "readers" /\ ~ inherited[request[r].terminal]
           ~> request[r].at = "done"
=============================================================================
