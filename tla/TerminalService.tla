--------------------------- MODULE TerminalService ---------------------------
(***************************************************************************)
(* The terminals the client runs for the agent (AcpTerminalService and     *)
(* ManagedTerminal in fluent-code-tui/src/acp.rs): the registry, each      *)
(* terminal's process behind a mutex that a wait holds until the process   *)
(* ends, the two tasks that read its pipes, and the buffer they fill.      *)
(*                                                                         *)
(* Every request of the agent is a task; the tasks interleave at their     *)
(* awaits.  Output is counted in bytes: a process writes characters of one *)
(* or of two bytes, and what a read cuts in two is replaced by marks of    *)
(* three bytes (from_utf8_lossy).                                          *)
(***************************************************************************)
EXTENDS Naturals, Sequences, FiniteSets, SequencesExt

CONSTANTS
    Session,      \* sessions with a registered working directory
    MaxTerminals, \* bound: terminals the agent creates
    MaxRequests,  \* bound: its other requests
    MaxChars,     \* bound: characters all processes write
    Limit         \* output_byte_limit of every terminal

Terminal == 1..MaxTerminals
Request == 1..MaxRequests
Stream == {"stdout", "stderr"}
Kind == {"output", "wait", "kill", "release"}

ASSUME TerminalAssumption ==
    {MaxTerminals, MaxRequests, MaxChars, Limit} \subseteq Nat

VARIABLES
    owner,       \* the session of each terminal in the registry, "none" without one
    process,     \* its process: absent, running, exited, killed
    inherited,   \* processes it started outlive it and keep the pipes open
    pipe,        \* bytes written and not read
    reader,      \* the task of each stream: reading, done
    untaken,     \* terminals whose reader tasks nobody waits for yet
    buffer,      \* what is kept of the output: [text, truncated]
    captured,    \* everything the readers appended
    exit,        \* the exit status on record
    lockq,       \* who waits for the process's mutex, its holder first
    request,     \* the requests: [kind, terminal, session, at, took]
    budget

vars == <<owner, process, inherited, pipe, reader, untaken, buffer, captured, exit, lockq,
          request, budget>>

-----------------------------------------------------------------------------
(* TerminalOutputBuffer.                                                   *)

\* the bytes of a character, and the bytes a character of the output has
Narrow == <<"a">>
Wide == <<"b1", "b2">>
Count(text, c) == Cardinality({j \in DOMAIN text : text[j] = c})
Bytes(text) == Count(text, "a") + 2 * Count(text, "b") + 3 * Count(text, "?")

\* String::from_utf8_lossy on one chunk
Decoded(chunk) ==
    LET Opens(j) == chunk[j] = "b1" /\ j < Len(chunk) /\ chunk[j + 1] = "b2"
        Closes(j) == chunk[j] = "b2" /\ j > 1 /\ chunk[j - 1] = "b1"
        text[j \in 0..Len(chunk)] ==
            IF j = 0 THEN <<>>
            ELSE IF Closes(j) THEN text[j - 1]
            ELSE Append(text[j - 1], IF chunk[j] = "a" THEN "a" ELSE IF Opens(j) THEN "b" ELSE "?")
    IN  text[Len(chunk)]

\* mutant: the cut is taken for a character boundary
KeepBytes(text) ==
    LET cut(n) == SubSeq(text, n + 1, Len(text))
        n == CHOOSE m \in 0..Len(text) :
                /\ Bytes(SubSeq(text, 1, m)) <= Bytes(text) - Limit
                /\ \A j \in m + 1..Len(text) : Bytes(SubSeq(text, 1, j)) > Bytes(text) - Limit
    IN  IF Bytes(text) <= Limit THEN text ELSE cut(n)

\* enforce_byte_limit: the excess is dropped, up to the next character boundary
Keep(text) ==
    IF Bytes(text) <= Limit THEN text
    ELSE LET excess == Bytes(text) - Limit
             n == CHOOSE m \in 1..Len(text) :
                    /\ Bytes(SubSeq(text, 1, m)) >= excess
                    /\ \A j \in 1..m - 1 : Bytes(SubSeq(text, 1, j)) < excess
         IN  SubSeq(text, n + 1, Len(text))

\* append_chunk
Appended(b, chunk) ==
    LET text == b.text \o Decoded(chunk)
    IN  [text |-> Keep(text), truncated |-> b.truncated \/ Keep(text) # text]

-----------------------------------------------------------------------------
Idle == [kind |-> "none", terminal |-> 1, session |-> "none", at |-> "idle", took |-> FALSE]

Init ==
    /\ owner = [t \in Terminal |-> "none"]
    /\ process = [t \in Terminal |-> "absent"]
    /\ inherited = [t \in Terminal |-> FALSE]
    /\ pipe = [t \in Terminal |-> [s \in Stream |-> <<>>]]
    /\ reader = [t \in Terminal |-> [s \in Stream |-> "done"]]
    /\ untaken = {}
    /\ buffer = [t \in Terminal |-> [text |-> <<>>, truncated |-> FALSE]]
    /\ captured = [t \in Terminal |-> <<>>]
    /\ exit = [t \in Terminal |-> "none"]
    /\ lockq = [t \in Terminal |-> <<>>]
    /\ request = [r \in Request |-> Idle]
    /\ budget = MaxChars

Holds(r) == lockq[request[r].terminal] # <<>> /\ Head(lockq[request[r].terminal]) = r
Unlock(t) == lockq' = [lockq EXCEPT ![t] = Tail(@)]
Goes(r, at) == request' = [request EXCEPT ![r].at = at]

-----------------------------------------------------------------------------
(* Processes and the tasks that read their output.                         *)

\* the process writes, or what it started does
Write(t, s) ==
    /\ process[t] = "running" \/ inherited[t]
    /\ budget > 0
    /\ \E char \in {Narrow, Wide} : pipe' = [pipe EXCEPT ![t][s] = @ \o char]
    /\ budget' = budget - 1
    /\ UNCHANGED <<owner, process, inherited, reader, untaken, buffer, captured, exit, lockq, request>>

\* the process ends by itself; what it started may live on
Exit(t) ==
    /\ process[t] = "running"
    /\ process' = [process EXCEPT ![t] = "exited"]
    /\ \E lives \in BOOLEAN : inherited' = [inherited EXCEPT ![t] = lives]
    /\ UNCHANGED <<owner, pipe, reader, untaken, buffer, captured, exit, lockq, request, budget>>

ChildEnds(t) ==
    /\ inherited[t]
    /\ inherited' = [inherited EXCEPT ![t] = FALSE]
    /\ UNCHANGED <<owner, process, pipe, reader, untaken, buffer, captured, exit, lockq, request, budget>>

\* capture_terminal_stream: a read returns some of what is there, or the end
Read(t, s) ==
    /\ reader[t][s] = "reading" /\ pipe[t][s] # <<>>
    /\ \E n \in 1..Len(pipe[t][s]) :
        LET chunk == SubSeq(pipe[t][s], 1, n) IN
        /\ buffer' = [buffer EXCEPT ![t] = Appended(@, chunk)]
        /\ captured' = [captured EXCEPT ![t] = @ \o Decoded(chunk)]
        /\ pipe' = [pipe EXCEPT ![t][s] = SubSeq(@, n + 1, Len(@))]
    /\ UNCHANGED <<owner, process, inherited, reader, untaken, exit, lockq, request, budget>>

ReadEnd(t, s) ==
    /\ reader[t][s] = "reading" /\ pipe[t][s] = <<>>
    /\ process[t] # "running" /\ ~ inherited[t]
    /\ reader' = [reader EXCEPT ![t][s] = "done"]
    /\ UNCHANGED <<owner, process, inherited, pipe, untaken, buffer, captured, exit, lockq, request, budget>>

-----------------------------------------------------------------------------
(* The agent's requests.                                                   *)

\* create_terminal
Create(t, session) ==
    /\ process[t] = "absent" /\ \A u \in Terminal : u < t => process[u] # "absent"
    /\ process' = [process EXCEPT ![t] = "running"]
    /\ reader' = [reader EXCEPT ![t] = [s \in Stream |-> "reading"]]
    /\ untaken' = untaken \cup {t}
    /\ owner' = [owner EXCEPT ![t] = session]
    /\ UNCHANGED <<inherited, pipe, buffer, captured, exit, lockq, request, budget>>

\* terminal_for_session, or remove_terminal_for_session for a release: a terminal
\* that is not there or of another session is an error; then the process's mutex
Ask(r, kind, t, session) ==
    /\ request[r].at = "idle" /\ \A q \in Request : q < r => request[q].at # "idle"
    /\ process[t] # "absent"
    /\ LET asked == [kind |-> kind, terminal |-> t, session |-> session, at |-> "lock", took |-> FALSE] IN
       IF owner[t] # session
       THEN Goes(r, "error") /\ UNCHANGED <<owner, lockq>>
       ELSE /\ request' = [request EXCEPT ![r] = asked]
            /\ lockq' = [lockq EXCEPT ![t] = Append(@, r)]
            /\ owner' = IF kind = "release" THEN [owner EXCEPT ![t] = "none"] ELSE owner
    /\ UNCHANGED <<process, inherited, pipe, reader, untaken, buffer, captured, exit, budget>>

Status(t) == process[t]

\* refresh_exit_status, under the mutex
Refresh(r) ==
    LET t == request[r].terminal IN
    /\ request[r].at = "lock" /\ request[r].kind = "output" /\ Holds(r)
    /\ exit' = IF exit[t] = "none" /\ process[t] # "running" THEN [exit EXCEPT ![t] = Status(t)] ELSE exit
    /\ Unlock(t) /\ Goes(r, "snapshot")
    /\ UNCHANGED <<owner, process, inherited, pipe, reader, untaken, buffer, captured, budget>>

Snapshot(r) ==
    /\ request[r].at = "snapshot" /\ Goes(r, "done")
    /\ UNCHANGED <<owner, process, inherited, pipe, reader, untaken, buffer, captured, exit, lockq, budget>>

\* wait_for_exit keeps the mutex until the process has ended
Wait(r) ==
    LET t == request[r].terminal IN
    /\ request[r].at = "lock" /\ request[r].kind = "wait" /\ Holds(r)
    /\ process[t] # "running"
    /\ exit' = IF exit[t] = "none" THEN [exit EXCEPT ![t] = Status(t)] ELSE exit
    /\ Unlock(t) /\ Goes(r, "take")
    /\ UNCHANGED <<owner, process, inherited, pipe, reader, untaken, buffer, captured, budget>>

\* the signal reaches the process alone: what it started may live on
Killed(t) ==
    IF process[t] = "running"
    THEN /\ process' = [process EXCEPT ![t] = "killed"]
         /\ \E lives \in BOOLEAN : inherited' = [inherited EXCEPT ![t] = lives]
    ELSE UNCHANGED <<process, inherited>>

\* mutant: a release that finds the process running leaves it
KillUnlessReleased(r) ==
    LET t == request[r].terminal IN
    /\ request[r].at = "lock" /\ request[r].kind \in {"kill", "release"} /\ Holds(r)
    /\ IF request[r].kind = "kill" THEN Killed(t) ELSE UNCHANGED <<process, inherited>>
    /\ exit' = IF exit[t] = "none" THEN [exit EXCEPT ![t] = process'[t]] ELSE exit
    /\ Unlock(t) /\ Goes(r, "take")
    /\ UNCHANGED <<owner, pipe, reader, untaken, buffer, captured, budget>>

\* kill: a process that still runs is killed and reaped; release is a kill after
\* the terminal left the registry
Kill(r) ==
    LET t == request[r].terminal IN
    /\ request[r].at = "lock" /\ request[r].kind \in {"kill", "release"} /\ Holds(r)
    /\ Killed(t)
    /\ exit' = IF exit[t] = "none" THEN [exit EXCEPT ![t] = process'[t]] ELSE exit
    /\ Unlock(t) /\ Goes(r, "take")
    /\ UNCHANGED <<owner, pipe, reader, untaken, buffer, captured, budget>>

\* await_reader_tasks: who comes first takes both tasks and waits for them, the
\* others go on
TakeReaders(r) ==
    LET t == request[r].terminal IN
    /\ request[r].at = "take"
    /\ request' = [request EXCEPT ![r].at = IF t \in untaken THEN "readers" ELSE "done",
                                  ![r].took = t \in untaken]
    /\ untaken' = untaken \ {t}
    /\ UNCHANGED <<owner, process, inherited, pipe, reader, buffer, captured, exit, lockq, budget>>

\* mutant: only the first task is waited for
StdoutRead(r) ==
    /\ request[r].at = "readers"
    /\ reader[request[r].terminal]["stdout"] = "done"
    /\ Goes(r, "done")
    /\ UNCHANGED <<owner, process, inherited, pipe, reader, untaken, buffer, captured, exit, lockq, budget>>

ReadersDone(r) ==
    /\ request[r].at = "readers"
    /\ \A s \in Stream : reader[request[r].terminal][s] = "done"
    /\ Goes(r, "done")
    /\ UNCHANGED <<owner, process, inherited, pipe, reader, untaken, buffer, captured, exit, lockq, budget>>

-----------------------------------------------------------------------------
Serve(r) == Refresh(r) \/ Snapshot(r) \/ Wait(r) \/ Kill(r) \/ TakeReaders(r) \/ ReadersDone(r)

\* every request is answered and nothing runs
Settled == /\ \A r \in Request : request[r].at \in {"done", "error"}
           /\ \A t \in Terminal : process[t] # "running" /\ ~ inherited[t]
                                  /\ \A s \in Stream : reader[t][s] = "done"
           /\ UNCHANGED vars

Next ==
    \/ \E t \in Terminal :
        \/ \E session \in Session : Create(t, session)
        \/ Exit(t) \/ ChildEnds(t)
        \/ \E s \in Stream : Write(t, s) \/ Read(t, s) \/ ReadEnd(t, s)
    \/ \E r \in Request :
        \/ \E kind \in Kind, t \in Terminal, session \in Session : Ask(r, kind, t, session)
        \/ Serve(r)
    \/ Settled

\* The client's tasks run.  A process may run for ever, and so may what it started.
\* (One of the tasks that can run does: less than the executor's promise that each does.)
ReadAny == \E t \in Terminal, s \in Stream : Read(t, s) \/ ReadEnd(t, s)
Spec ==
    /\ Init /\ [][Next]_vars
    /\ WF_vars(\E r \in Request : Serve(r))
    /\ WF_vars(ReadAny)
=============================================================================
