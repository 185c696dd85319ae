--------------------------- MODULE TerminalProofs ---------------------------
(***************************************************************************)
(* An answered wait, kill or release has an ended process and, unless      *)
(* another request still waits for the readers, all of its output in the   *)
(* buffer: for any number of terminals, requests and bytes.                *)
(* The buffer is the longest end of the output that fits the limit,        *)
(* however the reads cut it.                                               *)
(***************************************************************************)
EXTENDS TerminalServiceProperties, FiniteSetTheorems, WellFoundedInduction, TLAPS

Ended(t) == process[t] \in {"exited", "killed"}

Fields == {"kind", "terminal", "session", "at", "took"}
Record(q) == q = [f \in Fields |-> q[f]]

TypeInv ==
    /\ process \in [Terminal -> {"absent", "running", "exited", "killed"}]
    /\ inherited \in [Terminal -> BOOLEAN]
    /\ DOMAIN pipe = Terminal
    /\ \A t \in Terminal : DOMAIN pipe[t] = Stream
    /\ reader \in [Terminal -> [Stream -> {"reading", "done"}]]
    /\ DOMAIN request = Request /\ \A r \in Request : Record(request[r])

\* Who asked has a terminal, and only an output request takes a snapshot.
Asking ==
    \A r \in Request : request[r].at \notin {"idle", "error"} =>
        /\ request[r].terminal \in Terminal
        /\ process[request[r].terminal] # "absent"
        /\ request[r].kind = "output" => request[r].at \notin {"take", "readers"}
        /\ request[r].at = "snapshot" => request[r].kind = "output"

\* A reader is done only at the end of its pipe, and nobody writes there any more.
ReadToEnd ==
    \A t \in Terminal, s \in Stream : process[t] # "absent" /\ reader[t][s] = "done" =>
        Ended(t) /\ inherited[t] = FALSE /\ pipe[t][s] = <<>>

\* Who came past the mutex left an ended process.
PastMutex ==
    \A r \in Request : /\ request[r].at \in {"take", "readers", "done"}
                       /\ request[r].kind # "output"
                       => Ended(request[r].terminal)

\* The reader tasks are taken by the first to come past the mutex, who waits for both.
Taken ==
    \A r \in Request : request[r].at \in {"readers", "done"} /\ request[r].kind # "output" =>
        request[r].terminal \notin untaken

WaitedFor(t) == \/ \A s \in Stream : reader[t][s] = "done"
                \/ \E q \in Request : request[q].terminal = t /\ request[q].at = "readers"

TakenIsWaitedFor ==
    \A t \in Terminal : process[t] # "absent" /\ t \notin untaken => WaitedFor(t)

IInv == TypeInv /\ Asking /\ ReadToEnd /\ PastMutex /\ Taken /\ TakenIsWaitedFor

LEMMA InitInv == Init => IInv
  BY DEF Init, Idle, IInv, TypeInv, Record, Fields, Asking, ReadToEnd, PastMutex, Taken, TakenIsWaitedFor,
         WaitedFor, Ended, Kind, Stream

-----------------------------------------------------------------------------
(* The processes and the readers: no request changes.                      *)

\* What a step of a process or of a reader leaves the requests with.
LEMMA ProcessesPreserve ==
    ASSUME IInv, UNCHANGED <<untaken, request>>,
           process' \in [Terminal -> {"absent", "running", "exited", "killed"}],
           inherited' \in [Terminal -> BOOLEAN],
           reader' \in [Terminal -> [Stream -> {"reading", "done"}]],
           DOMAIN pipe' = Terminal, \A t \in Terminal : DOMAIN pipe'[t] = Stream,
           \A t \in Terminal : process[t] # "absent" => process'[t] # "absent",
           \A t \in Terminal : process[t] = "absent" => process'[t] = "absent",
           \A t \in Terminal : Ended(t) => Ended(t)',
           \A t \in Terminal, s \in Stream : reader[t][s] = "done" => reader'[t][s] = "done",
           ReadToEnd'
    PROVE  IInv'
  <1>1. TypeInv'
    BY DEF IInv, TypeInv, Record
  <1>2. Asking'
    BY DEF IInv, Asking
  <1>3. PastMutex'
    BY DEF IInv, PastMutex, Asking
  <1>4. Taken'
    BY DEF IInv, Taken
  <1>5. TakenIsWaitedFor'
    BY DEF IInv, TypeInv, TakenIsWaitedFor, WaitedFor
  <1> QED BY <1>1, <1>2, <1>3, <1>4, <1>5 DEF IInv

LEMMA WritePreserves ==
    ASSUME IInv, NEW t \in Terminal, NEW s \in Stream, Write(t, s) PROVE IInv'
  <1>1. PICK char \in {Narrow, Wide} : pipe' = [pipe EXCEPT ![t][s] = @ \o char]
    BY DEF Write
  <1>2. /\ UNCHANGED <<process, inherited, reader, untaken, request>>
        /\ process[t] # "running" => inherited[t]
    BY DEF Write
  <1>3. /\ DOMAIN pipe' = Terminal
        /\ \A u \in Terminal : DOMAIN pipe'[u] = Stream
        /\ \A u \in Terminal, v \in Stream : u # t => pipe'[u][v] = pipe[u][v]
    BY <1>1 DEF IInv, TypeInv
  <1>4. \A v \in Stream : ~ (process[t] # "absent" /\ reader[t][v] = "done")
    BY <1>2 DEF IInv, ReadToEnd, Ended
  <1>5. ReadToEnd'
    BY <1>2, <1>3, <1>4 DEF IInv, ReadToEnd, Ended
  <1> QED
    BY <1>2, <1>3, <1>5, ProcessesPreserve DEF IInv, TypeInv, Ended

LEMMA ExitPreserves ==
    ASSUME IInv, NEW t \in Terminal, Exit(t) PROVE IInv'
  <1>1. /\ process[t] = "running" /\ process' = [process EXCEPT ![t] = "exited"]
        /\ \E lives \in BOOLEAN : inherited' = [inherited EXCEPT ![t] = lives]
        /\ UNCHANGED <<pipe, reader, untaken, request>>
    BY DEF Exit
  <1>2. ReadToEnd'
    BY <1>1 DEF IInv, TypeInv, ReadToEnd, Ended
  <1> QED
    BY <1>1, <1>2, ProcessesPreserve DEF IInv, TypeInv, Ended

LEMMA ChildEndsPreserves ==
    ASSUME IInv, NEW t \in Terminal, ChildEnds(t) PROVE IInv'
  <1>1. /\ inherited' = [inherited EXCEPT ![t] = FALSE]
        /\ UNCHANGED <<process, pipe, reader, untaken, request>>
    BY DEF ChildEnds
  <1>2. ReadToEnd'
    BY <1>1 DEF IInv, TypeInv, ReadToEnd, Ended
  <1> QED
    BY <1>1, <1>2, ProcessesPreserve DEF IInv, TypeInv, Ended

LEMMA ReadPreserves ==
    ASSUME IInv, NEW t \in Terminal, NEW s \in Stream, Read(t, s) PROVE IInv'
  <1>1. PICK n \in 1..Len(pipe[t][s]) : pipe' = [pipe EXCEPT ![t][s] = SubSeq(@, n + 1, Len(@))]
    BY DEF Read
  <1>2. UNCHANGED <<process, inherited, reader, untaken, request>> /\ reader[t][s] = "reading"
    BY DEF Read
  <1>3. /\ DOMAIN pipe' = Terminal
        /\ \A u \in Terminal : DOMAIN pipe'[u] = Stream
        /\ \A u \in Terminal, v \in Stream : <<u, v>> # <<t, s>> => pipe'[u][v] = pipe[u][v]
    BY <1>1 DEF IInv, TypeInv
  <1>4. ReadToEnd'
    BY <1>2, <1>3 DEF IInv, ReadToEnd, Ended
  <1> QED
    BY <1>2, <1>3, <1>4, ProcessesPreserve DEF IInv, TypeInv, Ended

LEMMA ReadEndPreserves ==
    ASSUME IInv, NEW t \in Terminal, NEW s \in Stream, ReadEnd(t, s) PROVE IInv'
  <1>1. /\ pipe[t][s] = <<>> /\ process[t] # "running" /\ ~ inherited[t]
        /\ reader' = [reader EXCEPT ![t][s] = "done"]
        /\ UNCHANGED <<process, inherited, pipe, untaken, request>>
    BY DEF ReadEnd
  <1>2. /\ reader' \in [Terminal -> [Stream -> {"reading", "done"}]]
        /\ \A u \in Terminal, v \in Stream : <<u, v>> # <<t, s>> => reader'[u][v] = reader[u][v]
        /\ \A u \in Terminal, v \in Stream : reader[u][v] = "done" => reader'[u][v] = "done"
    BY <1>1 DEF IInv, TypeInv
  <1>3. ReadToEnd'
    BY <1>1, <1>2 DEF IInv, TypeInv, ReadToEnd, Ended
  <1> QED
    BY <1>1, <1>2, <1>3, ProcessesPreserve DEF IInv, TypeInv, Ended

\* A terminal that is made was nobody's, and its tasks are nobody's yet.
LEMMA CreatePreserves ==
    ASSUME IInv, NEW t \in Terminal, NEW session \in Session, Create(t, session) PROVE IInv'
  <1>1. /\ process[t] = "absent" /\ process' = [process EXCEPT ![t] = "running"]
        /\ reader' = [reader EXCEPT ![t] = [s \in Stream |-> "reading"]]
        /\ untaken' = untaken \cup {t}
        /\ UNCHANGED <<inherited, pipe, request>>
    BY DEF Create
  <1>2. TypeInv'
    BY <1>1 DEF IInv, TypeInv
  <1>3. Asking' /\ PastMutex'
    BY <1>1 DEF IInv, TypeInv, Asking, PastMutex, Ended
  <1>4. ReadToEnd'
    BY <1>1 DEF IInv, TypeInv, ReadToEnd, Ended
  <1>5. Taken'
    BY <1>1 DEF IInv, TypeInv, Taken, Asking
  <1>6. TakenIsWaitedFor'
    BY <1>1 DEF IInv, TypeInv, TakenIsWaitedFor, WaitedFor
  <1> QED
    BY <1>2, <1>3, <1>4, <1>5, <1>6 DEF IInv

-----------------------------------------------------------------------------
(* The requests.                                                           *)

\* A request goes on: the others are as before.
Moved(r, at) ==
    /\ DOMAIN request' = Request /\ \A q \in Request : Record(request'[q])
    /\ request'[r].at = at
    /\ request'[r].terminal = request[r].terminal /\ request'[r].kind = request[r].kind
    /\ \A q \in Request : q # r => request'[q] = request[q]

LEMMA TakesOn ==
    ASSUME IInv, NEW r \in Request, NEW at, NEW took,
           request' = [request EXCEPT ![r].at = at, ![r].took = took]
    PROVE  Moved(r, at)
  <1>1. Record(request[r]) /\ DOMAIN request = Request /\ \A q \in Request : Record(request[q])
    BY DEF IInv, TypeInv
  <1>2. /\ request'[r] = [request[r] EXCEPT !.at = at, !.took = took] /\ DOMAIN request' = Request
        /\ \A q \in Request : q # r => request'[q] = request[q]
    BY <1>1
  <1>3. /\ request'[r].at = at /\ Record(request'[r])
        /\ request'[r].terminal = request[r].terminal /\ request'[r].kind = request[r].kind
    BY <1>1, <1>2 DEF Record, Fields
  <1> QED
    BY <1>1, <1>2, <1>3 DEF Moved

LEMMA GoesOn ==
    ASSUME IInv, NEW r \in Request, NEW at, Goes(r, at) PROVE Moved(r, at)
  <1>1. Record(request[r]) /\ DOMAIN request = Request /\ \A q \in Request : Record(request[q])
    BY DEF IInv, TypeInv
  <1>2. /\ request'[r] = [request[r] EXCEPT !.at = at] /\ DOMAIN request' = Request
        /\ \A q \in Request : q # r => request'[q] = request[q]
    BY <1>1 DEF Goes
  <1>3. /\ request'[r].at = at /\ Record(request'[r])
        /\ request'[r].terminal = request[r].terminal /\ request'[r].kind = request[r].kind
    BY <1>1, <1>2 DEF Record, Fields
  <1> QED
    BY <1>1, <1>2, <1>3 DEF Moved

LEMMA AskPreserves ==
    ASSUME IInv, NEW r \in Request, NEW kind \in Kind, NEW t \in Terminal, NEW session \in Session,
           Ask(r, kind, t, session)
    PROVE  IInv'
  <1> DEFINE asked == [kind |-> kind, terminal |-> t, session |-> session, at |-> "lock", took |-> FALSE]
  <1>1. /\ UNCHANGED <<process, inherited, pipe, reader, untaken>>
        /\ request[r].at = "idle" /\ process[t] # "absent"
    BY DEF Ask
  <1>2. /\ DOMAIN request' = Request /\ \A q \in Request : Record(request'[q])
        /\ \/ request'[r].at = "error"
           \/ request'[r].at = "lock" /\ request'[r].terminal = t
        /\ \A q \in Request : q # r => request'[q] = request[q]
    <2>1. CASE owner[t] # session
      BY <2>1, GoesOn DEF Ask, Moved
    <2>2. CASE owner[t] = session
      <3>1. request' = [request EXCEPT ![r] = asked]
        BY <2>2 DEF Ask
      <3>2. Record(asked)
        BY DEF Record, Fields
      <3>3. DOMAIN request = Request /\ \A q \in Request : Record(request[q])
        BY DEF IInv, TypeInv
      <3> QED BY <3>1, <3>2, <3>3
    <2> QED BY <2>1, <2>2
  <1>3. TypeInv' /\ ReadToEnd'
    BY <1>1, <1>2 DEF IInv, TypeInv, ReadToEnd, Ended
  <1>4. Asking'
    BY <1>1, <1>2 DEF IInv, Asking
  <1>5. PastMutex' /\ Taken'
    BY <1>1, <1>2 DEF IInv, PastMutex, Taken, Ended
  <1>6. TakenIsWaitedFor'
    BY <1>1, <1>2 DEF IInv, TakenIsWaitedFor, WaitedFor
  <1> QED
    BY <1>3, <1>4, <1>5, <1>6 DEF IInv

LEMMA RefreshPreserves ==
    ASSUME IInv, NEW r \in Request, Refresh(r) PROVE IInv'
  <1>1. /\ request[r].at = "lock" /\ request[r].kind = "output" /\ Goes(r, "snapshot")
        /\ UNCHANGED <<process, inherited, pipe, reader, untaken>>
    BY DEF Refresh
  <1>2. Moved(r, "snapshot")
    BY <1>1, GoesOn
  <1>3. TypeInv' /\ ReadToEnd'
    BY <1>1, <1>2 DEF Moved, IInv, TypeInv, ReadToEnd, Ended
  <1>4. Asking' /\ PastMutex' /\ Taken'
    BY <1>1, <1>2 DEF Moved, IInv, Asking, PastMutex, Taken, Ended
  <1>5. TakenIsWaitedFor'
    BY <1>1, <1>2 DEF Moved, IInv, TakenIsWaitedFor, WaitedFor
  <1> QED
    BY <1>3, <1>4, <1>5 DEF IInv

LEMMA SnapshotPreserves ==
    ASSUME IInv, NEW r \in Request, Snapshot(r) PROVE IInv'
  <1>1. /\ request[r].at = "snapshot" /\ Goes(r, "done")
        /\ UNCHANGED <<process, inherited, pipe, reader, untaken>>
    BY DEF Snapshot
  <1>2. Moved(r, "done")
    BY <1>1, GoesOn
  <1>3. TypeInv' /\ ReadToEnd'
    BY <1>1, <1>2 DEF Moved, IInv, TypeInv, ReadToEnd, Ended
  <1>4. Asking' /\ PastMutex' /\ Taken'
    BY <1>1, <1>2 DEF Moved, IInv, Asking, PastMutex, Taken, Ended
  <1>5. TakenIsWaitedFor'
    BY <1>1, <1>2 DEF Moved, IInv, TakenIsWaitedFor, WaitedFor
  <1> QED
    BY <1>3, <1>4, <1>5 DEF IInv

\* A wait and a kill both leave the mutex with an ended process.
LEMMA MutexPreserves ==
    ASSUME IInv, NEW r \in Request, Wait(r) \/ Kill(r) PROVE IInv'
  <1> DEFINE t == request[r].terminal
  <1>1. /\ request[r].at = "lock" /\ request[r].kind # "output" /\ Goes(r, "take")
        /\ UNCHANGED <<pipe, reader, untaken>>
    BY DEF Wait, Kill
  <1>2. t \in Terminal /\ process[t] # "absent"
    BY <1>1 DEF IInv, Asking
  <1>3. /\ process' \in [Terminal -> {"absent", "running", "exited", "killed"}]
        /\ \A u \in Terminal : process'[u] = "absent" <=> process[u] = "absent"
        /\ \A u \in Terminal : Ended(u) => Ended(u)' /\ inherited'[u] = inherited[u]
        /\ inherited' \in [Terminal -> BOOLEAN]
        /\ process'[t] \in {"exited", "killed"}
    <2>1. CASE Wait(r)
      BY <2>1, <1>2 DEF Wait, IInv, TypeInv, Ended
    <2>2. CASE Kill(r)
      BY <2>2, <1>2 DEF Kill, Killed, IInv, TypeInv, Ended
    <2> QED BY <2>1, <2>2
  <1>4. Moved(r, "take")
    BY <1>1, GoesOn
  <1>5. /\ request'[r].terminal = t /\ request'[r].at = "take" /\ request'[r].kind # "output"
        /\ DOMAIN request' = Request /\ \A q \in Request : Record(request'[q])
        /\ \A q \in Request : q # r => request'[q] = request[q]
    BY <1>1, <1>4 DEF Moved
  <1> HIDE DEF t
  <1>6. TypeInv' /\ ReadToEnd'
    BY <1>1, <1>3, <1>5 DEF IInv, TypeInv, ReadToEnd
  <1>7. Asking'
    BY <1>2, <1>3, <1>5 DEF IInv, Asking
  <1>8. PastMutex'
    <2> SUFFICES ASSUME NEW q \in Request, request'[q].at \in {"take", "readers", "done"},
                        request'[q].kind # "output"
                 PROVE  process'[request'[q].terminal] \in {"exited", "killed"}
      BY DEF PastMutex, Ended
    <2>1. CASE q = r
      BY <2>1, <1>3, <1>5
    <2>2. CASE q # r
      BY <2>2, <1>3, <1>5 DEF IInv, PastMutex, Asking, Ended
    <2> QED BY <2>1, <2>2
  <1>9. Taken' /\ TakenIsWaitedFor'
    BY <1>1, <1>3, <1>5 DEF IInv, Taken, TakenIsWaitedFor, WaitedFor
  <1> QED
    BY <1>6, <1>7, <1>8, <1>9 DEF IInv

LEMMA TakeReadersPreserves ==
    ASSUME IInv, NEW r \in Request, TakeReaders(r) PROVE IInv'
  <1> DEFINE t == request[r].terminal
  <1>1. /\ request[r].at = "take"
        /\ request' = [request EXCEPT ![r].at = IF t \in untaken THEN "readers" ELSE "done",
                                      ![r].took = t \in untaken]
        /\ untaken' = untaken \ {t}
        /\ UNCHANGED <<process, inherited, pipe, reader>>
    BY DEF TakeReaders
  <1>2. /\ DOMAIN request' = Request /\ \A q \in Request : Record(request'[q])
        /\ request'[r].terminal = t /\ request'[r].kind = request[r].kind
        /\ request'[r].at = IF t \in untaken THEN "readers" ELSE "done"
        /\ \A q \in Request : q # r => request'[q] = request[q]
    BY <1>1, TakesOn DEF Moved
  <1>3. t \in Terminal /\ request[r].kind # "output"
    BY <1>1 DEF IInv, Asking
  <1> HIDE DEF t
  <1>4. TypeInv' /\ ReadToEnd'
    BY <1>1, <1>2 DEF IInv, TypeInv, ReadToEnd, Ended
  <1>5. Asking' /\ PastMutex'
    <2>1. process[t] # "absent" /\ Ended(t)
      BY <1>1, <1>3 DEF IInv, Asking, PastMutex, t
    <2> QED
      BY <1>1, <1>2, <1>3, <2>1 DEF IInv, Asking, PastMutex, Ended
  <1>6. Taken'
    BY <1>1, <1>2 DEF IInv, Taken
  <1>7. TakenIsWaitedFor'
    <2> SUFFICES ASSUME NEW u \in Terminal, process'[u] # "absent", u \notin untaken'
                 PROVE  WaitedFor(u)'
      BY DEF TakenIsWaitedFor
    <2>1. CASE u \in untaken
      <3>1. u = t /\ request'[r].at = "readers"
        BY <2>1, <1>1, <1>2
      <3> QED BY <3>1, <1>2 DEF WaitedFor
    <2>2. CASE u \notin untaken
      <3>1. WaitedFor(u)
        BY <2>2, <1>1 DEF IInv, TakenIsWaitedFor
      <3> QED BY <3>1, <1>1, <1>2 DEF WaitedFor
    <2> QED BY <2>1, <2>2
  <1> QED
    BY <1>4, <1>5, <1>6, <1>7 DEF IInv

LEMMA ReadersDonePreserves ==
    ASSUME IInv, NEW r \in Request, ReadersDone(r) PROVE IInv'
  <1>1. /\ request[r].at = "readers" /\ Goes(r, "done")
        /\ \A s \in Stream : reader[request[r].terminal][s] = "done"
        /\ UNCHANGED <<process, inherited, pipe, reader, untaken>>
    BY DEF ReadersDone
  <1>2. Moved(r, "done")
    BY <1>1, GoesOn
  <1>3. TypeInv' /\ ReadToEnd'
    BY <1>1, <1>2 DEF Moved, IInv, TypeInv, ReadToEnd, Ended
  <1>4. Asking' /\ PastMutex' /\ Taken'
    BY <1>1, <1>2 DEF Moved, IInv, Asking, PastMutex, Taken, Ended
  <1>5. TakenIsWaitedFor'
    BY <1>1, <1>2 DEF Moved, IInv, TakenIsWaitedFor, WaitedFor
  <1> QED
    BY <1>3, <1>4, <1>5 DEF IInv

-----------------------------------------------------------------------------
LEMMA NextPreserves == IInv /\ [Next]_vars => IInv'
  <1> SUFFICES ASSUME IInv, [Next]_vars PROVE IInv'
    OBVIOUS
  <1>1. CASE \E t \in Terminal, session \in Session : Create(t, session)
    BY <1>1, CreatePreserves
  <1>2. CASE \E t \in Terminal : Exit(t)
    BY <1>2, ExitPreserves
  <1>3. CASE \E t \in Terminal, s \in Stream : Write(t, s) \/ Read(t, s) \/ ReadEnd(t, s)
    BY <1>3, WritePreserves, ReadPreserves, ReadEndPreserves
  <1>4. CASE \E r \in Request, kind \in Kind, t \in Terminal, session \in Session :
                 Ask(r, kind, t, session)
    BY <1>4, AskPreserves
  <1>5. CASE \E r \in Request : Serve(r)
    BY <1>5, RefreshPreserves, SnapshotPreserves, MutexPreserves, TakeReadersPreserves,
       ReadersDonePreserves DEF Serve
  <1>6. CASE \E t \in Terminal : ChildEnds(t)
    BY <1>6, ChildEndsPreserves
  <1>7. CASE UNCHANGED vars
    BY <1>7 DEF vars, IInv, TypeInv, Asking, ReadToEnd, PastMutex, Taken, TakenIsWaitedFor,
                WaitedFor, Ended
  <1> QED
    BY <1>1, <1>2, <1>3, <1>4, <1>5, <1>6, <1>7 DEF Next, Settled

\* The request's terminal is taken: it is read to its end, or somebody waits for it.
LEMMA InvSuffices == IInv => AnsweredWaitHasOutput
  <1> SUFFICES ASSUME IInv, NEW r \in Request, request[r].at = "done", request[r].kind # "output",
                      NEW t, t = request[r].terminal
               PROVE  /\ process[t] \in {"exited", "killed"}
                      /\ \/ \A s \in Stream : pipe[t][s] = <<>> /\ reader[t][s] = "done"
                         \/ \E q \in Request : request[q].terminal = t /\ request[q].at = "readers"
    BY DEF AnsweredWaitHasOutput
  <1>1. t \in Terminal /\ process[t] # "absent" /\ Ended(t) /\ t \notin untaken
    BY DEF IInv, Asking, PastMutex, Taken
  <1>2. WaitedFor(t)
    BY <1>1 DEF IInv, TakenIsWaitedFor
  <1> QED
    BY <1>1, <1>2 DEF IInv, ReadToEnd, WaitedFor, Ended

\* An answered wait, kill or release (wait_for_exit, kill, await_reader_tasks in
\* fluent-code-tui/src/acp.rs) means an ended process and a buffer with all it wrote,
\* unless another request took the readers first and still waits.
THEOREM AnsweredWaitIsComplete == Spec => []AnsweredWaitHasOutput
  <1>1. Init => IInv
    BY InitInv
  <1>2. IInv /\ [Next]_vars => IInv'
    BY NextPreserves
  <1>3. IInv => AnsweredWaitHasOutput
    BY InvSuffices
  <1> QED
    BY <1>1, <1>2, <1>3, PTL DEF Spec
-----------------------------------------------------------------------------
(* The buffer.  Bytes of a concatenation, and what a cut leaves.           *)

Chars == {"a", "b", "?"}

\* A set of numbers is as large when each is moved by m.
LEMMA ShiftedSize ==
    ASSUME NEW B \in SUBSET Nat, IsFiniteSet(B), NEW m \in Nat
    PROVE  IsFiniteSet({m + j : j \in B}) /\ Cardinality({m + j : j \in B}) = Cardinality(B)
  <1> DEFINE T == {m + j : j \in B}
             g == [j \in B |-> m + j]
  <1>1. g \in [B -> T] /\ \A j \in B : g[j] = m + j
    OBVIOUS
  <1>2. \A x, y \in B : g[x] = g[y] => x = y
    BY <1>1
  <1>3. \A y \in T : \E j \in B : g[j] = y
    BY <1>1
  <1> HIDE DEF g, T
  <1>4. g \in Bijection(B, T)
    BY <1>1, <1>2, <1>3 DEF Bijection, Injection, IsInjective, Surjection
  <1>5. ExistsBijection(B, T)
    BY <1>4 DEF ExistsBijection
  <1> QED BY <1>5, FS_Bijection DEF T

LEMMA SameSeq ==
    ASSUME NEW S, NEW s \in Seq(S), NEW t \in Seq(S), Len(s) = Len(t), \A i \in 1..Len(s) : s[i] = t[i]
    PROVE  s = t
  <1>1. s = [i \in 1..Len(s) |-> s[i]] /\ t = [i \in 1..Len(s) |-> t[i]]
    OBVIOUS
  <1> QED BY <1>1

LEMMA ConcatIs ==
    ASSUME NEW S, NEW s \in Seq(S), NEW t \in Seq(S)
    PROVE  /\ s \o t \in Seq(S) /\ Len(s \o t) = Len(s) + Len(t) /\ Len(s) \in Nat /\ Len(t) \in Nat
           /\ \A i \in 1..Len(s) : (s \o t)[i] = s[i]
           /\ \A i \in 1..Len(t) : (s \o t)[Len(s) + i] = t[i]
           /\ \A i \in 1..Len(s) + Len(t) : (s \o t)[i] = IF i <= Len(s) THEN s[i] ELSE t[i - Len(s)]
  OBVIOUS

LEMMA CountAdds ==
    ASSUME NEW S, NEW s \in Seq(S), NEW t \in Seq(S), NEW c
    PROVE  /\ Count(s, c) \in Nat /\ Count(t, c) \in Nat
           /\ Count(s \o t, c) = Count(s, c) + Count(t, c)
  <1> DEFINE m == Len(s)
             k == Len(t)
             A == {j \in 1..m : s[j] = c}
             B == {j \in 1..k : t[j] = c}
             U == {j \in 1..m + k : (s \o t)[j] = c}
             V == {m + j : j \in B}
  <1>1. m \in Nat /\ k \in Nat /\ DOMAIN s = 1..m /\ DOMAIN t = 1..k /\ DOMAIN (s \o t) = 1..m + k
    OBVIOUS
  <1>2. Count(s, c) = Cardinality(A) /\ Count(t, c) = Cardinality(B) /\ Count(s \o t, c) = Cardinality(U)
    BY <1>1 DEF Count
  <1>3. IsFiniteSet(1..m) /\ IsFiniteSet(1..k)
    BY <1>1, FS_Interval
  <1>4. IsFiniteSet(A) /\ IsFiniteSet(B) /\ B \in SUBSET Nat
    <2>1. A \in SUBSET (1..m) /\ B \in SUBSET (1..k)
      OBVIOUS
    <2>2. B \in SUBSET Nat
      BY <1>1
    <2> HIDE DEF A, B
    <2> QED BY <1>3, <2>1, <2>2, FS_Subset
  <1>5. (\A i \in 1..m : (s \o t)[i] = s[i]) /\ \A i \in 1..k : (s \o t)[m + i] = t[i]
    BY ConcatIs
  <1>6. U = A \cup V
    <2>1. ASSUME NEW j \in U PROVE j \in A \cup V
      <3>1. CASE j <= m
        <4>1. j \in 1..m
          BY <1>1, <3>1
        <4> QED BY <1>5, <4>1
      <3>2. CASE ~(j <= m)
        <4>1. j - m \in 1..k /\ m + (j - m) = j
          BY <1>1, <3>2
        <4> QED BY <1>5, <4>1
      <3> QED BY <3>1, <3>2
    <2>2. ASSUME NEW j \in A PROVE j \in U
      <3>1. j \in 1..m + k
        BY <1>1
      <3> QED BY <1>5, <3>1
    <2>3. ASSUME NEW i \in B PROVE m + i \in U
      <3>1. m + i \in 1..m + k
        BY <1>1
      <3> QED BY <1>5, <3>1
    <2> QED BY <2>1, <2>2, <2>3
  <1>7. A \cap V = {}
    BY <1>1
  <1>8. IsFiniteSet(V) /\ Cardinality(V) = Cardinality(B)
    BY <1>1, <1>4, ShiftedSize
  <1> HIDE DEF A, B, U, V
  <1>9. Cardinality(A \cup V) = Cardinality(A) + Cardinality(V) - Cardinality({})
    BY <1>4, <1>7, <1>8, FS_Union
  <1>10. Cardinality({}) = 0 /\ Cardinality(A) \in Nat /\ Cardinality(B) \in Nat
    BY <1>4, FS_EmptySet, FS_CardinalityType
  <1> QED BY <1>2, <1>6, <1>8, <1>9, <1>10

LEMMA BytesAdd ==
    ASSUME NEW S, NEW s \in Seq(S), NEW t \in Seq(S)
    PROVE  Bytes(s) \in Nat /\ Bytes(t) \in Nat /\ Bytes(s \o t) = Bytes(s) + Bytes(t)
  <1>1. \A c : /\ Count(s, c) \in Nat /\ Count(t, c) \in Nat
               /\ Count(s \o t, c) = Count(s, c) + Count(t, c)
    BY CountAdds
  <1>2. /\ Count(s \o t, "a") = Count(s, "a") + Count(t, "a")
        /\ Count(s \o t, "b") = Count(s, "b") + Count(t, "b")
        /\ Count(s \o t, "?") = Count(s, "?") + Count(t, "?")
        /\ Count(s, "a") \in Nat /\ Count(s, "b") \in Nat /\ Count(s, "?") \in Nat
        /\ Count(t, "a") \in Nat /\ Count(t, "b") \in Nat /\ Count(t, "?") \in Nat
    BY <1>1
  <1> DEFINE sa == Count(s, "a")
             sb == Count(s, "b")
             sm == Count(s, "?")
             ta == Count(t, "a")
             tb == Count(t, "b")
             tm == Count(t, "?")
  <1>3. /\ Bytes(s) = sa + 2 * sb + 3 * sm /\ Bytes(t) = ta + 2 * tb + 3 * tm
        /\ Bytes(s \o t) = (sa + ta) + 2 * (sb + tb) + 3 * (sm + tm)
    BY <1>2 DEF Bytes
  <1>4. sa \in Nat /\ sb \in Nat /\ sm \in Nat /\ ta \in Nat /\ tb \in Nat /\ tm \in Nat
    BY <1>2
  <1> HIDE DEF sa, sb, sm, ta, tb, tm
  <1>5. /\ (sa + 2 * sb + 3 * sm) \in Nat /\ (ta + 2 * tb + 3 * tm) \in Nat
        /\ (sa + ta) + 2 * (sb + tb) + 3 * (sm + tm) = (sa + 2 * sb + 3 * sm) + (ta + 2 * tb + 3 * tm)
    BY <1>4
  <1> QED BY <1>3, <1>5

LEMMA NoBytes == Bytes(<<>>) = 0
  <1>1. \A c : Count(<<>>, c) = 0
    BY FS_EmptySet DEF Count
  <1> QED BY <1>1 DEF Bytes

\* A text is what comes before a place and what comes after it.
LEMMA Halves ==
    ASSUME NEW S, NEW s \in Seq(S), NEW n \in 0..Len(s)
    PROVE  /\ SubSeq(s, 1, n) \in Seq(S) /\ Suffix(s, n) \in Seq(S)
           /\ Len(Suffix(s, n)) = Len(s) - n
           /\ \A i \in 1..Len(s) - n : Suffix(s, n)[i] = s[n + i]
           /\ SubSeq(s, 1, n) \o Suffix(s, n) = s
  <1>1. n \in Nat /\ Len(s) \in Nat
    OBVIOUS
  <1>2. /\ SubSeq(s, 1, n) \in Seq(S) /\ Len(SubSeq(s, 1, n)) = n
        /\ \A i \in 1..n : SubSeq(s, 1, n)[i] = s[i]
    BY <1>1
  <1>3. /\ Suffix(s, n) \in Seq(S) /\ Len(Suffix(s, n)) = Len(s) - n
        /\ \A i \in 1..Len(s) - n : Suffix(s, n)[i] = s[n + i]
    BY <1>1 DEF Suffix
  <1>4. SubSeq(s, 1, n) \o Suffix(s, n) = s
    <2> DEFINE u == SubSeq(s, 1, n)
               v == Suffix(s, n)
    <2>1. u \in Seq(S) /\ v \in Seq(S) /\ Len(u) = n /\ Len(v) = Len(s) - n
      BY <1>2, <1>3
    <2>2. (\A i \in 1..n : u[i] = s[i]) /\ \A i \in 1..Len(s) - n : v[i] = s[n + i]
      BY <1>2, <1>3
    <2> HIDE DEF u, v
    <2>3. /\ Len(u \o v) = Len(s) /\ u \o v \in Seq(S)
          /\ \A i \in 1..Len(s) : (u \o v)[i] = IF i <= n THEN u[i] ELSE v[i - n]
      BY <1>1, <2>1
    <2>4. \A i \in 1..Len(s) : (u \o v)[i] = s[i]
      BY <1>1, <2>2, <2>3
    <2>5. u \o v = s
      BY <2>3, <2>4, SameSeq
    <2> QED BY <2>5 DEF u, v
  <1> QED BY <1>2, <1>3, <1>4

\* The end of a concatenation that keeps all of its second part.
LEMMA EndOfBoth ==
    ASSUME NEW S, NEW s \in Seq(S), NEW t \in Seq(S), NEW n \in 0..Len(s)
    PROVE  Suffix(s \o t, n) = Suffix(s, n) \o t
  <1> DEFINE u == Suffix(s, n)
             v == Suffix(s \o t, n)
  <1>1. /\ s \o t \in Seq(S) /\ Len(s \o t) = Len(s) + Len(t) /\ Len(s) \in Nat /\ Len(t) \in Nat
        /\ n \in 0..Len(s \o t)
    OBVIOUS
  <1>2. u \in Seq(S) /\ Len(u) = Len(s) - n /\ \A i \in 1..Len(s) - n : u[i] = s[n + i]
    BY Halves
  <1>3. /\ v \in Seq(S) /\ Len(v) = Len(s) + Len(t) - n
        /\ \A i \in 1..Len(s) + Len(t) - n : v[i] = (s \o t)[n + i]
    <2> DEFINE w == s \o t
    <2>1. w \in Seq(S) /\ Len(w) = Len(s) + Len(t) /\ n \in 0..Len(w)
      BY <1>1
    <2> HIDE DEF w
    <2>2. /\ Suffix(w, n) \in Seq(S) /\ Len(Suffix(w, n)) = Len(w) - n
          /\ \A i \in 1..Len(w) - n : Suffix(w, n)[i] = w[n + i]
      BY <2>1, Halves
    <2> QED BY <2>1, <2>2 DEF w
  <1>4. \A i \in 1..Len(s) + Len(t) : (s \o t)[i] = IF i <= Len(s) THEN s[i] ELSE t[i - Len(s)]
    BY <1>1
  <1> HIDE DEF u, v
  <1>5. /\ u \o t \in Seq(S) /\ Len(u \o t) = Len(s) + Len(t) - n
        /\ \A i \in 1..Len(s) + Len(t) - n :
              (u \o t)[i] = IF i <= Len(s) - n THEN u[i] ELSE t[i - (Len(s) - n)]
    <2>0. u \in Seq(S)
      BY <1>2
    <2>1. /\ u \o t \in Seq(S) /\ Len(u \o t) = Len(u) + Len(t)
          /\ \A i \in 1..Len(u) + Len(t) : (u \o t)[i] = IF i <= Len(u) THEN u[i] ELSE t[i - Len(u)]
      BY <2>0, ConcatIs
    <2>2. Len(u) + Len(t) = Len(s) + Len(t) - n
      BY <1>1, <1>2
    <2> QED BY <1>2, <2>1, <2>2
  <1>6. \A i \in 1..Len(s) + Len(t) - n : v[i] = (u \o t)[i]
    <2> SUFFICES ASSUME NEW i \in 1..Len(s) + Len(t) - n PROVE v[i] = (u \o t)[i]
      OBVIOUS
    <2>1. n + i \in 1..Len(s) + Len(t) /\ v[i] = (s \o t)[n + i]
      BY <1>1, <1>3
    <2>2. CASE i <= Len(s) - n
      <3>1. n + i <= Len(s) /\ i \in 1..Len(s) - n
        BY <1>1, <2>2
      <3> QED BY <1>2, <1>4, <1>5, <2>1, <2>2, <3>1
    <2>3. CASE ~(i <= Len(s) - n)
      <3>1. ~(n + i <= Len(s)) /\ (n + i) - Len(s) = i - (Len(s) - n)
        BY <1>1, <2>3
      <3> QED BY <1>4, <1>5, <2>1, <2>3, <3>1
    <2> QED BY <2>2, <2>3
  <1>7. v = u \o t
    BY <1>3, <1>5, <1>6, SameSeq
  <1> QED BY <1>7 DEF u, v

\* The end of an end.
LEMMA EndOfEnd ==
    ASSUME NEW S, NEW s \in Seq(S), NEW n \in 0..Len(s), NEW k \in 0..Len(s) - n
    PROVE  Suffix(Suffix(s, n), k) = Suffix(s, n + k)
  <1>1. Len(s) \in Nat /\ n + k \in 0..Len(s) /\ n \in Nat /\ k \in Nat
    OBVIOUS
  <1> DEFINE u == Suffix(s, n)
  <1>2. u \in Seq(S) /\ Len(u) = Len(s) - n /\ \A i \in 1..Len(s) - n : u[i] = s[n + i]
    BY Halves
  <1> HIDE DEF u
  <1>3. /\ Suffix(u, k) \in Seq(S) /\ Len(Suffix(u, k)) = Len(s) - n - k
        /\ \A i \in 1..Len(s) - n - k : Suffix(u, k)[i] = u[k + i]
    <2>1. k \in 0..Len(u)
      BY <1>1, <1>2
    <2>2. /\ Suffix(u, k) \in Seq(S) /\ Len(Suffix(u, k)) = Len(u) - k
          /\ \A i \in 1..Len(u) - k : Suffix(u, k)[i] = u[k + i]
      BY <1>2, <2>1, Halves
    <2> QED BY <1>2, <2>2
  <1>4. /\ Suffix(s, n + k) \in Seq(S) /\ Len(Suffix(s, n + k)) = Len(s) - (n + k)
        /\ \A i \in 1..Len(s) - (n + k) : Suffix(s, n + k)[i] = s[n + k + i]
    BY <1>1, Halves
  <1> DEFINE v == Suffix(u, k)
             w == Suffix(s, n + k)
  <1>5. \A i \in 1..Len(s) - n - k : v[i] = w[i]
    <2> SUFFICES ASSUME NEW i \in 1..Len(s) - n - k PROVE v[i] = w[i]
      OBVIOUS
    <2>1. k + i \in 1..Len(s) - n /\ i \in 1..Len(s) - (n + k) /\ n + (k + i) = n + k + i
      BY <1>1
    <2> QED BY <1>2, <1>3, <1>4, <2>1
  <1>6. Len(s) - n - k = Len(s) - (n + k)
    BY <1>1
  <1>7. v \in Seq(S) /\ w \in Seq(S) /\ Len(v) = Len(w) /\ \A i \in 1..Len(v) : v[i] = w[i]
    BY <1>3, <1>4, <1>5, <1>6
  <1> HIDE DEF v, w
  <1>8. v = w
    BY <1>7
  <1> QED BY <1>8 DEF u, v, w

-----------------------------------------------------------------------------
(* What a read decodes is a text.                                          *)

LEMMA LeastOf ==
    ASSUME NEW S, S \subseteq Nat, S # {}
    PROVE  \E x \in S : \A y \in S : ~(y < x)
  <1> DEFINE less == OpToRel(<, Nat)
  <1>1. \A y, x \in Nat : <<y, x>> \in less <=> y < x
    BY DEF OpToRel
  <1>2. IsWellFoundedOn(less, Nat)
    BY NatLessThanWellFounded
  <1> HIDE DEF less
  <1>3. PICK x \in S : \A y \in S : ~(<<y, x>> \in less)
    BY <1>2, WFMin
  <1>4. \A y \in S : ~(y < x)
    BY <1>1, <1>3, Zenon
  <1> QED BY <1>4

Closing(chunk, j) == chunk[j] = "b2" /\ j > 1 /\ chunk[j - 1] = "b1"
Mark(chunk, j) == IF chunk[j] = "a" THEN "a"
                  ELSE IF chunk[j] = "b1" /\ j < Len(chunk) /\ chunk[j + 1] = "b2" THEN "b" ELSE "?"
\* The texts f of the first bytes of a chunk, up to n of them (Decoded).
Texts(chunk, n, f) ==
    f = [j \in 0..n |-> IF j = 0 THEN <<>>
                        ELSE IF Closing(chunk, j) THEN f[j - 1]
                        ELSE Append(f[j - 1], Mark(chunk, j))]

LEMMA TextsExist == ASSUME NEW s, NEW n \in Nat PROVE \E f : Texts(s, n, f)
  <1> DEFINE Bad == {m \in Nat : ~\E f : Texts(s, m, f)}
  <1> SUFFICES ASSUME Bad # {} PROVE FALSE
    OBVIOUS
  <1>1. PICK m \in Bad : \A y \in Bad : ~(y < m)
    BY LeastOf
  <1>2. CASE m = 0
    <2> DEFINE f == [k \in 0..0 |-> <<>>]
    <2>1. Texts(s, 0, f)
      BY DEF Texts
    <2> QED BY <1>1, <1>2, <2>1
  <1>3. CASE m # 0
    <2>1. m \in Nat /\ m - 1 \in Nat /\ m - 1 < m
      BY <1>1, <1>3
    <2>2. m - 1 \notin Bad
      BY <1>1, <2>1
    <2>3. PICK f : Texts(s, m - 1, f)
      BY <2>1, <2>2
    <2> HIDE DEF Bad
    <2> DEFINE top == IF Closing(s, m) THEN f[m - 1] ELSE Append(f[m - 1], Mark(s, m))
               g == [k \in 0..m |-> IF k = m THEN top ELSE f[k]]
               body(k) == IF k = 0 THEN <<>>
                          ELSE IF Closing(s, k) THEN g[k - 1] ELSE Append(g[k - 1], Mark(s, k))
    <2>4. \A k \in 0..m - 1 : f[k] = IF k = 0 THEN <<>>
                                     ELSE IF Closing(s, k) THEN f[k - 1] ELSE Append(f[k - 1], Mark(s, k))
      BY <2>3 DEF Texts
    <2>5. ASSUME NEW k \in 0..m PROVE g[k] = body(k)
      <3>1. CASE k = m
        <4>1. g[k] = top /\ k - 1 \in 0..m /\ k - 1 # m /\ g[k - 1] = f[m - 1]
          BY <2>1, <3>1
        <4> QED BY <1>3, <3>1, <4>1
      <3>2. CASE k # m /\ k # 0
        <4>1. k \in 0..m - 1 /\ k - 1 \in 0..m /\ k - 1 # m
          BY <2>1, <3>2
        <4>2. g[k] = f[k] /\ g[k - 1] = f[k - 1]
          BY <3>2, <4>1
        <4> QED BY <2>4, <3>2, <4>1, <4>2
      <3>3. CASE k # m /\ k = 0
        BY <2>1, <2>4, <3>3
      <3> QED BY <3>1, <3>2, <3>3
    <2>6. g = [k \in 0..m |-> g[k]]
      OBVIOUS
    <2> HIDE DEF g
    <2>7. g = [k \in 0..m |-> body(k)]
      BY <2>5, <2>6
    <2>8. Texts(s, m, g)
      BY <2>7 DEF Texts
    <2> QED BY <1>1, <2>8 DEF Bad
  <1> QED BY <1>2, <1>3

LEMMA DecodedIsText == ASSUME NEW S, NEW chunk \in Seq(S) PROVE Decoded(chunk) \in Seq(Chars)
  <1> DEFINE n == Len(chunk)
             f == CHOOSE f : Texts(chunk, n, f)
  <1>1. n \in Nat
    OBVIOUS
  <1>2. Texts(chunk, n, f)
    BY <1>1, TextsExist
  <1>3. Decoded(chunk) = f[n]
    BY DEF Decoded, Texts, Closing, Mark
  <1> HIDE DEF f
  <1>4. \A k \in 0..n : f[k] = IF k = 0 THEN <<>>
                               ELSE IF Closing(chunk, k) THEN f[k - 1] ELSE Append(f[k - 1], Mark(chunk, k))
    BY <1>2 DEF Texts
  <1> HIDE DEF n
  <1>5. \A k : Mark(chunk, k) \in Chars
    BY DEF Mark, Chars
  <1> DEFINE Bad == {k \in 0..n : f[k] \notin Seq(Chars)}
  <1> SUFFICES ASSUME Bad # {} PROVE FALSE
    BY <1>1, <1>3
  <1>6. Bad \subseteq Nat
    BY <1>1
  <1>7. PICK k \in Bad : \A y \in Bad : ~(y < k)
    BY <1>6, LeastOf
  <1>8. k # 0
    <2>1. f[0] = <<>>
      BY <1>1, <1>4
    <2>2. f[0] \in Seq(Chars)
      BY <2>1
    <2> QED BY <1>7, <2>2
  <1>9. k \in 0..n /\ k - 1 \in 0..n /\ k - 1 < k
    BY <1>1, <1>7, <1>8
  <1>10. f[k - 1] \in Seq(Chars)
    BY <1>7, <1>9
  <1>11. f[k] = f[k - 1] \/ f[k] = Append(f[k - 1], Mark(chunk, k))
    BY <1>4, <1>8, <1>9
  <1>12. f[k] \in Seq(Chars)
    <2> DEFINE old == f[k - 1]
               mark == Mark(chunk, k)
    <2>1. old \in Seq(Chars) /\ mark \in Chars /\ (f[k] = old \/ f[k] = Append(old, mark))
      BY <1>5, <1>10, <1>11
    <2> HIDE DEF old, mark, Chars
    <2>2. Append(old, mark) \in Seq(Chars)
      BY <2>1
    <2> QED BY <2>1, <2>2
  <1> QED BY <1>7, <1>12

-----------------------------------------------------------------------------
(* The buffer keeps the longest end of the output.                         *)

\* A text within the limit stays; of another one the first characters go, as few as
\* can (enforce_byte_limit).
LEMMA KeepCuts ==
    ASSUME NEW text \in Seq(Chars)
    PROVE  \/ Bytes(text) <= Limit /\ Keep(text) = text
           \/ \E n \in 1..Len(text) :
                 /\ Keep(text) = Suffix(text, n) /\ Bytes(Suffix(text, n)) <= Limit
                 /\ Bytes(Suffix(text, n - 1)) > Limit
  <1> DEFINE cut == Bytes(text) - Limit
             First(m) == /\ Bytes(SubSeq(text, 1, m)) >= cut
                         /\ \A j \in 1..m - 1 : Bytes(SubSeq(text, 1, j)) < cut
             n == CHOOSE m \in 1..Len(text) : First(m)
  <1>1. Limit \in Nat /\ Bytes(text) \in Nat /\ Len(text) \in Nat
    BY TerminalAssumption, BytesAdd
  <1>2. \A m \in 0..Len(text) : /\ Bytes(SubSeq(text, 1, m)) \in Nat /\ Bytes(Suffix(text, m)) \in Nat
                                /\ Bytes(text) = Bytes(SubSeq(text, 1, m)) + Bytes(Suffix(text, m))
    <2> SUFFICES ASSUME NEW m \in 0..Len(text)
                 PROVE  /\ Bytes(SubSeq(text, 1, m)) \in Nat /\ Bytes(Suffix(text, m)) \in Nat
                        /\ Bytes(text) = Bytes(SubSeq(text, 1, m)) + Bytes(Suffix(text, m))
      OBVIOUS
    <2> DEFINE u == SubSeq(text, 1, m)
               v == Suffix(text, m)
    <2>1. u \in Seq(Chars) /\ v \in Seq(Chars) /\ u \o v = text
      BY Halves
    <2> HIDE DEF u, v
    <2>2. Bytes(u) \in Nat /\ Bytes(v) \in Nat /\ Bytes(u \o v) = Bytes(u) + Bytes(v)
      BY <2>1, BytesAdd
    <2> QED BY <2>1, <2>2 DEF u, v
  <1>3. CASE Bytes(text) <= Limit
    BY <1>3 DEF Keep
  <1>4. CASE Bytes(text) > Limit
    <2>1. Len(text) > 0 /\ SubSeq(text, 1, Len(text)) = text
      <3>1. text # <<>>
        BY <1>1, <1>4, NoBytes
      <3> QED BY <3>1
    <2> DEFINE M == {m \in 1..Len(text) : Bytes(SubSeq(text, 1, m)) >= cut}
    <2>2. Len(text) \in M
      <3>1. Bytes(text) >= cut /\ Len(text) \in 1..Len(text)
        BY <1>1, <2>1
      <3> HIDE DEF cut
      <3> QED BY <2>1, <3>1
    <2>3. PICK m \in M : \A y \in M : ~(y < m)
      <3>1. M \subseteq Nat /\ M # {}
        BY <1>1, <2>2
      <3> HIDE DEF M
      <3> QED BY <3>1, LeastOf
    <2>4. m \in 1..Len(text) /\ First(m)
      <3>1. m \in 1..Len(text) /\ Bytes(SubSeq(text, 1, m)) >= cut
        BY <2>3
      <3>2. ASSUME NEW j \in 1..m - 1 PROVE Bytes(SubSeq(text, 1, j)) < cut
        <4>1. j \in 1..Len(text) /\ j < m /\ j \in 0..Len(text)
          BY <1>1, <3>1
        <4>2. j \notin M
          BY <2>3, <4>1
        <4>3. ~(Bytes(SubSeq(text, 1, j)) >= cut)
          BY <4>1, <4>2
        <4> QED BY <1>1, <1>2, <4>1, <4>3
      <3> QED BY <3>1, <3>2
    <2>5. n \in 1..Len(text) /\ First(n)
      BY <2>4
    <2>6. Keep(text) = Suffix(text, n)
      <3>1. Keep(text) = IF Bytes(text) <= Limit THEN text ELSE SubSeq(text, n + 1, Len(text))
        BY DEF Keep
      <3>2. ~(Bytes(text) <= Limit)
        BY <1>1, <1>4
      <3> HIDE DEF n
      <3> QED BY <3>1, <3>2 DEF Suffix
    <2> HIDE DEF n
    <2>7. n \in 0..Len(text) /\ n - 1 \in 0..Len(text) /\ n \in Nat
      BY <1>1, <2>5
    <2>8. Bytes(Suffix(text, n)) <= Limit
      <3> DEFINE a == Bytes(SubSeq(text, 1, n))
                 b == Bytes(Suffix(text, n))
                 all == Bytes(text)
      <3>1. a \in Nat /\ b \in Nat /\ all = a + b
        BY <1>2, <2>7
      <3>2. a >= all - Limit /\ all \in Nat
        BY <1>1, <2>5
      <3> HIDE DEF a, b, all
      <3>3. b <= Limit
        BY <1>1, <3>1, <3>2
      <3> QED BY <3>3 DEF b
    <2>9. Bytes(Suffix(text, n - 1)) > Limit
      <3>1. CASE n = 1
        <4>1. SubSeq(text, 1, 0) = <<>>
          OBVIOUS
        <4>2. 0 \in 0..Len(text) /\ Bytes(text) = Bytes(SubSeq(text, 1, 0)) + Bytes(Suffix(text, 0))
          BY <1>1, <1>2
        <4>3. Bytes(text) = 0 + Bytes(Suffix(text, 0)) /\ Bytes(Suffix(text, 0)) \in Nat
          BY <1>2, <4>1, <4>2, NoBytes
        <4>4. Bytes(Suffix(text, 0)) > Limit
          BY <1>4, <4>3
        <4>5. n - 1 = 0
          BY <3>1
        <4> QED BY <4>4, <4>5
      <3>2. CASE n # 1
        <4>1. n - 1 \in 1..n - 1
          BY <2>5, <2>7, <3>2
        <4>2. Bytes(SubSeq(text, 1, n - 1)) < cut
          BY <2>5, <4>1
        <4> DEFINE u == Bytes(SubSeq(text, 1, n - 1))
                   v == Bytes(Suffix(text, n - 1))
        <4>3. u \in Nat /\ v \in Nat /\ Bytes(text) = u + v /\ u < Bytes(text) - Limit
          BY <1>2, <2>7, <4>2
        <4> HIDE DEF u, v
        <4>4. v > Limit
          BY <1>1, <4>3
        <4> QED BY <4>4 DEF v
      <3> QED BY <3>1, <3>2
    <2> QED BY <2>5, <2>6, <2>8, <2>9
  <1> QED BY <1>1, <1>3, <1>4

\* b is the longest end of all that fits the limit, and says whether it is all.
KeptEnd(b, all) ==
    \E d \in 0..Len(all) :
        /\ b.text = Suffix(all, d) /\ Bytes(Suffix(all, d)) <= Limit
        /\ d > 0 => Bytes(Suffix(all, d - 1)) > Limit
        /\ b.truncated = (d > 0)

LEMMA AppendKeepsEnd ==
    ASSUME NEW b, NEW all \in Seq(Chars), NEW chunk, Decoded(chunk) \in Seq(Chars), KeptEnd(b, all)
    PROVE  KeptEnd(Appended(b, chunk), all \o Decoded(chunk))
  <1> DEFINE more == Decoded(chunk)
             text == b.text \o more
             now == all \o more
             B == Appended(b, chunk)
  <1>1. PICK d \in 0..Len(all) :
            /\ b.text = Suffix(all, d) /\ Bytes(Suffix(all, d)) <= Limit
            /\ d > 0 => Bytes(Suffix(all, d - 1)) > Limit
            /\ b.truncated = (d > 0)
    BY DEF KeptEnd
  <1>2. more \in Seq(Chars)
    OBVIOUS
  <1>3. B.text = Keep(text) /\ B.truncated = (b.truncated \/ Keep(text) # text)
    BY DEF Appended
  <1> HIDE DEF more, B
  <1>4. Suffix(all, d) \in Seq(Chars) /\ text = Suffix(all, d) \o more /\ text \in Seq(Chars)
    BY <1>1, <1>2, Halves, ConcatIs
  <1>5. text = Suffix(now, d) /\ now \in Seq(Chars) /\ Len(now) = Len(all) + Len(more)
    BY <1>1, <1>2, <1>4, EndOfBoth, ConcatIs
  <1>6. Limit \in Nat /\ d \in Nat /\ Len(all) \in Nat /\ Len(more) \in Nat /\ Len(text) \in Nat
    BY <1>1, <1>2, <1>4, TerminalAssumption
  <1>7. d \in 0..Len(now) /\ Len(text) = Len(now) - d
    <2>1. d \in 0..Len(now)
      BY <1>1, <1>5, <1>6
    <2> HIDE DEF now, text
    <2> QED BY <1>5, <2>1, Halves
  <1> HIDE DEF text, now
  <1>8. CASE Bytes(text) <= Limit /\ Keep(text) = text
    <2>1. B.text = Suffix(now, d) /\ Bytes(Suffix(now, d)) <= Limit
      BY <1>3, <1>5, <1>8
    <2>2. B.truncated = (d > 0)
      <3>1. B.truncated = (b.truncated \/ FALSE) /\ b.truncated = (d > 0)
        BY <1>1, <1>3, <1>8
      <3>2. CASE d > 0
        <4>1. b.truncated = TRUE
          BY <3>1, <3>2
        <4>2. B.truncated = TRUE
          BY <3>1, <4>1
        <4> QED BY <3>2, <4>2
      <3>3. CASE ~(d > 0)
        <4>1. (d > 0) = FALSE
          BY <3>3
        <4>2. b.truncated = FALSE
          BY <3>1, <4>1, Zenon
        <4>3. B.truncated = FALSE
          BY <3>1, <4>2, Zenon
        <4> QED BY <4>1, <4>3, Zenon
      <3> QED BY <3>2, <3>3
    <2>3. ASSUME d > 0 PROVE Bytes(Suffix(now, d - 1)) > Limit
      <3> DEFINE u == Suffix(all, d - 1)
      <3>1. d - 1 \in 0..Len(all)
        BY <1>1, <1>6, <2>3
      <3>2. u \in Seq(Chars) /\ Suffix(now, d - 1) = u \o more /\ Bytes(u) > Limit
        <4>1. u \in Seq(Chars) /\ Bytes(u) > Limit
          BY <1>1, <2>3, <3>1, Halves
        <4>2. Suffix(all \o more, d - 1) = Suffix(all, d - 1) \o more
          BY <1>2, <3>1, EndOfBoth
        <4> QED BY <4>1, <4>2 DEF now
      <3> HIDE DEF u
      <3>3. Bytes(u) \in Nat /\ Bytes(more) \in Nat /\ Bytes(u \o more) = Bytes(u) + Bytes(more)
        BY <1>2, <3>2, BytesAdd
      <3> DEFINE x == Bytes(u)
                 y == Bytes(more)
      <3>4. x \in Nat /\ y \in Nat /\ x > Limit /\ Bytes(Suffix(now, d - 1)) = x + y
        BY <3>2, <3>3
      <3> HIDE DEF x, y
      <3> QED BY <1>6, <3>4
    <2>4. KeptEnd(B, now)
      BY <1>7, <2>1, <2>2, <2>3 DEF KeptEnd
    <2> QED BY <2>4 DEF B, now, more
  <1>9. ASSUME NEW n \in 1..Len(text),
               Keep(text) = Suffix(text, n), Bytes(Suffix(text, n)) <= Limit,
               Bytes(Suffix(text, n - 1)) > Limit
        PROVE  KeptEnd(Appended(b, chunk), all \o Decoded(chunk))
    <2>1. /\ n \in Nat /\ n > 0 /\ n \in 0..Len(now) - d /\ n - 1 \in 0..Len(now) - d
          /\ d + n \in 0..Len(now) /\ d + n > 0 /\ d + (n - 1) = d + n - 1 /\ n \in 0..Len(text)
      BY <1>6, <1>7, <1>9
    <2>2. Suffix(text, n) = Suffix(now, d + n) /\ Suffix(text, n - 1) = Suffix(now, d + n - 1)
      <3>1. Suffix(Suffix(now, d), n) = Suffix(now, d + n)
        BY <1>5, <1>7, <2>1, EndOfEnd
      <3>2. Suffix(Suffix(now, d), n - 1) = Suffix(now, d + (n - 1))
        BY <1>5, <1>7, <2>1, EndOfEnd
      <3> QED BY <1>5, <2>1, <3>1, <3>2
    <2>3. Keep(text) # text
      <3>1. Len(Suffix(text, n)) = Len(text) - n
        BY <1>4, <2>1, Halves
      <3> QED BY <1>6, <1>9, <2>1, <3>1
    <2>4. B.text = Suffix(now, d + n) /\ B.truncated = TRUE
      BY <1>3, <1>9, <2>2, <2>3
    <2>5. Bytes(Suffix(now, d + n)) <= Limit /\ Bytes(Suffix(now, d + n - 1)) > Limit
      BY <1>9, <2>2
    <2> DEFINE e == d + n
    <2>6. /\ e \in 0..Len(now) /\ e > 0 /\ B.text = Suffix(now, e) /\ B.truncated = TRUE
          /\ Bytes(Suffix(now, e)) <= Limit /\ Bytes(Suffix(now, e - 1)) > Limit
      BY <2>1, <2>4, <2>5
    <2> HIDE DEF e
    <2>7. KeptEnd(B, now)
      BY <2>6 DEF KeptEnd
    <2> QED BY <2>7 DEF B, now, more
  <1> QED BY <1>4, <1>8, <1>9, KeepCuts

BufferInv ==
    /\ pipe \in [Terminal -> [Stream -> Seq({"a", "b1", "b2"})]]
    /\ captured \in [Terminal -> Seq(Chars)] /\ DOMAIN buffer = Terminal
    /\ \A t \in Terminal : KeptEnd(buffer[t], captured[t])

LEMMA InitBuffer == Init => BufferInv
  <1> SUFFICES ASSUME Init PROVE BufferInv
    OBVIOUS
  <1> DEFINE empty == [text |-> <<>>, truncated |-> FALSE]
  <1>1. /\ pipe = [t \in Terminal |-> [s \in Stream |-> <<>>]] /\ captured = [t \in Terminal |-> <<>>]
        /\ buffer = [t \in Terminal |-> empty]
    BY DEF Init
  <1>2. KeptEnd(empty, <<>>)
    <2>1. Suffix(<<>>, 0) = <<>> /\ 0 \in 0..Len(<<>>)
      BY DEF Suffix
    <2>2. Limit \in Nat
      BY TerminalAssumption
    <2>3. empty.text = <<>> /\ empty.truncated = FALSE
      OBVIOUS
    <2> HIDE DEF empty
    <2> DEFINE none == 0
    <2>4. /\ none \in 0..Len(<<>>) /\ ~(none > 0) /\ Suffix(<<>>, none) = <<>>
          /\ Bytes(Suffix(<<>>, none)) <= Limit
      BY <2>1, <2>2, NoBytes
    <2>5. empty.truncated = (none > 0)
      <3>1. (none > 0) = FALSE
        BY <2>4
      <3> HIDE DEF none
      <3> QED BY <2>3, <3>1
    <2> HIDE DEF none
    <2> QED BY <2>3, <2>4, <2>5 DEF KeptEnd
  <1> HIDE DEF empty
  <1> QED BY <1>1, <1>2 DEF BufferInv

LEMMA WriteKeepsBuffer ==
    ASSUME BufferInv, NEW t \in Terminal, NEW s \in Stream, Write(t, s) PROVE BufferInv'
  <1>1. PICK char \in {Narrow, Wide} : pipe' = [pipe EXCEPT ![t][s] = @ \o char]
    BY DEF Write
  <1>2. UNCHANGED <<buffer, captured>>
    BY DEF Write
  <1> DEFINE Written == {"a", "b1", "b2"}
  <1>3. char \in Seq(Written)
    <2>1. <<"a">> \in Seq(Written) /\ <<"b1", "b2">> \in Seq(Written)
      OBVIOUS
    <2> HIDE DEF Written
    <2>2. char = <<"a">> \/ char = <<"b1", "b2">>
      BY <1>1 DEF Narrow, Wide
    <2> QED BY <2>1, <2>2
  <1>4. pipe[t][s] \in Seq(Written) /\ pipe \in [Terminal -> [Stream -> Seq(Written)]]
    BY DEF BufferInv
  <1> HIDE DEF Written
  <1>5. pipe[t][s] \o char \in Seq(Written)
    BY <1>3, <1>4
  <1>6. pipe' \in [Terminal -> [Stream -> Seq(Written)]]
    BY <1>1, <1>4, <1>5
  <1> QED BY <1>2, <1>6 DEF BufferInv, Written

LEMMA ReadKeepsBuffer ==
    ASSUME BufferInv, NEW t \in Terminal, NEW s \in Stream, Read(t, s) PROVE BufferInv'
  <1> DEFINE Written == {"a", "b1", "b2"}
  <1>1. PICK n \in 1..Len(pipe[t][s]) :
            /\ buffer' = [buffer EXCEPT ![t] = Appended(@, SubSeq(pipe[t][s], 1, n))]
            /\ captured' = [captured EXCEPT ![t] = @ \o Decoded(SubSeq(pipe[t][s], 1, n))]
            /\ pipe' = [pipe EXCEPT ![t][s] = SubSeq(@, n + 1, Len(@))]
    BY DEF Read
  <1>2. PICK p : p = pipe[t][s]
    OBVIOUS
  <1>3. p \in Seq(Written) /\ pipe \in [Terminal -> [Stream -> Seq(Written)]]
    BY <1>2 DEF BufferInv
  <1> HIDE DEF Written
  <1>4. n \in 1..Len(p) /\ Len(p) \in Nat /\ n \in 0..Len(p)
    BY <1>1, <1>2, <1>3
  <1>5. PICK chunk : chunk = SubSeq(p, 1, n)
    OBVIOUS
  <1>6. chunk \in Seq(Written) /\ SubSeq(p, n + 1, Len(p)) \in Seq(Written)
    BY <1>3, <1>4, <1>5, Halves DEF Suffix
  <1>7. pipe' \in [Terminal -> [Stream -> Seq(Written)]]
    BY <1>1, <1>2, <1>3, <1>6
  <1>8. Decoded(chunk) \in Seq(Chars)
    BY <1>6, DecodedIsText
  <1>9. /\ captured \in [Terminal -> Seq(Chars)] /\ DOMAIN buffer = Terminal
        /\ \A u \in Terminal : KeptEnd(buffer[u], captured[u])
    BY DEF BufferInv
  <1>10. captured[t] \o Decoded(chunk) \in Seq(Chars)
    BY <1>8, <1>9
  <1>11. /\ captured' = [captured EXCEPT ![t] = captured[t] \o Decoded(chunk)]
         /\ buffer' = [buffer EXCEPT ![t] = Appended(buffer[t], chunk)]
    BY <1>1, <1>2, <1>5
  <1>12. captured' \in [Terminal -> Seq(Chars)] /\ DOMAIN buffer' = Terminal
    BY <1>9, <1>10, <1>11
  <1>13. ASSUME NEW u \in Terminal PROVE KeptEnd(buffer'[u], captured'[u])
    <2>1. CASE u = t
      <3>1. buffer'[u] = Appended(buffer[t], chunk) /\ captured'[u] = captured[t] \o Decoded(chunk)
        BY <1>9, <1>11, <2>1
      <3> QED BY <1>8, <1>9, <3>1, AppendKeepsEnd
    <2>2. CASE u # t
      BY <1>9, <1>11, <2>2
    <2> QED BY <2>1, <2>2
  <1>14. (\A u \in Terminal : KeptEnd(buffer[u], captured[u]))'
    BY <1>13 DEF KeptEnd
  <1> QED BY <1>7, <1>12, <1>14 DEF BufferInv, Written

LEMMA NextKeepsBuffer == BufferInv /\ [Next]_vars => BufferInv'
  <1> SUFFICES ASSUME BufferInv, [Next]_vars PROVE BufferInv'
    OBVIOUS
  <1>1. CASE \E t \in Terminal, s \in Stream : Write(t, s)
    BY <1>1, WriteKeepsBuffer
  <1>2. CASE \E t \in Terminal, s \in Stream : Read(t, s)
    BY <1>2, ReadKeepsBuffer
  <1>3. CASE UNCHANGED <<pipe, buffer, captured>>
    BY <1>3 DEF BufferInv
  <1>4. ASSUME NEW t \in Terminal
        PROVE  /\ \A session \in Session : Create(t, session) => UNCHANGED <<pipe, buffer, captured>>
               /\ Exit(t) \/ ChildEnds(t) => UNCHANGED <<pipe, buffer, captured>>
               /\ \A s \in Stream : ReadEnd(t, s) => UNCHANGED <<pipe, buffer, captured>>
    BY DEF Create, Exit, ChildEnds, ReadEnd
  <1>5. ASSUME NEW r \in Request
        PROVE  /\ \A kind \in Kind, t \in Terminal, session \in Session :
                      Ask(r, kind, t, session) => UNCHANGED <<pipe, buffer, captured>>
               /\ Serve(r) => UNCHANGED <<pipe, buffer, captured>>
    BY DEF Ask, Serve, Refresh, Snapshot, Wait, Kill, TakeReaders, ReadersDone
  <1>6. Settled \/ UNCHANGED vars => UNCHANGED <<pipe, buffer, captured>>
    BY DEF Settled, vars
  <1>7. \/ \E t \in Terminal, s \in Stream : Write(t, s) \/ Read(t, s)
        \/ UNCHANGED <<pipe, buffer, captured>>
    BY <1>4, <1>5, <1>6 DEF Next
  <1> QED BY <1>1, <1>2, <1>3, <1>7

\* However the readers of both pipes cut the output and interleave, the buffer
\* (TerminalOutputBuffer, enforce_byte_limit in fluent-code-tui/src/acp.rs) holds the
\* longest end of all that was decoded within the limit, never a cut character, and
\* says that something is missing exactly when it is.
THEOREM BufferKeepsLongestEnd == Spec => []BufferIsLongestEnd
  <1>1. BufferInv => BufferIsLongestEnd
    <2> SUFFICES ASSUME BufferInv, NEW t \in Terminal, NEW all, all = captured[t], NEW kept, kept = buffer[t].text
                 PROVE  /\ kept = Suffix(all, Len(all) - Len(kept))
                        /\ Bytes(kept) <= Limit
                        /\ kept # all => Bytes(Suffix(all, Len(all) - Len(kept) - 1)) > Limit
                        /\ buffer[t].truncated = (kept # all)
      BY DEF BufferIsLongestEnd
    <2>1. all \in Seq(Chars) /\ KeptEnd(buffer[t], all)
      BY DEF BufferInv
    <2>2. PICK d \in 0..Len(all) :
              /\ kept = Suffix(all, d) /\ Bytes(Suffix(all, d)) <= Limit
              /\ d > 0 => Bytes(Suffix(all, d - 1)) > Limit
              /\ buffer[t].truncated = (d > 0)
      BY <2>1 DEF KeptEnd
    <2>3. Len(kept) = Len(all) - d /\ Len(all) \in Nat /\ d \in Nat
      BY <2>1, <2>2, Halves
    <2>4. Len(all) - Len(kept) = d /\ Len(all) - Len(kept) - 1 = d - 1
      BY <2>3
    <2>5. kept # all <=> d > 0
      <3>1. CASE d = 0
        <4>1. Suffix(all, 0) = all
          BY <2>1 DEF Suffix
        <4> QED BY <2>2, <3>1, <4>1
      <3>2. CASE d > 0
        <4>1. Len(kept) # Len(all)
          BY <2>3, <3>2
        <4> QED BY <3>2, <4>1
      <3> QED BY <2>3, <3>1, <3>2
    <2>6. buffer[t].truncated = (kept # all)
      <3>1. CASE d > 0
        <4>1. buffer[t].truncated = TRUE
          BY <2>2, <3>1
        <4> QED BY <2>5, <3>1, <4>1
      <3>2. CASE ~(d > 0)
        <4>1. (d > 0) = FALSE
          BY <3>2
        <4>2. buffer[t].truncated = FALSE
          BY <2>2, <4>1, Zenon
        <4> QED BY <2>5, <3>2, <4>2
      <3> QED BY <3>1, <3>2
    <2>7. kept # all => Bytes(Suffix(all, Len(all) - Len(kept) - 1)) > Limit
      BY <2>2, <2>4, <2>5
    <2> QED BY <2>2, <2>4, <2>6, <2>7
  <1>2. BufferInv /\ [Next]_vars => BufferInv'
    BY NextKeepsBuffer
  <1> QED BY <1>1, <1>2, InitBuffer, PTL DEF Spec
=============================================================================
