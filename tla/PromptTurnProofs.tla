--------------------------- MODULE PromptTurnProofs ---------------------------
(***************************************************************************)
(* A prompt is answered with what became of its own turn, and no turn goes *)
(* on without its prompt: for any number of prompts and of cancels sent    *)
(* during the last one, whatever the model says and the client answers.    *)
(* On the same invariant: the client's answer decides the call it was      *)
(* asked about, no call is asked about twice, and a turn that ends with no *)
(* cancel sent is heard as a whole before its response.                    *)
(*                                                                         *)
(* A cancel during an earlier prompt is left out: it stores its completion *)
(* twice, and the second may answer the prompt after.                      *)
(***************************************************************************)
EXTENDS PromptTurnProperties, WellFoundedInduction, TLAPS

Final == NumPrompts
Kinds == {"text", "call", "done", "fail", "result"}

LEMMA Numbers ==
    /\ Final \in Prompt /\ Prompt \subseteq Task /\ Cancel \subseteq Task /\ Task = Prompt \cup Cancel
    /\ Prompt \cap Cancel = {} /\ 0 \notin Task /\ Prompt \subseteq Nat
    /\ \A p \in Prompt : p <= Final /\ (p # Final => p < Final /\ p + 1 \in Prompt)
    /\ \A p, q \in Prompt : p < q \/ q < p \/ p = q
  BY PromptTurnAssumption DEF Final, Prompt, Cancel, Task

-----------------------------------------------------------------------------
(* Sequences over what they hold.                                          *)

IsSeq(s) == s \in Seq(ToSet(s))

LEMMA SeqIsSeq == ASSUME NEW S, NEW s \in Seq(S) PROVE IsSeq(s)
  <1>1. \A i \in 1..Len(s) : s[i] \in ToSet(s)
    BY DEF ToSet
  <1> QED BY <1>1 DEF IsSeq

LEMMA ElementsOf ==
    ASSUME NEW s, IsSeq(s)
    PROVE  /\ DOMAIN s = 1..Len(s) /\ Len(s) \in Nat
           /\ \A i \in DOMAIN s : s[i] \in ToSet(s)
           /\ \A x \in ToSet(s) : \E i \in DOMAIN s : s[i] = x
  <1>1. s \in Seq(ToSet(s))
    BY DEF IsSeq
  <1> QED BY <1>1 DEF ToSet

LEMMA TailIsSeq ==
    ASSUME NEW s, IsSeq(s), s # <<>>
    PROVE  /\ IsSeq(Tail(s)) /\ Len(Tail(s)) = Len(s) - 1
           /\ \A i \in DOMAIN Tail(s) : i + 1 \in DOMAIN s /\ Tail(s)[i] = s[i + 1]
           /\ 1 \in DOMAIN s /\ Head(s) = s[1]
  <1>1. s \in Seq(ToSet(s)) /\ Tail(s) \in Seq(ToSet(s)) /\ Len(Tail(s)) = Len(s) - 1
    BY DEF IsSeq
  <1>2. IsSeq(Tail(s))
    BY <1>1, SeqIsSeq
  <1>3. \A i \in DOMAIN Tail(s) : i + 1 \in DOMAIN s /\ Tail(s)[i] = s[i + 1]
    BY <1>1
  <1>4. 1 \in DOMAIN s /\ Head(s) = s[1]
    BY <1>1
  <1> QED BY <1>1, <1>2, <1>3, <1>4

LEMMA ConcatIsSeq ==
    ASSUME NEW s, IsSeq(s), NEW t, IsSeq(t)
    PROVE  /\ IsSeq(s \o t)
           /\ \A i \in DOMAIN (s \o t) : (s \o t)[i] \in ToSet(s) \cup ToSet(t)
  <1> DEFINE S == ToSet(s) \cup ToSet(t)
  <1>1. s \in Seq(S) /\ t \in Seq(S)
    <2>1. s \in Seq(ToSet(s)) /\ t \in Seq(ToSet(t))
      BY DEF IsSeq
    <2>2. (\A i \in 1..Len(s) : s[i] \in S) /\ (\A i \in 1..Len(t) : t[i] \in S)
      BY <2>1
    <2> QED BY <2>1, <2>2
  <1> HIDE DEF S
  <1>2. s \o t \in Seq(S)
    BY <1>1
  <1>3. IsSeq(s \o t)
    BY <1>2, SeqIsSeq
  <1>4. \A i \in DOMAIN (s \o t) : (s \o t)[i] \in S
    BY <1>2
  <1> QED BY <1>3, <1>4 DEF S

LEMMA AppendIsSeq ==
    ASSUME NEW s, IsSeq(s), NEW x
    PROVE  /\ IsSeq(Append(s, x)) /\ DOMAIN Append(s, x) = 1..Len(s) + 1
           /\ DOMAIN s = 1..Len(s) /\ Len(s) \in Nat
           /\ \A i \in DOMAIN s : Append(s, x)[i] = s[i]
           /\ Append(s, x)[Len(s) + 1] = x
  <1> DEFINE S == ToSet(s) \cup {x}
  <1>1. s \in Seq(S)
    <2>1. s \in Seq(ToSet(s))
      BY DEF IsSeq
    <2>2. \A i \in 1..Len(s) : s[i] \in S
      BY <2>1
    <2> QED BY <2>1, <2>2
  <1>2. x \in S
    OBVIOUS
  <1> HIDE DEF S
  <1>3. Append(s, x) \in Seq(S)
    BY <1>1, <1>2
  <1>4. IsSeq(Append(s, x))
    BY <1>3, SeqIsSeq
  <1> QED BY <1>1, <1>2, <1>3, <1>4

-----------------------------------------------------------------------------
(* What each step of the host does to the turn.                            *)

HostFields == {"turn", "latest", "phase", "call", "src", "stop", "said", "live", "pending", "buffered"}
LiveFields == {"turn", "told", "asked"}

IsHost(m) == /\ m = [f \in HostFields |-> m[f]]
             /\ m.live = [f \in LiveFields |-> m.live[f]]
             /\ m.stop = [p \in Prompt |-> m.stop[p]]

SameTurn(m, n) == n.turn = m.turn /\ n.stop = m.stop
SameRest(m, n) == /\ n.latest = m.latest /\ n.live = m.live
                  /\ n.pending = m.pending /\ n.buffered = m.buffered

EndsWith(m, n, stop) == n.turn = 0 /\ n.stop = [m.stop EXCEPT ![m.turn] = stop]

LEMMA EndTurnFields ==
    ASSUME NEW m, IsHost(m), NEW stop
    PROVE  LET n == EndTurn(m, stop) IN IsHost(n) /\ EndsWith(m, n, stop) /\ SameRest(m, n)
  BY DEF EndTurn, IsHost, HostFields, LiveFields, EndsWith, SameRest

LEMMA HostApplyFields ==
    ASSUME NEW m, IsHost(m), NEW msg, msg.kind \in Kinds
    PROVE  LET n == HostApply(m, msg)
           IN  /\ IsHost(n) /\ SameRest(m, n)
               /\ SameTurn(m, n) \/ \E stop \in Stops : EndsWith(m, n, stop)
  <1>1. CASE msg.turn # m.turn
    BY <1>1 DEF HostApply, SameRest, SameTurn
  <1>2. CASE msg.turn = m.turn /\ msg.kind = "text"
    <2>1. HostApply(m, msg) = [m EXCEPT !.said[m.turn] = @ + 1]
      BY <1>2 DEF HostApply
    <2> QED BY <2>1 DEF IsHost, HostFields, LiveFields, SameRest, SameTurn
  <1>3. CASE msg.turn = m.turn /\ msg.kind = "call"
    <2>1. HostApply(m, msg) = [m EXCEPT !.phase = "Awaiting", !.call = msg.call]
      BY <1>3 DEF HostApply
    <2> QED BY <2>1 DEF IsHost, HostFields, LiveFields, SameRest, SameTurn
  <1>4. CASE msg.turn = m.turn /\ msg.kind = "result"
    <2>1. HostApply(m, msg) = [m EXCEPT !.phase = "Generating", !.src = "stream"]
      BY <1>4 DEF HostApply
    <2> QED BY <2>1 DEF IsHost, HostFields, LiveFields, SameRest, SameTurn
  <1>5. CASE msg.turn = m.turn /\ msg.kind \in {"done", "fail"}
    <2>1. PICK stop \in Stops : HostApply(m, msg) = EndTurn(m, stop)
      BY <1>5 DEF HostApply, Stops
    <2> QED BY <2>1, EndTurnFields
  <1> QED
    BY <1>1, <1>2, <1>3, <1>4, <1>5 DEF Kinds

LEMMA ReplyFields ==
    ASSUME NEW m, IsHost(m), NEW answer
    PROVE  LET n == Reply(m, answer) IN IsHost(n) /\ SameRest(m, n) /\ SameTurn(m, n)
  BY DEF Reply, IsHost, HostFields, LiveFields, SameRest, SameTurn

LEMMA LiveRecord ==
    ASSUME NEW turn, NEW told, NEW asked, NEW live, live = [turn |-> turn, told |-> told, asked |-> asked]
    PROVE  live = [f \in LiveFields |-> live[f]] /\ live.turn = turn
  BY DEF LiveFields

LEMMA SeedFields ==
    ASSUME NEW m, IsHost(m)
    PROVE  LET n == Seed(m)
           IN  /\ IsHost(n) /\ SameTurn(m, n) /\ n.live.turn = m.turn
               /\ n.latest = m.latest /\ n.pending = m.pending /\ n.buffered = m.buffered
  <1>1. CASE m.turn = 0
    <2>1. Seed(m) = [m EXCEPT !.live = NoLive]
      BY <1>1 DEF Seed
    <2>2. NoLive = [f \in LiveFields |-> NoLive[f]] /\ NoLive.turn = 0
      BY LiveRecord DEF NoLive
    <2> QED BY <1>1, <2>1, <2>2 DEF IsHost, HostFields, SameTurn
  <1>2. CASE m.turn # 0
    <2> DEFINE live == [turn |-> m.turn, told |-> m.said[m.turn],
                        asked |-> IF m.phase = "Awaiting" THEN {m.call} ELSE {}]
    <2>1. Seed(m) = [m EXCEPT !.live = live]
      BY <1>2 DEF Seed
    <2>2. live = [f \in LiveFields |-> live[f]] /\ live.turn = m.turn
      BY LiveRecord
    <2> HIDE DEF live
    <2> QED BY <1>2, <2>1, <2>2 DEF IsHost, HostFields, SameTurn
  <1> QED
    BY <1>1, <1>2

LEMMA StartTurnFields ==
    ASSUME NEW m, IsHost(m), NEW p
    PROVE  LET n == StartTurn(m, p)
           IN  /\ IsHost(n) /\ n.turn = p /\ n.live.turn = p /\ n.latest = p /\ n.pending = p
               /\ n.stop = m.stop /\ n.buffered = m.buffered
  <1> DEFINE k == [Submit(m, p) EXCEPT !.pending = p]
  <1>1. /\ IsHost(k) /\ k.turn = p /\ k.latest = p /\ k.pending = p
        /\ k.stop = m.stop /\ k.buffered = m.buffered
    BY DEF Submit, IsHost, HostFields, LiveFields
  <1>2. StartTurn(m, p) = Seed(k)
    BY DEF StartTurn
  <1> HIDE DEF k
  <1> QED BY <1>1, <1>2, SeedFields DEF SameTurn

LEMMA PolledFields ==
    ASSUME NEW m, IsHost(m)
    PROVE  LET n == Polled(m)
           IN  /\ IsHost(n) /\ SameTurn(m, n) /\ n.latest = m.latest /\ n.buffered = m.buffered
               /\ IF Ended(m) THEN n.live.turn = 0 /\ n.pending = 0
                  ELSE n.live.turn = m.live.turn /\ n.pending = m.pending
  <1>1. CASE m.live.turn = 0
    BY <1>1 DEF Polled, Ended, SameTurn
  <1>2. CASE Ended(m)
    <2>1. Polled(m) = [m EXCEPT !.live = NoLive, !.pending = 0]
      BY <1>2 DEF Polled, Ended
    <2>2. NoLive = [f \in LiveFields |-> NoLive[f]] /\ NoLive.turn = 0
      BY LiveRecord DEF NoLive
    <2>3. /\ IsHost(Polled(m)) /\ SameTurn(m, Polled(m)) /\ Polled(m).live = NoLive
          /\ Polled(m).pending = 0
          /\ Polled(m).latest = m.latest /\ Polled(m).buffered = m.buffered
      BY <2>1, <2>2 DEF IsHost, HostFields, SameTurn
    <2> QED BY <1>2, <2>2, <2>3
  <1>3. CASE m.live.turn # 0 /\ ~Ended(m)
    <2>1. PICK told, asked : Polled(m) = [m EXCEPT !.live.told = told, !.live.asked = asked]
      BY <1>3 DEF Polled
    <2> QED BY <1>3, <2>1 DEF IsHost, HostFields, LiveFields, SameTurn
  <1> QED
    BY <1>1, <1>2, <1>3

LEMMA ShortIsSeq ==
    /\ IsSeq(<<>>) /\ ToSet(<<>>) = {}
    /\ \A x : IsSeq(<<x>>) /\ ToSet(<<x>>) = {x}
  <1>1. IsSeq(<<>>) /\ ToSet(<<>>) = {}
    BY DEF IsSeq, ToSet
  <1>2. ASSUME NEW x PROVE IsSeq(<<x>>) /\ ToSet(<<x>>) = {x}
    <2>1. <<x>> \in Seq({x}) /\ ToSet(<<x>>) = {x}
      BY DEF ToSet
    <2> QED BY <2>1, SeqIsSeq
  <1> QED BY <1>1, <1>2

\* Its result frame is the end of the live turn, for the pending id.
IsResultOf(m, f) == /\ Ended(m) /\ m.pending # 0
                    /\ f.id = m.pending /\ f.stop = m.stop[m.live.turn]

LEMMA ConcatElements ==
    ASSUME NEW s, IsSeq(s), NEW t, IsSeq(t)
    PROVE  IsSeq(s \o t) /\ \A x \in ToSet(s \o t) : x \in ToSet(s) \cup ToSet(t)
  <1>1. IsSeq(s \o t) /\ \A i \in DOMAIN (s \o t) : (s \o t)[i] \in ToSet(s) \cup ToSet(t)
    BY ConcatIsSeq
  <1>2. \A x \in ToSet(s \o t) : \E i \in DOMAIN (s \o t) : (s \o t)[i] = x
    BY <1>1, ElementsOf
  <1> QED BY <1>1, <1>2

LEMMA FramesOfPoll ==
    ASSUME NEW m
    PROVE  /\ IsSeq(PolledFrames(m))
           /\ \A f \in ToSet(PolledFrames(m)) : f.kind = "result" => IsResultOf(m, f)
  <1> DEFINE note == Note(m.live.turn, m.said[m.live.turn] - m.live.told)
             notes == IF m.said[m.live.turn] > m.live.told THEN <<note>> ELSE <<>>
             asked == IF m.turn = m.live.turn /\ m.phase = "Awaiting" /\ m.call \notin m.live.asked
                      THEN <<Permission(m.call)>> ELSE <<>>
             end == Result(m.pending, m.stop[m.live.turn])
             ends == IF Ended(m) /\ m.pending # 0 THEN <<end>> ELSE <<>>
  <1>1. Unsent(m) = notes \o asked
    BY DEF Unsent
  <1>2. PolledFrames(m) = IF m.live.turn = 0 THEN <<>> ELSE Unsent(m) \o ends
    BY DEF PolledFrames
  <1>3. note.kind = "note" /\ Permission(m.call).kind = "permission"
    BY DEF Note, Permission
  <1>4. end.id = m.pending /\ end.stop = m.stop[m.live.turn]
    BY DEF Result
  <1> HIDE DEF note, end
  <1>5. IsSeq(notes) /\ \A f \in ToSet(notes) : f.kind # "result"
    BY <1>3, ShortIsSeq
  <1>6. IsSeq(asked) /\ \A f \in ToSet(asked) : f.kind # "result"
    BY <1>3, ShortIsSeq
  <1>7. IsSeq(ends) /\ \A f \in ToSet(ends) : IsResultOf(m, f)
    BY <1>4, ShortIsSeq DEF IsResultOf
  <1> HIDE DEF notes, asked, ends
  <1>8. IsSeq(Unsent(m)) /\ \A f \in ToSet(Unsent(m)) : f.kind # "result"
    BY <1>1, <1>5, <1>6, ConcatElements
  <1>9. IsSeq(Unsent(m) \o ends)
        /\ \A f \in ToSet(Unsent(m) \o ends) : f.kind = "result" => IsResultOf(m, f)
    BY <1>7, <1>8, ConcatElements
  <1> QED
    BY <1>2, <1>9, ShortIsSeq

-----------------------------------------------------------------------------
(* The inductive invariant.                                                *)

Shapes ==
    /\ DOMAIN pc = Task /\ DOMAIN todo = Task /\ DOMAIN got = Task
    /\ DOMAIN last = Prompt /\ DOMAIN result = Prompt
    /\ IsHost(ms)
    /\ IsSeq(out) /\ IsSeq(box)
    /\ \A i \in DOMAIN box : box[i].kind \in Kinds
    /\ \A p \in Prompt : IsSeq(todo[p])

Types == Shapes /\ lockq \in Seq(Task)

Past(p) == pc[p] \notin {"idle", "start"}
Going(p) == Past(p) /\ pc[p] # "done"

\* The client waits for the answer to the prompt before.
Order == \A p, q \in Prompt : p < q /\ pc[q] # "idle" => pc[p] = "done"

\* A turn in progress is live, its prompt is in flight, and what a prompt that has
\* not started is to have is not there yet.
Turn ==
    /\ ms.turn # 0 => /\ ms.turn \in Prompt /\ Going(ms.turn)
                      /\ ms.live.turn = ms.turn /\ ms.stop[ms.turn] = "None"
    /\ \A p \in Prompt : ~Past(p) =>
        ms.stop[p] = "None" /\ p \notin {ms.live.turn, ms.pending, ms.latest}
    /\ \A p \in Prompt : Past(p) =>
        /\ ms.latest \in Prompt /\ ms.latest >= p
        /\ ms.live.turn # 0 => ms.live.turn \in Prompt /\ ms.live.turn >= p
        /\ ms.pending # 0 => ms.pending \in Prompt /\ ms.pending >= p

\* Who works on the session holds its lock, and a cancel queues behind its prompt.
Lock ==
    /\ \A t \in Task : pc[t] \in {"drain", "redrain", "wait"} => Holds(t)
    /\ \A j \in DOMAIN lockq : pc[lockq[j]] # "idle"
    /\ pc[Final] = "start" =>
        \E i \in DOMAIN lockq : lockq[i] = Final /\ \A j \in 1..i : lockq[j] \notin Cancel
    /\ \A c \in Cancel : pc[c] # "idle" =>
        pc[Final] # "idle" /\ (pc[Final] = "start" => pc[c] = "prepare")

\* Who waits for the dispatcher has one call there.
Sent ==
    /\ \A i \in DOMAIN out : out[i].task \in Task /\ pc[out[i].task] = "ack"
    /\ \A i, j \in DOMAIN out : i # j => out[i].task # out[j].task

\* Whatever a task carries of an end is the end of its own turn.
IsEnd(stop, p) == stop # "None" => stop = ms.stop[p]

PromptOk(p) ==
    /\ pc[p] \in {"send", "ack"} /\ last[p] => ms.turn # p
    /\ IsEnd(got[p], p)
    /\ \A f \in ToSet(todo[p]) : f.kind = "result" =>
        f.id = p /\ f.stop # "None" /\ IsEnd(f.stop, p)
    /\ result[p] \in Stops => IsEnd(result[p], p)

CancelOk(c) ==
    /\ IsEnd(got[c], Final)
    /\ pc[c] = "redrain" =>
        /\ IsSeq(todo[c])
        /\ \A f \in ToSet(todo[c]) : f.kind = "result" => IsEnd(f.stop, Final)

Ends == /\ \A p \in Prompt : PromptOk(p)
        /\ \A c \in Cancel : CancelOk(c)
        /\ IsEnd(ms.buffered, Final)

IInv == Types /\ Order /\ Turn /\ Lock /\ Sent /\ Ends

LEMMA InitInv == Init => IInv
  <1> SUFFICES ASSUME Init PROVE IInv
    OBVIOUS
  <1>1. IsHost(ms) /\ ms.turn = 0 /\ ms.live.turn = 0 /\ ms.pending = 0 /\ ms.latest = 0
        /\ ms.buffered = "None" /\ \A p \in Prompt : ms.stop[p] = "None"
    BY DEF Init, IsHost, HostFields, LiveFields, NoLive
  <1>2. Types
    BY <1>1, ShortIsSeq, Numbers DEF Init, Types, Shapes
  <1>3. \A t \in Task : pc[t] = "idle"
    BY DEF Init
  <1>4. Order
    BY <1>3, Numbers DEF Order
  <1>5. Turn
    BY <1>1, <1>3, Numbers DEF Turn, Past
  <1>6. Lock /\ Sent
    BY <1>3, Numbers DEF Init, Lock, Sent
  <1>7. Ends
    BY <1>1, <1>3, Numbers, ShortIsSeq DEF Init, Ends, PromptOk, CancelOk, IsEnd, Stops
  <1> QED BY <1>2, <1>4, <1>5, <1>6, <1>7 DEF IInv

-----------------------------------------------------------------------------
(* What a step of one task leaves of the invariant.                        *)

\* The prompt in flight owns the turn.
LEMMA GoingOwns ==
    ASSUME Order, Turn, NEW p \in Prompt, Going(p) \/ (p = Final /\ Past(p))
    PROVE  {ms.turn, ms.live.turn, ms.pending} \subseteq {0, p} /\ ms.latest = p
  <1>1. ASSUME NEW q \in Prompt, q >= p, Past(q) PROVE q = p
    <2>1. CASE Going(p)
      BY <1>1, <2>1, Numbers DEF Order, Past, Going
    <2>2. CASE p = Final
      BY <1>1, <2>2, Numbers
    <2> QED BY <2>1, <2>2
  <1>2. Past(p)
    BY DEF Going
  <1>3. /\ ms.latest \in Prompt /\ ms.latest >= p /\ Past(ms.latest)
        /\ ms.live.turn # 0 => /\ ms.live.turn \in Prompt /\ ms.live.turn >= p
                               /\ Past(ms.live.turn)
        /\ ms.pending # 0 => /\ ms.pending \in Prompt /\ ms.pending >= p
                             /\ Past(ms.pending)
    BY <1>2 DEF Turn
  <1>4. ms.turn # 0 => ms.turn = ms.live.turn
    BY DEF Turn
  <1> QED
    BY <1>1, <1>3, <1>4

\* One task steps.
Steps(t, at) == DOMAIN pc' = Task /\ pc'[t] = at /\ \A u \in Task : u # t => pc'[u] = pc[u]

LEMMA StepsOf ==
    ASSUME IInv, NEW t \in Task, NEW at, pc' = [pc EXCEPT ![t] = at]
    PROVE  Steps(t, at)
  BY DEF IInv, Types, Shapes, Steps

LEMMA StaysAt ==
    ASSUME IInv, NEW t \in Task, pc' = pc PROVE Steps(t, pc[t])
  BY DEF IInv, Types, Shapes, Steps

LEMMA OrderKept ==
    ASSUME Order, NEW t \in Task, NEW at, Steps(t, at), at # "idle",
           t \in Cancel \/ pc[t] \notin {"idle", "done"}
    PROVE  Order'
  BY Numbers DEF Order, Steps

LEMMA SentKept ==
    ASSUME Sent, NEW t \in Task, NEW at, Steps(t, at), pc[t] # "ack", UNCHANGED out
    PROVE  Sent'
  BY DEF Sent, Steps

\* The host moves on without a new turn.
Moves(m, n) ==
    /\ SameTurn(m, n) \/ (m.turn # 0 /\ \E stop \in Stops : EndsWith(m, n, stop))
    /\ n.latest = m.latest /\ n.live.turn \in {m.live.turn, 0} /\ n.pending \in {m.pending, 0}
    /\ n.turn # 0 => n.live.turn = m.live.turn

LEMMA StopsKept ==
    ASSUME Types, Turn, Moves(ms, ms')
    PROVE  /\ \A p \in Prompt : ms.stop[p] # "None" => ms'.stop[p] = ms.stop[p]
           /\ \A p \in Prompt : p # ms.turn => ms'.stop[p] = ms.stop[p]
           /\ ms'.turn \in {ms.turn, 0}
           /\ ms'.turn # 0 => ms'.stop = ms.stop
  BY DEF Types, Shapes, Turn, Moves, SameTurn, EndsWith, IsHost

LEMMA TurnKept ==
    ASSUME Types, Turn, NEW t \in Task, NEW at, Steps(t, at), Moves(ms, ms'),
           t \in Cancel \/ (Past(t) /\ at \notin {"idle", "start"}),
           t \in Prompt /\ at = "done" => ms'.turn # t
    PROVE  Turn'
  <1>1. \A p \in Prompt : Past(p)' <=> Past(p)
    BY Numbers DEF Steps, Past
  <1>2. /\ ms'.latest = ms.latest /\ ms'.live.turn \in {ms.live.turn, 0}
        /\ ms'.pending \in {ms.pending, 0}
        /\ ms'.turn # 0 => ms'.live.turn = ms.live.turn
    BY DEF Moves
  <1>3. /\ ms'.turn \in {ms.turn, 0}
        /\ ms'.turn # 0 => ms'.stop = ms.stop
        /\ \A p \in Prompt : ~Past(p) => ms'.stop[p] = ms.stop[p]
    <2>1. \A p \in Prompt : ~Past(p) => p # ms.turn
      BY Numbers DEF Turn, Going
    <2> QED BY <2>1, StopsKept
  <1>4. ms'.turn # 0 => /\ ms'.turn \in Prompt /\ Going(ms.turn)'
                        /\ ms'.live.turn = ms'.turn /\ ms'.stop[ms'.turn] = "None"
    BY <1>1, <1>2, <1>3, Numbers DEF Turn, Going, Steps, Past
  <1>5. \A p \in Prompt : ~Past(p)' =>
            ms'.stop[p] = "None" /\ p \notin {ms'.live.turn, ms'.pending, ms'.latest}
    BY <1>1, <1>2, <1>3, Numbers DEF Turn
  <1>6. \A p \in Prompt : Past(p)' =>
            /\ ms'.latest \in Prompt /\ ms'.latest >= p
            /\ ms'.live.turn # 0 => ms'.live.turn \in Prompt /\ ms'.live.turn >= p
            /\ ms'.pending # 0 => ms'.pending \in Prompt /\ ms'.pending >= p
    BY <1>1, <1>2 DEF Turn
  <1> QED
    BY <1>4, <1>5, <1>6 DEF Turn

\* The others' frames, ends and results stay what they are.
SameEnds(p) == got'[p] = got[p] /\ todo'[p] = todo[p] /\ last'[p] = last[p] /\ result'[p] = result[p]

LEMMA PromptKept ==
    ASSUME Types, Turn, NEW p \in Prompt, PromptOk(p), pc'[p] = pc[p], SameEnds(p),
           \A q \in Prompt : ms.stop[q] # "None" => ms'.stop[q] = ms.stop[q],
           ms'.turn # p \/ ms'.turn = ms.turn
    PROVE  PromptOk(p)'
  BY DEF PromptOk, SameEnds, IsEnd, Stops

LEMMA CancelKept ==
    ASSUME Types, Turn, NEW c \in Cancel, CancelOk(c), pc'[c] = pc[c] \/ pc'[c] # "redrain",
           got'[c] = got[c], todo'[c] = todo[c] \/ pc'[c] # "redrain",
           \A q \in Prompt : ms.stop[q] # "None" => ms'.stop[q] = ms.stop[q]
    PROVE  CancelOk(c)'
  BY Numbers DEF CancelOk, IsEnd, Stops

LEMMA BufferKept ==
    ASSUME Types, Turn, IsEnd(ms.buffered, Final), ms'.buffered \in {ms.buffered, "None"},
           \A q \in Prompt : ms.stop[q] # "None" => ms'.stop[q] = ms.stop[q]
    PROVE  IsEnd(ms.buffered, Final)'
  BY Numbers DEF IsEnd

\* A prompt steps: what is left to show of the ends is its own part.
LEMMA PromptStepEnds ==
    ASSUME IInv, NEW t \in Prompt, NEW at, Steps(t, at),
           Moves(ms, ms') \/ (ms'.stop = ms.stop /\ ms'.turn \in {t, ms.turn}),
           ms'.buffered \in {ms.buffered, "None"},
           \A p \in Prompt : p # t => SameEnds(p),
           \A c \in Cancel : got'[c] = got[c] /\ todo'[c] = todo[c],
           PromptOk(t)'
    PROVE  Ends'
  <1>1. \A q \in Prompt : ms.stop[q] # "None" => ms'.stop[q] = ms.stop[q]
    BY StopsKept DEF IInv
  <1>2. \A p \in Prompt : p # t => ms'.turn # p \/ ms'.turn = ms.turn
    BY StopsKept, Numbers DEF IInv
  <1>3. \A p \in Prompt : PromptOk(p)'
    BY <1>1, <1>2, PromptKept, Numbers DEF IInv, Ends, Steps
  <1>4. \A c \in Cancel : CancelOk(c)'
    <2>1. \A c \in Cancel : pc'[c] = pc[c]
      BY Numbers DEF Steps
    <2> QED BY <2>1, <1>1, CancelKept DEF IInv, Ends
  <1>5. IsEnd(ms.buffered, Final)'
    BY <1>1, BufferKept DEF IInv, Ends
  <1> QED
    BY <1>3, <1>4, <1>5 DEF Ends

LEMMA CancelStepEnds ==
    ASSUME IInv, NEW t \in Cancel, NEW at, Steps(t, at), Moves(ms, ms'),
           \A p \in Prompt : SameEnds(p),
           \A c \in Cancel : c # t => got'[c] = got[c] /\ todo'[c] = todo[c],
           CancelOk(t)', IsEnd(ms.buffered, Final)'
    PROVE  Ends'
  <1>1. \A q \in Prompt : ms.stop[q] # "None" => ms'.stop[q] = ms.stop[q]
    BY StopsKept DEF IInv
  <1>2. \A p \in Prompt : ms'.turn # p \/ ms'.turn = ms.turn
    BY StopsKept, Numbers DEF IInv
  <1>3. \A p \in Prompt : PromptOk(p)'
    <2>1. \A p \in Prompt : pc'[p] = pc[p]
      BY Numbers DEF Steps
    <2> QED BY <2>1, <1>1, <1>2, PromptKept DEF IInv, Ends
  <1>4. \A c \in Cancel : CancelOk(c)'
    BY <1>1, CancelKept, Numbers DEF IInv, Ends, Steps
  <1> QED
    BY <1>3, <1>4 DEF Ends

\* The lock's queue, however a task that steps leaves it.
Queues(t) ==
    \/ lockq' = lockq
    \/ lockq' = Append(lockq, t)
    \/ Holds(t) /\ lockq' \in {Tail(lockq), Append(Tail(lockq), t)}

LEMMA LockKept ==
    ASSUME Types, Lock, NEW t \in Task, NEW at, Steps(t, at), Queues(t),
           pc[t] # "idle", at \notin {"idle", "start"},
           t \in Cancel /\ pc[t] = "prepare" => Holds(t),
           at \in {"drain", "redrain", "wait"} => Holds(t) /\ UNCHANGED lockq
    PROVE  Lock' /\ lockq' \in Seq(Task)
  <1>1. lockq \in Seq(Task)
    BY DEF Types
  <1>2. lockq' \in Seq(Task)
    BY <1>1 DEF Queues, Holds
  <1>3. ASSUME NEW u \in Task, pc'[u] \in {"drain", "redrain", "wait"} PROVE Holds(u)'
    <2>1. CASE u = t
      BY <2>1, <1>3 DEF Steps, Holds
    <2>2. CASE u # t
      <3>1. Holds(u)
        BY <2>2, <1>3 DEF Steps, Lock
      <3>2. ~Holds(t)
        BY <2>2, <3>1 DEF Holds
      <3> QED
        BY <1>1, <3>1, <3>2 DEF Queues, Holds
    <2> QED BY <2>1, <2>2
  <1>4. ASSUME NEW j \in DOMAIN lockq' PROVE pc'[lockq'[j]] # "idle"
    <2>1. lockq'[j] \in Task
      BY <1>2
    <2>2. lockq'[j] = t \/ \E i \in DOMAIN lockq : lockq[i] = lockq'[j]
      BY <1>1, <1>2, <1>4 DEF Queues, Holds
    <2> QED
      BY <2>1, <2>2 DEF Steps, Lock
  <1>5. ASSUME pc'[Final] = "start"
        PROVE  /\ \E i \in DOMAIN lockq' : lockq'[i] = Final /\ \A j \in 1..i : lockq'[j] \notin Cancel
               /\ t \notin Cancel
    <2>1. Final # t /\ pc[Final] = "start"
      BY <1>5, Numbers DEF Steps
    <2>2. PICK i \in DOMAIN lockq : lockq[i] = Final /\ \A j \in 1..i : lockq[j] \notin Cancel
      BY <2>1 DEF Lock
    <2>3. i \in 1..Len(lockq) /\ Len(lockq) \in Nat
      BY <1>1, <2>2
    <2>4. Holds(t) => t \notin Cancel
      BY <1>1, <2>2, <2>3 DEF Holds
    <2>5. t \notin Cancel
      BY <2>1, <2>4 DEF Lock
    <2>6. CASE lockq' = lockq
      BY <2>2, <2>5, <2>6
    <2>7. CASE lockq' = Append(lockq, t)
      BY <1>1, <2>2, <2>3, <2>5, <2>7
    <2>8. CASE Holds(t) /\ lockq' \in {Tail(lockq), Append(Tail(lockq), t)}
      <3>1. i # 1
        BY <1>1, <2>1, <2>2, <2>3, <2>8 DEF Holds
      <3>2. i - 1 \in 1..Len(lockq) - 1
        BY <2>3, <3>1
      <3>3. \A j \in 1..i - 1 : j \in DOMAIN lockq' /\ lockq'[j] = lockq[j + 1]
        <4>1. lockq # <<>>
          BY <2>8 DEF Holds
        <4>2. /\ Tail(lockq) \in Seq(Task) /\ Len(Tail(lockq)) = Len(lockq) - 1
              /\ \A j \in 1..Len(lockq) - 1 : Tail(lockq)[j] = lockq[j + 1]
          BY <1>1, <4>1
        <4>3. \A j \in 1..i - 1 : j \in 1..Len(lockq) - 1
          BY <2>3
        <4>4. DOMAIN Tail(lockq) = 1..Len(lockq) - 1
          BY <4>2
        <4>5. CASE lockq' = Tail(lockq)
          BY <4>2, <4>3, <4>4, <4>5
        <4>6. CASE lockq' = Append(Tail(lockq), t)
          <5> DEFINE rest == Tail(lockq)
          <5>1. rest \in Seq(Task) /\ DOMAIN rest = 1..Len(lockq) - 1 /\ lockq' = Append(rest, t)
            BY <4>2, <4>4, <4>6
          <5> HIDE DEF rest
          <5>2. \A j \in DOMAIN rest : j \in DOMAIN lockq' /\ lockq'[j] = rest[j]
            BY <5>1
          <5>3. \A j \in 1..Len(lockq) - 1 : rest[j] = lockq[j + 1]
            BY <4>2 DEF rest
          <5> QED BY <4>3, <5>1, <5>2, <5>3
        <4> QED BY <2>8, <4>5, <4>6
      <3>4. lockq'[i - 1] = Final /\ i - 1 \in DOMAIN lockq'
        BY <2>2, <2>3, <3>1, <3>2, <3>3
      <3>5. \A j \in 1..i - 1 : lockq'[j] \notin Cancel
        BY <2>2, <2>3, <3>3
      <3> QED BY <2>5, <3>4, <3>5
    <2> QED BY <2>6, <2>7, <2>8 DEF Queues
  <1>6. ASSUME NEW c \in Cancel, pc'[c] # "idle"
        PROVE  pc'[Final] # "idle" /\ (pc'[Final] = "start" => pc'[c] = "prepare")
    <2>1. pc[c] # "idle"
      BY <1>6, Numbers DEF Steps
    <2>2. pc'[Final] # "idle"
      BY <2>1, Numbers DEF Steps, Lock
    <2>3. ASSUME pc'[Final] = "start" PROVE pc'[c] = "prepare"
      <3>1. c # t
        BY <2>3, <1>5
      <3> QED BY <3>1, <2>1, <2>3, Numbers DEF Steps, Lock
    <2> QED BY <2>2, <2>3
  <1> QED
    BY <1>2, <1>3, <1>4, <1>5, <1>6 DEF Lock

\* What is left to show of a prompt's step once it has started.
LEMMA PromptMoves ==
    ASSUME IInv, NEW t \in Prompt, NEW at, Steps(t, at), Going(t), at \notin {"idle", "start"},
           Moves(ms, ms'), ms'.buffered \in {ms.buffered, "None"}, Queues(t),
           at \in {"drain", "redrain", "wait"} => Holds(t) /\ UNCHANGED lockq,
           at = "done" => ms'.turn # t,
           \A p \in Prompt : p # t => SameEnds(p),
           \A c \in Cancel : got'[c] = got[c] /\ todo'[c] = todo[c],
           PromptOk(t)', Shapes', Sent'
    PROVE  IInv'
  <1>1. t \in Task /\ t \notin Cancel /\ Past(t) /\ pc[t] \notin {"idle", "start", "done"}
    BY Numbers DEF Going, Past
  <1>2. Order'
    BY <1>1, OrderKept DEF IInv
  <1>3. Turn'
    BY <1>1, TurnKept DEF IInv
  <1>4. Lock' /\ lockq' \in Seq(Task)
    BY <1>1, LockKept DEF IInv
  <1>5. Ends'
    BY PromptStepEnds
  <1> QED
    BY <1>2, <1>3, <1>4, <1>5 DEF IInv, Types

LEMMA CancelMoves ==
    ASSUME IInv, NEW t \in Cancel, NEW at, Steps(t, at), pc[t] # "idle", at \notin {"idle", "start"},
           Moves(ms, ms'), Queues(t), pc[t] = "prepare" => Holds(t),
           at \in {"drain", "redrain", "wait"} => Holds(t) /\ UNCHANGED lockq,
           \A p \in Prompt : SameEnds(p),
           \A c \in Cancel : c # t => got'[c] = got[c] /\ todo'[c] = todo[c],
           CancelOk(t)', IsEnd(ms.buffered, Final)', Shapes', Sent'
    PROVE  IInv'
  <1>1. t \in Task /\ t \notin Prompt
    BY Numbers
  <1>2. Order'
    BY <1>1, OrderKept DEF IInv
  <1>3. Turn'
    BY <1>1, TurnKept DEF IInv
  <1>4. Lock' /\ lockq' \in Seq(Task)
    BY <1>1, LockKept DEF IInv
  <1>5. Ends'
    BY CancelStepEnds
  <1> QED
    BY <1>2, <1>3, <1>4, <1>5 DEF IInv, Types

-----------------------------------------------------------------------------
(* The steps of a prompt.                                                  *)

LEMMA SendPromptPreserves ==
    ASSUME IInv, NEW t \in Prompt, SendPrompt(t) PROVE IInv'
  <1>1. /\ pc[t] = "idle" /\ (t > 1 => pc[t - 1] = "done")
        /\ pc' = [pc EXCEPT ![t] = "start"] /\ lockq' = Append(lockq, t)
        /\ UNCHANGED <<ms, box, todo, got, last, out, result>>
    BY DEF SendPrompt, Acquire
  <1>2. Steps(t, "start") /\ t \in Task
    BY <1>1, StepsOf, Numbers
  <1>3. \A p \in Prompt : Past(p)' <=> Past(p)
    BY <1>1, <1>2, Numbers DEF Steps, Past
  <1>4. Types'
    BY <1>1, <1>2 DEF IInv, Types, Shapes, Steps
  <1>5. Order'
    <2> SUFFICES ASSUME NEW p \in Prompt, NEW q \in Prompt, p < q, pc'[q] # "idle"
                 PROVE  pc'[p] = "done"
      BY DEF Order
    <2>1. CASE q = t
      <3>1. t > 1 /\ t - 1 \in Prompt /\ (p = t - 1 \/ p < t - 1)
        BY <2>1, PromptTurnAssumption DEF Prompt
      <3>2. pc[p] = "done"
        BY <1>1, <3>1 DEF IInv, Order
      <3> QED BY <1>1, <1>2, <3>2, Numbers DEF Steps
    <2>2. CASE q # t
      <3>1. pc[p] = "done"
        BY <1>2, <2>2, Numbers DEF Steps, IInv, Order
      <3> QED BY <1>1, <1>2, <3>1, Numbers DEF Steps
    <2> QED BY <2>1, <2>2
  <1>6. Turn'
    BY <1>1, <1>2, <1>3, Numbers DEF IInv, Turn, Going, Steps, Past
  <1>7. Lock'
    <2>1. lockq \in Seq(Task) /\ lockq' \in Seq(Task) /\ DOMAIN lockq = 1..Len(lockq)
          /\ Len(lockq) \in Nat /\ DOMAIN lockq' = 1..Len(lockq) + 1
          /\ (\A j \in DOMAIN lockq : lockq'[j] = lockq[j]) /\ lockq'[Len(lockq) + 1] = t
      BY <1>1, <1>2 DEF IInv, Types
    <2>2. \A u \in Task : pc'[u] \in {"drain", "redrain", "wait"} => Holds(u)'
      BY <1>1, <1>2, <2>1 DEF IInv, Lock, Steps, Holds
    <2>3. \A j \in DOMAIN lockq' : pc'[lockq'[j]] # "idle"
      BY <1>2, <2>1 DEF IInv, Lock, Steps
    <2>4. ASSUME pc'[Final] = "start"
          PROVE  \E i \in DOMAIN lockq' : lockq'[i] = Final /\ \A j \in 1..i : lockq'[j] \notin Cancel
      <3>1. CASE t = Final
        <4>1. \A c \in Cancel : pc[c] = "idle"
          BY <1>1, <3>1 DEF IInv, Lock
        <4>2. \A j \in DOMAIN lockq : lockq[j] \notin Cancel
          BY <4>1 DEF IInv, Lock
        <4>3. \A j \in 1..Len(lockq) + 1 : lockq'[j] \notin Cancel
          BY <2>1, <4>2, <3>1, Numbers
        <4> QED BY <2>1, <3>1, <4>3
      <3>2. CASE t # Final
        BY <1>2, <2>1, <2>4, <3>2, Numbers DEF IInv, Lock, Steps
      <3> QED BY <3>1, <3>2
    <2>5. \A c \in Cancel : pc'[c] # "idle" =>
              pc'[Final] # "idle" /\ (pc'[Final] = "start" => pc'[c] = "prepare")
      BY <1>1, <1>2, Numbers DEF IInv, Lock, Steps
    <2> QED BY <2>2, <2>3, <2>4, <2>5 DEF Lock
  <1>8. Sent'
    BY <1>1, <1>2, SentKept DEF IInv
  <1>9. Ends'
    <2>1. PromptOk(t)'
      BY <1>1, <1>2 DEF IInv, Ends, PromptOk, IsEnd, Steps
    <2>2. (\A p \in Prompt : SameEnds(p)) /\ \A c \in Cancel : got'[c] = got[c] /\ todo'[c] = todo[c]
      BY <1>1 DEF SameEnds
    <2> QED BY <1>1, <1>2, <2>1, <2>2, PromptStepEnds
  <1> QED
    BY <1>4, <1>5, <1>6, <1>7, <1>8, <1>9 DEF IInv

LEMMA TailElements ==
    ASSUME NEW s, IsSeq(s), s # <<>>
    PROVE  IsSeq(Tail(s)) /\ Head(s) \in ToSet(s) /\ \A x \in ToSet(Tail(s)) : x \in ToSet(s)
  <1>1. IsSeq(Tail(s)) /\ 1 \in DOMAIN s /\ Head(s) = s[1]
        /\ \A i \in DOMAIN Tail(s) : i + 1 \in DOMAIN s /\ Tail(s)[i] = s[i + 1]
    BY TailIsSeq
  <1>2. /\ \A i \in DOMAIN s : s[i] \in ToSet(s)
        /\ \A x \in ToSet(Tail(s)) : \E i \in DOMAIN Tail(s) : Tail(s)[i] = x
    BY <1>1, ElementsOf
  <1> QED BY <1>1, <1>2

\* The two facts most steps of a prompt rest on.
LEMMA NoTurnAtAnEnd ==
    ASSUME Turn, NEW p \in Prompt, ms.stop[p] # "None" \/ ms.live.turn = 0
    PROVE  ms.turn # p
  BY Numbers DEF Turn

LEMMA StandsStill == Moves(ms, ms)
  BY DEF Moves, SameTurn

LEMMA StartPreserves ==
    ASSUME IInv, NEW t \in Prompt, Start(t) PROVE IInv'
  <1>1. /\ pc[t] = "start" /\ Holds(t)
        /\ UNCHANGED <<box, todo, got, last, out>>
    BY DEF Start
  <1>2. ms.turn = 0
    BY <1>1, Numbers DEF IInv, Turn, Order, Going, Past
  <1>3. ms' = StartTurn(ms, t) /\ pc' = [pc EXCEPT ![t] = "drain"] /\ UNCHANGED <<lockq, result>>
    BY <1>2 DEF Start
  <1>4. Steps(t, "drain") /\ t \in Task
    BY <1>3, StepsOf, Numbers
  <1>5. /\ IsHost(ms') /\ ms'.turn = t /\ ms'.live.turn = t /\ ms'.latest = t /\ ms'.pending = t
        /\ ms'.stop = ms.stop /\ ms'.buffered = ms.buffered
    BY <1>3, StartTurnFields DEF IInv, Types, Shapes
  <1>6. Types'
    BY <1>1, <1>3, <1>4, <1>5 DEF IInv, Types, Shapes, Steps
  <1>7. Order'
    BY <1>1, <1>4, OrderKept DEF IInv
  <1>8. Turn'
    <2>1. \A p \in Prompt : Past(p)' <=> Past(p) \/ p = t
      BY <1>4, Numbers DEF Steps, Past
    <2>2. \A p \in Prompt : Past(p) => t >= p
      BY <1>1, Numbers DEF IInv, Order, Past
    <2>3. Going(t)' /\ ~Past(t)
      BY <1>1, <1>4 DEF Steps, Going, Past
    <2>4. ms.stop[t] = "None"
      BY <2>3 DEF IInv, Turn
    <2>5. ms'.turn # 0 => /\ ms'.turn \in Prompt /\ Going(t)'
                          /\ ms'.live.turn = ms'.turn /\ ms'.stop[ms'.turn] = "None"
      BY <1>5, <2>3, <2>4
    <2>6. \A p \in Prompt : ~Past(p)' =>
            ms'.stop[p] = "None" /\ p \notin {ms'.live.turn, ms'.pending, ms'.latest}
      BY <1>5, <2>1 DEF IInv, Turn
    <2>7. \A p \in Prompt : Past(p)' => t >= p
      BY <2>1, <2>2, Numbers
    <2> QED BY <1>5, <2>3, <2>5, <2>6, <2>7, Numbers DEF Turn, Going, Past
  <1>9. Lock'
    BY <1>1, <1>3, <1>4, LockKept, Numbers DEF IInv, Queues
  <1>10. Sent'
    BY <1>1, <1>4, SentKept DEF IInv
  <1>11. Ends'
    <2>1. PromptOk(t)'
      BY <1>1, <1>3, <1>4, <1>5 DEF IInv, Ends, PromptOk, IsEnd, Steps
    <2>2. (\A p \in Prompt : SameEnds(p)) /\ \A c \in Cancel : got'[c] = got[c] /\ todo'[c] = todo[c]
      BY <1>1, <1>3 DEF SameEnds
    <2> QED BY <1>4, <1>5, <2>1, <2>2, PromptStepEnds
  <1> QED
    BY <1>6, <1>7, <1>8, <1>9, <1>10, <1>11 DEF IInv

\* The host applies one message of the runtime.
LEMMA DrainMoves ==
    ASSUME IInv, box # <<>>, ms' = HostApply(ms, Head(box)), box' = Tail(box)
    PROVE  /\ Moves(ms, ms') /\ IsHost(ms') /\ ms'.buffered = ms.buffered
           /\ IsSeq(box') /\ \A i \in DOMAIN box' : box'[i].kind \in Kinds
  <1>1. /\ IsSeq(Tail(box)) /\ 1 \in DOMAIN box /\ Head(box) = box[1]
        /\ \A i \in DOMAIN Tail(box) : i + 1 \in DOMAIN box /\ Tail(box)[i] = box[i + 1]
    BY TailIsSeq DEF IInv, Types, Shapes
  <1>2. Head(box).kind \in Kinds /\ \A i \in DOMAIN box' : box'[i].kind \in Kinds
    BY <1>1 DEF IInv, Types, Shapes
  <1>3. /\ IsHost(ms') /\ SameRest(ms, ms')
        /\ SameTurn(ms, ms') \/ \E stop \in Stops : EndsWith(ms, ms', stop)
    BY <1>2, HostApplyFields DEF IInv, Types, Shapes
  <1>4. ms.turn = 0 /\ (\E stop \in Stops : EndsWith(ms, ms', stop)) => SameTurn(ms, ms')
    <2> SUFFICES ASSUME ms.turn = 0, NEW stop \in Stops, EndsWith(ms, ms', stop)
                 PROVE  SameTurn(ms, ms')
      OBVIOUS
    <2>1. ms.stop = [p \in Prompt |-> ms.stop[p]] /\ 0 \notin Prompt
      BY Numbers DEF IInv, Types, Shapes, IsHost
    <2>2. [ms.stop EXCEPT ![0] = stop] = ms.stop
      BY <2>1
    <2>3. ms'.stop = ms.stop /\ ms'.turn = 0
      BY <2>2 DEF EndsWith
    <2> QED BY <2>3 DEF SameTurn
  <1>5. Moves(ms, ms')
    BY <1>3, <1>4 DEF Moves, SameRest
  <1> QED BY <1>1, <1>2, <1>3, <1>5 DEF SameRest

LEMMA DrainPreserves ==
    ASSUME IInv, NEW t \in Task, Drain(t) PROVE IInv'
  <1>1. /\ pc[t] \in {"drain", "redrain"} /\ box # <<>>
        /\ ms' = HostApply(ms, Head(box)) /\ box' = Tail(box)
        /\ UNCHANGED <<lockq, pc, todo, got, last, out, result>>
    BY DEF Drain
  <1>2. /\ Moves(ms, ms') /\ IsHost(ms') /\ ms'.buffered = ms.buffered
        /\ IsSeq(box') /\ \A i \in DOMAIN box' : box'[i].kind \in Kinds
    BY <1>1, DrainMoves
  <1>3. Steps(t, pc[t]) /\ Holds(t)
    BY <1>1, StaysAt DEF IInv, Lock
  <1>4. Shapes'
    BY <1>1, <1>2 DEF IInv, Types, Shapes
  <1>5. Sent'
    BY <1>1, <1>3, SentKept DEF IInv
  <1>6. (\A p \in Prompt : SameEnds(p)) /\ \A c \in Cancel : got'[c] = got[c] /\ todo'[c] = todo[c]
    BY <1>1 DEF SameEnds
  <1>7. /\ \A q \in Prompt : ms.stop[q] # "None" => ms'.stop[q] = ms.stop[q]
        /\ ms'.turn \in {ms.turn, 0}
    BY <1>2, StopsKept DEF IInv
  <1>8. Queues(t)
    BY <1>1 DEF Queues
  <1>9. CASE t \in Prompt
    <2>1. Going(t)
      BY <1>1 DEF Going, Past
    <2>2. PromptOk(t)'
      BY <1>1, <1>6, <1>7, <1>9, PromptKept, Numbers DEF IInv, Ends
    <2> QED
      BY <1>1, <1>2, <1>3, <1>4, <1>5, <1>6, <1>8, <1>9, <2>1, <2>2, PromptMoves
  <1>10. CASE t \in Cancel
    <2>1. CancelOk(t)' /\ IsEnd(ms.buffered, Final)'
      BY <1>1, <1>2, <1>7, <1>10, CancelKept, BufferKept DEF IInv, Ends
    <2> QED
      BY <1>1, <1>2, <1>3, <1>4, <1>5, <1>6, <1>8, <1>10, <2>1, CancelMoves
  <1> QED BY <1>9, <1>10, Numbers

\* A poll forgets the live turn only when the turn is over.
LEMMA PollMoves ==
    ASSUME IInv
    PROVE  /\ Moves(ms, Polled(ms)) /\ IsHost(Polled(ms)) /\ SameTurn(ms, Polled(ms))
           /\ Polled(ms).buffered = ms.buffered
           /\ Polled(ms).turn # 0 => Polled(ms).live.turn = Polled(ms).turn
  <1> DEFINE n == Polled(ms)
  <1>1. /\ IsHost(n) /\ SameTurn(ms, n) /\ n.latest = ms.latest /\ n.buffered = ms.buffered
        /\ IF Ended(ms) THEN n.live.turn = 0 /\ n.pending = 0
           ELSE n.live.turn = ms.live.turn /\ n.pending = ms.pending
    BY PolledFields DEF IInv, Types, Shapes
  <1>2. ms.turn # 0 => ms.live.turn = ms.turn /\ ~Ended(ms)
    BY DEF IInv, Turn, Ended
  <1> HIDE DEF n
  <1>3. n.turn # 0 => n.live.turn = n.turn /\ n.live.turn = ms.live.turn
    BY <1>1, <1>2 DEF SameTurn
  <1>4. Moves(ms, n)
    BY <1>1, <1>3 DEF Moves
  <1> QED BY <1>1, <1>3, <1>4 DEF n

LEMMA ProjectPreserves ==
    ASSUME IInv, NEW t \in Prompt, Project(t) PROVE IInv'
  <1>1. /\ pc[t] = "drain" /\ ms' = Polled(ms) /\ todo' = [todo EXCEPT ![t] = PolledFrames(ms) \o @]
        /\ last' = [last EXCEPT ![t] = @ /\ Polled(ms).live.turn = 0]
        /\ pc' = [pc EXCEPT ![t] = "send"] /\ lockq' = Tail(lockq)
        /\ UNCHANGED <<box, got, out, result>>
    BY DEF Project, Release
  <1>2. /\ Moves(ms, ms') /\ IsHost(ms') /\ ms'.turn = ms.turn /\ ms'.stop = ms.stop
        /\ ms'.buffered = ms.buffered /\ (ms'.turn # 0 => ms'.live.turn = ms'.turn)
    BY <1>1, PollMoves DEF SameTurn
  <1>3. Steps(t, "send") /\ Holds(t) /\ t \in Task /\ Going(t)
    BY <1>1, StepsOf, Numbers DEF IInv, Lock, Going, Past
  <1>4. todo'[t] = PolledFrames(ms) \o todo[t] /\ \A u \in Task : u # t => todo'[u] = todo[u]
    BY <1>1, <1>3 DEF IInv, Types, Shapes
  <1>5. IsSeq(todo'[t]) /\ \A f \in ToSet(todo'[t]) : f \in ToSet(PolledFrames(ms)) \cup ToSet(todo[t])
    BY <1>4, ConcatElements, FramesOfPoll DEF IInv, Types, Shapes
  <1>6. Shapes'
    BY <1>1, <1>2, <1>3, <1>4, <1>5, Numbers DEF IInv, Types, Shapes, Steps
  <1>7. Sent'
    BY <1>1, <1>3, SentKept DEF IInv
  <1>8. {ms.turn, ms.live.turn, ms.pending} \subseteq {0, t}
    BY <1>3, GoingOwns DEF IInv
  <1>9. PromptOk(t)'
    <2>1. last'[t] => ms'.turn # t
      BY <1>1, <1>2, Numbers DEF IInv, Types, Shapes
    <2>2. ASSUME NEW f \in ToSet(todo'[t]), f.kind = "result"
          PROVE  f.id = t /\ f.stop # "None" /\ IsEnd(f.stop, t)'
      <3>1. CASE f \in ToSet(PolledFrames(ms))
        <4>1. IsResultOf(ms, f)
          BY <2>2, <3>1, FramesOfPoll
        <4> QED BY <1>2, <1>8, <4>1 DEF IsResultOf, Ended, IsEnd
      <3>2. CASE f \in ToSet(todo[t])
        BY <1>2, <2>2, <3>2 DEF IInv, Ends, PromptOk, IsEnd
      <3> QED BY <1>5, <3>1, <3>2
    <2> QED BY <1>1, <1>2, <2>1, <2>2 DEF IInv, Ends, PromptOk, IsEnd
  <1>10. (\A p \in Prompt : p # t => SameEnds(p))
         /\ \A c \in Cancel : got'[c] = got[c] /\ todo'[c] = todo[c]
    BY <1>1, <1>4, Numbers DEF IInv, Types, Shapes, SameEnds
  <1>11. Queues(t)
    BY <1>1, <1>3 DEF Queues
  <1> QED
    BY <1>2, <1>3, <1>6, <1>7, <1>9, <1>10, <1>11, PromptMoves

\* A task hands its first frame to the dispatcher.
LEMMA SentAppended ==
    ASSUME IInv, NEW t \in Task, Steps(t, "ack"), pc[t] = "send", NEW call, call.task = t,
           out' = Append(out, call)
    PROVE  Sent' /\ IsSeq(out')
  <1>1. /\ IsSeq(out') /\ DOMAIN out' = 1..Len(out) + 1 /\ DOMAIN out = 1..Len(out)
        /\ Len(out) \in Nat /\ (\A i \in DOMAIN out : out'[i] = out[i]) /\ out'[Len(out) + 1] = call
    BY AppendIsSeq DEF IInv, Types, Shapes
  <1>2. \A i \in DOMAIN out : out[i].task \in Task /\ out[i].task # t /\ pc'[out[i].task] = "ack"
    BY DEF IInv, Sent, Steps
  <1>3. \A i \in DOMAIN out' : i \in DOMAIN out \/ i = Len(out) + 1
    BY <1>1
  <1>4. \A i \in DOMAIN out' : out'[i].task \in Task /\ pc'[out'[i].task] = "ack"
    BY <1>1, <1>2, <1>3 DEF Steps
  <1>5. \A i, j \in DOMAIN out' : i # j => out'[i].task # out'[j].task
    BY <1>1, <1>2, <1>3 DEF IInv, Sent
  <1> QED BY <1>1, <1>4, <1>5 DEF Sent

\* The dispatcher is done with its first call.
LEMMA SentServed ==
    ASSUME IInv, out # <<>>, NEW at, Steps(Head(out).task, at), out' = Tail(out)
    PROVE  Sent' /\ IsSeq(out')
  <1>1. /\ IsSeq(out') /\ 1 \in DOMAIN out /\ Head(out) = out[1]
        /\ \A i \in DOMAIN out' : i + 1 \in DOMAIN out /\ out'[i] = out[i + 1]
    BY TailIsSeq DEF IInv, Types, Shapes
  <1>2. \A i \in DOMAIN out' : i + 1 # 1
    <2>1. IsSeq(out')
      BY <1>1
    <2>2. DOMAIN out' = 1..Len(out') /\ Len(out') \in Nat
      BY <2>1, ElementsOf
    <2> QED BY <2>2
  <1>3. \A i \in DOMAIN out' : out'[i].task # out[1].task /\ out'[i].task \in Task
                               /\ pc[out'[i].task] = "ack"
    BY <1>1, <1>2 DEF IInv, Sent
  <1>4. \A i, j \in DOMAIN out' : i # j => out'[i].task # out'[j].task
    <2>1. \A i, j \in DOMAIN out' : i # j => i + 1 # j + 1
      <3>1. DOMAIN out' = 1..Len(out') /\ Len(out') \in Nat
        BY <1>1, ElementsOf
      <3> QED BY <3>1
    <2> QED BY <1>1, <2>1 DEF IInv, Sent
  <1> QED BY <1>1, <1>3, <1>4 DEF Sent, Steps

LEMMA SendFramePreserves ==
    ASSUME IInv, NEW t \in Task, SendFrame(t) PROVE IInv'
  <1> DEFINE call == [task |-> t, frame |-> Head(todo[t])]
  <1>1. /\ pc[t] = "send" /\ todo[t] # <<>> /\ out' = Append(out, call)
        /\ todo' = [todo EXCEPT ![t] = Tail(@)] /\ pc' = [pc EXCEPT ![t] = "ack"]
        /\ UNCHANGED <<ms, box, lockq, got, last, result>>
    BY DEF SendFrame
  <1>2. call.task = t
    OBVIOUS
  <1> HIDE DEF call
  <1>3. Steps(t, "ack")
    BY <1>1, StepsOf
  <1>4. Sent' /\ IsSeq(out')
    BY <1>1, <1>2, <1>3, SentAppended
  <1>5. todo'[t] = Tail(todo[t]) /\ DOMAIN todo' = Task /\ \A u \in Task : u # t => todo'[u] = todo[u]
    BY <1>1 DEF IInv, Types, Shapes
  <1>6. Moves(ms, ms') /\ ms'.buffered = ms.buffered /\ Queues(t)
    BY <1>1, StandsStill DEF Queues
  <1>7. /\ \A p \in Prompt : p # t => SameEnds(p)
        /\ \A c \in Cancel : c # t => got'[c] = got[c] /\ todo'[c] = todo[c]
    BY <1>1, <1>5, Numbers DEF SameEnds
  <1>8. CASE t \in Prompt
    <2>1. IsSeq(todo'[t]) /\ \A x \in ToSet(todo'[t]) : x \in ToSet(todo[t])
      BY <1>1, <1>5, <1>8, TailElements DEF IInv, Types, Shapes
    <2>2. Shapes'
      BY <1>1, <1>3, <1>4, <1>5, <2>1, Numbers DEF IInv, Types, Shapes, Steps
    <2>3. PromptOk(t)'
      BY <1>1, <1>3, <1>8, <2>1 DEF IInv, Ends, PromptOk, IsEnd, Steps
    <2>4. Going(t)
      BY <1>1 DEF Going, Past
    <2> QED
      BY <1>3, <1>4, <1>6, <1>7, <1>8, <2>2, <2>3, <2>4, Numbers, PromptMoves
  <1>9. CASE t \in Cancel
    <2>1. Shapes'
      BY <1>1, <1>3, <1>4, <1>5, <1>9, Numbers DEF IInv, Types, Shapes, Steps
    <2>2. CancelOk(t)' /\ IsEnd(ms.buffered, Final)'
      BY <1>1, <1>3, <1>9 DEF IInv, Ends, CancelOk, IsEnd, Steps
    <2>3. \A p \in Prompt : SameEnds(p)
      BY <1>7, <1>9, Numbers
    <2> QED
      BY <1>1, <1>3, <1>4, <1>6, <1>7, <1>9, <2>1, <2>2, <2>3, CancelMoves
  <1> QED BY <1>8, <1>9, Numbers

LEMMA TakeResultPreserves ==
    ASSUME IInv, NEW t \in Prompt, TakeResult(t) PROVE IInv'
  <1> DEFINE f == Head(todo[t])
  <1>1. /\ pc[t] = "send" /\ todo[t] # <<>> /\ f.kind = "result"
        /\ todo' = [todo EXCEPT ![t] = Tail(@)]
        /\ UNCHANGED <<ms, box, lockq, last, out>>
        /\ IF f.stop = "Failed"
           THEN /\ result' = [result EXCEPT ![t] = IF f.id = t THEN "Failed" ELSE "Error"]
                /\ pc' = [pc EXCEPT ![t] = "done"] /\ got' = got
           ELSE /\ got' = IF f.id = t THEN [got EXCEPT ![t] = f.stop] ELSE got
                /\ result' = result /\ pc' = pc
    BY DEF TakeResult
  <1>2. f \in ToSet(todo[t]) /\ IsSeq(Tail(todo[t])) /\ \A x \in ToSet(Tail(todo[t])) : x \in ToSet(todo[t])
    BY <1>1, TailElements DEF IInv, Types, Shapes
  <1>3. f.id = t /\ f.stop # "None" /\ f.stop = ms.stop[t]
    BY <1>1, <1>2 DEF IInv, Ends, PromptOk, IsEnd
  <1>4. ms'.turn # t
    BY <1>1, <1>3, NoTurnAtAnEnd DEF IInv
  <1> HIDE DEF f
  <1>5. t \in Task /\ t \notin Cancel /\ Going(t)
    BY <1>1, Numbers DEF Going, Past
  <1>6. /\ todo'[t] = Tail(todo[t]) /\ DOMAIN todo' = Task
        /\ \A u \in Task : u # t => todo'[u] = todo[u]
    BY <1>1, <1>5 DEF IInv, Types, Shapes
  <1>7. Moves(ms, ms') /\ ms'.buffered = ms.buffered /\ Queues(t)
    BY <1>1, StandsStill DEF Queues
  <1>8. CASE f.stop = "Failed"
    <2>1. Steps(t, "done") /\ result' = [result EXCEPT ![t] = "Failed"] /\ got' = got
      BY <1>1, <1>3, <1>5, <1>8, StepsOf
    <2>2. Shapes' /\ Sent'
      BY <1>1, <1>2, <1>5, <1>6, <2>1, SentKept, Numbers DEF IInv, Types, Shapes, Steps
    <2>3. PromptOk(t)'
      BY <1>1, <1>2, <1>3, <1>6, <1>8, <2>1 DEF IInv, Types, Shapes, Ends, PromptOk, IsEnd, Steps
    <2>4. /\ \A p \in Prompt : p # t => SameEnds(p)
          /\ \A c \in Cancel : got'[c] = got[c] /\ todo'[c] = todo[c]
      BY <1>1, <1>5, <1>6, <2>1, Numbers DEF SameEnds, IInv, Types, Shapes
    <2> QED
      BY <1>4, <1>5, <1>7, <2>1, <2>2, <2>3, <2>4, PromptMoves
  <1>9. CASE f.stop # "Failed"
    <2>1. Steps(t, pc[t]) /\ got' = [got EXCEPT ![t] = f.stop] /\ result' = result
      BY <1>1, <1>3, <1>5, <1>9, StaysAt
    <2>2. Shapes' /\ Sent'
      BY <1>1, <1>2, <1>5, <1>6, <2>1, SentKept, Numbers DEF IInv, Types, Shapes, Steps
    <2>3. PromptOk(t)'
      BY <1>1, <1>2, <1>3, <1>4, <1>5, <1>6, <2>1 DEF IInv, Types, Shapes, Ends, PromptOk, IsEnd, Steps
    <2>4. /\ \A p \in Prompt : p # t => SameEnds(p)
          /\ \A c \in Cancel : got'[c] = got[c] /\ todo'[c] = todo[c]
      BY <1>1, <1>5, <1>6, <2>1, Numbers DEF SameEnds, IInv, Types, Shapes
    <2> QED
      BY <1>1, <1>5, <1>7, <2>1, <2>2, <2>3, <2>4, PromptMoves
  <1> QED BY <1>8, <1>9

LEMMA FramesSentPreserves ==
    ASSUME IInv, NEW t \in Prompt, FramesSent(t) PROVE IInv'
  <1>1. /\ pc[t] = "send"
        /\ UNCHANGED <<ms, box, todo, got, last, out>>
        /\ IF got[t] # "None" \/ last[t]
           THEN /\ result' = [result EXCEPT ![t] = IF got[t] # "None" THEN got[t] ELSE "Error"]
                /\ pc' = [pc EXCEPT ![t] = "done"] /\ lockq' = lockq
           ELSE /\ pc' = [pc EXCEPT ![t] = "loop"] /\ lockq' = Append(lockq, t)
                /\ result' = result
    BY DEF FramesSent, Acquire
  <1>2. t \in Task /\ t \notin Cancel /\ Going(t) /\ Moves(ms, ms') /\ ms'.buffered = ms.buffered
    BY <1>1, StandsStill, Numbers DEF Going, Past
  <1>3. PICK at \in {"done", "loop"} : Steps(t, at) /\ pc' = [pc EXCEPT ![t] = at]
    BY <1>1, <1>2, StepsOf
  <1>4. \A p \in Prompt : p # t => result'[p] = result[p]
    BY <1>1 DEF IInv, Types, Shapes
  <1>5. Shapes' /\ Sent' /\ Queues(t)
    BY <1>1, <1>2, <1>3, SentKept DEF IInv, Types, Shapes, Steps, Queues
  <1>6. got[t] # "None" \/ last[t] => ms.turn # t
    <2>1. got[t] # "None" => ms.stop[t] # "None"
      BY DEF IInv, Ends, PromptOk, IsEnd
    <2> QED BY <1>1, <2>1, NoTurnAtAnEnd DEF IInv, Ends, PromptOk
  <1>7. at = "done" => ms'.turn # t
    <2>1. at = "done" => got[t] # "None" \/ last[t]
      BY <1>1, <1>2, <1>3 DEF IInv, Types, Shapes, Steps
    <2> QED BY <1>1, <1>6, <2>1
  <1>8. PromptOk(t)'
    BY <1>1, <1>3 DEF IInv, Types, Shapes, Ends, PromptOk, IsEnd, Steps, Stops
  <1>9. /\ \A p \in Prompt : p # t => SameEnds(p)
        /\ \A c \in Cancel : got'[c] = got[c] /\ todo'[c] = todo[c]
    BY <1>1, <1>4 DEF SameEnds
  <1> QED
    BY <1>2, <1>3, <1>5, <1>7, <1>8, <1>9, PromptMoves

\* The end a prompt is answered with once it has the lock is that of its turn.
LEMMA AnsweredUnderLock ==
    ASSUME IInv, NEW t \in Prompt, pc[t] \in {"loop", "poll"}, Holds(t),
           TakesBuffered(t) \/ FindsTurnOver(t),
           UNCHANGED <<box, todo, got, last, out>>
    PROVE  IInv'
  <1>1. /\ pc' = [pc EXCEPT ![t] = "done"] /\ lockq' = Tail(lockq)
        /\ result' = [result EXCEPT ![t] = result'[t]]
    BY DEF TakesBuffered, FindsTurnOver, Release, IInv, Types, Shapes
  <1>2. t \in Task /\ t \notin Cancel /\ Going(t)
    BY Numbers DEF Going, Past
  <1>3. Steps(t, "done")
    BY <1>1, <1>2, StepsOf
  <1>4. /\ IsHost(ms') /\ Moves(ms, ms') /\ ms'.stop = ms.stop /\ ms'.turn = ms.turn
        /\ ms'.buffered \in {ms.buffered, "None"}
        /\ ms.turn # t /\ (result'[t] \in Stops => result'[t] = ms.stop[t])
    <2>1. CASE TakesBuffered(t)
      <3>1. /\ ms.buffered # "None" /\ result'[t] = ms.buffered
            /\ ms' = [ms EXCEPT !.buffered = "None"]
        BY <2>1 DEF TakesBuffered, IInv, Types, Shapes
      <3>2. ms.buffered = ms.stop[Final] /\ Final \in Prompt
        BY <3>1, Numbers DEF IInv, Ends, IsEnd
      <3>3. pc[Final] # "idle"
        BY <3>1, <3>2 DEF IInv, Turn, Past
      <3>4. t = Final
        BY <1>2, <3>3, Numbers DEF IInv, Order, Going
      <3>5. ms.turn # t
        BY <3>1, <3>2, <3>4, NoTurnAtAnEnd DEF IInv
      <3>6. /\ IsHost(ms') /\ ms'.stop = ms.stop /\ ms'.turn = ms.turn /\ ms'.buffered = "None"
            /\ ms'.latest = ms.latest /\ ms'.live = ms.live /\ ms'.pending = ms.pending
        BY <3>1 DEF IInv, Types, Shapes, IsHost, HostFields
      <3>7. Moves(ms, ms')
        BY <3>6 DEF Moves, SameTurn
      <3> QED BY <3>1, <3>2, <3>4, <3>5, <3>6, <3>7
    <2>2. CASE FindsTurnOver(t)
      <3>1. ms.live.turn = 0 /\ result'[t] = TerminalState(ms) /\ ms' = ms
        BY <2>2 DEF FindsTurnOver, IInv, Types, Shapes
      <3>2. ms.latest = t
        BY <1>2, GoingOwns DEF IInv
      <3>3. result'[t] \in Stops => result'[t] = ms.stop[t]
        BY <3>1, <3>2 DEF TerminalState, Stops
      <3>4. ms.turn # t
        BY <3>1, NoTurnAtAnEnd DEF IInv
      <3> QED BY <3>1, <3>3, <3>4, StandsStill DEF IInv, Types, Shapes
    <2> QED BY <2>1, <2>2
  <1>5. Shapes' /\ Sent'
    BY <1>1, <1>2, <1>3, <1>4, SentKept DEF IInv, Types, Shapes, Steps
  <1>6. PromptOk(t)'
    BY <1>3, <1>4 DEF IInv, Ends, PromptOk, IsEnd, Steps
  <1>7. /\ \A p \in Prompt : p # t => SameEnds(p)
        /\ \A c \in Cancel : got'[c] = got[c] /\ todo'[c] = todo[c]
    BY <1>1 DEF SameEnds, IInv, Types, Shapes
  <1>8. Queues(t)
    BY <1>1 DEF Queues
  <1> QED
    BY <1>2, <1>3, <1>4, <1>5, <1>6, <1>7, <1>8, PromptMoves

\* A prompt moves on, and nothing but its place, its answer and its last poll change.
LEMMA PromptPasses ==
    ASSUME IInv, NEW t \in Prompt, Going(t), pc[t] # "ack",
           NEW at \in {"wait", "poll", "drain"}, pc' = [pc EXCEPT ![t] = at],
           Queues(t), at \in {"wait", "drain"} => Holds(t) /\ UNCHANGED lockq,
           DOMAIN last' = Prompt, \A p \in Prompt : p # t => last'[p] = last[p],
           UNCHANGED <<ms, box, todo, got, out, result>>
    PROVE  IInv'
  <1>1. t \in Task /\ Steps(t, at) /\ Moves(ms, ms')
    BY StepsOf, StandsStill, Numbers
  <1>2. Shapes' /\ Sent'
    BY <1>1, SentKept DEF IInv, Types, Shapes, Steps
  <1>3. PromptOk(t)'
    BY <1>1 DEF IInv, Ends, PromptOk, IsEnd, Steps
  <1>4. /\ \A p \in Prompt : p # t => SameEnds(p)
        /\ \A c \in Cancel : got'[c] = got[c] /\ todo'[c] = todo[c]
    BY DEF SameEnds
  <1> QED
    BY <1>1, <1>2, <1>3, <1>4, PromptMoves

LEMMA LoopPreserves ==
    ASSUME IInv, NEW t \in Prompt, Loop(t) PROVE IInv'
  <1>1. pc[t] = "loop" /\ Holds(t) /\ UNCHANGED <<box, todo, got, last, out>>
    BY DEF Loop
  <1>2. CASE TakesBuffered(t) \/ FindsTurnOver(t)
    BY <1>1, <1>2, AnsweredUnderLock
  <1>3. CASE pc' = [pc EXCEPT ![t] = "wait"] /\ UNCHANGED <<ms, lockq, result>>
    <2>1. Going(t) /\ Queues(t) /\ DOMAIN last' = Prompt
      BY <1>1, <1>3 DEF Going, Past, Queues, IInv, Types, Shapes
    <2> QED BY <1>1, <1>3, <2>1, PromptPasses
  <1> QED BY <1>2, <1>3 DEF Loop

LEMMA WakePreserves ==
    ASSUME IInv, NEW t \in Prompt, Wake(t) PROVE IInv'
  <1>1. /\ pc[t] = "wait" /\ pc' = [pc EXCEPT ![t] = "poll"] /\ lockq' = Append(Tail(lockq), t)
        /\ UNCHANGED <<ms, box, todo, got, last, out, result>>
    BY DEF Wake, Release
  <1>2. Going(t) /\ Queues(t) /\ DOMAIN last' = Prompt
    BY <1>1, Numbers DEF Going, Past, Queues, IInv, Types, Shapes, Lock
  <1> QED BY <1>1, <1>2, PromptPasses

LEMMA PollTurnPreserves ==
    ASSUME IInv, NEW t \in Prompt, PollTurn(t) PROVE IInv'
  <1>1. pc[t] = "poll" /\ Holds(t) /\ UNCHANGED <<box, todo, got, out>>
    BY DEF PollTurn
  <1>2. CASE (TakesBuffered(t) \/ FindsTurnOver(t)) /\ UNCHANGED last
    BY <1>1, <1>2, AnsweredUnderLock
  <1>3. CASE /\ last' = [last EXCEPT ![t] = TRUE] /\ pc' = [pc EXCEPT ![t] = "drain"]
             /\ UNCHANGED <<ms, lockq, result>>
    <2>1. Going(t) /\ Queues(t) /\ DOMAIN last' = Prompt /\ \A p \in Prompt : p # t => last'[p] = last[p]
      BY <1>1, <1>3 DEF Going, Past, Queues, IInv, Types, Shapes
    <2> QED BY <1>1, <1>3, <2>1, PromptPasses
  <1> QED BY <1>2, <1>3 DEF PollTurn

LEMMA ApplyAnswerPreserves ==
    ASSUME IInv, NEW t \in Prompt, ApplyAnswer(t) PROVE IInv'
  <1>1. /\ pc[t] = "apply" /\ Holds(t) /\ last' = [last EXCEPT ![t] = FALSE]
        /\ UNCHANGED <<box, todo, got, out>>
    BY DEF ApplyAnswer
  <1>2. t \in Task /\ t \notin Cancel /\ Going(t)
    BY <1>1, Numbers DEF Going, Past
  <1>3. \A c \in Cancel : got'[c] = got[c] /\ todo'[c] = todo[c]
    BY <1>1
  <1>4. CASE /\ ms.turn = 0 /\ result' = [result EXCEPT ![t] = "Error"]
             /\ pc' = [pc EXCEPT ![t] = "done"] /\ lockq' = Tail(lockq) /\ ms' = ms
    <2>1. Steps(t, "done") /\ Moves(ms, ms') /\ Queues(t) /\ ms'.turn # t
      BY <1>1, <1>2, <1>4, StepsOf, StandsStill, Numbers DEF Queues
    <2>2. Shapes' /\ Sent'
      BY <1>1, <1>2, <1>4, <2>1, SentKept DEF IInv, Types, Shapes, Steps
    <2>3. PromptOk(t)'
      BY <1>1, <1>4, <2>1 DEF IInv, Types, Shapes, Ends, PromptOk, IsEnd, Steps, Stops
    <2>4. \A p \in Prompt : p # t => SameEnds(p)
      BY <1>1, <1>4 DEF SameEnds, IInv, Types, Shapes
    <2> QED
      BY <1>2, <1>3, <1>4, <2>1, <2>2, <2>3, <2>4, PromptMoves
  <1>5. CASE /\ ms' = Reply(ms, ask[t].answer) \/ (ms.turn # 0 /\ ms' = EndTurn(ms, "Cancelled"))
             /\ pc' = [pc EXCEPT ![t] = "drain"] /\ UNCHANGED <<lockq, result>>
    <2>1. /\ IsHost(ms') /\ SameRest(ms, ms')
          /\ SameTurn(ms, ms') \/ (ms.turn # 0 /\ EndsWith(ms, ms', "Cancelled"))
      BY <1>5, ReplyFields, EndTurnFields DEF IInv, Types, Shapes
    <2>2. Moves(ms, ms') /\ ms'.buffered = ms.buffered
      BY <2>1 DEF Moves, SameRest, Stops
    <2>3. Steps(t, "drain") /\ Queues(t)
      BY <1>2, <1>5, StepsOf DEF Queues
    <2>4. Shapes' /\ Sent'
      BY <1>1, <1>2, <1>5, <2>1, <2>3, SentKept DEF IInv, Types, Shapes, Steps
    <2>5. PromptOk(t)'
      <3>1. \A q \in Prompt : ms.stop[q] # "None" => ms'.stop[q] = ms.stop[q]
        BY <2>2, StopsKept DEF IInv
      <3> QED BY <1>1, <1>5, <2>3, <3>1 DEF IInv, Ends, PromptOk, IsEnd, Steps, Stops
    <2>6. \A p \in Prompt : p # t => SameEnds(p)
      BY <1>1, <1>5 DEF SameEnds, IInv, Types, Shapes
    <2> QED
      BY <1>1, <1>2, <1>3, <1>5, <2>2, <2>3, <2>4, <2>5, <2>6, PromptMoves
  <1> QED
    BY <1>4, <1>5 DEF ApplyAnswer, HasCancelTarget, Release

-----------------------------------------------------------------------------
(* The dispatcher's calls return.                                          *)

LEMMA CallReturns ==
    ASSUME IInv, out # <<>>, out' = Tail(out), NEW t, t = Head(out).task,
           \/ pc' = [pc EXCEPT ![t] = "send"] /\ UNCHANGED lockq
           \/ t \in Prompt /\ pc' = [pc EXCEPT ![t] = "apply"] /\ lockq' = Append(lockq, t),
           UNCHANGED <<ms, box, todo, got, last, result>>
    PROVE  IInv'
  <1>1. t \in Task /\ pc[t] = "ack"
    BY TailIsSeq DEF IInv, Types, Shapes, Sent
  <1>2. PICK at \in {"send", "apply"} : Steps(t, at)
    BY <1>1, StepsOf
  <1>3. Sent' /\ IsSeq(out')
    BY <1>2, SentServed
  <1>4. Shapes'
    BY <1>1, <1>2, <1>3 DEF IInv, Types, Shapes, Steps
  <1>5. Moves(ms, ms') /\ Queues(t)
    BY StandsStill DEF Queues
  <1>6. (\A p \in Prompt : SameEnds(p)) /\ \A c \in Cancel : got'[c] = got[c] /\ todo'[c] = todo[c]
    BY DEF SameEnds
  <1>7. CASE t \in Prompt
    <2>1. Going(t) /\ PromptOk(t)'
      BY <1>1, <1>2, <1>7 DEF Going, Past, IInv, Ends, PromptOk, IsEnd, Steps
    <2> QED BY <1>2, <1>3, <1>4, <1>5, <1>6, <1>7, <2>1, PromptMoves
  <1>8. CASE t \in Cancel
    <2>1. CancelOk(t)' /\ IsEnd(ms.buffered, Final)'
      BY <1>1, <1>2, <1>8 DEF IInv, Ends, CancelOk, IsEnd, Steps
    <2> QED BY <1>1, <1>2, <1>3, <1>4, <1>5, <1>6, <1>8, <2>1, CancelMoves
  <1> QED BY <1>1, <1>7, <1>8, Numbers

LEMMA DeliverPreserves == IInv /\ Deliver => IInv'
  <1> SUFFICES ASSUME IInv, Deliver PROVE IInv'
    OBVIOUS
  <1> DEFINE t == Head(out).task
  <1>1. /\ out # <<>> /\ out' = Tail(out) /\ pc' = [pc EXCEPT ![t] = "send"]
        /\ UNCHANGED <<ms, box, lockq, todo, got, last, result>>
    BY DEF Deliver
  <1> QED BY <1>1, CallReturns

LEMMA AnswerPreserves == IInv /\ Answer => IInv'
  <1> SUFFICES ASSUME IInv, Answer PROVE IInv'
    OBVIOUS
  <1> DEFINE t == Head(out).task
  <1>1. /\ out # <<>> /\ out' = Tail(out)
        /\ IF t \in Cancel THEN pc' = [pc EXCEPT ![t] = "send"] /\ lockq' = lockq
           ELSE pc' = [pc EXCEPT ![t] = "apply"] /\ lockq' = Append(lockq, t)
        /\ UNCHANGED <<ms, box, todo, got, last, result>>
    BY DEF Answer, Acquire
  <1>2. t \in Task
    BY <1>1, TailIsSeq DEF IInv, Types, Shapes, Sent
  <1> HIDE DEF t
  <1>3. t \in Prompt \/ t \in Cancel
    BY <1>2, Numbers
  <1> QED BY <1>1, <1>3, CallReturns DEF t

-----------------------------------------------------------------------------
(* The steps of a cancel.                                                  *)

LEMMA SendCancelPreserves ==
    ASSUME CancelDuring \subseteq {Final}, IInv, NEW t \in Cancel, SendCancel(t) PROVE IInv'
  <1>1. /\ pc[t] = "idle" /\ pc' = [pc EXCEPT ![t] = "prepare"] /\ lockq' = Append(lockq, t)
        /\ UNCHANGED <<ms, box, todo, got, last, out, result>>
        /\ pc[Final] # "idle"
    BY DEF SendCancel, Acquire, InFlight
  <1>2. Steps(t, "prepare") /\ t \in Task /\ t \notin Prompt
    BY <1>1, StepsOf, Numbers
  <1>3. Moves(ms, ms')
    BY <1>1, StandsStill
  <1>4. Types'
    BY <1>1, <1>2 DEF IInv, Types, Shapes, Steps
  <1>5. Order' /\ Turn' /\ Sent'
    BY <1>1, <1>2, <1>3, OrderKept, TurnKept, SentKept DEF IInv
  <1>6. Lock'
    <2>1. /\ lockq \in Seq(Task) /\ DOMAIN lockq = 1..Len(lockq) /\ Len(lockq) \in Nat
          /\ DOMAIN lockq' = 1..Len(lockq) + 1
          /\ (\A j \in DOMAIN lockq : lockq'[j] = lockq[j]) /\ lockq'[Len(lockq) + 1] = t
      BY <1>1, <1>2 DEF IInv, Types
    <2>2. \A u \in Task : pc'[u] \in {"drain", "redrain", "wait"} => Holds(u)'
      BY <1>1, <1>2, <2>1 DEF IInv, Lock, Steps, Holds
    <2>3. \A j \in DOMAIN lockq' : pc'[lockq'[j]] # "idle"
      BY <1>2, <2>1 DEF IInv, Lock, Steps
    <2>4. pc'[Final] = pc[Final]
      BY <1>2, Numbers DEF Steps
    <2>5. pc'[Final] = "start" =>
            \E i \in DOMAIN lockq' : lockq'[i] = Final /\ \A j \in 1..i : lockq'[j] \notin Cancel
      BY <2>1, <2>4 DEF IInv, Lock
    <2>6. \A c \in Cancel : pc'[c] # "idle" =>
              pc'[Final] # "idle" /\ (pc'[Final] = "start" => pc'[c] = "prepare")
      BY <1>1, <1>2, <2>4, Numbers DEF IInv, Lock, Steps
    <2> QED BY <2>2, <2>3, <2>5, <2>6 DEF Lock
  <1>7. Ends'
    <2>1. CancelOk(t)' /\ IsEnd(ms.buffered, Final)'
      BY <1>1, <1>2 DEF IInv, Ends, CancelOk, IsEnd, Steps
    <2>2. (\A p \in Prompt : SameEnds(p)) /\ \A c \in Cancel : got'[c] = got[c] /\ todo'[c] = todo[c]
      BY <1>1 DEF SameEnds
    <2> QED BY <1>2, <1>3, <2>1, <2>2, CancelStepEnds
  <1> QED
    BY <1>4, <1>5, <1>6, <1>7 DEF IInv

\* A cancel that works on the session finds its prompt started.
LEMMA CancelOwns ==
    ASSUME IInv, NEW t \in Cancel, pc[t] \notin {"idle", "prepare"}
    PROVE  {ms.turn, ms.live.turn, ms.pending} \subseteq {0, Final}
  <1>1. Past(Final) /\ Final \in Prompt
    BY Numbers DEF IInv, Lock, Past
  <1> QED BY <1>1, GoingOwns DEF IInv

LEMMA PreparePreserves ==
    ASSUME IInv, NEW t \in Cancel, Prepare(t) PROVE IInv'
  <1>1. /\ pc[t] = "prepare" /\ Holds(t) /\ ms' = (IF ms.live.turn = 0 THEN Seed(ms) ELSE ms)
        /\ pc' = [pc EXCEPT ![t] = "drain"]
        /\ UNCHANGED <<box, lockq, todo, got, last, out, result>>
    BY DEF Prepare
  <1>2. Steps(t, "drain") /\ Queues(t)
    BY <1>1, StepsOf, Numbers DEF Queues
  <1>3. IsHost(ms') /\ Moves(ms, ms') /\ ms'.buffered = ms.buffered /\ ms'.stop = ms.stop
    <2>1. CASE ms.live.turn = 0
      <3>1. ms.turn = 0
        BY <2>1, Numbers DEF IInv, Turn
      <3>2. /\ IsHost(ms') /\ SameTurn(ms, ms') /\ ms'.live.turn = ms.turn
            /\ ms'.latest = ms.latest /\ ms'.pending = ms.pending /\ ms'.buffered = ms.buffered
        BY <1>1, <2>1, SeedFields DEF IInv, Types, Shapes
      <3> QED BY <2>1, <3>1, <3>2 DEF Moves, SameTurn
    <2>2. CASE ms.live.turn # 0
      BY <1>1, <2>2, StandsStill DEF IInv, Types, Shapes
    <2> QED BY <2>1, <2>2
  <1>4. Shapes' /\ Sent'
    BY <1>1, <1>2, <1>3, SentKept, Numbers DEF IInv, Types, Shapes, Steps
  <1>5. CancelOk(t)' /\ IsEnd(ms.buffered, Final)'
    BY <1>1, <1>2, <1>3 DEF IInv, Ends, CancelOk, IsEnd, Steps
  <1>6. (\A p \in Prompt : SameEnds(p)) /\ \A c \in Cancel : got'[c] = got[c] /\ todo'[c] = todo[c]
    BY <1>1 DEF SameEnds
  <1> QED
    BY <1>1, <1>2, <1>3, <1>4, <1>5, <1>6, CancelMoves

LEMMA CancelTurnPreserves ==
    ASSUME IInv, NEW t \in Cancel, CancelTurn(t) PROVE IInv'
  <1> DEFINE n == Polled(ms)
  <1>1. /\ pc[t] = "drain" /\ UNCHANGED <<box, got, last, out, result>>
        /\ \/ /\ ms' = n /\ pc' = [pc EXCEPT ![t] = "done"] /\ lockq' = Tail(lockq) /\ todo' = todo
           \/ /\ ms.turn # 0 /\ ms' = EndTurn(n, "Cancelled")
              /\ todo' = [todo EXCEPT ![t] = PolledFrames(ms)]
              /\ pc' = [pc EXCEPT ![t] = "redrain"] /\ lockq' = lockq
    BY DEF CancelTurn, HasCancelTarget, Release
  <1>2. /\ Moves(ms, n) /\ IsHost(n) /\ SameTurn(ms, n) /\ n.buffered = ms.buffered
    BY PollMoves
  <1> HIDE DEF n
  <1>3. Holds(t) /\ t \in Task /\ t \notin Prompt
    BY <1>1, Numbers DEF IInv, Lock
  <1>4. PICK at \in {"done", "redrain"} : Steps(t, at) /\ pc' = [pc EXCEPT ![t] = at]
    BY <1>1, <1>3, StepsOf
  <1>5. /\ IsHost(ms') /\ Moves(ms, ms') /\ ms'.buffered = ms.buffered
        /\ Queues(t) /\ (at = "redrain" => UNCHANGED lockq)
    <2>1. CASE ms' = n /\ pc' = [pc EXCEPT ![t] = "done"] /\ lockq' = Tail(lockq)
      <3>1. at # "redrain"
        BY <1>3, <1>4, <2>1 DEF IInv, Types, Shapes, Steps
      <3> QED BY <1>2, <1>3, <2>1, <3>1 DEF Queues
    <2>2. CASE ms.turn # 0 /\ ms' = EndTurn(n, "Cancelled") /\ lockq' = lockq
      <3>1. IsHost(ms') /\ EndsWith(n, ms', "Cancelled") /\ SameRest(n, ms')
        BY <1>2, <2>2, EndTurnFields
      <3>2. EndsWith(ms, ms', "Cancelled") /\ ms'.turn = 0
        BY <1>2, <3>1 DEF EndsWith, SameTurn
      <3>3. Moves(ms, ms')
        BY <1>2, <2>2, <3>1, <3>2 DEF Moves, SameRest, Stops
      <3> QED BY <1>2, <2>2, <3>1, <3>3 DEF Queues, SameRest
    <2> QED BY <1>1, <2>1, <2>2
  <1>6. \A q \in Prompt : ms.stop[q] # "None" => ms'.stop[q] = ms.stop[q]
    BY <1>5, StopsKept DEF IInv
  <1>7. DOMAIN todo' = Task /\ \A u \in Task : u # t => todo'[u] = todo[u]
    BY <1>1 DEF IInv, Types, Shapes
  <1>8. Shapes' /\ Sent'
    BY <1>1, <1>3, <1>4, <1>5, <1>7, SentKept, Numbers DEF IInv, Types, Shapes, Steps
  <1>9. CancelOk(t)' /\ IsEnd(ms.buffered, Final)'
    <2>1. IsEnd(got[t], Final)' /\ IsEnd(ms.buffered, Final)'
      BY <1>1, <1>5, <1>6, Numbers DEF IInv, Ends, CancelOk, IsEnd
    <2>2. ASSUME pc'[t] = "redrain"
          PROVE  IsSeq(todo'[t]) /\ \A f \in ToSet(todo'[t]) : f.kind = "result" => IsEnd(f.stop, Final)'
      <3>1. todo'[t] = PolledFrames(ms)
        BY <1>1, <1>3, <2>2 DEF IInv, Types, Shapes
      <3>2. ASSUME NEW f \in ToSet(todo'[t]), f.kind = "result" PROVE IsEnd(f.stop, Final)'
        <4>1. Ended(ms) /\ f.stop = ms.stop[ms.live.turn]
          BY <3>1, <3>2, FramesOfPoll DEF IsResultOf
        <4>2. ms.live.turn = Final
          BY <1>1, <4>1, CancelOwns DEF Ended
        <4> QED BY <1>6, <4>1, <4>2, Numbers DEF IsEnd, Ended
      <3> QED BY <3>1, <3>2, FramesOfPoll
    <2> QED BY <2>1, <2>2 DEF CancelOk
  <1>10. (\A p \in Prompt : SameEnds(p))
         /\ \A c \in Cancel : c # t => got'[c] = got[c] /\ todo'[c] = todo[c]
    BY <1>1, <1>3, <1>7, Numbers DEF SameEnds
  <1> QED
    BY <1>1, <1>3, <1>4, <1>5, <1>8, <1>9, <1>10, CancelMoves

\* What a cancel carries away is the stop of a result frame.
LEMMA CarriedIsEnd ==
    ASSUME NEW frames, IsSeq(frames),
           \A f \in ToSet(frames) : f.kind = "result" => IsEnd(f.stop, Final)
    PROVE  IsEnd(Carried(frames), Final)
  <1> DEFINE IsLast(i) == /\ frames[i].kind = "result"
                          /\ \A j \in DOMAIN frames : j > i => frames[j].kind # "result"
  <1>1. CASE \E i \in DOMAIN frames : IsLast(i)
    <2> DEFINE i == CHOOSE i \in DOMAIN frames : IsLast(i)
    <2>1. i \in DOMAIN frames /\ IsLast(i)
      BY <1>1
    <2>2. Carried(frames) = frames[i].stop
      BY <1>1 DEF Carried
    <2> HIDE DEF i
    <2>3. frames[i] \in ToSet(frames)
      BY <2>1, ElementsOf
    <2> QED BY <2>1, <2>2, <2>3
  <1>2. CASE ~ \E i \in DOMAIN frames : IsLast(i)
    BY <1>2 DEF Carried, IsEnd
  <1> QED BY <1>1, <1>2

LEMMA CancelledPreserves ==
    ASSUME IInv, NEW t \in Cancel, Cancelled(t) PROVE IInv'
  <1> DEFINE frames == todo[t] \o PolledFrames(ms)
  <1>1. /\ pc[t] = "redrain" /\ ms' = Polled(ms) /\ UNCHANGED <<box, last, out, result>>
        /\ todo' = [todo EXCEPT ![t] = Leading(frames)]
        /\ got' = [got EXCEPT ![t] = Carried(frames)]
        /\ \E at \in {"send", "store"} : Release(t, at)
    BY DEF Cancelled
  <1>2. /\ Moves(ms, ms') /\ IsHost(ms') /\ ms'.stop = ms.stop /\ ms'.buffered = ms.buffered
    BY <1>1, PollMoves DEF SameTurn
  <1>3. /\ IsSeq(todo[t]) /\ IsSeq(PolledFrames(ms))
        /\ \A f \in ToSet(todo[t]) : f.kind = "result" => IsEnd(f.stop, Final)
    BY <1>1, FramesOfPoll DEF IInv, Ends, CancelOk
  <1>4. \A f \in ToSet(PolledFrames(ms)) : f.kind = "result" => IsEnd(f.stop, Final)
    <2> SUFFICES ASSUME NEW f \in ToSet(PolledFrames(ms)), f.kind = "result"
                 PROVE  IsEnd(f.stop, Final)
      OBVIOUS
    <2>1. Ended(ms) /\ f.stop = ms.stop[ms.live.turn]
      BY FramesOfPoll DEF IsResultOf
    <2>2. ms.live.turn = Final
      BY <1>1, <2>1, CancelOwns DEF Ended
    <2> QED BY <2>1, <2>2 DEF IsEnd
  <1>5. IsSeq(frames) /\ \A f \in ToSet(frames) : f.kind = "result" => IsEnd(f.stop, Final)
    BY <1>3, <1>4, ConcatElements
  <1> HIDE DEF frames
  <1>6. IsEnd(Carried(frames), Final)
    BY <1>5, CarriedIsEnd
  <1>7. Holds(t) /\ t \in Task /\ t \notin Prompt
    BY <1>1, Numbers DEF IInv, Lock
  <1>8. PICK at \in {"send", "store"} : Steps(t, at) /\ Queues(t)
    BY <1>1, <1>7, StepsOf DEF Release, Queues
  <1>9. /\ DOMAIN todo' = Task /\ (\A u \in Task : u # t => todo'[u] = todo[u])
        /\ DOMAIN got' = Task /\ (\A u \in Task : u # t => got'[u] = got[u])
        /\ got'[t] = Carried(frames)
    BY <1>1, <1>7 DEF IInv, Types, Shapes
  <1>10. Shapes' /\ Sent'
    BY <1>1, <1>2, <1>7, <1>8, <1>9, SentKept, Numbers DEF IInv, Types, Shapes, Steps
  <1>11. CancelOk(t)' /\ IsEnd(ms.buffered, Final)'
    BY <1>1, <1>2, <1>6, <1>8, <1>9 DEF IInv, Ends, CancelOk, IsEnd, Steps
  <1>12. (\A p \in Prompt : SameEnds(p))
         /\ \A c \in Cancel : c # t => got'[c] = got[c] /\ todo'[c] = todo[c]
    BY <1>1, <1>7, <1>9, Numbers DEF SameEnds
  <1> QED
    BY <1>1, <1>2, <1>8, <1>10, <1>11, <1>12, CancelMoves

LEMMA StorePreserves ==
    ASSUME IInv, NEW t \in Cancel, Store(t) PROVE IInv'
  <1>1. /\ pc[t] \in {"store", "restore"} /\ Holds(t) /\ ms' = [ms EXCEPT !.buffered = got[t]]
        /\ UNCHANGED <<box, todo, got, last, out, result>>
        /\ \E at \in {"send", "done"} : Release(t, at)
    BY DEF Store
  <1>2. PICK at \in {"send", "done"} : Steps(t, at) /\ Queues(t)
    BY <1>1, StepsOf, Numbers DEF Release, Queues
  <1>3. /\ IsHost(ms') /\ ms'.buffered = got[t] /\ SameTurn(ms, ms') /\ ms'.latest = ms.latest
        /\ ms'.live = ms.live /\ ms'.pending = ms.pending
    BY <1>1 DEF IInv, Types, Shapes, IsHost, HostFields, SameTurn
  <1>4. Moves(ms, ms')
    BY <1>3 DEF Moves
  <1>5. Shapes' /\ Sent'
    BY <1>1, <1>2, <1>3, SentKept, Numbers DEF IInv, Types, Shapes, Steps
  <1>6. CancelOk(t)' /\ IsEnd(ms.buffered, Final)'
    BY <1>1, <1>2, <1>3 DEF IInv, Ends, CancelOk, IsEnd, Steps, SameTurn
  <1>7. (\A p \in Prompt : SameEnds(p)) /\ \A c \in Cancel : got'[c] = got[c] /\ todo'[c] = todo[c]
    BY <1>1 DEF SameEnds
  <1> QED
    BY <1>1, <1>2, <1>4, <1>5, <1>6, <1>7, CancelMoves

LEMMA CancelSentPreserves ==
    ASSUME IInv, NEW t \in Cancel, CancelSent(t) PROVE IInv'
  <1>1. /\ pc[t] = "send" /\ UNCHANGED <<ms, box, todo, got, last, out, result>>
        /\ \/ pc' = [pc EXCEPT ![t] = "done"] /\ lockq' = lockq
           \/ pc' = [pc EXCEPT ![t] = "restore"] /\ lockq' = Append(lockq, t)
    BY DEF CancelSent, Acquire
  <1>2. PICK at \in {"done", "restore"} : Steps(t, at)
    BY <1>1, StepsOf, Numbers
  <1>3. Moves(ms, ms') /\ Queues(t)
    BY <1>1, StandsStill DEF Queues
  <1>4. Shapes' /\ Sent'
    BY <1>1, <1>2, SentKept, Numbers DEF IInv, Types, Shapes, Steps
  <1>5. CancelOk(t)' /\ IsEnd(ms.buffered, Final)'
    BY <1>1, <1>2 DEF IInv, Ends, CancelOk, IsEnd, Steps
  <1>6. (\A p \in Prompt : SameEnds(p)) /\ \A c \in Cancel : got'[c] = got[c] /\ todo'[c] = todo[c]
    BY <1>1 DEF SameEnds
  <1> QED
    BY <1>1, <1>2, <1>3, <1>4, <1>5, <1>6, CancelMoves

-----------------------------------------------------------------------------
\* The runtime reports: one more message, and its own field of the host.
LEMMA RuntimePreserves == IInv /\ Runtime => IInv'
  <1> SUFFICES ASSUME IInv, NEW kind \in Kinds, Report(kind) PROVE IInv'
    BY DEF Runtime, Kinds
  <1> DEFINE message == [turn |-> ms.turn, kind |-> kind, call |-> IF kind = "call" THEN budget.calls ELSE 0]
  <1>1. /\ box' = Append(box, message) /\ ms' = (IF kind = "text" THEN ms ELSE [ms EXCEPT !.src = "none"])
        /\ UNCHANGED <<lockq, pc, todo, got, last, out, result>>
    BY DEF Report
  <1>2. message.kind \in Kinds
    OBVIOUS
  <1> HIDE DEF message
  <1>3. /\ IsHost(ms') /\ ms'.turn = ms.turn /\ ms'.latest = ms.latest /\ ms'.stop = ms.stop
        /\ ms'.live = ms.live /\ ms'.pending = ms.pending /\ ms'.buffered = ms.buffered
    BY <1>1 DEF IInv, Types, Shapes, IsHost, HostFields, LiveFields
  <1>4. IsSeq(box') /\ \A i \in DOMAIN box' : box'[i].kind \in Kinds
    <2>1. /\ IsSeq(box') /\ DOMAIN box' = 1..Len(box) + 1 /\ DOMAIN box = 1..Len(box)
          /\ Len(box) \in Nat /\ (\A i \in DOMAIN box : box'[i] = box[i]) /\ box'[Len(box) + 1] = message
      BY <1>1, AppendIsSeq DEF IInv, Types, Shapes
    <2>2. \A i \in DOMAIN box' : i \in DOMAIN box \/ i = Len(box) + 1
      BY <2>1
    <2> QED BY <1>2, <2>1, <2>2 DEF IInv, Types, Shapes
  <1>5. Types'
    BY <1>1, <1>3, <1>4 DEF IInv, Types, Shapes
  <1>6. Order' /\ Lock' /\ Sent'
    BY <1>1 DEF IInv, Order, Lock, Holds, Sent
  <1>7. Turn'
    BY <1>1, <1>3 DEF IInv, Turn, Going, Past
  <1>8. Ends'
    BY <1>1, <1>3 DEF IInv, Ends, PromptOk, CancelOk, IsEnd
  <1> QED BY <1>5, <1>6, <1>7, <1>8 DEF IInv

LEMMA NextPreserves ==
    ASSUME CancelDuring \subseteq {Final}, IInv, [Next]_vars PROVE IInv'
  <1>1. ASSUME NEW t \in Prompt, PromptStep(t) PROVE IInv'
    BY <1>1, StartPreserves, DrainPreserves, ProjectPreserves, SendFramePreserves,
       TakeResultPreserves, FramesSentPreserves, LoopPreserves, WakePreserves,
       PollTurnPreserves, ApplyAnswerPreserves, Numbers DEF PromptStep
  <1>2. ASSUME NEW t \in Cancel, CancelStep(t) PROVE IInv'
    BY <1>2, PreparePreserves, DrainPreserves, CancelTurnPreserves, CancelledPreserves,
       StorePreserves, SendFramePreserves, CancelSentPreserves, Numbers DEF CancelStep
  <1>3. ASSUME UNCHANGED vars PROVE IInv'
    BY <1>3 DEF vars, IInv, Types, Shapes, Order, Turn, Going, Past, Lock, Holds, Sent,
                Ends, PromptOk, CancelOk, IsEnd
  <1> QED
    BY <1>1, <1>2, <1>3, SendPromptPreserves, SendCancelPreserves, DeliverPreserves,
       AnswerPreserves, RuntimePreserves DEF Next

LEMMA TurnsAreOwned == ASSUME CancelDuring \subseteq {Final} PROVE Spec => []IInv
  <1>1. Init => IInv
    BY InitInv
  <1>2. IInv /\ [Next]_vars => IInv'
    BY NextPreserves
  <1> QED BY <1>1, <1>2, PTL DEF Spec

\* No turn goes on once the prompt that started it was answered (server.rs,
\* start_live_prompt_turn_for_session to the loop's last poll).
THEOREM NoTurnIsOrphaned == ASSUME CancelDuring \subseteq {Final} PROVE Spec => []NoOrphanTurn
  <1>1. IInv => NoOrphanTurn
    BY DEF IInv, Turn, Going, Past, NoOrphanTurn, InFlight
  <1> QED BY <1>1, TurnsAreOwned, PTL

\* A prompt is answered with what became of the turn it started, whoever takes the
\* lock first and whether the answer comes from its own poll, from the buffer a
\* cancel left, or from the turn's terminal state.
THEOREM AnswersAreOwn == ASSUME CancelDuring \subseteq {Final} PROVE Spec => []AnswersItsOwnTurn
  <1>1. IInv => AnswersItsOwnTurn
    BY DEF IInv, Ends, PromptOk, IsEnd, AnswersItsOwnTurn, Stops
  <1> QED BY <1>1, TurnsAreOwned, PTL

-----------------------------------------------------------------------------
(* What the runtime has reported and the host has not read yet.             *)

SamePhase(m, n) == n.turn = m.turn /\ n.phase = m.phase /\ n.call = m.call /\ n.src = m.src
Speaks(m, n) == n.said = [m.said EXCEPT ![m.turn] = @ + 1]
Silent(n) == n.turn = 0 /\ n.phase = "Idle" /\ n.src = "none"

LEMMA EndTurnSays ==
    ASSUME NEW m, IsHost(m), NEW stop
    PROVE  LET n == EndTurn(m, stop) IN Silent(n) /\ n.said = m.said
  BY DEF EndTurn, IsHost, HostFields, Silent

LEMMA HostApplySays ==
    ASSUME NEW m, IsHost(m), NEW msg, msg.kind \in Kinds, msg.turn = m.turn,
           NEW n, n = HostApply(m, msg)
    PROVE  /\ msg.kind = "text" => SamePhase(m, n) /\ Speaks(m, n)
           /\ msg.kind # "text" => n.said = m.said
           /\ msg.kind = "call" => /\ n.turn = m.turn /\ n.phase = "Awaiting"
                                   /\ n.call = msg.call /\ n.src = m.src
           /\ msg.kind = "result" => n.turn = m.turn /\ n.phase = "Generating"
           /\ msg.kind \in {"done", "fail"} => Silent(n)
  <1>1. CASE msg.kind = "text"
    <2>1. n = [m EXCEPT !.said[m.turn] = @ + 1]
      BY <1>1 DEF HostApply
    <2>2. SamePhase(m, n)
      BY <2>1 DEF IsHost, HostFields, SamePhase
    <2>3. Speaks(m, n)
      BY <2>1 DEF IsHost, HostFields, Speaks
    <2> QED BY <1>1, <2>2, <2>3
  <1>2. CASE msg.kind = "call"
    <2>1. n = [m EXCEPT !.phase = "Awaiting", !.call = msg.call]
      BY <1>2 DEF HostApply
    <2> QED BY <1>2, <2>1 DEF IsHost, HostFields
  <1>3. CASE msg.kind = "result"
    <2>1. n = [m EXCEPT !.phase = "Generating", !.src = "stream"]
      BY <1>3 DEF HostApply
    <2> QED BY <1>3, <2>1 DEF IsHost, HostFields
  <1>4. CASE msg.kind \in {"done", "fail"}
    <2>1. PICK stop \in Stops : n = EndTurn(m, stop)
      BY <1>4 DEF HostApply, Stops
    <2> QED BY <1>4, <2>1, EndTurnSays
  <1> QED BY <1>1, <1>2, <1>3, <1>4 DEF Kinds

LEMMA ReplySays ==
    ASSUME NEW m, IsHost(m), NEW answer
    PROVE  LET n == Reply(m, answer)
           IN  /\ m.phase # "Awaiting" => n = m
               /\ m.phase = "Awaiting" => n.turn = m.turn /\ n.phase \in {"RunningTool", "Generating"}
               /\ n.said = m.said
  BY DEF Reply, IsHost, HostFields

LEMMA SeedSays ==
    ASSUME NEW m, IsHost(m)
    PROVE  LET n == Seed(m)
           IN  /\ SamePhase(m, n) /\ n.said = m.said
               /\ m.turn # 0 => n.live.turn = m.turn /\ n.live.told = m.said[m.turn]
               /\ m.turn = 0 => n.live.turn = 0
  <1> DEFINE live == [turn |-> m.turn, told |-> m.said[m.turn],
                      asked |-> IF m.phase = "Awaiting" THEN {m.call} ELSE {}]
  <1>1. Seed(m) = [m EXCEPT !.live = IF m.turn = 0 THEN NoLive ELSE live]
    BY DEF Seed
  <1>2. live.turn = m.turn /\ live.told = m.said[m.turn] /\ NoLive.turn = 0
    BY DEF NoLive
  <1> HIDE DEF live
  <1> QED BY <1>1, <1>2 DEF IsHost, HostFields, SamePhase

LEMMA StartTurnSays ==
    ASSUME NEW m, IsHost(m), NEW p, p # 0
    PROVE  LET n == StartTurn(m, p)
           IN  /\ n.turn = p /\ n.phase = "Generating" /\ n.src = "stream" /\ n.said = m.said
               /\ n.live.turn = p /\ n.live.told = m.said[p]
  <1> DEFINE k == [Submit(m, p) EXCEPT !.pending = p]
  <1>1. IsHost(k) /\ k.turn = p /\ k.phase = "Generating" /\ k.src = "stream" /\ k.said = m.said
    BY DEF Submit, IsHost, HostFields, LiveFields
  <1>2. StartTurn(m, p) = Seed(k)
    BY DEF StartTurn
  <1> HIDE DEF k
  <1> QED BY <1>1, <1>2, SeedSays DEF SamePhase

LEMMA PolledSays ==
    ASSUME NEW m, IsHost(m)
    PROVE  LET n == Polled(m)
           IN  /\ SamePhase(m, n) /\ n.said = m.said
               /\ m.live.turn = 0 => n = m
               /\ m.live.turn # 0 /\ Ended(m) => n.live.turn = 0
               /\ m.live.turn # 0 /\ ~Ended(m) =>
                    /\ n.live.turn = m.live.turn /\ n.live.told = m.said[m.live.turn]
                    /\ n.live.asked = IF m.phase = "Awaiting" THEN m.live.asked \cup {m.call}
                                      ELSE m.live.asked
  <1>1. CASE m.live.turn = 0
    BY <1>1 DEF Polled, SamePhase
  <1>2. CASE m.live.turn # 0 /\ Ended(m)
    <2>1. Polled(m) = [m EXCEPT !.live = NoLive, !.pending = 0]
      BY <1>2 DEF Polled, Ended
    <2>2. NoLive.turn = 0
      BY DEF NoLive
    <2>3. SamePhase(m, Polled(m)) /\ Polled(m).said = m.said /\ Polled(m).live = NoLive
      BY <2>1 DEF IsHost, HostFields, SamePhase
    <2> QED BY <1>2, <2>2, <2>3
  <1>3. CASE m.live.turn # 0 /\ ~Ended(m)
    <2> DEFINE asked == IF m.phase = "Awaiting" THEN m.live.asked \cup {m.call} ELSE m.live.asked
    <2>1. Polled(m) = [m EXCEPT !.live.told = m.said[m.live.turn], !.live.asked = asked]
      BY <1>3 DEF Polled
    <2> HIDE DEF asked
    <2>2. SamePhase(m, Polled(m)) /\ Polled(m).said = m.said
      BY <2>1 DEF IsHost, HostFields, SamePhase
    <2> DEFINE live == [m.live EXCEPT !.told = m.said[m.live.turn], !.asked = asked]
    <2>3. Polled(m).live = live
      BY <2>1 DEF IsHost, HostFields
    <2>4. live.turn = m.live.turn /\ live.told = m.said[m.live.turn] /\ live.asked = asked
      BY DEF IsHost, LiveFields
    <2> HIDE DEF live
    <2> QED BY <1>3, <2>2, <2>3, <2>4 DEF asked
  <1> QED BY <1>1, <1>2, <1>3

IsCall(i) == box[i].kind = "call"

\* The number of a call is used up when the model makes the call.
Numbered ==
    /\ budget = [text |-> budget.text, calls |-> budget.calls]
    /\ budget.calls \in Nat /\ budget.calls <= MaxCalls
    /\ \A i \in DOMAIN box : IsCall(i) => box[i].call \in Call /\ box[i].call > budget.calls
    /\ \A i, j \in DOMAIN box : IsCall(i) /\ IsCall(j) /\ box[i].call = box[j].call => i = j

\* Only text is followed by more of the same turn, and who may go on has said text only.
LastWords ==
    /\ \A i, j \in DOMAIN box : i < j /\ box[i].turn = box[j].turn => box[i].kind = "text"
    /\ \A i \in DOMAIN box : box[i].turn \in Prompt /\ Past(box[i].turn)
    /\ ms.src # "none" =>
          ms.turn # 0 /\ \A i \in DOMAIN box : box[i].turn = ms.turn => box[i].kind = "text"

\* While a call awaits approval nobody speaks for the turn.
Pauses ==
    ms.phase = "Awaiting" =>
        /\ ms.turn # 0 /\ ms.src = "none" /\ ms.call \in Call /\ ms.call > budget.calls
        /\ \A i \in DOMAIN box : box[i].turn # ms.turn /\ (IsCall(i) => box[i].call # ms.call)

Reports == Numbered /\ LastWords /\ Pauses

LEMMA InitReports == Init => Reports
  <1> SUFFICES ASSUME Init PROVE Reports
    OBVIOUS
  <1>1. box = <<>> /\ budget = [text |-> MaxText, calls |-> MaxCalls] /\ ms.phase = "Idle" /\ ms.src = "none"
    BY DEF Init
  <1> QED BY <1>1, PromptTurnAssumption DEF Reports, Numbered, LastWords, Pauses

LEMMA PastGrows ==
    ASSUME IInv, [Next]_vars, NEW p \in Prompt, Past(p) PROVE Past(p)'
  <1>1. DOMAIN pc = Task /\ pc[p] \notin {"idle", "start"} /\ p \in Task /\ p \notin Cancel
    BY Numbers DEF IInv, Types, Shapes, Past
  <1>2. ASSUME NEW t \in Prompt, PromptStep(t) PROVE Past(p)'
    <2>1. pc' = pc \/ \E at : at \notin {"idle", "start"} /\ pc' = [pc EXCEPT ![t] = at]
      BY <1>2 DEF PromptStep, Start, Drain, Project, SendFrame, TakeResult, FramesSent, Loop, Wake,
                  PollTurn, ApplyAnswer, TakesBuffered, FindsTurnOver, Release, Acquire
    <2> QED BY <1>1, <2>1 DEF Past
  <1>3. ASSUME NEW t \in Cancel, SendCancel(t) \/ CancelStep(t) PROVE Past(p)'
    <2>1. pc' = pc \/ \E at : pc' = [pc EXCEPT ![t] = at]
      BY <1>3 DEF CancelStep, SendCancel, Prepare, Drain, CancelTurn, Cancelled, Store, SendFrame,
                  CancelSent, Release, Acquire
    <2>2. t # p
      BY <1>1
    <2> QED BY <1>1, <2>1, <2>2 DEF Past
  <1>4. ASSUME NEW t \in Prompt, SendPrompt(t) PROVE Past(p)'
    <2>1. t # p /\ pc' = [pc EXCEPT ![t] = "start"]
      BY <1>1, <1>4 DEF SendPrompt, Acquire
    <2> QED BY <1>1, <2>1 DEF Past
  <1>5. ASSUME Deliver \/ Answer PROVE Past(p)'
    <2>1. \E t, at : at \notin {"idle", "start"} /\ pc' = [pc EXCEPT ![t] = at]
      BY <1>5 DEF Deliver, Answer, Acquire
    <2> QED BY <1>1, <2>1 DEF Past
  <1>6. ASSUME Runtime \/ UNCHANGED vars PROVE Past(p)'
    BY <1>6, <1>1 DEF Runtime, Report, vars, Past
  <1> QED
    BY <1>2, <1>3, <1>4, <1>5, <1>6 DEF Next

\* No word comes, and who may speak now has nothing but text under way.
LEMMA ReportsKept ==
    ASSUME Reports, UNCHANGED <<box, budget>>, \A p \in Prompt : Past(p) => Past(p)',
           ms'.phase = "Awaiting" => SamePhase(ms, ms'),
           ms'.src # "none" =>
              ms'.turn # 0 /\ \A i \in DOMAIN box : box[i].turn = ms'.turn => box[i].kind = "text"
    PROVE  Reports'
  <1>1. Numbered'
    BY DEF Reports, Numbered, IsCall
  <1>2. LastWords'
    BY DEF Reports, LastWords
  <1>3. Pauses'
    BY DEF Reports, Pauses, SamePhase, IsCall
  <1> QED BY <1>1, <1>2, <1>3 DEF Reports

LEMMA SamePhaseReports ==
    ASSUME Reports, UNCHANGED <<box, budget>>, \A p \in Prompt : Past(p) => Past(p)',
           SamePhase(ms, ms') \/ Silent(ms')
    PROVE  Reports'
  BY ReportsKept DEF SamePhase, Silent, Reports, LastWords

LEMMA DrainReports ==
    ASSUME IInv, Reports, box # <<>>, ms' = HostApply(ms, Head(box)), box' = Tail(box),
           UNCHANGED <<budget, pc>>
    PROVE  Reports'
  <1>1. /\ DOMAIN box' = 1..Len(box') /\ Len(box') \in Nat /\ DOMAIN box = 1..Len(box)
        /\ \A i \in DOMAIN box' : i + 1 \in DOMAIN box /\ box'[i] = box[i + 1]
        /\ 1 \in DOMAIN box /\ Head(box) = box[1] /\ ms' = HostApply(ms, box[1])
    BY TailIsSeq, ElementsOf DEF IInv, Types, Shapes
  <1>2. \A i, j \in DOMAIN box' : i \in Nat /\ (i < j => i + 1 < j + 1) /\ (i + 1 = j + 1 => i = j) /\ 1 < i + 1
    BY <1>1
  <1>3. Numbered'
    BY <1>1, <1>2 DEF Reports, Numbered, IsCall
  <1>4. /\ \A i, j \in DOMAIN box' : i < j /\ box'[i].turn = box'[j].turn => box'[i].kind = "text"
        /\ \A i \in DOMAIN box' : box'[i].turn \in Prompt /\ Past(box[i].turn)'
        /\ \A i \in DOMAIN box' : box'[i].turn = box[1].turn => box[1].kind = "text"
    BY <1>1, <1>2 DEF Reports, LastWords, Past
  <1>5. \A i \in DOMAIN box' : IsCall(i)' /\ IsCall(1) => box'[i].call # box[1].call
    BY <1>1, <1>2 DEF Reports, Numbered, IsCall
  <1> DEFINE word == box[1]
  <1>8. word.kind \in Kinds /\ IsHost(ms) /\ ms' = HostApply(ms, word)
    BY <1>1 DEF IInv, Types, Shapes
  <1> HIDE DEF word
  <1>9. word.turn = ms.turn =>
          /\ word.kind = "text" => SamePhase(ms, ms')
          /\ word.kind = "call" => /\ ms'.turn = ms.turn /\ ms'.phase = "Awaiting"
                                   /\ ms'.call = word.call /\ ms'.src = ms.src
          /\ word.kind = "result" => ms'.turn = ms.turn /\ ms'.phase = "Generating"
          /\ word.kind \in {"done", "fail"} => Silent(ms')
    BY <1>8, HostApplySays
  <1> USE DEF word
  <1>6. CASE box[1].turn # ms.turn \/ box[1].kind = "text"
    <2>1. SamePhase(ms, ms')
      <3>1. CASE box[1].turn # ms.turn
        BY <1>1, <3>1 DEF HostApply, SamePhase
      <3>2. CASE box[1].turn = ms.turn /\ box[1].kind = "text"
        BY <1>9, <3>2
      <3> QED BY <1>6, <3>1, <3>2
    <2>2. LastWords'
      BY <1>1, <1>4, <2>1 DEF Reports, LastWords, SamePhase
    <2>3. Pauses'
      BY <1>1, <2>1 DEF Reports, Pauses, SamePhase, IsCall
    <2> QED BY <1>3, <2>2, <2>3 DEF Reports
  <1>7. CASE box[1].turn = ms.turn /\ box[1].kind # "text"
    <2>1. box[1].kind \in Kinds /\ IsHost(ms) /\ ms.turn # 0 /\ ms.src = "none"
      BY <1>1, <1>7, Numbers DEF IInv, Types, Shapes, Reports, LastWords
    <2>2. \A i \in DOMAIN box' : box'[i].turn # ms.turn
      BY <1>4, <1>7
    <2>3. CASE box[1].kind = "call"
      <3>1. ms'.turn = ms.turn /\ ms'.phase = "Awaiting" /\ ms'.call = box[1].call /\ ms'.src = ms.src
        BY <1>7, <1>9, <2>3
      <3>2. LastWords'
        BY <1>4, <2>1, <3>1 DEF LastWords
      <3>3. Pauses'
        BY <1>1, <1>5, <2>1, <2>2, <2>3, <3>1 DEF Reports, Numbered, Pauses, IsCall
      <3> QED BY <1>3, <3>2, <3>3 DEF Reports
    <2>4. CASE box[1].kind = "result"
      <3>1. ms'.turn = ms.turn /\ ms'.phase = "Generating"
        BY <1>7, <1>9, <2>4
      <3>2. LastWords'
        BY <1>4, <2>1, <2>2, <3>1 DEF LastWords
      <3>3. Pauses'
        BY <3>1 DEF Pauses
      <3> QED BY <1>3, <3>2, <3>3 DEF Reports
    <2>5. CASE box[1].kind \in {"done", "fail"}
      <3>1. Silent(ms')
        BY <1>7, <1>9, <2>5
      <3>2. LastWords' /\ Pauses'
        BY <1>4, <3>1 DEF LastWords, Pauses, Silent
      <3> QED BY <1>3, <3>2 DEF Reports
    <2> QED BY <1>7, <2>1, <2>3, <2>4, <2>5 DEF Kinds
  <1> QED BY <1>6, <1>7

LEMMA RuntimeReports == ASSUME IInv, Reports, Runtime PROVE Reports'
  <1> SUFFICES ASSUME NEW kind \in Kinds, Report(kind) PROVE Reports'
    BY DEF Runtime, Kinds
  <1> DEFINE message == [turn |-> ms.turn, kind |-> kind, call |-> IF kind = "call" THEN budget.calls ELSE 0]
  <1>1. /\ ms.src = (IF kind = "result" THEN "tool" ELSE "stream")
        /\ kind = "call" => budget.calls > 0
        /\ box' = Append(box, message) /\ UNCHANGED pc
        /\ budget' = CASE kind = "text" -> [budget EXCEPT !.text = @ - 1]
                       [] kind = "call" -> [budget EXCEPT !.calls = @ - 1]
                       [] OTHER -> budget
        /\ ms' = IF kind = "text" THEN ms ELSE [ms EXCEPT !.src = "none"]
    BY DEF Report
  <1>2. message.turn = ms.turn /\ message.kind = kind /\ (kind = "call" => message.call = budget.calls)
    OBVIOUS
  <1> HIDE DEF message
  <1>3. /\ ms'.turn = ms.turn /\ ms'.phase = ms.phase /\ ms'.call = ms.call
        /\ IF kind = "text" THEN ms'.src = ms.src ELSE ms'.src = "none"
    BY <1>1 DEF IInv, Types, Shapes, IsHost, HostFields
  <1>4. ms.src # "none" /\ ms.turn # 0 /\ ms.phase # "Awaiting" /\ ms.turn \in Prompt /\ Past(ms.turn)
    BY <1>1 DEF Reports, LastWords, Pauses, IInv, Turn, Going
  <1>5. /\ DOMAIN box' = 1..Len(box) + 1 /\ DOMAIN box = 1..Len(box) /\ Len(box) \in Nat
        /\ (\A i \in DOMAIN box : box'[i] = box[i]) /\ box'[Len(box) + 1] = message
    BY <1>1, AppendIsSeq DEF IInv, Types, Shapes
  <1>6. \A i \in DOMAIN box' : i \in DOMAIN box \/ i = Len(box) + 1
    BY <1>5
  <1>7. /\ budget'.calls \in Nat /\ budget'.calls <= budget.calls /\ budget'.calls <= MaxCalls
        /\ kind = "call" => budget'.calls < budget.calls /\ budget.calls \in Call
    <2>1. kind = "call" => budget'.calls = budget.calls - 1
      BY <1>1 DEF Reports, Numbered
    <2>2. kind # "call" => budget'.calls = budget.calls
      BY <1>1 DEF Reports, Numbered
    <2> QED BY <1>1, <2>1, <2>2, PromptTurnAssumption DEF Reports, Numbered, Call
  <1>8. Numbered'
    <2>1. ASSUME NEW i \in DOMAIN box', IsCall(i)' PROVE box'[i].call \in Call /\ box'[i].call > budget'.calls
      <3>1. CASE i \in DOMAIN box
        BY <1>5, <1>7, <2>1, <3>1, PromptTurnAssumption DEF Reports, Numbered, IsCall, Call
      <3>2. CASE i = Len(box) + 1
        BY <1>2, <1>5, <1>7, <2>1, <3>2 DEF Reports, Numbered, IsCall
      <3> QED BY <1>6, <3>1, <3>2
    <2>2. ASSUME NEW i \in DOMAIN box', NEW j \in DOMAIN box', IsCall(i)', IsCall(j)',
                 box'[i].call = box'[j].call
          PROVE  i = j
      <3>1. CASE i \in DOMAIN box /\ j \in DOMAIN box
        BY <1>5, <2>2, <3>1 DEF Reports, Numbered, IsCall
      <3>2. ASSUME NEW x \in DOMAIN box, IsCall(x)', kind = "call" PROVE box'[x].call # message.call
        BY <1>2, <1>5, <3>2, PromptTurnAssumption DEF Reports, Numbered, IsCall, Call
      <3> QED BY <1>2, <1>5, <1>6, <2>2, <3>1, <3>2 DEF IsCall
    <2>3. budget' = [text |-> budget'.text, calls |-> budget'.calls]
      BY <1>1 DEF Reports, Numbered
    <2> QED BY <1>7, <2>1, <2>2, <2>3 DEF Numbered
  <1>9. LastWords'
    <2>1. \A i \in DOMAIN box : box[i].turn = ms.turn => box[i].kind = "text"
      BY <1>4 DEF Reports, LastWords
    <2>2. \A i, j \in DOMAIN box' : i < j /\ box'[i].turn = box'[j].turn => box'[i].kind = "text"
      <3> SUFFICES ASSUME NEW i \in DOMAIN box', NEW j \in DOMAIN box', i < j,
                          box'[i].turn = box'[j].turn
                   PROVE  box'[i].kind = "text"
        OBVIOUS
      <3>1. i \in DOMAIN box /\ box'[i] = box[i]
        BY <1>5, <1>6
      <3>2. CASE j \in DOMAIN box
        BY <1>5, <3>1, <3>2 DEF Reports, LastWords
      <3>3. CASE j = Len(box) + 1
        BY <1>2, <1>5, <2>1, <3>1, <3>3
      <3> QED BY <1>6, <3>2, <3>3
    <2>3. \A i \in DOMAIN box' : box'[i].turn \in Prompt /\ Past(box[i].turn)'
      BY <1>1, <1>2, <1>4, <1>5, <1>6 DEF Reports, LastWords, Past
    <2>4. ms'.src # "none" => \A i \in DOMAIN box' : box'[i].turn = ms'.turn => box'[i].kind = "text"
      BY <1>2, <1>3, <1>5, <1>6, <2>1
    <2> QED BY <1>3, <1>4, <2>2, <2>3, <2>4 DEF LastWords
  <1>10. Pauses'
    BY <1>3, <1>4 DEF Pauses
  <1> QED BY <1>8, <1>9, <1>10 DEF Reports

\* What a step does to the phase of the turn.
LEMMA PhaseSteps ==
    ASSUME IInv, [Next]_vars
    PROVE  \/ (\E t \in Task : Drain(t)) \/ Runtime
           \/ /\ UNCHANGED <<box, budget>>
              /\ \/ SamePhase(ms, ms') \/ Silent(ms')
                 \/ \E p \in Prompt : Start(p) /\ ms.turn = 0 /\ ms' = StartTurn(ms, p)
                 \/ \E p \in Prompt, answer \in {"Allow", "Deny", "Cancelled"} :
                        ApplyAnswer(p) /\ ms' = Reply(ms, answer)
  <1>1. IsHost(ms)
    BY DEF IInv, Types, Shapes
  <1>2. SamePhase(ms, ms) /\ SamePhase(ms, Polled(ms)) /\ SamePhase(ms, Seed(ms)) /\ IsHost(Polled(ms))
    BY <1>1, PolledSays, PolledFields, SeedSays DEF SamePhase
  <1>3. \A m, stop : IsHost(m) => Silent(EndTurn(m, stop))
    BY EndTurnSays
  <1>4. \A b : SamePhase(ms, [ms EXCEPT !.buffered = b])
    BY <1>1 DEF IsHost, HostFields, SamePhase
  <1> HIDE DEF SamePhase, Silent
  <1>5. ASSUME NEW p \in Prompt, PromptStep(p), ~Drain(p)
        PROVE  /\ UNCHANGED <<box, budget>>
               /\ \/ SamePhase(ms, ms') \/ Silent(ms')
                  \/ Start(p) /\ ms.turn = 0 /\ ms' = StartTurn(ms, p)
                  \/ \E answer \in {"Allow", "Deny", "Cancelled"} : ApplyAnswer(p) /\ ms' = Reply(ms, answer)
    <2>1. CASE Start(p)
      BY <1>2, <2>1 DEF Start
    <2>2. CASE Project(p)
      BY <1>2, <2>2 DEF Project
    <2>3. CASE SendFrame(p) \/ TakeResult(p) \/ FramesSent(p) \/ Wake(p)
      BY <1>2, <2>3 DEF SendFrame, TakeResult, FramesSent, Wake
    <2>4. CASE Loop(p) \/ PollTurn(p)
      BY <1>2, <1>4, <2>4 DEF Loop, PollTurn, TakesBuffered, FindsTurnOver
    <2>5. CASE ApplyAnswer(p)
      <3> DEFINE answer == ask[p].answer
      <3>1. /\ UNCHANGED <<box, budget>>
            /\ \/ ms' = ms \/ ms' = EndTurn(ms, "Cancelled")
               \/ answer # "Cancelled" /\ ms' = Reply(ms, answer)
        BY <2>5 DEF ApplyAnswer
      <3>2. ms' = Reply(ms, answer) => \E a \in {"Allow", "Deny", "Cancelled"} : ms' = Reply(ms, a)
        BY DEF Reply
      <3> QED BY <1>1, <1>2, <1>3, <2>5, <3>1, <3>2
    <2> QED BY <1>5, <2>1, <2>2, <2>3, <2>4, <2>5 DEF PromptStep
  <1>6. ASSUME NEW c \in Cancel, SendCancel(c) \/ CancelStep(c), ~Drain(c)
        PROVE  UNCHANGED <<box, budget>> /\ (SamePhase(ms, ms') \/ Silent(ms'))
    <2>1. CASE SendCancel(c) \/ SendFrame(c) \/ CancelSent(c)
      BY <1>2, <2>1 DEF SendCancel, SendFrame, CancelSent
    <2>2. CASE Prepare(c)
      BY <1>2, <2>2 DEF Prepare
    <2>3. CASE CancelTurn(c)
      BY <1>2, <1>3, <2>3 DEF CancelTurn
    <2>4. CASE Cancelled(c) \/ Store(c)
      BY <1>2, <1>4, <2>4 DEF Cancelled, Store
    <2> QED BY <1>6, <2>1, <2>2, <2>3, <2>4 DEF CancelStep
  <1>7. ASSUME NEW p \in Prompt, SendPrompt(p) PROVE UNCHANGED <<ms, box, budget>>
    BY <1>7 DEF SendPrompt
  <1>8. ASSUME Deliver \/ Answer \/ UNCHANGED vars PROVE UNCHANGED <<ms, box, budget>>
    BY <1>8 DEF Deliver, Answer, vars
  <1>9. UNCHANGED ms => SamePhase(ms, ms')
    BY <1>2
  <1> QED
    BY <1>5, <1>6, <1>7, <1>8, <1>9, Numbers DEF Next

LEMMA NextReports == ASSUME IInv, Reports, [Next]_vars PROVE Reports'
  <1>1. \A p \in Prompt : Past(p) => Past(p)'
    BY PastGrows
  <1>2. CASE \E t \in Task : Drain(t)
    BY <1>2, DrainReports DEF Drain
  <1>3. CASE Runtime
    BY <1>3, RuntimeReports
  <1>4. CASE UNCHANGED <<box, budget>> /\ (SamePhase(ms, ms') \/ Silent(ms'))
    BY <1>1, <1>4, SamePhaseReports
  <1>5. ASSUME NEW p \in Prompt, Start(p), ms' = StartTurn(ms, p), UNCHANGED <<box, budget>> PROVE Reports'
    <2>1. ms'.turn = p /\ ms'.phase = "Generating" /\ p # 0
      BY <1>5, StartTurnSays, Numbers DEF IInv, Types, Shapes
    <2>2. ~Past(p)
      BY <1>5 DEF Start, Past
    <2>3. \A i \in DOMAIN box : box[i].turn # p
      BY <2>2 DEF Reports, LastWords
    <2> QED BY <1>1, <1>5, <2>1, <2>3, ReportsKept
  <1>6. ASSUME NEW answer, ms' = Reply(ms, answer), UNCHANGED <<box, budget>> PROVE Reports'
    <2>1. CASE ms.phase # "Awaiting"
      <3>1. ms' = ms
        BY <1>6, <2>1, ReplySays DEF IInv, Types, Shapes
      <3> QED BY <1>1, <1>6, <3>1, SamePhaseReports DEF SamePhase
    <2>2. CASE ms.phase = "Awaiting"
      <3>1. ms'.turn = ms.turn /\ ms'.phase \in {"RunningTool", "Generating"}
        BY <1>6, <2>2, ReplySays DEF IInv, Types, Shapes
      <3>2. ms.turn # 0 /\ \A i \in DOMAIN box : box[i].turn # ms.turn
        BY <2>2 DEF Reports, Pauses
      <3> QED BY <1>1, <1>6, <3>1, <3>2, ReportsKept
    <2> QED BY <2>1, <2>2
  <1> QED
    BY <1>2, <1>3, <1>4, <1>5, <1>6, PhaseSteps

-----------------------------------------------------------------------------
(* What is asked of the client.                                            *)

Asking(f, k) == f.kind = "permission" /\ f.call = k
AskedIn(s, k) == \E i \in DOMAIN s : Asking(s[i], k)
AsksNothing(s) == \A i \in DOMAIN s : s[i].kind # "permission"
AsksOnce(s) == \A i, j \in DOMAIN s : s[i].kind = "permission" /\ s[j].kind = "permission" => i = j

LEMMA LeastOf ==
    ASSUME NEW S, S \subseteq Nat, S # {}
    PROVE  \E x \in S : \A y \in S : ~(y < x)
  <1> DEFINE less == OpToRel(<, Nat)
  <1>1. \A y, x \in Nat : <<y, x>> \in less <=> y < x
    BY DEF OpToRel
  <1>2. IsWellFoundedOn(less, Nat)
    BY NatLessThanWellFounded
  <1> HIDE DEF less
  <1>3. PICK x \in S : \A y \in S : ~(<<y, x>> \in less)
    BY <1>2, WFMin
  <1>4. \A y \in S : ~(y < x)
    BY <1>1, <1>3, Zenon
  <1> QED
    BY <1>3, <1>4

\* the recursion of Leading over the first n frames of s
Kept(s, n, f) ==
    f = [k \in 0..n |-> IF k = 0 THEN <<>>
                        ELSE IF s[k].kind = "result" THEN f[k - 1]
                        ELSE Append(f[k - 1], s[k])]

LEMMA KeptExists == ASSUME NEW s, NEW n \in Nat PROVE \E f : Kept(s, n, f)
  <1> DEFINE Bad == {m \in Nat : ~\E f : Kept(s, m, f)}
  <1> SUFFICES ASSUME Bad # {} PROVE FALSE
    OBVIOUS
  <1>1. PICK m \in Bad : \A y \in Bad : ~(y < m)
    BY LeastOf
  <1>2. CASE m = 0
    <2> DEFINE f == [k \in 0..0 |-> <<>>]
    <2>1. Kept(s, 0, f)
      BY DEF Kept
    <2> QED BY <1>1, <1>2, <2>1
  <1>3. CASE m # 0
    <2>1. m \in Nat /\ m - 1 \in Nat /\ m - 1 < m
      BY <1>1, <1>3
    <2>2. m - 1 \notin Bad
      BY <1>1, <2>1
    <2>3. PICK f : Kept(s, m - 1, f)
      BY <2>1, <2>2
    <2> HIDE DEF Bad
    <2> DEFINE top == IF s[m].kind = "result" THEN f[m - 1] ELSE Append(f[m - 1], s[m])
               g == [k \in 0..m |-> IF k = m THEN top ELSE f[k]]
               body(k) == IF k = 0 THEN <<>>
                          ELSE IF s[k].kind = "result" THEN g[k - 1] ELSE Append(g[k - 1], s[k])
    <2>4. \A k \in 0..m - 1 : f[k] = IF k = 0 THEN <<>>
                                     ELSE IF s[k].kind = "result" THEN f[k - 1] ELSE Append(f[k - 1], s[k])
      BY <2>3 DEF Kept
    <2>5. ASSUME NEW k \in 0..m PROVE g[k] = body(k)
      <3>1. CASE k = m
        <4>1. g[k] = top /\ k - 1 \in 0..m /\ k - 1 # m /\ g[k - 1] = f[m - 1]
          BY <2>1, <3>1
        <4> QED BY <1>3, <3>1, <4>1
      <3>2. CASE k # m /\ k # 0
        <4>1. k \in 0..m - 1 /\ k - 1 \in 0..m /\ k - 1 # m
          BY <2>1, <3>2
        <4>2. g[k] = f[k] /\ g[k - 1] = f[k - 1]
          BY <3>2, <4>1
        <4> QED BY <2>4, <3>2, <4>1, <4>2
      <3>3. CASE k # m /\ k = 0
        BY <2>1, <2>4, <3>3
      <3> QED BY <3>1, <3>2, <3>3
    <2>6. g = [k \in 0..m |-> g[k]]
      OBVIOUS
    <2> HIDE DEF g
    <2>7. g = [k \in 0..m |-> body(k)]
      BY <2>5, <2>6
    <2>8. Kept(s, m, g)
      BY <2>7 DEF Kept
    <2> QED BY <1>1, <2>8 DEF Bad
  <1> QED BY <1>2, <1>3

\* The leading frames are frames of the poll, none of them twice.
LEMMA LeadingFrames ==
    ASSUME NEW s, IsSeq(s)
    PROVE  /\ IsSeq(Leading(s))
           /\ \A k : AskedIn(Leading(s), k) => AskedIn(s, k)
           /\ AsksOnce(s) => AsksOnce(Leading(s))
           /\ \A i \in DOMAIN Leading(s) : Leading(s)[i].kind # "result"
  <1> DEFINE n == Len(s)
             S == ToSet(s)
             f == CHOOSE f : Kept(s, n, f)
  <1>1. n \in Nat /\ DOMAIN s = 1..n /\ \A i \in 1..n : s[i] \in S
    BY ElementsOf
  <1>2. Kept(s, n, f)
    BY <1>1, KeptExists
  <1>3. Leading(s) = f[n]
    BY DEF Leading, Kept
  <1> HIDE DEF f, S
  <1>4. \A k \in 0..n : f[k] = IF k = 0 THEN <<>>
                               ELSE IF s[k].kind = "result" THEN f[k - 1] ELSE Append(f[k - 1], s[k])
    BY <1>2 DEF Kept
  <1> DEFINE From(k) == \A i \in DOMAIN f[k] : f[k][i].kind # "result" /\ \E j \in 1..k : f[k][i] = s[j]
             Good(k) == f[k] \in Seq(S) /\ From(k) /\ (AsksOnce(s) => AsksOnce(f[k]))
             Bad == {k \in 0..n : ~Good(k)}
  <1>5. Good(0)
    <2>1. f[0] = <<>>
      BY <1>1, <1>4
    <2> QED BY <2>1 DEF AsksOnce
  <1>6. ASSUME NEW k \in 1..n, Good(k - 1) PROVE Good(k)
    <2>1. k \in 0..n /\ k # 0 /\ k - 1 \in 0..n /\ k \in Nat
      BY <1>1
    <2>2. CASE s[k].kind = "result"
      <3>1. f[k] = f[k - 1]
        BY <1>4, <2>1, <2>2
      <3>2. \A j \in 1..k - 1 : j \in 1..k
        BY <2>1
      <3>3. From(k)
        BY <1>6, <3>1, <3>2
      <3> QED BY <1>6, <3>1, <3>3
    <2>3. CASE s[k].kind # "result"
      <3> DEFINE old == f[k - 1]
                 new == f[k]
      <3>1. new = Append(old, s[k])
        BY <1>4, <2>1, <2>3
      <3>2. old \in Seq(S) /\ s[k] \in S
        BY <1>1, <1>6
      <3>3. \A i \in DOMAIN old : old[i].kind # "result" /\ \E j \in 1..k - 1 : old[i] = s[j]
        BY <1>6
      <3>4. AsksOnce(s) => AsksOnce(old)
        BY <1>6
      <3> HIDE DEF old, new
      <3>5. /\ new \in Seq(S) /\ DOMAIN old = 1..Len(old) /\ Len(old) \in Nat
            /\ DOMAIN new = 1..Len(old) + 1
            /\ (\A i \in DOMAIN old : new[i] = old[i]) /\ new[Len(old) + 1] = s[k]
        BY <3>1, <3>2
      <3>6. \A i \in DOMAIN new : i \in DOMAIN old \/ i = Len(old) + 1
        BY <3>5
      <3>7. \A j \in 1..k - 1 : j \in 1..k /\ j \in 1..n /\ j # k
        BY <1>1, <2>1
      <3>8. \A i \in DOMAIN new : new[i].kind # "result" /\ \E j \in 1..k : new[i] = s[j]
        BY <2>1, <2>3, <3>3, <3>5, <3>6, <3>7
      <3>9. ASSUME AsksOnce(s) PROVE AsksOnce(new)
        <4>1. s[k].kind = "permission" => AsksNothing(old)
          BY <1>1, <3>3, <3>7, <3>9 DEF AsksOnce, AsksNothing
        <4> QED BY <3>4, <3>5, <3>6, <3>9, <4>1 DEF AsksOnce, AsksNothing
      <3> QED BY <3>5, <3>8, <3>9 DEF new
    <2> QED BY <2>2, <2>3
  <1>7. Bad = {}
    <2> SUFFICES ASSUME Bad # {} PROVE FALSE
      OBVIOUS
    <2>1. Bad \subseteq Nat
      BY <1>1
    <2>2. PICK k \in Bad : \A y \in Bad : ~(y < k)
      BY <2>1, LeastOf
    <2>3. k \in 0..n /\ k # 0 /\ ~Good(k)
      BY <1>5, <2>2
    <2> HIDE DEF Good
    <2>4. k \in 1..n /\ k - 1 \in 0..n /\ k - 1 < k
      BY <1>1, <2>3
    <2>5. Good(k - 1)
      BY <2>2, <2>4
    <2> QED BY <1>6, <2>3, <2>4, <2>5
  <1>8. Good(n)
    <2>1. n \in 0..n
      BY <1>1
    <2>2. n \notin Bad
      BY <1>7
    <2> HIDE DEF Good
    <2> QED BY <2>1, <2>2
  <1>9. IsSeq(f[n])
    BY <1>8, SeqIsSeq
  <1> QED
    BY <1>1, <1>3, <1>8, <1>9 DEF AskedIn

\* A poll asks about the call that awaits approval, once, and never as it reports the end.
LEMMA PollAsks ==
    ASSUME NEW m, IsHost(m), m.live.turn # 0 /\ m.turn = m.live.turn => m.stop[m.turn] = "None"
    PROVE  LET s == PolledFrames(m)
           IN  /\ IsSeq(s) /\ AsksOnce(s) /\ Len(s) <= 2
               /\ Len(s) = 2 => s[1].kind = "note" /\ s[2].kind # "note"
               /\ \A k : AskedIn(s, k) => /\ m.live.turn # 0 /\ ~Ended(m)
                                          /\ m.turn = m.live.turn /\ m.phase = "Awaiting"
                                          /\ m.call = k /\ k \notin m.live.asked
               /\ m.live.turn = 0 => s = <<>>
               /\ m.live.turn # 0 =>
                    IF m.said[m.live.turn] > m.live.told
                    THEN s # <<>> /\ Head(s) = Note(m.live.turn, m.said[m.live.turn] - m.live.told)
                    ELSE s # <<>> => Head(s).kind # "note"
  <1> DEFINE says == m.said[m.live.turn] > m.live.told
             note == Note(m.live.turn, m.said[m.live.turn] - m.live.told)
             notes == IF says THEN <<note>> ELSE <<>>
             wants == m.turn = m.live.turn /\ m.phase = "Awaiting" /\ m.call \notin m.live.asked
             perm == Permission(m.call)
             asked == IF wants THEN <<perm>> ELSE <<>>
             ends == Ended(m) /\ m.pending # 0
             end == Result(m.pending, m.stop[m.live.turn])
             result1 == IF ends THEN <<end>> ELSE <<>>
             s == PolledFrames(m)
  <1>1. Unsent(m) = notes \o asked
    BY DEF Unsent
  <1>2. s = IF m.live.turn = 0 THEN <<>> ELSE Unsent(m) \o result1
    BY DEF PolledFrames
  <1>3. note.kind = "note" /\ perm.kind = "permission" /\ perm.call = m.call /\ end.kind = "result"
    BY DEF Note, Permission, Result
  <1>4. m.live.turn # 0 => ~(wants /\ Ended(m))
    BY DEF Ended
  <1> HIDE DEF note, perm, end, says, wants, ends, s
  <1>5. CASE m.live.turn = 0
    <2>1. s = <<>>
      BY <1>2, <1>5
    <2> QED BY <1>5, <2>1, ShortIsSeq DEF s, AsksOnce, AskedIn
  <1>6. CASE m.live.turn # 0 /\ wants
    <2>1. s = (notes \o <<perm>>) \o <<>>
      BY <1>1, <1>2, <1>4, <1>6 DEF ends
    <2>2. s = IF says THEN <<note, perm>> ELSE <<perm>>
      BY <2>1
    <2>3. CASE says
      <3>1. s = <<note, perm>> /\ s \in Seq({note, perm}) /\ Len(s) = 2 /\ s[1] = note /\ s[2] = perm
            /\ DOMAIN s = 1..2 /\ Head(s) = note /\ s # <<>>
        BY <2>2, <2>3
      <3>2. IsSeq(s)
        BY <3>1, SeqIsSeq
      <3>3. AsksOnce(s) /\ \A k : AskedIn(s, k) => m.call = k
        BY <1>3, <3>1 DEF AsksOnce, AskedIn, Asking
      <3> QED BY <1>3, <1>4, <1>6, <2>3, <3>1, <3>2, <3>3 DEF s, wants, says, note
    <2>4. CASE ~says
      <3>1. s = <<perm>> /\ Len(s) = 1 /\ s[1] = perm /\ DOMAIN s = 1..1 /\ Head(s) = perm /\ IsSeq(s)
        BY <2>2, <2>4, ShortIsSeq
      <3>2. AsksOnce(s) /\ \A k : AskedIn(s, k) => m.call = k
        BY <1>3, <3>1 DEF AsksOnce, AskedIn, Asking
      <3> QED BY <1>3, <1>4, <1>6, <2>4, <3>1, <3>2 DEF s, wants, says
    <2> QED BY <2>3, <2>4
  <1>7. CASE m.live.turn # 0 /\ ~wants
    <2>1. s = (notes \o <<>>) \o result1
      BY <1>1, <1>2, <1>7
    <2>2. s = IF says THEN IF ends THEN <<note, end>> ELSE <<note>>
              ELSE IF ends THEN <<end>> ELSE <<>>
      BY <2>1
    <2>3. CASE says /\ ends
      <3>1. s = <<note, end>> /\ s \in Seq({note, end}) /\ Len(s) = 2 /\ s[1] = note /\ s[2] = end
            /\ DOMAIN s = 1..2 /\ Head(s) = note /\ s # <<>>
        BY <2>2, <2>3
      <3>2. IsSeq(s)
        BY <3>1, SeqIsSeq
      <3>3. AsksOnce(s) /\ \A k : ~AskedIn(s, k)
        BY <1>3, <3>1 DEF AsksOnce, AskedIn, Asking
      <3> QED BY <1>3, <1>7, <2>3, <3>1, <3>2, <3>3 DEF s, says, note
    <2>4. CASE says /\ ~ends
      <3>1. s = <<note>> /\ Len(s) = 1 /\ s[1] = note /\ DOMAIN s = 1..1 /\ Head(s) = note /\ IsSeq(s)
            /\ s # <<>>
        BY <2>2, <2>4, ShortIsSeq
      <3>2. AsksOnce(s) /\ \A k : ~AskedIn(s, k)
        BY <1>3, <3>1 DEF AsksOnce, AskedIn, Asking
      <3> QED BY <1>3, <1>7, <2>4, <3>1, <3>2 DEF s, says, note
    <2>5. CASE ~says /\ ends
      <3>1. s = <<end>> /\ Len(s) = 1 /\ s[1] = end /\ DOMAIN s = 1..1 /\ Head(s) = end /\ IsSeq(s)
        BY <2>2, <2>5, ShortIsSeq
      <3>2. AsksOnce(s) /\ \A k : ~AskedIn(s, k)
        BY <1>3, <3>1 DEF AsksOnce, AskedIn, Asking
      <3> QED BY <1>3, <1>7, <2>5, <3>1, <3>2 DEF s, says
    <2>6. CASE ~says /\ ~ends
      <3>1. s = <<>> /\ Len(s) = 0 /\ DOMAIN s = {} /\ IsSeq(s)
        BY <2>2, <2>6, ShortIsSeq
      <3> QED BY <1>7, <2>6, <3>1 DEF s, says, AsksNothing, AsksOnce, AskedIn, Asking
    <2> QED BY <2>3, <2>4, <2>5, <2>6
  <1> QED BY <1>5, <1>6, <1>7

LEMMA TailAsks ==
    ASSUME NEW s, IsSeq(s), s # <<>>
    PROVE  /\ \A k : AskedIn(Tail(s), k) => AskedIn(s, k)
           /\ AsksOnce(s) => AsksOnce(Tail(s))
           /\ AsksOnce(s) /\ Head(s).kind = "permission" => AsksNothing(Tail(s))
           /\ \A k : Asking(Head(s), k) => AskedIn(s, k)
  <1>1. /\ IsSeq(Tail(s)) /\ Len(Tail(s)) = Len(s) - 1
        /\ \A i \in DOMAIN Tail(s) : i + 1 \in DOMAIN s /\ Tail(s)[i] = s[i + 1]
        /\ 1 \in DOMAIN s /\ Head(s) = s[1]
    BY TailIsSeq
  <1>2. DOMAIN Tail(s) = 1..Len(Tail(s)) /\ Len(Tail(s)) \in Nat
    BY <1>1, ElementsOf
  <1>3. \A i, j \in DOMAIN Tail(s) : (i + 1 = j + 1 => i = j) /\ i + 1 # 1
    BY <1>2
  <1> QED BY <1>1, <1>3 DEF AskedIn, AsksOnce, AsksNothing

LEMMA ConcatAsks ==
    ASSUME NEW s, IsSeq(s), NEW t, IsSeq(t)
    PROVE  /\ \A k : AskedIn(s \o t, k) => AskedIn(s, k) \/ AskedIn(t, k)
           /\ AsksOnce(s) /\ AsksNothing(t) => AsksOnce(s \o t)
           /\ AsksNothing(s) /\ AsksOnce(t) => AsksOnce(s \o t)
           /\ IsSeq(s \o t)
  <1>0. IsSeq(s \o t)
    BY ConcatIsSeq
  <1>1. DOMAIN s = 1..Len(s) /\ Len(s) \in Nat /\ DOMAIN t = 1..Len(t) /\ Len(t) \in Nat
    BY ElementsOf
  <1>2. DOMAIN (s \o t) = 1..Len(s) + Len(t)
        /\ \A i \in 1..Len(s) + Len(t) : (s \o t)[i] = IF i <= Len(s) THEN s[i] ELSE t[i - Len(s)]
    BY DEF IsSeq
  <1> DEFINE u == s \o t
  <1> HIDE DEF u
  <1>3. \A i \in DOMAIN u : \/ i \in DOMAIN s /\ u[i] = s[i]
                            \/ i \notin DOMAIN s /\ i - Len(s) \in DOMAIN t /\ u[i] = t[i - Len(s)]
    BY <1>1, <1>2 DEF u
  <1>4. \A i, j \in DOMAIN u : i - Len(s) = j - Len(s) => i = j
    BY <1>1, <1>2 DEF u
  <1>5. \A k : AskedIn(u, k) => AskedIn(s, k) \/ AskedIn(t, k)
    BY <1>3 DEF AskedIn
  <1>6. AsksOnce(s) /\ AsksNothing(t) => AsksOnce(u)
    BY <1>3 DEF AsksOnce, AsksNothing
  <1>7. AsksNothing(s) /\ AsksOnce(t) => AsksOnce(u)
    BY <1>3, <1>4 DEF AsksOnce, AsksNothing
  <1> QED BY <1>0, <1>5, <1>6, <1>7 DEF u

LEMMA NothingAsked ==
    ASSUME NEW s PROVE AsksNothing(s) => AsksOnce(s) /\ \A k : ~AskedIn(s, k)
  BY DEF AsksNothing, AsksOnce, AskedIn, Asking

LEMMA EmptyAsks == AsksNothing(<<>>) /\ \A s : s = <<>> => AsksNothing(s)
  BY DEF AsksNothing

\* A prompt's frames are a note and one thing more; a question is the last of them.
Brief(p) ==
    /\ pc[p] \notin {"send", "ack"} => todo[p] = <<>>
    /\ Len(todo[p]) <= 2
    /\ Len(todo[p]) = 2 => todo[p][1].kind = "note" /\ todo[p][2].kind # "note"
    /\ \A i \in DOMAIN out : out[i].task = p /\ out[i].frame.kind = "permission" => todo[p] = <<>>

InOut(t, k) == \E i \in DOMAIN out : out[i].task = t /\ Asking(out[i].frame, k)
HasAsked(t, k) == AskedIn(todo[t], k) \/ InOut(t, k)

\* The client was not asked about call k and nobody is about to.
Unasked(k) ==
    \/ k <= budget.calls
    \/ \E i \in DOMAIN box : IsCall(i) /\ box[i].call = k
    \/ ms.phase = "Awaiting" /\ ms.call = k /\ k \notin ms.live.asked

Once(k) ==
    /\ asks[k] \in {0, 1}
    /\ Unasked(k) => asks[k] = 0
    /\ Unasked(k) \/ asks[k] = 1 => \A t \in Task : ~HasAsked(t, k)
    /\ \A t, u \in Task : HasAsked(t, k) /\ HasAsked(u, k) => t = u

Framed ==
    /\ \A t \in Task : IsSeq(todo[t]) /\ AsksOnce(todo[t])
    /\ \A i \in DOMAIN out : out[i].frame.kind = "permission" => AsksNothing(todo[out[i].task])
    /\ \A c \in Cancel : pc[c] = "redrain" => ms.turn = 0

AskInv == DOMAIN asks = Call /\ Framed /\ (\A p \in Prompt : Brief(p)) /\ \A k \in Call : Once(k)

LEMMA InitAsk == Init => AskInv
  <1> SUFFICES ASSUME Init PROVE AskInv
    OBVIOUS
  <1>1. /\ out = <<>> /\ DOMAIN asks = Call /\ (\A k \in Call : asks[k] = 0)
        /\ (\A t \in Task : todo[t] = <<>> /\ pc[t] = "idle")
    BY DEF Init
  <1>2. \A t, k : t \in Task => ~HasAsked(t, k)
    BY <1>1, EmptyAsks, NothingAsked DEF HasAsked, InOut
  <1>3. Framed
    BY <1>1, ShortIsSeq, EmptyAsks, NothingAsked, Numbers DEF Framed
  <1>4. \A p \in Prompt : Brief(p)
    BY <1>1, Numbers DEF Brief
  <1>5. \A k \in Call : Once(k)
    BY <1>1, <1>2 DEF Once
  <1> QED BY <1>1, <1>3, <1>4, <1>5 DEF AskInv

LEMMA FrameSteps ==
    ASSUME IInv, [Next]_vars
    PROVE  \/ \E p \in Prompt : Project(p) \/ TakeResult(p)
           \/ \E t \in Task : SendFrame(t)
           \/ Deliver \/ Answer
           \/ \E c \in Cancel : CancelTurn(c) \/ Cancelled(c)
           \/ /\ UNCHANGED <<todo, out, asks>>
              /\ \A p \in Prompt : pc'[p] \in {"send", "ack"} \/ pc[p] \notin {"send", "ack"} \/ todo[p] = <<>>
  <1>1. DOMAIN pc = Task
    BY DEF IInv, Types, Shapes
  <1>2. ASSUME NEW p \in Prompt, PromptStep(p), ~Project(p), ~TakeResult(p), ~SendFrame(p)
        PROVE  /\ UNCHANGED <<todo, out, asks>>
               /\ \A q \in Prompt : pc'[q] = pc[q] \/ pc[q] \notin {"send", "ack"} \/ todo[q] = <<>>
    <2>1. CASE Start(p) \/ Loop(p) \/ Wake(p) \/ PollTurn(p) \/ ApplyAnswer(p)
      <3>1. /\ UNCHANGED <<todo, out, asks>> /\ pc[p] \notin {"send", "ack"}
            /\ \E at : pc' = [pc EXCEPT ![p] = at]
        BY <2>1 DEF Start, Loop, Wake, PollTurn, ApplyAnswer, TakesBuffered, FindsTurnOver, Release
      <3> QED BY <1>1, <3>1, Numbers
    <2>2. CASE Drain(p)
      BY <2>2 DEF Drain
    <2>3. CASE FramesSent(p)
      <3>1. /\ UNCHANGED <<todo, out, asks>> /\ todo[p] = <<>>
            /\ \E at : pc' = [pc EXCEPT ![p] = at]
        BY <2>3 DEF FramesSent, Acquire
      <3> QED BY <1>1, <3>1, Numbers
    <2> QED BY <1>2, <2>1, <2>2, <2>3 DEF PromptStep
  <1>3. ASSUME NEW c \in Cancel, SendCancel(c) \/ CancelStep(c), ~SendFrame(c), ~CancelTurn(c), ~Cancelled(c)
        PROVE  UNCHANGED <<todo, out, asks>> /\ \A q \in Prompt : pc'[q] = pc[q]
    <2>1. UNCHANGED <<todo, out, asks>> /\ (pc' = pc \/ \E at : pc' = [pc EXCEPT ![c] = at])
      BY <1>3 DEF CancelStep, SendCancel, Prepare, Drain, Store, CancelSent, Release, Acquire
    <2> QED BY <1>1, <2>1, Numbers
  <1>4. ASSUME NEW p \in Prompt, SendPrompt(p)
        PROVE  /\ UNCHANGED <<todo, out, asks>>
               /\ \A q \in Prompt : pc'[q] = pc[q] \/ pc[q] \notin {"send", "ack"}
    <2>1. UNCHANGED <<todo, out, asks>> /\ pc[p] = "idle" /\ pc' = [pc EXCEPT ![p] = "start"]
      BY <1>4 DEF SendPrompt, Acquire
    <2> QED BY <1>1, <2>1, Numbers
  <1>5. ASSUME Runtime \/ UNCHANGED vars PROVE UNCHANGED <<todo, out, asks, pc>>
    BY <1>5 DEF Runtime, Report, vars
  <1> QED
    BY <1>2, <1>3, <1>4, <1>5, Numbers DEF Next

\* While a call awaits approval, a poll only adds it to what was asked.
LEMMA AwaitingPolled ==
    ASSUME IInv, Reports, ms.phase = "Awaiting"
    PROVE  /\ Polled(ms).live.asked = ms.live.asked \cup {ms.call}
           /\ ms.live.turn = ms.turn /\ ms.turn # 0 /\ ~Ended(ms)
  <1>1. ms.turn # 0 /\ ms.live.turn = ms.turn /\ ms.stop[ms.turn] = "None"
    BY DEF IInv, Turn, Reports, Pauses
  <1>2. ms.live.turn # 0 /\ ~Ended(ms)
    BY <1>1 DEF Ended
  <1>3. IsHost(ms)
    BY DEF IInv, Types, Shapes
  <1> QED BY <1>1, <1>2, <1>3, PolledSays

LEMMA AskedGrows ==
    ASSUME IInv, Reports, [Next]_vars, ms.phase = "Awaiting", ms'.phase = "Awaiting"
    PROVE  ms.live.asked \subseteq ms'.live.asked
  <1>1. ms.turn # 0 /\ ms.live.turn # 0
    BY AwaitingPolled
  <1>2. IsHost(ms) /\ IsHost(Polled(ms))
    BY PolledFields DEF IInv, Types, Shapes
  <1>3. /\ ms.live.asked \subseteq Polled(ms).live.asked
        /\ \A stop : EndTurn(Polled(ms), stop).live = Polled(ms).live
        /\ \A stop : EndTurn(ms, stop).live = ms.live
        /\ \A answer : Reply(ms, answer).live = ms.live
        /\ \A b : [ms EXCEPT !.buffered = b].live = ms.live
        /\ [ms EXCEPT !.src = "none"].live = ms.live
    <2>1. \A m, stop : IsHost(m) => EndTurn(m, stop).live = m.live
      BY EndTurnFields DEF SameRest
    <2>2. \A answer : Reply(ms, answer).live = ms.live
      BY <1>2, ReplyFields DEF SameRest
    <2>3. (\A b : [ms EXCEPT !.buffered = b].live = ms.live) /\ [ms EXCEPT !.src = "none"].live = ms.live
      BY <1>2 DEF IsHost, HostFields
    <2>4. ms.live.asked \subseteq Polled(ms).live.asked
      BY AwaitingPolled
    <2> QED BY <1>2, <2>1, <2>2, <2>3, <2>4
  <1>4. ASSUME NEW t \in Task, Drain(t) PROVE ms'.live = ms.live
    <2>1. 1 \in DOMAIN box /\ Head(box) = box[1] /\ box[1].kind \in Kinds /\ ms' = HostApply(ms, Head(box))
      BY <1>4, TailIsSeq DEF Drain, IInv, Types, Shapes
    <2> QED BY <1>2, <2>1, HostApplyFields DEF SameRest
  <1>5. ASSUME NEW p \in Prompt, PromptStep(p), ~Drain(p) PROVE ms.live.asked \subseteq ms'.live.asked
    <2>1. CASE Start(p)
      BY <1>1, <2>1 DEF Start
    <2>2. CASE Project(p)
      BY <1>3, <2>2 DEF Project
    <2>3. CASE SendFrame(p) \/ TakeResult(p) \/ FramesSent(p) \/ Wake(p)
      BY <2>3 DEF SendFrame, TakeResult, FramesSent, Wake
    <2>4. CASE Loop(p) \/ PollTurn(p)
      <3>1. TakesBuffered(p) \/ ms' = ms
        BY <2>4 DEF Loop, PollTurn, FindsTurnOver
      <3>2. CASE TakesBuffered(p)
        BY <1>3, <3>2 DEF TakesBuffered
      <3> QED BY <3>1, <3>2
    <2>5. CASE ApplyAnswer(p)
      BY <1>3, <2>5 DEF ApplyAnswer
    <2> QED BY <1>5, <2>1, <2>2, <2>3, <2>4, <2>5 DEF PromptStep
  <1>6. ASSUME NEW c \in Cancel, SendCancel(c) \/ CancelStep(c), ~Drain(c)
        PROVE  ms.live.asked \subseteq ms'.live.asked
    <2>1. CASE SendCancel(c) \/ SendFrame(c) \/ CancelSent(c)
      BY <2>1 DEF SendCancel, SendFrame, CancelSent
    <2>2. CASE Prepare(c)
      BY <1>1, <2>2 DEF Prepare
    <2>3. CASE CancelTurn(c)
      BY <1>3, <2>3 DEF CancelTurn
    <2>4. CASE Cancelled(c) \/ Store(c)
      BY <1>3, <2>4 DEF Cancelled, Store
    <2> QED BY <1>6, <2>1, <2>2, <2>3, <2>4 DEF CancelStep
  <1>7. ASSUME Runtime PROVE ms'.live = ms.live
    BY <1>3, <1>7 DEF Runtime, Report
  <1>8. ASSUME \/ \E p \in Prompt : SendPrompt(p)
               \/ Deliver \/ Answer \/ UNCHANGED vars
        PROVE  ms' = ms
    BY <1>8 DEF SendPrompt, Deliver, Answer, vars
  <1> QED
    BY <1>4, <1>5, <1>6, <1>7, <1>8, Numbers DEF Next

\* A call that may still be asked about was there to be asked about before.
LEMMA UnaskedShrinks ==
    ASSUME IInv, Reports, [Next]_vars, NEW k \in Call, Unasked(k)' PROVE Unasked(k)
  <1>1. ASSUME UNCHANGED <<box, budget>>, ms'.phase = "Awaiting" => SamePhase(ms, ms') PROVE Unasked(k)
    BY <1>1, AskedGrows DEF Unasked, IsCall, SamePhase
  <1>2. ASSUME NEW t \in Task, Drain(t) PROVE Unasked(k)
    <2>1. /\ box # <<>> /\ ms' = HostApply(ms, Head(box)) /\ box' = Tail(box) /\ budget' = budget
      BY <1>2 DEF Drain
    <2>2. /\ 1 \in DOMAIN box /\ Head(box) = box[1] /\ box[1].kind \in Kinds /\ IsHost(ms)
          /\ \A i \in DOMAIN box' : i + 1 \in DOMAIN box /\ box'[i] = box[i + 1]
      BY <2>1, TailIsSeq DEF IInv, Types, Shapes
    <2> DEFINE word == box[1]
    <2>3. word.kind \in Kinds /\ ms' = HostApply(ms, word)
      BY <2>1, <2>2
    <2> HIDE DEF word
    <2>4. /\ word.turn = ms.turn =>
               /\ word.kind = "text" => SamePhase(ms, ms')
               /\ word.kind = "call" => ms'.phase = "Awaiting" /\ ms'.call = word.call
               /\ word.kind = "result" => ms'.phase = "Generating"
               /\ word.kind \in {"done", "fail"} => Silent(ms')
          /\ word.turn # ms.turn => ms' = ms
      <3>1. word.turn # ms.turn => ms' = ms
        BY <2>3 DEF HostApply
      <3> QED BY <2>2, <2>3, <3>1, HostApplySays
    <2>5. \/ ms'.phase = "Awaiting" => SamePhase(ms, ms')
          \/ word.kind = "call" /\ ms'.call = word.call
      BY <2>3, <2>4 DEF Kinds, SamePhase, Silent
    <2>6. CASE word.kind = "call" /\ ms'.call = word.call
      BY <2>1, <2>2, <2>6 DEF Unasked, IsCall, word
    <2>7. CASE ms'.phase = "Awaiting" => SamePhase(ms, ms')
      BY <2>1, <2>2, <2>7, AskedGrows DEF Unasked, IsCall, SamePhase
    <2> QED BY <2>5, <2>6, <2>7
  <1>3. ASSUME Runtime PROVE Unasked(k)
    <2>1. PICK kind \in Kinds : Report(kind)
      BY <1>3 DEF Runtime, Kinds
    <2> DEFINE message == [turn |-> ms.turn, kind |-> kind, call |-> IF kind = "call" THEN budget.calls ELSE 0]
    <2>2. /\ ms.src = (IF kind = "result" THEN "tool" ELSE "stream")
          /\ box' = Append(box, message)
          /\ budget' = CASE kind = "text" -> [budget EXCEPT !.text = @ - 1]
                         [] kind = "call" -> [budget EXCEPT !.calls = @ - 1]
                         [] OTHER -> budget
          /\ ms' = IF kind = "text" THEN ms ELSE [ms EXCEPT !.src = "none"]
      BY <2>1 DEF Report
    <2>3. message.kind = kind /\ (kind = "call" => message.call = budget.calls)
      OBVIOUS
    <2> HIDE DEF message
    <2>4. ms'.phase = ms.phase /\ ms.phase # "Awaiting"
      <3>1. ms'.phase = ms.phase
        BY <2>2 DEF IInv, Types, Shapes, IsHost, HostFields
      <3>2. ms.src # "none"
        BY <2>2
      <3> QED BY <3>1, <3>2 DEF Reports, Pauses
    <2>5. \A i \in DOMAIN box' : (i \in DOMAIN box /\ box'[i] = box[i]) \/ box'[i] = message
      <3>1. /\ DOMAIN box' = 1..Len(box) + 1 /\ DOMAIN box = 1..Len(box) /\ Len(box) \in Nat
            /\ (\A i \in DOMAIN box : box'[i] = box[i]) /\ box'[Len(box) + 1] = message
        BY <2>2, AppendIsSeq DEF IInv, Types, Shapes
      <3> QED BY <3>1
    <2>6. budget'.calls <= budget.calls /\ budget.calls \in Nat /\ budget'.calls \in Int /\ k \in Nat
      <3>1. kind = "call" => budget'.calls = budget.calls - 1
        BY <2>2 DEF Reports, Numbered
      <3>2. kind # "call" => budget'.calls = budget.calls
        BY <2>2 DEF Reports, Numbered
      <3> QED BY <3>1, <3>2 DEF Reports, Numbered, Call
    <2>7. k <= budget'.calls => k <= budget.calls
      BY <2>6
    <2>8. ASSUME NEW i \in DOMAIN box', IsCall(i)', box'[i].call = k PROVE Unasked(k)
      <3>1. CASE box'[i] = message
        BY <2>3, <2>6, <2>8, <3>1 DEF Unasked, IsCall
      <3>2. CASE i \in DOMAIN box /\ box'[i] = box[i]
        BY <2>8, <3>2 DEF Unasked, IsCall
      <3> QED BY <2>5, <2>8, <3>1, <3>2
    <2> QED BY <2>4, <2>7, <2>8 DEF Unasked
  <1>4. ASSUME UNCHANGED <<box, budget>>, ms'.phase # "Awaiting" PROVE Unasked(k)
    BY <1>1, <1>4
  <1>5. ASSUME NEW p \in Prompt, p # 0, ms' = StartTurn(ms, p) PROVE ms'.phase # "Awaiting"
    BY <1>5, StartTurnSays DEF IInv, Types, Shapes
  <1>6. ASSUME NEW answer, ms' = Reply(ms, answer) PROVE ms'.phase = "Awaiting" => SamePhase(ms, ms')
    BY <1>6, ReplySays DEF IInv, Types, Shapes, SamePhase
  <1>7. Silent(ms') => ms'.phase # "Awaiting"
    BY DEF Silent
  <1>8. \A p \in Prompt : p # 0
    BY Numbers
  <1> QED
    BY <1>1, <1>2, <1>3, <1>4, <1>5, <1>6, <1>7, <1>8, PhaseSteps

\* What a poll asks about is not to be asked about again.
LEMMA PollAnswers ==
    ASSUME IInv, Reports, NEW k, AskedIn(PolledFrames(ms), k)
    PROVE  /\ Unasked(k) /\ ms.turn # 0
           /\ ms.phase = "Awaiting" /\ ms.call = k
           /\ /\ UNCHANGED <<box, budget>>
              /\ ms' = Polled(ms) \/ \E stop : ms' = EndTurn(Polled(ms), stop)
              => ~Unasked(k)'
  <1>1. IsHost(ms) /\ (ms.live.turn # 0 /\ ms.turn = ms.live.turn => ms.stop[ms.turn] = "None")
    BY DEF IInv, Types, Shapes, Turn
  <1>2. ms.live.turn # 0 /\ ms.turn = ms.live.turn /\ ms.phase = "Awaiting" /\ ms.call = k /\ k \notin ms.live.asked
    BY <1>1, PollAsks
  <1>3. Unasked(k)
    BY <1>2 DEF Unasked
  <1>4. k \in Call /\ k > budget.calls /\ \A i \in DOMAIN box : IsCall(i) => box[i].call # k
    BY <1>2 DEF Reports, Pauses
  <1>5. budget.calls \in Nat /\ ~(k <= budget.calls)
    BY <1>4 DEF Reports, Numbered, Call
  <1>6. ASSUME UNCHANGED <<box, budget>>, ms' = Polled(ms) PROVE ~Unasked(k)'
    <2>1. k \in ms'.live.asked
      BY <1>2, <1>6, AwaitingPolled
    <2> QED BY <1>4, <1>5, <1>6, <2>1 DEF Unasked, IsCall
  <1>7. ASSUME UNCHANGED <<box, budget>>, NEW stop, ms' = EndTurn(Polled(ms), stop) PROVE ~Unasked(k)'
    <2>1. ms'.phase # "Awaiting"
      BY <1>1, <1>7, PolledFields, EndTurnSays DEF Silent
    <2> QED BY <1>4, <1>5, <1>7, <2>1 DEF Unasked, IsCall
  <1> QED BY <1>2, <1>3, <1>6, <1>7

\* A question is moved on, or a new one is about a call nobody asked about.
LEMMA OnceKept ==
    ASSUME \A k \in Call : Once(k), \A k \in Call : Unasked(k)' => Unasked(k), UNCHANGED asks, NEW u,
           \A t \in Task, k \in Call :
              HasAsked(t, k)' => HasAsked(t, k) \/ (t = u /\ Unasked(k) /\ ~Unasked(k)')
    PROVE  \A k \in Call : Once(k)'
  BY DEF Once

LEMMA CancelledHasNoTurn ==
    ASSUME IInv, Framed, [Next]_vars, NEW c \in Cancel, pc'[c] = "redrain"
    PROVE  ms'.turn = 0
  <1> SUFFICES ASSUME ms'.turn # 0 PROVE FALSE
    OBVIOUS
  <1>1. IsHost(ms) /\ DOMAIN pc = Task /\ c \in Task /\ c \notin Prompt
    BY Numbers DEF IInv, Types, Shapes
  <1>2. CASE pc[c] = "redrain"
    <2>1. ms.turn = 0 /\ Holds(c)
      BY <1>1, <1>2 DEF Framed, IInv, Lock
    <2>2. \/ (\E t \in Task : Drain(t)) \/ Runtime \/ SamePhase(ms, ms') \/ Silent(ms')
          \/ \E p \in Prompt : Start(p)
          \/ \E answer \in {"Allow", "Deny", "Cancelled"} : ms' = Reply(ms, answer)
      BY PhaseSteps
    <2>3. CASE \E p \in Prompt : Start(p)
      BY <1>1, <2>1, <2>3 DEF Start, Holds
    <2>4. ASSUME NEW answer, ms' = Reply(ms, answer) PROVE FALSE
      BY <1>1, <2>1, <2>4, ReplySays
    <2>5. CASE SamePhase(ms, ms') \/ Silent(ms')
      BY <2>1, <2>5 DEF SamePhase, Silent
    <2>6. CASE \E t \in Task : Drain(t)
      <3>1. 1 \in DOMAIN box /\ Head(box) = box[1] /\ box[1].kind \in Kinds /\ ms' = HostApply(ms, Head(box))
        BY <2>6, TailIsSeq DEF Drain, IInv, Types, Shapes
      <3>2. ms'.turn \in {ms.turn, 0}
        BY <1>1, <3>1, HostApplyFields DEF SameTurn, EndsWith
      <3> QED BY <2>1, <3>2
    <2>7. CASE Runtime
      <3>1. ms' = ms \/ ms' = [ms EXCEPT !.src = "none"]
        BY <2>7 DEF Runtime, Report
      <3>2. ms'.turn = ms.turn
        BY <1>1, <3>1 DEF IsHost, HostFields
      <3> QED BY <2>1, <3>2
    <2> QED BY <2>2, <2>3, <2>4, <2>5, <2>6, <2>7
  <1>3. CASE pc[c] # "redrain"
    <2>1. \A t : t # c /\ (\E at : pc' = [pc EXCEPT ![t] = at]) => FALSE
      BY <1>1, <1>3
    <2>2. \A at : pc' = [pc EXCEPT ![c] = at] => at = "redrain"
      BY <1>1
    <2>3. ASSUME NEW p \in Prompt, SendPrompt(p) \/ PromptStep(p) PROVE FALSE
      <3>1. pc' = pc \/ \E at : pc' = [pc EXCEPT ![p] = at]
        BY <2>3 DEF PromptStep, SendPrompt, Start, Drain, Project, SendFrame, TakeResult, FramesSent,
                    Loop, Wake, PollTurn, ApplyAnswer, TakesBuffered, FindsTurnOver, Release, Acquire
      <3> QED BY <1>1, <1>3, <2>1, <3>1
    <2>4. ASSUME NEW d \in Cancel, SendCancel(d) \/ CancelStep(d), ~CancelTurn(c) PROVE FALSE
      <3>1. pc' = pc \/ (d = c /\ \E at : at # "redrain" /\ pc' = [pc EXCEPT ![d] = at])
                     \/ (d # c /\ \E at : pc' = [pc EXCEPT ![d] = at])
        BY <2>4 DEF CancelStep, SendCancel, Prepare, Drain, CancelTurn, Cancelled, Store, SendFrame,
                    CancelSent, Release, Acquire
      <3> QED BY <1>1, <1>3, <2>1, <2>2, <3>1
    <2>5. ASSUME Deliver \/ Answer PROVE FALSE
      <3>1. \E t, at : at # "redrain" /\ pc' = [pc EXCEPT ![t] = at]
        BY <2>5 DEF Deliver, Answer, Acquire
      <3> QED BY <1>1, <1>3, <3>1
    <2>6. ASSUME Runtime \/ UNCHANGED vars PROVE FALSE
      BY <1>3, <2>6 DEF Runtime, Report, vars
    <2>7. CASE CancelTurn(c)
      <3>1. ms' = EndTurn(Polled(ms), "Cancelled")
        BY <2>2, <2>7 DEF CancelTurn, Release
      <3> QED BY <1>1, <3>1, PolledFields, EndTurnSays DEF Silent
    <2> QED BY <2>3, <2>4, <2>5, <2>6, <2>7 DEF Next
  <1> QED BY <1>2, <1>3

LEMMA FramesMove ==
    ASSUME IInv, Reports, AskInv, [Next]_vars, UNCHANGED asks, NEW u \in Task,
           \A t \in Task : t # u => todo'[t] = todo[t] /\ \A k : InOut(t, k)' => InOut(t, k),
           \A k \in Call : HasAsked(u, k)' => HasAsked(u, k) \/ (Unasked(k) /\ ~Unasked(k)'),
           IsSeq(todo'[u]), AsksOnce(todo'[u]),
           \A i \in DOMAIN out' : out'[i].frame.kind = "permission" => AsksNothing(todo'[out'[i].task])
    PROVE  DOMAIN asks' = Call /\ Framed' /\ \A k \in Call : Once(k)'
  <1>1. Framed'
    <2>1. \A t \in Task : IsSeq(todo'[t]) /\ AsksOnce(todo'[t])
      BY DEF AskInv, Framed
    <2>2. \A c \in Cancel : pc'[c] = "redrain" => ms'.turn = 0
      BY CancelledHasNoTurn DEF AskInv
    <2> QED BY <2>1, <2>2 DEF Framed
  <1>2. \A t \in Task, k \in Call :
            HasAsked(t, k)' => HasAsked(t, k) \/ (t = u /\ Unasked(k) /\ ~Unasked(k)')
    BY DEF HasAsked
  <1>3. \A k \in Call : Unasked(k)' => Unasked(k)
    BY UnaskedShrinks
  <1>4. \A k \in Call : Once(k)
    BY DEF AskInv
  <1> HIDE DEF HasAsked, Unasked, Once
  <1>5. \A k \in Call : Once(k)'
    BY <1>2, <1>3, <1>4, OnceKept
  <1>6. DOMAIN asks' = Call
    BY DEF AskInv
  <1> QED BY <1>1, <1>5, <1>6

\* Who has no call at the dispatcher is not asked about there.
LEMMA OutOnlyWaits ==
    ASSUME IInv, NEW t \in Task, pc[t] # "ack"
    PROVE  \A i \in DOMAIN out : out[i].task # t
  BY DEF IInv, Sent

LEMMA EmptyConcat ==
    ASSUME NEW s, IsSeq(s) PROVE s \o <<>> = s
  BY DEF IsSeq

LEMMA PollAsksHere ==
    ASSUME IInv
    PROVE  LET s == PolledFrames(ms)
           IN  /\ IsSeq(s) /\ AsksOnce(s) /\ Len(s) <= 2
               /\ Len(s) = 2 => s[1].kind = "note" /\ s[2].kind # "note"
               /\ ms.turn = 0 => AsksNothing(s)
  <1> DEFINE s == PolledFrames(ms)
  <1>1. IsHost(ms) /\ (ms.live.turn # 0 /\ ms.turn = ms.live.turn => ms.stop[ms.turn] = "None")
    BY DEF IInv, Types, Shapes, Turn
  <1>2. /\ IsSeq(s) /\ AsksOnce(s) /\ Len(s) <= 2
        /\ Len(s) = 2 => s[1].kind = "note" /\ s[2].kind # "note"
        /\ \A k : AskedIn(s, k) => ms.live.turn # 0 /\ ms.turn = ms.live.turn
    BY <1>1, PollAsks
  <1> HIDE DEF s
  <1>3. ms.turn = 0 => AsksNothing(s)
    BY <1>2 DEF AsksNothing, AskedIn, Asking
  <1> QED BY <1>2, <1>3 DEF s

LEMMA ProjectAsks ==
    ASSUME IInv, Reports, AskInv, NEW p \in Prompt, Project(p) PROVE AskInv'
  <1> DEFINE frames == PolledFrames(ms)
  <1>1. /\ pc[p] = "drain" /\ ms' = Polled(ms) /\ UNCHANGED <<box, budget, out, asks>>
        /\ todo' = [todo EXCEPT ![p] = frames \o @] /\ pc' = [pc EXCEPT ![p] = "send"]
    BY DEF Project, Release
  <1>2. [Next]_vars
    BY DEF Next, PromptStep
  <1>3. /\ IsSeq(frames) /\ AsksOnce(frames) /\ Len(frames) <= 2
        /\ Len(frames) = 2 => frames[1].kind = "note" /\ frames[2].kind # "note"
    BY PollAsksHere
  <1>4. \A k : AskedIn(frames, k) => Unasked(k) /\ ~Unasked(k)'
    BY <1>1, PollAnswers
  <1> HIDE DEF frames
  <1>5. p \in Task /\ DOMAIN pc = Task /\ DOMAIN todo = Task
    BY Numbers DEF IInv, Types, Shapes
  <1>6. todo[p] = <<>> /\ todo'[p] = frames \o todo[p] /\ \A t \in Task : t # p => todo'[t] = todo[t]
    BY <1>1, <1>5 DEF AskInv, Brief
  <1>7. todo'[p] = frames
    BY <1>3, <1>6, EmptyConcat
  <1>8. \A i \in DOMAIN out : out[i].task # p /\ out[i].task \in Task
    BY <1>1, <1>5, OutOnlyWaits DEF IInv, Sent
  <1>9. \A t, k : InOut(t, k)' => InOut(t, k)
    BY <1>1 DEF InOut
  <1>10. \A k \in Call : HasAsked(p, k)' => HasAsked(p, k) \/ (Unasked(k) /\ ~Unasked(k)')
    BY <1>4, <1>7, <1>9 DEF HasAsked
  <1>11. \A i \in DOMAIN out' : out'[i].frame.kind = "permission" => AsksNothing(todo'[out'[i].task])
    BY <1>1, <1>6, <1>8 DEF AskInv, Framed
  <1>12. DOMAIN asks' = Call /\ Framed' /\ \A k \in Call : Once(k)'
    BY <1>1, <1>2, <1>3, <1>5, <1>6, <1>7, <1>9, <1>10, <1>11, FramesMove
  <1>13. \A q \in Prompt : Brief(q)'
    BY <1>1, <1>3, <1>5, <1>6, <1>7, <1>8, Numbers DEF AskInv, Brief
  <1> QED BY <1>12, <1>13 DEF AskInv

\* The first frame of a prompt that is no note is its last.
LEMMA BriefTail ==
    ASSUME IInv, AskInv, NEW p \in Prompt, todo[p] # <<>>
    PROVE  /\ Len(Tail(todo[p])) <= 1
           /\ Head(todo[p]).kind # "note" => Tail(todo[p]) = <<>>
  <1> DEFINE s == todo[p]
  <1>1. IsSeq(s) /\ s # <<>> /\ Len(s) <= 2 /\ (Len(s) = 2 => s[1].kind = "note")
    BY Numbers DEF AskInv, Framed, Brief
  <1> HIDE DEF s
  <1>2. IsSeq(Tail(s)) /\ Len(Tail(s)) = Len(s) - 1 /\ Head(s) = s[1] /\ Len(s) \in Nat
    BY <1>1, TailIsSeq, ElementsOf
  <1>3. Head(s).kind # "note" => Len(Tail(s)) = 0 \/ Len(Tail(s)) < 0
    BY <1>1, <1>2
  <1>4. Len(Tail(s)) \in Nat /\ (Len(Tail(s)) = 0 => Tail(s) = <<>>)
    BY <1>2 DEF IsSeq
  <1> QED BY <1>1, <1>2, <1>3, <1>4 DEF s

LEMMA TakeResultAsks ==
    ASSUME IInv, Reports, AskInv, NEW p \in Prompt, TakeResult(p) PROVE AskInv'
  <1>1. /\ pc[p] = "send" /\ todo[p] # <<>> /\ Head(todo[p]).kind = "result"
        /\ UNCHANGED <<ms, box, budget, out, asks>> /\ todo' = [todo EXCEPT ![p] = Tail(@)]
        /\ pc' = pc \/ pc' = [pc EXCEPT ![p] = "done"]
    BY DEF TakeResult
  <1>2. [Next]_vars
    BY DEF Next, PromptStep
  <1>3. p \in Task /\ DOMAIN pc = Task /\ DOMAIN todo = Task
    BY Numbers DEF IInv, Types, Shapes
  <1>4. todo'[p] = <<>> /\ \A t \in Task : t # p => todo'[t] = todo[t]
    BY <1>1, <1>3, BriefTail
  <1>5. \A i \in DOMAIN out : out[i].task # p /\ out[i].task \in Task
    BY <1>1, <1>3, OutOnlyWaits DEF IInv, Sent
  <1>6. \A t, k : InOut(t, k)' => InOut(t, k)
    BY <1>1 DEF InOut
  <1>7. IsSeq(todo'[p]) /\ AsksOnce(todo'[p]) /\ \A k : ~AskedIn(todo'[p], k)
    BY <1>4, EmptyAsks, NothingAsked, ShortIsSeq
  <1>8. \A k \in Call : HasAsked(p, k)' => HasAsked(p, k)
    BY <1>6, <1>7 DEF HasAsked
  <1>9. \A i \in DOMAIN out' : out'[i].frame.kind = "permission" => AsksNothing(todo'[out'[i].task])
    BY <1>1, <1>4, <1>5 DEF AskInv, Framed
  <1>10. DOMAIN asks' = Call /\ Framed' /\ \A k \in Call : Once(k)'
    BY <1>1, <1>2, <1>3, <1>4, <1>6, <1>7, <1>8, <1>9, FramesMove
  <1>11. Len(<<>>) = 0
    OBVIOUS
  <1>12. \A q \in Prompt : q \in Task /\ (q # p => todo'[q] = todo[q] /\ pc'[q] = pc[q])
    BY <1>1, <1>3, <1>4, Numbers
  <1>13. \A q \in Prompt : Brief(q)'
    BY <1>1, <1>4, <1>11, <1>12 DEF AskInv, Brief
  <1> QED BY <1>10, <1>13 DEF AskInv

LEMMA SendFrameAsks ==
    ASSUME IInv, Reports, AskInv, NEW t \in Task, SendFrame(t) PROVE AskInv'
  <1> DEFINE call == [task |-> t, frame |-> Head(todo[t])]
  <1>1. /\ pc[t] = "send" /\ todo[t] # <<>> /\ out' = Append(out, call)
        /\ todo' = [todo EXCEPT ![t] = Tail(@)] /\ pc' = [pc EXCEPT ![t] = "ack"]
        /\ UNCHANGED <<ms, box, budget, asks>>
    BY DEF SendFrame
  <1>2. call.task = t /\ call.frame = Head(todo[t])
    OBVIOUS
  <1> HIDE DEF call
  <1>3. [Next]_vars
    BY Numbers DEF Next, PromptStep, CancelStep
  <1>4. DOMAIN pc = Task /\ DOMAIN todo = Task
    BY DEF IInv, Types, Shapes
  <1>5. todo'[t] = Tail(todo[t]) /\ \A u \in Task : u # t => todo'[u] = todo[u] /\ pc'[u] = pc[u]
    BY <1>1, <1>4
  <1>6. /\ DOMAIN out' = 1..Len(out) + 1 /\ DOMAIN out = 1..Len(out) /\ Len(out) \in Nat
        /\ (\A i \in DOMAIN out : out'[i] = out[i]) /\ out'[Len(out) + 1] = call
    BY <1>1, AppendIsSeq DEF IInv, Types, Shapes
  <1>7. \A i \in DOMAIN out' : (i \in DOMAIN out /\ out'[i] = out[i]) \/ out'[i] = call
    BY <1>6
  <1>8. \A i \in DOMAIN out : out[i].task # t /\ out[i].task \in Task
    BY <1>1, OutOnlyWaits DEF IInv, Sent
  <1>9. /\ IsSeq(todo[t]) /\ AsksOnce(todo[t])
        /\ IsSeq(Tail(todo[t])) /\ AsksOnce(Tail(todo[t]))
        /\ \A k : AskedIn(Tail(todo[t]), k) \/ Asking(call.frame, k) => AskedIn(todo[t], k)
        /\ call.frame.kind = "permission" => AsksNothing(Tail(todo[t]))
    BY <1>1, <1>2, TailAsks, TailIsSeq DEF AskInv, Framed
  <1>10. \A u, k : u # t => (InOut(u, k)' => InOut(u, k))
    BY <1>2, <1>7 DEF InOut
  <1>11. \A k : InOut(t, k)' => Asking(call.frame, k)
    BY <1>7, <1>8 DEF InOut
  <1>12. \A k \in Call : HasAsked(t, k)' => HasAsked(t, k)
    BY <1>5, <1>9, <1>11 DEF HasAsked
  <1>13. \A i \in DOMAIN out' : out'[i].frame.kind = "permission" => AsksNothing(todo'[out'[i].task])
    BY <1>2, <1>5, <1>7, <1>8, <1>9 DEF AskInv, Framed
  <1>14. DOMAIN asks' = Call /\ Framed' /\ \A k \in Call : Once(k)'
    BY <1>1, <1>3, <1>5, <1>9, <1>10, <1>12, <1>13, FramesMove
  <1>15. ASSUME NEW q \in Prompt PROVE Brief(q)'
    <2>1. CASE q # t
      BY <1>2, <1>5, <1>7, <2>1, Numbers DEF AskInv, Brief
    <2>2. CASE q = t
      <3>1. pc'[q] = "ack" /\ Len(todo'[q]) <= 1 /\ (call.frame.kind # "note" => todo'[q] = <<>>)
        BY <1>1, <1>2, <1>4, <1>5, <2>2, BriefTail
      <3>2. Len(todo'[q]) \in Nat
        BY <1>5, <1>9, <2>2, ElementsOf
      <3>3. Len(todo'[q]) <= 2 /\ Len(todo'[q]) # 2
        <4> DEFINE n == Len(todo'[q])
        <4>1. n \in Nat /\ n <= 1
          BY <3>1, <3>2
        <4> HIDE DEF n
        <4>2. n <= 2 /\ n # 2
          BY ONLY <4>1
        <4> QED BY <4>2 DEF n
      <3>4. \A i \in DOMAIN out' : out'[i].task = q /\ out'[i].frame.kind = "permission" => todo'[q] = <<>>
        BY <1>7, <1>8, <2>2, <3>1
      <3> QED BY <3>1, <3>3, <3>4 DEF Brief
    <2> QED BY <2>1, <2>2
  <1> QED BY <1>14, <1>15 DEF AskInv

\* The dispatcher's first call is gone, and no other is of the same task.
LEMMA OutServed ==
    ASSUME IInv, out # <<>>, out' = Tail(out)
    PROVE  /\ 1 \in DOMAIN out /\ Head(out) = out[1] /\ Head(out).task \in Task
           /\ pc[Head(out).task] = "ack"
           /\ \A i \in DOMAIN out' : \E j \in DOMAIN out : out'[i] = out[j] /\ out[j].task # Head(out).task
  <1>1. /\ IsSeq(Tail(out)) /\ 1 \in DOMAIN out /\ Head(out) = out[1]
        /\ \A i \in DOMAIN Tail(out) : i + 1 \in DOMAIN out /\ Tail(out)[i] = out[i + 1]
    BY TailIsSeq DEF IInv, Types, Shapes
  <1>2. \A i \in DOMAIN Tail(out) : i + 1 # 1
    <2>1. DOMAIN Tail(out) = 1..Len(Tail(out)) /\ Len(Tail(out)) \in Nat
      BY <1>1, ElementsOf
    <2> QED BY <2>1
  <1> QED BY <1>1, <1>2 DEF IInv, Sent

LEMMA DeliverAsks == ASSUME IInv, Reports, AskInv, Deliver PROVE AskInv'
  <1>0. PICK u : u = Head(out).task
    OBVIOUS
  <1>1. /\ out # <<>> /\ out' = Tail(out) /\ pc' = [pc EXCEPT ![u] = "send"]
        /\ UNCHANGED <<ms, box, budget, todo, asks>>
    BY <1>0 DEF Deliver
  <1>2. [Next]_vars
    BY DEF Next
  <1>3. /\ u \in Task /\ pc[u] = "ack" /\ \A i \in DOMAIN out' : \E j \in DOMAIN out : out'[i] = out[j]
    BY <1>0, <1>1, OutServed
  <1>4. DOMAIN pc = Task
    BY DEF IInv, Types, Shapes
  <1>5. \A t, k : InOut(t, k)' => InOut(t, k)
    BY <1>3 DEF InOut
  <1>6. \A k \in Call : HasAsked(u, k)' => HasAsked(u, k)
    BY <1>1, <1>5 DEF HasAsked
  <1>7. \A i \in DOMAIN out' : out'[i].frame.kind = "permission" => AsksNothing(todo'[out'[i].task])
    BY <1>1, <1>3 DEF AskInv, Framed
  <1>8. IsSeq(todo'[u]) /\ AsksOnce(todo'[u])
    BY <1>1, <1>3 DEF AskInv, Framed
  <1>9. DOMAIN asks' = Call /\ Framed' /\ \A k \in Call : Once(k)'
    BY <1>1, <1>2, <1>3, <1>5, <1>6, <1>7, <1>8, FramesMove
  <1>10. \A q \in Prompt : pc'[q] = pc[q] \/ pc'[q] = "send"
    BY <1>1, <1>3, <1>4, Numbers
  <1>11. \A q \in Prompt : Brief(q)'
    BY <1>1, <1>3, <1>10 DEF AskInv, Brief
  <1> QED BY <1>9, <1>11 DEF AskInv

LEMMA AnswerAsks == ASSUME IInv, Reports, AskInv, Answer PROVE AskInv'
  <1>0. PICK u, c : u = Head(out).task /\ c = Head(out).frame.call
    OBVIOUS
  <1>1. /\ out # <<>> /\ out' = Tail(out) /\ Head(out).frame.kind = "permission"
        /\ (u \in Cancel /\ pc' = [pc EXCEPT ![u] = "send"]) \/ (u \notin Cancel /\ pc' = [pc EXCEPT ![u] = "apply"])
        /\ asks' = [asks EXCEPT ![c] = @ + 1]
        /\ UNCHANGED <<ms, box, budget, todo>>
    BY <1>0 DEF Answer, Acquire
  <1>2. [Next]_vars
    BY DEF Next
  <1>3. /\ 1 \in DOMAIN out /\ Head(out) = out[1]
        /\ u \in Task /\ pc[u] = "ack"
        /\ \A i \in DOMAIN out' : \E j \in DOMAIN out : out'[i] = out[j] /\ out[j].task # u
    BY <1>0, <1>1, OutServed
  <1>4. AsksNothing(todo[u]) /\ (u \in Prompt => todo[u] = <<>>)
    BY <1>0, <1>1, <1>3 DEF AskInv, Framed, Brief
  <1>5. InOut(u, c)
    BY <1>0, <1>1, <1>3 DEF InOut, Asking
  <1>6. DOMAIN pc = Task /\ DOMAIN asks = Call
    BY DEF IInv, Types, Shapes, AskInv
  <1>7. \A t, k : InOut(t, k)' => InOut(t, k) /\ t # u
    BY <1>3 DEF InOut
  <1>8. \A t, k : HasAsked(t, k)' => HasAsked(t, k) /\ t # u
    BY <1>1, <1>4, <1>7, NothingAsked DEF HasAsked
  <1>9. HasAsked(u, c)
    BY <1>5 DEF HasAsked
  <1>10. Framed'
    <2>1. \A d \in Cancel : pc'[d] = "redrain" => ms'.turn = 0
      BY <1>2, CancelledHasNoTurn DEF AskInv
    <2> QED BY <1>1, <1>3, <2>1 DEF AskInv, Framed
  <1>11. ASSUME NEW k \in Call PROVE Once(k)'
    <2>1. Once(k) /\ (Unasked(k)' => Unasked(k))
      BY <1>2, UnaskedShrinks DEF AskInv
    <2> HIDE DEF Unasked, HasAsked
    <2>2. CASE k # c
      <3>1. asks'[k] = asks[k]
        BY <1>1, <2>2
      <3> QED BY <1>8, <2>1, <3>1 DEF Once
    <2>3. CASE k = c
      <3>1. ~Unasked(k) /\ asks[k] = 0 /\ \A t \in Task : HasAsked(t, k) => t = u
        BY <1>3, <1>9, <2>1, <2>3 DEF Once
      <3>2. asks'[k] = 1
        BY <1>1, <1>6, <2>3, <3>1
      <3> QED BY <1>8, <2>1, <3>1, <3>2 DEF Once
    <2> QED BY <2>2, <2>3
  <1>12. \A q \in Prompt : pc'[q] = pc[q] \/ todo[q] = <<>>
    BY <1>1, <1>3, <1>4, <1>6, Numbers
  <1>13. \A q \in Prompt : Brief(q)'
    <2>1. Len(<<>>) = 0
      OBVIOUS
    <2> QED BY <1>1, <1>3, <1>12, <2>1 DEF AskInv, Brief
  <1>14. DOMAIN asks' = Call
    BY <1>1, <1>6
  <1> QED BY <1>10, <1>11, <1>13, <1>14 DEF AskInv

\* A step of a cancel that changes its own frames alone.
LEMMA CancelAsks ==
    ASSUME IInv, Reports, AskInv, [Next]_vars, UNCHANGED <<out, asks>>,
           NEW c \in Cancel, pc[c] # "ack", NEW at, pc' = [pc EXCEPT ![c] = at],
           NEW s, todo'[c] = s, \A t \in Task : t # c => todo'[t] = todo[t], IsSeq(s), AsksOnce(s),
           \A k \in Call : AskedIn(s, k) => AskedIn(todo[c], k) \/ (Unasked(k) /\ ~Unasked(k)')
    PROVE  AskInv'
  <1>1. c \in Task /\ DOMAIN pc = Task /\ DOMAIN todo = Task /\ c \notin Prompt /\ Prompt \subseteq Task
    BY Numbers DEF IInv, Types, Shapes
  <1>2. todo'[c] = s /\ \A t \in Task : t # c => todo'[t] = todo[t]
    OBVIOUS
  <1>3. \A i \in DOMAIN out : out[i].task # c /\ out[i].task \in Task
    BY <1>1, OutOnlyWaits DEF IInv, Sent
  <1>4. \A t, k : InOut(t, k)' => InOut(t, k)
    BY DEF InOut
  <1>5. \A k \in Call : HasAsked(c, k)' => HasAsked(c, k) \/ (Unasked(k) /\ ~Unasked(k)')
    BY <1>2, <1>4 DEF HasAsked
  <1>6. \A i \in DOMAIN out' : out'[i].frame.kind = "permission" => AsksNothing(todo'[out'[i].task])
    BY <1>2, <1>3 DEF AskInv, Framed
  <1>7. DOMAIN asks' = Call /\ Framed' /\ \A k \in Call : Once(k)'
    BY <1>1, <1>2, <1>4, <1>5, <1>6, FramesMove
  <1>8. \A p \in Prompt : pc'[p] = pc[p] /\ todo'[p] = todo[p]
    BY <1>1, <1>2
  <1>9. \A p \in Prompt : Brief(p)'
    BY <1>8 DEF AskInv, Brief
  <1> QED BY <1>7, <1>9 DEF AskInv

LEMMA CancelTurnAsks ==
    ASSUME IInv, Reports, AskInv, NEW c \in Cancel, CancelTurn(c) PROVE AskInv'
  <1>1. /\ pc[c] = "drain" /\ UNCHANGED <<box, budget, out, asks>>
        /\ \/ pc' = [pc EXCEPT ![c] = "done"] /\ todo' = todo
           \/ /\ ms' = EndTurn(Polled(ms), "Cancelled")
              /\ todo' = [todo EXCEPT ![c] = PolledFrames(ms)] /\ pc' = [pc EXCEPT ![c] = "redrain"]
    BY DEF CancelTurn, Release
  <1>2. [Next]_vars
    BY DEF Next, CancelStep
  <1>3. CASE pc' = [pc EXCEPT ![c] = "done"] /\ todo' = todo
    <2>1. todo'[c] = todo[c] /\ \A t \in Task : t # c => todo'[t] = todo[t]
      BY <1>3
    <2>2. IsSeq(todo[c]) /\ AsksOnce(todo[c])
      BY Numbers DEF AskInv, Framed
    <2> QED BY <1>1, <1>2, <1>3, <2>1, <2>2, CancelAsks
  <1>4. CASE /\ ms' = EndTurn(Polled(ms), "Cancelled")
             /\ todo' = [todo EXCEPT ![c] = PolledFrames(ms)] /\ pc' = [pc EXCEPT ![c] = "redrain"]
    <2>1. \A k : AskedIn(PolledFrames(ms), k) => Unasked(k) /\ ~Unasked(k)'
      BY <1>1, <1>4, PollAnswers
    <2>2. IsSeq(PolledFrames(ms)) /\ AsksOnce(PolledFrames(ms))
      BY PollAsksHere
    <2>3. todo'[c] = PolledFrames(ms) /\ \A t \in Task : t # c => todo'[t] = todo[t]
      BY <1>4, Numbers DEF IInv, Types, Shapes
    <2> QED BY <1>1, <1>2, <1>4, <2>1, <2>2, <2>3, CancelAsks
  <1> QED BY <1>1, <1>3, <1>4

LEMMA CancelledAsks ==
    ASSUME IInv, Reports, AskInv, NEW c \in Cancel, Cancelled(c) PROVE AskInv'
  <1> DEFINE frames == todo[c] \o PolledFrames(ms)
             s == Leading(frames)
  <1>1. /\ pc[c] = "redrain" /\ UNCHANGED <<out, asks>> /\ todo' = [todo EXCEPT ![c] = s]
        /\ \E at : pc' = [pc EXCEPT ![c] = at]
    BY DEF Cancelled, Release
  <1>2. [Next]_vars
    BY DEF Next, CancelStep
  <1>3. IsSeq(todo[c]) /\ AsksOnce(todo[c]) /\ ms.turn = 0
    BY <1>1, Numbers DEF AskInv, Framed
  <1>4. IsSeq(PolledFrames(ms)) /\ AsksNothing(PolledFrames(ms))
    BY <1>3, PollAsksHere
  <1>5. IsSeq(frames) /\ AsksOnce(frames) /\ \A k : AskedIn(frames, k) => AskedIn(todo[c], k)
    BY <1>3, <1>4, ConcatAsks, NothingAsked
  <1> HIDE DEF frames
  <1>6. IsSeq(s) /\ AsksOnce(s) /\ \A k : AskedIn(s, k) => AskedIn(todo[c], k)
    BY <1>5, LeadingFrames
  <1> HIDE DEF s
  <1>7. todo'[c] = s /\ \A t \in Task : t # c => todo'[t] = todo[t]
    BY <1>1, Numbers DEF IInv, Types, Shapes
  <1> QED BY <1>1, <1>2, <1>6, <1>7, CancelAsks

LEMMA NextAsk == ASSUME IInv, Reports, AskInv, [Next]_vars PROVE AskInv'
  <1>1. CASE /\ UNCHANGED <<todo, out, asks>>
             /\ \A p \in Prompt : pc'[p] \in {"send", "ack"} \/ pc[p] \notin {"send", "ack"} \/ todo[p] = <<>>
    <2>1. Final \in Task
      BY Numbers
    <2>2. \A t, k : (InOut(t, k)' => InOut(t, k)) /\ (HasAsked(t, k)' => HasAsked(t, k))
      BY <1>1 DEF InOut, HasAsked
    <2>3. IsSeq(todo'[Final]) /\ AsksOnce(todo'[Final])
          /\ \A i \in DOMAIN out' : out'[i].frame.kind = "permission" => AsksNothing(todo'[out'[i].task])
      BY <1>1, <2>1 DEF AskInv, Framed
    <2>4. DOMAIN asks' = Call /\ Framed' /\ \A k \in Call : Once(k)'
      BY <1>1, <2>1, <2>2, <2>3, FramesMove
    <2>5. \A p \in Prompt : Brief(p)'
      BY <1>1 DEF AskInv, Brief
    <2> QED BY <2>4, <2>5 DEF AskInv
  <1> QED
    BY <1>1, FrameSteps, ProjectAsks, TakeResultAsks, SendFrameAsks, DeliverAsks, AnswerAsks,
       CancelTurnAsks, CancelledAsks

-----------------------------------------------------------------------------
(* What an answer decides.                                                 *)

\* The turn waits for call k; or it is over.
Awaits(k) == ms.phase = "Awaiting" /\ ms.call = k
Stands(k) == ms.turn = 0 \/ Awaits(k)

Applies(p, k) == pc[p] = "apply" /\ ask[p].call = k
Decided == \A p \in Prompt : \A k : HasAsked(p, k) \/ Applies(p, k) => Stands(k)
Verdicts == DOMAIN ask = Task /\ DOMAIN verdict = Call /\ \A k \in Call : verdict[k] \in {0, k}

LEMMA StandsKept ==
    ASSUME IInv, Reports, [Next]_vars, NEW k, Stands(k),
           ~ \E p \in Prompt : Start(p) \/ ApplyAnswer(p)
    PROVE  Stands(k)'
  <1>1. IsHost(ms)
    BY DEF IInv, Types, Shapes
  <1>2. CASE \E t \in Task : Drain(t)
    <2>1. 1 \in DOMAIN box /\ Head(box) = box[1] /\ ms' = HostApply(ms, Head(box))
      BY <1>2, TailIsSeq DEF Drain, IInv, Types, Shapes
    <2>2. box[1].turn # ms.turn
      BY <2>1, Numbers DEF Stands, Awaits, Reports, LastWords, Pauses
    <2>3. ms' = ms
      BY <2>1, <2>2 DEF HostApply
    <2> QED BY <2>3 DEF Stands, Awaits
  <1>3. CASE Runtime
    <2>1. ms' = ms \/ ms' = [ms EXCEPT !.src = "none"]
      BY <1>3 DEF Runtime, Report
    <2>2. ms'.turn = ms.turn /\ ms'.phase = ms.phase /\ ms'.call = ms.call
      BY <1>1, <2>1 DEF IsHost, HostFields
    <2> QED BY <2>2 DEF Stands, Awaits
  <1>4. CASE SamePhase(ms, ms') \/ Silent(ms')
    BY <1>4 DEF Stands, Awaits, SamePhase, Silent
  <1> QED BY <1>2, <1>3, <1>4, PhaseSteps

\* What a prompt has asked it had asked before, or its poll asks about the call that waits.
LEMMA AskedBefore ==
    ASSUME IInv, Reports, AskInv, [Next]_vars, NEW p \in Prompt, NEW k, HasAsked(p, k)'
    PROVE  HasAsked(p, k) \/ Awaits(k)'
  <1>1. p \in Task /\ p \notin Cancel /\ DOMAIN todo = Task /\ Prompt \subseteq Task
    BY Numbers DEF IInv, Types, Shapes
  <1>2. ASSUME NEW q \in Prompt, Project(q) PROVE HasAsked(p, k) \/ Awaits(k)'
    <2>1. /\ pc[q] = "drain" /\ ms' = Polled(ms) /\ UNCHANGED <<box, budget, out>>
          /\ todo' = [todo EXCEPT ![q] = PolledFrames(ms) \o @]
      BY <1>2 DEF Project
    <2>2. CASE p # q
      BY <1>1, <2>1, <2>2 DEF HasAsked, InOut
    <2>3. CASE p = q
      <3>1. todo[p] = <<>> /\ todo'[p] = PolledFrames(ms) \o todo[p]
        BY <1>1, <2>1, <2>3 DEF AskInv, Brief
      <3>2. IsSeq(PolledFrames(ms))
        BY PollAsksHere
      <3>3. todo'[p] = PolledFrames(ms)
        BY <3>1, <3>2, EmptyConcat
      <3>4. CASE AskedIn(PolledFrames(ms), k)
        <4>1. ms.phase = "Awaiting" /\ ms.call = k
          BY <3>4, PollAnswers
        <4>2. SamePhase(ms, ms')
          BY <2>1, PolledSays DEF IInv, Types, Shapes
        <4> QED BY <4>1, <4>2 DEF SamePhase, Awaits
      <3>5. CASE InOut(p, k)'
        BY <2>1, <3>5 DEF HasAsked, InOut
      <3> QED BY <3>3, <3>4, <3>5 DEF HasAsked
    <2> QED BY <2>2, <2>3
  <1>3. ASSUME NEW q \in Prompt, TakeResult(q) PROVE HasAsked(p, k)
    <2>1. todo[q] # <<>> /\ out' = out /\ todo' = [todo EXCEPT ![q] = Tail(@)]
      BY <1>3 DEF TakeResult
    <2>2. AskedIn(todo'[p], k) => AskedIn(todo[p], k)
      BY <1>1, <2>1, TailAsks DEF AskInv, Framed
    <2> QED BY <2>1, <2>2 DEF HasAsked, InOut
  <1>4. ASSUME NEW t \in Task, SendFrame(t) PROVE HasAsked(p, k)
    <2> DEFINE call == [task |-> t, frame |-> Head(todo[t])]
    <2>1. todo[t] # <<>> /\ out' = Append(out, call) /\ todo' = [todo EXCEPT ![t] = Tail(@)]
      BY <1>4 DEF SendFrame
    <2>2. call.task = t /\ call.frame = Head(todo[t])
      OBVIOUS
    <2> HIDE DEF call
    <2>3. AskedIn(todo'[p], k) => AskedIn(todo[p], k)
      BY <1>1, <2>1, TailAsks DEF AskInv, Framed
    <2>4. Asking(Head(todo[t]), k) => AskedIn(todo[t], k)
      BY <1>1, <2>1, TailAsks DEF AskInv, Framed
    <2>5. \A i \in DOMAIN out' : (i \in DOMAIN out /\ out'[i] = out[i]) \/ out'[i] = call
      <3>1. /\ DOMAIN out' = 1..Len(out) + 1 /\ DOMAIN out = 1..Len(out) /\ Len(out) \in Nat
            /\ (\A i \in DOMAIN out : out'[i] = out[i]) /\ out'[Len(out) + 1] = call
        BY <2>1, AppendIsSeq DEF IInv, Types, Shapes
      <3> QED BY <3>1
    <2>6. InOut(p, k)' => InOut(p, k) \/ AskedIn(todo[p], k)
      BY <2>2, <2>4, <2>5 DEF InOut
    <2> QED BY <2>3, <2>6 DEF HasAsked
  <1>5. CASE Deliver \/ Answer
    <2>1. out # <<>> /\ out' = Tail(out) /\ todo' = todo
      BY <1>5 DEF Deliver, Answer
    <2>2. \A i \in DOMAIN out' : \E j \in DOMAIN out : out'[i] = out[j]
      BY <2>1, OutServed
    <2> QED BY <2>1, <2>2 DEF HasAsked, InOut
  <1>6. ASSUME NEW c \in Cancel, CancelTurn(c) \/ Cancelled(c) PROVE HasAsked(p, k)
    <2>1. out' = out /\ (todo' = todo \/ \E s : todo' = [todo EXCEPT ![c] = s])
      BY <1>6 DEF CancelTurn, Cancelled
    <2>2. todo'[p] = todo[p]
      BY <1>1, <2>1
    <2> QED BY <2>1, <2>2 DEF HasAsked, InOut
  <1>7. CASE UNCHANGED <<todo, out>>
    BY <1>7 DEF HasAsked, InOut
  <1> QED BY <1>2, <1>3, <1>4, <1>5, <1>6, <1>7, FrameSteps

\* An answer is applied by the prompt that asked.
LEMMA AppliesBefore ==
    ASSUME IInv, DOMAIN ask = Task, [Next]_vars, NEW p \in Prompt, NEW k, Applies(p, k)'
    PROVE  Applies(p, k) \/ HasAsked(p, k)
  <1>1. p \in Task /\ p \notin Cancel /\ DOMAIN pc = Task /\ pc'[p] = "apply" /\ ask'[p].call = k
    BY Numbers DEF IInv, Types, Shapes, Applies
  <1>2. CASE Answer
    <2> DEFINE t == Head(out).task
               c == Head(out).frame.call
    <2>1. /\ out # <<>> /\ out' = Tail(out) /\ Head(out).frame.kind = "permission"
          /\ \/ pc' = [pc EXCEPT ![t] = "send"] /\ ask' = ask
             \/ /\ pc' = [pc EXCEPT ![t] = "apply"]
                /\ \E a \in MayAnswer : ask' = [ask EXCEPT ![t] = [call |-> c, answer |-> a]]
      BY <1>2 DEF Answer, Acquire
    <2>2. 1 \in DOMAIN out /\ Head(out) = out[1] /\ t \in Task
      BY <2>1, OutServed
    <2>3. InOut(t, c)
      BY <2>1, <2>2 DEF InOut, Asking
    <2> HIDE DEF t, c
    <2>4. CASE p # t
      BY <1>1, <2>1, <2>4 DEF Applies
    <2>5. CASE p = t
      <3>1. ask'[p].call = c
        BY <1>1, <2>1, <2>5
      <3> QED BY <1>1, <2>3, <2>5, <3>1 DEF HasAsked
    <2> QED BY <2>4, <2>5
  <1>3. ASSUME NEW q \in Prompt, SendPrompt(q) \/ PromptStep(q) PROVE Applies(p, k)
    <2>1. (ask' = ask \/ ask' = [ask EXCEPT ![q] = NoAsk])
          /\ (pc' = pc \/ \E at : at # "apply" /\ pc' = [pc EXCEPT ![q] = at])
          /\ (ask' = [ask EXCEPT ![q] = NoAsk] => ask' = ask \/ \E at : at # "apply" /\ pc' = [pc EXCEPT ![q] = at])
      BY <1>3 DEF SendPrompt, PromptStep, Start, Drain, Project, SendFrame, TakeResult, FramesSent,
                  Loop, Wake, PollTurn, ApplyAnswer, TakesBuffered, FindsTurnOver, Release, Acquire
    <2> QED BY <1>1, <2>1 DEF Applies
  <1>4. ASSUME NEW c \in Cancel, SendCancel(c) \/ CancelStep(c) PROVE Applies(p, k)
    <2>1. ask' = ask /\ (pc' = pc \/ \E at : pc' = [pc EXCEPT ![c] = at])
      BY <1>4 DEF CancelStep, SendCancel, Prepare, Drain, CancelTurn, Cancelled, Store, SendFrame,
                  CancelSent, Release, Acquire
    <2> QED BY <1>1, <2>1 DEF Applies
  <1>5. CASE Deliver
    <2>1. ask' = ask /\ \E t : pc' = [pc EXCEPT ![t] = "send"]
      BY <1>5 DEF Deliver
    <2> QED BY <1>1, <2>1 DEF Applies
  <1>6. CASE Runtime \/ UNCHANGED vars
    BY <1>1, <1>6 DEF Runtime, Report, vars, Applies
  <1> QED BY <1>2, <1>3, <1>4, <1>5, <1>6 DEF Next

\* While a prompt starts or applies an answer, nothing is asked by any prompt.
LEMMA NobodyAsks ==
    ASSUME IInv, AskInv, DOMAIN ask = Task, NEW p \in Prompt, Start(p) \/ ApplyAnswer(p)
    PROVE  \A q \in Prompt : \A k : ~HasAsked(q, k)' /\ ~Applies(q, k)'
  <1>1. /\ pc[p] \in {"start", "apply"} /\ UNCHANGED <<todo, out>>
        /\ \E at : at # "apply" /\ pc' = [pc EXCEPT ![p] = at]
    BY DEF Start, ApplyAnswer, Release
  <1>2. \A q \in Prompt : q # p => pc[q] \in {"idle", "done"}
    BY <1>1, Numbers DEF IInv, Order
  <1>3. Prompt \subseteq Task /\ DOMAIN pc = Task
    BY Numbers DEF IInv, Types, Shapes
  <1>4. \A q \in Prompt : pc[q] \notin {"send", "ack"}
    BY <1>1, <1>2
  <1>5. \A q \in Prompt : todo[q] = <<>> /\ \A i \in DOMAIN out : out[i].task # q
    BY <1>3, <1>4 DEF AskInv, Brief, IInv, Sent
  <1>6. \A q \in Prompt : \A k : ~HasAsked(q, k)
    BY <1>5, EmptyAsks, NothingAsked DEF HasAsked, InOut
  <1>7. \A q \in Prompt : pc'[q] # "apply"
    BY <1>1, <1>2, <1>3
  <1> QED BY <1>1, <1>6, <1>7 DEF HasAsked, InOut, Applies

LEMMA NextDecided ==
    ASSUME IInv, Reports, AskInv, Decided, DOMAIN ask = Task, [Next]_vars PROVE Decided'
  <1>1. CASE \E p \in Prompt : Start(p) \/ ApplyAnswer(p)
    BY <1>1, NobodyAsks DEF Decided
  <1>2. CASE ~ \E p \in Prompt : Start(p) \/ ApplyAnswer(p)
    <2> SUFFICES ASSUME NEW p \in Prompt, NEW k, HasAsked(p, k)' \/ Applies(p, k)' PROVE Stands(k)'
      BY DEF Decided
    <2>1. Stands(k) => Stands(k)'
      BY <1>2, StandsKept
    <2>2. Awaits(k)' => Stands(k)'
      BY DEF Stands
    <2> QED BY <2>1, <2>2, AskedBefore, AppliesBefore DEF Decided
  <1> QED BY <1>1, <1>2

LEMMA NextVerdicts == ASSUME IInv, Reports, Decided, Verdicts, [Next]_vars PROVE Verdicts'
  <1>1. ASSUME NEW p \in Prompt, ApplyAnswer(p) PROVE DOMAIN verdict' = Call /\ \A k \in Call : verdict'[k] \in {0, k}
    <2>1. /\ pc[p] = "apply"
          /\ \/ verdict' = verdict
             \/ ms.phase = "Awaiting" /\ verdict' = [verdict EXCEPT ![ms.call] = ask[p].call]
      BY <1>1 DEF ApplyAnswer
    <2>2. ms.phase = "Awaiting" => ask[p].call = ms.call
      BY <2>1 DEF Decided, Applies, Stands, Awaits, Reports, Pauses
    <2>3. verdict' = verdict \/ verdict' = [verdict EXCEPT ![ms.call] = ms.call]
      BY <2>1, <2>2
    <2>4. DOMAIN verdict' = Call
          /\ \A k \in Call : verdict'[k] = verdict[k] \/ (k = ms.call /\ verdict'[k] = k)
      BY <2>3 DEF Verdicts
    <2> QED BY <2>4 DEF Verdicts
  <1>2. ASSUME ~ \E p \in Prompt : ApplyAnswer(p) PROVE verdict' = verdict
    <2>1. ASSUME NEW p \in Prompt, SendPrompt(p) \/ PromptStep(p) PROVE verdict' = verdict
      BY <1>2, <2>1 DEF SendPrompt, PromptStep, Start, Drain, Project, SendFrame, TakeResult, FramesSent,
                        Loop, Wake, PollTurn
    <2>2. ASSUME NEW c \in Cancel, SendCancel(c) \/ CancelStep(c) PROVE verdict' = verdict
      BY <2>2 DEF CancelStep, SendCancel, Prepare, Drain, CancelTurn, Cancelled, Store, SendFrame, CancelSent
    <2> QED BY <2>1, <2>2 DEF Next, Deliver, Answer, Runtime, Report, vars
  <1>3. DOMAIN ask' = Task
    <2>1. ASSUME NEW p \in Prompt, SendPrompt(p) \/ PromptStep(p) PROVE DOMAIN ask' = Task
      BY <2>1 DEF SendPrompt, PromptStep, Start, Drain, Project, SendFrame, TakeResult, FramesSent,
                  Loop, Wake, PollTurn, ApplyAnswer, Verdicts
    <2>2. ASSUME NEW c \in Cancel, SendCancel(c) \/ CancelStep(c) PROVE DOMAIN ask' = Task
      BY <2>2 DEF CancelStep, SendCancel, Prepare, Drain, CancelTurn, Cancelled, Store, SendFrame, CancelSent,
                  Verdicts
    <2> QED BY <2>1, <2>2 DEF Next, Deliver, Answer, Runtime, Report, vars, Verdicts
  <1> QED BY <1>1, <1>2, <1>3 DEF Verdicts

AInv == IInv /\ Reports /\ AskInv /\ Decided /\ Verdicts

LEMMA QuestionsAreKept == ASSUME CancelDuring \subseteq {Final} PROVE Spec => []AInv
  <1>1. Init => AInv
    <2> SUFFICES ASSUME Init PROVE AInv
      OBVIOUS
    <2>1. /\ out = <<>> /\ (\A t \in Task : todo[t] = <<>> /\ pc[t] = "idle")
          /\ ms.turn = 0
      BY DEF Init
    <2>2. Decided
      BY <2>1 DEF Decided, Stands, Awaits
    <2>3. Verdicts
      BY DEF Init, Verdicts
    <2> QED BY <2>2, <2>3, InitInv, InitReports, InitAsk DEF AInv
  <1>2. AInv /\ [Next]_vars => AInv'
    BY NextPreserves, NextReports, NextAsk, NextDecided, NextVerdicts DEF AInv, Verdicts
  <1> QED BY <1>1, <1>2, PTL DEF Spec

\* The client's answer decides the call it was asked about, and no call is asked about
\* twice: the reply names no call (Msg::ReplyToPendingTool), so what waits for an answer
\* may not change between the poll that asks and the answer that is applied, and a poll
\* asks only about what no poll asked about before (project_frames).
THEOREM AnswersReachAskedCalls ==
    ASSUME CancelDuring \subseteq {Final} PROVE Spec => []AnswerReachesAskedCall
  <1>1. AInv => AnswerReachesAskedCall
    <2> SUFFICES ASSUME AInv, NEW k \in Call PROVE verdict[k] \in {0, k} /\ asks[k] <= 1
      BY DEF AnswerReachesAskedCall
    <2>1. asks[k] \in {0, 1}
      BY DEF AInv, AskInv, Once
    <2> QED BY <2>1 DEF AInv, Verdicts
  <1> QED BY <1>1, QuestionsAreKept, PTL

-----------------------------------------------------------------------------
(* What was said and what was heard, while no cancel was sent.             *)

Quiet == \A c \in Cancel : pc[c] = "idle"

\* What the polls have reported of turn p's text.
Emitted(p) == IF ms.live.turn = p THEN ms.live.told ELSE ms.said[p]

HandNote(p) == todo[p] # <<>> /\ Head(todo[p]).kind = "note"
WayNote(p, i) == out[i].task = p /\ out[i].frame.kind = "note"

\* f brings the client up to what was reported of turn p
Brings(f, p) == f.turn = p /\ f.n \in Nat /\ heard[p] + f.n = Emitted(p)

Tells(p) ==
    /\ HandNote(p) => Brings(Head(todo[p]), p)
    /\ \A i \in DOMAIN out : WayNote(p, i) => ~HandNote(p) /\ Brings(out[i].frame, p)
    /\ ~HandNote(p) /\ (\A i \in DOMAIN out : ~WayNote(p, i)) => heard[p] = Emitted(p)

\* Who has the end of its turn, or will not poll again, has polled the end.
Closed(p) ==
    \/ pc[p] = "done" \/ got[p] # "None"
    \/ (pc[p] \in {"send", "ack"} /\ last[p])
    \/ \E f \in ToSet(todo[p]) : f.kind = "result"
    => ms.live.turn # p

Counts ==
    /\ DOMAIN heard = Prompt /\ DOMAIN ms.said = Prompt /\ ms.buffered = "None"
    /\ \A p \in Prompt : ms.said[p] \in Nat /\ heard[p] \in Nat
    /\ ms.live.turn \in Prompt => ms.live.told \in Nat /\ ms.live.told <= ms.said[ms.live.turn]

Answered == \A p \in Prompt : result[p] = "EndTurn" => pc[p] = "done"
AllTell == \A p \in Prompt : Tells(p)
AllClosed == \A p \in Prompt : Closed(p)
AllAwait == \A p \in Prompt : \A k : HasAsked(p, k) \/ Applies(p, k) => Awaits(k)

SayInv == Counts /\ Answered /\ AllTell /\ AllClosed /\ AllAwait

LEMMA QuietSteps ==
    ASSUME IInv, Quiet', [Next]_vars
    PROVE  /\ Quiet
           /\ \/ \E p \in Prompt : SendPrompt(p) \/ PromptStep(p)
              \/ Deliver \/ Answer \/ Runtime \/ UNCHANGED vars
  <1>1. DOMAIN pc = Task /\ Cancel \subseteq Task /\ Prompt \cap Cancel = {}
    BY Numbers DEF IInv, Types, Shapes
  <1>2. ASSUME NEW p \in Prompt, SendPrompt(p) \/ PromptStep(p) PROVE Quiet
    <2>1. pc' = pc \/ \E at : pc' = [pc EXCEPT ![p] = at]
      BY <1>2 DEF SendPrompt, PromptStep, Start, Drain, Project, SendFrame, TakeResult, FramesSent,
                  Loop, Wake, PollTurn, ApplyAnswer, TakesBuffered, FindsTurnOver, Release, Acquire
    <2> QED BY <1>1, <2>1 DEF Quiet
  <1>3. ASSUME NEW c \in Cancel, SendCancel(c) \/ CancelStep(c) PROVE FALSE
    <2>1. (pc' = pc /\ pc[c] # "idle") \/ \E at : at # "idle" /\ pc' = [pc EXCEPT ![c] = at]
      BY <1>3 DEF CancelStep, SendCancel, Prepare, Drain, CancelTurn, Cancelled, Store, SendFrame,
                  CancelSent, Release, Acquire
    <2> QED BY <1>1, <2>1 DEF Quiet
  <1>4. ASSUME Deliver \/ Answer PROVE Quiet
    <2>1. \E t, at : at # "idle" /\ pc' = [pc EXCEPT ![t] = at]
      BY <1>4 DEF Deliver, Answer, Acquire
    <2> QED BY <1>1, <2>1 DEF Quiet
  <1>5. ASSUME Runtime \/ UNCHANGED vars PROVE Quiet
    BY <1>5 DEF Runtime, Report, vars, Quiet
  <1> QED BY <1>2, <1>3, <1>4, <1>5 DEF Next

\* Nothing is said, reported, sent or heard.
Rests == /\ UNCHANGED <<todo, out, heard, got>>
         /\ ms'.live = ms.live /\ ms'.said = ms.said /\ ms'.buffered = ms.buffered

LEMMA RestsTells == ASSUME Counts, AllTell, Rests PROVE Counts' /\ AllTell'
  <1>1. Counts'
    BY DEF Counts, Rests
  <1>2. \A p : Emitted(p)' = Emitted(p) /\ (HandNote(p)' <=> HandNote(p)) /\ \A i : WayNote(p, i)' <=> WayNote(p, i)
    BY DEF Emitted, HandNote, WayNote, Rests
  <1>3. \A p, f : Brings(f, p)' <=> Brings(f, p)
    BY <1>2 DEF Brings, Rests
  <1>4. AllTell'
    BY <1>2, <1>3 DEF AllTell, Tells, Rests
  <1> QED BY <1>1, <1>4

\* p steps to a place where it still has a poll ahead, or it has polled the end.
LEMMA RestsClosed ==
    ASSUME IInv, AllClosed, Answered, Rests, NEW p \in Prompt,
           \A q \in Prompt : q # p => pc'[q] = pc[q] /\ last'[q] = last[q] /\ result'[q] = result[q],
           pc[p] # "done", result'[p] = "EndTurn" => pc'[p] = "done",
           (pc'[p] = "done" \/ (pc'[p] \in {"send", "ack"} /\ last'[p])) => ms.live.turn # p
    PROVE  AllClosed' /\ Answered'
  <1>1. ASSUME NEW q \in Prompt PROVE Closed(q)'
    <2>1. CASE q # p
      BY <2>1 DEF AllClosed, Closed, Rests
    <2>2. CASE q = p
      BY <2>2 DEF AllClosed, Closed, Rests
    <2> QED BY <2>1, <2>2
  <1>2. Answered'
    BY DEF Answered
  <1> QED BY <1>1, <1>2 DEF AllClosed

LEMMA NothingDone ==
    ASSUME IInv, AllClosed, Answered, Rests, UNCHANGED <<pc, last, result>>
    PROVE  AllClosed' /\ Answered'
  BY DEF AllClosed, Closed, Answered, Rests

\* The steps that neither move a frame nor read the runtime's messages.
LEMMA RestingSteps ==
    ASSUME IInv, Reports, Counts, AllClosed, Answered, AllAwait, NEW p \in Prompt,
           SendPrompt(p) \/ FramesSent(p) \/ Loop(p) \/ Wake(p) \/ PollTurn(p) \/ ApplyAnswer(p)
    PROVE  Rests /\ AllClosed' /\ Answered'
  <1>1. IsHost(ms) /\ DOMAIN pc = Task /\ DOMAIN last = Prompt /\ DOMAIN result = Prompt
        /\ Prompt \subseteq Task /\ p # 0 /\ p \in Task
    BY Numbers DEF IInv, Types, Shapes
  <1>2. ms.buffered = "None"
    BY DEF Counts
  <1>3. /\ \A stop : LET n == EndTurn(ms, stop) IN n.live = ms.live /\ n.said = ms.said /\ n.buffered = ms.buffered
        /\ \A a : LET n == Reply(ms, a) IN n.live = ms.live /\ n.said = ms.said /\ n.buffered = ms.buffered
    BY <1>1, EndTurnFields, EndTurnSays, ReplyFields, ReplySays DEF SameRest
  <1>4. CASE SendPrompt(p)
    <2>1. Rests
      BY <1>4 DEF SendPrompt, Rests
    <2>2. pc[p] = "idle" /\ pc' = [pc EXCEPT ![p] = "start"] /\ UNCHANGED <<last, result>>
      BY <1>4 DEF SendPrompt, Acquire
    <2> QED BY <1>1, <2>1, <2>2, RestsClosed DEF Answered
  <1>5. CASE FramesSent(p)
    <2>1. Rests
      BY <1>5 DEF FramesSent, Rests
    <2>2. /\ pc[p] = "send" /\ UNCHANGED last
          /\ \/ /\ got[p] # "None" \/ last[p]
                /\ pc' = [pc EXCEPT ![p] = "done"] /\ \E r : result' = [result EXCEPT ![p] = r]
             \/ pc' = [pc EXCEPT ![p] = "loop"] /\ UNCHANGED result
      BY <1>5 DEF FramesSent, Acquire
    <2>3. got[p] # "None" \/ last[p] => ms.live.turn # p
      BY <2>2 DEF AllClosed, Closed
    <2> QED BY <1>1, <2>1, <2>2, <2>3, RestsClosed DEF Answered
  <1>6. CASE Loop(p) \/ PollTurn(p)
    <2>1. ~TakesBuffered(p)
      BY <1>2 DEF TakesBuffered
    <2>2. Rests
      BY <1>6, <2>1 DEF Loop, PollTurn, FindsTurnOver, Rests
    <2>3. /\ pc[p] \in {"loop", "poll"}
          /\ \/ /\ ms.live.turn = 0 /\ UNCHANGED last
                /\ pc' = [pc EXCEPT ![p] = "done"] /\ \E r : result' = [result EXCEPT ![p] = r]
             \/ /\ \E at \in {"wait", "drain"} : pc' = [pc EXCEPT ![p] = at]
                /\ UNCHANGED result /\ (last' = last \/ last' = [last EXCEPT ![p] = TRUE])
      BY <1>6, <2>1 DEF Loop, PollTurn, FindsTurnOver, Release
    <2> QED BY <1>1, <2>2, <2>3, RestsClosed DEF Answered
  <1>7. CASE Wake(p)
    <2>1. Rests
      BY <1>7 DEF Wake, Rests
    <2>2. pc[p] = "wait" /\ pc' = [pc EXCEPT ![p] = "poll"] /\ UNCHANGED <<last, result>>
      BY <1>7 DEF Wake, Release
    <2> QED BY <1>1, <2>1, <2>2, RestsClosed DEF Answered
  <1>8. CASE ApplyAnswer(p)
    <2>1. pc[p] = "apply"
      BY <1>8 DEF ApplyAnswer
    <2>2. HasCancelTarget(ms)
      BY <2>1 DEF AllAwait, Applies, Awaits, Reports, Pauses, HasCancelTarget
    <2>3. /\ pc' = [pc EXCEPT ![p] = "drain"] /\ UNCHANGED <<result, todo, out, heard, got>>
          /\ last' = [last EXCEPT ![p] = FALSE]
          /\ ms' = EndTurn(ms, "Cancelled") \/ \E a : ms' = Reply(ms, a)
      BY <1>8, <2>2 DEF ApplyAnswer
    <2>4. Rests
      BY <1>3, <2>3 DEF Rests
    <2> QED BY <1>1, <2>1, <2>3, <2>4, RestsClosed DEF Answered
  <1> QED BY <1>4, <1>5, <1>6, <1>7, <1>8

\* A turn is started only when the one before was polled to its end.
LEMMA StartTells ==
    ASSUME IInv, AskInv, SayInv, NEW p \in Prompt, Start(p)
    PROVE  Counts' /\ AllTell' /\ AllClosed' /\ Answered'
  <1>1. /\ pc[p] = "start" /\ UNCHANGED <<todo, out, heard, got, last>>
        /\ \/ ms' = ms /\ pc' = [pc EXCEPT ![p] = "done"] /\ result' = [result EXCEPT ![p] = "Busy"]
           \/ ms' = StartTurn(ms, p) /\ pc' = [pc EXCEPT ![p] = "drain"] /\ result' = result
    BY DEF Start, Release
  <1>2. IsHost(ms) /\ DOMAIN pc = Task /\ DOMAIN result = Prompt /\ p \in Task /\ Prompt \subseteq Task /\ p # 0
    BY Numbers DEF IInv, Types, Shapes
  <1>3. ms.live.turn # p /\ ms.stop[p] = "None" /\ got[p] = "None"
    <2>1. ~Past(p)
      BY <1>1 DEF Past
    <2>2. ms.live.turn # p /\ ms.stop[p] = "None"
      BY <2>1 DEF IInv, Turn
    <2> QED BY <2>2 DEF IInv, Ends, PromptOk, IsEnd
  <1>4. CASE ms' = ms /\ pc' = [pc EXCEPT ![p] = "done"] /\ result' = [result EXCEPT ![p] = "Busy"]
    <2>1. Rests
      BY <1>1, <1>4 DEF Rests
    <2>2. Counts' /\ AllTell'
      BY <2>1, RestsTells DEF SayInv
    <2> QED BY <1>1, <1>2, <1>3, <1>4, <2>1, <2>2, RestsClosed DEF SayInv
  <1>5. CASE ms' = StartTurn(ms, p) /\ pc' = [pc EXCEPT ![p] = "drain"] /\ result' = result
    <2>1. /\ ms'.said = ms.said /\ ms'.live.turn = p /\ ms'.live.told = ms.said[p]
          /\ ms'.buffered = ms.buffered
      BY <1>2, <1>5, StartTurnSays, StartTurnFields
    <2>2. \A q \in Prompt : q # p => pc[q] \in {"idle", "done"}
      BY <1>1, Numbers DEF IInv, Order
    <2>3. \A q \in Prompt : ms.live.turn # q
      <3>1. \A q \in Prompt : pc[q] = "idle" => ms.live.turn # q
        BY DEF IInv, Turn, Past
      <3>2. \A q \in Prompt : pc[q] = "done" => ms.live.turn # q
        BY DEF SayInv, AllClosed, Closed
      <3> QED BY <1>3, <2>2, <3>1, <3>2
    <2>4. \A q \in Prompt : Emitted(q)' = Emitted(q)
      BY <2>1, <2>3 DEF Emitted
    <2>5. Counts'
      BY <1>1, <2>1 DEF SayInv, Counts
    <2>6. ASSUME NEW q \in Prompt PROVE Tells(q)'
      <3>1. \A f : Brings(f, q)' <=> Brings(f, q)
        BY <1>1, <2>4 DEF Brings
      <3> QED BY <1>1, <2>4, <3>1 DEF SayInv, AllTell, Tells, HandNote, WayNote
    <2>7. ASSUME NEW q \in Prompt PROVE Closed(q)'
      <3>1. CASE q # p
        BY <2>1, <3>1 DEF Closed
      <3>2. CASE q = p
        <4>1. todo[p] = <<>>
          BY <1>1 DEF AskInv, Brief
        <4>2. ToSet(todo'[p]) = {}
          BY <1>1, <4>1, ShortIsSeq
        <4> QED BY <1>1, <1>2, <1>3, <1>5, <3>2, <4>2 DEF Closed
      <3> QED BY <3>1, <3>2
    <2>8. Answered'
      BY <1>1, <1>2, <1>5 DEF SayInv, Answered
    <2> QED BY <2>5, <2>6, <2>7, <2>8 DEF AllTell, AllClosed
  <1> QED BY <1>1, <1>4, <1>5

LEMMA DrainTells ==
    ASSUME IInv, Reports, SayInv, NEW t \in Task, Drain(t)
    PROVE  Counts' /\ AllTell' /\ AllClosed' /\ Answered'
  <1>1. /\ box # <<>> /\ ms' = HostApply(ms, Head(box)) /\ UNCHANGED <<pc, todo, out, heard, got, last, result>>
    BY DEF Drain
  <1>2. /\ 1 \in DOMAIN box /\ Head(box) = box[1] /\ box[1].kind \in Kinds /\ IsHost(ms)
        /\ box[1].turn \in Prompt
    BY <1>1, TailIsSeq DEF IInv, Types, Shapes, Reports, LastWords
  <1> DEFINE word == box[1]
  <1>3. ms' = HostApply(ms, word) /\ word.kind \in Kinds /\ word.turn \in Prompt
    BY <1>1, <1>2
  <1> HIDE DEF word
  <1>4. ms'.live = ms.live /\ ms'.buffered = ms.buffered
    BY <1>2, <1>3, HostApplyFields DEF SameRest
  <1>5. ms'.said = ms.said \/ (ms.turn \in Prompt /\ Speaks(ms, ms'))
    <2>1. CASE word.turn # ms.turn
      BY <1>3, <2>1 DEF HostApply
    <2>2. CASE word.turn = ms.turn
      BY <1>2, <1>3, <2>2, HostApplySays DEF Kinds
    <2> QED BY <2>1, <2>2
  <1>6. AllClosed' /\ Answered'
    BY <1>1, <1>4 DEF SayInv, AllClosed, Closed, Answered
  <1>7. CASE ms'.said = ms.said
    <2>1. Rests
      BY <1>1, <1>4, <1>7 DEF Rests
    <2> QED BY <1>6, <2>1, RestsTells DEF SayInv
  <1>8. CASE ms.turn \in Prompt /\ Speaks(ms, ms')
    <2>1. ms.live.turn = ms.turn
      BY <1>8, Numbers DEF IInv, Turn
    <2>2. /\ DOMAIN ms'.said = Prompt /\ ms'.said[ms.turn] = ms.said[ms.turn] + 1
          /\ \A q \in Prompt : q # ms.turn => ms'.said[q] = ms.said[q]
      BY <1>8 DEF Speaks, SayInv, Counts
    <2>3. \A q \in Prompt : Emitted(q)' = Emitted(q)
      BY <1>4, <2>1, <2>2 DEF Emitted
    <2>4. Counts'
      <3>1. \A q \in Prompt : ms'.said[q] \in Nat
        BY <1>8, <2>2 DEF SayInv, Counts
      <3>2. ms.live.told \in Nat /\ ms.live.told <= ms.said[ms.turn] /\ ms.said[ms.turn] \in Nat
        BY <1>8, <2>1 DEF SayInv, Counts
      <3>3. ms.live.told <= ms'.said[ms.turn]
        BY <2>2, <3>2
      <3> QED BY <1>1, <1>4, <2>1, <2>2, <3>1, <3>2, <3>3 DEF SayInv, Counts
    <2>5. ASSUME NEW q \in Prompt PROVE Tells(q)'
      <3>1. \A f : Brings(f, q)' <=> Brings(f, q)
        BY <1>1, <2>3 DEF Brings
      <3> QED BY <1>1, <2>3, <3>1 DEF SayInv, AllTell, Tells, HandNote, WayNote
    <2> QED BY <1>6, <2>4, <2>5 DEF AllTell
  <1> QED BY <1>5, <1>7, <1>8

\* The first frame of a poll of the live turn is what was said since the poll before.
LEMMA ProjectTells ==
    ASSUME IInv, AskInv, SayInv, NEW p \in Prompt, Project(p)
    PROVE  Counts' /\ AllTell' /\ AllClosed' /\ Answered'
  <1> DEFINE s == PolledFrames(ms)
             n == Polled(ms)
  <1>1. /\ pc[p] = "drain" /\ ms' = n /\ UNCHANGED <<out, heard, got, result>>
        /\ todo' = [todo EXCEPT ![p] = s \o @] /\ pc' = [pc EXCEPT ![p] = "send"]
        /\ last' = [last EXCEPT ![p] = @ /\ n.live.turn = 0]
    BY DEF Project, Release
  <1>2. /\ IsHost(ms) /\ DOMAIN pc = Task /\ DOMAIN todo = Task /\ DOMAIN last = Prompt
        /\ p \in Task /\ p # 0 /\ Prompt \subseteq Task /\ 0 \notin Prompt
    BY Numbers DEF IInv, Types, Shapes
  <1>3. ms.live.turn \in {0, p}
    BY <1>1, GoingOwns DEF IInv, Going, Past
  <1>4. /\ IsSeq(s) /\ (ms.live.turn = 0 => s = <<>>)
        /\ ms.live.turn # 0 =>
             IF ms.said[ms.live.turn] > ms.live.told
             THEN s # <<>> /\ Head(s) = Note(ms.live.turn, ms.said[ms.live.turn] - ms.live.told)
             ELSE s # <<>> => Head(s).kind # "note"
    <2>1. ms.live.turn # 0 /\ ms.turn = ms.live.turn => ms.stop[ms.turn] = "None"
      BY DEF IInv, Turn
    <2> QED BY <1>2, <2>1, PollAsks
  <1>5. \A f \in ToSet(s) : f.kind = "result" => Ended(ms)
    BY FramesOfPoll DEF IsResultOf
  <1>6. /\ n.said = ms.said /\ n.buffered = ms.buffered
        /\ ms.live.turn = 0 => n = ms
        /\ Ended(ms) => n.live.turn = 0
        /\ ms.live.turn # 0 /\ ~Ended(ms) => n.live.turn = p /\ n.live.told = ms.said[p]
    BY <1>2, <1>3, PolledSays, PolledFields DEF Ended
  <1> HIDE DEF s, n
  <1>7. todo[p] = <<>> /\ \A i \in DOMAIN out : out[i].task # p
    BY <1>1, <1>2, OutOnlyWaits DEF AskInv, Brief
  <1>8. todo'[p] = s
    <2>1. todo'[p] = s \o todo[p]
      BY <1>1, <1>2
    <2> QED BY <1>4, <1>7, <2>1, EmptyConcat
  <1>9. \A q \in Prompt : q # p => todo'[q] = todo[q] /\ pc'[q] = pc[q] /\ last'[q] = last[q]
    BY <1>1, <1>2
  <1>10. heard[p] = Emitted(p) /\ heard[p] \in Nat /\ ms.said[p] \in Nat
    BY <1>7 DEF SayInv, AllTell, Tells, HandNote, WayNote, Counts
  <1>11. Counts'
    <2>1. ms'.live.turn \in Prompt => ms'.live.told \in Nat /\ ms'.live.told <= ms'.said[ms'.live.turn]
      <3>1. CASE ms.live.turn = 0 \/ Ended(ms)
        BY <1>1, <1>2, <1>6, <3>1
      <3>2. CASE ms.live.turn # 0 /\ ~Ended(ms)
        BY <1>1, <1>6, <1>10, <3>2
      <3> QED BY <3>1, <3>2
    <2> QED BY <1>1, <1>6, <2>1 DEF SayInv, Counts
  <1>12. ASSUME NEW q \in Prompt, q # p PROVE Tells(q)'
    <2>1. Emitted(q)' = Emitted(q)
      BY <1>1, <1>2, <1>3, <1>6, <1>12 DEF Emitted
    <2>2. \A f : Brings(f, q)' <=> Brings(f, q)
      BY <1>1, <2>1 DEF Brings
    <2>3. Tells(q)
      BY DEF SayInv, AllTell
    <2> QED BY <1>1, <1>9, <1>12, <2>1, <2>2, <2>3 DEF Tells, HandNote, WayNote
  <1>13. Tells(p)'
    <2>1. \A i \in DOMAIN out' : ~WayNote(p, i)'
      BY <1>1, <1>7 DEF WayNote
    <2>2. CASE ms.live.turn = 0
      <3>1. ~HandNote(p)' /\ Emitted(p)' = Emitted(p)
        BY <1>1, <1>2, <1>4, <1>6, <1>8, <2>2 DEF HandNote, Emitted
      <3> QED BY <1>1, <1>10, <2>1, <3>1 DEF Tells
    <2>3. CASE ms.live.turn = p
      <3>1. Emitted(p)' = ms.said[p] /\ heard[p] = ms.live.told
        BY <1>1, <1>2, <1>6, <1>10, <2>3 DEF Emitted
      <3>2. ms.live.told \in Nat /\ ms.live.told <= ms.said[p]
        BY <2>3 DEF SayInv, Counts
      <3>3. CASE ms.said[p] > ms.live.told
        <4> DEFINE f == Note(p, ms.said[p] - ms.live.told)
        <4>1. s # <<>> /\ Head(s) = f
          BY <1>2, <1>4, <2>3, <3>3
        <4>2. f.kind = "note" /\ f.turn = p /\ f.n = ms.said[p] - ms.live.told
          BY DEF Note
        <4> HIDE DEF f
        <4>3. f.n \in Nat /\ heard[p] + f.n = ms.said[p]
          BY <1>10, <3>1, <3>2, <3>3, <4>2
        <4>4. HandNote(p)' /\ Head(todo'[p]) = f
          BY <1>8, <4>1, <4>2 DEF HandNote
        <4>5. Brings(Head(todo[p]), p)'
          BY <1>1, <3>1, <4>2, <4>3, <4>4 DEF Brings
        <4> QED BY <2>1, <4>4, <4>5 DEF Tells
      <3>4. CASE ~(ms.said[p] > ms.live.told)
        <4>1. ~HandNote(p)'
          BY <1>2, <1>4, <1>8, <2>3, <3>4 DEF HandNote
        <4>2. heard'[p] = Emitted(p)'
          BY <1>1, <1>10, <3>1, <3>2, <3>4
        <4> QED BY <2>1, <4>1, <4>2 DEF Tells
      <3> QED BY <3>3, <3>4
    <2> QED BY <1>3, <2>2, <2>3
  <1>14. ASSUME NEW q \in Prompt PROVE Closed(q)'
    <2>1. CASE q # p
      <3>1. ms'.live.turn \in {0, p}
        BY <1>1, <1>3, <1>6
      <3> QED BY <1>2, <2>1, <3>1 DEF Closed
    <2>2. CASE q = p
      <3>1. got'[p] = got[p] /\ (got[p] # "None" => ms.live.turn # p)
        BY <1>1 DEF SayInv, AllClosed, Closed
      <3>2. ms.live.turn # p => ms'.live.turn # p
        BY <1>1, <1>2, <1>3, <1>6
      <3>3. last'[p] => ms'.live.turn # p
        BY <1>1, <1>2
      <3>4. (\E f \in ToSet(todo'[p]) : f.kind = "result") => ms'.live.turn # p
        BY <1>1, <1>2, <1>5, <1>6, <1>8
      <3>5. pc'[p] # "done"
        BY <1>1, <1>2
      <3> QED BY <2>2, <3>1, <3>2, <3>3, <3>4, <3>5 DEF Closed
    <2> QED BY <2>1, <2>2
  <1>15. Answered'
    BY <1>1, <1>2 DEF SayInv, Answered
  <1> QED BY <1>11, <1>12, <1>13, <1>14, <1>15 DEF AllTell, AllClosed

\* A step that moves frames changes neither what was said nor what was reported.
LEMMA SameCounts ==
    ASSUME Counts, ms' = ms, DOMAIN heard' = Prompt, \A p \in Prompt : heard'[p] \in Nat
    PROVE  Counts' /\ \A p : Emitted(p)' = Emitted(p)
  BY DEF Counts, Emitted

\* The others' frames are where they were.
LEMMA OthersTell ==
    ASSUME AllTell, ms' = ms, NEW p \in Prompt,
           \A q \in Prompt : q # p =>
             /\ heard'[q] = heard[q] /\ todo'[q] = todo[q]
             /\ \A i \in DOMAIN out' : out'[i].task = q => \E j \in DOMAIN out : out'[i] = out[j]
             /\ \A i \in DOMAIN out : out[i].task = q => \E j \in DOMAIN out' : out[i] = out'[j],
           Tells(p)'
    PROVE  AllTell'
  <1> SUFFICES ASSUME NEW q \in Prompt, q # p PROVE Tells(q)'
    BY DEF AllTell
  <1>1. Emitted(q)' = Emitted(q)
    BY DEF Emitted
  <1>2. \A f : Brings(f, q)' <=> Brings(f, q)
    BY <1>1 DEF Brings
  <1>3. (HandNote(q)' <=> HandNote(q)) /\ todo'[q] = todo[q] /\ heard'[q] = heard[q]
    BY DEF HandNote
  <1>4. \A i \in DOMAIN out' : WayNote(q, i)' => \E j \in DOMAIN out : out'[i] = out[j] /\ WayNote(q, j)
    BY DEF WayNote
  <1>5. (\A i \in DOMAIN out' : ~WayNote(q, i)') => \A i \in DOMAIN out : ~WayNote(q, i)
    BY DEF WayNote
  <1>6. Tells(q)
    BY DEF AllTell
  <1> HIDE DEF HandNote, WayNote, Emitted
  <1>7. HandNote(q)' => Brings(Head(todo[q]), q)'
    BY <1>2, <1>3, <1>6 DEF Tells
  <1>8. \A i \in DOMAIN out' : WayNote(q, i)' => ~HandNote(q)' /\ Brings(out[i].frame, q)'
    <2> SUFFICES ASSUME NEW i \in DOMAIN out', WayNote(q, i)'
                 PROVE  ~HandNote(q)' /\ Brings(out[i].frame, q)'
      OBVIOUS
    <2>1. PICK j \in DOMAIN out : out'[i] = out[j] /\ WayNote(q, j)
      BY <1>4
    <2>2. ~HandNote(q) /\ Brings(out[j].frame, q)
      BY <1>6, <2>1 DEF Tells
    <2>3. Brings(out[j].frame, q) <=> /\ out'[i].frame.turn = q /\ out'[i].frame.n \in Nat
                                      /\ heard'[q] + out'[i].frame.n = Emitted(q)'
      BY <1>1, <1>3, <2>1 DEF Brings
    <2> QED BY <1>3, <2>2, <2>3 DEF Brings
  <1> QED BY <1>1, <1>3, <1>5, <1>6, <1>7, <1>8 DEF Tells

LEMMA TakeResultTells ==
    ASSUME IInv, AskInv, SayInv, NEW p \in Prompt, TakeResult(p)
    PROVE  Counts' /\ AllTell' /\ AllClosed' /\ Answered'
  <1>1. /\ pc[p] = "send" /\ todo[p] # <<>> /\ Head(todo[p]).kind = "result"
        /\ UNCHANGED <<ms, out, heard, last>> /\ todo' = [todo EXCEPT ![p] = Tail(@)]
        /\ \/ pc' = [pc EXCEPT ![p] = "done"] /\ got' = got
              /\ \E r \in {"Failed", "Error"} : result' = [result EXCEPT ![p] = r]
           \/ pc' = pc /\ result' = result /\ \E g : got' = [got EXCEPT ![p] = g]
           \/ pc' = pc /\ result' = result /\ got' = got
    BY DEF TakeResult
  <1>2. /\ DOMAIN pc = Task /\ DOMAIN todo = Task /\ DOMAIN got = Task /\ DOMAIN result = Prompt
        /\ p \in Task /\ Prompt \subseteq Task
    BY Numbers DEF IInv, Types, Shapes
  <1>3. todo'[p] = <<>>
    BY <1>1, <1>2, BriefTail
  <1>4. \A q \in Prompt : q # p => todo'[q] = todo[q] /\ pc'[q] = pc[q] /\ got'[q] = got[q]
    BY <1>1, <1>2
  <1>5. ms.live.turn # p
    <2>1. IsSeq(todo[p])
      BY <1>2 DEF AskInv, Framed
    <2>2. Head(todo[p]) \in ToSet(todo[p])
      BY <1>1, <2>1, TailIsSeq, ElementsOf
    <2> QED BY <1>1, <2>2 DEF SayInv, AllClosed, Closed
  <1>6. Counts' /\ \A q : Emitted(q)' = Emitted(q)
    BY <1>1, SameCounts DEF SayInv, Counts
  <1>7. Tells(p)'
    <2>1. ~HandNote(p) /\ ~HandNote(p)' /\ \A i \in DOMAIN out : out[i].task # p
      BY <1>1, <1>2, <1>3, OutOnlyWaits DEF HandNote
    <2>2. Tells(p)
      BY DEF SayInv, AllTell
    <2> QED BY <1>1, <1>6, <2>1, <2>2 DEF Tells, WayNote
  <1>8. AllTell'
    BY <1>1, <1>4, <1>7, OthersTell DEF SayInv
  <1>9. ASSUME NEW q \in Prompt PROVE Closed(q)'
    <2>1. CASE q # p
      BY <1>1, <1>4, <2>1 DEF SayInv, AllClosed, Closed
    <2>2. CASE q = p
      BY <1>1, <1>5, <2>2 DEF Closed
    <2> QED BY <2>1, <2>2
  <1>10. Answered'
    BY <1>1, <1>2 DEF SayInv, Answered
  <1> QED BY <1>6, <1>8, <1>9, <1>10 DEF AllClosed

\* A note that is sent is on its way, and it was the only one.
LEMMA SendFrameTells ==
    ASSUME IInv, AskInv, SayInv, NEW p \in Prompt, SendFrame(p)
    PROVE  Counts' /\ AllTell' /\ AllClosed' /\ Answered'
  <1> DEFINE call == [task |-> p, frame |-> Head(todo[p])]
  <1>1. /\ pc[p] = "send" /\ todo[p] # <<>> /\ out' = Append(out, call)
        /\ todo' = [todo EXCEPT ![p] = Tail(@)] /\ pc' = [pc EXCEPT ![p] = "ack"]
        /\ UNCHANGED <<ms, got, last, result, heard>>
    BY DEF SendFrame
  <1>2. call.task = p /\ call.frame = Head(todo[p])
    OBVIOUS
  <1> HIDE DEF call
  <1>3. DOMAIN pc = Task /\ DOMAIN todo = Task /\ p \in Task /\ Prompt \subseteq Task
    BY Numbers DEF IInv, Types, Shapes
  <1>4. \A q \in Prompt : q # p => todo'[q] = todo[q] /\ pc'[q] = pc[q]
    BY <1>1, <1>3
  <1>5. /\ DOMAIN out' = 1..Len(out) + 1 /\ DOMAIN out = 1..Len(out) /\ Len(out) \in Nat
        /\ (\A i \in DOMAIN out : out'[i] = out[i]) /\ out'[Len(out) + 1] = call
    BY <1>1, AppendIsSeq DEF IInv, Types, Shapes
  <1>6. /\ \A i \in DOMAIN out' : (i \in DOMAIN out /\ out'[i] = out[i]) \/ out'[i] = call
        /\ \A i \in DOMAIN out : i \in DOMAIN out'
        /\ \E i \in DOMAIN out' : out'[i] = call
    BY <1>5
  <1>7. \A i \in DOMAIN out : out[i].task # p
    BY <1>1, <1>3, OutOnlyWaits
  <1>8. Counts' /\ \A q : Emitted(q)' = Emitted(q)
    BY <1>1, SameCounts DEF SayInv, Counts
  <1>9. /\ IsSeq(todo[p]) /\ IsSeq(todo'[p]) /\ todo'[p] = Tail(todo[p])
        /\ \A f \in ToSet(todo'[p]) : f \in ToSet(todo[p])
    BY <1>1, <1>3, TailIsSeq, TailElements DEF AskInv, Framed
  <1>10. ~HandNote(p)'
    <2> SUFFICES ASSUME todo'[p] # <<>> PROVE Head(todo'[p]).kind # "note"
      BY DEF HandNote
    <2> DEFINE s == todo[p]
               t == Tail(todo[p])
    <2>1. IsSeq(s) /\ s # <<>> /\ IsSeq(t) /\ t # <<>> /\ todo'[p] = t /\ t = Tail(s)
      BY <1>1, <1>9
    <2>2. Len(s) <= 2 /\ (Len(s) = 2 => s[2].kind # "note")
      BY DEF AskInv, Brief
    <2> HIDE DEF s, t
    <2>3. /\ Len(t) = Len(s) - 1 /\ \A i \in DOMAIN t : t[i] = s[i + 1]
          /\ 1 \in DOMAIN t /\ Head(t) = t[1]
      BY <2>1, TailIsSeq
    <2>4. DOMAIN t = 1..Len(t) /\ Len(t) \in Nat /\ Len(s) \in Nat
      BY <2>1, ElementsOf
    <2>5. 1 <= Len(t)
      BY <2>3, <2>4
    <2>6. Len(s) = 2 /\ Head(t) = s[1 + 1]
      BY <2>2, <2>3, <2>4, <2>5
    <2> QED BY <2>1, <2>2, <2>6
  <1>11. Tells(p)'
    <2>1. Tells(p) /\ \A i \in DOMAIN out : ~WayNote(p, i)
      BY <1>7 DEF SayInv, AllTell, WayNote
    <2>2. \A f : Brings(f, p)' <=> Brings(f, p)
      BY <1>1, <1>8 DEF Brings
    <2>3. \A i \in DOMAIN out' : WayNote(p, i)' => out'[i] = call /\ HandNote(p)
      BY <1>1, <1>2, <1>6, <1>7 DEF WayNote, HandNote
    <2>4. \A i \in DOMAIN out' : WayNote(p, i)' => Brings(out[i].frame, p)'
      <3> SUFFICES ASSUME NEW i \in DOMAIN out', WayNote(p, i)' PROVE Brings(out[i].frame, p)'
        OBVIOUS
      <3>1. out'[i].frame = Head(todo[p]) /\ Brings(Head(todo[p]), p)
        BY <1>2, <2>1, <2>3 DEF Tells
      <3> QED BY <1>1, <1>8, <3>1 DEF Brings
    <2>5. (\A i \in DOMAIN out' : ~WayNote(p, i)') => ~HandNote(p)
      BY <1>1, <1>2, <1>6 DEF WayNote, HandNote
    <2>6. (\A i \in DOMAIN out' : ~WayNote(p, i)') => heard'[p] = Emitted(p)'
      BY <1>1, <1>8, <2>1, <2>5 DEF Tells
    <2> QED BY <1>10, <2>4, <2>6 DEF Tells
  <1>12. AllTell'
    <2>1. \A q \in Prompt : q # p =>
             /\ heard'[q] = heard[q] /\ todo'[q] = todo[q]
             /\ \A i \in DOMAIN out' : out'[i].task = q => \E j \in DOMAIN out : out'[i] = out[j]
             /\ \A i \in DOMAIN out : out[i].task = q => \E j \in DOMAIN out' : out[i] = out'[j]
      BY <1>1, <1>2, <1>4, <1>5, <1>6
    <2> QED BY <1>1, <1>11, <2>1, OthersTell DEF SayInv
  <1>13. ASSUME NEW q \in Prompt PROVE Closed(q)'
    <2>1. CASE q # p
      BY <1>1, <1>4, <2>1 DEF SayInv, AllClosed, Closed
    <2>2. CASE q = p
      BY <1>1, <1>3, <1>9, <2>2 DEF SayInv, AllClosed, Closed
    <2> QED BY <2>1, <2>2
  <1>14. Answered'
    BY <1>1, <1>3 DEF SayInv, Answered
  <1> QED BY <1>8, <1>12, <1>13, <1>14 DEF AllClosed

\* The first call at the dispatcher, p's, is gone; the other prompts' calls stay.
Served(p) ==
    /\ p \in Prompt /\ 1 \in DOMAIN out /\ out[1] = Head(out)
    /\ AllClosed' /\ Answered'
    /\ \A i \in DOMAIN out' : out'[i].task # p
    /\ \A i \in DOMAIN out : out[i].task = p => i = 1
    /\ \A q \in Prompt : q # p =>
         /\ \A i \in DOMAIN out' : out'[i].task = q => \E j \in DOMAIN out : out'[i] = out[j]
         /\ \A i \in DOMAIN out : out[i].task = q => \E j \in DOMAIN out' : out[i] = out'[j]

\* The dispatcher's call returns to the prompt that sent it.
LEMMA ReturnTells ==
    ASSUME IInv, SayInv, Quiet, out # <<>>, out' = Tail(out), NEW p, p = Head(out).task,
           UNCHANGED <<ms, todo, got, last, result>>,
           \E at \in {"send", "apply"} : pc' = [pc EXCEPT ![p] = at]
    PROVE  Served(p)
  <1>0. PICK at \in {"send", "apply"} : pc' = [pc EXCEPT ![p] = at]
    OBVIOUS
  <1>1. /\ 1 \in DOMAIN out /\ Head(out) = out[1] /\ p \in Task /\ pc[p] = "ack"
        /\ \A i \in DOMAIN out' : \E j \in DOMAIN out : out'[i] = out[j] /\ out[j].task # p
    BY OutServed
  <1>2. p \in Prompt
    BY <1>1, Numbers DEF Quiet
  <1>3. \A i \in DOMAIN out : out[i].task = p => i = 1
    BY <1>1 DEF IInv, Sent
  <1>4. \A i \in DOMAIN out : i # 1 => i - 1 \in DOMAIN out' /\ out'[i - 1] = out[i]
    <2>1. /\ IsSeq(out) /\ IsSeq(out') /\ Len(out') = Len(out) - 1
          /\ \A i \in DOMAIN out' : out'[i] = out[i + 1]
      BY TailIsSeq DEF IInv, Types, Shapes
    <2>2. /\ DOMAIN out = 1..Len(out) /\ Len(out) \in Nat
          /\ DOMAIN out' = 1..Len(out') /\ Len(out') \in Nat
      BY <2>1, ElementsOf
    <2>3. \A i \in DOMAIN out : i # 1 => i - 1 \in DOMAIN out' /\ (i - 1) + 1 = i
      BY <2>1, <2>2
    <2> QED BY <2>1, <2>3
  <1>5. DOMAIN pc = Task /\ Prompt \subseteq Task
    BY Numbers DEF IInv, Types, Shapes
  <1>6. ASSUME NEW q \in Prompt PROVE Closed(q)'
    <2>1. pc'[q] = pc[q] \/ (q = p /\ pc'[q] \in {"send", "apply"})
      BY <1>0, <1>1, <1>5
    <2> QED BY <1>1, <2>1 DEF SayInv, AllClosed, Closed
  <1>7. Answered'
    BY <1>0, <1>1, <1>5 DEF SayInv, Answered
  <1> QED BY <1>1, <1>2, <1>3, <1>4, <1>6, <1>7 DEF AllClosed, Served

LEMMA DeliverTells ==
    ASSUME IInv, SayInv, Quiet, Deliver
    PROVE  Counts' /\ AllTell' /\ AllClosed' /\ Answered'
  <1>1. PICK p, f : p = Head(out).task /\ f = Head(out).frame
    OBVIOUS
  <1>2. /\ out # <<>> /\ out' = Tail(out) /\ f.kind = "note"
        /\ heard' = [heard EXCEPT ![f.turn] = @ + f.n] /\ pc' = [pc EXCEPT ![p] = "send"]
        /\ UNCHANGED <<ms, todo, got, last, result>>
    BY <1>1 DEF Deliver
  <1>3. /\ p \in Prompt /\ 1 \in DOMAIN out /\ out[1] = Head(out)
        /\ AllClosed' /\ Answered'
        /\ \A i \in DOMAIN out' : out'[i].task # p
        /\ \A i \in DOMAIN out : out[i].task = p => i = 1
        /\ \A q \in Prompt : q # p =>
             /\ \A i \in DOMAIN out' : out'[i].task = q => \E j \in DOMAIN out : out'[i] = out[j]
             /\ \A i \in DOMAIN out : out[i].task = q => \E j \in DOMAIN out' : out[i] = out'[j]
    <2>1. out # <<>> /\ out' = Tail(out) /\ p = Head(out).task /\ pc' = [pc EXCEPT ![p] = "send"]
      BY <1>1, <1>2
    <2>2. IInv /\ SayInv /\ Quiet /\ UNCHANGED <<ms, todo, got, last, result>>
      BY <1>2
    <2>3. \E at \in {"send", "apply"} : pc' = [pc EXCEPT ![p] = at]
      BY <2>1
    <2>4. Served(p)
      BY ONLY <2>1, <2>2, <2>3, ReturnTells
    <2> QED BY ONLY <2>4 DEF Served
  <1>4. WayNote(p, 1) /\ ~HandNote(p) /\ Brings(f, p)
    BY <1>1, <1>2, <1>3 DEF WayNote, SayInv, AllTell, Tells
  <1>5. /\ DOMAIN heard = Prompt /\ heard[p] \in Nat /\ f.n \in Nat /\ f.turn = p
        /\ heard[p] + f.n = Emitted(p)
    BY <1>3, <1>4 DEF Brings, SayInv, Counts
  <1>6. /\ DOMAIN heard' = Prompt /\ heard'[p] = Emitted(p) /\ heard'[p] \in Nat
        /\ \A q \in Prompt : q # p => heard'[q] = heard[q]
    BY <1>2, <1>3, <1>5
  <1>7. Counts' /\ \A q : Emitted(q)' = Emitted(q)
    BY <1>2, <1>6, SameCounts DEF SayInv, Counts
  <1>8. Tells(p)'
    BY <1>2, <1>3, <1>4, <1>6, <1>7 DEF Tells, WayNote, HandNote
  <1>9. AllTell'
    BY <1>2, <1>3, <1>6, <1>8, OthersTell DEF SayInv
  <1> QED BY <1>3, <1>7, <1>9

LEMMA AnswerTells ==
    ASSUME IInv, SayInv, Quiet, Answer
    PROVE  Counts' /\ AllTell' /\ AllClosed' /\ Answered'
  <1>1. PICK p, f : p = Head(out).task /\ f = Head(out).frame
    OBVIOUS
  <1>2. /\ out # <<>> /\ out' = Tail(out) /\ f.kind = "permission"
        /\ \E at \in {"send", "apply"} : pc' = [pc EXCEPT ![p] = at]
        /\ UNCHANGED <<ms, todo, got, last, result, heard>>
    BY <1>1 DEF Answer, Acquire
  <1>3. /\ p \in Prompt /\ 1 \in DOMAIN out /\ out[1] = Head(out)
        /\ AllClosed' /\ Answered'
        /\ \A i \in DOMAIN out' : out'[i].task # p
        /\ \A i \in DOMAIN out : out[i].task = p => i = 1
        /\ \A q \in Prompt : q # p =>
             /\ \A i \in DOMAIN out' : out'[i].task = q => \E j \in DOMAIN out : out'[i] = out[j]
             /\ \A i \in DOMAIN out : out[i].task = q => \E j \in DOMAIN out' : out[i] = out'[j]
    <2>1. out # <<>> /\ out' = Tail(out) /\ p = Head(out).task
      BY <1>1, <1>2
    <2>2. IInv /\ SayInv /\ Quiet /\ UNCHANGED <<ms, todo, got, last, result>>
      BY <1>2
    <2>3. \E at \in {"send", "apply"} : pc' = [pc EXCEPT ![p] = at]
      BY <1>2
    <2>4. Served(p)
      BY ONLY <2>1, <2>2, <2>3, ReturnTells
    <2> QED BY ONLY <2>4 DEF Served
  <1>4. (\A i \in DOMAIN out : ~WayNote(p, i)) /\ (\A i \in DOMAIN out' : ~WayNote(p, i)') /\ Tells(p)
    BY <1>1, <1>2, <1>3 DEF WayNote, SayInv, AllTell
  <1>5. Counts' /\ \A q : Emitted(q)' = Emitted(q)
    BY <1>2, SameCounts DEF SayInv, Counts
  <1>6. (\A g : Brings(g, p)' <=> Brings(g, p)) /\ (HandNote(p)' <=> HandNote(p)) /\ todo'[p] = todo[p]
    BY <1>2, <1>5 DEF Brings, HandNote
  <1>7. Tells(p)'
    BY <1>2, <1>4, <1>5, <1>6 DEF Tells
  <1>8. AllTell'
    BY <1>2, <1>3, <1>7, OthersTell DEF SayInv
  <1> QED BY <1>3, <1>5, <1>8

\* A question that waits is about the call that waits, for nobody cancelled the turn.
LEMMA AwaitsKept ==
    ASSUME IInv, Reports, SayInv, [Next]_vars, Quiet', NEW k, Awaits(k),
           ~ \E p \in Prompt : Start(p) \/ ApplyAnswer(p)
    PROVE  Awaits(k)'
  <1>1. IsHost(ms)
    BY DEF IInv, Types, Shapes
  <1>2. CASE \E t \in Task : Drain(t)
    <2>1. 1 \in DOMAIN box /\ Head(box) = box[1] /\ ms' = HostApply(ms, Head(box))
      BY <1>2, TailIsSeq DEF Drain, IInv, Types, Shapes
    <2>2. box[1].turn # ms.turn
      BY <2>1 DEF Awaits, Reports, Pauses
    <2>3. ms' = ms
      BY <2>1, <2>2 DEF HostApply
    <2> QED BY <2>3 DEF Awaits
  <1>3. CASE Runtime
    <2>1. ms' = ms \/ ms' = [ms EXCEPT !.src = "none"]
      BY <1>3 DEF Runtime, Report
    <2> QED BY <1>1, <2>1 DEF IsHost, HostFields, Awaits
  <1>4. ASSUME NEW p \in Prompt, SendPrompt(p) \/ PromptStep(p), ~Drain(p) PROVE Awaits(k)'
    <2>1. CASE Project(p)
      <3>1. SamePhase(ms, ms')
        BY <1>1, <2>1, PolledSays DEF Project
      <3> QED BY <3>1 DEF SamePhase, Awaits
    <2>2. CASE ms' = ms
      BY <2>2 DEF Awaits
    <2>3. CASE Loop(p) \/ PollTurn(p)
      <3>1. ~TakesBuffered(p)
        BY DEF SayInv, Counts, TakesBuffered
      <3> QED BY <2>2, <2>3, <3>1 DEF Loop, PollTurn, FindsTurnOver
    <2>4. CASE SendPrompt(p) \/ SendFrame(p) \/ TakeResult(p) \/ FramesSent(p) \/ Wake(p)
      BY <2>2, <2>4 DEF SendPrompt, SendFrame, TakeResult, FramesSent, Wake
    <2> QED BY <1>4, <2>1, <2>3, <2>4 DEF PromptStep
  <1>5. CASE Deliver \/ Answer \/ UNCHANGED vars
    BY <1>5 DEF Deliver, Answer, vars, Awaits
  <1> QED BY <1>2, <1>3, <1>4, <1>5, QuietSteps, Numbers

LEMMA NextSays ==
    ASSUME IInv, Reports, AskInv, DOMAIN ask = Task, Quiet => SayInv, [Next]_vars, Quiet'
    PROVE  SayInv'
  <1>1. /\ Quiet /\ SayInv
        /\ \/ \E p \in Prompt : SendPrompt(p) \/ PromptStep(p)
           \/ Deliver \/ Answer \/ Runtime \/ UNCHANGED vars
    BY QuietSteps
  <1>2. Counts /\ AllTell /\ AllClosed /\ Answered /\ AllAwait
    BY <1>1 DEF SayInv
  <1>3. AllAwait'
    <2>1. CASE \E p \in Prompt : Start(p) \/ ApplyAnswer(p)
      BY <2>1, NobodyAsks DEF AllAwait
    <2>2. CASE ~ \E p \in Prompt : Start(p) \/ ApplyAnswer(p)
      <3> SUFFICES ASSUME NEW p \in Prompt, NEW k, HasAsked(p, k)' \/ Applies(p, k)' PROVE Awaits(k)'
        BY DEF AllAwait
      <3>1. Awaits(k) => Awaits(k)'
        BY <1>1, <2>2, AwaitsKept
      <3> QED BY <1>2, <3>1, AskedBefore, AppliesBefore DEF AllAwait
    <2> QED BY <2>1, <2>2
  <1>4. Counts' /\ AllTell' /\ AllClosed' /\ Answered'
    <2>1. ASSUME NEW p \in Prompt, Start(p) \/ Drain(p) \/ Project(p) \/ SendFrame(p) \/ TakeResult(p)
          PROVE  Counts' /\ AllTell' /\ AllClosed' /\ Answered'
      BY <1>1, <2>1, StartTells, DrainTells, ProjectTells, SendFrameTells, TakeResultTells, Numbers
    <2>2. ASSUME NEW p \in Prompt, SendPrompt(p) \/ FramesSent(p) \/ Loop(p) \/ Wake(p) \/ PollTurn(p) \/ ApplyAnswer(p)
          PROVE  Counts' /\ AllTell' /\ AllClosed' /\ Answered'
      BY <1>2, <2>2, RestingSteps, RestsTells
    <2>3. CASE Deliver \/ Answer
      BY <1>1, <2>3, DeliverTells, AnswerTells
    <2>4. CASE Runtime \/ UNCHANGED vars
      <3>1. UNCHANGED <<todo, out, heard, got, pc, last, result>>
            /\ (ms' = ms \/ ms' = [ms EXCEPT !.src = "none"])
        BY <2>4 DEF Runtime, Report, vars
      <3>2. Rests
        BY <3>1 DEF Rests, IInv, Types, Shapes, IsHost, HostFields
      <3> QED BY <1>2, <3>1, <3>2, RestsTells, NothingDone
    <2> QED BY <1>1, <2>1, <2>2, <2>3, <2>4 DEF PromptStep
  <1> QED BY <1>3, <1>4 DEF SayInv

LEMMA InitSays == Init => SayInv
  <1> SUFFICES ASSUME Init PROVE SayInv
    OBVIOUS
  <1>1. /\ out = <<>> /\ Prompt \subseteq Task
        /\ \A p \in Prompt : /\ todo[p] = <<>> /\ pc[p] = "idle" /\ got[p] = "None" /\ result[p] = "None"
                             /\ heard[p] = 0 /\ ms.said[p] = 0
        /\ DOMAIN heard = Prompt /\ DOMAIN ms.said = Prompt /\ ms.buffered = "None" /\ ms.live.turn = 0
        /\ 0 \notin Prompt
    BY Numbers DEF Init, NoLive
  <1>2. \A p \in Prompt : \A k : ~HasAsked(p, k) /\ ~Applies(p, k)
    BY <1>1, EmptyAsks, NothingAsked DEF HasAsked, InOut, Applies
  <1>3. Counts
    BY <1>1 DEF Counts
  <1>4. AllTell
    BY <1>1 DEF AllTell, Tells, HandNote, Emitted
  <1>5. AllClosed
    BY <1>1 DEF AllClosed, Closed
  <1> QED BY <1>1, <1>2, <1>3, <1>4, <1>5 DEF SayInv, Answered, AllAwait

LEMMA TextIsKept == ASSUME CancelDuring \subseteq {Final} PROVE Spec => [](AInv /\ (Quiet => SayInv))
  <1>1. Init => (Quiet => SayInv)
    BY InitSays
  <1>2. AInv /\ (Quiet => SayInv) /\ [Next]_vars => (Quiet => SayInv)'
    BY NextSays DEF AInv, Verdicts
  <1> QED BY <1>1, <1>2, QuestionsAreKept, PTL DEF Spec

\* A turn that ran to its end reached the client as a whole before the response did,
\* unless a cancel was sent: what every poll found said but not emitted went to the
\* client, acknowledged, before the task polled again or returned
\* (PromptTurnEmissionState::project_frames, process_prompt_outbound_frames).
THEOREM EndedTurnsAreHeard == ASSUME CancelDuring \subseteq {Final} PROVE Spec => []NothingUnsaid
  <1>1. AInv /\ (Quiet => SayInv) => NothingUnsaid
    <2> SUFFICES ASSUME AInv, SayInv, NEW p \in Prompt, result[p] = "EndTurn"
                 PROVE  heard[p] = ms.said[p]
      BY DEF NothingUnsaid, Quiet
    <2>1. pc[p] = "done" /\ ms.live.turn # p
      BY DEF SayInv, Answered, AllClosed, Closed
    <2>2. ~HandNote(p) /\ \A i \in DOMAIN out : ~WayNote(p, i)
      BY <2>1, OutOnlyWaits, Numbers DEF AInv, AskInv, Brief, HandNote, WayNote
    <2> QED BY <2>1, <2>2 DEF SayInv, AllTell, Tells, Emitted
  <1> QED BY <1>1, TextIsKept, PTL
=============================================================================
