---------------------------- MODULE ScreenProofs ----------------------------
(* The screen is current whenever the loop is parked and nothing will wake *)
(* it, for any sessions, texts, window and number of messages and keys.    *)
(* The invariant follows the three places a change passes through: the     *)
(* cache, which is of the projection unless it is marked dirty; the draw,  *)
(* which is of the projection until there is news; and the wake signal,    *)
(* which holds a permit whenever there is news for a parked loop.          *)
EXTENDS ScreenProperties, TLAPS

Fields == {"session", "sessions", "status", "error", "ask", "top", "follow", "draft", "run",
           "active", "items", "invs", "texts", "next", "merge", "dirty", "cache"}

Places == {"poll", "draw", "wait", "parked", "burst", "drained", "list", "load"}

Record(p) == p = [f \in Fields |-> p[f]]

\* a projection whose cache is of it, or marked dirty
Cached(p) == Record(p) /\ (p.dirty = TRUE \/ (p.dirty = FALSE /\ p.cache = Sources(p)))

Loop == [at : Places, then : {"poll", "draw", "drained"}]

LoopType ==
    /\ ui \in Loop
    /\ news \in [draw : BOOLEAN, burst : BOOLEAN]
    /\ permit \in BOOLEAN

Waits == ui.at \in {"wait", "parked"}

IInv ==
    /\ LoopType
    /\ Cached(projection)
    /\ Waits /\ news.draw = FALSE => drawn = projection /\ projection.dirty = FALSE
    /\ ui.at = "parked" /\ news.draw = TRUE => permit = TRUE

-----------------------------------------------------------------------------
(* What a handler leaves is a projection marked dirty.                     *)

Dirty(p) == Record(p) /\ p.dirty = TRUE

LEMMA DirtyIsCached == ASSUME NEW p, Dirty(p) PROVE Cached(p)
BY DEF Dirty, Cached

LEMMA Assigned ==
  ASSUME NEW p, Record(p), NEW f \in Fields, NEW v
  PROVE  Record([p EXCEPT ![f] = v])
BY DEF Record

LEMMA RefreshedIsDirty ==
  ASSUME NEW p, Record(p)
  PROVE  Dirty(Refreshed(p))
BY DEF Record, Refreshed, Dirty, Fields

LEMMA EmptyIsDirty ==
  ASSUME NEW s, NEW sessions
  PROVE  Dirty(Empty(s, sessions))
<1> DEFINE e == Empty(s, sessions)
<1>1. DOMAIN e = Fields /\ e.dirty = TRUE
  BY DEF Empty, Fields
<1>2. e = [f \in Fields |-> e[f]]
  BY DEF Empty, Fields
<1> QED BY <1>1, <1>2 DEF Dirty, Record

LEMMA ResetIsDirty ==
  ASSUME NEW p, NEW s
  PROVE  Dirty(Reset(p, s))
<1> DEFINE e == Empty(s, p.sessions)
<1>1. Dirty(e)
  BY EmptyIsDirty
<1> HIDE DEF e
<1>2. Dirty([e EXCEPT !.cache = p.cache])
  BY <1>1 DEF Dirty, Record, Fields
<1> QED BY <1>2 DEF Reset, e

LEMMA PutItemIsRecord ==
  ASSUME NEW p, Record(p), NEW id, NEW open, NEW mark
  PROVE  Record(PutItem(p, id, open, mark))
BY DEF PutItem, Record

LEMMA PutCallIsRecord ==
  ASSUME NEW p, Record(p), NEW i, NEW call
  PROVE  Record(PutCall(p, i, call))
<1> DEFINE q == PutItem(p, <<"Tool", i>>, call.exec \in {"NotStarted", "Running"}, call.exec)
<1>1. Record(q)
  BY PutItemIsRecord
<1> HIDE DEF q
<1>2. Record([q EXCEPT !.invs = (i :> call) @@ @])
  BY <1>1 DEF Record
<1> QED BY <1>2 DEF PutCall, q

LEMMA CommitIsRecord ==
  ASSUME NEW p, Record(p)
  PROVE  Record(Commit(p))
BY DEF Commit, Record

LEMMA FinishedIsDirty ==
  ASSUME NEW p, Record(p), NEW outcome
  PROVE  Dirty(PromptFinished(p, outcome))
<1> DEFINE q == Commit(p)
           q2 == [q EXCEPT !.active = NoRun, !.status = outcome, !.error = outcome = "Failed",
                           !.merge = 0]
<1>1. Record(q)
  BY CommitIsRecord
<1> HIDE DEF q
<1>2. Record(q2)
  BY <1>1 DEF Record
<1> HIDE DEF q2
<1>3. Dirty(Refreshed(q2))
  BY <1>2, RefreshedIsDirty
<1> QED BY <1>3 DEF PromptFinished, q, q2

LEMMA StartedIsDirty ==
  ASSUME NEW p, Record(p), NEW r
  PROVE  Dirty(PromptStarted(p, r))
<1> DEFINE q == [p EXCEPT !.error = FALSE, !.draft = FALSE, !.run = r, !.active = r,
                          !.status = "Running", !.merge = 0]
<1>1. Record(q)
  BY DEF Record
<1> HIDE DEF q
<1> QED BY <1>1, RefreshedIsDirty DEF PromptStarted, q

LEMMA LoadedIsDirty ==
  ASSUME NEW p, Record(p), NEW status
  PROVE  Dirty(LoadedSession(p, status))
<1> DEFINE q == [p EXCEPT !.status = status, !.active = IF status \in Active THEN p.run ELSE NoRun]
<1>1. Record(q)
  BY DEF Record
<1> HIDE DEF q
<1> QED BY <1>1, RefreshedIsDirty DEF LoadedSession, q

LEMMA ChunkIsDirty ==
  ASSUME NEW p, Record(p), NEW kind, NEW document, NEW length
  PROVE  Dirty(Chunk(p, kind, document, length))
<1> DEFINE busy == kind # "User" /\ InFlight(p)
           q == [p EXCEPT !.status = IF busy THEN "Running" ELSE @, !.active = IF busy THEN p.run ELSE @]
           id == <<kind, p.next>>
           longer == [q EXCEPT !.texts[<<kind, p.merge>>].length = length]
           put == PutItem(q, id, kind # "User", "")
           added == [put EXCEPT !.texts = (id :> [document |-> document, length |-> length]) @@ @,
                                !.merge = p.next]
<1>1. Record(q)
  BY DEF Record
<1>2. Chunk(p, kind, document, length) = IF Growing(p, kind) # {} THEN Refreshed(longer) ELSE Refreshed(added)
  BY DEF Chunk
<1> HIDE DEF q
<1>3. Dirty(Refreshed(longer))
  <2>1. Record(longer)
    BY <1>1 DEF Record
  <2> HIDE DEF longer
  <2> QED BY <2>1, RefreshedIsDirty
<1>4. Dirty(Refreshed(added))
  <2>1. Record(put)
    BY <1>1, PutItemIsRecord
  <2> HIDE DEF put
  <2>2. Record(added)
    BY <2>1 DEF Record
  <2> HIDE DEF added
  <2> QED BY <2>2, RefreshedIsDirty
<1> HIDE DEF longer, added
<1> QED BY <1>2, <1>3, <1>4

LEMMA ToolCallIsDirty ==
  ASSUME NEW p, Record(p), NEW i, NEW tool, NEW exec
  PROVE  Dirty(ToolCall(p, i, tool, exec))
<1> DEFINE approval == IF i \in Calls(p) THEN p.invs[i].approval ELSE "Approved"
           running == exec = "Running" /\ i \in Calls(p)
           put == PutCall(p, i, [tool |-> tool, run |-> p.run, approval |-> approval, exec |-> exec])
           q == [put EXCEPT !.merge = 0, !.status = IF running THEN "RunningTool" ELSE @,
                            !.active = IF running THEN p.run ELSE @]
<1>1. Record(put)
  BY PutCallIsRecord
<1>2. ToolCall(p, i, tool, exec) = Refreshed(q)
  BY DEF ToolCall
<1> HIDE DEF put
<1>3. Record(q)
  BY <1>1 DEF Record
<1> HIDE DEF q
<1> QED BY <1>2, <1>3, RefreshedIsDirty

LEMMA RequestedIsDirty ==
  ASSUME NEW p, Record(p), NEW i
  PROVE  Dirty(PermissionRequested(p, i))
<1> DEFINE put == PutCall(p, i, [p.invs[i] EXCEPT !.approval = "Pending"])
           q == IF i \in Calls(p) THEN put ELSE p
           asked == [q EXCEPT !.ask = i, !.status = "AwaitingToolApproval", !.active = p.run]
<1>1. PermissionRequested(p, i) = Refreshed(asked)
  BY DEF PermissionRequested
<1>2. Record(put)
  BY PutCallIsRecord
<1> HIDE DEF put
<1>3. Record(q)
  BY <1>2
<1> HIDE DEF q
<1>4. Record(asked)
  BY <1>3 DEF Record
<1> HIDE DEF asked
<1> QED BY <1>1, <1>4, RefreshedIsDirty

LEMMA SelectedIsDirty ==
  ASSUME NEW p, Record(p), NEW allow
  PROVE  Dirty(PermissionSelected(p, allow))
<1> DEFINE i == p.ask
           put == PutCall(p, i, [p.invs[i] EXCEPT !.approval = IF allow THEN "Approved" ELSE "Denied"])
           q == IF i \in Calls(p) THEN put ELSE p
           answered == [q EXCEPT !.ask = NoCall, !.status = IF allow THEN "RunningTool" ELSE "Running"]
<1>1. PermissionSelected(p, allow) = Refreshed(answered)
  BY DEF PermissionSelected
<1>2. Record(put)
  BY PutCallIsRecord
<1> HIDE DEF put
<1>3. Record(q)
  BY <1>2
<1> HIDE DEF q
<1>4. Record(answered)
  BY <1>3 DEF Record
<1> HIDE DEF answered
<1> QED BY <1>1, <1>4, RefreshedIsDirty

LEMMA EndedIsDirty ==
  ASSUME NEW p, Record(p), NEW mark
  PROVE  Dirty(RunEnded(p, mark))
BY PutItemIsRecord, RefreshedIsDirty DEF RunEnded

-----------------------------------------------------------------------------
(* The keys that leave the conversation alone keep the cache as it is, and *)
(* a draw brings it up to date.                                            *)

\* what the conversation is derived from, and its cache
Derived == {"status", "error", "active", "items", "invs", "texts", "next", "dirty", "cache"}

LEMMA SameConversation ==
  ASSUME NEW p, Cached(p), NEW f \in Fields \ Derived, NEW v
  PROVE  LET q == [p EXCEPT ![f] = v] IN Cached(q) /\ q.dirty = p.dirty
<1> DEFINE q == [p EXCEPT ![f] = v]
<1>1. Record(q)
  BY DEF Cached, Record
<1>2. \A g \in Derived : q[g] = p[g]
  BY DEF Cached, Record, Fields, Derived
<1> HIDE DEF q
<1>3. /\ q.status = p.status /\ q.error = p.error /\ q.active = p.active /\ q.items = p.items
      /\ q.invs = p.invs /\ q.texts = p.texts /\ q.next = p.next /\ q.dirty = p.dirty
      /\ q.cache = p.cache
  BY <1>2 DEF Derived
<1>4. Sources(q) = Sources(p)
  BY <1>3 DEF Sources, AppStatus
<1>5. Cached(q) /\ q.dirty = p.dirty
  BY <1>1, <1>3, <1>4 DEF Cached
<1> QED BY <1>5 DEF q

LEMMA FreshIsClean ==
  ASSUME NEW p, Cached(p)
  PROVE  Cached(FreshCache(p)) /\ FreshCache(p).dirty = FALSE
<1>1. CASE p.dirty = FALSE
  BY <1>1 DEF Cached, FreshCache
<1>2. CASE p.dirty = TRUE
  <2> DEFINE q == [p EXCEPT !.cache = Sources(p), !.dirty = FALSE]
  <2>1. FreshCache(p) = q
    BY <1>2 DEF FreshCache
  <2>2. Record(q)
    BY DEF Cached, Record
  <2>3. /\ q.status = p.status /\ q.error = p.error /\ q.active = p.active /\ q.items = p.items
        /\ q.invs = p.invs /\ q.texts = p.texts /\ q.next = p.next /\ q.dirty = FALSE
        /\ q.cache = Sources(p)
    BY DEF Cached, Record, Fields
  <2> HIDE DEF q
  <2>4. Sources(q) = Sources(p)
    BY <2>3 DEF Sources, AppStatus
  <2> QED BY <2>1, <2>2, <2>3, <2>4 DEF Cached
<1> QED BY <1>1, <1>2 DEF Cached

\* a picture of a projection whose cache is fresh is a picture of its conversation
LEMMA CleanPicture ==
  ASSUME NEW p, Cached(p), p.dirty = FALSE
  PROVE  Picture(p) = Picture([p EXCEPT !.cache = Sources(p)])
<1>1. [p EXCEPT !.cache = Sources(p)] = p
  BY DEF Cached, Record
<1> QED BY <1>1

-----------------------------------------------------------------------------
(* The two ways in which most steps keep the invariant.                    *)

\* a step that marks activity, wherever it leaves the loop
LEMMA MarkedKeeps ==
  ASSUME MarkActivity, Cached(projection'), ui' \in Loop
  PROVE  IInv'
BY DEF MarkActivity, IInv, LoopType, Waits, Cached, Record, Sources, AppStatus

\* a step that leaves the loop where it will draw before it waits
LEMMA MovedKeeps ==
  ASSUME LoopType', Cached(projection'), ui'.at \notin {"wait", "parked"}
  PROVE  IInv'
BY DEF IInv, Waits, Cached, Record, Sources, AppStatus

LEMMA AtIsLoop ==
  ASSUME ui \in Loop, NEW where \in Places, At(where)
  PROVE  ui' \in Loop /\ ui'.at = where
BY DEF At, Loop

LEMMA HandlerKeeps ==
  ASSUME IInv, NEW p, Handler(p), Dirty(p)
  PROVE  IInv'
<1>1. MarkActivity /\ projection' = p /\ ui' \in Loop
  BY DEF Handler, IInv, LoopType
<1>2. Cached(projection')
  BY <1>1, DirtyIsCached DEF Cached
<1> QED BY <1>1, <1>2, MarkedKeeps

-----------------------------------------------------------------------------
(* The steps.                                                              *)

LEMMA HandlersKeep ==
  ASSUME IInv,
         UserWords \/ AssistantWords \/ Announce \/ CallGoesOn \/ RequestPermission \/ EndOfRun
  PROVE  IInv'
<1>0. Record(projection)
  BY DEF IInv, Cached
<1>1. ASSUME NEW kind, Words(kind) PROVE IInv'
  <2>1. PICK document \in Documents : \E length \in Cuts \cap DOMAIN document :
            Handler(Chunk(projection, kind, document, length))
    BY <1>1 DEF Words
  <2>2. PICK length \in Cuts \cap DOMAIN document : Handler(Chunk(projection, kind, document, length))
    BY <2>1
  <2> QED BY <1>0, <2>2, ChunkIsDirty, HandlerKeeps
<1>2. CASE UserWords
  BY <1>1, <1>2 DEF UserWords
<1>3. CASE AssistantWords
  BY <1>1, <1>3 DEF AssistantWords
<1>4. CASE Announce
  BY <1>0, <1>4, ToolCallIsDirty, HandlerKeeps DEF Announce
<1>5. CASE CallGoesOn
  BY <1>0, <1>5, ToolCallIsDirty, HandlerKeeps DEF CallGoesOn
<1>6. CASE RequestPermission
  BY <1>0, <1>6, RequestedIsDirty, HandlerKeeps DEF RequestPermission
<1>7. CASE EndOfRun
  BY <1>0, <1>7, EndedIsDirty, HandlerKeeps DEF EndOfRun
<1> QED BY <1>2, <1>3, <1>4, <1>5, <1>6, <1>7

LEMMA PollKeeps ==
  ASSUME IInv, NEW then \in {"draw", "drained"}, Poll(then)
  PROVE  IInv'
<1>1. MarkActivity /\ ui' \in Loop
  BY DEF Poll, IInv, LoopType, Loop, Places
<1>2. Dirty(PromptFinished(projection, prompt)) /\ projection' = PromptFinished(projection, prompt)
  BY FinishedIsDirty DEF Poll, IInv, Cached
<1>3. Cached(projection')
  BY <1>2, DirtyIsCached
<1> QED BY <1>1, <1>3, MarkedKeeps

\* a draw leaves nothing to draw; until a change comes, what was drawn is what there is
LEMMA DrawKeeps ==
  ASSUME IInv, Draw
  PROVE  IInv'
<1>1. Cached(projection)
  BY DEF IInv
<1>2. /\ projection' = FreshCache(projection) /\ drawn' = FreshCache(projection)
      /\ news' = [draw |-> FALSE, burst |-> FALSE] /\ permit' = permit
  BY DEF Draw
<1>3. ui' \in Loop /\ ui'.at = "wait"
  BY AtIsLoop DEF Draw, IInv, LoopType, Places
<1>4. Cached(FreshCache(projection)) /\ FreshCache(projection).dirty = FALSE
  BY <1>1, FreshIsClean
<1>5. LoopType' /\ ui'.at # "parked"
  BY <1>2, <1>3 DEF IInv, LoopType
<1>6. Cached(projection') /\ drawn' = projection' /\ projection'.dirty = FALSE
  BY <1>2, <1>4
<1>7. Cached(projection)'
  BY <1>6 DEF Cached, Record, Sources, AppStatus
<1> QED BY <1>5, <1>6, <1>7 DEF IInv, Waits

LEMMA ParkKeeps ==
  ASSUME IInv, Park
  PROVE  IInv'
<1>1. /\ projection' = projection /\ drawn' = drawn /\ news' = news /\ news.draw = FALSE
      /\ ui.at \in {"wait", "parked"}
  BY DEF Park, IInv, LoopType
<1>2. ui' \in Loop /\ ui'.at \in {"wait", "parked"} /\ permit' = FALSE
  BY AtIsLoop DEF Park, IInv, LoopType, Places
<1>3. Cached(projection)'
  BY <1>1 DEF IInv, Cached, Record, Sources, AppStatus
<1>4. LoopType'
  BY <1>1, <1>2 DEF IInv, LoopType
<1>5. drawn' = projection' /\ projection'.dirty = FALSE
  BY <1>1 DEF IInv, Waits
<1> QED BY <1>1, <1>3, <1>4, <1>5 DEF IInv

LEMMA LoopKeeps ==
  ASSUME IInv,
         PromptReturns \/ ListArrives \/ PollBeforeDraw \/ Activity \/ PollInBurst \/ Drain
  PROVE  IInv'
<1>0. LoopType /\ Cached(projection)
  BY DEF IInv
<1>1. CASE PromptReturns
  <2>1. MarkActivity /\ projection' = projection /\ ui' \in Loop
    BY <1>0, <1>1 DEF PromptReturns, LoopType
  <2>2. Cached(projection')
    BY <1>0, <2>1
  <2> QED BY <2>1, <2>2, MarkedKeeps
<1>2. CASE ListArrives
  <2>1. PICK s \in SessionId : projection' = [projection EXCEPT !.sessions =
            IF s \in {@[j] : j \in DOMAIN @} THEN @ ELSE Append(@, s)]
    BY <1>2 DEF ListArrives
  <2>2. Cached(projection')
    <3> DEFINE listed == IF s \in {projection.sessions[j] : j \in DOMAIN projection.sessions}
                         THEN projection.sessions ELSE Append(projection.sessions, s)
    <3>1. projection' = [projection EXCEPT !["sessions"] = listed]
      BY <2>1
    <3> HIDE DEF listed
    <3> QED BY <1>0, <3>1, SameConversation DEF Fields, Derived
  <2>3. MarkActivity /\ ui' \in Loop
    BY <1>0, <1>2, AtIsLoop DEF ListArrives, LoopType, Loop, Places
  <2> QED BY <2>2, <2>3, MarkedKeeps
<1>3. CASE PollBeforeDraw
  BY <1>3, PollKeeps DEF PollBeforeDraw
<1>4. CASE Activity
  <2>1. projection' = projection /\ ui' \in Loop /\ ui'.at = "burst"
    BY <1>0, <1>4, AtIsLoop DEF Activity, LoopType, Places
  <2>2. LoopType'
    BY <1>0, <1>4, <2>1 DEF Activity, LoopType
  <2> QED BY <1>0, <2>1, <2>2, MovedKeeps
<1>5. CASE PollInBurst
  BY <1>5, PollKeeps DEF PollInBurst
<1>6. CASE Drain
  <2>1. projection' = projection /\ ui' \in Loop /\ ui'.at \in {"burst", "poll"}
    BY <1>0, <1>6, AtIsLoop DEF Drain, LoopType, Places
  <2>2. LoopType'
    BY <1>0, <1>6, <2>1 DEF Drain, LoopType
  <2> QED BY <1>0, <2>1, <2>2, MovedKeeps
<1> QED BY <1>1, <1>2, <1>3, <1>4, <1>5, <1>6

LEMMA KeysKeep ==
  ASSUME IInv,
         AnswerPermission \/ CancelPermission \/ Typing \/ Scroll \/ Submit \/ Switch \/ LoadReturns
  PROVE  IInv'
<1>0. LoopType /\ Cached(projection) /\ Record(projection)
  BY DEF IInv, Cached
<1>a. ASSUME NEW p, Applied(p) PROVE projection' = p /\ ui' \in Loop /\ ui'.at = "poll"
  BY <1>0, <1>a, AtIsLoop DEF Applied, LoopType, Places
\* keys that mark no activity
<1>b. ASSUME NEW p, Applied(p), Cached(p), UNCHANGED <<news, permit>> PROVE IInv'
  <2>1. LoopType' /\ ui'.at = "poll"
    BY <1>0, <1>a, <1>b DEF LoopType
  <2>2. Cached(projection')
    BY <1>a, <1>b
  <2> QED BY <2>1, <2>2, MovedKeeps
\* keys that change a field the conversation is not derived from
<1>c. ASSUME NEW f \in Fields \ Derived, NEW v, Applied([projection EXCEPT ![f] = v]), MarkActivity
      PROVE  IInv'
  <2>1. Cached([projection EXCEPT ![f] = v])
    BY <1>0, SameConversation
  <2>2. ui' \in Loop /\ Cached(projection')
    BY <1>a, <1>c, <2>1
  <2> QED BY <1>c, <2>2, MarkedKeeps
<1>1. CASE AnswerPermission
  <2>1. PICK allow \in BOOLEAN : Applied(PermissionSelected(projection, allow))
    BY <1>1 DEF AnswerPermission
  <2>2. Cached(PermissionSelected(projection, allow))
    BY <1>0, SelectedIsDirty, DirtyIsCached
  <2> QED BY <1>1, <1>b, <2>1, <2>2 DEF AnswerPermission
<1>2. CASE CancelPermission
  <2>1. Cached([projection EXCEPT !["ask"] = NoCall])
    BY <1>0, SameConversation DEF Fields, Derived
  <2>2. Applied([projection EXCEPT !["ask"] = NoCall])
    BY <1>2 DEF CancelPermission
  <2> QED BY <1>2, <1>b, <2>1, <2>2 DEF CancelPermission
<1>3. CASE Typing
  <2>1. Applied([projection EXCEPT !["draft"] = TRUE]) /\ MarkActivity
    BY <1>3 DEF Typing
  <2> QED BY <1>c, <2>1 DEF Fields, Derived
<1>4. CASE Scroll
  <2>1. ASSUME NEW top, Applied([projection EXCEPT !.follow = FALSE, !.top = top]) PROVE IInv'
    <3> DEFINE q == [projection EXCEPT !["follow"] = FALSE]
    <3>1. Cached(q)
      BY <1>0, SameConversation DEF Fields, Derived
    <3>2. Applied([q EXCEPT !["top"] = top])
      BY <2>1
    <3> HIDE DEF q
    <3>3. Cached([q EXCEPT !["top"] = top])
      BY <3>1, SameConversation DEF Fields, Derived
    <3>4. ui' \in Loop /\ Cached(projection')
      BY <1>a, <3>2, <3>3
    <3> QED BY <1>4, <3>4, MarkedKeeps DEF Scroll
  <2>2. ASSUME Applied([projection EXCEPT !.follow = TRUE]) PROVE IInv'
    <3>1. Applied([projection EXCEPT !["follow"] = TRUE]) /\ MarkActivity
      BY <1>4, <2>2 DEF Scroll
    <3> QED BY <1>c, <3>1 DEF Fields, Derived
  <2>3. \/ \E top : Applied([projection EXCEPT !.follow = FALSE, !.top = top])
        \/ Applied([projection EXCEPT !.follow = TRUE])
    <3>1. \/ \E by \in {1, 8} :
                 Applied([projection EXCEPT !.follow = FALSE, !.top = Beyond(projection.top, by)])
          \/ \E by \in {1, 8} :
                 Applied([projection EXCEPT !.follow = FALSE, !.top = projection.top + by])
          \/ Applied([projection EXCEPT !.follow = FALSE, !.top = 0])
          \/ Applied([projection EXCEPT !.follow = TRUE])
      <4>1. [projection EXCEPT !.follow = FALSE].top = projection.top
        BY <1>0 DEF Record, Fields
      <4> QED BY <1>4, <4>1 DEF Scroll
    <3> QED BY <3>1
  <2> QED BY <2>1, <2>2, <2>3
<1>5. CASE Submit
  <2>1. PICK r \in Run : projection' = PromptStarted(projection, r)
    BY <1>5 DEF Submit
  <2>2. Cached(projection')
    BY <1>0, <2>1, StartedIsDirty, DirtyIsCached
  <2>3. MarkActivity /\ ui' \in Loop
    BY <1>0, <1>5, AtIsLoop DEF Submit, LoopType, Places
  <2> QED BY <2>2, <2>3, MarkedKeeps
<1>6. CASE Switch
  <2>1. PICK j : projection' = Reset(projection, projection.sessions[j])
    BY <1>6 DEF Switch
  <2>2. Cached(projection')
    BY <2>1, ResetIsDirty, DirtyIsCached
  <2>3. MarkActivity /\ ui' \in Loop
    BY <1>0, <1>6, AtIsLoop DEF Switch, LoopType, Places
  <2> QED BY <2>2, <2>3, MarkedKeeps
<1>7. CASE LoadReturns
  <2>1. PICK status \in {"None", "AwaitingToolApproval"} : projection' = LoadedSession(projection, status)
    BY <1>7 DEF LoadReturns
  <2>2. Cached(projection')
    BY <1>0, <2>1, LoadedIsDirty, DirtyIsCached
  <2>3. MarkActivity /\ ui' \in Loop
    BY <1>0, <1>7 DEF LoadReturns, LoopType, Loop, Places
  <2> QED BY <2>2, <2>3, MarkedKeeps
<1> QED BY <1>1, <1>2, <1>3, <1>4, <1>5, <1>6, <1>7

-----------------------------------------------------------------------------
LEMMA InitHolds == Init => IInv
<1> SUFFICES ASSUME Init PROVE IInv
  OBVIOUS
<1>1. PICK s, sessions : projection = [Empty(s, sessions) EXCEPT !.draft = TRUE]
  BY DEF Init
<1>2. Cached(projection)
  <2> DEFINE e == Empty(s, sessions)
  <2>1. Dirty(e)
    BY EmptyIsDirty
  <2> HIDE DEF e
  <2>2. Cached([e EXCEPT !["draft"] = TRUE])
    BY <2>1, DirtyIsCached, SameConversation DEF Fields, Derived
  <2> QED BY <1>1, <2>2 DEF e
<1>3. LoopType /\ ui.at = "poll"
  BY DEF Init, LoopType, Loop, Places
<1> QED BY <1>2, <1>3 DEF IInv, Waits

LEMMA StepKeeps == IInv /\ [Next]_vars => IInv'
<1> SUFFICES ASSUME IInv, [Next]_vars PROVE IInv'
  OBVIOUS
<1>1. CASE UNCHANGED vars
  BY <1>1 DEF vars, IInv, LoopType, Waits, Cached, Record, Sources, AppStatus
<1>2. CASE Next
  BY <1>2, HandlersKeep, LoopKeeps, DrawKeeps, ParkKeeps, KeysKeep DEF Next
<1> QED BY <1>1, <1>2

LEMMA InvariantShows == IInv => ScreenIsCurrent
<1> SUFFICES ASSUME IInv, ui.at = "parked", ~ permit
             PROVE  Picture(drawn) = Picture([projection EXCEPT !.cache = Sources(projection)])
  BY DEF ScreenIsCurrent
<1>1. news.draw = FALSE
  BY DEF IInv, LoopType
<1>2. drawn = projection /\ projection.dirty = FALSE /\ Cached(projection)
  BY <1>1 DEF IInv, Waits
<1> QED BY <1>2, CleanPicture

\* The terminal client never parks on a screen that is out of date: whatever order the
\* server's messages, the prompt's end, the polls, draws and keys come in, a loop that
\* nothing will wake has drawn the projection as it is (run_projection_iteration,
\* wait_for_activity, ensure_conversation_cache_fresh).
THEOREM ScreenStaysCurrent == Spec => []ScreenIsCurrent
<1>1. IInv /\ [Next]_vars => IInv'
  BY StepKeeps
<1> QED BY InitHolds, <1>1, InvariantShows, PTL DEF Spec
=============================================================================
