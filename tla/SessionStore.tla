---------------------------- MODULE SessionStore ----------------------------
(***************************************************************************)
(* The session files of fluent-code and the bookkeeping they depend on:    *)
(* FsSessionStore of session/store.rs, and of session/model.rs the replay  *)
(* sequences, the transcript items and normalize_persistence.              *)
(*                                                                         *)
(* A session holds records: runs, run ends and tool invocations (MetaRec), *)
(* saved in session.json, and turns (TurnRec), saved in turns.jsonl.  Each *)
(* record has a replay sequence and a version (a turn grows with every     *)
(* delta), and a transcript item that repeats both, saved in               *)
(* transcript_items.jsonl.  The number of a record stands for the time it  *)
(* was made.  A save rewrites the files one after another, line by line;   *)
(* it may fail or the process may die between any two writes.              *)
(***************************************************************************)
EXTENDS Naturals, Sequences, FiniteSets, TLC, SequencesExt

CONSTANTS
    Session,     \* ids of sessions
    NoId,        \* no session
    MetaRec,     \* runs, run ends and tool invocations a session may get
    TurnRec,     \* turns a session may get
    MaxVersion   \* bound: how often a session's records are changed

Rec == MetaRec \cup TurnRec

Torn == "torn"   \* what the latest pointer holds while it is written

ASSUME SessionStoreAssumption ==
    /\ NoId \notin Session /\ Torn \notin Session
    /\ Rec \subseteq Nat \ {0}
    /\ MetaRec \cap TurnRec = {}
    /\ MaxVersion \in Nat

LegacyFormat == 1
CanonicalFormat == 2
FirstReplaySequence == 1

-----------------------------------------------------------------------------
(* A session in memory.                                                    *)

NewSession == [recs |-> {}, seq |-> [r \in Rec |-> 0], version |-> [r \in Rec |-> 0],
               items |-> <<>>, next |-> FirstReplaySequence, exact |-> TRUE]

ItemOf(c, r) == [rec |-> r, seq |-> c.seq[r], version |-> c.version[r]]
\* insert_transcript_item_in_order: behind the items of the same or a lower sequence
InsertItem(items, item) ==
    LET at == Cardinality({i \in DOMAIN items : items[i].seq <= item.seq})
    IN  SubSeq(items, 1, at) \o <<item>> \o SubSeq(items, at + 1, Len(items))

\* upsert_transcript_item: an item is replaced where it stands, or moved
UpsertItem(items, item) ==
    LET at == {i \in DOMAIN items : items[i].rec = item.rec}
        i == CHOOSE j \in at : TRUE
    IN  IF at = {} THEN InsertItem(items, item)
        ELSE IF items[i].seq = item.seq THEN [items EXCEPT ![i] = item]
        ELSE InsertItem(RemoveAt(items, i), item)

\* a record is made: it takes the next replay sequence (allocate_replay_sequence)
\* and its transcript item is put in
AddRecord(c, r) ==
    LET s == IF c.next < FirstReplaySequence THEN FirstReplaySequence ELSE c.next
        d == [c EXCEPT !.recs = @ \cup {r}, !.seq[r] = s, !.version[r] = 0, !.next = s + 1]
    IN  [d EXCEPT !.items = UpsertItem(@, ItemOf(d, r))]

\* mutant: the transcript is not told
ChangeRecordOnly(c, r) == [c EXCEPT !.version[r] = @ + 1]

\* a record changes (a delta, a result): its item is written again
ChangeRecord(c, r) ==
    LET d == [c EXCEPT !.version[r] = @ + 1]
    IN  [d EXCEPT !.items = UpsertItem(@, ItemOf(d, r))]

\* has_legacy_replay_metadata
IsLegacy(c) == \E r \in c.recs : c.seq[r] = 0

\* resequence_from_legacy_timestamps: the records in the order they were made; the
\* transcript items keep the sequences they have
Resequence(c) ==
    [c EXCEPT !.seq = [r \in Rec |-> IF r \in c.recs
                                     THEN Cardinality({q \in c.recs : q <= r}) ELSE 0]]

Sequences(c) == {c.seq[r] : r \in c.recs} \cup {c.items[i].seq : i \in DOMAIN c.items}

\* mutant: off by one, the highest sequence is given again
NextSequenceReused(c) ==
    IF Sequences(c) \ {0} = {} THEN FirstReplaySequence ELSE Max(Sequences(c))

\* max_replay_sequence and one; FirstReplaySequence for a session with no record
NextSequence(c) ==
    IF Sequences(c) \ {0} = {} THEN FirstReplaySequence ELSE Max(Sequences(c)) + 1

\* sort_by_key, which is stable: an item stands behind those of a lower sequence, and
\* behind those of its own that stood before it
SortedItems(items) ==
    LET place(i) == Cardinality({j \in DOMAIN items :
                                    \/ items[j].seq < items[i].seq
                                    \/ items[j].seq = items[i].seq /\ j <= i})
    IN  [k \in DOMAIN items |-> items[CHOOSE i \in DOMAIN items : place(i) = k]]

\* normalize_persistence
Normalized(c) ==
    LET d == IF IsLegacy(c) THEN Resequence(c) ELSE c
    IN  [d EXCEPT !.items = SortedItems(@), !.next = NextSequence(d)]

\* the items of some records, in the order the records were made
ItemsOf(c, recs) ==
    [k \in 1..Cardinality(recs) |->
        ItemOf(c, CHOOSE r \in recs : Cardinality({q \in recs : q <= r}) = k)]

\* synthesize_approximate_transcript_items
Synthesized(c) == [c EXCEPT !.items = SortedItems(ItemsOf(c, c.recs)), !.exact = FALSE]

\* requires_approximate_transcript_synthesis
NeedsSynthesis(c) == c.items = <<>> /\ c.recs # {}

\* what save() writes: a normalised copy of the session
Prepared(c) ==
    LET d == Normalized(c)
    IN  IF NeedsSynthesis(d) THEN Normalized(Synthesized(d)) ELSE d

-----------------------------------------------------------------------------
(* The files of a session, and what load() makes of them.                  *)

Missing == [state |-> "missing", recs |-> {}, seq |-> [r \in Rec |-> 0],
            version |-> [r \in Rec |-> 0], exact |-> FALSE, format |-> LegacyFormat]
NoLines == [exists |-> FALSE, torn |-> FALSE, lines |-> <<>>]
NoFiles == [meta |-> Missing, turns |-> NoLines, items |-> NoLines]

MetaOf(c) == [state |-> "whole", recs |-> c.recs \cap MetaRec,
              seq |-> [r \in Rec |-> IF r \in MetaRec THEN c.seq[r] ELSE 0],
              version |-> [r \in Rec |-> IF r \in MetaRec THEN c.version[r] ELSE 0],
              exact |-> c.exact, format |-> CanonicalFormat]

\* the turns in the order they were pushed
TurnLines(c) == ItemsOf(c, c.recs \cap TurnRec)

HasExactItems(files) == files.meta.format >= CanonicalFormat /\ files.items.exists

\* load() reads the files without an error
Loadable(files) ==
    /\ files.meta.state = "whole"
    /\ ~ files.turns.torn
    /\ HasExactItems(files) => ~ files.items.torn

LineOf(lines, r) == lines[CHOOSE i \in DOMAIN lines : lines[i].rec = r]

\* load(): the session the files hold
Loaded(files) ==
    LET lines == files.turns.lines
        turns == {lines[i].rec : i \in DOMAIN lines}
        read == [recs |-> files.meta.recs \cup turns,
                 seq |-> [r \in Rec |-> IF r \in turns THEN LineOf(lines, r).seq
                                        ELSE files.meta.seq[r]],
                 version |-> [r \in Rec |-> IF r \in turns THEN LineOf(lines, r).version
                                            ELSE files.meta.version[r]],
                 items |-> IF HasExactItems(files) THEN files.items.lines ELSE <<>>,
                 next |-> FirstReplaySequence,
                 exact |-> HasExactItems(files) /\ files.meta.exact]
        whole == Normalized(read)
    IN  IF ~ HasExactItems(files) \/ NeedsSynthesis(whole)
        THEN Normalized(Synthesized(whole)) ELSE whole

-----------------------------------------------------------------------------
VARIABLES
    disk,     \* the files of each session
    latest,   \* the latest_session file: an id, NoId (missing or empty), or torn
    save      \* the save() in progress

storeVars == <<disk, latest, save>>

\* "then" is what the caller does once the save is through; "mem" is the session
\* it was called with
Idle == [at |-> "idle", s |-> NoId, n |-> 0, c |-> NewSession, mem |-> NewSession,
         then |-> "nothing"]
SaveIdle == save.at = "idle"

StoreInit ==
    /\ disk = [s \in Session |-> NoFiles]
    /\ latest = NoId
    /\ save = Idle

\* save(): the copy is made and session.json truncated
BeginSave(s, c, then) ==
    /\ save' = [at |-> "meta", s |-> s, n |-> 0, c |-> Prepared(c), mem |-> c, then |-> then]
    /\ disk' = [disk EXCEPT ![s].meta = [Missing EXCEPT !.state = "torn"]]

WriteMeta ==
    /\ save.at = "meta"
    /\ disk' = [disk EXCEPT ![save.s].meta = MetaOf(save.c)]
    /\ save' = [save EXCEPT !.at = "turns", !.n = 0]
    /\ UNCHANGED latest

LinesOf(at) == IF at = "turns" THEN TurnLines(save.c) ELSE save.c.items

\* mutant: off by one, the last line is not written
WriteLineButLast ==
    /\ save.at \in {"turns", "items"}
    /\ disk' = [disk EXCEPT ![save.s][save.at] =
                    [exists |-> TRUE, torn |-> FALSE,
                     lines |-> SubSeq(LinesOf(save.at), 1, save.n)]]
    /\ save' = IF save.n + 1 < Len(LinesOf(save.at)) THEN [save EXCEPT !.n = @ + 1]
               ELSE [save EXCEPT !.at = IF @ = "turns" THEN "items" ELSE "latest", !.n = 0]
    /\ UNCHANGED latest

\* write_jsonl: the file is truncated, then written line by line; after the last
\* line the next file's turn comes
WriteLine ==
    /\ save.at \in {"turns", "items"}
    /\ disk' = [disk EXCEPT ![save.s][save.at] =
                    [exists |-> TRUE, torn |-> FALSE,
                     lines |-> SubSeq(LinesOf(save.at), 1, save.n)]]
    /\ save' = IF save.n < Len(LinesOf(save.at)) THEN [save EXCEPT !.n = @ + 1]
               ELSE [save EXCEPT !.at = IF @ = "turns" THEN "items" ELSE "latest", !.n = 0]
    /\ UNCHANGED latest

\* write_latest_session_id truncates the file and writes it
TruncateLatest ==
    /\ save.at = "latest" /\ save.n = 0
    /\ latest' = Torn
    /\ save' = [save EXCEPT !.n = 1]
    /\ UNCHANGED disk

WriteLatest ==
    /\ save.at = "latest" /\ save.n = 1
    /\ latest' = save.s
    /\ save' = [save EXCEPT !.at = "done"]
    /\ UNCHANGED disk

\* a write fails or the process dies: the file being written keeps what it got, a
\* line may have been cut in two
Interrupt ==
    /\ save.at \notin {"idle", "done"}
    /\ \/ UNCHANGED disk
       \/ /\ save.at \in {"turns", "items"} /\ save.n > 0
          /\ disk' = [disk EXCEPT ![save.s][save.at].torn = TRUE]
    /\ latest' \in (IF latest = Torn THEN {Torn, NoId} ELSE {latest})
    /\ save' = Idle

SaveStep == WriteMeta \/ WriteLine \/ TruncateLatest \/ WriteLatest
=============================================================================
