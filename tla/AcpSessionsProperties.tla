------------------------ MODULE AcpSessionsProperties ------------------------
(* What the session store and the session requests of the server promise.  *)
EXTENDS AcpSessions

Untouched(s) == s \notin torn /\ (SaveIdle \/ save.s # s)

\* A load reads what the last completed save wrote.
ReadsBack(s) ==
    Untouched(s) /\ disk[s].meta.format = CanonicalFormat
    => Loadable(disk[s]) /\ Loaded(disk[s]) = saved[s]

\* What a completed save wrote is what a load reads, whatever failures and crashes
\* came before; a failed save heals with the next one that completes.  The latest
\* pointer, which every start follows, names a session that is there.
RoundTrip ==
    /\ \A s \in Session : ReadsBack(s)
    /\ latest \in Session => disk[latest].meta.state # "missing"

\* The replay sequences of a session in memory.
IsOrdered(c) ==
    LET items == c.items IN
    /\ \A q, r \in c.recs : q < r => c.seq[q] < c.seq[r]
    /\ \A r \in c.recs : c.seq[r] \in FirstReplaySequence..c.next - 1
    /\ \A i \in DOMAIN items : items[i].seq < c.next
    /\ \A i, j \in DOMAIN items : i < j => items[i].seq < items[j].seq
    /\ \A i \in DOMAIN items : items[i].rec \in c.recs => items[i].seq = c.seq[items[i].rec]

\* Replay sequences follow the order records were made in, across saves, crashes,
\* loads of half-written files and of sessions from before there were sequences: no
\* two records share one, the next one is above all, and the transcript lists its
\* items by sequence, at the sequence of their records.
TranscriptIsOrdered == \A s \in open : IsOrdered(mem[s])

\* The transcript of a session in memory has the latest version of every record.
IsComplete(c) == \A r \in c.recs : \E i \in DOMAIN c.items : c.items[i] = ItemOf(c, r)

\* The transcript has the latest version of every record, unless the session was
\* read from files a save did not complete.
TranscriptIsComplete == \A s \in open \ scarred : IsComplete(mem[s])
=============================================================================
