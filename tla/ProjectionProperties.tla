------------------------ MODULE ProjectionProperties ------------------------
(* What a client sees of a session, live and after session/load, and what  *)
(* the terminal client draws of its records.                               *)
EXTENDS Projection, Conversation

\* the client once the next poll came
Client == Polled(st, tr, watch).cl
Replayed == Shown(NoClient, Replay(st, tr))

\* Sent piece by piece, whatever the polls and the messages between them, the
\* session looks to the client as it would if it loaded it now: no text is lost or
\* repeated, every call has the same status, and, where the transcript is exact, in
\* the same order.
LiveEqualsReplay ==
    LET live == Client
        replayed == Replayed
    IN  /\ live.text = replayed.text
        /\ live.calls = replayed.calls
        /\ exact => live.order = replayed.order

\* While the session waits for approval the client has been asked about one of the
\* calls it waits for, or the poll that asks it is to come: by the turn's live updates,
\* by the replay of session/load for a turn left waiting, and by the one poll behind
\* an answer to that.
AwaitingClientIsAsked ==
    st.status = "AwaitingToolApproval" =>
        /\ Client.asked \cap ReplyTargets(st) # {}
        /\ watch.by = "nobody" => watch.cl.asked \cap ReplyTargets(st) # {}

\* Every record has its item, with its state, unless the turn was cancelled; an
\* exact session stays so, and the order of its items is the order of their making.
Uncancelled(r) == st.runs[Root(st, r)].status # "Cancelled"
TranscriptMirrorsRecords ==
    /\ \A i \in Inv : st.invs[i].approval # "Absent" =>
        /\ Has(tr, <<"Tool", i>>)
        /\ Uncancelled(st.invs[i].run) => tr.items[<<"Tool", i>>].mark = st.invs[i].exec
        /\ Uncancelled(st.invs[i].run) /\ st.invs[i].deleg # "None"
           => tr.items[<<"Child", i>>].mark = st.invs[i].deleg
    /\ \A id1, id2 \in DOMAIN tr.items : tr.items[id1].seq = tr.items[id2].seq => id1 = id2
    /\ \A j, k \in DOMAIN tr.turnSeq : j < k => tr.turnSeq[j] < tr.turnSeq[k]

\* What is said after something is drawn after it, though open items are drawn
\* below all committed ones: every text stands where the transcript has it, and
\* every call is drawn once, on the right side of every text.  (A run that an unknown
\* tool or a restart ended leaves its texts open, and what comes later stands above.)
\* The marker at the end of a session at rest says how the last prompt ended, whatever
\* became of the runs it delegated to; the end by an unknown tool has no item.
LeftOpen(id) == tr.items[id].open /\ st.runs[tr.items[id].run].status = "Failed"
LastPrompt == CHOOSE r \in Roots(st) : \A q \in Roots(st) :
                  tr.items[<<"Started", q>>].seq <= tr.items[<<"Started", r>>].seq
DrawnInOrder ==
    /\ \E drawn \in {FlattenSeq(Rows(Cells(st, tr)))} :
        LET shown == {id \in DOMAIN tr.items : id[1] \in Talk \cup {"Tool"}}
        IN  /\ Len(drawn) = Cardinality(shown) /\ ToSet(drawn) = shown
            /\ \A m, n \in DOMAIN drawn :
                m < n /\ (drawn[m][1] \in Talk \/ drawn[n][1] \in Talk)
                => tr.items[drawn[m]].seq < tr.items[drawn[n]].seq \/ LeftOpen(drawn[n])
    /\ st.active = NoRun /\ Roots(st) # {} /\ Has(tr, <<"Ended", LastPrompt>>)
       => RunMarker(st, tr) = st.runs[LastPrompt].status

=============================================================================
