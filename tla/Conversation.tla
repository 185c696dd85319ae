----------------------------- MODULE Conversation -----------------------------
(***************************************************************************)
(* The cells the terminal client draws of a session                        *)
(* (fluent-code-tui/src/conversation.rs): the items of the transcript in   *)
(* their order, committed ones as cells of the history, open ones in the   *)
(* active cell after it, neighbouring calls of one kind as a group, and a  *)
(* marker of the run at the end.  A row is the sequence of the items it    *)
(* shows; what a row says of a call is left out.                           *)
(***************************************************************************)
EXTENDS Transcript, SequencesExt

Talk == {"User", "Thought", "Text"}
Boundary == {"Started", "Ended", "Marker"}

\* derive_tool_row_from_transcript: the row of a call, whose item is written
\* again with every change of the call
ToolRow(s, id) ==
    LET call == s.invs[id[2]]
    IN  [tool |-> call.tool, run |-> call.run, approval |-> call.approval, exec |-> call.exec]

\* classify_group_kind
GroupKind(s, id) ==
    LET tool == ToolRow(s, id).tool
    IN  CASE tool = "read" -> "ReadLike" [] tool \in {"search", "grep"} -> "SearchLike" [] OTHER -> "None"

\* group_tool_rows: a call joins the row before it if that is of its kind and run
Grouped(s, calls) ==
    LET Joins(a, b) == /\ GroupKind(s, b) # "None" /\ GroupKind(s, a) = GroupKind(s, b)
                       /\ ToolRow(s, a).run = ToolRow(s, b).run
        Add(rows, id) == IF rows # <<>> /\ Joins(Last(Last(rows)), id)
                         THEN Front(rows) \o <<Append(Last(rows), id)>>
                         ELSE Append(rows, <<id>>)
    IN  FoldLeft(Add, <<>>, calls)

\* the cells so far and the calls that wait for their cell
NoCells == [history |-> <<>>, active |-> <<>>, waiting |-> [History |-> <<>>, Active |-> <<>>]]

Target(item) == IF item.open THEN "Active" ELSE "History"

\* push_rows_into_target
Push(c, rows, target) ==
    CASE rows = <<>>           -> c
      [] target = "History"    -> [c EXCEPT !.history = Append(@, rows)]
      [] OTHER                 -> [c EXCEPT !.active = @ \o rows]

Flush(s, c, from, to) == Push([c EXCEPT !.waiting[from] = <<>>], Grouped(s, c.waiting[from]), to)

\* mutant: open calls wait for the active cell, whatever comes after them
AtBoundaryOwn(s, c, target) == Flush(s, c, "History", "History")

\* flush_pending_tool_cells_at_boundary: what comes next is committed or open, and
\* the open calls before it go where it goes
AtBoundary(s, c, target) == Flush(s, Flush(s, c, "History", "History"), "Active", target)

ShowItem(s, c, id, item) ==
    LET target == Target(item)
    IN  CASE id[1] \in Talk      -> Push(AtBoundary(s, c, target), <<<<id>>>>, target)
          [] id[1] = "Tool"      -> [c EXCEPT !.waiting[target] = Append(@, id)]
          [] id[1] \in Boundary  -> AtBoundary(s, c, target)
          [] OTHER               -> c

InOrder(t) ==
    FlattenSeq([n \in 1..(t.next - 1) |-> SetToSeq({id \in DOMAIN t.items : t.items[id].seq = n})])

\* derive_history_cells_from_parts
Cells(s, t) ==
    LET c == FoldLeft(LAMBDA acc, id : ShowItem(s, acc, id, t.items[id]), NoCells, InOrder(t))
    IN  Flush(s, Flush(s, c, "History", "History"), "Active", "Active")

Rows(c) == FlattenSeq(c.history) \o c.active

RootEnds(s, t) == {id \in DOMAIN t.items : id[1] = "Ended" /\ s.runs[id[2]].parent = NoRun}

\* latest_root_terminal_marker
Latest(t, ends) ==
    CHOOSE id \in ends : \A e \in ends : t.items[e].seq <= t.items[id].seq

\* derive_active_run_marker
RunMarker(s, t) ==
    IF s.active # NoRun THEN IF s.status = "AwaitingToolApproval" THEN "AwaitingApproval" ELSE "Running"
    ELSE LET ends == RootEnds(s, t)
         IN  IF ends = {} THEN "None" ELSE t.items[Latest(t, ends)].mark
=============================================================================
