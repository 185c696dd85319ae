-------------------------- MODULE ScreenProperties --------------------------
(* What the terminal client shows.                                         *)
EXTENDS Screen

\* The loop parks only with an up to date screen: when nothing will wake it, what it
\* drew is what the projection says, although changes come at any time between a poll
\* and the next draw, and a draw reads a cache that handlers have to leave dirty.
ScreenIsCurrent ==
    ui.at = "parked" /\ ~ permit
        => Picture(drawn) = Picture([projection EXCEPT !.cache = Sources(projection)])

\* the lines of each text that open or close a block
Within(source, length) == InBlock(FoldLeft(ParsedLine, Unparsed, SubSeq(source, 1, length)))
FencesOf == [document \in Documents |->
                {j \in DOMAIN document : Within(document, j) # Within(document, j - 1)}]

\* the words of a text behind its first lines
WordsBehind(text, first) ==
    [j \in 1..text.length |-> IF j > first /\ j \notin FencesOf[text.document]
                              THEN text.document[j].word ELSE NoWord]
Spoken(text, first) == SelectSeq(WordsBehind(text, first), LAMBDA word : word # NoWord)

\* the words a drawn line shows, without its marks
Shown(lines) ==
    LET spans == FlattenSeq(lines)
        said == SelectSeq(spans, LAMBDA span : span.style \in {"base", "link", "heading", "plain", "highlighted"}
                                                /\ span.text \notin {"indent", " ", "#", "(destination)"})
    IN  [j \in DOMAIN said |-> said[j].text]

\* The conversation shows all that was said, once and in order: each text and each call
\* is in one row, and the row of a text has the text's words, whatever blocks they are
\* in and however much of them has come.
DrawnIsSaid ==
    LET c == drawn.cache
        rows == ConversationRows(c)
        Held(id) == {j \in DOMAIN rows : \E k \in DOMAIN rows[j] : rows[j][k] = id}
    IN  ui.at = "wait" => \A id \in DOMAIN drawn.items : id[1] \in Talk \cup {"Tool"} =>
            \E j \in DOMAIN rows :
                /\ Held(id) = {j}
                /\ id[1] \in Talk =>
                     Shown(Tail(RowLines(c, rows[j]))) = Spoken(drawn.texts[id], 0)

\* the fences of a text that streams, and the words of the block that is not closed
Fenced(text) == {j \in FencesOf[text.document] : j <= text.length}
UnclosedCode(text) ==
    IF Cardinality(Fenced(text)) % 2 = 0 THEN {} ELSE ToSet(Spoken(text, Max(Fenced(text))))

\* its fences are the lines that begin with three backticks, and they alone
Ordinary(text) == Fenced(text) = {j \in 1..text.length : Backticked(text.document[j])}

Texts(lines) == [i \in DOMAIN lines |-> [j \in DOMAIN lines[i] |-> lines[i][j].text]]

\* A text that streams reads as it will when it is complete; what colours it misses are
\* those of one code block.  Where the fences are lines of three backticks, which
\* count_fenced_code_block_markers takes all such lines for, that is the block that is
\* not closed yet, and all of it is drawn without colours; where they are not, another
\* block may miss them, or none.
StreamedAsCommitted ==
    ui.at = "wait" => \A id \in DOMAIN drawn.texts :
        LET text == drawn.texts[id]
            streamed == Lines(text, TRUE)
            committed == Lines(text, FALSE)
            faded == {j \in DOMAIN streamed : streamed[j] # committed[j]}
            Code(j) == Last(streamed[j]).text
        IN  /\ Texts(streamed) = Texts(committed)
            /\ \A j \in faded : Last(streamed[j]).style = "plain"
            /\ \A i, k \in faded : i..k \subseteq faded
            /\ Ordinary(text) =>
                /\ {Code(j) : j \in faded} \subseteq UnclosedCode(text)
                /\ \A j \in DOMAIN streamed : streamed[j] # Blank /\ Code(j) \in UnclosedCode(text)
                                              => Last(streamed[j]).style = "plain"
=============================================================================
