----------------------------- MODULE Markdown -----------------------------
(***************************************************************************)
(* How the terminal client draws the text of a turn                        *)
(* (fluent-code-tui/src/markdown_render.rs): a renderer takes the parser's *)
(* events one by one and leaves lines of styled spans.  A text is a        *)
(* sequence of source lines, each a mark of its block and a word, so that  *)
(* a text that is still streaming is a prefix of one.  Styles are named    *)
(* for what they mark; highlighted code keeps one style for all colours.   *)
(* Code blocks are fenced, and neither in a list nor in a quote.           *)
(***************************************************************************)
EXTENDS Integers, Sequences, SequencesExt

CONSTANT MaxHighlight \* the lines of a code block that are highlighted at most

ASSUME MarkdownAssumption == MaxHighlight \in Nat

NoWord == ""
NoFence == [char |-> "", size |-> 0, language |-> "none"]
Source(mark, word) == [mark |-> mark, word |-> word, fence |-> NoFence]

\* a line of size or more of a character, behind it a language that is known to the
\* highlighter, one that is not, or none
Fence(word, char, size, language) ==
    [mark |-> "fence", word |-> word, fence |-> [char |-> char, size |-> size, language |-> language]]
Span(text, style) == [text |-> text, style |-> style]
Blank == <<>>

-----------------------------------------------------------------------------
(* The parser (crate pulldown_cmark): tags open and close around texts; a  *)
(* code block that is not closed ends with the text.                       *)

Event(at, tag, word) == [at |-> at, tag |-> tag, word |-> word]

\* the tags a source line is within
TagsOf(mark) ==
    CASE mark = "text"    -> <<"Paragraph">>
      [] mark = "link"    -> <<"Paragraph", "Link">>
      [] mark = "heading" -> <<"Heading">>
      [] mark = "quote"   -> <<"BlockQuote", "Paragraph">>
      [] mark = "item"    -> <<"List", "Item">>
      [] mark = "nested"  -> <<"List", "Item", "List", "Item">>
      [] mark = "fence"   -> <<"CodeBlock">>
      [] OTHER            -> <<>>

Close(p, depth) ==
    [events |-> p.events \o [j \in 1..(Len(p.open) - depth) |->
                                Event("end", p.open[Len(p.open) + 1 - j], NoWord)],
     open |-> SubSeq(p.open, 1, depth), fence |-> NoFence]

\* an item is always a new one; a paragraph goes on with a soft break
Kept(open, tags) ==
    LET common == Len(LongestCommonPrefix({open, tags}))
    IN  IF tags # <<>> /\ tags[Len(tags)] = "Item" /\ common = Len(tags) THEN common - 1 ELSE common

\* a block is closed by a fence like its own, as long or longer, without a language;
\* any other fence within it is code
InBlock(p) == p.open = <<"CodeBlock">>
Closes(line, p) ==
    /\ line.mark = "fence" /\ line.fence.language = "none"
    /\ line.fence.char = p.fence.char /\ line.fence.size >= p.fence.size

ParsedLine(p, line) ==
    IF InBlock(p)
    THEN IF Closes(line, p) THEN Close(p, 0)
         ELSE [p EXCEPT !.events = Append(@, Event("text", "", line.word))]
    ELSE LET tags == TagsOf(line.mark)
             kept == Kept(p.open, tags)
             closed == Close(p, kept)
             soft == IF kept > 0 /\ tags[kept] = "Paragraph" THEN <<Event("soft", "", NoWord)>> ELSE <<>>
             begun == [j \in 1..(Len(tags) - kept) |->
                          Event("start", tags[kept + j], line.fence.language)]
             text == IF line.word = NoWord \/ line.mark = "fence" THEN <<>>
                     ELSE <<Event("text", "", line.word)>>
         IN  [events |-> closed.events \o soft \o begun \o text, open |-> tags, fence |-> line.fence]

Unparsed == [events |-> <<>>, open |-> <<>>, fence |-> NoFence]
Parsed(source) == Close(FoldLeft(ParsedLine, Unparsed, source), 0).events

-----------------------------------------------------------------------------
(* The renderer.                                                           *)

\* MarkdownRenderer::new; plainBlock is the fenced block that is not highlighted, 0 for none
NewRenderer(plainBlock) ==
    [lines |-> <<>>, spans |-> <<>>, plainBlock |-> plainBlock, seen |-> 0, plain |-> FALSE,
     styles |-> <<>>, links |-> 0, lists |-> <<>>, quote |-> 0, code |-> FALSE,
     language |-> "none", buffer |-> <<>>, suppress |-> FALSE, afterParagraph |-> FALSE]

Style(r) == IF r.styles = <<>> THEN "base" ELSE Last(r.styles)

\* an empty line is a line too
FlushLine(r) == [r EXCEPT !.lines = Append(@, r.spans), !.spans = <<>>]

\* push_span, push_text_prefix_if_needed
PushSpan(r, text, style) ==
    LET prefix == IF r.spans = <<>> /\ r.quote > 0
                  THEN <<Span("indent", "quote"), Span(">", "quote")>> ELSE <<>>
    IN  [r EXCEPT !.spans = @ \o prefix \o <<Span(text, style)>>]

PushText(r, word) ==
    IF r.code THEN [r EXCEPT !.buffer = Append(@, word)] ELSE PushSpan(r, word, Style(r))

SoftBreak(r) ==
    IF r.code THEN FlushLine(r)
    ELSE IF r.suppress THEN [r EXCEPT !.suppress = FALSE]
    ELSE PushSpan(r, " ", Style(r))

\* highlight_code_to_lines gives up, to plain_code_lines: the block is too long, has no
\* language or one that is not known (or, as good as that, one whose highlighter fails)
Highlights(code, language) == Len(code) <= MaxHighlight /\ language = "known"

CodeLines(code, style) ==
    [j \in DOMAIN code |-> <<Span("indent", "plain"), Span(code[j], style)>>]

FlushCodeBlock(r) ==
    LET coloured == ~ r.plain /\ Highlights(r.buffer, r.language)
    IN  [r EXCEPT !.lines = @ \o CodeLines(r.buffer, IF coloured THEN "highlighted" ELSE "plain"),
                  !.buffer = <<>>]

\* list_item_prefix
PushItemPrefix(r) ==
    LET depth == Len(r.lists)
        last == Last(r.lists)
    IN  IF last.ordered
        THEN [PushSpan(r, ToString(last.next), "marker") EXCEPT !.lists[depth].next = @ + 1]
        ELSE PushSpan(r, "-", "marker")

\* all blocks but the paragraph begin and end a line
StartBlock(r) == [FlushLine(r) EXCEPT !.afterParagraph = FALSE]

StartTag(r, tag, language) ==
    CASE tag = "Paragraph"  -> [r EXCEPT !.lines = IF r.afterParagraph /\ @ # <<>> THEN Append(@, Blank) ELSE @,
                                         !.afterParagraph = FALSE]
      [] tag = "Heading"    -> [PushSpan(StartBlock(r), "#", "heading") EXCEPT !.styles = Append(@, "heading")]
      [] tag = "BlockQuote" -> [StartBlock(r) EXCEPT !.quote = @ + 1]
      [] tag = "CodeBlock"  -> [StartBlock(r) EXCEPT !.code = TRUE, !.seen = @ + 1, !.buffer = <<>>,
                                                     !.language = language, !.plain = r.plainBlock = r.seen + 1, !.suppress = TRUE]
      [] tag = "List"       -> [StartBlock(r) EXCEPT !.lists = Append(@, [ordered |-> @ = <<>>, next |-> 1])]
      [] tag = "Item"       -> PushItemPrefix(StartBlock(r))
      [] tag = "Link"       -> [r EXCEPT !.styles = Append(@, "link"), !.links = @ + 1]

\* mutant: the block's code is drawn but the renderer stays in the block
EndTagInCode(r, tag) ==
    CASE tag = "Paragraph"  -> [FlushLine(r) EXCEPT !.afterParagraph = TRUE]
      [] tag = "Heading"    -> [FlushLine(r) EXCEPT !.styles = Front(@), !.afterParagraph = FALSE]
      [] tag = "BlockQuote" -> [StartBlock(r) EXCEPT !.quote = @ - 1]
      [] tag = "CodeBlock"  -> [StartBlock(FlushCodeBlock(r)) EXCEPT !.plain = FALSE]
      [] tag = "List"       -> [StartBlock(r) EXCEPT !.lists = Front(@)]
      [] tag = "Item"       -> StartBlock(r)
      [] tag = "Link"       -> PushSpan([r EXCEPT !.styles = Front(@), !.links = @ - 1], "(destination)", "link")

EndTag(r, tag) ==
    CASE tag = "Paragraph"  -> [FlushLine(r) EXCEPT !.afterParagraph = TRUE]
      [] tag = "Heading"    -> [FlushLine(r) EXCEPT !.styles = Front(@), !.afterParagraph = FALSE]
      [] tag = "BlockQuote" -> [StartBlock(r) EXCEPT !.quote = @ - 1]
      [] tag = "CodeBlock"  -> [StartBlock(FlushCodeBlock(r)) EXCEPT !.code = FALSE, !.plain = FALSE]
      [] tag = "List"       -> [StartBlock(r) EXCEPT !.lists = Front(@)]
      [] tag = "Item"       -> StartBlock(r)
      [] tag = "Link"       -> PushSpan([r EXCEPT !.styles = Front(@), !.links = @ - 1], "(destination)", "link")

HandleEvent(r, event) ==
    CASE event.at = "start" -> StartTag(r, event.tag, event.word)
      [] event.at = "end"   -> EndTag(r, event.tag)
      [] event.at = "text"  -> PushText(r, event.word)
      [] event.at = "soft"  -> SoftBreak(r)

\* count_fenced_code_block_markers: the lines that begin with three backticks, whatever
\* the parser takes them for
Backticked(line) == line.mark = "fence" /\ line.fence.char = "tick"
Fences(source) == Len(SelectSeq(source, Backticked))

\* mutant: the count of markers is halved downwards
PlainBlockBefore(source) == IF Fences(source) % 2 = 1 THEN Fences(source) \div 2 ELSE 0

\* infer_unclosed_code_block and the index of the block: half the markers, rounded up
PlainBlock(source) == IF Fences(source) % 2 = 1 THEN (Fences(source) + 1) \div 2 ELSE 0

\* render_markdown_lines_with_mode, finish
Rendered(source, streaming) ==
    FlushLine(FoldLeft(HandleEvent, NewRenderer(IF streaming THEN PlainBlock(source) ELSE 0),
                       Parsed(source))).lines
=============================================================================
