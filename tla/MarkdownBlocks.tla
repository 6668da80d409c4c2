--------------------------- MODULE MarkdownBlocks ---------------------------
(***************************************************************************)
(* The block structure of cpp_markdown (markdown.cpp): how the lines of a  *)
(* document become headers, rules, lists, quotes, code and paragraphs.     *)
(*                                                                         *)
(* A line is a record: how far it is indented, the marks it starts with,   *)
(* each followed by one blank, the text after them (a sequence of pieces), *)
(* and whether it ends in two blanks (brk).  The regular expressions are   *)
(* predicates on such lines.  A token is a record too: its class, its line *)
(* and, of a container, its subtokens.  The parsers get a sequence of      *)
(* tokens T and a position i, and return the token found and the position  *)
(* they leave the iterator at; NoToken says that there was none, Abort     *)
(* that an assertion failed or that a text was taken where there is none.  *)
(***************************************************************************)
EXTENDS MarkdownSpans

NoLine == [indent |-> 0, marks |-> <<>>, text |-> <<>>, brk |-> FALSE]
Token(class, line, sub) == [class |-> class, line |-> line, sub |-> sub]
RawText(line) == Token("RawText", line, <<>>)
BlankLine == Token("BlankLine", NoLine, <<>>)
NoToken == Token("none", NoLine, <<>>)
Abort == Token("abort", NoLine, <<>>)
Found(token, i) == [token |-> token, i |-> i]

isContainer(t) ==
    t.class \in {"InlineHtmlBlock", "UnorderedList", "OrderedList", "ListItem",
                 "ParagraphItem", "BlockQuote", "Paragraph", "Container"}
hasText(t) == ~isContainer(t) /\ t.class # "abort"
\* Mutant: blank lines are text like any other.
canContainMarkupBlank(t) == t.class \in {"RawText", "Header", "BlankLine"}
canContainMarkup(t) == t.class \in {"RawText", "Header"}
\* An inline HTML block says of itself that it is a blank line.
isBlankLine(t) == t.class \in {"BlankLine", "InlineHtmlBlock"}
inhibitParagraphs(t) == t.class \in {"Header", "InlineHtmlBlock", "ListItem"}
Raw(t) == ~isBlankLine(t) /\ hasText(t) /\ canContainMarkup(t)

-----------------------------------------------------------------------------
(* The regular expressions.                                                *)

Mark(l) == IF l.marks = <<>> THEN "" ELSE Head(l.marks)
After(l, n) == [l EXCEPT !.indent = 0, !.marks = SubSeq(@, n + 1, Len(@))]
Unindented(l) == [l EXCEPT !.indent = 0]
IsBlank(l) == l.marks = <<>> /\ l.text = <<>>

Bullets == {"-", "*", "+"}
\* "[^*-]": what follows the bullet starts with neither star nor dash.
UnorderedItem(l) == Mark(l) \in Bullets /\ Mark(After(l, 1)) \notin {"-", "*"}
OrderedItem(l) == Mark(l) = "1."
\* Another item of the list whose first item is on line f.
nextItem(l, f) ==
    /\ l.indent = f.indent
    /\ \/ UnorderedItem(f) /\ UnorderedItem(l) /\ Mark(l) = Mark(f)
       \/ OrderedItem(f) /\ OrderedItem(l)
startSublist(l, f) == l.indent > f.indent /\ Mark(l) \in Bullets \cup {"1."}

QuoteMarks(l) == Cardinality({n \in DOMAIN l.marks : \A k \in 1 .. n : l.marks[k] = ">"})
\* The prefix must be followed by a blank, and that by anything.
countQuoteLevel(l) ==
    IF l.indent > 3 THEN 0
    ELSE IF IsBlank(After(l, QuoteMarks(l))) /\ QuoteMarks(l) > 0
         THEN QuoteMarks(l) - 1 ELSE QuoteMarks(l)
ContinuesQuote(l, level) == l.indent <= 3 /\ QuoteMarks(l) >= level

CodeLine(t) == Raw(t) /\ t.line.indent >= 4
Underline(t) == Raw(t) /\ t.line.indent = 0 /\ Mark(t.line) \in {"---", "==="}

-----------------------------------------------------------------------------
(* The parsers of the blocks.                                              *)

parseHeader(T, i) ==
    IF ~Raw(T[i]) THEN Found(NoToken, i)
    ELSE IF T[i].line.indent = 0 /\ Mark(T[i].line) = "#"
    THEN Found(Token("Header", After(T[i].line, 1), <<>>), i)
    ELSE IF i < Len(T) /\ Underline(T[i + 1])
    THEN Found(Token("Header", T[i].line, <<>>), i + 1)
    ELSE Found(NoToken, i)

parseHorizontalRule(T, i) ==
    IF Raw(T[i]) /\ T[i].line.indent <= 3 /\ Mark(T[i].line) = "---"
    THEN Found(Token("HtmlTag", NoLine, <<>>), i)
    ELSE Found(NoToken, i)

\* The code line that a code block goes on with at i, over blank lines; 0 if
\* there is none.
isCodeBlockLine(T, i) ==
    LET solid == {j \in i .. Len(T) : ~isBlankLine(T[j])}
    IN  IF solid # {} /\ CodeLine(T[Min(solid)]) THEN Min(solid) ELSE 0

\* The code lines from i on, and where they end.
RECURSIVE CodeFrom(_, _, _)
CodeFrom(T, i, lines) ==
    LET j == isCodeBlockLine(T, i)
    IN  IF j = 0 THEN [lines |-> lines, i |-> i]
        ELSE CodeFrom(T, j + 1, Append(lines, RawText(T[j].line)))

\* Mutant: the iterator is left behind the line that ends the code.
parseCodeBlockPast(T, i) ==
    IF isBlankLine(T[i]) \/ ~CodeLine(T[i]) THEN Found(NoToken, i)
    ELSE LET code == CodeFrom(T, i, <<>>)
         IN  Found(Token("CodeBlock", NoLine, code.lines), code.i + 1)

parseCodeBlock(T, i) ==
    IF isBlankLine(T[i]) \/ ~CodeLine(T[i]) THEN Found(NoToken, i)
    ELSE LET code == CodeFrom(T, i, <<>>)
         IN  Found(Token("CodeBlock", NoLine, code.lines), code.i)

\* The lines of a quote after the first, and where they end.
RECURSIVE QuoteFrom(_, _, _, _)
QuoteFrom(T, i, level, sub) ==
    IF i > Len(T) THEN Found(sub, i)
    ELSE IF isBlankLine(T[i])
    THEN IF i = Len(T) THEN Found(sub, i + 1)
         ELSE IF ~hasText(T[i + 1]) THEN Found(<<Abort>>, i)
         ELSE IF ContinuesQuote(T[i + 1].line, level)
         THEN QuoteFrom(T, i + 2, level,
                        sub \o <<BlankLine, RawText(After(T[i + 1].line, level))>>)
         ELSE Found(sub, i)
    ELSE IF ~hasText(T[i]) THEN Found(<<Abort>>, i)
    ELSE IF ContinuesQuote(T[i].line, level)
    THEN LET l == After(T[i].line, level)
         IN  QuoteFrom(T, i + 1, level,
                       Append(sub, IF IsBlank(l) THEN BlankLine ELSE RawText(l)))
    ELSE Found(sub, i)

parseBlockQuote(T, i) ==
    LET level == countQuoteLevel(T[i].line)
        rest == QuoteFrom(T, i + 1, level, <<RawText(After(T[i].line, level))>>)
    IN  IF ~Raw(T[i]) \/ level = 0 THEN Found(NoToken, i)
        ELSE Found(Token("BlockQuote", NoLine, rest.token), rest.i)

-----------------------------------------------------------------------------
(* Lists.                                                                  *)

\* The code in a list item from i on; the blank line that ends it must have
\* a line after it whose text can be taken.
RECURSIVE ItemCode(_, _, _, _)
ItemCode(T, i, depth, lines) ==
    LET Deep(t) == hasText(t) /\ t.line.indent >= depth
    IN  IF i > Len(T) THEN Found(Token("CodeBlock", NoLine, lines), i)
        ELSE IF isBlankLine(T[i]) /\ (i = Len(T) \/ ~hasText(T[i + 1])) THEN Found(Abort, i)
        ELSE IF isBlankLine(T[i]) /\ Deep(T[i + 1])
        THEN ItemCode(T, i + 2, depth, Append(lines, RawText(T[i + 1].line)))
        ELSE IF ~isBlankLine(T[i]) /\ Deep(T[i])
        THEN ItemCode(T, i + 1, depth, Append(lines, RawText(T[i].line)))
        ELSE Found(Token("CodeBlock", NoLine, lines), i)

\* What a list under way has gathered: its finished items, the tokens of the
\* item it is in, the number of items, whether the items hold paragraphs, and
\* where it is.
ItemDone(s) == IF s.item = <<>> THEN s.items ELSE Append(s.items, s.item)
WithItem(s, l, i) ==
    [s EXCEPT !.items = ItemDone(s), !.item = <<RawText(After(l, 1))>>, !.count = @ + 1, !.i = i]
WithTokens(s, tokens, i) == [s EXCEPT !.item = @ \o tokens, !.i = i]

RECURSIVE parseListBlock(_, _, _), ListFrom(_, _, _)

\* assert(p): a line that starts a sublist is taken for a list.
WithSublist(T, s) ==
    LET p == parseListBlock(T, s.i, TRUE)
    IN  IF p.token \in {NoToken, Abort}
        THEN WithTokens(s, <<Abort>>, Len(T) + 1)
        ELSE [WithTokens(s, <<p.token>>, p.i) EXCEPT !.count = @ + 1]

\* The list whose first item is on line f, from s on.
ListFrom(T, f, s) ==
    LET i == s.i
        Paragraphs(state) == [state EXCEPT !.paragraphs = TRUE]
    IN  IF i > Len(T) THEN s
        ELSE IF isBlankLine(T[i])
        THEN IF i = Len(T) THEN [s EXCEPT !.i = i + 1]
             ELSE LET l == T[i + 1].line
                      depth == f.indent + 8
                      code == ItemCode(T, i + 2, depth, <<RawText(l)>>)
                  IN  IF ~hasText(T[i + 1]) THEN s
                      ELSE IF startSublist(l, f)
                      THEN ListFrom(T, f, WithSublist(T, [Paragraphs(s) EXCEPT !.i = i + 1]))
                      ELSE IF nextItem(l, f)
                      THEN ListFrom(T, f, WithItem(Paragraphs(s), l, i + 2))
                      ELSE IF l.indent = f.indent + 4
                      THEN ListFrom(T, f, WithTokens(s, <<BlankLine, RawText(Unindented(l))>>, i + 2))
                      ELSE IF l.indent >= depth /\ code.token = Abort
                      THEN WithTokens(s, <<Abort>>, Len(T) + 1)
                      ELSE IF l.indent >= depth
                      THEN ListFrom(T, f, [WithTokens(Paragraphs(s), <<BlankLine, code.token>>, code.i)
                                               EXCEPT !.count = @ + 1])
                      ELSE s
        ELSE IF ~hasText(T[i]) THEN s
        ELSE IF startSublist(T[i].line, f) THEN ListFrom(T, f, WithSublist(T, s))
        ELSE IF nextItem(T[i].line, f) THEN ListFrom(T, f, WithItem(s, T[i].line, i + 1))
        ELSE IF UnorderedItem(T[i].line) \/ OrderedItem(T[i].line) THEN s
        ELSE ListFrom(T, f, WithTokens(s, <<RawText(Unindented(T[i].line))>>, i + 1))

\* A single item that is not indented is no list after all.
parseListBlock(T, i, sub) ==
    LET f == T[i].line
        starts == Raw(T[i]) /\ (UnorderedItem(f) \/ OrderedItem(f)) /\ (sub \/ f.indent < 4)
        s == ListFrom(T, f, [items |-> <<>>, item |-> <<RawText(After(f, 1))>>, count |-> 1,
                             paragraphs |-> FALSE, i |-> i + 1])
        Item(tokens) == Token(IF s.paragraphs THEN "ParagraphItem" ELSE "ListItem", NoLine, tokens)
        items == ItemDone(s)
    IN  IF ~starts THEN Found(NoToken, i)
        ELSE IF \E n \in DOMAIN s.item : s.item[n] = Abort THEN Found(Abort, Len(T) + 1)
        ELSE IF s.count > 1 \/ f.indent # 0
        THEN Found(Token(IF OrderedItem(f) THEN "OrderedList" ELSE "UnorderedList", NoLine,
                         [n \in DOMAIN items |-> Item(items[n])]), s.i)
        ELSE Found(NoToken, i)

-----------------------------------------------------------------------------
(* The passes over a document.                                             *)

\* The mark is all that is on the line.
Alone(l, mark) == l.marks = <<mark>> /\ l.text = <<>>

\* _mergeMultilineHtmlTags: a line that is the start of a tag and one that is
\* the rest of it, the attribute after a blank, become one.
mergeMultilineHtmlTags(T) ==
    LET Splits(i) == /\ i < Len(T)
                     /\ T[i].line.indent = 0 /\ Alone(T[i].line, "<div")
                     /\ T[i + 1].line.indent > 0 /\ Alone(T[i + 1].line, "id=d>")
        from[i \in 1 .. Len(T) + 1] ==
            IF i > Len(T) THEN <<>>
            ELSE IF Splits(i)
            THEN <<RawText([T[i].line EXCEPT !.marks = <<"<div>">>])>>
                     \o from[i + 2]
            ELSE <<T[i]>> \o from[i + 1]
    IN  from[1]

BlockTags == {"<div>", "</div>", "<ins>"}
AloneTag(l) == l.indent = 0 /\ \E tag \in BlockTags \cup {"<em>"} : Alone(l, tag)
EndsComment(l) == l.marks # <<>> /\ Last(l.marks) = "-->" /\ l.text = <<>>

\* The HTML that starts at i ends where a blank line follows, the first line
\* or one of closing, those with the closing sign; or it never ends.
HtmlEnd(T, i, closing) ==
    Min({Len(T)} \cup {j \in closing \cup {i} : j < Len(T) /\ isBlankLine(T[j + 1])})
\* The lines from i on where a comment, or the HTML of a tag, can end.
Closing(T, i, comment) ==
    {j \in i .. Len(T) : LET l == T[j].line
                         IN  IF comment THEN EndsComment(l) ELSE AloneTag(l)}

\* Mutant: the iterator is reset to the first line, as if there were no HTML.
parseInlineHtmlReset(T, i) ==
    LET l == T[i].line
        end == HtmlEnd(T, i, Closing(T, i, FALSE))
    IN  IF l.indent = 0 /\ Mark(l) \in BlockTags /\ end > i
        THEN Found(Token("InlineHtmlBlock", NoLine,
                         [n \in 1 .. end - i + 1 |-> Token("InlineHtmlContents", T[i + n - 1].line, <<>>)]),
                   i)
        ELSE Found(NoToken, i)

\* At i, after a blank line or at the start.  A single line that starts with a
\* tag that is also a span tag is none.
parseInlineHtml(T, i) ==
    LET l == T[i].line
        comment == Mark(l) = "<!--"
        end == HtmlEnd(T, i, Closing(T, i, comment))
    IN  IF /\ l.indent = 0
           /\ comment \/ (Mark(l) \in BlockTags /\ (end > i \/ Mark(l) # "<ins>"))
        THEN Found(Token("InlineHtmlBlock", NoLine,
                         [n \in 1 .. end - i + 1 |-> Token("InlineHtmlContents", T[i + n - 1].line, <<>>)]),
                   end)
        ELSE Found(NoToken, i)

\* A reference, and its title on the next line; the first one of an id stays.
parseReference(T, i, idTable) ==
    LET l == T[i].line
        titled == i < Len(T) /\ Mark(T[i + 1].line) = "(title)"
        isReference == l.indent <= 3 /\ Mark(l) = "[id]:"
    IN  [found |-> isReference,
         i |-> IF isReference /\ titled THEN i + 1 ELSE i,
         idTable |-> IF isReference /\ idTable = <<>> THEN l.text ELSE idTable]

\* _processInlineHtmlAndReferences, from i on with what is processed so far.
RECURSIVE processInlineHtmlAndReferences(_, _, _, _)
processInlineHtmlAndReferences(T, i, processed, idTable) ==
    LET mayStart == processed = <<>> \/ isBlankLine(Last(processed))
        html == parseInlineHtml(T, i)
        reference == parseReference(T, i, idTable)
    IN  IF i > Len(T) THEN [tokens |-> processed, idTable |-> idTable]
        ELSE IF mayStart /\ html.token # NoToken
        THEN processInlineHtmlAndReferences(T, html.i + 1, Append(processed, html.token), idTable)
        ELSE IF reference.found
        THEN processInlineHtmlAndReferences(T, reference.i + 1, processed, reference.idTable)
        ELSE processInlineHtmlAndReferences(T, i + 1, Append(processed, T[i]), idTable)

\* The first parser that finds something at i.
Block(T, i) ==
    LET all == <<parseHeader(T, i), parseHorizontalRule(T, i), parseListBlock(T, i, FALSE),
                 parseBlockQuote(T, i), parseCodeBlock(T, i)>>
        finds == {n \in 1 .. 5 : all[n].token # NoToken}
    IN  IF finds = {} THEN Found(NoToken, i) ELSE all[Min(finds)]

\* _processBlocksItems: the iterator is advanced past where the parser left
\* it, which for quotes, lists and code is the first line that is not theirs.
RECURSIVE processBlocksItems(_, _)
processBlocksItems(T, i) ==
    LET block == Block(T, i)
        Inside(t) == IF isContainer(t) THEN [t EXCEPT !.sub = processBlocksItems(t.sub, 1)] ELSE t
    IN  IF i > Len(T) THEN <<>>
        ELSE IF hasText(T[i]) /\ block.token # NoToken
        THEN <<Inside(block.token)>> \o processBlocksItems(T, block.i + 1)
        ELSE <<Inside(T[i])>> \o processBlocksItems(T, i + 1)

\* The lines of a paragraph become one text, with blanks between them.
Joined(lines) ==
    RawText([NoLine EXCEPT !.text = FoldLeft(
        LAMBDA text, t : IF text = <<>> THEN t.line.text ELSE text \o <<Blank>> \o t.line.text,
        <<>>, lines)])

\* flushParagraph: the lines gathered become a paragraph, or bare text where
\* the container wants no paragraphs.
flushParagraph(lines, final, noParagraphs) ==
    IF lines = <<>> THEN final
    ELSE Append(final, IF noParagraphs THEN Joined(lines)
                       ELSE Token("Paragraph", NoLine, <<Joined(lines)>>))

\* _processParagraphLines.
RECURSIVE processParagraphLines(_)
processParagraphLines(container) ==
    LET no == inhibitParagraphs(container)
        Gather(state, t) ==
            IF canContainMarkup(t) /\ ~inhibitParagraphs(t)
            THEN IF t.line.brk
                 THEN [lines |-> <<>>,
                       final |-> Append(flushParagraph(Append(state.lines, t), state.final, no),
                                        Token("HtmlTag", NoLine, <<>>))]
                 ELSE [state EXCEPT !.lines = Append(@, t)]
            ELSE [lines |-> <<>>,
                  final |-> Append(flushParagraph(state.lines, state.final, no),
                                   IF isContainer(t) THEN processParagraphLines(t) ELSE t)]
        gathered == FoldLeft(Gather, [lines |-> <<>>, final |-> <<>>], container.sub)
    IN  [container EXCEPT !.sub = flushParagraph(gathered.lines, gathered.final, no)]

=============================================================================
