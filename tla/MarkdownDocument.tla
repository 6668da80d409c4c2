-------------------------- MODULE MarkdownDocument --------------------------
(***************************************************************************)
(* markdown::Document: the passes of _process over the lines it has read,  *)
(* and for every text the matching of its emphasis markers, step by step.  *)
(***************************************************************************)
EXTENDS MarkdownBlocks, MarkdownEmphasis

CONSTANT Documents \* The sequences of lines that are read.

VARIABLES doc,          \* the lines read
          tokens,       \* mTokenContainer's subtokens
          idTable,      \* mIdTable: the target of the one id there is
          texts,        \* the texts whose spans are still to be processed
          replacements, \* the table of the text under way
          written       \* the texts processed, as sequences of pieces

docVars == <<doc, tokens, idTable, texts, replacements, written>>
spanVars == <<replacements, src, prev, tgt, ii, iii, id, openMatches>>
vars == <<docVars, emphasisVars>>

Init ==
    /\ doc \in Documents
    /\ at = "read"
    /\ tokens = <<>> /\ idTable = <<>> /\ texts = <<>> /\ written = <<>>
    /\ replacements = <<>>
    /\ EmphasisInit

-----------------------------------------------------------------------------
(* Document::read, and the passes over the blocks.                         *)

read ==
    /\ at = "read"
    /\ at' = "merge"
    /\ tokens' = [n \in DOMAIN doc |-> IF IsBlank(doc[n]) THEN BlankLine ELSE RawText(doc[n])]
    /\ UNCHANGED <<doc, idTable, texts, written, spanVars>>

MergeTags ==
    /\ at = "merge"
    /\ at' = "html"
    /\ tokens' = mergeMultilineHtmlTags(tokens)
    /\ UNCHANGED <<doc, idTable, texts, written, spanVars>>

ProcessHtml ==
    LET r == processInlineHtmlAndReferences(tokens, 1, <<>>, idTable)
    IN  /\ at = "html"
        /\ at' = "blocks"
        /\ tokens' = r.tokens
        /\ idTable' = r.idTable
        /\ UNCHANGED <<doc, texts, written, spanVars>>

RECURSIVE Aborts(_)
Aborts(T) == \E n \in DOMAIN T : T[n] = Abort \/ Aborts(T[n].sub)

ProcessBlocks ==
    /\ at = "blocks"
    /\ tokens' = processBlocksItems(tokens, 1)
    /\ at' = IF Aborts(tokens') THEN "aborted" ELSE "paragraphs"
    /\ UNCHANGED <<doc, idTable, texts, written, spanVars>>

\* The texts of a tree that spans are looked for in, in their order; headers
\* are written as they are.
RECURSIVE Texts(_)
Texts(T) ==
    FlattenSeq([n \in DOMAIN T |->
        IF T[n].class = "RawText" THEN <<T[n].line.text>>
        ELSE IF isContainer(T[n]) THEN Texts(T[n].sub) ELSE <<>>])

ProcessParagraphs ==
    /\ at = "paragraphs"
    /\ at' = "spans"
    /\ tokens' = processParagraphLines(Token("Container", NoLine, tokens)).sub
    /\ texts' = Texts(tokens')
    /\ UNCHANGED <<doc, idTable, written, spanVars>>

-----------------------------------------------------------------------------
(* processSpanElements of the next text.                                   *)

Protect ==
    LET p == Protected(Head(texts), idTable)
    IN  /\ texts # <<>>
        /\ src' = p.src /\ replacements' = p.replacements
        /\ Begin
        /\ UNCHANGED <<doc, tokens, idTable, texts, written>>

\* What a token is written as: tags for matched markers, the characters of the
\* others, and the pieces of a text.
Tag(t) == [is |-> IF t.open THEN "open" ELSE "close", c |-> t.c, n |-> t.size]
Written(t) ==
    IF t.off THEN <<>>
    ELSE IF IsMarker(t) THEN <<IF t.id # -1 THEN Tag(t) ELSE Run(t.c, t.size)>>
    ELSE encodeProcessedItems(t.text, replacements)

EndText ==
    /\ Finish
    /\ texts' = Tail(texts)
    /\ written' = Append(written, FlattenSeq([n \in DOMAIN tgt |-> Written(tgt[n])]))
    /\ UNCHANGED <<doc, tokens, idTable, replacements>>

EmphasisStep == (Round /\ UNCHANGED docVars) \/ EndText

Next ==
    \/ read \/ MergeTags \/ ProcessHtml \/ ProcessBlocks \/ ProcessParagraphs
    \/ Protect \/ EmphasisStep

-----------------------------------------------------------------------------
\* The words of a text, of a document and of a page, in their order.
Words(pieces) == SelectSeq(pieces, IsWord)
RECURSIVE PageWords(_)
PageWords(T) == FlattenSeq([n \in DOMAIN T |-> Words(T[n].line.text) \o PageWords(T[n].sub)])
LineWords(n) == Words(doc[n].text)
DocumentWords == FlattenSeq([n \in DOMAIN doc |-> LineWords(n)])
\* The passes over the blocks are done; the tokens stay as they are from then on.
Structured == at = "paragraphs" \/ (at = "spans" /\ written = <<>>)

\* The words of a document come out in their order, and none of them twice,
\* whichever lines the parsers of blocks look ahead at, take back and parse
\* again as part of another block.
KeptInOrder ==
    LET Place(w) == CHOOSE n \in DOMAIN DocumentWords : DocumentWords[n] = w
        page == PageWords(tokens)
    IN  at \in {"html", "blocks"} \/ Structured =>
            \A m, n \in DOMAIN page : m < n => Place(page[m]) < Place(page[n])

AfterBlank(n) == n = 1 \/ IsBlank(doc[n - 1])
AfterHtmlInCode(n) ==
    \E h \in 1 .. n : /\ Mark(doc[h]) \in BlockTags \cup {"<!--"}
                      /\ \E c \in 1 .. h : doc[c].indent >= 4
\* In a document that is processed to the end of its blocks, a line with a
\* blank line before it is not lost, although the loop over the blocks steps
\* over the line that a quote, a list or a code block ends at.  Excepted are
\* references, which go to the table, and inline HTML that code surrounds: it
\* counts as a blank line of the code, and vanishes.  Nothing is said of the
\* documents on which a block parser aborts, such as a quote, a blank line and
\* inline HTML.
BlankSeparatedKept ==
    Structured => \A n \in DOMAIN doc :
        AfterBlank(n) => \/ ToSet(LineWords(n)) \subseteq ToSet(PageWords(tokens))
                         \/ Mark(doc[n]) = "[id]:"
                         \/ AfterHtmlInCode(n)

PlainLine(l) == l.indent = 0 /\ l.marks = <<>> /\ l.text # <<>>
UnderlineAt(n) == n \in DOMAIN doc /\ Mark(doc[n]) \in {"---", "==="}

\* Inline HTML that starts at line h goes on, blank lines or not, until a blank
\* line follows its first line, or a tag or a comment's end alone on a line.
HtmlEndsBefore(h, n) ==
    \E k \in h + 1 .. n - 1 :
        /\ IsBlank(doc[k])
        /\ \/ k = h + 1
           \/ IF Mark(doc[h]) = "<!--" THEN EndsComment(doc[k - 1]) ELSE AloneTag(doc[k - 1])
MaybeInHtml(n) ==
    \E h \in 1 .. n - 1 : /\ Mark(doc[h]) \in BlockTags \cup {"<div", "<!--"}
                          /\ ~HtmlEndsBefore(h, n)

\* Lines that share a paragraph have no blank line between them, in whatever
\* quote or list they are; and a plain line goes on with the plain line after
\* it if it starts a paragraph, is not broken off by two blanks at its end, the
\* line after it is no header, and no inline HTML that starts before it may
\* still go on.
ParagraphsAsWritten ==
    at = "spans" /\ written = <<>> =>
        \A m, n \in DOMAIN doc :
            m < n /\ doc[m].text # <<>> /\ doc[n].text # <<>> =>
            LET together ==
                    \E t \in ToSet(texts) : Head(doc[m].text) \in ToSet(t) /\ Head(doc[n].text) \in ToSet(t)
            IN  /\ together => \A k \in m .. n : ~IsBlank(doc[k])
                /\ (/\ n = m + 1 /\ PlainLine(doc[m]) /\ PlainLine(doc[n])
                    /\ AfterBlank(m) /\ ~MaybeInHtml(m)
                    /\ ~doc[m].brk /\ ~UnderlineAt(n + 1))
                   => together

-----------------------------------------------------------------------------
\* Every word of a text is written once, those of code spans, links and images
\* too, and no placeholder is left; unless one was taken into the description
\* of an image or the target of a link, which are written as they are.
RestoredOnce ==
    at = "spans" => \A n \in DOMAIN written :
        LET text == Texts(tokens)[n]
            entries == Protected(text, idTable).replacements
        IN  (\A r \in ToSet(entries) : ~\E p \in ToSet(r.text) : Held(p)) =>
                /\ ~\E p \in ToSet(written[n]) : Held(p)
                /\ \A w \in ToSet(Words(text)) :
                       Cardinality({k \in DOMAIN written[n] : written[n][k] = w}) = 1

\* The loops over the tokens of a text, one of which lengthens the list it goes
\* over, come to an end.
SpansEnd == at \in Phases ~> at = "spans"

DocumentSpec == Init /\ [][Next]_vars
DocumentLiveSpec == DocumentSpec /\ WF_vars(EmphasisStep)
=============================================================================
