--------------------------- MODULE MarkdownSpans ----------------------------
(***************************************************************************)
(* The spans of a paragraph in cpp_markdown (markdown-tokens.cpp), up to   *)
(* the tokens that emphasis is matched on.  A text is a sequence of        *)
(* pieces: words, blanks, runs of one emphasis character and single signs. *)
(* What a pass has recognised is taken out of the text into a table of     *)
(* replacements, and a placeholder is left: Hold(n) for the n-th entry,    *)
(* Escaped(c) for an escaped character.                                    *)
(***************************************************************************)
EXTENDS Integers, Sequences, SequencesExt, FiniteSetsExt

Piece(is, c, n) == [is |-> is, c |-> c, n |-> n]
Word(n) == Piece("word", "", n)
Blank == Piece("blank", " ", 1)
Run(c, n) == Piece("run", c, n)
Sign(c) == Piece("sign", c, 1)
Hold(n) == Piece("hold", "", n)
Escaped(c) == Piece("escaped", c, 1)
Pieces == [is : STRING, c : STRING, n : Nat]
IsWord(p) == p.is = "word"
Held(p) == p.is \in {"hold", "escaped"}

Replacement(class, text) == [class |-> class, text |-> text]
Replaced(src, replacements) == [src |-> src, replacements |-> replacements]

\* The positions of a sign from i on.
At(src, c, i) == {j \in i .. Len(src) : src[j] = Sign(c)}
From(src, i) == SubSeq(src, i, Len(src))

\* The code spans of src, each the positions of its two backticks.  A search
\* looks back no further than where it starts.
CodeSpans(src) ==
    LET from[prev \in 1 .. Len(src) + 1] ==
            LET opens == {p \in At(src, "tick", prev) : /\ p = prev \/ src[p - 1] # Sign("backslash")
                                                        /\ At(src, "tick", p + 2) # {}}
                close == Min(At(src, "tick", Min(opens) + 2))
            IN  IF opens = {} THEN <<>> ELSE <<<<Min(opens), close>>>> \o from[close + 1]
    IN  from[1]

\* Mutant: every placeholder has the number of the first entry.
processCodeSpansFirst(src) ==
    LET spans == CodeSpans(src)
        Inside(i) == \E n \in DOMAIN spans : i \in spans[n][1] + 1 .. spans[n][2]
        Left(i) == IF Inside(i) THEN <<>>
                   ELSE IF \E n \in DOMAIN spans : i = spans[n][1] THEN <<Hold(1)>> ELSE <<src[i]>>
    IN  Replaced(FlattenSeq([i \in DOMAIN src |-> Left(i)]),
                 [n \in DOMAIN spans |->
                     Replacement("CodeSpan", SubSeq(src, spans[n][1] + 1, spans[n][2] - 1))])

\* _processCodeSpans: the spans go into the table.
processCodeSpans(src) ==
    LET spans == CodeSpans(src)
        InSpan(i) == {n \in DOMAIN spans : i \in spans[n][1] .. spans[n][2]}
        Left(i) == IF InSpan(i) = {} THEN <<src[i]>>
                   ELSE LET n == Min(InSpan(i))
                        IN  IF i = spans[n][1] THEN <<Hold(n)>> ELSE <<>>
    IN  Replaced(FlattenSeq([i \in DOMAIN src |-> Left(i)]),
                 [n \in DOMAIN spans |->
                     Replacement("CodeSpan", SubSeq(src, spans[n][1] + 1, spans[n][2] - 1))])

\* _processEscapedCharacters: of a run only the first character is escaped.
processEscapedCharacters(src) ==
    LET from[i \in 1 .. Len(src) + 2] ==
            IF i > Len(src) THEN <<>>
            ELSE IF src[i] # Sign("backslash") \/ i = Len(src) THEN <<src[i]>> \o from[i + 1]
            ELSE IF src[i + 1].is \notin {"run", "sign"} THEN <<src[i], src[i + 1]>> \o from[i + 2]
            ELSE <<Escaped(src[i + 1].c)>>
                     \o (IF src[i + 1].n = 1 THEN <<>> ELSE <<Run(src[i + 1].c, src[i + 1].n - 1)>>)
                     \o from[i + 2]
    IN  from[1]

\* The first thing from prev on that looks like a link or an image.  The
\* target of an inline link reaches to the last parenthesis that closes
\* before another one opens.
LinkAt(src, prev) ==
    LET opens == {p \in At(src, "[", prev) : At(src, "]", p + 2) # {}}
        open == Min(opens)
        close == Min(At(src, "]", open + 2))
        inParens == {p \in At(src, ")", close + 2) : At(src, "(", close + 2) \cap 1 .. p = {}}
        inline == close < Len(src) /\ src[close + 1] = Sign("(") /\ inParens # {}
        image == open > prev /\ src[open - 1] = Sign("!")
    IN  IF opens = {} THEN [found |-> FALSE]
        ELSE [found |-> TRUE, image |-> image, inline |-> inline,
              first |-> IF image THEN open - 1 ELSE open,
              last |-> IF inline THEN Max(inParens) ELSE close,
              contents |-> SubSeq(src, open + 1, close - 1),
              target |-> IF inline THEN SubSeq(src, close + 2, Max(inParens) - 1) ELSE <<>>]

\* _processLinksImagesAndTags.  A target with a blank in it, and a reference
\* that is not in the table, resolve to nothing: the first character stays as
\* it is and the search goes on after it.
processLinksImagesAndTags(src, replacements, idTable) ==
    LET from[prev \in 1 .. Len(src) + 1, n \in Nat] ==
            LET m == LinkAt(src, prev)
                resolved == IF m.inline THEN Blank \notin ToSet(m.target)
                            ELSE m.contents = <<Word(0)>> /\ idTable # <<>>
                url == IF m.inline THEN m.target ELSE idTable
                Continue(pieces, new, rest) ==
                    Replaced(SubSeq(src, prev, m.first - 1) \o pieces \o rest.src, new \o rest.replacements)
            IN  IF ~m.found THEN Replaced(From(src, prev), <<>>)
                ELSE IF ~resolved
                THEN Continue(<<Hold(n)>>, <<Replacement("RawText", <<src[m.first]>>)>>,
                              from[m.first + 1, n + 1])
                ELSE IF m.image
                THEN Continue(<<Hold(n)>>, <<Replacement("Image", m.contents \o url)>>,
                              from[m.last + 1, n + 1])
                ELSE Continue(<<Hold(n)>> \o m.contents \o <<Hold(n + 1)>>,
                              <<Replacement("HtmlAnchorTag", url), Replacement("HtmlTag", <<>>)>>,
                              from[m.last + 1, n + 2])
        all == from[1, Len(replacements) + 1]
    IN  [all EXCEPT !.replacements = replacements \o @]

\* processSpanElements up to emphasis.
Protected(text, idTable) ==
    LET code == processCodeSpans(text)
    IN  processLinksImagesAndTags(processEscapedCharacters(code.src), code.replacements, idTable)

-----------------------------------------------------------------------------
(* The tokens that emphasis is matched on: texts, and markers that open or *)
(* close.  id is that of the match, -1 where there is none; a marker that  *)
(* was split is off.                                                       *)

Text(pieces) ==
    [open |-> FALSE, c |-> "", size |-> 0, off |-> FALSE, id |-> -1, text |-> pieces]
Marker(open, c, size) ==
    [open |-> open, c |-> c, size |-> size, off |-> FALSE, id |-> -1, text |-> <<>>]
IsMarker(t) == t.c # ""

IsRun(src, i) == i \in DOMAIN src /\ src[i].is = "run"
\* The last of the pieces from i on that are all of one of kinds.
StretchEnd(src, i, kinds) ==
    Min({Len(src) + 1} \cup {j \in i .. Len(src) : src[j].is \notin kinds}) - 1
RunsEnd(src, i) == StretchEnd(src, i, {"run"})
SolidEnd(src, i) == StretchEnd(src, i, {"word", "sign", "hold", "escaped"})
\* The sums of the first elements of a list, and of all of them.
Sums(list) ==
    LET upTo[n \in 0 .. Len(list)] == IF n = 0 THEN 0 ELSE upTo[n - 1] + list[n]
    IN  upTo
Total(list) == Sums(list)[Len(list)]
Sizes(pieces) == [i \in DOMAIN pieces |-> IF pieces[i].is = "run" THEN pieces[i].n ELSE 0]
TotalSize(pieces) == Total(Sizes(pieces))

\* The three alternatives of cEmphasisExpression at i, of a search from prev:
\* emphasis in the middle of a word, an open marker, a close marker.
MidWord(src, i, prev) ==
    LET a == RunsEnd(src, i)
        b == SolidEnd(src, a + 1)
    IN  /\ i = prev \/ ~IsRun(src, i - 1)
        /\ b > a
        /\ SubSeq(src, b + 1, RunsEnd(src, b + 1)) = SubSeq(src, i, a)
        /\ TotalSize(SubSeq(src, i, a)) <= 3
MayOpen(src, i) == src[i].n <= 3 /\ i < Len(src) /\ src[i + 1] # Blank
MayClose(src, i, prev) == src[i].n <= 3 /\ (i = prev \/ src[i - 1] # Blank)

MatchAt(src, i, prev) ==
    LET a == RunsEnd(src, i)
        b == SolidEnd(src, a + 1)
        size == TotalSize(SubSeq(src, i, a))
    IN  IF MidWord(src, i, prev)
        THEN [tokens |-> <<Marker(TRUE, src[i].c, size), Text(SubSeq(src, a + 1, b)),
                           Marker(FALSE, src[i].c, size)>>,
              next |-> b + 1 + a - i + 1]
        ELSE [tokens |-> <<Marker(MayOpen(src, i), src[i].c, src[i].n)>>, next |-> i + 1]

\* The first match from prev on; Len(src) + 1 if there is none.
NextMatch(src, prev) ==
    Min({Len(src) + 1} \cup
        {i \in prev .. Len(src) :
            IsRun(src, i) /\ (MidWord(src, i, prev) \/ MayOpen(src, i) \/ MayClose(src, i, prev))})

-----------------------------------------------------------------------------
\* _encodeProcessedItems and the writing of what it yields: every placeholder
\* of a text gives way to its entry, whose own text is not looked into.
encodeProcessedItems(pieces, replacements) ==
    FlattenSeq([n \in DOMAIN pieces |->
        CASE pieces[n].is = "hold" -> replacements[pieces[n].n].text
          [] pieces[n].is = "escaped" -> <<Piece("plain", pieces[n].c, 1)>>
          [] OTHER -> <<pieces[n]>>])

=============================================================================
