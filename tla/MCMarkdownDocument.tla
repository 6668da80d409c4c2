------------------------- MODULE MCMarkdownDocument -------------------------
(***************************************************************************)
(* Documents of up to five lines of six kinds, and of six that begin and   *)
(* end inline HTML, of four lines of eight and of three lines of           *)
(* twenty-three; and documents of one line put together of words, blanks,  *)
(* runs of emphasis characters, code, links and stray signs.               *)
(***************************************************************************)
EXTENDS MarkdownDocument, TLC

\* Lines: indentation, marks, whether there are words, and a break at the end.
Line(indent, marks, words) == [indent |-> indent, marks |-> marks, words |-> words, brk |-> FALSE]
Lines6 == {Line(0, <<>>, FALSE), Line(0, <<>>, TRUE), Line(4, <<>>, TRUE),
           Line(0, <<"-">>, TRUE), Line(2, <<"-">>, TRUE), Line(0, <<">">>, TRUE)}
Lines8 == Lines6 \cup {Line(8, <<>>, TRUE), Line(0, <<"1.">>, TRUE)}
Others == {Line(0, <<"#">>, TRUE), Line(0, <<"---">>, FALSE),
           Line(0, <<"[id]:">>, TRUE), Line(0, <<"(title)">>, FALSE),
           Line(0, <<"<div>">>, TRUE), Line(0, <<"</div>">>, FALSE), Line(0, <<"<ins>">>, TRUE),
           Line(0, <<"<div">>, FALSE), Line(2, <<"id=d>">>, FALSE), Line(2, <<"id=d>">>, TRUE),
           Line(0, <<"<!--", "-->">>, TRUE), Line(0, <<"-->">>, FALSE), Line(0, <<"1.", "-">>, TRUE), Line(2, <<"-", "*">>, TRUE),
           Line(0, <<">", "-">>, TRUE), Line(0, <<">">>, FALSE),
           [Line(0, <<>>, TRUE) EXCEPT !.brk = TRUE]}

Html6 == {Line(0, <<>>, FALSE), Line(0, <<>>, TRUE),
          Line(0, <<"<div>">>, TRUE), Line(0, <<"</div>">>, FALSE),
          Line(0, <<"<!--">>, TRUE), Line(0, <<"-->">>, FALSE)}

Specials == <<Line(4, <<>>, TRUE), Line(0, <<>>, FALSE), Line(0, <<"<div>">>, TRUE),
              Line(0, <<>>, FALSE), Line(4, <<>>, TRUE)>>

\* The n-th line of a document holds the n-th word.
Numbered(lines) ==
    [n \in DOMAIN lines |->
        [indent |-> lines[n].indent, marks |-> lines[n].marks, brk |-> lines[n].brk,
         text |-> IF lines[n].words THEN <<Word(n)>> ELSE <<>>]]
MCBlocks ==
    {Numbered(s) : s \in [1 .. 5 -> Lines6] \cup [1 .. 5 -> Html6] \cup [1 .. 4 -> Lines8]
                      \cup [1 .. 3 -> Lines6 \cup Others] \cup {Specials}}

\* Texts put together of chunks, in documents of one line.
W == <<Word(1)>>
Star(n) == <<Run("*", n)>>
Under(n) == <<Run("_", n)>>
Code == <<Sign("tick"), Word(1), Sign("tick")>>
Brackets(text) == <<Sign("[")>> \o text \o <<Sign("]")>>
Link(text, url) == Brackets(text) \o <<Sign("(")>> \o url \o <<Sign(")")>>
Renumbered(text) ==
    [n \in DOMAIN text |-> IF IsWord(text[n]) /\ text[n].n # 0 THEN Word(n) ELSE text[n]]
\* No two runs of one character next to each other: they would be one run.
Proper(text) ==
    \A n \in 1 .. Len(text) - 1 : ~(IsRun(text, n) /\ IsRun(text, n + 1) /\ text[n].c = text[n + 1].c)
TextsOf(Chunks, n) ==
    {Renumbered(t) : t \in {u \in {FlattenSeq(s) : s \in [1 .. n -> Chunks]} : Proper(u)}}
Stars == {W, <<Blank>>, Star(1), Star(2), Star(3)}
Both == {W, Star(1), Star(2), Under(1), Under(2)}
Open(run) == <<Blank>> \o run \o W
Close(run) == W \o run
Runs == {Star(1), Star(2), Star(3), Under(1)}
Crossing ==
    {Renumbered(FlattenSeq(s)) :
        s \in {<<Open(r1), x, y, Close(r2)>> :
                 r1 \in Runs, x \in {Open(r) : r \in Runs}, r2 \in Runs,
                 y \in {Close(r) \o <<Blank>> : r \in Runs}}}
Links == {W, <<Blank>>, Star(1), Code, <<Sign("backslash")>>, Brackets(W), <<Sign(")")>>, <<Sign("tick")>>,
          Link(W, W), <<Sign("!")>> \o Link(W, W), <<Sign("!")>> \o Link(Code, W)}
OneLine(text) == <<[indent |-> 0, marks |-> <<>>, text |-> text, brk |-> FALSE]>>
MCTexts == TextsOf(Stars, 5) \cup TextsOf(Both, 4) \cup Crossing \cup TextsOf(Links, 3)

MCDocuments == MCBlocks \cup {OneLine(t) : t \in MCTexts}
MCBothThree == {OneLine(t) : t \in TextsOf({W, Star(3), Under(3)}, 3)}
=============================================================================
