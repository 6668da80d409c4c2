-------------------------- MODULE MarkdownEmphasis --------------------------
(***************************************************************************)
(* RawText::_processBoldAndItalicSpans of cpp_markdown: the emphasis of a  *)
(* text, one round of its loops per step.  The text becomes a list of      *)
(* tokens, open and close markers are matched while the list grows, and a  *)
(* last pass unmatches those of the matches that cross.                    *)
(***************************************************************************)
EXTENDS MarkdownSpans

VARIABLES at,           \* the pass _process is in, and here one of Phases
          src,          \* the text under way
          prev,         \* where the search for its next marker starts
          tgt,          \* its tokens
          ii, iii,      \* the iterators of the loops over them
          id,           \* the next match
          openMatches   \* the stack of matched open markers

emphasisVars == <<at, src, prev, tgt, ii, iii, id, openMatches>>

Phases == {"tokens", "match", "unmatch"}

-----------------------------------------------------------------------------
(* The text becomes tokens.                                                *)

\* _processSpanElements hands over a text.
Begin ==
    /\ at = "spans"
    /\ src' \in Seq(Pieces)
    /\ at' = "tokens"
    /\ prev' = 1 /\ tgt' = <<>>
    /\ UNCHANGED <<ii, iii, id, openMatches>>

\* What is not matched is text.
TextUpTo(i) == IF i = prev THEN <<>> ELSE <<Text(SubSeq(src, prev, i - 1))>>

NextMarker ==
    /\ at = "tokens"
    /\ \E i \in {NextMatch(src, prev)} :
         /\ i <= Len(src)
         /\ \E m \in {MatchAt(src, i, prev)} : /\ tgt' = tgt \o TextUpTo(i) \o m.tokens
                                            /\ prev' = m.next
    /\ UNCHANGED <<at, src, ii, iii, id, openMatches>>

\* In a text without markers the loops over the tokens find nothing.
LastMarker ==
    /\ at = "tokens" /\ NextMatch(src, prev) > Len(src)
    /\ tgt' = tgt \o TextUpTo(Len(src) + 1)
    /\ LET plain == \A n \in DOMAIN tgt' : ~IsMarker(tgt'[n])
       IN  /\ at' = IF plain THEN "unmatch" ELSE "match"
           /\ ii' = IF plain THEN Len(tgt') + 1 ELSE 1
    /\ iii' = 2 /\ id' = 0 /\ openMatches' = <<>>
    /\ UNCHANGED <<src, prev>>

-----------------------------------------------------------------------------
(* Open markers are matched with close markers.                            *)

UnmatchedOpen(t) == IsMarker(t) /\ t.open /\ t.id = -1 /\ ~t.off
UnmatchedClose(t) == IsMarker(t) /\ ~t.open /\ t.id = -1 /\ ~t.off
MatchedOpen(t) == IsMarker(t) /\ t.open /\ t.id # -1
MatchedClose(t) == IsMarker(t) /\ ~t.open /\ t.id # -1

\* An open marker at ii, and a close marker at iii that is compared with it.
Comparing ==
    /\ at = "match" /\ ii <= Len(tgt) /\ iii <= Len(tgt)
    /\ UnmatchedOpen(tgt[ii]) /\ UnmatchedClose(tgt[iii])
Splits == tgt[iii].size = 3 /\ tgt[ii].size # 3
Fits == tgt[iii].c = tgt[ii].c /\ tgt[iii].size = tgt[ii].size

Disabled(t) == [t EXCEPT !.off = TRUE]
\* Mutant: the marker that was split stays.
SplitKeeping(n, size1, size2) ==
    SubSeq(tgt, 1, n)
        \o <<Marker(tgt[n].open, tgt[n].c, size1), Marker(tgt[n].open, tgt[n].c, size2)>>
        \o SubSeq(tgt, n + 1, Len(tgt))
\* The marker at n is split in two, which go behind it.
Split(n, size1, size2) ==
    SubSeq(tgt, 1, n - 1)
        \o <<Disabled(tgt[n]), Marker(tgt[n].open, tgt[n].c, size1), Marker(tgt[n].open, tgt[n].c, size2)>>
        \o SubSeq(tgt, n + 1, Len(tgt))
matchVars == <<at, src, prev, openMatches>>

SplitClose ==
    /\ Comparing /\ Splits
    /\ tgt' = Split(iii, tgt[iii].size - tgt[ii].size, tgt[ii].size)
    /\ iii' = iii + 1
    /\ UNCHANGED <<matchVars, ii, id>>

Match ==
    /\ Comparing /\ ~Splits /\ Fits
    /\ tgt' = [tgt EXCEPT ![ii].id = id, ![iii].id = id]
    /\ id' = id + 1
    /\ ii' = ii + 1 /\ iii' = ii + 2
    /\ UNCHANGED matchVars

SplitOpen ==
    /\ Comparing /\ ~Splits /\ ~Fits /\ tgt[ii].size = 3
    /\ tgt' = Split(ii, tgt[ii].size - tgt[iii].size, tgt[iii].size)
    /\ ii' = ii + 1 /\ iii' = ii + 2
    /\ UNCHANGED <<matchVars, id>>

\* Mutant: the iterator is not advanced.
NextCloseStays ==
    /\ at = "match" /\ ii <= Len(tgt) /\ UnmatchedOpen(tgt[ii]) /\ iii <= Len(tgt)
    /\ UnmatchedClose(tgt[iii]) => ~Splits /\ ~Fits /\ tgt[ii].size # 3
    /\ UNCHANGED emphasisVars

\* What is at iii is no close marker, or none for the one at ii.
NextClose ==
    /\ at = "match" /\ ii <= Len(tgt) /\ UnmatchedOpen(tgt[ii]) /\ iii <= Len(tgt)
    /\ UnmatchedClose(tgt[iii]) => ~Splits /\ ~Fits /\ tgt[ii].size # 3
    /\ iii' = iii + 1
    /\ UNCHANGED <<matchVars, ii, id, tgt>>

NextOpen ==
    /\ at = "match" /\ ii <= Len(tgt)
    /\ ~UnmatchedOpen(tgt[ii]) \/ iii > Len(tgt)
    /\ ii' = ii + 1 /\ iii' = ii + 2
    /\ UNCHANGED <<matchVars, id, tgt>>

AllCompared ==
    /\ at = "match" /\ ii > Len(tgt)
    /\ at' = "unmatch"
    /\ ii' = 1
    /\ UNCHANGED <<src, prev, tgt, iii, id, openMatches>>

-----------------------------------------------------------------------------
(* Matches that cross are unmatched.                                       *)

\* Mutants: a crossing match stays; the whole stack is popped.
UnmatchedNothing(key) == tgt
PoppedAll(stack) == <<>>

Unmatched(key) == [n \in DOMAIN tgt |-> IF tgt[n].id = key THEN [tgt[n] EXCEPT !.id = -1] ELSE tgt[n]]
\* The stack without its top, and without what is unmatched below it.
Popped(stack) ==
    LET live == {n \in 1 .. Len(stack) - 1 : \E k \in DOMAIN tgt : MatchedOpen(tgt[k]) /\ tgt[k].id = stack[n]}
    IN  SubSeq(stack, 1, Max({0} \cup live))

\* The next token of the pass that unmatches what is not nested.
Unmatch ==
    LET t == tgt[ii]
    IN  /\ at = "unmatch" /\ ii <= Len(tgt)
        /\ ii' = ii + 1
        /\ IF MatchedOpen(t)
           THEN openMatches' = Append(openMatches, t.id) /\ UNCHANGED tgt
           ELSE IF MatchedClose(t) /\ t.id # Last(openMatches)
           THEN tgt' = Unmatched(t.id) /\ UNCHANGED openMatches
           ELSE IF MatchedClose(t)
           THEN openMatches' = Popped(openMatches) /\ UNCHANGED tgt
           ELSE UNCHANGED <<tgt, openMatches>>
        /\ UNCHANGED <<at, src, prev, iii, id>>

\* The tokens are written: _processSpanElements has its result.
Finish ==
    /\ at = "unmatch" /\ ii > Len(tgt)
    /\ at' = "spans"
    /\ UNCHANGED <<src, prev, tgt, ii, iii, id, openMatches>>

-----------------------------------------------------------------------------
EmphasisInit ==
    /\ at \notin Phases
    /\ src = <<>> /\ prev = 1 /\ tgt = <<>> /\ openMatches = <<>>
    /\ ii = 1 /\ iii = 1 /\ id = 0

Round == \/ NextMarker \/ LastMarker
         \/ SplitClose \/ Match \/ SplitOpen \/ NextClose \/ NextOpen \/ AllCompared
         \/ Unmatch

\* The other passes of _process.
Elsewhere == /\ at \notin Phases /\ at' \notin Phases
             /\ UNCHANGED <<src, prev, tgt, ii, iii, id, openMatches>>

EmphasisNext == Begin \/ Round \/ Finish \/ Elsewhere

EmphasisSpec == EmphasisInit /\ [][EmphasisNext]_emphasisVars

-----------------------------------------------------------------------------
\* The tokens that are written as tags.
Tagged == {n \in DOMAIN tgt : IsMarker(tgt[n]) /\ tgt[n].id # -1 /\ ~tgt[n].off}

\* The open and the close tag of a match.
Pairs == {p \in Tagged \X Tagged :
             /\ p[1] < p[2]
             /\ tgt[p[1]].open /\ ~tgt[p[2]].open
             /\ tgt[p[1]].id = tgt[p[2]].id
             /\ tgt[p[1]].c = tgt[p[2]].c /\ tgt[p[1]].size = tgt[p[2]].size}

\* The tags written for the markers of a text are nested, each closed by the
\* tag of its own kind, although matches are made across each other and only
\* the last pass unmatches those that cross.
NestedTags ==
    at = "unmatch" /\ ii > Len(tgt) =>
        /\ \A n \in Tagged : \E p \in Pairs : n \in {p[1], p[2]}
        /\ \A p, q \in Pairs :
             p # q /\ p[1] <= q[1] => p[1] < q[1] /\ (q[2] < p[2] \/ p[2] < q[1])

\* The pass that unmatches calls top() on its stack for every matched close
\* marker: the stack is never empty then.
UnmatchDefined ==
    at = "unmatch" /\ ii <= Len(tgt) /\ MatchedClose(tgt[ii]) => openMatches # <<>>

\* "mSize; // 1=italics, 2=bold, 3=both" (markdown-tokens.h:366): no marker is
\* made of another size.
MarkerSizes ==
    \A n \in DOMAIN tgt : IsMarker(tgt[n]) => tgt[n].size \in 1 .. 3

\* The emphasis characters in a list of tokens.
Weight(t) == IF t.off THEN 0 ELSE t.size + TotalSize(t.text)
Counted(list) == Total([n \in DOMAIN list |-> Weight(list[n])])

\* However markers are split, as many emphasis characters are in the tokens as
\* the text has.
MarkersConserved ==
    at \in {"match", "unmatch"} => Counted(tgt) = TotalSize(src)
=============================================================================
