----------------------------- MODULE Characters -----------------------------
(***************************************************************************)
(* Texts as sequences of character codes.  A code above 255 stands for a   *)
(* whole word, in the letter cases that the code at hand takes for it: the *)
(* keywords of config files and of requests, and names that no code looks  *)
(* into.  No other word has one of the keywords in it.                     *)
(***************************************************************************)
EXTENDS Integers, Sequences, FiniteSetsExt

Tab == 9
LF == 10
CR == 13
Space == 32
Quote == 34
Hash == 35
Apostrophe == 39
Slash == 47
Semicolon == 59
Backslash == 92
OpenBrace == 123
CloseBrace == 125

Digits == 48 .. 57

\* isspace and isalnum, and what get returns at the end of a stream.
Spaces == {Tab, LF, CR, Space}
Word(c) == c > 255
Alnums == Digits \cup 65 .. 90 \cup 97 .. 122
EndOfFile == -1

CharAt(t, i) == IF i \in DOMAIN t THEN t[i] ELSE EndOfFile

\* The first position of t from i on with a character in S, and with one that
\* is not; the one past the end if there is none.
Find(t, i, S) ==
    IF \E j \in i .. Len(t) : t[j] \in S
    THEN CHOOSE j \in i .. Len(t) :
             t[j] \in S /\ \A k \in i .. j - 1 : t[k] \notin S
    ELSE Len(t) + 1
FindNot(t, i, S) ==
    IF \E j \in i .. Len(t) : t[j] \notin S
    THEN CHOOSE j \in i .. Len(t) :
             t[j] \notin S /\ \A k \in i .. j - 1 : t[k] \in S
    ELSE Len(t) + 1
=============================================================================
