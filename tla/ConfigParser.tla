---------------------------- MODULE ConfigParser ----------------------------
(***************************************************************************)
(* What main and the sessions do with the config file (config_parser.cc,   *)
(* server_main.cc).  The file is read three times: Parse makes a tree of   *)
(* statements, for no other use than to know that there is one;            *)
(* ExtractPort looks for a port number, and ExtractLocation for locations, *)
(* both in the characters of the file and without a look at the tree.      *)
(***************************************************************************)
EXTENDS Characters, SequencesExt

CONSTANT ConfigFiles    \* config files: [text |-> .., written |-> the statements
                        \* that it is the text of, or <<>> if it is of none]

\* The words the parsers look for.
Location == 256
RootWord == 257
IndexWord == 258
Listen == 259
PortWord == 260

VARIABLES
    text,           \* the config file
    at,             \* where the stream is
    phase,          \* "parse", "port", "locations", "serving"; or "refused":
                    \* main returns, "hangs", "undefined"
    last,           \* last_token_type
    stack,          \* config_stack, the blocks with what is in them by now
    tree,           \* the config that Parse fills in
    port,           \* the port the acceptor is bound to, or 0
    inside_brace, valid_location, path_name, index_name,    \* of ExtractLocation
    location_info,  \* what it returns
    written         \* observes: the statements in the file

parseVars == <<last, stack, tree>>
extractVars == <<inside_brace, valid_location, path_name, index_name, location_info>>
configVars == <<text, at, phase, parseVars, port, extractVars, written>>

\* A statement: its tokens, and <<its block>>, or <<>> if it has none.
Statement(tokens, block) == [tokens |-> tokens, block |-> block]

NoLocations == [handler |-> << >>, root |-> << >>, index |-> << >>]

-----------------------------------------------------------------------------
(* ParseToken. *)

Token(type, value, next) == [type |-> type, value |-> value, next |-> next]
NoMore(type) == Token(type, <<>>, Len(text) + 1)

\* The tokens that last_token_type tells apart.
TokenTypes == {"START", "NORMAL", "STATEMENT_END", "START_BLOCK", "END_BLOCK"}

QuoteEnds == {Space, Tab, LF, Semicolon}
WordEnds == {Space, Tab, LF, Semicolon, OpenBrace, CloseBrace}

\* The elements of s at the positions in S.
Picked(s, S) ==
    LET upTo[n \in 0 .. Len(s)] ==
            IF n = 0 THEN <<>>
            ELSE IF n \in S THEN Append(upTo[n - 1], s[n]) ELSE upTo[n - 1]
    IN  upTo[Len(s)]

\* From the quote at b on, a quote like it ends the token if a blank or a
\* semicolon comes next, and else has to be escaped; the backslash of one that
\* is escaped is left out, and of two backslashes the first.
Quoted(b) ==
    LET e == Min({j \in b + 1 .. Len(text) :
                     /\ text[j] = text[b]
                     /\ CharAt(text, j + 1) \in QuoteEnds \/ text[j - 1] # Backslash}
                 \cup {Len(text) + 1})
        kept == {k \in b .. e :
                    text[k] = Backslash =>
                        ~(\/ text[k + 1] = Backslash
                          \/ text[k + 1] = text[b] /\ k + 1 < e)}
    IN  IF CharAt(text, e + 1) \in QuoteEnds THEN Token("NORMAL", Picked(text, kept), e + 1)
        ELSE NoMore("ERROR")

\* Mutant: a comment goes on to the end of the file.
ParseTokenLongComment(i) ==
    LET b == FindNot(text, i, Spaces)
        c == CharAt(text, b)
        e == IF c = Hash THEN Len(text) + 1 ELSE Find(text, b + 1, WordEnds)
    IN  CASE c = OpenBrace -> Token("START_BLOCK", <<>>, b + 1)
          [] c = CloseBrace -> Token("END_BLOCK", <<>>, b + 1)
          [] c = Semicolon -> Token("STATEMENT_END", <<>>, b + 1)
          [] c \in {Quote, Apostrophe} -> Quoted(b)
          [] OTHER -> IF e > Len(text) THEN NoMore("EOF")
                      ELSE Token("NORMAL", SubSeq(text, b, e - 1), e)

\* The token from position i on.  A word or a comment that the end of the file
\* cuts off is not returned, the end of the file is.
ParseToken(i) ==
    LET b == FindNot(text, i, Spaces)
        c == CharAt(text, b)
        e == IF c = Hash THEN Find(text, b + 1, {LF, CR})
                         ELSE Find(text, b + 1, WordEnds)
    IN  CASE c = OpenBrace -> Token("START_BLOCK", <<>>, b + 1)
          [] c = CloseBrace -> Token("END_BLOCK", <<>>, b + 1)
          [] c = Semicolon -> Token("STATEMENT_END", <<>>, b + 1)
          [] c \in {Quote, Apostrophe} -> Quoted(b)
          [] OTHER -> IF e > Len(text) THEN NoMore("EOF")
                      ELSE IF c = Hash THEN Token("COMMENT", <<>>, e + 1)
                      ELSE Token("NORMAL", SubSeq(text, b, e - 1), e)

-----------------------------------------------------------------------------
(* Parse. *)

\* A token of the type, after one of the others.  A file that has been read to
\* its end is opened anew, or not any more.
Reads(token, type, after) ==
                      /\ phase = "parse"
                      /\ token.type = type
                      /\ last \in after
                      /\ at' = IF type = "EOF" THEN 1 ELSE token.next
                      /\ UNCHANGED <<text, written, port, extractVars>>

\* One token more for the last statement of a block.
WithToken(block, value) == [block EXCEPT ![Len(block)].tokens = Append(@, value)]

\* The innermost block ends: it is the block of the last statement around it.
Shut(s) == LET outer == s[Len(s) - 1]
           IN  Append(SubSeq(s, 1, Len(s) - 2),
                      [outer EXCEPT ![Len(outer)].block = <<s[Len(s)]>>])

\* The config, when the file ends in the middle of the blocks s.
Whole(s) ==
    LET shut[k \in DOMAIN s] ==
            IF k = Len(s) THEN s[k]
            ELSE [s[k] EXCEPT ![Len(s[k])].block = <<shut[k + 1]>>]
    IN  shut[1]

ParseComment(token) == /\ Reads(token, "COMMENT", TokenTypes)
                /\ UNCHANGED <<phase, parseVars>>

\* The first word after anything but a word begins a statement.
ParseWord(token) ==
    /\ Reads(token, "NORMAL", TokenTypes)
    /\ stack # <<>>
    /\ stack' = [stack EXCEPT ![Len(stack)] =
                    IF last = "NORMAL"
                    THEN WithToken(@, token.value)
                    ELSE Append(@, Statement(<<token.value>>, <<>>))]
    /\ last' = "NORMAL"
    /\ UNCHANGED <<phase, tree>>

ParseStatementEnd(token) == /\ Reads(token, "STATEMENT_END", {"NORMAL"})
                     /\ last' = "STATEMENT_END"
                     /\ UNCHANGED <<phase, stack, tree>>

ParseStartBlock(token) == /\ Reads(token, "START_BLOCK", {"NORMAL"})
                   /\ stack' = Append(stack, <<>>)
                   /\ last' = "START_BLOCK"
                   /\ UNCHANGED <<phase, tree>>

\* The brace of no block takes the config itself from the stack.
ParseEndBlock(token) ==
    /\ Reads(token, "END_BLOCK", {"STATEMENT_END", "START_BLOCK", "END_BLOCK"})
    /\ stack # <<>>
    /\ IF Len(stack) = 1 THEN stack' = <<>> /\ tree' = stack[1]
                         ELSE stack' = Shut(stack) /\ UNCHANGED tree
    /\ last' = "END_BLOCK"
    /\ UNCHANGED phase

\* top and pop of an empty stack.
ParseUndefined(token) ==
    /\ \/ Reads(token, "NORMAL", {"STATEMENT_END", "END_BLOCK"})
       \/ Reads(token, "END_BLOCK", {"STATEMENT_END", "END_BLOCK"})
    /\ stack = <<>>
    /\ phase' = "undefined"
    /\ UNCHANGED parseVars

\* Mutant: what the last token was does not matter.
ParseEndAnywhere(token) ==
    /\ Reads(token, "EOF", TokenTypes)
    /\ phase' = "port"
    /\ tree' = IF stack = <<>> THEN tree ELSE Whole(stack)
    /\ UNCHANGED <<last, stack>>

\* Parse returns true, with blocks open or not; main goes on to the port.
ParseEnd(token) ==
    /\ Reads(token, "EOF", {"STATEMENT_END", "END_BLOCK"})
    /\ phase' = "port"
    /\ tree' = IF stack = <<>> THEN tree ELSE Whole(stack)
    /\ UNCHANGED <<last, stack>>

\* Parse returns false, and main returns.
ParseRefuses(token) ==
    /\ \/ Reads(token, "ERROR", TokenTypes)
       \/ Reads(token, "STATEMENT_END", TokenTypes \ {"NORMAL"})
       \/ Reads(token, "START_BLOCK", TokenTypes \ {"NORMAL"})
       \/ Reads(token, "END_BLOCK", {"START", "NORMAL"})
       \/ Reads(token, "EOF", {"START", "NORMAL", "START_BLOCK"})
    /\ phase' = "refused"
    /\ UNCHANGED parseVars

-----------------------------------------------------------------------------
(* ExtractPort, and the port of the acceptor. *)

PortKeywords == {i \in at .. Len(text) - 1 :
                    text[i] \in {Listen, PortWord} /\ text[i + 1] = Space}

\* stoi, up to a number that is above all ports; for larger ones it throws,
\* and main returns just as it does for any number out of the range.
Number(digits) ==
    FoldLeft(LAMBDA n, c : Min({10 * n + (c - 48), 100000}), 0, digits)

Ports == 1024 .. 65535 \cup {80}

\* A short, and the unsigned short that tcp::endpoint makes of it again.
AsShort(n) == IF n < 2^15 THEN n ELSE n - 2^16
AsUnsignedShort(n) == n % 2^16

\* Mutant: a short that is below zero is no port.
EndpointPortSigned(n) == IF AsShort(n) < 0 THEN 0 ELSE AsShort(n)
EndpointPort(n) == AsUnsignedShort(AsShort(n))

\* Where the number after the first keyword starts, blanks apart.
NumberAt == FindNot(text, Min(PortKeywords) + 2, Spaces)

\* Mutant: all that was read for a number is put back.
SkipPortBack ==
    /\ phase = "port"
    /\ PortKeywords # {}
    /\ CharAt(text, NumberAt) \notin Digits
    /\ at' = Min(PortKeywords)
    /\ UNCHANGED <<text, written, phase, parseVars, port, extractVars>>

\* No digit follows the keyword: the search goes on.
SkipPort ==
    /\ phase = "port"
    /\ PortKeywords # {}
    /\ CharAt(text, NumberAt) \notin Digits
    /\ at' = NumberAt
    /\ UNCHANGED <<text, written, phase, parseVars, port, extractVars>>

\* The first number after a keyword decides, with its first zero.
ExtractPort ==
    /\ phase = "port"
    /\ PortKeywords # {}
    /\ CharAt(text, NumberAt) \in Digits
    /\ LET n == Number(SubSeq(text, NumberAt, FindNot(text, NumberAt, Digits) - 1))
       IN  IF text[NumberAt] # 48 /\ n \in Ports
           THEN phase' = "locations" /\ port' = EndpointPort(n)
           ELSE phase' = "refused" /\ UNCHANGED port
    /\ at' = 1
    /\ UNCHANGED <<text, written, parseVars, extractVars>>

NoPort ==
    /\ phase = "port"
    /\ PortKeywords = {}
    /\ phase' = "refused"
    /\ UNCHANGED <<text, written, at, parseVars, port, extractVars>>

-----------------------------------------------------------------------------
(* ExtractLocation: every round of its loop that does not just go on to the  *)
(* next character.                                                           *)

Here == Find(text, at, {OpenBrace, CloseBrace, Slash, Location, RootWord, IndexWord})

\* The loop is at character c, and goes on from the position i.
Meets(c) == phase = "locations" /\ CharAt(text, Here) = c
GoesOn(i) == at' = i /\ UNCHANGED <<text, written, phase, parseVars, port>>

\* A loop that waits for a character waits for it past the end of the file.
Hangs == /\ phase' = "hangs"
         /\ UNCHANGED <<text, written, at, parseVars, port, extractVars>>

Set(f, x, y) == [p \in DOMAIN f \cup {x} |-> IF p = x THEN y ELSE f[p]]

\* Mutant: the braces do not count.
MeetsBraceIgnored ==
    /\ Meets(OpenBrace) \/ Meets(CloseBrace)
    /\ GoesOn(Here + 1)
    /\ UNCHANGED extractVars

MeetsBrace ==
    /\ Meets(OpenBrace) \/ Meets(CloseBrace)
    /\ inside_brace' = (text[Here] = OpenBrace)
    /\ GoesOn(Here + 1)
    /\ UNCHANGED <<valid_location, path_name, index_name, location_info>>

\* "location ", wherever it is.
MeetsLocation ==
    /\ Meets(Location)
    /\ IF CharAt(text, Here + 1) = Space
       THEN valid_location' = TRUE /\ GoesOn(Here + 2)
       ELSE UNCHANGED valid_location /\ GoesOn(Here + 1)
    /\ UNCHANGED <<inside_brace, path_name, index_name, location_info>>

\* After it, the path up to a blank, and then letters and digits.
PathEnd == Find(text, Here, Spaces)
HandlerStart == FindNot(text, PathEnd, Spaces)
HandlerEnd == Min({i \in HandlerStart .. Len(text) :
                      ~Word(text[i]) /\ text[i] \notin Alnums} \cup {Len(text) + 1})

MeetsPath ==
    /\ Meets(Slash)
    /\ valid_location
    /\ PathEnd <= Len(text)
    /\ path_name' = SubSeq(text, Here, PathEnd - 1)
    /\ location_info' = [location_info EXCEPT !.handler =
           Set(@, path_name', SubSeq(text, HandlerStart, HandlerEnd - 1))]
    /\ valid_location' = FALSE
    /\ GoesOn(HandlerEnd)
    /\ UNCHANGED <<inside_brace, index_name>>

MeetsOtherSlash ==
    /\ Meets(Slash)
    /\ ~valid_location
    /\ GoesOn(Here + 1)
    /\ UNCHANGED extractVars

\* A root or an index is one of the last path, whatever block it is in.
Directive == /\ inside_brace
             /\ path_name # <<>>
             /\ CharAt(text, Here + 1) = Space

RootStart == FindNot(text, Here + 2, Spaces \cup {Quote})
RootEnd == Find(text, RootStart, Spaces \cup {Quote, Semicolon, CloseBrace})

MeetsRoot ==
    /\ Meets(RootWord)
    /\ Directive
    /\ RootEnd <= Len(text)
    /\ location_info' = [location_info EXCEPT !.root =
           Set(@, path_name, SubSeq(text, RootStart, RootEnd - 1))]
    /\ GoesOn(RootEnd)
    /\ UNCHANGED <<inside_brace, valid_location, path_name, index_name>>

\* The end of an index is read, if it is a brace too.
IndexStart == FindNot(text, Here + 2, Spaces)
IndexEnd == Find(text, IndexStart, Spaces \cup {Semicolon, CloseBrace})

\* Only a blank more before the name makes the loop forget the names that it
\* read before: else this one is put behind them.
MeetsIndex ==
    /\ Meets(IndexWord)
    /\ Directive
    /\ IndexEnd <= Len(text)
    /\ index_name' = (IF IndexStart > Here + 2 THEN <<>> ELSE index_name)
                     \o SubSeq(text, IndexStart, IndexEnd - 1)
    /\ location_info' = [location_info EXCEPT !.index = Set(@, path_name, index_name')]
    /\ GoesOn(IndexEnd + 1)
    /\ UNCHANGED <<inside_brace, valid_location, path_name>>

MeetsNoDirective ==
    /\ Meets(RootWord) \/ Meets(IndexWord)
    /\ ~Directive
    /\ GoesOn(Here + 1)
    /\ UNCHANGED extractVars

ExtractHangs ==
    /\ \/ Meets(Slash) /\ valid_location /\ PathEnd > Len(text)
       \/ Meets(RootWord) /\ Directive /\ RootEnd > Len(text)
       \/ Meets(IndexWord) /\ Directive /\ IndexEnd > Len(text)
    /\ Hangs

\* The file ends, and the Dispatcher has its locations.
ExtractEnds ==
    /\ phase = "locations"
    /\ Here > Len(text)
    /\ phase' = "serving"
    /\ UNCHANGED <<text, written, at, parseVars, port, extractVars>>

-----------------------------------------------------------------------------
ConfigInit ==
    /\ \E file \in ConfigFiles : text = file.text /\ written = file.written
    /\ at = 1
    /\ phase = "parse"
    /\ last = "START"
    /\ stack = <<<<>>>>
    /\ tree = <<>>
    /\ port = 0
    /\ inside_brace = FALSE
    /\ valid_location = FALSE
    /\ path_name = <<>>
    /\ index_name = <<>>
    /\ location_info = NoLocations

ParseStep == \E token \in {ParseToken(at)} : \/ ParseComment(token)
                                            \/ ParseWord(token)
                                            \/ ParseStatementEnd(token)
                                            \/ ParseStartBlock(token)
                                            \/ ParseEndBlock(token)
                                            \/ ParseUndefined(token)
                                            \/ ParseEnd(token)
                                            \/ ParseRefuses(token)

PortStep == SkipPort \/ ExtractPort \/ NoPort

LocationStep == \/ MeetsBrace
                \/ MeetsLocation
                \/ MeetsPath
                \/ MeetsOtherSlash
                \/ MeetsRoot
                \/ MeetsIndex
                \/ MeetsNoDirective
                \/ ExtractHangs

-----------------------------------------------------------------------------
\* What is no blank.
Black(t) == Picked(t, {i \in DOMAIN t : t[i] \notin Spaces})

\* A tree is shown as ToString does it, blanks apart: statement by statement,
\* those of a block before those that follow it, and then the end of the block,
\* which is here a statement without tokens.
EndOfBlock == Statement(<<>>, <<>>)

Words(tokens) == FlattenSeq([i \in DOMAIN tokens |-> Black(tokens[i])])
Mark(s) == IF s.tokens = <<>> THEN CloseBrace
           ELSE IF s.block = <<>> THEN Semicolon ELSE OpenBrace

ShowNext(c) ==
    IF c.todo = <<>> THEN c
    ELSE LET s == c.todo[1]
         IN  [todo  |-> (IF s.block = <<>> THEN <<>> ELSE Append(s.block[1], EndOfBlock))
                        \o Tail(c.todo),
              shown |-> c.shown \o Words(s.tokens) \o <<Mark(s)>>]

\* After n statements and ends of blocks.
Showing(c, n) ==
    LET after[k \in 0 .. n] == IF k = 0 THEN c ELSE ShowNext(after[k - 1])
    IN  after[n]

\* The tree is shown as t, of which every statement takes a character or more.
ShowsAs(block, t) ==
    Showing([todo |-> block, shown |-> <<>>], Len(t)) = [todo |-> <<>>, shown |-> t]

\* Parse does not say yes to a file and leave a part of it out: the text of the
\* tree has every character of the file, blanks apart, and the braces of blocks
\* that the file leaves open.  That takes a file without a brace that closes
\* none, which empties the stack of Parse, and without a last word that runs
\* into the end of the file, which it drops.  Comments are no part of the tree,
\* and an escaped quote is there without its backslash.
NothingLost ==
    /\ phase = "port" /\ stack # <<>>
    /\ \A i \in DOMAIN text : text[i] \notin {Hash, Backslash}
    /\ CharAt(text, Len(text)) \in WordEnds
    => ShowsAs(tree, Black(text) \o [i \in 1 .. Len(stack) - 1 |-> CloseBrace])

\* A file that is the text of a tree of statements, in one of its layouts, is
\* read to its end: neither the loops that look for a delimiter nor the
\* characters that are put back hold it up.  For other files that Parse takes
\* nothing is said, and there are some on which a loop of ExtractLocation never
\* ends.
StartupEnds == written # <<>> ~> phase \in {"refused", "serving"}
=============================================================================
