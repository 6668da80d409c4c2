----------------------------- MODULE MCFrontEnd -----------------------------
(***************************************************************************)
(* Config files: up to three locations of overlapping paths, each with one *)
(* of five bodies, after a port; three different index pages; every kind   *)
(* of port number; the layouts that users give them; every sequence of up  *)
(* to five tokens; and a few that are wrong in a way Parse does not see.   *)
(* Requests for targets that the locations cover, whose headers and bodies *)
(* hold verbs, slashes, blanks, empty lines and a NUL; texts that are no   *)
(* requests; and what is in the memory behind them.                        *)
(***************************************************************************)
EXTENDS ConfigAsWritten, TLC

A == 97
B == 98
Echo == 300
Static == 301
Statc == 302
Files == 303
Page == 304
Other == 305
Http == 306
Patch == 307

MCPaths == {<<Slash>>, <<Slash, A>>, <<Slash, A, Slash>>, <<Slash, A, B>>,
            <<Slash, A, Slash, B>>}
MCTargets == {<<Slash>>, <<Slash, A>>, <<Slash, A, B, B>>,
              <<Slash, A, Slash, B>>, <<Slash, B>>}
MCHandlers == {"EchoHandler", "StaticHandler", "files", "other"}
MCRoots == MCHandlers
MCSpelled == (Echo :> "EchoHandler") @@ (Static :> "StaticHandler")
             @@ (Files :> "files")

End(tokens) == Statement(tokens, <<>>)
Group(tokens, statements) == Statement(tokens, <<statements>>)

RootFiles == End(<<<<RootWord>>, <<Files>>>>)
RootQuoted == End(<<<<RootWord>>, <<Quote, Files, Quote>>>>)
IndexPage == End(<<<<IndexWord>>, <<Page>>>>)

Bodies == {[handler |-> Echo, block |-> <<>>],
           [handler |-> Statc, block |-> <<>>],
           [handler |-> Static, block |-> <<>>],
           [handler |-> Static, block |-> <<RootFiles>>],
           [handler |-> Static, block |-> <<IndexPage, RootQuoted>>]}

LocationOf(p, b) == Group(<<<<Location>>, p, <<b.handler>>>>, b.block)

FewBodies == {b \in Bodies : b.handler = Echo \/ Len(b.block) = 1}

\* Locations for a set of paths, in some order.
Sections(paths) ==
    LET order == SetToSeq(paths)
    IN  {[i \in DOMAIN order |-> LocationOf(order[i], f[i])] :
            f \in [DOMAIN order -> IF Cardinality(paths) < 3 THEN Bodies ELSE FewBodies]}

Listen80 == End(<<<<Listen>>, <<56, 48>>>>)

Routed == {<<Listen80>> \o s : s \in UNION {Sections(paths) :
              paths \in {q \in SUBSET MCPaths : Cardinality(q) <= 3}}}

\* 80, 080, 1023, 1024, 40000, 65535, 65536, 4294967376, and no number.
Numbers == {<<56, 48>>, <<48, 56, 48>>, <<49, 48, 50, 51>>, <<49, 48, 50, 52>>,
            <<52, 48, 48, 48, 48>>, <<54, 53, 53, 51, 53>>, <<54, 53, 53, 51, 54>>,
            <<52, 50, 57, 52, 57, 54, 55, 51, 55, 54>>, <<Other>>}
Somewhere == LocationOf(<<Slash, A>>, [handler |-> Static, block |-> <<RootFiles>>])
Again == LocationOf(<<Slash, A>>, [handler |-> Echo, block |-> <<IndexPage>>])

Bound == UNION {{<<End(<<k, n>>), Somewhere>>,
                 <<Somewhere, Again, End(<<k, n>>)>>,
                 <<Group(<<<<Other>>>>, <<End(<<<<Other>>, <<Quote, A, Space, B, Quote>>>>),
                                          End(<<k, n>>), Somewhere>>),
                   Again>>} : k \in {<<Listen>>, <<PortWord>>}, n \in Numbers}
         \cup {<<Somewhere>>}

\* Three index pages for two paths, and blanks more before some of them.
Pages == <<<<Page>>, <<Other>>, <<A, B>>>>
Indexed == {<<Listen80>> \o [i \in DOMAIN Pages |->
                LocationOf(p[i], [handler |-> Static,
                                  block |-> <<End(<<<<IndexWord>>, Pages[i]>>)>>])] :
               p \in [DOMAIN Pages -> {<<Slash>>, <<Slash, A>>}]}

Loosened(t, indexes) ==
    FoldLeft(LAMBDA u, i : u \o (IF i \in indexes THEN <<t[i], Space>> ELSE <<t[i]>>),
             <<>>, [i \in DOMAIN t |-> i])

Loose(t) == {Loosened(t, indexes) :
                indexes \in SUBSET {i \in DOMAIN t : t[i] = IndexWord}}

\* Everything on one line, and a comment after every line.
RECURSIVE OneLine(_)
OneLine(block) ==
    FoldLeft(LAMBDA t, s :
                 t \o Tail(FoldLeft(LAMBDA u, w : u \o <<Space>> \o w, <<>>, s.tokens))
                 \o (IF s.block = <<>> THEN <<Semicolon>>
                     ELSE <<OpenBrace>> \o OneLine(s.block[1]) \o <<CloseBrace>>),
             <<>>, block)

Commented(t) == FoldLeft(LAMBDA u, c :
                             u \o (IF c = LF THEN <<Space, Hash, Other, Apostrophe, LF>>
                                             ELSE <<c>>),
                         <<Hash, LF>>, t)

Tokens == {<<A>>, <<Semicolon>>, <<OpenBrace>>, <<CloseBrace>>}
TokenTexts == {FoldLeft(LAMBDA t, w : t \o w \o <<Space>>, <<>>, s) :
                  s \in UNION {[1 .. n -> Tokens] : n \in 0 .. 5}}

\* Files that Parse takes although they are none: a location without a blank
\* after its path, and a root in a comment that the file ends in, which the
\* loops of ExtractLocation do not get over; quotes that are escaped, and not.
Strays ==
    {<<Listen, Space, 56, 48, Semicolon, LF>> \o t :
        t \in {<<Location, Space, Slash, A, Semicolon>>,
               <<Location, Space, Slash, A, Space, Echo, OpenBrace, B, Semicolon,
                 Hash, RootWord, Space, Files>>,
               <<Location, Space, Slash, A, Space, Echo, OpenBrace, B, Semicolon,
                 Hash, IndexWord, Space, Page>>,
               <<Location, Semicolon, LF, Slash, A, Space, Echo, Semicolon>>,
               <<Location, Space, Slash, A, Space, Static, OpenBrace,
                 B, Space, Quote, A, Backslash, Quote, B, Quote, Semicolon,
                 RootWord, Semicolon, CloseBrace>>,
               <<B, Space, Quote, A, Quote, B, Quote, Semicolon>>}}

MCConfigFiles ==
    {[text |-> ConfigToString(s, 0), written |-> s] : s \in Routed \cup Bound}
    \cup {[text |-> OneLine(s), written |-> s] : s \in Bound}
    \cup {[text |-> Commented(ConfigToString(s, 0)), written |-> s] : s \in Bound}
    \cup UNION {{[text |-> t, written |-> s] : t \in Loose(ConfigToString(s, 0))} :
                   s \in Indexed}
    \cup {[text |-> t, written |-> <<>>] : t \in TokenTexts \cup Strays}

\* Each of them is shown as ToString writes it, blanks apart.
ASSUME ShownAsToString ==
    \A file \in MCConfigFiles : ShowsAs(file.written, Black(ConfigToString(file.written, 0)))

Headers == {<<Http, Slash, CR, LF, Put, Space, Slash, CR, LF, Get>>}
Body == <<A, Space, Slash>> \o EmptyLine \o <<B>>
MCSendings == [verb : {Get, Post, Put, Delete, Patch}, target : MCTargets,
               headers : Headers, body : {Body}]
              \cup [verb : {Put}, target : {<<Slash, A>>},
                    headers : Headers, body : {<<A, NUL, B>>}]

\* Behind the text: a NUL, so that it ends there, or the end of another request.
MCStale == {<<NUL, B>>, <<Slash, B, Space>> \o EmptyLine \o <<B, NUL, A>>}

\* No verb, no blank, no empty line yet, no blank after the target, and next
\* to nothing.
MCGarbled == {<<A, Space, Slash, Space>> \o EmptyLine, <<Get>> \o EmptyLine,
              <<Get, Space, Slash, A, Space, Http, CR, LF>>,
              <<Get, Space, Slash, A>> \o EmptyLine, <<A>>}
=============================================================================
