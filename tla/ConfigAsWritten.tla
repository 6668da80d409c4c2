--------------------------- MODULE ConfigAsWritten ---------------------------
(***************************************************************************)
(* A config file as its users write it: the text of a tree of statements   *)
(* (ToString of config_parser.cc), what its statements say, and that       *)
(* ConfigParser reads it so.                                               *)
(***************************************************************************)
EXTENDS FrontEnd

Blanks(depth) == [i \in 1 .. 2 * depth |-> Space]

RECURSIVE ConfigToString(_, _)
StatementToString(s, depth) ==
    Blanks(depth)
    \o FoldLeft(LAMBDA t, token : IF t = <<>> THEN token ELSE t \o <<Space>> \o token,
                <<>>, s.tokens)
    \o (IF s.block = <<>> THEN <<Semicolon>>
        ELSE <<Space, OpenBrace, LF>> \o ConfigToString(s.block[1], depth + 1)
             \o Blanks(depth) \o <<CloseBrace>>)
    \o <<LF>>

ConfigToString(block, depth) ==
    FoldLeft(LAMBDA t, s : t \o StatementToString(s, depth), <<>>, block)

-----------------------------------------------------------------------------
(* The statements of a config file, read as its users write them.           *)

RECURSIVE Statements(_)
Statements(block) ==
    FoldLeft(LAMBDA all, s :
                 Append(all, s) \o (IF s.block = <<>> THEN <<>>
                                    ELSE Statements(s.block[1])),
             <<>>, block)

\* The statements of that name, in the order of the file.
StatementsNamed(block, names) ==
    SelectSeq(Statements(block), LAMBDA s : s.tokens[1] \in names)

Unquoted(token) == IF token[1] = Quote THEN SubSeq(token, 2, Len(token) - 1) ELSE token

LocationStatements == StatementsNamed(written, {<<Location>>})

\* The directives of that name in the blocks of the locations, each with the
\* path of its location, in the order of the file.
Directives(name) ==
    FoldLeft(LAMBDA all, s :
                 IF s.block = <<>> THEN all
                 ELSE LET own == StatementsNamed(s.block[1], {name})
                      IN  all \o [i \in DOMAIN own |->
                                    [path |-> s.tokens[2], value |-> own[i].tokens[2]]],
             <<>>, LocationStatements)

PathsOf(directives) == {d.path : d \in Range(directives)}
LastFor(path, directives) == Max({i \in DOMAIN directives : directives[i].path = path})

HandlersWritten ==
    LET paths == {s.tokens[2] : s \in Range(LocationStatements)}
    IN  [path \in paths |->
            Last(SelectSeq(LocationStatements, LAMBDA s : s.tokens[2] = path)).tokens[3]]

RootsWritten ==
    LET roots == Directives(<<RootWord>>)
    IN  [path \in PathsOf(roots) |-> Unquoted(roots[LastFor(path, roots)].value)]

\* The last of the first n index directives with a blank more before its name,
\* or the first one.
Apart(n) ==
    LET words == SetToSortSeq({i \in DOMAIN text : text[i] = IndexWord}, <)
    IN  Max({1} \cup {k \in 1 .. n : text[words[k] + 2] \in Spaces})

\* An index is the name in its directive, but behind the names of all that go
\* before it in the file, for whatever path, since the last one that is apart.
IndexesRead ==
    LET indexes == Directives(<<IndexWord>>)
        names == [i \in DOMAIN indexes |-> indexes[i].value]
    IN  [path \in PathsOf(indexes) |->
            LET n == LastFor(path, indexes)
            IN  FlattenSeq(SubSeq(names, Apart(n), n))]

PortStatements == StatementsNamed(written, {<<Listen>>, <<PortWord>>})

-----------------------------------------------------------------------------
\* What a config file is written from is what Parse makes of it: the tree of
\* its statements, in each of the layouts.
ParsedAsWritten == written # <<>> /\ phase # "parse" => tree = written

\* The port that is bound is the one in the file, up to 65535 through a signed
\* short, and a file without a port that can be bound starts no server.
PortAsWritten ==
    written # <<>> /\ phase \in {"locations", "refused"} /\ at = 1 =>
        LET digits == PortStatements[1].tokens[2]
        IN  IF PortStatements # <<>> /\ digits[1] # 48 /\ Number(digits) \in Ports
            THEN phase # "refused" /\ port = Number(digits)
            ELSE phase = "refused"

\* The two readings of the file agree: the locations that ExtractLocation
\* finds in its characters, with their handlers and roots, are those of its
\* statements, and so are their indexes, if there is a blank more before each:
\* index_name is not reset between two directives, and a name that one blank
\* sets off goes behind the ones before it.
LocationsAsWritten ==
    written # <<>> /\ phase = "locations" /\ Here > Len(text)
      => location_info = [handler |-> HandlersWritten,
                          root    |-> RootsWritten,
                          index   |-> IndexesRead]
=============================================================================
