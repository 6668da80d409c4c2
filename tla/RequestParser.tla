--------------------------- MODULE RequestParser ---------------------------
(***************************************************************************)
(* parse_req_str (request_parser.cc) and session::create_request: from the *)
(* characters of a request its verb, its target and its body.  The parser  *)
(* does not go by the lines of the request: it looks for the first blank,  *)
(* the first slash, the first blank after that and the first empty line.   *)
(* A session reads once, into a data_ that nothing has set: the parser     *)
(* takes what is there up to the first NUL character, so that what was in  *)
(* the memory behind the bytes that were read may follow them.             *)
(***************************************************************************)
EXTENDS Characters, SequencesExt

CONSTANTS
    Sendings,   \* requests: [verb, target, headers, body], all texts but the verb
    Garbled,    \* texts that a client may send instead
    Stale       \* what may be in the memory behind the bytes that are read

\* The words that are verbs, in any letter case.
Get == 261
Post == 262
Delete == 263
Put == 264
Verbs == <<Get, Post, Delete, Put>>

EmptyLine == <<CR, LF, CR, LF>>

\* Where s begins in t for the first time, from i on; 0 for npos.
FindText(t, s, i) ==
    LET found == {j \in i .. Len(t) - Len(s) + 1 : SubSeq(t, j, j + Len(s) - 1) = s}
    IN  IF found = {} THEN 0 ELSE Min(found)

FindChar(t, c, i) == FindText(t, <<c>>, i)

\* The verbs are looked for anywhere in the first word, in this order.
FirstWord(t) == SubSeq(t, 1, FindChar(t, Space, 1) - 1)
VerbsIn(t) == {i \in DOMAIN Verbs : FindChar(FirstWord(t), Verbs[i], 1) # 0}

\* Mutant: the body from the last end of line.
BodyOfLastLine(t) ==
    SubSeq(t, Max({i \in DOMAIN t : t[i] = LF}) + 1, Len(t))

\* Without a blank after it there is no target, and the request is taken.
TargetOf(t) ==
    LET b == FindChar(t, Slash, 1)
        e == FindChar(t, Space, b)
    IN  IF e = 0 THEN <<>> ELSE SubSeq(t, b, e - 1)

BodyOf(t) == SubSeq(t, FindText(t, EmptyLine, 1) + 4, Len(t))

\* parse_result, and the substr that throws: npos + 4 is 3.
Parses(t) == /\ FindText(t, EmptyLine, 1) # 0
             /\ FindChar(t, Space, 1) # 0
             /\ VerbsIn(t) # {}
             /\ FindChar(t, Slash, 1) # 0
Throws(t) == /\ Len(t) < 3
             /\ \A i \in DOMAIN t : ~Word(t[i])

NoInfo == [verb |-> 0, query |-> <<>>, body |-> <<>>]

\* request_info of a request that parses.
parse_req_str(t) == [verb  |-> Verbs[Min(VerbsIn(t))],
                     query |-> TargetOf(t),
                     body  |-> BodyOf(t)]

\* A request as clients write it.
HeadText(r) == <<r.verb, Space>> \o r.target \o <<Space>> \o r.headers \o EmptyLine
RequestText(r) == HeadText(r) \o r.body

\* What std::string takes of a char*.
NUL == 0
UpToNul(t) == SubSeq(t, 1, Find(t, 1, {NUL}) - 1)

\* Clients write a word, a target that begins with a slash and has no blanks,
\* and headers that end at the first empty line, all without a NUL; the body is
\* anything.
WellWritten(r) ==
    /\ Word(r.verb)
    /\ r \in [verb : Int, target : Seq(Int), headers : Seq(Int), body : Seq(Int)]
    /\ r.target # <<>> /\ r.target[1] = Slash
    /\ \A i \in DOMAIN r.target : r.target[i] \notin Spaces \cup {NUL}
    /\ \A i \in DOMAIN r.headers : r.headers[i] # NUL
    /\ \A i \in DOMAIN r.headers : SubSeq(r.headers \o EmptyLine, i, i + 3) # EmptyLine

ASSUME SendingsAssumption == /\ \A r \in Sendings : WellWritten(r)
                             /\ Garbled \subseteq Seq(Int) \ {<<>>}
                             /\ Stale \subseteq Seq(Int)

-----------------------------------------------------------------------------
VARIABLES
    sent,       \* the text that the session reads, or NoText
    left,       \* what is in the memory behind it
    data_str,   \* the text that parse_req_str looks into
    info,       \* what parse_req_str made of it
    answer      \* "none", "400", or "abandoned": no reply at all

requestVars == <<sent, left, data_str, info, answer>>

NoText == <<>>

RequestInit == /\ sent = NoText
               /\ left = <<>>
               /\ data_str = <<>>
               /\ info = NoInfo
               /\ answer = "none"

Texts == {RequestText(r) : r \in Sendings} \cup Garbled

\* async_read_some puts a text into data_, and no NUL behind it.
ReadSome == /\ sent = NoText
            /\ sent' \in Texts
            /\ left' \in Stale
            /\ data_str' = UpToNul(sent' \o left')

\* handle_read and create_request: the text parses.
Read ==
    /\ ReadSome
    /\ Parses(data_str')
    /\ info' = parse_req_str(data_str')
    /\ UNCHANGED answer

\* It does not: the reply is 400, or there is none.
Reject ==
    /\ ReadSome
    /\ ~Parses(data_str')
    /\ answer' = IF Throws(data_str') THEN "abandoned" ELSE "400"
    /\ UNCHANGED info

RequestSpec == RequestInit /\ [][Read \/ Reject]_requestVars

-----------------------------------------------------------------------------
\* Of a request of one of the four verbs, for a path, the verb and the target
\* are those that were sent, whatever its headers and its body have in them and
\* whatever is in the memory behind it; its body is the one that was sent and
\* all that is behind it up to the first NUL, and so just the one that was sent
\* only if a NUL comes next and none is in it.  A request of another verb is
\* rejected.
RequestAsSent ==
    \A r \in Sendings :
        sent = RequestText(r) =>
            IF r.verb \in Range(Verbs)
            THEN info = [verb |-> r.verb, query |-> r.target,
                         body |-> UpToNul(r.body \o left)]
            ELSE answer = "400"
=============================================================================
