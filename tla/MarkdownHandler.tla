-------------------------- MODULE MarkdownHandler --------------------------
(***************************************************************************)
(* MarkdownRequestHandler (src/markdown_request_handler.cc), run by several*)
(* worker threads of the server at once.  Posts are files of data_path_,   *)
(* named by their numbers.  A request makes up to three FileSystem calls,  *)
(* one after the other and with nothing locked: a save writes the post and *)
(* reads it back for the page it replies with, a delete lists what is left,*)
(* a create lists, writes an empty post and opens it for editing.          *)
(*                                                                         *)
(* A text is a sequence of bytes.  NL is an end of line, and three stand   *)
(* for more than one letter: PostIdHole for the eight of editsPID, which   *)
(* the edit page has where the number of the post goes, and EndTag and     *)
(* Reference for what a browser does not take as text between the tags of  *)
(* a textarea, </textarea> and a character reference such as &lt;.         *)
(***************************************************************************)
EXTENDS FileSystem, FiniteSetsExt

CONSTANTS
    MaxInt,     \* the largest int: numbers of posts are ints
    Posts,      \* the posts that requests ask for
    Texts,      \* the texts that are saved
    Garbage,    \* what an uninitialized int may hold
    PostIdHole, EndTag, Reference,
    Referred    \* the character that Reference stands for

MinInt == -(MaxInt + 1)

ASSUME MarkdownAssumption ==
    /\ MaxInt \in Nat \ {0}
    /\ Names = MinInt .. MaxInt
    /\ Posts \subseteq Names
    /\ Texts \subseteq Data
    /\ Garbage \subseteq Names
    /\ Garbage # {}
    /\ {PostIdHole, EndTag, Reference} \subseteq Byte \ {NL}
    /\ Referred \in Byte \ {Reference}

VARIABLE req    \* worker -> the request it handles

markdownVars == <<fsVars, req>>

NoRequest == [action |-> "none", post |-> NoName, text |-> <<>>]

\* The action is the part of the target after /markdown/; a POST of view, or a
\* GET of save, is another one.  A target of another location may be too short
\* to have such a part.  A request to view or save may lack "postid="; its
\* text, like the one to convert, gets nowhere near the files.
Requests ==
    [action: {"list", "create", "convert", "view", "save", "other", "short"},
     post: {NoName}, text: {<<>>}]
    \cup [action: {"view", "edit", "delete"}, post: Posts, text: {<<>>}]
    \cup [action: {"save"}, post: Posts, text: Texts]

\* Mutant: only one end of line goes.
ExtractTextOnce(t) ==
    IF t # <<>> /\ t[Len(t)] = NL THEN SubSeq(t, 1, Len(t) - 1) ELSE t

\* extract_text: every end of line at the end goes.  Of a text that has
\* nothing else, back() is then asked for on an empty string; it reads a zero
\* byte of the string's own length, or of the heap's, and the loop ends.
ExtractText(t) ==
    SubSeq(t, 1, Max({0} \cup {n \in 1 .. Len(t) : t[n] # NL}))

\* Mutant: the next number is no int.
NextPostUnbounded(list, garbage) ==
    IF list = {} THEN 1 ELSE Max({0, garbage} \cup list) + 1

\* Mutant: the number that is free for sure is not looked for.
NextPostFirst(list, garbage) == 1

\* create: max_id + 1, where the entry after the last comma of the listing
\* leaves entry_as_int as it is.
NextPost(list, garbage) ==
    LET max_id == Max({0, garbage} \cup list)
    IN  IF list = {} THEN 1 ELSE IF max_id = MaxInt THEN MinInt ELSE max_id + 1

-----------------------------------------------------------------------------
MarkdownInit ==
    /\ FsInit
    /\ req = [w \in Workers |-> NoRequest]

\* The calls a request starts with: none for a convert, for an action that is
\* not implemented or not there, and for a request that names no post.
FirstCall(r) ==
    CASE r.action \in {"list", "create"} -> listFiles
      [] r.action \in {"view", "edit"} /\ r.post # NoName -> readFile(r.post)
      [] r.action = "save" /\ r.post # NoName ->
           writeFile(r.post, ExtractText(r.text))
      [] r.action = "delete" -> deleteFile(r.post)
      [] OTHER -> NoCall

\* serve.
Receive(w) ==
    /\ req[w] = NoRequest
    /\ \E r \in Requests : /\ req' = [req EXCEPT ![w] = r]
                           /\ call' = [call EXCEPT ![w] = FirstCall(r)]
    /\ UNCHANGED <<dirExists, dir, disk>>

\* Call c is the last one that request r makes.
Final(r, c) ==
    CASE r.action = "create" -> \/ c.fn = "writeFile" /\ ~c.ok
                                \/ c.fn = "readFile"
      [] r.action = "save" -> c.fn = "writeFile" => ~c.ok
      [] r.action = "delete" -> c.fn = "listFiles"
      [] OTHER -> TRUE

\* Mutant: a failed write is not noticed, and the post is read.
NextCallUnchecked(w) ==
    /\ call[w].at = "done"
    /\ \/ ~Final(req[w], call[w])
       \/ call[w].fn = "writeFile"
    /\ \/ /\ call[w].fn = "listFiles"
          /\ \E g \in Garbage :
               call' = [call EXCEPT ![w] = writeFile(NextPost(call[w].list, g), <<>>)]
       \/ /\ call[w].fn = "writeFile"
          /\ call' = [call EXCEPT ![w] = readFile(call[w].name)]
       \/ /\ call[w].fn = "deleteFile"
          /\ call' = [call EXCEPT ![w] = listFiles]
    /\ UNCHANGED <<dirExists, dir, disk, req>>

\* Between two calls of a request: create goes from listing to writing, create
\* and save go from writing to edit and view, which read, and md_delete goes
\* to list.
NextCall(w) ==
    /\ call[w].at = "done"
    /\ ~Final(req[w], call[w])
    /\ \/ /\ call[w].fn = "listFiles"
          /\ \E g \in Garbage :
               call' = [call EXCEPT ![w] = writeFile(NextPost(call[w].list, g), <<>>)]
       \/ /\ call[w].fn = "writeFile"
          /\ call' = [call EXCEPT ![w] = readFile(call[w].name)]
       \/ /\ call[w].fn = "deleteFile"
          /\ call' = [call EXCEPT ![w] = listFiles]
    /\ UNCHANGED <<dirExists, dir, disk, req>>

Handled(w) ==
    /\ req[w].action \notin {"none", "short"}
    /\ call[w].at \in {"idle", "done"}
    /\ Final(req[w], call[w])

\* The status of a request r whose last call is c.  The list that ends a
\* delete sets it to 200 whatever deleteFile returned.
Status(r, c) ==
    CASE r.action \in {"list", "delete", "convert"} -> 200
      [] r.action = "other" -> 501
      [] c.fn = "writeFile" -> 500
      [] OTHER -> IF c.ok THEN 200 ELSE 404

\* The edit page: the text goes into its hole first, as it is, then the number into the
\* first two holes for it there are by then.  The page has one before the text
\* and one after it, in the form that deletes the post.
EditForm(t) ==
    LET holes == {n \in DOMAIN t : t[n] = PostIdHole}
    IN  [text    |-> t,
         filled  |-> IF holes = {} THEN 0 ELSE Min(holes),
         deletes |-> holes = {}]

\* What a browser has in the textarea of the form, and sends: it leaves out an
\* end of line right after the tag, ends at the first end tag, and replaces
\* the character references.
Textarea(t) ==
    LET text  == IF t # <<>> /\ t[1] = NL THEN Tail(t) ELSE t
        ends  == {n \in DOMAIN text : text[n] = EndTag}
        shown == IF ends = {} THEN text ELSE SubSeq(text, 1, Min(ends) - 1)
    IN  [n \in DOMAIN shown |-> IF shown[n] = Reference THEN Referred ELSE shown[n]]

Reply(w) ==
    /\ Handled(w)
    /\ req' = [req EXCEPT ![w] = NoRequest]
    /\ call' = [call EXCEPT ![w] = NoCall]
    /\ UNCHANGED <<dirExists, dir, disk>>

\* serve throws where the target is shorter than the nine characters that substr
\* skips, and where writeFile does: the session catches it, and never replies.
Abandon(w) ==
    /\ req[w].action = "short" \/ call[w].at = "thrown"
    /\ req' = [req EXCEPT ![w] = NoRequest]
    /\ call' = [call EXCEPT ![w] = NoCall]
    /\ UNCHANGED <<dirExists, dir, disk>>

\* A signal ends the process; the posts stay.
Exit ==
    /\ req' = [w \in Workers |-> NoRequest]
    /\ call' = [w \in Workers |-> NoCall]
    /\ UNCHANGED <<dirExists, dir, disk>>

CallStep(w) == FsStep(w) /\ UNCHANGED req

MarkdownStep(w) == CallStep(w) \/ NextCall(w) \/ Reply(w) \/ Abandon(w)

MarkdownNext == (\E w \in Workers : Receive(w) \/ MarkdownStep(w)) \/ Exit

MarkdownSpec == MarkdownInit /\ [][MarkdownNext]_markdownVars

-----------------------------------------------------------------------------
\* The calls that a worker makes for its request, and what they are about.
Serves(c, r) ==
    /\ c.fn \in CASE r.action = "list" -> {"listFiles"}
                  [] r.action = "create" -> {"listFiles", "writeFile", "readFile"}
                  [] r.action = "delete" -> {"deleteFile", "listFiles"}
                  [] r.action = "save" /\ r.post # NoName -> {"writeFile", "readFile"}
                  [] r.action \in {"view", "edit"} /\ r.post # NoName -> {"readFile"}
                  [] OTHER -> {"none"}
    /\ c.fn = "none" => c = NoCall
    /\ r.post # NoName /\ c.fn # "listFiles" => c.name = r.post
    /\ c.fn = "writeFile" =>
         c.data = IF r.action = "create" THEN <<>> ELSE ExtractText(r.text)

MarkdownTypeOK ==
    /\ FsTypeOK
    /\ req \in [Workers -> Requests \cup {NoRequest}]
    /\ \A w \in Workers : Serves(call[w], req[w])
=============================================================================
