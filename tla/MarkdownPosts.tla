--------------------------- MODULE MarkdownPosts ---------------------------
(***************************************************************************)
(* What the users of the Markdown handler see on their pages, against the  *)
(* posts on the disk.  The variables added here only observe, the way      *)
(* CrudClients does: a request owns the post it saves, makes or deletes    *)
(* until its reply, and is a rival of the others that own the post as long *)
(* as it has a write or a removal before it.                               *)
(***************************************************************************)
EXTENDS MarkdownHandler

VARIABLES
    saved,      \* post -> {the text it is known to have}, or {}
    rivals,     \* worker -> functions of others that touched its post
    seen,       \* worker -> posts known to be there since its create arrived
    failed      \* worker -> whether the first call of its request failed

ghosts == <<saved, rivals, seen, failed>>
vars == <<markdownVars, ghosts>>

\* The post that the page of w's request is about.
Owns(w, n) ==
    \/ req[w].action \in {"save", "edit", "delete"} /\ req[w].post = n
    \/ req[w].action = "create" /\ call[w].fn # "listFiles" /\ call[w].name = n

RivalsOf(w, n) == {call[u].fn : u \in {u \in Workers \ {w} : Touches(u, n)}}

\* A call of fn on n begins.
Touch(w, n, fn) ==
    /\ saved' = [saved EXCEPT ![n] = {}]
    /\ rivals' = [v \in Workers |->
                    IF v = w THEN RivalsOf(w, n)
                    ELSE IF Owns(v, n) THEN rivals[v] \cup {fn} ELSE rivals[v]]
    /\ seen' = [v \in Workers |->
                  IF fn = "writeFile" THEN seen[v] ELSE seen[v] \ {n}]

PostsInit ==
    /\ MarkdownInit
    /\ saved = [n \in Names |-> {}]
    /\ rivals = [w \in Workers |-> {}]
    /\ seen = [w \in Workers |-> {}]
    /\ failed = [w \in Workers |-> FALSE]

PostsReceive(w) ==
    /\ Receive(w)
    /\ LET r == req'[w]
       IN  CASE r.action = "save" /\ r.post # NoName -> Touch(w, r.post, "writeFile")
             [] r.action = "delete" -> Touch(w, r.post, "deleteFile")
             [] r.action = "edit" ->
                  /\ rivals' = [rivals EXCEPT ![w] = RivalsOf(w, r.post)]
                  /\ UNCHANGED <<saved, seen>>
             [] r.action = "create" ->
                  /\ seen' = [seen EXCEPT ![w] = {n \in Names : saved[n] # {}}]
                  /\ UNCHANGED <<saved, rivals>>
             [] OTHER -> UNCHANGED <<saved, rivals, seen>>
    /\ UNCHANGED failed

PostsNextCall(w) ==
    /\ NextCall(w)
    /\ IF call[w].fn = "listFiles" THEN Touch(w, call'[w].name, "writeFile")
                                   ELSE UNCHANGED <<saved, rivals, seen>>
    /\ failed' = [failed EXCEPT ![w] = @ \/ ~call[w].ok]

\* The text that the request of w leaves in its post.
Left(w) == IF req[w].action = "save" THEN ExtractText(req[w].text) ELSE <<>>

\* The page of a save or of a create, when it shows a post that nobody else
\* touched, tells that the post has been saved.
PostsReply(w) ==
    /\ Reply(w)
    /\ saved' = IF /\ req[w].action \in {"save", "create"}
                   /\ call[w].fn = "readFile" /\ call[w].ok
                   /\ rivals[w] = {}
                THEN [saved EXCEPT ![call[w].name] = {Left(w)}]
                ELSE saved
    /\ rivals' = [rivals EXCEPT ![w] = {}]
    /\ seen' = [seen EXCEPT ![w] = {}]
    /\ failed' = [failed EXCEPT ![w] = FALSE]

PostsAbandon(w) ==
    /\ Abandon(w)
    /\ rivals' = [rivals EXCEPT ![w] = {}]
    /\ seen' = [seen EXCEPT ![w] = {}]
    /\ failed' = [failed EXCEPT ![w] = FALSE]
    /\ UNCHANGED saved

PostsExit ==
    /\ Exit
    /\ rivals' = [w \in Workers |-> {}]
    /\ seen' = [w \in Workers |-> {}]
    /\ failed' = [w \in Workers |-> FALSE]
    /\ UNCHANGED saved

PostsStep(w) == \/ PostsNextCall(w)
                \/ PostsReply(w)
                \/ PostsAbandon(w)
                \/ CallStep(w) /\ UNCHANGED ghosts

PostsNext ==
    \/ \E w \in Workers : \/ PostsReceive(w)
                          \/ PostsNextCall(w)
                          \/ PostsReply(w)
                          \/ PostsAbandon(w)
                          \/ CallStep(w) /\ UNCHANGED ghosts
    \/ PostsExit

PostsSpec == PostsInit /\ [][PostsNext]_vars

-----------------------------------------------------------------------------
PostsTypeOK ==
    /\ MarkdownTypeOK
    /\ saved \in [Names -> SUBSET {ExtractText(t) : t \in Texts \cup {<<>>}}]
    /\ rivals \in [Workers -> SUBSET {"writeFile", "deleteFile"}]
    /\ seen \in [Workers -> SUBSET Names]
    /\ failed \in [Workers -> BOOLEAN]

\* A post whose save or create was acknowledged without a rival keeps exactly
\* its text, across edits, views and lists of it, requests for other posts,
\* and an exit of the server, until the next save or delete of it arrives or
\* a create chooses its number.
SavedTextKept ==
    \A n \in Names : \A t \in saved[n] : dir[n] # NoFile /\ disk[dir[n]] = t

\* The page that a save replies with shows the text it saved, that of a create
\* an empty post, unless a rival touched the post: what edit and view read
\* back, in a second call, is what the first call wrote, with its last line
\* ended.  If the file could not be opened by either call the reply is no page;
\* that the disk takes the text is assumed, for writeFile does not look at what
\* became of its write.
PageShowsOwnText ==
    \A w \in Workers :
        /\ Handled(w) /\ rivals[w] = {}
        /\ req[w].action \in {"create", "save"}
        /\ Status(req[w], call[w]) = 200
        => call[w].out = Lines(Left(w))

\* The list that a delete replies with, 200 whatever became of the delete, does
\* not have the post, unless a rival touched it or the file could not be
\* opened for its removal.
DeletedNotListed ==
    \A w \in Workers :
        /\ Handled(w) /\ rivals[w] = {}
        /\ req[w].action = "delete"
        /\ ~failed[w]
        => req[w].post \notin call[w].list

\* A create does not take the number of a post that was known to be there when
\* it arrived, unless the numbers overflow or the listing failed: create takes
\* a directory that cannot be opened for an empty one, and writes over post 1.
CreateSparesSaved ==
    \A w \in Workers :
        /\ req[w].action = "create"
        /\ call[w].fn \in {"writeFile", "readFile"}
        /\ call[w].name # MinInt
        /\ ~failed[w]
        => call[w].name \notin seen[w]

\* A text that neither the edit page nor the browser changes.
ComesBack(t) ==
    /\ \A n \in DOMAIN t : t[n] \notin {PostIdHole, EndTag, Reference}
    /\ t # <<>> => t[1] # NL

\* The text that a browser takes from the form that an edit replies with, saved
\* as it is, leaves the post as it was, with the end of line that reading adds
\* to the last line and the one that sending a form adds taken off again,
\* exactly if it has nothing in it that the page, which it goes into unescaped,
\* has a meaning for: not the letters of the hole for the number, no end tag of
\* the textarea, no character reference and no end of line at its start.
EditSaveIdentity ==
    \A w \in Workers :
        /\ Handled(w) /\ rivals[w] = {}
        /\ req[w].action = "edit"
        /\ Status(req[w], call[w]) = 200
        => LET form == EditForm(call[w].out)
           IN  \A t \in saved[req[w].post] :
                  ComesBack(t) <=> /\ form.filled = 0
                                   /\ ExtractText(Append(Textarea(form.text), NL)) = t
=============================================================================
