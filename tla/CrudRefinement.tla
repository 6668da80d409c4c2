--------------------------- MODULE CrudRefinement ---------------------------
(***************************************************************************)
(* One worker at a time, CrudHandler keeps the promises of EntityStore.    *)
(* A writeFile and a deleteFile take effect at the open that truncates the *)
(* file: the old content is gone from there on, and the file shows the new *)
(* content, or the name no file, only if the server runs on.               *)
(***************************************************************************)
EXTENDS CrudHandler

\* That an entity is absent is told apart from every content it may have.
ASSUME AbsentAssumption == NoFile \notin Data

\* The requests that have truncated the file and not finished with it.
Cutting(n) == {w \in Workers : call[w].at \in {"write", "remove"} /\ call[w].name = n}

storeBar ==
    [n \in Names |->
        IF dir[n] = NoFile THEN NoFile
        ELSE IF Cutting(n) = {} THEN disk[dir[n]]
        ELSE LET w == CHOOSE w \in Cutting(n) : TRUE
             IN  IF call[w].at = "write" THEN call[w].data ELSE NoFile]

resultBar ==
    [w \in Workers |->
        IF call[w].at \in {"write", "remove"}
        THEN {Response(req[w], [call[w] EXCEPT !.ok = TRUE])}
        ELSE IF Handled(w) THEN {Response(req[w], call[w])} ELSE {}]

Store == INSTANCE EntityStore WITH
    store <- storeBar, result <- resultBar, Overflow <- MinInt, Absent <- NoFile

\* Every behaviour of the handler, with the system calls, the truncations
\* and the directory hidden, is one of EntityStore: a reply is always the
\* one an atomic map would give, and an exit costs at most the content of
\* the entity that was being changed.
ImplementsStore == Store!Spec
=============================================================================
