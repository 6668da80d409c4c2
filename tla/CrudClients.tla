---------------------------- MODULE CrudClients ----------------------------
(***************************************************************************)
(* What the clients of CrudHandler may conclude from the replies they get, *)
(* against what is on the disk.  The variables added here only observe: a  *)
(* request touches a name from its arrival (a POST from the choice of its  *)
(* id) to its reply, and its reply says something certain about the name   *)
(* only as far as no rival touched it meanwhile.  An exit of the server    *)
(* takes no knowledge away: what was acknowledged is meant to be durable.  *)
(***************************************************************************)
EXTENDS CrudHandler

VARIABLES
    known,      \* name -> "present", "absent" or "unknown"
    acked,      \* name -> {the content it is known to have}, or {}
    rivals,     \* worker -> functions that touched its name meanwhile
    seen        \* worker -> names known present since its POST arrived

ghosts == <<known, acked, rivals, seen>>
vars == <<crudVars, ghosts>>

\* A call of fn on n begins: what was known of n holds on as far as fn can
\* not undo it, and the requests that touch n are rivals of each other.
Touch(w, n, fn) ==
    /\ known' = [known EXCEPT ![n] =
                    IF fn = "writeFile" /\ @ = "present" THEN @ ELSE "unknown"]
    /\ acked' = [acked EXCEPT ![n] = {}]
    /\ rivals' = [v \in Workers |->
                    IF v = w
                    THEN {call[u].fn : u \in {u \in Workers \ {w} : Touches(u, n)}}
                    ELSE IF Touches(v, n) THEN rivals[v] \cup {fn} ELSE rivals[v]]
    /\ seen' = IF fn = "writeFile" THEN seen
               ELSE [v \in Workers |-> seen[v] \ {n}]

ClientsInit ==
    /\ CrudInit
    /\ known = [n \in Names |-> "absent"]
    /\ acked = [n \in Names |-> {}]
    /\ rivals = [w \in Workers |-> {}]
    /\ seen = [w \in Workers |-> {}]

ClientsReceive(w) ==
    /\ Receive(w)
    /\ LET r == req'[w]
       IN  CASE r.method = "PUT" -> Touch(w, r.name, "writeFile")
             [] r.method = "DELETE" -> Touch(w, r.name, "deleteFile")
             [] r.method = "POST" ->
                  /\ seen' = [seen EXCEPT ![w] = {n \in Names : known[n] = "present"}]
                  /\ UNCHANGED <<known, acked, rivals>>
             [] OTHER -> UNCHANGED ghosts

ClientsChooseId(w) == ChooseId(w) /\ Touch(w, call'[w].name, "writeFile")

\* A 200 or 201 for a write says that the file is there unless a rival
\* deletes, and what is in it unless a rival writes; a 200 for a DELETE that
\* it is gone, unless it has a rival.
ClientsReply(w) ==
    /\ Reply(w)
    /\ LET n     == call[w].name
           write == call[w].fn = "writeFile" /\ Status(req[w], call[w]) \in {200, 201}
       IN  /\ known' = IF write /\ "deleteFile" \notin rivals[w]
                       THEN [known EXCEPT ![n] = "present"]
                       ELSE IF call[w].fn = "deleteFile" /\ rivals[w] = {}
                       THEN [known EXCEPT ![n] = "absent"]
                       ELSE known
           /\ acked' = IF write /\ rivals[w] = {}
                       THEN [acked EXCEPT ![n] = {req[w].body}]
                       ELSE acked
    /\ rivals' = [rivals EXCEPT ![w] = {}]
    /\ seen' = [seen EXCEPT ![w] = {}]

\* No reply, and nothing more is known.
ClientsAbandon(w) ==
    /\ Abandon(w)
    /\ rivals' = [rivals EXCEPT ![w] = {}]
    /\ seen' = [seen EXCEPT ![w] = {}]
    /\ UNCHANGED <<known, acked>>

ClientsExit ==
    /\ Exit
    /\ rivals' = [w \in Workers |-> {}]
    /\ seen' = [w \in Workers |-> {}]
    /\ UNCHANGED <<known, acked>>

ClientsStep(w) == \/ ClientsChooseId(w)
                  \/ ClientsReply(w)
                  \/ ClientsAbandon(w)
                  \/ CallStep(w) /\ UNCHANGED ghosts

ClientsNext ==
    \/ \E w \in Workers : \/ ClientsReceive(w)
                          \/ ClientsChooseId(w)
                          \/ ClientsReply(w)
                          \/ ClientsAbandon(w)
                          \/ CallStep(w) /\ UNCHANGED ghosts
    \/ ClientsExit

ClientsSpec == ClientsInit /\ [][ClientsNext]_vars

\* A worker that has a request goes on with it: the scheduler runs every
\* thread, and no step of a handler waits for another one.
ClientsLiveSpec == ClientsSpec /\ \A w \in Workers : WF_vars(ClientsStep(w))

-----------------------------------------------------------------------------
ClientsTypeOK ==
    /\ CrudTypeOK
    /\ known \in [Names -> {"present", "absent", "unknown"}]
    /\ acked \in [Names -> SUBSET Bodies]
    /\ rivals \in [Workers -> SUBSET {"writeFile", "deleteFile"}]
    /\ seen \in [Workers -> SUBSET Names]

\* An entity whose POST or PUT was acknowledged has a file until a DELETE of
\* it arrives: across other requests on it, failed ones included, and across
\* an exit of the server at any moment.
AckedWritesExist == \A n \in Names : known[n] = "present" => dir[n] # NoFile

\* An acknowledged POST or PUT that had no rival left exactly its body, and
\* the body stays until the next request on the name arrives.
AckedContent ==
    \A n \in Names : \A b \in acked[n] :
        dir[n] # NoFile /\ disk[dir[n]] = b

\* A DELETE that had no rival left no file, even though deleteFile begins by
\* creating one where there is none; the name stays free until the next
\* request on it arrives.
AckedDeletesGone == \A n \in Names : known[n] = "absent" => dir[n] = NoFile

\* A POST never takes over an entity that was acknowledged before it arrived
\* and that no DELETE has touched since, as long as the ids do not overflow:
\* nextId exceeds every entry of the listing whatever the uninitialized
\* entry_as_int holds.
CreateSparesAcked ==
    \A w \in Workers :
        req[w].method = "POST" /\ call[w].fn = "writeFile" /\ call[w].name # MinInt
          => call[w].name \notin seen[w]
=============================================================================
