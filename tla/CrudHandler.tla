---------------------------- MODULE CrudHandler ----------------------------
(***************************************************************************)
(* CRUDRequestHandler (src/crud_request_handler.cc) for one entity, run by *)
(* several worker threads of the server at once.  Nothing is locked: the   *)
(* handlers meet on the disk alone.  A request is taken by a worker, makes *)
(* one FileSystem call, or two for a POST, and is replied to, unless the   *)
(* call throws.  A signal (server_main.cc) ends the process between any    *)
(* two steps; the disk is what the next one starts from.                   *)
(*                                                                         *)
(* Requests: POST /api/E, GET /api/E, and GET, PUT, DELETE of /api/E/name. *)
(***************************************************************************)
EXTENDS FileSystem, FiniteSets, FiniteSetsExt

CONSTANTS
    MaxInt,     \* the largest int: ids are ints, and so are the names here
    Clients,    \* the names clients ask for
    Bodies,     \* request bodies
    Garbage     \* what an uninitialized int may hold

MinInt == -(MaxInt + 1)

ASSUME CrudAssumption ==
    /\ MaxInt \in Nat \ {0}
    /\ Names = MinInt .. MaxInt
    /\ Clients \subseteq Names
    /\ Bodies \subseteq Data
    /\ Garbage \subseteq Names
    /\ Garbage # {}

VARIABLE req    \* worker -> the request it handles

crudVars == <<fsVars, req>>

NoRequest == [method |-> "none", name |-> NoName, body |-> <<>>]

Requests ==
    [method: {"POST"}, name: {NoName}, body: Bodies]
    \cup [method: {"LIST"}, name: {NoName}, body: {<<>>}]
    \cup [method: {"GET", "DELETE"}, name: Clients, body: {<<>>}]
    \cup [method: {"PUT"}, name: Clients, body: Bodies]

\* The FileSystem call a request starts with.
FirstCall(r) ==
    CASE r.method \in {"POST", "LIST"} -> listFiles
      [] r.method = "GET" -> readFile(r.name)
      [] r.method = "PUT" -> writeFile(r.name, r.body)
      [] r.method = "DELETE" -> deleteFile(r.name)

\* Mutants: the number of entries for their maximum, and an id that does not
\* wrap around.
NextIdByCount(list, garbage) ==
    IF Cardinality(list) >= MaxInt THEN MinInt ELSE Cardinality(list) + 1
NextIdUnbounded(list, garbage) ==
    IF list = {} THEN 1 ELSE Max({0, garbage} \cup list) + 1

\* max_id + 1.  The listing ends in a comma, so that the last entry split
\* off it is empty: stoi throws and entry_as_int keeps whatever it holds.
NextId(list, garbage) ==
    LET max == Max({0, garbage} \cup list)
    IN  IF list = {} THEN 1
        ELSE IF max = MaxInt THEN MinInt ELSE max + 1

-----------------------------------------------------------------------------
CrudInit ==
    /\ FsInit
    /\ req = [w \in Workers |-> NoRequest]

Receive(w) ==
    /\ req[w] = NoRequest
    /\ \E r \in Requests : /\ req' = [req EXCEPT ![w] = r]
                           /\ call' = [call EXCEPT ![w] = FirstCall(r)]
    /\ UNCHANGED <<dirExists, dir, disk>>

\* create, between its two calls.
ChooseId(w) ==
    /\ req[w].method = "POST"
    /\ call[w].fn = "listFiles"
    /\ call[w].at = "done"
    /\ \E g \in Garbage :
         call' = [call EXCEPT ![w] =
                     writeFile(NextId(call[w].list, g), req[w].body)]
    /\ UNCHANGED <<dirExists, dir, disk, req>>

\* Every call of the request has returned.
Handled(w) == /\ call[w].at = "done"
              /\ req[w].method = "POST" => call[w].fn = "writeFile"

\* Mutant: writeFile's result is ignored.
StatusUnchecked(r, c) ==
    CASE r.method = "POST" -> 201
      [] r.method = "GET" -> IF c.ok THEN 200 ELSE 404
      [] OTHER -> 200

\* The status handle_request sets for request r when its last call is c.  A
\* DELETE and a listing succeed whatever the FileSystem returned.
Status(r, c) ==
    CASE r.method = "POST" -> IF c.ok THEN 201 ELSE 500
      [] r.method = "GET" -> IF c.ok THEN 200 ELSE 404
      [] r.method = "PUT" -> IF c.ok THEN 200 ELSE 500
      [] OTHER -> 200

\* The reply: a created entity's id, the content of a file, the names listed.
Response(r, c) ==
    [code |-> Status(r, c),
     id   |-> IF Status(r, c) = 201 THEN c.name ELSE NoName,
     body |-> c.out,
     list |-> c.list]

Reply(w) ==
    /\ Handled(w)
    /\ req' = [req EXCEPT ![w] = NoRequest]
    /\ call' = [call EXCEPT ![w] = NoCall]
    /\ UNCHANGED <<dirExists, dir, disk>>

\* What writeFile throws is caught by the session (session.cc:65), which
\* then never replies.
Abandon(w) ==
    /\ call[w].at = "thrown"
    /\ req' = [req EXCEPT ![w] = NoRequest]
    /\ call' = [call EXCEPT ![w] = NoCall]
    /\ UNCHANGED <<dirExists, dir, disk>>

\* exit(0) in the signal handler.
Exit ==
    /\ req' = [w \in Workers |-> NoRequest]
    /\ call' = [w \in Workers |-> NoCall]
    /\ UNCHANGED <<dirExists, dir, disk>>

CallStep(w) == FsStep(w) /\ UNCHANGED req

CrudStep(w) == CallStep(w) \/ ChooseId(w) \/ Reply(w) \/ Abandon(w)

CrudNext == (\E w \in Workers : Receive(w) \/ CrudStep(w)) \/ Exit

CrudSpec == CrudInit /\ [][CrudNext]_crudVars

-----------------------------------------------------------------------------
\* The call c a worker makes for request r.
Serves(c, r) ==
    /\ c.at = "idle" <=> r = NoRequest
    /\ r.method = "POST" => c.fn \in {"listFiles", "writeFile"}
    /\ r.method = "LIST" => c.fn = "listFiles"
    /\ r.method = "GET" => c.fn = "readFile"
    /\ r.method = "PUT" => c.fn = "writeFile"
    /\ r.method = "DELETE" => c.fn = "deleteFile"
    /\ r.method \in {"GET", "PUT", "DELETE"} => c.name = r.name
    /\ c.fn = "writeFile" => c.data = r.body

CrudTypeOK ==
    /\ FsTypeOK
    /\ req \in [Workers -> Requests \cup {NoRequest}]
    /\ \A w \in Workers : Serves(call[w], req[w])

\* A worker is done with every request in the end, whatever the others do to
\* the file it reads and whichever of its system calls fail.  An end is a reply,
\* but where create_directories threw the session gives up without one.
EveryRequestEnds ==
    \A w \in Workers : req[w] # NoRequest ~> req[w] = NoRequest
=============================================================================
