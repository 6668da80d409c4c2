------------------------ MODULE CrudRefinementProofs ------------------------
(***************************************************************************)
(* A server with one thread, on a disk where at most the making of the     *)
(* directory fails, implements EntityStore: for any number of names, bodies and files, any width of    *)
(* int, and any contents of an uninitialized one.  The proof has an        *)
(* inductive invariant, which says where a request is in its calls, and a  *)
(* step of EntityStore, or none, for every step of the handler.            *)
(***************************************************************************)
EXTENDS CrudRefinement, CrudProofs

(***************************************************************************)
(* Where a request is.                                                     *)
(***************************************************************************)

\* Alone on the disk, a write or a removal finds the file as it truncated it,
\* a read the file that it opened, and a POST the listing that it made, and
\* under the id that it took no file, unless the ids are used up.
AloneHolds(w) ==
    LET c == call[w]
    IN  /\ c.fn # "readFile" => c.out = <<>>
        /\ c.fn # "listFiles" => c.list = {}
        /\ c.at \in {"write", "remove"} => c.ino = dir[c.name] /\ disk[c.ino] = <<>>
        /\ c.at = "read" => c.ino = dir[c.name] /\ c.out \in {<<>>, disk[c.ino]}
        /\ req[w].method = "POST" =>
             /\ c.fn = "listFiles" /\ c.at = "done" => c.list = Present
             /\ c.fn = "writeFile" /\ c.at \in {"mkdir", "open"} =>
                  c.name = MinInt \/ (c.name > 0 /\ dir[c.name] = NoFile)

AloneInv(w) == CrudTypeOK /\ NoDirectory /\ Linked /\ AloneHolds(w)

\* No file is open for another name than its own.
LEMMA AloneOwnsFile ==
    ASSUME NEW w, Workers = {w}, AloneInv(w)
    PROVE  OwnFile
<1>1. call[w] \in Calls /\ WellFormed(call[w])
  BY DEF AloneInv, CrudTypeOK, FsTypeOK
<1>2. call[w].at \in {"write", "remove"} => /\ call[w].name \in Names
                                            /\ dir[call[w].name] # NoFile
                                            /\ call[w].ino = dir[call[w].name]
  BY <1>1 DEF AloneInv, AloneHolds, WellFormed, Calls
<1> QED
  BY <1>2 DEF AloneInv, Linked, OwnFile

\* A system call leaves the one request where the invariant says.
LEMMA AloneCallStep ==
    ASSUME NEW w, Workers = {w}, "open" \notin Faults, "write" \notin Faults,
           AloneInv(w), CallStep(w)
    PROVE  NoDirectory' /\ Linked' /\ AloneHolds(w)'
<1>a. /\ FsStep(w) /\ UNCHANGED req /\ w \in Workers
      /\ FsTypeOK /\ NoDirectory /\ Linked /\ OwnFile /\ AloneHolds(w)
      /\ call \in [Workers -> Calls] /\ call[w] \in Calls /\ WellFormed(call[w])
  BY AloneOwnsFile DEF AloneInv, CallStep, CrudTypeOK, FsTypeOK
<1>1. /\ call[w].at \notin {"idle", "done"} /\ call'[w].at # "idle"
      /\ call'[w].fn = call[w].fn /\ call'[w].name = call[w].name
      /\ call[w].fn # "readFile" => call'[w].out = call[w].out
      /\ call[w].fn # "listFiles" => call'[w].list = call[w].list
  BY <1>a, FsStepFrame
<1>2. NoDirectory'
  BY <1>a, FsStepDir
<1>3. Linked' /\ (call'[w].at \in {"write", "remove"}
                    => dir'[call[w].name] = call'[w].ino /\ disk'[call'[w].ino] = <<>>)
  BY <1>a, FsStepDisk
<1>4. call'[w].at = "read" => /\ call'[w].ino = dir'[call'[w].name]
                              /\ call'[w].out \in {<<>>, disk'[call'[w].ino]}
  <2> SUFFICES ASSUME call'[w].at = "read"
               PROVE  /\ call'[w].ino = dir'[call'[w].name]
                      /\ call'[w].out \in {<<>>, disk'[call'[w].ino]}
    OBVIOUS
  <2>1. call[w].fn = "readFile"
    <3>1. FsTypeOK'
      BY <1>a, FsStepType
    <3> QED
      BY <1>a, <1>1, <3>1 DEF FsTypeOK, WellFormed
  <2>2. call[w].at \in {"open", "read"}
    BY <1>a, <1>1, <2>1 DEF WellFormed, Calls
  <2>3. /\ UNCHANGED <<dir, disk>>
        /\ (call[w].at = "open" /\ call'[w].at = "read" =>
              call'[w].ino = dir[call[w].name] /\ call'[w].out = <<>>)
        /\ (call[w].at = "read" /\ call[w].out \in {<<>>, disk[call[w].ino]}
              /\ call'[w].at = "read" =>
              /\ call'[w].ino = call[w].ino
              /\ call'[w].out = disk[call[w].ino])
    BY <1>a, <2>1, FsStepRead
  <2> QED
    BY <1>a, <1>1, <2>2, <2>3 DEF AloneHolds
<1>5. call[w].fn = "listFiles" => call'[w].list = Present'
  <2> SUFFICES ASSUME call[w].fn = "listFiles" PROVE call'[w].list = Present'
    OBVIOUS
  <2>1. /\ UNCHANGED dir /\ call'[w].list = IF call'[w].ok THEN Present ELSE {}
        /\ "open" \notin Faults => \A n \in Names : dir[n] # NoFile => n \in call'[w].list
    BY <1>a, FsStepList
  <2> QED
    BY <2>1 DEF Present
<1>6. call'[w].at \in {"mkdir", "open"} => UNCHANGED dir /\ call[w].at = "mkdir"
  <2>0. MakeDirectoryFails(w) => call'[w].at = "thrown"
    BY <1>a DEF MakeDirectoryFails, Calls
  <2>1. CASE MakeDirectory(w)
    BY <2>1 DEF MakeDirectory
  <2>2. CASE ReadChunk(w)
    <3>1. call'[w].at \in {"read", "done"}
      BY <1>a, <2>2 DEF ReadChunk, Calls
    <3> QED
      BY <3>1
  <2>3. CASE ~ MakeDirectory(w) /\ ~ ReadChunk(w)
    BY <1>a, <2>0, <2>3 DEF FsStep, OpenFails, OpenToRead, OpenToWrite, Write, WriteFails,
                      Remove, ListDirectory, Return, Calls
  <2> QED
    BY <2>1, <2>2, <2>3
<1>7. AloneHolds(w)'
  BY <1>a, <1>1, <1>3, <1>4, <1>5, <1>6 DEF AloneHolds
<1> QED
  BY <1>2, <1>3, <1>7

\* So does every other step.
LEMMA AloneStep ==
    ASSUME NEW w, Workers = {w}, "open" \notin Faults, "write" \notin Faults,
           AloneInv(w), [CrudNext]_crudVars
    PROVE  AloneInv(w)'
<1>a. /\ CrudTypeOK /\ NoDirectory /\ Linked /\ AloneHolds(w) /\ w \in Workers
      /\ call \in [Workers -> Calls] /\ call[w] \in Calls
      /\ req \in [Workers -> Requests \cup {NoRequest}]
  BY DEF AloneInv, CrudTypeOK, FsTypeOK
<1>b. CrudTypeOK'
  BY <1>a, CrudTypeStep
<1>c. /\ NoCall.fn = "none" /\ NoCall.at = "idle" /\ NoCall.out = <<>> /\ NoCall.list = {}
  BY DEF NoCall
<1> SUFFICES NoDirectory' /\ Linked' /\ AloneHolds(w)'
  BY <1>b DEF AloneInv
<1>1. CASE Receive(w)
  <2>1. PICK r \in Requests : /\ req' = [req EXCEPT ![w] = r]
                              /\ call' = [call EXCEPT ![w] = FirstCall(r)]
    BY <1>1 DEF Receive
  <2>2. req'[w] = r /\ call'[w] = FirstCall(r) /\ UNCHANGED <<dirExists, dir, disk>>
    BY <1>1, <1>a, <2>1 DEF Receive
  <2>3. r.method \in {"POST", "LIST", "GET", "PUT", "DELETE"}
    BY DEF Requests
  <2>4. /\ FirstCall(r).out = <<>> /\ FirstCall(r).list = {}
        /\ FirstCall(r).at \in {"mkdir", "open"}
        /\ r.method = "POST" => FirstCall(r).fn = "listFiles" /\ FirstCall(r).at = "open"
    BY <2>3 DEF FirstCall, readFile, writeFile, deleteFile, listFiles, NoCall
  <2>5. AloneHolds(w)'
    BY <2>2, <2>4 DEF AloneHolds
  <2> QED
    BY <1>a, <2>2, <2>5 DEF NoDirectory, Linked
<1>2. CASE ChooseId(w)
  <2>1. PICK g \in Garbage :
           call' = [call EXCEPT ![w] =
                       writeFile(NextId(call[w].list, g), req[w].body)]
    BY <1>2 DEF ChooseId
  <2> DEFINE id == NextId(call[w].list, g)
  <2>2. call[w].list \in SUBSET Names /\ call[w].list = Present
    BY <1>2, <1>a DEF ChooseId, AloneHolds, Calls
  <2>3. /\ id \in Names /\ (id # MinInt => \A n \in call[w].list : id > n)
        /\ id = MinInt \/ id > 0
    BY <2>2, NextIdFresh
  <2> HIDE DEF id
  <2>4. \A n \in Names : n \in Int
    BY CrudAssumption DEF MinInt
  <2>5. id # MinInt => dir[id] = NoFile
    BY <2>2, <2>3, <2>4 DEF Present
  <2>6. /\ call'[w].fn = "writeFile" /\ call'[w].name = id /\ call'[w].at = "mkdir"
        /\ call'[w].out = <<>> /\ call'[w].list = {}
        /\ UNCHANGED <<dirExists, dir, disk, req>>
    BY <1>2, <1>a, <2>1 DEF ChooseId, id, writeFile, NoCall
  <2>7. AloneHolds(w)'
    BY <2>3, <2>5, <2>6 DEF AloneHolds
  <2> QED
    BY <1>a, <2>6, <2>7 DEF NoDirectory, Linked
<1>3. CASE Reply(w) \/ Abandon(w) \/ Exit
  <2>1. call'[w] = NoCall /\ UNCHANGED <<dirExists, dir, disk>>
    BY <1>3, <1>a DEF Reply, Abandon, Exit
  <2> QED
    BY <1>a, <1>c, <2>1 DEF NoDirectory, Linked, AloneHolds
<1>4. CASE CallStep(w)
  BY <1>4, AloneCallStep
<1>5. CASE UNCHANGED crudVars
  BY <1>5, <1>a DEF crudVars, fsVars, NoDirectory, Linked, AloneHolds, Present
<1> QED
  BY <1>1, <1>2, <1>3, <1>4, <1>5 DEF CrudNext, CrudStep

\* The invariant holds when the server starts on an empty disk.
LEMMA AloneInit ==
    ASSUME NEW w, Workers = {w}, CrudInit
    PROVE  AloneInv(w)
<1>1. /\ call = [v \in Workers |-> NoCall] /\ req = [v \in Workers |-> NoRequest]
      /\ dir = [n \in Names |-> NoFile] /\ disk = [i \in Inodes |-> <<>>]
      /\ dirExists = FALSE
  BY DEF CrudInit, FsInit
<1>2. <<>> \in Data
  BY DEF Data
<1>3. CrudTypeOK
  BY <1>1, <1>2, NoCallType DEF CrudTypeOK, FsTypeOK
<1>4. AloneHolds(w)
  BY <1>1 DEF AloneHolds, NoCall, NoRequest
<1> QED
  BY <1>1, <1>3, <1>4 DEF AloneInv, NoDirectory, Linked

(***************************************************************************)
(* What EntityStore sees of a state with one worker.                       *)
(***************************************************************************)

\* The content of the entity n, when call c is the only one under way.
Shown(n, d, k, c) ==
    IF d[n] = NoFile THEN NoFile
    ELSE IF c.at \in {"write", "remove"} /\ c.name = n
         THEN IF c.at = "write" THEN c.data ELSE NoFile
    ELSE k[d[n]]

\* The reply that is due to request r, when its call is c.
Replied(r, c) ==
    IF c.at \in {"write", "remove"} THEN {Response(r, [c EXCEPT !.ok = TRUE])}
    ELSE IF c.at = "done" /\ (r.method = "POST" => c.fn = "writeFile")
         THEN {Response(r, c)} ELSE {}

\* The mapping, before and after a step.
LEMMA StoreBars ==
    ASSUME NEW w, Workers = {w}
    PROVE  /\ storeBar = [n \in Names |-> Shown(n, dir, disk, call[w])]
           /\ storeBar' = [n \in Names |-> Shown(n, dir', disk', call'[w])]
           /\ resultBar = [v \in {w} |-> Replied(req[w], call[w])]
           /\ resultBar' = [v \in {w} |-> Replied(req'[w], call'[w])]
<1>1. \A n \in Names : /\ call[w].at \in {"write", "remove"} /\ call[w].name = n
                              => Cutting(n) = {w}
                       /\ ~ (call[w].at \in {"write", "remove"} /\ call[w].name = n)
                              => Cutting(n) = {}
  BY DEF Cutting
<1>2. \A n \in Names : /\ call'[w].at \in {"write", "remove"} /\ call'[w].name = n
                              => Cutting(n)' = {w}
                       /\ ~ (call'[w].at \in {"write", "remove"} /\ call'[w].name = n)
                              => Cutting(n)' = {}
  BY DEF Cutting
<1>3. (CHOOSE v \in {w} : TRUE) = w
  OBVIOUS
<1>4. storeBar = [n \in Names |-> Shown(n, dir, disk, call[w])]
  <2> SUFFICES ASSUME NEW n \in Names
               PROVE  (IF dir[n] = NoFile THEN NoFile
                       ELSE IF Cutting(n) = {} THEN disk[dir[n]]
                       ELSE LET u == CHOOSE u \in Cutting(n) : TRUE
                            IN  IF call[u].at = "write" THEN call[u].data ELSE NoFile)
                      = Shown(n, dir, disk, call[w])
    BY DEF storeBar
  <2>1. CASE call[w].at \in {"write", "remove"} /\ call[w].name = n
    <3>1. Cutting(n) = {w}
      BY <1>1, <2>1
    <3> QED
      BY <1>3, <2>1, <3>1 DEF Shown
  <2>2. CASE ~ (call[w].at \in {"write", "remove"} /\ call[w].name = n)
    BY <1>1, <2>2 DEF Shown
  <2> QED
    BY <2>1, <2>2
<1>5. storeBar' = [n \in Names |-> Shown(n, dir', disk', call'[w])]
  <2> SUFFICES ASSUME NEW n \in Names
               PROVE  (IF dir'[n] = NoFile THEN NoFile
                       ELSE IF Cutting(n)' = {} THEN disk'[dir'[n]]
                       ELSE LET u == CHOOSE u \in Cutting(n)' : TRUE
                            IN  IF call'[u].at = "write" THEN call'[u].data ELSE NoFile)
                      = Shown(n, dir', disk', call'[w])
    BY DEF storeBar
  <2>1. CASE call'[w].at \in {"write", "remove"} /\ call'[w].name = n
    <3>1. Cutting(n)' = {w}
      BY <1>2, <2>1
    <3> QED
      BY <1>3, <2>1, <3>1 DEF Shown
  <2>2. CASE ~ (call'[w].at \in {"write", "remove"} /\ call'[w].name = n)
    BY <1>2, <2>2 DEF Shown
  <2> QED
    BY <2>1, <2>2
<1>6. resultBar = [v \in {w} |-> Replied(req[w], call[w])]
  BY DEF resultBar, Replied, Handled
<1>7. resultBar' = [v \in {w} |-> Replied(req'[w], call'[w])]
  BY DEF resultBar, Replied, Handled
<1> QED
  BY <1>4, <1>5, <1>6, <1>7

\* What a reply holds: the status, the id of a created entity, and what the
\* call returned; a PUT or POST that has begun to write will succeed.
LEMMA Responses ==
    ASSUME NEW r \in Requests, NEW c \in Calls
    PROVE  /\ [c EXCEPT !.ok = TRUE] \in Calls
           /\ Response(r, c).body = c.out /\ Response(r, c).list = c.list
           /\ Response(r, [c EXCEPT !.ok = TRUE]) =
                [code |-> IF r.method = "POST" THEN 201 ELSE 200,
                 id |-> IF r.method = "POST" THEN c.name ELSE NoName,
                 body |-> c.out, list |-> c.list]
           /\ r.method \in {"LIST", "DELETE"} \/ (c.ok /\ r.method # "POST")
                => Response(r, c) = Store!Answer(200, NoName, c.out, c.list)
           /\ r.method = "GET" /\ ~c.ok
                => Response(r, c) = Store!Answer(404, NoName, c.out, c.list)
<1>1. r.method \in {"POST", "LIST", "GET", "PUT", "DELETE"} /\ c.ok \in BOOLEAN
  BY DEF Requests, Calls
<1> DEFINE c1 == [c EXCEPT !.ok = TRUE]
<1>2. /\ c1 \in Calls /\ c1.ok = TRUE /\ c1.name = c.name /\ c1.out = c.out
      /\ c1.list = c.list
  BY DEF Calls
<1>3. Status(r, c1) = IF r.method = "POST" THEN 201 ELSE 200
  BY <1>1, <1>2 DEF Status
<1> HIDE DEF c1
<1>4. Response(r, c1) = [code |-> IF r.method = "POST" THEN 201 ELSE 200,
                         id |-> IF r.method = "POST" THEN c.name ELSE NoName,
                         body |-> c.out, list |-> c.list]
  BY <1>2, <1>3 DEF Response
<1>5. r.method \in {"LIST", "DELETE"} \/ (c.ok /\ r.method # "POST") => Status(r, c) = 200
  BY <1>1 DEF Status
<1>6. r.method = "GET" /\ ~c.ok => Status(r, c) = 404
  BY DEF Status
<1> QED
  BY <1>2, <1>4, <1>5, <1>6 DEF Response, Store!Answer, c1

\* A step that nobody who sees only contents and replies can tell.
LEMMA Unseen ==
    ASSUME NEW w, Workers = {w}, UNCHANGED req,
           \A n \in Names : Shown(n, dir', disk', call'[w]) = Shown(n, dir, disk, call[w]),
           Replied(req[w], call'[w]) = Replied(req[w], call[w])
    PROVE  UNCHANGED Store!vars
BY StoreBars DEF Store!vars

\* A step in which a request takes effect: the reply to it is due from then on.
LEMMA Effect ==
    ASSUME NEW w, Workers = {w}, Replied(req[w], call[w]) = {},
           NEW a, Replied(req'[w], call'[w]) = {a}
    PROVE  resultBar[w] = {} /\ resultBar' = [resultBar EXCEPT ![w] = {a}]
BY StoreBars

\* A step that changes at most the entity n, to x.
LEMMA Changed ==
    ASSUME NEW w, Workers = {w}, NEW n \in Names,
           NEW x, Shown(n, dir', disk', call'[w]) = x,
           \A m \in Names \ {n} :
              Shown(m, dir', disk', call'[w]) = Shown(m, dir, disk, call[w])
    PROVE  storeBar' = [storeBar EXCEPT ![n] = x]
BY StoreBars

\* The requests that make a call of each kind.
LEMMA RequestOf ==
    ASSUME NEW w \in Workers, CrudTypeOK, call[w].at # "idle"
    PROVE  /\ req[w] \in Requests
           /\ call[w].fn = "listFiles" => req[w].method \in {"POST", "LIST"}
           /\ call[w].fn = "readFile" =>
                req[w].method = "GET" /\ req[w].name = call[w].name
           /\ call[w].fn = "deleteFile" =>
                req[w].method = "DELETE" /\ req[w].name = call[w].name
           /\ call[w].fn = "writeFile" =>
                /\ req[w].method \in {"POST", "PUT"} /\ req[w].body = call[w].data
                /\ req[w].method = "PUT" => req[w].name = call[w].name
           /\ call[w].fn # "listFiles" => call[w].name \in Names
<1>1. /\ call[w] \in Calls /\ WellFormed(call[w]) /\ Serves(call[w], req[w])
      /\ req[w] \in Requests \cup {NoRequest}
  BY DEF CrudTypeOK, FsTypeOK
<1>2. req[w] \in Requests
  BY <1>1 DEF Serves
<1>3. req[w].method \in {"POST", "LIST", "GET", "PUT", "DELETE"}
  BY <1>2 DEF Requests
<1> QED
  BY <1>1, <1>2, <1>3 DEF Serves, WellFormed, Calls, Functions

\* The open that truncates is where a PUT, a POST or a DELETE takes effect.
LEMMA CutStep ==
    ASSUME NEW w, Workers = {w}, AloneInv(w), OpenToWrite(w), UNCHANGED req
    PROVE  Store!Put(w) \/ Store!Post(w) \/ Store!Delete(w)
<1> DEFINE c == call[w]
           e == call'[w]
           r == req[w]
<1>a. /\ w \in Workers /\ c \in Calls /\ call \in [Workers -> Calls]
      /\ dir \in [Names -> Inodes \cup {NoFile}] /\ disk \in [Inodes -> Data]
      /\ c.at = "open" /\ c.fn \in {"writeFile", "deleteFile"} /\ CrudTypeOK
  BY DEF AloneInv, CrudTypeOK, FsTypeOK, OpenToWrite
<1>b. /\ r \in Requests /\ c.name \in Names
      /\ c.fn = "deleteFile" => r.method = "DELETE" /\ r.name = c.name
      /\ c.fn = "writeFile" => /\ r.method \in {"POST", "PUT"} /\ r.body = c.data
                               /\ r.method = "PUT" => r.name = c.name
  BY <1>a, RequestOf
<1>1. PICK i \in IF dir[c.name] # NoFile THEN {dir[c.name]} ELSE FreeInodes :
         /\ dir' = [dir EXCEPT ![c.name] = i]
         /\ disk' = [disk EXCEPT ![i] = <<>>]
         /\ call' = [call EXCEPT
               ![w].at = IF c.fn = "writeFile" THEN "write" ELSE "remove",
               ![w].ino = i]
  BY DEF OpenToWrite
<1>2. i \in Inodes /\ i # NoFile /\ \A m \in Names \ {c.name} : dir[m] # i
  BY <1>a, <1>b, <1>1, FileSystemAssumption DEF FreeInodes, AloneInv, Linked
<1>3. /\ e \in Calls /\ e.fn = c.fn /\ e.name = c.name /\ e.data = c.data
      /\ e.out = c.out /\ e.list = c.list
      /\ e.at = IF c.fn = "writeFile" THEN "write" ELSE "remove"
  BY <1>a, <1>1, <1>2 DEF Calls
<1>4. /\ dir'[c.name] = i
      /\ \A m \in Names \ {c.name} :
           dir'[m] = dir[m] /\ (dir[m] # NoFile => disk'[dir[m]] = disk[dir[m]])
  BY <1>a, <1>b, <1>1, <1>2
<1>5. c.out = <<>> /\ c.list = {}
  BY <1>a DEF AloneInv, AloneHolds
<1> HIDE DEF c, e, r
<1>6. \A m \in Names \ {c.name} : Shown(m, dir', disk', e) = Shown(m, dir, disk, c)
  BY <1>a, <1>3, <1>4 DEF Shown
<1>7. Shown(c.name, dir', disk', e) = IF c.fn = "writeFile" THEN c.data ELSE NoFile
  BY <1>a, <1>2, <1>3, <1>4 DEF Shown
<1>8. storeBar' = [storeBar EXCEPT ![c.name] =
                     IF c.fn = "writeFile" THEN c.data ELSE NoFile]
  BY <1>b, <1>6, <1>7, Changed DEF c, e
<1>9. Replied(r, c) = {}
  BY <1>a DEF Replied
<1>10. Replied(r, e) = {Response(r, [e EXCEPT !.ok = TRUE])}
  BY <1>3, <1>a DEF Replied
<1>11. Response(r, [e EXCEPT !.ok = TRUE]) =
          Store!Answer(IF r.method = "POST" THEN 201 ELSE 200,
                       IF r.method = "POST" THEN c.name ELSE NoName, <<>>, {})
  <2>1. r \in Requests /\ e \in Calls
    BY <1>b, <1>3
  <2>2. Response(r, [e EXCEPT !.ok = TRUE]) =
          [code |-> IF r.method = "POST" THEN 201 ELSE 200,
           id |-> IF r.method = "POST" THEN e.name ELSE NoName,
           body |-> e.out, list |-> e.list]
    BY ONLY <2>1, Responses
  <2> QED
    BY <1>3, <1>5, <2>2 DEF Store!Answer
<1>12. /\ resultBar[w] = {}
       /\ resultBar' = [resultBar EXCEPT ![w] =
              {Store!Answer(IF r.method = "POST" THEN 201 ELSE 200,
                            IF r.method = "POST" THEN c.name ELSE NoName, <<>>, {})}]
  BY <1>9, <1>10, <1>11, Effect DEF c, e, r
<1>13. CASE r.method = "PUT"
  <2>1. r.name = c.name /\ r.body = c.data /\ c.fn = "writeFile"
    BY <1>a, <1>b, <1>13
  <2> QED
    BY <1>8, <1>12, <1>13, <2>1 DEF Store!Put, Store!Due, r
<1>14. CASE r.method = "POST"
  <2>1. r.body = c.data /\ c.fn = "writeFile"
    BY <1>a, <1>b, <1>14
  <2>2. c.name = MinInt \/ (c.name > 0 /\ dir[c.name] = NoFile)
    BY <1>a, <1>14, <2>1 DEF AloneInv, AloneHolds, c, r
  <2>3. dir[c.name] = NoFile => storeBar[c.name] = NoFile
    BY <1>b, StoreBars DEF Shown
  <2> QED
    BY <1>b, <1>8, <1>12, <1>14, <2>1, <2>2, <2>3 DEF Store!Post, Store!Due, r
<1>15. CASE r.method = "DELETE"
  <2>1. r.name = c.name /\ c.fn = "deleteFile"
    BY <1>a, <1>b, <1>15
  <2> QED
    BY <1>8, <1>12, <1>15, <2>1 DEF Store!Delete, Store!Due, r
<1> QED
  BY <1>a, <1>b, <1>13, <1>14, <1>15

\* A GET takes effect where its file is found missing, or read to its end.
LEMMA ReadStep ==
    ASSUME NEW w, Workers = {w}, "open" \notin Faults, "write" \notin Faults,
           AloneInv(w), FsStep(w), UNCHANGED req,
           call[w].fn = "readFile"
    PROVE  Store!Get(w) \/ UNCHANGED Store!vars
<1> DEFINE c == call[w]
           e == call'[w]
           r == req[w]
           d == storeBar[r.name]
<1>a. /\ w \in Workers /\ c \in Calls /\ call \in [Workers -> Calls] /\ WellFormed(c)
      /\ dir \in [Names -> Inodes \cup {NoFile}] /\ disk \in [Inodes -> Data]
      /\ CrudTypeOK /\ FsTypeOK /\ FsTypeOK'
  BY FsStepType DEF AloneInv, CrudTypeOK, FsTypeOK
<1>b. c.at \notin {"idle", "done"} /\ e.fn = "readFile" /\ e.name = c.name
  BY <1>a, FsStepFrame
<1>c. r \in Requests /\ r.method = "GET" /\ r.name = c.name /\ c.name \in Names
  BY <1>a, <1>b, RequestOf
<1>d. c.at \in {"open", "read"} /\ UNCHANGED <<dir, disk>> /\ e.at \in {"read", "done"}
      /\ e \in Calls /\ e.list = {}
  <2>1. UNCHANGED <<dir, disk>> /\ e.at \in {"read", "done"}
    BY <1>a, FsStepRead
  <2>2. e.list = c.list /\ c.list = {}
    BY <1>a, FsStepFrame DEF AloneInv, AloneHolds
  <2> QED
    BY <1>a, <1>b, <2>1, <2>2 DEF WellFormed, Calls, FsTypeOK
<1> HIDE DEF c, e, r
<1>1. \A n \in Names : /\ Shown(n, dir', disk', e) = Shown(n, dir, disk, c)
                       /\ Shown(n, dir, disk, c) = IF dir[n] = NoFile THEN NoFile
                                                   ELSE disk[dir[n]]
  BY <1>d DEF Shown
<1>2. storeBar' = storeBar /\ Replied(r, c) = {}
  <2>1. storeBar' = storeBar
    BY <1>1, StoreBars DEF c, e
  <2> QED
    BY <1>d, <2>1 DEF Replied
<1>3. d = IF dir[c.name] = NoFile THEN NoFile ELSE disk[dir[c.name]]
  BY <1>c, <1>1, StoreBars DEF c
<1>4. CASE e.at = "read"
  <2>1. Replied(r, e) = {}
    BY <1>4 DEF Replied
  <2> QED
    BY <1>1, <1>2, <2>1, Unseen DEF c, e, r
<1>5. CASE e.at = "done"
  <2>1. Replied(r, e) = {Response(r, e)}
    BY <1>c, <1>5 DEF Replied
  <2>2. resultBar[w] = {} /\ resultBar' = [resultBar EXCEPT ![w] = {Response(r, e)}]
    BY <1>2, <2>1, Effect DEF c, e, r
  <2>3. Response(r, e) = IF d = NoFile THEN Store!Answer(404, NoName, <<>>, {})
                                       ELSE Store!Answer(200, NoName, Store!Ended(d), {})
    <3>1. /\ e.ok => Response(r, e) = Store!Answer(200, NoName, e.out, e.list)
          /\ ~e.ok => Response(r, e) = Store!Answer(404, NoName, e.out, e.list)
      BY <1>c, <1>d, Responses
    <3>2. CASE c.at = "open"
      <4>1. ~e.ok /\ dir[c.name] = NoFile /\ e.out = <<>>
        <5>1. OpenFails(w)
          BY <1>5, <1>a, <3>2 DEF FsStep, MakeDirectory, MakeDirectoryFails, OpenToRead, OpenToWrite,
             ReadChunk, Write, WriteFails, Remove, ListDirectory, Calls, c, e
        <5>2. dir[c.name] = NoFile
          BY <5>1 DEF OpenFails, c
        <5>3. e.ok = FALSE /\ e.out = c.out
          BY <1>a, <5>1 DEF OpenFails, Return, Calls, c, e
        <5> QED
          BY <1>a, <3>2, <5>2, <5>3 DEF WellFormed
      <4> QED
        BY <1>3, <1>d, <3>1, <4>1
    <3>3. CASE c.at = "read"
      <4>1. /\ c.ino = dir[c.name] /\ c.ino # NoFile /\ c.ino \in Inodes
            /\ c.out \in {<<>>, disk[c.ino]}
        BY <1>a, <3>3 DEF AloneInv, AloneHolds, WellFormed, Calls, c
      <4>2. e.out = Lines(disk[c.ino])
        BY <1>5, <1>a, <3>3, <4>1, FsStepRead DEF c, e
      <4>3. e.ok
        BY <1>5, <1>a, <3>3 DEF FsStep, MakeDirectory, MakeDirectoryFails, OpenToRead, OpenToWrite, OpenFails,
           ReadChunk, Write, WriteFails, Remove, ListDirectory, Calls, WellFormed, c, e
      <4>4. d = disk[c.ino] /\ d # NoFile
        BY <1>3, <1>a, <4>1, AbsentAssumption
      <4> QED
        BY <1>d, <3>1, <4>2, <4>3, <4>4 DEF Lines, Store!Ended
    <3> QED
      BY <1>d, <3>2, <3>3
  <2> QED
    BY <1>2, <1>c, <2>2, <2>3 DEF Store!Get, Store!Due, r
<1> QED
  BY <1>d, <1>4, <1>5

\* A LIST takes effect where the directory is read; what a POST finds there
\* nobody sees.
LEMMA ListStep ==
    ASSUME NEW w, Workers = {w}, "open" \notin Faults, "write" \notin Faults,
           AloneInv(w), FsStep(w), UNCHANGED req,
           call[w].fn = "listFiles"
    PROVE  Store!List(w) \/ UNCHANGED Store!vars
<1> DEFINE c == call[w]
           e == call'[w]
           r == req[w]
<1>a. /\ w \in Workers /\ c \in Calls /\ call \in [Workers -> Calls] /\ WellFormed(c)
      /\ dir \in [Names -> Inodes \cup {NoFile}] /\ disk \in [Inodes -> Data]
      /\ CrudTypeOK /\ FsTypeOK /\ FsTypeOK' /\ NoDirectory
  BY FsStepType DEF AloneInv, CrudTypeOK, FsTypeOK
<1>b. /\ c.at \notin {"idle", "done"} /\ e.fn = "listFiles"
      /\ e.out = c.out /\ c.out = <<>> /\ e \in Calls
  BY <1>a, FsStepFrame DEF AloneInv, AloneHolds, FsTypeOK
<1>c. r \in Requests /\ r.method \in {"POST", "LIST"}
  BY <1>a, <1>b, RequestOf
<1>d. c.at = "open" /\ e.at = "done" /\ UNCHANGED <<dir, disk>> /\ e.list = Present
  <2>1. /\ UNCHANGED <<dir, disk>> /\ e.at = "done"
        /\ e.list = IF e.ok THEN Present ELSE {}
        /\ "open" \notin Faults => \A n \in Names : dir[n] # NoFile => n \in e.list
    BY <1>a, FsStepList
  <2>2. e.list = Present
    BY <2>1 DEF Present
  <2> QED
    BY <1>a, <1>b, <2>1, <2>2 DEF WellFormed, Calls
<1> HIDE DEF c, e, r
<1>1. \A n \in Names : /\ Shown(n, dir', disk', e) = Shown(n, dir, disk, c)
                       /\ Shown(n, dir, disk, c) = IF dir[n] = NoFile THEN NoFile
                                                   ELSE disk[dir[n]]
  BY <1>d DEF Shown
<1>2. storeBar' = storeBar
  BY <1>1, StoreBars DEF c, e
<1>3. Store!Entities = Present
  <2>1. \A n \in Names : storeBar[n] = IF dir[n] = NoFile THEN NoFile ELSE disk[dir[n]]
    BY <1>1, StoreBars DEF c
  <2>2. \A n \in Names : dir[n] # NoFile => disk[dir[n]] # NoFile
    BY <1>a, AbsentAssumption
  <2> QED
    BY <2>1, <2>2 DEF Store!Entities, Present
<1>4. Replied(r, c) = {}
  BY <1>d DEF Replied
<1>5. CASE r.method = "POST"
  <2>1. Replied(r, e) = {}
    BY <1>5, <1>b, <1>d DEF Replied
  <2> QED
    BY <1>1, <1>4, <2>1, Unseen DEF c, e, r
<1>6. CASE r.method = "LIST"
  <2>1. Replied(r, e) = {Response(r, e)}
    BY <1>6, <1>d DEF Replied
  <2>2. Response(r, e) = Store!Answer(200, NoName, e.out, e.list)
    BY <1>6, <1>b, <1>c, Responses
  <2>3. resultBar[w] = {} /\ resultBar' = [resultBar EXCEPT ![w] = {Response(r, e)}]
    BY <1>4, <2>1, Effect DEF c, e, r
  <2> QED
    BY <1>2, <1>3, <1>6, <1>b, <1>d, <2>2, <2>3 DEF Store!List, Store!Due, r
<1> QED
  BY <1>c, <1>5, <1>6

\* The system calls of a PUT, POST or DELETE that are not the open show
\* nothing, or that a directory that is not there has no such file.
LEMMA ChangeStep ==
    ASSUME NEW w, Workers = {w}, "open" \notin Faults, "write" \notin Faults,
           AloneInv(w), FsStep(w), UNCHANGED req,
           call[w].fn \in {"writeFile", "deleteFile"}, ~ OpenToWrite(w)
    PROVE  Store!Delete(w) \/ UNCHANGED Store!vars
<1> DEFINE c == call[w]
           e == call'[w]
           r == req[w]
<1>a. /\ w \in Workers /\ c \in Calls /\ call \in [Workers -> Calls] /\ WellFormed(c)
      /\ dir \in [Names -> Inodes \cup {NoFile}] /\ disk \in [Inodes -> Data]
      /\ CrudTypeOK /\ FsTypeOK /\ NoDirectory /\ Linked
      /\ c.out = <<>> /\ c.list = {}
      /\ c.at \in {"write", "remove"} => /\ c.ino = dir[c.name] /\ c.ino # NoFile
                                         /\ c.ino \in Inodes /\ disk[c.ino] = <<>>
  BY DEF AloneInv, AloneHolds, CrudTypeOK, FsTypeOK, WellFormed, Calls
<1>b. /\ c.at \notin {"idle", "done"} /\ e.fn = c.fn /\ e.name = c.name /\ e.data = c.data
      /\ e.out = <<>> /\ e.list = {} /\ e \in Calls
  BY <1>a, FsStepFrame, FsStepType DEF FsTypeOK
<1>c. /\ r \in Requests /\ c.name \in Names
      /\ c.fn = "deleteFile" => r.method = "DELETE" /\ r.name = c.name
      /\ c.fn = "writeFile" => r.method \in {"POST", "PUT"}
  BY <1>a, <1>b, RequestOf
<1>1. CASE MakeDirectory(w)
  <2>1. c.at = "mkdir" /\ e.at = "open" /\ UNCHANGED <<dir, disk>>
    BY <1>1, <1>a DEF MakeDirectory, Calls
  <2> HIDE DEF c, e, r
  <2>2. \A n \in Names : Shown(n, dir', disk', e) = Shown(n, dir, disk, c)
    BY <2>1 DEF Shown
  <2>3. Replied(r, c) = {} /\ Replied(r, e) = {}
    BY <2>1 DEF Replied
  <2> QED
    BY <2>2, <2>3, Unseen DEF c, e, r
<1>2. CASE OpenFails(w)
  <2>1. /\ c.at = "open" /\ e.at = "done" /\ UNCHANGED <<dir, disk>>
        /\ c.fn = "deleteFile" /\ ~dirExists
    BY <1>2, <1>a DEF OpenFails, Return, Calls
  <2>2. dir[c.name] = NoFile
    BY <1>a, <1>c, <2>1 DEF NoDirectory
  <2> HIDE DEF c, e, r
  <2>3. \A n \in Names : Shown(n, dir', disk', e) = Shown(n, dir, disk, c)
    BY <2>1 DEF Shown
  <2>4. Shown(c.name, dir', disk', e) = NoFile
    BY <2>1, <2>2 DEF Shown
  <2>5. storeBar' = [storeBar EXCEPT ![c.name] = NoFile]
    BY <1>c, <2>3, <2>4, Changed DEF c, e
  <2>6. /\ Replied(r, c) = {} /\ Replied(r, e) = {Response(r, e)}
        /\ Response(r, e) = Store!Answer(200, NoName, <<>>, {})
    <3>1. Response(r, e) = Store!Answer(200, NoName, e.out, e.list)
      BY <1>b, <1>c, <2>1, Responses
    <3> QED
      BY <1>b, <1>c, <2>1, <3>1 DEF Replied
  <2>7. /\ resultBar[w] = {}
        /\ resultBar' = [resultBar EXCEPT ![w] = {Store!Answer(200, NoName, <<>>, {})}]
    BY <2>6, Effect DEF c, e, r
  <2> QED
    BY <1>c, <2>1, <2>5, <2>7 DEF Store!Delete, Store!Due, r
<1>3. CASE Write(w)
  <2>1. /\ c.at = "write" /\ c.fn = "writeFile" /\ UNCHANGED dir
        /\ disk' = [disk EXCEPT ![c.ino] = Overlay(@, c.data)]
        /\ e = [c EXCEPT !.at = "done", !.ok = TRUE, !.ino = NoFile]
    BY <1>3, <1>a DEF Write, Return, WellFormed, Calls
  <2>2. e.at = "done" /\ e.ok = TRUE /\ c.data \in Data
    BY <2>1, <1>a DEF Calls
  <2>3. disk'[dir[c.name]] = c.data
    BY <1>a, <2>1, <2>2, OverlayEmpty
  <2>4. \A n \in Names \ {c.name} : dir[n] # NoFile => disk'[dir[n]] = disk[dir[n]]
    BY <1>a, <1>c, <2>1 DEF Linked
  <2>5. Replied(r, c) = {Response(r, [c EXCEPT !.ok = TRUE])}
    BY <2>1 DEF Replied
  <2>6. Replied(r, e) = {Response(r, e)}
    BY <1>b, <2>1, <2>2 DEF Replied
  <2>7. Response(r, e) = Response(r, [c EXCEPT !.ok = TRUE])
    <3> DEFINE f == [c EXCEPT !.ok = TRUE]
    <3>1. /\ e.ok = f.ok /\ e.name = f.name /\ e.out = f.out /\ e.list = f.list
      BY <1>a, <2>1 DEF Calls
    <3> HIDE DEF e, f
    <3>2. Status(r, e) = Status(r, f)
      BY <3>1 DEF Status
    <3>3. Response(r, e) = Response(r, f)
      BY <3>1, <3>2 DEF Response
    <3> QED
      BY <3>3 DEF f
  <2> HIDE DEF c, e, r
  <2>8. \A n \in Names : Shown(n, dir', disk', e) = Shown(n, dir, disk, c)
    BY <1>a, <1>b, <2>1, <2>2, <2>3, <2>4 DEF Shown
  <2>9. Replied(r, e) = Replied(r, c)
    BY <2>5, <2>6, <2>7
  <2> QED
    BY <2>8, <2>9, Unseen DEF c, e, r
<1>4. CASE Remove(w)
  <2>1. /\ c.at = "remove" /\ c.fn = "deleteFile" /\ UNCHANGED disk
        /\ dir' = [dir EXCEPT ![c.name] = NoFile] /\ e.at = "done"
    BY <1>4, <1>a DEF Remove, Return, WellFormed, Calls
  <2>2. Replied(r, c) = {Response(r, [c EXCEPT !.ok = TRUE])}
    BY <2>1 DEF Replied
  <2> HIDE DEF c, e, r
  <2>3. Response(r, [c EXCEPT !.ok = TRUE]) = Store!Answer(200, NoName, <<>>, {})
    <3>1. r \in Requests /\ c \in Calls
      BY <1>a, <1>c
    <3>2. Response(r, [c EXCEPT !.ok = TRUE]) =
            [code |-> IF r.method = "POST" THEN 201 ELSE 200,
             id |-> IF r.method = "POST" THEN c.name ELSE NoName,
             body |-> c.out, list |-> c.list]
      BY ONLY <3>1, Responses
    <3> QED
      BY <1>a, <1>c, <2>1, <3>2 DEF Store!Answer
  <2>4. Response(r, e) = Store!Answer(200, NoName, <<>>, {})
    <3>1. Response(r, e) = Store!Answer(200, NoName, e.out, e.list)
      BY <1>b, <1>c, <2>1, Responses
    <3> QED
      BY <1>b, <3>1
  <2>5. Replied(r, e) = {Response(r, e)}
    BY <1>c, <2>1 DEF Replied
  <2>6. \A n \in Names : Shown(n, dir', disk', e) = Shown(n, dir, disk, c)
    BY <1>a, <1>b, <1>c, <2>1 DEF Shown
  <2> QED
    BY <2>2, <2>3, <2>4, <2>5, <2>6, Unseen DEF c, e, r
<1>5. CASE MakeDirectoryFails(w)
  <2>1. c.at = "mkdir" /\ e.at = "thrown" /\ UNCHANGED <<dir, disk>>
    BY <1>5, <1>a DEF MakeDirectoryFails, Calls
  <2> HIDE DEF c, e, r
  <2>2. \A n \in Names : Shown(n, dir', disk', e) = Shown(n, dir, disk, c)
    BY <2>1 DEF Shown
  <2>3. Replied(r, c) = {} /\ Replied(r, e) = {}
    BY <2>1 DEF Replied
  <2> QED
    BY <2>2, <2>3, Unseen DEF c, e, r
<1>6. ~ WriteFails(w)
  BY DEF WriteFails
<1> QED
  BY <1>1, <1>2, <1>3, <1>4, <1>5, <1>6, <1>a
  DEF FsStep, OpenToRead, ReadChunk, ListDirectory, WellFormed

\* What the request's steps on the disk are to EntityStore.
LEMMA CallSimulated ==
    ASSUME NEW w, Workers = {w}, "open" \notin Faults, "write" \notin Faults,
           AloneInv(w), CallStep(w)
    PROVE  Store!Next \/ UNCHANGED Store!vars
<1>a. /\ w \in Workers /\ FsTypeOK /\ FsStep(w) /\ UNCHANGED req
      /\ call[w] \in Calls /\ WellFormed(call[w])
  BY DEF AloneInv, CrudTypeOK, FsTypeOK, CallStep
<1>b. call[w].fn \in {"readFile", "listFiles", "writeFile", "deleteFile"}
  <2>1. call[w].at \notin {"idle", "done"}
    BY <1>a, FsStepFrame
  <2> QED
    BY <1>a, <2>1 DEF WellFormed, Calls, Functions
<1>1. CASE OpenToWrite(w)
  BY <1>a, <1>1, CutStep DEF Store!Next
<1>2. CASE call[w].fn = "readFile"
  BY <1>a, <1>2, ReadStep DEF Store!Next
<1>3. CASE call[w].fn = "listFiles"
  BY <1>a, <1>3, ListStep DEF Store!Next
<1>4. CASE call[w].fn \in {"writeFile", "deleteFile"} /\ ~ OpenToWrite(w)
  BY <1>a, <1>4, ChangeStep DEF Store!Next
<1> QED
  BY <1>b, <1>1, <1>2, <1>3, <1>4

\* A request is received by both at once.
LEMMA ReceiveSimulated ==
    ASSUME NEW w, Workers = {w}, AloneInv(w), Receive(w)
    PROVE  Store!Receive(w)
<1>a. /\ w \in Workers /\ req[w] = NoRequest /\ UNCHANGED <<dir, disk>>
      /\ call \in [Workers -> Calls] /\ Serves(call[w], req[w])
      /\ req \in [Workers -> Requests \cup {NoRequest}]
  BY DEF AloneInv, CrudTypeOK, FsTypeOK, Receive
<1>1. PICK r \in Requests : /\ req' = [req EXCEPT ![w] = r]
                            /\ call' = [call EXCEPT ![w] = FirstCall(r)]
  BY DEF Receive
<1>2. req'[w] = r /\ call'[w] = FirstCall(r) /\ call[w].at = "idle"
  BY <1>a, <1>1 DEF Serves
<1>3. FirstCall(r).at \in {"mkdir", "open"}
  <2>1. r.method \in {"POST", "LIST", "GET", "PUT", "DELETE"}
    BY DEF Requests
  <2> QED
    BY <2>1 DEF FirstCall, readFile, writeFile, deleteFile, listFiles, NoCall
<1>4. \A n \in Names : Shown(n, dir', disk', call'[w]) = Shown(n, dir, disk, call[w])
  BY <1>a, <1>2, <1>3 DEF Shown
<1>5. Replied(req[w], call[w]) = {} /\ Replied(req'[w], call'[w]) = {}
  BY <1>2, <1>3 DEF Replied
<1>6. storeBar' = storeBar
  BY <1>4, StoreBars
<1>7. resultBar' = resultBar
  <2>1. /\ resultBar = [v \in {w} |-> Replied(req[w], call[w])]
        /\ resultBar' = [v \in {w} |-> Replied(req'[w], call'[w])]
    BY StoreBars
  <2> QED
    BY <1>5, <2>1
<1> QED
  BY <1>a, <1>1, <1>6, <1>7 DEF Store!Receive

\* EntityStore knows nothing of the id between a POST's two calls.
LEMMA ChooseIdSimulated ==
    ASSUME NEW w, Workers = {w}, AloneInv(w), ChooseId(w)
    PROVE  UNCHANGED Store!vars
<1>a. /\ w \in Workers /\ UNCHANGED <<dir, disk, req>> /\ call \in [Workers -> Calls]
      /\ req[w].method = "POST" /\ call[w].fn = "listFiles" /\ call[w].at = "done"
  BY DEF AloneInv, CrudTypeOK, FsTypeOK, ChooseId
<1>1. call'[w].at = "mkdir"
  BY <1>a DEF ChooseId, writeFile, NoCall
<1>2. \A n \in Names : Shown(n, dir', disk', call'[w]) = Shown(n, dir, disk, call[w])
  BY <1>a, <1>1 DEF Shown
<1>3. Replied(req[w], call'[w]) = Replied(req[w], call[w])
  BY <1>a, <1>1 DEF Replied
<1> QED
  BY <1>a, <1>2, <1>3, Unseen

\* The reply goes out in both at once, and it is the one that was due.
LEMMA ReplySimulated ==
    ASSUME NEW w, Workers = {w}, AloneInv(w), Reply(w)
    PROVE  Store!Reply(w)
<1>a. /\ w \in Workers /\ call[w].at = "done" /\ UNCHANGED <<dir, disk>>
      /\ call \in [Workers -> Calls] /\ call'[w] = NoCall /\ Handled(w)
      /\ req' = [req EXCEPT ![w] = NoRequest]
      /\ req \in [Workers -> Requests \cup {NoRequest}]
  BY DEF AloneInv, CrudTypeOK, FsTypeOK, Reply, Handled
<1>1. call'[w].at = "idle"
  BY <1>a DEF NoCall
<1>2. \A n \in Names : Shown(n, dir', disk', call'[w]) = Shown(n, dir, disk, call[w])
  BY <1>a, <1>1 DEF Shown
<1>3. Replied(req[w], call[w]) # {} /\ Replied(req'[w], call'[w]) = {}
  BY <1>a, <1>1 DEF Replied, Handled
<1>4. /\ storeBar' = storeBar /\ resultBar[w] # {}
      /\ resultBar' = [resultBar EXCEPT ![w] = {}]
  BY <1>2, <1>3, StoreBars
<1> QED
  BY <1>a, <1>4 DEF Store!Reply

\* A request whose directory could not be made has had no effect, and is
\* dropped in both at once.
LEMMA AbandonSimulated ==
    ASSUME NEW w, Workers = {w}, AloneInv(w), Abandon(w)
    PROVE  Store!Abandon(w)
<1>a. /\ w \in Workers /\ call[w].at = "thrown" /\ UNCHANGED <<dir, disk>>
      /\ call \in [Workers -> Calls] /\ call'[w] = NoCall
      /\ req' = [req EXCEPT ![w] = NoRequest] /\ CrudTypeOK /\ WellFormed(call[w])
  BY DEF AloneInv, CrudTypeOK, FsTypeOK, Abandon
<1>1. req[w].method \in {"POST", "PUT"}
  BY <1>a, RequestOf DEF WellFormed
<1>2. call'[w].at = "idle"
  BY <1>a DEF NoCall
<1>3. \A n \in Names : Shown(n, dir', disk', call'[w]) = Shown(n, dir, disk, call[w])
  BY <1>a, <1>2 DEF Shown
<1>4. Replied(req[w], call[w]) = {} /\ Replied(req'[w], call'[w]) = {}
  BY <1>a, <1>2 DEF Replied
<1>5. storeBar' = storeBar
  <2>1. storeBar = [n \in Names |-> Shown(n, dir, disk, call[w])]
    BY StoreBars
  <2>2. storeBar' = [n \in Names |-> Shown(n, dir', disk', call'[w])]
    BY StoreBars
  <2> QED
    BY <1>3, <2>1, <2>2
<1>6. resultBar[w] = {} /\ resultBar' = resultBar
  <2>1. resultBar = [v \in {w} |-> {}] /\ resultBar' = [v \in {w} |-> {}]
    BY <1>4, StoreBars
  <2> QED
    BY <2>1
<1>7. Store!Due(w, "PUT") \/ Store!Due(w, "POST")
  BY <1>1, <1>6 DEF Store!Due
<1> QED
  BY <1>a, <1>5, <1>6, <1>7 DEF Store!Abandon

\* An exit costs the content of the entity whose file was truncated, if any.
LEMMA ExitSimulated ==
    ASSUME NEW w, Workers = {w}, AloneInv(w), Exit
    PROVE  Store!Exit
<1> DEFINE c == call[w]
           r == req[w]
           cut == IF c.at \in {"write", "remove"} THEN {c.name} ELSE {}
<1>a. /\ w \in Workers /\ c \in Calls /\ WellFormed(c) /\ CrudTypeOK
      /\ UNCHANGED <<dir, disk>> /\ call'[w] = NoCall
      /\ req' = [v \in Workers |-> NoRequest]
      /\ c.at \in {"write", "remove"} => c.ino = dir[c.name] /\ disk[c.ino] = <<>>
  BY DEF AloneInv, AloneHolds, CrudTypeOK, FsTypeOK, Exit
<1>b. call'[w].at = "idle"
  BY <1>a DEF NoCall
<1>1. ASSUME c.at \in {"write", "remove"}
      PROVE  /\ c.name \in Names /\ dir[c.name] # NoFile /\ disk[dir[c.name]] = <<>>
             /\ r \in Requests
             /\ \/ r.method \in {"PUT", "DELETE"} /\ r.name = c.name
                \/ r.method = "POST"
  <2>1. c.fn \in {"writeFile", "deleteFile"} /\ c.ino # NoFile
    BY <1>a, <1>1 DEF WellFormed, Calls
  <2> QED
    BY <1>a, <1>1, <2>1, RequestOf
<1>2. cut \subseteq Store!Changing
  <2> SUFFICES ASSUME c.at \in {"write", "remove"} PROVE c.name \in Store!Changing
    OBVIOUS
  <2> DEFINE a == Response(r, [c EXCEPT !.ok = TRUE])
  <2>1. resultBar[w] = {a}
    <3>1. Replied(r, c) = {a}
      BY DEF Replied
    <3> HIDE DEF c, r, a
    <3> QED
      BY <3>1, StoreBars DEF c, r
  <2>2. r.method = "POST" => a.id = c.name
    <3>1. r \in Requests /\ c \in Calls
      BY <1>a, <1>1
    <3>2. a = [code |-> IF r.method = "POST" THEN 201 ELSE 200,
               id |-> IF r.method = "POST" THEN c.name ELSE NoName,
               body |-> c.out, list |-> c.list]
      BY ONLY <3>1, Responses
    <3> QED
      BY <3>2
  <2> HIDE DEF c, a
  <2> QED
    BY <1>a, <1>1, <2>1, <2>2 DEF Store!Changing
<1>3. storeBar' = [n \in Names |-> IF n \in cut THEN <<>> ELSE storeBar[n]]
  <2>1. \A n \in Names : Shown(n, dir', disk', call'[w]) =
                            IF n \in cut THEN <<>> ELSE Shown(n, dir, disk, c)
    BY <1>a, <1>b, <1>1 DEF Shown
  <2>2. \A n \in Names : storeBar[n] = Shown(n, dir, disk, c)
    BY StoreBars
  <2>3. storeBar' = [n \in Names |-> Shown(n, dir', disk', call'[w])]
    BY StoreBars
  <2> HIDE DEF c, cut
  <2> QED
    BY <2>1, <2>2, <2>3
<1>4. resultBar' = [v \in Workers |-> {}]
  <2>1. Replied(req'[w], call'[w]) = {}
    BY <1>b DEF Replied
  <2> QED
    BY <2>1, StoreBars
<1> HIDE DEF cut
<1> QED
  BY <1>a, <1>2, <1>3, <1>4 DEF Store!Exit

\* The two start alike: no entities, no requests.
LEMMA StartsAsStore ==
    ASSUME NEW w, Workers = {w}, CrudInit
    PROVE  Store!Init
<1>1. /\ call[w].at = "idle" /\ \A n \in Names : dir[n] = NoFile
      /\ req = [v \in Workers |-> NoRequest]
  BY DEF CrudInit, FsInit, NoCall
<1>2. \A n \in Names : Shown(n, dir, disk, call[w]) = NoFile
  BY <1>1 DEF Shown
<1>3. Replied(req[w], call[w]) = {}
  BY <1>1 DEF Replied
<1>4. storeBar = [n \in Names |-> NoFile]
  BY <1>2, StoreBars
<1>5. resultBar = [v \in Workers |-> {}]
  BY <1>3, StoreBars
<1> QED
  BY <1>1, <1>4, <1>5 DEF Store!Init

\* Every step is one of EntityStore, or none.
LEMMA StepSimulated ==
    ASSUME NEW w, Workers = {w}, "open" \notin Faults, "write" \notin Faults,
           AloneInv(w), [CrudNext]_crudVars
    PROVE  [Store!Next]_(Store!vars)
<1>1. CASE Receive(w)
  BY <1>1, ReceiveSimulated DEF Store!Next
<1>2. CASE CallStep(w)
  BY <1>2, CallSimulated
<1>3. CASE ChooseId(w)
  BY <1>3, ChooseIdSimulated
<1>4. CASE Reply(w)
  BY <1>4, ReplySimulated DEF Store!Next
<1>5. CASE Exit
  BY <1>5, ExitSimulated DEF Store!Next
<1>6. CASE UNCHANGED crudVars
  BY <1>6, StoreBars DEF Store!vars, crudVars, fsVars
<1>7. CASE Abandon(w)
  BY <1>7, AbandonSimulated DEF Store!Next
<1> QED
  BY <1>1, <1>2, <1>3, <1>4, <1>5, <1>6, <1>7 DEF CrudNext, CrudStep

\* With one thread and no failing calls but those that make the directory,
\* CRUDRequestHandler's operations (src/crud_request_handler.cc) are those of a map: a GET and a LIST reply
\* with what it holds, a PUT, POST and DELETE change it in one step, a POST
\* takes an id that no entity has until the ids are used up, and an exit in
\* the middle of a change costs that one entity's content; a PUT or POST whose
\* directory cannot be made changes nothing.
THEOREM ImplementsStoreAlone ==
    ASSUME NEW worker, Workers = {worker}, Faults \subseteq {"mkdir"}
    PROVE  CrudSpec => ImplementsStore
<1>a. "open" \notin Faults /\ "write" \notin Faults
  OBVIOUS
<1>1. CrudInit => AloneInv(worker) /\ Store!Init
  BY AloneInit, StartsAsStore
<1>2. AloneInv(worker) /\ [CrudNext]_crudVars => AloneInv(worker)'
  BY <1>a, AloneStep
<1>3. AloneInv(worker) /\ [CrudNext]_crudVars => [Store!Next]_(Store!vars)
  BY <1>a, StepSimulated
<1> QED
  BY <1>1, <1>2, <1>3, PTL DEF CrudSpec, ImplementsStore, Store!Spec
=============================================================================
