----------------------------- MODULE CrudProofs -----------------------------
(***************************************************************************)
(* Proofs about CrudClients, for any number of workers, names, bodies and  *)
(* inodes, any width of int, and any contents of an uninitialized one.     *)
(***************************************************************************)
EXTENDS CrudClients, FileSystemProofs

(***************************************************************************)
(* The id that a POST takes.                                               *)
(***************************************************************************)

\* max_id + 1 is an int again: it wraps around at the largest one.  Unless
\* it does, it is positive and exceeds every entry of the listing.
LEMMA NextIdFresh ==
    ASSUME NEW list \in SUBSET Names, NEW g \in Garbage
    PROVE  /\ NextId(list, g) \in Names
           /\ NextId(list, g) # MinInt => /\ NextId(list, g) > 0
                                         /\ \A n \in list : NextId(list, g) > n
<1> DEFINE S == {0, g} \cup list
<1>0. MaxInt \in Nat \ {0} /\ MinInt = -(MaxInt + 1) /\ Names = MinInt .. MaxInt
  BY CrudAssumption DEF MinInt
<1>1. S \subseteq MinInt .. MaxInt /\ S # {}
  BY <1>0, CrudAssumption
<1>2. Max(S) \in S /\ \A x \in S : Max(S) >= x
  <2>1. MinInt \in Int /\ MaxInt \in Int
    BY <1>0
  <2> HIDE DEF S
  <2> QED
    BY <1>1, <2>1, MaxIsGreatest
<1>3. 0 <= Max(S) /\ Max(S) \in MinInt .. MaxInt
  BY <1>0, <1>1, <1>2
<1>4. NextId(list, g) = IF list = {} THEN 1
                        ELSE IF Max(S) = MaxInt THEN MinInt ELSE Max(S) + 1
  BY DEF NextId
<1> HIDE DEF S
<1>5. list \subseteq S
  BY DEF S
<1> QED
  BY <1>0, <1>1, <1>2, <1>3, <1>4, <1>5

(***************************************************************************)
(* Type correctness.                                                       *)
(***************************************************************************)

\* A request's first call is well formed and serves it.
LEMMA FirstCallType ==
    ASSUME NEW r \in Requests
    PROVE  /\ FirstCall(r) \in Calls
           /\ WellFormed(FirstCall(r))
           /\ Serves(FirstCall(r), r)
<1>1. r # NoRequest /\ r.body \in Data
      /\ r.method \in {"POST", "LIST", "GET", "PUT", "DELETE"}
  <2>1. r.method \in {"POST", "LIST", "GET", "PUT", "DELETE"}
    BY DEF Requests
  <2>2. <<>> \in Data
    BY DEF Data
  <2>3. r.body \in Data
    BY <2>2, CrudAssumption DEF Requests
  <2> QED
    BY <2>1, <2>3 DEF NoRequest
<1>2. r.method \in {"GET", "PUT", "DELETE"} => r.name \in Names
  BY CrudAssumption DEF Requests
<1>3. PICK n \in Names : r.name \in Names => n = r.name
  BY CrudAssumption
<1>4. CASE r.method \in {"POST", "LIST"}
  <2>1. FirstCall(r) = listFiles
    BY <1>4 DEF FirstCall
  <2>2. listFiles.fn = "listFiles" /\ listFiles.at = "open"
    BY DEF listFiles, NoCall
  <2> QED
    BY <1>1, <1>4, <2>1, <2>2, <1>3, CallTypes DEF Serves
<1>5. CASE r.method = "GET"
  <2>1. FirstCall(r) = readFile(r.name)
    BY <1>5 DEF FirstCall
  <2>2. readFile(r.name).fn = "readFile" /\ readFile(r.name).at = "open"
        /\ readFile(r.name).name = r.name
    BY DEF readFile, NoCall
  <2> QED
    BY <1>1, <1>2, <1>5, <2>1, <2>2, CallTypes DEF Serves
<1>6. CASE r.method = "PUT"
  <2>1. FirstCall(r) = writeFile(r.name, r.body)
    BY <1>6 DEF FirstCall
  <2>2. writeFile(r.name, r.body).fn = "writeFile"
        /\ writeFile(r.name, r.body).at = "mkdir"
        /\ writeFile(r.name, r.body).name = r.name
        /\ writeFile(r.name, r.body).data = r.body
    BY DEF writeFile, NoCall
  <2> QED
    BY <1>1, <1>2, <1>6, <2>1, <2>2, CallTypes DEF Serves
<1>7. CASE r.method = "DELETE"
  <2>1. FirstCall(r) = deleteFile(r.name)
    BY <1>7 DEF FirstCall
  <2>2. deleteFile(r.name).fn = "deleteFile" /\ deleteFile(r.name).at = "open"
        /\ deleteFile(r.name).name = r.name
    BY DEF deleteFile, NoCall
  <2> QED
    BY <1>1, <1>2, <1>7, <2>1, <2>2, CallTypes DEF Serves
<1> QED
  BY <1>1, <1>4, <1>5, <1>6, <1>7

\* So does no call an idle worker.
LEMMA NoCallType ==
    NoCall \in Calls /\ WellFormed(NoCall) /\ Serves(NoCall, NoRequest)
<1>1. <<>> \in Data
  BY DEF Data
<1>2. PICK n \in Names : TRUE
  BY CrudAssumption
<1>3. NoCall \in Calls /\ WellFormed(NoCall)
  BY <1>1, CallTypes
<1>4. Serves(NoCall, NoRequest)
  BY DEF Serves, NoCall, NoRequest
<1> QED
  BY <1>3, <1>4

\* Every step of the handler keeps the types.
LEMMA CrudTypeStep ==
    ASSUME CrudTypeOK, [CrudNext]_crudVars
    PROVE  CrudTypeOK'
<1>a. FsTypeOK /\ call \in [Workers -> Calls]
      /\ req \in [Workers -> Requests \cup {NoRequest}]
      /\ \A v \in Workers : Serves(call[v], req[v])
  BY DEF CrudTypeOK, FsTypeOK
<1>b. NoCall \in Calls /\ WellFormed(NoCall) /\ Serves(NoCall, NoRequest)
  BY NoCallType
<1>1. ASSUME NEW w \in Workers, Receive(w)
      PROVE  CrudTypeOK'
  <2>1. PICK r \in Requests : /\ req' = [req EXCEPT ![w] = r]
                              /\ call' = [call EXCEPT ![w] = FirstCall(r)]
    BY <1>1 DEF Receive
  <2>2. FsTypeOK'
    BY <1>1, <1>a, <2>1, FirstCallType, CallUpdate DEF Receive, FsTypeOK
  <2>3. \A v \in Workers : Serves(call'[v], req'[v])
    BY <1>a, <2>1, FirstCallType
  <2> QED
    BY <1>a, <2>1, <2>2, <2>3 DEF CrudTypeOK
<1>2. ASSUME NEW w \in Workers, CallStep(w)
      PROVE  CrudTypeOK'
  <2>1. FsStep(w) /\ req' = req
    BY <1>2 DEF CallStep
  <2>2. FsTypeOK'
    BY <1>a, <2>1, FsStepType
  <2>3. \A v \in Workers : Serves(call'[v], req'[v])
    BY <1>a, <2>1, FsStepFrame DEF Serves
  <2> QED
    BY <1>a, <2>1, <2>2, <2>3 DEF CrudTypeOK
<1>3. ASSUME NEW w \in Workers, ChooseId(w)
      PROVE  CrudTypeOK'
  <2>1. PICK g \in Garbage :
           call' = [call EXCEPT ![w] =
                       writeFile(NextId(call[w].list, g), req[w].body)]
    BY <1>3 DEF ChooseId
  <2>2. call[w].list \in SUBSET Names
    BY <1>a DEF Calls
  <2>3. NextId(call[w].list, g) \in Names
    BY <2>2, NextIdFresh
  <2>4. req[w] \in Requests /\ req[w].method = "POST"
    BY <1>3, <1>a DEF ChooseId, NoRequest
  <2>5. req[w].body \in Data
    BY <2>4, CrudAssumption DEF Requests
  <2> DEFINE c == writeFile(NextId(call[w].list, g), req[w].body)
  <2>6. c \in Calls /\ WellFormed(c)
    BY <2>3, <2>5, CallTypes
  <2>7. Serves(c, req[w])
    BY <2>4 DEF Serves, writeFile, NoCall, NoRequest
  <2>8. call' = [call EXCEPT ![w] = c] /\ req' = req
    BY <1>3, <2>1 DEF ChooseId
  <2> HIDE DEF c
  <2>9. FsTypeOK'
    BY <1>3, <1>a, <2>6, <2>8, CallUpdate DEF ChooseId, FsTypeOK
  <2> QED
    BY <1>a, <2>7, <2>8, <2>9 DEF CrudTypeOK
<1>4. ASSUME NEW w \in Workers, Reply(w)
      PROVE  CrudTypeOK'
  <2>1. FsTypeOK'
    BY <1>4, <1>a, <1>b, CallUpdate DEF Reply, FsTypeOK
  <2> QED
    BY <1>4, <1>a, <1>b, <2>1 DEF Reply, CrudTypeOK
<1>5. ASSUME NEW w \in Workers, Abandon(w)
      PROVE  CrudTypeOK'
  <2>1. FsTypeOK'
    BY <1>5, <1>a, <1>b, CallUpdate DEF Abandon, FsTypeOK
  <2> QED
    BY <1>5, <1>a, <1>b, <2>1 DEF Abandon, CrudTypeOK
<1>6. CASE Exit
  BY <1>6, <1>a, <1>b DEF Exit, CrudTypeOK, FsTypeOK
<1>7. CASE UNCHANGED crudVars
  BY <1>7, <1>a DEF crudVars, fsVars, CrudTypeOK, FsTypeOK
<1> QED
  BY <1>1, <1>2, <1>3, <1>4, <1>5, <1>6, <1>7 DEF CrudNext, CrudStep

\* What the clients observe changes with the handler's own steps.
LEMMA ClientsTypeStep ==
    ASSUME ClientsTypeOK, [ClientsNext]_vars
    PROVE  ClientsTypeOK'
<1>a. /\ CrudTypeOK
      /\ known \in [Names -> {"present", "absent", "unknown"}]
      /\ acked \in [Names -> SUBSET Bodies]
      /\ rivals \in [Workers -> SUBSET {"writeFile", "deleteFile"}]
      /\ seen \in [Workers -> SUBSET Names]
  BY DEF ClientsTypeOK
<1>b. [CrudNext]_crudVars
  BY DEF ClientsNext, ClientsReceive, ClientsChooseId, ClientsReply,
         ClientsAbandon, ClientsExit, CrudNext, CrudStep, vars
<1>c. CrudTypeOK'
  BY <1>a, <1>b, CrudTypeStep
<1> DEFINE GhostsOK == /\ known \in [Names -> {"present", "absent", "unknown"}]
                       /\ acked \in [Names -> SUBSET Bodies]
                       /\ rivals \in [Workers -> SUBSET {"writeFile", "deleteFile"}]
                       /\ seen \in [Workers -> SUBSET Names]
<1>d. ASSUME NEW w \in Workers, NEW n \in Names,
             NEW fn \in {"writeFile", "deleteFile"}, Touch(w, n, fn)
      PROVE  GhostsOK'
  <2>1. \A u \in Workers : Touches(u, n) => call[u].fn \in {"writeFile", "deleteFile"}
    BY DEF Touches
  <2> QED
    BY <1>a, <1>d, <2>1 DEF Touch
<1>1. ASSUME NEW w \in Workers, ClientsReceive(w)
      PROVE  GhostsOK'
  <2>1. req'[w] \in Requests
    BY <1>1, <1>a DEF ClientsReceive, Receive, CrudTypeOK
  <2>2. req'[w].method \in {"PUT", "DELETE"} => req'[w].name \in Names
    BY <2>1, CrudAssumption DEF Requests
  <2>3. CASE req'[w].method = "PUT"
    BY <1>1, <1>d, <2>2, <2>3 DEF ClientsReceive
  <2>4. CASE req'[w].method = "DELETE"
    BY <1>1, <1>d, <2>2, <2>4 DEF ClientsReceive
  <2>5. CASE req'[w].method = "POST"
    BY <1>1, <1>a, <2>5 DEF ClientsReceive
  <2>6. CASE req'[w].method \notin {"PUT", "DELETE", "POST"}
    BY <1>1, <1>a, <2>6 DEF ClientsReceive, ghosts
  <2> QED
    BY <2>3, <2>4, <2>5, <2>6
<1>2. ASSUME NEW w \in Workers, ClientsChooseId(w)
      PROVE  GhostsOK'
  <2>1. call'[w].fn = "writeFile"
    <3>1. call \in [Workers -> Calls]
      BY <1>a DEF CrudTypeOK, FsTypeOK
    <3> QED
      BY <1>2, <3>1 DEF ClientsChooseId, ChooseId, writeFile, NoCall
  <2>2. call'[w].name \in Names
    BY <1>c, <2>1 DEF CrudTypeOK, FsTypeOK, WellFormed, Calls
  <2> QED
    BY <1>2, <1>d, <2>2 DEF ClientsChooseId
<1>3. ASSUME NEW w \in Workers, ClientsReply(w)
      PROVE  GhostsOK'
  <2>1. call[w] \in Calls /\ WellFormed(call[w]) /\ Serves(call[w], req[w])
        /\ req[w] \in Requests \cup {NoRequest}
    BY <1>a DEF CrudTypeOK, FsTypeOK
  <2>2. call[w].fn \in {"writeFile", "deleteFile"} => call[w].name \in Names
    BY <2>1 DEF WellFormed, Calls
  <2>3. call[w].fn = "writeFile" => req[w].body \in Bodies
    BY <2>1 DEF Requests, NoRequest, Serves, WellFormed
  <2> QED
    BY <1>3, <1>a, <2>2, <2>3 DEF ClientsReply
<1>4. ASSUME UNCHANGED ghosts PROVE GhostsOK'
  BY <1>4, <1>a DEF ghosts
<1>5. ASSUME ClientsExit PROVE GhostsOK'
  BY <1>5, <1>a DEF ClientsExit
<1>6. ASSUME NEW w \in Workers, ClientsAbandon(w) PROVE GhostsOK'
  BY <1>6, <1>a DEF ClientsAbandon
<1>7. GhostsOK'
  BY <1>1, <1>2, <1>3, <1>4, <1>5, <1>6 DEF ClientsNext, vars
<1> QED
  BY <1>c, <1>7 DEF ClientsTypeOK

\* No request, no call, no file.
LEMMA ClientsTypeInit == ClientsInit => ClientsTypeOK
<1> SUFFICES ASSUME ClientsInit PROVE ClientsTypeOK
  OBVIOUS
<1>1. <<>> \in Data
  BY DEF Data
<1>2. NoCall \in Calls /\ WellFormed(NoCall) /\ Serves(NoCall, NoRequest)
  BY NoCallType
<1>3. CrudTypeOK
  BY <1>1, <1>2 DEF ClientsInit, CrudInit, FsInit, CrudTypeOK, FsTypeOK
<1> QED
  BY <1>3 DEF ClientsInit, ClientsTypeOK

\* Type correctness of the handler and of what its clients observe.
THEOREM TypeCorrect == ClientsSpec => []ClientsTypeOK
<1>1. ClientsInit => ClientsTypeOK
  BY ClientsTypeInit
<1>2. ClientsTypeOK /\ [ClientsNext]_vars => ClientsTypeOK'
  BY ClientsTypeStep
<1> QED
  BY <1>1, <1>2, PTL DEF ClientsSpec

(***************************************************************************)
(* Acknowledged writes and deletes.  AckedWritesExist is not inductive: it *)
(* has to say what a request on its way to a reply already knows, and that *)
(* rivals holds every function whose system calls can still undo it.       *)
(***************************************************************************)

\* Two requests on one name are rivals of each other.
Rivalry ==
    \A w, v \in Workers : \A n \in Names :
        w # v /\ Touches(w, n) /\ Touches(v, n) => call[v].fn \in rivals[w]

\* The file a write has opened stays, unless the write has a DELETE for rival.
WriteHolds ==
    \A w \in Workers :
        /\ call[w].fn = "writeFile"
        /\ "deleteFile" \notin rivals[w]
        /\ call[w].at = "write" \/ (call[w].at = "done" /\ call[w].ok)
        => dir[call[w].name] # NoFile

\* A DELETE without a rival ends with no file, whatever it returns.
DeleteHolds ==
    \A w \in Workers :
        /\ "open" \notin Faults
        /\ call[w].fn = "deleteFile" /\ call[w].at = "done" /\ rivals[w] = {}
        => dir[call[w].name] = NoFile

\* Nothing under way can undo what the clients know.
PresentHolds ==
    \A n \in Names : known[n] = "present" =>
        /\ dir[n] # NoFile
        /\ \A w \in Workers : Touches(w, n) => call[w].fn = "writeFile"

AbsentHolds ==
    \A n \in Names : known[n] = "absent" =>
        /\ "open" \notin Faults => dir[n] = NoFile
        /\ \A w \in Workers : ~ Touches(w, n)

KnownInv == /\ ClientsTypeOK
            /\ Rivalry /\ NoDirectory
            /\ WriteHolds /\ DeleteHolds
            /\ PresentHolds /\ AbsentHolds

\* A system call: who touches what stays the same, and a file that somebody
\* counts on is removed by none but a rival.
LEMMA CallStepKnown ==
    ASSUME KnownInv, NEW w \in Workers, CallStep(w), UNCHANGED ghosts
    PROVE  /\ Rivalry' /\ NoDirectory'
           /\ WriteHolds' /\ DeleteHolds'
           /\ PresentHolds' /\ AbsentHolds'
<1>a. FsStep(w) /\ FsTypeOK /\ NoDirectory
  BY DEF CallStep, KnownInv, ClientsTypeOK, CrudTypeOK
<1>b. UNCHANGED <<known, rivals>>
  BY DEF ghosts
<1>c. \A v \in Workers : call'[v].fn = call[v].fn /\ call'[v].name = call[v].name
  BY <1>a, FsStepFrame
<1>d. \A v \in Workers : \A n \in Names : Touches(v, n)' <=> Touches(v, n)
  BY <1>c DEF Touches
<1>e. \A v \in Workers \ {w} : call'[v] = call[v]
  BY <1>a, FsStepFrame
<1>f. \A v \in Workers : call[v].fn \in {"writeFile", "deleteFile"}
        => call[v].name \in Names
  BY <1>a DEF FsTypeOK, WellFormed, Calls
<1>g. /\ \A n \in Names : dir[n] # NoFile /\ dir'[n] = NoFile
            => call[w].fn = "deleteFile" /\ call[w].name = n
      /\ \A n \in Names : dir[n] = NoFile /\ dir'[n] # NoFile => Touches(w, n)
      /\ call'[w].at = "write" => dir'[call[w].name] # NoFile
      /\ call[w].fn = "writeFile" /\ call'[w].at = "done" /\ call'[w].ok
            => call[w].at = "write"
      /\ "open" \notin Faults /\ call[w].fn = "deleteFile" /\ call'[w].at = "done"
            => dir'[call[w].name] = NoFile
  BY <1>a, FsStepDir
<1>1. Rivalry'
  BY <1>b, <1>c, <1>d DEF Rivalry, KnownInv
<1>2. NoDirectory'
  BY <1>a, FsStepDir
<1>3. WriteHolds'
  <2> SUFFICES ASSUME NEW v \in Workers, call'[v].fn = "writeFile",
                      "deleteFile" \notin rivals'[v],
                      call'[v].at = "write" \/ (call'[v].at = "done" /\ call'[v].ok)
               PROVE  dir'[call'[v].name] # NoFile
    BY DEF WriteHolds
  <2>1. call[v].fn = "writeFile" /\ "deleteFile" \notin rivals[v]
        /\ call'[v].name = call[v].name /\ call[v].name \in Names
    BY <1>b, <1>c, <1>f
  <2>2. CASE v = w /\ call'[w].at = "write"
    BY <1>g, <2>1, <2>2
  <2>3. CASE v = w /\ call'[w].at # "write"
    <3>1. dir[call[w].name] # NoFile
      BY <1>g, <2>1, <2>3 DEF KnownInv, WriteHolds
    <3> QED
      BY <1>g, <2>1, <2>3, <3>1
  <2>4. CASE v # w
    <3>1. dir[call[v].name] # NoFile
      BY <1>e, <2>1, <2>4 DEF KnownInv, WriteHolds
    <3>2. ~ (call[w].fn = "deleteFile" /\ call[w].name = call[v].name)
      BY <2>1, <2>4 DEF KnownInv, Rivalry, Touches
    <3> QED
      BY <1>g, <2>1, <3>1, <3>2
  <2> QED
    BY <2>2, <2>3, <2>4
<1>4. DeleteHolds'
  <2> SUFFICES ASSUME NEW v \in Workers, "open" \notin Faults,
                      call'[v].fn = "deleteFile", call'[v].at = "done",
                      rivals'[v] = {}
               PROVE  dir'[call'[v].name] = NoFile
    BY DEF DeleteHolds
  <2>1. call[v].fn = "deleteFile" /\ rivals[v] = {}
        /\ call'[v].name = call[v].name /\ call[v].name \in Names
    BY <1>b, <1>c, <1>f
  <2>2. CASE v = w
    BY <1>g, <2>1, <2>2
  <2>3. CASE v # w
    <3>1. dir[call[v].name] = NoFile
      BY <1>e, <2>1, <2>3 DEF KnownInv, DeleteHolds
    <3>2. ~ Touches(w, call[v].name)
      BY <2>1, <2>3 DEF KnownInv, Rivalry, Touches
    <3> QED
      BY <1>g, <2>1, <3>1, <3>2
  <2> QED
    BY <2>2, <2>3
<1>5. PresentHolds'
  BY <1>b, <1>c, <1>d, <1>g DEF KnownInv, PresentHolds, Touches
<1>6. AbsentHolds'
  BY <1>b, <1>d, <1>g DEF KnownInv, AbsentHolds
<1> QED
  BY <1>1, <1>2, <1>3, <1>4, <1>5, <1>6

\* A request begins to touch a name: what was known of the name is given up
\* as far as the request can undo it.
LEMMA TouchKnown ==
    ASSUME KnownInv, NEW w \in Workers, NEW n \in Names,
           NEW fn \in {"writeFile", "deleteFile"}, Touch(w, n, fn),
           NEW c \in Calls, c.fn = fn, c.name = n, c.at \notin {"write", "done"},
           call' = [call EXCEPT ![w] = c],
           \A m \in Names : ~ Touches(w, m),
           UNCHANGED <<dirExists, dir>>
    PROVE  /\ Rivalry' /\ NoDirectory'
           /\ WriteHolds' /\ DeleteHolds'
           /\ PresentHolds' /\ AbsentHolds'
<1>a. /\ call \in [Workers -> Calls]
      /\ known \in [Names -> {"present", "absent", "unknown"}]
      /\ rivals \in [Workers -> SUBSET {"writeFile", "deleteFile"}]
  BY DEF KnownInv, ClientsTypeOK, CrudTypeOK, FsTypeOK
<1>b. call'[w] = c /\ \A v \in Workers \ {w} : call'[v] = call[v]
  BY <1>a
<1>c. \A v \in Workers \ {w} : \A m \in Names : Touches(v, m)' <=> Touches(v, m)
  BY <1>b DEF Touches
<1>d. \A m \in Names : Touches(w, m)' <=> m = n
  BY <1>b DEF Touches
<1>e. /\ \A v \in Workers \ {w} : rivals'[v] = IF Touches(v, n)
                                               THEN rivals[v] \cup {fn} ELSE rivals[v]
      /\ \A v \in Workers \ {w} : Touches(v, n) => call[v].fn \in rivals'[w]
  BY DEF Touch
<1>f. /\ \A m \in Names \ {n} : known'[m] = known[m]
      /\ known'[n] # "absent"
      /\ known'[n] = "present" => fn = "writeFile" /\ known[n] = "present"
  BY <1>a DEF Touch
<1>1. Rivalry'
  <2> SUFFICES ASSUME NEW u \in Workers, NEW v \in Workers, NEW m \in Names,
                      u # v, Touches(u, m)', Touches(v, m)'
               PROVE  call'[v].fn \in rivals'[u]
    BY DEF Rivalry
  <2>1. CASE u = w
    BY <1>b, <1>c, <1>d, <1>e, <2>1
  <2>2. CASE v = w
    BY <1>b, <1>c, <1>d, <1>e, <2>2
  <2>3. CASE u # w /\ v # w
    BY <1>b, <1>c, <1>e, <2>3 DEF KnownInv, Rivalry
  <2> QED
    BY <2>1, <2>2, <2>3
<1>2. NoDirectory'
  BY DEF KnownInv, NoDirectory
<1>3. WriteHolds'
  BY <1>b, <1>e DEF KnownInv, WriteHolds
<1>4. DeleteHolds'
  BY <1>b, <1>e DEF KnownInv, DeleteHolds
<1>5. PresentHolds'
  BY <1>b, <1>c, <1>d, <1>f DEF KnownInv, PresentHolds
<1>6. AbsentHolds'
  BY <1>b, <1>c, <1>d, <1>f DEF KnownInv, AbsentHolds
<1> QED
  BY <1>1, <1>2, <1>3, <1>4, <1>5, <1>6

\* A reply: what it says of the name is what its last call, and the rivals
\* that could have undone it, left behind.
LEMMA ReplyKnown ==
    ASSUME KnownInv, NEW w \in Workers, ClientsReply(w)
    PROVE  /\ Rivalry' /\ NoDirectory'
           /\ WriteHolds' /\ DeleteHolds'
           /\ PresentHolds' /\ AbsentHolds'
<1>a. /\ call \in [Workers -> Calls]
      /\ known \in [Names -> {"present", "absent", "unknown"}]
      /\ rivals \in [Workers -> SUBSET {"writeFile", "deleteFile"}]
      /\ WellFormed(call[w]) /\ Serves(call[w], req[w])
      /\ req[w] \in Requests \cup {NoRequest}
  BY DEF KnownInv, ClientsTypeOK, CrudTypeOK, FsTypeOK
<1>b. /\ call[w].at = "done"
      /\ call' = [call EXCEPT ![w] = NoCall]
      /\ rivals' = [rivals EXCEPT ![w] = {}]
      /\ UNCHANGED <<dirExists, dir>>
  BY DEF ClientsReply, Reply, Handled
<1>c. \A v \in Workers : \A m \in Names :
          Touches(v, m)' <=> v # w /\ Touches(v, m)
  BY <1>a, <1>b DEF Touches, NoCall
<1>d. call[w].fn \in {"writeFile", "deleteFile"} => call[w].name \in Names
  BY <1>a DEF WellFormed, Calls
<1>e. \A v \in Workers \ {w} : call'[v] = call[v] /\ rivals'[v] = rivals[v]
  BY <1>a, <1>b
<1>f. call'[w].fn = "none"
  BY <1>a, <1>b DEF NoCall
<1>1. Rivalry'
  BY <1>c, <1>e DEF KnownInv, Rivalry
<1>2. NoDirectory'
  BY <1>b DEF KnownInv, NoDirectory
<1>3. WriteHolds'
  BY <1>b, <1>e, <1>f DEF KnownInv, WriteHolds
<1>4. DeleteHolds'
  BY <1>b, <1>e, <1>f DEF KnownInv, DeleteHolds
<1> DEFINE n == call[w].name
           write == call[w].fn = "writeFile" /\ Status(req[w], call[w]) \in {200, 201}
<1>g. known' = IF write /\ "deleteFile" \notin rivals[w]
               THEN [known EXCEPT ![n] = "present"]
               ELSE IF call[w].fn = "deleteFile" /\ rivals[w] = {}
               THEN [known EXCEPT ![n] = "absent"]
               ELSE known
  BY DEF ClientsReply
<1>h. write => call[w].ok
  <2>1. call[w].fn = "writeFile" => req[w].method \in {"POST", "PUT"}
    BY <1>a, <1>b DEF Serves, Requests, NoRequest
  <2>2. call[w].ok \in BOOLEAN
    BY <1>a DEF Calls
  <2> QED
    BY <2>1, <2>2 DEF Status
<1> HIDE DEF write
<1>5. PresentHolds'
  <2>1. CASE write /\ "deleteFile" \notin rivals[w]
    <3>1. call[w].fn = "writeFile" /\ n \in Names /\ dir[n] # NoFile
      BY <1>b, <1>d, <1>h, <2>1 DEF KnownInv, WriteHolds, write
    <3>2. \A v \in Workers \ {w} : Touches(v, n) => call[v].fn = "writeFile"
      BY <2>1, <3>1 DEF KnownInv, Rivalry, Touches
    <3> QED
      BY <1>a, <1>b, <1>c, <1>e, <1>g, <2>1, <3>1, <3>2 DEF KnownInv, PresentHolds
  <2>2. CASE ~ (write /\ "deleteFile" \notin rivals[w])
    BY <1>a, <1>b, <1>c, <1>e, <1>g, <2>2 DEF KnownInv, PresentHolds
  <2> QED
    BY <2>1, <2>2
<1>6. AbsentHolds'
  <2>1. CASE call[w].fn = "deleteFile" /\ rivals[w] = {}
    <3>1. n \in Names /\ ("open" \notin Faults => dir[n] = NoFile)
      BY <1>b, <1>d, <2>1 DEF KnownInv, DeleteHolds
    <3>2. \A v \in Workers \ {w} : ~ Touches(v, n)
      BY <2>1, <3>1 DEF KnownInv, Rivalry, Touches
    <3>3. ~ write
      BY <2>1 DEF write
    <3> QED
      BY <1>a, <1>b, <1>c, <1>g, <2>1, <3>1, <3>2, <3>3 DEF KnownInv, AbsentHolds
  <2>2. CASE ~ (call[w].fn = "deleteFile" /\ rivals[w] = {})
    BY <1>a, <1>b, <1>c, <1>g, <2>2 DEF KnownInv, AbsentHolds
  <2> QED
    BY <2>1, <2>2
<1> QED
  BY <1>1, <1>2, <1>3, <1>4, <1>5, <1>6

\* Every step keeps the invariant.
LEMMA KnownStep ==
    ASSUME KnownInv, [ClientsNext]_vars
    PROVE  KnownInv'
<1>0. ClientsTypeOK'
  BY ClientsTypeStep DEF KnownInv
<1>a. /\ call \in [Workers -> Calls]
      /\ \A v \in Workers : WellFormed(call[v]) /\ Serves(call[v], req[v])
      /\ req \in [Workers -> Requests \cup {NoRequest}]
  BY DEF KnownInv, ClientsTypeOK, CrudTypeOK, FsTypeOK
<1> DEFINE Rest == /\ Rivalry /\ NoDirectory
                   /\ WriteHolds /\ DeleteHolds
                   /\ PresentHolds /\ AbsentHolds
<1>1. ASSUME NEW w \in Workers, ClientsReceive(w)
      PROVE  Rest'
  <2>1. PICK r \in Requests : /\ req' = [req EXCEPT ![w] = r]
                              /\ call' = [call EXCEPT ![w] = FirstCall(r)]
    BY <1>1 DEF ClientsReceive, Receive
  <2>2. /\ req'[w] = r /\ UNCHANGED <<dirExists, dir>>
        /\ FirstCall(r) \in Calls /\ Serves(FirstCall(r), r)
    BY <1>1, <1>a, <2>1, FirstCallType DEF ClientsReceive, Receive
  <2>3. \A m \in Names : ~ Touches(w, m)
    BY <1>1, <1>a DEF ClientsReceive, Receive, Serves, WellFormed, Touches
  <2>4. r.method \in {"PUT", "DELETE"} => r.name \in Names
    BY CrudAssumption DEF Requests
  <2>5. CASE r.method = "PUT"
    <3>1. Touch(w, r.name, "writeFile")
      BY <1>1, <2>2, <2>5 DEF ClientsReceive
    <3>2. /\ FirstCall(r).fn = "writeFile" /\ FirstCall(r).name = r.name
          /\ FirstCall(r).at = "mkdir"
      BY <2>5 DEF FirstCall, writeFile, NoCall
    <3> QED
      BY <2>1, <2>2, <2>3, <2>4, <2>5, <3>1, <3>2, TouchKnown
  <2>6. CASE r.method = "DELETE"
    <3>1. Touch(w, r.name, "deleteFile")
      BY <1>1, <2>2, <2>6 DEF ClientsReceive
    <3>2. /\ FirstCall(r).fn = "deleteFile" /\ FirstCall(r).name = r.name
          /\ FirstCall(r).at = "open"
      BY <2>6 DEF FirstCall, deleteFile, NoCall
    <3> QED
      BY <2>1, <2>2, <2>3, <2>4, <2>6, <3>1, <3>2, TouchKnown
  <2>7. CASE r.method \notin {"PUT", "DELETE"}
    <3>1. UNCHANGED <<known, rivals>>
      BY <1>1, <2>2, <2>7 DEF ClientsReceive, ghosts
    <3>2. FirstCall(r).fn \in {"listFiles", "readFile"}
      BY <2>2, <2>7 DEF Serves, FirstCall, Requests, listFiles, readFile, NoCall
    <3>3. /\ call'[w].fn \in {"listFiles", "readFile"}
          /\ \A v \in Workers \ {w} : call'[v] = call[v]
      BY <1>a, <2>1, <3>2
    <3>4. \A v \in Workers : \A m \in Names : Touches(v, m)' <=> Touches(v, m)
      BY <2>3, <3>3 DEF Touches
    <3>5. Rivalry'
      <4> SUFFICES ASSUME NEW u \in Workers, NEW v \in Workers, NEW m \in Names,
                          u # v, Touches(u, m)', Touches(v, m)'
                   PROVE  call'[v].fn \in rivals'[u]
        BY DEF Rivalry
      <4>1. v # w /\ u # w
        BY <2>3, <3>4
      <4> QED
        BY <3>1, <3>3, <3>4, <4>1 DEF KnownInv, Rivalry
    <3>6. NoDirectory' /\ WriteHolds' /\ DeleteHolds'
      BY <2>2, <3>1, <3>3 DEF KnownInv, NoDirectory, WriteHolds, DeleteHolds
    <3>7. PresentHolds' /\ AbsentHolds'
      BY <2>2, <2>3, <3>1, <3>3, <3>4 DEF KnownInv, PresentHolds, AbsentHolds
    <3> QED
      BY <3>5, <3>6, <3>7
  <2> QED
    BY <2>5, <2>6, <2>7
<1>2. ASSUME NEW w \in Workers, ClientsChooseId(w)
      PROVE  Rest'
  <2>1. PICK g \in Garbage :
           call' = [call EXCEPT ![w] =
                       writeFile(NextId(call[w].list, g), req[w].body)]
    BY <1>2 DEF ClientsChooseId, ChooseId
  <2> DEFINE n == NextId(call[w].list, g)
             c == writeFile(n, req[w].body)
  <2>2. c.fn = "writeFile" /\ c.name = n /\ c.at = "mkdir"
    BY DEF writeFile, NoCall
  <2>3. call'[w] = c
    BY <1>a, <2>1
  <2>4. c \in Calls
    BY <1>0, <2>3 DEF ClientsTypeOK, CrudTypeOK, FsTypeOK
  <2>5. n \in Names
    <3>1. call[w].list \in SUBSET Names
      BY <1>a DEF Calls
    <3> QED
      BY <3>1, NextIdFresh
  <2>6. \A m \in Names : ~ Touches(w, m)
    BY <1>2 DEF ClientsChooseId, ChooseId, Touches
  <2>7. Touch(w, n, "writeFile") /\ UNCHANGED <<dirExists, dir>>
    BY <1>2, <2>2, <2>3 DEF ClientsChooseId, ChooseId
  <2> HIDE DEF n, c
  <2>8. call' = [call EXCEPT ![w] = c]
    BY <2>1 DEF n, c
  <2> QED
    BY <2>2, <2>4, <2>5, <2>6, <2>7, <2>8, TouchKnown
<1>3. ASSUME NEW w \in Workers, ClientsReply(w)
      PROVE  Rest'
  BY <1>3, ReplyKnown
<1>4. ASSUME NEW w \in Workers, CallStep(w), UNCHANGED ghosts
      PROVE  Rest'
  BY <1>4, CallStepKnown
<1>5. ASSUME ClientsExit
      PROVE  Rest'
  <2>1. \A v \in Workers : call'[v].fn = "none"
    BY <1>5 DEF ClientsExit, Exit, NoCall
  <2>2. \A v \in Workers : \A m \in Names : ~ Touches(v, m)'
    BY <2>1 DEF Touches
  <2>3. UNCHANGED <<dirExists, dir, known>>
    BY <1>5 DEF ClientsExit, Exit
  <2>4. Rivalry' /\ WriteHolds' /\ DeleteHolds'
    BY <2>1, <2>2 DEF Rivalry, WriteHolds, DeleteHolds
  <2>5. NoDirectory' /\ PresentHolds' /\ AbsentHolds'
    BY <2>2, <2>3 DEF KnownInv, NoDirectory, PresentHolds, AbsentHolds
  <2> QED
    BY <2>4, <2>5
<1>6. ASSUME UNCHANGED vars
      PROVE  Rest'
  <2>1. UNCHANGED <<dirExists, dir, call, known, rivals>>
    BY <1>6 DEF vars, crudVars, fsVars, ghosts
  <2> QED
    BY <2>1 DEF KnownInv, Rivalry, NoDirectory, WriteHolds, DeleteHolds,
                PresentHolds, AbsentHolds, Touches
<1>7. ASSUME NEW w \in Workers, ClientsAbandon(w)
      PROVE  Rest'
  <2>1. /\ call'[w].fn = "none" /\ UNCHANGED <<dirExists, dir, known>>
        /\ \A v \in Workers \ {w} : call'[v] = call[v] /\ rivals'[v] = rivals[v]
    BY <1>7, <1>a DEF ClientsAbandon, Abandon, NoCall, KnownInv, ClientsTypeOK
  <2>2. \A v \in Workers : \A m \in Names : Touches(v, m)' => v # w /\ Touches(v, m)
    BY <2>1 DEF Touches
  <2>3. Rivalry'
    BY <2>1, <2>2 DEF KnownInv, Rivalry
  <2>4. WriteHolds' /\ DeleteHolds'
    BY <2>1 DEF KnownInv, WriteHolds, DeleteHolds
  <2>5. NoDirectory' /\ PresentHolds' /\ AbsentHolds'
    BY <2>1, <2>2 DEF KnownInv, NoDirectory, PresentHolds, AbsentHolds
  <2> QED
    BY <2>3, <2>4, <2>5
<1>8. Rest'
  BY <1>1, <1>2, <1>3, <1>4, <1>5, <1>6, <1>7 DEF ClientsNext
<1> QED
  BY <1>0, <1>8 DEF KnownInv

\* The invariant holds from the empty disk on.
LEMMA KnownInvariant == ClientsSpec => []KnownInv
<1>1. ClientsInit => KnownInv
  <2> SUFFICES ASSUME ClientsInit PROVE KnownInv
    OBVIOUS
  <2>1. ClientsTypeOK
    BY ClientsTypeInit
  <2>2. \A w \in Workers : call[w].fn = "none"
    BY DEF ClientsInit, CrudInit, FsInit, NoCall
  <2>3. \A w \in Workers : \A n \in Names : ~ Touches(w, n)
    BY <2>2 DEF Touches
  <2>4. \A n \in Names : dir[n] = NoFile /\ known[n] = "absent"
    BY DEF ClientsInit, CrudInit, FsInit
  <2> QED
    BY <2>1, <2>2, <2>3, <2>4 DEF KnownInv, Rivalry, NoDirectory, WriteHolds,
                                  DeleteHolds, PresentHolds, AbsentHolds
<1>2. KnownInv /\ [ClientsNext]_vars => KnownInv'
  BY KnownStep
<1> QED
  BY <1>1, <1>2, PTL DEF ClientsSpec

\* An entity whose POST or PUT was acknowledged keeps its file until a DELETE
\* of it arrives, whatever else the clients send, whichever open or write
\* fails, and however often the server is stopped and started again.
THEOREM AckedWritesSurvive == ClientsSpec => []AckedWritesExist
<1>1. KnownInv => AckedWritesExist
  BY DEF KnownInv, PresentHolds, AckedWritesExist
<1> QED
  BY <1>1, KnownInvariant, PTL

\* A DELETE that no other request met leaves no file behind, if opens do not
\* fail: crud_delete answers 200 without looking at what deleteFile returned.
THEOREM AckedDeletesLast ==
    ASSUME "open" \notin Faults
    PROVE  ClientsSpec => []AckedDeletesGone
<1>1. KnownInv => AckedDeletesGone
  BY DEF KnownInv, AbsentHolds, AckedDeletesGone
<1> QED
  BY <1>1, KnownInvariant, PTL

(***************************************************************************)
(* A POST spares what was acknowledged before it arrived.                  *)
(***************************************************************************)

\* What a POST has seen is there, is being deleted by nobody, is in the
\* listing once that is made, and is not the id chosen from it.
SeenHolds ==
    \A w \in Workers : \A n \in seen[w] :
        /\ req[w].method = "POST"
        /\ dir[n] # NoFile
        /\ \A v \in Workers : Touches(v, n) => call[v].fn = "writeFile"
        /\ call[w].fn = "listFiles" /\ call[w].at = "done" => n \in call[w].list
        /\ call[w].fn = "writeFile" => call[w].name \in {MinInt} \cup (Names \ {n})

SeenInv == KnownInv /\ SeenHolds

\* Every step keeps what a POST has seen and will list on disk.
LEMMA SeenStep ==
    ASSUME SeenInv, "open" \notin Faults, [ClientsNext]_vars
    PROVE  SeenInv'
<1>0. KnownInv /\ KnownInv' /\ SeenHolds
  BY KnownStep DEF SeenInv
<1>a. /\ call \in [Workers -> Calls]
      /\ req \in [Workers -> Requests \cup {NoRequest}]
      /\ seen \in [Workers -> SUBSET Names]
      /\ FsTypeOK /\ NoDirectory
      /\ \A v \in Workers : WellFormed(call[v]) /\ Serves(call[v], req[v])
  BY <1>0 DEF KnownInv, ClientsTypeOK, CrudTypeOK, FsTypeOK
<1>b. \A v \in Workers : req[v] = NoRequest => seen[v] = {}
  BY <1>0 DEF SeenHolds, NoRequest
<1>1. ASSUME NEW w \in Workers, ClientsReceive(w)
      PROVE  SeenHolds'
  <2>1. PICK r \in Requests : /\ req' = [req EXCEPT ![w] = r]
                              /\ call' = [call EXCEPT ![w] = FirstCall(r)]
    BY <1>1 DEF ClientsReceive, Receive
  <2>2. /\ req'[w] = r /\ UNCHANGED <<dirExists, dir>> /\ seen[w] = {}
        /\ call'[w] = FirstCall(r)
        /\ \A v \in Workers \ {w} : call'[v] = call[v] /\ req'[v] = req[v]
    BY <1>1, <1>a, <1>b, <2>1 DEF ClientsReceive, Receive
  <2>3. CASE r.method \in {"PUT", "DELETE"}
    <3> DEFINE fn == IF r.method = "PUT" THEN "writeFile" ELSE "deleteFile"
    <3>1. FirstCall(r).fn = fn /\ FirstCall(r).name = r.name
      BY <2>3 DEF FirstCall, writeFile, deleteFile, NoCall
    <3>2. Touch(w, r.name, fn)
      BY <1>1, <2>2, <2>3 DEF ClientsReceive
    <3>3. \A v \in Workers : seen'[v] = IF fn = "writeFile" THEN seen[v]
                                                           ELSE seen[v] \ {r.name}
      BY <1>a, <3>2 DEF Touch
    <3> HIDE DEF fn
    <3>4. fn \in {"writeFile", "deleteFile"}
      BY <2>3 DEF fn
    <3>5. \A v \in Workers : seen'[v] \subseteq seen[v]
      BY <3>3
    <3>6. \A v \in Workers : \A n \in seen'[v] : \A u \in Workers :
             Touches(u, n)' => call'[u].fn = "writeFile"
      <4> SUFFICES ASSUME NEW v \in Workers, NEW n \in seen'[v], NEW u \in Workers,
                          Touches(u, n)'
                   PROVE  call'[u].fn = "writeFile"
        OBVIOUS
      <4>1. CASE u = w
        BY <2>2, <3>1, <3>3, <3>4, <4>1 DEF Touches
      <4>2. CASE u # w
        BY <1>0, <2>2, <3>5, <4>2 DEF SeenHolds, Touches
      <4> QED
        BY <4>1, <4>2
    <3> QED
      BY <1>0, <2>2, <3>5, <3>6 DEF SeenHolds
  <2>4. CASE r.method = "POST"
    <3>1. seen' = [seen EXCEPT ![w] = {n \in Names : known[n] = "present"}]
      BY <1>1, <2>2, <2>4 DEF ClientsReceive
    <3>2. FirstCall(r).fn = "listFiles" /\ FirstCall(r).at = "open"
      BY <2>4 DEF FirstCall, listFiles, NoCall
    <3>3. \A n \in seen'[w] : dir[n] # NoFile
            /\ \A v \in Workers : Touches(v, n) => call[v].fn = "writeFile"
      BY <1>0, <1>a, <3>1 DEF KnownInv, PresentHolds
    <3>4. \A v \in Workers \ {w} : seen'[v] = seen[v]
      BY <1>a, <3>1
    <3> QED
      BY <1>0, <2>2, <2>4, <3>2, <3>3, <3>4 DEF SeenHolds, Touches
  <2>5. CASE r.method \notin {"PUT", "DELETE", "POST"}
    <3>1. seen' = seen
      BY <1>1, <2>2, <2>5 DEF ClientsReceive, ghosts
    <3>2. FirstCall(r).fn \in {"listFiles", "readFile"}
      BY <2>5 DEF FirstCall, Requests, listFiles, readFile, NoCall
    <3> QED
      BY <1>0, <2>2, <3>1, <3>2 DEF SeenHolds, Touches
  <2> QED
    BY <2>3, <2>4, <2>5
<1>2. ASSUME NEW w \in Workers, ClientsChooseId(w)
      PROVE  SeenHolds'
  <2>1. PICK g \in Garbage :
           call' = [call EXCEPT ![w] =
                       writeFile(NextId(call[w].list, g), req[w].body)]
    BY <1>2 DEF ClientsChooseId, ChooseId
  <2> DEFINE id == NextId(call[w].list, g)
  <2>2. call[w].list \in SUBSET Names
    BY <1>a DEF Calls
  <2>3. id \in Names /\ (id # MinInt => \A n \in call[w].list : id > n)
    BY <2>2, NextIdFresh
  <2>4. \A n \in seen[w] : n \in call[w].list
    BY <1>0, <1>2 DEF SeenHolds, ClientsChooseId, ChooseId
  <2>5. \A n \in Names : n \in Int
    BY CrudAssumption DEF MinInt
  <2> HIDE DEF id
  <2>6. \A n \in seen[w] : id \in {MinInt} \cup (Names \ {n})
    BY <2>2, <2>3, <2>4, <2>5
  <2>7. /\ call'[w].fn = "writeFile" /\ call'[w].name = id
        /\ \A v \in Workers \ {w} : call'[v] = call[v]
    BY <1>a, <2>1 DEF id, writeFile, NoCall
  <2>8. Touch(w, id, "writeFile") /\ UNCHANGED <<dir, req>>
    BY <1>2, <2>7 DEF ClientsChooseId, ChooseId
  <2>9. seen' = seen
    BY <2>8 DEF Touch
  <2> QED
    BY <1>0, <2>6, <2>7, <2>8, <2>9 DEF SeenHolds, Touches
<1>3. ASSUME NEW w \in Workers, ClientsReply(w)
      PROVE  SeenHolds'
  <2>1. /\ call'[w].fn = "none" /\ seen'[w] = {} /\ UNCHANGED dir
        /\ \A v \in Workers \ {w} :
             call'[v] = call[v] /\ req'[v] = req[v] /\ seen'[v] = seen[v]
    BY <1>3, <1>a DEF ClientsReply, Reply, NoCall
  <2> QED
    BY <1>0, <2>1 DEF SeenHolds, Touches
<1>4. ASSUME NEW w \in Workers, CallStep(w), UNCHANGED ghosts
      PROVE  SeenHolds'
  <2>1. FsStep(w) /\ req' = req /\ seen' = seen
    BY <1>4 DEF CallStep, ghosts
  <2>2. /\ \A v \in Workers \ {w} : call'[v] = call[v]
        /\ call'[w].fn = call[w].fn /\ call'[w].name = call[w].name
    BY <1>a, <2>1, FsStepFrame
  <2>3. \A n \in Names : dir[n] # NoFile /\ dir'[n] = NoFile
            => call[w].fn = "deleteFile" /\ call[w].name = n
    BY <1>a, <2>1, FsStepDir
  <2>4. call[w].fn = "listFiles" => \A n \in Names : dir[n] # NoFile => n \in call'[w].list
    BY <1>a, <2>1, FsStepList
  <2> SUFFICES ASSUME NEW v \in Workers, NEW n \in seen[v]
               PROVE  /\ req[v].method = "POST"
                      /\ dir'[n] # NoFile
                      /\ \A u \in Workers : Touches(u, n)' => call'[u].fn = "writeFile"
                      /\ call'[v].fn = "listFiles" /\ call'[v].at = "done"
                           => n \in call'[v].list
                      /\ call'[v].fn = "writeFile"
                           => call'[v].name \in {MinInt} \cup (Names \ {n})
    BY <2>1 DEF SeenHolds
  <2>5. /\ n \in Names /\ dir[n] # NoFile /\ req[v].method = "POST"
        /\ \A u \in Workers : Touches(u, n) => call[u].fn = "writeFile"
        /\ call[v].fn = "listFiles" /\ call[v].at = "done" => n \in call[v].list
        /\ call[v].fn = "writeFile" => call[v].name \in {MinInt} \cup (Names \ {n})
    BY <1>0, <1>a DEF SeenHolds
  <2>6. \A u \in Workers : Touches(u, n)' => call'[u].fn = "writeFile"
    BY <2>2, <2>5 DEF Touches
  <2>7. dir'[n] # NoFile
    BY <2>3, <2>5 DEF Touches
  <2> QED
    BY <2>2, <2>4, <2>5, <2>6, <2>7
<1>5. ASSUME ClientsExit
      PROVE  SeenHolds'
  BY <1>5 DEF ClientsExit, SeenHolds
<1>6. ASSUME UNCHANGED vars
      PROVE  SeenHolds'
  BY <1>0, <1>6 DEF vars, crudVars, fsVars, ghosts, SeenHolds, Touches
<1>7. ASSUME NEW w \in Workers, ClientsAbandon(w)
      PROVE  SeenHolds'
  <2>1. /\ call'[w].fn = "none" /\ seen'[w] = {} /\ UNCHANGED dir
        /\ \A v \in Workers \ {w} :
             call'[v] = call[v] /\ req'[v] = req[v] /\ seen'[v] = seen[v]
    BY <1>7, <1>a DEF ClientsAbandon, Abandon, NoCall
  <2> QED
    BY <1>0, <2>1 DEF SeenHolds, Touches
<1>8. SeenHolds'
  BY <1>1, <1>2, <1>3, <1>4, <1>5, <1>6, <1>7 DEF ClientsNext
<1> QED
  BY <1>0, <1>8 DEF SeenInv

\* A POST never takes over an acknowledged entity, however its listing and
\* its write interleave with other requests and whatever entry_as_int held,
\* as long as the ids have not wrapped around and opens do not fail.
THEOREM PostSparesAcked ==
    ASSUME "open" \notin Faults
    PROVE  ClientsSpec => []CreateSparesAcked
<1>1. ClientsInit /\ KnownInv => SeenInv
  BY DEF ClientsInit, SeenInv, SeenHolds
<1>2. SeenInv /\ [ClientsNext]_vars => SeenInv'
  BY SeenStep
<1>3. SeenInv => CreateSparesAcked
  BY DEF SeenInv, SeenHolds, CreateSparesAcked
<1> QED
  BY <1>1, <1>2, <1>3, KnownInvariant, PTL DEF ClientsSpec

(***************************************************************************)
(* The content of an acknowledged entity.  Files must not be shared: by    *)
(* two names, or by a name and a request that opened it for another.       *)
(***************************************************************************)

\* A write without a rival finds the file as it truncated it, and leaves in
\* it what it was given.
WriteContent ==
    \A w \in Workers : call[w].fn = "writeFile" /\ rivals[w] = {} =>
        /\ call[w].at = "write" => /\ dir[call[w].name] = call[w].ino
                                   /\ disk[call[w].ino] = <<>>
        /\ call[w].at = "done" /\ call[w].ok
             => /\ dir[call[w].name] # NoFile
                /\ disk[dir[call[w].name]] = call[w].data

\* An acknowledged content is on disk, and nobody is about to change it.
AckedHolds ==
    \A n \in Names : acked[n] # {} =>
        /\ dir[n] # NoFile
        /\ \A b \in acked[n] : disk[dir[n]] = b
        /\ \A w \in Workers : ~ Touches(w, n)

ContentInv == KnownInv /\ Linked /\ OwnFile /\ WriteContent /\ AckedHolds

\* A request begins to touch a name: no content of it is acknowledged any
\* more, and every write to it has a rival.
LEMMA TouchContent ==
    ASSUME ContentInv, NEW w \in Workers, NEW n \in Names,
           NEW fn \in {"writeFile", "deleteFile"}, Touch(w, n, fn),
           NEW c \in Calls, c.fn = fn, c.name = n,
           c.at \notin {"write", "remove", "done"},
           call' = [call EXCEPT ![w] = c], UNCHANGED <<dir, disk>>
    PROVE  Linked' /\ OwnFile' /\ WriteContent' /\ AckedHolds'
<1>a. /\ call \in [Workers -> Calls] /\ acked \in [Names -> SUBSET Bodies]
      /\ rivals \in [Workers -> SUBSET {"writeFile", "deleteFile"}]
  BY DEF ContentInv, KnownInv, ClientsTypeOK, CrudTypeOK, FsTypeOK
<1>b. call'[w] = c /\ \A v \in Workers \ {w} : call'[v] = call[v]
  BY <1>a
<1>c. \A v \in Workers \ {w} : rivals'[v] = {} => rivals[v] = {}
  BY DEF Touch
<1>d. acked'[n] = {} /\ \A m \in Names \ {n} : acked'[m] = acked[m]
  BY <1>a DEF Touch
<1>e. \A v \in Workers : \A m \in Names \ {n} : Touches(v, m)' => Touches(v, m)
  BY <1>b DEF Touches
<1>1. Linked' /\ OwnFile'
  BY <1>b DEF ContentInv, Linked, OwnFile
<1>2. WriteContent'
  BY <1>b, <1>c DEF ContentInv, WriteContent
<1>3. AckedHolds'
  BY <1>d, <1>e DEF ContentInv, AckedHolds
<1> QED
  BY <1>1, <1>2, <1>3

\* Every step keeps the invariant about contents.
LEMMA ContentStep ==
    ASSUME ContentInv, "write" \notin Faults, [ClientsNext]_vars
    PROVE  ContentInv'
<1>0. KnownInv /\ KnownInv' /\ Linked /\ OwnFile /\ WriteContent /\ AckedHolds
  BY KnownStep DEF ContentInv
<1>a. /\ call \in [Workers -> Calls] /\ acked \in [Names -> SUBSET Bodies]
      /\ req \in [Workers -> Requests \cup {NoRequest}]
      /\ disk \in [Inodes -> Data]
      /\ dir \in [Names -> Inodes \cup {NoFile}]
      /\ FsTypeOK /\ NoDirectory
      /\ \A v \in Workers : WellFormed(call[v]) /\ Serves(call[v], req[v])
  BY <1>0 DEF KnownInv, ClientsTypeOK, CrudTypeOK, FsTypeOK
<1>b. \A v \in Workers : call[v].fn \in {"writeFile", "deleteFile"}
        => call[v].name \in Names
  BY <1>a DEF WellFormed, Calls
<1> DEFINE Rest == Linked /\ OwnFile /\ WriteContent /\ AckedHolds
<1>1. ASSUME NEW w \in Workers, ClientsReceive(w)
      PROVE  Rest'
  <2>1. PICK r \in Requests : /\ req' = [req EXCEPT ![w] = r]
                              /\ call' = [call EXCEPT ![w] = FirstCall(r)]
    BY <1>1 DEF ClientsReceive, Receive
  <2>2. /\ req'[w] = r /\ UNCHANGED <<dir, disk>> /\ FirstCall(r) \in Calls
        /\ call'[w] = FirstCall(r) /\ \A v \in Workers \ {w} : call'[v] = call[v]
    BY <1>1, <1>a, <2>1, FirstCallType DEF ClientsReceive, Receive
  <2>3. CASE r.method \in {"PUT", "DELETE"}
    <3> DEFINE fn == IF r.method = "PUT" THEN "writeFile" ELSE "deleteFile"
    <3>1. /\ FirstCall(r).fn = fn /\ FirstCall(r).name = r.name
          /\ FirstCall(r).at \notin {"write", "remove", "done"}
      BY <2>3 DEF FirstCall, writeFile, deleteFile, NoCall
    <3>2. Touch(w, r.name, fn)
      BY <1>1, <2>2, <2>3 DEF ClientsReceive
    <3>3. r.name \in Names
      BY <2>3, CrudAssumption DEF Requests
    <3>4. fn \in {"writeFile", "deleteFile"}
      OBVIOUS
    <3> HIDE DEF fn
    <3> QED
      BY <2>1, <2>2, <3>1, <3>2, <3>3, <3>4, TouchContent
  <2>4. CASE r.method \notin {"PUT", "DELETE"}
    <3>1. UNCHANGED <<acked, rivals>>
      BY <1>1, <2>2, <2>4 DEF ClientsReceive, ghosts
    <3>2. FirstCall(r).fn \in {"listFiles", "readFile"} /\ FirstCall(r).at = "open"
      BY <2>4 DEF FirstCall, Requests, listFiles, readFile, NoCall
    <3> QED
      BY <1>0, <2>2, <3>1, <3>2
      DEF Linked, OwnFile, WriteContent, AckedHolds, Touches
  <2> QED
    BY <2>3, <2>4
<1>2. ASSUME NEW w \in Workers, ClientsChooseId(w)
      PROVE  Rest'
  <2>1. PICK g \in Garbage :
           call' = [call EXCEPT ![w] =
                       writeFile(NextId(call[w].list, g), req[w].body)]
    BY <1>2 DEF ClientsChooseId, ChooseId
  <2> DEFINE c == writeFile(NextId(call[w].list, g), req[w].body)
  <2>2. c.fn = "writeFile" /\ c.at = "mkdir"
    BY DEF writeFile, NoCall
  <2> HIDE DEF c
  <2>3. call' = [call EXCEPT ![w] = c] /\ call'[w] = c
    BY <1>a, <2>1 DEF c
  <2>4. c \in Calls /\ WellFormed(c)
    BY <1>0, <2>3 DEF KnownInv, ClientsTypeOK, CrudTypeOK, FsTypeOK
  <2>5. c.name \in Names
    BY <2>2, <2>4 DEF WellFormed, Calls
  <2>6. Touch(w, c.name, "writeFile") /\ UNCHANGED <<dir, disk>>
    BY <1>2, <2>3 DEF ClientsChooseId, ChooseId
  <2> QED
    BY <2>2, <2>3, <2>4, <2>5, <2>6, TouchContent
<1>3. ASSUME NEW w \in Workers, ClientsReply(w)
      PROVE  Rest'
  <2>1. /\ call[w].at = "done" /\ call'[w].fn = "none" /\ call'[w].at = "idle"
        /\ UNCHANGED <<dir, disk>>
        /\ \A v \in Workers \ {w} : call'[v] = call[v] /\ rivals'[v] = rivals[v]
    BY <1>3, <1>a DEF ClientsReply, Reply, Handled, NoCall
  <2>2. \A v \in Workers : \A m \in Names : Touches(v, m)' => v # w /\ Touches(v, m)
    BY <2>1 DEF Touches
  <2>3. Linked' /\ OwnFile' /\ WriteContent'
    BY <1>0, <2>1 DEF Linked, OwnFile, WriteContent
  <2> DEFINE n == call[w].name
             sure == /\ call[w].fn = "writeFile" /\ Status(req[w], call[w]) \in {200, 201}
                     /\ rivals[w] = {}
  <2>4. acked' = IF sure THEN [acked EXCEPT ![n] = {req[w].body}] ELSE acked
    BY <1>3 DEF ClientsReply
  <2>5. AckedHolds'
    <3>1. CASE sure
      <4>1. call[w].ok
        <5>1. req[w].method \in {"POST", "PUT"}
          BY <1>a, <2>1, <3>1 DEF Serves, Requests, NoRequest
        <5>2. call[w].ok \in BOOLEAN
          BY <1>a DEF Calls
        <5> QED
          BY <3>1, <5>1, <5>2 DEF Status
      <4>2. n \in Names /\ dir[n] # NoFile /\ disk[dir[n]] = req[w].body
        BY <1>0, <1>a, <1>b, <2>1, <3>1, <4>1 DEF WriteContent, Serves
      <4>3. \A v \in Workers \ {w} : ~ Touches(v, n)
        BY <1>0, <3>1, <4>2 DEF KnownInv, Rivalry, Touches
      <4> HIDE DEF n, sure
      <4>4. acked'[n] = {req[w].body} /\ \A m \in Names \ {n} : acked'[m] = acked[m]
        BY <1>a, <2>4, <3>1, <4>2
      <4> QED
        BY <1>0, <2>1, <2>2, <4>2, <4>3, <4>4 DEF AckedHolds
    <3>2. CASE ~ sure
      BY <1>0, <2>1, <2>2, <2>4, <3>2 DEF AckedHolds
    <3> QED
      BY <3>1, <3>2
  <2> QED
    BY <2>3, <2>5
<1>4. ASSUME NEW w \in Workers, CallStep(w), UNCHANGED ghosts
      PROVE  Rest'
  <2>1. FsStep(w) /\ UNCHANGED <<acked, rivals>>
    BY <1>4 DEF CallStep, ghosts
  <2>2. /\ \A v \in Workers \ {w} : call'[v] = call[v]
        /\ \A v \in Workers : /\ call'[v].fn = call[v].fn /\ call'[v].name = call[v].name
                              /\ call'[v].data = call[v].data
    BY <1>a, <2>1, FsStepFrame
  <2>3. \A v \in Workers : \A m \in Names : Touches(v, m)' <=> Touches(v, m)
    BY <2>2 DEF Touches
  <2>4. /\ Linked' /\ OwnFile'
        /\ \A n \in Names : dir[n] # NoFile /\ ~ Touches(w, n)
             => dir'[n] = dir[n] /\ disk'[dir[n]] = disk[dir[n]]
        /\ call[w].fn = "writeFile" /\ call'[w].at = "write"
             => dir'[call[w].name] = call'[w].ino /\ disk'[call'[w].ino] = <<>>
        /\ call[w].fn = "writeFile" /\ call'[w].at = "done" /\ call'[w].ok
             => /\ call[w].at = "write" /\ dir' = dir
                /\ disk'[call[w].ino] = Overlay(disk[call[w].ino], call[w].data)
    BY <1>0, <1>a, <2>1, FsStepDisk
  <2>5. WriteContent'
    <3> SUFFICES ASSUME NEW v \in Workers, call'[v].fn = "writeFile", rivals'[v] = {}
                 PROVE  /\ call'[v].at = "write" => /\ dir'[call'[v].name] = call'[v].ino
                                                    /\ disk'[call'[v].ino] = <<>>
                        /\ call'[v].at = "done" /\ call'[v].ok
                             => /\ dir'[call'[v].name] # NoFile
                                /\ disk'[dir'[call'[v].name]] = call'[v].data
      BY DEF WriteContent
    <3>1. /\ call[v].fn = "writeFile" /\ rivals[v] = {}
          /\ call[v].name \in Names /\ call[v].data \in Data
      BY <1>a, <1>b, <2>1, <2>2 DEF Calls
    <3>2. CASE v = w /\ call'[w].at = "done" /\ call'[w].ok
      <4>1. /\ dir[call[w].name] = call[w].ino /\ disk[call[w].ino] = <<>>
            /\ call[w].ino # NoFile
        BY <1>0, <1>a, <2>4, <3>1, <3>2 DEF WriteContent, WellFormed
      <4>2. disk'[call[w].ino] = call[w].data
        BY <2>4, <3>1, <3>2, <4>1, OverlayEmpty
      <4> QED
        BY <2>2, <2>4, <3>1, <3>2, <4>1, <4>2
    <3>3. CASE v = w /\ ~ (call'[w].at = "done" /\ call'[w].ok)
      BY <2>2, <2>4, <3>1, <3>3
    <3>4. CASE v # w
      <4>1. ~ Touches(w, call[v].name)
        BY <1>0, <3>1, <3>4 DEF KnownInv, Rivalry, Touches
      <4>2. call[v].at = "write" => call[v].ino # NoFile
        BY <1>a DEF WellFormed
      <4> QED
        BY <1>0, <2>2, <2>4, <3>1, <3>4, <4>1, <4>2 DEF WriteContent
    <3> QED
      BY <3>2, <3>3, <3>4
  <2>6. AckedHolds'
    BY <1>0, <2>1, <2>3, <2>4 DEF AckedHolds
  <2> QED
    BY <2>4, <2>5, <2>6
<1>5. ASSUME ClientsExit
      PROVE  Rest'
  <2>1. \A v \in Workers : call'[v].fn = "none" /\ call'[v].at = "idle"
    BY <1>5 DEF ClientsExit, Exit, NoCall
  <2>2. UNCHANGED <<dir, disk, acked>>
    BY <1>5 DEF ClientsExit, Exit
  <2> QED
    BY <1>0, <2>1, <2>2 DEF Linked, OwnFile, WriteContent, AckedHolds, Touches
<1>6. ASSUME UNCHANGED vars
      PROVE  Rest'
  <2>1. UNCHANGED <<dir, disk, call, acked, rivals>>
    BY <1>6 DEF vars, crudVars, fsVars, ghosts
  <2> QED
    BY <1>0, <2>1 DEF Linked, OwnFile, WriteContent, AckedHolds, Touches
<1>7. ASSUME NEW w \in Workers, ClientsAbandon(w)
      PROVE  Rest'
  <2>1. /\ call'[w].fn = "none" /\ call'[w].at = "idle"
        /\ UNCHANGED <<dir, disk, acked>>
        /\ \A v \in Workers \ {w} : call'[v] = call[v] /\ rivals'[v] = rivals[v]
    BY <1>7, <1>a DEF ClientsAbandon, Abandon, NoCall, KnownInv, ClientsTypeOK
  <2>2. \A v \in Workers : \A m \in Names : Touches(v, m)' => v # w /\ Touches(v, m)
    BY <2>1 DEF Touches
  <2>3. Linked' /\ OwnFile' /\ WriteContent'
    BY <1>0, <2>1 DEF Linked, OwnFile, WriteContent
  <2>4. AckedHolds'
    BY <1>0, <2>1, <2>2 DEF AckedHolds
  <2> QED
    BY <2>3, <2>4
<1>8. Rest'
  BY <1>1, <1>2, <1>3, <1>4, <1>5, <1>6, <1>7 DEF ClientsNext
<1> QED
  BY <1>0, <1>8 DEF ContentInv

\* A POST or PUT that was acknowledged and had no rival left its body on disk,
\* unaltered until the next request on the name arrives, across exits of the
\* server and failing opens, if the disk takes what is written to it.
THEOREM AckedContentSurvives ==
    ASSUME "write" \notin Faults
    PROVE  ClientsSpec => []AckedContent
<1>1. ClientsInit /\ KnownInv => ContentInv
  <2> SUFFICES ASSUME ClientsInit, KnownInv PROVE ContentInv
    OBVIOUS
  <2>1. \A w \in Workers : call[w].fn = "none" /\ call[w].at = "idle"
    BY DEF ClientsInit, CrudInit, FsInit, NoCall
  <2>2. \A n \in Names : dir[n] = NoFile /\ acked[n] = {}
    BY DEF ClientsInit, CrudInit, FsInit
  <2> QED
    BY <2>1, <2>2 DEF ContentInv, Linked, OwnFile, WriteContent, AckedHolds
<1>2. ContentInv /\ [ClientsNext]_vars => ContentInv'
  BY ContentStep
<1>3. ContentInv => AckedContent
  BY DEF ContentInv, AckedHolds, AckedContent
<1> QED
  BY <1>1, <1>2, <1>3, KnownInvariant, PTL DEF ClientsSpec
=============================================================================
