---------------------------- MODULE EntityStore ----------------------------
(***************************************************************************)
(* What the CRUD API promises of one entity, with no files, directories or *)
(* system calls in it: a map from names to contents, on which every        *)
(* request takes effect in one step between its arrival and its reply.     *)
(* The one thing that is not atomic is the end of the process: a request   *)
(* that had begun to change a name leaves that name done, or empty.  A PUT *)
(* or a POST may also be dropped, with no reply, before it takes effect.   *)
(***************************************************************************)
EXTENDS Integers, Sequences

CONSTANTS Workers, Names, NoName, Data, Requests, NoRequest, NL,
          Overflow,     \* the id a POST gets when the ids are used up
          Absent

VARIABLES
    store,      \* name -> its content, or Absent
    req,        \* worker -> the request it handles
    result      \* worker -> {the reply due to it}, {} before it took effect

vars == <<store, req, result>>

Entities == {n \in Names : store[n] # Absent}

\* A text as it is read back: its last line ended.
Ended(d) == IF d = <<>> \/ d[Len(d)] = NL THEN d ELSE Append(d, NL)

Answer(code, id, body, list) ==
    [code |-> code, id |-> id, body |-> body, list |-> list]

Init ==
    /\ store = [n \in Names |-> Absent]
    /\ req = [w \in Workers |-> NoRequest]
    /\ result = [w \in Workers |-> {}]

Receive(w) ==
    /\ req[w] = NoRequest
    /\ \E r \in Requests : req' = [req EXCEPT ![w] = r]
    /\ UNCHANGED <<store, result>>

Due(w, method) == req[w].method = method /\ result[w] = {}

Put(w) ==
    /\ Due(w, "PUT")
    /\ store' = [store EXCEPT ![req[w].name] = req[w].body]
    /\ result' = [result EXCEPT ![w] = {Answer(200, NoName, <<>>, {})}]
    /\ UNCHANGED req

\* A POST takes an id that no entity has, until the ids are used up.
Post(w) ==
    /\ Due(w, "POST")
    /\ \E id \in Names :
         /\ id = Overflow \/ (id > 0 /\ store[id] = Absent)
         /\ store' = [store EXCEPT ![id] = req[w].body]
         /\ result' = [result EXCEPT ![w] = {Answer(201, id, <<>>, {})}]
    /\ UNCHANGED req

Delete(w) ==
    /\ Due(w, "DELETE")
    /\ store' = [store EXCEPT ![req[w].name] = Absent]
    /\ result' = [result EXCEPT ![w] = {Answer(200, NoName, <<>>, {})}]
    /\ UNCHANGED req

Get(w) ==
    /\ Due(w, "GET")
    /\ LET d == store[req[w].name]
       IN  result' = [result EXCEPT ![w] =
               {IF d = Absent THEN Answer(404, NoName, <<>>, {})
                              ELSE Answer(200, NoName, Ended(d), {})}]
    /\ UNCHANGED <<store, req>>

List(w) ==
    /\ Due(w, "LIST")
    /\ result' = [result EXCEPT ![w] = {Answer(200, NoName, <<>>, Entities)}]
    /\ UNCHANGED <<store, req>>

Reply(w) ==
    /\ result[w] # {}
    /\ req' = [req EXCEPT ![w] = NoRequest]
    /\ result' = [result EXCEPT ![w] = {}]
    /\ UNCHANGED store

Abandon(w) ==
    /\ Due(w, "PUT") \/ Due(w, "POST")
    /\ req' = [req EXCEPT ![w] = NoRequest]
    /\ UNCHANGED <<store, result>>

\* The names that requests under way have begun to change.
Changing ==
    {n \in Names : \E w \in Workers : \E r \in result[w] :
        \/ req[w].method \in {"PUT", "DELETE"} /\ req[w].name = n
        \/ req[w].method = "POST" /\ r.id = n}

Exit ==
    /\ \E cut \in SUBSET Changing :
         store' = [n \in Names |-> IF n \in cut THEN <<>> ELSE store[n]]
    /\ req' = [w \in Workers |-> NoRequest]
    /\ result' = [w \in Workers |-> {}]

Next ==
    \/ \E w \in Workers :
         \/ Receive(w) \/ Reply(w) \/ Abandon(w)
         \/ Put(w) \/ Post(w) \/ Delete(w) \/ Get(w) \/ List(w)
    \/ Exit

Spec == Init /\ [][Next]_vars
=============================================================================
