---------------------------- MODULE CrudDeletes ----------------------------
(***************************************************************************)
(* The last check of tests/integration_test.py: after a DELETE answered    *)
(* with 200 the entity can no longer be retrieved.                         *)
(***************************************************************************)
EXTENDS CrudClients

VARIABLE purged     \* names deleted, with no write since the DELETE arrived

DeletesInit == ClientsInit /\ purged = {}

\* A write takes its name out of purged when it begins; a DELETE that had no
\* write for a rival puts it in with its reply.
DeletesNext ==
    /\ ClientsNext
    /\ LET writing == {n \in Names : \E w \in Workers :
                          /\ call'[w].fn = "writeFile" /\ call'[w].name = n
                          /\ ~ (call[w].fn = "writeFile" /\ call[w].name = n)}
           deleted == {n \in Names : \E w \in Workers :
                          /\ req[w].method = "DELETE" /\ req[w].name = n
                          /\ call[w].at = "done" /\ call[w].ok
                          /\ ClientsReply(w) /\ "writeFile" \notin rivals[w]}
       IN  purged' = (purged \cup deleted) \ writing

DeletesSpec == DeletesInit /\ [][DeletesNext]_<<vars, purged>>

-----------------------------------------------------------------------------
\* A name whose DELETE succeeded, and that nobody has written to since, has no
\* file: readFile would find none.
DeletedNotRetrievable == \A n \in purged : dir[n] = NoFile
=============================================================================
