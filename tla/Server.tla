------------------------------- MODULE Server -------------------------------
(***************************************************************************)
(* The server and its sessions (src/server.cc, src/session.cc) on the      *)
(* io_service: one asynchronous accept at a time, one asynchronous read    *)
(* per connection, and a pool of threads that run the handlers of what has *)
(* completed.  A session stays when it has written its reply: nothing      *)
(* reads from it again, closes it or deletes it, and its socket keeps its  *)
(* descriptor.  A session reads the config file when it is made, which is  *)
(* before a connection is accepted into it.                                *)
(***************************************************************************)
EXTENDS Integers, Sequences, FiniteSets

CONSTANTS
    Clients,        \* one connection each
    Sleepers,       \* clients that ask for the sleep handler
    Sessions,       \* session objects; deleted ones are allocated again
    Threads,        \* thread_pool_size_
    MaxDescriptors, \* that sockets and files may have between them
    NoClient, NoSession

ASSUME ServerAssumption ==
    /\ Sleepers \subseteq Clients
    /\ NoClient \notin Clients
    /\ NoSession \notin Sessions
    /\ MaxDescriptors \in Nat \ {0}

VARIABLES
    process,    \* "up" or "crashed"
    backlog,    \* connections the kernel has made and nobody has accepted
    client,     \* client -> its end of the connection
    session,    \* session -> its state
    queue,      \* sessions whose handler the io_service has yet to run
    thread      \* thread -> the handler it runs

vars == <<process, backlog, client, session, queue, thread>>

\* What clients ask for: a target some handler serves, the sleep handler, one
\* whose handler throws, or something that is no request at all.
Asks(c) == IF c \in Sleepers THEN {"sleep"} ELSE {"good", "throws", "bad"}

\* "both": the request arrived in two segments.
ClientStates == [conn: {"away", "open", "closed"},
                 asked: {"none", "good", "throws", "bad", "sleep"},
                 sent: {"none", "part", "whole", "both"},
                 reply: {"none", "served", "badrequest"}]

\* An operation of a session is outstanding (accepting, reading), or it has
\* completed and its handler is queued or runs.
Completed == {"accepted", "refused", "received", "failed"}

SessionStates == [live: BOOLEAN,
                  status: Completed \cup {"none", "accepting", "reading"},
                  client: Clients \cup {NoClient},
                  data: {"none", "part", "whole"}, routes: BOOLEAN]

NoState == [live |-> FALSE, status |-> "none", client |-> NoClient,
            data |-> "none", routes |-> FALSE]

ThreadStates == [at: {"idle", "handle_accept", "start_accept", "handle_read",
                      "serve", "write"},
                 session: Sessions \cup {NoSession}, file: BOOLEAN,
                 reply: {"none", "served", "badrequest"}]

Idle == [at |-> "idle", session |-> NoSession, file |-> FALSE, reply |-> "none"]

\* Every connected socket and every file a handler has open.
Descriptors == Cardinality({s \in Sessions : session[s].client # NoClient})
               + Cardinality({t \in Threads : thread[t].file})
Scarce == Descriptors >= MaxDescriptors

\* The constructor of a session: its Dispatcher reads the config file, and
\* finds no location in it when the file does not open.
NewSession(routes) ==
    [NoState EXCEPT !.live = TRUE, !.status = "accepting", !.routes = routes]

ServerInit ==
    /\ process = "up"
    /\ backlog = {}
    /\ client = [c \in Clients |-> [conn |-> "away", asked |-> "none",
                                    sent |-> "none", reply |-> "none"]]
    /\ \E s \in Sessions :
         session = [r \in Sessions |->
                       IF r = s THEN NewSession(TRUE) ELSE NoState]
    /\ queue = <<>>
    /\ thread = [t \in Threads |-> Idle]

-----------------------------------------------------------------------------
(* The clients. *)

Connect(c) ==
    /\ process = "up"
    /\ client[c].conn = "away"
    /\ client' = [client EXCEPT ![c].conn = "open"]
    /\ backlog' = backlog \cup {c}
    /\ UNCHANGED <<process, session, queue, thread>>

Send(c) ==
    /\ client[c].conn = "open"
    /\ client[c].sent = "none"
    /\ \E a \in Asks(c), n \in {"part", "whole"} :
         client' = [client EXCEPT ![c].asked = a, ![c].sent = n]
    /\ UNCHANGED <<process, backlog, session, queue, thread>>

SendRest(c) ==
    /\ client[c].conn = "open"
    /\ client[c].sent = "part"
    /\ client' = [client EXCEPT ![c].sent = "both"]
    /\ UNCHANGED <<process, backlog, session, queue, thread>>

Close(c) ==
    /\ client[c].conn = "open"
    /\ client' = [client EXCEPT ![c].conn = "closed"]
    /\ UNCHANGED <<process, backlog, session, queue, thread>>

-----------------------------------------------------------------------------
(* The kernel completes operations; their handlers are queued. *)

\* s's outstanding operation completes, with what the session then is.
Complete(s, state) == /\ session' = [session EXCEPT ![s] = state]
                      /\ queue' = Append(queue, s)

AcceptCompletes(s) ==
    /\ session[s].status = "accepting"
    /\ ~Scarce
    /\ \E c \in backlog :
         /\ backlog' = backlog \ {c}
         /\ Complete(s, [session[s] EXCEPT !.status = "accepted", !.client = c])
    /\ UNCHANGED <<process, client, thread>>

AcceptFails(s) ==
    /\ session[s].status = "accepting"
    /\ Scarce
    /\ Complete(s, [session[s] EXCEPT !.status = "refused"])
    /\ UNCHANGED <<process, backlog, client, thread>>

\* One read takes what has arrived.
ReadCompletes(s) ==
    /\ session[s].status = "reading"
    /\ LET sent == client[session[s].client].sent
       IN  /\ sent # "none"
           /\ Complete(s, [session[s] EXCEPT
                              !.status = "received",
                              !.data = IF sent = "part" THEN "part" ELSE "whole"])
    /\ UNCHANGED <<process, backlog, client, thread>>

ReadFails(s) ==
    /\ session[s].status = "reading"
    /\ client[session[s].client].conn = "closed"
    /\ Complete(s, [session[s] EXCEPT !.status = "failed"])
    /\ UNCHANGED <<process, backlog, client, thread>>

-----------------------------------------------------------------------------
(* The threads. *)

\* Mutant: one handler at a time.
TakeAlone(t) ==
    /\ \A u \in Threads : thread[u].at = "idle"
    /\ queue # <<>>
    /\ LET s == Head(queue)
       IN  thread' = [thread EXCEPT
                ![t].at = IF session[s].status \in {"accepted", "refused"}
                          THEN "handle_accept" ELSE "handle_read",
                ![t].session = s]
    /\ queue' = Tail(queue)
    /\ UNCHANGED <<process, backlog, client, session>>

\* An idle thread of io_service::run takes the next handler.
Take(t) ==
    /\ thread[t].at = "idle"
    /\ queue # <<>>
    /\ LET s == Head(queue)
       IN  thread' = [thread EXCEPT
                ![t].at = IF session[s].status \in {"accepted", "refused"}
                          THEN "handle_accept" ELSE "handle_read",
                ![t].session = s]
    /\ queue' = Tail(queue)
    /\ UNCHANGED <<process, backlog, client, session>>

\* Mutants: an accept that failed is not followed by another one; a session
\* is started whether or not the accept succeeded; it is deleted in any case.
HandleAcceptStops(t) ==
    /\ thread[t].at = "handle_accept"
    /\ LET s == thread[t].session
       IN  /\ session' = [session EXCEPT
                ![s] = IF @.status = "accepted"
                       THEN [@ EXCEPT !.status = "reading"] ELSE NoState]
           /\ thread' = [thread EXCEPT
                ![t] = IF session[s].status = "accepted"
                       THEN [Idle EXCEPT !.at = "start_accept"] ELSE Idle]
    /\ UNCHANGED <<process, backlog, client, queue>>

HandleAcceptUnchecked(t) ==
    /\ thread[t].at = "handle_accept"
    /\ LET s == thread[t].session
       IN  session' = [session EXCEPT ![s].status = "reading"]
    /\ thread' = [thread EXCEPT ![t] = [Idle EXCEPT !.at = "start_accept"]]
    /\ UNCHANGED <<process, backlog, client, queue>>

HandleAcceptDeletes(t) ==
    /\ thread[t].at = "handle_accept"
    /\ LET s == thread[t].session
       IN  session' = [session EXCEPT
                ![s] = IF @.status = "accepted"
                       THEN [@ EXCEPT !.status = "reading", !.live = FALSE]
                       ELSE NoState]
    /\ thread' = [thread EXCEPT ![t] = [Idle EXCEPT !.at = "start_accept"]]
    /\ UNCHANGED <<process, backlog, client, queue>>

\* handle_accept up to its call of start_accept: the new session starts to
\* read, and other threads may run its handler from then on; or it is deleted.
HandleAccept(t) ==
    /\ thread[t].at = "handle_accept"
    /\ LET s == thread[t].session
       IN  session' = [session EXCEPT
                ![s] = IF @.status = "accepted"
                       THEN [@ EXCEPT !.status = "reading"] ELSE NoState]
    /\ thread' = [thread EXCEPT ![t] = [Idle EXCEPT !.at = "start_accept"]]
    /\ UNCHANGED <<process, backlog, client, queue>>

StartAccept(t) ==
    /\ thread[t].at = "start_accept"
    /\ \E s \in Sessions :
         /\ ~session[s].live
         /\ session' = [session EXCEPT ![s] = NewSession(~Scarce)]
    /\ thread' = [thread EXCEPT ![t] = Idle]
    /\ UNCHANGED <<process, backlog, client, queue>>

\* handle_read with an error: delete this.
DeleteSession(t) ==
    /\ thread[t].at = "handle_read"
    /\ session[thread[t].session].status = "failed"
    /\ session' = [session EXCEPT ![thread[t].session] = NoState]
    /\ thread' = [thread EXCEPT ![t] = Idle]
    /\ UNCHANGED <<process, backlog, client, queue>>

Asked(t) == client[session[thread[t].session].client].asked

\* The request the handler parses: what was read, and what memory held behind
\* it, for data_ is neither cleared nor terminated.
Parsing(t) == /\ thread[t].at = "handle_read"
              /\ session[thread[t].session].status = "received"
Incomplete(t) == session[thread[t].session].data = "part"

\* An exception ends the handler: the session stays, without a reply.
Abandon(t) ==
    /\ session' = [session EXCEPT ![thread[t].session].status = "none"]
    /\ thread' = [thread EXCEPT ![t] = Idle]

\* create_request returns false.
Reject(t) ==
    /\ Parsing(t)
    /\ Incomplete(t) \/ Asked(t) = "bad"
    /\ thread' = [thread EXCEPT ![t].at = "write", ![t].reply = "badrequest"]
    /\ UNCHANGED <<process, backlog, client, session, queue>>

\* Without an empty line the body is what follows position 3, and substr
\* throws where the data is shorter.
ParseThrows(t) ==
    /\ Parsing(t)
    /\ Incomplete(t) \/ Asked(t) = "bad"
    /\ Abandon(t)
    /\ UNCHANGED <<process, backlog, client, queue>>

Parsed(t) == /\ Parsing(t)
             /\ Asked(t) # "bad"

\* get_handler, with the routes of the session.
GetHandler(t) ==
    /\ Parsed(t)
    /\ session[thread[t].session].routes
    /\ thread' = [thread EXCEPT ![t].at = "serve"]
    /\ UNCHANGED <<process, backlog, client, session, queue>>

\* Without routes there is no location / either, and the factory is null: the
\* process ends, and the kernel closes its connections.
NullFactory(t) ==
    /\ Parsed(t)
    /\ ~session[thread[t].session].routes
    /\ process' = "crashed"
    /\ backlog' = {}
    /\ client' = [c \in Clients |->
                     IF client[c].conn = "open"
                     THEN [client[c] EXCEPT !.conn = "closed"] ELSE client[c]]
    /\ session' = [s \in Sessions |-> NoState]
    /\ queue' = <<>>
    /\ thread' = [u \in Threads |-> Idle]

\* A handler that uses files has one open at a time.
OpenFile(t) ==
    /\ thread[t].at = "serve"
    /\ ~thread[t].file
    /\ ~Scarce
    /\ thread' = [thread EXCEPT ![t].file = TRUE]
    /\ UNCHANGED <<process, backlog, client, session, queue>>

ServeThrows(t) ==
    /\ thread[t].at = "serve"
    /\ Asked(t) = "throws"
    /\ Abandon(t)
    /\ UNCHANGED <<process, backlog, client, queue>>

\* The handler has filled in the reply, whichever its status is.
Serve(t) ==
    /\ thread[t].at = "serve"
    /\ Asked(t) # "throws"
    /\ thread' = [thread EXCEPT ![t].at = "write", ![t].file = FALSE,
                                ![t].reply = "served"]
    /\ UNCHANGED <<process, backlog, client, session, queue>>

\* The reply reaches a client that is still there; to another one the write,
\* or remote_endpoint in the log line before it, throws.
Write(t) ==
    /\ thread[t].at = "write"
    /\ LET s == thread[t].session
       IN  /\ client' = [client EXCEPT
                ![session[s].client].reply =
                    IF client[session[s].client].conn = "open"
                    THEN thread[t].reply ELSE @]
           /\ session' = [session EXCEPT ![s].status = "none"]
    /\ thread' = [thread EXCEPT ![t] = Idle]
    /\ UNCHANGED <<process, backlog, queue>>

-----------------------------------------------------------------------------
ClientStep(c) == Connect(c) \/ Send(c) \/ SendRest(c) \/ Close(c)

KernelStep(s) ==
    AcceptCompletes(s) \/ AcceptFails(s) \/ ReadCompletes(s) \/ ReadFails(s)

\* A thread's steps, and those that the sleep handler does not hold up.
ThreadStep(t) ==
    \/ Take(t)
    \/ HandleAccept(t)
    \/ StartAccept(t)
    \/ DeleteSession(t)
    \/ Reject(t)
    \/ ParseThrows(t)
    \/ GetHandler(t)
    \/ NullFactory(t)
    \/ OpenFile(t)
    \/ ServeThrows(t)
    \/ Serve(t)
    \/ Write(t)

Awake(t) == thread[t].at = "serve" => Asked(t) # "sleep"

ServerNext ==
    \/ \E c \in Clients : ClientStep(c)
    \/ \E s \in Sessions : KernelStep(s)
    \/ \E t \in Threads : ThreadStep(t)

ServerSpec == ServerInit /\ [][ServerNext]_vars

\* The kernel completes what it can, the threads run, clients do as they
\* like; a thread in the sleep handler may stay there.
ServerFairness ==
    /\ WF_vars(\E s \in Sessions : AcceptCompletes(s))
    /\ \A s \in Sessions : WF_vars(ReadCompletes(s) \/ ReadFails(s))
    /\ \A t \in Threads : WF_vars(Awake(t) /\ ThreadStep(t))

ServerLiveSpec == ServerSpec /\ ServerFairness

-----------------------------------------------------------------------------
\* What a thread does with a session fits what the session's operation came to.
HandlerFits(t) ==
    CASE thread[t].at \in {"idle", "start_accept"} ->
           thread[t].session = NoSession
      [] thread[t].at = "handle_accept" ->
           /\ thread[t].session # NoSession
           /\ session[thread[t].session].status \in {"accepted", "refused"}
      [] thread[t].at \in {"handle_read", "serve", "write"} ->
           /\ thread[t].session # NoSession
           /\ session[thread[t].session].status \in {"received", "failed"}

\* Only an accept that completed gives a session a socket.
ServerTypeOK ==
    /\ process \in {"up", "crashed"}
    /\ backlog \subseteq Clients
    /\ client \in [Clients -> ClientStates]
    /\ session \in [Sessions -> SessionStates]
    /\ queue \in Seq(Sessions)
    /\ thread \in [Threads -> ThreadStates]
    /\ \A s \in Sessions :
         session[s].status \in {"accepted", "reading", "received", "failed"}
           => session[s].client # NoClient
    /\ \A t \in Threads : HandlerFits(t)

\* Who is to accept the next connection, or to see to it that somebody does.
Accepting == {s \in Sessions : session[s].status \in
                                  {"accepting", "accepted", "refused"}}
Starting == {t \in Threads : thread[t].at = "start_accept"}

\* The chain of accepts neither breaks nor forks, however the handlers of the
\* threads interleave and whether or not accepts fail: one accept is
\* outstanding, or its handler is queued or runs, or a thread is about to
\* issue the next.
OneAccept ==
    /\ process = "up" => Accepting # {} \/ Starting # {}
    /\ Accepting = {} \/ Starting = {}
    /\ \A r, s \in Accepting : r = s
    /\ \A t, u \in Starting : t = u

\* delete this, and delete new_session, take away no session that has an
\* operation outstanding, a handler queued or a handler running, and no two
\* threads run handlers of one session.
SessionsOutliveHandlers ==
    /\ \A s \in Sessions : session[s].status # "none" => session[s].live
    /\ \A i \in DOMAIN queue :
         /\ session[queue[i]].status \in Completed
         /\ \A j \in DOMAIN queue : queue[i] = queue[j] => i = j
         /\ \A t \in Threads : thread[t].session # queue[i]
    /\ \A t \in Threads :
         thread[t].session # NoSession =>
           /\ session[thread[t].session].status \in Completed
           /\ \A u \in Threads : thread[u].session = thread[t].session => u = t

\* A request that is sent in one piece to a handler that does not throw is
\* answered, and not with 400, unless its client leaves, while all but one of
\* the threads may be held up by the sleep handler, as long as there are
\* descriptors left for everybody.
RequestsServed ==
    \A c \in Clients :
        client[c].asked = "good" /\ client[c].sent = "whole"
          ~> client[c].reply = "served" \/ client[c].conn = "closed"

\* An accept that fails for want of a descriptor does not end accepting: a
\* connection is accepted, sooner or later, unless descriptors keep running
\* out.
AcceptsResume ==
    \A c \in Clients :
        c \in backlog ~> c \notin backlog \/ Scarce

-----------------------------------------------------------------------------
\* "Error Handler if no path found" (dispatcher.cc, get_handler): a request
\* that matches no route is handled all the same.
NoPathGetsErrorHandler == process # "crashed"
=============================================================================
