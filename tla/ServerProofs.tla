---------------------------- MODULE ServerProofs ----------------------------
(***************************************************************************)
(* Proofs about Server, for any number of clients, sessions, threads and   *)
(* descriptors: its types, that the chain of accepts neither breaks nor    *)
(* forks, and that no session is deleted that anything will still use.     *)
(* The three are inductive together.                                       *)
(***************************************************************************)
EXTENDS Server, SequenceTheorems, TLAPS

ServerInv == ServerTypeOK /\ OneAccept /\ SessionsOutliveHandlers

\* Initially one session accepts and there is nothing else.
LEMMA ServerInvInit == ServerInit => ServerInv
<1> SUFFICES ASSUME ServerInit PROVE ServerInv
  OBVIOUS
<1>1. PICK s \in Sessions :
        session = [r \in Sessions |->
                      IF r = s THEN NewSession(TRUE) ELSE NoState]
  BY DEF ServerInit
<1>2. /\ session[s] = NewSession(TRUE)
      /\ \A r \in Sessions \ {s} : session[r] = NoState
  BY <1>1
<1>3. NewSession(TRUE) \in SessionStates /\ NoState \in SessionStates
  BY DEF NewSession, NoState, SessionStates, Completed
<1>4. /\ NewSession(TRUE).status = "accepting" /\ NewSession(TRUE).live
      /\ NoState.status = "none"
  BY DEF NewSession, NoState
<1>5. Idle \in ThreadStates /\ Idle.at = "idle" /\ Idle.session = NoSession
  BY DEF Idle, ThreadStates
<1>6. /\ thread = [t \in Threads |-> Idle] /\ queue = <<>> /\ backlog = {}
      /\ process = "up"
  BY DEF ServerInit
<1>7. client \in [Clients -> ClientStates]
  BY DEF ServerInit, ClientStates
<1>8. ServerTypeOK
  <2>1. session \in [Sessions -> SessionStates]
    BY <1>1, <1>3
  <2>2. queue \in Seq(Sessions)
    BY <1>6
  <2>3. thread \in [Threads -> ThreadStates]
    BY <1>5, <1>6
  <2>4. \A r \in Sessions : session[r].status \in {"accepting", "none"}
    BY <1>2, <1>4
  <2>5. \A t \in Threads : thread[t].at = "idle" /\ thread[t].session = NoSession
    BY <1>5, <1>6
  <2> QED
    BY <1>6, <1>7, <2>1, <2>2, <2>3, <2>4, <2>5 DEF ServerTypeOK, HandlerFits
<1>9. OneAccept
  <2>1. Accepting = {s}
    BY <1>2, <1>4 DEF Accepting
  <2>2. Starting = {}
    BY <1>5, <1>6 DEF Starting
  <2> QED
    BY <2>1, <2>2 DEF OneAccept
<1>10. SessionsOutliveHandlers
  <2>1. \A r \in Sessions : session[r].status # "none" => session[r].live
    BY <1>2, <1>4
  <2>2. DOMAIN queue = {}
    BY <1>6
  <2>3. \A t \in Threads : thread[t].session = NoSession
    BY <1>5, <1>6
  <2> QED
    BY <2>1, <2>2, <2>3 DEF SessionsOutliveHandlers
<1> QED
  BY <1>8, <1>9, <1>10 DEF ServerInv

\* An operation of one session completes and its handler is queued.
LEMMA CompleteKeeps ==
    ASSUME ServerInv,
           NEW s \in Sessions, NEW state \in SessionStates,
           session[s].status \in {"accepting", "reading"},
           state.status \in Completed, state.live = session[s].live,
           state.client # NoClient \/ state.status = "refused",
           state.status \in {"accepted", "refused"}
             <=> session[s].status = "accepting",
           Complete(s, state), UNCHANGED <<process, client, thread>>,
           backlog' \subseteq backlog
    PROVE  ServerInv'
<1> USE DEF ServerInv
<1>1. /\ session' \in [Sessions -> SessionStates]
      /\ session'[s] = state
      /\ \A r \in Sessions \ {s} : session'[r] = session[r]
  BY DEF Complete, ServerTypeOK
<1>2. /\ queue' \in Seq(Sessions) /\ Len(queue') = Len(queue) + 1
      /\ queue'[Len(queue) + 1] = s
      /\ \A i \in 1 .. Len(queue) : queue'[i] = queue[i]
  BY AppendProperties DEF Complete, ServerTypeOK
<1>3. /\ queue \in Seq(Sessions) /\ Len(queue) \in Nat
      /\ DOMAIN queue = 1 .. Len(queue)
      /\ DOMAIN queue' = 1 .. Len(queue) + 1
  BY <1>2, LenProperties DEF ServerTypeOK
<1>4. \A i \in DOMAIN queue : queue[i] # s /\ queue[i] \in Sessions
  BY <1>3, ElementOfSeq DEF SessionsOutliveHandlers, Completed
<1>5. \A t \in Threads : thread[t].session # s
  BY ServerAssumption DEF SessionsOutliveHandlers, Completed
<1>6. \A t \in Threads : thread[t].session \in Sessions \cup {NoSession}
  BY DEF ServerTypeOK, ThreadStates
<1>7. ServerTypeOK'
  <2>1. \A t \in Threads : thread[t].session # NoSession =>
          session'[thread[t].session] = session[thread[t].session]
    BY <1>1, <1>5, <1>6
  <2>2. \A r \in Sessions :
          session'[r].status \in {"accepted", "reading", "received", "failed"}
            => session'[r].client # NoClient
    BY <1>1 DEF ServerTypeOK
  <2>3. \A t \in Threads : HandlerFits(t)'
    BY <2>1 DEF ServerTypeOK, HandlerFits
  <2> QED
    BY <1>1, <1>2, <2>2, <2>3 DEF ServerTypeOK
<1>8. OneAccept'
  <2>1. Accepting' = Accepting
    BY <1>1 DEF Accepting, Completed
  <2>2. Starting' = Starting
    BY DEF Starting
  <2> QED
    BY <2>1, <2>2 DEF OneAccept
<1>9. SessionsOutliveHandlers'
  <2>1. \A r \in Sessions : session'[r].status # "none" => session'[r].live
    BY <1>1 DEF SessionsOutliveHandlers
  <2>2. \A i \in DOMAIN queue' :
          /\ session'[queue'[i]].status \in Completed
          /\ \A t \in Threads : thread'[t].session # queue'[i]
    BY <1>1, <1>2, <1>3, <1>4, <1>5 DEF SessionsOutliveHandlers
  <2>3. \A i, j \in DOMAIN queue' : queue'[i] = queue'[j] => i = j
    BY <1>2, <1>3, <1>4 DEF SessionsOutliveHandlers
  <2>4. \A t \in Threads : thread'[t].session # NoSession =>
          /\ session'[thread'[t].session].status \in Completed
          /\ \A u \in Threads : thread'[u].session = thread'[t].session => u = t
    BY <1>1, <1>5, <1>6 DEF SessionsOutliveHandlers
  <2> QED
    BY <2>1, <2>2, <2>3, <2>4 DEF SessionsOutliveHandlers
<1> QED
  BY <1>7, <1>8, <1>9

Handling == {"handle_read", "serve", "write"}

\* A thread goes on with its handler.
LEMMA HandlerGoesOn ==
    ASSUME ServerInv,
           NEW t \in Threads, NEW state \in ThreadStates,
           thread[t].at \in Handling, state.at \in Handling,
           state.session = thread[t].session,
           thread' = [thread EXCEPT ![t] = state],
           UNCHANGED <<process, backlog, client, session, queue>>
    PROVE  ServerInv'
<1> USE DEF ServerInv
<1>1. /\ thread' \in [Threads -> ThreadStates]
      /\ thread'[t] = state
      /\ \A u \in Threads \ {t} : thread'[u] = thread[u]
      /\ \A u \in Threads : thread'[u].session = thread[u].session
  BY DEF ServerTypeOK
<1>2. ServerTypeOK'
  <2>1. /\ state.session # NoSession
        /\ session[state.session].status \in {"received", "failed"}
    BY DEF ServerTypeOK, HandlerFits, Handling
  <2>2. \A u \in Threads \ {t} : HandlerFits(u)'
    BY <1>1 DEF ServerTypeOK, HandlerFits
  <2>3. HandlerFits(t)'
    BY <1>1, <2>1 DEF HandlerFits, Handling
  <2> QED
    BY <1>1, <2>2, <2>3 DEF ServerTypeOK
<1>3. OneAccept'
  <2>1. Starting' = Starting
    BY <1>1 DEF Starting, Handling
  <2>2. Accepting' = Accepting
    BY DEF Accepting
  <2> QED
    BY <2>1, <2>2 DEF OneAccept
<1>4. SessionsOutliveHandlers'
  BY <1>1 DEF SessionsOutliveHandlers
<1> QED
  BY <1>2, <1>3, <1>4

\* A handler ends, and its session is left, or deleted.
LEMMA HandlerEnds ==
    ASSUME ServerInv,
           NEW t \in Threads, NEW state \in SessionStates,
           thread[t].at \in Handling, state.status = "none",
           session' = [session EXCEPT ![thread[t].session] = state],
           thread' = [thread EXCEPT ![t] = Idle],
           client' \in [Clients -> ClientStates],
           UNCHANGED <<process, backlog, queue>>
    PROVE  ServerInv'
<1> USE DEF ServerInv
<1> DEFINE s == thread[t].session
<1>1. /\ s \in Sessions /\ s # NoSession
      /\ session[s].status \in {"received", "failed"}
  BY DEF ServerTypeOK, HandlerFits, ThreadStates, Handling
<1>2. /\ session' \in [Sessions -> SessionStates]
      /\ session'[s] = state
      /\ \A r \in Sessions \ {s} : session'[r] = session[r]
  BY <1>1 DEF ServerTypeOK
<1>3. Idle \in ThreadStates /\ Idle.at = "idle" /\ Idle.session = NoSession
  BY DEF Idle, ThreadStates
<1>4. /\ thread' \in [Threads -> ThreadStates]
      /\ thread'[t] = Idle
      /\ \A u \in Threads \ {t} : thread'[u] = thread[u]
  BY <1>3 DEF ServerTypeOK
<1>5. \A u \in Threads \ {t} : thread[u].session # s
  BY <1>1 DEF SessionsOutliveHandlers
<1>6. \A u \in Threads : thread[u].session \in Sessions \cup {NoSession}
  BY DEF ServerTypeOK, ThreadStates
<1>7. \A i \in DOMAIN queue : queue[i] # s /\ queue[i] \in Sessions
  <2>1. \A i \in DOMAIN queue : queue[i] # s
    BY DEF SessionsOutliveHandlers
  <2>2. \A i \in DOMAIN queue : queue[i] \in Sessions
    BY LenProperties, ElementOfSeq DEF ServerTypeOK
  <2> QED
    BY <2>1, <2>2
<1>8. ServerTypeOK'
  <2>1. \A u \in Threads \ {t} : thread[u].session # NoSession =>
          session'[thread[u].session] = session[thread[u].session]
    BY <1>2, <1>5, <1>6
  <2>2. \A r \in Sessions :
          session'[r].status \in {"accepted", "reading", "received", "failed"}
            => session'[r].client # NoClient
    BY <1>2 DEF ServerTypeOK
  <2>3. \A u \in Threads \ {t} : HandlerFits(u)'
    <3> HIDE DEF s
    <3> QED
      BY <1>4, <2>1 DEF ServerTypeOK, HandlerFits
  <2>4. HandlerFits(t)'
    BY <1>3, <1>4 DEF HandlerFits
  <2> QED
    BY <1>2, <1>4, <2>2, <2>3, <2>4 DEF ServerTypeOK
<1>9. OneAccept'
  <2>1. Accepting' = Accepting
    BY <1>1, <1>2 DEF Accepting
  <2>2. Starting' = Starting
    BY <1>3, <1>4 DEF Starting, Handling
  <2> QED
    BY <2>1, <2>2 DEF OneAccept
<1>10. SessionsOutliveHandlers'
  <2>1. \A r \in Sessions : session'[r].status # "none" => session'[r].live
    BY <1>2 DEF SessionsOutliveHandlers
  <2>2. \A i \in DOMAIN queue' :
          /\ session'[queue'[i]].status \in Completed
          /\ \A j \in DOMAIN queue' : queue'[i] = queue'[j] => i = j
          /\ \A u \in Threads : thread'[u].session # queue'[i]
    <3>1. \A i \in DOMAIN queue : queue[i] # NoSession
      BY <1>7, ServerAssumption
    <3> QED
      BY <1>2, <1>3, <1>4, <1>7, <3>1 DEF SessionsOutliveHandlers
  <2>3. \A u \in Threads : thread'[u].session # NoSession =>
          /\ session'[thread'[u].session].status \in Completed
          /\ \A v \in Threads : thread'[v].session = thread'[u].session => v = u
    BY <1>2, <1>3, <1>4, <1>5, <1>6 DEF SessionsOutliveHandlers
  <2> QED
    BY <2>1, <2>2, <2>3 DEF SessionsOutliveHandlers
<1> QED
  BY <1>8, <1>9, <1>10

\* A thread takes the handler at the head of the queue.
LEMMA TakeKeeps ==
    ASSUME ServerInv, NEW t \in Threads, Take(t)
    PROVE  ServerInv'
<1> USE DEF ServerInv
<1> DEFINE s == Head(queue)
           a == IF session[s].status \in {"accepted", "refused"}
                THEN "handle_accept" ELSE "handle_read"
<1>1. /\ queue \in Seq(Sessions) /\ queue # <<>>
      /\ DOMAIN queue = 1 .. Len(queue) /\ Len(queue) \in Nat \ {0}
      /\ s = queue[1] /\ s \in Sessions
  BY LenProperties, EmptySeq, ElementOfSeq DEF Take, ServerTypeOK
<1>2. /\ queue' \in Seq(Sessions) /\ DOMAIN queue' = 1 .. Len(queue) - 1
      /\ \A i \in DOMAIN queue' : queue'[i] = queue[i + 1]
  BY <1>1, HeadTailProperties, LenProperties DEF Take
<1>3. /\ session[s].status \in Completed
      /\ \A i \in DOMAIN queue : queue[i] = s => i = 1
      /\ \A u \in Threads : thread[u].session # s
  BY <1>1 DEF SessionsOutliveHandlers
<1>4. /\ thread' \in [Threads -> ThreadStates]
      /\ thread'[t].at = a /\ thread'[t].session = s
      /\ \A u \in Threads \ {t} : thread'[u] = thread[u]
  <2> DEFINE new == [thread[t] EXCEPT !.at = a, !.session = s]
  <2>1. a \in {"handle_accept", "handle_read"}
    OBVIOUS
  <2>2. thread[t] \in ThreadStates
    BY DEF ServerTypeOK
  <2>3. new \in ThreadStates /\ new.at = a /\ new.session = s
    <3> HIDE DEF a, s
    <3> QED
      BY <1>1, <2>1, <2>2 DEF ThreadStates
  <2>4. thread' = [thread EXCEPT ![t] = new]
    BY DEF Take
  <2> HIDE DEF new, a, s
  <2> QED
    BY <2>3, <2>4 DEF ServerTypeOK
<1>5. /\ thread[t].at = "idle"
      /\ UNCHANGED <<process, backlog, client, session>>
  BY DEF Take
<1>6. ServerTypeOK'
  <2>1. s # NoSession
    BY <1>1, ServerAssumption
  <2>2. \/ a = "handle_accept" /\ session[s].status \in {"accepted", "refused"}
        \/ a = "handle_read" /\ session[s].status \in {"received", "failed"}
    BY <1>3 DEF Completed
  <2> HIDE DEF s, a
  <2>3. HandlerFits(t)'
    BY <1>4, <1>5, <2>1, <2>2 DEF HandlerFits
  <2>4. \A u \in Threads \ {t} : HandlerFits(u)'
    BY <1>4, <1>5 DEF ServerTypeOK, HandlerFits
  <2> QED
    BY <1>2, <1>4, <1>5, <2>3, <2>4 DEF ServerTypeOK
<1>7. OneAccept'
  <2>1. Accepting' = Accepting
    BY <1>5 DEF Accepting
  <2>2. Starting' = Starting
    BY <1>4, <1>5 DEF Starting
  <2> QED
    BY <1>5, <2>1, <2>2 DEF OneAccept
<1>8. SessionsOutliveHandlers'
  <2>1. \A i \in DOMAIN queue' : i + 1 \in DOMAIN queue /\ i + 1 # 1
    BY <1>1, <1>2
  <2>2. \A i \in DOMAIN queue' :
          /\ session'[queue'[i]].status \in Completed
          /\ \A u \in Threads : thread'[u].session # queue'[i]
    BY <1>2, <1>3, <1>4, <1>5, <2>1 DEF SessionsOutliveHandlers
  <2>3. \A i, j \in DOMAIN queue' : queue'[i] = queue'[j] => i = j
    <3>1. \A i, j \in DOMAIN queue' : queue'[i] = queue'[j] => i + 1 = j + 1
      BY <1>2, <2>1 DEF SessionsOutliveHandlers
    <3> QED
      BY <1>1, <1>2, <3>1
  <2>4. \A u \in Threads : thread'[u].session # NoSession =>
          /\ session'[thread'[u].session].status \in Completed
          /\ \A v \in Threads : thread'[v].session = thread'[u].session => v = u
    BY <1>3, <1>4, <1>5 DEF SessionsOutliveHandlers
  <2>5. \A r \in Sessions : session'[r].status # "none" => session'[r].live
    BY <1>5 DEF SessionsOutliveHandlers
  <2> QED
    BY <2>2, <2>3, <2>4, <2>5 DEF SessionsOutliveHandlers
<1> QED
  BY <1>6, <1>7, <1>8

\* The handler of an accept starts its session, or deletes it, and goes on to
\* start_accept.
LEMMA HandleAcceptKeeps ==
    ASSUME ServerInv, NEW t \in Threads, HandleAccept(t)
    PROVE  ServerInv'
<1> USE DEF ServerInv
<1> DEFINE s == thread[t].session
           state == IF session[s].status = "accepted"
                    THEN [session[s] EXCEPT !.status = "reading"] ELSE NoState
           new == [Idle EXCEPT !.at = "start_accept"]
<1>1. /\ thread[t].at = "handle_accept"
      /\ session' = [session EXCEPT ![s] = state]
      /\ thread' = [thread EXCEPT ![t] = new]
      /\ UNCHANGED <<process, backlog, client, queue>>
  BY DEF HandleAccept
<1>2. /\ s \in Sessions /\ s # NoSession
      /\ session[s].status \in {"accepted", "refused"}
  BY <1>1 DEF ServerTypeOK, HandlerFits, ThreadStates
<1>3. /\ session[s] \in SessionStates
      /\ session[s].status = "accepted" => session[s].client # NoClient
      /\ session[s].live
  BY <1>2 DEF ServerTypeOK, SessionsOutliveHandlers
<1>4. /\ state \in SessionStates
      /\ state.status \in {"reading", "none"}
      /\ state.status = "reading" => state.client # NoClient /\ state.live
  <2>1. CASE session[s].status = "accepted"
    <3> HIDE DEF s
    <3> QED
      BY <1>3, <2>1 DEF SessionStates
  <2>2. CASE session[s].status # "accepted"
    <3> HIDE DEF s
    <3> QED
      BY <2>2 DEF SessionStates, NoState
  <2> QED
    BY <2>1, <2>2
<1>5. new \in ThreadStates /\ new.at = "start_accept" /\ new.session = NoSession
  BY DEF Idle, ThreadStates
<1> HIDE DEF state, new
<1>6. /\ session' \in [Sessions -> SessionStates]
      /\ session'[s] = state
      /\ \A r \in Sessions \ {s} : session'[r] = session[r]
  BY <1>1, <1>2, <1>4 DEF ServerTypeOK
<1>7. /\ thread' \in [Threads -> ThreadStates]
      /\ thread'[t] = new
      /\ \A u \in Threads \ {t} : thread'[u] = thread[u]
  BY <1>1, <1>5 DEF ServerTypeOK
<1>8. \A u \in Threads \ {t} : thread[u].session # s
  BY <1>2 DEF SessionsOutliveHandlers
<1>9. \A u \in Threads : thread[u].session \in Sessions \cup {NoSession}
  BY DEF ServerTypeOK, ThreadStates
<1>10. \A i \in DOMAIN queue : queue[i] # s /\ queue[i] \in Sessions
  <2>1. \A i \in DOMAIN queue : queue[i] # s
    BY DEF SessionsOutliveHandlers
  <2>2. \A i \in DOMAIN queue : queue[i] \in Sessions
    BY LenProperties, ElementOfSeq DEF ServerTypeOK
  <2> QED
    BY <2>1, <2>2
<1>11. Accepting = {s} /\ Starting = {}
  BY <1>2 DEF OneAccept, Accepting
<1> HIDE DEF s
<1>12. ServerTypeOK'
  <2>1. \A r \in Sessions :
          session'[r].status \in {"accepted", "reading", "received", "failed"}
            => session'[r].client # NoClient
    BY <1>4, <1>6 DEF ServerTypeOK
  <2>2. \A u \in Threads \ {t} : HandlerFits(u)'
    <3>1. \A u \in Threads \ {t} : thread[u].session # NoSession =>
            session'[thread[u].session] = session[thread[u].session]
      BY <1>6, <1>7, <1>8, <1>9
    <3> QED
      BY <1>7, <3>1 DEF ServerTypeOK, HandlerFits
  <2>3. HandlerFits(t)'
    BY <1>5, <1>7 DEF HandlerFits
  <2> QED
    BY <1>1, <1>6, <1>7, <2>1, <2>2, <2>3 DEF ServerTypeOK
<1>13. OneAccept'
  <2>1. Accepting' = {}
    BY <1>4, <1>6, <1>11 DEF Accepting
  <2>2. Starting' = {t}
    BY <1>5, <1>7, <1>11 DEF Starting
  <2> QED
    BY <2>1, <2>2 DEF OneAccept
<1>14. SessionsOutliveHandlers'
  <2>1. \A r \in Sessions : session'[r].status # "none" => session'[r].live
    BY <1>4, <1>6 DEF SessionsOutliveHandlers
  <2>2. \A i \in DOMAIN queue' :
          /\ session'[queue'[i]].status \in Completed
          /\ \A j \in DOMAIN queue' : queue'[i] = queue'[j] => i = j
          /\ \A u \in Threads : thread'[u].session # queue'[i]
    <3>1. \A i \in DOMAIN queue : queue[i] # NoSession
      BY <1>10, ServerAssumption
    <3> QED
      BY <1>1, <1>5, <1>6, <1>7, <1>10, <3>1 DEF SessionsOutliveHandlers
  <2>3. \A u \in Threads : thread'[u].session # NoSession =>
          /\ session'[thread'[u].session].status \in Completed
          /\ \A v \in Threads : thread'[v].session = thread'[u].session => v = u
    BY <1>5, <1>6, <1>7, <1>8, <1>9 DEF SessionsOutliveHandlers
  <2> QED
    BY <2>1, <2>2, <2>3 DEF SessionsOutliveHandlers
<1> QED
  BY <1>12, <1>13, <1>14

\* start_accept makes a session that nothing refers to yet.
LEMMA StartAcceptKeeps ==
    ASSUME ServerInv, NEW t \in Threads, StartAccept(t)
    PROVE  ServerInv'
<1> USE DEF ServerInv
<1> DEFINE new == NewSession(~Scarce)
<1>1. PICK s \in Sessions :
        /\ ~session[s].live
        /\ session' = [session EXCEPT ![s] = new]
  BY DEF StartAccept
<1>2. /\ thread[t].at = "start_accept"
      /\ thread' = [thread EXCEPT ![t] = Idle]
      /\ UNCHANGED <<process, backlog, client, queue>>
  BY DEF StartAccept
<1>3. /\ new \in SessionStates /\ new.live /\ new.status = "accepting"
  <2>1. CASE Scarce
    <3>1. new = NewSession(FALSE)
      BY <2>1
    <3> QED
      BY <3>1 DEF NewSession, NoState, SessionStates
  <2>2. CASE ~Scarce
    <3>1. new = NewSession(TRUE)
      BY <2>2
    <3> QED
      BY <3>1 DEF NewSession, NoState, SessionStates
  <2> QED
    BY <2>1, <2>2
<1> HIDE DEF new
<1>4. /\ session' \in [Sessions -> SessionStates]
      /\ session'[s] = new
      /\ \A r \in Sessions \ {s} : session'[r] = session[r]
  BY <1>1, <1>3 DEF ServerTypeOK
<1>5. Idle \in ThreadStates /\ Idle.at = "idle" /\ Idle.session = NoSession
  BY DEF Idle, ThreadStates
<1>6. /\ thread' \in [Threads -> ThreadStates]
      /\ thread'[t] = Idle
      /\ \A u \in Threads \ {t} : thread'[u] = thread[u]
  BY <1>2, <1>5 DEF ServerTypeOK
<1>7. session[s].status = "none"
  BY <1>1 DEF SessionsOutliveHandlers
<1>8. \A u \in Threads : thread[u].session \in Sessions \cup {NoSession}
  BY DEF ServerTypeOK, ThreadStates
<1>9. \A u \in Threads : thread[u].session # s
  BY <1>7, ServerAssumption DEF SessionsOutliveHandlers, Completed
<1>10. \A i \in DOMAIN queue : queue[i] # s /\ queue[i] \in Sessions
  <2>1. \A i \in DOMAIN queue : queue[i] # s
    BY <1>7 DEF SessionsOutliveHandlers, Completed
  <2>2. \A i \in DOMAIN queue : queue[i] \in Sessions
    BY LenProperties, ElementOfSeq DEF ServerTypeOK
  <2> QED
    BY <2>1, <2>2
<1>11. Starting = {t} /\ Accepting = {}
  BY <1>2 DEF OneAccept, Starting
<1>12. ServerTypeOK'
  <2>1. \A r \in Sessions :
          session'[r].status \in {"accepted", "reading", "received", "failed"}
            => session'[r].client # NoClient
    BY <1>3, <1>4 DEF ServerTypeOK
  <2>2. \A u \in Threads \ {t} : HandlerFits(u)'
    <3>1. \A u \in Threads \ {t} : thread[u].session # NoSession =>
            session'[thread[u].session] = session[thread[u].session]
      BY <1>4, <1>6, <1>8, <1>9
    <3> QED
      BY <1>6, <3>1 DEF ServerTypeOK, HandlerFits
  <2>3. HandlerFits(t)'
    BY <1>5, <1>6 DEF HandlerFits
  <2> QED
    BY <1>2, <1>4, <1>6, <2>1, <2>2, <2>3 DEF ServerTypeOK
<1>13. OneAccept'
  <2>1. Accepting' = {s}
    BY <1>3, <1>4, <1>11 DEF Accepting
  <2>2. Starting' = {}
    BY <1>5, <1>6, <1>11 DEF Starting
  <2> QED
    BY <2>1, <2>2 DEF OneAccept
<1>14. SessionsOutliveHandlers'
  <2>1. \A r \in Sessions : session'[r].status # "none" => session'[r].live
    BY <1>3, <1>4 DEF SessionsOutliveHandlers
  <2>2. \A i \in DOMAIN queue' :
          /\ session'[queue'[i]].status \in Completed
          /\ \A j \in DOMAIN queue' : queue'[i] = queue'[j] => i = j
          /\ \A u \in Threads : thread'[u].session # queue'[i]
    <3>1. \A i \in DOMAIN queue : queue[i] # NoSession
      BY <1>10, ServerAssumption
    <3> QED
      BY <1>2, <1>4, <1>5, <1>6, <1>10, <3>1 DEF SessionsOutliveHandlers
  <2>3. \A u \in Threads : thread'[u].session # NoSession =>
          /\ session'[thread'[u].session].status \in Completed
          /\ \A v \in Threads : thread'[v].session = thread'[u].session => v = u
    BY <1>4, <1>5, <1>6, <1>8, <1>9 DEF SessionsOutliveHandlers
  <2> QED
    BY <2>1, <2>2, <2>3 DEF SessionsOutliveHandlers
<1> QED
  BY <1>12, <1>13, <1>14

\* A crash leaves nothing that could refer to a session.
LEMMA CrashKeeps ==
    ASSUME ServerInv, NEW t \in Threads, NullFactory(t)
    PROVE  ServerInv'
<1> USE DEF ServerInv
<1>1. /\ process' = "crashed" /\ backlog' = {} /\ queue' = <<>>
      /\ session' = [s \in Sessions |-> NoState]
      /\ thread' = [u \in Threads |-> Idle]
  BY DEF NullFactory
<1>2. NoState \in SessionStates /\ NoState.status = "none"
  BY DEF NoState, SessionStates
<1>3. Idle \in ThreadStates /\ Idle.at = "idle" /\ Idle.session = NoSession
  BY DEF Idle, ThreadStates
<1>4. client' \in [Clients -> ClientStates]
  <2> DEFINE end(c) == IF client[c].conn = "open"
                       THEN [client[c] EXCEPT !.conn = "closed"] ELSE client[c]
  <2>1. \A c \in Clients : client[c] \in ClientStates
    BY DEF ServerTypeOK
  <2>2. \A c \in Clients : end(c) \in ClientStates
    BY <2>1 DEF ClientStates
  <2>3. client' = [c \in Clients |-> end(c)]
    BY DEF NullFactory
  <2> HIDE DEF end
  <2> QED
    BY <2>2, <2>3
<1>5. /\ session' \in [Sessions -> SessionStates]
      /\ \A s \in Sessions : session'[s].status = "none"
  BY <1>1, <1>2
<1>6. /\ thread' \in [Threads -> ThreadStates]
      /\ \A u \in Threads : /\ thread'[u].at = "idle"
                            /\ thread'[u].session = NoSession
  BY <1>1, <1>3
<1>7. ServerTypeOK'
  <2>1. \A u \in Threads : HandlerFits(u)'
    BY <1>6 DEF HandlerFits
  <2>2. queue' \in Seq(Sessions)
    BY <1>1
  <2> QED
    BY <1>1, <1>4, <1>5, <1>6, <2>1, <2>2 DEF ServerTypeOK
<1>8. OneAccept'
  BY <1>1, <1>5, <1>6 DEF OneAccept, Accepting, Starting
<1>9. SessionsOutliveHandlers'
  <2>1. DOMAIN queue' = {}
    BY <1>1
  <2> QED
    BY <1>5, <1>6, <2>1 DEF SessionsOutliveHandlers
<1> QED
  BY <1>7, <1>8, <1>9

\* A client's step leaves the sessions and the threads alone.
LEMMA ClientKeeps ==
    ASSUME ServerInv, NEW c \in Clients, ClientStep(c)
    PROVE  ServerInv'
<1> USE DEF ServerInv
<1>1. UNCHANGED <<process, session, queue, thread>>
  BY DEF ClientStep, Connect, Send, SendRest, Close
<1>2. backlog' \subseteq Clients
  BY DEF ServerTypeOK, ClientStep, Connect, Send, SendRest, Close
<1>3. client' \in [Clients -> ClientStates]
  <2>1. client[c] \in ClientStates /\ client \in [Clients -> ClientStates]
    BY DEF ServerTypeOK
  <2>2. CASE Connect(c)
    BY <2>1, <2>2 DEF Connect, ClientStates
  <2>3. CASE Send(c)
    <3>1. PICK a \in Asks(c), n \in {"part", "whole"} :
            client' = [client EXCEPT ![c].asked = a, ![c].sent = n]
      BY <2>3 DEF Send
    <3>2. a \in {"good", "throws", "bad", "sleep"}
      BY DEF Asks
    <3>3. [client[c] EXCEPT !.asked = a, !.sent = n] \in ClientStates
      BY <2>1, <3>2 DEF ClientStates
    <3> QED
      BY <2>1, <3>1, <3>3
  <2>4. CASE SendRest(c)
    BY <2>1, <2>4 DEF SendRest, ClientStates
  <2>5. CASE Close(c)
    BY <2>1, <2>5 DEF Close, ClientStates
  <2> QED
    BY <2>2, <2>3, <2>4, <2>5 DEF ClientStep
<1>4. ServerTypeOK'
  <2>1. \A t \in Threads : HandlerFits(t)'
    BY <1>1 DEF ServerTypeOK, HandlerFits
  <2> QED
    BY <1>1, <1>2, <1>3, <2>1 DEF ServerTypeOK
<1>5. OneAccept' /\ SessionsOutliveHandlers'
  BY <1>1 DEF OneAccept, Accepting, Starting, SessionsOutliveHandlers
<1> QED
  BY <1>4, <1>5

\* The four ways in which an operation completes.
LEMMA KernelKeeps ==
    ASSUME ServerInv, NEW s \in Sessions, KernelStep(s)
    PROVE  ServerInv'
<1>1. session[s] \in SessionStates /\ session \in [Sessions -> SessionStates]
  BY DEF ServerInv, ServerTypeOK
<1>2. CASE AcceptCompletes(s)
  <2>1. PICK c \in backlog :
          /\ backlog' = backlog \ {c}
          /\ Complete(s, [session[s] EXCEPT !.status = "accepted", !.client = c])
    BY <1>2 DEF AcceptCompletes
  <2> DEFINE state == [session[s] EXCEPT !.status = "accepted", !.client = c]
  <2>2. c \in Clients /\ c # NoClient
    BY ServerAssumption DEF ServerInv, ServerTypeOK
  <2>3. /\ state \in SessionStates /\ state.status = "accepted"
        /\ state.live = session[s].live /\ state.client = c
    BY <1>1, <2>2 DEF SessionStates, Completed
  <2>4. /\ Complete(s, state) /\ UNCHANGED <<process, client, thread>>
        /\ session[s].status = "accepting" /\ backlog' \subseteq backlog
    BY <1>2, <2>1 DEF AcceptCompletes
  <2>5. "accepted" \in Completed
    BY DEF Completed
  <2> HIDE DEF state
  <2> QED
    BY <2>2, <2>3, <2>4, <2>5, CompleteKeeps
<1>3. CASE AcceptFails(s)
  <2> DEFINE state == [session[s] EXCEPT !.status = "refused"]
  <2>1. /\ state \in SessionStates /\ state.status = "refused"
        /\ state.live = session[s].live
    BY <1>1 DEF SessionStates, Completed
  <2>2. /\ Complete(s, state) /\ UNCHANGED <<process, client, thread>>
        /\ session[s].status = "accepting" /\ backlog' \subseteq backlog
    BY <1>3 DEF AcceptFails
  <2>3. "refused" \in Completed
    BY DEF Completed
  <2> HIDE DEF state
  <2> QED
    BY <2>1, <2>2, <2>3, CompleteKeeps
<1>4. CASE ReadCompletes(s)
  <2> DEFINE data == IF client[session[s].client].sent = "part"
                     THEN "part" ELSE "whole"
             state == [session[s] EXCEPT !.status = "received", !.data = data]
  <2>1. data \in {"part", "whole"}
    OBVIOUS
  <2>2. /\ Complete(s, state) /\ UNCHANGED <<process, client, thread>>
        /\ session[s].status = "reading" /\ backlog' \subseteq backlog
    BY <1>4 DEF ReadCompletes
  <2> HIDE DEF data
  <2>3. /\ state \in SessionStates /\ state.status = "received"
        /\ state.live = session[s].live /\ state.client = session[s].client
    BY <1>1, <2>1 DEF SessionStates, Completed
  <2>4. "received" \in Completed /\ session[s].client # NoClient
    BY <2>2 DEF Completed, ServerInv, ServerTypeOK
  <2> HIDE DEF state
  <2> QED
    BY <2>2, <2>3, <2>4, CompleteKeeps
<1>5. CASE ReadFails(s)
  <2> DEFINE state == [session[s] EXCEPT !.status = "failed"]
  <2>1. /\ state \in SessionStates /\ state.status = "failed"
        /\ state.live = session[s].live /\ state.client = session[s].client
    BY <1>1 DEF SessionStates, Completed
  <2>2. /\ Complete(s, state) /\ UNCHANGED <<process, client, thread>>
        /\ session[s].status = "reading" /\ backlog' \subseteq backlog
    BY <1>5 DEF ReadFails
  <2>3. "failed" \in Completed /\ session[s].client # NoClient
    BY <2>2 DEF Completed, ServerInv, ServerTypeOK
  <2> HIDE DEF state
  <2> QED
    BY <2>1, <2>2, <2>3, CompleteKeeps
<1> QED
  BY <1>2, <1>3, <1>4, <1>5 DEF KernelStep

\* The steps of a thread.
LEMMA ThreadKeeps ==
    ASSUME ServerInv, NEW t \in Threads, ThreadStep(t)
    PROVE  ServerInv'
<1> DEFINE s == thread[t].session
           kept == [session[s] EXCEPT !.status = "none"]
<1>1. /\ thread[t] \in ThreadStates /\ thread \in [Threads -> ThreadStates]
      /\ session \in [Sessions -> SessionStates]
      /\ client \in [Clients -> ClientStates]
  BY DEF ServerInv, ServerTypeOK
<1>2. ASSUME thread[t].at \in Handling
      PROVE  /\ s \in Sessions /\ s # NoSession /\ session[s] \in SessionStates
             /\ session[s].status \in {"received", "failed"}
             /\ session[s].client \in Clients
  <2>1. /\ s # NoSession /\ session[s].status \in {"received", "failed"}
    BY <1>2 DEF ServerInv, ServerTypeOK, HandlerFits, Handling
  <2>2. s \in Sessions
    BY <1>1, <2>1 DEF ThreadStates
  <2>3. session[s].client # NoClient
    BY <2>1, <2>2 DEF ServerInv, ServerTypeOK
  <2>4. session[s] \in SessionStates
    BY <1>1, <2>2
  <2>5. session[s].client \in Clients
    <3> HIDE DEF s
    <3> QED
      BY <2>3, <2>4 DEF SessionStates
  <2> QED
    BY <2>1, <2>2, <2>4, <2>5
<1>3. ASSUME thread[t].at \in Handling
      PROVE  kept \in SessionStates /\ kept.status = "none"
  <2> HIDE DEF s
  <2> QED
    BY <1>2, <1>3 DEF SessionStates
<1>4. NoState \in SessionStates /\ NoState.status = "none"
  BY DEF NoState, SessionStates
<1>5. CASE Take(t)
  BY <1>5, TakeKeeps
<1>6. CASE HandleAccept(t)
  BY <1>6, HandleAcceptKeeps
<1>7. CASE StartAccept(t)
  BY <1>7, StartAcceptKeeps
<1>8. CASE NullFactory(t)
  BY <1>8, CrashKeeps
<1>9. CASE DeleteSession(t)
  <2>1. /\ thread[t].at \in Handling
        /\ session' = [session EXCEPT ![s] = NoState]
        /\ thread' = [thread EXCEPT ![t] = Idle]
        /\ UNCHANGED <<process, backlog, client, queue>>
    BY <1>9 DEF DeleteSession, Handling
  <2> HIDE DEF kept
  <2> QED
    BY <1>1, <1>4, <2>1, HandlerEnds
<1>10. ASSUME Reject(t) \/ GetHandler(t) \/ OpenFile(t) \/ Serve(t)
       PROVE  ServerInv'
  <2>1. PICK state \in ThreadStates :
          /\ thread' = [thread EXCEPT ![t] = state]
          /\ state.at \in Handling /\ state.session = thread[t].session
    <3>1. CASE Reject(t)
      <4> DEFINE state == [thread[t] EXCEPT !.at = "write", !.reply = "badrequest"]
      <4>1. state \in ThreadStates
        BY <1>1 DEF ThreadStates
      <4> QED
        BY <1>1, <3>1, <4>1 DEF Reject, ThreadStates, Handling
    <3>2. CASE GetHandler(t)
      <4> DEFINE state == [thread[t] EXCEPT !.at = "serve"]
      <4>1. state \in ThreadStates
        BY <1>1 DEF ThreadStates
      <4> QED
        BY <1>1, <3>2, <4>1 DEF GetHandler, ThreadStates, Handling
    <3>3. CASE OpenFile(t)
      <4> DEFINE state == [thread[t] EXCEPT !.file = TRUE]
      <4>1. state \in ThreadStates
        BY <1>1 DEF ThreadStates
      <4> QED
        BY <1>1, <3>3, <4>1 DEF OpenFile, ThreadStates, Handling
    <3>4. CASE Serve(t)
      <4> DEFINE state == [thread[t] EXCEPT !.at = "write", !.file = FALSE,
                                    !.reply = "served"]
      <4>1. state \in ThreadStates
        BY <1>1 DEF ThreadStates
      <4> QED
        BY <1>1, <3>4, <4>1 DEF Serve, ThreadStates, Handling
    <3> QED
      BY <1>10, <3>1, <3>2, <3>3, <3>4
  <2>2. /\ thread[t].at \in Handling
        /\ UNCHANGED <<process, backlog, client, session, queue>>
    BY <1>10 DEF Reject, GetHandler, OpenFile, Serve, Parsing, Parsed, Handling
  <2> QED
    BY <2>1, <2>2, HandlerGoesOn
<1>11. ASSUME ParseThrows(t) \/ ServeThrows(t) \/ Write(t)
       PROVE  ServerInv'
  <2>1. /\ thread[t].at \in Handling
        /\ session' = [session EXCEPT ![s] = kept]
        /\ thread' = [thread EXCEPT ![t] = Idle]
        /\ UNCHANGED <<process, backlog, queue>>
    BY <1>11 DEF ParseThrows, ServeThrows, Write, Abandon, Parsing, Handling
  <2>2. client' \in [Clients -> ClientStates]
    <3>1. CASE ParseThrows(t) \/ ServeThrows(t)
      BY <1>1, <3>1 DEF ParseThrows, ServeThrows
    <3>2. CASE Write(t)
      <4> DEFINE c == session[s].client
                 reply == IF client[c].conn = "open"
                          THEN thread[t].reply ELSE client[c].reply
      <4>1. c \in Clients
        BY <1>2, <2>1
      <4>2. client[c] \in ClientStates
        BY <1>1, <4>1
      <4>3. client' = [client EXCEPT ![c].reply = reply]
        BY <3>2 DEF Write
      <4>4. reply \in {"none", "served", "badrequest"}
        <5> HIDE DEF c
        <5> QED
          BY <1>1, <4>2 DEF ThreadStates, ClientStates
      <4> HIDE DEF c, reply
      <4>5. [client[c] EXCEPT !.reply = reply] \in ClientStates
        BY <4>2, <4>4 DEF ClientStates
      <4> QED
        BY <1>1, <4>1, <4>3, <4>5
    <3> QED
      BY <1>11, <3>1, <3>2
  <2>3. kept \in SessionStates /\ kept.status = "none"
    BY <1>3, <2>1
  <2> HIDE DEF kept
  <2> QED
    BY <2>1, <2>2, <2>3, HandlerEnds
<1> QED
  BY <1>5, <1>6, <1>7, <1>8, <1>9, <1>10, <1>11 DEF ThreadStep

\* The three invariants hold together.
LEMMA ServerInvariant == ServerSpec => []ServerInv
<1>1. ServerInv /\ [ServerNext]_vars => ServerInv'
  <2> SUFFICES ASSUME ServerInv, [ServerNext]_vars PROVE ServerInv'
    OBVIOUS
  <2>1. CASE ServerNext
    BY <2>1, ClientKeeps, KernelKeeps, ThreadKeeps DEF ServerNext
  <2>2. CASE UNCHANGED vars
    <3>1. UNCHANGED <<process, backlog, client, session, queue, thread>>
      BY <2>2 DEF vars
    <3>2. \A t \in Threads : HandlerFits(t)'
      BY <3>1 DEF ServerInv, ServerTypeOK, HandlerFits
    <3> QED
      BY <3>1, <3>2 DEF ServerInv, ServerTypeOK, OneAccept, Accepting, Starting,
                        SessionsOutliveHandlers
  <2> QED
    BY <2>1, <2>2
<1> QED
  BY <1>1, ServerInvInit, PTL DEF ServerSpec

\* Whatever clients do and however the handlers on the threads of server::run
\* interleave, the handler that runs fits what its operation came to.
THEOREM ServerTypeCorrect == ServerSpec => []ServerTypeOK
BY ServerInvariant, PTL DEF ServerInv

\* handle_accept and start_accept keep exactly one accept under way, for as
\* long as the process lives, also when accepts fail.
THEOREM AcceptChainHolds == ServerSpec => []OneAccept
BY ServerInvariant, PTL DEF ServerInv

\* delete this and delete new_session never leave the io_service with a
\* session that is gone.
THEOREM NoUseAfterDelete == ServerSpec => []SessionsOutliveHandlers
BY ServerInvariant, PTL DEF ServerInv
=============================================================================
