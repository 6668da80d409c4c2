------------------------------ MODULE FrontEnd ------------------------------
(***************************************************************************)
(* From the two texts the server is given to the handler that serves: the  *)
(* config file, parsed by main for a port and by a session for its routes, *)
(* and the request that the session reads.  Composes ConfigParser,         *)
(* RequestParser and Dispatcher, whose config is here what the characters  *)
(* of a config file come to.                                               *)
(***************************************************************************)
EXTENDS Dispatcher, ConfigParser, RequestParser

CONSTANT Spelled    \* word -> the name that it is in the Dispatcher

frontEndVars == <<dispatcherVars, configVars, requestVars>>

\* A name that the Dispatcher knows is one word; others are all alike to it.
Name(t) == IF Len(t) = 1 /\ t[1] \in DOMAIN Spelled THEN Spelled[t[1]] ELSE "other"

\* The names that handlers and roots have then.
Names == Range(Spelled) \cup {"other"}

ASSUME FrontEndAssumption ==
    /\ Names \subseteq Handlers \cap Roots
    /\ \A file \in ConfigFiles : file.text \in Seq(Int)

Named(f) == [p \in DOMAIN f |-> Name(f[p])]

FrontEndInit ==
    /\ ConfigInit
    /\ path_to_handler = << >>
    /\ path_to_root = << >>
    /\ todo = {}
    /\ routes = << >>
    /\ stage = "dispatching"
    /\ target = <<>>
    /\ unseen = {}
    /\ matched_path = <<>>
    /\ found = NoFactory
    /\ RequestInit

Configure ==
    /\ \/ ParseStep
       \/ PortStep
       \/ LocationStep
    /\ UNCHANGED <<dispatcherVars, requestVars>>

\* ExtractLocation returns to initialize_handlers.
InitializeHandlers ==
    /\ ExtractEnds
    /\ path_to_handler' = Named(location_info.handler)
    /\ path_to_root' = Named(location_info.root)
    /\ todo' = DOMAIN path_to_handler'
    /\ UNCHANGED <<routes, stage, target, unseen, matched_path, found,
                   requestVars>>

Serving == /\ phase = "serving"
           /\ UNCHANGED configVars

DispatchLocations ==
    /\ Serving
    /\ (\E p \in todo : Dispatch(p)) \/ Initialized
    /\ UNCHANGED requestVars

\* handle_read: the request parses, and get_handler is asked for its handler.
HandleRead ==
    /\ Serving
    /\ stage = "ready"
    /\ Read
    /\ SplitUri(info'.query)

\* It does not parse, and the Dispatcher is not asked.
RejectRead ==
    /\ Serving
    /\ stage = "ready"
    /\ Reject
    /\ UNCHANGED dispatcherVars

Route ==
    /\ Serving
    /\ (\E r \in unseen : Compare(r)) \/ GetHandler
    /\ UNCHANGED requestVars

FrontEndNext == \/ Configure
                \/ InitializeHandlers
                \/ DispatchLocations
                \/ HandleRead
                \/ RejectRead
                \/ Route

\* One thread runs main and then the session; nothing else holds it up.
FrontEndSpec == /\ FrontEndInit
                /\ [][FrontEndNext]_frontEndVars
                /\ WF_frontEndVars(FrontEndNext)

-----------------------------------------------------------------------------
\* The locations that ExtractLocation found and that cover a request.
Covering(r) ==
    {p \in DOMAIN location_info.handler :
        /\ Name(location_info.handler[p]) \in KnownHandlers
        /\ IsPrefix(Trim(p), r.target)}

\* From the one text and the other to the handler: a request for a path is
\* served by the handler of a longest location of the file that covers its
\* target as it was sent, and by a null pointer only if no location does.
ServedAsFound ==
    stage = "done" =>
        \A r \in {s \in Sendings : sent = RequestText(s)} :
            IF Covering(r) = {} THEN found = NoFactory
            ELSE \E p \in Covering(r) :
                     /\ found.handler = Name(location_info.handler[p])
                     /\ \A q \in Covering(r) : Len(Trim(q)) <= Len(Trim(p))
=============================================================================
