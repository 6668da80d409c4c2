----------------------------- MODULE Dispatcher -----------------------------
(***************************************************************************)
(* The Dispatcher (src/dispatcher.cc): routes made from the locations of   *)
(* the config file, and the search for the route of a request.  A path is  *)
(* a sequence of character codes.  A session has a Dispatcher of its own,  *)
(* made for it and used for one request.                                   *)
(***************************************************************************)
EXTENDS Integers, Sequences, SequencesExt, Characters

CONSTANTS
    Paths,      \* paths that a config gives locations
    Targets,    \* targets of requests
    Handlers,   \* names of handlers in a config, misspelt ones included
    Roots       \* root directories

\* The names that dispatch knows, and those it gives a root.
KnownHandlers == {"EchoHandler", "StaticHandler", "ErrorHandler", "CRUDHandler",
                  "HealthHandler", "SleepHandler", "MarkdownHandler"}
RootedHandlers == {"StaticHandler", "CRUDHandler", "HealthHandler",
                   "MarkdownHandler"}
NoRoot == ""

\* A path begins with a slash.
IsPath(p) == p \in Seq(Int) /\ p # <<>> /\ p[1] = Slash

ASSUME DispatcherAssumption ==
    /\ \A p \in Paths : IsPath(p)
    /\ Targets \subseteq Seq(Int)
    /\ NoRoot \notin Roots

VARIABLES
    path_to_handler,    \* location -> handler name
    path_to_root,       \* location -> root, where the config has one
    todo,               \* locations that dispatch has yet to see
    routes,             \* path -> the factory for it
    stage,              \* "dispatching", "ready", "searching", "done"
    target,             \* the target of the request, once it is there
    unseen,             \* routes that split_uri has yet to compare
    matched_path,
    found               \* what get_handler takes, or NoFactory, a null pointer

config == <<path_to_handler, path_to_root>>
dispatcherVars == <<config, todo, routes, stage, target, unseen, matched_path,
                    found>>

NoFactory == [handler |-> "none", root |-> NoRoot]
Factories == [handler : KnownHandlers, root : Roots \cup {NoRoot}]

\* trim_slashes: the path up to its last character that is no slash.
Trim(p) == SubSeq(p, 1, CHOOSE n \in 1 .. Len(p) :
                            /\ n = 1 \/ p[n] # Slash
                            /\ \A i \in n + 1 .. Len(p) : p[i] = Slash)

\* p comes before q, or is q, in the order of std::map.
Before(p, q) == \/ IsPrefix(p, q)
                \/ \E i \in 1 .. Len(p) :
                     /\ i <= Len(q) /\ p[i] < q[i]
                     /\ \A j \in 1 .. i - 1 : p[j] = q[j]

Known(p) == p \in DOMAIN path_to_handler /\ path_to_handler[p] \in KnownHandlers

\* The factory that dispatch makes; the root is looked up by the trimmed path.
Factory(p) ==
    [handler |-> path_to_handler[p],
     root |-> IF path_to_handler[p] \in RootedHandlers
                 /\ Trim(p) \in DOMAIN path_to_root
              THEN path_to_root[Trim(p)] ELSE NoRoot]

-----------------------------------------------------------------------------
DispatcherInit ==
    /\ \E locations \in SUBSET Paths :
         /\ path_to_handler \in [locations -> Handlers]
         /\ \E rooted \in SUBSET locations : path_to_root \in [rooted -> Roots]
         /\ todo = locations
    /\ routes = << >>
    /\ stage = "dispatching"
    /\ target = <<>>
    /\ unseen = {}
    /\ matched_path = <<>>
    /\ found = NoFactory

\* Mutant: a later location replaces the route of an earlier one.
DispatchLast(p) ==
    /\ p \in todo /\ \A q \in todo : Before(p, q)
    /\ routes' = IF Known(p)
                 THEN [q \in DOMAIN routes \cup {Trim(p)} |->
                          IF q = Trim(p) THEN Factory(p) ELSE routes[q]]
                 ELSE routes
    /\ todo' = todo \ {p}
    /\ UNCHANGED <<config, stage, target, unseen, matched_path, found>>

\* Mutant: a misspelt handler gets a route.
DispatchAnything(p) ==
    /\ p \in todo /\ \A q \in todo : Before(p, q)
    /\ routes' = IF Trim(p) \notin DOMAIN routes
                 THEN [q \in DOMAIN routes \cup {Trim(p)} |->
                          IF q = Trim(p) THEN Factory(p) ELSE routes[q]]
                 ELSE routes
    /\ todo' = todo \ {p}
    /\ UNCHANGED <<config, stage, target, unseen, matched_path, found>>

\* dispatch, for the next location of the loop in initialize_handlers: the
\* first one with a trimmed path keeps the route, and a handler of another
\* name gets none.
Dispatch(p) ==
    /\ p \in todo /\ \A q \in todo : Before(p, q)
    /\ routes' = IF Known(p) /\ Trim(p) \notin DOMAIN routes
                 THEN [q \in DOMAIN routes \cup {Trim(p)} |->
                          IF q = Trim(p) THEN Factory(p) ELSE routes[q]]
                 ELSE routes
    /\ todo' = todo \ {p}
    /\ UNCHANGED <<config, stage, target, unseen, matched_path, found>>

\* The end of initialize_handlers.
Initialized ==
    /\ stage = "dispatching" /\ todo = {}
    /\ stage' = "ready"
    /\ UNCHANGED <<config, todo, routes, target, unseen, matched_path, found>>

\* get_handler is called with a request, and goes to split_uri.
SplitUri(t) ==
    /\ stage = "ready"
    /\ stage' = "searching"
    /\ target' = t
    /\ unseen' = DOMAIN routes
    /\ UNCHANGED <<config, todo, routes, matched_path, found>>

\* Mutant: the last prefix that is met wins, longest or not.
CompareLast(r) ==
    /\ r \in unseen /\ \A q \in unseen : Before(r, q)
    /\ matched_path' = IF Len(r) > Len(matched_path) THEN r ELSE matched_path
    /\ unseen' = unseen \ {r}
    /\ UNCHANGED <<config, todo, routes, stage, target, found>>

\* One round of the loop in split_uri.
Compare(r) ==
    /\ r \in unseen /\ \A q \in unseen : Before(r, q)
    /\ matched_path' = IF IsPrefix(r, target) /\ Len(r) > Len(matched_path)
                       THEN r ELSE matched_path
    /\ unseen' = unseen \ {r}
    /\ UNCHANGED <<config, todo, routes, stage, target, found>>

Root == <<Slash>>

\* get_handler after split_uri: with no match it takes routes["/"], which is a
\* null pointer when nothing is routed there.
GetHandler ==
    /\ stage = "searching" /\ unseen = {}
    /\ stage' = "done"
    /\ found' = IF matched_path \in DOMAIN routes THEN routes[matched_path]
                ELSE IF Root \in DOMAIN routes THEN routes[Root] ELSE NoFactory
    /\ UNCHANGED <<config, todo, routes, target, unseen, matched_path>>

DispatcherNext == \/ \E p \in todo : Dispatch(p)
                  \/ Initialized
                  \/ \E t \in Targets : SplitUri(t)
                  \/ \E r \in unseen : Compare(r)
                  \/ GetHandler

DispatcherSpec == DispatcherInit /\ [][DispatcherNext]_dispatcherVars

-----------------------------------------------------------------------------
\* The type invariant of the config, of the routes and of the search.
DispatcherTypeOK ==
    /\ path_to_handler \in [DOMAIN path_to_handler -> Handlers]
    /\ path_to_root \in [DOMAIN path_to_root -> Roots]
    /\ DOMAIN path_to_root \subseteq DOMAIN path_to_handler
    /\ \A p \in DOMAIN path_to_handler : IsPath(p)
    /\ todo \subseteq DOMAIN path_to_handler
    /\ routes \in [DOMAIN routes -> Factories]
    /\ DOMAIN routes \subseteq Seq(Int)
    /\ stage \in {"dispatching", "ready", "searching", "done"}
    /\ target \in Seq(Int)
    /\ unseen \subseteq DOMAIN routes
    /\ matched_path \in DOMAIN routes \cup {<<>>}
    /\ found \in Factories \cup {NoFactory}

\* Location p covers the request; no location that does is longer than p.
Covers(p) == Known(p) /\ IsPrefix(Trim(p), target)
Longest(p) ==
    /\ Covers(p)
    /\ \A q \in DOMAIN path_to_handler :
         Covers(q) => Len(Trim(q)) <= Len(Trim(p))

\* The comment on split_uri, "longest matching prefix", against the config
\* file: what the loop over the routes finds is the longest of the configured
\* locations that cover the request, slashes at their end apart, and nothing
\* only if none does.
LongestMatch ==
    stage = "done" =>
        IF \E p \in DOMAIN path_to_handler : Covers(p)
        THEN \E p \in DOMAIN path_to_handler :
                 Longest(p) /\ matched_path = Trim(p)
        ELSE matched_path = <<>>

\* Of two locations with one trimmed path only the first to be dispatched gets
\* a route, and the request of the other is handled by it.  The order of the
\* map makes this safe: a location written without slashes at its end always
\* keeps its own handler, with its own root.
ExactLocationWins ==
    stage = "done" =>
        \A p \in DOMAIN path_to_handler :
            Longest(p) /\ p = Trim(p) =>
                /\ found.handler = path_to_handler[p]
                /\ found.handler \in RootedHandlers /\ p \in DOMAIN path_to_root
                     => found.root = path_to_root[p]

\* What the comment in dispatch says, "find the root for the particular
\* handler", for the only location of a request: the factory has the root that
\* the config file gives this location.
RootFound ==
    stage = "done" =>
        \A p \in DOMAIN path_to_root :
            /\ DOMAIN path_to_handler = {p}
            /\ Longest(p)
            /\ path_to_handler[p] \in RootedHandlers
            => found.root = path_to_root[p]
=============================================================================
