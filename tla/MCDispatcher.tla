---------------------------- MODULE MCDispatcher ----------------------------
(***************************************************************************)
(* A config with up to five locations, among them one path with and        *)
(* without a slash at its end and two that go on from it, in a name and    *)
(* below it; requests for them, for more than they cover, and for nothing. *)
(***************************************************************************)
EXTENDS Dispatcher

A == 97
B == 98

MCPaths == {<<Slash>>, <<Slash, A>>, <<Slash, A, Slash>>, <<Slash, A, B>>,
            <<Slash, A, Slash, B>>}
MCTargets == {<<Slash>>, <<Slash, A>>, <<Slash, A, B, B>>,
              <<Slash, A, Slash, B>>, <<Slash, B>>}
MCHandlers == {"EchoHandler", "StaticHandler", "StatcHandler"}
MCRoots == {"files"}
=============================================================================
