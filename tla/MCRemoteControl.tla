--------------------------- MODULE MCRemoteControl ---------------------------
(* Instances of RemoteControl for TLC.                                      *)
EXTENDS RemoteControl

CONSTANTS im

\* requests of IM routes are for the client of the route, those of session
\* discovery for the default client of the connection they name
RouteOrDefault == [c \in Callers |-> IF c \in Targeted THEN Default ELSE im]

(* bound: a new WebSocket opens only after the last one was cleaned up      *)
OneAtATime == Cardinality(remote.live) <= 1
=============================================================================
