---------------------------- MODULE MCAgentGateway ---------------------------
(***************************************************************************)
(* A small deployment of AgentGateway for TLC.                             *)
(***************************************************************************)
EXTENDS AgentGateway, TLC

CONSTANTS a1, a2, e1, s1, openai, anthropic, p1

\* All requests are served by the API process.
OneProcess == [c \in {a1, a2, e1} |-> "api"]

AllActions == [p \in {s1} |-> Actions]

Route(action, priority, provider, fallback) ==
    [platform |-> None, action |-> action, priority |-> priority,
     provider |-> provider, fallback |-> fallback]

\* A default route, and one for chats that has no fallback.
SomeRoutes == {Route(None, 1, openai, anthropic), Route("chat", 0, anthropic, None)}

Interchange == Permutations(Chats)
=============================================================================
