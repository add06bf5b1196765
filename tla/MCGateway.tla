----------------------------- MODULE MCGateway -----------------------------
(* Instances of Gateway, the streams, the histories and the tools for TLC.  *)
EXTENDS Gateway, Streams, Histories, ToolCalls

CONSTANTS r1, r2, r3, p1, p2, chat1, c1, c2

\* the two providers have equal weight, so the HRW score decides
Weights == (p1 :> 1) @@ (p2 :> 1)
Scores == [sp \in (Sessions \cup {NoSession}) \X Providers |->
             IF sp \in {<<chat1, p2>>, <<NoSession, p1>>} THEN 2 ELSE 1]

\* Functions, custom tools and the two built-in ones: names that are alike
\* until a namespace is put before them, that are too long, that a provider
\* does not take, that are the name of the tool search or the web search.
F(space, name) == Target("function", space, name)
Custom(name) == Target("custom", <<>>, name)
MCDeclared ==
  { <<F(<<>>, <<"a">>), Custom(<<"a">>), F(<<"a">>, <<"b">>), F(<<>>, <<"a", "~", "b">>),
       F(<<>>, SearchTool.name)>>,
    <<F(<<"a">>, <<"a", "b", "a">>), F(<<"a">>, <<"a", "b", "a", "b">>), SearchTool, WebTool>>,
    <<Custom(<<"a", ".">>), F(<<>>, <<"a", "_">>), Custom(<<"a", "_">>), SearchTool>>,
    <<F(<<>>, SearchTool.name), SearchTool, Custom(WebTool.name), F(<<>>, <<"a">>)>>,
    <<SearchTool, Custom(SearchTool.name), F(<<>>, WebTool.name), WebTool>> }
MCLoadable == {F(<<"a">>, <<"b">>), F(<<"a", ".">>, <<"a", "b", "b">>)}
MCTypeOf == [u \in Upstreams |->
               CASE u = "codex" -> "openai" [] u = "xai" -> "grok" [] u = "deepseek" -> "chat" [] OTHER -> "anthropic"]
NoTools ==
  /\ declared = <<>> /\ talk = <<>> /\ told = 0 /\ with = Resting /\ names = NoNames
  /\ advertised = <<>> /\ replayed = <<>>

Asked(kinds, session) ==
  \E k \in kinds : req = [r \in Requests |-> Fresh(k[r], session[r])]

\* Routing and the log share nothing but the request, so they are explored
\* one at a time: three requests that are not logged, against the breaker
\* and the clock; or two logged ones on one provider.  A streamed answer is
\* explored with no request beside it, and so are a history and the tools.
Routing ==
  /\ config = [enabled |-> Providers, log |-> FALSE] /\ clock = 0
  /\ used = MaxEvent
  /\ Asked({(r1 :> "unary") @@ (r2 :> "unary") @@ (r3 :> "search")},
           (r1 :> chat1) @@ (r2 :> chat1) @@ (r3 :> NoSession))

Logging ==
  /\ config = [enabled |-> {p1}, log |-> TRUE] /\ clock = MaxClock
  /\ used = 0
  /\ Asked({(r1 :> "stream") @@ (r2 :> k) @@ (r3 :> "none") : k \in {"internal", "unary"}},
           [r \in Requests |-> NoSession])

Streaming ==
  /\ config = [enabled |-> {p1}, log |-> FALSE] /\ clock = MaxClock
  /\ used = MaxEvent
  /\ Asked({[r \in Requests |-> "none"]}, [r \in Requests |-> NoSession])

MCInit ==
  /\ \/ (Routing \/ Logging) /\ StreamInit("off") /\ HistoryInit("off") /\ NoTools
     \/ /\ Streaming /\ HistoryInit("off") /\ NoTools
        /\ \E provider \in {"chat", "anthropic", "glm", "internal"} : StreamInit(provider)
     \/ /\ Streaming /\ StreamInit("off") /\ NoTools
        /\ \E f \in {"orderly", "loose"} : HistoryInit(f)
     \/ Streaming /\ StreamInit("off") /\ HistoryInit("off") /\ ToolCallsInit
  /\ Init

\* a streamed answer whose reader is gone stays as it is, and so do a
\* history and a conversation at their bounds
MCNext ==
  \/ via = "off" /\ form = "off" /\ declared = <<>> /\ Next /\ UNCHANGED <<streamVars, historyVars, toolVars>>
  \/ StreamStep /\ UNCHANGED <<vars, historyVars, toolVars>>
  \/ HistoryNext /\ UNCHANGED <<vars, streamVars, toolVars>>
  \/ declared # <<>> /\ ToolCallsNext /\ UNCHANGED <<vars, streamVars, historyVars>>
  \/ /\ form # "off" \/ declared # <<>> \/ (via # "off" /\ client.phase \in {"closed", "broken"})
     /\ UNCHANGED <<vars, streamVars, historyVars, toolVars>>

MCSpec == MCInit /\ [][MCNext]_<<vars, streamVars, historyVars, toolVars>> /\ Fairness
=============================================================================
