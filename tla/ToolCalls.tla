------------------------------- MODULE ToolCalls -------------------------------
(***************************************************************************)
(* A conversation of Codex with models behind the gateway: how the tools it  *)
(* declares are told to a provider, and how the provider's calls come back   *)
(* (ai_gateway/tool_names.rs, responses_lite_tools.rs, responses_compat.rs,  *)
(* transform/, providers/).                                                  *)
(* Each request builds its names anew, from the calls in the history and the *)
(* tools; a tool choice names one of the tools.  A name is a sequence of     *)
(* characters; "~" stands for the marker between a namespace and a name.     *)
(* Schemas, wording and the arguments of calls are left out, and so are      *)
(* client tools of Anthropic's own and the private state of providers.       *)
(***************************************************************************)
EXTENDS Naturals, SequencesExt

CONSTANTS
  Declared,       \* what Codex may declare: sequences of tools
  Loadable,       \* what a tool search may find
  Upstreams,       \* the providers
  TypeOf,         \* and the protocol of each
  NameLimit,      \* the longest name a provider takes (64 in the code)
  HashLength,     \* the length of "_h" and the hash (12 in the code)
  MaxTold         \* bound: requests of the conversation

ASSUME ToolCallsAssumption ==
  /\ {NameLimit, HashLength, MaxTold} \subseteq Nat /\ HashLength < NameLimit
  /\ TypeOf \in [Upstreams -> {"openai", "grok", "chat", "anthropic"}]

VARIABLES
  declared,   \* the tools of this conversation
  talk,       \* its history: calls and what a search found
  with,       \* the provider of the request under way
  names,      \* the names of that request
  advertised, \* the tools as the provider sees them
  replayed,   \* the calls of the history as the provider sees them
  told        \* how many requests there were

toolVars == <<declared, talk, with, names, advertised, replayed, told>>

Resting == "nobody"
Target(kind, space, name) == [kind |-> kind, space |-> space, name |-> name]
SearchTool == Target("search", <<>>, <<"s">>)
WebTool == Target("web", <<>>, <<"w">>)
NoTarget == Target("none", <<>>, <<>>)

-----------------------------------------------------------------------------
\* tool_names.rs

\* hash: the target a shortened or disambiguated name was made for
Plain(text) == [text |-> text, hash |-> NoTarget]
NoNames == [of |-> <<>>, back |-> <<>>]

\* "." stands for any character a provider's names may not have
Safe(text) == IF text = <<>> THEN <<"t">> ELSE [i \in DOMAIN text |-> IF text[i] = "." THEN "_" ELSE text[i]]

Preferred(target) ==
  IF target.kind = "function" /\ target.space # <<>> /\ target.name # <<>>
  THEN target.space \o <<"~">> \o target.name
  ELSE target.name

\* room for the hash; "tool" if nothing is left (the counter tells apart two
\* targets of one hash, and here no two have)
Shortened(base) ==
  LET prefix == SubSeq(base, 1, IF Len(base) < NameLimit - HashLength THEN Len(base) ELSE NameLimit - HashLength)
      last   == SelectLastInSeq(prefix, LAMBDA c : c # "_")
  IN IF last = 0 THEN <<"t">> ELSE SubSeq(prefix, 1, last)

Hashed(base, target) == [text |-> Shortened(base), hash |-> target]

AllocateAnyway(map, target) == Plain(Safe(Preferred(target)))
Allocate(map, target) ==
  LET base == Safe(Preferred(target))
      free == Plain(base) \notin DOMAIN map.back \/ map.back[Plain(base)] = target
  IN IF Len(base) <= NameLimit /\ free THEN Plain(base) ELSE Hashed(base, target)

InsertName(map, encoded, target) ==
  [of |-> (target :> encoded) @@ map.of, back |-> (encoded :> target) @@ map.back]

Encode(map, target) == IF target \in DOMAIN map.of THEN map ELSE InsertName(map, Allocate(map, target), target)
EncodeAll(map, targets) == FoldLeft(Encode, map, targets)

\* a name the request did not give is taken apart
Unknown(encoded) ==
  LET at == SelectInSeq(encoded.text, LAMBDA c : c = "~")
  IN IF encoded = Plain(SearchTool.name) THEN SearchTool
     ELSE IF at > 1 /\ at < Len(encoded.text)
     THEN Target("function", SubSeq(encoded.text, 1, at - 1), SubSeq(encoded.text, at + 1, Len(encoded.text)))
     ELSE Target("function", <<>>, encoded.text)

Decode(map, encoded) == IF encoded \in DOMAIN map.back THEN map.back[encoded] ELSE Unknown(encoded)

-----------------------------------------------------------------------------
\* The history.

Call(target) == [does |-> "call", target |-> target]
Found(target) == [does |-> "found", target |-> target]

Those(does) == SelectSeq(talk, LAMBDA item : item.does = does)
Targets(items) == [i \in DOMAIN items |-> items[i].target]
CallsMade == Targets(Those("call"))
Loaded == Targets(Those("found"))

IsNamed(target) == target.kind \in {"function", "custom", "search"}
OnesNamed(targets) == SelectSeq(targets, IsNamed)

\* merge_tool: a tool given again is dropped
Distinct(targets) ==
  FoldLeft(LAMBDA got, target : IF target \in Range(got) THEN got ELSE Append(got, target), <<>>, targets)

-----------------------------------------------------------------------------
\* What a provider is told: the names, the tools, the calls of the history.

Told(map, tools, calls) == [names |-> map, tools |-> tools, calls |-> calls]
AsThemselves(targets) == [i \in DOMAIN targets |-> Plain(targets[i].name)]
AsEncoded(map, targets) == [i \in DOMAIN targets |-> map.of[targets[i]]]

\* passed through, no names are made; what a search found is in the history
OpenAiTold == Told(NoNames, AsThemselves(declared \o Loaded), AsThemselves(CallsMade))

\* functions and custom tools become functions, others stay as they are
IsConverted(tool) == tool.kind \in {"function", "custom"}
GrokTools(map, tools) ==
  [i \in DOMAIN tools |-> IF IsConverted(tools[i]) THEN map.of[tools[i]] ELSE Plain(tools[i].name)]

\* the calls come after the tools; a function without a namespace keeps its name
IsRenamed(call) == call.kind = "custom" \/ call.space # <<>>
GrokCalls(map, calls) ==
  [i \in DOMAIN calls |-> IF IsRenamed(calls[i]) THEN map.of[calls[i]] ELSE Plain(calls[i].name)]
GrokTold ==
  LET tools == Distinct(declared)
      map == EncodeAll(NoNames, SelectSeq(tools, IsConverted) \o SelectSeq(CallsMade, IsRenamed))
  IN Told(map, GrokTools(map, tools), GrokCalls(map, CallsMade))

\* hosted tools are left out; the search tool is always told by its own name
ChatTool(map, tool) == IF tool = SearchTool THEN Plain(SearchTool.name) ELSE map.of[tool]
ChatTold ==
  LET tools == OnesNamed(Distinct(declared) \o Loaded)
      map == EncodeAll(NoNames, OnesNamed(CallsMade) \o tools)
  IN Told(map,
          [i \in DOMAIN tools |-> ChatTool(map, tools[i])],
          AsEncoded(map, OnesNamed(CallsMade)))

\* the web search becomes a tool whose calls the gateway answers, and searches
\* of the past are calls of it
AnthropicTool(map, tool) == IF tool = WebTool THEN Plain(WebTool.name) ELSE map.of[tool]
AnthropicCalls(map, calls) == [i \in DOMAIN calls |-> AnthropicTool(map, calls[i])]
AnthropicTold ==
  LET tools == Distinct(declared) \o Loaded
      map == EncodeAll(NoNames, OnesNamed(CallsMade) \o OnesNamed(tools))
  IN Told(map,
          [i \in DOMAIN tools |-> AnthropicTool(map, tools[i])],
          AnthropicCalls(map, CallsMade))

ToldTo(account) ==
  CASE TypeOf[account] = "openai"    -> OpenAiTold
    [] TypeOf[account] = "grok"      -> GrokTold
    [] TypeOf[account] = "chat"      -> ChatTold
    [] TypeOf[account] = "anthropic" -> AnthropicTold

-----------------------------------------------------------------------------
\* The conversation.

ToolCallsInit ==
  /\ declared \in Declared /\ talk = <<>> /\ told = 0
  /\ with = Resting /\ names = NoNames /\ advertised = <<>> /\ replayed = <<>>

\* routed by weight and health, so the provider may be another each time
Tell(account) ==
  /\ with = Resting /\ told < MaxTold /\ told' = told + 1
  /\ with' = account
  /\ names' = ToldTo(account).names /\ advertised' = ToldTo(account).tools
  /\ replayed' = ToldTo(account).calls
  /\ UNCHANGED <<declared, talk>>

\* the call a provider makes, as Codex gets it: Grok's calls are rewritten in
\* the Responses events it streams, the others' in what they are converted to
GrokRestored(encoded, target) ==
  IF target.kind = "function" /\ encoded \in DOMAIN names.back THEN Decode(names, encoded) ELSE target
ChatRestored(encoded) == Decode(names, encoded)
AnthropicRestored(encoded) == IF encoded = Plain(WebTool.name) THEN WebTool ELSE Decode(names, encoded)

Restored(encoded, target) ==
  CASE TypeOf[with] = "openai"    -> target
    [] TypeOf[with] = "grok"      -> GrokRestored(encoded, target)
    [] TypeOf[with] = "chat"      -> ChatRestored(encoded)
    [] TypeOf[with] = "anthropic" -> AnthropicRestored(encoded)

\* the tools of a passed-through request are called by kind as well
CalledAs(i) ==
  CASE TypeOf[with] = "openai" -> (declared \o Loaded)[i]
    [] TypeOf[with] = "grok" /\ ~IsConverted(Distinct(declared)[i]) -> Distinct(declared)[i]
    [] OTHER -> Target("function", <<>>, advertised[i].text)

\* Codex runs the call; a tool search may find a tool
CallMade ==
  /\ with # Resting /\ with' = Resting
  /\ \E i \in DOMAIN advertised :
       LET target == Restored(advertised[i], CalledAs(i))
       IN \E found \in IF target = SearchTool THEN {<<Found(t)>> : t \in Loadable} \cup {<<>>} ELSE {<<>>} :
            talk' = talk \o <<Call(target)>> \o found
  /\ names' = NoNames /\ advertised' = <<>> /\ replayed' = <<>>
  /\ UNCHANGED <<declared, told>>

\* the request fails, or is answered with nothing but text
NoCallMade ==
  /\ with # Resting /\ with' = Resting
  /\ names' = NoNames /\ advertised' = <<>> /\ replayed' = <<>>
  /\ UNCHANGED <<declared, talk, told>>

ToolCallsNext == (\E account \in Upstreams : Tell(account)) \/ CallMade \/ NoCallMade

ToolCallsSpec == ToolCallsInit /\ [][ToolCallsNext]_toolVars

-----------------------------------------------------------------------------
\* Two names are fixed whatever else is called so: a Chat provider is told of
\* the tool search by its own, and what an Anthropic provider calls by that of
\* the web search is a web search.
TellableTools ==
  SelectSeq(Distinct(declared) \o Loaded,
            LAMBDA t : IsNamed(t) \/ (t = WebTool /\ TypeOf[with] = "anthropic"))
CalledLike(fixed) == {t \in Range(declared \o Loaded) : IsConverted(t) /\ Safe(Preferred(t)) = fixed.name}
Mistaken ==
  LET fixed == IF TypeOf[with] = "anthropic" THEN WebTool ELSE SearchTool
  IN IF fixed = WebTool \/ fixed \in Range(declared) THEN CalledLike(fixed) \cup {fixed} ELSE {}

\* Whatever a provider calls by a name it was given comes back to Codex as a
\* tool Codex has: of the same kind, in its namespace, under its own name.
\* The exception: what is called like the web search may come back as one.
CallsComeBack ==
  \A i \in DOMAIN talk :
    talk[i].does = "call" =>
      \/ talk[i].target \in Range(declared) \cup Range(Loaded)
      \/ talk[i].target = WebTool /\ CalledLike(WebTool) # {}

\* A provider sees each earlier call under the name the tool has now, whatever
\* provider made it, and no two tools have one name; but for a tool called
\* like one of the fixed names, which may be taken for the tool of that name.
HistoryAgrees ==
  with \in {account \in Upstreams : TypeOf[account] \in {"chat", "anthropic"}} =>
    /\ \A i \in DOMAIN replayed :
         LET call == (IF TypeOf[with] = "anthropic" THEN CallsMade ELSE OnesNamed(CallsMade))[i]
         IN \/ replayed[i] \in Range(advertised) /\ Restored(replayed[i], NoTarget) = call
            \/ call \in Mistaken /\ Cardinality(Mistaken) > 1
    /\ \A i, j \in DOMAIN advertised :
         advertised[i] = advertised[j] =>
           TellableTools[i] = TellableTools[j] \/ {TellableTools[i], TellableTools[j]} \subseteq Mistaken

\* Tools keep their names on the way to a provider and back, now and in the
\* calls of the past, unless a tool is called like the tool search or the web
\* search (tool_names.rs:111, responses_to_chat.rs:252, response.rs:202).
NamesHold == CallsComeBack /\ HistoryAgrees
=============================================================================
