------------------------------ MODULE Histories ------------------------------
(***************************************************************************)
(* What an upstream is sent of a conversation: the history of Responses    *)
(* items is rewritten as messages of Chat Completions                      *)
(* (transform/responses_to_chat.rs, for DeepSeek) or of Anthropic          *)
(* (providers/anthropic_messages/request_content.rs).  Both upstreams      *)
(* refuse a request in which a call of a tool and its result are not where *)
(* they belong, and then the conversation cannot go on.                    *)
(***************************************************************************)
EXTENDS Naturals, Sequences, FiniteSets, SequencesExt

CONSTANTS
  Ids,         \* the call ids
  NoId,        \* an output without one
  MaxItem,     \* bound: items of an orderly history
  MaxLoose     \* bound: items of any other

ASSUME HistoriesAssumption == NoId \notin Ids /\ MaxItem \in Nat /\ MaxLoose \in Nat

VARIABLES
  form,        \* "off", "orderly" or "loose"
  items,       \* GatewayRequest.input
  phase,       \* of an orderly history: "idle", "asked", "answering", "running"
  owed         \* its calls without an output

historyVars == <<form, items, phase, owed>>

\* an output may hold an image; texts, names and arguments are left out
Item(kind, id) == [kind |-> kind, id |-> id, image |-> FALSE]
Output(id, image) == [kind |-> "output", id |-> id, image |-> image]
Calls == {Item("call", id) : id \in Ids}
Outputs == {Output(id, image) : id \in Ids, image \in BOOLEAN}

\* is_assistant_tool_call_item; only functions, custom tools and the search
\* for tools become a call of the message
BuiltIn == {"search", "image"}
IsCall(item) == item.kind \in BuiltIn \cup {"call"}

-----------------------------------------------------------------------------
(* Chat Completions.                                                       *)

Chat(role, calls, id, item) == [role |-> role, calls |-> calls, id |-> id, item |-> item]

\* the calls that follow one another from i on
RunEnd(i) == CHOOSE j \in (i - 1)..Len(items) :
  /\ \A k \in i..j : IsCall(items[k])
  /\ j < Len(items) => ~IsCall(items[j + 1])
CallsFrom(i) ==
  LET built == SelectSeq(SubSeq(items, i, RunEnd(i)), LAMBDA item : item.kind = "call") IN
  [k \in DOMAIN built |-> built[k].id]

EarlierIds(i, kinds) == {items[k].id : k \in {k \in 1..(i - 1) : items[k].kind \in kinds}}
\* removed_tool_call_ids, seen_tool_call_ids
Removed(i) == EarlierIds(i, BuiltIn)
Seen(i) == EarlierIds(i, {"call"})

Follows(i, kinds) == i > 1 /\ items[i - 1].kind \in kinds

\* convert_input_to_messages, item by item: reasoning takes the calls or the
\* answer behind it with it, and calls in a row are one message.  Reasoning
\* that stands alone is dropped later on, so it is left out at once.
ChatMessages(i) ==
  LET item == items[i] IN
  CASE item.kind = "user" -> <<Chat("user", <<>>, NoId, i)>>
    [] item.kind = "assistant" -> <<Chat("assistant", <<>>, NoId, i)>>
    [] item.kind = "call" \/ item.kind \in BuiltIn ->
         IF Follows(i, BuiltIn \cup {"call"}) \/ CallsFrom(i) = <<>> THEN <<>>
         ELSE <<Chat("assistant", CallsFrom(i), NoId, i)>>
    [] item.kind = "output" ->
         IF item.id \in Removed(i) THEN <<>>
         ELSE IF item.id = NoId \/ item.id \notin Seen(i) THEN <<Chat("user", <<>>, NoId, i)>>
         ELSE <<Chat("tool", <<>>, item.id, i)>>
    [] OTHER -> <<>>

ChatConverted == FlattenSeq([i \in DOMAIN items |-> ChatMessages(i)])

\* find_following_tool_message; 0 without one
Answer(messages, consumed, start, id) ==
  LET found == {k \in start..Len(messages) :
                  k \notin consumed /\ messages[k].role = "tool" /\ messages[k].id = id} IN
  IF found = {} THEN 0 ELSE CHOOSE k \in found : \A other \in found : k <= other

\* seeded fault: calls without an answer stay
Unfiltered(calls, answers) == calls

\* filter_assistant_tool_calls
Answered(calls, answers) == SelectSeq(calls, LAMBDA id : \E m \in Range(answers) : m.id = id)

\* repair_tool_call_turns: the answers are moved behind their calls, what has
\* no answer is taken out, and an answer without a call becomes a text
Repair(messages) ==
  LET Step(done, k) ==
        LET m == messages[k]
            found == [c \in DOMAIN m.calls |-> Answer(messages, done.consumed, k + 1, m.calls[c])]
            used == SelectSeq(found, LAMBDA a : a # 0)
            answers == [a \in DOMAIN used |-> messages[used[a]]] IN
        IF k \in done.consumed THEN done
        ELSE IF m.role = "tool" THEN [done EXCEPT !.out = Append(@, [m EXCEPT !.role = "user", !.id = NoId])]
        ELSE [out |-> done.out \o <<[m EXCEPT !.calls = Answered(@, answers)]>> \o answers,
              consumed |-> done.consumed \cup Range(used)]
  IN FoldLeft(Step, [out |-> <<>>, consumed |-> {}], [k \in DOMAIN messages |-> k]).out

\* drop_invalid_assistant_messages: a message that was nothing but calls
Empty(m) == m.role = "assistant" /\ m.calls = <<>> /\ IsCall(items[m.item])
ChatHistory == SelectSeq(Repair(ChatConverted), LAMBDA m : ~Empty(m))

-----------------------------------------------------------------------------
(* Anthropic.                                                              *)

Block(type, id) == [type |-> type, id |-> id]
IsResult(block) == block.type = "result"
Message(role, blocks) == [role |-> role, blocks |-> blocks]

\* a search that is over is told again as a call with its result; its id is
\* made of its place
SearchId(i) == <<"search", i>>

\* anthropic_reasoning_block keeps what this provider has made; whose it is
\* makes no difference to the calls
BlocksOf(i) ==
  LET item == items[i] IN
  CASE item.kind \in {"user", "assistant"} -> <<Block("text", NoId)>>
    [] item.kind = "reasoning" -> <<Block("thinking", NoId)>>
    [] item.kind = "call" -> <<Block("use", item.id)>>
    [] item.kind = "output" -> <<Block("result", item.id)>> \o
                               (IF item.image THEN <<Block("attachment", NoId)>> ELSE <<>>)

\* should_merge_with_last_message
MayJoin(messages, role, mode) ==
  /\ messages # <<>> /\ Last(messages).role = role
  /\ \/ mode = "assistant"
     \/ /\ mode = "result"
        /\ \E b \in Range(Last(messages).blocks) : IsResult(b)
        /\ \A b \in Range(Last(messages).blocks) : IsResult(b) \/ b.type = "attachment"

\* append_tool_result_block: results stay in front of the images
InsertResult(blocks, block) ==
  IF block \in Range(blocks) THEN blocks
  ELSE SelectSeq(blocks, IsResult) \o <<block>> \o SelectSeq(blocks, LAMBDA b : ~IsResult(b))

\* append_content_blocks
Joined(blocks, new, mode) ==
  IF mode # "result" THEN blocks \o new
  ELSE FoldLeft(InsertResult, blocks, SelectSeq(new, IsResult)) \o SelectSeq(new, LAMBDA b : ~IsResult(b))

\* push_anthropic_message
Push(messages, role, blocks, mode) ==
  IF MayJoin(messages, role, mode)
  THEN Append(Front(messages), Message(role, Joined(Last(messages).blocks, blocks, mode)))
  ELSE Append(messages, Message(role, blocks))

\* build_anthropic_messages
AddItem(messages, i) ==
  LET kind == items[i].kind IN
  CASE kind = "user" -> Push(messages, "user", BlocksOf(i), "none")
    [] kind \in {"assistant", "reasoning", "call"} -> Push(messages, "assistant", BlocksOf(i), "assistant")
    [] kind = "output" -> Push(messages, "user", BlocksOf(i), "result")
    [] kind = "search" ->
         Push(Push(messages, "assistant", <<Block("use", SearchId(i))>>, "assistant"),
              "user", <<Block("result", SearchId(i))>>, "none")
    [] OTHER -> messages

AnthropicHistory == FoldLeft(AddItem, <<>>, [i \in DOMAIN items |-> i])

-----------------------------------------------------------------------------
(* How histories grow.                                                     *)

HistoryInit(f) == form = f /\ items = <<>> /\ phase = "idle" /\ owed = {}

Grows(item, max) == Len(items) < max /\ items' = Append(items, item) /\ UNCHANGED form
Called == {items[k].id : k \in {k \in DOMAIN items : items[k].kind = "call"}}

\* Codex asks and answers in turns: the user speaks, the model answers with
\* any items, and every call gets its output before the next request
UserSays ==
  /\ form = "orderly" /\ phase \in {"idle", "asked"} /\ Grows(Item("user", NoId), MaxItem)
  /\ phase' = "asked" /\ UNCHANGED owed

ModelSays ==
  /\ form = "orderly" /\ phase \in {"asked", "answering"} /\ phase' = "answering"
  /\ \/ \E kind \in {"reasoning", "assistant", "search", "image"} : Grows(Item(kind, NoId), MaxItem)
     \/ \E call \in Calls : call.id \notin Called /\ Grows(call, MaxItem)
  /\ owed' = IF items'[Len(items')].kind = "call" THEN owed \cup {items'[Len(items')].id} ELSE owed

AnswerEnds ==
  /\ phase = "answering" /\ phase' = IF owed = {} THEN "idle" ELSE "running"
  /\ UNCHANGED <<form, items, owed>>

ToolReturns ==
  \E output \in Outputs :
    /\ phase = "running" /\ output.id \in owed /\ Grows(output, MaxItem)
    /\ owed' = owed \ {output.id} /\ phase' = IF owed' = {} THEN "asked" ELSE "running"

\* "Codex/Responses history can contain incomplete or interleaved tool rounds":
\* anything in any order, but no two calls with one id
AnythingComes ==
  /\ form = "loose"
  /\ \E item \in {Item(kind, NoId) : kind \in {"user", "assistant", "reasoning", "image", "output"}}
                 \cup {Item("search", id) : id \in Ids} \cup Calls \cup {Output(id, FALSE) : id \in Ids} :
       /\ item.kind = "call" => item.id \notin Called
       /\ Grows(item, MaxLoose)
  /\ UNCHANGED <<phase, owed>>

HistoryNext == UserSays \/ ModelSays \/ AnswerEnds \/ ToolReturns \/ AnythingComes
HistorySpec == HistoryInit("orderly") /\ [][HistoryNext]_historyVars

-----------------------------------------------------------------------------
\* Whatever the history, DeepSeek is sent complete rounds: behind the message
\* with the calls come their answers, in the order of the calls, and no answer
\* is anywhere else.
DeepSeekRoundsAreComplete ==
  form # "off" =>
  LET history == ChatHistory
      Answers(a) == (a + 1)..(a + Len(history[a].calls)) IN
  /\ \A a \in DOMAIN history : \A k \in Answers(a) :
       /\ k \in DOMAIN history /\ history[k].role = "tool"
       /\ history[k].id = history[a].calls[k - a]
  /\ \A k \in DOMAIN history :
       history[k].role = "tool" => \E a \in DOMAIN history : k \in Answers(a)

\* The repair loses no output of a tool and tells none twice; only what a
\* built-in call has under its own id is left out.
OutputsAreTold ==
  form # "off" =>
  LET history == ChatHistory IN
  \A i \in DOMAIN items :
    items[i].kind = "output" /\ items[i].id \notin Removed(i) =>
      Cardinality({k \in DOMAIN history : history[k].item = i}) = 1

\* Anthropic joins messages of one role; then every call of a turn has its
\* result in the next one, in front of anything else, and no result is
\* elsewhere.
Turns(messages) ==
  FoldLeft(LAMBDA turns, m : IF turns # <<>> /\ Last(turns).role = m.role
                             THEN Append(Front(turns), Message(m.role, Last(turns).blocks \o m.blocks))
                             ELSE Append(turns, m), <<>>, messages)
Named(turn, type) == {b.id : b \in {b \in Range(turn.blocks) : b.type = type}}
WellFormed(messages) ==
  LET turns == Turns(messages) IN
  /\ \A t \in DOMAIN turns :
       LET used == IF t = 1 THEN {} ELSE Named(turns[t - 1], "use") IN
       /\ used = Named(turns[t], "result")
       /\ \A a, b \in DOMAIN turns[t].blocks :
            IsResult(turns[t].blocks[b]) /\ a < b => IsResult(turns[t].blocks[a])
  /\ turns # <<>> => Named(Last(turns), "use") = {}

\* a search behind a call of the same answer, and the answer goes on
GoesOnAfterSearch ==
  \E i, j, k \in DOMAIN items :
    /\ i < j /\ j < k /\ items[i].kind = "call" /\ items[j].kind = "search"
    /\ items[k].kind \in {"call", "search", "assistant", "reasoning"}
    /\ \A n \in i..k : items[n].kind \notin {"output", "user"}

\* An orderly history is well-formed for Anthropic whenever it is sent, unless
\* an answer called a tool, searched the web and went on.
AnthropicRoundsAreComplete ==
  form = "orderly" /\ phase = "asked" /\ ~GoesOnAfterSearch => WellFormed(AnthropicHistory)

\* Providers are sent complete rounds, and every output once.
RoundsAreComplete == DeepSeekRoundsAreComplete /\ OutputsAreTold /\ AnthropicRoundsAreComplete

\* request_content.rs says so without a condition.
HistoryStaysWellFormed ==
  form = "orderly" /\ phase = "asked" => WellFormed(AnthropicHistory)
=============================================================================
