----------------------------- MODULE MCRendering -----------------------------
(* Instances of Rendering, of Senders and of TurnGate for TLC.              *)
EXTENDS Rendering, Senders, TurnGate

\* the first two turns have different replies
Replies == [t \in Turns |-> t]

\* WeChat: a tool call with an image, then a turn with a long reply.  (Of two
\* images each may be put off because the other waits, if the user writes at
\* the worst moments; one is not put off for ever.)  Telegram: each kind of
\* work, then a turn.  Feishu: an item, or an approval.
Schedules == {<< >>, <<"approval">>} \cup {<<w, "turn">> : w \in Items \cup {"turn", "approval"}}
ScheduleOf ==
  CASE platform = "wechat" -> turn.works = <<"mcpToolCall", "turn">> /\ item.kind = "other"
    [] platform = "telegram" -> Len(turn.works) = 2 /\ item.kind = "other"
    [] OTHER -> turn.works = (IF item.kind = "other" THEN <<"approval">> ELSE << >>)

\* a text with a blank to split at, and one that needs a cut without one;
\* "/" is a character that formatting makes longer
TwoTexts ==
  {<<"a", "b", " ", "c", "/", "d", "e", "f">>,
   <<"/", "a", " ", "b", "c", "d", "e", " ", "f", "g", "h", "i">>}

\* the other send is there for the token they share
OneOfTheOthers == tasks[2].kind = "text" /\ Len(tasks[2].text) = 8

\* one conversation: a message that resumes a thread, a plain text, and one that
\* may be anything
CONSTANTS c1, t1, r, a, b
OneConversation == [m \in Messages |-> c1]
OneCommandEach == [m \in Messages |-> IF m = r THEN {"resume"}
                                      ELSE IF m = b THEN {"text", "stop", "quit"} ELSE {"text"}]

\* Rendering takes a send as one step that succeeds or fails; Senders is what
\* such a step does; TurnGate decides whether there is a turn to render.  Each
\* is explored by itself.
VARIABLE part

RenderingInit ==
  /\ part \in {"rendering", "senders", "gate"}
  /\ Init /\ ScheduleOf /\ SendersInit /\ OneOfTheOthers /\ GateInit
  /\ part # "rendering" => platform = "feishu" /\ item.kind = "other"
  /\ part # "senders" => tasks[1] = tasks[2] /\ tasks[1].platform = "wechat"

RenderingNext ==
  /\ UNCHANGED part
  /\ \/ part = "rendering" /\ Next /\ UNCHANGED <<sendersVars, gateVars>>
     \/ part = "senders" /\ SendersNext /\ UNCHANGED <<vars, gateVars>>
     \/ part = "gate" /\ GateNext /\ UNCHANGED <<vars, sendersVars>>

RenderingSpec == /\ RenderingInit /\ [][RenderingNext]_<<part, vars, sendersVars, gateVars>>
                 /\ Fairness /\ GateFairness
=============================================================================
