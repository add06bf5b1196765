--------------------------- MODULE MCConversations ---------------------------
(* Instances of Approvals, ApprovalForms, ThreadRouting and Listeners.      *)
EXTENDS Approvals, ApprovalForms, ThreadRouting, Listeners, TLC

CONSTANTS c1, c2, r1, r2, r3, r4, m1, h1, h2, t1, t2

\* r4 belongs to the other conversation, comes from another app-server and
\* has the id of r1
TwoConversations == [r \in Requests |-> IF r = r4 THEN c2 ELSE c1]
SharedId == [r \in Requests |->
  CASE r \in {r1, r4} -> "id1" [] r = r2 -> "id2" [] r = r3 -> "id3"]
FeishuAndTelegram == [c \in Convs |-> IF c = c1 THEN "feishu" ELSE "telegram"]

TwoListings == {<<>>, <<t1, t2>>, <<t2, t1>>}
TwoFields == [f \in {"cwd", "model"} |-> IF f = "cwd" THEN <<"default", "project">> ELSE <<"default", "m1", "m2">>]
OneAction == [e \in Events |-> IF e = "e2" THEN "action" ELSE "message"]
UpToTwo == SeqOf(CommandDecisions, 2)
Symmetry == Permutations({h1, h2}) \cup Permutations({t1, t2})

\* Approvals and routing share the conversation and no state (that one of
\* them takes a text before the other is in ThreadRouting), what the options
\* of an approval are does not matter to which one is answered, and the
\* listener hands events over and knows of neither.  Each is explored by itself.
VARIABLE part

ConversationsInit ==
  /\ part \in {"approvals", "forms", "routing", "listener"}
  /\ Init /\ FormsInit /\ RoutingInit /\ ListenersInit
  /\ part # "routing" => platform = "feishu"

ConversationsNext ==
  /\ UNCHANGED part
  /\ \/ part = "approvals" /\ Next /\ UNCHANGED <<formVars, routingVars, listenerVars>>
     \/ part = "forms" /\ FormsNext /\ UNCHANGED <<vars, routingVars, listenerVars>>
     \/ part = "routing" /\ RoutingNext /\ UNCHANGED <<vars, formVars, listenerVars>>
     \/ part = "listener" /\ ListenersNext /\ UNCHANGED <<vars, formVars, routingVars>>

ConversationsSpec ==
  ConversationsInit /\ [][ConversationsNext]_<<part, vars, formVars, routingVars, listenerVars>>
=============================================================================
