---------------------------- MODULE ApprovalForms ----------------------------
(***************************************************************************)
(* The options an approval request is shown with and what a reply in the   *)
(* chat chooses (codex.rs, im/core/approval.rs).  A decision stands for    *)
(* the JSON that is sent back; what it means to the app-server follows     *)
(* from the decision and the request.  Which request a reply is for is in  *)
(* Approvals; here one request is asked after the other.                   *)
(***************************************************************************)
EXTENDS Naturals, Sequences, FiniteSets, SequencesExt

CONSTANTS Offers,    \* the lists of availableDecisions that may come with a command
          MaxAsked   \* bound: requests

\* A policy amendment (a command prefix not to be asked about again) is in the
\* decision itself: its prefix is one line, or it has line breaks.
Amendments == {"acceptWithPolicy", "acceptWithLines"}
CommandDecisions == {"accept", "acceptForSession", "allowHost", "blockHost", "decline", "cancel", "unknown"}
                      \cup Amendments

ASSUME FormsAssumption == MaxAsked \in Nat /\ Offers \subseteq Seq(CommandDecisions)

(* Requests.  An empty offer is none; the policy is the amendment the       *)
(* app-server proposes, as the decision it would be.                        *)
Commands == [kind : {"command"}, offer : Offers, network : BOOLEAN, hosts : SUBSET {"allowHost", "blockHost"},
             additional : BOOLEAN, policy : {"none"} \cup Amendments]
Permissions == [kind : {"permissions"}, empty : BOOLEAN]
\* required: the fields of requestedSchema, by what is known of their values
Elicitations == [kind : {"elicitation"}, persist : SUBSET {"session", "always"}, url : BOOLEAN,
                 required : SUBSET {"default", "boolean", "text"}]
Plain == [kind : {"fileChange", "review"}]
FormRequests == Commands \cup Permissions \cup Elicitations \cup Plain
NoRequest == [kind |-> "none"]

VARIABLES form,    \* the request shown, its options
          answer,  \* the answer: the word that chose it, decision, content
          events,  \* codex_event_router: runs, or gone in a panic
          asked    \* requests so far

formVars == <<form, answer, events, asked>>

NoForm == [request |-> NoRequest, options |-> << >>]
NoAnswer == [word |-> "none", decision |-> "none", content |-> {}]

FormsInit == form = NoForm /\ answer = NoAnswer /\ events = "runs" /\ asked = 0

-----------------------------------------------------------------------------
(* Options.                                                                 *)

If(condition, decision) == IF condition THEN << decision >> ELSE << >>

\* a prefix that cannot be told in a line
HasLineBreak(d) == d = "acceptWithLines"

\* command_decision_option: no label, no option
HasOption(d) == d # "unknown" /\ ~HasLineBreak(d)

\* the options the hub makes up if the app-server offers none it knows
ProposesPolicy(r) == ~r.network /\ ~r.additional /\ r.policy # "none"
DefaultOptions(r) ==
  <<"accept">> \o If(r.network, "acceptForSession")
               \o If(r.network /\ "allowHost" \in r.hosts, "allowHost")
               \o If(ProposesPolicy(r), r.policy)
               \o <<"cancel">>

CommandOptions(r) ==
  LET offered == SelectSeq(r.offer, HasOption)
  IN  IF offered # << >> THEN offered ELSE DefaultOptions(r)

\* each option made up is unwrapped, and that of the proposed policy may be none
Panics(r) == r.kind = "command" /\ \E d \in Range(CommandOptions(r)) : ~HasOption(d)

\* ForTurn, ForSession: the permissions asked for; nothing: none of them
PermissionOptions == <<"forTurn", "forSession", "nothing">>

SupportsPersist(r, scope) == scope \in r.persist
ElicitationOptions(r) ==
  <<"once">> \o If(SupportsPersist(r, "session"), "session")
             \o If(SupportsPersist(r, "always") \/ r.url, "always")
             \o <<"withoutIt", "giveUp">>

FileChangeOptions == <<"accept", "acceptForSession", "cancel">>
ReviewOptions == <<"approved", "denied">>

DecisionsOf(r) == CASE r.kind = "command" -> CommandOptions(r)
                  [] r.kind = "permissions" -> PermissionOptions
                  [] r.kind = "elicitation" -> ElicitationOptions(r)
                  [] r.kind = "fileChange" -> FileChangeOptions
                  [] OTHER -> ReviewOptions

-----------------------------------------------------------------------------
(* Replies.                                                                 *)

GivesNothing(r, d) == d = "nothing" \/ (d \in {"forTurn", "forSession"} /\ r.empty)

\* seeded fault: whatever allows something is a yes
IsAnyYes(r, d) == d \notin {"blockHost", "decline", "cancel", "denied", "withoutIt", "giveUp", "nothing"}

IsAcceptDecision(r, d) ==
  \/ d \in {"accept", "approved", "once", "session", "always"}
  \/ d \in {"forTurn", "forSession"} /\ ~r.empty

IsNegativeDecision(r, d) ==
  d \in {"decline", "cancel", "denied", "blockHost", "withoutIt", "giveUp"} \/ GivesNothing(r, d)

\* approval_decision_by_input: the option a word chooses, 0 for none
ChosenBy(word) ==
  LET means(d) == IF word = "yes" THEN IsAcceptDecision(form.request, d)
                  ELSE IsNegativeDecision(form.request, d)
      found == {k \in DOMAIN form.options : means(form.options[k])}
  IN  IF found = {} THEN 0 ELSE CHOOSE k \in found : \A j \in found : k <= j

\* mcp_accept_content: only defaults and a plain "true" can be filled in
AcceptContent(r) == r.required \ {"text"}

\* what is sent along: only the consents to an elicitation carry something
ContentOf(r, d) == IF d \in {"once", "session", "always"} THEN AcceptContent(r) ELSE {}

\* approval_response
Response(word, k) ==
  LET d == form.options[k]
  IN  [word |-> word, decision |-> d, content |-> ContentOf(form.request, d)]

-----------------------------------------------------------------------------
AskApproval ==
  /\ form = NoForm /\ events = "runs" /\ asked < MaxAsked
  /\ \E r \in FormRequests :
       IF Panics(r) THEN events' = "gone" /\ UNCHANGED form
       ELSE form' = [request |-> r, options |-> DecisionsOf(r)] /\ UNCHANGED events
  /\ asked' = asked + 1
  /\ answer' = NoAnswer

Unanswered == form # NoForm /\ answer = NoAnswer

\* resolve_approval_reply with /y or /n; nothing found is answered with a hint
ReplyWord ==
  /\ Unanswered
  /\ \E word \in {"yes", "no"} : ChosenBy(word) # 0 /\ answer' = Response(word, ChosenBy(word))
  /\ UNCHANGED <<form, events, asked>>

\* a number, or a button: resolve_approval_button_reply
ReplyNumber ==
  /\ Unanswered
  /\ \E k \in DOMAIN form.options : answer' = Response("number", k)
  /\ UNCHANGED <<form, events, asked>>

\* submit_approval_decision, then serverRequest/resolved
Resolved ==
  /\ answer # NoAnswer
  /\ form' = NoForm /\ answer' = NoAnswer
  /\ UNCHANGED <<events, asked>>

FormsNext == AskApproval \/ ReplyWord \/ ReplyNumber \/ Resolved
FormsSpec == FormsInit /\ [][FormsNext]_formVars

-----------------------------------------------------------------------------
(* Properties.                                                              *)

(* What Codex makes of a decision: whether the action goes ahead, and       *)
(* whether it is settled for later requests too.                            *)
Grants(r, d) == ~(d \in {"decline", "cancel", "denied", "blockHost", "withoutIt", "giveUp"} \/ GivesNothing(r, d))
Lasts(d) == d \in {"acceptForSession", "acceptWithPolicy", "allowHost", "blockHost", "forSession", "session", "always"}

(* A bare yes grants what is asked this once and never for later, a bare no *)
(* grants nothing, whatever the options and their order; and no is          *)
(* understood whenever an option refuses (approval_decision_by_input).      *)
WordsKeepTheirMeaning ==
  /\ answer.word = "yes" => Grants(form.request, answer.decision) /\ ~Lasts(answer.decision)
  /\ answer.word = "no" => ~Grants(form.request, answer.decision)
  /\ (\E k \in DOMAIN form.options : ~Grants(form.request, form.options[k])) => ChosenBy("no") # 0

(* The options of a request can be made up whatever it proposes: the code   *)
(* unwraps each of them (command_approval_decisions), and the task it does  *)
(* this in brings every later notification to the chats.                    *)
OptionsCanBeMade == events = "runs"
=============================================================================
