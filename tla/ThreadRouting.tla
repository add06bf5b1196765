---------------------------- MODULE ThreadRouting ----------------------------
(***************************************************************************)
(* How one conversation of an IM platform gets its Codex thread:           *)
(* im/telegram/flow.rs, im/wechat/flow.rs, im/feishu/flow.rs with          *)
(* im/core/thread.rs, thread_list.rs and session.rs.  A routing request    *)
(* leads the user from a choice to a list of threads, or over settings and *)
(* lists of options to a new one.  Every message is handled by a task of   *)
(* its own: it copies a request, sends the next prompt and only then       *)
(* remembers the request it made, over whatever is there by then.          *)
(***************************************************************************)
EXTENDS Naturals, Sequences, FiniteSets, SequencesExt

CONSTANTS
  Handlers,      \* tasks that run at once
  Platforms,     \* a subset of {"telegram", "wechat", "feishu"}
  Listings,      \* what a page of thread/list may hold: sequences of threads
  Options,       \* field -> the sequence of its values, "default" first
  PageSize,      \* options on a page
  MaxRequest,    \* bound: requests
  MaxPage,       \* bound: pages of the list of threads
  MaxInput       \* bound: what the user and the app do

Fields == DOMAIN Options

ASSUME RoutingAssumption ==
  /\ Platforms \subseteq {"telegram", "wechat", "feishu"}
  /\ PageSize \in Nat \ {0} /\ MaxPage \in Nat \ {0} /\ MaxInput \in Nat /\ MaxRequest \in Nat
  /\ "cwd" \in Fields /\ \A f \in Fields : Options[f] # <<>>

VARIABLES
  platform,
  route,         \* the thread the conversation is bound to
  requests,      \* thread_routing_requests of the conversation
  drawn,         \* THREAD_ROUTING_REQUEST_SEQUENCE
  approval,      \* an approval waits for an answer
  flow,          \* handler -> what it is about to do
  inputs,
  shown,         \* history: the prompts of the conversation
  latest,        \* history: the last one
  overlap,       \* history: two handlers ran at once
  picked         \* history: what the last step took a number for

routingVars == <<platform, route, requests, drawn, approval, flow, inputs, shown, latest, overlap, picked>>

NoThread == "no thread"
Created == "created"
NoField == "no field"

-----------------------------------------------------------------------------
(* Requests.                                                               *)

\* empty_thread_routing_request; a request that is not there has no stage
Request(stage) ==
  [stage |-> stage, page |-> 1, lists |-> <<<<>>>>, more |-> FALSE,
   draft |-> [f \in Fields |-> "default"], field |-> NoField]
Gone == Request("gone")
Empty == Request("choice")

RequestIds == 1..MaxRequest
Live(reqs) == {id \in RequestIds : reqs[id].stage # "gone"}

\* the request with the largest number among those that satisfy the filter;
\* 0 without one
Newest(ids) == IF ids = {} THEN 0 ELSE CHOOSE id \in ids : \A other \in ids : other <= id

\* the values a page of options shows
OptionsOf(field) ==
  IF platform = "wechat" /\ field = "cwd"
  THEN <<Head(Options[field]), "custom">> \o Tail(Options[field]) ELSE Options[field]
Pages(field) == ((Len(OptionsOf(field)) + PageSize - 1) \div PageSize)
Page(field, page) ==
  LET last == page * PageSize IN
  SubSeq(OptionsOf(field), last - PageSize + 1, IF last < Len(OptionsOf(field)) THEN last ELSE Len(OptionsOf(field)))
OptionsOn(request) ==
  IF request.page \in 1..Pages(request.field) THEN Page(request.field, request.page) ELSE <<>>
ThreadsOn(request) ==
  IF request.page \in DOMAIN request.lists THEN request.lists[request.page] ELSE <<>>

\* a request that waits for the path of a directory
WaitsForPath(request) ==
  /\ request.draft["cwd"] = "custom"
  /\ platform = "wechat" => request.stage = "options"
Awaiting(reqs) == {id \in Live(reqs) : WaitsForPath(reqs[id])}

\* apply_thread_create_draft_value
Set(request, field, value) == [request EXCEPT !.draft[field] = value]
WithoutPath(reqs, id) == [reqs EXCEPT ![id].draft["cwd"] = "default"]

-----------------------------------------------------------------------------
(* What a handler is about to do: send a prompt, remember a request, start *)
(* or resume a thread.                                                     *)

AtRest == [step |-> "idle", id |-> 0, prompt |-> "none", request |-> Gone, page |-> 1, thread |-> NoThread]
Prompt(id, kind, request, page) ==
  [AtRest EXCEPT !.step = "send", !.id = id, !.prompt = kind, !.request = request, !.page = page]
Store(id, request, next) ==
  [AtRest EXCEPT !.step = "store", !.id = id, !.prompt = next, !.request = request]
Start(id, request) == [AtRest EXCEPT !.step = "start", !.id = id, !.request = request]
Resume(id, thread) == [AtRest EXCEPT !.step = "resume", !.id = id, !.thread = thread]

Choice(id) == Prompt(id, "choice", Empty, 1)
Settings(id, request) == Prompt(id, "settings", request, 1)
\* the page is clamped to those there are
OptionsPage(id, request, field, page) ==
  LET within == IF page < 1 THEN 1 ELSE IF page > Pages(field) THEN Pages(field) ELSE page IN
  Prompt(id, "options", [request EXCEPT !.field = field, !.stage = "options", !.page = within], within)
ListPage(id, request, page) == Prompt(id, "list", request, page)
Previous(page) == IF page > 1 THEN page - 1 ELSE 1

\* a value is remembered before the next prompt; after "custom" that prompt
\* has no number and leaves the request as it is
SetOption(id, request, field, value) ==
  Store(id, Set(request, field, value), IF value = "custom" THEN "none" ELSE "settings")

\* a prompt with what it lists; and what a number was taken for
Message(kind, id, field, page, items) ==
  [kind |-> kind, id |-> id, field |-> field, page |-> page, items |-> items]
NoPrompt == Message("nothing", 0, NoField, 0, <<>>)
Nothing == [kind |-> "nothing", id |-> 0, number |-> 0, item |-> "none"]
Took(kind, id, number, item) == [kind |-> kind, id |-> id, number |-> number, item |-> item]

RoutingInit ==
  /\ platform \in Platforms /\ route = NoThread
  /\ requests = [id \in RequestIds |-> Gone] /\ drawn = 0
  /\ approval = FALSE /\ flow = [h \in Handlers |-> AtRest] /\ inputs = 0
  /\ shown = {} /\ latest = NoPrompt /\ overlap = FALSE /\ picked = Nothing

-----------------------------------------------------------------------------
(* What a message does, given the requests as they are.  Each operator is  *)
(* TRUE of the outcomes the code allows: the requests, the next task and   *)
(* what a number was taken for.                                            *)

Becomes(h, reqs, next, taken) ==
  /\ requests' = reqs /\ flow' = [flow EXCEPT ![h] = next] /\ picked' = taken
Answers(h, reqs) == Becomes(h, reqs, AtRest, Nothing)  \* with a text only

\* start_turn_for_route: the turn starts or is refused; without a thread, or
\* with one the app does not know any more, the user has to choose
StartTurn(h, reqs) ==
  \/ route # NoThread /\ Answers(h, reqs) /\ UNCHANGED <<route, drawn>>
  \/ /\ drawn < MaxRequest /\ drawn' = drawn + 1 /\ route' = NoThread
     /\ Becomes(h, reqs, IF route # NoThread /\ platform = "feishu"
                         THEN ListPage(drawn + 1, Empty, 1) ELSE Choice(drawn + 1), Nothing)

\* /q; /s and an unknown command change nothing here
Quit(h, reqs) == route' = NoThread /\ Answers(h, reqs) /\ UNCHANGED drawn

\* the numbered replies to the settings, without effort and permissions,
\* which are chosen as the model is
Menu == <<"cwd", "model", "create", "list">>

PicksOption(h, reqs, id, number) ==
  LET values == OptionsOn(reqs[id]) IN
  IF number \in DOMAIN values
  THEN Becomes(h, reqs, SetOption(id, reqs[id], reqs[id].field, values[number]),
               Took("options", id, number, values[number]))
  ELSE Answers(h, reqs)

PicksThread(h, reqs, id, number) ==
  LET threads == ThreadsOn(reqs[id]) IN
  IF number \in DOMAIN threads
  THEN Becomes(h, reqs, Resume(id, threads[number]), Took("list", id, number, threads[number]))
  ELSE Answers(h, reqs)

PicksFromMenu(h, reqs, id, number) ==
  IF number \notin DOMAIN Menu THEN Answers(h, reqs)
  ELSE Becomes(h, reqs,
         CASE Menu[number] = "create" -> Start(id, reqs[id])
           [] Menu[number] = "list" -> ListPage(id, reqs[id], 1)
           [] OTHER -> OptionsPage(id, reqs[id], Menu[number], 1),
         Took("settings", id, number, Menu[number]))

PicksChoice(h, reqs, id, number) ==
  CASE number = 1 -> Becomes(h, reqs, Settings(id, reqs[id]), Took("choice", id, 1, "new"))
    [] number = 2 -> Becomes(h, reqs, ListPage(id, reqs[id], 1), Took("choice", id, 2, "load"))
    [] OTHER -> Answers(h, reqs)

Bound(act) == act /\ UNCHANGED approval
Menus(act) == act /\ UNCHANGED <<route, drawn, approval>>
AnswersApproval(h, reqs) == approval' = FALSE /\ Answers(h, reqs) /\ UNCHANGED <<route, drawn>>

-----------------------------------------------------------------------------
(* Texts.  "no" stands for the words that cancel, "yes" and "back" for     *)
(* those of the WeChat menus; a command begins with a slash.               *)

Number(n, slash) == [is |-> "number", n |-> n, slash |-> slash]
Word(is, slash) == [is |-> is, n |-> 0, slash |-> slash]
Words ==
  {Number(n, slash) : n \in 1..Len(Menu), slash \in BOOLEAN} \cup
  {Word(is, FALSE) : is \in {"text", "path", "yes", "back"}} \cup
  {Word(is, TRUE) : is \in {"next", "prev", "quit"}} \cup {Word("no", platform = "telegram")}

\* what is left when no menu took the text
Text(h, word, reqs) ==
  CASE word.is = "quit" -> Bound(Quit(h, reqs))
    [] word.is # "quit" /\ word.slash -> Menus(Answers(h, reqs))
    [] OTHER -> Bound(StartTurn(h, reqs))

Forgets(h, reqs, id) == Menus(Answers(h, [reqs EXCEPT ![id] = Gone]))
Sends(h, reqs, next) == Menus(Becomes(h, reqs, next, Nothing))

\* the newest request and its stage decide
WechatMenu(h, word, reqs) ==
  LET id == Newest(Live(reqs))
      request == IF id = 0 THEN Gone ELSE reqs[id]
      stage == request.stage IN
  CASE stage = "options" /\ word.is = "back" -> Sends(h, reqs, Settings(id, request))
    [] stage \in {"options", "settings"} /\ word.is = "no" -> Forgets(h, reqs, id)
    [] stage = "options" /\ word.is = "prev" ->
         Sends(h, reqs, OptionsPage(id, request, request.field, Previous(request.page)))
    [] stage = "options" /\ word.is = "next" ->
         Sends(h, reqs, OptionsPage(id, request, request.field, request.page + 1))
    [] stage = "options" /\ word.is = "number" -> Menus(PicksOption(h, reqs, id, word.n))
    [] stage = "settings" /\ word.is = "yes" -> Sends(h, reqs, Start(id, request))
    [] stage = "settings" /\ word.is = "number" -> Menus(PicksFromMenu(h, reqs, id, word.n))
    [] stage = "choice" /\ word.is = "number" -> Menus(PicksChoice(h, reqs, id, word.n))
    [] stage = "list" /\ word.is = "next" ->
         IF request.more THEN Sends(h, reqs, ListPage(id, request, request.page + 1))
         ELSE Menus(Answers(h, reqs))
    [] stage = "list" /\ word.is = "prev" ->
         IF request.page > 1 THEN Sends(h, reqs, ListPage(id, request, request.page - 1))
         ELSE Menus(Answers(h, reqs))
    [] stage = "list" /\ word.is = "number" -> Menus(PicksThread(h, reqs, id, word.n))
    [] OTHER -> Text(h, word, reqs)

\* the stage does not count: an open list of options comes first
TelegramMenu(h, word, reqs) ==
  LET options == Newest({id \in Live(reqs) : reqs[id].field # NoField})
      lists == Newest({id \in Live(reqs) : ThreadsOn(reqs[id]) # <<>>}) IN
  CASE ~(word.is = "number" /\ word.slash) -> Text(h, word, reqs)
    [] OTHER ->
         IF options # 0 THEN Menus(PicksOption(h, reqs, options, word.n))
         ELSE IF approval THEN AnswersApproval(h, reqs)
         ELSE IF lists # 0 THEN Menus(PicksThread(h, reqs, lists, word.n))
         ELSE Menus(Answers(h, reqs))

\* handle_telegram_thread_create_text_input and its like of WeChat: a path,
\* the end of the request for one, or any command, which ends it and is then
\* taken for itself
PathText(h, word, id) ==
  CASE word.is = "no" -> Sends(h, requests, Store(id, Set(requests[id], "cwd", "default"), "settings"))
    [] word.is # "no" /\ word.slash ->
         IF platform = "wechat" THEN WechatMenu(h, word, WithoutPath(requests, id))
         ELSE TelegramMenu(h, word, WithoutPath(requests, id))
    [] word.is = "path" -> Sends(h, requests, Store(id, Set(requests[id], "cwd", "path"), "settings"))
    [] OTHER -> Menus(Answers(h, requests))

Wechat(h, word) ==
  LET id == Newest(Awaiting(requests)) IN
  IF approval /\ word.is = "number" THEN AnswersApproval(h, requests)
  ELSE IF id # 0 THEN PathText(h, word, id) ELSE WechatMenu(h, word, requests)

\* any request that waits for a path, in the order of the map
Telegram(h, word) ==
  IF Awaiting(requests) # {} THEN \E id \in Awaiting(requests) : PathText(h, word, id)
  ELSE TelegramMenu(h, word, requests)

Feishu(h, word) ==
  IF word.is = "number" /\ word.slash
  THEN IF approval THEN AnswersApproval(h, requests) ELSE Menus(Answers(h, requests))
  ELSE Text(h, word, requests)

-----------------------------------------------------------------------------
(* Buttons of a prompt.  They carry the id of the request; what they do    *)
(* depends on the request as it is now.                                    *)

\* the button of another page; the request may have moved on meanwhile
TurnsPage(h, m, request) ==
  \E page \in {Previous(request.page), request.page + 1} :
    page <= MaxPage /\ Sends(h, requests, ListPage(m.id, request, page))

TelegramChooses(h, m, request) ==
  \/ m.kind \in {"choice", "options", "list"} /\ Sends(h, requests, Settings(m.id, request))
  \/ m.kind \in {"choice", "settings"} /\ Sends(h, requests, ListPage(m.id, request, 1))

TelegramOptionButton(h, m, request) ==
  \/ \E page \in {Previous(request.page), request.page + 1} :
        Sends(h, requests, OptionsPage(m.id, request, m.field, page))
  \/ m.field = "cwd" /\ Sends(h, requests, SetOption(m.id, request, "cwd", "custom"))

TelegramButton(h, m, request) ==
  \/ TelegramChooses(h, m, request)
  \/ m.kind = "settings" /\ \E field \in Fields : Sends(h, requests, OptionsPage(m.id, request, field, 1))
  \/ m.kind = "settings" /\ Sends(h, requests, Start(m.id, request))
  \/ m.kind = "options" /\ TelegramOptionButton(h, m, request)
  \/ m.kind = "list" /\ TurnsPage(h, m, request)

FeishuChooses(h, m, request) ==
  \/ m.kind = "choice" /\ Sends(h, requests, Settings(m.id, request))
  \/ m.kind \in {"choice", "settings"} /\ Sends(h, requests, ListPage(m.id, request, 1))
  \/ m.kind = "list" /\ Sends(h, requests, Choice(m.id))

\* the form of the settings is sent as a whole; its values are not told apart
FeishuSubmits(h, m, request) == Sends(h, requests, Start(m.id, request))

FeishuResumes(h, m) == \E i \in DOMAIN m.items : Sends(h, requests, Resume(m.id, m.items[i]))

FeishuButton(h, m, request) ==
  \/ FeishuChooses(h, m, request)
  \/ m.kind = "settings" /\ FeishuSubmits(h, m, request)
  \/ m.kind = "list" /\ FeishuResumes(h, m)
  \/ m.kind = "list" /\ TurnsPage(h, m, request)

\* checked_thread_routing_request
Press(h) ==
  \E m \in shown :
    IF requests[m.id] = Gone THEN Menus(Answers(h, requests))
    ELSE \/ platform = "telegram" /\ TelegramButton(h, m, requests[m.id])
         \/ platform = "feishu" /\ FeishuButton(h, m, requests[m.id])

Hear(h) ==
  \E word \in Words :
    \/ platform = "wechat" /\ Wechat(h, word)
    \/ platform = "telegram" /\ Telegram(h, word)
    \/ platform = "feishu" /\ Feishu(h, word)

Happens == inputs < MaxInput /\ inputs' = inputs + 1

HandleInbound(h) ==
  /\ flow[h] = AtRest /\ Happens
  /\ overlap' = (overlap \/ \E other \in Handlers : flow[other] # AtRest)
  /\ UNCHANGED <<platform, shown, latest>>
  /\ Hear(h) \/ Press(h)

-----------------------------------------------------------------------------
(* The steps of a handler.                                                 *)

Finishes(h, next) == flow' = [flow EXCEPT ![h] = next] /\ picked' = Nothing
Shows(h, message, request) ==
  /\ shown' = shown \cup {message} /\ latest' = message
  /\ Finishes(h, [flow[h] EXCEPT !.step = "remember", !.request = request])

SendChoice(h) ==
  /\ flow[h].step = "send" /\ flow[h].prompt = "choice"
  /\ Shows(h, Message("choice", flow[h].id, NoField, 1, <<>>), Empty)
  /\ UNCHANGED <<platform, route, requests, drawn, approval, inputs, overlap>>

\* a new request with the draft of the old one
ShowSettings(h, message) ==
  /\ platform # "feishu"
  /\ Shows(h, message, [Request("settings") EXCEPT !.draft = flow[h].request.draft])

\* Feishu remembers nothing
ShowForm(h, message) ==
  /\ platform = "feishu" /\ Finishes(h, AtRest)
  /\ shown' = shown \cup {message} /\ latest' = message

SendSettings(h) ==
  LET message == Message("settings", flow[h].id, NoField, 1, Menu) IN
  /\ flow[h].step = "send" /\ flow[h].prompt = "settings"
  /\ ShowSettings(h, message) \/ ShowForm(h, message)
  /\ UNCHANGED <<platform, route, requests, drawn, approval, inputs, overlap>>

SendOptions(h) ==
  LET request == flow[h].request IN
  /\ flow[h].step = "send" /\ flow[h].prompt = "options"
  /\ Shows(h, Message("options", flow[h].id, request.field, request.page, OptionsOn(request)), request)
  /\ UNCHANGED <<platform, route, requests, drawn, approval, inputs, overlap>>

\* seeded fault: the number of the page is not taken over
WithoutPageNumber(request, page, listing, more) ==
  [request EXCEPT !.stage = "list", !.more = more,
     !.lists = [p \in 1..(IF page > Len(@) THEN page ELSE Len(@)) |->
                  IF p = page THEN listing ELSE IF p \in DOMAIN @ THEN @[p] ELSE <<>>]]

\* load_thread_routing_page, into_request
WithPage(request, page, listing, more) ==
  [request EXCEPT !.stage = "list", !.page = page, !.more = more,
     !.lists = [p \in 1..(IF page > Len(@) THEN page ELSE Len(@)) |->
                  IF p = page THEN listing ELSE IF p \in DOMAIN @ THEN @[p] ELSE <<>>]]

ShowList(h, listing, more) ==
  LET page == flow[h].page IN
  Shows(h, Message("list", flow[h].id, NoField, page, listing),
        WithPage(flow[h].request, page, listing, more))

\* without a thread to show WeChat offers the choice again
ShowWechatList(h, listing, more) ==
  IF listing = <<>> THEN Shows(h, Message("choice", flow[h].id, NoField, 1, <<>>), Empty)
  ELSE ShowList(h, listing, more)

SendList(h) ==
  /\ flow[h].step = "send" /\ flow[h].prompt = "list"
  /\ \E listing \in Listings, more \in BOOLEAN :
       /\ more => flow[h].page < MaxPage
       /\ IF platform = "wechat" THEN ShowWechatList(h, listing, more) ELSE ShowList(h, listing, more)
  /\ UNCHANGED <<platform, route, requests, drawn, approval, inputs, overlap>>

\* remember_thread_routing_request, over what is there
Remember(h) ==
  /\ flow[h].step = "remember"
  /\ requests' = [requests EXCEPT ![flow[h].id] = flow[h].request]
  /\ Finishes(h, AtRest)
  /\ UNCHANGED <<platform, route, drawn, approval, inputs, shown, latest, overlap>>

StoreOption(h) ==
  /\ flow[h].step = "store"
  /\ requests' = [requests EXCEPT ![flow[h].id] = flow[h].request]
  /\ Finishes(h, IF flow[h].prompt = "settings" THEN Settings(flow[h].id, flow[h].request) ELSE AtRest)
  /\ UNCHANGED <<platform, route, drawn, approval, inputs, shown, latest, overlap>>

\* create_and_bind_thread, resume_and_bind_thread, bind_thread_to_route
BindThread(h, thread) ==
  /\ route' = thread
  /\ requests' = [requests EXCEPT ![flow[h].id] = Gone]
  /\ Finishes(h, AtRest)
  /\ UNCHANGED <<platform, drawn, approval, inputs, shown, latest, overlap>>

CreateThread(h) == flow[h].step = "start" /\ BindThread(h, Created)
ResumeThread(h) == flow[h].step = "resume" /\ BindThread(h, flow[h].thread)

\* a prompt that cannot be sent, a list that cannot be loaded, a form that is
\* not valid, a thread that cannot be started or resumed
Fails(h) ==
  /\ flow[h].step \in {"send", "start", "resume"}
  /\ Finishes(h, AtRest)
  /\ UNCHANGED <<platform, route, requests, drawn, approval, inputs, shown, latest, overlap>>

ApprovalAsked ==
  /\ ~approval /\ approval' = TRUE /\ Happens /\ picked' = Nothing
  /\ UNCHANGED <<platform, route, requests, drawn, flow, shown, latest, overlap>>

RoutingNext ==
  \/ \E h \in Handlers :
       \/ HandleInbound(h) \/ SendChoice(h) \/ SendSettings(h) \/ SendOptions(h) \/ SendList(h)
       \/ Remember(h) \/ StoreOption(h) \/ CreateThread(h) \/ ResumeThread(h) \/ Fails(h)
  \/ ApprovalAsked

RoutingSpec == RoutingInit /\ [][RoutingNext]_routingVars

-----------------------------------------------------------------------------
\* A number never binds the conversation to a thread that no list showed to it
\* under that number.
ThreadWasShown ==
  picked.kind = "list" =>
    \E m \in shown :
      /\ m.kind = "list" /\ m.id = picked.id
      /\ picked.number \in DOMAIN m.items /\ m.items[picked.number] = picked.item

\* WeChat has no buttons.  As long as messages are handled one after the other
\* and the request of the last prompt is open, a number means what that prompt
\* says it means.
LatestPromptIsAnswered ==
  platform = "wechat" /\ ~overlap /\ picked.kind # "nothing" /\ requests[latest.id] # Gone =>
    /\ latest.kind = picked.kind /\ latest.id = picked.id
    /\ latest.kind # "choice" => /\ picked.number \in DOMAIN latest.items
                                 /\ latest.items[picked.number] = picked.item

\* A number means what the user read beside it.
NumbersMeanWhatWasShown == ThreadWasShown /\ LatestPromptIsAnswered

\* docs/telegram-integration-plan.zh-CN.md: the threads of a list are chosen
\* with /1, /2 and so on.
ListIsAnswered ==
  platform = "telegram" /\ ~overlap /\ picked.kind # "nothing" =>
    (latest.kind = "list" /\ latest.items # <<>> => picked.kind = "list")
=============================================================================
