-------------------------------- MODULE Senders --------------------------------
(***************************************************************************)
(* What the platform adapters send: feishu/api.rs, telegram/adapter.rs with  *)
(* telegram/api.rs, and wechat/api.rs.  A send is a sequence of HTTP         *)
(* requests; the last ones show the text.  Telegram cuts a long text into    *)
(* messages and tries each as HTML first and then as plain text.  A Feishu   *)
(* request needs the tenant's access token, which all senders share: it is   *)
(* cached, asked for anew under a lock, and not used for its last minutes.   *)
(* WeChat cuts texts as well, and sends a picture encrypted, by a detour.    *)
(* A text is a sequence of characters; markup, buttons' labels and the       *)
(* encryption of images are left out.                                        *)
(***************************************************************************)
EXTENDS Naturals, SequencesExt

CONSTANTS
  Outgoing,           \* the sends under way
  Texts,           \* what they say
  MaxChars,        \* the longest message (4096 for Telegram, 3500 for WeChat)
  Mark,            \* the length of "(continues...)" and of "(continued)"
  Lifetimes,       \* how long an access token may be good
  Skew,            \* it is not handed out for this last while (120 s)
  MaxDelay,        \* a request reaches the platform, an answer the program, in this time
  MaxTime, MaxMishap   \* bounds: clock; lost or refused requests, dropped senders

ASSUME SendersAssumption ==
  /\ {MaxChars, Mark, Skew, MaxDelay, MaxTime, MaxMishap} \subseteq Nat /\ Lifetimes \subseteq Nat
  /\ MaxChars > 2 * Mark + 1 /\ 2 * MaxDelay <= Skew
  /\ \A life \in Lifetimes : life > 2 * MaxDelay

VARIABLES
  tasks,      \* what each send is for
  jobs,       \* how far it is
  cache,      \* the cached token: until when it is good, from when it is asked for anew
  inChat,      \* the messages the platform took
  answersLost,\* history: per send, messages taken whose answer was lost
  time, mishaps

sendersVars == <<tasks, jobs, cache, inChat, answersLost, time, mishaps>>

Nobody == 0
SentKinds ==
  [feishu   |-> {"text", "card", "update", "picture"},
   telegram |-> {"text", "approval", "choice", "picture"},
   wechat   |-> {"text", "picture"}]
Platforms3 == DOMAIN SentKinds

-----------------------------------------------------------------------------
\* The messages of a long text.

Blanks == {" ", "/"}   \* "/" stands for the end of a line
TrimStart(t) ==
  LET first == SelectInSeq(t, LAMBDA c : c \notin Blanks)
  IN IF first = 0 THEN <<>> ELSE SubSeq(t, first, Len(t))
TrimEnd(t) == Reverse(TrimStart(Reverse(t)))
Trimmed(t) == TrimEnd(TrimStart(t))

\* before the last line's end, else the last space, in the second half
BestSplit(t, limit, least) ==
  LET Breaks(c) == {i \in 1 .. limit : t[i] = c /\ i - 1 >= least}
  IN IF Breaks("/") # {} THEN Max(Breaks("/"))
     ELSE IF Breaks(" ") # {} THEN Max(Breaks(" "))
     ELSE limit

Split(text, limit, least) ==
  LET parts[t \in Seq(STRING)] ==
        IF t = <<>> THEN <<>>
        ELSE IF Len(t) <= limit THEN <<t>>
        ELSE LET k == BestSplit(t, limit, least)
             IN <<TrimEnd(SubSeq(t, 1, k))>> \o parts[TrimStart(SubSeq(t, k + 1, Len(t)))]
  IN parts[text]

\* a message: what it says, its length with the marks, whether it has buttons,
\* and whether it is tried a second time in another form
Said(body, size, again) == [does |-> "show", body |-> body, size |-> size, buttons |-> FALSE, again |-> again]

Chunks(text) ==
  LET t == Trimmed(text)
      limit == MaxChars - 2 * Mark
      parts == Split(t, limit, limit \div 2)
      Marks(i) == IF i \in {1, Len(parts)} THEN Mark ELSE 2 * Mark
  IN IF Len(t) <= MaxChars
     THEN <<Said(t, Len(t), TRUE)>>
     ELSE [i \in DOMAIN parts |-> Said(parts[i], Len(parts[i]) + Marks(i), TRUE)]

\* the "(1/2)" in front is not counted by the code either
WechatChunks(text) ==
  LET parts == Split(Trimmed(text), MaxChars, MaxChars \div 2 + 1)
  IN IF parts = <<>> THEN <<Said(<<>>, 0, FALSE)>>
     ELSE [i \in DOMAIN parts |-> Said(parts[i], Len(parts[i]), FALSE)]

-----------------------------------------------------------------------------
\* The requests of a send.

Prepares(what) == [does |-> what, body |-> <<>>, size |-> 0, buttons |-> FALSE, again |-> FALSE]
Whole(text) == Said(text, 0, FALSE)

FeishuRequests(kind, text) ==
  CASE kind = "card"    -> <<Prepares("create"), Whole(text)>>
    [] kind = "picture" -> <<Prepares("upload"), Whole(text)>>
    [] OTHER            -> <<Whole(text)>>

ButtonsBelow(messages) == [messages EXCEPT ![Len(messages)].buttons = TRUE]

TelegramRequests(kind, text) ==
  CASE kind = "text"     -> Chunks(text)
    [] kind = "approval" -> ButtonsBelow(Chunks(text))
    [] kind = "choice"   -> ButtonsBelow(<<Whole(text)>>)
    [] kind = "picture"  -> <<Said(text, 0, TRUE)>>

\* the caption comes in messages of its own
WechatRequests(kind, text) ==
  IF kind = "text" THEN WechatChunks(text)
  ELSE WechatChunks(text) \o <<Prepares("upload url"), Prepares("content network"), Whole(<<>>)>>

RequestsOf(task) ==
  CASE task.platform = "feishu"   -> FeishuRequests(task.kind, task.text)
    [] task.platform = "telegram" -> TelegramRequests(task.kind, task.text)
    [] task.platform = "wechat"   -> WechatRequests(task.kind, task.text)

SendersInit ==
  /\ \E platform \in Platforms3 :
       tasks \in [Outgoing -> [platform : {platform}, kind : SentKinds[platform], text : Texts]]
  /\ jobs = [s \in Outgoing |-> [at |-> "begin", step |-> 1, second |-> FALSE, waited |-> 0, token |-> 0]]
  /\ cache = [good |-> 0, renew |-> 0]
  /\ inChat = <<>> /\ answersLost = [s \in Outgoing |-> 0]
  /\ time = 0 /\ mishaps = 0

RequestsFor(s) == RequestsOf(tasks[s])
RequestNow(s) == RequestsFor(s)[jobs[s].step]
NeedsToken(s) == tasks[s].platform = "feishu"
Moved(s, at) == jobs' = [jobs EXCEPT ![s].at = at, ![s].waited = 0]

\* a failure of the network or the platform, or a dropped task
Mishap == mishaps < MaxMishap /\ mishaps' = mishaps + 1

-----------------------------------------------------------------------------
\* get_tenant_access_token

Cached == time < cache.renew
HoldsLock(s) == jobs[s].at \in {"asking", "locked"}

TakeCached(s, otherwise) ==
  jobs' = [jobs EXCEPT ![s] = IF Cached
                              THEN [@ EXCEPT !.at = "calling", !.waited = 0, !.token = cache.good]
                              ELSE [@ EXCEPT !.at = otherwise, !.waited = 0]]

\* other platforms have no token to fetch
Begin(s) ==
  /\ jobs[s].at = "begin"
  /\ IF NeedsToken(s) THEN TakeCached(s, "queued") ELSE Moved(s, "calling")
  /\ UNCHANGED <<tasks, cache, inChat, answersLost, time, mishaps>>

TakeLock(s) ==
  /\ jobs[s].at = "queued" /\ \A other \in Outgoing : ~HoldsLock(other)
  /\ Moved(s, "locked")
  /\ UNCHANGED <<tasks, cache, inChat, answersLost, time, mishaps>>

LookAgain(s) ==
  /\ jobs[s].at = "locked" /\ TakeCached(s, "asking")
  /\ UNCHANGED <<tasks, cache, inChat, answersLost, time, mishaps>>

RenewAtEnd(life) == life
RenewAfter(life) == IF life >= Skew THEN life - Skew ELSE 1

\* the token may be some time old when the answer arrives
TokenArrives(s) ==
  /\ jobs[s].at = "asking"
  /\ \E life \in Lifetimes, age \in 0 .. jobs[s].waited :
       LET good == time - age + life
       IN /\ cache' = [good |-> good, renew |-> time + RenewAfter(life)]
          /\ jobs' = [jobs EXCEPT ![s].at = "calling", ![s].waited = 0, ![s].token = good]
  /\ UNCHANGED <<tasks, inChat, answersLost, time, mishaps>>

TokenFails(s) ==
  /\ jobs[s].at = "asking" /\ Mishap /\ Moved(s, "failed")
  /\ UNCHANGED <<tasks, cache, inChat, answersLost, time>>

-----------------------------------------------------------------------------
\* A request and its answer.

ChatWith(s) ==
  IF RequestNow(s).does = "show"
  THEN Append(inChat, [send |-> s, step |-> jobs[s].step] @@ RequestNow(s))
  ELSE inChat

Succeeded(s) ==
  jobs' = IF jobs[s].step = Len(RequestsFor(s)) THEN [jobs EXCEPT ![s].at = "done"]
          ELSE [jobs EXCEPT ![s].at = "begin", ![s].step = @ + 1, ![s].second = FALSE]

\* HTML first, then plain text; a photo first, then a document
AfterError(s) ==
  IF RequestNow(s).again /\ ~jobs[s].second
  THEN jobs' = [jobs EXCEPT ![s].at = "begin", ![s].second = TRUE]
  ELSE Moved(s, "failed")

Answered(s) ==
  /\ jobs[s].at = "calling" /\ inChat' = ChatWith(s) /\ Succeeded(s)
  /\ UNCHANGED <<tasks, cache, answersLost, time, mishaps>>

\* the answer is lost, no JSON, empty where it may not be, or names no message
AnswerLost(s) ==
  /\ jobs[s].at = "calling" /\ Mishap
  /\ inChat' = ChatWith(s) /\ answersLost' = [answersLost EXCEPT ![s] = @ + 1] /\ AfterError(s)
  /\ UNCHANGED <<tasks, cache, time>>

RequestRefused(s) ==
  /\ jobs[s].at = "calling" /\ Mishap /\ AfterError(s)
  /\ UNCHANGED <<tasks, cache, inChat, answersLost, time>>

\* no context token, no such file; or the task that sends is dropped
DropSend(s) ==
  /\ jobs[s].at \notin {"done", "failed"} /\ Mishap /\ Moved(s, "failed")
  /\ UNCHANGED <<tasks, cache, inChat, answersLost, time>>

\* only tokens grow old
PassTime ==
  /\ time < MaxTime /\ time' = time + 1 /\ \E s \in Outgoing : NeedsToken(s)
  /\ \A s \in Outgoing : jobs[s].at \in {"asking", "calling"} => jobs[s].waited < MaxDelay
  /\ jobs' = [s \in Outgoing |-> IF jobs[s].at \in {"asking", "calling"}
                              THEN [jobs[s] EXCEPT !.waited = @ + 1] ELSE jobs[s]]
  /\ UNCHANGED <<tasks, cache, inChat, answersLost, mishaps>>

SendersNext ==
  \/ \E s \in Outgoing :
       \/ Begin(s) \/ TakeLock(s) \/ LookAgain(s) \/ TokenArrives(s) \/ TokenFails(s)
       \/ Answered(s) \/ AnswerLost(s) \/ RequestRefused(s) \/ DropSend(s)
  \/ PassTime

SendersSpec == SendersInit /\ [][SendersNext]_sendersVars

-----------------------------------------------------------------------------
\* A token in hand is still good when the request arrives, however late it was
\* taken from the cache and however old it was when it came: else Feishu
\* refuses the message.
TokenIsGood ==
  \A s \in Outgoing : NeedsToken(s) /\ jobs[s].at = "calling" => time < jobs[s].token

Ink(t) == SelectSeq(t, LAMBDA c : c \notin Blanks)
Mine(s) == SelectSeq(inChat, LAMBDA message : message.send = s)
Steps(messages) == {messages[i].step : i \in DOMAIN messages}
FirstCopies(messages) ==
  FoldLeft(LAMBDA got, message : IF message.step \in Steps(got) THEN got ELSE Append(got, message),
           <<>>, messages)
Read(messages) == FlattenSeq([i \in DOMAIN messages |-> Ink(messages[i].body)])

\* The user reads the text in order from its beginning, in messages the
\* platform takes, all of it when the send says it is done; the buttons come
\* below all of it; a message comes twice only when its answer was lost.
SendsAreWhole ==
  \A s \in Outgoing :
    LET mine == Mine(s)
        once == FirstCopies(mine)
        text == Ink(tasks[s].text)
    IN /\ IsPrefix(Read(once), text)
       /\ jobs[s].at = "done" => Read(once) = text
       /\ Len(mine) - Len(once) <= answersLost[s]
       /\ \A i \in DOMAIN mine :
            /\ mine[i].size <= MaxChars
            /\ mine[i].buttons => Read(FirstCopies(SubSeq(mine, 1, i))) = text

\* A send uses a good token and shows the whole text once.
SendsAreSound == TokenIsGood /\ SendsAreWhole
=============================================================================
