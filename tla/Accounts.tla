------------------------------- MODULE Accounts -------------------------------
(***************************************************************************)
(* The bots of one platform in the configuration: config.rs, the account   *)
(* requests of web/im_api.rs, web/onboarding.rs and web.rs, the binding of *)
(* a Telegram chat (im/telegram/polling.rs), and the programs that write   *)
(* the same file (the desktop program, the command line).                  *)
(* The daemon keeps the document in memory and saves all of it with every  *)
(* change.  A document holds a list of accounts and the single record that *)
(* older versions used.  A bot stands for its app id or token; its account *)
(* has the number of the bot as its id, or Default for one that was never  *)
(* given an id.  A record of Feishu or Telegram without an id is written   *)
(* Default too: its account gets that id when it is migrated               *)
(* (bridge.accountId, "telegram"), and WeChat's record has it from the     *)
(* start ("wechat"); where the code treats "no id" and Default differently *)
(* the definitions below say so.                                           *)
(***************************************************************************)
EXTENDS Naturals, Sequences, SequencesExt

CONSTANTS
  Platforms, Bots, People,
  Nameless,     \* the WeChat bot whose login may come without an id
  Tasks,        \* requests, dialogs and editors at work at one time
  MaxChange     \* bound: changes asked for, restarts, failed saves

ASSUME AccountsAssumption ==
  /\ Platforms \subseteq {"feishu", "telegram", "wechat"}
  /\ Bots \subseteq Nat \ {0} /\ Nameless \in Bots /\ MaxChange \in Nat

VARIABLES
  platform,   \* the platform this behaviour is about
  mem, file,  \* AppConfig in the daemon, and as codexhub.toml has it
  login,      \* wechat_onboard: the session of the QR code last shown
  task,       \* requests that wait, and documents read to be edited
  pollers,    \* TelegramChatAccess of each account the running bridge polls for
  changes

accountVars == <<platform, mem, file, login, task, pollers, changes>>

Default == 0
NoBot == 0
Ids == Bots \cup {Default}
Blank == [id |-> Default, bot |-> NoBot, enabled |-> TRUE, allowed |-> {}, named |-> FALSE]
NoDocument == [accounts |-> <<>>, legacy |-> Blank, on |-> TRUE]
NoLogin == 0
NoTask == [kind |-> "none", doc |-> NoDocument, id |-> Default, login |-> NoLogin]

Configured(a) == a.bot # NoBot
HasId(accounts, id) == \E i \in DOMAIN accounts : accounts[i].id = id
Left(accounts, Gone(_)) == SelectSeq(accounts, LAMBDA a : ~Gone(a))
Upsert(accounts, new) ==
  IF HasId(accounts, new.id)
  THEN [i \in DOMAIN accounts |-> IF accounts[i].id = new.id THEN new ELSE accounts[i]]
  ELSE Append(accounts, new)

Migrate(d) ==
  IF d.accounts = <<>> /\ Configured(d.legacy)
  THEN [d EXCEPT !.accounts = <<d.legacy>>] ELSE d

\* a Feishu record without an id is shown under its app id
Effective(d) ==
  IF d.accounts # <<>> \/ ~Configured(d.legacy) THEN d.accounts
  ELSE <<IF platform = "feishu" /\ d.legacy.id = Default
         THEN [d.legacy EXCEPT !.id = d.legacy.bot] ELSE d.legacy>>

Listed(d) == ToSet(Effective(d))
Found(d, id) == {a \in Listed(d) : a.id = id}
AnyActive(d) == \E a \in Listed(d) : a.enabled /\ Configured(a)

\* set_legacy_im_account_enabled and clear_legacy_im_account compare ids
\* differently: a Telegram record without an id is never switched
SwitchesLegacy(d, id) == d.legacy.id = id /\ (platform = "telegram" => id # Default)

ClearsLegacy(d, id) ==
  \/ d.legacy.id = id
  \/ platform = "feishu" /\ d.legacy.id = Default /\ d.legacy.bot = id

Changes == changes < MaxChange /\ changes' = changes + 1
\* set in memory, then saved; a failed save leaves the change in memory
Saved(d) == mem' = d /\ file' = d
NotSaved(d) == mem' = d /\ UNCHANGED file
Commit(d) == Saved(d) \/ NotSaved(d)
Rest == UNCHANGED <<platform, login, task, pollers>>
BecomesTask(t, record) == task' = [task EXCEPT ![t] = record]

InitialDocuments ==
  LET record(b) == [Blank EXCEPT !.bot = b]
      account(b) == [Blank EXCEPT !.bot = b, !.id = b]
      old(b) == [NoDocument EXCEPT !.legacy = record(b)]
      present(b) == [NoDocument EXCEPT !.accounts = <<account(b)>>, !.legacy = account(b)]
      \* one for all where the bots are alike
      first == IF platform = "wechat" THEN Bots ELSE {Nameless}
  IN {NoDocument} \cup {present(b) : b \in first} \cup {old(b) : b \in first}

\* the daemon reads the file, migrates and saves it
AccountsInit ==
  /\ platform \in Platforms
  /\ \E d \in InitialDocuments : mem = Migrate(d) /\ file = Migrate(d)
  /\ login = NoLogin /\ task = [t \in Tasks |-> NoTask] /\ pollers = {} /\ changes = 0

Restart ==
  /\ Changes
  /\ mem' = Migrate(file) /\ file' = Migrate(file)
  /\ login' = NoLogin /\ pollers' = {} /\ UNCHANGED platform
  /\ task' = [t \in Tasks |-> IF task[t].kind \in {"draft", "own"} THEN task[t] ELSE NoTask]

SetBridge(on) == Changes /\ Commit([mem EXCEPT !.on = on]) /\ Rest

\* requests end in a start or a stop of the bridge; only Telegram's pollers
\* go by the settings they were started with
StartBridge ==
  /\ platform = "telegram" /\ mem.on /\ AnyActive(mem)
  /\ pollers' = {[id |-> a.id, allowed |-> a.allowed] : a \in {b \in Listed(mem) : b.enabled}}
  /\ UNCHANGED <<platform, mem, file, login, task, changes>>

SwitchChannel(on) ==
  /\ Changes /\ Rest
  /\ on => Listed(mem) # {}
  /\ LET d == [mem EXCEPT !.accounts = [i \in DOMAIN @ |-> [@[i] EXCEPT !.enabled = on]],
                          !.legacy.enabled = on]
     IN Commit([d EXCEPT !.on = AnyActive(d)])

SwitchAccount(id, on) ==
  LET d == Migrate(mem)
      switched == [d EXCEPT
        !.accounts = [i \in DOMAIN @ |-> IF @[i].id = id THEN [@[i] EXCEPT !.enabled = on] ELSE @[i]],
        !.legacy.enabled = IF SwitchesLegacy(d, id) THEN on ELSE @]
  IN /\ Changes /\ Rest
     /\ \/ HasId(d.accounts, id) /\ Commit([switched EXCEPT !.on = AnyActive(switched)])
        \/ ~HasId(d.accounts, id) /\ NotSaved(d)

DeleteAccount(id) ==
  LET d == Migrate(mem)
      left == [d EXCEPT !.accounts = Left(@, LAMBDA a : a.id = id),
                        !.legacy = IF ClearsLegacy(d, id) THEN Blank ELSE @]
  IN /\ Changes /\ Rest
     /\ \/ HasId(d.accounts, id) /\ Commit([left EXCEPT !.on = AnyActive(left)])
        \/ ~HasId(d.accounts, id) /\ NotSaved(left)

\* an onboarded account replaces those of the same app or token under other
\* ids, keeps what its own id had, and is written to the single record too
\* when that is free or its own
Onboarded(d, new, Doubles(_), Takes(_)) ==
  [d EXCEPT !.accounts = Upsert(Left(@, Doubles), new),
            !.legacy = IF ~Configured(@) \/ Takes(@) THEN new ELSE @,
            !.on = TRUE]

Before(d, id, Doubles(_)) ==
  LET kept == [d EXCEPT !.accounts = Left(@, Doubles)]
  IN IF Found(kept, id) = {} THEN Blank ELSE CHOOSE a \in Found(kept, id) : TRUE

FeishuScanned(t, b, p) ==
  LET Double(a) == a.id # b /\ a.bot = b
      new == [Before(Migrate(mem), b, Double) EXCEPT
                !.enabled = TRUE, !.id = b, !.bot = b, !.allowed = @ \cup {p}]
      d == Onboarded(Migrate(mem), new, Double, LAMBDA a : a.bot = b)
  IN /\ platform = "feishu" /\ task[t].kind = "none" /\ Changes
     /\ \/ Saved(d) /\ BecomesTask(t, [NoTask EXCEPT !.kind = "name", !.id = b])
        \/ NotSaved(d) /\ UNCHANGED task
     /\ UNCHANGED <<platform, login, pollers>>

\* the name is fetched without the lock; the account may be gone by then
FeishuNamed(t) ==
  /\ task[t].kind = "name" /\ BecomesTask(t, NoTask)
  /\ \/ UNCHANGED <<mem, file>>
     \/ \E a \in Found(mem, task[t].id) :
          LET new == [a EXCEPT !.named = TRUE]
          IN Commit([mem EXCEPT !.accounts = Upsert(@, new),
                                !.legacy = IF @.bot = task[t].id THEN new ELSE @])
  /\ UNCHANGED <<platform, login, pollers, changes>>

\* the status page asks for the name of the first account
AskName(t) ==
  /\ platform \in {"feishu", "telegram"} /\ task[t].kind = "none"
  /\ Effective(mem) # <<>> /\ ~Head(Effective(mem)).named
  /\ BecomesTask(t, [NoTask EXCEPT !.kind = "status", !.id = Head(Effective(mem)).id])
  /\ UNCHANGED <<platform, mem, file, login, pollers, changes>>

\* looked up again under the lock
NameArrives(t) ==
  /\ task[t].kind = "status" /\ BecomesTask(t, NoTask)
  /\ \/ UNCHANGED <<mem, file>>
     \/ \E a \in {b \in Found(mem, task[t].id) : ~b.named} :
          Commit([mem EXCEPT !.accounts = Upsert(@, [a EXCEPT !.named = TRUE])])
  /\ UNCHANGED <<platform, login, pollers, changes>>

\* getMe answers before the configuration is read; nothing of an account with
\* this id is kept
ConfigureTelegram(b) ==
  LET new == [Blank EXCEPT !.id = b, !.bot = b, !.named = TRUE]
  IN /\ platform = "telegram" /\ Changes /\ Rest
     /\ Commit(Onboarded(Migrate(mem), new, LAMBDA a : a.id # b /\ a.bot = b,
                         LAMBDA a : a.id = b))

StartLogin ==
  /\ platform = "wechat" /\ Changes
  /\ login' = changes'
  /\ UNCHANGED <<platform, mem, file, task, pollers>>

\* the id a bot gets when the answer has no ilink_bot_id: that of the single
\* record (assumed of one bot at most, and not while it is another bot's)
IdOf(record) == IF record.bot \in {NoBot, Nameless} THEN record.id ELSE Nameless

\* the session is copied and the answer awaited without the lock
PollLogin(t) ==
  /\ platform = "wechat" /\ task[t].kind = "none" /\ login # NoLogin
  /\ BecomesTask(t, [NoTask EXCEPT !.kind = "poll", !.login = login, !.id = IdOf(mem.legacy)])
  /\ UNCHANGED <<platform, mem, file, login, pollers, changes>>

LoginOver ==   \* the session is too old, or the bot was bound before
  /\ platform = "wechat" /\ login # NoLogin /\ login' = NoLogin
  /\ UNCHANGED <<platform, mem, file, task, pollers, changes>>

Redirected(t) ==
  /\ task[t].kind = "poll" /\ BecomesTask(t, NoTask)
  /\ login' = task[t].login
  /\ UNCHANGED <<platform, mem, file, pollers, changes>>

NothingNew(t) ==
  /\ task[t].kind = "poll" /\ BecomesTask(t, NoTask)
  /\ UNCHANGED <<platform, mem, file, login, pollers, changes>>

\* the token may be the one an account under another id already has
WechatConfirmed(t, b, p) ==
  \E id \in {b} \cup IF b = Nameless THEN {task[t].id} ELSE {}, same \in BOOLEAN :
    LET Double(a) == same /\ a.id # id /\ a.bot = b
        new == [Before(Migrate(mem), id, Double) EXCEPT
                  !.enabled = TRUE, !.id = id, !.bot = b, !.named = TRUE, !.allowed = @ \cup {p}]
        d == Onboarded(Migrate(mem), new, Double, LAMBDA a : a.id = id)
    IN /\ task[t].kind = "poll" /\ BecomesTask(t, NoTask) /\ Changes
       /\ \/ Saved(d) /\ login' = NoLogin
          \/ NotSaved(d) /\ UNCHANGED login
       /\ UNCHANGED <<platform, pollers>>

\* seeded fault: whoever writes is allowed
AnswersAll(a) == TRUE

\* ensure_chat_allowed: the poller asks its own copy first
Answers(a) == a.allowed = {}

ChatAllowed(a, p) == IF p \notin a.allowed /\ Answers(a) THEN [a EXCEPT !.allowed = {p}] ELSE a

Message(s, p) ==
  LET d == Migrate(mem)
      known == HasId(d.accounts, s.id)
      account == IF known THEN CHOOSE a \in ToSet(d.accounts) : a.id = s.id ELSE d.legacy
      new == ChatAllowed(account, p)
      bound == [d EXCEPT !.accounts = IF known THEN Upsert(@, new) ELSE @,
                         !.legacy.allowed = IF d.legacy.id = s.id THEN new.allowed ELSE @]
  IN /\ platform = "telegram" /\ s \in pollers /\ s.allowed = {}
     /\ known \/ d.legacy.id = s.id
     /\ \/ /\ IF new # account THEN Saved(bound) ELSE NotSaved(bound)
           /\ pollers' = IF p \in new.allowed
                         THEN (pollers \ {s}) \cup {[s EXCEPT !.allowed = {p}]} ELSE pollers
        \/ new # account /\ NotSaved(bound) /\ UNCHANGED pollers
     /\ UNCHANGED <<platform, login, task, changes>>

\* GET /api/config, an edit of something else, POST /api/config: the file is
\* written first, the copy in memory replaced after
Edit(t) ==
  /\ task[t].kind = "none" /\ Changes
  /\ BecomesTask(t, [NoTask EXCEPT !.kind = "draft", !.doc = mem])
  /\ UNCHANGED <<platform, mem, file, login, pollers>>

Post(t) ==
  /\ task[t].kind = "draft" /\ file' = task[t].doc
  /\ BecomesTask(t, [task[t] EXCEPT !.kind = "posted"])
  /\ UNCHANGED <<platform, mem, login, pollers, changes>>

PostEnds(t) ==   \* not taken over when the proxy cannot be set up
  /\ task[t].kind = "posted" /\ mem' \in {mem, task[t].doc}
  /\ BecomesTask(t, NoTask) /\ UNCHANGED <<platform, file, login, pollers, changes>>

\* the desktop program's language, theme and connection mode, and "on" and
\* "off" of the command line: the file read, edited and written
ReadFile(t) ==
  /\ task[t].kind = "none" /\ Changes
  /\ \E on \in {file.on, TRUE, FALSE} :
       BecomesTask(t, [NoTask EXCEPT !.kind = "own", !.doc = [file EXCEPT !.on = on]])
  /\ UNCHANGED <<platform, mem, file, login, pollers>>

WriteFile(t) ==
  /\ task[t].kind = "own" /\ file' = task[t].doc /\ BecomesTask(t, NoTask)
  /\ UNCHANGED <<platform, mem, login, pollers, changes>>

AccountsNext ==
  \/ Restart \/ StartBridge \/ StartLogin \/ LoginOver
  \/ \E on \in BOOLEAN : SetBridge(on) \/ SwitchChannel(on)
  \/ \E id \in Ids : DeleteAccount(id) \/ \E on \in BOOLEAN : SwitchAccount(id, on)
  \/ \E b \in Bots : ConfigureTelegram(b)
  \/ \E t \in Tasks : \/ FeishuNamed(t) \/ AskName(t) \/ NameArrives(t)
                      \/ PollLogin(t) \/ Redirected(t) \/ NothingNew(t)
                      \/ Edit(t) \/ Post(t) \/ PostEnds(t) \/ ReadFile(t) \/ WriteFile(t)
                      \/ \E b \in Bots, p \in People : FeishuScanned(t, b, p) \/ WechatConfirmed(t, b, p)
  \/ \E s \in pollers, p \in People : Message(s, p)

AccountsSpec == AccountsInit /\ [][AccountsNext]_accountVars

-----------------------------------------------------------------------------
\* What the desktop program lists of a document.
Entry(a) == [bot |-> a.bot, enabled |-> a.enabled, allowed |-> a.allowed]
Shown(d) == {Entry(a) : a \in Listed(d)}

Books == INSTANCE AccountBook WITH
  book <- Shown(mem), disk <- Shown(file),
  spare <- {Entry(a) : a \in {b \in {mem.legacy} : Configured(b)}},
  drafts <- {Shown(task[t].doc) : t \in {u \in Tasks : task[u].kind \in {"draft", "posted", "own"}}}

\* Whatever requests, status pages, messages and editors do at the same time,
\* each of them changes the accounts it is about and no other: an account
\* comes only from being connected, a chat is bound only to a bot that is
\* bound to none, and a name that arrives late undoes nothing.  One thing
\* comes back that nobody asked for: when the last account is deleted the
\* record of an older version is listed again, unless it is cleared with it.
AccountsAreKept == Books!BookSpec

\* clear_legacy_im_account finds the record by its id.  A Telegram or WeChat
\* record stays when its bot was connected again under another id and that
\* account, or the last other one, is deleted; Feishu's is overwritten then.
RecordReturns(id) ==
  platform # "feishu" /\ mem.legacy.id # id /\ Listed(mem') = {mem.legacy}

\* "Bot integration deleted." (gui/text.rs): a deleted account is listed no
\* more and no other takes its place, except such a record.
DeletedIsGone ==
  [][\A id \in Ids : DeleteAccount(id) =>
       Listed(mem') \subseteq Listed(mem) \ Found(mem, id) \/ RecordReturns(id)]_accountVars

\* Accounts change as they are told to, and a deleted one is gone unless the
\* record of an older version holds a bot under another id.
BooksAreKept == AccountsAreKept /\ DeletedIsGone
=============================================================================
