---------------------------- MODULE Bridges_proofs ----------------------------
(***************************************************************************)
(* Proofs about overlapping bridges, for any number of calls, bridges,     *)
(* messages and notices and any capacity of the channels: no notice is     *)
(* shown twice, and no message is handed to two handlers unless an aborted *)
(* listener has saved its buffer over its successor's.                     *)
(*                                                                         *)
(* A generation belongs to one bridge and never comes back, so at most one *)
(* bridge works; whatever has been worked on lies behind the place it      *)
(* reads on from.                                                          *)
(***************************************************************************)
EXTENDS Bridges, SequenceTheorems, TLAPS

BridgeStates == [pc : {"none", "boot", "generate", "up", "leaving", "gone"},
                 aborted : BOOLEAN, gen : Nat]
RouterStates == [pc : {"off", "new", "check", "recv", "got"}, at : Nat, got : Nat]
ListenerStates == [pc : {"off", "check", "start", "poll", "save", "hand"},
                   from : Nat, batch : Seq(Nat)]

Types ==
  /\ bridge \in [Bridges -> BridgeStates] /\ generation \in Nat
  /\ router \in [Bridges -> RouterStates]
  /\ listener \in [Bridges -> ListenerStates]
  /\ channel \in [Bridges -> Seq(Nat)]
  /\ platform \in Platforms /\ overwritten \in BOOLEAN
  /\ sent \in Nat /\ saved \in Nat /\ published \in Nat
  /\ handled \in [Messages -> 0..2]
  /\ rendered \in [Notices -> 0..2]

(* A generation belongs to one bridge, which draws it as it comes up.       *)
GenerationsDiffer ==
  /\ \A b \in Bridges : bridge[b].gen <= generation
  /\ \A a, b \in Bridges : a # b /\ bridge[a].gen = bridge[b].gen => bridge[a].gen = 0
BootsOnce ==
  \A b \in Bridges :
    /\ bridge[b].pc \in {"none", "boot", "generate"} =>
         /\ bridge[b].gen = 0 /\ channel[b] = << >>
         /\ router[b].pc = "off" /\ listener[b].pc = "off"
    /\ bridge[b].pc = "up" => bridge[b].gen >= 1
    /\ router[b].pc # "off" => bridge[b].gen >= 1

(* The router of the current bridge is past every notice that was shown.    *)
Shown(n) == rendered[n] >= 1
Reading(r) ==
  /\ r.pc \in {"check", "recv"} => \A n \in Notices : Shown(n) => n <= r.at
  /\ r.pc = "got" => \A n \in Notices : Shown(n) => n < r.got
Placed(r) == r.at <= published /\ (r.pc = "got" => r.at = r.got)
RoutersGoOn ==
  /\ \A n \in Notices : Shown(n) => n <= published
  /\ \A b \in Bridges : Placed(router[b]) /\ (IsCurrent(b) => Reading(router[b]))

(* What a listener holds is in the order the users sent it.                 *)
Rising(s) == \A i, j \in DOMAIN s : i < j => s[i] < s[j]
Before(s, t) == \A i \in DOMAIN s, j \in DOMAIN t : s[i] < t[j]
UpTo(s, x) == \A i \in DOMAIN s : s[i] <= x
After(s, x) == \A i \in DOMAIN s : x < s[i]

Batched(l) ==
  /\ l.pc \in {"save", "hand"} <=> l.batch # << >>
  /\ l.pc = "save" => platform = "wechat"
  /\ l.from <= sent
  /\ Rising(l.batch) /\ UpTo(l.batch, sent)
  /\ platform = "wechat" => UpTo(l.batch, l.from)
  /\ platform = "telegram" => After(l.batch, l.from)
BatchesWait == saved <= sent /\ \A b \in Bridges : Batched(listener[b])

(* What the current bridge still holds comes after all that was worked on,  *)
(* and what it or a successor reads next comes after that.                  *)
Worked(m) == handled[m] >= 1
WorkedUpTo(x) == \A m \in Messages : Worked(m) => m <= x
WorkedBefore(s) == \A m \in Messages, i \in DOMAIN s : Worked(m) => m < s[i]
Current(b) == IsCurrent(b) /\ bridge[b].pc = "up"
Ordered(c, l, v) ==
  /\ Rising(c) /\ Before(c, l.batch)
  /\ WorkedBefore(c) /\ WorkedBefore(l.batch)
  /\ l.pc \in {"check", "start"} => c = << >>
  /\ l.pc \in {"poll", "save", "hand"} => UpTo(c, l.from) /\ WorkedUpTo(l.from)
  /\ platform = "wechat" =>
       UpTo(c, v) /\ (l.pc = "hand" => UpTo(l.batch, v))
ListenersGoOn ==
  /\ WorkedUpTo(sent)
  /\ \A b \in Bridges : UpTo(channel[b], sent)
  /\ platform = "wechat" => WorkedUpTo(saved)
  /\ \A b \in Bridges : Current(b) => Ordered(channel[b], listener[b], saved)

IInv == /\ Types /\ GenerationsDiffer /\ BootsOnce
        /\ RoutersGoOn /\ RenderedOnce
        /\ BatchesWait /\ (overwritten \/ ListenersGoOn) /\ HandledOnce

-----------------------------------------------------------------------------
(* Sequences.                                                               *)

LEMMA TailFacts ==
  ASSUME NEW s \in Seq(Nat), s # << >>
  PROVE  /\ Head(s) \in Nat /\ Head(s) = s[1] /\ 1 \in DOMAIN s
         /\ Tail(s) \in Seq(Nat)
         /\ \A i \in DOMAIN Tail(s) : i + 1 \in DOMAIN s /\ 1 < i + 1 /\ Tail(s)[i] = s[i + 1]
         /\ \A i, j \in DOMAIN Tail(s) : i \in Nat /\ (i < j => i + 1 < j + 1)
OBVIOUS

LEMMA TailIsEmpty ==
  ASSUME NEW s \in Seq(Nat), s # << >>
  PROVE  Len(s) = 1 <=> Tail(s) = << >>
<1>1. Tail(s) \in Seq(Nat) /\ Len(Tail(s)) = Len(s) - 1 /\ Len(s) \in Nat
  OBVIOUS
<1>2. Len(Tail(s)) = 0 <=> Tail(s) = << >>
  BY <1>1, EmptySeq
<1> QED
  BY <1>1, <1>2

LEMMA TailKeepsOrder ==
  ASSUME NEW s \in Seq(Nat), s # << >>, Rising(s)
  PROVE  Rising(Tail(s)) /\ After(Tail(s), Head(s))
<1>1. Rising(Tail(s))
  BY TailFacts DEF Rising
<1>2. After(Tail(s), Head(s))
  BY TailFacts DEF Rising, After
<1> QED
  BY <1>1, <1>2

LEMMA TailKeepsBounds ==
  ASSUME NEW s \in Seq(Nat), s # << >>, NEW x
  PROVE  UpTo(s, x) => UpTo(Tail(s), x) /\ Head(s) <= x
BY TailFacts DEF UpTo

LEMMA AppendFacts ==
  ASSUME NEW s \in Seq(Nat), NEW x \in Nat
  PROVE  /\ Append(s, x) \in Seq(Nat)
         /\ \A i \in DOMAIN Append(s, x) :
              \/ i \in DOMAIN s /\ Append(s, x)[i] = s[i]
              \/ i \notin DOMAIN s /\ Append(s, x)[i] = x /\ \A j \in DOMAIN s : j < i
         /\ \A i, j \in DOMAIN Append(s, x) :
              i \in Nat /\ j \in Nat /\ (i < j => i \in DOMAIN s)
OBVIOUS

LEMMA EmptyFacts ==
  ASSUME NEW s
  PROVE  Rising(<< >>) /\ Before(<< >>, s) /\ Before(s, << >>) /\ WorkedBefore(<< >>)
         /\ \A x : UpTo(<< >>, x) /\ After(<< >>, x)
BY DEF Rising, Before, WorkedBefore, UpTo, After

LEMMA UnreadFacts ==
  ASSUME NEW from \in Nat, sent \in Nat, from < sent
  PROVE  /\ Unread(from) \in Seq(Nat) /\ Unread(from) # << >>
         /\ Rising(Unread(from)) /\ UpTo(Unread(from), sent) /\ After(Unread(from), from)
<1> DEFINE n == sent - from
<1>1. n \in Nat /\ n >= 1 /\ from + n = sent
  OBVIOUS
<1>2. Unread(from) = [i \in 1..n |-> from + i]
  BY DEF Unread
<1> HIDE DEF n
<1>3. Unread(from) \in Seq(Nat) /\ Len(Unread(from)) = n
  BY <1>1, <1>2
<1>4. DOMAIN Unread(from) = 1..n /\ \A i \in 1..n : Unread(from)[i] = from + i
  BY <1>2
<1> QED
  BY <1>1, <1>3, <1>4 DEF Rising, UpTo, After

-----------------------------------------------------------------------------
(* Steps of the API and of a bridge that neither come up nor take up work.  *)

CanComeUp(b) == bridge[b].pc \in {"none", "boot", "generate"}
Drift ==
  /\ bridge' \in [Bridges -> BridgeStates] /\ generation' \in Nat /\ generation <= generation'
  /\ channel' \in [Bridges -> Seq(Nat)]
  /\ \A b \in Bridges :
       /\ bridge'[b].gen = bridge[b].gen
       /\ bridge'[b].pc \in {"none", "boot", "generate"} => CanComeUp(b)
       /\ bridge'[b].pc = "up" => bridge[b].pc = "up"
       /\ channel'[b] = channel[b] \/ channel'[b] = << >>
  /\ UNCHANGED <<router, listener, platform, sent, saved, overwritten, published, handled,
                 rendered>>

LEMMA DriftKeeps ==
  ASSUME IInv, Drift
  PROVE  IInv'
<1>1. Types' /\ HandledOnce' /\ RenderedOnce'
  BY DEF IInv, Drift, Types, HandledOnce, RenderedOnce
<1>2. GenerationsDiffer'
  <2>1. \A b \in Bridges : bridge'[b].gen = bridge[b].gen /\ bridge[b].gen \in Nat
    BY DEF IInv, Drift, Types, BridgeStates
  <2>2. generation \in Nat /\ generation' \in Nat /\ generation <= generation'
    BY DEF IInv, Drift, Types
  <2> QED
    BY <2>1, <2>2 DEF IInv, GenerationsDiffer
<1>3. BootsOnce'
  BY DEF IInv, Drift, BootsOnce, CanComeUp
<1>4. ASSUME NEW b \in Bridges, IsCurrent(b)'
      PROVE  IsCurrent(b)
  BY <1>4 DEF IInv, Drift, Types, BridgeStates, IsCurrent, GenerationsDiffer
<1>5. RoutersGoOn'
  <2>1. UNCHANGED <<router, published, rendered>>
    BY DEF Drift
  <2> QED
    BY <1>4, <2>1 DEF IInv, RoutersGoOn, Placed, Reading, Shown
<1>6. BatchesWait'
  BY DEF IInv, Drift, BatchesWait, Batched
<1>7. ASSUME ListenersGoOn
      PROVE  ListenersGoOn'
  <2>1. UNCHANGED <<listener, platform, sent, saved, handled>>
    BY DEF Drift
  <2>2. WorkedUpTo(sent)' /\ (platform' = "wechat" => WorkedUpTo(saved)')
    BY <1>7, <2>1 DEF ListenersGoOn, WorkedUpTo, Worked
  <2>3. ASSUME NEW b \in Bridges
        PROVE  UpTo(channel'[b], sent')
    <3>1. CASE channel'[b] = channel[b]
      BY <1>7, <2>1, <3>1 DEF ListenersGoOn
    <3>2. CASE channel'[b] = << >>
      BY <3>2, EmptyFacts
    <3> QED
      BY <3>1, <3>2 DEF Drift
  <2>4. ASSUME NEW b \in Bridges, Current(b)'
        PROVE  Ordered(channel[b], listener[b], saved)'
    <3>1. Current(b) /\ Ordered(channel[b], listener[b], saved)
      BY <1>4, <1>7, <2>4 DEF Current, Drift, ListenersGoOn
    <3>2. CASE channel'[b] = channel[b]
      BY <2>1, <3>1, <3>2 DEF Ordered, WorkedBefore, WorkedUpTo, Worked
    <3>3. CASE channel'[b] = << >>
      <4>1. /\ \A x : UpTo(<< >>, x)
            /\ Rising(<< >>) /\ Before(<< >>, listener[b].batch) /\ WorkedBefore(<< >>)'
        BY EmptyFacts DEF WorkedBefore
      <4> QED
        BY <2>1, <3>1, <3>3, <4>1 DEF Ordered, WorkedBefore, WorkedUpTo, Worked
    <3> QED
      BY <3>2, <3>3 DEF Drift
  <2> QED
    BY <2>2, <2>3, <2>4 DEF ListenersGoOn
<1> QED
  <2>1. (overwritten \/ ListenersGoOn)'
    BY <1>7 DEF IInv, Drift
  <2> QED
    BY <1>1, <1>2, <1>3, <1>5, <1>6, <2>1 DEF IInv

LEMMA CallsDrift ==
  ASSUME IInv, NEW c \in Calls, CallStep(c)
  PROVE  Drift
<1> USE DEF IInv, Types
<1>1. CASE Edit(c) \/ ReadConfig(c) \/ InvalidateAfterSpawn(c) \/ StopInvalidate(c)
  <2>1. /\ generation' \in {generation, generation + 1}
        /\ UNCHANGED <<bridge, router, listener, channel, platform, sent, saved, overwritten,
                       published, handled, rendered>>
    BY <1>1 DEF Edit, ReadConfig, InvalidateAfterSpawn, StopInvalidate, ioVars
  <2> QED
    BY <2>1 DEF Drift, CanComeUp
<1>2. CASE Spawn(c)
  <2>1. UNCHANGED <<generation, router, listener, channel, platform, sent, saved, overwritten,
                    published, handled, rendered>>
    BY <1>2 DEF Spawn, ioVars
  <2>2. /\ bridge' \in [Bridges -> BridgeStates]
        /\ \A b \in Bridges :
             /\ bridge'[b].gen = bridge[b].gen
             /\ \/ bridge'[b].pc = bridge[b].pc
                \/ bridge[b].pc = "none" /\ bridge'[b].pc = "boot"
    <3>1. CASE UNCHANGED bridge
      BY <3>1
    <3>2. CASE ~UNCHANGED bridge
      <4>1. PICK a \in Bridges, h \in {NoBridge, handle} :
              bridge[a].pc = "none" /\ bridge' = [Aborting(h) EXCEPT ![a].pc = "boot"]
        BY <1>2, <3>2 DEF Spawn
      <4>2. /\ Aborting(h) \in [Bridges -> BridgeStates]
            /\ \A b \in Bridges : /\ Aborting(h)[b].gen = bridge[b].gen
                                  /\ Aborting(h)[b].pc = bridge[b].pc
        BY DEF Aborting, BridgeStates
      <4> QED
        BY <4>1, <4>2 DEF BridgeStates
    <3> QED
      BY <3>1, <3>2
  <2> QED
    BY <2>1, <2>2 DEF Drift, CanComeUp
<1>3. CASE StopTake(c)
  <2>1. /\ bridge' = Aborting(handle)
        /\ UNCHANGED <<generation, router, listener, channel, platform, sent, saved, overwritten,
                       published, handled, rendered>>
    BY <1>3 DEF StopTake, ioVars
  <2>2. /\ bridge' \in [Bridges -> BridgeStates]
        /\ \A b \in Bridges : bridge'[b].gen = bridge[b].gen /\ bridge'[b].pc = bridge[b].pc
    BY <2>1 DEF Aborting, BridgeStates
  <2> QED
    BY <2>1, <2>2 DEF Drift, CanComeUp
<1> QED
  BY <1>1, <1>2, <1>3 DEF CallStep

\* BootConfig, Leave and Cancel, and a main loop that finds itself outdated
LEMMA BridgesDrift ==
  ASSUME IInv, NEW b \in Bridges, BootConfig(b) \/ Leave(b) \/ Cancel(b)
  PROVE  Drift
<1> Types
  BY DEF IInv
<1>1. /\ generation' \in Nat /\ generation <= generation'
      /\ UNCHANGED <<router, listener, platform, sent, saved, overwritten, published, handled,
                     rendered>>
  BY DEF BootConfig, Leave, Cancel, ioVars, Types
<1>2. CASE Gone(b)
  <2>1. /\ bridge' \in [Bridges -> BridgeStates]
        /\ \A a \in Bridges : /\ bridge'[a].gen = bridge[a].gen
                              /\ bridge'[a].pc = bridge[a].pc \/ bridge'[a].pc = "gone"
    BY <1>2 DEF Gone, Types, BridgeStates
  <2>2. /\ channel' \in [Bridges -> Seq(Nat)]
        /\ \A a \in Bridges : channel'[a] = channel[a] \/ channel'[a] = << >>
    BY <1>2 DEF Gone, Types
  <2>3. \A a \in Bridges :
          /\ bridge'[a].pc \in {"none", "boot", "generate"} => CanComeUp(a)
          /\ bridge'[a].pc = "up" => bridge[a].pc = "up"
    BY <2>1 DEF CanComeUp
  <2> QED
    BY <1>1, <2>1, <2>2, <2>3 DEF Drift
<1>3. CASE ~Gone(b)
  <2>1. UNCHANGED channel /\ bridge' = [bridge EXCEPT ![b].pc = "generate"]
        /\ bridge[b].pc = "boot"
    BY <1>3 DEF BootConfig, Leave, Cancel
  <2>2. /\ bridge' \in [Bridges -> BridgeStates]
        /\ \A a \in Bridges :
             /\ bridge'[a].gen = bridge[a].gen
             /\ \/ bridge'[a].pc = bridge[a].pc
                \/ bridge[a].pc = "boot" /\ bridge'[a].pc = "generate"
    BY <2>1 DEF Types, BridgeStates
  <2> QED
    BY <1>1, <2>1, <2>2 DEF Drift, Types, CanComeUp
<1> QED
  BY <1>2, <1>3

-----------------------------------------------------------------------------
(* Routers.                                                                 *)

RouterMoves ==
  UNCHANGED <<bridge, generation, listener, channel, platform, sent, saved, overwritten,
              published, handled>>

LEMMA RouterMovesKeep ==
  ASSUME IInv, RouterMoves
  PROVE  /\ GenerationsDiffer' /\ BatchesWait' /\ HandledOnce'
         /\ (overwritten \/ ListenersGoOn)'
<1>1. GenerationsDiffer' /\ BatchesWait' /\ HandledOnce'
  BY DEF IInv, RouterMoves, GenerationsDiffer, BatchesWait, Batched, HandledOnce
<1>2. (overwritten \/ ListenersGoOn)'
  BY DEF IInv, RouterMoves, ListenersGoOn, WorkedUpTo, WorkedBefore, Worked, Current, IsCurrent,
         Ordered
<1> QED
  BY <1>1, <1>2

LEMMA RouterKeeps ==
  ASSUME IInv, NEW b \in Bridges, NEW r \in RouterStates, router[b].pc # "off",
         router' = [router EXCEPT ![b] = r], RouterMoves, UNCHANGED rendered,
         Placed(r), IsCurrent(b) => Reading(r)
  PROVE  IInv'
<1>1. router' \in [Bridges -> RouterStates] /\ router'[b] = r
      /\ \A a \in Bridges \ {b} : router'[a] = router[a]
  BY DEF IInv, Types
<1>2. Types' /\ RenderedOnce'
  BY <1>1 DEF IInv, RouterMoves, Types, RenderedOnce
<1>3. BootsOnce'
  BY <1>1 DEF IInv, RouterMoves, BootsOnce
<1>4. RoutersGoOn'
  <2>1. UNCHANGED <<published, rendered, bridge, generation>>
    BY DEF RouterMoves
  <2>2. \A n \in Notices : Shown(n)' => n <= published'
    BY <2>1 DEF IInv, RoutersGoOn, Shown
  <2>3. ASSUME NEW a \in Bridges
        PROVE  Placed(router[a])' /\ (IsCurrent(a)' => Reading(router[a])')
    <3>1. CASE a = b
      BY <1>1, <2>1, <3>1 DEF Placed, IsCurrent, Reading, Shown
    <3>2. CASE a # b
      BY <1>1, <2>1, <3>2 DEF IInv, RoutersGoOn, Placed, IsCurrent, Reading, Shown
    <3> QED
      BY <3>1, <3>2
  <2> QED
    BY <2>2, <2>3 DEF RoutersGoOn
<1> QED
  BY <1>2, <1>3, <1>4, RouterMovesKeep DEF IInv

LEMMA RoutersKeep ==
  ASSUME IInv, NEW b \in Bridges, RouteStep(b) \/ CancelRouter(b)
  PROVE  IInv'
<1> DEFINE r == router[b]
<1>1. /\ r \in RouterStates /\ Idle \in RouterStates /\ published \in Nat
      /\ router \in [Bridges -> RouterStates] /\ rendered \in [Notices -> 0..2]
  BY DEF IInv, Types, RouterStates, Idle
<1>2. Placed(r) /\ (IsCurrent(b) => Reading(r)) /\ Placed(Idle) /\ Reading(Idle)
  BY <1>1 DEF IInv, RoutersGoOn, Placed, Reading, Idle
<1>3. \A n \in Notices : Shown(n) => n <= published
  BY DEF IInv, RoutersGoOn
<1>4. RouterMoves
  BY DEF RouteStep, RouterSubscribe, RouterCheck, RouterRecv, RouterHandle, RouterStep,
         CancelRouter, RouterMoves, apiVars, ioVars
<1> HIDE DEF r
<1>5. CASE CancelRouter(b) \/ ((RouterCheck(b) \/ RouterHandle(b)) /\ ~IsCurrent(b))
  <2>1. /\ router[b].pc # "off" /\ router' = [router EXCEPT ![b] = Idle] /\ UNCHANGED rendered
    BY <1>5 DEF CancelRouter, RouterCheck, RouterHandle, RouterStep
  <2> QED
    BY <1>1, <1>2, <1>4, <2>1, RouterKeeps
<1>6. CASE RouterSubscribe(b)
  <2> DEFINE new == [pc |-> "check", at |-> published, got |-> 0]
  <2>1. router[b].pc # "off" /\ router' = [router EXCEPT ![b] = new] /\ UNCHANGED rendered
    BY <1>6 DEF RouterSubscribe, RouterStep
  <2>2. new \in RouterStates /\ Placed(new) /\ Reading(new)
    BY <1>1, <1>3 DEF RouterStates, Placed, Reading
  <2> HIDE DEF new
  <2> QED
    BY <1>4, <2>1, <2>2, RouterKeeps
<1>7. CASE RouterCheck(b) /\ IsCurrent(b)
  <2> DEFINE new == [r EXCEPT !.pc = "recv"]
  <2>1. /\ r.pc = "check" /\ router[b].pc # "off"
        /\ router' = [router EXCEPT ![b] = new] /\ UNCHANGED rendered
    BY <1>7 DEF RouterCheck, RouterStep, r
  <2>2. new \in RouterStates /\ Placed(new) /\ Reading(new)
    BY <1>1, <1>2, <1>7, <2>1 DEF RouterStates, Placed, Reading
  <2> HIDE DEF new
  <2> QED
    BY <1>4, <2>1, <2>2, RouterKeeps
<1>8. CASE RouterRecv(b)
  <2> DEFINE oldest == Oldest(r.at)
             late == [r EXCEPT !.pc = "check", !.at = oldest]
             next == [pc |-> "got", at |-> r.at + 1, got |-> r.at + 1]
  <2>1. /\ r.pc = "recv" /\ router[b].pc # "off" /\ r.at < published /\ UNCHANGED rendered
        /\ \/ router' = [router EXCEPT ![b] = late]
           \/ router' = [router EXCEPT ![b] = next]
    BY <1>1, <1>8 DEF RouterRecv, RouterStep, r, RouterStates
  <2>2. oldest \in Nat /\ r.at <= oldest /\ oldest <= published
    BY <1>1, <2>1, BridgeAssumption DEF Oldest, RouterStates
  <2> HIDE DEF oldest
  <2>3. late \in RouterStates /\ Placed(late) /\ (IsCurrent(b) => Reading(late))
    <3>1. late.pc = "check" /\ late.at = oldest /\ late.got = r.got /\ late \in RouterStates
      BY <1>1, <2>2 DEF RouterStates
    <3>2. r.at \in Nat /\ \A n \in Notices : n \in Nat
      BY <1>1, BridgeAssumption DEF RouterStates, Notices
    <3> QED
      BY <1>2, <2>1, <2>2, <3>1, <3>2 DEF Placed, Reading
  <2>4. next \in RouterStates /\ Placed(next) /\ (IsCurrent(b) => Reading(next))
    <3>1. r.at \in Nat /\ \A n \in Notices : n \in Nat
      BY <1>1, BridgeAssumption DEF RouterStates, Notices
    <3>2. next \in RouterStates /\ next.pc = "got" /\ next.at = r.at + 1 /\ next.got = r.at + 1
      BY <3>1 DEF RouterStates
    <3> QED
      BY <1>1, <1>2, <2>1, <3>1, <3>2 DEF Placed, Reading
  <2> HIDE DEF late, next
  <2> QED
    BY <1>4, <2>1, <2>3, <2>4, RouterKeeps
<1>9. CASE RouterHandle(b) /\ IsCurrent(b)
  <2> DEFINE new == [r EXCEPT !.pc = "check"]
  <2>1. /\ r.pc = "got" /\ router[b].pc # "off"
        /\ router' = [router EXCEPT ![b] = new]
        /\ rendered' = Count(rendered, r.got)
    BY <1>9 DEF RouterHandle, RouterStep, r
  <2>2. /\ new \in RouterStates /\ new.pc = "check" /\ new.at = r.at /\ r.at = r.got
        /\ r.at \in Nat /\ r.at <= published
        /\ \A n \in Notices : n \in Nat /\ (Shown(n) => n < r.at)
    <3>1. /\ new \in RouterStates /\ new.pc = "check" /\ new.at = r.at /\ r.at \in Nat
      BY <1>1 DEF RouterStates
    <3>2. r.at = r.got /\ r.at <= published
      BY <1>2, <2>1 DEF Placed
    <3>3. \A n \in Notices : n \in Nat
      BY BridgeAssumption DEF Notices
    <3>4. \A n \in Notices : Shown(n) => n < r.got
      BY <1>2, <1>9, <2>1 DEF Reading
    <3> QED
      BY <3>1, <3>2, <3>3, <3>4
  <2>3. \A n \in Notices : /\ rendered'[n] \in 0..2 /\ rendered'[n] <= 1
                           /\ Shown(n)' => Shown(n) \/ n = r.got
    BY <1>1, <2>1, <2>2 DEF Count, Shown, IInv, RenderedOnce
  <2>4. rendered' \in [Notices -> 0..2]
    BY <1>1, <2>1, <2>3 DEF Count
  <2>5. /\ router' \in [Bridges -> RouterStates] /\ router'[b] = new
        /\ \A a \in Bridges \ {b} : router'[a] = router[a]
    BY <1>1, <2>1, <2>2
  <2> HIDE DEF new
  <2>6. Types' /\ RenderedOnce' /\ BootsOnce'
    <3>1. Types'
      BY <1>4, <2>4, <2>5 DEF IInv, Types, RouterMoves
    <3>2. RenderedOnce'
      BY <2>3 DEF RenderedOnce
    <3>3. BootsOnce'
      BY <1>4, <2>1, <2>5, <2>2 DEF IInv, BootsOnce, RouterMoves, r
    <3> QED
      BY <3>1, <3>2, <3>3
  <2>7. RoutersGoOn'
    <3>1. UNCHANGED <<published, bridge, generation>>
      BY <1>4 DEF RouterMoves
    <3>2. \A n \in Notices : Shown(n)' => n <= published' /\ n <= new.at
      BY <1>1, <2>2, <2>3, <3>1
    <3>3. ASSUME NEW a \in Bridges \ {b}
          PROVE  Placed(router[a])' /\ (IsCurrent(a)' => Reading(router[a])')
      <4>1. Placed(router[a])'
        BY <2>5, <3>1 DEF IInv, RoutersGoOn, Placed
      <4>2. CASE router[a].pc = "off"
        BY <2>5, <4>1, <4>2 DEF Reading
      <4>3. CASE router[a].pc # "off"
        <5>1. bridge[a].gen # bridge[b].gen
          BY <2>1, <4>3 DEF IInv, GenerationsDiffer, BootsOnce
        <5> QED
          BY <1>9, <3>1, <4>1, <5>1 DEF IsCurrent
      <4> QED
        BY <4>1, <4>2, <4>3
    <3>4. Placed(router[b])' /\ Reading(router[b])'
      BY <2>2, <2>5, <3>1, <3>2 DEF Placed, Reading
    <3> QED
      BY <3>2, <3>3, <3>4 DEF RoutersGoOn
  <2> QED
    BY <1>4, <2>6, <2>7, RouterMovesKeep DEF IInv
<1> QED
  BY <1>5, <1>6, <1>7, <1>8, <1>9 DEF RouteStep

-----------------------------------------------------------------------------
(* Listeners.                                                               *)

ListenerMoves ==
  UNCHANGED <<bridge, generation, router, platform, sent, published, handled, rendered>>

LEMMA ListenerKeeps ==
  ASSUME IInv, NEW b \in Bridges, NEW l \in ListenerStates, NEW c \in Seq(Nat),
         listener[b].pc # "off",
         listener' = [listener EXCEPT ![b] = l], channel' = [channel EXCEPT ![b] = c],
         ListenerMoves, saved' \in Nat, saved' <= sent, overwritten' \in BOOLEAN,
         Batched(l),
         overwritten' \/ (~overwritten /\ saved <= saved' /\ UpTo(c, sent)),
         ~overwritten' /\ Current(b) => Ordered(c, l, saved')
  PROVE  IInv'
<1>1. /\ listener' \in [Bridges -> ListenerStates] /\ listener'[b] = l
      /\ channel' \in [Bridges -> Seq(Nat)] /\ channel'[b] = c
      /\ \A a \in Bridges \ {b} : listener'[a] = listener[a] /\ channel'[a] = channel[a]
  BY DEF IInv, Types
<1>2. Types' /\ GenerationsDiffer' /\ RoutersGoOn' /\ RenderedOnce' /\ HandledOnce'
  <2>1. Types'
    BY <1>1 DEF IInv, ListenerMoves, Types
  <2>2. GenerationsDiffer' /\ RenderedOnce' /\ HandledOnce'
    BY DEF IInv, ListenerMoves, GenerationsDiffer, RenderedOnce, HandledOnce, Types
  <2>3. RoutersGoOn'
    BY DEF IInv, ListenerMoves, RoutersGoOn, Placed, Reading, Shown, IsCurrent
  <2> QED
    BY <2>1, <2>2, <2>3
<1>3. BootsOnce'
  BY <1>1 DEF IInv, ListenerMoves, BootsOnce
<1>4. BatchesWait'
  <2>1. UNCHANGED <<platform, sent>>
    BY DEF ListenerMoves
  <2>2. ASSUME NEW a \in Bridges
        PROVE  Batched(listener[a])'
    <3>1. CASE a = b
      BY <1>1, <2>1, <3>1 DEF Batched
    <3>2. CASE a # b
      BY <1>1, <2>1, <3>2 DEF IInv, BatchesWait, Batched
    <3> QED
      BY <3>1, <3>2
  <2> QED
    BY <2>1, <2>2 DEF BatchesWait
<1>5. ASSUME ~overwritten'
      PROVE  ListenersGoOn'
  <2>1. ListenersGoOn /\ saved <= saved' /\ UpTo(c, sent) /\ saved \in Nat /\ saved' \in Nat
    BY <1>5 DEF IInv, Types
  <2>2. UNCHANGED <<platform, sent, handled, bridge, generation>> /\ \A m \in Messages : m \in Nat
    BY BridgeAssumption DEF ListenerMoves, Messages
  <2>3. WorkedUpTo(sent)' /\ (platform' = "wechat" => WorkedUpTo(saved)')
    BY <2>1, <2>2 DEF ListenersGoOn, WorkedUpTo, Worked
  <2>4. \A a \in Bridges : UpTo(channel[a], sent)'
    BY <1>1, <2>1, <2>2 DEF ListenersGoOn, UpTo
  <2>5. ASSUME NEW a \in Bridges, Current(a)'
        PROVE  Ordered(channel[a], listener[a], saved)'
    <3>1. Current(a)
      BY <2>2, <2>5 DEF Current, IsCurrent
    <3>2. CASE a = b
      BY <1>1, <1>5, <2>2, <3>1, <3>2 DEF Ordered, WorkedUpTo, WorkedBefore, Worked
    <3>3. CASE a # b
      <4>1. Ordered(channel[a], listener[a], saved)
        BY <2>1, <3>1 DEF ListenersGoOn
      <4>2. channel[a] \in Seq(Nat) /\ listener[a].batch \in Seq(Nat)
        BY DEF IInv, Types, ListenerStates
      <4>3. \A s \in Seq(Nat) : UpTo(s, saved) => UpTo(s, saved')
        BY <2>1 DEF UpTo
      <4> HIDE DEF UpTo
      <4>4. channel'[a] = channel[a] /\ listener'[a] = listener[a]
        BY <1>1, <3>3
      <4> QED
        BY <2>2, <4>1, <4>2, <4>3, <4>4 DEF Ordered, WorkedUpTo, WorkedBefore, Worked
    <3> QED
      BY <3>2, <3>3
  <2> QED
    BY <2>3, <2>4, <2>5 DEF ListenersGoOn
<1> QED
  BY <1>2, <1>3, <1>4, <1>5 DEF IInv

\* what is known of a listener that takes a step
LEMMA ListenerFacts ==
  ASSUME IInv, NEW b \in Bridges
  PROVE  /\ listener[b] \in ListenerStates /\ Batched(listener[b])
         /\ channel[b] \in Seq(Nat) /\ channel = [channel EXCEPT ![b] = channel[b]]
         /\ sent \in Nat /\ saved \in Nat /\ saved <= sent /\ overwritten \in BOOLEAN
         /\ \A m \in Messages : m \in Nat
         /\ ~overwritten => /\ UpTo(channel[b], sent) /\ WorkedUpTo(sent)
                            /\ platform = "wechat" => WorkedUpTo(saved)
                            /\ Current(b) => Ordered(channel[b], listener[b], saved)
<1>1. /\ listener[b] \in ListenerStates /\ channel[b] \in Seq(Nat)
      /\ channel = [channel EXCEPT ![b] = channel[b]]
      /\ sent \in Nat /\ saved \in Nat /\ overwritten \in BOOLEAN
  BY DEF IInv, Types
<1>2. Batched(listener[b]) /\ saved <= sent
  BY DEF IInv, BatchesWait
<1>3. \A m \in Messages : m \in Nat
  BY BridgeAssumption DEF Messages
<1> QED
  BY <1>1, <1>2, <1>3 DEF IInv, ListenersGoOn

\* nothing is read and nothing handed on
LEMMA IdleListenerKeeps ==
  ASSUME IInv, NEW b \in Bridges, NEW l \in ListenerStates, listener[b].pc # "off",
         ListenerStep(b, l), UNCHANGED <<sent, saved, overwritten, channel>>,
         l.batch = << >>, l.pc \in {"off", "check", "start", "poll"}, l.from <= sent,
         ~overwritten /\ Current(b) =>
           /\ channel[b] = << >> /\ (l.pc = "poll" => WorkedUpTo(l.from))
  PROVE  IInv'
<1>1. listener' = [listener EXCEPT ![b] = l] /\ ListenerMoves
      /\ channel' = [channel EXCEPT ![b] = channel[b]] /\ saved' = saved
      /\ overwritten' = overwritten
  BY ListenerFacts DEF ListenerStep, ListenerMoves, apiVars
<1>2. Batched(l)
  BY EmptyFacts DEF Batched
<1>3. ~overwritten /\ Current(b) => Ordered(channel[b], l, saved)
  BY EmptyFacts DEF Ordered
<1>4. /\ channel[b] \in Seq(Nat) /\ saved' \in Nat /\ saved' <= sent /\ saved <= saved'
      /\ overwritten' \in BOOLEAN
      /\ overwritten' \/ (~overwritten /\ UpTo(channel[b], sent))
  <2>1. /\ channel[b] \in Seq(Nat) /\ saved \in Nat /\ saved <= sent /\ overwritten \in BOOLEAN
        /\ ~overwritten => UpTo(channel[b], sent)
    BY ListenerFacts
  <2>2. saved <= saved' /\ saved' \in Nat /\ saved' <= sent
    BY <1>1, <2>1
  <2> QED
    BY <1>1, <2>1, <2>2
<1>5. ~overwritten' /\ Current(b) => Ordered(channel[b], l, saved')
  BY <1>1, <1>3
<1> QED
  BY <1>1, <1>2, <1>4, <1>5, ListenerKeeps

LEMMA StartsKeep ==
  ASSUME IInv, NEW b \in Bridges,
         \/ ListenCheck(b) \/ StartTelegram(b) \/ StartWechat(b)
         \/ CancelListener(b) \/ (Hand(b) /\ bridge[b].pc = "gone")
  PROVE  IInv'
<1>1. << >> \in Seq(Nat) /\ 0 \in Nat /\ 0 <= sent /\ sent <= sent
  BY ListenerFacts
<1>2. CASE CancelListener(b) \/ (ListenCheck(b) /\ ~IsCurrent(b))
  <2>1. /\ ListenerStep(b, Asleep) /\ UNCHANGED <<sent, saved, overwritten, channel>>
        /\ listener[b].pc # "off"
    BY <1>2 DEF CancelListener, ListenCheck, ListenerStep, apiVars, ioVars
  <2>2. ~Current(b)
    BY <1>2 DEF CancelListener, Dropped, Current
  <2>3. /\ Asleep \in ListenerStates /\ Asleep.batch = << >>
        /\ Asleep.pc = "off" /\ Asleep.from = 0
    BY <1>1 DEF Asleep, ListenerStates
  <2> QED
    BY <1>1, <2>1, <2>2, <2>3, IdleListenerKeeps
<1>3. CASE Hand(b) /\ bridge[b].pc = "gone"
  <2> DEFINE l == [Asleep EXCEPT !.pc = "check"]
  <2>1. ListenerStep(b, l) /\ UNCHANGED <<sent, saved, overwritten, channel>>
        /\ listener[b].pc # "off"
    BY <1>3 DEF Hand
  <2>2. l \in ListenerStates /\ l.batch = << >> /\ l.pc = "check" /\ l.from = 0
    BY <1>1 DEF Asleep, ListenerStates
  <2>3. ~Current(b)
    BY <1>3 DEF Current
  <2> HIDE DEF l
  <2> QED
    BY <1>1, <2>1, <2>2, <2>3, IdleListenerKeeps
<1>4. CASE ListenCheck(b) /\ IsCurrent(b)
  <2> DEFINE l == [Asleep EXCEPT !.pc = "start"]
  <2>1. ListenerStep(b, l) /\ UNCHANGED <<sent, saved, overwritten, channel>>
        /\ listener[b].pc = "check"
    BY <1>4 DEF ListenCheck
  <2>2. l \in ListenerStates /\ l.batch = << >> /\ l.pc = "start" /\ l.from = 0
    BY <1>1 DEF Asleep, ListenerStates
  <2>3. ~overwritten /\ Current(b) => channel[b] = << >>
    BY <2>1, ListenerFacts DEF Ordered
  <2> HIDE DEF l
  <2> QED
    BY <1>1, <2>1, <2>2, <2>3, IdleListenerKeeps
<1>5. CASE StartTelegram(b)
  <2> DEFINE l == [pc |-> "poll", from |-> sent, batch |-> << >>]
  <2>1. ListenerStep(b, l) /\ UNCHANGED <<sent, saved, overwritten, channel>>
        /\ listener[b].pc = "start"
    BY <1>5 DEF StartTelegram
  <2>2. l \in ListenerStates /\ l.batch = << >> /\ l.pc = "poll" /\ l.from = sent
    BY <1>1, ListenerFacts DEF ListenerStates
  <2>3. ~overwritten /\ Current(b) => channel[b] = << >> /\ WorkedUpTo(sent)
    BY <2>1, ListenerFacts DEF Ordered
  <2> HIDE DEF l
  <2> QED
    BY <1>1, <2>1, <2>2, <2>3, IdleListenerKeeps
<1>6. CASE StartWechat(b)
  <2> DEFINE l == [pc |-> "poll", from |-> saved, batch |-> << >>]
  <2>1. ListenerStep(b, l) /\ UNCHANGED <<sent, saved, overwritten, channel>>
        /\ listener[b].pc = "start" /\ platform = "wechat"
    BY <1>6 DEF StartWechat
  <2>2. l \in ListenerStates /\ l.batch = << >> /\ l.pc = "poll" /\ l.from = saved
        /\ saved <= sent
    BY <1>1, ListenerFacts DEF ListenerStates
  <2>3. ~overwritten /\ Current(b) => channel[b] = << >> /\ WorkedUpTo(saved)
    BY <2>1, ListenerFacts DEF Ordered
  <2> HIDE DEF l
  <2> QED
    BY <1>1, <2>1, <2>2, <2>3, IdleListenerKeeps
<1> QED
  BY <1>2, <1>3, <1>4, <1>5, <1>6

LEMMA PollsKeep ==
  ASSUME IInv, NEW b \in Bridges, PollTelegram(b) \/ PollWechat(b)
  PROVE  IInv'
<1> DEFINE k == listener[b]
           new == Unread(k.from)
           l == IF platform = "wechat" THEN [pc |-> "save", from |-> sent, batch |-> new]
                ELSE [k EXCEPT !.pc = "hand", !.batch = new]
<1>1. /\ k \in ListenerStates /\ k.from \in Nat /\ k.pc = "poll" /\ k.from < sent /\ sent \in Nat
  BY ListenerFacts DEF PollTelegram, PollWechat, ListenerStates
<1>2. /\ new \in Seq(Nat) /\ new # << >>
      /\ Rising(new) /\ UpTo(new, sent) /\ After(new, k.from)
  BY <1>1, UnreadFacts
<1>3. /\ ListenerStep(b, l) /\ UNCHANGED <<sent, saved, overwritten, channel>>
  <2>1. CASE PollTelegram(b)
    BY <2>1 DEF PollTelegram
  <2>2. CASE PollWechat(b)
    BY <2>2 DEF PollWechat
  <2> QED
    BY <2>1, <2>2
<1>4. ListenerMoves /\ listener' = [listener EXCEPT ![b] = l]
  BY <1>3 DEF ListenerStep, ListenerMoves, apiVars
<1>5. platform \in {"wechat", "telegram"}
  BY DEF IInv, Types, Platforms
<1> HIDE DEF k, new
<1>6. /\ l \in ListenerStates /\ l.batch = new
      /\ l.pc = IF platform = "wechat" THEN "save" ELSE "hand"
      /\ l.from = IF platform = "wechat" THEN sent ELSE k.from
  <2>1. CASE platform = "wechat"
    BY <1>1, <1>2, <2>1 DEF ListenerStates
  <2>2. CASE platform # "wechat"
    BY <1>1, <1>2, <2>2 DEF ListenerStates
  <2> QED
    BY <2>1, <2>2
<1> HIDE DEF l
<1>7. Batched(l)
  BY <1>1, <1>2, <1>5, <1>6 DEF Batched
<1>8. ~overwritten /\ Current(b) => Ordered(channel[b], l, saved)
  <2> SUFFICES ASSUME ~overwritten, Current(b)
               PROVE  Ordered(channel[b], l, saved)
    OBVIOUS
  <2>1. /\ Ordered(channel[b], k, saved) /\ WorkedUpTo(sent) /\ UpTo(channel[b], sent)
        /\ \A m \in Messages : m \in Nat
        /\ channel[b] \in Seq(Nat)
    BY ListenerFacts DEF k
  <2>2. UpTo(channel[b], k.from) /\ WorkedUpTo(k.from) /\ Rising(channel[b])
        /\ WorkedBefore(channel[b]) /\ (platform = "wechat" => UpTo(channel[b], saved))
    BY <1>1, <2>1 DEF Ordered
  <2>3. Before(channel[b], new)
    BY <1>1, <1>2, <2>1, <2>2 DEF Before, UpTo, After
  <2>4. WorkedBefore(new)
    BY <1>1, <1>2, <2>1, <2>2 DEF WorkedBefore, WorkedUpTo, After
  <2>5. /\ l.batch = new
        /\ l.pc \notin {"check", "start"} /\ (platform = "wechat" => l.pc # "hand")
    BY <1>6
  <2>6. UpTo(channel[b], l.from) /\ WorkedUpTo(l.from)
    BY <1>6, <2>1, <2>2
  <2> QED
    BY <2>2, <2>3, <2>4, <2>5, <2>6 DEF Ordered
<1>9. /\ listener[b].pc # "off" /\ l \in ListenerStates /\ channel[b] \in Seq(Nat)
      /\ channel' = [channel EXCEPT ![b] = channel[b]]
      /\ saved' = saved /\ saved' \in Nat /\ saved' <= sent
  BY <1>1, <1>3, <1>6, ListenerFacts DEF k
<1>10. /\ overwritten' \in BOOLEAN /\ saved <= saved'
       /\ overwritten' \/ (~overwritten /\ UpTo(channel[b], sent))
  <2>1. overwritten \in BOOLEAN /\ (~overwritten => UpTo(channel[b], sent))
    BY ListenerFacts
  <2>2. saved <= saved'
    BY <1>9
  <2> QED
    BY <1>3, <2>1, <2>2
<1>11. ~overwritten' /\ Current(b) => Ordered(channel[b], l, saved')
  BY <1>3, <1>8
<1> QED
  BY <1>4, <1>7, <1>9, <1>10, <1>11, ListenerKeeps

LEMMA SaveKeeps ==
  ASSUME IInv, NEW b \in Bridges, SaveBuffer(b)
  PROVE  IInv'
<1> DEFINE k == listener[b]
           l == [k EXCEPT !.pc = "hand"]
<1>1. /\ k \in ListenerStates /\ k.from \in Nat /\ k.from <= sent /\ k.pc = "save"
      /\ platform = "wechat" /\ Batched(k) /\ k.batch \in Seq(Nat)
  BY ListenerFacts DEF SaveBuffer, Batched, ListenerStates
<1>2. /\ ListenerMoves /\ listener' = [listener EXCEPT ![b] = l]
      /\ saved' = k.from /\ overwritten' = (overwritten \/ k.from < saved)
      /\ channel' = channel
  BY DEF SaveBuffer, ListenerStep, ListenerMoves, apiVars
<1>3. l \in ListenerStates /\ l.pc = "hand" /\ l.from = k.from /\ l.batch = k.batch
  BY <1>1 DEF ListenerStates
<1> HIDE DEF k, l
<1>4. Batched(l)
  BY <1>1, <1>3 DEF Batched
<1>5. /\ overwritten' \in BOOLEAN
      /\ overwritten' \/ (~overwritten /\ saved <= saved' /\ UpTo(channel[b], sent))
  <2>1. /\ overwritten \in BOOLEAN /\ saved \in Nat /\ k.from \in Nat
        /\ overwritten \/ UpTo(channel[b], sent)
    BY <1>1, ListenerFacts
  <2>2. CASE k.from < saved
    BY <1>2, <2>2
  <2>3. CASE ~(k.from < saved)
    <3>1. overwritten' = overwritten
      BY <1>2, <2>1, <2>3
    <3>2. saved <= saved'
      BY <1>2, <2>1, <2>3
    <3> QED
      BY <2>1, <3>1, <3>2
  <2> QED
    BY <2>2, <2>3
<1>6. ~overwritten' /\ Current(b) => Ordered(channel[b], l, saved')
  <2> SUFFICES ASSUME ~overwritten', Current(b)
               PROVE  Ordered(channel[b], l, saved')
    OBVIOUS
  <2>1. Ordered(channel[b], k, saved)
    BY <1>2, ListenerFacts DEF k
  <2>2. UpTo(k.batch, k.from)
    BY <1>1 DEF Batched
  <2> QED
    BY <1>1, <1>2, <1>3, <2>1, <2>2 DEF Ordered
<1>7. listener[b].pc # "off" /\ channel[b] \in Seq(Nat)
      /\ channel' = [channel EXCEPT ![b] = channel[b]]
      /\ saved' \in Nat /\ saved' <= sent
  BY <1>1, <1>2, ListenerFacts DEF k
<1> QED
  BY <1>2, <1>3, <1>4, <1>5, <1>6, <1>7, ListenerKeeps

LEMMA HandKeeps ==
  ASSUME IInv, NEW b \in Bridges, Hand(b), bridge[b].pc # "gone"
  PROVE  IInv'
<1> DEFINE k == listener[b]
           x == Head(k.batch)
           rest == Tail(k.batch)
           l == [k EXCEPT !.batch = rest,
                          !.pc = IF Len(k.batch) = 1 THEN "poll" ELSE "hand",
                          !.from = IF platform = "telegram" THEN x ELSE k.from]
           c == Append(channel[b], x)
<1>1. /\ k \in ListenerStates /\ k.from \in Nat /\ k.pc = "hand" /\ k.batch \in Seq(Nat)
      /\ k.batch # << >> /\ Batched(k) /\ channel[b] \in Seq(Nat)
  BY ListenerFacts DEF Hand, ListenerStates
<1>2. /\ x \in Nat /\ x = k.batch[1] /\ 1 \in DOMAIN k.batch
      /\ rest \in Seq(Nat) /\ (Len(k.batch) = 1 <=> rest = << >>)
  BY <1>1, TailFacts, TailIsEmpty
<1>3. /\ ListenerStep(b, l) /\ channel' = [channel EXCEPT ![b] = c]
      /\ UNCHANGED <<saved, sent, overwritten>>
  BY DEF Hand
<1>4. ListenerMoves /\ listener' = [listener EXCEPT ![b] = l]
  BY <1>3 DEF ListenerStep, ListenerMoves, apiVars
<1>5. Rising(rest) /\ After(rest, x) /\ UpTo(rest, sent) /\ x <= sent
      /\ (platform = "wechat" => UpTo(rest, k.from) /\ x <= k.from)
  BY <1>1, TailKeepsOrder, TailKeepsBounds DEF Batched
<1>6. platform \in {"wechat", "telegram"}
  BY DEF IInv, Types, Platforms
<1>7. /\ l \in ListenerStates /\ l.batch = rest
      /\ l.pc = IF rest = << >> THEN "poll" ELSE "hand"
      /\ l.from = IF platform = "telegram" THEN x ELSE k.from
  <2> HIDE DEF k, x, rest
  <2> QED
    BY <1>1, <1>2 DEF ListenerStates
<1>8. c \in Seq(Nat) /\ \A i, j \in DOMAIN c : i < j => i \in DOMAIN channel[b]
  BY <1>1, <1>2, AppendFacts
<1>9. \A i \in DOMAIN c : \/ i \in DOMAIN channel[b] /\ c[i] = channel[b][i]
                          \/ /\ i \notin DOMAIN channel[b] /\ c[i] = x
                             /\ \A j \in DOMAIN channel[b] : j < i
  BY <1>1, <1>2, AppendFacts
<1>10. k.from <= sent /\ sent \in Nat
  BY <1>1, ListenerFacts DEF Batched
<1> HIDE DEF k, x, rest, l, c
<1>11. Batched(l)
  BY <1>1, <1>2, <1>5, <1>6, <1>7, <1>10 DEF Batched
<1>12. overwritten \/ UpTo(c, sent)
  BY <1>5, <1>9, ListenerFacts DEF UpTo
<1>13. ~overwritten /\ Current(b) => Ordered(c, l, saved)
  <2> SUFFICES ASSUME ~overwritten, Current(b)
               PROVE  Ordered(c, l, saved)
    OBVIOUS
  <2>1. Ordered(channel[b], k, saved) /\ \A m \in Messages : m \in Nat
    BY ListenerFacts DEF k
  <2>2. /\ Rising(channel[b]) /\ Before(channel[b], k.batch) /\ WorkedBefore(channel[b])
        /\ WorkedBefore(k.batch) /\ UpTo(channel[b], k.from) /\ WorkedUpTo(k.from)
        /\ platform = "wechat" => UpTo(channel[b], saved) /\ UpTo(k.batch, saved)
    BY <1>1, <2>1 DEF Ordered
  <2>3. /\ \A i \in DOMAIN channel[b] : channel[b][i] < x
        /\ \A m \in Messages : Worked(m) => m < x
        /\ platform = "wechat" => x <= saved
    BY <1>2, <2>2 DEF Before, WorkedBefore, UpTo
  <2>4. /\ \A i \in DOMAIN channel[b] : channel[b][i] \in Nat
        /\ \A i \in DOMAIN rest : rest[i] \in Nat
    BY <1>1, <1>2
  <2>5. Rising(c)
    <3> SUFFICES ASSUME NEW i \in DOMAIN c, NEW j \in DOMAIN c, i < j
                 PROVE  c[i] < c[j]
      BY DEF Rising
    <3>1. i \in DOMAIN channel[b]
      BY <1>8
    <3> QED
      BY <1>9, <2>2, <2>3, <3>1 DEF Rising
  <2>6. Before(c, rest)
    BY <1>2, <1>5, <1>9, <2>3, <2>4 DEF Before, After
  <2>7. WorkedBefore(c)
    BY <1>9, <2>2, <2>3 DEF WorkedBefore
  <2>8. WorkedBefore(rest)
    BY <1>2, <1>5, <2>1, <2>3, <2>4 DEF WorkedBefore, After
  <2>9. UpTo(c, l.from) /\ WorkedUpTo(l.from)
    <3>1. CASE platform = "telegram"
      BY <1>2, <1>7, <1>9, <2>1, <2>3, <2>4, <3>1 DEF UpTo, WorkedUpTo
    <3>2. CASE platform = "wechat"
      BY <1>5, <1>7, <1>9, <2>2, <3>2 DEF UpTo
    <3> QED
      BY <1>6, <3>1, <3>2
  <2>10. platform = "wechat" => UpTo(c, saved) /\ UpTo(rest, saved)
    <3>1. platform = "wechat" => UpTo(c, saved)
      BY <1>9, <2>2, <2>3 DEF UpTo
    <3>2. platform = "wechat" => UpTo(rest, saved)
      BY <1>1, <2>2, TailKeepsBounds DEF rest
    <3> QED
      BY <3>1, <3>2
  <2> QED
    BY <1>7, <2>5, <2>6, <2>7, <2>8, <2>9, <2>10 DEF Ordered
<1>14. /\ listener[b].pc # "off" /\ saved' \in Nat /\ saved' <= sent /\ saved' = saved
       /\ overwritten' = overwritten /\ overwritten \in BOOLEAN /\ saved \in Nat
  BY <1>1, <1>3, ListenerFacts DEF k
<1>15. /\ overwritten' \/ (~overwritten /\ saved <= saved' /\ UpTo(c, sent))
       /\ ~overwritten' /\ Current(b) => Ordered(c, l, saved')
       /\ overwritten' \in BOOLEAN
  BY <1>12, <1>13, <1>14
<1>16. l \in ListenerStates
  BY <1>7
<1> QED
  BY <1>3, <1>4, <1>8, <1>11, <1>14, <1>15, <1>16, ListenerKeeps

-----------------------------------------------------------------------------
(* The main loop, and what comes from outside.                              *)

LEMMA ComingUpKeeps ==
  ASSUME IInv, NEW b \in Bridges, BootGenerate(b)
  PROVE  IInv'
<1> DEFINE g == generation + 1
<1>1. /\ generation' = g /\ bridge[b].pc = "generate"
      /\ bridge' = [bridge EXCEPT ![b].pc = "up", ![b].gen = g]
      /\ router' = [router EXCEPT ![b].pc = "new"]
      /\ listener' = [listener EXCEPT ![b].pc = "check"]
      /\ UNCHANGED <<channel, platform, sent, saved, overwritten, published, handled, rendered>>
  BY DEF BootGenerate, ioVars
<1>2. /\ generation \in Nat /\ g \in Nat /\ generation < g /\ g >= 1
      /\ \A a \in Bridges : /\ bridge[a] \in BridgeStates /\ router[a] \in RouterStates
                            /\ listener[a] \in ListenerStates
                            /\ bridge[a].gen \in Nat /\ bridge[a].gen < g
  BY DEF IInv, Types, BridgeStates, GenerationsDiffer
<1> HIDE DEF g
<1>3. /\ bridge' \in [Bridges -> BridgeStates] /\ bridge'[b].pc = "up" /\ bridge'[b].gen = g
      /\ router' \in [Bridges -> RouterStates] /\ router'[b].pc = "new"
      /\ router'[b].at = router[b].at
      /\ listener' \in [Bridges -> ListenerStates] /\ listener'[b].pc = "check"
      /\ listener'[b].from = listener[b].from /\ listener'[b].batch = listener[b].batch
      /\ \A a \in Bridges \ {b} : /\ bridge'[a] = bridge[a] /\ router'[a] = router[a]
                                  /\ listener'[a] = listener[a]
  <2>1. bridge' \in [Bridges -> BridgeStates] /\ bridge'[b].pc = "up" /\ bridge'[b].gen = g
        /\ \A a \in Bridges \ {b} : bridge'[a] = bridge[a]
    BY <1>1, <1>2 DEF IInv, Types, BridgeStates
  <2>2. router' \in [Bridges -> RouterStates] /\ router'[b].pc = "new"
        /\ router'[b].at = router[b].at /\ \A a \in Bridges \ {b} : router'[a] = router[a]
    BY <1>1, <1>2 DEF IInv, Types, RouterStates
  <2>3. /\ listener' \in [Bridges -> ListenerStates] /\ listener'[b].pc = "check"
        /\ listener'[b].from = listener[b].from /\ listener'[b].batch = listener[b].batch
        /\ \A a \in Bridges \ {b} : listener'[a] = listener[a]
    BY <1>1, <1>2 DEF IInv, Types, ListenerStates
  <2> QED
    BY <2>1, <2>2, <2>3
<1>4. Types' /\ HandledOnce' /\ RenderedOnce'
  BY <1>1, <1>2, <1>3 DEF IInv, Types, HandledOnce, RenderedOnce
<1>5. GenerationsDiffer'
  BY <1>1, <1>2, <1>3 DEF IInv, GenerationsDiffer
<1>6. BootsOnce'
  BY <1>1, <1>2, <1>3 DEF IInv, BootsOnce
<1>7. \A a \in Bridges \ {b} : ~IsCurrent(a)'
  BY <1>1, <1>2, <1>3 DEF IsCurrent
<1>8. RoutersGoOn'
  <2>1. Reading(router[b])'
    BY <1>3 DEF Reading
  <2> QED
    BY <1>1, <1>3, <1>7, <2>1 DEF IInv, RoutersGoOn, Placed, Shown
<1>9. /\ listener[b].pc = "off" /\ listener[b].batch = << >> /\ channel[b] = << >>
  BY <1>1 DEF IInv, BootsOnce, BatchesWait, Batched
<1>10. BatchesWait'
  <2>1. Batched(listener[b])'
    BY <1>1, <1>3, <1>9 DEF IInv, BatchesWait, Batched, Rising, UpTo, After
  <2>2. ASSUME NEW a \in Bridges \ {b}
        PROVE  Batched(listener[a])'
    BY <1>1, <1>3 DEF IInv, BatchesWait, Batched
  <2> QED
    BY <1>1, <2>1, <2>2 DEF IInv, BatchesWait
<1>11. ASSUME ListenersGoOn
       PROVE  ListenersGoOn'
  <2>1. Ordered(channel[b], listener[b], saved)'
    BY <1>1, <1>3, <1>9
       DEF Ordered, Rising, Before, UpTo, WorkedBefore
  <2>2. /\ WorkedUpTo(sent)' /\ (platform' = "wechat" => WorkedUpTo(saved)')
        /\ \A a \in Bridges : UpTo(channel[a], sent)'
    BY <1>1, <1>11 DEF ListenersGoOn, WorkedUpTo, Worked, UpTo
  <2> QED
    BY <1>7, <2>1, <2>2 DEF ListenersGoOn, Current
<1> QED
  <2>1. (overwritten \/ ListenersGoOn)'
    BY <1>1, <1>11 DEF IInv
  <2> QED
    BY <1>4, <1>5, <1>6, <1>8, <1>10, <2>1 DEF IInv

LEMMA DispatchKeeps ==
  ASSUME IInv, NEW b \in Bridges, Dispatch(b)
  PROVE  IInv'
<1> DEFINE c == channel[b]
           x == Head(c)
           rest == Tail(c)
<1>1. /\ c \in Seq(Nat) /\ c # << >> /\ bridge[b].pc = "up"
      /\ channel' = [channel EXCEPT ![b] = rest]
      /\ UNCHANGED <<generation, router, listener, platform, sent, saved, overwritten, published,
                     rendered>>
  BY DEF Dispatch, IInv, Types, apiVars, ioVars
<1>2. x \in Nat /\ x = c[1] /\ 1 \in DOMAIN c /\ rest \in Seq(Nat)
  BY <1>1, TailFacts
<1> HIDE DEF c, x, rest
<1>3. /\ channel' \in [Bridges -> Seq(Nat)] /\ channel'[b] = rest
      /\ \A a \in Bridges \ {b} : channel'[a] = channel[a]
  BY <1>1, <1>2 DEF IInv, Types
<1>4. /\ bridge' \in [Bridges -> BridgeStates]
      /\ \A a \in Bridges : /\ bridge'[a].gen = bridge[a].gen
                            /\ bridge'[a].pc \in {"none", "boot", "generate"} => CanComeUp(a)
                            /\ bridge'[a].pc = "up" => bridge[a].pc = "up"
                            /\ IsCurrent(b) => bridge'[a].pc = bridge[a].pc
      /\ ~IsCurrent(b) => bridge'[b].pc = "leaving"
  <2>1. CASE IsCurrent(b)
    BY <2>1 DEF Dispatch, IInv, Types, CanComeUp
  <2>2. CASE ~IsCurrent(b)
    <3>1. bridge' = [bridge EXCEPT ![b].pc = "leaving"]
      BY <2>2 DEF Dispatch
    <3> QED
      BY <2>2, <3>1 DEF IInv, Types, BridgeStates, CanComeUp
  <2> QED
    BY <2>1, <2>2
<1>5. handled' = IF IsCurrent(b) THEN Count(handled, x) ELSE handled
  BY DEF Dispatch, x, c
<1>6. /\ handled' \in [Messages -> 0..2]
      /\ \A m \in Messages : /\ m \in Nat
                             /\ Worked(m)' => Worked(m) \/ (IsCurrent(b) /\ m = x)
                             /\ handled'[m] # handled[m] =>
                                  IsCurrent(b) /\ m = x /\ handled'[m] <= handled[m] + 1
  <2>1. handled \in [Messages -> 0..2] /\ \A m \in Messages : m \in Nat
    BY BridgeAssumption DEF IInv, Types, Messages
  <2> QED
    <3>1. CASE ~IsCurrent(b)
      BY <1>5, <2>1, <3>1 DEF Worked
    <3>2. CASE IsCurrent(b)
      <4>1. handled' = [handled EXCEPT ![x] = IF handled[x] < 2 THEN handled[x] + 1 ELSE handled[x]]
        BY <1>5, <3>2 DEF Count
      <4>2. \A m \in Messages :
              \/ m # x /\ handled'[m] = handled[m]
              \/ m = x /\ handled'[m] \in 0..2 /\ handled'[m] <= handled[m] + 1
        BY <2>1, <4>1
      <4>3. handled' \in [Messages -> 0..2]
        BY <2>1, <4>1, <4>2
      <4> QED
        BY <2>1, <3>2, <4>2, <4>3 DEF Worked
    <3> QED
      BY <3>1, <3>2
<1>7. Types' /\ RenderedOnce' /\ BatchesWait'
  <2>1. Types'
    BY <1>1, <1>3, <1>4, <1>6 DEF IInv, Types
  <2>2. RenderedOnce' /\ BatchesWait'
    BY <1>1 DEF IInv, RenderedOnce, BatchesWait, Batched
  <2> QED
    BY <2>1, <2>2
<1>8. GenerationsDiffer' /\ BootsOnce' /\ RoutersGoOn'
  <2>1. GenerationsDiffer'
    BY <1>1, <1>4 DEF IInv, GenerationsDiffer
  <2>2. BootsOnce'
    <3>1. bridge[b].pc \notin {"none", "boot", "generate"}
      BY <1>1
    <3> QED
      BY <1>1, <1>3, <1>4, <3>1 DEF IInv, BootsOnce, CanComeUp
  <2>3. RoutersGoOn'
    BY <1>1, <1>4 DEF IInv, RoutersGoOn, Placed, Reading, Shown, IsCurrent
  <2> QED
    BY <2>1, <2>2, <2>3
<1>9. ASSUME ListenersGoOn
      PROVE  ListenersGoOn' /\ (HandledOnce => HandledOnce')
  <2>1. UpTo(c, sent) /\ UpTo(rest, sent) /\ x <= sent
    BY <1>1, <1>9, TailKeepsBounds DEF ListenersGoOn, c, x, rest
  <2>2. CASE ~IsCurrent(b)
    <3>1. handled' = handled
      BY <1>5, <2>2
    <3>2. \A a \in Bridges : Current(a)' => Current(a) /\ a # b
      BY <1>1, <1>4, <2>2 DEF Current, IsCurrent
    <3>3. \A a \in Bridges : UpTo(channel[a], sent)'
      BY <1>1, <1>3, <1>9, <2>1 DEF ListenersGoOn, UpTo
    <3>4. WorkedUpTo(sent)' /\ (platform' = "wechat" => WorkedUpTo(saved)')
      BY <1>1, <1>9, <3>1 DEF ListenersGoOn, WorkedUpTo, Worked
    <3>5. ASSUME NEW a \in Bridges, Current(a)'
          PROVE  Ordered(channel[a], listener[a], saved)'
      <4>1. Ordered(channel[a], listener[a], saved) /\ channel'[a] = channel[a]
        BY <1>3, <1>9, <3>2, <3>5 DEF ListenersGoOn
      <4> QED
        BY <1>1, <3>1, <4>1 DEF Ordered, WorkedUpTo, WorkedBefore, Worked
    <3>6. HandledOnce => HandledOnce'
      BY <1>1, <3>1 DEF HandledOnce
    <3> QED
      BY <3>3, <3>4, <3>5, <3>6 DEF ListenersGoOn
  <2>3. CASE IsCurrent(b)
    <3> DEFINE k == listener[b]
    <3>1. Ordered(c, k, saved) /\ k.batch \in Seq(Nat)
      BY <1>1, <1>9, <2>3 DEF ListenersGoOn, Current, c, IInv, Types, ListenerStates
    <3>2. \A m \in Messages : Worked(m) => m < x
      BY <1>2, <3>1 DEF Ordered, WorkedBefore
    <3>3. ~(x \in Messages /\ Worked(x))
      BY <1>2, <3>2
    <3>4. HandledOnce => HandledOnce'
      <4>1. x \in Messages => handled[x] = 0
        BY <3>3 DEF Worked, IInv, Types
      <4> QED
        <5> SUFFICES ASSUME \A m \in Messages : handled[m] <= 1
                     PROVE  \A m \in Messages : handled'[m] <= 1
          BY <1>1 DEF HandledOnce
        <5> QED
          BY <1>6, <4>1
    <3>5. \A m \in Messages : Worked(m)' => m <= x /\ m \in Nat
      BY <1>2, <1>6, <3>2
    <3>6. WorkedUpTo(sent)'
      BY <1>1, <1>2, <2>1, <3>5 DEF WorkedUpTo, IInv, Types
    <3>7. platform' = "wechat" => WorkedUpTo(saved)'
      <4>1. platform = "wechat" => x <= saved
        BY <1>2, <3>1 DEF Ordered, UpTo
      <4> QED
        BY <1>1, <1>2, <3>5, <4>1 DEF WorkedUpTo, IInv, Types
    <3>8. \A a \in Bridges : UpTo(channel[a], sent)'
      BY <1>1, <1>3, <1>9, <2>1 DEF ListenersGoOn, UpTo
    <3>9. \A a \in Bridges : Current(a)' => a = b
      BY <1>1, <1>4, <2>3 DEF Current, IsCurrent, IInv, GenerationsDiffer, BootsOnce
    <3>10. Ordered(channel[b], listener[b], saved)'
      <4>1. Rising(rest) /\ After(rest, x) /\ \A i \in DOMAIN rest : rest[i] \in Nat
        BY <1>1, <1>2, <3>1, TailKeepsOrder DEF Ordered, x, rest
      <4>2. Before(rest, k.batch) /\ After(k.batch, x)
        BY <1>1, <1>2, <3>1, TailFacts DEF Ordered, Before, After, x, rest
      <4>3. WorkedBefore(channel[b])' /\ WorkedBefore(listener[b].batch)'
        <5>1. WorkedBefore(channel[b])'
          BY <1>2, <1>3, <3>5, <4>1 DEF WorkedBefore, After
        <5>2. WorkedBefore(listener[b].batch)'
          BY <1>1, <1>2, <3>1, <3>5, <4>2 DEF WorkedBefore, After
        <5> QED
          BY <5>1, <5>2
      <4>4. k.pc \in {"check", "start"} => FALSE
        BY <1>1, <3>1 DEF Ordered
      <4>5. k.pc \in {"poll", "save", "hand"} => UpTo(rest, k.from) /\ x <= k.from
        BY <1>1, <3>1, TailKeepsBounds DEF Ordered, x, rest
      <4>6. k.pc \in {"poll", "save", "hand"} => WorkedUpTo(listener[b].from)'
        <5>1. k.from \in Nat
          BY DEF IInv, Types, ListenerStates
        <5> QED
          BY <1>1, <1>2, <3>5, <4>5, <5>1 DEF WorkedUpTo
      <4>7. platform = "wechat" => UpTo(rest, saved) /\ (k.pc = "hand" => UpTo(k.batch, saved))
        BY <1>1, <3>1, TailKeepsBounds DEF Ordered, x, rest
      <4> QED
        BY <1>1, <1>3, <4>1, <4>2, <4>3, <4>4, <4>5, <4>6, <4>7 DEF Ordered
    <3> QED
      BY <1>3, <3>4, <3>6, <3>7, <3>8, <3>9, <3>10 DEF ListenersGoOn
  <2> QED
    BY <2>2, <2>3
<1> QED
  <2>1. (overwritten \/ ListenersGoOn)' /\ HandledOnce'
    <3>1. CASE overwritten
      BY <1>1, <3>1 DEF HandledOnce
    <3>2. CASE ~overwritten
      BY <1>9, <3>2 DEF IInv
    <3> QED
      BY <3>1, <3>2
  <2> QED
    BY <1>7, <1>8, <2>1 DEF IInv

\* a notice of Codex or a message of a user
LEMMA TrafficKeeps ==
  ASSUME IInv, Publish \/ UserSends
  PROVE  IInv'
<1>1. /\ UNCHANGED <<generation, bridge, router, listener, channel, platform, saved, overwritten,
                     handled, rendered>>
      /\ published' \in Nat /\ published <= published' /\ sent' \in Nat /\ sent <= sent'
      /\ published \in Nat /\ sent \in Nat
  BY DEF Publish, UserSends, apiVars, IInv, Types
<1>2. Types' /\ GenerationsDiffer' /\ BootsOnce' /\ RenderedOnce' /\ HandledOnce'
  BY <1>1 DEF IInv, Types, GenerationsDiffer, BootsOnce, RenderedOnce, HandledOnce
<1>3. /\ \A n \in Notices : n \in Nat
      /\ \A m \in Messages : m \in Nat
      /\ \A b \in Bridges : router[b].at \in Nat /\ listener[b].from \in Nat
      /\ saved \in Nat
  BY BridgeAssumption DEF Notices, Messages, IInv, Types, RouterStates, ListenerStates
<1>4. RoutersGoOn'
  BY <1>1, <1>3 DEF IInv, RoutersGoOn, Placed, Reading, Shown, IsCurrent
<1>5. \A s \in Seq(Nat) : UpTo(s, sent) => UpTo(s, sent')
  BY <1>1 DEF UpTo
<1>6. BatchesWait'
  <2>1. ASSUME NEW b \in Bridges
        PROVE  Batched(listener[b])'
    <3>1. listener[b].batch \in Seq(Nat) /\ Batched(listener[b])
      BY DEF IInv, Types, ListenerStates, BatchesWait
    <3>2. UpTo(listener[b].batch, sent')
      BY <1>5, <3>1 DEF Batched
    <3> QED
      BY <1>1, <1>3, <3>1, <3>2 DEF Batched
  <2>2. saved' <= sent'
    BY <1>1, <1>3 DEF IInv, BatchesWait
  <2> QED
    BY <2>1, <2>2 DEF BatchesWait
<1>7. (overwritten \/ ListenersGoOn)'
  <2> SUFFICES ASSUME ListenersGoOn
               PROVE  ListenersGoOn'
    BY <1>1 DEF IInv
  <2>1. WorkedUpTo(sent)' /\ (platform' = "wechat" => WorkedUpTo(saved)')
    BY <1>1, <1>3 DEF ListenersGoOn, WorkedUpTo, Worked
  <2>2. \A b \in Bridges : UpTo(channel[b], sent)'
    <3>1. \A b \in Bridges : channel[b] \in Seq(Nat) /\ UpTo(channel[b], sent)
      BY DEF IInv, Types, ListenersGoOn
    <3> QED
      BY <1>1, <1>5, <3>1
  <2>3. \A b \in Bridges : Current(b)' => Ordered(channel[b], listener[b], saved)'
    BY <1>1 DEF ListenersGoOn, Current, IsCurrent, Ordered, WorkedBefore, WorkedUpTo, Worked
  <2> QED
    BY <2>1, <2>2, <2>3 DEF ListenersGoOn
<1> QED
  BY <1>2, <1>4, <1>6, <1>7 DEF IInv

-----------------------------------------------------------------------------
LEMMA InitEstablishes ==
  ASSUME Init
  PROVE  IInv
<1>1. Types
  <2>1. bridge \in [Bridges -> BridgeStates]
    BY DEF Init, BridgeStates
  <2>2. router \in [Bridges -> RouterStates]
    BY DEF Init, RouterStates, Idle
  <2>3. listener \in [Bridges -> ListenerStates] /\ channel \in [Bridges -> Seq(Nat)]
    <3>1. << >> \in Seq(Nat)
      OBVIOUS
    <3>2. Asleep \in ListenerStates
      BY <3>1 DEF Asleep, ListenerStates
    <3> QED
      BY <3>1, <3>2 DEF Init
  <2>4. handled \in [Messages -> 0..2] /\ rendered \in [Notices -> 0..2]
    BY DEF Init
  <2>5. /\ generation \in Nat /\ platform \in Platforms /\ overwritten \in BOOLEAN
        /\ sent \in Nat /\ saved \in Nat /\ published \in Nat
    BY DEF Init
  <2> QED
    BY <2>1, <2>2, <2>3, <2>4, <2>5 DEF Types
<1>2. GenerationsDiffer /\ BootsOnce
  BY DEF Init, GenerationsDiffer, BootsOnce, Idle, Asleep
<1>3. RoutersGoOn /\ RenderedOnce /\ HandledOnce
  BY DEF Init, RoutersGoOn, Placed, Reading, Shown, RenderedOnce, HandledOnce, Idle
<1>4. BatchesWait
  <2>1. \A b \in Bridges : /\ listener[b].pc = "off" /\ listener[b].from = 0
                            /\ listener[b].batch = << >>
    BY DEF Init, Asleep
  <2>2. sent = 0 /\ saved = 0
    BY DEF Init
  <2> QED
    BY <2>1, <2>2, EmptyFacts DEF BatchesWait, Batched
<1>5. ListenersGoOn
  <2>1. \A b \in Bridges : channel[b] = << >> /\ bridge[b].pc = "none"
    BY DEF Init
  <2>2. \A m \in Messages : ~Worked(m)
    BY DEF Init, Worked
  <2> QED
    BY <2>1, <2>2, EmptyFacts DEF ListenersGoOn, WorkedUpTo, Current
<1> QED
  BY <1>1, <1>2, <1>3, <1>4, <1>5 DEF IInv

LEMMA NextKeeps ==
  ASSUME IInv, [Next]_vars
  PROVE  IInv'
<1>1. CASE Publish \/ UserSends
  BY <1>1, TrafficKeeps
<1>2. ASSUME NEW c \in Calls, CallStep(c)
      PROVE  IInv'
  BY <1>2, CallsDrift, DriftKeeps
<1>3. ASSUME NEW b \in Bridges, BridgeStep(b)
      PROVE  IInv'
  <2>1. CASE BootConfig(b) \/ Leave(b)
    BY <2>1, BridgesDrift, DriftKeeps
  <2>2. CASE BootGenerate(b)
    BY <2>2, ComingUpKeeps
  <2>3. CASE Dispatch(b)
    BY <2>3, DispatchKeeps
  <2> QED
    BY <1>3, <2>1, <2>2, <2>3 DEF BridgeStep
<1>4. ASSUME NEW b \in Bridges, CancelStep(b)
      PROVE  IInv'
  <2>1. CASE Cancel(b)
    BY <2>1, BridgesDrift, DriftKeeps
  <2>2. CASE CancelRouter(b)
    BY <2>2, RoutersKeep
  <2>3. CASE CancelListener(b)
    BY <2>3, StartsKeep
  <2> QED
    BY <1>4, <2>1, <2>2, <2>3 DEF CancelStep
<1>5. ASSUME NEW b \in Bridges, RouteStep(b)
      PROVE  IInv'
  BY <1>5, RoutersKeep
<1>6. ASSUME NEW b \in Bridges, ListenStep(b)
      PROVE  IInv'
  <2>1. CASE ListenCheck(b) \/ StartTelegram(b) \/ StartWechat(b)
    BY <2>1, StartsKeep
  <2>2. CASE PollTelegram(b) \/ PollWechat(b)
    BY <2>2, PollsKeep
  <2>3. CASE SaveBuffer(b)
    BY <2>3, SaveKeeps
  <2>4. CASE Hand(b)
    BY <2>4, StartsKeep, HandKeeps
  <2> QED
    BY <1>6, <2>1, <2>2, <2>3, <2>4 DEF ListenStep
<1>7. CASE UNCHANGED vars
  <2>1. Drift
    BY <1>7 DEF vars, Drift, IInv, Types, CanComeUp
  <2> QED
    BY <2>1, DriftKeeps
<1> QED
  BY <1>1, <1>2, <1>3, <1>4, <1>5, <1>6, <1>7 DEF Next

(* However bridges are started, stopped, replaced and dropped one beside    *)
(* the other, no notice of Codex is shown twice, and no message is handed   *)
(* to two handlers unless an aborted listener of WeChat has saved its       *)
(* buffer over its successor's (start_bridge, codex_event_router,           *)
(* listen_polling).                                                         *)
THEOREM NothingIsWorkedOnTwice == Spec => []WorkedOnOnce
<1>1. Init => IInv
  BY InitEstablishes
<1>2. IInv /\ [Next]_vars => IInv'
  BY NextKeeps
<1>3. IInv => WorkedOnOnce
  BY DEF IInv, WorkedOnOnce
<1> QED
  BY <1>1, <1>2, <1>3, PTL DEF Spec
=============================================================================
