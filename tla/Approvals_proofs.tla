--------------------------- MODULE Approvals_proofs ---------------------------
(***************************************************************************)
(* Proofs about what the IM adapters do with approvals, messages and       *)
(* threads.                                                                *)
(*                                                                         *)
(* Approvals, for every set of conversations, requests and replies, ids    *)
(* shared or not, and every bound: only the current approval of a          *)
(* conversation is prompted for, and no current one is overlooked.  The    *)
(* lemmas say what filing and settling an approval does to the queues as   *)
(* sets; the invariant is then preserved by set reasoning.                 *)
(*                                                                         *)
(* Listeners, for every set of events and all timings: no event a platform *)
(* was told of is lost, and no silent connection is kept.                  *)
(*                                                                         *)
(* ThreadRouting, for every set of handlers, listings and options: a       *)
(* number means what was shown beside it.                                  *)
(***************************************************************************)
EXTENDS Approvals, Listeners, ThreadRouting, FiniteSetTheorems, WellFoundedInduction, TLAPS

-----------------------------------------------------------------------------
(* The inductive invariant.                                                 *)

Queues == [queue : [Convs -> Seq(Approvals)], keys : SUBSET Ids]
Tasks == [pc : {"idle", "text", "button", "card", "check", "answer", "resolve", "confirm",
                "next", "done"},
          id : Ids \cup {NoId}, chosen : SUBSET Approvals, next : SUBSET Approvals]

Types ==
  /\ pending \in Queues
  /\ outbox \in Seq(Approvals)
  /\ chat \in [shown : SUBSET Approvals, failed : SUBSET Approvals,
               forgotten : SUBSET Approvals]
  /\ router \in [pc : {"idle", "asked", "resolved", "send"}, next : SUBSET Approvals]
  /\ task \in [Replies -> Tasks]
  /\ wire \in Seq([kind : {"asked", "resolved"}, approval : Approvals])
  /\ app \in [asked : [Requests -> 0..MaxAsks], open : SUBSET Requests]
  /\ \A r \in app.open : app.asked[r] > 0

AtMostOne(A) == \A a, b \in A : a = b

\* who is to enqueue which prompts
Shape ==
  /\ AtMostOne(router.next)
  /\ \A m \in Replies :
       /\ AtMostOne(task[m].next)
       /\ task[m].pc \notin {"confirm", "next"} => task[m].next = {}

AllFiled == UNION {Filed(c) : c \in Convs}

\* every approval that came past the router's queue
Seen == Prompted \cup OnTheWay \cup chat.forgotten \cup AllFiled
Coming == {wire[i].approval : i \in {j \in DOMAIN wire : wire[j].kind = "asked"}}
Handled == IF router.pc = "asked" THEN router.next ELSE {}

\* an approval is announced once
AnnouncedOnce ==
  /\ \A a \in Seen \cup Coming \cup Handled : a.ask <= app.asked[a.req]
  /\ (Coming \cup Handled) \cap Seen = {}
  /\ Coming \cap Handled = {}
  /\ \A i, j \in DOMAIN wire :
       wire[i] = wire[j] /\ wire[i].kind = "asked" => i = j

IInv == /\ Types /\ Shape /\ KeysMatchQueues /\ AnnouncedOnce
        /\ OnlyCurrentIsPrompted /\ CurrentIsPrompted

-----------------------------------------------------------------------------
(* Sequences.                                                               *)

LEMMA WithoutFacts ==
  ASSUME NEW q \in Seq(Approvals), NEW i \in 1..Len(q)
  PROVE  /\ Without(q, i) \in Seq(Approvals)
         /\ Len(Without(q, i)) = Len(q) - 1
         /\ DOMAIN Without(q, i) = 1..(Len(q) - 1)
         /\ \A j \in 1..(Len(q) - 1) :
              Without(q, i)[j] = IF j < i THEN q[j] ELSE q[j + 1]
<1>1. Len(q) - 1 \in Nat
  OBVIOUS
<1>2. \A j \in 1..(Len(q) - 1) : q[j] \in Approvals /\ q[j + 1] \in Approvals
  OBVIOUS
<1>3. \A j \in 1..(Len(q) - 1) : (IF j < i THEN q[j] ELSE q[j + 1]) \in Approvals
  BY <1>2
<1> QED
  BY <1>1, <1>3 DEF Without

-----------------------------------------------------------------------------
(* Filing and settling, as operations on the queues and keys.               *)

\* Current and Filed of any queues
HeadOf(p, c) == {p.queue[c][i] : i \in DOMAIN p.queue[c] \cap {1}}
ElementsOf(p, c) == {p.queue[c][i] : i \in DOMAIN p.queue[c]}

LEMMA KeyIsId == \A a \in Approvals : Key(a) \in Ids
BY DEF Key, Ids, Approvals

\* push_approval keeps queues and keys together ...
LEMMA PushMatches ==
  ASSUME NEW p \in Queues, KeysMatch(p), NEW c \in Convs, NEW a \in Approvals,
         NEW p2, p2 = Push(p, c, a)
  PROVE  p2 \in Queues /\ KeysMatch(p2)
<1>1. CASE Key(a) \in p.keys
  BY <1>1 DEF Push
<1>2. CASE Key(a) \notin p.keys
  <2> DEFINE q == p.queue[c]
             n == Len(q) + 1
  <2>1. /\ p.queue \in [Convs -> Seq(Approvals)] /\ p.keys \in SUBSET Ids
        /\ q \in Seq(Approvals) /\ Len(q) \in Nat /\ Key(a) \in Ids
    BY KeyIsId DEF Queues
  <2>2. p2 = [queue |-> [p.queue EXCEPT ![c] = Append(q, a)], keys |-> p.keys \cup {Key(a)}]
    BY <1>2 DEF Push
  <2>3. p2 \in Queues
    BY <2>1, <2>2 DEF Queues
  <2>4. /\ p2.keys = p.keys \cup {Key(a)}
        /\ \A d \in Convs : d # c => p2.queue[d] = p.queue[d]
        /\ p2.queue[c] = Append(q, a)
    BY <2>1, <2>2
  <2>5. /\ DOMAIN q = 1..(n - 1) /\ DOMAIN p2.queue[c] = 1..n /\ n \in DOMAIN p2.queue[c]
        /\ p2.queue[c][n] = a
        /\ \A i \in 1..(n - 1) : p2.queue[c][i] = q[i]
    BY <2>1, <2>4
  <2> HIDE DEF n
  <2>6. \A d \in Convs : \A i \in DOMAIN p2.queue[d] :
          \/ i \in DOMAIN p.queue[d] /\ p2.queue[d][i] = p.queue[d][i]
          \/ d = c /\ i = n /\ p2.queue[d][i] = a
    <3>1. ASSUME NEW i \in DOMAIN p2.queue[c]
          PROVE  i \in 1..(n - 1) \/ i = n
      BY <2>1, <2>5 DEF n
    <3>2. ASSUME NEW i \in DOMAIN p2.queue[c]
          PROVE  \/ i \in DOMAIN p.queue[c] /\ p2.queue[c][i] = p.queue[c][i]
                 \/ i = n /\ p2.queue[c][i] = a
      BY <2>5, <3>1
    <3> QED
      BY <2>4, <3>2
  <2>7. \A d \in Convs : \A i \in DOMAIN p.queue[d] :
          i \in DOMAIN p2.queue[d] /\ p2.queue[d][i] = p.queue[d][i]
    BY <2>4, <2>5, <2>1 DEF n
  <2>8. \A d \in Convs : \A i \in DOMAIN p.queue[d] : Key(p.queue[d][i]) # Key(a)
    BY <1>2 DEF KeysMatch
  <2>9. \A d \in Convs : \A i \in DOMAIN p2.queue[d] : Key(p2.queue[d][i]) \in p2.keys
    BY <2>4, <2>6 DEF KeysMatch
  <2>10. ASSUME NEW id \in p2.keys
         PROVE  \E d \in Convs : \E i \in DOMAIN p2.queue[d] : Key(p2.queue[d][i]) = id
    <3>1. CASE id \in p.keys
      BY <3>1, <2>7 DEF KeysMatch
    <3>2. CASE id = Key(a)
      BY <3>2, <2>5
    <3> QED
      BY <3>1, <3>2, <2>4
  <2>11. ASSUME NEW d \in Convs, NEW e \in Convs, NEW i \in DOMAIN p2.queue[d],
                NEW j \in DOMAIN p2.queue[e], Key(p2.queue[d][i]) = Key(p2.queue[e][j])
         PROVE  d = e /\ i = j
    BY <2>6, <2>8, <2>11 DEF KeysMatch
  <2> QED
    BY <2>3, <2>9, <2>10, <2>11 DEF KeysMatch
<1> QED
  BY <1>1, <1>2

\* what resolve_approval_request_with_context does to one queue
LEMMA ResolveQueue ==
  ASSUME NEW p \in Queues, NEW id, NEW c \in Convs
  PROVE  LET q == p.queue[c]
             w == Resolve(p, id).queue[c]
         IN  /\ q \in Seq(Approvals)
             /\ Places(q, id) = {} => w = q
             /\ Places(q, id) # {} =>
                  \E i \in 1..Len(q) : Key(q[i]) = id /\ w = Without(q, i)
<1> DEFINE q == p.queue[c]
<1>1. q \in Seq(Approvals) /\ DOMAIN q = 1..Len(q)
  BY DEF Queues
<1>2. Resolve(p, id).queue[c] =
        IF Places(q, id) = {} THEN q ELSE Without(q, CHOOSE i \in Places(q, id) : TRUE)
  BY DEF Resolve
<1>3. \A i \in Places(q, id) : i \in 1..Len(q) /\ Key(q[i]) = id
  BY <1>1 DEF Places
<1> QED
  BY <1>1, <1>2, <1>3

\* the places of a queue that are left are places of the queue before
LEMMA ResolvePlaces ==
  ASSUME NEW p \in Queues, KeysMatch(p), NEW id, NEW c \in Convs
  PROVE  LET q == p.queue[c]
             w == Resolve(p, id).queue[c]
         IN  /\ w \in Seq(Approvals)
             /\ \E f \in [DOMAIN w -> DOMAIN q] :
                  /\ \A j \in DOMAIN w : w[j] = q[f[j]] /\ Key(w[j]) # id
                  /\ \A i, j \in DOMAIN w : f[i] = f[j] => i = j
                  /\ \A i \in DOMAIN q : Key(q[i]) # id => \E j \in DOMAIN w : f[j] = i
                  /\ (1 \in DOMAIN q /\ Key(q[1]) # id) => (1 \in DOMAIN w /\ f[1] = 1)
                  /\ (1 \in DOMAIN w /\ Key(q[1]) = id) => f[1] = 2
<1> DEFINE q == p.queue[c]
           w == Resolve(p, id).queue[c]
<1>0. /\ q \in Seq(Approvals)
      /\ Places(q, id) = {} => w = q
      /\ Places(q, id) # {} =>
           \E i \in 1..Len(q) : Key(q[i]) = id /\ w = Without(q, i)
  BY ResolveQueue
<1>1. /\ q \in Seq(Approvals) /\ DOMAIN q = 1..Len(q) /\ Len(q) \in Nat
      /\ \A i, j \in DOMAIN q : Key(q[i]) = Key(q[j]) => i = j
  BY <1>0 DEF KeysMatch
<1> HIDE DEF q, w
<1>2. CASE Places(q, id) = {}
  <2> DEFINE f == [j \in DOMAIN q |-> j]
  <2>1. w = q /\ \A j \in DOMAIN q : Key(q[j]) # id
    BY <1>0, <1>2 DEF Places
  <2>2. /\ f \in [DOMAIN w -> DOMAIN q]
        /\ \A j \in DOMAIN w : f[j] = j
    BY <2>1
  <2> HIDE DEF f
  <2>3. \A j \in DOMAIN w : w[j] = q[f[j]] /\ Key(w[j]) # id
    BY <2>1, <2>2
  <2>4. \A i, j \in DOMAIN w : f[i] = f[j] => i = j
    BY <2>2
  <2>5. \A i \in DOMAIN q : Key(q[i]) # id => \E j \in DOMAIN w : f[j] = i
    BY <2>1, <2>2
  <2>6. (1 \in DOMAIN q /\ Key(q[1]) # id) => (1 \in DOMAIN w /\ f[1] = 1)
    BY <2>1, <2>2
  <2>7. (1 \in DOMAIN w /\ Key(q[1]) = id) => f[1] = 2
    BY <2>1
  <2>8. w \in Seq(Approvals)
    BY <1>1, <2>1
  <2> QED
    BY <2>2, <2>3, <2>4, <2>5, <2>6, <2>7, <2>8 DEF q, w
<1>3. CASE Places(q, id) # {}
  <2> DEFINE f(i) == [j \in 1..(Len(q) - 1) |-> IF j < i THEN j ELSE j + 1]
  <2>1. PICK i \in 1..Len(q) : Key(q[i]) = id /\ w = Without(q, i)
    BY <1>0, <1>3
  <2>2. /\ w \in Seq(Approvals) /\ DOMAIN w = 1..(Len(q) - 1)
        /\ \A j \in 1..(Len(q) - 1) : w[j] = IF j < i THEN q[j] ELSE q[j + 1]
    <3>1. /\ Without(q, i) \in Seq(Approvals) /\ DOMAIN Without(q, i) = 1..(Len(q) - 1)
          /\ \A j \in 1..(Len(q) - 1) : Without(q, i)[j] = IF j < i THEN q[j] ELSE q[j + 1]
      BY <1>1, WithoutFacts
    <3> QED
      BY <2>1, <3>1
  <2>3. /\ f(i) \in [DOMAIN w -> DOMAIN q]
        /\ \A j \in DOMAIN w : f(i)[j] = IF j < i THEN j ELSE j + 1
    BY <1>1, <2>2
  <2> DEFINE g == f(i)
  <2> HIDE DEF f, g
  <2>4. g \in [DOMAIN w -> DOMAIN q] /\ \A j \in DOMAIN w : g[j] = IF j < i THEN j ELSE j + 1
    BY <2>3 DEF g
  <2>5. \A j \in DOMAIN w : w[j] = q[g[j]] /\ g[j] # i /\ Key(w[j]) # id
    <3>1. \A j \in DOMAIN w : w[j] = q[g[j]] /\ g[j] # i /\ g[j] \in DOMAIN q
      BY <1>1, <2>2, <2>4
    <3> QED
      BY <1>1, <2>1, <3>1
  <2>6. \A j, k \in DOMAIN w : g[j] = g[k] => j = k
    BY <1>1, <2>2, <2>4
  <2>7. \A k \in DOMAIN q : Key(q[k]) # id => \E j \in DOMAIN w : g[j] = k
    <3> SUFFICES ASSUME NEW k \in DOMAIN q, k # i PROVE \E j \in DOMAIN w : g[j] = k
      BY <2>1
    <3>1. CASE k < i
      <4>1. k \in DOMAIN w /\ g[k] = k
        BY <1>1, <2>2, <2>4, <3>1
      <4> QED
        BY <4>1
    <3>2. CASE k > i
      <4>1. k - 1 \in DOMAIN w /\ g[k - 1] = k
        BY <1>1, <2>2, <2>4, <3>2
      <4> QED
        BY <4>1
    <3> QED
      BY <1>1, <2>1, <3>1, <3>2
  <2>8. (1 \in DOMAIN q /\ Key(q[1]) # id) => (1 \in DOMAIN w /\ g[1] = 1)
    <3> SUFFICES ASSUME 1 \in DOMAIN q, Key(q[1]) # id PROVE 1 \in DOMAIN w /\ g[1] = 1
      OBVIOUS
    <3>1. i # 1
      BY <2>1
    <3> QED
      BY <1>1, <2>1, <2>2, <2>4, <3>1
  <2>9. (1 \in DOMAIN w /\ Key(q[1]) = id) => g[1] = 2
    <3> SUFFICES ASSUME 1 \in DOMAIN w, Key(q[1]) = id PROVE g[1] = 2
      OBVIOUS
    <3>1. i = 1
      BY <1>1, <2>1, <2>2
    <3> QED
      BY <2>4, <3>1
  <2> QED
    BY <2>2, <2>4, <2>5, <2>6, <2>7, <2>8, <2>9 DEF q, w
<1> QED
  BY <1>2, <1>3

\* what settling an id does to the queues as sets
LEMMA ResolveFacts ==
  ASSUME NEW p \in Queues, KeysMatch(p), NEW id, NEW r, r = Resolve(p, id)
  PROVE  /\ r \in Queues /\ KeysMatch(r)
         /\ \A c \in Convs : ElementsOf(r, c) \subseteq ElementsOf(p, c)
         /\ \A c \in Convs : \A a \in HeadOf(p, c) : a \in ElementsOf(r, c) => a \in HeadOf(r, c)
         /\ \A c \in Convs : HeadOf(r, c) \subseteq HeadOf(p, c) \cup NextCurrent(p, id)
         /\ \A c \in Convs : \A a \in NextCurrent(p, id) :
              a \in ElementsOf(r, c) => a \in HeadOf(r, c)
<1> DEFINE q(c) == p.queue[c]
           w(c) == r.queue[c]
           Moved(c, f) ==
             /\ f \in [DOMAIN w(c) -> DOMAIN q(c)]
             /\ \A j \in DOMAIN w(c) : w(c)[j] = q(c)[f[j]] /\ Key(w(c)[j]) # id
             /\ \A i, j \in DOMAIN w(c) : f[i] = f[j] => i = j
             /\ \A i \in DOMAIN q(c) : Key(q(c)[i]) # id => \E j \in DOMAIN w(c) : f[j] = i
             /\ (1 \in DOMAIN q(c) /\ Key(q(c)[1]) # id) => (1 \in DOMAIN w(c) /\ f[1] = 1)
             /\ (1 \in DOMAIN w(c) /\ Key(q(c)[1]) = id) => f[1] = 2
           F(c) == CHOOSE f : Moved(c, f)
<1>1. \A c \in Convs : w(c) \in Seq(Approvals) /\ Moved(c, F(c))
  <2>1. \A c \in Convs : w(c) \in Seq(Approvals) /\ \E f : Moved(c, f)
    BY ResolvePlaces
  <2> HIDE DEF Moved, w
  <2> QED
    BY <2>1
<1>2. r.keys = p.keys \ {id} /\ p.keys \subseteq Ids
  BY DEF Resolve, Queues
<1>3. r \in Queues
  <2>1. r = [queue |-> r.queue, keys |-> r.keys] /\ DOMAIN r.queue = Convs
        /\ r.queue = [c \in Convs |-> r.queue[c]]
    BY DEF Resolve
  <2>2. r.queue \in [Convs -> Seq(Approvals)]
    BY <1>1, <2>1
  <2> QED
    BY <1>2, <2>1, <2>2 DEF Queues
<1>4. /\ \A c \in Convs : \A i \in DOMAIN q(c) : Key(q(c)[i]) \in p.keys
      /\ \A k \in p.keys : \E c \in Convs : \E i \in DOMAIN q(c) : Key(q(c)[i]) = k
      /\ \A c, d \in Convs : \A i \in DOMAIN q(c) : \A j \in DOMAIN q(d) :
           Key(q(c)[i]) = Key(q(d)[j]) => c = d /\ i = j
  BY DEF KeysMatch
<1>5. /\ \A c \in Convs : ElementsOf(r, c) = {w(c)[i] : i \in DOMAIN w(c)}
      /\ \A c \in Convs : ElementsOf(p, c) = {q(c)[i] : i \in DOMAIN q(c)}
      /\ \A c \in Convs : HeadOf(r, c) = {w(c)[i] : i \in DOMAIN w(c) \cap {1}}
      /\ \A c \in Convs : HeadOf(p, c) = {q(c)[i] : i \in DOMAIN q(c) \cap {1}}
      /\ \A a \in NextCurrent(p, id) : \E c \in Convs :
           2 \in DOMAIN q(c) /\ Key(q(c)[1]) = id /\ a = q(c)[2] /\ 1 \in DOMAIN q(c)
      /\ \A c \in Convs : 2 \in DOMAIN q(c) /\ Key(q(c)[1]) = id => q(c)[2] \in NextCurrent(p, id)
  <2>1. \A c \in Convs : q(c) \in Seq(Approvals)
    BY DEF Queues
  <2> SUFFICES \A c \in Convs :
        /\ Len(q(c)) > 1 <=> 2 \in DOMAIN q(c)
        /\ 2 \in DOMAIN q(c) => 1 \in DOMAIN q(c)
    BY DEF ElementsOf, HeadOf, NextCurrent
  <2>2. ASSUME NEW c \in Convs
        PROVE  /\ Len(q(c)) > 1 <=> 2 \in DOMAIN q(c)
               /\ 2 \in DOMAIN q(c) => 1 \in DOMAIN q(c)
    <3>1. DOMAIN q(c) = 1..Len(q(c)) /\ Len(q(c)) \in Nat
      BY <2>1
    <3> QED
      BY <3>1
  <2> QED
    BY <2>2
<1> HIDE DEF q, w, F
<1>6. KeysMatch(r)
  <2>1. \A c \in Convs : \A i \in DOMAIN w(c) : Key(w(c)[i]) \in r.keys
    BY <1>1, <1>2, <1>4
  <2>2. ASSUME NEW k \in r.keys PROVE \E c \in Convs : \E i \in DOMAIN w(c) : Key(w(c)[i]) = k
    <3>1. PICK c \in Convs : \E i \in DOMAIN q(c) : Key(q(c)[i]) = k
      BY <1>2, <1>4
    <3>2. PICK i \in DOMAIN q(c) : Key(q(c)[i]) = k /\ k # id
      BY <1>2, <3>1
    <3>3. PICK j \in DOMAIN w(c) : F(c)[j] = i
      BY <1>1, <3>2
    <3>4. Key(w(c)[j]) = k
      BY <1>1, <3>2, <3>3
    <3> QED
      BY <3>4
  <2>3. ASSUME NEW c \in Convs, NEW d \in Convs, NEW i \in DOMAIN w(c), NEW j \in DOMAIN w(d),
               Key(w(c)[i]) = Key(w(d)[j])
        PROVE  c = d /\ i = j
    <3>1. /\ F(c)[i] \in DOMAIN q(c) /\ F(d)[j] \in DOMAIN q(d)
          /\ Key(q(c)[F(c)[i]]) = Key(q(d)[F(d)[j]])
      BY <1>1, <2>3
    <3>2. c = d /\ F(c)[i] = F(d)[j]
      BY <1>4, <3>1
    <3> QED
      BY <1>1, <3>2
  <2> QED
    BY <2>1, <2>2, <2>3 DEF KeysMatch, w
<1>7. ASSUME NEW c \in Convs, NEW a \in ElementsOf(r, c) PROVE a \in ElementsOf(p, c)
  <2>1. PICK j \in DOMAIN w(c) : a = w(c)[j]
    BY <1>5, <1>7
  <2>2. F(c)[j] \in DOMAIN q(c) /\ a = q(c)[F(c)[j]]
    BY <1>1, <2>1
  <2> QED
    BY <1>5, <2>2
<1>8. ASSUME NEW c \in Convs, NEW a \in HeadOf(p, c), a \in ElementsOf(r, c)
      PROVE  a \in HeadOf(r, c)
  <2>1. 1 \in DOMAIN q(c) /\ a = q(c)[1]
    BY <1>5, <1>8
  <2>2. Key(a) # id
    BY <1>1, <1>5, <1>8
  <2>3. 1 \in DOMAIN w(c) /\ F(c)[1] = 1
    BY <1>1, <2>1, <2>2
  <2>4. w(c)[1] = a
    BY <1>1, <2>1, <2>3
  <2> QED
    BY <1>5, <2>3, <2>4
<1>9. ASSUME NEW c \in Convs, NEW a \in HeadOf(r, c)
      PROVE  a \in HeadOf(p, c) \cup NextCurrent(p, id)
  <2>1. 1 \in DOMAIN w(c) /\ a = w(c)[1]
    BY <1>5, <1>9
  <2>2. F(c)[1] \in DOMAIN q(c) /\ a = q(c)[F(c)[1]]
    BY <1>1, <2>1
  <2>3. 1 \in DOMAIN q(c)
    <3>1. p.queue[c] \in Seq(Approvals)
      BY DEF Queues
    <3> QED
      BY <2>2, <3>1 DEF q
  <2>4. CASE Key(q(c)[1]) # id
    BY <1>1, <1>5, <2>2, <2>3, <2>4
  <2>5. CASE Key(q(c)[1]) = id
    <3>1. F(c)[1] = 2
      BY <1>1, <2>1, <2>5
    <3> QED
      BY <1>5, <2>2, <2>5, <3>1
  <2> QED
    BY <2>4, <2>5
<1>10. ASSUME NEW c \in Convs, NEW a \in NextCurrent(p, id), a \in ElementsOf(r, c)
       PROVE  a \in HeadOf(r, c)
  <2>1. PICK d \in Convs : 2 \in DOMAIN q(d) /\ Key(q(d)[1]) = id /\ a = q(d)[2] /\ 1 \in DOMAIN q(d)
    BY <1>5, <1>10
  <2>2. PICK j \in DOMAIN w(c) : a = w(c)[j]
    BY <1>5, <1>10
  <2>3. F(c)[j] \in DOMAIN q(c) /\ a = q(c)[F(c)[j]]
    BY <1>1, <2>2
  <2>4. c = d /\ F(c)[j] = 2
    <3>1. Key(q(c)[F(c)[j]]) = Key(q(d)[2])
      BY <2>1, <2>3
    <3>2. \A i \in DOMAIN q(c) : \A k \in DOMAIN q(d) :
            Key(q(c)[i]) = Key(q(d)[k]) => c = d /\ i = k
      BY <1>4
    <3>3. F(c)[j] \in DOMAIN q(c) /\ 2 \in DOMAIN q(d)
      BY <2>1, <2>3
    <3> HIDE DEF Moved
    <3> QED
      BY <3>1, <3>2, <3>3
  <2>5. 1 \in DOMAIN w(c)
    <3>1. w(c) \in Seq(Approvals)
      BY <1>1
    <3> QED
      BY <2>2, <3>1
  <2>6. F(c)[1] = 2
    BY <1>1, <2>1, <2>4, <2>5
  <2>7. j = 1
    BY <1>1, <2>2, <2>4, <2>5, <2>6
  <2> QED
    BY <1>5, <2>2, <2>5, <2>7
<1> QED
  BY <1>3, <1>6, <1>7, <1>8, <1>9, <1>10

\* at most one approval becomes current, and it was filed
LEMMA NextCurrentFacts ==
  ASSUME NEW p \in Queues, KeysMatch(p), NEW id
  PROVE  /\ AtMostOne(NextCurrent(p, id))
         /\ NextCurrent(p, id) \subseteq UNION {ElementsOf(p, c) : c \in Convs}
         /\ NextCurrent(p, id) \subseteq Approvals
<1>1. \A c \in Convs : p.queue[c] \in Seq(Approvals)
  BY DEF Queues
<1>2. \A a \in NextCurrent(p, id) : \E c \in Convs :
        /\ 1 \in DOMAIN p.queue[c] /\ 2 \in DOMAIN p.queue[c]
        /\ Key(p.queue[c][1]) = id /\ a = p.queue[c][2]
  <2>1. \A c \in Convs : Len(p.queue[c]) > 1 => 1 \in DOMAIN p.queue[c] /\ 2 \in DOMAIN p.queue[c]
    BY <1>1
  <2> QED
    BY <2>1 DEF NextCurrent
<1>3. AtMostOne(NextCurrent(p, id))
  <2> SUFFICES ASSUME NEW a \in NextCurrent(p, id), NEW b \in NextCurrent(p, id) PROVE a = b
    BY DEF AtMostOne
  <2>1. PICK c \in Convs : 1 \in DOMAIN p.queue[c] /\ Key(p.queue[c][1]) = id /\ a = p.queue[c][2]
    BY <1>2
  <2>2. PICK d \in Convs : 1 \in DOMAIN p.queue[d] /\ Key(p.queue[d][1]) = id /\ b = p.queue[d][2]
    BY <1>2
  <2>3. c = d
    BY <2>1, <2>2 DEF KeysMatch
  <2> QED
    BY <2>1, <2>2, <2>3
<1>4. \A a \in NextCurrent(p, id) : \E c \in Convs : a \in ElementsOf(p, c)
  BY <1>2 DEF ElementsOf
<1>5. NextCurrent(p, id) \subseteq Approvals
  BY <1>1, <1>2
<1> QED
  BY <1>3, <1>4, <1>5

-----------------------------------------------------------------------------
(* The steps.                                                               *)

LEMMA Views ==
  /\ \A c : Current(c) = HeadOf(pending, c) /\ Filed(c) = ElementsOf(pending, c)
  /\ \A c : Current(c)' = HeadOf(pending', c) /\ Filed(c)' = ElementsOf(pending', c)
BY DEF Current, Filed, HeadOf, ElementsOf

\* the invariant, in terms of the queues as sets
LEMMA SameNotices ==
  ASSUME AnnouncedOnce, UNCHANGED <<wire, app>>, Handled' \subseteq Handled, Seen' \subseteq Seen
  PROVE  AnnouncedOnce'
<1>1. Coming' = Coming
  BY DEF Coming
<1> QED
  BY <1>1 DEF AnnouncedOnce

\* steps that leave the queues alone
LEMMA SameQueues ==
  ASSUME IInv, pending' = pending, Types', Shape', AnnouncedOnce',
         (Prompted \cup OnTheWay)' \subseteq Prompted \cup OnTheWay,
         Prompted \cup OnTheWay \cup chat.forgotten
           \subseteq (Prompted \cup OnTheWay \cup chat.forgotten)'
  PROVE  IInv'
<1>1. \A c : Current(c)' = Current(c) /\ Filed(c)' = Filed(c)
  BY DEF Current, Filed
<1>2. KeysMatchQueues'
  BY DEF IInv, KeysMatchQueues, KeysMatch
<1>3. OnlyCurrentIsPrompted'
  BY <1>1 DEF IInv, OnlyCurrentIsPrompted
<1>4. CurrentIsPrompted'
  BY <1>1 DEF IInv, CurrentIsPrompted
<1> QED
  BY <1>2, <1>3, <1>4 DEF IInv

LEMMA TaskNexts ==
  ASSUME Types, NEW m \in Replies, NEW R \in Tasks, task' = [task EXCEPT ![m] = R],
         UNCHANGED router
  PROVE  /\ task' \in [Replies -> Tasks]
         /\ OnTheWay' \cup task[m].next = OnTheWay \cup R.next \cup task[m].next
         /\ R.next \subseteq OnTheWay'
         /\ task[m].next \subseteq OnTheWay
<1>1. /\ task \in [Replies -> Tasks] /\ task' \in [Replies -> Tasks] /\ task'[m] = R
      /\ \A n \in Replies \ {m} : task'[n] = task[n]
  BY DEF Types
<1>2. \A a : a \in OnTheWay <=> (router.pc = "send" /\ a \in router.next)
                                \/ \E n \in Replies : a \in task[n].next
  BY DEF OnTheWay
<1>3. \A a : a \in OnTheWay' <=> (router.pc = "send" /\ a \in router.next)
                                 \/ \E n \in Replies : a \in task'[n].next
  BY DEF OnTheWay
<1> QED
  BY <1>1, <1>2, <1>3

\* a reply that is looked up, dropped or answered
LEMMA QuietReply ==
  ASSUME IInv, NEW m \in Replies, NEW R \in Tasks, task[m].next = {}, R.next = {},
         task' = [task EXCEPT ![m] = R],
         UNCHANGED <<pending, outbox, chat, router, wire, app>>
  PROVE  IInv'
<1>1. Types'
  BY TaskNexts DEF IInv, Types
<1>2. OnTheWay' = OnTheWay
  <2>1. OnTheWay' \cup task[m].next = OnTheWay \cup R.next \cup task[m].next
    BY TaskNexts DEF IInv
  <2> QED
    BY <2>1
<1>3. Shape'
  <2>1. /\ task \in [Replies -> Tasks] /\ task'[m] = R
        /\ \A n \in Replies \ {m} : task'[n] = task[n]
    BY DEF IInv, Types
  <2>2. AtMostOne({})
    BY DEF AtMostOne
  <2> QED
    BY <2>1, <2>2 DEF IInv, Shape
<1>4. Prompted' = Prompted /\ AllFiled' = AllFiled /\ Handled' = Handled
  BY DEF Prompted, AllFiled, Filed, Handled
<1>5. Seen' = Seen
  BY <1>2, <1>4 DEF Seen
<1>6. AnnouncedOnce'
  BY <1>4, <1>5, SameNotices DEF IInv
<1> QED
  BY <1>1, <1>2, <1>3, <1>4, <1>6, SameQueues

LEMMA QuietReplySteps ==
  ASSUME IInv, NEW m \in Replies,
         Reply(m) \/ FindText(m) \/ FindButton(m) \/ FindCard(m) \/ CheckCard(m) \/ Answer(m)
  PROVE  IInv'
<1>1. /\ task \in [Replies -> Tasks] /\ task[m] \in Tasks
      /\ task[m].pc \notin {"confirm", "next"} => task[m].next = {}
  BY DEF IInv, Types, Shape
<1>2. /\ chat.shown \subseteq Approvals
      /\ \A c \in Convs : Current(c) \subseteq Approvals /\ Filed(c) \subseteq Approvals
      /\ \A a \in Approvals : ConvOf[a.req] \in Convs /\ Key(a) \in Ids
  <2>1. \A c \in Convs : pending.queue[c] \in Seq(Approvals)
    BY DEF IInv, Types, Queues
  <2>2. \A a \in Approvals : ConvOf[a.req] \in Convs
    BY RequestsAssumption DEF Approvals
  <2> QED
    BY <2>1, <2>2, KeyIsId DEF IInv, Types, Current, Filed
<1>3. NoReply("done") \in Tasks /\ NoReply("done").next = {}
  BY DEF NoReply, Tasks
<1>4. \A A \in SUBSET Approvals :
        [NoReply("answer") EXCEPT !.chosen = A] \in Tasks
        /\ [NoReply("answer") EXCEPT !.chosen = A].next = {}
  BY DEF NoReply, Tasks
<1>5. ASSUME task' \in {[task EXCEPT ![m] = R] : R \in {T \in Tasks : T.next = {}}},
             task[m].pc \notin {"confirm", "next"},
             UNCHANGED <<pending, outbox, chat, router, wire, app>>
      PROVE  IInv'
  BY <1>1, <1>5, QuietReply
<1>6. Conv(m) \subseteq Convs
  BY <1>1, <1>2 DEF Conv, Tasks
<1>7. CASE Reply(m)
  <2>1. PICK a \in chat.shown, how \in {"card", "text", "button"} :
          task' = [task EXCEPT ![m].pc = how, ![m].id = Key(a), ![m].chosen = {a}]
    BY <1>2, <1>7, PlatformsAssumption DEF Reply, Ways
  <2> DEFINE R == [task[m] EXCEPT !.pc = how, !.id = Key(a), !.chosen = {a}]
  <2>2. task' = [task EXCEPT ![m] = R]
    BY <2>1
  <2>3. R \in Tasks /\ R.next = task[m].next
    BY <1>1, <1>2, <2>1 DEF Tasks
  <2>4. task[m].pc = "idle"
    BY <1>7 DEF Reply, At
  <2> QED
    BY <1>1, <1>5, <1>7, <2>2, <2>3, <2>4 DEF Reply
<1>8. CASE FindText(m)
  <2>1. task[m].pc = "text" /\ UNCHANGED <<pending, outbox, chat, router, wire, app>>
    BY <1>8 DEF FindText, At
  <2>2. PICK c \in Convs : End(m) \/ Chosen(m, Current(c))
    BY <1>6, <1>8 DEF FindText
  <2> QED
    BY <1>2, <1>3, <1>4, <1>5, <2>1, <2>2 DEF End, Chosen
<1>9. CASE FindButton(m)
  <2>1. task[m].pc = "button" /\ UNCHANGED <<pending, outbox, chat, router, wire, app>>
    BY <1>9 DEF FindButton, At
  <2>2. PICK c \in Convs : End(m) \/ Chosen(m, Current(c))
    BY <1>6, <1>9 DEF FindButton
  <2> QED
    BY <1>2, <1>3, <1>4, <1>5, <2>1, <2>2 DEF End, Chosen
<1>10. CASE FindCard(m)
  <2> DEFINE found == {a \in UNION {Filed(c) : c \in Convs} : Key(a) = task[m].id}
             R == [task[m] EXCEPT !.pc = "check", !.chosen = found]
  <2>1. task[m].pc = "card" /\ UNCHANGED <<pending, outbox, chat, router, wire, app>>
    BY <1>10 DEF FindCard, At
  <2>2. End(m) \/ task' = [task EXCEPT ![m] = R]
    BY <1>10 DEF FindCard
  <2>3. found \subseteq Approvals
    BY <1>2
  <2>4. R \in Tasks /\ R.next = task[m].next
    BY <1>1, <2>3 DEF Tasks
  <2> HIDE DEF found, R
  <2> QED
    BY <1>1, <1>3, <1>5, <2>1, <2>2, <2>4 DEF End
<1>11. CASE CheckCard(m)
  <2>1. task[m].pc = "check" /\ UNCHANGED <<pending, outbox, chat, router, wire, app>>
    BY <1>11 DEF CheckCard, At
  <2>2. End(m) \/ Chosen(m, task[m].chosen)
    BY <1>11 DEF CheckCard
  <2>3. task[m].chosen \subseteq Approvals
    BY <1>1 DEF Tasks
  <2> QED
    BY <1>3, <1>4, <1>5, <2>1, <2>2, <2>3 DEF End, Chosen
<1>12. CASE Answer(m)
  <2> DEFINE R == [task[m] EXCEPT !.pc = "resolve"]
  <2>1. task[m].pc = "answer" /\ UNCHANGED <<pending, outbox, chat, router, wire, app>>
    BY <1>12 DEF Answer, At
  <2>2. End(m) \/ task' = [task EXCEPT ![m] = R]
    BY <1>12 DEF Answer
  <2>3. R \in Tasks /\ R.next = task[m].next
    BY <1>1 DEF Tasks
  <2> HIDE DEF R
  <2> QED
    BY <1>1, <1>3, <1>5, <2>1, <2>2, <2>3 DEF End
<1> QED
  BY <1>7, <1>8, <1>9, <1>10, <1>11, <1>12

\* whoever settles an approval has the next one on the way
LEMMA SettleStep ==
  ASSUME IInv, NEW id, pending' = Resolve(pending, id), UNCHANGED <<outbox, chat, wire, app>>,
         OnTheWay' = OnTheWay \cup NextCurrent(pending, id), Handled' \subseteq Handled,
         Types', Shape'
  PROVE  IInv'
<1>1. pending \in Queues /\ KeysMatch(pending)
  BY DEF IInv, Types, KeysMatchQueues
<1> DEFINE N == NextCurrent(pending, id)
<1>2. /\ KeysMatch(pending') /\ pending' \in Queues
      /\ \A c \in Convs : Filed(c)' \subseteq Filed(c)
      /\ \A c \in Convs : \A a \in Current(c) : a \in Filed(c)' => a \in Current(c)'
      /\ \A c \in Convs : Current(c)' \subseteq Current(c) \cup N
      /\ \A c \in Convs : \A a \in N : a \in Filed(c)' => a \in Current(c)'
  BY <1>1, ResolveFacts, Views
<1>3. N \subseteq AllFiled
  BY <1>1, NextCurrentFacts, Views DEF AllFiled
<1> HIDE DEF N
<1>4. Prompted' = Prompted
  BY DEF Prompted
<1>5. OnTheWay' = OnTheWay \cup N
  BY DEF N
<1>6. AllFiled' \subseteq AllFiled
  BY <1>2 DEF AllFiled
<1>7. Seen' \subseteq Seen
  BY <1>3, <1>4, <1>5, <1>6 DEF Seen
<1>8. AnnouncedOnce'
  BY <1>7, SameNotices DEF IInv
<1>9. OnlyCurrentIsPrompted'
  BY <1>2, <1>4, <1>5 DEF IInv, OnlyCurrentIsPrompted
<1>10. CurrentIsPrompted'
  BY <1>2, <1>4, <1>5 DEF IInv, CurrentIsPrompted
<1>11. KeysMatchQueues'
  BY <1>2 DEF KeysMatchQueues, KeysMatch, Queues
<1> QED
  BY <1>8, <1>9, <1>10, <1>11 DEF IInv

Elements(q) == {q[i] : i \in DOMAIN q}

LEMMA AppendFacts ==
  ASSUME NEW q \in Seq(Approvals), NEW a \in Approvals
  PROVE  /\ Append(q, a) \in Seq(Approvals)
         /\ Elements(Append(q, a)) = Elements(q) \cup {a}
<1> DEFINE w == Append(q, a)
<1>1. /\ DOMAIN q = 1..Len(q) /\ DOMAIN w = 1..(Len(q) + 1) /\ Len(q) \in Nat
      /\ w[Len(q) + 1] = a /\ Len(q) + 1 \in DOMAIN w
      /\ \A i \in 1..Len(q) : i \in DOMAIN w /\ w[i] = q[i]
      /\ \A i \in DOMAIN w : i \in 1..Len(q) \/ i = Len(q) + 1
  OBVIOUS
<1>2. w \in Seq(Approvals)
  OBVIOUS
<1>3. \A b : (\E i \in DOMAIN w : w[i] = b) <=> (\E i \in DOMAIN q : q[i] = b) \/ b = a
  BY <1>1
<1> QED
  BY <1>2, <1>3 DEF Elements

LEMMA EnqueuedFacts ==
  ASSUME Types, NEW A \in SUBSET Approvals, AtMostOne(A), outbox' = Enqueued(A),
         UNCHANGED chat
  PROVE  outbox' \in Seq(Approvals) /\ Prompted' = Prompted \cup A
<1>1. outbox \in Seq(Approvals)
  BY DEF Types
<1>2. CASE A = {}
  BY <1>1, <1>2 DEF Enqueued, Prompted
<1>3. CASE A # {}
  <2>1. PICK a \in A : A = {a} /\ outbox' = Append(outbox, a)
    BY <1>3 DEF AtMostOne, Enqueued
  <2>2. a \in Approvals
    OBVIOUS
  <2>3. /\ outbox' \in Seq(Approvals)
        /\ Elements(outbox') = Elements(outbox) \cup {a}
    BY <1>1, <2>1, <2>2, AppendFacts
  <2> QED
    BY <2>1, <2>3 DEF Prompted, Elements
<1> QED
  BY <1>2, <1>3

LEMMA RouterResolveStep == IInv /\ RouterResolve => IInv'
<1> SUFFICES ASSUME IInv, RouterResolve PROVE IInv'
  OBVIOUS
<1>1. PICK a \in router.next :
        /\ pending' = Resolve(pending, Key(a))
        /\ router' = [pc |-> "send", next |-> NextCurrent(pending, Key(a))]
  BY DEF RouterResolve
<1>2. router.pc = "resolved" /\ UNCHANGED <<outbox, chat, task, wire, app>>
  BY DEF RouterResolve
<1>3. pending \in Queues /\ KeysMatch(pending)
  BY DEF IInv, Types, KeysMatchQueues
<1>4. /\ AtMostOne(NextCurrent(pending, Key(a))) /\ NextCurrent(pending, Key(a)) \subseteq Approvals
      /\ pending' \in Queues
  BY <1>1, <1>3, NextCurrentFacts, ResolveFacts
<1>5. Types' /\ Shape'
  BY <1>1, <1>2, <1>4 DEF IInv, Types, Shape
<1>6. OnTheWay' = OnTheWay \cup NextCurrent(pending, Key(a)) /\ Handled' \subseteq Handled
  BY <1>1, <1>2 DEF OnTheWay, Handled
<1> QED
  BY <1>1, <1>2, <1>5, <1>6, SettleStep

LEMMA TakeOutStep == \A m \in Replies : IInv /\ TakeOut(m) => IInv'
<1> SUFFICES ASSUME NEW m \in Replies, IInv, TakeOut(m) PROVE IInv'
  OBVIOUS
<1>1. PICK a \in task[m].chosen, pc \in {"next", "confirm"} :
        /\ pending' = Resolve(pending, Key(a))
        /\ task' = [task EXCEPT ![m].pc = pc, ![m].next = NextCurrent(pending, Key(a))]
  BY DEF TakeOut
<1> DEFINE N == NextCurrent(pending, Key(a))
           R == [task[m] EXCEPT !.pc = pc, !.next = N]
<1>2. task[m].pc = "resolve" /\ UNCHANGED <<outbox, chat, router, wire, app>>
  BY DEF TakeOut, At
<1>3. pending \in Queues /\ KeysMatch(pending)
  BY DEF IInv, Types, KeysMatchQueues
<1>4. /\ AtMostOne(N) /\ N \subseteq Approvals
      /\ pending' \in Queues
  BY <1>1, <1>3, NextCurrentFacts, ResolveFacts
<1>5. /\ task \in [Replies -> Tasks] /\ task[m] \in Tasks /\ task[m].next = {}
  BY <1>2 DEF IInv, Types, Shape
<1>6. task' = [task EXCEPT ![m] = R]
  BY <1>1
<1> HIDE DEF N
<1>7. R \in Tasks /\ R.next = N /\ R.pc = pc
  BY <1>4, <1>5 DEF Tasks
<1> HIDE DEF R
<1>8. /\ task' \in [Replies -> Tasks]
      /\ OnTheWay' \cup {} = OnTheWay \cup N \cup {}
  BY <1>2, <1>5, <1>6, <1>7, TaskNexts DEF IInv
<1>9. Types'
  BY <1>2, <1>4, <1>8 DEF IInv, Types
<1>10. Shape'
  <2>1. task'[m] = R /\ \A n \in Replies \ {m} : task'[n] = task[n]
    BY <1>5, <1>6
  <2> QED
    BY <1>1, <1>2, <1>4, <1>7, <2>1 DEF IInv, Shape
<1>11. Handled' \subseteq Handled
  BY <1>2 DEF Handled
<1>12. OnTheWay' = OnTheWay \cup N
  BY <1>8
<1> QED
  BY <1>1, <1>2, <1>9, <1>10, <1>11, <1>12, SettleStep DEF N

LEMMA RouterSendStep == IInv /\ RouterSend => IInv'
<1> SUFFICES ASSUME IInv, RouterSend PROVE IInv'
  OBVIOUS
<1>1. /\ router.pc = "send" /\ outbox' = Enqueued(router.next) /\ router' = Idle
      /\ UNCHANGED <<pending, chat, task, wire, app>>
  BY DEF RouterSend
<1>2. router.next \in SUBSET Approvals /\ AtMostOne(router.next) /\ Types
  BY DEF IInv, Types, Shape
<1>3. outbox' \in Seq(Approvals) /\ Prompted' = Prompted \cup router.next
  BY <1>1, <1>2, EnqueuedFacts
<1>4. Types' /\ Shape'
  BY <1>1, <1>3 DEF IInv, Types, Shape, Idle, AtMostOne
<1>5. /\ OnTheWay = router.next \cup UNION {task[m].next : m \in Replies}
      /\ OnTheWay' = UNION {task[m].next : m \in Replies}
  BY <1>1 DEF OnTheWay, Idle
<1>6. Handled' \subseteq Handled /\ AllFiled' = AllFiled /\ chat' = chat
  BY <1>1 DEF Handled, Idle, AllFiled, Filed
<1>7. Seen' \subseteq Seen
  BY <1>3, <1>5, <1>6 DEF Seen
<1>8. AnnouncedOnce'
  BY <1>1, <1>6, <1>7, SameNotices DEF IInv
<1> QED
  BY <1>1, <1>3, <1>4, <1>5, <1>8, SameQueues

LEMMA SendNextStep == \A m \in Replies : IInv /\ SendNext(m) => IInv'
<1> SUFFICES ASSUME NEW m \in Replies, IInv, SendNext(m) PROVE IInv'
  OBVIOUS
<1> DEFINE N == task[m].next
           R == NoReply("done")
<1>1. /\ outbox' = Enqueued(N) /\ task' = [task EXCEPT ![m] = R]
      /\ UNCHANGED <<pending, chat, router, wire, app>>
  BY DEF SendNext, End
<1>2. /\ task \in [Replies -> Tasks] /\ N \in SUBSET Approvals /\ AtMostOne(N) /\ Types
      /\ R \in Tasks /\ R.next = {}
  BY DEF IInv, Types, Shape, Tasks, NoReply
<1>3. outbox' \in Seq(Approvals) /\ Prompted' = Prompted \cup N
  BY <1>1, <1>2, EnqueuedFacts
<1>4. /\ task' \in [Replies -> Tasks]
      /\ OnTheWay' \cup N = OnTheWay \cup R.next \cup N
      /\ N \subseteq OnTheWay
  BY <1>1, <1>2, TaskNexts
<1>5. Types'
  BY <1>1, <1>3, <1>4 DEF IInv, Types
<1>6. Shape'
  <2>1. task'[m] = R /\ \A n \in Replies \ {m} : task'[n] = task[n]
    BY <1>1, <1>2
  <2> QED
    BY <1>1, <1>2, <2>1 DEF IInv, Shape, AtMostOne
<1> HIDE DEF N, R
<1>7. Handled' = Handled /\ AllFiled' = AllFiled
  BY <1>1 DEF Handled, AllFiled, Filed
<1>8. (Prompted \cup OnTheWay)' = Prompted \cup OnTheWay
  BY <1>2, <1>3, <1>4
<1>9. Seen' \subseteq Seen
  BY <1>1, <1>7, <1>8 DEF Seen
<1>10. AnnouncedOnce'
  BY <1>1, <1>7, <1>9, SameNotices DEF IInv
<1> QED
  BY <1>1, <1>5, <1>6, <1>8, <1>10, SameQueues

LEMMA ConfirmStep == \A m \in Replies : IInv /\ Confirm(m) => IInv'
<1> SUFFICES ASSUME NEW m \in Replies, IInv, Confirm(m) PROVE IInv'
  OBVIOUS
<1> DEFINE N == task[m].next
<1>1. task[m].pc = "confirm" /\ UNCHANGED <<pending, outbox, router, wire, app>>
  BY DEF Confirm, At
<1>2. /\ task \in [Replies -> Tasks] /\ task[m] \in Tasks
      /\ N \in SUBSET Approvals /\ AtMostOne(N) /\ Types
  BY DEF IInv, Types, Shape, Tasks
<1>3. PICK R \in Tasks :
        /\ task' = [task EXCEPT ![m] = R]
        /\ \/ R = [task[m] EXCEPT !.pc = "next"] /\ chat' = chat
           \/ R = NoReply("done") /\ chat' = [chat EXCEPT !.forgotten = @ \cup N]
  <2>1. [task[m] EXCEPT !.pc = "next"] \in Tasks /\ NoReply("done") \in Tasks
    BY <1>2 DEF Tasks, NoReply
  <2> QED
    BY <2>1 DEF Confirm, End
<1>4. /\ R.pc \in {"next", "done"} /\ AtMostOne(R.next)
      /\ \/ R.next = N /\ chat' = chat
         \/ R.next = {} /\ chat' = [chat EXCEPT !.forgotten = @ \cup N]
  BY <1>2, <1>3 DEF NoReply, Tasks, AtMostOne
<1>5. R.pc = "done" => R.next = {}
  BY <1>1, <1>2, <1>3 DEF NoReply, Tasks
<1>6. /\ task' \in [Replies -> Tasks]
      /\ OnTheWay' \cup N = OnTheWay \cup R.next \cup N
      /\ N \subseteq OnTheWay /\ R.next \subseteq OnTheWay'
  BY <1>1, <1>2, <1>3, TaskNexts
<1>7. /\ chat' \in [shown : SUBSET Approvals, failed : SUBSET Approvals, forgotten : SUBSET Approvals]
      /\ chat'.shown = chat.shown /\ chat'.failed = chat.failed
      /\ chat.forgotten \subseteq chat'.forgotten /\ chat'.forgotten \subseteq chat.forgotten \cup N
      /\ N \subseteq R.next \cup chat'.forgotten /\ R.next \subseteq N
  BY <1>2, <1>4 DEF Types
<1>8. Types'
  BY <1>1, <1>6, <1>7 DEF IInv, Types
<1>9. Shape'
  <2>1. task'[m] = R /\ \A n \in Replies \ {m} : task'[n] = task[n]
    BY <1>2, <1>3
  <2> QED
    BY <1>1, <1>4, <1>5, <2>1 DEF IInv, Shape
<1> HIDE DEF N
<1>10. Prompted' = Prompted /\ Handled' = Handled /\ AllFiled' = AllFiled
  BY <1>1, <1>7 DEF Prompted, Handled, AllFiled, Filed
<1>11. Seen' \subseteq Seen
  BY <1>6, <1>7, <1>10 DEF Seen
<1>12. AnnouncedOnce'
  BY <1>1, <1>10, <1>11, SameNotices DEF IInv
<1>13. /\ (Prompted \cup OnTheWay)' \subseteq Prompted \cup OnTheWay
       /\ Prompted \cup OnTheWay \cup chat.forgotten
            \subseteq (Prompted \cup OnTheWay \cup chat.forgotten)'
  BY <1>6, <1>7, <1>10
<1> QED
  BY <1>1, <1>8, <1>9, <1>12, <1>13, SameQueues

LEMMA TailFacts ==
  ASSUME NEW S, NEW q \in Seq(S), q # << >>
  PROVE  /\ 1 \in DOMAIN q /\ Head(q) = q[1] /\ Head(q) \in S /\ Tail(q) \in Seq(S)
         /\ \A i \in DOMAIN Tail(q) : i + 1 \in DOMAIN q /\ Tail(q)[i] = q[i + 1] /\ i + 1 # 1
         /\ \A i \in DOMAIN q : i = 1 \/ (i - 1 \in DOMAIN Tail(q) /\ Tail(q)[i - 1] = q[i])
         /\ \A i, j \in DOMAIN Tail(q) : i + 1 = j + 1 => i = j
<1> DEFINE t == Tail(q)
           n == Len(q)
<1>1. /\ n \in Nat /\ n > 0 /\ DOMAIN q = 1..n /\ Head(q) = q[1] /\ t \in Seq(S)
  OBVIOUS
<1>2. q[1] \in S
  BY <1>1
<1>3. Len(t) = n - 1 /\ DOMAIN t = 1..(n - 1)
  BY <1>1
<1>4. \A i \in 1..(n - 1) : t[i] = q[i + 1]
  BY <1>1
<1> HIDE DEF t, n
<1>5. \A i \in DOMAIN t : i + 1 \in DOMAIN q /\ t[i] = q[i + 1] /\ i + 1 # 1
  BY <1>1, <1>3, <1>4
<1>6. ASSUME NEW i \in DOMAIN q, i # 1 PROVE i - 1 \in DOMAIN t /\ t[i - 1] = q[i]
  <2>1. i - 1 \in 1..(n - 1) /\ (i - 1) + 1 = i
    BY <1>1, <1>6
  <2> QED
    BY <1>3, <1>4, <2>1
<1>7. \A i, j \in DOMAIN t : i + 1 = j + 1 => i = j
  BY <1>1, <1>3
<1>8. 1 \in DOMAIN q
  BY <1>1
<1>9. \A i \in DOMAIN q : i = 1 \/ (i - 1 \in DOMAIN t /\ t[i - 1] = q[i])
  BY <1>6
<1>10. Head(q) = q[1] /\ Head(q) \in S /\ t \in Seq(S)
  BY <1>1, <1>2
<1> QED
  BY <1>5, <1>7, <1>8, <1>9, <1>10, Zenon DEF t

LEMMA WorkerSendStep == IInv /\ WorkerSend => IInv'
<1> SUFFICES ASSUME IInv, WorkerSend PROVE IInv'
  OBVIOUS
<1>1. /\ outbox # << >> /\ outbox' = Tail(outbox)
      /\ UNCHANGED <<pending, router, task, wire, app>>
      /\ \/ chat' = [chat EXCEPT !.shown = @ \cup {Head(outbox)}]
         \/ chat' = [chat EXCEPT !.failed = @ \cup {Head(outbox)}]
  BY DEF WorkerSend
<1>2. Types /\ outbox \in Seq(Approvals)
  BY DEF IInv, Types
<1>3. /\ outbox' \in Seq(Approvals) /\ Head(outbox) \in Approvals
      /\ Elements(outbox) = Elements(outbox') \cup {Head(outbox)}
  <2> DEFINE q == outbox
             w == Tail(outbox)
  <2>1. /\ 1 \in DOMAIN q /\ Head(q) = q[1] /\ Head(q) \in Approvals /\ w \in Seq(Approvals)
        /\ \A i \in DOMAIN w : i + 1 \in DOMAIN q /\ w[i] = q[i + 1] /\ i + 1 # 1
        /\ \A i \in DOMAIN q : i = 1 \/ (i - 1 \in DOMAIN w /\ w[i - 1] = q[i])
    BY <1>1, <1>2, TailFacts
  <2>2. \A b : (\E i \in DOMAIN q : q[i] = b) <=> (\E i \in DOMAIN w : w[i] = b) \/ b = Head(q)
    <3> HIDE DEF q, w
    <3> QED
      BY <2>1
  <2>3. Elements(q) = Elements(w) \cup {Head(q)}
    <3> HIDE DEF q, w
    <3> QED
      BY <2>2 DEF Elements
  <2> QED
    BY <1>1, <2>1, <2>3
<1>4. /\ chat' \in [shown : SUBSET Approvals, failed : SUBSET Approvals, forgotten : SUBSET Approvals]
      /\ chat'.shown \cup chat'.failed = chat.shown \cup chat.failed \cup {Head(outbox)}
      /\ chat'.forgotten = chat.forgotten
  <2>1. chat \in [shown : SUBSET Approvals, failed : SUBSET Approvals, forgotten : SUBSET Approvals]
    BY <1>2 DEF Types
  <2>2. CASE chat' = [chat EXCEPT !.shown = @ \cup {Head(outbox)}]
    BY <1>3, <2>1, <2>2
  <2>3. CASE chat' = [chat EXCEPT !.failed = @ \cup {Head(outbox)}]
    BY <1>3, <2>1, <2>3
  <2> QED
    BY <1>1, <2>2, <2>3
<1>5. Prompted' = Prompted
  BY <1>3, <1>4 DEF Prompted, Elements
<1>6. Types' /\ Shape'
  BY <1>1, <1>3, <1>4 DEF IInv, Types, Shape
<1>7. OnTheWay' = OnTheWay /\ Handled' = Handled /\ AllFiled' = AllFiled
  BY <1>1 DEF OnTheWay, Handled, AllFiled, Filed
<1>8. Seen' = Seen
  BY <1>4, <1>5, <1>7 DEF Seen
<1>9. AnnouncedOnce'
  BY <1>1, <1>7, <1>8, SameNotices DEF IInv
<1> QED
  BY <1>1, <1>4, <1>5, <1>6, <1>7, <1>9, SameQueues

LEMMA ComingFacts ==
  /\ \A a : a \in Coming <=> \E i \in DOMAIN wire : wire[i].kind = "asked" /\ wire[i].approval = a
  /\ \A a : a \in Coming' <=>
       \E i \in DOMAIN wire' : wire'[i].kind = "asked" /\ wire'[i].approval = a
BY DEF Coming

LEMMA RouterTakeStep == IInv /\ RouterTake => IInv'
<1> SUFFICES ASSUME IInv, RouterTake PROVE IInv'
  OBVIOUS
<1> DEFINE Notices == [kind : {"asked", "resolved"}, approval : Approvals]
           h == Head(wire)
<1>1. /\ router.pc = "idle" /\ wire # << >> /\ wire' = Tail(wire)
      /\ UNCHANGED <<pending, outbox, chat, task, app>>
      /\ \/ router' = [pc |-> h.kind, next |-> {h.approval}]
         \/ UNCHANGED router
  BY DEF RouterTake
<1>2. wire \in Seq(Notices) /\ Types /\ \A i \in DOMAIN wire : wire[i] \in Notices
  <2>1. wire \in Seq(Notices) /\ Types
    BY DEF IInv, Types
  <2> HIDE DEF Notices
  <2> QED
    BY <2>1
<1>3. /\ 1 \in DOMAIN wire /\ h = wire[1] /\ h \in Notices /\ wire' \in Seq(Notices)
      /\ \A i \in DOMAIN wire' : i + 1 \in DOMAIN wire /\ wire'[i] = wire[i + 1] /\ i + 1 # 1
      /\ \A i, j \in DOMAIN wire' : i + 1 = j + 1 => i = j
  BY <1>1, <1>2, TailFacts
<1>4. h.kind \in {"asked", "resolved"} /\ h.approval \in Approvals
  BY <1>3
<1> HIDE DEF h
<1>5. Types' /\ Shape'
  <2>1. router' \in [pc : {"idle", "asked", "resolved", "send"}, next : SUBSET Approvals]
    BY <1>1, <1>2, <1>4 DEF Types
  <2>2. AtMostOne(router'.next)
    BY <1>1 DEF IInv, Shape, AtMostOne
  <2> QED
    BY <1>1, <1>3, <2>1, <2>2 DEF IInv, Types, Shape
<1>6. Prompted' = Prompted /\ AllFiled' = AllFiled /\ OnTheWay' = OnTheWay
  BY <1>1, <1>4 DEF Prompted, AllFiled, Filed, OnTheWay
<1>7. Seen' = Seen
  BY <1>1, <1>6 DEF Seen
<1>8. Coming' \subseteq Coming /\ Handled = {}
  BY <1>1, <1>3, ComingFacts DEF Handled
<1>9. Handled' \subseteq Coming \ Coming'
  <2> SUFFICES ASSUME NEW a \in Handled' PROVE a \in Coming /\ a \notin Coming'
    OBVIOUS
  <2>1. h.kind = "asked" /\ h.approval = a
    BY <1>1, <1>4 DEF Handled
  <2>2. a \in Coming
    BY <1>3, <2>1, ComingFacts
  <2>3. ASSUME NEW i \in DOMAIN wire', wire'[i].kind = "asked", wire'[i].approval = a PROVE FALSE
    <3> DEFINE n == i + 1
    <3>0. n \in DOMAIN wire /\ wire[n] = wire'[i]
      BY <1>3
    <3> HIDE DEF n
    <3>1. wire[n] \in Notices /\ wire[n].kind = "asked" /\ wire[n].approval = a
      BY <1>2, <2>3, <3>0
    <3>2. wire[n] = wire[1]
      <4>1. \A x, y \in Notices : x.kind = y.kind /\ x.approval = y.approval => x = y
        OBVIOUS
      <4> HIDE DEF Notices
      <4> QED
        BY <1>3, <2>1, <3>1, <4>1
    <3>3. n = 1
      BY <1>3, <3>0, <3>1, <3>2 DEF IInv, AnnouncedOnce
    <3> QED
      BY <1>3, <3>3 DEF n
  <2> QED
    BY <2>2, <2>3, ComingFacts
<1>10. ASSUME NEW i \in DOMAIN wire', NEW j \in DOMAIN wire', wire'[i] = wire'[j],
              wire'[i].kind = "asked"
       PROVE  i = j
  <2>1. /\ i + 1 \in DOMAIN wire /\ j + 1 \in DOMAIN wire /\ wire[i + 1] = wire[j + 1]
        /\ wire[i + 1].kind = "asked"
    BY <1>3, <1>10
  <2>2. i + 1 = j + 1
    BY <2>1 DEF IInv, AnnouncedOnce
  <2> QED
    BY <1>3, <2>2
<1>11. AnnouncedOnce'
  BY <1>1, <1>7, <1>8, <1>9, <1>10 DEF IInv, AnnouncedOnce
<1> QED
  BY <1>1, <1>5, <1>6, <1>11, SameQueues

\* what filing an approval does to the queues as sets
LEMMA PushFacts ==
  ASSUME NEW p \in Queues, NEW c \in Convs, NEW a \in Approvals, NEW d \in Convs
  PROVE  LET r == Push(p, c, a)
             first == p.queue[c] = << >> /\ Key(a) \notin p.keys
         IN  /\ ElementsOf(r, d) \subseteq ElementsOf(p, d) \cup {a}
             /\ HeadOf(p, d) \subseteq HeadOf(r, d)
             /\ ~first => HeadOf(r, d) \subseteq HeadOf(p, d)
             /\ first => HeadOf(r, d) \subseteq HeadOf(p, d) \cup {a}
             /\ first /\ a \in ElementsOf(r, d) => a \in ElementsOf(p, d) \cup HeadOf(r, d)
<1> DEFINE r == Push(p, c, a)
           q == p.queue[c]
           w == Append(q, a)
<1>1. CASE Key(a) \in p.keys
  BY <1>1 DEF Push
<1>2. CASE Key(a) \notin p.keys
  <2>1. q \in Seq(Approvals) /\ p.queue \in [Convs -> Seq(Approvals)]
    BY DEF Queues
  <2>2. r.queue[c] = w /\ (d # c => r.queue[d] = p.queue[d])
    BY <1>2, <2>1 DEF Push
  <2>3. CASE d # c
    BY <2>2, <2>3 DEF ElementsOf, HeadOf
  <2>4. CASE d = c
    <3>1. /\ ElementsOf(p, d) = {q[i] : i \in DOMAIN q} /\ ElementsOf(r, d) = {w[i] : i \in DOMAIN w}
          /\ HeadOf(p, d) = {q[i] : i \in DOMAIN q \cap {1}}
          /\ HeadOf(r, d) = {w[i] : i \in DOMAIN w \cap {1}}
      BY <2>2, <2>4 DEF ElementsOf, HeadOf
    <3>2. /\ \A i \in DOMAIN q : i \in DOMAIN w /\ w[i] = q[i]
          /\ \A i \in DOMAIN w : i \in DOMAIN q \/ w[i] = a
          /\ q # << >> => 1 \in DOMAIN q
          /\ q = << >> => DOMAIN w = {1} /\ w[1] = a
      BY <2>1
    <3> HIDE DEF q, w, r
    <3>3. ElementsOf(r, d) \subseteq ElementsOf(p, d) \cup {a}
      BY <3>1, <3>2
    <3>4. HeadOf(p, d) \subseteq HeadOf(r, d)
      BY <3>1, <3>2
    <3>5. q # << >> => HeadOf(r, d) \subseteq HeadOf(p, d)
      BY <3>1, <3>2
    <3>6. q = << >> => HeadOf(r, d) = {a}
      BY <3>1, <3>2
    <3> QED
      BY <1>2, <3>3, <3>4, <3>5, <3>6 DEF q, r
  <2> QED
    BY <2>3, <2>4
<1> QED
  BY <1>1, <1>2

LEMMA RouterPushStep == IInv /\ RouterPush => IInv'
<1> SUFFICES ASSUME IInv, RouterPush PROVE IInv'
  OBVIOUS
<1>1. Types /\ router.pc = "asked" /\ UNCHANGED <<outbox, chat, task, wire, app>>
  BY DEF RouterPush, IInv
<1>2. PICK a \in router.next :
        LET c == ConvOf[a.req]
            first == pending.queue[c] = << >> /\ Key(a) \notin pending.keys
        IN  /\ pending' = Push(pending, c, a)
            /\ router' = IF first THEN [pc |-> "send", next |-> {a}] ELSE Idle
  BY DEF RouterPush
<1> DEFINE c == ConvOf[a.req]
           first == pending.queue[c] = << >> /\ Key(a) \notin pending.keys
<1>3. a \in Approvals /\ c \in Convs /\ pending \in Queues /\ KeysMatch(pending)
  <2>1. a \in Approvals
    BY <1>1 DEF Types
  <2> QED
    BY <1>1, <2>1, RequestsAssumption DEF Approvals, Types, IInv, KeysMatchQueues
<1>4. pending' \in Queues /\ KeysMatch(pending')
  BY <1>2, <1>3, PushMatches
<1>5. \A d \in Convs :
        /\ Filed(d)' \subseteq Filed(d) \cup {a}
        /\ Current(d) \subseteq Current(d)'
        /\ ~first => Current(d)' \subseteq Current(d)
        /\ first => Current(d)' \subseteq Current(d) \cup {a}
        /\ first /\ a \in Filed(d)' => a \in Filed(d) \cup Current(d)'
  BY <1>2, <1>3, PushFacts, Views
<1> HIDE DEF first, c
<1>6. /\ first => router' = [pc |-> "send", next |-> {a}]
      /\ ~first => router' = Idle
  BY <1>2 DEF first, c
<1>7. Types' /\ Shape'
  BY <1>1, <1>3, <1>4, <1>6 DEF IInv, Types, Shape, AtMostOne, Idle
<1>8. /\ Prompted' = Prompted /\ chat' = chat /\ Coming' = Coming
      /\ first => OnTheWay' = OnTheWay \cup {a}
      /\ ~first => OnTheWay' = OnTheWay
  BY <1>1, <1>6 DEF Prompted, OnTheWay, Idle, Coming
<1>9. Handled' = {} /\ Handled = router.next
  BY <1>1, <1>6 DEF Handled, Idle
<1>10. a \notin Seen /\ a \notin Prompted \cup OnTheWay /\ \A d \in Convs : a \notin Filed(d)
  BY <1>9 DEF IInv, AnnouncedOnce, Seen, AllFiled
<1>11. Seen' \subseteq Seen \cup {a}
  <2>1. AllFiled' \subseteq AllFiled \cup {a}
    BY <1>5 DEF AllFiled
  <2> QED
    BY <1>8, <2>1 DEF Seen
<1>12. a \notin Coming
  BY <1>9 DEF IInv, AnnouncedOnce
<1>13. AnnouncedOnce'
  <2>1. AnnouncedOnce
    BY DEF IInv
  <2> QED
    BY <1>1, <1>8, <1>9, <1>11, <1>12, <2>1 DEF AnnouncedOnce
<1>14. OnlyCurrentIsPrompted'
  <2> SUFFICES ASSUME NEW d \in Convs, NEW b \in Filed(d)', b \in (Prompted \cup OnTheWay)'
               PROVE  b \in Current(d)'
    BY DEF OnlyCurrentIsPrompted
  <2>1. CASE b = a
    BY <1>5, <1>8, <1>10, <2>1
  <2>2. CASE b # a
    BY <1>5, <1>8, <2>2 DEF IInv, OnlyCurrentIsPrompted
  <2> QED
    BY <2>1, <2>2
<1>15. CurrentIsPrompted'
  <2> SUFFICES ASSUME NEW d \in Convs, NEW b \in Current(d)'
               PROVE  b \in (Prompted \cup OnTheWay \cup chat.forgotten)'
    BY DEF CurrentIsPrompted
  <2>1. b \in Current(d) \/ (first /\ b = a)
    BY <1>5
  <2> QED
    BY <1>8, <2>1 DEF IInv, CurrentIsPrompted
<1>16. KeysMatchQueues'
  BY <1>4 DEF KeysMatchQueues, KeysMatch, Queues
<1> QED
  BY <1>7, <1>13, <1>14, <1>15, <1>16 DEF IInv

\* steps of the app-servers and the connection touch neither queue nor prompt
LEMMA OutsideStep ==
  ASSUME IInv, UNCHANGED <<pending, outbox, chat, router, task>>,
         wire' \in Seq([kind : {"asked", "resolved"}, approval : Approvals]),
         app' \in [asked : [Requests -> 0..MaxAsks], open : SUBSET Requests],
         \A r \in app'.open : app'.asked[r] > 0,
         AnnouncedOnce'
  PROVE  IInv'
<1>1. Types' /\ Shape'
  BY DEF IInv, Types, Shape
<1>2. Prompted' = Prompted /\ OnTheWay' = OnTheWay
  BY DEF Prompted, OnTheWay
<1> QED
  BY <1>1, <1>2, SameQueues

LEMMA SameOutside ==
  ASSUME UNCHANGED <<pending, outbox, chat, router, task>>
  PROVE  Seen' = Seen /\ Handled' = Handled
BY DEF Seen, Prompted, OnTheWay, AllFiled, Filed, Handled

LEMMA AskNumbers == \A a \in Approvals : a.req \in Requests /\ a.ask \in Nat
BY BoundsAssumption DEF Approvals

LEMMA KnownApprovals == Types => Seen \cup Coming \cup Handled \subseteq Approvals
<1> SUFFICES ASSUME Types PROVE Seen \cup Coming \cup Handled \subseteq Approvals
  OBVIOUS
<1>1. Prompted \subseteq Approvals
  BY DEF Types, Prompted
<1>2. OnTheWay \subseteq Approvals
  BY DEF Types, OnTheWay, Tasks
<1>3. AllFiled \subseteq Approvals
  <2>1. \A c \in Convs : pending.queue[c] \in Seq(Approvals)
    BY DEF Types, Queues
  <2> QED
    BY <2>1 DEF AllFiled, Filed
<1>4. Coming \subseteq Approvals
  <2> DEFINE Notices == [kind : {"asked", "resolved"}, approval : Approvals]
  <2>1. wire \in Seq(Notices) /\ \A n \in Notices : n.approval \in Approvals
    BY DEF Types
  <2> HIDE DEF Notices
  <2>2. \A i \in DOMAIN wire : wire[i] \in Notices
    BY <2>1
  <2> QED
    BY <2>1, <2>2, ComingFacts
<1>5. Handled \subseteq Approvals /\ chat.forgotten \subseteq Approvals
  BY DEF Types, Handled
<1> QED
  BY <1>1, <1>2, <1>3, <1>4, <1>5 DEF Seen

\* a notice comes to the end of the wire
LEMMA NoticeFacts ==
  ASSUME Types, NEW n \in [kind : {"asked", "resolved"}, approval : Approvals],
         wire' = Append(wire, n)
  PROVE  /\ wire' \in Seq([kind : {"asked", "resolved"}, approval : Approvals])
         /\ \A i \in DOMAIN wire' : (i \in DOMAIN wire /\ wire'[i] = wire[i])
                                   \/ (i = Len(wire) + 1 /\ wire'[i] = n)
         /\ Coming' \subseteq Coming \cup (IF n.kind = "asked" THEN {n.approval} ELSE {})
<1>1. wire \in Seq([kind : {"asked", "resolved"}, approval : Approvals])
  BY DEF Types
<1>2. /\ wire' \in Seq([kind : {"asked", "resolved"}, approval : Approvals])
      /\ \A i \in DOMAIN wire' : (i \in DOMAIN wire /\ wire'[i] = wire[i])
                                \/ (i = Len(wire) + 1 /\ wire'[i] = n)
  BY <1>1
<1> QED
  BY <1>2, ComingFacts

LEMMA AppAskStep == \A r \in Requests : IInv /\ AppAsk(r) => IInv'
<1> SUFFICES ASSUME NEW r \in Requests, IInv, AppAsk(r) PROVE IInv'
  OBVIOUS
<1> DEFINE a == [req |-> r, ask |-> app.asked[r] + 1]
           n == Notice("asked", a)
<1>1. /\ app \in [asked : [Requests -> 0..MaxAsks], open : SUBSET Requests]
      /\ \A t \in app.open : app.asked[t] > 0
      /\ Types /\ AnnouncedOnce /\ MaxAsks \in Nat /\ app.asked[r] \in 0..MaxAsks
  BY BoundsAssumption DEF IInv, Types
<1>2. /\ app.asked[r] < MaxAsks
      /\ app' = [asked |-> [app.asked EXCEPT ![r] = @ + 1], open |-> app.open \cup {r}]
      /\ UNCHANGED <<pending, outbox, chat, router, task>>
  BY DEF AppAsk
<1>3. /\ app' \in [asked : [Requests -> 0..MaxAsks], open : SUBSET Requests]
      /\ \A t \in app'.open : app'.asked[t] > 0
      /\ app'.asked[r] = app.asked[r] + 1
      /\ \A t \in Requests : app.asked[t] <= app'.asked[t]
      /\ \A t \in Requests : app.asked[t] \in Nat /\ app'.asked[t] \in Nat
  BY <1>1, <1>2
<1>4. wire' = Append(wire, n)
  BY <1>3 DEF AppAsk
<1>5. a \in Approvals /\ n \in [kind : {"asked", "resolved"}, approval : Approvals]
  BY <1>1, <1>2 DEF Approvals, Notice
<1>6. n.kind = "asked" /\ n.approval = a /\ a.req = r /\ a.ask = app'.asked[r]
  BY <1>3 DEF Notice
<1> HIDE DEF a, n
<1>7. /\ wire' \in Seq([kind : {"asked", "resolved"}, approval : Approvals])
      /\ \A i \in DOMAIN wire' : (i \in DOMAIN wire /\ wire'[i] = wire[i])
                                \/ (i = Len(wire) + 1 /\ wire'[i] = n)
      /\ Coming' \subseteq Coming \cup {a}
  BY <1>1, <1>4, <1>5, <1>6, NoticeFacts
<1>8. Seen' = Seen /\ Handled' = Handled
  BY <1>2, SameOutside
<1>9. a \notin Seen \cup Coming \cup Handled
  <2>1. a \in Seen \cup Coming \cup Handled => a.ask <= app.asked[a.req]
    BY <1>1 DEF AnnouncedOnce
  <2> QED
    BY <1>3, <1>6, <2>1
<1>10. \A b \in (Seen \cup Coming \cup Handled)' : b.ask <= app'.asked[b.req]
  <2> SUFFICES ASSUME NEW b \in (Seen \cup Coming \cup Handled)' PROVE b.ask <= app'.asked[b.req]
    OBVIOUS
  <2>1. CASE b = a
    BY <1>3, <1>6, <2>1
  <2>2. CASE b \in Seen \cup Coming \cup Handled
    <3>1. b.req \in Requests /\ b.ask \in Nat
      BY <1>1, <2>2, KnownApprovals, AskNumbers
    <3>2. b.ask <= app.asked[b.req]
      BY <1>1, <2>2 DEF AnnouncedOnce
    <3>3. app.asked[b.req] <= app'.asked[b.req] /\ app.asked[b.req] \in Nat /\ app'.asked[b.req] \in Nat
      BY <1>3, <3>1
    <3> QED
      BY <3>1, <3>2, <3>3
  <2> QED
    BY <1>7, <1>8, <2>1, <2>2
<1>11. ASSUME NEW i \in DOMAIN wire', NEW j \in DOMAIN wire', wire'[i] = wire'[j],
              wire'[i].kind = "asked"
       PROVE  i = j
  <2>1. \A k \in DOMAIN wire : wire[k] # n
    BY <1>6, <1>9, ComingFacts
  <2>2. CASE i \in DOMAIN wire /\ wire'[i] = wire[i]
    BY <1>1, <1>7, <1>11, <2>1, <2>2 DEF AnnouncedOnce
  <2>3. CASE i = Len(wire) + 1 /\ wire'[i] = n
    BY <1>7, <1>11, <2>1, <2>3
  <2> QED
    BY <1>7, <2>2, <2>3
<1>12. AnnouncedOnce'
  <2>1. ((Coming \cup Handled) \cap Seen)' = {} /\ (Coming \cap Handled)' = {}
    BY <1>1, <1>7, <1>8, <1>9 DEF AnnouncedOnce
  <2> QED
    BY <1>10, <1>11, <2>1 DEF AnnouncedOnce
<1> QED
  BY <1>2, <1>3, <1>7, <1>12, OutsideStep

LEMMA AppSettleStep == \A r \in Requests : IInv /\ AppSettle(r) => IInv'
<1> SUFFICES ASSUME NEW r \in Requests, IInv, AppSettle(r) PROVE IInv'
  OBVIOUS
<1> DEFINE a == [req |-> r, ask |-> app.asked[r]]
           n == Notice("resolved", a)
<1>1. /\ app \in [asked : [Requests -> 0..MaxAsks], open : SUBSET Requests]
      /\ \A t \in app.open : app.asked[t] > 0
      /\ Types /\ AnnouncedOnce /\ MaxAsks \in Nat /\ app.asked[r] \in 0..MaxAsks
  BY BoundsAssumption DEF IInv, Types
<1>2. /\ r \in app.open /\ app' = [app EXCEPT !.open = @ \ {r}] /\ wire' = Append(wire, n)
      /\ UNCHANGED <<pending, outbox, chat, router, task>>
  BY DEF AppSettle
<1>3. a \in Approvals /\ n \in [kind : {"asked", "resolved"}, approval : Approvals]
  BY <1>1, <1>2 DEF Approvals, Notice
<1>4. n.kind = "resolved"
  BY DEF Notice
<1>5. /\ app' \in [asked : [Requests -> 0..MaxAsks], open : SUBSET Requests]
      /\ app'.asked = app.asked /\ \A t \in app'.open : app'.asked[t] > 0
  BY <1>1, <1>2
<1> HIDE DEF n
<1>6. /\ wire' \in Seq([kind : {"asked", "resolved"}, approval : Approvals])
      /\ \A i \in DOMAIN wire' : (i \in DOMAIN wire /\ wire'[i] = wire[i])
                                \/ (i = Len(wire) + 1 /\ wire'[i] = n)
      /\ Coming' \subseteq Coming
  BY <1>1, <1>2, <1>3, <1>4, NoticeFacts
<1>7. Seen' = Seen /\ Handled' = Handled
  BY <1>2, SameOutside
<1>8. ASSUME NEW i \in DOMAIN wire', NEW j \in DOMAIN wire', wire'[i] = wire'[j],
             wire'[i].kind = "asked"
      PROVE  i = j
  <2>1. i \in DOMAIN wire /\ j \in DOMAIN wire /\ wire[i] = wire[j] /\ wire[i].kind = "asked"
    BY <1>4, <1>6, <1>8
  <2> QED
    BY <1>1, <2>1 DEF AnnouncedOnce
<1>9. AnnouncedOnce'
  BY <1>1, <1>5, <1>6, <1>7, <1>8 DEF AnnouncedOnce
<1> QED
  BY <1>2, <1>5, <1>6, <1>9, OutsideStep

LEMMA LostStep == IInv /\ Lost => IInv'
<1> SUFFICES ASSUME IInv, Lost PROVE IInv'
  OBVIOUS
<1> DEFINE Notices == [kind : {"asked", "resolved"}, approval : Approvals]
<1>1. /\ wire # << >> /\ wire' = Tail(wire)
      /\ UNCHANGED <<pending, outbox, chat, router, task, app>>
  BY DEF Lost
<1>2. wire \in Seq(Notices)
  BY DEF IInv, Types
<1>3. /\ wire' \in Seq(Notices)
      /\ \A i \in DOMAIN wire' : i + 1 \in DOMAIN wire /\ wire'[i] = wire[i + 1]
      /\ \A i, j \in DOMAIN wire' : i + 1 = j + 1 => i = j
  BY <1>1, <1>2, TailFacts
<1>4. Coming' \subseteq Coming
  BY <1>3, ComingFacts
<1>5. Seen' = Seen /\ Handled' = Handled
  BY <1>1, SameOutside
<1>6. ASSUME NEW i \in DOMAIN wire', NEW j \in DOMAIN wire', wire'[i] = wire'[j],
             wire'[i].kind = "asked"
      PROVE  i = j
  <2>1. /\ i + 1 \in DOMAIN wire /\ j + 1 \in DOMAIN wire /\ wire[i + 1] = wire[j + 1]
        /\ wire[i + 1].kind = "asked"
    BY <1>3, <1>6
  <2>2. i + 1 = j + 1
    BY <2>1 DEF IInv, AnnouncedOnce
  <2> QED
    BY <1>3, <2>2
<1>7. AnnouncedOnce'
  BY <1>1, <1>4, <1>5, <1>6 DEF IInv, AnnouncedOnce
<1> QED
  BY <1>1, <1>3, <1>7, OutsideStep DEF IInv, Types

-----------------------------------------------------------------------------
(* The invariant holds.                                                     *)

LEMMA InitIInv == Init => IInv
<1> SUFFICES ASSUME Init PROVE IInv
  OBVIOUS
<1>1. Types
  BY BoundsAssumption DEF Init, Types, Queues, Tasks, Idle, NoReply
<1>2. Shape
  BY DEF Init, Shape, Idle, NoReply, AtMostOne
<1>3. \A c \in Convs : pending.queue[c] = << >> /\ Filed(c) = {} /\ Current(c) = {}
  <2>1. \A c \in Convs : pending.queue[c] = << >>
    BY DEF Init
  <2>2. DOMAIN << >> = {}
    OBVIOUS
  <2> QED
    BY <2>1, <2>2 DEF Filed, Current
<1>4. KeysMatchQueues
  BY <1>3 DEF Init, KeysMatchQueues, KeysMatch
<1>5. /\ Prompted = {} /\ OnTheWay = {} /\ AllFiled = {} /\ Coming = {} /\ Handled = {}
      /\ chat.forgotten = {}
  BY <1>3 DEF Init, Prompted, OnTheWay, AllFiled, Coming, Handled, Idle, NoReply
<1>6. AnnouncedOnce
  BY <1>5 DEF Init, AnnouncedOnce, Seen
<1>7. OnlyCurrentIsPrompted /\ CurrentIsPrompted
  BY <1>3 DEF OnlyCurrentIsPrompted, CurrentIsPrompted
<1> QED
  BY <1>1, <1>2, <1>4, <1>6, <1>7 DEF IInv

LEMMA NextIInv == IInv /\ [Next]_vars => IInv'
<1> SUFFICES ASSUME IInv, [Next]_vars PROVE IInv'
  OBVIOUS
<1>1. CASE RouterStep
  BY <1>1, RouterTakeStep, RouterPushStep, RouterResolveStep, RouterSendStep DEF RouterStep
<1>2. CASE WorkerSend
  BY <1>2, WorkerSendStep
<1>3. ASSUME NEW m \in Replies, Reply(m) \/ ReplyStep(m) PROVE IInv'
  BY <1>3, QuietReplySteps, TakeOutStep, ConfirmStep, SendNextStep DEF ReplyStep
<1>4. ASSUME NEW r \in Requests, AppAsk(r) \/ AppSettle(r) PROVE IInv'
  BY <1>4, AppAskStep, AppSettleStep
<1>5. CASE Lost
  BY <1>5, LostStep
<1>6. CASE UNCHANGED vars
  <2>1. UNCHANGED <<pending, outbox, chat, router, task, wire, app>>
    BY <1>6 DEF vars
  <2>2. Seen' = Seen /\ Handled' = Handled
    BY <2>1, SameOutside
  <2>3. AnnouncedOnce'
    BY <2>1, <2>2, SameNotices DEF IInv
  <2> QED
    BY <2>1, <2>3, OutsideStep DEF IInv, Types
<1> QED
  BY <1>1, <1>2, <1>3, <1>4, <1>5, <1>6 DEF Next

LEMMA Invariance == Spec => []IInv
<1> QED
  BY InitIInv, NextIInv, PTL DEF Spec

(* No key is left behind when its approval goes, and no approval stays      *)
(* without its key: im_runtime.rs keeps map and set in step, whichever of   *)
(* the router and the replies files and settles, and in what order.         *)
THEOREM KeysStayInStep == Spec => []KeysMatchQueues
<1>1. IInv => KeysMatchQueues
  BY DEF IInv
<1> QED
  BY <1>1, Invariance, PTL

(* An approval that waits behind another one is never shown to the user.    *)
THEOREM OneAtATime == Spec => []OnlyCurrentIsPrompted
<1>1. IInv => OnlyCurrentIsPrompted
  BY DEF IInv
<1> QED
  BY <1>1, Invariance, PTL

(* The approval at the head of a queue is shown, or about to be, unless a   *)
(* confirmation that failed has dropped its prompt.                         *)
THEOREM NoneOverlooked == Spec => []CurrentIsPrompted
<1>1. IInv => CurrentIsPrompted
  BY DEF IInv
<1> QED
  BY <1>1, Invariance, PTL

(* Both together: what the user sees of a conversation is its current       *)
(* approval, neither one behind it nor none.                                *)
THEOREM OneIsPromptedAtATime == Spec => []OneIsPrompted
<1>1. IInv => OneIsPrompted
  BY DEF IInv, OneIsPrompted
<1> QED
  BY <1>1, Invariance, PTL

-----------------------------------------------------------------------------
(* The listener of a Feishu account (Listeners).                            *)

Frames == [kind : {"pong"}, period : Periods, event : {NoEvent}]
            \cup [kind : {"event"}, period : {0}, event : Events]
            \cup [kind : {"garbled"}, period : {0}, event : {NoEvent}]
Timers == [period : Nat, at : Nat, due : BOOLEAN]

ListenerTypes ==
  /\ reader \in [pc : {"sleep", "read", "download", "hand"}, event : Events \cup {NoEvent}, left : Nat]
  /\ recv \in Nat /\ beat \in Timers /\ watch \in Timers
  /\ frames \in Seq(Frames)
  /\ peer \in [state : {"none", "up", "dead", "closed"}, quiet : Nat, owes : 0..NoPong]
  /\ (reader.pc # "sleep" => /\ beat.period \in Periods /\ beat.at < beat.period
                             /\ watch.period = CheckPeriod /\ watch.at < CheckPeriod
                             /\ peer.state # "none")
  /\ IF peer.state = "up" THEN peer.quiet = 0 ELSE peer.owes = NoPong
  /\ reader.pc \in {"read", "hand"} => reader.left = 0

\* what Feishu was told of is taken care of, but for the event in hand
AckedIsKept ==
  acked \subseteq handed \cup ignored \cup
    (IF reader.pc \in {"download", "hand"} THEN {reader.event} ELSE {})

\* an event is on its way once
Distinct(fs) ==
  \A i, j \in DOMAIN fs : i # j /\ fs[i].kind = "event" => fs[i].event # fs[j].event
SentOnce == Distinct(frames)

\* while an attachment is on its way no more than its time has passed since
\* the last frame
DownloadIsShort == reader.pc \in {"download", "hand"} => recv + reader.left <= MaxDownload

Longest(a, b) == IF a < b THEN b ELSE a
Expected == Longest(beat.period, MaxDownload)

\* the last frame of a peer that answers is not older than the ping that is
\* due, the pong that is owed or the frame that waits allow
UpIsHeard ==
  reader.pc # "sleep" /\ peer.state = "up" =>
    CASE frames # <<>> -> recv <= Expected + MaxLatency
      [] frames = <<>> /\ peer.owes # NoPong -> recv <= Expected + peer.owes
      [] frames = <<>> /\ peer.owes = NoPong /\ beat.due -> recv <= Expected
      [] OTHER -> recv <= beat.at

\* the attachments that may still be waited for after the peer fell silent;
\* then the timeout, from the last frame read, and the next check
EventsIn(fs) == {fs[i].event : i \in {j \in DOMAIN fs : fs[j].kind = "event"}}
Downloads(fs) == Cardinality(EventsIn(fs)) * MaxDownload
Backlog == (Cardinality(Events) + 1) * MaxDownload

SilentIsCounted ==
  reader.pc # "sleep" /\ peer.state # "up" =>
    /\ (frames # <<>> => peer.quiet + reader.left + Downloads(frames) <= Backlog)
    /\ (frames = <<>> /\ reader.pc # "read" => peer.quiet + reader.left <= Backlog)
    /\ (frames = <<>> /\ reader.pc = "read" /\ recv <= Silence => peer.quiet <= Backlog + recv)
    /\ (frames = <<>> /\ reader.pc = "read" /\ recv > Silence =>
          peer.quiet <= Backlog + Silence + (IF watch.due THEN CheckPeriod ELSE watch.at))

ListenerInv ==
  /\ ListenerTypes /\ AckedIsKept /\ SentOnce /\ DownloadIsShort
  /\ UpIsHeard /\ SilentIsCounted

LEMMA ListenerConstants ==
  /\ Silence \in Nat /\ CheckPeriod \in Nat /\ CheckPeriod > 0 /\ Pause \in Nat
  /\ MaxLatency \in Nat /\ MaxDownload \in Nat /\ MaxBreak \in Nat
  /\ \A period \in Periods : period \in Nat /\ period > 0
  /\ IsFiniteSet(Events) /\ NoEvent \notin Events
BY ListenersAssumption

\* the parts of the state, field by field
LEMMA ListenerFields ==
  ASSUME ListenerTypes
  PROVE  /\ reader.pc \in {"sleep", "read", "download", "hand"} /\ reader.event \in Events \cup {NoEvent}
         /\ reader.left \in Nat /\ recv \in Nat
         /\ beat.period \in Nat /\ beat.at \in Nat /\ beat.due \in BOOLEAN
         /\ watch.period \in Nat /\ watch.at \in Nat /\ watch.due \in BOOLEAN
         /\ frames \in Seq(Frames)
         /\ peer.state \in {"none", "up", "dead", "closed"} /\ peer.quiet \in Nat
         /\ peer.owes \in Nat /\ peer.owes <= MaxLatency + 1
BY ListenerConstants DEF ListenerTypes, Timers, NoPong

LEMMA TimerGoesOn ==
  ASSUME NEW timer \in Timers
  PROVE  /\ Onwards(timer) \in Timers
         /\ Onwards(timer).period = timer.period
         /\ timer.at + 1 < timer.period => /\ Onwards(timer).at = timer.at + 1
                                           /\ Onwards(timer).due = timer.due
         /\ ~(timer.at + 1 < timer.period) => /\ Onwards(timer).at = 0
                                              /\ Onwards(timer).due = TRUE
         /\ timer.at < timer.period => Onwards(timer).at < timer.period
<1>1. timer.period \in Nat /\ timer.at \in Nat /\ timer.at + 1 \in Nat
  BY DEF Timers
<1>2. CASE timer.at + 1 < timer.period
  <2>1. Onwards(timer) = [timer EXCEPT !.at = timer.at + 1]
    BY <1>2 DEF Onwards
  <2>2. /\ Onwards(timer) \in Timers /\ Onwards(timer).period = timer.period
        /\ Onwards(timer).at = timer.at + 1 /\ Onwards(timer).due = timer.due
    BY <1>1, <2>1 DEF Timers
  <2> QED BY <1>1, <1>2, <2>2
<1>3. CASE ~(timer.at + 1 < timer.period)
  <2>1. Onwards(timer) = [timer EXCEPT !.at = 0, !.due = TRUE]
    BY <1>3 DEF Onwards
  <2>2. Onwards(timer) = [period |-> timer.period, at |-> 0, due |-> TRUE]
    BY <2>1 DEF Timers
  <2>3. /\ Onwards(timer) \in Timers /\ Onwards(timer).period = timer.period
        /\ Onwards(timer).at = 0 /\ Onwards(timer).due = TRUE
    BY <1>1, <2>2 DEF Timers
  <2> QED BY <1>1, <1>3, <2>3
<1> QED BY <1>2, <1>3

LEMMA TimerStarts ==
  ASSUME NEW period \in Nat
  PROVE  /\ Every(period) \in Timers /\ [Every(period) EXCEPT !.due = TRUE] \in Timers
         /\ Every(period).period = period /\ Every(period).at = 0 /\ Every(period).due = FALSE
         /\ [Every(period) EXCEPT !.due = TRUE].period = period
         /\ [Every(period) EXCEPT !.due = TRUE].at = 0
         /\ [Every(period) EXCEPT !.due = TRUE].due = TRUE
         /\ Off \in Timers
BY DEF Every, Off, Timers

LEMMA RenewedFacts ==
  ASSUME ListenerTypes, NEW period \in Periods
  PROVE  /\ Renewed(period) \in Timers
         /\ beat.period \in Periods /\ beat.at < beat.period =>
              Renewed(period).period \in Periods /\ Renewed(period).at < Renewed(period).period
<1>1. period \in Nat /\ period > 0
  BY ListenerConstants
<1>2. beat \in Timers
  BY DEF ListenerTypes
<1> QED BY <1>1, <1>2, TimerStarts DEF Renewed

-----------------------------------------------------------------------------
(* Frames.                                                                  *)

LEMMA FrameFacts ==
  /\ \A f \in Frames : /\ f.kind \in {"pong", "event", "garbled"}
                       /\ f.kind = "pong" => f.period \in Periods
                       /\ f.kind # "event" => f.event = NoEvent
                       /\ f.kind = "event" => f.event \in Events
  /\ \A period \in Periods : Pong(period) \in Frames /\ Pong(period).kind = "pong"
  /\ \A e \in Events : /\ EventFrame(e) \in Frames
                       /\ EventFrame(e).kind = "event" /\ EventFrame(e).event = e
  /\ Garbled \in Frames /\ Garbled.kind = "garbled"
BY DEF Frames, Pong, EventFrame, Garbled

LEMMA EventsInFacts ==
  ASSUME NEW fs \in Seq(Frames)
  PROVE  /\ EventsIn(fs) \subseteq Events /\ IsFiniteSet(EventsIn(fs))
         /\ Cardinality(EventsIn(fs)) \in Nat /\ Cardinality(EventsIn(fs)) <= Cardinality(Events)
         /\ Cardinality(Events) \in Nat
<1>1. \A i \in DOMAIN fs : fs[i] \in Frames
  OBVIOUS
<1>2. EventsIn(fs) \subseteq Events
  BY <1>1, FrameFacts DEF EventsIn
<1> QED BY <1>2, ListenerConstants, FS_Subset, FS_CardinalityType

LEMMA FrameTail ==
  ASSUME NEW fs \in Seq(Frames), fs # <<>>, Distinct(fs)
  PROVE  /\ Head(fs) \in Frames /\ Tail(fs) \in Seq(Frames) /\ Distinct(Tail(fs))
         /\ EventsIn(Tail(fs)) \subseteq EventsIn(fs)
         /\ Head(fs).kind = "event" =>
              /\ Head(fs).event \in EventsIn(fs)
              /\ Head(fs).event \notin EventsIn(Tail(fs))
<1>1. /\ Head(fs) = fs[1] /\ 1 \in DOMAIN fs /\ fs[1] \in Frames /\ Tail(fs) \in Seq(Frames)
      /\ \A i \in DOMAIN Tail(fs) : i + 1 \in DOMAIN fs /\ Tail(fs)[i] = fs[i + 1] /\ i + 1 # 1
      /\ \A i, j \in DOMAIN Tail(fs) : i # j => i + 1 # j + 1
  OBVIOUS
<1>2. Distinct(Tail(fs))
  BY <1>1 DEF Distinct
<1>3. EventsIn(Tail(fs)) \subseteq EventsIn(fs)
  BY <1>1 DEF EventsIn
<1>4. ASSUME Head(fs).kind = "event"
      PROVE  Head(fs).event \in EventsIn(fs) /\ Head(fs).event \notin EventsIn(Tail(fs))
  BY <1>1, <1>4 DEF EventsIn, Distinct
<1> QED BY <1>1, <1>2, <1>3, <1>4

LEMMA FrameAppend ==
  ASSUME NEW fs \in Seq(Frames), NEW f \in Frames, Distinct(fs),
         f.kind = "event" => \A i \in DOMAIN fs : fs[i].event # f.event
  PROVE  /\ Append(fs, f) \in Seq(Frames) /\ Append(fs, f) # <<>> /\ Distinct(Append(fs, f))
<1>1. /\ Append(fs, f) \in Seq(Frames) /\ Append(fs, f) # <<>>
      /\ \A i \in DOMAIN Append(fs, f) : i \in DOMAIN fs \/ i = Len(fs) + 1
      /\ \A i \in DOMAIN fs : Append(fs, f)[i] = fs[i] /\ fs[i] \in Frames
      /\ Append(fs, f)[Len(fs) + 1] = f
  OBVIOUS
<1>2. \A i \in DOMAIN fs : fs[i].kind = "event" => fs[i].event # f.event
  BY <1>1, FrameFacts, ListenerConstants
<1> QED BY <1>1, <1>2 DEF Distinct

LEMMA OneEventLess ==
  ASSUME NEW fs \in Seq(Frames), fs # <<>>, Distinct(fs), Head(fs).kind = "event"
  PROVE  Cardinality(EventsIn(Tail(fs))) + 1 <= Cardinality(EventsIn(fs))
<1> DEFINE W == EventsIn(fs)
           V == EventsIn(Tail(fs))
           e == Head(fs).event
<1>1. V \subseteq W \ {e} /\ e \in W /\ IsFiniteSet(W) /\ Tail(fs) \in Seq(Frames)
  BY FrameTail, EventsInFacts
<1> HIDE DEF W, V, e
<1>2. Cardinality(W \ {e}) = Cardinality(W) - 1 /\ IsFiniteSet(W \ {e})
  BY <1>1, FS_RemoveElement
<1>3. Cardinality(V) <= Cardinality(W \ {e})
  BY <1>1, <1>2, FS_Subset
<1>4. Cardinality(W) \in Nat /\ Cardinality(V) \in Nat
  BY EventsInFacts, <1>1 DEF W, V
<1> QED BY <1>2, <1>3, <1>4 DEF W, V

LEMMA Times ==
  ASSUME NEW a \in Nat, NEW b \in Nat, NEW d \in Nat
  PROVE  /\ a * d \in Nat /\ (a + 1) * d = a * d + d
         /\ a <= b => a * d <= b * d
<1>1. a * d \in Nat /\ (a + 1) * d = a * d + d
  OBVIOUS
<1>2. ASSUME a <= b PROVE a * d <= b * d
  <2>1. PICK k \in Nat : b = a + k
    BY <1>2
  <2>2. b * d = a * d + k * d /\ k * d \in Nat
    BY <2>1
  <2> QED BY <1>1, <2>2
<1> QED BY <1>1, <1>2

-----------------------------------------------------------------------------
(* What the steps do to the fields.                                         *)

LEMMA HangUpFacts ==
  ASSUME HangUp
  PROVE  /\ reader'.pc = "sleep" /\ recv' = 0 /\ frames' = <<>> /\ peer'.state = "none"
         /\ ListenerTypes'
<1>1. /\ reader' = [pc |-> "sleep", event |-> NoEvent, left |-> Pause] /\ frames' = <<>> /\ recv' = 0
      /\ beat' = Off /\ watch' = Off /\ peer' = [state |-> "none", quiet |-> 0, owes |-> NoPong]
  BY DEF HangUp, Sleeping
<1>2. Off \in Timers
  BY TimerStarts
<1> QED BY <1>1, <1>2, ListenerConstants DEF ListenerTypes, NoPong

\* an event is answered and taken out of the stream
LEMMA ReadEventFacts ==
  ASSUME ListenerTypes, SentOnce, NEW e \in Events, ReadMessage(e) \/ ReadAction(e)
  PROVE  /\ reader.pc = "read" /\ frames # <<>> /\ Head(frames).kind = "event"
         /\ \/ /\ frames' = Tail(frames) /\ recv' = 0 /\ UNCHANGED <<peer, beat, watch>>
               /\ reader'.event \in Events \cup {NoEvent} /\ reader'.left \in Nat
               /\ \/ reader'.pc = "read" /\ reader'.left = 0 /\ e \in ignored'
                  \/ reader'.pc = "download" /\ reader'.left <= MaxDownload /\ reader'.event = e
                  \/ reader'.pc = "hand" /\ reader'.left = 0 /\ reader'.event = e
               /\ reader' = [pc |-> reader'.pc, event |-> reader'.event, left |-> reader'.left]
            \/ HangUp /\ e \in ignored'
         /\ ignored \subseteq ignored' /\ handed' = handed /\ acked' \subseteq acked \cup {e}
<1>1. reader.pc = "read" /\ frames # <<>> /\ Head(frames).event = e /\ acked' \subseteq acked \cup {e}
  BY DEF ReadMessage, ReadAction, Acknowledge
<1>2. Head(frames).kind = "event"
  <2>1. Head(frames) \in Frames
    BY <1>1, FrameTail DEF ListenerTypes, SentOnce
  <2> QED BY <1>1, <2>1, FrameFacts, ListenerConstants
<1>3. ignored \subseteq ignored' /\ handed' = handed
  BY DEF ReadMessage, ReadAction, Drop, Spoil
<1>4. \/ \E pc \in {"read", "download", "hand"}, event \in Events \cup {NoEvent}, left \in Nat :
           /\ GoOn(event, pc, left)
           /\ \/ pc = "read" /\ left = 0 /\ e \in ignored'
              \/ pc = "download" /\ left <= MaxDownload /\ event = e
              \/ pc = "hand" /\ left = 0 /\ event = e
      \/ HangUp /\ e \in ignored'
  <2>1. CASE Drop(e)
    BY <2>1 DEF Drop
  <2>2. CASE \E left \in 0..MaxDownload : GoOn(e, "download", left)
    BY <2>2, ListenerConstants
  <2>3. CASE GoOn(e, "hand", 0)
    BY <2>3
  <2>4. CASE HangUp /\ e \in ignored'
    BY <2>4
  <2> QED BY <2>1, <2>2, <2>3, <2>4 DEF ReadMessage, ReadAction, Spoil
<1> QED BY <1>1, <1>2, <1>3, <1>4 DEF GoOn

LEMMA TimePassesFacts ==
  ASSUME ListenerTypes, TimePasses
  PROVE  /\ reader'.pc = reader.pc /\ reader'.event = reader.event
         /\ reader'.left = (IF reader.left > 0 THEN reader.left - 1 ELSE 0)
         /\ recv' = (IF recv > Silence THEN recv ELSE recv + 1)
         /\ reader.pc # "sleep" => beat' = Onwards(beat) /\ watch' = Onwards(watch)
         /\ peer'.state = peer.state
         /\ peer'.owes = (IF peer.owes = NoPong THEN NoPong ELSE peer.owes + 1)
         /\ peer.owes # NoPong => peer.owes < MaxLatency
         /\ peer'.quiet = (IF peer.state \in {"dead", "closed"} /\ peer.quiet <= NoticedBy
                           THEN peer.quiet + 1 ELSE peer.quiet)
         /\ \/ reader.pc \in {"sleep", "download"} /\ reader.left > 0
            \/ reader.pc = "read" /\ ~beat.due /\ ~watch.due /\ frames = <<>>
         /\ UNCHANGED <<frames, acked, handed, ignored, breaks>>
         /\ reader' \in [pc : {"sleep", "read", "download", "hand"}, event : Events \cup {NoEvent}, left : Nat]
         /\ peer' \in [state : {"none", "up", "dead", "closed"}, quiet : Nat, owes : 0..NoPong]
<1>1. reader.left \in Nat /\ peer.quiet \in Nat /\ peer.owes \in Nat /\ peer.owes <= NoPong /\ NoPong = MaxLatency + 1
  BY ListenerFields DEF NoPong
<1>2. /\ IF reader.left > 0 THEN reader.left - 1 \in Nat ELSE 0 \in Nat
      /\ peer.quiet + 1 \in Nat /\ MaxLatency \in Nat
  BY <1>1, ListenerConstants
<1>3. peer.owes # NoPong => peer.owes < MaxLatency /\ peer.owes + 1 \in 0..NoPong
  BY <1>1, <1>2 DEF TimePasses
<1>4. /\ reader' = [reader EXCEPT !.left = IF reader.left > 0 THEN reader.left - 1 ELSE 0]
      /\ peer' = [peer EXCEPT !.quiet = IF peer.state \in {"dead", "closed"} /\ peer.quiet <= NoticedBy
                                        THEN peer.quiet + 1 ELSE peer.quiet,
                              !.owes = IF peer.owes = NoPong THEN peer.owes ELSE peer.owes + 1]
  BY DEF TimePasses, ListenerTypes
<1>5. /\ reader' \in [pc : {"sleep", "read", "download", "hand"}, event : Events \cup {NoEvent}, left : Nat]
      /\ reader'.pc = reader.pc /\ reader'.event = reader.event
      /\ reader'.left = (IF reader.left > 0 THEN reader.left - 1 ELSE 0)
  BY <1>2, <1>4 DEF ListenerTypes
<1>6. /\ peer' \in [state : {"none", "up", "dead", "closed"}, quiet : Nat, owes : 0..NoPong]
      /\ peer'.state = peer.state
      /\ peer'.owes = (IF peer.owes = NoPong THEN NoPong ELSE peer.owes + 1)
      /\ peer'.quiet = (IF peer.state \in {"dead", "closed"} /\ peer.quiet <= NoticedBy
                        THEN peer.quiet + 1 ELSE peer.quiet)
  BY <1>2, <1>3, <1>4 DEF ListenerTypes
<1>7. /\ recv' = (IF recv > Silence THEN recv ELSE recv + 1)
      /\ reader.pc # "sleep" => beat' = Onwards(beat) /\ watch' = Onwards(watch)
      /\ \/ reader.pc \in {"sleep", "download"} /\ reader.left > 0
         \/ reader.pc = "read" /\ ~beat.due /\ ~watch.due /\ frames = <<>>
      /\ UNCHANGED <<frames, acked, handed, ignored, breaks>>
  BY DEF TimePasses, Waits
<1> QED BY <1>3, <1>5, <1>6, <1>7

-----------------------------------------------------------------------------
(* Each part of the invariant, step by step.                                *)

LEMMA ListenerTypesKept ==
  ASSUME ListenerTypes, SentOnce, ListenersNext
  PROVE  ListenerTypes' /\ SentOnce'
<1>0. /\ frames \in Seq(Frames) /\ Distinct(frames) /\ beat \in Timers /\ watch \in Timers
      /\ NoPong = MaxLatency + 1 /\ MaxLatency \in Nat /\ 0 \in 0..NoPong /\ NoPong \in 0..NoPong
  BY ListenerConstants DEF ListenerTypes, SentOnce, NoPong
<1>s. ASSUME UNCHANGED frames PROVE SentOnce'
  BY <1>s DEF SentOnce, Distinct
<1>1. ASSUME NEW e \in Events, Arrive(e) PROVE ListenerTypes' /\ SentOnce'
  <2>1. /\ frames' = Append(frames, EventFrame(e)) /\ UNCHANGED <<reader, recv, beat, watch, peer>>
        /\ \A i \in DOMAIN frames : frames[i].event # e
    BY <1>1 DEF Arrive
  <2>2. frames' \in Seq(Frames) /\ Distinct(frames')
    BY <1>0, <2>1, FrameAppend, FrameFacts
  <2> QED BY <2>1, <2>2 DEF ListenerTypes, SentOnce, Distinct
<1>2. CASE SendPong
  <2>1. PICK period \in Periods : frames' = Append(frames, Pong(period))
    BY <1>2 DEF SendPong
  <2>2. frames' \in Seq(Frames) /\ Distinct(frames')
    BY <1>0, <2>1, FrameAppend, FrameFacts
  <2>3. UNCHANGED <<reader, recv, beat, watch>> /\ peer' = [peer EXCEPT !.owes = NoPong]
    BY <1>2 DEF SendPong
  <2>4. ListenerTypes'
    BY <1>0, <2>2, <2>3 DEF ListenerTypes
  <2> QED BY <2>2, <2>4 DEF SentOnce, Distinct
<1>g. CASE Garble
  <2>1. frames' = Append(frames, Garbled) /\ UNCHANGED <<reader, recv, beat, watch, peer>>
    BY <1>g DEF Garble
  <2>2. frames' \in Seq(Frames) /\ Distinct(frames')
    BY <1>0, <2>1, FrameAppend, FrameFacts
  <2>3. ListenerTypes'
    BY <2>1, <2>2 DEF ListenerTypes
  <2> QED BY <2>2, <2>3 DEF SentOnce, Distinct
<1>3. CASE FallSilent
  <2>1. UNCHANGED <<reader, recv, beat, watch, frames>>
    BY <1>3 DEF FallSilent
  <2>2. PICK state \in {"dead", "closed"} : peer' = [state |-> state, quiet |-> 0, owes |-> NoPong]
    BY <1>3 DEF FallSilent
  <2>3. ListenerTypes'
    BY <1>0, <2>1, <2>2 DEF ListenerTypes
  <2> QED BY <1>s, <2>1, <2>3
<1>4. CASE Connect
  <2>1. PICK period \in Periods : beat' = Every(period)
    BY <1>4 DEF Connect
  <2>2. /\ reader' = [pc |-> "read", event |-> NoEvent, left |-> 0] /\ recv' = 0 /\ frames' = <<>>
        /\ watch' = [Every(CheckPeriod) EXCEPT !.due = TRUE]
        /\ peer' = [state |-> "up", quiet |-> 0, owes |-> 0]
    BY <1>4 DEF Connect, Reading
  <2>3. beat' \in Timers /\ beat'.period \in Periods /\ beat'.at < beat'.period
    BY <2>1, TimerStarts, ListenerConstants
  <2>4. watch' \in Timers /\ watch'.period = CheckPeriod /\ watch'.at < CheckPeriod
    BY <2>2, TimerStarts, ListenerConstants
  <2>5. ListenerTypes'
    BY <1>0, <2>2, <2>3, <2>4 DEF ListenerTypes
  <2> QED BY <2>2, <2>5 DEF SentOnce, Distinct
<1>5. CASE ConnectFails
  <2>1. UNCHANGED <<recv, beat, watch, frames, peer>> /\ reader' = [pc |-> "sleep", event |-> NoEvent, left |-> Pause]
    BY <1>5 DEF ConnectFails, Sleeping
  <2>2. ListenerTypes'
    BY <2>1, ListenerConstants DEF ListenerTypes
  <2> QED BY <1>s, <2>1, <2>2
<1>6. CASE SendPing
  <2>1. UNCHANGED <<reader, recv, watch, frames>> /\ beat' = [beat EXCEPT !.due = FALSE]
    BY <1>6 DEF SendPing
  <2>2. beat' \in Timers /\ beat'.period = beat.period /\ beat'.at = beat.at
    BY <1>0, <2>1 DEF Timers
  <2>3. /\ peer' \in [state : {"none", "up", "dead", "closed"}, quiet : Nat, owes : 0..NoPong]
        /\ peer'.state = peer.state /\ peer'.quiet = peer.quiet
        /\ (peer.state # "up" => peer'.owes = peer.owes)
    BY <1>0, <1>6 DEF SendPing, ListenerTypes
  <2>4. ListenerTypes'
    BY <2>1, <2>2, <2>3 DEF ListenerTypes
  <2> QED BY <1>s, <2>1, <2>4
<1>h. ASSUME HangUp PROVE ListenerTypes' /\ SentOnce'
  BY <1>h, HangUpFacts DEF SentOnce, Distinct
<1>7. CASE CheckTimeout
  <2>1. CASE HangUp
    BY <1>h, <2>1
  <2>2. CASE watch' = [watch EXCEPT !.due = FALSE] /\ UNCHANGED <<reader, frames, peer, recv, beat>>
    <3>1. watch' \in Timers /\ watch'.period = watch.period /\ watch'.at = watch.at
      BY <1>0, <2>2 DEF Timers
    <3>2. ListenerTypes'
      BY <2>2, <3>1 DEF ListenerTypes
    <3> QED BY <1>s, <2>2, <3>2
  <2> QED BY <1>7, <2>1, <2>2 DEF CheckTimeout
<1>8. CASE SeeEnd \/ ReadGarbled
  BY <1>8, <1>h DEF SeeEnd, ReadGarbled
<1>9. CASE ReadPong
  <2>1. /\ frames # <<>> /\ Head(frames).kind = "pong" /\ frames' = Tail(frames) /\ recv' = 0
        /\ beat' = Renewed(Head(frames).period) /\ UNCHANGED <<reader, watch, peer>> /\ reader.pc = "read"
    BY <1>9 DEF ReadPong
  <2>2. frames' \in Seq(Frames) /\ Distinct(frames') /\ Head(frames).period \in Periods
    BY <1>0, <2>1, FrameTail, FrameFacts
  <2>3. beat' \in Timers /\ beat'.period \in Periods /\ beat'.at < beat'.period
    BY <2>1, <2>2, RenewedFacts DEF ListenerTypes
  <2>4. ListenerTypes'
    BY <2>1, <2>2, <2>3 DEF ListenerTypes
  <2> QED BY <2>2, <2>4 DEF SentOnce, Distinct
<1>10. ASSUME NEW e \in Events, ReadMessage(e) \/ ReadAction(e) PROVE ListenerTypes' /\ SentOnce'
  <2>1. CASE HangUp
    BY <1>h, <2>1
  <2>2. CASE ~HangUp
    <3>1. /\ reader.pc = "read" /\ frames # <<>>
          /\ frames' = Tail(frames) /\ recv' = 0 /\ UNCHANGED <<peer, beat, watch>>
          /\ reader'.event \in Events \cup {NoEvent} /\ reader'.left \in Nat
          /\ reader'.pc \in {"read", "download", "hand"}
          /\ reader'.pc \in {"read", "hand"} => reader'.left = 0
          /\ reader' = [pc |-> reader'.pc, event |-> reader'.event, left |-> reader'.left]
      BY <1>10, <2>2, ReadEventFacts
    <3>2. frames' \in Seq(Frames) /\ Distinct(frames')
      BY <1>0, <3>1, FrameTail
    <3>3. ListenerTypes'
      BY <3>1, <3>2 DEF ListenerTypes
    <3> QED BY <3>2, <3>3 DEF SentOnce, Distinct
  <2> QED BY <2>1, <2>2
<1>11. CASE Downloaded
  <2>1. UNCHANGED <<recv, beat, watch, frames, peer>> /\ reader.pc = "download" /\ reader.left = 0
    BY <1>11 DEF Downloaded
  <2>2. /\ reader' \in [pc : {"read", "hand"}, event : Events \cup {NoEvent}, left : {0}]
    BY <1>11, <2>1 DEF Downloaded, Reading, ListenerTypes
  <2>3. ListenerTypes'
    BY <2>1, <2>2 DEF ListenerTypes
  <2> QED BY <1>s, <2>1, <2>3
<1>12. CASE HandEvent
  <2>1. /\ UNCHANGED <<recv, beat, watch, frames, peer>> /\ reader.pc = "hand"
        /\ reader' = [pc |-> "read", event |-> NoEvent, left |-> 0]
    BY <1>12 DEF HandEvent, Reading
  <2>2. ListenerTypes'
    BY <2>1 DEF ListenerTypes
  <2> QED BY <1>s, <2>1, <2>2
<1>13. CASE TimePasses
  <2>1. frames' = frames /\ recv' \in Nat
    BY <1>13, TimePassesFacts, ListenerFields
  <2>2. beat' \in Timers /\ watch' \in Timers
    BY <1>0, <1>13, TimerGoesOn DEF TimePasses
  <2>3. reader.pc # "sleep" => /\ beat'.period \in Periods /\ beat'.at < beat'.period
                               /\ watch'.period = CheckPeriod /\ watch'.at < CheckPeriod
    BY <1>0, <1>13, TimePassesFacts, TimerGoesOn DEF ListenerTypes
  <2>4. /\ reader' \in [pc : {"sleep", "read", "download", "hand"}, event : Events \cup {NoEvent}, left : Nat]
        /\ peer' \in [state : {"none", "up", "dead", "closed"}, quiet : Nat, owes : 0..NoPong]
        /\ reader'.pc = reader.pc /\ peer'.state = peer.state
        /\ peer.owes = NoPong => peer'.owes = NoPong
        /\ peer.state = "up" => peer'.quiet = peer.quiet
        /\ reader.left = 0 => reader'.left = 0
    BY <1>13, TimePassesFacts, ListenerFields
  <2>5. ListenerTypes'
    BY <2>1, <2>2, <2>3, <2>4 DEF ListenerTypes
  <2> QED BY <1>s, <2>1, <2>5
<1> QED BY <1>1, <1>2, <1>g, <1>3, <1>4, <1>5, <1>6, <1>7, <1>8, <1>9, <1>10, <1>11, <1>12, <1>13
        DEF ListenersNext, ReaderStep, ReadEvent

LEMMA AckedKept ==
  ASSUME ListenerTypes, SentOnce, AckedIsKept, ListenersNext
  PROVE  AckedIsKept'
<1>1. ASSUME UNCHANGED <<reader, acked, handed, ignored>> PROVE AckedIsKept'
  BY <1>1 DEF AckedIsKept
<1>2. ASSUME UNCHANGED <<acked, handed, ignored>>, reader.pc \in {"sleep", "read"}
      PROVE  AckedIsKept'
  BY <1>2 DEF AckedIsKept
<1>3. CASE (\E e \in Events : Arrive(e)) \/ SendPong \/ Garble \/ FallSilent \/ SendPing
  BY <1>1, <1>3 DEF Arrive, SendPong, Garble, FallSilent, SendPing
<1>4. CASE Connect \/ ConnectFails \/ CheckTimeout \/ SeeEnd \/ ReadPong \/ ReadGarbled
  BY <1>2, <1>4 DEF Connect, ConnectFails, CheckTimeout, SeeEnd, ReadPong, ReadGarbled
<1>5. ASSUME NEW e \in Events, ReadMessage(e) \/ ReadAction(e) PROVE AckedIsKept'
  <2>1. reader.pc = "read" /\ acked \subseteq handed \cup ignored
    BY <1>5, ReadEventFacts DEF AckedIsKept
  <2>2. /\ ignored \subseteq ignored' /\ handed' = handed /\ acked' \subseteq acked \cup {e}
        /\ e \in ignored' \/ (reader'.pc \in {"download", "hand"} /\ reader'.event = e)
    BY <1>5, ReadEventFacts
  <2> QED BY <2>1, <2>2 DEF AckedIsKept
<1>6. CASE Downloaded
  BY <1>6 DEF Downloaded, AckedIsKept, ListenerTypes, Reading
<1>7. CASE HandEvent
  BY <1>7 DEF HandEvent, AckedIsKept, Reading
<1>8. CASE TimePasses
  BY <1>8, TimePassesFacts DEF AckedIsKept
<1> QED BY <1>3, <1>4, <1>5, <1>6, <1>7, <1>8 DEF ListenersNext, ReaderStep, ReadEvent

LEMMA ShortKept ==
  ASSUME ListenerTypes, SentOnce, DownloadIsShort, ListenersNext
  PROVE  DownloadIsShort'
<1>0. reader.left \in Nat /\ recv \in Nat /\ MaxDownload \in Nat
  BY ListenerFields, ListenerConstants
<1>1. ASSUME UNCHANGED <<reader, recv>> PROVE DownloadIsShort'
  BY <1>1 DEF DownloadIsShort
<1>2. ASSUME reader'.pc \in {"sleep", "read"} PROVE DownloadIsShort'
  BY <1>2 DEF DownloadIsShort
<1>3. CASE (\E e \in Events : Arrive(e)) \/ SendPong \/ Garble \/ FallSilent \/ SendPing
  BY <1>1, <1>3 DEF Arrive, SendPong, Garble, FallSilent, SendPing
<1>4. CASE Connect \/ ConnectFails \/ SeeEnd \/ ReadGarbled \/ HandEvent
  BY <1>2, <1>4 DEF Connect, ConnectFails, SeeEnd, ReadGarbled, HandEvent, HangUp, Reading, Sleeping
<1>5. CASE CheckTimeout \/ ReadPong
  <2>1. (reader' = reader /\ reader.pc = "read") \/ HangUp
    BY <1>5 DEF CheckTimeout, ReadPong
  <2> QED BY <1>2, <2>1, HangUpFacts
<1>6. ASSUME NEW e \in Events, ReadMessage(e) \/ ReadAction(e) PROVE DownloadIsShort'
  <2>1. \/ HangUp
        \/ recv' = 0 /\ reader'.pc = "read"
        \/ recv' = 0 /\ reader'.left \in Nat /\ (reader'.left <= MaxDownload \/ reader'.left = 0)
    BY <1>6, ReadEventFacts
  <2> QED BY <1>0, <1>2, <2>1, HangUpFacts DEF DownloadIsShort
<1>7. CASE Downloaded
  <2>1. recv' = recv /\ reader.pc = "download" /\ (reader'.pc = "read" \/ reader'.left = reader.left)
    BY <1>7 DEF Downloaded, Reading, ListenerTypes
  <2> QED BY <1>0, <2>1 DEF DownloadIsShort
<1>8. CASE TimePasses
  <2>1. reader'.pc = reader.pc /\ recv' <= recv + 1 /\ recv' \in Nat
        /\ (reader.pc = "download" => reader.left > 0 /\ reader'.left = reader.left - 1)
        /\ reader.pc # "hand"
    BY <1>0, <1>8, TimePassesFacts
  <2> QED BY <1>0, <2>1 DEF DownloadIsShort
<1> QED BY <1>3, <1>4, <1>5, <1>6, <1>7, <1>8 DEF ListenersNext, ReaderStep, ReadEvent

LEMMA ExpectedFacts ==
  ASSUME ListenerTypes, reader.pc # "sleep"
  PROVE  /\ Expected \in Nat
         /\ InTime => Expected + MaxLatency <= Silence
         /\ beat.period <= Expected /\ MaxDownload <= Expected /\ beat.at < beat.period
<1>1. beat.period \in Periods /\ beat.at < beat.period
  BY DEF ListenerTypes
<1>2. beat.period \in Nat
  BY <1>1, ListenerConstants
<1> QED BY <1>1, <1>2, ListenerConstants DEF Expected, Longest, InTime

\* a frame of a peer that answers has come within the timeout, if that is kept
LEMMA HeardInTime ==
  ASSUME ListenerTypes, UpIsHeard, reader.pc # "sleep", peer.state = "up"
  PROVE  recv <= Expected + MaxLatency /\ (InTime => recv <= Silence)
<1>1. /\ recv \in Nat /\ peer.owes \in Nat /\ peer.owes <= MaxLatency + 1 /\ NoPong = MaxLatency + 1
      /\ beat.at \in Nat /\ beat.period \in Nat /\ MaxLatency \in Nat /\ Silence \in Nat
  BY ListenerFields, ListenerConstants DEF NoPong
<1>2. \/ recv <= Expected + MaxLatency
      \/ peer.owes # NoPong /\ recv <= Expected + peer.owes
      \/ recv <= Expected
      \/ recv <= beat.at
  BY DEF UpIsHeard
<1> QED BY <1>1, <1>2, ExpectedFacts

LEMMA HeardKept ==
  ASSUME ListenerTypes, SentOnce, DownloadIsShort, UpIsHeard, ListenersNext
  PROVE  UpIsHeard'
<1>0. /\ recv \in Nat /\ peer.owes \in Nat /\ peer.owes <= MaxLatency + 1 /\ NoPong = MaxLatency + 1
      /\ beat.at \in Nat /\ beat.period \in Nat /\ MaxLatency \in Nat /\ Silence \in Nat
      /\ MaxDownload \in Nat /\ reader.left \in Nat
      /\ reader.pc # "sleep" => /\ Expected \in Nat /\ beat.period <= Expected /\ MaxDownload <= Expected
                                /\ beat.at < beat.period
  BY ListenerFields, ListenerConstants, ExpectedFacts DEF NoPong
<1>t. ListenerTypes'
  BY ListenerTypesKept
<1>a. ASSUME reader'.pc = "sleep" \/ peer'.state # "up" PROVE UpIsHeard'
  BY <1>a DEF UpIsHeard
\* whatever was read last makes the clock start again
<1>b. ASSUME recv' = 0 PROVE UpIsHeard'
  <2>2. /\ beat'.period \in Nat /\ beat'.at \in Nat /\ peer'.owes \in Nat
    BY <1>t DEF ListenerTypes, Timers, NoPong
  <2>3. Expected' \in Nat
    BY <1>0, <2>2 DEF Expected, Longest
  <2> QED BY <1>0, <1>b, <2>2, <2>3 DEF UpIsHeard
<1>c. ASSUME UNCHANGED <<reader, recv, beat, peer>>, frames' # <<>> PROVE UpIsHeard'
  <2>1. Expected' = Expected
    BY <1>c DEF Expected
  <2> QED BY <1>c, <2>1, HeardInTime DEF UpIsHeard
<1>d. ASSUME UNCHANGED <<recv, beat, peer, frames>>, reader.pc # "sleep" PROVE UpIsHeard'
  <2>1. Expected' = Expected
    BY <1>d DEF Expected
  <2> QED BY <1>d, <2>1 DEF UpIsHeard
<1>1. ASSUME NEW e \in Events, Arrive(e) PROVE UpIsHeard'
  <2>1. UNCHANGED <<reader, recv, beat, peer>> /\ frames' # <<>>
    BY <1>1, FrameAppend, FrameFacts DEF Arrive, ListenerTypes, SentOnce
  <2> QED BY <1>c, <2>1
<1>2. CASE SendPong
  <2>1. UNCHANGED <<reader, recv, beat>> /\ peer'.state = peer.state
    BY <1>2 DEF SendPong, ListenerTypes
  <2>2. frames' # <<>>
    BY <1>2, FrameAppend, FrameFacts, ListenerConstants DEF SendPong, ListenerTypes, SentOnce
  <2>3. Expected' = Expected
    BY <2>1 DEF Expected
  <2> QED BY <2>1, <2>2, <2>3, HeardInTime DEF UpIsHeard
<1>g. CASE Garble
  <2>1. UNCHANGED <<reader, recv, beat, peer>> /\ frames' # <<>>
    BY <1>g, FrameAppend, FrameFacts DEF Garble, ListenerTypes, SentOnce
  <2> QED BY <1>c, <2>1
<1>3. CASE FallSilent
  BY <1>3, <1>a DEF FallSilent
<1>4. CASE Connect
  BY <1>4, <1>b DEF Connect
<1>5. CASE ConnectFails
  BY <1>5, <1>a DEF ConnectFails, Sleeping
<1>6. CASE SendPing
  <2>1. /\ UNCHANGED <<reader, recv, frames>> /\ reader.pc = "read" /\ beat.due
        /\ beat' = [beat EXCEPT !.due = FALSE]
    BY <1>6 DEF SendPing
  <2>2. beat'.period = beat.period /\ Expected' = Expected
    BY <2>1 DEF ListenerTypes, Timers, Expected
  <2>3. /\ peer'.state = peer.state
        /\ peer'.state = "up" => peer'.owes # NoPong /\ peer'.owes \in Nat
                                 /\ (peer.owes # NoPong => peer'.owes = peer.owes)
    BY <1>0, <1>6 DEF SendPing, ListenerTypes
  <2>4. CASE peer.state = "up" /\ frames = <<>>
    <3>1. recv <= Expected + peer'.owes
      BY <1>0, <2>1, <2>3, <2>4 DEF UpIsHeard
    <3> QED BY <2>1, <2>2, <2>3, <2>4, <3>1 DEF UpIsHeard
  <2>5. CASE frames # <<>>
    BY <2>1, <2>2, <2>3, <2>5 DEF UpIsHeard
  <2> QED BY <2>3, <2>4, <2>5, <1>a
<1>7. CASE CheckTimeout
  BY <1>7, <1>a, <1>d, HangUpFacts DEF CheckTimeout
<1>8. CASE SeeEnd \/ ReadGarbled
  BY <1>8, <1>a, HangUpFacts DEF SeeEnd, ReadGarbled
<1>9. CASE ReadPong
  BY <1>9, <1>b DEF ReadPong
<1>10. ASSUME NEW e \in Events, ReadMessage(e) \/ ReadAction(e) PROVE UpIsHeard'
  BY <1>10, <1>b, ReadEventFacts, HangUpFacts
<1>11. CASE Downloaded
  BY <1>11, <1>d DEF Downloaded
<1>12. CASE HandEvent
  BY <1>12, <1>d DEF HandEvent
<1>13. CASE TimePasses
  <2>0. CASE reader.pc = "sleep" \/ peer.state # "up"
    BY <1>13, <1>a, <2>0, TimePassesFacts
  <2> SUFFICES ASSUME reader.pc # "sleep", peer.state = "up" PROVE UpIsHeard'
    BY <2>0
  <2>1. /\ recv' \in Nat /\ recv' <= recv + 1
        /\ frames' = frames /\ reader'.pc = reader.pc /\ peer'.state = "up"
        /\ beat' = Onwards(beat)
        /\ peer'.owes = (IF peer.owes = NoPong THEN NoPong ELSE peer.owes + 1)
        /\ peer.owes # NoPong => peer.owes < MaxLatency
    BY <1>0, <1>13, TimePassesFacts
  <2>2. /\ beat'.period = beat.period
        /\ beat.at + 1 < beat.period => beat'.at = beat.at + 1 /\ beat'.due = beat.due
        /\ ~(beat.at + 1 < beat.period) => beat'.due = TRUE
    BY <2>1, TimerGoesOn DEF ListenerTypes
  <2>3. Expected' = Expected
    BY <2>2 DEF Expected
  <2>4. CASE reader.pc = "download"
    <3>1. recv + 1 <= MaxDownload
      BY <1>0, <1>13, <2>4, TimePassesFacts DEF DownloadIsShort
    <3>2. frames = <<>> /\ peer.owes = NoPong /\ ~beat'.due => ~beat.due /\ beat'.at = beat.at + 1
      BY <2>1, <2>2, ListenerFields
    <3>3. frames = <<>> /\ peer.owes = NoPong /\ ~beat'.due => recv' <= beat'.at
      BY <1>0, <2>1, <2>4, <3>2 DEF UpIsHeard
    <3>4. recv' <= Expected
      BY <1>0, <2>1, <2>4, <3>1
    <3>5. peer'.owes \in Nat /\ recv' <= Expected + MaxLatency /\ recv' <= Expected + peer'.owes
      BY <1>0, <2>1, <2>4, <3>4
    <3>6. peer'.owes = NoPong => peer.owes = NoPong
      BY <1>0, <2>1
    <3> QED BY <2>1, <2>3, <3>3, <3>4, <3>5, <3>6 DEF UpIsHeard
  <2>5. CASE reader.pc # "download"
    <3>1. frames = <<>> /\ ~beat.due /\ reader.pc = "read"
      BY <1>13, <2>5, TimePassesFacts
    <3>2. CASE peer.owes # NoPong
      <4>1. recv <= Expected + peer.owes
        BY <3>1, <3>2 DEF UpIsHeard
      <4>2. peer'.owes = peer.owes + 1 /\ peer'.owes # NoPong
        BY <1>0, <2>1, <3>2
      <4>3. recv' <= Expected + peer'.owes
        BY <1>0, <2>1, <3>1, <4>1, <4>2
      <4> QED BY <2>1, <2>3, <3>1, <4>2, <4>3 DEF UpIsHeard
    <3>3. CASE peer.owes = NoPong
      <4>1. recv <= beat.at
        BY <3>1, <3>3 DEF UpIsHeard
      <4>2. IF beat'.due THEN recv' <= Expected ELSE recv' <= beat'.at
        BY <1>0, <2>1, <2>2, <3>1, <4>1
      <4> QED BY <2>1, <2>3, <3>1, <3>3, <4>2 DEF UpIsHeard
    <3> QED BY <3>2, <3>3
  <2> QED BY <2>4, <2>5
<1> QED BY <1>1, <1>2, <1>g, <1>3, <1>4, <1>5, <1>6, <1>7, <1>8, <1>9, <1>10, <1>11, <1>12, <1>13
        DEF ListenersNext, ReaderStep, ReadEvent

LEMMA BacklogFacts ==
  /\ Backlog \in Nat /\ Cardinality(Events) \in Nat
  /\ Backlog = Cardinality(Events) * MaxDownload + MaxDownload
  /\ NoticedBy = Backlog + Silence + CheckPeriod
<1>1. Cardinality(Events) \in Nat /\ MaxDownload \in Nat /\ Silence \in Nat /\ CheckPeriod \in Nat
  BY ListenerConstants, FS_CardinalityType
<1>2. /\ Cardinality(Events) * MaxDownload \in Nat
      /\ (Cardinality(Events) + 1) * MaxDownload = Cardinality(Events) * MaxDownload + MaxDownload
  BY <1>1, Times
<1> QED BY <1>1, <1>2 DEF Backlog, NoticedBy

LEMMA DownloadsFacts ==
  ASSUME NEW fs \in Seq(Frames)
  PROVE  /\ Downloads(fs) \in Nat /\ Downloads(fs) + MaxDownload <= Backlog
         /\ fs # <<>> /\ Distinct(fs) =>
              /\ Downloads(Tail(fs)) \in Nat /\ Downloads(Tail(fs)) <= Downloads(fs)
              /\ Head(fs).kind = "event" => Downloads(Tail(fs)) + MaxDownload <= Downloads(fs)
<1> DEFINE n == Cardinality(EventsIn(fs))
           m == Cardinality(EventsIn(Tail(fs)))
           N == Cardinality(Events)
           D == MaxDownload
<1>1. n \in Nat /\ n <= N /\ N \in Nat /\ D \in Nat
  BY EventsInFacts, ListenerConstants
<1>2. ASSUME fs # <<>>, Distinct(fs)
      PROVE  m \in Nat /\ m <= n /\ (Head(fs).kind = "event" => m + 1 <= n)
  <2>1. Tail(fs) \in Seq(Frames) /\ EventsIn(Tail(fs)) \subseteq EventsIn(fs)
    BY <1>2, FrameTail
  <2>2. IsFiniteSet(EventsIn(fs)) /\ m \in Nat
    BY <2>1, EventsInFacts
  <2> QED BY <1>2, <2>1, <2>2, FS_Subset, OneEventLess
<1>3. /\ Downloads(fs) = n * D /\ Downloads(Tail(fs)) = m * D
      /\ Backlog = N * D + D
  BY BacklogFacts DEF Downloads
<1> HIDE DEF n, m, N, D
<1>4. n * D \in Nat /\ N * D \in Nat /\ n * D <= N * D
  BY <1>1, Times
<1>5. Downloads(fs) + D <= Backlog /\ Downloads(fs) \in Nat
  <2> DEFINE a == n * D
             b == N * D
  <2>1. a \in Nat /\ b \in Nat /\ a <= b /\ Downloads(fs) = a /\ Backlog = b + D
    BY <1>3, <1>4
  <2> HIDE DEF a, b
  <2> QED BY <1>1, <2>1
<1>6. ASSUME fs # <<>>, Distinct(fs)
      PROVE  /\ Downloads(Tail(fs)) \in Nat /\ Downloads(Tail(fs)) <= Downloads(fs)
             /\ Head(fs).kind = "event" => Downloads(Tail(fs)) + D <= Downloads(fs)
  <2>1. m \in Nat /\ m <= n /\ m * D \in Nat /\ m * D <= n * D
    BY <1>1, <1>2, <1>6, Times
  <2>2. ASSUME Head(fs).kind = "event" PROVE m * D + D <= n * D
    <3>1. m + 1 \in Nat /\ m + 1 <= n
      BY <1>2, <1>6, <2>1, <2>2
    <3>2. (m + 1) * D <= n * D
      BY <1>1, <3>1, Times
    <3>3. (m + 1) * D = m * D + D
      BY <1>1, <2>1, Times
    <3> QED BY <3>2, <3>3
  <2> QED BY <1>3, <2>1, <2>2
<1> QED BY <1>5, <1>6 DEF D

LEMMA CountedKept ==
  ASSUME ListenerTypes, SentOnce, DownloadIsShort, SilentIsCounted, ListenersNext
  PROVE  SilentIsCounted'
<1>0. /\ recv \in Nat /\ Silence \in Nat /\ MaxDownload \in Nat
      /\ MaxLatency \in Nat /\ reader.left \in Nat /\ peer.quiet \in Nat /\ watch.at \in Nat
      /\ watch.due \in BOOLEAN
      /\ CheckPeriod \in Nat /\ CheckPeriod > 0 /\ Backlog \in Nat
  BY ListenerFields, ListenerConstants, BacklogFacts
<1>w. /\ frames \in Seq(Frames) /\ Downloads(frames) \in Nat
      /\ Downloads(frames) + MaxDownload <= Backlog
  BY DownloadsFacts DEF ListenerTypes
<1>a. ASSUME reader'.pc = "sleep" \/ peer'.state = "up" PROVE SilentIsCounted'
  BY <1>a DEF SilentIsCounted
<1>b. ASSUME UNCHANGED <<reader, recv, watch, peer, frames>> PROVE SilentIsCounted'
  BY <1>b DEF SilentIsCounted
<1>1. CASE (\E e \in Events : Arrive(e)) \/ SendPong \/ Garble
  <2>1. peer'.state = "up"
    BY <1>1 DEF Arrive, SendPong, Garble, ListenerTypes
  <2> QED BY <1>a, <2>1
<1>3. CASE FallSilent
  <2>0. CASE reader.pc = "sleep"
    BY <1>3, <1>a, <2>0 DEF FallSilent
  <2>1. CASE reader.pc # "sleep"
    <3>1. /\ UNCHANGED <<reader, recv, watch, frames>> /\ peer.state = "up" /\ peer'.quiet = 0
      BY <1>3 DEF FallSilent
    <3>2. reader.left <= MaxDownload
      BY <1>0, <2>1, <3>1 DEF DownloadIsShort, ListenerTypes
    <3>4. peer'.quiet + reader.left + Downloads(frames) <= Backlog
      BY <1>0, <1>w, <3>1, <3>2
    <3>5. peer'.quiet + reader.left <= Backlog /\ peer'.quiet <= Backlog + recv
      BY <1>0, <1>w, <3>1, <3>2
    <3>6. peer'.quiet <= Backlog + Silence + (IF watch.due THEN CheckPeriod ELSE watch.at)
      BY <1>0, <3>1
    <3> QED BY <1>0, <3>1, <3>4, <3>5, <3>6 DEF SilentIsCounted
  <2> QED BY <2>0, <2>1
<1>4. CASE Connect \/ ConnectFails \/ SeeEnd \/ ReadGarbled
  BY <1>4, <1>a, HangUpFacts DEF Connect, ConnectFails, SeeEnd, ReadGarbled, Sleeping
<1>6. CASE SendPing
  <2>1. /\ UNCHANGED <<reader, recv, watch, frames>>
        /\ peer'.state = "up" \/ peer' = peer
    BY <1>6 DEF SendPing, ListenerTypes
  <2> QED BY <1>a, <1>b, <2>1
<1>7. CASE CheckTimeout
  <2>1. \/ HangUp
        \/ recv <= Silence /\ UNCHANGED <<reader, frames, peer, recv>>
    BY <1>7 DEF CheckTimeout
  <2>2. ASSUME recv <= Silence, UNCHANGED <<reader, frames, peer, recv>> PROVE SilentIsCounted'
    BY <1>0, <2>2 DEF SilentIsCounted
  <2> QED BY <1>a, <2>1, <2>2, HangUpFacts
\* a frame was read: no more than before is left
<1>f. ASSUME recv' = 0, peer' = peer, reader'.left \in Nat, frames # <<>>, frames' \in Seq(Frames),
             reader.pc # "sleep", reader.left = 0,
             Downloads(frames') \in Nat, reader'.left + Downloads(frames') <= Downloads(frames)
      PROVE  SilentIsCounted'
  <2>2. CASE peer.state # "up"
    <3>1. peer.quiet + Downloads(frames) <= Backlog
      BY <1>0, <1>f, <1>w, <2>2 DEF SilentIsCounted
    <3>2. peer'.quiet + reader'.left + Downloads(frames') <= Backlog
      BY <1>0, <1>f, <1>w, <3>1
    <3>3. peer'.quiet + reader'.left <= Backlog /\ peer'.quiet <= Backlog + recv'
      BY <1>0, <1>f, <1>w, <3>2
    <3>4. ~(recv' > Silence)
      BY <1>0, <1>f
    <3> QED BY <3>2, <3>3, <3>4 DEF SilentIsCounted
  <2>3. CASE peer.state = "up"
    BY <1>a, <1>f, <2>3
  <2> QED BY <2>2, <2>3
<1>9. CASE ReadPong
  <2>1. /\ frames # <<>> /\ frames' = Tail(frames) /\ recv' = 0 /\ UNCHANGED <<reader, peer>>
        /\ reader.pc = "read" /\ reader.left = 0
    BY <1>9 DEF ReadPong, ListenerTypes
  <2>2. frames' \in Seq(Frames) /\ Downloads(frames') \in Nat /\ Downloads(frames') <= Downloads(frames)
    BY <2>1, FrameTail, DownloadsFacts DEF ListenerTypes, SentOnce
  <2> QED BY <1>0, <1>f, <1>w, <2>1, <2>2
<1>10. ASSUME NEW e \in Events, ReadMessage(e) \/ ReadAction(e) PROVE SilentIsCounted'
  <2>1. CASE HangUp
    BY <1>a, <2>1, HangUpFacts
  <2>2. CASE ~HangUp
    <3>1. /\ reader.pc = "read" /\ reader.left = 0 /\ frames # <<>> /\ Head(frames).kind = "event"
          /\ frames' = Tail(frames) /\ recv' = 0 /\ peer' = peer
          /\ reader'.left \in Nat /\ (reader'.left <= MaxDownload \/ reader'.left = 0)
      BY <1>10, <2>2, ReadEventFacts DEF ListenerTypes
    <3>2. frames' \in Seq(Frames)
      BY <3>1, FrameTail DEF ListenerTypes, SentOnce
    <3>3. Downloads(frames') \in Nat /\ Downloads(frames') + MaxDownload <= Downloads(frames)
      BY <3>1, DownloadsFacts DEF ListenerTypes, SentOnce
    <3>4. reader'.left + Downloads(frames') <= Downloads(frames)
      BY <1>0, <1>w, <3>1, <3>3
    <3> QED BY <1>f, <3>1, <3>2, <3>3, <3>4
  <2> QED BY <2>1, <2>2
\* what was in hand is done
<1>k. ASSUME UNCHANGED <<recv, watch, frames, peer>>, reader'.left = reader.left,
             reader.pc \in {"download", "hand"}
      PROVE  SilentIsCounted'
  <2>1. CASE peer.state # "up" /\ frames = <<>>
    <3>1. peer.quiet + reader.left <= Backlog
      BY <1>k, <2>1 DEF SilentIsCounted
    <3>2. /\ peer'.quiet + reader'.left <= Backlog /\ peer'.quiet <= Backlog + recv'
          /\ peer'.quiet <= Backlog + Silence + (IF watch'.due THEN CheckPeriod ELSE watch'.at)
      BY <1>0, <1>k, <3>1
    <3> QED BY <1>k, <2>1, <3>2 DEF SilentIsCounted
  <2>2. CASE ~(peer.state # "up" /\ frames = <<>>)
    BY <1>k, <2>2 DEF SilentIsCounted
  <2> QED BY <2>1, <2>2
<1>11. CASE Downloaded
  BY <1>11, <1>k DEF Downloaded, Reading, ListenerTypes
<1>12. CASE HandEvent
  BY <1>12, <1>k DEF HandEvent, Reading, ListenerTypes
<1>13. CASE TimePasses
  <2>0. CASE reader.pc = "sleep" \/ peer.state = "up"
    BY <1>13, <1>a, <2>0, TimePassesFacts
  <2> SUFFICES ASSUME reader.pc # "sleep", peer.state # "up" PROVE SilentIsCounted'
    BY <2>0
  <2>1. /\ reader'.pc = reader.pc /\ peer'.state = peer.state /\ frames' = frames
        /\ watch' = Onwards(watch)
        /\ peer'.quiet \in Nat /\ peer'.quiet <= peer.quiet + 1
        /\ recv' = (IF recv > Silence THEN recv ELSE recv + 1)
        /\ reader'.left = (IF reader.left > 0 THEN reader.left - 1 ELSE 0)
    BY <1>0, <1>13, TimePassesFacts
  <2>2. /\ watch.period = CheckPeriod /\ watch.at < CheckPeriod
        /\ watch.at + 1 < CheckPeriod => watch'.at = watch.at + 1 /\ watch'.due = watch.due
        /\ ~(watch.at + 1 < CheckPeriod) => watch'.at = 0 /\ watch'.due = TRUE
    BY <2>1, TimerGoesOn DEF ListenerTypes
  <2>3. CASE reader.pc = "download"
    <3>1. reader.left > 0 /\ reader'.left = reader.left - 1
      BY <1>13, <2>1, <2>3, TimePassesFacts
    <3>3. peer'.quiet + reader'.left <= peer.quiet + reader.left
      BY <1>0, <2>1, <3>1
    <3>4. frames # <<>> => peer'.quiet + reader'.left + Downloads(frames') <= Backlog
      <4>1. frames # <<>> => peer.quiet + reader.left + Downloads(frames) <= Backlog
        BY DEF SilentIsCounted
      <4> QED BY <1>0, <1>w, <2>1, <3>1, <3>3, <4>1
    <3>5. frames = <<>> => peer'.quiet + reader'.left <= Backlog
      <4>1. frames = <<>> => peer.quiet + reader.left <= Backlog
        BY <2>3 DEF SilentIsCounted
      <4> QED BY <1>0, <2>1, <3>1, <3>3, <4>1
    <3> QED BY <2>1, <2>3, <3>4, <3>5 DEF SilentIsCounted
  <2>4. CASE reader.pc # "download"
    <3>1. frames = <<>> /\ reader.pc = "read" /\ ~watch.due /\ reader.left = 0 /\ reader'.left = 0
      BY <1>0, <1>13, <2>1, <2>4, TimePassesFacts DEF ListenerTypes
    <3>2. CASE recv < Silence
      <4>1. recv' = recv + 1 /\ recv' <= Silence /\ peer.quiet <= Backlog + recv
        BY <1>0, <2>1, <3>1, <3>2 DEF SilentIsCounted
      <4>2. peer'.quiet <= Backlog + recv'
        BY <1>0, <2>1, <3>1, <4>1
      <4> QED BY <1>0, <2>1, <3>1, <4>1, <4>2 DEF SilentIsCounted
    <3>3. CASE recv = Silence
      <4>1. recv' > Silence /\ peer.quiet <= Backlog + Silence
        BY <1>0, <2>1, <3>1, <3>3 DEF SilentIsCounted
      <4>2. IF watch'.due THEN CheckPeriod >= 1 ELSE watch'.at >= 1
        BY <1>0, <2>2, <3>1
      <4>3. peer'.quiet <= Backlog + Silence + (IF watch'.due THEN CheckPeriod ELSE watch'.at)
        BY <1>0, <2>1, <2>2, <3>1, <4>1, <4>2
      <4> QED BY <1>0, <2>1, <3>1, <4>1, <4>3 DEF SilentIsCounted
    <3>4. CASE recv > Silence
      <4>1. recv' > Silence /\ peer.quiet <= Backlog + Silence + watch.at
        BY <1>0, <2>1, <3>1, <3>4 DEF SilentIsCounted
      <4>3. peer'.quiet <= Backlog + Silence + (IF watch'.due THEN CheckPeriod ELSE watch'.at)
        BY <1>0, <2>1, <2>2, <3>1, <4>1
      <4> QED BY <1>0, <2>1, <3>1, <4>1, <4>3 DEF SilentIsCounted
    <3> QED BY <1>0, <3>2, <3>3, <3>4
  <2> QED BY <2>3, <2>4
<1> QED BY <1>1, <1>3, <1>4, <1>6, <1>7, <1>9, <1>10, <1>11, <1>12, <1>13
        DEF ListenersNext, ReaderStep, ReadEvent

LEMMA ListenerStarts ==
  ListenersInit => ListenerInv
<1> SUFFICES ASSUME ListenersInit PROVE ListenerInv
  OBVIOUS
<1>1. /\ reader = [pc |-> "sleep", event |-> NoEvent, left |-> 0] /\ recv = 0 /\ beat = Off /\ watch = Off
      /\ frames = <<>> /\ peer = [state |-> "none", quiet |-> 0, owes |-> NoPong] /\ acked = {}
  BY DEF ListenersInit, Sleeping
<1>2. NoPong \in 0..NoPong /\ Off \in Timers
  <2>1. MaxLatency \in Nat
    BY ListenerConstants
  <2> QED BY <2>1 DEF NoPong, Off, Timers
<1>3. ListenerTypes
  BY <1>1, <1>2 DEF ListenerTypes
<1> QED BY <1>1, <1>3 DEF ListenerInv, AckedIsKept, SentOnce, Distinct, DownloadIsShort, UpIsHeard, SilentIsCounted

LEMMA ListenerStutters ==
  ASSUME ListenerInv, UNCHANGED listenerVars
  PROVE  ListenerInv'
BY DEF ListenerInv, ListenerTypes, AckedIsKept, SentOnce, Distinct, DownloadIsShort, UpIsHeard,
       Expected, SilentIsCounted, listenerVars

\* For any events, intervals and times: a connection whose peer answers its
\* pings is given up only while the ping interval Feishu asked for last, or the
\* longest attachment, leaves a pong no time to come before the timeout; none
\* that has been silent for longer than the timeout, a check and the
\* attachments on their way take is kept; and no event it has confirmed is lost.
THEOREM ListenersMissNothing == ListenersSpec => []NothingIsMissed
<1>1. ListenerInv /\ [ListenersNext]_listenerVars => ListenerInv'
  BY ListenerTypesKept, AckedKept, ShortKept, HeardKept, CountedKept, ListenerStutters DEF ListenerInv
<1>2. ASSUME ListenerInv PROVE NothingIsMissed
  <2>1. AckedIsHandled
    BY <1>2 DEF ListenerInv, AckedIsKept, AckedIsHandled
  <2>2. reader.pc = "read" /\ recv > Silence /\ peer.state = "up" => ~InTime
    <3>1. recv \in Nat /\ Silence \in Nat
      BY <1>2, ListenerFields, ListenerConstants DEF ListenerInv
    <3> QED BY <1>2, <3>1, HeardInTime DEF ListenerInv
  <2>3. ASSUME reader.pc # "sleep" PROVE peer.quiet <= NoticedBy
    <3>0. /\ recv \in Nat /\ Silence \in Nat /\ peer.quiet \in Nat /\ watch.at \in Nat /\ reader.left \in Nat
          /\ CheckPeriod \in Nat /\ watch.at < CheckPeriod /\ MaxDownload \in Nat
          /\ Backlog \in Nat /\ NoticedBy = Backlog + Silence + CheckPeriod
      BY <1>2, <2>3, ListenerFields, ListenerConstants, BacklogFacts DEF ListenerInv, ListenerTypes
    <3>1. CASE peer.state # "up"
      <4>1. CASE frames # <<>>
        <5>2. Downloads(frames) \in Nat
          BY <1>2, DownloadsFacts DEF ListenerInv, ListenerTypes
        <5>3. peer.quiet + reader.left + Downloads(frames) <= Backlog
          BY <1>2, <2>3, <3>1, <4>1 DEF ListenerInv, SilentIsCounted
        <5> QED BY <3>0, <5>2, <5>3
      <4>r. CASE frames = <<>> /\ reader.pc # "read"
        <5>1. peer.quiet + reader.left <= Backlog
          BY <1>2, <2>3, <3>1, <4>r DEF ListenerInv, SilentIsCounted
        <5> QED BY <3>0, <5>1
      <4>2. CASE frames = <<>> /\ reader.pc = "read" /\ recv <= Silence
        <5>1. peer.quiet <= Backlog + recv
          BY <1>2, <2>3, <3>1, <4>2 DEF ListenerInv, SilentIsCounted
        <5> QED BY <3>0, <4>2, <5>1
      <4>3. CASE frames = <<>> /\ reader.pc = "read" /\ recv > Silence
        <5>1. peer.quiet <= Backlog + Silence + (IF watch.due THEN CheckPeriod ELSE watch.at)
          BY <1>2, <2>3, <3>1, <4>3 DEF ListenerInv, SilentIsCounted
        <5> QED BY <3>0, <5>1
      <4> QED BY <3>0, <4>1, <4>r, <4>2, <4>3
    <3>2. CASE peer.state = "up"
      <4>1. peer.quiet = 0
        BY <1>2, <3>2 DEF ListenerInv, ListenerTypes
      <4> QED BY <3>0, <4>1
    <3> QED BY <3>1, <3>2
  <2> QED BY <2>1, <2>2, <2>3 DEF NothingIsMissed, SilenceIsTold
<1> QED BY <1>1, <1>2, ListenerStarts, PTL DEF ListenersSpec

-----------------------------------------------------------------------------
(* How a conversation gets its thread (ThreadRouting).                      *)

IsRequest(r) ==
  /\ r = [k \in {"stage", "page", "lists", "more", "draft", "field"} |-> r[k]]
  /\ DOMAIN r.draft = Fields
IsFlow(f) ==
  /\ f = [k \in {"step", "id", "prompt", "request", "page", "thread"} |-> f[k]]
  /\ IsRequest(f.request)

\* a request but for its draft
SameShape(r, q) == q.stage = r.stage /\ q.page = r.page /\ q.lists = r.lists /\ q.field = r.field

RoutingTypes ==
  /\ platform \in Platforms
  /\ drawn \in 0..MaxRequest
  /\ DOMAIN requests = RequestIds
  /\ \A id \in RequestIds : IsRequest(requests[id]) /\ (id > drawn => requests[id] = Gone)
  /\ DOMAIN flow = Handlers
  /\ \A h \in Handlers : /\ IsFlow(flow[h])
                         /\ flow[h].step = "idle" => flow[h] = AtRest
                         /\ flow[h].step # "idle" => flow[h].id \in 1..drawn
  /\ \A m \in shown : m.id \in 1..drawn

\* every thread a request offers was shown for it
ListsShown(id, request, messages) ==
  \A page \in DOMAIN request.lists :
    request.lists[page] # <<>> =>
      \E m \in messages : m.kind = "list" /\ m.id = id /\ m.items = request.lists[page]

Offered ==
  /\ \A id \in RequestIds : ListsShown(id, requests[id], shown)
  /\ \A h \in Handlers : ListsShown(flow[h].id, flow[h].request, shown)
  /\ ThreadWasShown

\* WeChat: the options a request shows, whether it waits for a path
WechatOptions(r) ==
  LET values == IF r.field = "cwd" THEN <<Head(Options["cwd"]), "custom">> \o Tail(Options["cwd"]) ELSE Options[r.field]
      last == r.page * PageSize IN
  IF r.page \in 1..((Len(values) + PageSize - 1) \div PageSize)
  THEN SubSeq(values, last - PageSize + 1, IF last < Len(values) THEN last ELSE Len(values)) ELSE <<>>
NeedsPath(r) == r.draft["cwd"] = "custom" /\ r.stage = "options"

\* a request says what a prompt says
Matches(m, r) ==
  /\ m.kind = r.stage
  /\ r.stage = "settings" => m.items = Menu
  /\ r.stage = "options" => m.items = WechatOptions(r)
  /\ r.stage = "list" => m.items = ThreadsOn(r)

Paged(r) ==
  /\ r.lists \in Seq(Listings \cup {<<>>})
  /\ r.stage = "list" => r.page \in Nat \ {0}

\* what the handler at work is about to do, given the requests
Carries(f, reqs, m) ==
  /\ \A o \in Live(reqs) : o <= f.id /\ (o # f.id => ~NeedsPath(reqs[o]))
  /\ Paged(f.request)
  /\ f.step \in {"store", "start", "resume"} => f.id \in Live(reqs)
  /\ f.step = "store" => SameShape(reqs[f.id], f.request)
  /\ f.step = "send" /\ f.prompt = "options" => f.request.stage = "options"
  /\ f.step = "send" /\ f.prompt = "list" => f.page \in Nat \ {0}
  /\ f.step = "remember" => f.request.stage # "gone" /\ m.id = f.id /\ Matches(m, f.request)

\* one message after the other: the newest request is the one of the last prompt
Sequential ==
  /\ \A h, k \in Handlers : flow[h] # AtRest /\ flow[k] # AtRest => h = k
  /\ \A id \in RequestIds : (requests[id].stage = "gone" => requests[id] = Gone) /\ Paged(requests[id])
  /\ \A h \in Handlers : flow[h] # AtRest => Carries(flow[h], requests, latest)
  /\ Live(requests) # {} => latest.id \in RequestIds
  /\ \A id, o \in Live(requests) : NeedsPath(requests[id]) => o <= id
  /\ (\A h \in Handlers : flow[h].step # "remember") /\ latest.id \in Live(requests) =>
        (\A o \in Live(requests) : o <= latest.id) /\ Matches(latest, requests[latest.id])

Answered == platform = "wechat" /\ ~overlap => Sequential

RoutingInv == RoutingTypes /\ Offered /\ Answered /\ LatestPromptIsAnswered

\* the request with the largest number is one of them
LEMMA NewestFacts ==
  ASSUME NEW S \in SUBSET RequestIds
  PROVE  /\ S = {} => Newest(S) = 0
         /\ S # {} => Newest(S) \in S /\ (\A o \in S : o <= Newest(S)) /\ Newest(S) # 0
<1>0. MaxRequest \in Nat /\ \A id \in RequestIds : id \in Nat /\ id <= MaxRequest /\ id # 0
  BY RoutingAssumption DEF RequestIds
<1>1. S = {} => Newest(S) = 0
  BY DEF Newest
<1>2. ASSUME S # {} PROVE \E id \in S : \A o \in S : o <= id
  <2> DEFINE T == {n \in Nat : \E id \in S : n = MaxRequest - id}
  <2>1. PICK s \in S : TRUE
    BY <1>2
  <2>2. MaxRequest - s \in T
    BY <1>0, <2>1
  <2>3. T \in SUBSET Nat /\ T # {}
    BY <2>2
  <2> HIDE DEF T
  <2>4. PICK n \in T : \A m \in T : ~(<<m, n>> \in OpToRel(<, Nat))
    BY <2>3, NatLessThanWellFounded, WFMin
  <2> USE DEF T
  <2>5. PICK id \in S : n = MaxRequest - id
    BY <2>4
  <2>6. ASSUME NEW o \in S PROVE o <= id
    <3>0. o \in RequestIds /\ MaxRequest - o \in Nat
      BY <1>0
    <3>1. MaxRequest - o \in T /\ n \in Nat
      BY <2>4, <3>0
    <3>2. ~(MaxRequest - o < n)
      BY <2>4, <3>0, <3>1 DEF OpToRel
    <3> QED BY <1>0, <2>5, <3>0, <3>1, <3>2
  <2> QED BY <2>6
<1>3. ASSUME S # {} PROVE Newest(S) \in S /\ (\A o \in S : o <= Newest(S))
  BY <1>2, <1>3 DEF Newest
<1> QED BY <1>0, <1>1, <1>3

LEMMA RequestFacts ==
  /\ IsRequest(Gone) /\ Gone.stage = "gone" /\ Gone.lists = <<<<>>>> /\ Gone.page = 1
  /\ Gone.draft["cwd"] = "default"
  /\ IsRequest(Empty) /\ Empty.stage = "choice" /\ Empty.lists = <<<<>>>>
  /\ IsRequest(Request("settings")) /\ Request("settings").stage = "settings"
  /\ Request("settings").lists = <<<<>>>>
  /\ IsFlow(AtRest) /\ AtRest.step = "idle" /\ AtRest.request = Gone /\ AtRest.id = 0
BY RoutingAssumption DEF IsRequest, Gone, Empty, Request, IsFlow, AtRest

\* a request with some of its fields replaced
LEMMA DraftFacts ==
  ASSUME NEW r, IsRequest(r), NEW f, NEW v
  PROVE  LET q == [r EXCEPT !.draft[f] = v] IN
         IsRequest(q) /\ SameShape(r, q) /\ (f = "cwd" => q.draft["cwd"] = v)
<1> DEFINE d == [r.draft EXCEPT ![f] = v]
           q == [r EXCEPT !.draft = d]
<1>1. DOMAIN d = Fields /\ (f = "cwd" => d["cwd"] = v)
  BY RoutingAssumption DEF IsRequest
<1> HIDE DEF d
<1>2. /\ q = [k \in {"stage", "page", "lists", "more", "draft", "field"} |-> q[k]]
      /\ q.draft = d /\ SameShape(r, q)
  BY DEF IsRequest, SameShape
<1>3. [r EXCEPT !.draft[f] = v] = q
  BY DEF d
<1> QED BY <1>1, <1>2, <1>3 DEF IsRequest

-----------------------------------------------------------------------------
(* What a message leads to.                                                 *)

\* a next task made of request r of number id
Leads(id, r, f) ==
  /\ IsFlow(f) /\ f.id = id /\ f.step \in {"send", "store", "start", "resume"}
  /\ f.request.lists \in {r.lists, <<<<>>>>}
  /\ f.request.stage = "list" => r.stage = "list" /\ f.request.page = r.page
  /\ f.step = "store" => SameShape(r, f.request)
  /\ f.step = "send" /\ f.prompt = "options" => f.request.stage = "options"

\* a page of options, clamped
OptionPrompt(id, r, field, page) ==
  Prompt(id, "options", [r EXCEPT !.field = field, !.stage = "options", !.page = page], page)

LEMMA PromptFacts ==
  ASSUME NEW id, NEW kind, NEW q, NEW page, IsRequest(q)
  PROVE  LET f == Prompt(id, kind, q, page) IN
         IsFlow(f) /\ f.step = "send" /\ f.id = id /\ f.prompt = kind /\ f.request = q /\ f.page = page
BY RequestFacts DEF Prompt, IsFlow

LEMMA StoreFacts ==
  ASSUME NEW id, NEW q, NEW next, IsRequest(q)
  PROVE  LET f == Store(id, q, next) IN
         IsFlow(f) /\ f.step = "store" /\ f.id = id /\ f.request = q
BY RequestFacts DEF Store, IsFlow

LEMMA LeadsFacts ==
  ASSUME NEW id, NEW r, IsRequest(r)
  PROVE  /\ Leads(id, r, Settings(id, r)) /\ Settings(id, r).prompt = "settings"
         /\ Leads(id, r, Start(id, r)) /\ Start(id, r).step = "start"
         /\ \A thread : Leads(id, r, Resume(id, thread)) /\ Resume(id, thread).step = "resume"
         /\ Leads(id, r, Choice(id)) /\ Choice(id).prompt = "choice" /\ Choice(id).step = "send"
<1>1. Leads(id, r, Settings(id, r)) /\ Settings(id, r).prompt = "settings"
  BY PromptFacts DEF Settings, Leads
<1>2. Leads(id, r, Start(id, r)) /\ Start(id, r).step = "start"
  BY RequestFacts DEF Start, Leads, IsFlow
<1>3. ASSUME NEW thread PROVE Leads(id, r, Resume(id, thread)) /\ Resume(id, thread).step = "resume"
  BY RequestFacts DEF Resume, Leads, IsFlow
<1>4. Leads(id, r, Choice(id)) /\ Choice(id).prompt = "choice" /\ Choice(id).step = "send"
  <2>1. /\ IsFlow(Choice(id)) /\ Choice(id).step = "send" /\ Choice(id).id = id
        /\ Choice(id).prompt = "choice" /\ Choice(id).request = Empty
    BY PromptFacts, RequestFacts DEF Choice
  <2>2. Empty.stage # "list" /\ Empty.lists = <<<<>>>>
    BY RequestFacts
  <2> QED BY <2>1, <2>2 DEF Leads
<1> QED BY <1>1, <1>2, <1>3, <1>4

LEMMA PageLeads ==
  ASSUME NEW id, NEW r, IsRequest(r), NEW page
  PROVE  /\ Leads(id, r, ListPage(id, r, page)) /\ ListPage(id, r, page).page = page
         /\ \A field : /\ Leads(id, r, OptionPrompt(id, r, field, page))
                        /\ OptionPrompt(id, r, field, page).prompt = "options"
<1>1. Leads(id, r, ListPage(id, r, page)) /\ ListPage(id, r, page).page = page
  BY PromptFacts DEF ListPage, Leads
<1>2. ASSUME NEW field
      PROVE  Leads(id, r, OptionPrompt(id, r, field, page)) /\ OptionPrompt(id, r, field, page).prompt = "options"
  <2> DEFINE q == [r EXCEPT !.field = field, !.stage = "options", !.page = page]
  <2>1. OptionPrompt(id, r, field, page) = Prompt(id, "options", q, page)
    BY DEF OptionPrompt
  <2>2. IsRequest(q) /\ q.stage = "options" /\ q.lists = r.lists
    BY DEF IsRequest
  <2> HIDE DEF q
  <2> QED BY <2>1, <2>2, PromptFacts DEF Leads
<1> QED BY <1>1, <1>2

LEMMA ValueLeads ==
  ASSUME NEW id, NEW r, IsRequest(r), NEW field, NEW value
  PROVE  /\ Leads(id, r, SetOption(id, r, field, value)) /\ SetOption(id, r, field, value).step = "store"
         /\ Leads(id, r, Store(id, Set(r, field, value), "settings"))
         /\ Store(id, Set(r, field, value), "settings").step = "store"
<1> DEFINE q == Set(r, field, value)
           f(next) == Store(id, q, next)
<1>1. IsRequest(q) /\ SameShape(r, q)
  BY DraftFacts DEF Set
<1>2. PICK next : SetOption(id, r, field, value) = f(next)
  BY DEF SetOption
<1> HIDE DEF q
<1>3. ASSUME NEW after PROVE Leads(id, r, f(after)) /\ f(after).step = "store"
  <2>1. IsFlow(f(after)) /\ f(after).step = "store" /\ f(after).id = id /\ f(after).request = q
    BY <1>1, StoreFacts
  <2> HIDE DEF f
  <2> QED BY <1>1, <2>1 DEF Leads, SameShape
<1> HIDE DEF f
<1> QED BY <1>2, <1>3 DEF q, f

\* the number was taken for what request r of number id says
PickedFrom(id, r) ==
  /\ picked'.id = id
  /\ picked'.kind = "list" => /\ picked'.number \in DOMAIN ThreadsOn(r)
                              /\ picked'.item = ThreadsOn(r)[picked'.number]
  /\ platform = "wechat" =>
       /\ picked'.kind = r.stage /\ r.stage \in {"choice", "settings", "options", "list"}
       /\ r.stage = "settings" => picked'.number \in DOMAIN Menu /\ picked'.item = Menu[picked'.number]
       /\ r.stage = "options" => /\ picked'.number \in DOMAIN WechatOptions(r)
                                 /\ picked'.item = WechatOptions(r)[picked'.number]

Rests(h, reqs) ==
  requests' = reqs /\ drawn' = drawn /\ flow' = [flow EXCEPT ![h] = AtRest] /\ picked' = Nothing
Draws(h, reqs) ==
  /\ requests' = reqs /\ drawn < MaxRequest /\ drawn' = drawn + 1 /\ picked' = Nothing
  /\ \E next : /\ flow' = [flow EXCEPT ![h] = next] /\ Leads(drawn + 1, Empty, next)
               /\ platform = "wechat" => next.step = "send" /\ next.prompt = "choice"
Continues(h, reqs, id) ==
  /\ requests' = reqs /\ drawn' = drawn
  /\ picked' = Nothing \/ PickedFrom(id, reqs[id])
  /\ \E next : /\ flow' = [flow EXCEPT ![h] = next] /\ Leads(id, reqs[id], next)
               /\ platform = "wechat" /\ Paged(reqs[id]) /\ next.step = "send" /\ next.prompt = "list" =>
                    next.page \in Nat \ {0}
Forgot(h, reqs, id) ==
  /\ requests' = [reqs EXCEPT ![id] = Gone] /\ drawn' = drawn
  /\ flow' = [flow EXCEPT ![h] = AtRest] /\ picked' = Nothing

LEMMA TextEffect ==
  ASSUME NEW h, NEW word, NEW reqs, Text(h, word, reqs)
  PROVE  Rests(h, reqs) \/ (~word.slash /\ Draws(h, reqs))
<1>1. CASE word.is = "quit"
  BY <1>1 DEF Text, Bound, Quit, Answers, Becomes, Rests
<1>2. CASE word.is # "quit" /\ word.slash
  BY <1>2 DEF Text, Menus, Answers, Becomes, Rests
<1>3. CASE word.is # "quit" /\ ~word.slash
  <2>1. StartTurn(h, reqs)
    BY <1>3 DEF Text, Bound
  <2>2. CASE Answers(h, reqs) /\ UNCHANGED <<route, drawn>>
    BY <2>2 DEF Answers, Becomes, Rests
  <2>3. CASE /\ drawn < MaxRequest /\ drawn' = drawn + 1
             /\ Becomes(h, reqs, IF route # NoThread /\ platform = "feishu"
                                 THEN ListPage(drawn + 1, Empty, 1) ELSE Choice(drawn + 1), Nothing)
    <3>1. /\ Leads(drawn + 1, Empty, ListPage(drawn + 1, Empty, 1))
          /\ Leads(drawn + 1, Empty, Choice(drawn + 1))
          /\ Choice(drawn + 1).prompt = "choice" /\ Choice(drawn + 1).step = "send"
      BY LeadsFacts, PageLeads, RequestFacts
    <3>2. Draws(h, reqs)
      BY <2>3, <3>1 DEF Becomes, Draws
    <3> QED BY <1>3, <3>2
  <2> QED BY <2>1, <2>2, <2>3 DEF StartTurn
<1> QED BY <1>1, <1>2, <1>3

-----------------------------------------------------------------------------
(* WeChat.                                                                  *)

LEMMA OptionsAreWechats ==
  ASSUME platform = "wechat", NEW r
  PROVE  OptionsOn(r) = WechatOptions(r)
BY DEF OptionsOn, Pages, Page, OptionsOf, WechatOptions

LEMMA ThreadsAreWechats ==
  platform = "wechat" => Awaiting(requests) = {id \in Live(requests) : NeedsPath(requests[id])}
BY DEF Awaiting, WaitsForPath, NeedsPath

LEMMA MenuEffect ==
  ASSUME platform = "wechat", NEW h, NEW word, NEW reqs,
         \A id \in RequestIds : IsRequest(reqs[id]), WechatMenu(h, word, reqs)
  PROVE  LET id == Newest(Live(reqs)) IN
         \/ Rests(h, reqs) \/ (~word.slash /\ Draws(h, reqs))
         \/ id \in Live(reqs) /\ (Continues(h, reqs, id) \/ Forgot(h, reqs, id))
<1> DEFINE id == Newest(Live(reqs))
           request == IF id = 0 THEN Gone ELSE reqs[id]
           stage == request.stage
<1> SUFFICES \/ Rests(h, reqs) \/ (~word.slash /\ Draws(h, reqs))
             \/ id \in Live(reqs) /\ (Continues(h, reqs, id) \/ Forgot(h, reqs, id))
  OBVIOUS
<1>0. Live(reqs) \in SUBSET RequestIds
  BY DEF Live
<1>1. /\ id # 0 => id \in Live(reqs) /\ IsRequest(request) /\ request = reqs[id]
      /\ id = 0 => stage = "gone"
  BY <1>0, NewestFacts, RequestFacts
<1>2. \/ stage = "options" /\ Sends(h, reqs, Settings(id, request))
      \/ stage \in {"options", "settings"} /\ Forgets(h, reqs, id)
      \/ stage = "options" /\ \E page : Sends(h, reqs, OptionPrompt(id, request, request.field, page))
      \/ stage = "options" /\ Menus(PicksOption(h, reqs, id, word.n))
      \/ stage = "settings" /\ Sends(h, reqs, Start(id, request))
      \/ stage = "settings" /\ Menus(PicksFromMenu(h, reqs, id, word.n))
      \/ stage = "choice" /\ Menus(PicksChoice(h, reqs, id, word.n))
      \/ stage = "list" /\ Sends(h, reqs, ListPage(id, request, request.page + 1))
      \/ stage = "list" /\ request.page > 1 /\ Sends(h, reqs, ListPage(id, request, request.page - 1))
      \/ stage = "list" /\ Menus(PicksThread(h, reqs, id, word.n))
      \/ Menus(Answers(h, reqs)) \/ Text(h, word, reqs)
  BY DEF WechatMenu, OptionsPage, OptionPrompt
<1>3. stage = request.stage
  OBVIOUS
<1> HIDE DEF id, request, stage
<1>4. ASSUME stage \in {"options", "settings", "choice", "list"}
      PROVE  id \in Live(reqs) /\ IsRequest(request) /\ request = reqs[id] /\ request.stage = stage
  BY <1>1, <1>3, <1>4
<1>5. ASSUME NEW next, Sends(h, reqs, next), stage \in {"options", "settings", "choice", "list"},
             Leads(id, request, next),
             next.step = "send" /\ next.prompt = "list" => next.page \in Nat \ {0} \/ ~Paged(request)
      PROVE  id \in Live(reqs) /\ Continues(h, reqs, id)
  BY <1>4, <1>5 DEF Sends, Menus, Becomes, Continues
<1>6. ASSUME Menus(Answers(h, reqs)) PROVE Rests(h, reqs)
  BY <1>6 DEF Menus, Answers, Becomes, Rests
<1>7. CASE stage = "options" /\ Sends(h, reqs, Settings(id, request))
  <2>1. Leads(id, request, Settings(id, request)) /\ Settings(id, request).prompt = "settings"
    BY <1>4, <1>7, LeadsFacts
  <2> QED BY <1>5, <1>7, <2>1
<1>8. CASE stage \in {"options", "settings"} /\ Forgets(h, reqs, id)
  BY <1>4, <1>8 DEF Forgets, Menus, Answers, Becomes, Forgot
<1>9. CASE stage = "options" /\ \E page : Sends(h, reqs, OptionPrompt(id, request, request.field, page))
  <2>1. PICK page : Sends(h, reqs, OptionPrompt(id, request, request.field, page))
    BY <1>9
  <2>2. /\ Leads(id, request, OptionPrompt(id, request, request.field, page))
        /\ OptionPrompt(id, request, request.field, page).prompt = "options"
    BY <1>4, <1>9, PageLeads
  <2> QED BY <1>5, <1>9, <2>1, <2>2
<1>10. CASE stage = "options" /\ Menus(PicksOption(h, reqs, id, word.n))
  <2>1. CASE word.n \in DOMAIN OptionsOn(request)
    <3> DEFINE next == SetOption(id, request, request.field, OptionsOn(request)[word.n])
               taken == Took("options", id, word.n, OptionsOn(request)[word.n])
    <3>1. requests' = reqs /\ flow' = [flow EXCEPT ![h] = next] /\ picked' = taken /\ drawn' = drawn
      BY <1>4, <1>10, <2>1 DEF PicksOption, Becomes, Menus
    <3>0. \A field, value : Leads(id, request, SetOption(id, request, field, value)) /\ SetOption(id, request, field, value).step = "store"
      BY <1>4, <1>10, ValueLeads
    <3>2. Leads(id, request, next) /\ next.step = "store"
      BY <3>0
    <3>3. OptionsOn(request) = WechatOptions(request)
      BY OptionsAreWechats
    <3>4. /\ taken.kind = "options" /\ taken.id = id /\ taken.number = word.n
          /\ taken.item = OptionsOn(request)[word.n]
      BY DEF Took
    <3> HIDE DEF next, taken
    <3>5. PickedFrom(id, request)
      BY <1>4, <1>10, <2>1, <3>1, <3>3, <3>4 DEF PickedFrom
    <3> QED BY <1>4, <1>10, <3>1, <3>2, <3>5 DEF Continues
  <2>2. CASE word.n \notin DOMAIN OptionsOn(request)
    <3>1. Menus(Answers(h, reqs))
      BY <1>4, <1>10, <2>2 DEF PicksOption, Menus
    <3> QED BY <1>6, <3>1
  <2> QED BY <2>1, <2>2
<1>11. CASE stage = "settings" /\ Sends(h, reqs, Start(id, request))
  <2>1. Leads(id, request, Start(id, request)) /\ Start(id, request).step = "start"
    BY <1>4, <1>11, LeadsFacts
  <2> QED BY <1>5, <1>11, <2>1
<1>12. CASE stage = "settings" /\ Menus(PicksFromMenu(h, reqs, id, word.n))
  <2>1. CASE word.n \in DOMAIN Menu
    <3> DEFINE taken == Took("settings", id, word.n, Menu[word.n])
               next == CASE Menu[word.n] = "create" -> Start(id, request)
                         [] Menu[word.n] = "list" -> ListPage(id, request, 1)
                         [] OTHER -> OptionsPage(id, request, Menu[word.n], 1)
    <3>1. requests' = reqs /\ flow' = [flow EXCEPT ![h] = next] /\ picked' = taken /\ drawn' = drawn
      BY <1>4, <1>12, <2>1 DEF PicksFromMenu, Becomes, Menus
    <3>2. /\ Leads(id, request, Start(id, request)) /\ Start(id, request).step = "start"
          /\ Leads(id, request, ListPage(id, request, 1)) /\ ListPage(id, request, 1).page = 1
          /\ \A page : /\ Leads(id, request, OptionPrompt(id, request, Menu[word.n], page))
                       /\ OptionPrompt(id, request, Menu[word.n], page).prompt = "options"
      BY <1>4, <1>12, LeadsFacts, PageLeads
    <3>3. Leads(id, request, next) /\ (next.step = "send" /\ next.prompt = "list" => next.page \in Nat \ {0})
      <4>1. CASE Menu[word.n] = "create"
        <5>1. next = Start(id, request)
          BY <4>1
        <5> HIDE DEF next
        <5> QED BY <3>2, <5>1
      <4>2. CASE Menu[word.n] = "list"
        <5>1. next = ListPage(id, request, 1)
          BY <4>2
        <5> HIDE DEF next
        <5> QED BY <3>2, <5>1
      <4>3. CASE Menu[word.n] \notin {"create", "list"}
        <5>1. PICK page : next = OptionPrompt(id, request, Menu[word.n], page)
          BY <4>3 DEF OptionsPage, OptionPrompt
        <5> HIDE DEF next
        <5> QED BY <3>2, <5>1
      <4> QED BY <4>1, <4>2, <4>3
    <3>4. /\ taken.kind = "settings" /\ taken.id = id /\ taken.number = word.n /\ taken.item = Menu[word.n]
      BY DEF Took
    <3> HIDE DEF next, taken
    <3>5. PickedFrom(id, request)
      BY <1>4, <1>12, <2>1, <3>1, <3>4 DEF PickedFrom
    <3> QED BY <1>4, <1>12, <3>1, <3>3, <3>5 DEF Continues
  <2>2. CASE word.n \notin DOMAIN Menu
    <3>1. Menus(Answers(h, reqs))
      BY <1>12, <2>2 DEF PicksFromMenu, Menus
    <3> QED BY <1>6, <3>1
  <2> QED BY <2>1, <2>2
<1>13. CASE stage = "choice" /\ Menus(PicksChoice(h, reqs, id, word.n))
  <2>1. ASSUME NEW item, NEW next, Menus(Becomes(h, reqs, next, Took("choice", id, word.n, item))),
               Leads(id, request, next), next.step = "send" /\ next.prompt = "list" => next.page \in Nat \ {0}
        PROVE  Continues(h, reqs, id)
    <3>1. /\ requests' = reqs /\ flow' = [flow EXCEPT ![h] = next] /\ drawn' = drawn
          /\ picked'.kind = "choice" /\ picked'.id = id
      BY <2>1 DEF Menus, Becomes, Took
    <3>2. PickedFrom(id, request)
      BY <1>4, <1>13, <3>1 DEF PickedFrom
    <3> QED BY <1>4, <1>13, <2>1, <3>1, <3>2 DEF Continues
  <2>2. CASE word.n = 1
    <3>1. Menus(Becomes(h, reqs, Settings(id, request), Took("choice", id, word.n, "new")))
      BY <1>4, <1>13, <2>2 DEF PicksChoice, Menus
    <3>2. Leads(id, request, Settings(id, request)) /\ Settings(id, request).prompt = "settings"
      BY <1>4, <1>13, LeadsFacts
    <3> QED BY <1>4, <1>13, <2>1, <3>1, <3>2
  <2>3. CASE word.n = 2
    <3>1. Menus(Becomes(h, reqs, ListPage(id, request, 1), Took("choice", id, word.n, "load")))
      BY <1>4, <1>13, <2>3 DEF PicksChoice, Menus
    <3>2. Leads(id, request, ListPage(id, request, 1)) /\ ListPage(id, request, 1).page = 1
      BY <1>4, <1>13, PageLeads
    <3> QED BY <1>4, <1>13, <2>1, <3>1, <3>2
  <2>4. CASE word.n \notin {1, 2}
    <3>1. Menus(Answers(h, reqs))
      BY <1>13, <2>4 DEF PicksChoice, Menus
    <3> QED BY <1>6, <3>1
  <2> QED BY <2>2, <2>3, <2>4
<1>14. ASSUME NEW page, stage = "list", page \in Nat \ {0} \/ ~Paged(request), Sends(h, reqs, ListPage(id, request, page))
       PROVE  id \in Live(reqs) /\ Continues(h, reqs, id)
  <2>1. Leads(id, request, ListPage(id, request, page)) /\ ListPage(id, request, page).page = page
    BY <1>4, <1>14, PageLeads
  <2> QED BY <1>5, <1>14, <2>1
<1>15. ASSUME stage = "list", Paged(request)
       PROVE  /\ request.page + 1 \in Nat \ {0}
              /\ request.page > 1 => request.page - 1 \in Nat \ {0}
  BY <1>4, <1>15 DEF Paged
<1>16. CASE stage = "list" /\ Menus(PicksThread(h, reqs, id, word.n))
  <2>1. CASE word.n \in DOMAIN ThreadsOn(request)
    <3> DEFINE next == Resume(id, ThreadsOn(request)[word.n])
               taken == Took("list", id, word.n, ThreadsOn(request)[word.n])
    <3>1. requests' = reqs /\ flow' = [flow EXCEPT ![h] = next] /\ picked' = taken /\ drawn' = drawn
      BY <1>4, <1>16, <2>1 DEF PicksThread, Becomes, Menus
    <3>0. \A thread : Leads(id, request, Resume(id, thread)) /\ Resume(id, thread).step = "resume"
      BY <1>4, <1>16, LeadsFacts
    <3>2. Leads(id, request, next) /\ next.step = "resume"
      BY <3>0
    <3>3. /\ taken.kind = "list" /\ taken.id = id /\ taken.number = word.n
          /\ taken.item = ThreadsOn(request)[word.n]
      BY DEF Took
    <3> HIDE DEF next, taken
    <3>4. PickedFrom(id, request)
      BY <1>4, <1>16, <2>1, <3>1, <3>3 DEF PickedFrom
    <3> QED BY <1>4, <1>16, <3>1, <3>2, <3>4 DEF Continues
  <2>2. CASE word.n \notin DOMAIN ThreadsOn(request)
    <3>1. Menus(Answers(h, reqs))
      BY <1>4, <1>16, <2>2 DEF PicksThread, Menus
    <3> QED BY <1>6, <3>1
  <2> QED BY <2>1, <2>2
<1>17. CASE stage = "list" /\ Sends(h, reqs, ListPage(id, request, request.page + 1))
  <2>1. request.page + 1 \in Nat \ {0} \/ ~Paged(request)
    BY <1>15, <1>17
  <2> QED BY <1>14, <1>17, <2>1
<1>18. CASE stage = "list" /\ request.page > 1 /\ Sends(h, reqs, ListPage(id, request, request.page - 1))
  <2>1. request.page - 1 \in Nat \ {0} \/ ~Paged(request)
    BY <1>15, <1>18
  <2> QED BY <1>14, <1>18, <2>1
<1>19. CASE Text(h, word, reqs)
  BY <1>19, TextEffect
<1> QED BY <1>2, <1>6, <1>7, <1>8, <1>9, <1>10, <1>11, <1>12, <1>13, <1>16, <1>17, <1>18, <1>19

-----------------------------------------------------------------------------
(* What a message does on each platform.                                    *)

\* the requests, with one of them perhaps no longer waiting for a path
Kept(reqs) ==
  /\ DOMAIN reqs = RequestIds
  /\ \A id \in RequestIds :
       /\ IsRequest(reqs[id]) /\ SameShape(requests[id], reqs[id])
       /\ NeedsPath(reqs[id]) => NeedsPath(requests[id])
       /\ requests[id] = Gone => reqs[id] = Gone

Heard(h, reqs) ==
  \/ Rests(h, reqs)
  \/ Draws(h, reqs) /\ (platform = "wechat" => \A o \in Live(reqs) : ~NeedsPath(reqs[o]))
  \/ \E id \in 1..drawn :
       /\ Continues(h, reqs, id) \/ Forgot(h, reqs, id)
       /\ platform = "wechat" => /\ id \in Live(reqs)
                                 /\ NeedsPath(requests[id]) \/ \A o \in Live(reqs) : o <= id

LEMMA LiveIsDrawn ==
  ASSUME RoutingTypes, NEW reqs, Kept(reqs)
  PROVE  Live(reqs) \subseteq 1..drawn
<1>1. ASSUME NEW id \in Live(reqs) PROVE id \in 1..drawn
  <2>1. id \in RequestIds /\ id \in Nat /\ id >= 1 /\ drawn \in Nat /\ reqs[id].stage # "gone"
    BY <1>1, RoutingAssumption DEF Live, RequestIds, RoutingTypes
  <2>2. reqs[id] # Gone /\ requests[id] # Gone
    BY <2>1, RequestFacts DEF Kept
  <2>3. ~(id > drawn)
    BY <2>1, <2>2 DEF RoutingTypes
  <2> QED BY <2>1, <2>3
<1> QED BY <1>1

LEMMA KeptFacts ==
  ASSUME RoutingTypes
  PROVE  /\ Kept(requests)
         /\ \A id \in Awaiting(requests) : Kept(WithoutPath(requests, id))
<1>1. Kept(requests)
  BY DEF Kept, RoutingTypes, SameShape
<1>2. ASSUME NEW id \in Awaiting(requests) PROVE Kept(WithoutPath(requests, id))
  <2> DEFINE r == requests[id]
             q == [r EXCEPT !.draft["cwd"] = "default"]
             reqs == WithoutPath(requests, id)
  <2>1. id \in RequestIds /\ r.stage # "gone" /\ IsRequest(r) /\ DOMAIN requests = RequestIds
    BY <1>2 DEF Awaiting, Live, RoutingTypes
  <2>2. IsRequest(q) /\ SameShape(r, q) /\ q.draft["cwd"] = "default"
    BY <2>1, DraftFacts
  <2>3. ~NeedsPath(q) /\ r # Gone
    BY <2>1, <2>2, RequestFacts DEF NeedsPath
  <2>4. reqs = [requests EXCEPT ![id] = q]
    BY DEF WithoutPath
  <2> HIDE DEF r, q, reqs
  <2>5. DOMAIN reqs = RequestIds /\ reqs[id] = q /\ \A o \in RequestIds : o # id => reqs[o] = requests[o]
    BY <2>1, <2>4
  <2>6. ASSUME NEW o \in RequestIds
        PROVE  /\ IsRequest(reqs[o]) /\ SameShape(requests[o], reqs[o])
               /\ NeedsPath(reqs[o]) => NeedsPath(requests[o])
               /\ requests[o] = Gone => reqs[o] = Gone
    <3>1. CASE o = id
      BY <2>2, <2>3, <2>5, <3>1 DEF r
    <3>2. CASE o # id
      BY <1>1, <2>5, <3>2 DEF Kept
    <3> QED BY <3>1, <3>2
  <2>7. Kept(reqs)
    BY <2>5, <2>6 DEF Kept
  <2> QED BY <2>7 DEF reqs
<1> QED BY <1>1, <1>2

LEMMA AnswersEffect ==
  ASSUME NEW h, NEW reqs, Menus(Answers(h, reqs)) \/ AnswersApproval(h, reqs)
  PROVE  Heard(h, reqs)
BY DEF Menus, Answers, AnswersApproval, Becomes, Heard, Rests

LEMMA SendsEffect ==
  ASSUME platform # "wechat", NEW h, NEW reqs, NEW id \in 1..drawn, NEW next,
         Leads(id, reqs[id], next), Sends(h, reqs, next)
  PROVE  Heard(h, reqs)
<1>1. Continues(h, reqs, id)
  BY DEF Sends, Menus, Becomes, Continues
<1> QED BY <1>1 DEF Heard

LEMMA TelegramMenuEffect ==
  ASSUME platform = "telegram", NEW h, NEW word, NEW reqs, RoutingTypes, Kept(reqs), TelegramMenu(h, word, reqs)
  PROVE  Heard(h, reqs)
<1> DEFINE options == Newest({id \in Live(reqs) : reqs[id].field # NoField})
           lists == Newest({id \in Live(reqs) : ThreadsOn(reqs[id]) # <<>>})
<1>1. \/ Text(h, word, reqs) \/ Menus(Answers(h, reqs)) \/ AnswersApproval(h, reqs)
      \/ options # 0 /\ Menus(PicksOption(h, reqs, options, word.n))
      \/ lists # 0 /\ Menus(PicksThread(h, reqs, lists, word.n))
  BY DEF TelegramMenu
<1>2. /\ {id \in Live(reqs) : reqs[id].field # NoField} \in SUBSET RequestIds
      /\ {id \in Live(reqs) : ThreadsOn(reqs[id]) # <<>>} \in SUBSET RequestIds
  BY DEF Live
<1>3. (options # 0 => options \in Live(reqs)) /\ (lists # 0 => lists \in Live(reqs))
  BY <1>2, NewestFacts
<1> HIDE DEF options, lists
<1>4. \A id \in Live(reqs) : id \in 1..drawn /\ IsRequest(reqs[id])
  BY LiveIsDrawn DEF Kept, Live
<1>5. CASE Text(h, word, reqs)
  BY <1>5, TextEffect DEF Heard
<1>6. CASE options # 0 /\ Menus(PicksOption(h, reqs, options, word.n))
  <2>1. CASE word.n \in DOMAIN OptionsOn(reqs[options])
    <3> DEFINE next == SetOption(options, reqs[options], reqs[options].field, OptionsOn(reqs[options])[word.n])
               taken == Took("options", options, word.n, OptionsOn(reqs[options])[word.n])
    <3>1. requests' = reqs /\ flow' = [flow EXCEPT ![h] = next] /\ picked' = taken /\ drawn' = drawn
      BY <1>6, <2>1 DEF PicksOption, Becomes, Menus
    <3>2. Leads(options, reqs[options], next)
      BY <1>3, <1>4, <1>6, ValueLeads
    <3>3. taken.kind = "options" /\ taken.id = options
      BY DEF Took
    <3> HIDE DEF next, taken
    <3>4. PickedFrom(options, reqs[options])
      BY <3>1, <3>3 DEF PickedFrom
    <3>5. Continues(h, reqs, options)
      BY <3>1, <3>2, <3>4 DEF Continues
    <3> QED BY <1>3, <1>4, <1>6, <3>5 DEF Heard
  <2>2. CASE word.n \notin DOMAIN OptionsOn(reqs[options])
    BY <1>6, <2>2, AnswersEffect DEF PicksOption, Menus
  <2> QED BY <2>1, <2>2
<1>7. CASE lists # 0 /\ Menus(PicksThread(h, reqs, lists, word.n))
  <2>1. CASE word.n \in DOMAIN ThreadsOn(reqs[lists])
    <3> DEFINE next == Resume(lists, ThreadsOn(reqs[lists])[word.n])
               taken == Took("list", lists, word.n, ThreadsOn(reqs[lists])[word.n])
    <3>1. requests' = reqs /\ flow' = [flow EXCEPT ![h] = next] /\ picked' = taken /\ drawn' = drawn
      BY <1>7, <2>1 DEF PicksThread, Becomes, Menus
    <3>0. \A thread : Leads(lists, reqs[lists], Resume(lists, thread))
      BY <1>3, <1>4, <1>7, LeadsFacts
    <3>2. Leads(lists, reqs[lists], next)
      BY <3>0
    <3>3. /\ taken.kind = "list" /\ taken.id = lists /\ taken.number = word.n
          /\ taken.item = ThreadsOn(reqs[lists])[word.n]
      BY DEF Took
    <3> HIDE DEF next, taken
    <3>4. PickedFrom(lists, reqs[lists])
      BY <2>1, <3>1, <3>3 DEF PickedFrom
    <3>5. Continues(h, reqs, lists)
      BY <3>1, <3>2, <3>4 DEF Continues
    <3> QED BY <1>3, <1>4, <1>7, <3>5 DEF Heard
  <2>2. CASE word.n \notin DOMAIN ThreadsOn(reqs[lists])
    <3>1. Menus(Answers(h, reqs))
      BY <1>7, <2>2 DEF PicksThread, Menus
    <3> QED BY <3>1, AnswersEffect
  <2> QED BY <2>1, <2>2
<1>8. CASE Menus(Answers(h, reqs)) \/ AnswersApproval(h, reqs)
  BY <1>8, AnswersEffect
<1> QED BY <1>1, <1>5, <1>6, <1>7, <1>8

LEMMA WechatMenuEffect ==
  ASSUME platform = "wechat", NEW h, NEW word, NEW reqs, RoutingTypes, Kept(reqs), WechatMenu(h, word, reqs),
         word.slash \/ \A o \in Live(reqs) : ~NeedsPath(reqs[o])
  PROVE  Heard(h, reqs)
<1> DEFINE id == Newest(Live(reqs))
<1>1. \/ Rests(h, reqs) \/ (~word.slash /\ Draws(h, reqs))
      \/ id \in Live(reqs) /\ (Continues(h, reqs, id) \/ Forgot(h, reqs, id))
  BY MenuEffect DEF Kept
<1>2. Live(reqs) \in SUBSET RequestIds
  BY DEF Live
<1>3. id \in Live(reqs) => \A o \in Live(reqs) : o <= id
  BY <1>2, NewestFacts
<1>4. id \in Live(reqs) => id \in 1..drawn
  BY LiveIsDrawn
<1> HIDE DEF id
<1> QED BY <1>1, <1>3, <1>4 DEF Heard

LEMMA PathEffect ==
  ASSUME platform # "feishu", NEW h, NEW word \in Words, RoutingTypes,
         NEW id \in Awaiting(requests), PathText(h, word, id)
  PROVE  \E reqs : Kept(reqs) /\ Heard(h, reqs)
<1>1. id \in 1..drawn /\ id \in Live(requests) /\ IsRequest(requests[id])
  BY KeptFacts, LiveIsDrawn DEF Awaiting, Live, Kept
<1>2. platform = "wechat" => NeedsPath(requests[id])
  BY ThreadsAreWechats
<1>3. Kept(requests) /\ Kept(WithoutPath(requests, id))
  BY KeptFacts
<1>4. ASSUME NEW value, Sends(h, requests, Store(id, Set(requests[id], "cwd", value), "settings"))
      PROVE  Heard(h, requests)
  <2> DEFINE next == Store(id, Set(requests[id], "cwd", value), "settings")
  <2>1. Leads(id, requests[id], next) /\ next.step = "store"
    BY <1>1, ValueLeads
  <2>2. requests' = requests /\ drawn' = drawn /\ picked' = Nothing /\ flow' = [flow EXCEPT ![h] = next]
    BY <1>4 DEF Sends, Menus, Becomes
  <2> HIDE DEF next
  <2>3. Continues(h, requests, id)
    BY <2>1, <2>2 DEF Continues
  <2> QED BY <1>1, <1>2, <2>3 DEF Heard
<1>w. word.slash => word.is # "path"
  BY DEF Words, Number, Word
<1>5. CASE word.is = "no"
  <2>1. Sends(h, requests, Store(id, Set(requests[id], "cwd", "default"), "settings"))
    BY <1>5 DEF PathText
  <2> QED BY <1>3, <1>4, <2>1
<1>6. CASE word.is # "no" /\ word.slash
  <2>1. CASE platform = "wechat"
    <3>1. WechatMenu(h, word, WithoutPath(requests, id))
      BY <1>6, <1>w, <2>1 DEF PathText
    <3> QED BY <1>3, <1>6, <2>1, <3>1, WechatMenuEffect
  <2>2. CASE platform = "telegram"
    <3>1. TelegramMenu(h, word, WithoutPath(requests, id))
      BY <1>6, <1>w, <2>2 DEF PathText
    <3> QED BY <1>3, <2>2, <3>1, TelegramMenuEffect
  <2> QED BY <2>1, <2>2, RoutingAssumption DEF RoutingTypes
<1>7. CASE word.is # "no" /\ ~word.slash /\ word.is = "path"
  <2>1. Sends(h, requests, Store(id, Set(requests[id], "cwd", "path"), "settings"))
    BY <1>7 DEF PathText
  <2> QED BY <1>3, <1>4, <2>1
<1>8. CASE word.is # "no" /\ ~word.slash /\ word.is # "path"
  <2>1. Menus(Answers(h, requests))
    BY <1>8 DEF PathText
  <2> QED BY <1>3, <2>1, AnswersEffect
<1> QED BY <1>5, <1>6, <1>7, <1>8

LEMMA HearEffect ==
  ASSUME NEW h, RoutingTypes, Hear(h)
  PROVE  \E reqs : Kept(reqs) /\ Heard(h, reqs)
<1>1. Kept(requests)
  BY KeptFacts
<1>2. PICK word \in Words : \/ platform = "wechat" /\ Wechat(h, word)
                            \/ platform = "telegram" /\ Telegram(h, word)
                            \/ platform = "feishu" /\ Feishu(h, word)
  BY DEF Hear
<1>3. CASE platform = "wechat" /\ Wechat(h, word)
  <2> DEFINE id == Newest(Awaiting(requests))
  <2>1. Awaiting(requests) \in SUBSET RequestIds
    BY DEF Awaiting, Live
  <2>2. (id # 0 => id \in Awaiting(requests)) /\ (id = 0 => Awaiting(requests) = {})
    BY <2>1, NewestFacts
  <2>3. CASE AnswersApproval(h, requests)
    BY <1>1, <2>3, AnswersEffect
  <2>4. CASE id # 0 /\ PathText(h, word, id)
    BY <1>3, <2>2, <2>4, PathEffect
  <2>5. CASE id = 0 /\ WechatMenu(h, word, requests)
    <3>1. \A o \in Live(requests) : ~NeedsPath(requests[o])
      BY <1>3, <2>2, <2>5, ThreadsAreWechats
    <3> QED BY <1>1, <1>3, <2>5, <3>1, WechatMenuEffect
  <2> QED BY <1>3, <2>3, <2>4, <2>5 DEF Wechat
<1>4. CASE platform = "telegram" /\ Telegram(h, word)
  <2>1. CASE \E id \in Awaiting(requests) : PathText(h, word, id)
    BY <1>4, <2>1, PathEffect
  <2>2. CASE TelegramMenu(h, word, requests)
    BY <1>1, <1>4, <2>2, TelegramMenuEffect
  <2> QED BY <1>4, <2>1, <2>2 DEF Telegram
<1>5. CASE platform = "feishu" /\ Feishu(h, word)
  <2>1. CASE AnswersApproval(h, requests) \/ Menus(Answers(h, requests))
    BY <1>1, <2>1, AnswersEffect
  <2>2. CASE Text(h, word, requests)
    <3>1. Heard(h, requests)
      BY <1>5, <2>2, TextEffect DEF Heard
    <3> QED BY <1>1, <3>1
  <2> QED BY <1>5, <2>1, <2>2 DEF Feishu
<1> QED BY <1>2, <1>3, <1>4, <1>5

\* every button of a prompt leads on from its request
LEMMA ButtonEffect ==
  ASSUME platform # "wechat", NEW h, RoutingTypes, NEW m \in shown,
         TelegramButton(h, m, requests[m.id]) \/ FeishuButton(h, m, requests[m.id])
  PROVE  Heard(h, requests)
<1> DEFINE id == m.id
           r == requests[m.id]
<1>1. id \in 1..drawn /\ id \in RequestIds /\ IsRequest(r)
  BY RoutingAssumption DEF RoutingTypes, RequestIds
<1>2. \/ Sends(h, requests, Settings(id, r)) \/ Sends(h, requests, Start(id, r)) \/ Sends(h, requests, Choice(id))
      \/ \E page : Sends(h, requests, ListPage(id, r, page))
      \/ \E field, page : Sends(h, requests, OptionPrompt(id, r, field, page))
      \/ Sends(h, requests, SetOption(id, r, "cwd", "custom"))
      \/ \E thread : Sends(h, requests, Resume(id, thread))
  <2>1. CASE TelegramButton(h, m, r)
    <3>1. CASE TelegramChooses(h, m, r)
      BY <3>1 DEF TelegramChooses
    <3>2. CASE \E field \in Fields : Sends(h, requests, OptionsPage(m.id, r, field, 1))
      BY <3>2 DEF OptionsPage, OptionPrompt
    <3>3. CASE TelegramOptionButton(h, m, r)
      BY <3>3 DEF TelegramOptionButton, OptionsPage, OptionPrompt
    <3>4. CASE TurnsPage(h, m, r)
      BY <3>4 DEF TurnsPage
    <3> QED BY <2>1, <3>1, <3>2, <3>3, <3>4 DEF TelegramButton
  <2>2. CASE FeishuButton(h, m, r)
    BY <2>2 DEF FeishuButton, FeishuChooses, FeishuSubmits, FeishuResumes, TurnsPage
  <2> QED BY <2>1, <2>2
<1> HIDE DEF id, r
<1>3. ASSUME NEW next, Leads(id, r, next), Sends(h, requests, next) PROVE Heard(h, requests)
  BY <1>1, <1>3, SendsEffect DEF r, id
<1>4. Leads(id, r, Settings(id, r)) /\ Leads(id, r, Start(id, r)) /\ Leads(id, r, Choice(id))
  BY <1>1, LeadsFacts
<1>5. \A thread : Leads(id, r, Resume(id, thread))
  BY <1>1, LeadsFacts
<1>6. \A page : Leads(id, r, ListPage(id, r, page)) /\ \A field : Leads(id, r, OptionPrompt(id, r, field, page))
  BY <1>1, PageLeads
<1>7. Leads(id, r, SetOption(id, r, "cwd", "custom"))
  BY <1>1, ValueLeads
<1>8. ASSUME NEW page, Sends(h, requests, ListPage(id, r, page)) PROVE Heard(h, requests)
  BY <1>3, <1>6, <1>8
<1>9. ASSUME NEW field, NEW page, Sends(h, requests, OptionPrompt(id, r, field, page)) PROVE Heard(h, requests)
  BY <1>3, <1>6, <1>9
<1>10. ASSUME NEW thread, Sends(h, requests, Resume(id, thread)) PROVE Heard(h, requests)
  BY <1>3, <1>5, <1>10
<1> QED BY <1>2, <1>3, <1>4, <1>7, <1>8, <1>9, <1>10

LEMMA InboundEffect ==
  ASSUME NEW h, RoutingTypes, HandleInbound(h)
  PROVE  \E reqs : Kept(reqs) /\ Heard(h, reqs)
<1>1. CASE Hear(h)
  BY <1>1, HearEffect
<1>2. CASE Press(h)
  <2>1. Kept(requests)
    BY KeptFacts
  <2>2. PICK m \in shown :
          \/ Menus(Answers(h, requests))
          \/ platform = "telegram" /\ TelegramButton(h, m, requests[m.id])
          \/ platform = "feishu" /\ FeishuButton(h, m, requests[m.id])
    BY <1>2 DEF Press
  <2> QED BY <2>1, <2>2, AnswersEffect, ButtonEffect
<1> QED BY <1>1, <1>2 DEF HandleInbound

-----------------------------------------------------------------------------
(* The steps of a handler.                                                  *)

Stepped(h, next) ==
  /\ flow' = [flow EXCEPT ![h] = next] /\ picked' = Nothing
  /\ drawn' = drawn /\ overlap' = overlap /\ platform' = platform

\* what a prompt shows, and what is remembered for it
Presents(h, message, next) ==
  /\ Stepped(h, next) /\ requests' = requests
  /\ shown' = shown \cup {message} /\ latest' = message /\ message.id = flow[h].id
  /\ flow[h].step = "send" /\ IsFlow(next)
  /\ next = AtRest \/ (next.step = "remember" /\ next.id = flow[h].id)
  /\ ListsShown(flow[h].id, next.request, shown')

\* of WeChat: the prompt says what is remembered
Agrees(message, next) ==
  next.step = "remember" /\ next.request.stage # "gone" /\ Paged(next.request) /\ Matches(message, next.request)

LEMMA MessageFacts ==
  ASSUME NEW kind, NEW id, NEW field, NEW page, NEW items
  PROVE  LET m == Message(kind, id, field, page, items) IN m.kind = kind /\ m.id = id /\ m.items = items
BY DEF Message

LEMMA ShowsFacts ==
  ASSUME RoutingTypes, NEW h \in Handlers, NEW message, NEW request, IsRequest(request),
         Shows(h, message, request),
         UNCHANGED <<platform, requests, drawn, overlap>>, flow[h].step = "send", message.id = flow[h].id,
         ListsShown(flow[h].id, request, shown')
  PROVE  \E next : Presents(h, message, next) /\ next.step = "remember" /\ next.request = request
<1> DEFINE f == flow[h]
           next == [f EXCEPT !.step = "remember", !.request = request]
<1>1. IsFlow(f)
  BY DEF RoutingTypes
<1>2. flow' = [flow EXCEPT ![h] = next] /\ picked' = Nothing
  BY DEF Shows, Finishes
<1>3. shown' = shown \cup {message} /\ latest' = message
  BY DEF Shows
<1>4. flow[h].step = "send" /\ message.id = f.id /\ flow[h].id = f.id
  OBVIOUS
<1>5. ListsShown(f.id, request, shown')
  OBVIOUS
<1> HIDE DEF f
<1>6. IsFlow(next) /\ next.step = "remember" /\ next.id = f.id /\ next.request = request
  BY <1>1 DEF IsFlow
<1> HIDE DEF next
<1> QED BY <1>2, <1>3, <1>4, <1>5, <1>6 DEF Presents, Stepped

\* a list of threads: the page that is shown is the one that is remembered
LEMMA PageFacts ==
  ASSUME NEW r, IsRequest(r), NEW page, NEW listing, NEW more
  PROVE  LET q == WithPage(r, page, listing, more) IN
         /\ IsRequest(q) /\ q.stage = "list" /\ q.page = page
         /\ \A p \in DOMAIN q.lists : q.lists[p] = listing \/ q.lists[p] = <<>>
                                        \/ (p \in DOMAIN r.lists /\ q.lists[p] = r.lists[p])
         /\ Paged(r) /\ listing \in Listings /\ page \in Nat \ {0} => Paged(q) /\ ThreadsOn(q) = listing
<1> DEFINE n == IF page > Len(r.lists) THEN page ELSE Len(r.lists)
           lists == [p \in 1..n |-> IF p = page THEN listing ELSE IF p \in DOMAIN r.lists THEN r.lists[p] ELSE <<>>]
           q == [r EXCEPT !.stage = "list", !.page = page, !.more = more, !.lists = lists]
<1>1. WithPage(r, page, listing, more) = q
  BY DEF WithPage
<1>2. \A p \in DOMAIN lists : lists[p] = listing \/ lists[p] = <<>> \/ (p \in DOMAIN r.lists /\ lists[p] = r.lists[p])
  OBVIOUS
<1>3. ASSUME Paged(r), listing \in Listings, page \in Nat \ {0}
      PROVE  lists \in Seq(Listings \cup {<<>>}) /\ page \in DOMAIN lists /\ lists[page] = listing
  <2>1. r.lists \in Seq(Listings \cup {<<>>}) /\ Len(r.lists) \in Nat /\ DOMAIN r.lists = 1..Len(r.lists)
    BY <1>3 DEF Paged
  <2>2. \A p \in DOMAIN r.lists : r.lists[p] \in Listings \cup {<<>>}
    BY <2>1
  <2>3. n \in Nat /\ page \in 1..n
    BY <1>3, <2>1
  <2> HIDE DEF n
  <2>4. \A p \in 1..n : lists[p] \in Listings \cup {<<>>}
    BY <1>3, <2>2
  <2>5. lists \in [1..n -> Listings \cup {<<>>}]
    BY <2>4
  <2>6. lists \in Seq(Listings \cup {<<>>})
    BY <2>3, <2>5
  <2> QED BY <2>3, <2>6
<1> HIDE DEF lists
<1>4. IsRequest(q) /\ q.stage = "list" /\ q.page = page /\ q.lists = lists
  BY DEF IsRequest
<1> HIDE DEF q
<1>5. Paged(r) /\ listing \in Listings /\ page \in Nat \ {0} => Paged(q) /\ ThreadsOn(q) = listing
  BY <1>3, <1>4 DEF Paged, ThreadsOn
<1> QED BY <1>1, <1>2, <1>4, <1>5

LEMMA SendEffect ==
  ASSUME RoutingTypes, NEW h \in Handlers, ListsShown(flow[h].id, flow[h].request, shown),
         SendChoice(h) \/ SendSettings(h) \/ SendOptions(h) \/ SendList(h)
  PROVE  \E message, next :
           /\ Presents(h, message, next)
           /\ platform = "wechat" /\ Carries(flow[h], requests, latest) => Agrees(message, next)
<1> DEFINE f == flow[h]
<1>1. IsFlow(f) /\ IsRequest(f.request)
  BY DEF RoutingTypes, IsFlow
<1>2. UNCHANGED <<platform, requests, drawn, overlap>> /\ f.step = "send"
  BY DEF SendChoice, SendSettings, SendOptions, SendList
<1>3. ASSUME NEW message, NEW r, IsRequest(r), r.lists = <<<<>>>> PROVE ListsShown(message.id, r, shown')
  <2>1. DOMAIN r.lists = {1} /\ r.lists[1] = <<>>
    BY <1>3
  <2> QED BY <2>1 DEF ListsShown
<1>4. ASSUME NEW message, NEW r, IsRequest(r), r.lists = <<<<>>>>, message.id = f.id,
             Shows(h, message, r), r.stage \in {"choice", "settings"}, message.kind = r.stage,
             r.stage = "settings" => message.items = Menu
      PROVE  \E next : Presents(h, message, next) /\ Agrees(message, next)
  <2>1. PICK next : Presents(h, message, next) /\ next.step = "remember" /\ next.request = r
    BY <1>2, <1>3, <1>4, ShowsFacts
  <2>2. Matches(message, r)
    BY <1>4 DEF Matches
  <2>3. Paged(r)
    BY <1>4 DEF Paged
  <2>4. Agrees(message, next)
    BY <1>4, <2>1, <2>2, <2>3 DEF Agrees
  <2> QED BY <2>1, <2>4
<1>5. ASSUME Shows(h, Message("choice", f.id, NoField, 1, <<>>), Empty)
      PROVE  \E message, next : Presents(h, message, next) /\ Agrees(message, next)
  <2> DEFINE message == Message("choice", f.id, NoField, 1, <<>>)
  <2>1. message.kind = "choice" /\ message.id = f.id
    BY MessageFacts
  <2>2. Shows(h, message, Empty)
    BY <1>5
  <2> HIDE DEF message
  <2>3. \E next : Presents(h, message, next) /\ Agrees(message, next)
    BY <1>4, <2>1, <2>2, RequestFacts
  <2> QED BY <2>3
<1>6. CASE SendChoice(h)
  <2>1. Shows(h, Message("choice", f.id, NoField, 1, <<>>), Empty)
    BY <1>6 DEF SendChoice
  <2> QED BY <1>5, <2>1
<1>7. CASE SendSettings(h)
  <2> DEFINE message == Message("settings", f.id, NoField, 1, Menu)
             r == [Request("settings") EXCEPT !.draft = f.request.draft]
  <2>1. message.kind = "settings" /\ message.id = f.id /\ message.items = Menu
    BY MessageFacts
  <2>2. ShowSettings(h, message) \/ ShowForm(h, message)
    BY <1>7 DEF SendSettings
  <2>3. CASE ShowSettings(h, message)
    <3>1. IsRequest(r) /\ r.stage = "settings" /\ r.lists = <<<<>>>>
      BY <1>1, RequestFacts DEF IsRequest
    <3>2. Shows(h, message, r)
      BY <2>3 DEF ShowSettings
    <3> HIDE DEF message, r
    <3>3. \E next : Presents(h, message, next) /\ Agrees(message, next)
      BY <1>4, <2>1, <3>1, <3>2
    <3> QED BY <3>3
  <2>4. CASE ShowForm(h, message)
    <3>1. /\ platform = "feishu" /\ Finishes(h, AtRest)
          /\ shown' = shown \cup {message} /\ latest' = message
      BY <2>4 DEF ShowForm
    <3> HIDE DEF message
    <3>2. ListsShown(f.id, AtRest.request, shown')
      BY <1>3, <2>1, RequestFacts
    <3>3. Presents(h, message, AtRest)
      BY <1>2, <2>1, <3>1, <3>2, RequestFacts DEF Presents, Stepped, Finishes
    <3> QED BY <3>1, <3>3
  <2> QED BY <2>2, <2>3, <2>4
<1>8. CASE SendOptions(h)
  <2> DEFINE r == f.request
             message == Message("options", f.id, r.field, r.page, OptionsOn(r))
  <2>1. message.kind = "options" /\ message.id = f.id /\ message.items = OptionsOn(r)
    BY MessageFacts
  <2>2. Shows(h, message, r) /\ f.prompt = "options"
    BY <1>8 DEF SendOptions
  <2>3. shown \subseteq shown'
    BY <2>2 DEF Shows
  <2> HIDE DEF message
  <2>4. ListsShown(f.id, r, shown')
    BY <2>3 DEF ListsShown
  <2>5. PICK next : Presents(h, message, next) /\ next.step = "remember" /\ next.request = r
    BY <1>1, <1>2, <2>1, <2>2, <2>4, ShowsFacts
  <2>6. ASSUME platform = "wechat", Carries(f, requests, latest) PROVE Agrees(message, next)
    <3>1. r.stage = "options" /\ Paged(r)
      BY <1>2, <2>2, <2>6 DEF Carries
    <3>2. OptionsOn(r) = WechatOptions(r)
      BY <2>6, OptionsAreWechats
    <3>3. Matches(message, r)
      BY <2>1, <3>1, <3>2 DEF Matches
    <3> QED BY <2>5, <3>1, <3>3 DEF Agrees
  <2> QED BY <2>5, <2>6
<1>9. CASE SendList(h)
  <2>1. PICK listing \in Listings, more \in BOOLEAN :
          IF platform = "wechat" THEN ShowWechatList(h, listing, more) ELSE ShowList(h, listing, more)
    BY <1>9 DEF SendList
  <2>2. f.prompt = "list"
    BY <1>9 DEF SendList
  <2>3. CASE ShowList(h, listing, more)
    <3> DEFINE r == WithPage(f.request, f.page, listing, more)
               message == Message("list", f.id, NoField, f.page, listing)
    <3>1. message.kind = "list" /\ message.id = f.id /\ message.items = listing
      BY MessageFacts
    <3>2. Shows(h, message, r)
      BY <2>3 DEF ShowList
    <3>3. shown' = shown \cup {message}
      BY <3>2 DEF Shows
    <3>4. /\ IsRequest(r) /\ r.stage = "list"
          /\ \A p \in DOMAIN r.lists : r.lists[p] = listing \/ r.lists[p] = <<>>
                \/ (p \in DOMAIN f.request.lists /\ r.lists[p] = f.request.lists[p])
      BY <1>1, PageFacts
    <3>5. Paged(f.request) /\ f.page \in Nat \ {0} => Paged(r) /\ ThreadsOn(r) = listing
      BY <1>1, PageFacts
    <3> HIDE DEF r, message
    <3>6. ListsShown(f.id, r, shown')
      BY <3>1, <3>3, <3>4 DEF ListsShown
    <3>7. PICK next : Presents(h, message, next) /\ next.step = "remember" /\ next.request = r
      BY <1>2, <3>1, <3>2, <3>4, <3>6, ShowsFacts
    <3>8. ASSUME platform = "wechat", Carries(f, requests, latest) PROVE Agrees(message, next)
      <4>1. Paged(f.request) /\ f.page \in Nat \ {0}
        BY <1>2, <2>2, <3>8 DEF Carries
      <4>2. Matches(message, r)
        BY <3>1, <3>4, <3>5, <4>1 DEF Matches
      <4> QED BY <3>4, <3>5, <3>7, <4>1, <4>2 DEF Agrees
    <3> QED BY <3>7, <3>8
  <2>4. CASE Shows(h, Message("choice", f.id, NoField, 1, <<>>), Empty)
    BY <1>5, <2>4
  <2> QED BY <2>1, <2>3, <2>4 DEF ShowWechatList
<1> QED BY <1>6, <1>7, <1>8, <1>9

-----------------------------------------------------------------------------
(* What a step of one handler has to keep.                                  *)

LEMMA TypesStep ==
  ASSUME RoutingTypes, NEW h \in Handlers, NEW next,
         flow' = [flow EXCEPT ![h] = next], platform' = platform, IsFlow(next),
         next = AtRest \/ (next.step # "idle" /\ next.id \in 1..drawn'),
         drawn' = drawn \/ (drawn' = drawn + 1 /\ drawn < MaxRequest),
         DOMAIN requests' = RequestIds,
         \A id \in RequestIds : IsRequest(requests'[id]) /\ (id > drawn => requests'[id] = Gone),
         \A m \in shown' : m \in shown \/ m.id \in 1..drawn
  PROVE  RoutingTypes'
<1>1. drawn \in Nat /\ drawn' \in 0..MaxRequest /\ 1..drawn \subseteq 1..drawn'
  BY RoutingAssumption DEF RoutingTypes
<1>2. platform' \in Platforms
  BY DEF RoutingTypes
<1>3. \A id \in RequestIds : IsRequest(requests'[id]) /\ (id > drawn' => requests'[id] = Gone)
  BY <1>1 DEF RequestIds
<1>4. DOMAIN flow' = Handlers
  BY DEF RoutingTypes
<1>5. ASSUME NEW k \in Handlers
      PROVE  /\ IsFlow(flow'[k])
             /\ flow'[k].step = "idle" => flow'[k] = AtRest
             /\ flow'[k].step # "idle" => flow'[k].id \in 1..drawn'
  <2>1. CASE k = h
    <3>1. flow'[k] = next
      BY <2>1 DEF RoutingTypes
    <3> QED BY <3>1, RequestFacts
  <2>2. CASE k # h
    <3>1. flow'[k] = flow[k]
      BY <2>2 DEF RoutingTypes
    <3> QED BY <1>1, <3>1 DEF RoutingTypes
  <2> QED BY <2>1, <2>2
<1>6. \A m \in shown' : m.id \in 1..drawn'
  BY <1>1 DEF RoutingTypes
<1> QED BY <1>1, <1>2, <1>3, <1>4, <1>5, <1>6 DEF RoutingTypes

LEMMA OfferedStep ==
  ASSUME RoutingTypes, Offered, NEW h \in Handlers, NEW next,
         flow' = [flow EXCEPT ![h] = next], shown \subseteq shown',
         ListsShown(next.id, next.request, shown'),
         \A id \in RequestIds : ListsShown(id, requests'[id], shown) \/ ListsShown(id, requests'[id], shown'),
         ThreadWasShown'
  PROVE  Offered'
<1>1. ASSUME NEW id, NEW r, ListsShown(id, r, shown) PROVE ListsShown(id, r, shown')
  BY <1>1 DEF ListsShown
<1>2. \A id \in RequestIds : ListsShown(id, requests'[id], shown')
  BY <1>1
<1>3. ASSUME NEW k \in Handlers PROVE ListsShown(flow'[k].id, flow'[k].request, shown')
  <2>1. CASE k = h
    <3>1. flow'[k] = next
      BY <2>1 DEF RoutingTypes
    <3> QED BY <3>1
  <2>2. CASE k # h
    <3>1. flow'[k] = flow[k] /\ ListsShown(flow[k].id, flow[k].request, shown)
      BY <2>2 DEF RoutingTypes, Offered
    <3> QED BY <1>1, <3>1
  <2> QED BY <2>1, <2>2
<1> QED BY <1>2, <1>3 DEF Offered

LEMMA SequentialStep ==
  ASSUME RoutingTypes, NEW h \in Handlers, NEW next,
         flow' = [flow EXCEPT ![h] = next],
         \A k \in Handlers : k # h => flow[k] = AtRest,
         \A id \in RequestIds : (requests'[id].stage = "gone" => requests'[id] = Gone) /\ Paged(requests'[id]),
         next # AtRest => Carries(next, requests', latest'),
         Live(requests') # {} => latest'.id \in RequestIds,
         \A id, o \in Live(requests') : NeedsPath(requests'[id]) => o <= id,
         next.step # "remember" /\ latest'.id \in Live(requests') =>
           (\A o \in Live(requests') : o <= latest'.id) /\ Matches(latest', requests'[latest'.id])
  PROVE  Sequential'
<1>1. \A k \in Handlers : flow'[k] = IF k = h THEN next ELSE AtRest
  BY DEF RoutingTypes
<1>2. \A k, l \in Handlers : flow'[k] # AtRest /\ flow'[l] # AtRest => k = l
  BY <1>1
<1>3. \A k \in Handlers : flow'[k] # AtRest => Carries(flow'[k], requests', latest')
  BY <1>1
<1>4. (\A k \in Handlers : flow'[k].step # "remember") => next.step # "remember"
  BY <1>1
<1> QED BY <1>2, <1>3, <1>4 DEF Sequential

LEMMA NothingFacts == Nothing.kind = "nothing"
BY DEF Nothing

\* a step that takes no number means none wrongly
LEMMA NothingTaken ==
  ASSUME picked' = Nothing
  PROVE  ThreadWasShown' /\ LatestPromptIsAnswered'
BY NothingFacts DEF ThreadWasShown, LatestPromptIsAnswered

-----------------------------------------------------------------------------
(* A message keeps the invariant.                                           *)

LEMMA EmptyListsShown ==
  ASSUME NEW id, NEW r, r.lists = <<<<>>>>, NEW messages
  PROVE  ListsShown(id, r, messages)
<1>1. DOMAIN r.lists = {1} /\ r.lists[1] = <<>>
  OBVIOUS
<1> QED BY <1>1 DEF ListsShown

LEMMA KeptLists ==
  ASSUME RoutingTypes, Offered, NEW reqs, Kept(reqs)
  PROVE  \A id \in RequestIds :
           /\ IsRequest(reqs[id]) /\ (id > drawn => reqs[id] = Gone)
           /\ ListsShown(id, reqs[id], shown)
<1>1. ASSUME NEW id \in RequestIds PROVE ListsShown(id, reqs[id], shown)
  BY DEF Kept, Offered, SameShape, ListsShown
<1> QED BY <1>1 DEF Kept, RoutingTypes

LEMMA HeardTypes ==
  ASSUME RoutingTypes, NEW h \in Handlers, NEW reqs, Kept(reqs), Heard(h, reqs),
         platform' = platform, shown' = shown
  PROVE  RoutingTypes'
<1>1. /\ DOMAIN reqs = RequestIds
      /\ \A id \in RequestIds : IsRequest(reqs[id]) /\ (id > drawn => reqs[id] = Gone)
  BY DEF Kept, RoutingTypes
<1>2. drawn \in Nat /\ \A id \in 1..drawn : id \in 1..(drawn + 1) /\ id \in RequestIds
  BY RoutingAssumption DEF RoutingTypes, RequestIds
<1>3. CASE Rests(h, reqs)
  BY <1>1, <1>3, TypesStep, RequestFacts DEF Rests
<1>4. CASE Draws(h, reqs)
  <2>1. PICK next : flow' = [flow EXCEPT ![h] = next] /\ Leads(drawn + 1, Empty, next)
    BY <1>4 DEF Draws
  <2>2. IsFlow(next) /\ next.step # "idle" /\ next.id = drawn + 1
    BY <2>1 DEF Leads
  <2>3. requests' = reqs /\ drawn < MaxRequest /\ drawn' = drawn + 1
    BY <1>4 DEF Draws
  <2>4. next.id \in 1..drawn'
    BY <1>2, <2>2, <2>3
  <2> QED BY <1>1, <2>1, <2>2, <2>3, <2>4, TypesStep
<1>5. ASSUME NEW id \in 1..drawn, Continues(h, reqs, id) PROVE RoutingTypes'
  <2>1. PICK next : flow' = [flow EXCEPT ![h] = next] /\ Leads(id, reqs[id], next)
    BY <1>5 DEF Continues
  <2>2. IsFlow(next) /\ next.step # "idle" /\ next.id = id
    BY <2>1 DEF Leads
  <2>3. requests' = reqs /\ drawn' = drawn
    BY <1>5 DEF Continues
  <2> QED BY <1>1, <2>1, <2>2, <2>3, TypesStep
<1>6. ASSUME NEW id \in 1..drawn, Forgot(h, reqs, id) PROVE RoutingTypes'
  <2>1. requests' = [reqs EXCEPT ![id] = Gone] /\ drawn' = drawn /\ flow' = [flow EXCEPT ![h] = AtRest]
    BY <1>6 DEF Forgot
  <2>2. DOMAIN requests' = RequestIds
    BY <1>1, <2>1
  <2>3. \A o \in RequestIds : IsRequest(requests'[o]) /\ (o > drawn => requests'[o] = Gone)
    BY <1>1, <2>1, RequestFacts
  <2> QED BY <2>1, <2>2, <2>3, TypesStep, RequestFacts
<1> QED BY <1>3, <1>4, <1>5, <1>6 DEF Heard

LEMMA HeardOffered ==
  ASSUME RoutingTypes, Offered, NEW h \in Handlers, NEW reqs, Kept(reqs), Heard(h, reqs),
         platform' = platform, shown' = shown
  PROVE  Offered'
<1>1. \A id \in RequestIds : ListsShown(id, reqs[id], shown)
  BY KeptLists
<1>2. DOMAIN reqs = RequestIds /\ \A id \in 1..drawn : id \in RequestIds
  BY RoutingAssumption DEF Kept, RoutingTypes, RequestIds
<1>3. \A id : ListsShown(id, Gone, shown) /\ ListsShown(id, AtRest.request, shown)
  BY EmptyListsShown, RequestFacts
<1>4. CASE Rests(h, reqs)
  <2>1. requests' = reqs /\ flow' = [flow EXCEPT ![h] = AtRest] /\ picked' = Nothing
    BY <1>4 DEF Rests
  <2> QED BY <1>1, <1>3, <2>1, OfferedStep, NothingTaken
<1>5. CASE Draws(h, reqs)
  <2>1. PICK next : flow' = [flow EXCEPT ![h] = next] /\ Leads(drawn + 1, Empty, next)
    BY <1>5 DEF Draws
  <2>2. next.request.lists = <<<<>>>>
    BY <2>1, RequestFacts DEF Leads
  <2>3. ListsShown(next.id, next.request, shown)
    BY <2>2, EmptyListsShown
  <2>4. requests' = reqs /\ picked' = Nothing
    BY <1>5 DEF Draws
  <2> QED BY <1>1, <2>1, <2>3, <2>4, OfferedStep, NothingTaken
<1>6. ASSUME NEW id \in 1..drawn, Continues(h, reqs, id) PROVE Offered'
  <2>1. PICK next : flow' = [flow EXCEPT ![h] = next] /\ Leads(id, reqs[id], next)
    BY <1>6 DEF Continues
  <2>2. next.id = id /\ next.request.lists \in {reqs[id].lists, <<<<>>>>}
    BY <2>1 DEF Leads
  <2>3. ListsShown(next.id, next.request, shown)
    <3>1. CASE next.request.lists = <<<<>>>>
      BY <3>1, EmptyListsShown
    <3>2. CASE next.request.lists = reqs[id].lists
      BY <1>1, <1>2, <2>2, <3>2 DEF ListsShown
    <3> QED BY <2>2, <3>1, <3>2
  <2>4. requests' = reqs
    BY <1>6 DEF Continues
  <2>5. ThreadWasShown'
    <3>1. CASE picked' = Nothing
      BY <3>1, NothingTaken
    <3>2. CASE PickedFrom(id, reqs[id]) /\ picked'.kind = "list"
      <4> DEFINE r == reqs[id]
      <4>1. /\ picked'.id = id /\ picked'.number \in DOMAIN ThreadsOn(r)
            /\ picked'.item = ThreadsOn(r)[picked'.number]
        BY <3>2 DEF PickedFrom
      <4>2. r.page \in DOMAIN r.lists /\ ThreadsOn(r) = r.lists[r.page]
        BY <4>1 DEF ThreadsOn
      <4>3. ThreadsOn(r) # <<>>
        BY <4>1
      <4>4. ListsShown(id, r, shown)
        BY <1>1, <1>2
      <4>5. PICK m \in shown : m.kind = "list" /\ m.id = id /\ m.items = ThreadsOn(r)
        BY <4>2, <4>3, <4>4 DEF ListsShown
      <4> HIDE DEF r
      <4> QED BY <4>1, <4>5 DEF ThreadWasShown
    <3>3. CASE picked'.kind # "list"
      BY <3>3 DEF ThreadWasShown
    <3> QED BY <1>6, <3>1, <3>2, <3>3 DEF Continues
  <2> QED BY <1>1, <2>1, <2>3, <2>4, <2>5, OfferedStep
<1>7. ASSUME NEW id \in 1..drawn, Forgot(h, reqs, id) PROVE Offered'
  <2>1. requests' = [reqs EXCEPT ![id] = Gone] /\ picked' = Nothing /\ flow' = [flow EXCEPT ![h] = AtRest]
    BY <1>7 DEF Forgot
  <2>2. \A o \in RequestIds : ListsShown(o, requests'[o], shown)
    BY <1>1, <1>2, <1>3, <2>1
  <2> QED BY <1>3, <2>1, <2>2, OfferedStep, NothingTaken
<1> QED BY <1>4, <1>5, <1>6, <1>7 DEF Heard

LEMMA ShapeFacts ==
  ASSUME NEW r, NEW q, SameShape(r, q)
  PROVE  /\ Paged(r) => Paged(q)
         /\ \A m : Matches(m, r) => Matches(m, q)
<1>1. Paged(r) => Paged(q)
  BY DEF SameShape, Paged
<1>2. WechatOptions(r) = WechatOptions(q)
  BY DEF SameShape, WechatOptions
<1>3. ThreadsOn(r) = ThreadsOn(q)
  BY DEF SameShape, ThreadsOn
<1>4. \A m : Matches(m, r) => Matches(m, q)
  BY <1>2, <1>3 DEF SameShape, Matches
<1> QED BY <1>1, <1>4

\* WeChat, at rest: the newest request is the one of the last prompt
Settled(reqs) ==
  /\ \A id \in RequestIds : (reqs[id].stage = "gone" => reqs[id] = Gone) /\ Paged(reqs[id])
  /\ Live(reqs) # {} => latest.id \in RequestIds
  /\ \A id, o \in Live(reqs) : NeedsPath(reqs[id]) => o <= id
  /\ latest.id \in Live(reqs) => (\A o \in Live(reqs) : o <= latest.id) /\ Matches(latest, reqs[latest.id])

LEMMA SettledFacts ==
  ASSUME RoutingTypes, Sequential, \A k \in Handlers : flow[k] = AtRest, NEW reqs, Kept(reqs)
  PROVE  Live(reqs) = Live(requests) /\ Settled(reqs)
<1>1. Live(reqs) = Live(requests)
  BY DEF Kept, SameShape, Live
<1>2. ASSUME NEW id \in RequestIds PROVE (reqs[id].stage = "gone" => reqs[id] = Gone) /\ Paged(reqs[id])
  <2>1. SameShape(requests[id], reqs[id]) /\ (requests[id] = Gone => reqs[id] = Gone)
    BY DEF Kept
  <2>2. (requests[id].stage = "gone" => requests[id] = Gone) /\ Paged(requests[id])
    BY DEF Sequential
  <2>3. Paged(reqs[id])
    BY <2>1, <2>2, ShapeFacts
  <2> QED BY <2>1, <2>2, <2>3 DEF SameShape
<1>3. Live(reqs) # {} => latest.id \in RequestIds
  BY <1>1 DEF Sequential
<1>4. \A id, o \in Live(reqs) : NeedsPath(reqs[id]) => o <= id
  <2>1. \A id \in Live(reqs) : id \in RequestIds
    BY DEF Live
  <2> QED BY <1>1, <2>1 DEF Sequential, Kept
<1>5. ASSUME latest.id \in Live(reqs)
      PROVE  (\A o \in Live(reqs) : o <= latest.id) /\ Matches(latest, reqs[latest.id])
  <2>1. \A k \in Handlers : flow[k].step # "remember"
    BY RequestFacts
  <2>2. (\A o \in Live(requests) : o <= latest.id) /\ Matches(latest, requests[latest.id])
    BY <1>1, <1>5, <2>1 DEF Sequential
  <2>3. SameShape(requests[latest.id], reqs[latest.id])
    BY <1>5 DEF Live, Kept
  <2> QED BY <1>1, <2>2, <2>3, ShapeFacts
<1> QED BY <1>1, <1>2, <1>3, <1>4, <1>5 DEF Settled

LEMMA SettledStep ==
  ASSUME RoutingTypes, NEW h \in Handlers, NEW next, flow' = [flow EXCEPT ![h] = next],
         \A k \in Handlers : k # h => flow[k] = AtRest, latest' = latest,
         Settled(requests'), next # AtRest => Carries(next, requests', latest')
  PROVE  Sequential'
BY SequentialStep DEF Settled

LEMMA HeardSequential ==
  ASSUME RoutingTypes, Sequential, platform = "wechat", NEW h \in Handlers,
         \A k \in Handlers : flow[k] = AtRest, NEW reqs, Kept(reqs), Heard(h, reqs),
         platform' = platform, latest' = latest
  PROVE  Sequential' /\ LatestPromptIsAnswered'
<1>1. Live(reqs) = Live(requests) /\ Settled(reqs)
  BY SettledFacts
<1>2. \A id \in Live(reqs) : id \in 1..drawn /\ id \in RequestIds /\ Paged(reqs[id])
  BY <1>1, LiveIsDrawn DEF Live, Settled
<1>3. drawn \in Nat
  BY RoutingAssumption DEF RoutingTypes
<1>4. CASE Rests(h, reqs)
  <2>1. requests' = reqs /\ flow' = [flow EXCEPT ![h] = AtRest] /\ picked' = Nothing
    BY <1>4 DEF Rests
  <2>2. Settled(requests')
    BY <1>1, <2>1
  <2>3. Sequential'
    BY <2>1, <2>2, SettledStep
  <2> QED BY <2>1, <2>3, NothingTaken
<1>5. CASE Draws(h, reqs) /\ \A o \in Live(reqs) : ~NeedsPath(reqs[o])
  <2>1. PICK next : /\ flow' = [flow EXCEPT ![h] = next] /\ Leads(drawn + 1, Empty, next)
                    /\ next.step = "send" /\ next.prompt = "choice"
    BY <1>5 DEF Draws
  <2>2. requests' = reqs /\ picked' = Nothing
    BY <1>5 DEF Draws
  <2>3. next.id = drawn + 1 /\ next.request.lists = <<<<>>>> /\ next.request.stage # "list"
    BY <2>1, RequestFacts DEF Leads
  <2>4. Paged(next.request)
    BY <2>3 DEF Paged
  <2>5. \A o \in Live(reqs) : o <= next.id
    BY <1>2, <1>3, <2>3
  <2>6. Carries(next, reqs, latest)
    BY <1>5, <2>1, <2>4, <2>5 DEF Carries
  <2>7. Settled(requests') /\ Carries(next, requests', latest')
    BY <1>1, <2>2, <2>6
  <2>8. Sequential'
    BY <2>1, <2>7, SettledStep
  <2> QED BY <2>2, <2>8, NothingTaken
<1>6. ASSUME NEW id \in Live(reqs), NeedsPath(requests[id]) \/ \A o \in Live(reqs) : o <= id
      PROVE  /\ \A o \in Live(reqs) : o <= id /\ (o # id => ~NeedsPath(reqs[o]))
             /\ latest.id \in Live(reqs) => latest.id = id
  <2>1. \A o \in Live(reqs) : o \in Nat
    BY <1>2
  <2>2. \A o \in Live(reqs) : o <= id
    BY <1>1, <1>6 DEF Sequential
  <2>3. \A o \in Live(reqs) : NeedsPath(reqs[o]) => id <= o
    BY <1>1 DEF Settled
  <2>4. latest.id \in Live(reqs) => id <= latest.id
    BY <1>1 DEF Settled
  <2> QED BY <2>1, <2>2, <2>3, <2>4
<1>7. ASSUME NEW id \in Live(reqs), NeedsPath(requests[id]) \/ \A o \in Live(reqs) : o <= id, Continues(h, reqs, id)
      PROVE  Sequential' /\ LatestPromptIsAnswered'
  <2>1. PICK next : /\ flow' = [flow EXCEPT ![h] = next] /\ Leads(id, reqs[id], next)
                    /\ Paged(reqs[id]) /\ next.step = "send" /\ next.prompt = "list" => next.page \in Nat \ {0}
    BY <1>7 DEF Continues
  <2>2. requests' = reqs /\ (picked' = Nothing \/ PickedFrom(id, reqs[id]))
    BY <1>7 DEF Continues
  <2>3. Paged(next.request)
    <3>1. /\ next.request.lists = reqs[id].lists \/ next.request.lists = <<<<>>>>
          /\ next.request.stage = "list" => reqs[id].stage = "list" /\ next.request.page = reqs[id].page
      BY <2>1 DEF Leads
    <3>2. /\ reqs[id].lists \in Seq(Listings \cup {<<>>})
          /\ reqs[id].stage = "list" => reqs[id].page \in Nat \ {0}
      BY <1>2 DEF Paged
    <3>3. <<<<>>>> \in Seq(Listings \cup {<<>>})
      OBVIOUS
    <3>4. next.request.lists \in Seq(Listings \cup {<<>>})
      BY <3>1, <3>2, <3>3
    <3> QED BY <3>1, <3>2, <3>4 DEF Paged
  <2>4. next.id = id /\ next.step # "remember"
    BY <2>1 DEF Leads
  <2>5. /\ next.step = "store" => SameShape(reqs[id], next.request)
        /\ next.step = "send" /\ next.prompt = "options" => next.request.stage = "options"
        /\ next.step = "send" /\ next.prompt = "list" => next.page \in Nat \ {0}
    BY <1>2, <2>1 DEF Leads
  <2>6. \A o \in Live(reqs) : o <= id /\ (o # id => ~NeedsPath(reqs[o]))
    BY <1>6, <1>7
  <2>7. Carries(next, reqs, latest)
    BY <2>3, <2>4, <2>5, <2>6 DEF Carries
  <2>8. Settled(requests') /\ Carries(next, requests', latest')
    BY <1>1, <2>2, <2>7
  <2>9. Sequential'
    BY <2>1, <2>8, SettledStep
  <2>10. CASE picked' = Nothing
    BY <2>9, <2>10, NothingTaken
  <2>11. CASE PickedFrom(id, reqs[id])
    <3> DEFINE r == reqs[id]
    <3>1. /\ picked'.id = id /\ picked'.kind = r.stage /\ r.stage \in {"choice", "settings", "options", "list"}
          /\ r.stage = "settings" => picked'.number \in DOMAIN Menu /\ picked'.item = Menu[picked'.number]
          /\ r.stage = "options" => /\ picked'.number \in DOMAIN WechatOptions(r)
                                    /\ picked'.item = WechatOptions(r)[picked'.number]
          /\ r.stage = "list" => /\ picked'.number \in DOMAIN ThreadsOn(r)
                                 /\ picked'.item = ThreadsOn(r)[picked'.number]
      BY <2>11 DEF PickedFrom
    <3>2. ASSUME reqs[latest.id] # Gone PROVE latest.id = id /\ Matches(latest, r)
      <4>1. latest.id \in RequestIds
        BY <1>1 DEF Settled
      <4>2. latest.id \in Live(reqs)
        BY <1>1, <3>2, <4>1 DEF Settled, Live
      <4>3. latest.id = id
        BY <1>6, <1>7, <4>2
      <4> QED BY <1>1, <4>2, <4>3 DEF Settled
    <3> HIDE DEF r
    <3> QED BY <2>2, <2>9, <3>1, <3>2 DEF LatestPromptIsAnswered, Matches
  <2> QED BY <2>2, <2>10, <2>11
<1>8. ASSUME NEW id \in Live(reqs), NeedsPath(requests[id]) \/ \A o \in Live(reqs) : o <= id, Forgot(h, reqs, id)
      PROVE  Sequential' /\ LatestPromptIsAnswered'
  <2>1. requests' = [reqs EXCEPT ![id] = Gone] /\ picked' = Nothing /\ flow' = [flow EXCEPT ![h] = AtRest]
    BY <1>8 DEF Forgot
  <2>2. DOMAIN reqs = RequestIds /\ id \in RequestIds
    BY <1>2 DEF Kept
  <2>3. Live(requests') = Live(reqs) \ {id}
    BY <2>1, <2>2, RequestFacts DEF Live
  <2>4. Paged(Gone)
    BY RequestFacts DEF Paged
  <2>5. \A o \in RequestIds : (requests'[o].stage = "gone" => requests'[o] = Gone) /\ Paged(requests'[o])
    BY <1>1, <2>1, <2>2, <2>4, RequestFacts DEF Settled
  <2>6. latest.id \notin Live(requests')
    BY <1>6, <1>8, <2>3
  <2>7. \A o \in Live(requests') : o \in Live(reqs) /\ requests'[o] = reqs[o]
    BY <2>1, <2>3
  <2>8. \A o, p \in Live(requests') : NeedsPath(requests'[o]) => p <= o
    BY <1>1, <2>7 DEF Settled
  <2>9. Live(requests') # {} => latest.id \in RequestIds
    BY <1>1, <2>7 DEF Settled
  <2>10. Settled(requests')
    BY <2>5, <2>6, <2>8, <2>9 DEF Settled
  <2>11. Sequential'
    BY <2>1, <2>10, SettledStep
  <2> QED BY <2>1, <2>11, NothingTaken
<1> QED BY <1>4, <1>5, <1>7, <1>8 DEF Heard

-----------------------------------------------------------------------------
(* Each action keeps the invariant.                                         *)

LEMMA AtWork ==
  ASSUME RoutingInv, NEW h \in Handlers, flow[h].step # "idle"
  PROVE  /\ flow[h].id \in 1..drawn /\ flow[h].id \in RequestIds /\ DOMAIN requests = RequestIds
         /\ IsFlow(flow[h]) /\ IsRequest(flow[h].request)
         /\ ListsShown(flow[h].id, flow[h].request, shown)
         /\ platform = "wechat" /\ ~overlap =>
              /\ Sequential /\ Carries(flow[h], requests, latest)
              /\ \A k \in Handlers : k # h => flow[k] = AtRest
              /\ \A k \in Handlers : k # h => flow[k].step # "remember"
<1>1. /\ flow[h].id \in 1..drawn /\ flow[h].id \in RequestIds /\ DOMAIN requests = RequestIds
      /\ IsFlow(flow[h]) /\ IsRequest(flow[h].request)
  BY RoutingAssumption DEF RoutingInv, RoutingTypes, RequestIds, IsFlow
<1>2. ListsShown(flow[h].id, flow[h].request, shown)
  BY DEF RoutingInv, Offered
<1>3. flow[h] # AtRest
  BY RequestFacts
<1>4. ASSUME platform = "wechat", ~overlap
      PROVE  /\ Sequential /\ Carries(flow[h], requests, latest)
             /\ \A k \in Handlers : k # h => flow[k] = AtRest
             /\ \A k \in Handlers : k # h => flow[k].step # "remember"
  <2>1. Sequential
    BY <1>4 DEF RoutingInv, Answered
  <2>2. \A k \in Handlers : k # h => flow[k] = AtRest
    BY <1>3, <2>1 DEF Sequential
  <2> QED BY <1>3, <2>1, <2>2, RequestFacts DEF Sequential
<1> QED BY <1>1, <1>2, <1>4

LEMMA InboundKeeps ==
  ASSUME RoutingInv, NEW h \in Handlers, HandleInbound(h)
  PROVE  RoutingInv'
<1>1. PICK reqs : Kept(reqs) /\ Heard(h, reqs)
  BY InboundEffect DEF RoutingInv
<1>2. /\ platform' = platform /\ shown' = shown /\ latest' = latest /\ flow[h] = AtRest
      /\ ~overlap' => ~overlap /\ \A k \in Handlers : flow[k] = AtRest
  BY DEF HandleInbound
<1>3. RoutingTypes' /\ Offered'
  BY <1>1, <1>2, HeardTypes, HeardOffered DEF RoutingInv
<1>4. ASSUME platform' = "wechat", ~overlap' PROVE Sequential' /\ LatestPromptIsAnswered'
  BY <1>1, <1>2, <1>4, HeardSequential DEF RoutingInv, Answered
<1>5. LatestPromptIsAnswered'
  <2>1. CASE platform' = "wechat" /\ ~overlap'
    BY <1>4, <2>1
  <2>2. CASE ~(platform' = "wechat" /\ ~overlap')
    BY <2>2 DEF LatestPromptIsAnswered
  <2> QED BY <2>1, <2>2
<1> QED BY <1>3, <1>4, <1>5 DEF RoutingInv, Answered

LEMMA SendKeeps ==
  ASSUME RoutingInv, NEW h \in Handlers, SendChoice(h) \/ SendSettings(h) \/ SendOptions(h) \/ SendList(h)
  PROVE  RoutingInv'
<1>0. flow[h].step = "send"
  BY DEF SendChoice, SendSettings, SendOptions, SendList
<1>1. /\ flow[h].id \in 1..drawn /\ flow[h].id \in RequestIds
      /\ ListsShown(flow[h].id, flow[h].request, shown)
      /\ platform = "wechat" /\ ~overlap =>
           /\ Sequential /\ Carries(flow[h], requests, latest)
           /\ \A k \in Handlers : k # h => flow[k] = AtRest
  BY <1>0, AtWork
<1>2. PICK message, next :
        /\ Presents(h, message, next)
        /\ platform = "wechat" /\ Carries(flow[h], requests, latest) => Agrees(message, next)
  BY <1>1, SendEffect DEF RoutingInv
<1>3. /\ flow' = [flow EXCEPT ![h] = next] /\ picked' = Nothing
      /\ drawn' = drawn /\ overlap' = overlap /\ platform' = platform
      /\ requests' = requests /\ shown' = shown \cup {message} /\ latest' = message /\ message.id = flow[h].id
      /\ IsFlow(next) /\ (next = AtRest \/ (next.step = "remember" /\ next.id = flow[h].id))
      /\ ListsShown(flow[h].id, next.request, shown')
  BY <1>2 DEF Presents, Stepped
<1>4. RoutingTypes'
  <2>1. next = AtRest \/ (next.step # "idle" /\ next.id \in 1..drawn')
    BY <1>1, <1>3
  <2>2. DOMAIN requests' = RequestIds
    BY <1>3 DEF RoutingInv, RoutingTypes
  <2>3. \A id \in RequestIds : IsRequest(requests'[id]) /\ (id > drawn => requests'[id] = Gone)
    BY <1>3 DEF RoutingInv, RoutingTypes
  <2>4. \A m \in shown' : m \in shown \/ m.id \in 1..drawn
    BY <1>1, <1>3
  <2> QED BY <1>3, <2>1, <2>2, <2>3, <2>4, TypesStep DEF RoutingInv
<1>5. Offered'
  <2>1. ListsShown(next.id, next.request, shown')
    BY <1>3, EmptyListsShown, RequestFacts
  <2>2. \A id \in RequestIds : ListsShown(id, requests'[id], shown)
    BY <1>3 DEF RoutingInv, Offered
  <2> QED BY <1>3, <2>1, <2>2, NothingTaken, OfferedStep DEF RoutingInv
<1>6. ASSUME platform' = "wechat", ~overlap' PROVE Sequential'
  <2>1. /\ Sequential /\ Carries(flow[h], requests, latest)
        /\ \A k \in Handlers : k # h => flow[k] = AtRest
    BY <1>1, <1>3, <1>6
  <2>2. Agrees(message, next)
    BY <1>2, <1>3, <1>6, <2>1
  <2>3. /\ next.step = "remember" /\ next.request.stage # "gone" /\ Paged(next.request)
        /\ Matches(message, next.request) /\ next.id = flow[h].id
    BY <1>3, <2>2, RequestFacts DEF Agrees
  <2>4. Carries(next, requests', latest')
    BY <1>3, <2>1, <2>3 DEF Carries
  <2>5. /\ \A id \in RequestIds : (requests'[id].stage = "gone" => requests'[id] = Gone) /\ Paged(requests'[id])
        /\ \A id, o \in Live(requests') : NeedsPath(requests'[id]) => o <= id
    BY <1>3, <2>1 DEF Sequential
  <2>6. Live(requests') # {} => latest'.id \in RequestIds
    BY <1>1, <1>3
  <2> QED BY <1>3, <2>1, <2>3, <2>4, <2>5, <2>6, SequentialStep DEF RoutingInv
<1> QED BY <1>3, <1>4, <1>5, <1>6, NothingTaken DEF RoutingInv, Answered

LEMMA StoreKeeps ==
  ASSUME RoutingInv, NEW h \in Handlers, Remember(h) \/ StoreOption(h)
  PROVE  RoutingInv'
<1> DEFINE f == flow[h]
           r == flow[h].request
           id == flow[h].id
           next == IF Remember(h) THEN AtRest
                   ELSE IF f.prompt = "settings" THEN Settings(id, r) ELSE AtRest
<1>1. f.step \in {"remember", "store"} /\ (f.step = "remember" <=> Remember(h))
  BY DEF Remember, StoreOption
<1>2. /\ id \in 1..drawn /\ id \in RequestIds /\ DOMAIN requests = RequestIds /\ IsFlow(f) /\ IsRequest(r)
      /\ ListsShown(id, r, shown)
      /\ platform = "wechat" /\ ~overlap =>
           /\ Sequential /\ Carries(f, requests, latest)
           /\ \A k \in Handlers : k # h => flow[k] = AtRest
           /\ \A k \in Handlers : k # h => flow[k].step # "remember"
  BY <1>1, AtWork
<1>3. /\ flow' = [flow EXCEPT ![h] = next] /\ picked' = Nothing
      /\ drawn' = drawn /\ overlap' = overlap /\ platform' = platform
      /\ requests' = [requests EXCEPT ![id] = r] /\ shown' = shown /\ latest' = latest
  BY DEF Remember, StoreOption, Finishes
<1>4. /\ IsFlow(next) /\ next.step # "remember" /\ (next = AtRest \/ next = Settings(id, r))
      /\ f.step = "remember" => next = AtRest
      /\ next = AtRest \/ (next.step # "idle" /\ next.id = id /\ next.request.lists \in {r.lists, <<<<>>>>})
  <2>1. IsFlow(AtRest) /\ AtRest.step # "remember"
    BY RequestFacts
  <2>2. Leads(id, r, Settings(id, r))
    BY <1>2, LeadsFacts
  <2>3. /\ IsFlow(Settings(id, r)) /\ Settings(id, r).step \notin {"remember", "idle"} /\ Settings(id, r).id = id
        /\ Settings(id, r).request.lists \in {r.lists, <<<<>>>>}
    BY <2>2 DEF Leads
  <2> QED BY <1>1, <2>1, <2>3
<1>5. requests'[id] = r /\ (\A o \in RequestIds : o # id => requests'[o] = requests[o]) /\ DOMAIN requests' = RequestIds
  BY <1>2, <1>3
<1>d. /\ f = flow[h] /\ r = f.request /\ id = f.id
      /\ next = AtRest \/ (next.request = r /\ next.prompt = "settings" /\ next.step = "send" /\ next.id = id)
  BY DEF Settings, Prompt, AtRest
<1> HIDE DEF f, r, id, next
<1>6. RoutingTypes'
  <2>1. next = AtRest \/ (next.step # "idle" /\ next.id \in 1..drawn')
    BY <1>2, <1>3, <1>4
  <2>2. drawn \in Nat
    BY RoutingAssumption DEF RoutingInv, RoutingTypes
  <2>3. \A o \in RequestIds : IsRequest(requests'[o]) /\ (o > drawn => requests'[o] = Gone)
    BY <1>2, <1>5, <2>2 DEF RoutingInv, RoutingTypes
  <2> QED BY <1>3, <1>4, <1>5, <2>1, <2>3, TypesStep DEF RoutingInv
<1>7. Offered'
  <2>1. ListsShown(next.id, next.request, shown)
    <3>1. CASE next = AtRest
      BY <3>1, EmptyListsShown, RequestFacts
    <3>2. CASE next # AtRest
      BY <1>2, <1>d, <3>2
    <3> QED BY <3>1, <3>2
  <2>2. \A o \in RequestIds : ListsShown(o, requests'[o], shown)
    BY <1>2, <1>5 DEF RoutingInv, Offered
  <2> QED BY <1>3, <2>1, <2>2, NothingTaken, OfferedStep DEF RoutingInv
<1>8. ASSUME platform' = "wechat", ~overlap' PROVE Sequential'
  <2>1. /\ Sequential /\ Carries(f, requests, latest)
        /\ \A k \in Handlers : k # h => flow[k] = AtRest
        /\ \A k \in Handlers : k # h => flow[k].step # "remember"
    BY <1>2, <1>3, <1>8
  <2>2. /\ \A o \in Live(requests) : o <= id /\ (o # id => ~NeedsPath(requests[o]))
        /\ Paged(r) /\ r.stage # "gone"
        /\ f.step = "store" => id \in Live(requests) /\ SameShape(requests[id], r)
        /\ f.step = "remember" => latest.id = id /\ Matches(latest, r)
    <3>1. f.step = "store" => id \in Live(requests) /\ SameShape(requests[id], r)
      BY <1>d, <2>1 DEF Carries
    <3>2. f.step = "remember" => r.stage # "gone" /\ latest.id = id /\ Matches(latest, r)
      BY <1>d, <2>1 DEF Carries
    <3>3. r.stage # "gone"
      BY <1>1, <3>1, <3>2 DEF SameShape, Live
    <3> QED BY <1>d, <2>1, <3>1, <3>2, <3>3 DEF Carries
  <2>3. Live(requests') = Live(requests) \cup {id}
    BY <1>2, <1>5, <2>2 DEF Live
  <2>4. \A o \in Live(requests') : o \in RequestIds /\ o <= id /\ (o # id => ~NeedsPath(requests'[o]))
    <3>1. \A o \in Live(requests') : o \in RequestIds /\ o <= id
      BY <1>2, <2>2, <2>3, RoutingAssumption DEF Live, RequestIds
    <3>2. \A o \in Live(requests') : o # id => o \in Live(requests) /\ requests'[o] = requests[o]
      BY <1>5, <2>3, <3>1
    <3> QED BY <2>2, <3>1, <3>2
  <2>5. \A o \in RequestIds : (requests'[o].stage = "gone" => requests'[o] = Gone) /\ Paged(requests'[o])
    BY <1>5, <2>1, <2>2 DEF Sequential
  <2>6. \A p, o \in Live(requests') : NeedsPath(requests'[p]) => o <= p
    BY <2>4
  <2>7. next # AtRest => Carries(next, requests', latest')
    BY <1>d, <2>2, <2>4 DEF Carries
  <2>8. Live(requests') # {} => latest'.id \in RequestIds
    BY <1>1, <1>2, <1>3, <2>1, <2>2 DEF Sequential
  <2>9. ASSUME latest'.id \in Live(requests')
        PROVE  (\A o \in Live(requests') : o <= latest'.id) /\ Matches(latest', requests'[latest'.id])
    <3>1. CASE f.step = "remember"
      BY <1>3, <1>5, <2>2, <2>4, <3>1
    <3>2. CASE f.step = "store"
      <4>1. Live(requests') = Live(requests)
        BY <2>2, <2>3, <3>2
      <4>2. \A k \in Handlers : flow[k].step # "remember"
        BY <1>d, <2>1, <3>2
      <4>3. (\A o \in Live(requests) : o <= latest.id) /\ Matches(latest, requests[latest.id])
        BY <1>3, <2>1, <2>9, <4>1, <4>2 DEF Sequential
      <4>4. SameShape(requests[latest.id], requests'[latest.id])
        BY <1>3, <1>5, <2>2, <2>9, <3>2, <4>1 DEF SameShape, Live
      <4>5. Matches(latest, requests'[latest.id])
        BY <4>3, <4>4, ShapeFacts
      <4> QED BY <1>3, <4>1, <4>3, <4>5
    <3> QED BY <1>1, <3>1, <3>2
  <2> QED BY <1>3, <2>1, <2>5, <2>6, <2>7, <2>8, <2>9, SequentialStep DEF RoutingInv
<1> QED BY <1>3, <1>6, <1>7, <1>8, NothingTaken DEF RoutingInv, Answered

LEMMA BindKeeps ==
  ASSUME RoutingInv, NEW h \in Handlers, CreateThread(h) \/ ResumeThread(h)
  PROVE  RoutingInv'
<1> DEFINE id == flow[h].id
<1>1. /\ flow[h].step \in {"start", "resume"}
      /\ flow' = [flow EXCEPT ![h] = AtRest] /\ picked' = Nothing
      /\ drawn' = drawn /\ overlap' = overlap /\ platform' = platform
      /\ requests' = [requests EXCEPT ![id] = Gone] /\ shown' = shown /\ latest' = latest
  BY DEF CreateThread, ResumeThread, BindThread, Finishes
<1>2. /\ id \in RequestIds /\ DOMAIN requests = RequestIds
      /\ platform = "wechat" /\ ~overlap =>
           /\ Sequential /\ Carries(flow[h], requests, latest)
           /\ \A k \in Handlers : k # h => flow[k] = AtRest
           /\ \A k \in Handlers : k # h => flow[k].step # "remember"
  BY <1>1, AtWork
<1>3. requests'[id] = Gone /\ (\A o \in RequestIds : o # id => requests'[o] = requests[o]) /\ DOMAIN requests' = RequestIds
  BY <1>1, <1>2
<1>4. RoutingTypes'
  <2>1. \A o \in RequestIds : IsRequest(requests'[o]) /\ (o > drawn => requests'[o] = Gone)
    BY <1>3, RequestFacts DEF RoutingInv, RoutingTypes
  <2> QED BY <1>1, <1>3, <2>1, TypesStep, RequestFacts DEF RoutingInv
<1>5. Offered'
  <2>1. ListsShown(AtRest.id, AtRest.request, shown) /\ ListsShown(id, Gone, shown)
    BY EmptyListsShown, RequestFacts
  <2>2. \A o \in RequestIds : ListsShown(o, requests'[o], shown)
    BY <1>3, <2>1 DEF RoutingInv, Offered
  <2> QED BY <1>1, <2>1, <2>2, NothingTaken, OfferedStep DEF RoutingInv
<1>6. ASSUME platform' = "wechat", ~overlap' PROVE Sequential'
  <2>1. /\ Sequential /\ Carries(flow[h], requests, latest)
        /\ \A k \in Handlers : k # h => flow[k] = AtRest
        /\ \A k \in Handlers : flow[k].step # "remember"
    BY <1>1, <1>2, <1>6
  <2>2. id \in Live(requests) /\ \A o \in Live(requests) : o <= id
    BY <1>1, <2>1 DEF Carries
  <2>3. Live(requests') = Live(requests) \ {id}
    BY <1>2, <1>3, RequestFacts DEF Live
  <2>4. latest.id \notin Live(requests')
    <3>1. ASSUME latest.id \in Live(requests), latest.id # id PROVE FALSE
      <4>1. id <= latest.id /\ latest.id <= id
        BY <2>1, <2>2, <3>1 DEF Sequential
      <4>2. latest.id \in Nat /\ id \in Nat
        BY <1>2, <3>1, RoutingAssumption DEF Live, RequestIds
      <4> HIDE DEF id
      <4> QED BY <3>1, <4>1, <4>2
    <3> QED BY <2>3, <3>1
  <2>5. \A o \in Live(requests') : o \in Live(requests) /\ requests'[o] = requests[o]
    BY <1>3, <2>3 DEF Live
  <2>6. Paged(Gone)
    BY RequestFacts DEF Paged
  <2>7. \A o \in RequestIds : (requests'[o].stage = "gone" => requests'[o] = Gone) /\ Paged(requests'[o])
    BY <1>3, <2>1, <2>6 DEF Sequential
  <2>8. \A p, o \in Live(requests') : NeedsPath(requests'[p]) => o <= p
    BY <2>1, <2>5 DEF Sequential
  <2>9. Live(requests') # {} => latest.id \in RequestIds
    BY <2>1, <2>5 DEF Sequential
  <2>10. Settled(requests')
    BY <2>4, <2>7, <2>8, <2>9 DEF Settled
  <2> QED BY <1>1, <2>1, <2>10, SettledStep DEF RoutingInv
<1> QED BY <1>1, <1>4, <1>5, <1>6, NothingTaken DEF RoutingInv, Answered

LEMMA FailKeeps ==
  ASSUME RoutingInv, NEW h \in Handlers, Fails(h)
  PROVE  RoutingInv'
<1>1. /\ flow[h].step \in {"send", "start", "resume"}
      /\ flow' = [flow EXCEPT ![h] = AtRest] /\ picked' = Nothing
      /\ UNCHANGED <<drawn, overlap, platform, requests, shown, latest>>
  BY DEF Fails, Finishes
<1>2. platform = "wechat" /\ ~overlap =>
           /\ Sequential /\ \A k \in Handlers : k # h => flow[k] = AtRest
           /\ \A k \in Handlers : k # h => flow[k].step # "remember"
  BY <1>1, AtWork
<1>3. RoutingTypes'
  <2>1. DOMAIN requests' = RequestIds /\ \A o \in RequestIds : IsRequest(requests'[o]) /\ (o > drawn => requests'[o] = Gone)
    BY <1>1 DEF RoutingInv, RoutingTypes
  <2> QED BY <1>1, <2>1, TypesStep, RequestFacts DEF RoutingInv
<1>4. Offered'
  <2>1. ListsShown(AtRest.id, AtRest.request, shown)
    BY EmptyListsShown, RequestFacts
  <2>2. \A o \in RequestIds : ListsShown(o, requests'[o], shown)
    BY <1>1 DEF RoutingInv, Offered
  <2> QED BY <1>1, <2>1, <2>2, NothingTaken, OfferedStep DEF RoutingInv
<1>5. ASSUME platform' = "wechat", ~overlap' PROVE Sequential'
  <2>1. /\ Sequential /\ \A k \in Handlers : k # h => flow[k] = AtRest
        /\ \A k \in Handlers : flow[k].step # "remember"
    BY <1>1, <1>2, <1>5
  <2>2. Settled(requests')
    BY <1>1, <2>1 DEF Sequential, Settled
  <2> QED BY <1>1, <2>1, <2>2, SettledStep DEF RoutingInv
<1> QED BY <1>1, <1>3, <1>4, <1>5, NothingTaken DEF RoutingInv, Answered

LEMMA QuietKeeps ==
  ASSUME RoutingInv, UNCHANGED <<platform, requests, drawn, flow, shown, latest, overlap>>,
         picked' = Nothing \/ picked' = picked
  PROVE  RoutingInv'
<1>1. RoutingTypes' /\ (Sequential => Sequential')
  BY DEF RoutingInv, RoutingTypes, Sequential
<1>2. ThreadWasShown' /\ LatestPromptIsAnswered'
  <2>1. CASE picked' = Nothing
    BY <2>1, NothingTaken
  <2>2. CASE picked' = picked
    BY <2>2 DEF RoutingInv, Offered, ThreadWasShown, LatestPromptIsAnswered
  <2> QED BY <2>1, <2>2
<1> QED BY <1>1, <1>2 DEF RoutingInv, Offered, Answered

LEMMA RoutingStarts == RoutingInit => RoutingInv
<1> SUFFICES ASSUME RoutingInit PROVE RoutingInv
  OBVIOUS
<1>1. /\ platform \in Platforms /\ requests = [id \in RequestIds |-> Gone] /\ drawn = 0
      /\ flow = [h \in Handlers |-> AtRest] /\ shown = {} /\ picked = Nothing
  BY DEF RoutingInit
<1>2. RoutingTypes
  BY <1>1, RequestFacts, RoutingAssumption DEF RoutingTypes
<1>3. Offered /\ LatestPromptIsAnswered
  BY <1>1, EmptyListsShown, RequestFacts, NothingFacts DEF Offered, ThreadWasShown, LatestPromptIsAnswered
<1>4. Live(requests) = {}
  BY <1>1, RequestFacts DEF Live
<1>5. Paged(Gone)
  BY RequestFacts DEF Paged
<1>6. Sequential
  BY <1>1, <1>4, <1>5, RequestFacts DEF Sequential
<1> QED BY <1>2, <1>3, <1>6 DEF RoutingInv, Answered

LEMMA RoutingKeeps == RoutingInv /\ [RoutingNext]_routingVars => RoutingInv'
<1> SUFFICES ASSUME RoutingInv, [RoutingNext]_routingVars PROVE RoutingInv'
  OBVIOUS
<1>1. ASSUME NEW h \in Handlers, HandleInbound(h) PROVE RoutingInv'
  BY <1>1, InboundKeeps
<1>2. ASSUME NEW h \in Handlers, SendChoice(h) \/ SendSettings(h) \/ SendOptions(h) \/ SendList(h) PROVE RoutingInv'
  BY <1>2, SendKeeps
<1>3. ASSUME NEW h \in Handlers, Remember(h) \/ StoreOption(h) PROVE RoutingInv'
  BY <1>3, StoreKeeps
<1>4. ASSUME NEW h \in Handlers, CreateThread(h) \/ ResumeThread(h) PROVE RoutingInv'
  BY <1>4, BindKeeps
<1>5. ASSUME NEW h \in Handlers, Fails(h) PROVE RoutingInv'
  BY <1>5, FailKeeps
<1>6. CASE ApprovalAsked
  BY <1>6, QuietKeeps DEF ApprovalAsked
<1>7. CASE UNCHANGED routingVars
  BY <1>7, QuietKeeps DEF routingVars
<1> QED BY <1>1, <1>2, <1>3, <1>4, <1>5, <1>6, <1>7 DEF RoutingNext

\* A number never binds the conversation to a thread that no list showed under
\* it, and in WeChat, as long as messages are handled one after the other, it
\* means what the last prompt says, whatever is chosen, cancelled or paged
\* through meanwhile.
THEOREM NumbersAreMeant == RoutingSpec => []NumbersMeanWhatWasShown
<1>1. RoutingInv => NumbersMeanWhatWasShown
  BY DEF RoutingInv, Offered, NumbersMeanWhatWasShown
<1> QED BY <1>1, RoutingStarts, RoutingKeeps, PTL DEF RoutingSpec
=============================================================================
