------------------------- MODULE ServerInbound_proofs -------------------------
(***************************************************************************)
(* ServerInbound implements Inbox, for any number of connections, messages *)
(* and chunks, any losses, repetitions and restarts; and what Enrollment   *)
(* takes a connection for, it is.                                          *)
(***************************************************************************)
EXTENDS ServerInbound, Enrollment, FiniteSetTheorems, TLAPS

-----------------------------------------------------------------------------
(* The inductive invariant.  On one connection message and sequence id      *)
(* differ by a constant, whatever the app-server repeats, and all that was  *)
(* handed over is covered by the cursor, noted or about to be.              *)

LastSegment(m) == IF ChunksOf[m] = 0 THEN Whole ELSE ChunksOf[m] - 1
Segments(m) == IF ChunksOf[m] = 0 THEN {Whole} ELSE 0..(ChunksOf[m] - 1)
Pieces == {p \in [msg : Messages, seq : Nat, seg : 0..Whole] : p.seg \in Segments(p.msg)}
Marks == [seq : Nat, seg : 0..Whole]

Typed ==
  /\ made \in 0..MaxMessage /\ seq \in Nat /\ buf \in Seq(Pieces)
  /\ conn \in Sessions \cup {NoEpoch}
  /\ session \in [Sessions -> {"none", "open", "closed"}]
  /\ wire \in [Sessions -> Seq(Pieces)]
  /\ cursor \in [Sessions -> Marks] /\ marking \in [Sessions -> Marks]
  /\ taken \in [Sessions -> Seq(Messages)]

Offset == made - seq + 1

Numbered(s, b) == \A i \in DOMAIN s : s[i].msg = s[i].seq + b
Covered(e, q) == ~After(q, cursor[e]) \/ ~After(q, marking[e])
End(m, b) == [seq |-> m - b, seg |-> LastSegment(m)]
Aligned(e, b) ==
  /\ Numbered(wire[e], b)
  /\ \A i \in DOMAIN taken[e] : Covered(e, End(taken[e][i], b))
  /\ conn = e => b = Offset

Untouched(e) == wire[e] = << >> /\ taken[e] = << >>

IInv ==
  /\ Typed
  /\ Numbered(buf, Offset)
  /\ conn # NoEpoch => session[conn] = "open"
  /\ \A e \in Sessions : session[e] = "none" => Untouched(e)
  /\ \A e \in Sessions : session[e] = "open" => \E b \in Int : Aligned(e, b)

LEMMA SegmentFacts ==
  ASSUME NEW m \in Messages
  PROVE  /\ Segments(m) \subseteq 0..Whole
         /\ LastSegment(m) \in Segments(m)
         /\ \A s \in Segments(m) : s <= LastSegment(m)
         /\ ChunksOf[m] \in Nat /\ Whole \in Nat
  BY InboundAssumption DEF Segments, LastSegment

LEMMA InitHolds == Init => IInv
<1> SUFFICES ASSUME Init PROVE IInv
  OBVIOUS
<1>1. Typed
  BY InboundAssumption DEF Init, Typed, Marks, Start, NoMark, Sessions, NoEpoch
<1>2. QED
  BY <1>1 DEF Init, IInv, Numbered, Untouched

\* what is produced fits both the buffer and the wire
LEMMA EnvelopeFacts ==
  ASSUME NEW m \in Messages, NEW s \in Nat
  PROVE  /\ Envelopes(m, s) \in Seq(Pieces)
         /\ \A i \in DOMAIN Envelopes(m, s) :
              Envelopes(m, s)[i].msg = m /\ Envelopes(m, s)[i].seq = s
<1>0. ChunksOf[m] \in 0..Whole /\ Whole \in Nat
  BY InboundAssumption
<1>1. CASE ChunksOf[m] = 0
  BY <1>0, <1>1 DEF Envelopes, Pieces, Segments
<1>2. CASE ChunksOf[m] # 0
  <2>1. Envelopes(m, s) = [i \in 1..ChunksOf[m] |-> [msg |-> m, seq |-> s, seg |-> i - 1]]
    BY <1>2 DEF Envelopes
  <2>2. \A i \in 1..ChunksOf[m] : [msg |-> m, seq |-> s, seg |-> i - 1] \in Pieces
    BY <1>0, <1>2 DEF Pieces, Segments
  <2>3. QED
    BY <1>0, <2>1, <2>2
<1>3. QED
  BY <1>1, <1>2

LEMMA NumberedAppended ==
  ASSUME NEW s \in Seq(Pieces), NEW t \in Seq(Pieces), NEW b \in Int,
         Numbered(s, b), Numbered(t, b)
  PROVE  s \o t \in Seq(Pieces) /\ Numbered(s \o t, b)
  BY DEF Numbered

\* reading takes the first envelope off a wire and notes a cursor at most
LEMMA ReadStep ==
  ASSUME IInv, NEW e \in Sessions, Ready(e), Drop(e),
         UNCHANGED <<made, seq, buf, conn, session>>,
         cursor' = cursor,
         marking' = marking \/ Mark(e, Head(wire[e])),
         taken' = taken \/ (/\ Head(wire[e]).seg = LastSegment(Head(wire[e]).msg)
                            /\ After(Head(wire[e]), cursor[e])
                            /\ Mark(e, Head(wire[e]))
                            /\ taken' = [taken EXCEPT ![e] = Append(@, Head(wire[e]).msg)])
  PROVE  IInv' /\ [InOrderOnce!Next]_taken
<1> DEFINE p == Head(wire[e])
<1>1. p \in Pieces /\ wire[e] \in Seq(Pieces) /\ Tail(wire[e]) \in Seq(Pieces) /\ wire[e] # << >>
  BY DEF IInv, Typed, Ready
<1>2. p.msg \in Messages /\ p.seq \in Nat /\ p.seg \in 0..Whole /\ Cursor(p) \in Marks
  BY <1>1 DEF Pieces, Cursor, Marks
<1>3. Typed'
  <2>1. wire' \in [Sessions -> Seq(Pieces)]
    BY <1>1 DEF IInv, Typed, Drop
  <2>2. marking' \in [Sessions -> Marks]
    BY <1>2 DEF IInv, Typed, Mark
  <2>3. taken' \in [Sessions -> Seq(Messages)]
    <3>1. taken \in [Sessions -> Seq(Messages)] /\ taken[e] \in Seq(Messages)
      BY DEF IInv, Typed
    <3>2. Append(taken[e], p.msg) \in Seq(Messages)
      BY <1>2, <3>1
    <3>3. QED
      BY <3>1, <3>2
  <2>4. QED
    BY <2>1, <2>2, <2>3 DEF IInv, Typed
<1>4. PICK b \in Int : Aligned(e, b)
  BY DEF IInv, Ready
<1>5. p.msg = p.seq + b
  BY <1>1, <1>4 DEF Aligned, Numbered
<1>6. marking[e] = Start /\ cursor[e] \in Marks /\ taken[e] \in Seq(Messages)
  BY DEF IInv, Typed, Ready, NoMark
<1>7. \A i \in DOMAIN taken[e] : ~After(End(taken[e][i], b), cursor[e])
  <2> SUFFICES ASSUME NEW i \in DOMAIN taken[e] PROVE ~After(End(taken[e][i], b), cursor[e])
    OBVIOUS
  <2>1. taken[e][i] \in Messages
    BY <1>6
  <2>2. LastSegment(taken[e][i]) \in 0..Whole /\ Whole \in Nat
    BY <2>1, SegmentFacts
  <2>3. Covered(e, End(taken[e][i], b))
    BY <1>4 DEF Aligned
  <2>4. taken[e][i] \in Int
    BY <2>1 DEF Messages
  <2>5. QED
    BY <1>6, <2>2, <2>3, <2>4 DEF Covered, After, End, Start, Marks
<1>8. Numbered(wire'[e], b)
  BY <1>1, <1>4 DEF Aligned, Numbered, Drop, IInv, Typed
<1>9. ASSUME taken' # taken
      PROVE  /\ \A i \in DOMAIN taken[e] : taken[e][i] < p.msg
             /\ ~After(End(p.msg, b), marking'[e])
  <2>1. p.seg = LastSegment(p.msg) /\ After(p, cursor[e]) /\ Mark(e, p)
    BY <1>9
  <2>2. p.msg \in Int /\ p.seq = p.msg - b
    BY <1>2, <1>5 DEF Messages
  <2>3. ~After(End(p.msg, b), marking'[e])
    BY <1>2, <2>1, <2>2 DEF After, End, Mark, Cursor, IInv, Typed, Marks
  <2>4. ASSUME NEW i \in DOMAIN taken[e] PROVE taken[e][i] < p.msg
    <3>0. taken[e][i] \in Messages
      BY <1>6
    <3>1. taken[e][i] \in Messages /\ taken[e][i] \in Int
      BY <3>0 DEF Messages
    <3>2. ~After(End(taken[e][i], b), cursor[e])
      BY <1>7
    <3>3. LastSegment(taken[e][i]) \in 0..Whole /\ Whole \in Nat
      BY <3>1, SegmentFacts
    <3>4. taken[e][i] - b < p.seq \/ (taken[e][i] - b = p.seq /\ LastSegment(taken[e][i]) < p.seg)
      <4> DEFINE n == taken[e][i] - b
                 l == LastSegment(taken[e][i])
                 c == cursor[e]
      <4>1. n \in Int /\ l \in Int /\ c.seq \in Int /\ c.seg \in Int /\ p.seq \in Int /\ p.seg \in Int
        BY <1>2, <1>6, <3>1, <3>3 DEF Marks
      <4>2. ~(n > c.seq \/ (n = c.seq /\ l > c.seg))
        BY <3>2 DEF After, End
      <4>3. p.seq > c.seq \/ (p.seq = c.seq /\ p.seg > c.seg)
        BY <2>1 DEF After
      <4> HIDE DEF n, l, c, p
      <4>4. n < p.seq \/ (n = p.seq /\ l < p.seg)
        BY <4>1, <4>2, <4>3
      <4>5. QED
        BY <4>4 DEF n, l
    <3>5. CASE taken[e][i] - b = p.seq
      <4>1. taken[e][i] = p.msg
        BY <2>2, <3>1, <3>5
      <4>2. QED
        BY <2>1, <3>4, <3>5, <4>1, <1>2, <3>3
    <3>6. QED
      BY <1>2, <2>2, <3>1, <3>4, <3>5
  <2>5. QED
    BY <2>3, <2>4
<1>10. Aligned(e, b)'
  <2>1. \A i \in DOMAIN taken'[e] : Covered(e, End(taken[e][i], b))'
    <3> SUFFICES ASSUME NEW i \in DOMAIN taken'[e]
                 PROVE  Covered(e, End(taken[e][i], b))'
      OBVIOUS
    <3>1. CASE i \in DOMAIN taken[e] /\ taken'[e][i] = taken[e][i]
      BY <1>7, <3>1 DEF Covered, End, After, LastSegment
    <3>2. CASE ~(i \in DOMAIN taken[e] /\ taken'[e][i] = taken[e][i])
      <4>1. taken' # taken /\ taken'[e] = Append(taken[e], p.msg)
        BY <3>2, <1>6 DEF IInv, Typed
      <4>2. taken'[e][i] = p.msg
        BY <3>2, <4>1, <1>6
      <4>3. QED
        BY <1>9, <4>1, <4>2 DEF Covered, End, After, LastSegment
    <3>3. QED
      BY <3>1, <3>2
  <2>2. QED
    BY <1>4, <1>8, <2>1 DEF Aligned, Offset, Numbered
<1>11. ASSUME NEW d \in Sessions, d # e, session[d] = "open"
       PROVE  \E c \in Int : Aligned(d, c)'
  <2>1. PICK c \in Int : Aligned(d, c)
    BY <1>11 DEF IInv
  <2>2. wire'[d] = wire[d] /\ taken'[d] = taken[d] /\ marking'[d] = marking[d]
    BY <1>11 DEF IInv, Typed, Drop, Mark
  <2>3. Aligned(d, c)'
    BY <2>1, <2>2 DEF Aligned, Numbered, Covered, Offset, End, After, LastSegment
  <2>4. QED
    BY <2>3
<1>12. IInv'
  <2>1. Numbered(buf, Offset)' /\ (conn' # NoEpoch => session'[conn'] = "open")
    BY DEF IInv, Numbered, Offset
  <2>2. \A d \in Sessions : session'[d] = "none" => Untouched(d)'
    BY DEF IInv, Untouched, Ready, Drop, Typed
  <2>3. \A d \in Sessions : session'[d] = "open" => \E c \in Int : Aligned(d, c)'
    BY <1>10, <1>11
  <2>4. QED
    BY <1>3, <2>1, <2>2, <2>3 DEF IInv
<1>13. ASSUME taken' # taken PROVE InOrderOnce!Next
  <2>1. InOrderOnce!Take(e, p.msg)
    BY <1>9, <1>13 DEF InOrderOnce!Take, InOrderOnce!Newest
  <2>2. QED
    BY <1>2, <2>1 DEF InOrderOnce!Next
<1>14. QED
  BY <1>12, <1>13

-----------------------------------------------------------------------------
(* The other steps hand nothing over.                                       *)

LEMMA Elsewhere ==
  ASSUME IInv, NEW d \in Sessions, session[d] = "open", session'[d] = "open",
         wire'[d] = wire[d], taken' = taken, marking'[d] = marking[d],
         cursor'[d] = cursor[d] \/ cursor'[d] = marking[d],
         cursor'[d] # cursor[d] => After(marking[d], cursor[d]),
         conn' = d => conn = d /\ Offset' = Offset
  PROVE  \E b \in Int : Aligned(d, b)'
<1>1. PICK b \in Int : Aligned(d, b)
  BY DEF IInv
<1>2. cursor[d] \in Marks /\ marking[d] \in Marks /\ taken[d] \in Seq(Messages)
  BY DEF IInv, Typed
<1>3. ASSUME NEW i \in DOMAIN taken[d] PROVE Covered(d, End(taken[d][i], b))'
  <2>1. taken[d][i] \in Messages
    BY <1>2
  <2>2. taken[d][i] \in Int /\ LastSegment(taken[d][i]) \in Int
    BY <2>1, SegmentFacts DEF Messages
  <2>3. Covered(d, End(taken[d][i], b))
    BY <1>1 DEF Aligned
  <2>4. End(taken[d][i], b).seq \in Int /\ End(taken[d][i], b).seg \in Int
        /\ End(taken[d][i], b)' = End(taken[d][i], b)
    BY <2>2 DEF End, LastSegment
  <2>5. QED
    BY <1>2, <2>3, <2>4 DEF Covered, After, Marks
<1>4. Aligned(d, b)'
  BY <1>1, <1>3 DEF Aligned, Numbered
<1>5. QED
  BY <1>4

LEMMA ProduceStep == IInv /\ Produce => IInv'
<1> SUFFICES ASSUME IInv, Produce PROVE IInv'
  OBVIOUS
<1> DEFINE new == Envelopes(made + 1, seq)
<1>1. made \in Nat /\ made + 1 \in Messages /\ made + 1 \in 0..MaxMessage /\ seq \in Nat
  BY InboundAssumption DEF Produce, IInv, Typed, Messages
<1>2. Offset' = Offset /\ Offset \in Int /\ made + 1 = seq + Offset
  BY <1>1 DEF Produce, Offset
<1>3. new \in Seq(Pieces) /\ Numbered(new, Offset)
  BY <1>1, <1>2, EnvelopeFacts DEF Numbered
<1>4. buf' \in Seq(Pieces) /\ Numbered(buf', Offset)
  BY <1>2, <1>3, NumberedAppended DEF Produce, IInv, Typed
<1>5. ASSUME NEW d \in Sessions, session[d] = "open"
      PROVE  wire'[d] \in Seq(Pieces) /\ \E b \in Int : Aligned(d, b)'
  <2>1. PICK b \in Int : Aligned(d, b)
    BY <1>5 DEF IInv
  <2>2. wire'[d] \in Seq(Pieces) /\ Numbered(wire'[d], b)
    <3>1. CASE conn = d
      <4>1. wire'[d] = wire[d] \o new
        BY <3>1 DEF Produce, IInv, Typed, NoEpoch, Sessions
      <4>2. QED
        BY <1>3, <2>1, <3>1, <4>1, NumberedAppended DEF Aligned, IInv, Typed
    <3>2. CASE conn # d
      BY <2>1, <3>2 DEF Produce, IInv, Typed, Aligned
    <3>3. QED
      BY <3>1, <3>2
  <2>3. \A i \in DOMAIN taken'[d] : Covered(d, End(taken[d][i], b))'
    BY <2>1 DEF Produce, Aligned, Covered, End, After, LastSegment
  <2>4. Aligned(d, b)'
    BY <1>2, <2>1, <2>2, <2>3 DEF Aligned, Produce, Numbered
  <2>5. QED
    BY <2>2, <2>4
<1>6. wire' \in [Sessions -> Seq(Pieces)]
  <2>1. CASE conn = NoEpoch
    BY <2>1 DEF Produce, IInv, Typed
  <2>2. CASE conn # NoEpoch
    <3>1. conn \in Sessions /\ session[conn] = "open"
      BY <2>2 DEF IInv, Typed
    <3>2. wire[conn] \o new \in Seq(Pieces)
      BY <1>3, <3>1 DEF IInv, Typed
    <3>3. QED
      BY <2>2, <3>1, <3>2 DEF Produce, IInv, Typed
  <2>3. QED
    BY <2>1, <2>2
<1>7. Typed'
  BY <1>1, <1>4, <1>6 DEF Produce, IInv, Typed
<1>8. \A d \in Sessions : session'[d] = "none" => Untouched(d)'
  BY DEF Produce, IInv, Typed, Untouched
<1>9. QED
  BY <1>2, <1>4, <1>5, <1>7, <1>8 DEF IInv, Produce, Numbered

LEMMA ConnectStep ==
  ASSUME IInv, NEW restarted \in BOOLEAN, Connect(restarted)
  PROVE  IInv'
<1>1. PICK e \in Sessions :
        /\ session[e] = "none" /\ conn' = e
        /\ session' = [session EXCEPT ![e] = "open"]
        /\ buf' = IF restarted THEN << >> ELSE buf
        /\ wire' = [wire EXCEPT ![e] = buf']
  BY DEF Connect
<1>2. seq' = (IF restarted THEN 1 ELSE seq) /\ conn = NoEpoch /\ made' = made
      /\ UNCHANGED <<marking, cursor, taken>>
  BY DEF Connect
<1>3. buf' \in Seq(Pieces) /\ Numbered(buf, Offset)'
  BY <1>1, <1>2 DEF IInv, Typed, Numbered, Offset
<1>4. Typed'
  BY <1>1, <1>2, <1>3 DEF IInv, Typed
<1>5. Aligned(e, Offset)' /\ Offset' \in Int
  <2>1. taken'[e] = << >> /\ wire'[e] = buf'
    BY <1>1, <1>2 DEF IInv, Typed, Untouched
  <2>2. QED
    BY <1>1, <1>3, <1>4, <2>1 DEF Aligned, Numbered, Typed, Offset
<1>6. ASSUME NEW d \in Sessions, d # e, session'[d] = "open"
      PROVE  \E b \in Int : Aligned(d, b)'
  BY <1>1, <1>2, <1>6, Elsewhere DEF IInv, Typed, NoEpoch, Sessions
<1>7. \A d \in Sessions : session'[d] = "none" => Untouched(d)'
  BY <1>1, <1>2 DEF IInv, Typed, Untouched
<1>8. \A d \in Sessions : session'[d] = "open" => \E b \in Int : Aligned(d, b)'
  BY <1>5, <1>6
<1>9. session'[conn'] = "open"
  BY <1>1 DEF IInv, Typed
<1>10. QED
  BY <1>3, <1>4, <1>7, <1>8, <1>9 DEF IInv

LEMMA ResendStep == IInv /\ Resend => IInv'
<1> SUFFICES ASSUME IInv, Resend PROVE IInv'
  OBVIOUS
<1>1. conn \in Sessions /\ session[conn] = "open" /\ Offset' = Offset
      /\ wire' = [wire EXCEPT ![conn] = @ \o buf]
  BY DEF Resend, IInv, Typed, Offset
<1>2. PICK b \in Int : Aligned(conn, b)
  BY <1>1 DEF IInv
<1>3. b = Offset
  BY <1>2 DEF Aligned
<1>4. wire'[conn] \in Seq(Pieces) /\ Numbered(wire'[conn], b)
  BY <1>1, <1>2, <1>3, NumberedAppended DEF Aligned, IInv, Typed
<1>5. Typed'
  <2>1. wire' \in [Sessions -> Seq(Pieces)]
    BY <1>1, <1>4 DEF IInv, Typed
  <2>2. QED
    BY <2>1 DEF Resend, IInv, Typed
<1>6. Aligned(conn, b)'
  <2>1. \A i \in DOMAIN taken'[conn] : Covered(conn, End(taken[conn][i], b))'
    BY <1>2 DEF Resend, Aligned, Covered, End, After, LastSegment
  <2>2. QED
    BY <1>1, <1>3, <1>4, <2>1 DEF Aligned, Resend, Numbered
<1>7. ASSUME NEW d \in Sessions, d # conn, session'[d] = "open"
      PROVE  \E c \in Int : Aligned(d, c)'
  BY <1>1, <1>7, Elsewhere DEF Resend, IInv, Typed
<1>8. \A d \in Sessions : session'[d] = "open" => \E c \in Int : Aligned(d, c)'
  BY <1>6, <1>7 DEF Resend
<1>9. \A d \in Sessions : session'[d] = "none" => Untouched(d)'
  BY <1>1 DEF Resend, IInv, Typed, Untouched
<1>10. QED
  BY <1>1, <1>5, <1>8, <1>9 DEF IInv, Resend, Numbered

LEMMA AckReceivedStep == IInv /\ AckReceived => IInv'
<1> SUFFICES ASSUME IInv, AckReceived PROVE IInv'
  OBVIOUS
<1>1. \E n \in Int : buf' = SubSeq(buf, n, Len(buf)) /\ n >= 1
  <2>1. IsFiniteSet(1..Len(buf))
    BY FS_Interval DEF IInv, Typed
  <2> DEFINE n == Cardinality({i \in DOMAIN buf : ~After(buf[i], Head(acks[conn]))})
  <2>2. n \in Nat
    BY <2>1, FS_Subset, FS_CardinalityType DEF IInv, Typed
  <2>3. buf' = SubSeq(buf, n + 1, Len(buf))
    BY DEF AckReceived
  <2> HIDE DEF n
  <2>4. n + 1 \in Int /\ n + 1 >= 1
    BY <2>2
  <2>5. QED
    BY <2>3, <2>4, Zenon
<1>2. buf' \in Seq(Pieces) /\ Numbered(buf', Offset)
  <2>1. PICK n \in Int : buf' = SubSeq(buf, n, Len(buf)) /\ n >= 1
    BY <1>1
  <2>2. buf \in Seq(Pieces)
    BY DEF IInv, Typed
  <2>3. QED
    BY <2>1, <2>2 DEF IInv, Numbered
<1>3. UNCHANGED <<made, seq, conn, wire, session, marking, cursor, taken>>
  BY DEF AckReceived
<1>4. Typed' /\ Numbered(buf, Offset)'
  BY <1>2, <1>3 DEF IInv, Typed, Numbered, Offset
<1>5. \A d \in Sessions : session'[d] = "open" => \E b \in Int : Aligned(d, b)'
  BY <1>3, Elsewhere DEF Offset
<1>6. QED
  BY <1>3, <1>4, <1>5 DEF IInv, Untouched

LEMMA LoseStep == IInv /\ Lose => IInv'
<1> SUFFICES ASSUME IInv, Lose PROVE IInv'
  OBVIOUS
<1>1. conn' = NoEpoch /\ UNCHANGED <<made, seq, buf, wire, session, marking, cursor, taken>>
  BY DEF Lose
<1>2. \A d \in Sessions : session'[d] = "open" => \E b \in Int : Aligned(d, b)'
  BY <1>1, Elsewhere DEF Offset, NoEpoch, Sessions
<1>3. QED
  BY <1>1, <1>2 DEF IInv, Untouched, Typed, Numbered, Offset

LEMMA NoteStep ==
  ASSUME IInv, NEW e \in Sessions, NoteCursor(e)
  PROVE  IInv'
<1> DEFINE later == IF After(marking[e], cursor[e]) THEN marking[e] ELSE cursor[e]
<1>1. cursor' = [cursor EXCEPT ![e] = later] /\ marking' = [marking EXCEPT ![e] = NoMark]
      /\ UNCHANGED <<made, seq, buf, conn, wire, session, taken>>
  BY DEF NoteCursor, appVars
<1>2. later \in Marks /\ NoMark \in Marks
  BY InboundAssumption DEF IInv, Typed, NoMark, Start, Marks
<1>3. Typed'
  BY <1>1, <1>2 DEF IInv, Typed
<1>4. ASSUME NEW d \in Sessions, session[d] = "open" PROVE \E b \in Int : Aligned(d, b)'
  <2>1. PICK b \in Int : Aligned(d, b)
    BY <1>4 DEF IInv
  <2>2. ASSUME NEW i \in DOMAIN taken[d] PROVE Covered(d, End(taken[d][i], b))'
    <3>1. taken[d][i] \in Messages /\ cursor[d] \in Marks /\ marking[d] \in Marks
      BY DEF IInv, Typed
    <3>2. taken[d][i] \in Int /\ LastSegment(taken[d][i]) \in Int
      BY <3>1, SegmentFacts DEF Messages
    <3>3. Covered(d, End(taken[d][i], b))
      BY <2>1 DEF Aligned
    <3>4. End(taken[d][i], b).seq \in Int /\ End(taken[d][i], b).seg \in Int
          /\ (End(taken[d][i], b)) = [seq |-> taken'[d][i] - b, seg |-> LastSegment(taken'[d][i])]
      BY <3>2, <1>1 DEF End
    <3>5. d = e => cursor'[d] = later
      BY <1>1 DEF IInv, Typed
    <3>6. d # e => cursor'[d] = cursor[d] /\ marking'[d] = marking[d]
      BY <1>1 DEF IInv, Typed
    <3>7. CASE d = e
      BY <3>1, <3>3, <3>4, <3>5, <3>7, <1>1 DEF Covered, After, Marks, End
    <3>8. CASE d # e
      BY <3>1, <3>3, <3>4, <3>6, <3>8, <1>1 DEF Covered, After, Marks, End
    <3>9. QED
      BY <3>7, <3>8
  <2>3. Aligned(d, b)'
    BY <1>1, <2>1, <2>2 DEF Aligned, Numbered, Offset
  <2>4. QED
    BY <2>3
<1>5. QED
  BY <1>1, <1>3, <1>4 DEF IInv, Untouched, Numbered, Offset

LEMMA CloseStep ==
  ASSUME IInv, NEW e \in Sessions, CloseSession(e)
  PROVE  IInv'
<1>1. session' = [session EXCEPT ![e] = "closed"] /\ conn' = (IF conn = e THEN NoEpoch ELSE conn)
      /\ wire' = [wire EXCEPT ![e] = << >>] /\ cursor' = [cursor EXCEPT ![e] = Start]
      /\ UNCHANGED <<made, seq, buf, marking, taken>>
  BY DEF CloseSession
<1>2. Start \in Marks /\ << >> \in Seq(Pieces)
  BY InboundAssumption DEF Start, Marks
<1>3. Typed'
  BY <1>1, <1>2 DEF IInv, Typed
<1>4. ASSUME NEW d \in Sessions, session'[d] = "open" PROVE \E b \in Int : Aligned(d, b)'
  <2>1. d # e /\ session[d] = "open" /\ wire'[d] = wire[d] /\ cursor'[d] = cursor[d]
    BY <1>1, <1>4 DEF IInv, Typed
  <2>2. QED
    BY <1>1, <1>4, <2>1, Elsewhere DEF Offset, NoEpoch, Sessions
<1>5. \A d \in Sessions : session'[d] = "none" => Untouched(d)'
  BY <1>1 DEF IInv, Typed, Untouched
<1>6. conn' # NoEpoch => session'[conn'] = "open"
  BY <1>1 DEF IInv, Typed
<1>7. QED
  BY <1>1, <1>3, <1>4, <1>5, <1>6 DEF IInv, Numbered, Offset

\* what the invariant speaks of stays as it is
LEMMA StillStep ==
  ASSUME IInv, UNCHANGED <<made, seq, buf, conn, session, wire, cursor, marking, taken>>
  PROVE  IInv'
<1>1. \A d \in Sessions : session'[d] = "open" => \E b \in Int : Aligned(d, b)'
  BY Elsewhere DEF Offset
<1>2. QED
  BY <1>1 DEF IInv, Typed, Untouched, Numbered, Offset

LEMMA ReaderStep ==
  ASSUME IInv, NEW e \in Sessions, Read(e)
  PROVE  IInv' /\ [InOrderOnce!Next]_taken
<1> DEFINE p == Head(wire[e])
<1>1. Ready(e) /\ Drop(e) /\ cursor' = cursor /\ UNCHANGED <<made, seq, buf, conn, session>>
  BY DEF Read, ReadStale, ReadDuplicate, ReadWhole, ReadChunk, ReadLastChunk, ReadBadChunk, appVars
<1>2. p \in Pieces
  BY <1>1 DEF Ready, IInv, Typed
<1>3. CASE ReadStale(e)
  BY <1>1, <1>3, ReadStep DEF ReadStale
<1>4. CASE ReadDuplicate(e)
  BY <1>1, <1>4, ReadStep DEF ReadDuplicate
<1>5. CASE ReadWhole(e)
  <2>1. p.seg = LastSegment(p.msg)
    <3>1. p.msg \in Messages /\ p.seg \in Segments(p.msg) /\ p.seg = Whole
      BY <1>2, <1>5 DEF ReadWhole, Pieces
    <3>2. ChunksOf[p.msg] \in 0..Whole /\ Whole \in Nat
      BY <3>1, InboundAssumption
    <3>3. QED
      BY <3>1, <3>2 DEF Segments, LastSegment
  <2>2. After(p, cursor[e]) /\ Mark(e, p) /\ taken' = [taken EXCEPT ![e] = Append(@, p.msg)]
    BY <1>5 DEF ReadWhole, Duplicate, HandOver
  <2>3. QED
    BY <1>1, <2>1, <2>2, ReadStep
<1>6. CASE ReadChunk(e)
  BY <1>1, <1>6, ReadStep DEF ReadChunk
<1>7. CASE ReadLastChunk(e)
  <2>1. p.seg = LastSegment(p.msg)
    <3>1. p.msg \in Messages /\ p.seg \in Segments(p.msg) /\ p.seg # Whole /\ p.seg = ChunksOf[p.msg] - 1
      BY <1>2, <1>7 DEF ReadLastChunk, Chunk, Final, Pieces
    <3>2. QED
      BY <3>1 DEF Segments, LastSegment
  <2>2. After(p, cursor[e]) /\ Mark(e, p) /\ taken' = [taken EXCEPT ![e] = Append(@, p.msg)]
    BY <1>7 DEF ReadLastChunk, Chunk, Duplicate, HandOver
  <2>3. QED
    BY <1>1, <2>1, <2>2, ReadStep
<1>8. CASE ReadBadChunk(e)
  BY <1>1, <1>8, ReadStep DEF ReadBadChunk
<1>9. QED
  BY <1>3, <1>4, <1>5, <1>6, <1>7, <1>8 DEF Read

LEMMA EveryStep == IInv /\ [Next]_vars => IInv' /\ [InOrderOnce!Next]_taken
<1> SUFFICES ASSUME IInv, [Next]_vars PROVE IInv' /\ [InOrderOnce!Next]_taken
  OBVIOUS
<1>1. CASE Produce
  BY <1>1, ProduceStep DEF Produce
<1>2. CASE \E restarted \in BOOLEAN : Connect(restarted)
  BY <1>2, ConnectStep DEF Connect
<1>3. CASE Resend
  BY <1>3, ResendStep DEF Resend
<1>4. CASE AckReceived
  BY <1>4, AckReceivedStep DEF AckReceived
<1>5. CASE Lose
  BY <1>5, LoseStep DEF Lose
<1>6. CASE Move
  BY <1>6, StillStep DEF Move
<1>7. ASSUME NEW e \in Sessions, Read(e) PROVE IInv' /\ [InOrderOnce!Next]_taken
  BY <1>7, ReaderStep
<1>8. ASSUME NEW e \in Sessions, NoteCursor(e) PROVE IInv' /\ taken' = taken
  BY <1>8, NoteStep DEF NoteCursor
<1>9. ASSUME NEW e \in Sessions, Work(e) PROVE IInv' /\ taken' = taken
  BY <1>9, StillStep DEF Work, appVars
<1>10. ASSUME NEW e \in Sessions, CloseSession(e) PROVE IInv' /\ taken' = taken
  BY <1>10, CloseStep DEF CloseSession
<1>11. CASE UNCHANGED vars
  BY <1>11, StillStep DEF vars
<1>12. QED
  BY <1>1, <1>2, <1>3, <1>4, <1>5, <1>6, <1>7, <1>8, <1>9, <1>10, <1>11 DEF Next

LEMMA InboundInvariant == Spec => []IInv
<1>1. Init => IInv
  BY InitHolds
<1>2. IInv /\ [Next]_vars => IInv'
  BY EveryStep
<1>3. QED
  BY <1>1, <1>2, PTL DEF Spec

(* The readers of server_envelopes.rs implement the inbox: over each        *)
(* connection messages are handed over in the order sent and once, whatever *)
(* is lost, repeated, torn or restarted.                                    *)
THEOREM InboundImplementsInbox == Spec => DeliversInOrder
<1>1. Init => InOrderOnce!Init
  BY DEF Init, InOrderOnce!Init
<1>2. IInv /\ [Next]_vars => [InOrderOnce!Next]_taken
  BY EveryStep
<1>3. QED
  BY <1>1, <1>2, InboundInvariant, PTL DEF Spec, DeliversInOrder, InOrderOnce!Spec

-----------------------------------------------------------------------------
(* What is not forgotten.  A message is owed until it is handed over or     *)
(* lost for a reason.  The current connection has the pieces of what is     *)
(* owed in its assembly or in its wire, there in order and before anything  *)
(* that comes after them; so whatever is acknowledged is assembled, and the *)
(* rest is still in the app-server's buffer.                                *)

Owed(m) == /\ m \in 1..made /\ m \notin Malformed \cup strayed \cup gone
           /\ ~Handed(m) /\ ~Torn(m)
Owing(p) == Owed(p.msg) /\ p.seq = p.msg - Offset
InHand(p) == conn # NoEpoch /\ Assembled(p)
Done(a) == a.seq < seq /\ \A p \in Pieces : Owing(p) => After(p, a) \/ InHand(p)

NumberedNow == \A m \in Messages : Owed(m) => m - Offset \in 1..(seq - 1)
BufferOrdered ==
  /\ \A i \in DOMAIN buf : buf[i].seq < seq
  /\ \A i, j \in DOMAIN buf : i < j => After(buf[j], buf[i])
BufferKept ==
  \A p \in Pieces : Owing(p) =>
    \/ p \in Range(buf)
    \/ InHand(p) /\ ChunksOf[p.msg] > 1 /\ conn \in ackedOn[p.msg]
WireKept ==
  conn # NoEpoch =>
    /\ \A i \in DOMAIN wire[conn] : wire[conn][i].seq < seq
    /\ \A p \in Pieces : Owing(p) => InHand(p) \/ p \in Range(wire[conn])
    /\ \A p \in Pieces : \A i \in DOMAIN wire[conn] :
         Owing(p) /\ After(wire[conn][i], p) =>
           InHand(p) \/ \E j \in 1..(i - 1) : wire[conn][j] = p
AcksKept ==
  conn # NoEpoch =>
    /\ \A i \in DOMAIN acks[conn] : Done(acks[conn][i])
    /\ Done(cursor[conn]) /\ Done(marking[conn])
AssemblyKept ==
  conn # NoEpoch =>
    \A s \in DOMAIN chunks[conn] :
      s + Offset \in Messages /\ chunks[conn][s] \in 1..(ChunksOf[s + Offset] - 1)
Unused ==
  /\ \A e \in Sessions : session[e] = "none" =>
       acks[e] = << >> /\ chunks[e] = << >> /\ cursor[e] = Start /\ marking[e] = Start
  /\ \A m \in Messages : \A e \in ackedOn[m] : e \in Sessions /\ session[e] # "none"
Tables ==
  /\ seq >= 1
  /\ acks \in [Sessions -> Seq(Marks)] /\ chunks = [e \in Sessions |-> chunks[e]]
  /\ DOMAIN ackedOn = Messages

Kept == /\ Tables /\ NumberedNow /\ BufferOrdered /\ BufferKept /\ WireKept /\ AcksKept
        /\ AssemblyKept /\ Unused

LEMMA KeptAtFirst == Init => Kept
<1> SUFFICES ASSUME Init PROVE Kept
  OBVIOUS
<1>1. \A m : ~Owed(m)
  BY DEF Init, Owed
<1>2. Tables /\ BufferOrdered
  BY DEF Init, Tables, BufferOrdered, Sessions, Messages
<1>3. Unused
  BY DEF Init, Unused, NoMark
<1>4. QED
  BY <1>1, <1>2, <1>3 DEF Init, Kept, NumberedNow, BufferKept, WireKept, AcksKept, AssemblyKept, Owing

LEMMA PieceFacts ==
  ASSUME IInv, Kept, NEW p \in Pieces
  PROVE  /\ p.msg \in Messages /\ p.msg \in Int /\ p.seq \in Nat /\ p.seg \in Nat
         /\ Offset \in Int /\ seq \in Nat /\ Cursor(p) \in Marks
         /\ Cursor(p).seq = p.seq /\ Cursor(p).seg = p.seg
         /\ p.seg <= LastSegment(p.msg) /\ ChunksOf[p.msg] \in Nat
         /\ Owing(p) => p.seq \in 1..(seq - 1)
<1>1. p.msg \in Messages /\ p.seq \in Nat /\ p.seg \in 0..Whole /\ p.seg \in Segments(p.msg)
  BY DEF Pieces
<1>2. Whole \in Nat /\ p.seg <= LastSegment(p.msg) /\ ChunksOf[p.msg] \in Nat
  BY <1>1, SegmentFacts
<1>3. Offset \in Int /\ seq \in Nat
  BY InboundAssumption DEF IInv, Typed, Offset
<1>4. Cursor(p) \in Marks /\ Cursor(p).seq = p.seq /\ Cursor(p).seg = p.seg
  BY <1>1 DEF Cursor, Marks
<1>5. Owing(p) => p.seq \in 1..(seq - 1)
  BY <1>1 DEF Kept, NumberedNow, Owing
<1>6. QED
  BY <1>1, <1>2, <1>3, <1>4, <1>5 DEF Messages

LEMMA HereFacts ==
  ASSUME IInv, Kept, conn # NoEpoch
  PROVE  /\ conn \in Sessions /\ session[conn] = "open"
         /\ wire[conn] \in Seq(Pieces) /\ Numbered(wire[conn], Offset)
         /\ acks[conn] \in Seq(Marks) /\ cursor[conn] \in Marks /\ marking[conn] \in Marks
<1>1. conn \in Sessions /\ session[conn] = "open"
  BY DEF IInv, Typed
<1>2. PICK b \in Int : Aligned(conn, b)
  BY <1>1 DEF IInv
<1>3. QED
  BY <1>1, <1>2 DEF IInv, Typed, Aligned, Kept, Tables

\* a piece of the process at hand is known by its numbers
LEMMA SamePiece ==
  ASSUME NEW p \in Pieces, NEW q \in Pieces, NEW b \in Int,
         p.msg = p.seq + b, q.msg = q.seq + b, p.seq = q.seq, p.seg = q.seg
  PROVE  p = q
  BY DEF Pieces

\* what was handed over, lost or torn is not owed again
LEMMA OwedNoMore ==
  ASSUME NEW m, Owed(m)', made' = made, strayed \subseteq strayed', gone \subseteq gone',
         \A e \in Sessions : Range(taken[e]) \subseteq Range(taken'[e]),
         Torn(m) => Torn(m)'
  PROVE  Owed(m)
  BY DEF Owed, Handed

LEMMA StartIsDone ==
  ASSUME IInv, Kept
  PROVE  Done(Start)
<1>1. ASSUME NEW p \in Pieces, Owing(p) PROVE After(p, Start)
  BY <1>1, PieceFacts DEF After, Start
<1>2. seq \in Nat /\ seq >= 1
  BY DEF IInv, Typed, Kept, Tables
<1>3. QED
  BY <1>1, <1>2 DEF Done, Start

-----------------------------------------------------------------------------
(* Steps that leave the current connection as it is, but for its cursor.    *)

LEMMA AsideStep ==
  ASSUME IInv, Kept, UNCHANGED <<made, seq, buf, conn, ackedOn>>,
         \A m \in Messages : Owed(m)' => Owed(m),
         conn # NoEpoch =>
           /\ wire'[conn] = wire[conn] /\ acks'[conn] = acks[conn] /\ chunks'[conn] = chunks[conn]
           /\ cursor'[conn] = cursor[conn] \/ cursor'[conn] = marking[conn]
           /\ marking'[conn] = marking[conn] \/ marking'[conn] = Start,
         Tables', Unused'
  PROVE  Kept'
<1>1. Offset' = Offset
  BY DEF Offset
<1>2. ASSUME NEW p \in Pieces, Owing(p)' PROVE Owing(p)
  BY <1>1, <1>2 DEF Owing, Pieces
<1>3. ASSUME NEW p \in Pieces, InHand(p) PROVE InHand(p)'
  BY <1>3 DEF InHand, Assembled
<1>4. ASSUME NEW a, Done(a) PROVE Done(a)'
  BY <1>2, <1>3, <1>4 DEF Done, After
<1>5. NumberedNow'
  BY <1>1 DEF Kept, NumberedNow
<1>6. BufferOrdered'
  BY DEF Kept, BufferOrdered, After
<1>7. BufferKept'
  BY <1>2, <1>3 DEF Kept, BufferKept
<1>8. WireKept'
  BY <1>2, <1>3 DEF Kept, WireKept, After
<1>9. AcksKept'
  <2> SUFFICES ASSUME conn # NoEpoch
               PROVE  /\ \A i \in DOMAIN acks[conn] : Done(acks[conn][i])'
                      /\ Done(cursor[conn])' /\ Done(marking[conn])'
    BY DEF AcksKept
  <2>1. \A i \in DOMAIN acks[conn] : Done(acks[conn][i])
    BY DEF Kept, AcksKept
  <2>2. Done(cursor[conn]) /\ Done(marking[conn]) /\ Done(Start)
    BY StartIsDone DEF Kept, AcksKept
  <2>3. QED
    BY <1>2, <1>3, <2>1, <2>2 DEF Done, After
<1>10. AssemblyKept'
  BY <1>1 DEF Kept, AssemblyKept
<1>11. QED
  BY <1>5, <1>6, <1>7, <1>8, <1>9, <1>10 DEF Kept

-----------------------------------------------------------------------------
(* The reader of the current connection: what it takes off the wire is      *)
(* handed over, lost or assembled.                                          *)

LEMMA ReadHere ==
  ASSUME IInv, Kept, conn # NoEpoch, Ready(conn), Drop(conn),
         UNCHANGED <<made, seq, buf, conn, ackedOn, cursor>>,
         NEW p, p = Head(wire[conn]),
         acks' = acks \/ Ack(conn, p),
         marking' = marking \/ Mark(conn, p),
         \A m \in Messages : Owed(m)' => Owed(m),
         \A q \in Pieces : Owing(q)' /\ InHand(q) => InHand(q)',
         Owing(p)' => InHand(p)',
         AssemblyKept', Tables', Unused'
  PROVE  Kept'
<1>1. Offset' = Offset
  BY DEF Offset
<1>2. ASSUME NEW q \in Pieces, Owing(q)' PROVE Owing(q)
  BY <1>1, <1>2 DEF Owing, Pieces
<1>3. conn \in Sessions /\ wire[conn] \in Seq(Pieces) /\ wire[conn] # << >>
      /\ Numbered(wire[conn], Offset) /\ acks[conn] \in Seq(Marks)
  BY HereFacts DEF Ready
<1>4. p \in Pieces /\ p = wire[conn][1] /\ p.msg = p.seq + Offset /\ 1 \in DOMAIN wire[conn]
  BY <1>3 DEF Numbered
<1>5. /\ wire'[conn] = Tail(wire[conn])
      /\ DOMAIN wire'[conn] = 1..(Len(wire[conn]) - 1)
      /\ \A i \in DOMAIN wire'[conn] : i + 1 \in DOMAIN wire[conn] /\ wire'[conn][i] = wire[conn][i + 1]
  BY <1>3 DEF Drop, IInv, Typed
<1>6. ASSUME NEW q \in Pieces, Owing(q)', ~After(q, p) PROVE InHand(q)'
  <2>1. CASE q = p
    BY <1>6, <2>1
  <2>2. CASE q # p
    <3>1. Owing(q) /\ q.msg = q.seq + Offset
      BY <1>2, <1>6, PieceFacts DEF Owing
    <3>2. After(p, q)
      BY <1>4, <1>6, <2>2, <3>1, SamePiece, PieceFacts DEF After
    <3>3. InHand(q)
      BY <1>4, <3>1, <3>2 DEF Kept, WireKept
    <3>4. QED
      BY <1>6, <3>3
  <2>3. QED
    BY <2>1, <2>2
<1>7. p.seq < seq
  BY <1>4 DEF Kept, WireKept
<1>8. Done(Cursor(p))'
  <2>1. Cursor(p).seq = p.seq /\ \A q \in Pieces : After(q, Cursor(p)) <=> After(q, p)
    BY DEF Cursor, After
  <2>2. QED
    BY <1>6, <1>7, <2>1 DEF Done, After
<1>9. ASSUME NEW a, Done(a) PROVE Done(a)'
  BY <1>2, <1>9 DEF Done, After
<1>10. NumberedNow'
  BY <1>1 DEF Kept, NumberedNow
<1>11. BufferOrdered'
  BY DEF Kept, BufferOrdered, After
<1>12. BufferKept'
  BY <1>2 DEF Kept, BufferKept
<1>13. WireKept'
  <2>1. \A i \in DOMAIN wire'[conn] : wire'[conn][i].seq < seq
    BY <1>5 DEF Kept, WireKept
  <2>2. ASSUME NEW q \in Pieces, Owing(q)' PROVE InHand(q)' \/ q \in Range(wire'[conn])
    <3>1. CASE InHand(q) \/ q = p
      BY <2>2, <3>1
    <3>2. CASE ~InHand(q) /\ q # p
      <4>1. PICK i \in DOMAIN wire[conn] : wire[conn][i] = q
        BY <1>2, <2>2, <3>2 DEF Kept, WireKept, Range
      <4>2. i - 1 \in DOMAIN wire'[conn] /\ wire'[conn][i - 1] = q
        BY <1>3, <1>4, <1>5, <3>2, <4>1
      <4>3. QED
        BY <4>2 DEF Range
    <3>3. QED
      BY <3>1, <3>2
  <2>3. ASSUME NEW q \in Pieces, NEW i \in DOMAIN wire'[conn], Owing(q)', After(wire'[conn][i], q)
        PROVE  InHand(q)' \/ \E j \in 1..(i - 1) : wire'[conn][j] = q
    <3>1. CASE InHand(q) \/ q = p
      BY <2>3, <3>1
    <3>2. CASE ~InHand(q) /\ q # p
      <4>1. i + 1 \in DOMAIN wire[conn] /\ After(wire[conn][i + 1], q) /\ i \in Nat /\ i >= 1
        BY <1>3, <1>5, <2>3
      <4>2. PICK j \in 1..i : wire[conn][j] = q
        <5>1. \E j \in 1..((i + 1) - 1) : wire[conn][j] = q
          BY <1>2, <2>3, <3>2, <4>1 DEF Kept, WireKept
        <5>2. (i + 1) - 1 = i
          BY <4>1
        <5>3. QED
          BY <5>1, <5>2
      <4>3. j - 1 \in 1..(i - 1) /\ wire'[conn][j - 1] = q
        BY <1>3, <1>4, <1>5, <3>2, <4>1, <4>2
      <4>4. QED
        BY <4>3
    <3>3. QED
      BY <3>1, <3>2
  <2>4. QED
    BY <2>1, <2>2, <2>3 DEF WireKept, After
<1>14. AcksKept'
  <2>1. ASSUME NEW i \in DOMAIN acks'[conn] PROVE Done(acks[conn][i])'
    <3>1. \/ i \in DOMAIN acks[conn] /\ acks'[conn][i] = acks[conn][i]
          \/ acks'[conn][i] = Cursor(p)
      <4>1. CASE acks' = acks
        BY <2>1, <4>1
      <4>2. CASE acks' # acks
        <5>1. acks'[conn] = Append(acks[conn], Cursor(p))
          BY <1>3, <4>2 DEF Ack, Kept, Tables
        <5>2. QED
          BY <1>3, <2>1, <5>1
      <4>3. QED
        BY <4>1, <4>2
    <3>2. PICK a : a = acks'[conn][i]
      OBVIOUS
    <3>3. Done(a)'
      <4>1. CASE a = Cursor(p)
        BY <1>8, <4>1 DEF Done, After
      <4>2. CASE i \in DOMAIN acks[conn] /\ a = acks[conn][i]
        BY <1>9, <4>2 DEF Kept, AcksKept
      <4>3. QED
        BY <3>1, <3>2, <4>1, <4>2
    <3>4. QED
      BY <3>2, <3>3 DEF Done, After
  <2>2. Done(cursor[conn])' /\ Done(marking[conn])'
    <3>1. Done(cursor[conn]) /\ Done(marking[conn])
      BY DEF Kept, AcksKept
    <3>2. marking'[conn] = marking[conn] \/ marking'[conn] = Cursor(p)
      BY <1>3 DEF Mark, IInv, Typed
    <3>3. Done(cursor[conn])'
      BY <1>2, <3>1 DEF Done, After
    <3>4. CASE marking'[conn] = marking[conn]
      BY <1>2, <3>1, <3>3, <3>4 DEF Done, After
    <3>5. CASE marking'[conn] = Cursor(p)
      BY <1>8, <3>3, <3>5 DEF Done, After
    <3>6. QED
      BY <3>2, <3>4, <3>5
  <2>3. QED
    BY <2>1, <2>2 DEF AcksKept
<1>15. QED
  BY <1>10, <1>11, <1>12, <1>13, <1>14 DEF Kept

LEMMA ReadKeeps ==
  ASSUME IInv, Kept, NEW e \in Sessions, Read(e)
  PROVE  Kept'
<1>1. Ready(e) /\ Drop(e) /\ UNCHANGED <<made, seq, buf, conn, ackedOn, cursor, session, gone>>
  BY DEF Read, ReadStale, ReadDuplicate, ReadWhole, ReadChunk, ReadLastChunk, ReadBadChunk, appVars
<1>2. PICK p : p = Head(wire[e])
  OBVIOUS
<1>3. p \in Pieces /\ p.msg \in Messages /\ Cursor(p) \in Marks
  BY <1>1, <1>2, PieceFacts DEF Ready, IInv, Typed
<1>4. Ack(e, p) /\ (marking' = marking \/ Mark(e, p))
  BY <1>2 DEF Read, ReadStale, ReadDuplicate, ReadWhole, ReadChunk, ReadLastChunk, ReadBadChunk
<1>5. chunks' = chunks \/ \E f : chunks' = [chunks EXCEPT ![e] = f]
  BY DEF Read, ReadStale, ReadDuplicate, ReadWhole, ReadChunk, ReadLastChunk, ReadBadChunk
<1>6. strayed \subseteq strayed' /\ (taken' = taken \/ taken' = [taken EXCEPT ![e] = Append(@, p.msg)])
  BY <1>2 DEF Read, ReadStale, ReadDuplicate, ReadWhole, ReadChunk, ReadLastChunk, ReadBadChunk, HandOver
<1>7. \A d \in Sessions : Range(taken[d]) \subseteq Range(taken'[d])
  <2>1. taken \in [Sessions -> Seq(Messages)] /\ taken[e] \in Seq(Messages)
    BY DEF IInv, Typed
  <2>2. Range(taken[e]) \subseteq Range(Append(taken[e], p.msg))
    BY <1>3, <2>1 DEF Range
  <2>3. QED
    BY <1>6, <2>1, <2>2
<1>8. \A m \in Messages : Owed(m)' => Owed(m)
  BY <1>1, <1>6, <1>7, OwedNoMore DEF Torn
<1>9. Tables'
  <2>1. acks' \in [Sessions -> Seq(Marks)]
    <3>1. acks \in [Sessions -> Seq(Marks)] /\ acks[e] \in Seq(Marks)
      BY DEF Kept, Tables
    <3>2. Append(acks[e], Cursor(p)) \in Seq(Marks)
      BY <1>3, <3>1
    <3>3. QED
      BY <1>4, <3>1, <3>2 DEF Ack
  <2>2. chunks' = [d \in Sessions |-> chunks'[d]]
    BY <1>5 DEF Kept, Tables
  <2>3. QED
    BY <1>1, <2>1, <2>2 DEF Kept, Tables
<1>10. Unused'
  <2>1. session[e] = "open"
    BY <1>1 DEF Ready
  <2>2. ASSUME NEW d \in Sessions, session'[d] = "none"
        PROVE  acks'[d] = << >> /\ chunks'[d] = << >> /\ cursor'[d] = Start /\ marking'[d] = Start
    <3>1. d # e /\ session[d] = "none"
      BY <1>1, <2>1, <2>2
    <3>2. acks'[d] = acks[d]
      BY <1>4, <3>1 DEF Ack, Kept, Tables
    <3>3. marking'[d] = marking[d]
      BY <1>4, <3>1 DEF Mark, IInv, Typed
    <3>4. chunks'[d] = chunks[d]
      BY <1>5, <3>1 DEF Kept, Tables
    <3>5. QED
      BY <1>1, <3>1, <3>2, <3>3, <3>4 DEF Kept, Unused
  <2>3. QED
    BY <1>1, <2>2 DEF Kept, Unused
<1>11. CASE e # conn
  <2>1. conn # NoEpoch =>
           /\ wire'[conn] = wire[conn] /\ acks'[conn] = acks[conn] /\ chunks'[conn] = chunks[conn]
           /\ cursor'[conn] = cursor[conn] /\ marking'[conn] = marking[conn]
    BY <1>1, <1>4, <1>5, <1>11, HereFacts DEF Drop, Ack, Mark, IInv, Typed, Kept, Tables
  <2>2. QED
    BY <1>1, <1>8, <1>9, <1>10, <2>1, AsideStep
<1>12. CASE e = conn
  <2>0. conn # NoEpoch /\ conn \in Sessions /\ Numbered(wire[conn], Offset) /\ wire[conn] # << >>
        /\ wire[conn] \in Seq(Pieces) /\ cursor[conn] \in Marks
    BY <1>1, <1>12, HereFacts DEF NoEpoch, Sessions, Ready
  <2>1. p.msg = p.seq + Offset /\ Offset' = Offset /\ p.seq \in Nat /\ p.seg \in Nat /\ Offset \in Int
        /\ p.msg \in Int
    <3>1. p = wire[conn][1] /\ 1 \in DOMAIN wire[conn]
      BY <1>2, <1>12, <2>0
    <3>2. QED
      BY <1>1, <1>3, <2>0, <3>1, PieceFacts DEF Numbered, Offset
  <2>2. SUFFICES /\ \A q \in Pieces : Owing(q)' /\ InHand(q) => InHand(q)'
                 /\ Owing(p)' => InHand(p)'
                 /\ AssemblyKept'
    BY <1>1, <1>2, <1>4, <1>8, <1>9, <1>10, <1>12, <2>0, ReadHere
  <2>3. ASSUME NEW q \in Pieces, q.seq = p.seq, q.msg = q.seq + Offset PROVE q.msg = p.msg
    BY <2>1, <2>3
  <2>4. \A q \in Pieces : Owing(q)' => q.msg = q.seq + Offset
    BY <2>1, PieceFacts DEF Owing
  <2>5. \A s \in DOMAIN chunks[conn] :
          s + Offset \in Messages /\ chunks[conn][s] \in 1..(ChunksOf[s + Offset] - 1)
    BY <2>0 DEF Kept, AssemblyKept
  <2>6. ASSUME chunks' = chunks PROVE AssemblyKept' /\ \A q \in Pieces : InHand(q) => InHand(q)'
    BY <1>1, <2>1, <2>6 DEF Kept, AssemblyKept, InHand, Assembled
  <2>7. ASSUME chunks' = [chunks EXCEPT ![e] = Without(@, p.seq)], ~Owed(p.msg)'
        PROVE  /\ \A q \in Pieces : Owing(q)' /\ InHand(q) => InHand(q)'
               /\ Owing(p)' => InHand(p)'
               /\ AssemblyKept'
    <3>1. chunks'[conn] = Without(chunks[conn], p.seq)
      BY <1>12, <2>0, <2>7 DEF Kept, Tables
    <3>2. /\ DOMAIN chunks'[conn] = DOMAIN chunks[conn] \ {p.seq}
          /\ \A s \in DOMAIN chunks'[conn] : chunks'[conn][s] = chunks[conn][s]
      BY <3>1 DEF Without
    <3>3. ASSUME NEW q \in Pieces, Owing(q)', InHand(q) PROVE InHand(q)'
      <4>1. q.seq # p.seq
        BY <2>3, <2>4, <2>7, <3>3 DEF Owing
      <4>2. QED
        BY <1>1, <3>2, <3>3, <4>1 DEF InHand, Assembled
    <3>4. AssemblyKept'
      BY <1>1, <2>1, <2>5, <3>2 DEF AssemblyKept
    <3>5. QED
      BY <2>7, <3>3, <3>4 DEF Owing
  <2>8. ASSUME taken' = [taken EXCEPT ![e] = Append(@, p.msg)] PROVE ~Owed(p.msg)'
    <3>1. taken[e] \in Seq(Messages) /\ taken \in [Sessions -> Seq(Messages)]
      BY DEF IInv, Typed
    <3>2. taken'[e] = Append(taken[e], p.msg)
      BY <2>8, <3>1
    <3>3. p.msg \in Range(taken'[e])
      BY <1>3, <3>1, <3>2 DEF Range
    <3>4. QED
      BY <3>3 DEF Owed, Handed
  <2>9. CASE ReadStale(e)
    <3>1. ~Owed(p.msg)' /\ chunks' = chunks
      BY <1>2, <2>9 DEF ReadStale, Owed
    <3>2. QED
      BY <2>6, <3>1 DEF Owing
  <2>10. CASE ReadDuplicate(e)
    <3>1. ~After(p, cursor[conn]) /\ chunks' = chunks
      BY <1>2, <1>12, <2>10 DEF ReadDuplicate, Duplicate
    <3>2. Owing(p)' => Owing(p)
      BY <1>3, <1>8, <2>1 DEF Owing
    <3>3. Owing(p) => InHand(p)
      BY <1>3, <2>0, <3>1 DEF Kept, AcksKept, Done
    <3>4. QED
      BY <1>3, <2>6, <3>1, <3>2, <3>3
  <2>11. CASE ReadWhole(e)
    <3>1. taken' = [taken EXCEPT ![e] = Append(@, p.msg)] /\ chunks' = chunks
      BY <1>2, <2>11 DEF ReadWhole, HandOver
    <3>2. QED
      BY <2>6, <2>8, <3>1 DEF Owing
  <2>12. CASE ReadChunk(e)
    <3>1. chunks' = [chunks EXCEPT ![e] = With(@, p.seq, p.seg + 1)] /\ Fits(e, p) /\ ~Final(p)
          /\ p.seg # Whole
      BY <1>2, <2>12 DEF ReadChunk, Chunk
    <3>2. chunks'[conn] = With(chunks[conn], p.seq, p.seg + 1)
      BY <1>12, <2>0, <3>1 DEF Kept, Tables
    <3>3. /\ DOMAIN chunks'[conn] = DOMAIN chunks[conn] \cup {p.seq}
          /\ \A s \in DOMAIN chunks[conn] : s # p.seq => chunks'[conn][s] = chunks[conn][s]
          /\ chunks'[conn][p.seq] = p.seg + 1
      BY <3>2 DEF With
    <3>4. InHand(p)'
      <4>1. p.seg < p.seg + 1
        BY <2>1
      <4>2. QED
        BY <1>1, <2>0, <3>3, <4>1 DEF InHand, Assembled
    <3>5. ASSUME NEW q \in Pieces, InHand(q) PROVE InHand(q)'
      <4>1. q.seq \in DOMAIN chunks[conn] /\ q.seg < chunks[conn][q.seq]
        BY <3>5 DEF InHand, Assembled
      <4>2. CASE q.seq = p.seq
        <5>1. chunks[conn][q.seq] = p.seg
          BY <1>12, <3>1, <4>1, <4>2 DEF Fits, Expected
        <5>2. q.seg < p.seg + 1
          BY <2>1, <4>1, <5>1, PieceFacts
        <5>3. QED
          BY <1>1, <2>0, <3>3, <4>2, <5>2 DEF InHand, Assembled
      <4>3. CASE q.seq # p.seq
        BY <1>1, <2>0, <3>3, <4>1, <4>3 DEF InHand, Assembled
      <4>4. QED
        BY <4>2, <4>3
    <3>6. AssemblyKept'
      <4>1. p.seg + 1 \in 1..(ChunksOf[p.msg] - 1)
        <5>1. p.seg \in Segments(p.msg) /\ ChunksOf[p.msg] \in Nat /\ p.seg \in Nat
          BY <1>3, <2>1, PieceFacts DEF Pieces
        <5>2. p.seg # ChunksOf[p.msg] - 1
          BY <3>1 DEF Final
        <5>3. ChunksOf[p.msg] # 0
          BY <3>1, <5>1 DEF Segments
        <5>4. p.seg \in 0..(ChunksOf[p.msg] - 1)
          BY <5>1, <5>3 DEF Segments
        <5>5. QED
          BY <5>1, <5>2, <5>4
      <4>2. p.seq + Offset = p.msg
        BY <2>1
      <4>3. \A s \in DOMAIN chunks'[conn] :
              s + Offset \in Messages /\ chunks'[conn][s] \in 1..(ChunksOf[s + Offset] - 1)
        BY <1>3, <2>5, <3>3, <4>1, <4>2
      <4>4. QED
        BY <1>1, <2>1, <4>3 DEF AssemblyKept
    <3>7. QED
      BY <3>4, <3>5, <3>6
  <2>13. CASE ReadLastChunk(e)
    <3>1. /\ taken' = [taken EXCEPT ![e] = Append(@, p.msg)]
          /\ chunks' = [chunks EXCEPT ![e] = Without(@, p.seq)]
      BY <1>2, <2>13 DEF ReadLastChunk, HandOver
    <3>2. QED
      BY <2>7, <2>8, <3>1
  <2>14. CASE ReadBadChunk(e)
    <3>1. /\ ~Fits(e, p)
          /\ chunks' = IF p.seg < Expected(e, p) THEN chunks
                       ELSE [chunks EXCEPT ![e] = Without(@, p.seq)]
          /\ UNCHANGED <<taken, strayed, gone>>
      BY <1>2, <2>14 DEF ReadBadChunk
    <3>2. Owed(p.msg)' => Owed(p.msg) /\ p.msg \notin Malformed
      BY <1>3, <1>8 DEF Owed
    <3>3. CASE p.seg < Expected(e, p)
      <4>1. InHand(p)
        BY <1>12, <2>0, <2>1, <3>3 DEF Expected, InHand, Assembled
      <4>2. chunks' = chunks
        BY <3>1, <3>3
      <4>3. QED
        BY <1>3, <2>6, <4>1, <4>2
    <3>4. CASE ~(p.seg < Expected(e, p))
      <4>1. ~Owed(p.msg)'
        <5> SUFFICES ASSUME Owed(p.msg)' PROVE FALSE
          OBVIOUS
        <5> DEFINE n == Expected(e, p)
        <5>1. Owed(p.msg) /\ p.seg # n
          BY <3>1, <3>2 DEF Fits
        <5>2. n \in Nat /\ (n = 0 \/ (p.seq \in DOMAIN chunks[conn] /\ n = chunks[conn][p.seq]))
          <6>1. p.seq \in DOMAIN chunks[conn] => chunks[conn][p.seq] \in Nat
            BY <2>5
          <6>2. QED
            BY <1>12, <6>1 DEF Expected
        <5>3. n < p.seg
          <6>1. n \in Nat /\ p.seg # n /\ ~(p.seg < n)
            BY <3>4, <5>1, <5>2
          <6> HIDE DEF n
          <6>2. QED
            BY <2>1, <6>1
        <5> HIDE DEF n
        <5>4. PICK q \in Pieces : q.msg = p.msg /\ q.seq = p.seq /\ q.seg = n
          <6>1. n \in Segments(p.msg) /\ n \in 0..Whole
            <7>1. p.seg \in Segments(p.msg) /\ p.seg # Whole /\ p.seg \in 0..Whole /\ Whole \in Nat
              BY <1>2, <1>3, <2>14, InboundAssumption DEF Pieces, ReadBadChunk, Chunk
            <7>2. ChunksOf[p.msg] \in Nat
              BY <1>3, PieceFacts
            <7>3. QED
              BY <2>1, <5>2, <5>3, <7>1, <7>2 DEF Segments
          <6>2. [msg |-> p.msg, seq |-> p.seq, seg |-> n] \in Pieces
            BY <1>3, <2>1, <6>1 DEF Pieces
          <6>3. QED
            BY <6>2
        <5>5. Owing(q) /\ After(p, q)
          BY <2>1, <5>1, <5>3, <5>4 DEF Owing, After
        <5>6. InHand(q)
          <6>1. p = wire[conn][1] /\ 1 \in DOMAIN wire[conn]
            BY <1>2, <1>12, <2>0
          <6>2. InHand(q) \/ \E j \in 1..(1 - 1) : wire[conn][j] = q
            BY <2>0, <5>5, <6>1 DEF Kept, WireKept
          <6>3. QED
            BY <6>2
        <5>7. QED
          BY <1>12, <2>5, <5>2, <5>4, <5>6 DEF InHand, Assembled, Expected, n
      <4>2. chunks' = [chunks EXCEPT ![e] = Without(@, p.seq)]
        BY <3>1, <3>4
      <4>3. QED
        BY <2>7, <4>1, <4>2
    <3>5. QED
      BY <3>3, <3>4
  <2>15. QED
    BY <2>9, <2>10, <2>11, <2>12, <2>13, <2>14 DEF Read
<1>13. QED
  BY <1>11, <1>12

-----------------------------------------------------------------------------
(* The connection ends: whatever it has confirmed a part of is torn.        *)

LEMMA DetachStep ==
  ASSUME IInv, Kept, conn # NoEpoch, conn' = NoEpoch,
         UNCHANGED <<made, seq, buf, ackedOn, strayed, gone, taken>>,
         Tables', Unused'
  PROVE  Kept'
<1>1. Offset' = Offset
  BY DEF Offset
<1>2. ASSUME NEW m \in Messages, Owed(m)' PROVE Owed(m)
  <2>1. Torn(m) => Torn(m)'
    BY <1>2 DEF Torn, Kept, Unused, NoEpoch, Sessions
  <2>2. QED
    BY <1>2, <2>1, OwedNoMore
<1>3. NumberedNow'
  BY <1>1, <1>2 DEF Kept, NumberedNow
<1>4. BufferOrdered'
  BY DEF Kept, BufferOrdered, After
<1>5. BufferKept'
  <2> SUFFICES ASSUME NEW p \in Pieces, Owing(p)' PROVE p \in Range(buf)
    BY DEF BufferKept
  <2>1. p.msg \in Messages /\ Owing(p) /\ Owed(p.msg)'
    BY <1>1, <1>2, PieceFacts DEF Owing
  <2>2. ~(ChunksOf[p.msg] > 1 /\ conn \in ackedOn[p.msg])
    BY <2>1 DEF Owed, Torn
  <2>3. QED
    BY <2>1, <2>2 DEF Kept, BufferKept
<1>6. QED
  BY <1>3, <1>4, <1>5 DEF Kept, WireKept, AcksKept, AssemblyKept

LEMMA LoseKeeps == IInv /\ Kept /\ Lose => Kept'
<1> SUFFICES ASSUME IInv, Kept, Lose PROVE Kept'
  OBVIOUS
<1>1. Tables' /\ Unused'
  BY DEF Lose, Kept, Tables, Unused
<1>2. QED
  BY <1>1, DetachStep DEF Lose

LEMMA CloseKeeps ==
  ASSUME IInv, Kept, NEW e \in Sessions, CloseSession(e)
  PROVE  Kept'
<1>1. /\ session' = [session EXCEPT ![e] = "closed"]
      /\ conn' = IF conn = e THEN NoEpoch ELSE conn
      /\ wire' = [wire EXCEPT ![e] = << >>] /\ acks' = [acks EXCEPT ![e] = << >>]
      /\ cursor' = [cursor EXCEPT ![e] = Start] /\ chunks' = [chunks EXCEPT ![e] = << >>]
      /\ session[e] = "open"
      /\ UNCHANGED <<made, seq, buf, marking, taken, strayed, gone, ackedOn>>
  BY DEF CloseSession
<1>2. Tables'
  <2>1. acks' \in [Sessions -> Seq(Marks)]
    BY <1>1 DEF Kept, Tables
  <2>2. chunks' = [d \in Sessions |-> chunks'[d]]
    BY <1>1 DEF Kept, Tables
  <2>3. QED
    BY <1>1, <2>1, <2>2 DEF Kept, Tables
<1>3. Unused'
  <2>1. ASSUME NEW d \in Sessions, session'[d] = "none"
        PROVE  acks'[d] = << >> /\ chunks'[d] = << >> /\ cursor'[d] = Start /\ marking'[d] = Start
    <3>1. d # e /\ session[d] = "none"
      BY <1>1, <2>1 DEF IInv, Typed
    <3>2. acks'[d] = acks[d] /\ chunks'[d] = chunks[d] /\ cursor'[d] = cursor[d]
      BY <1>1, <3>1 DEF Kept, Tables, IInv, Typed
    <3>3. QED
      BY <1>1, <3>1, <3>2 DEF Kept, Unused
  <2>2. \A d \in Sessions : session[d] # "none" => session'[d] # "none"
    BY <1>1 DEF IInv, Typed
  <2>3. QED
    BY <1>1, <2>1, <2>2 DEF Kept, Unused
<1>4. CASE conn = e
  BY <1>1, <1>2, <1>3, <1>4, DetachStep DEF NoEpoch, Sessions
<1>5. CASE conn # e
  <2>1. \A m \in Messages : Owed(m)' => Owed(m)
    BY <1>1, <1>5, OwedNoMore DEF Torn
  <2>2. conn # NoEpoch =>
           /\ wire'[conn] = wire[conn] /\ acks'[conn] = acks[conn] /\ chunks'[conn] = chunks[conn]
           /\ cursor'[conn] = cursor[conn] /\ marking'[conn] = marking[conn]
    BY <1>1, <1>5, HereFacts DEF IInv, Typed, Kept, Tables
  <2>3. QED
    BY <1>1, <1>2, <1>3, <1>5, <2>1, <2>2, AsideStep
<1>6. QED
  BY <1>4, <1>5

LEMMA NoteKeeps ==
  ASSUME IInv, Kept, NEW e \in Sessions, NoteCursor(e)
  PROVE  Kept'
<1>1. /\ cursor' = [cursor EXCEPT ![e] = IF After(marking[e], @) THEN marking[e] ELSE @]
      /\ marking' = [marking EXCEPT ![e] = NoMark] /\ marking[e] # NoMark
      /\ UNCHANGED <<made, seq, buf, conn, wire, acks, chunks, session, taken, strayed, gone, ackedOn>>
  BY DEF NoteCursor, appVars
<1>2. Tables'
  BY <1>1 DEF Kept, Tables
<1>3. Unused'
  <2>1. ASSUME NEW d \in Sessions, session'[d] = "none"
        PROVE  cursor'[d] = Start /\ marking'[d] = Start
    <3>1. session[d] = "none" /\ marking[d] = Start
      BY <1>1, <2>1 DEF Kept, Unused
    <3>2. d # e
      BY <1>1, <3>1 DEF NoMark
    <3>3. QED
      BY <1>1, <3>1, <3>2 DEF Kept, Unused, IInv, Typed
  <2>2. QED
    BY <1>1, <2>1 DEF Kept, Unused
<1>4. \A m \in Messages : Owed(m)' => Owed(m)
  BY <1>1, OwedNoMore DEF Torn
<1>5. conn # NoEpoch => /\ cursor'[conn] = cursor[conn] \/ cursor'[conn] = marking[conn]
                        /\ marking'[conn] = marking[conn] \/ marking'[conn] = Start
  BY <1>1, HereFacts DEF IInv, Typed, NoMark
<1>6. QED
  BY <1>1, <1>2, <1>3, <1>4, <1>5, AsideStep

LEMMA StillKeeps ==
  ASSUME IInv, Kept, UNCHANGED <<made, seq, buf, conn, wire, acks, session, marking, cursor,
                                 chunks, taken, strayed, gone, ackedOn>>
  PROVE  Kept'
<1>1. Tables' /\ Unused'
  BY DEF Kept, Tables, Unused
<1>2. \A m \in Messages : Owed(m)' => Owed(m)
  BY OwedNoMore DEF Torn
<1>3. QED
  BY <1>1, <1>2, AsideStep

LEMMA ConnectKeeps ==
  ASSUME IInv, Kept, NEW restarted \in BOOLEAN, Connect(restarted)
  PROVE  Kept'
<1>1. PICK e \in Sessions :
        /\ session[e] = "none" /\ conn' = e
        /\ session' = [session EXCEPT ![e] = "open"]
        /\ buf' = IF restarted THEN << >> ELSE buf
        /\ wire' = [wire EXCEPT ![e] = buf']
  BY DEF Connect
<1>2. /\ seq' = IF restarted THEN 1 ELSE seq
      /\ gone' = IF restarted THEN gone \cup {p.msg : p \in Range(buf)} ELSE gone
      /\ conn = NoEpoch
      /\ UNCHANGED <<made, acks, marking, cursor, chunks, taken, strayed, ackedOn>>
  BY DEF Connect
<1>3. acks[e] = << >> /\ chunks[e] = << >> /\ cursor[e] = Start /\ marking[e] = Start
      /\ wire'[e] = buf' /\ buf \in Seq(Pieces) /\ seq \in Nat /\ seq >= 1
  BY <1>1 DEF Kept, Unused, Tables, IInv, Typed
<1>4. Tables'
  BY <1>2, <1>3 DEF Kept, Tables
<1>5. Unused'
  BY <1>1, <1>2 DEF Kept, Unused, IInv, Typed
<1>6. ASSUME NEW m \in Messages, Owed(m)' PROVE Owed(m)
  <2>1. Torn(m) => Torn(m)'
    BY <1>1, <1>2, <1>6 DEF Torn, Kept, Unused
  <2>2. QED
    BY <1>2, <1>6, <2>1, OwedNoMore
<1>7. ASSUME NEW p \in Pieces, Owing(p) PROVE p \in Range(buf)
  BY <1>2, <1>7 DEF Kept, BufferKept, InHand
<1>8. CASE restarted
  <2>1. ASSUME NEW m \in Messages PROVE ~Owed(m)'
    <3> SUFFICES ASSUME Owed(m)' PROVE FALSE
      OBVIOUS
    <3>1. Owed(m) /\ m - Offset \in Nat /\ Offset \in Int /\ m \in Int
      BY <1>3, <1>6, InboundAssumption DEF Kept, NumberedNow, IInv, Typed, Offset, Messages
    <3>2. PICK p \in Pieces : p.msg = m /\ p.seq = m - Offset
      <4>1. [msg |-> m, seq |-> m - Offset, seg |-> LastSegment(m)] \in Pieces
        BY <3>1, SegmentFacts DEF Pieces
      <4>2. QED
        BY <4>1
    <3>3. p \in Range(buf)
      BY <1>7, <3>1, <3>2 DEF Owing
    <3>4. m \in gone'
      BY <1>2, <1>8, <3>2, <3>3
    <3>5. QED
      BY <3>4 DEF Owed
  <2>2. \A p \in Pieces : ~Owing(p)'
    BY <2>1 DEF Owing, Pieces
  <2>3. buf' = << >> /\ seq' = 1
    BY <1>1, <1>2, <1>8
  <2>4. NumberedNow' /\ BufferOrdered' /\ BufferKept'
    BY <2>1, <2>2, <2>3 DEF NumberedNow, BufferOrdered, BufferKept
  <2>5. WireKept'
    BY <1>1, <1>3, <2>2, <2>3 DEF WireKept
  <2>6. AcksKept' /\ AssemblyKept'
    BY <1>1, <1>2, <1>3, <2>2, <2>3 DEF AcksKept, AssemblyKept, Done, Start
  <2>7. QED
    BY <1>4, <1>5, <2>4, <2>5, <2>6 DEF Kept
<1>9. CASE ~restarted
  <2>1. seq' = seq /\ buf' = buf /\ Offset' = Offset
    BY <1>1, <1>2, <1>9 DEF Offset
  <2>2. ASSUME NEW p \in Pieces, Owing(p)' PROVE Owing(p) /\ p \in Range(buf) /\ p.seq \in 1..(seq - 1)
    <3>1. Owing(p)
      BY <1>6, <2>1, <2>2, PieceFacts DEF Owing
    <3>2. QED
      BY <1>7, <3>1, PieceFacts
  <2>3. NumberedNow' /\ BufferOrdered' /\ BufferKept'
    <3>1. NumberedNow'
      BY <1>6, <2>1 DEF Kept, NumberedNow
    <3>2. BufferOrdered'
      BY <2>1 DEF Kept, BufferOrdered, After
    <3>3. BufferKept'
      BY <2>1, <2>2 DEF BufferKept
    <3>4. QED
      BY <3>1, <3>2, <3>3
  <2>4. WireKept'
    <3>1. \A i \in DOMAIN buf : buf[i].seq < seq
      BY DEF Kept, BufferOrdered
    <3>2. ASSUME NEW p \in Pieces, NEW i \in DOMAIN buf, Owing(p)', After(buf[i], p)
          PROVE  \E j \in 1..(i - 1) : buf[j] = p
      <4>1. PICK j \in DOMAIN buf : buf[j] = p
        BY <2>2, <3>2 DEF Range
      <4>2. i \in Nat /\ j \in Nat /\ i >= 1 /\ j >= 1 /\ buf[i] \in Pieces /\ buf[j] \in Pieces
        BY <1>3, <3>2, <4>1
      <4>3. ~After(buf[j], buf[i]) /\ i # j
        BY <3>2, <4>1, <4>2, PieceFacts DEF After
      <4>4. ~(i < j)
        BY <3>2, <4>1, <4>3 DEF Kept, BufferOrdered
      <4>5. j \in 1..(i - 1)
        BY <4>2, <4>3, <4>4
      <4>6. QED
        BY <4>1, <4>5
    <3>3. wire'[conn'] = buf
      BY <1>1, <1>3, <2>1
    <3>4. \A i \in DOMAIN wire'[conn'] : wire'[conn'][i].seq < seq'
      BY <2>1, <3>1, <3>3
    <3>5. \A p \in Pieces : Owing(p)' => p \in Range(wire'[conn'])
      BY <2>2, <3>3
    <3>6. \A p \in Pieces : \A i \in DOMAIN wire'[conn'] :
            Owing(p)' /\ After(wire'[conn'][i], p) => \E j \in 1..(i - 1) : wire'[conn'][j] = p
      BY <3>2, <3>3
    <3>7. QED
      BY <3>4, <3>5, <3>6 DEF WireKept, After
  <2>5. AcksKept'
    <3>1. \A p \in Pieces : Owing(p)' => After(p, Start)
      BY <2>2, PieceFacts DEF After, Start
    <3>2. Start.seq < seq
      BY <1>3 DEF Start
    <3>3. QED
      BY <1>1, <1>2, <1>3, <2>1, <3>1, <3>2 DEF AcksKept, Done, After
  <2>6. AssemblyKept'
    BY <1>1, <1>2, <1>3 DEF AssemblyKept
  <2>7. QED
    BY <1>4, <1>5, <2>3, <2>4, <2>5, <2>6 DEF Kept
<1>10. QED
  BY <1>8, <1>9

LEMMA PieceIsMade ==
  ASSUME NEW m \in Messages, NEW s \in Nat, NEW p \in Pieces, p.msg = m, p.seq = s
  PROVE  /\ p \in Range(Envelopes(m, s))
         /\ \A i \in DOMAIN Envelopes(m, s) : After(Envelopes(m, s)[i], p) =>
              \E j \in 1..(i - 1) : j \in DOMAIN Envelopes(m, s) /\ Envelopes(m, s)[j] = p
<1>1. ChunksOf[m] \in Nat /\ Whole \in Nat /\ p.seg \in Segments(m) /\ p = [msg |-> m, seq |-> s, seg |-> p.seg]
  BY SegmentFacts DEF Pieces
<1>2. CASE ChunksOf[m] = 0
  <2>1. Envelopes(m, s) = << p >> /\ p.seg = Whole
    BY <1>1, <1>2 DEF Envelopes, Segments
  <2>2. DOMAIN << p >> = {1} /\ << p >>[1] = p
    OBVIOUS
  <2>3. QED
    BY <1>1, <2>1, <2>2 DEF Range, After
<1>3. CASE ChunksOf[m] # 0
  <2>1. Envelopes(m, s) = [i \in 1..ChunksOf[m] |-> [msg |-> m, seq |-> s, seg |-> i - 1]]
    BY <1>3 DEF Envelopes
  <2>2. p.seg \in 0..(ChunksOf[m] - 1)
    BY <1>1, <1>3 DEF Segments
  <2>3. p.seg + 1 \in DOMAIN Envelopes(m, s) /\ Envelopes(m, s)[p.seg + 1] = p
    BY <1>1, <2>1, <2>2
  <2>4. ASSUME NEW i \in DOMAIN Envelopes(m, s), After(Envelopes(m, s)[i], p)
        PROVE  p.seg + 1 \in 1..(i - 1)
    <3>1. i \in 1..ChunksOf[m] /\ Envelopes(m, s)[i].seq = s /\ Envelopes(m, s)[i].seg = i - 1
      BY <2>1, <2>4
    <3>2. i - 1 > p.seg
      BY <2>4, <3>1 DEF After
    <3>3. QED
      BY <1>1, <2>2, <3>1, <3>2
  <2>5. QED
    BY <2>3, <2>4 DEF Range
<1>4. QED
  BY <1>2, <1>3

\* what is produced comes after all there was, in order
LEMMA EnvelopeOrder ==
  ASSUME NEW m \in Messages, NEW s \in Nat,
         NEW i \in DOMAIN Envelopes(m, s), NEW j \in DOMAIN Envelopes(m, s), i < j
  PROVE  After(Envelopes(m, s)[j], Envelopes(m, s)[i])
<1>1. ChunksOf[m] \in Nat /\ Whole \in Nat
  BY SegmentFacts
<1>2. ChunksOf[m] # 0
  <2> SUFFICES ASSUME ChunksOf[m] = 0 PROVE FALSE
    OBVIOUS
  <2>1. Envelopes(m, s) = << [msg |-> m, seq |-> s, seg |-> Whole] >>
    BY DEF Envelopes
  <2>2. i = 1 /\ j = 1
    BY <2>1
  <2>3. QED
    BY <2>2
<1>3. Envelopes(m, s) = [k \in 1..ChunksOf[m] |-> [msg |-> m, seq |-> s, seg |-> k - 1]]
  BY <1>2 DEF Envelopes
<1>4. i \in 1..ChunksOf[m] /\ j \in 1..ChunksOf[m]
  BY <1>3
<1>5. QED
  BY <1>1, <1>3, <1>4 DEF After

LEMMA ProduceKeeps == IInv /\ Kept /\ Produce => Kept'
<1> SUFFICES ASSUME IInv, Kept, Produce PROVE Kept'
  OBVIOUS
<1> DEFINE new == Envelopes(made + 1, seq)
<1>1. /\ made + 1 \in Messages /\ made \in Nat /\ seq \in Nat /\ seq >= 1 /\ Offset \in Int
      /\ made + 1 = seq + Offset /\ Offset' = Offset
  <2>1. made \in Nat /\ seq \in Nat /\ seq >= 1 /\ made < MaxMessage /\ MaxMessage \in Nat
    BY InboundAssumption DEF Produce, IInv, Typed, Kept, Tables
  <2>2. made' = made + 1 /\ seq' = seq + 1
    BY DEF Produce
  <2>3. QED
    BY <2>1, <2>2 DEF Messages, Offset
<1>2. new \in Seq(Pieces) /\ \A i \in DOMAIN new : new[i].msg = made + 1 /\ new[i].seq = seq
  BY <1>1, EnvelopeFacts
<1>3. /\ buf' = buf \o new /\ made' = made + 1 /\ seq' = seq + 1
      /\ wire' = IF conn = NoEpoch THEN wire ELSE [wire EXCEPT ![conn] = @ \o new]
      /\ UNCHANGED <<conn, acks, session, marking, cursor, chunks, taken, strayed, gone, ackedOn>>
  BY DEF Produce
<1>4. /\ \A p \in Pieces : p.msg = made + 1 /\ p.seq = seq =>
           /\ p \in Range(new)
           /\ \A i \in DOMAIN new : After(new[i], p) =>
                \E j \in 1..(i - 1) : j \in DOMAIN new /\ new[j] = p
      /\ \A i, j \in DOMAIN new : i < j => After(new[j], new[i])
  BY <1>1, PieceIsMade, EnvelopeOrder
<1> HIDE DEF new
<1>5. Tables' /\ Unused'
  BY <1>1, <1>3 DEF Kept, Tables, Unused
<1>6. ASSUME NEW m \in Messages, Owed(m)' PROVE Owed(m) \/ m = made + 1
  <2>1. m \in 1..made \/ m = made + 1
    BY <1>1, <1>3, <1>6 DEF Owed
  <2>2. QED
    BY <1>3, <1>6, <2>1 DEF Owed, Handed, Torn
<1>7. ASSUME NEW p \in Pieces, Owing(p)'
      PROVE  (Owing(p) /\ p.seq \in 1..(seq - 1)) \/ (p.msg = made + 1 /\ p.seq = seq)
  <2>1. p.seq = p.msg - Offset /\ Owed(p.msg)' /\ p.msg \in Messages
    BY <1>1, <1>7, PieceFacts DEF Owing
  <2>2. CASE Owed(p.msg)
    BY <2>1, <2>2, PieceFacts DEF Owing
  <2>3. CASE p.msg = made + 1
    BY <1>1, <2>1, <2>3
  <2>4. QED
    BY <1>6, <2>1, <2>2, <2>3
<1>8. NumberedNow'
  <2> SUFFICES ASSUME NEW m \in Messages, Owed(m)' PROVE m - Offset \in 1..seq
    BY <1>1, <1>3 DEF NumberedNow
  <2>1. CASE Owed(m)
    BY <1>1, <2>1 DEF Kept, NumberedNow
  <2>2. CASE m = made + 1
    BY <1>1, <2>2
  <2>3. QED
    BY <1>6, <2>1, <2>2
<1>9. buf \in Seq(Pieces) /\ \A i \in DOMAIN buf : buf[i].seq < seq
  BY DEF IInv, Typed, Kept, BufferOrdered
<1>10. BufferOrdered'
  <2>1. \A i \in DOMAIN (buf \o new) :
          \/ i \in DOMAIN buf /\ (buf \o new)[i] = buf[i]
          \/ i - Len(buf) \in DOMAIN new /\ (buf \o new)[i] = new[i - Len(buf)] /\ i > Len(buf)
    BY <1>2, <1>9
  <2>2. \A i \in DOMAIN (buf \o new) : (buf \o new)[i].seq < seq + 1
    <3> SUFFICES ASSUME NEW i \in DOMAIN (buf \o new) PROVE (buf \o new)[i].seq < seq + 1
      OBVIOUS
    <3>1. CASE i \in DOMAIN buf /\ (buf \o new)[i] = buf[i]
      <4>1. buf[i] \in Pieces /\ buf[i].seq < seq
        BY <1>9, <3>1
      <4>2. QED
        BY <1>1, <3>1, <4>1, PieceFacts
    <3>2. CASE i - Len(buf) \in DOMAIN new /\ (buf \o new)[i] = new[i - Len(buf)]
      BY <1>1, <1>2, <3>2
    <3>3. QED
      BY <2>1, <3>1, <3>2
  <2>3. ASSUME NEW i \in DOMAIN (buf \o new), NEW j \in DOMAIN (buf \o new), i < j
        PROVE  After((buf \o new)[j], (buf \o new)[i])
    <3>0. Len(buf) \in Nat /\ DOMAIN buf = 1..Len(buf) /\ i \in Nat /\ j \in Nat
      BY <1>2, <1>9
    <3>1. CASE i \in DOMAIN buf /\ (buf \o new)[i] = buf[i] /\ j \in DOMAIN buf /\ (buf \o new)[j] = buf[j]
      BY <2>3, <3>1 DEF Kept, BufferOrdered
    <3>2. CASE i \in DOMAIN buf /\ (buf \o new)[i] = buf[i]
               /\ j - Len(buf) \in DOMAIN new /\ (buf \o new)[j] = new[j - Len(buf)]
      <4>1. buf[i].seq < seq /\ new[j - Len(buf)].seq = seq
        BY <1>2, <1>9, <3>2
      <4>2. buf[i].seq \in Nat
        BY <1>9, <3>2, PieceFacts
      <4>3. QED
        BY <1>1, <3>2, <4>1, <4>2 DEF After
    <3>3. CASE i - Len(buf) \in DOMAIN new /\ (buf \o new)[i] = new[i - Len(buf)]
               /\ j - Len(buf) \in DOMAIN new /\ (buf \o new)[j] = new[j - Len(buf)]
      <4>1. i - Len(buf) < j - Len(buf)
        BY <2>3, <3>0
      <4>2. QED
        BY <1>4, <3>3, <4>1
    <3>4. i > Len(buf) => j \notin DOMAIN buf
      BY <2>3, <3>0
    <3>5. QED
      BY <2>1, <3>1, <3>2, <3>3, <3>4
  <2>4. QED
    BY <1>3, <2>2, <2>3 DEF BufferOrdered, After
<1>11. ASSUME NEW s \in Seq(Pieces)
       PROVE  /\ Range(s) \subseteq Range(s \o new) /\ Range(new) \subseteq Range(s \o new)
  <2>1. \A i \in DOMAIN s : i \in DOMAIN (s \o new) /\ (s \o new)[i] = s[i]
    BY <1>2
  <2>2. \A i \in DOMAIN new : Len(s) + i \in DOMAIN (s \o new) /\ (s \o new)[Len(s) + i] = new[i]
    BY <1>2
  <2>3. QED
    BY <2>1, <2>2 DEF Range
<1>12. ASSUME NEW p \in Pieces, InHand(p) PROVE InHand(p)'
  BY <1>3, <1>12 DEF InHand, Assembled
<1>13. BufferKept'
  <2> SUFFICES ASSUME NEW p \in Pieces, Owing(p)'
               PROVE  p \in Range(buf') \/ (InHand(p)' /\ ChunksOf[p.msg] > 1 /\ conn' \in ackedOn'[p.msg])
    BY DEF BufferKept
  <2>1. CASE Owing(p)
    BY <1>3, <1>9, <1>11, <1>12, <2>1 DEF Kept, BufferKept
  <2>2. CASE p.msg = made + 1 /\ p.seq = seq
    BY <1>3, <1>4, <1>9, <1>11, <2>2
  <2>3. QED
    BY <1>7, <2>1, <2>2
<1>14. WireKept'
  <2> SUFFICES ASSUME conn # NoEpoch PROVE WireKept'
    BY <1>3 DEF WireKept
  <2> DEFINE old == wire[conn]
  <2>1. old \in Seq(Pieces) /\ wire'[conn] = old \o new /\ conn' = conn
    BY <1>3, HereFacts DEF IInv, Typed
  <2>2. \A i \in DOMAIN (old \o new) :
          \/ i \in DOMAIN old /\ (old \o new)[i] = old[i]
          \/ i - Len(old) \in DOMAIN new /\ (old \o new)[i] = new[i - Len(old)] /\ i > Len(old)
    BY <1>2, <2>1
  <2>3. /\ \A i \in DOMAIN old : old[i].seq < seq
        /\ \A p \in Pieces : Owing(p) => InHand(p) \/ p \in Range(old)
        /\ \A p \in Pieces : \A i \in DOMAIN old :
             Owing(p) /\ After(old[i], p) => InHand(p) \/ \E j \in 1..(i - 1) : old[j] = p
    BY DEF Kept, WireKept
  <2> HIDE DEF old
  <2>4. \A i \in DOMAIN (old \o new) : (old \o new)[i].seq < seq + 1
    <3> SUFFICES ASSUME NEW i \in DOMAIN (old \o new) PROVE (old \o new)[i].seq < seq + 1
      OBVIOUS
    <3>1. CASE i \in DOMAIN old /\ (old \o new)[i] = old[i]
      <4>1. old[i] \in Pieces /\ old[i].seq < seq
        BY <2>1, <2>3, <3>1
      <4>2. QED
        BY <1>1, <3>1, <4>1, PieceFacts
    <3>2. CASE i - Len(old) \in DOMAIN new /\ (old \o new)[i] = new[i - Len(old)]
      BY <1>1, <1>2, <3>2
    <3>3. QED
      BY <2>2, <3>1, <3>2
  <2>5. \A p \in Pieces : Owing(p)' => InHand(p)' \/ p \in Range(old \o new)
    BY <1>4, <1>7, <1>11, <1>12, <2>1, <2>3
  <2>6. ASSUME NEW p \in Pieces, NEW i \in DOMAIN (old \o new), Owing(p)', After((old \o new)[i], p)
        PROVE  InHand(p)' \/ \E j \in 1..(i - 1) : (old \o new)[j] = p
    <3>0. Len(old) \in Nat /\ DOMAIN old = 1..Len(old) /\ i \in Nat /\ i >= 1
          /\ DOMAIN new = 1..Len(new) /\ Len(new) \in Nat
      BY <1>2, <2>1
    <3>1. CASE i \in DOMAIN old /\ (old \o new)[i] = old[i]
      <4>1. old[i] \in Pieces /\ old[i].seq < seq
        BY <2>1, <2>3, <3>1
      <4>2. p.seq # seq
        BY <1>1, <2>6, <3>1, <4>1, PieceFacts DEF After
      <4>3. Owing(p)
        BY <1>7, <2>6, <4>2
      <4>4. CASE InHand(p)
        BY <1>12, <4>4
      <4>5. CASE \E j \in 1..(i - 1) : old[j] = p
        <5>1. PICK j \in 1..(i - 1) : old[j] = p
          BY <4>5
        <5>2. j \in DOMAIN old
          BY <3>0, <3>1, <5>1
        <5>3. (old \o new)[j] = p
          BY <1>2, <2>1, <5>1, <5>2
        <5>4. QED
          BY <5>3
      <4>6. QED
        BY <2>3, <2>6, <3>1, <4>3, <4>4, <4>5
    <3>2. CASE i - Len(old) \in DOMAIN new /\ (old \o new)[i] = new[i - Len(old)] /\ i > Len(old)
      <4>1. CASE Owing(p)
        <5>1. InHand(p) \/ p \in Range(old)
          BY <2>3, <4>1
        <5>2. CASE p \in Range(old)
          <6>1. PICK j \in DOMAIN old : old[j] = p
            BY <5>2 DEF Range
          <6>2. j \in 1..(i - 1) /\ (old \o new)[j] = p
            BY <1>2, <2>1, <3>0, <3>2, <6>1
          <6>3. QED
            BY <6>2
        <5>3. QED
          BY <1>12, <5>1, <5>2
      <4>2. CASE p.msg = made + 1 /\ p.seq = seq
        <5>1. PICK j \in 1..((i - Len(old)) - 1) : j \in DOMAIN new /\ new[j] = p
          BY <1>4, <2>6, <3>2, <4>2
        <5>2. Len(old) + j \in 1..(i - 1)
          BY <3>0, <3>2, <5>1
        <5>3. (old \o new)[Len(old) + j] = p
          BY <1>2, <2>1, <3>0, <5>1
        <5>4. QED
          BY <5>2, <5>3
      <4>3. QED
        BY <1>7, <2>6, <4>1, <4>2
    <3>3. QED
      BY <2>2, <3>1, <3>2
  <2>7. /\ \A i \in DOMAIN wire'[conn'] : wire'[conn'][i].seq < seq'
        /\ \A p \in Pieces : Owing(p)' => InHand(p)' \/ p \in Range(wire'[conn'])
        /\ \A p \in Pieces : \A i \in DOMAIN wire'[conn'] :
             Owing(p)' /\ After(wire'[conn'][i], p) =>
               InHand(p)' \/ \E j \in 1..(i - 1) : wire'[conn'][j] = p
    <3>1. wire'[conn'] = old \o new /\ seq' = seq + 1
      BY <1>3, <2>1
    <3>2. QED
      BY <2>4, <2>5, <2>6, <3>1
  <2>8. QED
    BY <2>7 DEF WireKept, After
<1>15. AcksKept'
  <2> SUFFICES ASSUME conn # NoEpoch PROVE AcksKept'
    BY <1>3 DEF AcksKept
  <2>1. ASSUME NEW a \in Marks, Done(a) PROVE Done(a)'
    <3>1. a.seq < seq + 1 /\ a.seq \in Nat
      BY <1>1, <2>1 DEF Done, Marks
    <3>2. ASSUME NEW p \in Pieces, Owing(p)' PROVE After(p, a) \/ InHand(p)'
      <4>1. CASE Owing(p)
        BY <1>12, <2>1, <4>1 DEF Done
      <4>2. CASE p.seq = seq
        BY <1>1, <2>1, <3>1, <4>2 DEF After, Done
      <4>3. QED
        BY <1>7, <3>2, <4>1, <4>2
    <3>3. QED
      BY <1>3, <3>1, <3>2 DEF Done, After
  <2>2. acks[conn] \in Seq(Marks) /\ cursor[conn] \in Marks /\ marking[conn] \in Marks
    BY HereFacts
  <2>3. Done(cursor[conn]) /\ Done(marking[conn]) /\ \A i \in DOMAIN acks[conn] : Done(acks[conn][i])
    BY DEF Kept, AcksKept
  <2>4. ASSUME NEW i \in DOMAIN acks'[conn'] PROVE Done(acks[conn][i])'
    <3>1. PICK a : a = acks[conn][i]
      OBVIOUS
    <3>2. a \in Marks /\ Done(a) /\ a = acks'[conn'][i]
      BY <1>3, <2>2, <2>3, <2>4, <3>1
    <3>3. Done(a)'
      BY <2>1, <3>2
    <3>4. QED
      BY <3>2, <3>3 DEF Done, After
  <2>5. Done(cursor[conn])'
    <3>1. PICK a : a = cursor[conn]
      OBVIOUS
    <3>2. Done(a)' /\ a = cursor'[conn']
      BY <1>3, <2>1, <2>2, <2>3, <3>1
    <3>3. QED
      BY <3>2 DEF Done, After
  <2>6. Done(marking[conn])'
    <3>1. PICK a : a = marking[conn]
      OBVIOUS
    <3>2. Done(a)' /\ a = marking'[conn']
      BY <1>3, <2>1, <2>2, <2>3, <3>1
    <3>3. QED
      BY <3>2 DEF Done, After
  <2>7. QED
    BY <2>4, <2>5, <2>6 DEF AcksKept
<1>16. AssemblyKept'
  BY <1>1, <1>3 DEF Kept, AssemblyKept
<1>17. QED
  BY <1>5, <1>8, <1>10, <1>13, <1>14, <1>15, <1>16 DEF Kept

LEMMA ResendKeeps == IInv /\ Kept /\ Resend => Kept'
<1> SUFFICES ASSUME IInv, Kept, Resend PROVE Kept'
  OBVIOUS
<1>1. /\ conn # NoEpoch /\ wire' = [wire EXCEPT ![conn] = @ \o buf]
      /\ UNCHANGED <<made, seq, buf, conn, acks, session, marking, cursor, chunks, taken,
                     strayed, gone, ackedOn>>
  BY DEF Resend
<1>2. Tables' /\ Unused'
  BY <1>1 DEF Kept, Tables, Unused
<1>3. Offset' = Offset
  BY <1>1 DEF Offset
<1>4. ASSUME NEW m \in Messages, Owed(m)' PROVE Owed(m)
  BY <1>1, <1>4, OwedNoMore DEF Torn
<1>5. ASSUME NEW p \in Pieces, Owing(p)' PROVE Owing(p)
  BY <1>3, <1>4, <1>5, PieceFacts DEF Owing
<1>6. ASSUME NEW p \in Pieces, InHand(p) PROVE InHand(p)'
  BY <1>1, <1>6 DEF InHand, Assembled
<1>7. NumberedNow' /\ BufferOrdered' /\ BufferKept' /\ AssemblyKept'
  <2>1. NumberedNow' /\ AssemblyKept'
    BY <1>1, <1>3, <1>4 DEF Kept, NumberedNow, AssemblyKept
  <2>2. BufferOrdered'
    BY <1>1 DEF Kept, BufferOrdered, After
  <2>3. BufferKept'
    BY <1>1, <1>5, <1>6 DEF Kept, BufferKept
  <2>4. QED
    BY <2>1, <2>2, <2>3
<1>8. AcksKept'
  BY <1>1, <1>5, <1>6 DEF Kept, AcksKept, Done, After
<1>9. WireKept'
  <2> DEFINE old == wire[conn]
  <2>1. old \in Seq(Pieces) /\ buf \in Seq(Pieces) /\ wire'[conn'] = old \o buf
    BY <1>1, HereFacts DEF IInv, Typed
  <2>2. /\ \A i \in DOMAIN old : old[i].seq < seq
        /\ \A p \in Pieces : Owing(p) => InHand(p) \/ p \in Range(old)
        /\ \A p \in Pieces : \A i \in DOMAIN old :
             Owing(p) /\ After(old[i], p) => InHand(p) \/ \E j \in 1..(i - 1) : old[j] = p
    BY <1>1 DEF Kept, WireKept
  <2> HIDE DEF old
  <2>3. \A i \in DOMAIN (old \o buf) :
          \/ i \in DOMAIN old /\ (old \o buf)[i] = old[i]
          \/ i - Len(old) \in DOMAIN buf /\ (old \o buf)[i] = buf[i - Len(old)] /\ i > Len(old)
    BY <2>1
  <2>4. \A i \in DOMAIN (old \o buf) : (old \o buf)[i].seq < seq
    BY <2>2, <2>3 DEF Kept, BufferOrdered
  <2>5. \A j \in DOMAIN old : j \in DOMAIN (old \o buf) /\ (old \o buf)[j] = old[j]
    BY <2>1
  <2>6. \A p \in Pieces : Owing(p)' => InHand(p)' \/ p \in Range(old \o buf)
    BY <1>5, <1>6, <2>2, <2>5 DEF Range
  <2>7. ASSUME NEW p \in Pieces, NEW i \in DOMAIN (old \o buf), Owing(p)', After((old \o buf)[i], p)
        PROVE  InHand(p)' \/ \E j \in 1..(i - 1) : (old \o buf)[j] = p
    <3>0. Len(old) \in Nat /\ DOMAIN old = 1..Len(old) /\ i \in Nat
      BY <2>1
    <3>1. CASE InHand(p)
      BY <1>6, <3>1
    <3>2. CASE ~InHand(p) /\ i \in DOMAIN old /\ (old \o buf)[i] = old[i]
      <4>1. PICK j \in 1..(i - 1) : old[j] = p
        BY <1>5, <2>2, <2>7, <3>2
      <4>2. j \in DOMAIN old
        BY <3>0, <3>2, <4>1
      <4>3. QED
        BY <2>5, <4>1, <4>2
    <3>3. CASE ~InHand(p) /\ i > Len(old)
      <4>1. PICK j \in DOMAIN old : old[j] = p
        BY <1>5, <2>2, <2>7, <3>3 DEF Range
      <4>2. j \in 1..(i - 1)
        BY <3>0, <3>3, <4>1
      <4>3. QED
        BY <2>5, <4>1, <4>2
    <3>4. QED
      BY <2>3, <3>1, <3>2, <3>3
  <2>8. /\ \A i \in DOMAIN wire'[conn'] : wire'[conn'][i].seq < seq'
        /\ \A p \in Pieces : Owing(p)' => InHand(p)' \/ p \in Range(wire'[conn'])
        /\ \A p \in Pieces : \A i \in DOMAIN wire'[conn'] :
             Owing(p)' /\ After(wire'[conn'][i], p) =>
               InHand(p)' \/ \E j \in 1..(i - 1) : wire'[conn'][j] = p
    BY <1>1, <2>1, <2>4, <2>6, <2>7
  <2>9. QED
    BY <2>8 DEF WireKept, After
<1>10. QED
  BY <1>2, <1>7, <1>8, <1>9 DEF Kept

\* an acknowledgement takes away a beginning of the buffer that it covers
LEMMA CoveredFacts ==
  ASSUME IInv, Kept, NEW a \in Marks,
         NEW n, n = Cardinality({i \in DOMAIN buf : ~After(buf[i], a)})
  PROVE  n \in 0..Len(buf) /\ \A i \in 1..n : ~After(buf[i], a)
<1> DEFINE S == {i \in DOMAIN buf : ~After(buf[i], a)}
<1>1. buf \in Seq(Pieces) /\ Len(buf) \in Nat /\ DOMAIN buf = 1..Len(buf)
  BY DEF IInv, Typed
<1>2. IsFiniteSet(1..Len(buf)) /\ Cardinality(1..Len(buf)) = Len(buf)
  BY <1>1, FS_Interval
<1>3. S \subseteq 1..Len(buf) /\ n = Cardinality(S)
  BY <1>1
<1>4. n \in Nat /\ n <= Len(buf)
  BY <1>2, <1>3, FS_Subset, FS_CardinalityType
<1>5. ASSUME NEW i \in 1..n, After(buf[i], a) PROVE FALSE
  <2>1. i \in DOMAIN buf /\ i \in Nat /\ i >= 1
    BY <1>1, <1>4
  <2>2. ASSUME NEW j \in S PROVE j \in 1..(i - 1)
    <3>1. j \in DOMAIN buf /\ ~After(buf[j], a) /\ j \in Nat /\ j >= 1
      BY <1>1, <2>2
    <3>2. ~(i < j)
      <4> SUFFICES ASSUME i < j PROVE FALSE
        OBVIOUS
      <4>1. After(buf[j], buf[i])
        BY <2>1, <3>1 DEF Kept, BufferOrdered
      <4>2. buf[i] \in Pieces /\ buf[j] \in Pieces
        BY <1>1, <2>1, <3>1
      <4>3. a.seq \in Int /\ a.seg \in Int
        BY DEF Marks
      <4>4. QED
        BY <1>5, <3>1, <4>1, <4>2, <4>3, PieceFacts DEF After
    <3>3. i # j
      BY <1>5, <3>1
    <3>4. QED
      BY <2>1, <3>1, <3>2, <3>3
  <2>3. S \subseteq 1..(i - 1)
    BY <2>2
  <2>4. IsFiniteSet(1..(i - 1)) /\ Cardinality(1..(i - 1)) = i - 1
    BY <2>1, FS_Interval
  <2> HIDE DEF S
  <2>5. Cardinality(S) <= i - 1
    BY <2>3, <2>4, FS_Subset
  <2>6. QED
    BY <1>3, <1>4, <2>1, <2>5
<1>6. QED
  BY <1>4, <1>5

LEMMA AckKeeps == IInv /\ Kept /\ AckReceived => Kept'
<1> SUFFICES ASSUME IInv, Kept, AckReceived PROVE Kept'
  OBVIOUS
<1>1. conn # NoEpoch /\ acks[conn] # << >>
      /\ acks' = [acks EXCEPT ![conn] = Tail(@)]
      /\ UNCHANGED <<made, seq, conn, wire, session, marking, cursor, chunks, taken, strayed, gone>>
  BY DEF AckReceived
<1>2. PICK a : a = Head(acks[conn])
  OBVIOUS
<1>3. acks[conn] \in Seq(Marks) /\ a \in Marks /\ a = acks[conn][1] /\ 1 \in DOMAIN acks[conn]
      /\ conn \in Sessions /\ session[conn] = "open"
  BY <1>1, <1>2, HereFacts
<1>4. Done(a)
  BY <1>1, <1>3 DEF Kept, AcksKept
<1>5. PICK n : n = Cardinality({i \in DOMAIN buf : ~After(buf[i], a)})
  OBVIOUS
<1>6. buf' = SubSeq(buf, n + 1, Len(buf))
  BY <1>2, <1>5 DEF AckReceived
<1>7. ackedOn' = [m \in Messages |->
        IF \E p \in Range(buf) : p.msg = m /\ ~After(p, a) THEN ackedOn[m] \cup {conn} ELSE ackedOn[m]]
  BY <1>2 DEF AckReceived
<1>8. n \in 0..Len(buf) /\ \A i \in 1..n : ~After(buf[i], a)
  BY <1>3, <1>5, CoveredFacts
<1>9. buf \in Seq(Pieces) /\ Len(buf) \in Nat
  BY DEF IInv, Typed
<1>10. /\ DOMAIN buf' = 1..(Len(buf) - n)
       /\ \A i \in DOMAIN buf' : n + i \in DOMAIN buf /\ buf'[i] = buf[n + i] /\ i \in Nat
  BY <1>6, <1>8, <1>9
<1>11. ASSUME NEW p \in Range(buf), p \notin Range(buf') PROVE ~After(p, a)
  <2>1. PICK i \in DOMAIN buf : buf[i] = p
    BY DEF Range
  <2>2. i \in 1..n
    <3> SUFFICES ASSUME i \notin 1..n PROVE FALSE
      OBVIOUS
    <3>1. i - n \in DOMAIN buf' /\ n + (i - n) = i
      BY <1>8, <1>9, <1>10, <2>1
    <3>2. buf'[i - n] = p
      BY <1>10, <2>1, <3>1
    <3>3. QED
      BY <1>11, <3>1, <3>2 DEF Range
  <2>3. QED
    BY <1>8, <2>1, <2>2
<1>12. Offset' = Offset
  BY <1>1 DEF Offset
<1>13. ASSUME NEW m \in Messages, Owed(m)' PROVE Owed(m)
  <2>1. Torn(m) => Torn(m)'
    BY <1>1, <1>7 DEF Torn
  <2>2. QED
    BY <1>1, <1>13, <2>1, OwedNoMore
<1>14. ASSUME NEW p \in Pieces, Owing(p)' PROVE Owing(p) /\ p.msg \in Messages
  BY <1>12, <1>13, <1>14, PieceFacts DEF Owing
<1>15. ASSUME NEW p \in Pieces, InHand(p) PROVE InHand(p)'
  BY <1>1, <1>15 DEF InHand, Assembled
<1>16. Tables'
  <2>1. Tail(acks[conn]) \in Seq(Marks)
    BY <1>1, <1>3
  <2>2. QED
    BY <1>1, <1>7, <2>1 DEF Kept, Tables
<1>17. Unused'
  <2>1. \A e \in Sessions : session[e] = "none" => acks'[e] = acks[e]
    BY <1>1, <1>3 DEF Kept, Tables
  <2>2. \A m \in Messages : \A e \in ackedOn'[m] : e \in ackedOn[m] \/ e = conn
    BY <1>7
  <2>3. QED
    BY <1>1, <1>3, <2>1, <2>2 DEF Kept, Unused
<1>18. NumberedNow' /\ AssemblyKept'
  BY <1>1, <1>12, <1>13 DEF Kept, NumberedNow, AssemblyKept
<1>19. BufferOrdered'
  <2>1. \A i \in DOMAIN buf' : buf'[i].seq < seq
    BY <1>10 DEF Kept, BufferOrdered
  <2>2. \A i, j \in DOMAIN buf' : i < j => n + i < n + j
    BY <1>8, <1>10
  <2>3. \A i, j \in DOMAIN buf' : i < j => After(buf'[j], buf'[i])
    BY <1>10, <2>2 DEF Kept, BufferOrdered
  <2>4. QED
    BY <1>1, <2>1, <2>3 DEF BufferOrdered, After
<1>20. BufferKept'
  <2> SUFFICES ASSUME NEW p \in Pieces, Owing(p)', p \notin Range(buf')
               PROVE  InHand(p)' /\ ChunksOf[p.msg] > 1 /\ conn \in ackedOn'[p.msg]
    BY <1>1 DEF BufferKept
  <2>1. Owing(p) /\ p.msg \in Messages
    BY <1>14
  <2>2. CASE p \in Range(buf)
    <3>1. ~After(p, a)
      BY <1>11, <2>2
    <3>2. InHand(p)
      BY <1>4, <2>1, <3>1 DEF Done
    <3>3. conn \in ackedOn'[p.msg]
      BY <1>7, <2>1, <2>2, <3>1
    <3>4. ChunksOf[p.msg] > 1
      <4>1. p.seq \in DOMAIN chunks[conn] /\ p.seg < chunks[conn][p.seq]
        BY <3>2 DEF InHand, Assembled
      <4>2. p.seq + Offset = p.msg
        BY <2>1, PieceFacts DEF Owing
      <4>3. chunks[conn][p.seq] \in 1..(ChunksOf[p.msg] - 1)
        BY <1>1, <4>1, <4>2 DEF Kept, AssemblyKept
      <4>4. QED
        BY <4>3, PieceFacts
    <3>5. QED
      BY <1>15, <3>2, <3>3, <3>4
  <2>3. CASE p \notin Range(buf)
    <3>1. InHand(p) /\ ChunksOf[p.msg] > 1 /\ conn \in ackedOn[p.msg]
      BY <2>1, <2>3 DEF Kept, BufferKept
    <3>2. QED
      BY <1>7, <1>15, <2>1, <3>1
  <2>4. QED
    BY <2>2, <2>3
<1>21. WireKept'
  BY <1>1, <1>14, <1>15 DEF Kept, WireKept, After
<1>22. AcksKept'
  <2>1. ASSUME NEW b, Done(b) PROVE Done(b)'
    BY <1>1, <1>14, <1>15, <2>1 DEF Done, After
  <2>2. acks'[conn] = Tail(acks[conn])
    BY <1>1, <1>3 DEF Kept, Tables
  <2>3. ASSUME NEW i \in DOMAIN acks'[conn'] PROVE Done(acks[conn][i])'
    <3>1. i + 1 \in DOMAIN acks[conn] /\ acks'[conn'][i] = acks[conn][i + 1]
      <4>1. acks'[conn'] = Tail(acks[conn])
        BY <1>1, <2>2
      <4>2. acks[conn] \in Seq(Marks) /\ acks[conn] # << >>
        BY <1>1, <1>3
      <4>3. QED
        BY <2>3, <4>1, <4>2
    <3>2. PICK b : b = acks[conn][i + 1]
      OBVIOUS
    <3>3. Done(b)'
      BY <1>1, <2>1, <3>1, <3>2 DEF Kept, AcksKept
    <3>4. QED
      BY <3>1, <3>2, <3>3 DEF Done, After
  <2>4. Done(cursor[conn])' /\ Done(marking[conn])'
    BY <1>1, <1>14, <1>15 DEF Kept, AcksKept, Done, After
  <2>5. QED
    BY <2>3, <2>4 DEF AcksKept
<1>23. QED
  BY <1>16, <1>17, <1>18, <1>19, <1>20, <1>21, <1>22 DEF Kept

LEMMA EveryStepKeeps == IInv /\ Kept /\ [Next]_vars => Kept'
<1> SUFFICES ASSUME IInv, Kept, [Next]_vars PROVE Kept'
  OBVIOUS
<1>1. CASE Produce
  BY <1>1, ProduceKeeps
<1>2. CASE \E restarted \in BOOLEAN : Connect(restarted)
  BY <1>2, ConnectKeeps
<1>3. CASE Resend
  BY <1>3, ResendKeeps
<1>4. CASE AckReceived
  BY <1>4, AckKeeps
<1>5. CASE Lose
  BY <1>5, LoseKeeps
<1>6. CASE Move
  BY <1>6, StillKeeps DEF Move
<1>7. ASSUME NEW e \in Sessions, Read(e) PROVE Kept'
  BY <1>7, ReadKeeps
<1>8. ASSUME NEW e \in Sessions, NoteCursor(e) PROVE Kept'
  BY <1>8, NoteKeeps
<1>9. ASSUME NEW e \in Sessions, Work(e) PROVE Kept'
  BY <1>9, StillKeeps DEF Work, appVars
<1>10. ASSUME NEW e \in Sessions, CloseSession(e) PROVE Kept'
  BY <1>10, CloseKeeps
<1>11. CASE UNCHANGED vars
  BY <1>11, StillKeeps DEF vars
<1>12. QED
  BY <1>1, <1>2, <1>3, <1>4, <1>5, <1>6, <1>7, <1>8, <1>9, <1>10, <1>11 DEF Next

LEMMA NothingIsForgotten ==
  ASSUME IInv, Kept
  PROVE  NothingForgotten
<1> SUFFICES ASSUME NEW m \in 1..made, Owed(m)
             PROVE  \E s \in 1..seq : \A p \in Range(Envelopes(m, s)) :
                      p \in Range(buf) \/ (conn # NoEpoch /\ Assembled(p))
  BY DEF NothingForgotten, Owed
<1>1. m \in Messages /\ Offset \in Int /\ seq \in Nat
  BY InboundAssumption DEF IInv, Typed, Messages, Offset
<1>2. m - Offset \in 1..(seq - 1)
  BY <1>1 DEF Kept, NumberedNow
<1>3. m - Offset \in 1..seq /\ m - Offset \in Nat
  BY <1>1, <1>2
<1>4. ASSUME NEW p \in Range(Envelopes(m, m - Offset))
      PROVE  p \in Range(buf) \/ (conn # NoEpoch /\ Assembled(p))
  <2>1. p \in Pieces /\ p.msg = m /\ p.seq = m - Offset
    BY <1>1, <1>3, EnvelopeFacts DEF Range
  <2>2. Owing(p)
    BY <2>1 DEF Owing
  <2>3. QED
    BY <2>1, <2>2 DEF Kept, BufferKept, InHand
<1>5. QED
  BY <1>3, <1>4

(* Whatever is acknowledged was handed over, or waits in the assembly of    *)
(* the connection, or is lost for a reason that is named: server_envelopes  *)
(* acknowledges nothing it has forgotten, for any number of connections,    *)
(* messages and chunks, however often they are repeated or restarted.       *)
THEOREM NothingSentIsForgotten == Spec => []NothingForgotten
<1>1. Init => Kept
  BY KeptAtFirst
<1>2. IInv /\ Kept /\ [Next]_vars => Kept'
  BY EveryStepKeeps
<1>3. IInv /\ Kept => NothingForgotten
  BY NothingIsForgotten
<1>4. QED
  BY <1>1, <1>2, <1>3, InboundInvariant, PTL DEF Spec

-----------------------------------------------------------------------------
(* Enrollment: what a heartbeat may be at.  Delayed is how long its reader  *)
(* was kept from the frames since the last pong.                            *)

Kinds == {AgentOf[s] : s \in Servers} \cup {"unknown"}
Sockets == [on : BOOLEAN, kind : Kinds, initialized : BOOLEAN, age : Nat, since : Nat, pinged : BOOLEAN,
            ping : Int, check : Int, pong : Int, busy : Nat, held : Nat]

Delayed(c) == c.held - c.busy

Bounded(c) == /\ c.since <= PongTimeout /\ c.pong \in -1..MaxLatency
              /\ c.ping <= PingPeriod /\ c.check <= CheckPeriod
              /\ c.busy <= c.held /\ c.held <= MaxBlock

\* a ping comes in its period, its pong in the latency, and the reader gets to them
Prompt(c, alive) ==
  /\ ~c.pinged => /\ c.pong = -1
                  /\ c.since + c.ping <= PingPeriod
                  /\ c.since <= PingPeriod + Delayed(c)
  /\ c.pinged /\ c.pong # -1 => c.since + c.pong <= PingPeriod + MaxLatency + Delayed(c)
  /\ alive /\ c.pinged => c.pong # -1
  /\ c.since <= Delayed(c) \/ c.check >= -Delayed(c)

\* once the time is up only the next check is left
Quiet(c, n) ==
  IF c.pong # -1 THEN n + c.pong <= MaxLatency + Delayed(c)
  ELSE \/ n <= c.since
       \/ c.since = PongTimeout /\ n <= PongTimeout + CheckPeriod - c.check
       \/ c.busy = 0 /\ n <= c.since + MaxLatency + MaxBlock
       \/ /\ c.busy = 0 /\ c.since = PongTimeout /\ c.check >= 0
          /\ n <= PongTimeout + MaxLatency + MaxBlock + CheckPeriod - c.check

EnrollmentTypes ==
  /\ server \in [Servers -> [pc : {"off", "ready", "open"}, kept : Installations \cup {"none"}, alive : BOOLEAN]]
  /\ socket \in [Servers -> Sockets]
  /\ hints \in [Installations -> [kind : Kinds, age : Nat]]
  /\ silence \in Nat /\ rivals \in [Servers -> SUBSET Servers]

\* the silence is the one of the connection the summary follows, and has an end
HeartbeatsInTime ==
  /\ \A s \in Watched : socket[s].on => Bounded(socket[s]) /\ Prompt(socket[s], server[s].alive)
  /\ \A s \in Servers : ~server[s].alive => s \in Watched /\ socket[s].on
  /\ silence # 0 => summary \in Servers /\ (socket[summary].on => ~server[summary].alive)
  /\ \A s \in Servers : ~server[s].alive /\ summary = s => Quiet(socket[s], silence)

\* a hint is of an app-server that has not connected since it announced itself
HintsAreOwned ==
  /\ \A i \in Installations : hints[i].kind # "unknown" =>
       \E t \in Servers : /\ InstallationOf[t] = i /\ AgentOf[t] = hints[i].kind
                          /\ server[t].pc = "ready"
  /\ \A t \in Servers : server[t].pc = "ready" => server[t].kept = InstallationOf[t]
  /\ \A t \in Servers : socket[t].on => server[t].pc = "open"

ConnectionInv == EnrollmentTypes /\ HeartbeatsInTime /\ HintsAreOwned /\ ConnectionsAreKnown

-----------------------------------------------------------------------------
(* One connection: each thing its reader does, and time.                    *)

LEMMA EnrollmentConstants ==
  /\ MaxLatency \in Nat /\ MaxBlock \in Nat /\ PingPeriod \in Nat \ {0} /\ PongTimeout \in Nat \ {0}
  /\ HintTtl \in Nat /\ MaxRefresh \in Nat
  /\ PingPeriod + MaxLatency + MaxBlock < PongTimeout
  /\ Watched \subseteq Servers /\ CheckPeriod = 1
  /\ NoticedBy = PongTimeout + PingPeriod + MaxLatency + MaxBlock + 1
BY EnrollmentAssumption, PongAssumption DEF CheckPeriod, NoticedBy

LEMMA NextTickInPeriod ==
  ASSUME NEW late \in Nat
  PROVE  NextTick(late, PingPeriod) \in Int /\ NextTick(late, PingPeriod) <= PingPeriod
<1>1. PingPeriod \in Nat \ {0} BY EnrollmentConstants
<1>2. late % PingPeriod \in 0..(PingPeriod - 1) BY <1>1, SMT
<1> QED BY <1>1, <1>2 DEF NextTick

LEMMA QuietAtFirst ==
  ASSUME NEW c \in Sockets, Bounded(c)
  PROVE  Quiet(c, 0)
BY EnrollmentConstants DEF Sockets, Bounded, Quiet, Delayed

LEMMA QuietInTime ==
  ASSUME NEW c \in Sockets, NEW alive \in BOOLEAN, NEW n \in Nat, Bounded(c), Prompt(c, alive), Quiet(c, n)
  PROVE  n <= NoticedBy
BY EnrollmentConstants DEF Sockets, Bounded, Prompt, Quiet, Delayed

LEMMA AnsweredInTime ==
  ASSUME NEW c \in Sockets, Bounded(c), Prompt(c, TRUE), c.initialized
  PROVE  ~Stale(c)
BY EnrollmentConstants DEF Sockets, Bounded, Prompt, Delayed, Stale

\* what is not changed is not late
SameBeat(c, d) == /\ d.since = c.since /\ d.pinged = c.pinged /\ d.ping = c.ping /\ d.check = c.check
                  /\ d.pong = c.pong /\ d.busy = c.busy /\ d.held = c.held
LEMMA SameBeatInTime ==
  ASSUME NEW c \in Sockets, NEW d \in Sockets, SameBeat(c, d), NEW alive \in BOOLEAN, NEW n \in Nat
  PROVE  /\ Bounded(c) => Bounded(d)
         /\ Prompt(c, alive) => Prompt(d, alive)
         /\ Quiet(c, n) => Quiet(d, n)
BY DEF SameBeat, Bounded, Prompt, Quiet, Delayed

LEMMA OpenInTime ==
  ASSUME NEW d \in Sockets, NEW alive \in BOOLEAN,
         d.since = 0, ~d.pinged, d.ping = PingPeriod, d.check = 0, d.pong = -1, d.busy = 0, d.held = 0
  PROVE  Bounded(d) /\ Prompt(d, alive)
BY EnrollmentConstants DEF Sockets, Bounded, Prompt, Delayed

LEMMA PingInTime ==
  ASSUME NEW c \in Sockets, NEW d \in Sockets, NEW alive \in BOOLEAN, NEW n \in Nat,
         NEW latency \in 0..MaxLatency, Bounded(c), Prompt(c, alive), c.busy = 0,
         d.since = c.since, d.pinged, d.ping <= PingPeriod, d.check = c.check,
         d.pong = (IF c.pong = -1 /\ alive THEN latency ELSE c.pong), d.busy = c.busy, d.held = c.held
  PROVE  Bounded(d) /\ Prompt(d, alive) /\ (~alive /\ Quiet(c, n) => Quiet(d, n))
BY EnrollmentConstants DEF Sockets, Bounded, Prompt, Quiet, Delayed

LEMMA CheckInTime ==
  ASSUME NEW c \in Sockets, NEW d \in Sockets, NEW alive \in BOOLEAN, NEW n \in Nat,
         Bounded(c), Prompt(c, alive),
         d.since = c.since, d.pinged = c.pinged, d.ping = c.ping, d.check = CheckPeriod,
         d.pong = c.pong, d.busy = c.busy, d.held = c.held
  PROVE  Bounded(d) /\ Prompt(d, alive) /\ (~Stale(c) /\ Quiet(c, n) => Quiet(d, n))
BY EnrollmentConstants DEF Sockets, Bounded, Prompt, Quiet, Delayed, Stale

LEMMA PongInTime ==
  ASSUME NEW c \in Sockets, NEW d \in Sockets, NEW alive \in BOOLEAN, NEW n \in Nat,
         Bounded(c), c.busy = 0, c.pong = 0,
         d.since = 0, ~d.pinged, d.ping = c.ping, d.check = c.check, d.pong = -1, d.busy = c.busy, d.held = 0
  PROVE  Bounded(d) /\ Prompt(d, alive) /\ (Quiet(c, n) => Quiet(d, n))
BY EnrollmentConstants DEF Sockets, Bounded, Prompt, Quiet, Delayed

LEMMA EnvelopeInTime ==
  ASSUME NEW c \in Sockets, NEW d \in Sockets, NEW block \in 1..(MaxBlock - c.held),
         Bounded(c), Prompt(c, TRUE), c.busy = 0,
         d.since = c.since, d.pinged = c.pinged, d.ping = c.ping, d.check = c.check, d.pong = c.pong,
         d.busy = block, d.held = c.held + block
  PROVE  Bounded(d) /\ Prompt(d, TRUE)
BY EnrollmentConstants DEF Sockets, Bounded, Prompt, Delayed

\* time passes only when the reader has nothing to do, or is kept from it
LEMMA TimeInTime ==
  ASSUME NEW c \in Sockets, NEW d \in Sockets, NEW alive \in BOOLEAN, NEW n \in Nat, NEW m \in Nat, m <= n + 1,
         Bounded(c), Prompt(c, alive),
         c.busy = 0 => c.ping > 0 /\ c.check > 0 /\ c.pong # 0,
         d.since = UpTo(PongTimeout, c.since), d.pinged = c.pinged, d.ping = c.ping - 1, d.check = c.check - 1,
         d.pong = (IF c.pong > 0 THEN c.pong - 1 ELSE c.pong),
         d.busy = (IF c.busy > 0 THEN c.busy - 1 ELSE 0), d.held = c.held
  PROVE  Bounded(d) /\ Prompt(d, alive) /\ (Quiet(c, n) => Quiet(d, m))
<1>1. Bounded(d) BY EnrollmentConstants DEF Sockets, Bounded, UpTo
<1>2. Prompt(d, alive) BY EnrollmentConstants DEF Sockets, Bounded, Prompt, Delayed, UpTo
<1>3. ASSUME Quiet(c, n) PROVE Quiet(d, m)
  BY <1>3, EnrollmentConstants DEF Sockets, Bounded, Quiet, Delayed, UpTo
<1> QED BY <1>1, <1>2, <1>3

-----------------------------------------------------------------------------
(* A step of one app-server leaves the heartbeats of the others alone; the  *)
(* silence goes on or starts again.                                         *)

Goes(s) ==
  /\ \A t \in Servers \ {s} : socket'[t] = socket[t] /\ server'[t] = server[t]
  /\ (silence' = silence /\ summary' = summary) \/ silence' = 0

LEMMA OneBeatsOn ==
  ASSUME EnrollmentTypes, HeartbeatsInTime, EnrollmentTypes', NEW s \in Servers, Goes(s),
         s \in Watched /\ socket'[s].on => Bounded(socket'[s]) /\ Prompt(socket'[s], server'[s].alive),
         ~server'[s].alive => s \in Watched /\ socket'[s].on,
         summary = s /\ silence # 0 /\ silence' = silence /\ socket'[s].on => ~server'[s].alive,
         ~server'[s].alive /\ summary = s /\ silence' = silence => Quiet(socket'[s], silence)
  PROVE  HeartbeatsInTime'
<1>1. \A t \in Watched : socket'[t].on => Bounded(socket'[t]) /\ Prompt(socket'[t], server'[t].alive)
  BY EnrollmentConstants DEF HeartbeatsInTime, Goes
<1>2. \A t \in Servers : ~server'[t].alive => t \in Watched /\ socket'[t].on
  BY DEF HeartbeatsInTime, Goes
<1>3. silence' # 0 => summary' \in Servers /\ (socket'[summary'].on => ~server'[summary'].alive)
  <2> SUFFICES ASSUME silence' # 0
               PROVE  summary' \in Servers /\ (socket'[summary'].on => ~server'[summary'].alive)
    OBVIOUS
  <2>1. silence' = silence /\ summary' = summary /\ summary \in Servers
    BY DEF Goes, HeartbeatsInTime
  <2>2. CASE summary = s BY <2>1, <2>2
  <2>3. CASE summary # s BY <2>1, <2>3 DEF Goes, HeartbeatsInTime
  <2> QED BY <2>2, <2>3
<1>4. ASSUME NEW t \in Servers, ~server'[t].alive, summary' = t PROVE Quiet(socket'[t], silence')
  <2>1. socket'[t] \in Sockets BY DEF EnrollmentTypes
  <2>2. Bounded(socket'[t]) BY <1>1, <1>2, <1>4
  <2>3. CASE silence' = 0 BY <2>1, <2>2, <2>3, QuietAtFirst
  <2>4. CASE silence' # 0
    <3>1. silence' = silence /\ summary = t BY <1>4, <2>4 DEF Goes
    <3>2. CASE t = s BY <1>4, <3>1, <3>2
    <3>3. CASE t # s BY <1>4, <3>1, <3>3 DEF Goes, HeartbeatsInTime
    <3> QED BY <3>2, <3>3
  <2> QED BY <2>3, <2>4
<1> HIDE DEF Goes
<1> QED BY <1>1, <1>2, <1>3, <1>4 DEF HeartbeatsInTime

LEMMA SyncGoes ==
  ASSUME NEW s \in Servers, Sync,
         \A t \in Servers \ {s} : socket'[t] = socket[t] /\ server'[t] = server[t]
  PROVE  Goes(s)
BY DEF Sync, Goes

\* the beat of one reader, of an app-server that is left as it is
LEMMA ReaderBeatsOn ==
  ASSUME EnrollmentTypes, HeartbeatsInTime, EnrollmentTypes', NEW s \in Servers, Goes(s), UNCHANGED server,
         socket[s].on, socket'[s].on,
         s \in Watched => Bounded(socket'[s]) /\ Prompt(socket'[s], server[s].alive),
         ~server[s].alive /\ summary = s => Quiet(socket'[s], silence)
  PROVE  HeartbeatsInTime'
BY OneBeatsOn DEF HeartbeatsInTime

LEMMA ShutBeatsOn ==
  ASSUME EnrollmentTypes, HeartbeatsInTime, NEW s \in Servers, Shut(s), UNCHANGED <<hints, refreshes>>
  PROVE  EnrollmentTypes' /\ HeartbeatsInTime'
<1>1. NoSocket \in Sockets BY DEF NoSocket, Sockets, Kinds
<1>2. EnrollmentTypes' BY <1>1 DEF EnrollmentTypes, Shut, Sync
<1>3. socket'[s] = NoSocket /\ ~socket'[s].on /\ server'[s].alive
  BY DEF EnrollmentTypes, Shut, NoSocket
<1>4. Goes(s) BY SyncGoes DEF Shut, EnrollmentTypes
<1> QED BY <1>2, <1>3, <1>4, OneBeatsOn

LEMMA BeatsOn ==
  ASSUME EnrollmentTypes, HeartbeatsInTime, NEW s \in Servers,
         \/ BeInitialized(s) \/ SendPing(s) \/ ReadPongFrame(s) \/ ReadEnvelope(s)
  PROVE  EnrollmentTypes' /\ HeartbeatsInTime'
<1> DEFINE c == socket[s]
           d == socket'[s]
<1>1. c \in Sockets /\ server[s].alive \in BOOLEAN /\ silence \in Nat BY DEF EnrollmentTypes
<1>2. c.on /\ UNCHANGED server
  BY DEF BeInitialized, SendPing, ReadPongFrame, ReadEnvelope, Reads
<1>3. s \in Watched => Bounded(c) /\ Prompt(c, server[s].alive) BY <1>2 DEF HeartbeatsInTime
<1>4. ~server[s].alive /\ summary = s => Quiet(c, silence) BY DEF HeartbeatsInTime
<1>5. CASE BeInitialized(s)
  <2> DEFINE kind == IF c.kind = "unknown" THEN AgentOf[s] ELSE c.kind
  <2>1. socket' = [socket EXCEPT ![s] = [c EXCEPT !.initialized = TRUE, !.kind = kind]]
    BY <1>1, <1>5 DEF EnrollmentTypes, BeInitialized
  <2>2. d = [c EXCEPT !.initialized = TRUE, !.kind = kind] BY <2>1 DEF EnrollmentTypes
  <2>3. kind \in Kinds BY <1>1 DEF Kinds, Sockets
  <2>4. d \in Sockets BY <1>1, <2>2, <2>3 DEF Sockets
  <2>5. d.on /\ SameBeat(c, d) BY <1>1, <1>2, <2>2 DEF Sockets, SameBeat
  <2>6. EnrollmentTypes' BY <1>5, <2>1, <2>2, <2>4 DEF EnrollmentTypes, BeInitialized, Sync
  <2>7. Goes(s) BY <1>5, SyncGoes DEF BeInitialized, EnrollmentTypes
  <2> HIDE DEF c, d, kind
  <2>8. /\ s \in Watched => Bounded(d) /\ Prompt(d, server[s].alive)
        /\ ~server[s].alive /\ summary = s => Quiet(d, silence)
    BY <1>1, <1>3, <1>4, <2>4, <2>5, SameBeatInTime
  <2> QED BY <1>2, <2>5, <2>6, <2>7, <2>8, ReaderBeatsOn DEF c, d
<1>6. CASE SendPing(s)
  <2>1. PICK latency \in 0..MaxLatency :
          socket' = [socket EXCEPT ![s].pinged = TRUE, ![s].ping = NextTick(-@, PingPeriod),
                                   ![s].pong = IF @ = -1 /\ server[s].alive THEN latency ELSE @]
    BY <1>6 DEF SendPing
  <2>2. -c.ping \in Nat BY <1>1, <1>6 DEF SendPing, Sockets
  <2>3. NextTick(-c.ping, PingPeriod) \in Int /\ NextTick(-c.ping, PingPeriod) <= PingPeriod
    BY <2>2, NextTickInPeriod
  <2>4. /\ d.since = c.since /\ d.pinged /\ d.ping = NextTick(-c.ping, PingPeriod) /\ d.check = c.check
        /\ d.pong = (IF c.pong = -1 /\ server[s].alive THEN latency ELSE c.pong)
        /\ d.busy = c.busy /\ d.held = c.held /\ d.on
    BY <1>1, <1>2, <2>1 DEF EnrollmentTypes, Sockets
  <2>5. latency \in Int BY EnrollmentConstants
  <2>6. d \in Sockets BY <1>1, <2>1, <2>3, <2>5 DEF EnrollmentTypes, Sockets
  <2>7. EnrollmentTypes'
    BY <1>6, <2>1, <2>6 DEF EnrollmentTypes, SendPing, Sync, Beat
  <2>8. Goes(s) BY <1>6, <2>1, SyncGoes DEF SendPing, EnrollmentTypes
  <2>9. s \in Watched /\ c.busy = 0 BY <1>6 DEF SendPing, Reads
  <2> HIDE DEF c, d
  <2>10. /\ Bounded(d) /\ Prompt(d, server[s].alive)
         /\ ~server[s].alive /\ summary = s => Quiet(d, silence)
    BY <1>1, <1>3, <1>4, <2>3, <2>4, <2>6, <2>9, PingInTime
  <2> QED BY <1>2, <2>4, <2>7, <2>8, <2>10, ReaderBeatsOn DEF c, d
<1>7. CASE ReadPongFrame(s)
  <2>1. socket' = [socket EXCEPT ![s].pong = -1, ![s].since = 0, ![s].pinged = FALSE, ![s].held = 0]
    BY <1>7 DEF ReadPongFrame
  <2>2. /\ d.since = 0 /\ ~d.pinged /\ d.ping = c.ping /\ d.check = c.check
        /\ d.pong = -1 /\ d.busy = c.busy /\ d.held = 0 /\ d.on
    BY <1>1, <1>2, <2>1 DEF EnrollmentTypes, Sockets
  <2>3. d \in Sockets
    <3> DEFINE missing == -1
    <3>1. d = [c EXCEPT !.pong = missing, !.since = 0, !.pinged = FALSE, !.held = 0]
      BY <2>1 DEF EnrollmentTypes
    <3>2. missing \in Int OBVIOUS
    <3> HIDE DEF c, d, missing
    <3> QED BY <1>1, <3>1, <3>2 DEF Sockets
  <2>4. EnrollmentTypes' BY <1>7, <2>1, <2>3 DEF EnrollmentTypes, ReadPongFrame, Sync, Beat
  <2>5. Goes(s) BY <1>7, <2>1, SyncGoes DEF ReadPongFrame, EnrollmentTypes
  <2>6. s \in Watched /\ c.busy = 0 /\ c.pong = 0 BY <1>7 DEF ReadPongFrame, Reads
  <2> HIDE DEF c, d
  <2>7. /\ Bounded(d) /\ Prompt(d, server[s].alive)
        /\ ~server[s].alive /\ summary = s => Quiet(d, silence)
    BY <1>1, <1>3, <1>4, <2>2, <2>3, <2>6, PongInTime
  <2> QED BY <1>2, <2>2, <2>4, <2>5, <2>7, ReaderBeatsOn DEF c, d
<1>8. CASE ReadEnvelope(s)
  <2>1. PICK block \in 1..(MaxBlock - c.held) :
          socket' = [socket EXCEPT ![s].busy = block, ![s].held = @ + block]
    BY <1>8 DEF ReadEnvelope
  <2>2. /\ d.since = c.since /\ d.pinged = c.pinged /\ d.ping = c.ping /\ d.check = c.check
        /\ d.pong = c.pong /\ d.busy = block /\ d.held = c.held + block /\ d.on
    BY <1>1, <1>2, <2>1 DEF EnrollmentTypes, Sockets
  <2>3. block \in Nat BY <1>1, EnrollmentConstants DEF Sockets
  <2>4. d \in Sockets BY <1>1, <2>1, <2>3 DEF EnrollmentTypes, Sockets
  <2>5. EnrollmentTypes' BY <1>8, <2>1, <2>4 DEF EnrollmentTypes, ReadEnvelope, Sync, Beat
  <2>6. Goes(s) BY <1>8, <2>1, SyncGoes DEF ReadEnvelope, EnrollmentTypes
  <2>7. s \in Watched /\ c.busy = 0 /\ server[s].alive BY <1>8 DEF ReadEnvelope, Reads
  <2> HIDE DEF c, d
  <2>8. Prompt(c, TRUE) BY <1>1, <1>3, <2>7
  <2>9. Bounded(d) /\ Prompt(d, TRUE)
    BY <1>1, <1>3, <2>2, <2>4, <2>7, <2>8, EnvelopeInTime
  <2>10. Prompt(d, server[s].alive) BY <1>1, <2>7, <2>9
  <2> QED BY <1>2, <2>2, <2>5, <2>6, <2>7, <2>9, <2>10, ReaderBeatsOn DEF c, d
<1> QED BY <1>5, <1>6, <1>7, <1>8

LEMMA OpenBeatsOn ==
  ASSUME EnrollmentTypes, HeartbeatsInTime, NEW s \in Servers, OpenSocket(s)
  PROVE  EnrollmentTypes' /\ HeartbeatsInTime'
<1> DEFINE i == InstallationOf[s]
           none == NoSocket
<1>2. i \in Installations BY DEF Installations
<1>3. NoHint \in [kind : Kinds, age : Nat] BY DEF NoHint, Kinds
<1>4. hints[i].kind \in Kinds /\ AgentOf[s] \in Kinds /\ "unknown" \in Kinds BY <1>2 DEF EnrollmentTypes, Kinds
<1>5. PICK kind \in Kinds :
        socket' = [socket EXCEPT ![s] = [NoSocket EXCEPT !.on = TRUE, !.ping = PingPeriod, !.kind = kind]]
  <2>1. PICK agent \in {AgentOf[s], "unknown"} :
          socket' = [socket EXCEPT ![s] =
            [NoSocket EXCEPT !.on = TRUE, !.ping = PingPeriod,
                             !.kind = IF Fresh(hints[i]) THEN hints[i].kind ELSE agent]]
    BY DEF OpenSocket
  <2>2. PICK kind : kind = IF Fresh(hints[i]) THEN hints[i].kind ELSE agent OBVIOUS
  <2>3. kind \in Kinds BY <1>4, <2>2
  <2> QED BY <2>1, <2>2, <2>3
<1> DEFINE d == [NoSocket EXCEPT !.on = TRUE, !.ping = PingPeriod, !.kind = kind]
<1>1. /\ socket' = [socket EXCEPT ![s] = d] /\ hints' = TakenHint(i)
      /\ server' = [server EXCEPT ![s].pc = "open"] /\ silence' = 0
      /\ rivals' = [rivals EXCEPT ![s] = AboutToConnect(s)]
  BY <1>5 DEF OpenSocket
<1>6. d \in Sockets
  <2>1. none \in Sockets BY DEF NoSocket, Sockets, Kinds
  <2>2. d = [none EXCEPT !.on = TRUE, !.ping = PingPeriod, !.kind = kind] OBVIOUS
  <2>3. PingPeriod \in Int BY EnrollmentConstants
  <2> HIDE DEF none, d
  <2> QED BY <2>1, <2>2, <2>3 DEF Sockets
<1>7. /\ d.on /\ d.since = 0 /\ ~d.pinged /\ d.ping = PingPeriod /\ d.check = 0
      /\ d.pong = -1 /\ d.busy = 0 /\ d.held = 0
  BY DEF NoSocket
<1> HIDE DEF d
<1>8. socket' \in [Servers -> Sockets] BY <1>1, <1>6 DEF EnrollmentTypes
<1>9. hints' \in [Installations -> [kind : Kinds, age : Nat]]
  BY <1>1, <1>3 DEF EnrollmentTypes, TakenHint
<1>10. server' \in [Servers -> [pc : {"off", "ready", "open"}, kept : Installations \cup {"none"}, alive : BOOLEAN]]
  BY <1>1 DEF EnrollmentTypes
<1>11. EnrollmentTypes'
  <2>1. rivals' \in [Servers -> SUBSET Servers] BY <1>1 DEF EnrollmentTypes, AboutToConnect
  <2> QED BY <1>1, <1>8, <1>9, <1>10, <2>1 DEF EnrollmentTypes
<1>12. socket'[s] = d /\ server'[s].alive = server[s].alive /\ server[s].alive \in BOOLEAN
  BY <1>1 DEF EnrollmentTypes
<1>13. Goes(s) BY <1>1 DEF Goes, EnrollmentTypes
<1>14. Bounded(d) /\ Prompt(d, server'[s].alive) BY <1>6, <1>7, <1>12, OpenInTime
<1>15. ~server'[s].alive => s \in Watched BY <1>12 DEF HeartbeatsInTime
<1>16. Quiet(d, 0) BY <1>6, <1>14, QuietAtFirst
<1>17. silence \in Nat BY DEF EnrollmentTypes
<1> QED BY <1>1, <1>7, <1>11, <1>12, <1>13, <1>14, <1>15, <1>16, <1>17, OneBeatsOn

LEMMA SilentBeatsOn ==
  ASSUME EnrollmentTypes, HeartbeatsInTime, NEW s \in Servers, FallSilent(s)
  PROVE  EnrollmentTypes' /\ HeartbeatsInTime'
<1>1. EnrollmentTypes' BY DEF EnrollmentTypes, FallSilent
<1>2. /\ socket' = socket /\ ~server'[s].alive /\ s \in Watched /\ socket[s].on /\ server[s].alive
      /\ silence' = silence /\ summary' = summary
  BY DEF EnrollmentTypes, FallSilent
<1>3. Goes(s) BY DEF Goes, FallSilent, EnrollmentTypes
<1>4. socket[s] \in Sockets BY DEF EnrollmentTypes
<1>5. Bounded(socket[s]) /\ Prompt(socket[s], TRUE) BY <1>2 DEF HeartbeatsInTime, Prompt
<1>6. Prompt(socket[s], server'[s].alive) BY <1>2, <1>5 DEF Prompt
<1>7. ASSUME summary = s PROVE Quiet(socket[s], silence)
  <2>1. silence = 0 BY <1>2, <1>7 DEF HeartbeatsInTime
  <2> QED BY <1>4, <1>5, <2>1, QuietAtFirst
<1> QED BY <1>1, <1>2, <1>3, <1>5, <1>6, <1>7, OneBeatsOn

LEMMA CheckBeatsOn ==
  ASSUME EnrollmentTypes, HeartbeatsInTime, HeartbeatsTellTheTruth, NEW s \in Servers, CheckSocket(s)
  PROVE  EnrollmentTypes' /\ HeartbeatsInTime' /\ \A g \in givenUp' : g[1] # g[2]
<1> DEFINE c == socket[s]
           d == socket'[s]
<1>1. c \in Sockets /\ server[s].alive \in BOOLEAN /\ silence \in Nat BY DEF EnrollmentTypes
<1>2. s \in Watched /\ c.on /\ c.busy = 0 BY DEF CheckSocket, Reads
<1>3. Bounded(c) /\ Prompt(c, server[s].alive) BY <1>2 DEF HeartbeatsInTime
<1>4. CASE summary # Nobody /\ Stale(socket[summary])
  <2>1. /\ Shut(s) /\ UNCHANGED <<hints, refreshes>>
        /\ givenUp' = IF server[s].alive /\ c.initialized THEN givenUp \cup {<<s, summary>>} ELSE givenUp
    BY <1>4 DEF CheckSocket, Beat
  <2>2. ASSUME server[s].alive, c.initialized PROVE s # summary
    <3>1. Prompt(c, TRUE) BY <1>3, <2>2 DEF Prompt
    <3>2. ~Stale(c) BY <1>1, <1>3, <2>2, <3>1, AnsweredInTime
    <3> QED BY <1>4, <3>2
  <2>3. \A g \in givenUp' : g[1] # g[2] BY <2>1, <2>2 DEF HeartbeatsTellTheTruth
  <2> QED BY <2>1, <2>3, ShutBeatsOn
<1>5. CASE ~(summary # Nobody /\ Stale(socket[summary]))
  <2>1. /\ socket' = [socket EXCEPT ![s].check = CheckPeriod]
        /\ UNCHANGED <<server, recent, summary, givenUp, silence, hints, refreshes, rivals>>
    BY <1>5 DEF CheckSocket, Beat
  <2>2. /\ d.since = c.since /\ d.pinged = c.pinged /\ d.ping = c.ping /\ d.check = CheckPeriod
        /\ d.pong = c.pong /\ d.busy = c.busy /\ d.held = c.held /\ d.on
    BY <1>1, <1>2, <2>1 DEF EnrollmentTypes, Sockets
  <2>3. d \in Sockets
    <3>1. d = [c EXCEPT !.check = CheckPeriod] BY <2>1 DEF EnrollmentTypes
    <3> HIDE DEF c, d
    <3> QED BY <1>1, <3>1, EnrollmentConstants DEF Sockets
  <2>4. EnrollmentTypes' BY <2>1, <2>3 DEF EnrollmentTypes
  <2>5. Goes(s) BY <2>1 DEF Goes, EnrollmentTypes
  <2>6. ~server[s].alive /\ summary = s => ~Stale(c) /\ Quiet(c, silence)
    BY <1>5, EnrollmentAssumption DEF HeartbeatsInTime
  <2> HIDE DEF c, d
  <2>7. /\ Bounded(d) /\ Prompt(d, server[s].alive)
        /\ ~server[s].alive /\ summary = s => Quiet(d, silence)
    BY <1>1, <1>3, <2>2, <2>3, <2>6, CheckInTime
  <2>8. HeartbeatsInTime' BY <1>2, <2>1, <2>2, <2>4, <2>5, <2>7, ReaderBeatsOn DEF c, d
  <2> QED BY <2>1, <2>4, <2>8 DEF HeartbeatsTellTheTruth
<1> QED BY <1>4, <1>5

LEMMA AgedOne ==
  ASSUME NEW c \in Sockets, c.on
  PROVE  /\ Aged(c) \in Sockets /\ Aged(c).on
         /\ Aged(c).since = UpTo(PongTimeout, c.since) /\ Aged(c).pinged = c.pinged
         /\ Aged(c).ping = c.ping - 1 /\ Aged(c).check = c.check - 1
         /\ Aged(c).pong = (IF c.pong > 0 THEN c.pong - 1 ELSE c.pong)
         /\ Aged(c).busy = (IF c.busy > 0 THEN c.busy - 1 ELSE 0) /\ Aged(c).held = c.held
         /\ Aged(c).kind = c.kind
<1> DEFINE age == UpTo(PongTimeout, c.age)
           since == UpTo(PongTimeout, c.since)
           pong == IF c.pong > 0 THEN c.pong - 1 ELSE c.pong
           busy == IF c.busy > 0 THEN c.busy - 1 ELSE 0
<1>1. Aged(c) = [c EXCEPT !.age = age, !.since = since, !.ping = c.ping - 1,
                          !.check = c.check - 1, !.pong = pong, !.busy = busy]
  BY DEF Aged, Sockets
<1>2. age \in Nat /\ since \in Nat /\ pong \in Int /\ busy \in Nat /\ c.ping - 1 \in Int /\ c.check - 1 \in Int
  BY DEF UpTo, Sockets
<1> HIDE DEF age, since, pong, busy
<1>3. Aged(c) \in Sockets BY <1>1, <1>2 DEF Sockets
<1>4. /\ Aged(c).since = since /\ Aged(c).ping = c.ping - 1 /\ Aged(c).check = c.check - 1
      /\ Aged(c).pong = pong /\ Aged(c).busy = busy /\ Aged(c).held = c.held /\ Aged(c).pinged = c.pinged
      /\ Aged(c).kind = c.kind /\ Aged(c).on
  BY <1>1 DEF Sockets
<1> QED BY <1>3, <1>4 DEF since, pong, busy

LEMMA TimeTypes ==
  ASSUME EnrollmentTypes, PassTime
  PROVE  EnrollmentTypes'
<1>1. \A s \in Servers : Aged(socket[s]) \in Sockets
  <2> SUFFICES ASSUME NEW s \in Servers PROVE Aged(socket[s]) \in Sockets OBVIOUS
  <2>1. socket[s] \in Sockets BY DEF EnrollmentTypes
  <2>2. CASE socket[s].on BY <2>1, <2>2, AgedOne
  <2>3. CASE ~socket[s].on BY <2>1, <2>3 DEF Aged
  <2> QED BY <2>2, <2>3
<1>2. socket' = [s \in Servers |-> IF s \in Watched THEN Aged(socket[s]) ELSE socket[s]] BY DEF PassTime
<1>3. socket' \in [Servers -> Sockets] BY <1>1, <1>2 DEF EnrollmentTypes
<1>4. hints' \in [Installations -> [kind : Kinds, age : Nat]]
  <2>1. \A i \in Installations : UpTo(HintTtl + 1, hints[i].age) \in Nat
    BY DEF EnrollmentTypes, UpTo
  <2>2. hints' = [i \in Installations |-> IF hints[i].kind = "unknown" THEN hints[i]
                                          ELSE [hints[i] EXCEPT !.age = UpTo(HintTtl + 1, hints[i].age)]]
    BY DEF PassTime, EnrollmentTypes
  <2> QED BY <2>1, <2>2 DEF EnrollmentTypes
<1>5. silence' \in Nat BY DEF PassTime, UpTo, EnrollmentTypes
<1>6. UNCHANGED <<server, rivals>> BY DEF PassTime
<1> QED BY <1>3, <1>4, <1>5, <1>6 DEF EnrollmentTypes

LEMMA TimeBeatsOn ==
  ASSUME EnrollmentTypes, HeartbeatsInTime, PassTime
  PROVE  HeartbeatsInTime'
<1>1. /\ UNCHANGED <<server, summary>> /\ ~\E s \in Servers : Due(s)
      /\ socket' = [s \in Servers |-> IF s \in Watched THEN Aged(socket[s]) ELSE socket[s]]
      /\ silence' = IF summary \in Servers /\ ~server[summary].alive THEN UpTo(NoticedBy + 1, silence) ELSE 0
  BY DEF PassTime
<1>2. \A s \in Servers : socket'[s] = IF s \in Watched THEN Aged(socket[s]) ELSE socket[s] BY <1>1
<1>3. \A s \in Servers : socket'[s].on = socket[s].on
  <2> SUFFICES ASSUME NEW s \in Servers PROVE socket'[s].on = socket[s].on OBVIOUS
  <2>1. socket[s] \in Sockets BY DEF EnrollmentTypes
  <2>2. CASE socket[s].on
    <3>1. socket[s].on = TRUE BY <2>1, <2>2 DEF Sockets
    <3>2. Aged(socket[s]).on = TRUE BY <2>1, <2>2, AgedOne DEF Sockets
    <3> QED BY <1>2, <3>1, <3>2
  <2>3. CASE ~socket[s].on BY <1>2, <2>3 DEF Aged
  <2> QED BY <2>2, <2>3
<1>4. silence \in Nat /\ silence' \in Nat /\ silence' <= silence + 1
  BY <1>1, EnrollmentConstants DEF EnrollmentTypes, UpTo
<1>5. ASSUME NEW s \in Watched, socket[s].on
      PROVE  /\ Bounded(socket'[s]) /\ Prompt(socket'[s], server[s].alive)
             /\ Quiet(socket[s], silence) => Quiet(socket'[s], silence')
  <2>1. s \in Servers /\ socket[s] \in Sockets /\ server[s].alive \in BOOLEAN
    BY EnrollmentConstants DEF EnrollmentTypes
  <2>2. Bounded(socket[s]) /\ Prompt(socket[s], server[s].alive) BY <1>5 DEF HeartbeatsInTime
  <2>3. socket'[s] = Aged(socket[s]) BY <1>2, <2>1
  <2>4. socket[s].busy = 0 => socket[s].ping > 0 /\ socket[s].check > 0 /\ socket[s].pong # 0
    BY <1>1, <1>5, <2>1 DEF Due, Reads, Sockets
  <2> DEFINE c == socket[s]
             d == Aged(c)
  <2>5. /\ d \in Sockets /\ d.since = UpTo(PongTimeout, c.since) /\ d.pinged = c.pinged
        /\ d.ping = c.ping - 1 /\ d.check = c.check - 1
        /\ d.pong = (IF c.pong > 0 THEN c.pong - 1 ELSE c.pong)
        /\ d.busy = (IF c.busy > 0 THEN c.busy - 1 ELSE 0) /\ d.held = c.held
    BY <1>5, <2>1, AgedOne
  <2> HIDE DEF d
  <2>6. Bounded(d) /\ Prompt(d, server[s].alive) /\ (Quiet(c, silence) => Quiet(d, silence'))
    BY <1>4, <2>1, <2>2, <2>4, <2>5, TimeInTime
  <2> QED BY <2>3, <2>6 DEF d
<1>6. \A s \in Watched : socket'[s].on => Bounded(socket'[s]) /\ Prompt(socket'[s], server'[s].alive)
  BY <1>1, <1>3, <1>5, EnrollmentConstants
<1>7. \A s \in Servers : ~server'[s].alive => s \in Watched /\ socket'[s].on
  BY <1>1, <1>3 DEF HeartbeatsInTime
<1>8. silence' # 0 => summary' \in Servers /\ (socket'[summary'].on => ~server'[summary'].alive)
  BY <1>1
<1>9. \A s \in Servers : ~server'[s].alive /\ summary' = s => Quiet(socket'[s], silence')
  BY <1>1, <1>5 DEF HeartbeatsInTime
<1> QED BY <1>6, <1>7, <1>8, <1>9 DEF HeartbeatsInTime

LEMMA SilenceEnds ==
  ASSUME EnrollmentTypes', HeartbeatsInTime', silence <= NoticedBy,
         PassTime \/ silence' = silence \/ silence' = 0
  PROVE  silence' <= NoticedBy
<1>1. silence' = 0 => silence' <= NoticedBy BY EnrollmentConstants
<1>2. ASSUME PassTime, silence' # 0 PROVE silence' <= NoticedBy
  <2>1. summary' \in Servers /\ ~server'[summary'].alive BY <1>2 DEF PassTime
  <2>2. summary' \in Watched /\ socket'[summary'].on BY <2>1 DEF HeartbeatsInTime
  <2>3. /\ socket'[summary'] \in Sockets /\ server'[summary'].alive \in BOOLEAN /\ silence' \in Nat
        /\ Bounded(socket'[summary']) /\ Prompt(socket'[summary'], server'[summary'].alive)
        /\ Quiet(socket'[summary'], silence')
    BY <2>1, <2>2 DEF EnrollmentTypes, HeartbeatsInTime
  <2> QED BY <2>3, QuietInTime
<1> QED BY <1>1, <1>2

\* what a step leaves of an app-server, unless it refreshes or connects
Stays(t) ==
  /\ \/ server'[t].pc = server[t].pc /\ server'[t].kept = server[t].kept
     \/ server[t].pc # "ready" /\ server'[t].pc # "ready"
  /\ socket'[t].on => /\ socket[t].on /\ server'[t].pc = server[t].pc /\ rivals'[t] = rivals[t]
                      /\ socket'[t].kind \in {socket[t].kind, AgentOf[t]}

\* hints stay with who announced them, until a connection takes them or a
\* refresh replaces them
LEMMA HintsStay ==
  ASSUME HintsAreOwned, UNCHANGED hints, \A t \in Servers : Stays(t)
  PROVE  HintsAreOwned'
BY DEF HintsAreOwned, Stays

LEMMA EnrollKeepsHints ==
  ASSUME EnrollmentTypes, HintsAreOwned, NEW s \in Servers, Enroll(s)
  PROVE  EnrollmentTypes' /\ HintsAreOwned'
<1>1. server' = [server EXCEPT ![s].pc = "ready", ![s].kept = InstallationOf[s]] /\ hints' = hints
      /\ UNCHANGED <<socket, silence, rivals>>
  BY DEF Enroll
<1>2. InstallationOf[s] \in Installations BY DEF Installations
<1>3. EnrollmentTypes' BY <1>1, <1>2 DEF EnrollmentTypes
<1>4. \A t \in Servers : t # s => server'[t] = server[t]
  BY <1>1 DEF EnrollmentTypes
<1>5. server'[s].pc = "ready" /\ server'[s].kept = InstallationOf[s]
  BY <1>1 DEF EnrollmentTypes
<1>6. \A t \in Servers : server[t].pc = "ready" => server'[t].pc = "ready"
  BY <1>4, <1>5
<1>7. \A t \in Servers : socket'[t].on => server'[t].pc = "open"
  BY <1>1, <1>4 DEF Enroll, HintsAreOwned
<1>8. \A t \in Servers : server'[t].pc = "ready" => server'[t].kept = InstallationOf[t]
  BY <1>4, <1>5 DEF HintsAreOwned
<1>9. \A i \in Installations : hints'[i].kind # "unknown" =>
         \E t \in Servers : /\ InstallationOf[t] = i /\ AgentOf[t] = hints'[i].kind
                            /\ server'[t].pc = "ready"
  <2> SUFFICES ASSUME NEW i \in Installations, hints'[i].kind # "unknown"
               PROVE  \E t \in Servers : /\ InstallationOf[t] = i /\ AgentOf[t] = hints'[i].kind
                                         /\ server'[t].pc = "ready"
    OBVIOUS
  <2>1. hints'[i] = hints[i] BY <1>1
  <2>2. PICK t \in Servers : /\ InstallationOf[t] = i /\ AgentOf[t] = hints[i].kind
                            /\ server[t].pc = "ready"
    BY <2>1 DEF HintsAreOwned
  <2> QED BY <1>6, <2>1, <2>2
<1>10. HintsAreOwned' BY <1>7, <1>8, <1>9 DEF HintsAreOwned
<1> QED BY <1>3, <1>10

LEMMA RefreshAnnounces ==
  ASSUME EnrollmentTypes, HintsAreOwned, NEW s \in Servers, RefreshServer(s)
  PROVE  EnrollmentTypes' /\ HintsAreOwned'
<1> DEFINE i == InstallationOf[s]
           hint == [kind |-> AgentOf[s], age |-> 0]
<1>1. UNCHANGED <<socket, silence, rivals>> BY DEF RefreshServer
<1>2. i \in Installations /\ AgentOf[s] \in Kinds BY DEF Installations, Kinds
<1>3. hint \in [kind : Kinds, age : Nat] /\ hint.kind = AgentOf[s] BY <1>2
<1>6. ~socket[s].on BY DEF RefreshServer, HintsAreOwned
<1> HIDE DEF hint
<1>4. CASE server[s].kept # i
  <2>1. server' = [server EXCEPT ![s].pc = "off", ![s].kept = "none"] /\ hints' = hints
    BY <1>4 DEF RefreshServer
  <2>2. server[s].pc # "ready" BY <1>4 DEF HintsAreOwned
  <2>3. \A t \in Servers : t # s => server'[t] = server[t]
    BY <2>1 DEF EnrollmentTypes
  <2>4. server'[s].pc = "off" BY <2>1 DEF EnrollmentTypes
  <2>5. \A t \in Servers : server'[t].pc = "ready" => server'[t] = server[t] BY <2>3, <2>4
  <2>6. \A t \in Servers : server[t].pc = "ready" => server'[t] = server[t] BY <2>2, <2>3
  <2>7. \A t \in Servers : socket'[t].on => server'[t] = server[t] BY <1>1, <1>6, <2>3
  <2>8. \A j \in Installations : hints'[j].kind # "unknown" =>
           \E t \in Servers : /\ InstallationOf[t] = j /\ AgentOf[t] = hints'[j].kind
                              /\ server'[t].pc = "ready"
    <3> SUFFICES ASSUME NEW j \in Installations, hints'[j].kind # "unknown"
                 PROVE  \E t \in Servers : /\ InstallationOf[t] = j /\ AgentOf[t] = hints'[j].kind
                                           /\ server'[t].pc = "ready"
      OBVIOUS
    <3>1. hints'[j] = hints[j] BY <2>1
    <3>2. PICK t \in Servers : /\ InstallationOf[t] = j /\ AgentOf[t] = hints[j].kind
                              /\ server[t].pc = "ready"
      BY <3>1 DEF HintsAreOwned
    <3> QED BY <2>6, <3>1, <3>2
  <2>9. \A t \in Servers : server'[t].pc = "ready" => server'[t].kept = InstallationOf[t]
    BY <2>5 DEF HintsAreOwned
  <2>10. \A t \in Servers : socket'[t].on => server'[t].pc = "open"
    BY <1>1, <2>7 DEF HintsAreOwned
  <2>11. HintsAreOwned' BY <2>8, <2>9, <2>10 DEF HintsAreOwned
  <2>12. EnrollmentTypes' BY <1>1, <2>1 DEF EnrollmentTypes
  <2> QED BY <2>11, <2>12
<1>5. CASE server[s].kept = i
  <2>1. /\ server' = [server EXCEPT ![s].pc = "ready"]
        /\ hints' = hints \/ hints' = [hints EXCEPT ![i] = hint]
    BY <1>5 DEF RefreshServer, hint
  <2>2. \A t \in Servers : t # s => server'[t] = server[t]
    BY <2>1 DEF EnrollmentTypes
  <2>3. server'[s].pc = "ready" /\ server'[s].kept = i BY <1>5, <2>1 DEF EnrollmentTypes
  <2>4. \A j \in Installations : hints'[j] = hints[j] \/ (j = i /\ hints'[j].kind = AgentOf[s])
    BY <1>2, <1>3, <2>1 DEF EnrollmentTypes
  <2>5. \A j \in Installations : hints'[j].kind # "unknown" =>
          \E t \in Servers : /\ InstallationOf[t] = j /\ AgentOf[t] = hints'[j].kind
                             /\ server'[t].pc = "ready"
    BY <2>2, <2>3, <2>4 DEF HintsAreOwned
  <2>6. HintsAreOwned' BY <1>1, <1>6, <2>2, <2>3, <2>5 DEF HintsAreOwned
  <2>7. EnrollmentTypes' BY <1>1, <1>2, <1>3, <2>1 DEF EnrollmentTypes
  <2> QED BY <2>6, <2>7
<1> QED BY <1>4, <1>5

LEMMA OpeningTakesTheHint ==
  ASSUME EnrollmentTypes, HintsAreOwned, KindsAreTold, NEW s \in Servers, OpenSocket(s)
  PROVE  HintsAreOwned' /\ KindsAreTold'
<1> DEFINE i == InstallationOf[s]
           about == AboutToConnect(s)
<1>1. i \in Installations BY DEF Installations
<1>2. hints' = [hints EXCEPT ![i] = NoHint] /\ server' = [server EXCEPT ![s].pc = "open"]
      /\ rivals' = [rivals EXCEPT ![s] = about]
  BY DEF OpenSocket, TakenHint
<1>3. hints'[i].kind = "unknown" /\ \A j \in Installations : j # i => hints'[j] = hints[j]
  BY <1>1, <1>2 DEF NoHint, EnrollmentTypes
<1>4. server'[s].pc = "open" /\ \A t \in Servers : t # s => server'[t] = server[t]
  BY <1>2 DEF EnrollmentTypes
<1>10. \A t \in Servers : t # s => socket'[t] = socket[t]
  BY DEF OpenSocket, EnrollmentTypes
<1>5. HintsAreOwned'
  <2>1. \A j \in Installations : hints'[j].kind # "unknown" =>
          \E t \in Servers : /\ InstallationOf[t] = j /\ AgentOf[t] = hints'[j].kind
                             /\ server'[t].pc = "ready"
    BY <1>3, <1>4 DEF HintsAreOwned
  <2>2. \A t \in Servers : server'[t].pc = "ready" => server'[t].kept = InstallationOf[t]
    BY <1>4 DEF HintsAreOwned
  <2>3. \A t \in Servers : socket'[t].on => server'[t].pc = "open"
    BY <1>4, <1>10 DEF HintsAreOwned
  <2> QED BY <2>1, <2>2, <2>3 DEF HintsAreOwned
<1>6. PICK agent \in {AgentOf[s], "unknown"} :
        socket'[s].kind = IF Fresh(hints[i]) THEN hints[i].kind ELSE agent
  BY DEF OpenSocket, EnrollmentTypes, NoSocket
<1>7. Fresh(hints[i]) => \E t \in {s} \cup about : AgentOf[t] = hints[i].kind
  BY <1>1 DEF Fresh, HintsAreOwned, AboutToConnect
<1>8. socket'[s].kind \in {"unknown", AgentOf[s]} \cup {AgentOf[t] : t \in about}
  BY <1>6, <1>7
<1>9. rivals'[s] = about /\ \A t \in Servers : t # s => rivals'[t] = rivals[t]
  BY <1>2 DEF EnrollmentTypes
<1> HIDE DEF about
<1>11. KindsAreTold' BY <1>8, <1>9, <1>10 DEF KindsAreTold
<1> QED BY <1>5, <1>11

\* no step but an opening gives a connection a kind that is not its own
LEMMA KindsStay ==
  ASSUME KindsAreTold,
         \A t \in Servers :
           \/ ~socket'[t].on
           \/ /\ rivals'[t] = rivals[t] /\ (socket'[t].on => socket[t].on)
              /\ socket'[t].kind \in {socket[t].kind, AgentOf[t]}
  PROVE  KindsAreTold'
BY DEF KindsAreTold

LEMMA EnrollmentInitially == EnrollmentInit => ConnectionInv
<1> SUFFICES ASSUME EnrollmentInit PROVE ConnectionInv OBVIOUS
<1>1. NoSocket \in Sockets /\ ~NoSocket.on BY DEF NoSocket, Sockets, Kinds
<1>2. NoHint \in [kind : Kinds, age : Nat] /\ NoHint.kind = "unknown" BY DEF NoHint, Kinds
<1>3. EnrollmentTypes BY <1>1, <1>2 DEF EnrollmentInit, EnrollmentTypes
<1>4. \A s \in Servers : socket[s] = NoSocket /\ server[s].alive /\ server[s].pc = "off"
  BY DEF EnrollmentInit
<1>5. \A i \in Installations : hints[i].kind = "unknown" BY <1>2 DEF EnrollmentInit
<1>6. silence = 0 /\ givenUp = {} BY DEF EnrollmentInit
<1>7. HeartbeatsInTime BY <1>1, <1>4, <1>6, EnrollmentConstants DEF HeartbeatsInTime
<1>8. HintsAreOwned /\ KindsAreTold BY <1>1, <1>4, <1>5 DEF HintsAreOwned, KindsAreTold
<1>9. HeartbeatsTellTheTruth BY <1>6, EnrollmentConstants DEF HeartbeatsTellTheTruth
<1> QED BY <1>3, <1>7, <1>8, <1>9 DEF ConnectionInv, ConnectionsAreKnown

\* enrolling and refreshing leave the heartbeats alone
LEMMA HttpBeatsOn ==
  ASSUME EnrollmentTypes, HeartbeatsInTime, EnrollmentTypes', NEW s \in Servers, Enroll(s) \/ RefreshServer(s)
  PROVE  HeartbeatsInTime'
<1>1. socket' = socket /\ silence' = silence /\ summary' = summary BY DEF Enroll, RefreshServer
<1>2. \A t \in Servers : server'[t].alive = server[t].alive
  BY DEF Enroll, RefreshServer, EnrollmentTypes
<1>3. silence # 0 => summary \in Servers /\ (socket[summary].on => ~server'[summary].alive)
  BY <1>2 DEF HeartbeatsInTime
<1> QED BY <1>1, <1>2, <1>3, EnrollmentConstants DEF HeartbeatsInTime

LEMMA EnrollmentStep ==
  ASSUME ConnectionInv, [EnrollmentNext]_enrollmentVars
  PROVE  ConnectionInv'
<1> USE DEF ConnectionInv, ConnectionsAreKnown
<1>1. \A g \in givenUp : g[1] # g[2] BY DEF HeartbeatsTellTheTruth
<1>2. silence <= NoticedBy BY DEF HeartbeatsTellTheTruth
<1>3. CASE UNCHANGED enrollmentVars
  BY <1>3 DEF enrollmentVars, EnrollmentTypes, HeartbeatsInTime, HintsAreOwned, KindsAreTold,
              HeartbeatsTellTheTruth
<1>4. CASE PassTime
  <2>1. EnrollmentTypes' /\ HeartbeatsInTime' BY <1>4, TimeTypes, TimeBeatsOn
  <2>2. silence' <= NoticedBy BY <1>2, <1>4, <2>1, SilenceEnds
  <2>3. UNCHANGED <<server, givenUp, rivals>> BY <1>4 DEF PassTime
  <2>4. \A i \in Installations : hints'[i].kind = hints[i].kind
    BY <1>4 DEF PassTime, EnrollmentTypes
  <2>5. ASSUME NEW s \in Servers PROVE socket'[s].kind = socket[s].kind /\ (socket'[s].on => socket[s].on)
    <3>1. socket[s] \in Sockets BY DEF EnrollmentTypes
    <3>2. socket'[s] = IF s \in Watched THEN Aged(socket[s]) ELSE socket[s] BY <1>4 DEF PassTime
    <3>3. CASE socket[s].on
      <4>1. Aged(socket[s]).kind = socket[s].kind BY <3>1, <3>3, AgedOne
      <4> QED BY <3>2, <3>3, <4>1
    <3>4. CASE ~socket[s].on BY <3>2, <3>4 DEF Aged
    <3> QED BY <3>3, <3>4
  <2>6. HintsAreOwned' BY <2>3, <2>4, <2>5 DEF HintsAreOwned
  <2>7. KindsAreTold' BY <2>3, <2>5, KindsStay
  <2> QED BY <1>1, <2>1, <2>2, <2>3, <2>6, <2>7 DEF HeartbeatsTellTheTruth
<1>5. ASSUME NEW s \in Servers, Enroll(s) PROVE ConnectionInv'
  <2>1. EnrollmentTypes' /\ HintsAreOwned' BY <1>5, EnrollKeepsHints
  <2>2. HeartbeatsInTime' BY <1>5, <2>1, HttpBeatsOn
  <2>3. UNCHANGED <<socket, givenUp, silence, rivals>> BY <1>5 DEF Enroll
  <2>4. KindsAreTold' BY <2>3, KindsStay
  <2> QED BY <1>1, <1>2, <2>1, <2>2, <2>3, <2>4 DEF HeartbeatsTellTheTruth
<1>6. ASSUME NEW s \in Servers, RefreshServer(s) PROVE ConnectionInv'
  <2>1. EnrollmentTypes' /\ HintsAreOwned' BY <1>6, RefreshAnnounces
  <2>2. HeartbeatsInTime' BY <1>6, <2>1, HttpBeatsOn
  <2>3. UNCHANGED <<socket, givenUp, silence, rivals>> BY <1>6 DEF RefreshServer
  <2>4. KindsAreTold' BY <2>3, KindsStay
  <2> QED BY <1>1, <1>2, <2>1, <2>2, <2>3, <2>4 DEF HeartbeatsTellTheTruth
<1>7. ASSUME NEW s \in Servers, OpenSocket(s) PROVE ConnectionInv'
  <2>1. EnrollmentTypes' /\ HeartbeatsInTime' BY <1>7, OpenBeatsOn
  <2>2. HintsAreOwned' /\ KindsAreTold' BY <1>7, OpeningTakesTheHint
  <2>3. givenUp' = givenUp /\ silence' = 0 BY <1>7 DEF OpenSocket
  <2> QED BY <1>1, <2>1, <2>2, <2>3, EnrollmentConstants DEF HeartbeatsTellTheTruth
<1>8. ASSUME NEW s \in Servers,
             FallSilent(s) \/ CloseSocket(s) \/ CheckSocket(s) \/ BeInitialized(s) \/ SendPing(s)
               \/ ReadPongFrame(s) \/ ReadEnvelope(s)
      PROVE  ConnectionInv'
  <2>1. EnrollmentTypes' /\ HeartbeatsInTime' /\ (\A g \in givenUp' : g[1] # g[2])
    <3>1. CASE FallSilent(s)
      <4>1. givenUp' = givenUp BY <3>1 DEF FallSilent
      <4> QED BY <1>1, <3>1, <4>1, SilentBeatsOn
    <3>2. CASE CloseSocket(s)
      <4>1. Shut(s) /\ UNCHANGED <<hints, refreshes, givenUp>> BY <3>2 DEF CloseSocket
      <4> QED BY <1>1, <4>1, ShutBeatsOn
    <3>3. CASE CheckSocket(s) BY <3>3, CheckBeatsOn
    <3>4. CASE BeInitialized(s) \/ SendPing(s) \/ ReadPongFrame(s) \/ ReadEnvelope(s)
      <4>1. givenUp' = givenUp BY <3>4 DEF BeInitialized, SendPing, ReadPongFrame, ReadEnvelope
      <4> QED BY <1>1, <3>4, <4>1, BeatsOn
    <3> QED BY <1>8, <3>1, <3>2, <3>3, <3>4
  <2>2. silence' = silence \/ silence' = 0
    BY <1>8 DEF FallSilent, CloseSocket, CheckSocket, Shut, BeInitialized, SendPing, ReadPongFrame, ReadEnvelope, Sync
  <2>3. silence' <= NoticedBy BY <1>2, <2>1, <2>2, SilenceEnds
  <2>4. hints' = hints
    BY <1>8 DEF FallSilent, CloseSocket, CheckSocket, BeInitialized, SendPing, ReadPongFrame, ReadEnvelope, Beat
  <2>5. \A t \in Servers : Stays(t)
    <3>0. \A t \in Servers : server[t] \in [pc : {"off", "ready", "open"}, kept : Installations \cup {"none"},
                                           alive : BOOLEAN] /\ socket[t] \in Sockets
      BY DEF EnrollmentTypes
    <3>1. CASE FallSilent(s)
      <4>1. server' = [server EXCEPT ![s].alive = FALSE] /\ UNCHANGED <<socket, rivals>>
        BY <3>1 DEF FallSilent
      <4>2. \A t \in Servers : server'[t].pc = server[t].pc /\ server'[t].kept = server[t].kept
        BY <4>1 DEF EnrollmentTypes
      <4> QED BY <4>1, <4>2 DEF Stays
    <3>2. ASSUME Shut(s), socket[s].on PROVE \A t \in Servers : Stays(t)
      <4>1. server[s].pc = "open" BY <3>2 DEF HintsAreOwned
      <4>2. /\ server' = [server EXCEPT ![s].pc = "off", ![s].alive = TRUE]
            /\ socket' = [socket EXCEPT ![s] = NoSocket] /\ rivals' = [rivals EXCEPT ![s] = {}]
        BY <3>2 DEF Shut
      <4>3. server'[s].pc = "off" /\ ~socket'[s].on BY <4>2 DEF EnrollmentTypes, NoSocket
      <4>4. \A t \in Servers : t # s => UNCHANGED <<server[t], socket[t], rivals[t]>>
        BY <4>2 DEF EnrollmentTypes
      <4> QED BY <4>1, <4>3, <4>4 DEF Stays
    <3>3. ASSUME UNCHANGED <<server, rivals>>, NEW d, socket' = [socket EXCEPT ![s] = d],
                 d.on => socket[s].on, d.kind \in {socket[s].kind, AgentOf[s]}
          PROVE  \A t \in Servers : Stays(t)
      <4>1. socket'[s] = d /\ \A t \in Servers : t # s => socket'[t] = socket[t]
        BY <3>3 DEF EnrollmentTypes
      <4> QED BY <3>3, <4>1 DEF Stays
    <3>4. CASE CloseSocket(s) BY <3>2, <3>4 DEF CloseSocket
    <3>5. CASE CheckSocket(s)
      <4>1. CASE Shut(s) BY <3>2, <3>5, <4>1 DEF CheckSocket, Reads
      <4>2. CASE socket' = [socket EXCEPT ![s].check = CheckPeriod] /\ UNCHANGED <<server, rivals>>
        BY <3>0, <3>3, <4>2 DEF EnrollmentTypes, Sockets
      <4> QED BY <3>5, <4>1, <4>2 DEF CheckSocket
    <3>6. CASE BeInitialized(s)
      <4>1. PICK kind : kind = IF socket[s].kind = "unknown" THEN AgentOf[s] ELSE socket[s].kind OBVIOUS
      <4>2. PICK d : d = [socket[s] EXCEPT !.initialized = TRUE, !.kind = kind] OBVIOUS
      <4>3. socket' = [socket EXCEPT ![s] = d] BY <3>6, <4>1, <4>2 DEF BeInitialized, EnrollmentTypes
      <4>4. d.on = socket[s].on /\ d.kind = kind BY <3>0, <4>2 DEF Sockets
      <4>5. UNCHANGED <<server, rivals>> BY <3>6 DEF BeInitialized
      <4> QED BY <3>3, <4>1, <4>3, <4>4, <4>5
    <3>7. CASE SendPing(s)
      <4>1. PICK latency \in 0..MaxLatency :
              socket' = [socket EXCEPT ![s].pinged = TRUE, ![s].ping = NextTick(-@, PingPeriod),
                                       ![s].pong = IF @ = -1 /\ server[s].alive THEN latency ELSE @]
        BY <3>7 DEF SendPing
      <4>2. PICK ping : ping = NextTick(-socket[s].ping, PingPeriod) OBVIOUS
      <4>3. PICK pong : pong = IF socket[s].pong = -1 /\ server[s].alive THEN latency ELSE socket[s].pong
        OBVIOUS
      <4>4. PICK d : d = [socket[s] EXCEPT !.pinged = TRUE, !.ping = ping, !.pong = pong] OBVIOUS
      <4>5. socket' = [socket EXCEPT ![s] = d] BY <4>1, <4>2, <4>3, <4>4 DEF EnrollmentTypes
      <4>6. d.on = socket[s].on /\ d.kind = socket[s].kind BY <3>0, <4>4 DEF Sockets
      <4>7. UNCHANGED <<server, rivals>> BY <3>7 DEF SendPing
      <4> QED BY <3>3, <4>5, <4>6, <4>7
    <3>8. CASE ReadPongFrame(s)
      <4>1. PICK d : d = [socket[s] EXCEPT !.pong = -1, !.since = 0, !.pinged = FALSE, !.held = 0] OBVIOUS
      <4>2. socket' = [socket EXCEPT ![s] = d] /\ UNCHANGED <<server, rivals>>
        BY <3>8, <4>1 DEF ReadPongFrame, EnrollmentTypes
      <4>3. d.on = socket[s].on /\ d.kind = socket[s].kind BY <3>0, <4>1 DEF Sockets
      <4> QED BY <3>3, <4>2, <4>3
    <3>9. CASE ReadEnvelope(s)
      <4>1. PICK block \in 1..(MaxBlock - socket[s].held) :
              socket' = [socket EXCEPT ![s].busy = block, ![s].held = @ + block]
        BY <3>9 DEF ReadEnvelope
      <4>2. PICK held : held = socket[s].held + block OBVIOUS
      <4>3. PICK d : d = [socket[s] EXCEPT !.busy = block, !.held = held] OBVIOUS
      <4>4. socket' = [socket EXCEPT ![s] = d] BY <4>1, <4>2, <4>3 DEF EnrollmentTypes
      <4>5. d.on = socket[s].on /\ d.kind = socket[s].kind BY <3>0, <4>3 DEF Sockets
      <4>6. UNCHANGED <<server, rivals>> BY <3>9 DEF ReadEnvelope
      <4> QED BY <3>3, <4>4, <4>5, <4>6
    <3> QED BY <1>8, <3>1, <3>4, <3>5, <3>6, <3>7, <3>8, <3>9
  <2>6. HintsAreOwned' BY <2>4, <2>5, HintsStay
  <2>7. KindsAreTold' BY <2>5, KindsStay DEF Stays
  <2> QED BY <2>1, <2>3, <2>6, <2>7 DEF HeartbeatsTellTheTruth
<1> HIDE DEF ConnectionInv
<1> QED BY <1>3, <1>4, <1>5, <1>6, <1>7, <1>8 DEF EnrollmentNext

(* What the hub takes a connection for, it is, for any app-servers, times   *)
(* and refreshes: of the kind of its app-server, or of another one that has *)
(* announced itself and not connected since, not given up while its         *)
(* app-server answers, and given up in time once it has fallen silent and   *)
(* the summary stays with it (websocket.rs run_websocket,                   *)
(* remote_control_backend.rs remote_control_liveness_stale_reason).         *)
THEOREM ConnectionsAreTold == EnrollmentSpec => []ConnectionsAreKnown
<1>1. EnrollmentInit => ConnectionInv BY EnrollmentInitially
<1>2. ConnectionInv /\ [EnrollmentNext]_enrollmentVars => ConnectionInv' BY EnrollmentStep
<1>3. ConnectionInv => ConnectionsAreKnown BY DEF ConnectionInv
<1> QED BY <1>1, <1>2, <1>3, PTL DEF EnrollmentSpec
=============================================================================
