---------------------------- MODULE ServerInbound ----------------------------
(***************************************************************************)
(* One stream of server envelopes, from the app-server through the         *)
(* WebSocket readers of codexhub into the server-work queues               *)
(* (server_envelopes.rs, protocol.rs, server_work.rs, the end of           *)
(* run_websocket): the check of the stream, deduplication by ACK cursor,   *)
(* reassembly of chunks, hand-over and ACK, over connections that are      *)
(* lost and opened again.  An app-server that reconnects sends what was    *)
(* not acknowledged once more; one that was restarted numbers its          *)
(* envelopes from 1 again.                                                 *)
(***************************************************************************)
EXTENDS Integers, Sequences, FiniteSets, Functions

CONSTANTS MaxSession,     \* bound: connections
          MaxMessage,   \* bound: messages the app-server sends
          ChunksOf,     \* number of chunks of a message, 0 for a whole one
          Whole,        \* stands for a missing segment id: above every segment
          Malformed,    \* messages with a chunk that observe_server_chunk drops
          QueueCap,     \* capacity of a server-work queue
          MaxResend,    \* bound: repetitions on a connection
          MaxMoves      \* bound: times the registry forgets the stream or gets it back

Sessions == 1..MaxSession
Messages == 1..MaxMessage
NoEpoch == 0

ASSUME InboundAssumption ==
  /\ MaxSession \in Nat /\ MaxMessage \in Nat
  /\ Whole \in Nat /\ ChunksOf \in [Messages -> 0..Whole]
  /\ Malformed \subseteq Messages
  /\ QueueCap \in Nat \ {0} /\ MaxResend \in Nat /\ MaxMoves \in Nat

VARIABLES made,      \* external: messages produced so far
          seq,       \* external: next sequence id of the app-server
          buf,       \* external: envelopes not yet acknowledged, in order
          conn,      \* external: the connection the app-server writes to
          resends,   \* repetitions so far
          wire,      \* envelopes under way to the reader of each connection
          acks,      \* acknowledgements under way to the app-server
          moves,     \* how often the registry has forgotten the stream or got it back
          session,   \* none, open, closed: run_websocket of each connection
          marking,   \* cursor the reader has acknowledged but not yet noted
          cursor,    \* server_ack_cursors of this stream, by connection
          chunks,    \* ServerChunkMap of each reader: seq id -> next segment
          work,      \* server-work queue of each connection
          taken,     \* history: messages handed to each queue
          strayed,   \* history: messages read while the stream was unknown
          gone,      \* history: messages lost with an app-server process
          ackedOn    \* history: connections that confirmed a part of a message

appVars == <<made, seq, buf, conn, resends>>
vars == <<made, seq, buf, conn, resends, wire, acks, moves, session, marking,
          cursor, chunks, work, taken, strayed, gone, ackedOn>>

\* ack_cursor_gt
After(p, q) == p.seq > q.seq \/ (p.seq = q.seq /\ p.seg > q.seg)
Start == [seq |-> 0, seg |-> 0]

Envelopes(m, s) ==
  IF ChunksOf[m] = 0 THEN << [msg |-> m, seq |-> s, seg |-> Whole] >>
  ELSE [i \in 1..ChunksOf[m] |-> [msg |-> m, seq |-> s, seg |-> i - 1]]

Cursor(p) == [seq |-> p.seq, seg |-> p.seg]
NoMark == Start

Init ==
  /\ made = 0 /\ seq = 1 /\ buf = << >> /\ conn = NoEpoch /\ resends = 0
  /\ wire = [e \in Sessions |-> << >>] /\ acks = [e \in Sessions |-> << >>]
  /\ moves = 0
  /\ session = [e \in Sessions |-> "none"]
  /\ marking = [e \in Sessions |-> NoMark]
  /\ cursor = [e \in Sessions |-> Start]
  /\ chunks = [e \in Sessions |-> << >>]
  /\ work = [e \in Sessions |-> << >>]
  /\ taken = [e \in Sessions |-> << >>]
  /\ strayed = {} /\ gone = {}
  /\ ackedOn = [m \in Messages |-> {}]

-----------------------------------------------------------------------------
(* The app-server and the network (external).                               *)

Produce ==
  /\ made < MaxMessage
  /\ LET new == Envelopes(made + 1, seq)
     IN  /\ buf' = buf \o new
         /\ wire' = IF conn = NoEpoch THEN wire ELSE [wire EXCEPT ![conn] = @ \o new]
  /\ made' = made + 1 /\ seq' = seq + 1
  /\ UNCHANGED <<conn, resends, acks, moves, session, marking, cursor, chunks, work,
                 taken, strayed, gone, ackedOn>>

\* a new connection of the same process, or of a restarted one
Connect(restarted) ==
  /\ conn = NoEpoch
  /\ \E e \in Sessions :
       /\ session[e] = "none" /\ \A d \in 1..(e - 1) : session[d] # "none"
       /\ conn' = e
       /\ session' = [session EXCEPT ![e] = "open"]
       /\ buf' = IF restarted THEN << >> ELSE buf
       /\ wire' = [wire EXCEPT ![e] = buf']
  /\ seq' = IF restarted THEN 1 ELSE seq
  /\ gone' = IF restarted THEN gone \cup {p.msg : p \in Range(buf)} ELSE gone
  /\ UNCHANGED <<made, resends, acks, moves, marking, cursor, chunks, work, taken,
                 strayed, ackedOn>>

Resend ==
  /\ conn # NoEpoch /\ resends < MaxResend /\ buf # << >>
  /\ wire' = [wire EXCEPT ![conn] = @ \o buf]
  /\ resends' = resends + 1
  /\ UNCHANGED <<made, seq, buf, conn, acks, moves, session, marking, cursor, chunks,
                 work, taken, strayed, gone, ackedOn>>

AckReceived ==
  /\ conn # NoEpoch /\ acks[conn] # << >>
  /\ LET a == Head(acks[conn])
         covered == Cardinality({i \in DOMAIN buf : ~After(buf[i], a)})
     IN  /\ buf' = SubSeq(buf, covered + 1, Len(buf))
         /\ ackedOn' = [m \in Messages |->
              IF \E p \in Range(buf) : p.msg = m /\ ~After(p, a) THEN ackedOn[m] \cup {conn}
              ELSE ackedOn[m]]
  /\ acks' = [acks EXCEPT ![conn] = Tail(@)]
  /\ UNCHANGED <<made, seq, conn, resends, wire, moves, session, marking, cursor, chunks,
                 work, taken, strayed, gone>>

\* the connection breaks; the reader may still find envelopes in its socket
Lose ==
  /\ conn # NoEpoch
  /\ conn' = NoEpoch
  /\ UNCHANGED <<made, seq, buf, resends, wire, acks, moves, session, marking, cursor,
                 chunks, work, taken, strayed, gone, ackedOn>>

\* the client of the stream moves to another key or comes back (RemoteConnections)
Move ==
  /\ moves < MaxMoves
  /\ moves' = moves + 1
  /\ UNCHANGED <<made, seq, buf, conn, resends, wire, acks, session, marking, cursor,
                 chunks, work, taken, strayed, gone, ackedOn>>

\* is_current_remote_stream
Known == moves % 2 = 0

-----------------------------------------------------------------------------
(* The reader: handle_server_envelope.  The checks, the hand-over and the   *)
(* ACK happen without giving way to another task of the connection; the     *)
(* cursor is noted afterwards, and until then nothing else is read.         *)

Ready(e) == session[e] = "open" /\ marking[e] = NoMark /\ wire[e] # << >>

\* seeded fault: the segment is left out of the ACK of a chunk
AckSequence(e, p) == acks' = [acks EXCEPT ![e] = Append(@, [seq |-> p.seq, seg |-> Whole])]
Ack(e, p) == acks' = [acks EXCEPT ![e] = Append(@, Cursor(p))]
Mark(e, p) == marking' = [marking EXCEPT ![e] = Cursor(p)]
Drop(e) == wire' = [wire EXCEPT ![e] = Tail(@)]

\* seeded fault: only older sequence ids count as duplicates
DuplicateIfOlder(e, p) == p.seq < cursor[e].seq
Duplicate(e, p) == ~After(p, cursor[e])

\* a stream the registry does not know: acknowledged, noted, not handed over
ReadStale(e) ==
  /\ Ready(e) /\ ~Known
  /\ LET p == Head(wire[e])
     IN  Ack(e, p) /\ Mark(e, p) /\ strayed' = strayed \cup {p.msg}
  /\ Drop(e)
  /\ UNCHANGED <<appVars, moves, session, cursor, chunks, work, taken, gone, ackedOn>>

\* acknowledged again, but not noted
ReadDuplicate(e) ==
  /\ Ready(e) /\ Known /\ Duplicate(e, Head(wire[e]))
  /\ Ack(e, Head(wire[e])) /\ Drop(e)
  /\ UNCHANGED <<appVars, moves, session, marking, cursor, chunks, work, taken, strayed,
                 gone, ackedOn>>

\* enqueue_remote_server_work
Room(e) == Len(work[e]) < QueueCap
HandOver(e, m) == /\ work' = [work EXCEPT ![e] = Append(@, m)]
                  /\ taken' = [taken EXCEPT ![e] = Append(@, m)]

ReadWhole(e) ==
  /\ Ready(e) /\ Known
  /\ LET p == Head(wire[e])
     IN  /\ ~Duplicate(e, p) /\ p.seg = Whole /\ Room(e)
         /\ HandOver(e, p.msg) /\ Ack(e, p) /\ Mark(e, p)
  /\ Drop(e)
  /\ UNCHANGED <<appVars, moves, session, cursor, chunks, strayed, gone, ackedOn>>

\* observe_server_chunk: the next segment of an assembly, or the first of a
\* new one; anything else discards the assembly
Expected(e, p) == IF p.seq \in DOMAIN chunks[e] THEN chunks[e][p.seq] ELSE 0
Fits(e, p) == p.seg = Expected(e, p) /\ p.msg \notin Malformed
Final(p) == p.seg = ChunksOf[p.msg] - 1
Without(f, s) == [x \in DOMAIN f \ {s} |-> f[x]]
With(f, s, n) == [x \in DOMAIN f \cup {s} |-> IF x = s THEN n ELSE f[x]]

Chunk(e, p) == Ready(e) /\ Known /\ ~Duplicate(e, p) /\ p.seg # Whole

ReadChunk(e) ==
  /\ Ready(e)
  /\ LET p == Head(wire[e])
     IN  /\ Chunk(e, p) /\ Fits(e, p) /\ ~Final(p)
         /\ chunks' = [chunks EXCEPT ![e] = With(@, p.seq, p.seg + 1)]
         /\ Ack(e, p) /\ Mark(e, p)
  /\ Drop(e)
  /\ UNCHANGED <<appVars, moves, session, cursor, work, taken, strayed, gone, ackedOn>>

ReadLastChunk(e) ==
  /\ Ready(e)
  /\ LET p == Head(wire[e])
     IN  /\ Chunk(e, p) /\ Fits(e, p) /\ Final(p) /\ Room(e)
         /\ chunks' = [chunks EXCEPT ![e] = Without(@, p.seq)]
         /\ HandOver(e, p.msg) /\ Ack(e, p) /\ Mark(e, p)
  /\ Drop(e)
  /\ UNCHANGED <<appVars, moves, session, cursor, strayed, gone, ackedOn>>

\* seeded fault: a discarded chunk is not acknowledged
ReadBadChunkSilently(e) ==
  /\ Ready(e)
  /\ LET p == Head(wire[e])
     IN  /\ Chunk(e, p) /\ ~Fits(e, p)
         /\ chunks' = [chunks EXCEPT ![e] = Without(@, p.seq)]
         /\ Mark(e, p)
  /\ Drop(e)
  /\ UNCHANGED <<appVars, acks, moves, session, cursor, work, taken, strayed, gone, ackedOn>>

\* acknowledged all the same, so that the app-server does not wait for it
ReadBadChunk(e) ==
  /\ Ready(e)
  /\ LET p == Head(wire[e])
     IN  /\ Chunk(e, p) /\ ~Fits(e, p)
         /\ chunks' = IF p.seg < Expected(e, p) THEN chunks
                   ELSE [chunks EXCEPT ![e] = Without(@, p.seq)]
         /\ Ack(e, p) /\ Mark(e, p)
  /\ Drop(e)
  /\ UNCHANGED <<appVars, moves, session, cursor, work, taken, strayed, gone, ackedOn>>

\* mark_server_envelope_acked
NoteCursor(e) ==
  /\ marking[e] # NoMark
  /\ cursor' = [cursor EXCEPT ![e] = IF After(marking[e], @) THEN marking[e] ELSE @]
  /\ marking' = [marking EXCEPT ![e] = NoMark]
  /\ UNCHANGED <<appVars, wire, acks, moves, session, chunks, work, taken, strayed, gone, ackedOn>>

\* run_remote_server_work_queue takes the next item
Work(e) ==
  /\ session[e] = "open" /\ work[e] # << >>
  /\ work' = [work EXCEPT ![e] = Tail(@)]
  /\ UNCHANGED <<appVars, wire, acks, moves, session, marking, cursor, chunks, taken,
                 strayed, gone, ackedOn>>

\* the end of run_websocket: reader and worker are aborted, the cursors of
\* the connection removed.  The reader ends because the socket does or the
\* queue is full.  One that has acknowledged may still note its cursor.
Overflows(e) ==
  /\ Ready(e) /\ Known /\ ~Room(e)
  /\ LET p == Head(wire[e])
     IN  ~Duplicate(e, p) /\ (p.seg = Whole \/ (Fits(e, p) /\ Final(p)))

CloseSession(e) ==
  /\ session[e] = "open" /\ (conn # e \/ Overflows(e))
  /\ session' = [session EXCEPT ![e] = "closed"]
  /\ conn' = IF conn = e THEN NoEpoch ELSE conn
  /\ wire' = [wire EXCEPT ![e] = << >>] /\ acks' = [acks EXCEPT ![e] = << >>]
  /\ cursor' = [cursor EXCEPT ![e] = Start]
  /\ chunks' = [chunks EXCEPT ![e] = << >>]
  /\ work' = [work EXCEPT ![e] = << >>]
  /\ UNCHANGED <<made, seq, buf, resends, moves, marking, taken, strayed, gone, ackedOn>>

Read(e) == \/ ReadStale(e) \/ ReadDuplicate(e) \/ ReadWhole(e)
           \/ ReadChunk(e) \/ ReadLastChunk(e) \/ ReadBadChunk(e)

Next ==
  \/ Produce \/ Connect(TRUE) \/ Connect(FALSE) \/ Resend \/ AckReceived \/ Lose \/ Move
  \/ \E e \in Sessions : Read(e) \/ NoteCursor(e) \/ Work(e) \/ CloseSession(e)

(* The runtime polls the reader, which reads or ends, and the network      *)
(* delivers acknowledgements.  Nothing is assumed of the worker.            *)
Fairness == /\ \A e \in Sessions : WF_vars(Read(e) \/ CloseSession(e)) /\ WF_vars(NoteCursor(e))
            /\ WF_vars(AckReceived)

Spec == Init /\ [][Next]_vars
FairSpec == Spec /\ Fairness

-----------------------------------------------------------------------------
(* Properties.                                                              *)

(* Refinement: however envelopes are repeated, chunked or cut off, each     *)
(* connection hands over messages in order and once (server_envelopes.rs).  *)
InOrderOnce == INSTANCE Inbox WITH Connections <- Sessions
DeliversInOrder == InOrderOnce!Spec

(* An ACK takes an envelope out of the app-server's buffer for good.  So    *)
(* every message sent has been handed over, or what is no longer buffered   *)
(* waits in the assembly of the connection; only a chunked message of which *)
(* a lost connection has confirmed a part may be torn.                      *)
Assembled(p) == \E s \in DOMAIN chunks[conn] : s = p.seq /\ p.seg < chunks[conn][s]
Torn(m) == ChunksOf[m] > 1 /\ \E e \in ackedOn[m] : e # conn
Handed(m) == \E e \in Sessions : m \in Range(taken[e])
NothingForgotten ==
  \A m \in (1..made) \ (Malformed \cup strayed \cup gone) :
    \/ Handed(m) \/ Torn(m)
    \/ \E s \in 1..seq : \A p \in Range(Envelopes(m, s)) :
         p \in Range(buf) \/ (conn # NoEpoch /\ Assembled(p))

(* An app-server whose connection lasts gets rid of every envelope: none is *)
(* left without an ACK, be it repeated, malformed or for an unknown stream. *)
BufferDrains == \A e \in Sessions : [](conn = e => <>(conn # e \/ buf = << >>))
=============================================================================
