------------------------------- MODULE Streams -------------------------------
(***************************************************************************)
(* One streamed answer of the AI gateway on its way to Codex: an upstream  *)
(* that keeps to its protocol until it breaks off, the converter of its    *)
(* provider, for the gateway's own web search the envelope that joins      *)
(* several answers of the upstream into one, and the reader.               *)
(***************************************************************************)
EXTENDS ChatStream, AnthropicStream, TLC

CONSTANTS
  MaxChunk,   \* bound: upstream events with content in one answer to Codex
  MaxRound    \* bound: upstream answers joined by one envelope

VARIABLES
  via,        \* "chat", "anthropic", "glm" or "internal"; "off" when there is no answer
  upstream,   \* [phase, block, slot, left]: how far the upstream is
  conv,       \* the converter
  env,        \* the envelope: InternalSseEnvelope
  client,     \* what the reader has made of the events (see ResponsesProtocol)
  seq         \* the sequence number of the last event it received

streamVars == <<via, upstream, conv, env, client, seq>>

NoBlock == [kind |-> "none", slot |-> 0, of |-> 0, given |-> FALSE, delta |-> "", shown |-> FALSE]
Answering == [phase |-> "open", block |-> NoBlock, slot |-> 0, left |-> MaxChunk]
Nothing == [phase |-> "idle", items |-> <<>>, output |-> <<>>]

\* index_map is empty where an index was not seen; asked counts the searches
\* the upstream asked the gateway for, round its answers
NewEnvelope == [started |-> FALSE, seq |-> 0, next |-> 0, map |-> <<>>, output |-> <<>>,
                asked |-> 0, round |-> 0]

StreamInit(provider) ==
  /\ via = provider /\ conv = NewConverter /\ env = NewEnvelope
  /\ upstream = [Answering EXCEPT !.phase = IF provider = "internal" THEN "unasked" ELSE "open"]
  /\ client = Nothing /\ seq = -1

Drained == via # "off" /\ conv.queue = <<>> /\ client.phase \notin {"closed", "broken"}
Anthropic == via \in {"anthropic", "glm", "internal"}
Glm == via = "glm"
Slot == upstream.slot

-----------------------------------------------------------------------------
(* The upstream, polled when the converter's queue is empty: poll_next.    *)

Receive(next, c) ==
  /\ upstream' = next /\ conv' = c
  /\ UNCHANGED <<via, client, seq>>

Spend == [upstream EXCEPT !.left = @ - 1]

Chunk(reasoning, content, tool, finish, usage) ==
  [reasoning |-> reasoning, content |-> content, tool |-> tool, finish |-> finish, usage |-> usage]

ChatChunk ==
  /\ via = "chat" /\ Drained /\ UNCHANGED env
  /\ upstream.phase = "open" /\ upstream.left > 0
  /\ \E r, c, u \in BOOLEAN, t \in Slots \cup {-1} :
       /\ r \/ c \/ t \in Slots
       /\ Receive(Spend, ProcessChunk(conv, Chunk(r, c, t, FALSE, u)))

\* the finish reason comes once, the usage with it, before it or after it
ChatFinishes ==
  /\ via = "chat" /\ Drained /\ UNCHANGED env
  /\ \E u \in BOOLEAN :
       \/ /\ upstream.phase = "open"
          /\ Receive([upstream EXCEPT !.phase = "finished"],
                     ProcessChunk(conv, Chunk(FALSE, FALSE, -1, TRUE, u)))
       \/ /\ upstream.phase = "finished" /\ u
          /\ Receive([upstream EXCEPT !.phase = "stopped"],
                     ProcessChunk(conv, Chunk(FALSE, FALSE, -1, FALSE, u)))

MessageStart ==
  /\ Anthropic /\ Drained /\ UNCHANGED env
  /\ upstream.phase = "open" /\ ~conv.started
  /\ Receive(upstream, Begin(conv))

\* A block begins when the one before it has ended; a result names a search.
StartBlock ==
  /\ Anthropic /\ Drained
  /\ upstream.phase = "open" /\ upstream.left > 0
  /\ upstream.block = NoBlock /\ Slot \in Slots
  /\ \E kind \in {"text", "thinking", "redacted", "tool", "search", "WebSearch", "result"},
        given, shown \in BOOLEAN, of \in Slots :
       LET block == [NoBlock EXCEPT !.kind = kind, !.slot = Slot, !.given = given,
                                    !.shown = shown, !.of = of]
       IN /\ kind \in {"redacted", "tool", "result"} => ~given
          /\ shown => Glm /\ kind = "text" /\ given
          /\ IF kind = "result" THEN conv.searches[of].held ELSE of = Slot
          /\ Receive([Spend EXCEPT !.block = block], BlockStart(conv, block, Glm))
          /\ env' = [env EXCEPT !.asked = @ + IF via = "internal" /\ kind = "WebSearch" /\ given THEN 1 ELSE 0]

DeltasOf(kind) ==
  CASE kind = "text" -> {"text", "citation"}
    [] kind = "thinking" -> {"thinking", "signature"}
    [] kind \in {"tool", "search", "WebSearch"} -> {"input"}
    [] OTHER -> {}

\* shown: of a text, that GLM's is let through; of an input, that it has the query
ContinueBlock ==
  /\ Anthropic /\ Drained
  /\ upstream.phase = "open" /\ upstream.left > 0
  /\ \E delta \in DeltasOf(upstream.block.kind), shown \in BOOLEAN :
       LET block == [upstream.block EXCEPT !.delta = delta, !.shown = shown]
           learns == block.kind = "WebSearch" /\ shown /\ ~conv.searches[block.slot].query
       IN /\ shown => (delta = "text" /\ Glm) \/ block.kind \in {"search", "WebSearch"}
          /\ Receive(Spend, BlockDelta(conv, block, Glm))
          /\ env' = [env EXCEPT !.asked = @ + IF via = "internal" /\ learns THEN 1 ELSE 0]

EndBlock ==
  /\ Anthropic /\ Drained /\ UNCHANGED env
  /\ upstream.phase = "open" /\ upstream.block # NoBlock
  /\ \E shown \in BOOLEAN :
       /\ shown => conv.pending
       /\ Receive([upstream EXCEPT !.block = NoBlock, !.slot = @ + 1],
                  BlockStop(conv, [upstream.block EXCEPT !.shown = shown]))

Converted(shown) == IF via = "chat" THEN ChatDone(conv) ELSE AnthropicDone(conv, shown)

\* message_stop or [DONE]: nothing follows but the end of the bytes
Stop ==
  /\ Drained /\ UNCHANGED env
  /\ \/ upstream.phase = "open" /\ Anthropic /\ upstream.block = NoBlock
     \/ upstream.phase \in {"finished", "stopped"} /\ via = "chat"
  /\ Receive([upstream EXCEPT !.phase = "marked"], Converted(FALSE))

\* The bytes end, after the stop or, cut short, at any event.
EndOfBytes ==
  /\ Drained /\ UNCHANGED env
  /\ upstream.phase \in {"open", "finished", "stopped", "marked"}
  /\ \E shown \in BOOLEAN :
       /\ shown => conv.pending
       /\ Receive([upstream EXCEPT !.phase = "eof"], Converted(shown))

\* The connection to the upstream fails, or a request or a search of the
\* envelope does: the reader gets an error instead of a terminal event.
BreakOff ==
  /\ Drained
  /\ upstream.phase # IF via = "internal" THEN "ended" ELSE "eof"
  /\ client' = [client EXCEPT !.phase = "broken"]
  /\ UNCHANGED <<via, upstream, conv, env, seq>>

-----------------------------------------------------------------------------
(* The envelope: run_internal_web_search_stream.  Events of its own have   *)
(* no index of a converter.                                                *)

Owned(type, kind) == Event(type, 0, -2, kind, 0)

\* Seeded fault: the indexes of the round before are kept.
KeepsIndexes(e) == [e EXCEPT !.asked = 0, !.round = @ + 1]

\* begin_round: the converter's indexes start again from 0
BeginRound(e) == [e EXCEPT !.map = <<>>, !.asked = 0, !.round = @ + 1]

\* The upstream accepts the request: ensure_started, begin_round.
AskUpstream ==
  /\ upstream.phase = "unasked" /\ Drained
  /\ upstream' = [upstream EXCEPT !.phase = "open", !.block = NoBlock, !.slot = 0]
  /\ conv' = [NewConverter EXCEPT !.queue =
                IF env.started THEN <<>> ELSE <<Owned("created", ""), Owned("in_progress", "")>>]
  /\ env' = BeginRound([env EXCEPT !.started = TRUE])
  /\ UNCHANGED <<via, client, seq>>

\* The answer has been read: the searches it asked for are shown and made and
\* the upstream is asked again, or the stream is finished.
EndRound ==
  /\ via = "internal" /\ upstream.phase = "eof" /\ Drained
  /\ IF env.asked > 0
       THEN /\ env.round < MaxRound
            /\ upstream' = [upstream EXCEPT !.phase = "unasked"]
            /\ conv' = [conv EXCEPT !.queue =
                 [k \in 1..(2 * env.asked) |->
                    Owned(IF k % 2 = 1 THEN "added" ELSE "done", "search")]]
       ELSE /\ upstream' = [upstream EXCEPT !.phase = "ended"]
            /\ conv' = [conv EXCEPT !.queue =
                          <<[Owned("terminal", "") EXCEPT !.output = env.output]>>]
  /\ UNCHANGED <<via, env, client, seq>>

IsOwned(e) == e.index = -2
Swallowed(e) == ~IsOwned(e) /\ e.type \in {"created", "in_progress", "terminal"}

\* global_index, and reserve_output_index for an event of its own
GlobalIndex(n, e) ==
  CASE IsOwned(e) -> IF e.type = "added" THEN n.next ELSE n.next - 1
    [] e.index \in DOMAIN n.map -> n.map[e.index]
    [] OTHER -> n.next

\* forward_converted and emit_owned
Forwarded(n, e) == [e EXCEPT !.seq = n.seq, !.index = IF e.type \in {"created", "in_progress", "terminal"}
                                                       THEN -1 ELSE GlobalIndex(n, e)]

Forward(n, e) ==
  IF Swallowed(e) THEN n
  ELSE LET index == Forwarded(n, e).index
           fresh == index = n.next
       IN [n EXCEPT !.seq = @ + 1,
             !.next = IF fresh THEN @ + 1 ELSE @,
             !.map = IF fresh /\ ~IsOwned(e) THEN e.index :> index @@ @ ELSE @,
             !.output = IF e.type = "done" THEN Append(@, [index |-> index, text |-> e.text]) ELSE @]

-----------------------------------------------------------------------------
(* The reader.                                                             *)

\* An event that fits nothing leaves the reader with garbage.
Received(c, e) ==
  LET i == e.index + 1
      item == c.items[i]
      Now(next) == [c EXCEPT !.items[i] = next]
  IN CASE e.type = "created" -> [c EXCEPT !.phase = "created"]
       [] e.type = "in_progress" -> [c EXCEPT !.phase = "open"]
       [] e.type = "terminal" -> [c EXCEPT !.phase = "ended", !.output = e.output]
       [] e.type = "added" /\ i = Len(c.items) + 1 ->
            [c EXCEPT !.items = Append(@, [kind |-> e.kind, state |-> "open",
                                           part |-> "none", text |-> 0])]
       [] e.type # "added" /\ i \in DOMAIN c.items ->
            CASE e.type = "part_added" -> Now([item EXCEPT !.part = "open"])
              [] e.type = "delta" -> Now([item EXCEPT !.text = @ + 1])
              [] e.type = "text_done" -> Now([item EXCEPT !.text = e.text])
              [] e.type = "part_done" -> Now([item EXCEPT !.part = "done", !.text = e.text])
              [] e.type = "done" -> Now([item EXCEPT !.state = "done", !.text = e.text])
              [] OTHER -> c
       [] OTHER -> [c EXCEPT !.phase = "garbled"]

\* The reader gets the next event, from the converter or from the envelope.
Deliver ==
  /\ conv.queue # <<>>
  /\ conv' = [conv EXCEPT !.queue = Tail(@)]
  /\ LET e == Head(conv.queue)
         out == IF via = "internal" THEN Forwarded(env, e) ELSE e
     IN IF via = "internal" /\ Swallowed(e)
          THEN UNCHANGED <<env, client, seq>>
          ELSE /\ env' = IF via = "internal" THEN Forward(env, e) ELSE env
               /\ client' = Received(client, out) /\ seq' = out.seq
  /\ UNCHANGED <<via, upstream>>

\* The body of the answer ends.
BodyEnds ==
  /\ Drained
  /\ upstream.phase = IF via = "internal" THEN "ended" ELSE "eof"
  /\ client' = [client EXCEPT !.phase = "closed"]
  /\ UNCHANGED <<via, upstream, conv, env, seq>>

-----------------------------------------------------------------------------

StreamStep ==
  \/ Deliver \/ BodyEnds \/ BreakOff
  \/ ChatChunk \/ ChatFinishes
  \/ MessageStart \/ StartBlock \/ ContinueBlock \/ EndBlock
  \/ Stop \/ EndOfBytes
  \/ AskUpstream \/ EndRound

\* An answer reads as one well-formed Responses stream, whatever the provider.
Protocol == INSTANCE ResponsesProtocol
AnswersAreResponses == Protocol!Spec
=============================================================================
