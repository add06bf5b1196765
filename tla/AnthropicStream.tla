-------------------------- MODULE AnthropicStream --------------------------
(***************************************************************************)
(* AnthropicSseToResponsesSse: the stream of Anthropic's Messages API      *)
(* becomes a Responses stream (providers/anthropic_messages/stream*.rs).   *)
(* A message stays open over several text blocks; under the GLM profile    *)
(* text is held back until it is known not to be a private tool call, so   *)
(* shown says how much of it comes out.                                    *)
(***************************************************************************)
EXTENDS StreamItems

\* Two sequence numbers are drawn although only the first text begins a part.
Part(c, item) ==
  IF item.part THEN [c EXCEPT !.seq = @ + 1] ELSE Emit(c, "part_added", item.index, 0)

\* emit_message_text
MessageText(c) ==
  LET open == OpenMessage(c)
  IN [Emit(Part(open, open.message), "delta", open.message.index, 0) EXCEPT
        !.message.part = TRUE, !.message.text = @ + 1]

\* handle_text_delta
TextDelta(c, glm, shown) == If(~glm \/ shown, MessageText, [c EXCEPT !.pending = glm])

\* handle_citation_delta
Citation(c) ==
  LET open == OpenMessage(CloseReasoning(c))
  IN [Emit(Part(open, open.message), "annotation", open.message.index, 0) EXCEPT
        !.message.part = TRUE]

\* flush_glm_pending_text
FlushPending(c, shown) ==
  IF ~c.pending THEN c
  ELSE CloseMessage(If(shown, MessageText, [c EXCEPT !.pending = FALSE]))

\* handle_thinking_delta
ThinkingDelta(c) ==
  LET open == OpenReasoning(c)
  IN [Emit(Part(open, open.reasoning), "delta", open.reasoning.index, 0) EXCEPT
        !.reasoning.part = TRUE, !.reasoning.text = @ + 1]

\* start_tool_block
StartTool(c, s) ==
  LET closed == CloseMessage(CloseReasoning(c))
  IN IF IsOpen(closed.tools[s]) THEN closed ELSE OpenTool(closed, s)

\* emit_web_search_added_if_ready, once the query is known
AnnounceSearch(c, s) ==
  IF ~c.searches[s].query \/ c.searches[s].index >= 0 THEN c
  ELSE Emit(Emit([Announce(c, "search") EXCEPT !.searches[s].index = c.next],
                 "searching", c.next, 0), "searching", c.next, 0)

\* start_server_tool_block: a server's search, or the client's tool WebSearch
StartSearch(c, s, client, query) ==
  LET closed == CloseMessage(CloseReasoning(c))
  IN IF closed.searches[s].held THEN closed
     ELSE AnnounceSearch(
            [closed EXCEPT !.searches[s] = [held |-> TRUE, query |-> query,
                                            client |-> client, index |-> -1]], s)

\* handle_web_search_delta and handle_tool_delta
InputDelta(c, s, query) ==
  LET closed == CloseReasoning(c)
  IN IF closed.searches[s].held
       THEN AnnounceSearch([closed EXCEPT !.searches[s].query = @ \/ query], s)
     ELSE IF IsOpen(closed.tools[s])
       THEN Emit(closed, "args", closed.tools[s].index, 0)
     ELSE closed

\* close_web_search_block: one that never had a query was never announced
CloseSearch(c, s) ==
  LET ready == AnnounceSearch(c, s)
      index == ready.searches[s].index
      forgotten == [ready EXCEPT !.searches[s] = NoSearch]
  IN IF ~ready.searches[s].held \/ index < 0 THEN forgotten
     ELSE Finish(Emit(forgotten, "searching", index, 0), [Closed EXCEPT !.index = index])

\* handle_content_block_start
BlockStart(c, block, glm) ==
  LET begun == Begin(c)
      quiet == CloseReasoning(begun)
  IN CASE block.kind = "text" ->
            If(block.given, LAMBDA x : TextDelta(x, glm, block.shown),
               IF glm THEN [quiet EXCEPT !.pending = TRUE] ELSE OpenMessage(quiet))
       [] block.kind = "thinking" -> If(block.given, ThinkingDelta, quiet)
       [] block.kind = "redacted" -> OpenReasoning(quiet)
       [] block.kind = "tool" -> StartTool(begun, block.slot)
       [] block.kind = "search" -> StartSearch(begun, block.slot, FALSE, block.given)
       [] block.kind = "WebSearch" -> StartSearch(begun, block.slot, TRUE, block.given)
       [] block.kind = "result" -> CloseSearch(begun, block.of)

\* handle_content_block_delta
BlockDelta(c, block, glm) ==
  LET begun == Begin(c)
  IN CASE block.delta = "text" -> TextDelta(CloseReasoning(begun), glm, block.shown)
       [] block.delta = "citation" -> Citation(begun)
       [] block.delta = "thinking" -> ThinkingDelta(begun)
       [] block.delta = "signature" -> OpenReasoning(begun)
       [] block.delta = "input" -> InputDelta(begun, block.slot, block.shown)

\* handle_content_block_stop
BlockStop(c, block) ==
  LET s == block.slot
      closed == CloseTool(FlushPending(c, block.shown), s)
  IN IF closed.searches[s].client THEN CloseSearch(closed, s) ELSE closed

\* handle_done, at message_stop, [DONE] and the end of the upstream's bytes
AnthropicDone(c, shown) ==
  LET text == CloseMessage(FlushPending(CloseReasoning(c), shown))
      closed == InOrder(CloseSearch, InOrder(CloseTool, text))
  IN IF ~c.started THEN c ELSE IF c.completed THEN closed ELSE Complete(closed)
=============================================================================
