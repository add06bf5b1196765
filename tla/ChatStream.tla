----------------------------- MODULE ChatStream -----------------------------
(***************************************************************************)
(* ChatSseToResponsesSse: a Chat Completions stream becomes a Responses    *)
(* stream (ai_gateway/transform/responses_stream.rs).                      *)
(***************************************************************************)
EXTENDS StreamItems

\* handle_reasoning_delta
ReasoningDelta(c) ==
  LET open == OpenReasoning(CloseMessage(c))
      part == IF open.reasoning.part THEN open
              ELSE [Emit(open, "part_added", open.reasoning.index, 0) EXCEPT !.reasoning.part = TRUE]
  IN [Emit(part, "delta", part.reasoning.index, 0) EXCEPT !.reasoning.text = @ + 1]

\* handle_content_delta
ContentDelta(c) ==
  LET open == OpenMessage(CloseReasoning(c))
      part == IF open.message.part THEN open
              ELSE [Emit(open, "part_added", open.message.index, 0) EXCEPT !.message.part = TRUE]
  IN [Emit(part, "delta", part.message.index, 0) EXCEPT !.message.text = @ + 1]

\* handle_tool_call_delta: the first of a call ends what is open, except other calls
ToolDelta(c, s) ==
  LET open == IF IsOpen(c.tools[s]) THEN c
              ELSE OpenTool(CloseReasoning(CloseMessage(c)), s)
  IN Emit(open, "args", open.tools[s].index, 0)

\* handle_finish
ChatFinish(c) ==
  LET closed == [InOrder(CloseTool, CloseMessage(CloseReasoning(c))) EXCEPT !.finished = TRUE]
  IN IF closed.usage THEN Complete(closed) ELSE closed

TakeUsage(c) ==
  LET known == [c EXCEPT !.usage = TRUE]
  IN IF known.finished /\ ~known.completed THEN Complete(known) ELSE known

\* process_chunk.  A chunk holds any of a reasoning text, a content text, a
\* tool call delta, the finish reason and the usage; one without choices
\* holds only the usage.
ProcessChunk(c, chunk) ==
  LET s1 == If(chunk.reasoning, ReasoningDelta, Begin(c))
      s2 == If(chunk.content, ContentDelta, s1)
      s3 == If(chunk.tool \in Slots, LAMBDA x : ToolDelta(x, chunk.tool), s2)
      s4 == If(chunk.finish, ChatFinish, s3)
  IN If(chunk.usage, TakeUsage, s4)

\* handle_done, at [DONE] and at the end of the upstream's bytes
ChatDone(c) ==
  LET finished == IF c.finished THEN c ELSE ChatFinish(c)
  IN IF ~c.started THEN c
     ELSE IF finished.completed THEN finished ELSE Complete(finished)
=============================================================================
