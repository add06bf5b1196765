----------------------------- MODULE StreamItems -----------------------------
(***************************************************************************)
(* What the stream converters of the AI gateway share: the items they open *)
(* and close and the Responses events they queue.  A converter is a record *)
(* and every handler of the code a function from record to record.  The    *)
(* text of a message or of a reasoning item is the number of its deltas;   *)
(* the arguments of a tool are not told apart.                             *)
(***************************************************************************)
EXTENDS Integers, SequencesExt

CONSTANT Slots   \* the indexes of upstream tool calls or content blocks

Closed == [index |-> -1, part |-> FALSE, text |-> 0]
IsOpen(item) == item.index >= 0

\* A search is known by its block before its query is; only then is it announced.
NoSearch == [held |-> FALSE, query |-> FALSE, client |-> FALSE, index |-> -1]

\* next is output_index, output is completed_output
NewConverter ==
  [started |-> FALSE, finished |-> FALSE, completed |-> FALSE, usage |-> FALSE,
   seq |-> 0, next |-> 0, queue |-> <<>>, output |-> <<>>,
   message |-> Closed, reasoning |-> Closed, pending |-> FALSE,
   tools |-> [s \in Slots |-> Closed], searches |-> [s \in Slots |-> NoSearch]]

Event(type, seq, index, kind, text) ==
  [type |-> type, seq |-> seq, index |-> index, kind |-> kind, text |-> text, output |-> <<>>]

\* emit_sse with next_seq
Emit(c, type, index, text) ==
  [c EXCEPT !.queue = Append(@, Event(type, c.seq, index, "", text)), !.seq = @ + 1]

\* response.created and response.in_progress, before anything else
Begin(c) ==
  IF c.started THEN c
  ELSE Emit(Emit([c EXCEPT !.started = TRUE], "created", -1, 0), "in_progress", -1, 0)

\* emit_response_completed: the terminal event carries the completed output
Complete(c) ==
  [c EXCEPT !.queue = Append(@, [Event("terminal", c.seq, -1, "", 0) EXCEPT !.output = c.output]),
            !.seq = @ + 1, !.completed = TRUE]

\* response.output_item.added; the item takes the next output index
Announce(c, kind) ==
  [c EXCEPT !.queue = Append(@, Event("added", c.seq, c.next, kind, 0)),
            !.seq = @ + 1, !.next = @ + 1]

\* response.output_item.done; the item goes into the completed output
Finish(c, item) ==
  [Emit(c, "done", item.index, item.text) EXCEPT
     !.output = Append(@, [index |-> item.index, text |-> item.text])]

\* The part of an item is ended with the whole text, if it was begun.
EndPart(c, item) ==
  IF item.part
    THEN Emit(Emit(c, "text_done", item.index, item.text), "part_done", item.index, item.text)
    ELSE c

CloseReasoning(c) ==
  IF ~IsOpen(c.reasoning) THEN c
  ELSE [Finish(EndPart(c, c.reasoning), c.reasoning) EXCEPT !.reasoning = Closed]

CloseMessage(c) ==
  IF ~IsOpen(c.message) THEN c
  ELSE [Finish(EndPart(c, c.message), c.message) EXCEPT !.message = Closed]

OpenReasoning(c) ==
  IF IsOpen(c.reasoning) THEN c
  ELSE [Announce(c, "reasoning") EXCEPT !.reasoning = [Closed EXCEPT !.index = c.next]]

OpenMessage(c) ==
  IF IsOpen(c.message) THEN c
  ELSE [Announce(c, "message") EXCEPT !.message = [Closed EXCEPT !.index = c.next]]

OpenTool(c, s) ==
  [Announce(c, "tool") EXCEPT !.tools[s] = [Closed EXCEPT !.index = c.next]]

\* the arguments are repeated as a whole, then the call is done
CloseTool(c, s) ==
  IF ~IsOpen(c.tools[s]) THEN c
  ELSE [Finish(Emit(c, "args_done", c.tools[s].index, 0), c.tools[s]) EXCEPT !.tools[s] = Closed]

If(condition, Op(_), c) == IF condition THEN Op(c) ELSE c

\* of every slot, in ascending order
Ascending == SetToSortSeq(Slots, <)
InOrder(Op(_, _), c) == FoldLeft(Op, c, Ascending)
=============================================================================
