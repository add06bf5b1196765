-------------------------- MODULE ResponsesProtocol --------------------------
(***************************************************************************)
(* What Codex may see of one streamed answer: the Responses event stream.  *)
(* Items are announced once, with consecutive output indexes; they grow    *)
(* while they are open and end once, with the text of their deltas; the    *)
(* terminal event comes when every item has ended, lists each of them with *)
(* its text, and is the last event.  Sequence numbers increase.            *)
(***************************************************************************)
EXTENDS Integers, Sequences, FiniteSets

VARIABLES
  client,   \* [phase, items, output]: what the events received so far amount to
  seq       \* the sequence number of the last event

Nobody == [phase |-> "idle", items |-> <<>>, output |-> <<>>]

Kinds == {"message", "reasoning", "tool", "search"}
NewItem(kind) == [kind |-> kind, state |-> "open", part |-> "none", text |-> 0]

InPhase(phase) == client.phase = phase
Enter(phase) == client' = [client EXCEPT !.phase = phase]

Open(i) == InPhase("open") /\ client.items[i].state = "open"
Becomes(i, item) == client' = [client EXCEPT !.items[i] = item]

Created == InPhase("idle") /\ Enter("created")
InProgress == InPhase("created") /\ Enter("open")

Added ==
  /\ InPhase("open")
  /\ \E kind \in Kinds : client' = [client EXCEPT !.items = Append(@, NewItem(kind))]

PartAdded(i) ==
  /\ Open(i) /\ client.items[i].part = "none"
  /\ client.items[i].kind \in {"message", "reasoning"}
  /\ Becomes(i, [client.items[i] EXCEPT !.part = "open"])

\* text arrives in an open part
Delta(i) ==
  /\ Open(i) /\ client.items[i].part = "open"
  /\ Becomes(i, [client.items[i] EXCEPT !.text = @ + 1])

\* The full text repeats what the deltas said; arguments of a tool and the
\* progress of a search are not told apart.
Repeated(i) == Open(i) /\ UNCHANGED client

PartDone(i) ==
  /\ Open(i) /\ client.items[i].part = "open"
  /\ Becomes(i, [client.items[i] EXCEPT !.part = "done"])

Done(i) ==
  /\ Open(i) /\ client.items[i].part # "open"
  /\ Becomes(i, [client.items[i] EXCEPT !.state = "done"])

Terminal ==
  /\ InPhase("open")
  /\ \A i \in DOMAIN client.items : client.items[i].state = "done"
  /\ client' = [client EXCEPT !.phase = "ended", !.output = client'.output]
  /\ Len(client'.output) = Len(client.items)
  /\ \A i \in DOMAIN client.items : \E k \in DOMAIN client'.output :
       client'.output[k] = [index |-> i - 1, text |-> client.items[i].text]

Event ==
  /\ seq' > seq
  /\ \/ Created \/ InProgress \/ Added \/ Terminal
     \/ \E i \in DOMAIN client.items :
          PartAdded(i) \/ Delta(i) \/ Repeated(i) \/ PartDone(i) \/ Done(i)

\* The answer closes after its terminal event, or without any event at all;
\* or it breaks off with an error.
Close ==
  /\ UNCHANGED seq
  /\ \/ client.phase \in {"ended", "idle"} /\ Enter("closed")
     \/ client.phase \notin {"broken", "closed"} /\ Enter("broken")

Next == Event \/ Close
Spec == client = Nobody /\ seq = -1 /\ [][Next]_<<client, seq>>
=============================================================================
