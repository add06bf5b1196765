-------------------------------- MODULE Inbox --------------------------------
(***************************************************************************)
(* What the transport promises to the server-work queue: over one          *)
(* connection the messages of an app-server are taken over in the order    *)
(* they were sent, each at most once.  Messages may be missing: a stream   *)
(* can be unknown, a message malformed or torn by a lost connection.       *)
(***************************************************************************)
EXTENDS Integers, Sequences

CONSTANTS Connections,  \* connections of one stream, one after the other
          Messages      \* messages, numbered in the order they are sent

VARIABLE taken          \* per connection, the messages handed to the work queue

Init == taken = [c \in Connections |-> << >>]

Newest(c, m) == \A i \in DOMAIN taken[c] : taken[c][i] < m

Take(c, m) == /\ Newest(c, m)
              /\ taken' = [taken EXCEPT ![c] = Append(@, m)]

Next == \E c \in Connections, m \in Messages : Take(c, m)

Spec == Init /\ [][Next]_taken
=============================================================================
