----------------------------- MODULE MCTransport -----------------------------
(* Instances of Enrollment, RemoteConnections and ServerInbound for TLC.    *)
(* The registry is explored under every order of its critical sections.     *)
EXTENDS Enrollment, RemoteConnections, ServerInbound

\* a message in two chunks, a whole one, and one in a single bad chunk
Layout == [m \in Messages |-> IF m = 1 THEN 2 ELSE IF m = 2 THEN 0 ELSE 1]

\* bound: how long the derived stream ids may grow (a client is recreated
\* from the legacy stream at most this often in a chain)
MaxDerivation == 2
DerivationBound == \A k \in remote.known : Len(remote.cstream[k]) <= MaxDerivation

\* two app-servers of one computer, of two kinds
CONSTANTS cli, editor
OneComputer == [s \in Servers |-> "computer"]
TwoKinds == [s \in Servers |-> IF s = cli THEN "cli" ELSE "vscode"]

\* Enrollment tells how a connection comes and goes, and of what kind it is.
\* The registry takes both as given, and the readers only whether a stream is
\* known: each is explored by itself.
VARIABLE part

TransportInit ==
  /\ part \in {"enrollment", "registry", "readers"}
  /\ EnrollmentInit /\ RegistryInit /\ Init
  /\ part # "enrollment" => \A s \in Servers : server[s].kept = "none"

TransportNext ==
  /\ UNCHANGED part
  /\ \/ part = "enrollment" /\ EnrollmentNext /\ UNCHANGED <<remote, vars>>
     \/ part = "registry" /\ RegistryNext /\ UNCHANGED <<enrollmentVars, vars>>
     \/ part = "readers" /\ Next /\ UNCHANGED <<enrollmentVars, remote>>

TransportSpec == TransportInit /\ [][TransportNext]_<<part, enrollmentVars, remote, vars>> /\ Fairness
=============================================================================
