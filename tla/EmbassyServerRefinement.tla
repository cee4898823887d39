---------------------- MODULE EmbassyServerRefinement ----------------------
(***************************************************************************)
(* EmbassyServer implements QupConnection.                                 *)
(***************************************************************************)
EXTENDS EmbassyServer

\* handle_request is under way: up to the response that it sends.
Serving == pc \in {"handle", "reply"}

\* The request in hand is still unanswered, and so are those not yet read.
Unanswered ==
  (IF Serving THEN <<request>> ELSE <<>>) \o inbound

AbstractFrame(f) ==
  IF f.opcode = "CHANGED"
    THEN [opcode |-> "CHANGED", code |-> 0, keyref |-> f.keyref]
    ELSE [opcode |-> f.opcode, code |-> f.code, keyref |-> f.request.keyref]

Contract == INSTANCE QupConnection WITH
  Keyrefs   <- {Keyref[s] : s \in Slots},
  up        <- pc # "stopped",
  pending   <- Unanswered,
  serving   <- Serving,
  observing <- IF pc = "stopped" THEN {} ELSE {Keyref[s] : s \in {t \in Slots : acked[t]}},
  wire      <- [i \in DOMAIN wire |-> AbstractFrame(wire[i])]

\* When requests arrive whole, the server answers each request once, in
\* order, with an answer PROTOCOL.md lists for it, and sends `!` only for
\* keys the client has been told are observed, the `!` of a WRITE after its
\* `w` (PROTOCOL.md:626).
ImplementsConnection == Contract!Spec

\* A request taken off the stream is the oldest one not yet served, and it is
\* handed to handle_request: no request is lost (PROTOCOL.md:655).
EveryRequestServed == [][
  Len(inbound') < Len(inbound) /\ pc' # "stopped" =>
    pc' = "handle" /\ request' = Head(inbound)]_vars
=============================================================================
