--------------------------- MODULE QupConnection ---------------------------
(***************************************************************************)
(* What a QUP node promises the client of one connection (PROTOCOL.md,     *)
(* "Response Ordering", "UNOBSERVE" and "CHANGED"): each request gets one  *)
(* response, in request order, either the success response of its opcode   *)
(* or an error code listed for it; a `!` is sent only for a key whose      *)
(* observation the client has been told is on, and never for a key between *)
(* the beginning of a WRITE to it and its response.  Payloads are left out.*)
(***************************************************************************)
EXTENDS Integers, Sequences

CONSTANTS
  Requests,    \* records with fields op and keyref
  Keyrefs      \* the keyrefs of the keytab

VARIABLES
  up,          \* the connection is open
  pending,     \* requests sent and not yet answered
  serving,     \* the oldest of them is being carried out
  observing,   \* the keyrefs whose last `k` was OBSERVE's
  wire         \* frames sent and not yet received

vars == <<up, pending, serving, observing, wire>>

SuccessOpcode(op) ==
  CASE op \in {"ping", "observe", "unobserve"} -> "OK"
    [] op = "identify"     -> "IDENTIFIED"
    [] op = "getcaps"      -> "CAPS"
    [] op = "getkeytablen" -> "KEYTABLEN"
    [] op = "getkey"       -> "KEY"
    [] op = "get"          -> "VALUE"
    [] op = "write"        -> "WRITTEN"

ErrorCodes(op) ==
  CASE op \in {"getkey", "unobserve"} -> {1}
    [] op \in {"get", "observe"}      -> {1, 2}
    [] op = "write"                   -> {1, 2, 3}
    [] OTHER                          -> {}

Init ==
  /\ up = FALSE /\ pending = <<>> /\ serving = FALSE
  /\ observing = {} /\ wire = <<>>

Open ==
  /\ ~up /\ up' = TRUE
  /\ UNCHANGED <<pending, serving, observing, wire>>

Close ==
  /\ up /\ up' = FALSE
  /\ pending' = <<>> /\ serving' = FALSE
  /\ observing' = {} /\ wire' = <<>>

Submit(r) ==
  /\ up /\ pending' = Append(pending, r)
  /\ UNCHANGED <<up, serving, observing, wire>>

\* The node takes up the oldest request; a WRITE may take effect from here on.
Serve ==
  /\ up /\ pending # <<>> /\ ~serving
  /\ serving' = TRUE
  /\ UNCHANGED <<up, pending, observing, wire>>

Succeed(r) ==
  /\ wire' = Append(wire, [opcode |-> SuccessOpcode(r.op), code |-> 0, keyref |-> r.keyref])
  /\ observing' = CASE r.op = "observe"   -> observing \cup ({r.keyref} \cap Keyrefs)
                    [] r.op = "unobserve" -> observing \ {r.keyref}
                    [] OTHER              -> observing

Fail(r) ==
  /\ \E c \in ErrorCodes(r.op) :
       wire' = Append(wire, [opcode |-> "ERROR", code |-> c, keyref |-> r.keyref])
  /\ UNCHANGED observing

Answer ==
  /\ up /\ pending # <<>> /\ serving
  /\ pending' = Tail(pending) /\ serving' = FALSE
  /\ Succeed(Head(pending)) \/ Fail(Head(pending))
  /\ UNCHANGED up

\* A WRITE of the key is being carried out: its `w` comes before any `!`.
Writing(k) ==
  serving /\ Head(pending).op = "write" /\ Head(pending).keyref = k

Notify(k) ==
  /\ up /\ k \in observing /\ ~Writing(k)
  /\ wire' = Append(wire, [opcode |-> "CHANGED", code |-> 0, keyref |-> k])
  /\ UNCHANGED <<up, pending, serving, observing>>

Receive ==
  /\ wire # <<>> /\ wire' = Tail(wire)
  /\ UNCHANGED <<up, pending, serving, observing>>

Next ==
  \/ Open \/ Close \/ Serve \/ Answer \/ Receive
  \/ \E r \in Requests : Submit(r)
  \/ \E k \in Keyrefs : Notify(k)

Safety == Init /\ [][Next]_vars

\* A node does not sit on a request.
Spec == Safety /\ WF_vars(Serve) /\ WF_vars(Answer)
=============================================================================
