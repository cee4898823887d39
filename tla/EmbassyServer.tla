--------------------------- MODULE EmbassyServer ---------------------------
(***************************************************************************)
(* The node side of one QUP connection as served by                        *)
(* crates/qup-embassy/src/lib.rs: the static Key cells that application    *)
(* tasks set, and Server::run, which races reading a request against the   *)
(* server's change notifier, answers the request and then flushes `!`      *)
(* notifications.                                                          *)
(*                                                                         *)
(* Data.  The value of a key is the number of stores made to it, so two    *)
(* stored values are never confused.  A request is a record of its opcode, *)
(* its keyref and whether its value decodes to the key's type.  A frame    *)
(* is a record; its bytes matter only where a read can stop inside it.     *)
(***************************************************************************)
EXTENDS Integers, Sequences

CONSTANTS
  NumSlots,          \* N: the length of the key registry
  Keyref,            \* the keyref of each slot of the registry
  Readable, Writable, Observable,   \* the slots with each permission
  Tasks,             \* application tasks (or interrupts) that call Key::set
  ServerTask,        \* the task that awaits Server::run
  Requests,          \* the requests the client may send
  Fragmented,        \* TRUE if a request may arrive in two pieces
  GenerationModulus, \* 2^32 in the code: Key::generation is a u32
  WireCapacity,      \* frames the transport buffers towards the client
  MaxInFlight,       \* bound: requests sent and not yet read
  MaxRequests,       \* bound: requests sent in a behaviour
  MaxUpdates,        \* bound: stores to one key by the tasks
  MaxConnections     \* bound: calls of Server::run

Slots   == 1 .. NumSlots
Writers == Tasks \cup {ServerTask}
MaxU16  == 65535

KeylessOps == {"ping", "identify", "getcaps", "getkeytablen"}
KeyedOps   == {"getkey", "get", "write", "observe", "unobserve"}
NoRequest  == [op |-> "none", keyref |-> 0, fits |-> FALSE]
Request    == [op : KeylessOps \cup KeyedOps, keyref : Nat, fits : BOOLEAN]

ASSUME RegistryAssumption ==
  /\ NumSlots \in Nat
  /\ Keyref \in [Slots -> 0 .. MaxU16]
  /\ Readable \subseteq Slots
  /\ Writable \subseteq Slots
  /\ Observable \subseteq Slots

ASSUME ClientAssumption ==
  /\ ServerTask \notin Tasks
  /\ Requests \subseteq Request
  /\ Fragmented \in BOOLEAN

ASSUME BoundAssumption ==
  /\ GenerationModulus \in Nat \ {0}
  /\ WireCapacity \in Nat \ {0}
  /\ MaxInFlight \in Nat
  /\ MaxRequests \in Nat
  /\ MaxUpdates \in Nat
  /\ MaxConnections \in Nat

VARIABLES
  value,       \* Key::value, as the number of stores
  generation,  \* Key::generation
  writer,      \* where each writer stands inside notify_changed
  attached,    \* Key::notifier is set (attach_notifiers has run)
  notified,    \* Server::notifier is signalled
  pc,          \* where Server::run stands
  request,     \* the request being answered
  result,      \* the value encoded into response_payload for it
  observed,    \* run's local `observed`
  seen,        \* run's local `seen_generation`
  cursor,      \* the index of flush_notifications' loop
  headRead,    \* the pending read_request has consumed the start of a frame
  torn,        \* a dropped read_request took the start of Head(inbound) along
  inbound,     \* requests sent by the client and not yet read
  partial,     \* only the start of the last inbound request has arrived
  wire,        \* frames written and not yet received by the client
  sent,        \* number of requests sent, for the bound
  connections, \* number of calls of Server::run, for the bound
  acked,       \* history: the last `k` sent for the slot was OBSERVE's
  known,       \* history: the value the client last got for the slot
  told         \* history: a `!` was sent for the slot after `known`

keyVars     == <<value, generation, writer, attached, notified>>
serverVars  == <<pc, request, result, observed, seen, cursor>>
readVars    == <<headRead, torn, inbound, partial, sent>>
historyVars == <<acked, known, told>>
vars == <<keyVars, serverVars, readVars, wire, connections, historyVars>>

-----------------------------------------------------------------------------
(* The registry.                                                           *)

\* keyref < key_count(): key_count is the largest keyref plus one, saturated.
InRange(k) ==
  \E s \in Slots : k < (IF Keyref[s] = MaxU16 THEN MaxU16 ELSE Keyref[s] + 1)

HasSlot(k) == \E s \in Slots : Keyref[s] = k

\* find_slot: the first slot with the keyref.
FindSlot(k) ==
  CHOOSE s \in Slots : Keyref[s] = k /\ \A t \in 1 .. s - 1 : Keyref[t] # k

Allowed(op) == CASE op = "get"     -> Readable
                 [] op = "write"   -> Writable
                 [] op = "observe" -> Observable
                 [] OTHER          -> Slots

\* Mutant: unobserve goes through the permission check that observe has.
ErrorCodeUnobserveChecked(r) ==
  IF r.op \in KeylessOps THEN 0
  ELSE IF ~InRange(r.keyref) THEN 1
  ELSE IF /\ r.op # "getkey"
          /\ ~HasSlot(r.keyref) \/ FindSlot(r.keyref) \notin Allowed(r.op) THEN 2
  ELSE IF r.op = "write" /\ ~r.fits THEN 3
  ELSE 0

\* The error code a request is answered with, 0 when it succeeds.
ErrorCode(r) ==
  IF r.op \in KeylessOps THEN 0
  ELSE IF ~InRange(r.keyref) THEN 1
  ELSE IF /\ r.op \in {"get", "write", "observe"}
          /\ ~HasSlot(r.keyref) \/ FindSlot(r.keyref) \notin Allowed(r.op) THEN 2
  ELSE IF r.op = "write" /\ ~r.fits THEN 3
  ELSE 0

\* The opcode of the success response to each request.
ReplyOpcode(op) == CASE op \in {"ping", "observe", "unobserve"} -> "OK"
                     [] op = "identify"     -> "IDENTIFIED"
                     [] op = "getcaps"      -> "CAPS"
                     [] op = "getkeytablen" -> "KEYTABLEN"
                     [] op = "getkey"       -> "KEY"
                     [] op = "get"          -> "VALUE"
                     [] op = "write"        -> "WRITTEN"

\* A response frame; its request is the one it answers (not on the wire).
Response(r, v) ==
  [opcode  |-> IF ErrorCode(r) = 0 THEN ReplyOpcode(r.op) ELSE "ERROR",
   code    |-> ErrorCode(r),
   request |-> r,
   value   |-> v]

Changed(s) == [opcode |-> "CHANGED", keyref |-> Keyref[s]]

HasObservableKeys == Observable # {}

-----------------------------------------------------------------------------
(* Key: a store, then notify_changed, whose steps other tasks interleave.  *)

Idle       == [step |-> "idle", slot |-> 0]
At(p, s)   == [step |-> p, slot |-> s]

Store(w, s) ==
  /\ writer[w] = Idle
  /\ value'  = [value EXCEPT ![s] = @ + 1]
  /\ writer' = [writer EXCEPT ![w] = At("bump", s)]

\* try_set by an application task, up to the end of the value's lock.
Set(t, s) ==
  /\ value[s] < MaxUpdates
  /\ Store(t, s)
  /\ UNCHANGED <<generation, attached, notified, serverVars, readVars, wire,
                 connections, historyVars>>

\* Mutant: changes are coalesced while the notifier is signalled.
BumpOncePerSignal(w) ==
  /\ writer[w].step = "bump"
  /\ LET s == writer[w].slot IN
       /\ generation' = IF notified THEN generation
            ELSE [generation EXCEPT ![s] = (@ + 1) % GenerationModulus]
       /\ writer' = [writer EXCEPT ![w] =
                       IF s \in Observable THEN At("signal", s) ELSE Idle]
  /\ UNCHANGED <<value, attached, notified, serverVars, readVars, wire,
                 connections, historyVars>>

\* notify_changed: generation.fetch_add(1); a key that is not observable
\* stops there, the others go on to the server's notifier.
Bump(w) ==
  /\ writer[w].step = "bump"
  /\ LET s == writer[w].slot IN
       /\ generation' = [generation EXCEPT ![s] = (@ + 1) % GenerationModulus]
       /\ writer' = [writer EXCEPT ![w] =
                       IF s \in Observable THEN At("signal", s) ELSE Idle]
  /\ UNCHANGED <<value, attached, notified, serverVars, readVars, wire,
                 connections, historyVars>>

\* notify_changed: signal the notifier if the key has one.
Signal(w) ==
  /\ writer[w].step = "signal"
  /\ notified' = (notified \/ attached)
  /\ writer' = [writer EXCEPT ![w] = Idle]
  /\ UNCHANGED <<value, generation, attached, serverVars, readVars, wire,
                 connections, historyVars>>

-----------------------------------------------------------------------------
(* The client and the transport.                                           *)

Send(r) ==
  /\ pc # "stopped" /\ ~partial
  /\ sent < MaxRequests /\ Len(inbound) < MaxInFlight
  /\ inbound' = Append(inbound, r)
  /\ partial' \in (IF Fragmented THEN BOOLEAN ELSE {FALSE})
  /\ sent' = sent + 1
  /\ UNCHANGED <<keyVars, serverVars, headRead, torn, wire, connections,
                 historyVars>>

\* The rest of the last request arrives.
Arrive ==
  /\ partial
  /\ partial' = FALSE
  /\ UNCHANGED <<keyVars, serverVars, headRead, torn, inbound, sent, wire,
                 connections, historyVars>>

Receive ==
  /\ wire # <<>>
  /\ wire' = Tail(wire)
  /\ UNCHANGED <<keyVars, serverVars, readVars, connections, historyVars>>

-----------------------------------------------------------------------------
(* Server::run.  Transport reads and writes are its only await points      *)
(* besides the notifier: `poll` polls read_request, `notify` polls         *)
(* notifier.wait(), `handle` has a request, `reply` sends the response,    *)
(* `flush` is the head of flush_notifications' loop, `changed` sends a `!`.*)

\* Mutant: the observations outlive the connection, as if kept in Server.
StartKeepsObservations ==
  /\ pc = "stopped" /\ connections < MaxConnections
  /\ connections' = connections + 1
  /\ pc' = "poll"
  /\ attached' = TRUE
  /\ acked' = [s \in Slots |-> FALSE]
  /\ known' = [s \in Slots |-> -1]
  /\ told' = [s \in Slots |-> FALSE]
  /\ UNCHANGED <<value, generation, writer, notified, request, result, observed,
                 seen, cursor, readVars, wire>>

\* A call of run on a new connection: attach_notifiers and fresh locals.
Start ==
  /\ pc = "stopped" /\ connections < MaxConnections
  /\ connections' = connections + 1
  /\ pc' = "poll"
  /\ attached' = TRUE
  /\ observed' = [s \in Slots |-> FALSE]
  /\ seen' = [s \in Slots |-> 0]
  /\ acked' = [s \in Slots |-> FALSE]
  /\ known' = [s \in Slots |-> -1]
  /\ told' = [s \in Slots |-> FALSE]
  /\ UNCHANGED <<value, generation, writer, notified, request, result, cursor,
                 readVars, wire>>

\* run returns: its stream failed or it is dropped at an await point.
Close ==
  /\ pc' = "stopped"
  /\ request' = NoRequest /\ result' = 0 /\ cursor' = 1
  /\ headRead' = FALSE /\ torn' = FALSE
  /\ inbound' = <<>> /\ partial' = FALSE /\ wire' = <<>>
  /\ UNCHANGED <<keyVars, observed, seen, sent, connections, historyVars>>

Stop ==
  /\ pc \in {"poll", "notify", "reply", "changed"}
  /\ writer[ServerTask] = Idle
  /\ Close

Complete == inbound # <<>> /\ (Len(inbound) > 1 \/ ~partial)

\* read_request completes and select returns Either::First.
ReadRequest ==
  /\ pc = "poll" /\ Complete /\ ~torn
  /\ request' = Head(inbound)
  /\ inbound' = Tail(inbound)
  /\ headRead' = FALSE
  /\ pc' = "handle"
  /\ UNCHANGED <<keyVars, result, observed, seen, cursor, torn, partial, sent,
                 wire, connections, historyVars>>

\* read_request is pending, having consumed the bytes there are.
ReadPending ==
  /\ pc = "poll" /\ ~Complete
  /\ (partial /\ ~headRead) \/ notified
  /\ headRead' = partial
  /\ pc' = IF HasObservableKeys THEN "notify" ELSE "poll"
  /\ UNCHANGED <<keyVars, request, result, observed, seen, cursor, torn,
                 inbound, partial, sent, wire, connections, historyVars>>

\* The stream no longer starts at a frame: the bytes left of Head(inbound)
\* are read as a header.  They are refused, swallowed as part of a longer
\* frame, or happen to be a valid frame; a later boundary may realign.
ReadTorn ==
  /\ pc = "poll" /\ Complete /\ torn
  /\ \/ Close
     \/ /\ inbound' = Tail(inbound)
        /\ torn' \in BOOLEAN
        /\ \/ pc' = "notify" /\ UNCHANGED request
           \/ pc' = "handle" /\ request' \in Requests
        /\ UNCHANGED <<keyVars, result, observed, seen, cursor, headRead,
                       partial, sent, wire, connections, historyVars>>

\* select polls notifier.wait() after a pending read.  If it is signalled,
\* select returns Either::Second and drops read_request with the bytes that
\* it has consumed; otherwise run sleeps until either wakes it.
PollNotifier ==
  /\ pc = "notify"
  /\ IF notified
       THEN /\ notified' = FALSE
            /\ torn' = (torn \/ headRead)
            /\ headRead' = FALSE
            /\ pc' = "flush"
       ELSE /\ pc' = "poll"
            /\ UNCHANGED <<notified, torn, headRead>>
  /\ UNCHANGED <<value, generation, writer, attached, request, result, observed,
                 seen, cursor, inbound, partial, sent, wire, connections,
                 historyVars>>

\* handle_request, up to the await that sends the response.
Answer(op) ==
  /\ pc = "handle" /\ request.op = op /\ ErrorCode(request) = 0
  /\ pc' = "reply"

Refuse ==
  /\ pc = "handle" /\ ErrorCode(request) # 0
  /\ pc' = "reply"
  /\ UNCHANGED <<keyVars, request, result, observed, seen, cursor, readVars,
                 wire, connections, historyVars>>

\* Ping, Identify, GetCaps, GetKeytabLen and GetKey answer with constants.
Describe ==
  /\ \E op \in KeylessOps \cup {"getkey"} : Answer(op)
  /\ UNCHANGED <<keyVars, request, result, observed, seen, cursor, readVars,
                 wire, connections, historyVars>>

Get ==
  /\ Answer("get")
  /\ result' = value[FindSlot(request.keyref)]
  /\ UNCHANGED <<keyVars, request, observed, seen, cursor, readVars, wire,
                 connections, historyVars>>

\* Mutant: the handler reports the change before it answers the WRITE.
WriteNotifiesAtOnce ==
  /\ Answer("write")
  /\ LET s == FindSlot(request.keyref) IN
       /\ Store(ServerTask, s)
       /\ result' = value'[s]
       /\ wire' = IF observed[s] THEN Append(wire, Changed(s)) ELSE wire
  /\ UNCHANGED <<generation, attached, notified, request, observed, seen,
                 cursor, readVars, connections, historyVars>>

\* write_and_encode: the response carries the value written, and the server
\* task itself goes through notify_changed before it replies.
Write ==
  /\ Answer("write")
  /\ LET s == FindSlot(request.keyref) IN
       /\ Store(ServerTask, s)
       /\ result' = value'[s]
  /\ UNCHANGED <<generation, attached, notified, request, observed, seen,
                 cursor, readVars, wire, connections, historyVars>>

Observe ==
  /\ Answer("observe")
  /\ LET s == FindSlot(request.keyref) IN
       /\ observed' = [observed EXCEPT ![s] = TRUE]
       /\ seen' = [seen EXCEPT ![s] = generation[s]]
  /\ UNCHANGED <<keyVars, request, result, cursor, readVars, wire, connections,
                 historyVars>>

\* A void keyref is answered without a slot to clear.
Unobserve ==
  /\ Answer("unobserve")
  /\ IF HasSlot(request.keyref)
       THEN LET s == FindSlot(request.keyref) IN
              /\ observed' = [observed EXCEPT ![s] = FALSE]
              /\ seen' = [seen EXCEPT ![s] = generation[s]]
       ELSE UNCHANGED <<observed, seen>>
  /\ UNCHANGED <<keyVars, request, result, cursor, readVars, wire, connections,
                 historyVars>>

\* What the client can conclude from the frames sent so far: the slots it
\* observes, the value it last got for each and whether a `!` followed it.
\* A new `k` for OBSERVE makes it read again.
Record(r, v) ==
  IF ErrorCode(r) # 0 \/ ~HasSlot(r.keyref)
    THEN UNCHANGED historyVars
    ELSE LET s == FindSlot(r.keyref) IN
         CASE r.op \in {"get", "write"} ->
                /\ known' = [known EXCEPT ![s] = v]
                /\ told'  = [told EXCEPT ![s] = FALSE]
                /\ UNCHANGED acked
           [] r.op \in {"observe", "unobserve"} ->
                /\ acked' = [acked EXCEPT ![s] = (r.op = "observe")]
                /\ known' = [known EXCEPT ![s] = -1]
                /\ told'  = [told EXCEPT ![s] = FALSE]
           [] OTHER -> UNCHANGED historyVars

\* send_frame (send_str16_response, send_key_response) of the response.
Reply ==
  /\ pc = "reply" /\ writer[ServerTask] = Idle
  /\ Len(wire) < WireCapacity
  /\ wire' = Append(wire, Response(request, result))
  /\ Record(request, result)
  /\ request' = NoRequest /\ result' = 0
  /\ pc' = IF HasObservableKeys THEN "flush" ELSE "poll"
  /\ UNCHANGED <<keyVars, observed, seen, cursor, readVars, connections>>

\* Mutant: the observation is not consulted.
MustReportAnyChange(s) == s \in Observable /\ generation[s] # seen[s]

MustReport(s) == observed[s] /\ s \in Observable /\ generation[s] # seen[s]

\* One turn of flush_notifications' loop: skip the slot, or take a snapshot
\* of its generation and send a `!`; past the last slot run loops.
FlushSlot ==
  /\ pc = "flush" /\ cursor <= NumSlots
  /\ IF MustReport(cursor)
       THEN /\ seen' = [seen EXCEPT ![cursor] = generation[cursor]]
            /\ pc' = "changed"
            /\ UNCHANGED cursor
       ELSE /\ cursor' = cursor + 1
            /\ UNCHANGED <<seen, pc>>
  /\ UNCHANGED <<keyVars, request, result, observed, readVars, wire,
                 connections, historyVars>>

\* Mutant: a flush takes the signal that arrived while it ran.
FlushDoneTakesSignal ==
  /\ pc = "flush" /\ cursor > NumSlots
  /\ cursor' = 1
  /\ notified' = FALSE
  /\ pc' = "poll"
  /\ UNCHANGED <<value, generation, writer, attached, request, result, observed,
                 seen, readVars, wire, connections, historyVars>>

\* Mutant: the loop restarts one before the first slot.
FlushDoneOffByOne ==
  /\ pc = "flush" /\ cursor > NumSlots
  /\ cursor' = 0
  /\ pc' = "poll"
  /\ UNCHANGED <<keyVars, request, result, observed, seen, readVars, wire,
                 connections, historyVars>>

FlushDone ==
  /\ pc = "flush" /\ cursor > NumSlots
  /\ cursor' = 1
  /\ pc' = "poll"
  /\ UNCHANGED <<keyVars, request, result, observed, seen, readVars, wire,
                 connections, historyVars>>

SendChanged ==
  /\ pc = "changed" /\ Len(wire) < WireCapacity
  /\ wire' = Append(wire, Changed(cursor))
  /\ told' = [told EXCEPT ![cursor] = TRUE]
  /\ cursor' = cursor + 1
  /\ pc' = "flush"
  /\ UNCHANGED <<keyVars, request, result, observed, seen, readVars,
                 connections, acked, known>>

-----------------------------------------------------------------------------
Init ==
  /\ value = [s \in Slots |-> 0]
  /\ generation = [s \in Slots |-> 0]
  /\ writer = [w \in Writers |-> Idle]
  /\ attached = FALSE /\ notified = FALSE
  /\ pc = "stopped" /\ request = NoRequest /\ result = 0 /\ cursor = 1
  /\ observed = [s \in Slots |-> FALSE]
  /\ seen = [s \in Slots |-> 0]
  /\ headRead = FALSE /\ torn = FALSE
  /\ inbound = <<>> /\ partial = FALSE /\ wire = <<>>
  /\ sent = 0 /\ connections = 0
  /\ acked = [s \in Slots |-> FALSE]
  /\ known = [s \in Slots |-> -1]
  /\ told = [s \in Slots |-> FALSE]

Run ==
  \/ ReadRequest \/ ReadPending \/ ReadTorn \/ PollNotifier
  \/ Refuse \/ Describe \/ Get \/ Write \/ Observe \/ Unobserve
  \/ Reply \/ FlushSlot \/ FlushDone \/ SendChanged

Next ==
  \/ \E t \in Tasks, s \in Slots : Set(t, s)
  \/ \E w \in Writers : Bump(w) \/ Signal(w)
  \/ \E r \in Requests : Send(r)
  \/ Arrive \/ Receive
  \/ Start \/ Stop
  \/ Run

\* The executor polls a woken task again, a task that has begun
\* notify_changed finishes it (no await in it), the transport delivers.
Fairness ==
  /\ WF_vars(Run)
  /\ \A w \in Writers : WF_vars(Bump(w) \/ Signal(w))
  /\ WF_vars(Arrive) /\ WF_vars(Receive)

Spec == Init /\ [][Next]_vars /\ Fairness

-----------------------------------------------------------------------------
(* Properties.                                                             *)

Steps  == {Idle} \cup [step : {"bump", "signal"}, slot : Slots]
Frames ==
  [opcode : {"OK", "IDENTIFIED", "CAPS", "KEYTABLEN", "KEY", "VALUE", "WRITTEN",
             "ERROR"}, code : 0 .. 3, request : Requests, value : Nat]
  \cup {Changed(s) : s \in Slots}

\* Every variable has the type of what it models.
TypeOK ==
  /\ value \in [Slots -> Nat]
  /\ generation \in [Slots -> 0 .. GenerationModulus - 1]
  /\ writer \in [Writers -> Steps]
  /\ attached \in BOOLEAN /\ notified \in BOOLEAN
  /\ pc \in {"stopped", "poll", "notify", "handle", "reply", "flush", "changed"}
  /\ request \in Requests \cup {NoRequest} /\ result \in Nat
  /\ observed \in [Slots -> BOOLEAN]
  /\ seen \in [Slots -> 0 .. GenerationModulus - 1]
  /\ cursor \in 1 .. NumSlots + 1
  /\ headRead \in BOOLEAN /\ torn \in BOOLEAN
  /\ inbound \in Seq(Requests) /\ partial \in BOOLEAN
  /\ wire \in Seq(Frames)
  /\ sent \in Nat /\ connections \in Nat
  /\ acked \in [Slots -> BOOLEAN]
  /\ known \in [Slots -> Nat \cup {-1}]
  /\ told \in [Slots -> BOOLEAN]

\* A `!` is sent only for a key whose last `k` on this connection answered
\* OBSERVE: never before that `k`, never after the `k` of UNOBSERVE, never on
\* a new connection because of an earlier one (PROTOCOL.md:48, 572, 624).
ChangedOnlyWhileObserved == [][\A s \in Slots :
  wire' = Append(wire, Changed(s)) =>
    \E t \in Slots : Keyref[t] = Keyref[s] /\ acked[t]]_vars

\* No lost wakeup: when an observed key changed since its last snapshot, the
\* server is already on its way to report it, or will be woken: the notifier
\* is signalled, or the writer has yet to signal it.
NoLostWakeup ==
  \A s \in Observable :
    pc # "stopped" /\ observed[s] /\ generation[s] # seen[s] =>
      \/ notified
      \/ \E w \in Writers : writer[w] = At("signal", s)
      \/ pc \in {"handle", "reply"}
      \/ pc = "flush" /\ cursor <= s
      \/ pc = "changed" /\ cursor < s

\* What the client got for an observed key is out of date and no `!` told it.
Stale(s) == acked[s] /\ known[s] \in 0 .. value[s] - 1 /\ ~told[s]

\* No lost change: a client that observes a key and has read it is out of
\* date only while the change is still being counted by its writer, is
\* waiting for a flush, or the frame that says so is being sent.  It needs
\* fewer than GenerationModulus stores between two flushes.
NoLostChange ==
  \A s \in Slots : pc # "stopped" /\ Stale(s) =>
    \/ \E w \in Writers : writer[w] = At("bump", s)
    \/ generation[s] # seen[s]
    \/ pc = "changed" /\ cursor = s
    \/ /\ pc = "reply" /\ HasSlot(request.keyref) /\ FindSlot(request.keyref) = s
       /\ request.op \in {"write", "observe", "unobserve"}

\* A change of an observed key that the client has read is reported, or the
\* client reads it, drops its interest, or the connection ends.
ChangesReported ==
  \A s \in Slots : Stale(s) ~> ~Stale(s) \/ pc = "stopped"
=============================================================================
