--------------------------- MODULE TestTuiProofs ---------------------------
(***************************************************************************)
(* Proofs about TestTui, for any keytab and any bounds: its types, that the*)
(* rows follow the node, and that no modal is stuck.                       *)
(***************************************************************************)
EXTENDS TestTui, TLAPS

-----------------------------------------------------------------------------
(* Types, and the one request that is under way.                           *)

Frames == [kind : Kinds, key : 0 .. NumKeys, value : Amounts]

EventKinds == {"Connecting", "Disconnected", "Connected", "ValueUpdated", "WriteSucceeded", "WriteFailed"}
Events == [kind : EventKinds, key : 0 .. NumKeys, value : Amounts,
           rows : [Keys -> Amounts] \cup {<<>>}, table : 0 .. MaxConnections]

\* A request names a key, and OBSERVE an observable one.
Legal(r) ==
  /\ r.op \in {"get", "write"} => r.key \in Keys
  /\ r.op = "observe" => r.key \in Observable
  /\ r.op = "ping" => r.key = NoKey
  /\ r.op = "none" => r = NoReq

\* f is a response to r.
Answers(r, f) ==
  /\ f.key = r.key
  /\ \/ r.op \in {"observe", "ping"} /\ f.kind = "OK"
     \/ r.op = "get" /\ f.kind = "VALUE" /\ f.value \in Nat
     \/ r.op = "write" /\ f.kind \in {"WRITTEN", "ERROR"}

Responses == {i \in DOMAIN wire : wire[i].kind # "CHANGED"}

\* One request is under way at a time: on its way to the node, being answered,
\* or answered.
OneRequest ==
  /\ asked # NoReq => asked = awaiting /\ response = NoFrame /\ Responses = {}
  /\ response # NoFrame => Answers(awaiting, response) /\ Responses = {}
  /\ \A i \in Responses : Answers(awaiting, wire[i]) /\ \A j \in Responses : j = i
  /\ \A i \in DOMAIN wire : wire[i].kind = "CHANGED" => wire[i].key \in Observable
  /\ awaiting = NoReq => changed = {}
  /\ pc \in {"retry", "connect", "listen"} => awaiting = NoReq
NodeTypes ==
  /\ value \in [Keys -> Nat]
  /\ observed \subseteq Observable /\ owed \subseteq observed
  /\ response \in Frames /\ asked \in Reqs /\ wire \in Seq(Frames)

WorkerTypes ==
  /\ awaiting \in Reqs /\ Legal(awaiting)
  /\ todo \subseteq Reqs /\ \A r \in todo : Legal(r) /\ r.op \in {"observe", "get"}
  /\ pc \in {"retry", "connect"} \cup {"setup", "catchup", "commands", "refresh", "drain", "listen"}
  /\ changed \subseteq Keys /\ pending \subseteq Keys
  /\ rows \in [Keys -> Amounts] /\ connections \in 0 .. MaxConnections

Commands == [key : 0 .. NumKeys, table : 0 .. MaxConnections]

AppTypes ==
  /\ shown \in [Keys -> Amounts]
  /\ modal \in [key : 0 .. NumKeys, submitting : BOOLEAN]
  /\ modal = NoModal \/ modal.key \in Keys
  /\ status \in {"Connecting", "Connected", "Disconnected"}
  /\ table \in 0 .. MaxConnections
  /\ commands \in Seq(Commands) /\ dropped \subseteq Keys

EventTypes ==
  /\ events \in Seq(Events)
  /\ \A i \in DOMAIN events : events[i].kind = "Connected" => events[i].rows \in [Keys -> Amounts]

TypeInv == NodeTypes /\ WorkerTypes /\ AppTypes /\ EventTypes /\ OneRequest

\* Frames and events, as the actions make them.
LEMMA MadeTypes ==
  /\ NoFrame \in Frames /\ NoReq \in Reqs /\ Legal(NoReq) /\ NoReq.key = NoKey
  /\ \A t \in Kinds, k \in 0 .. NumKeys, v \in Amounts : Frame(t, k, v) \in Frames
  /\ \A k \in 0 .. NumKeys, o \in {"observe", "get", "write", "ping"} : Req(o, k) \in Reqs /\ Req(o, k) # NoReq
  /\ \A t \in EventKinds, k \in 0 .. NumKeys, v \in Amounts : Event(t, k, v) \in Events
  BY TestTuiAssumption DEF NoFrame, Frame, Frames, NoReq, Req, Reqs, Legal, NoKey, NoValue, Amounts,
     Kinds, Event, Events, EventKinds

\* Requests, as the worker makes them.
LEMMA RequestTypes ==
  /\ \A k \in Keys, o \in {"get", "write"} : Req(o, k) \in Reqs /\ Legal(Req(o, k)) /\ Req(o, k) # NoReq
  /\ \A k \in Observable : Req("observe", k) \in Reqs /\ Legal(Req("observe", k))
  /\ Req("ping", NoKey) \in Reqs /\ Legal(Req("ping", NoKey)) /\ Req("ping", NoKey) # NoReq
  /\ Readable \subseteq Keys /\ Observable \subseteq Keys /\ Writable \subseteq Keys
  /\ Keys \subseteq 0 .. NumKeys /\ NoKey \in 0 .. NumKeys /\ NoKey \notin Keys
  /\ NoValue \in Amounts /\ Nat \subseteq Amounts
  BY TestTuiAssumption DEF Keys, Req, Reqs, Legal, NoReq, NoKey, Amounts, NoValue

\* The requests of the worker's two loops.
LEMMA LoopTypes ==
  \A r \in Setup \cup Refresh : r \in Reqs /\ Legal(r) /\ r.op \in {"observe", "get"}
<1>1. ASSUME NEW k \in Readable PROVE Req("get", k) \in Reqs /\ Legal(Req("get", k)) /\ Req("get", k).op = "get"
  BY RequestTypes DEF Req
<1>2. ASSUME NEW k \in Observable
      PROVE  Req("observe", k) \in Reqs /\ Legal(Req("observe", k)) /\ Req("observe", k).op = "observe"
  BY RequestTypes DEF Req
<1>3. QED
  BY <1>1, <1>2 DEF Setup, Refresh, Gets

LEMMA NodeTypesStep ==
  TypeInv /\ [Next]_vars => NodeTypes'
<1> SUFFICES ASSUME TypeInv, [Next]_vars PROVE NodeTypes'
  OBVIOUS
<1>1. NodeTypes /\ WorkerTypes /\ AppTypes
  BY DEF TypeInv
<1>2. CASE Serve
  <2>1. asked # NoReq /\ asked = awaiting /\ asked \in Reqs /\ Legal(asked)
    BY <1>1, <1>2 DEF Serve, TypeInv, OneRequest, NodeTypes, WorkerTypes
  <2>2. asked.key \in 0 .. NumKeys /\ (asked.op = "observe" => asked.key \in Observable)
        /\ (asked.op \in {"get", "write"} => asked.key \in Keys)
    BY <2>1 DEF Reqs, Legal
  <2>3. value' \in [Keys -> Nat] /\ observed' \subseteq Observable /\ owed' \subseteq observed'
    BY <1>1, <1>2, <2>2 DEF Serve, NodeTypes
  <2>4. response' \in Frames
    <3>1. asked.op \in {"get", "write"} => value[asked.key] \in Amounts /\ value'[asked.key] \in Amounts
      BY <1>1, <2>2, <2>3, RequestTypes DEF NodeTypes
    <3>2. QED
      BY <1>2, <2>2, <3>1, MadeTypes, RequestTypes DEF Serve, Kinds
  <2>5. QED
    BY <1>1, <1>2, <2>3, <2>4, MadeTypes DEF Serve, NodeTypes
<1>3. CASE Respond
  BY <1>1, <1>3, MadeTypes DEF Respond, NodeTypes
<1>4. ASSUME NEW k \in Keys, Notify(k) PROVE NodeTypes'
  <2>1. Frame("CHANGED", k, NoValue) \in Frames
    BY MadeTypes, RequestTypes DEF Kinds
  <2>2. QED
    BY <1>1, <1>4, <2>1 DEF Notify, NodeTypes
<1>5. ASSUME NEW k \in Keys, Change(k) PROVE NodeTypes'
  BY <1>1, <1>5 DEF Change, Stored, NodeTypes
<1>6. ASSUME NEW r \in Reqs, Ask(r) PROVE NodeTypes'
  BY <1>1, <1>6 DEF Ask, NodeTypes
<1>7. CASE UNCHANGED <<value, observed, owed, response, asked>> /\ wire # <<>> /\ wire' = Tail(wire)
  BY <1>1, <1>7 DEF NodeTypes
<1>8. CASE UNCHANGED nodeVars
  BY <1>1, <1>8 DEF NodeTypes, nodeVars
<1>9. CASE Disconnect
  BY <1>1, <1>9, MadeTypes DEF Disconnect, NodeTypes
<1>10. CASE AskNext
  BY <1>1, <1>6, <1>10 DEF AskNext, WorkerTypes
<1>11. CASE Command
  <2>1. Head(commands).key \in 0 .. NumKeys
    <3>1. commands # <<>>
      BY <1>11 DEF Command
    <3>2. Head(commands) \in Commands
      BY <1>1, <3>1 DEF AppTypes
    <3>3. QED BY <3>2 DEF Commands
  <2>2. QED
    BY <1>6, <1>8, <1>11, <2>1, MadeTypes DEF Command
<1>12. CASE Timeout
  BY <1>6, <1>8, <1>12, RequestTypes DEF Timeout
<1>13. ASSUME NEW k \in Keys, Drain(k) PROVE NodeTypes'
  BY <1>6, <1>8, <1>13, RequestTypes DEF Drain
<1>14. CASE Listen \/ Collect \/ Answered
  BY <1>7, <1>14 DEF Listen, Collect, Answered
<1>15. CASE Connecting \/ Connect \/ SetupDone \/ RefreshDone \/ CommandsDone \/ DrainDone
            \/ Apply \/ User
  BY <1>8, <1>15 DEF Connecting, Connect, SetupDone, RefreshDone, CommandsDone, DrainDone, Apply, User,
     Open, Cancel, Submit, PressRefresh, SendCommand
<1>16. QED
  BY <1>2, <1>3, <1>4, <1>5, <1>8, <1>9, <1>10, <1>11, <1>12, <1>13, <1>14, <1>15 DEF Next, Node, Worker, vars

LEMMA WorkerTypesStep ==
  TypeInv /\ [Next]_vars => WorkerTypes'
<1> SUFFICES ASSUME TypeInv, [Next]_vars PROVE WorkerTypes'
  OBVIOUS
<1>1. NodeTypes /\ WorkerTypes /\ AppTypes
  BY DEF TypeInv
<1>2. ASSUME NEW r \in Reqs, Legal(r), Ask(r), UNCHANGED <<pc, rows, connections>>,
             todo' \subseteq todo, pending' \subseteq pending
      PROVE  WorkerTypes'
  BY <1>1, <1>2 DEF Ask, WorkerTypes
<1>3. ASSUME wire # <<>>
      PROVE  Head(wire) \in Frames /\ 1 \in DOMAIN wire /\ Head(wire) = wire[1]
  BY <1>1, <1>3 DEF NodeTypes
<1>4. CASE Listen
  <2>1. Head(wire).kind = "CHANGED" /\ Head(wire).key \in Keys
    BY <1>3, <1>4, RequestTypes DEF Listen, TypeInv, OneRequest, Responses, Answers, NoReq, Req
  <2>2. QED
    BY <1>1, <1>4, <2>1 DEF Listen, WorkerTypes
<1>5. CASE Collect
  <2>1. Head(wire).key \in Keys
    BY <1>3, <1>5, RequestTypes DEF Collect, TypeInv, OneRequest
  <2>2. QED
    BY <1>1, <1>5, <2>1 DEF Collect, WorkerTypes
<1>6. CASE Answered
  <2>1. Head(wire).value \in Amounts /\ Head(wire) \in Frames
    BY <1>3, <1>6 DEF Answered, Frames
  <2>2. rows' \in [Keys -> Amounts] /\ pending' \subseteq Keys
    BY <1>1, <1>6, <2>1 DEF Answered, Reread, WorkerTypes
  <2>3. QED
    BY <1>1, <1>6, <2>2, MadeTypes DEF Answered, WorkerTypes
<1>7. CASE Disconnect
  BY <1>1, <1>7, MadeTypes DEF Disconnect, WorkerTypes
<1>8. CASE AskNext
  BY <1>1, <1>2, <1>8 DEF AskNext, WorkerTypes
<1>9. CASE Command
  <2>1. Head(commands).key \in 0 .. NumKeys
    <3>1. commands # <<>>
      BY <1>9 DEF Command
    <3>2. Head(commands) \in Commands
      BY <1>1, <3>1 DEF AppTypes
    <3>3. QED BY <3>2 DEF Commands
  <2>2. CASE Head(commands).key = NoKey
    BY <1>1, <1>9, <2>2, LoopTypes DEF Command, WorkerTypes
  <2>3. CASE Head(commands).key # NoKey
    <3>1. Head(commands).key \in Keys
      BY <2>1, <2>3, TestTuiAssumption DEF Keys, NoKey
    <3>2. QED
      BY <1>2, <1>9, <2>3, <3>1, RequestTypes DEF Command
  <2>4. QED BY <2>2, <2>3
<1>10. CASE Timeout
  BY <1>1, <1>10, RequestTypes DEF Timeout, Ask, WorkerTypes
<1>11. ASSUME NEW k \in Keys, Drain(k) PROVE WorkerTypes'
  BY <1>1, <1>11, RequestTypes DEF Drain, Ask, WorkerTypes
<1>12. CASE Connect
  <2>1. connections' \in 0 .. MaxConnections
    BY <1>1, <1>12, TestTuiAssumption DEF Connect, WorkerTypes
  <2>2. todo' \subseteq Reqs /\ \A r \in todo' : Legal(r) /\ r.op \in {"observe", "get"}
    BY <1>12, LoopTypes DEF Connect
  <2>3. rows' \in [Keys -> Amounts]
    BY <1>12, RequestTypes DEF Connect
  <2>4. QED
    BY <1>1, <1>12, <2>1, <2>2, <2>3 DEF Connect, WorkerTypes
<1>13. CASE Connecting \/ SetupDone \/ RefreshDone \/ CommandsDone \/ DrainDone
  BY <1>1, <1>13 DEF Connecting, SetupDone, RefreshDone, CommandsDone, DrainDone, WorkerTypes
<1>14. CASE UNCHANGED workerVars
  BY <1>1, <1>14 DEF WorkerTypes, workerVars
<1>15. CASE Node \/ Apply \/ User \/ \E k \in Keys : Change(k)
  BY <1>14, <1>15 DEF Node, Serve, Respond, Notify, Apply, User, Open, Cancel, Submit, PressRefresh,
     SendCommand, Change
<1>16. QED
  BY <1>4, <1>5, <1>6, <1>7, <1>8, <1>9, <1>10, <1>11, <1>12, <1>13, <1>14, <1>15 DEF Next, Worker, vars

LEMMA EventTypesStep ==
  TypeInv /\ [Next]_vars => EventTypes'
<1> SUFFICES ASSUME TypeInv, [Next]_vars PROVE EventTypes'
  OBVIOUS
<1>1. NodeTypes /\ WorkerTypes /\ EventTypes
  BY DEF TypeInv
<1>2. ASSUME NEW e \in Events, e.kind = "Connected" => e.rows \in [Keys -> Amounts], Emit(e)
      PROVE  EventTypes'
  <2>1. events' = Append(events, e) /\ events \in Seq(Events)
    BY <1>1, <1>2 DEF Emit, EventTypes
  <2>2. events' \in Seq(Events)
    BY <2>1
  <2>3. \A i \in DOMAIN events' : (i \in DOMAIN events /\ events'[i] = events[i]) \/ events'[i] = e
    BY <2>1
  <2>4. QED
    BY <1>1, <1>2, <2>2, <2>3 DEF EventTypes
<1>3. ASSUME NEW t \in EventKinds \ {"Connected"}, NEW k \in 0 .. NumKeys, NEW v \in Amounts,
             Emit(Event(t, k, v))
      PROVE  EventTypes'
  <2>1. Event(t, k, v).kind = t
    BY DEF Event
  <2>2. QED
    BY <1>2, <1>3, <2>1, MadeTypes
<1>4. CASE UNCHANGED events
  BY <1>1, <1>4 DEF EventTypes
<1>5. CASE Apply
  <2>1. events' \in Seq(Events) /\ \A i \in DOMAIN events' : i + 1 \in DOMAIN events /\ events'[i] = events[i + 1]
    BY <1>1, <1>5 DEF Apply, EventTypes
  <2>2. QED
    BY <1>1, <2>1 DEF EventTypes
<1>6. CASE Answered
  <2>1. Head(wire) \in Frames
    BY <1>1, <1>6 DEF Answered, NodeTypes
  <2>2. Head(wire).key \in 0 .. NumKeys /\ Head(wire).value \in Amounts
    BY <2>1 DEF Frames
  <2>3. QED
    BY <1>3, <1>4, <1>6, <2>2, RequestTypes DEF Answered, Report, EventKinds
<1>7. CASE SetupDone
  <2> DEFINE e == [Event("Connected", NoKey, NoValue) EXCEPT !.rows = rows, !.table = connections]
  <2>1. e \in Events /\ e.rows = rows
    BY <1>1, RequestTypes DEF Event, Events, EventKinds, WorkerTypes
  <2>2. QED
    BY <1>1, <1>2, <1>7, <2>1 DEF SetupDone, WorkerTypes
<1>8. CASE Connecting \/ Disconnect \/ \E k \in Keys : Drain(k)
  BY <1>3, <1>4, <1>8, RequestTypes DEF Connecting, Disconnect, Drain, EventKinds
<1>9. CASE Connect \/ AskNext \/ RefreshDone \/ Command \/ CommandsDone \/ DrainDone \/ Listen \/ Timeout
           \/ Collect
  BY <1>4, <1>9 DEF Connect, AskNext, RefreshDone, Command, CommandsDone, DrainDone, Listen, Timeout, Collect
<1>10. CASE Node \/ User \/ \E k \in Keys : Change(k)
  BY <1>4, <1>10 DEF Node, Serve, Respond, Notify, User, Open, Cancel, Submit, PressRefresh, SendCommand, Change
<1>11. QED
  BY <1>4, <1>5, <1>6, <1>7, <1>8, <1>9, <1>10 DEF Next, Worker, vars

LEMMA AppTypesStep ==
  TypeInv /\ [Next]_vars => AppTypes'
<1> SUFFICES ASSUME TypeInv, [Next]_vars PROVE AppTypes'
  OBVIOUS
<1>1. AppTypes /\ EventTypes /\ NodeTypes /\ WorkerTypes
  BY DEF TypeInv
<1>2. CASE Apply
  <2>1. events # <<>>
    BY <1>2 DEF Apply
  <2>2. Head(events) \in Events /\ (Head(events).kind = "Connected" => Head(events).rows \in [Keys -> Amounts])
    BY <1>1, <2>1 DEF EventTypes
  <2>3. shown' \in [Keys -> Amounts] /\ table' \in 0 .. MaxConnections
    BY <1>1, <1>2, <2>2 DEF Apply, AppTypes, Events
  <2>4. modal' \in {NoModal, modal, [modal EXCEPT !.submitting = FALSE]}
    BY <1>2 DEF Apply, NextModal
  <2>5. /\ modal' \in [key : 0 .. NumKeys, submitting : BOOLEAN]
        /\ modal' = NoModal \/ modal'.key \in Keys
    <3>1. CASE modal' = NoModal
      BY <3>1, RequestTypes DEF NoModal
    <3>2. CASE modal' = modal
      BY <1>1, <3>2 DEF AppTypes
    <3>3. CASE modal' = [modal EXCEPT !.submitting = FALSE]
      <4>1. modal'.key = modal.key /\ modal' \in [key : 0 .. NumKeys, submitting : BOOLEAN]
        BY <1>1, <3>3 DEF AppTypes
      <4>2. modal = NoModal => modal' = NoModal
        <5>1. ASSUME NEW m, m = [NoModal EXCEPT !.submitting = FALSE] PROVE m = NoModal
          <6>1. m \in [key : {NoKey}, submitting : {FALSE}]
            BY <5>1 DEF NoModal
          <6>2. QED
            BY <6>1 DEF NoModal
        <5>2. QED
          BY <3>3, <5>1
      <4>3. QED
        BY <1>1, <4>1, <4>2 DEF AppTypes
    <3>4. QED
      BY <2>4, <3>1, <3>2, <3>3
  <2>6. status' \in {"Connecting", "Connected", "Disconnected"}
    BY <1>1, <1>2 DEF Apply, AppTypes
  <2>7. QED
    BY <1>1, <1>2, <2>3, <2>5, <2>6 DEF Apply, AppTypes
<1>3. ASSUME NEW k \in Keys, Open(k) PROVE AppTypes'
  BY <1>1, <1>3, RequestTypes DEF Open, AppTypes
<1>4. CASE Cancel
  BY <1>1, <1>4, RequestTypes DEF Cancel, AppTypes, NoModal
<1>5. ASSUME NEW k \in 0 .. NumKeys, SendCommand(k)
      PROVE  commands' \in Seq(Commands)
  <2>1. [key |-> k, table |-> table] \in Commands
    BY <1>1 DEF Commands, AppTypes
  <2>2. QED
    BY <1>1, <1>5, <2>1 DEF SendCommand, AppTypes
<1>6. CASE Submit
  <2>1. modal.key \in 0 .. NumKeys /\ SendCommand(modal.key)
    BY <1>1, <1>6 DEF Submit, AppTypes
  <2>2. commands' \in Seq(Commands)
    BY <1>5, <2>1
  <2>3. QED
    BY <1>1, <1>6, <2>1, <2>2 DEF Submit, SendCommand, AppTypes
<1>7. CASE PressRefresh
  <2>1. SendCommand(NoKey) /\ NoKey \in 0 .. NumKeys
    BY <1>7, RequestTypes DEF PressRefresh
  <2>2. commands' \in Seq(Commands)
    BY <1>5, <2>1
  <2>3. QED
    BY <1>1, <1>7, <2>1, <2>2 DEF PressRefresh, SendCommand, AppTypes
<1>8. CASE Command
  <2>1. UNCHANGED appVars /\ commands' = Tail(commands) /\ commands # <<>>
    BY <1>8 DEF Command
  <2>2. QED
    BY <1>1, <2>1 DEF AppTypes, appVars
<1>9. CASE Connect
  BY <1>1, <1>9 DEF Connect, AppTypes
<1>10. CASE Answered
  BY <1>1, <1>10 DEF Answered, AppTypes, WorkerTypes
<1>11. CASE UNCHANGED <<commands, appVars>>
  BY <1>1, <1>11 DEF AppTypes, appVars
<1>12. CASE Connecting \/ Disconnect \/ AskNext \/ SetupDone \/ RefreshDone \/ CommandsDone \/ DrainDone
            \/ Listen \/ Timeout \/ Collect \/ \E k \in Keys : Drain(k)
  BY <1>11, <1>12 DEF Connecting, Disconnect, AskNext, SetupDone, RefreshDone, CommandsDone, DrainDone,
     Listen, Timeout, Collect, Drain
<1>13. CASE Node \/ \E k \in Keys : Change(k)
  BY <1>11, <1>13 DEF Node, Serve, Respond, Notify, Change
<1>14. QED
  BY <1>2, <1>3, <1>4, <1>6, <1>7, <1>8, <1>9, <1>10, <1>11, <1>12, <1>13 DEF Next, Worker, User, vars

\* A response is on the wire at most once, and answers what is awaited.
LEMMA OneRequestStep ==
  TypeInv /\ [Next]_vars => OneRequest'
<1> SUFFICES ASSUME TypeInv, [Next]_vars PROVE OneRequest'
  OBVIOUS
<1>1. NodeTypes /\ WorkerTypes /\ OneRequest
  BY DEF TypeInv
<1>2. CASE UNCHANGED <<response, asked, wire, awaiting, changed>>
             /\ (pc' \in {"retry", "connect", "listen"} => awaiting = NoReq)
  BY <1>1, <1>2 DEF OneRequest, Responses
<1>3. ASSUME NEW r \in Reqs, r # NoReq, Ask(r), awaiting = NoReq, pc' \notin {"retry", "connect", "listen"}
      PROVE  OneRequest'
  <2>1. response = NoFrame /\ Responses = {}
    BY <1>1, <1>3 DEF OneRequest, Answers, NoReq, Req
  <2>2. QED
    BY <1>1, <1>3, <2>1 DEF OneRequest, Ask, Responses
<1>4. ASSUME wire # <<>>, wire' = Tail(wire), UNCHANGED <<response, asked>>
      PROVE  /\ \A i \in DOMAIN wire' : wire'[i].kind = "CHANGED" => wire'[i].key \in Observable
             /\ \A i \in Responses' : i + 1 \in Responses /\ wire'[i] = wire[i + 1]
             /\ 1 \in DOMAIN wire /\ Head(wire) = wire[1]
             /\ \A i \in Responses' : i \in Nat \ {0}
  <2>1. \A i \in DOMAIN wire' : i \in Nat \ {0} /\ i + 1 \in DOMAIN wire /\ wire'[i] = wire[i + 1]
    BY <1>1, <1>4 DEF NodeTypes
  <2>2. 1 \in DOMAIN wire /\ Head(wire) = wire[1]
    BY <1>1, <1>4 DEF NodeTypes
  <2>3. QED
    BY <1>1, <2>1, <2>2 DEF OneRequest, Responses
<1>5. CASE Serve
  <2>1. asked # NoReq /\ asked = awaiting /\ Legal(asked) /\ Responses = {} /\ asked' = NoReq
    BY <1>1, <1>5 DEF Serve, OneRequest, WorkerTypes
  <2>2. asked.op = "get" => value[asked.key] \in Nat
    BY <1>1, <2>1 DEF Legal, NodeTypes
  <2>3. Answers(awaiting, response')
    BY <1>5, <2>1, <2>2 DEF Serve, Answers, Frame
  <2>4. UNCHANGED <<wire, awaiting, changed, pc>>
    BY <1>5 DEF Serve, workerVars
  <2>5. QED
    BY <1>1, <2>1, <2>3, <2>4 DEF OneRequest, Responses
<1>6. CASE Respond
  <2>1. /\ response # NoFrame /\ Answers(awaiting, response) /\ Responses = {} /\ asked = NoReq
        /\ wire' = Append(wire, response) /\ response' = NoFrame
        /\ UNCHANGED <<asked, awaiting, changed, pc>>
    BY <1>1, <1>6 DEF Respond, OneRequest, workerVars
  <2>2. \A i \in DOMAIN wire' : (i \in DOMAIN wire /\ wire'[i] = wire[i])
                                \/ (i = Len(wire) + 1 /\ wire'[i] = response)
    BY <1>1, <2>1 DEF NodeTypes
  <2>3. \A i \in Responses' : i = Len(wire) + 1 /\ wire'[i] = response
    BY <2>1, <2>2 DEF Responses
  <2>4. response.kind # "CHANGED"
    BY <2>1 DEF Answers
  <2>5. QED
    BY <1>1, <2>1, <2>2, <2>3, <2>4 DEF OneRequest
<1>7. ASSUME NEW k \in Keys, Notify(k) PROVE OneRequest'
  <2>1. /\ wire' = Append(wire, Frame("CHANGED", k, NoValue)) /\ k \in Observable
        /\ UNCHANGED <<response, asked, awaiting, changed, pc>>
    BY <1>1, <1>7 DEF Notify, NodeTypes, workerVars
  <2>2. \A i \in DOMAIN wire' : (i \in DOMAIN wire /\ wire'[i] = wire[i])
                                \/ wire'[i] = Frame("CHANGED", k, NoValue)
    BY <1>1, <2>1, MadeTypes, RequestTypes DEF NodeTypes, Kinds
  <2>3. \A i \in Responses' : i \in Responses /\ wire'[i] = wire[i]
    BY <2>2 DEF Responses, Frame
  <2>4. \A i \in DOMAIN wire' : wire'[i].kind = "CHANGED" => wire'[i].key \in Observable
    BY <1>1, <2>1, <2>2 DEF OneRequest, Frame
  <2>5. QED
    BY <1>1, <2>1, <2>3, <2>4 DEF OneRequest
<1>8. CASE Listen
  <2>1. /\ wire # <<>> /\ wire' = Tail(wire) /\ awaiting = NoReq /\ pc' = "commands"
        /\ UNCHANGED <<response, asked, awaiting, changed>>
    BY <1>8 DEF Listen
  <2>2. \A i \in Responses' : i \in Nat \ {0} /\ i + 1 \in Responses /\ wire'[i] = wire[i + 1]
    BY <1>4, <2>1
  <2>3. \A i \in Responses' : Answers(awaiting, wire'[i])
    BY <1>1, <2>1, <2>2 DEF OneRequest
  <2>4. \A i \in Responses' : \A j \in Responses' : j = i
    <3> SUFFICES ASSUME NEW i \in Responses', NEW j \in Responses' PROVE j = i
      OBVIOUS
    <3>1. i + 1 \in Responses /\ j + 1 \in Responses /\ i \in Nat /\ j \in Nat
      BY <2>2
    <3>2. j + 1 = i + 1
      BY <1>1, <3>1 DEF OneRequest
    <3>3. QED BY <3>1, <3>2
  <2>5. Responses = {} => Responses' = {}
    BY <1>4, <2>1
  <2>6. QED
    BY <1>1, <1>4, <2>1, <2>3, <2>4, <2>5 DEF OneRequest
<1>9. CASE Collect
  <2>1. /\ wire # <<>> /\ wire' = Tail(wire) /\ awaiting # NoReq
        /\ UNCHANGED <<response, asked, awaiting, pc>>
    BY <1>9 DEF Collect
  <2>2. \A i \in Responses' : i \in Nat \ {0} /\ i + 1 \in Responses /\ wire'[i] = wire[i + 1]
    BY <1>4, <2>1
  <2>3. \A i \in Responses' : Answers(awaiting, wire'[i])
    BY <1>1, <2>1, <2>2 DEF OneRequest
  <2>4. \A i \in Responses' : \A j \in Responses' : j = i
    <3> SUFFICES ASSUME NEW i \in Responses', NEW j \in Responses' PROVE j = i
      OBVIOUS
    <3>1. i + 1 \in Responses /\ j + 1 \in Responses /\ i \in Nat /\ j \in Nat
      BY <2>2
    <3>2. j + 1 = i + 1
      BY <1>1, <3>1 DEF OneRequest
    <3>3. QED BY <3>1, <3>2
  <2>5. Responses = {} => Responses' = {}
    BY <1>4, <2>1
  <2>6. QED
    BY <1>1, <1>4, <2>1, <2>3, <2>4, <2>5 DEF OneRequest
<1>10. CASE Answered
  <2>1. /\ wire # <<>> /\ wire' = Tail(wire) /\ awaiting' = NoReq /\ changed' = {}
        /\ Head(wire).kind # "CHANGED" /\ UNCHANGED <<response, asked>>
    BY <1>10 DEF Answered
  <2>2. 1 \in Responses
    BY <1>4, <2>1 DEF Responses
  <2>3. Responses' = {}
    BY <1>1, <1>4, <2>1, <2>2 DEF OneRequest
  <2>4. asked = NoReq /\ response = NoFrame
    BY <1>1, <2>2 DEF OneRequest
  <2>5. QED
    BY <1>4, <2>1, <2>3, <2>4 DEF OneRequest
<1>11. CASE Disconnect
  BY <1>11 DEF Disconnect, OneRequest, Responses
<1>12. CASE AskNext
  BY <1>1, <1>3, <1>12, RequestTypes DEF AskNext, WorkerTypes, NoReq, Req
<1>13. CASE Command
  <2>1. commands # <<>> /\ awaiting = NoReq /\ pc = "commands"
    BY <1>13 DEF Command
  <2>2. Head(commands) \in Commands
    BY <2>1 DEF TypeInv, AppTypes
  <2>3. CASE Head(commands).key = NoKey
    BY <1>2, <1>13, <2>1, <2>3 DEF Command, nodeVars
  <2>4. CASE Head(commands).key # NoKey
    <3>1. Head(commands).key \in Keys
      BY <2>2, <2>4, TestTuiAssumption DEF Commands, Keys, NoKey
    <3>2. QED
      BY <1>3, <1>13, <2>1, <2>4, <3>1, RequestTypes DEF Command
  <2>5. QED BY <2>3, <2>4
<1>14. CASE Timeout
  BY <1>2, <1>3, <1>14, RequestTypes DEF Timeout, nodeVars
<1>15. ASSUME NEW k \in Keys, Drain(k) PROVE OneRequest'
  BY <1>2, <1>3, <1>15, RequestTypes DEF Drain, nodeVars
<1>16. CASE Connecting \/ SetupDone \/ RefreshDone \/ CommandsDone \/ DrainDone
  BY <1>1, <1>2, <1>16 DEF Connecting, SetupDone, RefreshDone, CommandsDone, DrainDone, nodeVars, OneRequest
<1>17. CASE Connect
  BY <1>1, <1>17 DEF Connect, OneRequest, Responses, nodeVars
<1>18. CASE UNCHANGED <<response, asked, wire, workerVars>>
  BY <1>1, <1>18 DEF OneRequest, Responses, workerVars
<1>19. CASE Apply \/ User \/ \E k \in Keys : Change(k)
  BY <1>18, <1>19 DEF Apply, User, Open, Cancel, Submit, PressRefresh, SendCommand, Change, nodeVars
<1>20. QED
  BY <1>5, <1>6, <1>7, <1>8, <1>9, <1>10, <1>11, <1>12, <1>13, <1>14, <1>15, <1>16, <1>17, <1>18, <1>19
     DEF Next, Node, Worker, vars, nodeVars

LEMMA TypeInit == Init => TypeInv
<1> SUFFICES ASSUME Init PROVE TypeInv
  OBVIOUS
<1>1. NodeTypes
  BY MadeTypes DEF Init, NodeTypes
<1>2. WorkerTypes
  BY MadeTypes, RequestTypes, TestTuiAssumption DEF Init, WorkerTypes
<1>3. AppTypes
  BY RequestTypes, TestTuiAssumption DEF Init, AppTypes, NoModal
<1>4. EventTypes
  BY DEF Init, EventTypes
<1>5. OneRequest
  BY DEF Init, OneRequest, Responses
<1>6. QED
  BY <1>1, <1>2, <1>3, <1>4, <1>5 DEF TypeInv

LEMMA TypeInvariance == Spec => []TypeInv
<1>1. TypeInv /\ [Next]_vars => TypeInv'
  BY NodeTypesStep, WorkerTypesStep, EventTypesStep, AppTypesStep, OneRequestStep DEF TypeInv
<1>2. QED
  BY <1>1, TypeInit, PTL DEF Spec

\* Every variable of the monitor keeps its type; in particular the worker
\* collects only `!` while it awaits a response, and listens only when none is
\* on its way.
THEOREM MonitorTypes == Spec => []TypeOK
<1>1. TypeInv => TypeOK
  BY TestTuiAssumption DEF TypeInv, NodeTypes, WorkerTypes, AppTypes, Frames, Commands, TypeOK
<1>2. QED
  BY <1>1, TypeInvariance, PTL

-----------------------------------------------------------------------------
(* The rows.                                                               *)

Live    == {"catchup", "commands", "refresh", "drain", "listen"}
Watched == Readable \cap Observable

\* A `!` for k is owed, sent or collected.
Told(k) ==
  \/ k \in owed \cup changed
  \/ \E i \in DOMAIN wire : wire[i] = Frame("CHANGED", k, NoValue)

\* k will be read again, or its change was dropped with a refused WRITE.
Due(k) ==
  \/ Told(k)
  \/ k \in pending \cup dropped
  \/ response.kind = "WRITTEN" /\ response.key = k
  \/ awaiting = Req("get", k) \/ Req("get", k) \in todo

\* Keys are observed while the rows are filled, and no write comes in between.
SetupFirst ==
  /\ pc = "setup" => dropped = {} /\ awaiting.op \in {"none", "observe", "get"}
  /\ pc # "setup" => awaiting.op # "observe" /\ \A r \in todo : r.op = "get"

\* A key is observed before it is read.
ObservedFirst ==
  \A k \in Watched :
    /\ pc \in Live => k \in observed
    /\ pc = "setup" /\ k \notin observed =>
         /\ Req("get", k) \in todo /\ awaiting # Req("get", k)
         /\ Req("observe", k) \in todo \/ asked = Req("observe", k)

\* A value that is on its way is that of the key, unless a `!` tells that it is
\* not; and the `!` of a write comes after its response.
FramesTell ==
  \A k \in Watched \cap observed :
    /\ response.kind = "VALUE" /\ response.key = k => response.value = value[k] \/ Told(k)
    /\ \A i \in DOMAIN wire : wire[i].key = k =>
         /\ wire[i].kind = "VALUE" => wire[i].value = value[k] \/ Told(k)
         /\ wire[i].kind = "WRITTEN" =>
              k \in owed \/ \E j \in DOMAIN wire : j > i /\ wire[j] = Frame("CHANGED", k, NoValue)

\* The event sets the row of k.
Touches(e, k) ==
  \/ e.kind = "Connected"
  \/ e.kind \in {"ValueUpdated", "WriteSucceeded"} /\ e.key = k
Carried(e, k) == IF e.kind = "Connected" THEN e.rows[k] ELSE e.value

\* The row of k is right, or due, once the App has applied the events.
RowSettles(k) ==
  /\ (\A i \in DOMAIN events : ~Touches(events[i], k)) => shown[k] = value[k] \/ Due(k)
  /\ \A i \in DOMAIN events :
       Touches(events[i], k) /\ (\A j \in DOMAIN events : j > i => ~Touches(events[j], k))
         => Carried(events[i], k) = value[k] \/ Due(k)

RowsSettle ==
  \A k \in Watched :
    /\ pc = "setup" => rows[k] = value[k] \/ Due(k)
    /\ pc \in Live => RowSettles(k)

RowsInv == SetupFirst /\ ObservedFirst /\ FramesTell /\ RowsSettle

LEMMA WatchedKeys == \A k \in Watched : k \in Keys /\ k \in Readable /\ k \in Observable
  BY TestTuiAssumption DEF Watched

\* Requests and frames that differ in a field differ.
LEMMA RequestsDiffer ==
  /\ \A k, j : Req("get", k) # Req("observe", j) /\ Req("get", k) # Req("ping", j) /\ Req("get", k) # Req("write", j)
  /\ \A k : Req("get", k) # NoReq /\ Req("observe", k) # NoReq
  /\ \A k, j, o : Req(o, k) = Req(o, j) => k = j
  /\ \A k, o : Req(o, k).op = o /\ Req(o, k).key = k
  /\ NoReq.op = "none"
  /\ \A t, k, v : Frame(t, k, v).kind = t /\ Frame(t, k, v).key = k /\ Frame(t, k, v).value = v
  /\ NoFrame.kind = "NONE"
  BY DEF Req, NoReq, Frame, NoFrame

\* What Append and Tail do to the wire.
LEMMA WireAppend ==
  ASSUME NodeTypes, NEW f \in Frames, wire' = Append(wire, f)
  PROVE  /\ Len(wire) \in Nat
         /\ \A i \in DOMAIN wire : i \in DOMAIN wire' /\ wire'[i] = wire[i] /\ i < Len(wire) + 1
         /\ Len(wire) + 1 \in DOMAIN wire' /\ wire'[Len(wire) + 1] = f
         /\ \A i \in DOMAIN wire' : i \in DOMAIN wire \/ i = Len(wire) + 1
  BY DEF NodeTypes

LEMMA WireTail ==
  ASSUME NodeTypes, wire # <<>>, wire' = Tail(wire)
  PROVE  /\ 1 \in DOMAIN wire /\ Head(wire) = wire[1] /\ Head(wire) \in Frames
         /\ \A i \in DOMAIN wire' : i \in Nat \ {0} /\ i + 1 \in DOMAIN wire /\ wire'[i] = wire[i + 1]
         /\ \A i \in DOMAIN wire : i \in Nat /\ (i # 1 => i - 1 \in DOMAIN wire' /\ wire'[i - 1] = wire[i])
  BY DEF NodeTypes

LEMMA SetupFirstStep ==
  TypeInv /\ SetupFirst /\ [Next]_vars => SetupFirst'
<1> SUFFICES ASSUME TypeInv, SetupFirst, [Next]_vars PROVE SetupFirst'
  OBVIOUS
<1>1. WorkerTypes /\ OneRequest /\ NodeTypes
  BY DEF TypeInv
<1> USE DEF SetupFirst
<1>2. CASE UNCHANGED <<pc, dropped, awaiting, todo>>
  BY <1>2
<1>3. CASE Connect
  BY <1>1, <1>3, RequestsDiffer DEF Connect, OneRequest
<1>4. CASE Disconnect
  BY <1>4, RequestsDiffer DEF Disconnect
<1>5. CASE AskNext
  BY <1>1, <1>5 DEF AskNext, Ask, WorkerTypes, appVars
<1>6. CASE Command
  <2>1. \A r \in Refresh : r.op = "get"
    BY RequestsDiffer DEF Refresh, Gets
  <2>2. QED
    BY <1>6, <2>1, RequestsDiffer DEF Command, Ask
<1>7. CASE Timeout
  BY <1>7, RequestsDiffer DEF Timeout, Ask, appVars
<1>8. ASSUME NEW k \in Keys, Drain(k) PROVE SetupFirst'
  BY <1>8, RequestsDiffer DEF Drain, Ask, appVars
<1>9. CASE Answered
  <2>1. wire # <<>> /\ Head(wire).kind # "CHANGED" /\ wire' = Tail(wire)
    BY <1>9 DEF Answered
  <2>2. 1 \in Responses /\ Head(wire) = wire[1]
    BY <1>1, <2>1, WireTail DEF Responses
  <2>3. Answers(awaiting, Head(wire))
    BY <1>1, <2>2 DEF OneRequest
  <2>4. pc = "setup" => dropped' = {}
    BY <1>9, <2>3 DEF Answered, Answers
  <2>5. QED
    BY <1>9, <2>4, RequestsDiffer DEF Answered
<1>10. CASE Connecting \/ SetupDone \/ RefreshDone \/ CommandsDone \/ DrainDone \/ Listen \/ Collect
  BY <1>1, <1>10, RequestsDiffer DEF Connecting, SetupDone, RefreshDone, CommandsDone, DrainDone, Listen, Collect,
     appVars
<1>11. CASE Node \/ Apply \/ User \/ \E k \in Keys : Change(k)
  BY <1>2, <1>11 DEF Node, Serve, Respond, Notify, Apply, User, Open, Cancel, Submit, PressRefresh, SendCommand,
     Change, workerVars, appVars
<1>12. CASE UNCHANGED vars
  BY <1>2, <1>12 DEF vars, workerVars, appVars
<1>13. QED
  BY <1>3, <1>4, <1>5, <1>6, <1>7, <1>8, <1>9, <1>10, <1>11, <1>12 DEF Next, Worker

LEMMA ObservedFirstStep ==
  TypeInv /\ ObservedFirst /\ [Next]_vars => ObservedFirst'
<1> SUFFICES ASSUME TypeInv, ObservedFirst, [Next]_vars PROVE ObservedFirst'
  OBVIOUS
<1>1. WorkerTypes /\ OneRequest
  BY DEF TypeInv
<1> USE DEF ObservedFirst
<1>2. CASE UNCHANGED <<pc, observed, todo, awaiting, asked>>
  BY <1>2
<1>3. CASE pc \in Live /\ pc' \in Live /\ UNCHANGED observed
  BY <1>3 DEF Live
<1>4. CASE pc' \in {"retry", "connect"}
  BY <1>4 DEF Live
<1>5. CASE Serve
  <2>1. /\ asked = awaiting /\ observed \subseteq observed' /\ UNCHANGED <<pc, todo, awaiting>>
        /\ asked.op = "observe" => asked.key \in observed'
    BY <1>1, <1>5 DEF Serve, OneRequest, workerVars
  <2>2. QED
    BY <2>1, RequestsDiffer
<1>6. CASE Connect
  <2>1. \A k \in Watched : Req("get", k) \in Setup /\ Req("observe", k) \in Setup
    BY WatchedKeys DEF Setup, Gets
  <2>2. pc' = "setup" /\ awaiting' = NoReq /\ todo' = Setup
    BY <1>1, <1>6 DEF Connect, OneRequest
  <2>3. QED
    BY <2>1, <2>2, RequestsDiffer DEF Live
<1>7. CASE AskNext
  <2>1. PICK r \in todo : /\ \A s \in todo \ {r} : Precedes(r, s)
                          /\ Ask(r) /\ todo' = todo \ {r}
    BY <1>7 DEF AskNext
  <2>2. asked = NoReq /\ UNCHANGED <<pc, observed>> /\ asked' = r /\ awaiting' = r
    BY <1>1, <1>7, <2>1 DEF AskNext, OneRequest, Ask
  <2>3. ASSUME NEW k \in Watched, pc = "setup", k \notin observed
        PROVE  /\ Req("get", k) \in todo' /\ awaiting' # Req("get", k)
               /\ Req("observe", k) \in todo' \/ asked' = Req("observe", k)
    <3>1. Req("get", k) \in todo /\ Req("observe", k) \in todo
      BY <2>2, <2>3, RequestsDiffer
    <3>2. ~Precedes(Req("get", k), Req("observe", k))
      BY WatchedKeys, RequestsDiffer DEF Precedes, Keys
    <3>3. r # Req("get", k)
      BY <2>1, <3>1, <3>2, RequestsDiffer
    <3>4. QED
      BY <2>1, <2>2, <3>1, <3>3
  <2>4. QED
    BY <2>2, <2>3 DEF Live
<1>8. CASE SetupDone
  BY <1>8 DEF SetupDone, Live, nodeVars
<1>9. CASE Answered
  BY <1>9, RequestsDiffer DEF Answered, Live
<1>10. CASE RefreshDone \/ Command \/ CommandsDone \/ DrainDone \/ Listen \/ Timeout \/ \E k \in Keys : Drain(k)
  BY <1>3, <1>10 DEF RefreshDone, Command, CommandsDone, DrainDone, Listen, Timeout, Drain, Ask, Live, nodeVars
<1>11. CASE Connecting \/ Disconnect
  BY <1>4, <1>11 DEF Connecting, Disconnect
<1>12. CASE Respond \/ (\E k \in Keys : Notify(k) \/ Change(k)) \/ Collect \/ Apply \/ User
  BY <1>2, <1>12 DEF Respond, Notify, Change, Collect, Apply, User, Open, Cancel, Submit, PressRefresh, SendCommand,
     workerVars, nodeVars
<1>13. CASE UNCHANGED vars
  BY <1>2, <1>13 DEF vars, workerVars, nodeVars
<1>14. QED
  BY <1>5, <1>6, <1>7, <1>8, <1>9, <1>10, <1>11, <1>12, <1>13 DEF Next, Node, Worker

LEMMA AwaitingNone ==
  ASSUME TypeInv, awaiting = NoReq
  PROVE  /\ asked = NoReq /\ response = NoFrame /\ changed = {}
         /\ \A i \in DOMAIN wire : wire[i].kind = "CHANGED"
  BY RequestsDiffer DEF TypeInv, OneRequest, Answers, Responses

\* The response that the worker receives is what it awaits, and the only one.
LEMMA AnsweredFacts ==
  ASSUME TypeInv, Answered
  PROVE  /\ wire # <<>> /\ wire' = Tail(wire) /\ 1 \in DOMAIN wire /\ Head(wire) = wire[1]
         /\ Answers(awaiting, Head(wire)) /\ Head(wire) \in Frames
         /\ \A i \in DOMAIN wire : i # 1 => wire[i].kind = "CHANGED"
         /\ \A i \in DOMAIN wire' : wire'[i].kind = "CHANGED"
         /\ response = NoFrame /\ asked = NoReq
         /\ UNCHANGED <<value, observed, owed, response, asked, pc, todo, shown>>
         /\ awaiting' = NoReq /\ changed' = {}
<1>1. NodeTypes /\ OneRequest
  BY DEF TypeInv
<1>2. wire # <<>> /\ wire' = Tail(wire) /\ Head(wire).kind # "CHANGED"
  BY DEF Answered
<1>3. 1 \in Responses /\ Head(wire) = wire[1] /\ Head(wire) \in Frames /\ 1 \in DOMAIN wire
  BY <1>1, <1>2, WireTail DEF Responses
<1>4. /\ Answers(awaiting, Head(wire)) /\ response = NoFrame /\ asked = NoReq
      /\ \A i \in DOMAIN wire : i # 1 => wire[i].kind = "CHANGED"
  BY <1>1, <1>3 DEF OneRequest, Responses
<1>5. \A i \in DOMAIN wire' : wire'[i].kind = "CHANGED"
  <2>1. \A i \in DOMAIN wire' : i \in Nat \ {0} /\ i + 1 \in DOMAIN wire /\ wire'[i] = wire[i + 1]
    BY <1>1, <1>2, WireTail
  <2>2. \A i \in DOMAIN wire' : i + 1 # 1
    BY <2>1
  <2>3. QED BY <1>4, <2>1, <2>2
<1>6. QED
  BY <1>2, <1>3, <1>4, <1>5 DEF Answered

\* A `!` that is owed, sent or collected stays so until the response comes.
LEMMA ToldKept ==
  ASSUME TypeInv, NEW k \in Keys, Told(k),
         \/ UNCHANGED <<owed, changed, wire>>
         \/ Respond \/ Collect \/ (\E j \in Keys : Notify(j) \/ Change(j))
  PROVE  Told(k)'
<1>1. NodeTypes
  BY DEF TypeInv
<1>2. CASE UNCHANGED <<owed, changed, wire>>
  BY <1>2 DEF Told
<1>3. CASE Respond
  <2>1. response \in Frames /\ wire' = Append(wire, response) /\ owed \subseteq owed' /\ changed' = changed
    BY <1>1, <1>3 DEF Respond, NodeTypes, workerVars
  <2>2. \A i \in DOMAIN wire : i \in DOMAIN wire' /\ wire'[i] = wire[i]
    BY <1>1, <2>1, WireAppend
  <2>3. QED BY <2>1, <2>2 DEF Told
<1>4. CASE Collect
  <2>1. wire # <<>> /\ wire' = Tail(wire) /\ owed' = owed /\ changed' = changed \cup {Head(wire).key}
    BY <1>4 DEF Collect
  <2>2. \A i \in DOMAIN wire : IF i = 1 THEN wire[i] = Head(wire) ELSE i - 1 \in DOMAIN wire' /\ wire'[i - 1] = wire[i]
    BY <1>1, <2>1, WireTail
  <2>3. QED BY <2>1, <2>2, RequestsDiffer DEF Told
<1>5. ASSUME NEW j \in Keys, Notify(j) PROVE Told(k)'
  <2> DEFINE f == Frame("CHANGED", j, NoValue)
  <2>1. f \in Frames /\ wire' = Append(wire, f) /\ owed' = owed \ {j} /\ changed' = changed
    BY <1>5, MadeTypes, RequestTypes DEF Notify, workerVars, Kinds
  <2>2. /\ \A i \in DOMAIN wire : i \in DOMAIN wire' /\ wire'[i] = wire[i]
        /\ Len(wire) + 1 \in DOMAIN wire' /\ wire'[Len(wire) + 1] = f
    BY <1>1, <2>1, WireAppend
  <2>3. QED BY <2>1, <2>2 DEF Told
<1>6. ASSUME NEW j \in Keys, Change(j) PROVE Told(k)'
  BY <1>6 DEF Told, Change, Stored, workerVars
<1>7. QED
  BY <1>2, <1>3, <1>4, <1>5, <1>6

LEMMA FramesTellStep ==
  TypeInv /\ FramesTell /\ [Next]_vars => FramesTell'
<1> SUFFICES ASSUME TypeInv, FramesTell, [Next]_vars PROVE FramesTell'
  OBVIOUS
<1>1. NodeTypes /\ OneRequest
  BY DEF TypeInv
<1>2. CASE UNCHANGED <<nodeVars, changed>>
  BY <1>2 DEF FramesTell, Told, nodeVars
<1>3. CASE awaiting = NoReq /\ UNCHANGED <<wire, response>>
  <2>1. (\A i \in DOMAIN wire' : wire'[i].kind = "CHANGED") /\ response'.kind \notin {"VALUE", "WRITTEN"}
    BY <1>3, AwaitingNone, RequestsDiffer
  <2>2. QED
    BY <2>1 DEF FramesTell
<1>4. CASE Serve
  <2>1. /\ asked # NoReq /\ UNCHANGED <<wire, owed, changed>>
        /\ response'.kind = "VALUE" => value' = value /\ response'.value = value[response'.key]
    BY <1>4, RequestsDiffer DEF Serve, workerVars
  <2>2. \A i \in DOMAIN wire' : wire'[i].kind = "CHANGED"
    BY <1>1, <2>1 DEF OneRequest, Responses
  <2>3. QED
    BY <2>1, <2>2 DEF FramesTell
<1>5. CASE Respond
  <2>1. /\ response \in Frames /\ response # NoFrame /\ wire' = Append(wire, response) /\ response' = NoFrame
        /\ UNCHANGED <<value, observed>>
        /\ response.kind = "WRITTEN" => {response.key} \cap observed \subseteq owed'
    BY <1>1, <1>5 DEF Respond, NodeTypes
  <2>2. \A i \in DOMAIN wire : wire[i].kind = "CHANGED"
    BY <1>1, <2>1 DEF OneRequest, Responses
  <2>3. \A i \in DOMAIN wire' : wire'[i].kind = "CHANGED" \/ wire'[i] = response
    BY <1>1, <2>1, <2>2, WireAppend
  <2>4. \A k \in Watched : Told(k) => Told(k)'
    BY <1>5, ToldKept, WatchedKeys
  <2>5. QED
    BY <2>1, <2>3, <2>4, RequestsDiffer DEF FramesTell
<1>6. ASSUME NEW j \in Keys, Notify(j) PROVE FramesTell'
  <2> DEFINE f == Frame("CHANGED", j, NoValue)
  <2>1. f \in Frames /\ wire' = Append(wire, f) /\ owed' = owed \ {j} /\ UNCHANGED <<value, observed, response>>
    BY <1>6, MadeTypes, RequestTypes DEF Notify, Kinds
  <2>2. \A k \in Watched : Told(k) => Told(k)'
    BY <1>6, ToldKept, WatchedKeys
  <2>3. /\ \A i \in DOMAIN wire : i \in DOMAIN wire' /\ wire'[i] = wire[i] /\ i < Len(wire) + 1
        /\ Len(wire) + 1 \in DOMAIN wire' /\ wire'[Len(wire) + 1] = f
        /\ \A i \in DOMAIN wire' : i \in DOMAIN wire \/ i = Len(wire) + 1
    BY <1>1, <2>1, WireAppend
  <2>4. ASSUME NEW k \in Watched \cap observed, NEW i \in DOMAIN wire', wire'[i].key = k
        PROVE  /\ wire'[i].kind = "VALUE" => wire'[i].value = value[k] \/ Told(k)'
               /\ wire'[i].kind = "WRITTEN" =>
                    k \in owed' \/ \E m \in DOMAIN wire' : m > i /\ wire'[m] = Frame("CHANGED", k, NoValue)
    <3>1. CASE i = Len(wire) + 1
      BY <2>3, <3>1, RequestsDiffer
    <3>2. CASE i \in DOMAIN wire /\ wire[i].kind = "VALUE"
      BY <2>2, <2>3, <2>4, <3>2 DEF FramesTell
    <3>3. CASE i \in DOMAIN wire /\ wire[i].kind = "WRITTEN"
      <4>1. k \in owed \/ \E m \in DOMAIN wire : m > i /\ wire[m] = Frame("CHANGED", k, NoValue)
        BY <2>3, <2>4, <3>3 DEF FramesTell
      <4>2. CASE k = j
        <5>1. Len(wire) + 1 > i
          BY <1>1, <2>3, <3>3 DEF NodeTypes
        <5>2. QED
          BY <2>3, <3>3, <4>2, <5>1, RequestsDiffer
      <4>3. CASE k # j
        BY <2>1, <2>3, <3>3, <4>1, <4>3, RequestsDiffer
      <4>4. QED BY <4>2, <4>3
    <3>4. QED
      BY <2>3, <3>1, <3>2, <3>3
  <2>5. QED
    BY <2>1, <2>2, <2>4 DEF FramesTell
<1>7. ASSUME NEW j \in Keys, Change(j) PROVE FramesTell'
  <2>1. /\ UNCHANGED <<observed, wire, response>> /\ owed \subseteq owed'
        /\ j \in observed => j \in owed'
        /\ \A k \in Keys \ {j} : value'[k] = value[k]
    BY <1>1, <1>7 DEF Change, Stored, NodeTypes
  <2>2. \A k \in Watched : Told(k) => Told(k)'
    BY <1>7, ToldKept, WatchedKeys
  <2>3. \A k \in Watched \cap observed : value'[k] = value[k] \/ Told(k)'
    BY <2>1, WatchedKeys DEF Told
  <2>4. QED
    BY <2>1, <2>2, <2>3, WatchedKeys DEF FramesTell
<1>8. CASE Collect
  <2>1. wire # <<>> /\ wire' = Tail(wire) /\ Head(wire).kind = "CHANGED" /\ UNCHANGED <<value, observed, response, owed>>
    BY <1>8 DEF Collect
  <2>2. \A k \in Watched : Told(k) => Told(k)'
    BY <1>8, ToldKept, WatchedKeys
  <2>3. /\ \A i \in DOMAIN wire' : i \in Nat \ {0} /\ i + 1 \in DOMAIN wire /\ wire'[i] = wire[i + 1]
        /\ \A i \in DOMAIN wire : i \in Nat /\ (i # 1 => i - 1 \in DOMAIN wire' /\ wire'[i - 1] = wire[i])
    BY <1>1, <2>1, WireTail
  <2>4. ASSUME NEW k \in Watched \cap observed, NEW i \in DOMAIN wire', wire'[i].key = k
        PROVE  /\ wire'[i].kind = "VALUE" => wire'[i].value = value[k] \/ Told(k)'
               /\ wire'[i].kind = "WRITTEN" =>
                    k \in owed' \/ \E m \in DOMAIN wire' : m > i /\ wire'[m] = Frame("CHANGED", k, NoValue)
    <3>1. i + 1 \in DOMAIN wire /\ wire[i + 1] = wire'[i] /\ i \in Nat \ {0}
      BY <2>3
    <3>2. wire'[i].kind = "VALUE" => wire'[i].value = value[k] \/ Told(k)'
      BY <2>2, <2>4, <3>1 DEF FramesTell
    <3>3. ASSUME wire'[i].kind = "WRITTEN", k \notin owed
          PROVE  \E m \in DOMAIN wire' : m > i /\ wire'[m] = Frame("CHANGED", k, NoValue)
      <4>1. PICK n \in DOMAIN wire : n > i + 1 /\ wire[n] = Frame("CHANGED", k, NoValue)
        BY <2>4, <3>1, <3>3 DEF FramesTell
      <4>2. n - 1 \in DOMAIN wire' /\ wire'[n - 1] = wire[n] /\ n - 1 > i
        BY <2>3, <3>1, <4>1
      <4>3. QED BY <4>1, <4>2
    <3>4. QED
      BY <2>1, <3>2, <3>3
  <2>5. QED
    BY <2>1, <2>2, <2>4 DEF FramesTell
<1>9. CASE Listen
  <2>1. wire # <<>> /\ wire' = Tail(wire) /\ awaiting = NoReq /\ response' = response
    BY <1>9 DEF Listen
  <2>2. \A i \in DOMAIN wire' : wire'[i].kind = "CHANGED"
    BY <1>1, <2>1, AwaitingNone, WireTail
  <2>3. QED
    BY <2>1, <2>2, AwaitingNone, RequestsDiffer DEF FramesTell
<1>10. CASE Answered
  BY <1>10, AnsweredFacts, RequestsDiffer DEF FramesTell
<1>11. CASE Disconnect
  BY <1>11 DEF Disconnect, FramesTell
<1>12. CASE AskNext \/ Command \/ Timeout \/ \E k \in Keys : Drain(k)
  BY <1>3, <1>12 DEF AskNext, Command, Timeout, Drain, Ask, nodeVars
<1>13. CASE Connect
  BY <1>1, <1>3, <1>13 DEF Connect, OneRequest, nodeVars
<1>14. CASE Connecting \/ SetupDone \/ RefreshDone \/ CommandsDone \/ DrainDone \/ Apply \/ User
  BY <1>2, <1>14 DEF Connecting, SetupDone, RefreshDone, CommandsDone, DrainDone, Apply, User, Open, Cancel, Submit,
     PressRefresh, SendCommand, workerVars
<1>15. CASE UNCHANGED vars
  BY <1>2, <1>15 DEF vars, workerVars
<1>16. QED
  BY <1>4, <1>5, <1>6, <1>7, <1>8, <1>9, <1>10, <1>11, <1>12, <1>13, <1>14, <1>15 DEF Next, Node, Worker

\* A store to a key is told, or the key is going to be read.
LEMMA StoreIsDue ==
  ASSUME TypeInv, ObservedFirst, [Next]_vars, pc \in Live \cup {"setup"}, NEW k \in Watched
  PROVE  value'[k] = value[k] \/ Due(k)'
<1>1. NodeTypes /\ OneRequest
  BY DEF TypeInv
<1>2. CASE UNCHANGED value
  BY <1>2
<1>3. ASSUME NEW j \in Keys, Change(j) PROVE value'[k] = value[k] \/ Due(k)'
  <2>1. /\ j \in observed => j \in owed'
        /\ j # k => value'[k] = value[k]
        /\ UNCHANGED <<pc, todo>>
    BY <1>1, <1>3, WatchedKeys DEF Change, Stored, NodeTypes, workerVars
  <2>2. k \notin observed => Req("get", k) \in todo
    BY DEF ObservedFirst
  <2>3. QED
    BY <2>1, <2>2 DEF Due, Told
<1>4. CASE Serve
  <2>1. value'[k] = value[k] \/ (response'.kind = "WRITTEN" /\ response'.key = k)
    BY <1>1, <1>4, WatchedKeys, RequestsDiffer DEF Serve, NodeTypes
  <2>2. QED
    BY <2>1 DEF Due
<1>5. CASE Respond \/ Worker \/ Disconnect \/ Apply \/ User \/ \E j \in Keys : Notify(j)
  BY <1>2, <1>5 DEF Respond, Worker, Connecting, Connect, AskNext, SetupDone, RefreshDone, Command, CommandsDone,
     DrainDone, Listen, Timeout, Collect, Answered, Drain, Ask, Disconnect, Apply, User, Open, Cancel, Submit,
     PressRefresh, SendCommand, Notify, nodeVars
<1>6. CASE UNCHANGED vars
  BY <1>2, <1>6 DEF vars, nodeVars
<1>7. QED
  BY <1>3, <1>4, <1>5, <1>6 DEF Next, Node

\* What is due stays due until the response that carries it.
LEMMA DueKept ==
  ASSUME TypeInv, ObservedFirst, [Next]_vars, ~Answered, pc' \in Live \cup {"setup"}, NEW k \in Watched, Due(k)
  PROVE  Due(k)'
<1>1. NodeTypes /\ OneRequest /\ k \in Keys /\ k \in Readable
  BY WatchedKeys DEF TypeInv
<1>2. CASE UNCHANGED <<nodeVars, awaiting, changed, pending, todo, dropped>>
  BY <1>2 DEF Due, Told, nodeVars
<1>3. ASSUME NEW r, Ask(r), awaiting = NoReq, UNCHANGED dropped,
             \/ UNCHANGED <<pending, todo>>
             \/ UNCHANGED pending /\ todo' = todo \ {r}
             \/ UNCHANGED todo /\ \E j \in Keys : pending' = pending \ {j} /\ r = Req("get", j)
      PROVE  Due(k)'
  <2>1. UNCHANGED <<owed, wire, response>> /\ changed = {} /\ awaiting' = r
    BY <1>1, <1>3 DEF Ask, OneRequest
  <2>2. CASE Told(k)
    BY <2>1, <2>2 DEF Due, Told
  <2>3. CASE ~Told(k)
    BY <1>3, <2>1, <2>3, RequestsDiffer DEF Due
  <2>4. QED BY <2>2, <2>3
<1>4. CASE Serve
  <2>1. UNCHANGED <<owed, changed, wire, pending, todo, dropped, awaiting>> /\ response = NoFrame
    BY <1>4 DEF Serve, workerVars, appVars
  <2>2. QED
    BY <2>1, RequestsDiffer DEF Due, Told
<1>5. CASE Respond
  <2>1. UNCHANGED <<pending, todo, dropped, awaiting, pc, observed>>
        /\ (response.kind = "WRITTEN" => {response.key} \cap observed \subseteq owed')
    BY <1>5 DEF Respond, workerVars, appVars
  <2>2. k \in observed \/ Req("get", k) \in todo
    BY <2>1 DEF ObservedFirst
  <2>3. Told(k) => Told(k)'
    BY <1>1, <1>5, ToldKept
  <2>4. QED
    BY <2>1, <2>2, <2>3 DEF Due, Told
<1>6. CASE Collect \/ \E j \in Keys : Notify(j) \/ Change(j)
  <2>1. UNCHANGED <<pending, todo, dropped, awaiting, response>>
    BY <1>6 DEF Collect, Notify, Change, workerVars, appVars
  <2>2. Told(k) => Told(k)'
    BY <1>1, <1>6, ToldKept
  <2>3. QED
    BY <2>1, <2>2 DEF Due
<1>7. CASE Listen
  <2>1. /\ wire # <<>> /\ wire' = Tail(wire) /\ pending' = pending \cup {Head(wire).key}
        /\ UNCHANGED <<owed, changed, response, awaiting, todo, dropped>>
    BY <1>7 DEF Listen, appVars
  <2>2. \A i \in DOMAIN wire : IF i = 1 THEN wire[i] = Head(wire) ELSE i - 1 \in DOMAIN wire' /\ wire'[i - 1] = wire[i]
    BY <1>1, <2>1, WireTail
  <2>3. CASE Told(k)
    BY <2>1, <2>2, <2>3, RequestsDiffer DEF Due, Told
  <2>4. CASE ~Told(k)
    BY <2>1, <2>4 DEF Due
  <2>5. QED BY <2>3, <2>4
<1>8. CASE Connect
  BY <1>1, <1>8 DEF Connect, Setup, Gets, Due
<1>9. CASE AskNext
  BY <1>3, <1>9 DEF AskNext, appVars
<1>10. CASE Command
  <2>1. CASE todo' = Refresh
    BY <1>1, <2>1 DEF Refresh, Gets, Due
  <2>2. CASE todo' # Refresh
    BY <1>3, <1>10, <2>2 DEF Command, appVars
  <2>3. QED BY <2>1, <2>2
<1>11. CASE Timeout
  BY <1>2, <1>3, <1>11 DEF Timeout, appVars
<1>12. ASSUME NEW j \in Keys, Drain(j) PROVE Due(k)'
  <2>1. CASE j \in Readable
    BY <1>3, <1>12, <2>1 DEF Drain, appVars
  <2>2. CASE j \notin Readable
    <3>1. pending' = pending \ {j} /\ j # k /\ UNCHANGED <<nodeVars, awaiting, changed, todo, dropped>>
      BY <1>1, <1>12, <2>2 DEF Drain, appVars
    <3>2. QED
      BY <3>1 DEF Due, Told, nodeVars
  <2>3. QED BY <2>1, <2>2
<1>13. CASE Connecting \/ Disconnect
  BY <1>13 DEF Connecting, Disconnect, Live
<1>14. CASE SetupDone \/ RefreshDone \/ CommandsDone \/ DrainDone \/ Apply \/ User
  BY <1>2, <1>14 DEF SetupDone, RefreshDone, CommandsDone, DrainDone, Apply, User, Open, Cancel, Submit,
     PressRefresh, SendCommand, workerVars, appVars
<1>15. CASE UNCHANGED vars
  BY <1>2, <1>15 DEF vars, workerVars, appVars
<1>16. QED
  BY <1>4, <1>5, <1>6, <1>7, <1>8, <1>9, <1>10, <1>11, <1>12, <1>13, <1>14, <1>15 DEF Next, Node, Worker

\* A `!` that came before the response is reread, or given up with a refused WRITE.
LEMMA ToldAnswered ==
  ASSUME TypeInv, Answered, NEW k \in Keys, Told(k)
  PROVE  Due(k)'
<1>1. NodeTypes
  BY DEF TypeInv
<1>2. /\ wire # <<>> /\ wire' = Tail(wire) /\ Head(wire) = wire[1] /\ owed' = owed
      /\ Head(wire).kind # "CHANGED"
  BY AnsweredFacts DEF Answers
<1>3. changed \subseteq pending' \cup dropped'
  BY DEF Answered, Reread
<1>4. \A i \in DOMAIN wire : i # 1 => i - 1 \in DOMAIN wire' /\ wire'[i - 1] = wire[i]
  BY <1>1, <1>2, WireTail
<1>5. CASE k \in owed \cup changed
  BY <1>2, <1>3, <1>5 DEF Due, Told
<1>6. ASSUME NEW i \in DOMAIN wire, wire[i] = Frame("CHANGED", k, NoValue) PROVE Due(k)'
  <2>1. i # 1
    BY <1>2, <1>6, RequestsDiffer
  <2>2. i - 1 \in DOMAIN wire' /\ wire'[i - 1] = Frame("CHANGED", k, NoValue)
    BY <1>4, <1>6, <2>1
  <2>3. QED
    BY <2>2 DEF Due, Told
<1>7. QED
  BY <1>5, <1>6 DEF Told

\* What a response leaves due.
LEMMA DueAnswered ==
  ASSUME TypeInv, RowsInv, Answered, pc \in Live \cup {"setup"}, NEW k \in Watched
  PROVE  /\ Head(wire).key = k /\ Head(wire).kind = "WRITTEN" => Due(k)'
         /\ Head(wire).key = k /\ Head(wire).kind = "VALUE" => Head(wire).value = value[k] \/ Due(k)'
         /\ ~(Head(wire).key = k /\ Head(wire).kind \in {"VALUE", "WRITTEN"}) /\ Due(k) => Due(k)'
<1>1. NodeTypes /\ k \in Keys
  BY WatchedKeys DEF TypeInv
<1>2. /\ wire # <<>> /\ wire' = Tail(wire) /\ Head(wire) = wire[1] /\ owed' = owed /\ 1 \in DOMAIN wire
      /\ Answers(awaiting, Head(wire)) /\ response = NoFrame /\ asked = NoReq /\ todo' = todo
  BY AnsweredFacts
<1>3. Told(k) => Due(k)'
  BY <1>1, ToldAnswered
<1>4. ASSUME Head(wire).key = k, Head(wire).kind = "WRITTEN" PROVE Due(k)'
  <2>1. CASE k \in observed
    <3>1. k \in owed \/ \E j \in DOMAIN wire : wire[j] = Frame("CHANGED", k, NoValue)
      BY <1>2, <1>4, <2>1 DEF RowsInv, FramesTell
    <3>2. QED
      BY <1>3, <3>1 DEF Told
  <2>2. CASE k \notin observed
    BY <1>2, <2>2 DEF RowsInv, ObservedFirst, Due
  <2>3. QED BY <2>1, <2>2
<1>5. ASSUME Head(wire).key = k, Head(wire).kind = "VALUE" PROVE Head(wire).value = value[k] \/ Due(k)'
  <2>1. CASE k \in observed
    BY <1>2, <1>3, <1>5, <2>1 DEF RowsInv, FramesTell
  <2>2. CASE k \notin observed
    BY <1>2, <2>2 DEF RowsInv, ObservedFirst, Due
  <2>3. QED BY <2>1, <2>2
<1>6. ASSUME ~(Head(wire).key = k /\ Head(wire).kind \in {"VALUE", "WRITTEN"}), Due(k) PROVE Due(k)'
  <2>1. CASE k \in pending
    BY <2>1 DEF Answered, Reread, Due
  <2>2. CASE k \in dropped
    <3>1. Head(wire).kind = "ERROR" \/ Head(wire).key # k
      <4>1. CASE Head(wire).kind = "OK"
        <5>1. awaiting.op \in {"observe", "ping"} /\ Head(wire).key = awaiting.key
          BY <1>2, <4>1 DEF Answers
        <5>2. pc # "setup" /\ awaiting.op # "observe"
          BY <2>2 DEF RowsInv, SetupFirst
        <5>3. awaiting.op = "ping"
          BY <5>1, <5>2
        <5>4. Legal(awaiting)
          BY DEF TypeInv, WorkerTypes
        <5>5. awaiting.key = NoKey
          BY <5>3, <5>4 DEF Legal
        <5>6. QED
          BY <1>1, <5>1, <5>5, RequestTypes
      <4>2. QED
        BY <1>2, <1>6, <4>1 DEF Answers
    <3>2. QED
      BY <2>2, <3>1 DEF Answered, Due
  <2>3. CASE awaiting = Req("get", k)
    BY <1>2, <1>6, <2>3, RequestsDiffer DEF Answers
  <2>4. QED
    BY <1>2, <1>3, <1>6, <2>1, <2>2, <2>3, RequestsDiffer DEF Due
<1>7. QED
  BY <1>4, <1>5, <1>6

\* The event is sent to the App.
LEMMA EmitSettles ==
  ASSUME TypeInv, NEW k \in Watched, NEW e \in Events, events' = Append(events, e), shown' = shown,
         \/ Touches(e, k) /\ (Carried(e, k) = value'[k] \/ Due(k)')
         \/ ~Touches(e, k) /\ RowSettles(k) /\ value'[k] = value[k] /\ (Due(k) => Due(k)')
  PROVE  RowSettles(k)'
<1>1. events \in Seq(Events)
  BY DEF TypeInv, EventTypes
<1>2. /\ \A i \in DOMAIN events : i \in DOMAIN events' /\ events'[i] = events[i] /\ i < Len(events) + 1
      /\ Len(events) + 1 \in DOMAIN events' /\ events'[Len(events) + 1] = e
      /\ \A i \in DOMAIN events' : i \in DOMAIN events \/ i = Len(events) + 1
  BY <1>1
<1>3. CASE Touches(e, k) /\ (Carried(e, k) = value'[k] \/ Due(k)')
  <2>1. \A i \in DOMAIN events' : (\A j \in DOMAIN events' : j > i => ~Touches(events'[j], k)) => i = Len(events) + 1
    BY <1>1, <1>2, <1>3
  <2>2. QED
    BY <1>2, <1>3, <2>1 DEF RowSettles
<1>4. CASE ~Touches(e, k) /\ RowSettles(k) /\ value'[k] = value[k] /\ (Due(k) => Due(k)')
  <2>1. (\A i \in DOMAIN events' : ~Touches(events'[i], k)) => shown'[k] = value'[k] \/ Due(k)'
    BY <1>2, <1>4 DEF RowSettles
  <2>2. ASSUME NEW i \in DOMAIN events', Touches(events'[i], k),
               \A j \in DOMAIN events' : j > i => ~Touches(events'[j], k)
        PROVE  Carried(events'[i], k) = value'[k] \/ Due(k)'
    <3>1. i \in DOMAIN events /\ events'[i] = events[i]
      BY <1>2, <1>4, <2>2
    <3>2. \A j \in DOMAIN events : j > i => ~Touches(events[j], k)
      BY <1>2, <2>2
    <3>3. QED
      BY <1>4, <2>2, <3>1, <3>2 DEF RowSettles
  <2>3. QED
    BY <2>1, <2>2 DEF RowSettles
<1>5. QED
  BY <1>3, <1>4

\* The App applies the first event.
LEMMA ApplySettles ==
  ASSUME TypeInv, NEW k \in Watched, Apply, RowSettles(k)
  PROVE  RowSettles(k)'
<1>1. events \in Seq(Events) /\ events # <<>> /\ events' = Tail(events) /\ shown \in [Keys -> Amounts] /\ k \in Keys
  BY WatchedKeys DEF TypeInv, EventTypes, AppTypes, Apply
<1>2. /\ 1 \in DOMAIN events /\ Head(events) = events[1] /\ Head(events) \in Events
      /\ \A i \in DOMAIN events' : i \in Nat \ {0} /\ i + 1 \in DOMAIN events /\ events'[i] = events[i + 1]
      /\ \A i \in DOMAIN events : i \in Nat \ {0} /\ (i # 1 => i - 1 \in DOMAIN events' /\ events'[i - 1] = events[i])
  BY <1>1
<1>3. value' = value /\ Due(k)' = Due(k)
  BY DEF Apply, Due, Told, nodeVars, workerVars
<1>4. IF Touches(Head(events), k) THEN shown'[k] = Carried(Head(events), k) ELSE shown'[k] = shown[k]
  BY <1>1 DEF Apply, Touches, Carried
<1>5. (\A i \in DOMAIN events' : ~Touches(events'[i], k)) => shown'[k] = value'[k] \/ Due(k)'
  <2> SUFFICES ASSUME \A i \in DOMAIN events' : ~Touches(events'[i], k)
               PROVE  shown'[k] = value'[k] \/ Due(k)'
    OBVIOUS
  <2>1. \A i \in DOMAIN events : i # 1 => ~Touches(events[i], k)
    BY <1>2
  <2>2. CASE Touches(Head(events), k)
    <3>1. \A j \in DOMAIN events : j > 1 => ~Touches(events[j], k)
      BY <1>2, <2>1
    <3>2. QED
      BY <1>2, <1>3, <1>4, <2>2, <3>1 DEF RowSettles
  <2>3. CASE ~Touches(Head(events), k)
    BY <1>2, <1>3, <1>4, <2>1, <2>3 DEF RowSettles
  <2>4. QED BY <2>2, <2>3
<1>6. ASSUME NEW i \in DOMAIN events', Touches(events'[i], k),
             \A j \in DOMAIN events' : j > i => ~Touches(events'[j], k)
      PROVE  Carried(events'[i], k) = value'[k] \/ Due(k)'
  <2>1. i \in Nat \ {0} /\ i + 1 \in DOMAIN events /\ events'[i] = events[i + 1]
    BY <1>2
  <2>2. ASSUME NEW j \in DOMAIN events, j > i + 1 PROVE ~Touches(events[j], k)
    <3>1. j - 1 \in DOMAIN events' /\ events'[j - 1] = events[j] /\ j - 1 > i
      BY <1>2, <2>1, <2>2
    <3>2. QED BY <1>6, <3>1
  <2>3. QED
    BY <1>3, <1>6, <2>1, <2>2 DEF RowSettles
<1>7. QED
  BY <1>5, <1>6 DEF RowSettles

LEMMA RowsSettleStep ==
  TypeInv /\ RowsInv /\ [Next]_vars => RowsSettle'
<1> SUFFICES ASSUME TypeInv, RowsInv, [Next]_vars, NEW k \in Watched
             PROVE  /\ pc' = "setup" => rows'[k] = value'[k] \/ Due(k)'
                    /\ pc' \in Live => RowSettles(k)'
  BY DEF RowsSettle
<1>1. NodeTypes /\ WorkerTypes /\ OneRequest /\ k \in Keys /\ k \in Readable
      /\ SetupFirst /\ ObservedFirst /\ FramesTell /\ RowsSettle
  BY WatchedKeys DEF TypeInv, RowsInv
<1>2. pc \in Live \cup {"setup"} => value'[k] = value[k] \/ Due(k)'
  BY <1>1, StoreIsDue
<1>3. ~Answered /\ pc' \in Live \cup {"setup"} /\ Due(k) => Due(k)'
  BY <1>1, DueKept
<1> DEFINE Goal == /\ pc' = "setup" => rows'[k] = value'[k] \/ Due(k)'
                   /\ pc' \in Live => RowSettles(k)'
<1>4. ASSUME UNCHANGED <<events, shown, rows>>, ~Answered, pc' = "setup" => pc = "setup", pc' \in Live => pc \in Live
      PROVE  Goal
  <2>1. ASSUME pc' = "setup" PROVE rows'[k] = value'[k] \/ Due(k)'
    BY <1>1, <1>2, <1>3, <1>4, <2>1 DEF RowsSettle
  <2>2. ASSUME pc' \in Live PROVE RowSettles(k)'
    <3>1. RowSettles(k) /\ (value'[k] = value[k] \/ Due(k)') /\ (Due(k) => Due(k)')
      BY <1>1, <1>2, <1>3, <1>4, <2>2 DEF RowsSettle
    <3>2. QED
      BY <1>4, <3>1 DEF RowSettles
  <2>3. QED BY <2>1, <2>2
<1>5. CASE pc' \in {"retry", "connect"}
  BY <1>5 DEF Live
<1>6. CASE Connect
  BY <1>1, <1>6 DEF Connect, Setup, Gets, Due, Live
<1>7. CASE SetupDone
  <2> DEFINE e == [Event("Connected", NoKey, NoValue) EXCEPT !.rows = rows, !.table = connections]
  <2>1. e \in Events /\ e.rows = rows /\ e.kind = "Connected"
    BY <1>1, RequestTypes DEF Event, Events, EventKinds, WorkerTypes
  <2>2. /\ pc = "setup" /\ pc' = "catchup" /\ events' = Append(events, e) /\ shown' = shown /\ value' = value
        /\ ~Answered
    BY <1>7 DEF SetupDone, Emit, nodeVars, appVars, Answered
  <2>3. rows[k] = value'[k] \/ Due(k)'
    BY <1>1, <1>3, <2>2 DEF RowsSettle, Live
  <2>4. Touches(e, k) /\ (Carried(e, k) = value'[k] \/ Due(k)')
    BY <2>1, <2>3 DEF Touches, Carried
  <2>5. RowSettles(k)'
    BY <2>1, <2>2, <2>4, EmitSettles
  <2>6. QED BY <2>2, <2>5
<1>8. ASSUME NEW j \in Keys, Drain(j) PROVE Goal
  <2>1. pc \in Live /\ pc' = pc /\ ~Answered /\ UNCHANGED <<shown, rows>>
    BY <1>8, RequestsDiffer DEF Drain, Answered, appVars, Live
  <2>2. CASE j \in Readable
    BY <1>4, <1>8, <2>1, <2>2 DEF Drain
  <2>3. CASE j \notin Readable
    <3> DEFINE e == Event("ValueUpdated", j, NoValue)
    <3>1. e \in Events /\ e.kind = "ValueUpdated" /\ e.key = j
      BY MadeTypes, RequestTypes DEF EventKinds, Event
    <3>2. ~Touches(e, k) /\ events' = Append(events, e) /\ value' = value
      BY <1>1, <1>8, <2>3, <3>1 DEF Drain, Emit, Touches, nodeVars
    <3>3. RowSettles(k) /\ (Due(k) => Due(k)')
      BY <1>1, <1>3, <2>1 DEF RowsSettle
    <3>4. RowSettles(k)'
      BY <2>1, <3>1, <3>2, <3>3, EmitSettles
    <3>5. QED
      BY <2>1, <3>4 DEF Live
  <2>4. QED BY <2>2, <2>3
<1>9. CASE Answered
  <2> DEFINE f == Head(wire)
  <2>1. /\ Answers(awaiting, f) /\ f \in Frames
        /\ UNCHANGED <<value, pc, shown>>
    BY <1>9, AnsweredFacts
  <2>2. f.key \in 0 .. NumKeys /\ f.value \in Amounts /\ f.kind \in {"OK", "VALUE", "WRITTEN", "ERROR"}
    BY <2>1 DEF Frames, Answers
  <2>3. ASSUME pc \in Live \cup {"setup"}
        PROVE  /\ f.key = k /\ f.kind = "WRITTEN" => Due(k)'
               /\ f.key = k /\ f.kind = "VALUE" => f.value = value[k] \/ Due(k)'
               /\ ~(f.key = k /\ f.kind \in {"VALUE", "WRITTEN"}) /\ Due(k) => Due(k)'
    BY <1>9, <2>3, DueAnswered
  <2>4. ASSUME pc = "setup" PROVE rows'[k] = value'[k] \/ Due(k)'
    <3>1. CASE f.key = k /\ f.kind = "VALUE"
      <4>1. rows'[k] = f.value
        BY <1>1, <1>9, <2>4, <3>1 DEF Answered, WorkerTypes
      <4>2. QED
        BY <2>1, <2>3, <2>4, <3>1, <4>1
    <3>2. CASE f.key = k /\ f.kind = "WRITTEN"
      BY <2>3, <2>4, <3>2
    <3>3. CASE ~(f.key = k /\ f.kind \in {"VALUE", "WRITTEN"})
      <4>1. rows'[k] = rows[k]
        BY <1>1, <1>9, <3>3 DEF Answered, WorkerTypes
      <4>2. rows[k] = value[k] \/ Due(k)
        BY <1>1, <2>4 DEF RowsSettle
      <4>3. QED
        BY <2>1, <2>3, <2>4, <3>3, <4>1, <4>2
    <3>4. QED BY <3>1, <3>2, <3>3
  <2>5. ASSUME pc \in Live PROVE RowSettles(k)'
    <3>1. RowSettles(k) /\ pc # "setup" /\ value' = value /\ shown' = shown
      BY <1>1, <2>1, <2>5 DEF RowsSettle, Live
    <3>2. CASE f.kind = "OK"
      <4>1. UNCHANGED events
        BY <1>9, <3>2 DEF Answered, Report
      <4>2. Due(k) => Due(k)'
        BY <2>3, <2>5, <3>2
      <4>3. QED
        BY <3>1, <4>1, <4>2 DEF RowSettles
    <3>3. CASE f.kind = "VALUE"
      <4>1. /\ events' = Append(events, Event("ValueUpdated", f.key, f.value))
            /\ Event("ValueUpdated", f.key, f.value) \in Events
        BY <1>9, <2>2, <3>1, <3>3, MadeTypes DEF Answered, Report, Emit, EventKinds
      <4>2. IF f.key = k THEN Touches(Event("ValueUpdated", f.key, f.value), k)
                         ELSE ~Touches(Event("ValueUpdated", f.key, f.value), k)
        BY DEF Touches, Event
      <4>3. Carried(Event("ValueUpdated", f.key, f.value), k) = f.value
        BY DEF Carried, Event
      <4>4. CASE f.key = k
        BY <2>3, <2>5, <3>1, <3>3, <4>1, <4>2, <4>3, <4>4, EmitSettles
      <4>5. CASE f.key # k
        BY <2>3, <2>5, <3>1, <3>3, <4>1, <4>2, <4>5, EmitSettles
      <4>6. QED BY <4>4, <4>5
    <3>4. CASE f.kind = "WRITTEN"
      <4>1. /\ events' = Append(events, Event("WriteSucceeded", f.key, f.value))
            /\ Event("WriteSucceeded", f.key, f.value) \in Events
        BY <1>9, <2>2, <3>1, <3>4, MadeTypes DEF Answered, Report, Emit, EventKinds
      <4>2. IF f.key = k THEN Touches(Event("WriteSucceeded", f.key, f.value), k)
                         ELSE ~Touches(Event("WriteSucceeded", f.key, f.value), k)
        BY DEF Touches, Event
      <4>3. CASE f.key = k
        BY <2>3, <2>5, <3>1, <3>4, <4>1, <4>2, <4>3, EmitSettles
      <4>4. CASE f.key # k
        BY <2>3, <2>5, <3>1, <3>4, <4>1, <4>2, <4>4, EmitSettles
      <4>5. QED BY <4>3, <4>4
    <3>5. CASE f.kind = "ERROR"
      <4>1. /\ events' = Append(events, Event("WriteFailed", f.key, NoValue))
            /\ Event("WriteFailed", f.key, NoValue) \in Events
        BY <1>9, <2>2, <3>1, <3>5, MadeTypes, RequestTypes DEF Answered, Report, Emit, EventKinds
      <4>2. ~Touches(Event("WriteFailed", f.key, NoValue), k)
        BY DEF Touches, Event
      <4>3. QED
        BY <2>3, <2>5, <3>1, <3>5, <4>1, <4>2, EmitSettles
    <3>6. QED
      BY <2>2, <3>2, <3>3, <3>4, <3>5
  <2>6. QED
    BY <2>1, <2>4, <2>5
<1>10. CASE Apply
  <2>1. UNCHANGED <<value, rows, pc>> /\ Due(k)' = Due(k)
    BY <1>10 DEF Apply, Due, Told, nodeVars, workerVars
  <2>2. pc \in Live => RowSettles(k)
    BY <1>1 DEF RowsSettle
  <2>3. QED
    BY <1>1, <1>10, <2>1, <2>2, ApplySettles DEF RowsSettle
<1>11. CASE Connecting \/ Disconnect
  BY <1>5, <1>11 DEF Connecting, Disconnect
<1>12. CASE ~Answered
  <2>1. CASE AskNext \/ RefreshDone \/ Command \/ CommandsDone \/ DrainDone \/ Listen \/ Timeout \/ Collect
    BY <1>4, <1>12, <2>1 DEF AskNext, RefreshDone, Command, CommandsDone, DrainDone, Listen, Timeout, Collect, Live,
       appVars
  <2>2. CASE Node \/ User \/ \E j \in Keys : Change(j)
    BY <1>4, <1>12, <2>2 DEF Node, Serve, Respond, Notify, User, Open, Cancel, Submit, PressRefresh, SendCommand,
       Change, workerVars, appVars
  <2>3. CASE UNCHANGED vars
    BY <1>4, <1>12, <2>3 DEF vars, workerVars, appVars
  <2>4. QED
    BY <1>6, <1>7, <1>8, <1>10, <1>11, <1>12, <2>1, <2>2, <2>3 DEF Next, Worker
<1>13. QED
  BY <1>9, <1>12

LEMMA RowsInit == Init => RowsInv
<1> SUFFICES ASSUME Init PROVE RowsInv
  OBVIOUS
<1>1. SetupFirst /\ ObservedFirst /\ FramesTell
  BY RequestsDiffer DEF Init, SetupFirst, ObservedFirst, FramesTell, Live
<1>2. RowsSettle
  BY DEF Init, RowsSettle, Live
<1>3. QED
  BY <1>1, <1>2 DEF RowsInv

LEMMA RowsInvariance == Spec => [](TypeInv /\ RowsInv)
<1>1. TypeInv /\ RowsInv /\ [Next]_vars => RowsInv'
  BY SetupFirstStep, ObservedFirstStep, FramesTellStep, RowsSettleStep DEF RowsInv
<1>2. QED
  BY <1>1, RowsInit, TypeInvariance, PTL DEF Spec

\* A row of a readable and observable key that differs from the node's value
\* will be read again, whatever the requests that its `!` met on its way
\* (drain_changed_keys, enqueue_changed_keys), unless that `!` came while the
\* worker awaited the response to a WRITE that the node refused.
THEOREM RowsFollow == Spec => []RowsFollowNodeUnlessRefused
<1>1. TypeInv /\ RowsInv => RowsFollowNodeUnlessRefused
  <2> SUFFICES ASSUME TypeInv, RowsInv, NEW k \in Readable \cap Observable, OutOfDate(k), ~Coming(k)
               PROVE  k \in dropped
    BY DEF RowsFollowNodeUnlessRefused
  <2>1. pc \in Live /\ k \in Watched /\ k \in Keys /\ shown[k] # value[k]
    BY WatchedKeys DEF OutOfDate, Live, Watched, TypeInv, WorkerTypes
  <2>2. \A i \in DOMAIN events : ~Touches(events[i], k)
    BY DEF Coming, Touches
  <2>3. Due(k)
    BY <2>1, <2>2 DEF RowsInv, RowsSettle, RowSettles
  <2>4. awaiting.key # k /\ ~(response.kind = "WRITTEN" /\ response.key = k)
    BY DEF Coming, TypeInv, OneRequest, Answers, NoFrame
  <2>5. QED
    BY <2>3, <2>4, RequestsDiffer DEF Due, Told, Coming
<1>2. QED
  BY <1>1, RowsInvariance, PTL

-----------------------------------------------------------------------------
(* The modal.                                                              *)

\* What ends the submission of key k.
Ends(e, k) ==
  \/ e.kind \in {"Connecting", "Connected", "Disconnected"}
  \/ e.kind \in {"WriteSucceeded", "WriteFailed"} /\ e.key = k

InHand(k) ==
  \/ \E i \in DOMAIN commands : commands[i].key = k
  \/ awaiting = Req("write", k)
  \/ pc = "retry"
  \/ \E i \in DOMAIN events : Ends(events[i], k)

\* A submission that is in hand stays so until the App applies its end.
LEMMA InHandKept ==
  ASSUME TypeInv, [Next]_vars, NEW k \in Keys, InHand(k), ~Apply
  PROVE  InHand(k)'
<1>1. AppTypes /\ EventTypes /\ OneRequest
  BY DEF TypeInv
<1>2. ASSUME NEW e \in Events, Emit(e)
      PROVE  /\ (\E i \in DOMAIN events : Ends(events[i], k)) => \E i \in DOMAIN events' : Ends(events'[i], k)
             /\ Ends(e, k) => \E i \in DOMAIN events' : Ends(events'[i], k)
  <2>1. /\ \A i \in DOMAIN events : i \in DOMAIN events' /\ events'[i] = events[i]
        /\ Len(events) + 1 \in DOMAIN events' /\ events'[Len(events) + 1] = e
    BY <1>1, <1>2 DEF Emit, EventTypes
  <2>2. QED BY <2>1
<1>3. CASE UNCHANGED <<commands, awaiting, pc, events>>
  BY <1>3 DEF InHand
<1>4. CASE awaiting = NoReq /\ pc # "retry" /\ UNCHANGED <<commands, events>>
  BY <1>4, RequestsDiffer DEF InHand, NoReq, Req
<1>5. CASE Disconnect
  BY <1>5 DEF Disconnect, InHand
<1>6. CASE Connecting
  <2> DEFINE e == Event("Connecting", NoKey, NoValue)
  <2>1. e \in Events /\ Ends(e, k)
    BY MadeTypes, RequestTypes DEF EventKinds, Event, Ends
  <2>2. Emit(e)
    BY <1>6 DEF Connecting
  <2>3. QED
    BY <1>2, <2>1, <2>2 DEF InHand
<1>7. CASE SetupDone
  <2> DEFINE e == [Event("Connected", NoKey, NoValue) EXCEPT !.rows = rows, !.table = connections]
  <2>1. e \in Events /\ Ends(e, k)
    BY RequestTypes DEF Event, Events, EventKinds, Ends, TypeInv, WorkerTypes
  <2>2. Emit(e)
    BY <1>7 DEF SetupDone
  <2>3. QED
    BY <1>2, <2>1, <2>2 DEF InHand
<1>8. ASSUME NEW j \in Keys, Drain(j) PROVE InHand(k)'
  <2>1. awaiting = NoReq /\ pc # "retry" /\ UNCHANGED commands
    BY <1>8 DEF Drain
  <2>2. CASE j \in Readable
    BY <1>4, <1>8, <2>1, <2>2 DEF Drain
  <2>3. CASE j \notin Readable
    <3>1. Event("ValueUpdated", j, NoValue) \in Events /\ Emit(Event("ValueUpdated", j, NoValue))
      BY <1>8, <2>3, MadeTypes, RequestTypes DEF Drain, EventKinds
    <3>2. QED
      BY <1>2, <2>1, <3>1, RequestsDiffer DEF InHand, NoReq, Req
  <2>4. QED BY <2>2, <2>3
<1>9. CASE Command
  <2>1. /\ commands # <<>> /\ commands' = Tail(commands) /\ awaiting = NoReq /\ pc = "commands"
        /\ events' = events
        /\ Head(commands).key # NoKey => awaiting' = Req("write", Head(commands).key)
    BY <1>9 DEF Command, Ask
  <2>2. \A i \in DOMAIN commands : IF i = 1 THEN commands[i] = Head(commands)
                                   ELSE i - 1 \in DOMAIN commands' /\ commands'[i - 1] = commands[i]
    BY <1>1, <2>1 DEF AppTypes
  <2>3. k # NoKey
    BY RequestTypes
  <2>4. CASE \E i \in DOMAIN commands : commands[i].key = k
    BY <2>1, <2>2, <2>3, <2>4 DEF InHand
  <2>5. CASE ~\E i \in DOMAIN commands : commands[i].key = k
    BY <2>1, <2>5, RequestsDiffer DEF InHand, NoReq, Req
  <2>6. QED BY <2>4, <2>5
<1>10. CASE Answered
  <2>1. /\ Answers(awaiting, Head(wire)) /\ Head(wire) \in Frames /\ UNCHANGED <<pc, commands>>
        /\ Report(Head(wire))
    BY <1>10, AnsweredFacts DEF Answered
  <2>2. Head(wire).key \in 0 .. NumKeys /\ Head(wire).value \in Amounts
    BY <2>1 DEF Frames
  <2>3. CASE awaiting = Req("write", k)
    <3>1. Head(wire).key = k /\ Head(wire).kind \in {"WRITTEN", "ERROR"}
      BY <2>1, <2>3, RequestsDiffer DEF Answers
    <3>2. PICK e \in Events : Emit(e) /\ Ends(e, k)
      <4>1. \A t \in {"WriteSucceeded", "WriteFailed"}, v \in Amounts : Event(t, k, v) \in Events /\ Ends(Event(t, k, v), k)
        BY <2>2, <3>1, MadeTypes DEF Ends, Event, EventKinds
      <4>2. QED
        BY <2>1, <2>2, <3>1, <4>1, RequestTypes DEF Report
    <3>3. QED
      BY <1>2, <3>2 DEF InHand
  <2>4. CASE awaiting # Req("write", k)
    <3>1. UNCHANGED events \/ \E e \in Events : Emit(e)
      BY <2>1, <2>2, MadeTypes, RequestTypes DEF Report, EventKinds
    <3>2. QED
      BY <1>2, <2>1, <2>4, <3>1 DEF InHand
  <2>5. QED BY <2>3, <2>4
<1>11. CASE AskNext \/ RefreshDone \/ CommandsDone \/ DrainDone \/ Listen \/ Timeout \/ Connect
  <2>1. CASE awaiting = NoReq
    BY <1>4, <1>11, <2>1 DEF AskNext, RefreshDone, CommandsDone, DrainDone, Listen, Timeout, Connect
  <2>2. CASE awaiting # NoReq
    BY <1>1, <1>11, <2>2 DEF AskNext, RefreshDone, CommandsDone, DrainDone, Listen, Timeout, Connect, OneRequest
  <2>3. QED BY <2>1, <2>2
<1>12. CASE Collect \/ Node \/ Cancel \/ \E j \in Keys : Open(j) \/ Change(j)
  BY <1>3, <1>12 DEF Collect, Node, Serve, Respond, Notify, Cancel, Open, Change, workerVars
<1>13. ASSUME NEW j, SendCommand(j) PROVE InHand(k)'
  <2>1. \A i \in DOMAIN commands : i \in DOMAIN commands' /\ commands'[i] = commands[i]
    BY <1>1, <1>13 DEF SendCommand, AppTypes
  <2>2. QED
    BY <1>13, <2>1 DEF SendCommand, InHand, workerVars
<1>14. CASE Submit \/ PressRefresh
  BY <1>13, <1>14 DEF Submit, PressRefresh
<1>15. CASE UNCHANGED vars
  BY <1>3, <1>15 DEF vars, workerVars
<1>16. QED
  BY <1>5, <1>6, <1>7, <1>8, <1>9, <1>10, <1>11, <1>12, <1>14, <1>15 DEF Next, Worker, User

ModalInv == modal.submitting => InHand(modal.key)

LEMMA ModalStep ==
  TypeInv /\ ModalInv /\ [Next]_vars => ModalInv'
<1> SUFFICES ASSUME TypeInv, ModalInv, [Next]_vars, modal'.submitting, NEW k, k = modal'.key
             PROVE  InHand(k)'
  BY DEF ModalInv, InHand
<1>1. AppTypes /\ EventTypes /\ modal.key \in 0 .. NumKeys
  BY DEF TypeInv, AppTypes
<1>2. CASE Apply
  <2>1. events # <<>> /\ events' = Tail(events) /\ UNCHANGED <<commands, awaiting, pc>>
    BY <1>2 DEF Apply, workerVars
  <2>2. modal' = modal /\ ~Ends(Head(events), k)
    BY <1>1, <1>2 DEF Apply, NextModal, NoModal, Ends, AppTypes
  <2>3. \A i \in DOMAIN events : IF i = 1 THEN events[i] = Head(events)
                                 ELSE i - 1 \in DOMAIN events' /\ events'[i - 1] = events[i]
    BY <1>1, <2>1 DEF EventTypes
  <2>4. InHand(k)
    BY <2>2 DEF ModalInv
  <2>5. QED
    BY <2>1, <2>2, <2>3, <2>4 DEF InHand
<1>3. CASE Submit
  <2>1. k = modal.key
    BY <1>1, <1>3 DEF Submit, AppTypes
  <2>2. Len(commands) + 1 \in DOMAIN commands' /\ commands'[Len(commands) + 1].key = modal.key
    BY <1>1, <1>3 DEF Submit, SendCommand, AppTypes
  <2>3. QED
    BY <2>1, <2>2 DEF InHand
<1>4. CASE Cancel \/ \E j \in Keys : Open(j)
  BY <1>4 DEF Cancel, Open, NoModal
<1>5. CASE ~Apply /\ UNCHANGED modal
  <2>1. modal # NoModal
    BY <1>5 DEF NoModal
  <2>2. k \in Keys
    BY <1>1, <1>5, <2>1 DEF AppTypes
  <2>3. InHand(k)
    BY <1>5 DEF ModalInv
  <2>4. QED
    BY <1>5, <2>2, <2>3, InHandKept
<1>6. CASE ~Apply /\ ~Submit /\ ~Cancel /\ ~\E j \in Keys : Open(j)
  <2>1. UNCHANGED modal
    BY <1>6 DEF Next, Node, Serve, Respond, Notify, Worker, Connecting, Connect, AskNext, SetupDone, RefreshDone,
       Command, CommandsDone, DrainDone, Listen, Timeout, Collect, Answered, Drain, Disconnect, User, PressRefresh,
       Change, vars, appVars
  <2>2. QED
    BY <1>5, <1>6, <2>1
<1>7. QED
  BY <1>2, <1>3, <1>4, <1>6

\* A modal that says it is submitting is not stuck: its command is queued or
\* being executed, or an event that closes it or shows an error is coming,
\* whatever the worker's connection goes through (app.rs:114-150,
\* network.rs:145-179).
THEOREM ModalSafe == Spec => []NoStuckModal
<1>1. Init => ModalInv
  BY DEF Init, ModalInv, NoModal
<1>2. ModalInv => NoStuckModal
  BY DEF ModalInv, InHand, Ends, NoStuckModal
<1>3. QED
  BY <1>1, <1>2, ModalStep, TypeInvariance, PTL DEF Spec
=============================================================================
