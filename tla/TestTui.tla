------------------------------ MODULE TestTui ------------------------------
(***************************************************************************)
(* The live monitor, crates/qup-test-tui/src: the worker connection_manager*)
(* with its QUP client (network.rs), the App that applies the worker's     *)
(* events and queues commands for it (app.rs), and the node at the other   *)
(* end of the connection.                                                  *)
(*                                                                         *)
(* The value of a key is the number of stores to it in the node.  The Vecs *)
(* of changed keyrefs hold each keyref once: they are sets.                *)
(***************************************************************************)
EXTENDS Integers, Sequences

CONSTANTS
  NumKeys,        \* length of the node's keytab
  Readable, Writable, Observable,   \* the keyrefs with each permission
  Refuses,        \* TRUE if the node may answer WRITE with an error
  MaxChanges,     \* bound: stores made in the node by others
  MaxCommands,    \* bound: commands queued by the user
  MaxConnections, \* bound: connections made by the worker
  MaxEvents       \* bound: events the App has not applied yet

Keys     == 1 .. NumKeys
NoValue  == -1
NoKey    == 0
Req(o, k) == [op |-> o, key |-> k]
NoReq    == Req("none", NoKey)

ASSUME TestTuiAssumption ==
  /\ NumKeys \in Nat /\ Refuses \in BOOLEAN
  /\ Readable \subseteq Keys /\ Writable \subseteq Keys /\ Observable \subseteq Keys
  /\ MaxChanges \in Nat /\ MaxCommands \in Nat
  /\ MaxConnections \in Nat /\ MaxEvents \in Nat \ {0}

VARIABLES
  \* the node and its connection
  value,       \* the value of each key
  observed,    \* the keys observed on the connection
  owed,        \* observed keys with a change not yet notified
  response,    \* the response in the making, or no frame
  asked,       \* the request on its way to the node
  wire,        \* frames on their way to the client
  changes,     \* number of stores by others, for the bound
  \* the worker
  pc,          \* where connection_manager and run_connection stand
  awaiting,    \* the request whose response is awaited
  changed,     \* the wait's local `changed`
  pending,     \* run_connection's pending_changed
  todo,        \* the set of requests left in the loop over rows or keys
  rows,        \* values read by the loop that fills the rows
  connections, \* number of connections made
  \* the queues between the worker and the App
  events, commands,
  queued,      \* number of commands sent, for the bound
  \* the App
  status, shown, modal,
  table,       \* history: the connection that App::keys came from
  dropped      \* history: keys whose changes were dropped with a refused WRITE

nodeVars   == <<value, observed, owed, response, asked, wire, changes>>
workerVars == <<pc, awaiting, changed, pending, todo, rows, connections>>
appVars    == <<status, shown, modal, table, dropped>>
vars == <<nodeVars, workerVars, events, commands, queued, appVars>>

NoFrame == [kind |-> "NONE", key |-> NoKey, value |-> NoValue]
Frame(t, k, v) == [kind |-> t, key |-> k, value |-> v]
Event(t, k, v) == [kind |-> t, key |-> k, value |-> v, rows |-> <<>>, table |-> 0]
NoModal == [key |-> NoKey, submitting |-> FALSE]

-----------------------------------------------------------------------------
(* The node: it stores, serves one request at a time, and sends a `!` for  *)
(* an observed key some time after each store.                             *)

Stored(k) ==
  /\ value' = [value EXCEPT ![k] = @ + 1]
  /\ owed' = owed \cup ({k} \cap observed)

Change(k) ==
  /\ changes < MaxChanges /\ changes' = changes + 1
  /\ Stored(k)
  /\ UNCHANGED <<observed, response, asked, wire, workerVars, events, commands, queued, appVars>>

Notify(k) ==
  /\ k \in owed /\ owed' = owed \ {k}
  /\ wire' = Append(wire, Frame("CHANGED", k, NoValue))
  /\ UNCHANGED <<value, observed, response, asked, changes, workerVars, events, commands, queued, appVars>>

\* A `!` for another store may come between the reading of a value and the
\* response that carries it, but the `!` of a write follows its response.
Serve ==
  /\ asked # NoReq /\ response = NoFrame
  /\ asked' = NoReq
  /\ \/ /\ asked.op \in {"observe", "ping"}
        /\ observed' = IF asked.op = "observe" THEN observed \cup {asked.key} ELSE observed
        /\ response' = Frame("OK", asked.key, NoValue)
        /\ UNCHANGED <<value, owed>>
     \/ /\ asked.op = "get"
        /\ response' = Frame("VALUE", asked.key, value[asked.key])
        /\ UNCHANGED <<value, observed, owed>>
     \/ /\ asked.op = "write"
        /\ value' = [value EXCEPT ![asked.key] = @ + 1]
        /\ response' = Frame("WRITTEN", asked.key, value'[asked.key])
        /\ UNCHANGED <<observed, owed>>
     \/ /\ asked.op = "write" /\ Refuses
        /\ response' = Frame("ERROR", asked.key, NoValue)
        /\ UNCHANGED <<value, observed, owed>>
  /\ UNCHANGED <<wire, changes, workerVars, events, commands, queued, appVars>>

Respond ==
  /\ response # NoFrame
  /\ wire' = Append(wire, response)
  /\ response' = NoFrame
  /\ owed' = IF response.kind = "WRITTEN" THEN owed \cup ({response.key} \cap observed) ELSE owed
  /\ UNCHANGED <<value, observed, asked, changes, workerVars, events, commands, queued, appVars>>

-----------------------------------------------------------------------------
(* The worker: connection_manager and run_connection.                      *)

Emit(e) == Len(events) < MaxEvents /\ events' = Append(events, e)

\* A request is sent and its response awaited (…_with_changes).
Ask(r) ==
  /\ asked' = r /\ awaiting' = r /\ changed' = {}
  /\ UNCHANGED <<value, observed, owed, response, wire, changes>>

Connecting ==
  /\ pc = "retry" /\ pc' = "connect"
  /\ Emit(Event("Connecting", NoKey, NoValue))
  /\ UNCHANGED <<nodeVars, awaiting, changed, pending, todo, rows, connections, commands, queued, appVars>>

\* The requests of the loop over the rows, and of the one over the readable
\* keys; both go through the keys in the order of their keyrefs, and the
\* former observes a key before it reads it.
Gets == {Req("get", k) : k \in Readable}

\* Mutant: every key is observed.
SetupObservesAll == {Req("observe", k) : k \in Keys} \cup Gets

Setup   == {Req("observe", k) : k \in Observable} \cup Gets
Refresh == Gets

Precedes(r, s) == r.key < s.key \/ (r.key = s.key /\ r.op = "observe")

\* Client::connect, identify and list_keys succeed.
Connect ==
  /\ pc = "connect" /\ connections < MaxConnections
  /\ connections' = connections + 1
  /\ pc' = "setup" /\ todo' = Setup
  /\ pending' = {} /\ changed' = {}
  /\ rows' = [k \in Keys |-> NoValue] /\ dropped' = {}
  /\ UNCHANGED <<nodeVars, awaiting, events, commands, queued, status, shown, modal, table>>

\* connect fails, an await of the client fails or a request times out:
\* run_connection returns and its Client and locals are dropped.
Disconnect ==
  /\ pc \in {"connect", "listen"} \/ awaiting # NoReq
  /\ pc' = "retry" /\ awaiting' = NoReq /\ todo' = {} /\ pending' = {} /\ changed' = {}
  /\ observed' = {} /\ owed' = {} /\ response' = NoFrame /\ asked' = NoReq /\ wire' = <<>>
  /\ Emit(Event("Disconnected", NoKey, NoValue))
  /\ UNCHANGED <<value, changes, rows, connections, commands, queued, appVars>>

\* The next request of the loop over the rows, or over the keys to reread.
AskNext ==
  /\ pc \in {"setup", "refresh"} /\ awaiting = NoReq
  /\ \E r \in todo :
       /\ \A s \in todo \ {r} : Precedes(r, s)
       /\ Ask(r) /\ todo' = todo \ {r}
  /\ UNCHANGED <<pc, pending, rows, connections, events, commands, queued, appVars>>

SetupDone ==
  /\ pc = "setup" /\ awaiting = NoReq /\ todo = {}
  /\ pc' = "catchup"
  /\ Emit([Event("Connected", NoKey, NoValue) EXCEPT !.rows = rows, !.table = connections])
  /\ UNCHANGED <<nodeVars, awaiting, changed, pending, todo, rows, connections, commands, queued, appVars>>

RefreshDone ==
  /\ pc = "refresh" /\ awaiting = NoReq /\ todo = {}
  /\ pc' = "commands"
  /\ UNCHANGED <<nodeVars, awaiting, changed, pending, todo, rows, connections, events, commands, queued, appVars>>

\* process_commands takes the next command.
Command ==
  /\ pc = "commands" /\ awaiting = NoReq /\ commands # <<>>
  /\ commands' = Tail(commands)
  /\ LET c == Head(commands) IN
       IF c.key = NoKey
         THEN /\ pc' = "refresh" /\ todo' = Refresh
              /\ UNCHANGED <<nodeVars, awaiting, changed>>
         ELSE /\ Ask(Req("write", c.key))
              /\ UNCHANGED <<pc, todo>>
  /\ UNCHANGED <<pending, rows, connections, events, queued, appVars>>

CommandsDone ==
  /\ pc = "commands" /\ awaiting = NoReq /\ commands = <<>>
  /\ pc' = "drain"
  /\ UNCHANGED <<nodeVars, awaiting, changed, pending, todo, rows, connections, events, commands, queued, appVars>>

\* drain_changed_keys rereads a changed key.
Drain(k) ==
  /\ pc \in {"catchup", "drain"} /\ awaiting = NoReq
  /\ k \in pending /\ pending' = pending \ {k}
  /\ IF k \in Readable
       THEN Ask(Req("get", k)) /\ UNCHANGED events
       ELSE Emit(Event("ValueUpdated", k, NoValue)) /\ UNCHANGED <<nodeVars, awaiting, changed>>
  /\ UNCHANGED <<pc, todo, rows, connections, commands, queued, appVars>>

DrainDone ==
  /\ pc \in {"catchup", "drain"} /\ awaiting = NoReq /\ pending = {}
  /\ pc' = IF pc = "catchup" THEN "commands" ELSE "listen"
  /\ UNCHANGED <<nodeVars, awaiting, changed, pending, todo, rows, connections, events, commands, queued, appVars>>

\* next_message_timeout while no request is outstanding, or its timeout,
\* after which run_connection may send a PING first.
Listen ==
  /\ pc = "listen" /\ awaiting = NoReq /\ wire # <<>>
  /\ wire' = Tail(wire) /\ pending' = pending \cup {Head(wire).key}
  /\ pc' = "commands"
  /\ UNCHANGED <<value, observed, owed, response, asked, changes, awaiting, changed, todo, rows, connections,
                 events, commands, queued, appVars>>

Timeout ==
  /\ pc = "listen" /\ awaiting = NoReq
  /\ pc' = "commands"
  /\ Ask(Req("ping", NoKey)) \/ UNCHANGED <<nodeVars, awaiting, changed>>
  /\ UNCHANGED <<pending, todo, rows, connections, events, commands, queued, appVars>>

\* wait_for_…_with_changes collects the `!` that come before the response.
Collect ==
  /\ awaiting # NoReq /\ wire # <<>> /\ Head(wire).kind = "CHANGED"
  /\ wire' = Tail(wire) /\ changed' = changed \cup {Head(wire).key}
  /\ UNCHANGED <<value, observed, owed, response, asked, changes, pc, awaiting, pending, todo, rows, connections,
                 events, commands, queued, appVars>>

\* What is reported to the App for a response, and what is reread: the keys
\* collected while a refused WRITE was awaited are dropped with `changed`.
Report(f) ==
  CASE f.kind = "VALUE" /\ pc # "setup" -> Emit(Event("ValueUpdated", f.key, f.value))
    [] f.kind = "WRITTEN" -> Emit(Event("WriteSucceeded", f.key, f.value))
    [] f.kind = "ERROR"   -> Emit(Event("WriteFailed", f.key, NoValue))
    [] OTHER              -> UNCHANGED events

\* Mutant: the keys collected while a value was awaited are dropped too.
RereadAfterWrites(f) == IF f.kind = "WRITTEN" THEN pending \cup changed ELSE pending

Reread(f) == IF f.kind = "ERROR" THEN pending ELSE pending \cup changed

Answered ==
  /\ awaiting # NoReq /\ wire # <<>> /\ Head(wire).kind # "CHANGED"
  /\ wire' = Tail(wire) /\ awaiting' = NoReq /\ changed' = {}
  /\ pending' = Reread(Head(wire))
  /\ Report(Head(wire))
  /\ rows' = IF pc = "setup" /\ Head(wire).kind = "VALUE"
               THEN [rows EXCEPT ![Head(wire).key] = Head(wire).value] ELSE rows
  /\ dropped' = IF Head(wire).kind = "ERROR" THEN dropped \cup changed ELSE dropped \ {Head(wire).key}
  /\ UNCHANGED <<value, observed, owed, response, asked, changes, pc, todo, connections, commands, queued,
                 status, shown, modal, table>>

-----------------------------------------------------------------------------
(* The App: App::apply, and the user's input.                              *)

\* Mutant: losing the connection leaves the modal open.
NextModalStaysOpen(e) ==
  IF \/ e.kind = "Connected"
     \/ e.kind = "WriteSucceeded" /\ e.key = modal.key THEN NoModal
  ELSE IF e.kind = "WriteFailed" /\ e.key = modal.key
    THEN [modal EXCEPT !.submitting = FALSE] ELSE modal

\* The modal is closed when the connection's state changes or its key has
\* been written, and shows an error when its key's write was refused.
NextModal(e) ==
  IF \/ e.kind \in {"Connecting", "Connected", "Disconnected"}
     \/ e.kind = "WriteSucceeded" /\ e.key = modal.key THEN NoModal
  ELSE IF e.kind = "WriteFailed" /\ e.key = modal.key
    THEN [modal EXCEPT !.submitting = FALSE] ELSE modal

Apply ==
  /\ events # <<>> /\ events' = Tail(events)
  /\ LET e == Head(events) IN
       /\ modal' = NextModal(e)
       /\ status' = IF e.kind \in {"Connecting", "Connected", "Disconnected"} THEN e.kind ELSE status
       /\ shown' = CASE e.kind = "Connected" -> e.rows
                     [] e.kind \in {"ValueUpdated", "WriteSucceeded"} -> [shown EXCEPT ![e.key] = e.value]
                     [] OTHER -> shown
       /\ table' = IF e.kind = "Connected" THEN e.table ELSE table
  /\ UNCHANGED <<nodeVars, workerVars, commands, queued, dropped>>

\* A click on a writable row; the rows stay while the worker reconnects.
Open(k) ==
  /\ modal = NoModal /\ table # 0 /\ k \in Writable
  /\ modal' = [key |-> k, submitting |-> FALSE]
  /\ UNCHANGED <<nodeVars, workerVars, events, commands, queued, status, shown, table, dropped>>

\* Escape, or a click outside the modal, even while it is submitting.
Cancel ==
  /\ modal # NoModal /\ modal' = NoModal
  /\ UNCHANGED <<nodeVars, workerVars, events, commands, queued, status, shown, table, dropped>>

SendCommand(k) ==
  /\ queued < MaxCommands /\ queued' = queued + 1
  /\ commands' = Append(commands, [key |-> k, table |-> table])
  /\ UNCHANGED <<nodeVars, workerVars, events, status, shown, table, dropped>>

\* queue_write_command; a click submits again while submitting.
Submit ==
  /\ modal # NoModal
  /\ SendCommand(modal.key)
  /\ modal' = [modal EXCEPT !.submitting = TRUE]

PressRefresh ==
  /\ modal = NoModal
  /\ SendCommand(NoKey)
  /\ UNCHANGED modal

-----------------------------------------------------------------------------
Init ==
  /\ value = [k \in Keys |-> 0] /\ observed = {} /\ owed = {}
  /\ response = NoFrame /\ asked = NoReq /\ wire = <<>> /\ changes = 0
  /\ pc = "retry" /\ awaiting = NoReq /\ changed = {} /\ pending = {} /\ todo = {}
  /\ rows = [k \in Keys |-> NoValue] /\ connections = 0
  /\ events = <<>> /\ commands = <<>> /\ queued = 0
  /\ status = "Connecting" /\ shown = [k \in Keys |-> NoValue] /\ modal = NoModal /\ table = 0
  /\ dropped = {}

Node == Serve \/ Respond \/ \E k \in Keys : Notify(k)
Worker ==
  \/ Connecting \/ Connect \/ AskNext \/ SetupDone \/ RefreshDone \/ Command \/ CommandsDone
  \/ DrainDone \/ Listen \/ Timeout \/ Collect \/ Answered
  \/ \E k \in Keys : Drain(k)
User == Cancel \/ Submit \/ PressRefresh \/ \E k \in Keys : Open(k)

Next ==
  \/ Node \/ Worker \/ Disconnect \/ Apply \/ User
  \/ \E k \in Keys : Change(k)

\* The node answers, the worker is scheduled and the App's loop turns.
Spec == Init /\ [][Next]_vars /\ WF_vars(Node) /\ WF_vars(Worker) /\ WF_vars(Apply)

-----------------------------------------------------------------------------
(* Properties.                                                             *)

Kinds   == {"NONE", "OK", "VALUE", "WRITTEN", "ERROR", "CHANGED"}
Reqs    == [op : {"none", "observe", "get", "write", "ping"}, key : 0 .. NumKeys]
Amounts == Nat \cup {NoValue}

\* Every variable has the type of what it models.
TypeOK ==
  /\ value \in [Keys -> Nat]
  /\ observed \subseteq Observable /\ owed \subseteq observed
  /\ response \in [kind : Kinds, key : 0 .. NumKeys, value : Amounts]
  /\ asked \in Reqs /\ awaiting \in Reqs /\ todo \subseteq Reqs
  /\ wire \in Seq([kind : Kinds, key : 0 .. NumKeys, value : Amounts])
  /\ pc \in {"retry", "connect", "setup", "catchup", "commands", "refresh", "drain", "listen"}
  /\ changed \subseteq Keys /\ pending \subseteq Keys
  /\ rows \in [Keys -> Amounts] /\ shown \in [Keys -> Amounts]
  /\ modal \in [key : 0 .. NumKeys, submitting : BOOLEAN]
  /\ status \in {"Connecting", "Connected", "Disconnected"}
  /\ commands \in Seq([key : 0 .. NumKeys, table : 0 .. MaxConnections])
  /\ dropped \subseteq Keys

\* The frames of the connection that say k changed, or carry its value.
Coming(k) ==
  \/ k \in owed \/ k \in changed \/ k \in pending
  \/ awaiting.key = k \/ Req("get", k) \in todo
  \/ \E i \in DOMAIN wire : wire[i].key = k
  \/ \E i \in DOMAIN events : events[i].key = k \/ events[i].kind = "Connected"

OutOfDate(k) ==
  status = "Connected" /\ pc \notin {"retry", "connect", "setup"} /\ shown[k] # value[k]

\* The table is live (main.rs:4): when the row of a readable and observable
\* key is out of date, its change is on its way to it, whatever requests the
\* `!` met on its way.
RowsFollowNode ==
  \A k \in Readable \cap Observable : OutOfDate(k) => Coming(k)

\* All that is missing: the keys whose `!` came while a WRITE was awaited that
\* the node refused (network.rs:344), until they are read again.
RowsFollowNodeUnlessRefused ==
  \A k \in Readable \cap Observable : OutOfDate(k) => Coming(k) \/ k \in dropped

\* A modal that says it is submitting is not stuck: its command is queued or
\* being executed, or an event that closes it or shows an error is coming.
NoStuckModal ==
  modal.submitting =>
    \/ \E i \in DOMAIN commands : commands[i].key = modal.key
    \/ awaiting = Req("write", modal.key)
    \/ pc = "retry"
    \/ \E i \in DOMAIN events :
         \/ events[i].kind \in {"Connecting", "Connected", "Disconnected"}
         \/ events[i].kind \in {"WriteSucceeded", "WriteFailed"} /\ events[i].key = modal.key

\* A write goes to the keytab its keyref was taken from: a client must not
\* assume that keyrefs name the same keys after reconnecting (PROTOCOL.md:332).
WritesStayOnTheirTable ==
  [][\A c \in {Head(commands) : i \in DOMAIN commands} :
       awaiting # awaiting' /\ awaiting'.op = "write" => c.table = connections]_vars
=============================================================================
