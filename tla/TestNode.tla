------------------------------ MODULE TestNode ------------------------------
(***************************************************************************)
(* The Tokio test node, crates/qup-test-node/src/main.rs: one task per     *)
(* connection that reads requests, the voltage loop, one task per write of *)
(* mirror_in that copies it to mirror_out 50 ms later, and SharedState and *)
(* ConnectionRegistry, which they share.  The runtime is multi-threaded,   *)
(* so the tasks interleave between any two accesses to shared state, in    *)
(* particular inside broadcast_changed.                                    *)
(*                                                                         *)
(* Requests that are refused or that are answered from constants touch no  *)
(* shared state and are left out.                                          *)
(***************************************************************************)
EXTENDS Integers, SequencesExt

CONSTANTS
  Conns,         \* connection ids, given out in increasing order
  Loop,          \* the task of run_voltage_loop
  Flushes,       \* the tasks of schedule_mirror_update, one for each write
  Keys,          \* keyrefs
  Readable, Writable, Observable,   \* the keys with each permission
  Voltage,       \* the key of run_voltage_loop
  MirrorIn, MirrorOut,   \* KEY_MIRROR_IN and KEY_MIRROR_OUT
  Values,        \* values of a key
  Initial,       \* the value of every key when the node starts
  MaxRequests,   \* bound: requests dispatched in a behaviour
  MaxUpdates     \* bound: updates of the voltage and writes of the mirror

Tasks    == Conns \cup {Loop} \cup Flushes
NoValue  == "unread"
OkFrame  == [opcode |-> "OK"]
Value(o, k, v) == [opcode |-> o, keyref |-> k, value |-> v]
Changed(k)     == [opcode |-> "CHANGED", keyref |-> k]

ASSUME TestNodeAssumption ==
  /\ Conns \subseteq Nat /\ Loop \notin Conns \cup Flushes /\ Conns \cap Flushes = {}
  /\ Readable \subseteq Keys /\ Writable \subseteq Keys /\ Observable \subseteq Keys
  /\ {Voltage, MirrorOut} \subseteq Observable \ Writable /\ Voltage # MirrorOut
  /\ MirrorIn \in Writable \ (Readable \cup Observable)
  /\ Initial \in Values /\ NoValue \notin Values
  /\ MaxRequests \in Nat /\ MaxUpdates \in Nat
  /\ IsFiniteSet(Flushes) /\ MaxUpdates <= Cardinality(Flushes)

VARIABLES
  value,     \* SharedState: the value of each key
  pending,      \* SharedState::mirror_pending
  generation,   \* SharedState::mirror_generation
  ticket,    \* the generation each flush was scheduled with, 0 before
  conn,      \* "new", "open" while registered, "closed" after
  mask,      \* ConnectionHandle::observed_mask, as a set of keys
  channel,   \* frames in the connection's mpsc channel
  failed,    \* the connection's write_frames has returned: send fails
  task,      \* where each task stands
  requests, updates,   \* counts, for the bounds
  acked,     \* history: keys whose last `k` on the channel was OBSERVE's
  belief,    \* history: the value of each observed key last read for the client
  told,      \* history: keys with a `!` on the channel since that read
  entitled,  \* history: connections that were told they observe the key of
             \* the task's broadcast at some time since it began
  skipped,   \* history: keys with a change whose broadcast was given up
  stores     \* history: the generations of the flushes that set mirror_out

mirrorVars == <<pending, generation, ticket, stores>>
historyVars == <<acked, belief, told, entitled, skipped>>
vars == <<value, conn, mask, channel, failed, task, requests, updates,
          historyVars, mirrorVars>>

\* What a task is doing: a step, the key it is about, the value of its
\* response, whether a broadcast follows, the connections left to visit.
Idle == [step |-> "idle", key |-> Voltage, value |-> Initial, changed |-> FALSE,
         targets |-> {}]
Doing(s, k, v, ch) == [step |-> s, key |-> k, value |-> v, changed |-> ch, targets |-> {}]

Registered == {c \in Conns : conn[c] = "open"}

-----------------------------------------------------------------------------
(* A connection's life: run_connection.                                    *)

\* register, on a fresh ConnectionHandle.
Accept(c) ==
  /\ conn[c] = "new" /\ \A d \in Conns : d < c => conn[d] # "new"
  /\ conn' = [conn EXCEPT ![c] = "open"]
  /\ UNCHANGED <<value, mask, channel, failed, task, requests, updates, historyVars, mirrorVars>>

\* read_frames returns at a request boundary (end of stream, bad frame, a
\* message that is no request) and unregister follows.
Close(c) ==
  /\ conn[c] = "open" /\ task[c].step = "idle"
  /\ conn' = [conn EXCEPT ![c] = "closed"]
  /\ UNCHANGED <<value, mask, channel, failed, task, requests, updates, historyVars, mirrorVars>>

\* write_frames takes a frame to the socket, or ends on an error; the rest
\* of its channel is lost and send fails from then on.
WriteFrame(c) ==
  /\ ~failed[c] /\ channel[c] # <<>>
  /\ \/ channel' = [channel EXCEPT ![c] = Tail(@)] /\ UNCHANGED failed
     \/ channel' = [channel EXCEPT ![c] = <<>>] /\ failed' = [failed EXCEPT ![c] = TRUE]
  /\ UNCHANGED <<value, conn, mask, task, requests, updates, historyVars, mirrorVars>>

\* ConnectionHandle::send of a frame.
Enqueue(c, frame) ==
  channel' = IF failed[c] THEN channel ELSE [channel EXCEPT ![c] = Append(@, frame)]

\* dispatch_request's answer: when send fails read_frames breaks.
Respond(c, frame, next) ==
  /\ Enqueue(c, frame)
  /\ task' = [task EXCEPT ![c] = IF failed[c] THEN Idle ELSE next]
  /\ conn' = [conn EXCEPT ![c] = IF failed[c] THEN "closed" ELSE @]

\* The node tells the client that it does, or does not, observe k.
Acknowledge(c, k, on) ==
  /\ acked' = [acked EXCEPT ![c] = IF on THEN @ \cup {k} ELSE @ \ {k}]
  /\ belief' = [belief EXCEPT ![c][k] = NoValue]
  /\ told' = [told EXCEPT ![c] = @ \ {k}]
  /\ entitled' = [a \in Tasks |-> IF on /\ task[a].targets # {} /\ task[a].key = k
                                    THEN entitled[a] \cup {c} ELSE entitled[a]]
  /\ UNCHANGED skipped

\* The value of k of a client that observes it, up to date when the handler
\* reads or writes it.
Learn(c, k, v) ==
  /\ belief' = [belief EXCEPT ![c][k] = IF k \in acked[c] THEN v ELSE @]
  /\ told' = [told EXCEPT ![c] = @ \ {k}]

-----------------------------------------------------------------------------
(* dispatch_request: one action up to the next access to shared state.     *)

Dispatch(c) ==
  /\ conn[c] = "open" /\ task[c].step = "idle"
  /\ requests < MaxRequests /\ requests' = requests + 1

\* get_value, then send.
Get(c, k) ==
  /\ Dispatch(c) /\ k \in Readable
  /\ task' = [task EXCEPT ![c] = Doing("value", k, value[k], FALSE)]
  /\ Learn(c, k, value[k])
  /\ UNCHANGED <<value, conn, mask, channel, failed, updates, acked, entitled, skipped,
                 mirrorVars>>

SendValue(c) ==
  /\ task[c].step = "value"
  /\ Respond(c, Value("VALUE", task[c].key, task[c].value), Idle)
  /\ UNCHANGED <<value, mask, failed, requests, updates, historyVars, mirrorVars>>

\* write_value: the comparison and the store are one swap, or under a lock.
Write(c, k, v) ==
  /\ Dispatch(c) /\ k \in Writable \ {MirrorIn}
  /\ value' = [value EXCEPT ![k] = v]
  /\ task' = [task EXCEPT ![c] =
                Doing("written", k, v, k \in Observable /\ value[k] # v)]
  /\ Learn(c, k, v)
  /\ UNCHANGED <<conn, mask, channel, failed, updates, acked, entitled, skipped, mirrorVars>>

\* The `w` response comes before the broadcast, which is given up if the
\* writer's own connection has failed.
SendWritten(c) ==
  /\ task[c].step = "written"
  /\ Respond(c, Value("WRITTEN", task[c].key, task[c].value),
             IF task[c].changed THEN [task[c] EXCEPT !.step = "collect"] ELSE Idle)
  /\ skipped' = IF failed[c] /\ task[c].changed THEN skipped \cup {task[c].key} ELSE skipped
  /\ UNCHANGED <<value, mask, failed, requests, updates, acked, belief, told, entitled,
                 mirrorVars>>

\* Mutant: the key's flags are not checked.
ObserveAnyKey(c, k) ==
  /\ Dispatch(c)
  /\ Respond(c, OkFrame, Doing("observe", k, Initial, FALSE))
  /\ Acknowledge(c, k, TRUE)
  /\ UNCHANGED <<value, mask, failed, updates, mirrorVars>>

\* OBSERVE sends `k` and then sets the key's bit.
Observe(c, k) ==
  /\ Dispatch(c) /\ k \in Observable
  /\ Respond(c, OkFrame, Doing("observe", k, Initial, FALSE))
  /\ Acknowledge(c, k, TRUE)
  /\ UNCHANGED <<value, mask, failed, updates, mirrorVars>>

SetMask(c) ==
  /\ task[c].step = "observe"
  /\ mask' = [mask EXCEPT ![c] = @ \cup {task[c].key}]
  /\ task' = [task EXCEPT ![c] = Idle]
  /\ UNCHANGED <<value, conn, channel, failed, requests, updates, historyVars, mirrorVars>>

\* UNOBSERVE clears the key's bit and then sends `k`.
Unobserve(c, k) ==
  /\ Dispatch(c)
  /\ mask' = [mask EXCEPT ![c] = @ \ {k}]
  /\ task' = [task EXCEPT ![c] = Doing("unobserve", k, Initial, FALSE)]
  /\ UNCHANGED <<value, conn, channel, failed, updates, historyVars, mirrorVars>>

SendUnobserved(c) ==
  /\ task[c].step = "unobserve"
  /\ Respond(c, OkFrame, Idle)
  /\ Acknowledge(c, task[c].key, FALSE)
  /\ UNCHANGED <<value, mask, failed, requests, updates, mirrorVars>>

-----------------------------------------------------------------------------
(* The mirror: a write of mirror_in, and its flush into mirror_out.        *)

Unscheduled == {f \in Flushes : ticket[f] = 0}

\* write_value for mirror_in: three steps, each under a lock of its own.
WriteMirror(c, v) ==
  /\ Dispatch(c)
  /\ updates < MaxUpdates /\ updates' = updates + 1
  /\ value' = [value EXCEPT ![MirrorIn] = v]
  /\ task' = [task EXCEPT ![c] = Doing("pend", MirrorIn, v, FALSE)]
  /\ UNCHANGED <<conn, mask, channel, failed, historyVars, mirrorVars>>

StorePending(c) ==
  /\ task[c].step = "pend"
  /\ pending' = task[c].value
  /\ task' = [task EXCEPT ![c].step = "schedule"]
  /\ UNCHANGED <<value, conn, mask, channel, failed, requests, updates, historyVars,
                 generation, ticket, stores>>

\* Mutant: fetch_add's result, the generation before this write, is scheduled.
ScheduleOldGeneration(c) ==
  /\ task[c].step = "schedule"
  /\ generation' = generation + 1
  /\ LET f == CHOOSE f \in Unscheduled : TRUE IN
     /\ ticket' = [ticket EXCEPT ![f] = generation]
     /\ task' = [task EXCEPT ![c].step = "written",
                             ![f] = Doing("asleep", MirrorOut, Initial, FALSE)]
  /\ UNCHANGED <<value, conn, mask, channel, failed, requests, updates, historyVars,
                 pending, stores>>

\* fetch_add, then schedule_mirror_update of the new generation.
Schedule(c) ==
  /\ task[c].step = "schedule"
  /\ generation' = generation + 1
  /\ LET f == CHOOSE f \in Unscheduled : TRUE IN
     /\ ticket' = [ticket EXCEPT ![f] = generation']
     /\ task' = [task EXCEPT ![c].step = "written",
                             ![f] = Doing("asleep", MirrorOut, Initial, FALSE)]
  /\ UNCHANGED <<value, conn, mask, channel, failed, requests, updates, historyVars,
                 pending, stores>>

\* flush_mirror_update: the generation is compared once, before the copy.
Wake(f) ==
  /\ task[f].step = "asleep"
  /\ task' = [task EXCEPT ![f] = IF ticket[f] = generation
                                   THEN [@ EXCEPT !.step = "clone"] ELSE Idle]
  /\ UNCHANGED <<value, conn, mask, channel, failed, requests, updates, historyVars, mirrorVars>>

ClonePending(f) ==
  /\ task[f].step = "clone"
  /\ task' = [task EXCEPT ![f].step = "store", ![f].value = pending]
  /\ UNCHANGED <<value, conn, mask, channel, failed, requests, updates, historyVars, mirrorVars>>

StoreOut(f) ==
  /\ task[f].step = "store"
  /\ value' = [value EXCEPT ![MirrorOut] = task[f].value]
  /\ task' = [task EXCEPT ![f] = IF value[MirrorOut] = @.value THEN Idle
                                 ELSE [@ EXCEPT !.step = "collect"]]
  /\ stores' = Append(stores, ticket[f])
  /\ UNCHANGED <<conn, mask, channel, failed, requests, updates, historyVars,
                 pending, generation, ticket>>

-----------------------------------------------------------------------------
(* update_voltage and broadcast_changed.                                   *)

UpdateVoltage(v) ==
  /\ task[Loop].step = "idle" /\ updates < MaxUpdates
  /\ updates' = updates + 1
  /\ value' = [value EXCEPT ![Voltage] = v]
  /\ task' = [task EXCEPT ![Loop] = IF value[Voltage] = v THEN Idle
                                    ELSE Doing("collect", Voltage, v, TRUE)]
  /\ UNCHANGED <<conn, mask, channel, failed, requests, historyVars, mirrorVars>>

\* The registered connections are cloned under the registry's lock.
Collect(a) ==
  /\ task[a].step = "collect"
  /\ task' = [task EXCEPT ![a] = IF Registered = {} THEN Idle
                ELSE [@ EXCEPT !.step = "check", !.targets = Registered]]
  /\ entitled' = [entitled EXCEPT ![a] = {c \in Registered : task[a].key \in acked[c]}]
  /\ UNCHANGED <<value, conn, mask, channel, failed, requests, updates, acked,
                 belief, told, skipped, mirrorVars>>

\* The connections are visited in the order of their ids.
Target(a) == CHOOSE c \in task[a].targets : \A d \in task[a].targets : c <= d

\* Go on to the next connection, or be done.
Visited(a) ==
  IF task[a].targets = {Target(a)} THEN Idle
  ELSE [task[a] EXCEPT !.step = "check", !.targets = @ \ {Target(a)}]

\* Mutant: the loop ends at the first connection that does not observe.
CheckMaskOrStop(a) ==
  /\ task[a].step = "check"
  /\ task' = [task EXCEPT ![a] = IF task[a].key \in mask[Target(a)]
                THEN [@ EXCEPT !.step = "send"] ELSE Idle]
  /\ UNCHANGED <<value, conn, mask, channel, failed, requests, updates, historyVars, mirrorVars>>

\* Mutant: every registered connection gets the `!`.
CheckNoMask(a) ==
  /\ task[a].step = "check"
  /\ task' = [task EXCEPT ![a].step = "send"]
  /\ UNCHANGED <<value, conn, mask, channel, failed, requests, updates, historyVars, mirrorVars>>

\* is_observing: the mask is read, and then the connection may move on.
CheckMask(a) ==
  /\ task[a].step = "check"
  /\ task' = [task EXCEPT ![a] = IF task[a].key \in mask[Target(a)]
                THEN [@ EXCEPT !.step = "send"] ELSE Visited(a)]
  /\ UNCHANGED <<value, conn, mask, channel, failed, requests, updates, historyVars, mirrorVars>>

SendChanged(a) ==
  /\ task[a].step = "send"
  /\ Enqueue(Target(a), Changed(task[a].key))
  /\ told' = [told EXCEPT ![Target(a)] = @ \cup {task[a].key}]
  /\ task' = [task EXCEPT ![a] = Visited(a)]
  /\ UNCHANGED <<value, conn, mask, failed, requests, updates, acked, belief,
                 entitled, skipped, mirrorVars>>

-----------------------------------------------------------------------------
Init ==
  /\ value = [k \in Keys |-> Initial]
  /\ pending = Initial /\ generation = 0
  /\ ticket = [f \in Flushes |-> 0] /\ stores = <<>>
  /\ conn = [c \in Conns |-> "new"]
  /\ mask = [c \in Conns |-> {}]
  /\ channel = [c \in Conns |-> <<>>]
  /\ failed = [c \in Conns |-> FALSE]
  /\ task = [a \in Tasks |-> Idle]
  /\ requests = 0 /\ updates = 0
  /\ acked = [c \in Conns |-> {}]
  /\ belief = [c \in Conns |-> [k \in Keys |-> NoValue]]
  /\ told = [c \in Conns |-> {}]
  /\ entitled = [a \in Tasks |-> {}]
  /\ skipped = {}

\* The steps of a request or a broadcast that has begun.
Continue(a) ==
  \/ Collect(a) \/ CheckMask(a) \/ SendChanged(a)
  \/ a \in Conns /\ (\/ SendValue(a) \/ SendWritten(a) \/ SetMask(a)
                      \/ SendUnobserved(a) \/ StorePending(a) \/ Schedule(a))
  \/ a \in Flushes /\ (Wake(a) \/ ClonePending(a) \/ StoreOut(a))

Next ==
  \/ \E c \in Conns :
       \/ Accept(c) \/ Close(c) \/ WriteFrame(c)
       \/ \E k \in Keys : Get(c, k) \/ Observe(c, k) \/ Unobserve(c, k)
       \/ \E k \in Keys, v \in Values : Write(c, k, v)
       \/ \E v \in Values : WriteMirror(c, v)
  \/ \E v \in Values : UpdateVoltage(v)
  \/ \E a \in Tasks : Continue(a)

\* There is no await in a request's handling: a task that has begun it ends it.
\* A flush's only await is its sleep of 50 ms.
Spec == Init /\ [][Next]_vars /\ \A a \in Tasks : WF_vars(Continue(a))

\* What runs tell states apart by: of a channel, whether it is empty.  No
\* frame is read by the node again, and a connection with frames on its
\* channel can do all that one with fewer can: pop one, or fail.
Relevant ==
  <<value, conn, mask, {c \in Conns : channel[c] # <<>>}, failed, task, requests,
    updates, historyVars, mirrorVars>>

-----------------------------------------------------------------------------
(* Properties.                                                             *)

Frames == {OkFrame} \cup {Changed(k) : k \in Keys}
  \cup {Value(o, k, v) : o \in {"VALUE", "WRITTEN"}, k \in Keys, v \in Values}

\* Every variable has the type of what it models.
TypeOK ==
  /\ value \in [Keys -> Values] /\ pending \in Values
  /\ generation \in Nat /\ ticket \in [Flushes -> 0..generation]
  /\ stores \in Seq(1..generation)
  /\ conn \in [Conns -> {"new", "open", "closed"}]
  /\ mask \in [Conns -> SUBSET Observable]
  /\ channel \in [Conns -> Seq(Frames)]
  /\ failed \in [Conns -> BOOLEAN]
  /\ task \in [Tasks -> [step : {"idle", "value", "written", "observe", "unobserve",
                                 "collect", "check", "send", "pend", "schedule",
                                 "asleep", "clone", "store"},
                         key : Keys, value : Values, changed : BOOLEAN,
                         targets : SUBSET Conns]]
  /\ requests \in Nat /\ updates \in Nat
  /\ acked \in [Conns -> SUBSET Keys]
  /\ belief \in [Conns -> [Keys -> Values \cup {NoValue}]]
  /\ told \in [Conns -> SUBSET Keys]
  /\ entitled \in [Tasks -> SUBSET Conns]
  /\ skipped \subseteq Keys

Notified(c, k) == channel'[c] = Append(channel[c], Changed(k))

\* The protocol's rule: no `!` for a key follows the `k` of its UNOBSERVE, nor
\* comes before the `k` of its OBSERVE (PROTOCOL.md:572, 624).
ChangedOnlyWhileObserved ==
  [][\A c \in Conns, k \in Keys : Notified(c, k) => k \in acked[c]]_vars

\* What broadcast_changed does keep of that rule: a `!` goes to a connection
\* only if its client observed the key at some time during the broadcast.  A
\* broadcast that begins after the `k` of UNOBSERVE never reaches it.
ChangedOnlyIfObservedDuringBroadcast ==
  [][\A c \in Conns, k \in Keys : Notified(c, k) =>
       \E a \in Tasks : task[a].step = "send" /\ task[a].key = k /\ c \in entitled[a]]_vars

\* The client observes k and has a value for it that is out of date, with no
\* `!` on its channel since that value was read.
Stale(c, k) ==
  /\ conn[c] = "open" /\ ~failed[c] /\ k \in acked[c]
  /\ belief[c][k] \notin {NoValue, value[k]} /\ k \notin told[c]

\* The task has a change of k to report to c.
WillReport(a, c, k) ==
  /\ task[a].key = k
  /\ \/ task[a].step = "written" /\ task[a].changed
     \/ task[a].step = "collect"
     \/ c \in task[a].targets

\* No lost change: when an observer's value is out of date some task is on
\* its way to tell it, whatever the order in which writers broadcast and the
\* masks are set, unless the observer is leaving or the connection of a
\* writer failed before it broadcast (main.rs:625).
NoLostChange ==
  \A c \in Conns, k \in Keys : Stale(c, k) =>
    \/ \E a \in Tasks : WillReport(a, c, k)
    \/ task[c].step = "unobserve" /\ task[c].key = k
    \/ k \in skipped

\* Nothing of the mirror is under way.
MirrorAtRest ==
  /\ \A c \in Conns : task[c].step \notin {"pend", "schedule"}
  /\ \A f \in Flushes : task[f].step \notin {"asleep", "clone", "store"}

\* The mirror settles: once no write or flush of it is under way, the flush
\* of the last generation has run, and mirror_out holds what the writers left
\* in mirror_pending unless a flush that had passed its check of the
\* generation stored after that one, in the order of two concurrent writers
\* or of a stalled flush (main.rs:383-398, 463-483).
MirrorSettles ==
  MirrorAtRest /\ generation > 0 =>
    /\ generation \in ToSet(stores)
    /\ Last(stores) = generation => value[MirrorOut] = pending
=============================================================================
