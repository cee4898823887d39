------------------------------- MODULE QupKey -------------------------------
(***************************************************************************)
(* One Key of crates/qup-embassy/src/lib.rs seen by the application: tasks *)
(* that call Key::set and tasks that await Key::next or Key::wait_for on   *)
(* its change_signal.  The server side of the key is in EmbassyServer.     *)
(*                                                                         *)
(* embassy_sync's Signal holds at most one signal, and wait() takes it.    *)
(***************************************************************************)
EXTENDS Integers

CONSTANTS
  Values,             \* the values of the key
  Expected,           \* the value wait_for is called with
  Initial,            \* the value of Key::with_initial
  Setters,            \* tasks that call set, the server (WRITE) among them
  Waiters,            \* tasks that call next and wait_for
  GenerationModulus,  \* 2^32 in the code
  MaxUpdates          \* bound: calls of set

Goals == {"next", "wait_for"}

ASSUME QupKeyAssumption ==
  /\ Expected \in Values /\ Initial \in Values
  /\ Setters \cap Waiters = {}
  /\ GenerationModulus \in Nat \ {0}
  /\ MaxUpdates \in Nat

VARIABLES
  preemptive,    \* TRUE: tasks run on several executors or interrupts; FALSE:
                 \* on one executor, which runs a task from await to await
  value,         \* Key::value
  stores,        \* history: number of values stored
  updates,       \* fetch_adds of Key::generation, which is their residue
  change_signal, \* TRUE when Key::change_signal is signalled
  setter,        \* where each setter stands in set
  waiter,        \* where each waiter stands in next or wait_for
  goal,          \* the method each waiter is in
  snapshot,      \* next's local observed_generation
  result,        \* what next returned last, and how many stores preceded it
  since,         \* history: `updates` when the waiter took its snapshot
  landed         \* history: Expected was stored during the waiter's call

keyVars  == <<preemptive, value, stores, updates>>
waitVars == <<waiter, goal, snapshot, result, since, landed>>
vars == <<keyVars, change_signal, setter, waitVars>>

\* Mutant: the counter runs down from 2^32.
GenerationCountsDown == GenerationModulus - (updates % GenerationModulus)

Generation == updates % GenerationModulus

\* Where a task can stand without running: not called, or at an await.
AtRest(p) == p \in {"idle", "wait"}

\* One executor runs a task until its next await point.
MayRun(x) ==
  \/ preemptive
  \/ /\ \A t \in Setters \ {x} : AtRest(setter[t])
     /\ \A w \in Waiters \ {x} : AtRest(waiter[w])

-----------------------------------------------------------------------------
(* try_set and notify_changed.                                             *)

Store(t, v) ==
  /\ MayRun(t) /\ setter[t] = "idle" /\ stores < MaxUpdates
  /\ value' = v
  /\ stores' = stores + 1
  /\ setter' = [setter EXCEPT ![t] = "bump"]
  /\ landed' = [w \in Waiters |-> landed[w] \/ (v = Expected /\ waiter[w] # "idle")]
  /\ UNCHANGED <<preemptive, updates, change_signal, waiter, goal, snapshot,
                 result, since>>

Bump(t) ==
  /\ MayRun(t) /\ setter[t] = "bump"
  /\ updates' = updates + 1
  /\ setter' = [setter EXCEPT ![t] = "signal"]
  /\ UNCHANGED <<preemptive, value, stores, change_signal, waitVars>>

SignalChange(t) ==
  /\ MayRun(t) /\ setter[t] = "signal"
  /\ change_signal' = TRUE
  /\ setter' = [setter EXCEPT ![t] = "idle"]
  /\ UNCHANGED <<keyVars, waitVars>>

-----------------------------------------------------------------------------
(* next, and wait_for's loop around it.                                    *)

Call(w, g) ==
  /\ MayRun(w) /\ waiter[w] = "idle"
  /\ waiter' = [waiter EXCEPT ![w] = "snapshot"]
  /\ goal' = [goal EXCEPT ![w] = g]
  /\ landed' = [landed EXCEPT ![w] = FALSE]
  /\ UNCHANGED <<keyVars, change_signal, setter, snapshot, result, since>>

\* let observed_generation = self.generation()
Snapshot(w) ==
  /\ MayRun(w) /\ waiter[w] = "snapshot"
  /\ snapshot' = [snapshot EXCEPT ![w] = Generation]
  /\ since' = [since EXCEPT ![w] = updates]
  /\ waiter' = [waiter EXCEPT ![w] = "wait"]
  /\ UNCHANGED <<keyVars, change_signal, setter, goal, result, landed>>

\* change_signal.wait() completes and takes the signal.
Wake(w) ==
  /\ MayRun(w) /\ waiter[w] = "wait" /\ change_signal
  /\ change_signal' = FALSE
  /\ waiter' = [waiter EXCEPT ![w] = "check"]
  /\ UNCHANGED <<keyVars, setter, goal, snapshot, result, since, landed>>

\* Mutant: any signal counts as an update.
CheckNothing(w) ==
  /\ MayRun(w) /\ waiter[w] = "check"
  /\ waiter' = [waiter EXCEPT ![w] = "got"]
  /\ result' = [result EXCEPT ![w] = [value |-> value, store |-> stores]]
  /\ UNCHANGED <<keyVars, change_signal, setter, goal, snapshot, since,
                 landed>>

\* Mutant: an update is recognised by its value, not by the generation.
CheckByValue(w) ==
  /\ MayRun(w) /\ waiter[w] = "check"
  /\ IF value # result[w].value
       THEN /\ waiter' = [waiter EXCEPT ![w] = "got"]
            /\ result' = [result EXCEPT ![w] = [value |-> value, store |-> stores]]
       ELSE /\ waiter' = [waiter EXCEPT ![w] = "wait"]
            /\ UNCHANGED result
  /\ UNCHANGED <<keyVars, change_signal, setter, goal, snapshot, since,
                 landed>>

\* A signal left from before the snapshot is no update: wait again.
Check(w) ==
  /\ MayRun(w) /\ waiter[w] = "check"
  /\ IF Generation # snapshot[w]
       THEN /\ waiter' = [waiter EXCEPT ![w] = "got"]
            /\ result' = [result EXCEPT ![w] = [value |-> value, store |-> stores]]
       ELSE /\ waiter' = [waiter EXCEPT ![w] = "wait"]
            /\ UNCHANGED result
  /\ UNCHANGED <<keyVars, change_signal, setter, goal, snapshot, since,
                 landed>>

\* next returns; wait_for calls it again unless the value is the expected one.
Return(w) ==
  /\ MayRun(w) /\ waiter[w] = "got"
  /\ waiter' = [waiter EXCEPT ![w] =
       IF goal[w] = "next" \/ result[w].value = Expected THEN "idle" ELSE "snapshot"]
  /\ UNCHANGED <<keyVars, change_signal, setter, goal, snapshot, result, since,
                 landed>>

-----------------------------------------------------------------------------
Init ==
  /\ preemptive \in BOOLEAN
  /\ value = Initial /\ stores = 0 /\ updates = 0
  /\ change_signal = FALSE
  /\ setter = [t \in Setters |-> "idle"]
  /\ waiter = [w \in Waiters |-> "idle"]
  /\ goal = [w \in Waiters |-> "next"]
  /\ snapshot = [w \in Waiters |-> 0]
  /\ result = [w \in Waiters |-> [value |-> Initial, store |-> 0]]
  /\ since = [w \in Waiters |-> 0]
  /\ landed = [w \in Waiters |-> FALSE]

SetterStep(t) == Bump(t) \/ SignalChange(t)
WaiterStep(w) == Snapshot(w) \/ Wake(w) \/ Check(w) \/ Return(w)

Next ==
  \/ \E t \in Setters : (\E v \in Values : Store(t, v)) \/ SetterStep(t)
  \/ \E w \in Waiters : (\E g \in Goals : Call(w, g)) \/ WaiterStep(w)

\* Calls are not obliged to happen; a call in progress is run.
Fairness ==
  /\ \A t \in Setters : WF_vars(SetterStep(t))
  /\ \A w \in Waiters : WF_vars(WaiterStep(w))

Spec == Init /\ [][Next]_vars /\ Fairness

-----------------------------------------------------------------------------
(* Properties.                                                             *)

\* Every variable has the type of what it models.
TypeOK ==
  /\ preemptive \in BOOLEAN
  /\ value \in Values /\ stores \in Nat /\ updates \in Nat
  /\ change_signal \in BOOLEAN
  /\ setter \in [Setters -> {"idle", "bump", "signal"}]
  /\ waiter \in [Waiters -> {"idle", "snapshot", "wait", "check", "got"}]
  /\ goal \in [Waiters -> Goals]
  /\ snapshot \in [Waiters -> 0 .. GenerationModulus - 1]
  /\ result \in [Waiters -> [value : Values, store : Nat]]
  /\ since \in [Waiters -> Nat]
  /\ landed \in [Waiters -> BOOLEAN]

\* next returns a value that includes every update counted before it looked,
\* at least one of them after its call (lib.rs:372, "returns the stored value
\* after it lands").
NextReturnsLandedUpdate ==
  \A w \in Waiters : waiter[w] = "got" => result[w].store > since[w]

\* A waiter that has an update to return is not asleep without a signal to
\* come.  It needs a single waiter on the key.
NoLostSignal ==
  \A w \in Waiters : waiter[w] = "wait" /\ updates # since[w] =>
    change_signal \/ \E t \in Setters : setter[t] = "signal"

\* next returns once an update has landed after its call (lib.rs:372).
NextReturns ==
  \A w \in Waiters :
    waiter[w] \in {"wait", "check"} /\ updates > since[w] ~> waiter[w] = "got"

\* wait_for returns once the key has been set to the expected value during
\* its call and keeps it (lib.rs:384, "Waits until the key is set to
\* `expected`").
WaitForReturns ==
  \A w \in Waiters :
    goal[w] = "wait_for" /\ landed[w] /\ value = Expected
      ~> waiter[w] = "idle" \/ value # Expected

\* On one executor wait_for keeps that promise: no store falls between the
\* value that next returns and the snapshot of the next call.
WaitForReturnsOnOneExecutor == ~preemptive => WaitForReturns
=============================================================================
