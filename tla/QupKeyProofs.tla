--------------------------- MODULE QupKeyProofs ---------------------------
(***************************************************************************)
(* Proofs about QupKey: its types; that Key::next returns an update that   *)
(* landed after its call, for any number of setters and waiters; and that  *)
(* a single waiter never sleeps through an update, if the generation does  *)
(* not wrap around.                                                        *)
(***************************************************************************)
EXTENDS QupKey, FiniteSets, FiniteSetTheorems, TLAPS

\* The residue of a counter is a value of the u32.
LEMMA ResidueInRange ==
  ASSUME NEW n \in Nat
  PROVE  n % GenerationModulus \in 0 .. GenerationModulus - 1
  BY QupKeyAssumption

\* Steps of the setters and of the waiters, one at a time.
LEMMA TypeStep == TypeOK /\ [Next]_vars => TypeOK'
<1> SUFFICES ASSUME TypeOK, [Next]_vars PROVE TypeOK'
  OBVIOUS
<1> USE DEF TypeOK, Goals, keyVars, waitVars
<1>1. ASSUME NEW t \in Setters, NEW v \in Values, Store(t, v) PROVE TypeOK'
  BY <1>1 DEF Store
<1>2. ASSUME NEW t \in Setters, Bump(t) PROVE TypeOK'
  BY <1>2 DEF Bump
<1>3. ASSUME NEW t \in Setters, SignalChange(t) PROVE TypeOK'
  BY <1>3 DEF SignalChange
<1>4. ASSUME NEW w \in Waiters, NEW g \in Goals, Call(w, g) PROVE TypeOK'
  BY <1>4 DEF Call
<1>5. ASSUME NEW w \in Waiters, Snapshot(w) PROVE TypeOK'
  <2>1. Generation \in 0 .. GenerationModulus - 1
    BY ResidueInRange DEF Generation
  <2>2. QED
    BY <1>5, <2>1 DEF Snapshot
<1>6. ASSUME NEW w \in Waiters, Wake(w) PROVE TypeOK'
  BY <1>6 DEF Wake
<1>7. ASSUME NEW w \in Waiters, Check(w) PROVE TypeOK'
  <2>1. [value |-> value, store |-> stores] \in [value : Values, store : Nat]
    OBVIOUS
  <2>2. waiter' \in [Waiters -> {"idle", "snapshot", "wait", "check", "got"}]
    BY <1>7 DEF Check
  <2>3. result' \in [Waiters -> [value : Values, store : Nat]]
    BY <1>7, <2>1 DEF Check
  <2>4. QED
    BY <1>7, <2>2, <2>3 DEF Check
<1>8. ASSUME NEW w \in Waiters, Return(w) PROVE TypeOK'
  BY <1>8 DEF Return
<1>9. CASE UNCHANGED vars
  BY <1>9 DEF vars
<1>10. QED
  BY <1>1, <1>2, <1>3, <1>4, <1>5, <1>6, <1>7, <1>8, <1>9 DEF Next, SetterStep, WaiterStep

LEMMA TypeInit == Init => TypeOK
<1> SUFFICES ASSUME Init PROVE TypeOK
  OBVIOUS
<1>1. [value |-> Initial, store |-> 0] \in [value : Values, store : Nat]
  BY QupKeyAssumption
<1>2. result \in [Waiters -> [value : Values, store : Nat]]
  BY <1>1 DEF Init
<1>3. 0 \in 0 .. GenerationModulus - 1
  BY QupKeyAssumption
<1>4. QED
  BY <1>2, <1>3, QupKeyAssumption DEF Init, TypeOK, Goals

\* Every variable of a key has its type, for any setters, waiters and values.
THEOREM KeyTypes == Spec => []TypeOK
  BY TypeInit, TypeStep, PTL DEF Spec

-----------------------------------------------------------------------------
\* The setters between their store and their fetch_add.
Bumping == {t \in Setters : setter[t] = "bump"}

\* Each store that is not counted yet has its setter in between.
Counted ==
  /\ IsFiniteSet(Bumping)
  /\ stores = updates + Cardinality(Bumping)

LEMMA CountedStep == TypeOK /\ Counted /\ [Next]_vars => Counted'
<1> SUFFICES ASSUME TypeOK, Counted, [Next]_vars PROVE Counted'
  OBVIOUS
<1>1. ASSUME NEW t \in Setters, NEW v \in Values, Store(t, v) PROVE Counted'
  <2>1. Bumping' = Bumping \cup {t} /\ t \notin Bumping
    BY <1>1 DEF Store, Bumping, TypeOK
  <2>2. IsFiniteSet(Bumping') /\ Cardinality(Bumping') = Cardinality(Bumping) + 1
    BY <2>1, FS_AddElement DEF Counted
  <2>3. Cardinality(Bumping) \in Nat
    BY FS_CardinalityType DEF Counted
  <2>4. QED
    BY <1>1, <2>2, <2>3 DEF Store, Counted, TypeOK
<1>2. ASSUME NEW t \in Setters, Bump(t) PROVE Counted'
  <2>1. Bumping' = Bumping \ {t} /\ t \in Bumping
    BY <1>2 DEF Bump, Bumping, TypeOK
  <2>2. IsFiniteSet(Bumping') /\ Cardinality(Bumping') = Cardinality(Bumping) - 1
    BY <2>1, FS_RemoveElement DEF Counted
  <2>3. Cardinality(Bumping) \in Nat
    BY FS_CardinalityType DEF Counted
  <2>4. QED
    BY <1>2, <2>2, <2>3 DEF Bump, Counted, TypeOK
<1>3. ASSUME NEW t \in Setters, SignalChange(t) PROVE Counted'
  <2>1. Bumping' = Bumping
    BY <1>3 DEF SignalChange, Bumping, TypeOK
  <2>2. QED
    BY <1>3, <2>1 DEF SignalChange, keyVars, Counted
<1>4. ASSUME UNCHANGED <<setter, stores, updates>> PROVE Counted'
  BY <1>4 DEF Counted, Bumping
<1>5. QED
  BY <1>1, <1>2, <1>3, <1>4
     DEF Next, SetterStep, WaiterStep, Call, Snapshot, Wake, Check, Return, vars, keyVars

\* What a waiter's locals say about the counter.
Snapshots ==
  \A w \in Waiters :
    /\ since[w] <= updates
    /\ waiter[w] \in {"wait", "check"} => snapshot[w] = since[w] % GenerationModulus

LandedInv == Counted /\ Snapshots /\ NextReturnsLandedUpdate

LEMMA LandedInit == Init => LandedInv
<1> SUFFICES ASSUME Init PROVE LandedInv
  OBVIOUS
<1>1. Bumping = {}
  BY DEF Init, Bumping
<1>2. Counted
  BY <1>1, FS_EmptySet DEF Init, Counted
<1>3. QED
  BY <1>2 DEF Init, LandedInv, Snapshots, NextReturnsLandedUpdate

LEMMA SnapshotsStep == TypeOK /\ Snapshots /\ [Next]_vars => Snapshots'
<1> SUFFICES ASSUME TypeOK, Snapshots, [Next]_vars PROVE Snapshots'
  OBVIOUS
<1> USE DEF Snapshots, TypeOK, keyVars, waitVars
<1>1. ASSUME NEW t \in Setters, SetterStep(t) \/ \E v \in Values : Store(t, v) PROVE Snapshots'
  BY <1>1 DEF SetterStep, Store, Bump, SignalChange
<1>2. ASSUME NEW w \in Waiters, NEW g \in Goals, Call(w, g) PROVE Snapshots'
  BY <1>2 DEF Call
<1>3. ASSUME NEW w \in Waiters, Snapshot(w) PROVE Snapshots'
  BY <1>3 DEF Snapshot, Generation
<1>4. ASSUME NEW w \in Waiters, Wake(w) PROVE Snapshots'
  BY <1>4 DEF Wake
<1>5. ASSUME NEW w \in Waiters, Check(w) PROVE Snapshots'
  BY <1>5 DEF Check
<1>6. ASSUME NEW w \in Waiters, Return(w) PROVE Snapshots'
  BY <1>6 DEF Return
<1>7. CASE UNCHANGED vars
  BY <1>7 DEF vars
<1>8. QED
  BY <1>1, <1>2, <1>3, <1>4, <1>5, <1>6, <1>7 DEF Next, WaiterStep

LEMMA LandedStep == TypeOK /\ LandedInv /\ [Next]_vars => LandedInv'
<1> SUFFICES ASSUME TypeOK, LandedInv, [Next]_vars PROVE NextReturnsLandedUpdate'
  BY CountedStep, SnapshotsStep DEF LandedInv
<1> USE DEF NextReturnsLandedUpdate, TypeOK
<1>1. ASSUME NEW w \in Waiters, Check(w) PROVE NextReturnsLandedUpdate'
  <2>1. updates <= stores
    <3>1. Cardinality(Bumping) \in Nat
      BY FS_CardinalityType DEF LandedInv, Counted
    <3>2. QED
      BY <3>1 DEF LandedInv, Counted
  <2>2. Generation # snapshot[w] => since[w] < updates
    BY <1>1 DEF Check, LandedInv, Snapshots, Generation
  <2>3. since[w] < updates => since[w] < stores
    BY <2>1
  <2>4. QED
    BY <1>1, <2>2, <2>3 DEF Check, LandedInv
<1>2. ASSUME NEW w \in Waiters, Snapshot(w) PROVE NextReturnsLandedUpdate'
  BY <1>2 DEF Snapshot, LandedInv
<1>3. ASSUME NEW w \in Waiters, Wake(w) \/ Return(w) \/ \E g \in Goals : Call(w, g)
      PROVE  NextReturnsLandedUpdate'
  BY <1>3 DEF Wake, Return, Call, LandedInv
<1>4. ASSUME UNCHANGED waitVars PROVE NextReturnsLandedUpdate'
  BY <1>4 DEF waitVars, LandedInv
<1>5. ASSUME NEW t \in Setters, NEW v \in Values, Store(t, v) PROVE NextReturnsLandedUpdate'
  BY <1>5 DEF Store, LandedInv
<1>6. QED
  BY <1>1, <1>2, <1>3, <1>4, <1>5
     DEF Next, SetterStep, WaiterStep, Bump, SignalChange, vars

\* Key::next returns a value that includes an update counted after its call
\* took its snapshot (lib.rs:372), however the setters and waiters are
\* interleaved and also when the generation wraps around.
THEOREM NextReturnsWhatLanded == Spec => []NextReturnsLandedUpdate
<1>1. Spec => []LandedInv
  BY KeyTypes, LandedInit, LandedStep, PTL DEF Spec
<1>2. LandedInv => NextReturnsLandedUpdate
  BY DEF LandedInv
<1>3. QED
  BY <1>1, <1>2, PTL

-----------------------------------------------------------------------------
\* One task awaits the key, as its Signal requires, and the bound on stores
\* keeps the generation from wrapping around.
SingleWaiter == \A v, w \in Waiters : v = w
NoWrap       == MaxUpdates < GenerationModulus

StoresBounded == stores <= MaxUpdates

LEMMA BoundedStep == StoresBounded /\ TypeOK /\ [Next]_vars => StoresBounded'
  BY QupKeyAssumption
     DEF StoresBounded, TypeOK, Next, SetterStep, WaiterStep, Store, Bump, SignalChange, Call,
         Snapshot, Wake, Check, Return, vars, keyVars

\* Without wrap-around an unchanged generation means that nothing was counted.
LEMMA SameGeneration ==
  ASSUME NoWrap, TypeOK, LandedInv, StoresBounded,
         NEW w \in Waiters, waiter[w] = "check", Generation = snapshot[w]
  PROVE  updates = since[w]
<1>1. updates <= stores /\ stores < GenerationModulus
  <2>1. Cardinality(Bumping) \in Nat
    BY FS_CardinalityType DEF LandedInv, Counted
  <2>2. QED
    BY <2>1, QupKeyAssumption DEF LandedInv, Counted, NoWrap, StoresBounded, TypeOK
<1>2. ASSUME NEW n \in Nat, n < GenerationModulus PROVE n % GenerationModulus = n
  BY <1>2, QupKeyAssumption
<1>3. QED
  BY <1>1, <1>2, QupKeyAssumption DEF Generation, LandedInv, Snapshots, TypeOK

LEMMA SignalStep ==
  ASSUME SingleWaiter, NoWrap, TypeOK, LandedInv, StoresBounded, NoLostSignal, [Next]_vars
  PROVE  NoLostSignal'
<1> USE DEF NoLostSignal, TypeOK, keyVars, waitVars
<1>1. ASSUME NEW t \in Setters, NEW v \in Values, Store(t, v) PROVE NoLostSignal'
  BY <1>1 DEF Store
<1>2. ASSUME NEW t \in Setters, Bump(t) PROVE NoLostSignal'
  BY <1>2 DEF Bump
<1>3. ASSUME NEW t \in Setters, SignalChange(t) PROVE NoLostSignal'
  BY <1>3 DEF SignalChange
<1>4. ASSUME NEW w \in Waiters, NEW g \in Goals, Call(w, g) PROVE NoLostSignal'
  BY <1>4 DEF Call
<1>5. ASSUME NEW w \in Waiters, Snapshot(w) PROVE NoLostSignal'
  BY <1>5 DEF Snapshot
<1>6. ASSUME NEW w \in Waiters, Wake(w) PROVE NoLostSignal'
  BY <1>6 DEF Wake, SingleWaiter
<1>7. ASSUME NEW w \in Waiters, Check(w) PROVE NoLostSignal'
  <2>1. CASE Generation # snapshot[w]
    BY <1>7, <2>1 DEF Check
  <2>2. CASE Generation = snapshot[w]
    <3>1. updates = since[w]
      BY <1>7, <2>2, SameGeneration DEF Check
    <3>2. QED
      BY <1>7, <2>2, <3>1 DEF Check
  <2>3. QED
    BY <2>1, <2>2
<1>8. ASSUME NEW w \in Waiters, Return(w) PROVE NoLostSignal'
  BY <1>8 DEF Return
<1>9. CASE UNCHANGED vars
  BY <1>9 DEF vars
<1>10. QED
  BY <1>1, <1>2, <1>3, <1>4, <1>5, <1>6, <1>7, <1>8, <1>9 DEF Next, SetterStep, WaiterStep

\* The single waiter of a key never sleeps through an update: while one is
\* counted that it has not returned, its signal is set or is about to be
\* (lib.rs:377, 434).
THEOREM SignalSafe ==
  ASSUME SingleWaiter, NoWrap
  PROVE  Spec => []NoLostSignal
<1>1. Init => LandedInv /\ StoresBounded /\ NoLostSignal
  <2>1. Init => StoresBounded /\ NoLostSignal
    BY QupKeyAssumption DEF Init, StoresBounded, NoLostSignal
  <2>2. QED
    BY <2>1, LandedInit
<1>2. TypeOK /\ (LandedInv /\ StoresBounded /\ NoLostSignal) /\ [Next]_vars
        => (LandedInv /\ StoresBounded /\ NoLostSignal)'
  BY LandedStep, BoundedStep, SignalStep
<1>3. QED
  BY <1>1, <1>2, KeyTypes, PTL DEF Spec
=============================================================================
