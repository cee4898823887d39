------------------------ MODULE EmbassyServerProofs ------------------------
(***************************************************************************)
(* Theorems about EmbassyServer, for every registry, set of tasks, set of  *)
(* requests and bound: its types, what it observes and when it is woken;   *)
(* that it loses no change; and that it implements the safety part of      *)
(* QupConnection when requests arrive whole.                               *)
(***************************************************************************)
EXTENDS EmbassyServerRefinement, FiniteSetTheorems, WellFoundedInduction,
        NaturalsInduction, SequenceTheorems, TLAPS

-----------------------------------------------------------------------------
(* The registry.                                                           *)

\* A non-empty set of naturals has a least element.
LEMMA LeastElement ==
  ASSUME NEW T, T \subseteq Nat, T # {}
  PROVE  \E m \in T : \A n \in T : m <= n
<1> DEFINE R == {ss \in Nat \X Nat : ss[1] < ss[2]}
<1>1. IsWellFoundedOn(R, Nat)
  BY NatLessThanWellFounded, Zenon DEF OpToRel
<1>2. PICK m \in T : \A n \in T : ~ (<<n, m>> \in R)
  BY <1>1, WFMin, Zenon
<1>3. \A n \in T : ~(n < m)
  BY <1>2
<1>4. QED BY <1>3

\* find_slot returns a slot with the keyref it looks for, if there is one.
LEMMA FindSlotFinds ==
  ASSUME NEW k, HasSlot(k)
  PROVE  FindSlot(k) \in Slots /\ Keyref[FindSlot(k)] = k
<1> DEFINE T == {s \in Slots : Keyref[s] = k}
<1>1. PICK m \in T : \A n \in T : m <= n
  <2>1. T \subseteq Nat /\ T # {}
    BY RegistryAssumption DEF HasSlot, Slots
  <2>2. QED BY <2>1, LeastElement, Zenon
<1>2. m \in Slots /\ Keyref[m] = k /\ \A t \in 1 .. m - 1 : Keyref[t] # k
  BY <1>1, RegistryAssumption DEF Slots
<1>3. QED BY <1>2 DEF FindSlot

\* A request that needs a slot and is not refused has one.
LEMMA AnsweredHasSlot ==
  ASSUME NEW r, ErrorCode(r) = 0, r.op \in {"get", "write", "observe"}
  PROVE  /\ HasSlot(r.keyref) /\ FindSlot(r.keyref) \in Slots
         /\ r.op = "observe" => FindSlot(r.keyref) \in Observable
<1>1. HasSlot(r.keyref) /\ FindSlot(r.keyref) \in Allowed(r.op)
  BY DEF ErrorCode, KeylessOps
<1>2. QED BY <1>1, FindSlotFinds DEF Allowed

\* Every response is a frame the protocol knows.
LEMMA ResponseType ==
  ASSUME NEW r \in Requests, NEW v \in Nat
  PROVE  Response(r, v) \in Frames
<1>1. ErrorCode(r) \in 0 .. 3
  BY DEF ErrorCode
<1>2. ReplyOpcode(r.op) \in {"OK", "IDENTIFIED", "CAPS", "KEYTABLEN", "KEY",
                             "VALUE", "WRITTEN"}
  BY ClientAssumption DEF ReplyOpcode, Request, KeylessOps, KeyedOps
<1>3. QED BY <1>1, <1>2 DEF Response, Frames

\* What was appended to the wire is the frame that was sent.
LEMMA LastFrame ==
  ASSUME NEW w \in Seq(Frames), NEW f \in Frames, NEW g \in Frames,
         Append(w, f) = Append(w, g)
  PROVE  f = g
<1>1. /\ Append(w, f)[Len(w) + 1] = f
      /\ Append(w, g)[Len(w) + 1] = g
  BY AppendProperties
<1>2. QED BY <1>1

-----------------------------------------------------------------------------
(* Types.                                                                  *)

\* What TypeOK needs of the control state to be inductive: a request is in
\* hand from `handle` to `reply`, and a `!` is sent for a slot.
ControlOK ==
  /\ pc \in {"handle", "reply"} => request \in Requests
  /\ pc = "changed" => cursor \in Slots

TypeInv == TypeOK /\ ControlOK

LEMMA InitType == Init => TypeInv
<1> SUFFICES ASSUME Init PROVE TypeInv
  OBVIOUS
<1>1. generation \in [Slots -> 0 .. GenerationModulus - 1] /\ seen = generation
  BY BoundAssumption DEF Init
<1>2. cursor \in 1 .. NumSlots + 1
  BY RegistryAssumption DEF Init
<1>3. writer \in [Writers -> Steps]
  BY DEF Init, Steps
<1>4. inbound \in Seq(Requests) /\ wire \in Seq(Frames)
  BY DEF Init
<1>5. ControlOK
  BY DEF Init, ControlOK
<1>6. QED BY <1>1, <1>2, <1>3, <1>4, <1>5 DEF Init, TypeInv, TypeOK

\* An action keeps the variables it leaves alone in their types.
LEMMA KeyStepType ==
  ASSUME TypeInv,
         \/ \E t \in Tasks, s \in Slots : Set(t, s)
         \/ \E w \in Writers : Bump(w) \/ Signal(w)
  PROVE  TypeInv'
<1> USE DEF TypeInv, TypeOK
<1>1. ASSUME NEW t \in Tasks, NEW s \in Slots, Set(t, s) PROVE TypeInv'
  <2>1. value' \in [Slots -> Nat] /\ writer' \in [Writers -> Steps]
    BY <1>1 DEF Set, Store, Steps, At, Writers
  <2>2. QED BY <1>1, <2>1 DEF Set, Store, ControlOK, serverVars, readVars, historyVars
<1>2. ASSUME NEW w \in Writers, Bump(w) PROVE TypeInv'
  <2>1. writer[w].slot \in Slots
    BY <1>2 DEF Bump, Steps, Idle
  <2>2. generation' \in [Slots -> 0 .. GenerationModulus - 1]
    <3>1. \A g \in 0 .. GenerationModulus - 1 :
            (g + 1) % GenerationModulus \in 0 .. GenerationModulus - 1
      BY BoundAssumption
    <3>2. QED BY <1>2, <2>1, <3>1 DEF Bump
  <2>3. writer' \in [Writers -> Steps]
    BY <1>2, <2>1 DEF Bump, Steps, At
  <2>4. QED BY <1>2, <2>2, <2>3 DEF Bump, ControlOK, serverVars, readVars, historyVars
<1>3. ASSUME NEW w \in Writers, Signal(w) PROVE TypeInv'
  <2>1. writer' \in [Writers -> Steps]
    BY <1>3 DEF Signal, Steps
  <2>2. QED BY <1>3, <2>1 DEF Signal, ControlOK, serverVars, readVars, historyVars
<1>4. QED BY <1>1, <1>2, <1>3

\* Closing a connection leaves every variable in its type.
LEMMA CloseType == TypeInv /\ Close => TypeInv'
<1> SUFFICES ASSUME TypeInv, Close PROVE TypeInv'
  OBVIOUS
<1>1. cursor' \in 1 .. NumSlots + 1 /\ result' \in Nat
  BY RegistryAssumption DEF Close
<1>2. inbound' \in Seq(Requests) /\ wire' \in Seq(Frames)
  BY DEF Close
<1>3. QED BY <1>1, <1>2 DEF Close, TypeInv, TypeOK, ControlOK, keyVars, historyVars

LEMMA TransportStepType ==
  ASSUME TypeInv,
         \/ \E r \in Requests : Send(r)
         \/ Arrive \/ Receive \/ Start \/ Stop
  PROVE  TypeInv'
<1> USE DEF TypeInv, TypeOK, ControlOK
<1>1. ASSUME NEW r \in Requests, Send(r) PROVE TypeInv'
  <2>1. inbound' \in Seq(Requests) /\ partial' \in BOOLEAN
    BY <1>1, AppendProperties DEF Send
  <2>2. QED BY <1>1, <2>1 DEF Send, keyVars, serverVars, historyVars
<1>2. CASE Arrive
  BY <1>2 DEF Arrive, keyVars, serverVars, historyVars
<1>3. CASE Receive
  <2>1. wire' \in Seq(Frames)
    BY <1>3, HeadTailProperties DEF Receive
  <2>2. QED BY <1>3, <2>1 DEF Receive, keyVars, serverVars, readVars, historyVars
<1>4. CASE Start
  <2>1. seen' \in [Slots -> 0 .. GenerationModulus - 1]
    BY <1>4, BoundAssumption DEF Start
  <2>2. QED BY <1>4, <2>1 DEF Start, readVars
<1>5. CASE Stop
  BY <1>5, CloseType DEF Stop
<1>6. QED BY <1>1, <1>2, <1>3, <1>4, <1>5

LEMMA ReadStepType ==
  ASSUME TypeInv, ReadRequest \/ ReadPending \/ ReadTorn \/ PollNotifier
  PROVE  TypeInv'
<1> USE DEF TypeInv, TypeOK, ControlOK
<1>1. Complete => Head(inbound) \in Requests /\ Tail(inbound) \in Seq(Requests)
  BY HeadTailProperties DEF Complete
<1>2. CASE ReadRequest
  BY <1>1, <1>2 DEF ReadRequest, keyVars, historyVars
<1>3. CASE ReadPending
  BY <1>3 DEF ReadPending, keyVars, historyVars
<1>4. CASE ReadTorn
  BY <1>1, <1>4, CloseType DEF ReadTorn, keyVars, historyVars
<1>5. CASE PollNotifier
  BY <1>5 DEF PollNotifier, historyVars
<1>6. QED BY <1>2, <1>3, <1>4, <1>5

LEMMA HandleStepType ==
  ASSUME TypeInv, Refuse \/ Describe \/ Get \/ Write \/ Observe \/ Unobserve
  PROVE  TypeInv'
<1> USE DEF TypeInv, TypeOK, ControlOK, Answer
<1>1. CASE Refuse \/ Describe
  BY <1>1 DEF Refuse, Describe, keyVars, readVars, historyVars
<1>2. CASE Get
  <2>1. FindSlot(request.keyref) \in Slots
    BY <1>2, AnsweredHasSlot DEF Get
  <2>2. QED BY <1>2, <2>1 DEF Get, keyVars, readVars, historyVars
<1>3. CASE Write
  <2> DEFINE s == FindSlot(request.keyref)
  <2>1. s \in Slots
    BY <1>3, AnsweredHasSlot DEF Write
  <2>2. value' \in [Slots -> Nat] /\ value'[s] \in Nat
    BY <1>3, <2>1 DEF Write, Store
  <2>3. writer' \in [Writers -> Steps]
    BY <1>3, <2>1 DEF Write, Store, Steps, At
  <2>4. result' \in Nat
    BY <1>3, <2>2 DEF Write
  <2>5. QED BY <1>3, <2>2, <2>3, <2>4 DEF Write, readVars, historyVars
<1>4. CASE Observe
  <2>1. FindSlot(request.keyref) \in Slots
    BY <1>4, AnsweredHasSlot DEF Observe
  <2>2. QED BY <1>4, <2>1 DEF Observe, keyVars, readVars, historyVars
<1>5. CASE Unobserve
  <2>1. HasSlot(request.keyref) => FindSlot(request.keyref) \in Slots
    BY FindSlotFinds
  <2>2. QED BY <1>5, <2>1 DEF Unobserve, keyVars, readVars, historyVars
<1>6. QED BY <1>1, <1>2, <1>3, <1>4, <1>5

LEMMA SendStepType ==
  ASSUME TypeInv, Reply \/ FlushSlot \/ FlushDone \/ SendChanged
  PROVE  TypeInv'
<1> USE DEF TypeInv, TypeOK, ControlOK
<1>1. CASE Reply
  <2>1. wire' \in Seq(Frames)
    BY <1>1, ResponseType, AppendProperties DEF Reply
  <2>2. /\ acked' \in [Slots -> BOOLEAN]
        /\ known' \in [Slots -> Nat \cup {-1}]
        /\ told' \in [Slots -> BOOLEAN]
    BY <1>1, FindSlotFinds DEF Reply, Record, historyVars
  <2>3. QED BY <1>1, <2>1, <2>2 DEF Reply, keyVars, readVars
<1>2. CASE FlushSlot
  <2>1. cursor \in Slots
    BY <1>2, RegistryAssumption DEF FlushSlot, Slots
  <2>2. CASE MustReport(cursor)
    <3>1. seen' \in [Slots -> 0 .. GenerationModulus - 1]
      BY <1>2, <2>1, <2>2 DEF FlushSlot
    <3>2. QED BY <1>2, <2>1, <2>2, <3>1 DEF FlushSlot, keyVars, readVars, historyVars
  <2>3. CASE ~MustReport(cursor)
    <3>1. cursor' \in 1 .. NumSlots + 1
      BY <1>2, <2>1, <2>3, RegistryAssumption DEF FlushSlot, Slots
    <3>2. QED BY <1>2, <2>3, <3>1 DEF FlushSlot, keyVars, readVars, historyVars
  <2>4. QED BY <2>2, <2>3
<1>3. CASE FlushDone
  <2>1. cursor' \in 1 .. NumSlots + 1
    BY <1>3, RegistryAssumption DEF FlushDone
  <2>2. QED BY <1>3, <2>1 DEF FlushDone, keyVars, readVars, historyVars
<1>4. CASE SendChanged
  <2>1. cursor \in Slots /\ cursor + 1 \in 1 .. NumSlots + 1
    BY <1>4, RegistryAssumption DEF SendChanged, Slots
  <2>2. wire' \in Seq(Frames)
    BY <1>4, <2>1, AppendProperties DEF SendChanged, Frames
  <2>3. QED BY <1>4, <2>1, <2>2 DEF SendChanged, keyVars, readVars
<1>5. QED BY <1>1, <1>2, <1>3, <1>4

LEMMA StepType == TypeInv /\ [Next]_vars => TypeInv'
<1> SUFFICES ASSUME TypeInv, [Next]_vars PROVE TypeInv'
  OBVIOUS
<1>1. CASE UNCHANGED vars
  BY <1>1 DEF TypeInv, TypeOK, ControlOK, vars, keyVars, serverVars, readVars, historyVars
<1>2. CASE Next
  BY <1>2, KeyStepType, TransportStepType, ReadStepType, HandleStepType,
     SendStepType DEF Next, Run
<1>3. QED BY <1>1, <1>2

\* Every variable keeps its type: run never indexes outside the registry and
\* never replies without a request.
THEOREM TypeCorrect == Spec => []TypeOK
<1>1. Spec => []TypeInv
  BY InitType, StepType, PTL DEF Spec
<1>2. TypeInv => TypeOK
  BY DEF TypeInv
<1>3. QED BY <1>1, <1>2, PTL

-----------------------------------------------------------------------------
(* Observation.                                                            *)

\* The request in hand has changed the observation of slot s.
Toggles(op, s) ==
  /\ pc = "reply" /\ request.op = op /\ ErrorCode(request) = 0
  /\ HasSlot(request.keyref) /\ FindSlot(request.keyref) = s

\* The server's `observed` agrees with the last `k` that the client was sent,
\* except while the `k` that will make them agree is being sent; and a `!`
\* is sent for an observed slot.
ObservationInv ==
  /\ \A s \in Slots :
       /\ pc # "stopped" /\ observed[s] # acked[s] =>
            Toggles("observe", s) \/ Toggles("unobserve", s)
       /\ Toggles("observe", s) => observed[s]
       /\ Toggles("unobserve", s) => ~observed[s]
  /\ pc = "changed" => observed[cursor]

LEMMA InitObservation == Init => ObservationInv
BY DEF Init, ObservationInv, Toggles

LEMMA StepObservation ==
  TypeInv /\ ObservationInv /\ [Next]_vars => ObservationInv'
<1> SUFFICES ASSUME TypeInv, ObservationInv, [Next]_vars PROVE ObservationInv'
  OBVIOUS
<1> USE DEF TypeInv, TypeOK, ControlOK, ObservationInv, Toggles
<1>1. ASSUME UNCHANGED <<pc, request, cursor, observed, acked>> PROVE ObservationInv'
  BY <1>1
<1>2. ASSUME pc' = "stopped" PROVE ObservationInv'
  BY <1>2
<1>3. CASE UNCHANGED vars
  BY <1>1, <1>3 DEF vars, serverVars, historyVars
<1>4. ASSUME \/ \E t \in Tasks, s \in Slots : Set(t, s)
             \/ \E w \in Writers : Bump(w) \/ Signal(w)
             \/ \E r \in Requests : Send(r)
             \/ Arrive \/ Receive
      PROVE  ObservationInv'
  BY <1>1, <1>4
     DEF Set, Bump, Signal, Send, Arrive, Receive, serverVars, historyVars
<1>5. CASE Start
  BY <1>5 DEF Start
<1>6. CASE Stop
  BY <1>2, <1>6 DEF Stop, Close
<1>7. ASSUME ReadRequest \/ ReadPending \/ PollNotifier PROVE ObservationInv'
  BY <1>7 DEF ReadRequest, ReadPending, PollNotifier, historyVars
<1>8. CASE ReadTorn
  BY <1>2, <1>8 DEF ReadTorn, Close, historyVars
<1>9. CASE Refuse
  BY <1>9 DEF Refuse, historyVars
<1>10. ASSUME Describe \/ Get \/ Write PROVE ObservationInv'
  <2>1. request.op \notin {"observe", "unobserve"} /\ pc = "handle" /\ pc' = "reply"
    BY <1>10 DEF Describe, Get, Write, Answer, KeylessOps
  <2>2. UNCHANGED <<request, observed, acked, cursor>>
    BY <1>10 DEF Describe, Get, Write, historyVars
  <2>3. QED BY <2>1, <2>2
<1>11. CASE Observe
  <2> DEFINE s == FindSlot(request.keyref)
  <2>1. s \in Slots /\ HasSlot(request.keyref)
    BY <1>11, AnsweredHasSlot DEF Observe, Answer
  <2>2. /\ pc = "handle" /\ pc' = "reply"
        /\ request.op = "observe" /\ ErrorCode(request) = 0
        /\ observed' = [observed EXCEPT ![s] = TRUE]
        /\ UNCHANGED <<request, acked, cursor>>
    BY <1>11 DEF Observe, Answer, historyVars
  <2>3. QED BY <2>1, <2>2
<1>12. CASE Unobserve
  <2> DEFINE s == FindSlot(request.keyref)
  <2>1. HasSlot(request.keyref) => s \in Slots
    BY FindSlotFinds
  <2>2. /\ pc = "handle" /\ pc' = "reply"
        /\ request.op = "unobserve" /\ ErrorCode(request) = 0
        /\ UNCHANGED <<request, acked, cursor>>
        /\ IF HasSlot(request.keyref)
             THEN observed' = [observed EXCEPT ![s] = FALSE]
             ELSE UNCHANGED observed
    BY <1>12 DEF Unobserve, Answer, historyVars
  <2>3. QED BY <2>1, <2>2
<1>13. CASE Reply
  <2> DEFINE s == FindSlot(request.keyref)
  <2>1. pc = "reply" /\ pc' \in {"flush", "poll"} /\ UNCHANGED observed
    BY <1>13 DEF Reply
  <2>2. HasSlot(request.keyref) => s \in Slots
    BY FindSlotFinds
  <2>3. CASE ErrorCode(request) = 0 /\ HasSlot(request.keyref)
             /\ request.op \in {"observe", "unobserve"}
    <3>1. acked' = [acked EXCEPT ![s] = (request.op = "observe")]
      BY <1>13, <2>3 DEF Reply, Record
    <3>2. acked'[s] = observed[s]
      BY <2>1, <2>2, <2>3, <3>1
    <3>3. \A t \in Slots : acked'[t] = observed[t]
      BY <2>1, <2>2, <2>3, <3>1, <3>2
    <3>4. QED BY <2>1, <3>3
  <2>4. CASE ~(ErrorCode(request) = 0 /\ HasSlot(request.keyref)
               /\ request.op \in {"observe", "unobserve"})
    <3>1. UNCHANGED acked
      BY <1>13, <2>4 DEF Reply, Record, historyVars
    <3>2. QED BY <2>1, <2>4, <3>1
  <2>5. QED BY <2>3, <2>4
<1>14. CASE FlushSlot
  BY <1>14 DEF FlushSlot, MustReport, historyVars
<1>15. ASSUME FlushDone \/ SendChanged PROVE ObservationInv'
  BY <1>15 DEF FlushDone, SendChanged, historyVars
<1>16. QED BY <1>3, <1>4, <1>5, <1>6, <1>7, <1>8, <1>9, <1>10, <1>11, <1>12,
              <1>13, <1>14, <1>15 DEF Next, Run

\* A `!` is sent only while the client has been told that the key is
\* observed: no `!` follows the `k` of UNOBSERVE, or a reconnection.
THEOREM ObservationSafe == Spec => ChangedOnlyWhileObserved
<1> DEFINE P == \A s \in Slots : wire' = Append(wire, Changed(s)) =>
                  \E t \in Slots : Keyref[t] = Keyref[s] /\ acked[t]
<1>1. TypeInv /\ ObservationInv /\ [Next]_vars => [P]_vars
  <2> SUFFICES ASSUME TypeInv, ObservationInv, Next, NEW s \in Slots,
                      wire' = Append(wire, Changed(s))
               PROVE  \E t \in Slots : Keyref[t] = Keyref[s] /\ acked[t]
    OBVIOUS
  <2>1. wire \in Seq(Frames) /\ Changed(s) \in Frames
    BY DEF TypeInv, TypeOK, Frames
  <2>2. wire' # wire /\ wire' # <<>> /\ (wire # <<>> => wire' # Tail(wire))
    BY <2>1, AppendProperties, HeadTailProperties, LenProperties
  <2>3. Reply \/ SendChanged
    BY <2>2 DEF Next, Run, Set, Bump, Signal, Send, Arrive, Receive, Start, Stop,
       Close, ReadRequest, ReadPending, ReadTorn, PollNotifier, Refuse, Describe,
       Get, Write, Observe, Unobserve, FlushSlot, FlushDone
  <2>4. ~Reply
    <3> SUFFICES ASSUME Reply PROVE FALSE
      OBVIOUS
    <3>1. Response(request, result) \in Frames
      BY ResponseType DEF Reply, TypeInv, TypeOK, ControlOK
    <3>2. Response(request, result) = Changed(s)
      <4>1. Append(wire, Response(request, result)) = Append(wire, Changed(s))
        BY DEF Reply
      <4>2. QED BY <2>1, <3>1, <4>1, LastFrame
    <3>3. Response(request, result).opcode # "CHANGED"
      BY ClientAssumption
      DEF Reply, Response, ReplyOpcode, TypeInv, TypeOK, ControlOK, Request,
          KeylessOps, KeyedOps
    <3>4. QED BY <3>2, <3>3 DEF Changed
  <2>5. cursor \in Slots /\ Changed(cursor) = Changed(s) /\ acked[cursor]
    <3>1. pc = "changed" /\ cursor \in Slots /\ wire' = Append(wire, Changed(cursor))
      BY <2>3, <2>4 DEF SendChanged, TypeInv, ControlOK
    <3>2. acked[cursor]
      BY <3>1 DEF ObservationInv, Toggles, TypeInv, TypeOK
    <3>3. Changed(cursor) \in Frames
      BY <3>1 DEF Frames
    <3>4. Changed(cursor) = Changed(s)
      <4>1. Append(wire, Changed(cursor)) = Append(wire, Changed(s))
        BY <3>1
      <4>2. QED BY <2>1, <3>3, <4>1, LastFrame
    <3>5. QED BY <3>1, <3>2, <3>4
  <2>6. QED BY <2>5 DEF Changed
<1>2. Spec => [](TypeInv /\ ObservationInv)
  BY InitType, StepType, InitObservation, StepObservation, PTL DEF Spec
<1>3. QED BY <1>1, <1>2, PTL DEF Spec, ChangedOnlyWhileObserved

-----------------------------------------------------------------------------
(* Wakeups.                                                                *)

\* NoLostWakeup, with what makes it inductive: a running server has attached
\* its notifier to the keys, and every flush begins at the first slot.
WakeupInv ==
  /\ NoLostWakeup
  /\ pc # "stopped" => attached
  /\ pc \notin {"flush", "changed"} => cursor = 1

\* The steps of notify_changed are told apart.
LEMMA StepsDiffer ==
  ASSUME NEW p, NEW s
  PROVE  At(p, s).step = p /\ At(p, s).slot = s /\ Idle.step = "idle"
BY DEF At, Idle

LEMMA InitWakeup == Init => WakeupInv
BY DEF Init, WakeupInv, NoLostWakeup

\* The steps of a writer hand an unreported change on to the notifier.
LEMMA KeyStepWakeup ==
  ASSUME TypeInv, WakeupInv,
         \/ \E t \in Tasks, s \in Slots : Set(t, s)
         \/ \E w \in Writers : Bump(w) \/ Signal(w)
  PROVE  WakeupInv'
<1> USE DEF TypeInv, TypeOK, WakeupInv, NoLostWakeup
<1>1. ASSUME NEW t \in Tasks, NEW s \in Slots, Set(t, s) PROVE WakeupInv'
  <2>1. writer[t] = Idle /\ writer' = [writer EXCEPT ![t] = At("bump", s)]
    BY <1>1 DEF Set, Store
  <2>2. \A w \in Writers, u \in Slots : writer[w] = At("signal", u) =>
                                          writer'[w] = At("signal", u)
    <3>1. \A u \in Slots : At("signal", u).step # Idle.step
      BY StepsDiffer
    <3>2. QED BY <2>1, <3>1
  <2>3. QED BY <1>1, <2>2, RegistryAssumption DEF Set, serverVars
<1>2. ASSUME NEW w \in Writers, Bump(w) PROVE WakeupInv'
  <2> DEFINE u == writer[w].slot
  <2>1. u \in Slots
    BY <1>2 DEF Bump, Steps, Idle
  <2>2. u \in Observable => writer'[w] = At("signal", u)
    BY <1>2 DEF Bump
  <2>3. \A v \in Writers, s \in Slots : writer[v] = At("signal", s) =>
                                          writer'[v] = At("signal", s)
    <3>1. \A s \in Slots : At("signal", s).step # "bump"
      BY StepsDiffer
    <3>2. QED BY <1>2, <3>1 DEF Bump
  <2>4. \A s \in Slots : s # u => generation'[s] = generation[s]
    BY <1>2 DEF Bump
  <2>5. UNCHANGED <<attached, notified, serverVars>>
    BY <1>2 DEF Bump
  <2>6. QED BY <2>1, <2>2, <2>3, <2>4, <2>5, RegistryAssumption DEF serverVars
<1>3. ASSUME NEW w \in Writers, Signal(w) PROVE WakeupInv'
  BY <1>3 DEF Signal, serverVars
<1>4. QED BY <1>1, <1>2, <1>3

\* The steps of the server either keep what they owe or begin a flush.
LEMMA ServerStepWakeup ==
  ASSUME TypeInv, WakeupInv, Run
  PROVE  WakeupInv'
<1> USE DEF TypeInv, TypeOK, WakeupInv, NoLostWakeup
<1>1. ASSUME pc' = "stopped", cursor' = 1 PROVE WakeupInv'
  BY <1>1
<1>2. CASE ReadRequest \/ ReadPending
  BY <1>2 DEF ReadRequest, ReadPending, keyVars
<1>3. CASE ReadTorn
  <2>1. CASE Close
    BY <1>1, <2>1 DEF Close
  <2>2. CASE ~Close
    <3>1. /\ pc = "poll" /\ pc' \in {"notify", "handle"}
          /\ UNCHANGED <<keyVars, observed, seen, cursor>>
      BY <1>3, <2>2 DEF ReadTorn
    <3>2. QED BY <3>1 DEF keyVars
  <2>3. QED BY <2>1, <2>2
<1>4. CASE PollNotifier
  <2>1. CASE notified
    <3>1. pc' = "flush" /\ cursor' = 1 /\ UNCHANGED attached /\ attached
      BY <1>4, <2>1 DEF PollNotifier
    <3>2. \A s \in Observable : cursor' <= s
      BY <3>1, RegistryAssumption DEF Slots
    <3>3. QED BY <3>1, <3>2
  <2>2. CASE ~notified
    BY <1>4, <2>2 DEF PollNotifier
  <2>3. QED BY <2>1, <2>2
<1>5. CASE Refuse \/ Describe \/ Get \/ Write \/ Observe \/ Unobserve
  <2>1. pc = "handle" /\ pc' = "reply" /\ UNCHANGED <<cursor, attached>>
    BY <1>5 DEF Refuse, Describe, Get, Write, Observe, Unobserve, Answer, keyVars
  <2>2. QED BY <2>1
<1>6. CASE Reply
  <2>1. pc = "reply" /\ UNCHANGED <<cursor, attached>>
    BY <1>6 DEF Reply, keyVars
  <2>2. CASE HasObservableKeys
    <3>1. pc' = "flush"
      BY <1>6, <2>2 DEF Reply
    <3>2. \A s \in Observable : cursor' <= s
      BY <2>1, RegistryAssumption DEF Slots
    <3>3. QED BY <2>1, <3>1, <3>2
  <2>3. CASE ~HasObservableKeys
    BY <1>6, <2>1, <2>3 DEF Reply, HasObservableKeys
  <2>4. QED BY <2>2, <2>3
<1>7. CASE FlushSlot
  <2>1. pc = "flush" /\ cursor \in Slots /\ UNCHANGED <<keyVars, observed>>
    BY <1>7 DEF FlushSlot, Slots
  <2>2. CASE MustReport(cursor)
    <3>1. pc' = "changed" /\ cursor' = cursor
          /\ seen' = [seen EXCEPT ![cursor] = generation[cursor]]
      BY <1>7, <2>2 DEF FlushSlot
    <3>2. \A s \in Observable : s # cursor => seen'[s] = seen[s]
      BY <3>1, RegistryAssumption
    <3>3. \A s \in Observable : s # cursor /\ cursor <= s => cursor' < s
      BY <2>1, <3>1, RegistryAssumption DEF Slots
    <3>4. seen'[cursor] = generation'[cursor]
      BY <2>1, <3>1 DEF keyVars
    <3>5. QED BY <2>1, <3>1, <3>2, <3>3, <3>4 DEF keyVars
  <2>3. CASE ~MustReport(cursor)
    <3>1. pc' = pc /\ cursor' = cursor + 1 /\ seen' = seen
      BY <1>7, <2>3 DEF FlushSlot
    <3>2. \A s \in Observable : s # cursor /\ cursor <= s => cursor' <= s
      BY <2>1, <3>1, RegistryAssumption DEF Slots
    <3>3. QED BY <2>1, <2>3, <3>1, <3>2 DEF keyVars, MustReport
  <2>4. QED BY <2>2, <2>3
<1>8. CASE FlushDone
  <2>1. \A s \in Observable : ~(cursor <= s)
    BY <1>8, RegistryAssumption DEF FlushDone, Slots
  <2>2. QED BY <1>8, <2>1 DEF FlushDone, keyVars
<1>9. CASE SendChanged
  <2>1. \A s \in Observable : cursor < s => cursor' <= s
    BY <1>9, RegistryAssumption DEF SendChanged, Slots
  <2>2. QED BY <1>9, <2>1 DEF SendChanged, keyVars
<1>10. QED BY <1>2, <1>3, <1>4, <1>5, <1>6, <1>7, <1>8, <1>9 DEF Run

LEMMA StepWakeup == TypeInv /\ WakeupInv /\ [Next]_vars => WakeupInv'
<1> SUFFICES ASSUME TypeInv, WakeupInv, [Next]_vars PROVE WakeupInv'
  OBVIOUS
<1> USE DEF WakeupInv, NoLostWakeup
<1>1. CASE UNCHANGED vars \/ Arrive \/ Receive \/ \E r \in Requests : Send(r)
  <2>1. UNCHANGED <<keyVars, serverVars>>
    BY <1>1 DEF vars, Arrive, Receive, Send
  <2>2. QED BY <2>1 DEF keyVars, serverVars
<1>2. CASE Start
  <2>1. \A s \in Observable : ~observed'[s]
    BY <1>2, RegistryAssumption DEF Start
  <2>2. attached' /\ cursor' = 1
    BY <1>2 DEF Start
  <2>3. QED BY <2>1, <2>2
<1>3. CASE Stop
  BY <1>3 DEF Stop, Close
<1>4. QED BY <1>1, <1>2, <1>3, KeyStepWakeup, ServerStepWakeup DEF Next

\* The server never sleeps on a change of an observed key: the notifier will
\* wake it, or it is on its way to flush.
THEOREM WakeupSafe == Spec => []NoLostWakeup
<1>1. Spec => []WakeupInv
  BY InitType, StepType, InitWakeup, StepWakeup, PTL DEF Spec
<1>2. WakeupInv => NoLostWakeup
  BY DEF WakeupInv
<1>3. QED BY <1>1, <1>2, PTL

-----------------------------------------------------------------------------
(* That the server loses no change: a client's value that is out of date   *)
(* differs from the server's snapshot of the generation, or will once the  *)
(* store has been counted.                                                 *)

\* Fewer stores to a key than its generation has values.
NoWrap == MaxUpdates + MaxRequests < GenerationModulus

-----------------------------------------------------------------------------
(* Stores and generations.                                                 *)

\* The writers between their store to s and its fetch_add.
Bumping(s) == {w \in Writers : writer[w] = At("bump", s)}

\* The requests that were sent and have not been answered or lost.
Awaited == Len(inbound) + (IF pc = "handle" THEN 1 ELSE 0)

\* Each store is in the generation, or its writer has yet to count it; the
\* server stores once for a request at most.
CountInv ==
  /\ sent <= MaxRequests
  /\ Awaited <= sent
  /\ \A s \in Slots :
       /\ value[s] <= MaxUpdates + (sent - Awaited)
       /\ IsFiniteSet(Bumping(s))
       /\ value[s] = generation[s] + Cardinality(Bumping(s))

\* Places of writers in different slots differ.
LEMMA PlacesDiffer ==
  ASSUME NEW p, NEW q, NEW s, NEW u, At(p, s) = At(q, u)
  PROVE  p = q /\ s = u
BY DEF At

\* A store adds its writer to those that have yet to count.
LEMMA StoreCounts ==
  ASSUME TypeInv, NEW w \in Writers, NEW s \in Slots, Store(w, s), UNCHANGED generation,
         NEW u \in Slots, IsFiniteSet(Bumping(u)),
         value[u] = generation[u] + Cardinality(Bumping(u))
  PROVE  /\ IsFiniteSet(Bumping(u)')
         /\ value'[u] = generation'[u] + Cardinality(Bumping(u)')
         /\ value'[u] = IF u = s THEN value[u] + 1 ELSE value[u]
<1>1. value \in [Slots -> Nat] /\ writer \in [Writers -> Steps]
      /\ generation \in [Slots -> 0 .. GenerationModulus - 1]
  BY DEF TypeInv, TypeOK
<1>2. value'[u] = IF u = s THEN value[u] + 1 ELSE value[u]
  BY <1>1 DEF Store
<1>3. /\ writer[w] = Idle /\ writer'[w] = At("bump", s)
      /\ \A v \in Writers \ {w} : writer'[v] = writer[v]
  BY <1>1 DEF Store
<1>4. Idle # At("bump", u)
  BY StepsDiffer
<1>5. CASE u = s
  <2>1. Bumping(u)' = Bumping(u) \cup {w} /\ w \notin Bumping(u)
    BY <1>3, <1>4, <1>5 DEF Bumping
  <2>2. /\ IsFiniteSet(Bumping(u) \cup {w})
        /\ Cardinality(Bumping(u) \cup {w}) = Cardinality(Bumping(u)) + 1
        /\ Cardinality(Bumping(u)) \in Nat
    BY <2>1, FS_AddElement, FS_CardinalityType
  <2>3. QED BY <1>1, <1>2, <1>5, <2>1, <2>2
<1>6. CASE u # s
  <2>1. At("bump", s) # At("bump", u)
    BY <1>6, PlacesDiffer
  <2>2. Bumping(u)' = Bumping(u)
    BY <1>3, <1>4, <2>1 DEF Bumping
  <2>3. QED BY <1>2, <1>6, <2>2
<1>7. QED BY <1>2, <1>5, <1>6

LEMMA InitCount == Init => CountInv
<1> SUFFICES ASSUME Init PROVE CountInv
  OBVIOUS
<1>1. Awaited = 0 /\ sent = 0
  BY LenProperties DEF Init, Awaited
<1>2. ASSUME NEW s \in Slots PROVE Bumping(s) = {}
  BY StepsDiffer DEF Init, Bumping
<1>3. IsFiniteSet({}) /\ Cardinality({}) = 0
  BY FS_EmptySet
<1>4. \A s \in Slots : value[s] = 0 /\ generation[s] = 0
  BY DEF Init
<1>5. QED BY <1>1, <1>2, <1>3, <1>4, BoundAssumption DEF CountInv

\* A fetch_add counts its writer's store, and does not wrap.
LEMMA BumpCounts ==
  ASSUME NoWrap, TypeInv, CountInv, NEW w \in Writers, Bump(w), NEW u \in Slots
  PROVE  /\ generation'[u] \in {generation[u], generation[u] + 1}
         /\ IsFiniteSet(Bumping(u)')
         /\ value'[u] = generation'[u] + Cardinality(Bumping(u)')
<1>1. /\ inbound \in Seq(Requests) /\ sent \in Nat /\ value \in [Slots -> Nat]
      /\ generation \in [Slots -> 0 .. GenerationModulus - 1]
      /\ writer \in [Writers -> Steps]
  BY DEF TypeInv, TypeOK
<1>2. Awaited \in Nat
  BY <1>1, LenProperties DEF Awaited
<1>3. MaxUpdates \in Nat /\ MaxRequests \in Nat /\ GenerationModulus \in Nat
  BY BoundAssumption
<1>4. PICK s \in Slots : writer[w] = At("bump", s) /\ writer[w].slot = s
  <2>1. writer[w].slot \in Slots /\ writer[w] = At("bump", writer[w].slot)
    BY <1>1 DEF Bump, Steps, At, Idle
  <2>2. QED BY <2>1
<1>5. /\ generation' = [generation EXCEPT ![s] = (@ + 1) % GenerationModulus]
      /\ writer'[w] \in {At("signal", s), Idle}
      /\ \A v \in Writers \ {w} : writer'[v] = writer[v]
      /\ value' = value
  BY <1>1, <1>4 DEF Bump
<1>6. \A v : writer'[w] # At("bump", v)
  BY <1>5, StepsDiffer
<1>7. CASE u = s
  <2>1. Bumping(s)' = Bumping(s) \ {w} /\ w \in Bumping(s)
    BY <1>4, <1>5, <1>6 DEF Bumping
  <2>2. IsFiniteSet(Bumping(s)) /\ value[s] = generation[s] + Cardinality(Bumping(s))
    BY <1>4 DEF CountInv
  <2>3. /\ Cardinality(Bumping(s)) \in Nat /\ Cardinality(Bumping(s)) # 0
        /\ Cardinality(Bumping(s) \ {w}) = Cardinality(Bumping(s)) - 1
        /\ IsFiniteSet(Bumping(s) \ {w})
    BY <2>1, <2>2, FS_RemoveElement, FS_CardinalityType, FS_EmptySet
  <2>4. generation[s] + 1 < GenerationModulus
    BY <1>1, <1>2, <1>3, <1>4, <2>2, <2>3 DEF CountInv, NoWrap
  <2>5. generation'[s] = generation[s] + 1
    <3>1. ASSUME NEW n \in Nat, n < GenerationModulus PROVE n % GenerationModulus = n
      BY <1>3, <3>1
    <3>2. generation[s] + 1 \in Nat
      BY <1>1, <1>4
    <3>3. QED BY <1>1, <1>4, <1>5, <2>4, <3>1, <3>2
  <2>6. value'[s] = generation'[s] + Cardinality(Bumping(s)')
    BY <1>1, <1>4, <1>5, <2>1, <2>2, <2>3, <2>5
  <2>7. QED BY <1>7, <2>1, <2>3, <2>5, <2>6
<1>8. CASE u # s
  <2>1. At("bump", u) # At("bump", s)
    BY <1>8, PlacesDiffer
  <2>2. Bumping(u)' = Bumping(u) /\ generation'[u] = generation[u]
    BY <1>1, <1>4, <1>5, <1>6, <1>8, <2>1 DEF Bumping
  <2>3. QED BY <1>5, <2>2 DEF CountInv
<1>9. QED BY <1>7, <1>8

LEMMA StepCount ==
  ASSUME NoWrap
  PROVE  TypeInv /\ CountInv /\ [Next]_vars => CountInv'
<1> SUFFICES ASSUME TypeInv, CountInv, [Next]_vars PROVE CountInv'
  OBVIOUS
<1>1. /\ inbound \in Seq(Requests) /\ sent \in Nat /\ value \in [Slots -> Nat]
      /\ generation \in [Slots -> 0 .. GenerationModulus - 1]
      /\ writer \in [Writers -> Steps]
  BY DEF TypeInv, TypeOK
<1>2. Awaited \in Nat /\ Len(inbound) \in Nat
  BY <1>1, LenProperties DEF Awaited
<1>3. MaxUpdates \in Nat /\ MaxRequests \in Nat /\ GenerationModulus \in Nat
  BY BoundAssumption
\* Steps that store nothing and leave no more requests unanswered.
<1>4. ASSUME UNCHANGED <<value, generation, writer, sent>>,
             Awaited' \in Nat, Awaited' <= Awaited
      PROVE  CountInv'
  <2>1. \A s \in Slots : Bumping(s)' = Bumping(s)
    BY <1>4 DEF Bumping
  <2>2. QED BY <1>1, <1>2, <1>3, <1>4, <2>1 DEF CountInv
<1>5. ASSUME NEW t \in Tasks, NEW s \in Slots, Set(t, s) PROVE CountInv'
  <2>1. t \in Writers /\ Store(t, s) /\ UNCHANGED <<generation, sent, inbound, pc>>
        /\ value[s] < MaxUpdates
    BY <1>5 DEF Set, Writers, serverVars, readVars
  <2>2. Awaited' = Awaited
    BY <2>1 DEF Awaited
  <2>3. ASSUME NEW u \in Slots
        PROVE  /\ IsFiniteSet(Bumping(u)')
               /\ value'[u] = generation'[u] + Cardinality(Bumping(u)')
               /\ value'[u] = IF u = s THEN value[u] + 1 ELSE value[u]
    BY <2>1, StoreCounts DEF CountInv
  <2>4. \A u \in Slots : value'[u] <= MaxUpdates + (sent - Awaited)
    BY <1>1, <1>2, <1>3, <2>1, <2>3 DEF CountInv
  <2>5. QED BY <2>1, <2>2, <2>3, <2>4 DEF CountInv
<1>6. CASE Write
  <2> DEFINE s == FindSlot(request.keyref)
  <2>1. s \in Slots
    BY <1>6, AnsweredHasSlot DEF Write, Answer
  <2>2. ServerTask \in Writers /\ Store(ServerTask, s) /\ UNCHANGED <<generation, sent, inbound>>
        /\ pc = "handle" /\ pc' = "reply"
    BY <1>6 DEF Write, Answer, Writers, readVars
  <2>3. Awaited' = Awaited - 1
    BY <1>2, <2>2 DEF Awaited
  <2> HIDE DEF s
  <2>4. ASSUME NEW u \in Slots
        PROVE  /\ IsFiniteSet(Bumping(u)')
               /\ value'[u] = generation'[u] + Cardinality(Bumping(u)')
               /\ value'[u] = IF u = s THEN value[u] + 1 ELSE value[u]
    BY <2>1, <2>2, StoreCounts DEF CountInv
  <2>5. \A u \in Slots : value'[u] <= MaxUpdates + (sent - Awaited')
    BY <1>1, <1>2, <1>3, <2>3, <2>4 DEF CountInv
  <2>6. QED BY <1>1, <1>2, <2>2, <2>3, <2>4, <2>5 DEF CountInv
<1>7. ASSUME NEW w \in Writers, Bump(w) PROVE CountInv'
  <2>1. UNCHANGED <<value, sent, inbound, pc>>
    BY <1>7 DEF Bump, serverVars, readVars
  <2>2. Awaited' = Awaited
    BY <2>1 DEF Awaited
  <2>3. \A u \in Slots : /\ IsFiniteSet(Bumping(u)')
                         /\ value'[u] = generation'[u] + Cardinality(Bumping(u)')
    BY <1>7, BumpCounts
  <2>4. QED BY <2>1, <2>2, <2>3 DEF CountInv
<1>8. ASSUME NEW w \in Writers, Signal(w) PROVE CountInv'
  <2>1. /\ writer[w].step = "signal" /\ writer' = [writer EXCEPT ![w] = Idle]
        /\ UNCHANGED <<value, generation, sent, inbound, pc>>
    BY <1>8 DEF Signal, serverVars, readVars
  <2>2. ASSUME NEW s \in Slots PROVE Bumping(s)' = Bumping(s)
    <3>1. writer[w] # At("bump", s) /\ writer'[w] # At("bump", s)
      BY <1>1, <2>1, StepsDiffer
    <3>2. QED BY <1>1, <2>1, <3>1 DEF Bumping
  <2>3. Awaited' = Awaited
    BY <2>1 DEF Awaited
  <2>4. QED BY <2>1, <2>2, <2>3 DEF CountInv
<1>9. ASSUME NEW r \in Requests, Send(r) PROVE CountInv'
  <2>1. /\ sent < MaxRequests /\ sent' = sent + 1
        /\ inbound' = Append(inbound, r)
        /\ UNCHANGED <<value, generation, writer, pc>>
    BY <1>9 DEF Send, keyVars, serverVars
  <2>2. Len(inbound') = Len(inbound) + 1
    BY <1>1, <2>1, AppendProperties
  <2>3. Awaited' = Awaited + 1
    BY <1>2, <2>1, <2>2 DEF Awaited
  <2>4. \A s \in Slots : Bumping(s)' = Bumping(s)
    BY <2>1 DEF Bumping
  <2>5. QED BY <1>1, <1>2, <1>3, <2>1, <2>3, <2>4 DEF CountInv
<1>10. ASSUME UNCHANGED <<value, generation, writer, sent>>, inbound' = <<>>, pc' = "stopped"
       PROVE  CountInv'
  <2>1. Awaited' = 0
    BY <1>10 DEF Awaited
  <2>2. QED BY <1>2, <1>4, <1>10, <2>1
<1>11. ASSUME UNCHANGED <<value, generation, writer, sent>>, inbound # <<>>,
              inbound' = Tail(inbound), pc # "handle"
       PROVE  CountInv'
  <2>1. Len(inbound') = Len(inbound) - 1 /\ Len(inbound') \in Nat
    BY <1>1, <1>11, HeadTailProperties, LenProperties
  <2>2. Awaited' \in Nat /\ Awaited' <= Awaited
    BY <1>2, <1>11, <2>1 DEF Awaited
  <2>3. QED BY <1>4, <1>11, <2>2
<1>12. ASSUME UNCHANGED <<value, generation, writer, sent, inbound>>, pc' # "handle"
       PROVE  CountInv'
  <2>1. Awaited' \in Nat /\ Awaited' <= Awaited
    BY <1>2, <1>12 DEF Awaited
  <2>2. QED BY <1>4, <1>12, <2>1
<1>13. CASE UNCHANGED vars \/ Arrive \/ Receive
  <2>1. UNCHANGED <<value, generation, writer, sent, inbound, pc>>
    BY <1>13 DEF vars, Arrive, Receive, keyVars, serverVars, readVars
  <2>2. QED BY <1>2, <1>4, <2>1 DEF Awaited
<1>14. CASE Stop
  BY <1>10, <1>14 DEF Stop, Close, keyVars
<1>15. CASE ReadRequest
  BY <1>11, <1>15 DEF ReadRequest, Complete, keyVars
<1>16. CASE ReadTorn
  BY <1>10, <1>11, <1>16 DEF ReadTorn, Close, Complete, keyVars
<1>17. ASSUME \/ Start \/ ReadPending \/ PollNotifier
              \/ Refuse \/ Describe \/ Get \/ Observe \/ Unobserve
              \/ Reply \/ FlushSlot \/ FlushDone \/ SendChanged
       PROVE  CountInv'
  <2>1. UNCHANGED <<value, generation, writer, sent, inbound>> /\ pc' # "handle"
    BY <1>17
       DEF Start, ReadPending, PollNotifier, Refuse, Describe, Get, Observe, Unobserve,
           Answer, Reply, FlushSlot, FlushDone, SendChanged, keyVars, readVars
  <2>2. QED BY <1>12, <2>1
<1>18. QED
  BY <1>5, <1>6, <1>7, <1>8, <1>9, <1>13, <1>14, <1>15, <1>16, <1>17 DEF Next, Run

-----------------------------------------------------------------------------
(* Snapshots and what the client knows.                                    *)

\* The request in hand is answered with the value of slot s.
Fetches(s) ==
  /\ pc = "reply" /\ request.op \in {"get", "write"} /\ ErrorCode(request) = 0
  /\ FindSlot(request.keyref) = s

\* The server's snapshot of s is no newer than the value that the client has,
\* unless it is about to say that there is a newer one, or the client is about
\* to read again.
UpToSnapshot(s) ==
  \/ seen[s] <= known[s]
  \/ pc = "changed" /\ cursor = s
  \/ Toggles("observe", s) \/ Toggles("unobserve", s)

SnapshotInv ==
  \A s \in Slots :
    /\ seen[s] <= generation[s]
    /\ Fetches(s) => seen[s] <= result
    /\ pc # "stopped" /\ known[s] # -1 /\ ~told[s] => UpToSnapshot(s)

LEMMA InitSnapshot == Init => SnapshotInv
BY DEF Init, SnapshotInv, Fetches

LEMMA StepSnapshot ==
  ASSUME NoWrap
  PROVE  TypeInv /\ CountInv /\ SnapshotInv /\ [Next]_vars => SnapshotInv'
<1> SUFFICES ASSUME TypeInv, CountInv, SnapshotInv, [Next]_vars PROVE SnapshotInv'
  OBVIOUS
<1>1. /\ seen \in [Slots -> 0 .. GenerationModulus - 1]
      /\ generation \in [Slots -> 0 .. GenerationModulus - 1]
      /\ value \in [Slots -> Nat] /\ result \in Nat
      /\ known \in [Slots -> Nat \cup {-1}] /\ told \in [Slots -> BOOLEAN]
      /\ writer \in [Writers -> Steps]
  BY DEF TypeInv, TypeOK
<1>2. GenerationModulus \in Nat
  BY BoundAssumption
<1>3. \A s \in Slots : seen[s] <= generation[s]
  BY DEF SnapshotInv
\* What has been counted has been stored.
<1>4. \A s \in Slots : generation[s] <= value[s]
  BY <1>1, <1>2, FS_CardinalityType DEF CountInv
\* The keys do not concern the server's locals but for the generation.
<1>5. ASSUME UNCHANGED <<pc, request, result, seen, cursor, known, told>>,
             \A s \in Slots : generation[s] <= generation'[s] /\ generation'[s] \in Nat
      PROVE  SnapshotInv'
  BY <1>1, <1>2, <1>5 DEF SnapshotInv, Fetches, UpToSnapshot, Toggles
<1>6. ASSUME NEW w \in Writers, Bump(w) PROVE SnapshotInv'
  <2>1. /\ UNCHANGED <<pc, request, result, seen, cursor, known, told, value>>
        /\ \A s \in Slots : s # writer[w].slot => generation'[s] = generation[s]
    BY <1>1, <1>6 DEF Bump, serverVars, historyVars
  <2>2. \A s \in Slots : generation[s] <= generation'[s] /\ generation'[s] \in Nat
    BY <1>1, <1>2, <1>6, BumpCounts
  <2>3. QED BY <1>5, <2>1, <2>2
\* Steps of the server that end no answer and no report.
<1>7. ASSUME UNCHANGED <<generation, seen>>, pc' \notin {"reply", "changed"},
             \/ pc' = "stopped"
             \/ pc \notin {"stopped", "changed", "reply"} /\ UNCHANGED <<known, told>>
      PROVE  SnapshotInv'
  BY <1>7 DEF SnapshotInv, Fetches, UpToSnapshot, Toggles
<1>8. CASE \/ UNCHANGED vars \/ Arrive \/ Receive
           \/ \E t \in Tasks, s \in Slots : Set(t, s)
           \/ \E w \in Writers : Signal(w)
           \/ \E r \in Requests : Send(r)
  <2>1. UNCHANGED <<generation, pc, request, result, seen, cursor, known, told>>
    BY <1>8 DEF vars, Arrive, Receive, Set, Signal, Send, keyVars, serverVars, historyVars
  <2>2. QED BY <1>1, <1>2, <1>5, <2>1
<1>9. CASE Start
  <2>1. \A s \in Slots : seen'[s] = 0 /\ known'[s] = -1
    BY <1>9 DEF Start
  <2>2. generation' = generation /\ pc' = "poll"
    BY <1>9 DEF Start
  <2>3. QED BY <1>1, <1>2, <2>1, <2>2 DEF SnapshotInv, Fetches
<1>10. CASE Stop \/ ReadRequest \/ ReadPending \/ ReadTorn \/ PollNotifier \/ FlushDone
  BY <1>7, <1>10
     DEF Stop, Close, ReadRequest, ReadPending, ReadTorn, PollNotifier, FlushDone,
         keyVars, historyVars
\* A request in hand when the handler ends.
<1>11. ASSUME pc = "handle", pc' = "reply", UNCHANGED <<generation, request, known, told>>,
              NEW s \in Slots, seen'[s] = seen[s], Fetches(s)' => seen[s] <= result'
       PROVE  /\ seen'[s] <= generation'[s]
              /\ Fetches(s)' => seen'[s] <= result'
              /\ pc' # "stopped" /\ known'[s] # -1 /\ ~told'[s] => UpToSnapshot(s)'
  BY <1>11 DEF SnapshotInv, UpToSnapshot, Toggles
<1>12. CASE Refuse \/ Describe
  <2>1. /\ pc = "handle" /\ pc' = "reply"
        /\ UNCHANGED <<generation, request, known, told, seen>>
    BY <1>12 DEF Refuse, Describe, Answer, keyVars, historyVars
  <2>2. \A s \in Slots : ~Fetches(s)'
    BY <1>12, <2>1 DEF Refuse, Describe, Answer, Fetches, KeylessOps
  <2>3. QED BY <1>11, <2>1, <2>2 DEF SnapshotInv
<1>13. CASE Get \/ Write
  <2> DEFINE u == FindSlot(request.keyref)
  <2>1. u \in Slots
    BY <1>13, AnsweredHasSlot DEF Get, Write, Answer
  <2>2. /\ pc = "handle" /\ pc' = "reply" /\ result' \in {value[u], value[u] + 1}
        /\ UNCHANGED <<generation, request, known, told, seen>>
    BY <1>1, <1>13, <2>1 DEF Get, Write, Store, Answer, keyVars, historyVars
  <2>3. seen[u] <= result'
    BY <1>1, <1>2, <1>3, <1>4, <2>1, <2>2
  <2>4. \A s \in Slots : Fetches(s)' => seen[s] <= result'
    BY <2>2, <2>3 DEF Fetches
  <2>5. QED BY <1>11, <2>2, <2>4 DEF SnapshotInv
<1>14. CASE Observe \/ Unobserve
  <2> DEFINE u == FindSlot(request.keyref)
  <2>1. /\ pc = "handle" /\ pc' = "reply" /\ ErrorCode(request) = 0
        /\ request.op \in {"observe", "unobserve"}
        /\ UNCHANGED <<generation, request, known, told>>
    BY <1>14 DEF Observe, Unobserve, Answer, keyVars, historyVars
  <2>2. \A s \in Slots : ~Fetches(s)'
    BY <2>1 DEF Fetches
  <2>3. CASE HasSlot(request.keyref)
    <3>1. u \in Slots /\ seen' = [seen EXCEPT ![u] = generation[u]]
      BY <1>14, <2>3, FindSlotFinds DEF Observe, Unobserve
    <3>2. Toggles("observe", u)' \/ Toggles("unobserve", u)'
      BY <2>1, <2>3 DEF Toggles
    <3>3. seen'[u] <= generation'[u] /\ UpToSnapshot(u)'
      BY <1>1, <1>2, <2>1, <3>1, <3>2 DEF UpToSnapshot
    <3>4. \A s \in Slots : s # u => seen'[s] = seen[s]
      BY <1>1, <3>1
    <3>5. QED BY <1>11, <2>1, <2>2, <3>3, <3>4 DEF SnapshotInv
  <2>4. CASE ~HasSlot(request.keyref)
    <3>1. seen' = seen
      BY <1>14, <2>4, AnsweredHasSlot DEF Observe, Unobserve, Answer
    <3>2. QED BY <1>11, <2>1, <2>2, <3>1 DEF SnapshotInv
  <2>5. QED BY <2>3, <2>4
<1>15. CASE Reply
  <2> DEFINE u == FindSlot(request.keyref)
  <2>1. pc = "reply" /\ pc' \in {"flush", "poll"} /\ UNCHANGED <<generation, seen>>
    BY <1>15 DEF Reply, keyVars
  <2>2. ASSUME NEW s \in Slots, known'[s] # -1, ~told'[s] PROVE seen[s] <= known'[s]
    <3>1. CASE ErrorCode(request) = 0 /\ HasSlot(request.keyref) /\ u = s
               /\ request.op \in {"get", "write"}
      <4>1. known'[s] = result
        BY <1>1, <1>15, <3>1 DEF Reply, Record
      <4>2. QED BY <2>1, <3>1, <4>1 DEF SnapshotInv, Fetches
    <3>2. CASE ErrorCode(request) = 0 /\ HasSlot(request.keyref) /\ u = s
               /\ request.op \in {"observe", "unobserve"}
      <4>1. known'[s] = -1
        BY <1>1, <1>15, <3>2 DEF Reply, Record
      <4>2. QED BY <2>2, <4>1
    <3>3. CASE ~(/\ ErrorCode(request) = 0 /\ HasSlot(request.keyref) /\ u = s
                 /\ request.op \in {"get", "write", "observe", "unobserve"})
      <4>1. known'[s] = known[s] /\ told'[s] = told[s]
        BY <1>1, <1>15, <3>3 DEF Reply, Record, historyVars
      <4>2. ~Toggles("observe", s) /\ ~Toggles("unobserve", s)
        BY <3>3 DEF Toggles
      <4>3. QED BY <2>1, <2>2, <4>1, <4>2 DEF SnapshotInv, UpToSnapshot
    <3>4. QED BY <3>1, <3>2, <3>3
  <2>3. QED BY <1>3, <2>1, <2>2 DEF SnapshotInv, Fetches, UpToSnapshot
<1>16. CASE FlushSlot
  <2>1. pc = "flush" /\ cursor \in Slots /\ UNCHANGED <<generation, known, told>>
    BY <1>16 DEF FlushSlot, TypeInv, TypeOK, Slots, keyVars, historyVars
  <2>2. CASE MustReport(cursor)
    <3>1. pc' = "changed" /\ cursor' = cursor
          /\ seen' = [seen EXCEPT ![cursor] = generation[cursor]]
      BY <1>16, <2>2 DEF FlushSlot
    <3>2. seen'[cursor] = generation[cursor] /\ \A s \in Slots : s # cursor => seen'[s] = seen[s]
      BY <1>1, <2>1, <3>1
    <3>3. QED BY <1>1, <1>2, <2>1, <3>1, <3>2 DEF SnapshotInv, Fetches, UpToSnapshot, Toggles
  <2>3. CASE ~MustReport(cursor)
    <3>1. pc' = "flush" /\ seen' = seen
      BY <1>16, <2>1, <2>3 DEF FlushSlot
    <3>2. QED BY <2>1, <3>1 DEF SnapshotInv, Fetches, UpToSnapshot, Toggles
  <2>4. QED BY <2>2, <2>3
<1>17. CASE SendChanged
  <2>1. /\ pc = "changed" /\ pc' = "flush" /\ UNCHANGED <<generation, seen, known>>
        /\ told' = [told EXCEPT ![cursor] = TRUE]
    BY <1>17 DEF SendChanged, keyVars
  <2>2. ASSUME NEW s \in Slots, ~told'[s] PROVE s # cursor /\ ~told[s]
    BY <1>1, <2>1, <2>2
  <2>3. QED BY <2>1, <2>2 DEF SnapshotInv, Fetches, UpToSnapshot, Toggles
<1>18. QED
  BY <1>6, <1>8, <1>9, <1>10, <1>12, <1>13, <1>14, <1>15, <1>16, <1>17 DEF Next, Run

\* A client that observes a key and has read it is out of date only while the
\* store has yet to be counted, the generation differs from the server's
\* snapshot, or the frame that says so is being sent (lib.rs:434, 1110): as
\* long as the generation does not wrap.
THEOREM ChangeSafe ==
  ASSUME NoWrap
  PROVE  Spec => []NoLostChange
<1>1. TypeInv /\ CountInv /\ SnapshotInv => NoLostChange
  <2> SUFFICES ASSUME TypeInv, CountInv, SnapshotInv, NEW s \in Slots,
                      pc # "stopped", Stale(s),
                      ~ \E w \in Writers : writer[w] = At("bump", s),
                      generation[s] = seen[s]
               PROVE  \/ pc = "changed" /\ cursor = s
                      \/ /\ pc = "reply" /\ HasSlot(request.keyref)
                         /\ FindSlot(request.keyref) = s
                         /\ request.op \in {"write", "observe", "unobserve"}
    BY DEF NoLostChange
  <2>1. value[s] = generation[s]
    <3>1. Bumping(s) = {} /\ Cardinality({}) = 0
      BY FS_EmptySet DEF Bumping
    <3>2. value[s] = generation[s] + Cardinality(Bumping(s))
      BY DEF CountInv
    <3>3. generation[s] \in Nat
      BY BoundAssumption DEF TypeInv, TypeOK
    <3>4. QED BY <3>1, <3>2, <3>3
  <2>2. known[s] \in Nat /\ known[s] < value[s] /\ ~told[s] /\ value[s] \in Nat
    BY DEF Stale, TypeInv, TypeOK
  <2>3. UpToSnapshot(s)
    BY <2>2 DEF SnapshotInv
  <2>4. ~(seen[s] <= known[s])
    BY <2>1, <2>2
  <2>5. QED BY <2>3, <2>4 DEF UpToSnapshot, Toggles
<1>2. Spec => [](TypeInv /\ CountInv)
  BY InitType, StepType, InitCount, StepCount, PTL DEF Spec
<1>3. Spec => [](TypeInv /\ CountInv /\ SnapshotInv)
  BY <1>2, InitSnapshot, StepSnapshot, PTL DEF Spec
<1>4. QED BY <1>1, <1>3, PTL

-----------------------------------------------------------------------------
(* That EmbassyServer implements the safety part of QupConnection when     *)
(* requests arrive whole, for every registry, client and bound.            *)

\* The transport hands over whole requests.
Whole == Fragmented = FALSE

-----------------------------------------------------------------------------
(* What the mapping rests on.                                              *)

\* No read is torn; a connection that is closed has no frames; and only slots
\* that find_slot finds are observed.
WholeInv ==
  /\ ~partial /\ ~headRead /\ ~torn
  /\ pc = "stopped" => inbound = <<>> /\ wire = <<>>
  /\ \A s \in Slots : acked[s] => FindSlot(Keyref[s]) = s

LEMMA InitWhole == Init => WholeInv
BY DEF Init, WholeInv

LEMMA StepWhole ==
  ASSUME Whole
  PROVE  TypeInv /\ WholeInv /\ [Next]_vars => WholeInv'
<1> SUFFICES ASSUME TypeInv, WholeInv, [Next]_vars PROVE WholeInv'
  OBVIOUS
<1> USE DEF WholeInv
<1>1. CASE Reply
  <2>1. /\ pc = "reply" /\ pc' # "stopped" /\ UNCHANGED <<partial, headRead, torn>>
        /\ acked \in [Slots -> BOOLEAN]
    BY <1>1 DEF Reply, readVars, TypeInv, TypeOK
  <2>2. ASSUME NEW s \in Slots, acked'[s]
        PROVE  acked[s] \/ (HasSlot(request.keyref) /\ s = FindSlot(request.keyref))
    <3>1. CASE ErrorCode(request) = 0 /\ HasSlot(request.keyref)
               /\ request.op \in {"observe", "unobserve"}
      <4>1. acked' = [acked EXCEPT ![FindSlot(request.keyref)] = (request.op = "observe")]
        BY <1>1, <3>1 DEF Reply, Record
      <4>2. QED BY <2>1, <2>2, <3>1, <4>1
    <3>2. CASE ~(ErrorCode(request) = 0 /\ HasSlot(request.keyref)
                 /\ request.op \in {"observe", "unobserve"})
      <4>1. UNCHANGED acked
        BY <1>1, <3>2 DEF Reply, Record, historyVars
      <4>2. QED BY <2>2, <4>1
    <3>3. QED BY <3>1, <3>2
  <2>3. HasSlot(request.keyref) => Keyref[FindSlot(request.keyref)] = request.keyref
    BY FindSlotFinds
  <2>4. \A s \in Slots : acked'[s] => FindSlot(Keyref[s]) = s
    BY <2>2, <2>3
  <2>5. QED BY <2>1, <2>4
<1>2. CASE Start
  BY <1>2 DEF Start, readVars
<1>3. CASE Stop
  BY <1>3 DEF Stop, Close, historyVars
<1>4. ASSUME NEW r \in Requests, Send(r) PROVE WholeInv'
  BY <1>4 DEF Send, Whole, keyVars, serverVars, historyVars
<1>5. CASE UNCHANGED vars \/ (\E t \in Tasks, s \in Slots : Set(t, s))
                          \/ (\E w \in Writers : Bump(w) \/ Signal(w))
  BY <1>5 DEF vars, Set, Bump, Signal, keyVars, serverVars, readVars, historyVars
<1>6. CASE Arrive \/ Receive
  BY <1>6 DEF Arrive, Receive, keyVars, serverVars, readVars, historyVars
<1>7. CASE ReadRequest \/ ReadPending \/ ReadTorn \/ PollNotifier
  <2>1. ~ReadTorn
    BY DEF ReadTorn
  <2>2. pc # "stopped" /\ pc' # "stopped" /\ UNCHANGED acked
    BY <1>7, <2>1 DEF ReadRequest, ReadPending, PollNotifier, historyVars
  <2>3. ~partial' /\ ~headRead' /\ ~torn'
    <3>1. CASE ReadRequest
      BY <3>1, Zenon DEF ReadRequest
    <3>2. CASE ReadPending
      BY <3>2, Zenon DEF ReadPending
    <3>3. CASE PollNotifier
      BY <3>3, Zenon DEF PollNotifier
    <3>4. QED BY <1>7, <2>1, <3>1, <3>2, <3>3
  <2>4. QED BY <2>2, <2>3
<1>8. CASE Refuse \/ Describe \/ Get \/ Write \/ Observe \/ Unobserve
  <2>1. pc' = "reply" /\ UNCHANGED <<partial, headRead, torn, acked>>
    BY <1>8 DEF Refuse, Describe, Get, Write, Observe, Unobserve, Answer, readVars, historyVars
  <2>2. QED BY <2>1
<1>9. CASE FlushSlot \/ FlushDone \/ SendChanged
  <2>1. pc' # "stopped" /\ UNCHANGED <<partial, headRead, torn, acked>>
    BY <1>9 DEF FlushSlot, FlushDone, SendChanged, readVars, historyVars
  <2>2. QED BY <2>1
<1>10. QED
  BY <1>1, <1>2, <1>3, <1>4, <1>5, <1>6, <1>7, <1>8, <1>9 DEF Next, Run

LEMMA WholeInvariance ==
  ASSUME Whole
  PROVE  Spec => [](TypeInv /\ ObservationInv /\ WholeInv)
<1>1. Spec => [](TypeInv /\ ObservationInv)
  BY InitType, StepType, InitObservation, StepObservation, PTL DEF Spec
<1>2. QED BY <1>1, InitWhole, StepWhole, PTL DEF Spec

-----------------------------------------------------------------------------
(* The mapped sequences.                                                   *)

AbstractWire == [i \in DOMAIN wire |-> AbstractFrame(wire[i])]
AbstractFrames == {AbstractFrame(f) : f \in Frames}
AbstractObserving ==
  IF pc = "stopped" THEN {} ELSE {Keyref[s] : s \in {t \in Slots : acked[t]}}

LEMMA MappedSeq ==
  ASSUME NEW w \in Seq(Frames)
  PROVE  /\ [i \in DOMAIN w |-> AbstractFrame(w[i])] \in Seq(AbstractFrames)
         /\ Len([i \in DOMAIN w |-> AbstractFrame(w[i])]) = Len(w)
<1>1. Len(w) \in Nat /\ DOMAIN w = 1 .. Len(w) /\ \A i \in 1 .. Len(w) : w[i] \in Frames
  BY LenProperties
<1>2. [i \in 1 .. Len(w) |-> AbstractFrame(w[i])] \in [1 .. Len(w) -> AbstractFrames]
  BY <1>1 DEF AbstractFrames
<1>3. [i \in 1 .. Len(w) |-> AbstractFrame(w[i])] \in Seq(AbstractFrames)
  BY <1>1, <1>2
<1>4. Len([i \in 1 .. Len(w) |-> AbstractFrame(w[i])]) = Len(w)
  BY <1>1, <1>3
<1>5. QED BY <1>1, <1>3, <1>4

\* A frame that is appended, or taken, is so in the mapped sequence.
LEMMA MappedAppend ==
  ASSUME NEW w \in Seq(Frames), NEW f \in Frames
  PROVE  [i \in DOMAIN Append(w, f) |-> AbstractFrame(Append(w, f)[i])] =
           Append([i \in DOMAIN w |-> AbstractFrame(w[i])], AbstractFrame(f))
<1> DEFINE a == [i \in DOMAIN w |-> AbstractFrame(w[i])]
           b == [i \in DOMAIN Append(w, f) |-> AbstractFrame(Append(w, f)[i])]
<1>1. /\ Append(w, f) \in Seq(Frames) /\ Len(Append(w, f)) = Len(w) + 1
      /\ \A i \in 1 .. Len(w) : Append(w, f)[i] = w[i]
      /\ Append(w, f)[Len(w) + 1] = f
  BY AppendProperties
<1>2. /\ a \in Seq(AbstractFrames) /\ Len(a) = Len(w)
      /\ b \in Seq(AbstractFrames) /\ Len(b) = Len(w) + 1
  BY <1>1, MappedSeq
<1>3. AbstractFrame(f) \in AbstractFrames
  BY DEF AbstractFrames
<1>4. /\ Append(a, AbstractFrame(f)) \in Seq(AbstractFrames)
      /\ Len(Append(a, AbstractFrame(f))) = Len(w) + 1
      /\ \A i \in 1 .. Len(w) : Append(a, AbstractFrame(f))[i] = a[i]
      /\ Append(a, AbstractFrame(f))[Len(w) + 1] = AbstractFrame(f)
  BY <1>2, <1>3, AppendProperties
<1>5. /\ Len(w) \in Nat /\ DOMAIN w = 1 .. Len(w)
      /\ DOMAIN Append(w, f) = 1 .. Len(w) + 1
  BY <1>1, LenProperties
<1>6. \A i \in 1 .. Len(w) + 1 : b[i] = AbstractFrame(Append(w, f)[i])
  BY <1>5
<1>7. \A i \in 1 .. Len(w) : a[i] = AbstractFrame(w[i])
  BY <1>5
<1> HIDE DEF a, b
<1>8. \A i \in 1 .. Len(w) + 1 : b[i] = Append(a, AbstractFrame(f))[i]
  <2> TAKE i \in 1 .. Len(w) + 1
  <2>1. CASE i \in 1 .. Len(w)
    BY <1>1, <1>4, <1>6, <1>7, <2>1
  <2>2. CASE i = Len(w) + 1
    BY <1>1, <1>4, <1>5, <1>6, <2>2
  <2>3. i \in 1 .. Len(w) \/ i = Len(w) + 1
    BY <1>5
  <2>4. QED BY <2>1, <2>2, <2>3
<1>9. b = Append(a, AbstractFrame(f))
  BY <1>2, <1>4, <1>8, SeqEqual
<1>10. QED BY <1>9 DEF a, b

LEMMA MappedTail ==
  ASSUME NEW w \in Seq(Frames), w # <<>>
  PROVE  /\ [i \in DOMAIN Tail(w) |-> AbstractFrame(Tail(w)[i])] =
              Tail([i \in DOMAIN w |-> AbstractFrame(w[i])])
         /\ [i \in DOMAIN w |-> AbstractFrame(w[i])] # <<>>
<1> DEFINE a == [i \in DOMAIN w |-> AbstractFrame(w[i])]
           b == [i \in DOMAIN Tail(w) |-> AbstractFrame(Tail(w)[i])]
<1>1. /\ Tail(w) \in Seq(Frames) /\ Len(Tail(w)) = Len(w) - 1
      /\ \A i \in 1 .. Len(Tail(w)) : Tail(w)[i] = w[i + 1]
      /\ Len(w) \in Nat \ {0}
  BY HeadTailProperties, EmptySeq
<1>2. /\ a \in Seq(AbstractFrames) /\ Len(a) = Len(w)
      /\ b \in Seq(AbstractFrames) /\ Len(b) = Len(w) - 1
  BY <1>1, MappedSeq
<1>3. DOMAIN w = 1 .. Len(w) /\ DOMAIN Tail(w) = 1 .. Len(w) - 1
  BY <1>1, LenProperties
<1>4. /\ \A i \in 1 .. Len(w) - 1 : b[i] = AbstractFrame(Tail(w)[i])
      /\ \A i \in 1 .. Len(w) : a[i] = AbstractFrame(w[i])
  BY <1>3
<1> HIDE DEF a, b
<1>5. a # <<>>
  BY <1>1, <1>2, EmptySeq
<1>6. /\ Tail(a) \in Seq(AbstractFrames) /\ Len(Tail(a)) = Len(w) - 1
      /\ \A i \in 1 .. Len(w) - 1 : Tail(a)[i] = a[i + 1]
  BY <1>2, <1>5, HeadTailProperties
<1>7. \A i \in 1 .. Len(w) - 1 : b[i] = Tail(a)[i]
  <2> TAKE i \in 1 .. Len(w) - 1
  <2>1. i + 1 \in 1 .. Len(w)
    BY <1>1
  <2>2. QED BY <1>1, <1>4, <1>6, <2>1
<1>8. b = Tail(a)
  BY <1>2, <1>6, <1>7, SeqEqual
<1>9. QED BY <1>5, <1>8 DEF a, b

\* The requests that wait, when one is taken off the stream, in hand, and
\* answered.
LEMMA PendingQueue ==
  ASSUME NEW q \in Seq(Requests), NEW r \in Requests
  PROVE  /\ <<>> \o q = q
         /\ <<r>> \o q # <<>> /\ Head(<<r>> \o q) = r /\ Tail(<<r>> \o q) = q
         /\ \A n \in Requests : <<r>> \o Append(q, n) = Append(<<r>> \o q, n)
         /\ q # <<>> => <<Head(q)>> \o Tail(q) = q
<1>1. <<r>> \in Seq(Requests) /\ Len(<<r>>) = 1 /\ <<r>>[1] = r
  OBVIOUS
<1>2. <<>> \o q = q
  BY ConcatEmptySeq
<1>3. /\ <<r>> \o q \in Seq(Requests) /\ Len(<<r>> \o q) = 1 + Len(q)
      /\ \A i \in 1 .. 1 + Len(q) : (<<r>> \o q)[i] = IF i <= 1 THEN r ELSE q[i - 1]
  BY <1>1, ConcatProperties
<1>4. Len(q) \in Nat
  BY LenProperties
<1>5. <<r>> \o q # <<>>
  BY <1>3, <1>4, EmptySeq
<1>6. Head(<<r>> \o q) = r
  BY <1>3, <1>4, <1>5
<1>7. Tail(<<r>> \o q) = q
  <2>1. /\ Tail(<<r>> \o q) \in Seq(Requests) /\ Len(Tail(<<r>> \o q)) = Len(q)
        /\ \A i \in 1 .. Len(q) : Tail(<<r>> \o q)[i] = (<<r>> \o q)[i + 1]
    BY <1>3, <1>4, <1>5, HeadTailProperties
  <2>2. \A i \in 1 .. Len(q) : Tail(<<r>> \o q)[i] = q[i]
    BY <1>3, <1>4, <2>1
  <2>3. QED BY <2>1, <2>2, SeqEqual
<1>8. ASSUME NEW n \in Requests PROVE <<r>> \o Append(q, n) = Append(<<r>> \o q, n)
  <2>1. Append(q, n) = q \o <<n>> /\ Append(<<r>> \o q, n) = (<<r>> \o q) \o <<n>>
        /\ <<n>> \in Seq(Requests)
    BY <1>3, AppendIsConcat
  <2>2. QED BY <1>1, <2>1, ConcatAssociative
<1>9. ASSUME q # <<>> PROVE <<Head(q)>> \o Tail(q) = q
  <2>1. /\ Head(q) \in Requests /\ Tail(q) \in Seq(Requests) /\ Len(Tail(q)) = Len(q) - 1
        /\ \A i \in 1 .. Len(q) - 1 : Tail(q)[i] = q[i + 1]
        /\ Len(q) \in Nat \ {0} /\ Head(q) = q[1]
    BY <1>9, HeadTailProperties, EmptySeq
  <2>2. /\ <<Head(q)>> \o Tail(q) \in Seq(Requests)
        /\ Len(<<Head(q)>> \o Tail(q)) = Len(q)
        /\ \A i \in 1 .. Len(q) :
             (<<Head(q)>> \o Tail(q))[i] = IF i <= 1 THEN Head(q) ELSE Tail(q)[i - 1]
    <3>1. <<Head(q)>> \in Seq(Requests) /\ Len(<<Head(q)>>) = 1 /\ <<Head(q)>>[1] = Head(q)
      BY <2>1
    <3>2. QED BY <2>1, <3>1, ConcatProperties
  <2>3. \A i \in 1 .. Len(q) : (<<Head(q)>> \o Tail(q))[i] = q[i]
    <3> TAKE i \in 1 .. Len(q)
    <3>1. CASE i = 1
      BY <2>1, <2>2, <3>1
    <3>2. CASE i # 1
      <4>1. i - 1 \in 1 .. Len(q) - 1 /\ ~(i <= 1)
        BY <2>1, <3>2
      <4>2. QED BY <2>1, <2>2, <4>1
    <3>3. QED BY <3>1, <3>2
  <2>4. QED BY <2>2, <2>3, SeqEqual
<1>10. QED BY <1>2, <1>5, <1>6, <1>7, <1>8, <1>9

-----------------------------------------------------------------------------
(* The steps of the server are steps of the contract.                      *)

LEMMA InitContract == Init => Contract!Init
<1> SUFFICES ASSUME Init PROVE Contract!Init
  OBVIOUS
<1>1. Unanswered = <<>>
  BY ConcatEmptySeq, EmptySeq DEF Init, Unanswered, Serving
<1>2. [i \in DOMAIN wire |-> AbstractFrame(wire[i])] = <<>>
  BY DEF Init
<1>3. QED BY <1>1, <1>2 DEF Init, Serving, Contract!Init

\* The error codes of the server are those the contract lists.
LEMMA ErrorCodesListed ==
  ASSUME NEW r \in Requests
  PROVE  /\ ErrorCode(r) # 0 => ErrorCode(r) \in Contract!ErrorCodes(r.op)
         /\ ErrorCode(r) = 0 => ReplyOpcode(r.op) = Contract!SuccessOpcode(r.op)
         /\ ReplyOpcode(r.op) # "CHANGED"
<1>1. r.op \in KeylessOps \cup KeyedOps
  BY ClientAssumption DEF Request
<1>2. ReplyOpcode(r.op) = Contract!SuccessOpcode(r.op) /\ ReplyOpcode(r.op) # "CHANGED"
  BY <1>1 DEF ReplyOpcode, Contract!SuccessOpcode, KeylessOps, KeyedOps
<1>3. ErrorCode(r) # 0 => ErrorCode(r) \in Contract!ErrorCodes(r.op)
  BY <1>1 DEF ErrorCode, Contract!ErrorCodes, KeylessOps, KeyedOps
<1>4. QED BY <1>2, <1>3

LEMMA ReplyAnswers ==
  ASSUME TypeInv, WholeInv, Reply
  PROVE  Contract!Answer
<1> DEFINE r == request
           s == FindSlot(request.keyref)
<1>1. /\ r \in Requests /\ pc = "reply" /\ pc' \in {"flush", "poll"}
      /\ wire \in Seq(Frames) /\ inbound \in Seq(Requests) /\ result \in Nat
      /\ acked \in [Slots -> BOOLEAN]
      /\ inbound' = inbound /\ Serving /\ ~Serving'
  BY DEF Serving, Reply, TypeInv, TypeOK, ControlOK, readVars
<1>2. Unanswered = <<r>> \o inbound /\ Unanswered' = <<>> \o inbound
  BY <1>1 DEF Unanswered, Serving
<1>3. Unanswered # <<>> /\ Head(Unanswered) = r /\ Unanswered' = Tail(Unanswered)
  BY <1>1, <1>2, PendingQueue
<1>4. AbstractWire' = Append(AbstractWire, AbstractFrame(Response(r, result)))
  <2>1. wire' = Append(wire, Response(r, result)) /\ Response(r, result) \in Frames
    BY <1>1, ResponseType DEF Reply
  <2>2. QED BY <1>1, <2>1, MappedAppend DEF AbstractWire
<1>5. AbstractFrame(Response(r, result)) =
        [opcode |-> IF ErrorCode(r) = 0 THEN ReplyOpcode(r.op) ELSE "ERROR",
         code   |-> ErrorCode(r), keyref |-> r.keyref]
  BY <1>1, ErrorCodesListed DEF AbstractFrame, Response
<1>6. HasSlot(r.keyref) <=> r.keyref \in {Keyref[t] : t \in Slots}
  BY DEF HasSlot
<1>7. HasSlot(r.keyref) => s \in Slots /\ Keyref[s] = r.keyref
  BY FindSlotFinds
<1>8. AbstractObserving = {Keyref[t] : t \in {u \in Slots : acked[u]}}
      /\ AbstractObserving' = {Keyref[t] : t \in {u \in Slots : acked'[u]}}
  BY <1>1 DEF AbstractObserving
<1>9. ASSUME UNCHANGED acked PROVE AbstractObserving' = AbstractObserving
  BY <1>8, <1>9
<1>10. CASE ErrorCode(r) # 0
  <2>1. UNCHANGED acked
    BY <1>10 DEF Reply, Record, historyVars
  <2>2. AbstractObserving' = AbstractObserving
    BY <1>9, <2>1
  <2>3. \E c \in Contract!ErrorCodes(r.op) :
          AbstractWire' = Append(AbstractWire, [opcode |-> "ERROR", code |-> c,
                                                keyref |-> r.keyref])
    BY <1>1, <1>4, <1>5, <1>10, ErrorCodesListed
  <2>4. Contract!Fail(Head(Unanswered))
    BY <1>3, <2>2, <2>3 DEF Contract!Fail, AbstractWire, AbstractObserving
  <2>5. QED BY <1>1, <1>3, <2>4 DEF Contract!Answer
<1>11. CASE ErrorCode(r) = 0
  <2>1. AbstractWire' = Append(AbstractWire, [opcode |-> Contract!SuccessOpcode(r.op),
                                              code |-> 0, keyref |-> r.keyref])
    BY <1>1, <1>4, <1>5, <1>11, ErrorCodesListed
  <2>2. CASE r.op = "observe"
    <3>1. HasSlot(r.keyref)
      BY <1>11, <2>2, AnsweredHasSlot
    <3>2. acked' = [acked EXCEPT ![s] = TRUE]
      BY <1>11, <2>2, <3>1 DEF Reply, Record
    <3>3. \A t \in Slots : acked'[t] <=> acked[t] \/ t = s
      BY <1>1, <1>7, <3>1, <3>2
    <3>4. AbstractObserving' = AbstractObserving \cup {r.keyref}
      BY <1>7, <1>8, <3>1, <3>3
    <3>5. Contract!Succeed(Head(Unanswered))
      BY <1>3, <1>6, <2>1, <2>2, <3>1, <3>4 DEF Contract!Succeed, AbstractWire, AbstractObserving
    <3>6. QED BY <1>1, <1>3, <3>5 DEF Contract!Answer
  <2>3. CASE r.op = "unobserve"
    <3>1. ASSUME HasSlot(r.keyref) PROVE AbstractObserving' = AbstractObserving \ {r.keyref}
      <4>1. acked' = [acked EXCEPT ![s] = FALSE]
        BY <1>11, <2>3, <3>1 DEF Reply, Record
      <4>2. \A t \in Slots : acked'[t] <=> acked[t] /\ t # s
        BY <1>1, <1>7, <3>1, <4>1
      <4>3. \A t \in Slots : acked[t] /\ t # s => Keyref[t] # r.keyref
        BY DEF WholeInv
      <4>4. QED BY <1>7, <1>8, <3>1, <4>2, <4>3
    <3>2. ASSUME ~HasSlot(r.keyref) PROVE AbstractObserving' = AbstractObserving \ {r.keyref}
      <4>1. UNCHANGED acked
        BY <3>2 DEF Reply, Record, historyVars
      <4>2. r.keyref \notin AbstractObserving
        BY <1>8, <3>2 DEF HasSlot
      <4>3. QED BY <1>9, <4>1, <4>2
    <3>3. AbstractObserving' = AbstractObserving \ {r.keyref}
      BY <3>1, <3>2
    <3>4. Contract!Succeed(Head(Unanswered))
      BY <1>3, <2>1, <2>3, <3>3 DEF Contract!Succeed, AbstractWire, AbstractObserving
    <3>5. QED BY <1>1, <1>3, <3>4 DEF Contract!Answer
  <2>4. CASE r.op \notin {"observe", "unobserve"}
    <3>1. UNCHANGED acked
      BY <2>4 DEF Reply, Record, historyVars
    <3>2. AbstractObserving' = AbstractObserving
      BY <1>9, <3>1
    <3>3. Contract!Succeed(Head(Unanswered))
      BY <1>3, <2>1, <2>4, <3>2 DEF Contract!Succeed, AbstractWire, AbstractObserving
    <3>4. QED BY <1>1, <1>3, <3>3 DEF Contract!Answer
  <2>5. QED BY <2>2, <2>3, <2>4
<1>12. QED BY <1>10, <1>11

LEMMA StepContract ==
  ASSUME Whole, TypeInv, ObservationInv, WholeInv, [Next]_vars
  PROVE  [Contract!Next]_(Contract!vars)
<1>1. /\ wire \in Seq(Frames) /\ inbound \in Seq(Requests)
      /\ request \in Requests \cup {NoRequest}
      /\ pc \in {"handle", "reply"} => request \in Requests
  BY DEF TypeInv, TypeOK, ControlOK
\* The steps that the contract does not see.
<1>2. ASSUME UNCHANGED <<wire, acked>>, (pc' = "stopped") <=> (pc = "stopped"),
             Unanswered' = Unanswered, Serving' = Serving
      PROVE  UNCHANGED Contract!vars
  <2>1. AbstractWire' = AbstractWire /\ AbstractObserving' = AbstractObserving
    BY <1>2 DEF AbstractWire, AbstractObserving
  <2>2. (pc # "stopped")' <=> (pc # "stopped")
    BY <1>2
  <2>3. QED BY <1>2, <2>1, <2>2 DEF Contract!vars, AbstractWire, AbstractObserving
<1>3. CASE \/ UNCHANGED vars \/ (\E t \in Tasks, s \in Slots : Set(t, s))
           \/ (\E w \in Writers : Bump(w) \/ Signal(w))
           \/ Arrive
  <2>1. UNCHANGED <<wire, acked, pc, request, inbound>>
    BY <1>3 DEF vars, Set, Bump, Signal, Arrive, keyVars, serverVars, readVars, historyVars
  <2>2. QED BY <1>2, <2>1 DEF Unanswered, Serving
<1>4. CASE \/ ReadPending \/ PollNotifier \/ FlushSlot \/ FlushDone
  <2>1. /\ UNCHANGED <<wire, acked, inbound>>
        /\ pc \notin {"stopped", "handle", "reply"}
        /\ pc' \notin {"stopped", "handle", "reply"}
    BY <1>4 DEF ReadPending, PollNotifier, FlushSlot, FlushDone, readVars, historyVars
  <2>2. QED BY <1>2, <2>1 DEF Unanswered, Serving
<1>5. CASE Refuse \/ Describe \/ Get \/ Write \/ Observe \/ Unobserve
  <2>1. UNCHANGED <<wire, acked, inbound, request>> /\ pc = "handle" /\ pc' = "reply"
    BY <1>5 DEF Refuse, Describe, Get, Write, Observe, Unobserve, Answer, readVars, historyVars
  <2>2. QED BY <1>2, <2>1 DEF Unanswered, Serving
<1>6. CASE ReadRequest
  <2>1. /\ UNCHANGED <<wire, acked>> /\ pc = "poll" /\ pc' = "handle"
        /\ inbound # <<>> /\ request' = Head(inbound) /\ inbound' = Tail(inbound)
    BY <1>6 DEF ReadRequest, Complete, historyVars
  <2>2. Head(inbound) \in Requests
    BY <1>1, <2>1, HeadTailProperties
  <2>3. Unanswered = <<>> \o inbound /\ Unanswered' = <<Head(inbound)>> \o Tail(inbound)
    BY <2>1 DEF Unanswered, Serving
  <2>4. Unanswered' = Unanswered /\ Unanswered # <<>>
    BY <1>1, <2>1, <2>2, <2>3, PendingQueue
  <2>5. AbstractWire' = AbstractWire /\ AbstractObserving' = AbstractObserving
    BY <2>1 DEF AbstractWire, AbstractObserving
  <2>6. Contract!Serve
    BY <2>1, <2>4, <2>5 DEF Contract!Serve, Serving, AbstractWire, AbstractObserving
  <2>7. QED BY <2>6 DEF Contract!Next
<1>7. ~ReadTorn
  BY DEF ReadTorn, WholeInv
<1>8. ASSUME NEW r \in Requests, Send(r) PROVE Contract!Next
  <2>1. /\ pc # "stopped" /\ inbound' = Append(inbound, r)
        /\ UNCHANGED <<pc, request, wire, acked>>
    BY <1>8 DEF Send, serverVars, historyVars
  <2>2. Unanswered' = Append(Unanswered, r)
    <3>1. CASE pc \in {"handle", "reply"}
      BY <1>1, <2>1, <3>1, PendingQueue DEF Unanswered, Serving
    <3>2. CASE pc \notin {"handle", "reply"}
      <4>1. Append(inbound, r) \in Seq(Requests)
        BY <1>1, AppendProperties
      <4>2. <<>> \o Append(inbound, r) = Append(<<>> \o inbound, r)
        BY <1>1, <4>1, ConcatEmptySeq
      <4>3. QED BY <2>1, <3>2, <4>2 DEF Unanswered, Serving
    <3>3. QED BY <3>1, <3>2
  <2>3. AbstractWire' = AbstractWire /\ AbstractObserving' = AbstractObserving
    BY <2>1 DEF AbstractWire, AbstractObserving
  <2>4. Contract!Submit(r)
    BY <2>1, <2>2, <2>3 DEF Contract!Submit, Serving, AbstractWire, AbstractObserving
  <2>5. QED BY <2>4 DEF Contract!Next
<1>9. CASE Receive
  <2>1. wire # <<>> /\ wire' = Tail(wire) /\ UNCHANGED <<pc, request, inbound, acked>>
    BY <1>9 DEF Receive, serverVars, readVars, historyVars
  <2>2. AbstractWire # <<>> /\ AbstractWire' = Tail(AbstractWire)
    BY <1>1, <2>1, MappedTail DEF AbstractWire
  <2>3. Unanswered' = Unanswered /\ AbstractObserving' = AbstractObserving
    BY <2>1 DEF Unanswered, Serving, AbstractObserving
  <2>4. Contract!Receive
    BY <2>1, <2>2, <2>3 DEF Contract!Receive, Serving, AbstractWire, AbstractObserving
  <2>5. QED BY <2>4 DEF Contract!Next
<1>10. CASE Start
  <2>1. /\ pc = "stopped" /\ pc' = "poll" /\ UNCHANGED <<inbound, wire>>
        /\ \A s \in Slots : ~acked'[s]
    BY <1>10 DEF Start, readVars
  <2>2. Unanswered' = Unanswered /\ AbstractWire' = AbstractWire
    BY <2>1 DEF Unanswered, Serving, AbstractWire
  <2>3. AbstractObserving = {} /\ AbstractObserving' = {}
    BY <2>1 DEF AbstractObserving
  <2>4. Contract!Open
    BY <2>1, <2>2, <2>3 DEF Contract!Open, Serving, AbstractWire, AbstractObserving
  <2>5. QED BY <2>4 DEF Contract!Next
<1>11. CASE Stop
  <2>1. pc # "stopped" /\ pc' = "stopped" /\ inbound' = <<>> /\ wire' = <<>>
    BY <1>11 DEF Stop, Close
  <2>2. Unanswered' = <<>>
    BY <2>1, ConcatEmptySeq, EmptySeq DEF Unanswered, Serving
  <2>3. AbstractWire' = <<>> /\ AbstractObserving' = {}
    BY <2>1 DEF AbstractWire, AbstractObserving
  <2>4. Contract!Close
    BY <2>1, <2>2, <2>3 DEF Contract!Close, Serving, AbstractWire, AbstractObserving
  <2>5. QED BY <2>4 DEF Contract!Next
<1>12. CASE Reply
  BY <1>12, ReplyAnswers DEF Contract!Next
<1>13. CASE SendChanged
  <2>1. /\ pc = "changed" /\ pc' = "flush" /\ cursor \in Slots
        /\ wire' = Append(wire, Changed(cursor)) /\ UNCHANGED <<inbound, acked>>
    BY <1>13 DEF SendChanged, TypeInv, ControlOK, readVars
  <2>2. acked[cursor]
    BY <2>1 DEF ObservationInv, Toggles, TypeInv, TypeOK
  <2>3. AbstractWire' = Append(AbstractWire, [opcode |-> "CHANGED", code |-> 0,
                                              keyref |-> Keyref[cursor]])
    <3>1. Changed(cursor) \in Frames
      BY <2>1 DEF Frames
    <3>2. AbstractFrame(Changed(cursor)) =
            [opcode |-> "CHANGED", code |-> 0, keyref |-> Keyref[cursor]]
      BY DEF AbstractFrame, Changed
    <3>3. QED BY <1>1, <2>1, <3>1, <3>2, MappedAppend DEF AbstractWire
  <2>4. Keyref[cursor] \in AbstractObserving /\ AbstractObserving' = AbstractObserving
    BY <2>1, <2>2 DEF AbstractObserving
  <2>5. Unanswered' = Unanswered /\ ~Serving /\ ~Serving'
    BY <2>1 DEF Unanswered, Serving
  <2>6. ~Contract!Writing(Keyref[cursor])
    BY <2>5, Zenon DEF Contract!Writing
  <2>7. Contract!Notify(Keyref[cursor])
    BY <2>1, <2>3, <2>4, <2>5, <2>6 DEF Contract!Notify, Serving, AbstractWire, AbstractObserving
  <2>8. QED BY <2>1, <2>7 DEF Contract!Next
<1>14. QED
  BY <1>3, <1>4, <1>5, <1>6, <1>7, <1>8, <1>9, <1>10, <1>11, <1>12, <1>13 DEF Next, Run

\* When requests arrive whole, what the server does is what PROTOCOL.md
\* promises of a connection: a response for each request, in their order, with
\* a code listed for it, and `!` only for keys the client was told are observed,
\* none between the beginning of a WRITE of its key and the response.
THEOREM ContractKept ==
  ASSUME Whole
  PROVE  Spec => Contract!Safety
<1>1. Spec => [](TypeInv /\ ObservationInv /\ WholeInv)
  BY WholeInvariance
<1>2. TypeInv /\ ObservationInv /\ WholeInv /\ [Next]_vars => [Contract!Next]_(Contract!vars)
  BY StepContract
<1>3. QED BY <1>1, <1>2, InitContract, PTL DEF Spec, Contract!Safety

=============================================================================
