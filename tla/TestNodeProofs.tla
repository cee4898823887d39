-------------------------- MODULE TestNodeProofs --------------------------
(***************************************************************************)
(* Proofs about TestNode, for any number of connections, keys and bounds:  *)
(* its types, what broadcast_changed keeps of the protocol's rule for `!`, *)
(* that no change is lost, and that the mirror settles.                    *)
(***************************************************************************)
EXTENDS TestNode, FiniteSetTheorems, SequenceTheorems, WellFoundedInduction, TLAPS

-----------------------------------------------------------------------------
(* Types.                                                                  *)

Steps == {"idle", "value", "written", "observe", "unobserve", "collect", "check", "send",
          "pend", "schedule", "asleep", "clone", "store"}
TaskRecords == [step : Steps, key : Keys, value : Values, changed : BOOLEAN,
                targets : SUBSET Conns]

\* What the record of a task may be: it has connections to visit while it is
\* in the loop over them; OBSERVE is granted for observable keys only; a flush
\* copies to mirror_out, and does nothing before it is scheduled.
WellShaped(a, r) ==
  /\ r.step \in {"check", "send"} <=> r.targets # {}
  /\ r.step = "observe" => r.key \in Observable
  /\ r.step \in {"asleep", "clone", "store"} => r.key = MirrorOut
  /\ a \in Flushes =>
       /\ r.step \in {"idle", "asleep", "clone", "store", "collect", "check", "send"}
       /\ ticket[a] = 0 => r.step = "idle"

TaskShapes == \A a \in Tasks : WellShaped(a, task[a])

Scheduled == {f \in Flushes : ticket[f] # 0}
Mirroring == {c \in Conns : task[c].step \in {"pend", "schedule"}}

\* Each write of the mirror has a flush of its own.
FlushesSuffice ==
  /\ updates <= MaxUpdates
  /\ IsFiniteSet(Mirroring)
  /\ Cardinality(Scheduled) + Cardinality(Mirroring) <= updates

TypeInv == TypeOK /\ TaskShapes /\ FlushesSuffice

LEMMA ConstantTypes ==
  /\ Voltage \in Keys /\ MirrorIn \in Keys /\ MirrorOut \in Keys
  /\ Initial \in Values
  /\ \A c \in Conns : c \in Tasks
  /\ Loop \in Tasks
  /\ \A f \in Flushes : f \in Tasks
  BY TestNodeAssumption DEF Tasks

LEMMA DoingType ==
  ASSUME NEW s \in Steps, NEW k \in Keys, NEW v \in Values, NEW ch \in BOOLEAN
  PROVE  Doing(s, k, v, ch) \in TaskRecords
  BY DEF Doing, TaskRecords

LEMMA IdleType == Idle \in TaskRecords
  BY ConstantTypes DEF Idle, TaskRecords, Steps

\* What the tasks of a type-correct state are.
LEMMA TaskTypes == TypeOK <=> TypeOK /\ task \in [Tasks -> TaskRecords]
  BY DEF TypeOK, TaskRecords, Steps

\* A flush is left for each write of the mirror.
LEMMA FlushIsLeft ==
  ASSUME TypeInv, NEW c \in Conns, task[c].step = "schedule"
  PROVE  Unscheduled # {}
<1>1. IsFiniteSet(Scheduled) /\ IsFiniteSet(Flushes)
  BY TestNodeAssumption, FS_Subset DEF Scheduled
<1>2. c \in Mirroring /\ IsFiniteSet(Mirroring)
  BY DEF Mirroring, TypeInv, FlushesSuffice
<1>3. Cardinality(Mirroring) # 0
  BY <1>2, FS_EmptySet
<1>4. Cardinality(Mirroring) \in Nat /\ Cardinality(Scheduled) \in Nat
      /\ Cardinality(Flushes) \in Nat
  BY <1>1, <1>2, FS_CardinalityType
<1>5. Cardinality(Scheduled) # Cardinality(Flushes)
  BY <1>3, <1>4, TestNodeAssumption DEF TypeInv, FlushesSuffice, TypeOK
<1>6. QED
  BY <1>5 DEF Scheduled, Unscheduled

\* The connections have a least id: broadcast_changed visits one of its targets.
LEMMA LessThan == OpToRel(<, Nat) = {ss \in Nat \X Nat : ss[1] < ss[2]}
  BY DEF OpToRel

LEMMA LeastConn ==
  ASSUME NEW S \in SUBSET Conns, S # {}
  PROVE  \E c \in S : \A d \in S : c <= d
<1>1. S \subseteq Nat
  BY TestNodeAssumption
<1>2. PICK c \in S : \A d \in S : ~(<<d, c>> \in OpToRel(<, Nat))
  BY <1>1, NatLessThanWellFounded, WFMin, Zenon
<1>3. ASSUME NEW d \in S, d < c PROVE FALSE
  <2>1. <<d, c>> \in {ss \in Nat \X Nat : ss[1] < ss[2]}
    BY <1>1, <1>3
  <2>2. QED
    BY <1>2, <2>1, LessThan
<1>4. \A d \in S : c <= d
  BY <1>1, <1>3
<1>5. QED
  BY <1>4

LEMMA TargetType ==
  ASSUME TypeOK, NEW a \in Tasks, task[a].targets # {}
  PROVE  Target(a) \in task[a].targets /\ Target(a) \in Conns
<1>1. task[a].targets \subseteq Conns
  BY TaskTypes DEF TaskRecords
<1>2. \E c \in task[a].targets : \A d \in task[a].targets : c <= d
  BY <1>1, LeastConn
<1>3. QED
  BY <1>1, <1>2 DEF Target

LEMMA VisitedType ==
  ASSUME TypeOK, NEW a \in Tasks
  PROVE  Visited(a) \in TaskRecords
  BY TaskTypes, IdleType DEF TaskRecords, Visited, Steps

\* Frames of the node.
LEMMA FrameTypes ==
  /\ OkFrame \in Frames
  /\ \A k \in Keys : Changed(k) \in Frames
  /\ \A k \in Keys, v \in Values : Value("VALUE", k, v) \in Frames
                                   /\ Value("WRITTEN", k, v) \in Frames
  BY DEF Frames

LEMMA EnqueueType ==
  ASSUME TypeOK, NEW c \in Conns, NEW f \in Frames, Enqueue(c, f)
  PROVE  channel' \in [Conns -> Seq(Frames)]
  BY DEF TypeOK, Enqueue

LEMMA RespondType ==
  ASSUME TypeOK, NEW c \in Conns, NEW f \in Frames, NEW next \in TaskRecords,
         Respond(c, f, next)
  PROVE  /\ channel' \in [Conns -> Seq(Frames)]
         /\ task' \in [Tasks -> TaskRecords]
         /\ conn' \in [Conns -> {"new", "open", "closed"}]
<1>1. task \in [Tasks -> TaskRecords] /\ c \in Tasks
  BY TaskTypes, ConstantTypes
<1>2. task' \in [Tasks -> TaskRecords]
  BY <1>1, IdleType DEF Respond
<1>3. conn' \in [Conns -> {"new", "open", "closed"}]
  BY DEF Respond, TypeOK
<1>4. QED
  BY <1>2, <1>3, EnqueueType DEF Respond

LEMMA AcknowledgeType ==
  ASSUME TypeOK, NEW c \in Conns, NEW k \in Keys, NEW on \in BOOLEAN, Acknowledge(c, k, on)
  PROVE  /\ acked' \in [Conns -> SUBSET Keys]
         /\ belief' \in [Conns -> [Keys -> Values \cup {NoValue}]]
         /\ told' \in [Conns -> SUBSET Keys]
         /\ entitled' \in [Tasks -> SUBSET Conns]
         /\ skipped' = skipped
  BY DEF Acknowledge, TypeOK

LEMMA LearnType ==
  ASSUME TypeOK, NEW c \in Conns, NEW k \in Keys, NEW v \in Values, Learn(c, k, v)
  PROVE  /\ belief' \in [Conns -> [Keys -> Values \cup {NoValue}]]
         /\ told' \in [Conns -> SUBSET Keys]
  BY DEF Learn, TypeOK

\* The type of every variable but those of tasks and the mirror.
Base ==
  /\ value \in [Keys -> Values]
  /\ conn \in [Conns -> {"new", "open", "closed"}]
  /\ mask \in [Conns -> SUBSET Observable]
  /\ channel \in [Conns -> Seq(Frames)]
  /\ failed \in [Conns -> BOOLEAN]
  /\ requests \in Nat /\ updates \in Nat
  /\ acked \in [Conns -> SUBSET Keys]
  /\ belief \in [Conns -> [Keys -> Values \cup {NoValue}]]
  /\ told \in [Conns -> SUBSET Keys]
  /\ entitled \in [Tasks -> SUBSET Conns]
  /\ skipped \subseteq Keys
Mirror ==
  /\ pending \in Values
  /\ generation \in Nat /\ ticket \in [Flushes -> 0..generation]
  /\ stores \in Seq(1..generation)

LEMMA TypeParts == TypeOK <=> Base /\ Mirror /\ task \in [Tasks -> TaskRecords]
  BY DEF TypeOK, Base, Mirror, TaskRecords, Steps

\* One case for each step of the node.
LEMMA TypeStep == TypeInv /\ [Next]_vars => TypeOK'
<1> SUFFICES ASSUME TypeInv, [Next]_vars PROVE TypeOK'
  OBVIOUS
<1>1. TypeOK /\ Base /\ Mirror /\ task \in [Tasks -> TaskRecords]
  BY TypeParts DEF TypeInv
<1>2. Base' /\ Mirror' /\ task' \in [Tasks -> TaskRecords] => TypeOK'
  BY DEF TypeOK, Base, Mirror, TaskRecords, Steps
<1>3. UNCHANGED mirrorVars => Mirror'
  BY <1>1 DEF mirrorVars, Mirror
<1> USE DEF mirrorVars, historyVars
<1>4. ASSUME NEW c \in Conns, Accept(c) \/ Close(c) \/ WriteFrame(c) PROVE TypeOK'
  <2>1. CASE Accept(c)
    BY <1>1, <1>2, <1>3, <2>1 DEF Accept, Base
  <2>2. CASE Close(c)
    BY <1>1, <1>2, <1>3, <2>2 DEF Close, Base
  <2>3. CASE WriteFrame(c)
    <3>1. channel[c] \in Seq(Frames) /\ channel[c] # <<>>
      BY <1>1, <2>3 DEF WriteFrame, Base
    <3>2. Tail(channel[c]) \in Seq(Frames) /\ <<>> \in Seq(Frames)
      BY <3>1
    <3>3. channel' \in [Conns -> Seq(Frames)]
      BY <1>1, <2>3, <3>2 DEF WriteFrame, Base
    <3>4. failed' \in [Conns -> BOOLEAN]
      BY <1>1, <2>3 DEF WriteFrame, Base
    <3>5. Base'
      BY <1>1, <2>3, <3>3, <3>4 DEF WriteFrame, Base
    <3>6. QED
      BY <1>1, <1>2, <1>3, <2>3, <3>5 DEF WriteFrame
  <2>4. QED
    BY <1>4, <2>1, <2>2, <2>3
<1>5. ASSUME NEW c \in Conns, NEW k \in Keys, Get(c, k) PROVE TypeOK'
  <2>1. Doing("value", k, value[k], FALSE) \in TaskRecords
    BY <1>1, DoingType DEF Base, Steps
  <2>2. task' \in [Tasks -> TaskRecords]
    BY <1>1, <1>5, <2>1 DEF Get
  <2>3. value[k] \in Values
    BY <1>1 DEF Base
  <2>4. belief' \in [Conns -> [Keys -> Values \cup {NoValue}]] /\ told' \in [Conns -> SUBSET Keys]
    BY <1>1, <1>5, <2>3, LearnType DEF Get
  <2>5. Base'
    BY <1>1, <1>5, <2>2, <2>4, ConstantTypes DEF Get, Dispatch, Base
  <2>6. QED
    BY <1>1, <1>2, <1>5, <1>3, <2>2, <2>5 DEF Get
<1>6. ASSUME NEW c \in Conns, NEW k \in Keys, NEW v \in Values, Write(c, k, v) PROVE TypeOK'
  <2>1. (k \in Observable /\ value[k] # v) \in BOOLEAN
    OBVIOUS
  <2>2. Doing("written", k, v, k \in Observable /\ value[k] # v) \in TaskRecords
    BY <2>1, DoingType DEF Steps
  <2>3. task' \in [Tasks -> TaskRecords]
    BY <1>1, <1>6, <2>2 DEF Write
  <2>4. belief' \in [Conns -> [Keys -> Values \cup {NoValue}]] /\ told' \in [Conns -> SUBSET Keys]
    BY <1>1, <1>6, LearnType DEF Write
  <2>5. QED
    BY <1>1, <1>2, <1>6, <2>3, <2>4 DEF Write, Dispatch, Base, Mirror
<1>7. ASSUME NEW c \in Conns, NEW k \in Keys, Observe(c, k) PROVE TypeOK'
  <2>1. Doing("observe", k, Initial, FALSE) \in TaskRecords
    BY DoingType, ConstantTypes DEF Steps
  <2>2. /\ channel' \in [Conns -> Seq(Frames)]
        /\ task' \in [Tasks -> TaskRecords]
        /\ conn' \in [Conns -> {"new", "open", "closed"}]
    BY <1>1, <1>7, <2>1, FrameTypes, RespondType DEF Observe
  <2>3. Acknowledge(c, k, TRUE)
    BY <1>7 DEF Observe
  <2>4. /\ acked' \in [Conns -> SUBSET Keys]
        /\ belief' \in [Conns -> [Keys -> Values \cup {NoValue}]]
        /\ told' \in [Conns -> SUBSET Keys]
        /\ entitled' \in [Tasks -> SUBSET Conns]
        /\ skipped' = skipped
    BY <1>1, <2>3, AcknowledgeType
  <2>5. Base'
    BY <1>1, <1>7, <2>2, <2>4 DEF Observe, Dispatch, Base
  <2>6. QED
    BY <1>1, <1>2, <1>7, <1>3, <2>2, <2>5 DEF Observe
<1>8. ASSUME NEW c \in Conns, NEW k \in Keys, Unobserve(c, k) PROVE TypeOK'
  <2>1. Doing("unobserve", k, Initial, FALSE) \in TaskRecords
    BY DoingType, ConstantTypes DEF Steps
  <2>2. task' \in [Tasks -> TaskRecords]
    BY <1>1, <1>8, <2>1 DEF Unobserve
  <2>3. Base'
    BY <1>1, <1>8, <2>2, ConstantTypes DEF Unobserve, Dispatch, Base
  <2>4. QED
    BY <1>1, <1>2, <1>8, <1>3, <2>2, <2>3 DEF Unobserve
<1>9. ASSUME NEW c \in Conns, NEW v \in Values, WriteMirror(c, v) PROVE TypeOK'
  <2>1. Doing("pend", MirrorIn, v, FALSE) \in TaskRecords
    BY DoingType, ConstantTypes DEF Steps
  <2>2. task' \in [Tasks -> TaskRecords]
    BY <1>1, <1>9, <2>1 DEF WriteMirror
  <2>3. Base'
    BY <1>1, <1>9, <2>2, ConstantTypes DEF WriteMirror, Dispatch, Base
  <2>4. QED
    BY <1>1, <1>2, <1>9, <1>3, <2>2, <2>3 DEF WriteMirror
<1>10. ASSUME NEW v \in Values, UpdateVoltage(v) PROVE TypeOK'
  <2>1. Doing("collect", Voltage, v, TRUE) \in TaskRecords
    BY DoingType, ConstantTypes DEF Steps
  <2>2. task' \in [Tasks -> TaskRecords]
    BY <1>1, <1>10, <2>1, IdleType DEF UpdateVoltage
  <2>3. Base'
    BY <1>1, <1>10, <2>2, ConstantTypes DEF UpdateVoltage, Base
  <2>4. QED
    BY <1>1, <1>2, <1>10, <1>3, <2>2, <2>3 DEF UpdateVoltage
<1>11. ASSUME NEW a \in Tasks, Collect(a) PROVE TypeOK'
  <2>1. Registered \subseteq Conns
    BY DEF Registered
  <2>2. [task[a] EXCEPT !.step = "check", !.targets = Registered] \in TaskRecords
    BY <1>1, <2>1 DEF TaskRecords, Steps
  <2>3. task' \in [Tasks -> TaskRecords]
    BY <1>1, <1>11, <2>2, IdleType DEF Collect
  <2>4. entitled' \in [Tasks -> SUBSET Conns]
    BY <1>1, <1>11, <2>1 DEF Collect, Base
  <2>5. QED
    BY <1>1, <1>2, <1>11, <2>3, <2>4 DEF Collect, Base, Mirror
<1>12. ASSUME NEW a \in Tasks, CheckMask(a) PROVE TypeOK'
  <2>1. [task[a] EXCEPT !.step = "send"] \in TaskRecords
    BY <1>1 DEF TaskRecords, Steps
  <2>2. task' \in [Tasks -> TaskRecords]
    BY <1>1, <1>12, <2>1, VisitedType DEF CheckMask
  <2>3. QED
    BY <1>1, <1>2, <1>12, <2>2 DEF CheckMask, Base, Mirror
<1>13. ASSUME NEW a \in Tasks, SendChanged(a) PROVE TypeOK'
  <2>1. Target(a) \in Conns
    BY <1>1, <1>13, TargetType DEF SendChanged, TypeInv, TaskShapes, WellShaped
  <2>2. task[a].key \in Keys
    BY <1>1 DEF TaskRecords
  <2>3. channel' \in [Conns -> Seq(Frames)]
    BY <1>1, <1>13, <2>1, <2>2, EnqueueType, FrameTypes DEF SendChanged
  <2>4. told' \in [Conns -> SUBSET Keys]
    BY <1>1, <1>13, <2>1, <2>2 DEF SendChanged, Base
  <2>5. task' \in [Tasks -> TaskRecords]
    BY <1>1, <1>13, VisitedType DEF SendChanged
  <2>6. QED
    BY <1>1, <1>2, <1>13, <2>3, <2>4, <2>5 DEF SendChanged, Base, Mirror
<1>14. ASSUME NEW c \in Conns, SendValue(c) PROVE TypeOK'
  <2>1. Value("VALUE", task[c].key, task[c].value) \in Frames
    BY <1>1, ConstantTypes, FrameTypes DEF TaskRecords
  <2>2. /\ channel' \in [Conns -> Seq(Frames)]
        /\ task' \in [Tasks -> TaskRecords]
        /\ conn' \in [Conns -> {"new", "open", "closed"}]
    BY <1>1, <1>14, <2>1, IdleType, RespondType DEF SendValue
  <2>3. QED
    BY <1>1, <1>2, <1>14, <2>2 DEF SendValue, Base, Mirror
<1>15. ASSUME NEW c \in Conns, SendWritten(c) PROVE TypeOK'
  <2>1. Value("WRITTEN", task[c].key, task[c].value) \in Frames /\ task[c].key \in Keys
    BY <1>1, ConstantTypes, FrameTypes DEF TaskRecords
  <2>2. (IF task[c].changed THEN [task[c] EXCEPT !.step = "collect"] ELSE Idle) \in TaskRecords
    BY <1>1, ConstantTypes, IdleType DEF TaskRecords, Steps
  <2>3. /\ channel' \in [Conns -> Seq(Frames)]
        /\ task' \in [Tasks -> TaskRecords]
        /\ conn' \in [Conns -> {"new", "open", "closed"}]
    BY <1>1, <1>15, <2>1, <2>2, RespondType DEF SendWritten
  <2>4. skipped' \subseteq Keys
    BY <1>1, <1>15, <2>1 DEF SendWritten, Base
  <2>5. QED
    BY <1>1, <1>2, <1>15, <2>3, <2>4 DEF SendWritten, Base, Mirror
<1>16. ASSUME NEW c \in Conns, SetMask(c), task[c].key \in Observable PROVE TypeOK'
  <2>1. task' \in [Tasks -> TaskRecords]
    BY <1>1, <1>16, IdleType DEF SetMask
  <2>2. mask' \in [Conns -> SUBSET Observable]
    BY <1>1, <1>16 DEF SetMask, Base
  <2>3. QED
    BY <1>1, <1>2, <1>16, <2>1, <2>2 DEF SetMask, Base, Mirror
<1>17. ASSUME NEW c \in Conns, SendUnobserved(c) PROVE TypeOK'
  <2>1. task[c].key \in Keys
    BY <1>1, ConstantTypes DEF TaskRecords
  <2>2. /\ channel' \in [Conns -> Seq(Frames)]
        /\ task' \in [Tasks -> TaskRecords]
        /\ conn' \in [Conns -> {"new", "open", "closed"}]
    BY <1>1, <1>17, IdleType, FrameTypes, RespondType DEF SendUnobserved
  <2>3. Acknowledge(c, task[c].key, FALSE)
    BY <1>17 DEF SendUnobserved
  <2>4. QED
    BY <1>1, <1>2, <1>17, <2>1, <2>2, <2>3, AcknowledgeType DEF SendUnobserved, Base, Mirror
<1>18. ASSUME NEW c \in Conns, StorePending(c) PROVE TypeOK'
  <2>1. [task[c] EXCEPT !.step = "schedule"] \in TaskRecords /\ task[c].value \in Values
    BY <1>1, ConstantTypes DEF TaskRecords, Steps
  <2>2. task' = [task EXCEPT ![c] = [task[c] EXCEPT !.step = "schedule"]]
    BY <1>18 DEF StorePending
  <2>3. QED
    BY <1>1, <1>2, <1>18, <2>1, <2>2 DEF StorePending, Base, Mirror
<1>19. ASSUME NEW c \in Conns, Schedule(c) PROVE TypeOK'
  <2>1. PICK f \in Flushes :
          /\ ticket[f] = 0
          /\ ticket' = [ticket EXCEPT ![f] = generation']
          /\ task' = [task EXCEPT ![c].step = "written",
                                  ![f] = Doing("asleep", MirrorOut, Initial, FALSE)]
    BY <1>19, FlushIsLeft DEF Schedule, Unscheduled
  <2>2. generation' = generation + 1 /\ generation \in Nat
    BY <1>1, <1>19 DEF Schedule, Mirror
  <2>3. Doing("asleep", MirrorOut, Initial, FALSE) \in TaskRecords
    BY ConstantTypes, DoingType DEF Steps
  <2>4. [task[c] EXCEPT !.step = "written"] \in TaskRecords
    BY <1>1, ConstantTypes DEF TaskRecords, Steps
  <2>5. task' \in [Tasks -> TaskRecords]
    BY <1>1, <2>1, <2>3, <2>4, ConstantTypes
  <2>6. ticket' \in [Flushes -> 0 .. generation']
    BY <1>1, <2>1, <2>2 DEF Mirror
  <2>7. stores' \in Seq(1 .. generation')
    <3>1. stores \in Seq(1 .. generation) /\ stores' = stores
      BY <1>1, <1>19 DEF Schedule, Mirror
    <3>2. 1 .. generation \subseteq 1 .. generation'
      BY <2>2
    <3>3. QED
      BY <3>1, <3>2, SeqMonotonic
  <2>8. Mirror'
    BY <1>1, <1>19, <2>2, <2>6, <2>7 DEF Schedule, Mirror
  <2>9. QED
    BY <1>1, <1>2, <1>19, <2>5, <2>8 DEF Schedule, Base
<1>20. ASSUME NEW f \in Flushes, Wake(f) \/ ClonePending(f) PROVE TypeOK'
  <2>1. task[f] \in TaskRecords /\ pending \in Values
    BY <1>1, ConstantTypes DEF Mirror
  <2>2. [task[f] EXCEPT !.step = "clone"] \in TaskRecords
    BY <2>1 DEF TaskRecords, Steps
  <2>3. [task[f] EXCEPT !.step = "store", !.value = pending] \in TaskRecords
    BY <2>1 DEF TaskRecords, Steps
  <2>4. CASE Wake(f)
    <3>1. task' \in [Tasks -> TaskRecords]
      BY <1>1, <2>2, <2>4, IdleType DEF Wake
    <3>2. QED
      BY <1>1, <1>2, <1>3, <2>4, <3>1 DEF Wake, Base
  <2>5. CASE ClonePending(f)
    <3>1. task' = [task EXCEPT ![f] = [task[f] EXCEPT !.step = "store", !.value = pending]]
      BY <2>5 DEF ClonePending
    <3>2. task' \in [Tasks -> TaskRecords]
      BY <1>1, <2>3, <3>1
    <3>3. QED
      BY <1>1, <1>2, <1>3, <2>5, <3>2 DEF ClonePending, Base
  <2>6. QED
    BY <1>20, <2>4, <2>5
<1>21. ASSUME NEW f \in Flushes, StoreOut(f) PROVE TypeOK'
  <2>1. task[f].value \in Values /\ [task[f] EXCEPT !.step = "collect"] \in TaskRecords
    BY <1>1, ConstantTypes DEF TaskRecords, Steps
  <2>2. task' \in [Tasks -> TaskRecords]
    BY <1>1, <1>21, <2>1, IdleType DEF StoreOut
  <2>3. ticket[f] \in 1 .. generation
    BY <1>1, <1>21, ConstantTypes DEF StoreOut, TypeInv, TaskShapes, WellShaped, Mirror
  <2>4. stores' \in Seq(1 .. generation)
    BY <1>1, <1>21, <2>3 DEF StoreOut, Mirror
  <2>5. Mirror'
    BY <1>1, <1>21, <2>4 DEF StoreOut, Mirror
  <2>6. Base'
    BY <1>1, <1>21, <2>1, ConstantTypes DEF StoreOut, Base
  <2>7. QED
    BY <1>2, <2>2, <2>5, <2>6
<1>22. CASE UNCHANGED vars
  BY <1>1, <1>2, <1>3, <1>22 DEF vars, Base
<1>23. \A c \in Conns : SetMask(c) => task[c].key \in Observable
  BY ConstantTypes DEF TypeInv, TaskShapes, WellShaped, SetMask
<1>24. QED
  BY <1>4, <1>5, <1>6, <1>7, <1>8, <1>9, <1>10, <1>11, <1>12, <1>13, <1>14, <1>15, <1>16, <1>17,
     <1>18, <1>19, <1>20, <1>21, <1>22, <1>23 DEF Next, Continue

\* A step that changes the record of one task, and not whether it is about to
\* schedule a flush.
LEMMA OneTask ==
  ASSUME TypeInv, NEW a \in Tasks, NEW r,
         task' = [task EXCEPT ![a] = r], WellShaped(a, r), UNCHANGED <<ticket, updates>>,
         task[a].step \in {"pend", "schedule"} <=> r.step \in {"pend", "schedule"}
  PROVE  TaskShapes' /\ FlushesSuffice'
<1>1. task \in [Tasks -> TaskRecords]
  BY TaskTypes DEF TypeInv
<1>2. TaskShapes'
  BY <1>1 DEF TypeInv, TaskShapes, WellShaped
<1>3. Mirroring' = Mirroring
  BY <1>1, ConstantTypes DEF Mirroring
<1>4. QED
  BY <1>2, <1>3 DEF TypeInv, FlushesSuffice, Scheduled

LEMMA ShapeStep == TypeInv /\ [Next]_vars => (TaskShapes /\ FlushesSuffice)'
<1> SUFFICES ASSUME TypeInv, [Next]_vars PROVE TaskShapes' /\ FlushesSuffice'
  OBVIOUS
<1> DEFINE Goal == TaskShapes' /\ FlushesSuffice'
<1>1. TypeOK /\ task \in [Tasks -> TaskRecords] /\ TaskShapes /\ FlushesSuffice
  BY TaskTypes DEF TypeInv
<1>2. \A c \in Conns : c \in Tasks /\ c \notin Flushes
  BY TestNodeAssumption DEF Tasks
<1>3. Loop \in Tasks \ Flushes /\ \A f \in Flushes : f \in Tasks
  BY TestNodeAssumption DEF Tasks
<1>4. \A a \in Tasks : WellShaped(a, Idle)
  BY DEF WellShaped, Idle
<1>5. ASSUME UNCHANGED <<task, ticket, updates>> PROVE Goal
  BY <1>1, <1>5 DEF TaskShapes, WellShaped, FlushesSuffice, Scheduled, Mirroring
<1> USE DEF mirrorVars, historyVars
<1>6. ASSUME NEW c \in Conns, NEW k \in Keys, Get(c, k) \/ Unobserve(c, k) PROVE Goal
  <2>1. WellShaped(c, Doing("value", k, value[k], FALSE))
        /\ WellShaped(c, Doing("unobserve", k, Initial, FALSE))
    BY <1>2 DEF WellShaped, Doing
  <2>2. Doing("value", k, value[k], FALSE).step = "value"
        /\ Doing("unobserve", k, Initial, FALSE).step = "unobserve"
    BY DEF Doing
  <2>3. CASE Get(c, k)
    BY <1>2, <2>1, <2>2, <2>3, OneTask DEF Get, Dispatch
  <2>4. CASE Unobserve(c, k)
    BY <1>2, <2>1, <2>2, <2>4, OneTask DEF Unobserve, Dispatch
  <2>5. QED
    BY <1>6, <2>3, <2>4
<1>7. ASSUME NEW c \in Conns, NEW k \in Keys, NEW v \in Values, Write(c, k, v) PROVE Goal
  <2> DEFINE r == Doing("written", k, v, k \in Observable /\ value[k] # v)
  <2>1. WellShaped(c, r) /\ r.step = "written"
    BY <1>2 DEF WellShaped, Doing
  <2>2. task' = [task EXCEPT ![c] = r] /\ task[c].step = "idle" /\ UNCHANGED <<ticket, updates>>
    BY <1>7 DEF Write, Dispatch
  <2> HIDE DEF r
  <2>3. QED
    BY <1>2, <2>1, <2>2, OneTask
<1>8. ASSUME NEW c \in Conns, NEW k \in Keys, Observe(c, k) PROVE Goal
  <2> DEFINE r == IF failed[c] THEN Idle ELSE Doing("observe", k, Initial, FALSE)
  <2>1. WellShaped(c, r) /\ r.step \in {"idle", "observe"}
    BY <1>2, <1>4, <1>8 DEF WellShaped, Doing, Idle, Observe
  <2>2. task' = [task EXCEPT ![c] = r] /\ task[c].step = "idle" /\ UNCHANGED <<ticket, updates>>
    BY <1>8 DEF Observe, Dispatch, Respond
  <2> HIDE DEF r
  <2>3. QED
    BY <1>2, <2>1, <2>2, OneTask
<1>9. ASSUME NEW c \in Conns, SendValue(c) \/ SendUnobserved(c) \/ SetMask(c) PROVE Goal
  <2>1. task' = [task EXCEPT ![c] = Idle] /\ UNCHANGED <<ticket, updates>>
    BY <1>9 DEF SendValue, SendUnobserved, SetMask, Respond
  <2>2. task[c].step \in {"value", "unobserve", "observe"} /\ Idle.step = "idle"
    BY <1>9 DEF SendValue, SendUnobserved, SetMask, Idle
  <2>3. QED
    BY <1>2, <1>4, <2>1, <2>2, OneTask
<1>10. ASSUME NEW c \in Conns, SendWritten(c) PROVE Goal
  <2> DEFINE r == IF failed[c] THEN Idle
                  ELSE IF task[c].changed THEN [task[c] EXCEPT !.step = "collect"] ELSE Idle
  <2>1. task[c].step = "written" /\ task[c].targets = {} /\ task[c] \in TaskRecords
    BY <1>1, <1>2, <1>10 DEF SendWritten, TaskShapes, WellShaped
  <2>2. WellShaped(c, r) /\ r.step \in {"idle", "collect"}
    BY <1>2, <1>4, <2>1 DEF WellShaped, Idle, TaskRecords
  <2>3. task' = [task EXCEPT ![c] = r] /\ UNCHANGED <<ticket, updates>>
    BY <1>10 DEF SendWritten, Respond
  <2> HIDE DEF r
  <2>4. QED
    BY <1>2, <2>1, <2>2, <2>3, OneTask
<1>11. ASSUME NEW c \in Conns, StorePending(c) PROVE Goal
  <2> DEFINE r == [task[c] EXCEPT !.step = "schedule"]
  <2>1. task[c].step = "pend" /\ task[c].targets = {} /\ task[c] \in TaskRecords
    BY <1>1, <1>2, <1>11 DEF StorePending, TaskShapes, WellShaped
  <2>2. WellShaped(c, r) /\ r.step = "schedule"
    BY <1>2, <2>1 DEF WellShaped, TaskRecords
  <2>3. task' = [task EXCEPT ![c] = r] /\ UNCHANGED <<ticket, updates>>
    BY <1>11 DEF StorePending
  <2> HIDE DEF r
  <2>4. QED
    BY <1>2, <2>1, <2>2, <2>3, OneTask
<1>12. ASSUME NEW a \in Tasks, Collect(a) PROVE Goal
  <2> DEFINE r == IF Registered = {} THEN Idle
                  ELSE [task[a] EXCEPT !.step = "check", !.targets = Registered]
  <2>1. task[a].step = "collect" /\ task[a] \in TaskRecords /\ WellShaped(a, task[a])
    BY <1>1, <1>12 DEF Collect, TaskShapes
  <2>2. WellShaped(a, r) /\ r.step \in {"idle", "check"}
    BY <1>4, <2>1 DEF WellShaped, Idle, TaskRecords
  <2>3. task' = [task EXCEPT ![a] = r] /\ UNCHANGED <<ticket, updates>>
    BY <1>12 DEF Collect
  <2> HIDE DEF r
  <2>4. QED
    BY <2>1, <2>2, <2>3, OneTask
<1>13. ASSUME NEW a \in Tasks, CheckMask(a) \/ SendChanged(a) PROVE Goal
  <2>1. task[a].step \in {"check", "send"} /\ task[a] \in TaskRecords /\ WellShaped(a, task[a])
    BY <1>1, <1>13 DEF CheckMask, SendChanged, TaskShapes
  <2>2. Target(a) \in task[a].targets
    BY <1>1, <2>1, TargetType DEF WellShaped
  <2>3. WellShaped(a, Visited(a)) /\ Visited(a).step \in {"idle", "check"}
    BY <1>4, <2>1, <2>2 DEF WellShaped, Visited, Idle, TaskRecords
  <2>4. WellShaped(a, [task[a] EXCEPT !.step = "send"])
        /\ [task[a] EXCEPT !.step = "send"].step = "send"
    BY <2>1 DEF WellShaped, TaskRecords
  <2>5. \/ task' = [task EXCEPT ![a] = Visited(a)]
        \/ task' = [task EXCEPT ![a] = [task[a] EXCEPT !.step = "send"]]
    BY <1>13 DEF CheckMask, SendChanged
  <2>6. UNCHANGED <<ticket, updates>>
    BY <1>13 DEF CheckMask, SendChanged
  <2>7. QED
    BY <2>1, <2>3, <2>4, <2>5, <2>6, OneTask
<1>14. ASSUME NEW f \in Flushes, Wake(f) \/ ClonePending(f) \/ StoreOut(f) PROVE Goal
  <2>1. task[f].step \in {"asleep", "clone", "store"} /\ task[f] \in TaskRecords
        /\ WellShaped(f, task[f])
    BY <1>1, <1>3, <1>14 DEF Wake, ClonePending, StoreOut, TaskShapes
  <2>2. \/ task' = [task EXCEPT ![f] = Idle]
        \/ task' = [task EXCEPT ![f] = [task[f] EXCEPT !.step = "clone"]]
        \/ task' = [task EXCEPT ![f] = [task[f] EXCEPT !.step = "store", !.value = pending]]
        \/ task' = [task EXCEPT ![f] = [task[f] EXCEPT !.step = "collect"]]
    BY <1>14 DEF Wake, ClonePending, StoreOut
  <2>3. UNCHANGED <<ticket, updates>>
    BY <1>14 DEF Wake, ClonePending, StoreOut
  <2>4. WellShaped(f, [task[f] EXCEPT !.step = "clone"])
        /\ [task[f] EXCEPT !.step = "clone"].step = "clone"
    BY <2>1 DEF WellShaped, TaskRecords
  <2>5. WellShaped(f, [task[f] EXCEPT !.step = "store", !.value = pending])
        /\ [task[f] EXCEPT !.step = "store", !.value = pending].step = "store"
    BY <2>1 DEF WellShaped, TaskRecords
  <2>6. WellShaped(f, [task[f] EXCEPT !.step = "collect"])
        /\ [task[f] EXCEPT !.step = "collect"].step = "collect"
    BY <2>1 DEF WellShaped, TaskRecords
  <2>7. Idle.step = "idle"
    BY DEF Idle
  <2>8. QED
    BY <1>3, <1>4, <2>1, <2>2, <2>3, <2>4, <2>5, <2>6, <2>7, OneTask
<1>15. ASSUME NEW v \in Values, UpdateVoltage(v) PROVE Goal
  <2>1. WellShaped(Loop, Doing("collect", Voltage, v, TRUE))
        /\ Doing("collect", Voltage, v, TRUE).step = "collect" /\ Idle.step = "idle"
    BY <1>3 DEF WellShaped, Doing, Idle
  <2>2. \E r : /\ task' = [task EXCEPT ![Loop] = r] /\ WellShaped(Loop, r)
               /\ r.step \in {"idle", "collect"}
    BY <1>3, <1>4, <1>15, <2>1 DEF UpdateVoltage
  <2>3. TaskShapes'
    BY <1>1, <1>3, <1>15, <2>2 DEF UpdateVoltage, TaskShapes, WellShaped
  <2>4. Mirroring' = Mirroring
    BY <1>1, <1>2, <1>3, <1>15, <2>2, TestNodeAssumption DEF UpdateVoltage, Mirroring
  <2>5. Scheduled' = Scheduled /\ updates' = updates + 1 /\ updates' <= MaxUpdates
    BY <1>1, <1>15, TestNodeAssumption DEF UpdateVoltage, Scheduled, TypeOK
  <2>6. IsFiniteSet(Scheduled)
    BY TestNodeAssumption, FS_Subset DEF Scheduled
  <2>7. Cardinality(Scheduled) \in Nat /\ Cardinality(Mirroring) \in Nat
    BY <1>1, <2>6, FS_CardinalityType DEF FlushesSuffice
  <2>8. Cardinality(Scheduled) + Cardinality(Mirroring) <= updates + 1
    BY <1>1, <2>7 DEF FlushesSuffice, TypeOK
  <2>9. QED
    BY <1>1, <2>3, <2>4, <2>5, <2>8 DEF FlushesSuffice
<1>16. ASSUME NEW c \in Conns, NEW v \in Values, WriteMirror(c, v) PROVE Goal
  <2> DEFINE r == Doing("pend", MirrorIn, v, FALSE)
  <2>1. WellShaped(c, r) /\ r.step = "pend"
    BY <1>2 DEF WellShaped, Doing
  <2>2. task' = [task EXCEPT ![c] = r] /\ task[c].step = "idle" /\ ticket' = ticket
    BY <1>16 DEF WriteMirror, Dispatch
  <2>3. updates' = updates + 1 /\ updates' <= MaxUpdates
    BY <1>1, <1>16, TestNodeAssumption DEF WriteMirror, TypeOK
  <2> HIDE DEF r
  <2>4. TaskShapes'
    BY <1>1, <1>2, <2>1, <2>2 DEF TaskShapes, WellShaped
  <2>5. Mirroring' = Mirroring \cup {c} /\ c \notin Mirroring
    BY <1>1, <1>2, <2>1, <2>2 DEF Mirroring
  <2>6. IsFiniteSet(Mirroring') /\ Cardinality(Mirroring') = Cardinality(Mirroring) + 1
    BY <1>1, <2>5, FS_AddElement DEF FlushesSuffice
  <2>7. Scheduled' = Scheduled
    BY <2>2 DEF Scheduled
  <2>8. IsFiniteSet(Scheduled)
    BY TestNodeAssumption, FS_Subset DEF Scheduled
  <2>9. Cardinality(Scheduled) \in Nat /\ Cardinality(Mirroring) \in Nat
    BY <1>1, <2>8, FS_CardinalityType DEF FlushesSuffice
  <2>10. Cardinality(Scheduled) + Cardinality(Mirroring) <= updates
    BY <1>1 DEF FlushesSuffice
  <2>11. Cardinality(Scheduled') + Cardinality(Mirroring') <= updates'
    BY <1>1, <2>3, <2>6, <2>7, <2>9, <2>10 DEF TypeOK
  <2>12. QED
    BY <2>3, <2>4, <2>6, <2>11 DEF FlushesSuffice
<1>17. ASSUME NEW c \in Conns, Schedule(c) PROVE Goal
  <2>1. PICK f \in Flushes :
          /\ ticket[f] = 0
          /\ ticket' = [ticket EXCEPT ![f] = generation']
          /\ task' = [task EXCEPT ![c].step = "written",
                                  ![f] = Doing("asleep", MirrorOut, Initial, FALSE)]
    BY <1>17, FlushIsLeft DEF Schedule, Unscheduled
  <2>2. generation' # 0 /\ updates' = updates /\ task[c].step = "schedule"
    BY <1>1, <1>17 DEF Schedule, TypeOK
  <2>3. /\ task'[c] = [task[c] EXCEPT !.step = "written"]
        /\ task'[f] = Doing("asleep", MirrorOut, Initial, FALSE)
        /\ \A a \in Tasks \ {c, f} : task'[a] = task[a]
    BY <1>1, <1>2, <1>3, <2>1
  <2>4. /\ ticket'[f] # 0 /\ \A g \in Flushes \ {f} : ticket'[g] = ticket[g]
    BY <1>1, <2>1, <2>2 DEF TypeOK
  <2>5. TaskShapes'
    <3>1. ASSUME NEW a \in Tasks PROVE WellShaped(a, task[a])'
      <4>1. CASE a = c
        <5>1. task[c].targets = {} /\ task[c] \in TaskRecords
          BY <1>1, <1>2, <2>2 DEF TaskShapes, WellShaped
        <5>2. QED
          BY <1>2, <2>3, <4>1, <5>1 DEF WellShaped, TaskRecords
      <4>2. CASE a = f
        BY <2>3, <2>4, <4>2 DEF WellShaped, Doing
      <4>3. CASE a \notin {c, f}
        BY <1>1, <2>3, <2>4, <4>3 DEF TaskShapes, WellShaped
      <4>4. QED
        BY <4>1, <4>2, <4>3
    <3>2. QED
      BY <3>1 DEF TaskShapes
  <2>6. Mirroring' = Mirroring \ {c} /\ c \in Mirroring
    <3>1. task'[c].step = "written"
      BY <1>1, <1>2, <2>3 DEF TaskRecords
    <3>2. \A d \in Conns \ {c} : task'[d] = task[d]
      BY <1>2, <2>3
    <3>3. QED
      BY <2>2, <3>1, <3>2 DEF Mirroring
  <2>7. Scheduled' = Scheduled \cup {f} /\ f \notin Scheduled
    BY <2>1, <2>4 DEF Scheduled
  <2>8. IsFiniteSet(Scheduled)
    BY TestNodeAssumption, FS_Subset DEF Scheduled
  <2>9. Cardinality(Scheduled') = Cardinality(Scheduled) + 1
    BY <2>7, <2>8, FS_AddElement
  <2>10. IsFiniteSet(Mirroring') /\ Cardinality(Mirroring') = Cardinality(Mirroring) - 1
    BY <1>1, <2>6, FS_RemoveElement DEF FlushesSuffice
  <2>11. Cardinality(Scheduled) \in Nat /\ Cardinality(Mirroring) \in Nat
    BY <1>1, <2>8, FS_CardinalityType DEF FlushesSuffice
  <2>12. Cardinality(Scheduled') + Cardinality(Mirroring') <= updates'
    BY <1>1, <2>2, <2>9, <2>10, <2>11 DEF FlushesSuffice, TypeOK
  <2>13. QED
    BY <1>1, <2>2, <2>5, <2>10, <2>12 DEF FlushesSuffice
<1>18. ASSUME NEW c \in Conns, Accept(c) \/ Close(c) \/ WriteFrame(c) PROVE Goal
  BY <1>5, <1>18 DEF Accept, Close, WriteFrame
<1>19. CASE UNCHANGED vars
  BY <1>5, <1>19 DEF vars
<1>20. QED
  BY <1>6, <1>7, <1>8, <1>9, <1>10, <1>11, <1>12, <1>13, <1>14, <1>15, <1>16, <1>17, <1>18, <1>19
     DEF Next, Continue

LEMMA TypeInit == Init => TypeInv
<1> SUFFICES ASSUME Init PROVE TypeInv
  OBVIOUS
<1>1. task \in [Tasks -> TaskRecords]
  BY IdleType DEF Init
<1>2. Base /\ Mirror
  BY TestNodeAssumption, ConstantTypes, EmptySeq DEF Init, Base, Mirror
<1>3. TypeOK
  BY <1>1, <1>2, TypeParts
<1>4. TaskShapes
  BY DEF Init, TaskShapes, WellShaped, Idle
<1>5. Scheduled = {} /\ Mirroring = {}
  BY ConstantTypes DEF Init, Scheduled, Mirroring, Idle
<1>6. FlushesSuffice
  BY <1>5, FS_EmptySet, TestNodeAssumption DEF Init, FlushesSuffice
<1>7. QED
  BY <1>3, <1>4, <1>6 DEF TypeInv

LEMMA TypeInvariance == Spec => []TypeInv
<1>1. TypeInv /\ [Next]_vars => TypeInv'
  BY TypeStep, ShapeStep DEF TypeInv
<1>2. QED
  BY <1>1, TypeInit, PTL DEF Spec

\* Every variable of the node has its type, for any connections, keys, flushes
\* and bounds; a flush is left for each write of mirror_in.
THEOREM NodeTypes == Spec => []TypeOK
<1>1. TypeInv => TypeOK
  BY DEF TypeInv
<1>2. QED
  BY <1>1, TypeInvariance, PTL

-----------------------------------------------------------------------------
(* What broadcast_changed keeps of the rule for `!`.                       *)

\* A connection's mask holds only what its client was told it observes, and a
\* broadcast in its loop knows of each target that was told so.
MaskInv ==
  \A c \in Conns :
    /\ mask[c] \subseteq acked[c] /\ acked[c] \subseteq Observable
    /\ task[c].step = "observe"   => task[c].key \in acked[c]
    /\ task[c].step = "unobserve" => task[c].key \notin mask[c]

EntitledInv ==
  \A a \in Tasks :
    /\ \A c \in task[a].targets : task[a].key \in acked[c] => c \in entitled[a]
    /\ task[a].step = "send" => Target(a) \in entitled[a]

LEMMA TargetKept ==
  ASSUME NEW a, task'[a].targets = task[a].targets
  PROVE  Target(a)' = Target(a)
  BY DEF Target

\* A step of a task that touches no mask and leaves the loop, or is not in it.
LEMMA MaskQuiet ==
  ASSUME TypeInv, MaskInv, EntitledInv, NEW a \in Tasks, NEW r,
         task' = [task EXCEPT ![a] = r], UNCHANGED <<mask, acked, entitled>>,
         r.targets = {}, r.step \notin {"observe", "unobserve", "send"}
  PROVE  MaskInv' /\ EntitledInv'
<1>1. task \in [Tasks -> TaskRecords]
  BY TaskTypes DEF TypeInv
<1>2. MaskInv'
  BY <1>1, ConstantTypes DEF MaskInv
<1>3. ASSUME NEW b \in Tasks
      PROVE  /\ \A c \in task'[b].targets : task'[b].key \in acked'[c] => c \in entitled'[b]
             /\ task'[b].step = "send" => Target(b)' \in entitled'[b]
  <2>1. CASE b = a
    BY <1>1, <2>1
  <2>2. CASE b # a
    <3>1. task'[b] = task[b]
      BY <1>1, <2>2
    <3>2. Target(b)' = Target(b)
      BY <3>1, TargetKept
    <3>3. QED
      BY <3>1, <3>2 DEF EntitledInv
  <2>3. QED
    BY <2>1, <2>2
<1>4. QED
  BY <1>2, <1>3 DEF EntitledInv

LEMMA MaskStep == TypeInv /\ MaskInv /\ EntitledInv /\ [Next]_vars => (MaskInv /\ EntitledInv)'
<1> SUFFICES ASSUME TypeInv, MaskInv, EntitledInv, [Next]_vars
             PROVE  MaskInv' /\ EntitledInv'
  OBVIOUS
<1> DEFINE Goal == MaskInv' /\ EntitledInv'
<1>1. TypeOK /\ task \in [Tasks -> TaskRecords] /\ TaskShapes
  BY TaskTypes DEF TypeInv
<1>2. \A c \in Conns : c \in Tasks
  BY ConstantTypes
<1>3. Idle.targets = {} /\ Idle.step = "idle"
  BY DEF Idle
<1>4. \A a \in Tasks : task[a].step \notin {"check", "send"} => task[a].targets = {}
  BY <1>1 DEF TaskShapes, WellShaped
<1>5. \A c \in Conns : acked[c] \in SUBSET Keys /\ mask[c] \in SUBSET Observable
  BY <1>1 DEF TypeOK
<1> USE DEF mirrorVars, historyVars
<1>6. ASSUME UNCHANGED <<task, mask, acked, entitled>> PROVE Goal
  <2>1. \A a : Target(a)' = Target(a)
    BY <1>6, TargetKept
  <2>2. QED
    BY <1>6, <2>1 DEF MaskInv, EntitledInv
<1>7. ASSUME NEW c \in Conns, NEW k \in Keys, Get(c, k) PROVE Goal
  <2> DEFINE r == Doing("value", k, value[k], FALSE)
  <2>1. r.targets = {} /\ r.step = "value"
    BY DEF Doing
  <2>2. task' = [task EXCEPT ![c] = r] /\ UNCHANGED <<mask, acked, entitled>>
    BY <1>7 DEF Get
  <2> HIDE DEF r
  <2>3. QED
    BY <1>2, <2>1, <2>2, MaskQuiet
<1>8. ASSUME NEW c \in Conns, NEW k \in Keys, NEW v \in Values, Write(c, k, v) PROVE Goal
  <2> DEFINE r == Doing("written", k, v, k \in Observable /\ value[k] # v)
  <2>1. r.targets = {} /\ r.step = "written"
    BY DEF Doing
  <2>2. task' = [task EXCEPT ![c] = r] /\ UNCHANGED <<mask, acked, entitled>>
    BY <1>8 DEF Write
  <2> HIDE DEF r
  <2>3. QED
    BY <1>2, <2>1, <2>2, MaskQuiet
<1>9. ASSUME NEW c \in Conns, NEW v \in Values, WriteMirror(c, v) PROVE Goal
  <2> DEFINE r == Doing("pend", MirrorIn, v, FALSE)
  <2>1. r.targets = {} /\ r.step = "pend"
    BY DEF Doing
  <2>2. task' = [task EXCEPT ![c] = r] /\ UNCHANGED <<mask, acked, entitled>>
    BY <1>9 DEF WriteMirror
  <2> HIDE DEF r
  <2>3. QED
    BY <1>2, <2>1, <2>2, MaskQuiet
<1>10. ASSUME NEW v \in Values, UpdateVoltage(v) PROVE Goal
  <2> DEFINE r == IF value[Voltage] = v THEN Idle ELSE Doing("collect", Voltage, v, TRUE)
  <2>1. r.targets = {} /\ r.step \in {"idle", "collect"}
    BY <1>3 DEF Doing
  <2>2. task' = [task EXCEPT ![Loop] = r] /\ UNCHANGED <<mask, acked, entitled>>
    BY <1>10 DEF UpdateVoltage
  <2> HIDE DEF r
  <2>3. QED
    BY <2>1, <2>2, MaskQuiet, ConstantTypes
<1>11. ASSUME NEW c \in Conns, SendValue(c) PROVE Goal
  BY <1>2, <1>3, <1>11, MaskQuiet DEF SendValue, Respond
<1>12. ASSUME NEW c \in Conns, SendWritten(c) PROVE Goal
  <2> DEFINE r == IF failed[c] THEN Idle
                  ELSE IF task[c].changed THEN [task[c] EXCEPT !.step = "collect"] ELSE Idle
  <2>1. task[c].targets = {} /\ task[c] \in TaskRecords
    BY <1>1, <1>2, <1>4, <1>12 DEF SendWritten
  <2>2. r.targets = {} /\ r.step \in {"idle", "collect"}
    BY <1>3, <2>1 DEF TaskRecords
  <2>3. task' = [task EXCEPT ![c] = r] /\ UNCHANGED <<mask, acked, entitled>>
    BY <1>12 DEF SendWritten, Respond
  <2> HIDE DEF r
  <2>4. QED
    BY <1>2, <2>2, <2>3, MaskQuiet
<1>13. ASSUME NEW c \in Conns, StorePending(c) PROVE Goal
  <2> DEFINE r == [task[c] EXCEPT !.step = "schedule"]
  <2>1. task[c].targets = {} /\ task[c] \in TaskRecords
    BY <1>1, <1>2, <1>4, <1>13 DEF StorePending
  <2>2. r.targets = {} /\ r.step = "schedule"
    BY <2>1 DEF TaskRecords
  <2>3. task' = [task EXCEPT ![c] = r] /\ UNCHANGED <<mask, acked, entitled>>
    BY <1>13 DEF StorePending
  <2> HIDE DEF r
  <2>4. QED
    BY <1>2, <2>2, <2>3, MaskQuiet
<1>14. ASSUME NEW f \in Flushes, Wake(f) \/ ClonePending(f) \/ StoreOut(f) PROVE Goal
  <2>1. f \in Tasks /\ task[f].targets = {} /\ task[f] \in TaskRecords
    BY <1>1, <1>4, <1>14, ConstantTypes DEF Wake, ClonePending, StoreOut
  <2>2. \/ task' = [task EXCEPT ![f] = Idle]
        \/ task' = [task EXCEPT ![f] = [task[f] EXCEPT !.step = "clone"]]
        \/ task' = [task EXCEPT ![f] = [task[f] EXCEPT !.step = "store", !.value = pending]]
        \/ task' = [task EXCEPT ![f] = [task[f] EXCEPT !.step = "collect"]]
    BY <1>14 DEF Wake, ClonePending, StoreOut
  <2>3. UNCHANGED <<mask, acked, entitled>>
    BY <1>14 DEF Wake, ClonePending, StoreOut
  <2>4. /\ [task[f] EXCEPT !.step = "clone"].targets = {}
        /\ [task[f] EXCEPT !.step = "clone"].step = "clone"
    BY <2>1 DEF TaskRecords
  <2>5. /\ [task[f] EXCEPT !.step = "store", !.value = pending].targets = {}
        /\ [task[f] EXCEPT !.step = "store", !.value = pending].step = "store"
    BY <2>1 DEF TaskRecords
  <2>6. /\ [task[f] EXCEPT !.step = "collect"].targets = {}
        /\ [task[f] EXCEPT !.step = "collect"].step = "collect"
    BY <2>1 DEF TaskRecords
  <2>7. QED
    BY <1>3, <2>1, <2>2, <2>3, <2>4, <2>5, <2>6, MaskQuiet
<1>15. ASSUME NEW c \in Conns, Schedule(c) PROVE Goal
  <2>1. PICK f \in Flushes :
          task' = [task EXCEPT ![c].step = "written",
                               ![f] = Doing("asleep", MirrorOut, Initial, FALSE)]
    BY <1>15, FlushIsLeft DEF Schedule, Unscheduled
  <2>2. f \in Tasks /\ f \notin Conns /\ f # c
    BY ConstantTypes, TestNodeAssumption
  <2>3. task[c] \in TaskRecords /\ task[c].targets = {}
    BY <1>1, <1>2, <1>4, <1>15 DEF Schedule
  <2>4. task'[c].step = "written" /\ task'[c].targets = {} /\ task'[f].step = "asleep"
        /\ task'[f].targets = {}
    BY <1>1, <1>2, <2>1, <2>2, <2>3 DEF TaskRecords, Doing
  <2>5. \A b \in Tasks \ {c, f} : task'[b] = task[b]
    BY <1>1, <2>1
  <2>6. UNCHANGED <<mask, acked, entitled>>
    BY <1>15 DEF Schedule
  <2>7. MaskInv'
    BY <1>2, <2>2, <2>4, <2>5, <2>6 DEF MaskInv
  <2>8. \A b \in Tasks \ {c, f} : Target(b)' = Target(b)
    BY <2>5, TargetKept
  <2>9. EntitledInv'
    BY <2>4, <2>5, <2>6, <2>8 DEF EntitledInv
  <2>10. QED
    BY <2>7, <2>9
<1>16. ASSUME NEW c \in Conns, NEW k \in Keys, Observe(c, k) PROVE Goal
  <2>1. /\ acked' = [acked EXCEPT ![c] = @ \cup {k}]
        /\ entitled' = [a \in Tasks |-> IF task[a].targets # {} /\ task[a].key = k
                                          THEN entitled[a] \cup {c} ELSE entitled[a]]
        /\ mask' = mask /\ k \in Observable
    BY <1>16 DEF Observe, Acknowledge
  <2>2. acked'[c] = acked[c] \cup {k} /\ \A d \in Conns \ {c} : acked'[d] = acked[d]
    BY <1>1, <2>1 DEF TypeOK
  <2>3. PICK r : /\ task' = [task EXCEPT ![c] = r]
                 /\ r.targets = {} /\ r.step \in {"idle", "observe"}
                 /\ r.step = "observe" => r.key = k
    <3> DEFINE q == IF failed[c] THEN Idle ELSE Doing("observe", k, Initial, FALSE)
    <3>1. q.targets = {} /\ q.step \in {"idle", "observe"} /\ (q.step = "observe" => q.key = k)
      BY <1>3 DEF Doing
    <3>2. task' = [task EXCEPT ![c] = q]
      BY <1>16 DEF Observe, Respond
    <3> HIDE DEF q
    <3>3. QED
      BY <3>1, <3>2
  <2>4. task'[c] = r /\ \A b \in Tasks \ {c} : task'[b] = task[b]
    BY <1>1, <1>2, <2>3
  <2>5. MaskInv'
    BY <1>2, <2>1, <2>2, <2>3, <2>4 DEF MaskInv
  <2>6. ASSUME NEW b \in Tasks
        PROVE  /\ \A d \in task'[b].targets : task'[b].key \in acked'[d] => d \in entitled'[b]
               /\ task'[b].step = "send" => Target(b)' \in entitled'[b]
    <3>1. CASE b = c
      BY <2>3, <2>4, <3>1
    <3>2. CASE b # c
      <4>1. task'[b] = task[b] /\ Target(b)' = Target(b)
        BY <2>4, <3>2, TargetKept
      <4>2. entitled[b] \subseteq entitled'[b]
            /\ (task[b].targets # {} /\ task[b].key = k => c \in entitled'[b])
        BY <2>1
      <4>3. ASSUME NEW d \in task[b].targets, task[b].key \in acked'[d] PROVE d \in entitled'[b]
        <5>1. d \in Conns
          BY <1>1 DEF TaskRecords
        <5>2. CASE d = c /\ task[b].key = k
          BY <4>2, <5>2
        <5>3. CASE ~(d = c /\ task[b].key = k)
          BY <2>2, <4>2, <4>3, <5>1, <5>3 DEF EntitledInv
        <5>4. QED
          BY <5>2, <5>3
      <4>4. QED
        BY <4>1, <4>2, <4>3 DEF EntitledInv
    <3>3. QED
      BY <3>1, <3>2
  <2>7. QED
    BY <2>5, <2>6 DEF EntitledInv
<1>17. ASSUME NEW c \in Conns, SetMask(c) PROVE Goal
  <2>1. task' = [task EXCEPT ![c] = Idle] /\ UNCHANGED <<acked, entitled>>
    BY <1>17 DEF SetMask
  <2>2. task'[c] = Idle /\ \A b \in Tasks \ {c} : task'[b] = task[b]
    BY <1>1, <1>2, <2>1
  <2>3. mask'[c] = mask[c] \cup {task[c].key} /\ \A d \in Conns \ {c} : mask'[d] = mask[d]
    BY <1>1, <1>17 DEF SetMask, TypeOK
  <2>4. task[c].key \in acked[c]
    BY <1>17 DEF SetMask, MaskInv
  <2>5. MaskInv'
    BY <1>2, <1>3, <2>1, <2>2, <2>3, <2>4 DEF MaskInv
  <2>6. \A b \in Tasks \ {c} : Target(b)' = Target(b)
    BY <2>2, TargetKept
  <2>7. EntitledInv'
    BY <1>3, <2>1, <2>2, <2>6 DEF EntitledInv
  <2>8. QED
    BY <2>5, <2>7
<1>18. ASSUME NEW c \in Conns, NEW k \in Keys, Unobserve(c, k) PROVE Goal
  <2>1. task' = [task EXCEPT ![c] = Doing("unobserve", k, Initial, FALSE)]
        /\ UNCHANGED <<acked, entitled>>
    BY <1>18 DEF Unobserve
  <2>2. /\ task'[c].step = "unobserve" /\ task'[c].key = k /\ task'[c].targets = {}
        /\ \A b \in Tasks \ {c} : task'[b] = task[b]
    BY <1>1, <1>2, <2>1 DEF Doing
  <2>3. mask'[c] = mask[c] \ {k} /\ \A d \in Conns \ {c} : mask'[d] = mask[d]
    BY <1>1, <1>18 DEF Unobserve, TypeOK
  <2>4. MaskInv'
    BY <1>2, <2>1, <2>2, <2>3 DEF MaskInv
  <2>5. \A b \in Tasks \ {c} : Target(b)' = Target(b)
    BY <2>2, TargetKept
  <2>6. EntitledInv'
    BY <2>1, <2>2, <2>5 DEF EntitledInv
  <2>7. QED
    BY <2>4, <2>6
<1>19. ASSUME NEW c \in Conns, SendUnobserved(c) PROVE Goal
  <2>1. task' = [task EXCEPT ![c] = Idle] /\ mask' = mask
    BY <1>19 DEF SendUnobserved, Respond
  <2>2. task'[c] = Idle /\ \A b \in Tasks \ {c} : task'[b] = task[b]
    BY <1>1, <1>2, <2>1
  <2>3. /\ acked'[c] = acked[c] \ {task[c].key} /\ \A d \in Conns \ {c} : acked'[d] = acked[d]
        /\ \A b \in Tasks : entitled'[b] = entitled[b]
    BY <1>1, <1>19 DEF SendUnobserved, Acknowledge, TypeOK
  <2>4. task[c].key \notin mask[c]
    BY <1>19 DEF SendUnobserved, MaskInv
  <2>5. MaskInv'
    BY <1>2, <1>3, <2>1, <2>2, <2>3, <2>4 DEF MaskInv
  <2>6. \A b \in Tasks \ {c} : Target(b)' = Target(b)
    BY <2>2, TargetKept
  <2>7. \A b \in Tasks, d \in Conns : d \in task[b].targets => acked'[d] \subseteq acked[d]
    BY <2>3
  <2>8. \A b \in Tasks : task[b].targets \subseteq Conns
    BY <1>1 DEF TaskRecords
  <2>9. EntitledInv'
    BY <1>3, <2>2, <2>3, <2>6, <2>7, <2>8 DEF EntitledInv
  <2>10. QED
    BY <2>5, <2>9
<1>20. ASSUME NEW a \in Tasks, Collect(a) PROVE Goal
  <2>1. PICK r : /\ task' = [task EXCEPT ![a] = r]
                 /\ r.targets \subseteq Registered /\ r.step \in {"idle", "check"}
                 /\ r.targets # {} => r.key = task[a].key
    <3>1. CASE Registered = {}
      BY <1>3, <1>20, <3>1 DEF Collect
    <3>2. CASE Registered # {}
      <4> DEFINE q == [task[a] EXCEPT !.step = "check", !.targets = Registered]
      <4>1. q.targets = Registered /\ q.step = "check" /\ q.key = task[a].key
        BY <1>1 DEF TaskRecords
      <4>2. task' = [task EXCEPT ![a] = q]
        BY <1>20, <3>2 DEF Collect
      <4> HIDE DEF q
      <4>3. QED
        BY <4>1, <4>2
    <3>3. QED
      BY <3>1, <3>2
  <2>2. task'[a] = r /\ \A b \in Tasks \ {a} : task'[b] = task[b]
    BY <1>1, <2>1
  <2>3. /\ entitled'[a] = {c \in Registered : task[a].key \in acked[c]}
        /\ \A b \in Tasks \ {a} : entitled'[b] = entitled[b]
        /\ UNCHANGED <<mask, acked>>
    BY <1>1, <1>20 DEF Collect, TypeOK
  <2>4. MaskInv'
    BY <1>2, <2>1, <2>2, <2>3 DEF MaskInv
  <2>5. \A b \in Tasks \ {a} : Target(b)' = Target(b)
    BY <2>2, TargetKept
  <2>6. EntitledInv'
    BY <2>1, <2>2, <2>3, <2>5 DEF EntitledInv
  <2>7. QED
    BY <2>4, <2>6
<1>21. ASSUME NEW a \in Tasks, CheckMask(a) \/ SendChanged(a) PROVE Goal
  <2>1. task[a].step \in {"check", "send"} /\ task[a] \in TaskRecords /\ task[a].targets # {}
    BY <1>1, <1>21 DEF CheckMask, SendChanged, TaskShapes, WellShaped
  <2>2. Target(a) \in task[a].targets /\ Target(a) \in Conns
    BY <1>1, <2>1, TargetType
  <2>3. PICK r : /\ task' = [task EXCEPT ![a] = r]
                 /\ r.targets \subseteq task[a].targets
                 /\ r.targets # {} => r.key = task[a].key
                 /\ r.step \in {"idle", "check", "send"}
                 /\ r.step = "send" => /\ r.targets = task[a].targets
                                       /\ task[a].key \in mask[Target(a)]
    <3>1. /\ Visited(a).targets \subseteq task[a].targets
          /\ Visited(a).targets # {} => Visited(a).key = task[a].key
          /\ Visited(a).step \in {"idle", "check"}
      BY <1>3, <2>1 DEF Visited, TaskRecords
    <3>2. CASE task' = [task EXCEPT ![a] = Visited(a)]
      BY <3>1, <3>2
    <3>3. CASE /\ task' = [task EXCEPT ![a] = [task[a] EXCEPT !.step = "send"]]
               /\ task[a].key \in mask[Target(a)]
      <4> DEFINE q == [task[a] EXCEPT !.step = "send"]
      <4>1. q.targets = task[a].targets /\ q.step = "send" /\ q.key = task[a].key
        BY <2>1 DEF TaskRecords
      <4>2. task' = [task EXCEPT ![a] = q] /\ task[a].key \in mask[Target(a)]
        BY <3>3
      <4> HIDE DEF q
      <4>3. QED
        BY <4>1, <4>2
    <3>4. QED
      BY <1>21, <3>2, <3>3 DEF CheckMask, SendChanged
  <2>4. task'[a] = r /\ \A b \in Tasks \ {a} : task'[b] = task[b]
    BY <1>1, <2>3
  <2>5. UNCHANGED <<mask, acked, entitled>>
    BY <1>21 DEF CheckMask, SendChanged
  <2>6. MaskInv'
    BY <1>2, <2>3, <2>4, <2>5 DEF MaskInv
  <2>7. \A b \in Tasks \ {a} : Target(b)' = Target(b)
    BY <2>4, TargetKept
  <2>8. ASSUME task'[a].step = "send" PROVE Target(a)' \in entitled'[a]
    <3>1. Target(a)' = Target(a)
      BY <2>3, <2>4, <2>8, TargetKept
    <3>2. task[a].key \in acked[Target(a)]
      BY <2>2, <2>3, <2>4, <2>8 DEF MaskInv
    <3>3. QED
      BY <2>2, <2>5, <3>1, <3>2 DEF EntitledInv
  <2>9. \A d \in task'[a].targets : task'[a].key \in acked'[d] => d \in entitled'[a]
    BY <2>3, <2>4, <2>5 DEF EntitledInv
  <2>10. EntitledInv'
    BY <2>4, <2>5, <2>7, <2>8, <2>9 DEF EntitledInv
  <2>11. QED
    BY <2>6, <2>10
<1>22. ASSUME NEW c \in Conns, Accept(c) \/ Close(c) \/ WriteFrame(c) PROVE Goal
  BY <1>6, <1>22 DEF Accept, Close, WriteFrame
<1>23. CASE UNCHANGED vars
  BY <1>6, <1>23 DEF vars
<1>24. QED
  BY <1>7, <1>8, <1>9, <1>10, <1>11, <1>12, <1>13, <1>14, <1>15, <1>16, <1>17, <1>18, <1>19,
     <1>20, <1>21, <1>22, <1>23 DEF Next, Continue

LEMMA MaskInit == Init => MaskInv /\ EntitledInv
  BY ConstantTypes DEF Init, MaskInv, EntitledInv, Idle

LEMMA MaskInvariance == Spec => [](TypeInv /\ MaskInv /\ EntitledInv)
<1>1. TypeInv /\ MaskInv /\ EntitledInv /\ [Next]_vars => (TypeInv /\ MaskInv /\ EntitledInv)'
  BY TypeStep, ShapeStep, MaskStep DEF TypeInv
<1>2. QED
  BY <1>1, TypeInit, MaskInit, PTL DEF Spec

\* A frame on a channel is the last one appended, and only once.
LEMMA AppendFacts ==
  ASSUME NEW S, NEW s \in Seq(S), NEW x \in S, NEW y \in S
  PROVE  /\ Append(s, x) = Append(s, y) => x = y
         /\ s # Append(s, y) /\ <<>> # Append(s, y)
         /\ s # <<>> => Tail(s) # Append(s, y)
<1>1. Len(s) \in Nat /\ Len(Append(s, x)) = Len(s) + 1 /\ Len(Append(s, y)) = Len(s) + 1
  BY LenProperties, AppendProperties
<1>2. Append(s, x)[Len(s) + 1] = x /\ Append(s, y)[Len(s) + 1] = y
  BY LenProperties, AppendProperties
<1>3. s # <<>> => Len(Tail(s)) = Len(s) - 1
  BY <1>1, HeadTailProperties
<1>4. QED
  BY <1>1, <1>2, <1>3

\* The frames other than `!` are not `!`.
LEMMA OtherFrames ==
  ASSUME NEW k \in Keys
  PROVE  /\ OkFrame # Changed(k)
         /\ \A j, v : Value("VALUE", j, v) # Changed(k) /\ Value("WRITTEN", j, v) # Changed(k)
         /\ \A j \in Keys : Changed(j) = Changed(k) => j = k
<1>1. OkFrame.opcode = "OK" /\ Changed(k).opcode = "CHANGED"
  BY DEF OkFrame, Changed
<1>2. ASSUME NEW j, NEW v
      PROVE  Value("VALUE", j, v).opcode = "VALUE" /\ Value("WRITTEN", j, v).opcode = "WRITTEN"
  BY DEF Value
<1>3. ASSUME NEW j \in Keys, Changed(j) = Changed(k) PROVE j = k
  <2>1. Changed(j).keyref = j /\ Changed(k).keyref = k
    BY DEF Changed
  <2>2. QED
    BY <1>3, <2>1
<1>4. QED
  BY <1>1, <1>2, <1>3

\* Only broadcast_changed puts a `!` on a channel.
LEMMA OnlyBroadcastNotifies ==
  ASSUME TypeInv, [Next]_vars, NEW c \in Conns, NEW k \in Keys, Notified(c, k)
  PROVE  \E a \in Tasks : SendChanged(a) /\ Target(a) = c /\ task[a].key = k
<1>1. TypeOK /\ task \in [Tasks -> TaskRecords] /\ TaskShapes
  BY TaskTypes DEF TypeInv
<1>2. channel[c] \in Seq(Frames) /\ Changed(k) \in Frames
  BY <1>1, FrameTypes DEF TypeOK
<1>3. channel'[c] # channel[c]
  BY <1>2, AppendFacts DEF Notified
<1>4. ASSUME NEW d \in Conns, NEW f \in Frames, Enqueue(d, f), f # Changed(k) PROVE FALSE
  <2>1. channel'[c] = channel[c] \/ channel'[c] = Append(channel[c], f)
    BY <1>1, <1>4 DEF Enqueue, TypeOK
  <2>2. QED
    BY <1>2, <1>3, <1>4, <2>1, AppendFacts DEF Notified
<1>5. ASSUME NEW d \in Conns, NEW j \in Keys, Observe(d, j) PROVE FALSE
  BY <1>4, <1>5, FrameTypes, OtherFrames DEF Observe, Respond
<1>6. ASSUME NEW d \in Conns, SendUnobserved(d) PROVE FALSE
  BY <1>4, <1>6, FrameTypes, OtherFrames DEF SendUnobserved, Respond
<1>7. ASSUME NEW d \in Conns, SendValue(d) \/ SendWritten(d) PROVE FALSE
  <2>1. task[d].key \in Keys /\ task[d].value \in Values
    BY <1>1, ConstantTypes DEF TaskRecords
  <2>2. /\ Value("VALUE", task[d].key, task[d].value) \in Frames
        /\ Value("WRITTEN", task[d].key, task[d].value) \in Frames
    BY <2>1, FrameTypes
  <2>3. /\ Value("VALUE", task[d].key, task[d].value) # Changed(k)
        /\ Value("WRITTEN", task[d].key, task[d].value) # Changed(k)
    BY OtherFrames
  <2>4. \/ Enqueue(d, Value("VALUE", task[d].key, task[d].value))
        \/ Enqueue(d, Value("WRITTEN", task[d].key, task[d].value))
    BY <1>7 DEF SendValue, SendWritten, Respond
  <2>5. QED
    BY <1>4, <2>2, <2>3, <2>4
<1>8. ASSUME NEW d \in Conns, WriteFrame(d) PROVE FALSE
  <2>1. channel'[c] = channel[c] \/ channel'[c] = <<>> \/ (channel[c] # <<>> /\ channel'[c] = Tail(channel[c]))
    BY <1>1, <1>8 DEF WriteFrame, TypeOK
  <2>2. QED
    BY <1>2, <1>3, <2>1, AppendFacts DEF Notified
<1>9. ASSUME NEW a \in Tasks, SendChanged(a) PROVE Target(a) = c /\ task[a].key = k
  <2>1. Target(a) \in Conns /\ task[a].key \in Keys
    BY <1>1, <1>9, TargetType DEF SendChanged, TaskShapes, WellShaped, TaskRecords
  <2>2. Enqueue(Target(a), Changed(task[a].key)) /\ Changed(task[a].key) \in Frames
    BY <1>9, <2>1, FrameTypes DEF SendChanged
  <2>3. Changed(task[a].key) = Changed(k)
    BY <1>4, <2>1, <2>2
  <2>4. Target(a) = c
    BY <1>1, <1>3, <2>1, <2>2 DEF Enqueue, TypeOK
  <2>5. QED
    BY <2>1, <2>3, <2>4, OtherFrames
<1>10. ASSUME UNCHANGED channel PROVE FALSE
  BY <1>3, <1>10
<1>11. QED
  BY <1>5, <1>6, <1>7, <1>8, <1>9, <1>10
     DEF Next, Continue, Accept, Close, Get, Unobserve, Write, WriteMirror, UpdateVoltage, Collect,
         CheckMask, SetMask, StorePending, Schedule, Wake, ClonePending, StoreOut, vars

\* broadcast_changed sends a `!` only to a connection whose client observed
\* the key at some time during the broadcast (main.rs:225-236), for any
\* connections, keys and interleaving of their tasks.
THEOREM NotificationsAreEntitled == Spec => ChangedOnlyIfObservedDuringBroadcast
<1>1. TypeInv /\ MaskInv /\ EntitledInv /\ [Next]_vars
        => [\A c \in Conns, k \in Keys : Notified(c, k) =>
              \E a \in Tasks : task[a].step = "send" /\ task[a].key = k /\ c \in entitled[a]]_vars
  <2> SUFFICES ASSUME TypeInv, MaskInv, EntitledInv, [Next]_vars,
                      NEW c \in Conns, NEW k \in Keys, Notified(c, k)
               PROVE  \E a \in Tasks : task[a].step = "send" /\ task[a].key = k /\ c \in entitled[a]
    OBVIOUS
  <2>1. PICK a \in Tasks : SendChanged(a) /\ Target(a) = c /\ task[a].key = k
    BY OnlyBroadcastNotifies
  <2>2. task[a].step = "send" /\ c \in entitled[a]
    BY <2>1 DEF SendChanged, EntitledInv
  <2>3. QED
    BY <2>1, <2>2
<1>2. QED
  BY <1>1, MaskInvariance, PTL DEF Spec, ChangedOnlyIfObservedDuringBroadcast

-----------------------------------------------------------------------------
(* No change is lost.                                                      *)

\* A connection that is not registered yet has no client; the mask lags
\* behind what the client was told only inside its own OBSERVE or UNOBSERVE,
\* and a client that has just been told it observes goes by no value.
LagInv ==
  \A c \in Conns :
    /\ conn[c] = "new" => acked[c] = {} /\ task[c].step = "idle"
    /\ task[c].step = "observe" => belief[c][task[c].key] = NoValue
    /\ \A k \in acked[c] \ mask[c] :
         conn[c] = "open" => task[c].step \in {"observe", "unobserve"} /\ task[c].key = k

\* A step of one task that touches no mask and tells no client.
LEMMA LagQuiet ==
  ASSUME TypeInv, LagInv, NEW a \in Tasks, NEW r,
         task' = [task EXCEPT ![a] = r], UNCHANGED <<mask, acked, belief>>,
         \A c \in Conns : conn'[c] # conn[c] => conn'[c] = "closed",
         task[a].step \notin {"observe", "unobserve"}, r.step # "observe",
         a \in Conns => conn[a] # "new"
  PROVE  LagInv'
<1>1. task \in [Tasks -> TaskRecords]
  BY TaskTypes DEF TypeInv
<1>2. task'[a] = r /\ \A b \in Tasks \ {a} : task'[b] = task[b]
  BY <1>1
<1>3. QED
  BY <1>2, ConstantTypes DEF LagInv

LEMMA LagStep == TypeInv /\ LagInv /\ [Next]_vars => LagInv'
<1> SUFFICES ASSUME TypeInv, LagInv, [Next]_vars PROVE LagInv'
  OBVIOUS
<1>1. TypeOK /\ task \in [Tasks -> TaskRecords] /\ TaskShapes
  BY TaskTypes DEF TypeInv
<1>2. \A c \in Conns : c \in Tasks
  BY ConstantTypes
<1>3. Idle.step = "idle"
  BY DEF Idle
<1>4. /\ conn \in [Conns -> {"new", "open", "closed"}]
      /\ acked \in [Conns -> SUBSET Keys] /\ mask \in [Conns -> SUBSET Observable]
      /\ belief \in [Conns -> [Keys -> Values \cup {NoValue}]]
  BY <1>1 DEF TypeOK
<1>5. \A c \in Conns : task[c].step # "idle" => conn[c] # "new"
  BY DEF LagInv
<1> USE DEF mirrorVars, historyVars
<1>6. ASSUME NEW c \in Conns, NEW k \in Keys, Get(c, k) PROVE LagInv'
  <2>1. task'[c].step = "value" /\ \A b \in Conns \ {c} : task'[b] = task[b]
    BY <1>1, <1>2, <1>6 DEF Get, Doing
  <2>2. task[c].step = "idle" /\ conn[c] = "open" /\ UNCHANGED <<conn, mask, acked>>
    BY <1>6 DEF Get, Dispatch
  <2>3. \A d \in Conns \ {c} : belief'[d] = belief[d]
    BY <1>4, <1>6 DEF Get, Learn
  <2>4. QED
    BY <2>1, <2>2, <2>3 DEF LagInv
<1>7. ASSUME NEW c \in Conns, NEW k \in Keys, NEW v \in Values, Write(c, k, v) PROVE LagInv'
  <2>1. task'[c].step = "written" /\ \A b \in Conns \ {c} : task'[b] = task[b]
    BY <1>1, <1>2, <1>7 DEF Write, Doing
  <2>2. task[c].step = "idle" /\ conn[c] = "open" /\ UNCHANGED <<conn, mask, acked>>
    BY <1>7 DEF Write, Dispatch
  <2>3. \A d \in Conns \ {c} : belief'[d] = belief[d]
    BY <1>4, <1>7 DEF Write, Learn
  <2>4. QED
    BY <2>1, <2>2, <2>3 DEF LagInv
<1>8. ASSUME NEW c \in Conns, NEW v \in Values, WriteMirror(c, v) PROVE LagInv'
  <2> DEFINE r == Doing("pend", MirrorIn, v, FALSE)
  <2>1. r.step = "pend"
    BY DEF Doing
  <2>2. /\ task' = [task EXCEPT ![c] = r] /\ UNCHANGED <<conn, mask, acked, belief>>
        /\ conn[c] = "open" /\ task[c].step = "idle"
    BY <1>8 DEF WriteMirror, Dispatch
  <2> HIDE DEF r
  <2>3. QED
    BY <1>2, <2>1, <2>2, LagQuiet
<1>9. ASSUME NEW v \in Values, UpdateVoltage(v) PROVE LagInv'
  <2> DEFINE r == IF value[Voltage] = v THEN Idle ELSE Doing("collect", Voltage, v, TRUE)
  <2>1. r.step \in {"idle", "collect"}
    BY <1>3 DEF Doing
  <2>2. /\ task' = [task EXCEPT ![Loop] = r] /\ UNCHANGED <<conn, mask, acked, belief>>
        /\ task[Loop].step = "idle"
    BY <1>9 DEF UpdateVoltage
  <2> HIDE DEF r
  <2>3. Loop \in Tasks /\ Loop \notin Conns
    BY ConstantTypes, TestNodeAssumption
  <2>4. QED
    BY <2>1, <2>2, <2>3, LagQuiet
<1>10. ASSUME NEW c \in Conns, SendValue(c) PROVE LagInv'
  <2>1. /\ task' = [task EXCEPT ![c] = Idle] /\ UNCHANGED <<mask, acked, belief>>
        /\ task[c].step = "value"
        /\ conn' = [conn EXCEPT ![c] = IF failed[c] THEN "closed" ELSE @]
    BY <1>10 DEF SendValue, Respond
  <2>2. \A d \in Conns : conn'[d] # conn[d] => conn'[d] = "closed"
    BY <1>4, <2>1
  <2>3. QED
    BY <1>2, <1>3, <1>5, <2>1, <2>2, LagQuiet
<1>11. ASSUME NEW c \in Conns, SendWritten(c) PROVE LagInv'
  <2> DEFINE r == IF failed[c] THEN Idle
                  ELSE IF task[c].changed THEN [task[c] EXCEPT !.step = "collect"] ELSE Idle
  <2>1. task[c] \in TaskRecords
    BY <1>1, <1>2
  <2>2. r.step \in {"idle", "collect"}
    BY <1>3, <2>1 DEF TaskRecords
  <2>3. /\ task' = [task EXCEPT ![c] = r] /\ UNCHANGED <<mask, acked, belief>>
        /\ task[c].step = "written"
        /\ conn' = [conn EXCEPT ![c] = IF failed[c] THEN "closed" ELSE @]
    BY <1>11 DEF SendWritten, Respond
  <2> HIDE DEF r
  <2>4. \A d \in Conns : conn'[d] # conn[d] => conn'[d] = "closed"
    BY <1>4, <2>3
  <2>5. QED
    BY <1>2, <1>5, <2>2, <2>3, <2>4, LagQuiet
<1>12. ASSUME NEW c \in Conns, StorePending(c) PROVE LagInv'
  <2> DEFINE r == [task[c] EXCEPT !.step = "schedule"]
  <2>1. task[c] \in TaskRecords
    BY <1>1, <1>2
  <2>2. r.step = "schedule"
    BY <2>1 DEF TaskRecords
  <2>3. /\ task' = [task EXCEPT ![c] = r] /\ UNCHANGED <<conn, mask, acked, belief>>
        /\ task[c].step = "pend"
    BY <1>12 DEF StorePending
  <2> HIDE DEF r
  <2>4. QED
    BY <1>2, <1>5, <2>2, <2>3, LagQuiet
<1>13. ASSUME UNCHANGED <<conn, mask, acked, belief>>,
              \A c \in Conns : /\ task[c].step \in {"observe", "unobserve", "idle"} => task'[c] = task[c]
                               /\ task'[c].step = "observe" => task'[c] = task[c]
       PROVE  LagInv'
  BY <1>5, <1>13 DEF LagInv
<1>14. ASSUME NEW f \in Flushes, Wake(f) \/ ClonePending(f) \/ StoreOut(f) PROVE LagInv'
  <2>1. UNCHANGED <<conn, mask, acked, belief>>
    BY <1>14 DEF Wake, ClonePending, StoreOut
  <2>2. f \notin Conns
    BY TestNodeAssumption
  <2>3. \A b \in Tasks \ {f} : task'[b] = task[b]
    BY <1>1, <1>14 DEF Wake, ClonePending, StoreOut
  <2>4. QED
    BY <1>2, <1>13, <2>1, <2>2, <2>3
<1>15. ASSUME NEW c \in Conns, Schedule(c) PROVE LagInv'
  <2>1. PICK f \in Flushes :
          task' = [task EXCEPT ![c].step = "written",
                               ![f] = Doing("asleep", MirrorOut, Initial, FALSE)]
    BY <1>15, FlushIsLeft DEF Schedule, Unscheduled
  <2>2. f \notin Conns /\ UNCHANGED <<conn, mask, acked, belief>> /\ task[c].step = "schedule"
    BY <1>15, TestNodeAssumption DEF Schedule
  <2>3. task'[c] = [task[c] EXCEPT !.step = "written"] /\ task[c] \in TaskRecords
    BY <1>1, <1>2, <2>1, <2>2
  <2>4. task'[c].step = "written"
    BY <2>3 DEF TaskRecords
  <2>5. \A b \in Conns \ {c} : task'[b] = task[b]
    BY <1>1, <1>2, <2>1, <2>2
  <2>6. QED
    BY <1>13, <2>2, <2>4, <2>5
<1>16. ASSUME NEW a \in Tasks, Collect(a) \/ CheckMask(a) \/ SendChanged(a) PROVE LagInv'
  <2>1. UNCHANGED <<conn, mask, acked, belief>>
    BY <1>16 DEF Collect, CheckMask, SendChanged
  <2>2. task[a].step \in {"collect", "check", "send"} /\ task[a] \in TaskRecords
    BY <1>1, <1>16 DEF Collect, CheckMask, SendChanged
  <2>3. \A b \in Tasks \ {a} : task'[b] = task[b]
    BY <1>1, <1>16 DEF Collect, CheckMask, SendChanged
  <2>4. /\ Visited(a).step # "observe"
        /\ [task[a] EXCEPT !.step = "send"].step # "observe"
        /\ [task[a] EXCEPT !.step = "check", !.targets = Registered].step # "observe"
    BY <1>3, <2>2 DEF Visited, TaskRecords
  <2>5. task'[a] \in {Idle, Visited(a), [task[a] EXCEPT !.step = "send"],
                      [task[a] EXCEPT !.step = "check", !.targets = Registered]}
    BY <1>1, <1>16 DEF Collect, CheckMask, SendChanged
  <2>6. task'[a].step # "observe"
    BY <1>3, <2>4, <2>5
  <2>7. QED
    BY <1>2, <1>13, <2>1, <2>2, <2>3, <2>6
<1>17. ASSUME NEW c \in Conns, NEW k \in Keys, Observe(c, k) PROVE LagInv'
  <2>1. conn[c] = "open" /\ task[c].step = "idle" /\ mask' = mask
    BY <1>17 DEF Observe, Dispatch
  <2>2. /\ acked'[c] = acked[c] \cup {k} /\ belief'[c][k] = NoValue
        /\ \A d \in Conns \ {c} : acked'[d] = acked[d] /\ belief'[d] = belief[d]
    BY <1>4, <1>17 DEF Observe, Acknowledge
  <2>3. /\ \A d \in Conns \ {c} : task'[d] = task[d] /\ conn'[d] = conn[d]
        /\ failed[c]  => conn'[c] = "closed" /\ task'[c] = Idle
        /\ ~failed[c] => conn'[c] = "open" /\ task'[c] = Doing("observe", k, Initial, FALSE)
    BY <1>1, <1>2, <1>4, <1>17, <2>1 DEF Observe, Respond
  <2>4. Doing("observe", k, Initial, FALSE).step = "observe"
        /\ Doing("observe", k, Initial, FALSE).key = k
    BY DEF Doing
  <2>5. acked[c] \ mask[c] = {}
    BY <2>1 DEF LagInv
  <2>6. task'[c].step \in {"idle", "observe"} /\ conn'[c] # "new"
        /\ (task'[c].step = "observe" => task'[c].key = k)
        /\ (conn'[c] = "open" => task'[c].step = "observe")
    BY <1>3, <2>3, <2>4
  <2>7. \A l \in acked'[c] \ mask'[c] : l = k
    BY <2>1, <2>2, <2>5
  <2>8. QED
    BY <2>1, <2>2, <2>3, <2>6, <2>7 DEF LagInv
<1>18. ASSUME NEW c \in Conns, SetMask(c) PROVE LagInv'
  <2>1. task[c].step = "observe" /\ UNCHANGED <<conn, acked, belief>>
    BY <1>18 DEF SetMask
  <2>2. /\ task'[c] = Idle /\ mask'[c] = mask[c] \cup {task[c].key}
        /\ \A d \in Conns \ {c} : task'[d] = task[d] /\ mask'[d] = mask[d]
    BY <1>1, <1>2, <1>4, <1>18 DEF SetMask
  <2>3. QED
    BY <1>3, <1>5, <2>1, <2>2 DEF LagInv
<1>19. ASSUME NEW c \in Conns, NEW k \in Keys, Unobserve(c, k) PROVE LagInv'
  <2>1. conn[c] = "open" /\ task[c].step = "idle" /\ UNCHANGED <<conn, acked, belief>>
    BY <1>19 DEF Unobserve, Dispatch
  <2>2. /\ task'[c] = Doing("unobserve", k, Initial, FALSE) /\ mask'[c] = mask[c] \ {k}
        /\ \A d \in Conns \ {c} : task'[d] = task[d] /\ mask'[d] = mask[d]
    BY <1>1, <1>2, <1>4, <1>19 DEF Unobserve
  <2>3. Doing("unobserve", k, Initial, FALSE).step = "unobserve"
        /\ Doing("unobserve", k, Initial, FALSE).key = k
    BY DEF Doing
  <2>4. acked[c] \ mask[c] = {}
    BY <2>1 DEF LagInv
  <2>5. task'[c].step = "unobserve" /\ task'[c].key = k
    BY <2>2, <2>3
  <2>6. \A l \in acked'[c] \ mask'[c] : l = k
    BY <2>1, <2>2, <2>4
  <2>7. ASSUME NEW d \in Conns, d # c
        PROVE  /\ conn'[d] = conn[d] /\ acked'[d] = acked[d] /\ belief'[d] = belief[d]
               /\ task'[d] = task[d] /\ mask'[d] = mask[d]
    BY <2>1, <2>2, <2>7
  <2>8. conn'[c] = "open"
    BY <2>1
  <2>9. QED
    BY <2>5, <2>6, <2>7, <2>8 DEF LagInv
<1>20. ASSUME NEW c \in Conns, SendUnobserved(c) PROVE LagInv'
  <2>1. task[c].step = "unobserve" /\ mask' = mask /\ task[c].key \in Keys
    BY <1>1, <1>2, <1>20 DEF SendUnobserved, TaskRecords
  <2>2. /\ acked'[c] = acked[c] \ {task[c].key}
        /\ \A d \in Conns \ {c} : acked'[d] = acked[d] /\ belief'[d] = belief[d]
    BY <1>4, <1>20, <2>1 DEF SendUnobserved, Acknowledge
  <2>3. /\ task'[c] = Idle /\ conn'[c] \in {conn[c], "closed"}
        /\ \A d \in Conns \ {c} : task'[d] = task[d] /\ conn'[d] = conn[d]
    BY <1>1, <1>2, <1>4, <1>20 DEF SendUnobserved, Respond
  <2>4. QED
    BY <1>3, <1>5, <2>1, <2>2, <2>3 DEF LagInv
<1>21. ASSUME NEW c \in Conns, Accept(c) \/ Close(c) \/ WriteFrame(c) PROVE LagInv'
  <2>1. UNCHANGED <<task, mask, acked, belief>>
    BY <1>21 DEF Accept, Close, WriteFrame
  <2>2. \A d \in Conns : conn'[d] # conn[d] => \/ conn[d] = "new" /\ conn'[d] = "open"
                                               \/ conn'[d] = "closed"
    BY <1>4, <1>21 DEF Accept, Close, WriteFrame
  <2>3. QED
    BY <2>1, <2>2 DEF LagInv
<1>22. CASE UNCHANGED vars
  BY <1>22 DEF vars, LagInv
<1>23. QED
  BY <1>6, <1>7, <1>8, <1>9, <1>10, <1>11, <1>12, <1>14, <1>15, <1>16, <1>17, <1>18, <1>19,
     <1>20, <1>21, <1>22 DEF Next, Continue

LEMMA LagInit == Init => LagInv
  BY ConstantTypes DEF Init, LagInv, Idle

LEMMA LagInvariance == Spec => [](TypeInv /\ LagInv)
<1>1. TypeInv /\ LagInv /\ [Next]_vars => LagInv'
  BY LagStep
<1>2. QED
  BY <1>1, LagInit, TypeInvariance, PTL DEF Spec

\* What excuses a client's stale value, read from the tasks' records.
Reports(r, c, k) ==
  /\ r.key = k
  /\ \/ r.step = "written" /\ r.changed
     \/ r.step = "collect"
     \/ c \in r.targets
Leaving(r, k) == r.step = "unobserve" /\ r.key = k
Excused(c, k) ==
  (\E a \in Tasks : Reports(task[a], c, k)) \/ Leaving(task[c], k) \/ k \in skipped

LEMMA LostChange == NoLostChange <=> \A c \in Conns, k \in Keys : Stale(c, k) => Excused(c, k)
  BY DEF NoLostChange, Excused, Reports, Leaving, WillReport

\* An excuse lasts while the tasks that report, and the client's own, go on.
LEMMA ExcuseKept ==
  ASSUME NEW c \in Conns, NEW k \in Keys, Excused(c, k), skipped \subseteq skipped',
         \A a \in Tasks : Reports(task[a], c, k) => Reports(task'[a], c, k) \/ k \in skipped',
         Leaving(task[c], k) => Leaving(task'[c], k)
  PROVE  Excused(c, k)'
  BY DEF Excused, Reports, Leaving

\* Only a task that has written a value or is in a broadcast reports a change.
LEMMA WhoReports ==
  ASSUME TypeInv, NEW a \in Tasks, NEW c \in Conns, NEW k \in Keys, Reports(task[a], c, k)
  PROVE  task[a].step \in {"written", "collect", "check", "send"}
  BY DEF TypeInv, TaskShapes, WellShaped, Reports

LEMMA LostStep ==
  TypeInv /\ MaskInv /\ LagInv /\ NoLostChange /\ [Next]_vars => NoLostChange'
<1> SUFFICES ASSUME TypeInv, MaskInv, LagInv, NoLostChange, [Next]_vars,
                    NEW d \in Conns, NEW l \in Keys, Stale(d, l)'
             PROVE  Excused(d, l)'
  BY LostChange DEF NoLostChange, Excused, Reports, Leaving, WillReport
<1>1. TypeOK /\ task \in [Tasks -> TaskRecords] /\ TaskShapes
  BY TaskTypes DEF TypeInv
<1>2. \A c \in Conns : c \in Tasks
  BY ConstantTypes
<1>3. /\ conn \in [Conns -> {"new", "open", "closed"}]
      /\ acked \in [Conns -> SUBSET Keys] /\ told \in [Conns -> SUBSET Keys]
      /\ belief \in [Conns -> [Keys -> Values \cup {NoValue}]]
      /\ value \in [Keys -> Values]
  BY <1>1 DEF TypeOK
<1>4. /\ conn'[d] = "open" /\ ~failed'[d] /\ l \in acked'[d] /\ l \notin told'[d]
      /\ belief'[d][l] \notin {NoValue, value'[l]}
  BY DEF Stale
<1> USE DEF mirrorVars, historyVars
\* The client's value was stale before the step, and the step leaves its excuse.
<1>5. ASSUME /\ conn[d] = "open" /\ ~failed[d] /\ l \in acked[d] /\ l \notin told[d]
             /\ belief[d][l] = belief'[d][l] /\ value[l] = value'[l]
      PROVE  Stale(d, l) /\ Excused(d, l)
  BY <1>4, <1>5, LostChange DEF Stale
<1>6. ASSUME NEW a \in Tasks, Excused(d, l), skipped' = skipped,
             task[a].step \notin {"written", "collect", "check", "send", "unobserve"},
             \A b \in Tasks \ {a} : task'[b] = task[b]
      PROVE  Excused(d, l)'
  <2>1. \A b \in Tasks : Reports(task[b], d, l) => Reports(task'[b], d, l)
    BY <1>6, WhoReports
  <2>2. Leaving(task[d], l) => Leaving(task'[d], l)
    BY <1>2, <1>6 DEF Leaving
  <2>3. QED
    BY <1>6, <2>1, <2>2, ExcuseKept
<1>7. ASSUME NEW c \in Conns, NEW k \in Keys, Get(c, k) PROVE Excused(d, l)'
  <2>1. /\ task[c].step = "idle" /\ UNCHANGED <<value, conn, failed, acked, skipped>>
        /\ \A b \in Tasks \ {c} : task'[b] = task[b]
    BY <1>1, <1>2, <1>7 DEF Get, Dispatch
  <2>2. k \in acked[c] => belief'[c][k] = value[k]
    BY <1>3, <1>7 DEF Get, Learn
  <2>3. d # c \/ l # k
    BY <1>4, <2>1, <2>2
  <2>4. belief'[d][l] = belief[d][l] /\ l \notin told[d]
    BY <1>3, <1>4, <1>7, <2>3 DEF Get, Learn
  <2>5. Excused(d, l)
    BY <1>4, <1>5, <2>1, <2>4
  <2>6. QED
    BY <1>2, <1>6, <2>1, <2>5
<1>8. ASSUME NEW c \in Conns, NEW k \in Keys, NEW v \in Values, Write(c, k, v)
      PROVE  Excused(d, l)'
  <2>1. /\ task[c].step = "idle" /\ UNCHANGED <<conn, failed, acked, skipped>>
        /\ \A b \in Tasks \ {c} : task'[b] = task[b]
        /\ task'[c] = Doing("written", k, v, k \in Observable /\ value[k] # v)
    BY <1>1, <1>2, <1>8 DEF Write, Dispatch
  <2>2. value'[k] = v /\ (l # k => value'[l] = value[l])
    BY <1>3, <1>8 DEF Write
  <2>3. k \in acked[c] => belief'[c][k] = v
    BY <1>3, <1>8 DEF Write, Learn
  <2>4. d # c \/ l # k
    BY <1>4, <2>1, <2>2, <2>3
  <2>5. belief'[d][l] = belief[d][l] /\ l \notin told[d]
    BY <1>3, <1>4, <1>8, <2>4 DEF Write, Learn
  <2>6. CASE value'[l] = value[l]
    <3>1. Excused(d, l)
      BY <1>4, <1>5, <2>1, <2>5, <2>6
    <3>2. QED
      BY <1>2, <1>6, <2>1, <3>1
  <2>7. CASE value'[l] # value[l]
    <3>1. l = k /\ d # c /\ value[k] # v
      BY <2>2, <2>4, <2>7
    <3>2. l \in Observable
      BY <1>4, <2>1 DEF MaskInv
    <3>3. Reports(Doing("written", k, v, TRUE), d, k)
      BY DEF Reports, Doing
    <3>4. Reports(task'[c], d, l)
      BY <2>1, <3>1, <3>2, <3>3
    <3>5. QED
      BY <1>2, <3>4 DEF Excused, Reports
  <2>8. QED
    BY <2>6, <2>7
<1>9. ASSUME NEW c \in Conns, NEW v \in Values, WriteMirror(c, v) PROVE Excused(d, l)'
  <2>1. /\ task[c].step = "idle" /\ UNCHANGED <<conn, failed, acked, told, belief, skipped>>
        /\ \A b \in Tasks \ {c} : task'[b] = task[b]
    BY <1>1, <1>2, <1>9 DEF WriteMirror, Dispatch
  <2>2. l # MirrorIn
    BY <1>4, <2>1, TestNodeAssumption DEF MaskInv
  <2>3. value'[l] = value[l]
    BY <1>3, <1>9, <2>2 DEF WriteMirror
  <2>4. Excused(d, l)
    BY <1>4, <1>5, <2>1, <2>3
  <2>5. QED
    BY <1>2, <1>6, <2>1, <2>4
<1>10. ASSUME NEW v \in Values, UpdateVoltage(v) PROVE Excused(d, l)'
  <2>1. /\ task[Loop].step = "idle" /\ Loop \in Tasks
        /\ UNCHANGED <<conn, failed, acked, told, belief, skipped>>
        /\ \A b \in Tasks \ {Loop} : task'[b] = task[b]
    BY <1>1, <1>10, ConstantTypes DEF UpdateVoltage
  <2>2. /\ value' = [value EXCEPT ![Voltage] = v]
        /\ value[Voltage] # v => task'[Loop] = Doing("collect", Voltage, v, TRUE)
    BY <1>1, <1>10, <2>1 DEF UpdateVoltage
  <2>3. CASE value'[l] = value[l]
    <3>1. Excused(d, l)
      BY <1>4, <1>5, <2>1, <2>3
    <3>2. QED
      BY <1>6, <2>1, <3>1
  <2>4. CASE value'[l] # value[l]
    <3>1. l = Voltage /\ value[Voltage] # v
      BY <1>3, <2>2, <2>4
    <3>2. Reports(Doing("collect", Voltage, v, TRUE), d, Voltage)
      BY DEF Reports, Doing
    <3>3. Reports(task'[Loop], d, l)
      BY <2>2, <3>1, <3>2
    <3>4. QED
      BY <2>1, <3>3 DEF Excused, Reports
  <2>5. QED
    BY <2>3, <2>4
<1>11. ASSUME NEW f \in Flushes, StoreOut(f) PROVE Excused(d, l)'
  <2>1. /\ task[f].step = "store" /\ f \in Tasks /\ task[f] \in TaskRecords
        /\ UNCHANGED <<conn, failed, acked, told, belief, skipped>>
        /\ \A b \in Tasks \ {f} : task'[b] = task[b]
    BY <1>1, <1>11, ConstantTypes DEF StoreOut
  <2>2. /\ value' = [value EXCEPT ![MirrorOut] = task[f].value]
        /\ value[MirrorOut] # task[f].value =>
             task'[f] = [task[f] EXCEPT !.step = "collect"]
    BY <1>1, <1>11, <2>1 DEF StoreOut
  <2>3. CASE value'[l] = value[l]
    <3>1. Excused(d, l)
      BY <1>4, <1>5, <2>1, <2>3
    <3>2. QED
      BY <1>6, <2>1, <3>1
  <2>4. CASE value'[l] # value[l]
    <3>1. l = MirrorOut /\ value[MirrorOut] # task[f].value
      BY <1>3, <2>2, <2>4
    <3>2. task[f].key = MirrorOut
      BY <1>1, <2>1 DEF TaskShapes, WellShaped
    <3>3. Reports(task'[f], d, l)
      BY <2>1, <2>2, <3>1, <3>2 DEF Reports, TaskRecords
    <3>4. QED
      BY <2>1, <3>3 DEF Excused, Reports
  <2>5. QED
    BY <2>3, <2>4
<1>12. ASSUME NEW c \in Conns, SendWritten(c) PROVE Excused(d, l)'
  <2>1. /\ task[c].step = "written" /\ task[c] \in TaskRecords
        /\ UNCHANGED <<value, failed, acked, told, belief>>
        /\ \A b \in Tasks \ {c} : task'[b] = task[b]
        /\ conn'[d] = "open" => conn[d] = "open"
    BY <1>1, <1>2, <1>3, <1>12 DEF SendWritten, Respond
  <2>2. /\ failed[c] /\ task[c].changed => skipped' = skipped \cup {task[c].key}
        /\ ~(failed[c] /\ task[c].changed) => skipped' = skipped
        /\ ~failed[c] /\ task[c].changed => task'[c] = [task[c] EXCEPT !.step = "collect"]
    BY <1>1, <1>2, <1>12 DEF SendWritten, Respond
  <2>3. Excused(d, l)
    BY <1>4, <1>5, <2>1
  <2>4. Reports(task[c], d, l) => task[c].changed /\ task[c].key = l
    BY <1>1, <1>2, <2>1 DEF Reports, TaskShapes, WellShaped
  <2>5. Reports(task[c], d, l) => Reports(task'[c], d, l) \/ l \in skipped'
    BY <2>1, <2>2, <2>4 DEF Reports, TaskRecords
  <2>6. Leaving(task[d], l) => Leaving(task'[d], l)
    BY <1>2, <2>1 DEF Leaving
  <2>7. \A b \in Tasks : Reports(task[b], d, l) => Reports(task'[b], d, l) \/ l \in skipped'
    BY <2>1, <2>5
  <2>8. QED
    BY <2>2, <2>3, <2>6, <2>7, ExcuseKept
<1>13. ASSUME NEW c \in Conns, NEW k \in Keys, Observe(c, k) PROVE Excused(d, l)'
  <2>1. /\ task[c].step = "idle" /\ UNCHANGED <<value, failed, skipped>>
        /\ \A b \in Tasks \ {c} : task'[b] = task[b]
        /\ conn'[d] = "open" => conn[d] = "open"
    BY <1>1, <1>2, <1>3, <1>13 DEF Observe, Dispatch, Respond, Acknowledge
  <2>2. belief'[c][k] = NoValue
    BY <1>3, <1>13 DEF Observe, Acknowledge
  <2>3. d # c \/ l # k
    BY <1>4, <2>2
  <2>4. belief'[d][l] = belief[d][l] /\ l \notin told[d] /\ l \in acked[d]
    BY <1>3, <1>4, <1>13, <2>3 DEF Observe, Acknowledge
  <2>5. Excused(d, l)
    BY <1>4, <1>5, <2>1, <2>4
  <2>6. QED
    BY <1>2, <1>6, <2>1, <2>5
<1>14. ASSUME NEW c \in Conns, NEW k \in Keys, Unobserve(c, k) PROVE Excused(d, l)'
  <2>1. /\ task[c].step = "idle"
        /\ UNCHANGED <<value, conn, failed, acked, told, belief, skipped>>
        /\ \A b \in Tasks \ {c} : task'[b] = task[b]
    BY <1>1, <1>2, <1>14 DEF Unobserve, Dispatch
  <2>2. Excused(d, l)
    BY <1>4, <1>5, <2>1
  <2>3. QED
    BY <1>2, <1>6, <2>1, <2>2
<1>15. ASSUME NEW c \in Conns, SendUnobserved(c) PROVE Excused(d, l)'
  <2>1. /\ task[c].step = "unobserve" /\ task[c].key \in Keys
        /\ UNCHANGED <<value, failed, skipped>>
        /\ \A b \in Tasks \ {c} : task'[b] = task[b]
        /\ conn'[d] = "open" => conn[d] = "open"
    BY <1>1, <1>2, <1>3, <1>15 DEF SendUnobserved, Respond, Acknowledge, TaskRecords
  <2>2. task[c].key \notin acked'[c]
    BY <1>3, <1>15 DEF SendUnobserved, Acknowledge
  <2>3. d # c \/ l # task[c].key
    BY <1>4, <2>2
  <2>4. belief'[d][l] = belief[d][l] /\ l \notin told[d] /\ l \in acked[d]
    BY <1>3, <1>4, <1>15, <2>1, <2>3 DEF SendUnobserved, Acknowledge
  <2>5. Excused(d, l)
    BY <1>4, <1>5, <2>1, <2>4
  <2>6. ~Leaving(task[d], l) \/ d # c
    BY <2>3 DEF Leaving
  <2>7. Leaving(task[d], l) => Leaving(task'[d], l)
    BY <1>2, <2>1, <2>6
  <2>8. \A b \in Tasks : Reports(task[b], d, l) => Reports(task'[b], d, l)
    BY <2>1, WhoReports
  <2>9. QED
    BY <2>1, <2>5, <2>7, <2>8, ExcuseKept
<1>16. ASSUME NEW c \in Conns, SendValue(c) \/ SetMask(c) \/ StorePending(c)
       PROVE  Excused(d, l)'
  <2>1. /\ task[c].step \in {"value", "observe", "pend"}
        /\ UNCHANGED <<value, failed, acked, told, belief, skipped>>
        /\ \A b \in Tasks \ {c} : task'[b] = task[b]
        /\ conn'[d] = "open" => conn[d] = "open"
    BY <1>1, <1>2, <1>3, <1>16 DEF SendValue, SetMask, StorePending, Respond
  <2>2. Excused(d, l)
    BY <1>4, <1>5, <2>1
  <2>3. QED
    BY <1>2, <1>6, <2>1, <2>2
<1>17. ASSUME NEW f \in Flushes, Wake(f) \/ ClonePending(f) PROVE Excused(d, l)'
  <2>1. /\ task[f].step \in {"asleep", "clone"} /\ f \in Tasks
        /\ UNCHANGED <<value, conn, failed, acked, told, belief, skipped>>
        /\ \A b \in Tasks \ {f} : task'[b] = task[b]
    BY <1>1, <1>17, ConstantTypes DEF Wake, ClonePending
  <2>2. Excused(d, l)
    BY <1>4, <1>5, <2>1
  <2>3. QED
    BY <1>6, <2>1, <2>2
<1>18. ASSUME NEW c \in Conns, Schedule(c) PROVE Excused(d, l)'
  <2>1. PICK f \in Flushes :
          /\ ticket[f] = 0
          /\ task' = [task EXCEPT ![c].step = "written",
                                  ![f] = Doing("asleep", MirrorOut, Initial, FALSE)]
    BY <1>18, FlushIsLeft DEF Schedule, Unscheduled
  <2>2. /\ f \in Tasks /\ f \notin Conns /\ task[f].step = "idle"
        /\ task[c].step = "schedule"
        /\ UNCHANGED <<value, conn, failed, acked, told, belief, skipped>>
    BY <1>1, <1>18, <2>1, ConstantTypes, TestNodeAssumption
    DEF Schedule, TaskShapes, WellShaped
  <2>3. \A b \in Tasks \ {c, f} : task'[b] = task[b]
    BY <1>1, <1>2, <2>1, <2>2
  <2>4. Excused(d, l)
    BY <1>4, <1>5, <2>2
  <2>5. \A b \in Tasks : Reports(task[b], d, l) => Reports(task'[b], d, l)
    BY <2>2, <2>3, WhoReports
  <2>6. Leaving(task[d], l) => Leaving(task'[d], l)
    BY <1>2, <2>2, <2>3 DEF Leaving
  <2>7. QED
    BY <2>2, <2>4, <2>5, <2>6, ExcuseKept
<1>19. ASSUME NEW a \in Tasks, Collect(a) PROVE Excused(d, l)'
  <2>1. /\ task[a].step = "collect" /\ task[a] \in TaskRecords
        /\ UNCHANGED <<value, conn, failed, acked, told, belief, skipped>>
        /\ \A b \in Tasks \ {a} : task'[b] = task[b]
    BY <1>1, <1>19 DEF Collect
  <2>2. Excused(d, l) /\ d \in Registered
    BY <1>4, <1>5, <2>1 DEF Registered
  <2>3. task'[a] = [task[a] EXCEPT !.step = "check", !.targets = Registered]
    BY <1>1, <1>19, <2>2 DEF Collect
  <2>4. Reports(task[a], d, l) => Reports(task'[a], d, l)
    BY <2>1, <2>2, <2>3 DEF Reports, TaskRecords
  <2>5. Leaving(task[d], l) => Leaving(task'[d], l)
    BY <1>2, <2>1 DEF Leaving
  <2>6. QED
    BY <2>1, <2>2, <2>4, <2>5, ExcuseKept
\* A task in the loop over its connections goes on to those behind its target.
<1>20. ASSUME NEW a \in Tasks, task'[a] = Visited(a), Reports(task[a], d, l), d # Target(a),
              task[a].step \in {"check", "send"}
       PROVE  Reports(task'[a], d, l)
  <2>1. d \in task[a].targets /\ task[a] \in TaskRecords
    BY <1>1, <1>20 DEF Reports
  <2>2. task'[a] = [task[a] EXCEPT !.step = "check", !.targets = @ \ {Target(a)}]
    BY <1>20, <2>1 DEF Visited
  <2>3. QED
    BY <1>20, <2>1, <2>2 DEF Reports, TaskRecords
<1>21. ASSUME NEW a \in Tasks, CheckMask(a) PROVE Excused(d, l)'
  <2>1. /\ task[a].step = "check" /\ task[a] \in TaskRecords
        /\ UNCHANGED <<value, conn, failed, mask, acked, told, belief, skipped>>
        /\ \A b \in Tasks \ {a} : task'[b] = task[b]
    BY <1>1, <1>21 DEF CheckMask
  <2>2. Stale(d, l) /\ Excused(d, l)
    BY <1>4, <1>5, <2>1
  <2>3. Leaving(task[d], l) => Leaving(task'[d], l)
    BY <1>2, <2>1 DEF Leaving
  <2>4. CASE task[a].key \in mask[Target(a)]
    <3>1. task'[a] = [task[a] EXCEPT !.step = "send"]
      BY <1>1, <1>21, <2>4 DEF CheckMask
    <3>2. Reports(task[a], d, l) => Reports(task'[a], d, l)
      BY <2>1, <3>1 DEF Reports, TaskRecords
    <3>3. QED
      BY <2>1, <2>2, <2>3, <3>2, ExcuseKept
  <2>5. CASE task[a].key \notin mask[Target(a)]
    <3>1. task'[a] = Visited(a)
      BY <1>1, <1>21, <2>5 DEF CheckMask
    <3>2. CASE Reports(task[a], d, l) /\ d = Target(a)
      <4>1. l \notin mask[d] /\ l \in acked[d] /\ conn[d] = "open"
            /\ belief[d][l] # NoValue
        BY <2>2, <2>5, <3>2 DEF Reports, Stale
      <4>2. task[d].step = "unobserve" /\ task[d].key = l
        BY <4>1 DEF LagInv
      <4>3. QED
        BY <2>3, <4>2 DEF Excused, Leaving
    <3>3. CASE ~(Reports(task[a], d, l) /\ d = Target(a))
      <4>1. Reports(task[a], d, l) => Reports(task'[a], d, l)
        BY <1>20, <2>1, <3>1, <3>3
      <4>2. QED
        BY <2>1, <2>2, <2>3, <4>1, ExcuseKept
    <3>4. QED
      BY <3>2, <3>3
  <2>6. QED
    BY <2>4, <2>5
<1>22. ASSUME NEW a \in Tasks, SendChanged(a) PROVE Excused(d, l)'
  <2>1. /\ task[a].step = "send" /\ task[a] \in TaskRecords /\ task'[a] = Visited(a)
        /\ UNCHANGED <<value, conn, failed, acked, belief, skipped>>
        /\ \A b \in Tasks \ {a} : task'[b] = task[b]
    BY <1>1, <1>22 DEF SendChanged
  <2>2. /\ l \notin told[d]
        /\ ~(d = Target(a) /\ l = task[a].key)
    BY <1>3, <1>4, <1>22 DEF SendChanged
  <2>3. Excused(d, l)
    BY <1>4, <1>5, <2>1, <2>2
  <2>4. Leaving(task[d], l) => Leaving(task'[d], l)
    BY <1>2, <2>1 DEF Leaving
  <2>5. Reports(task[a], d, l) => Reports(task'[a], d, l)
    BY <1>20, <2>1, <2>2 DEF Reports
  <2>6. QED
    BY <2>1, <2>3, <2>4, <2>5, ExcuseKept
<1>23. ASSUME NEW c \in Conns, Accept(c) \/ Close(c) \/ WriteFrame(c) PROVE Excused(d, l)'
  <2>1. UNCHANGED <<value, task, acked, told, belief, skipped>>
        /\ (failed[d] => failed'[d])
    BY <1>1, <1>23 DEF Accept, Close, WriteFrame, TypeOK
  <2>2. conn'[d] = "open" => conn[d] \in {"open", "new"}
    BY <1>3, <1>23 DEF Accept, Close, WriteFrame
  <2>3. conn[d] # "new"
    BY <1>4, <2>1 DEF LagInv
  <2>4. Excused(d, l)
    BY <1>4, <1>5, <2>1, <2>2, <2>3
  <2>5. QED
    BY <2>1, <2>4 DEF Excused
<1>24. CASE UNCHANGED vars
  <2>1. Excused(d, l)
    BY <1>4, <1>5, <1>24 DEF vars
  <2>2. QED
    BY <1>24, <2>1 DEF vars, Excused
<1>25. QED
  BY <1>7, <1>8, <1>9, <1>10, <1>11, <1>12, <1>13, <1>14, <1>15, <1>16, <1>17, <1>18, <1>19,
     <1>21, <1>22, <1>23, <1>24 DEF Next, Continue

\* No change of a key that a client observes is lost by broadcast_changed: not
\* between the read of a mask and the send, nor between OBSERVE's `k` and the
\* mask, nor by writers and flushes whose broadcasts overlap.
THEOREM ChangesAreNotLost == Spec => []NoLostChange
<1>1. Init => NoLostChange
  BY DEF Init, NoLostChange, Stale
<1>2. TypeInv /\ MaskInv /\ LagInv /\ NoLostChange /\ [Next]_vars => NoLostChange'
  BY LostStep
<1>3. QED
  BY <1>1, <1>2, MaskInvariance, LagInvariance, PTL DEF Spec

-----------------------------------------------------------------------------
(* The mirror settles.                                                     *)

Flushing == {"asleep", "clone", "store"}

\* A write of the mirror has set what is pending and has yet to count it.
Uncounted == \E c \in Conns : task[c].step = "schedule"

\* The flush of the last generation has run or will; what it holds, and what
\* it stored, is what is pending, unless a later write is not counted yet.
MirrorInv ==
  /\ generation > 0 =>
       \/ generation \in ToSet(stores)
       \/ \E f \in Flushes : ticket[f] = generation /\ task[f].step \in Flushing
  /\ \A f \in Flushes :
       task[f].step = "store" /\ ticket[f] = generation =>
         task[f].value = pending \/ Uncounted
  /\ stores # <<>> /\ Last(stores) = generation =>
       value[MirrorOut] = pending \/ Uncounted

\* Steps that are none of the mirror's.
LEMMA MirrorQuiet ==
  ASSUME MirrorInv, UNCHANGED <<pending, generation, ticket, stores>>,
         value'[MirrorOut] = value[MirrorOut],
         \A f \in Flushes : \/ task'[f] = task[f]
                            \/ task[f].step \notin Flushing /\ task'[f].step \notin Flushing,
         \A c \in Conns : task[c].step = "schedule" => task'[c].step = "schedule"
  PROVE  MirrorInv'
<1>1. Uncounted => Uncounted'
  BY DEF Uncounted
<1>2. \A f \in Flushes : task'[f].step \in Flushing => task'[f] = task[f]
  OBVIOUS
<1>3. \A f \in Flushes : task[f].step \in Flushing => task'[f] = task[f]
  OBVIOUS
<1>4. \A f \in Flushes : task'[f].step = "store" => task'[f] = task[f]
  BY <1>2 DEF Flushing
<1>5. QED
  BY <1>1, <1>3, <1>4 DEF MirrorInv

\* One more flush has stored.
LEMMA StoresAppended ==
  ASSUME TypeOK, NEW f \in Flushes, ticket[f] \in 1 .. generation,
         stores' = Append(stores, ticket[f])
  PROVE  /\ stores' # <<>> /\ Last(stores') = ticket[f]
         /\ ToSet(stores') = ToSet(stores) \cup {ticket[f]}
<1>1. stores \in Seq(1 .. generation)
  BY DEF TypeOK
<1>2. /\ stores' \in Seq(1 .. generation) /\ stores' # <<>>
      /\ Len(stores') = Len(stores) + 1 /\ Len(stores) \in Nat
      /\ \A i \in 1 .. Len(stores) : stores'[i] = stores[i]
      /\ stores'[Len(stores) + 1] = ticket[f]
  BY <1>1, AppendProperties, LenProperties
<1>3. DOMAIN stores = 1 .. Len(stores) /\ DOMAIN stores' = 1 .. Len(stores) + 1
  BY <1>1, <1>2, LenProperties
<1>4. 1 .. Len(stores) + 1 = 1 .. Len(stores) \cup {Len(stores) + 1}
  BY <1>2
<1>5. ToSet(stores') = ToSet(stores) \cup {ticket[f]}
  BY <1>2, <1>3, <1>4 DEF ToSet
<1>6. Last(stores') = ticket[f]
  BY <1>2 DEF Last
<1>7. QED
  BY <1>2, <1>5, <1>6

LEMMA MirrorStep == TypeInv /\ MirrorInv /\ [Next]_vars => MirrorInv'
<1> SUFFICES ASSUME TypeInv, MirrorInv, [Next]_vars PROVE MirrorInv'
  OBVIOUS
<1>1. TypeOK /\ task \in [Tasks -> TaskRecords] /\ TaskShapes
  BY TaskTypes DEF TypeInv
<1>2. (\A c \in Conns : c \in Tasks) /\ (\A f \in Flushes : f \in Tasks) /\ Loop \in Tasks
  BY ConstantTypes
<1>3. Conns \cap Flushes = {} /\ Loop \notin Conns \cup Flushes
  BY TestNodeAssumption
<1>4. /\ value \in [Keys -> Values] /\ generation \in Nat
      /\ ticket \in [Flushes -> 0 .. generation] /\ stores \in Seq(1 .. generation)
  BY <1>1 DEF TypeOK
<1>5. MirrorOut \notin Writable /\ MirrorIn \in Writable /\ Voltage # MirrorOut
  BY TestNodeAssumption
<1> USE DEF mirrorVars, historyVars
\* A step of one task that is no flush that has yet to store.
<1>6. ASSUME NEW a \in Tasks, \A b \in Tasks \ {a} : task'[b] = task[b],
             UNCHANGED <<pending, generation, ticket, stores>>,
             value'[MirrorOut] = value[MirrorOut],
             task[a].step # "schedule",
             a \in Flushes => task[a].step \notin Flushing /\ task'[a].step \notin Flushing
      PROVE  MirrorInv'
  <2>1. \A f \in Flushes : \/ task'[f] = task[f]
                           \/ task[f].step \notin Flushing /\ task'[f].step \notin Flushing
    BY <1>2, <1>6
  <2>2. \A c \in Conns : task[c].step = "schedule" => task'[c].step = "schedule"
    BY <1>2, <1>6
  <2>3. QED
    BY <1>6, <2>1, <2>2, MirrorQuiet
<1>7. ASSUME UNCHANGED <<task, value, pending, generation, ticket, stores>> PROVE MirrorInv'
  BY <1>7, MirrorQuiet
<1>8. ASSUME NEW c \in Conns, NEW k \in Keys,
             Get(c, k) \/ Observe(c, k) \/ Unobserve(c, k)
      PROVE  MirrorInv'
  <2>1. /\ task[c].step = "idle" /\ UNCHANGED <<value, pending, generation, ticket, stores>>
        /\ \A b \in Tasks \ {c} : task'[b] = task[b]
    BY <1>1, <1>2, <1>8 DEF Get, Observe, Unobserve, Dispatch, Respond
  <2>2. QED
    BY <1>2, <1>3, <1>6, <2>1
<1>9. ASSUME NEW c \in Conns, NEW k \in Keys, NEW v \in Values, Write(c, k, v)
      PROVE  MirrorInv'
  <2>1. /\ task[c].step = "idle" /\ UNCHANGED <<pending, generation, ticket, stores>>
        /\ \A b \in Tasks \ {c} : task'[b] = task[b]
        /\ value'[MirrorOut] = value[MirrorOut]
    BY <1>1, <1>2, <1>4, <1>5, <1>9 DEF Write, Dispatch
  <2>2. QED
    BY <1>2, <1>3, <1>6, <2>1
<1>10. ASSUME NEW c \in Conns, NEW v \in Values, WriteMirror(c, v) PROVE MirrorInv'
  <2>1. /\ task[c].step = "idle" /\ UNCHANGED <<pending, generation, ticket, stores>>
        /\ \A b \in Tasks \ {c} : task'[b] = task[b]
        /\ value'[MirrorOut] = value[MirrorOut]
    BY <1>1, <1>2, <1>4, <1>5, <1>10 DEF WriteMirror, Dispatch
  <2>2. QED
    BY <1>2, <1>3, <1>6, <2>1
<1>11. ASSUME NEW v \in Values, UpdateVoltage(v) PROVE MirrorInv'
  <2>1. /\ task[Loop].step = "idle" /\ UNCHANGED <<pending, generation, ticket, stores>>
        /\ \A b \in Tasks \ {Loop} : task'[b] = task[b]
        /\ value'[MirrorOut] = value[MirrorOut]
    BY <1>1, <1>4, <1>5, <1>11 DEF UpdateVoltage
  <2>2. QED
    BY <1>2, <1>3, <1>6, <2>1
<1>12. ASSUME NEW c \in Conns,
              SendValue(c) \/ SendWritten(c) \/ SetMask(c) \/ SendUnobserved(c)
       PROVE  MirrorInv'
  <2>1. /\ task[c].step # "schedule"
        /\ UNCHANGED <<value, pending, generation, ticket, stores>>
        /\ \A b \in Tasks \ {c} : task'[b] = task[b]
    BY <1>1, <1>2, <1>12 DEF SendValue, SendWritten, SetMask, SendUnobserved, Respond
  <2>2. QED
    BY <1>2, <1>3, <1>6, <2>1
<1>13. ASSUME NEW a \in Tasks, Collect(a) \/ CheckMask(a) \/ SendChanged(a) PROVE MirrorInv'
  <2>1. /\ task[a].step \in {"collect", "check", "send"} /\ task[a] \in TaskRecords
        /\ UNCHANGED <<value, pending, generation, ticket, stores>>
        /\ \A b \in Tasks \ {a} : task'[b] = task[b]
    BY <1>1, <1>13 DEF Collect, CheckMask, SendChanged
  <2>2. task'[a] \in {Idle, Visited(a), [task[a] EXCEPT !.step = "send"],
                      [task[a] EXCEPT !.step = "check", !.targets = Registered]}
    BY <1>1, <1>13 DEF Collect, CheckMask, SendChanged
  <2>3. /\ Idle.step = "idle" /\ Visited(a).step \in {"idle", "check"}
        /\ [task[a] EXCEPT !.step = "send"].step = "send"
        /\ [task[a] EXCEPT !.step = "check", !.targets = Registered].step = "check"
    BY <2>1 DEF Idle, Visited, TaskRecords
  <2>4. task'[a].step \notin Flushing
    BY <2>2, <2>3 DEF Flushing
  <2>5. QED
    BY <1>6, <2>1, <2>4 DEF Flushing
<1>14. ASSUME NEW c \in Conns, Accept(c) \/ Close(c) \/ WriteFrame(c) PROVE MirrorInv'
  BY <1>7, <1>14 DEF Accept, Close, WriteFrame
<1>15. ASSUME NEW c \in Conns, StorePending(c) PROVE MirrorInv'
  <2>1. /\ task[c] \in TaskRecords /\ UNCHANGED <<value, generation, ticket, stores>>
        /\ task'[c] = [task[c] EXCEPT !.step = "schedule"]
        /\ \A b \in Tasks \ {c} : task'[b] = task[b]
    BY <1>1, <1>2, <1>15 DEF StorePending
  <2>2. task'[c].step = "schedule"
    BY <2>1 DEF TaskRecords
  <2>3. Uncounted'
    BY <2>2 DEF Uncounted
  <2>4. \A f \in Flushes : task'[f] = task[f]
    BY <1>2, <1>3, <2>1
  <2>5. QED
    BY <2>1, <2>3, <2>4 DEF MirrorInv
<1>16. ASSUME NEW c \in Conns, Schedule(c) PROVE MirrorInv'
  <2>1. PICK f \in Flushes :
          /\ ticket' = [ticket EXCEPT ![f] = generation + 1]
          /\ task' = [task EXCEPT ![c].step = "written",
                                  ![f] = Doing("asleep", MirrorOut, Initial, FALSE)]
    BY <1>16, FlushIsLeft DEF Schedule, Unscheduled
  <2>2. generation' = generation + 1 /\ stores' = stores
    BY <1>16 DEF Schedule
  <2>3. ticket'[f] = generation' /\ \A g \in Flushes \ {f} : ticket'[g] # generation'
    BY <1>4, <2>1, <2>2
  <2>4. task'[f].step = "asleep"
    <3>1. task'[f] = Doing("asleep", MirrorOut, Initial, FALSE)
      BY <1>1, <1>2, <1>3, <2>1
    <3>2. QED
      BY <3>1 DEF Doing
  <2>5. stores # <<>> => Last(stores) # generation'
    <3>1. stores # <<>> => Len(stores) \in 1 .. Len(stores)
      BY <1>4, EmptySeq
    <3>2. stores # <<>> => Last(stores) \in 1 .. generation
      BY <1>4, <3>1, ElementOfSeq DEF Last
    <3>3. QED
      BY <1>4, <2>2, <3>2
  <2>6. \A g \in Flushes : ~(task'[g].step = "store" /\ ticket'[g] = generation')
    BY <2>3, <2>4
  <2>7. QED
    BY <2>2, <2>3, <2>4, <2>5, <2>6 DEF MirrorInv, Flushing
<1>17. ASSUME NEW f \in Flushes, Wake(f) PROVE MirrorInv'
  <2>1. /\ task[f].step = "asleep" /\ task[f] \in TaskRecords
        /\ UNCHANGED <<value, pending, generation, ticket, stores>>
        /\ \A b \in Tasks \ {f} : task'[b] = task[b]
    BY <1>1, <1>2, <1>17 DEF Wake
  <2>2. /\ ticket[f] = generation => task'[f] = [task[f] EXCEPT !.step = "clone"]
        /\ ticket[f] # generation => task'[f] = Idle
    BY <1>1, <1>2, <1>17 DEF Wake
  <2>3. /\ ticket[f] = generation => task'[f].step = "clone"
        /\ task'[f].step # "store"
    BY <2>1, <2>2 DEF TaskRecords, Idle
  <2>4. Uncounted => Uncounted'
    BY <1>2, <1>3, <2>1 DEF Uncounted
  <2>5. \A g \in Flushes : g # f => task'[g] = task[g]
    BY <1>2, <2>1
  <2>6. QED
    BY <2>1, <2>3, <2>4, <2>5 DEF MirrorInv, Flushing
<1>18. ASSUME NEW f \in Flushes, ClonePending(f) PROVE MirrorInv'
  <2>1. /\ task[f].step = "clone" /\ task[f] \in TaskRecords
        /\ UNCHANGED <<value, pending, generation, ticket, stores>>
        /\ \A b \in Tasks \ {f} : task'[b] = task[b]
        /\ task'[f] = [task[f] EXCEPT !.step = "store", !.value = pending]
    BY <1>1, <1>2, <1>18 DEF ClonePending
  <2>2. task'[f].step = "store" /\ task'[f].value = pending
    BY <2>1 DEF TaskRecords
  <2>3. Uncounted => Uncounted'
    BY <1>2, <1>3, <2>1 DEF Uncounted
  <2>4. \A g \in Flushes : g # f => task'[g] = task[g]
    BY <1>2, <2>1
  <2>5. QED
    BY <2>1, <2>2, <2>3, <2>4 DEF MirrorInv, Flushing
<1>19. ASSUME NEW f \in Flushes, StoreOut(f) PROVE MirrorInv'
  <2>1. /\ task[f].step = "store" /\ task[f] \in TaskRecords
        /\ UNCHANGED <<pending, generation, ticket>>
        /\ stores' = Append(stores, ticket[f])
        /\ \A b \in Tasks \ {f} : task'[b] = task[b]
        /\ value'[MirrorOut] = task[f].value
    BY <1>1, <1>2, <1>4, <1>19, ConstantTypes DEF StoreOut
  <2>2. task'[f] \in {Idle, [task[f] EXCEPT !.step = "collect"]}
    BY <1>1, <1>2, <1>19 DEF StoreOut
  <2>3. task'[f].step \in {"idle", "collect"}
    BY <2>1, <2>2 DEF TaskRecords, Idle
  <2>4. ticket[f] \in 1 .. generation
    <3>1. WellShaped(f, task[f])
      BY <1>1, <1>2 DEF TaskShapes
    <3>2. ticket[f] # 0
      BY <2>1, <3>1 DEF WellShaped
    <3>3. ticket[f] \in 0 .. generation
      BY <1>4
    <3>4. QED
      BY <1>4, <3>2, <3>3
  <2>5. /\ stores' # <<>> /\ Last(stores') = ticket[f]
        /\ ToSet(stores') = ToSet(stores) \cup {ticket[f]}
    BY <1>1, <2>1, <2>4, StoresAppended
  <2>6. Uncounted => Uncounted'
    BY <1>2, <1>3, <2>1 DEF Uncounted
  <2>7. \A g \in Flushes : g # f => task'[g] = task[g]
    BY <1>2, <2>1
  <2>8. QED
    BY <2>1, <2>3, <2>5, <2>6, <2>7 DEF MirrorInv, Flushing
<1>20. CASE UNCHANGED vars
  BY <1>7, <1>20 DEF vars
<1>21. QED
  BY <1>8, <1>9, <1>10, <1>11, <1>12, <1>13, <1>14, <1>15, <1>16, <1>17, <1>18, <1>19,
     <1>20 DEF Next, Continue

LEMMA MirrorInit == Init => MirrorInv
<1> SUFFICES ASSUME Init PROVE MirrorInv
  OBVIOUS
<1>1. \A f \in Flushes : task[f].step = "idle"
  BY ConstantTypes DEF Init, Idle
<1>2. QED
  BY <1>1 DEF Init, MirrorInv

\* Once no write or flush of the mirror is under way the flush of the last
\* generation has run, and mirror_out is what the writers left pending unless
\* an older flush, which had passed its check, stored after it.
THEOREM MirrorSettlesSafely == Spec => []MirrorSettles
<1>1. TypeInv /\ MirrorInv => MirrorSettles
  <2> SUFFICES ASSUME TypeInv, MirrorInv, MirrorAtRest, generation > 0
               PROVE  /\ generation \in ToSet(stores)
                      /\ Last(stores) = generation => value[MirrorOut] = pending
    BY DEF MirrorSettles
  <2>1. ~Uncounted /\ \A f \in Flushes : task[f].step \notin Flushing
    BY DEF MirrorAtRest, Uncounted, Flushing
  <2>2. generation \in ToSet(stores)
    BY <2>1 DEF MirrorInv
  <2>3. stores # <<>>
    BY <2>2 DEF ToSet
  <2>4. QED
    BY <2>1, <2>2, <2>3 DEF MirrorInv
<1>2. Spec => [](TypeInv /\ MirrorInv)
  BY MirrorInit, MirrorStep, TypeInvariance, PTL DEF Spec
<1>3. QED
  BY <1>1, <1>2, PTL
=============================================================================
