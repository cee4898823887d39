--------------------------- MODULE QupClientProofs ---------------------------
(***************************************************************************)
(* Proofs about QupClient, for any keytab, names and bounds: its types,    *)
(* the reasons a session ends for, and that the screen tells of changes.   *)
(***************************************************************************)
EXTENDS QupClient, TLAPS

-----------------------------------------------------------------------------
(* The request that the client awaits an answer of, and its answer.        *)

ChangedFrame(k) == Frame("CHANGED", k, 0)

Awaiting == pc \in {"keytab", "key", "reply"}

Awaited ==
  CASE pc = "keytab" -> [op |-> "keytab", key |-> NoKey]
    [] pc = "key"    -> [op |-> "key", key |-> fetched + 1]
    [] OTHER         -> [op |-> cmd.verb, key |-> keyref]

\* f is a response to r.
Answers(r, f) ==
  /\ f.key = r.key
  /\ \/ f.op = "ERROR" /\ ~Granted(r)
     \/ /\ Granted(r)
        /\ \/ r.op \in {"ping", "observe", "unobserve"} /\ f.op = "OK"
           \/ r.op = "keytab" /\ f.op = "KEYTABLEN"
           \/ r.op = "key" /\ f.op = "KEY"
           \/ r.op = "get" /\ f.op = "VALUE"
           \/ r.op = "write" /\ f.op = "WRITTEN"

Responses == {i \in DOMAIN wire : wire[i].op # "CHANGED"}

\* At most one request is under way, it is the one that is awaited, and it is
\* on its way to the node, half done, or answered.
OneRequest ==
  /\ asked # NoReq => Awaiting /\ asked = Awaited /\ Responses = {} /\ doing.op \in {"none", "mask"}
  /\ doing.op \in {"VALUE", "WRITTEN"} => Awaiting /\ Answers(Awaited, doing) /\ Responses = {}
  /\ \A i \in Responses : Awaiting /\ Answers(Awaited, wire[i]) /\ \A j \in Responses : j = i

-----------------------------------------------------------------------------
(* Types.                                                                  *)

Requests == [op : KeyVerbs \cup {"none", "ping", "keytab"}, key : 0 .. Len(Keytab)]

\* Frames that carry a key name one of the table.
Carries(f) == f.op \in {"mask", "VALUE", "WRITTEN", "CHANGED"} => f.key \in Keys

NodeTypes ==
  /\ value \in [Keys -> Nat] /\ observed \subseteq Keys /\ owed \in [Keys -> Nat]
  /\ asked \in Requests
  /\ doing \in FramesOf /\ Carries(doing)
  /\ doing = Nothing \/ doing.op \in {"VALUE", "WRITTEN"} \/ doing = Frame("mask", doing.key, 0)
  /\ wire \in Seq(FramesOf) /\ \A i \in DOMAIN wire : Carries(wire[i])
  /\ changes \in 0 .. MaxChanges

ClientTypes ==
  /\ pc \in Reading \cup {"prompt", "done"}
  /\ cmd \in Commands /\ keyref \in 0 .. Len(Keytab) /\ fetched \in 0 .. Len(Keytab)
  /\ begun \in BOOLEAN /\ error \in Errors /\ commands \in 0 .. MaxCommands
  /\ pc = "keytab" => fetched = 0
  /\ pc = "key" => fetched < Len(Keytab)
  /\ pc = "keytab" => cmd.verb \in KeyVerbs \cup {"keycount", "listkeys"}
  /\ pc = "key" => cmd.verb \in KeyVerbs \cup {"listkeys"}
  /\ pc = "reply" => cmd.verb \in (KeyVerbs \ {"misvalue"}) \cup {"ping"}

HistoryTypes ==
  /\ acked \subseteq Keys /\ known \in [Keys -> Nat] /\ flagged \subseteq Keys
  /\ hidden \subseteq Keys /\ crossed \subseteq Keys /\ missed \subseteq Keys
  /\ torn \in BOOLEAN

\* Follow mode observes and reads a key with the flags that both need.
FollowInv ==
  /\ pc = "follow" => mode = "follow"
  /\ mode = "follow" =>
    /\ cmd.verb \in {"observe", "get"} /\ pc \notin {"prompt", "read", "readtimed"}
    /\ pc \in {"reply", "follow"} => keyref \in Keys /\ Followable(keyref)

TypeInv ==
  /\ node \in {"embassy", "tokio"} /\ mode \in {"repl", "follow"}
  /\ NodeTypes /\ ClientTypes /\ HistoryTypes /\ FollowInv
  /\ pc # "done" => OneRequest

-----------------------------------------------------------------------------
(* Lemmas about requests, frames and commands.                             *)

LEMMA KeytabFacts ==
  /\ Len(Keytab) \in Nat /\ Len(Keytab) >= 1 /\ Keys = 1 .. Len(Keytab) /\ Keys \subseteq 0 .. Len(Keytab)
  /\ NoKey = 0 /\ NoKey \notin Keys /\ NoKey \in 0 .. Len(Keytab)
  /\ 0 \in 0 .. Len(Keytab) /\ 1 \in Keys
  /\ Refs \subseteq 0 .. Len(Keytab)
  BY QupClientAssumption DEF Keys, NoKey

LEMMA CommandFacts ==
  /\ \A c \in Commands :
       /\ c.verb \in KeyVerbs \cup {"ping", "keycount", "listkeys", "read", "readtimed"}
       /\ c.sel.ref \in Refs
       /\ c.sel.byName => c.verb \in KeyVerbs
  /\ \A verb \in KeyVerbs, sel \in Selectors : [verb |-> verb, sel |-> sel] \in Commands
  /\ [verb |-> "ping", sel |-> NoSelector] \in Commands
<1>1. /\ \A s \in Selectors : s.ref \in Refs
      /\ NoSelector.ref \in Refs /\ ~NoSelector.byName
  BY QupClientAssumption DEF Selectors, NoSelector
<1>2. QED
  BY <1>1 DEF Commands

\* The command of follow mode, once its key is observed.
LEMMA GetCommand ==
  ASSUME NEW c \in Commands, c.verb \in KeyVerbs
  PROVE  [c EXCEPT !.verb = "get"] \in Commands /\ [c EXCEPT !.verb = "get"].verb = "get"
<1>1. c \in [verb : KeyVerbs, sel : Selectors]
  BY DEF Commands, KeyVerbs
<1>2. ASSUME NEW d, d = [c EXCEPT !.verb = "get"] PROVE d \in Commands /\ d.verb = "get"
  <2>1. d \in [verb : KeyVerbs, sel : Selectors]
    BY <1>1, <1>2 DEF KeyVerbs
  <2>2. d.verb = "get"
    BY <1>1, <1>2
  <2>3. QED
    BY <2>1, <2>2 DEF Commands
<1>3. QED
  BY <1>2

\* Frames, as the actions make them.
LEMMA MadeFrames ==
  /\ \A o \in FrameOps, k \in 0 .. Len(Keytab), v \in Nat :
       /\ Frame(o, k, v) \in FramesOf
       /\ Frame(o, k, v).op = o /\ Frame(o, k, v).key = k /\ Frame(o, k, v).value = v
  /\ Nothing \in FramesOf /\ Nothing.op = "none" /\ Carries(Nothing)
  /\ \A k \in Keys : Frame("mask", k, 0) # Nothing
  BY KeytabFacts DEF Frame, FramesOf, FrameOps, Nothing, Carries

LEMMA WireAppend ==
  ASSUME NodeTypes, NEW f \in FramesOf, wire' = Append(wire, f)
  PROVE  /\ Len(wire) \in Nat
         /\ \A i \in DOMAIN wire : i \in DOMAIN wire' /\ wire'[i] = wire[i] /\ i < Len(wire) + 1
         /\ Len(wire) + 1 \in DOMAIN wire' /\ wire'[Len(wire) + 1] = f
         /\ \A i \in DOMAIN wire' : i \in DOMAIN wire \/ i = Len(wire) + 1
         /\ wire' \in Seq(FramesOf) /\ (Carries(f) => \A i \in DOMAIN wire' : Carries(wire'[i]))
  BY DEF NodeTypes

LEMMA WireTail ==
  ASSUME NodeTypes, wire # <<>>, wire' = Tail(wire)
  PROVE  /\ 1 \in DOMAIN wire /\ Head(wire) = wire[1] /\ Head(wire) \in FramesOf /\ Carries(Head(wire))
         /\ \A i \in DOMAIN wire' : i \in Nat \ {0} /\ i + 1 \in DOMAIN wire /\ wire'[i] = wire[i + 1]
         /\ \A i \in DOMAIN wire : i \in Nat /\ (i # 1 => i - 1 \in DOMAIN wire' /\ wire'[i - 1] = wire[i])
         /\ wire' \in Seq(FramesOf) /\ \A i \in DOMAIN wire' : Carries(wire'[i])
  BY DEF NodeTypes

\* A response, as the node makes it.
LEMMA MadeResponse ==
  ASSUME NEW o \in {"OK", "ERROR", "KEYTABLEN", "KEY", "VALUE", "WRITTEN"}, NEW k \in 0 .. Len(Keytab), NEW v \in Nat,
         o \in {"VALUE", "WRITTEN"} => k \in Keys
  PROVE  /\ Frame(o, k, v) \in FramesOf /\ Carries(Frame(o, k, v)) /\ Frame(o, k, v).op = o
         /\ Frame(o, k, v).key = k /\ Frame(o, k, v).value = v
<1>1. o \in FrameOps
  BY DEF FrameOps
<1>2. Frame(o, k, v) \in FramesOf /\ Frame(o, k, v).op = o /\ Frame(o, k, v).key = k /\ Frame(o, k, v).value = v
  BY <1>1, MadeFrames
<1>3. QED
  BY <1>2 DEF Carries

\* What the node makes of a request: a response, or a half-done one.
LEMMA Served ==
  ASSUME NodeTypes, Serve, node \in {"embassy", "tokio"}
  PROVE  /\ doing = Nothing /\ asked # NoReq /\ asked' = NoReq
         /\ \/ /\ wire' = wire /\ doing' \in FramesOf
               /\ doing'.op \in {"VALUE", "WRITTEN"} /\ Answers(asked, doing') /\ Carries(doing')
            \/ /\ doing' = Nothing \/ (asked.key \in Keys /\ doing' = Frame("mask", asked.key, 0))
               /\ \E f \in FramesOf : wire' = Append(wire, f) /\ Answers(asked, f) /\ Carries(f) /\ f.op # "CHANGED"
<1> DEFINE k == asked.key
           Made == \E f \in FramesOf : wire' = Append(wire, f) /\ Answers(asked, f) /\ Carries(f) /\ f.op # "CHANGED"
           Halved == /\ wire' = wire /\ doing' \in FramesOf
                     /\ doing'.op \in {"VALUE", "WRITTEN"} /\ Answers(asked, doing') /\ Carries(doing')
<1>1. doing = Nothing /\ asked # NoReq /\ asked' = NoReq /\ asked \in Requests
  BY DEF Serve, NodeTypes
<1>2. k \in 0 .. Len(Keytab)
  BY <1>1 DEF Requests
<1>3. ASSUME NEW o \in {"OK", "ERROR", "KEYTABLEN", "KEY", "VALUE", "WRITTEN"}, NEW v \in Nat,
             o \in {"VALUE", "WRITTEN"} => k \in Keys,
             IF o = "ERROR" THEN ~Granted(asked) ELSE Granted(asked),
             o = "OK" => asked.op \in {"ping", "observe", "unobserve"},
             o = "KEYTABLEN" => asked.op = "keytab",
             o = "KEY" => asked.op = "key",
             o = "VALUE" => asked.op = "get",
             o = "WRITTEN" => asked.op = "write"
      PROVE  LET f == Frame(o, k, v) IN
             f \in FramesOf /\ f.op = o /\ Answers(asked, f) /\ Carries(f) /\ f.op # "CHANGED"
  <2> HIDE DEF k
  <2>1. LET f == Frame(o, k, v) IN f \in FramesOf /\ Carries(f) /\ f.op = o /\ f.key = k
    BY <1>2, <1>3, MadeResponse
  <2> USE DEF k
  <2>2. QED
    BY <1>3, <2>1 DEF Answers
<1>4. CASE Refuse
  <2>1. ~Granted(asked) /\ wire' = Append(wire, Frame("ERROR", k, 0)) /\ doing' = doing
    BY <1>4 DEF Refuse, Send
  <2>2. Made
    BY <2>1, <1>3
  <2>3. QED BY <1>1, <2>1, <2>2
<1>5. CASE AnswerConstant
  <2>1. /\ Granted(asked) /\ doing' = doing
        /\ \E o \in {"OK", "KEYTABLEN", "KEY"} :
          /\ wire' = Append(wire, Frame(o, k, 0))
          /\ o = "OK" => asked.op = "ping"
          /\ o = "KEYTABLEN" => asked.op = "keytab"
          /\ o = "KEY" => asked.op = "key"
    BY <1>5 DEF AnswerConstant, Send
  <2>2. Made
    BY <2>1, <1>3
  <2>3. QED BY <1>1, <2>1, <2>2
<1>6. CASE AnswerGet
  <2>1. k \in Keys /\ value[k] \in Nat /\ Granted(asked) /\ asked.op = "get"
    BY <1>6 DEF AnswerGet, Granted, NodeTypes
  <2>2. LET f == Frame("VALUE", k, value[k]) IN
        f \in FramesOf /\ f.op = "VALUE" /\ Answers(asked, f) /\ Carries(f) /\ f.op # "CHANGED"
    BY <2>1, <1>3
  <2>3. \/ doing' = Frame("VALUE", k, value[k]) /\ wire' = wire
        \/ wire' = Append(wire, Frame("VALUE", k, value[k])) /\ doing' = doing
    BY <1>6 DEF AnswerGet, Send
  <2>4. QED BY <1>1, <2>2, <2>3
<1>7. CASE AnswerWrite
  <2>1. k \in Keys /\ value'[k] \in Nat /\ Granted(asked) /\ asked.op = "write"
    BY <1>7 DEF AnswerWrite, Granted, NodeTypes
  <2>2. LET f == Frame("WRITTEN", k, value'[k]) IN
        f \in FramesOf /\ f.op = "WRITTEN" /\ Answers(asked, f) /\ Carries(f) /\ f.op # "CHANGED"
    BY <2>1, <1>3
  <2>3. \/ doing' = Frame("WRITTEN", k, value'[k]) /\ wire' = wire
        \/ wire' = Append(wire, Frame("WRITTEN", k, value'[k])) /\ doing' = doing
    BY <1>7 DEF AnswerWrite, Send
  <2>4. QED BY <1>1, <2>2, <2>3
<1>8. CASE AnswerObserve
  <2>1. k \in Keys /\ Granted(asked) /\ asked.op = "observe" /\ wire' = Append(wire, Frame("OK", k, 0))
        /\ (doing' = Frame("mask", k, 0) \/ doing' = doing)
    BY <1>8 DEF AnswerObserve, Granted, Send
  <2>2. Made
    BY <2>1, <1>3
  <2>3. QED BY <1>1, <2>1, <2>2
<1>9. CASE AnswerUnobserve
  <2>1. Granted(asked) /\ asked.op = "unobserve" /\ wire' = Append(wire, Frame("OK", k, 0)) /\ doing' = doing
    BY <1>9 DEF AnswerUnobserve, Send
  <2>2. Made
    BY <2>1, <1>3
  <2>3. QED BY <1>1, <2>1, <2>2
<1>10. QED
  BY <1>4, <1>5, <1>6, <1>7, <1>8, <1>9 DEF Serve

-----------------------------------------------------------------------------
(* What the client makes of a frame: none is unexpected.                   *)

\* A `!` is printed, or dropped inside the library.
Noted(k) ==
  \/ flagged' = flagged \cup {k} /\ hidden' = hidden
  \/ hidden' = hidden \cup {k} /\ flagged' = flagged

\* The request of a command is sent, and its response awaited.
Asks(verb, k) ==
  /\ pc' = "reply" /\ asked' = [op |-> verb, key |-> k] /\ keyref' = k /\ error' = error
  /\ acked' = IF verb = "unobserve" THEN acked \ {k} ELSE acked

\* The program ends for a reason that the command gives.
Stops ==
  /\ pc' = "done" /\ error' \in Errors \ {"unexpected message", "protocol error"}
  /\ mode = "follow" => error' # "request error"
  /\ keyref' \in 0 .. Len(Keytab) /\ fetched' \in 0 .. Len(Keytab)
  /\ UNCHANGED <<cmd, asked, acked, known, flagged, hidden>>

Skips ==
  /\ Awaiting /\ Head(wire).op = "CHANGED" /\ Noted(Head(wire).key)
  /\ UNCHANGED <<cmd, asked, pc, keyref, fetched, error, acked, known>>

Reads ==
  /\ pc \in {"read", "readtimed"} /\ Head(wire).op = "CHANGED" /\ Noted(Head(wire).key)
  /\ pc' = "prompt"
  /\ UNCHANGED <<cmd, asked, keyref, fetched, error, acked, known>>

Counts ==
  /\ pc = "keytab" /\ Head(wire).op = "KEYTABLEN"
  /\ \/ cmd.verb = "keycount" /\ pc' = "prompt" /\ UNCHANGED asked
     \/ cmd.verb # "keycount" /\ pc' = "key" /\ asked' = [op |-> "key", key |-> 1]
  /\ UNCHANGED <<cmd, keyref, fetched, error, acked, known, flagged, hidden>>

Lists ==
  /\ pc = "key" /\ Head(wire).op = "KEY" /\ fetched' = fetched + 1
  /\ \/ /\ fetched' < Len(Keytab) /\ asked' = [op |-> "key", key |-> fetched' + 1]
        /\ UNCHANGED <<pc, keyref, error, acked>>
     \/ cmd.verb = "listkeys" /\ pc' = "prompt" /\ UNCHANGED <<asked, keyref, error, acked>>
     \/ /\ cmd.verb \in KeyVerbs \ {"misvalue"}
        /\ \E k \in Keys : (mode = "follow" => Followable(k)) /\ Asks(cmd.verb, k)
  /\ UNCHANGED <<cmd, known, flagged, hidden>>

Replies ==
  /\ pc = "reply" /\ Head(wire).op # "CHANGED" /\ Answers(Awaited, Head(wire))
  /\ pc' = IF mode = "follow" THEN "follow" ELSE "prompt"
  /\ IF Head(wire).op \in {"VALUE", "WRITTEN"} THEN ShowValue(Head(wire)) ELSE UNCHANGED <<known, flagged, hidden>>
  /\ acked' = IF Head(wire).op = "OK" /\ cmd.verb = "observe" THEN acked \cup {keyref} ELSE acked
  /\ UNCHANGED <<cmd, asked, keyref, fetched, error>>

Follows ==
  /\ pc = "follow" /\ mode = "follow"
  /\ \/ pc' = "reply" /\ asked' = [op |-> "get", key |-> keyref]
     \/ UNCHANGED <<pc, asked>>
  /\ cmd' = [cmd EXCEPT !.verb = "get"]
  /\ UNCHANGED <<keyref, fetched, error, acked, known, flagged, hidden>>

\* A request that is refused is not one of follow mode, whose key has the
\* flags, and the first frame on the wire is the awaited response or a `!`.
LEMMA ReceiveCases ==
  ASSUME TypeInv, Receive
  PROVE  /\ wire # <<>> /\ wire' = Tail(wire) /\ begun' = FALSE
         /\ UNCHANGED <<node, mode, value, observed, owed, doing, changes, commands, crossed, missed, torn>>
         /\ Skips \/ Reads \/ Counts \/ Lists \/ Replies \/ Follows \/ Stops
<1> DEFINE f == Head(wire)
<1>1. NodeTypes /\ ClientTypes /\ FollowInv /\ OneRequest /\ pc \in Reading
  BY DEF TypeInv, Receive, Reading
<1>2. /\ wire # <<>> /\ wire' = Tail(wire) /\ begun' = FALSE
      /\ UNCHANGED <<node, mode, value, observed, owed, doing, changes, commands, crossed, missed, torn>>
  BY DEF Receive, ClientUnchanged
<1>3. f \in FramesOf /\ Carries(f) /\ (f.op # "CHANGED" => Awaiting /\ Answers(Awaited, f))
  <2>1. 1 \in DOMAIN wire /\ f = wire[1] /\ f \in FramesOf /\ Carries(f)
    BY <1>1, <1>2, WireTail
  <2>2. QED
    BY <1>1, <2>1 DEF OneRequest, Responses
<1>4. CASE pc \in {"read", "readtimed"}
  <2>1. f.op = "CHANGED"
    BY <1>3, <1>4 DEF Awaiting
  <2>2. Reads
    BY <1>1, <1>4, <2>1 DEF Receive, OnRead, Shown, Reads, Noted, FollowInv
  <2>3. QED BY <1>2, <2>2
<1>5. CASE pc = "follow"
  <2>1. f.op = "CHANGED" /\ mode = "follow"
    BY <1>1, <1>3, <1>5 DEF Awaiting, FollowInv
  <2>2. Follows
    BY <1>5, <2>1 DEF Receive, OnFollow, Ask, Follows
  <2>3. QED BY <1>2, <2>2
<1>6. CASE Awaiting
  <2>1. OnResponse(f) /\ cmd' = cmd /\ pc \notin {"follow", "read", "readtimed"}
    BY <1>6 DEF Receive, Awaiting
  <2>2. CASE f.op = "CHANGED"
    <3>1. Skips
      BY <1>6, <2>1, <2>2 DEF OnResponse, SkipChanged, Shown, Dropped, Skips, Noted
    <3>2. QED BY <1>2, <3>1
  <2>3. CASE f.op # "CHANGED" /\ pc = "keytab"
    <3>1. f.op = "KEYTABLEN"
      BY <1>3, <2>3 DEF Answers, Awaited, Granted
    <3>2. Counts
      BY <2>1, <2>3, <3>1 DEF OnResponse, OnKeytab, Ask, Counts
    <3>3. QED BY <1>2, <3>2
  <2>4. CASE f.op # "CHANGED" /\ pc = "key"
    <3>1. Awaited = [op |-> "key", key |-> fetched + 1] /\ fetched + 1 \in Keys
      BY <1>1, <2>4, KeytabFacts DEF Awaited, ClientTypes
    <3>2. Granted(Awaited)
      BY <3>1 DEF Granted, Needs
    <3>3. f.op = "KEY"
      BY <1>3, <2>4, <3>1, <3>2 DEF Answers
    <3>4. OnKey
      BY <2>1, <2>4, <3>3 DEF OnResponse
    <3>5. CASE fetched' < Len(Keytab)
      <4>1. Lists
        BY <2>1, <2>4, <3>3, <3>4, <3>5 DEF OnKey, Ask, Lists
      <4>2. QED BY <1>2, <4>1
    <3>6. CASE ~(fetched' < Len(Keytab))
      <4>1. Resolved /\ fetched' = fetched + 1 /\ UNCHANGED <<known, flagged, hidden>> /\ fetched' \in 0 .. Len(Keytab)
        BY <3>1, <3>4, <3>6, KeytabFacts DEF OnKey
      <4>2. CASE cmd.verb = "listkeys"
        <5>1. Lists
          BY <2>1, <2>4, <3>3, <4>1, <4>2 DEF Resolved, Lists
        <5>2. QED BY <1>2, <5>1
      <4>3. CASE cmd.verb # "listkeys" /\ pc' = "done"
        <5>1. Stops
          BY <1>1, <2>1, <4>1, <4>3, KeytabFacts DEF Resolved, AskVerb, End, Stops, Errors, ClientTypes
        <5>2. QED BY <1>2, <5>1
      <4>4. CASE cmd.verb # "listkeys" /\ pc' # "done"
        <5>1. PICK k \in Keys : (mode = "follow" => Followable(k)) /\ AskVerb(cmd.verb, k)
          BY <4>1, <4>4 DEF Resolved, End
        <5>2. cmd.verb \in KeyVerbs \ {"misvalue"} /\ Asks(cmd.verb, k)
          BY <1>1, <2>4, <4>4, <5>1 DEF AskVerb, End, Ask, Asks, ClientTypes
        <5>3. Lists
          BY <2>1, <2>4, <3>3, <4>1, <5>1, <5>2 DEF Lists
        <5>4. QED BY <1>2, <5>3
      <4>5. QED BY <4>2, <4>3, <4>4
    <3>7. QED BY <3>5, <3>6
  <2>5. CASE f.op # "CHANGED" /\ pc = "reply"
    <3>1. OnReply(f) /\ Answers(Awaited, f) /\ Awaited = [op |-> cmd.verb, key |-> keyref]
      BY <1>3, <2>1, <2>5 DEF OnResponse, Awaited
    <3>2. f.op \in {Opcode(cmd.verb), "ERROR"}
      BY <1>1, <2>5, <3>1 DEF Answers, Opcode, ClientTypes, KeyVerbs
    <3>3. CASE f.op = "ERROR" /\ InLibrary
      <4>1. mode # "follow"
        <5> SUFFICES ASSUME mode = "follow" PROVE FALSE
          OBVIOUS
        <5>1. cmd.verb \in {"observe", "get"} /\ keyref \in Keys /\ Followable(keyref)
          BY <1>1, <2>5 DEF FollowInv
        <5>2. Granted(Awaited)
          BY <3>1, <5>1 DEF Granted, Needs, Followable
        <5>3. QED
          BY <3>1, <3>3, <5>2 DEF Answers
      <4>2. Fail("request error")
        BY <3>1, <3>2, <3>3 DEF OnReply
      <4>3. Stops
        BY <1>1, <2>1, <4>1, <4>2 DEF Fail, End, Stops, Errors, ClientTypes
      <4>4. QED BY <1>2, <4>3
    <3>4. CASE ~(f.op = "ERROR" /\ InLibrary)
      <4>1. Replies
        BY <2>1, <2>5, <3>1, <3>2, <3>4 DEF OnReply, Replies
      <4>2. QED BY <1>2, <4>1
    <3>5. QED BY <3>3, <3>4
  <2>6. QED BY <1>6, <2>2, <2>3, <2>4, <2>5 DEF Awaiting
<1>7. QED
  BY <1>1, <1>4, <1>5, <1>6 DEF Reading, Awaiting

\* What the client makes of a command.
LEMMA TypeCases ==
  ASSUME TypeInv, NEW c \in Commands, Type(c)
  PROVE  /\ pc = "prompt" /\ mode = "repl" /\ commands' \in 0 .. MaxCommands /\ cmd' = c /\ fetched' = 0
         /\ UNCHANGED <<wire, begun, known, flagged, hidden, crossed, missed, torn>>
         /\ UNCHANGED <<node, mode, value, observed, owed, doing, changes>>
         /\ \/ /\ c.verb \in (KeyVerbs \ {"misvalue"}) \cup {"ping"}
               /\ \E k \in 0 .. Len(Keytab) : Asks(c.verb, k)
            \/ pc' = "done" /\ error' = "invalid value" /\ keyref' \in 0 .. Len(Keytab) /\ UNCHANGED <<asked, acked>>
            \/ /\ c.verb \in KeyVerbs \cup {"keycount", "listkeys"}
               /\ pc' = "keytab" /\ asked' = [op |-> "keytab", key |-> NoKey] /\ keyref' = NoKey
               /\ UNCHANGED <<error, acked>>
            \/ pc' \in {"read", "readtimed"} /\ keyref' = NoKey /\ UNCHANGED <<asked, error, acked>>
<1>1. pc = "prompt" /\ mode = "repl" /\ cmd' = c /\ fetched' = 0
  BY DEF TypeInv, FollowInv, Type
<1>2. commands' \in 0 .. MaxCommands
  BY QupClientAssumption DEF TypeInv, ClientTypes, Type
<1>3. /\ UNCHANGED <<wire, begun, known, flagged, hidden, crossed, missed, torn>>
      /\ UNCHANGED <<node, mode, value, observed, owed, doing, changes>>
  BY DEF Type, ClientUnchanged
<1>4. c.verb \in KeyVerbs \cup {"ping", "keycount", "listkeys", "read", "readtimed"} /\ c.sel.ref \in 0 .. Len(Keytab)
      /\ (c.sel.byName => c.verb \in KeyVerbs)
  BY CommandFacts, KeytabFacts
<1>5. ASSUME NEW k \in 0 .. Len(Keytab), AskVerb(c.verb, k), c.verb \in KeyVerbs \cup {"ping"}
      PROVE  \/ c.verb # "misvalue" /\ Asks(c.verb, k)
             \/ pc' = "done" /\ error' = "invalid value" /\ keyref' \in 0 .. Len(Keytab) /\ UNCHANGED <<asked, acked>>
  <2>1. CASE c.verb = "misvalue"
    BY <1>5, <2>1 DEF AskVerb, End
  <2>2. CASE c.verb # "misvalue"
    BY <1>5, <2>2 DEF AskVerb, Ask, Asks
  <2>3. QED BY <2>1, <2>2
<1>6. CASE c.verb = "ping" /\ AskVerb("ping", NoKey)
  BY <1>1, <1>2, <1>3, <1>5, <1>6, KeytabFacts
<1>7. CASE c.verb \in KeyVerbs /\ AskVerb(c.verb, c.sel.ref)
  BY <1>1, <1>2, <1>3, <1>4, <1>5, <1>7
<1>8. CASE /\ c.verb \in {"keycount", "listkeys"} \/ c.sel.byName
           /\ Ask("keytab", NoKey) /\ keyref' = NoKey /\ pc' = "keytab" /\ UNCHANGED <<error, acked>>
  BY <1>1, <1>2, <1>3, <1>4, <1>8 DEF Ask
<1>9. CASE /\ c.verb \in {"read", "readtimed"}
           /\ pc' = c.verb /\ keyref' = NoKey /\ UNCHANGED <<asked, error, acked>>
  BY <1>1, <1>2, <1>3, <1>9
<1>10. QED
  BY <1>6, <1>7, <1>8, <1>9 DEF Type

-----------------------------------------------------------------------------
(* Types.                                                                  *)

LEMMA MadeRequests ==
  \A o \in KeyVerbs \cup {"none", "ping", "keytab"}, k \in 0 .. Len(Keytab) : [op |-> o, key |-> k] \in Requests
  BY DEF Requests

\* What a step of the node, or of those who store in it, leaves alone.
LEMMA NodeLeaves ==
  ASSUME Serve \/ FinishRequest \/ \E k \in Keys : Change(k) \/ Notify(k)
  PROVE  UNCHANGED <<node, mode, pc, cmd, keyref, fetched, begun, error, commands, acked, flagged, hidden, torn>>
  BY DEF Serve, FinishRequest, Change, Notify, clientVars, historyVars

\* What the end of a session, or a cancelled read, leaves alone.
LEMMA EndLeaves ==
  ASSUME BeginFrame \/ Timeout \/ ReceiveTorn \/ Disconnected \/ Exit
  PROVE  /\ UNCHANGED <<node, mode, value, observed, owed, asked, doing, wire, changes, cmd, keyref, fetched, commands>>
         /\ UNCHANGED <<acked, known, flagged, hidden, crossed, missed>>
         /\ \/ pc' = pc
            \/ pc = "readtimed" /\ pc' = "prompt"
            \/ pc' = "done"
  BY DEF BeginFrame, Timeout, ReceiveTorn, Disconnected, Exit, Fail, End, ClientUnchanged, historyVars

LEMMA OweTypes ==
  ASSUME NodeTypes, node \in {"embassy", "tokio"}, NEW k \in Keys, Owe(k)
  PROVE  owed' \in [Keys -> Nat]
<1>1. owed \in [Keys -> Nat] /\ owed[k] + 1 \in Nat
  BY DEF NodeTypes
<1>2. \E n \in Nat : owed' = [owed EXCEPT ![k] = n]
  <2>1. CASE node = "embassy" /\ k \in observed
    BY <2>1 DEF Owe
  <2>2. CASE node = "embassy" /\ k \notin observed
    BY <2>2 DEF Owe
  <2>3. CASE node = "tokio" /\ "N" \in Keytab[k].flags
    BY <1>1, <2>3 DEF Owe
  <2>4. CASE node = "tokio" /\ "N" \notin Keytab[k].flags
    BY <2>4 DEF Owe
  <2>5. QED BY <2>1, <2>2, <2>3, <2>4
<1>3. QED BY <1>1, <1>2

LEMMA NodeTypesStep ==
  TypeInv /\ [Next]_vars => NodeTypes'
<1> SUFFICES ASSUME TypeInv, [Next]_vars PROVE NodeTypes'
  OBVIOUS
<1>1. NodeTypes /\ node \in {"embassy", "tokio"} /\ ClientTypes
  BY DEF TypeInv
<1>2. ASSUME NEW k \in Keys, Change(k) PROVE NodeTypes'
  <2>1. owed' \in [Keys -> Nat]
    BY <1>1, <1>2, OweTypes DEF Change
  <2>2. value' \in [Keys -> Nat] /\ changes' \in 0 .. MaxChanges
    BY <1>1, <1>2, QupClientAssumption DEF Change, NodeTypes
  <2>3. UNCHANGED <<observed, asked, doing, wire>>
    BY <1>2 DEF Change
  <2>4. QED
    BY <1>1, <2>1, <2>2, <2>3 DEF NodeTypes, Carries
<1>3. ASSUME NEW k \in Keys, Notify(k) PROVE NodeTypes'
  <2>1. owed' \in [Keys -> Nat] /\ UNCHANGED <<value, observed, asked, doing, changes>>
    BY <1>1, <1>3 DEF Notify, NodeTypes
  <2>2. Frame("CHANGED", k, 0) \in FramesOf /\ Carries(Frame("CHANGED", k, 0))
    BY MadeFrames, KeytabFacts DEF FrameOps, Carries
  <2>3. wire' \in Seq(FramesOf) /\ \A i \in DOMAIN wire' : Carries(wire'[i])
    <3>1. CASE wire' = wire
      BY <1>1, <3>1 DEF NodeTypes
    <3>2. CASE wire' = Append(wire, Frame("CHANGED", k, 0))
      BY <1>1, <2>2, <3>2, WireAppend
    <3>3. QED BY <1>3, <3>1, <3>2 DEF Notify, Send
  <2>4. QED
    BY <1>1, <2>1, <2>3 DEF NodeTypes, Carries
<1>4. CASE Serve
  <2>1. asked' \in Requests /\ changes' = changes
    BY <1>4, MadeRequests, KeytabFacts DEF Serve, NoReq
  <2>2. doing' \in FramesOf /\ Carries(doing')
        /\ (doing' = Nothing \/ doing'.op \in {"VALUE", "WRITTEN"} \/ doing' = Frame("mask", doing'.key, 0))
    BY <1>1, <1>4, Served, MadeFrames, KeytabFacts DEF FrameOps, Carries
  <2>3. wire' \in Seq(FramesOf) /\ \A i \in DOMAIN wire' : Carries(wire'[i])
    <3>1. CASE wire' = wire
      BY <1>1, <3>1 DEF NodeTypes
    <3>2. CASE \E f \in FramesOf : wire' = Append(wire, f) /\ Carries(f)
      BY <1>1, <3>2, WireAppend
    <3>3. QED BY <1>1, <1>4, <3>1, <3>2, Served
  <2>4. value' \in [Keys -> Nat] /\ observed' \subseteq Keys /\ owed' \in [Keys -> Nat]
    <3>1. CASE UNCHANGED <<value, observed, owed>>
      BY <1>1, <3>1 DEF NodeTypes
    <3>2. CASE AnswerWrite
      <4>1. asked.key \in Keys /\ UNCHANGED observed
        BY <3>2 DEF AnswerWrite, Granted
      <4>2. owed' \in [Keys -> Nat]
        BY <1>1, <3>2, <4>1, OweTypes DEF AnswerWrite, NodeTypes
      <4>3. value' \in [Keys -> Nat]
        BY <1>1, <3>2, <4>1 DEF AnswerWrite, NodeTypes
      <4>4. QED
        BY <1>1, <4>1, <4>2, <4>3 DEF NodeTypes
    <3>3. CASE AnswerObserve
      BY <1>1, <3>3 DEF AnswerObserve, Granted, NodeTypes
    <3>4. CASE AnswerUnobserve
      BY <1>1, <3>4 DEF AnswerUnobserve, NodeTypes
    <3>5. QED
      BY <1>4, <3>1, <3>2, <3>3, <3>4 DEF Serve, Refuse, AnswerConstant, AnswerGet
  <2>5. QED
    BY <2>1, <2>2, <2>3, <2>4, <1>1 DEF NodeTypes
<1>5. CASE FinishRequest
  <2>1. doing # Nothing /\ doing' = Nothing /\ UNCHANGED <<value, asked, changes>>
    BY <1>5 DEF FinishRequest
  <2>2. owed' \in [Keys -> Nat]
    BY <1>1, <1>5, OweTypes DEF FinishRequest, NodeTypes, Carries
  <2>3. observed' \subseteq Keys
    BY <1>1, <1>5 DEF FinishRequest, NodeTypes, Carries
  <2>4. wire' = wire \/ wire' = Append(wire, doing)
    BY <1>5 DEF FinishRequest, Send
  <2>5. wire' \in Seq(FramesOf) /\ \A i \in DOMAIN wire' : Carries(wire'[i])
    BY <1>1, <2>4, WireAppend DEF NodeTypes
  <2>6. QED
    BY <1>1, <2>1, <2>2, <2>3, <2>5, MadeFrames DEF NodeTypes
<1>6. CASE Receive
  <2>1. UNCHANGED <<value, observed, owed, doing, changes>> /\ wire # <<>> /\ wire' = Tail(wire)
    BY <1>6, ReceiveCases
  <2>2. wire' \in Seq(FramesOf) /\ \A i \in DOMAIN wire' : Carries(wire'[i])
    BY <1>1, <2>1, WireTail
  <2>3. asked' \in Requests
    <3>1. CASE asked' = asked
      BY <1>1, <3>1 DEF NodeTypes
    <3>2. CASE Counts \/ Lists
      BY <1>1, <3>1, <3>2, MadeRequests, KeytabFacts DEF Counts, Lists, Asks, KeyVerbs, ClientTypes
    <3>3. CASE Follows
      BY <1>1, <3>1, <3>3, MadeRequests DEF Follows, KeyVerbs, ClientTypes
    <3>4. QED
      BY <1>6, <3>1, <3>2, <3>3, ReceiveCases DEF Skips, Reads, Replies, Stops
  <2>4. QED
    BY <1>1, <2>1, <2>2, <2>3 DEF NodeTypes, Carries
<1>7. ASSUME NEW c \in Commands, Type(c) PROVE NodeTypes'
  <2>1. UNCHANGED <<value, observed, owed, doing, changes, wire>>
    BY <1>7, TypeCases
  <2>2. asked' = asked \/ \E o \in KeyVerbs \cup {"ping", "keytab"}, k \in 0 .. Len(Keytab) : asked' = [op |-> o, key |-> k]
    BY <1>7, TypeCases, KeytabFacts DEF Asks
  <2>3. asked' \in Requests
    BY <1>1, <2>2, MadeRequests DEF NodeTypes
  <2>4. QED
    BY <1>1, <2>1, <2>3 DEF NodeTypes, Carries
<1>8. CASE BeginFrame \/ Timeout \/ ReceiveTorn \/ Disconnected \/ Exit
  <2>1. UNCHANGED <<value, observed, owed, asked, doing, wire, changes>>
    BY <1>8, EndLeaves
  <2>2. QED BY <1>1, <2>1 DEF NodeTypes, Carries
<1>9. CASE UNCHANGED vars
  BY <1>1, <1>9 DEF vars, nodeVars, NodeTypes, Carries
<1>10. QED
  BY <1>2, <1>3, <1>4, <1>5, <1>6, <1>7, <1>8, <1>9 DEF Next, NodeStep, ClientStep

LEMMA ClientTypesStep ==
  TypeInv /\ [Next]_vars => ClientTypes'
<1> SUFFICES ASSUME TypeInv, [Next]_vars PROVE ClientTypes'
  OBVIOUS
<1>1. ClientTypes /\ FollowInv
  BY DEF TypeInv
<1>2. CASE Serve \/ FinishRequest \/ \E k \in Keys : Change(k) \/ Notify(k)
  <2>1. UNCHANGED <<pc, cmd, keyref, fetched, begun, error, commands>>
    BY <1>2, NodeLeaves
  <2>2. QED BY <1>1, <2>1 DEF ClientTypes
<1>3. CASE Receive
  <2>1. begun' = FALSE /\ UNCHANGED <<commands>>
    BY <1>3, ReceiveCases
  <2>2. CASE Skips \/ Reads
    BY <1>1, <2>1, <2>2 DEF Skips, Reads, ClientTypes, Reading
  <2>3. CASE Counts
    <3>1. pc' \in {"prompt", "key"} /\ UNCHANGED <<cmd, keyref, fetched, error>>
      BY <2>3 DEF Counts
    <3>2. pc' = "key" => fetched' < Len(Keytab) /\ cmd'.verb \in KeyVerbs \cup {"listkeys"}
      BY <1>1, <2>3, KeytabFacts DEF Counts, ClientTypes
    <3>3. QED
      BY <1>1, <2>1, <3>1, <3>2 DEF ClientTypes, Reading
  <2>4. CASE Lists
    <3>1. fetched' \in 0 .. Len(Keytab) /\ (pc' = "key" => fetched' < Len(Keytab))
      BY <1>1, <2>4, KeytabFacts DEF Lists, Asks, ClientTypes
    <3>2. pc' \in {"key", "prompt", "reply"} /\ error' = error /\ keyref' \in 0 .. Len(Keytab)
      BY <1>1, <2>4, KeytabFacts DEF Lists, Asks, ClientTypes
    <3>3. cmd' = cmd /\ pc = "key" /\ (pc' = "reply" => cmd.verb \in KeyVerbs \ {"misvalue"})
      BY <2>4 DEF Lists, Asks
    <3>4. QED
      BY <1>1, <2>1, <3>1, <3>2, <3>3 DEF ClientTypes, Reading
  <2>5. CASE Replies
    BY <1>1, <2>1, <2>5 DEF Replies, ClientTypes, Reading
  <2>6. CASE Follows
    <3>1. cmd \in Commands /\ cmd.verb \in KeyVerbs
      BY <1>1, <2>6 DEF Follows, FollowInv, ClientTypes, KeyVerbs
    <3>2. cmd' \in Commands /\ cmd'.verb = "get"
      BY <2>6, <3>1, GetCommand DEF Follows
    <3>3. pc' \in {"follow", "reply"}
      BY <2>6 DEF Follows
    <3>4. QED
      BY <1>1, <2>1, <2>6, <3>2, <3>3 DEF Follows, ClientTypes, Reading, KeyVerbs
  <2>7. CASE Stops
    BY <1>1, <2>1, <2>7 DEF Stops, ClientTypes
  <2>8. QED BY <1>3, <2>2, <2>3, <2>4, <2>5, <2>6, <2>7, ReceiveCases
<1>4. ASSUME NEW c \in Commands, Type(c) PROVE ClientTypes'
  <2>1. cmd' = c /\ fetched' = 0 /\ UNCHANGED begun /\ commands' \in 0 .. MaxCommands
    BY <1>4, TypeCases
  <2>2. keyref' \in 0 .. Len(Keytab) /\ error' \in Errors
    BY <1>1, <1>4, TypeCases, KeytabFacts DEF Asks, ClientTypes, Errors
  <2>3. /\ pc' \in {"reply", "done", "keytab", "read", "readtimed"}
        /\ pc' = "reply" => c.verb \in (KeyVerbs \ {"misvalue"}) \cup {"ping"}
        /\ pc' = "keytab" => c.verb \in KeyVerbs \cup {"keycount", "listkeys"}
    BY <1>4, TypeCases DEF Asks
  <2>4. QED
    BY <1>1, <2>1, <2>2, <2>3, KeytabFacts DEF ClientTypes, Reading
<1>5. CASE BeginFrame \/ Timeout \/ ReceiveTorn \/ Disconnected \/ Exit
  <2>1. /\ UNCHANGED <<cmd, keyref, fetched, commands>>
        /\ pc' = pc \/ pc' \in {"prompt", "done"}
    BY <1>5, EndLeaves
  <2>2. begun' \in BOOLEAN /\ error' \in Errors
    BY <1>1, <1>5 DEF BeginFrame, Timeout, ReceiveTorn, Disconnected, Exit, Fail, End, ClientTypes, Errors
  <2>3. QED
    BY <1>1, <2>1, <2>2 DEF ClientTypes
<1>6. CASE UNCHANGED vars
  BY <1>1, <1>6 DEF vars, clientVars, ClientTypes
<1>7. QED
  BY <1>2, <1>3, <1>4, <1>5, <1>6 DEF Next, NodeStep, ClientStep

LEMMA FollowStep ==
  TypeInv /\ [Next]_vars => FollowInv' /\ node' = node /\ mode' = mode
<1> SUFFICES ASSUME TypeInv, [Next]_vars PROVE FollowInv' /\ node' = node /\ mode' = mode
  OBVIOUS
<1>1. FollowInv /\ ClientTypes
  BY DEF TypeInv
<1>2. CASE Serve \/ FinishRequest \/ \E k \in Keys : Change(k) \/ Notify(k)
  <2>1. UNCHANGED <<node, mode, pc, cmd, keyref>>
    BY <1>2, NodeLeaves
  <2>2. QED BY <1>1, <2>1 DEF FollowInv
<1>3. CASE Receive
  <2>1. node' = node /\ mode' = mode
    BY <1>3, ReceiveCases
  <2>2. CASE Follows
    <3>1. cmd' \in Commands /\ cmd'.verb = "get"
      BY <1>1, <2>2, GetCommand DEF Follows, FollowInv, ClientTypes, KeyVerbs
    <3>2. QED
      BY <1>1, <2>1, <2>2, <3>1 DEF FollowInv, Follows
  <2>3. CASE Skips \/ Reads \/ Counts \/ Lists \/ Replies \/ Stops
    BY <1>1, <2>1, <2>3 DEF Skips, Reads, Counts, Lists, Replies, Stops, Asks, FollowInv
  <2>4. QED BY <1>3, <2>2, <2>3, ReceiveCases
<1>4. ASSUME NEW c \in Commands, Type(c) PROVE FollowInv' /\ node' = node /\ mode' = mode
  <2>1. mode = "repl" /\ node' = node /\ mode' = mode /\ pc' # "follow"
    BY <1>4, TypeCases DEF Asks
  <2>2. QED BY <2>1 DEF FollowInv
<1>5. CASE BeginFrame \/ Timeout \/ ReceiveTorn \/ Disconnected \/ Exit
  BY <1>1, <1>5, EndLeaves DEF FollowInv
<1>6. CASE UNCHANGED vars
  BY <1>1, <1>6 DEF vars, clientVars, FollowInv
<1>7. QED
  BY <1>2, <1>3, <1>4, <1>5, <1>6 DEF Next, NodeStep, ClientStep

LEMMA HistoryTypesStep ==
  TypeInv /\ [Next]_vars => HistoryTypes'
<1> SUFFICES ASSUME TypeInv, [Next]_vars PROVE HistoryTypes'
  OBVIOUS
<1>1. HistoryTypes /\ NodeTypes /\ ClientTypes
  BY DEF TypeInv
<1>2. CASE Serve \/ FinishRequest \/ \E k \in Keys : Change(k) \/ Notify(k)
  <2>1. UNCHANGED <<acked, flagged, hidden, torn>>
    BY <1>2, NodeLeaves
  <2>2. known' \in [Keys -> Nat]
    <3>1. CASE Serve
      <4>1. known' = known \/ (asked.key \in Keys /\ known' = [known EXCEPT ![asked.key] = value[asked.key]])
        BY <3>1 DEF Serve, Granted
      <4>2. QED BY <1>1, <4>1 DEF HistoryTypes, NodeTypes
    <3>2. CASE ~Serve
      BY <1>1, <1>2, <3>2 DEF FinishRequest, Change, Notify, historyVars, HistoryTypes
    <3>3. QED BY <3>1, <3>2
  <2>3. crossed' \subseteq Keys
    BY <1>1, <1>2 DEF FinishRequest, Serve, Change, Notify, historyVars, HistoryTypes, NodeTypes, Carries
  <2>4. missed' \subseteq Keys
    BY <1>1, <1>2 DEF FinishRequest, Serve, Change, Notify, historyVars, HistoryTypes, Granted
  <2>5. QED BY <1>1, <2>1, <2>2, <2>3, <2>4 DEF HistoryTypes
<1>3. CASE Receive
  <2>1. UNCHANGED <<crossed, missed, torn>> /\ wire # <<>> /\ wire' = Tail(wire)
    BY <1>3, ReceiveCases
  <2>2. Head(wire) \in FramesOf /\ Carries(Head(wire))
    BY <1>1, <2>1, WireTail
  <2>3. CASE Skips \/ Reads
    BY <1>1, <2>1, <2>2, <2>3 DEF Skips, Reads, Noted, HistoryTypes, Carries
  <2>4. CASE Counts \/ Lists \/ Follows \/ Stops
    BY <1>1, <2>1, <2>4 DEF Counts, Lists, Follows, Stops, Asks, HistoryTypes
  <2>5. CASE Replies
    <3>1. Head(wire).op = "OK" /\ cmd.verb = "observe" => keyref \in Keys
      BY <2>5 DEF Replies, Answers, Awaited, Granted
    <3>2. acked' \subseteq Keys
      BY <1>1, <2>5, <3>1 DEF Replies, HistoryTypes
    <3>3. Head(wire).value \in Nat
      BY <2>2 DEF FramesOf
    <3>4. known' \in [Keys -> Nat] /\ flagged' \subseteq Keys /\ hidden' \subseteq Keys
      BY <1>1, <2>5, <3>3 DEF Replies, ShowValue, HistoryTypes
    <3>5. QED
      BY <1>1, <2>1, <3>2, <3>4 DEF HistoryTypes
  <2>6. QED BY <1>3, <2>3, <2>4, <2>5, ReceiveCases
<1>4. ASSUME NEW c \in Commands, Type(c) PROVE HistoryTypes'
  <2>1. UNCHANGED <<known, flagged, hidden, crossed, missed, torn>> /\ acked' \subseteq acked
    BY <1>4, TypeCases DEF Asks
  <2>2. QED BY <1>1, <2>1 DEF HistoryTypes
<1>5. CASE BeginFrame \/ Timeout \/ ReceiveTorn \/ Disconnected \/ Exit
  <2>1. UNCHANGED <<acked, known, flagged, hidden, crossed, missed>>
    BY <1>5, EndLeaves
  <2>2. torn' \in BOOLEAN
    BY <1>1, <1>5 DEF BeginFrame, Timeout, ReceiveTorn, Disconnected, Exit, historyVars, HistoryTypes, ClientTypes
  <2>3. QED BY <1>1, <2>1, <2>2 DEF HistoryTypes
<1>6. CASE UNCHANGED vars
  BY <1>1, <1>6 DEF vars, historyVars, HistoryTypes
<1>7. QED
  BY <1>2, <1>3, <1>4, <1>5, <1>6 DEF Next, NodeStep, ClientStep

LEMMA HalfDone ==
  ASSUME NodeTypes
  PROVE  doing.op \in {"none", "mask", "VALUE", "WRITTEN"}
<1>1. CASE doing = Nothing
  BY <1>1, MadeFrames
<1>2. CASE doing.op \in {"VALUE", "WRITTEN"}
  BY <1>2
<1>3. CASE doing = Frame("mask", doing.key, 0)
  <2>1. doing.op = "mask"
    BY <1>3 DEF Frame
  <2>2. QED BY <2>1
<1>4. QED
  BY <1>1, <1>2, <1>3 DEF NodeTypes

\* Nothing of a request is under way.
Idle == asked = NoReq /\ doing.op \in {"none", "mask"} /\ Responses = {}

\* The client awaits a response, or nothing is under way.
LEMMA IdleUnlessAwaiting ==
  ASSUME TypeInv, pc # "done", ~Awaiting
  PROVE  Idle
  BY HalfDone DEF TypeInv, OneRequest, Idle

\* Once the response is read, nothing is under way.
LEMMA IdleAfterResponse ==
  ASSUME TypeInv, pc # "done", wire # <<>>, Head(wire).op # "CHANGED", wire' = Tail(wire), UNCHANGED doing
  PROVE  asked = NoReq /\ doing'.op \in {"none", "mask"} /\ Responses' = {}
<1>1. NodeTypes /\ OneRequest
  BY DEF TypeInv
<1>2. 1 \in Responses
  BY <1>1, WireTail DEF Responses
<1>3. doing.op \in {"none", "mask"}
  BY <1>1, <1>2, HalfDone DEF OneRequest
<1>4. Responses' = {}
  <2> SUFFICES ASSUME NEW i \in DOMAIN wire', wire'[i].op # "CHANGED" PROVE FALSE
    BY DEF Responses
  <2>1. i \in Nat \ {0} /\ i + 1 \in Responses
    BY <1>1, WireTail DEF Responses
  <2>2. QED
    BY <1>1, <1>2, <2>1 DEF OneRequest
<1>5. QED
  BY <1>1, <1>2, <1>3, <1>4 DEF OneRequest

LEMMA OneRequestStep ==
  TypeInv /\ [Next]_vars /\ pc' # "done" => OneRequest'
<1> SUFFICES ASSUME TypeInv, [Next]_vars, pc' # "done" PROVE OneRequest'
  OBVIOUS
<1>1. NodeTypes /\ node \in {"embassy", "tokio"} /\ ClientTypes /\ NodeTypes'
  BY NodeTypesStep DEF TypeInv
\* The steps that leave the request, and those that end or begin one.
<1>2. ASSUME UNCHANGED <<pc, cmd, fetched, keyref>>
      PROVE  Awaiting' = Awaiting /\ Awaited' = Awaited /\ OneRequest
             /\ \A f : Answers(Awaited, f) => Answers(Awaited', f)
  BY <1>2 DEF Awaiting, Awaited, TypeInv
<1>3. ASSUME asked' = NoReq \/ (Awaiting' /\ asked' = Awaited'), doing'.op \in {"none", "mask"}, Responses' = {}
      PROVE  OneRequest'
  BY <1>3 DEF OneRequest
<1>4. ASSUME UNCHANGED <<pc, cmd, fetched, keyref, asked, doing>>,
             \A i \in Responses' : i \in Responses /\ wire'[i] = wire[i]
      PROVE  OneRequest'
  BY <1>2, <1>4 DEF OneRequest
<1>5. ASSUME NEW k \in Keys, Change(k) PROVE OneRequest'
  <2>1. UNCHANGED <<pc, cmd, fetched, keyref, asked, doing, wire>>
    BY <1>5 DEF Change, clientVars
  <2>2. QED BY <1>4, <2>1 DEF Responses
<1>6. ASSUME NEW k \in Keys, Notify(k) PROVE OneRequest'
  <2>1. UNCHANGED <<pc, cmd, fetched, keyref, asked, doing>>
    BY <1>6 DEF Notify, clientVars
  <2>2. CASE wire' = wire
    BY <1>4, <2>1, <2>2 DEF Responses
  <2>3. CASE wire' = Append(wire, Frame("CHANGED", k, 0))
    <3>1. Frame("CHANGED", k, 0) \in FramesOf /\ Frame("CHANGED", k, 0).op = "CHANGED"
      BY MadeFrames, KeytabFacts DEF FrameOps
    <3>2. \A i \in Responses' : i \in Responses /\ wire'[i] = wire[i]
      BY <1>1, <2>3, <3>1, WireAppend DEF Responses
    <3>3. QED BY <1>4, <2>1, <3>2
  <2>4. QED BY <1>6, <2>2, <2>3 DEF Notify, Send
<1>7. CASE Serve
  <2>1. UNCHANGED <<pc, cmd, fetched, keyref>>
    BY <1>7, NodeLeaves
  <2>2. Awaiting /\ asked = Awaited /\ Responses = {} /\ asked' = NoReq
    BY <1>1, <1>2, <1>7, <2>1, Served DEF OneRequest
  <2>3. CASE wire' = wire /\ doing'.op \in {"VALUE", "WRITTEN"} /\ Answers(asked, doing')
    BY <1>2, <2>1, <2>2, <2>3 DEF OneRequest, Responses
  <2>4. CASE doing'.op \in {"none", "mask"} /\ \E f \in FramesOf : wire' = Append(wire, f) /\ Answers(asked, f)
    <3>1. PICK f \in FramesOf : wire' = Append(wire, f) /\ Answers(asked, f)
      BY <2>4
    <3>2. \A i \in Responses' : i = Len(wire) + 1 /\ wire'[i] = f
      BY <1>1, <2>2, <3>1, WireAppend DEF Responses
    <3>3. QED
      BY <1>2, <2>1, <2>2, <2>4, <3>1, <3>2 DEF OneRequest
  <2>5. QED
    BY <1>1, <1>7, <2>3, <2>4, Served, MadeFrames, KeytabFacts DEF FrameOps
<1>8. CASE FinishRequest
  <2>1. UNCHANGED <<pc, cmd, fetched, keyref, asked>> /\ doing' = Nothing /\ doing'.op = "none"
    BY <1>8, NodeLeaves, MadeFrames DEF FinishRequest
  <2>2. CASE wire' = wire
    BY <1>2, <2>1, <2>2 DEF OneRequest, Responses
  <2>3. CASE doing.op \in {"VALUE", "WRITTEN"} /\ wire' = Append(wire, doing)
    <3>1. asked = NoReq /\ Awaiting /\ Responses = {} /\ Answers(Awaited, doing) /\ doing \in FramesOf
      BY <1>1, <1>2, <2>1, <2>3 DEF OneRequest, NodeTypes
    <3>2. \A i \in Responses' : i = Len(wire) + 1 /\ wire'[i] = doing
      BY <1>1, <2>3, <3>1, WireAppend DEF Responses
    <3>3. QED
      BY <1>2, <2>1, <3>1, <3>2 DEF OneRequest
  <2>4. QED BY <1>8, <2>2, <2>3 DEF FinishRequest, Send
<1>9. CASE Receive
  <2>1. wire # <<>> /\ wire' = Tail(wire) /\ UNCHANGED doing /\ pc # "done"
    BY <1>9, ReceiveCases DEF Receive, Reading
  <2>2. \A i \in Responses' : i \in Nat /\ i + 1 \in Responses /\ wire'[i] = wire[i + 1]
    BY <1>1, <2>1, WireTail DEF Responses
  <2>3. CASE Skips
    <3>1. UNCHANGED <<pc, cmd, fetched, keyref, asked>>
      BY <2>3 DEF Skips
    <3>2. Responses = {} => Responses' = {}
      BY <2>2
    <3>3. \A i \in Responses' : Awaiting /\ Answers(Awaited, wire'[i]) /\ \A j \in Responses' : j = i
      <4> SUFFICES ASSUME NEW i \in Responses'
                   PROVE  Awaiting /\ Answers(Awaited, wire'[i]) /\ \A j \in Responses' : j = i
        OBVIOUS
      <4>1. Awaiting /\ Answers(Awaited, wire'[i]) /\ \A j \in Responses : j = i + 1
        BY <1>2, <2>2, <3>1 DEF OneRequest
      <4>2. QED BY <2>2, <4>1
    <3>4. /\ asked' # NoReq => Awaiting /\ asked' = Awaited /\ Responses' = {} /\ doing'.op \in {"none", "mask"}
          /\ doing'.op \in {"VALUE", "WRITTEN"} => Awaiting /\ Answers(Awaited, doing') /\ Responses' = {}
      BY <1>2, <2>1, <3>1, <3>2 DEF OneRequest
    <3>5. QED
      BY <1>2, <3>1, <3>3, <3>4 DEF OneRequest
  <2>4. CASE Reads \/ Follows
    <3>1. Idle
      BY <2>1, <2>4, IdleUnlessAwaiting DEF Reads, Follows, Awaiting
    <3>2. Responses' = {} /\ doing'.op \in {"none", "mask"}
      BY <2>1, <2>2, <3>1 DEF Idle
    <3>3. asked' = NoReq \/ (Awaiting' /\ asked' = Awaited')
      <4>1. CASE asked' = asked
        BY <3>1, <4>1 DEF Idle
      <4>2. CASE Follows /\ pc' = "reply" /\ asked' = [op |-> "get", key |-> keyref]
        <5>1. cmd'.verb = "get" /\ keyref' = keyref
          BY <1>1, <4>2, GetCommand DEF TypeInv, FollowInv, ClientTypes, Follows, KeyVerbs
        <5>2. QED BY <4>2, <5>1 DEF Awaiting, Awaited
      <4>3. QED BY <2>4, <4>1, <4>2 DEF Reads, Follows
    <3>4. QED BY <1>3, <3>2, <3>3
  <2>5. CASE Counts \/ Lists \/ Replies
    <3>1. asked = NoReq /\ doing'.op \in {"none", "mask"} /\ Responses' = {}
      BY <2>1, <2>5, IdleAfterResponse DEF Counts, Lists, Replies
    <3>2. asked' = asked \/ (Awaiting' /\ asked' = Awaited')
      <4>1. CASE Counts
        BY <1>1, <4>1 DEF Counts, Awaiting, Awaited, ClientTypes
      <4>2. CASE Lists
        BY <4>2 DEF Lists, Asks, Awaiting, Awaited
      <4>3. CASE Replies
        BY <4>3 DEF Replies
      <4>4. QED BY <2>5, <4>1, <4>2, <4>3
    <3>3. QED BY <1>3, <3>1, <3>2
  <2>6. QED BY <1>9, <2>3, <2>4, <2>5, ReceiveCases DEF Stops
<1>10. ASSUME NEW c \in Commands, Type(c) PROVE OneRequest'
  <2>1. Idle /\ UNCHANGED <<wire, doing>> /\ cmd' = c
    BY <1>10, TypeCases, IdleUnlessAwaiting DEF Awaiting
  <2>2. asked' = NoReq \/ (Awaiting' /\ asked' = Awaited')
    BY <1>10, <2>1, TypeCases DEF Idle, Asks, Awaiting, Awaited
  <2>3. QED BY <1>3, <2>1, <2>2 DEF Idle, Responses
<1>11. CASE BeginFrame \/ Timeout \/ ReceiveTorn \/ Disconnected \/ Exit
  <2>1. UNCHANGED <<asked, doing, wire, cmd, fetched, keyref>> /\ (pc' = pc \/ pc = "readtimed")
    BY <1>11, EndLeaves
  <2>2. CASE pc' = pc
    BY <1>4, <2>1, <2>2 DEF Responses
  <2>3. CASE pc = "readtimed"
    <3>1. Idle
      BY <2>3, IdleUnlessAwaiting DEF Awaiting
    <3>2. QED BY <1>3, <2>1, <3>1 DEF Idle, Responses
  <2>4. QED BY <2>1, <2>2, <2>3
<1>12. CASE UNCHANGED vars
  BY <1>4, <1>12 DEF vars, nodeVars, clientVars, Responses
<1>13. QED
  BY <1>5, <1>6, <1>7, <1>8, <1>9, <1>10, <1>11, <1>12 DEF Next, NodeStep, ClientStep

LEMMA TypeInit ==
  Init => TypeInv
<1> SUFFICES ASSUME Init PROVE TypeInv
  OBVIOUS
<1>1. NodeTypes
  <2>1. asked \in Requests
    BY MadeRequests, KeytabFacts DEF Init, NoReq
  <2>2. QED
    BY <2>1, MadeFrames, QupClientAssumption DEF Init, NodeTypes
<1>2. cmd \in Commands /\ cmd.verb \in {"ping", "observe"}
      /\ (mode = "follow" => cmd.verb = "observe")
  BY CommandFacts DEF Init, KeyVerbs
<1>3. ClientTypes
  <2>1. pc \in {"prompt", "keytab"} /\ (pc = "keytab" => cmd.verb = "observe")
    BY <1>2 DEF Init
  <2>2. begun = FALSE /\ error = "none" /\ commands = 0 /\ keyref = 0 /\ fetched = 0
    BY DEF Init, NoKey
  <2>3. commands \in 0 .. MaxCommands
    BY <2>2, QupClientAssumption
  <2>4. QED
    BY <1>2, <2>1, <2>2, <2>3, KeytabFacts DEF ClientTypes, Reading, Errors, KeyVerbs
<1>4. HistoryTypes /\ FollowInv
  BY <1>2 DEF Init, HistoryTypes, FollowInv
<1>5. OneRequest
  <2>1. Responses = {} /\ doing.op = "none"
    BY MadeFrames DEF Init, Responses
  <2>2. asked = NoReq \/ (Awaiting /\ asked = Awaited)
    BY DEF Init, Awaiting, Awaited
  <2>3. QED BY <2>1, <2>2 DEF OneRequest
<1>6. QED
  BY <1>1, <1>3, <1>4, <1>5 DEF TypeInv, Init

LEMMA TypeInvariance ==
  Spec => []TypeInv
<1>1. TypeInv /\ [Next]_vars => TypeInv'
  BY NodeTypesStep, ClientTypesStep, HistoryTypesStep, FollowStep, OneRequestStep DEF TypeInv
<1>2. QED
  BY <1>1, TypeInit, PTL DEF Spec

\* Every variable of the node, the client and the histories keeps its type,
\* whatever is typed, answered, notified or cut off (client.rs, main.rs).
THEOREM SessionTypes == Spec => []TypeOK
<1>1. TypeInv => TypeOK
  BY DEF TypeInv, NodeTypes, ClientTypes, HistoryTypes, Requests, TypeOK
<1>2. QED
  BY <1>1, TypeInvariance, PTL

\* A session ends only for a reason the user can see in the command: no frame
\* is taken for the response of another request, whatever notifications are
\* mixed in (client.rs:243-308, 445-468), and follow mode sends no request
\* that its key's flags do not allow (main.rs:162-202).
THEOREM ReasonsToEnd == Spec => []EndsForAReason
<1>1. Init => EndsForAReason
  BY DEF Init, EndsForAReason
<1>2. TypeInv /\ EndsForAReason /\ [Next]_vars => EndsForAReason'
  <2> SUFFICES ASSUME TypeInv, EndsForAReason, [Next]_vars PROVE EndsForAReason'
    OBVIOUS
  <2>1. CASE Serve \/ FinishRequest \/ \E k \in Keys : Change(k) \/ Notify(k)
    BY <2>1, NodeLeaves DEF EndsForAReason
  <2>2. CASE Receive
    BY <2>2, ReceiveCases DEF Skips, Reads, Counts, Lists, Replies, Follows, Stops, Asks, EndsForAReason
  <2>3. ASSUME NEW c \in Commands, Type(c) PROVE EndsForAReason'
    BY <2>3, TypeCases DEF Asks, EndsForAReason
  <2>4. CASE BeginFrame \/ Timeout \/ ReceiveTorn \/ Disconnected \/ Exit
    BY <2>4 DEF BeginFrame, Timeout, ReceiveTorn, Disconnected, Exit, Fail, End, ClientUnchanged, historyVars,
       EndsForAReason
  <2>5. CASE UNCHANGED vars
    BY <2>5 DEF vars, clientVars, historyVars, EndsForAReason
  <2>6. QED
    BY <2>1, <2>2, <2>3, <2>4, <2>5 DEF Next, NodeStep, ClientStep
<1>3. QED
  BY <1>1, <1>2, TypeInvariance, PTL DEF Spec

-----------------------------------------------------------------------------
(* What the screen tells.                                                  *)

\* The user is told that k is observed, or is about to be.
Promised(k) ==
  \/ k \in acked
  \/ /\ pc = "reply" /\ cmd.verb = "observe" /\ keyref = k
     /\ \E i \in DOMAIN wire : wire[i].op = "OK"

\* The node observes k, or has answered that it will.
Watched(k) ==
  /\ "N" \in Keytab[k].flags
  /\ k \in observed \/ (node = "tokio" /\ doing = Frame("mask", k, 0))

\* The changes and frames after which the user hears of k.
Coming(k) ==
  \/ owed[k] > 0
  \/ doing.op = "WRITTEN" /\ doing.key = k
  \/ \E i \in DOMAIN wire : wire[i].key = k /\ wire[i].op \in {"CHANGED", "VALUE", "WRITTEN"}

Told(k) == value[k] = known[k] \/ k \in flagged \cup hidden \cup crossed \cup missed \/ Coming(k)

\* The value that a response carries is the key's, or a `!` follows it.
Followed(k) ==
  \A i \in DOMAIN wire :
    wire[i].op \in {"VALUE", "WRITTEN"} /\ wire[i].key = k /\ wire[i].value # value[k] =>
      \/ owed[k] > 0 \/ k \in crossed \cup missed
      \/ \E j \in DOMAIN wire : j > i /\ wire[j].op = "CHANGED" /\ wire[j].key = k

\* A key that the user has asked to observe no more is promised no more.
LeaveInv == pc = "reply" /\ cmd.verb = "unobserve" => keyref \notin acked

ScreenInv ==
  /\ LeaveInv
  /\ mode = "repl" /\ pc # "done" =>
       \A k \in Keys : Promised(k) => Watched(k) /\ Told(k) /\ Followed(k)

LEMMA LeaveStep ==
  TypeInv /\ LeaveInv /\ [Next]_vars => LeaveInv'
<1> SUFFICES ASSUME TypeInv, LeaveInv, [Next]_vars PROVE LeaveInv'
  OBVIOUS
<1>1. CASE Serve \/ FinishRequest \/ \E k \in Keys : Change(k) \/ Notify(k)
  BY <1>1, NodeLeaves DEF LeaveInv
<1>2. CASE Receive
  <2>1. CASE Skips \/ Reads \/ Counts \/ Replies \/ Stops
    BY <2>1 DEF Skips, Reads, Counts, Replies, Stops, LeaveInv
  <2>2. CASE Lists
    BY <2>2 DEF Lists, Asks, LeaveInv
  <2>3. CASE Follows
    <3>1. cmd'.verb = "get"
      BY <2>3, GetCommand DEF TypeInv, FollowInv, ClientTypes, Follows, KeyVerbs
    <3>2. QED BY <3>1 DEF LeaveInv
  <2>4. QED BY <1>2, <2>1, <2>2, <2>3, ReceiveCases
<1>3. ASSUME NEW c \in Commands, Type(c) PROVE LeaveInv'
  BY <1>3, TypeCases DEF Asks, LeaveInv
<1>4. CASE BeginFrame \/ Timeout \/ ReceiveTorn \/ Disconnected \/ Exit
  BY <1>4, EndLeaves DEF LeaveInv
<1>5. CASE UNCHANGED vars
  BY <1>5 DEF vars, clientVars, historyVars, LeaveInv
<1>6. QED
  BY <1>1, <1>2, <1>3, <1>4, <1>5 DEF Next, NodeStep, ClientStep

\* The node owes a `!` for a store to a key that it watches.
LEMMA OweTells ==
  ASSUME NodeTypes, node \in {"embassy", "tokio"}, NEW j \in Keys, Owe(j), NEW k \in Keys
  PROVE  (k # j => owed'[k] = owed[k]) /\ (k = j /\ Watched(k) => owed'[k] > 0)
<1>1. owed \in [Keys -> Nat] /\ owed[j] + 1 > 0
  BY DEF NodeTypes
<1>2. CASE node = "embassy" /\ j \in observed
  BY <1>1, <1>2 DEF Owe
<1>3. CASE node = "embassy" /\ j \notin observed
  BY <1>1, <1>3 DEF Owe, Watched
<1>4. CASE node = "tokio" /\ "N" \in Keytab[j].flags
  BY <1>1, <1>4 DEF Owe
<1>5. CASE node = "tokio" /\ "N" \notin Keytab[j].flags
  BY <1>1, <1>5 DEF Owe, Watched
<1>6. QED BY <1>2, <1>3, <1>4, <1>5

\* The promises about a key, of which a step may change the frames.
LEMMA ScreenKept ==
  ASSUME NEW k \in Keys, UNCHANGED <<value, owed, wire, doing, observed, node, crossed, missed>>,
         known'[k] = known[k], k \in flagged => k \in flagged', k \in hidden => k \in hidden',
         Watched(k), Told(k), Followed(k)
  PROVE  (Watched(k) /\ Told(k) /\ Followed(k))'
  BY DEF Watched, Told, Coming, Followed

LEMMA AppendTells ==
  ASSUME NodeTypes, NEW f \in FramesOf, wire' = Append(wire, f), NEW k \in Keys
  PROVE  /\ (\E i \in DOMAIN wire' : wire'[i].op = "OK") <=> (f.op = "OK" \/ \E i \in DOMAIN wire : wire[i].op = "OK")
         /\ (f.key = k /\ f.op \in {"CHANGED", "VALUE", "WRITTEN"} =>
               \E i \in DOMAIN wire' : wire'[i].key = k /\ wire'[i].op \in {"CHANGED", "VALUE", "WRITTEN"})
         /\ ((\E i \in DOMAIN wire : wire[i].key = k /\ wire[i].op \in {"CHANGED", "VALUE", "WRITTEN"}) =>
               \E i \in DOMAIN wire' : wire'[i].key = k /\ wire'[i].op \in {"CHANGED", "VALUE", "WRITTEN"})
<1>1. /\ \A i \in DOMAIN wire : i \in DOMAIN wire' /\ wire'[i] = wire[i]
      /\ Len(wire) + 1 \in DOMAIN wire' /\ wire'[Len(wire) + 1] = f
      /\ \A i \in DOMAIN wire' : i \in DOMAIN wire \/ i = Len(wire) + 1
  BY WireAppend
<1>2. QED BY <1>1

\* A frame that is no value, after those that are followed.
LEMMA AppendFollows ==
  ASSUME NodeTypes, NEW f \in FramesOf, wire' = Append(wire, f), NEW k \in Keys,
         Followed(k), value'[k] = value[k], owed[k] > 0 => owed'[k] > 0 \/ (f.op = "CHANGED" /\ f.key = k),
         k \in crossed \cup missed => k \in crossed' \cup missed' \/ (f.op = "CHANGED" /\ f.key = k),
         f.op \notin {"VALUE", "WRITTEN"} \/ f.key # k \/ f.value = value'[k]
  PROVE  Followed(k)'
<1>1. /\ \A i \in DOMAIN wire : i \in DOMAIN wire' /\ wire'[i] = wire[i] /\ i < Len(wire) + 1
      /\ Len(wire) + 1 \in DOMAIN wire' /\ wire'[Len(wire) + 1] = f
      /\ \A i \in DOMAIN wire' : i \in DOMAIN wire \/ i = Len(wire) + 1
  BY WireAppend
<1> SUFFICES ASSUME NEW i \in DOMAIN wire', wire'[i].op \in {"VALUE", "WRITTEN"}, wire'[i].key = k,
                    wire'[i].value # value'[k]
             PROVE  \/ owed'[k] > 0 \/ k \in crossed' \cup missed'
                    \/ \E j \in DOMAIN wire' : j > i /\ wire'[j].op = "CHANGED" /\ wire'[j].key = k
  BY DEF Followed
<1>2. i \in DOMAIN wire /\ wire'[i] = wire[i] /\ Len(wire) + 1 > i
  BY <1>1
<1>3. CASE f.op = "CHANGED" /\ f.key = k
  BY <1>1, <1>2, <1>3
<1>4. CASE owed[k] > 0 \/ k \in crossed \cup missed
  BY <1>3, <1>4
<1>5. CASE \E j \in DOMAIN wire : j > i /\ wire[j].op = "CHANGED" /\ wire[j].key = k
  BY <1>1, <1>5
<1>6. QED
  BY <1>2, <1>4, <1>5 DEF Followed

\* What is left on the wire once its first frame is read.
LEMMA TailFollows ==
  ASSUME NodeTypes, wire # <<>>, wire' = Tail(wire), NEW k \in Keys, Followed(k),
         UNCHANGED <<value, owed, crossed, missed>>
  PROVE  Followed(k)'
<1> SUFFICES ASSUME NEW i \in DOMAIN wire', wire'[i].op \in {"VALUE", "WRITTEN"}, wire'[i].key = k,
                    wire'[i].value # value[k], ~(owed[k] > 0), k \notin crossed \cup missed
             PROVE  \E j \in DOMAIN wire' : j > i /\ wire'[j].op = "CHANGED" /\ wire'[j].key = k
  BY DEF Followed
<1>1. i \in Nat \ {0} /\ i + 1 \in DOMAIN wire /\ wire'[i] = wire[i + 1]
  BY WireTail
<1>2. PICK j \in DOMAIN wire : j > i + 1 /\ wire[j].op = "CHANGED" /\ wire[j].key = k
  BY <1>1 DEF Followed
<1>3. j - 1 \in DOMAIN wire' /\ wire'[j - 1] = wire[j] /\ j \in Nat
  BY <1>1, <1>2, WireTail
<1>4. QED
  BY <1>1, <1>2, <1>3

\* A `!` that is printed or dropped is what the user hears of its key.
LEMMA NotedTells ==
  ASSUME TypeInv, wire # <<>>, wire' = Tail(wire), UNCHANGED <<node, value, observed, owed, doing, crossed, missed>>,
         NEW k \in Keys, Watched(k), Told(k), Followed(k), known' = known,
         \/ Head(wire).op = "CHANGED" /\ Noted(Head(wire).key)
         \/ Head(wire).op \notin {"CHANGED", "VALUE", "WRITTEN"} /\ UNCHANGED <<flagged, hidden>>
  PROVE  (Watched(k) /\ Told(k) /\ Followed(k))'
<1>1. NodeTypes
  BY DEF TypeInv
<1>2. Followed(k)'
  BY <1>1, TailFollows
<1>3. Watched(k)'
  BY DEF Watched
<1>4. Told(k)'
  <2>1. CASE value[k] = known[k] \/ k \in flagged \cup hidden \cup crossed \cup missed
    BY <2>1 DEF Told, Noted
  <2>2. CASE owed[k] > 0 \/ (doing.op = "WRITTEN" /\ doing.key = k)
    BY <2>2 DEF Told, Coming
  <2>3. ASSUME NEW i \in DOMAIN wire, wire[i].key = k, wire[i].op \in {"CHANGED", "VALUE", "WRITTEN"}
        PROVE  Told(k)'
    <3>1. CASE i = 1
      <4>1. Head(wire) = wire[i]
        BY <1>1, <3>1, WireTail
      <4>2. Noted(k)
        BY <2>3, <4>1
      <4>3. QED BY <4>2 DEF Noted, Told
    <3>2. CASE i # 1
      <4>1. i - 1 \in DOMAIN wire' /\ wire'[i - 1] = wire[i]
        BY <1>1, <3>2, WireTail
      <4>2. Coming(k)'
        BY <2>3, <4>1 DEF Coming
      <4>3. QED BY <4>2 DEF Told
    <3>3. QED BY <3>1, <3>2
  <2>4. QED BY <2>1, <2>2, <2>3 DEF Told, Coming
<1>5. QED BY <1>2, <1>3, <1>4

\* A value that is printed is the key's, unless the user is still to hear of it.
LEMMA ShownTells ==
  ASSUME TypeInv, wire # <<>>, wire' = Tail(wire), UNCHANGED <<node, value, observed, owed, doing, crossed, missed>>,
         NEW k \in Keys, Watched(k), Told(k), Followed(k),
         Head(wire).op \in {"VALUE", "WRITTEN"}, ShowValue(Head(wire))
  PROVE  (Watched(k) /\ Told(k) /\ Followed(k))'
<1>1. NodeTypes /\ HistoryTypes
  BY DEF TypeInv
<1>2. Followed(k)'
  BY <1>1, TailFollows
<1>3. Watched(k)'
  BY DEF Watched
<1>4. 1 \in DOMAIN wire /\ Head(wire) = wire[1]
  BY <1>1, WireTail
<1>5. CASE Head(wire).key = k
  <2>1. known'[k] = wire[1].value
    BY <1>1, <1>4, <1>5 DEF ShowValue, HistoryTypes
  <2>2. CASE value[k] = wire[1].value
    <3>1. value'[k] = known'[k]
      BY <2>1, <2>2
    <3>2. Told(k)'
      BY <3>1 DEF Told
    <3>3. QED BY <1>2, <1>3, <3>2
  <2>3. CASE value[k] # wire[1].value
    <3>1. \/ owed[k] > 0 \/ k \in crossed \cup missed
          \/ \E j \in DOMAIN wire : j > 1 /\ wire[j].op = "CHANGED" /\ wire[j].key = k
      BY <1>4, <1>5, <2>3 DEF Followed
    <3>2. ASSUME NEW j \in DOMAIN wire, j > 1, wire[j].op = "CHANGED", wire[j].key = k PROVE Coming(k)'
      <4>1. j - 1 \in DOMAIN wire' /\ wire'[j - 1] = wire[j]
        BY <1>1, <3>2, WireTail
      <4>2. QED BY <3>2, <4>1 DEF Coming
    <3>3. owed[k] > 0 \/ k \in crossed \cup missed => Told(k)'
      BY DEF Told, Coming
    <3>4. Told(k)'
      <4>1. Coming(k)' => Told(k)'
        BY DEF Told
      <4>2. QED BY <3>1, <3>2, <3>3, <4>1
    <3>5. QED BY <1>2, <1>3, <3>4
  <2>4. QED BY <2>2, <2>3
<1>6. CASE Head(wire).key # k
  <2>1. known'[k] = known[k] /\ (k \in flagged => k \in flagged') /\ (k \in hidden => k \in hidden')
    BY <1>1, <1>6 DEF ShowValue, HistoryTypes
  <2>2. Coming(k) => Coming(k)'
    <3>1. ASSUME NEW i \in DOMAIN wire, wire[i].key = k, wire[i].op \in {"CHANGED", "VALUE", "WRITTEN"}
          PROVE  Coming(k)'
      <4>1. i # 1
        BY <1>4, <1>6, <3>1
      <4>2. i - 1 \in DOMAIN wire' /\ wire'[i - 1] = wire[i]
        BY <1>1, <4>1, WireTail
      <4>3. QED BY <3>1, <4>2 DEF Coming
    <3>2. QED BY <3>1 DEF Coming
  <2>3. Told(k)'
    BY <2>1, <2>2 DEF Told
  <2>4. QED BY <1>2, <1>3, <2>3
<1>7. QED BY <1>5, <1>6

LEMMA ScreenReceive ==
  ASSUME TypeInv, ScreenInv, Receive, mode = "repl", pc' # "done", NEW k \in Keys, Promised(k)'
  PROVE  (Watched(k) /\ Told(k) /\ Followed(k))'
<1>1. /\ wire # <<>> /\ wire' = Tail(wire) /\ pc # "done" /\ NodeTypes
      /\ UNCHANGED <<node, value, observed, owed, doing, crossed, missed>>
  BY ReceiveCases DEF Receive, Reading, TypeInv
<1>2. /\ \A i \in DOMAIN wire' : i + 1 \in DOMAIN wire /\ wire'[i] = wire[i + 1]
      /\ 1 \in DOMAIN wire /\ Head(wire) = wire[1]
  BY <1>1, WireTail
<1>3. ASSUME Promised(k) PROVE Watched(k) /\ Told(k) /\ Followed(k)
  BY <1>1, <1>3 DEF ScreenInv
<1>4. CASE Skips \/ Reads
  <2>1. Promised(k)
    BY <1>2, <1>4 DEF Skips, Reads, Promised
  <2>2. Head(wire).op = "CHANGED" /\ Noted(Head(wire).key) /\ known' = known
    BY <1>4 DEF Skips, Reads
  <2>3. QED BY <1>1, <1>3, <2>1, <2>2, NotedTells
<1>5. CASE Counts \/ Lists
  <2>1. Head(wire).op \notin {"CHANGED", "VALUE", "WRITTEN"} /\ UNCHANGED <<known, flagged, hidden>>
    BY <1>5 DEF Counts, Lists
  <2>2. ~\E i \in DOMAIN wire' : wire'[i].op = "OK"
    BY <1>1, <2>1, IdleAfterResponse DEF Responses
  <2>3. k \in acked
    BY <1>5, <2>2 DEF Counts, Lists, Asks, Promised
  <2>4. Promised(k)
    BY <2>3 DEF Promised
  <2>5. QED BY <1>1, <1>3, <2>1, <2>4, NotedTells
<1>6. CASE Replies
  <2>1. Promised(k)
    BY <1>2, <1>6 DEF Replies, Promised
  <2>2. CASE Head(wire).op \in {"VALUE", "WRITTEN"}
    BY <1>1, <1>3, <1>6, <2>1, <2>2, ShownTells DEF Replies
  <2>3. CASE Head(wire).op \notin {"VALUE", "WRITTEN"}
    BY <1>1, <1>3, <1>6, <2>1, <2>3, NotedTells DEF Replies
  <2>4. QED BY <2>2, <2>3
<1>7. QED
  BY <1>4, <1>5, <1>6, ReceiveCases DEF Follows, Stops

\* A request is served: nothing but `!` is on the wire before.
LEMMA ScreenServe ==
  ASSUME TypeInv, ScreenInv, Serve, mode = "repl", pc # "done", NEW k \in Keys, Promised(k)'
  PROVE  (Watched(k) /\ Told(k) /\ Followed(k))'
<1> DEFINE a == asked.key
<1>1. /\ NodeTypes /\ HistoryTypes /\ node \in {"embassy", "tokio"} /\ OneRequest
      /\ doing = Nothing /\ doing.op = "none" /\ asked' = NoReq
      /\ UNCHANGED <<node, pc, cmd, keyref, acked, flagged, hidden>>
  BY NodeLeaves, Served, MadeFrames DEF TypeInv
<1>2. Awaiting /\ asked = Awaited /\ \A i \in DOMAIN wire : wire[i].op = "CHANGED"
  BY <1>1, Served DEF OneRequest, Responses
<1>3. pc = "reply" => asked.op = cmd.verb /\ a = keyref
  BY <1>2 DEF Awaited
\* A key that is promised already is observed.
<1>4. ASSUME k \in acked PROVE Watched(k) /\ Told(k) /\ k \in observed /\ "N" \in Keytab[k].flags
  <2>1. Watched(k) /\ Told(k)
    BY <1>4 DEF ScreenInv, Promised
  <2>2. doing # Frame("mask", k, 0)
    BY <1>1, MadeFrames
  <2>3. QED BY <2>1, <2>2 DEF Watched
<1>5. crossed' = crossed /\ Followed(k)
  BY <1>2 DEF Serve, Followed
<1>6. (known' = known /\ missed' = missed) \/ (asked.op = "observe" /\ Granted(asked))
  BY DEF Serve
\* The steps that answer no OBSERVE, by what they send.
<1>7. ASSUME ~(asked.op = "observe" /\ Granted(asked)), wire' = wire \/ (\E f \in FramesOf : wire' = Append(wire, f))
      PROVE  k \in acked
  <2>1. pc = "reply" /\ cmd.verb = "observe" => ~\E i \in DOMAIN wire' : wire'[i].op = "OK"
    <3> SUFFICES ASSUME pc = "reply", cmd.verb = "observe" PROVE ~\E i \in DOMAIN wire' : wire'[i].op = "OK"
      OBVIOUS
    <3>1. asked.op = "observe" /\ ~Granted(asked)
      BY <1>3, <1>7
    <3>2. wire' = Append(wire, Frame("ERROR", a, 0))
      BY <3>1 DEF Serve, Refuse, AnswerConstant, AnswerGet, AnswerWrite, AnswerObserve, AnswerUnobserve, Send
    <3>3. Frame("ERROR", a, 0).op = "ERROR"
      BY DEF Frame
    <3>4. Frame("ERROR", a, 0) \in FramesOf
      BY <1>1, MadeFrames, KeytabFacts DEF FrameOps, NodeTypes, Requests
    <3>5. QED
      BY <1>1, <1>2, <3>2, <3>3, <3>4, AppendTells
  <2>2. QED BY <1>1, <2>1 DEF Promised
<1>8. \A o \in FrameOps, v \in Nat : /\ Frame(o, a, v) \in FramesOf /\ Frame(o, a, v).op = o
                                     /\ Frame(o, a, v).key = a /\ Frame(o, a, v).value = v
  BY <1>1, MadeFrames DEF NodeTypes, Requests
<1>9. ASSUME NEW f \in FramesOf, wire' = Append(wire, f), value'[k] = value[k], owed[k] > 0 => owed'[k] > 0 \/ k \in missed',
             known'[k] = known[k] \/ known'[k] = value[k], k \in missed => k \in missed',
             k \in acked \/ known'[k] = value[k]
      PROVE  Told(k)'
  <2>1. CASE known'[k] = value[k]
    BY <1>9, <2>1 DEF Told
  <2>2. CASE known'[k] = known[k] /\ k \in acked
    <3>1. Told(k)
      BY <1>4, <2>2
    <3>2. Coming(k) => Coming(k)' \/ k \in missed'
      BY <1>1, <1>9, AppendTells DEF Coming
    <3>3. QED BY <1>1, <1>5, <1>9, <2>2, <3>1, <3>2 DEF Told
  <2>3. QED BY <1>9, <2>1, <2>2
<1>10. CASE Refuse \/ AnswerConstant
  <2>1. UNCHANGED <<value, observed, owed, doing>> /\ ~(asked.op = "observe" /\ Granted(asked))
    BY <1>10 DEF Refuse, AnswerConstant
  <2>2. PICK o \in {"ERROR", "OK", "KEYTABLEN", "KEY"} : wire' = Append(wire, Frame(o, a, 0))
    BY <1>10 DEF Refuse, AnswerConstant, Send
  <2>3. Frame(o, a, 0) \in FramesOf /\ Frame(o, a, 0).op = o
    BY <1>8 DEF FrameOps
  <2>4. k \in acked
    BY <1>7, <2>1, <2>2, <2>3
  <2>5. Followed(k)'
    BY <1>1, <1>5, <1>6, <2>1, <2>2, <2>3, AppendFollows
  <2>6. Told(k)'
    BY <1>6, <1>9, <2>1, <2>2, <2>3, <2>4
  <2>7. QED BY <1>1, <1>4, <2>1, <2>4, <2>5, <2>6 DEF Watched
<1>11. CASE AnswerGet
  <2>1. UNCHANGED <<value, observed, owed>> /\ known' = known /\ missed' = missed /\ a \in Keys /\ value[a] \in Nat
    BY <1>1, <1>6, <1>11 DEF AnswerGet, Granted, NodeTypes
  <2>2. CASE wire' = wire
    <3>1. k \in acked
      BY <1>7, <1>11, <2>2 DEF AnswerGet
    <3>2. Followed(k)'
      BY <1>5, <2>1, <2>2 DEF Followed
    <3>3. Coming(k) => Coming(k)'
      BY <1>1, <2>1, <2>2 DEF Coming
    <3>4. Told(k)'
      BY <1>1, <1>4, <1>5, <2>1, <3>1, <3>3 DEF Told
    <3>5. QED BY <1>4, <2>1, <3>1, <3>2, <3>4 DEF Watched
  <2>3. CASE wire' = Append(wire, Frame("VALUE", a, value[a])) /\ doing' = doing
    <3>1. LET f == Frame("VALUE", a, value[a]) IN f \in FramesOf /\ f.op = "VALUE" /\ f.key = a /\ f.value = value[a]
      BY <1>8, <2>1 DEF FrameOps
    <3>2. k \in acked
      BY <1>7, <1>11, <2>3, <3>1 DEF AnswerGet
    <3>3. Followed(k)'
      BY <1>1, <1>5, <2>1, <2>3, <3>1, AppendFollows
    <3>4. Told(k)'
      BY <1>9, <2>1, <2>3, <3>1, <3>2
    <3>5. QED BY <1>4, <2>1, <3>2, <3>3, <3>4 DEF Watched
  <2>4. QED BY <1>11, <2>2, <2>3 DEF AnswerGet, Send
<1>12. CASE AnswerWrite
  <2>1. /\ a \in Keys /\ value' = [value EXCEPT ![a] = @ + 1] /\ observed' = observed
        /\ known' = known /\ missed' = missed /\ asked.op = "write"
    BY <1>6, <1>12 DEF AnswerWrite, Granted
  <2>2. value'[a] \in Nat /\ (k # a => value'[k] = value[k])
    BY <1>1, <2>1 DEF NodeTypes
  <2>3. LET f == Frame("WRITTEN", a, value'[a]) IN f \in FramesOf /\ f.op = "WRITTEN" /\ f.key = a /\ f.value = value'[a]
    BY <1>8, <2>2 DEF FrameOps
  <2>4. CASE wire' = wire /\ doing' = Frame("WRITTEN", a, value'[a]) /\ owed' = owed
    <3>1. k \in acked
      BY <1>7, <2>1, <2>4
    <3>2. Followed(k)'
      BY <1>2, <2>4 DEF Followed
    <3>3. CASE k = a
      <4>1. Coming(k)'
        BY <2>3, <2>4, <3>3 DEF Coming
      <4>2. QED BY <1>4, <2>1, <3>1, <3>2, <4>1 DEF Watched, Told
    <3>4. CASE k # a
      <4>1. Coming(k) => Coming(k)'
        BY <1>1, <2>4 DEF Coming
      <4>2. Told(k)'
        BY <1>1, <1>4, <1>5, <2>1, <2>2, <3>1, <3>4, <4>1 DEF Told
      <4>3. QED BY <1>4, <2>1, <3>1, <3>2, <4>2 DEF Watched
    <3>5. QED BY <3>3, <3>4
  <2>5. CASE wire' = Append(wire, Frame("WRITTEN", a, value'[a])) /\ Owe(a) /\ doing' = doing
    <3>1. k \in acked
      BY <1>7, <2>1, <2>3, <2>5
    <3>2. k # a => owed'[k] = owed[k]
      BY <1>1, <2>1, <2>5, OweTells
    <3>3. CASE k = a
      <4>1. Coming(k)'
        BY <1>1, <2>3, <2>5, <3>3, AppendTells DEF Coming
      <4>2. owed'[k] > 0
        BY <1>1, <1>4, <2>1, <2>5, <3>1, <3>3, OweTells
      <4>3. Followed(k)'
        BY <4>2 DEF Followed
      <4>4. QED BY <1>4, <2>1, <3>1, <4>1, <4>3 DEF Watched, Told
    <3>4. CASE k # a
      <4>1. Followed(k)'
        BY <1>1, <1>5, <2>1, <2>2, <2>3, <2>5, <3>2, <3>4, AppendFollows
      <4>2. Told(k)'
        BY <1>9, <2>1, <2>2, <2>3, <2>5, <3>1, <3>2, <3>4
      <4>3. QED BY <1>4, <2>1, <3>1, <4>1, <4>2 DEF Watched
    <3>5. QED BY <3>3, <3>4
  <2>6. QED BY <1>12, <2>4, <2>5 DEF AnswerWrite, Send
<1>13. CASE AnswerObserve
  <2>1. /\ a \in Keys /\ asked.op = "observe" /\ Granted(asked) /\ value' = value
        /\ wire' = Append(wire, Frame("OK", a, 0))
    BY <1>13 DEF AnswerObserve, Granted, Send
  <2>2. Frame("OK", a, 0) \in FramesOf /\ Frame("OK", a, 0).op = "OK"
    BY <1>8 DEF FrameOps
  <2>3. /\ known' = (IF a \notin acked THEN [known EXCEPT ![a] = value[a]] ELSE known)
        /\ missed' = (IF owed'[a] < owed[a] THEN missed \cup {a} ELSE missed)
    BY <2>1 DEF Serve
  <2>4. /\ observed \subseteq observed' /\ (k # a => owed'[k] = owed[k])
        /\ a \in observed' \/ (node = "tokio" /\ doing' = Frame("mask", a, 0))
        /\ owed'[a] = owed[a] \/ owed'[a] = 0
    BY <1>1, <1>13, <2>1 DEF AnswerObserve, NodeTypes
  <2>5. owed[k] > 0 => owed'[k] > 0 \/ k \in missed'
    BY <1>1, <2>1, <2>3, <2>4 DEF NodeTypes
  <2>6. k # a => k \in acked
    BY <1>1, <1>3 DEF Promised
  <2>7. /\ known'[k] = known[k] \/ known'[k] = value[k]
        /\ k \in acked \/ known'[k] = value[k]
        /\ k \in missed => k \in missed'
    BY <1>1, <2>1, <2>3, <2>6 DEF HistoryTypes
  <2>8. Told(k)'
    BY <1>9, <2>1, <2>2, <2>5, <2>7
  <2>9. Followed(k)'
    <3>1. \A i \in DOMAIN wire' : wire'[i].op \notin {"VALUE", "WRITTEN"}
      BY <1>1, <1>2, <2>1, <2>2, WireAppend
    <3>2. QED BY <3>1 DEF Followed
  <2>10. Watched(k)'
    <3>1. CASE k = a
      <4>1. "N" \in Keytab[k].flags
        BY <2>1, <3>1 DEF Granted, Needs
      <4>2. QED BY <1>1, <2>4, <3>1, <4>1 DEF Watched
    <3>2. CASE k # a
      BY <1>4, <2>4, <2>6, <3>2 DEF Watched
    <3>3. QED BY <3>1, <3>2
  <2>11. QED BY <2>8, <2>9, <2>10
<1>14. CASE AnswerUnobserve
  <2>1. /\ asked.op = "unobserve" /\ value' = value /\ wire' = Append(wire, Frame("OK", a, 0))
        /\ known' = known /\ missed' = missed /\ doing' = doing /\ observed' = observed \ {a}
    BY <1>6, <1>14 DEF AnswerUnobserve, Send
  <2>2. Frame("OK", a, 0) \in FramesOf /\ Frame("OK", a, 0).op = "OK"
    BY <1>8 DEF FrameOps
  <2>3. k \in acked
    BY <1>7, <2>1, <2>2
  <2>4. k # a
    BY <1>2, <1>3, <2>1, <2>3 DEF Awaiting, Awaited, ScreenInv, LeaveInv
  <2>5. owed'[k] = owed[k]
    BY <1>1, <1>14, <2>4 DEF AnswerUnobserve, NodeTypes
  <2>6. Followed(k)'
    BY <1>1, <1>5, <2>1, <2>2, <2>5, AppendFollows
  <2>7. Told(k)'
    BY <1>9, <2>1, <2>2, <2>3, <2>5
  <2>8. QED BY <1>4, <2>1, <2>3, <2>4, <2>6, <2>7 DEF Watched
<1>15. QED
  BY <1>10, <1>11, <1>12, <1>13, <1>14 DEF Serve

LEMMA ScreenFinish ==
  ASSUME TypeInv, ScreenInv, FinishRequest, mode = "repl", pc # "done", NEW k \in Keys, Promised(k)'
  PROVE  (Watched(k) /\ Told(k) /\ Followed(k))'
<1> DEFINE d == doing.key
<1>1. /\ NodeTypes /\ HistoryTypes /\ node \in {"embassy", "tokio"} /\ OneRequest
      /\ doing \in FramesOf /\ Carries(doing) /\ doing' = Nothing /\ doing'.op = "none"
      /\ UNCHANGED <<node, pc, cmd, keyref, acked, flagged, hidden>>
      /\ UNCHANGED <<value, known, missed>>
  BY NodeLeaves, MadeFrames DEF TypeInv, NodeTypes, FinishRequest
<1>2. ASSUME Promised(k) PROVE Watched(k) /\ Told(k) /\ Followed(k)
  BY <1>2 DEF ScreenInv
<1>3. CASE doing.op = "mask" /\ observed' = observed \cup {d} /\ UNCHANGED <<wire, owed, crossed>>
  <2>1. Promised(k)
    BY <1>1, <1>3 DEF Promised
  <2>2. Watched(k)'
    BY <1>1, <1>2, <1>3, <2>1 DEF Watched, Frame
  <2>3. Followed(k)'
    BY <1>1, <1>2, <1>3, <2>1 DEF Followed
  <2>4. Coming(k) => Coming(k)'
    BY <1>3 DEF Coming
  <2>5. Told(k)'
    BY <1>1, <1>2, <1>3, <2>1, <2>4 DEF Told
  <2>6. QED BY <2>2, <2>3, <2>5
<1>4. CASE doing.op \in {"VALUE", "WRITTEN"} /\ wire' = Append(wire, doing) /\ observed' = observed
  <2>1. \A i \in DOMAIN wire : wire[i].op = "CHANGED"
    BY <1>1, <1>4 DEF OneRequest, Responses
  <2>2. Promised(k)
    BY <1>1, <1>4, AppendTells DEF Promised
  <2>3. Watched(k)'
    <3>1. doing # Frame("mask", k, 0)
      BY <1>4 DEF Frame
    <3>2. QED BY <1>1, <1>2, <1>4, <2>2, <3>1 DEF Watched
  <2>4. CASE d = k
    <3>1. Coming(k)'
      BY <1>1, <1>4, <2>4, AppendTells DEF Coming
    <3>2. doing.value # value[k] => owed'[k] > 0 \/ k \in crossed'
      <4>1. CASE doing.op = "VALUE"
        <5>1. /\ crossed' = (IF doing.value # value[d] /\ owed[d] = 0 THEN crossed \cup {d} ELSE crossed \ {d})
              /\ owed' = owed
          BY <4>1 DEF FinishRequest
        <5>2. owed[k] \in Nat
          BY <1>1 DEF NodeTypes
        <5>3. QED BY <2>4, <5>1, <5>2
      <4>2. CASE doing.op = "WRITTEN"
        <5>1. Owe(k)
          BY <2>4, <4>2 DEF FinishRequest
        <5>2. QED BY <1>1, <1>2, <2>2, <5>1, OweTells
      <4>3. QED BY <1>4, <4>1, <4>2
    <3>3. Followed(k)'
      <4>1. \A i \in DOMAIN wire' : wire'[i].op \in {"VALUE", "WRITTEN"} => wire'[i] = doing
        BY <1>1, <1>4, <2>1, WireAppend
      <4>2. QED BY <1>1, <3>2, <4>1 DEF Followed
    <3>4. Told(k)'
      BY <3>1 DEF Told
    <3>5. QED BY <2>3, <3>3, <3>4
  <2>5. CASE d # k
    <3>1. owed'[k] = owed[k] /\ (k \in crossed <=> k \in crossed')
      <4>1. CASE doing.op = "VALUE"
        BY <2>5, <4>1 DEF FinishRequest
      <4>2. CASE doing.op = "WRITTEN"
        <5>1. Owe(d) /\ d \in Keys /\ crossed' = crossed
          BY <1>1, <4>2 DEF FinishRequest, Carries
        <5>2. QED BY <1>1, <2>5, <5>1, OweTells
      <4>3. QED BY <1>4, <4>1, <4>2
    <3>2. Followed(k)'
      BY <1>1, <1>2, <1>4, <2>2, <2>5, <3>1, AppendFollows
    <3>3. Coming(k) => Coming(k)'
      BY <1>1, <1>4, <2>5, <3>1, AppendTells DEF Coming
    <3>4. Told(k)'
      BY <1>1, <1>2, <2>2, <3>1, <3>3 DEF Told
    <3>5. QED BY <2>3, <3>2, <3>4
  <2>6. QED BY <2>4, <2>5
<1>5. QED
  BY <1>3, <1>4 DEF FinishRequest, Send

LEMMA ScreenNotify ==
  ASSUME TypeInv, ScreenInv, NEW j \in Keys, Notify(j), mode = "repl", pc # "done", NEW k \in Keys, Promised(k)'
  PROVE  (Watched(k) /\ Told(k) /\ Followed(k))'
<1> DEFINE f == Frame("CHANGED", j, 0)
<1>1. /\ NodeTypes /\ f \in FramesOf /\ f.op = "CHANGED" /\ f.key = j
      /\ UNCHANGED <<node, mode, pc, cmd, keyref, acked, flagged, hidden, value, observed, doing, known, crossed>>
      /\ \A i \in Keys : i # j => owed'[i] = owed[i] /\ (i \in missed <=> i \in missed')
  <2>1. NodeTypes
    BY DEF TypeInv
  <2>2. f \in FramesOf /\ f.op = "CHANGED" /\ f.key = j
    BY MadeFrames, KeytabFacts DEF FrameOps
  <2>3. UNCHANGED <<node, mode, pc, cmd, keyref, acked, flagged, hidden, value, observed, doing, known, crossed>>
    BY DEF Notify, clientVars
  <2>4. \A i \in Keys : i # j => owed'[i] = owed[i]
    BY <2>1 DEF NodeTypes, Notify
  <2>5. \A i \in Keys : i # j => (i \in missed <=> i \in missed')
    BY DEF Notify
  <2>6. QED BY <2>1, <2>2, <2>3, <2>4, <2>5
<1>2. \/ j \in observed /\ wire' = Append(wire, f)
      \/ j \notin observed /\ wire' = wire /\ (doing = Frame("mask", j, 0) => j \in missed')
  BY DEF Notify, Send
<1>3. Promised(k)
  BY <1>1, <1>2, AppendTells DEF Promised
<1>4. Watched(k) /\ Told(k) /\ Followed(k)
  BY <1>3 DEF ScreenInv
<1>5. Watched(k)'
  BY <1>1, <1>4 DEF Watched
<1>6. CASE wire' = Append(wire, f)
  <2>1. Followed(k)'
    BY <1>1, <1>4, <1>6, AppendFollows
  <2>2. Coming(k) => Coming(k)'
    BY <1>1, <1>6, AppendTells DEF Coming
  <2>3. k = j => Coming(k)'
    BY <1>1, <1>6, AppendTells DEF Coming
  <2>4. Told(k)'
    BY <1>1, <1>4, <2>2, <2>3 DEF Told
  <2>5. QED BY <1>5, <2>1, <2>4
<1>7. CASE wire' = wire /\ j \notin observed /\ k = j
  <2>1. k \in missed'
    BY <1>2, <1>4, <1>7 DEF Watched
  <2>2. QED BY <1>5, <2>1 DEF Told, Followed
<1>8. CASE wire' = wire /\ k # j
  <2>1. Followed(k)'
    BY <1>1, <1>4, <1>8 DEF Followed
  <2>2. Coming(k) => Coming(k)'
    BY <1>1, <1>8 DEF Coming
  <2>3. Told(k)'
    BY <1>1, <1>4, <1>8, <2>2 DEF Told
  <2>4. QED BY <1>5, <2>1, <2>3
<1>9. QED
  BY <1>2, <1>6, <1>7, <1>8

LEMMA ScreenChange ==
  ASSUME TypeInv, ScreenInv, NEW j \in Keys, Change(j), mode = "repl", pc # "done", NEW k \in Keys, Promised(k)'
  PROVE  (Watched(k) /\ Told(k) /\ Followed(k))'
<1>1. /\ NodeTypes /\ node \in {"embassy", "tokio"} /\ Owe(j) /\ value' = [value EXCEPT ![j] = @ + 1]
      /\ UNCHANGED <<node, pc, cmd, keyref, acked, flagged, hidden, observed, doing, wire, known, crossed, missed>>
  BY DEF TypeInv, Change, clientVars, historyVars
<1>2. Promised(k)
  BY <1>1 DEF Promised
<1>3. Watched(k) /\ Told(k) /\ Followed(k)
  BY <1>2 DEF ScreenInv
<1>4. Watched(k)'
  BY <1>1, <1>3 DEF Watched
<1>5. CASE k = j
  <2>1. owed'[k] > 0
    BY <1>1, <1>3, <1>5, OweTells
  <2>2. QED BY <1>4, <2>1 DEF Told, Coming, Followed
<1>6. CASE k # j
  <2>1. value'[k] = value[k] /\ owed'[k] = owed[k]
    BY <1>1, <1>6, OweTells DEF NodeTypes
  <2>2. Followed(k)'
    BY <1>1, <1>3, <2>1 DEF Followed
  <2>3. Coming(k) => Coming(k)'
    BY <1>1, <2>1 DEF Coming
  <2>4. Told(k)'
    BY <1>1, <1>3, <2>1, <2>3 DEF Told
  <2>5. QED BY <1>4, <2>2, <2>4
<1>7. QED BY <1>5, <1>6

LEMMA ScreenStep ==
  TypeInv /\ ScreenInv /\ [Next]_vars => ScreenInv'
<1> SUFFICES ASSUME TypeInv, ScreenInv, [Next]_vars, mode' = "repl", pc' # "done", NEW k \in Keys, Promised(k)'
             PROVE  (Watched(k) /\ Told(k) /\ Followed(k))'
  BY LeaveStep DEF ScreenInv
<1>1. mode = "repl"
  BY FollowStep
<1>2. pc # "done" => (Promised(k) => Watched(k) /\ Told(k) /\ Followed(k))
  BY <1>1 DEF ScreenInv
<1>3. CASE Serve \/ FinishRequest \/ \E j \in Keys : Change(j) \/ Notify(j)
  <2>1. pc # "done"
    BY <1>3, NodeLeaves
  <2>2. QED
    BY <1>1, <1>3, <2>1, ScreenServe, ScreenFinish, ScreenChange, ScreenNotify
<1>4. CASE Receive
  BY <1>1, <1>4, ScreenReceive
<1>5. ASSUME NEW c \in Commands, Type(c) PROVE (Watched(k) /\ Told(k) /\ Followed(k))'
  <2>1. /\ pc = "prompt" /\ acked' \subseteq acked
        /\ UNCHANGED <<node, value, owed, wire, doing, observed, crossed, missed, known, flagged, hidden>>
    BY <1>5, TypeCases DEF Asks
  <2>2. \A i \in DOMAIN wire : wire[i].op # "OK"
    BY <2>1, IdleUnlessAwaiting DEF Awaiting, Idle, Responses
  <2>3. Promised(k)
    BY <2>1, <2>2 DEF Promised
  <2>4. QED
    BY <1>2, <2>1, <2>3, ScreenKept
<1>6. CASE BeginFrame \/ Timeout \/ ReceiveTorn \/ Disconnected \/ Exit
  <2>1. /\ UNCHANGED <<node, value, owed, wire, doing, observed, crossed, missed, known, flagged, hidden, acked>>
        /\ pc # "done" /\ UNCHANGED <<cmd, keyref>> /\ (pc' = pc \/ pc' = "prompt")
    BY <1>6, EndLeaves
  <2>2. Promised(k)
    BY <2>1 DEF Promised
  <2>3. QED
    BY <1>2, <2>1, <2>2, ScreenKept
<1>7. CASE UNCHANGED vars
  <2>1. /\ UNCHANGED <<node, value, owed, wire, doing, observed, crossed, missed, known, flagged, hidden>>
        /\ UNCHANGED <<pc, cmd, keyref, acked>>
    BY <1>7 DEF vars, nodeVars, clientVars, historyVars
  <2>2. Promised(k)
    BY <2>1 DEF Promised
  <2>3. QED
    BY <1>2, <2>1, <2>2, ScreenKept
<1>8. QED
  BY <1>3, <1>4, <1>5, <1>6, <1>7 DEF Next, NodeStep, ClientStep

\* At the prompt with nothing on its way, the screen is out of date about a
\* key that the user observes only after a `changed` line, or a `!` that a call
\* by name dropped (client.rs:460), or a node that overtook its own VALUE or
\* did not report the change.
THEOREM ScreenTells == Spec => []ScreenTellsOfChanges
<1>1. Init => ScreenInv
  BY DEF Init, ScreenInv, LeaveInv, Promised
<1>2. TypeInv /\ ScreenInv => ScreenTellsOfChanges
  <2> SUFFICES ASSUME TypeInv, ScreenInv, mode = "repl", pc = "prompt", Quiet,
                      NEW k \in acked, value[k] # known[k]
               PROVE  k \in flagged \cup hidden \cup crossed \cup missed
    BY DEF ScreenTellsOfChanges
  <2>1. k \in Keys
    BY DEF TypeInv, HistoryTypes
  <2>2. Told(k)
    BY <2>1 DEF ScreenInv, Promised
  <2>3. ~Coming(k)
    BY <2>1, MadeFrames DEF Quiet, Coming
  <2>4. QED BY <2>2, <2>3 DEF Told
<1>3. QED
  BY <1>1, <1>2, ScreenStep, TypeInvariance, PTL DEF Spec
=============================================================================
