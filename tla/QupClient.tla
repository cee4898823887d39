------------------------------ MODULE QupClient ------------------------------
(***************************************************************************)
(* The host-side client, crates/qup/src/client.rs, as the command line     *)
(* tool drives it (crates/qup-test-cli/src/main.rs): the REPL, whose       *)
(* commands take a keyref or a name, and follow mode.  At the other end of *)
(* the connection is either node of the repository, as far as a client can *)
(* tell them apart:                                                        *)
(*   "embassy"  one task reads a value and sends it, and reports a change  *)
(*              between two requests (EmbassyServer);                      *)
(*   "tokio"    a change is reported by the task that made it, also        *)
(*              between the reading of a value and its response, or between*)
(*              the `k` of OBSERVE and the setting of the mask (TestNode). *)
(*                                                                         *)
(* The value of a key is the number of stores to it.                       *)
(***************************************************************************)
EXTENDS Integers, Sequences, FiniteSets

CONSTANTS
  Keytab,       \* the node's keys: a sequence of [name, flags], flags a subset of Flags
  Names, Refs,  \* names and keyrefs the user may type
  MaxChanges,   \* bound: stores made in the node by others
  MaxCommands   \* bound: commands typed by the user

Flags == {"R", "W", "N"}
Keys  == 1 .. Len(Keytab)
NoKey == 0                      \* also a keyref that the user may type but no key has

ASSUME QupClientAssumption ==
  /\ Keytab \in Seq([name : Names, flags : SUBSET Flags]) /\ Keytab # <<>>
  /\ Refs \subseteq 0 .. Len(Keytab) /\ NoKey \in Refs
  /\ MaxChanges \in Nat /\ MaxCommands \in Nat

VARIABLES
  node,       \* which node is at the other end
  value, observed,
  owed,       \* for each key, changes that are still to be reported
  asked,      \* the request on its way to the node
  doing,      \* the tokio node's half-done request: a value loaded, a mask to set
  wire,       \* frames on their way to the client
  changes,    \* count, for the bound
  mode,       \* "repl" or "follow"
  pc,         \* where execute_command or run_follow_mode stands
  cmd,        \* the command: its verb, and its key by keyref or by name
  keyref,     \* the keyref the command has resolved to
  fetched,    \* KEY responses that list_keys has collected
  begun,      \* next_message has read a part of the first frame on the wire
  error,      \* the error that ended the program
  commands,   \* count, for the bound
  acked,      \* history: keys the user was told are observed
  known,      \* history: the value of each key that the user goes by
  flagged,    \* history: keys with a `!` printed since
  hidden,     \* history: keys with a `!` dropped by a call of the library since
  crossed,    \* history: keys whose VALUE was overtaken by the `!` of a newer value
  missed,     \* history: keys with a change that no `!` reports: it fell between
              \* `k` and the mask, or a second OBSERVE took it as seen
  torn        \* history: a read was cancelled inside a frame

nodeVars    == <<value, observed, owed, asked, doing, wire, changes>>
clientVars  == <<pc, cmd, keyref, fetched, begun, error, commands>>
historyVars == <<acked, known, flagged, hidden, crossed, missed, torn>>
vars == <<node, mode, nodeVars, clientVars, historyVars>>

NoReq == [op |-> "none", key |-> NoKey]
Frame(o, k, v) == [op |-> o, key |-> k, value |-> v]
Nothing == Frame("none", NoKey, 0)
Send(f) == wire' = Append(wire, f)

-----------------------------------------------------------------------------
(* The node.                                                               *)

\* The flag that a request needs; UNOBSERVE and GETKEY need none.
Needs(op) == CASE op = "get" -> {"R"} [] op = "write" -> {"W"}
               [] op = "observe" -> {"N"} [] OTHER -> {}

Granted(r) ==
  \/ r.op \in {"ping", "keytab"}
  \/ r.key \in Keys /\ Needs(r.op) \subseteq Keytab[r.key].flags

\* A store owes the connection a `!`: the embassy server compares
\* generations of observed keys, the tokio node starts a broadcast of an
\* observable key.
Owe(k) ==
  owed' = [owed EXCEPT ![k] =
             CASE node = "embassy" -> IF k \in observed THEN 1 ELSE 0
               [] node = "tokio"   -> IF "N" \in Keytab[k].flags THEN @ + 1 ELSE 0]

\* Someone else stores a key; of keys that can be neither read nor observed
\* the client cannot tell.
Change(k) ==
  /\ {"R", "N"} \cap Keytab[k].flags # {}
  /\ changes < MaxChanges /\ changes' = changes + 1
  /\ value' = [value EXCEPT ![k] = @ + 1]
  /\ Owe(k)
  /\ UNCHANGED <<node, mode, observed, asked, doing, wire, clientVars, historyVars>>

\* A broadcast reads the mask when it comes to the connection.
Notify(k) ==
  /\ owed[k] > 0 /\ owed' = [owed EXCEPT ![k] = @ - 1]
  /\ IF k \in observed
       THEN Send(Frame("CHANGED", k, 0)) /\ missed' = missed \ {k}
       ELSE UNCHANGED wire /\ missed' = IF doing = Frame("mask", k, 0) THEN missed \cup {k}
                                         ELSE missed
  /\ UNCHANGED <<node, mode, value, observed, asked, doing, changes, clientVars,
                 acked, known, flagged, hidden, crossed, torn>>

\* Mutant: a request that is refused gets no response.
RefuseSilently ==
  /\ ~Granted(asked)
  /\ UNCHANGED <<value, observed, owed, doing, wire>>

Refuse ==
  /\ ~Granted(asked)
  /\ Send(Frame("ERROR", asked.key, 0))
  /\ UNCHANGED <<value, observed, owed, doing>>

\* Requests that are answered from constants.
AnswerConstant ==
  /\ Granted(asked) /\ asked.op \in {"ping", "keytab", "key"}
  /\ Send(Frame(CASE asked.op = "ping" -> "OK" [] asked.op = "keytab" -> "KEYTABLEN"
                  [] OTHER -> "KEY", asked.key, 0))
  /\ UNCHANGED <<value, observed, owed, doing>>

\* Mutant: the embassy server too lets notifications in between the two.
AnswerGetInTwoSteps ==
  /\ Granted(asked) /\ asked.op = "get"
  /\ doing' = Frame("VALUE", asked.key, value[asked.key])
  /\ UNCHANGED <<value, observed, owed, wire>>

AnswerGet ==
  /\ Granted(asked) /\ asked.op = "get"
  /\ LET f == Frame("VALUE", asked.key, value[asked.key]) IN
     IF node = "tokio" THEN doing' = f /\ UNCHANGED wire ELSE Send(f) /\ UNCHANGED doing
  /\ UNCHANGED <<value, observed, owed>>

\* The `!` of a write follows its `w` in both nodes.
AnswerWrite ==
  /\ Granted(asked) /\ asked.op = "write"
  /\ value' = [value EXCEPT ![asked.key] = @ + 1]
  /\ LET f == Frame("WRITTEN", asked.key, value'[asked.key]) IN
     IF node = "tokio" THEN doing' = f /\ UNCHANGED <<wire, owed>>
                       ELSE Send(f) /\ Owe(asked.key) /\ UNCHANGED doing
  /\ UNCHANGED observed

\* The tokio node sets the mask after `k`; the embassy server takes the key's
\* generation as seen.
AnswerObserve ==
  /\ Granted(asked) /\ asked.op = "observe"
  /\ Send(Frame("OK", asked.key, 0))
  /\ IF node = "tokio"
       THEN doing' = Frame("mask", asked.key, 0) /\ UNCHANGED <<observed, owed>>
       ELSE /\ observed' = observed \cup {asked.key}
            /\ owed' = [owed EXCEPT ![asked.key] = 0]
            /\ UNCHANGED doing
  /\ UNCHANGED value

AnswerUnobserve ==
  /\ Granted(asked) /\ asked.op = "unobserve"
  /\ observed' = observed \ {asked.key}
  /\ owed' = IF node = "tokio" THEN owed ELSE [owed EXCEPT ![asked.key] = 0]
  /\ Send(Frame("OK", asked.key, 0))
  /\ UNCHANGED <<value, doing>>

\* The user goes by the value a key has when it is first observed: each later
\* one should be reported.
Serve ==
  /\ asked # NoReq /\ doing = Nothing
  /\ asked' = NoReq
  /\ \/ Refuse \/ AnswerConstant \/ AnswerGet \/ AnswerWrite \/ AnswerObserve
     \/ AnswerUnobserve
  /\ LET k == asked.key  observes == asked.op = "observe" /\ Granted(asked) IN
     /\ known' = IF observes /\ k \notin acked THEN [known EXCEPT ![k] = value[k]] ELSE known
     /\ missed' = IF observes /\ owed'[k] < owed[k] THEN missed \cup {k} ELSE missed
  /\ UNCHANGED <<node, mode, changes, clientVars, acked, flagged, hidden, crossed, torn>>

\* The tokio node sends what it has loaded, or sets the mask after `k`.
FinishRequest ==
  /\ doing # Nothing /\ doing' = Nothing
  /\ \/ /\ doing.op = "mask" /\ observed' = observed \cup {doing.key}
        /\ UNCHANGED <<wire, owed, crossed>>
     \/ /\ doing.op = "VALUE" /\ Send(doing)
        /\ crossed' = IF doing.value # value[doing.key] /\ owed[doing.key] = 0
                      THEN crossed \cup {doing.key} ELSE crossed \ {doing.key}
        /\ UNCHANGED <<observed, owed>>
     \/ /\ doing.op = "WRITTEN" /\ Send(doing) /\ Owe(doing.key)
        /\ UNCHANGED <<observed, crossed>>
  /\ UNCHANGED <<node, mode, value, asked, changes, clientVars, acked, known, flagged,
                 hidden, missed, torn>>

-----------------------------------------------------------------------------
(* The client: its library's calls, and the program's use of them.         *)

ClientUnchanged == UNCHANGED <<node, mode, value, observed, owed, doing, changes>>

Ask(op, k) == asked' = [op |-> op, key |-> k]

\* A selector of a command: a keyref, or a name.
Selectors == [byName : {FALSE}, ref : Refs, name : {"-"}]
             \cup [byName : {TRUE}, ref : {NoKey}, name : Names]
NoSelector == [byName |-> FALSE, ref |-> NoKey, name |-> "-"]

KeyVerbs == {"get", "write", "misvalue", "observe", "unobserve", "key"}
Commands == [verb : KeyVerbs, sel : Selectors]
            \cup [verb : {"ping", "keycount", "listkeys", "read", "readtimed"}, sel : {NoSelector}]

\* The keys with the name.
Matches(name) == {k \in Keys : Keytab[k].name = name}

End(e) == pc' = "done" /\ error' = e

\* The request of a command whose keyref is known, if its arguments can be
\* parsed; "misvalue" is a WRITE with a value that cannot.
AskVerb(verb, k) ==
  /\ keyref' = k
  /\ IF verb = "misvalue"
       THEN End("invalid value") /\ UNCHANGED asked
       ELSE pc' = "reply" /\ Ask(verb, k) /\ UNCHANGED error
  /\ acked' = IF verb = "unobserve" THEN acked \ {k} ELSE acked

\* The user types a command; a name is resolved by list_keys first.
Type(c) ==
  /\ pc = "prompt" /\ commands < MaxCommands /\ commands' = commands + 1
  /\ cmd' = c /\ fetched' = 0
  /\ \/ c.verb = "ping" /\ AskVerb("ping", NoKey)
     \/ c.verb \in KeyVerbs /\ ~c.sel.byName /\ AskVerb(c.verb, c.sel.ref)
     \/ /\ c.verb \in {"keycount", "listkeys"} \/ c.sel.byName
        /\ Ask("keytab", NoKey) /\ keyref' = NoKey /\ pc' = "keytab"
        /\ UNCHANGED <<error, acked>>
     \/ /\ c.verb \in {"read", "readtimed"}
        /\ pc' = c.verb /\ keyref' = NoKey
        /\ UNCHANGED <<asked, error, acked>>
  /\ UNCHANGED <<wire, begun, known, flagged, hidden, crossed, missed, torn>>
  /\ ClientUnchanged

Exit ==
  /\ pc = "prompt" /\ End("exit")
  /\ UNCHANGED <<asked, wire, cmd, keyref, fetched, begun, commands, historyVars>>
  /\ ClientUnchanged

\* The program ends on an error, and with it all it knows of the keys.
Fail(e) ==
  /\ End(e)
  /\ UNCHANGED <<asked, keyref, fetched, acked, known, flagged, hidden>>

\* A key's `!` is shown to the user, or dropped inside a call of the library.
Shown(k) == flagged' = flagged \cup {k} /\ UNCHANGED hidden
Dropped(k) == hidden' = hidden \cup {k} /\ UNCHANGED flagged

\* read_request_response of the library drops `!`; the tool's own prints them.
InLibrary == pc \in {"keytab", "key"} \/ cmd.verb = "key" \/ mode = "follow"

\* Mutant: the tool's read_request_response drops `!` too.
AllDropped(k) ==
  /\ IF InLibrary THEN Dropped(k) ELSE UNCHANGED <<flagged, hidden>>
  /\ UNCHANGED <<asked, pc, keyref, fetched, error, acked, known>>

\* Mutant: the library returns a `!` as the response.
NotSkipped(k) ==
  IF InLibrary THEN Fail("unexpected message")
  ELSE Shown(k) /\ UNCHANGED <<asked, pc, keyref, fetched, error, acked, known>>

SkipChanged(k) ==
  /\ IF InLibrary THEN Dropped(k) ELSE Shown(k)
  /\ UNCHANGED <<asked, pc, keyref, fetched, error, acked, known>>

\* What follow mode asks of its key.
Followable(k) == {"R", "N"} \subseteq Keytab[k].flags

\* The name is resolved, or the table listed, once list_keys has every key.
Resolved ==
  \/ /\ cmd.verb = "listkeys"
     /\ pc' = "prompt" /\ UNCHANGED <<asked, keyref, error, acked>>
  \/ /\ cmd.verb # "listkeys" /\ Cardinality(Matches(cmd.sel.name)) # 1
     /\ End("no key, or several, of that name") /\ UNCHANGED <<asked, keyref, acked>>
  \/ \E k \in Keys :
       /\ cmd.verb # "listkeys" /\ Matches(cmd.sel.name) = {k}
       /\ IF mode = "follow" /\ ~Followable(k)
            THEN End("not readable and observable") /\ UNCHANGED <<asked, keyref, acked>>
            ELSE AskVerb(cmd.verb, k)

\* key_count, and the loop of list_keys.
OnKeytab ==
  /\ IF cmd.verb = "keycount" THEN pc' = "prompt" /\ UNCHANGED asked
                              ELSE pc' = "key" /\ Ask("key", 1)
  /\ UNCHANGED <<keyref, fetched, error, acked, known, flagged, hidden>>

\* Mutant: the loop runs through the count.
OnKeyThroughCount ==
  /\ fetched' = fetched + 1
  /\ IF fetched' <= Len(Keytab)
       THEN Ask("key", fetched' + 1) /\ UNCHANGED <<pc, keyref, error, acked>>
       ELSE Resolved
  /\ UNCHANGED <<known, flagged, hidden>>

OnKey ==
  /\ fetched' = fetched + 1
  /\ IF fetched' < Len(Keytab)
       THEN Ask("key", fetched' + 1) /\ UNCHANGED <<pc, keyref, error, acked>>
       ELSE Resolved
  /\ UNCHANGED <<known, flagged, hidden>>

\* A value is printed: the user goes by it.
ShowValue(f) ==
  /\ known' = [known EXCEPT ![f.key] = f.value]
  /\ flagged' = flagged \ {f.key} /\ hidden' = hidden \ {f.key}

Opcode(verb) == CASE verb \in {"ping", "observe", "unobserve"} -> "OK"
                  [] verb = "get" -> "VALUE" [] verb = "write" -> "WRITTEN"
                  [] verb = "key" -> "KEY"

\* The response of the command's request: the REPL prints it, an error too
\* unless the call was the library's; follow mode waits for the next `!`.
OnReply(f) ==
  IF f.op \notin {Opcode(cmd.verb), "ERROR"} THEN Fail("unexpected message")
  ELSE IF f.op = "ERROR" /\ InLibrary THEN Fail("request error")
  ELSE /\ pc' = IF mode = "follow" THEN "follow" ELSE "prompt"
       /\ IF f.op \in {"VALUE", "WRITTEN"} THEN ShowValue(f) ELSE UNCHANGED <<known, flagged, hidden>>
       /\ acked' = IF f.op = "OK" /\ cmd.verb = "observe" THEN acked \cup {keyref} ELSE acked
       /\ UNCHANGED <<asked, keyref, fetched, error>>

\* A response while a request is awaited in list_keys or by the command.
OnResponse(f) ==
  CASE f.op = "CHANGED" -> SkipChanged(f.key)
    [] f.op = "KEYTABLEN" /\ pc = "keytab" -> OnKeytab
    [] f.op = "KEY" /\ pc = "key" -> OnKey
    [] OTHER -> IF pc = "reply" THEN OnReply(f)
                ELSE Fail(IF f.op = "ERROR" THEN "request error" ELSE "unexpected message")

\* run_follow_mode between two values.
OnFollow(f) ==
  IF f.op # "CHANGED" THEN Fail("unexpected message")
  ELSE /\ IF f.key = keyref THEN pc' = "reply" /\ Ask("get", keyref)
                            ELSE UNCHANGED <<pc, asked>>
       /\ UNCHANGED <<keyref, fetched, error, acked, known, flagged, hidden>>

\* The command `read` prints what comes.
OnRead(f) ==
  /\ IF f.op = "CHANGED" THEN Shown(f.key) ELSE UNCHANGED <<flagged, hidden>>
  /\ pc' = "prompt"
  /\ UNCHANGED <<asked, keyref, fetched, error, acked, known>>

Reading == {"keytab", "key", "reply", "follow", "read", "readtimed"}

\* next_message: the header, then the rest; a read that no timeout can
\* cancel is one step.
BeginFrame ==
  /\ pc = "readtimed" /\ ~torn /\ ~begun /\ wire # <<>>
  /\ begun' = TRUE
  /\ UNCHANGED <<asked, wire, pc, cmd, keyref, fetched, error, commands, historyVars>>
  /\ ClientUnchanged

Receive ==
  /\ pc \in Reading /\ ~torn /\ wire # <<>> /\ (pc = "readtimed" => begun)
  /\ begun' = FALSE
  /\ wire' = Tail(wire)
  /\ LET f == Head(wire) IN
     CASE pc = "follow" -> OnFollow(f)
       [] pc \in {"read", "readtimed"} -> OnRead(f)
       [] OTHER -> OnResponse(f)
  /\ cmd' = IF mode = "follow" /\ pc = "follow" THEN [cmd EXCEPT !.verb = "get"] ELSE cmd
  /\ UNCHANGED <<commands, crossed, missed, torn>>
  /\ ClientUnchanged

\* next_message_timeout: the elapsed timeout drops next_message with the
\* bytes it has read.
Timeout ==
  /\ pc = "readtimed" /\ pc' = "prompt"
  /\ torn' = (torn \/ begun) /\ begun' = FALSE
  /\ UNCHANGED <<asked, wire, cmd, keyref, fetched, error, commands, acked, known, flagged,
                 hidden, crossed, missed>>
  /\ ClientUnchanged

\* From the middle of a frame on, the stream is refused sooner or later, or a
\* read waits for bytes that do not come; that it may also be taken for
\* frames is left out.
ReceiveTorn ==
  /\ pc \in Reading /\ torn
  /\ Fail("protocol error")
  /\ UNCHANGED <<wire, cmd, begun, commands, crossed, missed, torn>>
  /\ ClientUnchanged

\* The transport ends in the middle of a read.
Disconnected ==
  /\ pc \in Reading
  /\ Fail("i/o error")
  /\ UNCHANGED <<wire, cmd, begun, commands, crossed, missed, torn>>
  /\ ClientUnchanged

-----------------------------------------------------------------------------
\* Follow mode starts with list_keys; its first request is OBSERVE.
Init ==
  /\ node \in {"embassy", "tokio"} /\ mode \in {"repl", "follow"}
  /\ value = [k \in Keys |-> 0] /\ observed = {}
  /\ owed = [k \in Keys |-> 0] /\ doing = Nothing /\ wire = <<>> /\ changes = 0
  /\ IF mode = "repl"
       THEN pc = "prompt" /\ asked = NoReq /\ cmd = [verb |-> "ping", sel |-> NoSelector]
       ELSE /\ pc = "keytab" /\ asked = [op |-> "keytab", key |-> NoKey]
            /\ cmd \in {[verb |-> "observe", sel |-> sel] :
                           sel \in {sel \in Selectors : sel.byName}}
  /\ keyref = NoKey /\ fetched = 0 /\ begun = FALSE /\ error = "none" /\ commands = 0
  /\ acked = {} /\ known = [k \in Keys |-> 0] /\ flagged = {} /\ hidden = {}
  /\ crossed = {} /\ missed = {} /\ torn = FALSE

NodeStep   == Serve \/ FinishRequest \/ \E k \in Keys : Notify(k)
ClientStep == BeginFrame \/ Receive

Next ==
  \/ \E k \in Keys : Change(k)
  \/ NodeStep \/ ClientStep \/ Timeout \/ ReceiveTorn \/ Disconnected \/ Exit
  \/ \E c \in Commands : Type(c)

\* The node serves and reports as long as it runs, and a read that can go on
\* does; nothing makes the user type, a timeout elapse or the transport fail.
Spec == Init /\ [][Next]_vars /\ WF_vars(NodeStep) /\ WF_vars(ClientStep)

-----------------------------------------------------------------------------
(* Properties.                                                             *)

Errors == {"none", "exit", "invalid value", "no key, or several, of that name", "not readable and observable",
           "unexpected message", "request error", "protocol error", "i/o error"}
FrameOps == {"none", "mask", "OK", "ERROR", "KEYTABLEN", "KEY", "VALUE", "WRITTEN", "CHANGED"}
FramesOf == [op : FrameOps, key : 0 .. Len(Keytab), value : Nat]

\* Every variable has the type of what it models.
TypeOK ==
  /\ node \in {"embassy", "tokio"} /\ mode \in {"repl", "follow"}
  /\ value \in [Keys -> Nat] /\ observed \subseteq Keys /\ owed \in [Keys -> Nat]
  /\ asked \in [op : KeyVerbs \cup {"none", "ping", "keytab"}, key : 0 .. Len(Keytab)]
  /\ doing \in FramesOf /\ wire \in Seq(FramesOf)
  /\ changes \in 0 .. MaxChanges /\ commands \in 0 .. MaxCommands
  /\ pc \in Reading \cup {"prompt", "done"}
  /\ cmd \in Commands /\ keyref \in 0 .. Len(Keytab) /\ fetched \in 0 .. Len(Keytab)
  /\ begun \in BOOLEAN /\ error \in Errors
  /\ acked \subseteq Keys /\ known \in [Keys -> Nat] /\ flagged \subseteq Keys
  /\ hidden \subseteq Keys /\ crossed \subseteq Keys /\ missed \subseteq Keys
  /\ torn \in BOOLEAN

\* A session ends only for a reason the user can see in the command: with
\* notifications between any two responses the client never meets a message
\* it did not ask for, loses its place in the stream only after a timed read
\* was cancelled inside a frame, and follow mode, which checks the flags of
\* its key first, never has a request refused (client.rs:243-308, 445-468).
EndsForAReason ==
  /\ error # "unexpected message"
  /\ error = "protocol error" => torn
  /\ mode = "follow" => error # "request error"

Quiet ==
  /\ asked = NoReq /\ doing = Nothing /\ wire = <<>>
  /\ \A k \in Keys : owed[k] = 0

\* At the prompt with nothing on its way, a key that the user observes either
\* has the value the user goes by, or a `changed` line was printed since; a
\* command by name may have dropped that `!` (client.rs:460), or the node
\* overtook its own VALUE or did not report the change.
ScreenTellsOfChanges ==
  mode = "repl" /\ pc = "prompt" /\ Quiet /\ ~torn =>
    \A k \in acked : value[k] # known[k] => k \in flagged \cup hidden \cup crossed \cup missed

\* Follow mode prints the last value of its key, although the `!` that come
\* while it awaits a value are dropped: against the embassy server always,
\* against the tokio node unless the VALUE was overtaken by the `!` of a
\* newer value or the change fell between `k` and the mask (main.rs:180-202).
FollowCatchesUp ==
  <>[](mode = "follow" /\ pc # "done" /\ keyref \in acked =>
         \/ value[keyref] = known[keyref]
         \/ node = "tokio" /\ keyref \in crossed \cup missed)

\* Every request of the client is answered, and every command returns, as
\* long as the stream is in step.
CommandsReturn ==
  (pc \in {"keytab", "key", "reply"} /\ ~torn) ~> (pc \in {"prompt", "follow", "done"})
=============================================================================
