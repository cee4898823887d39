-------------------------- MODULE MCRequestReader --------------------------
(***************************************************************************)
(* Frames for TLC: every short payload over a few bytes, and WRITEs of     *)
(* strings of up to five bytes whose declared length is right or off by    *)
(* one, with characters of one to four bytes cut by the chunks (144 goes   *)
(* on after each of the lead bytes 194, 225 and 241).                      *)
(***************************************************************************)
EXTENDS RequestReader

Text   == {0, 65, 194, 225, 241, 144}
Upto(S, n) == UNION {[1 .. m -> S] : m \in 0 .. n}
Short  == Upto(0 .. 4, 5)
StrWrites ==
  {<<0, 1, 3, 0, Len(t) + d>> \o t : t \in Upto(Text, 5), d \in 0 .. 1}
  \cup {<<0, 1, 3, 0, Len(t) - 1>> \o t : t \in Upto(Text, 5) \ {<<>>}}

Frame(o, p, ok) == [op |-> o, payload |-> p, sumOk |-> ok]
MCFrames ==
  {Frame(o, p, ok) : o \in {"P", "G", "W"}, p \in Upto(0 .. 3, 4), ok \in BOOLEAN}
  \cup {Frame("W", p, TRUE) : p \in Short}
  \cup {Frame("W", p, TRUE) : p \in StrWrites}
  \cup {Frame(o, <<>>, TRUE) : o \in {"k", "A", "#"}}
=============================================================================
