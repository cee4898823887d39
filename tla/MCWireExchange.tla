-------------------------- MODULE MCWireExchange ---------------------------
(***************************************************************************)
(* A small registry of each node, and calls around the limits of its keys  *)
(* and of u16, here 24; the frames for the streaming reader are those of   *)
(* MCRequestReader.                                                        *)
(***************************************************************************)
EXTENDS WireExchange, MCRequestReader

As(n) == [i \in 1 .. n |-> 65]
Key(k, n, fs, t) == [keyref |-> k, name |-> n, flags |-> fs, type |-> t]
RWN == {"R", "W", "N"}

MCTable ==
  [embassy |-> <<Key(0, As(1), {"R", "W"}, <<"bool">>), Key(1, As(2), RWN, <<"i64">>),
                 Key(2, <<>>, RWN, <<"str", 1>>), Key(4, As(3), {"R", "W"}, <<"enum", {As(1), As(2)}>>),
                 Key(5, As(21), {"W"}, <<"str", 2>>), Key(6, As(22), {}, <<"bool">>),
                 Key(24, As(1), RWN, <<"i64">>)>>,
   tokio   |-> <<Key(0, As(1), {"R", "N"}, <<"i64">>), Key(1, As(2), {"R", "W"}, <<"u64">>),
                 Key(2, As(3), RWN, <<"str", 24>>), Key(3, As(4), RWN, <<"str", 2>>),
                 Key(4, As(5), RWN, <<"never">>), Key(5, As(6), {}, <<"never">>),
                 Key(6, As(7), {"W"}, <<"u64">>)>>,
   foreign |-> <<>>]

MCStores ==
  [embassy |-> {<<<<"bool", b>>, <<"i64", n>>, <<"str", t>>, <<"str", As(2)>>, <<"str", <<>>>>,
                  <<"bool", FALSE>>, <<"i64", 0>>>> :
                  b \in BOOLEAN, n \in {-2, 300}, t \in {<<>>, <<0>>}},
   tokio   |-> {<<<<"i64", n>>, <<"i64", 7>>, <<"str", As(4)>>, <<"str", <<>>>>, <<"str", <<>>>>,
                  <<"none">>, <<"i64", 0>>>> : n \in {-20, 270}}]

MCNodeIds == [embassy |-> {<<>>, As(22), As(23)}, tokio |-> {As(3)}]

MCValues ==
  {<<"bool", b>> : b \in BOOLEAN} \cup {<<"i64", n>> : n \in {-32768, -1, 0, 300}}
  \cup {<<"str", t>> : t \in {<<>>, <<65, 0>>, <<194, 144>>, <<225, 144, 144, 65>>}
                            \cup {As(n) : n \in {1, 2, 3, 19, 20, 25}}}

Refs == {0, 1, 2, 3, 4, 5, 6, 7, 23, 24}
MCCalls ==
  [op : EmptyOps, keyref : {0}, value : {NoValue}]
  \cup [op : KeyrefOps, keyref : Refs, value : {NoValue}]
  \cup [op : {"W"}, keyref : Refs, value : MCValues]

MCCapsTexts == Upto({33, 80, 90, 107, 122}, 5) \cup {<<63, 107>>, <<64, 107>>, <<80, 200>>}
=============================================================================
