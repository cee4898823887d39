-------------------------- MODULE MCEmbassyServer --------------------------
(***************************************************************************)
(* Instances of EmbassyServer for TLC: a registry of two slots, keyref 0   *)
(* readable, writable and observable, keyref 2 observable only, and the    *)
(* void keyref 1 between them.                                             *)
(***************************************************************************)
EXTENDS EmbassyServerRefinement

MCKeyref == <<0, 2>>
MCReadable == {1}
MCWritable == {1}
MCObservable == {1, 2}

R(o, k) == [op |-> o, keyref |-> k, fits |-> TRUE]

\* Requests that concern the observation of keyref 0.
ObserveRequests ==
  {R("observe", 0), R("unobserve", 0), R("get", 0), R("write", 0)}

\* One request for each kind of answer of handle_request.
AllRequests ==
  {R("ping", 0), R("getkey", 1), R("get", 0), R("get", 1), R("write", 0),
   [R("write", 0) EXCEPT !.fits = FALSE], R("observe", 0), R("unobserve", 0),
   R("unobserve", 1), R("unobserve", 3)}
=============================================================================
