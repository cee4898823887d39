---------------------------- MODULE MCQupClient ----------------------------
(***************************************************************************)
(* Instances of QupClient for TLC: a key with every flag, one that can be  *)
(* written only, and two without flags that share a name.                  *)
(***************************************************************************)
EXTENDS QupClient

Key(name, flags) == [name |-> name, flags |-> flags]
MCKeytab == <<Key("a", {"R", "W", "N"}), Key("b", {"W"}), Key("c", {}), Key("c", {})>>
=============================================================================
