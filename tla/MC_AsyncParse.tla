---------------------------- MODULE MC_AsyncParse ----------------------------
(***************************************************************************)
(* Small sets of parses of one IdolPlParser for model-checking.            *)
(***************************************************************************)
EXTENDS AsyncParseKeeps

CONSTANTS o1, t1, m1, http

OneAsync  == {o1}
OneThread == {t1}
OneMain   == {m1}
NoOp      == {}

MCScheme   == {http}
MCSchemeOf == [o \in Op |-> http]
MCSignals  == [o \in Op |-> IF o = o1 THEN 2 ELSE 1]

=============================================================================
