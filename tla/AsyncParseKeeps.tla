--------------------------- MODULE AsyncParseKeeps ---------------------------
(***************************************************************************)
(* AsyncParse implements AsyncPromise, as seen by the listeners of an      *)
(* asynchronous parse: it is over when its callback has run.               *)
(***************************************************************************)
EXTENDS AsyncParse

Promise == INSTANCE AsyncPromise WITH
  Op      <- AsyncOp,
  Signals <- [o \in AsyncOp |-> Signals[o]],
  asked   <- {o \in AsyncOp : at[o] # "new"},
  heard   <- [o \in AsyncOp |-> heard[o]],
  outcome <- [o \in AsyncOp |-> IF at[o] = "done" THEN result[o] ELSE "pending"]

\* The callback of an asynchronous parse runs, once, after all its signals,
\* which have arrived in order ("Fix out-of-order signals when using async API").
KeepsPromise == Promise!Spec

=============================================================================
