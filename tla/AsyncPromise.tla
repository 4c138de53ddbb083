---------------------------- MODULE AsyncPromise ----------------------------
(***************************************************************************)
(* What a parse promises the program that asked for it, without threads,   *)
(* main loop or reference counts: its signals arrive one by one, in order, *)
(* and then, once, its outcome; nothing arrives after the outcome.         *)
(***************************************************************************)
EXTENDS Naturals, Sequences

CONSTANTS
  Op,       \* the parses that may be asked for
  Signals   \* how many signals each of them emits when it is carried out

VARIABLES
  asked,    \* the parses that have been asked for
  heard,    \* the signals of each parse that have arrived, in order
  outcome   \* what became of each parse, "pending" until that is known

vars == <<asked, heard, outcome>>

Init == /\ asked = {}
        /\ heard = [o \in Op |-> <<>>]
        /\ outcome = [o \in Op |-> "pending"]

Ask(o) == /\ o \notin asked
          /\ asked' = asked \cup {o}
          /\ UNCHANGED <<heard, outcome>>

Open(o) == o \in asked /\ outcome[o] = "pending"

Hear(o) == /\ Open(o)
           /\ Len(heard[o]) < Signals[o]
           /\ heard' = [heard EXCEPT ![o] = Append(@, Len(@) + 1)]
           /\ UNCHANGED <<asked, outcome>>

Finish(o) ==
  /\ Open(o)
  /\ \/ Len(heard[o]) = Signals[o] /\ outcome' = [outcome EXCEPT ![o] = "PARSED"]
     \/ /\ heard[o] = <<>>
        /\ \E r \in {"UNHANDLED", "CANCELLED"} : outcome' = [outcome EXCEPT ![o] = r]
  /\ UNCHANGED <<asked, heard>>

Next == \E o \in Op : Ask(o) \/ Hear(o) \/ Finish(o)

\* Whoever asks gets an answer.
Spec == Init /\ [][Next]_vars /\ \A o \in Op : WF_vars(Hear(o) \/ Finish(o))

=============================================================================
