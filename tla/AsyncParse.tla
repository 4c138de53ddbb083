----------------------------- MODULE AsyncParse -----------------------------
(***************************************************************************)
(* One IdolPlParser object shared by the thread that created it, which     *)
(* runs the main loop, by the worker threads GSimpleAsyncResult starts for *)
(* idol_pl_parser_parse_with_base_async(), and by application threads that *)
(* call idol_pl_parser_parse() themselves.                                 *)
(*                                                                         *)
(* A parse is reduced to what the threads share: the ignore lists under    *)
(* ignore_mutex, the options it copies, and the signals it emits, which    *)
(* CALL_ASYNC emits at once in the main thread and queues as sources of    *)
(* the main loop in any other.  PlParse has what happens in between.       *)
(***************************************************************************)
EXTENDS Integers, Sequences, FiniteSets

CONSTANTS
  AsyncOp,   \* parses started with idol_pl_parser_parse_with_base_async()
  ThreadOp,  \* calls of idol_pl_parser_parse() in threads of the application
  MainOp,    \* calls of idol_pl_parser_parse() in the main thread
  Signals,   \* how many signals each of them emits
  Scheme,    \* the URI schemes
  SchemeOf,  \* the scheme of each location that is parsed
  PoolSize,  \* how many workers run at once
  SetMax     \* how often the application sets a property

Op == AsyncOp \cup ThreadOp \cup MainOp

ASSUME OpAssumption      == /\ IsFiniteSet(Op)
                            /\ AsyncOp \cap ThreadOp = {}
                            /\ (AsyncOp \cup ThreadOp) \cap MainOp = {}
ASSUME SignalsAssumption == Signals \in [Op -> Nat]
ASSUME SchemeAssumption  == SchemeOf \in [Op -> Scheme]
ASSUME BoundsAssumption  == PoolSize \in Nat \ {0} /\ SetMax \in Nat
ASSUME NameAssumption    == Op \cap {"main", "none", "loop", "add"} = {}

Options == [recurse : BOOLEAN, force : BOOLEAN]

VARIABLES
  at,        \* where the code of each parse is
  busy,      \* what the main thread does: its loop, a parse, a change of a list
  mutex,     \* who holds ignore_mutex
  ignored,   \* ignore_schemes
  adding,    \* the scheme idol_pl_parser_add_ignored_scheme is called with
  options,   \* the properties of the object
  sets,      \* how often they were set
  copied,    \* the options each parse has copied
  emitted,   \* how many signals each parse has emitted
  sources,   \* the sources of the main loop, in the order they were attached
  refs,      \* the reference count of the object
  owned,     \* whether the application still holds its own reference
  cancelled, \* the cancellables that were triggered
  result,    \* the result of each parse
  heard,     \* history: the signals of each parse the listeners got
  stood,     \* history: the options in force while each parse copied them
  early      \* history: the parses cancelled or ignored before they started

config  == <<options, sets>>
copies  == <<copied, stood>>
ignores == <<ignored, adding>>
life    == <<refs, owned>>
vars == <<at, busy, mutex, ignores, config, copies, emitted, sources, life,
          cancelled, result, heard, early>>

-----------------------------------------------------------------------------
(***************************************************************************)
(* The main loop: sources of one priority are dispatched in the order they *)
(* were attached, and a lower number goes first.                           *)
(***************************************************************************)
\* Mutant: signals are emitted from sources of the default idle priority.
IdlePriority == 200
SignalPriority == 0      \* G_PRIORITY_DEFAULT, see CALL_ASYNC
CompletionPriority == 0  \* the priority given to g_simple_async_result_run_in_thread

Source(o, n, p) == [op |-> o, signal |-> n, priority |-> p]
SignalSource(o, n) == Source(o, n, SignalPriority)
CompletionSource(o) == Source(o, 0, CompletionPriority)

\* The position of the source the main loop dispatches next.
NextSource ==
  CHOOSE i \in DOMAIN sources :
    \A j \in DOMAIN sources :
      \/ sources[i].priority < sources[j].priority
      \/ sources[i].priority = sources[j].priority /\ i <= j

Without(i) == [j \in 1 .. Len(sources) - 1 |-> sources[IF j < i THEN j ELSE j + 1]]

-----------------------------------------------------------------------------
(***************************************************************************)
(* What the application does from its main loop: signal handlers, timers.  *)
(***************************************************************************)
Free == busy = "loop" /\ owned

\* The scheme was ignored before the parse was asked for.
Doomed(o) == IF SchemeOf[o] \in ignored THEN {o} ELSE {}

\* The GSimpleAsyncResult keeps a reference to the object.
ParseAsync(o) ==
  /\ Free
  /\ o \in AsyncOp /\ at[o] = "new"
  /\ at' = [at EXCEPT ![o] = "queued"]
  /\ refs' = refs + 1
  /\ early' = early \cup Doomed(o)
  /\ UNCHANGED <<busy, mutex, ignores, config, copies, emitted, sources, owned,
                 cancelled, result, heard>>

\* The thread holds a reference of its own while it parses.
ParseInThread(o) ==
  /\ Free
  /\ o \in ThreadOp /\ at[o] = "new"
  /\ at' = [at EXCEPT ![o] = "scheme"]
  /\ refs' = refs + 1
  /\ early' = early \cup Doomed(o)
  /\ UNCHANGED <<busy, mutex, ignores, config, copies, emitted, sources, owned,
                 cancelled, result, heard>>

ParseInMain(o) ==
  /\ Free
  /\ o \in MainOp /\ at[o] = "new"
  /\ at' = [at EXCEPT ![o] = "scheme"]
  /\ busy' = o
  /\ early' = early \cup Doomed(o)
  /\ UNCHANGED <<mutex, ignores, config, copies, emitted, sources, life,
                 cancelled, result, heard>>

Cancel(o) ==
  /\ busy = "loop"
  /\ o \in AsyncOp \ cancelled
  /\ at[o] \notin {"new", "done"}
  /\ cancelled' = cancelled \cup {o}
  /\ early' = IF at[o] = "queued" THEN early \cup {o} ELSE early
  /\ UNCHANGED <<at, busy, mutex, ignores, config, copies, emitted, sources, life,
                 result, heard>>

\* g_object_set: one property at a time, without a lock.
SetProperty ==
  /\ Free
  /\ sets < SetMax
  /\ \E p \in {"recurse", "force"} : options' = [options EXCEPT ![p] = ~@]
  /\ sets' = sets + 1
  /\ stood' = [o \in Op |-> IF at[o] = "copy force" THEN stood[o] \cup {options'} ELSE stood[o]]
  /\ UNCHANGED <<at, busy, mutex, ignores, copied, emitted, sources, life,
                 cancelled, result, heard, early>>

Unref ==
  /\ Free
  /\ owned' = FALSE
  /\ refs' = refs - 1
  /\ UNCHANGED <<at, busy, mutex, ignores, config, copies, emitted, sources,
                 cancelled, result, heard, early>>

AddIgnoredScheme(s) ==
  /\ Free
  /\ s \notin ignored
  /\ mutex = "none"
  /\ mutex' = "main"
  /\ busy' = "add"
  /\ adding' = s
  /\ UNCHANGED <<at, ignored, config, copies, emitted, sources, life, cancelled,
                 result, heard, early>>

SchemeAdded ==
  /\ busy = "add"
  /\ ignored' = ignored \cup {adding}
  /\ mutex' = "none"
  /\ busy' = "loop"
  /\ UNCHANGED <<at, adding, config, copies, emitted, sources, life, cancelled,
                 result, heard, early>>

Application ==
  \/ \E o \in Op : ParseAsync(o) \/ ParseInThread(o) \/ ParseInMain(o) \/ Cancel(o)
  \/ SetProperty \/ Unref \/ \E s \in Scheme : AddIgnoredScheme(s)

-----------------------------------------------------------------------------
(***************************************************************************)
(* The code of a parse, whichever thread runs it.                          *)
(***************************************************************************)
Goto(o, from, to) == at[o] = from /\ at' = [at EXCEPT ![o] = to]

Running == {o \in AsyncOp : at[o] \notin {"new", "queued", "attached", "done"}}

\* GIO starts the job when one of its threads is free.
StartWorker(o) ==
  /\ o \in AsyncOp
  /\ Cardinality(Running) < PoolSize
  /\ Goto(o, "queued", "start")
  /\ UNCHANGED <<busy, mutex, ignores, config, copies, emitted, sources, life,
                 cancelled, result, heard, early>>

\* Mutant: the cancellable is looked at when the parse is over.
ChecksLate(o) ==
  /\ Goto(o, "start", "scheme")
  /\ UNCHANGED <<busy, mutex, ignores, config, copies, emitted, sources, life,
                 cancelled, result, heard, early>>

\* parse_thread looks at the cancellable once.
CheckCancelled(o) ==
  /\ IF o \in cancelled
     THEN Goto(o, "start", "return") /\ result' = [result EXCEPT ![o] = "CANCELLED"]
     ELSE Goto(o, "start", "scheme") /\ UNCHANGED result
  /\ UNCHANGED <<busy, mutex, ignores, config, copies, emitted, sources, life,
                 cancelled, heard, early>>

\* scheme_is_ignored, and later mimetype_is_ignored, lock ignore_mutex ...
Lock(o) ==
  /\ \/ Goto(o, "scheme", "scheme locked")
     \/ Goto(o, "mimetype", "mimetype locked")
  /\ mutex = "none"
  /\ mutex' = o
  /\ UNCHANGED <<busy, ignores, config, copies, emitted, sources, life, cancelled,
                 result, heard, early>>

\* Mutant: the early return for an empty list forgets the mutex.
KeepsLock(o) ==
  /\ IF SchemeOf[o] \in ignored
     THEN /\ Goto(o, "scheme locked", "return")
          /\ result' = [result EXCEPT ![o] = "UNHANDLED"]
     ELSE Goto(o, "scheme locked", "copy recurse") /\ UNCHANGED result
  /\ mutex' = IF ignored = {} THEN mutex ELSE "none"
  /\ UNCHANGED <<busy, ignores, config, copies, emitted, sources, life, cancelled,
                 heard, early>>

\* ... and unlock it on every way out.
SchemeIsIgnored(o) ==
  /\ IF SchemeOf[o] \in ignored
     THEN /\ Goto(o, "scheme locked", "return")
          /\ result' = [result EXCEPT ![o] = "UNHANDLED"]
     ELSE Goto(o, "scheme locked", "copy recurse") /\ UNCHANGED result
  /\ mutex' = "none"
  /\ UNCHANGED <<busy, ignores, config, copies, emitted, sources, life, cancelled,
                 heard, early>>

MimetypeIsIgnored(o) ==
  /\ Goto(o, "mimetype locked", "parse")
  /\ mutex' = "none"
  /\ UNCHANGED <<busy, ignores, config, copies, emitted, sources, life, cancelled,
                 result, heard, early>>

\* Mutant: the copy of the last option is forgotten.
CopiesOnce(o) ==
  /\ \/ /\ Goto(o, "copy recurse", "copy force")
        /\ copied' = [copied EXCEPT ![o].recurse = options.recurse]
        /\ stood' = [stood EXCEPT ![o] = {options}]
     \/ Goto(o, "copy force", "mimetype") /\ UNCHANGED copies
  /\ UNCHANGED <<busy, mutex, ignores, config, emitted, sources, life, cancelled,
                 result, heard, early>>

\* The options are copied one after the other; nothing keeps the main thread
\* from setting a property in between.
CopyOption(o) ==
  /\ \/ /\ Goto(o, "copy recurse", "copy force")
        /\ copied' = [copied EXCEPT ![o].recurse = options.recurse]
        /\ stood' = [stood EXCEPT ![o] = {options}]
     \/ /\ Goto(o, "copy force", "mimetype")
        /\ copied' = [copied EXCEPT ![o].force = options.force]
        /\ UNCHANGED stood
  /\ UNCHANGED <<busy, mutex, ignores, config, emitted, sources, life, cancelled,
                 result, heard, early>>

\* Mutant: the signal data borrows the reference of the parse.
EmitsUnreferenced(o) ==
  LET n == emitted[o] + 1
  IN  /\ at[o] = "parse"
      /\ n <= Signals[o]
      /\ emitted' = [emitted EXCEPT ![o] = n]
      /\ IF o \in MainOp
         THEN /\ heard' = [heard EXCEPT ![o] = Append(@, n)]
              /\ UNCHANGED <<sources, refs>>
         ELSE /\ sources' = Append(sources, SignalSource(o, n))
              /\ UNCHANGED <<heard, refs>>
      /\ UNCHANGED <<at, busy, mutex, ignores, config, copies, owned, cancelled,
                     result, early>>

\* Mutant: signals are queued in the main thread as well.
EmitsQueued(o) ==
  LET n == emitted[o] + 1
  IN  /\ at[o] = "parse"
      /\ n <= Signals[o]
      /\ emitted' = [emitted EXCEPT ![o] = n]
      /\ sources' = Append(sources, SignalSource(o, n))
      /\ refs' = refs + 1
      /\ UNCHANGED <<at, busy, mutex, ignores, config, copies, owned, cancelled,
                     result, heard, early>>

\* idol_pl_parser_add_uri and idol_pl_parser_playlist_end: the signal data holds
\* a reference until the signal has been emitted, and CALL_ASYNC emits it now or
\* attaches a source.
Emit(o) ==
  LET n == emitted[o] + 1
  IN  /\ at[o] = "parse"
      /\ n <= Signals[o]
      /\ emitted' = [emitted EXCEPT ![o] = n]
      /\ IF o \in MainOp
         THEN /\ heard' = [heard EXCEPT ![o] = Append(@, n)]
              /\ UNCHANGED <<sources, refs>>
         ELSE /\ sources' = Append(sources, SignalSource(o, n))
              /\ refs' = refs + 1
              /\ UNCHANGED heard
      /\ UNCHANGED <<at, busy, mutex, ignores, config, copies, owned, cancelled,
                     result, early>>

Parsed(o) ==
  /\ emitted[o] = Signals[o]
  /\ Goto(o, "parse", "return")
  /\ result' = [result EXCEPT ![o] = "PARSED"]
  /\ UNCHANGED <<busy, mutex, ignores, config, copies, emitted, sources, life,
                 cancelled, heard, early>>

\* The worker hands its result over to the main loop.
WorkerReturns(o) ==
  /\ o \in AsyncOp
  /\ Goto(o, "return", "attached")
  /\ sources' = Append(sources, CompletionSource(o))
  /\ UNCHANGED <<busy, mutex, ignores, config, copies, emitted, life, cancelled,
                 result, heard, early>>

\* The application's thread drops its reference.
ThreadReturns(o) ==
  /\ o \in ThreadOp
  /\ Goto(o, "return", "done")
  /\ refs' = refs - 1
  /\ UNCHANGED <<busy, mutex, ignores, config, copies, emitted, sources, owned,
                 cancelled, result, heard, early>>

MainReturns(o) ==
  /\ o \in MainOp
  /\ Goto(o, "return", "done")
  /\ busy' = "loop"
  /\ UNCHANGED <<mutex, ignores, config, copies, emitted, sources, life, cancelled,
                 result, heard, early>>

Step(o) ==
  \/ StartWorker(o) \/ CheckCancelled(o) \/ Lock(o) \/ SchemeIsIgnored(o)
  \/ CopyOption(o) \/ MimetypeIsIgnored(o) \/ Emit(o) \/ Parsed(o)
  \/ WorkerReturns(o) \/ ThreadReturns(o) \/ MainReturns(o)

-----------------------------------------------------------------------------
(***************************************************************************)
(* The main loop.                                                          *)
(***************************************************************************)
\* Mutant: the reference of the signal data is dropped twice.
DispatchUnrefsTwice ==
  LET s == sources[NextSource]
  IN  /\ busy = "loop"
      /\ sources # <<>>
      /\ s.signal > 0
      /\ heard' = [heard EXCEPT ![s.op] = Append(@, s.signal)]
      /\ refs' = refs - 2
      /\ sources' = Without(NextSource)
      /\ UNCHANGED <<at, busy, mutex, ignores, config, copies, emitted, owned,
                     cancelled, result, early>>

\* emit_entry_parsed_signal and emit_playlist_ended_signal: the listeners run,
\* then the reference of the signal data is dropped.
DispatchSignal ==
  LET s == sources[NextSource]
  IN  /\ busy = "loop"
      /\ sources # <<>>
      /\ s.signal > 0
      /\ heard' = [heard EXCEPT ![s.op] = Append(@, s.signal)]
      /\ refs' = refs - 1
      /\ sources' = Without(NextSource)
      /\ UNCHANGED <<at, busy, mutex, ignores, config, copies, emitted, owned,
                     cancelled, result, early>>

\* The callback of the operation runs and calls idol_pl_parser_parse_finish;
\* then the GSimpleAsyncResult and its reference are gone.
DispatchCompletion ==
  LET s == sources[NextSource]
  IN  /\ busy = "loop"
      /\ sources # <<>>
      /\ s.signal = 0
      /\ Goto(s.op, "attached", "done")
      /\ refs' = refs - 1
      /\ sources' = Without(NextSource)
      /\ UNCHANGED <<busy, mutex, ignores, config, copies, emitted, owned, cancelled,
                     result, heard, early>>

Loop == DispatchSignal \/ DispatchCompletion \/ SchemeAdded

-----------------------------------------------------------------------------
Init ==
  /\ at = [o \in Op |-> "new"]
  /\ busy = "loop"
  /\ mutex = "none"
  /\ ignored = {}
  /\ adding \in Scheme
  /\ options = [recurse |-> TRUE, force |-> FALSE]
  /\ sets = 0
  /\ copied = [o \in Op |-> [recurse |-> TRUE, force |-> FALSE]]
  /\ emitted = [o \in Op |-> 0]
  /\ sources = <<>>
  /\ refs = 1
  /\ owned = TRUE
  /\ cancelled = {}
  /\ result = [o \in Op |-> "none"]
  /\ heard = [o \in Op |-> <<>>]
  /\ stood = [o \in Op |-> {}]
  /\ early = {}

Next == Application \/ Loop \/ \E o \in Op : Step(o)

\* Threads run, the main loop is iterated, and nobody is forced to ask.
Spec == /\ Init /\ [][Next]_vars
        /\ WF_vars(Loop)
        /\ \A o \in Op : WF_vars(Step(o))

-----------------------------------------------------------------------------
(***************************************************************************)
(* What must hold.                                                         *)
(***************************************************************************)
InFlight(o) == at[o] \notin {"new", "done"}

TypeOK ==
  /\ at \in [Op -> {"new", "queued", "start", "scheme", "scheme locked",
                    "copy recurse", "copy force", "mimetype", "mimetype locked",
                    "parse", "return", "attached", "done"}]
  /\ busy \in {"loop", "add"} \cup MainOp
  /\ mutex \in {"none", "main"} \cup Op
  /\ ignored \subseteq Scheme /\ adding \in Scheme
  /\ options \in Options /\ sets \in 0 .. SetMax
  /\ copied \in [Op -> Options] /\ stood \in [Op -> SUBSET Options]
  /\ emitted \in [Op -> Nat] /\ \A o \in Op : emitted[o] <= Signals[o]
  /\ sources \in Seq([op : Op, signal : Nat, priority : {0, 200}])
  /\ refs \in Nat /\ owned \in BOOLEAN
  /\ cancelled \subseteq AsyncOp /\ early \subseteq Op
  /\ result \in [Op -> {"none", "PARSED", "UNHANDLED", "CANCELLED"}]
  /\ heard \in [Op -> Seq(Nat)]

\* The object lives while anything may touch it: its references are the
\* application's, one per operation in flight and one per signal in the loop,
\* and when all of these are gone, so is the object.
RefAccounting ==
  /\ refs = (IF owned THEN 1 ELSE 0)
              + Cardinality({o \in AsyncOp \cup ThreadOp : InFlight(o)})
              + Cardinality({i \in DOMAIN sources : sources[i].signal > 0})
  /\ (sources # <<>> \/ \E o \in Op : InFlight(o)) => refs > 0

\* The mutex is held by a thread that is in the middle of a critical section
\* and by nobody else: two threads are never in the lists together.
MutualExclusion ==
  \A o \in Op : at[o] \in {"scheme locked", "mimetype locked"} <=> mutex = o

\* A call of idol_pl_parser_parse in the main thread has delivered everything
\* when it returns, although the main loop has not run.
DeliveredOnReturn ==
  \A o \in MainOp : at[o] = "done" => Len(heard[o]) = emitted[o]

\* A parse that was cancelled, or whose scheme was ignored, before it started
\* never emits anything and says so in its result.
StoppedEarly ==
  \A o \in early : /\ emitted[o] = 0
                   /\ result[o] \in {"none", "UNHANDLED", "CANCELLED"}

\* Every option a parse works with was in force while it copied them: all of
\* them together if none was set meanwhile, and nothing that is set later counts.
OptionsWhole ==
  \A o \in Op : at[o] \in {"mimetype", "mimetype locked", "parse"} =>
    \A option \in {"recurse", "force"} :
      \E s \in stood[o] : copied[o][option] = s[option]

=============================================================================
