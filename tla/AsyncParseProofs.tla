-------------------------- MODULE AsyncParseProofs --------------------------
(***************************************************************************)
(* Proofs about AsyncParse, for any number of parses of any kind: the      *)
(* mutex, what was stopped before it started, the types, the sources of    *)
(* the main loop and the order they come in, the reference count of the    *)
(* object, the options a parse works with, and the safety part of the      *)
(* refinement that AsyncParseKeeps states.                                 *)
(***************************************************************************)
EXTENDS AsyncParseKeeps, TLAPS, SequenceTheorems, FiniteSetTheorems, FunctionTheorems

(***************************************************************************)
(* The mutex, and parses stopped before they started.                      *)
(***************************************************************************)
Place == {"new", "queued", "start", "scheme", "scheme locked", "copy recurse",
          "copy force", "mimetype", "mimetype locked", "parse", "return",
          "attached", "done"}

\* A call in the main thread keeps that thread busy until it returns.
CallsInMain == \A o \in MainOp : at[o] \in Place \ {"new", "done"} => busy = o

\* The main thread holds the mutex exactly while it changes a list.
AddingLocks == busy = "add" <=> mutex = "main"

MInv == at \in [Op -> Place] /\ CallsInMain /\ AddingLocks /\ MutualExclusion

\* Every action of the application, of a parse and of the main loop.
LEMMA NextCases ==
  ASSUME Next
  PROVE  \/ \E o \in Op : ParseAsync(o) \/ ParseInThread(o) \/ ParseInMain(o) \/ Cancel(o)
         \/ SetProperty \/ Unref \/ \E s \in Scheme : AddIgnoredScheme(s)
         \/ DispatchSignal \/ DispatchCompletion \/ SchemeAdded
         \/ \E o \in Op : Step(o)
BY DEF Next, Application, Loop

LEMMA Names ==
  /\ "add" \notin Op /\ "main" \notin Op /\ "none" \notin Op /\ "loop" \notin Op
  /\ MainOp \subseteq Op /\ AsyncOp \cap MainOp = {} /\ ThreadOp \cap MainOp = {}
BY NameAssumption, OpAssumption DEF Op

LEMMA MutexInit == Init => MInv
<1> SUFFICES ASSUME Init PROVE MInv  OBVIOUS
<1>1. at \in [Op -> Place]  BY DEF Init, Place
<1>2. CallsInMain  BY Names DEF Init, CallsInMain
<1>3. AddingLocks  BY DEF Init, AddingLocks
<1>4. MutualExclusion  BY Names DEF Init, MutualExclusion
<1> QED  BY <1>1, <1>2, <1>3, <1>4 DEF MInv

\* A parse that goes from one place to another, outside the critical sections,
\* while its thread stays busy with it.
LEMMA GotoKeeps ==
  ASSUME MInv, NEW o \in Op, NEW from \in Place, NEW to \in Place, Goto(o, from, to),
         from \notin {"scheme locked", "mimetype locked"},
         to \notin {"scheme locked", "mimetype locked"},
         o \in MainOp => from \notin {"new", "done"},
         UNCHANGED <<busy, mutex>>
  PROVE  MInv'
<1>1. (at \in [Op -> Place])'  BY DEF MInv, Goto
<1>2. CallsInMain'  BY Names DEF MInv, Goto, CallsInMain
<1>3. AddingLocks'  BY DEF MInv, AddingLocks
<1>4. MutualExclusion'  BY DEF MInv, Goto, MutualExclusion
<1> QED  BY <1>1, <1>2, <1>3, <1>4 DEF MInv

\* A parse that takes or releases the mutex.
LEMMA LockKeeps ==
  ASSUME MInv, NEW o \in Op, NEW from \in Place, NEW to \in Place, Goto(o, from, to),
         from \notin {"new", "done"}, UNCHANGED busy,
         \/ /\ mutex = "none" /\ mutex' = o
            /\ from \notin {"scheme locked", "mimetype locked"}
            /\ to \in {"scheme locked", "mimetype locked"}
         \/ /\ mutex' = "none"
            /\ from \in {"scheme locked", "mimetype locked"}
            /\ to \notin {"scheme locked", "mimetype locked"}
  PROVE  MInv'
<1>1. (at \in [Op -> Place])'  BY DEF MInv, Goto
<1>2. CallsInMain'  BY Names DEF MInv, Goto, CallsInMain
<1>3. from \in {"scheme locked", "mimetype locked"} => mutex = o
  BY DEF MInv, Goto, MutualExclusion
<1>4. AddingLocks'  BY <1>3, Names DEF MInv, AddingLocks
<1>5. MutualExclusion'  BY <1>3, Names DEF MInv, Goto, MutualExclusion
<1> QED  BY <1>1, <1>2, <1>4, <1>5 DEF MInv

\* A step that moves no parse and leaves the mutex alone.
LEMMA StillKeeps ==
  ASSUME MInv, UNCHANGED <<at, busy, mutex>>
  PROVE  MInv'
BY DEF MInv, CallsInMain, AddingLocks, MutualExclusion

LEMMA MutexNext == MInv /\ [Next]_vars => MInv'
<1> SUFFICES ASSUME MInv, [Next]_vars PROVE MInv'
  OBVIOUS
<1>1. CASE UNCHANGED vars  BY <1>1, StillKeeps DEF vars
<1>2. CASE SetProperty \/ Unref \/ DispatchSignal
  BY <1>2, StillKeeps DEF SetProperty, Unref, DispatchSignal
<1>3. ASSUME NEW o \in Op, ParseAsync(o) \/ ParseInThread(o) \/ ParseInMain(o) \/ Cancel(o)
      PROVE  MInv'
  <2>1. CASE ParseAsync(o)
    <3>1. o \notin MainOp /\ Goto(o, "new", "queued") /\ UNCHANGED <<busy, mutex>>
      BY <2>1, Names DEF ParseAsync, Goto
    <3> QED  BY <3>1, GotoKeeps DEF Place
  <2>2. CASE ParseInThread(o)
    <3>1. o \notin MainOp /\ Goto(o, "new", "scheme") /\ UNCHANGED <<busy, mutex>>
      BY <2>2, Names DEF ParseInThread, Goto
    <3> QED  BY <3>1, GotoKeeps DEF Place
  <2>3. CASE ParseInMain(o)
    <3> USE <2>3 DEF ParseInMain
    <3>1. (at \in [Op -> Place])'  BY DEF MInv, Place
    <3>2. CallsInMain'  BY Names DEF MInv, Free, CallsInMain
    <3>3. AddingLocks'  BY Names DEF MInv, Free, AddingLocks
    <3>4. MutualExclusion'  BY DEF MInv, MutualExclusion
    <3> QED  BY <3>1, <3>2, <3>3, <3>4 DEF MInv
  <2>4. CASE Cancel(o)  BY <2>4, StillKeeps DEF Cancel
  <2> QED  BY <1>3, <2>1, <2>2, <2>3, <2>4
<1>4. ASSUME NEW s \in Scheme, AddIgnoredScheme(s)  PROVE MInv'
  <2> USE <1>4 DEF AddIgnoredScheme
  <2>1. (at \in [Op -> Place])'  BY DEF MInv
  <2>2. CallsInMain'  BY Names DEF MInv, Free, CallsInMain
  <2>3. AddingLocks'  BY DEF AddingLocks
  <2>4. MutualExclusion'  BY Names DEF MInv, MutualExclusion
  <2> QED  BY <2>1, <2>2, <2>3, <2>4 DEF MInv
<1>5. CASE SchemeAdded
  <2> USE <1>5 DEF SchemeAdded
  <2>1. (at \in [Op -> Place])'  BY DEF MInv
  <2>2. CallsInMain'  BY Names DEF MInv, CallsInMain
  <2>3. AddingLocks'  BY DEF AddingLocks
  <2>4. MutualExclusion'  BY Names DEF MInv, AddingLocks, MutualExclusion
  <2> QED  BY <2>1, <2>2, <2>3, <2>4 DEF MInv
<1>6. CASE DispatchCompletion
  <2> DEFINE o == sources[NextSource].op
  <2>1. at[o] = "attached" /\ at' = [at EXCEPT ![o] = "done"] /\ UNCHANGED <<busy, mutex>>
    BY <1>6 DEF DispatchCompletion, Goto
  <2> HIDE DEF o
  <2>2. (at \in [Op -> Place])'  BY <2>1 DEF MInv, Place
  <2>3. CallsInMain'  BY <2>1, Names DEF MInv, CallsInMain, Place
  <2>4. AddingLocks'  BY <2>1 DEF MInv, AddingLocks
  <2>5. MutualExclusion'  BY <2>1 DEF MInv, MutualExclusion
  <2> QED  BY <2>2, <2>3, <2>4, <2>5 DEF MInv
<1>7. ASSUME NEW o \in Op, Step(o)  PROVE MInv'
  <2>1. CASE StartWorker(o)  BY <2>1, Names, GotoKeeps DEF StartWorker, Place
  <2>2. CASE CheckCancelled(o)  BY <2>2, GotoKeeps DEF CheckCancelled, Place
  <2>3. CASE Lock(o)  BY <2>3, LockKeeps DEF Lock, Place
  <2>4. CASE SchemeIsIgnored(o)  BY <2>4, LockKeeps DEF SchemeIsIgnored, Place
  <2>5. CASE CopyOption(o)  BY <2>5, GotoKeeps DEF CopyOption, Place
  <2>6. CASE MimetypeIsIgnored(o)  BY <2>6, LockKeeps DEF MimetypeIsIgnored, Place
  <2>7. CASE Emit(o)  BY <2>7, StillKeeps DEF Emit
  <2>8. CASE Parsed(o)  BY <2>8, GotoKeeps DEF Parsed, Place
  <2>9. CASE WorkerReturns(o)  BY <2>9, GotoKeeps DEF WorkerReturns, Place
  <2>10. CASE ThreadReturns(o)  BY <2>10, GotoKeeps DEF ThreadReturns, Place
  <2>11. CASE MainReturns(o)
    <3> USE <2>11 DEF MainReturns, Goto
    <3>1. (at \in [Op -> Place])'  BY DEF MInv, Place
    <3>2. busy = o  BY DEF MInv, CallsInMain, Place
    <3>3. CallsInMain'  BY <3>2, Names DEF MInv, CallsInMain
    <3>4. AddingLocks'  BY <3>2, Names DEF MInv, AddingLocks
    <3>5. MutualExclusion'  BY DEF MInv, MutualExclusion
    <3> QED  BY <3>1, <3>3, <3>4, <3>5 DEF MInv
  <2> QED
    BY <1>7, <2>1, <2>2, <2>3, <2>4, <2>5, <2>6, <2>7, <2>8, <2>9, <2>10, <2>11 DEF Step
<1> QED
  BY <1>1, <1>2, <1>3, <1>4, <1>5, <1>6, <1>7, NextCases

\* Nobody reads or changes an ignore list while another thread is in it, however
\* many parses run.
THEOREM MutexHeld == Spec => []MutualExclusion
<1>1. MInv => MutualExclusion  BY DEF MInv
<1> QED  BY <1>1, MutexInit, MutexNext, PTL DEF Spec

-----------------------------------------------------------------------------
Before == {"new", "queued", "start", "scheme", "scheme locked"}
After  == {"return", "attached", "done"}

\* A parse that has not got past the first checks has emitted nothing.
Fresh == \A o \in Op : at[o] \in Before => emitted[o] = 0 /\ result[o] = "none"

\* What stops a parse that is to be stopped: it is over, it will look at its
\* cancellable, or it will look for its scheme in a list that only grows.
Stopped(o) ==
  \/ at[o] \in After
  \/ o \in cancelled /\ at[o] \in {"queued", "start"}
  \/ SchemeOf[o] \in ignored /\ at[o] \in Before \ {"new"}

SInv == /\ at \in [Op -> Place]
        /\ emitted \in [Op -> Nat] /\ DOMAIN result = Op
        /\ early \subseteq Op
        /\ Fresh
        /\ \A o \in early : Stopped(o)
        /\ StoppedEarly

LEMMA StoppedInit == Init => SInv
BY DEF Init, SInv, Fresh, StoppedEarly, Before, Place

\* A step that does not change what SInv is about, or only makes it weaker.
LEMMA QuietKeeps ==
  ASSUME SInv, UNCHANGED <<at, emitted, result, early>>,
         ignored \subseteq ignored', cancelled \subseteq cancelled'
  PROVE  SInv'
<1>1. ASSUME NEW o \in early  PROVE Stopped(o)'
  BY <1>1 DEF SInv, Stopped
<1> QED  BY <1>1 DEF SInv, Fresh, StoppedEarly

\* A parse that starts, doomed or not.
LEMMA StartKeeps ==
  ASSUME SInv, NEW o \in Op, at[o] = "new", NEW to \in {"queued", "scheme"},
         at' = [at EXCEPT ![o] = to], early' = early \cup Doomed(o),
         UNCHANGED <<emitted, result, ignored, cancelled>>
  PROVE  SInv'
<1>1. (at \in [Op -> Place])'  BY DEF SInv, Place
<1>2. Fresh'  BY DEF SInv, Fresh, Before
<1>3. early' \subseteq Op  BY DEF SInv, Doomed
<1>4. o \notin early  BY DEF SInv, Stopped, After, Before
<1>5. ASSUME NEW p \in early'  PROVE Stopped(p)'
  <2>1. CASE p = o  BY <1>4, <1>5, <2>1 DEF SInv, Doomed, Stopped, Before
  <2>2. CASE p # o
    <3>1. p \in early  BY <1>5, <2>2 DEF Doomed
    <3> QED  BY <2>2, <3>1 DEF SInv, Stopped
  <2> QED  BY <2>1, <2>2
<1>6. emitted[o] = 0 /\ result[o] = "none"  BY DEF SInv, Fresh, Before
<1>7. StoppedEarly'  BY <1>6 DEF SInv, StoppedEarly, Doomed
<1> QED  BY <1>1, <1>2, <1>3, <1>5, <1>7 DEF SInv

\* A parse that goes on without an effect on its signals or its result, to a
\* place that does not let a stopped one through.
LEMMA MoveKeeps ==
  ASSUME SInv, NEW o \in Op, NEW from \in Place, NEW to \in Place, Goto(o, from, to),
         to \in Before => from \in Before,
         (o \in early /\ Stopped(o)) => Stopped(o)',
         UNCHANGED <<emitted, result, early, ignored, cancelled>>
  PROVE  SInv'
<1>1. (at \in [Op -> Place])'  BY DEF SInv, Goto
<1>2. Fresh'  BY DEF SInv, Fresh, Goto
<1>3. ASSUME NEW p \in early  PROVE Stopped(p)'
  <2>1. CASE p = o  BY <1>3, <2>1 DEF SInv
  <2>2. CASE p # o  BY <1>3, <2>2 DEF SInv, Stopped, Goto
  <2> QED  BY <2>1, <2>2
<1> QED  BY <1>1, <1>2, <1>3 DEF SInv, StoppedEarly

\* A parse that returns with a result an early one may have.
LEMMA StopKeeps ==
  ASSUME SInv, NEW o \in Op, NEW from \in Before, Goto(o, from, "return"),
         NEW r \in {"UNHANDLED", "CANCELLED"}, result' = [result EXCEPT ![o] = r],
         UNCHANGED <<emitted, early, ignored, cancelled>>
  PROVE  SInv'
<1>1. (at \in [Op -> Place])'  BY DEF SInv, Goto, Place
<1>2. Fresh'  BY DEF SInv, Fresh, Goto, Before
<1>3. ASSUME NEW p \in early  PROVE Stopped(p)'
  BY <1>3 DEF SInv, Stopped, Goto, After
<1>4. StoppedEarly'  BY DEF SInv, StoppedEarly
<1> QED  BY <1>1, <1>2, <1>3, <1>4 DEF SInv

\* Nothing that is to be stopped gets as far as the code that emits signals.
LEMMA ParsingIsNotStopped ==
  ASSUME SInv, NEW o \in Op, at[o] = "parse"
  PROVE  o \notin early
BY DEF SInv, Stopped, After, Before

LEMMA StoppedNext == SInv /\ [Next]_vars => SInv'
<1> SUFFICES ASSUME SInv, [Next]_vars PROVE SInv'
  OBVIOUS
<1>1. CASE UNCHANGED vars  BY <1>1, QuietKeeps DEF vars, ignores
<1>2. CASE SetProperty \/ Unref \/ DispatchSignal \/ SchemeAdded
  BY <1>2, QuietKeeps DEF SetProperty, Unref, DispatchSignal, SchemeAdded, ignores
<1>3. ASSUME NEW o \in Op, ParseAsync(o) \/ ParseInThread(o) \/ ParseInMain(o) \/ Cancel(o)
      PROVE  SInv'
  <2>1. CASE ParseAsync(o) \/ ParseInThread(o) \/ ParseInMain(o)
    BY <2>1, StartKeeps DEF ParseAsync, ParseInThread, ParseInMain, ignores
  <2>2. CASE Cancel(o)
    <3> USE <2>2 DEF Cancel, ignores
    <3>1. Fresh'  BY DEF SInv, Fresh
    <3>2. ASSUME NEW p \in early'  PROVE Stopped(p)'
      <4>1. CASE p \in early  BY <4>1 DEF SInv, Stopped
      <4>2. CASE p \notin early  BY <3>2, <4>2 DEF Stopped
      <4> QED  BY <4>1, <4>2
    <3>3. StoppedEarly'  BY DEF SInv, StoppedEarly, Fresh, Before
    <3>4. early' \subseteq Op  BY DEF SInv
    <3> QED  BY <3>1, <3>2, <3>3, <3>4 DEF SInv
  <2> QED  BY <1>3, <2>1, <2>2
<1>4. ASSUME NEW s \in Scheme, AddIgnoredScheme(s)  PROVE SInv'
  BY <1>4, QuietKeeps DEF AddIgnoredScheme
<1>5. CASE DispatchCompletion
  <2> DEFINE o == sources[NextSource].op
  <2>1. Goto(o, "attached", "done")  BY <1>5 DEF DispatchCompletion
  <2>2. UNCHANGED <<emitted, result, early, ignored, cancelled>>
    BY <1>5 DEF DispatchCompletion, ignores
  <2> HIDE DEF o
  <2>3. (at \in [Op -> Place])'  BY <2>1 DEF SInv, Place, Goto
  <2>4. Fresh'  BY <2>1, <2>2 DEF SInv, Fresh, Goto, Before
  <2>5. ASSUME NEW p \in early  PROVE Stopped(p)'
    BY <2>1, <2>2, <2>5 DEF SInv, Stopped, Goto, After, Before
  <2>6. StoppedEarly'  BY <2>2 DEF SInv, StoppedEarly
  <2> QED  BY <2>2, <2>3, <2>4, <2>5, <2>6 DEF SInv
<1>6. ASSUME NEW o \in Op, Step(o)  PROVE SInv'
  <2>1. CASE StartWorker(o)
    BY <2>1, MoveKeeps DEF StartWorker, Place, Before, After, Stopped, Goto, SInv, ignores
  <2>2. CASE CheckCancelled(o)
    <3>1. CASE o \in cancelled
      BY <2>2, <3>1, StopKeeps DEF CheckCancelled, Before, ignores
    <3>2. CASE o \notin cancelled
      BY <2>2, <3>2, MoveKeeps
      DEF CheckCancelled, Place, Before, After, Stopped, Goto, SInv, ignores
    <3> QED  BY <3>1, <3>2
  <2>3. CASE Lock(o)
    BY <2>3, MoveKeeps DEF Lock, Place, Before, After, Stopped, Goto, SInv, ignores
  <2>4. CASE SchemeIsIgnored(o)
    <3>1. CASE SchemeOf[o] \in ignored
      BY <2>4, <3>1, StopKeeps DEF SchemeIsIgnored, Before, ignores
    <3>2. CASE SchemeOf[o] \notin ignored
      BY <2>4, <3>2, MoveKeeps
      DEF SchemeIsIgnored, Place, Before, After, Stopped, Goto, SInv, ignores
    <3> QED  BY <3>1, <3>2
  <2>5. CASE CopyOption(o)
    BY <2>5, MoveKeeps DEF CopyOption, Place, Before, After, Stopped, Goto, ignores
  <2>6. CASE MimetypeIsIgnored(o)
    BY <2>6, MoveKeeps DEF MimetypeIsIgnored, Place, Before, After, Stopped, Goto, ignores
  <2>7. CASE Emit(o)
    <3>1. o \notin early  BY <2>7, ParsingIsNotStopped DEF Emit
    <3> USE <2>7 DEF Emit, ignores
    <3>2. emitted' = [emitted EXCEPT ![o] = emitted[o] + 1]  OBVIOUS
    <3>3. (emitted \in [Op -> Nat])'  BY <3>2 DEF SInv
    <3>4. Fresh'  BY <3>2 DEF SInv, Fresh, Before
    <3>5. StoppedEarly'  BY <3>1, <3>2 DEF SInv, StoppedEarly
    <3>6. ASSUME NEW p \in early  PROVE Stopped(p)'  BY <3>6 DEF SInv, Stopped
    <3> QED  BY <3>3, <3>4, <3>5, <3>6 DEF SInv
  <2>8. CASE Parsed(o)
    <3>1. o \notin early  BY <2>8, ParsingIsNotStopped DEF Parsed, Goto
    <3> USE <2>8 DEF Parsed, Goto, ignores
    <3>2. (at \in [Op -> Place])'  BY DEF SInv, Place
    <3>3. Fresh'  BY DEF SInv, Fresh, Before
    <3>4. StoppedEarly'  BY <3>1 DEF SInv, StoppedEarly
    <3>5. ASSUME NEW p \in early  PROVE Stopped(p)'  BY <3>1, <3>5 DEF SInv, Stopped
    <3> QED  BY <3>2, <3>3, <3>4, <3>5 DEF SInv
  <2>9. CASE WorkerReturns(o)
    BY <2>9, MoveKeeps DEF WorkerReturns, Place, Before, After, Stopped, Goto, SInv, ignores
  <2>10. CASE ThreadReturns(o)
    BY <2>10, MoveKeeps DEF ThreadReturns, Place, Before, After, Stopped, Goto, SInv, ignores
  <2>11. CASE MainReturns(o)
    BY <2>11, MoveKeeps DEF MainReturns, Place, Before, After, Stopped, Goto, SInv, ignores
  <2> QED
    BY <1>6, <2>1, <2>2, <2>3, <2>4, <2>5, <2>6, <2>7, <2>8, <2>9, <2>10, <2>11 DEF Step
<1> QED
  BY <1>1, <1>2, <1>3, <1>4, <1>5, <1>6, NextCases

\* A parse that was cancelled before its worker started, or whose scheme was
\* ignored before it was asked for, never emits a signal, whatever else runs.
THEOREM StoppedForGood == Spec => []StoppedEarly
<1>1. SInv => StoppedEarly  BY DEF SInv
<1> QED  BY <1>1, StoppedInit, StoppedNext, PTL DEF Spec

(***************************************************************************)
(* The main loop: what its sources are and the order they come in, and the *)
(* reference count of the object.                                          *)
(***************************************************************************)
SourceType == [op : Op, signal : Nat, priority : {0, 200}]

\* TypeOK, the reference count apart: that it never drops below zero is not a
\* matter of type, and is shown with RefAccounting.
Typed ==
  /\ at \in [Op -> Place]
  /\ busy \in {"loop", "add"} \cup MainOp
  /\ mutex \in {"none", "main"} \cup Op
  /\ ignored \subseteq Scheme /\ adding \in Scheme
  /\ options \in Options /\ sets \in 0 .. SetMax
  /\ copied \in [Op -> Options] /\ stood \in [Op -> SUBSET Options]
  /\ emitted \in [Op -> Nat] /\ \A o \in Op : emitted[o] <= Signals[o]
  /\ sources \in Seq(SourceType)
  /\ owned \in BOOLEAN
  /\ cancelled \subseteq AsyncOp /\ early \subseteq Op
  /\ result \in [Op -> {"none", "PARSED", "UNHANDLED", "CANCELLED"}]
  /\ heard \in [Op -> Seq(Nat)]

\* What waits in the loop: signals of parses in other threads, which came out of
\* that code, and the completion of an operation whose worker is through.
Sourced ==
  \A i \in DOMAIN sources :
    /\ sources[i].priority = 0
    /\ sources[i].op \notin MainOp
    /\ at[sources[i].op] # "new"
    /\ sources[i].op \in AsyncOp => at[sources[i].op] # "done"
    /\ sources[i].signal = 0
         => sources[i].op \in AsyncOp /\ at[sources[i].op] = "attached"

\* Nothing of an operation is attached after its completion.
CompletionIsLast ==
  \A i, j \in DOMAIN sources :
    i < j /\ sources[i].signal = 0 => sources[j].op # sources[i].op

\* The signals of a parse are in the loop in the order they were emitted in.
InOrder ==
  \A i, j \in DOMAIN sources :
    i < j /\ sources[i].op = sources[j].op /\ sources[j].signal > 0
      => sources[i].signal < sources[j].signal

\* The signals in the loop are the ones emitted and not yet heard.
Pending ==
  \A i \in DOMAIN sources : sources[i].signal > 0 =>
    /\ Len(heard[sources[i].op]) < sources[i].signal
    /\ sources[i].signal <= emitted[sources[i].op]

NoneLost ==
  \A o \in Op : \A n \in Len(heard[o]) + 1 .. emitted[o] :
    \E i \in DOMAIN sources : sources[i].op = o /\ sources[i].signal = n

\* The listeners have heard the first signals of each parse, in order, and of a
\* parse in the main thread all that it has emitted.
HeardInOrder ==
  \A o \in Op : /\ Len(heard[o]) <= emitted[o]
                /\ \A k \in 1 .. Len(heard[o]) : heard[o][k] = k

HeardAtOnce == \A o \in MainOp : Len(heard[o]) = emitted[o]

\* The result says whether the parse was carried out, to the last signal, or
\* not begun.
Outcomes ==
  \A o \in Op :
    /\ at[o] \in After => \/ result[o] = "PARSED" /\ emitted[o] = Signals[o]
                          \/ result[o] \in {"UNHANDLED", "CANCELLED"} /\ emitted[o] = 0
    /\ at[o] \notin After \cup {"parse"} => emitted[o] = 0

LInv == /\ Typed /\ Sourced /\ CompletionIsLast /\ InOrder /\ Pending /\ NoneLost
        /\ HeardInOrder /\ HeardAtOnce /\ Outcomes

-----------------------------------------------------------------------------
(***************************************************************************)
(* The next source, and the loop without it.                               *)
(***************************************************************************)
LEMMA FirstIsNext ==
  ASSUME sources \in Seq(SourceType), Sourced, sources # <<>>
  PROVE  NextSource = 1
<1> DEFINE First(i) == \A j \in DOMAIN sources :
                         \/ sources[i].priority < sources[j].priority
                         \/ sources[i].priority = sources[j].priority /\ i <= j
<1>1. Len(sources) \in Nat \ {0} /\ DOMAIN sources = 1 .. Len(sources)
  BY EmptySeq, LenProperties
<1>2. \A i \in DOMAIN sources : sources[i].priority = 0  BY DEF Sourced
<1>3. \A i \in DOMAIN sources : First(i) <=> i = 1  BY <1>1, <1>2
<1>4. 1 \in DOMAIN sources  BY <1>1
<1> HIDE DEF First
<1>5. (CHOOSE i \in DOMAIN sources : First(i)) = 1
  <2>1. \E i \in DOMAIN sources : First(i)  BY <1>3, <1>4
  <2> QED  BY <1>3, <2>1
<1> QED  BY <1>5 DEF NextSource, First

LEMMA WithoutFirst ==
  ASSUME sources \in Seq(SourceType), sources # <<>>
  PROVE  /\ Without(1) \in Seq(SourceType)
         /\ Len(sources) \in Nat \ {0} /\ DOMAIN sources = 1 .. Len(sources)
         /\ Len(Without(1)) = Len(sources) - 1
         /\ DOMAIN Without(1) = 1 .. Len(sources) - 1
         /\ \A j \in 1 .. Len(sources) - 1 : Without(1)[j] = sources[j + 1]
<1>1. Len(sources) \in Nat \ {0} /\ DOMAIN sources = 1 .. Len(sources)
  BY EmptySeq, LenProperties
<1>2. \A i \in 1 .. Len(sources) : sources[i] \in SourceType  BY ElementOfSeq
<1>3. Without(1) = [j \in 1 .. Len(sources) - 1 |-> sources[j + 1]]
  BY <1>1 DEF Without
<1>4. Without(1) \in [1 .. Len(sources) - 1 -> SourceType]  BY <1>1, <1>2, <1>3
<1>5. Len(sources) - 1 \in Nat  BY <1>1
<1>6. Without(1) \in Seq(SourceType)  BY <1>4, <1>5, SeqDef
<1>7. Len(Without(1)) = Len(sources) - 1  BY <1>4, <1>5, <1>6, LenProperties
<1> QED  BY <1>1, <1>3, <1>4, <1>6, <1>7

LEMMA SourceFields ==
  ASSUME sources \in Seq(SourceType)
  PROVE  /\ Len(sources) \in Nat /\ DOMAIN sources = 1 .. Len(sources)
         /\ \A i \in 1 .. Len(sources) : sources[i].op \in Op /\ sources[i].signal \in Nat
<1>1. Len(sources) \in Nat /\ DOMAIN sources = 1 .. Len(sources)  BY LenProperties
<1>2. \A i \in 1 .. Len(sources) : sources[i] \in SourceType  BY ElementOfSeq
<1> QED  BY <1>1, <1>2 DEF SourceType

\* A source attached at the end.
LEMMA AppendSource ==
  ASSUME sources \in Seq(SourceType), NEW s \in SourceType
  PROVE  /\ Append(sources, s) \in Seq(SourceType)
         /\ Len(sources) \in Nat /\ DOMAIN sources = 1 .. Len(sources)
         /\ DOMAIN Append(sources, s) = 1 .. Len(sources) + 1
         /\ \A j \in 1 .. Len(sources) : Append(sources, s)[j] = sources[j]
         /\ Append(sources, s)[Len(sources) + 1] = s
BY AppendProperties, LenProperties

LEMMA SourceTypes ==
  ASSUME NEW o \in Op, NEW n \in Nat
  PROVE  /\ SignalSource(o, n) \in SourceType /\ CompletionSource(o) \in SourceType
         /\ SignalSource(o, n).op = o /\ SignalSource(o, n).signal = n
         /\ SignalSource(o, n).priority = 0
         /\ CompletionSource(o).op = o /\ CompletionSource(o).signal = 0
         /\ CompletionSource(o).priority = 0
BY DEF SignalSource, CompletionSource, Source, SignalPriority, CompletionPriority, SourceType

-----------------------------------------------------------------------------
(***************************************************************************)
(* Types.                                                                  *)
(***************************************************************************)
LEMMA TypedInit == Init => Typed
BY SignalsAssumption, BoundsAssumption, EmptySeq DEF Init, Typed, Place, Options

\* A step that moves at most one parse, and leaves the types of the rest alone.
LEMMA GotoTyped ==
  ASSUME Typed, NEW o \in Op, NEW from, NEW to \in Place, Goto(o, from, to),
         UNCHANGED <<ignores, config, emitted, sources, owned, cancelled, heard, early>>,
         busy' \in {"loop", "add"} \cup MainOp, mutex' \in {"none", "main"} \cup Op,
         result' = result \/ \E r \in {"PARSED", "UNHANDLED", "CANCELLED"} :
                               result' = [result EXCEPT ![o] = r],
         copied' \in [Op -> Options] /\ stood' \in [Op -> SUBSET Options]
  PROVE  Typed'
BY DEF Typed, Goto, ignores, config

LEMMA SignalHeard ==
  ASSUME Typed, Sourced, DispatchSignal
  PROVE  LET o == sources[1].op
             n == sources[1].signal
         IN  /\ o \in Op /\ n \in Nat \ {0}
             /\ heard' = [heard EXCEPT ![o] = Append(@, n)]
             /\ Append(heard[o], n) \in Seq(Nat)
             /\ Len(heard[o]) \in Nat /\ Len(Append(heard[o], n)) = Len(heard[o]) + 1
             /\ \A k \in 1 .. Len(heard[o]) : Append(heard[o], n)[k] = heard[o][k]
             /\ Append(heard[o], n)[Len(heard[o]) + 1] = n
             /\ sources' = Without(1)
<1>1. sources # <<>> /\ sources \in Seq(SourceType)  BY DEF DispatchSignal, Typed
<1>2. NextSource = 1  BY <1>1, FirstIsNext
<1> DEFINE o == sources[1].op
           n == sources[1].signal
<1>3. /\ n > 0
      /\ heard' = [heard EXCEPT ![o] = Append(@, n)]
      /\ sources' = Without(1)
  BY <1>2 DEF DispatchSignal
<1>4. sources[1] \in SourceType  BY <1>1, WithoutFirst, ElementOfSeq
<1>5. o \in Op /\ n \in Nat \ {0}  BY <1>3, <1>4 DEF SourceType
<1> HIDE DEF o, n
<1>6. heard[o] \in Seq(Nat)  BY <1>5 DEF Typed
<1>7. /\ Append(heard[o], n) \in Seq(Nat)
      /\ Len(heard[o]) \in Nat /\ Len(Append(heard[o], n)) = Len(heard[o]) + 1
      /\ \A k \in 1 .. Len(heard[o]) : Append(heard[o], n)[k] = heard[o][k]
      /\ Append(heard[o], n)[Len(heard[o]) + 1] = n
  BY <1>5, <1>6, AppendProperties, LenProperties
<1> QED  BY <1>3, <1>5, <1>7 DEF o, n

LEMMA Completed ==
  ASSUME Typed, Sourced, DispatchCompletion
  PROVE  LET o == sources[1].op
         IN  /\ sources # <<>> /\ sources[1].signal = 0
             /\ o \in AsyncOp /\ o \in Op
             /\ Goto(o, "attached", "done")
             /\ sources' = Without(1)
<1>1. sources # <<>> /\ sources \in Seq(SourceType)  BY DEF DispatchCompletion, Typed
<1>2. NextSource = 1  BY <1>1, FirstIsNext
<1>3. /\ sources[1].signal = 0 /\ sources' = Without(1)
      /\ Goto(sources[1].op, "attached", "done")
  BY <1>2 DEF DispatchCompletion
<1>4. 1 \in DOMAIN sources  BY <1>1, WithoutFirst
<1> QED  BY <1>1, <1>3, <1>4 DEF Sourced, Op

\* A signal that is emitted at once, in the main thread, or attached.
LEMMA Emitted ==
  ASSUME Typed, NEW o \in Op, Emit(o)
  PROVE  LET n == emitted[o] + 1
         IN  /\ n \in Nat \ {0} /\ n <= Signals[o] /\ at[o] = "parse"
             /\ emitted' = [emitted EXCEPT ![o] = n]
             /\ o \in MainOp =>
                  /\ heard' = [heard EXCEPT ![o] = Append(@, n)]
                  /\ Append(heard[o], n) \in Seq(Nat)
                  /\ Len(heard[o]) \in Nat
                  /\ Len(Append(heard[o], n)) = Len(heard[o]) + 1
                  /\ \A k \in 1 .. Len(heard[o]) : Append(heard[o], n)[k] = heard[o][k]
                  /\ Append(heard[o], n)[Len(heard[o]) + 1] = n
                  /\ UNCHANGED <<sources, refs>>
             /\ o \notin MainOp =>
                  /\ SignalSource(o, n) \in SourceType
                  /\ sources' = Append(sources, SignalSource(o, n))
                  /\ refs' = refs + 1 /\ UNCHANGED heard
<1> DEFINE n == emitted[o] + 1
<1>1. /\ at[o] = "parse" /\ n <= Signals[o]
      /\ emitted' = [emitted EXCEPT ![o] = n]
      /\ o \in MainOp => heard' = [heard EXCEPT ![o] = Append(@, n)]
                         /\ UNCHANGED <<sources, refs>>
      /\ o \notin MainOp => /\ sources' = Append(sources, SignalSource(o, n))
                            /\ refs' = refs + 1 /\ UNCHANGED heard
  BY DEF Emit
<1>2. n \in Nat \ {0}  BY DEF Typed
<1>3. SignalSource(o, n) \in SourceType  BY <1>2, SourceTypes
<1> HIDE DEF n
<1>4. heard[o] \in Seq(Nat)  BY DEF Typed
<1>5. /\ Append(heard[o], n) \in Seq(Nat)
      /\ Len(heard[o]) \in Nat /\ Len(Append(heard[o], n)) = Len(heard[o]) + 1
      /\ \A k \in 1 .. Len(heard[o]) : Append(heard[o], n)[k] = heard[o][k]
      /\ Append(heard[o], n)[Len(heard[o]) + 1] = n
  BY <1>2, <1>4, AppendProperties, LenProperties
<1> QED  BY <1>1, <1>2, <1>3, <1>5 DEF n

LEMMA TypedNext == Typed /\ Sourced /\ [Next]_vars => Typed'
<1> SUFFICES ASSUME Typed, Sourced, [Next]_vars PROVE Typed'
  OBVIOUS
<1> USE DEF ignores, config, copies, life
<1>1. CASE UNCHANGED vars  BY <1>1 DEF vars, Typed
<1>2. CASE SetProperty
  <2>1. options' \in Options  BY <1>2 DEF SetProperty, Typed, Options
  <2>2. sets' \in 0 .. SetMax
    <3>1. sets' = sets + 1 /\ sets < SetMax /\ sets \in 0 .. SetMax
      BY <1>2 DEF SetProperty, Typed
    <3> QED  BY <3>1, BoundsAssumption
  <2>3. stood' \in [Op -> SUBSET Options]  BY <1>2, <2>1 DEF SetProperty, Typed
  <2> QED  BY <1>2, <2>1, <2>2, <2>3 DEF SetProperty, Typed
<1>3. CASE Unref  BY <1>3 DEF Unref, Typed
<1>4. CASE DispatchSignal
  <2>1. sources' \in Seq(SourceType)
    BY <1>4, SignalHeard, WithoutFirst DEF Typed, DispatchSignal
  <2>2. heard' \in [Op -> Seq(Nat)]  BY <1>4, SignalHeard DEF Typed
  <2> QED  BY <1>4, <2>1, <2>2 DEF DispatchSignal, Typed
<1>5. CASE DispatchCompletion
  <2>1. sources' \in Seq(SourceType)
    BY <1>5, Completed, WithoutFirst DEF Typed
  <2>2. at' \in [Op -> Place]  BY <1>5, Completed DEF Typed, Goto, Place
  <2> QED  BY <1>5, <2>1, <2>2 DEF DispatchCompletion, Typed
<1>6. CASE SchemeAdded  BY <1>6 DEF SchemeAdded, Typed
<1>7. ASSUME NEW o \in Op, ParseAsync(o) \/ ParseInThread(o) \/ ParseInMain(o) \/ Cancel(o)
      PROVE  Typed'
  BY <1>7 DEF ParseAsync, ParseInThread, ParseInMain, Cancel, Doomed, Typed, Place
<1>8. ASSUME NEW s \in Scheme, AddIgnoredScheme(s)  PROVE Typed'
  BY <1>8 DEF AddIgnoredScheme, Typed
<1>9. ASSUME NEW o \in Op, Step(o)  PROVE Typed'
  <2>1. CASE StartWorker(o) \/ MimetypeIsIgnored(o) \/ ThreadReturns(o) \/ MainReturns(o)
    BY <1>9, <2>1, GotoTyped
    DEF StartWorker, MimetypeIsIgnored, ThreadReturns, MainReturns, Place, Typed
  <2>2. CASE CheckCancelled(o) \/ SchemeIsIgnored(o) \/ Parsed(o)
    BY <1>9, <2>2, GotoTyped DEF CheckCancelled, SchemeIsIgnored, Parsed, Place, Typed
  <2>3. CASE Lock(o)  BY <2>3, GotoTyped DEF Lock, Place, Typed
  <2>4. CASE CopyOption(o)
    <3>1. CASE at[o] = "copy recurse"
      <4>1. /\ copied' = [copied EXCEPT ![o].recurse = options.recurse]
            /\ stood' = [stood EXCEPT ![o] = {options}]
            /\ Goto(o, "copy recurse", "copy force")
        BY <2>4, <3>1 DEF CopyOption, Goto
      <4>2. copied' \in [Op -> Options] /\ stood' \in [Op -> SUBSET Options]
        BY <4>1 DEF Typed, Options
      <4> QED  BY <2>4, <4>1, <4>2, GotoTyped DEF CopyOption, Place, Typed
    <3>2. CASE at[o] = "copy force"
      <4>1. /\ copied' = [copied EXCEPT ![o].force = options.force]
            /\ stood' = stood
            /\ Goto(o, "copy force", "mimetype")
        BY <2>4, <3>2 DEF CopyOption, Goto
      <4>2. copied' \in [Op -> Options] /\ stood' \in [Op -> SUBSET Options]
        BY <4>1 DEF Typed, Options
      <4> QED  BY <2>4, <4>1, <4>2, GotoTyped DEF CopyOption, Place, Typed
    <3> QED  BY <2>4, <3>1, <3>2 DEF CopyOption, Goto
  <2>5. CASE WorkerReturns(o)
    <3>1. sources' \in Seq(SourceType)
      BY <2>5, SourceTypes, AppendSource DEF WorkerReturns, Typed
    <3> QED  BY <2>5, <3>1 DEF WorkerReturns, Goto, Place, Typed
  <2>6. CASE Emit(o)
    <3> DEFINE n == emitted[o] + 1
    <3>0. /\ n \in Nat /\ n <= Signals[o] /\ emitted' = [emitted EXCEPT ![o] = n]
          /\ emitted \in [Op -> Nat] /\ \A p \in Op : emitted[p] <= Signals[p]
      BY <2>6, Emitted DEF Typed
    <3> HIDE DEF n
    <3>1. emitted' \in [Op -> Nat] /\ \A p \in Op : emitted'[p] <= Signals[p]
      BY <3>0
    <3> USE DEF n
    <3>2. CASE o \in MainOp
      <4>1. /\ heard' = [heard EXCEPT ![o] = Append(heard[o], n)]
            /\ Append(heard[o], n) \in Seq(Nat) /\ sources' = sources
        BY <2>6, <3>2, Emitted
      <4> HIDE DEF n
      <4>2. heard' \in [Op -> Seq(Nat)]  BY <4>1 DEF Typed
      <4> QED  BY <2>6, <3>1, <4>1, <4>2 DEF Emit, Typed
    <3>3. CASE o \notin MainOp
      <4>1. /\ sources' = Append(sources, SignalSource(o, n))
            /\ SignalSource(o, n) \in SourceType /\ heard' = heard
        BY <2>6, <3>3, Emitted
      <4> HIDE DEF n
      <4>2. sources' \in Seq(SourceType)  BY <4>1, AppendProperties DEF Typed
      <4> QED  BY <2>6, <3>1, <4>1, <4>2 DEF Emit, Typed
    <3> QED  BY <3>2, <3>3
  <2> QED  BY <1>9, <2>1, <2>2, <2>3, <2>4, <2>5, <2>6 DEF Step
<1> QED
  BY <1>1, <1>2, <1>3, <1>4, <1>5, <1>6, <1>7, <1>8, <1>9, NextCases

-----------------------------------------------------------------------------
(***************************************************************************)
(* Signals and completions.                                                *)
(***************************************************************************)
LEMMA LoopInit == Init => LInv
<1> SUFFICES ASSUME Init PROVE LInv  OBVIOUS
<1>1. sources = <<>> /\ DOMAIN sources = {}  BY DEF Init
<1>2. \A o \in Op : Len(heard[o]) = 0 /\ emitted[o] = 0 /\ at[o] = "new"
  BY EmptySeq DEF Init
<1>3. MainOp \subseteq Op  BY Names
<1>4. Sourced /\ CompletionIsLast /\ InOrder /\ Pending
  BY <1>1 DEF Sourced, CompletionIsLast, InOrder, Pending
<1>5. NoneLost /\ HeardInOrder /\ HeardAtOnce
  BY <1>2, <1>3 DEF NoneLost, HeardInOrder, HeardAtOnce
<1>6. Outcomes  BY <1>2 DEF Outcomes, After
<1> QED  BY <1>4, <1>5, <1>6, TypedInit DEF LInv

\* A step that emits, hears and moves nothing.
LEMMA StillLoops ==
  ASSUME LInv, Typed', UNCHANGED <<at, emitted, sources, result, heard>>
  PROVE  LInv'
BY DEF LInv, Sourced, CompletionIsLast, InOrder, Pending, NoneLost, HeardInOrder,
       HeardAtOnce, Outcomes

\* A parse that goes from one place to another without a signal.
LEMMA MoveLoops ==
  ASSUME LInv, Typed', NEW o \in Op, NEW from \in Place, NEW to \in Place, Goto(o, from, to),
         from # "attached", to \notin {"new", "attached"}, to = "done" => o \notin AsyncOp,
         UNCHANGED <<emitted, sources, heard>>,
         \/ result' = result
         \/ \E r \in {"PARSED", "UNHANDLED", "CANCELLED"} :
              result' = [result EXCEPT ![o] = r],
         to \in After => \/ result'[o] = "PARSED" /\ emitted[o] = Signals[o]
                         \/ result'[o] \in {"UNHANDLED", "CANCELLED"} /\ emitted[o] = 0,
         to \notin After \cup {"parse"} => emitted[o] = 0
  PROVE  LInv'
<1>1. at \in [Op -> Place] /\ result \in [Op -> {"none", "PARSED", "UNHANDLED", "CANCELLED"}]
  BY DEF LInv, Typed
<1>2. \A p \in Op : p # o => at'[p] = at[p] /\ result'[p] = result[p]
  BY <1>1 DEF Goto
<1>3. at[o] = from /\ at'[o] = to  BY <1>1 DEF Goto
<1>4. \A i \in DOMAIN sources : sources[i].op \in Op
  BY SourceFields DEF LInv, Typed
<1>5. Sourced'  BY <1>2, <1>3, <1>4 DEF LInv, Sourced
<1>6. Outcomes'  BY <1>2, <1>3 DEF LInv, Outcomes
<1> QED
  BY <1>5, <1>6 DEF LInv, CompletionIsLast, InOrder, Pending, NoneLost, HeardInOrder,
                    HeardAtOnce

LEMMA EmitLoops ==
  ASSUME LInv, Typed', NEW o \in Op, Emit(o)
  PROVE  LInv'
<1> DEFINE n == emitted[o] + 1
<1>1. at[o] = "parse" /\ UNCHANGED <<at, result>>  BY DEF Emit
<1>2. emitted' = [emitted EXCEPT ![o] = n] /\ n \in Nat \ {0}
  BY Emitted DEF LInv
<1>3. emitted \in [Op -> Nat] /\ heard \in [Op -> Seq(Nat)] /\ sources \in Seq(SourceType)
  BY DEF LInv, Typed
<1>4. \A p \in Op : Len(heard[p]) \in Nat  BY <1>3, LenProperties
<1>5. Outcomes'
  <2>1. \A p \in Op : p # o => emitted'[p] = emitted[p]  BY <1>2, <1>3
  <2> QED  BY <1>1, <2>1 DEF LInv, Outcomes, After
<1>6. CASE o \in MainOp
  <2>1. /\ heard' = [heard EXCEPT ![o] = Append(heard[o], n)]
        /\ Len(Append(heard[o], n)) = Len(heard[o]) + 1
        /\ \A k \in 1 .. Len(heard[o]) : Append(heard[o], n)[k] = heard[o][k]
        /\ Append(heard[o], n)[Len(heard[o]) + 1] = n
        /\ sources' = sources
    BY <1>6, Emitted DEF LInv
  <2>2. Len(heard[o]) = emitted[o]  BY <1>6 DEF LInv, HeardAtOnce
  <2> DEFINE h == Append(heard[o], n)
  <2>3. /\ heard'[o] = h /\ Len(h) = n /\ \A k \in 1 .. n : h[k] = IF k = n THEN n ELSE heard[o][k]
        /\ \A p \in Op : p # o => heard'[p] = heard[p]
    BY <1>3, <2>1, <2>2
  <2>4. emitted'[o] = n /\ \A p \in Op : p # o => emitted'[p] = emitted[p]
    BY <1>2, <1>3
  <2>5. \A i \in DOMAIN sources : sources[i].op \in Op \ {o}
    BY <1>3, <1>6, SourceFields DEF LInv, Sourced
  <2> HIDE DEF n, h
  <2>6. Sourced' /\ CompletionIsLast' /\ InOrder'
    BY <1>1, <2>1 DEF LInv, Sourced, CompletionIsLast, InOrder
  <2>7. Pending'  BY <2>1, <2>3, <2>4, <2>5 DEF LInv, Pending
  <2>8. NoneLost'
    <3>1. \A p \in Op : p # o => Len(heard'[p]) = Len(heard[p])  BY <2>3
    <3>2. Len(heard'[o]) + 1 .. emitted'[o] = {}  BY <1>2, <2>3, <2>4
    <3> QED  BY <2>1, <2>4, <3>1, <3>2 DEF LInv, NoneLost
  <2>9. HeardInOrder'
    <3> SUFFICES ASSUME NEW p \in Op
                 PROVE  /\ Len(heard'[p]) <= emitted'[p]
                        /\ \A k \in 1 .. Len(heard'[p]) : heard'[p][k] = k
      BY DEF HeardInOrder
    <3>1. CASE p = o
      <4>1. \A k \in 1 .. Len(heard[o]) : heard[o][k] = k  BY DEF LInv, HeardInOrder
      <4>2. Len(heard[o]) = n - 1 /\ n \in Nat  BY <1>2, <1>3, <2>2 DEF n
      <4>3. \A k \in 1 .. n : h[k] = k  BY <2>3, <4>1, <4>2
      <4> QED  BY <1>2, <2>3, <2>4, <3>1, <4>3
    <3>2. CASE p # o  BY <2>3, <2>4, <3>2 DEF LInv, HeardInOrder
    <3> QED  BY <3>1, <3>2
  <2>10. HeardAtOnce'  BY <2>3, <2>4, Names DEF LInv, HeardAtOnce
  <2> QED  BY <1>5, <2>6, <2>7, <2>8, <2>9, <2>10 DEF LInv
<1>7. CASE o \notin MainOp
  <2> DEFINE s == SignalSource(o, n)
             l == Len(sources)
  <2>1. sources' = Append(sources, s) /\ s \in SourceType /\ heard' = heard
    BY <1>7, Emitted DEF LInv
  <2>2. s.op = o /\ s.signal = n /\ s.priority = 0  BY <1>2, SourceTypes
  <2> HIDE DEF n, s
  <2>3. /\ l \in Nat /\ DOMAIN sources = 1 .. l /\ DOMAIN sources' = 1 .. l + 1
        /\ \A j \in 1 .. l : sources'[j] = sources[j]
        /\ sources'[l + 1] = s
    BY <1>3, <2>1, AppendSource
  <2>4. emitted'[o] = n /\ \A p \in Op : p # o => emitted'[p] = emitted[p]
    BY <1>2, <1>3
  <2>5. \A p \in Op : emitted[p] \in Nat /\ emitted'[p] \in Nat /\ emitted[p] <= emitted'[p]
    <3>1. \A p \in Op : emitted[p] \in Nat  BY <1>3
    <3>2. n = emitted[o] + 1  BY DEF n
    <3> QED  BY <2>4, <3>1, <3>2
  <2> HIDE DEF l
  <2>6. \A i \in 1 .. l : sources[i].op \in Op /\ sources[i].signal \in Nat
    BY <1>3, SourceFields DEF l
  <2>7. Sourced'  BY <1>1, <1>2, <1>7, <2>2, <2>3 DEF LInv, Sourced
  <2>8. CompletionIsLast'
    <3> SUFFICES ASSUME NEW i \in 1 .. l + 1, NEW j \in 1 .. l + 1,
                        i < j, sources'[i].signal = 0
                 PROVE  sources'[j].op # sources'[i].op
      BY <2>3 DEF CompletionIsLast
    <3>1. i \in 1 .. l  BY <2>3
    <3>2. CASE j = l + 1  BY <1>1, <2>2, <2>3, <3>1, <3>2 DEF LInv, Sourced
    <3>3. CASE j # l + 1
      <4>1. j \in 1 .. l  BY <2>3, <3>3
      <4> QED  BY <2>3, <3>1, <4>1 DEF LInv, CompletionIsLast
    <3> QED  BY <3>2, <3>3
  <2>9. \A i \in 1 .. l : sources[i].op = o => sources[i].signal < n
    <3> SUFFICES ASSUME NEW i \in 1 .. l, sources[i].op = o PROVE sources[i].signal < n
      OBVIOUS
    <3>1. sources[i].signal > 0 => sources[i].signal <= emitted[sources[i].op]
      BY <2>3 DEF LInv, Pending
    <3>2. sources[i].signal \in Nat /\ emitted[o] \in Nat /\ n = emitted[o] + 1
      BY <1>3, <2>6 DEF n
    <3> QED  BY <3>1, <3>2
  <2>10. InOrder'
    <3> SUFFICES ASSUME NEW i \in 1 .. l + 1, NEW j \in 1 .. l + 1,
                        i < j, sources'[i].op = sources'[j].op, sources'[j].signal > 0
                 PROVE  sources'[i].signal < sources'[j].signal
      BY <2>3 DEF InOrder
    <3>1. i \in 1 .. l  BY <2>3
    <3>2. CASE j = l + 1  BY <2>2, <2>3, <2>9, <3>1, <3>2
    <3>3. CASE j # l + 1
      <4>1. j \in 1 .. l  BY <2>3, <3>3
      <4> QED  BY <2>3, <3>1, <4>1 DEF LInv, InOrder
    <3> QED  BY <3>2, <3>3
  <2>11. Len(heard[o]) < n
    BY <1>3, <1>4 DEF LInv, HeardInOrder, n
  <2>12. Pending'
    <3> SUFFICES ASSUME NEW i \in 1 .. l + 1, sources'[i].signal > 0
                 PROVE  /\ Len(heard[sources'[i].op]) < sources'[i].signal
                        /\ sources'[i].signal <= emitted'[sources'[i].op]
      BY <2>1, <2>3 DEF Pending
    <3>1. CASE i = l + 1  BY <1>2, <2>2, <2>3, <2>4, <2>11, <3>1
    <3>2. CASE i # l + 1
      <4>1. i \in 1 .. l  BY <2>3, <3>2
      <4>2. /\ Len(heard[sources[i].op]) < sources[i].signal
            /\ sources[i].signal <= emitted[sources[i].op]
        BY <2>3, <4>1 DEF LInv, Pending
      <4>3. emitted[sources[i].op] <= emitted'[sources[i].op]
        BY <2>6, <2>5, <4>1
      <4> QED  BY <1>2, <1>3, <2>3, <2>4, <2>6, <4>1, <4>2, <4>3
    <3> QED  BY <3>1, <3>2
  <2>13. NoneLost'
    <3> SUFFICES ASSUME NEW p \in Op, NEW m \in Len(heard[p]) + 1 .. emitted'[p]
                 PROVE  \E i \in 1 .. l + 1 : sources'[i].op = p /\ sources'[i].signal = m
      BY <2>1, <2>3 DEF NoneLost
    <3>1. CASE p = o /\ m = n  BY <2>2, <2>3, <3>1
    <3>2. CASE ~(p = o /\ m = n)
      <4>1. m \in Len(heard[p]) + 1 .. emitted[p]
        BY <1>3, <1>4, <2>4, <3>2 DEF n
      <4>2. PICK i \in 1 .. l : sources[i].op = p /\ sources[i].signal = m
        BY <2>3, <4>1 DEF LInv, NoneLost
      <4> QED  BY <2>3, <4>2
    <3> QED  BY <3>1, <3>2
  <2>14. HeardInOrder'
    <3>1. \A p \in Op : Len(heard'[p]) <= emitted'[p]
      BY <1>4, <2>1, <2>5 DEF LInv, HeardInOrder
    <3> QED  BY <2>1, <3>1 DEF LInv, HeardInOrder
  <2>15. HeardAtOnce'  BY <1>7, <2>1, <2>4, Names DEF LInv, HeardAtOnce
  <2> QED
    BY <1>5, <2>7, <2>8, <2>10, <2>12, <2>13, <2>14, <2>15 DEF LInv
<1> QED  BY <1>6, <1>7

\* The worker attaches the completion after all its signals.
LEMMA ReturnLoops ==
  ASSUME LInv, Typed', NEW o \in Op, WorkerReturns(o)
  PROVE  LInv'
<1> DEFINE s == CompletionSource(o)
           l == Len(sources)
<1>1. /\ o \in AsyncOp /\ Goto(o, "return", "attached") /\ sources' = Append(sources, s)
      /\ UNCHANGED <<emitted, heard, result>>
  BY DEF WorkerReturns
<1>2. s \in SourceType /\ s.op = o /\ s.signal = 0 /\ s.priority = 0
  BY SourceTypes, 0 \in Nat
<1>3. at \in [Op -> Place] /\ sources \in Seq(SourceType)  BY DEF LInv, Typed
<1> HIDE DEF s
<1>4. /\ l \in Nat /\ DOMAIN sources = 1 .. l /\ DOMAIN sources' = 1 .. l + 1
      /\ \A j \in 1 .. l : sources'[j] = sources[j]
      /\ sources'[l + 1] = s
  BY <1>1, <1>2, <1>3, AppendSource
<1>5. \A i \in 1 .. l : sources[i].op \in Op /\ sources[i].signal \in Nat
  BY <1>3, SourceFields DEF l
<1>6. at[o] = "return" /\ at'[o] = "attached" /\ \A p \in Op : p # o => at'[p] = at[p]
  BY <1>1, <1>3 DEF Goto
<1> HIDE DEF l
<1>7. Sourced'
  <2> SUFFICES ASSUME NEW i \in 1 .. l + 1
               PROVE  /\ sources'[i].priority = 0
                      /\ sources'[i].op \notin MainOp
                      /\ at'[sources'[i].op] # "new"
                      /\ sources'[i].op \in AsyncOp => at'[sources'[i].op] # "done"
                      /\ sources'[i].signal = 0 => /\ sources'[i].op \in AsyncOp
                                                   /\ at'[sources'[i].op] = "attached"
    BY <1>4 DEF Sourced
  <2>1. CASE i = l + 1  BY <1>1, <1>2, <1>4, <1>6, <2>1, Names
  <2>2. CASE i # l + 1
    <3>1. i \in 1 .. l  BY <1>4, <2>2
    <3> QED  BY <1>4, <1>5, <1>6, <3>1 DEF LInv, Sourced
  <2> QED  BY <2>1, <2>2
<1>8. CompletionIsLast'
  <2> SUFFICES ASSUME NEW i \in 1 .. l + 1, NEW j \in 1 .. l + 1,
                      i < j, sources'[i].signal = 0
               PROVE  sources'[j].op # sources'[i].op
    BY <1>4 DEF CompletionIsLast
  <2>1. i \in 1 .. l  BY <1>4
  <2>2. CASE j = l + 1  BY <1>2, <1>4, <1>6, <2>1, <2>2 DEF LInv, Sourced
  <2>3. CASE j # l + 1
    <3>1. j \in 1 .. l  BY <1>4, <2>3
    <3> QED  BY <1>4, <2>1, <3>1 DEF LInv, CompletionIsLast
  <2> QED  BY <2>2, <2>3
<1>9. InOrder'
  <2> SUFFICES ASSUME NEW i \in 1 .. l + 1, NEW j \in 1 .. l + 1,
                      i < j, sources'[i].op = sources'[j].op, sources'[j].signal > 0
               PROVE  sources'[i].signal < sources'[j].signal
    BY <1>4 DEF InOrder
  <2>1. i \in 1 .. l /\ j \in 1 .. l  BY <1>2, <1>4
  <2> QED  BY <1>4, <2>1 DEF LInv, InOrder
<1>10. Pending'
  <2> SUFFICES ASSUME NEW i \in 1 .. l + 1, sources'[i].signal > 0
               PROVE  /\ Len(heard[sources'[i].op]) < sources'[i].signal
                      /\ sources'[i].signal <= emitted[sources'[i].op]
    BY <1>1, <1>4 DEF Pending
  <2>1. i \in 1 .. l  BY <1>2, <1>4
  <2> QED  BY <1>4, <2>1 DEF LInv, Pending
<1>11. NoneLost'
  <2>1. \A p \in Op : \A n \in Len(heard[p]) + 1 .. emitted[p] :
          \E i \in 1 .. l : sources'[i].op = p /\ sources'[i].signal = n
    BY <1>4 DEF LInv, NoneLost
  <2>2. \A i \in 1 .. l : i \in 1 .. l + 1  BY <1>4
  <2> QED  BY <1>1, <1>4, <2>1, <2>2 DEF NoneLost
<1>12. HeardInOrder' /\ HeardAtOnce'  BY <1>1 DEF LInv, HeardInOrder, HeardAtOnce
<1>13. Outcomes'  BY <1>1, <1>6 DEF LInv, Outcomes, After
<1> QED  BY <1>7, <1>8, <1>9, <1>10, <1>11, <1>12, <1>13 DEF LInv

\* What is left in the loop when its first source is gone.
LEMMA RestOfLoop ==
  ASSUME LInv, sources # <<>>, sources' = Without(1), UNCHANGED emitted,
         \A i \in 2 .. Len(sources) : at'[sources[i].op] = at[sources[i].op]
  PROVE  /\ Sourced' /\ CompletionIsLast' /\ InOrder'
         /\ Len(sources) \in Nat \ {0}
         /\ DOMAIN sources' = 1 .. Len(sources) - 1
         /\ \A j \in 1 .. Len(sources) - 1 : sources'[j] = sources[j + 1]
         /\ \A j \in 1 .. Len(sources) - 1 : j + 1 \in 2 .. Len(sources)
<1> DEFINE l == Len(sources)
<1>1. /\ l \in Nat \ {0} /\ DOMAIN sources = 1 .. l
      /\ DOMAIN sources' = 1 .. l - 1
      /\ \A j \in 1 .. l - 1 : sources'[j] = sources[j + 1]
  BY WithoutFirst DEF LInv, Typed
<1> HIDE DEF l
<1>2. \A j \in 1 .. l - 1 : j + 1 \in 1 .. l /\ j + 1 \in 2 .. l  BY <1>1
<1>3. \A i \in 2 .. l : at'[sources[i].op] = at[sources[i].op]  BY DEF l
<1>4. Sourced'
  <2> SUFFICES ASSUME NEW i \in 1 .. l - 1
               PROVE  /\ sources'[i].priority = 0
                      /\ sources'[i].op \notin MainOp
                      /\ at'[sources'[i].op] # "new"
                      /\ sources'[i].op \in AsyncOp => at'[sources'[i].op] # "done"
                      /\ sources'[i].signal = 0 => /\ sources'[i].op \in AsyncOp
                                                   /\ at'[sources'[i].op] = "attached"
    BY <1>1 DEF Sourced
  <2>1. sources'[i] = sources[i + 1] /\ i + 1 \in DOMAIN sources
        /\ at'[sources[i + 1].op] = at[sources[i + 1].op]
    BY <1>1, <1>2, <1>3
  <2> QED  BY <2>1 DEF LInv, Sourced
<1>5. CompletionIsLast'
  <2> SUFFICES ASSUME NEW i \in 1 .. l - 1, NEW j \in 1 .. l - 1,
                      i < j, sources'[i].signal = 0
               PROVE  sources'[j].op # sources'[i].op
    BY <1>1 DEF CompletionIsLast
  <2>1. /\ sources'[i] = sources[i + 1] /\ i + 1 \in DOMAIN sources
        /\ sources'[j] = sources[j + 1] /\ j + 1 \in DOMAIN sources /\ i + 1 < j + 1
    BY <1>1, <1>2
  <2> QED  BY <2>1 DEF LInv, CompletionIsLast
<1>6. InOrder'
  <2> SUFFICES ASSUME NEW i \in 1 .. l - 1, NEW j \in 1 .. l - 1,
                      i < j, sources'[i].op = sources'[j].op, sources'[j].signal > 0
               PROVE  sources'[i].signal < sources'[j].signal
    BY <1>1 DEF InOrder
  <2>1. /\ sources'[i] = sources[i + 1] /\ i + 1 \in DOMAIN sources
        /\ sources'[j] = sources[j + 1] /\ j + 1 \in DOMAIN sources /\ i + 1 < j + 1
    BY <1>1, <1>2
  <2> QED  BY <2>1 DEF LInv, InOrder
<1> QED  BY <1>1, <1>2, <1>4, <1>5, <1>6 DEF l

\* The signal that is dispatched is the one its listeners are to hear next.
LEMMA FirstIsDue ==
  ASSUME LInv, DispatchSignal
  PROVE  /\ sources[1].op \in Op
         /\ sources[1].signal = Len(heard[sources[1].op]) + 1
         /\ sources[1].signal <= emitted[sources[1].op]
<1> DEFINE o == sources[1].op
           n == sources[1].signal
           h == Len(heard[o])
<1>1. o \in Op /\ n \in Nat \ {0} /\ h \in Nat
  BY SignalHeard DEF LInv
<1>2. Len(sources) \in Nat \ {0} /\ DOMAIN sources = 1 .. Len(sources)
  BY WithoutFirst DEF LInv, Typed, DispatchSignal
<1>3. 1 \in DOMAIN sources  BY <1>2
<1>4. h < n /\ n <= emitted[o]  BY <1>1, <1>3 DEF LInv, Pending
<1>5. emitted[o] \in Nat  BY <1>1 DEF LInv, Typed
<1> HIDE DEF o, n, h
<1>6. h + 1 \in h + 1 .. emitted[o]  BY <1>1, <1>4, <1>5
<1>7. PICK j \in DOMAIN sources : sources[j].op = o /\ sources[j].signal = h + 1
  BY <1>1, <1>6 DEF LInv, NoneLost, h
<1>8. n = h + 1
  <2>1. CASE j = 1  BY <1>7, <2>1 DEF n
  <2>2. CASE j # 1
    <3>1. 1 < j  BY <1>2, <2>2
    <3>2. sources[j].signal > 0  BY <1>1, <1>7
    <3>3. n < h + 1  BY <1>3, <1>7, <3>1, <3>2 DEF LInv, InOrder, n, o
    <3> QED  BY <1>1, <1>4, <3>3
  <2> QED  BY <2>1, <2>2
<1> QED  BY <1>1, <1>4, <1>8 DEF o, n, h

LEMMA SignalLoops ==
  ASSUME LInv, Typed', DispatchSignal
  PROVE  LInv'
<1> DEFINE o == sources[1].op
           n == sources[1].signal
           l == Len(sources)
<1>1. /\ UNCHANGED <<at, emitted, result>> /\ sources # <<>> /\ sources' = Without(1)
      /\ heard' = [heard EXCEPT ![o] = Append(heard[o], n)]
      /\ o \in Op /\ n \in Nat \ {0}
  BY SignalHeard DEF DispatchSignal, LInv
<1>2. /\ Len(heard[o]) \in Nat /\ Len(Append(heard[o], n)) = Len(heard[o]) + 1
      /\ \A k \in 1 .. Len(heard[o]) : Append(heard[o], n)[k] = heard[o][k]
      /\ Append(heard[o], n)[Len(heard[o]) + 1] = n
  BY SignalHeard DEF LInv
<1>3. n = Len(heard[o]) + 1 /\ n <= emitted[o]  BY FirstIsDue
<1>4. /\ Sourced' /\ CompletionIsLast' /\ InOrder'
      /\ l \in Nat \ {0} /\ DOMAIN sources' = 1 .. l - 1
      /\ \A j \in 1 .. l - 1 : sources'[j] = sources[j + 1]
      /\ \A j \in 1 .. l - 1 : j + 1 \in 2 .. l
  BY <1>1, RestOfLoop
<1>5. heard \in [Op -> Seq(Nat)] /\ sources \in Seq(SourceType) /\ emitted \in [Op -> Nat]
  BY DEF LInv, Typed
<1>6. /\ DOMAIN sources = 1 .. l /\ 1 \in DOMAIN sources
      /\ \A i \in 1 .. l : sources[i].op \in Op /\ sources[i].signal \in Nat
  BY <1>4, <1>5, SourceFields
<1> DEFINE h == Append(heard[o], n)
<1>7. /\ heard'[o] = h /\ Len(h) = n /\ \A p \in Op : p # o => heard'[p] = heard[p]
      /\ \A k \in 1 .. n : h[k] = IF k = n THEN n ELSE heard[o][k]
  BY <1>1, <1>2, <1>3, <1>5
<1>8. o \notin MainOp  BY <1>6 DEF LInv, Sourced
<1>9. \A i \in 2 .. l : sources[i].op = o /\ sources[i].signal > 0 => n < sources[i].signal
  <2>1. \A i \in 2 .. l : i \in DOMAIN sources /\ 1 < i  BY <1>4, <1>6
  <2> QED  BY <1>6, <2>1 DEF LInv, InOrder
<1>10. sources[1].op = o /\ sources[1].signal = n  OBVIOUS
<1> HIDE DEF n, o, h, l
<1>11. Pending'
  <2> SUFFICES ASSUME NEW i \in 1 .. l - 1, sources'[i].signal > 0
               PROVE  /\ Len(heard'[sources'[i].op]) < sources'[i].signal
                      /\ sources'[i].signal <= emitted[sources'[i].op]
    BY <1>1, <1>4 DEF Pending
  <2> DEFINE s == sources[i + 1]
  <2>1. sources'[i] = s /\ i + 1 \in 2 .. l /\ i + 1 \in DOMAIN sources
    BY <1>4, <1>6
  <2>2. Len(heard[s.op]) < s.signal /\ s.signal <= emitted[s.op] /\ s.op \in Op
    BY <1>6, <2>1 DEF LInv, Pending
  <2>3. CASE s.op = o  BY <1>7, <1>9, <2>1, <2>2, <2>3
  <2>4. CASE s.op # o  BY <1>7, <2>1, <2>2, <2>4
  <2> QED  BY <2>3, <2>4
<1>12. NoneLost'
  <2> SUFFICES ASSUME NEW p \in Op, NEW m \in Len(heard'[p]) + 1 .. emitted[p]
               PROVE  \E i \in 1 .. l - 1 : sources'[i].op = p /\ sources'[i].signal = m
    BY <1>1, <1>4 DEF NoneLost
  <2>1. m \in Len(heard[p]) + 1 .. emitted[p] /\ ~(p = o /\ m = n)
    <3>1. CASE p = o  BY <1>2, <1>3, <1>5, <1>7, <3>1
    <3>2. CASE p # o  BY <1>7, <3>2
    <3> QED  BY <3>1, <3>2
  <2>2. PICK i \in DOMAIN sources : sources[i].op = p /\ sources[i].signal = m
    BY <2>1 DEF LInv, NoneLost
  <2>3. i # 1  BY <1>10, <2>1, <2>2
  <2>4. i - 1 \in 1 .. l - 1 /\ (i - 1) + 1 = i  BY <1>4, <1>6, <2>3
  <2>5. sources'[i - 1] = sources[i]  BY <1>4, <2>4
  <2> QED  BY <2>2, <2>4, <2>5
<1>13. HeardInOrder'
  <2> SUFFICES ASSUME NEW p \in Op
               PROVE  /\ Len(heard'[p]) <= emitted[p]
                      /\ \A k \in 1 .. Len(heard'[p]) : heard'[p][k] = k
    BY <1>1 DEF HeardInOrder
  <2>1. CASE p = o
    <3>1. \A k \in 1 .. Len(heard[o]) : heard[o][k] = k  BY <1>1 DEF LInv, HeardInOrder
    <3>2. \A k \in 1 .. n : h[k] = k  BY <1>1, <1>2, <1>3, <1>7, <3>1
    <3> QED  BY <1>3, <1>7, <2>1, <3>2
  <2>2. CASE p # o  BY <1>7, <2>2 DEF LInv, HeardInOrder
  <2> QED  BY <2>1, <2>2
<1>14. HeardAtOnce'  BY <1>1, <1>7, <1>8, Names DEF LInv, HeardAtOnce
<1>15. Outcomes'  BY <1>1 DEF LInv, Outcomes
<1> QED  BY <1>4, <1>11, <1>12, <1>13, <1>14, <1>15 DEF LInv

\* When the completion is dispatched, the listeners have heard everything.
LEMMA AllHeard ==
  ASSUME LInv, DispatchCompletion
  PROVE  /\ sources[1].op \in AsyncOp /\ at[sources[1].op] = "attached"
         /\ Len(heard[sources[1].op]) = emitted[sources[1].op]
         /\ \A i \in 2 .. Len(sources) : sources[i].op # sources[1].op
<1> DEFINE o == sources[1].op
<1>1. /\ o \in AsyncOp /\ o \in Op /\ at[o] = "attached"
      /\ sources[1].signal = 0 /\ sources # <<>>
  BY Completed DEF LInv, Goto
<1>2. Len(sources) \in Nat \ {0} /\ DOMAIN sources = 1 .. Len(sources)
  BY WithoutFirst DEF LInv, Typed, DispatchCompletion
<1>3. \A i \in 2 .. Len(sources) : i \in DOMAIN sources /\ 1 \in DOMAIN sources /\ 1 < i
  BY <1>2
<1>4. \A i \in 2 .. Len(sources) : sources[i].op # o
  BY <1>1, <1>3 DEF LInv, CompletionIsLast
<1>5. Len(heard[o]) \in Nat /\ emitted[o] \in Nat /\ Len(heard[o]) <= emitted[o]
  BY <1>1, LenProperties DEF LInv, Typed, HeardInOrder
<1>6. ASSUME Len(heard[o]) < emitted[o] PROVE FALSE
  <2>1. Len(heard[o]) + 1 \in Len(heard[o]) + 1 .. emitted[o]  BY <1>5, <1>6
  <2>2. PICK i \in DOMAIN sources :
          sources[i].op = o /\ sources[i].signal = Len(heard[o]) + 1
    BY <1>1, <2>1 DEF LInv, NoneLost
  <2>3. i # 1  BY <1>1, <1>5, <2>2
  <2>4. i \in 2 .. Len(sources)  BY <1>2, <2>3
  <2> QED  BY <1>4, <2>2, <2>4
<1> QED  BY <1>1, <1>4, <1>5, <1>6

LEMMA CompletionLoops ==
  ASSUME LInv, Typed', DispatchCompletion
  PROVE  LInv'
<1> DEFINE o == sources[1].op
           l == Len(sources)
<1>1. /\ UNCHANGED <<emitted, heard, result>> /\ sources # <<>> /\ sources' = Without(1)
      /\ Goto(o, "attached", "done") /\ sources[1].signal = 0 /\ o \in Op
  BY Completed DEF DispatchCompletion, LInv
<1>2. \A i \in 2 .. l : sources[i].op # o  BY AllHeard
<1>3. at \in [Op -> Place] /\ sources \in Seq(SourceType)  BY DEF LInv, Typed
<1>4. at[o] = "attached" /\ at'[o] = "done" /\ \A p \in Op : p # o => at'[p] = at[p]
  BY <1>1, <1>3 DEF Goto
<1>5. /\ DOMAIN sources = 1 .. l /\ l \in Nat
      /\ \A i \in 1 .. l : sources[i].op \in Op /\ sources[i].signal \in Nat
  BY <1>3, SourceFields
<1>6. \A i \in 2 .. l : i \in 1 .. l  BY <1>5
<1>7. \A i \in 2 .. l : at'[sources[i].op] = at[sources[i].op]
  BY <1>2, <1>4, <1>5, <1>6
<1>8. /\ Sourced' /\ CompletionIsLast' /\ InOrder'
      /\ l \in Nat \ {0} /\ DOMAIN sources' = 1 .. l - 1
      /\ \A j \in 1 .. l - 1 : sources'[j] = sources[j + 1]
      /\ \A j \in 1 .. l - 1 : j + 1 \in 2 .. l
  BY <1>1, <1>7, RestOfLoop
<1> HIDE DEF l
<1>9. Pending'
  <2> SUFFICES ASSUME NEW i \in 1 .. l - 1, sources'[i].signal > 0
               PROVE  /\ Len(heard[sources'[i].op]) < sources'[i].signal
                      /\ sources'[i].signal <= emitted[sources'[i].op]
    BY <1>1, <1>8 DEF Pending
  <2>1. sources'[i] = sources[i + 1] /\ i + 1 \in DOMAIN sources  BY <1>5, <1>6, <1>8
  <2> QED  BY <2>1 DEF LInv, Pending
<1>10. NoneLost'
  <2>0. heard' = heard /\ emitted' = emitted /\ DOMAIN sources' = 1 .. l - 1
    BY <1>1, <1>8
  <2> SUFFICES ASSUME NEW p \in Op, NEW m \in Len(heard'[p]) + 1 .. emitted'[p]
               PROVE  \E i \in DOMAIN sources' : sources'[i].op = p /\ sources'[i].signal = m
    BY DEF NoneLost
  <2>1. PICK i \in DOMAIN sources : sources[i].op = p /\ sources[i].signal = m
    BY <2>0 DEF LInv, NoneLost
  <2>2. Len(heard[p]) \in Nat  BY LenProperties DEF LInv, Typed
  <2>3. i # 1  BY <1>1, <2>0, <2>1, <2>2
  <2>4. i - 1 \in 1 .. l - 1 /\ (i - 1) + 1 = i  BY <1>5, <1>8, <2>3
  <2>5. sources'[i - 1] = sources[i]  BY <1>8, <2>4
  <2> QED  BY <2>0, <2>1, <2>4, <2>5
<1>11. HeardInOrder' /\ HeardAtOnce'  BY <1>1 DEF LInv, HeardInOrder, HeardAtOnce
<1>12. Outcomes'  BY <1>1, <1>4 DEF LInv, Outcomes, After
<1> QED  BY <1>8, <1>9, <1>10, <1>11, <1>12 DEF LInv

LEMMA LoopNext == LInv /\ [Next]_vars => LInv'
<1> SUFFICES ASSUME LInv, [Next]_vars PROVE LInv'
  OBVIOUS
<1> USE DEF ignores, config, copies, life
<1>1. Typed'  BY TypedNext DEF LInv
<1>2. CASE UNCHANGED vars \/ SetProperty \/ Unref \/ SchemeAdded
  BY <1>1, <1>2, StillLoops DEF vars, SetProperty, Unref, SchemeAdded
<1>3. ASSUME NEW s \in Scheme, AddIgnoredScheme(s)  PROVE LInv'
  BY <1>1, <1>3, StillLoops DEF AddIgnoredScheme
<1>4. CASE DispatchSignal  BY <1>1, <1>4, SignalLoops
<1>5. CASE DispatchCompletion  BY <1>1, <1>5, CompletionLoops
<1>6. ASSUME NEW o \in Op, ParseAsync(o) \/ ParseInThread(o) \/ ParseInMain(o) \/ Cancel(o)
      PROVE  LInv'
  <2>1. CASE Cancel(o)  BY <1>1, <2>1, StillLoops DEF Cancel
  <2>2. CASE ParseAsync(o) \/ ParseInThread(o) \/ ParseInMain(o)
    <3>1. PICK to \in {"queued", "scheme"} : Goto(o, "new", to)
      BY <2>2 DEF ParseAsync, ParseInThread, ParseInMain, Goto
    <3>2. UNCHANGED <<emitted, sources, heard, result>>
      BY <2>2 DEF ParseAsync, ParseInThread, ParseInMain
    <3>3. emitted[o] = 0  BY <3>1 DEF LInv, Outcomes, Goto, After
    <3> QED  BY <1>1, <3>1, <3>2, <3>3, MoveLoops DEF Place, After
  <2> QED  BY <1>6, <2>1, <2>2
<1>7. ASSUME NEW o \in Op, Step(o)  PROVE LInv'
  <2> USE DEF Goto, Place, After
  <2>1. at[o] \notin {"parse", "return", "attached", "done"} => emitted[o] = 0
    BY DEF LInv, Outcomes
  <2>2. result \in [Op -> {"none", "PARSED", "UNHANDLED", "CANCELLED"}]
    BY DEF LInv, Typed
  <2>3. CASE StartWorker(o)
    <3>1. Goto(o, "queued", "start") /\ UNCHANGED <<emitted, sources, heard, result>>
      BY <2>3 DEF StartWorker
    <3> QED  BY <1>1, <2>1, <3>1, MoveLoops
  <2>4. CASE CheckCancelled(o)
    <3>1. CASE o \in cancelled
      <4>1. /\ Goto(o, "start", "return") /\ result' = [result EXCEPT ![o] = "CANCELLED"]
            /\ UNCHANGED <<emitted, sources, heard>>
        BY <2>4, <3>1 DEF CheckCancelled
      <4> QED  BY <1>1, <2>1, <2>2, <4>1, MoveLoops
    <3>2. CASE o \notin cancelled
      <4>1. Goto(o, "start", "scheme") /\ UNCHANGED <<emitted, sources, heard, result>>
        BY <2>4, <3>2 DEF CheckCancelled
      <4> QED  BY <1>1, <2>1, <4>1, MoveLoops
    <3> QED  BY <3>1, <3>2
  <2>5. CASE Lock(o)
    <3>1. PICK from \in {"scheme", "mimetype"}, to \in {"scheme locked", "mimetype locked"} :
            Goto(o, from, to)
      BY <2>5 DEF Lock
    <3>2. UNCHANGED <<emitted, sources, heard, result>>  BY <2>5 DEF Lock
    <3> QED  BY <1>1, <2>1, <3>1, <3>2, MoveLoops
  <2>6. CASE SchemeIsIgnored(o)
    <3>1. CASE SchemeOf[o] \in ignored
      <4>1. /\ Goto(o, "scheme locked", "return")
            /\ result' = [result EXCEPT ![o] = "UNHANDLED"]
            /\ UNCHANGED <<emitted, sources, heard>>
        BY <2>6, <3>1 DEF SchemeIsIgnored
      <4> QED  BY <1>1, <2>1, <2>2, <4>1, MoveLoops
    <3>2. CASE SchemeOf[o] \notin ignored
      <4>1. /\ Goto(o, "scheme locked", "copy recurse")
            /\ UNCHANGED <<emitted, sources, heard, result>>
        BY <2>6, <3>2 DEF SchemeIsIgnored
      <4> QED  BY <1>1, <2>1, <4>1, MoveLoops
    <3> QED  BY <3>1, <3>2
  <2>7. CASE CopyOption(o)
    <3>1. PICK from \in {"copy recurse", "copy force"}, to \in {"copy force", "mimetype"} :
            Goto(o, from, to)
      BY <2>7 DEF CopyOption
    <3>2. UNCHANGED <<emitted, sources, heard, result>>  BY <2>7 DEF CopyOption
    <3> QED  BY <1>1, <2>1, <3>1, <3>2, MoveLoops
  <2>8. CASE MimetypeIsIgnored(o)
    <3>1. /\ Goto(o, "mimetype locked", "parse")
          /\ UNCHANGED <<emitted, sources, heard, result>>
      BY <2>8 DEF MimetypeIsIgnored
    <3> QED  BY <1>1, <2>1, <3>1, MoveLoops
  <2>9. CASE Emit(o)  BY <1>1, <2>9, EmitLoops
  <2>10. CASE Parsed(o)
    <3>1. /\ Goto(o, "parse", "return") /\ result' = [result EXCEPT ![o] = "PARSED"]
          /\ UNCHANGED <<emitted, sources, heard>> /\ emitted[o] = Signals[o]
      BY <2>10 DEF Parsed
    <3> QED  BY <1>1, <2>2, <3>1, MoveLoops
  <2>11. CASE WorkerReturns(o)  BY <1>1, <2>11, ReturnLoops
  <2>12. CASE ThreadReturns(o) \/ MainReturns(o)
    <3>1. /\ Goto(o, "return", "done") /\ o \notin AsyncOp
          /\ UNCHANGED <<emitted, sources, heard, result>>
      BY <2>12, OpAssumption DEF ThreadReturns, MainReturns
    <3>2. \/ result[o] = "PARSED" /\ emitted[o] = Signals[o]
          \/ result[o] \in {"UNHANDLED", "CANCELLED"} /\ emitted[o] = 0
      BY <3>1 DEF LInv, Outcomes
    <3> QED  BY <1>1, <3>1, <3>2, MoveLoops
  <2> QED
    BY <1>7, <2>3, <2>4, <2>5, <2>6, <2>7, <2>8, <2>9, <2>10, <2>11, <2>12 DEF Step
<1> QED
  BY <1>2, <1>3, <1>4, <1>5, <1>6, <1>7, NextCases

LEMMA LoopHolds == Spec => []LInv
BY LoopInit, LoopNext, PTL DEF Spec

\* When idol_pl_parser_parse returns in the main thread, its listeners have
\* heard every signal of it, although the main loop has not run in between.
THEOREM HeardOnReturn == Spec => []DeliveredOnReturn
<1>1. LInv => DeliveredOnReturn  BY DEF LInv, HeardAtOnce, DeliveredOnReturn
<1> QED  BY <1>1, LoopHolds, PTL

-----------------------------------------------------------------------------
(***************************************************************************)
(* References.                                                             *)
(***************************************************************************)
\* The operations that hold a reference, and the signals in the loop that do.
Flying    == {o \in AsyncOp \cup ThreadOp : InFlight(o)}
Signalled == {i \in DOMAIN sources : sources[i].signal > 0}

\* The application keeps its reference while it is in a call.
CallsAreOwned == busy # "loop" => owned

Counted == refs = (IF owned THEN 1 ELSE 0) + Cardinality(Flying) + Cardinality(Signalled)

RInv == MInv /\ LInv /\ CallsAreOwned /\ Counted

LEMMA Countable ==
  ASSUME sources \in Seq(SourceType)
  PROVE  /\ IsFiniteSet(Flying) /\ Cardinality(Flying) \in Nat
         /\ IsFiniteSet(Signalled) /\ Cardinality(Signalled) \in Nat
<1>1. Flying \in SUBSET Op /\ IsFiniteSet(Op)  BY OpAssumption DEF Flying, Op
<1>2. IsFiniteSet(Flying)  BY <1>1, FS_Subset
<1>3. Len(sources) \in Nat /\ DOMAIN sources = 1 .. Len(sources)  BY LenProperties
<1>4. IsFiniteSet(1 .. Len(sources))  BY <1>3, FS_Interval
<1>5. Signalled \in SUBSET (1 .. Len(sources))  BY <1>3 DEF Signalled
<1>6. IsFiniteSet(Signalled)  BY <1>4, <1>5, FS_Subset
<1> QED  BY <1>2, <1>6, FS_CardinalityType

LEMMA TakesOff ==
  ASSUME Typed, NEW o \in AsyncOp \cup ThreadOp, NEW to \in Place \ {"new", "done"},
         Goto(o, "new", to)
  PROVE  Cardinality(Flying') = Cardinality(Flying) + 1
<1>1. \A p \in Op : p # o => at'[p] = at[p]  BY DEF Typed, Goto
<1>2. o \in Op /\ at[o] = "new" /\ at'[o] = to  BY DEF Typed, Goto, Op
<1>3. Flying' = Flying \cup {o} /\ o \notin Flying
  BY <1>1, <1>2 DEF Flying, InFlight, Op
<1> QED  BY <1>3, Countable, FS_AddElement DEF Typed

LEMMA Lands ==
  ASSUME Typed, NEW o \in AsyncOp \cup ThreadOp, NEW from \in Place \ {"new", "done"},
         Goto(o, from, "done")
  PROVE  Cardinality(Flying') = Cardinality(Flying) - 1
<1>1. \A p \in Op : p # o => at'[p] = at[p]  BY DEF Typed, Goto
<1>2. o \in Op /\ at[o] = from /\ at'[o] = "done"  BY DEF Typed, Goto, Op
<1>3. Flying' = Flying \ {o} /\ o \in Flying
  BY <1>1, <1>2 DEF Flying, InFlight, Op
<1> QED  BY <1>3, Countable, FS_RemoveElement DEF Typed

LEMMA FliesOn ==
  ASSUME Typed, NEW o \in Op, NEW from, NEW to, Goto(o, from, to),
         \/ from \notin {"new", "done"} /\ to \notin {"new", "done"}
         \/ o \in MainOp
  PROVE  Flying' = Flying
<1>1. \A p \in Op : p # o => at'[p] = at[p]  BY DEF Typed, Goto
<1>2. at[o] = from /\ at'[o] = to  BY DEF Typed, Goto
<1> QED  BY <1>1, <1>2, Names DEF Flying, InFlight, Op

LEMMA OneSignalMore ==
  ASSUME Typed, NEW s \in SourceType, sources' = Append(sources, s)
  PROVE  Cardinality(Signalled') = Cardinality(Signalled) + IF s.signal > 0 THEN 1 ELSE 0
<1> DEFINE l == Len(sources)
<1>1. sources \in Seq(SourceType)  BY DEF Typed
<1>2. /\ l \in Nat /\ DOMAIN sources = 1 .. l /\ DOMAIN sources' = 1 .. l + 1
      /\ \A j \in 1 .. l : sources'[j] = sources[j]
      /\ sources'[l + 1] = s
  BY <1>1, AppendSource
<1> HIDE DEF l
<1>3. l + 1 \notin Signalled  BY <1>2 DEF Signalled
<1>4. CASE s.signal > 0
  <2>1. Signalled' = Signalled \cup {l + 1}
    <3>1. \A i \in 1 .. l + 1 : i = l + 1 \/ i \in 1 .. l  BY <1>2
    <3>2. \A i \in 1 .. l : i \in 1 .. l + 1 /\ i # l + 1  BY <1>2
    <3> QED  BY <1>2, <1>4, <3>1, <3>2 DEF Signalled
  <2> QED  BY <1>1, <1>3, <1>4, <2>1, Countable, FS_AddElement
<1>5. CASE ~(s.signal > 0)
  <2>1. Signalled' = Signalled
    <3>1. \A i \in 1 .. l + 1 : i = l + 1 \/ i \in 1 .. l  BY <1>2
    <3>2. \A i \in 1 .. l : i \in 1 .. l + 1 /\ i # l + 1  BY <1>2
    <3> QED  BY <1>2, <1>5, <3>1, <3>2 DEF Signalled
  <2> QED  BY <1>1, <1>5, <2>1, Countable
<1> QED  BY <1>4, <1>5

LEMMA OneSourceLess ==
  ASSUME Typed, sources # <<>>, sources' = Without(1)
  PROVE  Cardinality(Signalled') = Cardinality(Signalled) - IF sources[1].signal > 0 THEN 1 ELSE 0
<1> DEFINE l == Len(sources)
           S == Signalled \ {1}
           f == [i \in S |-> i - 1]
<1>1. sources \in Seq(SourceType)  BY DEF Typed
<1>2. /\ l \in Nat \ {0} /\ DOMAIN sources = 1 .. l /\ DOMAIN sources' = 1 .. l - 1
      /\ \A j \in 1 .. l - 1 : sources'[j] = sources[j + 1]
  BY <1>1, WithoutFirst
<1>3. IsFiniteSet(Signalled) /\ Cardinality(Signalled) \in Nat  BY <1>1, Countable
<1>4. /\ IsFiniteSet(S)
      /\ Cardinality(S) = Cardinality(Signalled) - IF sources[1].signal > 0 THEN 1 ELSE 0
  <2>1. 1 \in Signalled <=> sources[1].signal > 0  BY <1>2 DEF Signalled
  <2> QED  BY <1>3, <2>1, FS_RemoveElement
<1> HIDE DEF l
<1>5. f \in Bijection(S, Signalled')
  <2>1. \A i \in S : i - 1 \in 1 .. l - 1 /\ (i - 1) + 1 = i  BY <1>2 DEF Signalled
  <2>2. \A i \in S : i - 1 \in Signalled'  BY <1>2, <2>1 DEF Signalled
  <2>3. \A j \in 1 .. l - 1 : j + 1 \in 1 .. l /\ j + 1 # 1 /\ (j + 1) - 1 = j  BY <1>2
  <2>4. \A j \in Signalled' : j + 1 \in S /\ (j + 1) - 1 = j
    BY <1>2, <2>3 DEF Signalled
  <2>5. \A a, b \in S : f[a] = f[b] => a = b  BY <2>1
  <2>6. \A j \in Signalled' : \E i \in S : f[i] = j  BY <2>4
  <2>7. f \in [S -> Signalled']  BY <2>2
  <2> HIDE DEF f, S
  <2> QED  BY <2>5, <2>6, <2>7, Fun_IsBij
<1>6. ExistsBijection(S, Signalled')  BY <1>5 DEF ExistsBijection
<1> HIDE DEF S
<1> QED  BY <1>4, <1>6, FS_Bijection

\* A step that changes none of the counts.
LEMMA StillCounts ==
  ASSUME RInv, Flying' = Flying, UNCHANGED <<sources, refs, owned>>
  PROVE  Counted'
<1>1. Signalled' = Signalled  BY DEF Signalled
<1> QED  BY <1>1 DEF RInv, Counted

LEMMA CountedNext == RInv /\ [Next]_vars => Counted'
<1> SUFFICES ASSUME RInv, [Next]_vars PROVE Counted'
  OBVIOUS
<1> USE DEF ignores, config, copies, life
<1>1. /\ Typed /\ sources \in Seq(SourceType)
      /\ Cardinality(Flying) \in Nat /\ Cardinality(Signalled) \in Nat
  BY Countable DEF RInv, LInv, Typed
<1>2. ASSUME UNCHANGED at PROVE Flying' = Flying  BY <1>2 DEF Flying, InFlight
<1>3. ASSUME UNCHANGED sources PROVE Signalled' = Signalled  BY <1>3 DEF Signalled
<1>4. CASE UNCHANGED vars \/ SetProperty \/ SchemeAdded
  BY <1>2, <1>4, StillCounts DEF vars, SetProperty, SchemeAdded
<1>5. CASE Unref
  <2>1. owned /\ ~owned' /\ refs' = refs - 1 /\ UNCHANGED <<at, sources>>
    BY <1>5 DEF Unref, Free
  <2> QED  BY <1>1, <1>2, <1>3, <2>1 DEF RInv, Counted
<1>6. ASSUME NEW s \in Scheme, AddIgnoredScheme(s)  PROVE Counted'
  BY <1>2, <1>6, StillCounts DEF AddIgnoredScheme
<1>7. CASE DispatchSignal
  <2>1. sources # <<>> /\ sources' = Without(1) /\ sources[1].signal > 0
    BY <1>7, SignalHeard DEF RInv, LInv, DispatchSignal
  <2>2. Cardinality(Signalled') = Cardinality(Signalled) - 1  BY <1>1, <2>1, OneSourceLess
  <2>3. refs' = refs - 1 /\ UNCHANGED <<at, owned>>  BY <1>7 DEF DispatchSignal
  <2> QED  BY <1>1, <1>2, <2>2, <2>3 DEF RInv, Counted
<1>8. CASE DispatchCompletion
  <2> DEFINE o == sources[1].op
  <2>1. /\ sources # <<>> /\ sources' = Without(1) /\ sources[1].signal = 0
        /\ o \in AsyncOp /\ Goto(o, "attached", "done")
    BY <1>8, Completed DEF RInv, LInv
  <2> HIDE DEF o
  <2>2. Cardinality(Signalled') = Cardinality(Signalled)  BY <1>1, <2>1, OneSourceLess
  <2>3. Cardinality(Flying') = Cardinality(Flying) - 1
    BY <1>1, <2>1, Lands DEF Place
  <2>4. refs' = refs - 1 /\ UNCHANGED owned  BY <1>8 DEF DispatchCompletion
  <2> QED  BY <1>1, <2>2, <2>3, <2>4 DEF RInv, Counted
<1>9. ASSUME NEW o \in Op, ParseAsync(o) \/ ParseInThread(o) \/ ParseInMain(o) \/ Cancel(o)
      PROVE  Counted'
  <2>1. CASE ParseAsync(o) \/ ParseInThread(o)
    <3>1. o \in AsyncOp \cup ThreadOp /\ \E to \in {"queued", "scheme"} : Goto(o, "new", to)
      BY <2>1 DEF ParseAsync, ParseInThread, Goto
    <3>2. Cardinality(Flying') = Cardinality(Flying) + 1
      BY <1>1, <3>1, TakesOff DEF Place
    <3>3. refs' = refs + 1 /\ UNCHANGED <<sources, owned>>
      BY <2>1 DEF ParseAsync, ParseInThread
    <3> QED  BY <1>1, <1>3, <3>2, <3>3 DEF RInv, Counted
  <2>2. CASE ParseInMain(o)
    <3>1. o \in MainOp /\ Goto(o, "new", "scheme") /\ UNCHANGED <<sources, refs, owned>>
      BY <2>2 DEF ParseInMain, Goto
    <3> QED  BY <1>1, <3>1, FliesOn, StillCounts
  <2>3. CASE Cancel(o)  BY <1>2, <2>3, StillCounts DEF Cancel
  <2> QED  BY <1>9, <2>1, <2>2, <2>3
<1>10. ASSUME NEW o \in Op, Step(o)  PROVE Counted'
  <2>1. CASE \/ StartWorker(o) \/ CheckCancelled(o) \/ Lock(o) \/ SchemeIsIgnored(o)
             \/ CopyOption(o) \/ MimetypeIsIgnored(o) \/ Parsed(o)
    <3>1. \E from, to \in Place \ {"new", "done"} : Goto(o, from, to)
      BY <2>1 DEF StartWorker, CheckCancelled, Lock, SchemeIsIgnored, CopyOption,
                  MimetypeIsIgnored, Parsed, Place
    <3>2. UNCHANGED <<sources, refs, owned>>
      BY <2>1 DEF StartWorker, CheckCancelled, Lock, SchemeIsIgnored, CopyOption,
                  MimetypeIsIgnored, Parsed
    <3> QED  BY <1>1, <3>1, <3>2, FliesOn, StillCounts
  <2>2. CASE Emit(o)
    <3>1. UNCHANGED <<at, owned>>  BY <2>2 DEF Emit
    <3>2. CASE o \in MainOp
      <4>1. UNCHANGED <<sources, refs>>  BY <2>2, <3>2 DEF Emit
      <4> QED  BY <1>2, <3>1, <4>1, StillCounts
    <3>3. CASE o \notin MainOp
      <4> DEFINE s == SignalSource(o, emitted[o] + 1)
      <4>1. sources' = Append(sources, s) /\ s \in SourceType /\ refs' = refs + 1
        BY <1>1, <2>2, <3>3, Emitted
      <4>2. s.signal > 0
        <5>1. emitted[o] + 1 \in Nat \ {0}  BY <1>1 DEF Typed
        <5>2. s.signal = emitted[o] + 1  BY <5>1, SourceTypes
        <5> QED  BY <5>1, <5>2
      <4> HIDE DEF s
      <4>3. Cardinality(Signalled') = Cardinality(Signalled) + 1
        BY <1>1, <4>1, <4>2, OneSignalMore
      <4>4. Flying' = Flying /\ owned' = owned  BY <1>2, <3>1
      <4>5. refs' = refs + 1  BY <4>1
      <4> QED  BY <1>1, <4>3, <4>4, <4>5 DEF RInv, Counted
    <3> QED  BY <3>2, <3>3
  <2>3. CASE WorkerReturns(o)
    <3> DEFINE s == CompletionSource(o)
    <3>1. /\ Goto(o, "return", "attached") /\ sources' = Append(sources, s)
          /\ UNCHANGED <<refs, owned>>
      BY <2>3 DEF WorkerReturns
    <3>2. s \in SourceType /\ s.signal = 0  BY SourceTypes, 0 \in Nat
    <3> HIDE DEF s
    <3>3. Cardinality(Signalled') = Cardinality(Signalled)
      BY <1>1, <3>1, <3>2, OneSignalMore
    <3>4. Flying' = Flying  BY <1>1, <3>1, FliesOn
    <3> QED  BY <3>1, <3>3, <3>4 DEF RInv, Counted
  <2>4. CASE ThreadReturns(o)
    <3>1. /\ o \in ThreadOp /\ Goto(o, "return", "done")
          /\ refs' = refs - 1 /\ UNCHANGED <<sources, owned>>
      BY <2>4 DEF ThreadReturns
    <3>2. Cardinality(Flying') = Cardinality(Flying) - 1
      BY <1>1, <3>1, Lands DEF Place
    <3> QED  BY <1>1, <1>3, <3>1, <3>2 DEF RInv, Counted
  <2>5. CASE MainReturns(o)
    <3>1. o \in MainOp /\ Goto(o, "return", "done") /\ UNCHANGED <<sources, refs, owned>>
      BY <2>5 DEF MainReturns
    <3> QED  BY <1>1, <3>1, FliesOn, StillCounts
  <2> QED  BY <1>10, <2>1, <2>2, <2>3, <2>4, <2>5 DEF Step
<1> QED
  BY <1>4, <1>5, <1>6, <1>7, <1>8, <1>9, <1>10, NextCases

LEMMA OwnedNext == RInv /\ [Next]_vars => CallsAreOwned'
<1> SUFFICES ASSUME RInv, [Next]_vars PROVE CallsAreOwned'
  OBVIOUS
<1> USE DEF RInv, CallsAreOwned, life, Free
<1>1. CASE UNCHANGED vars \/ SetProperty \/ Unref \/ DispatchSignal \/ DispatchCompletion
  BY <1>1 DEF vars, SetProperty, Unref, DispatchSignal, DispatchCompletion
<1>2. ASSUME NEW s \in Scheme, AddIgnoredScheme(s)  PROVE CallsAreOwned'
  BY <1>2 DEF AddIgnoredScheme
<1>3. ASSUME NEW o \in Op, ParseAsync(o) \/ ParseInThread(o) \/ ParseInMain(o) \/ Cancel(o)
      PROVE  CallsAreOwned'
  BY <1>3 DEF ParseAsync, ParseInThread, ParseInMain, Cancel
<1>4. CASE SchemeAdded  BY <1>4 DEF SchemeAdded
<1>5. ASSUME NEW o \in Op, Step(o)  PROVE CallsAreOwned'
  BY <1>5 DEF Step, StartWorker, CheckCancelled, Lock, SchemeIsIgnored, CopyOption,
              MimetypeIsIgnored, Emit, Parsed, WorkerReturns, ThreadReturns, MainReturns
<1> QED  BY <1>1, <1>2, <1>3, <1>4, <1>5, NextCases

LEMMA CountInit == Init => RInv
<1> SUFFICES ASSUME Init PROVE RInv  OBVIOUS
<1>1. Flying = {} /\ Signalled = {}
  BY DEF Init, Flying, Signalled, InFlight, Op
<1>2. refs = 1 /\ owned /\ busy = "loop"  BY DEF Init
<1>3. Counted  BY <1>1, <1>2, FS_EmptySet DEF Counted
<1> QED  BY <1>2, <1>3, MutexInit, LoopInit DEF RInv, CallsAreOwned

LEMMA CountHolds == Spec => []RInv
<1>1. RInv /\ [Next]_vars => RInv'
  BY MutexNext, LoopNext, CountedNext, OwnedNext DEF RInv
<1> QED  BY <1>1, CountInit, PTL DEF Spec

\* Whoever may still touch the object has a reference counted: a call in the main
\* thread has the application's, and a source its own or its operation's.
LEMMA CountSuffices == RInv => RefAccounting
<1> SUFFICES ASSUME RInv PROVE RefAccounting  OBVIOUS
<1>1. /\ refs = (IF owned THEN 1 ELSE 0) + Cardinality(Flying) + Cardinality(Signalled)
      /\ sources \in Seq(SourceType)
  BY DEF RInv, Counted, LInv, Typed
<1>2. /\ Cardinality(Flying) \in Nat /\ IsFiniteSet(Flying)
      /\ Cardinality(Signalled) \in Nat /\ IsFiniteSet(Signalled)
  BY <1>1, Countable
<1>3. Flying # {} => refs > 0
  <2>1. Flying # {} => Cardinality(Flying) > 0  BY <1>2, FS_EmptySet
  <2> QED  BY <1>1, <1>2, <2>1
<1>4. Signalled # {} => refs > 0
  <2>1. Signalled # {} => Cardinality(Signalled) > 0  BY <1>2, FS_EmptySet
  <2> QED  BY <1>1, <1>2, <2>1
<1>5. ASSUME sources # <<>> PROVE refs > 0
  <2>1. 1 \in DOMAIN sources /\ sources[1].signal \in Nat
    <3>1. Len(sources) \in Nat \ {0} /\ DOMAIN sources = 1 .. Len(sources)
      BY <1>1, <1>5, WithoutFirst
    <3> QED  BY <1>1, <3>1, SourceFields
  <2>2. CASE sources[1].signal = 0
    <3>1. sources[1].op \in AsyncOp /\ at[sources[1].op] = "attached"
      BY <2>1, <2>2 DEF RInv, LInv, Sourced
    <3> QED  BY <1>3, <3>1 DEF Flying, InFlight
  <2>3. CASE sources[1].signal > 0
    <3>1. 1 \in Signalled  BY <2>1, <2>3 DEF Signalled
    <3> QED  BY <1>4, <3>1
  <2> QED  BY <2>1, <2>2, <2>3
<1>6. ASSUME NEW o \in Op, InFlight(o) PROVE refs > 0
  <2>1. CASE o \in MainOp
    <3>1. busy = o  BY <1>6, <2>1 DEF RInv, MInv, CallsInMain, InFlight
    <3>2. owned  BY <3>1, Names DEF RInv, CallsAreOwned
    <3> QED  BY <1>1, <1>2, <3>2
  <2>2. CASE o \notin MainOp  BY <1>3, <1>6, <2>2 DEF Flying, Op
  <2> QED  BY <2>1, <2>2
<1> QED  BY <1>1, <1>5, <1>6 DEF RefAccounting, Flying, Signalled

\* The object has exactly the references of the application, of the operations in
\* flight and of the signals in the main loop: it outlives everything that will
\* touch it, however the threads run, and is gone when nothing is left.
THEOREM References == Spec => []RefAccounting
BY CountSuffices, CountHolds, PTL

\* The variables keep their types, and the reference count never drops below zero.
THEOREM TypeCorrect == Spec => []TypeOK
<1>1. RInv => TypeOK
  <2> SUFFICES ASSUME RInv PROVE TypeOK  OBVIOUS
  <2>1. Typed  BY DEF RInv, LInv
  <2>2. refs \in Nat
    <3>1. Cardinality(Flying) \in Nat /\ Cardinality(Signalled) \in Nat
      BY <2>1, Countable DEF Typed
    <3> QED  BY <3>1 DEF RInv, Counted
  <2> QED  BY <2>1, <2>2 DEF Typed, TypeOK, Place, SourceType
<1> QED  BY <1>1, CountHolds, PTL

-----------------------------------------------------------------------------
(***************************************************************************)
(* Options.                                                                *)
(***************************************************************************)
\* Half-way through its copy a parse has one option that was in force, and the
\* options in force now are among those it may still take the other one from.
HalfCopied ==
  \A o \in Op : at[o] = "copy force" =>
    options \in stood[o] /\ \E s \in stood[o] : copied[o].recurse = s.recurse

Copied ==
  \A o \in Op : at[o] \in {"mimetype", "mimetype locked", "parse"} =>
    /\ \E s \in stood[o] : copied[o].recurse = s.recurse
    /\ \E s \in stood[o] : copied[o].force = s.force

OInv == HalfCopied /\ Copied

\* A parse that does not copy, and a step that leaves the options alone.
LEMMA MoveCopies ==
  ASSUME Typed, OInv, UNCHANGED <<options, copied, stood>>,
         \A o \in Op :
           /\ at'[o] = "copy force" => at[o] = "copy force"
           /\ at'[o] \in {"mimetype", "mimetype locked", "parse"}
                => at[o] \in {"mimetype", "mimetype locked", "parse"}
  PROVE  OInv'
BY DEF OInv, HalfCopied, Copied

LEMMA OptionsNext == Typed /\ OInv /\ [Next]_vars => OInv'
<1> SUFFICES ASSUME Typed, OInv, [Next]_vars PROVE OInv'
  OBVIOUS
<1> USE DEF config, copies
<1>1. at \in [Op -> Place]  BY DEF Typed
<1>2. CASE \/ UNCHANGED vars \/ Unref \/ SchemeAdded \/ DispatchSignal
           \/ \E s \in Scheme : AddIgnoredScheme(s)
           \/ \E o \in Op : Cancel(o)
  <2>1. UNCHANGED <<at, options, copied, stood>>
    BY <1>2 DEF vars, Unref, SchemeAdded, DispatchSignal, AddIgnoredScheme, Cancel
  <2> QED  BY <2>1, MoveCopies
<1>3. CASE DispatchCompletion
  <2>1. UNCHANGED <<options, copied, stood>>  BY <1>3 DEF DispatchCompletion
  <2>2. at' = [at EXCEPT ![sources[NextSource].op] = "done"]
    BY <1>3 DEF DispatchCompletion, Goto
  <2> QED  BY <1>1, <2>1, <2>2, MoveCopies
<1>4. ASSUME NEW o \in Op, ParseAsync(o) \/ ParseInThread(o) \/ ParseInMain(o)  PROVE OInv'
  <2>1. UNCHANGED <<options, copied, stood>>
    BY <1>4 DEF ParseAsync, ParseInThread, ParseInMain
  <2>2. \E to \in {"queued", "scheme"} : at' = [at EXCEPT ![o] = to]
    BY <1>4 DEF ParseAsync, ParseInThread, ParseInMain
  <2> QED  BY <1>1, <2>1, <2>2, MoveCopies
<1>5. CASE SetProperty
  <2>1. /\ UNCHANGED <<at, copied>> /\ stood \in [Op -> SUBSET Options]
        /\ stood' = [o \in Op |-> IF at[o] = "copy force"
                                  THEN stood[o] \cup {options'} ELSE stood[o]]
    BY <1>5 DEF SetProperty, Typed
  <2>2. \A o \in Op : /\ stood[o] \subseteq stood'[o]
                      /\ at[o] = "copy force" => options' \in stood'[o]
    BY <2>1
  <2> QED  BY <2>1, <2>2 DEF OInv, HalfCopied, Copied
<1>6. ASSUME NEW o \in Op, Step(o)  PROVE OInv'
  <2>1. CASE CopyOption(o)
    <3>1. options' = options  BY <2>1 DEF CopyOption
    <3>2. copied \in [Op -> Options] /\ stood \in [Op -> SUBSET Options]  BY DEF Typed
    <3>3. CASE at[o] = "copy recurse"
      <4>1. /\ at' = [at EXCEPT ![o] = "copy force"]
            /\ copied' = [copied EXCEPT ![o].recurse = options.recurse]
            /\ stood' = [stood EXCEPT ![o] = {options}]
        BY <2>1, <3>3 DEF CopyOption, Goto
      <4>2. at'[o] = "copy force" /\ stood'[o] = {options}
        BY <1>1, <3>2, <4>1
      <4>3. copied'[o].recurse = options.recurse  BY <3>2, <4>1 DEF Options
      <4>4. \A p \in Op : p # o => at'[p] = at[p] /\ stood'[p] = stood[p] /\ copied'[p] = copied[p]
        BY <1>1, <3>2, <4>1
      <4>5. options \in stood'[o] /\ copied'[o].recurse = options.recurse  BY <4>2, <4>3
      <4>6. HalfCopied'  BY <3>1, <4>4, <4>5, ZenonT(40) DEF OInv, HalfCopied
      <4>7. Copied'
        <5> SUFFICES ASSUME NEW p \in Op, at'[p] \in {"mimetype", "mimetype locked", "parse"}
                     PROVE  /\ \E s \in stood'[p] : copied'[p].recurse = s.recurse
                            /\ \E s \in stood'[p] : copied'[p].force = s.force
          BY DEF Copied
        <5>1. p # o  BY <4>2
        <5>2. at'[p] = at[p] /\ stood'[p] = stood[p] /\ copied'[p] = copied[p]
          BY <4>4, <5>1
        <5>3. /\ \E s \in stood[p] : copied[p].recurse = s.recurse
              /\ \E s \in stood[p] : copied[p].force = s.force
          BY <5>2 DEF OInv, Copied
        <5> QED  BY <5>2, <5>3
      <4> QED  BY <4>6, <4>7 DEF OInv
    <3>4. CASE at[o] = "copy force"
      <4>1. /\ at' = [at EXCEPT ![o] = "mimetype"]
            /\ copied' = [copied EXCEPT ![o].force = options.force]
            /\ stood' = stood
        BY <2>1, <3>4 DEF CopyOption, Goto
      <4>2. at'[o] = "mimetype"  BY <1>1, <4>1
      <4>3. copied'[o].force = options.force /\ copied'[o].recurse = copied[o].recurse
        BY <3>2, <4>1 DEF Options
      <4>4. \A p \in Op : p # o => at'[p] = at[p] /\ copied'[p] = copied[p]
        BY <1>1, <3>2, <4>1
      <4>5. options \in stood[o] /\ \E s \in stood[o] : copied[o].recurse = s.recurse
        BY <3>4 DEF OInv, HalfCopied
      <4>6. HalfCopied'  BY <3>1, <4>1, <4>2, <4>4, ZenonT(40) DEF OInv, HalfCopied
      <4>7. Copied'
        <5> SUFFICES ASSUME NEW p \in Op, at'[p] \in {"mimetype", "mimetype locked", "parse"}
                     PROVE  /\ \E s \in stood[p] : copied'[p].recurse = s.recurse
                            /\ \E s \in stood[p] : copied'[p].force = s.force
          BY <4>1 DEF Copied
        <5>1. CASE p = o  BY <4>3, <4>5, <5>1
        <5>2. CASE p # o  BY <4>4, <5>2 DEF OInv, Copied
        <5> QED  BY <5>1, <5>2
      <4> QED  BY <4>6, <4>7 DEF OInv
    <3> QED  BY <2>1, <3>3, <3>4 DEF CopyOption, Goto
  <2>2. CASE ~CopyOption(o)
    <3>1. UNCHANGED <<options, copied, stood>>
      BY <1>6, <2>2
      DEF Step, StartWorker, CheckCancelled, Lock, SchemeIsIgnored, MimetypeIsIgnored,
          Emit, Parsed, WorkerReturns, ThreadReturns, MainReturns
    <3>2. \/ at' = at
          \/ at[o] \in {"mimetype", "mimetype locked"} /\ \E to : at' = [at EXCEPT ![o] = to]
          \/ \E to \in {"start", "return", "scheme", "scheme locked", "copy recurse",
                        "attached", "done"} : at' = [at EXCEPT ![o] = to]
      BY <1>6, <2>2
      DEF Step, StartWorker, CheckCancelled, Lock, SchemeIsIgnored, MimetypeIsIgnored,
          Emit, Parsed, WorkerReturns, ThreadReturns, MainReturns, Goto
    <3>3. at[o] \in {"mimetype", "mimetype locked"} =>
            at'[o] \in Place \ {"copy force"}
      BY <1>1, <1>6, <2>2
      DEF Step, StartWorker, CheckCancelled, Lock, SchemeIsIgnored, MimetypeIsIgnored,
          Emit, Parsed, WorkerReturns, ThreadReturns, MainReturns, Goto, Place
    <3> QED  BY <1>1, <3>1, <3>2, <3>3, MoveCopies
  <2> QED  BY <2>1, <2>2
<1> QED  BY <1>2, <1>3, <1>4, <1>5, <1>6, NextCases

\* A parse works with options that were in force while it copied them, whatever
\* the application sets meanwhile or later.
THEOREM OptionsStood == Spec => []OptionsWhole
<1>1. Init => OInv
  BY DEF Init, OInv, HalfCopied, Copied
<1>2. LInv => Typed  BY DEF LInv
<1>3. OInv => OptionsWhole
  <2> SUFFICES ASSUME OInv, NEW o \in Op,
                      at[o] \in {"mimetype", "mimetype locked", "parse"},
                      NEW option \in {"recurse", "force"}
               PROVE  \E s \in stood[o] : copied[o][option] = s[option]
    BY DEF OptionsWhole
  <2>1. CASE option = "recurse"  BY <2>1 DEF OInv, Copied
  <2>2. CASE option = "force"  BY <2>2 DEF OInv, Copied
  <2> QED  BY <2>1, <2>2
<1> QED  BY <1>1, <1>2, <1>3, OptionsNext, LoopHolds, PTL DEF Spec

(***************************************************************************)
(* Every step of AsyncParse is, for those who listen to an asynchronous    *)
(* parse, a step of AsyncPromise or none at all.                           *)
(***************************************************************************)
Asked   == {o \in AsyncOp : at[o] # "new"}
Arrived == [o \in AsyncOp |-> heard[o]]
Outcome == [o \in AsyncOp |-> IF at[o] = "done" THEN result[o] ELSE "pending"]

LEMMA PromiseVars ==
  ASSUME UNCHANGED <<Asked, Arrived, Outcome>>
  PROVE  UNCHANGED Promise!vars
BY DEF Promise!vars, Asked, Arrived, Outcome

\* Before, between and after the steps that asking, hearing and finishing are,
\* the listeners notice nothing.
LEMMA Unnoticed ==
  ASSUME \A o \in AsyncOp : /\ at'[o] = "new" <=> at[o] = "new"
                            /\ at'[o] = "done" <=> at[o] = "done"
                            /\ at[o] = "done" => result'[o] = result[o]
                            /\ heard'[o] = heard[o]
  PROVE  UNCHANGED Promise!vars
<1>1. UNCHANGED Asked  BY DEF Asked
<1>2. UNCHANGED Arrived  BY DEF Arrived
<1>3. UNCHANGED Outcome  BY DEF Outcome
<1> QED  BY <1>1, <1>2, <1>3, PromiseVars

LEMMA PromiseSteps ==
  ASSUME NEW o \in AsyncOp, Promise!Ask(o) \/ Promise!Hear(o) \/ Promise!Finish(o)
  PROVE  Promise!Next
BY DEF Promise!Next

LEMMA PromiseInit == Init => Promise!Init
BY DEF Init, Promise!Init, Op

LEMMA AskIsAsk ==
  ASSUME LInv, NEW o \in AsyncOp, ParseAsync(o)
  PROVE  Promise!Ask(o)
<1>1. /\ at \in [Op -> Place] /\ o \in Op /\ AsyncOp \subseteq Op
      /\ at[o] = "new" /\ at' = [at EXCEPT ![o] = "queued"] /\ UNCHANGED <<heard, result>>
  BY DEF LInv, Typed, ParseAsync, Op
<1>2. at'[o] = "queued" /\ \A p \in AsyncOp : p # o => at'[p] = at[p]  BY <1>1
<1>3. o \notin Asked /\ Asked' = Asked \cup {o}  BY <1>1, <1>2 DEF Asked
<1>4. UNCHANGED Arrived  BY <1>1 DEF Arrived
<1>5. UNCHANGED Outcome
  <2>1. \A p \in AsyncOp : at'[p] = "done" <=> at[p] = "done"  BY <1>1, <1>2
  <2> QED  BY <1>1, <2>1 DEF Outcome
<1> QED  BY <1>3, <1>4, <1>5 DEF Promise!Ask, Asked, Arrived, Outcome

LEMMA HearIsHear ==
  ASSUME LInv, DispatchSignal, NEW o \in AsyncOp, sources[1].op = o
  PROVE  Promise!Hear(o)
<1> DEFINE n == sources[1].signal
<1>1. /\ o \in AsyncOp /\ o \in Op
      /\ heard' = [heard EXCEPT ![o] = Append(heard[o], n)]
      /\ UNCHANGED <<at, result>>
  BY SignalHeard DEF LInv, DispatchSignal
<1>2. n = Len(heard[o]) + 1 /\ n <= emitted[o]  BY FirstIsDue
<1>3. at[o] \notin {"new", "done"}
  <2>1. 1 \in DOMAIN sources  BY WithoutFirst DEF LInv, Typed, DispatchSignal
  <2> QED  BY <1>1, <2>1 DEF LInv, Sourced
<1>4. /\ Len(heard[o]) \in Nat /\ emitted[o] \in Nat /\ emitted[o] <= Signals[o]
      /\ Signals[o] \in Nat /\ heard \in [Op -> Seq(Nat)]
  BY <1>1, LenProperties, SignalsAssumption DEF LInv, Typed
<1> HIDE DEF n
<1>5. Len(heard[o]) < Signals[o]  BY <1>2, <1>4
<1>6. UNCHANGED <<Asked, Outcome>>  BY <1>1 DEF Asked, Outcome
<1>7. Arrived' = [Arrived EXCEPT ![o] = Append(Arrived[o], Len(Arrived[o]) + 1)]
  BY <1>1, <1>2, <1>4 DEF Arrived, Op
<1>8. Promise!Open(o)  BY <1>1, <1>3 DEF Promise!Open
<1> QED
  BY <1>1, <1>5, <1>6, <1>7, <1>8 DEF Promise!Hear, Asked, Arrived, Outcome

LEMMA FinishIsFinish ==
  ASSUME LInv, DispatchCompletion, NEW o \in AsyncOp, sources[1].op = o
  PROVE  Promise!Finish(o)
<1>1. /\ o \in AsyncOp /\ o \in Op /\ AsyncOp \subseteq Op
      /\ at[o] = "attached" /\ at' = [at EXCEPT ![o] = "done"]
      /\ UNCHANGED <<heard, result>>
  BY Completed DEF LInv, DispatchCompletion, Goto, Op
<1>2. Len(heard[o]) = emitted[o]  BY AllHeard
<1>3. at \in [Op -> Place] /\ heard \in [Op -> Seq(Nat)]  BY DEF LInv, Typed
<1>4. \/ result[o] = "PARSED" /\ emitted[o] = Signals[o]
      \/ result[o] \in {"UNHANDLED", "CANCELLED"} /\ emitted[o] = 0
  BY <1>1 DEF LInv, Outcomes, After
<1>5. UNCHANGED Arrived  BY <1>1 DEF Arrived
<1>6. at'[o] = "done" /\ \A p \in AsyncOp : p # o => at'[p] = at[p]  BY <1>1, <1>3
<1>7. UNCHANGED Asked  BY <1>1, <1>6 DEF Asked
<1>8. Outcome' = [Outcome EXCEPT ![o] = result[o]]  BY <1>1, <1>6 DEF Outcome
<1>9. Promise!Open(o)  BY <1>1 DEF Promise!Open
<1>10. heard[o] \in Seq(Nat) /\ (Len(heard[o]) = 0 => heard[o] = <<>>)
  BY <1>1, <1>3, EmptySeq
<1>11. CASE result[o] = "PARSED" /\ emitted[o] = Signals[o]
  BY <1>1, <1>2, <1>5, <1>7, <1>8, <1>9, <1>11 DEF Promise!Finish, Asked, Arrived, Outcome
<1>12. CASE result[o] \in {"UNHANDLED", "CANCELLED"} /\ emitted[o] = 0
  BY <1>1, <1>2, <1>5, <1>7, <1>8, <1>9, <1>10, <1>12
  DEF Promise!Finish, Asked, Arrived, Outcome
<1> QED  BY <1>4, <1>11, <1>12

\* What an operation does on its way, and what other parses do, goes unnoticed.
LEMMA MoveUnnoticed ==
  ASSUME Typed, NEW o \in Op, NEW from, NEW to, Goto(o, from, to), UNCHANGED heard,
         o \in AsyncOp => from \notin {"new", "done"} /\ to \notin {"new", "done"},
         \/ result' = result
         \/ \E r : result' = [result EXCEPT ![o] = r]
  PROVE  UNCHANGED Promise!vars
<1>1. /\ at \in [Op -> Place] /\ AsyncOp \subseteq Op
      /\ result \in [Op -> {"none", "PARSED", "UNHANDLED", "CANCELLED"}]
  BY DEF Typed, Op
<1>2. at[o] = from /\ at'[o] = to /\ \A p \in Op : p # o => at'[p] = at[p]
  BY <1>1 DEF Goto
<1>3. \A p \in Op : p # o => result'[p] = result[p]  BY <1>1
<1>4. ASSUME NEW p \in AsyncOp
      PROVE  /\ at'[p] = "new" <=> at[p] = "new"
             /\ at'[p] = "done" <=> at[p] = "done"
             /\ at[p] = "done" => result'[p] = result[p]
             /\ heard'[p] = heard[p]
  <2>1. CASE p = o  BY <1>2, <1>4, <2>1
  <2>2. CASE p # o  BY <1>1, <1>2, <1>3, <1>4, <2>2
  <2> QED  BY <2>1, <2>2
<1> QED  BY <1>4, Unnoticed

LEMMA PromiseNext == LInv /\ [Next]_vars => [Promise!Next]_(Promise!vars)
<1> SUFFICES ASSUME LInv, [Next]_vars PROVE [Promise!Next]_(Promise!vars)
  OBVIOUS
<1>1. Typed /\ Sourced  BY DEF LInv
<1>2. CASE \/ UNCHANGED vars \/ SetProperty \/ Unref \/ SchemeAdded
           \/ \E s \in Scheme : AddIgnoredScheme(s)
           \/ \E o \in Op : Cancel(o)
  <2>1. UNCHANGED <<at, result, heard>>
    BY <1>2 DEF vars, SetProperty, Unref, SchemeAdded, AddIgnoredScheme, Cancel
  <2> QED  BY <2>1, Unnoticed
<1>3. CASE DispatchSignal
  <2>1. PICK o \in Op : o = sources[1].op  BY <1>1, <1>3, SignalHeard
  <2>2. CASE o \in AsyncOp  BY <1>3, <2>1, <2>2, HearIsHear, PromiseSteps
  <2>3. CASE o \notin AsyncOp
    <3>1. heard' = [heard EXCEPT ![o] = Append(heard[o], sources[1].signal)]
      BY <1>1, <1>3, <2>1, SignalHeard
    <3>2. UNCHANGED <<at, result>>  BY <1>3 DEF DispatchSignal
    <3>3. heard \in [Op -> Seq(Nat)] /\ AsyncOp \subseteq Op  BY <1>1 DEF Typed, Op
    <3>4. \A p \in AsyncOp : heard'[p] = heard[p]  BY <2>3, <3>1, <3>3
    <3> QED  BY <3>2, <3>4, Unnoticed
  <2> QED  BY <2>2, <2>3
<1>4. CASE DispatchCompletion
  <2>1. PICK o \in AsyncOp : o = sources[1].op  BY <1>1, <1>4, Completed
  <2> QED  BY <1>4, <2>1, FinishIsFinish, PromiseSteps
<1>5. ASSUME NEW o \in Op, ParseAsync(o) \/ ParseInThread(o) \/ ParseInMain(o)
      PROVE  [Promise!Next]_(Promise!vars)
  <2>1. CASE ParseAsync(o)
    <3>1. o \in AsyncOp  BY <2>1 DEF ParseAsync
    <3> QED  BY <2>1, <3>1, AskIsAsk, PromiseSteps
  <2>2. CASE ParseInThread(o) \/ ParseInMain(o)
    <3>1. o \notin AsyncOp /\ Goto(o, "new", "scheme") /\ UNCHANGED <<heard, result>>
      BY <2>2, OpAssumption DEF ParseInThread, ParseInMain, Goto
    <3> QED  BY <1>1, <3>1, MoveUnnoticed
  <2> QED  BY <1>5, <2>1, <2>2
<1>6. ASSUME NEW o \in Op, Step(o)  PROVE UNCHANGED Promise!vars
  <2>1. CASE \/ StartWorker(o) \/ CheckCancelled(o) \/ Lock(o) \/ SchemeIsIgnored(o)
             \/ CopyOption(o) \/ MimetypeIsIgnored(o) \/ Parsed(o) \/ WorkerReturns(o)
    <3>1. \E from, to \in Place \ {"new", "done"} : Goto(o, from, to)
      BY <2>1 DEF StartWorker, CheckCancelled, Lock, SchemeIsIgnored, CopyOption,
                  MimetypeIsIgnored, Parsed, WorkerReturns, Place
    <3>2. /\ UNCHANGED heard
          /\ result' = result \/ \E r : result' = [result EXCEPT ![o] = r]
      BY <2>1 DEF StartWorker, CheckCancelled, Lock, SchemeIsIgnored, CopyOption,
                  MimetypeIsIgnored, Parsed, WorkerReturns
    <3> QED  BY <1>1, <3>1, <3>2, MoveUnnoticed
  <2>2. CASE Emit(o)
    <3>1. UNCHANGED <<at, result>>  BY <2>2 DEF Emit
    <3>2. \A p \in AsyncOp : heard'[p] = heard[p]
      <4>1. heard \in [Op -> Seq(Nat)] /\ AsyncOp \subseteq Op  BY <1>1 DEF Typed, Op
      <4> QED  BY <2>2, <4>1, Names DEF Emit
    <3> QED  BY <3>1, <3>2, Unnoticed
  <2>3. CASE ThreadReturns(o) \/ MainReturns(o)
    <3>1. o \notin AsyncOp /\ Goto(o, "return", "done") /\ UNCHANGED <<heard, result>>
      BY <2>3, OpAssumption DEF ThreadReturns, MainReturns
    <3> QED  BY <1>1, <3>1, MoveUnnoticed
  <2> QED  BY <1>6, <2>1, <2>2, <2>3 DEF Step
<1> QED
  BY <1>2, <1>3, <1>4, <1>5, <1>6, NextCases

\* The signals of an asynchronous parse arrive one by one, in the order they were
\* emitted in, before its callback and never after it; the callback runs once, when
\* all of them have arrived or none was ever emitted.  (That it does run, which the
\* fairness of the threads and of the loop gives, is left to the model checker.)
THEOREM PromiseSafe == Spec => Promise!Init /\ [][Promise!Next]_(Promise!vars)
BY PromiseInit, PromiseNext, LoopHolds, PTL DEF Spec

=============================================================================
