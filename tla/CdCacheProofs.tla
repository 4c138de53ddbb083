--------------------------- MODULE CdCacheProofs ---------------------------
(***************************************************************************)
(* Proofs about CdCache, for any number of calls in any number of threads, *)
(* any places and any discs: whatever runs while a call waits, the         *)
(* callback of its mount finds the call where it left it, the call knows   *)
(* what is at its place, and an image is left as it was found.             *)
(***************************************************************************)
EXTENDS CdCache, SequenceTheorems, TLAPS

Cache == [types : SUBSET Types, mountpoint : BOOLEAN, mounted : BOOLEAN,
          self_mounted : BOOLEAN, is_iso : BOOLEAN, is_media : BOOLEAN]

LEMMA CallSet ==
  Call = [pc : {"idle", "new", "guess", "detect", "parent", "free", "done"} \cup Waits,
          op : Ops, place : Places, cache : Cache, called : BOOLEAN, result : BOOLEAN,
          goal : {"none", "mount_iso", "mount_volume", "unmount"},
          type : {"none", "error", "data", "vcd", "dvd", "cdda", "medium", "no_medium"},
          errors : Nat]
BY DEF Call, Cache

LEMMA CachesTyped ==
  /\ NoCache \in Cache
  /\ NotStarted \in Call
<1>1. NoCache \in Cache  BY DEF NoCache, Cache
<1>2. (CHOOSE p \in Places : TRUE) \in Places  BY PlacesAssumption
<1> QED  BY <1>1, <1>2, CallSet DEF NotStarted, Ops

(* The calls, and the discs they look at. *)
LEMMA DiscTyped ==
  ASSUME TypeOK, NEW c \in Calls
  PROVE  /\ call[c] \in Call /\ call[c].place \in Places
         /\ At(c) \in Disc /\ At(c).types \subseteq Types /\ At(c).above \subseteq Types
<1>1. call[c] \in Call  BY DEF TypeOK
<1>2. call[c].place \in Places  BY <1>1, CallSet
<1>3. At(c) \in Disc  BY <1>2 DEF TypeOK, At
<1> QED  BY <1>1, <1>2, <1>3 DEF Disc

(* What Goto and Return do to the variables they assign. *)
LEMMA GotoTyped ==
  ASSUME TypeOK, NEW c \in Calls, NEW f \in Call, Goto(c, f)
  PROVE  /\ (call \in [Calls -> Call])' /\ (stack \in Seq(MainCalls))'
         /\ call'[c] = f /\ \A d \in Calls \ {c} : call'[d] = call[d]
BY DEF TypeOK, Goto

LEMMA ReturnTyped ==
  ASSUME TypeOK, NEW c \in Calls, NEW f \in Call, MayRun(c), Return(c, f)
  PROVE  /\ (call \in [Calls -> Call])' /\ (stack \in Seq(MainCalls))'
         /\ \A d \in Calls \ {c} : /\ call'[d].called = call[d].called
                                   /\ Waiting(d) => Waiting(d)'
<1>1. CASE c \in MainCalls /\ Len(stack) > 1
  <2>1. stack \in Seq(MainCalls) /\ Len(stack) \in Nat  BY DEF TypeOK
  <2>2. Outer \in MainCalls /\ Outer \in Calls  BY <1>1, <2>1 DEF Outer, Calls
  <2>3. (stack \in Seq(MainCalls))'  BY <1>1, <2>1 DEF Return
  <2>4. PICK g : /\ g = [call EXCEPT ![c] = f]
                 /\ call' = [g EXCEPT ![Outer].pc = "test"]
    BY <1>1 DEF Return
  <2>5. g \in [Calls -> Call]  BY <2>4 DEF TypeOK
  <2>6. call' = [g EXCEPT ![Outer] = [g[Outer] EXCEPT !.pc = "test"]]
    BY <2>4, <2>2, <2>5
  <2>7. g[Outer] \in Call  BY <2>2, <2>5
  <2>8. [g[Outer] EXCEPT !.pc = "test"] \in Call
    BY <2>7, CallSet DEF Waits
  <2>9. [g[Outer] EXCEPT !.pc = "test"].called = g[Outer].called
        /\ [g[Outer] EXCEPT !.pc = "test"].pc = "test"
    BY <2>7, CallSet
  <2>10. (call \in [Calls -> Call])'  BY <2>2, <2>5, <2>6, <2>8
  <2>11. ASSUME NEW d \in Calls \ {c}
         PROVE  call'[d].called = call[d].called /\ (Waiting(d) => Waiting(d)')
    <3>1. g[d] = call[d]  BY <2>4, <2>5 DEF TypeOK
    <3>2. CASE d = Outer
      BY <2>2, <2>5, <2>6, <2>9, <3>1, <3>2 DEF Waiting, Waits
    <3>3. CASE d # Outer
      BY <2>2, <2>5, <2>6, <3>1, <3>3 DEF Waiting
    <3> QED  BY <3>2, <3>3
  <2> QED  BY <2>3, <2>10, <2>11
<1>2. CASE c \in MainCalls /\ ~(Len(stack) > 1)
  <2>1. call' = [call EXCEPT ![c] = f]  BY <1>2 DEF Return
  <2>2. stack' = SubSeq(stack, 1, Len(stack) - 1)  BY <1>2 DEF Return
  <2>3. (stack \in Seq(MainCalls))'  BY <2>2, <1>2 DEF TypeOK, MayRun
  <2> QED  BY <2>1, <2>3 DEF TypeOK, Waiting
<1>3. CASE c \notin MainCalls
  BY <1>3 DEF Return, TypeOK, Waiting
<1> QED  BY <1>1, <1>2, <1>3

-----------------------------------------------------------------------------
(***************************************************************************)
(* How a step of a call keeps CallbackHasItsFrame: outside a wait, or when *)
(* its callback has been called, nothing is under way for it.              *)
(***************************************************************************)
Frame == CallbackHasItsFrame

Others(c) ==
  \A d \in Calls \ {c} : call'[d].called = call[d].called /\ (Waiting(d) => Waiting(d)')

LEMMA FreeMoves ==
  ASSUME TypeOK, Frame, NEW c \in Calls, ~Waiting(c) \/ call[c].called,
         Others(c), UNCHANGED <<requests, sources>>
  PROVE  Frame'
<1>1. c \notin requests /\ \A s \in sources : s.call # c
  BY DEF Frame, CallbackHasItsFrame
<1>2. \A s \in sources : s.call \in Calls  BY DEF TypeOK
<1>3. requests \subseteq Calls  BY DEF TypeOK
<1> QED  BY <1>1, <1>2, <1>3 DEF Frame, CallbackHasItsFrame, Others

LEMMA FreeAsks ==
  ASSUME TypeOK, Frame, NEW c \in Calls, ~Waiting(c) \/ call[c].called,
         Others(c), call'[c].pc = "test", call'[c].called = FALSE,
         requests' = requests \cup {c}, UNCHANGED sources
  PROVE  Frame'
<1>1. c \notin requests /\ \A s \in sources : s.call # c
  BY DEF Frame, CallbackHasItsFrame
<1>2. \A s \in sources : s.call \in Calls  BY DEF TypeOK
<1>3. requests \subseteq Calls  BY DEF TypeOK
<1>4. Waiting(c)'  BY DEF Waiting, Waits
<1> QED  BY <1>1, <1>2, <1>3, <1>4 DEF Frame, CallbackHasItsFrame, Others

LEMMA WaiterMoves ==
  ASSUME TypeOK, Frame, NEW c \in Calls, Waiting(c)', call'[c].called = call[c].called,
         Others(c), UNCHANGED <<requests, sources>>
  PROVE  Frame'
<1>1. \A s \in sources : s.call \in Calls  BY DEF TypeOK
<1>2. requests \subseteq Calls  BY DEF TypeOK
<1> QED  BY <1>1, <1>2 DEF Frame, CallbackHasItsFrame, Others

(***************************************************************************)
(* The four ways a call goes on: to another place, out of the function, to *)
(* a wait, and from one place of a wait to another.                        *)
(***************************************************************************)
Rest == <<fixed, mounted, kept, lost>>

LEMMA Goes ==
  ASSUME TypeOK, Frame, NEW c \in Calls, NEW f \in Call, Goto(c, f),
         ~Waiting(c) \/ call[c].called, UNCHANGED <<Rest, requests, sources>>
  PROVE  TypeOK' /\ Frame'
<1>1. TypeOK'  BY GotoTyped DEF TypeOK, Rest, fixed
<1>2. Others(c)  BY GotoTyped DEF Others, Waiting
<1> QED  BY <1>1, <1>2, FreeMoves

LEMMA Returns ==
  ASSUME TypeOK, Frame, NEW c \in Calls, NEW f \in Call, Return(c, f), MayRun(c),
         ~Waiting(c) \/ call[c].called, UNCHANGED <<Rest, requests, sources>>
  PROVE  TypeOK' /\ Frame'
<1>1. TypeOK'  BY ReturnTyped DEF TypeOK, Rest, fixed
<1>2. Others(c)  BY ReturnTyped DEF Others
<1> QED  BY <1>1, <1>2, FreeMoves

LEMMA Asks ==
  ASSUME TypeOK, Frame, NEW c \in Calls, NEW r \in Call,
         NEW goal \in {"mount_iso", "mount_volume", "unmount"}, AskFor(c, goal, r),
         ~Waiting(c) \/ call[c].called, UNCHANGED <<Rest, sources>>
  PROVE  TypeOK' /\ Frame'
<1> DEFINE f == [r EXCEPT !.pc = "test", !.called = FALSE, !.goal = goal]
<1>1. f \in Call  BY CallSet DEF Waits
<1>2. f.pc = "test" /\ f.called = FALSE  BY CallSet
<1>3. Goto(c, f) /\ requests' = requests \cup {c}  BY DEF AskFor
<1> HIDE DEF f
<1>4. /\ (call \in [Calls -> Call])' /\ (stack \in Seq(MainCalls))'
      /\ call'[c] = f /\ \A d \in Calls \ {c} : call'[d] = call[d]
  BY <1>1, <1>3, GotoTyped
<1>5. TypeOK'  BY <1>3, <1>4 DEF TypeOK, Rest, fixed
<1>6. Others(c)  BY <1>4 DEF Others, Waiting
<1> QED  BY <1>2, <1>3, <1>4, <1>5, <1>6, FreeAsks

LEMMA Polling ==
  ASSUME TypeOK, Frame, NEW c \in Calls, NEW p \in Waits,
         Goto(c, [call[c] EXCEPT !.pc = p]), UNCHANGED <<Rest, requests, sources>>
  PROVE  TypeOK' /\ Frame'
<1> DEFINE f == [call[c] EXCEPT !.pc = p]
<1>1. f \in Call /\ f.pc = p /\ f.called = call[c].called
  BY DiscTyped, CallSet DEF Waits
<1>2. Goto(c, f)  OBVIOUS
<1> HIDE DEF f
<1>3. /\ (call \in [Calls -> Call])' /\ (stack \in Seq(MainCalls))'
      /\ call'[c] = f /\ \A d \in Calls \ {c} : call'[d] = call[d]
  BY <1>1, <1>2, GotoTyped
<1>4. TypeOK'  BY <1>3 DEF TypeOK, Rest, fixed
<1>5. Others(c) /\ Waiting(c)'  BY <1>1, <1>3 DEF Others, Waiting
<1> QED  BY <1>1, <1>3, <1>4, <1>5, WaiterMoves

(* What a call returns with. *)
LEMMA DoneTyped ==
  ASSUME NEW r \in Call,
         NEW type \in {"none", "error", "data", "vcd", "dvd", "cdda", "medium", "no_medium"}
  PROVE  Done(r, type) \in Call /\ Fail(r) \in Call
<1>1. Fail(r) \in Call  BY CallSet DEF Fail
<1> DEFINE d == [NotStarted EXCEPT !.pc = "done", !.op = r.op, !.place = r.place]
<1>2. d \in Call  BY CachesTyped, CallSet
<1>3. Done(r, type) = [d EXCEPT !.errors = r.errors, !.type = type]  BY DEF Done
<1> HIDE DEF d
<1>4. [d EXCEPT !.errors = r.errors, !.type = type] \in Call  BY <1>2, CallSet
<1> QED  BY <1>1, <1>3, <1>4

LEMMA DiscTypes ==
  ASSUME NEW types
  PROVE  DiscType(types) \in {"vcd", "dvd", "data"}
BY DEF DiscType

-----------------------------------------------------------------------------
(***************************************************************************)
(* The steps: cd_cache_new, the detecting functions, the wait.             *)
(***************************************************************************)
LEMMA NewSteps ==
  ASSUME TypeOK, Frame, NEW c \in Calls,
         \/ NewRemote(c) \/ NewDirectory(c) \/ NewImage(c) \/ NewImageUnknown(c)
         \/ NewDevice(c) \/ NewNoDisc(c) \/ MountedIso(c) \/ GuessTree(c)
  PROVE  TypeOK' /\ Frame'
<1>1. call[c] \in Call /\ At(c).types \subseteq Types  BY DiscTyped
<1>2. At(c) \in Disc  BY DiscTyped
<1>3. NoCache \in Cache  BY CachesTyped
<1> DEFINE nothing == IF call[c].op = "has_medium" THEN "medium" ELSE "error"
<1>4. Done(call[c], nothing) \in Call /\ Fail(call[c]) \in Call
  BY <1>1, DoneTyped
<1>5. Done(Fail(call[c]), nothing) \in Call  BY <1>4, DoneTyped
<1>6. New(c) => ~Waiting(c) /\ MayRun(c)  BY DEF New, Waiting, Waits
<1>7. CASE NewRemote(c) \/ NewImageUnknown(c)
  BY <1>4, <1>6, <1>7, Returns DEF NewRemote, NewImageUnknown, Rest
<1>8. CASE NewNoDisc(c)
  BY <1>5, <1>6, <1>8, Returns DEF NewNoDisc, Rest
<1>9. CASE NewDirectory(c)
  <2> DEFINE cache == [NoCache EXCEPT !.types = At(c).types, !.mountpoint = TRUE]
             f == [call[c] EXCEPT !.pc = "detect", !.cache = cache]
  <2>1. cache \in Cache  BY <1>1, <1>3 DEF Cache
  <2>2. Goto(c, f) /\ UNCHANGED <<Rest, requests, sources>>
    BY <1>9 DEF NewDirectory, Rest
  <2> HIDE DEF cache
  <2>3. f \in Call  BY <1>1, <2>1, CallSet
  <2>4. ~Waiting(c)  BY <1>6, <1>9 DEF NewDirectory
  <2> QED  BY <2>2, <2>3, <2>4, Goes
<1>10. CASE NewImage(c)
  <2> DEFINE cache == [NoCache EXCEPT !.is_iso = TRUE]
             iso == [call[c] EXCEPT !.cache = cache]
             f == [iso EXCEPT !.pc = "guess"]
  <2>1. cache \in Cache  BY <1>3 DEF Cache
  <2>2. /\ UNCHANGED <<Rest, sources>>
        /\ \/ Goto(c, f) /\ UNCHANGED requests
           \/ AskFor(c, "mount_iso", iso)
    BY <1>10 DEF NewImage, Rest
  <2>3. ~Waiting(c)  BY <1>6, <1>10 DEF NewImage
  <2> HIDE DEF cache
  <2>4. iso \in Call  BY <1>1, <2>1, CallSet
  <2> HIDE DEF iso
  <2>5. f \in Call  BY <2>4, CallSet
  <2> HIDE DEF f
  <2> QED  BY <2>2, <2>3, <2>4, <2>5, Goes, Asks
<1>11. CASE NewDevice(c)
  <2> DEFINE cache == [NoCache EXCEPT
                         !.is_media = TRUE,
                         !.mountpoint = MountpointFound(c),
                         !.types = IF IsMounted(c) THEN At(c).types ELSE {}]
             f == [call[c] EXCEPT !.pc = "detect", !.cache = cache]
  <2>1. cache \in Cache  BY <1>1, <1>2, <1>3 DEF Cache, Disc, MountpointFound
  <2>2. Goto(c, f) /\ UNCHANGED <<Rest, requests, sources>>
    BY <1>11 DEF NewDevice, Rest
  <2> HIDE DEF cache
  <2>3. f \in Call  BY <1>1, <2>1, CallSet
  <2>4. ~Waiting(c)  BY <1>6, <1>11 DEF NewDevice
  <2> QED  BY <2>2, <2>3, <2>4, Goes
<1>12. CASE MountedIso(c)
  <2> DEFINE f == [call[c] EXCEPT !.pc = "guess", !.cache.self_mounted = TRUE]
  <2>1. f \in Call  BY <1>1, CallSet DEF Cache
  <2>2. /\ MayRun(c) /\ call[c].called /\ UNCHANGED <<Rest, requests, sources>>
        /\ Goto(c, f) \/ Return(c, Done(Fail(call[c]), nothing))
    BY <1>12 DEF MountedIso, Rest
  <2> HIDE DEF f, nothing
  <2> QED  BY <1>5, <2>1, <2>2, Goes, Returns
<1>13. CASE GuessTree(c)
  <2> DEFINE types == IF IsMounted(c) THEN At(c).types ELSE {}
             path == IsMounted(c) /\ At(c).path
             f == [call[c] EXCEPT !.pc = "detect", !.cache.mounted = TRUE,
                                  !.cache.types = types, !.cache.mountpoint = path]
  <2>1. types \in SUBSET Types /\ path \in BOOLEAN  BY <1>1, <1>2 DEF Disc
  <2>2. /\ Goto(c, f) /\ ~Waiting(c) /\ UNCHANGED <<Rest, requests, sources>>
    BY <1>13 DEF GuessTree, Rest, Waiting, Waits
  <2> HIDE DEF types, path
  <2>3. f \in Call  BY <1>1, <2>1, CallSet DEF Cache
  <2> QED  BY <2>2, <2>3, Goes
<1> QED  BY <1>7, <1>8, <1>9, <1>10, <1>11, <1>12, <1>13

LEMMA DetectSteps ==
  ASSUME TypeOK, Frame, NEW c \in Calls,
         \/ FindMedium(c) \/ OpenDevice(c) \/ DetectCdda(c) \/ OpenMountpoint(c)
         \/ MountedVolume(c) \/ DetectType(c) \/ DetectParent(c)
         \/ CdCacheFree(c) \/ Unmounted(c)
  PROVE  TypeOK' /\ Frame'
<1>1. call[c] \in Call  BY DiscTyped
<1>2. Fail(call[c]) \in Call  BY <1>1, DoneTyped
<1>3. Detect(c) \/ Opened(c) => ~Waiting(c) /\ MayRun(c)
  BY DEF Detect, Opened, Waiting, Waits
<1> DEFINE Types2 == {"error", "data", "vcd", "dvd", "cdda", "medium", "no_medium"}
           Freed(r, type) == [r EXCEPT !.pc = "free", !.type = type]
<1>4. ASSUME NEW r \in Call, NEW type \in Types2
      PROVE  Freed(r, type) \in Call
  BY CallSet
<1>5. CASE FindMedium(c)
  <2>1. PICK type \in Types2 : Goto(c, Freed(call[c], type))
    BY <1>5 DEF FindMedium
  <2>2. ~Waiting(c) /\ UNCHANGED <<Rest, requests, sources>>
    BY <1>3, <1>5 DEF FindMedium, Rest
  <2> HIDE DEF Freed, Types2
  <2> QED  BY <1>1, <1>4, <2>1, <2>2, Goes
<1>6. CASE OpenDevice(c)
  <2>1. PICK type \in Types2 : Goto(c, Freed(Fail(call[c]), type))
    BY <1>6 DEF OpenDevice
  <2>2. ~Waiting(c) /\ UNCHANGED <<Rest, requests, sources>>
    BY <1>3, <1>6 DEF OpenDevice, Rest
  <2> HIDE DEF Freed, Types2
  <2> QED  BY <1>2, <1>4, <2>1, <2>2, Goes
<1>7. CASE DetectCdda(c)
  <2>1. PICK type \in Types2 : Goto(c, Freed(call[c], type))
    BY <1>7 DEF DetectCdda
  <2>2. ~Waiting(c) /\ UNCHANGED <<Rest, requests, sources>>
    BY <1>3, <1>7 DEF DetectCdda, Rest
  <2> HIDE DEF Freed, Types2
  <2> QED  BY <1>1, <1>4, <2>1, <2>2, Goes
<1>8. CASE OpenMountpoint(c)
  <2> DEFINE f == [call[c] EXCEPT !.cache.self_mounted = TRUE]
  <2>1. f \in Call  BY <1>1, CallSet DEF Cache
  <2>2. AskFor(c, "mount_volume", f) /\ ~Waiting(c) /\ UNCHANGED <<Rest, sources>>
    BY <1>3, <1>8 DEF OpenMountpoint, Rest
  <2> HIDE DEF f
  <2> QED  BY <2>1, <2>2, Asks
<1>9. CASE MountedVolume(c)
  <2> DEFINE f == [call[c] EXCEPT !.pc = "detect", !.cache.mounted = TRUE]
  <2>1. f \in Call  BY <1>1, CallSet DEF Cache
  <2>2. Goto(c, f) \/ \E type \in Types2 : Goto(c, Freed(Fail(call[c]), type))
    BY <1>9 DEF MountedVolume
  <2>3. call[c].called /\ UNCHANGED <<Rest, requests, sources>>
    BY <1>9 DEF MountedVolume, Rest
  <2> HIDE DEF f, Freed, Types2
  <2> QED  BY <1>2, <1>4, <2>1, <2>2, <2>3, Goes
<1>10. CASE DetectType(c)
  <2> DEFINE f == [call[c] EXCEPT !.pc = "parent", !.cache = NoCache]
  <2>1. f \in Call  BY <1>1, CachesTyped, CallSet
  <2>2. TypeFound(c) \in Types2
    BY DiscTypes DEF TypeFound
  <2>3. Goto(c, f) \/ \E type \in Types2 : Goto(c, Freed(call[c], type))
    BY <1>10, <2>2 DEF DetectType
  <2>4. ~Waiting(c) /\ UNCHANGED <<Rest, requests, sources>>
    BY <1>3, <1>10 DEF DetectType, Rest
  <2> HIDE DEF f, Freed, Types2
  <2> QED  BY <1>1, <1>4, <2>1, <2>3, <2>4, Goes
<1>11. CASE DetectParent(c)
  <2>1. Done(Fail(call[c]), "error") \in Call  BY <1>2, DoneTyped
  <2>2. DiscType(At(c).above) \in Types2  BY DiscTypes
  <2>3. \/ Return(c, Done(Fail(call[c]), "error"))
        \/ \E type \in Types2 : Goto(c, Freed(call[c], type))
    BY <1>11, <2>2 DEF DetectParent
  <2>4. MayRun(c) /\ ~Waiting(c) /\ UNCHANGED <<Rest, requests, sources>>
    BY <1>11 DEF DetectParent, Rest, Waiting, Waits
  <2> HIDE DEF Freed, Types2
  <2> QED  BY <1>1, <1>4, <2>1, <2>3, <2>4, Goes, Returns
<1>12. Done(call[c], call[c].type) \in Call  BY <1>1, DoneTyped, CallSet
<1>13. CASE CdCacheFree(c)
  <2>1. /\ MayRun(c) /\ ~Waiting(c) /\ UNCHANGED <<Rest, sources>>
        /\ \/ AskFor(c, "unmount", call[c])
           \/ Return(c, Done(call[c], call[c].type)) /\ UNCHANGED requests
    BY <1>13 DEF CdCacheFree, Rest, Waiting, Waits
  <2> QED  BY <1>1, <1>12, <2>1, Asks, Returns
<1>14. CASE Unmounted(c)
  BY <1>12, <1>14, Returns DEF Unmounted, Rest
<1> QED  BY <1>5, <1>6, <1>7, <1>8, <1>9, <1>10, <1>11, <1>13, <1>14

(* What the callbacks do to the calls that are ready, and to no other. *)
LEMMA CallbacksTyped ==
  ASSUME NEW r \in [Calls -> Call], NEW d \in Calls
  PROVE  /\ RunCallbacks(r) \in [Calls -> Call]
         /\ (\A s \in sources : s.call # d) => RunCallbacks(r)[d] = r[d]
<1> DEFINE ready(e) == [call |-> e, ok |-> TRUE] \in sources
           f(e) == [r[e] EXCEPT !.called = TRUE, !.result = ready(e)]
<1>1. \A e \in Calls : f(e) \in Call
  <2> TAKE e \in Calls
  <2>1. r[e] \in Call /\ ready(e) \in BOOLEAN  OBVIOUS
  <2> HIDE DEF ready
  <2> QED  BY <2>1, CallSet
<1>2. RunCallbacks(r) =
        [e \in Calls |-> IF \E s \in sources : s.call = e THEN f(e) ELSE r[e]]
  BY DEF RunCallbacks
<1> HIDE DEF f
<1> QED  BY <1>1, <1>2

LEMMA LoopSteps ==
  ASSUME TypeOK, Frame, NEW c \in Calls,
         Iterate(c) \/ Own(c) \/ WakeUp(c) \/ Dispatch(c) \/ LoopDispatches
  PROVE  TypeOK' /\ Frame'
<1>1. call[c] \in Call /\ call \in [Calls -> Call]  BY DiscTyped DEF TypeOK
<1>2. CASE Iterate(c) \/ Own(c) \/ WakeUp(c)
  <2>1. PICK p \in Waits : Goto(c, [call[c] EXCEPT !.pc = p])
    BY <1>2 DEF Iterate, Own, WakeUp, Waits
  <2> QED  BY <1>2, <2>1, Polling DEF Iterate, Own, WakeUp, Rest
<1>3. ASSUME NEW r \in [Calls -> Call], call' = RunCallbacks(r), sources' = {},
             \A d \in Calls : r[d].called = call[d].called /\ (Waiting(d) => r[d].pc \in Waits),
             UNCHANGED <<Rest, stack, requests>>
      PROVE  TypeOK' /\ Frame'
  <2>1. TypeOK'  BY <1>3, CallbacksTyped DEF TypeOK, Rest, fixed
  <2>2. \A d \in requests : d \in Calls /\ \A s \in sources : s.call # d
    BY DEF Frame, CallbackHasItsFrame, TypeOK
  <2>3. \A d \in requests : call'[d] = r[d]  BY <1>3, <2>2, CallbacksTyped
  <2> QED  BY <1>3, <2>1, <2>2, <2>3 DEF Frame, CallbackHasItsFrame, Waiting, Rest
<1>4. CASE Dispatch(c)
  <2> DEFINE test == [call[c] EXCEPT !.pc = "test"]
             r == [call EXCEPT ![c] = test]
  <2>1. test \in Call /\ test.called = call[c].called /\ test.pc \in Waits
    BY <1>1, CallSet DEF Waits
  <2>2. call' = RunCallbacks(r) /\ sources' = {} /\ UNCHANGED <<Rest, stack, requests>>
    BY <1>1, <1>4 DEF Dispatch, Rest
  <2> HIDE DEF test
  <2>3. r \in [Calls -> Call]  BY <1>1, <2>1
  <2>4. \A d \in Calls : r[d].called = call[d].called /\ (Waiting(d) => r[d].pc \in Waits)
    BY <1>1, <2>1 DEF Waiting
  <2> HIDE DEF r
  <2> QED  BY <1>3, <2>2, <2>3, <2>4
<1>5. CASE LoopDispatches
  BY <1>1, <1>3, <1>5 DEF LoopDispatches, Rest, Waiting
<1> QED  BY <1>2, <1>4, <1>5

LEMMA DaemonSteps ==
  ASSUME TypeOK, Frame, NEW c \in Calls, CompleteMount(c) \/ CompleteUnmount(c)
  PROVE  TypeOK' /\ Frame'
<1>1. call[c].place \in Places  BY DiscTyped
<1>2. PICK ok \in BOOLEAN : Complete(c, ok)
  BY DEF CompleteMount, CompleteUnmount
<1>3. [call |-> c, ok |-> ok] \in [call : Calls, ok : BOOLEAN]  OBVIOUS
<1>4. mounted' \subseteq Places /\ kept' \subseteq Places /\ lost' \subseteq Calls
  BY <1>1 DEF CompleteMount, CompleteUnmount, TypeOK
<1>5. TypeOK'  BY <1>2, <1>3, <1>4 DEF TypeOK, Complete, fixed
<1>6. Waiting(c) /\ ~call[c].called /\ \A s \in sources : s.call # c
  BY <1>2 DEF Frame, CallbackHasItsFrame, Complete
<1> QED  BY <1>2, <1>5, <1>6 DEF Frame, CallbackHasItsFrame, Complete, Waiting

LEMMA StartSteps ==
  ASSUME TypeOK, Frame, NEW c \in Calls, Start(c)
  PROVE  TypeOK' /\ Frame'
<1>1. PICK p \in Places, op \in Uses[c] :
        call' = [call EXCEPT ![c] = [NotStarted EXCEPT !.pc = "new", !.op = op, !.place = p]]
  BY DEF Start
<1>2. op \in Ops  BY UsesAssumption
<1> DEFINE f == [NotStarted EXCEPT !.pc = "new", !.op = op, !.place = p]
<1>3. f \in Call  BY <1>2, CachesTyped, CallSet
<1>4. call' = [call EXCEPT ![c] = f]  BY <1>1
<1> HIDE DEF f
<1>5. /\ (call \in [Calls -> Call])' /\ \A d \in Calls \ {c} : call'[d] = call[d]
  BY <1>3, <1>4 DEF TypeOK
<1>6. (stack \in Seq(MainCalls))'  BY DEF Start, TypeOK
<1>7. UNCHANGED <<Rest, requests, sources>> /\ ~Waiting(c)
  BY DEF Start, Rest, Waiting, Waits
<1>8. TypeOK'  BY <1>5, <1>6, <1>7 DEF TypeOK, Rest, fixed
<1>9. Others(c)  BY <1>5 DEF Others, Waiting
<1> QED  BY <1>7, <1>8, <1>9, FreeMoves

-----------------------------------------------------------------------------
IInv == TypeOK /\ CallbackHasItsFrame

LEMMA InitEstablishes == Init => IInv
<1> SUFFICES ASSUME Init PROVE IInv  OBVIOUS
<1>1. call \in [Calls -> Call]  BY CachesTyped DEF Init
<1>2. stack \in Seq(MainCalls)  BY DEF Init
<1> QED  BY <1>1, <1>2, DiscsAssumption DEF Init, IInv, TypeOK, CallbackHasItsFrame

LEMMA NextKeeps == IInv /\ [Next]_vars => IInv'
<1>1. SUFFICES ASSUME TypeOK, Frame, [Next]_vars PROVE TypeOK' /\ Frame'
  BY DEF IInv, Frame
<1>2. ASSUME NEW c \in Calls, Step(c) PROVE TypeOK' /\ Frame'
  BY <1>1, <1>2, NewSteps, DetectSteps, LoopSteps DEF Step
<1>3. ASSUME NEW c \in Calls, Start(c) \/ WakeUp(c) PROVE TypeOK' /\ Frame'
  BY <1>1, <1>3, StartSteps, LoopSteps
<1>4. CASE LoopDispatches
  <2>1. PICK s \in sources : s.call \in Calls
    BY <1>1, <1>4 DEF LoopDispatches, TypeOK
  <2> QED  BY <1>1, <1>4, <2>1, LoopSteps
<1>5. CASE Daemon  BY <1>1, <1>5, DaemonSteps DEF Daemon
<1>6. CASE UNCHANGED vars
  <2>1. TypeOK'  BY <1>1, <1>6 DEF vars, TypeOK
  <2>2. Frame'  BY <1>1, <1>6 DEF vars, Frame, CallbackHasItsFrame, Waiting
  <2> QED  BY <2>1, <2>2
<1> QED  BY <1>1, <1>2, <1>3, <1>4, <1>5, <1>6 DEF Next, MainThread, Calls

(* Every variable stays in its set: in particular the calls in progress in *)
(* the main thread are calls of the main thread, whatever nests in what.   *)
THEOREM TypeCorrect == Spec => []TypeOK
<1>1. IInv => TypeOK  BY DEF IInv
<1> QED  BY <1>1, InitEstablishes, NextKeeps, PTL DEF Spec

(* As long as a mount or an unmount is under way, or its callback has not  *)
(* been run, the call that asked is in the loop that waits for it          *)
(* (idol-disc.c:352, 497, 549): the callback writes into a live frame.     *)
THEOREM CallbacksHaveTheirFrame == Spec => []CallbackHasItsFrame
<1>1. IInv => CallbackHasItsFrame  BY DEF IInv
<1> QED  BY <1>1, InitEstablishes, NextKeeps, PTL DEF Spec

-----------------------------------------------------------------------------
(***************************************************************************)
(* What a call knows of the disc d at its place, and who answers for the   *)
(* mount of an image.  on: the place is mounted; gone: it was unmounted    *)
(* under the call; old: it was mounted at the start; ok: the call's mount  *)
(* has succeeded and its callback waits; asked: its request is under way.  *)
(***************************************************************************)
Found == {"data", "vcd", "dvd", "cdda"}
Directories == {"dir_path", "dir_uri"}
WaitsFor(r, goal) == r.pc \in Waits /\ r.goal = goal

Knows(r, d, on, gone, old) ==
  LET inside  == r.pc \in {"guess", "detect", "parent", "free"} \cup Waits
      looking == r.pc = "detect" \/ WaitsFor(r, "mount_volume")
      decided == r.pc \in {"free", "done"} \/ WaitsFor(r, "unmount")
      certain == ~gone /\ (d.kind = "device" => old)
  IN  /\ (r.pc # "idle" /\ r.op \in Directories) => d.kind \in {"directory", "remote"}
      /\ inside => /\ r.cache.is_iso <=> d.kind = "file"
                   /\ r.cache.is_media <=> d.kind = "device"
      /\ r.pc \in Waits => IF d.kind = "file" THEN r.goal \in {"mount_iso", "unmount"}
                           ELSE d.kind = "device" /\ r.goal = "mount_volume"
      /\ r.pc = "guess" => d.kind = "file" /\ (on \/ gone)
      /\ looking => /\ d.kind = "directory" => r.cache.mountpoint
                    /\ d.kind \in {"directory", "file", "device"}
                    /\ certain => r.cache.types = d.types
      /\ r.pc = "parent" => /\ d.kind = "directory" /\ r.op \in Directories
                            /\ certain => DiscType(d.types) = "data"
      /\ \/ r.errors = 0
         \/ r.errors = 1 /\ \/ r.pc = "free" /\ r.cache.is_media /\ r.type = "error"
                            \/ r.pc = "done" /\ r.type \in {"error", "medium"}
      /\ decided => /\ (r.type \in Found /\ certain) => r.type = Reference(d, r.op)
                    /\ (r.type = "error" /\ r.errors = 0) =>
                         d.kind \in {"remote", "file"} \/ ~d.path

Mounts(r, d, ok, asked) ==
  /\ d.kind = "file"
  /\ \/ WaitsFor(r, "mount_iso") /\ (ok \/ (r.called /\ r.result))
     \/ r.pc \in {"guess", "detect", "free"} /\ r.cache.self_mounted
     \/ WaitsFor(r, "unmount") /\ asked

Told == \A c \in Calls : Knows(call[c], At(c), IsMounted(c), c \in lost,
                               call[c].place \in before)

(* The calls that wait around the innermost one are in their iterations. *)
Nested ==
  /\ \A i \in 1 .. Len(stack) : Running(stack[i])
  /\ \A i \in 1 .. Len(stack) - 1 : call[stack[i]].pc = "poll"
  /\ \A i, j \in 1 .. Len(stack) : stack[i] = stack[j] => i = j

(* Whoever finds an image not mounted and mounts it is alone in that, and  *)
(* an image that was not there at the start has such a call.               *)
Succeeded(c) == [call |-> c, ok |-> TRUE] \in sources
Mounter(c) == Mounts(call[c], At(c), Succeeded(c), c \in requests)

Images ==
  /\ before \subseteq mounted
  /\ \A c \in Calls : Mounter(c) => call[c].place \in mounted \ before
  /\ \A c, d \in Calls : Mounter(c) /\ Mounter(d) /\ call[c].place = call[d].place => c = d
  /\ \A p \in mounted \ (before \cup kept) :
       disc[p].kind = "file" => \E c \in Calls : Mounter(c) /\ call[c].place = p

KInv == Nested /\ Told /\ Images

(* The other calls, which at most go on waiting. *)
Like(r, s) ==
  /\ s.op = r.op /\ s.place = r.place /\ s.cache = r.cache /\ s.goal = r.goal
  /\ s.type = r.type /\ s.errors = r.errors
  /\ s.pc = r.pc \/ (s.pc \in Waits /\ r.pc \in Waits)

LEMMA KnowsStays ==
  ASSUME NEW r, NEW s, NEW d, NEW on, NEW on2, NEW gone, NEW gone2, NEW old,
         Like(r, s), gone => gone2, r.pc = "guess" /\ (on \/ gone) => on2 \/ gone2,
         Knows(r, d, on, gone, old)
  PROVE  Knows(s, d, on2, gone2, old)
BY DEF Like, Knows, WaitsFor, Waits

LEMMA MountsStays ==
  ASSUME NEW r, NEW s, NEW d, NEW ok, NEW asked, Like(r, s),
         s.called = r.called, s.result = r.result
  PROVE  Mounts(s, d, ok, asked) <=> Mounts(r, d, ok, asked)
BY DEF Like, Mounts, WaitsFor, Waits

LEMMA SameMounters ==
  ASSUME TypeOK, Images, UNCHANGED <<Rest>>,
         \A d \in Calls : /\ Mounter(d)' <=> Mounter(d)
                          /\ Mounter(d) => call'[d].place = call[d].place
  PROVE  Images'
<1>1. disc' = disc /\ mounted' = mounted /\ before' = before /\ kept' = kept
  BY DEF Rest, fixed
<1>2. \A d \in Calls : Mounter(d)' => Mounter(d) /\ call'[d].place = call[d].place
  OBVIOUS
<1>3. \A c, d \in Calls :
        Mounter(c)' /\ Mounter(d)' /\ call'[c].place = call'[d].place => c = d
  BY <1>2 DEF Images
<1>4. \A p \in mounted \ (before \cup kept) :
        disc[p].kind = "file" => \E c \in Calls : Mounter(c)' /\ call'[c].place = p
  <2> SUFFICES ASSUME NEW p \in mounted \ (before \cup kept), disc[p].kind = "file"
               PROVE  \E c \in Calls : Mounter(c)' /\ call'[c].place = p
    OBVIOUS
  <2>1. PICK c \in Calls : Mounter(c) /\ call[c].place = p  BY DEF Images
  <2> QED  BY <2>1
<1> QED  BY <1>1, <1>2, <1>3, <1>4 DEF Images

(* A step of one call that leaves what is mounted as it is. *)
Aside(c) ==
  \A d \in Calls \ {c} : /\ Like(call[d], call'[d])
                         /\ call'[d].called = call[d].called
                         /\ call'[d].result = call[d].result

LEMMA OwnStep ==
  ASSUME TypeOK, Told, Images, NEW c \in Calls, UNCHANGED <<Rest, sources>>, Aside(c),
         \A d \in Calls \ {c} : d \in requests' <=> d \in requests,
         NEW f, call'[c] = f, f.place = call[c].place,
         Knows(f, At(c), IsMounted(c), c \in lost, call[c].place \in before),
         Mounts(f, At(c), Succeeded(c), c \in requests') <=> Mounter(c)
  PROVE  Told' /\ Images'
<1>1. disc' = disc /\ mounted' = mounted /\ before' = before /\ lost' = lost
  BY DEF Rest, fixed
<1>2. ASSUME NEW d \in Calls \ {c}
      PROVE  /\ Like(call[d], call'[d]) /\ call'[d].place = call[d].place
             /\ call'[d].called = call[d].called /\ call'[d].result = call[d].result
  BY DEF Aside, Like
<1>3. Told'
  <2>1. ASSUME NEW d \in Calls \ {c}
        PROVE  Knows(call'[d], At(d), IsMounted(d), d \in lost, call[d].place \in before)
    <3>1. Knows(call[d], At(d), IsMounted(d), d \in lost, call[d].place \in before)
      BY DEF Told
    <3> QED  BY <1>2, <3>1, KnowsStays
  <2>2. ASSUME NEW d \in Calls
        PROVE  Knows(call'[d], At(d), IsMounted(d), d \in lost, call[d].place \in before)
               /\ call'[d].place = call[d].place
    BY <1>2, <2>1
  <2> QED  BY <1>1, <2>2 DEF Told, At, IsMounted
<1>4. ASSUME NEW d \in Calls
      PROVE  call'[d].place = call[d].place /\ (Mounter(d)' <=> Mounter(d))
  <2>1. CASE d = c  BY <1>1, <2>1 DEF Mounter, Succeeded, At
  <2>2. CASE d # c
    <3>1. Mounts(call'[d], At(d), Succeeded(d), d \in requests) <=> Mounter(d)
      BY <1>2, <2>2, MountsStays DEF Mounter
    <3> QED  BY <1>1, <1>2, <2>2, <3>1 DEF Mounter, Succeeded, At
  <2> QED  BY <2>1, <2>2
<1>5. Images'  BY <1>4, SameMounters
<1> QED  BY <1>3, <1>5

(* Where a call goes on or returns, and the calls around it. *)
LEMMA StackTyped ==
  ASSUME TypeOK
  PROVE  /\ Len(stack) \in Nat
         /\ \A i \in 1 .. Len(stack) : stack[i] \in MainCalls /\ stack[i] \in Calls
BY DEF TypeOK, Calls

LEMMA OnTop ==
  ASSUME TypeOK, Nested, NEW c \in Calls, MayRun(c), NEW i \in 1 .. Len(stack), stack[i] = c
  PROVE  i = Len(stack) /\ c \in MainCalls
<1>1. c \in MainCalls  BY StackTyped
<1>2. stack # <<>> /\ stack[Len(stack)] = c  BY <1>1 DEF MayRun
<1>3. Len(stack) \in 1 .. Len(stack)  BY StackTyped
<1> QED  BY <1>1, <1>2, <1>3 DEF Nested

LEMMA GotoNests ==
  ASSUME TypeOK, Nested, NEW c \in Calls, MayRun(c), NEW f \in Call,
         f.pc \notin {"idle", "done"}, Goto(c, f)
  PROVE  Nested' /\ Aside(c) /\ call'[c] = f
<1>1. call'[c] = f /\ stack' = stack /\ \A d \in Calls \ {c} : call'[d] = call[d]
  BY GotoTyped DEF Goto
<1>2. \A i \in 1 .. Len(stack) : stack[i] # c => call'[stack[i]] = call[stack[i]]
  BY <1>1, StackTyped
<1>3. \A i \in 1 .. Len(stack) - 1 : i \in 1 .. Len(stack) /\ i # Len(stack)
  BY StackTyped
<1>4. \A i \in 1 .. Len(stack) - 1 : call'[stack[i]] = call[stack[i]]
  BY <1>2, <1>3, OnTop
<1>5. \A i \in 1 .. Len(stack) : Running(stack[i])'
  BY <1>1, <1>2 DEF Nested, Running
<1>6. Nested'  BY <1>1, <1>4, <1>5 DEF Nested
<1>7. Aside(c)  BY <1>1 DEF Aside, Like
<1> QED  BY <1>1, <1>6, <1>7

LEMMA ReturnNests ==
  ASSUME TypeOK, Nested, NEW c \in Calls, MayRun(c), NEW f \in Call, Return(c, f)
  PROVE  Nested' /\ Aside(c) /\ call'[c] = f
<1>0. call \in [Calls -> Call]  BY DEF TypeOK
<1>1. CASE c \in MainCalls
  <2> DEFINE n == Len(stack)
  <2>1. n \in Nat /\ n >= 1 /\ stack[n] = c
    BY <1>1, StackTyped DEF MayRun, TypeOK
  <2>2. stack' = SubSeq(stack, 1, n - 1)  BY <1>1 DEF Return
  <2>3. Len(stack') = n - 1 /\ \A i \in 1 .. n - 1 : stack'[i] = stack[i]
    <3> DEFINE k == n - 1
    <3>1. k \in Nat /\ k - 1 + 1 = k /\ \A i \in 1 .. k : stack[i] \in MainCalls /\ 1 + i - 1 = i
      BY <2>1, StackTyped
    <3>2. stack' = SubSeq(stack, 1, k)  BY <2>2
    <3> HIDE DEF k
    <3>3. /\ Len(SubSeq(stack, 1, k)) = IF 1 <= k THEN k - 1 + 1 ELSE 0
          /\ \A i \in 1 .. k - 1 + 1 : SubSeq(stack, 1, k)[i] = stack[1 + i - 1]
      BY <3>1, SubSeqProperties
    <3>4. Len(stack') = k /\ \A i \in 1 .. k : stack'[i] = stack[i]
      BY <3>1, <3>2, <3>3
    <3> QED  BY <3>4 DEF k
  <2>4. \A i \in 1 .. n - 1 : stack[i] # c /\ call[stack[i]].pc = "poll" /\ stack[i] \in Calls
    <3>1. \A i \in 1 .. n - 1 : i \in 1 .. n /\ i # n  BY <2>1
    <3> QED  BY <3>1, OnTop, StackTyped DEF Nested
  <2>5. n > 1 => Outer = stack[n - 1] /\ n - 1 \in 1 .. n - 1  BY <2>1 DEF Outer
  <2>6. /\ call'[c] = f
        /\ \A d \in Calls \ {c} :
             /\ Like(call[d], call'[d]) /\ call'[d].called = call[d].called
             /\ call'[d].result = call[d].result
             /\ (n > 1 => d # stack[n - 1]) => call'[d] = call[d]
             /\ (n > 1 /\ d = stack[n - 1]) => call'[d].pc = "test"
    <3>1. CASE n > 1
      <4> DEFINE o == stack[n - 1]
                 g == [call EXCEPT ![c] = f]
      <4>1. o \in Calls /\ o # c /\ call[o].pc = "poll"  BY <2>4, <2>5, <3>1
      <4>2. call' = [g EXCEPT ![o].pc = "test"]
        BY <1>1, <2>5, <3>1 DEF Return
      <4>3. g \in [Calls -> Call] /\ g[c] = f /\ \A d \in Calls \ {c} : g[d] = call[d]
        BY <1>0
      <4> HIDE DEF o, g
      <4>4. call' = [g EXCEPT ![o] = [g[o] EXCEPT !.pc = "test"]]
        BY <4>1, <4>2, <4>3
      <4>5. g[o] = call[o] /\ call[o] \in Call  BY <1>0, <4>1, <4>3
      <4> DEFINE h == [call[o] EXCEPT !.pc = "test"]
      <4>6. Like(call[o], h) /\ h.called = call[o].called /\ h.result = call[o].result
            /\ h.pc = "test"
        BY <4>1, <4>5, CallSet DEF Like, Waits
      <4>7. call' = [g EXCEPT ![o] = h]  BY <4>4, <4>5
      <4> HIDE DEF h
      <4>8. call'[o] = h /\ \A d \in Calls \ {o} : call'[d] = g[d]
        BY <4>1, <4>3, <4>7
      <4> QED  BY <3>1, <4>1, <4>3, <4>6, <4>8 DEF Like, o
    <3>2. CASE ~(n > 1)
      <4>1. call' = [call EXCEPT ![c] = f]  BY <1>1, <3>2 DEF Return
      <4> QED  BY <1>0, <3>2, <4>1 DEF Like
    <3> QED  BY <3>1, <3>2
  <2>7. Aside(c)  BY <2>6 DEF Aside
  <2> HIDE DEF n
  <2>8. \A i \in 1 .. n - 1 : stack[i] \in Calls \ {c}  BY <2>4
  <2>9. \A i \in 1 .. n - 1 : i # n - 1 => stack[i] # stack[n - 1]
    <3>1. \A i \in 1 .. n - 1 : i \in 1 .. n /\ n - 1 \in 1 .. n  BY <2>1
    <3> QED  BY <3>1 DEF Nested, n
  <2>10. \A i \in 1 .. n - 1 : call'[stack[i]].pc = IF i = n - 1 THEN "test" ELSE "poll"
    <3> SUFFICES ASSUME NEW i \in 1 .. n - 1
                 PROVE  call'[stack[i]].pc = IF i = n - 1 THEN "test" ELSE "poll"
      OBVIOUS
    <3>1. n > 1  BY <2>1
    <3>2. CASE i = n - 1  BY <2>6, <2>8, <3>1, <3>2
    <3>3. CASE i # n - 1  BY <2>4, <2>6, <2>8, <2>9, <3>3
    <3> QED  BY <3>2, <3>3
  <2>12. \A i \in 1 .. Len(stack') - 1 : call'[stack'[i]].pc = "poll"
    <3>1. \A i \in 1 .. Len(stack') - 1 : i \in 1 .. n - 1 /\ i # n - 1  BY <2>1, <2>3
    <3> QED  BY <2>3, <2>10, <3>1
  <2>13. \A i, j \in 1 .. Len(stack') : stack'[i] = stack'[j] => i = j
    <3>1. \A i \in 1 .. Len(stack') : i \in 1 .. n  BY <2>1, <2>3
    <3> QED  BY <2>3, <3>1 DEF Nested, n
  <2>14. \A i \in 1 .. Len(stack') : call'[stack'[i]].pc \notin {"idle", "done"}
    BY <2>3, <2>10
  <2>15. Nested'  BY <2>12, <2>13, <2>14 DEF Nested, Running
  <2> QED  BY <2>6, <2>7, <2>15
<1>2. CASE c \notin MainCalls
  <2>1. call' = [call EXCEPT ![c] = f] /\ stack' = stack  BY <1>2 DEF Return
  <2>2. call'[c] = f /\ \A d \in Calls \ {c} : call'[d] = call[d]  BY <1>0, <2>1
  <2>3. \A i \in 1 .. Len(stack) : call'[stack[i]] = call[stack[i]]
    BY <1>2, <2>2, StackTyped
  <2>4. \A i \in 1 .. Len(stack) - 1 : i \in 1 .. Len(stack)  BY StackTyped
  <2>5. Nested'  BY <2>1, <2>3, <2>4 DEF Nested, Running
  <2>6. Aside(c)  BY <2>2 DEF Aside, Like
  <2> QED  BY <2>2, <2>5, <2>6
<1> QED  BY <1>1, <1>2

-----------------------------------------------------------------------------
(***************************************************************************)
(* A step of a call keeps what the calls know and who answers for a mount, *)
(* if it does so for the call that takes it.                               *)
(***************************************************************************)
KnowsWith(c, f) == Knows(f, At(c), IsMounted(c), c \in lost, call[c].place \in before)

LEMMA GoesOn ==
  ASSUME TypeOK, KInv, NEW c \in Calls, MayRun(c), NEW f \in Call, Goto(c, f),
         UNCHANGED <<Rest, requests, sources>>,
         f.pc \notin {"idle", "done"}, f.place = call[c].place, KnowsWith(c, f),
         Mounts(f, At(c), Succeeded(c), c \in requests) <=> Mounter(c)
  PROVE  KInv'
<1>1. Nested' /\ Aside(c) /\ call'[c] = f  BY GotoNests DEF KInv
<1>2. Told' /\ Images'  BY <1>1, OwnStep DEF KInv, KnowsWith
<1> QED  BY <1>1, <1>2 DEF KInv

LEMMA ComesBack ==
  ASSUME TypeOK, KInv, NEW c \in Calls, MayRun(c), NEW f \in Call, Return(c, f),
         UNCHANGED <<Rest, requests, sources>>,
         f.pc = "done", f.place = call[c].place, KnowsWith(c, f), ~Mounter(c)
  PROVE  KInv'
<1>1. Nested' /\ Aside(c) /\ call'[c] = f  BY ReturnNests DEF KInv
<1>2. ~Mounts(f, At(c), Succeeded(c), c \in requests)  BY DEF Mounts, WaitsFor, Waits
<1>3. Told' /\ Images'  BY <1>1, <1>2, OwnStep DEF KInv, KnowsWith
<1> QED  BY <1>1, <1>3 DEF KInv

AskedRight(c, goal, r) ==
  \A f \in Call : (/\ f.pc = "test" /\ f.goal = goal /\ f.called = FALSE
                   /\ f.op = r.op /\ f.cache = r.cache /\ f.type = r.type
                   /\ f.errors = r.errors)
    => KnowsWith(c, f) /\ (Mounts(f, At(c), Succeeded(c), TRUE) <=> Mounter(c))

LEMMA AsksOn ==
  ASSUME TypeOK, KInv, NEW c \in Calls, MayRun(c), NEW r \in Call,
         NEW goal \in {"mount_iso", "mount_volume", "unmount"}, AskFor(c, goal, r),
         UNCHANGED <<Rest, sources>>, r.place = call[c].place,
         AskedRight(c, goal, r)
  PROVE  KInv'
<1> DEFINE f == [r EXCEPT !.pc = "test", !.called = FALSE, !.goal = goal]
<1>1. f \in Call  BY CallSet DEF Waits
<1>2. /\ f.pc = "test" /\ f.goal = goal /\ f.called = FALSE /\ f.op = r.op
      /\ f.cache = r.cache /\ f.type = r.type /\ f.errors = r.errors
      /\ f.place = call[c].place
  BY CallSet
<1>3. Goto(c, f) /\ requests' = requests \cup {c}  BY DEF AskFor
<1> HIDE DEF f
<1>4. Nested' /\ Aside(c) /\ call'[c] = f  BY <1>1, <1>2, <1>3, GotoNests DEF KInv
<1>5. KnowsWith(c, f) /\ (Mounts(f, At(c), Succeeded(c), TRUE) <=> Mounter(c))
  BY <1>1, <1>2 DEF AskedRight
<1>6. c \in requests' /\ \A d \in Calls \ {c} : d \in requests' <=> d \in requests
  BY <1>3
<1>7. Mounts(f, At(c), Succeeded(c), c \in requests') <=> Mounter(c)
  BY <1>5, <1>6 DEF Mounts
<1>8. Told' /\ Images'  BY <1>2, <1>4, <1>5, <1>6, <1>7, OwnStep DEF KInv, KnowsWith
<1> QED  BY <1>4, <1>8 DEF KInv

(* What a call that moves starts from: nothing is under way for it. *)
LEMMA OwnNow ==
  ASSUME TypeOK, Frame, KInv, NEW c \in Calls
  PROVE  /\ call[c] \in Call /\ At(c) \in Disc /\ KnowsWith(c, call[c])
         /\ Mounter(c) => IsMounted(c)
         /\ ~Waiting(c) \/ call[c].called => ~Succeeded(c) /\ c \notin requests
<1>1. call[c] \in Call /\ At(c) \in Disc  BY DiscTyped
<1>2. KnowsWith(c, call[c])  BY DEF KInv, Told, KnowsWith
<1>3. Mounter(c) => IsMounted(c)  BY DEF KInv, Images, IsMounted
<1>4. ASSUME Succeeded(c) PROVE Waiting(c) /\ ~call[c].called
  BY <1>4 DEF Succeeded, Frame, CallbackHasItsFrame
<1>5. c \in requests => Waiting(c) /\ ~call[c].called
  BY DEF Frame, CallbackHasItsFrame
<1> QED  BY <1>1, <1>2, <1>3, <1>4, <1>5

LEMMA DoneFields ==
  ASSUME NEW r \in Call,
         NEW type \in {"none", "error", "data", "vcd", "dvd", "cdda", "medium", "no_medium"}
  PROVE  LET d == Done(r, type)
             f == Fail(r)
         IN  /\ d \in Call /\ f \in Call
             /\ d.pc = "done" /\ d.op = r.op /\ d.place = r.place
             /\ d.errors = r.errors /\ d.type = type
             /\ f.pc = r.pc /\ f.op = r.op /\ f.place = r.place /\ f.cache = r.cache
             /\ f.errors = r.errors + 1
<1>1. Done(r, type) \in Call /\ Fail(r) \in Call  BY DoneTyped
<1>2. NotStarted \in Call  BY CachesTyped
<1>3. /\ Fail(r).pc = r.pc /\ Fail(r).op = r.op /\ Fail(r).place = r.place
      /\ Fail(r).cache = r.cache /\ Fail(r).errors = r.errors + 1
  BY CallSet DEF Fail
<1>4. LET d == Done(r, type)
      IN  /\ d.pc = "done" /\ d.op = r.op /\ d.place = r.place
          /\ d.errors = r.errors /\ d.type = type
  BY <1>2, CallSet DEF Done
<1> QED  BY <1>1, <1>3, <1>4

(* A call that fails, or has no use for what is there, claims nothing.     *)
LEMMA ClaimsNothing ==
  ASSUME NEW r, NEW f, NEW d, NEW on, NEW gone, NEW old, Knows(r, d, on, gone, old),
         r.pc # "idle", f.pc = "done", f.op = r.op, f.type \in {"error", "medium"},
         f.errors \in {0, 1},
         f.errors = 0 => d.kind \in {"remote", "file"}
  PROVE  Knows(f, d, on, gone, old)
BY DEF Knows, WaitsFor, Waits, Found

LEMMA NewKeeps ==
  ASSUME TypeOK, Frame, KInv, NEW c \in Calls,
         \/ NewRemote(c) \/ NewDirectory(c) \/ NewImage(c) \/ NewImageUnknown(c)
         \/ NewDevice(c) \/ NewNoDisc(c)
  PROVE  KInv'
<1> DEFINE r == call[c]
           nothing == IF r.op = "has_medium" THEN "medium" ELSE "error"
<1>1. /\ r \in Call /\ At(c) \in Disc /\ KnowsWith(c, r)
      /\ MayRun(c) /\ r.pc = "new"
  BY OwnNow DEF NewRemote, NewDirectory, NewImage, NewImageUnknown, NewDevice, NewNoDisc, New
<1>2. ~Succeeded(c) /\ c \notin requests /\ ~Mounter(c)
  BY <1>1, OwnNow DEF Waiting, Waits, Mounter, Mounts, WaitsFor
<1>3. r.errors = 0 /\ r.op \in Ops /\ r.place = call[c].place
  BY <1>1, CallSet DEF KnowsWith, Knows
<1>4. /\ Done(r, nothing) \in Call /\ Done(Fail(r), nothing) \in Call
      /\ Done(r, nothing).pc = "done" /\ Done(Fail(r), nothing).pc = "done"
      /\ Done(r, nothing).place = r.place /\ Done(Fail(r), nothing).place = r.place
      /\ Done(r, nothing).op = r.op /\ Done(Fail(r), nothing).op = r.op
      /\ Done(r, nothing).type = nothing /\ Done(Fail(r), nothing).type = nothing
      /\ Done(r, nothing).errors = 0 /\ Done(Fail(r), nothing).errors = 1
  <2>1. Fail(r) \in Call  BY <1>1, DoneFields
  <2> HIDE DEF r
  <2> QED  BY <1>1, <1>3, <2>1, DoneFields
<1>5. nothing \in {"error", "medium"}  OBVIOUS
<1> HIDE DEF nothing, r
<1>6. KnowsWith(c, Done(Fail(r), nothing))
  BY <1>1, <1>4, <1>5, ClaimsNothing DEF KnowsWith
<1>7. At(c).kind \in {"remote", "file"} => KnowsWith(c, Done(r, nothing))
  BY <1>1, <1>4, <1>5, ClaimsNothing DEF KnowsWith
<1>8. CASE NewRemote(c) \/ NewImageUnknown(c)
  <2>1. /\ Return(c, Done(r, nothing)) /\ UNCHANGED <<Rest, requests, sources>>
        /\ At(c).kind \in {"remote", "file"}
    BY <1>8 DEF NewRemote, NewImageUnknown, Rest, r, nothing
  <2> QED  BY <1>1, <1>2, <1>3, <1>4, <1>7, <2>1, ComesBack
<1>9. CASE NewNoDisc(c)
  <2>1. Return(c, Done(Fail(r), nothing)) /\ UNCHANGED <<Rest, requests, sources>>
    BY <1>9 DEF NewNoDisc, Rest, r, nothing
  <2> QED  BY <1>1, <1>2, <1>3, <1>4, <1>6, <2>1, ComesBack
<1>10. CASE NewDirectory(c)
  <2> DEFINE cache == [NoCache EXCEPT !.types = At(c).types, !.mountpoint = TRUE]
             f == [r EXCEPT !.pc = "detect", !.cache = cache]
  <2>1. cache \in Cache /\ cache.types = At(c).types /\ cache.mountpoint /\ ~cache.is_iso
        /\ ~cache.is_media
    BY <1>1, CachesTyped DEF Cache, Disc, NoCache
  <2>2. /\ Goto(c, f) /\ UNCHANGED <<Rest, requests, sources>> /\ At(c).kind = "directory"
    BY <1>10 DEF NewDirectory, Rest, r
  <2> HIDE DEF cache
  <2>3. /\ f \in Call /\ f.pc = "detect" /\ f.cache = cache /\ f.op = r.op
        /\ f.place = r.place /\ f.errors = r.errors
    BY <1>1, <2>1, CallSet
  <2> HIDE DEF f
  <2>4. KnowsWith(c, f)
    BY <1>1, <1>3, <2>1, <2>2, <2>3 DEF KnowsWith, Knows, WaitsFor, Waits
  <2>5. ~Mounts(f, At(c), Succeeded(c), c \in requests)  BY <2>2 DEF Mounts
  <2> QED  BY <1>1, <1>2, <1>3, <2>2, <2>3, <2>4, <2>5, GoesOn
<1>11. CASE NewImage(c)
  <2> DEFINE cache == [NoCache EXCEPT !.is_iso = TRUE]
             iso == [r EXCEPT !.cache = cache]
             f == [iso EXCEPT !.pc = "guess"]
  <2>1. cache \in Cache /\ cache.is_iso /\ ~cache.is_media /\ ~cache.self_mounted
    BY CachesTyped DEF Cache, NoCache
  <2>2. /\ UNCHANGED <<Rest, sources>> /\ At(c).kind = "file"
        /\ \/ Goto(c, f) /\ UNCHANGED requests /\ IsMounted(c)
           \/ AskFor(c, "mount_iso", iso)
    BY <1>11 DEF NewImage, Rest, r
  <2> HIDE DEF cache
  <2>3. /\ iso \in Call /\ iso.cache = cache /\ iso.op = r.op /\ iso.place = r.place
        /\ iso.errors = r.errors /\ iso.pc = r.pc
    BY <1>1, <2>1, CallSet
  <2> HIDE DEF iso
  <2>4. /\ f \in Call /\ f.cache = cache /\ f.op = r.op /\ f.place = r.place
        /\ f.errors = r.errors /\ f.pc = "guess"
    BY <2>3, CallSet
  <2> HIDE DEF f
  <2>5. CASE Goto(c, f) /\ UNCHANGED requests /\ IsMounted(c)
    <3>1. KnowsWith(c, f)
      BY <1>1, <1>3, <2>1, <2>2, <2>4, <2>5 DEF KnowsWith, Knows, WaitsFor, Waits
    <3>2. ~Mounts(f, At(c), Succeeded(c), c \in requests)
      BY <2>1, <2>4 DEF Mounts, WaitsFor, Waits
    <3> QED  BY <1>1, <1>2, <1>3, <2>2, <2>4, <2>5, <3>1, <3>2, GoesOn
  <2>6. CASE AskFor(c, "mount_iso", iso)
    <3>1. AskedRight(c, "mount_iso", iso)
      <4> SUFFICES ASSUME NEW g \in Call, g.pc = "test", g.goal = "mount_iso",
                          g.called = FALSE, g.op = iso.op, g.cache = iso.cache,
                          g.errors = iso.errors
                   PROVE  /\ KnowsWith(c, g)
                          /\ Mounts(g, At(c), Succeeded(c), TRUE) <=> Mounter(c)
        BY DEF AskedRight
      <4>1. KnowsWith(c, g)
        BY <1>1, <1>3, <2>1, <2>2, <2>3 DEF KnowsWith, Knows, WaitsFor, Waits
      <4>2. ~Mounts(g, At(c), Succeeded(c), TRUE)
        BY <1>2 DEF Mounts, WaitsFor, Waits
      <4> QED  BY <1>2, <4>1, <4>2
    <3> QED  BY <1>1, <1>3, <2>2, <2>3, <2>6, <3>1, AsksOn
  <2> QED  BY <2>2, <2>5, <2>6
<1>12. CASE NewDevice(c)
  <2> DEFINE types == IF IsMounted(c) THEN At(c).types ELSE {}
             cache == [NoCache EXCEPT !.is_media = TRUE, !.mountpoint = MountpointFound(c),
                                      !.types = types]
             f == [r EXCEPT !.pc = "detect", !.cache = cache]
  <2>1. cache \in Cache /\ cache.types = types /\ ~cache.is_iso /\ cache.is_media
    BY <1>1, CachesTyped DEF Cache, Disc, NoCache, MountpointFound, IsMounted
  <2>2. /\ Goto(c, f) /\ UNCHANGED <<Rest, requests, sources>> /\ At(c).kind = "device"
    BY <1>12 DEF NewDevice, Rest, r
  <2>3. call[c].place \in before => types = At(c).types
    BY DEF KInv, Images, IsMounted
  <2> HIDE DEF cache, types
  <2>4. /\ f \in Call /\ f.pc = "detect" /\ f.cache = cache /\ f.op = r.op
        /\ f.place = r.place /\ f.errors = r.errors
    BY <1>1, <2>1, CallSet
  <2> HIDE DEF f
  <2>5. KnowsWith(c, f)
    BY <1>1, <1>3, <2>1, <2>2, <2>3, <2>4 DEF KnowsWith, Knows, WaitsFor, Waits
  <2>6. ~Mounts(f, At(c), Succeeded(c), c \in requests)  BY <2>2 DEF Mounts
  <2> QED  BY <1>1, <1>2, <1>3, <2>2, <2>4, <2>5, <2>6, GoesOn
<1> QED  BY <1>8, <1>9, <1>10, <1>11, <1>12

LEMMA IsoKeeps ==
  ASSUME TypeOK, Frame, KInv, NEW c \in Calls, MountedIso(c) \/ GuessTree(c)
  PROVE  KInv'
<1> DEFINE r == call[c]
           nothing == IF r.op = "has_medium" THEN "medium" ELSE "error"
<1>1. /\ r \in Call /\ At(c) \in Disc /\ KnowsWith(c, r) /\ MayRun(c)
      /\ r.place = call[c].place /\ r.op \in Ops
  BY OwnNow, CallSet DEF MountedIso, GuessTree
<1> HIDE DEF r
<1>2. CASE MountedIso(c)
  <2>1. /\ r.pc = "test" /\ r.called /\ r.goal = "mount_iso"
        /\ UNCHANGED <<Rest, requests, sources>>
    BY <1>2 DEF MountedIso, Rest, r
  <2>2. ~Succeeded(c) /\ c \notin requests  BY <2>1, OwnNow DEF r
  <2>3. At(c).kind = "file" /\ r.cache.is_iso /\ ~r.cache.is_media /\ r.errors = 0
    BY <1>1, <2>1 DEF KnowsWith, Knows, Waits
  <2>4. Mounter(c) <=> r.result
    BY <1>1, <2>1, <2>2, <2>3 DEF Mounter, Mounts, WaitsFor, Waits, r
  <2>5. CASE r.result
    <3> DEFINE f == [r EXCEPT !.pc = "guess", !.cache.self_mounted = TRUE]
    <3>1. Goto(c, f)  BY <1>2, <2>5 DEF MountedIso, r
    <3>2. r.cache \in Cache  BY <1>1, CallSet
    <3>3. /\ f \in Call /\ f.pc = "guess" /\ f.op = r.op /\ f.place = r.place
          /\ f.errors = r.errors /\ f.cache.is_iso = r.cache.is_iso
          /\ f.cache.is_media = r.cache.is_media /\ f.cache.self_mounted
      BY <1>1, <3>2, CallSet DEF Cache
    <3> HIDE DEF f
    <3>4. IsMounted(c)  BY <2>4, <2>5, OwnNow
    <3>5. KnowsWith(c, f)
      BY <1>1, <2>1, <2>3, <3>3, <3>4 DEF KnowsWith, Knows, WaitsFor, Waits
    <3>6. Mounts(f, At(c), Succeeded(c), c \in requests)
      BY <2>3, <3>3 DEF Mounts
    <3> QED  BY <1>1, <2>1, <2>4, <2>5, <3>1, <3>3, <3>5, <3>6, GoesOn
  <2>6. CASE ~r.result
    <3> DEFINE f == Done(Fail(r), nothing)
    <3>1. Return(c, f)  BY <1>2, <2>6 DEF MountedIso, r
    <3>2. Fail(r) \in Call  BY <1>1, DoneFields
    <3>3. /\ f \in Call /\ f.pc = "done" /\ f.op = r.op /\ f.place = r.place
          /\ f.errors = 1 /\ f.type \in {"error", "medium"}
      BY <1>1, <2>3, <3>2, DoneFields
    <3> HIDE DEF f
    <3>4. KnowsWith(c, f)  BY <1>1, <2>1, <3>3, ClaimsNothing DEF KnowsWith
    <3> QED  BY <1>1, <2>1, <2>4, <2>6, <3>1, <3>3, <3>4, ComesBack
  <2> QED  BY <2>5, <2>6
<1>3. CASE GuessTree(c)
  <2> DEFINE types == IF IsMounted(c) THEN At(c).types ELSE {}
             path == IsMounted(c) /\ At(c).path
             f == [r EXCEPT !.pc = "detect", !.cache.mounted = TRUE,
                            !.cache.types = types, !.cache.mountpoint = path]
  <2>1. /\ r.pc = "guess" /\ Goto(c, f) /\ UNCHANGED <<Rest, requests, sources>>
    BY <1>3 DEF GuessTree, Rest, r
  <2>2. r.cache \in Cache /\ types \in SUBSET Types /\ path \in BOOLEAN
    BY <1>1, CallSet DEF Disc, IsMounted
  <2>3. c \notin lost => types = At(c).types
    BY <1>1, <2>1 DEF KnowsWith, Knows
  <2> HIDE DEF types, path
  <2>4. /\ f \in Call /\ f.pc = "detect" /\ f.op = r.op /\ f.place = r.place
        /\ f.errors = r.errors /\ f.cache.is_iso = r.cache.is_iso
        /\ f.cache.is_media = r.cache.is_media /\ f.cache.types = types
        /\ f.cache.self_mounted = r.cache.self_mounted
    BY <1>1, <2>2, CallSet DEF Cache
  <2> HIDE DEF f
  <2>5. KnowsWith(c, f)
    BY <1>1, <2>1, <2>3, <2>4 DEF KnowsWith, Knows, WaitsFor, Waits
  <2>6. Mounts(f, At(c), Succeeded(c), c \in requests) <=> Mounter(c)
    BY <2>1, <2>4 DEF Mounter, Mounts, WaitsFor, Waits, r
  <2> QED  BY <1>1, <2>1, <2>4, <2>5, <2>6, GoesOn
<1> QED  BY <1>2, <1>3

-----------------------------------------------------------------------------

(* A call decides: it goes to cd_cache_free with a type. *)
Freed(r, type) == [r EXCEPT !.pc = "free", !.type = type]

LEMMA FreedFields ==
  ASSUME NEW r \in Call,
         NEW type \in {"error", "data", "vcd", "dvd", "cdda", "medium", "no_medium"}
  PROVE  LET f == Freed(r, type)
         IN  /\ f \in Call /\ f.pc = "free" /\ f.op = r.op /\ f.place = r.place
             /\ f.cache = r.cache /\ f.type = type /\ f.errors = r.errors
BY CallSet DEF Freed

LEMMA Decides ==
  ASSUME TypeOK, Frame, KInv, NEW c \in Calls, MayRun(c),
         call[c].pc \in {"detect", "parent"} \/ WaitsFor(call[c], "mount_volume"),
         NEW r \in Call, r.op = call[c].op, r.place = call[c].place, r.cache = call[c].cache,
         NEW type \in {"error", "data", "vcd", "dvd", "cdda", "medium", "no_medium"},
         \/ r.errors = 0
         \/ r.errors = 1 /\ type = "error" /\ call[c].cache.is_media,
         (type \in Found /\ c \notin lost
            /\ (At(c).kind = "device" => call[c].place \in before))
           => type = Reference(At(c), call[c].op),
         (type = "error" /\ r.errors = 0) => At(c).kind \in {"remote", "file"} \/ ~At(c).path,
         Goto(c, Freed(r, type)), UNCHANGED <<Rest, requests, sources>>
  PROVE  KInv'
<1> DEFINE q == call[c]
           f == Freed(r, type)
<1>1. q \in Call /\ At(c) \in Disc /\ KnowsWith(c, q) /\ Goto(c, f)  BY OwnNow
<1>2. r.place = q.place /\ r.op = q.op /\ r.cache = q.cache
      /\ q.place = call[c].place
  OBVIOUS
<1>3. q.pc \in {"detect", "parent"} \/ WaitsFor(q, "mount_volume")  OBVIOUS
<1>4. /\ f \in Call /\ f.pc = "free" /\ f.op = r.op /\ f.place = r.place
      /\ f.cache = r.cache /\ f.type = type /\ f.errors = r.errors
  BY FreedFields
<1>5. Mounter(c) <=> Mounts(q, At(c), Succeeded(c), c \in requests)  BY DEF Mounter
<1> HIDE DEF q, f
<1>6. q.pc = "detect" \/ (q.pc \in Waits /\ At(c).kind = "device")
      \/ (q.pc = "parent" /\ At(c).kind = "directory")
  BY <1>1, <1>3 DEF KnowsWith, Knows, WaitsFor, Waits
<1>7. Mounts(f, At(c), Succeeded(c), c \in requests) <=> Mounter(c)
  BY <1>2, <1>4, <1>5, <1>6 DEF Mounts, WaitsFor, Waits
<1>8. KnowsWith(c, f)
  BY <1>1, <1>2, <1>4, <1>6 DEF KnowsWith, Knows, WaitsFor, Waits, q
<1>9. f.pc \notin {"idle", "done"} /\ f.place = call[c].place  BY <1>2, <1>4
<1> QED  BY <1>1, <1>4, <1>7, <1>8, <1>9, GoesOn

LEMMA DetectKeeps ==
  ASSUME TypeOK, Frame, KInv, NEW c \in Calls,
         FindMedium(c) \/ OpenDevice(c) \/ DetectCdda(c) \/ DetectType(c)
  PROVE  KInv'
<1> DEFINE r == call[c]
<1>1. /\ r \in Call /\ At(c) \in Disc /\ KnowsWith(c, r) /\ MayRun(c) /\ r.pc = "detect"
      /\ UNCHANGED <<Rest, requests, sources>>
  BY OwnNow DEF FindMedium, OpenDevice, DetectCdda, DetectType, Detect, Opened, Rest
<1>2. r.errors = 0 /\ r.op \in Ops  BY <1>1, CallSet DEF KnowsWith, Knows
<1>3. r.place = call[c].place /\ r.op = call[c].op /\ r.cache = call[c].cache  OBVIOUS
<1> HIDE DEF r
<1>4. /\ r.cache.is_iso <=> At(c).kind = "file"
      /\ r.cache.is_media <=> At(c).kind = "device"
      /\ At(c).kind = "directory" => r.cache.mountpoint
      /\ At(c).kind \in {"directory", "file", "device"}
      /\ r.op \in Directories => At(c).kind \in {"directory", "remote"}
      /\ c \notin lost /\ (At(c).kind = "device" => call[c].place \in before)
           => r.cache.types = At(c).types
  BY <1>1 DEF KnowsWith, Knows
<1>5. CASE FindMedium(c)
  <2>1. PICK type \in {"medium", "no_medium"} : Goto(c, Freed(r, type))
    BY <1>5 DEF FindMedium, Freed, r
  <2>2. type \notin Found /\ type # "error"  BY DEF Found
  <2> QED  BY <1>1, <1>2, <1>3, <2>1, <2>2, Decides DEF r
<1>6. CASE OpenDevice(c)
  <2>1. Goto(c, Freed(Fail(r), "error")) /\ r.cache.is_media
    BY <1>6 DEF OpenDevice, OpenDeviceFails, Freed, r
  <2>2. /\ Fail(r) \in Call /\ Fail(r).op = r.op /\ Fail(r).place = r.place
        /\ Fail(r).cache = r.cache /\ Fail(r).errors = 1
    BY <1>1, <1>2, DoneFields
  <2>3. "error" \notin Found  BY DEF Found
  <2> QED  BY <1>1, <1>3, <2>1, <2>2, <2>3, Decides DEF r
<1>7. CASE DetectCdda(c)
  <2>1. Goto(c, Freed(r, "cdda")) /\ r.cache.is_media /\ "cdda" \in r.cache.types
    BY <1>7 DEF DetectCdda, Cdda, Freed, r
  <2>2. c \notin lost /\ (At(c).kind = "device" => call[c].place \in before)
          => "cdda" = Reference(At(c), call[c].op)
    BY <1>3, <1>4, <2>1 DEF Reference, Directories
  <2> QED  BY <1>1, <1>2, <1>3, <2>1, <2>2, Decides DEF r
<1>8. CASE DetectType(c)
  <2> DEFINE type == TypeFound(c)
             pathless == IF r.cache.is_media THEN ~(r.cache.mountpoint \/ At(c).path)
                         ELSE ~r.cache.mountpoint
             first == IF pathless THEN "error" ELSE DiscType(r.cache.types)
  <2>1. type = IF first = "data" /\ r.cache.is_iso /\ r.op = "with_url" THEN "error" ELSE first
    BY DEF TypeFound, r
  <2>2. DiscType(r.cache.types) \in {"vcd", "dvd", "data"}  BY DiscTypes
  <2>3. type = "error" => At(c).kind = "file" \/ ~At(c).path
    BY <1>4, <2>1, <2>2
  <2>4. type # "error" => type = DiscType(r.cache.types)  BY <2>1
  <2>5. ~(type = "data" /\ r.cache.is_iso /\ r.op = "with_url")  BY <2>1
  <2>6. type \in {"error", "vcd", "dvd", "data"}  BY <2>1, <2>2
  <2>7. ~(r.cache.is_media /\ "cdda" \in r.cache.types)
    BY <1>8 DEF DetectType, Cdda, r
  <2>8. \/ /\ r.op \in Directories /\ type = "data"
           /\ Goto(c, [r EXCEPT !.pc = "parent", !.cache = NoCache])
        \/ /\ ~(r.op \in Directories /\ type = "data")
           /\ Goto(c, Freed(r, type))
    BY <1>8 DEF DetectType, ByDirectory, Directories, Freed, r
  <2> HIDE DEF type, first, pathless
  <2>9. CASE /\ ~(r.op \in Directories /\ type = "data")
             /\ Goto(c, Freed(r, type))
    <3>1. c \notin lost /\ (At(c).kind = "device" => call[c].place \in before)
            /\ type \in Found => type = Reference(At(c), call[c].op)
      BY <1>3, <1>4, <2>4, <2>5, <2>6, <2>7, <2>9 DEF Reference, Directories, Found
    <3>2. type = "error" => At(c).kind \in {"remote", "file"} \/ ~At(c).path  BY <2>3
    <3>3. type \in {"error", "data", "vcd", "dvd", "cdda", "medium", "no_medium"}  BY <2>6
    <3> QED  BY <1>1, <1>2, <1>3, <2>9, <3>1, <3>2, <3>3, Decides DEF r
  <2>10. CASE /\ r.op \in Directories /\ type = "data"
              /\ Goto(c, [r EXCEPT !.pc = "parent", !.cache = NoCache])
    <3> DEFINE f == [r EXCEPT !.pc = "parent", !.cache = NoCache]
    <3>1. NoCache \in Cache /\ ~NoCache.is_iso /\ ~NoCache.is_media
      BY CachesTyped DEF NoCache
    <3>2. /\ f \in Call /\ f.pc = "parent" /\ f.op = r.op /\ f.place = r.place
          /\ f.cache = NoCache /\ f.errors = r.errors
      BY <1>1, <3>1, CallSet
    <3>3. Goto(c, f)  BY <2>10
    <3> HIDE DEF f
    <3>4. At(c).kind = "directory"  BY <1>4, <2>10
    <3>5. KnowsWith(c, f)
      BY <1>1, <1>2, <1>4, <2>4, <2>10, <3>1, <3>2, <3>4
      DEF KnowsWith, Knows, WaitsFor, Waits
    <3>6. ~Mounts(f, At(c), Succeeded(c), c \in requests) /\ ~Mounter(c)
      BY <3>4 DEF Mounts, Mounter
    <3> QED  BY <1>1, <1>3, <3>2, <3>3, <3>5, <3>6, GoesOn
  <2> QED  BY <2>8, <2>9, <2>10
<1> QED  BY <1>5, <1>6, <1>7, <1>8

LEMMA VolumeKeeps ==
  ASSUME TypeOK, Frame, KInv, NEW c \in Calls,
         OpenMountpoint(c) \/ MountedVolume(c) \/ DetectParent(c)
  PROVE  KInv'
<1> DEFINE r == call[c]
<1>1. r \in Call /\ At(c) \in Disc /\ KnowsWith(c, r) /\ MayRun(c) /\ r.cache \in Cache
  BY OwnNow, CallSet DEF OpenMountpoint, MountedVolume, DetectParent, Opened, Detect
<1>2. r.place = call[c].place /\ r.op = call[c].op /\ r.cache = call[c].cache  OBVIOUS
<1> HIDE DEF r
<1>3. CASE OpenMountpoint(c)
  <2> DEFINE s == [r EXCEPT !.cache.self_mounted = TRUE]
  <2>1. /\ AskFor(c, "mount_volume", s) /\ r.pc = "detect" /\ r.cache.is_media
        /\ UNCHANGED <<Rest, sources>>
    BY <1>3 DEF OpenMountpoint, Opened, Detect, NeedsMount, Rest, r
  <2>2. /\ s \in Call /\ s.op = r.op /\ s.place = r.place /\ s.errors = r.errors
        /\ s.cache.types = r.cache.types /\ s.cache.mountpoint = r.cache.mountpoint
        /\ s.cache.is_iso = r.cache.is_iso /\ s.cache.is_media = r.cache.is_media
    BY <1>1, CallSet DEF Cache
  <2> HIDE DEF s
  <2>3. At(c).kind = "device"  BY <1>1, <2>1 DEF KnowsWith, Knows
  <2>4. AskedRight(c, "mount_volume", s)
    <3> SUFFICES ASSUME NEW g \in Call, g.pc = "test", g.goal = "mount_volume",
                        g.called = FALSE, g.op = s.op, g.cache = s.cache,
                        g.errors = s.errors
                 PROVE  /\ KnowsWith(c, g)
                        /\ Mounts(g, At(c), Succeeded(c), TRUE) <=> Mounter(c)
      BY DEF AskedRight
    <3>1. KnowsWith(c, g)
      BY <1>1, <2>1, <2>2, <2>3 DEF KnowsWith, Knows, WaitsFor, Waits
    <3>2. ~Mounts(g, At(c), Succeeded(c), TRUE) /\ ~Mounter(c)
      BY <2>3 DEF Mounts, Mounter
    <3> QED  BY <3>1, <3>2
  <2>5. s.place = call[c].place  BY <1>2, <2>2
  <2> QED  BY <1>1, <2>1, <2>2, <2>4, <2>5, AsksOn
<1>4. CASE MountedVolume(c)
  <2> DEFINE f == [r EXCEPT !.pc = "detect", !.cache.mounted = TRUE]
  <2>1. /\ WaitsFor(r, "mount_volume") /\ r.called /\ UNCHANGED <<Rest, requests, sources>>
        /\ IF r.result THEN Goto(c, f) ELSE Goto(c, Freed(Fail(r), "error"))
    BY <1>4 DEF MountedVolume, WaitsFor, Waits, Freed, Rest, r
  <2>2. /\ f \in Call /\ f.pc = "detect" /\ f.op = r.op /\ f.place = r.place
        /\ f.errors = r.errors /\ f.cache.types = r.cache.types
        /\ f.cache.mountpoint = r.cache.mountpoint
        /\ f.cache.is_iso = r.cache.is_iso /\ f.cache.is_media = r.cache.is_media
    BY <1>1, CallSet DEF Cache
  <2> HIDE DEF f
  <2>3. At(c).kind = "device" /\ r.cache.is_media /\ r.errors = 0
    BY <1>1, <2>1 DEF KnowsWith, Knows, WaitsFor, Waits
  <2>4. CASE r.result
    <3>1. KnowsWith(c, f)
      BY <1>1, <2>1, <2>2, <2>3 DEF KnowsWith, Knows, WaitsFor, Waits
    <3>2. ~Mounts(f, At(c), Succeeded(c), c \in requests) /\ ~Mounter(c)
      BY <2>3 DEF Mounts, Mounter
    <3> QED  BY <1>1, <1>2, <2>1, <2>2, <2>4, <3>1, <3>2, GoesOn
  <2>5. CASE ~r.result
    <3>1. /\ Fail(r) \in Call /\ Fail(r).op = r.op /\ Fail(r).place = r.place
          /\ Fail(r).cache = r.cache /\ Fail(r).errors = 1
      BY <1>1, <2>3, DoneFields
    <3>2. "error" \notin Found  BY DEF Found
    <3> QED  BY <1>1, <1>2, <2>1, <2>3, <2>5, <3>1, <3>2, Decides DEF r
  <2> QED  BY <2>4, <2>5
<1>5. CASE DetectParent(c)
  <2>1. /\ r.pc = "parent" /\ UNCHANGED <<Rest, requests, sources>>
        /\ \/ Return(c, Done(Fail(r), "error"))
           \/ r.op # "dir_uri" /\ Goto(c, Freed(r, DiscType(At(c).above)))
    BY <1>5 DEF DetectParent, Freed, Rest, r
  <2>2. /\ At(c).kind = "directory" /\ r.op \in Directories /\ r.errors = 0
        /\ c \notin lost => DiscType(At(c).types) = "data"
    BY <1>1, <2>1 DEF KnowsWith, Knows, WaitsFor, Waits
  <2>3. ~Mounter(c)  BY <2>2 DEF Mounter, Mounts
  <2>4. CASE Return(c, Done(Fail(r), "error"))
    <3> DEFINE f == Done(Fail(r), "error")
    <3>1. Fail(r) \in Call  BY <1>1, DoneFields
    <3>2. /\ f \in Call /\ f.pc = "done" /\ f.op = r.op /\ f.place = r.place
          /\ f.errors = 1 /\ f.type = "error"
      BY <1>1, <2>2, <3>1, DoneFields
    <3> HIDE DEF f
    <3>3. KnowsWith(c, f)  BY <1>1, <2>1, <3>2, ClaimsNothing DEF KnowsWith
    <3> QED  BY <1>1, <1>2, <2>1, <2>3, <2>4, <3>2, <3>3, ComesBack DEF f
  <2>5. CASE Goto(c, Freed(r, DiscType(At(c).above)))
    <3> DEFINE type == DiscType(At(c).above)
    <3>1. type \in {"vcd", "dvd", "data"}  BY DiscTypes
    <3>2. c \notin lost => type = Reference(At(c), call[c].op)
      BY <1>2, <2>2 DEF Reference, Directories
    <3>3. type # "error"  BY <3>1
    <3>4. r.pc \in {"detect", "parent"}  BY <2>1
    <3>5. Goto(c, Freed(r, type))  BY <2>5
    <3> HIDE DEF type
    <3> QED  BY <1>1, <1>2, <2>1, <2>2, <3>1, <3>2, <3>3, <3>4, <3>5, Decides DEF r
  <2> QED  BY <2>1, <2>4, <2>5
<1> QED  BY <1>3, <1>4, <1>5

(* A call that returns what it has decided.                                *)
LEMMA FreeKeeps ==
  ASSUME TypeOK, Frame, KInv, NEW c \in Calls, CdCacheFree(c) \/ Unmounted(c)
  PROVE  KInv'
<1> DEFINE r == call[c]
           f == Done(r, r.type)
<1>1. /\ r \in Call /\ At(c) \in Disc /\ KnowsWith(c, r) /\ MayRun(c)
      /\ Mounter(c) => IsMounted(c)
  BY OwnNow DEF CdCacheFree, Unmounted
<1>2. r.place = call[c].place /\ r.type \in {"none", "error", "data", "vcd", "dvd", "cdda",
                                             "medium", "no_medium"}
  BY <1>1, CallSet
<1>3. Mounter(c) <=> Mounts(r, At(c), Succeeded(c), c \in requests)  BY DEF Mounter
<1> HIDE DEF r
<1>4. /\ f \in Call /\ f.pc = "done" /\ f.op = r.op /\ f.place = r.place
      /\ f.errors = r.errors /\ f.type = r.type
  BY <1>1, <1>2, DoneFields
<1>5. CASE CdCacheFree(c)
  <2>1. /\ r.pc = "free" /\ UNCHANGED <<Rest, sources>>
        /\ IF r.cache.is_iso /\ r.cache.self_mounted /\ IsMounted(c)
             THEN AskFor(c, "unmount", r)
             ELSE Return(c, f) /\ UNCHANGED requests
    BY <1>5 DEF CdCacheFree, Rest, r
  <2> HIDE DEF f
  <2>2. /\ r.cache.is_iso <=> At(c).kind = "file"
        /\ r.cache.is_media <=> At(c).kind = "device"
    BY <1>1, <2>1 DEF KnowsWith, Knows
  <2>3. CASE AskFor(c, "unmount", r) /\ r.cache.is_iso /\ r.cache.self_mounted
    <3>1. AskedRight(c, "unmount", r)
      <4> SUFFICES ASSUME NEW g \in Call, g.pc = "test", g.goal = "unmount",
                          g.called = FALSE, g.op = r.op, g.cache = r.cache,
                          g.type = r.type, g.errors = r.errors
                   PROVE  /\ KnowsWith(c, g)
                          /\ Mounts(g, At(c), Succeeded(c), TRUE) <=> Mounter(c)
        BY DEF AskedRight
      <4>1. KnowsWith(c, g)
        BY <1>1, <2>1, <2>2, <2>3 DEF KnowsWith, Knows, WaitsFor, Waits
      <4>2. Mounts(g, At(c), Succeeded(c), TRUE) /\ Mounter(c)
        BY <1>3, <2>1, <2>2, <2>3 DEF Mounts, WaitsFor, Waits
      <4> QED  BY <4>1, <4>2
    <3> QED  BY <1>1, <1>2, <2>1, <2>3, <3>1, AsksOn
  <2>4. CASE /\ Return(c, f) /\ UNCHANGED requests
             /\ ~(r.cache.is_iso /\ r.cache.self_mounted /\ IsMounted(c))
    <3>1. ~Mounter(c)
      BY <1>1, <1>3, <2>1, <2>2, <2>4 DEF Mounts, WaitsFor, Waits
    <3>2. KnowsWith(c, f)
      BY <1>1, <1>4, <2>1, <2>2 DEF KnowsWith, Knows, WaitsFor, Waits
    <3> QED  BY <1>1, <1>2, <1>4, <2>1, <2>4, <3>1, <3>2, ComesBack
  <2> QED  BY <2>1, <2>3, <2>4
<1>6. CASE Unmounted(c)
  <2>1. /\ WaitsFor(r, "unmount") /\ r.called /\ Return(c, f)
        /\ UNCHANGED <<Rest, requests, sources>>
    BY <1>6 DEF Unmounted, WaitsFor, Waits, Rest, r
  <2> HIDE DEF f
  <2>2. ~Succeeded(c) /\ c \notin requests  BY <2>1, OwnNow DEF r
  <2>3. ~Mounter(c)
    BY <1>3, <2>1, <2>2 DEF Mounts, WaitsFor, Waits
  <2>4. KnowsWith(c, f)
    BY <1>1, <1>4, <2>1 DEF KnowsWith, Knows, WaitsFor, Waits
  <2> QED  BY <1>1, <1>2, <1>4, <2>1, <2>3, <2>4, ComesBack
<1> QED  BY <1>5, <1>6

-----------------------------------------------------------------------------
(***************************************************************************)
(* The wait, the callbacks, gvfs, and the calls that are made.             *)
(***************************************************************************)
LEMMA WaitKeeps ==
  ASSUME TypeOK, Frame, KInv, NEW c \in Calls, Iterate(c) \/ Own(c) \/ WakeUp(c)
  PROVE  KInv'
<1> DEFINE r == call[c]
<1>1. /\ r \in Call /\ At(c) \in Disc /\ KnowsWith(c, r) /\ MayRun(c) /\ r.pc \in Waits
      /\ UNCHANGED <<Rest, requests, sources>>
  BY OwnNow DEF Iterate, Own, WakeUp, Waits, Rest
<1>2. PICK p \in Waits : Goto(c, [r EXCEPT !.pc = p])
  BY DEF Iterate, Own, WakeUp, Waits
<1>3. r.place = call[c].place
      /\ (Mounter(c) <=> Mounts(r, At(c), Succeeded(c), c \in requests))
  BY DEF Mounter
<1> DEFINE f == [r EXCEPT !.pc = p]
<1> HIDE DEF r
<1>4. /\ f \in Call /\ Like(r, f) /\ f.called = r.called /\ f.result = r.result /\ f.pc = p
  BY <1>1, CallSet DEF Like, Waits
<1>5. Goto(c, f)  BY <1>2
<1> HIDE DEF f
<1>6. KnowsWith(c, f)  BY <1>1, <1>4, KnowsStays DEF KnowsWith
<1>7. Mounts(f, At(c), Succeeded(c), c \in requests) <=> Mounter(c)
  BY <1>3, <1>4, MountsStays
<1>8. f.pc \notin {"idle", "done"} /\ f.place = call[c].place  BY <1>3, <1>4 DEF Waits, Like
<1> QED  BY <1>1, <1>4, <1>5, <1>6, <1>7, <1>8, GoesOn

(* A callback tells its call what it could have known from the source.     *)
LEMMA CallbacksKeep ==
  ASSUME TypeOK, Frame, KInv, NEW q \in [Calls -> Call], call' = RunCallbacks(q),
         sources' = {}, UNCHANGED <<Rest, requests>>,
         \A d \in Calls : /\ Like(call[d], q[d]) /\ q[d].called = call[d].called
                          /\ q[d].result = call[d].result
  PROVE  Told' /\ Images' /\ \A d \in Calls : call'[d].pc = q[d].pc
<1>1. disc' = disc /\ mounted' = mounted /\ before' = before /\ lost' = lost
      /\ requests' = requests
  BY DEF Rest, fixed
<1>2. ASSUME NEW d \in Calls
      PROVE  /\ Like(call[d], call'[d]) /\ call'[d].pc = q[d].pc
             /\ Mounter(d)' <=> Mounter(d)
  <2> DEFINE r == call[d]
             g == q[d]
  <2>1. /\ g \in Call /\ Like(r, g) /\ g.called = r.called /\ g.result = r.result
        /\ r \in Call
    BY DiscTyped
  <2>2. Mounter(d) <=> Mounts(r, At(d), Succeeded(d), d \in requests)  BY DEF Mounter
  <2>3. Mounter(d)' <=> Mounts(call'[d], disc[call'[d].place], FALSE, d \in requests)
    BY <1>1 DEF Mounter, Mounts, Succeeded, At
  <2>4. At(d) = disc[r.place]  BY DEF At
  <2>5. CASE \A s \in sources : s.call # d
    <3>1. call'[d] = g  BY <2>5, CallbacksTyped
    <3>2. ~Succeeded(d)  BY <2>5 DEF Succeeded
    <3> HIDE DEF r, g
    <3>3. Mounts(g, At(d), FALSE, d \in requests) <=> Mounts(r, At(d), FALSE, d \in requests)
      BY <2>1, MountsStays
    <3>4. Mounter(d)' <=> Mounter(d)
      BY <2>1, <2>2, <2>3, <2>4, <3>1, <3>2, <3>3 DEF Like, Mounts
    <3> QED  BY <2>1, <3>1, <3>4 DEF r, g
  <2>6. CASE \E s \in sources : s.call = d
    <3> DEFINE h == [g EXCEPT !.called = TRUE, !.result = Succeeded(d)]
    <3>1. r.pc \in Waits /\ ~r.called /\ d \notin requests
      BY <2>6 DEF Frame, CallbackHasItsFrame, Waiting
    <3>2. call'[d] = h
      <4>1. call'[d] = IF \E s \in sources : s.call = d
                         THEN [q[d] EXCEPT !.called = TRUE,
                                           !.result = [call |-> d, ok |-> TRUE] \in sources]
                         ELSE q[d]
        BY Zenon DEF RunCallbacks
      <4> QED  BY <2>6, <4>1, Zenon DEF Succeeded
    <3>3. Succeeded(d) \in BOOLEAN  BY DEF Succeeded
    <3> HIDE DEF r, g
    <3>4. /\ h.pc = g.pc /\ h.op = g.op /\ h.place = g.place /\ h.cache = g.cache
          /\ h.goal = g.goal /\ h.type = g.type /\ h.errors = g.errors
          /\ h.called /\ h.result = Succeeded(d)
      BY <2>1, <3>3, CallSet
    <3> HIDE DEF h
    <3>5. Like(r, h)  BY <2>1, <3>4 DEF Like
    <3>6. h.pc \in Waits /\ h.place = r.place /\ h.goal = r.goal
      BY <3>1, <3>5 DEF Like
    <3>7. Mounts(h, At(d), FALSE, d \in requests)
            <=> Mounts(r, At(d), Succeeded(d), d \in requests)
      BY <3>1, <3>3, <3>4, <3>6 DEF Mounts, WaitsFor, Waits
    <3>8. Mounter(d)' <=> Mounter(d)
      BY <2>2, <2>3, <2>4, <3>2, <3>6, <3>7
    <3> QED  BY <3>2, <3>4, <3>5, <3>8 DEF r, g
  <2> QED  BY <2>5, <2>6
<1>3. \A d \in Calls : call'[d].place = call[d].place  BY <1>2 DEF Like
<1>4. Images'  BY <1>2, <1>3, SameMounters DEF KInv
<1>5. ASSUME NEW d \in Calls
      PROVE  Knows(call'[d], At(d), IsMounted(d), d \in lost, call[d].place \in before)
  <2>1. Knows(call[d], At(d), IsMounted(d), d \in lost, call[d].place \in before)
    BY DEF KInv, Told
  <2> QED  BY <1>2, <2>1, KnowsStays
<1>6. Told'  BY <1>1, <1>3, <1>5 DEF Told, At, IsMounted
<1> QED  BY <1>2, <1>4, <1>6

LEMMA DispatchKeeps ==
  ASSUME TypeOK, Frame, KInv
  PROVE  /\ \A c \in Calls : Dispatch(c) => KInv'
         /\ LoopDispatches => KInv'
<1>0. call \in [Calls -> Call]  BY DEF TypeOK
<1>1. ASSUME NEW c \in Calls, Dispatch(c) PROVE KInv'
  <2> DEFINE test == [call[c] EXCEPT !.pc = "test"]
             q == [call EXCEPT ![c] = test]
  <2>1. /\ call[c].pc = "poll" /\ MayRun(c) /\ call' = RunCallbacks(q) /\ sources' = {}
        /\ stack' = stack /\ UNCHANGED <<Rest, requests>>
    BY <1>0, <1>1 DEF Dispatch, Polls, Rest
  <2>2. /\ test \in Call /\ test.pc = "test" /\ Like(call[c], test)
        /\ test.called = call[c].called /\ test.result = call[c].result
    BY <1>0, <2>1, CallSet DEF Like, Waits
  <2> HIDE DEF test
  <2>3. /\ q \in [Calls -> Call] /\ q[c] = test /\ \A d \in Calls \ {c} : q[d] = call[d]
    BY <1>0, <2>2
  <2> HIDE DEF q
  <2>4. \A d \in Calls : /\ Like(call[d], q[d]) /\ q[d].called = call[d].called
                         /\ q[d].result = call[d].result
    BY <2>2, <2>3 DEF Like
  <2>5. Told' /\ Images' /\ \A d \in Calls : call'[d].pc = q[d].pc
    BY <2>1, <2>3, <2>4, CallbacksKeep
  <2>6. \A i \in 1 .. Len(stack) : call'[stack[i]].pc \notin {"idle", "done"}
    <3> SUFFICES ASSUME NEW i \in 1 .. Len(stack)
                 PROVE  call'[stack[i]].pc \notin {"idle", "done"}
      OBVIOUS
    <3>1. stack[i] \in Calls /\ call[stack[i]].pc \notin {"idle", "done"}
      BY StackTyped DEF KInv, Nested, Running
    <3> QED  BY <2>2, <2>3, <2>5, <3>1
  <2>7. \A i \in 1 .. Len(stack) - 1 : call'[stack[i]].pc = "poll"
    <3> SUFFICES ASSUME NEW i \in 1 .. Len(stack) - 1
                 PROVE  call'[stack[i]].pc = "poll"
      OBVIOUS
    <3>1. i \in 1 .. Len(stack) /\ i # Len(stack)  BY StackTyped
    <3>2. stack[i] \in Calls \ {c} /\ call[stack[i]].pc = "poll"
      BY <2>1, <3>1, StackTyped, OnTop DEF KInv, Nested
    <3> QED  BY <2>3, <2>5, <3>2
  <2>8. Nested'  BY <2>1, <2>6, <2>7 DEF KInv, Nested, Running
  <2> QED  BY <2>5, <2>8 DEF KInv
<1>2. ASSUME LoopDispatches PROVE KInv'
  <2>1. /\ call' = RunCallbacks(call) /\ sources' = {} /\ stack = <<>> /\ stack' = stack
        /\ UNCHANGED <<Rest, requests>>
    BY <1>2 DEF LoopDispatches, Rest
  <2>2. Told' /\ Images'  BY <1>0, <2>1, CallbacksKeep DEF Like
  <2>3. Nested'  BY <2>1 DEF Nested
  <2> QED  BY <2>2, <2>3 DEF KInv
<1> QED  BY <1>1, <1>2

LEMMA MountKeeps ==
  ASSUME TypeOK, Frame, KInv, NEW c \in Calls, CompleteMount(c)
  PROVE  KInv'
<1> DEFINE p == call[c].place
<1>1. PICK ok \in BOOLEAN :
        /\ ok => ~IsMounted(c)
        /\ Complete(c, ok)
        /\ mounted' = IF ok THEN mounted \cup {p} ELSE mounted
  BY DEF CompleteMount
<1>2. /\ disc' = disc /\ before' = before /\ lost' = lost /\ kept' = kept /\ call' = call
      /\ stack' = stack /\ requests' = requests \ {c}
      /\ sources' = sources \cup {[call |-> c, ok |-> ok]}
  BY <1>1 DEF CompleteMount, Complete, fixed
<1>3. /\ call[c] \in Call /\ p \in Places /\ KnowsWith(c, call[c])
      /\ call[c].pc \in Waits /\ ~call[c].called /\ ~Succeeded(c)
      /\ call[c].goal \in {"mount_iso", "mount_volume"}
  BY <1>1, OwnNow, CallSet
     DEF CompleteMount, Complete, Frame, CallbackHasItsFrame, Waiting, Succeeded
<1>4. ~Mounter(c)
  BY <1>3 DEF Mounter, Mounts, WaitsFor, Waits
<1>5. Mounter(c)' <=> ok /\ disc[p].kind = "file"
  <2>1. Succeeded(c)' <=> ok  BY <1>2, <1>3 DEF Succeeded
  <2>2. c \notin requests'  BY <1>2
  <2>3. disc[p].kind = "file" => WaitsFor(call[c], "mount_iso")
    BY <1>3 DEF KnowsWith, Knows, WaitsFor, At
  <2>4. Mounter(c)' <=> Mounts(call[c], disc[p], Succeeded(c)', FALSE)
    BY <1>2, <2>2 DEF Mounter, At, Mounts
  <2>5. Mounts(call[c], disc[p], ok, FALSE) <=> ok /\ disc[p].kind = "file"
    BY <1>3, <2>3 DEF Mounts, WaitsFor, Waits
  <2> QED  BY <2>1, <2>4, <2>5 DEF Mounts
<1>6. ASSUME NEW d \in Calls, d # c PROVE Mounter(d)' <=> Mounter(d)
  <2>1. (Succeeded(d)' <=> Succeeded(d)) /\ (d \in requests' <=> d \in requests)
    BY <1>2, <1>6 DEF Succeeded
  <2> QED  BY <1>2, <2>1 DEF Mounter, Mounts, At
<1>7. IsMounted(c) <=> p \in mounted  BY DEF IsMounted
<1> HIDE DEF p
<1>8. mounted \subseteq mounted' /\ (ok => p \notin mounted /\ p \in mounted')
      /\ \A o \in mounted' : o \in mounted \/ (ok /\ o = p)
  BY <1>1, <1>7
<1>9. Images'
  <2>1. before \subseteq mounted'  BY <1>8 DEF KInv, Images
  <2>2. \A d \in Calls : Mounter(d)' => call[d].place \in mounted' \ before
    <3>1. \A d \in Calls : Mounter(d) => call[d].place \in mounted' \ before
      BY <1>8 DEF KInv, Images
    <3>2. Mounter(c)' => call[c].place \in mounted' \ before
      BY <1>5, <1>8 DEF KInv, Images, p
    <3> QED  BY <1>6, <3>1, <3>2
  <2>3. \A d, e \in Calls : Mounter(d)' /\ Mounter(e)' /\ call[d].place = call[e].place
                            => d = e
    <3>1. \A d \in Calls : d # c /\ Mounter(d)' /\ Mounter(c)' => call[d].place # call[c].place
      <4> SUFFICES ASSUME NEW d \in Calls, d # c, Mounter(d)', Mounter(c)'
                   PROVE  call[d].place # call[c].place
        OBVIOUS
      <4>1. call[d].place \in mounted  BY <1>6 DEF KInv, Images
      <4> QED  BY <1>5, <1>8, <4>1 DEF p
    <3>2. \A d, e \in Calls : Mounter(d) /\ Mounter(e) /\ call[d].place = call[e].place
                              => d = e
      BY DEF KInv, Images
    <3> QED  BY <1>6, <3>1, <3>2
  <2>4. \A o \in mounted' \ (before \cup kept) :
          disc[o].kind = "file" => \E d \in Calls : Mounter(d)' /\ call[d].place = o
    <3> SUFFICES ASSUME NEW o \in mounted' \ (before \cup kept), disc[o].kind = "file"
                 PROVE  \E d \in Calls : Mounter(d)' /\ call[d].place = o
      OBVIOUS
    <3>1. CASE o \in mounted
      <4>1. PICK d \in Calls : Mounter(d) /\ call[d].place = o
        BY <3>1 DEF KInv, Images
      <4> QED  BY <1>4, <1>6, <4>1
    <3>2. CASE ok /\ o = p
      <4>1. Mounter(c)' /\ call[c].place = o  BY <1>5, <3>2 DEF p
      <4> QED  BY <4>1
    <3> QED  BY <1>8, <3>1, <3>2
  <2> QED  BY <1>2, <2>1, <2>2, <2>3, <2>4 DEF Images
<1>10. Told'
  <2>1. ASSUME NEW d \in Calls
        PROVE  Knows(call[d], At(d), call[d].place \in mounted', d \in lost,
                     call[d].place \in before)
    <3>1. Knows(call[d], At(d), IsMounted(d), d \in lost, call[d].place \in before)
      BY DEF KInv, Told
    <3>2. IsMounted(d) => call[d].place \in mounted'  BY <1>8 DEF IsMounted
    <3>3. Like(call[d], call[d])  BY DEF Like
    <3> DEFINE on   == IsMounted(d)
               on2  == call[d].place \in mounted'
               gone == d \in lost
               old  == call[d].place \in before
    <3>4. Knows(call[d], At(d), on, gone, old) /\ (on => on2)  BY <3>1, <3>2
    <3> HIDE DEF on, on2, gone, old
    <3>5. Knows(call[d], At(d), on2, gone, old)  BY <3>3, <3>4, KnowsStays
    <3> QED  BY <3>5 DEF on2, gone, old
  <2> QED  BY <1>2, <2>1 DEF Told, At, IsMounted
<1>11. Nested'  BY <1>2 DEF KInv, Nested, Running
<1> QED  BY <1>9, <1>10, <1>11 DEF KInv

LEMMA UnmountKeeps ==
  ASSUME TypeOK, Frame, KInv, NEW c \in Calls, CompleteUnmount(c)
  PROVE  KInv'
<1> DEFINE p == call[c].place
<1>1. PICK ok \in BOOLEAN :
        /\ Complete(c, ok)
        /\ mounted' = IF ok THEN mounted \ {p} ELSE mounted
        /\ kept' = IF ok THEN kept ELSE kept \cup {p}
        /\ lost' = IF ok THEN lost \cup {d \in Calls \ {c} : Running(d) /\ call[d].place = p}
                   ELSE lost
  BY DEF CompleteUnmount
<1>2. /\ disc' = disc /\ before' = before /\ call' = call
      /\ stack' = stack /\ requests' = requests \ {c}
      /\ sources' = sources \cup {[call |-> c, ok |-> ok]}
  BY <1>1 DEF CompleteUnmount, Complete, fixed
<1>3. /\ call[c] \in Call /\ KnowsWith(c, call[c]) /\ c \in requests
      /\ WaitsFor(call[c], "unmount") /\ ~call[c].called /\ ~Succeeded(c)
  BY <1>1, OwnNow
     DEF CompleteUnmount, Complete, Frame, CallbackHasItsFrame, Waiting, Succeeded, WaitsFor
<1>4. Mounter(c)
  <2>1. At(c).kind = "file"  BY <1>3 DEF KnowsWith, Knows, WaitsFor
  <2> QED  BY <1>3, <2>1 DEF Mounter, Mounts
<1>5. ~Mounter(c)'
  <2>1. c \notin requests'  BY <1>2
  <2> QED  BY <1>2, <1>3, <2>1 DEF Mounter, Mounts, WaitsFor, Waits
<1>6. ASSUME NEW d \in Calls, d # c PROVE Mounter(d)' <=> Mounter(d)
  <2>1. (Succeeded(d)' <=> Succeeded(d)) /\ (d \in requests' <=> d \in requests)
    BY <1>2, <1>6 DEF Succeeded
  <2> QED  BY <1>2, <2>1 DEF Mounter, Mounts, At
<1>7. p \in mounted /\ p \notin before  BY <1>4 DEF KInv, Images
<1>8. \A d \in Calls : Mounter(d) /\ call[d].place = p => d = c
  BY <1>4 DEF KInv, Images
<1>9. /\ mounted \ {p} \subseteq mounted' /\ mounted' \subseteq mounted
      /\ lost \subseteq lost' /\ kept \subseteq kept'
      /\ \A o \in mounted' \ kept' : o # p
  BY <1>1
<1>10. \A d \in Calls : d # c /\ Running(d) /\ call[d].place \in mounted
                        => call[d].place \in mounted' \/ d \in lost'
  BY <1>1
<1> HIDE DEF p
<1>11. Images'
  <2>1. before \subseteq mounted'  BY <1>7, <1>9 DEF KInv, Images
  <2>2. \A d \in Calls : Mounter(d)' => Mounter(d) /\ d # c  BY <1>5, <1>6
  <2>3. \A d \in Calls : Mounter(d)' => call[d].place \in mounted' \ before
    <3>1. \A d \in Calls : Mounter(d) => call[d].place \in mounted \ before
      BY DEF KInv, Images
    <3> QED  BY <1>8, <1>9, <2>2, <3>1
  <2>4. \A d, e \in Calls : Mounter(d)' /\ Mounter(e)' /\ call[d].place = call[e].place
                            => d = e
    BY <2>2 DEF KInv, Images
  <2>5. \A o \in mounted' \ (before \cup kept') :
          disc[o].kind = "file" => \E d \in Calls : Mounter(d)' /\ call[d].place = o
    <3> SUFFICES ASSUME NEW o \in mounted' \ (before \cup kept'), disc[o].kind = "file"
                 PROVE  \E d \in Calls : Mounter(d)' /\ call[d].place = o
      OBVIOUS
    <3>1. o \in mounted \ (before \cup kept) /\ o # p  BY <1>9
    <3>2. PICK d \in Calls : Mounter(d) /\ call[d].place = o
      BY <3>1 DEF KInv, Images
    <3>3. d # c  BY <3>1, <3>2 DEF p
    <3> QED  BY <1>6, <3>2, <3>3
  <2> QED  BY <1>2, <2>1, <2>3, <2>4, <2>5 DEF Images
<1>12. Told'
  <2>1. ASSUME NEW d \in Calls
        PROVE  Knows(call[d], At(d), call[d].place \in mounted', d \in lost',
                     call[d].place \in before)
    <3>1. Knows(call[d], At(d), IsMounted(d), d \in lost, call[d].place \in before)
      BY DEF KInv, Told
    <3>2. d \in lost => d \in lost'  BY <1>9
    <3>3. ASSUME call[d].pc = "guess", IsMounted(d) \/ d \in lost
          PROVE  call[d].place \in mounted' \/ d \in lost'
      <4>1. d # c  BY <1>3, <3>3 DEF WaitsFor, Waits
      <4>2. Running(d)  BY <3>3 DEF Running
      <4> QED  BY <1>10, <3>2, <3>3, <4>1, <4>2 DEF IsMounted
    <3>4. Like(call[d], call[d])  BY DEF Like
    <3> DEFINE on    == IsMounted(d)
               on2   == call[d].place \in mounted'
               gone  == d \in lost
               gone2 == d \in lost'
               old   == call[d].place \in before
    <3>5. /\ Knows(call[d], At(d), on, gone, old) /\ (gone => gone2)
          /\ call[d].pc = "guess" /\ (on \/ gone) => on2 \/ gone2
      BY <3>1, <3>2, <3>3
    <3> HIDE DEF on, on2, gone, gone2, old
    <3>6. Knows(call[d], At(d), on2, gone2, old)  BY <3>4, <3>5, KnowsStays
    <3> QED  BY <3>6 DEF on2, gone2, old
  <2> QED  BY <1>2, <2>1 DEF Told, At, IsMounted
<1>13. Nested'  BY <1>2 DEF KInv, Nested, Running
<1> QED  BY <1>11, <1>12, <1>13 DEF KInv

LEMMA StartKeeps ==
  ASSUME TypeOK, Frame, KInv, NEW c \in Calls, Start(c)
  PROVE  KInv'
<1>1. PICK p \in Places, op \in Uses[c] :
        /\ op \in Directories => disc[p].kind \in {"directory", "remote"}
        /\ call' = [call EXCEPT ![c] = [NotStarted EXCEPT !.pc = "new", !.op = op, !.place = p]]
  BY Zenon DEF Start, Directories
<1> DEFINE f == [NotStarted EXCEPT !.pc = "new", !.op = op, !.place = p]
<1>2. op \in Ops  BY UsesAssumption
<1>3. /\ f \in Call /\ f.pc = "new" /\ f.op = op /\ f.place = p /\ f.errors = 0
  <2>1. NotStarted \in Call /\ NotStarted.errors = 0  BY CachesTyped DEF NotStarted
  <2> QED  BY <1>2, <2>1, CallSet
<1>4. call' = [call EXCEPT ![c] = f]  BY <1>1
<1> HIDE DEF f
<1>5. call'[c] = f /\ \A d \in Calls \ {c} : call'[d] = call[d]
  BY <1>4 DEF TypeOK
<1>6. /\ call[c].pc = "idle" /\ UNCHANGED <<Rest, requests, sources>>
      /\ stack' = IF c \in MainCalls THEN Append(stack, c) ELSE stack
      /\ c \in MainCalls /\ stack # <<>> => call[stack[Len(stack)]].pc = "poll"
  BY DEF Start, Polls, Rest
<1>7. /\ disc' = disc /\ mounted' = mounted /\ before' = before /\ lost' = lost
      /\ requests' = requests /\ sources' = sources
  BY <1>6 DEF Rest, fixed
<1>8. ASSUME NEW d \in Calls
      PROVE  (Mounter(d)' <=> Mounter(d)) /\ (Mounter(d) => call'[d].place = call[d].place)
  <2>1. CASE d = c
    <3>1. ~Mounter(c)  BY <1>6 DEF Mounter, Mounts, WaitsFor, Waits
    <3>2. ~Mounter(c)'  BY <1>3, <1>5 DEF Mounter, Mounts, WaitsFor, Waits
    <3> QED  BY <2>1, <3>1, <3>2
  <2>2. CASE d # c
    <3>1. call'[d] = call[d]  BY <1>5, <2>2
    <3> QED  BY <1>7, <3>1 DEF Mounter, Succeeded, At
  <2> QED  BY <2>1, <2>2
<1>9. UNCHANGED <<Rest>>  BY <1>6
<1>10. Images'  BY <1>8, <1>9, SameMounters DEF KInv
<1>11. Told'
  <2>1. Knows(f, disc[p], p \in mounted, c \in lost, p \in before)
    BY <1>1, <1>3 DEF Knows, WaitsFor, Waits
  <2>2. ASSUME NEW d \in Calls
        PROVE  Knows(call'[d], disc[call'[d].place], call'[d].place \in mounted, d \in lost,
                     call'[d].place \in before)
    <3>1. CASE d = c  BY <1>3, <1>5, <2>1, <3>1
    <3>2. CASE d # c
      <4>1. call'[d] = call[d]  BY <1>5, <3>2
      <4> QED  BY <4>1 DEF KInv, Told, At, IsMounted
    <3> QED  BY <3>1, <3>2
  <2> QED  BY <1>7, <2>2 DEF Told, At, IsMounted
<1>12. \A i \in 1 .. Len(stack) : /\ stack[i] \in Calls /\ stack[i] # c
                                 /\ call[stack[i]].pc \notin {"idle", "done"}
  BY <1>6, StackTyped DEF KInv, Nested, Running
<1>13. \A i \in 1 .. Len(stack) : call'[stack[i]] = call[stack[i]]  BY <1>5, <1>12
<1>14. CASE c \notin MainCalls
  <2>1. stack' = stack  BY <1>6, <1>14
  <2>2. \A i \in 1 .. Len(stack) - 1 : i \in 1 .. Len(stack)  BY StackTyped
  <2>3. Nested'  BY <1>13, <2>1, <2>2 DEF KInv, Nested, Running
  <2> QED  BY <1>10, <1>11, <2>3 DEF KInv
<1>15. CASE c \in MainCalls
  <2> DEFINE n == Len(stack)
             t == Append(stack, c)
  <2>1. /\ n \in Nat /\ Len(t) = n + 1 /\ t[n + 1] = c
        /\ \A i \in 1 .. n : t[i] = stack[i]
    BY <1>15 DEF TypeOK
  <2>2. stack' = t  BY <1>6, <1>15
  <2>3. \A i \in 1 .. n - 1 : call[stack[i]].pc = "poll"  BY DEF KInv, Nested
  <2>4. n > 0 => call[stack[n]].pc = "poll"
    <3>1. n > 0 => stack # <<>>  OBVIOUS
    <3> QED  BY <1>6, <1>15, <3>1
  <2>5. \A i, j \in 1 .. n : stack[i] = stack[j] => i = j  BY DEF KInv, Nested
  <2>6. \A i \in 1 .. n : /\ stack[i] # c
                          /\ call[stack[i]].pc \notin {"idle", "done"}
                          /\ call'[stack[i]] = call[stack[i]]
    BY <1>12, <1>13
  <2> HIDE DEF n, t
  <2>7. \A i \in 1 .. n + 1 : i \in 1 .. n \/ i = n + 1  BY <2>1
  <2>8. \A i \in 1 .. Len(t) : call'[t[i]].pc \notin {"idle", "done"}
    BY <1>3, <1>5, <2>1, <2>6, <2>7
  <2>9. \A i \in 1 .. Len(t) - 1 : call'[t[i]].pc = "poll"
    <3> SUFFICES ASSUME NEW i \in 1 .. n PROVE call'[t[i]].pc = "poll"
      BY <2>1
    <3>1. i \in 1 .. n - 1 \/ (i = n /\ n > 0)  BY <2>1
    <3> QED  BY <2>1, <2>3, <2>4, <2>6, <3>1
  <2>10. \A i, j \in 1 .. Len(t) : t[i] = t[j] => i = j
    BY <2>1, <2>5, <2>6, <2>7
  <2>11. Nested'  BY <2>2, <2>8, <2>9, <2>10 DEF Nested, Running
  <2> QED  BY <1>10, <1>11, <2>11 DEF KInv
<1> QED  BY <1>14, <1>15

LEMMA InitKnows == Init => KInv
<1> SUFFICES ASSUME Init PROVE KInv
  OBVIOUS
<1>1. \A c \in Calls : call[c] = NotStarted  BY DEF Init
<1>2. NotStarted.pc = "idle" /\ NotStarted.errors = 0  BY DEF NotStarted
<1>3. Nested  BY DEF Init, Nested
<1>4. ASSUME NEW d, NEW on, NEW gone, NEW old PROVE Knows(NotStarted, d, on, gone, old)
  BY <1>2 DEF Knows, WaitsFor, Waits
<1>5. Told  BY <1>1, <1>4 DEF Told
<1>6. \A c \in Calls : ~Mounter(c)  BY <1>1, <1>2 DEF Mounter, Mounts, WaitsFor, Waits
<1>7. Images  BY <1>6 DEF Images, Init
<1> QED  BY <1>3, <1>5, <1>7 DEF KInv

LEMMA NextKnows == TypeOK /\ CallbackHasItsFrame /\ KInv /\ [Next]_vars => KInv'
<1>1. SUFFICES ASSUME TypeOK, Frame, KInv, [Next]_vars PROVE KInv'
  BY DEF Frame
<1>2. ASSUME NEW c \in Calls, Step(c) PROVE KInv'
  BY <1>1, <1>2, NewKeeps, IsoKeeps, DetectKeeps, VolumeKeeps, FreeKeeps, WaitKeeps,
     DispatchKeeps
  DEF Step
<1>3. ASSUME NEW c \in Calls, Start(c) \/ WakeUp(c) PROVE KInv'
  BY <1>1, <1>3, StartKeeps, WaitKeeps
<1>4. CASE LoopDispatches  BY <1>1, <1>4, DispatchKeeps
<1>5. CASE Daemon  BY <1>1, <1>5, MountKeeps, UnmountKeeps DEF Daemon
<1>6. CASE UNCHANGED vars
  BY <1>1, <1>6
  DEF vars, KInv, Nested, Told, Images, Mounter, Succeeded, At, IsMounted, Running
<1> QED  BY <1>1, <1>2, <1>3, <1>4, <1>5, <1>6 DEF Next, MainThread, Calls

LEMMA CallsKnow == Spec => [](TypeOK /\ KInv)
<1>1. IInv => TypeOK /\ CallbackHasItsFrame  BY DEF IInv
<1>2. TypeOK /\ CallbackHasItsFrame /\ KInv /\ [Next]_vars => KInv'  BY NextKnows
<1> QED  BY <1>1, <1>2, InitEstablishes, NextKeeps, InitKnows, PTL DEF Spec

(* No image is left mounted by a call that has returned, unless gvfs would *)
(* not unmount it, and none that somebody else mounted is ever taken away, *)
(* however many calls look at it at once (cd_cache_free).                  *)
THEOREM ImagesRestored == Spec => []ImagesGivenBack
<1>1. KInv => ImagesGivenBack
  <2> SUFFICES ASSUME KInv, NEW p \in Places, disc[p].kind = "file"
               PROVE  /\ p \in before => p \in mounted
                      /\ (\A c \in Calls : Running(c) => call[c].place # p)
                           => (p \in mounted => p \in before \cup kept)
    BY DEF ImagesGivenBack
  <2>1. p \in before => p \in mounted  BY DEF KInv, Images
  <2>2. ASSUME p \in mounted, p \notin before \cup kept
        PROVE  \E c \in Calls : Running(c) /\ call[c].place = p
    <3>1. PICK c \in Calls : Mounter(c) /\ call[c].place = p  BY <2>2 DEF KInv, Images
    <3>2. Running(c)  BY <3>1 DEF Mounter, Mounts, WaitsFor, Waits, Running
    <3> QED  BY <3>1, <3>2
  <2> QED  BY <2>1, <2>2
<1> QED  BY <1>1, CallsKnow, PTL

(* A detecting function that tells a type without an error tells the right *)
(* one, but for the cases the property excuses, sets no second error, and  *)
(* is silent about none it should report: for any discs, and whatever      *)
(* other calls do while it waits.                                          *)
THEOREM TypesAreRight == Spec => []DetectsWhatIsThere
<1>1. KInv => DetectsWhatIsThere
  <2> SUFFICES ASSUME KInv, NEW c \in Calls
               PROVE  LET r == call[c]
                          excused == \/ c \in lost
                                     \/ disc[r.place].kind = "device" /\ r.place \notin before
                      IN  /\ r.errors <= 1
                          /\ (r.pc = "done" /\ r.type \in Found) =>
                               /\ r.errors = 0
                               /\ ~excused => r.type = Reference(disc[r.place], r.op)
                          /\ (r.pc = "done" /\ r.errors = 0 /\ r.type = "error") =>
                               disc[r.place].kind \in {"remote", "file"} \/ ~disc[r.place].path
    BY DEF DetectsWhatIsThere, Found
  <2> DEFINE r == call[c]
  <2>1. Knows(r, disc[r.place], r.place \in mounted, c \in lost, r.place \in before)
    BY DEF KInv, Told, At, IsMounted
  <2> HIDE DEF r
  <2>2. r.errors \in {0, 1}  BY <2>1 DEF Knows
  <2>3. r.pc = "done" /\ r.type \in Found => r.errors = 0  BY <2>1 DEF Knows, Found
  <2>4. (r.pc = "done" /\ r.type \in Found /\ c \notin lost
           /\ (disc[r.place].kind = "device" => r.place \in before))
         => r.type = Reference(disc[r.place], r.op)
    BY <2>1 DEF Knows
  <2>5. (r.pc = "done" /\ r.errors = 0 /\ r.type = "error") =>
           disc[r.place].kind \in {"remote", "file"} \/ ~disc[r.place].path
    BY <2>1 DEF Knows
  <2> QED  BY <2>2, <2>3, <2>4, <2>5 DEF r
<1> QED  BY <1>1, CallsKnow, PTL

=============================================================================
