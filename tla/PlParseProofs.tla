---------------------------- MODULE PlParseProofs ----------------------------
(***************************************************************************)
(* Proofs about PlParse, for any library of documents and any options.     *)
(*                                                                         *)
(* First the state: it keeps its type, recurse_level is the depth of the C *)
(* stack plus what was leaked and stays bounded, and the fallback is       *)
(* always restored.  Then what is reported: titles stay with their         *)
(* entries, what the recurse and disable-unsafe properties forbid to look  *)
(* into reports nothing, and the signals bracket.  Last the safety part of *)
(* the refinement of PlParseFlattens, for any limit of the recursion as    *)
(* far as Plain allows: every step of the dispatcher and of the handlers'  *)
(* loops is a step of PlFlatten, or one it does not see.                   *)
(***************************************************************************)
EXTENDS PlParseFlattens, SequenceTheorems, FiniteSetTheorems, WellFoundedInduction, TLAPS

\* What a handler hands back to the dispatcher.
Out == [kind : LoopKind \cup {"none"}, sigs : Seq(Signal), ret : Result]

-----------------------------------------------------------------------------
\* A signal is well formed when the locations it mentions are.
LEMMA SignalTyped ==
  ASSUME NEW uri \in File \cup {TitleText}, NEW f \in File,
         NEW title \in Nat, NEW item \in Nat
  PROVE  /\ Entry(uri, title, f, item) \in Signal
         /\ Started(f) \in Signal
         /\ Ended(uri, f) \in Signal
BY DEF Entry, Started, Ended, Signal

LEMMA DocumentTyped ==
  ASSUME docs \in [File -> Document], NEW f \in File
  PROVE  /\ docs[f].items \in Seq(Item)
         /\ docs[f].heads \in Nat
         /\ \A i \in DOMAIN docs[f].items : docs[f].items[i].to \in File
<1>1. docs[f].items \in Seq(Item) /\ docs[f].heads \in Nat  BY DEF Document
<1>2. \A i \in DOMAIN docs[f].items : docs[f].items[i] \in Item  BY <1>1
<1> QED  BY <1>1, <1>2 DEF Item

\* The signals of a handler that does not recurse are well formed.
LEMMA EntriesTyped ==
  ASSUME docs \in [File -> Document], NEW f \in File
  PROVE  /\ Entries(f) \in Seq(Signal)
         /\ Len(Entries(f)) = Len(docs[f].items)
         /\ Itself(f) \in Seq(Signal)
         /\ <<Started(f)>> \in Seq(Signal)
         /\ \A uri \in File \cup {TitleText} : <<Ended(uri, f)>> \in Seq(Signal)
<1> DEFINE S(i) == Entry(docs[f].items[i].to,
                         IF docs[f].items[i].titled THEN i ELSE 0, f, i)
<1>1. docs[f].items \in Seq(Item)  BY DocumentTyped
<1>2. \A i \in 1 .. Len(docs[f].items) : S(i) \in Signal
  <2> SUFFICES ASSUME NEW i \in 1 .. Len(docs[f].items) PROVE S(i) \in Signal
    OBVIOUS
  <2>1. docs[f].items[i].to \in File  BY <1>1, DocumentTyped
  <2>2. (IF docs[f].items[i].titled THEN i ELSE 0) \in Nat /\ i \in Nat  OBVIOUS
  <2> QED  BY <2>1, <2>2, SignalTyped
<1>3. Entries(f) = [i \in 1 .. Len(docs[f].items) |-> S(i)]  BY DEF Entries
<1>4. Entries(f) \in Seq(Signal) /\ Len(Entries(f)) = Len(docs[f].items)
  <2> HIDE DEF S
  <2>1. Len(docs[f].items) \in Nat  BY <1>1
  <2> QED  BY <1>2, <1>3, <2>1
<1>5. /\ Entry(f, 0, f, 0) \in Signal /\ Started(f) \in Signal
      /\ \A uri \in File \cup {TitleText} : Ended(uri, f) \in Signal
  BY SignalTyped
<1> QED  BY <1>4, <1>5 DEF Itself

LEMMA OutTyped ==
  ASSUME NEW sigs \in Seq(Signal), NEW r \in Result
  PROVE  /\ Emits(sigs, r) \in Out /\ GivesUp(r) \in Out
         /\ \A k \in LoopKind : Loops(k, sigs) \in Out
BY DEF Emits, GivesUp, Loops, Out, Result

\* Concatenations of signals are signals.
LEMMA ConcatTyped ==
  ASSUME NEW s \in Seq(Signal), NEW t \in Seq(Signal)
  PROVE  s \o t \in Seq(Signal)
OBVIOUS

\* The handlers that loop over nested playlists.
LEMMA LoopHandlersTyped ==
  ASSUME docs \in [File -> Document], NEW f \in File, NEW data \in BOOLEAN
  PROVE  /\ AddPls(f) \in Out /\ AddM3u(f) \in Out /\ AddRa(f, data) \in Out
         /\ AddAsx(f, data) \in Out /\ AddDesktop(f) \in Out
         /\ AddDirectory(f) \in Out
<1>0. /\ {"UNHANDLED", "ERROR", "SUCCESS", "IGNORED"} \subseteq Result
      /\ {"m3u", "pls", "ram", "asx", "desktop", "directory"} \subseteq LoopKind
      /\ <<>> \in Seq(Signal)
  BY DEF Result, LoopKind
<1>1. /\ Entries(f) \in Seq(Signal) /\ Itself(f) \in Seq(Signal)
      /\ <<Started(f)>> \in Seq(Signal)
  BY EntriesTyped
<1>2. AddPlsWithContents(f) \in Out
  BY <1>0, <1>1, OutTyped DEF AddPlsWithContents
<1>3. AddPls(f) \in Out  BY <1>0, <1>2, OutTyped DEF AddPls
<1>4. AddM3u(f) \in Out  BY <1>0, <1>2, OutTyped DEF AddM3u
<1>5. AddRam(f) \in Out  BY <1>0, OutTyped DEF AddRam
<1>6. AddRa(f, data) \in Out  BY <1>0, <1>1, <1>5, OutTyped DEF AddRa
<1>7. AddAsx(f, data) \in Out
  <2>1. [i \in 1 .. docs[f].heads |-> Started(f)] \in Seq(Signal)
    <3>1. Started(f) \in Signal /\ docs[f].heads \in Nat
      BY SignalTyped, DocumentTyped
    <3> QED  BY <3>1
  <2> QED  BY <1>0, <1>5, <2>1, OutTyped DEF AddAsx
<1>8. AddDesktop(f) \in Out  BY <1>0, OutTyped DEF AddDesktop
<1>9. AddDirectory(f) \in Out  BY <1>0, <1>1, OutTyped DEF AddDirectory
<1> QED  BY <1>3, <1>4, <1>6, <1>7, <1>8, <1>9

\* The handlers of feeds.
LEMMA FeedHandlersTyped ==
  ASSUME docs \in [File -> Document], NEW f \in File, NEW data \in BOOLEAN
  PROVE  /\ AddRss(f) \in Out /\ AddAtom(f) \in Out /\ AddOpml(f) \in Out
         /\ AddXmlFeed(f, data) \in Out /\ AddFeed(f) \in Out
<1>0. {"UNHANDLED", "ERROR", "SUCCESS"} \subseteq Result /\ <<>> \in Seq(Signal)
  BY DEF Result
<1> DEFINE S == <<Started(f)>>
           E == <<Ended(f, f)>>
<1>1. Entries(f) \in Seq(Signal) /\ S \in Seq(Signal) /\ E \in Seq(Signal)
  BY EntriesTyped
<1> HIDE DEF S, E
<1>2. S \o Entries(f) \in Seq(Signal)  BY <1>1, ConcatTyped
<1>3. (S \o Entries(f)) \o E \in Seq(Signal)  BY <1>1, <1>2, ConcatTyped
<1>4. ((IF docs[f].items = <<>> THEN <<>> ELSE S) \o Entries(f)) \o E \in Seq(Signal)
  BY <1>0, <1>1, ConcatTyped
<1>5. AddRss(f) \in Out  BY <1>0, <1>3, OutTyped DEF AddRss, S, E
<1>6. AddAtom(f) \in Out  BY <1>0, <1>4, OutTyped DEF AddAtom, S, E
<1>7. AddOpml(f) \in Out  BY <1>0, <1>2, OutTyped DEF AddOpml, S
<1>8. AddXmlFeed(f, data) \in Out
  BY <1>0, <1>5, <1>6, <1>7, OutTyped DEF AddXmlFeed
<1>9. AddFeed(f) \in Out  BY <1>0, <1>5, OutTyped DEF AddFeed
<1> QED  BY <1>5, <1>6, <1>7, <1>8, <1>9

\* The handlers that report every entry themselves.
LEMMA EntryHandlersTyped ==
  ASSUME docs \in [File -> Document], NEW f \in File, NEW data \in BOOLEAN
  PROVE  /\ AddAsf(f, data) \in Out /\ AddPla(f) \in Out /\ AddXspf(f) \in Out
         /\ AddSmil(f) \in Out /\ AddGvp(f) \in Out /\ AddQuicktime(f, data) \in Out
         /\ AddIso(f) \in Out /\ AddCue(f) \in Out /\ AddBlock(f) \in Out
<1>0. /\ {"UNHANDLED", "ERROR", "SUCCESS", "IGNORED"} \subseteq Result
      /\ <<>> \in Seq(Signal)
  BY DEF Result
<1>1. /\ Entries(f) \in Seq(Signal) /\ Itself(f) \in Seq(Signal)
      /\ <<Started(f)>> \in Seq(Signal) /\ <<Ended(TitleText, f)>> \in Seq(Signal)
      /\ Len(Entries(f)) = Len(docs[f].items)
  BY EntriesTyped
<1>2. AddAsf(f, data) \in Out
  BY <1>0, <1>1, LoopHandlersTyped, OutTyped DEF AddAsf
<1>3. AddPla(f) \in Out
  <2> DEFINE items == docs[f].items
             bad  == items # <<>> /\ items[Len(items)].how = "bad"
             head == IF docs[f].heads > 0 THEN <<Started(f)>> ELSE <<>>
             body == IF bad THEN SubSeq(Entries(f), 1, Len(items) - 1) ELSE Entries(f)
             tail == IF docs[f].heads > 0 THEN <<Ended(TitleText, f)>> ELSE <<>>
             r    == IF bad THEN "ERROR" ELSE "UNHANDLED"
  <2>1. head \in Seq(Signal) /\ tail \in Seq(Signal)  BY <1>0, <1>1
  <2>2. body \in Seq(Signal)
    <3>1. CASE items # <<>>
      <4>1. items \in Seq(Item)  BY DocumentTyped
      <4>2. Len(items) - 1 \in 0 .. Len(Entries(f))  BY <1>1, <3>1, <4>1
      <4>3. SubSeq(Entries(f), 1, Len(items) - 1) \in Seq(Signal)  BY <1>1, <4>2
      <4> QED  BY <1>1, <4>3
    <3>2. CASE items = <<>>  BY <1>1, <3>2
    <3> QED  BY <3>1, <3>2
  <2>3. r \in Result  BY <1>0
  <2> HIDE DEF head, body, tail, r
  <2>4. (head \o body) \o tail \in Seq(Signal)  BY <2>1, <2>2, ConcatTyped
  <2>5. Emits((head \o body) \o tail, r) \in Out  BY <2>3, <2>4, OutTyped
  <2> QED  BY <1>0, <2>5, OutTyped DEF AddPla, head, body, tail, r
<1>4. AddXspf(f) \in Out /\ AddSmil(f) \in Out /\ AddGvp(f) \in Out
  BY <1>0, <1>1, OutTyped DEF AddXspf, AddSmil, AddGvp
<1>5. AddQuicktime(f, data) \in Out  BY <1>0, <1>1, OutTyped DEF AddQuicktime
<1>6. AddIso(f) \in Out /\ AddCue(f) \in Out /\ AddBlock(f) \in Out
  BY <1>0, <1>1, OutTyped DEF AddIso, AddCue, AddBlock
<1> QED  BY <1>2, <1>3, <1>4, <1>5, <1>6

\* Whatever handler the dispatcher picks.
LEMMA CallTyped ==
  ASSUME docs \in [File -> Document], NEW f \in File, NEW data \in BOOLEAN, NEW h
  PROVE  Call(h, f, data) \in Out
<1>1. GivesUp("UNHANDLED") \in Out
  <2>1. "UNHANDLED" \in Result /\ <<>> \in Seq(Signal)  BY DEF Result
  <2> QED  BY <2>1, OutTyped
<1> QED
  BY <1>1, LoopHandlersTyped, FeedHandlersTyped, EntryHandlersTyped DEF Call

\* Whether the bytes of a document have been read is a Boolean.
LEMMA GuessTyped ==
  ASSUME TypeOK, NEW f \in File
  PROVE  Guess(docs[f]).data \in BOOLEAN /\ DualGuess(docs[f]).data \in BOOLEAN
<1> DEFINE d == docs[f]
<1>1. d.readable \in BOOLEAN /\ opts.force \in BOOLEAN
  BY DEF TypeOK, Document, Option
<1>2. Sniff(d).data \in BOOLEAN /\ DOMAIN Sniff(d) = {"mime", "data"}
  BY <1>1 DEF Sniff
<1>3. \A t : LookAgain(t, d).data \in BOOLEAN  BY <1>2 DEF LookAgain, Sniff
<1>4. FirstGuess(d).data \in BOOLEAN  BY <1>2, <1>3 DEF FirstGuess
<1>5. Guess(d).data \in BOOLEAN  BY <1>3, <1>4 DEF Guess
<1>6. DualGuess(d).data \in BOOLEAN  BY <1>2, <1>5 DEF DualGuess
<1> QED  BY <1>5, <1>6

-----------------------------------------------------------------------------
\* The innermost frame is a frame, and stays one when its loop goes on.
LEMMA TopTyped ==
  ASSUME TypeOK, stack # <<>>
  PROVE  Len(stack) \in Nat \ {0} /\ Top \in Frame
BY DEF TypeOK, Top

LEMMA AdvanceTyped ==
  ASSUME TypeOK, stack # <<>>, NEW p \in Nat, NEW x \in Nat, Advance(p, x)
  PROVE  stack' \in Seq(Frame) /\ stack' # <<>> /\ Len(stack') = Len(stack)
<1>1. Len(stack) \in 1 .. Len(stack) /\ stack[Len(stack)] \in Frame
  BY TopTyped DEF Top, TypeOK
<1>2. [stack[Len(stack)] EXCEPT !.pos = p, !.extinf = x] \in Frame
  BY <1>1 DEF Frame
<1>3. stack' = [stack EXCEPT ![Len(stack)] =
                  [stack[Len(stack)] EXCEPT !.pos = p, !.extinf = x]]
  BY <1>1 DEF Advance, TypeOK, Frame
<1> QED  BY <1>1, <1>2, <1>3 DEF TypeOK

\* The signal about the item the innermost loop is at is well formed.
LEMMA ItemEntryTyped ==
  ASSUME TypeOK, stack # <<>>, Top.pos \in DOMAIN docs[Top.file].items
  PROVE  There.to \in File /\ ItemEntry \in Signal
<1>1. Top \in Frame  BY TopTyped
<1>2. There.to \in File  BY <1>1, DocumentTyped DEF There, TypeOK, Frame
<1>3. TitleOf(Top, There) \in Nat  BY <1>1 DEF TitleOf, Frame
<1>4. Top.file \in File /\ Top.pos \in Nat  BY <1>1 DEF Frame
<1>5. ItemEntry \in Signal  BY <1>2, <1>3, <1>4, SignalTyped DEF ItemEntry
<1> QED  BY <1>2, <1>5

-----------------------------------------------------------------------------
\* parse_internal returns without having called a handler.
LEMMA ReturnTyped ==
  ASSUME TypeOK, NEW r \in Result, Return(r)
  PROVE  TypeOK'
BY DEF TypeOK, Return, inputs

\* A handler has run to the end.
LEMMA EpilogueTyped ==
  ASSUME TypeOK, NEW sigs \in Seq(Signal), NEW r \in Result, NEW m,
         Epilogue(sigs, r, m),
         UNCHANGED <<inputs, callee, stack, level, fallback, leaked>>
  PROVE  TypeOK'
<1>1. Itself(callee) \in Seq(Signal)  BY EntriesTyped DEF TypeOK
<1>2. ret' \in Result  BY DEF Epilogue, Result
<1> DEFINE report == r # "SUCCESS" /\ ~(r # "SUCCESS" /\ m \in IgnoreTypes) /\ fallback
           own    == IF report THEN Itself(callee) ELSE <<>>
<1>3. events' = (events \o sigs) \o own  BY DEF Epilogue
<1>4. events' \in Seq(Signal)
  <2>1. <<>> \in Seq(Signal)  OBVIOUS
  <2>2. own \in Seq(Signal)  BY <1>1, <2>1
  <2> HIDE DEF own
  <2>3. events \o sigs \in Seq(Signal)  BY ConcatTyped DEF TypeOK
  <2> QED  BY <1>3, <2>2, <2>3, ConcatTyped
<1>5. pc' = "return"  BY DEF Epilogue
<1> QED  BY <1>2, <1>4, <1>5 DEF TypeOK, inputs

\* A handler starts to loop.
LEMMA StartLoopTyped ==
  ASSUME TypeOK, NEW out \in Out, StartLoop(out)
  PROVE  TypeOK'
<1> DEFINE frame == [file |-> callee, kind |-> out.kind, pos |-> 1,
                     saved |-> fallback, extinf |-> 0]
<1>1. frame \in Frame  BY DEF StartLoop, Out, Frame, TypeOK
<1>2. stack' = Append(stack, frame)  BY DEF StartLoop
<1> HIDE DEF frame
<1>3. stack' \in Seq(Frame) /\ stack' # <<>>  BY <1>1, <1>2 DEF TypeOK
<1>4. out.sigs \in Seq(Signal)  BY DEF Out
<1>5. events' \in Seq(Signal)  BY <1>4, ConcatTyped DEF StartLoop, TypeOK
<1> QED  BY <1>3, <1>5 DEF TypeOK, StartLoop, inputs

LEMMA HandleTyped ==
  ASSUME TypeOK, NEW h, NEW t, t.data \in BOOLEAN, Handle(h, t)
  PROVE  TypeOK'
<1> DEFINE out == Call(h, callee, t.data)
<1>1. out \in Out  BY CallTyped DEF TypeOK
<1> HIDE DEF out
<1>2. CASE RunToEnd(out, t.mime)
  <2>1. out.sigs \in Seq(Signal) /\ out.ret \in Result  BY <1>1 DEF Out
  <2> QED  BY <1>2, <2>1, EpilogueTyped DEF RunToEnd
<1>3. CASE StartLoop(out)  BY <1>1, <1>3, StartLoopTyped
<1> QED  BY <1>2, <1>3 DEF Handle, out

LEMMA ParseInternalTyped ==
  ASSUME TypeOK, ParseInternal
  PROVE  TypeOK'
<1>0. /\ {"UNHANDLED", "ERROR", "SUCCESS", "IGNORED"} \subseteq Result
      /\ <<>> \in Seq(Signal) /\ callee \in File
  BY DEF Result, TypeOK
<1>1. CASE EnterTooDeep  BY <1>0, <1>1, ReturnTyped DEF EnterTooDeep
<1>2. CASE EnterStream  BY <1>0, <1>2, ReturnTyped DEF EnterStream
<1>3. CASE EnterFeed
  <2>1. AddFeed(callee) \in Out  BY <1>0, FeedHandlersTyped DEF TypeOK
  <2>2. AddFeed(callee).sigs \in Seq(Signal) /\ AddFeed(callee).ret \in Result
    BY <2>1 DEF Out
  <2>3. events' \in Seq(Signal)  BY <1>3, <2>2, ConcatTyped DEF EnterFeed, TypeOK
  <2> QED  BY <1>3, <2>2, <2>3 DEF EnterFeed, TypeOK, inputs
<1>4. CASE EnterNoRecurse  BY <1>0, <1>4, ReturnTyped DEF EnterNoRecurse
<1>5. CASE EnterUntyped  BY <1>0, <1>5, ReturnTyped DEF EnterUntyped
<1>6. CASE EnterEmpty  BY <1>0, <1>6, ReturnTyped DEF EnterEmpty
<1>7. CASE EnterIgnored  BY <1>0, <1>7, ReturnTyped DEF EnterIgnored
<1>8. CASE EnterUnsafe  BY <1>0, <1>8 DEF EnterUnsafe, TypeOK, inputs
<1>9. CASE EnterSpecial
  BY <1>0, <1>9, GuessTyped, HandleTyped DEF EnterSpecial
<1>10. CASE EnterDualRejected
  BY <1>0, <1>10, EpilogueTyped DEF EnterDualRejected
<1>11. CASE EnterDual
  BY <1>0, <1>11, GuessTyped, HandleTyped DEF EnterDual
<1>12. CASE EnterOther  BY <1>0, <1>12, EpilogueTyped DEF EnterOther
<1> QED
  BY <1>1, <1>2, <1>3, <1>4, <1>5, <1>6, <1>7, <1>8, <1>9, <1>10, <1>11, <1>12
  DEF ParseInternal

\* The item a loop is at, or waits at, is one of its playlist's.
LEMMA AtAnItem ==
  ASSUME TypeOK, FramesWait, stack # <<>>, Looping \/ pc = "return"
  PROVE  Top.pos \in DOMAIN docs[Top.file].items
<1>1. Len(stack) \in DOMAIN stack /\ Top \in Frame  BY TopTyped DEF TypeOK
<1>2. Top.pos >= 1 /\ Top.pos \in Nat  BY <1>1 DEF FramesWait, Top, Frame
<1>3. Top.pos <= Len(docs[Top.file].items)
  BY <1>1 DEF FramesWait, Top, Waiting, Looping
<1>4. docs[Top.file].items \in Seq(Item)  BY <1>1, DocumentTyped DEF TypeOK, Frame
<1> QED  BY <1>2, <1>3, <1>4

\* A repeat sends nothing when it ends behind a title without text, and one signal
\* about its own playlist otherwise.
LEMMA RepeatSays ==
  ASSUME TypeOK, FramesWait, stack # <<>>, RepeatItem
  PROVE  \/ There.how = "close" /\ There.titled = FALSE /\ events' = events
         \/ \E s \in Signal :
              /\ events' = Append(events, s) /\ s.list = Top.file /\ s.title = 0
              /\ \/ There.how = "open" /\ s.sig = "started"
                 \/ There.how = "close" /\ There.titled = TRUE /\ s.sig = "ended"
<1>1. /\ Looping /\ There.how \in {"open", "close"}
      /\ events' = events \o RepeatSignals(Top.file, There)
  BY DEF RepeatItem
<1>2. Top \in Frame /\ Top.file \in File /\ events \in Seq(Signal)
  BY TopTyped DEF TypeOK, Frame
<1>3. There.titled \in BOOLEAN
  <2>1. Top.pos \in DOMAIN docs[Top.file].items  BY <1>1, AtAnItem
  <2>2. There \in Item  BY <1>2, <2>1, DocumentTyped DEF There, TypeOK
  <2> QED  BY <2>2 DEF Item
<1> DEFINE S == Started(Top.file)
           E == Ended(Top.file, Top.file)
<1>4. S \in Signal /\ S.list = Top.file /\ S.title = 0 /\ S.sig = "started"
  <2>1. S \in Signal  BY <1>2, SignalTyped
  <2> QED  BY <2>1 DEF Started
<1>5. E \in Signal /\ E.list = Top.file /\ E.title = 0 /\ E.sig = "ended"
  <2>1. E \in Signal  BY <1>2, SignalTyped
  <2> QED  BY <2>1 DEF Ended
<1>6. RepeatSignals(Top.file, There) = IF There.how = "open" THEN <<S>>
                                       ELSE IF There.titled THEN <<E>> ELSE <<>>
  BY DEF RepeatSignals
<1> HIDE DEF S, E
<1>7. /\ events \o <<S>> = Append(events, S) /\ events \o <<E>> = Append(events, E)
      /\ events \o <<>> = events
  BY <1>2, <1>4, <1>5
<1>8. CASE There.how = "open"
  <2>1. events' = Append(events, S)  BY <1>1, <1>6, <1>7, <1>8
  <2> QED  BY <1>4, <1>8, <2>1
<1>9. CASE There.how = "close" /\ There.titled = TRUE
  <2>1. events' = Append(events, E)  BY <1>1, <1>6, <1>7, <1>9
  <2> QED  BY <1>5, <1>9, <2>1
<1>10. CASE There.how = "close" /\ There.titled = FALSE
  <2>1. events' = events  BY <1>1, <1>6, <1>7, <1>10
  <2> QED  BY <1>10, <2>1
<1> QED  BY <1>1, <1>3, <1>8, <1>9, <1>10

LEMMA HandlerStepTyped ==
  ASSUME TypeOK, FramesWait, LevelAccounting, HandlerStep
  PROVE  TypeOK'
<1>1. Looping \/ ItemParsed \/ EndLoop
  BY DEF HandlerStep, ReportItem, SkipItem, StopAtItem, RepeatItem, ParseItem
<1>2. stack # <<>>  BY <1>1 DEF Looping, ItemParsed, EndLoop, TypeOK
<1>3. /\ Len(stack) \in Nat \ {0} /\ Top \in Frame /\ Top.file \in File
      /\ Top.pos \in Nat /\ Top.extinf \in Nat /\ Top.saved \in BOOLEAN
  BY <1>2, TopTyped DEF Frame
<1>4. docs[Top.file].items \in Seq(Item)  BY <1>3, DocumentTyped DEF TypeOK
<1>5. CASE ReportItem
  <2>1. ItemEntry \in Signal  BY <1>2, <1>5, AtAnItem, ItemEntryTyped DEF ReportItem
  <2>2. stack' \in Seq(Frame) /\ stack' # <<>>
    BY <1>2, <1>3, <1>5, AdvanceTyped DEF ReportItem
  <2> QED  BY <1>5, <2>1, <2>2 DEF ReportItem, Looping, TypeOK, inputs
<1>6. CASE SkipItem
  <2> DEFINE x == IF There.how = "extinf" /\ Top.extinf = 0 THEN Top.pos ELSE Top.extinf
  <2>1. x \in Nat /\ Top.pos + 1 \in Nat  BY <1>3
  <2>2. Advance(Top.pos + 1, x)  BY <1>6 DEF SkipItem
  <2> HIDE DEF x
  <2>3. stack' \in Seq(Frame) /\ stack' # <<>>  BY <1>2, <2>1, <2>2, AdvanceTyped
  <2> QED  BY <1>6, <2>3 DEF SkipItem, Looping, TypeOK, inputs
<1>7. CASE StopAtItem
  <2>1. stack' \in Seq(Frame) /\ stack' # <<>>
    BY <1>2, <1>4, <1>7, AdvanceTyped DEF StopAtItem
  <2> QED  BY <1>7, <2>1 DEF StopAtItem, Looping, TypeOK, inputs
<1>8. CASE RepeatItem
  <2>1. stack' \in Seq(Frame) /\ stack' # <<>>
    BY <1>2, <1>3, <1>8, AdvanceTyped DEF RepeatItem
  <2>2. events' \in Seq(Signal)
    <3>1. events' = events \/ \E s \in Signal : events' = Append(events, s)
      BY <1>2, <1>8, RepeatSays
    <3> QED  BY <3>1 DEF TypeOK
  <2> QED  BY <1>8, <2>1, <2>2 DEF RepeatItem, Looping, TypeOK, inputs
<1>9. CASE ParseItem
  <2>1. There.to \in File  BY <1>2, <1>9, AtAnItem, ItemEntryTyped DEF ParseItem
  <2>2. stack' \in Seq(Frame) /\ stack' # <<>>
    <3>1. [Top EXCEPT !.saved = fallback] \in Frame  BY <1>3 DEF Frame, TypeOK
    <3>2. stack' = [stack EXCEPT ![Len(stack)] = [Top EXCEPT !.saved = fallback]]
      BY <1>3, <1>9 DEF ParseItem, Top, TypeOK
    <3> QED  BY <1>3, <3>1, <3>2 DEF TypeOK
  <2>3. fallback' \in BOOLEAN  BY <1>9 DEF ParseItem, TypeOK
  <2> QED  BY <1>9, <2>1, <2>2, <2>3 DEF ParseItem, TypeOK, inputs
<1>10. CASE ItemParsed
  <2>1. ItemEntry \in Signal
    BY <1>2, <1>10, AtAnItem, ItemEntryTyped DEF ItemParsed
  <2>2. stack' \in Seq(Frame) /\ stack' # <<>>
    BY <1>2, <1>3, <1>10, AdvanceTyped DEF ItemParsed
  <2>3. events' \in Seq(Signal)  BY <1>10, <2>1 DEF ItemParsed, TypeOK
  <2>4. fallback' \in BOOLEAN  BY <1>3, <1>10 DEF ItemParsed, TypeOK
  <2> QED  BY <1>10, <2>2, <2>3, <2>4 DEF ItemParsed, TypeOK, inputs
<1>11. CASE EndLoop
  <2>1. EndSignals(Top) \in Seq(Signal)
    <3>1. /\ <<Ended(TitleText, Top.file)>> \in Seq(Signal)
          /\ <<Ended(Top.file, Top.file)>> \in Seq(Signal)
      BY <1>3, EntriesTyped DEF TypeOK
    <3>2. <<>> \in Seq(Signal)  OBVIOUS
    <3> QED  BY <3>1, <3>2 DEF EndSignals
  <2>2. stack' \in Seq(Frame)  BY <1>3, <1>11 DEF EndLoop, TypeOK
  <2>3. events' \in Seq(Signal)  BY <1>11, <2>1, ConcatTyped DEF EndLoop, TypeOK
  <2>4. "SUCCESS" \in Result  BY DEF Result
  <2>5. level' \in Nat  BY <1>3, <1>11 DEF EndLoop, LevelAccounting, TypeOK
  <2> QED  BY <1>11, <2>2, <2>3, <2>4, <2>5 DEF EndLoop, TypeOK, inputs
<1> QED
  BY <1>5, <1>6, <1>7, <1>8, <1>9, <1>10, <1>11 DEF HandlerStep

-----------------------------------------------------------------------------
(***************************************************************************)
(* The frames and the fallback.  A step that keeps the frames apart from   *)
(* what Advance changes keeps what is known of the outer ones.             *)
(***************************************************************************)
\* The outer frames, all waiting before and after, are as they were.
LEMMA OuterFrames ==
  ASSUME TypeOK, FramesWait, UNCHANGED inputs, NEW n \in Nat, n <= Len(stack),
         n <= Len(stack'), \A i \in 1 .. n : Waiting(i) /\ stack'[i] = stack[i]
  PROVE  \A i \in 1 .. n :
           /\ stack'[i].pos >= 1
           /\ stack'[i].pos <= Len(docs'[stack'[i].file].items)
           /\ stack'[i].saved = FallbackAt(i)'
           /\ Silences(i)' = Silences(i)
<1> SUFFICES ASSUME NEW i \in 1 .. n
    PROVE  /\ stack'[i].pos >= 1
           /\ stack'[i].pos <= Len(docs'[stack'[i].file].items)
           /\ stack'[i].saved = FallbackAt(i)'
           /\ Silences(i)' = Silences(i)
  OBVIOUS
<1>1. \A j \in 1 .. n : Silences(j)' = Silences(j)  BY DEF Silences, inputs
<1>2. i \in DOMAIN stack  BY DEF TypeOK
<1>3. FallbackAt(i)' = FallbackAt(i)  BY <1>1 DEF FallbackAt, inputs
<1> QED  BY <1>1, <1>2, <1>3 DEF FramesWait, inputs

\* parse_internal returns without having started a loop.
LEMMA ReturnFrames ==
  ASSUME TypeOK, FramesWait, FallbackDiscipline, pc = "enter", pc' = "return",
         UNCHANGED <<inputs, stack, fallback>>
  PROVE  FramesWait' /\ FallbackDiscipline'
BY DEF FramesWait, FallbackDiscipline, FallbackAt, Waiting, Silences, inputs

\* Popping the innermost frame leaves the others.
LEMMA PopTyped ==
  ASSUME NEW S, NEW s \in Seq(S), s # <<>>
  PROVE  LET t == SubSeq(s, 1, Len(s) - 1)
         IN  /\ t \in Seq(S) /\ Len(t) = Len(s) - 1 /\ DOMAIN t = 1 .. Len(s) - 1
             /\ \A i \in 1 .. Len(s) - 1 : t[i] = s[i]
<1> DEFINE n == Len(s) - 1
           t == SubSeq(s, 1, n)
<1>1. n \in Nat /\ Len(s) \in Nat /\ n < Len(s)  OBVIOUS
<1>2. \A i \in 1 .. n : s[i] \in S  BY <1>1
<1>3. t \in Seq(S) /\ Len(t) = n /\ \A i \in 1 .. n : t[i] = s[1 + i - 1]
  <2> HIDE DEF n
  <2>1. /\ t \in Seq(S) /\ Len(t) = IF 1 <= n THEN n - 1 + 1 ELSE 0
        /\ \A i \in 1 .. n - 1 + 1 : t[i] = s[1 + i - 1]
    BY <1>1, <1>2, SubSeqProperties
  <2>2. n - 1 + 1 = n /\ (n = 0 \/ 1 <= n)  BY <1>1
  <2> QED  BY <2>1, <2>2
<1>4. \A i \in 1 .. n : t[i] = s[i]
  <2> SUFFICES ASSUME NEW i \in 1 .. n PROVE t[i] = s[i]
    OBVIOUS
  <2>1. 1 + i - 1 = i  BY <1>1
  <2> QED  BY <1>3, <2>1
<1>5. DOMAIN t = 1 .. n  BY <1>1, <1>3
<1> QED  BY <1>3, <1>4, <1>5

LEMMA StartLoopFrames ==
  ASSUME TypeOK, FramesWait, FallbackDiscipline, pc = "enter",
         NEW out, StartLoop(out)
  PROVE  FramesWait' /\ FallbackDiscipline'
<1> DEFINE n == Len(stack)
<1>1. n \in Nat /\ Len(stack') = n + 1 /\ DOMAIN stack' = 1 .. n + 1
      /\ stack'[n + 1].pos = 1 /\ \A i \in 1 .. n : stack'[i] = stack[i]
  BY DEF StartLoop, TypeOK
<1>2. UNCHANGED inputs /\ fallback' = fallback /\ pc' = "run"  BY DEF StartLoop
<1>3. \A i \in 1 .. n : Waiting(i)  BY DEF Waiting
<1>4. \A i \in 1 .. n : /\ stack'[i].pos >= 1
                        /\ stack'[i].pos <= Len(docs'[stack'[i].file].items)
                        /\ stack'[i].saved = FallbackAt(i)'
                        /\ Silences(i)' = Silences(i)
  BY <1>1, <1>2, <1>3, OuterFrames
<1>5. \A i \in 1 .. n + 1 : Waiting(i)' <=> i \in 1 .. n
  BY <1>1, <1>2 DEF Waiting
<1>6. FramesWait'  BY <1>1, <1>4, <1>5 DEF FramesWait
<1>7. fallback = (opts.fallback /\ \A i \in 1 .. n : ~Silences(i))
  BY <1>3 DEF FallbackDiscipline, TypeOK
<1>8. FallbackDiscipline'
  BY <1>1, <1>2, <1>4, <1>5, <1>7 DEF FallbackDiscipline, inputs
<1> QED  BY <1>6, <1>8

\* The innermost loop goes on: what it changes of its frame is not looked at
\* while it does not wait.
LEMMA AdvanceFrames ==
  ASSUME TypeOK, FramesWait, stack # <<>>, pc' = "run", UNCHANGED inputs,
         NEW p \in Nat, NEW x \in Nat, p >= 1, Advance(p, x),
         fallback' = (opts.fallback /\ \A j \in 1 .. Len(stack) - 1 : ~Silences(j))
  PROVE  FramesWait' /\ FallbackDiscipline'
<1> DEFINE n == Len(stack)
<1>1. n \in Nat \ {0}  BY TopTyped
<1>2. /\ Len(stack') = n /\ DOMAIN stack' = 1 .. n /\ stack'[n].pos = p
      /\ \A i \in 1 .. n - 1 : stack'[i] = stack[i]
  <2>1. stack[n] \in Frame  BY TopTyped DEF Top
  <2> QED  BY <1>1, <2>1, SMTT(30) DEF Advance, TypeOK, Frame
<1>3. \A i \in 1 .. n - 1 : Waiting(i)  BY DEF Waiting
<1>4. \A i \in 1 .. n - 1 : /\ stack'[i].pos >= 1
                            /\ stack'[i].pos <= Len(docs'[stack'[i].file].items)
                            /\ stack'[i].saved = FallbackAt(i)'
                            /\ Silences(i)' = Silences(i)
  BY <1>1, <1>2, <1>3, OuterFrames
<1>5. \A i \in 1 .. n : Waiting(i)' <=> i \in 1 .. n - 1  BY <1>1, <1>2 DEF Waiting
<1>6. FramesWait'  BY <1>1, <1>2, <1>4, <1>5 DEF FramesWait
<1>7. FallbackDiscipline'
  BY <1>1, <1>2, <1>4, <1>5 DEF FallbackDiscipline, inputs
<1> QED  BY <1>6, <1>7

\* The fallback while the innermost loop does not wait.
LEMMA RunningFallback ==
  ASSUME TypeOK, FallbackDiscipline, pc = "run"
  PROVE  fallback = (opts.fallback /\ \A j \in 1 .. Len(stack) - 1 : ~Silences(j))
<1>1. \A i \in DOMAIN stack : Waiting(i) <=> i \in 1 .. Len(stack) - 1
  BY DEF Waiting, TypeOK
<1> QED  BY <1>1 DEF FallbackDiscipline, TypeOK

LEMMA ParseInternalFrames ==
  ASSUME TypeOK, FramesWait, FallbackDiscipline, ParseInternal
  PROVE  FramesWait' /\ FallbackDiscipline'
<1>1. pc = "enter"
  BY DEF ParseInternal, EnterTooDeep, EnterStream, EnterFeed, EnterNoRecurse,
         EnterUntyped, EnterEmpty, EnterIgnored, EnterUnsafe, EnterSpecial,
         EnterDualRejected, EnterDual, EnterOther, ParsingType, Parsing, Entering
<1>2. CASE pc' = "return" /\ UNCHANGED <<inputs, stack, fallback>>
  BY <1>1, <1>2, ReturnFrames
<1>3. CASE \E out : StartLoop(out)  BY <1>1, <1>3, StartLoopFrames
<1>4. ASSUME NEW h, NEW t, Handle(h, t)
      PROVE  \/ pc' = "return" /\ UNCHANGED <<inputs, stack, fallback>>
             \/ \E out : StartLoop(out)
  BY <1>4 DEF Handle, RunToEnd, Epilogue
<1>5. \/ \E h, t : Handle(h, t)
      \/ pc' = "return" /\ UNCHANGED <<inputs, stack, fallback>>
  <2>1. CASE EnterSpecial  BY <2>1 DEF EnterSpecial
  <2>2. CASE EnterDual  BY <2>2 DEF EnterDual
  <2>3. CASE EnterDualRejected  BY <2>3 DEF EnterDualRejected, Epilogue
  <2>4. CASE EnterOther  BY <2>4 DEF EnterOther, Epilogue
  <2>5. CASE EnterFeed \/ EnterUnsafe  BY <2>5 DEF EnterFeed, EnterUnsafe
  <2>6. CASE EnterTooDeep \/ EnterStream \/ EnterNoRecurse \/ EnterUntyped
               \/ EnterEmpty \/ EnterIgnored
    BY <2>6 DEF EnterTooDeep, EnterStream, EnterNoRecurse, EnterUntyped, EnterEmpty,
                EnterIgnored, Return
  <2> QED  BY <2>1, <2>2, <2>3, <2>4, <2>5, <2>6 DEF ParseInternal
<1> QED  BY <1>2, <1>3, <1>4, <1>5

LEMMA HandlerStepFrames ==
  ASSUME TypeOK, FramesWait, FallbackDiscipline, HandlerStep
  PROVE  FramesWait' /\ FallbackDiscipline'
<1> DEFINE n == Len(stack)
<1>1. Looping \/ ItemParsed \/ EndLoop
  BY DEF HandlerStep, ReportItem, SkipItem, StopAtItem, RepeatItem, ParseItem
<1>2. stack # <<>>  BY <1>1 DEF Looping, ItemParsed, EndLoop, TypeOK
<1>3. /\ n \in Nat \ {0} /\ Top \in Frame /\ Top.file \in File
      /\ Top.pos \in Nat /\ Top.extinf \in Nat
  BY <1>2, TopTyped DEF Frame
<1>4. docs[Top.file].items \in Seq(Item)  BY <1>3, DocumentTyped DEF TypeOK
<1>5. CASE ReportItem \/ SkipItem \/ StopAtItem \/ RepeatItem
  <2>1. pc = "run" /\ pc' = "run" /\ UNCHANGED inputs /\ fallback' = fallback
    BY <1>5 DEF ReportItem, SkipItem, StopAtItem, RepeatItem, Looping
  <2>2. fallback' = (opts.fallback /\ \A j \in 1 .. n - 1 : ~Silences(j))
    BY <2>1, RunningFallback
  <2>3. \E p, x \in Nat : p >= 1 /\ Advance(p, x)
    <3>1. CASE ReportItem \/ RepeatItem
      BY <1>3, <3>1 DEF ReportItem, RepeatItem
    <3>2. CASE StopAtItem  BY <1>4, <3>2 DEF StopAtItem
    <3>3. CASE SkipItem
      <4> DEFINE x == IF There.how = "extinf" /\ Top.extinf = 0
                      THEN Top.pos ELSE Top.extinf
      <4>1. x \in Nat /\ Top.pos + 1 \in Nat /\ Top.pos + 1 >= 1  BY <1>3
      <4>2. Advance(Top.pos + 1, x)  BY <3>3 DEF SkipItem
      <4> HIDE DEF x
      <4> QED  BY <4>1, <4>2
    <3> QED  BY <1>5, <3>1, <3>2, <3>3
  <2> QED  BY <1>2, <2>1, <2>2, <2>3, AdvanceFrames
<1>6. CASE ItemParsed
  <2>1. Waiting(n) /\ n \in DOMAIN stack /\ \A i \in 1 .. n : Waiting(i)
    BY <1>3, <1>6 DEF ItemParsed, Waiting, TypeOK
  <2>2. Top.saved = FallbackAt(n)  BY <2>1 DEF FramesWait, Top
  <2>3. fallback = (opts.fallback /\ \A i \in 1 .. n : ~Silences(i))
    BY <2>1 DEF FallbackDiscipline, TypeOK
  <2>4. Top.kind # "pls" => ~Silences(n)  BY DEF Silences, Top
  <2>5. fallback' = (opts.fallback /\ \A j \in 1 .. n - 1 : ~Silences(j))
    <3>1. CASE Top.kind = "pls"
      BY <1>6, <2>2, <3>1 DEF ItemParsed, FallbackAt
    <3>2. CASE Top.kind # "pls"
      <4>1. (\A i \in 1 .. n : ~Silences(i)) <=> (\A j \in 1 .. n - 1 : ~Silences(j))
        BY <1>3, <2>4, <3>2
      <4> QED  BY <1>6, <2>3, <3>2, <4>1 DEF ItemParsed
    <3> QED  BY <3>1, <3>2
  <2>6. pc' = "run" /\ UNCHANGED inputs /\ Advance(Top.pos + 1, 0)
    BY <1>6 DEF ItemParsed
  <2>7. Top.pos + 1 \in Nat /\ Top.pos + 1 >= 1 /\ 0 \in Nat  BY <1>3
  <2> QED  BY <1>2, <2>5, <2>6, <2>7, AdvanceFrames
<1>7. CASE ParseItem
  <2>1. pc = "run" /\ pc' = "enter" /\ UNCHANGED inputs
    BY <1>7 DEF ParseItem, Looping
  <2>2. /\ Len(stack') = n /\ DOMAIN stack' = 1 .. n
        /\ stack'[n].pos = Top.pos /\ stack'[n].saved = fallback
        /\ stack'[n].file = Top.file /\ stack'[n].kind = Top.kind
        /\ \A i \in 1 .. n - 1 : stack'[i] = stack[i]
    <3>1. stack[n] = Top /\ stack \in Seq(Frame)  BY DEF Top, TypeOK
    <3> QED  BY <1>3, <1>7, <3>1 DEF ParseItem, Frame
  <2>3. \A i \in 1 .. n - 1 : Waiting(i)  BY DEF Waiting
  <2>4. \A i \in 1 .. n - 1 : /\ stack'[i].pos >= 1
                              /\ stack'[i].pos <= Len(docs'[stack'[i].file].items)
                              /\ stack'[i].saved = FallbackAt(i)'
                              /\ Silences(i)' = Silences(i)
    BY <1>3, <2>1, <2>2, <2>3, OuterFrames
  <2>5. fallback = (opts.fallback /\ \A j \in 1 .. n - 1 : ~Silences(j))
    BY <2>1, RunningFallback
  <2>6. FallbackAt(n)' = fallback
    BY <2>1, <2>2, <2>4, <2>5 DEF FallbackAt, inputs
  <2>7. Top.pos >= 1 /\ Top.pos <= Len(docs[Top.file].items)
    <3>1. Top.pos \in DOMAIN docs[Top.file].items
      BY <1>2, <1>7, AtAnItem DEF ParseItem
    <3> QED  BY <1>4, <3>1
  <2>8. FramesWait'
    <3> SUFFICES ASSUME NEW i \in 1 .. n
        PROVE  /\ stack'[i].pos >= 1
               /\ stack'[i].pos <= Len(docs'[stack'[i].file].items)
               /\ stack'[i].saved = FallbackAt(i)'
      BY <2>2 DEF FramesWait
    <3>1. CASE i \in 1 .. n - 1  BY <2>4, <3>1
    <3>2. CASE i = n
      BY <2>1, <2>2, <2>6, <2>7, <3>2 DEF inputs
    <3> QED  BY <1>3, <3>1, <3>2
  <2>9. FallbackDiscipline'
    <3>1. \A i \in 1 .. n : Waiting(i)'  BY <2>1 DEF Waiting
    <3>2. Silences(n)' <=> (Top.kind = "pls" /\ opts.recurse)
      BY <2>1, <2>2 DEF Silences, inputs
    <3>3. fallback' = (fallback /\ ~(Top.kind = "pls" /\ opts.recurse))
      BY <1>7 DEF ParseItem
    <3>4. (\A i \in 1 .. n : ~Silences(i)')
            <=> (\A j \in 1 .. n - 1 : ~Silences(j)) /\ ~Silences(n)'
      BY <1>3, <2>2, <2>4
    <3>5. fallback' = (opts.fallback /\ \A i \in 1 .. n : ~Silences(i)')
      BY <2>5, <3>2, <3>3, <3>4
    <3> QED  BY <2>1, <2>2, <3>1, <3>5 DEF FallbackDiscipline, inputs
  <2> QED  BY <2>8, <2>9
<1>8. CASE EndLoop
  <2>1. pc = "run" /\ pc' = "return" /\ UNCHANGED inputs /\ fallback' = fallback
    BY <1>8 DEF EndLoop
  <2>2. /\ Len(stack') = n - 1 /\ DOMAIN stack' = 1 .. n - 1
        /\ \A i \in 1 .. n - 1 : stack'[i] = stack[i]
    BY <1>2, <1>8, PopTyped DEF EndLoop, TypeOK
  <2>3. \A i \in 1 .. n - 1 : Waiting(i)  BY DEF Waiting
  <2>4. \A i \in 1 .. n - 1 : /\ stack'[i].pos >= 1
                              /\ stack'[i].pos <= Len(docs'[stack'[i].file].items)
                              /\ stack'[i].saved = FallbackAt(i)'
                              /\ Silences(i)' = Silences(i)
    BY <1>3, <2>1, <2>2, <2>3, OuterFrames
  <2>5. fallback = (opts.fallback /\ \A j \in 1 .. n - 1 : ~Silences(j))
    BY <2>1, RunningFallback
  <2>6. \A i \in 1 .. n - 1 : Waiting(i)'  BY <2>1 DEF Waiting
  <2>7. FramesWait'  BY <2>2, <2>4 DEF FramesWait
  <2>8. FallbackDiscipline'
    BY <2>1, <2>2, <2>4, <2>5, <2>6 DEF FallbackDiscipline, inputs
  <2> QED  BY <2>7, <2>8
<1> QED  BY <1>5, <1>6, <1>7, <1>8 DEF HandlerStep

-----------------------------------------------------------------------------
\* recurse_level: the increment and the decrement of parse_internal pair up
\* with the frames, and a leak is only possible below the limit.
LEMMA ParseInternalLevel ==
  ASSUME TypeOK, LevelAccounting, ParseInternal
  PROVE  LevelAccounting'
<1>1. ASSUME UNCHANGED <<stack, level, leaked>>  PROVE LevelAccounting'
  BY <1>1 DEF LevelAccounting
<1>2. ASSUME NEW out, StartLoop(out), level <= RecurseLevelMax
      PROVE  LevelAccounting'
  BY <1>2, LevelAssumption DEF StartLoop, LevelAccounting, TypeOK
<1>3. ASSUME NEW h, NEW t, Handle(h, t), level <= RecurseLevelMax
      PROVE  LevelAccounting'
  BY <1>1, <1>2, <1>3 DEF Handle, RunToEnd
<1>4. CASE EnterTooDeep \/ EnterStream \/ EnterNoRecurse \/ EnterUntyped
             \/ EnterEmpty \/ EnterIgnored
  BY <1>1, <1>4 DEF EnterTooDeep, EnterStream, EnterNoRecurse, EnterUntyped,
                    EnterEmpty, EnterIgnored, Return
<1>5. CASE EnterFeed \/ EnterDualRejected \/ EnterOther
  BY <1>1, <1>5 DEF EnterFeed, EnterDualRejected, EnterOther
<1>6. CASE EnterUnsafe
  BY <1>6, LevelAssumption
  DEF EnterUnsafe, ParsingType, Parsing, Entering, LevelAccounting, TypeOK
<1>7. CASE EnterSpecial \/ EnterDual
  BY <1>3, <1>7 DEF EnterSpecial, EnterDual, ParsingType, Parsing, Entering
<1> QED  BY <1>4, <1>5, <1>6, <1>7 DEF ParseInternal

LEMMA HandlerStepLevel ==
  ASSUME TypeOK, LevelAccounting, HandlerStep
  PROVE  LevelAccounting'
<1>1. CASE EndLoop
  <2>1. stack # <<>>  BY <1>1 DEF EndLoop, TypeOK
  <2>2. Len(stack) \in Nat \ {0} /\ Len(stack') = Len(stack) - 1
    BY <1>1, <2>1, TopTyped, PopTyped DEF EndLoop, TypeOK
  <2> QED  BY <1>1, <2>2, LevelAssumption DEF EndLoop, LevelAccounting, TypeOK
<1>2. CASE ~EndLoop
  <2>1. Len(stack') = Len(stack) /\ UNCHANGED <<level, leaked>>
    BY <1>2 DEF HandlerStep, ReportItem, SkipItem, StopAtItem, RepeatItem, ParseItem,
                ItemParsed, Advance, TypeOK
  <2> QED  BY <2>1 DEF LevelAccounting
<1> QED  BY <1>1, <1>2

-----------------------------------------------------------------------------
\* What is inductive: the type, the frames, the fallback and the level.
IInv == TypeOK /\ FramesWait /\ FallbackDiscipline /\ LevelAccounting

LEMMA InitIInv == Init => IInv
<1> SUFFICES ASSUME Init PROVE IInv
  OBVIOUS
<1>1. docs \in [File -> Document] /\ opts \in Option
  BY LibrariesAssumption, OptionsAssumption DEF Init, Fresh
<1>2. stack = <<>> /\ Len(stack) = 0 /\ DOMAIN stack = {}  BY DEF Init, Fresh
<1>3. opts.fallback \in BOOLEAN  BY <1>1 DEF Option
<1>4. <<>> \in Seq(Frame) /\ <<>> \in Seq(Signal) /\ "UNHANDLED" \in Result
  BY DEF Result
<1>5. TypeOK  BY <1>1, <1>2, <1>3, <1>4, RootAssumption DEF Init, Fresh, TypeOK
<1>6. FramesWait  BY <1>2 DEF FramesWait
<1>7. FallbackDiscipline  BY <1>2, <1>3 DEF FallbackDiscipline, Init, Fresh
<1>8. LevelAccounting  BY <1>2, LevelAssumption DEF LevelAccounting, Init, Fresh
<1> QED  BY <1>5, <1>6, <1>7, <1>8 DEF IInv

LEMMA NextIInv == IInv /\ [Next]_vars => IInv'
<1> SUFFICES ASSUME IInv, [Next]_vars PROVE IInv'
  OBVIOUS
<1> USE DEF IInv
<1>1. CASE ParseInternal
  BY <1>1, ParseInternalTyped, ParseInternalFrames, ParseInternalLevel
<1>2. CASE HandlerStep
  BY <1>2, HandlerStepTyped, HandlerStepFrames, HandlerStepLevel
<1>3. CASE ParseWithBase
  <2>1. TypeOK'  BY <1>3 DEF ParseWithBase, TypeOK, Result, inputs
  <2>2. stack = <<>> /\ stack' = <<>>  BY <1>3 DEF ParseWithBase, TypeOK
  <2>3. DOMAIN stack = {} /\ DOMAIN stack' = {}  BY <2>2
  <2> QED
    BY <1>3, <2>1, <2>3
    DEF ParseWithBase, FramesWait, FallbackDiscipline, LevelAccounting, inputs
<1>4. CASE ParseReturns
  <2>1. TypeOK'  BY <1>4 DEF ParseReturns, TypeOK, inputs
  <2>2. DOMAIN stack = {} /\ DOMAIN stack' = {}  BY <1>4 DEF ParseReturns
  <2> QED
    BY <1>4, <2>1, <2>2
    DEF ParseReturns, FramesWait, FallbackDiscipline, LevelAccounting, inputs
<1>5. CASE UNCHANGED vars
  BY <1>5 DEF vars, inputs, TypeOK, FramesWait, FallbackDiscipline, FallbackAt,
              LevelAccounting, Waiting, Silences
<1> QED  BY <1>1, <1>2, <1>3, <1>4, <1>5 DEF Next, Terminated

LEMMA Inductive == Spec => []IInv
BY InitIInv, NextIInv, PTL DEF Spec

\* Whatever the documents and the options are, the state keeps its type.
THEOREM TypeCorrect == Spec => []TypeOK
<1>1. IInv => TypeOK  BY DEF IInv
<1> QED  BY <1>1, Inductive, PTL

\* recurse_level is the number of running handlers plus the leaks and at most
\* RECURSE_LEVEL_MAX + 1: no cycle of playlists makes the C stack grow further.
THEOREM LevelBounded == Spec => []LevelAccounting
<1>1. IInv => LevelAccounting  BY DEF IInv
<1> QED  BY <1>1, Inductive, PTL

\* Every loop that waits for a nested parse waits at one of its items, with the
\* fallback its own caller left it to give back.
THEOREM LoopsWait == Spec => []FramesWait
<1>1. IInv => FramesWait  BY DEF IInv
<1> QED  BY <1>1, Inductive, PTL

\* Every nested parse gives the fallback back as it found it.
THEOREM FallbackRestored == Spec => []FallbackDiscipline
<1>1. IInv => FallbackDiscipline  BY DEF IInv
<1> QED  BY <1>1, Inductive, PTL

-----------------------------------------------------------------------------
(***************************************************************************)
(* What is reported: every signal is one the documents and the properties  *)
(* of the parser allow.                                                    *)
(***************************************************************************)
Unsafe(d) == d.data \in UnsafeTypes

\* A signal the properties of the parser and the documents allow.
TitleFits(s) ==
  LET items == docs[s.list].items
  IN  (s.sig = "entry" /\ s.title > 0 /\ items[s.title].how = "extinf")
        => /\ s.title < s.item
           /\ \A k \in s.title + 1 .. s.item - 1 :
                items[k].how \in {"extinf", "skip", "bad"}

Lookable(f) == opts.recurse \/ f = Root \/ docs[f].scheme \in {"feed", "zune", "itms"}

GoodSignals ==
  {s \in Signal : /\ TitleFits(s)
                  /\ Lookable(s.list)
                  /\ (opts.disable_unsafe /\ s.item > 0 /\ Unsafe(docs[s.list]))
                        => Disguised(docs[s.list])}

\* A handler that may be running; what it remembers of the lines it has passed
\* is the #EXTINF line behind which only lines without an entry came.
TitleHeld(frame) ==
  LET items == docs[frame.file].items
  IN  frame.extinf > 0 =>
        /\ frame.extinf < frame.pos
        /\ items[frame.extinf].how = "extinf"
        /\ \A k \in frame.extinf + 1 .. frame.pos - 1 :
             items[k].how \in {"extinf", "skip", "bad"}

MayRun(f, kind) ==
  /\ opts.recurse \/ f = Root
  /\ (opts.disable_unsafe /\ (kind \in {"desktop", "directory"} \/ Unsafe(docs[f])))
        => Disguised(docs[f])

GoodFrames == {frame \in Frame : TitleHeld(frame) /\ MayRun(frame.file, frame.kind)}

\* What is inductive, given IInv.
RInv == /\ docs \in Libraries
        /\ (stack = <<>> /\ pc \in {"start", "enter"}) => callee = Root
        /\ stack \in Seq(GoodFrames)
        /\ events \in Seq(GoodSignals)

LEMMA SameInputs ==
  ASSUME UNCHANGED inputs
  PROVE  GoodSignals' = GoodSignals /\ GoodFrames' = GoodFrames
BY DEF inputs, GoodSignals, GoodFrames, TitleFits, Lookable, TitleHeld, MayRun

-----------------------------------------------------------------------------
\* What a handler can report about the playlist f on its own.
Says(f) == {Started(f), Ended(f, f), Ended(TitleText, f), Entry(f, 0, f, 0)}
             \cup {Entries(f)[i] : i \in 1 .. Len(docs[f].items)}

LEMMA SaysConcat ==
  ASSUME NEW S, NEW s \in Seq(S), NEW t \in Seq(S)
  PROVE  s \o t \in Seq(S)
OBVIOUS

LEMMA SaysParts ==
  ASSUME docs \in [File -> Document], NEW f \in File
  PROVE  /\ <<>> \in Seq(Says(f)) /\ <<Started(f)>> \in Seq(Says(f))
         /\ <<Ended(f, f)>> \in Seq(Says(f)) /\ <<Ended(TitleText, f)>> \in Seq(Says(f))
         /\ Itself(f) \in Seq(Says(f)) /\ Entries(f) \in Seq(Says(f))
         /\ docs[f].items # <<>> =>
              SubSeq(Entries(f), 1, Len(docs[f].items) - 1) \in Seq(Says(f))
         /\ [i \in 1 .. docs[f].heads |-> Started(f)] \in Seq(Says(f))
<1>1. Entries(f) \in Seq(Signal) /\ Len(Entries(f)) = Len(docs[f].items)
  BY EntriesTyped
<1>2. docs[f].items \in Seq(Item) /\ docs[f].heads \in Nat  BY DocumentTyped
<1>3. \A i \in 1 .. Len(Entries(f)) : Entries(f)[i] \in Says(f)  BY <1>1 DEF Says
<1>4. Entries(f) \in Seq(Says(f))  BY <1>1, <1>3
<1>5. /\ Started(f) \in Says(f) /\ Ended(f, f) \in Says(f)
      /\ Ended(TitleText, f) \in Says(f) /\ Entry(f, 0, f, 0) \in Says(f)
  BY DEF Says
<1>6. ASSUME docs[f].items # <<>>
      PROVE  SubSeq(Entries(f), 1, Len(docs[f].items) - 1) \in Seq(Says(f))
  <2>1. Len(docs[f].items) - 1 \in 0 .. Len(Entries(f))  BY <1>1, <1>2, <1>6
  <2> QED  BY <1>4, <2>1
<1> QED  BY <1>2, <1>4, <1>5, <1>6 DEF Itself

LEMMA HandlerSays ==
  ASSUME docs \in [File -> Document], NEW f \in File, NEW data \in BOOLEAN, NEW h
  PROVE  Call(h, f, data).sigs \in Seq(Says(f)) /\ AddFeed(f).sigs \in Seq(Says(f))
<1> DEFINE Q == Seq(Says(f))
           S == <<Started(f)>>
           E == <<Ended(f, f)>>
           T == <<Ended(TitleText, f)>>
           N == [i \in 1 .. docs[f].heads |-> Started(f)]
           B == SubSeq(Entries(f), 1, Len(docs[f].items) - 1)
<1>1. /\ <<>> \in Q /\ S \in Q /\ E \in Q /\ T \in Q /\ N \in Q
      /\ Itself(f) \in Q /\ Entries(f) \in Q
      /\ docs[f].items # <<>> => B \in Q
  BY SaysParts
<1>q. \A s, t \in Q : s \o t \in Q  BY SaysConcat
<1>p. \A s, r : /\ Emits(s, r).sigs = s /\ GivesUp(r).sigs = <<>>
                /\ \A k : Loops(k, s).sigs = s
  BY DEF Emits, GivesUp, Loops
<1> HIDE DEF Q, S, E, T, N, B
<1>2. AddPlsWithContents(f).sigs \in Q
  BY <1>1, <1>p DEF AddPlsWithContents, S
<1>3. AddPls(f).sigs \in Q /\ AddM3u(f).sigs \in Q /\ AddRam(f).sigs \in Q
  BY <1>1, <1>2, <1>p DEF AddPls, AddM3u, AddRam
<1>4. AddRa(f, data).sigs \in Q /\ AddAsx(f, data).sigs \in Q
  BY <1>1, <1>3, <1>p DEF AddRa, AddAsx, N
<1>5. AddAsf(f, data).sigs \in Q
  BY <1>1, <1>4, <1>p DEF AddAsf
<1>6. S \o Entries(f) \in Q /\ (S \o Entries(f)) \o E \in Q
  BY <1>1, <1>q
<1>7. AddRss(f).sigs \in Q /\ AddOpml(f).sigs \in Q
  BY <1>1, <1>6, <1>p DEF AddRss, AddOpml, S, E
<1>14. AddFeed(f).sigs \in Q  BY <1>1, <1>7, <1>p DEF AddFeed
<1>8. AddAtom(f).sigs \in Q
  <2> DEFINE head == IF docs[f].items = <<>> THEN <<>> ELSE S
  <2>1. head \in Q  BY <1>1
  <2> HIDE DEF head
  <2>2. (head \o Entries(f)) \o E \in Q  BY <1>1, <1>q, <2>1
  <2> QED  BY <1>1, <2>2, <1>p DEF AddAtom, S, E, head
<1>9. AddPla(f).sigs \in Q
  <2> DEFINE bad  == docs[f].items # <<>> /\ docs[f].items[Len(docs[f].items)].how = "bad"
             head == IF docs[f].heads > 0 THEN S ELSE <<>>
             body == IF bad THEN B ELSE Entries(f)
             tail == IF docs[f].heads > 0 THEN T ELSE <<>>
             r    == IF bad THEN "ERROR" ELSE "UNHANDLED"
  <2>1. head \in Q  BY <1>1
  <2>2. body \in Q  BY <1>1
  <2>3. tail \in Q  BY <1>1
  <2>4. AddPla(f) = IF ~docs[f].readable \/ docs[f].form # "pla" THEN GivesUp("ERROR")
                    ELSE Emits((head \o body) \o tail, r)
    BY DEF AddPla, S, T, B
  <2> HIDE DEF head, body, tail, r
  <2>5. (head \o body) \o tail \in Q  BY <1>q, <2>1, <2>2, <2>3
  <2> QED  BY <1>1, <1>p, <2>4, <2>5
<1>10. AddXmlFeed(f, data).sigs \in Q
  BY <1>1, <1>7, <1>8, <1>p DEF AddXmlFeed
<1>11. /\ AddXspf(f).sigs \in Q /\ AddSmil(f).sigs \in Q /\ AddGvp(f).sigs \in Q
       /\ AddQuicktime(f, data).sigs \in Q
  BY <1>1, <1>p DEF AddXspf, AddSmil, AddGvp, AddQuicktime
<1>12. /\ AddDesktop(f).sigs \in Q /\ AddIso(f).sigs \in Q /\ AddCue(f).sigs \in Q
       /\ AddBlock(f).sigs \in Q /\ AddDirectory(f).sigs \in Q
  BY <1>1, <1>p DEF AddDesktop, AddIso, AddCue, AddBlock, AddDirectory
<1>13. GivesUp("UNHANDLED").sigs \in Q  BY <1>1, <1>p
<1>15. Call(h, f, data).sigs \in Q
  BY <1>3, <1>4, <1>5, <1>7, <1>8, <1>9, <1>10, <1>11, <1>12, <1>13 DEF Call
<1> QED  BY <1>14, <1>15 DEF Q

\* What the document was taken for decides how much of it a handler may say.
LEMMA SaysGood ==
  ASSUME TypeOK, docs \in Libraries, NEW f \in File, Lookable(f),
         (opts.disable_unsafe /\ Unsafe(docs[f])) => Disguised(docs[f])
  PROVE  Seq(Says(f)) \subseteq Seq(GoodSignals)
<1>1. ASSUME NEW s \in Says(f) PROVE s \in GoodSignals
  <2>1. f \in File \cup {TitleText} /\ TitleText \in File \cup {TitleText}
    OBVIOUS
  <2>2. CASE s \in {Started(f), Ended(f, f), Ended(TitleText, f), Entry(f, 0, f, 0)}
    <3>1. s \in Signal  BY <2>1, <2>2, SignalTyped
    <3>2. s.list = f /\ s.title = 0  BY <2>2 DEF Started, Ended, Entry
    <3> QED  BY <3>1, <3>2 DEF GoodSignals, TitleFits
  <2>3. CASE \E i \in 1 .. Len(docs[f].items) : s = Entries(f)[i]
    <3>1. PICK i \in 1 .. Len(docs[f].items) : s = Entries(f)[i]  BY <2>3
    <3>2. Entries(f) \in Seq(Signal) /\ Len(Entries(f)) = Len(docs[f].items)
      BY EntriesTyped DEF TypeOK
    <3>3. s \in Signal  BY <3>1, <3>2
    <3>4. s = Entry(docs[f].items[i].to, IF docs[f].items[i].titled THEN i ELSE 0, f, i)
      BY <3>1 DEF Entries
    <3>5. s.list = f /\ s.title = (IF docs[f].items[i].titled THEN i ELSE 0)
      BY <3>4 DEF Entry
    <3>6. i \in DOMAIN docs[f].items  BY DocumentTyped DEF TypeOK
    <3>7. ~(s.title > 0 /\ docs[f].items[s.title].how = "extinf")
      BY <3>5, <3>6, ExtinfAssumption
    <3> QED  BY <3>3, <3>5, <3>7 DEF GoodSignals, TitleFits
  <2> QED  BY <2>2, <2>3 DEF Says
<1> QED  BY <1>1

\* The playlist itself may always be reported where it may be looked into.
LEMMA ItselfGood ==
  ASSUME TypeOK, NEW f \in File, Lookable(f)
  PROVE  Itself(f) \in Seq(GoodSignals)
<1>1. Entry(f, 0, f, 0) \in Signal  BY SignalTyped
<1>2. Entry(f, 0, f, 0) \in GoodSignals
  BY <1>1 DEF GoodSignals, TitleFits, Entry
<1> QED  BY <1>2 DEF Itself

-----------------------------------------------------------------------------
\* A handler has run to the end, or none was called.
LEMMA EpilogueGood ==
  ASSUME TypeOK, RInv, NEW sigs \in Seq(GoodSignals), NEW r, NEW m,
         Lookable(callee), Epilogue(sigs, r, m),
         UNCHANGED <<inputs, callee, stack, level, fallback, leaked>>
  PROVE  RInv'
<1>1. Itself(callee) \in Seq(GoodSignals)  BY ItselfGood DEF TypeOK
<1> DEFINE report == r # "SUCCESS" /\ ~(r # "SUCCESS" /\ m \in IgnoreTypes) /\ fallback
           own    == IF report THEN Itself(callee) ELSE <<>>
<1>2. events' = (events \o sigs) \o own /\ pc' = "return"  BY DEF Epilogue
<1>3. own \in Seq(GoodSignals)  BY <1>1
<1> HIDE DEF own
<1>4. events' \in Seq(GoodSignals)  BY <1>2, <1>3, SaysConcat DEF RInv
<1>5. docs' = docs  BY DEF inputs
<1> QED  BY <1>2, <1>4, <1>5, SameInputs DEF RInv

\* A handler is called for a document that may be looked into.
LEMMA HandleGood ==
  ASSUME TypeOK, RInv, NEW h, NEW t, t.data \in BOOLEAN, Handle(h, t),
         MayRun(callee, Call(h, callee, t.data).kind)
  PROVE  RInv'
<1> DEFINE out == Call(h, callee, t.data)
<1>1. callee \in File /\ docs \in [File -> Document]  BY DEF TypeOK
<1>2. Lookable(callee)  BY DEF MayRun, Lookable
<1>3. out.sigs \in Seq(GoodSignals)
  <2>1. out.sigs \in Seq(Says(callee))  BY <1>1, HandlerSays
  <2> QED  BY <1>1, <1>2, <2>1, SaysGood DEF RInv, MayRun
<1>4. out \in Out  BY <1>1, CallTyped
<1>5. MayRun(callee, out.kind)  OBVIOUS
<1> HIDE DEF out
<1>6. CASE RunToEnd(out, t.mime)
  BY <1>2, <1>3, <1>6, EpilogueGood DEF RunToEnd
<1>7. CASE StartLoop(out)
  <2> DEFINE frame == [file |-> callee, kind |-> out.kind, pos |-> 1,
                       saved |-> fallback, extinf |-> 0]
  <2>1. frame \in Frame  BY <1>4, <1>7 DEF StartLoop, Out, Frame, TypeOK
  <2>2. frame.file = callee /\ frame.kind = out.kind /\ frame.extinf = 0
    OBVIOUS
  <2>3. stack' = Append(stack, frame)  BY <1>7 DEF StartLoop
  <2> HIDE DEF frame
  <2>4. frame \in GoodFrames  BY <1>5, <2>1, <2>2 DEF GoodFrames, TitleHeld
  <2>5. stack' \in Seq(GoodFrames)  BY <2>3, <2>4 DEF RInv
  <2>6. events' \in Seq(GoodSignals)  BY <1>3, <1>7, SaysConcat DEF StartLoop, RInv
  <2>7. pc' = "run" /\ UNCHANGED inputs /\ docs' = docs  BY <1>7 DEF StartLoop, inputs
  <2> QED  BY <2>5, <2>6, <2>7, SameInputs DEF RInv
<1> QED  BY <1>6, <1>7 DEF Handle, out

\* The type of a document is what its name or its contents suggest.
LEMMA Guesses ==
  ASSUME NEW d
  PROVE  /\ Guess(d).mime \in {d.name, d.data, "none"}
         /\ DualGuess(d).mime \in {Guess(d).mime, d.data, "none"}
<1>1. Sniff(d).mime \in {d.data, "none"} /\ DOMAIN Sniff(d) = {"mime", "data"}
  BY DEF Sniff
<1>2. \A t : LookAgain(t, d).mime \in {t.mime, d.data}
  BY DEF LookAgain, Sniff
<1>3. FirstGuess(d).mime \in {d.name, d.data, "none"}
  BY <1>1, <1>2 DEF FirstGuess
<1>4. Guess(d).mime \in {d.name, d.data, "none"}  BY <1>2, <1>3 DEF Guess
<1>5. DualGuess(d).mime \in {Guess(d).mime, d.data, "none"}
  BY <1>1 DEF DualGuess
<1> QED  BY <1>4, <1>5

\* Only the handlers of these two unsafe types loop.
LEMMA UnsafeKinds ==
  ASSUME NEW h, NEW f, NEW data, Call(h, f, data).kind \in {"desktop", "directory"}
  PROVE  h \in {"desktop", "directory"}
<1>1. \A s, r, k : /\ Emits(s, r).kind = "none" /\ GivesUp(r).kind = "none"
                   /\ Loops(k, s).kind = k
  BY DEF Emits, GivesUp, Loops
<1> DEFINE K == {"none", "m3u", "pls", "ram", "asx"}
<1>2. AddPlsWithContents(f).kind \in K  BY <1>1 DEF AddPlsWithContents
<1>3. AddPls(f).kind \in K /\ AddM3u(f).kind \in K /\ AddRam(f).kind \in K
  BY <1>1, <1>2 DEF AddPls, AddM3u, AddRam
<1>4. AddRa(f, data).kind \in K /\ AddAsx(f, data).kind \in K
  BY <1>1, <1>3 DEF AddRa, AddAsx
<1>5. AddAsf(f, data).kind \in K  BY <1>1, <1>4 DEF AddAsf
<1>6. AddRss(f).kind \in K /\ AddAtom(f).kind \in K /\ AddOpml(f).kind \in K
  BY <1>1 DEF AddRss, AddAtom, AddOpml
<1>7. AddXmlFeed(f, data).kind \in K  BY <1>1, <1>6 DEF AddXmlFeed
<1>8. AddPla(f).kind \in K  BY <1>1 DEF AddPla
<1>9. /\ AddXspf(f).kind \in K /\ AddSmil(f).kind \in K /\ AddGvp(f).kind \in K
      /\ AddQuicktime(f, data).kind \in K /\ AddIso(f).kind \in K
      /\ AddCue(f).kind \in K /\ AddBlock(f).kind \in K
  BY <1>1 DEF AddXspf, AddSmil, AddGvp, AddQuicktime, AddIso, AddCue, AddBlock
<1> QED
  BY <1>1, <1>3, <1>4, <1>5, <1>6, <1>7, <1>8, <1>9 DEF Call

LEMMA HandlersOf ==
  /\ \A m \in SafeTypes \cup DualTypes : HandlerOf[m] \notin {"desktop", "directory"}
  /\ \A m \in UnsafeTypes : HandlerOf[m] = m
  /\ SafeTypes \cap UnsafeTypes = {} /\ DualTypes \cap UnsafeTypes = {}
  /\ "none" \notin SafeTypes \cup UnsafeTypes \cup DualTypes
BY DEF HandlerOf, SafeTypes, DualTypes, UnsafeTypes, SpecialTypes

\* The document that is entered may be looked into.
LEMMA EnteredLookable ==
  ASSUME IInv, RInv, Parsing
  PROVE  opts.recurse \/ callee = Root
<1>1. level = 0 => stack = <<>>
  BY DEF IInv, LevelAccounting, TypeOK
<1> QED  BY <1>1 DEF Parsing, Entering, RInv

LEMMA ParseInternalGood ==
  ASSUME IInv, RInv, ParseInternal
  PROVE  RInv'
<1> DEFINE d == docs[callee]
<1>0. TypeOK /\ callee \in File /\ docs \in [File -> Document]  BY DEF IInv, TypeOK
<1>1. CASE EnterTooDeep \/ EnterStream \/ EnterNoRecurse \/ EnterUntyped
             \/ EnterEmpty \/ EnterIgnored \/ EnterUnsafe
  <2>1. UNCHANGED <<inputs, stack, events>> /\ pc' = "return"
    BY <1>1 DEF EnterTooDeep, EnterStream, EnterNoRecurse, EnterUntyped, EnterEmpty,
                EnterIgnored, EnterUnsafe, Return
  <2> QED  BY <2>1, SameInputs DEF RInv, inputs
<1>2. CASE EnterFeed
  <2>1. d.scheme \in {"feed", "zune", "itms"}  BY <1>2 DEF EnterFeed, Entering
  <2>2. Lookable(callee) /\ Disguised(d)  BY <2>1 DEF Lookable, Disguised
  <2>3. AddFeed(callee).sigs \in Seq(Says(callee))  BY <1>0, HandlerSays
  <2>4. AddFeed(callee).sigs \in Seq(GoodSignals)
    BY <1>0, <2>2, <2>3, SaysGood DEF RInv
  <2>5. events' \in Seq(GoodSignals)  BY <1>2, <2>4, SaysConcat DEF EnterFeed, RInv
  <2> QED  BY <1>2, <2>5, SameInputs DEF EnterFeed, RInv, inputs
<1>3. CASE EnterDualRejected \/ EnterOther
  <2>1. Lookable(callee)
    BY <1>3, EnteredLookable
    DEF EnterDualRejected, EnterOther, ParsingType, Lookable
  <2>2. <<>> \in Seq(GoodSignals)  OBVIOUS
  <2> QED
    BY <1>0, <1>3, <2>1, <2>2, EpilogueGood DEF EnterDualRejected, EnterOther
<1>4. CASE EnterSpecial
  <2> DEFINE t == Guess(d)
             k == Call(HandlerOf[t.mime], callee, t.data).kind
  <2>1. t.data \in BOOLEAN  BY <1>0, GuessTyped
  <2>2. opts.recurse \/ callee = Root
    BY <1>4, EnteredLookable DEF EnterSpecial, ParsingType
  <2>3. ASSUME opts.disable_unsafe, k \in {"desktop", "directory"} \/ Unsafe(d)
        PROVE  Disguised(d)
    <3>1. t.mime \in SafeTypes  BY <1>4, <2>3 DEF EnterSpecial, ParsingType
    <3>2. k \notin {"desktop", "directory"}  BY <3>1, UnsafeKinds, HandlersOf
    <3>3. t.mime \in {d.name, d.data, "none"}  BY Guesses
    <3> QED  BY <2>3, <3>1, <3>2, <3>3, HandlersOf DEF Unsafe, Disguised
  <2>4. MayRun(callee, k)  BY <2>2, <2>3 DEF MayRun
  <2>5. Handle(HandlerOf[t.mime], t)  BY <1>4 DEF EnterSpecial
  <2> QED  BY <1>0, <2>1, <2>4, <2>5, HandleGood
<1>5. CASE EnterDual
  <2> DEFINE t == DualGuess(d)
             h == DualHandler(d)
             k == Call(h, callee, t.data).kind
  <2>1. t.data \in BOOLEAN  BY <1>0, GuessTyped
  <2>2. opts.recurse \/ callee = Root
    BY <1>5, EnteredLookable DEF EnterDual, ParsingType
  <2>3. ASSUME k \in {"desktop", "directory"} \/ Unsafe(d)
        PROVE  Disguised(d)
    <3>1. Guess(d).mime \in DualTypes  BY <1>5 DEF EnterDual, ParsingType
    <3>2. Guess(d).mime \in {d.name, d.data, "none"}  BY Guesses
    <3>3. CASE Unsafe(d)
      BY <3>1, <3>2, <3>3, HandlersOf DEF Unsafe, Disguised
    <3>4. CASE k \in {"desktop", "directory"}
      <4>1. h \in {"desktop", "directory"}  BY <3>4, UnsafeKinds
      <4>2. t.mime # "none"  BY <3>1, <4>1, HandlersOf DEF DualHandler
      <4>3. h = GetFunctionForMimetype(t.mime)  BY <4>2 DEF DualHandler
      <4>4. t.mime \in UnsafeTypes
        BY <4>1, <4>3, HandlersOf DEF GetFunctionForMimetype, SpecialTypes
      <4>5. t.mime \in {Guess(d).mime, d.data, "none"}  BY Guesses
      <4>6. Unsafe(d)  BY <3>1, <4>4, <4>5, HandlersOf DEF Unsafe
      <4> QED  BY <3>3, <4>6
    <3> QED  BY <2>3, <3>3, <3>4
  <2>4. MayRun(callee, k)  BY <2>2, <2>3 DEF MayRun
  <2>5. Handle(h, t)  BY <1>5 DEF EnterDual
  <2> QED  BY <1>0, <2>1, <2>4, <2>5, HandleGood
<1> QED  BY <1>1, <1>2, <1>3, <1>4, <1>5 DEF ParseInternal

-----------------------------------------------------------------------------
\* The innermost loop goes on, having reported nothing, its item, or the start
\* or the end of a part of its playlist.
LEMMA AdvanceGood ==
  ASSUME TypeOK, RInv, stack # <<>>, UNCHANGED inputs, pc' = "run",
         NEW p \in Nat, NEW x \in Nat, Advance(p, x),
         TitleHeld([Top EXCEPT !.pos = p, !.extinf = x])
  PROVE  stack' \in Seq(GoodFrames) /\ stack' # <<>>
<1>1. Len(stack) \in 1 .. Len(stack) /\ Top \in GoodFrames /\ stack[Len(stack)] = Top
  BY TopTyped DEF Top, RInv
<1> DEFINE frame == [Top EXCEPT !.pos = p, !.extinf = x]
<1>2. Top \in Frame  BY <1>1 DEF GoodFrames
<1>3. frame \in Frame /\ frame.file = Top.file /\ frame.kind = Top.kind
  BY <1>2 DEF Frame
<1>4. frame \in GoodFrames  BY <1>1, <1>3 DEF GoodFrames
<1>5. stack' = [stack EXCEPT ![Len(stack)] = frame]
  BY <1>1, <1>2 DEF Advance, TypeOK, Frame
<1> HIDE DEF frame
<1> QED  BY <1>1, <1>4, <1>5 DEF RInv

\* What an entry reports about its playlist may be reported.
LEMMA OfTopGood ==
  ASSUME TypeOK, RInv, stack # <<>>, NEW s \in Signal, s.list = Top.file, TitleFits(s)
  PROVE  Append(events, s) \in Seq(GoodSignals)
<1>1. Top \in GoodFrames  BY TopTyped DEF Top, RInv
<1>2. s \in GoodSignals
  BY <1>1 DEF GoodSignals, GoodFrames, MayRun, Lookable
<1> QED  BY <1>2 DEF RInv

\* The title of an M3U entry is the pending one, that of any other its own.
LEMMA ItemEntryGood ==
  ASSUME TypeOK, RInv, stack # <<>>, Top.pos \in DOMAIN docs[Top.file].items
  PROVE  Append(events, ItemEntry) \in Seq(GoodSignals)
<1>1. Top \in GoodFrames  BY TopTyped DEF Top, RInv
<1>2. ItemEntry \in Signal  BY ItemEntryTyped
<1>3. /\ ItemEntry.list = Top.file /\ ItemEntry.item = Top.pos
      /\ ItemEntry.title = TitleOf(Top, There)
  BY DEF ItemEntry, Entry
<1>4. Top.file \in File /\ There = docs[Top.file].items[Top.pos]
  BY <1>1 DEF GoodFrames, Frame, There
<1>5. TitleFits(ItemEntry)
  <2>1. CASE Top.kind = "m3u"
    <3>1. ItemEntry.title = Top.extinf  BY <1>3, <2>1 DEF TitleOf
    <3> QED  BY <1>1, <1>3, <3>1 DEF GoodFrames, TitleHeld, TitleFits
  <2>2. CASE Top.kind # "m3u"
    <3>1. ItemEntry.title = IF There.titled THEN Top.pos ELSE 0
      BY <1>3, <2>2 DEF TitleOf
    <3>2. There.how = "extinf" => ~There.titled
      BY <1>4, ExtinfAssumption DEF RInv
    <3>3. ~(ItemEntry.title > 0 /\ docs[ItemEntry.list].items[ItemEntry.title].how = "extinf")
      BY <1>3, <1>4, <3>1, <3>2
    <3> QED  BY <3>3 DEF TitleFits
  <2> QED  BY <2>1, <2>2
<1> QED  BY <1>2, <1>3, <1>5, OfTopGood

LEMMA HandlerStepGood ==
  ASSUME IInv, RInv, HandlerStep
  PROVE  RInv'
<1> DEFINE n == Len(stack)
<1>0. TypeOK /\ FramesWait  BY DEF IInv
<1>1. Looping \/ ItemParsed \/ EndLoop
  BY DEF HandlerStep, ReportItem, SkipItem, StopAtItem, RepeatItem, ParseItem
<1>2. stack # <<>>  BY <1>0, <1>1 DEF Looping, ItemParsed, EndLoop, TypeOK
<1>3. /\ n \in Nat \ {0} /\ Top \in GoodFrames /\ Top \in Frame
      /\ Top.file \in File /\ Top.pos \in Nat /\ Top.extinf \in Nat
  <2>1. n \in Nat \ {0} /\ Top \in Frame  BY <1>0, <1>2, TopTyped
  <2>2. Top \in GoodFrames  BY <2>1 DEF Top, RInv
  <2> QED  BY <2>1, <2>2 DEF Frame
<1>4. docs[Top.file].items \in Seq(Item)  BY <1>0, <1>3, DocumentTyped DEF TypeOK
<1>5. ASSUME NEW p \in Nat, NEW x \in Nat, Advance(p, x), UNCHANGED inputs,
             pc' = "run", events' \in Seq(GoodSignals),
             TitleHeld([Top EXCEPT !.pos = p, !.extinf = x])
      PROVE  RInv'
  <2>1. stack' \in Seq(GoodFrames) /\ stack' # <<>>  BY <1>0, <1>2, <1>5, AdvanceGood
  <2> QED  BY <1>5, <2>1, SameInputs DEF RInv, inputs
<1>6. \A p \in Nat : TitleHeld([Top EXCEPT !.pos = p, !.extinf = 0])
  BY <1>3 DEF TitleHeld, Frame
<1>7. Top.pos + 1 \in Nat /\ 0 \in Nat  BY <1>3
<1>8. CASE ReportItem
  <2>1. Top.pos \in DOMAIN docs[Top.file].items
    BY <1>0, <1>2, <1>8, AtAnItem DEF ReportItem
  <2>2. events' \in Seq(GoodSignals)
    BY <1>0, <1>2, <1>8, <2>1, ItemEntryGood DEF ReportItem
  <2>3. pc' = "run" /\ UNCHANGED inputs  BY <1>8 DEF ReportItem, Looping
  <2> QED  BY <1>5, <1>6, <1>7, <1>8, <2>2, <2>3 DEF ReportItem
<1>9. CASE SkipItem
  <2> DEFINE x == IF There.how = "extinf" /\ Top.extinf = 0
                  THEN Top.pos ELSE Top.extinf
  <2>1. Top.pos \in DOMAIN docs[Top.file].items /\ Top.pos >= 1
    BY <1>0, <1>2, <1>4, <1>9, AtAnItem DEF SkipItem
  <2>2. There = docs[Top.file].items[Top.pos] /\ There.how \in {"skip", "bad", "extinf"}
    BY <1>9 DEF SkipItem, There
  <2>3. x \in Nat  BY <1>3
  <2> DEFINE frame == [Top EXCEPT !.pos = Top.pos + 1, !.extinf = x]
  <2>4. frame.file = Top.file /\ frame.pos = Top.pos + 1 /\ frame.extinf = x
    BY <1>3 DEF Frame
  <2>5. x > 0 => \/ x = Top.pos /\ There.how = "extinf"
                 \/ x = Top.extinf
    BY <1>3
  <2>6. Advance(Top.pos + 1, x)  BY <1>9 DEF SkipItem
  <2> HIDE DEF x, frame
  <2>7. TitleHeld(frame)
    <3>1. CASE x = Top.pos /\ There.how = "extinf"
      BY <1>3, <2>2, <2>4, <3>1 DEF TitleHeld
    <3>2. CASE x = Top.extinf
      <4> SUFFICES ASSUME Top.extinf > 0
                   PROVE  /\ Top.extinf < Top.pos + 1
                          /\ docs[Top.file].items[Top.extinf].how = "extinf"
                          /\ \A k \in Top.extinf + 1 .. Top.pos :
                               docs[Top.file].items[k].how \in {"extinf", "skip", "bad"}
        BY <1>3, <2>4, <3>2 DEF TitleHeld
      <4>1. /\ Top.extinf < Top.pos
            /\ docs[Top.file].items[Top.extinf].how = "extinf"
            /\ \A k \in Top.extinf + 1 .. Top.pos - 1 :
                 docs[Top.file].items[k].how \in {"extinf", "skip", "bad"}
        BY <1>3 DEF GoodFrames, TitleHeld
      <4>2. \A k \in Top.extinf + 1 .. Top.pos :
              k = Top.pos \/ k \in Top.extinf + 1 .. Top.pos - 1
        BY <1>3
      <4> QED  BY <1>3, <2>2, <4>1, <4>2
    <3>3. CASE ~(x > 0)  BY <2>4, <3>3 DEF TitleHeld
    <3> QED  BY <2>5, <3>1, <3>2, <3>3
  <2>8. pc' = "run" /\ UNCHANGED inputs /\ events' = events
    BY <1>9 DEF SkipItem, Looping
  <2> QED  BY <1>5, <1>7, <2>3, <2>6, <2>7, <2>8 DEF RInv, frame
<1>10. CASE StopAtItem
  <2>1. Len(docs[Top.file].items) + 1 \in Nat  BY <1>4
  <2>2. pc' = "run" /\ UNCHANGED inputs /\ events' = events
    BY <1>10 DEF StopAtItem, Looping
  <2> QED  BY <1>5, <1>6, <1>7, <1>10, <2>1, <2>2 DEF StopAtItem, RInv
<1>11. CASE RepeatItem
  <2>3. events' \in Seq(GoodSignals)
    <3>1. CASE events' = events  BY <3>1 DEF RInv
    <3>2. ASSUME NEW s \in Signal, s.list = Top.file, s.title = 0,
                 events' = Append(events, s)
          PROVE  events' \in Seq(GoodSignals)
      BY <1>0, <1>2, <3>2, OfTopGood DEF TitleFits
    <3> QED  BY <1>0, <1>2, <1>11, <3>1, <3>2, RepeatSays
  <2>4. pc' = "run" /\ UNCHANGED inputs  BY <1>11 DEF RepeatItem, Looping
  <2> QED  BY <1>5, <1>6, <1>7, <1>11, <2>3, <2>4 DEF RepeatItem
<1>12. CASE ItemParsed
  <2>1. Top.pos \in DOMAIN docs[Top.file].items
    BY <1>0, <1>2, <1>12, AtAnItem DEF ItemParsed
  <2>2. events' \in Seq(GoodSignals)
    <3>1. events' = events \/ events' = Append(events, ItemEntry)
      BY <1>12 DEF ItemParsed
    <3> QED  BY <1>0, <1>2, <2>1, <3>1, ItemEntryGood DEF RInv
  <2>3. pc' = "run" /\ UNCHANGED inputs  BY <1>12 DEF ItemParsed
  <2> QED  BY <1>5, <1>6, <1>7, <1>12, <2>2, <2>3 DEF ItemParsed
<1>13. CASE ParseItem
  <2>1. pc' = "enter" /\ UNCHANGED inputs /\ events' = events
    BY <1>13 DEF ParseItem, Looping
  <2> DEFINE frame == [Top EXCEPT !.saved = fallback]
  <2>2. /\ frame \in Frame /\ frame.file = Top.file /\ frame.kind = Top.kind
        /\ frame.pos = Top.pos /\ frame.extinf = Top.extinf
    BY <1>0, <1>3 DEF Frame, TypeOK
  <2>3. stack' = [stack EXCEPT ![n] = frame]
    BY <1>0, <1>3, <1>13 DEF ParseItem, TypeOK, Top
  <2> HIDE DEF frame
  <2>4. frame \in GoodFrames  BY <1>3, <2>2 DEF GoodFrames, TitleHeld
  <2>5. stack' \in Seq(GoodFrames) /\ stack' # <<>>
    BY <1>2, <1>3, <2>3, <2>4 DEF RInv
  <2> QED  BY <2>1, <2>5, SameInputs DEF RInv, inputs
<1>14. CASE EndLoop
  <2>1. pc' = "return" /\ UNCHANGED inputs  BY <1>14 DEF EndLoop
  <2>2. stack' \in Seq(GoodFrames)
    <3>1. n - 1 \in 0 .. n  BY <1>3
    <3> QED  BY <1>14, <3>1 DEF EndLoop, RInv
  <2>3. events' \in Seq(GoodSignals)
    <3> DEFINE uri == IF Top.kind = "pls" THEN TitleText ELSE Top.file
               e   == Ended(uri, Top.file)
    <3>1. e \in Signal /\ e.list = Top.file /\ e.title = 0
      <4>1. uri \in File \cup {TitleText}  BY <1>3
      <4>2. e \in Signal  BY <1>3, <4>1, SignalTyped
      <4> QED  BY <4>2 DEF Ended
    <3>2. EndSignals(Top) = <<>> \/ EndSignals(Top) = <<e>>  BY DEF EndSignals
    <3> HIDE DEF e
    <3>3. events \in Seq(GoodSignals)  BY DEF RInv
    <3>4. events \o <<>> = events /\ events \o <<e>> = Append(events, e)
      BY <3>3
    <3>5. Append(events, e) \in Seq(GoodSignals)
      BY <1>0, <1>2, <3>1, OfTopGood DEF TitleFits
    <3> QED  BY <1>14, <3>2, <3>3, <3>4, <3>5 DEF EndLoop
  <2> QED  BY <2>1, <2>2, <2>3, SameInputs DEF RInv, inputs
<1> QED  BY <1>8, <1>9, <1>10, <1>11, <1>12, <1>13, <1>14 DEF HandlerStep

LEMMA InitRInv == Init => RInv
<1>1. <<>> \in Seq(GoodFrames) /\ <<>> \in Seq(GoodSignals)  OBVIOUS
<1> QED  BY <1>1 DEF Init, Fresh, RInv

LEMMA NextRInv == IInv /\ RInv /\ [Next]_vars => RInv'
<1> SUFFICES ASSUME IInv, RInv, [Next]_vars PROVE RInv'
  OBVIOUS
<1>1. CASE ParseInternal  BY <1>1, ParseInternalGood
<1>2. CASE HandlerStep  BY <1>2, HandlerStepGood
<1>3. CASE ParseWithBase \/ ParseReturns \/ UNCHANGED vars
  <2>1. UNCHANGED <<inputs, docs, callee, stack, events>>
    BY <1>3 DEF ParseWithBase, ParseReturns, vars, inputs
  <2>2. (stack = <<>> /\ pc' \in {"start", "enter"}) => callee = Root
    BY <1>3 DEF ParseWithBase, ParseReturns, vars, RInv
  <2> QED  BY <2>1, <2>2, SameInputs DEF RInv
<1> QED  BY <1>1, <1>2, <1>3 DEF Next, Terminated

LEMMA ReportsGood == Spec => []RInv
BY Inductive, InitRInv, NextRInv, PTL DEF Spec

\* A title taken from an #EXTINF line is given to the first entry behind it and
\* to no other, through any nesting of add_m3u.
THEOREM TitlesBelong == Spec => []TitleBelongs
<1>1. RInv => TitleBelongs
  <2> SUFFICES ASSUME RInv, NEW n \in DOMAIN events PROVE TitleFits(events[n])
    BY DEF TitleBelongs, TitleFits
  <2> QED  BY DEF RInv, GoodSignals
<1> QED  BY <1>1, ReportsGood, PTL

\* With the recurse property off nothing but the document asked for, and feeds
\* known by their scheme, is ever looked into.
THEOREM RecurseObeyed == Spec => []OnlyRootWithoutRecurse
<1>1. RInv => OnlyRootWithoutRecurse
  <2> SUFFICES ASSUME RInv, NEW n \in DOMAIN events PROVE Lookable(events[n].list)
    BY DEF OnlyRootWithoutRecurse, Lookable
  <2> QED  BY DEF RInv, GoodSignals
<1> QED  BY <1>1, ReportsGood, PTL

\* With disable-unsafe on no handler of an unsafe type runs, at any depth, and
\* no unsafe document is read out, but for documents in disguise.
THEOREM UnsafeBarred == Spec => []UnsafeNotParsed
<1>1. RInv => UnsafeNotParsed
  <2> SUFFICES ASSUME RInv, opts.disable_unsafe PROVE
        /\ \A i \in DOMAIN stack : MayRun(stack[i].file, stack[i].kind)
        /\ \A n \in DOMAIN events :
             (events[n].item > 0 /\ Unsafe(docs[events[n].list]))
               => Disguised(docs[events[n].list])
    BY DEF UnsafeNotParsed, MayRun, Unsafe
  <2> QED  BY DEF RInv, GoodSignals, GoodFrames
<1> QED  BY <1>1, ReportsGood, PTL

-----------------------------------------------------------------------------
(***************************************************************************)
(* Signals bracket.  F is a set of playlists and ev a sequence of signals. *)
(***************************************************************************)
Num(ev, sig, f, m, n) ==
  Cardinality({k \in m .. n : ev[k].sig = sig /\ ev[k].list = f})

\* As many playlists of F start as end from m to n.
Even(F, ev, m, n) ==
  \A f \in F : Num(ev, "started", f, m, n) = Num(ev, "ended", f, m, n)

\* The starts at the positions M are the open ones: what stands before the
\* first, between two neighbours and behind the last is even.
OpenAt(F, ev, M) ==
  /\ M \subseteq 1 .. Len(ev)
  /\ \A p \in M \cup {0}, q \in M \cup {Len(ev) + 1} :
       (p < q /\ \A x \in M : ~(p < x /\ x < q)) => Even(F, ev, p + 1, q - 1)

\* Every end closes the last start that is open.
Closing(F, ev, n) ==
  \E m \in 1 .. n - 1 : /\ ev[m].sig = "started" /\ ev[m].list = ev[n].list
                        /\ Even(F, ev, m + 1, n - 1)

Paired(F, ev) ==
  \A n \in DOMAIN ev : (ev[n].sig = "ended" /\ ev[n].list \in F) => Closing(F, ev, n)

\* A signal that opens and closes nothing.
Neutral(F) == {s \in Signal : s.sig \notin {"started", "ended"} \/ s.list \notin F}

LEMMA NumNat ==
  ASSUME NEW ev, NEW sig, NEW f, NEW m \in Int, NEW n \in Int
  PROVE  /\ IsFiniteSet({k \in m .. n : ev[k].sig = sig /\ ev[k].list = f})
         /\ Num(ev, sig, f, m, n) \in Nat
<1> DEFINE K == {k \in m .. n : ev[k].sig = sig /\ ev[k].list = f}
<1>1. IsFiniteSet(m .. n)  BY FS_Interval
<1>2. IsFiniteSet(K)  BY <1>1, FS_Subset
<1>3. Cardinality(K) \in Nat  BY <1>2, FS_CardinalityType
<1> QED  BY <1>2, <1>3 DEF Num

\* Neighbouring stretches add up.
LEMMA NumSplit ==
  ASSUME NEW ev, NEW sig, NEW f, NEW m \in Int, NEW k \in Int, NEW n \in Int,
         m <= k + 1, k <= n
  PROVE  Num(ev, sig, f, m, n) = Num(ev, sig, f, m, k) + Num(ev, sig, f, k + 1, n)
<1> DEFINE K(a, b) == {j \in a .. b : ev[j].sig = sig /\ ev[j].list = f}
<1>1. m .. n = (m .. k) \cup (k + 1 .. n) /\ (m .. k) \cap (k + 1 .. n) = {}
  OBVIOUS
<1>2. K(m, n) = K(m, k) \cup K(k + 1, n) /\ K(m, k) \cap K(k + 1, n) = {}
  BY <1>1
<1>3. /\ IsFiniteSet(K(m, k)) /\ Cardinality(K(m, k)) \in Nat
      /\ IsFiniteSet(K(k + 1, n)) /\ Cardinality(K(k + 1, n)) \in Nat
  <2>1. k + 1 \in Int  OBVIOUS
  <2>2. IsFiniteSet(K(m, k)) /\ IsFiniteSet(K(k + 1, n))
    <3>1. IsFiniteSet(m .. k) /\ IsFiniteSet(k + 1 .. n)  BY <2>1, FS_Interval
    <3> QED  BY <3>1, FS_Subset
  <2> QED  BY <2>2, FS_CardinalityType
<1>4. Cardinality(K(m, n)) = Cardinality(K(m, k)) + Cardinality(K(k + 1, n))
  <2> HIDE DEF K
  <2>1. Cardinality(K(m, k) \cup K(k + 1, n))
          = Cardinality(K(m, k)) + Cardinality(K(k + 1, n)) - Cardinality({})
    BY <1>2, <1>3, FS_Union
  <2> QED  BY <1>2, <1>3, <2>1, FS_EmptySet
<1> QED  BY <1>4 DEF Num

LEMMA EvenEmpty ==
  ASSUME NEW F, NEW ev, NEW m \in Int, NEW n \in Int, n < m
  PROVE  Even(F, ev, m, n)
<1>1. m .. n = {}  OBVIOUS
<1>2. \A sig, f : {k \in m .. n : ev[k].sig = sig /\ ev[k].list = f} = {}
  BY <1>1
<1> QED  BY <1>2 DEF Even, Num

LEMMA EvenJoins ==
  ASSUME NEW F, NEW ev, NEW m \in Int, NEW k \in Int, NEW n \in Int,
         m <= k + 1, k <= n, Even(F, ev, m, k), Even(F, ev, k + 1, n)
  PROVE  Even(F, ev, m, n)
<1> SUFFICES ASSUME NEW f \in F
             PROVE  Num(ev, "started", f, m, n) = Num(ev, "ended", f, m, n)
  BY DEF Even
<1>1. \A sig : Num(ev, sig, f, m, n) = Num(ev, sig, f, m, k) + Num(ev, sig, f, k + 1, n)
  BY NumSplit
<1>2. /\ Num(ev, "started", f, m, k) = Num(ev, "ended", f, m, k)
      /\ Num(ev, "started", f, k + 1, n) = Num(ev, "ended", f, k + 1, n)
  BY DEF Even
<1> QED  BY <1>1, <1>2

LEMMA EvenNeutral ==
  ASSUME NEW F, NEW ev, NEW m \in Int, NEW n \in Int,
         \A k \in m .. n : ev[k] \in Neutral(F)
  PROVE  Even(F, ev, m, n)
<1> SUFFICES ASSUME NEW f \in F
             PROVE  Num(ev, "started", f, m, n) = Num(ev, "ended", f, m, n)
  BY DEF Even
<1>1. /\ {k \in m .. n : ev[k].sig = "started" /\ ev[k].list = f} = {}
      /\ {k \in m .. n : ev[k].sig = "ended" /\ ev[k].list = f} = {}
  BY DEF Neutral
<1> QED  BY <1>1 DEF Num

\* Only the stretch itself matters.
LEMMA EvenSame ==
  ASSUME NEW F, NEW ev, NEW ew, NEW m \in Int, NEW n \in Int,
         \A k \in m .. n : ev[k] = ew[k], Even(F, ev, m, n)
  PROVE  Even(F, ew, m, n)
<1>1. \A sig, f : {k \in m .. n : ev[k].sig = sig /\ ev[k].list = f}
                  = {k \in m .. n : ew[k].sig = sig /\ ew[k].list = f}
  OBVIOUS
<1> QED  BY <1>1 DEF Even, Num

\* A start, what is even, and the end of what has started.
LEMMA EvenMatches ==
  ASSUME NEW F, NEW ev, NEW m \in Int, NEW n \in Int, m < n,
         ev[m].sig = "started", ev[n].sig = "ended", ev[m].list = ev[n].list,
         Even(F, ev, m + 1, n - 1)
  PROVE  Even(F, ev, m, n)
<1> SUFFICES ASSUME NEW f \in F
             PROVE  Num(ev, "started", f, m, n) = Num(ev, "ended", f, m, n)
  BY DEF Even
<1>1. \A sig : Num(ev, sig, f, m, n)
                 = Num(ev, sig, f, m, m) + Num(ev, sig, f, m + 1, n - 1)
                     + Num(ev, sig, f, n, n)
  <2> SUFFICES ASSUME NEW sig
               PROVE  Num(ev, sig, f, m, n)
                        = Num(ev, sig, f, m, m) + Num(ev, sig, f, m + 1, n - 1)
                            + Num(ev, sig, f, n, n)
    OBVIOUS
  <2>1. Num(ev, sig, f, m, n) = Num(ev, sig, f, m, m) + Num(ev, sig, f, m + 1, n)
    BY NumSplit
  <2>2. n - 1 \in Int /\ m + 1 \in Int /\ (n - 1) + 1 = n  OBVIOUS
  <2>3. Num(ev, sig, f, m + 1, n)
          = Num(ev, sig, f, m + 1, n - 1) + Num(ev, sig, f, (n - 1) + 1, n)
    BY <2>2, NumSplit
  <2>4. /\ Num(ev, sig, f, m, m) \in Nat /\ Num(ev, sig, f, m + 1, n - 1) \in Nat
        /\ Num(ev, sig, f, n, n) \in Nat
    BY <2>2, NumNat
  <2> QED  BY <2>1, <2>2, <2>3, <2>4
<1>2. \A sig, k : k \in {m, n} =>
        Num(ev, sig, f, k, k) = IF ev[k].sig = sig /\ ev[k].list = f THEN 1 ELSE 0
  <2> SUFFICES ASSUME NEW sig, NEW k \in {m, n}
               PROVE  Num(ev, sig, f, k, k)
                        = IF ev[k].sig = sig /\ ev[k].list = f THEN 1 ELSE 0
    OBVIOUS
  <2>1. k .. k = {k}  OBVIOUS
  <2>2. {j \in k .. k : ev[j].sig = sig /\ ev[j].list = f}
          = IF ev[k].sig = sig /\ ev[k].list = f THEN {k} ELSE {}
    BY <2>1
  <2> QED  BY <2>2, FS_Singleton, FS_EmptySet DEF Num
<1>3. /\ Num(ev, "started", f, m + 1, n - 1) = Num(ev, "ended", f, m + 1, n - 1)
      /\ Num(ev, "started", f, m + 1, n - 1) \in Nat
  <2>1. m + 1 \in Int /\ n - 1 \in Int  OBVIOUS
  <2> QED  BY <2>1, NumNat DEF Even
<1>4. /\ Num(ev, "started", f, m, m) = Num(ev, "ended", f, n, n)
      /\ Num(ev, "ended", f, m, m) = 0 /\ Num(ev, "started", f, n, n) = 0
      /\ Num(ev, "ended", f, n, n) \in Nat
  BY <1>2
<1> QED  BY <1>1, <1>3, <1>4

-----------------------------------------------------------------------------
\* What comes later does not matter.
LEMMA ClosingSame ==
  ASSUME NEW F, NEW ev, NEW ew, NEW n \in Nat,
         \A k \in 1 .. n : ev[k] = ew[k], Closing(F, ev, n)
  PROVE  Closing(F, ew, n)
<1>1. PICK m \in 1 .. n - 1 : /\ ev[m].sig = "started" /\ ev[m].list = ev[n].list
                              /\ Even(F, ev, m + 1, n - 1)
  BY DEF Closing
<1>2. m + 1 \in Int /\ n - 1 \in Int /\ m \in 1 .. n /\ n \in 1 .. n
  BY <1>1
<1>3. \A k \in m + 1 .. n - 1 : ev[k] = ew[k]  BY <1>1
<1>4. Even(F, ew, m + 1, n - 1)  BY <1>1, <1>2, <1>3, EvenSame
<1> QED  BY <1>1, <1>2, <1>4 DEF Closing

\* Signals that open and close nothing are added.
LEMMA NeutralAdded ==
  ASSUME NEW F, NEW ev \in Seq(Signal), NEW t \in Seq(Neutral(F)), NEW M,
         OpenAt(F, ev, M), Paired(F, ev)
  PROVE  OpenAt(F, ev \o t, M) /\ Paired(F, ev \o t)
<1> DEFINE ew == ev \o t
           L  == Len(ev)
<1>1. /\ L \in Nat /\ Len(t) \in Nat /\ Len(ew) = L + Len(t)
      /\ DOMAIN ew = 1 .. Len(ew) /\ DOMAIN ev = 1 .. L
      /\ \A k \in 1 .. L : ev[k] = ew[k]
      /\ \A k \in L + 1 .. Len(ew) : ew[k] \in Neutral(F)
  <2>1. t \in Seq(Signal)  BY DEF Neutral
  <2>2. L \in Nat /\ Len(t) \in Nat /\ DOMAIN ev = 1 .. L  OBVIOUS
  <2>3. /\ ew \in Seq(Signal) /\ Len(ew) = L + Len(t)
        /\ \A k \in 1 .. L + Len(t) : ew[k] = IF k <= L THEN ev[k] ELSE t[k - L]
    BY <2>1, ConcatProperties
  <2>4. \A k \in L + 1 .. L + Len(t) : t[k - L] \in Neutral(F)
    BY <2>2, ElementOfSeq
  <2> QED  BY <2>2, <2>3, <2>4
<1> HIDE DEF ew, L
<1>2. Even(F, ew, L + 1, Len(ew))  BY <1>1, EvenNeutral
<1>3. ASSUME NEW p \in M \cup {0}, NEW q \in M \cup {Len(ew) + 1}, p < q,
             \A x \in M : ~(p < x /\ x < q)
      PROVE  Even(F, ew, p + 1, q - 1)
  <2>1. M \subseteq 1 .. L  BY DEF OpenAt, L
  <2>2. p \in Nat /\ p <= L /\ q \in Nat  BY <1>1, <2>1
  <2>3. CASE q \in M
    <3>1. Even(F, ev, p + 1, q - 1)  BY <1>3, <2>3 DEF OpenAt
    <3>2. \A k \in p + 1 .. q - 1 : ev[k] = ew[k]  BY <1>1, <2>1, <2>2, <2>3
    <3>3. p + 1 \in Int /\ q - 1 \in Int  BY <2>2
    <3> QED  BY <3>1, <3>2, <3>3, EvenSame
  <2>4. CASE q \notin M
    <3>1. q = Len(ew) + 1 /\ \A x \in M : ~(p < x /\ x < L + 1)
      BY <1>1, <1>3, <2>1, <2>4
    <3>2. Even(F, ev, p + 1, (L + 1) - 1)
      <4>1. p \in M \cup {0} /\ p < L + 1  BY <1>1, <1>3, <2>2
      <4> QED  BY <3>1, <4>1 DEF OpenAt, L
    <3>3. (L + 1) - 1 = L /\ q - 1 = Len(ew) /\ p + 1 \in Int  BY <1>1, <2>2, <3>1
    <3>4. \A k \in p + 1 .. L : ev[k] = ew[k]  BY <1>1, <2>2
    <3>5. Even(F, ew, p + 1, L)  BY <1>1, <3>2, <3>3, <3>4, EvenSame
    <3> QED  BY <1>1, <1>2, <2>2, <3>3, <3>5, EvenJoins
  <2> QED  BY <2>3, <2>4
<1>4. M \subseteq 1 .. Len(ew)  BY <1>1 DEF OpenAt, L
<1>5. OpenAt(F, ew, M)  BY <1>3, <1>4 DEF OpenAt
<1>6. Paired(F, ew)
  <2> SUFFICES ASSUME NEW n \in 1 .. Len(ew), ew[n].sig = "ended", ew[n].list \in F
               PROVE  Closing(F, ew, n)
    BY <1>1 DEF Paired
  <2>1. n \in 1 .. L  BY <1>1 DEF Neutral
  <2>2. Closing(F, ev, n)  BY <1>1, <2>1 DEF Paired
  <2> QED  BY <1>1, <2>1, <2>2, ClosingSame
<1> QED  BY <1>5, <1>6 DEF ew

\* A playlist starts.
LEMMA StartAdded ==
  ASSUME NEW F, NEW ev \in Seq(Signal), NEW s \in Signal, s.sig = "started", NEW M,
         OpenAt(F, ev, M), Paired(F, ev)
  PROVE  OpenAt(F, Append(ev, s), M \cup {Len(ev) + 1}) /\ Paired(F, Append(ev, s))
<1> DEFINE ew == Append(ev, s)
           L  == Len(ev)
           N  == M \cup {L + 1}
<1>1. /\ L \in Nat /\ Len(ew) = L + 1 /\ DOMAIN ew = 1 .. L + 1 /\ DOMAIN ev = 1 .. L
      /\ \A k \in 1 .. L : ev[k] = ew[k]
      /\ ew[L + 1] = s
  OBVIOUS
<1> HIDE DEF ew, L
<1>2. M \subseteq 1 .. L  BY DEF OpenAt, L
<1>3. ASSUME NEW p \in N \cup {0}, NEW q \in N \cup {Len(ew) + 1}, p < q,
             \A x \in N : ~(p < x /\ x < q)
      PROVE  Even(F, ew, p + 1, q - 1)
  <2>1. p \in Nat /\ q \in Nat  BY <1>1, <1>2
  <2>2. CASE q = L + 2
    <3>1. p = L + 1  BY <1>1, <1>2, <1>3, <2>1, <2>2
    <3> QED  BY <1>1, <2>2, <3>1, EvenEmpty
  <2>3. CASE q # L + 2
    <3>1. q \in M \cup {L + 1} /\ p \in M \cup {0}  BY <1>1, <1>2, <1>3, <2>3
    <3>2. Even(F, ev, p + 1, q - 1)  BY <1>3, <3>1 DEF OpenAt, L
    <3>3. \A k \in p + 1 .. q - 1 : ev[k] = ew[k]  BY <1>1, <1>2, <2>1, <3>1
    <3>4. p + 1 \in Int /\ q - 1 \in Int  BY <2>1
    <3> QED  BY <3>2, <3>3, <3>4, EvenSame
  <2> QED  BY <2>2, <2>3
<1>4. N \subseteq 1 .. Len(ew)  BY <1>1, <1>2
<1>5. OpenAt(F, ew, N)  BY <1>3, <1>4 DEF OpenAt
<1>6. Paired(F, ew)
  <2> SUFFICES ASSUME NEW n \in 1 .. L + 1, ew[n].sig = "ended", ew[n].list \in F
               PROVE  Closing(F, ew, n)
    BY <1>1 DEF Paired
  <2>1. n \in 1 .. L  BY <1>1
  <2>2. Closing(F, ev, n)  BY <1>1, <2>1 DEF Paired
  <2> QED  BY <1>1, <2>1, <2>2, ClosingSame
<1> QED  BY <1>5, <1>6 DEF ew, L

\* The playlist that started last ends.
LEMMA EndAdded ==
  ASSUME NEW F, NEW ev \in Seq(Signal), NEW s \in Signal, s.sig = "ended", NEW M,
         NEW z \in M, \A x \in M : x <= z,
         ev[z].sig = "started", ev[z].list = s.list,
         OpenAt(F, ev, M), Paired(F, ev)
  PROVE  OpenAt(F, Append(ev, s), M \ {z}) /\ Paired(F, Append(ev, s))
<1> DEFINE ew == Append(ev, s)
           L  == Len(ev)
           N  == M \ {z}
<1>1. /\ L \in Nat /\ Len(ew) = L + 1 /\ DOMAIN ew = 1 .. L + 1 /\ DOMAIN ev = 1 .. L
      /\ \A k \in 1 .. L : ev[k] = ew[k]
      /\ ew[L + 1] = s
  OBVIOUS
<1> HIDE DEF ew, L
<1>2. M \subseteq 1 .. L /\ z \in 1 .. L  BY DEF OpenAt, L
<1>3. Even(F, ew, z + 1, L)
  <2>1. \A x \in M : ~(z < x /\ x < L + 1)  BY <1>1, <1>2
  <2>2. Even(F, ev, z + 1, (L + 1) - 1)  BY <1>1, <1>2, <2>1 DEF OpenAt, L
  <2>3. (L + 1) - 1 = L /\ z + 1 \in Int  BY <1>1, <1>2
  <2>4. \A k \in z + 1 .. L : ev[k] = ew[k]  BY <1>1, <1>2
  <2> QED  BY <1>1, <2>2, <2>3, <2>4, EvenSame
<1>4. Even(F, ew, z, L + 1)
  <2>1. (L + 1) - 1 = L /\ z \in Int /\ L + 1 \in Int /\ z < L + 1  BY <1>1, <1>2
  <2>2. ew[z].sig = "started" /\ ew[z].list = ew[L + 1].list /\ ew[L + 1].sig = "ended"
    BY <1>1, <1>2
  <2> QED  BY <1>3, <2>1, <2>2, EvenMatches
<1>5. ASSUME NEW p \in N \cup {0}, NEW q \in N \cup {Len(ew) + 1}, p < q,
             \A x \in N : ~(p < x /\ x < q)
      PROVE  Even(F, ew, p + 1, q - 1)
  <2>1. p \in Nat /\ q \in Nat /\ p < z  BY <1>1, <1>2
  <2>2. CASE q = L + 2
    <3>1. \A x \in M : ~(p < x /\ x < z)  BY <1>1, <1>2, <1>5, <2>1, <2>2
    <3>2. Even(F, ev, p + 1, z - 1)  BY <2>1, <3>1 DEF OpenAt
    <3>3. p + 1 \in Int /\ z - 1 \in Int /\ (z - 1) + 1 = z /\ p + 1 <= (z - 1) + 1
          /\ z - 1 <= L + 1 /\ q - 1 = L + 1 /\ L + 1 \in Int
      BY <1>1, <1>2, <2>1, <2>2
    <3>4. \A k \in p + 1 .. z - 1 : ev[k] = ew[k]  BY <1>1, <1>2, <2>1
    <3>5. Even(F, ew, p + 1, z - 1)  BY <3>2, <3>3, <3>4, EvenSame
    <3> QED  BY <1>4, <3>3, <3>5, EvenJoins
  <2>3. CASE q # L + 2
    <3>1. q \in M /\ q # z /\ q < z
      <4>1. q \in M /\ q # z  BY <1>1, <1>5, <2>3
      <4>2. q <= z  BY <4>1
      <4> QED  BY <1>2, <2>1, <4>1, <4>2
    <3>2. \A x \in M : ~(p < x /\ x < q)  BY <1>2, <1>5, <3>1
    <3>3. Even(F, ev, p + 1, q - 1)  BY <1>5, <3>1, <3>2 DEF OpenAt
    <3>4. \A k \in p + 1 .. q - 1 : ev[k] = ew[k]  BY <1>1, <1>2, <2>1, <3>1
    <3>5. p + 1 \in Int /\ q - 1 \in Int  BY <2>1
    <3> QED  BY <3>3, <3>4, <3>5, EvenSame
  <2> QED  BY <2>2, <2>3
<1>6. N \subseteq 1 .. Len(ew)  BY <1>1, <1>2
<1>7. OpenAt(F, ew, N)  BY <1>5, <1>6 DEF OpenAt
<1>8. Paired(F, ew)
  <2> SUFFICES ASSUME NEW n \in 1 .. L + 1, ew[n].sig = "ended", ew[n].list \in F
               PROVE  Closing(F, ew, n)
    BY <1>1 DEF Paired
  <2>1. CASE n \in 1 .. L
    <3>1. Closing(F, ev, n)  BY <1>1, <2>1 DEF Paired
    <3> QED  BY <1>1, <2>1, <3>1, ClosingSame
  <2>2. CASE n = L + 1
    <3>1. n - 1 = L /\ z \in 1 .. n - 1  BY <1>1, <1>2, <2>2
    <3> QED  BY <1>1, <1>2, <1>3, <2>2, <3>1 DEF Closing
  <2> QED  BY <1>1, <2>1, <2>2
<1> QED  BY <1>7, <1>8 DEF ew

-----------------------------------------------------------------------------
(***************************************************************************)
(* The open starts belong to the handlers that are running: mk[i] are the  *)
(* positions of those of frame i of the stack st.                          *)
(***************************************************************************)
Files == {f \in File : Pairs(f)}

\* Whether the handler announced its playlist, and how many repeats are open.
Own(frame) == IF EndsItself(frame.kind, frame.file) THEN 1 ELSE 0

DepthOf(frame) ==
  IF Pairs(frame.file)
  THEN Own(frame) + ItemsUpTo("open", BOOLEAN, frame.file, frame.pos - 1)
         - ItemsUpTo("close", {TRUE}, frame.file, frame.pos - 1)
  ELSE 0

All(mk) == UNION {mk[i] : i \in Nat}

Marked(ev, st, mk) ==
  /\ mk \in [Nat -> SUBSET (1 .. Len(ev))]
  /\ \A i \in Nat \ DOMAIN st : mk[i] = {}
  /\ \A i \in DOMAIN st :
       /\ Cardinality(mk[i]) = DepthOf(st[i])
       /\ \A m \in mk[i] : ev[m].sig = "started" /\ ev[m].list = st[i].file
  /\ \A i, j \in Nat : i < j => \A m \in mk[i], p \in mk[j] : m < p

Shows(ev, st) == \E mk : /\ Marked(ev, st, mk)
                         /\ OpenAt(Files, ev, All(mk))
                         /\ Paired(Files, ev)

\* A loop is at an item or behind the last, and waits at one that is nested.
InReach(i) ==
  LET items == docs[stack[i].file].items
  IN  /\ stack[i].pos <= Len(items) + 1
      /\ Waiting(i) => items[stack[i].pos].how \in {"nested", "link"}

\* What is inductive, given IInv.
SInv == Shows(events, stack) /\ \A i \in DOMAIN stack : InReach(i)

LEMMA ShowsSame ==
  ASSUME UNCHANGED inputs, NEW ev, NEW st
  PROVE  Shows(ev, st) => Shows(ev, st)'
<1>1. docs' = docs  BY DEF inputs
<1>2. \A f : Pairs(f)' <=> Pairs(f)  BY <1>1 DEF Pairs, Repeats, ItemsUpTo
<1>3. \A frame : DepthOf(frame)' = DepthOf(frame)
  BY <1>1, <1>2 DEF DepthOf, Own, EndsItself, ItemsUpTo
<1>4. Files' = Files  BY <1>2 DEF Files
<1> QED  BY <1>3, <1>4 DEF Shows, Marked

\* A frame's marks are as many as its depth.
LEMMA MarksFinite ==
  ASSUME NEW ev, NEW st, NEW mk, Marked(ev, st, mk), NEW i \in Nat
  PROVE  /\ IsFiniteSet(mk[i]) /\ Cardinality(mk[i]) \in Nat
         /\ Cardinality(mk[i]) = 0 <=> mk[i] = {}
<1>1. mk[i] \subseteq 1 .. Len(ev)  BY DEF Marked
<1>2. IsFiniteSet(mk[i])
  <2>1. CASE Len(ev) \in Int
    <3>1. IsFiniteSet(1 .. Len(ev))  BY <2>1, FS_Interval
    <3> QED  BY <1>1, <3>1, FS_Subset
  <2> QED  BY <2>1
<1> QED  BY <1>2, FS_CardinalityType, FS_EmptySet

\* Signals that open and close nothing; handlers that have nothing open start
\* and return.
LEMMA ShowsOn ==
  ASSUME NEW ev \in Seq(Signal), NEW st, NEW su, NEW t \in Seq(Neutral(Files)),
         DOMAIN st \subseteq Nat, DOMAIN su \subseteq Nat, Shows(ev, st),
         \A i \in DOMAIN su \cap DOMAIN st :
           su[i].file = st[i].file /\ DepthOf(su[i]) = DepthOf(st[i]),
         \A i \in DOMAIN su \ DOMAIN st : DepthOf(su[i]) = 0,
         \A i \in DOMAIN st \ DOMAIN su : DepthOf(st[i]) = 0
  PROVE  Shows(ev \o t, su)
<1>1. PICK mk : /\ Marked(ev, st, mk) /\ OpenAt(Files, ev, All(mk)) /\ Paired(Files, ev)
  BY DEF Shows
<1>2. OpenAt(Files, ev \o t, All(mk)) /\ Paired(Files, ev \o t)
  BY <1>1, NeutralAdded
<1>3. /\ Len(ev) \in Nat /\ Len(ev \o t) \in Nat /\ Len(ev) <= Len(ev \o t)
      /\ \A k \in 1 .. Len(ev) : (ev \o t)[k] = ev[k]
  <2>1. t \in Seq(Signal)  BY DEF Neutral
  <2> QED  BY <2>1, ConcatProperties
<1>4. \A i \in Nat : /\ Cardinality(mk[i]) = 0 <=> mk[i] = {}
                     /\ mk[i] \subseteq 1 .. Len(ev)
  <2> SUFFICES ASSUME NEW i \in Nat
               PROVE  /\ Cardinality(mk[i]) = 0 <=> mk[i] = {}
                      /\ mk[i] \subseteq 1 .. Len(ev)
    OBVIOUS
  <2>1. Cardinality(mk[i]) = 0 <=> mk[i] = {}  BY <1>1, MarksFinite
  <2> QED  BY <1>1, <2>1 DEF Marked
<1> DEFINE ew == ev \o t
<1>5. ew = ev \o t  OBVIOUS
<1> HIDE DEF ew
<1>6. mk \in [Nat -> SUBSET (1 .. Len(ew))]
  <2>1. 1 .. Len(ev) \subseteq 1 .. Len(ew)  BY <1>3, <1>5
  <2> QED  BY <1>1, <2>1 DEF Marked
<1>7. \A i \in Nat \ DOMAIN su : mk[i] = {}
  BY <1>1, <1>4 DEF Marked
<1>8. \A i \in DOMAIN su : Cardinality(mk[i]) = DepthOf(su[i])
  <2> SUFFICES ASSUME NEW i \in DOMAIN su PROVE Cardinality(mk[i]) = DepthOf(su[i])
    OBVIOUS
  <2>1. CASE i \in DOMAIN st  BY <1>1, <2>1 DEF Marked
  <2>2. CASE i \notin DOMAIN st  BY <1>1, <1>4, <2>2 DEF Marked
  <2> QED  BY <2>1, <2>2
<1>9. \A i \in DOMAIN su : \A m \in mk[i] :
        ew[m].sig = "started" /\ ew[m].list = su[i].file
  <2> SUFFICES ASSUME NEW i \in DOMAIN su, NEW m \in mk[i]
               PROVE  ew[m].sig = "started" /\ ew[m].list = su[i].file
    OBVIOUS
  <2>1. i \in DOMAIN st  BY <1>1 DEF Marked
  <2>2. ew[m] = ev[m]  BY <1>3, <1>4, <1>5
  <2> QED  BY <1>1, <2>1, <2>2 DEF Marked
<1>10. Marked(ew, su, mk)  BY <1>1, <1>6, <1>7, <1>8, <1>9 DEF Marked
<1> QED  BY <1>2, <1>5, <1>10 DEF Shows

\* The innermost handler, frame n of su, starts a playlist or a part of it.
LEMMA ShowsStart ==
  ASSUME NEW ev \in Seq(Signal), NEW st, NEW su, NEW n \in Nat, NEW s \in Signal,
         s.sig = "started", s.list = su[n].file,
         DOMAIN su = 1 .. n, n \in DOMAIN su, DOMAIN st \in {1 .. n, 1 .. n - 1},
         Shows(ev, st),
         \A i \in 1 .. n - 1 : su[i].file = st[i].file /\ DepthOf(su[i]) = DepthOf(st[i]),
         IF n \in DOMAIN st
         THEN su[n].file = st[n].file /\ DepthOf(su[n]) = DepthOf(st[n]) + 1
         ELSE DepthOf(su[n]) = 1
  PROVE  Shows(Append(ev, s), su)
<1>1. PICK mk : /\ Marked(ev, st, mk) /\ OpenAt(Files, ev, All(mk)) /\ Paired(Files, ev)
  BY DEF Shows
<1> DEFINE ew == Append(ev, s)
           L  == Len(ev)
           ml == [mk EXCEPT ![n] = mk[n] \cup {L + 1}]
<1>2. /\ L \in Nat /\ Len(ew) = L + 1 /\ ew[L + 1] = s
      /\ \A k \in 1 .. L : ew[k] = ev[k]
  OBVIOUS
<1>3. OpenAt(Files, ew, All(mk) \cup {L + 1}) /\ Paired(Files, ew)
  BY <1>1, StartAdded
<1> HIDE DEF ew, L
<1>4. /\ mk \in [Nat -> SUBSET (1 .. L)]
      /\ \A i \in Nat \ DOMAIN st : mk[i] = {}
      /\ \A i \in DOMAIN st : Cardinality(mk[i]) = DepthOf(st[i])
      /\ \A i \in DOMAIN st : \A m \in mk[i] : ev[m].sig = "started" /\ ev[m].list = st[i].file
      /\ \A i, j \in Nat : i < j => \A m \in mk[i], p \in mk[j] : m < p
  BY <1>1 DEF Marked, L
<1>5. /\ DOMAIN ml = Nat /\ ml[n] = mk[n] \cup {L + 1}
      /\ \A i \in Nat : i # n => ml[i] = mk[i]
  BY <1>4
<1> HIDE DEF ml
<1>6. ml \in [Nat -> SUBSET (1 .. Len(ew))]
  <2>1. \A i \in Nat : mk[i] \subseteq 1 .. Len(ew)  BY <1>2, <1>4
  <2>2. L + 1 \in 1 .. Len(ew)  BY <1>2
  <2>3. \A i \in Nat : ml[i] \subseteq 1 .. Len(ew)  BY <1>5, <2>1, <2>2
  <2>4. ml = [i \in Nat |-> ml[i]]  BY <1>4 DEF ml
  <2> QED  BY <2>3, <2>4
<1>7. \A i \in Nat \ DOMAIN su : ml[i] = {}  BY <1>4, <1>5
<1>8. \A i \in DOMAIN su : Cardinality(ml[i]) = DepthOf(su[i])
  <2> SUFFICES ASSUME NEW i \in DOMAIN su PROVE Cardinality(ml[i]) = DepthOf(su[i])
    OBVIOUS
  <2>1. CASE i # n
    <3>1. i \in 1 .. n - 1 /\ i \in DOMAIN st  BY <2>1
    <3> QED  BY <1>4, <1>5, <2>1, <3>1
  <2>2. CASE i = n
    <3>1. IsFiniteSet(mk[n]) /\ Cardinality(mk[n]) \in Nat
      BY <1>1, MarksFinite
    <3>2. L + 1 \notin mk[n]  BY <1>2, <1>4
    <3>3. Cardinality(ml[n]) = Cardinality(mk[n]) + 1
      BY <1>5, <3>1, <3>2, FS_AddElement
    <3>4. CASE n \in DOMAIN st  BY <1>4, <2>2, <3>3, <3>4
    <3>5. CASE n \notin DOMAIN st
      <4>1. Cardinality(mk[n]) = 0  BY <1>4, <3>5, FS_EmptySet
      <4> QED  BY <2>2, <3>3, <3>5, <4>1
    <3> QED  BY <3>4, <3>5
  <2> QED  BY <2>1, <2>2
<1>9. \A i \in DOMAIN su : \A m \in ml[i] :
        ew[m].sig = "started" /\ ew[m].list = su[i].file
  <2> SUFFICES ASSUME NEW i \in DOMAIN su, NEW m \in ml[i]
               PROVE  ew[m].sig = "started" /\ ew[m].list = su[i].file
    OBVIOUS
  <2>1. CASE i = n /\ m = L + 1  BY <1>2, <2>1
  <2>2. CASE ~(i = n /\ m = L + 1)
    <3>1. m \in mk[i]  BY <1>5, <2>2
    <3>2. i \in DOMAIN st /\ su[i].file = st[i].file
      <4>1. i \in DOMAIN st  BY <1>4, <3>1
      <4>2. i = n \/ i \in 1 .. n - 1  OBVIOUS
      <4> QED  BY <4>1, <4>2
    <3>3. ew[m] = ev[m]  BY <1>2, <1>4, <3>1
    <3> QED  BY <1>4, <3>1, <3>2, <3>3
  <2> QED  BY <2>1, <2>2
<1>10. ASSUME NEW i \in Nat, NEW j \in Nat, i < j, NEW m \in ml[i], NEW p \in ml[j]
       PROVE  m < p
  <2>1. i # n
    <3>1. CASE i = n
      <4>1. j \notin DOMAIN st /\ j # n  BY <1>10, <3>1
      <4> QED  BY <1>4, <1>5, <1>10, <4>1
    <3> QED  BY <3>1
  <2>2. m \in mk[i]  BY <1>5, <2>1
  <2>3. m \in 1 .. L  BY <1>4, <2>2
  <2>4. CASE p \in mk[j]  BY <1>4, <1>10, <2>2, <2>4
  <2>5. CASE p \notin mk[j]
    <3>1. p = L + 1  BY <1>5, <2>5
    <3> QED  BY <1>2, <2>3, <3>1
  <2> QED  BY <2>4, <2>5
<1>11. Marked(ew, su, ml)  BY <1>6, <1>7, <1>8, <1>9, <1>10 DEF Marked
<1>12. All(ml) = All(mk) \cup {L + 1}
  <2>1. All(ml) \subseteq All(mk) \cup {L + 1}  BY <1>5 DEF All
  <2>2. All(mk) \subseteq All(ml)  BY <1>5 DEF All
  <2>3. L + 1 \in All(ml)  BY <1>5 DEF All
  <2> QED  BY <2>1, <2>2, <2>3
<1> QED  BY <1>3, <1>11, <1>12 DEF Shows, ew

\* A set of positions that is not empty has a last one.
LEMMA GreatestIn ==
  ASSUME NEW L \in Nat, NEW S, S # {}, S \subseteq 1 .. L
  PROVE  \E z \in S : \A x \in S : x <= z
<1> DEFINE R == OpToRel(<, Nat)
           D == {L - x : x \in S}
<1>1. \A x \in S : L - x \in Nat  OBVIOUS
<1>2. D # {} /\ D \subseteq Nat  BY <1>1
<1>3. IsWellFoundedOn(R, Nat)  BY NatLessThanWellFounded, Zenon
<1>4. \A x, y \in Nat : <<x, y>> \in R <=> x < y  BY DEF OpToRel
<1> HIDE DEF R, D
<1>5. PICK d \in D : \A e \in D : ~(<<e, d>> \in R)  BY <1>2, <1>3, WFMin
<1>6. PICK z \in S : d = L - z  BY DEF D
<1>7. \A x \in S : ~(L - x < L - z)
  <2>1. \A x \in S : L - x \in D  BY DEF D
  <2> QED  BY <1>1, <1>4, <1>5, <1>6, <2>1
<1>8. \A x \in S : x <= z  BY <1>7
<1> QED  BY <1>8

\* The innermost handler, frame n of st, ends a playlist or a part of it, and
\* may return.
LEMMA ShowsEnd ==
  ASSUME NEW ev \in Seq(Signal), NEW st, NEW su, NEW n \in Nat, NEW s \in Signal,
         s.sig = "ended", s.list = st[n].file,
         DOMAIN st = 1 .. n, n \in DOMAIN st, DOMAIN su \in {1 .. n, 1 .. n - 1},
         Shows(ev, st), DepthOf(st[n]) >= 1,
         \A i \in 1 .. n - 1 : su[i].file = st[i].file /\ DepthOf(su[i]) = DepthOf(st[i]),
         IF n \in DOMAIN su
         THEN su[n].file = st[n].file /\ DepthOf(su[n]) = DepthOf(st[n]) - 1
         ELSE DepthOf(st[n]) = 1
  PROVE  Shows(Append(ev, s), su)
<1>1. PICK mk : /\ Marked(ev, st, mk) /\ OpenAt(Files, ev, All(mk)) /\ Paired(Files, ev)
  BY DEF Shows
<1> DEFINE ew == Append(ev, s)
           L  == Len(ev)
<1>2. /\ L \in Nat /\ Len(ew) = L + 1 /\ ew[L + 1] = s
      /\ \A k \in 1 .. L : ew[k] = ev[k]
  OBVIOUS
<1> HIDE DEF L
<1>4. /\ mk \in [Nat -> SUBSET (1 .. L)]
      /\ \A i \in Nat \ DOMAIN st : mk[i] = {}
      /\ \A i \in DOMAIN st : Cardinality(mk[i]) = DepthOf(st[i])
      /\ \A i \in DOMAIN st : \A m \in mk[i] : ev[m].sig = "started" /\ ev[m].list = st[i].file
      /\ \A i, j \in Nat : i < j => \A m \in mk[i], p \in mk[j] : m < p
  BY <1>1 DEF Marked, L
<1>5. PICK z \in mk[n] : \A x \in mk[n] : x <= z
  <2>1. IsFiniteSet(mk[n]) /\ Cardinality(mk[n]) >= 1  BY <1>1, <1>4, MarksFinite
  <2>2. mk[n] # {} /\ mk[n] \subseteq 1 .. L  BY <1>4, <2>1, FS_EmptySet
  <2> QED  BY <1>2, <2>2, GreatestIn
<1>6. z \in All(mk) /\ \A x \in All(mk) : x <= z
  <2>1. z \in All(mk)  BY DEF All
  <2>2. ASSUME NEW i \in Nat, NEW x \in mk[i] PROVE x <= z
    <3>1. CASE i = n  BY <1>5, <3>1
    <3>2. CASE i > n  BY <1>4, <3>2
    <3>3. CASE i < n
      <4>1. x < z /\ x \in Int /\ z \in Int  BY <1>4, <3>3
      <4> QED  BY <4>1
    <3> QED  BY <3>1, <3>2, <3>3
  <2> QED  BY <2>1, <2>2 DEF All
<1>3. OpenAt(Files, ew, All(mk) \ {z}) /\ Paired(Files, ew)
  <2>1. ev[z].sig = "started" /\ ev[z].list = s.list  BY <1>4
  <2> QED  BY <1>1, <1>6, <2>1, EndAdded
<1> DEFINE ml == [mk EXCEPT ![n] = mk[n] \ {z}]
<1>7. /\ DOMAIN ml = Nat /\ ml[n] = mk[n] \ {z}
      /\ \A i \in Nat : i # n => ml[i] = mk[i]
      /\ \A i \in Nat : ml[i] \subseteq mk[i]
  BY <1>4
<1>8. ml = [i \in Nat |-> ml[i]]  BY <1>4
<1> HIDE DEF ml, ew
<1>9. ml \in [Nat -> SUBSET (1 .. Len(ew))]
  <2>1. \A i \in Nat : ml[i] \subseteq 1 .. Len(ew)  BY <1>2, <1>4, <1>7
  <2> QED  BY <1>8, <2>1
<1>10. Cardinality(ml[n]) = Cardinality(mk[n]) - 1 /\ IsFiniteSet(ml[n])
  <2>1. IsFiniteSet(mk[n]) /\ z \in mk[n] /\ n \in Nat
    BY <1>1, <1>5, MarksFinite
  <2>2. ml[n] = mk[n] \ {z}  BY <1>7
  <2> QED  BY <2>1, <2>2, FS_RemoveElement
<1>11. \A i \in Nat \ DOMAIN su : ml[i] = {}
  <2> SUFFICES ASSUME NEW i \in Nat \ DOMAIN su PROVE ml[i] = {}
    OBVIOUS
  <2>1. CASE i = n
    <3>1. Cardinality(ml[n]) = 0
      <4>1. DepthOf(st[n]) = 1  BY <2>1
      <4>2. Cardinality(mk[n]) = 1  BY <1>4, <4>1
      <4> QED  BY <1>10, <4>2
    <3> QED  BY <1>10, <2>1, <3>1, FS_EmptySet
  <2>2. CASE i # n
    <3>1. i \notin DOMAIN st  BY <2>2
    <3> QED  BY <1>4, <1>7, <2>2, <3>1
  <2> QED  BY <2>1, <2>2
<1>12. \A i \in DOMAIN su : Cardinality(ml[i]) = DepthOf(su[i])
  <2> SUFFICES ASSUME NEW i \in DOMAIN su PROVE Cardinality(ml[i]) = DepthOf(su[i])
    OBVIOUS
  <2>1. CASE i # n
    <3>1. i \in 1 .. n - 1 /\ i \in DOMAIN st /\ i \in Nat  BY <2>1
    <3> QED  BY <1>4, <1>7, <2>1, <3>1
  <2>2. CASE i = n  BY <1>4, <1>10, <2>2
  <2> QED  BY <2>1, <2>2
<1>13. \A i \in DOMAIN su : \A m \in ml[i] :
         ew[m].sig = "started" /\ ew[m].list = su[i].file
  <2> SUFFICES ASSUME NEW i \in DOMAIN su, NEW m \in ml[i]
               PROVE  ew[m].sig = "started" /\ ew[m].list = su[i].file
    OBVIOUS
  <2>1. i \in DOMAIN st /\ i \in Nat /\ (i = n \/ i \in 1 .. n - 1)  OBVIOUS
  <2>2. su[i].file = st[i].file  BY <2>1
  <2>3. m \in mk[i]  BY <1>7, <2>1
  <2>4. ew[m] = ev[m]  BY <1>2, <1>4, <2>1, <2>3
  <2> QED  BY <1>4, <2>1, <2>2, <2>3, <2>4
<1>14. \A i, j \in Nat : i < j => \A m \in ml[i], p \in ml[j] : m < p
  BY <1>4, <1>7
<1>15. Marked(ew, su, ml)  BY <1>9, <1>11, <1>12, <1>13, <1>14 DEF Marked
<1>16. All(ml) = All(mk) \ {z}
  <2>1. z \notin All(ml)
    <3> SUFFICES ASSUME NEW i \in Nat, z \in ml[i] PROVE FALSE
      BY DEF All
    <3>1. i # n /\ z \in mk[i]  BY <1>7
    <3>2. i < n \/ n < i  BY <3>1
    <3>3. z < z  BY <1>4, <3>1, <3>2
    <3>4. z \in Int  BY <1>4
    <3> QED  BY <3>3, <3>4
  <2>2. All(ml) \subseteq All(mk)  BY <1>7 DEF All
  <2>3. All(mk) \ {z} \subseteq All(ml)  BY <1>7 DEF All
  <2> QED  BY <2>1, <2>2, <2>3
<1> QED  BY <1>3, <1>15, <1>16 DEF Shows, ew

-----------------------------------------------------------------------------
\* A handler that returns at once starts and ends its playlist or does neither;
\* one that loops starts it if it is going to end it.
Whole(f, sigs) ==
  \E body \in Seq(Neutral(Files)), uri \in File \cup {TitleText} :
    sigs = (<<Started(f)>> \o body) \o <<Ended(uri, f)>>

Announces(f, out) ==
  IF out.kind = "none" THEN out.sigs \in Seq(Neutral(Files)) \/ Whole(f, out.sigs)
  ELSE out.sigs = IF EndsItself(out.kind, f) THEN <<Started(f)>> ELSE <<>>

LEMMA EntriesNeutral ==
  ASSUME docs \in [File -> Document], NEW f \in File
  PROVE  /\ <<>> \in Seq(Neutral(Files)) /\ Itself(f) \in Seq(Neutral(Files))
         /\ Entries(f) \in Seq(Neutral(Files))
         /\ docs[f].items # <<>> =>
              SubSeq(Entries(f), 1, Len(docs[f].items) - 1) \in Seq(Neutral(Files))
<1>1. Entries(f) \in Seq(Signal) /\ Len(Entries(f)) = Len(docs[f].items)
  BY EntriesTyped
<1>2. docs[f].items \in Seq(Item)  BY DocumentTyped
<1>3. ASSUME NEW i \in 1 .. Len(Entries(f)) PROVE Entries(f)[i] \in Neutral(Files)
  <2>1. Entries(f)[i] \in Signal  BY <1>1
  <2>2. Entries(f)[i].sig = "entry"  BY <1>1 DEF Entries, Entry
  <2> QED  BY <2>1, <2>2 DEF Neutral
<1>4. Entries(f) \in Seq(Neutral(Files))  BY <1>1, <1>3
<1>5. Entry(f, 0, f, 0) \in Neutral(Files)
  <2>1. Entry(f, 0, f, 0) \in Signal  BY SignalTyped
  <2> QED  BY <2>1 DEF Neutral, Entry
<1>6. ASSUME docs[f].items # <<>>
      PROVE  SubSeq(Entries(f), 1, Len(docs[f].items) - 1) \in Seq(Neutral(Files))
  <2>1. Len(docs[f].items) - 1 \in 0 .. Len(Entries(f))  BY <1>1, <1>2, <1>6
  <2> QED  BY <1>4, <2>1
<1> QED  BY <1>4, <1>5, <1>6 DEF Itself

LEMMA CallAnnounces ==
  ASSUME docs \in [File -> Document], NEW f \in Files, NEW data \in BOOLEAN, NEW h
  PROVE  /\ Announces(f, Call(h, f, data))
         /\ AddFeed(f).sigs \in Seq(Neutral(Files)) \/ Whole(f, AddFeed(f).sigs)
<1> DEFINE Q == Seq(Neutral(Files))
           S == <<Started(f)>>
           B == SubSeq(Entries(f), 1, Len(docs[f].items) - 1)
           O(out) == Announces(f, out)
<1>0. f \in File /\ Pairs(f)  BY DEF Files
<1>1. /\ <<>> \in Q /\ Itself(f) \in Q /\ Entries(f) \in Q
      /\ docs[f].items # <<>> => B \in Q
  BY <1>0, EntriesNeutral
<1>2. \A body \in Q, uri \in File \cup {TitleText} :
        Whole(f, (S \o body) \o <<Ended(uri, f)>>)
  BY DEF Whole
<1>3. docs[f].heads \in {0, 1} /\ docs[f].form # "opml"
      /\ (docs[f].form = "atom" => docs[f].items # <<>>)
      /\ (docs[f].form = "asx" /\ docs[f].heads = 1 => docs[f].named)
  BY <1>0, DocumentTyped DEF Pairs
<1>4. f \in File \cup {TitleText} /\ TitleText \in File \cup {TitleText}  BY <1>0
<1>5. \A r : O(GivesUp(r)) /\ GivesUp(r).kind = "none" /\ GivesUp(r).sigs \in Q
  BY <1>1 DEF Announces, GivesUp, Emits
<1>6. ASSUME NEW s, NEW r, s \in Q \/ Whole(f, s)
      PROVE  O(Emits(s, r)) /\ Emits(s, r).sigs = s
  BY <1>6 DEF Announces, Emits
<1>7. \A k \in {"m3u", "ram", "desktop", "directory"} : O(Loops(k, <<>>))
  BY DEF Announces, Loops, EndsItself
<1>8. \A k \in {"pls", "asx"} :
        /\ (docs[f].heads > 0 /\ (k = "asx" => docs[f].named)) => O(Loops(k, S))
        /\ docs[f].heads = 0 => O(Loops(k, <<>>))
  BY DEF Announces, Loops, EndsItself
<1> HIDE DEF Q, O, B
<1>9. O(AddPlsWithContents(f))
  BY <1>3, <1>5, <1>8 DEF AddPlsWithContents
<1>10. O(AddPls(f)) /\ O(AddM3u(f)) /\ O(AddRam(f))
  BY <1>5, <1>7, <1>9 DEF AddPls, AddM3u, AddRam
<1>11. O(AddRa(f, data))
  BY <1>1, <1>6, <1>10 DEF AddRa
<1>12. O(AddAsx(f, data))
  <2> DEFINE N == [i \in 1 .. docs[f].heads |-> Started(f)]
  <2>1. docs[f].heads = 0 => N = <<>>  OBVIOUS
  <2>2. docs[f].heads = 1 => N = S  OBVIOUS
  <2>3. docs[f].form = "asx" => O(Loops("asx", N))  BY <1>3, <1>8, <2>1, <2>2
  <2> HIDE DEF N
  <2> QED  BY <1>5, <1>10, <2>3 DEF AddAsx, N
<1>13. O(AddAsf(f, data))  BY <1>1, <1>5, <1>6, <1>12 DEF AddAsf
<1>14. Whole(f, (S \o Entries(f)) \o <<Ended(f, f)>>)  BY <1>1, <1>2, <1>4
<1>15. O(AddRss(f)) /\ (AddRss(f).sigs \in Q \/ Whole(f, AddRss(f).sigs))
  BY <1>5, <1>6, <1>14 DEF AddRss
<1>16. O(AddAtom(f))  BY <1>3, <1>5, <1>6, <1>14 DEF AddAtom
<1>17. O(AddXmlFeed(f, data))
  BY <1>3, <1>5, <1>15, <1>16 DEF AddXmlFeed
<1>18. O(AddOpml(f))  BY <1>3, <1>5 DEF AddOpml
<1>19. O(AddPla(f))
  <2> DEFINE bad  == docs[f].items # <<>> /\ docs[f].items[Len(docs[f].items)].how = "bad"
             body == IF bad THEN B ELSE Entries(f)
             sigs == ((IF docs[f].heads > 0 THEN S ELSE <<>>) \o body)
                       \o (IF docs[f].heads > 0 THEN <<Ended(TitleText, f)>> ELSE <<>>)
             r    == IF bad THEN "ERROR" ELSE "UNHANDLED"
  <2>1. body \in Q  BY <1>1
  <2>2. AddPla(f) = IF ~docs[f].readable \/ docs[f].form # "pla" THEN GivesUp("ERROR")
                    ELSE Emits(sigs, r)
    BY DEF AddPla, B
  <2> HIDE DEF body, r
  <2>3. sigs \in Q \/ Whole(f, sigs)
    <3>1. CASE docs[f].heads > 0
      <4>1. Whole(f, (S \o body) \o <<Ended(TitleText, f)>>)  BY <1>2, <1>4, <2>1
      <4> QED  BY <3>1, <4>1
    <3>2. CASE ~(docs[f].heads > 0)
      <4>1. (<<>> \o body) \o <<>> \in Q  BY <1>1, <2>1, SaysConcat DEF Q
      <4> QED  BY <3>2, <4>1
    <3> QED  BY <3>1, <3>2
  <2> HIDE DEF sigs
  <2> QED  BY <1>5, <1>6, <2>2, <2>3
<1>20. O(AddXspf(f)) /\ O(AddSmil(f)) /\ O(AddGvp(f)) /\ O(AddQuicktime(f, data))
  BY <1>1, <1>5, <1>6 DEF AddXspf, AddSmil, AddGvp, AddQuicktime
<1>21. O(AddDesktop(f)) /\ O(AddIso(f)) /\ O(AddCue(f)) /\ O(AddBlock(f))
       /\ O(AddDirectory(f))
  BY <1>1, <1>5, <1>6, <1>7 DEF AddDesktop, AddIso, AddCue, AddBlock, AddDirectory
<1>22. O(Call(h, f, data))
  BY <1>5, <1>10, <1>11, <1>12, <1>13, <1>15, <1>16, <1>17, <1>18, <1>19, <1>20, <1>21
  DEF Call
<1>23. AddFeed(f).sigs \in Q \/ Whole(f, AddFeed(f).sigs)
  BY <1>5, <1>15 DEF AddFeed
<1> QED  BY <1>22, <1>23 DEF O, Q

\* What is said about a playlist outside of F opens and closes nothing.
LEMMA SaysNeutral ==
  ASSUME docs \in [File -> Document], NEW f \in File, f \notin Files
  PROVE  Seq(Says(f)) \subseteq Seq(Neutral(Files))
<1>1. ASSUME NEW s \in Says(f) PROVE s \in Neutral(Files)
  <2>1. f \in File \cup {TitleText} /\ TitleText \in File \cup {TitleText}
    OBVIOUS
  <2>2. CASE s \in {Started(f), Ended(f, f), Ended(TitleText, f), Entry(f, 0, f, 0)}
    <3>1. s \in Signal  BY <2>1, <2>2, SignalTyped
    <3>2. s.list = f  BY <2>2 DEF Started, Ended, Entry
    <3> QED  BY <3>1, <3>2 DEF Neutral
  <2>3. CASE \E i \in 1 .. Len(docs[f].items) : s = Entries(f)[i]
    <3>1. Entries(f) \in Seq(Neutral(Files)) /\ Len(Entries(f)) = Len(docs[f].items)
      BY EntriesNeutral, EntriesTyped
    <3> QED  BY <2>3, <3>1
  <2> QED  BY <2>2, <2>3 DEF Says
<1> QED  BY <1>1

\* A handler that starts and ends its playlist at once leaves all as it was.
LEMMA ShowsWhole ==
  ASSUME NEW ev \in Seq(Signal), NEW st, DOMAIN st \subseteq Nat,
         NEW f \in Files, NEW sigs, Whole(f, sigs), Shows(ev, st)
  PROVE  Shows(ev \o sigs, st) /\ sigs \in Seq(Signal)
<1>1. PICK mk : /\ Marked(ev, st, mk) /\ OpenAt(Files, ev, All(mk)) /\ Paired(Files, ev)
  BY DEF Shows
<1>2. PICK body \in Seq(Neutral(Files)), uri \in File \cup {TitleText} :
        sigs = (<<Started(f)>> \o body) \o <<Ended(uri, f)>>
  BY DEF Whole
<1> DEFINE s  == Started(f)
           e  == Ended(uri, f)
           M  == All(mk)
           L  == Len(ev)
           e1 == Append(ev, s)
           e2 == e1 \o body
           e3 == Append(e2, e)
<1>3. /\ s \in Signal /\ s.sig = "started" /\ s.list = f
      /\ e \in Signal /\ e.sig = "ended" /\ e.list = f
  <2>1. f \in File /\ 0 \in Nat  BY DEF Files
  <2>2. s \in Signal /\ e \in Signal  BY <2>1, SignalTyped
  <2> QED  BY <2>2 DEF Started, Ended
<1>4. body \in Seq(Signal)  BY DEF Neutral
<1> HIDE DEF s, e, M
<1>5. OpenAt(Files, e1, M \cup {L + 1}) /\ Paired(Files, e1)
  BY <1>1, <1>3, StartAdded DEF M
<1>6. e1 \in Seq(Signal) /\ Len(e1) = L + 1 /\ e1[L + 1] = s /\ L \in Nat
      /\ \A k \in 1 .. L : e1[k] = ev[k]
  BY <1>3
<1> HIDE DEF e1
<1>7. OpenAt(Files, e2, M \cup {L + 1}) /\ Paired(Files, e2)
  BY <1>5, <1>6, NeutralAdded
<1>8. /\ e2 \in Seq(Signal) /\ Len(e2) = Len(e1) + Len(body) /\ Len(body) \in Nat
      /\ \A k \in 1 .. L + 1 : e2[k] = e1[k]
  <2>1. Len(body) \in Nat  BY <1>4
  <2>2. /\ e2 \in Seq(Signal) /\ Len(e2) = Len(e1) + Len(body)
        /\ \A k \in 1 .. Len(e1) + Len(body) :
             e2[k] = IF k <= Len(e1) THEN e1[k] ELSE body[k - Len(e1)]
    BY <1>4, <1>6, ConcatProperties
  <2> HIDE DEF e2
  <2>3. \A k \in 1 .. L + 1 : k \in 1 .. Len(e1) + Len(body) /\ k <= Len(e1)
    BY <1>6, <2>1
  <2> QED  BY <2>1, <2>2, <2>3
<1> HIDE DEF e2
<1>9. M \subseteq 1 .. L  BY <1>1 DEF OpenAt, M, L
<1>10. OpenAt(Files, e3, M) /\ Paired(Files, e3)
  <2>1. \A x \in M \cup {L + 1} : x <= L + 1  BY <1>6, <1>9
  <2>2. e2[L + 1] = s  BY <1>6, <1>8
  <2>3. (M \cup {L + 1}) \ {L + 1} = M  BY <1>6, <1>9
  <2>4. OpenAt(Files, e3, (M \cup {L + 1}) \ {L + 1}) /\ Paired(Files, e3)
    BY <1>3, <1>7, <1>8, <2>1, <2>2, EndAdded
  <2> QED  BY <2>3, <2>4
<1>11. /\ e3 \in Seq(Signal) /\ Len(e3) = Len(e2) + 1 /\ Len(e3) >= L
       /\ \A k \in 1 .. L : e3[k] = ev[k]
  <2>1. /\ e3 \in Seq(Signal) /\ Len(e3) = Len(e2) + 1
        /\ \A k \in 1 .. Len(e2) : e3[k] = e2[k]
    BY <1>3, <1>8
  <2> HIDE DEF e3
  <2>2. Len(e2) >= L + 1  BY <1>6, <1>8
  <2>3. \A k \in 1 .. L : k \in 1 .. Len(e2) /\ k \in 1 .. L + 1
    BY <1>6, <1>8, <2>2
  <2> QED  BY <1>6, <1>8, <2>1, <2>2, <2>3
<1> HIDE DEF e3
<1>12. Marked(e3, st, mk)
  <2>1. mk \in [Nat -> SUBSET (1 .. L)]  BY <1>1 DEF Marked, L
  <2>2. 1 .. L \subseteq 1 .. Len(e3)  BY <1>6, <1>8, <1>11
  <2>3. mk \in [Nat -> SUBSET (1 .. Len(e3))]  BY <2>1, <2>2
  <2>4. ASSUME NEW i \in DOMAIN st, NEW m \in mk[i] PROVE e3[m] = ev[m]
    <3>1. i \in Nat  OBVIOUS
    <3> QED  BY <1>11, <2>1, <2>4, <3>1
  <2> QED  BY <1>1, <2>3, <2>4 DEF Marked
<1>13. ev \o sigs = e3 /\ sigs \in Seq(Signal)
  <2>1. <<s>> \in Seq(Signal) /\ <<e>> \in Seq(Signal)  BY <1>3
  <2>2. <<s>> \o body \in Seq(Signal)  BY <1>4, <2>1, ConcatTyped
  <2>3. sigs \in Seq(Signal)  BY <1>2, <2>1, <2>2, ConcatTyped DEF s, e
  <2>4. ev \o sigs = (ev \o (<<s>> \o body)) \o <<e>>
    BY <1>2, <2>1, <2>2, ConcatAssociative DEF s, e
  <2>5. ev \o (<<s>> \o body) = (ev \o <<s>>) \o body
    BY <1>4, <2>1, ConcatAssociative
  <2>6. ev \o <<s>> = e1  BY <1>3 DEF e1
  <2>7. e2 \o <<e>> = e3  BY <1>3, <1>8 DEF e3
  <2> QED  BY <2>3, <2>4, <2>5, <2>6, <2>7 DEF e2
<1> QED  BY <1>10, <1>12, <1>13 DEF Shows, M

\* Nothing changes but the signals that open and close nothing.
LEMMA ShowsMore ==
  ASSUME NEW ev \in Seq(Signal), NEW st, NEW t \in Seq(Neutral(Files)),
         DOMAIN st \subseteq Nat, Shows(ev, st)
  PROVE  Shows(ev \o t, st) /\ ev \o t \in Seq(Signal)
<1>1. Shows(ev \o t, st)  BY ShowsOn
<1>2. t \in Seq(Signal)  BY DEF Neutral
<1> QED  BY <1>1, <1>2, ConcatTyped

LEMMA StackDomain ==
  ASSUME TypeOK
  PROVE  Len(stack) \in Nat /\ DOMAIN stack = 1 .. Len(stack) /\ DOMAIN stack \subseteq Nat
BY DEF TypeOK

\* No handler is called, or one runs to the end.
LEMMA EpilogueShows ==
  ASSUME TypeOK, SInv, pc = "enter", NEW sigs, NEW r, NEW m,
         sigs \in Seq(Neutral(Files)) \/ (callee \in Files /\ Whole(callee, sigs)),
         Epilogue(sigs, r, m), UNCHANGED <<inputs, stack>>
  PROVE  SInv'
<1> DEFINE report == r # "SUCCESS" /\ ~(r # "SUCCESS" /\ m \in IgnoreTypes) /\ fallback
           own    == IF report THEN Itself(callee) ELSE <<>>
<1>1. events' = (events \o sigs) \o own /\ pc' = "return"  BY DEF Epilogue
<1>2. own \in Seq(Neutral(Files))  BY EntriesNeutral DEF TypeOK
<1> HIDE DEF own
<1>3. Shows(events \o sigs, stack) /\ events \o sigs \in Seq(Signal)
  <2>1. events \in Seq(Signal) /\ Shows(events, stack)  BY DEF TypeOK, SInv
  <2>2. CASE sigs \in Seq(Neutral(Files))  BY <2>1, <2>2, StackDomain, ShowsMore
  <2>3. CASE callee \in Files /\ Whole(callee, sigs)
    BY <2>1, <2>3, StackDomain, ShowsWhole, ConcatTyped
  <2> QED  BY <2>2, <2>3
<1>4. Shows(events', stack)  BY <1>1, <1>2, <1>3, StackDomain, ShowsMore
<1>5. Shows(events, stack)'  BY <1>4, ShowsSame
<1>6. (\A i \in DOMAIN stack : InReach(i))'
  BY <1>1 DEF SInv, InReach, Waiting, inputs
<1> QED  BY <1>5, <1>6 DEF SInv

-----------------------------------------------------------------------------
\* Items are counted one by one.
Is(how, titles, item) == item.how = how /\ item.titled \in titles

LEMMA ItemsCounted ==
  ASSUME NEW how, NEW titles, NEW f, NEW n \in Nat
  PROVE  /\ ItemsUpTo(how, titles, f, n) \in Nat
         /\ ItemsUpTo(how, titles, f, 0) = 0
         /\ ItemsUpTo(how, titles, f, n + 1) = ItemsUpTo(how, titles, f, n)
              + (IF Is(how, titles, docs[f].items[n + 1]) THEN 1 ELSE 0)
         /\ \A m \in 0 .. n : ItemsUpTo(how, titles, f, m) <= ItemsUpTo(how, titles, f, n)
         /\ \A k \in 1 .. n : Is(how, titles, docs[f].items[k])
                              => ItemsUpTo(how, titles, f, n) >= 1
<1> DEFINE K(m) == {k \in 1 .. m : Is(how, titles, docs[f].items[k])}
<1>1. \A m \in Nat : IsFiniteSet(K(m)) /\ Cardinality(K(m)) \in Nat
  <2> SUFFICES ASSUME NEW m \in Nat PROVE IsFiniteSet(K(m)) /\ Cardinality(K(m)) \in Nat
    OBVIOUS
  <2>1. IsFiniteSet(1 .. m)  BY FS_Interval
  <2>2. IsFiniteSet(K(m))  BY <2>1, FS_Subset
  <2> QED  BY <2>2, FS_CardinalityType
<1>2. \A m : ItemsUpTo(how, titles, f, m) = Cardinality(K(m))  BY DEF ItemsUpTo, Is
<1>3. K(0) = {}  OBVIOUS
<1>4. K(n + 1) = IF Is(how, titles, docs[f].items[n + 1]) THEN K(n) \cup {n + 1} ELSE K(n)
  OBVIOUS
<1>5. n + 1 \notin K(n)  OBVIOUS
<1>6. \A m \in 0 .. n : K(m) \subseteq K(n)  OBVIOUS
<1>7. \A k \in 1 .. n : Is(how, titles, docs[f].items[k]) => k \in K(n)  OBVIOUS
<1> HIDE DEF K
<1>8. Cardinality(K(n + 1)) = Cardinality(K(n))
              + (IF Is(how, titles, docs[f].items[n + 1]) THEN 1 ELSE 0)
  <2>1. IsFiniteSet(K(n)) /\ Cardinality(K(n)) \in Nat  BY <1>1
  <2>2. Cardinality(K(n) \cup {n + 1}) = Cardinality(K(n)) + 1
    BY <1>5, <2>1, FS_AddElement
  <2> QED  BY <1>4, <2>1, <2>2
<1>9. \A m \in 0 .. n : Cardinality(K(m)) <= Cardinality(K(n))
  BY <1>1, <1>6, FS_Subset
<1>10. \A k \in 1 .. n : Is(how, titles, docs[f].items[k]) => Cardinality(K(n)) >= 1
  <2>1. Cardinality(K(n)) = 0 => K(n) = {}  BY <1>1, FS_EmptySet
  <2> QED  BY <1>1, <1>7, <2>1
<1> QED  BY <1>1, <1>2, <1>3, <1>8, <1>9, <1>10, FS_EmptySet

\* How the depth of a loop changes with the item it goes past.
LEMMA DepthMoves ==
  ASSUME TypeOK, NEW frame \in Frame, NEW g \in Frame, frame.pos >= 1,
         g.file = frame.file, g.kind = frame.kind, g.pos = frame.pos + 1
  PROVE  LET item == docs[frame.file].items[frame.pos]
         IN  Pairs(frame.file) =>
               DepthOf(g) = DepthOf(frame) + (IF Is("open", BOOLEAN, item) THEN 1 ELSE 0)
                              - (IF Is("close", {TRUE}, item) THEN 1 ELSE 0)
<1>1. frame.pos - 1 \in Nat /\ (frame.pos - 1) + 1 = frame.pos /\ g.pos - 1 = frame.pos
  BY DEF Frame
<1> DEFINE h == frame.pos - 1
           f == frame.file
           open(n)  == ItemsUpTo("open", BOOLEAN, f, n)
           close(n) == ItemsUpTo("close", {TRUE}, f, n)
<1>2. /\ open(h) \in Nat /\ close(h) \in Nat
      /\ open(h + 1) = open(h) + (IF Is("open", BOOLEAN, docs[f].items[h + 1]) THEN 1 ELSE 0)
      /\ close(h + 1) = close(h) + (IF Is("close", {TRUE}, docs[f].items[h + 1]) THEN 1 ELSE 0)
  BY <1>1, ItemsCounted
<1>3. Own(g) = Own(frame) /\ Own(g) \in {0, 1}  BY DEF Own
<1>4. Pairs(f) => /\ DepthOf(frame) = Own(frame) + open(h) - close(h)
                  /\ DepthOf(g) = Own(frame) + open(h + 1) - close(h + 1)
  BY <1>1, <1>3 DEF DepthOf
<1>5. h + 1 = frame.pos  BY <1>1
<1> HIDE DEF h, open, close
<1> QED  BY <1>2, <1>3, <1>4, <1>5

\* The depth is positive where a repeat closes, and nothing but the playlist
\* itself is open behind the last item or where the loop is stopped.
LEMMA DepthBounds ==
  ASSUME TypeOK, NEW frame \in Frame, Pairs(frame.file), frame.pos >= 1
  PROVE  LET items == docs[frame.file].items
         IN  /\ (frame.pos <= Len(items) /\ Is("close", {TRUE}, items[frame.pos]))
                   => DepthOf(frame) >= 1
             /\ frame.pos = Len(items) + 1 => DepthOf(frame) = Own(frame)
             /\ (frame.pos <= Len(items) /\ items[frame.pos].how = "stop")
                   => DepthOf(frame) = Own(frame)
<1> DEFINE f     == frame.file
           items == docs[f].items
           h     == frame.pos - 1
           all   == Len(items)
           open(n)  == ItemsUpTo("open", BOOLEAN, f, n)
           close(n) == ItemsUpTo("close", {TRUE}, f, n)
           stop(n)  == ItemsUpTo("stop", BOOLEAN, f, n)
<1>1. items \in Seq(Item) /\ all \in Nat /\ f \in File
  BY DocumentTyped DEF TypeOK, Frame
<1>2. h \in Nat /\ h + 1 = frame.pos  BY DEF Frame
<1>3. DepthOf(frame) = Own(frame) + open(h) - close(h) /\ Own(frame) \in {0, 1}
  BY DEF DepthOf, Own
<1>4. /\ \A n \in 0 .. all : close(n) <= open(n)
      /\ close(all) = open(all)
      /\ open(all) > 0 => stop(all) = 0
  BY DEF Pairs, Repeats
<1>5. /\ open(h) \in Nat /\ close(h) \in Nat
      /\ open(h + 1) = open(h) + (IF Is("open", BOOLEAN, items[h + 1]) THEN 1 ELSE 0)
      /\ close(h + 1) = close(h) + (IF Is("close", {TRUE}, items[h + 1]) THEN 1 ELSE 0)
  BY <1>2, ItemsCounted
<1>6. /\ \A n \in 0 .. all : open(n) <= open(all) /\ open(n) \in Nat /\ close(n) \in Nat
      /\ \A k \in 1 .. all : Is("stop", BOOLEAN, items[k]) => stop(all) >= 1
  <2>1. \A n \in 0 .. all : n \in Nat  OBVIOUS
  <2> QED  BY <1>1, <2>1, ItemsCounted
<1> HIDE DEF open, close, stop, h, all, items
<1>7. ASSUME frame.pos <= all, Is("close", {TRUE}, items[frame.pos])
      PROVE  DepthOf(frame) >= 1
  <2>1. h + 1 \in 0 .. all  BY <1>1, <1>2, <1>7
  <2>2. close(h + 1) <= open(h + 1)  BY <1>4, <2>1
  <2>3. close(h + 1) = close(h) + 1 /\ open(h + 1) = open(h)
    <3>1. Is("close", {TRUE}, items[h + 1])  BY <1>2, <1>7
    <3>2. ~Is("open", BOOLEAN, items[h + 1])  BY <3>1 DEF Is
    <3> QED  BY <1>5, <3>1, <3>2
  <2> QED  BY <1>3, <1>5, <2>2, <2>3
<1>8. ASSUME frame.pos = all + 1
      PROVE  DepthOf(frame) = Own(frame)
  <2>1. h = all  BY <1>1, <1>2, <1>8
  <2> QED  BY <1>3, <1>4, <1>5, <2>1
<1>9. ASSUME frame.pos <= all, items[frame.pos].how = "stop"
      PROVE  DepthOf(frame) = Own(frame)
  <2>1. frame.pos \in 1 .. all /\ h \in 0 .. all  BY <1>1, <1>2, <1>9
  <2>2. stop(all) >= 1
    <3>1. items[frame.pos] \in Item  BY <1>1, <2>1 DEF all
    <3>2. items[frame.pos].titled \in BOOLEAN  BY <3>1 DEF Item
    <3> QED  BY <1>6, <1>9, <2>1, <3>2 DEF Is
  <2>3. ~(open(all) > 0)  BY <1>4, <2>2
  <2>4. open(h) = 0
    <3>1. open(h) <= open(all) /\ open(all) \in Nat  BY <1>1, <1>6, <2>1
    <3> QED  BY <1>5, <2>3, <3>1
  <2>5. close(h) = 0  BY <1>4, <1>5, <2>1, <2>4
  <2> QED  BY <1>3, <2>4, <2>5
<1> QED  BY <1>7, <1>8, <1>9 DEF all, items

\* Stopping or ending a loop leaves its frame behind the last item.
LEMMA DepthStops ==
  ASSUME TypeOK, NEW frame \in Frame, NEW g \in Frame, frame.pos >= 1,
         g.file = frame.file, g.kind = frame.kind,
         frame.pos <= Len(docs[frame.file].items),
         docs[frame.file].items[frame.pos].how = "stop",
         g.pos = Len(docs[frame.file].items) + 1
  PROVE  DepthOf(g) = DepthOf(frame)
<1>1. CASE Pairs(frame.file)
  <2>1. DepthOf(frame) = Own(frame)  BY <1>1, DepthBounds
  <2>2. /\ g.pos = Len(docs[g.file].items) + 1
        /\ Len(docs[frame.file].items) \in Nat
    BY DocumentTyped DEF TypeOK, Frame
  <2>3. Pairs(g.file) /\ g.pos >= 1  BY <1>1, <2>2
  <2>4. DepthOf(g) = Own(g)  BY <2>2, <2>3, DepthBounds
  <2> QED  BY <2>1, <2>4 DEF Own
<1>2. CASE ~Pairs(frame.file)  BY <1>2 DEF DepthOf
<1> QED  BY <1>1, <1>2

\* A handler starts to loop, and starts its playlist if it is going to end it.
LEMMA StartLoopShows ==
  ASSUME TypeOK, SInv, pc = "enter", NEW out \in Out, StartLoop(out),
         callee \in Files => Announces(callee, out),
         callee \notin Files => out.sigs \in Seq(Neutral(Files))
  PROVE  SInv'
<1> DEFINE n == Len(stack)
           frame == [file |-> callee, kind |-> out.kind, pos |-> 1,
                     saved |-> fallback, extinf |-> 0]
<1>1. frame \in Frame /\ callee \in File /\ events \in Seq(Signal)
  BY DEF StartLoop, Out, Frame, TypeOK
<1>2. frame.file = callee /\ frame.kind = out.kind /\ frame.pos = 1  OBVIOUS
<1>3. stack' = Append(stack, frame)  BY DEF StartLoop
<1> HIDE DEF frame
<1>4. /\ n \in Nat /\ DOMAIN stack = 1 .. n /\ DOMAIN stack' = 1 .. n + 1
      /\ stack'[n + 1] = frame /\ \A i \in 1 .. n : stack'[i] = stack[i]
  BY <1>1, <1>3 DEF TypeOK
<1>5. pc' = "run" /\ events' = events \o out.sigs /\ UNCHANGED inputs
  BY DEF StartLoop
<1>6. DepthOf(frame) = IF Pairs(callee) THEN Own(frame) ELSE 0
  <2>1. \A how, titles : ItemsUpTo(how, titles, callee, 1 - 1) = 0  BY ItemsCounted
  <2>2. Own(frame) \in {0, 1}  BY DEF Own
  <2> QED  BY <1>2, <2>1, <2>2 DEF DepthOf
<1>7. Shows(events, stack)  BY DEF SInv
<1>8. Shows(events', stack')
  <2>1. CASE callee \in Files /\ Own(frame) = 1
    <3>1. out.sigs = <<Started(callee)>>
      BY <1>2, <2>1 DEF Announces, Own, StartLoop
    <3>2. /\ Started(callee) \in Signal /\ Started(callee).sig = "started"
          /\ Started(callee).list = callee
      <4>1. Started(callee) \in Signal  BY <1>1, SignalTyped
      <4> QED  BY <4>1 DEF Started
    <3>3. DepthOf(frame) = 1  BY <1>6, <2>1 DEF Files
    <3>4. events' = Append(events, Started(callee))  BY <1>1, <1>5, <3>1, <3>2
    <3>5. /\ n + 1 \in Nat /\ n + 1 \in 1 .. n + 1 /\ DOMAIN stack = 1 .. (n + 1) - 1
          /\ n + 1 \notin DOMAIN stack
      BY <1>4
    <3>6. \A i \in 1 .. (n + 1) - 1 : stack'[i].file = stack[i].file
                                     /\ DepthOf(stack'[i]) = DepthOf(stack[i])
      BY <1>4
    <3>7. Shows(Append(events, Started(callee)), stack')
      BY <1>1, <1>2, <1>4, <1>7, <3>2, <3>3, <3>5, <3>6, ShowsStart
    <3> QED  BY <3>4, <3>7
  <2>2. CASE ~(callee \in Files /\ Own(frame) = 1)
    <3>1. out.sigs \in Seq(Neutral(Files))
      <4>1. <<>> \in Seq(Neutral(Files))  OBVIOUS
      <4>2. CASE callee \in Files
        <5>1. out.sigs = <<>>  BY <1>2, <2>2, <4>2 DEF Announces, Own, StartLoop
        <5> QED  BY <4>1, <5>1
      <4> QED  BY <4>2
    <3>2. DepthOf(frame) = 0  BY <1>1, <1>6, <2>2 DEF Files, Own
    <3>3. /\ \A i \in DOMAIN stack' \cap DOMAIN stack :
               stack'[i].file = stack[i].file /\ DepthOf(stack'[i]) = DepthOf(stack[i])
          /\ \A i \in DOMAIN stack' \ DOMAIN stack : DepthOf(stack'[i]) = 0
          /\ \A i \in DOMAIN stack \ DOMAIN stack' : DepthOf(stack[i]) = 0
          /\ DOMAIN stack' \subseteq Nat /\ DOMAIN stack \subseteq Nat
      <4>1. \A i \in DOMAIN stack' : i \in 1 .. n \/ i = n + 1  BY <1>4
      <4> QED  BY <1>4, <3>2, <4>1
    <3> QED  BY <1>1, <1>5, <1>7, <3>1, <3>3, ShowsOn
  <2> QED  BY <2>1, <2>2
<1>9. Shows(events, stack)'  BY <1>5, <1>8, ShowsSame
<1>10. (\A i \in DOMAIN stack : InReach(i))'
  <2> SUFFICES ASSUME NEW i \in 1 .. n + 1 PROVE InReach(i)'
    BY <1>4
  <2>1. CASE i \in 1 .. n
    <3>1. InReach(i) /\ Waiting(i)  BY <1>4, <2>1 DEF SInv, Waiting
    <3> QED  BY <1>4, <1>5, <2>1, <3>1 DEF InReach, inputs
  <2>2. CASE i = n + 1
    <3>1. ~Waiting(i)'
      <4>1. Len(stack') = n + 1  BY <1>1, <1>3 DEF TypeOK
      <4> QED  BY <1>4, <1>5, <2>2, <4>1 DEF Waiting
    <3>2. Len(docs[callee].items) \in Nat  BY <1>1, DocumentTyped DEF TypeOK
    <3> QED  BY <1>2, <1>4, <1>5, <2>2, <3>1, <3>2 DEF InReach, inputs
  <2> QED  BY <1>4, <2>1, <2>2
<1> QED  BY <1>9, <1>10 DEF SInv

\* A handler is called.
LEMMA HandleShows ==
  ASSUME TypeOK, SInv, pc = "enter", NEW h, NEW t, t.data \in BOOLEAN, Handle(h, t)
  PROVE  SInv'
<1> DEFINE out == Call(h, callee, t.data)
<1>1. callee \in File /\ docs \in [File -> Document]  BY DEF TypeOK
<1>2. out \in Out  BY <1>1, CallTyped
<1>3. callee \in Files => Announces(callee, out)  BY <1>1, CallAnnounces
<1>4. callee \notin Files => out.sigs \in Seq(Neutral(Files))
  BY <1>1, HandlerSays, SaysNeutral
<1> HIDE DEF out
<1>5. CASE RunToEnd(out, t.mime)
  <2>1. out.kind = "none" /\ Epilogue(out.sigs, out.ret, t.mime)
        /\ UNCHANGED <<inputs, stack>>
    BY <1>5 DEF RunToEnd
  <2>2. out.sigs \in Seq(Neutral(Files)) \/ (callee \in Files /\ Whole(callee, out.sigs))
    BY <1>3, <1>4, <2>1 DEF Announces
  <2> QED  BY <2>1, <2>2, EpilogueShows
<1>6. CASE StartLoop(out)  BY <1>2, <1>3, <1>4, <1>6, StartLoopShows
<1> QED  BY <1>5, <1>6 DEF Handle, out

LEMMA ParseInternalShows ==
  ASSUME TypeOK, SInv, ParseInternal
  PROVE  SInv'
<1>0. callee \in File /\ docs \in [File -> Document] /\ pc = "enter"
  BY DEF TypeOK, ParseInternal, EnterTooDeep, EnterStream, EnterFeed, EnterNoRecurse,
         EnterUntyped, EnterEmpty, EnterIgnored, EnterUnsafe, EnterSpecial,
         EnterDualRejected, EnterDual, EnterOther, ParsingType, Parsing, Entering
<1>1. CASE EnterTooDeep \/ EnterStream \/ EnterNoRecurse \/ EnterUntyped
             \/ EnterEmpty \/ EnterIgnored \/ EnterUnsafe
  <2>1. UNCHANGED <<inputs, stack, events>> /\ pc' = "return"
    BY <1>1 DEF EnterTooDeep, EnterStream, EnterNoRecurse, EnterUntyped, EnterEmpty,
                EnterIgnored, EnterUnsafe, Return
  <2>2. Shows(events', stack')  BY <2>1 DEF SInv
  <2>3. Shows(events, stack)'  BY <2>1, <2>2, ShowsSame
  <2>4. (\A i \in DOMAIN stack : InReach(i))'
    BY <1>0, <2>1 DEF SInv, InReach, Waiting, inputs
  <2> QED  BY <2>3, <2>4 DEF SInv
<1>2. CASE EnterFeed
  <2> DEFINE sigs == AddFeed(callee).sigs
  <2>1. sigs \in Seq(Neutral(Files)) \/ (callee \in Files /\ Whole(callee, sigs))
    <3>1. CASE callee \in Files  BY <1>0, <3>1, CallAnnounces
    <3>2. CASE callee \notin Files  BY <1>0, <3>2, HandlerSays, SaysNeutral
    <3> QED  BY <3>1, <3>2
  <2> HIDE DEF sigs
  <2>2. UNCHANGED <<inputs, stack>> /\ pc' = "return" /\ events' = events \o sigs
    BY <1>2 DEF EnterFeed, sigs
  <2>3. Shows(events', stack)
    <3>1. events \in Seq(Signal) /\ Shows(events, stack)  BY DEF TypeOK, SInv
    <3> QED  BY <2>1, <2>2, <3>1, StackDomain, ShowsMore, ShowsWhole
  <2>4. Shows(events, stack)'  BY <2>2, <2>3, ShowsSame
  <2>5. (\A i \in DOMAIN stack : InReach(i))'
    BY <1>0, <2>2 DEF SInv, InReach, Waiting, inputs
  <2> QED  BY <2>4, <2>5 DEF SInv
<1>3. CASE EnterDualRejected \/ EnterOther
  <2>1. <<>> \in Seq(Neutral(Files))  OBVIOUS
  <2> QED
    BY <1>0, <1>3, <2>1, EpilogueShows DEF EnterDualRejected, EnterOther
<1>4. CASE EnterSpecial
  BY <1>0, <1>4, GuessTyped, HandleShows DEF EnterSpecial
<1>5. CASE EnterDual
  BY <1>0, <1>5, GuessTyped, HandleShows DEF EnterDual
<1> QED  BY <1>1, <1>2, <1>3, <1>4, <1>5 DEF ParseInternal

-----------------------------------------------------------------------------
\* The innermost loop goes on, with its frame g instead of Top, having reported
\* nothing that opens or closes, opened a part of its playlist or closed one.
Quiet(g) == \E t \in Seq(Neutral(Files)) :
              events' = events \o t /\ DepthOf(g) = DepthOf(Top)

Opens(g) == \E s \in Signal :
              /\ events' = Append(events, s) /\ s.sig = "started"
              /\ s.list = Top.file /\ DepthOf(g) = DepthOf(Top) + 1

Closes(g) == \E s \in Signal :
               /\ events' = Append(events, s) /\ s.sig = "ended"
               /\ s.list = Top.file /\ DepthOf(Top) >= 1
               /\ DepthOf(g) = DepthOf(Top) - 1

Goes(g) ==
  LET items == docs[Top.file].items
  IN  /\ g.file = Top.file /\ g.pos <= Len(items) + 1
      /\ \/ pc' = "run"
         \/ pc' = "enter" /\ items[g.pos].how \in {"nested", "link"}

LEMMA LoopShows ==
  ASSUME TypeOK, SInv, stack # <<>>, UNCHANGED inputs, NEW g \in Frame,
         stack' = [stack EXCEPT ![Len(stack)] = g],
         Goes(g), Quiet(g) \/ Opens(g) \/ Closes(g)
  PROVE  SInv'
<1> DEFINE n == Len(stack)
<1>1. /\ n \in Nat \ {0} /\ DOMAIN stack = 1 .. n /\ n \in DOMAIN stack
      /\ Top = stack[n]
  BY TopTyped, StackDomain DEF Top
<1>2. stack' = [stack EXCEPT ![n] = g]  OBVIOUS
<1>l. stack' \in Seq(Frame) => Len(stack') = Len(stack)  BY DEF TypeOK
<1>s. stack' \in Seq(Frame)  BY <1>1, <1>2 DEF TypeOK
<1> HIDE DEF n
<1>3. Len(stack') = n  BY <1>l, <1>s DEF n
<1>a. /\ DOMAIN stack' = 1 .. n /\ n \in DOMAIN stack' /\ stack'[n] = g
      /\ \A i \in 1 .. n - 1 : stack'[i] = stack[i]
  <2>2. DOMAIN stack' = DOMAIN stack  BY <1>2
  <2>3. stack'[n] = g  BY <1>1, <1>2
  <2>4. \A i \in DOMAIN stack : i # n => stack'[i] = stack[i]  BY <1>2
  <2>5. \A i \in 1 .. n - 1 : i \in DOMAIN stack /\ i # n  BY <1>1
  <2> QED  BY <1>1, <2>2, <2>3, <2>4, <2>5
<1>4. events \in Seq(Signal) /\ Shows(events, stack)  BY DEF TypeOK, SInv
<1>5. \A i \in 1 .. n - 1 : stack'[i].file = stack[i].file
                            /\ DepthOf(stack'[i]) = DepthOf(stack[i])
  BY <1>a
<1> DEFINE st == stack
           su == stack'
<1>6. /\ DOMAIN st = 1 .. n /\ DOMAIN su = 1 .. n /\ st[n] = Top /\ su[n] = g
      /\ g.file = Top.file
      /\ n \in DOMAIN st /\ n \in DOMAIN su
  BY <1>1, <1>a DEF Goes
<1>7. Shows(events', su)
  <2>1. CASE Quiet(g)
    <3>1. PICK t \in Seq(Neutral(Files)) :
               events' = events \o t /\ DepthOf(g) = DepthOf(Top)
      BY <2>1 DEF Quiet
    <3>2. \A i \in DOMAIN su \cap DOMAIN st :
            su[i].file = st[i].file /\ DepthOf(su[i]) = DepthOf(st[i])
      <4>1. \A i \in DOMAIN su : i = n \/ i \in 1 .. n - 1
        BY <1>1, <1>6
      <4> QED  BY <1>5, <1>6, <3>1, <4>1
    <3>3. DOMAIN su = DOMAIN st /\ DOMAIN su \subseteq Nat  BY <1>6
    <3> HIDE DEF st, su
    <3>4. Shows(events \o t, su)
      <4>1. Shows(events, st)  BY <1>4 DEF st
      <4> QED  BY <1>4, <3>2, <3>3, <4>1, ShowsOn
    <3> QED  BY <3>1, <3>4
  <2>2. ASSUME NEW s \in Signal, events' = Append(events, s), s.list = Top.file,
               s.sig = "started", DepthOf(g) = DepthOf(Top) + 1
        PROVE  Shows(events', su)
    <3>1. n \in Nat /\ s.list = su[n].file /\ DOMAIN st \in {1 .. n, 1 .. n - 1}
      BY <1>1, <1>6, <2>2
    <3>2. IF n \in DOMAIN st
          THEN su[n].file = st[n].file /\ DepthOf(su[n]) = DepthOf(st[n]) + 1
          ELSE DepthOf(su[n]) = 1
      BY <1>6, <2>2
    <3> QED  BY <1>4, <1>5, <1>6, <2>2, <3>1, <3>2, ShowsStart
  <2>3. ASSUME NEW s \in Signal, events' = Append(events, s), s.list = Top.file,
               s.sig = "ended", DepthOf(Top) >= 1, DepthOf(g) = DepthOf(Top) - 1
        PROVE  Shows(events', su)
    <3>1. n \in Nat /\ s.list = st[n].file /\ DOMAIN su \in {1 .. n, 1 .. n - 1}
      BY <1>1, <1>6, <2>3
    <3>2. IF n \in DOMAIN su
          THEN su[n].file = st[n].file /\ DepthOf(su[n]) = DepthOf(st[n]) - 1
          ELSE DepthOf(st[n]) = 1
      BY <1>6, <2>3
    <3>3. DepthOf(st[n]) >= 1  BY <1>6, <2>3
    <3>4. /\ \A i \in 1 .. n - 1 : su[i].file = st[i].file /\ DepthOf(su[i]) = DepthOf(st[i])
          /\ Shows(events, st)
      BY <1>4, <1>5
    <3> HIDE DEF st, su
    <3>5. Shows(Append(events, s), su)
      <4>1. events \in Seq(Signal) /\ DOMAIN st = 1 .. n /\ n \in DOMAIN st
            /\ s.sig = "ended"
        BY <1>4, <1>6, <2>3
      <4> QED  BY <2>3, <3>1, <3>2, <3>3, <3>4, <4>1, ShowsEnd, Zenon
    <3> QED  BY <2>3, <3>5
  <2> QED  BY <2>1, <2>2, <2>3 DEF Opens, Closes
<1>8. Shows(events, stack)'  BY <1>7, ShowsSame
<1>9. (\A i \in DOMAIN stack : InReach(i))'
  <2> SUFFICES ASSUME NEW i \in 1 .. n PROVE InReach(i)'
    BY <1>a
  <2>1. docs' = docs  BY DEF inputs
  <2>4. /\ g.file = Top.file /\ g.pos <= Len(docs[Top.file].items) + 1
        /\ \/ pc' = "run"
           \/ pc' = "enter" /\ docs[Top.file].items[g.pos].how \in {"nested", "link"}
    BY DEF Goes
  <2>2. CASE i \in 1 .. n - 1
    <3>1. InReach(i) /\ Waiting(i)  BY <1>1, <2>2 DEF SInv, Waiting
    <3> QED  BY <1>a, <2>1, <2>2, <3>1 DEF InReach
  <2>3. CASE i = n
    <3>1. Waiting(i)' => pc' = "enter" \/ pc' = "return"  BY <1>1, <1>3, <2>3 DEF Waiting
    <3> QED  BY <1>a, <2>1, <2>3, <2>4, <3>1 DEF InReach
  <2> QED  BY <1>1, <2>2, <2>3
<1> QED  BY <1>8, <1>9 DEF SInv

\* The loop goes past its item, and what it says about the item opens and closes
\* nothing.
LEMMA PastShows ==
  ASSUME IInv, SInv, stack # <<>>, UNCHANGED inputs, pc' = "run",
         Looping \/ pc = "return", There.how \notin {"open", "close"},
         NEW x \in Nat, Advance(Top.pos + 1, x),
         events' = events \/ events' = Append(events, ItemEntry)
  PROVE  SInv'
<1>0. TypeOK /\ FramesWait  BY DEF IInv
<1>1. Top \in Frame /\ Len(stack) \in DOMAIN stack /\ Top.file \in File
  BY <1>0, TopTyped DEF TypeOK, Frame
<1>2. Top.pos \in DOMAIN docs[Top.file].items  BY <1>0, AtAnItem
<1>3. Top.pos \in Nat \ {0} /\ Top.pos <= Len(docs[Top.file].items)
      /\ Len(docs[Top.file].items) \in Nat
  BY <1>0, <1>1, <1>2, DocumentTyped DEF TypeOK
<1> DEFINE g == [Top EXCEPT !.pos = Top.pos + 1, !.extinf = x]
<1>4. g \in Frame /\ g.file = Top.file /\ g.kind = Top.kind /\ g.pos = Top.pos + 1
  <2>1. Top.pos + 1 \in Nat  BY <1>3
  <2> QED  BY <1>1, <2>1 DEF Frame
<1>5. stack' = [stack EXCEPT ![Len(stack)] = g]
  BY <1>0, <1>1 DEF Advance, TypeOK, Frame, Top
<1> HIDE DEF g
<1>6. DepthOf(g) = DepthOf(Top)
  <2>1. CASE Pairs(Top.file)
    <3>1. There.how # "open" /\ There.how # "close"
          /\ There = docs[Top.file].items[Top.pos]
      BY DEF There
    <3>2. Top.pos >= 1  BY <1>3
    <3>3. DepthOf(g) = DepthOf(Top) + 0 - 0
      BY <1>0, <1>1, <1>4, <2>1, <3>1, <3>2, DepthMoves DEF Is
    <3>4. DepthOf(Top) \in Int
      <4>1. Top.pos - 1 \in Nat  BY <1>3
      <4>2. \A how, titles : ItemsUpTo(how, titles, Top.file, Top.pos - 1) \in Nat
        BY <4>1, ItemsCounted
      <4> QED  BY <2>1, <4>2 DEF DepthOf, Own
    <3> QED  BY <3>3, <3>4
  <2>2. CASE ~Pairs(Top.file)  BY <1>4, <2>2 DEF DepthOf
  <2> QED  BY <2>1, <2>2
<1>7. Goes(g)  BY <1>3, <1>4 DEF Goes
<1>8. Quiet(g)
  <2>1. events \in Seq(Signal)  BY <1>0 DEF TypeOK
  <2>2. ItemEntry \in Neutral(Files)
    <3>1. ItemEntry \in Signal  BY <1>0, <1>2, ItemEntryTyped
    <3>2. ItemEntry.sig = "entry"  BY DEF ItemEntry, Entry
    <3> QED  BY <3>1, <3>2 DEF Neutral
  <2>3. <<>> \in Seq(Neutral(Files)) /\ <<ItemEntry>> \in Seq(Neutral(Files))
    BY <2>2
  <2>4. events = events \o <<>> /\ Append(events, ItemEntry) = events \o <<ItemEntry>>
    BY <2>1
  <2> QED  BY <1>6, <2>3, <2>4 DEF Quiet
<1> QED  BY <1>0, <1>4, <1>5, <1>7, <1>8, LoopShows

\* The part of the playlist that opens or closes with the item.
LEMMA RepeatShows ==
  ASSUME IInv, SInv, RepeatItem
  PROVE  SInv'
<1>0. TypeOK /\ FramesWait  BY DEF IInv
<1>1. Looping /\ pc' = "run" /\ UNCHANGED inputs /\ Advance(Top.pos + 1, 0)
  BY DEF RepeatItem, Looping
<1>2. stack # <<>>  BY <1>0, <1>1 DEF Looping, TypeOK
<1>3. Top \in Frame /\ Len(stack) \in DOMAIN stack /\ Top.file \in File
  BY <1>0, <1>2, TopTyped DEF TypeOK, Frame
<1>4. Top.pos \in DOMAIN docs[Top.file].items  BY <1>0, <1>1, <1>2, AtAnItem
<1>5. Top.pos \in Nat \ {0} /\ Top.pos <= Len(docs[Top.file].items)
      /\ Len(docs[Top.file].items) \in Nat /\ Top.pos >= 1
  BY <1>0, <1>3, <1>4, DocumentTyped DEF TypeOK
<1> DEFINE g == [Top EXCEPT !.pos = Top.pos + 1, !.extinf = 0]
<1>6. g \in Frame /\ g.file = Top.file /\ g.kind = Top.kind /\ g.pos = Top.pos + 1
  <2>1. Top.pos + 1 \in Nat  BY <1>5
  <2> QED  BY <1>3, <2>1 DEF Frame
<1>7. stack' = [stack EXCEPT ![Len(stack)] = g]
  BY <1>0, <1>1, <1>3 DEF Advance, TypeOK, Frame, Top
<1>8. There = docs[Top.file].items[Top.pos]  BY DEF There
<1>9. events \in Seq(Signal)  BY <1>0 DEF TypeOK
<1> HIDE DEF g
<1>10. Goes(g)  BY <1>1, <1>5, <1>6 DEF Goes
<1>11. Quiet(g) \/ Opens(g) \/ Closes(g)
  <2>1. CASE Pairs(Top.file)
    <3>1. DepthOf(Top) \in Int
      <4>1. Top.pos - 1 \in Nat  BY <1>5
      <4>2. \A how, titles : ItemsUpTo(how, titles, Top.file, Top.pos - 1) \in Nat
        BY <4>1, ItemsCounted
      <4> QED  BY <2>1, <4>2 DEF DepthOf, Own
    <3>2. DepthOf(g) = DepthOf(Top) + (IF Is("open", BOOLEAN, There) THEN 1 ELSE 0)
                                    - (IF Is("close", {TRUE}, There) THEN 1 ELSE 0)
      BY <1>0, <1>3, <1>5, <1>6, <1>8, <2>1, DepthMoves
    <3>3. ASSUME NEW s \in Signal, events' = Append(events, s), s.list = Top.file,
                 s.sig = "started", There.how = "open"
          PROVE  Opens(g)
      <4>1. There.titled \in BOOLEAN
        <5>1. There \in Item  BY <1>0, <1>3, <1>4, <1>8, DocumentTyped DEF TypeOK
        <5> QED  BY <5>1 DEF Item
      <4>2. Is("open", BOOLEAN, There) /\ ~Is("close", {TRUE}, There)
        BY <3>3, <4>1 DEF Is
      <4>3. DepthOf(g) = DepthOf(Top) + 1  BY <3>1, <3>2, <4>2
      <4> QED  BY <3>3, <4>3 DEF Opens
    <3>4. ASSUME NEW s \in Signal, events' = Append(events, s), s.list = Top.file,
                 s.sig = "ended", There.how = "close", There.titled = TRUE
          PROVE  Closes(g)
      <4>1. ~Is("open", BOOLEAN, There) /\ Is("close", {TRUE}, There)
        BY <3>4 DEF Is
      <4>2. DepthOf(g) = DepthOf(Top) - 1  BY <3>1, <3>2, <4>1
      <4>3. DepthOf(Top) >= 1  BY <1>0, <1>3, <1>5, <1>8, <2>1, <4>1, DepthBounds
      <4> QED  BY <3>4, <4>2, <4>3 DEF Closes
    <3>5. ASSUME There.how = "close", There.titled = FALSE, events' = events
          PROVE  Quiet(g)
      <4>1. ~Is("open", BOOLEAN, There) /\ ~Is("close", {TRUE}, There)
        BY <3>5 DEF Is
      <4>2. DepthOf(g) = DepthOf(Top)  BY <3>1, <3>2, <4>1
      <4>3. <<>> \in Seq(Neutral(Files)) /\ events' = events \o <<>>  BY <1>9, <3>5
      <4> QED  BY <4>2, <4>3 DEF Quiet
    <3> QED  BY <1>0, <1>2, <3>3, <3>4, <3>5, RepeatSays
  <2>2. CASE ~Pairs(Top.file)
    <3>1. DepthOf(g) = DepthOf(Top)  BY <1>6, <2>2 DEF DepthOf
    <3>2. ASSUME NEW s \in Signal, s.list = Top.file, events' = Append(events, s)
          PROVE  Quiet(g)
      <4>1. s \in Neutral(Files)  BY <2>2, <3>2 DEF Neutral, Files
      <4>2. <<s>> \in Seq(Neutral(Files)) /\ events' = events \o <<s>>
        BY <1>9, <3>2, <4>1
      <4> QED  BY <3>1, <4>2 DEF Quiet
    <3>3. ASSUME events' = events PROVE Quiet(g)
      <4>1. <<>> \in Seq(Neutral(Files)) /\ events' = events \o <<>>  BY <1>9, <3>3
      <4> QED  BY <3>1, <4>1 DEF Quiet
    <3> QED  BY <1>0, <1>2, <3>2, <3>3, RepeatSays
  <2> QED  BY <2>1, <2>2
<1> QED  BY <1>0, <1>1, <1>2, <1>6, <1>7, <1>10, <1>11, LoopShows

\* A handler returns, and ends the playlist if it started it.
LEMMA EndLoopShows ==
  ASSUME IInv, SInv, EndLoop
  PROVE  SInv'
<1> DEFINE n == Len(stack)
<1>0. TypeOK /\ FramesWait  BY DEF IInv
<1>1. stack # <<>>  BY <1>0 DEF EndLoop, TypeOK
<1>2. /\ n \in Nat \ {0} /\ DOMAIN stack = 1 .. n /\ n \in DOMAIN stack
      /\ Top = stack[n] /\ Top \in Frame /\ Top.file \in File /\ Top.pos \in Nat
  BY <1>0, <1>1, TopTyped, StackDomain DEF Top, Frame
<1>3. /\ pc' = "return" /\ UNCHANGED inputs /\ stack' = SubSeq(stack, 1, n - 1)
      /\ events' = events \o EndSignals(Top) /\ Top.pos > Len(docs[Top.file].items)
  BY DEF EndLoop
<1>4. Top.pos = Len(docs[Top.file].items) + 1 /\ Top.pos >= 1
  <2>1. Len(docs[Top.file].items) \in Nat  BY <1>0, <1>2, DocumentTyped DEF TypeOK
  <2>2. Top.pos <= Len(docs[Top.file].items) + 1  BY <1>2 DEF SInv, InReach
  <2> DEFINE all == Len(docs[Top.file].items)
  <2>3. all \in Nat /\ Top.pos \in Nat /\ Top.pos <= all + 1 /\ Top.pos > all
    BY <1>2, <1>3, <2>1, <2>2
  <2> HIDE DEF all
  <2>4. Top.pos = all + 1 /\ Top.pos >= 1  BY <2>3
  <2> QED  BY <2>4 DEF all
<1>5. /\ DOMAIN stack' = 1 .. n - 1 /\ Len(stack') = n - 1
      /\ \A i \in 1 .. n - 1 : stack'[i] = stack[i]
  <2>1. stack \in Seq(Frame) /\ n - 1 \in 0 .. Len(stack)  BY <1>0, <1>2 DEF TypeOK
  <2> QED  BY <1>2, <1>3, <2>1
<1> HIDE DEF n
<1>6. events \in Seq(Signal) /\ Shows(events, stack)  BY <1>0 DEF TypeOK, SInv
<1>7. DepthOf(Top) = IF Pairs(Top.file) THEN Own(Top) ELSE 0
  BY <1>0, <1>2, <1>4, DepthBounds DEF DepthOf
<1> DEFINE st == stack
           su == stack'
           e  == Ended(IF Top.kind = "pls" THEN TitleText ELSE Top.file, Top.file)
<1>8. /\ DOMAIN st = 1 .. n /\ DOMAIN su = 1 .. n - 1 /\ st[n] = Top
      /\ n \in DOMAIN st /\ n \notin DOMAIN su /\ n \in Nat /\ Shows(events, st)
      /\ \A i \in 1 .. n - 1 : su[i].file = st[i].file /\ DepthOf(su[i]) = DepthOf(st[i])
  BY <1>2, <1>5, <1>6
<1>9. e \in Signal /\ e.sig = "ended" /\ e.list = Top.file
  <2>1. (IF Top.kind = "pls" THEN TitleText ELSE Top.file) \in File \cup {TitleText}
    BY <1>2
  <2>2. e \in Signal  BY <1>2, <2>1, SignalTyped
  <2> QED  BY <2>2 DEF Ended
<1>10. EndSignals(Top) = IF Own(Top) = 1 THEN <<e>> ELSE <<>>
  BY DEF EndSignals, Own
<1> HIDE DEF e
<1>11. Shows(events', su)
  <2>1. CASE Pairs(Top.file) /\ Own(Top) = 1
    <3>1. DepthOf(st[n]) = 1  BY <1>7, <1>8, <2>1
    <3>2. events' = Append(events, e)  BY <1>3, <1>6, <1>9, <1>10, <2>1
    <3> HIDE DEF st, su
    <3>3. Shows(Append(events, e), su)
      <4>1. /\ DepthOf(st[n]) >= 1 /\ DOMAIN su \in {1 .. n, 1 .. n - 1}
            /\ e.list = st[n].file
            /\ IF n \in DOMAIN su
               THEN su[n].file = st[n].file /\ DepthOf(su[n]) = DepthOf(st[n]) - 1
               ELSE DepthOf(st[n]) = 1
        BY <1>8, <1>9, <3>1
      <4> QED  BY <1>6, <1>8, <1>9, <4>1, ShowsEnd, ZenonT(40)
    <3> QED  BY <3>2, <3>3
  <2>2. CASE ~(Pairs(Top.file) /\ Own(Top) = 1)
    <3>1. EndSignals(Top) \in Seq(Neutral(Files))
      <4>1. <<>> \in Seq(Neutral(Files))  OBVIOUS
      <4>2. ASSUME Own(Top) = 1 PROVE <<e>> \in Seq(Neutral(Files))
        <5>1. e \in Neutral(Files)  BY <1>9, <2>2, <4>2 DEF Neutral, Files
        <5> QED  BY <5>1
      <4> QED  BY <1>10, <4>1, <4>2
    <3>2. DepthOf(st[n]) = 0  BY <1>7, <1>8, <2>2 DEF Own
    <3>3. /\ \A i \in DOMAIN su \cap DOMAIN st :
               su[i].file = st[i].file /\ DepthOf(su[i]) = DepthOf(st[i])
          /\ \A i \in DOMAIN su \ DOMAIN st : DepthOf(su[i]) = 0
          /\ \A i \in DOMAIN st \ DOMAIN su : DepthOf(st[i]) = 0
          /\ DOMAIN su \subseteq Nat /\ DOMAIN st \subseteq Nat
      <4>1. \A i \in DOMAIN st : i \in DOMAIN su \/ i = n  BY <1>8
      <4>2. DOMAIN su \subseteq DOMAIN st  BY <1>8
      <4>3. DOMAIN st \subseteq Nat  BY <1>8
      <4> QED  BY <1>8, <3>2, <4>1, <4>2, <4>3
    <3> HIDE DEF st, su
    <3>4. Shows(events \o EndSignals(Top), su)
      BY <1>6, <1>8, <3>1, <3>3, ShowsOn
    <3> QED  BY <1>3, <3>4
  <2> QED  BY <2>1, <2>2
<1>12. Shows(events, stack)'  BY <1>3, <1>11, ShowsSame
<1>13. (\A i \in DOMAIN stack : InReach(i))'
  <2> SUFFICES ASSUME NEW i \in 1 .. n - 1 PROVE InReach(i)'
    BY <1>5
  <2>1. InReach(i) /\ Waiting(i)
    <3>1. i \in DOMAIN stack /\ i < n  BY <1>2
    <3> QED  BY <3>1 DEF SInv, Waiting, n
  <2>2. docs' = docs  BY <1>3 DEF inputs
  <2> QED  BY <1>5, <2>1, <2>2 DEF InReach
<1> QED  BY <1>12, <1>13 DEF SInv

LEMMA HandlerStepShows ==
  ASSUME IInv, SInv, HandlerStep
  PROVE  SInv'
<1>0. TypeOK /\ FramesWait  BY DEF IInv
<1>1. Looping \/ ItemParsed \/ EndLoop
  BY DEF HandlerStep, ReportItem, SkipItem, StopAtItem, RepeatItem, ParseItem
<1>2. stack # <<>>  BY <1>0, <1>1 DEF Looping, ItemParsed, EndLoop, TypeOK
<1>3. Top \in Frame /\ Len(stack) \in DOMAIN stack /\ Top.file \in File
      /\ Top.pos \in Nat /\ Top.extinf \in Nat /\ Top = stack[Len(stack)]
  BY <1>0, <1>2, TopTyped DEF TypeOK, Frame, Top
<1>4. Len(docs[Top.file].items) \in Nat  BY <1>0, <1>3, DocumentTyped DEF TypeOK
<1>5. CASE ReportItem
  <2>1. There.how \notin {"open", "close"}  BY <1>5 DEF ReportItem
  <2>2. /\ UNCHANGED inputs /\ pc' = "run" /\ Looping /\ Advance(Top.pos + 1, 0)
        /\ events' = Append(events, ItemEntry)
    BY <1>5 DEF ReportItem, Looping
  <2> QED  BY <1>2, <2>1, <2>2, PastShows
<1>6. CASE SkipItem
  <2> DEFINE x == IF There.how = "extinf" /\ Top.extinf = 0
                  THEN Top.pos ELSE Top.extinf
  <2>1. There.how \notin {"open", "close"} /\ x \in Nat  BY <1>3, <1>6 DEF SkipItem
  <2>2. /\ UNCHANGED inputs /\ pc' = "run" /\ Looping /\ Advance(Top.pos + 1, x)
        /\ events' = events
    BY <1>6 DEF SkipItem, Looping
  <2> HIDE DEF x
  <2> QED  BY <1>2, <2>1, <2>2, PastShows
<1>7. CASE ItemParsed
  <2>1. There.how \notin {"open", "close"}
    <3>1. Waiting(Len(stack))  BY <1>7 DEF ItemParsed, Waiting
    <3>2. There.how \in {"nested", "link"}  BY <1>3, <3>1 DEF SInv, InReach, There
    <3> QED  BY <3>2
  <2>2. /\ UNCHANGED inputs /\ pc' = "run" /\ pc = "return" /\ Advance(Top.pos + 1, 0)
        /\ events' = events \/ events' = Append(events, ItemEntry)
    BY <1>7 DEF ItemParsed
  <2> QED  BY <1>2, <2>1, <2>2, PastShows
<1>8. CASE StopAtItem
  <2> DEFINE all == Len(docs[Top.file].items)
             g   == [Top EXCEPT !.pos = all + 1, !.extinf = 0]
  <2>1. /\ UNCHANGED inputs /\ pc' = "run" /\ events' = events /\ Looping
        /\ There.how = "stop" /\ Advance(all + 1, 0)
    BY <1>8 DEF StopAtItem, Looping
  <2>2. g \in Frame /\ g.file = Top.file /\ g.kind = Top.kind /\ g.pos = all + 1
    <3>1. all + 1 \in Nat  BY <1>4
    <3> QED  BY <1>3, <3>1 DEF Frame
  <2>3. stack' = [stack EXCEPT ![Len(stack)] = g]
    BY <1>0, <1>3, <2>1 DEF Advance, TypeOK, Frame
  <2>4. Top.pos >= 1 /\ Top.pos <= all
    BY <1>0, <1>3, <2>1 DEF FramesWait, Looping
  <2> HIDE DEF g
  <2>5. DepthOf(g) = DepthOf(Top)
    BY <1>0, <1>3, <2>1, <2>2, <2>4, DepthStops DEF There
  <2>6. Goes(g)  BY <1>4, <2>1, <2>2 DEF Goes
  <2>7. Quiet(g)
    <3>1. <<>> \in Seq(Neutral(Files)) /\ events = events \o <<>>
      BY <1>0 DEF TypeOK
    <3> QED  BY <2>1, <2>5, <3>1 DEF Quiet
  <2> QED  BY <1>0, <1>2, <2>1, <2>2, <2>3, <2>6, <2>7, LoopShows
<1>9. CASE RepeatItem  BY <1>9, RepeatShows
<1>10. CASE ParseItem
  <2> DEFINE g == [Top EXCEPT !.saved = fallback]
  <2>1. /\ UNCHANGED inputs /\ pc' = "enter" /\ events' = events /\ Looping
        /\ There.how \in {"nested", "link"}
    BY <1>10 DEF ParseItem, Looping, Nests
  <2>2. g \in Frame /\ g.file = Top.file /\ g.kind = Top.kind /\ g.pos = Top.pos
    BY <1>0, <1>3 DEF Frame, TypeOK
  <2>3. stack' = [stack EXCEPT ![Len(stack)] = g]
    BY <1>0, <1>3, <1>10 DEF ParseItem, TypeOK
  <2> HIDE DEF g
  <2>4. DepthOf(g) = DepthOf(Top)  BY <2>2 DEF DepthOf, Own
  <2>5. Goes(g)
    <3>1. Top.pos <= Len(docs[Top.file].items)  BY <2>1 DEF Looping
    <3> QED  BY <1>3, <1>4, <2>1, <2>2, <3>1 DEF Goes, There
  <2>6. Quiet(g)
    <3>1. <<>> \in Seq(Neutral(Files)) /\ events = events \o <<>>
      BY <1>0 DEF TypeOK
    <3> QED  BY <2>1, <2>4, <3>1 DEF Quiet
  <2> QED  BY <1>0, <1>2, <2>1, <2>2, <2>3, <2>5, <2>6, LoopShows
<1>11. CASE EndLoop  BY <1>11, EndLoopShows
<1> QED
  BY <1>5, <1>6, <1>7, <1>8, <1>9, <1>10, <1>11 DEF HandlerStep

LEMMA InitSInv == Init => SInv
<1> SUFFICES ASSUME Init PROVE SInv
  OBVIOUS
<1>1. events = <<>> /\ stack = <<>> /\ DOMAIN stack = {} /\ Len(events) = 0
  BY DEF Init, Fresh
<1> DEFINE mk == [i \in Nat |-> {}]
<1>2. Marked(events, stack, mk)  BY <1>1 DEF Marked
<1>3. All(mk) = {}  BY DEF All
<1>4. OpenAt(Files, events, {})
  <2>1. Even(Files, events, 1, 0)  BY EvenEmpty
  <2> QED  BY <1>1, <2>1 DEF OpenAt
<1>5. Paired(Files, events)  BY <1>1 DEF Paired
<1> HIDE DEF mk
<1>6. Shows(events, stack)  BY <1>2, <1>3, <1>4, <1>5 DEF Shows
<1> QED  BY <1>1, <1>6 DEF SInv

LEMMA NextSInv == IInv /\ SInv /\ [Next]_vars => SInv'
<1> SUFFICES ASSUME IInv, SInv, [Next]_vars PROVE SInv'
  OBVIOUS
<1>0. TypeOK  BY DEF IInv
<1>1. CASE ParseInternal  BY <1>0, <1>1, ParseInternalShows
<1>2. CASE HandlerStep  BY <1>2, HandlerStepShows
<1>3. CASE ParseWithBase \/ ParseReturns \/ UNCHANGED vars
  <2>1. UNCHANGED <<inputs, docs, stack, events>>
    BY <1>3 DEF ParseWithBase, ParseReturns, vars, inputs
  <2>2. Shows(events', stack')  BY <2>1 DEF SInv
  <2>3. Shows(events, stack)'  BY <2>1, <2>2, ShowsSame
  <2>4. stack = <<>> \/ UNCHANGED pc
    BY <1>0, <1>3 DEF ParseWithBase, ParseReturns, vars, TypeOK
  <2>5. (\A i \in DOMAIN stack : InReach(i))'
    <3>1. CASE stack = <<>>  BY <2>1, <3>1
    <3>2. CASE UNCHANGED pc  BY <2>1, <3>2 DEF SInv, InReach, Waiting
    <3> QED  BY <2>4, <3>1, <3>2
  <2> QED  BY <2>3, <2>5 DEF SInv
<1> QED  BY <1>1, <1>2, <1>3 DEF Next, Terminated

LEMMA StackShows == Spec => []SInv
BY Inductive, InitSInv, NextSInv, PTL DEF Spec

\* Signals bracket: whatever documents nest in whatever others, every end closes
\* the start of its own playlist that was opened last, all that started in
\* between has ended, and nothing is open when idol_pl_parser_parse() returns.
THEOREM SignalsBracket == Spec => []SignalsPaired
<1>1. TypeOK /\ SInv => SignalsPaired
  <2> SUFFICES ASSUME TypeOK, SInv PROVE SignalsPaired
    OBVIOUS
  <2>1. PICK mk : /\ Marked(events, stack, mk) /\ OpenAt(Files, events, All(mk))
                  /\ Paired(Files, events)
    BY DEF SInv, Shows
  <2>2. ASSUME NEW n \in DOMAIN events, events[n].sig = "ended", events[n].list \in Files
        PROVE  \E m \in 1 .. n - 1 :
                 /\ events[m].sig = "started" /\ events[m].list = events[n].list
                 /\ \A f \in Files : CountIn("started", f, m + 1, n - 1)
                                       = CountIn("ended", f, m + 1, n - 1)
    <3>1. Closing(Files, events, n)  BY <2>1, <2>2 DEF Paired
    <3> QED  BY <3>1 DEF Closing, Even, Num, CountIn
  <2>3. ASSUME pc = "done", NEW f \in Files
        PROVE  Count("started", f) = Count("ended", f)
    <3>1. DOMAIN stack = {}  BY <2>3 DEF TypeOK
    <3>2. All(mk) = {}  BY <2>1, <3>1 DEF Marked, All
    <3>3. Len(events) \in Nat  BY DEF TypeOK
    <3>4. Even(Files, events, 0 + 1, (Len(events) + 1) - 1)
      BY <2>1, <3>2, <3>3 DEF OpenAt
    <3>5. 0 + 1 = 1 /\ (Len(events) + 1) - 1 = Len(events)  BY <3>3
    <3> QED  BY <3>4, <3>5 DEF Even, Num, Count, CountIn
  <2> QED  BY <2>2, <2>3 DEF SignalsPaired, Files
<1>2. Spec => [](TypeOK /\ SInv)  BY Inductive, StackShows, PTL DEF IInv
<1> QED  BY <1>1, <1>2, PTL

-----------------------------------------------------------------------------
(***************************************************************************)
(* FlattenSeq joins one sequence after the other.  The function it defines *)
(* by recursion exists, and does not depend on what comes behind.          *)
(***************************************************************************)
LEMMA SetInduction ==
  ASSUME NEW S, 0 \in S, \A n \in Nat : n \in S => n + 1 \in S
  PROVE  Nat \subseteq S
<1> SUFFICES ASSUME ~(Nat \subseteq S) PROVE FALSE
  OBVIOUS
<1> DEFINE R == OpToRel(<, Nat)
           D == Nat \ S
<1>1. D \subseteq Nat /\ D # {}  OBVIOUS
<1>2. IsWellFoundedOn(R, Nat)  BY NatLessThanWellFounded, Zenon
<1>3. \A x, y \in Nat : <<x, y>> \in R <=> x < y  BY DEF OpToRel
<1> HIDE DEF R
<1>4. PICK d \in D : \A e \in D : ~(<<e, d>> \in R)
  <2> HIDE DEF D
  <2> QED  BY <1>1, <1>2, WFMin
<1>5. d \in Nat /\ d # 0 /\ d \notin S  OBVIOUS
<1>6. d - 1 \in Nat /\ d - 1 < d /\ (d - 1) + 1 = d  BY <1>5
<1>7. d - 1 \in S  BY <1>1, <1>3, <1>4, <1>5, <1>6
<1> QED  BY <1>5, <1>6, <1>7

IsFlat(f, S, n) == f = [i \in 1 .. n |-> IF i = 1 THEN S[i] ELSE f[i - 1] \o S[i]]

LEMMA FlatExists ==
  ASSUME NEW S, NEW N \in Nat
  PROVE  \E f : IsFlat(f, S, N)
<1> DEFINE D == {n \in Nat : \E f : IsFlat(f, S, n)}
<1>1. 0 \in D
  <2>1. IsFlat([i \in 1 .. 0 |-> {}], S, 0)  BY DEF IsFlat
  <2> QED  BY <2>1
<1>2. ASSUME NEW n \in Nat, n \in D PROVE n + 1 \in D
  <2>1. PICK f : IsFlat(f, S, n)  BY <1>2
  <2> DEFINE g == [i \in 1 .. n + 1 |-> IF i = n + 1
                     THEN IF i = 1 THEN S[i] ELSE f[n] \o S[i] ELSE f[i]]
  <2>2. \A i \in 1 .. n : f[i] = IF i = 1 THEN S[i] ELSE f[i - 1] \o S[i]
    BY <2>1 DEF IsFlat
  <2>3. \A i \in 1 .. n : g[i] = f[i]  OBVIOUS
  <2>4. \A i \in 1 .. n + 1 : g[i] = IF i = 1 THEN S[i] ELSE g[i - 1] \o S[i]
    <3> SUFFICES ASSUME NEW i \in 1 .. n + 1
                 PROVE  g[i] = IF i = 1 THEN S[i] ELSE g[i - 1] \o S[i]
      OBVIOUS
    <3>1. CASE i = n + 1
      <4>1. i # 1 => n \in 1 .. n /\ i - 1 = n  BY <3>1
      <4>2. g[i] = IF i = 1 THEN S[i] ELSE f[n] \o S[i]  BY <3>1
      <4> HIDE DEF g
      <4> QED  BY <2>3, <4>1, <4>2
    <3>2. CASE i # n + 1
      <4>1. i \in 1 .. n /\ (i # 1 => i - 1 \in 1 .. n)  BY <3>2
      <4> HIDE DEF g
      <4> QED  BY <2>2, <2>3, <4>1
    <3> QED  BY <3>1, <3>2
  <2>5. g = [i \in 1 .. n + 1 |-> g[i]]  OBVIOUS
  <2> HIDE DEF g
  <2>6. IsFlat(g, S, n + 1)  BY <2>4, <2>5 DEF IsFlat
  <2> QED  BY <2>6
<1> HIDE DEF D
<1>3. Nat \subseteq D  BY <1>1, <1>2, SetInduction
<1> QED  BY <1>3 DEF D

LEMMA FlatAgrees ==
  ASSUME NEW f, NEW g, NEW S, NEW U, NEW n \in Nat, NEW m \in Nat, n <= m,
         IsFlat(f, S, n), IsFlat(g, U, m), \A i \in 1 .. n : S[i] = U[i]
  PROVE  \A i \in 1 .. n : f[i] = g[i]
<1> DEFINE D == {i \in Nat : i \in 1 .. n => f[i] = g[i]}
<1>1. /\ \A i \in 1 .. n : f[i] = IF i = 1 THEN S[i] ELSE f[i - 1] \o S[i]
      /\ \A i \in 1 .. m : g[i] = IF i = 1 THEN U[i] ELSE g[i - 1] \o U[i]
  BY DEF IsFlat
<1>2. 0 \in D  OBVIOUS
<1>3. ASSUME NEW i \in Nat, i \in D PROVE i + 1 \in D
  <2> SUFFICES ASSUME i + 1 \in 1 .. n PROVE f[i + 1] = g[i + 1]
    OBVIOUS
  <2>1. i + 1 \in 1 .. m /\ (i + 1) - 1 = i /\ (i + 1 # 1 => i \in 1 .. n)
    OBVIOUS
  <2>2. i + 1 # 1 => f[i] = g[i]  BY <1>3, <2>1
  <2>3. f[i + 1] = IF i + 1 = 1 THEN S[i + 1] ELSE f[i] \o S[i + 1]
    BY <1>1, <2>1
  <2>4. g[i + 1] = IF i + 1 = 1 THEN U[i + 1] ELSE g[i] \o U[i + 1]
    BY <1>1, <2>1
  <2> QED  BY <2>2, <2>3, <2>4
<1> HIDE DEF D
<1>4. Nat \subseteq D  BY <1>2, <1>3, SetInduction
<1> QED  BY <1>4 DEF D

LEMMA FlattenIs ==
  ASSUME NEW S, Len(S) \in Nat, Len(S) # 0
  PROVE  \E f : IsFlat(f, S, Len(S)) /\ FlattenSeq(S) = f[Len(S)]
<1> DEFINE h == CHOOSE f : IsFlat(f, S, Len(S))
<1>1. IsFlat(h, S, Len(S))  BY FlatExists
<1>2. FlattenSeq(S) = h[Len(S)]  BY DEF FlattenSeq, IsFlat
<1> QED  BY <1>1, <1>2

\* One more sequence is joined at the end.
LEMMA FlattenAppend ==
  ASSUME NEW T, NEW S \in Seq(Seq(T)), NEW x \in Seq(T)
  PROVE  FlattenSeq(Append(S, x)) = FlattenSeq(S) \o x
<1> DEFINE n == Len(S)
           U == Append(S, x)
<1>1. /\ n \in Nat /\ Len(U) = n + 1 /\ U[n + 1] = x
      /\ \A i \in 1 .. n : S[i] = U[i]
  OBVIOUS
<1> HIDE DEF U
<1>2. PICK g : IsFlat(g, U, n + 1) /\ FlattenSeq(U) = g[n + 1]
  BY <1>1, FlattenIs
<1>3. g[n + 1] = IF n = 0 THEN x ELSE g[n] \o x
  <2>1. n + 1 \in 1 .. n + 1 /\ (n + 1) - 1 = n /\ (n + 1 = 1 <=> n = 0)
    BY <1>1
  <2> QED  BY <1>1, <1>2, <2>1 DEF IsFlat
<1>4. CASE n = 0
  <2>1. FlattenSeq(S) = <<>>  BY <1>4 DEF FlattenSeq
  <2>2. <<>> \o x = x  OBVIOUS
  <2> QED  BY <1>2, <1>3, <1>4, <2>1, <2>2 DEF U
<1>5. CASE n # 0
  <2>1. PICK f : IsFlat(f, S, n) /\ FlattenSeq(S) = f[n]  BY <1>1, <1>5, FlattenIs
  <2>2. n <= n + 1 /\ n \in 1 .. n /\ n + 1 \in Nat  BY <1>1, <1>5
  <2>3. f[n] = g[n]
    <3>1. \A i \in 1 .. n : S[i] = U[i]  BY <1>1
    <3>2. IsFlat(f, S, n) /\ IsFlat(g, U, n + 1) /\ n \in Nat  BY <1>1, <1>2, <2>1
    <3> HIDE DEF n
    <3>3. \A i \in 1 .. n : f[i] = g[i]  BY <2>2, <3>1, <3>2, FlatAgrees
    <3> QED  BY <2>2, <3>3
  <2> QED  BY <1>2, <1>3, <1>5, <2>1, <2>3 DEF U
<1> QED  BY <1>4, <1>5

LEMMA FlattenTyped ==
  ASSUME NEW T, NEW S \in Seq(Seq(T))
  PROVE  FlattenSeq(S) \in Seq(T)
<1> DEFINE n == Len(S)
<1>1. n \in Nat  OBVIOUS
<1>2. CASE n = 0
  <2>1. FlattenSeq(S) = <<>>  BY <1>2 DEF FlattenSeq
  <2> QED  BY <2>1
<1>3. CASE n # 0
  <2>1. PICK f : IsFlat(f, S, n) /\ FlattenSeq(S) = f[n]  BY <1>1, <1>3, FlattenIs
  <2>2. \A i \in 1 .. n : f[i] = IF i = 1 THEN S[i] ELSE f[i - 1] \o S[i]
    BY <2>1 DEF IsFlat
  <2> DEFINE D == {i \in Nat : i \in 1 .. n => f[i] \in Seq(T)}
  <2>3. 0 \in D  OBVIOUS
  <2>4. ASSUME NEW i \in Nat, i \in D PROVE i + 1 \in D
    <3> SUFFICES ASSUME i + 1 \in 1 .. n PROVE f[i + 1] \in Seq(T)
      OBVIOUS
    <3>1. S[i + 1] \in Seq(T) /\ (i + 1) - 1 = i /\ (i + 1 # 1 => i \in 1 .. n)
      OBVIOUS
    <3>2. i + 1 # 1 => f[i] \in Seq(T)  BY <2>4, <3>1
    <3>3. f[i + 1] = IF i + 1 = 1 THEN S[i + 1] ELSE f[i] \o S[i + 1]
      BY <2>2, <3>1
    <3> QED  BY <3>1, <3>2, <3>3
  <2> HIDE DEF D
  <2>5. Nat \subseteq D  BY <2>3, <2>4, SetInduction
  <2>6. n \in 1 .. n  BY <1>1, <1>3
  <2> QED  BY <1>1, <2>1, <2>5, <2>6 DEF D
<1> QED  BY <1>2, <1>3

LEMMA AppendBehind ==
  ASSUME NEW T, NEW s \in Seq(T), NEW t \in Seq(T), NEW x \in T
  PROVE  s \o Append(t, x) = Append(s \o t, x)
OBVIOUS

\* Joining what is joined already.
LEMMA FlattenConcat ==
  ASSUME NEW T, NEW S \in Seq(Seq(T)), NEW U \in Seq(Seq(T))
  PROVE  FlattenSeq(S \o U) = FlattenSeq(S) \o FlattenSeq(U)
<1> DEFINE V(n) == SubSeq(U, 1, n)
           D == {n \in Nat : n <= Len(U) =>
                   FlattenSeq(S \o V(n)) = FlattenSeq(S) \o FlattenSeq(V(n))}
<1>1. 0 \in D
  <2>1. V(0) = <<>>  OBVIOUS
  <2>2. FlattenSeq(<<>>) = <<>>  BY DEF FlattenSeq
  <2>3. FlattenSeq(S) \in Seq(T)  BY FlattenTyped
  <2> HIDE DEF V
  <2>4. S \o <<>> = S /\ FlattenSeq(S) \o <<>> = FlattenSeq(S)  BY <2>3
  <2> QED  BY <2>1, <2>2, <2>4
<1>2. ASSUME NEW n \in Nat, n \in D PROVE n + 1 \in D
  <2> SUFFICES ASSUME n + 1 <= Len(U)
      PROVE FlattenSeq(S \o V(n + 1)) = FlattenSeq(S) \o FlattenSeq(V(n + 1))
    OBVIOUS
  <2>1. /\ V(n) \in Seq(Seq(T)) /\ U[n + 1] \in Seq(T)
        /\ V(n + 1) = Append(V(n), U[n + 1])
    OBVIOUS
  <2>2. FlattenSeq(S \o V(n)) = FlattenSeq(S) \o FlattenSeq(V(n))  BY <1>2
  <2> HIDE DEF V
  <2>3. S \o V(n) \in Seq(Seq(T)) /\ S \o V(n + 1) = Append(S \o V(n), U[n + 1])
    <3> DEFINE A == Seq(T)
               v == V(n)
               u == U[n + 1]
    <3>1. S \in Seq(A) /\ v \in Seq(A) /\ u \in A  BY <2>1
    <3> HIDE DEF A, v, u
    <3>2. S \o v \in Seq(A) /\ S \o Append(v, u) = Append(S \o v, u)
      BY <3>1, AppendBehind
    <3> QED  BY <2>1, <3>2 DEF A, v, u
  <2>4. /\ FlattenSeq(S) \in Seq(T) /\ FlattenSeq(V(n)) \in Seq(T)
    BY <2>1, FlattenTyped
  <2>5. FlattenSeq(S \o V(n + 1)) = FlattenSeq(S \o V(n)) \o U[n + 1]
    BY <2>1, <2>3, FlattenAppend
  <2>6. FlattenSeq(V(n + 1)) = FlattenSeq(V(n)) \o U[n + 1]
    BY <2>1, FlattenAppend
  <2> DEFINE s == FlattenSeq(S)
             v == FlattenSeq(V(n))
             u == U[n + 1]
  <2>7. s \in Seq(T) /\ v \in Seq(T) /\ u \in Seq(T)  BY <2>1, <2>4
  <2>8. (s \o v) \o u = s \o (v \o u)
    <3> HIDE DEF s, v, u
    <3> QED  BY <2>7, SMTT(30)
  <2> QED  BY <2>2, <2>5, <2>6, <2>8
<1> HIDE DEF D
<1>3. Nat \subseteq D  BY <1>1, <1>2, SetInduction
<1>4. Len(U) \in Nat /\ V(Len(U)) = U  OBVIOUS
<1> HIDE DEF V
<1>5. Len(U) \in D /\ Len(U) <= Len(U)  BY <1>3, <1>4
<1>6. FlattenSeq(S \o V(Len(U))) = FlattenSeq(S) \o FlattenSeq(V(Len(U)))
  BY <1>5 DEF D
<1> QED  BY <1>4, <1>6

\* One sequence more in front.
LEMMA FlattenCons ==
  ASSUME NEW T, NEW x \in Seq(T), NEW S \in Seq(Seq(T)), NEW U,
         U = [k \in 1 .. Len(S) + 1 |-> IF k = 1 THEN x ELSE S[k - 1]]
  PROVE  FlattenSeq(U) = x \o FlattenSeq(S)
<1>1. U = <<x>> \o S  OBVIOUS
<1>2. <<>> \in Seq(Seq(T)) /\ <<x>> = Append(<<>>, x) /\ <<x>> \in Seq(Seq(T))
  OBVIOUS
<1>3. FlattenSeq(<<x>>) = FlattenSeq(<<>>) \o x  BY <1>2, FlattenAppend
<1>4. FlattenSeq(<<>>) = <<>>  BY DEF FlattenSeq
<1>5. FlattenSeq(<<x>>) = x  BY <1>3, <1>4, SMTT(30)
<1> QED  BY <1>1, <1>2, <1>5, FlattenConcat, ZenonT(40)

\* Sequences of one element each.
LEMMA FlattenUnits ==
  ASSUME NEW T, NEW x \in Seq(T), NEW S,
         S = [n \in DOMAIN x |-> <<x[n]>>]
  PROVE  FlattenSeq(S) = x
<1> DEFINE V(n) == SubSeq(S, 1, n)
           D == {n \in Nat : n <= Len(x) => FlattenSeq(V(n)) = SubSeq(x, 1, n)}
<1>0. S \in Seq(Seq(T)) /\ Len(S) = Len(x)
  <2>1. \A n \in 1 .. Len(x) : S[n] \in Seq(T)  OBVIOUS
  <2>2. S = [n \in 1 .. Len(x) |-> S[n]] /\ Len(x) \in Nat  OBVIOUS
  <2> QED  BY <2>1, <2>2
<1>1. 0 \in D
  <2>1. V(0) = <<>> /\ SubSeq(x, 1, 0) = <<>>  BY <1>0
  <2>2. FlattenSeq(<<>>) = <<>>  BY DEF FlattenSeq
  <2> HIDE DEF V
  <2> QED  BY <2>1, <2>2
<1>2. ASSUME NEW n \in Nat, n \in D PROVE n + 1 \in D
  <2> SUFFICES ASSUME n + 1 <= Len(x)
      PROVE FlattenSeq(V(n + 1)) = SubSeq(x, 1, n + 1)
    OBVIOUS
  <2>1. S[n + 1] = <<x[n + 1]>> /\ <<x[n + 1]>> \in Seq(T)  OBVIOUS
  <2>2. V(n) \in Seq(Seq(T)) /\ V(n + 1) = Append(V(n), S[n + 1])  BY <1>0
  <2>3. FlattenSeq(V(n)) = SubSeq(x, 1, n)  BY <1>2
  <2>4. SubSeq(x, 1, n + 1) = SubSeq(x, 1, n) \o <<x[n + 1]>>  OBVIOUS
  <2> HIDE DEF V
  <2> QED  BY <2>1, <2>2, <2>3, <2>4, FlattenAppend
<1> HIDE DEF D
<1>3. Nat \subseteq D  BY <1>1, <1>2, SetInduction
<1>4. Len(x) \in Nat /\ V(Len(x)) = S /\ SubSeq(x, 1, Len(x)) = x  BY <1>0
<1> HIDE DEF V
<1>5. Len(x) \in D /\ Len(x) <= Len(x)  BY <1>3, <1>4
<1>6. FlattenSeq(V(Len(x))) = SubSeq(x, 1, Len(x))  BY <1>5 DEF D
<1> QED  BY <1>4, <1>6

\* Sequences without an element.
LEMMA FlattenEmpties ==
  ASSUME NEW n \in Nat, NEW S, S = [k \in 1 .. n |-> <<>>]
  PROVE  FlattenSeq(S) = <<>>
<1> DEFINE E(i) == [k \in 1 .. i |-> <<>>]
           D == {i \in Nat : FlattenSeq(E(i)) = <<>>}
<1>1. 0 \in D
  <2>1. E(0) = <<>>  OBVIOUS
  <2>2. FlattenSeq(<<>>) = <<>>  BY DEF FlattenSeq
  <2> HIDE DEF E
  <2> QED  BY <2>1, <2>2
<1>2. ASSUME NEW i \in Nat, i \in D PROVE i + 1 \in D
  <2>1. E(i) \in Seq(Seq({})) /\ E(i + 1) = Append(E(i), <<>>)  OBVIOUS
  <2>2. FlattenSeq(E(i)) = <<>> /\ <<>> \in Seq({}) /\ <<>> \o <<>> = <<>>  BY <1>2
  <2> HIDE DEF E
  <2>3. FlattenSeq(E(i + 1)) = FlattenSeq(E(i)) \o <<>>
    BY <2>1, <2>2, FlattenAppend
  <2> QED  BY <2>2, <2>3
<1> HIDE DEF D
<1>3. Nat \subseteq D  BY <1>1, <1>2, SetInduction
<1> QED  BY <1>3 DEF D

-----------------------------------------------------------------------------
(***************************************************************************)
(* The locations a sequence of signals reports.                            *)
(***************************************************************************)
Uri == File \cup {TitleText}

\* What the n-th signal adds to them.
UriOf(sig) == IF sig.sig = "entry" THEN <<sig.uri>> ELSE <<>>

LEMMA UriParts ==
  ASSUME NEW s \in Seq(Signal)
  PROVE  LET S == [n \in DOMAIN s |-> UriOf(s[n])]
         IN  /\ UrisOf(s) = FlattenSeq(S) /\ S \in Seq(Seq(Uri))
             /\ Len(S) = Len(s) /\ \A n \in 1 .. Len(s) : S[n] = UriOf(s[n])
<1> DEFINE S == [n \in DOMAIN s |-> UriOf(s[n])]
<1>1. UrisOf(s) = FlattenSeq(S)  BY DEF UrisOf, UriOf
<1>2. \A n \in 1 .. Len(s) : UriOf(s[n]) \in Seq(Uri)
  <2>0. \A n \in 1 .. Len(s) : s[n] \in Signal  OBVIOUS
  <2>1. \A n \in 1 .. Len(s) : s[n].uri \in Uri  BY <2>0 DEF Signal, Uri
  <2> QED  BY <2>1 DEF UriOf
<1>3. DOMAIN s = 1 .. Len(s) /\ Len(s) \in Nat  OBVIOUS
<1> QED  BY <1>1, <1>2, <1>3

LEMMA UrisConcat ==
  ASSUME NEW s \in Seq(Signal), NEW t \in Seq(Signal)
  PROVE  UrisOf(s \o t) = UrisOf(s) \o UrisOf(t) /\ UrisOf(s) \in Seq(Uri)
<1> DEFINE P(u) == [n \in DOMAIN u |-> UriOf(u[n])]
<1>1. \A u \in Seq(Signal) : /\ UrisOf(u) = FlattenSeq(P(u)) /\ P(u) \in Seq(Seq(Uri))
                             /\ Len(P(u)) = Len(u)
                             /\ \A n \in 1 .. Len(u) : P(u)[n] = UriOf(u[n])
  <2> TAKE u \in Seq(Signal)
  <2> QED  BY UriParts
<1> HIDE DEF P
<1>2. s \o t \in Seq(Signal)  OBVIOUS
<1>3. P(s \o t) = P(s) \o P(t)
  <2> DEFINE A == Seq(Uri)
             a == P(s)
             b == P(t)
             c == P(s \o t)
  <2>1. a \in Seq(A) /\ b \in Seq(A) /\ c \in Seq(A)  BY <1>1, <1>2
  <2>2. Len(a) = Len(s) /\ Len(b) = Len(t) /\ Len(c) = Len(s) + Len(t)
    <3>1. Len(s \o t) = Len(s) + Len(t)  OBVIOUS
    <3> QED  BY <1>1, <1>2, <3>1
  <2>3. \A n \in 1 .. Len(s) : c[n] = a[n]
    <3> SUFFICES ASSUME NEW n \in 1 .. Len(s) PROVE c[n] = a[n]
      OBVIOUS
    <3>1. n \in 1 .. Len(s \o t) /\ (s \o t)[n] = s[n]  OBVIOUS
    <3> QED  BY <1>1, <1>2, <3>1
  <2>4. \A n \in 1 .. Len(t) : c[n + Len(s)] = b[n]
    <3> SUFFICES ASSUME NEW n \in 1 .. Len(t) PROVE c[n + Len(s)] = b[n]
      OBVIOUS
    <3>1. n + Len(s) \in 1 .. Len(s \o t) /\ (s \o t)[n + Len(s)] = t[n]  OBVIOUS
    <3> QED  BY <1>1, <1>2, <3>1
  <2>5. Len(s) \in Nat /\ Len(t) \in Nat  OBVIOUS
  <2> HIDE DEF A, a, b, c
  <2>6. /\ a \o b \in Seq(A) /\ Len(a \o b) = Len(c)
        /\ \A n \in 1 .. Len(c) : (a \o b)[n] = c[n]
    <3>1. a \o b \in Seq(A) /\ Len(a \o b) = Len(c)  BY <2>1, <2>2
    <3>2. ASSUME NEW n \in 1 .. Len(c) PROVE (a \o b)[n] = c[n]
      <4>1. CASE n <= Len(s)  BY <2>1, <2>2, <2>3, <2>5, <4>1
      <4>2. CASE n > Len(s)
        <5>1. n - Len(s) \in 1 .. Len(t) /\ (n - Len(s)) + Len(s) = n
          BY <2>2, <2>5, <4>2
        <5>2. (a \o b)[n] = b[n - Len(s)]  BY <2>1, <2>2, <2>5, <4>2
        <5> QED  BY <2>4, <5>1, <5>2
      <4> QED  BY <2>2, <2>5, <4>1, <4>2
    <3> QED  BY <3>1, <3>2
  <2>7. c = a \o b  BY <2>1, <2>6, SeqEqual
  <2> QED  BY <2>7 DEF a, b, c
<1>4. UrisOf(s \o t) = FlattenSeq(P(s) \o P(t))  BY <1>1, <1>2, <1>3
<1>5. P(s) \in Seq(Seq(Uri)) /\ P(t) \in Seq(Seq(Uri))  BY <1>1
<1>6. FlattenSeq(P(s) \o P(t)) = FlattenSeq(P(s)) \o FlattenSeq(P(t))
  BY <1>5, FlattenConcat
<1>7. FlattenSeq(P(s)) \in Seq(Uri)  BY <1>5, FlattenTyped
<1> QED  BY <1>1, <1>4, <1>6, <1>7

\* Signals that are no entries report nothing.
LEMMA UrisNone ==
  ASSUME NEW s \in Seq(Signal), \A n \in 1 .. Len(s) : s[n].sig # "entry"
  PROVE  UrisOf(s) = <<>>
<1> DEFINE S == [n \in DOMAIN s |-> UriOf(s[n])]
<1>1. UrisOf(s) = FlattenSeq(S)  BY UriParts
<1>2. S = [n \in 1 .. Len(s) |-> <<>>] /\ Len(s) \in Nat  BY DEF UriOf
<1> HIDE DEF S
<1> QED  BY <1>1, <1>2, FlattenEmpties

\* Entries report their locations.
LEMMA UrisAll ==
  ASSUME NEW s \in Seq(Signal), \A n \in 1 .. Len(s) : s[n].sig = "entry"
  PROVE  UrisOf(s) = [n \in 1 .. Len(s) |-> s[n].uri]
<1> DEFINE S == [n \in DOMAIN s |-> UriOf(s[n])]
           x == [n \in 1 .. Len(s) |-> s[n].uri]
<1>1. UrisOf(s) = FlattenSeq(S)  BY UriParts
<1>2. x \in Seq(Uri)
  <2>0. \A n \in 1 .. Len(s) : s[n] \in Signal  OBVIOUS
  <2>1. \A n \in 1 .. Len(s) : s[n].uri \in Uri  BY <2>0 DEF Signal, Uri
  <2> QED  BY <2>1
<1>3. S = [n \in DOMAIN x |-> <<x[n]>>]  BY DEF UriOf
<1> HIDE DEF S, x
<1>4. FlattenSeq(S) = x  BY <1>2, <1>3, FlattenUnits
<1> QED  BY <1>1, <1>4 DEF x

-----------------------------------------------------------------------------
(***************************************************************************)
(* What is left of a loop, one item after the other.                       *)
(***************************************************************************)
RefRecord == [to : File, nested : BOOLEAN]
WorkItem  == [file : File, depth : Nat, nested : BOOLEAN, forced : BOOLEAN]

LEMMA NestsTyped == ASSUME NEW item PROVE Nests(item) \in BOOLEAN
BY DEF Nests, Ignore

\* What the item n adds to what the loop over f meets from p on.
Meets(f, p, n) ==
  IF /\ docs[f].items[n].how \in {"nested", "direct", "link"}
     /\ \A k \in p .. n : docs[f].items[k].how # "stop"
  THEN <<Ref(docs[f].items[n])>> ELSE <<>>

LEMMA RefsParts ==
  ASSUME docs \in [File -> Document], NEW f \in File, NEW p \in Nat \ {0},
         p <= Len(docs[f].items) + 1
  PROVE  LET S == [k \in 1 .. Len(docs[f].items) - p + 1 |-> Meets(f, p, p + k - 1)]
         IN  /\ RefsFrom(f, p) = FlattenSeq(S) /\ S \in Seq(Seq(RefRecord))
             /\ Len(S) = Len(docs[f].items) - p + 1
             /\ RefsFrom(f, p) \in Seq(RefRecord)
<1> DEFINE items == docs[f].items
           N == Len(items) - p + 1
           S == [k \in 1 .. N |-> Meets(f, p, p + k - 1)]
<1>1. items \in Seq(Item)  BY DocumentTyped
<1>2. N \in Nat  BY <1>1
<1>3. RefsFrom(f, p) = FlattenSeq(S)  BY DEF RefsFrom, Meets
<1>4. \A k \in 1 .. N : Meets(f, p, p + k - 1) \in Seq(RefRecord)
  <2> SUFFICES ASSUME NEW k \in 1 .. N PROVE Meets(f, p, p + k - 1) \in Seq(RefRecord)
    OBVIOUS
  <2>1. p + k - 1 \in 1 .. Len(items)  BY <1>1
  <2>2. Ref(items[p + k - 1]) \in RefRecord
    <3>1. items[p + k - 1].to \in File  BY <2>1, <1>1, DocumentTyped
    <3> QED  BY <3>1, NestsTyped DEF Ref, RefRecord
  <2> QED  BY <2>2 DEF Meets
<1> HIDE DEF N
<1>5. S \in Seq(Seq(RefRecord)) /\ Len(S) = N  BY <1>2, <1>4
<1> HIDE DEF S
<1>6. FlattenSeq(S) \in Seq(RefRecord)  BY <1>5, FlattenTyped
<1> QED  BY <1>3, <1>5, <1>6 DEF S, N

LEMMA RefsEnd ==
  ASSUME docs \in [File -> Document], NEW f \in File, NEW p \in Nat,
         p > Len(docs[f].items)
  PROVE  RefsFrom(f, p) = <<>>
<1>1. Len(docs[f].items) \in Nat  BY DocumentTyped
<1>2. 1 .. Len(docs[f].items) - p + 1 = 1 .. 0  BY <1>1
<1>3. RefsFrom(f, p) = FlattenSeq([k \in 1 .. 0 |-> Meets(f, p, p + k - 1)])
  BY <1>2 DEF RefsFrom, Meets
<1>4. [k \in 1 .. 0 |-> Meets(f, p, p + k - 1)] = <<>>  OBVIOUS
<1>5. FlattenSeq(<<>>) = <<>>  BY DEF FlattenSeq
<1> QED  BY <1>3, <1>4, <1>5

LEMMA RefsStep ==
  ASSUME docs \in [File -> Document], NEW f \in File, NEW p \in Nat \ {0},
         p <= Len(docs[f].items)
  PROVE  LET item == docs[f].items[p]
         IN  RefsFrom(f, p) =
               IF item.how = "stop" THEN <<>>
               ELSE IF item.how \in {"nested", "direct", "link"}
                    THEN <<Ref(item)>> \o RefsFrom(f, p + 1) ELSE RefsFrom(f, p + 1)
<1> DEFINE items == docs[f].items
           N == Len(items) - p
           S == [k \in 1 .. Len(items) - p + 1 |-> Meets(f, p, p + k - 1)]
           R == [k \in 1 .. Len(items) - (p + 1) + 1 |-> Meets(f, p + 1, (p + 1) + k - 1)]
<1>0. items \in Seq(Item) /\ N \in Nat  BY DocumentTyped
<1>1. RefsFrom(f, p) = FlattenSeq(S) /\ S \in Seq(Seq(RefRecord))
  <2>1. p <= Len(items) + 1  BY <1>0
  <2> QED  BY <2>1, RefsParts
<1>2. /\ RefsFrom(f, p + 1) = FlattenSeq(R) /\ R \in Seq(Seq(RefRecord))
      /\ Len(R) = N /\ RefsFrom(f, p + 1) \in Seq(RefRecord)
  <2>1. p + 1 \in Nat \ {0} /\ p + 1 <= Len(items) + 1
        /\ Len(items) - (p + 1) + 1 = N
    BY <1>0
  <2> QED  BY <2>1, RefsParts
<1>3. DOMAIN S = 1 .. N + 1 /\ DOMAIN R = 1 .. N  BY <1>0
<1>4. \A k \in 1 .. N + 1 : S[k] = Meets(f, p, p + k - 1)  BY <1>0, <1>3
<1>5. \A k \in 1 .. N : R[k] = Meets(f, p + 1, p + k)
  <2> SUFFICES ASSUME NEW k \in 1 .. N PROVE R[k] = Meets(f, p + 1, p + k)
    OBVIOUS
  <2>1. (p + 1) + k - 1 = p + k  OBVIOUS
  <2> QED  BY <1>3, <2>1
<1>6. CASE items[p].how = "stop"
  <2>1. \A k \in 1 .. N + 1 : S[k] = <<>>
    <3> SUFFICES ASSUME NEW k \in 1 .. N + 1 PROVE S[k] = <<>>
      OBVIOUS
    <3>1. p \in p .. p + k - 1  BY <1>0
    <3> QED  BY <1>4, <1>6, <3>1 DEF Meets
  <2>2. N + 1 \in Nat /\ S \in Seq(Seq(RefRecord))  BY <1>0, <1>1
  <2>3. S = [k \in 1 .. N + 1 |-> S[k]]  BY <1>0
  <2> HIDE DEF S
  <2>4. S = [k \in 1 .. N + 1 |-> <<>>]  BY <2>1, <2>3
  <2>5. FlattenSeq(S) = <<>>  BY <2>2, <2>4, FlattenEmpties
  <2> QED  BY <1>1, <1>6, <2>5
<1>7. CASE items[p].how # "stop"
  <2> DEFINE x == IF items[p].how \in {"nested", "direct", "link"}
                  THEN <<Ref(items[p])>> ELSE <<>>
  <2>1. S[1] = x
    <3>1. 1 \in 1 .. N + 1 /\ p + 1 - 1 = p  BY <1>0
    <3>2. \A k \in p .. p : k = p  OBVIOUS
    <3> QED  BY <1>4, <1>7, <3>1, <3>2 DEF Meets
  <2>2. \A k \in 1 .. N : S[k + 1] = R[k]
    <3> SUFFICES ASSUME NEW k \in 1 .. N PROVE S[k + 1] = R[k]
      OBVIOUS
    <3>1. k + 1 \in 1 .. N + 1 /\ p + (k + 1) - 1 = p + k  BY <1>0
    <3>2. (\A m \in p .. p + k : items[m].how # "stop")
            <=> (\A m \in p + 1 .. p + k : items[m].how # "stop")
      BY <1>7
    <3>3. S[k + 1] = Meets(f, p, p + k)  BY <1>4, <3>1
    <3>4. R[k] = Meets(f, p + 1, p + k)  BY <1>5
    <3>5. Meets(f, p, p + k) = Meets(f, p + 1, p + k)  BY <3>2, Zenon DEF Meets
    <3> QED  BY <3>3, <3>4, <3>5
  <2>3. x \in Seq(RefRecord)
    <3>1. items[p].to \in File  BY <1>0, DocumentTyped
    <3>2. Ref(items[p]) \in RefRecord  BY <3>1, NestsTyped DEF Ref, RefRecord
    <3> QED  BY <3>2
  <2> HIDE DEF x
  <2>4. S = [k \in 1 .. Len(R) + 1 |-> IF k = 1 THEN x ELSE R[k - 1]]
    <3>1. \A k \in 1 .. N + 1 : S[k] = IF k = 1 THEN x ELSE R[k - 1]
      <4> SUFFICES ASSUME NEW k \in 1 .. N + 1, k # 1 PROVE S[k] = R[k - 1]
        BY <2>1
      <4>1. k - 1 \in 1 .. N /\ (k - 1) + 1 = k  BY <1>0
      <4> QED  BY <2>2, <4>1
    <3> HIDE DEF R
    <3> QED  BY <1>2, <1>3, <3>1
  <2> HIDE DEF S, R
  <2>5. FlattenSeq(S) = x \o FlattenSeq(R)  BY <1>2, <2>3, <2>4, FlattenCons
  <2>6. RefsFrom(f, p) = x \o RefsFrom(f, p + 1)  BY <1>1, <1>2, <2>5
  <2>7. <<>> \o RefsFrom(f, p + 1) = RefsFrom(f, p + 1)  BY <1>2
  <2> QED  BY <1>7, <2>6, <2>7 DEF x
<1> QED  BY <1>6, <1>7

\* An item as pending work of the loop that frame stands for.
Todo(frame, ref, depth) ==
  [file |-> ref.to, depth |-> depth, nested |-> ref.nested,
   forced |-> frame.kind # "directory"]

LEMMA PendingIs ==
  ASSUME NEW frame, NEW p, NEW d \in Nat, RefsFrom(frame.file, p) \in Seq(RefRecord)
  PROVE  LET refs == RefsFrom(frame.file, p)
         IN  /\ Pending(frame, p, d) \in Seq(WorkItem)
             /\ Len(Pending(frame, p, d)) = Len(refs)
             /\ \A k \in 1 .. Len(refs) :
                  Pending(frame, p, d)[k] = Todo(frame, refs[k], d)
<1> DEFINE refs == RefsFrom(frame.file, p)
<1>1. Pending(frame, p, d) = [k \in DOMAIN refs |-> Todo(frame, refs[k], d)]
  BY DEF Pending, Todo
<1>2. \A k \in 1 .. Len(refs) : Todo(frame, refs[k], d) \in WorkItem
  <2> SUFFICES ASSUME NEW k \in 1 .. Len(refs) PROVE Todo(frame, refs[k], d) \in WorkItem
    OBVIOUS
  <2>1. refs[k] \in RefRecord  OBVIOUS
  <2> QED  BY <2>1 DEF Todo, RefRecord, WorkItem
<1>3. Len(refs) \in Nat /\ DOMAIN refs = 1 .. Len(refs)  OBVIOUS
<1> HIDE DEF refs
<1>4. /\ [k \in DOMAIN refs |-> Todo(frame, refs[k], d)] \in Seq(WorkItem)
      /\ Len([k \in DOMAIN refs |-> Todo(frame, refs[k], d)]) = Len(refs)
  BY <1>2, <1>3
<1> QED  BY <1>1, <1>3, <1>4 DEF refs

LEMMA PendingTyped ==
  ASSUME docs \in [File -> Document], NEW frame \in Frame, NEW p \in Nat \ {0},
         NEW d \in Nat
  PROVE  /\ RefsFrom(frame.file, p) \in Seq(RefRecord)
         /\ Pending(frame, p, d) \in Seq(WorkItem)
         /\ p > Len(docs[frame.file].items) => Pending(frame, p, d) = <<>>
<1>1. frame.file \in File /\ Len(docs[frame.file].items) \in Nat
  BY DocumentTyped DEF Frame
<1>2. CASE p > Len(docs[frame.file].items)
  <2>1. RefsFrom(frame.file, p) = <<>>  BY <1>1, <1>2, RefsEnd
  <2>2. RefsFrom(frame.file, p) \in Seq(RefRecord) /\ Len(RefsFrom(frame.file, p)) = 0
    BY <2>1
  <2>3. Pending(frame, p, d) \in Seq(WorkItem) /\ Len(Pending(frame, p, d)) = 0
    BY <2>2, PendingIs
  <2> QED  BY <2>2, <2>3
<1>3. CASE p <= Len(docs[frame.file].items)
  <2>1. p <= Len(docs[frame.file].items) + 1  BY <1>1, <1>3
  <2>2. RefsFrom(frame.file, p) \in Seq(RefRecord)  BY <1>1, <2>1, RefsParts
  <2> QED  BY <1>1, <1>3, <2>2, PendingIs
<1> QED  BY <1>1, <1>2, <1>3

LEMMA PendingStep ==
  ASSUME docs \in [File -> Document], NEW frame \in Frame, NEW p \in Nat \ {0},
         NEW d \in Nat, p <= Len(docs[frame.file].items)
  PROVE  LET item == docs[frame.file].items[p]
         IN  Pending(frame, p, d) =
               IF item.how = "stop" THEN <<>>
               ELSE IF item.how \in {"nested", "direct", "link"}
                    THEN <<Todo(frame, Ref(item), d)>> \o Pending(frame, p + 1, d)
                    ELSE Pending(frame, p + 1, d)
<1> DEFINE item == docs[frame.file].items[p]
           refs == RefsFrom(frame.file, p)
           rest == RefsFrom(frame.file, p + 1)
           a == Pending(frame, p, d)
           b == Pending(frame, p + 1, d)
<1>1. frame.file \in File /\ Len(docs[frame.file].items) \in Nat
  BY DocumentTyped DEF Frame
<1>2. p + 1 \in Nat \ {0}  OBVIOUS
<1>3. refs \in Seq(RefRecord) /\ rest \in Seq(RefRecord)
  BY <1>2, PendingTyped
<1>4. refs = IF item.how = "stop" THEN <<>>
             ELSE IF item.how \in {"nested", "direct", "link"}
                  THEN <<Ref(item)>> \o rest ELSE rest
  BY <1>1, RefsStep
<1>5. /\ a \in Seq(WorkItem) /\ Len(a) = Len(refs)
      /\ \A k \in 1 .. Len(refs) : a[k] = Todo(frame, refs[k], d)
  BY <1>3, PendingIs
<1>6. /\ b \in Seq(WorkItem) /\ Len(b) = Len(rest)
      /\ \A k \in 1 .. Len(rest) : b[k] = Todo(frame, rest[k], d)
  BY <1>2, <1>3, PendingIs
<1> HIDE DEF item, refs, rest, a, b
<1>7. CASE refs = <<>>  
  <2>1. a = <<>>  BY <1>5, <1>7
  <2>2. CASE item.how = "stop"  BY <2>1, <2>2 DEF item, a, b
  <2>3. CASE item.how # "stop"
    <3>0. refs # <<Ref(item)>> \o rest
      <4> SUFFICES ASSUME refs = <<Ref(item)>> \o rest PROVE FALSE
        OBVIOUS
      <4>1. Len(refs) = Len(rest) + 1 /\ Len(refs) = 0 /\ Len(rest) \in Nat
        BY <1>3, <1>7
      <4> QED  BY <4>1
    <3>1. rest = <<>> /\ item.how \notin {"nested", "direct", "link"}
      BY <1>4, <1>7, <2>3, <3>0
    <3>2. b = <<>>  BY <1>6, <3>1
    <3> QED  BY <2>1, <2>3, <3>1, <3>2 DEF item, a, b
  <2> QED  BY <2>2, <2>3
<1>8. CASE refs = rest /\ item.how \notin {"stop", "nested", "direct", "link"}
  <2>1. a = b  BY <1>5, <1>6, <1>8, SeqEqual
  <2> QED  BY <1>8, <2>1 DEF item, a, b
<1>9. CASE refs = <<Ref(item)>> \o rest /\ item.how \in {"nested", "direct", "link"}
  <2> DEFINE w == Todo(frame, Ref(item), d)
             c == <<w>> \o b
  <2>1. /\ Len(refs) = Len(rest) + 1 /\ refs[1] = Ref(item)
        /\ \A k \in 2 .. Len(refs) : refs[k] = rest[k - 1]
    BY <1>3, <1>9
  <2>2. w \in WorkItem
    <3>1. 1 \in 1 .. Len(refs)  BY <1>3, <2>1
    <3>2. a[1] = w /\ a[1] \in WorkItem  BY <1>5, <2>1, <3>1
    <3> QED  BY <3>2
  <2> HIDE DEF w
  <2>3. /\ c \in Seq(WorkItem) /\ Len(c) = Len(rest) + 1 /\ c[1] = w
        /\ \A k \in 2 .. Len(rest) + 1 : c[k] = b[k - 1]
    BY <1>3, <1>6, <2>2
  <2> HIDE DEF c
  <2>4. \A k \in 1 .. Len(refs) : a[k] = c[k]
    <3> SUFFICES ASSUME NEW k \in 1 .. Len(refs) PROVE a[k] = c[k]
      OBVIOUS
    <3>1. CASE k = 1  BY <1>5, <2>1, <2>3, <3>1 DEF w
    <3>2. CASE k # 1
      <4>1. k \in 2 .. Len(refs) /\ k - 1 \in 1 .. Len(rest)  BY <1>3, <2>1, <3>2
      <4>2. a[k] = Todo(frame, rest[k - 1], d)  BY <1>5, <2>1, <4>1
      <4>3. c[k] = Todo(frame, rest[k - 1], d)  BY <1>6, <2>1, <2>3, <4>1
      <4> QED  BY <4>2, <4>3
    <3> QED  BY <3>1, <3>2
  <2>5. a = c  BY <1>5, <2>1, <2>3, <2>4, SeqEqual
  <2> QED  BY <1>9, <2>5 DEF item, a, b, c, w
<1> QED  BY <1>4, <1>7, <1>8, <1>9

-----------------------------------------------------------------------------
\* The last frame and those below it.
LEMMA FrontLast ==
  ASSUME NEW S, NEW s \in Seq(S)
  PROVE  /\ s # <<>> => /\ Front(s) \in Seq(S) /\ Last(s) \in S
                        /\ s = Append(Front(s), Last(s))
                        /\ Len(Front(s)) = Len(s) - 1
         /\ \A x \in S : /\ Front(Append(s, x)) = s /\ Last(Append(s, x)) = x
                         /\ Append(s, x) # <<>>
<1>1. ASSUME s # <<>>
      PROVE  /\ Front(s) \in Seq(S) /\ Last(s) \in S /\ Len(Front(s)) = Len(s) - 1
             /\ s = Append(Front(s), Last(s))
  <2> DEFINE t == SubSeq(s, 1, Len(s) - 1)
             x == s[Len(s)]
  <2>1. /\ t \in Seq(S) /\ Len(t) = Len(s) - 1
        /\ \A i \in 1 .. Len(s) - 1 : t[i] = s[i]
    BY <1>1, PopTyped
  <2>2. Len(s) \in Nat \ {0} /\ x \in S  BY <1>1
  <2>3. Front(s) = t /\ Last(s) = x  BY DEF Front, Last
  <2> DEFINE u == Append(t, x)
  <2>4. u \in Seq(S) /\ Len(u) = Len(s) /\ \A i \in 1 .. Len(s) : u[i] = s[i]
    <3> HIDE DEF t
    <3>1. \A i \in 1 .. Len(s) - 1 : u[i] = t[i]  BY <2>1, <2>2
    <3>2. u[Len(s)] = x  BY <2>1, <2>2
    <3>3. \A i \in 1 .. Len(s) : i \in 1 .. Len(s) - 1 \/ i = Len(s)  BY <2>2
    <3> QED  BY <2>1, <2>2, <3>1, <3>2, <3>3
  <2> HIDE DEF u
  <2>5. s = u  BY <2>4, SeqEqual
  <2> QED  BY <2>1, <2>2, <2>3, <2>5 DEF u
<1>2. ASSUME NEW x \in S
      PROVE  /\ Front(Append(s, x)) = s /\ Last(Append(s, x)) = x
             /\ Append(s, x) # <<>>
  BY DEF Front, Last
<1> QED  BY <1>1, <1>2

LEMMA BehindParts ==
  ASSUME docs \in [File -> Document], NEW s \in Seq(Frame),
         \A i \in DOMAIN s : s[i].pos >= 1
  PROVE  LET Rest(i) == Pending(s[i], s[i].pos + 1, i)
             S == [m \in 1 .. Len(s) |-> Rest(Len(s) + 1 - m)]
         IN  /\ Behind(s) = FlattenSeq(S) /\ S \in Seq(Seq(WorkItem)) /\ Len(S) = Len(s)
             /\ Behind(s) \in Seq(WorkItem)
<1> DEFINE Rest(i) == Pending(s[i], s[i].pos + 1, i)
           S == [m \in 1 .. Len(s) |-> Rest(Len(s) + 1 - m)]
<1>1. Behind(s) = FlattenSeq(S)  BY DEF Behind
<1>2. \A i \in 1 .. Len(s) : Rest(i) \in Seq(WorkItem)
  <2> SUFFICES ASSUME NEW i \in 1 .. Len(s) PROVE Rest(i) \in Seq(WorkItem)
    OBVIOUS
  <2>1. s[i] \in Frame /\ i \in Nat  OBVIOUS
  <2>2. s[i].pos + 1 \in Nat \ {0}  BY <2>1 DEF Frame
  <2> QED  BY <2>1, <2>2, PendingTyped
<1>3. \A m \in 1 .. Len(s) : Len(s) + 1 - m \in 1 .. Len(s)  OBVIOUS
<1>4. Len(s) \in Nat  OBVIOUS
<1> HIDE DEF Rest
<1>5. S \in Seq(Seq(WorkItem)) /\ Len(S) = Len(s)
  <2>1. \A m \in 1 .. Len(s) : Rest(Len(s) + 1 - m) \in Seq(WorkItem)
    BY <1>2, <1>3
  <2> QED  BY <1>4, <2>1
<1> HIDE DEF S
<1>6. FlattenSeq(S) \in Seq(WorkItem)  BY <1>5, FlattenTyped
<1> QED  BY <1>1, <1>5, <1>6 DEF S, Rest

\* One more loop.
LEMMA BehindPush ==
  ASSUME docs \in [File -> Document], NEW s \in Seq(Frame), NEW x \in Frame,
         \A i \in DOMAIN s : s[i].pos >= 1, x.pos >= 1
  PROVE  Behind(Append(s, x)) = Pending(x, x.pos + 1, Len(s) + 1) \o Behind(s)
<1> DEFINE n == Len(s)
           t == Append(s, x)
           S == [m \in 1 .. Len(s) |->
                   Pending(s[Len(s) + 1 - m], s[Len(s) + 1 - m].pos + 1, Len(s) + 1 - m)]
           U == [m \in 1 .. Len(t) |->
                   Pending(t[Len(t) + 1 - m], t[Len(t) + 1 - m].pos + 1, Len(t) + 1 - m)]
           p == Pending(x, x.pos + 1, n + 1)
<1>1. /\ t \in Seq(Frame) /\ Len(t) = n + 1 /\ t[n + 1] = x
      /\ \A i \in 1 .. n : t[i] = s[i]
      /\ n \in Nat
  OBVIOUS
<1>2. \A i \in DOMAIN t : t[i].pos >= 1  BY <1>1
<1>3. Behind(s) = FlattenSeq(S) /\ S \in Seq(Seq(WorkItem)) /\ Len(S) = n
  BY BehindParts
<1>4. Behind(t) = FlattenSeq(U)
  <2> HIDE DEF t
  <2> QED  BY <1>1, <1>2, BehindParts
<1>5. p \in Seq(WorkItem)
  <2>1. x.pos + 1 \in Nat \ {0} /\ n + 1 \in Nat  BY <1>1 DEF Frame
  <2> QED  BY <2>1, PendingTyped
<1>6. U = [m \in 1 .. Len(S) + 1 |-> IF m = 1 THEN p ELSE S[m - 1]]
  <2> SUFFICES ASSUME NEW m \in 1 .. n + 1
      PROVE  U[m] = IF m = 1 THEN p ELSE S[m - 1]
    <3>1. U = [m \in 1 .. n + 1 |-> U[m]]
      <4> HIDE DEF t
      <4> QED  BY <1>1
    <3> HIDE DEF S, U, p, t
    <3> QED  BY <1>3, <3>1
  <2>1. U[m] = Pending(t[n + 2 - m], t[n + 2 - m].pos + 1, n + 2 - m)
    <3>1. Len(t) + 1 - m = n + 2 - m  BY <1>1
    <3> HIDE DEF t
    <3> QED  BY <1>1, <3>1
  <2>2. CASE m = 1
    <3>1. n + 2 - m = n + 1  BY <1>1, <2>2
    <3> HIDE DEF t
    <3> QED  BY <1>1, <2>1, <2>2, <3>1
  <2>3. CASE m # 1
    <3>1. /\ m - 1 \in 1 .. n /\ n + 2 - m \in 1 .. n
          /\ n + 1 - (m - 1) = n + 2 - m
      BY <1>1, <2>3
    <3>2. S[m - 1] = Pending(s[n + 2 - m], s[n + 2 - m].pos + 1, n + 2 - m)
      BY <3>1
    <3> HIDE DEF t, S
    <3> QED  BY <1>1, <2>1, <2>3, <3>1, <3>2
  <2> QED  BY <2>2, <2>3
<1> HIDE DEF S, U, p
<1>7. FlattenSeq(U) = p \o FlattenSeq(S)  BY <1>3, <1>5, <1>6, FlattenCons
<1> QED  BY <1>3, <1>4, <1>7 DEF p

LEMMA BehindNone == Behind(<<>>) = <<>>
<1>1. Len(<<>>) = 0  OBVIOUS
<1>2. Behind(<<>>) = FlattenSeq([m \in 1 .. 0 |->
          Pending(<<>>[0 + 1 - m], <<>>[0 + 1 - m].pos + 1, 0 + 1 - m)])
  BY <1>1 DEF Behind
<1>3. Behind(<<>>) = FlattenSeq(<<>>)  BY <1>2
<1> QED  BY <1>3 DEF FlattenSeq

-----------------------------------------------------------------------------
\* The documents do not change, and neither does what hangs on them.
LEMMA MappingSame ==
  ASSUME UNCHANGED docs
  PROVE  /\ \A f, p : RefsFrom(f, p)' = RefsFrom(f, p)
         /\ \A s : Behind(s)' = Behind(s) /\ Left(s)' = Left(s)
         /\ \A item : Ref(item)' = Ref(item)
<1>1. \A item : Nests(item)' = Nests(item)  BY DEF Nests, Ignore
<1>2. \A item : Ref(item)' = Ref(item)  BY <1>1 DEF Ref
<1>3. \A f, p : RefsFrom(f, p)' = RefsFrom(f, p)
  <2> SUFFICES ASSUME NEW f, NEW p PROVE RefsFrom(f, p)' = RefsFrom(f, p)
    OBVIOUS
  <2> QED  BY <1>2, Zenon DEF RefsFrom
<1>4. \A frame, p, d : Pending(frame, p, d)' = Pending(frame, p, d)
  BY <1>3 DEF Pending
<1>5. \A s : Behind(s)' = Behind(s)  BY <1>4 DEF Behind
<1>6. \A s : Left(s)' = Left(s)  BY <1>4, <1>5 DEF Left
<1> QED  BY <1>2, <1>3, <1>5, <1>6

-----------------------------------------------------------------------------
(***************************************************************************)
(* What a handler that returns SUCCESS reports: nothing, the document      *)
(* itself, or all the document holds.                                      *)
(***************************************************************************)
TargetsOf(f) == [n \in 1 .. Len(docs[f].items) |-> docs[f].items[n].to]

Told(f, out) ==
  \/ /\ UrisOf(out.sigs) = <<>>
     /\ out.kind # "none" \/ out.ret # "SUCCESS" \/ out.sigs = <<>>
  \/ /\ out.kind = "none" /\ out.ret = "SUCCESS"
     /\ out.sigs = Itself(f) \/ UrisOf(out.sigs) = TargetsOf(f)

LEMMA SignalUris ==
  ASSUME docs \in [File -> Document], NEW f \in File
  PROVE  /\ UrisOf(<<>>) = <<>>
         /\ UrisOf(Entries(f)) = TargetsOf(f)
         /\ UrisOf(Itself(f)) = <<f>>
         /\ UrisOf(<<Started(f)>>) = <<>>
         /\ \A uri \in File \cup {TitleText} : UrisOf(<<Ended(uri, f)>>) = <<>>
         /\ UrisOf([i \in 1 .. docs[f].heads |-> Started(f)]) = <<>>
         /\ UrisOf(<<Started(f)>> \o Entries(f)) = TargetsOf(f)
         /\ UrisOf(<<Started(f)>> \o Entries(f) \o <<Ended(f, f)>>) = TargetsOf(f)
         /\ UrisOf(Entries(f) \o <<Ended(f, f)>>) = TargetsOf(f)
<1>0. /\ Entries(f) \in Seq(Signal) /\ Itself(f) \in Seq(Signal)
      /\ <<Started(f)>> \in Seq(Signal) /\ Len(Entries(f)) = Len(docs[f].items)
      /\ \A uri \in File \cup {TitleText} : <<Ended(uri, f)>> \in Seq(Signal)
      /\ <<>> \in Seq(Signal)
  BY EntriesTyped
<1>1. UrisOf(<<>>) = <<>>
  <2>1. \A n \in 1 .. Len(<<>>) : <<>>[n].sig # "entry"  OBVIOUS
  <2> QED  BY <1>0, <2>1, UrisNone
<1>2. UrisOf(Entries(f)) = TargetsOf(f)
  <2>1. \A n \in 1 .. Len(docs[f].items) : /\ Entries(f)[n].sig = "entry"
                                           /\ Entries(f)[n].uri = docs[f].items[n].to
    BY DEF Entries, Entry
  <2>2. UrisOf(Entries(f)) = [n \in 1 .. Len(Entries(f)) |-> Entries(f)[n].uri]
    BY <1>0, <2>1, UrisAll
  <2> QED  BY <1>0, <2>1, <2>2 DEF TargetsOf
<1>3. UrisOf(Itself(f)) = <<f>>
  <2> DEFINE e == Entry(f, 0, f, 0)
  <2>1. Itself(f) = <<e>> /\ e.sig = "entry" /\ e.uri = f  BY DEF Itself, Entry
  <2> HIDE DEF e
  <2>2. Len(<<e>>) = 1 /\ <<e>>[1] = e  OBVIOUS
  <2>3. \A n \in 1 .. Len(<<e>>) : <<e>>[n].sig = "entry"  BY <2>1, <2>2
  <2>4. UrisOf(<<e>>) = [n \in 1 .. Len(<<e>>) |-> <<e>>[n].uri]
    BY <1>0, <2>1, <2>3, UrisAll
  <2> QED  BY <2>1, <2>2, <2>4
<1>4. ASSUME NEW x \in Signal, x.sig # "entry", <<x>> \in Seq(Signal)
      PROVE  UrisOf(<<x>>) = <<>>
  <2>1. \A n \in 1 .. Len(<<x>>) : <<x>>[n] = x  OBVIOUS
  <2> QED  BY <1>4, <2>1, UrisNone
<1>5. UrisOf(<<Started(f)>>) = <<>>
  <2>1. Started(f) \in Signal /\ Started(f).sig # "entry"
    BY SignalTyped DEF Started
  <2> QED  BY <1>0, <1>4, <2>1
<1>6. \A uri \in File \cup {TitleText} : UrisOf(<<Ended(uri, f)>>) = <<>>
  <2> TAKE uri \in File \cup {TitleText}
  <2>1. Ended(uri, f) \in Signal /\ Ended(uri, f).sig # "entry"
    BY SignalTyped DEF Ended
  <2> QED  BY <1>0, <1>4, <2>1
<1>7. UrisOf([i \in 1 .. docs[f].heads |-> Started(f)]) = <<>>
  <2> DEFINE x == Started(f)
             s == [i \in 1 .. docs[f].heads |-> x]
  <2>1. x \in Signal /\ docs[f].heads \in Nat /\ x.sig # "entry"
    BY SignalTyped, DocumentTyped DEF Started
  <2> HIDE DEF x
  <2>2. s \in Seq(Signal) /\ \A n \in 1 .. Len(s) : s[n] = x  BY <2>1
  <2> HIDE DEF s
  <2>3. UrisOf(s) = <<>>  BY <2>1, <2>2, UrisNone
  <2> QED  BY <2>3 DEF s, x
<1> DEFINE S == <<Started(f)>>
           E == <<Ended(f, f)>>
           B == Entries(f)
           t == TargetsOf(f)
<1>8. /\ S \in Seq(Signal) /\ E \in Seq(Signal) /\ B \in Seq(Signal)
      /\ UrisOf(S) = <<>> /\ UrisOf(E) = <<>> /\ UrisOf(B) = t /\ t \in Seq(Uri)
  BY <1>0, <1>2, <1>5, <1>6, UrisConcat
<1> HIDE DEF S, E, B, t
<1>9. <<>> \o t = t /\ t \o <<>> = t  BY <1>8
<1>10. S \o B \in Seq(Signal) /\ UrisOf(S \o B) = t
  <2>1. UrisOf(S \o B) = UrisOf(S) \o UrisOf(B)  BY <1>8, UrisConcat
  <2> QED  BY <1>8, <1>9, <2>1
<1>11. UrisOf((S \o B) \o E) = t  BY <1>8, <1>9, <1>10, UrisConcat
<1>12. UrisOf(B \o E) = t  BY <1>8, <1>9, UrisConcat
<1> QED  BY <1>1, <1>2, <1>3, <1>5, <1>6, <1>7, <1>10, <1>11, <1>12 DEF S, E, B, t

LEMMA ToldSimply ==
  ASSUME docs \in [File -> Document], NEW f \in File, NEW r
  PROVE  /\ Told(f, GivesUp(r)) /\ Told(f, Emits(Itself(f), "SUCCESS"))
         /\ Told(f, Emits(Entries(f), "SUCCESS"))
         /\ \A sigs : UrisOf(sigs) = TargetsOf(f) => Told(f, Emits(sigs, "SUCCESS"))
         /\ \A k \in LoopKind : \A sigs : UrisOf(sigs) = <<>> => Told(f, Loops(k, sigs))
BY SignalUris DEF Told, GivesUp, Emits, Loops, LoopKind

LEMMA HandlersTold ==
  ASSUME docs \in [File -> Document], NEW f \in File, NEW data \in BOOLEAN,
         docs[f].form = "pla" => docs[f].items = <<>>
  PROVE  (\A h : Told(f, Call(h, f, data))) /\ Told(f, AddFeed(f))
<1> DEFINE S == <<Started(f)>>
           E == <<Ended(f, f)>>
<1>0. {"m3u", "pls", "ram", "asx", "desktop", "directory"} \subseteq LoopKind
  BY DEF LoopKind
<1>a. /\ UrisOf(<<>>) = <<>> /\ UrisOf(S) = <<>>
      /\ UrisOf([i \in 1 .. docs[f].heads |-> Started(f)]) = <<>>
      /\ UrisOf(S \o Entries(f)) = TargetsOf(f)
      /\ UrisOf(S \o Entries(f) \o E) = TargetsOf(f)
  BY SignalUris
<1>1. Told(f, AddPlsWithContents(f))
  BY <1>0, <1>a, ToldSimply DEF AddPlsWithContents
<1>2. Told(f, AddPls(f))  BY <1>1, ToldSimply DEF AddPls
<1>3. Told(f, AddM3u(f))  BY <1>0, <1>1, <1>a, ToldSimply DEF AddM3u
<1>4. Told(f, AddRam(f))  BY <1>0, <1>a, ToldSimply DEF AddRam
<1>5. Told(f, AddRa(f, data))  BY <1>4, ToldSimply DEF AddRa
<1>6. Told(f, AddAsx(f, data))  BY <1>0, <1>4, <1>a, ToldSimply DEF AddAsx
<1>7. Told(f, AddAsf(f, data))  BY <1>6, ToldSimply DEF AddAsf
<1>8. Told(f, AddRss(f))  BY <1>a, ToldSimply DEF AddRss
<1>9. Told(f, AddAtom(f))
  <2>1. docs[f].items = <<>> => Entries(f) = <<>>
    <3>1. Len(Entries(f)) = Len(docs[f].items) /\ Entries(f) \in Seq(Signal)
      BY EntriesTyped
    <3> QED  BY <3>1
  <2> DEFINE head == IF docs[f].items = <<>> THEN <<>> ELSE S
  <2>2. UrisOf((head \o Entries(f)) \o E) = TargetsOf(f)
    <3>1. CASE docs[f].items # <<>>  BY <1>a, <3>1
    <3>2. CASE docs[f].items = <<>>
      <4>1. <<>> \o Entries(f) = Entries(f)  BY <2>1, <3>2
      <4>2. UrisOf(Entries(f) \o E) = TargetsOf(f)  BY SignalUris
      <4> QED  BY <3>2, <4>1, <4>2
    <3> QED  BY <3>1, <3>2
  <2>3. Told(f, Emits((head \o Entries(f)) \o E, "SUCCESS"))  BY <2>2, ToldSimply
  <2> QED  BY <2>3, ToldSimply DEF AddAtom
<1>10. Told(f, AddOpml(f))  BY <1>a, ToldSimply DEF AddOpml
<1>11. Told(f, AddXmlFeed(f, data))
  BY <1>8, <1>9, <1>10, ToldSimply DEF AddXmlFeed
<1>12. Told(f, AddPla(f))
  <2>1. CASE ~docs[f].readable \/ docs[f].form # "pla"  BY <2>1, ToldSimply DEF AddPla
  <2>2. CASE ~(~docs[f].readable \/ docs[f].form # "pla")
    <3> DEFINE head == IF docs[f].heads > 0 THEN S ELSE <<>>
               tail == IF docs[f].heads > 0 THEN <<Ended(TitleText, f)>> ELSE <<>>
    <3>1. docs[f].items = <<>>  BY <2>2
    <3>2. Entries(f) = <<>>
      <4>1. Len(Entries(f)) = Len(docs[f].items) /\ Entries(f) \in Seq(Signal)
        BY EntriesTyped
      <4> QED  BY <3>1, <4>1
    <3>3. AddPla(f) = Emits((head \o <<>>) \o tail, "UNHANDLED")
      BY <2>2, <3>1, <3>2 DEF AddPla
    <3>4. /\ head \in Seq(Signal) /\ tail \in Seq(Signal)
          /\ UrisOf(head) = <<>> /\ UrisOf(tail) = <<>>
      BY <1>a, EntriesTyped, SignalUris
    <3> HIDE DEF head, tail
    <3>5. head \o <<>> = head /\ <<>> \o <<>> = <<>>  BY <3>4
    <3>6. UrisOf(head \o tail) = <<>>  BY <3>4, <3>5, UrisConcat
    <3> QED  BY <3>3, <3>5, <3>6 DEF Told, Emits
  <2> QED  BY <2>1, <2>2
<1>13. Told(f, AddXspf(f)) /\ Told(f, AddSmil(f)) /\ Told(f, AddGvp(f))
  BY ToldSimply DEF AddXspf, AddSmil, AddGvp
<1>14. Told(f, AddQuicktime(f, data))  BY ToldSimply DEF AddQuicktime
<1>15. Told(f, AddDesktop(f)) /\ Told(f, AddDirectory(f))
  BY <1>0, <1>a, ToldSimply DEF AddDesktop, AddDirectory
<1>16. Told(f, AddIso(f)) /\ Told(f, AddCue(f)) /\ Told(f, AddBlock(f))
  BY ToldSimply DEF AddIso, AddCue, AddBlock
<1>17. \A h : Told(f, Call(h, f, data))
  <2> TAKE h
  <2>1. Told(f, GivesUp("UNHANDLED"))  BY ToldSimply
  <2> QED
    BY <1>2, <1>3, <1>5, <1>6, <1>7, <1>8, <1>9, <1>10, <1>11, <1>12, <1>13, <1>14,
       <1>15, <1>16, <2>1
    DEF Call
<1>18. Told(f, AddFeed(f))  BY <1>8, ToldSimply DEF AddFeed
<1> QED  BY <1>17, <1>18

\* What the document comes to, whoever asks.
LEMMA OutcomeTold ==
  ASSUME TypeOK, Plain, NEW f \in File
  PROVE  Outcome(f) \in Out /\ Told(f, Outcome(f))
<1>0. docs \in [File -> Document] /\ (docs[f].form = "pla" => docs[f].items = <<>>)
  BY DEF TypeOK, Plain, PlainDocs
<1>1. Guess(docs[f]).data \in BOOLEAN /\ DualGuess(docs[f]).data \in BOOLEAN
  BY GuessTyped
<1>2. \A r \in Result : GivesUp(r) \in Out /\ Told(f, GivesUp(r))
  <2>1. <<>> \in Seq(Signal)  OBVIOUS
  <2> QED  BY <1>0, <2>1, OutTyped, ToldSimply
<1>3. {"UNHANDLED", "SUCCESS", "IGNORED"} \subseteq Result  BY DEF Result
<1>4. \A h, data : data \in BOOLEAN => /\ Call(h, f, data) \in Out
                                       /\ Told(f, Call(h, f, data))
  BY <1>0, CallTyped, HandlersTold
<1>5. AddFeed(f) \in Out /\ Told(f, AddFeed(f))
  <2>1. TRUE \in BOOLEAN  OBVIOUS
  <2> QED  BY <1>0, <2>1, FeedHandlersTyped, HandlersTold
<1> QED  BY <1>1, <1>2, <1>3, <1>4, <1>5 DEF Outcome

-----------------------------------------------------------------------------
(***************************************************************************)
(* Without leaks and names that promise MPEG audio, a document is the same *)
(* at every level.                                                         *)
(***************************************************************************)
LEMMA FirstGuessPlain ==
  ASSUME TypeOK, Plain, NEW f \in File
  PROVE  FirstGuess(docs[f]).mime = "mpeg" => FirstGuess(docs[f]).data
<1> DEFINE d == docs[f]
           t == IF opts.force THEN Sniff(d) ELSE [mime |-> d.name, data |-> FALSE]
<1>1. opts.force \/ d.name # "mpeg"  BY DEF Plain, PlainDocs
<1>2. Sniff(d).mime = "mpeg" => Sniff(d).data  BY DEF Sniff
<1>3. t.mime = "mpeg" => t.data /\ t = Sniff(d)  BY <1>1, <1>2
<1>4. /\ LookAgain(t, d).mime = IF Sniff(d).mime = "none" THEN t.mime ELSE Sniff(d).mime
      /\ LookAgain(t, d).data = Sniff(d).data
  BY DEF LookAgain, Sniff
<1>5. LookAgain(t, d).mime = "mpeg" => LookAgain(t, d).data
  BY <1>2, <1>3, <1>4
<1>6. FirstGuess(d) = t \/ FirstGuess(d) = LookAgain(t, d)
  BY DEF FirstGuess
<1> QED  BY <1>3, <1>5, <1>6

LEMMA LibrarySame ==
  ASSUME TypeOK, Plain, UNCHANGED inputs
  PROVE  /\ \A f \in File : /\ Outcome(f)' = Outcome(f) /\ KindOf(f)' = KindOf(f)
                            /\ Contents(f)' = Contents(f)
         /\ Plain'
<1>1. docs' = docs /\ opts' = opts  BY DEF inputs
<1>2. ASSUME NEW f \in File
      PROVE  Outcome(f)' = Outcome(f)
  <2> DEFINE d == docs[f]
  <2>1. \A x : Sniff(x)' = Sniff(x)  BY DEF Sniff
  <2>2. \A t, x : LookAgain(t, x)' = LookAgain(t, x)  BY <2>1 DEF LookAgain
  <2>3. FirstGuess(d)' = FirstGuess(d)  BY <1>1, <2>1, <2>2 DEF FirstGuess
  <2>4. FirstGuess(d).mime = "mpeg" => FirstGuess(d).data  BY FirstGuessPlain
  <2>5. Guess(d) = FirstGuess(d) /\ Guess(d)' = FirstGuess(d)'
    BY <2>3, <2>4 DEF Guess
  <2>6. DualGuess(d)' = DualGuess(d)  BY <1>1, <2>1, <2>3, <2>5 DEF DualGuess
  <2>7. DualHandler(d)' = DualHandler(d)
    BY <1>1, <2>3, <2>5, <2>6 DEF DualHandler
  <2>8. \A g : Entries(g)' = Entries(g)  BY <1>1 DEF Entries
  <2>9. /\ \A g : AddPlsWithContents(g)' = AddPlsWithContents(g)
        /\ \A g : AddRam(g)' = AddRam(g)
    BY <1>1 DEF AddPlsWithContents, AddRam
  <2>10. \A g, x : AddAsx(g, x)' = AddAsx(g, x)  BY <1>1, <2>9 DEF AddAsx
  <2>11. /\ \A g : AddRss(g)' = AddRss(g) /\ AddAtom(g)' = AddAtom(g)
         /\ \A g : AddOpml(g)' = AddOpml(g)
    BY <1>1, <2>8 DEF AddRss, AddAtom, AddOpml
  <2>12. \A g, x : AddXmlFeed(g, x)' = AddXmlFeed(g, x)
    BY <1>1, <2>11 DEF AddXmlFeed
  <2>13. \A g : /\ AddPls(g)' = AddPls(g) /\ AddM3u(g)' = AddM3u(g)
                /\ AddDesktop(g)' = AddDesktop(g) /\ AddDirectory(g)' = AddDirectory(g)
    BY <1>1, <2>8, <2>9 DEF AddPls, AddM3u, AddDesktop, AddDirectory
  <2>14. \A g : /\ AddPla(g)' = AddPla(g) /\ AddXspf(g)' = AddXspf(g)
                /\ AddSmil(g)' = AddSmil(g) /\ AddGvp(g)' = AddGvp(g)
    BY <1>1, <2>8 DEF AddPla, AddXspf, AddSmil, AddGvp
  <2>15. \A g : /\ AddIso(g)' = AddIso(g) /\ AddCue(g)' = AddCue(g)
                /\ AddBlock(g)' = AddBlock(g) /\ AddFeed(g)' = AddFeed(g)
    BY <1>1, <2>8, <2>11 DEF AddIso, AddCue, AddBlock, AddFeed
  <2>16. \A g, x : /\ AddRa(g, x)' = AddRa(g, x) /\ AddAsf(g, x)' = AddAsf(g, x)
                   /\ AddQuicktime(g, x)' = AddQuicktime(g, x)
    BY <1>1, <2>8, <2>9, <2>10 DEF AddRa, AddAsf, AddQuicktime
  <2>17. \A h, g, x : Call(h, g, x)' = Call(h, g, x)
    BY <2>10, <2>11, <2>12, <2>13, <2>14, <2>15, <2>16 DEF Call
  <2> QED
    BY <1>1, <2>3, <2>5, <2>6, <2>7, <2>15, <2>17 DEF Outcome
<1>3. \A f \in File : KindOf(f)' = KindOf(f)  BY <1>2 DEF KindOf
<1>4. \A f \in File : Contents(f)' = Contents(f)
  BY <1>1, <1>3, MappingSame DEF Contents
<1>5. Plain'  BY <1>1 DEF Plain, PlainDocs
<1> QED  BY <1>2, <1>3, <1>4, <1>5

-----------------------------------------------------------------------------
\* The handler runs to the end: at most one report of the document itself.
Finishes(out) ==
  /\ out.kind = "none"
  /\ pc' = "return"
  /\ UNCHANGED <<inputs, callee, stack, level, leaked>>
  /\ \E report \in BOOLEAN :
       /\ report => out.ret # "SUCCESS"
       /\ ret' = "SUCCESS" <=> out.ret = "SUCCESS" \/ report
       /\ events' = events \o out.sigs \o (IF report THEN Itself(callee) ELSE <<>>)

LEMMA EpilogueFinishes ==
  ASSUME NEW out, out.kind = "none", NEW r, NEW m, Epilogue(out.sigs, r, m),
         r = "SUCCESS" <=> out.ret = "SUCCESS",
         UNCHANGED <<inputs, callee, stack, level, fallback, leaked>>,
         fallback \in BOOLEAN
  PROVE  Finishes(out)
<1> DEFINE report == r # "SUCCESS" /\ ~(r # "SUCCESS" /\ m \in IgnoreTypes) /\ fallback
<1>1. report \in BOOLEAN /\ (report => out.ret # "SUCCESS")  OBVIOUS
<1>2. ret' = "SUCCESS" <=> out.ret = "SUCCESS" \/ report  BY DEF Epilogue
<1>3. events' = events \o out.sigs \o (IF report THEN Itself(callee) ELSE <<>>)
  BY DEF Epilogue
<1>4. pc' = "return"  BY DEF Epilogue
<1> HIDE DEF report
<1> QED  BY <1>1, <1>2, <1>3, <1>4 DEF Finishes

LEMMA ReturnFinishes ==
  ASSUME TypeOK, NEW r, NEW q, Return(r), r = "SUCCESS" <=> q = "SUCCESS"
  PROVE  Finishes(GivesUp(q))
<1>1. (events \o <<>>) \o <<>> = events  BY DEF TypeOK
<1>2. /\ ret' = "SUCCESS" <=> q = "SUCCESS" \/ FALSE
      /\ events' = events \o <<>> \o (IF FALSE THEN Itself(callee) ELSE <<>>)
  BY <1>1 DEF Return
<1> QED  BY <1>2 DEF Return, Finishes, GivesUp, Emits

\* What parse_internal does is the outcome of its argument.
LEMMA Entered ==
  ASSUME TypeOK, Plain, ParseInternal, level <= RecurseLevelMax
  PROVE  Finishes(Outcome(callee)) \/ StartLoop(Outcome(callee))
<1> DEFINE d == docs[callee]
           out == Outcome(callee)
<1>0. /\ opts.recurse /\ ~opts.disable_unsafe /\ fallback \in BOOLEAN
      /\ RecurseLevelMax \in Nat /\ level \in Nat
  BY LevelAssumption DEF Plain, TypeOK
<1>1. ~EnterTooDeep /\ ~EnterNoRecurse /\ ~EnterUnsafe
  BY <1>0 DEF EnterTooDeep, EnterNoRecurse, EnterUnsafe
<1>2. CASE EnterStream
  <2>1. out = GivesUp("UNHANDLED")  BY <1>2 DEF EnterStream, Entering, Outcome
  <2>2. Return("UNHANDLED")  BY <1>2 DEF EnterStream
  <2> QED  BY <2>1, <2>2, ReturnFinishes
<1>3. CASE EnterFeed
  <2>1. out = AddFeed(callee)
    BY <1>3 DEF EnterFeed, Entering, Outcome
  <2>2. out \in Out /\ out.kind = "none"
    <3>1. out \in Out  BY OutcomeTold DEF TypeOK
    <3>2. AddFeed(callee).kind = "none"
      BY DEF AddFeed, AddRss, GivesUp, Emits
    <3> QED  BY <2>1, <3>1, <3>2
  <2>3. events \o out.sigs \in Seq(Signal)  BY <2>2 DEF Out, TypeOK
  <2>4. events' = events \o out.sigs \o (IF FALSE THEN Itself(callee) ELSE <<>>)
    BY <1>3, <2>1, <2>3 DEF EnterFeed
  <2> QED  BY <1>3, <2>1, <2>2, <2>4 DEF EnterFeed, Finishes
<1> DEFINE first == FirstGuess(d).mime
           t == Guess(d)
           dual == DualGuess(d)
<1>4. Parsing => d.scheme \in {"file", "http"}  BY DEF Parsing, Entering
<1>5. Parsing => out = IF first = "none" THEN GivesUp("UNHANDLED")
                       ELSE IF first = "empty" THEN GivesUp("SUCCESS")
                       ELSE IF t.mime \in IgnoredMimes THEN GivesUp("IGNORED")
                       ELSE IF t.mime \in SpecialTypes
                            THEN Call(HandlerOf[t.mime], callee, t.data)
                       ELSE IF t.mime \in DualTypes /\ dual.mime \notin TextTypes
                            THEN Call(DualHandler(d), callee, dual.data)
                       ELSE GivesUp("UNHANDLED")
  BY <1>4 DEF Outcome
<1>6. \A types : ParsingType(types) =>
        Parsing /\ first \notin {"none", "empty"} /\ t.mime \in types /\ t.mime \notin IgnoredMimes
  BY DEF ParsingType
<1> HIDE DEF out, first, t, dual
<1>7. CASE EnterUntyped
  <2>1. out = GivesUp("UNHANDLED") /\ Return("UNHANDLED")
    BY <1>5, <1>7 DEF EnterUntyped, first
  <2> QED  BY <2>1, ReturnFinishes DEF out
<1>8. CASE EnterEmpty
  <2>1. out = GivesUp("SUCCESS") /\ Return("SUCCESS")
    BY <1>5, <1>8 DEF EnterEmpty, first
  <2> QED  BY <2>1, ReturnFinishes DEF out
<1>9. CASE EnterIgnored
  <2>1. out = GivesUp("IGNORED") /\ Return("IGNORED")
    BY <1>5, <1>9 DEF EnterIgnored, first, t
  <2> QED  BY <2>1, ReturnFinishes DEF out
<1>10. ASSUME NEW h, NEW u, Handle(h, u), out = Call(h, callee, u.data)
       PROVE  Finishes(out) \/ StartLoop(out)
  <2>1. RunToEnd(out, u.mime) \/ StartLoop(out)  BY <1>10 DEF Handle
  <2>2. CASE RunToEnd(out, u.mime)
    <3>1. /\ out.kind = "none" /\ Epilogue(out.sigs, out.ret, u.mime)
          /\ UNCHANGED <<inputs, callee, stack, level, fallback, leaked>>
      BY <2>2 DEF RunToEnd
    <3> QED  BY <1>0, <3>1, EpilogueFinishes
  <2> QED  BY <2>1, <2>2
<1>11. SpecialTypes \cap DualTypes = {}
  BY DEF SpecialTypes, SafeTypes, UnsafeTypes, DualTypes
<1>12. CASE EnterSpecial
  <2>1. ParsingType(SpecialTypes) /\ Handle(HandlerOf[t.mime], t)
    BY <1>0, <1>12 DEF EnterSpecial, t
  <2>2. out = Call(HandlerOf[t.mime], callee, t.data)
    BY <1>5, <1>6, <2>1
  <2> QED  BY <1>10, <2>1, <2>2 DEF out
<1>13. CASE EnterDual
  <2>1. /\ ParsingType(DualTypes) /\ Handle(DualHandler(d), dual)
        /\ dual.mime \notin TextTypes
    BY <1>13 DEF EnterDual, dual
  <2>2. out = Call(DualHandler(d), callee, dual.data)
    BY <1>5, <1>6, <1>11, <2>1
  <2> QED  BY <1>10, <2>1, <2>2 DEF out
<1>14. ASSUME NEW r, NEW m, Epilogue(<<>>, r, m), r # "SUCCESS", out = GivesUp("UNHANDLED"),
              UNCHANGED <<inputs, callee, stack, level, fallback, leaked>>
       PROVE  Finishes(out)
  <2>1. out.kind = "none" /\ out.sigs = <<>> /\ out.ret # "SUCCESS"
    BY <1>14 DEF GivesUp, Emits
  <2> QED  BY <1>0, <1>14, <2>1, EpilogueFinishes
<1>15. CASE EnterDualRejected
  <2>1. /\ ParsingType(DualTypes)
        /\ UNCHANGED <<inputs, callee, stack, level, fallback, leaked>>
        /\ \/ dual.mime \in TextTypes /\ Epilogue(<<>>, "IGNORED", "none")
           \/ /\ dual.mime \notin TextTypes /\ DualHandler(d) = "none"
              /\ Epilogue(<<>>, "UNHANDLED", "none")
    BY <1>15 DEF EnterDualRejected, dual
  <2>2. Call("none", callee, dual.data) = GivesUp("UNHANDLED")  BY DEF Call
  <2>3. out = GivesUp("UNHANDLED")  BY <1>5, <1>6, <1>11, <2>1, <2>2
  <2> QED  BY <1>14, <2>1, <2>3 DEF out
<1>16. CASE EnterOther
  <2>1. /\ ParsingType(Mime \ (SpecialTypes \cup DualTypes))
        /\ UNCHANGED <<inputs, callee, stack, level, fallback, leaked>>
        /\ Epilogue(<<>>, "UNHANDLED", t.mime)
    BY <1>16 DEF EnterOther, t
  <2>2. out = GivesUp("UNHANDLED")  BY <1>5, <1>6, <2>1
  <2> QED  BY <1>14, <2>1, <2>2 DEF out
<1> QED
  BY <1>1, <1>2, <1>3, <1>7, <1>8, <1>9, <1>12, <1>13, <1>15, <1>16
  DEF ParseInternal, out

-----------------------------------------------------------------------------
(***************************************************************************)
(* What is inductive besides IInv: nothing leaks, the loops are those the  *)
(* outcomes of their documents say, parse_internal is called for the item  *)
(* the caller is at, and a failure means that there was nothing to look    *)
(* into.                                                                   *)
(***************************************************************************)
Asked == IF stack = <<>> THEN callee = Root
         ELSE Nests(There) /\ callee = There.to

FInv ==
  /\ Plain
  /\ leaked = 0
  /\ \A i \in DOMAIN stack : stack[i].kind = Outcome(stack[i].file).kind
  /\ pc \in {"start", "enter"} => Asked
  /\ pc = "return" /\ ret # "SUCCESS" =>
       Asked /\ (level > RecurseLevelMax \/ KindOf(callee) = "other")

\* The frames below the innermost one, and what a loop that goes on makes of it.
LEMMA FramesSplit ==
  ASSUME TypeOK, FramesWait, stack # <<>>
  PROVE  /\ Front(stack) \in Seq(Frame) /\ Top \in Frame /\ Top = Last(stack)
         /\ stack = Append(Front(stack), Top)
         /\ Len(Front(stack)) + 1 = Len(stack) /\ Len(Front(stack)) \in Nat
         /\ \A i \in DOMAIN Front(stack) : Front(stack)[i].pos >= 1
         /\ Top.pos \in Nat \ {0} /\ Top.file \in File
         /\ Len(docs[Top.file].items) \in Nat
<1>1. /\ Front(stack) \in Seq(Frame) /\ Last(stack) \in Frame
      /\ stack = Append(Front(stack), Last(stack))
      /\ Len(Front(stack)) = Len(stack) - 1
  BY FrontLast DEF TypeOK
<1>2. Top = Last(stack)  BY DEF Top, Last
<1>3. \A i \in DOMAIN stack : stack[i].pos >= 1  BY DEF FramesWait
<1>4. Len(stack) \in Nat \ {0}  BY TopTyped
<1>5. \A i \in DOMAIN Front(stack) : Front(stack)[i].pos >= 1
  <2> DEFINE s == Front(stack)
             x == Last(stack)
  <2>1. \A i \in DOMAIN s : i \in DOMAIN Append(s, x) /\ Append(s, x)[i] = s[i]
    <3> HIDE DEF s, x
    <3> QED  BY <1>1 DEF s
  <2> QED  BY <1>1, <1>3, <2>1
<1>6. Top.pos \in Nat \ {0} /\ Top.file \in File
  <2>1. Len(stack) \in DOMAIN stack  BY <1>4 DEF TypeOK
  <2>2. Top.pos >= 1  BY <1>3, <2>1 DEF Top
  <2> QED  BY <1>1, <1>2, <2>2 DEF Frame
<1>7. Len(docs[Top.file].items) \in Nat  BY <1>6, DocumentTyped DEF TypeOK
<1> QED  BY <1>1, <1>2, <1>4, <1>5, <1>6, <1>7

\* Only the file, the kind and the position of a frame count.
LEMMA LeftOf ==
  ASSUME docs \in [File -> Document], NEW s \in Seq(Frame), NEW x \in Frame,
         NEW y \in Frame, x.file = y.file, x.kind = y.kind
  PROVE  Left(Append(s, x)) = Pending(y, x.pos, Len(s) + 1) \o Behind(s)
<1> DEFINE t == Append(s, x)
<1>1. Front(t) = s /\ Last(t) = x /\ t # <<>> /\ Len(t) = Len(s) + 1
  <2>1. \A z \in Frame : /\ Front(Append(s, z)) = s /\ Last(Append(s, z)) = z
                          /\ Append(s, z) # <<>>
    BY FrontLast
  <2> QED  BY <2>1
<1> HIDE DEF t
<1>2. Pending(x, x.pos, Len(s) + 1) = Pending(y, x.pos, Len(s) + 1)
  BY DEF Pending
<1>3. Left(t) = Pending(x, x.pos, Len(s) + 1) \o Behind(s)  BY <1>1 DEF Left
<1> QED  BY <1>2, <1>3 DEF t

LEMMA Advanced ==
  ASSUME TypeOK, FramesWait, stack # <<>>, NEW p \in Nat, NEW x \in Nat,
         Advance(p, x)
  PROVE  \E t \in Frame : /\ t.pos = p /\ t.file = Top.file /\ t.kind = Top.kind
                          /\ stack' = Append(Front(stack), t)
<1> DEFINE n == Len(stack)
           t == [Top EXCEPT !.pos = p, !.extinf = x]
           s == Front(stack)
           u == Append(s, t)
<1>1. t \in Frame /\ t.pos = p /\ t.file = Top.file /\ t.kind = Top.kind
  BY TopTyped DEF Frame
<1>2. n \in Nat \ {0} /\ stack[n] \in Frame /\ stack[n] = Top
  BY TopTyped DEF Top
<1>3. /\ stack' \in Seq(Frame) /\ Len(stack') = n /\ stack'[n] = t
      /\ \A i \in 1 .. n - 1 : stack'[i] = stack[i]
  <2>1. stack' = [stack EXCEPT ![n] = t]
    BY <1>2 DEF Advance, TypeOK, Frame
  <2> HIDE DEF t
  <2> QED  BY <1>1, <1>2, <2>1 DEF TypeOK
<1>4. s \in Seq(Frame) /\ Len(s) + 1 = n /\ stack = Append(s, Top)
  BY FramesSplit
<1> HIDE DEF t, s
<1>5. \A i \in 1 .. n - 1 : stack[i] = s[i]  BY <1>2, <1>4
<1>6. u \in Seq(Frame) /\ Len(u) = n /\ u[n] = t /\ \A i \in 1 .. n - 1 : u[i] = s[i]
  BY <1>1, <1>2, <1>4
<1> HIDE DEF u
<1>7. \A i \in 1 .. Len(stack') : stack'[i] = u[i]
  <2> SUFFICES ASSUME NEW i \in 1 .. n PROVE stack'[i] = u[i]
    BY <1>3
  <2>1. i = n \/ i \in 1 .. n - 1  BY <1>2
  <2> QED  BY <1>3, <1>5, <1>6, <2>1
<1>8. stack' = u  BY <1>3, <1>6, <1>7, SeqEqual
<1> QED  BY <1>1, <1>8 DEF u, s

\* The item parse_internal is called for, in front of what is left behind it.
Item0 == [file |-> callee, depth |-> Len(stack), nested |-> TRUE,
          forced |-> stack # <<>> /\ Top.kind # "directory"]

LEMMA BehindTyped ==
  ASSUME TypeOK, FramesWait
  PROVE  Behind(stack) \in Seq(WorkItem)
<1>1. \A i \in DOMAIN stack : stack[i].pos >= 1  BY DEF FramesWait
<1> QED  BY <1>1, BehindParts DEF TypeOK

LEMMA BehindSplit ==
  ASSUME TypeOK, FramesWait, stack # <<>>
  PROVE  /\ Behind(stack) = Pending(Top, Top.pos + 1, Len(stack)) \o Behind(Front(stack))
         /\ Behind(Front(stack)) \in Seq(WorkItem)
         /\ Left(stack) = Pending(Top, Top.pos, Len(stack)) \o Behind(Front(stack))
         /\ \A p \in Nat \ {0} : Pending(Top, p, Len(stack)) \in Seq(WorkItem)
<1> DEFINE s == Front(stack)
           x == Top
<1>1. /\ s \in Seq(Frame) /\ x \in Frame /\ stack = Append(s, x)
      /\ Len(s) + 1 = Len(stack) /\ Len(s) \in Nat
      /\ \A i \in DOMAIN s : s[i].pos >= 1 /\ x.pos >= 1
      /\ Top.pos \in Nat \ {0} /\ docs \in [File -> Document]
  BY FramesSplit DEF TypeOK
<1> HIDE DEF s, x
<1>2. x.pos >= 1  BY <1>1 DEF x
<1>3. Behind(Append(s, x)) = Pending(x, x.pos + 1, Len(s) + 1) \o Behind(s)
  BY <1>1, <1>2, BehindPush
<1>4. Left(Append(s, x)) = Pending(x, x.pos, Len(s) + 1) \o Behind(s)
  BY <1>1, LeftOf
<1>5. Behind(s) \in Seq(WorkItem)  BY <1>1, BehindParts
<1>6. ASSUME NEW p \in Nat \ {0}
      PROVE  Pending(x, p, Len(stack)) \in Seq(WorkItem)
  <2>1. Len(stack) \in Nat  BY <1>1
  <2> QED  BY <1>1, <2>1, PendingTyped
<1> QED  BY <1>1, <1>3, <1>4, <1>5, <1>6 DEF s, x

LEMMA ConsConcat ==
  ASSUME NEW T, NEW x \in T, NEW s \in Seq(T), NEW t \in Seq(T)
  PROVE  (<<x>> \o s) \o t = <<x>> \o (s \o t)
OBVIOUS

\* Where the innermost loop is: at an item that counts, at another, at the end.
LEMMA LeftMoves ==
  ASSUME TypeOK, FramesWait, stack # <<>>
  PROVE  /\ Top.pos > Len(docs[Top.file].items) => Left(stack) = Behind(Front(stack))
         /\ Top.pos <= Len(docs[Top.file].items) =>
              /\ There.how \in {"nested", "direct", "link"} =>
                   Left(stack) = <<Todo(Top, Ref(There), Len(stack))>> \o Behind(stack)
              /\ There.how \notin {"nested", "direct", "link", "stop"} =>
                   Left(stack) = Behind(stack)
              /\ There.how = "stop" => Left(stack) = Behind(Front(stack))
<1> DEFINE n == Len(stack)
           p == Top.pos
           a == Pending(Top, p, n)
           b == Pending(Top, p + 1, n)
           c == Behind(Front(stack))
           w == Todo(Top, Ref(There), n)
<1>1. /\ Top \in Frame /\ p \in Nat \ {0} /\ n \in Nat /\ Top.file \in File
      /\ docs \in [File -> Document] /\ p + 1 \in Nat \ {0}
      /\ Len(docs[Top.file].items) \in Nat
  BY FramesSplit DEF TypeOK
<1>2. /\ Left(stack) = a \o c /\ Behind(stack) = b \o c
      /\ a \in Seq(WorkItem) /\ b \in Seq(WorkItem) /\ c \in Seq(WorkItem)
  BY <1>1, BehindSplit
<1>3. <<>> \o c = c  BY <1>2
<1>4. p > Len(docs[Top.file].items) => a = <<>>  BY <1>1, PendingTyped
<1>5. p <= Len(docs[Top.file].items) =>
        a = IF There.how = "stop" THEN <<>>
            ELSE IF There.how \in {"nested", "direct", "link"} THEN <<w>> \o b ELSE b
  BY <1>1, PendingStep DEF There
<1>6. ASSUME p <= Len(docs[Top.file].items) PROVE w \in WorkItem
  <2>1. p \in DOMAIN docs[Top.file].items  BY <1>1, <1>6, DocumentTyped
  <2>2. There.to \in File  BY <2>1, ItemEntryTyped
  <2> QED  BY <1>1, <2>2, NestsTyped DEF Todo, Ref, WorkItem
<1> HIDE DEF a, b, c, w, n
<1>7. w \in WorkItem => (<<w>> \o b) \o c = <<w>> \o (b \o c)
  BY <1>2, ConsConcat
<1> QED  BY <1>2, <1>3, <1>4, <1>5, <1>6, <1>7 DEF c, w, n

LEMMA LeftAsked ==
  ASSUME IInv, Asked, pc \in {"start", "enter", "return"}
  PROVE  /\ Left(stack) = <<Item0>> \o Behind(stack)
         /\ Behind(stack) \in Seq(WorkItem) /\ Item0 \in WorkItem
<1>0. TypeOK /\ FramesWait  BY DEF IInv
<1>1. Behind(stack) \in Seq(WorkItem)  BY <1>0, BehindTyped
<1>2. Item0 \in WorkItem
  <2>1. callee \in File /\ Len(stack) \in Nat  BY <1>0 DEF TypeOK
  <2> QED  BY <2>1 DEF Item0, WorkItem
<1>3. CASE stack = <<>>
  <2>1. Len(stack) = 0 /\ callee = Root  BY <1>3 DEF Asked
  <2>2. Left(stack) = <<Item0>>  BY <1>3, <2>1 DEF Left, Item0
  <2>3. Behind(stack) = <<>>  BY <1>3, BehindNone
  <2>4. <<Item0>> \o <<>> = <<Item0>>  BY <1>2
  <2> QED  BY <1>1, <1>2, <2>2, <2>3, <2>4
<1>4. CASE stack # <<>>
  <2>1. Nests(There) /\ callee = There.to  BY <1>4 DEF Asked
  <2>2. There.how \in {"nested", "direct", "link"}  BY <2>1 DEF Nests
  <2>3. Top.pos <= Len(docs[Top.file].items)
    <3>1. pc \in {"enter", "return"}  BY <1>0, <1>4 DEF TypeOK
    <3>2. Len(stack) \in DOMAIN stack  BY <1>0, <1>4 DEF TypeOK
    <3> QED  BY <1>0, <3>1, <3>2 DEF FramesWait, Waiting, Top
  <2>4. Left(stack) = <<Todo(Top, Ref(There), Len(stack))>> \o Behind(stack)
    BY <1>0, <1>4, <2>2, <2>3, LeftMoves
  <2>5. Todo(Top, Ref(There), Len(stack)) = Item0
    BY <1>4, <2>1 DEF Todo, Ref, Item0
  <2> QED  BY <1>1, <1>2, <2>4, <2>5
<1> QED  BY <1>3, <1>4

-----------------------------------------------------------------------------
(***************************************************************************)
(* The steps of PlFlatten, for a work list that is known to begin with w.  *)
(***************************************************************************)
LEMMA HeadTail ==
  ASSUME NEW T, NEW x \in T, NEW s \in Seq(T)
  PROVE  <<x>> \o s # <<>> /\ Head(<<x>> \o s) = x /\ Tail(<<x>> \o s) = s
<1> DEFINE t == <<x>> \o s
<1>1. /\ t \in Seq(T) /\ Len(t) = Len(s) + 1 /\ t[1] = x
      /\ \A i \in 1 .. Len(s) : t[i + 1] = s[i]
  OBVIOUS
<1> HIDE DEF t
<1>2. t # <<>> /\ Head(t) = x  BY <1>1
<1>3. Tail(t) \in Seq(T) /\ Len(Tail(t)) = Len(s)
      /\ \A i \in 1 .. Len(s) : Tail(t)[i] = s[i]
  BY <1>1, <1>2
<1>4. Tail(t) = s  BY <1>3, SeqEqual
<1> QED  BY <1>2, <1>4 DEF t

Same == /\ \A f \in File : KindOf(f)' = KindOf(f) /\ Contents(f)' = Contents(f)

LEMMA FlatSame ==
  ASSUME Same
  PROVE  UNCHANGED Flat!library
BY DEF Same, Flat!library

\* The first item is looked into, and is what the mapping says it is.
LooksInto(w, k) == w.nested /\ w.depth <= RecurseLevelMax /\ KindOf(w.file) = k

LEMMA FlatOpened ==
  ASSUME NEW w \in WorkItem, NEW kinds
  PROVE  Flat!Opened(w, kinds) <=> \E k \in kinds : LooksInto(w, k)
BY DEF WorkItem, Flat!Opened, LooksInto

LEMMA FlatStutters ==
  ASSUME Same, Work' = Work, UrisOf(events)' = UrisOf(events)
  PROVE  UNCHANGED Flat!vars
BY FlatSame DEF Flat!vars

LEMMA FlatDrops ==
  ASSUME Same, NEW w \in WorkItem, NEW rest \in Seq(WorkItem), Work = <<w>> \o rest,
         Work' = rest, UrisOf(events)' = UrisOf(events),
         \/ LooksInto(w, "empty") \/ (LooksInto(w, "other") /\ ~w.forced)
         \/ (w.depth > RecurseLevelMax /\ ~w.forced)
  PROVE  Flat!Next
<1>1. Work # <<>> /\ Head(Work) = w /\ Tail(Work) = rest  BY HeadTail
<1>2. \/ Flat!Opened(w, {"empty"}) \/ (Flat!Opened(w, {"other"}) /\ ~w.forced)
      \/ (w.depth > RecurseLevelMax /\ ~w.forced)
  BY FlatOpened
<1>3. Flat!Drop(w)  BY <1>1, <1>2, FlatSame DEF Flat!Drop
<1> QED  BY <1>1, <1>3 DEF Flat!Next

LEMMA FlatReports ==
  ASSUME Same, NEW w \in WorkItem, NEW rest \in Seq(WorkItem), Work = <<w>> \o rest,
         Work' = rest, UrisOf(events)' = Append(UrisOf(events), w.file),
         ~w.nested \/ w.depth > RecurseLevelMax \/ KindOf(w.file) = "other"
  PROVE  Flat!Next
<1>1. Work # <<>> /\ Head(Work) = w /\ Tail(Work) = rest  BY HeadTail
<1>2. ~Flat!Opened(w, Flat!Kind \ {"other"})
  <2>1. ASSUME NEW k, k # "other" PROVE ~LooksInto(w, k)
    BY <2>1, LevelAssumption DEF LooksInto, WorkItem
  <2> QED  BY <2>1, FlatOpened
<1>3. Flat!Report(w)  BY <1>1, <1>2, FlatSame DEF Flat!Report
<1> QED  BY <1>1, <1>3 DEF Flat!Next

LEMMA FlatIncludes ==
  ASSUME Same, NEW w \in WorkItem, NEW rest \in Seq(WorkItem), Work = <<w>> \o rest,
         Work' = rest, LooksInto(w, "leaf"), docs \in [File -> Document],
         UrisOf(events)' = UrisOf(events) \o TargetsOf(w.file)
  PROVE  Flat!Next
<1>1. Work # <<>> /\ Head(Work) = w /\ Tail(Work) = rest  BY HeadTail
<1>2. Flat!Opened(w, {"leaf"})  BY FlatOpened
<1>3. Flat!Targets(w.file) = TargetsOf(w.file)
  <2>1. w.file \in File /\ docs[w.file].items \in Seq(Item)
    BY DocumentTyped DEF WorkItem
  <2>2. Contents(w.file) = [n \in DOMAIN docs[w.file].items |-> Ref(docs[w.file].items[n])]
    BY DEF LooksInto, Contents
  <2>3. [f \in File |-> Contents(f)][w.file] = Contents(w.file)  BY <2>1
  <2>4. Flat!Targets(w.file) = [n \in DOMAIN docs[w.file].items |-> docs[w.file].items[n].to]
    BY <2>2, <2>3 DEF Flat!Targets, Ref
  <2>5. DOMAIN docs[w.file].items = 1 .. Len(docs[w.file].items)  BY <2>1
  <2> QED  BY <2>4, <2>5, Zenon DEF TargetsOf
<1>4. Flat!Include(w)  BY <1>1, <1>2, <1>3, FlatSame DEF Flat!Include
<1> QED  BY <1>1, <1>4 DEF Flat!Next

LEMMA FlatExpands ==
  ASSUME Same, NEW w \in WorkItem, NEW rest \in Seq(WorkItem), Work = <<w>> \o rest,
         NEW frame \in Frame, frame.file = w.file,
         \/ LooksInto(w, "playlist") /\ frame.kind # "directory"
         \/ LooksInto(w, "directory") /\ frame.kind = "directory",
         Work' = Pending(frame, 1, w.depth + 1) \o rest,
         UrisOf(events)' = UrisOf(events)
  PROVE  Flat!Next
<1>1. Work # <<>> /\ Head(Work) = w /\ Tail(Work) = rest  BY HeadTail
<1>2. Flat!Opened(w, {"playlist", "directory"})  BY FlatOpened
<1>3. Flat!ItemsOf(w.file, w.depth) = Pending(frame, 1, w.depth + 1)
  <2>1. w.file \in File  BY DEF WorkItem
  <2>2. Contents(w.file) = RefsFrom(w.file, 1)  BY DEF LooksInto, Contents
  <2>3. [f \in File |-> Contents(f)][w.file] = RefsFrom(w.file, 1)  BY <2>1, <2>2
  <2>4. [f \in File |-> KindOf(f)][w.file] # "directory" <=> frame.kind # "directory"
    BY <2>1 DEF LooksInto
  <2> QED  BY <2>3, <2>4 DEF Flat!ItemsOf, Pending
<1>4. Flat!Expand(w)  BY <1>1, <1>2, <1>3, FlatSame DEF Flat!Expand
<1> QED  BY <1>1, <1>4 DEF Flat!Next

-----------------------------------------------------------------------------
(***************************************************************************)
(* Every step of the parse.                                                *)
(***************************************************************************)
LEMMA Unleaked ==
  ASSUME IInv, FInv
  PROVE  /\ TypeOK /\ FramesWait /\ Plain /\ docs \in [File -> Document]
         /\ level = Len(stack) /\ RecurseLevelMax \in Nat /\ Len(stack) \in Nat
BY LevelAssumption DEF IInv, FInv, LevelAccounting, TypeOK

LEMMA FramesTyped ==
  ASSUME TypeOK
  PROVE  \A i \in DOMAIN stack : stack[i] \in Frame /\ stack[i].file \in File
<1>1. \A i \in DOMAIN stack : stack[i] \in Frame  BY DEF TypeOK
<1> QED  BY <1>1 DEF Frame

\* A step that leaves the documents alone keeps what the outcomes are.
LEMMA SameOf ==
  ASSUME IInv, FInv, UNCHANGED inputs
  PROVE  /\ Same /\ Plain' /\ UNCHANGED docs
         /\ \A f \in File : Outcome(f)' = Outcome(f)
         /\ Behind(stack)' = Behind(stack') /\ Left(stack)' = Left(stack')
<1>1. UNCHANGED docs  BY DEF inputs
<1> QED  BY <1>1, Unleaked, LibrarySame, MappingSame DEF Same

LEMMA UrisMore ==
  ASSUME TypeOK, NEW sigs \in Seq(Signal), events' = events \o sigs
  PROVE  UrisOf(events)' = UrisOf(events) \o UrisOf(sigs)
<1>1. \A s : UrisOf(s)' = UrisOf(s)  BY DEF UrisOf
<1>2. UrisOf(events') = UrisOf(events) \o UrisOf(sigs)  BY UrisConcat DEF TypeOK
<1> QED  BY <1>1, <1>2

LEMMA UrisUnchanged ==
  ASSUME UNCHANGED events
  PROVE  UrisOf(events)' = UrisOf(events)
BY DEF UrisOf

LEMMA UrisTyped ==
  ASSUME TypeOK
  PROVE  UrisOf(events) \in Seq(Uri) /\ UrisOf(events) \o <<>> = UrisOf(events)
BY UrisConcat DEF TypeOK

\* A handler runs to the end.
LEMMA FinishesFlat ==
  ASSUME IInv, FInv, pc = "enter", level <= RecurseLevelMax,
         NEW out, out = Outcome(callee), Finishes(out)
  PROVE  FInv' /\ [Flat!Next]_(Flat!vars)
<1>0. /\ TypeOK /\ FramesWait /\ Plain /\ docs \in [File -> Document] /\ callee \in File
      /\ level = Len(stack) /\ Asked
  BY Unleaked DEF FInv, TypeOK
<1>1. out \in Out /\ Told(callee, out)  BY <1>0, OutcomeTold
<1>2. /\ out.kind = "none" /\ pc' = "return"
      /\ UNCHANGED <<inputs, callee, stack, level, leaked>>
  BY DEF Finishes
<1>3. PICK report \in BOOLEAN :
        /\ report => out.ret # "SUCCESS"
        /\ ret' = "SUCCESS" <=> out.ret = "SUCCESS" \/ report
        /\ events' = events \o out.sigs \o (IF report THEN Itself(callee) ELSE <<>>)
  BY DEF Finishes
<1>4. /\ Same /\ Plain' /\ UNCHANGED docs
      /\ \A f \in File : Outcome(f)' = Outcome(f)
      /\ Behind(stack)' = Behind(stack') /\ Left(stack)' = Left(stack')
  BY <1>2, SameOf
<1>5. Behind(stack)' = Behind(stack) /\ Left(stack)' = Left(stack)
  BY <1>2, <1>4
<1>6. /\ Left(stack) = <<Item0>> \o Behind(stack) /\ Behind(stack) \in Seq(WorkItem)
      /\ Item0 \in WorkItem
  BY <1>0, LeftAsked
<1>7. Work = Left(stack)  BY DEF Work
<1>8. Work' = IF ret' = "SUCCESS" THEN Behind(stack) ELSE Left(stack)
  BY <1>2, <1>5 DEF Work
<1>9. out.sigs \in Seq(Signal) /\ Itself(callee) \in Seq(Signal) /\ <<>> \in Seq(Signal)
  BY <1>0, <1>1, EntriesTyped DEF Out
<1>10. UrisOf(events)' = UrisOf(events) \o
          (UrisOf(out.sigs) \o (IF report THEN <<callee>> ELSE <<>>))
  <2> DEFINE own == IF report THEN Itself(callee) ELSE <<>>
             sigs == out.sigs
  <2>1. own \in Seq(Signal) /\ sigs \in Seq(Signal)  BY <1>9
  <2>2. UrisOf(own) = IF report THEN <<callee>> ELSE <<>>
    BY <1>0, SignalUris
  <2>3. events' = (events \o sigs) \o own  BY <1>3
  <2> HIDE DEF own, sigs
  <2>4. events' = events \o (sigs \o own) /\ sigs \o own \in Seq(Signal)
    BY <1>0, <2>1, <2>3, SMTT(30) DEF TypeOK
  <2>5. UrisOf(sigs \o own) = UrisOf(sigs) \o UrisOf(own)  BY <2>1, UrisConcat
  <2>6. UrisOf(events)' = UrisOf(events) \o UrisOf(sigs \o own)
    BY <1>0, <2>4, UrisMore
  <2> QED  BY <2>2, <2>5, <2>6 DEF sigs
<1>11. Item0.file = callee /\ Item0.nested /\ Item0.depth <= RecurseLevelMax
  BY <1>0 DEF Item0
<1>12. UrisOf(events) \in Seq(Uri) /\ UrisOf(events) \o <<>> = UrisOf(events)
  BY <1>0, UrisTyped
<1>13. FInv'
  <2>1. Asked' <=> Asked  BY <1>2, <1>4 DEF Asked, There, Top, Nests, Ignore
  <2>2. \A i \in DOMAIN stack : stack[i].kind = Outcome(stack[i].file).kind
    BY DEF FInv
  <2>3. \A i \in DOMAIN stack : stack[i].file \in File
    BY <1>0, FramesTyped
  <2>4. (\A i \in DOMAIN stack : stack[i].kind = Outcome(stack[i].file).kind)'
    BY <1>2, <1>4, <2>2, <2>3
  <2>5. ret' # "SUCCESS" => KindOf(callee)' = "other"
    <3>1. ret' # "SUCCESS" => out.ret # "SUCCESS"  BY <1>3
    <3>2. ret' # "SUCCESS" => KindOf(callee) = "other"
      BY <1>2, <3>1 DEF KindOf
    <3>3. KindOf(callee)' = KindOf(callee)  BY <1>0, <1>2, <1>4 DEF Same
    <3> QED  BY <3>2, <3>3
  <2> QED  BY <1>0, <1>2, <1>4, <2>1, <2>4, <2>5 DEF FInv
<1>14. CASE report
  <2>1. out.ret # "SUCCESS" /\ ret' = "SUCCESS" /\ UrisOf(out.sigs) = <<>>
    BY <1>1, <1>3, <1>14 DEF Told
  <2>2. KindOf(callee) = "other"  BY <1>2, <2>1 DEF KindOf
  <2>3. <<>> \o <<callee>> = <<callee>>
        /\ UrisOf(events) \o <<callee>> = Append(UrisOf(events), callee)
    BY <1>0, <1>12 DEF Uri
  <2>4. UrisOf(events)' = Append(UrisOf(events), callee)
    BY <1>10, <1>14, <2>1, <2>3
  <2>5. Flat!Next
    BY <1>4, <1>6, <1>7, <1>8, <1>11, <2>1, <2>2, <2>4, FlatReports
  <2> QED  BY <1>13, <2>5
<1>15. CASE ~report /\ out.ret # "SUCCESS"
  <2>1. ret' # "SUCCESS" /\ UrisOf(out.sigs) = <<>>  BY <1>1, <1>3, <1>15 DEF Told
  <2>2. <<>> \o <<>> = <<>>  OBVIOUS
  <2>3. UrisOf(events)' = UrisOf(events)  BY <1>10, <1>12, <1>15, <2>1, <2>2
  <2>4. UNCHANGED Flat!vars  BY <1>4, <1>7, <1>8, <2>1, <2>3, FlatStutters
  <2> QED  BY <1>13, <2>4
<1>16. CASE ~report /\ out.ret = "SUCCESS"
  <2>1. ret' = "SUCCESS"  BY <1>3, <1>16
  <2>2. UrisOf(out.sigs) \in Seq(Uri) /\ UrisOf(out.sigs) \o <<>> = UrisOf(out.sigs)
    BY <1>9, UrisConcat
  <2>3. UrisOf(events)' = UrisOf(events) \o UrisOf(out.sigs)
    BY <1>10, <1>16, <2>2
  <2>4. UrisOf(<<>>) = <<>> /\ UrisOf(Itself(callee)) = <<callee>>
    BY <1>0, SignalUris
  <2>5. CASE out.sigs = <<>>
    <3>1. <<>> # Itself(callee)  BY DEF Itself
    <3>2. KindOf(callee) = "empty"  BY <1>2, <1>16, <2>5, <3>1 DEF KindOf
    <3>3. UrisOf(events)' = UrisOf(events)  BY <1>12, <2>3, <2>4, <2>5
    <3>4. LooksInto(Item0, "empty")  BY <1>11, <3>2 DEF LooksInto
    <3>5. Flat!Next
      BY <1>4, <1>6, <1>7, <1>8, <2>1, <3>3, <3>4, FlatDrops
    <3> QED  BY <1>13, <3>5
  <2>6. CASE out.sigs = Itself(callee)
    <3>1. KindOf(callee) = "other"  BY <1>2, <1>16, <2>6 DEF KindOf
    <3>2. UrisOf(events) \o <<callee>> = Append(UrisOf(events), callee)
      BY <1>0, <1>12 DEF Uri
    <3>3. UrisOf(events)' = Append(UrisOf(events), callee)  BY <2>3, <2>4, <2>6, <3>2
    <3>4. Flat!Next
      BY <1>4, <1>6, <1>7, <1>8, <1>11, <2>1, <3>1, <3>3, FlatReports
    <3> QED  BY <1>13, <3>4
  <2>7. CASE out.sigs # <<>> /\ out.sigs # Itself(callee)
    <3>1. KindOf(callee) = "leaf"  BY <1>2, <1>16, <2>7 DEF KindOf
    <3>2. UrisOf(out.sigs) = TargetsOf(callee)  BY <1>1, <1>2, <1>16, <2>7 DEF Told
    <3>3. LooksInto(Item0, "leaf")  BY <1>11, <3>1 DEF LooksInto
    <3>4. Flat!Next
      BY <1>0, <1>4, <1>6, <1>7, <1>8, <1>11, <2>1, <2>3, <3>2, <3>3, FlatIncludes
    <3> QED  BY <1>13, <3>4
  <2> QED  BY <2>5, <2>6, <2>7
<1> QED  BY <1>14, <1>15, <1>16

\* A handler starts to loop.
LEMMA StartLoopFlat ==
  ASSUME IInv, FInv, pc = "enter", level <= RecurseLevelMax,
         NEW out, out = Outcome(callee), StartLoop(out)
  PROVE  FInv' /\ [Flat!Next]_(Flat!vars)
<1>0. /\ TypeOK /\ FramesWait /\ Plain /\ docs \in [File -> Document] /\ callee \in File
      /\ level = Len(stack) /\ Asked /\ Len(stack) \in Nat
  BY Unleaked DEF FInv, TypeOK
<1>1. out \in Out /\ Told(callee, out)  BY <1>0, OutcomeTold
<1> DEFINE frame == [file |-> callee, kind |-> out.kind, pos |-> 1,
                     saved |-> fallback, extinf |-> 0]
<1>2. /\ out.kind # "none" /\ pc' = "run" /\ stack' = Append(stack, frame)
      /\ events' = events \o out.sigs /\ UNCHANGED <<inputs, leaked>>
  BY DEF StartLoop
<1>3. frame \in Frame  BY <1>0, <1>1, <1>2 DEF Out, Frame, TypeOK
<1>4. /\ frame.file = callee /\ frame.kind = out.kind /\ frame.pos = 1
  OBVIOUS
<1> HIDE DEF frame
<1>5. /\ Same /\ Plain' /\ UNCHANGED docs
      /\ \A f \in File : Outcome(f)' = Outcome(f)
      /\ Behind(stack)' = Behind(stack') /\ Left(stack)' = Left(stack')
  BY <1>2, SameOf
<1>6. /\ Left(stack) = <<Item0>> \o Behind(stack) /\ Behind(stack) \in Seq(WorkItem)
      /\ Item0 \in WorkItem
  BY <1>0, LeftAsked
<1>7. Work = Left(stack)  BY DEF Work
<1>8. Work' = Pending(frame, 1, Len(stack) + 1) \o Behind(stack)
  <2>1. Left(Append(stack, frame)) = Pending(frame, frame.pos, Len(stack) + 1) \o Behind(stack)
    BY <1>0, <1>3, LeftOf DEF TypeOK
  <2>2. Work' = Left(stack')  BY <1>2, <1>5 DEF Work
  <2> QED  BY <1>2, <1>4, <2>1, <2>2
<1>9. Item0.file = callee /\ Item0.nested /\ Item0.depth = Len(stack)
      /\ Item0.depth <= RecurseLevelMax
  BY <1>0 DEF Item0
<1>10. UrisOf(events)' = UrisOf(events)
  <2>1. out.sigs \in Seq(Signal)  BY <1>1 DEF Out
  <2>2. UrisOf(out.sigs) = <<>>  BY <1>1, <1>2 DEF Told
  <2> QED  BY <1>0, <1>2, <2>1, <2>2, UrisMore, UrisTyped
<1>11. \/ LooksInto(Item0, "playlist") /\ frame.kind # "directory"
       \/ LooksInto(Item0, "directory") /\ frame.kind = "directory"
  BY <1>2, <1>4, <1>9 DEF LooksInto, KindOf
<1>12. Flat!Next
  <2>1. Work' = Pending(frame, 1, Item0.depth + 1) \o Behind(stack)
    BY <1>8, <1>9
  <2>2. Work = <<Item0>> \o Behind(stack)  BY <1>6, <1>7
  <2> DEFINE w    == Item0
             rest == Behind(stack)
  <2>3. w \in WorkItem /\ rest \in Seq(WorkItem) /\ Same
    BY <1>5, <1>6
  <2>4. w.nested /\ w.depth <= RecurseLevelMax /\ frame.file = w.file
    BY <1>4, <1>9
  <2>5. Work = <<w>> \o rest /\ Work' = Pending(frame, 1, w.depth + 1) \o rest
    BY <2>1, <2>2
  <2>6. \/ LooksInto(w, "playlist") /\ frame.kind # "directory"
        \/ LooksInto(w, "directory") /\ frame.kind = "directory"
    BY <1>11
  <2> HIDE DEF w, rest
  <2> QED  BY <1>3, <1>10, <2>3, <2>4, <2>5, <2>6, FlatExpands
<1>13. FInv'
  <2>1. \A i \in DOMAIN stack : /\ stack[i].kind = Outcome(stack[i].file).kind
                                /\ stack[i].file \in File
    BY <1>0, FramesTyped DEF FInv
  <2>2. /\ DOMAIN stack' = 1 .. Len(stack) + 1 /\ DOMAIN stack = 1 .. Len(stack)
        /\ stack'[Len(stack) + 1] = frame
        /\ \A i \in 1 .. Len(stack) : stack'[i] = stack[i]
    BY <1>0, <1>2, <1>3 DEF TypeOK
  <2>3. \A i \in DOMAIN stack' : stack'[i].kind = Outcome(stack'[i].file).kind
    <3> SUFFICES ASSUME NEW i \in 1 .. Len(stack) + 1
        PROVE stack'[i].kind = Outcome(stack'[i].file).kind
      BY <2>2
    <3>1. CASE i = Len(stack) + 1  BY <1>4, <2>2, <3>1
    <3>2. CASE i # Len(stack) + 1
      <4>1. i \in 1 .. Len(stack)  BY <1>0, <3>2
      <4> QED  BY <2>1, <2>2, <4>1
    <3> QED  BY <3>1, <3>2
  <2>4. \A i \in DOMAIN stack' : stack'[i].file \in File
    <3> SUFFICES ASSUME NEW i \in 1 .. Len(stack) + 1 PROVE stack'[i].file \in File
      BY <2>2
    <3>1. CASE i = Len(stack) + 1  BY <1>0, <1>4, <2>2, <3>1
    <3>2. CASE i # Len(stack) + 1
      <4>1. i \in 1 .. Len(stack)  BY <1>0, <3>2
      <4> QED  BY <2>1, <2>2, <4>1
    <3> QED  BY <3>1, <3>2
  <2>5. (\A i \in DOMAIN stack : stack[i].kind = Outcome(stack[i].file).kind)'
    BY <1>5, <2>3, <2>4
  <2> QED  BY <1>2, <1>5, <2>5 DEF FInv
<1> QED  BY <1>12, <1>13

LEMMA ParseInternalFlat ==
  ASSUME IInv, FInv, ParseInternal
  PROVE  FInv' /\ [Flat!Next]_(Flat!vars)
<1>0. TypeOK /\ Plain /\ level = Len(stack) /\ Len(stack) \in Nat /\ RecurseLevelMax \in Nat
  BY Unleaked
<1>1. pc = "enter"
  BY DEF ParseInternal, EnterTooDeep, EnterStream, EnterFeed, EnterNoRecurse,
         EnterUntyped, EnterEmpty, EnterIgnored, EnterUnsafe, EnterSpecial,
         EnterDualRejected, EnterDual, EnterOther, ParsingType, Parsing, Entering
<1>2. CASE level <= RecurseLevelMax
  <2>1. Finishes(Outcome(callee)) \/ StartLoop(Outcome(callee))
    BY <1>0, <1>2, Entered
  <2> QED  BY <1>1, <1>2, <2>1, FinishesFlat, StartLoopFlat
<1>3. CASE level > RecurseLevelMax
  <2>1. EnterTooDeep
    BY <1>0, <1>3
    DEF ParseInternal, EnterStream, EnterFeed, EnterNoRecurse,
        EnterUntyped, EnterEmpty, EnterIgnored, EnterUnsafe, EnterSpecial,
        EnterDualRejected, EnterDual, EnterOther, ParsingType, Parsing, Entering
  <2>2. /\ pc' = "return" /\ ret' = "ERROR"
        /\ UNCHANGED <<inputs, callee, stack, level, events, leaked>>
    BY <2>1 DEF EnterTooDeep, Return
  <2>3. /\ Same /\ Plain' /\ UNCHANGED docs
        /\ \A f \in File : Outcome(f)' = Outcome(f)
        /\ Left(stack)' = Left(stack')
    BY <2>2, SameOf
  <2>4. Work = Left(stack) /\ Work' = Left(stack)  BY <1>1, <2>2, <2>3 DEF Work
  <2>5. UNCHANGED Flat!vars  BY <2>2, <2>3, <2>4, UrisUnchanged, FlatStutters
  <2>6. FInv'
    <3>1. Asked' <=> Asked  BY <2>2, <2>3 DEF Asked, There, Top, Nests, Ignore
    <3>2. \A i \in DOMAIN stack : /\ stack[i].kind = Outcome(stack[i].file).kind
                                  /\ stack[i].file \in File
      BY <1>0, FramesTyped DEF FInv
    <3>3. (\A i \in DOMAIN stack : stack[i].kind = Outcome(stack[i].file).kind)'
      BY <2>2, <2>3, <3>2
    <3> QED  BY <1>1, <1>3, <2>2, <2>3, <3>1, <3>3 DEF FInv
  <2> QED  BY <2>5, <2>6
<1> QED  BY <1>0, <1>2, <1>3

\* The innermost loop goes on.
LEMMA LoopGoesOn ==
  ASSUME IInv, FInv, stack # <<>>, NEW p \in Nat \ {0}, NEW x \in Nat, Advance(p, x),
         pc' = "run", UNCHANGED <<inputs, leaked>>
  PROVE  /\ FInv' /\ Same
         /\ Work' = Pending(Top, p, Len(stack)) \o Behind(Front(stack))
<1>0. /\ TypeOK /\ FramesWait /\ Plain /\ docs \in [File -> Document]
      /\ Front(stack) \in Seq(Frame) /\ Top \in Frame /\ stack = Append(Front(stack), Top)
      /\ Len(Front(stack)) + 1 = Len(stack) /\ Len(Front(stack)) \in Nat
  BY Unleaked, FramesSplit
<1>1. PICK t \in Frame : /\ t.pos = p /\ t.file = Top.file /\ t.kind = Top.kind
                         /\ stack' = Append(Front(stack), t)
  BY <1>0, Advanced
<1>2. /\ Same /\ Plain' /\ UNCHANGED docs
      /\ \A f \in File : Outcome(f)' = Outcome(f)
      /\ Left(stack)' = Left(stack')
  BY SameOf
<1>3. Work' = Left(stack')  BY <1>2 DEF Work
<1>4. Left(stack') = Pending(Top, p, Len(stack)) \o Behind(Front(stack))
  <2> DEFINE s == Front(stack)
             y == Top
  <2>1. s \in Seq(Frame) /\ y \in Frame /\ t.file = y.file /\ t.kind = y.kind
    BY <1>0, <1>1
  <2> HIDE DEF s, y
  <2>2. Left(Append(s, t)) = Pending(y, t.pos, Len(s) + 1) \o Behind(s)
    BY <1>0, <1>1, <2>1, LeftOf
  <2> QED  BY <1>0, <1>1, <2>2 DEF s, y
<1>5. \A i \in DOMAIN stack : stack[i].kind = Outcome(stack[i].file).kind
                              /\ stack[i].file \in File
  BY <1>0, FramesTyped DEF FInv
<1>6. /\ DOMAIN stack' = DOMAIN stack
      /\ \A i \in DOMAIN stack : /\ stack'[i].kind = stack[i].kind
                                 /\ stack'[i].file = stack[i].file
  <2> DEFINE s == Front(stack)
             y == Top
  <2>1. s \in Seq(Frame) /\ y \in Frame /\ t \in Frame /\ stack = Append(s, y)
        /\ stack' = Append(s, t) /\ t.kind = y.kind /\ t.file = y.file
    BY <1>0, <1>1
  <2> HIDE DEF s, y
  <2> QED  BY <2>1
<1>7. (\A i \in DOMAIN stack : stack[i].kind = Outcome(stack[i].file).kind)'
  BY <1>2, <1>5, <1>6
<1>8. FInv'  BY <1>2, <1>7 DEF FInv
<1> QED  BY <1>2, <1>3, <1>4, <1>8

\* What an item of the innermost loop is in the work list.
LEMMA OneEntry ==
  ASSUME TypeOK, NEW e \in Signal, events' = Append(events, e)
  PROVE  /\ e.sig = "entry" => UrisOf(events)' = Append(UrisOf(events), e.uri)
         /\ e.sig # "entry" => UrisOf(events)' = UrisOf(events)
<1>1. <<e>> \in Seq(Signal) /\ Len(<<e>>) = 1 /\ \A n \in 1 .. Len(<<e>>) : <<e>>[n] = e
  OBVIOUS
<1>2. events' = events \o <<e>>  BY DEF TypeOK
<1>3. UrisOf(events)' = UrisOf(events) \o UrisOf(<<e>>)  BY <1>1, <1>2, UrisMore
<1>4. UrisOf(events) \in Seq(Uri) /\ UrisOf(events) \o <<>> = UrisOf(events)
  BY UrisTyped
<1>5. CASE e.sig = "entry"
  <2>1. UrisOf(<<e>>) = [n \in 1 .. Len(<<e>>) |-> <<e>>[n].uri]  BY <1>1, <1>5, UrisAll
  <2>2. UrisOf(<<e>>) = <<e.uri>>  BY <1>1, <2>1
  <2> DEFINE u == UrisOf(events)
             x == e.uri
  <2>3. u \in Seq(Uri) /\ x \in Uri  BY <1>4 DEF Signal, Uri
  <2>4. UrisOf(events)' = u \o <<x>>  BY <1>3, <2>2
  <2> HIDE DEF u, x
  <2>5. u \o <<x>> = Append(u, x)  BY <2>3
  <2> QED  BY <1>5, <2>4, <2>5 DEF u, x
<1>6. CASE e.sig # "entry"
  <2>1. UrisOf(<<e>>) = <<>>  BY <1>1, <1>6, UrisNone
  <2> QED  BY <1>3, <1>4, <1>6, <2>1
<1> QED  BY <1>5, <1>6

LEMMA TodoTyped ==
  ASSUME TypeOK, FramesWait, stack # <<>>, Top.pos <= Len(docs[Top.file].items)
  PROVE  LET w == Todo(Top, Ref(There), Len(stack))
         IN  /\ w \in WorkItem /\ w.file = There.to /\ w.nested = Nests(There)
             /\ w.depth = Len(stack) /\ w.forced = (Top.kind # "directory")
             /\ There.to \in File /\ Top.pos \in DOMAIN docs[Top.file].items
             /\ ItemEntry \in Signal /\ ItemEntry.sig = "entry" /\ ItemEntry.uri = There.to
<1>1. /\ Top \in Frame /\ Top.pos \in Nat \ {0} /\ Top.file \in File
      /\ Len(stack) \in Nat
  BY FramesSplit DEF TypeOK
<1>2. Top.pos \in DOMAIN docs[Top.file].items
  BY <1>1, DocumentTyped DEF TypeOK
<1>3. There.to \in File /\ ItemEntry \in Signal  BY <1>2, ItemEntryTyped
<1>4. ItemEntry.sig = "entry" /\ ItemEntry.uri = There.to  BY DEF ItemEntry, Entry
<1>5. Nests(There) \in BOOLEAN  BY NestsTyped
<1> QED  BY <1>1, <1>2, <1>3, <1>4, <1>5 DEF Todo, Ref, WorkItem

\* The loop passes an item parse_internal is not asked about.
LEMMA PassesFlat ==
  ASSUME IInv, FInv, ReportItem \/ SkipItem \/ StopAtItem \/ RepeatItem
  PROVE  FInv' /\ [Flat!Next]_(Flat!vars)
<1>0. /\ TypeOK /\ FramesWait /\ docs \in [File -> Document]
      /\ Len(stack) \in Nat /\ RecurseLevelMax \in Nat
  BY Unleaked
<1>1. pc = "run" /\ Looping /\ Top.pos <= Len(docs[Top.file].items)
  BY DEF ReportItem, SkipItem, StopAtItem, RepeatItem, Looping
<1>2. stack # <<>>  BY <1>0, <1>1 DEF TypeOK
<1>3. /\ Top \in Frame /\ Top.pos \in Nat \ {0} /\ Top.file \in File
      /\ Len(docs[Top.file].items) \in Nat
  BY <1>0, <1>2, FramesSplit
<1>4. Work = Left(stack)  BY <1>1 DEF Work
<1>5. /\ There.how \in {"nested", "direct", "link"} =>
           Left(stack) = <<Todo(Top, Ref(There), Len(stack))>> \o Behind(stack)
      /\ There.how \notin {"nested", "direct", "link", "stop"} => Left(stack) = Behind(stack)
      /\ There.how = "stop" => Left(stack) = Behind(Front(stack))
  BY <1>0, <1>1, <1>2, LeftMoves
<1>6. /\ Behind(stack) = Pending(Top, Top.pos + 1, Len(stack)) \o Behind(Front(stack))
      /\ Behind(Front(stack)) \in Seq(WorkItem) /\ Behind(stack) \in Seq(WorkItem)
  BY <1>0, <1>2, BehindSplit, BehindTyped
<1>7. pc' = "run" /\ UNCHANGED <<inputs, leaked>>
  BY <1>1 DEF ReportItem, SkipItem, StopAtItem, RepeatItem
<1>8. ASSUME NEW x \in Nat, Advance(Top.pos + 1, x)
      PROVE  FInv' /\ Same /\ Work' = Behind(stack)
  <2>1. Top.pos + 1 \in Nat \ {0}  BY <1>3
  <2> QED  BY <1>2, <1>6, <1>7, <1>8, <2>1, LoopGoesOn
<1>9. CASE ReportItem
  <2>1. /\ There.how \in {"direct", "link"} /\ ~Nests(There)
        /\ events' = Append(events, ItemEntry) /\ Advance(Top.pos + 1, 0)
    BY <1>9 DEF ReportItem
  <2>2. FInv' /\ Same /\ Work' = Behind(stack)  BY <1>8, <2>1
  <2> DEFINE w == Todo(Top, Ref(There), Len(stack))
  <2>3. /\ w \in WorkItem /\ w.file = There.to /\ w.nested = Nests(There)
        /\ ItemEntry \in Signal /\ ItemEntry.sig = "entry" /\ ItemEntry.uri = There.to
    BY <1>0, <1>1, <1>2, TodoTyped
  <2>4. Work = <<w>> \o Behind(stack)  BY <1>4, <1>5, <2>1
  <2> HIDE DEF w
  <2>5. UrisOf(events)' = Append(UrisOf(events), w.file)
    BY <1>0, <2>1, <2>3, OneEntry
  <2>6. ~w.nested  BY <2>1, <2>3
  <2>7. Flat!Next  BY <1>6, <2>2, <2>3, <2>4, <2>5, <2>6, FlatReports
  <2> QED  BY <2>2, <2>7
<1>10. CASE SkipItem
  <2> DEFINE x == IF There.how = "extinf" /\ Top.extinf = 0 THEN Top.pos ELSE Top.extinf
  <2>1. There.how \in {"skip", "bad", "extinf"} /\ Advance(Top.pos + 1, x) /\ UNCHANGED events
    BY <1>10 DEF SkipItem
  <2>2. x \in Nat  BY <1>3 DEF Frame
  <2> HIDE DEF x
  <2>3. FInv' /\ Same /\ Work' = Behind(stack)  BY <1>8, <2>1, <2>2
  <2>4. Work = Behind(stack)  BY <1>4, <1>5, <2>1
  <2> QED  BY <2>1, <2>3, <2>4, UrisUnchanged, FlatStutters
<1>11. CASE StopAtItem
  <2> DEFINE q == Len(docs[Top.file].items) + 1
  <2>1. There.how = "stop" /\ Advance(q, 0) /\ UNCHANGED events
    BY <1>11 DEF StopAtItem
  <2>2. q \in Nat \ {0} /\ q > Len(docs[Top.file].items)  BY <1>3
  <2> HIDE DEF q
  <2>3. /\ FInv' /\ Same
        /\ Work' = Pending(Top, q, Len(stack)) \o Behind(Front(stack))
    BY <1>2, <1>7, <2>1, <2>2, LoopGoesOn
  <2>4. Pending(Top, q, Len(stack)) = <<>>  BY <1>0, <1>3, <2>2, PendingTyped
  <2>5. <<>> \o Behind(Front(stack)) = Behind(Front(stack))  BY <1>6
  <2>6. Work' = Work  BY <1>4, <1>5, <2>1, <2>3, <2>4, <2>5
  <2> QED  BY <2>1, <2>3, <2>6, UrisUnchanged, FlatStutters
<1>12. CASE RepeatItem
  <2>1. There.how \in {"open", "close"} /\ Advance(Top.pos + 1, 0)
    BY <1>12 DEF RepeatItem
  <2>3. FInv' /\ Same /\ Work' = Behind(stack)  BY <1>8, <2>1
  <2>4. Work = Behind(stack)  BY <1>4, <1>5, <2>1
  <2>5. UrisOf(events)' = UrisOf(events)
    <3>1. ASSUME NEW s \in Signal, events' = Append(events, s), s.sig # "entry"
          PROVE  UrisOf(events)' = UrisOf(events)
      BY <1>0, <3>1, OneEntry
    <3>2. CASE events' = events  BY <3>2, UrisUnchanged
    <3> QED  BY <1>0, <1>2, <1>12, <3>1, <3>2, RepeatSays
  <2> QED  BY <2>3, <2>4, <2>5, FlatStutters
<1> QED  BY <1>9, <1>10, <1>11, <1>12

\* parse_internal is asked about an item.
LEMMA ParseItemFlat ==
  ASSUME IInv, FInv, ParseItem
  PROVE  FInv' /\ [Flat!Next]_(Flat!vars)
<1>0. /\ TypeOK /\ FramesWait /\ docs \in [File -> Document]
  BY Unleaked
<1>1. /\ pc = "run" /\ Nests(There) /\ pc' = "enter" /\ callee' = There.to
      /\ stack' = [stack EXCEPT ![Len(stack)].saved = fallback]
      /\ UNCHANGED <<inputs, events, leaked>>
  BY DEF ParseItem, Looping
<1>2. stack # <<>>  BY <1>0, <1>1 DEF TypeOK
<1>3. /\ Front(stack) \in Seq(Frame) /\ Top \in Frame /\ stack = Append(Front(stack), Top)
      /\ Len(Front(stack)) + 1 = Len(stack) /\ Len(Front(stack)) \in Nat
      /\ fallback \in BOOLEAN
  BY <1>0, <1>2, FramesSplit DEF TypeOK
<1> DEFINE t == [Top EXCEPT !.saved = fallback]
           s == Front(stack)
           y == Top
<1>4. t \in Frame /\ t.file = y.file /\ t.kind = y.kind /\ t.pos = y.pos
  BY <1>3 DEF Frame
<1>5. /\ stack' = [stack EXCEPT ![Len(stack)] = t]
  BY <1>0, <1>1, <1>2, TopTyped DEF Top, TypeOK
<1>6. s \in Seq(Frame) /\ y \in Frame /\ stack = Append(s, y) /\ Len(s) \in Nat
      /\ Len(s) + 1 = Len(stack)
  BY <1>3
<1>a. y = stack[Len(stack)]  BY DEF Top
<1> HIDE DEF t, s, y
<1>7. stack' = Append(s, t) /\ Len(stack') = Len(stack) /\ stack'[Len(stack')] = t
      /\ DOMAIN stack' = DOMAIN stack
      /\ \A i \in DOMAIN stack : /\ stack'[i].kind = stack[i].kind
                                 /\ stack'[i].file = stack[i].file
  <2> DEFINE u == Append(s, y)
             v == [u EXCEPT ![Len(s) + 1] = t]
             z == Append(s, t)
  <2>a. /\ u \in Seq(Frame) /\ Len(u) = Len(s) + 1
        /\ \A i \in 1 .. Len(s) : u[i] = s[i]
    BY <1>6
  <2>b. /\ z \in Seq(Frame) /\ Len(z) = Len(s) + 1 /\ z[Len(s) + 1] = t
        /\ \A i \in 1 .. Len(s) : z[i] = s[i]
    BY <1>4, <1>6
  <2> HIDE DEF u, z
  <2>c. /\ v \in Seq(Frame) /\ Len(v) = Len(s) + 1 /\ v[Len(s) + 1] = t
        /\ \A i \in 1 .. Len(s) : v[i] = u[i]
    BY <1>4, <1>6, <2>a
  <2>1. /\ v \in Seq(Frame) /\ z \in Seq(Frame) /\ Len(v) = Len(z)
        /\ \A i \in 1 .. Len(v) : v[i] = z[i]
    BY <1>6, <2>a, <2>b, <2>c
  <2>2. stack' = v  BY <1>5, <1>6 DEF u
  <2> HIDE DEF v
  <2>3. stack' = z  BY <2>1, <2>2, SeqEqual
  <2> QED  BY <1>4, <1>6, <2>3 DEF z
<1>8. /\ Same /\ Plain' /\ UNCHANGED docs
      /\ \A f \in File : Outcome(f)' = Outcome(f)
      /\ Left(stack)' = Left(stack')
  BY <1>1, SameOf
<1>9. Left(stack') = Left(stack)
  <2>1. Left(Append(s, t)) = Pending(y, t.pos, Len(s) + 1) \o Behind(s)
    BY <1>0, <1>4, <1>6, LeftOf
  <2>2. Left(Append(s, y)) = Pending(y, y.pos, Len(s) + 1) \o Behind(s)
    BY <1>0, <1>6, LeftOf
  <2> QED  BY <1>4, <1>6, <1>7, <2>1, <2>2
<1>10. Work' = Work  BY <1>1, <1>8, <1>9 DEF Work
<1>11. UNCHANGED Flat!vars  BY <1>1, <1>8, <1>10, UrisUnchanged, FlatStutters
<1>12. Asked'
  <2>1. There' = There
    <3>1. Top' = t  BY <1>7 DEF Top
    <3> QED  BY <1>4, <1>8, <3>1 DEF There, y
  <2>2. stack' # <<>>
    <3>1. Append(s, t) # <<>>  BY <1>4, <1>6
    <3> QED  BY <1>7, <3>1
  <2>3. Nests(There)' <=> Nests(There)  BY <1>8, <2>1 DEF Nests, Ignore
  <2> QED  BY <1>1, <2>1, <2>2, <2>3 DEF Asked
<1>13. FInv'
  <2>1. \A i \in DOMAIN stack : stack[i].kind = Outcome(stack[i].file).kind
                                /\ stack[i].file \in File
    BY <1>0, FramesTyped DEF FInv
  <2>2. (\A i \in DOMAIN stack : stack[i].kind = Outcome(stack[i].file).kind)'
    BY <1>7, <1>8, <2>1
  <2> QED  BY <1>1, <1>8, <1>12, <2>2 DEF FInv
<1> QED  BY <1>11, <1>13

\* The item failed, or it was looked into.
LEMMA ItemParsedFlat ==
  ASSUME IInv, FInv, ItemParsed
  PROVE  FInv' /\ [Flat!Next]_(Flat!vars)
<1>0. /\ TypeOK /\ FramesWait /\ docs \in [File -> Document]
      /\ level = Len(stack) /\ Len(stack) \in Nat /\ RecurseLevelMax \in Nat
  BY Unleaked
<1>1. /\ pc = "return" /\ stack # <<>> /\ pc' = "run"
      /\ events' = IF ReportsFailed(Top.kind, ret) THEN Append(events, ItemEntry)
                                                   ELSE events
      /\ Advance(Top.pos + 1, 0) /\ UNCHANGED <<inputs, leaked>>
  BY DEF ItemParsed
<1>2. FInv' /\ Same /\ Work' = Behind(stack)
  <2>1. Top.pos + 1 \in Nat \ {0}  BY <1>0, <1>1, FramesSplit
  <2>2. /\ FInv' /\ Same
        /\ Work' = Pending(Top, Top.pos + 1, Len(stack)) \o Behind(Front(stack))
    BY <1>1, <2>1, LoopGoesOn
  <2> QED  BY <1>0, <1>1, <2>2, BehindSplit
<1>3. CASE ret = "SUCCESS"
  <2>1. UNCHANGED events  BY <1>1, <1>3 DEF ReportsFailed
  <2>2. Work = Behind(stack)  BY <1>1, <1>3 DEF Work
  <2> QED  BY <1>2, <2>1, <2>2, UrisUnchanged, FlatStutters
<1>4. CASE ret # "SUCCESS"
  <2> DEFINE w    == Item0
             rest == Behind(stack)
  <2>1. Asked /\ (level > RecurseLevelMax \/ KindOf(callee) = "other")
    BY <1>1, <1>4 DEF FInv
  <2>2. Left(stack) = <<w>> \o rest /\ rest \in Seq(WorkItem) /\ w \in WorkItem
    BY <1>1, <2>1, LeftAsked
  <2>3. Work = <<w>> \o rest /\ Work' = rest /\ Same  BY <1>1, <1>2, <1>4, <2>2 DEF Work
  <2>4. /\ w.file = callee /\ w.depth = Len(stack) /\ w.nested
        /\ w.forced = (Top.kind # "directory")
    BY <1>1 DEF Item0
  <2>5. w.depth > RecurseLevelMax \/ KindOf(w.file) = "other"
    BY <1>0, <2>1, <2>4
  <2>6. callee = There.to  BY <1>1, <2>1 DEF Asked
  <2> HIDE DEF w, rest
  <2>7. CASE ReportsFailed(Top.kind, ret)
    <3>1. Len(stack) \in DOMAIN stack  BY <1>0, <1>1 DEF TypeOK
    <3>2. Top.pos <= Len(docs[Top.file].items)
      BY <1>0, <1>1, <3>1 DEF FramesWait, Waiting, Top
    <3>3. ItemEntry \in Signal /\ ItemEntry.sig = "entry" /\ ItemEntry.uri = w.file
      BY <1>0, <1>1, <2>4, <2>6, <3>2, TodoTyped
    <3>4. events' = Append(events, ItemEntry)  BY <1>1, <2>7
    <3>5. UrisOf(events)' = Append(UrisOf(events), w.file)
      BY <1>0, <3>3, <3>4, OneEntry
    <3>6. Flat!Next  BY <2>2, <2>3, <2>5, <3>5, FlatReports
    <3> QED  BY <1>2, <3>6
  <2>8. CASE ~ReportsFailed(Top.kind, ret)
    <3>1. UNCHANGED events  BY <1>1, <2>8
    <3>2. UrisOf(events)' = UrisOf(events)  BY <3>1, UrisUnchanged
    <3>3. ~w.forced  BY <1>4, <2>4, <2>8 DEF ReportsFailed
    <3>4. \/ LooksInto(w, "other") /\ ~w.forced
          \/ w.depth > RecurseLevelMax /\ ~w.forced
      BY <1>0, <2>4, <2>5, <3>3 DEF LooksInto
    <3>5. Flat!Next  BY <2>2, <2>3, <3>2, <3>4, FlatDrops
    <3> QED  BY <1>2, <3>5
  <2> QED  BY <2>7, <2>8
<1> QED  BY <1>3, <1>4

\* The innermost loop has dealt with its last item, and its caller goes on.
LEMMA EndLoopFlat ==
  ASSUME IInv, FInv, EndLoop
  PROVE  FInv' /\ [Flat!Next]_(Flat!vars)
<1>0. /\ TypeOK /\ FramesWait /\ docs \in [File -> Document]
  BY Unleaked
<1>1. /\ pc = "run" /\ Top.pos > Len(docs[Top.file].items) /\ pc' = "return"
      /\ ret' = "SUCCESS" /\ events' = events \o EndSignals(Top)
      /\ stack' = SubSeq(stack, 1, Len(stack) - 1)
      /\ UNCHANGED <<inputs, leaked>>
  BY DEF EndLoop
<1>2. stack # <<>>  BY <1>0, <1>1 DEF TypeOK
<1>3. /\ Same /\ Plain' /\ UNCHANGED docs
      /\ \A f \in File : Outcome(f)' = Outcome(f)
      /\ Behind(stack)' = Behind(stack')
  BY <1>1, SameOf
<1>4. stack' = Front(stack)  BY <1>1 DEF Front
<1>5. Work = Behind(Front(stack))
  <2>1. Work = Left(stack)  BY <1>1 DEF Work
  <2> QED  BY <1>0, <1>1, <1>2, <2>1, LeftMoves
<1>6. Work' = Work
  <2>1. Work' = Behind(stack')  BY <1>1, <1>3 DEF Work
  <2> QED  BY <1>4, <1>5, <2>1
<1>7. UrisOf(events)' = UrisOf(events)
  <2> DEFINE es == EndSignals(Top)
  <2>1. Top \in Frame /\ Top.file \in File  BY <1>0, <1>2, FramesSplit
  <2>2. es \in Seq(Signal) /\ \A n \in 1 .. Len(es) : es[n].sig # "entry"
    <3>1. Ended(TitleText, Top.file) \in Signal /\ Ended(Top.file, Top.file) \in Signal
      BY <2>1, SignalTyped
    <3>2. \A uri : Ended(uri, Top.file).sig = "ended"  BY DEF Ended
    <3> QED  BY <3>1, <3>2 DEF EndSignals
  <2> HIDE DEF es
  <2>3. UrisOf(es) = <<>>  BY <2>2, UrisNone
  <2>4. UrisOf(events)' = UrisOf(events) \o UrisOf(es)
    BY <1>0, <1>1, <2>2, UrisMore DEF es
  <2> QED  BY <1>0, <2>3, <2>4, UrisTyped
<1>8. FInv'
  <2>1. /\ DOMAIN stack' = 1 .. Len(stack) - 1 /\ DOMAIN stack = 1 .. Len(stack)
        /\ \A i \in 1 .. Len(stack) - 1 : stack'[i] = stack[i]
        /\ Len(stack) \in Nat
    BY <1>0, <1>1, <1>2, PopTyped DEF TypeOK
  <2>2. \A i \in DOMAIN stack : stack[i].kind = Outcome(stack[i].file).kind
                                /\ stack[i].file \in File
    BY <1>0, FramesTyped DEF FInv
  <2>3. (\A i \in DOMAIN stack : stack[i].kind = Outcome(stack[i].file).kind)'
    BY <1>3, <2>1, <2>2
  <2> QED  BY <1>1, <1>3, <2>3 DEF FInv
<1> QED  BY <1>3, <1>6, <1>7, <1>8, FlatStutters

\* parse_with_base hands the location over, and hands the result back.
LEMMA CallerFlat ==
  ASSUME IInv, FInv, ParseWithBase \/ ParseReturns
  PROVE  FInv' /\ [Flat!Next]_(Flat!vars)
<1>0. /\ TypeOK /\ FramesWait /\ Plain /\ docs \in [File -> Document]
      /\ level = Len(stack) /\ RecurseLevelMax \in Nat
  BY Unleaked
<1>1. /\ stack = <<>> /\ UNCHANGED <<inputs, callee, stack, level, ret, events, leaked>>
      /\ \/ pc = "start" /\ pc' = "enter"
         \/ pc = "return" /\ pc' = "done"
  <2>1. docs[Root].scheme \notin IgnoredSchemes  BY <1>0 DEF Plain
  <2> QED  BY <1>0, <2>1 DEF TypeOK, ParseWithBase, ParseReturns, inputs
<1>2. /\ Same /\ Plain' /\ UNCHANGED docs
      /\ \A f \in File : Outcome(f)' = Outcome(f)
      /\ Behind(stack)' = Behind(stack') /\ Left(stack)' = Left(stack')
  BY <1>1, SameOf
<1>3. UrisOf(events)' = UrisOf(events)  BY <1>1, UrisUnchanged
<1>4. (Asked <=> callee = Root) /\ (Asked' <=> callee = Root)  BY <1>1 DEF Asked
<1>5. FInv'
  <2>1. (\A i \in DOMAIN stack : stack[i].kind = Outcome(stack[i].file).kind)'
    BY <1>1
  <2> QED  BY <1>1, <1>2, <1>4, <2>1 DEF FInv
<1>6. CASE pc = "start"
  <2>1. Work = Left(stack) /\ Work' = Left(stack)  BY <1>1, <1>2, <1>6 DEF Work
  <2> QED  BY <1>2, <1>3, <1>5, <2>1, FlatStutters
<1>7. CASE pc = "return" /\ ret = "SUCCESS"
  <2>1. Work = Behind(stack) /\ Work' = Behind(stack)  BY <1>1, <1>2, <1>7 DEF Work
  <2> QED  BY <1>2, <1>3, <1>5, <2>1, FlatStutters
<1>8. CASE pc = "return" /\ ret # "SUCCESS"
  <2> DEFINE w    == Item0
             rest == Behind(stack)
  <2>1. Asked /\ (level > RecurseLevelMax \/ KindOf(callee) = "other")
    BY <1>8 DEF FInv
  <2>2. Left(stack) = <<w>> \o rest /\ rest \in Seq(WorkItem) /\ w \in WorkItem
    BY <1>8, <2>1, LeftAsked
  <2>3. Work = <<w>> \o rest /\ Work' = rest
    BY <1>1, <1>2, <1>8, <2>2 DEF Work
  <2>4. w.file = callee /\ w.depth = 0 /\ w.nested /\ ~w.forced
    BY <1>1 DEF Item0
  <2>5. LooksInto(w, "other")
    BY <1>0, <1>1, <2>1, <2>4 DEF LooksInto
  <2> HIDE DEF w, rest
  <2>6. Flat!Next  BY <1>2, <1>3, <2>2, <2>3, <2>4, <2>5, FlatDrops
  <2> QED  BY <1>5, <2>6
<1> QED  BY <1>1, <1>6, <1>7, <1>8

LEMMA NextFlat == IInv /\ FInv /\ [Next]_vars => FInv' /\ [Flat!Next]_(Flat!vars)
<1> SUFFICES ASSUME IInv, FInv, [Next]_vars PROVE FInv' /\ [Flat!Next]_(Flat!vars)
  OBVIOUS
<1>1. CASE ParseInternal  BY <1>1, ParseInternalFlat
<1>2. CASE HandlerStep
  BY <1>2, PassesFlat, ParseItemFlat, ItemParsedFlat, EndLoopFlat DEF HandlerStep
<1>3. CASE ParseWithBase \/ ParseReturns  BY <1>3, CallerFlat
<1>4. CASE UNCHANGED vars
  <2>1. UNCHANGED <<inputs, pc, callee, stack, level, ret, events, leaked>>
    BY <1>4 DEF vars, inputs
  <2>2. /\ Same /\ Plain' /\ UNCHANGED docs
        /\ \A f \in File : Outcome(f)' = Outcome(f)
        /\ Behind(stack)' = Behind(stack') /\ Left(stack)' = Left(stack')
    BY <2>1, SameOf
  <2>3. Work' = Work  BY <2>1, <2>2 DEF Work
  <2>4. Asked' <=> Asked  BY <2>1, <2>2 DEF Asked, There, Top, Nests, Ignore
  <2>5. \A i \in DOMAIN stack : stack[i].kind = Outcome(stack[i].file).kind
                                /\ stack[i].file \in File
    BY FramesTyped DEF FInv, IInv
  <2>6. (\A i \in DOMAIN stack : stack[i].kind = Outcome(stack[i].file).kind)'
    BY <2>1, <2>2, <2>5
  <2>7. KindOf(callee)' = KindOf(callee)
    <3>1. callee \in File  BY DEF IInv, TypeOK
    <3> QED  BY <2>1, <2>2, <3>1 DEF Same
  <2>8. FInv'  BY <2>1, <2>2, <2>4, <2>6, <2>7 DEF FInv
  <2> QED  BY <2>1, <2>2, <2>3, <2>8, UrisUnchanged, FlatStutters
<1> QED  BY <1>1, <1>2, <1>3, <1>4 DEF Next, Terminated

\* A parse starts with one thing to do, and with nothing to show for it.
LEMMA InitFlat == Init => Flat!Init /\ (Plain => FInv)
<1> SUFFICES ASSUME Init PROVE Flat!Init /\ (Plain => FInv)
  OBVIOUS
<1>1. /\ TypeOK /\ docs \in [File -> Document] /\ pc = "start" /\ callee = Root
      /\ stack = <<>> /\ events = <<>> /\ leaked = 0
  BY InitIInv DEF Init, Fresh, IInv, TypeOK
<1>2. \A f \in File : KindOf(f) \in Flat!Kind  BY DEF KindOf, Flat!Kind
<1>3. Work = <<[file |-> Root, depth |-> 0, nested |-> TRUE, forced |-> FALSE]>>
  BY <1>1 DEF Work, Left
<1>4. UrisOf(events) = <<>>  BY <1>1, RootAssumption, SignalUris
<1>5. Flat!Init  BY <1>2, <1>3, <1>4 DEF Flat!Init
<1>6. Plain => FInv
  <2>1. DOMAIN stack = {}  BY <1>1
  <2> QED  BY <1>1, <2>1 DEF FInv, Asked
<1> QED  BY <1>5, <1>6

\* The parse implements the flattening: for every library of documents, every
\* set of options and every limit of the recursion, each step of the dispatcher
\* and of the handlers' loops is a step of PlFlatten or leaves what it shows
\* alone, so the items are reported in document order, none twice and none that
\* PlFlatten does not let go, until the parse returns.
THEOREM FlattensSafely == Spec /\ Plain => Flat!Init /\ [][Flat!Next]_(Flat!vars)
<1>1. Init => Flat!Init /\ (Plain => FInv)  BY InitFlat
<1>2. IInv /\ FInv /\ [Next]_vars => FInv' /\ [Flat!Next]_(Flat!vars)  BY NextFlat
<1> QED  BY <1>1, <1>2, Inductive, PTL DEF Spec

=============================================================================
