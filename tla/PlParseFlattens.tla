--------------------------- MODULE PlParseFlattens ---------------------------
(***************************************************************************)
(* PlParse implements PlFlatten: the work list is what the loops on the C  *)
(* stack have not dealt with yet, innermost loop first, and the output is  *)
(* the sequence of ::entry-parsed signals.                                 *)
(***************************************************************************)
EXTENDS PlParse, SequencesExt

\* What the dispatcher makes of the document f when it looks into it.
Outcome(f) ==
  LET t    == Guess(docs[f])
      dual == DualGuess(docs[f])
  IN  IF docs[f].scheme = "stream" THEN GivesUp("UNHANDLED")
      ELSE IF docs[f].scheme \in {"feed", "zune", "itms"} THEN AddFeed(f)
      ELSE IF FirstGuess(docs[f]).mime = "none" THEN GivesUp("UNHANDLED")
      ELSE IF FirstGuess(docs[f]).mime = "empty" THEN GivesUp("SUCCESS")
      ELSE IF t.mime \in IgnoredMimes THEN GivesUp("IGNORED")
      ELSE IF t.mime \in SpecialTypes THEN Call(HandlerOf[t.mime], f, t.data)
      ELSE IF t.mime \in DualTypes /\ dual.mime \notin TextTypes
           THEN Call(DualHandler(docs[f]), f, dual.data)
      ELSE GivesUp("UNHANDLED")

KindOf(f) ==
  LET out == Outcome(f)
  IN  IF out.kind = "directory" THEN "directory"
      ELSE IF out.kind # "none" THEN "playlist"
      ELSE IF out.ret # "SUCCESS" \/ out.sigs = Itself(f) THEN "other"
      ELSE IF out.sigs = <<>> THEN "empty" ELSE "leaf"

Ref(item) == [to |-> item.to, nested |-> Nests(item)]

\* What the loop over f meets from item p on: a .ram is cut at its --stop-- line.
RefsFrom(f, p) ==
  LET items == docs[f].items
      Met(n) == IF /\ items[n].how \in {"nested", "direct", "link"}
                   /\ \A k \in p .. n : items[k].how # "stop"
                THEN <<Ref(items[n])>> ELSE <<>>
  IN  FlattenSeq([k \in 1 .. Len(items) - p + 1 |-> Met(p + k - 1)])

Contents(f) == IF KindOf(f) \in {"playlist", "directory"}
  THEN RefsFrom(f, 1)
  ELSE [n \in DOMAIN docs[f].items |-> Ref(docs[f].items[n])]

\* The items of a loop's playlist from item p on, as pending work.
Pending(frame, p, depth) ==
  LET refs == RefsFrom(frame.file, p)
  IN  [k \in DOMAIN refs |-> [file |-> refs[k].to, depth |-> depth,
                              nested |-> refs[k].nested,
                              forced |-> frame.kind # "directory"]]

\* What is left of the loops of frames when none of the items they are at is.
Behind(frames) ==
  LET Rest(i) == Pending(frames[i], frames[i].pos + 1, i)
  IN  FlattenSeq([m \in 1 .. Len(frames) |-> Rest(Len(frames) + 1 - m)])

\* What is left of them with the item the innermost loop is at; the location
\* that is parsed if there is no loop.
Left(frames) ==
  IF frames = <<>>
  THEN <<[file |-> Root, depth |-> 0, nested |-> TRUE, forced |-> FALSE]>>
  ELSE Pending(Last(frames), Last(frames).pos, Len(frames)) \o Behind(Front(frames))

\* An item that became a loop of its own, or that parse_internal took care of,
\* is not pending any more.
Work == IF pc = "done" \/ (pc = "return" /\ ret = "SUCCESS")
        THEN Behind(stack) ELSE Left(stack)

UrisOf(sigs) ==
  FlattenSeq([n \in DOMAIN sigs |->
                IF sigs[n].sig = "entry" THEN <<sigs[n].uri>> ELSE <<>>])

Flat == INSTANCE PlFlatten WITH
  DepthMax  <- RecurseLevelMax,
  kind      <- [f \in File |-> KindOf(f)],
  contents  <- [f \in File |-> Contents(f)],
  work      <- Work,
  out       <- UrisOf(events)

\* The parse reports the flattened playlist: every item once, in document
\* order, to the depth the dispatcher recurses, and it gets to the end.
Flattens == Flat!Spec

-----------------------------------------------------------------------------
\* What the mapping rests on: a level that is never leaked and has no say in
\* what a document is taken for, a location somebody wants to be parsed, and a
\* result of add_pla that can be believed (it reports entries and fails).
PlainDocs(lib, force) ==
  \A f \in File : /\ force \/ lib[f].name # "mpeg"
                  /\ lib[f].form = "pla" => lib[f].items = <<>>

Plain == /\ opts.recurse /\ ~opts.disable_unsafe
         /\ docs[Root].scheme \notin IgnoredSchemes
         /\ PlainDocs(docs, opts.force)

=============================================================================
