------------------------------ MODULE PlFlatten ------------------------------
(***************************************************************************)
(* What a parse promises its listener, without the call stack, the options *)
(* or the handlers: the items of the playlist are reported in document     *)
(* order, a playlist met on the way is replaced by its own items as long   *)
(* as it is not nested too deep, and no item is lost or reported twice.    *)
(***************************************************************************)
EXTENDS Naturals, Sequences

CONSTANTS
  File,      \* the locations
  Root,      \* the location that is parsed
  DepthMax   \* how deep a playlist may be nested and still be looked into

VARIABLES
  kind,      \* what is behind every location
  contents,  \* the items of every location
  work,      \* the items still to be dealt with, in order
  out        \* the locations reported so far, in order

library == <<kind, contents>>
vars == <<library, work, out>>

\* A playlist or a directory whose items may be playlists, a playlist of plain
\* entries, a document that is read and holds nothing, and anything else.
Kind == {"playlist", "directory", "leaf", "empty", "other"}

\* The items of f as pending work one level below depth.  A directory may leave
\* out what it holds; a playlist may not.
ItemsOf(f, depth) ==
  [i \in DOMAIN contents[f] |->
     [file |-> contents[f][i].to, depth |-> depth + 1,
      nested |-> contents[f][i].nested, forced |-> kind[f] # "directory"]]

Targets(f) == [i \in DOMAIN contents[f] |-> contents[f][i].to]

Init ==
  /\ kind \in [File -> Kind]
  /\ DOMAIN contents = File
  /\ work = <<[file |-> Root, depth |-> 0, nested |-> TRUE, forced |-> FALSE]>>
  /\ out = <<>>

\* The item w is looked into and turns out to be of one of the kinds.
Opened(w, kinds) == w.nested /\ w.depth <= DepthMax /\ kind[w.file] \in kinds

\* The items of a playlist take its place.
Expand(w) == /\ Opened(w, {"playlist", "directory"})
             /\ work' = ItemsOf(w.file, w.depth) \o Tail(work)
             /\ UNCHANGED <<library, out>>

\* Plain entries are reported.
Include(w) == /\ Opened(w, {"leaf"})
              /\ out' = out \o Targets(w.file)
              /\ work' = Tail(work)
              /\ UNCHANGED library

\* The item is not a playlist, or is nested too deep: it is reported.
Report(w) == /\ ~Opened(w, Kind \ {"other"})
             /\ out' = Append(out, w.file)
             /\ work' = Tail(work)
             /\ UNCHANGED library

\* Nothing is reported for an empty document, for what a directory holds and
\* the parser cannot use, or for the top-level location if it is no playlist.
Drop(w) == /\ \/ Opened(w, {"empty"})
              \/ Opened(w, {"other"}) /\ ~w.forced
              \/ w.depth > DepthMax /\ ~w.forced
           /\ work' = Tail(work)
           /\ UNCHANGED <<library, out>>

\* The first item that is left is dealt with.
Next == /\ work # <<>>
        /\ LET w == Head(work)
           IN  Expand(w) \/ Include(w) \/ Report(w) \/ Drop(w)

Spec == Init /\ [][Next]_vars /\ WF_vars(Next)

=============================================================================
