---------------------------- MODULE MC_CdCache ----------------------------
(* Instances of CdCache for TLC: the discs a place may hold. *)
EXTENDS CdCache

Nothing == [kind |-> "remote", types |-> {}, above |-> {}, path |-> TRUE,
            volume |-> FALSE, drive |-> FALSE, medium |-> FALSE]
Image(types, path) == [Nothing EXCEPT !.kind = "file", !.types = types, !.path = path]
Directory(types, above) == [Nothing EXCEPT !.kind = "directory", !.types = types, !.above = above]
Device(types, drive, medium) ==
  [Nothing EXCEPT !.kind = "device", !.types = types, !.volume = TRUE,
                  !.drive = drive, !.medium = medium]

MC_Discs ==
  {Nothing, [Nothing EXCEPT !.kind = "dangling"], [Nothing EXCEPT !.kind = "device"],
   Image({"svcd"}, TRUE), Image({}, TRUE),
   Directory({}, {}), Directory({"vcd"}, {}), Directory({}, {"dvd"}),
   Device({"dvd"}, TRUE, TRUE), Device({"cdda"}, TRUE, TRUE), Device({"vcd"}, TRUE, FALSE),
   [Device({"dvd"}, TRUE, TRUE) EXCEPT !.path = FALSE]}

(* The handlers of the parser, in a worker, call _with_url for an image or *)
(* a device and _from_dir with a URI; of the calls of the main thread the  *)
(* others look for an MRL and the first is made through any other function.*)
MC_Uses ==
  [c \in MainCalls \cup Workers |->
     IF c \in Workers THEN {"with_url", "dir_uri"}
     ELSE IF c = 1 THEN Ops \ {"with_url"}
     ELSE {"with_url", "dir_path"}]
=============================================================================
