------------------------------ MODULE CdCache ------------------------------
(***************************************************************************)
(* Discs: what src/plparse/idol-disc.c does to tell what is at a location. *)
(* A call builds a CdCache, may have something mounted for it, asks for    *)
(* content types, gives the cache up again and returns a type.  It waits   *)
(* for a mount or an unmount by iterating the default main context, so     *)
(* while it waits it runs whatever else is ready there: the completion of  *)
(* another call, or a callback of the program that makes a call itself.    *)
(*                                                                         *)
(* Calls are made in the thread of the main loop, where they nest, and in  *)
(* threads of their own: add_iso, add_block and add_directory make them    *)
(* while an asynchronous parse runs.                                       *)
(***************************************************************************)
EXTENDS Naturals, Sequences, FiniteSets

CONSTANTS N,          \* calls made in the thread that runs the main loop
          Workers,    \* calls made in other threads, one call in each
          Places,     \* the locations given to the calls
          Discs,      \* what may be at a location: records of Disc
          Uses        \* the functions each call may be made through

Types == {"vcd", "svcd", "dvd", "cdda"}

(* A location: "remote" has no local path, "dangling" is a symbolic link   *)
(* that cannot be read, "file" is a regular file, taken for an image.      *)
(* types: the content types GIO tells of what is mounted (or of the        *)
(* directory itself); above: those of the directory it is in; path: what   *)
(* is mounted has a local path; volume, drive, medium: for a device, that  *)
(* a volume has this device, that the volume is in a drive, with a medium. *)
Disc == [kind : {"remote", "dangling", "directory", "file", "device"},
         types : SUBSET Types, above : SUBSET Types, path : BOOLEAN,
         volume : BOOLEAN, drive : BOOLEAN, medium : BOOLEAN]

(* The calls of the main thread, in the order in which they are made. *)
MainCalls == 1..N

ASSUME CallsAssumption == N \in Nat /\ Workers \cap Nat = {}
ASSUME PlacesAssumption == Places # {}
ASSUME DiscsAssumption == Discs \subseteq Disc

Calls == MainCalls \cup Workers

(* The functions a program calls: idol_cd_detect_type_with_url with a      *)
(* place for the MRL and without (idol_cd_detect_type), _from_dir with a   *)
(* path and with a URI, and idol_cd_has_medium.                            *)
Ops == {"with_url", "type", "dir_path", "dir_uri", "has_medium"}

ASSUME UsesAssumption == Uses \in [Calls -> SUBSET Ops]

VARIABLES
  disc,      \* what is at each place
  loop,      \* the main thread is inside g_main_loop_run
  mounted,   \* the places that are mounted
  call,      \* each call: where it is, its CdCache and what it returns
  stack,     \* the calls in progress in the main thread, the innermost last
  requests,  \* mounts and unmounts asked for and not carried out
  sources,   \* their completions, waiting in the default main context
  before,    \* history: the places mounted at the start
  kept,      \* history: the places whose unmount failed
  lost       \* history: the calls whose place was unmounted under them

vars == <<disc, loop, mounted, call, stack, requests, sources, before, kept, lost>>
fixed == <<disc, loop, before>>

NoCache == [types |-> {}, mountpoint |-> FALSE, mounted |-> FALSE,
            self_mounted |-> FALSE, is_iso |-> FALSE, is_media |-> FALSE]

NotStarted == [pc |-> "idle", op |-> "type", place |-> CHOOSE p \in Places : TRUE,
               cache |-> NoCache, called |-> FALSE, result |-> FALSE, goal |-> "none",
               type |-> "none", errors |-> 0]

Waits == {"test", "block", "poll"}

(* A cache is NULL until cd_cache_new is through with it. *)
At(c) == disc[call[c].place]
IsMounted(c) == call[c].place \in mounted
Running(c) == call[c].pc \notin {"idle", "done"}
Waiting(c) == call[c].pc \in Waits

(***************************************************************************)
(* The main thread: the innermost call runs, the ones around it are inside *)
(* the iteration that started it.                                          *)
(***************************************************************************)
MayRun(c) == c \in MainCalls => stack # <<>> /\ stack[Len(stack)] = c

(* When a call returns, so does the iteration that started it. *)
Outer == stack[Len(stack) - 1]
Return(c, f) ==
  IF c \in MainCalls
    THEN /\ stack' = SubSeq(stack, 1, Len(stack) - 1)
         /\ call' = IF Len(stack) > 1
                      THEN [call EXCEPT ![c] = f, ![Outer].pc = "test"]
                      ELSE [call EXCEPT ![c] = f]
    ELSE /\ call' = [call EXCEPT ![c] = f]
         /\ UNCHANGED stack

Goto(c, f) == call' = [call EXCEPT ![c] = f] /\ UNCHANGED stack

Done(r, type) == [NotStarted EXCEPT !.pc = "done", !.op = r.op, !.place = r.place,
                                    !.errors = r.errors, !.type = type]
Fail(r) == [r EXCEPT !.errors = @ + 1]

(***************************************************************************)
(* Waiting: data.called = FALSE, the request, and then                     *)
(*     while (!data.called) g_main_context_iteration (NULL, TRUE);         *)
(* One thread at a time owns the default context; g_main_loop_run owns it  *)
(* until it returns.  An iteration by another thread waits to own it.      *)
(***************************************************************************)
AskFor(c, goal, r) ==
  /\ Goto(c, [r EXCEPT !.pc = "test", !.called = FALSE, !.goal = goal])
  /\ requests' = requests \cup {c}

Polls(c) == call[c].pc = "poll"
CanOwn(c) ==
  IF c \in MainCalls THEN \A w \in Workers : ~Polls(w)
                     ELSE ~loop /\ \A d \in Calls \ {c} : ~Polls(d)

Iterate(c) ==
  /\ MayRun(c) /\ call[c].pc = "test" /\ ~call[c].called
  /\ Goto(c, [call[c] EXCEPT !.pc = IF CanOwn(c) THEN "poll" ELSE "block"])
  /\ UNCHANGED <<fixed, mounted, requests, sources, kept, lost>>

(* The owner of the context has released it: the thread owns it now and    *)
(* polls, without a look at data.called.                                   *)
Own(c) ==
  /\ MayRun(c) /\ call[c].pc = "block" /\ CanOwn(c)
  /\ Goto(c, [call[c] EXCEPT !.pc = "poll"])
  /\ UNCHANGED <<fixed, mounted, requests, sources, kept, lost>>

(* g_cond_wait may return without a cause, and then so does the iteration. *)
WakeUp(c) ==
  /\ MayRun(c) /\ call[c].pc = "block" /\ ~CanOwn(c)
  /\ Goto(c, [call[c] EXCEPT !.pc = "test"])
  /\ UNCHANGED <<fixed, mounted, requests, sources, kept, lost>>

(* Mutant: called is only set when the mount has succeeded.                *)
RunCallbacksOk(r) ==
  [d \in Calls |-> IF [call |-> d, ok |-> TRUE] \in sources
                     THEN [r[d] EXCEPT !.called = TRUE, !.result = TRUE]
                     ELSE r[d]]

(* cd_cache_mount_callback and its two likes, of every call that is ready: *)
(* they store the result and set called, on the stack of that call.        *)
RunCallbacks(r) ==
  [d \in Calls |-> IF \E s \in sources : s.call = d
                     THEN [r[d] EXCEPT !.called = TRUE,
                                       !.result = [call |-> d, ok |-> TRUE] \in sources]
                     ELSE r[d]]

Dispatch(c) ==
  /\ MayRun(c) /\ Polls(c) /\ sources # {}
  /\ call' = RunCallbacks([call EXCEPT ![c].pc = "test"])
  /\ sources' = {}
  /\ UNCHANGED <<fixed, mounted, stack, requests, kept, lost>>

LoopDispatches ==
  /\ loop /\ stack = <<>> /\ sources # {}
  /\ call' = RunCallbacks(call)
  /\ sources' = {}
  /\ UNCHANGED <<fixed, mounted, stack, requests, kept, lost>>

(***************************************************************************)
(* The mount daemon carries a request out.  What is mounted already cannot *)
(* be mounted again; any request may fail.                                 *)
(***************************************************************************)
Complete(c, ok) ==
  /\ c \in requests
  /\ requests' = requests \ {c}
  /\ sources' = sources \cup {[call |-> c, ok |-> ok]}
  /\ UNCHANGED <<fixed, call, stack>>

CompleteMount(c) ==
  /\ c \in requests /\ call[c].goal \in {"mount_iso", "mount_volume"}
  /\ \E ok \in BOOLEAN :
       /\ ok => ~IsMounted(c)
       /\ Complete(c, ok)
       /\ mounted' = IF ok THEN mounted \cup {call[c].place} ELSE mounted
  /\ UNCHANGED <<kept, lost>>

CompleteUnmount(c) ==
  /\ c \in requests /\ call[c].goal = "unmount"
  /\ \E ok \in BOOLEAN :
       /\ ok => IsMounted(c)
       /\ Complete(c, ok)
       /\ mounted' = IF ok THEN mounted \ {call[c].place} ELSE mounted
       /\ kept' = IF ok THEN kept ELSE kept \cup {call[c].place}
       /\ lost' = IF ok THEN lost \cup {d \in Calls \ {c} :
                                          Running(d) /\ call[d].place = call[c].place}
                        ELSE lost

(***************************************************************************)
(* A call is made.  The main thread makes one from the program's code, or  *)
(* from a callback its innermost call dispatches while it waits.           *)
(***************************************************************************)
Start(c) ==
  /\ call[c].pc = "idle"
  /\ c \in MainCalls =>
       /\ \A d \in MainCalls : d < c => call[d].pc # "idle"
       /\ stack # <<>> => Polls(stack[Len(stack)])
  /\ \E p \in Places, op \in Uses[c] :
       /\ op \in {"dir_path", "dir_uri"} => disc[p].kind \in {"directory", "remote"}
       /\ call' = [call EXCEPT ![c] = [NotStarted EXCEPT !.pc = "new", !.op = op, !.place = p]]
  /\ stack' = IF c \in MainCalls THEN Append(stack, c) ELSE stack
  /\ UNCHANGED <<fixed, mounted, requests, sources, kept, lost>>

(***************************************************************************)
(* cd_cache_new, one action for each of its returns.                       *)
(***************************************************************************)
New(c) == MayRun(c) /\ call[c].pc = "new"

(* "No error, just no cache". *)
NewRemote(c) ==
  /\ New(c) /\ At(c).kind = "remote"
  /\ Return(c, Done(call[c], IF call[c].op = "has_medium" THEN "medium" ELSE "error"))
  /\ UNCHANGED <<fixed, mounted, requests, sources, kept, lost>>

NewDirectory(c) ==
  /\ New(c) /\ At(c).kind = "directory"
  /\ Goto(c, [call[c] EXCEPT !.pc = "detect",
                             !.cache = [NoCache EXCEPT !.types = At(c).types,
                                                       !.mountpoint = TRUE]])
  /\ UNCHANGED <<fixed, mounted, requests, sources, kept, lost>>

(* The archive backend of GIO: not mounted, mounted, or another failure.   *)
NewImage(c) ==
  /\ New(c) /\ At(c).kind = "file"
  /\ LET iso == [call[c] EXCEPT !.cache = [NoCache EXCEPT !.is_iso = TRUE]]
     IN IF IsMounted(c)
          THEN Goto(c, [iso EXCEPT !.pc = "guess"]) /\ UNCHANGED requests
          ELSE AskFor(c, "mount_iso", iso)
  /\ UNCHANGED <<fixed, mounted, sources, kept, lost>>

NewImageUnknown(c) ==
  /\ New(c) /\ At(c).kind = "file"
  /\ Return(c, Done(call[c], IF call[c].op = "has_medium" THEN "medium" ELSE "error"))
  /\ UNCHANGED <<fixed, mounted, requests, sources, kept, lost>>

(* A device: a volume of its drive that is mounted is taken with its mount *)
(* point, and else any volume that has this device.                        *)
VolumeFound(c) == At(c).volume
MountpointFound(c) == At(c).drive /\ IsMounted(c) /\ At(c).path

NewDevice(c) ==
  /\ New(c) /\ At(c).kind = "device" /\ VolumeFound(c)
  /\ Goto(c, [call[c] EXCEPT
                !.pc = "detect",
                !.cache = [NoCache EXCEPT !.is_media = TRUE, !.mountpoint = MountpointFound(c),
                                          !.types = IF IsMounted(c) THEN At(c).types ELSE {}]])
  /\ UNCHANGED <<fixed, mounted, requests, sources, kept, lost>>

(* The symbolic link leads nowhere, or nothing has this device.            *)
LinkResolved(c) == At(c).kind # "dangling"

NewNoDisc(c) ==
  /\ New(c)
  /\ ~LinkResolved(c) \/ (At(c).kind = "device" /\ ~VolumeFound(c))
  /\ Return(c, Done(Fail(call[c]), IF call[c].op = "has_medium" THEN "medium" ELSE "error"))
  /\ UNCHANGED <<fixed, mounted, requests, sources, kept, lost>>

(* Mutant: one iteration is taken to be enough.                            *)
MountedIsoOnce(c) ==
  /\ MayRun(c) /\ call[c].pc = "test" /\ call[c].goal = "mount_iso"
  /\ IF call[c].result
       THEN Goto(c, [call[c] EXCEPT !.pc = "guess", !.cache.self_mounted = TRUE])
       ELSE Return(c, Done(Fail(call[c]), IF call[c].op = "has_medium" THEN "medium" ELSE "error"))
  /\ UNCHANGED <<fixed, mounted, requests, sources, kept, lost>>

(* The wait for the mount of an image is over. *)
MountedIso(c) ==
  /\ MayRun(c) /\ call[c].pc = "test" /\ call[c].called /\ call[c].goal = "mount_iso"
  /\ IF call[c].result
       THEN Goto(c, [call[c] EXCEPT !.pc = "guess", !.cache.self_mounted = TRUE])
       ELSE Return(c, Done(Fail(call[c]), IF call[c].op = "has_medium" THEN "medium" ELSE "error"))
  /\ UNCHANGED <<fixed, mounted, requests, sources, kept, lost>>

(* g_content_type_guess_for_tree and g_file_get_path of what is mounted,   *)
(* if it still is.                                                         *)
GuessTree(c) ==
  /\ MayRun(c) /\ call[c].pc = "guess"
  /\ Goto(c, [call[c] EXCEPT !.pc = "detect", !.cache.mounted = TRUE,
                             !.cache.types = IF IsMounted(c) THEN At(c).types ELSE {},
                             !.cache.mountpoint = IsMounted(c) /\ At(c).path])
  /\ UNCHANGED <<fixed, mounted, requests, sources, kept, lost>>

(***************************************************************************)
(* cd_cache_disc_is_cdda, _is_vcd and _is_dvd, in the order the detecting  *)
(* functions call them.                                                    *)
(***************************************************************************)
HasMedium(c) == At(c).drive /\ At(c).medium
OpenDeviceFails(c) == call[c].cache.is_media /\ ~HasMedium(c)

DiscType(types) ==
  IF types \cap {"vcd", "svcd"} # {} THEN "vcd"
  ELSE IF "dvd" \in types THEN "dvd" ELSE "data"

Detect(c) == MayRun(c) /\ call[c].pc = "detect"

FindMedium(c) ==
  /\ Detect(c) /\ call[c].op = "has_medium"
  /\ Goto(c, [call[c] EXCEPT !.pc = "free",
                !.type = IF call[c].cache.is_media /\ HasMedium(c) THEN "medium" ELSE "no_medium"])
  /\ UNCHANGED <<fixed, mounted, requests, sources, kept, lost>>

(* The error cd_cache_open_device sets ends both functions. *)
OpenDevice(c) ==
  /\ Detect(c) /\ call[c].op # "has_medium" /\ OpenDeviceFails(c)
  /\ Goto(c, [Fail(call[c]) EXCEPT !.pc = "free", !.type = "error"])
  /\ UNCHANGED <<fixed, mounted, requests, sources, kept, lost>>

Opened(c) == Detect(c) /\ call[c].op # "has_medium" /\ ~OpenDeviceFails(c)
Cdda(c) == call[c].cache.is_media /\ "cdda" \in call[c].cache.types

DetectCdda(c) ==
  /\ Opened(c) /\ Cdda(c)
  /\ Goto(c, [call[c] EXCEPT !.pc = "free", !.type = "cdda"])
  /\ UNCHANGED <<fixed, mounted, requests, sources, kept, lost>>

(* cd_cache_open_mountpoint mounts the volume when it has no mount.        *)
NeedsMount(c) == call[c].cache.is_media /\ ~call[c].cache.mounted /\ ~IsMounted(c)

OpenMountpoint(c) ==
  /\ Opened(c) /\ ~Cdda(c) /\ NeedsMount(c)
  /\ AskFor(c, "mount_volume", [call[c] EXCEPT !.cache.self_mounted = TRUE])
  /\ UNCHANGED <<fixed, mounted, sources, kept, lost>>

MountedVolume(c) ==
  /\ MayRun(c) /\ call[c].pc = "test" /\ call[c].called /\ call[c].goal = "mount_volume"
  /\ Goto(c, IF call[c].result
               THEN [call[c] EXCEPT !.pc = "detect", !.cache.mounted = TRUE]
               ELSE [Fail(call[c]) EXCEPT !.pc = "free", !.type = "error"])
  /\ UNCHANGED <<fixed, mounted, requests, sources, kept, lost>>

(* A mount point is known, or found now; without a path there is none.     *)
(* _with_url has no use for a data image when an MRL is asked for: "No     *)
(* error, it's just not usable".                                           *)
TypeFound(c) ==
  LET r == call[c].cache
      pathless == IF r.is_media THEN ~(r.mountpoint \/ At(c).path) ELSE ~r.mountpoint
      type == IF pathless THEN "error" ELSE DiscType(r.types)
  IN IF type = "data" /\ r.is_iso /\ call[c].op = "with_url" THEN "error" ELSE type

ByDirectory(c) == call[c].op \in {"dir_path", "dir_uri"}

DetectType(c) ==
  /\ Opened(c) /\ ~Cdda(c) /\ ~NeedsMount(c)
  /\ IF ByDirectory(c) /\ TypeFound(c) = "data"
       THEN Goto(c, [call[c] EXCEPT !.pc = "parent", !.cache = NoCache])
       ELSE Goto(c, [call[c] EXCEPT !.pc = "free", !.type = TypeFound(c)])
  /\ UNCHANGED <<fixed, mounted, requests, sources, kept, lost>>

(* Mutant: the directory itself is looked at again instead of its parent.  *)
DetectItself(c) ==
  /\ MayRun(c) /\ call[c].pc = "parent"
  /\ IF call[c].op = "dir_uri"
       THEN Return(c, Done(Fail(call[c]), "error"))
       ELSE Goto(c, [call[c] EXCEPT !.pc = "free", !.type = DiscType(At(c).types)])
  /\ UNCHANGED <<fixed, mounted, requests, sources, kept, lost>>

(* "is it the directory itself?": the parent is taken of a path, and a URI *)
(* is none: what comes out is no device anybody knows.                     *)
DetectParent(c) ==
  /\ MayRun(c) /\ call[c].pc = "parent"
  /\ IF call[c].op = "dir_uri"
       THEN Return(c, Done(Fail(call[c]), "error"))
       ELSE Goto(c, [call[c] EXCEPT !.pc = "free", !.type = DiscType(At(c).above)])
  /\ UNCHANGED <<fixed, mounted, requests, sources, kept, lost>>

(* Mutant: an image is unmounted whoever mounted it.                       *)
CdCacheFreeAny(c) ==
  /\ MayRun(c) /\ call[c].pc = "free"
  /\ IF call[c].cache.is_iso /\ IsMounted(c)
       THEN AskFor(c, "unmount", call[c])
       ELSE Return(c, Done(call[c], call[c].type)) /\ UNCHANGED requests
  /\ UNCHANGED <<fixed, mounted, sources, kept, lost>>

(* cd_cache_free: an image this call mounted is unmounted, a volume is not *)
CdCacheFree(c) ==
  /\ MayRun(c) /\ call[c].pc = "free"
  /\ IF call[c].cache.is_iso /\ call[c].cache.self_mounted /\ IsMounted(c)
       THEN AskFor(c, "unmount", call[c])
       ELSE Return(c, Done(call[c], call[c].type)) /\ UNCHANGED requests
  /\ UNCHANGED <<fixed, mounted, sources, kept, lost>>

Unmounted(c) ==
  /\ MayRun(c) /\ call[c].pc = "test" /\ call[c].called /\ call[c].goal = "unmount"
  /\ Return(c, Done(call[c], call[c].type))
  /\ UNCHANGED <<fixed, mounted, requests, sources, kept, lost>>

-----------------------------------------------------------------------------

Init ==
  /\ disc \in [Places -> Discs]
  /\ loop \in BOOLEAN
  /\ mounted \in SUBSET {p \in Places : disc[p].kind = "file" \/ disc[p].volume}
  /\ call = [c \in Calls |-> NotStarted]
  /\ stack = <<>> /\ requests = {} /\ sources = {}
  /\ before = mounted /\ kept = {} /\ lost = {}

Step(c) ==
  \/ NewRemote(c) \/ NewDirectory(c) \/ NewImage(c) \/ NewImageUnknown(c)
  \/ NewDevice(c) \/ NewNoDisc(c) \/ MountedIso(c) \/ GuessTree(c)
  \/ FindMedium(c) \/ OpenDevice(c) \/ DetectCdda(c) \/ OpenMountpoint(c)
  \/ MountedVolume(c) \/ DetectType(c) \/ DetectParent(c)
  \/ CdCacheFree(c) \/ Unmounted(c) \/ Iterate(c) \/ Own(c) \/ Dispatch(c)

MainThread == LoopDispatches \/ \E c \in MainCalls : Step(c)

Daemon == \E c \in Calls : CompleteMount(c) \/ CompleteUnmount(c)

Next ==
  \/ \E c \in Calls : Start(c) \/ WakeUp(c)
  \/ \E w \in Workers : Step(w)
  \/ MainThread
  \/ Daemon

(* The threads go on and the daemon answers.  Nobody has to make a call,   *)
(* and a wait is not assumed to end without a cause.                       *)
Fairness ==
  WF_vars(MainThread) /\ WF_vars(Daemon) /\ \A w \in Workers : WF_vars(Step(w))

Spec == Init /\ [][Next]_vars /\ Fairness

-----------------------------------------------------------------------------

Call == [pc : {"idle", "new", "guess", "detect", "parent", "free", "done"} \cup Waits,
         op : Ops, place : Places,
         cache : [types : SUBSET Types, mountpoint : BOOLEAN, mounted : BOOLEAN,
                  self_mounted : BOOLEAN, is_iso : BOOLEAN, is_media : BOOLEAN],
         called : BOOLEAN, result : BOOLEAN,
         goal : {"none", "mount_iso", "mount_volume", "unmount"},
         type : {"none", "error", "data", "vcd", "dvd", "cdda", "medium", "no_medium"},
         errors : Nat]

(* The shape of the state: the CdCache of each call, the nesting of the    *)
(* calls of the main thread, and what is under way for them.               *)
TypeOK ==
  /\ disc \in [Places -> Disc] /\ loop \in BOOLEAN
  /\ mounted \subseteq Places /\ before \subseteq Places /\ kept \subseteq Places
  /\ call \in [Calls -> Call]
  /\ stack \in Seq(MainCalls)
  /\ requests \subseteq Calls
  /\ sources \subseteq [call : Calls, ok : BOOLEAN]
  /\ lost \subseteq Calls

(* A mount callback writes into CdCacheCallbackData on the stack of the    *)
(* call that asked (idol-disc.c:340, 484, 547): as long as the mount is    *)
(* under way or its callback not run, that call is in the loop that waits  *)
(* for it, whatever ran in between, and asked for one thing only.          *)
CallbackHasItsFrame ==
  /\ \A c \in requests : Waiting(c) /\ ~call[c].called
  /\ \A s \in sources : Waiting(s.call) /\ ~call[s.call].called /\ s.call \notin requests
  /\ \A s, t \in sources : s.call = t.call => s = t

(* cd_cache_free gives an image back as cd_cache_new found it: once no     *)
(* call on it is in progress it is mounted only if it was at the start or  *)
(* an unmount failed, and no image somebody else mounted is ever gone.     *)
ImagesGivenBack ==
  \A p \in Places :
    disc[p].kind = "file" =>
      /\ p \in before => p \in mounted
      /\ (\A c \in Calls : Running(c) => call[c].place # p)
           => (p \in mounted => p \in before \cup kept)

Reference(d, op) ==
  IF op \in {"dir_path", "dir_uri"} /\ DiscType(d.types) = "data" THEN DiscType(d.above)
  ELSE IF d.kind = "device" /\ "cdda" \in d.types THEN "cdda"
  ELSE IF DiscType(d.types) = "data" /\ d.kind = "file" /\ op = "with_url" THEN "error"
  ELSE DiscType(d.types)

(* A type that is returned without a failure is the type of what is there, *)
(* except for a call whose image another call unmounted under it, for a    *)
(* volume that was not mounted when cd_cache_new asked for its content     *)
(* types (they are not asked for again), and for the parent of a           *)
(* directory given by URI, which is not looked at.  No GError is set over  *)
(* another, what has a type has no error, and an error type has none only  *)
(* for what "is just not usable" or has no path.                           *)
DetectsWhatIsThere ==
  \A c \in Calls :
    LET r == call[c]
        excused == c \in lost \/ (disc[r.place].kind = "device" /\ r.place \notin before)
    IN  /\ r.errors <= 1
        /\ (r.pc = "done" /\ r.type \in {"data", "vcd", "dvd", "cdda"}) =>
             /\ r.errors = 0
             /\ ~excused => r.type = Reference(disc[r.place], r.op)
        /\ (r.pc = "done" /\ r.errors = 0 /\ r.type = "error") =>
             disc[r.place].kind \in {"remote", "file"} \/ ~disc[r.place].path

(* A call returns, whatever runs while it waits: in the main thread when   *)
(* the main loop runs or no other thread has made a call, in a thread of   *)
(* its own when the loop does not run and nobody else has made one.  In    *)
(* the other cases the owner of the context may dispatch the callback of a *)
(* call that waits to own it, and that wait is over only when the context  *)
(* is released, which g_main_loop_run never does.                          *)
Contended(c) ==
  IF c \in MainCalls THEN ~loop /\ \E w \in Workers : call[w].pc # "idle"
                     ELSE loop \/ \E d \in Calls \ {c} : call[d].pc # "idle"

CallsReturn == \A c \in Calls : Running(c) ~> (call[c].pc = "done" \/ Contended(c))
=============================================================================
