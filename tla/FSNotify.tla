------------------------------ MODULE FSNotify ------------------------------
(***************************************************************************)
(* File monitoring of the desktop service (src/lib/utils/FSNotify.cpp):    *)
(* one inotify instance and the map of watched paths with their reference  *)
(* counts.  The devices share one watched path, the configuration          *)
(* directory of their vendor: every driver of the repository declares the  *)
(* same vendor.                                                            *)
(*                                                                         *)
(* The kernel's side is modelled from how FSNotify.cpp uses it (external): *)
(* which descriptor watches the directory that has the path now, which     *)
(* descriptors are alive, and the queue of unread events, where an event   *)
(* equal to the last unread one is dropped.                                *)
(***************************************************************************)
EXTENDS Naturals, Sequences, FiniteSets

CONSTANTS
  WatchDescriptors,   \* descriptors inotify_add_watch() returns
  NoWatch             \* "-1": no descriptor

ASSUME WatchAssumption ==
  /\ WatchDescriptors # {}
  /\ NoWatch \notin WatchDescriptors

VARIABLES
  watched,    \* the WatchedObject of the path: descriptor and references; 0 references: not in the map
  directory,  \* descriptor that watches the directory found at the path, or NoWatch
  live,       \* descriptors the kernel has not removed
  events      \* unread events, oldest first

watchVars == <<watched, directory, live, events>>

NoFile == 0

(* wd: the watch; mask: what happened; file: the file of the directory it  *)
(* happened to, NoFile when it is the directory itself.                    *)
Event(wd, mask, file) == [wd |-> wd, mask |-> mask, file |-> file]

(* An event equal to the last unread one is not queued again. *)
Queue(unread, event) ==
  IF unread # <<>> /\ unread[Len(unread)] = event
    THEN unread ELSE Append(unread, event)

IsWatched(w) == w.count > 0

(* Mutant: a path that is watched already is never counted again. *)
AddWatchOnce(w, check, wd) == IF IsWatched(w) THEN w ELSE [wd |-> wd, count |-> 1]

(* addNotifyDirectoryWatch(): "check" spares the reference when the path   *)
(* is in the map already.  wd is the descriptor the kernel would return.   *)
AddWatch(w, check, wd) ==
  IF IsWatched(w)
    THEN IF check THEN w ELSE [w EXCEPT !.count = @ + 1]
    ELSE [wd |-> wd, count |-> 1]

(* Mutant: the reference is dropped although the path left the map. *)
RemoveAnyWatch(w, wd) == IF w.wd = wd THEN [w EXCEPT !.count = @ - 1] ELSE w

(* removeNotifyWatch() drops one reference of the path that has this       *)
(* descriptor, and the path with the last one.                             *)
RemoveWatch(w, wd) ==
  IF IsWatched(w) /\ w.wd = wd THEN [w EXCEPT !.count = @ - 1] ELSE w

Unwatched(before, after) == IsWatched(before) /\ ~ IsWatched(after)

(* inotify_rm_watch() queues IN_IGNORED for a descriptor that is alive. *)
QueueRemoval(unread, wd) ==
  IF wd \in live THEN Queue(unread, Event(wd, "ignored", NoFile)) ELSE unread

-----------------------------------------------------------------------------
(* readNotifyEvents() reads all the unread events.                         *)

Unread == {events[i] : i \in 1 .. Len(events)}

(* "map size will be 0 or 1 after that": every event about a file removes  *)
(* the other files from the map, one about a watched object empties it.    *)
FilesRead(files) ==
  {f \in files \ {NoFile} : \A e \in Unread : e.file = f}

(* The watch is dropped when its directory was moved or when the kernel    *)
(* ignores it from now on.                                                 *)
WatchIsOver ==
  /\ IsWatched(watched)
  /\ \E e \in Unread : e.wd = watched.wd /\ e.mask \in {"move_self", "ignored"}

(* The IN_IGNORED that the forced removal causes is read by the same call, *)
(* whose loop ends on EAGAIN.                                              *)
ReadNotifyEvents ==
  /\ events' = <<>>
  /\ watched' = IF WatchIsOver THEN [watched EXCEPT !.count = 0] ELSE watched
  /\ live' = IF WatchIsOver THEN live \ {watched.wd} ELSE live
  /\ directory' = IF WatchIsOver /\ directory = watched.wd THEN NoWatch ELSE directory
=============================================================================
