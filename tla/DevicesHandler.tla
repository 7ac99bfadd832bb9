--------------------------- MODULE DevicesHandler ---------------------------
(***************************************************************************)
(* The devices of the desktop service and their configuration files        *)
(* (src/bin/service/devicesHandler.cpp, on FSNotify): two containers of    *)
(* device properties, one file per device in the directory of the vendor,  *)
(* and the notifications about these files, among which the service must   *)
(* tell the changes of other programs from its own saves.                  *)
(*                                                                         *)
(* A configuration is the number of the change that produced it, 0 the     *)
(* default one.  The service runs in one thread: a handler is one step.    *)
(***************************************************************************)
EXTENDS FSNotify, FiniteSetsExt

CONSTANTS
  Devices,      \* devices of one model, whose files have the same base name
  MaxFileName,  \* last suffix that getNextAvailableFileName() tries, 10 in the code
  MaxChanges,   \* bound: changes of configurations
  MaxEvents,    \* bound: unread events when another program acts
  MaxFailures,  \* bound: directories, watches and files that cannot be created
  Absent,       \* no such file
  Garbage       \* what text_iarchive does not parse

ASSUME HandlerAssumption ==
  /\ IsFiniteSet(Devices)
  /\ MaxFileName \in Nat /\ MaxChanges \in Nat /\ MaxEvents \in Nat /\ MaxFailures \in Nat
  /\ Absent \notin Nat /\ Garbage \notin Nat /\ Absent # Garbage

VARIABLES
  started, stopped,  \* keys of _startedDevices and _stoppedDevices
  file,              \* getConfigFilePath(): the suffix of the name, NoFile when it was never set
  wd,                \* getWatchDescriptor()
  conf,              \* the configuration in memory
  ignored,           \* _ignoredFSNotifications
  disk,              \* content of the files
  changes,           \* changes made so far
  failures,          \* failures so far
  mishap             \* a watch could not be set or was lost, or the names were exhausted (for the properties)

memVars  == <<started, stopped, file, wd, conf, ignored>>
diskVars == <<disk, changes, failures, mishap>>
vars     == <<watchVars, memVars, diskVars>>

Names    == 1 .. MaxFileName
Contents == 0 .. MaxChanges

Handled == started \cup stopped

Init ==
  /\ watched = [wd |-> NoWatch, count |-> 0] /\ directory = NoWatch
  /\ live = {} /\ events = <<>>
  /\ started = {} /\ stopped = {} /\ ignored = {}
  /\ file = [d \in Devices |-> NoFile]
  /\ wd = [d \in Devices |-> NoWatch]
  /\ conf = [d \in Devices |-> 0]
  /\ disk \in [Names -> {0, Absent}]
  /\ changes = 0 /\ failures = 0 /\ mishap = FALSE

-----------------------------------------------------------------------------
(* A step of the service may fail as often as the bound allows.            *)
Outcome(ok) ==
  /\ ok \/ failures < MaxFailures
  /\ failures' = IF ok THEN failures ELSE failures + 1

(* What inotify_add_watch() would return: the watch of the path, or a new  *)
(* descriptor, which nobody remembers.                                     *)
NextWatch(w) ==
  IF IsWatched(watched) THEN w = watched.wd
  ELSE /\ w \in WatchDescriptors \ live
       /\ \A d \in Devices : wd[d] # w
       /\ \A e \in Unread : e.wd # w

\* Mutant: the files of the stopped devices are taken for free ones.
StartedUse == {file[d] : d \in started}

AlreadyUsed == {file[d] : d \in Handled}

Available(mustExist) ==
  {n \in Names \ AlreadyUsed : mustExist => disk[n] # Absent}

(* getNextAvailableFileName() *)
NextAvailableFileName(mustExist) == Min(Available(mustExist))

(* initializeConfigurationDirectory(): creates the directory and watches   *)
(* it; when that fails the device keeps the descriptor it has and its file *)
(* is not monitored.                                                       *)
InitializeDirectory(d, check, ok, w) ==
  IF ok
    THEN /\ watched' = AddWatch(watched, check, w)
         /\ wd' = [wd EXCEPT ![d] = watched'.wd]
         /\ directory' = IF IsWatched(watched) THEN directory ELSE w
         /\ live' = IF IsWatched(watched) THEN live ELSE live \cup {w}
    ELSE UNCHANGED <<watched, wd, directory, live>>

(* A program closes the file it wrote in the directory watched by w.       *)
Written(w, n) ==
  IF w = NoWatch THEN events ELSE Queue(events, Event(w, "close_write", n))

(* Mutant: the notification of the save is not noted. *)
SaveUnnoted(d, n, content, ok) ==
  /\ UNCHANGED ignored
  /\ IF ok /\ n # NoFile
       THEN /\ disk' = [disk EXCEPT ![n] = content]
            /\ events' = Written(directory', n)
       ELSE UNCHANGED <<disk, events>>

(* saveDeviceConfigurationFile(devID, device): the notification to ignore  *)
(* is noted first; a device without a file name opens the directory, and   *)
(* fails.  The error is only logged.                                       *)
Save(d, n, content, ok) ==
  /\ ignored' = ignored \cup {d}
  /\ IF ok /\ n # NoFile
       THEN /\ disk' = [disk EXCEPT ![n] = content]
            /\ events' = Written(directory', n)
       ELSE UNCHANGED <<disk, events>>

(* load() keeps the configuration in memory when the file is missing or    *)
(* does not parse.                                                         *)
Loaded(n, content) ==
  IF disk[n] \in Contents THEN disk[n] ELSE content

(* setDeviceProperties(): loads the first file of the device's model that  *)
(* exists and no other device uses, else saves the default configuration   *)
(* in the first name that no device uses.                                  *)
SetDeviceProperties(d, ok, saved, w) ==
  /\ Outcome(ok /\ saved)
  /\ UNCHANGED changes
  /\ \/ /\ Available(TRUE) # {}
        /\ file' = [file EXCEPT ![d] = NextAvailableFileName(TRUE)]
        /\ InitializeDirectory(d, FALSE, ok, w)
        /\ conf' = [conf EXCEPT ![d] = Loaded(file'[d], 0)]
        /\ mishap' = (mishap \/ ~ ok)
        /\ UNCHANGED <<ignored, disk, events>>
     \/ /\ Available(TRUE) = {} /\ Available(FALSE) # {}
        /\ file' = [file EXCEPT ![d] = NextAvailableFileName(FALSE)]
        /\ InitializeDirectory(d, FALSE, ok, w)
        /\ conf' = [conf EXCEPT ![d] = 0]
        /\ Save(d, file'[d], 0, saved)
        /\ mishap' = (mishap \/ ~ ok)
     \/ /\ Available(FALSE) = {}   \* "counter reached max"
        /\ file' = [file EXCEPT ![d] = NoFile]
        /\ conf' = [conf EXCEPT ![d] = 0]
        /\ mishap' = TRUE
        /\ UNCHANGED <<watched, wd, directory, live, ignored, disk, events>>

-----------------------------------------------------------------------------
(* startDevice() *)
StartDevice(d) ==
  /\ d \notin started
  /\ started' = started \cup {d} /\ stopped' = stopped \ {d}
  /\ \/ d \in stopped /\ UNCHANGED <<watchVars, file, wd, conf, ignored, diskVars>>
     \/ d \notin stopped /\ \E ok, saved \in BOOLEAN, w \in WatchDescriptors :
          NextWatch(w) /\ SetDeviceProperties(d, ok, saved, w)

(* stopDevice(), which initializes a device the service did not know.      *)
StopDevice(d) ==
  /\ d \notin stopped
  /\ stopped' = stopped \cup {d} /\ started' = started \ {d}
  /\ \/ d \in started /\ UNCHANGED <<watchVars, file, wd, conf, ignored, diskVars>>
     \/ d \notin started /\ \E ok, saved \in BOOLEAN, w \in WatchDescriptors :
          NextWatch(w) /\ SetDeviceProperties(d, ok, saved, w)

Forget(devices) ==
  /\ started' = started \ devices /\ stopped' = stopped \ devices
  /\ file' = [d \in Devices |-> IF d \in devices THEN NoFile ELSE file[d]]
  /\ wd' = [d \in Devices |-> IF d \in devices THEN NoWatch ELSE wd[d]]
  /\ conf' = [d \in Devices |-> IF d \in devices THEN 0 ELSE conf[d]]
  /\ UNCHANGED ignored

AfterRemoval ==
  /\ directory' = IF Unwatched(watched, watched') /\ directory = watched.wd THEN NoWatch ELSE directory
  /\ live' = IF Unwatched(watched, watched') THEN live \ {watched.wd} ELSE live
  /\ events' = IF Unwatched(watched, watched') THEN QueueRemoval(events, watched.wd) ELSE events

(* unplugDevice() stops the device if need be and unrefs it.  (For a       *)
(* device the service did not know, the daemon answers no properties and   *)
(* nothing happens in this directory.)                                     *)
UnplugDevice(d) ==
  /\ d \in Handled
  /\ watched' = RemoveWatch(watched, wd[d])
  /\ AfterRemoval
  /\ Forget({d})
  /\ UNCHANGED diskVars

(* clearDevices() unplugs all of them.                                     *)
ClearDevices ==
  LET references == Cardinality({d \in Handled : wd[d] = watched.wd})
  IN /\ Handled # {}
     /\ watched' = [watched EXCEPT !.count = IF @ > references THEN @ - references ELSE 0]
     /\ AfterRemoval
     /\ Forget(Handled)
     /\ UNCHANGED diskVars

(* DBusHandler::deviceMacroRecorded() and deviceMacroCleared() change a    *)
(* bank of a started device and save.                                      *)
MacroChanged(d) ==
  /\ d \in started /\ changes < MaxChanges
  /\ changes' = changes + 1
  /\ conf' = [conf EXCEPT ![d] = changes']
  /\ \E ok, saved \in BOOLEAN, w \in WatchDescriptors :
       /\ NextWatch(w)
       /\ Outcome(ok /\ saved)
       /\ InitializeDirectory(d, TRUE, ok, w)
       /\ Save(d, file[d], conf'[d], saved)
       /\ mishap' = (mishap \/ ~ ok)
  /\ UNCHANGED <<started, stopped, file>>

(* checkNotifyEvents() and reloadDeviceConfigurationFile() *)
CheckNotifyEvents ==
  LET toReload == {d \in Handled : file[d] \in FilesRead({file[x] : x \in Handled})}
  IN /\ events # <<>>
     /\ ReadNotifyEvents
     /\ ignored' = ignored \ toReload
     /\ conf' = [d \in Devices |->
                   IF d \in toReload \ ignored THEN Loaded(file[d], conf[d]) ELSE conf[d]]
     /\ mishap' = (mishap \/ WatchIsOver)
     /\ UNCHANGED <<started, stopped, file, wd, disk, changes, failures>>

-----------------------------------------------------------------------------
(* The other programs: an editor that writes a file, well or not, a user   *)
(* who renames or deletes the directory (external).                        *)

DirectoryExists == directory # NoWatch \/ \E n \in Names : disk[n] # Absent

EditFile(n) ==
  /\ disk[n] # Absent /\ changes < MaxChanges /\ Len(events) < MaxEvents
  /\ changes' = changes + 1
  /\ \E content \in {changes', Garbage} : disk' = [disk EXCEPT ![n] = content]
  /\ events' = Written(directory, n)
  /\ UNCHANGED <<watched, directory, live, memVars, failures, mishap>>

DirectoryGone(masks) ==
  /\ DirectoryExists /\ failures < MaxFailures /\ Len(events) < MaxEvents
  /\ failures' = failures + 1
  /\ disk' = [n \in Names |-> Absent]
  /\ directory' = NoWatch
  /\ events' = IF directory = NoWatch THEN events
               ELSE events \o [i \in DOMAIN masks |-> Event(directory, masks[i], NoFile)]
  /\ mishap' = TRUE
  /\ UNCHANGED <<watched, memVars, changes>>

MoveDirectory == DirectoryGone(<<"move_self">>) /\ UNCHANGED live

DeleteDirectory == DirectoryGone(<<"delete_self", "ignored">>) /\ live' = live \ {directory}

-----------------------------------------------------------------------------
Next ==
  \/ \E d \in Devices : StartDevice(d) \/ StopDevice(d) \/ UnplugDevice(d) \/ MacroChanged(d)
  \/ ClearDevices
  \/ CheckNotifyEvents
  \/ \E n \in Names : EditFile(n)
  \/ MoveDirectory
  \/ DeleteDirectory

Spec == Init /\ [][Next]_vars

-----------------------------------------------------------------------------
(* Properties.                                                             *)

EventSet ==
  [wd : WatchDescriptors,
   mask : {"close_write", "move_self", "delete_self", "ignored"},
   file : Names \cup {NoFile}]

TypeOK ==
  /\ watched \in [wd : WatchDescriptors \cup {NoWatch}, count : Nat]
  /\ directory \in WatchDescriptors \cup {NoWatch}
  /\ live \subseteq WatchDescriptors
  /\ events \in Seq(EventSet)
  /\ started \subseteq Devices /\ stopped \subseteq Devices /\ ignored \subseteq Devices
  /\ file \in [Devices -> Names \cup {NoFile}]
  /\ wd \in [Devices -> WatchDescriptors \cup {NoWatch}]
  /\ conf \in [Devices -> Contents]
  /\ disk \in [Names -> Contents \cup {Absent, Garbage}]
  /\ changes \in Contents /\ failures \in 0 .. MaxFailures /\ mishap \in BOOLEAN

(* getNextAvailableFileName() skips the names in use: two devices of a     *)
(* model never share a configuration file, however they come and go.       *)
OneFilePerDevice ==
  \A d, e \in Handled : d # e /\ file[d] = file[e] => file[d] = NoFile

(* The watches, in two parts.                                             *)
(* ~FSNotify() complains that "some watch descriptors were not removed":   *)
(* the references of a watch never outnumber the devices that hold its     *)
(* descriptor, so that the last of them removes it, even after a failure,  *)
(* after the directory was moved or deleted, and after saves that watched  *)
(* it again.                                                               *)
Holders == {d \in Handled : wd[d] = watched.wd}

WatchReferences == IsWatched(watched) => watched.count <= Cardinality(Holders)

(* A device that comes or goes does not take the monitoring away from the  *)
(* others: as long as no watch failed or was lost, every handled device    *)
(* holds the watch of the path, alive and with a reference for each.       *)
MonitoredWhileUsed ==
  ~ mishap /\ Handled # {} =>
    /\ Holders = Handled
    /\ watched.count = Cardinality(Handled)
    /\ directory = watched.wd /\ watched.wd \in live

WatchesFollowUse == WatchReferences /\ MonitoredWhileUsed

(* The notifications of the service's own saves are ignored so that they   *)
(* do not reload a file that is older than the configuration in memory     *)
(* (the one a failed save has left): whatever the order of edits, saves,   *)
(* failures and reads, no handled device goes back to an older change.     *)
ConfigurationIsNotReverted ==
  [][\A d \in Handled \cap Handled' : conf'[d] >= conf[d]]_vars
=============================================================================
