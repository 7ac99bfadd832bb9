------------------------ MODULE DevicesHandlerProofs ------------------------
(***************************************************************************)
(* Proofs, for any devices, names and failures, that devices of a model    *)
(* never share a configuration file, and that the references of the watch  *)
(* of their directory follow the devices that hold it.                     *)
(***************************************************************************)
EXTENDS DevicesHandler, FiniteSetTheorems, WellFoundedInduction, TLAPS

FileTypes ==
  /\ started \subseteq Devices /\ stopped \subseteq Devices
  /\ file \in [Devices -> Names \cup {NoFile}]

FileInv == FileTypes /\ OneFilePerDevice

LEMMA Least ==
  ASSUME NEW S \in SUBSET Nat, S # {}
  PROVE  \E n \in S : \A m \in S : n <= m
  <1>1. PICK n \in S : \A m \in S : ~(<<m, n>> \in OpToRel(<, Nat))
    BY NatLessThanWellFounded, WFMin
  <1>2. \A m \in S : ~(m < n)
    BY <1>1 DEF OpToRel
  <1> QED
    BY <1>2

(* getNextAvailableFileName() returns a name that no handled device uses.  *)
LEMMA NextNameIsFree ==
  ASSUME NEW mustExist \in BOOLEAN, Available(mustExist) # {}
  PROVE  NextAvailableFileName(mustExist) \in Names \ AlreadyUsed
  <1>1. Available(mustExist) \subseteq Nat /\ Available(mustExist) \subseteq Names \ AlreadyUsed
    BY DEF Available, Names
  <1>2. PICK n \in Available(mustExist) : \A m \in Available(mustExist) : n <= m
    BY <1>1, Least
  <1> QED
    BY <1>1, <1>2 DEF NextAvailableFileName, Min

(* A device whose properties are set gets a name of its own, or none. *)
LEMMA NewFile ==
  ASSUME FileInv, NEW d \in Devices, NEW ok, NEW saved, NEW w, SetDeviceProperties(d, ok, saved, w)
  PROVE  \E n \in (Names \ AlreadyUsed) \cup {NoFile} : file' = [file EXCEPT ![d] = n]
  <1>1. CASE Available(TRUE) # {} /\ file' = [file EXCEPT ![d] = NextAvailableFileName(TRUE)]
    BY <1>1, NextNameIsFree
  <1>2. CASE Available(FALSE) # {} /\ file' = [file EXCEPT ![d] = NextAvailableFileName(FALSE)]
    BY <1>2, NextNameIsFree
  <1>3. CASE file' = [file EXCEPT ![d] = NoFile]
    BY <1>3
  <1> QED
    BY <1>1, <1>2, <1>3 DEF SetDeviceProperties

LEMMA FileInvInit == Init => FileInv
  BY DEF Init, FileInv, FileTypes, OneFilePerDevice, Handled

LEMMA FileInvStep == ASSUME FileInv, [Next]_vars PROVE FileInv'
  <1> USE DEF FileInv, FileTypes, OneFilePerDevice, Handled
  <1>1. ASSUME NEW d \in Devices, Handled' = Handled \cup {d},
               started' \subseteq Devices, stopped' \subseteq Devices,
               \/ d \in Handled /\ file' = file
               \/ \E n \in (Names \ AlreadyUsed) \cup {NoFile} : file' = [file EXCEPT ![d] = n]
        PROVE  FileInv'
    <2>1. CASE file' = file /\ d \in Handled
      BY <1>1, <2>1
    <2>2. ASSUME NEW n \in (Names \ AlreadyUsed) \cup {NoFile}, file' = [file EXCEPT ![d] = n]
          PROVE  FileInv'
      <3>1. file' \in [Devices -> Names \cup {NoFile}]
        BY <2>2
      <3>2. file'[d] = n /\ \A e \in Devices \ {d} : file'[e] = file[e]
        BY <2>2
      <3>3. \A e \in Handled : file[e] \in AlreadyUsed
        BY DEF AlreadyUsed
      <3> QED
        BY <1>1, <2>2, <3>1, <3>2, <3>3
    <2> QED
      BY <1>1, <2>1, <2>2
  <1>2. ASSUME NEW d \in Devices, StartDevice(d) \/ StopDevice(d)
        PROVE  FileInv'
    <2>1. /\ Handled' = Handled \cup {d}
          /\ started' \subseteq Devices /\ stopped' \subseteq Devices
      BY <1>2 DEF StartDevice, StopDevice
    <2>2. \/ d \in Handled /\ file' = file
          \/ \E n \in (Names \ AlreadyUsed) \cup {NoFile} : file' = [file EXCEPT ![d] = n]
      BY <1>2, NewFile DEF StartDevice, StopDevice
    <2> QED
      BY <1>1, <2>1, <2>2
  <1>3. ASSUME NEW devices \in SUBSET Devices, Forget(devices)
        PROVE  FileInv'
    BY <1>3 DEF Forget, NoFile
  <1>4. CASE ClearDevices \/ \E d \in Devices : UnplugDevice(d)
    BY <1>3, <1>4 DEF ClearDevices, UnplugDevice
  <1>5. CASE CheckNotifyEvents \/ \E d \in Devices : MacroChanged(d)
    BY <1>5 DEF CheckNotifyEvents, MacroChanged
  <1>6. CASE MoveDirectory \/ DeleteDirectory \/ \E n \in Names : EditFile(n)
    BY <1>6 DEF MoveDirectory, DeleteDirectory, DirectoryGone, EditFile, memVars
  <1>7. CASE UNCHANGED vars
    BY <1>7 DEF vars, memVars
  <1> QED
    BY <1>2, <1>4, <1>5, <1>6, <1>7 DEF Next

(* However devices come and go, and whatever could not be created, two     *)
(* devices of a model do not save into one file.                           *)
THEOREM OneFileForEach == Spec => []OneFilePerDevice
  <1>1. FileInv /\ [Next]_vars => FileInv'
    BY FileInvStep
  <1>2. FileInv => OneFilePerDevice
    BY DEF FileInv
  <1> QED
    BY FileInvInit, <1>1, <1>2, PTL DEF Spec

-----------------------------------------------------------------------------
(* What the handlers do to the watch, seen from the count of references:   *)
(* a device that is not handled holds no descriptor, and a path that is    *)
(* watched has no more references than holders, exactly as many while      *)
(* nothing has failed.                                                     *)
WatchTypes ==
  /\ FileTypes
  /\ watched \in [wd : WatchDescriptors \cup {NoWatch}, count : Nat]
  /\ wd \in [Devices -> WatchDescriptors \cup {NoWatch}]
  /\ mishap \in BOOLEAN
  /\ IsWatched(watched) => watched.wd \in WatchDescriptors
  /\ \A d \in Devices \ Handled : wd[d] = NoWatch

WatchInv ==
  /\ WatchTypes
  /\ WatchesFollowUse
  /\ ~mishap /\ Handled = {} => ~IsWatched(watched)

LEMMA HandledFinite ==
  ASSUME WatchTypes
  PROVE  /\ Handled \subseteq Devices /\ IsFiniteSet(Handled)
         /\ IsFiniteSet(Holders) /\ Cardinality(Holders) \in Nat
         /\ Cardinality(Handled) \in Nat
  <1>1. Handled \subseteq Devices /\ Holders \subseteq Devices
    BY DEF WatchTypes, FileTypes, Handled, Holders
  <1> QED
    BY <1>1, HandlerAssumption, FS_Subset, FS_CardinalityType

LEMMA WatchInvInit == Init => WatchInv
  <1> SUFFICES ASSUME Init PROVE WatchInv
    OBVIOUS
  <1>1. FileTypes
    BY FileInvInit DEF FileInv
  <1>2. watched.count = 0 /\ ~IsWatched(watched) /\ Handled = {}
    BY DEF Init, IsWatched, Handled
  <1>3. WatchTypes
    BY <1>1, <1>2 DEF Init, WatchTypes
  <1> QED
    BY <1>2, <1>3 DEF WatchInv, WatchesFollowUse, WatchReferences, MonitoredWhileUsed

(* initializeConfigurationDirectory() of a device: d is handled afterwards *)
(* and holds the watch of the path, counted once for it when it is new.    *)
LEMMA DirectoryStep ==
  ASSUME WatchInv, WatchTypes', NEW d \in Devices, NEW check \in BOOLEAN, NEW ok \in BOOLEAN,
         NEW w \in WatchDescriptors, NextWatch(w), InitializeDirectory(d, check, ok, w),
         Handled' = Handled \cup {d}, check <=> d \in Handled, mishap' = (mishap \/ ~ok)
  PROVE  WatchInv'
  <1> USE DEF IsWatched
  <1>1. CASE ~ok
    <2>1. UNCHANGED <<watched, wd>> /\ mishap' /\ Holders \subseteq Holders'
      BY <1>1 DEF InitializeDirectory, Holders
    <2>2. IsFiniteSet(Holders')
      <3>1. Holders' \subseteq Devices
        BY DEF Holders, Handled, WatchTypes, FileTypes
      <3> QED
        BY <3>1, HandlerAssumption, FS_Subset
    <2>3. /\ Cardinality(Holders) \in Nat /\ Cardinality(Holders') \in Nat
          /\ Cardinality(Holders) <= Cardinality(Holders')
      BY <2>1, <2>2, HandledFinite, FS_Subset, FS_CardinalityType DEF WatchInv
    <2>4. WatchReferences'
      BY <2>1, <2>3 DEF WatchInv, WatchTypes, WatchesFollowUse, WatchReferences
    <2> QED
      BY <2>1, <2>4 DEF WatchInv, WatchesFollowUse, MonitoredWhileUsed
  <1>2. CASE ok /\ ~IsWatched(watched)
    <2>1. /\ watched' = [wd |-> w, count |-> 1] /\ wd' = [wd EXCEPT ![d] = w]
          /\ directory' = w /\ live' = live \cup {w}
      BY <1>2 DEF InitializeDirectory, AddWatch
    <2>2. \A e \in Devices : wd[e] # w
      BY <1>2 DEF NextWatch
    <2>3. watched'.wd = w /\ watched'.count = 1
      BY <2>1
    <2>4. Holders' = {d}
      BY <2>1, <2>2, <2>3 DEF Holders, Handled, WatchInv, WatchTypes, FileTypes
    <2>5. Cardinality(Holders') = 1
      BY <2>4, FS_Singleton
    <2>6. ~mishap' => Handled = {}
      <3>1. Handled # {} => ~(watched.count = Cardinality(Handled))
        BY <1>2, HandledFinite, FS_EmptySet DEF WatchInv, WatchTypes
      <3> QED
        BY <3>1 DEF WatchInv, WatchesFollowUse, MonitoredWhileUsed
    <2>7. WatchReferences'
      BY <2>3, <2>5 DEF WatchReferences
    <2>8. MonitoredWhileUsed'
      BY <2>1, <2>3, <2>4, <2>5, <2>6 DEF MonitoredWhileUsed
    <2> QED
      BY <2>7, <2>8 DEF WatchInv, WatchesFollowUse
  <1>3. CASE ok /\ IsWatched(watched)
    <2>1. /\ watched' = IF check THEN watched ELSE [watched EXCEPT !.count = @ + 1]
          /\ wd' = [wd EXCEPT ![d] = watched.wd]
          /\ UNCHANGED <<directory, live>>
      BY <1>3 DEF InitializeDirectory, AddWatch, WatchInv, WatchTypes
    <2>2. /\ watched'.wd = watched.wd
          /\ watched'.count = IF check THEN watched.count ELSE watched.count + 1
      BY <2>1 DEF WatchInv, WatchTypes
    <2>3. Holders' = Holders \cup {d}
      BY <2>1, <2>2 DEF Holders, Handled, WatchInv, WatchTypes, FileTypes
    <2>4. Cardinality(Holders') = IF d \in Holders THEN Cardinality(Holders) ELSE Cardinality(Holders) + 1
      BY <2>3, HandledFinite, FS_AddElement DEF WatchInv
    <2>5. Cardinality(Handled') = IF d \in Handled THEN Cardinality(Handled) ELSE Cardinality(Handled) + 1
      BY HandledFinite, FS_AddElement DEF WatchInv
    <2>6. d \in Holders => d \in Handled
      BY DEF Holders
    <2>7. Cardinality(Holders) \in Nat /\ Cardinality(Handled) \in Nat /\ watched.count \in Nat
      BY HandledFinite DEF WatchInv, WatchTypes
    <2>8. WatchReferences'
      BY <1>3, <2>2, <2>4, <2>6, <2>7 DEF WatchReferences, WatchInv, WatchesFollowUse
    <2>9. MonitoredWhileUsed'
      <3> SUFFICES ASSUME ~mishap'
                   PROVE  /\ Holders' = Handled'
                          /\ watched'.count = Cardinality(Handled')
                          /\ directory' = watched'.wd /\ watched'.wd \in live'
        BY DEF MonitoredWhileUsed
      <3>1. Handled # {}
        BY <1>3 DEF WatchInv
      <3>2. /\ Holders = Handled /\ watched.count = Cardinality(Handled)
            /\ directory = watched.wd /\ watched.wd \in live
        BY <3>1 DEF WatchInv, WatchesFollowUse, MonitoredWhileUsed
      <3> QED
        BY <2>1, <2>2, <2>3, <2>5, <2>7, <3>2
    <2> QED
      BY <1>3, <2>8, <2>9 DEF WatchInv, WatchesFollowUse
  <1> QED
    BY <1>1, <1>2, <1>3

(* A device whose properties could not be set is not monitored either. *)
LEMMA NewDeviceStep ==
  ASSUME WatchInv, WatchTypes', NEW d \in Devices \ Handled, NEW ok \in BOOLEAN,
         NEW saved \in BOOLEAN, NEW w \in WatchDescriptors, NextWatch(w),
         SetDeviceProperties(d, ok, saved, w), Handled' = Handled \cup {d}
  PROVE  WatchInv'
  <1>1. CASE InitializeDirectory(d, FALSE, ok, w) /\ mishap' = (mishap \/ ~ok)
    BY <1>1, DirectoryStep
  <1>2. CASE mishap' = TRUE /\ UNCHANGED <<watched, wd>>
    <2>1. ASSUME IsWatched(watched) PROVE Holders' = Holders
      <3>1. watched.wd # NoWatch /\ wd[d] = NoWatch
        BY <2>1, WatchAssumption DEF WatchInv, WatchTypes
      <3> QED
        BY <1>2, <3>1 DEF Holders
    <2>2. WatchReferences'
      BY <1>2, <2>1 DEF IsWatched, WatchReferences, WatchInv, WatchesFollowUse
    <2> QED
      BY <1>2, <2>2 DEF WatchInv, WatchesFollowUse, MonitoredWhileUsed
  <1> QED
    BY <1>1, <1>2 DEF SetDeviceProperties

(* A device that goes gives back its reference, if it held one. *)
LEMMA UnplugStep ==
  ASSUME WatchInv, WatchTypes', NEW d \in Devices, UnplugDevice(d)
  PROVE  WatchInv'
  <1> USE DEF IsWatched
  <1>1. /\ d \in Handled /\ Handled' = Handled \ {d} /\ mishap' = mishap
        /\ \A e \in Devices : wd'[e] = IF e = d THEN NoWatch ELSE wd[e]
    BY DEF UnplugDevice, Forget, diskVars, Handled
  <1>2. /\ watched'.wd = watched.wd
        /\ watched'.count = IF IsWatched(watched) /\ d \in Holders
                            THEN watched.count - 1 ELSE watched.count
        /\ watched.count \in Nat
    BY <1>1 DEF UnplugDevice, RemoveWatch, Holders, WatchInv, WatchTypes
  <1>3. IsWatched(watched) => Holders' = Holders \ {d}
    BY <1>1, <1>2 DEF Holders, Handled, WatchInv, WatchTypes, FileTypes
  <1>4. /\ Cardinality(Holders \ {d}) = IF d \in Holders THEN Cardinality(Holders) - 1
                                        ELSE Cardinality(Holders)
        /\ Cardinality(Handled \ {d}) = Cardinality(Handled) - 1
        /\ Cardinality(Holders) \in Nat /\ Cardinality(Handled) \in Nat
    BY <1>1, HandledFinite, FS_RemoveElement DEF WatchInv
  <1>5. WatchReferences'
    <2> SUFFICES ASSUME IsWatched(watched') PROVE watched'.count <= Cardinality(Holders')
      BY DEF WatchReferences
    <2>1. IsWatched(watched)
      BY <1>2
    <2>2. watched.count <= Cardinality(Holders)
      BY <2>1 DEF WatchReferences, WatchInv, WatchesFollowUse
    <2>3. Holders' = Holders \ {d}
      BY <1>3, <2>1
    <2>4. CASE d \in Holders
      BY <1>2, <1>4, <2>1, <2>2, <2>3, <2>4
    <2>5. CASE d \notin Holders
      BY <1>2, <1>4, <2>1, <2>2, <2>3, <2>5
    <2> QED
      BY <2>4, <2>5
  <1>6. CASE mishap'
    BY <1>5, <1>6 DEF WatchInv, WatchesFollowUse, MonitoredWhileUsed
  <1>7. CASE ~mishap'
    <2>1. /\ Holders = Handled /\ watched.count = Cardinality(Handled)
          /\ directory = watched.wd /\ watched.wd \in live
      BY <1>1, <1>7 DEF WatchInv, WatchesFollowUse, MonitoredWhileUsed
    <2>2. watched'.count = Cardinality(Handled')
      <3>1. Cardinality(Handled) > 0
        BY <1>1, <1>4, HandledFinite, FS_EmptySet DEF WatchInv
      <3> QED
        BY <1>1, <1>2, <1>4, <2>1, <3>1
    <2>3. CASE Handled' = {}
      <3>1. Cardinality(Handled') = 0
        BY <2>3, FS_EmptySet
      <3> QED
        BY <1>5, <2>2, <2>3, <3>1 DEF WatchInv, WatchesFollowUse, MonitoredWhileUsed
    <2>4. CASE Handled' # {}
      <3>1. watched'.count > 0
        <4>1. IsFiniteSet(Handled') /\ Cardinality(Handled') # 0
          BY <1>1, <2>4, HandledFinite, FS_RemoveElement, FS_EmptySet DEF WatchInv
        <4> QED
          BY <1>2, <1>4, <1>1, <2>2, <4>1, FS_CardinalityType
      <3>2. IsWatched(watched) /\ Holders' = Handled'
        BY <1>1, <1>2, <1>3, <2>1, <3>1
      <3>3. UNCHANGED <<directory, live>>
        BY <3>1 DEF UnplugDevice, AfterRemoval, Unwatched
      <3> QED
        BY <1>2, <1>5, <2>1, <2>2, <2>4, <3>2, <3>3
           DEF WatchInv, WatchesFollowUse, MonitoredWhileUsed
    <2> QED
      BY <2>3, <2>4
  <1> QED
    BY <1>6, <1>7

(* The watch is given up for good. *)
LEMMA NoWatchLeft ==
  ASSUME WatchTypes', ~IsWatched(watched'), Handled' = {} \/ mishap'
  PROVE  WatchInv'
  BY DEF WatchInv, WatchesFollowUse, WatchReferences, MonitoredWhileUsed, IsWatched

LEMMA ClearStep ==
  ASSUME WatchInv, WatchTypes', ClearDevices
  PROVE  WatchInv'
  <1>1. Handled' = {}
    BY DEF ClearDevices, Forget, Handled
  <1>2. watched'.count = IF watched.count > Cardinality(Holders)
                         THEN watched.count - Cardinality(Holders) ELSE 0
    BY DEF ClearDevices, Holders, WatchInv, WatchTypes
  <1>3. ~(watched.count > Cardinality(Holders))
    BY HandledFinite DEF WatchInv, WatchTypes, WatchesFollowUse, WatchReferences, IsWatched
  <1>4. ~IsWatched(watched')
    BY <1>2, <1>3 DEF IsWatched
  <1> QED
    BY <1>1, <1>4, NoWatchLeft

LEMMA WatchTypesStep == ASSUME WatchInv, FileInv, [Next]_vars PROVE WatchTypes'
  <1> USE DEF WatchTypes, IsWatched, Handled
  <1>1. FileTypes'
    BY FileInvStep DEF FileInv
  <1>2. ASSUME NEW d \in Devices, NEW check \in BOOLEAN, NEW ok \in BOOLEAN,
               NEW w \in WatchDescriptors, InitializeDirectory(d, check, ok, w)
        PROVE  /\ watched' \in [wd : WatchDescriptors \cup {NoWatch}, count : Nat]
               /\ wd' \in [Devices -> WatchDescriptors \cup {NoWatch}]
               /\ IsWatched(watched') => watched'.wd \in WatchDescriptors
               /\ \A e \in Devices \ {d} : wd'[e] = wd[e]
    <2>1. CASE ~ok
      BY <1>2, <2>1 DEF InitializeDirectory, WatchInv
    <2>2. CASE ok
      <3>1. /\ watched' \in {watched, [watched EXCEPT !.count = @ + 1], [wd |-> w, count |-> 1]}
            /\ watched'.wd \in WatchDescriptors
            /\ wd' = [wd EXCEPT ![d] = watched'.wd]
        BY <1>2, <2>2 DEF InitializeDirectory, AddWatch, WatchInv
      <3>2. watched' \in [wd : WatchDescriptors \cup {NoWatch}, count : Nat]
        BY <3>1 DEF WatchInv
      <3> QED
        BY <3>1, <3>2 DEF WatchInv
    <2> QED
      BY <2>1, <2>2
  <1>3. ASSUME NEW d \in Devices, NEW ok \in BOOLEAN, NEW saved \in BOOLEAN,
               NEW w \in WatchDescriptors, SetDeviceProperties(d, ok, saved, w),
               Handled' = Handled \cup {d}
        PROVE  WatchTypes'
    <2>1. mishap' \in BOOLEAN
      BY <1>3 DEF SetDeviceProperties, WatchInv
    <2>2. CASE InitializeDirectory(d, FALSE, ok, w)
      BY <1>1, <1>2, <1>3, <2>1, <2>2 DEF WatchInv
    <2>3. CASE UNCHANGED <<watched, wd>>
      BY <1>1, <1>3, <2>1, <2>3 DEF WatchInv
    <2> QED
      BY <1>3, <2>2, <2>3 DEF SetDeviceProperties
  <1>4. ASSUME NEW d \in Devices, StartDevice(d) \/ StopDevice(d)
        PROVE  WatchTypes'
    <2>1. Handled' = Handled \cup {d}
      BY <1>4 DEF StartDevice, StopDevice
    <2>2. CASE UNCHANGED <<watchVars, file, wd, conf, ignored, diskVars>> /\ d \in Handled
      BY <1>1, <2>1, <2>2 DEF watchVars, diskVars, WatchInv
    <2> QED
      BY <1>3, <1>4, <2>1, <2>2 DEF StartDevice, StopDevice
  <1>5. ASSUME NEW d \in Devices, UnplugDevice(d)
        PROVE  WatchTypes'
    <2>1. watched' \in [wd : WatchDescriptors \cup {NoWatch}, count : Nat]
          /\ watched'.wd = watched.wd /\ (IsWatched(watched') => IsWatched(watched))
      BY <1>5 DEF UnplugDevice, RemoveWatch, WatchInv
    <2> QED
      BY <1>1, <1>5, <2>1 DEF UnplugDevice, Forget, diskVars, WatchInv
  <1>6. ASSUME NEW d \in Devices, MacroChanged(d)
        PROVE  WatchTypes'
    <2>1. PICK ok \in BOOLEAN, w \in WatchDescriptors :
             InitializeDirectory(d, TRUE, ok, w) /\ mishap' = (mishap \/ ~ok)
      BY <1>6 DEF MacroChanged
    <2>2. d \in Handled /\ Handled' = Handled
      BY <1>6 DEF MacroChanged
    <2> QED
      BY <1>1, <1>2, <2>1, <2>2 DEF WatchInv
  <1>7. CASE ClearDevices
    <2>1. Cardinality(Holders) \in Nat
      BY HandledFinite DEF WatchInv
    <2>2. watched' \in [wd : WatchDescriptors \cup {NoWatch}, count : Nat] /\ watched'.wd = watched.wd
      BY <1>7, <2>1 DEF ClearDevices, Holders, WatchInv
    <2>3. IsWatched(watched') => IsWatched(watched)
      BY <1>7, <2>1 DEF ClearDevices, Holders, WatchInv
    <2> QED
      BY <1>1, <1>7, <2>2, <2>3 DEF ClearDevices, Forget, diskVars, WatchInv
  <1>8. CASE CheckNotifyEvents
    BY <1>1, <1>8 DEF CheckNotifyEvents, ReadNotifyEvents, WatchIsOver, WatchInv
  <1>9. CASE MoveDirectory \/ DeleteDirectory \/ \E n \in Names : EditFile(n)
    BY <1>1, <1>9 DEF MoveDirectory, DeleteDirectory, DirectoryGone, EditFile, memVars, WatchInv
  <1>10. CASE UNCHANGED vars
    BY <1>1, <1>10 DEF vars, watchVars, memVars, diskVars, WatchInv
  <1> QED
    BY <1>4, <1>5, <1>6, <1>7, <1>8, <1>9, <1>10 DEF Next

LEMMA WatchInvStep == ASSUME WatchInv, FileInv, [Next]_vars PROVE WatchInv'
  <1> USE WatchTypesStep
  <1>1. ASSUME UNCHANGED <<watched, directory, live, wd>>, Handled' = Handled, mishap' = mishap
        PROVE  WatchInv'
    <2>1. Holders' = Holders
      BY <1>1 DEF Holders
    <2> QED
      BY <1>1, <2>1 DEF WatchInv, WatchesFollowUse, WatchReferences, MonitoredWhileUsed
  <1>2. ASSUME UNCHANGED <<watched, wd>>, Handled' = Handled, mishap'
        PROVE  WatchInv'
    <2>1. Holders' = Holders
      BY <1>2 DEF Holders
    <2> QED
      BY <1>2, <2>1 DEF WatchInv, WatchesFollowUse, WatchReferences, MonitoredWhileUsed
  <1>3. ASSUME NEW d \in Devices, StartDevice(d) \/ StopDevice(d)
        PROVE  WatchInv'
    <2>1. Handled' = Handled \cup {d}
      BY <1>3 DEF StartDevice, StopDevice, Handled
    <2>2. CASE d \in Handled
      BY <1>1, <1>3, <2>1, <2>2 DEF StartDevice, StopDevice, Handled, watchVars, diskVars
    <2>3. CASE d \notin Handled
      <3>1. PICK ok \in BOOLEAN, saved \in BOOLEAN, w \in WatchDescriptors :
               NextWatch(w) /\ SetDeviceProperties(d, ok, saved, w)
        BY <1>3, <2>3 DEF StartDevice, StopDevice, Handled
      <3> QED
        BY <2>1, <2>3, <3>1, NewDeviceStep
    <2> QED
      BY <2>2, <2>3
  <1>4. ASSUME NEW d \in Devices, MacroChanged(d)
        PROVE  WatchInv'
    <2>1. PICK ok \in BOOLEAN, w \in WatchDescriptors :
             /\ NextWatch(w) /\ InitializeDirectory(d, TRUE, ok, w)
             /\ mishap' = (mishap \/ ~ok)
      BY <1>4 DEF MacroChanged
    <2>2. d \in Handled /\ Handled' = Handled \cup {d}
      BY <1>4 DEF MacroChanged, Handled
    <2> QED
      BY <2>1, <2>2, DirectoryStep
  <1>5. CASE CheckNotifyEvents
    <2>1. CASE WatchIsOver
      <3>1. ~IsWatched(watched')
        BY <1>5, <2>1 DEF CheckNotifyEvents, ReadNotifyEvents, IsWatched, WatchInv, WatchTypes
      <3>2. mishap'
        BY <1>5, <2>1 DEF CheckNotifyEvents
      <3> QED
        BY <3>1, <3>2, NoWatchLeft
    <2>2. CASE ~WatchIsOver
      BY <1>1, <1>5, <2>2 DEF CheckNotifyEvents, ReadNotifyEvents, Handled, WatchInv, WatchTypes
    <2> QED
      BY <2>1, <2>2
  <1>6. CASE \E n \in Names : EditFile(n)
    BY <1>1, <1>6 DEF EditFile, memVars, Handled
  <1>7. CASE MoveDirectory \/ DeleteDirectory
    BY <1>2, <1>7 DEF MoveDirectory, DeleteDirectory, DirectoryGone, memVars, Handled
  <1>8. CASE UNCHANGED vars
    BY <1>1, <1>8 DEF vars, watchVars, memVars, diskVars, Handled
  <1> QED
    BY <1>3, <1>4, <1>5, <1>6, <1>7, <1>8, UnplugStep, ClearStep DEF Next

(* The watch of the directory lives as long as the last device that holds  *)
(* it, and no longer; while nothing fails every handled device holds it.   *)
THEOREM WatchLivesWithItsDevices == Spec => []WatchesFollowUse
  <1>1. FileInv /\ WatchInv /\ [Next]_vars => (FileInv /\ WatchInv)'
    BY FileInvStep, WatchInvStep
  <1>2. WatchInv => WatchesFollowUse
    BY DEF WatchInv
  <1> QED
    BY FileInvInit, WatchInvInit, <1>1, <1>2, PTL DEF Spec

-----------------------------------------------------------------------------
(* The types of the files and of the unread events. *)
EventTypes ==
  /\ directory \in WatchDescriptors \cup {NoWatch} /\ live \subseteq WatchDescriptors
  /\ events \in Seq(EventSet)

DiskTypes ==
  /\ ignored \subseteq Devices
  /\ conf \in [Devices -> Contents]
  /\ disk \in [Names -> Contents \cup {Absent, Garbage}]
  /\ changes \in Contents /\ failures \in 0 .. MaxFailures

(* What is unread after an event was queued. *)
LEMMA QueueReads ==
  ASSUME NEW unread \in Seq(EventSet), NEW e \in EventSet
  PROVE  /\ Queue(unread, e) \in Seq(EventSet)
         /\ \A i \in 1 .. Len(Queue(unread, e)) :
               Queue(unread, e)[i] = e \/ \E j \in 1 .. Len(unread) : Queue(unread, e)[i] = unread[j]
  BY DEF Queue

LEMMA WrittenReads ==
  ASSUME EventTypes, NEW w \in WatchDescriptors \cup {NoWatch}, NEW n \in Names
  PROVE  /\ Written(w, n) \in Seq(EventSet)
         /\ \A i \in 1 .. Len(Written(w, n)) :
               Written(w, n)[i].file = n \/ Written(w, n)[i] \in Unread
  <1>1. CASE w = NoWatch
    BY <1>1 DEF Written, EventTypes, Unread
  <1>2. CASE w # NoWatch
    <2>1. Event(w, "close_write", n) \in EventSet /\ Event(w, "close_write", n).file = n
      BY <1>2 DEF Event, EventSet
    <2> QED
      BY <1>2, <2>1, QueueReads DEF Written, EventTypes, Unread
  <1> QED
    BY <1>1, <1>2

LEMMA RemovalReads ==
  ASSUME EventTypes, AfterRemoval
  PROVE  /\ EventTypes'
         /\ \A e \in Unread' : e.file = NoFile \/ e \in Unread
  <1>1. CASE events' = events
    BY <1>1 DEF EventTypes, AfterRemoval, Unread
  <1>2. CASE watched.wd \in live /\ events' = Queue(events, Event(watched.wd, "ignored", NoFile))
    <2> DEFINE removal == Event(watched.wd, "ignored", NoFile)
    <2>1. removal \in EventSet /\ removal.file = NoFile
      BY <1>2 DEF Event, EventSet, EventTypes
    <2> HIDE DEF removal
    <2>2. /\ events' \in Seq(EventSet)
          /\ \A i \in 1 .. Len(events') : events'[i].file = NoFile \/ events'[i] \in Unread
      BY <1>2, <2>1, QueueReads DEF EventTypes, Unread, removal
    <2>3. directory' \in WatchDescriptors \cup {NoWatch} /\ live' \subseteq WatchDescriptors
      BY DEF EventTypes, AfterRemoval
    <2> QED
      BY <2>2, <2>3 DEF EventTypes, Unread
  <1> QED
    BY <1>1, <1>2 DEF AfterRemoval, QueueRemoval

(* A file that is older than the configuration in memory, because a save   *)
(* failed, is either ignored at its next notification or has none unread:  *)
(* the next one will be about a change that is newer.                      *)
Older(d) == file[d] # NoFile /\ disk[file[d]] \in Contents /\ disk[file[d]] < conf[d]

FreshInv ==
  /\ \A d \in Devices : conf[d] <= changes
  /\ \A n \in Names : disk[n] \in Contents => disk[n] <= changes
  /\ \A d \in Handled : Older(d) => d \in ignored \/ \A e \in Unread : e.file # file[d]

HandlerInv == FileInv /\ WatchInv /\ EventTypes /\ DiskTypes /\ FreshInv

(* A handler that leaves every handled device and its file as they are,    *)
(* but those of d, and queues events about the file of d only.             *)
LEMMA OthersStayFresh ==
  ASSUME HandlerInv, FileTypes', NEW d, NEW n,
         \A e \in Handled' \ {d} :
            /\ e \in Handled /\ file'[e] = file[e] /\ conf'[e] = conf[e]
            /\ e \in ignored => e \in ignored'
            /\ file[e] # NoFile => file[e] # n /\ disk'[file[e]] = disk[file[e]],
         \A e \in Unread' : e.file = n \/ e \in Unread,
         d \in Handled' => ~Older(d)' \/ d \in ignored'
  PROVE  \A e \in Handled' : Older(e)' => e \in ignored' \/ \A v \in Unread' : v.file # file'[e]
  <1> SUFFICES ASSUME NEW e \in Handled', Older(e)', e \notin ignored', NEW v \in Unread'
               PROVE  v.file # file'[e]
    OBVIOUS
  <1>1. e # d
    OBVIOUS
  <1>2. e \in Handled /\ file'[e] = file[e] /\ conf'[e] = conf[e] /\ file[e] # n
        /\ disk'[file[e]] = disk[file[e]] /\ e \notin ignored
    BY <1>1 DEF Older
  <1>3. Older(e)
    BY <1>2 DEF Older
  <1> QED
    BY <1>2, <1>3 DEF HandlerInv, FreshInv

(* A save of d: into its file, which is nobody else's, or into nothing. *)
LEMMA SaveStep ==
  ASSUME HandlerInv, NEW d \in Devices, NEW n \in Names \cup {NoFile},
         NEW content \in Contents, NEW saved \in BOOLEAN, Save(d, n, content, saved),
         directory' \in WatchDescriptors \cup {NoWatch}
  PROVE  /\ ignored' = ignored \cup {d}
         /\ events' \in Seq(EventSet)
         /\ \A e \in Unread' : (n # NoFile /\ e.file = n) \/ e \in Unread
         /\ disk' \in [Names -> Contents \cup {Absent, Garbage}]
         /\ \A m \in Names \ {n} : disk'[m] = disk[m]
         /\ n # NoFile => disk'[n] \in {disk[n], content}
  <1>1. CASE UNCHANGED <<disk, events>>
    BY <1>1 DEF Save, HandlerInv, EventTypes, DiskTypes, Unread
  <1>2. CASE n \in Names /\ disk' = [disk EXCEPT ![n] = content] /\ events' = Written(directory', n)
    <2>1. /\ events' \in Seq(EventSet)
          /\ \A e \in Unread' : e.file = n \/ e \in Unread
      BY <1>2, WrittenReads DEF HandlerInv, Unread
    <2>2. n # NoFile
      BY <1>2 DEF Names, NoFile
    <2> QED
      BY <1>2, <2>1, <2>2 DEF Save, HandlerInv, DiskTypes
  <1> QED
    BY <1>1, <1>2 DEF Save

LEMMA HandlerInvInit == Init => HandlerInv
  <1> SUFFICES ASSUME Init PROVE HandlerInv
    OBVIOUS
  <1>1. 0 \in Contents /\ \A c \in Contents : 0 <= c
    BY HandlerAssumption DEF Contents
  <1>2. EventTypes
    BY DEF Init, EventTypes
  <1>3. DiskTypes
    <2>1. failures \in 0 .. MaxFailures
      BY HandlerAssumption DEF Init
    <2> QED
      BY <1>1, <2>1 DEF Init, DiskTypes
  <1>4. FreshInv
    BY <1>1, HandlerAssumption DEF Init, FreshInv, Handled, Contents
  <1> QED
    BY <1>2, <1>3, <1>4, FileInvInit, WatchInvInit DEF HandlerInv

LEMMA OutcomeType ==
  ASSUME HandlerInv, NEW ok, Outcome(ok) PROVE failures' \in 0 .. MaxFailures
  BY HandlerAssumption DEF HandlerInv, DiskTypes, Outcome

LEMMA DirectoryTypes ==
  ASSUME HandlerInv, NEW d, NEW check, NEW ok, NEW w \in WatchDescriptors,
         InitializeDirectory(d, check, ok, w)
  PROVE  directory' \in WatchDescriptors \cup {NoWatch} /\ live' \subseteq WatchDescriptors
  BY DEF HandlerInv, EventTypes, InitializeDirectory

LEMMA LoadedType ==
  ASSUME HandlerInv, NEW n \in Names, NEW content \in Contents, content <= changes
  PROVE  Loaded(n, content) \in Contents /\ Loaded(n, content) <= changes
  BY DEF HandlerInv, FreshInv, Loaded

(* setDeviceProperties() of a device that was not handled. *)
LEMMA PropertiesStep ==
  ASSUME HandlerInv, FileInv', NEW d \in Devices \ Handled, NEW ok \in BOOLEAN,
         NEW saved \in BOOLEAN, NEW w \in WatchDescriptors, SetDeviceProperties(d, ok, saved, w),
         Handled' = Handled \cup {d}
  PROVE  EventTypes' /\ DiskTypes' /\ FreshInv'
  <1> USE DEF HandlerInv
  <1>1. 0 \in Contents /\ 0 <= changes /\ NoFile \notin Names
    BY HandlerAssumption DEF DiskTypes, Contents, Names, NoFile
  <1>2. failures' \in 0 .. MaxFailures /\ changes' = changes
    BY OutcomeType DEF SetDeviceProperties
  <1>3. \A e \in Handled : file[e] \in AlreadyUsed
    BY DEF AlreadyUsed
  <1>4. CASE /\ Available(TRUE) # {}
             /\ file' = [file EXCEPT ![d] = NextAvailableFileName(TRUE)]
             /\ InitializeDirectory(d, FALSE, ok, w)
             /\ conf' = [conf EXCEPT ![d] = Loaded(file'[d], 0)]
             /\ UNCHANGED <<ignored, disk, events>>
    <2>1. file'[d] \in Names
      BY <1>4, NextNameIsFree DEF FileInv, FileTypes
    <2>2. conf'[d] \in Contents /\ conf'[d] <= changes /\ ~Older(d)'
      <3>1. conf'[d] = Loaded(file'[d], 0)
        BY <1>4 DEF DiskTypes
      <3>2. conf'[d] \in Contents /\ conf'[d] <= changes
        BY <1>1, <2>1, <3>1, LoadedType
      <3>3. disk'[file'[d]] \in Contents => conf'[d] = disk'[file'[d]]
        BY <1>4, <3>1 DEF Loaded
      <3>4. conf'[d] \in Nat
        BY <3>2, HandlerAssumption DEF Contents
      <3> QED
        BY <3>2, <3>3, <3>4 DEF Older
    <2>3. \A e \in Devices \ {d} : file'[e] = file[e] /\ conf'[e] = conf[e]
      BY <1>4 DEF FileInv, FileTypes, DiskTypes
    <2>4. EventTypes'
      BY <1>4, DirectoryTypes DEF EventTypes
    <2>5. DiskTypes'
      BY <1>2, <1>4, <2>2 DEF DiskTypes
    <2>6. Unread' = Unread
      BY <1>4 DEF Unread
    <2>7. \A e \in Handled' : Older(e)' => e \in ignored' \/ \A v \in Unread' : v.file # file'[e]
      <3> SUFFICES ASSUME NEW e \in Handled', Older(e)'
                   PROVE  e \in ignored' \/ \A v \in Unread' : v.file # file'[e]
        OBVIOUS
      <3>1. e \in Handled /\ e # d
        BY <2>2
      <3>2. e \in Devices
        BY <3>1 DEF FileInv, FileTypes, Handled
      <3>3. Older(e)
        BY <1>4, <2>3, <3>1, <3>2 DEF Older
      <3> QED
        BY <1>4, <2>3, <2>6, <3>1, <3>2, <3>3 DEF FreshInv
    <2> QED
      BY <1>2, <1>4, <2>2, <2>3, <2>4, <2>5, <2>7 DEF FreshInv
  <1>5. CASE /\ Available(FALSE) # {}
             /\ file' = [file EXCEPT ![d] = NextAvailableFileName(FALSE)]
             /\ InitializeDirectory(d, FALSE, ok, w)
             /\ conf' = [conf EXCEPT ![d] = 0]
             /\ Save(d, file'[d], 0, saved)
    <2>1. file'[d] \in Names \ AlreadyUsed
      BY <1>5, NextNameIsFree DEF FileInv, FileTypes
    <2>2. conf'[d] = 0 /\ \A e \in Devices \ {d} : file'[e] = file[e] /\ conf'[e] = conf[e]
      BY <1>5 DEF FileInv, FileTypes, DiskTypes
    <2>3. EventTypes'
      BY <1>1, <1>5, <2>1, DirectoryTypes, SaveStep DEF EventTypes
    <2>4. /\ ignored' = ignored \cup {d}
          /\ \A e \in Unread' : e.file = file'[d] \/ e \in Unread
          /\ disk' \in [Names -> Contents \cup {Absent, Garbage}]
          /\ \A m \in Names \ {file'[d]} : disk'[m] = disk[m]
          /\ disk'[file'[d]] \in {disk[file'[d]], 0}
      <3> PICK n \in Names : n = file'[d]
        BY <2>1
      <3>1. directory' \in WatchDescriptors \cup {NoWatch} /\ Save(d, n, 0, saved) /\ n # NoFile
        BY <1>1, <1>5, DirectoryTypes
      <3> QED
        BY <1>1, <3>1, SaveStep
    <2>5. DiskTypes'
      BY <1>1, <1>2, <1>5, <2>4 DEF DiskTypes
    <2>6. \A e \in Handled' : Older(e)' => e \in ignored' \/ \A v \in Unread' : v.file # file'[e]
      BY <1>3, <2>1, <2>2, <2>4, OthersStayFresh DEF FileInv, FileTypes, Handled
    <2>7. \A n \in Names : disk'[n] \in Contents => disk'[n] <= changes'
      BY <1>1, <1>2, <2>4 DEF FreshInv
    <2> QED
      BY <1>1, <1>2, <2>2, <2>3, <2>5, <2>6, <2>7 DEF FreshInv
  <1>6. CASE /\ file' = [file EXCEPT ![d] = NoFile]
             /\ conf' = [conf EXCEPT ![d] = 0]
             /\ UNCHANGED <<watched, wd, directory, live, ignored, disk, events>>
    <2>1. \A e \in Devices : file'[e] = (IF e = d THEN NoFile ELSE file[e])
                          /\ conf'[e] = (IF e = d THEN 0 ELSE conf[e])
      BY <1>6 DEF FileInv, FileTypes, DiskTypes
    <2>2. EventTypes' /\ DiskTypes'
      BY <1>1, <1>2, <1>6 DEF EventTypes, DiskTypes
    <2>3. Unread' = Unread
      BY <1>6 DEF Unread
    <2> QED
      BY <1>1, <1>2, <1>6, <2>1, <2>2, <2>3 DEF FreshInv, Older, FileInv, FileTypes, Handled
  <1> QED
    BY <1>4, <1>5, <1>6 DEF SetDeviceProperties

(* A change of d, saved or not, is newer than all that went before. *)
LEMMA MacroStep ==
  ASSUME HandlerInv, FileInv', NEW d \in Devices, MacroChanged(d)
  PROVE  EventTypes' /\ DiskTypes' /\ FreshInv'
  <1> USE DEF HandlerInv
  <1>1. /\ changes' = changes + 1 /\ changes' \in Contents /\ changes \in Nat
        /\ UNCHANGED <<started, stopped, file>> /\ d \in Handled
        /\ conf' = [conf EXCEPT ![d] = changes']
    BY HandlerAssumption DEF MacroChanged, Handled, DiskTypes, Contents
  <1>2. \A e \in Devices : conf'[e] = IF e = d THEN changes' ELSE conf[e]
    BY <1>1 DEF DiskTypes
  <1>3. PICK ok \in BOOLEAN, saved \in BOOLEAN, w \in WatchDescriptors :
           /\ Outcome(ok /\ saved) /\ InitializeDirectory(d, TRUE, ok, w)
           /\ Save(d, file[d], changes', saved)
    BY <1>2 DEF MacroChanged
  <1>4. directory' \in WatchDescriptors \cup {NoWatch} /\ live' \subseteq WatchDescriptors
    BY <1>3, DirectoryTypes
  <1>5. file[d] \in Names \cup {NoFile} /\ NoFile \notin Names
    BY DEF FileInv, FileTypes, Names, NoFile
  <1>6. /\ ignored' = ignored \cup {d}
        /\ events' \in Seq(EventSet)
        /\ \A e \in Unread' : (file[d] # NoFile /\ e.file = file[d]) \/ e \in Unread
        /\ disk' \in [Names -> Contents \cup {Absent, Garbage}]
        /\ \A m \in Names \ {file[d]} : disk'[m] = disk[m]
        /\ file[d] # NoFile => disk'[file[d]] \in {disk[file[d]], changes'}
    BY <1>1, <1>3, <1>4, <1>5, SaveStep
  <1>7. EventTypes' /\ DiskTypes'
    <2>1. failures' \in 0 .. MaxFailures
      BY <1>3, OutcomeType
    <2> QED
      BY <1>1, <1>4, <1>6, <2>1 DEF EventTypes, DiskTypes
  <1>8. \A e \in Handled' : Older(e)' => e \in ignored' \/ \A v \in Unread' : v.file # file'[e]
    <2>1. \A e \in Handled' \ {d} :
             /\ e \in Handled /\ file'[e] = file[e] /\ conf'[e] = conf[e]
             /\ e \in ignored => e \in ignored'
             /\ file[e] # NoFile => file[e] # file[d] /\ disk'[file[e]] = disk[file[e]]
      BY <1>1, <1>2, <1>6 DEF FileInv, FileTypes, OneFilePerDevice, Handled
    <2>2. \A v \in Unread' : v.file = file[d] \/ v \in Unread
      BY <1>6
    <2>3. FileTypes'
      BY DEF FileInv
    <2> QED
      BY <1>6, <2>1, <2>2, <2>3, OthersStayFresh
  <1>9. \A e \in Devices : conf'[e] <= changes'
    BY <1>1, <1>2, HandlerAssumption DEF FreshInv, DiskTypes, Contents
  <1>10. \A n \in Names : disk'[n] \in Contents => disk'[n] <= changes'
    <2>1. \A n \in Names : disk'[n] \in {disk[n], changes'}
      BY <1>5, <1>6
    <2> QED
      BY <1>1, <2>1, HandlerAssumption DEF FreshInv, Contents
  <1> QED
    BY <1>7, <1>8, <1>9, <1>10 DEF FreshInv

(* Another program writes a file: a newer change, or what does not parse. *)
LEMMA EditStep ==
  ASSUME HandlerInv, FileInv', NEW n \in Names, EditFile(n)
  PROVE  EventTypes' /\ DiskTypes' /\ FreshInv'
  <1> USE DEF HandlerInv
  <1>1. /\ changes' = changes + 1 /\ changes' \in Contents /\ changes \in Nat
        /\ UNCHANGED <<directory, live, started, stopped, file, conf, ignored, failures>>
    BY HandlerAssumption DEF EditFile, memVars, DiskTypes, Contents
  <1>2. PICK content \in {changes', Garbage} : disk' = [disk EXCEPT ![n] = content]
    BY DEF EditFile
  <1>3. /\ events' \in Seq(EventSet)
        /\ \A v \in Unread' : v.file = n \/ v \in Unread
    <2>1. events' = Written(directory, n) /\ directory \in WatchDescriptors \cup {NoWatch}
      BY DEF EditFile, EventTypes
    <2> QED
      BY <2>1, WrittenReads DEF Unread
  <1>4. EventTypes' /\ DiskTypes'
    BY <1>1, <1>2, <1>3 DEF EventTypes, DiskTypes
  <1>5. \A e \in Devices : conf'[e] <= changes'
    BY <1>1, HandlerAssumption DEF FreshInv, DiskTypes, Contents
  <1>6. \A m \in Names : disk'[m] = IF m = n THEN content ELSE disk[m]
    BY <1>2 DEF DiskTypes
  <1>7. Garbage \notin Contents
    BY HandlerAssumption DEF Contents
  <1>8. \A m \in Names : disk'[m] \in Contents => disk'[m] <= changes'
    BY <1>1, <1>6, <1>7, HandlerAssumption DEF FreshInv, Contents
  <1>9. ASSUME NEW e \in Handled', Older(e)', e \notin ignored', NEW v \in Unread'
        PROVE  v.file # file'[e]
    <2>1. e \in Handled /\ e \in Devices /\ file[e] \in Names
      BY <1>1, <1>9 DEF FileInv, FileTypes, Handled, Older
    <2>2. conf'[e] \in Nat /\ changes' \in Nat
      BY <1>1, <2>1, HandlerAssumption DEF DiskTypes, Contents
    <2>3. file[e] # n
      BY <1>1, <1>5, <1>6, <1>7, <1>9, <2>1, <2>2 DEF Older
    <2>4. Older(e) /\ e \notin ignored
      BY <1>1, <1>6, <1>9, <2>1, <2>3 DEF Older
    <2> QED
      BY <1>1, <1>3, <1>9, <2>1, <2>3, <2>4 DEF FreshInv
  <1> QED
    BY <1>4, <1>5, <1>8, <1>9 DEF FreshInv

(* The directory was moved or deleted: there is no file to load any more. *)
LEMMA GoneStep ==
  ASSUME HandlerInv, MoveDirectory \/ DeleteDirectory
  PROVE  EventTypes' /\ DiskTypes' /\ FreshInv'
  <1> USE DEF HandlerInv
  <1>1. PICK masks \in {<<"move_self">>, <<"delete_self", "ignored">>} : DirectoryGone(masks)
    BY DEF MoveDirectory, DeleteDirectory
  <1>2. Absent \notin Contents
    BY HandlerAssumption DEF Contents
  <1>3. /\ disk' = [m \in Names |-> Absent] /\ directory' = NoWatch
        /\ failures' = failures + 1 /\ failures < MaxFailures
        /\ UNCHANGED <<conf, ignored, changes>>
    BY <1>1 DEF DirectoryGone, memVars
  <1>4. events' \in Seq(EventSet)
    <2>1. CASE directory = NoWatch
      BY <1>1, <2>1 DEF DirectoryGone, EventTypes
    <2>2. CASE directory # NoWatch
      <3>1. \A i \in DOMAIN masks : Event(directory, masks[i], NoFile) \in EventSet
        BY <1>1, <2>2 DEF Event, EventSet, EventTypes
      <3>2. [i \in DOMAIN masks |-> Event(directory, masks[i], NoFile)] \in Seq(EventSet)
        BY <3>1
      <3> QED
        BY <1>1, <2>2, <3>2 DEF DirectoryGone, EventTypes
    <2> QED
      BY <2>1, <2>2
  <1>5. live' \subseteq live
    BY DEF MoveDirectory, DeleteDirectory
  <1>6. EventTypes' /\ DiskTypes'
    BY <1>3, <1>4, <1>5, HandlerAssumption DEF EventTypes, DiskTypes
  <1>7. \A d \in Devices : conf'[d] <= changes'
    BY <1>3 DEF FreshInv
  <1>8. UNCHANGED file /\ \A m \in Names : disk'[m] = Absent
    BY <1>1, <1>3 DEF DirectoryGone, memVars
  <1>9. \A d \in Devices : ~ Older(d)'
    BY <1>2, <1>8 DEF Older, FileInv, FileTypes
  <1>10. Handled' \subseteq Devices
    BY <1>1 DEF DirectoryGone, memVars, Handled, FileInv, FileTypes
  <1> QED
    BY <1>2, <1>6, <1>7, <1>8, <1>9, <1>10 DEF FreshInv

(* Everything unread is read; a file that is loaded is not older. *)
LEMMA CheckStep ==
  ASSUME HandlerInv, CheckNotifyEvents
  PROVE  /\ EventTypes' /\ DiskTypes' /\ FreshInv'
         /\ \A d \in Handled : conf'[d] >= conf[d]
  <1> USE DEF HandlerInv
  <1> DEFINE toReload == {d \in Handled : file[d] \in FilesRead({file[x] : x \in Handled})}
  <1>1. /\ events # <<>> /\ ReadNotifyEvents
        /\ ignored' = ignored \ toReload
        /\ conf' = [d \in Devices |->
                      IF d \in toReload \ ignored THEN Loaded(file[d], conf[d]) ELSE conf[d]]
        /\ UNCHANGED <<started, stopped, file, wd, disk, changes, failures>>
    BY DEF CheckNotifyEvents
  <1>2. \A d \in toReload : file[d] \in Names /\ d \in Handled /\ \A v \in Unread : v.file = file[d]
    BY DEF FilesRead, FileInv, FileTypes, Handled
  <1>3. Unread # {} /\ Unread' = {}
    BY <1>1 DEF ReadNotifyEvents, Unread, EventTypes
  <1>4. \A d \in toReload \ ignored : ~Older(d)
    BY <1>2, <1>3 DEF FreshInv
  <1> HIDE DEF toReload
  <1>5. ASSUME NEW d \in Devices
        PROVE  conf'[d] \in Contents /\ conf'[d] <= changes /\ conf'[d] >= conf[d]
    <2>1. conf[d] \in Contents /\ conf[d] <= changes /\ conf[d] \in Nat
      BY HandlerAssumption DEF DiskTypes, FreshInv, Contents
    <2>2. CASE d \in toReload \ ignored
      <3>1. conf'[d] = Loaded(file[d], conf[d]) /\ file[d] \in Names
        BY <1>1, <1>2, <2>2
      <3>2. conf'[d] \in Contents /\ conf'[d] <= changes
        BY <2>1, <3>1, LoadedType
      <3>3. disk[file[d]] \in Contents => ~(disk[file[d]] < conf[d])
        BY <1>4, <2>2, <3>1 DEF Older, NoFile, Names
      <3>4. \A c \in Contents : c \in Nat
        BY HandlerAssumption DEF Contents
      <3> QED
        BY <2>1, <3>1, <3>2, <3>3, <3>4 DEF Loaded
    <2> QED
      BY <1>1, <2>1, <2>2
  <1>6. conf' \in [Devices -> Contents]
    BY <1>1, <1>5
  <1>7. EventTypes'
    BY <1>1 DEF EventTypes, ReadNotifyEvents
  <1>8. DiskTypes'
    BY <1>1, <1>6 DEF DiskTypes
  <1>9. FreshInv'
    BY <1>1, <1>3, <1>5 DEF FreshInv
  <1> QED
    BY <1>5, <1>7, <1>8, <1>9 DEF FileInv, FileTypes, Handled

(* Devices that go leave events about the watch only. *)
LEMMA ForgetStep ==
  ASSUME HandlerInv, NEW devices \in SUBSET Devices, Forget(devices), AfterRemoval,
         UNCHANGED diskVars
  PROVE  EventTypes' /\ DiskTypes' /\ FreshInv'
  <1> USE DEF HandlerInv
  <1>1. EventTypes' /\ \A v \in Unread' : v.file = NoFile \/ v \in Unread
    BY RemovalReads
  <1>2. 0 \in Contents /\ 0 <= changes
    BY HandlerAssumption DEF DiskTypes, Contents
  <1>3. DiskTypes'
    BY <1>2 DEF DiskTypes, Forget, diskVars
  <1>4. \A e \in Handled' : e \in Handled /\ file'[e] = file[e] /\ conf'[e] = conf[e]
    BY DEF Forget, Handled, FileInv, FileTypes
  <1>5. \A e \in Devices : conf'[e] <= changes'
    BY <1>2 DEF Forget, FreshInv, diskVars
  <1> QED
    BY <1>1, <1>3, <1>4, <1>5 DEF FreshInv, Older, Forget, diskVars

LEMMA HandlerInvStep == ASSUME HandlerInv, [Next]_vars PROVE HandlerInv'
  <1>1. FileInv' /\ WatchInv'
    BY FileInvStep, WatchInvStep DEF HandlerInv
  <1> SUFFICES EventTypes' /\ DiskTypes' /\ FreshInv'
    BY <1>1 DEF HandlerInv
  <1>2. ASSUME UNCHANGED <<directory, live, events, file, conf, ignored, disk, changes, failures>>,
               Handled' = Handled
        PROVE  EventTypes' /\ DiskTypes' /\ FreshInv'
    <2>1. Unread' = Unread
      BY <1>2 DEF Unread
    <2> QED
      BY <1>2, <2>1 DEF HandlerInv, EventTypes, DiskTypes, FreshInv, Older
  <1>3. ASSUME NEW d \in Devices, StartDevice(d) \/ StopDevice(d)
        PROVE  EventTypes' /\ DiskTypes' /\ FreshInv'
    <2>1. Handled' = Handled \cup {d}
      BY <1>3 DEF StartDevice, StopDevice, Handled
    <2>2. CASE d \in Handled
      BY <1>2, <1>3, <2>1, <2>2 DEF StartDevice, StopDevice, Handled, watchVars, diskVars
    <2>3. CASE d \notin Handled
      <3>1. PICK ok \in BOOLEAN, saved \in BOOLEAN, w \in WatchDescriptors :
               SetDeviceProperties(d, ok, saved, w)
        BY <1>3, <2>3 DEF StartDevice, StopDevice, Handled
      <3> QED
        BY <1>1, <2>1, <2>3, <3>1, PropertiesStep
    <2> QED
      BY <2>2, <2>3
  <1>4. CASE ClearDevices \/ \E d \in Devices : UnplugDevice(d)
    <2>1. Handled \in SUBSET Devices
      BY DEF HandlerInv, FileInv, FileTypes, Handled
    <2>2. \E devices \in SUBSET Devices : Forget(devices) /\ AfterRemoval /\ UNCHANGED diskVars
      BY <1>4, <2>1 DEF ClearDevices, UnplugDevice
    <2>3. PICK devices \in SUBSET Devices : Forget(devices) /\ AfterRemoval /\ UNCHANGED diskVars
      BY <2>2
    <2> QED
      BY <2>3, ForgetStep
  <1>5. CASE UNCHANGED vars
    <2>1. UNCHANGED <<directory, live, events, file, conf, ignored, disk, changes, failures>>
      BY <1>5 DEF vars, watchVars, memVars, diskVars
    <2>2. Handled' = Handled
      BY <1>5 DEF vars, memVars, Handled
    <2> QED
      BY <1>2, <2>1, <2>2
  <1>6. CASE \E d \in Devices : MacroChanged(d)
    <2>1. PICK d \in Devices : MacroChanged(d)
      BY <1>6
    <2> QED
      BY <1>1, <2>1, MacroStep
  <1>7. CASE \E n \in Names : EditFile(n)
    <2>1. PICK n \in Names : EditFile(n)
      BY <1>7
    <2> QED
      BY <1>1, <2>1, EditStep
  <1>8. CASE MoveDirectory \/ DeleteDirectory
    BY <1>8, GoneStep
  <1>9. CASE CheckNotifyEvents
    BY <1>9, CheckStep
  <1> QED
    BY <1>3, <1>4, <1>5, <1>6, <1>7, <1>8, <1>9 DEF Next

LEMMA HandlerInvariant == Spec => []HandlerInv
  <1>1. HandlerInv /\ [Next]_vars => HandlerInv'
    BY HandlerInvStep
  <1> QED
    BY HandlerInvInit, <1>1, PTL DEF Spec

(* Watches, events, files and configurations keep their types.             *)
THEOREM HandlerTypes == Spec => []TypeOK
  <1>1. HandlerInv => TypeOK
    BY DEF HandlerInv, FileInv, WatchInv, WatchTypes, FileTypes, EventTypes, DiskTypes, TypeOK
  <1> QED
    BY <1>1, HandlerInvariant, PTL

(* No notification takes a device back to an older configuration.          *)
THEOREM NoChangeIsReverted == Spec => ConfigurationIsNotReverted
  <1>1. ASSUME HandlerInv, [Next]_vars, NEW d \in Handled \cap Handled'
        PROVE  conf'[d] >= conf[d]
    <2>1. d \in Devices /\ conf[d] \in Nat /\ conf[d] <= changes /\ changes \in Nat
      BY <1>1, HandlerAssumption
         DEF HandlerInv, FileInv, FileTypes, Handled, DiskTypes, FreshInv, Contents
    <2>2. CASE conf'[d] = conf[d]
      BY <2>1, <2>2
    <2>3. CASE \E e \in Devices : StartDevice(e) \/ StopDevice(e)
      <3> PICK e \in Devices : StartDevice(e) \/ StopDevice(e)
        BY <2>3
      <3>1. UNCHANGED conf \/ (e # d /\ \E c : conf' = [conf EXCEPT ![e] = c])
        BY <1>1 DEF StartDevice, StopDevice, Handled, SetDeviceProperties
      <3> QED
        BY <1>1, <2>1, <2>2, <3>1 DEF HandlerInv, DiskTypes
    <2>4. CASE \E e \in Devices : MacroChanged(e)
      <3>1. conf'[d] \in {conf[d], changes + 1}
        BY <1>1, <2>1, <2>4 DEF MacroChanged, HandlerInv, DiskTypes
      <3> QED
        BY <2>1, <3>1
    <2>5. CASE ClearDevices \/ \E e \in Devices : UnplugDevice(e)
      BY <1>1, <2>1, <2>2, <2>5 DEF ClearDevices, UnplugDevice, Forget, Handled
    <2>6. CASE CheckNotifyEvents
      BY <1>1, <2>6, CheckStep
    <2>7. CASE \/ MoveDirectory \/ DeleteDirectory \/ UNCHANGED vars
               \/ \E n \in Names : EditFile(n)
      BY <2>2, <2>7 DEF MoveDirectory, DeleteDirectory, DirectoryGone, EditFile, vars, memVars
    <2> QED
      BY <1>1, <2>3, <2>4, <2>5, <2>6, <2>7 DEF Next
  <1>2. HandlerInv /\ [Next]_vars => [\A d \in Handled \cap Handled' : conf'[d] >= conf[d]]_vars
    BY <1>1
  <1> QED
    BY <1>2, HandlerInvariant, PTL DEF Spec, ConfigurationIsNotReverted
=============================================================================
