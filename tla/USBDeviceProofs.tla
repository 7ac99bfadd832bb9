--------------------------- MODULE USBDeviceProofs ---------------------------
(***************************************************************************)
(* Proofs, for any device, any number of starts and any failures, that the *)
(* daemon gives a keyboard back as it found it, uses only what it has      *)
(* claimed in order, and has no thread left on a device that is closed.    *)
(***************************************************************************)
EXTENDS USBDevice, TLAPS

(* Where the main thread is when it opens the device, and until when it    *)
(* has claimed nothing.                                                    *)
Finding == {"open", "configuration", "detach", "reattach", "find", "detachOne", "claim"}
Opening == Finding \cup {"check", "initialize", "listen"}
Closing == {"join", "release", "attach", "close"}

KernelTypes ==
    /\ plugged \in BOOLEAN /\ failures \in Nat /\ setting \in Settings
    /\ active \in DOMAIN InterfacesOf
    /\ bound \subseteq InterfacesOf[active] /\ claimed \subseteq {Interface}

MainTypes ==
    /\ started \in BOOLEAN /\ daemonRunning \in BOOLEAN
    /\ pc \in {"idle"} \cup Opening \cup Closing
    /\ after \in {"keep", "erase"}
    /\ todo \subseteq Interfaces
    /\ opens \in 0 .. MaxOpens /\ entry \in 0 .. opens

MemberTypes ==
    /\ handle \in BOOLEAN /\ requests \in BOOLEAN /\ threadsStatus \in BOOLEAN
    /\ spoiled \in BOOLEAN /\ overtaken \in BOOLEAN
    /\ toRelease \subseteq {Interface} /\ toAttach \subseteq Interfaces
    /\ endpoints \subseteq {"keys", "LCD"}
    /\ fatalErrors \in 0 .. MaxErrors + 1

ThreadTypes ==
    /\ state \in [Thread -> {"none", "spawned", "running"}]
    /\ ref \in [Thread -> Nat]
    /\ threadID \in [Kinds -> {None} \cup Thread]
    /\ \A k \in Kinds : threadID[k] \in {None} \cup ({k} \X (1 .. MaxOpens))

Types == KernelTypes /\ MainTypes /\ MemberTypes /\ ThreadTypes

(* What the place of the main thread says of the entry and the handle.     *)
PhaseInv ==
    /\ pc \in Opening => ~started
    /\ handle <=> pc \in (Opening \ {"open"}) \cup Closing \/ (pc = "idle" /\ started)
    /\ pc # "idle" \/ started => entry # 0 /\ opens # 0
    /\ ~requests => /\ spoiled
                    /\ pc = "join" \/ (pc \in Closing /\ after = "erase")

(* Threads are of the last start and known to joinDeviceThreads(), as long *)
(* as no close has overtaken the start of one.                             *)
ThreadInv ==
    ~overtaken =>
        \A t \in Thread : state[t] # "none" =>
            /\ t[2] = opens
            /\ pc \in {"listen", "join"} \/ (pc = "idle" /\ started)
            /\ state[t] = "running" => ref[t] = entry /\ threadID[t[1]] = t

(* What is claimed is to be released, and was claimed in order.            *)
HasClaim == pc \in {"initialize", "listen"} \/ (pc = "idle" /\ started)

ClaimInv ==
    /\ pc \in Finding \/ (pc = "idle" /\ ~started) => claimed = {} /\ toRelease = {}
    /\ pc = "attach" \/ (pc = "close" /\ requests) => toRelease = {}
    /\ pc \in {"open", "configuration", "find"} => toAttach = {}
    /\ HasClaim /\ toRelease = {} => toAttach = {}
    /\ (pc = "check" \/ HasClaim) /\ plugged => claimed = toRelease
    /\ pc = "check" => toRelease = {Interface}
    /\ claimed \subseteq toRelease \/ spoiled
    /\ pc = "claim" => Interface \notin bound
    /\ (pc = "check" \/ HasClaim) /\ claimed # {} => claimed = toRelease /\ Interface \notin bound
    /\ HasClaim /\ claimed # {} => active = Configuration /\ endpoints = {"keys", "LCD"}

(* While the device is open, what was detached is to be attached again.    *)
BackInv ==
    /\ pc = "open" \/ (pc = "idle" /\ ~started) \/ (pc = "close" /\ requests) => toAttach = {}
    /\ plugged /\ ~spoiled =>
          found = IF handle THEN bound \cup (toAttach \cap InterfacesOf[active]) ELSE bound

-----------------------------------------------------------------------------
(* What the spawning of a thread does to the main thread's place. *)
LEMMA Spawning ==
    ASSUME SpawnThreads
    PROVE  \E k \in Kinds :
              /\ \/ k = "LCD" /\ pc = "initialize" /\ pc' \in {"listen", "join"} /\ started' = started
                 \/ k = "listening" /\ pc = "listen" /\ pc' = "idle" /\ started'
                 \/ k = "listening" /\ pc = "listen" /\ pc' = "join" /\ ~started'
              /\ IF pc' = "join" THEN state' = state
                 ELSE state' = [state EXCEPT ![<<k, opens>>] = "spawned"]
  <1>1. CASE pc = "initialize" /\ Spawn("LCD", "listen") /\ UNCHANGED started
    BY <1>1 DEF Spawn, Kinds, Goto
  <1>2. CASE pc = "listen" /\ Spawn("listening", "idle") /\ started' = (pc' = "idle")
    BY <1>2 DEF Spawn, Kinds, Goto
  <1> QED
    BY <1>1, <1>2 DEF SpawnThreads

LEMMA PhaseStep == ASSUME Types, PhaseInv, [Next]_vars PROVE PhaseInv'
  <1> USE DEF PhaseInv, kernelVars, mainVars, interfaceVars, threadVars, history, CallSucceeds, CallFails,
             Abandon, CloseUSBDevice, Goto, Finding, Opening, Closing
  <1>1. CASE StartDevice
    BY <1>1, BoundsAssumption DEF StartDevice, Types, MainTypes
  <1>2. CASE Open
    BY <1>2 DEF Open
  <1>3. CASE GetConfiguration
    BY <1>3 DEF GetConfiguration
  <1>4. CASE Detach
    BY <1>4 DEF Detach, DetachKernelDriver
  <1>5. CASE SetConfiguration
    BY <1>5 DEF SetConfiguration
  <1>6. CASE Reattach
    BY <1>6 DEF Reattach, AttachKernelDrivers, AttachOne
  <1>7. CASE FindInterface
    BY <1>7 DEF FindInterface
  <1>8. CASE DetachOne
    BY <1>8 DEF DetachOne, DetachKernelDriver
  <1>9. CASE ClaimInterface
    BY <1>9 DEF ClaimInterface
  <1>10. CASE FindEndpoints
    BY <1>10 DEF FindEndpoints, EndpointsOf
  <1>11. CASE SpawnThreads
    <2>1. UNCHANGED <<handle, entry, opens, requests, spoiled>>
      BY <1>11 DEF SpawnThreads
    <2>2. \/ pc = "initialize" /\ pc' \in {"listen", "join"} /\ started' = started
          \/ pc = "listen" /\ pc' = "idle" /\ started'
          \/ pc = "listen" /\ pc' = "join" /\ ~started'
      BY <1>11, Spawning
    <2>3. CASE pc = "initialize"
      BY <2>1, <2>2, <2>3
    <2>4. CASE pc = "listen"
      BY <2>1, <2>2, <2>4
    <2> QED
      BY <2>2, <2>3, <2>4
  <1>12. CASE JoinThreads
    BY <1>12 DEF JoinThreads
  <1>13. CASE Release
    BY <1>13 DEF Release
  <1>14. CASE Attach
    BY <1>14 DEF Attach, AttachKernelDrivers, AttachOne
  <1>15. CASE Close
    BY <1>15 DEF Close, NewMembers
  <1>16. CASE StopDevice \/ StopAtExit \/ StopDead \/ StopUnplugged
    BY <1>16 DEF StopDevice, StopAtExit, StopDead, StopUnplugged, CloseDevice
  <1>17. CASE \E t \in Thread : Loop(t)
    BY <1>17 DEF Loop, EnterLoop, GiveUp, LeaveLoop, TransferFails, InLoop
  <1>18. CASE Unplug \/ ExitDaemon
    BY <1>18 DEF Unplug, ExitDaemon
  <1>19. CASE UNCHANGED vars
    BY <1>19 DEF vars
  <1> QED
    BY <1>1, <1>2, <1>3, <1>4, <1>5, <1>6, <1>7, <1>8, <1>9, <1>10, <1>11, <1>12, <1>13, <1>14, <1>15, <1>16, <1>17, <1>18, <1>19 DEF Next, Call

LEMMA ThreadStep == ASSUME Types, PhaseInv, ThreadInv, [Next]_vars PROVE ThreadInv'
  <1> USE DEF ThreadInv, PhaseInv, kernelVars, mainVars, interfaceVars, threadVars, history, CallSucceeds, CallFails,
             Abandon, CloseUSBDevice, Goto, Finding, Opening, Closing
  <1>1. CASE StartDevice
    BY <1>1 DEF StartDevice, Goto
  <1>2. CASE Open
    BY <1>2 DEF Open
  <1>3. CASE GetConfiguration
    BY <1>3 DEF GetConfiguration
  <1>4. CASE Detach
    BY <1>4 DEF Detach, DetachKernelDriver
  <1>5. CASE SetConfiguration
    BY <1>5 DEF SetConfiguration
  <1>6. CASE Reattach
    BY <1>6 DEF Reattach, AttachKernelDrivers, AttachOne
  <1>7. CASE FindInterface
    BY <1>7 DEF FindInterface
  <1>8. CASE DetachOne
    BY <1>8 DEF DetachOne, DetachKernelDriver
  <1>9. CASE ClaimInterface
    BY <1>9 DEF ClaimInterface
  <1>10. CASE FindEndpoints
    BY <1>10 DEF FindEndpoints, EndpointsOf
  <1>11. CASE SpawnThreads
    <2>1. UNCHANGED <<entry, opens, ref, threadID, overtaken>>
      BY <1>11 DEF SpawnThreads
    <2>2. PICK k \in Kinds :
             /\ pc \in {"initialize", "listen"} /\ (pc' \in {"listen", "join"} \/ (pc' = "idle" /\ started'))
             /\ \/ state' = state /\ pc' = "join"
                \/ state' = [state EXCEPT ![<<k, opens>>] = "spawned"]
      BY <1>11, Spawning
    <2>3. \A t \in Thread : state'[t] # "none" =>
             state'[t] = state[t] \/ (t = <<k, opens>> /\ state'[t] = "spawned")
      BY <2>2 DEF Types, ThreadTypes
    <2>4. <<k, opens>>[2] = opens
      OBVIOUS
    <2> QED
      BY <2>1, <2>2, <2>3, <2>4
  <1>12. CASE JoinThreads
    <2>1. CASE overtaken'
      BY <2>1
    <2>2. CASE ~overtaken'
      <3>1. \A t \in Thread : state[t] # "spawned" /\ (state[t] = "running" => threadID[t[1]] = t)
        BY <1>12, <2>2 DEF JoinThreads, Types, ThreadTypes
      <3>2. ASSUME NEW t \in Thread PROVE state[t] = "none"
        <4>1. t[1] \in Kinds /\ t # None
          BY DEF Thread, Kinds, None
        <4> QED
          BY <1>12, <3>1, <4>1 DEF JoinThreads, Ended, Types, ThreadTypes
      <3> QED
        BY <1>12, <3>2 DEF JoinThreads
    <2> QED
      BY <2>1, <2>2 DEF Types, ThreadTypes
  <1>13. CASE Release
    BY <1>13 DEF Release
  <1>14. CASE Attach
    BY <1>14 DEF Attach, AttachKernelDrivers, AttachOne
  <1>15. CASE Close
    BY <1>15 DEF Close, NewMembers
  <1>16. CASE StopDevice \/ StopAtExit \/ StopDead \/ StopUnplugged
    BY <1>16 DEF StopDevice, StopAtExit, StopDead, StopUnplugged, CloseDevice
  <1>17. CASE \E t \in Thread : Loop(t)
    <2> PICK t \in Thread : Loop(t)
      BY <1>17
    <2>1. CASE EnterLoop(t)
      <3>1. UNCHANGED <<pc, opens, started, entry, overtaken>>
        BY <2>1 DEF EnterLoop
      <3>2. CASE entry = 0
        BY <2>1, <3>1, <3>2 DEF EnterLoop, Types, ThreadTypes
      <3>3. CASE entry # 0
        <4>1. /\ state' = [state EXCEPT ![t] = "running"]
              /\ ref' = [ref EXCEPT ![t] = entry]
              /\ threadID' = [threadID EXCEPT ![t[1]] = t]
              /\ state[t] # "none"
          BY <2>1, <3>3 DEF EnterLoop
        <4>2. t[1] \in Kinds
          BY DEF Thread
        <4>3. ref'[t] = entry /\ threadID'[t[1]] = t
          BY <4>1, <4>2 DEF Types, ThreadTypes
        <4>4. ASSUME NEW u \in Thread, u # t
              PROVE  /\ state'[u] = state[u] /\ ref'[u] = ref[u]
                     /\ u[2] = t[2] => threadID'[u[1]] = threadID[u[1]]
          <5>1. u[1] \in Kinds /\ (u[2] = t[2] => u[1] # t[1])
            BY <4>4 DEF Thread
          <5> QED
            BY <4>1, <4>4, <5>1 DEF Types, ThreadTypes
        <4> QED
          BY <3>1, <4>1, <4>3, <4>4
      <3> QED
        BY <3>2, <3>3
    <2>2. CASE GiveUp(t) \/ TransferFails(t)
      BY <2>2 DEF GiveUp, TransferFails
    <2>3. CASE LeaveLoop(t)
      <3>1. UNCHANGED <<pc, opens, started, entry, overtaken, threadID>>
        BY <2>3 DEF LeaveLoop
      <3>2. \A u \in Thread : state'[u] # "none" => u # t /\ state'[u] = state[u] /\ ref'[u] = ref[u]
        BY <2>3 DEF LeaveLoop, Types, ThreadTypes
      <3> QED
        BY <3>1, <3>2
    <2> QED
      BY <2>1, <2>2, <2>3 DEF Loop
  <1>18. CASE Unplug \/ ExitDaemon
    BY <1>18 DEF Unplug, ExitDaemon
  <1>19. CASE UNCHANGED vars
    BY <1>19 DEF vars
  <1> QED
    BY <1>1, <1>2, <1>3, <1>4, <1>5, <1>6, <1>7, <1>8, <1>9, <1>10, <1>11, <1>12, <1>13, <1>14, <1>15, <1>16, <1>17, <1>18, <1>19 DEF Next, Call

LEMMA ClaimStep ==
    ASSUME Types, PhaseInv, ClaimInv, BackInv, [Next]_vars PROVE ClaimInv'
  <1> USE DEF ClaimInv, HasClaim, PhaseInv, kernelVars, mainVars, interfaceVars, threadVars, history, CallSucceeds, CallFails,
             Abandon, CloseUSBDevice, Goto, Finding, Opening, Closing
  <1>1. CASE StartDevice
    BY <1>1 DEF StartDevice, Goto, BackInv
  <1>2. CASE Open
    BY <1>2 DEF Open
  <1>3. CASE GetConfiguration
    BY <1>3 DEF GetConfiguration
  <1>4. CASE Detach
    BY <1>4 DEF Detach, DetachKernelDriver
  <1>5. CASE SetConfiguration
    BY <1>5 DEF SetConfiguration
  <1>6. CASE Reattach
    BY <1>6 DEF Reattach, AttachKernelDrivers, AttachOne
  <1>7. CASE FindInterface
    BY <1>7 DEF FindInterface
  <1>8. CASE DetachOne
    BY <1>8 DEF DetachOne, DetachKernelDriver
  <1>9. CASE ClaimInterface
    BY <1>9 DEF ClaimInterface
  <1>10. CASE FindEndpoints
    BY <1>10 DEF FindEndpoints, EndpointsOf
  <1>11. CASE SpawnThreads
    BY <1>11 DEF SpawnThreads, Spawn, Kinds
  <1>12. CASE JoinThreads
    BY <1>12 DEF JoinThreads
  <1>13. CASE Release
    BY <1>13 DEF Release
  <1>14. CASE Attach
    BY <1>14 DEF Attach, AttachKernelDrivers, AttachOne
  <1>15. CASE Close
    BY <1>15 DEF Close, NewMembers
  <1>16. CASE StopDevice \/ StopAtExit \/ StopDead \/ StopUnplugged
    BY <1>16 DEF StopDevice, StopAtExit, StopDead, StopUnplugged, CloseDevice
  <1>17. CASE \E t \in Thread : Loop(t)
    BY <1>17 DEF Loop, EnterLoop, GiveUp, LeaveLoop, TransferFails, InLoop
  <1>18. CASE Unplug \/ ExitDaemon
    BY <1>18 DEF Unplug, ExitDaemon
  <1>19. CASE UNCHANGED vars
    BY <1>19 DEF vars
  <1> QED
    BY <1>1, <1>2, <1>3, <1>4, <1>5, <1>6, <1>7, <1>8, <1>9, <1>10, <1>11, <1>12, <1>13, <1>14, <1>15, <1>16, <1>17, <1>18, <1>19 DEF Next, Call

(* One interface after the other is attached again, as long as none of    *)
(* them is claimed.                                                        *)
LEMMA AttachingKeeps ==
    ASSUME Types, NEW i \in toAttach, AttachOne(i), claimed = {} \/ spoiled, UNCHANGED active
    PROVE  spoiled' \/ (bound \cup (toAttach \cap InterfacesOf[active]))'
                         = bound \cup (toAttach \cap InterfacesOf[active])
  <1>1. bound \subseteq InterfacesOf[active] /\ InterfacesOf[active]' = InterfacesOf[active]
    BY DEF Types, KernelTypes
  <1>2. CASE bound' = bound \cup ({i} \cap InterfacesOf[active])
    BY <1>1, <1>2 DEF AttachOne
  <1>3. CASE plugged /\ i \in bound \cup claimed /\ UNCHANGED <<failures, bound, spoiled>>
    BY <1>1, <1>3 DEF AttachOne
  <1> QED
    BY <1>2, <1>3 DEF AttachOne

LEMMA BackStep == ASSUME Types, PhaseInv, ClaimInv, BackInv, [Next]_vars PROVE BackInv'
  <1> USE DEF BackInv, PhaseInv, kernelVars, mainVars, interfaceVars, threadVars, history, CallSucceeds, CallFails,
             Abandon, CloseUSBDevice, Goto, Finding, Opening, Closing
  <1>1. CASE StartDevice
    BY <1>1 DEF StartDevice, Goto
  <1>2. CASE Open
    BY <1>2 DEF Open
  <1>3. CASE GetConfiguration
    BY <1>3 DEF GetConfiguration
  <1>4. CASE Detach
    <2>1. UNCHANGED <<plugged, active, handle, spoiled, found, requests, started>> /\ pc' # "open" /\ pc' # "idle"
      BY <1>4 DEF Detach
    <2>2. UNCHANGED <<bound, toAttach>> \/ \E i \in Interfaces : DetachKernelDriver(i)
      BY <1>4 DEF Detach, Types, MainTypes
    <2>3. bound \subseteq InterfacesOf[active]
      BY DEF Types, KernelTypes, MainTypes, MemberTypes
    <2>4. (bound \cup (toAttach \cap InterfacesOf[active]))'
             = bound \cup (toAttach \cap InterfacesOf[active])
      BY <2>1, <2>2, <2>3 DEF DetachKernelDriver
    <2>5. handle /\ pc' # "close"
      BY <1>4 DEF Detach
    <2> QED
      BY <2>1, <2>4, <2>5
  <1>5. CASE SetConfiguration
    BY <1>5 DEF SetConfiguration
  <1>6. CASE Reattach
    <2>1. claimed = {}
      BY <1>6 DEF Reattach, ClaimInv
    <2>2. UNCHANGED <<plugged, active, handle, found, requests, started>> /\ handle /\ (pc' = "close" => toAttach = {})
          /\ pc' # "open" /\ pc' # "idle"
      BY <1>6 DEF Reattach, AttachKernelDrivers
    <2>3. CASE \E i \in toAttach : AttachOne(i) /\ UNCHANGED pc
      <3>1. pc' # "close" /\ (spoiled => spoiled')
        BY <1>6, <2>3 DEF Reattach, AttachOne
      <3> QED
        BY <2>1, <2>2, <2>3, <3>1, AttachingKeeps
    <2>4. CASE toAttach = {} /\ UNCHANGED <<failures, bound, toAttach, spoiled>>
      BY <2>2, <2>4
    <2> QED
      BY <1>6, <2>3, <2>4 DEF Reattach, AttachKernelDrivers
  <1>7. CASE FindInterface
    BY <1>7 DEF FindInterface
  <1>8. CASE DetachOne
    <2>1. UNCHANGED <<plugged, active, handle, spoiled, found, requests, started>> /\ pc' # "open" /\ pc' # "idle"
      BY <1>8 DEF DetachOne
    <2>2. UNCHANGED <<bound, toAttach>> \/ DetachKernelDriver(Interface)
      BY <1>8 DEF DetachOne
    <2>3. bound \subseteq InterfacesOf[active]
      BY DEF Types, KernelTypes
    <2>4. (bound \cup (toAttach \cap InterfacesOf[active]))'
             = bound \cup (toAttach \cap InterfacesOf[active])
      BY <2>1, <2>2, <2>3 DEF DetachKernelDriver
    <2>5. handle /\ pc' # "close"
      BY <1>8 DEF DetachOne
    <2> QED
      BY <2>1, <2>4, <2>5
  <1>9. CASE ClaimInterface
    BY <1>9 DEF ClaimInterface
  <1>10. CASE FindEndpoints
    BY <1>10 DEF FindEndpoints, EndpointsOf
  <1>11. CASE SpawnThreads
    BY <1>11 DEF SpawnThreads, Spawn, Kinds
  <1>12. CASE JoinThreads
    BY <1>12 DEF JoinThreads
  <1>13. CASE Release
    BY <1>13 DEF Release
  <1>14. CASE Attach
    <2>1. claimed = {} \/ spoiled
      BY <1>14 DEF Attach, ClaimInv
    <2>2. UNCHANGED <<plugged, active, handle, found, requests, started>> /\ handle /\ (pc' = "close" => toAttach = {})
          /\ pc' # "open" /\ pc' # "idle"
      BY <1>14 DEF Attach, AttachKernelDrivers
    <2>3. CASE \E i \in toAttach : AttachOne(i) /\ UNCHANGED pc
      <3>1. pc' # "close" /\ (spoiled => spoiled')
        BY <1>14, <2>3 DEF Attach, AttachOne
      <3> QED
        BY <2>1, <2>2, <2>3, <3>1, AttachingKeeps
    <2>4. CASE toAttach = {} /\ UNCHANGED <<failures, bound, toAttach, spoiled>>
      BY <2>2, <2>4
    <2> QED
      BY <1>14, <2>3, <2>4 DEF Attach, AttachKernelDrivers
  <1>15. CASE Close
    BY <1>15 DEF Close, NewMembers
  <1>16. CASE StopDevice \/ StopAtExit \/ StopDead \/ StopUnplugged
    <2> PICK skip \in BOOLEAN : CloseDevice(skip)
      BY <1>16 DEF StopDevice, StopAtExit, StopDead, StopUnplugged
    <2>1. pc' = "join" /\ handle /\ (spoiled' \/ ~spoiled)
      BY DEF CloseDevice
    <2>2. UNCHANGED <<plugged, bound, toAttach, active, found, handle>> /\ (~spoiled' => ~spoiled)
      BY DEF CloseDevice
    <2> QED
      BY <2>1, <2>2
  <1>17. CASE \E t \in Thread : Loop(t)
    BY <1>17 DEF Loop, EnterLoop, GiveUp, LeaveLoop, TransferFails, InLoop
  <1>18. CASE Unplug \/ ExitDaemon
    BY <1>18 DEF Unplug, ExitDaemon
  <1>19. CASE UNCHANGED vars
    BY <1>19 DEF vars
  <1> QED
    BY <1>1, <1>2, <1>3, <1>4, <1>5, <1>6, <1>7, <1>8, <1>9, <1>10, <1>11, <1>12, <1>13, <1>14, <1>15, <1>16, <1>17, <1>18, <1>19 DEF Next, Call

LEMMA KernelTypesStep == ASSUME Types, [Next]_vars PROVE KernelTypes'
  <1> USE DEF Types, KernelTypes, kernelVars, mainVars, interfaceVars, threadVars, history,
             CallSucceeds, CallFails
  <1>1. CASE StartDevice \/ JoinThreads \/ Close \/ ExitDaemon
    BY <1>1 DEF StartDevice, Goto, JoinThreads, Close, NewMembers, ExitDaemon
  <1>2. CASE StopDevice \/ StopAtExit \/ StopDead \/ StopUnplugged
    BY <1>2 DEF StopDevice, StopAtExit, StopDead, StopUnplugged, CloseDevice
  <1>3. CASE Open
    BY <1>3 DEF Open
  <1>4. CASE GetConfiguration
    BY <1>4 DEF GetConfiguration
  <1>5. CASE Detach
    BY <1>5 DEF Detach, DetachKernelDriver
  <1>6. CASE SetConfiguration
    BY <1>6, InterfaceAssumption DEF SetConfiguration
  <1>7. CASE Reattach
    BY <1>7 DEF Reattach, AttachKernelDrivers, AttachOne
  <1>8. CASE Attach
    BY <1>8 DEF Attach, AttachKernelDrivers, AttachOne
  <1>9. CASE FindInterface
    BY <1>9 DEF FindInterface
  <1>10. CASE DetachOne
    BY <1>10 DEF DetachOne, DetachKernelDriver
  <1>11. CASE ClaimInterface
    BY <1>11 DEF ClaimInterface
  <1>12. CASE FindEndpoints
    BY <1>12 DEF FindEndpoints, EndpointsOf
  <1>13. CASE SpawnThreads
    BY <1>13 DEF SpawnThreads, Spawn, Kinds
  <1>14. CASE Release
    BY <1>14 DEF Release
  <1>15. CASE \E t \in Thread : Loop(t)
    BY <1>15 DEF Loop, EnterLoop, GiveUp, LeaveLoop, TransferFails, InLoop
  <1>16. CASE Unplug
    BY <1>16 DEF Unplug
  <1>17. CASE UNCHANGED vars
    BY <1>17 DEF vars
  <1> QED
    BY <1>1, <1>2, <1>3, <1>4, <1>5, <1>6, <1>7, <1>8, <1>9, <1>10, <1>11, <1>12, <1>13, <1>14, <1>15, <1>16, <1>17 DEF Next, Call

LEMMA MainTypesStep == ASSUME Types, PhaseInv, [Next]_vars PROVE MainTypes'
  <1> USE DEF Types, MainTypes, kernelVars, mainVars, interfaceVars, threadVars, history, CallSucceeds, CallFails,
             Abandon, CloseUSBDevice, Goto, Finding, Opening, Closing
  <1>1. CASE StartDevice
    BY <1>1, BoundsAssumption DEF StartDevice
  <1>2. CASE Open
    BY <1>2 DEF Open
  <1>3. CASE GetConfiguration
    <2>1. todo' \subseteq Interfaces
      BY <1>3 DEF GetConfiguration, Interfaces
    <2> QED
      BY <1>3, <2>1 DEF GetConfiguration
  <1>4. CASE Detach
    BY <1>4 DEF Detach, DetachKernelDriver
  <1>5. CASE SetConfiguration
    BY <1>5 DEF SetConfiguration
  <1>6. CASE Reattach
    BY <1>6 DEF Reattach, AttachKernelDrivers, AttachOne
  <1>7. CASE FindInterface
    BY <1>7 DEF FindInterface
  <1>8. CASE DetachOne
    BY <1>8 DEF DetachOne, DetachKernelDriver
  <1>9. CASE ClaimInterface
    BY <1>9 DEF ClaimInterface
  <1>10. CASE FindEndpoints
    BY <1>10 DEF FindEndpoints, EndpointsOf
  <1>11. CASE SpawnThreads
    BY <1>11 DEF SpawnThreads, Spawn, Kinds
  <1>12. CASE JoinThreads
    BY <1>12 DEF JoinThreads
  <1>13. CASE Release
    BY <1>13 DEF Release
  <1>14. CASE Attach
    BY <1>14 DEF Attach, AttachKernelDrivers, AttachOne
  <1>15. CASE Close
    <2>1. entry' \in {0, entry} /\ UNCHANGED <<opens, daemonRunning>>
          /\ after' = "keep" /\ pc' = "idle" /\ todo' = {} /\ started' = FALSE
      BY <1>15 DEF Close
    <2>2. entry' \in 0 .. opens'
      BY <2>1, BoundsAssumption
    <2> QED
      BY <2>1, <2>2
  <1>16. CASE StopDevice \/ StopAtExit \/ StopDead \/ StopUnplugged
    BY <1>16 DEF StopDevice, StopAtExit, StopDead, StopUnplugged, CloseDevice
  <1>17. CASE \E t \in Thread : Loop(t)
    BY <1>17 DEF Loop, EnterLoop, GiveUp, LeaveLoop, TransferFails, InLoop
  <1>18. CASE Unplug \/ ExitDaemon
    BY <1>18 DEF Unplug, ExitDaemon
  <1>19. CASE UNCHANGED vars
    BY <1>19 DEF vars
  <1> QED
    BY <1>1, <1>2, <1>3, <1>4, <1>5, <1>6, <1>7, <1>8, <1>9, <1>10, <1>11, <1>12, <1>13, <1>14, <1>15, <1>16, <1>17, <1>18, <1>19 DEF Next, Call

LEMMA MemberTypesStep == ASSUME Types, [Next]_vars PROVE MemberTypes'
  <1> USE DEF Types, MemberTypes, kernelVars, mainVars, interfaceVars, threadVars, history
  <1>1. CASE StartDevice \/ GetConfiguration \/ SetConfiguration \/ FindInterface \/ Unplug \/ ExitDaemon
    BY <1>1 DEF StartDevice, Goto, GetConfiguration, SetConfiguration, FindInterface, Unplug, ExitDaemon
  <1>2. CASE Open
    BY <1>2 DEF Open
  <1>3. CASE Detach
    <2>1. toAttach' \subseteq Interfaces
      BY <1>3 DEF Detach, DetachKernelDriver, MainTypes
    <2> QED
      BY <1>3, <2>1 DEF Detach
  <1>4. CASE Reattach
    BY <1>4 DEF Reattach, AttachKernelDrivers, AttachOne
  <1>5. CASE Attach
    BY <1>5 DEF Attach, AttachKernelDrivers, AttachOne
  <1>6. CASE DetachOne
    <2>1. Interface \in Interfaces
      BY InterfaceAssumption DEF Interfaces
    <2>2. toAttach' \subseteq Interfaces
      BY <1>6, <2>1 DEF DetachOne, DetachKernelDriver
    <2> QED
      BY <1>6, <2>2 DEF DetachOne
  <1>7. CASE ClaimInterface
    BY <1>7 DEF ClaimInterface
  <1>8. CASE FindEndpoints
    BY <1>8 DEF FindEndpoints, EndpointsOf
  <1>9. CASE SpawnThreads
    BY <1>9 DEF SpawnThreads, Spawn, Kinds
  <1>10. CASE JoinThreads
    BY <1>10 DEF JoinThreads
  <1>11. CASE Release
    BY <1>11 DEF Release
  <1>12. CASE Close
    <2>1. fatalErrors' \in 0 .. MaxErrors + 1
      BY <1>12, BoundsAssumption DEF Close, NewMembers
    <2>2. /\ requests' \in BOOLEAN /\ threadsStatus' \in BOOLEAN
          /\ toRelease' \subseteq {Interface} /\ toAttach' \subseteq Interfaces
          /\ endpoints' \subseteq {"keys", "LCD"}
      BY <1>12 DEF Close, NewMembers
    <2> QED
      BY <1>12, <2>1, <2>2 DEF Close
  <1>13. CASE StopDevice \/ StopAtExit \/ StopDead \/ StopUnplugged
    BY <1>13 DEF StopDevice, StopAtExit, StopDead, StopUnplugged, CloseDevice
  <1>14. CASE \E t \in Thread : Loop(t)
    <2> PICK t \in Thread : Loop(t)
      BY <1>14
    <2>1. CASE EnterLoop(t) \/ GiveUp(t) \/ LeaveLoop(t)
      BY <2>1 DEF EnterLoop, GiveUp, LeaveLoop
    <2>2. CASE TransferFails(t)
      <3>1. fatalErrors' \in 0 .. MaxErrors + 1
        BY <2>2, BoundsAssumption DEF TransferFails
      <3> QED
        BY <2>2, <3>1 DEF TransferFails
    <2> QED
      BY <2>1, <2>2 DEF Loop
  <1>15. CASE UNCHANGED vars
    BY <1>15 DEF vars
  <1> QED
    BY <1>1, <1>2, <1>3, <1>4, <1>5, <1>6, <1>7, <1>8, <1>9, <1>10, <1>11, <1>12, <1>13, <1>14, <1>15 DEF Next, Call

LEMMA ThreadTypesStep == ASSUME Types, PhaseInv, [Next]_vars PROVE ThreadTypes'
  <1> USE DEF Types, ThreadTypes, kernelVars, mainVars, interfaceVars, threadVars, history
  <1>1. CASE StartDevice \/ Open \/ GetConfiguration \/ Detach \/ SetConfiguration
    BY <1>1 DEF StartDevice, Goto, Open, GetConfiguration, Detach, DetachKernelDriver, SetConfiguration
  <1>2. CASE Reattach \/ FindInterface \/ DetachOne \/ ClaimInterface \/ FindEndpoints
    BY <1>2 DEF Reattach, AttachKernelDrivers, AttachOne, FindInterface, DetachOne, DetachKernelDriver, ClaimInterface, FindEndpoints, EndpointsOf
  <1>3. CASE JoinThreads \/ Release \/ Attach
    BY <1>3 DEF JoinThreads, Release, Attach, AttachKernelDrivers, AttachOne
  <1>4. CASE StopDevice \/ StopAtExit \/ StopDead \/ StopUnplugged
    BY <1>4 DEF StopDevice, StopAtExit, StopDead, StopUnplugged, CloseDevice
  <1>5. CASE SpawnThreads
    BY <1>5 DEF SpawnThreads, Spawn, Kinds
  <1>6. CASE Close
    BY <1>6 DEF Close, NewMembers
  <1>7. CASE \E t \in Thread : Loop(t)
    <2> PICK t \in Thread : Loop(t)
      BY <1>7
    <2>1. CASE EnterLoop(t)
      <3>1. t[1] \in Kinds /\ t \in {t[1]} \X (1 .. MaxOpens) /\ entry \in Nat
        BY BoundsAssumption DEF Thread, MainTypes
      <3>2. state' \in [Thread -> {"none", "spawned", "running"}] /\ ref' \in [Thread -> Nat]
        BY <2>1, <3>1 DEF EnterLoop
      <3>3. /\ threadID' \in [Kinds -> {None} \cup Thread]
            /\ \A k \in Kinds : threadID'[k] \in {None} \cup ({k} \X (1 .. MaxOpens))
        BY <2>1, <3>1 DEF EnterLoop
      <3> QED
        BY <3>2, <3>3
    <2>2. CASE GiveUp(t) \/ TransferFails(t)
      BY <2>2 DEF GiveUp, TransferFails
    <2>3. CASE LeaveLoop(t)
      BY <2>3 DEF LeaveLoop
    <2> QED
      BY <2>1, <2>2, <2>3 DEF Loop
  <1>8. CASE Unplug \/ ExitDaemon \/ UNCHANGED vars
    BY <1>8 DEF Unplug, ExitDaemon, vars
  <1> QED
    BY <1>1, <1>2, <1>3, <1>4, <1>5, <1>6, <1>7, <1>8 DEF Next, Call

LEMMA USBInit == Init => Types /\ PhaseInv /\ ThreadInv /\ ClaimInv /\ BackInv
  <1> SUFFICES ASSUME Init PROVE Types /\ PhaseInv /\ ThreadInv /\ ClaimInv /\ BackInv
    OBVIOUS
  <1>1. KernelTypes
    BY DEF Init, KernelTypes
  <1>2. MainTypes
    <2>1. opens \in 0 .. MaxOpens /\ entry \in 0 .. opens
      BY BoundsAssumption DEF Init
    <2> QED
      BY <2>1 DEF Init, MainTypes
  <1>3. MemberTypes
    <2>1. fatalErrors \in 0 .. MaxErrors + 1
      BY BoundsAssumption DEF Init
    <2> QED
      BY <2>1 DEF Init, MemberTypes
  <1>4. ThreadTypes
    BY DEF Init, ThreadTypes
  <1>5. PhaseInv /\ ThreadInv /\ ClaimInv /\ BackInv
    BY DEF Init, PhaseInv, ThreadInv, ClaimInv, HasClaim, BackInv, Opening, Finding, Closing
  <1> QED
    BY <1>1, <1>2, <1>3, <1>4, <1>5 DEF Types

LEMMA USBInv == Spec => [](Types /\ PhaseInv /\ ThreadInv /\ ClaimInv /\ BackInv)
  <1>1. /\ Types /\ PhaseInv /\ ThreadInv /\ ClaimInv /\ BackInv
        /\ [Next]_vars
        => (Types /\ PhaseInv /\ ThreadInv /\ ClaimInv /\ BackInv)'
    BY PhaseStep, ThreadStep, ClaimStep, BackStep, KernelTypesStep, MainTypesStep,
       MemberTypesStep, ThreadTypesStep DEF Types
  <1> QED
    BY USBInit, <1>1, PTL DEF Spec

(* No sequence of failures takes a member, a counter of errors or the ID   *)
(* of a thread out of its type.                                            *)
THEOREM USBTypes == Spec => []TypeOK
  <1>1. Types => TypeOK
    <2> SUFFICES ASSUME Types PROVE TypeOK
      OBVIOUS
    <2>1. KernelTypes /\ MainTypes /\ MemberTypes
      BY DEF Types
    <2>2. \A k \in Kinds : threadID[k] \in {None} \cup ({k} \X (1 .. MaxOpens))
      BY DEF Types, ThreadTypes
    <2>3. \A t \in Thread : state[t] \in {"none", "spawned", "running"}
      BY DEF Types, ThreadTypes
    <2> QED
      BY <2>1, <2>2, <2>3 DEF KernelTypes, MainTypes, MemberTypes, TypeOK
  <1> QED
    BY <1>1, USBInv, PTL

(* closeUSBDevice() gives the interfaces back as openUSBDevice() found     *)
(* them, whichever call failed, if the calls that give back do not fail.   *)
THEOREM DeviceIsGivenBack == Spec => []FoundAgain
  <1>1. BackInv => FoundAgain
    BY DEF BackInv, FoundAgain
  <1> QED
    BY <1>1, USBInv, PTL

(* A started device that is plugged was taken whole or not at all: a start *)
(* that fails on the way is never taken for one that succeeded, except     *)
(* when nothing was found and nothing touched.                             *)
THEOREM StartsWholeOrNot == Spec => []WholeOrNothing
  <1>1. Types /\ PhaseInv /\ ClaimInv /\ BackInv => WholeOrNothing
    <2> SUFFICES ASSUME Types, PhaseInv, ClaimInv, BackInv, started, pc = "idle", plugged
                 PROVE  TakenWhole \/ LeftAlone
      BY DEF WholeOrNothing
    <2>1. handle /\ claimed = toRelease /\ claimed \subseteq {Interface}
      BY DEF PhaseInv, ClaimInv, HasClaim, Types, KernelTypes
    <2>2. CASE claimed = {}
      BY <2>1, <2>2 DEF ClaimInv, HasClaim, BackInv, LeftAlone
    <2>3. CASE claimed = {Interface}
      BY <2>1, <2>3 DEF ClaimInv, HasClaim, TakenWhole
    <2> QED
      BY <2>1, <2>2, <2>3
  <1> QED
    BY <1>1, USBInv, PTL

(* As long as no close overtakes the start of a thread, a closed device    *)
(* has no thread, for any number of starts.                                *)
THEOREM NoThreadOutlives == Spec => []ThreadsEndFirst
  <1>1. Types /\ PhaseInv /\ ThreadInv => ThreadsEndFirst
    BY DEF Types, ThreadTypes, PhaseInv, ThreadInv, ThreadsEndFirst
  <1> QED
    BY <1>1, USBInv, PTL
=============================================================================
