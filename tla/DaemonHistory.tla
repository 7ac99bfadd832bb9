--------------------------- MODULE DaemonHistory ---------------------------
(***************************************************************************)
(* The daemon with a history variable for what its clients have been told: *)
(* the status of each device as a client knows it that asked for it when   *)
(* it registered and has listened to the signals since.                    *)
(***************************************************************************)
EXTENDS DaemonProperties

VARIABLE told

(* What a listener knows of d after the signals of the step *)
Heard(d) ==
    LET about == {i \in DOMAIN out' : d \in out'[i].devices} IN
    IF about = {} THEN told[d] ELSE NewStatus[out'[CHOOSE i \in about : TRUE].name]

HInit == Init /\ told = Status

HNext ==
    /\ Next
    /\ told' = IF connected = {} THEN Status' ELSE [d \in Device |-> Heard(d)]

HSpec == HInit /\ [][HNext]_<<vars, told>>

-----------------------------------------------------------------------------
(* A client that has heard every signal since it registered knows the      *)
(* status of every device: each way a device has of changing status --     *)
(* hotplug, removal, lost threads, a call of another client, a restart     *)
(* that fails half way -- is followed by one signal that tells it.  (Not   *)
(* when the machine suspends: stopInitializedDevices() and                 *)
(* startSleepingDevices() send nothing.)                                   *)
ClientsAreToldTheTruth ==
    connected # {} /\ daemonRunning /\ phase # "exited" => told = Status
=============================================================================
