-------------------------- MODULE DeviceLifecycle --------------------------
(***************************************************************************)
(* What the daemon promises about the status of each device, whoever asks  *)
(* for it: the statuses DevicesManager::getDeviceStatus() can give, and    *)
(* how one may follow another.  A device found at startup is started; one  *)
(* that is plugged in later waits, stopped, until it is asked for; an      *)
(* unplugged device has to come back through "stopped"; and nothing is     *)
(* started once the daemon has exited.                                     *)
(***************************************************************************)
CONSTANT Device

VARIABLES
    status,     \* what getDeviceStatus() gives
    mode        \* "starting", "running" or "exited"

Init ==
    /\ status = [d \in Device |-> "unknown"]
    /\ mode = "starting"

(* At startup the devices that are found are started, if they can be: none *)
(* is when the enumeration fails.                                          *)
FirstEnumeration ==
    /\ mode = "starting"
    /\ mode' = "running"
    /\ status' \in [Device -> {"unknown", "started"}]

MayBecome ==
    [unknown   |-> {"stopped"},
     started   |-> {"stopped", "unplugged"},
     stopped   |-> {"started", "unplugged"},
     unplugged |-> {"stopped"}]

Change ==
    /\ mode = "running"
    /\ status' \in [Device -> DOMAIN MayBecome]
    /\ \A d \in Device :
          status'[d] # status[d] => status'[d] \in MayBecome[status[d]]
    /\ UNCHANGED mode

(* The daemon exits: what was unplugged is still known as such. *)
Exit ==
    /\ mode = "running"
    /\ mode' = "exited"
    /\ status' \in [Device -> {"unknown", "unplugged"}]
    /\ \A d \in Device : status[d] = "unplugged" => status'[d] = "unplugged"

Next == FirstEnumeration \/ Change \/ Exit

Spec == Init /\ [][Next]_<<status, mode>>
=============================================================================
