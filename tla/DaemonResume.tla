---------------------------- MODULE DaemonResume ----------------------------
(***************************************************************************)
(* The daemon with a history variable for what its users asked of it: the  *)
(* devices that were stopped, by a client or because their threads gave    *)
(* up, when no suspend was under way that they were to be started after,   *)
(* and that no client has started since.                                   *)
(***************************************************************************)
EXTENDS DaemonProperties

VARIABLE stoppedAwake

StoppedNow == (started \cap stopped') \ sleeping'

(* Only the handling of a signal of logind starts a device that no client  *)
(* asked for.                                                              *)
StartedByClient == IF sleepMsgs' = sleepMsgs THEN started' ELSE {}

RInit == Init /\ stoppedAwake = {}

RNext ==
    /\ Next
    /\ stoppedAwake' = ((stoppedAwake \cup StoppedNow) \ StartedByClient)
                       \cap (started' \cup stopped')

RSpec == RInit /\ [][RNext]_<<vars, stoppedAwake>>

-----------------------------------------------------------------------------
(* A device that was stopped stays stopped over any number of suspends:    *)
(* the resume of startSleepingDevices() starts only what the suspend       *)
(* stopped.                                                                *)
StoppedStaysStopped == stoppedAwake \cap started = {}
=============================================================================
