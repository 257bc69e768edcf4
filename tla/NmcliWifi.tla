------------------------------ MODULE NmcliWifi ------------------------------
(***************************************************************************)
(* NmcliWifi (wifi_nmcli.py): join the camera's access point, leave it and *)
(* bring the connection back up that was active before.  Every nmcli       *)
(* command is a step of its own, may exit with an error, which the code    *)
(* ignores except in connect, and may run into its timeout, which raises   *)
(* TimeoutExpired out of everything but active_connection.                 *)
(*                                                                         *)
(* The object is asked with BeginJoin and BeginLeave and answers in step:  *)
(* "joined" and "refused" are join's results, "raised" an exception out of *)
(* it, "left" the end of leave, whose exceptions Syncer.run swallows.      *)
(***************************************************************************)

VARIABLES
  active,    \* the machine's connection: "home", "camera" or "none"
  profile,   \* NetworkManager has a profile for the camera's network
  previous,  \* NmcliWifi.previous
  ssid,      \* NmcliWifi.ssid is set
  restore,   \* NmcliWifi.restore, the same for every object of a machine
  step,      \* where join or leave is, or how it ended
  inJoin,    \* leave was called by join itself
  broken     \* history: an nmcli command that restores has failed, and the
             \* machine has not come home since

hostVars == <<active, profile, broken>>
objectVars == <<previous, ssid, restore, step, inJoin>>
allButStep == <<hostVars, previous, ssid, restore, inJoin>>
wifiVars == <<hostVars, objectVars>>

Init ==
  /\ active = "home" /\ profile = FALSE /\ broken = FALSE
  /\ previous = "none" /\ ssid = FALSE /\ step = "out" /\ inJoin = FALSE
  /\ restore \in BOOLEAN

Goes(from, to) == step = from /\ step' = to

-----------------------------------------------------------------------------
(* Mutant of BeginJoin: the connection is remembered once it is too late.  *)
BeginJoinForgetful ==
  /\ step \in {"out", "left"} /\ step' = "scan"
  /\ ssid' = TRUE
  /\ UNCHANGED <<hostVars, previous, restore, inJoin>>

(* active_connection answers, or its command fails and it is None.         *)
ActiveConnection == {active, "none"}

(* join, up to the scan.                                                   *)
BeginJoin ==
  /\ step \in {"out", "left"} /\ step' = "scan"
  /\ previous' \in ActiveConnection
  /\ broken' = (broken \/ previous' # active)
  /\ ssid' = TRUE
  /\ UNCHANGED <<active, profile, restore, inJoin>>

(* No Wi-Fi interface.                                                     *)
NoInterface ==
  /\ step \in {"out", "left"} /\ step' = "refused"
  /\ ~ssid /\ previous = "none"
  /\ UNCHANGED <<hostVars, previous, ssid, restore, inJoin>>

(* wait_for_ssid.                                                          *)
ScanFinds == Goes("scan", "connect") /\ UNCHANGED allButStep
ScanMisses == Goes("scan", "refused") /\ UNCHANGED allButStep
ScanRaises == Goes("scan", "raised") /\ UNCHANGED allButStep

(* join_nmcli.                                                             *)
ConnectSucceeds ==
  /\ Goes("connect", "joined")
  /\ active' = "camera" /\ profile' = TRUE
  /\ UNCHANGED <<broken, previous, ssid, restore, inJoin>>

ConnectFails ==  \* every attempt: join calls leave
  /\ Goes("connect", "forget")
  /\ active' \in {active, "none"}
  /\ inJoin' = TRUE
  /\ UNCHANGED <<profile, broken, previous, ssid, restore>>

ConnectRaises ==  \* nmcli is killed, NetworkManager may go on
  /\ Goes("connect", "raised")
  /\ \/ active' = "camera" /\ profile' = TRUE
     \/ active' \in {active, "none"} /\ profile' \in {profile, TRUE}
  /\ UNCHANGED <<broken, previous, ssid, restore, inJoin>>

-----------------------------------------------------------------------------
BeginLeave ==
  /\ step \in {"joined", "refused", "raised"} /\ step' = "forget"
  /\ UNCHANGED <<hostVars, previous, ssid, restore, inJoin>>

LeaveReturns(result) ==
  /\ step' = IF inJoin THEN result ELSE "left"
  /\ inJoin' = FALSE

(* Deleting the profile takes the connection down; NetworkManager may pick *)
(* the home network by itself.                                             *)
Forget ==
  /\ Goes("forget", "restore")
  /\ IF ssid
       THEN /\ ssid' = FALSE /\ profile' = FALSE
            /\ active' \in IF active = "camera" THEN {"none", "home"} ELSE {active}
       ELSE UNCHANGED <<ssid, profile, active>>
  /\ UNCHANGED <<broken, previous, restore, inJoin>>

(* nmcli exits with an error, which nobody looks at: the profile stays.    *)
ForgetFails ==
  /\ Goes("forget", "restore") /\ ssid
  /\ ssid' = FALSE /\ broken' = TRUE
  /\ UNCHANGED <<active, profile, previous, restore, inJoin>>

ForgetRaises ==
  /\ step = "forget" /\ ssid
  /\ broken' = TRUE
  /\ LeaveReturns("raised")
  /\ UNCHANGED <<active, profile, previous, ssid, restore>>

CanComeUp(c) == c = "home" \/ (c = "camera" /\ profile)

Restore ==
  /\ step = "restore"
  /\ active' = IF restore /\ CanComeUp(previous) THEN previous ELSE active
  /\ broken' = (broken /\ active' # "home")
  /\ LeaveReturns("refused")
  /\ UNCHANGED <<profile, previous, ssid, restore>>

RestoreFails ==
  /\ step = "restore" /\ restore /\ previous # "none"
  /\ broken' = TRUE
  /\ LeaveReturns("refused") \/ LeaveReturns("raised")
  /\ UNCHANGED <<active, profile, previous, ssid, restore>>

Runs ==
  \/ ScanFinds \/ ScanMisses \/ ScanRaises
  \/ ConnectSucceeds \/ ConnectFails \/ ConnectRaises
  \/ Forget \/ ForgetFails \/ ForgetRaises \/ Restore \/ RestoreFails

(* The process is gone, the machine stays as it is.                        *)
Dies ==
  /\ broken' = (broken \/ step \notin {"out", "left"})
  /\ previous' = "none" /\ ssid' = FALSE /\ step' = "out" /\ inJoin' = FALSE
  /\ UNCHANGED <<active, profile, restore>>

TypeOK ==
  /\ active \in {"home", "camera", "none"} /\ previous \in {"home", "camera", "none"}
  /\ profile \in BOOLEAN /\ ssid \in BOOLEAN /\ restore \in BOOLEAN
  /\ inJoin \in BOOLEAN /\ broken \in BOOLEAN
  /\ step \in {"out", "scan", "connect", "joined", "refused", "raised", "forget",
               "restore", "left"}
=============================================================================
