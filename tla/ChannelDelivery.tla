-------------------------- MODULE ChannelDelivery --------------------------
(***************************************************************************)
(* SecureChannel with the history of both directions, and the refinement:  *)
(* each direction is an OrderedPipe.  The history variables are functions  *)
(* of the channel's step: a message is sent when its frame enters a queue  *)
(* and heard when the receiver's counter advances over it.                 *)
(***************************************************************************)
EXTENDS SecureChannel

VARIABLES
  sent, lensHeard,  \* written by the host, accepted by the camera
  lensSent, heard   \* sent by the camera, decrypted by the host

history == <<sent, lensHeard, lensSent, heard>>

Newest(q) == q[Len(q)].msg

(* One step's contribution to the history.                                 *)
Record ==
  /\ sent' = IF Len(toLens') > Len(toLens)
               THEN Append(sent, Newest(toLens')) ELSE sent
  /\ lensHeard' = IF lensRx' # lensRx
                    THEN Append(lensHeard, Head(toLens).msg) ELSE lensHeard
  /\ lensSent' = IF lensTx' # lensTx
                   THEN Append(lensSent, Newest(toHost')) ELSE lensSent
  /\ heard' = IF rx' # rx THEN Append(heard, Head(toHost).msg) ELSE heard

DInit ==
  /\ Init
  /\ sent = << >> /\ lensHeard = << >> /\ lensSent = << >> /\ heard = << >>

DNext == Next /\ Record
dvars == <<vars, history>>

DSpec == DInit /\ [][DNext]_dvars

(* A thread that holds the lock runs on and writes; the camera reads what  *)
(* reaches it; the application keeps a call or a poll in progress; and the *)
(* notice of a lost link comes in the end, to a read that waits for it.    *)
DFairness ==
  /\ \A t \in Threads : WF_dvars(Post(t) /\ Record)
  /\ WF_dvars(LensReceives /\ Record)
  /\ WF_dvars(ReadRound /\ Record) /\ SF_dvars(ReadFails /\ Record)

DFairSpec == DSpec /\ DFairness

UpPipe == INSTANCE OrderedPipe
            WITH Msg <- HostMsg, heard <- lensHeard, open <- linkUp
DownPipe == INSTANCE OrderedPipe
            WITH Msg <- LensMsg, sent <- lensSent, open <- alive \/ reading

(* The camera hears what the host wrote, in the order it was written,      *)
(* nothing twice, while the link is up (_send_enc, SecureSession); and it  *)
(* hears all of it, unless the link drops or an oversized frame is         *)
(* refused, after which it hears nothing more.                             *)
UplinkDelivers == UpPipe!Spec /\ (<>refused \/ UpPipe!Delivery)

(* The host hears what the camera sent, in order, nothing twice and no     *)
(* stray.  Once the transport is known to be dead it hears at most the one *)
(* message of the read that was under way, for that read does not look at  *)
(* the flag again (_read_raw, _decrypt).  It hears all of what was sent    *)
(* unless the link drops.                                                  *)
DownlinkDelivers == DownPipe!Spec /\ DownPipe!Delivery
=============================================================================
