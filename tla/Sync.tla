--------------------------------- MODULE Sync ---------------------------------
(***************************************************************************)
(* Syncer (sync.py) with its Catalog (catalog.py) and NmcliWifi: plan and  *)
(* run, together as sync calls them or apart, cancel from another thread,  *)
(* the photos and the catalog on disk, the camera's access point, and a    *)
(* process that may die at any step and be started again.                  *)
(***************************************************************************)
EXTENDS Naturals, Sequences, FiniteSets, SequencesExt

CONSTANTS
  Content,  \* per completed session, the newest last: its moments, best first
  Given,    \* what applications ask for: a session and a list of moment ids
  Options,  \* how a Syncer is made: pairs of overwrite and its joiner's restore
  RunMax    \* bound: calls of plan, and of run on a plan that was run before

(* list_sessions: the completed sessions of the camera.                    *)
Sessions == DOMAIN Content
Ids == UNION {Range(Content[s]) : s \in Sessions}
Moments == Sessions \X Ids

ASSUME ContentAssumption ==
  /\ Sessions \subseteq Nat \ {0}
  /\ \A s \in Sessions : Content[s] \in Seq(Ids)

ASSUME BoundAssumption == RunMax \in Nat

ASSUME CallerAssumption ==
  /\ Given \subseteq Sessions \X (Seq(Ids) \ {<< >>})
  /\ Options \subseteq BOOLEAN \X BOOLEAN

VARIABLES
  photo,      \* durable: the moments with a file at their path
  placed,     \* history: those that ever had one
  torn,       \* durable: those of them whose file is not whole
  half,       \* durable: the moments with a .part file that is not whole
  disk,       \* durable: the moments in the saved catalog
  mem,        \* Catalog._data
  overwrite,  \* Syncer.overwrite, the same in every process
  pc,         \* where plan or run is, "planned" between the two; "off" without
              \* a process
  todo,       \* plan: sessions still to list
  all,        \* plan: all_sessions
  late,       \* the sessions with a listing that may still be answered
  items, skipped,       \* SyncPlan, which the application may run again
  since,                \* history: the moments placed since that plan began
  at,                   \* the item at hand
  downloaded, failed,   \* SyncResult, as places in the plan
  cancelled,            \* SyncResult.cancelled
  raised,               \* plan or run ends, or has ended, with an exception
  cancel,               \* Syncer._cancel is set
  asked,                \* history: cancel was called in this run
  overrun,              \* history: this run has begun a download after that
  ap,                   \* the camera's access point is open
  apUnsure,             \* history: nobody has answered for the access point
  apLeft,               \* history: the preview's exception left it open
  runs,                 \* calls of plan, and of run on an old one, so far
  active, profile, previous, ssid, restore, step, inJoin, broken

Wifi == INSTANCE NmcliWifi
wifiVars == <<active, profile, previous, ssid, restore, step, inJoin, broken>>

durableVars == <<photo, placed, torn, half, disk>>
syncerVars == <<mem, overwrite>>
planVars == <<todo, all, late, items, skipped, since>>
resultVars == <<downloaded, failed, cancelled>>
cancelVars == <<cancel, asked, overrun>>
apVars == <<ap, apUnsure, apLeft>>
vars == <<durableVars, syncerVars, pc, planVars, at, resultVars, raised, cancelVars,
          apVars, runs, wifiVars>>

Init ==
  /\ photo = {} /\ placed = {} /\ torn = {} /\ half = {} /\ disk = {} /\ mem = {}
  /\ pc = "off" /\ todo = {} /\ all = FALSE /\ late = {}
  /\ items = << >> /\ skipped = {} /\ since = {} /\ at = 0
  /\ downloaded = {} /\ failed = {} /\ cancelled = FALSE /\ raised = FALSE
  /\ cancel = FALSE /\ asked = FALSE /\ overrun = FALSE
  /\ ap = FALSE /\ apUnsure = FALSE /\ apLeft = FALSE /\ runs = 0
  /\ Wifi!Init
  /\ \E o \in Options : overwrite = o[1] /\ restore = o[2]

Goes(from, to) == pc = from /\ pc' = to

-----------------------------------------------------------------------------
(* A process, a Syncer: the catalog is loaded once.                        *)
Start ==
  /\ Goes("off", "idle")
  /\ mem' = disk
  /\ UNCHANGED <<durableVars, overwrite, planVars, at, resultVars, raised, cancelVars,
                 apVars, runs, wifiVars>>

(* The process is gone with everything it knew.                            *)
Crash ==
  /\ pc # "off" /\ pc' = "off"
  /\ mem' = {} /\ todo' = {} /\ all' = FALSE /\ late' = {}
  /\ items' = << >> /\ skipped' = {} /\ since' = {} /\ at' = 0
  /\ downloaded' = {} /\ failed' = {} /\ cancelled' = FALSE /\ raised' = FALSE
  /\ cancel' = FALSE /\ asked' = FALSE /\ overrun' = FALSE
  /\ apUnsure' = (apUnsure \/ ap)
  /\ Wifi!Dies
  /\ UNCHANGED <<durableVars, overwrite, ap, apLeft, runs>>

(* The user deletes or moves a photo.                                      *)
UserDeletes(m) ==
  /\ m \in photo
  /\ photo' = photo \ {m} /\ torn' = torn \ {m}
  /\ UNCHANGED <<placed, half, disk, syncerVars, pc, planVars, at, resultVars, raised,
                 cancelVars, apVars, runs, wifiVars>>

(* cancel, on whatever thread, at whatever time.  During plan, or between  *)
(* plan and run, it is too early: run clears the event as it begins.       *)
Cancel ==
  /\ pc # "off"
  /\ cancel' = TRUE
  /\ asked' = (pc \notin {"idle", "plan", "planned"})
  /\ UNCHANGED <<durableVars, syncerVars, pc, planVars, at, resultVars, raised,
                 overrun, apVars, runs, wifiVars>>

-----------------------------------------------------------------------------
(* plan: every completed session, the newest that has moments, or a given  *)
(* one.  The application has the last plan only.                           *)
PlanCalled ==
  /\ pc \in {"idle", "planned"} /\ pc' = "plan"
  /\ runs < RunMax /\ runs' = runs + 1
  /\ asked' = FALSE /\ overrun' = FALSE
  /\ since' = {} /\ at' = 0
  /\ downloaded' = {} /\ failed' = {} /\ cancelled' = FALSE /\ raised' = FALSE
  /\ UNCHANGED <<durableVars, syncerVars, late, cancel, apVars, wifiVars>>

PlanListed ==
  /\ PlanCalled
  /\ items' = << >> /\ skipped' = {}
  /\ \/ all' \in BOOLEAN /\ todo' = Sessions
     \/ all' = FALSE /\ \E s \in Sessions : todo' = {s}

HaveByCatalog(m) == m \in mem /\ m \in photo /\ ~overwrite  \* mutant of Have

(* _have: the file is there.  Catalog.has asks for it as well.             *)
Have(m) == m \in photo /\ ~overwrite

(* _add: of a list of moments, in its order and with its repetitions, what *)
(* is not there, and what is.                                              *)
Missing(infos) ==
  LET gaps == {k \in DOMAIN infos : ~Have(infos[k])}
      n == Cardinality(gaps)
      InOrder == {pos \in [1..n -> gaps] : \A i, j \in 1..n : i < j => pos[i] < pos[j]}
  IN  {[k \in 1..n |-> infos[pos[k]]] : pos \in InOrder}

Present(infos) == {infos[k] : k \in {k \in DOMAIN infos : Have(infos[k])}}

(* With moment ids given nothing is listed; the camera need not have them. *)
PlanGiven(s, ids) ==
  /\ PlanCalled
  /\ LET infos == [k \in DOMAIN ids |-> <<s, ids[k]>>] IN
       items' \in Missing(infos) /\ skipped' = Present(infos)
  /\ todo' = {} /\ all' = FALSE

(* parse_list_moments: the moments of the answer, under the session asked  *)
(* for.                                                                    *)
MomentInfos(s, answer) == [k \in DOMAIN Content[answer] |-> <<s, Content[answer][k]>>]

Newest(s, S) == s \in S /\ \A r \in S : r <= s

(* moments(s) answers, for s or for a listing that timed out before: then  *)
(* that answer is taken for the one of s, which is still to come.          *)
ListSession(s, r) ==
  /\ pc = "plan" /\ Newest(s, todo)
  /\ r \in {s} \cup late
  /\ LET infos == MomentInfos(s, r) IN
       /\ \E more \in Missing(infos) : items' = items \o more
       /\ skipped' = skipped \cup Present(infos)
       /\ todo' = IF infos # << >> /\ ~all THEN {} ELSE todo \ {s}
  /\ late' = IF r = s THEN late ELSE (late \ {r}) \cup {s}
  /\ UNCHANGED <<durableVars, syncerVars, pc, all, since, at, resultVars, raised,
                 cancelVars, apVars, runs, wifiVars>>

(* RequestTimeout: the session is passed over.                             *)
ListingTimesOut(s) ==
  /\ pc = "plan" /\ Newest(s, todo)
  /\ todo' = todo \ {s}
  /\ late' \in {late, late \cup {s}}
  /\ UNCHANGED <<durableVars, syncerVars, pc, all, items, skipped, since, at,
                 resultVars, raised, cancelVars, apVars, runs, wifiVars>>

(* list_sessions fails, or a listing with what is no CameraError: there is *)
(* no plan.                                                                *)
PlanRaises ==
  /\ Goes("plan", "idle") /\ todo # {}
  /\ raised' = TRUE
  /\ todo' = {} /\ all' = FALSE /\ items' = << >> /\ skipped' = {}
  /\ UNCHANGED <<durableVars, syncerVars, late, since, at, resultVars, cancelVars,
                 apVars, runs, wifiVars>>

PlanEnds ==
  /\ Goes("plan", "planned") /\ todo = {}
  /\ all' = FALSE
  /\ UNCHANGED <<durableVars, syncerVars, todo, late, items, skipped, since, at,
                 resultVars, raised, cancelVars, apVars, runs, wifiVars>>

-----------------------------------------------------------------------------
(* run, of the plan just made or of one that was run before, up to the     *)
(* network.  It does not look at the files again.                          *)
RunCalled ==
  \/ pc = "planned" /\ UNCHANGED runs
  \/ pc = "idle" /\ items # << >> /\ runs < RunMax /\ runs' = runs + 1

RunBegins ==
  /\ RunCalled
  /\ IF items = << >> THEN pc' = "idle" /\ UNCHANGED cancel
       ELSE pc' = "request" /\ cancel' = FALSE
  /\ asked' = FALSE /\ overrun' = FALSE
  /\ at' = 0
  /\ downloaded' = {} /\ failed' = {} /\ cancelled' = FALSE /\ raised' = FALSE
  /\ UNCHANGED <<durableVars, syncerVars, planVars, apVars, wifiVars>>

(* initiate_wifi.                                                          *)
Credentials ==
  /\ Goes("request", "preview")
  /\ ap' = TRUE
  /\ UNCHANGED <<durableVars, syncerVars, planVars, at, resultVars, raised,
                 cancelVars, apUnsure, apLeft, runs, wifiVars>>

(* No answer, or one without credentials: WifiError; or what the request   *)
(* raised.  The camera may have opened the access point all the same.      *)
NoCredentials ==
  /\ Goes("request", "idle")
  /\ raised' = TRUE
  /\ ap' \in {ap, TRUE} /\ apUnsure' = TRUE
  /\ UNCHANGED <<durableVars, syncerVars, planVars, at, resultVars, cancelVars,
                 apLeft, runs, wifiVars>>

(* start_capture_preview, asked for or not, ends, if need be with a        *)
(* CameraError.                                                            *)
PreviewEnds ==
  /\ Goes("preview", "join")
  /\ UNCHANGED <<durableVars, syncerVars, planVars, at, resultVars, raised,
                 cancelVars, apVars, runs, wifiVars>>

(* Another exception leaves run before its try: no leave, no cancel_wifi.  *)
PreviewRaises ==
  /\ Goes("preview", "idle")
  /\ raised' = TRUE
  /\ apLeft' = TRUE
  /\ UNCHANGED <<durableVars, syncerVars, planVars, at, resultVars, cancelVars, ap,
                 apUnsure, runs, wifiVars>>

JoinBegins ==
  /\ Goes("join", "joining")
  /\ Wifi!BeginJoin \/ Wifi!NoInterface
  /\ UNCHANGED <<durableVars, syncerVars, planVars, at, resultVars, raised,
                 cancelVars, apVars, runs>>

WifiRuns ==
  /\ pc \in {"joining", "leaving"}
  /\ Wifi!Runs
  /\ UNCHANGED <<durableVars, syncerVars, pc, planVars, at, resultVars, raised,
                 cancelVars, apVars, runs>>

JoinReturns ==
  /\ pc = "joining"
  /\ \/ step = "joined" /\ pc' = "next" /\ at' = 1 /\ UNCHANGED raised
     \/ step \in {"refused", "raised"} /\ pc' = "leave" /\ raised' = TRUE /\ UNCHANGED at
  /\ UNCHANGED <<durableVars, syncerVars, planVars, resultVars, cancelVars, apVars,
                 runs, wifiVars>>

-----------------------------------------------------------------------------
(* _download_all.                                                          *)
Item == items[at]

NextItemUnchecked ==  \* mutant of NextItem: no look at the cancel event
  /\ Goes("next", "fetch") /\ at <= Len(items)
  /\ overrun' = (overrun \/ asked)
  /\ UNCHANGED <<durableVars, syncerVars, planVars, at, resultVars, raised, cancel,
                 asked, apVars, runs, wifiVars>>

NextItem ==
  /\ Goes("next", "fetch") /\ at <= Len(items) /\ ~cancel
  /\ overrun' = (overrun \/ asked)
  /\ UNCHANGED <<durableVars, syncerVars, planVars, at, resultVars, raised, cancel,
                 asked, apVars, runs, wifiVars>>

StopsSilently ==  \* mutant of Stops: the result does not say so
  /\ Goes("next", "leave") /\ at <= Len(items) /\ cancel
  /\ UNCHANGED <<durableVars, syncerVars, planVars, at, resultVars, raised,
                 cancelVars, apVars, runs, wifiVars>>

Stops ==
  /\ Goes("next", "leave") /\ at <= Len(items) /\ cancel
  /\ cancelled' = TRUE
  /\ UNCHANGED <<durableVars, syncerVars, planVars, at, downloaded, failed, raised,
                 cancelVars, apVars, runs, wifiVars>>

NoMoreItems ==
  /\ Goes("next", "leave") /\ at > Len(items)
  /\ UNCHANGED <<durableVars, syncerVars, planVars, at, resultVars, raised,
                 cancelVars, apVars, runs, wifiVars>>

(* The camera only has what it has, whatever the plan says.                *)
Fetches ==
  /\ Goes("fetch", "write")
  /\ Item[2] \in Range(Content[Item[1]])
  /\ UNCHANGED <<durableVars, syncerVars, planVars, at, resultVars, raised,
                 cancelVars, apVars, runs, wifiVars>>

(* CameraError, or data that is not a JPEG.                                *)
FetchFails ==
  /\ Goes("fetch", "next")
  /\ failed' = failed \cup {at} /\ at' = at + 1
  /\ UNCHANGED <<durableVars, syncerVars, planVars, downloaded, cancelled, raised,
                 cancelVars, apVars, runs, wifiVars>>

(* http.client.IncompleteRead from the answer, OSError from the disk:      *)
(* neither is a CameraError.                                               *)
DownloadRaises ==
  /\ pc \in {"fetch", "write", "writing", "place"} /\ pc' = "leave"
  /\ raised' = TRUE
  /\ UNCHANGED <<durableVars, syncerVars, planVars, at, resultVars, cancelVars,
                 apVars, runs, wifiVars>>

WriteInPlace ==  \* mutant of WriteBegins: no .part file
  /\ Goes("write", "writing")
  /\ photo' = photo \cup {Item} /\ torn' = torn \cup {Item}
  /\ UNCHANGED <<placed, half, disk, syncerVars, planVars, at, resultVars, raised,
                 cancelVars, apVars, runs, wifiVars>>

WriteRecords ==  \* mutant of WriteBegins: recorded before the file is there
  /\ Goes("write", "writing")
  /\ half' = half \cup {Item}
  /\ mem' = mem \cup {Item}
  /\ UNCHANGED <<photo, placed, torn, disk, overwrite, planVars, at, resultVars,
                 raised, cancelVars, apVars, runs, wifiVars>>

(* The .part file, a new one or one that an earlier process left behind.   *)
WriteBegins ==
  /\ Goes("write", "writing")
  /\ half' = half \cup {Item}
  /\ UNCHANGED <<photo, placed, torn, disk, syncerVars, planVars, at, resultVars,
                 raised, cancelVars, apVars, runs, wifiVars>>

WriteEnds ==
  /\ Goes("writing", "place")
  /\ half' = half \ {Item}
  /\ UNCHANGED <<photo, placed, torn, disk, syncerVars, planVars, at, resultVars,
                 raised, cancelVars, apVars, runs, wifiVars>>

(* Catalog.record.                                                         *)
Record(m) == mem' = mem \cup {m}

(* The rename, then Catalog.record: a crash in between loses what record   *)
(* has not done yet and what it would have done, which only is in memory.  *)
Place ==
  /\ Goes("place", "next")
  /\ photo' = photo \cup {Item} /\ half' = half \ {Item}
  /\ torn' = IF Item \in half THEN torn \cup {Item} ELSE torn \ {Item}
  /\ placed' = placed \cup {Item}
  /\ Record(Item)
  /\ since' = since \cup {Item}
  /\ downloaded' = downloaded \cup {at} /\ at' = at + 1
  /\ UNCHANGED <<disk, overwrite, todo, all, late, items, skipped, failed, cancelled,
                 raised, cancelVars, apVars, runs, wifiVars>>

-----------------------------------------------------------------------------
(* The finally block and the end of run.                                   *)
LeaveBegins ==
  /\ Goes("leave", "leaving")
  /\ Wifi!BeginLeave
  /\ UNCHANGED <<durableVars, syncerVars, planVars, at, resultVars, raised,
                 cancelVars, apVars, runs>>

LeaveReturnsRaw ==  \* mutant of LeaveReturns: what leave raises is not swallowed
  /\ pc = "leaving" /\ step = "left"
  /\ pc' = IF broken THEN "idle" ELSE "cancel_wifi"
  /\ UNCHANGED <<durableVars, syncerVars, planVars, at, resultVars, raised,
                 cancelVars, apVars, runs, wifiVars>>

LeaveReturns ==
  /\ Goes("leaving", "cancel_wifi") /\ step = "left"
  /\ UNCHANGED <<durableVars, syncerVars, planVars, at, resultVars, raised,
                 cancelVars, apVars, runs, wifiVars>>

CancelWifi ==
  /\ Goes("cancel_wifi", "save")
  /\ ap' = FALSE /\ apUnsure' = FALSE /\ apLeft' = FALSE
  /\ UNCHANGED <<durableVars, syncerVars, planVars, at, resultVars, raised,
                 cancelVars, runs, wifiVars>>

(* No answer, a CameraError, which is swallowed, or another exception,     *)
(* which run ends with.                                                    *)
CancelWifiUnanswered ==
  /\ Goes("cancel_wifi", "save")
  /\ raised' \in {raised, TRUE}
  /\ apUnsure' = TRUE /\ ap' \in {ap, FALSE}
  /\ UNCHANGED <<durableVars, syncerVars, planVars, at, resultVars, cancelVars,
                 apLeft, runs, wifiVars>>

SaveUnlessCancelled ==  \* mutant of Save
  /\ Goes("save", "idle")
  /\ disk' = IF raised \/ cancelled THEN disk ELSE mem
  /\ UNCHANGED <<photo, placed, torn, half, syncerVars, planVars, at, resultVars,
                 raised, cancelVars, apVars, runs, wifiVars>>

(* Catalog.save replaces the file in one step.  An exception passes it by. *)
Save ==
  /\ Goes("save", "idle")
  /\ disk' = IF raised THEN disk ELSE mem
  /\ UNCHANGED <<photo, placed, torn, half, syncerVars, planVars, at, resultVars,
                 raised, cancelVars, apVars, runs, wifiVars>>

-----------------------------------------------------------------------------
(* OSError: the temporary file may be there, the catalog is as it was.     *)
SaveFails ==
  /\ Goes("save", "idle") /\ ~raised
  /\ raised' = TRUE
  /\ UNCHANGED <<durableVars, syncerVars, planVars, at, resultVars, cancelVars,
                 apVars, runs, wifiVars>>

-----------------------------------------------------------------------------
PlanRuns ==
  \/ \E s \in Sessions, r \in Sessions : ListSession(s, r)
  \/ \E s \in Sessions : ListingTimesOut(s)
  \/ PlanRaises \/ PlanEnds

SyncRuns ==
  \/ PlanRuns
  \/ Credentials \/ NoCredentials \/ PreviewEnds \/ PreviewRaises
  \/ JoinBegins \/ JoinReturns \/ WifiRuns
  \/ NextItem \/ Stops \/ NoMoreItems
  \/ Fetches \/ FetchFails \/ DownloadRaises
  \/ WriteBegins \/ WriteEnds \/ Place
  \/ LeaveBegins \/ LeaveReturns \/ CancelWifi \/ CancelWifiUnanswered
  \/ Save \/ SaveFails

Next ==
  \/ Start \/ Crash
  \/ \E m \in Moments : UserDeletes(m)
  \/ Cancel
  \/ PlanListed
  \/ \E given \in Given : PlanGiven(given[1], given[2])
  \/ RunBegins
  \/ SyncRuns

Spec == Init /\ [][Next]_vars

-----------------------------------------------------------------------------
(* Types.  Every variable.                                                 *)
TypeOK ==
  /\ photo \subseteq Moments /\ placed \subseteq Moments /\ torn \subseteq photo
  /\ half \subseteq Moments
  /\ disk \subseteq Moments /\ mem \subseteq Moments /\ overwrite \in BOOLEAN
  /\ pc \in {"off", "idle", "plan", "planned", "request", "preview", "join",
             "joining", "next", "fetch", "write", "writing", "place", "leave",
             "leaving", "cancel_wifi", "save"}
  /\ todo \subseteq Sessions /\ late \subseteq Sessions /\ all \in BOOLEAN
  /\ items \in Seq(Moments) /\ skipped \subseteq Moments /\ since \subseteq Moments
  /\ at \in 0..(Len(items) + 1)
  /\ downloaded \subseteq 1..Len(items) /\ failed \subseteq 1..Len(items)
  /\ cancelled \in BOOLEAN /\ raised \in BOOLEAN /\ cancel \in BOOLEAN
  /\ asked \in BOOLEAN /\ overrun \in BOOLEAN
  /\ ap \in BOOLEAN /\ apUnsure \in BOOLEAN /\ apLeft \in BOOLEAN /\ runs \in 0..RunMax
  /\ Wifi!TypeOK

(* A file at a photo's path is a whole photo, whenever the process dies or *)
(* a step fails (the .part file and the rename in _download_all).          *)
PhotosWhole == torn = {}

(* The catalog, in memory and on disk, only knows moments that were        *)
(* downloaded (Catalog.record after the rename).                           *)
CatalogIsTrue == mem \cup disk \subseteq placed

(* When run returns, everything it downloaded is in the saved catalog,     *)
(* cancelled or not (run saves after the finally block).                   *)
SavedOnReturn == (pc = "idle" /\ ~raised) => {items[i] : i \in downloaded} \subseteq disk

(* A plan has only what is not there when it is made, even where an        *)
(* earlier process died before it saved its catalog, unless the Syncer is  *)
(* told to overwrite: a moment that is fetched although it has a file was  *)
(* placed since, because the plan has it twice or is run again (_have asks *)
(* for the file; neither plan nor run removes repetitions).                *)
OnlyMissingFetched ==
  (pc \in {"write", "writing", "place"} /\ ~overwrite /\ Item \in photo) => Item \in since

(* SyncResult accounts for the plan: the items up to the one at hand have  *)
(* succeeded or failed, never both, and items left over mean cancelled,    *)
(* also where the plan has a moment twice.                                 *)
ResultAccounts ==
  (pc = "idle" /\ ~raised /\ at > 0) =>
    /\ downloaded \cup failed = 1..(at - 1)
    /\ downloaded \cap failed = {}
    /\ at <= Len(items) => cancelled

(* Once cancel is called in a run, no further download of that run begins. *)
(* A cancel before run clears the event is lost (sync.py:216), although    *)
(* docs/LIBRARY.md:112 has it stop a sync at any time.                     *)
CancelStops == ~overrun

(* After a call, returned or raised, the machine is on the network it was  *)
(* on before, or at least off the camera's where it is not to restore,     *)
(* unless a command that restores it failed or a process died on the       *)
(* camera's network (NmcliWifi, the finally block of run).                 *)
NetworkRestored ==
  (pc \in {"idle", "planned"} /\ ~broken) =>
    IF restore THEN active = "home" ELSE active # "camera"

(* After a call the camera's access point is closed, unless the camera did *)
(* not answer for it, or the request for a preview raised what run does    *)
(* not catch (sync.py:224-228 is outside the try): it is cancelled even    *)
(* when leave raises, and a later run closes what an earlier one left.     *)
AccessPointClosed == (pc \in {"idle", "planned"} /\ ~apUnsure /\ ~apLeft) => ~ap

(* docs/LIBRARY.md:116 of the catalog: it records every download, so after *)
(* a sync that went well every photo of the plan is in it.                 *)
RecordsEveryDownload ==
  (pc = "idle" /\ runs > 0 /\ ~raised /\ ~cancelled) =>
    photo \cap (skipped \cup {items[i] : i \in downloaded}) \subseteq disk
=============================================================================
