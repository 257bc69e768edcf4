----------------------------- MODULE SyncProofs -----------------------------
(***************************************************************************)
(* Proofs about Sync with its Wi-Fi joiner, for any catalogue of sessions  *)
(* and moments, any requests of the application and any number of syncs,   *)
(* with a crash, a cancel or a deleted photo between any two steps.        *)
(***************************************************************************)
EXTENDS Sync, SequenceTheorems, FiniteSetTheorems, TLAPS

(* What run does between the plan and the network.                        *)
Opens == PlanEnds \/ Credentials \/ NoCredentials \/ PreviewEnds \/ PreviewRaises

(* An element of a concatenation is one of its parts'.                     *)
LEMMA ConcatElements ==
  ASSUME NEW S, NEW s \in Seq(S), NEW t \in Seq(S), NEW k \in 1..Len(s \o t)
  PROVE  \/ k \in 1..Len(s) /\ (s \o t)[k] = s[k]
         \/ k - Len(s) \in 1..Len(t) /\ (s \o t)[k] = t[k - Len(s)]
<1>1. Len(s) \in Nat /\ Len(t) \in Nat /\ k \in 1..(Len(s) + Len(t))
  BY LenProperties, ConcatProperties
<1>2. (s \o t)[k] = IF k <= Len(s) THEN s[k] ELSE t[k - Len(s)]
  BY <1>1, ConcatProperties
<1>3. (k <= Len(s) => k \in 1..Len(s)) /\ (~(k <= Len(s)) => k - Len(s) \in 1..Len(t))
  BY <1>1
<1> QED
  BY <1>2, <1>3

(* What _add keeps of a list of moments is in the list and not there.      *)
LEMMA MissingListed ==
  ASSUME NEW infos \in Seq(Moments), NEW more \in Missing(infos)
  PROVE  /\ more \in Seq(Moments) /\ Len(more) \in Nat
         /\ \A k \in 1..Len(more) : ~Have(more[k])
         /\ Present(infos) \subseteq Moments
<1> DEFINE gaps == {k \in DOMAIN infos : ~Have(infos[k])}
           n == Cardinality(gaps)
<1>1. DOMAIN infos = 1..Len(infos) /\ Len(infos) \in Nat
      /\ \A k \in 1..Len(infos) : infos[k] \in Moments
  BY LenProperties, ElementOfSeq
<1>2. n \in Nat
  <2>1. IsFiniteSet(1..Len(infos)) /\ gaps \subseteq 1..Len(infos)
    BY <1>1, FS_Interval
  <2> QED
    BY <2>1, FS_Subset, FS_CardinalityType
<1>3. PICK pos \in [1..n -> gaps] : more = [k \in 1..n |-> infos[pos[k]]]
  BY DEF Missing
<1> HIDE DEF n
<1>4. \A k \in 1..n : infos[pos[k]] \in Moments /\ ~Have(infos[pos[k]])
  BY <1>1, <1>3
<1>5. more \in [1..n -> Moments]
  BY <1>3, <1>4
<1>6. more \in Seq(Moments) /\ Len(more) = n
  BY <1>2, <1>5
<1>7. Present(infos) \subseteq Moments
  BY <1>1 DEF Present
<1> QED
  BY <1>2, <1>3, <1>4, <1>6, <1>7

(* What a listing answers are moments of the camera.                       *)
LEMMA InfosAreMoments ==
  ASSUME NEW s \in Sessions, NEW r \in Sessions
  PROVE  MomentInfos(s, r) \in Seq(Moments)
<1>1. Content[r] \in Seq(Ids)
  BY ContentAssumption
<1>2. Len(Content[r]) \in Nat /\ DOMAIN Content[r] = 1..Len(Content[r])
      /\ \A k \in 1..Len(Content[r]) : Content[r][k] \in Ids
  BY <1>1, LenProperties, ElementOfSeq
<1> QED
  BY <1>2 DEF MomentInfos, Moments

(* So are the moments an application names.                                *)
LEMMA GivenAreMoments ==
  ASSUME NEW given \in Given
  PROVE  [k \in DOMAIN given[2] |-> <<given[1], given[2][k]>>] \in Seq(Moments)
<1>1. given[1] \in Sessions /\ given[2] \in Seq(Ids)
  BY CallerAssumption
<1>2. Len(given[2]) \in Nat /\ DOMAIN given[2] = 1..Len(given[2])
      /\ \A k \in 1..Len(given[2]) : given[2][k] \in Ids
  BY <1>1, LenProperties, ElementOfSeq
<1> QED
  BY <1>1, <1>2 DEF Moments

-----------------------------------------------------------------------------
(* The item at hand is one of the plan's while a download is under way.    *)
AtHand ==
  /\ pc = "next" => at \in 1..(Len(items) + 1)
  /\ pc \in {"fetch", "write", "writing", "place"} => at \in 1..Len(items)

StoreTypes ==
  /\ photo \subseteq Moments /\ placed \subseteq Moments /\ torn \subseteq photo
  /\ half \subseteq Moments /\ disk \subseteq Moments /\ mem \subseteq Moments

PlanTypes ==
  /\ pc \in {"off", "idle", "plan", "planned", "request", "preview", "join",
             "joining", "next", "fetch", "write", "writing", "place", "leave",
             "leaving", "cancel_wifi", "save"}
  /\ todo \subseteq Sessions /\ late \subseteq Sessions
  /\ items \in Seq(Moments) /\ skipped \subseteq Moments /\ since \subseteq Moments
  /\ at \in 0..(Len(items) + 1)
  /\ downloaded \subseteq 1..Len(items) /\ failed \subseteq 1..Len(items)
  /\ pc = "plan" => at = 0 /\ downloaded = {} /\ failed = {}

FlagTypes ==
  /\ overwrite \in BOOLEAN /\ all \in BOOLEAN
  /\ cancelled \in BOOLEAN /\ raised \in BOOLEAN /\ cancel \in BOOLEAN
  /\ asked \in BOOLEAN /\ overrun \in BOOLEAN
  /\ ap \in BOOLEAN /\ apUnsure \in BOOLEAN /\ apLeft \in BOOLEAN /\ runs \in 0..RunMax

TypeInv == StoreTypes /\ PlanTypes /\ FlagTypes /\ AtHand /\ Wifi!TypeOK

(* The joiner only moves by its own actions.                               *)
LEMMA WifiMoves ==
  ASSUME [Next]_vars
  PROVE  \/ UNCHANGED wifiVars
         \/ Wifi!BeginJoin \/ Wifi!NoInterface \/ Wifi!Runs \/ Wifi!BeginLeave
         \/ Wifi!Dies
BY DEF Next, vars, Start, Crash, UserDeletes, Cancel, PlanListed, PlanGiven, PlanCalled,
   SyncRuns, PlanRuns, ListSession, ListingTimesOut, PlanRaises, RunBegins, PlanEnds,
   Credentials, NoCredentials, PreviewEnds, PreviewRaises, JoinBegins, JoinReturns,
   WifiRuns, NextItem, Stops, NoMoreItems, Fetches, FetchFails, DownloadRaises,
   WriteBegins, WriteEnds, Place, LeaveBegins, LeaveReturns, CancelWifi,
   CancelWifiUnanswered, Save, SaveFails

LEMMA WifiTypes ==
  ASSUME Wifi!TypeOK, [Next]_vars
  PROVE  Wifi!TypeOK'
<1>1. CASE UNCHANGED wifiVars
  BY <1>1 DEF wifiVars, Wifi!TypeOK
<1>2. CASE Wifi!BeginJoin
  BY <1>2 DEF Wifi!BeginJoin, Wifi!ActiveConnection, Wifi!TypeOK
<1>3. CASE Wifi!NoInterface \/ Wifi!BeginLeave \/ Wifi!Dies
  BY <1>3 DEF Wifi!NoInterface, Wifi!BeginLeave, Wifi!Dies, Wifi!hostVars, Wifi!TypeOK
<1>4. CASE Wifi!Runs
  <2>1. CASE Wifi!ScanFinds \/ Wifi!ScanMisses \/ Wifi!ScanRaises
    BY <2>1 DEF Wifi!ScanFinds, Wifi!ScanMisses, Wifi!ScanRaises, Wifi!Goes,
       Wifi!allButStep, Wifi!hostVars, Wifi!TypeOK
  <2>2. CASE Wifi!ConnectSucceeds \/ Wifi!ConnectFails
    BY <2>2 DEF Wifi!ConnectSucceeds, Wifi!ConnectFails, Wifi!Goes, Wifi!TypeOK
  <2>3. CASE Wifi!ConnectRaises
    BY <2>3 DEF Wifi!ConnectRaises, Wifi!Goes, Wifi!TypeOK
  <2>4. CASE Wifi!Forget \/ Wifi!ForgetFails
    BY <2>4 DEF Wifi!Forget, Wifi!ForgetFails, Wifi!Goes, Wifi!TypeOK
  <2>5. CASE Wifi!ForgetRaises \/ Wifi!RestoreFails
    BY <2>5 DEF Wifi!ForgetRaises, Wifi!RestoreFails, Wifi!LeaveReturns, Wifi!TypeOK
  <2>6. CASE Wifi!Restore
    <3>1. active' \in {"home", "camera", "none"} /\ broken' \in BOOLEAN
      BY <2>6 DEF Wifi!Restore, Wifi!TypeOK
    <3> QED
      BY <2>6, <3>1 DEF Wifi!Restore, Wifi!LeaveReturns, Wifi!TypeOK
  <2> QED
    BY <1>4, <2>1, <2>2, <2>3, <2>4, <2>5, <2>6 DEF Wifi!Runs
<1> QED
  BY <1>1, <1>2, <1>3, <1>4, WifiMoves

(* What a step leaves of the plan, by action.                              *)
LEMMA FlagTypesKept ==
  ASSUME FlagTypes, [Next]_vars
  PROVE  FlagTypes'
<1> USE DEF FlagTypes
<1>1. CASE UNCHANGED <<overwrite, all, cancelled, raised, cancelVars, apVars, runs>>
  BY <1>1 DEF cancelVars, apVars
<1>2. CASE Crash \/ Cancel
  <2>1. (pc \notin {"idle", "plan", "planned"}) \in BOOLEAN /\ (apUnsure \/ ap) \in BOOLEAN
    OBVIOUS
  <2>2. CASE Crash
    BY <2>1, <2>2 DEF Crash
  <2>3. CASE Cancel
    BY <2>1, <2>3 DEF Cancel, resultVars, apVars, syncerVars, planVars
  <2> QED
    BY <1>2, <2>2, <2>3
<1>7. CASE PlanListed \/ \E given \in Given : PlanGiven(given[1], given[2])
  <2>1. PlanCalled /\ all' \in BOOLEAN
    BY <1>7 DEF PlanListed, PlanGiven
  <2>2. runs' \in 0..RunMax
    BY <2>1, BoundAssumption DEF PlanCalled
  <2> QED
    BY <2>1, <2>2 DEF PlanCalled, syncerVars, apVars
<1>8. CASE RunBegins
  <2>1. runs' \in 0..RunMax
    BY <1>8, BoundAssumption DEF RunBegins, RunCalled
  <2>2. cancel' \in BOOLEAN /\ asked' \in BOOLEAN /\ overrun' = FALSE
    BY <1>8 DEF RunBegins
  <2> QED
    BY <1>8, <2>1, <2>2 DEF RunBegins, syncerVars, planVars, apVars
<1>3. CASE PlanRaises \/ Opens \/ JoinReturns
  <2>1. CASE PlanRaises \/ PlanEnds
    BY <2>1 DEF PlanRaises, PlanEnds, syncerVars, planVars, resultVars, cancelVars, apVars
  <2>2. CASE Credentials \/ NoCredentials
    BY <2>2 DEF Credentials, NoCredentials, syncerVars, planVars, resultVars, cancelVars,
       apVars
  <2>4. CASE PreviewEnds \/ PreviewRaises
    BY <2>4 DEF PreviewEnds, PreviewRaises, syncerVars, planVars, resultVars, cancelVars,
       apVars
  <2>3. CASE JoinReturns
    BY <2>3 DEF JoinReturns, syncerVars, planVars, resultVars, cancelVars, apVars
  <2> QED
    BY <1>3, <2>1, <2>2, <2>3, <2>4 DEF Opens
<1>4. CASE \/ NextItem \/ Stops \/ DownloadRaises \/ CancelWifi \/ CancelWifiUnanswered
           \/ SaveFails
  <2>1. CASE Stops \/ DownloadRaises \/ SaveFails
    BY <2>1 DEF Stops, DownloadRaises, SaveFails, syncerVars, planVars, resultVars,
       cancelVars, apVars
  <2>3. CASE NextItem
    <3>1. (overrun \/ asked) \in BOOLEAN
      OBVIOUS
    <3>2. /\ overrun' = (overrun \/ asked)
          /\ UNCHANGED <<overwrite, all, cancelled, raised>>
          /\ UNCHANGED <<cancel, asked, ap, apUnsure, apLeft, runs>>
      BY <2>3 DEF NextItem, syncerVars, planVars, resultVars, apVars
    <3> QED
      BY <3>1, <3>2
  <2>2. CASE CancelWifi \/ CancelWifiUnanswered
    BY <2>2 DEF CancelWifi, CancelWifiUnanswered, syncerVars, planVars, resultVars,
       cancelVars, apVars
  <2> QED
    BY <1>4, <2>1, <2>2, <2>3
<1>5. CASE \/ \E s \in Sessions, r \in Sessions : ListSession(s, r)
           \/ \E s \in Sessions : ListingTimesOut(s)
           \/ \E m \in Moments : UserDeletes(m)
           \/ Start \/ UNCHANGED vars
  <2>1. UNCHANGED <<overwrite, all, cancelled, raised, cancelVars, apVars, runs>>
    BY <1>5 DEF ListSession, ListingTimesOut, UserDeletes, Start, vars,
       syncerVars, planVars, resultVars, cancelVars, apVars
  <2> QED
    BY <1>1, <2>1
<1>6. CASE \/ JoinBegins \/ WifiRuns \/ NoMoreItems \/ Fetches \/ FetchFails
           \/ WriteBegins \/ WriteEnds \/ Place \/ LeaveBegins \/ LeaveReturns \/ Save
  <2>1. UNCHANGED <<overwrite, all, cancelled, raised, cancelVars, apVars, runs>>
    BY <1>6 DEF JoinBegins, WifiRuns, NoMoreItems, Fetches, FetchFails, WriteBegins,
       WriteEnds, Place, LeaveBegins, LeaveReturns, Save, syncerVars, planVars,
       resultVars, cancelVars, apVars
  <2> QED
    BY <1>1, <2>1
<1> QED
  BY <1>2, <1>3, <1>4, <1>5, <1>6, <1>7, <1>8 DEF Next, SyncRuns, PlanRuns, Opens

(* The item at hand is a moment of the plan.                               *)
LEMMA ItemIsPlanned ==
  ASSUME PlanTypes, AtHand, pc \in {"fetch", "write", "writing", "place"}
  PROVE  at \in 1..Len(items) /\ Item \in Moments
BY ElementOfSeq DEF PlanTypes, AtHand, Item

LEMMA StoreTypesKept ==
  ASSUME StoreTypes, PlanTypes, AtHand, [Next]_vars
  PROVE  StoreTypes'
<1> USE DEF StoreTypes
<1>1. CASE UNCHANGED <<durableVars, mem>>
  BY <1>1 DEF durableVars
<1>2. CASE Start \/ Crash \/ Save \/ SaveFails \/ (\E m \in Moments : UserDeletes(m))
  BY <1>2 DEF Start, Crash, Save, SaveFails, UserDeletes, durableVars, syncerVars
<1>3. CASE WriteBegins \/ WriteEnds \/ Place
  <2>1. Item \in Moments
    BY <1>3, ItemIsPlanned DEF WriteBegins, WriteEnds, Place, Goes
  <2> QED
    BY <1>3, <2>1 DEF WriteBegins, WriteEnds, Place, Record, syncerVars
<1>4. ASSUME UNCHANGED <<durableVars, syncerVars>> PROVE StoreTypes'
  BY <1>1, <1>4 DEF syncerVars
<1>5. CASE \/ \E s \in Sessions, r \in Sessions : ListSession(s, r)
           \/ \E s \in Sessions : ListingTimesOut(s)
           \/ \E given \in Given : PlanGiven(given[1], given[2])
           \/ Cancel \/ PlanListed \/ UNCHANGED vars
  BY <1>4, <1>5 DEF ListSession, ListingTimesOut, PlanGiven, Cancel, PlanListed,
     PlanCalled, vars
<1>6. CASE PlanRaises \/ RunBegins \/ Opens \/ JoinBegins
           \/ JoinReturns \/ WifiRuns
  BY <1>4, <1>6 DEF PlanRaises, RunBegins, Opens, PlanEnds, Credentials, NoCredentials,
     PreviewEnds, PreviewRaises, JoinBegins, JoinReturns, WifiRuns
<1>7. CASE \/ NextItem \/ Stops \/ NoMoreItems \/ Fetches \/ FetchFails
           \/ DownloadRaises \/ LeaveBegins \/ LeaveReturns \/ CancelWifi
           \/ CancelWifiUnanswered
  BY <1>4, <1>7 DEF NextItem, Stops, NoMoreItems, Fetches, FetchFails, DownloadRaises,
     LeaveBegins, LeaveReturns, CancelWifi, CancelWifiUnanswered
<1> QED
  BY <1>2, <1>3, <1>5, <1>6, <1>7 DEF Next, SyncRuns, PlanRuns, Opens

(* A listing's moments are appended to the plan.                           *)
LEMMA ListingExtends ==
  ASSUME items \in Seq(Moments), skipped \subseteq Moments,
         NEW s \in Sessions, NEW r \in Sessions, ListSession(s, r)
  PROVE  \E more \in Seq(Moments) :
           /\ items' = items \o more /\ items' \in Seq(Moments)
           /\ \A k \in 1..Len(more) : ~Have(more[k])
           /\ Len(items) \in Nat /\ Len(more) \in Nat
           /\ Len(items') = Len(items) + Len(more)
           /\ skipped' \subseteq Moments
<1> DEFINE infos == MomentInfos(s, r)
<1>1. PICK more \in Missing(infos) : items' = items \o more
  BY DEF ListSession
<1>2. skipped' = skipped \cup Present(infos)
  BY DEF ListSession
<1>3. infos \in Seq(Moments)
  BY InfosAreMoments
<1> HIDE DEF infos
<1>4. /\ more \in Seq(Moments) /\ Len(more) \in Nat
      /\ \A k \in 1..Len(more) : ~Have(more[k])
      /\ Present(infos) \subseteq Moments
  BY <1>3, MissingListed
<1>5. Len(items) \in Nat /\ items' \in Seq(Moments) /\ Len(items') = Len(items) + Len(more)
  BY <1>1, <1>4, LenProperties, ConcatProperties
<1> QED
  BY <1>1, <1>2, <1>4, <1>5

(* A plan for given moments lists what is not there.                       *)
LEMMA GivenIsPlanned ==
  ASSUME NEW given \in Given, PlanGiven(given[1], given[2])
  PROVE  /\ items' \in Seq(Moments) /\ Len(items') \in Nat /\ skipped' \subseteq Moments
         /\ \A k \in 1..Len(items') : ~Have(items'[k])
<1> DEFINE infos == [k \in DOMAIN given[2] |-> <<given[1], given[2][k]>>]
<1>1. items' \in Missing(infos) /\ skipped' = Present(infos)
  BY DEF PlanGiven
<1>2. infos \in Seq(Moments)
  BY GivenAreMoments
<1> HIDE DEF infos
<1> QED
  BY <1>1, <1>2, MissingListed

LEMMA PlanTypesKept ==
  ASSUME PlanTypes, AtHand, [Next]_vars
  PROVE  PlanTypes' /\ AtHand'
<1> USE DEF PlanTypes, AtHand
<1>1. items \in Seq(Moments) /\ Len(items) \in Nat
  BY LenProperties
<1>3. CASE \E s \in Sessions, r \in Sessions : ListSession(s, r)
  <2>1. PICK s \in Sessions, r \in Sessions : ListSession(s, r)
    BY <1>3
  <2>2. items' \in Seq(Moments) /\ skipped' \subseteq Moments /\ Len(items') \in Nat
    BY <2>1, ListingExtends
  <2>3. todo' \subseteq Sessions /\ late' \subseteq Sessions /\ since' = since
    BY <2>1 DEF ListSession
  <2>4. /\ pc = "plan" /\ UNCHANGED <<pc, at, downloaded, failed>>
        /\ at = 0 /\ downloaded = {} /\ failed = {}
    BY <2>1 DEF ListSession, resultVars
  <2> QED
    BY <2>2, <2>3, <2>4
<1>4. CASE PlanListed \/ \E given \in Given : PlanGiven(given[1], given[2])
  <2>1. PlanCalled /\ todo' \subseteq Sessions
    BY <1>4 DEF PlanListed, PlanGiven
  <2>2. items' \in Seq(Moments) /\ Len(items') \in Nat /\ skipped' \subseteq Moments
    <3>1. CASE PlanListed
      BY <3>1 DEF PlanListed
    <3>2. CASE \E given \in Given : PlanGiven(given[1], given[2])
      BY <3>2, GivenIsPlanned
    <3> QED
      BY <1>4, <3>1, <3>2
  <2> QED
    BY <2>1, <2>2 DEF PlanCalled
<1>5. CASE Crash \/ PlanRaises
  <2>1. /\ items' = << >> /\ skipped' = {} /\ todo' = {} /\ pc' \in {"off", "idle"}
        /\ since' \subseteq Moments /\ late' \subseteq Sessions
    BY <1>5 DEF Crash, PlanRaises, Goes
  <2>2. at' = 0 /\ downloaded' = {} /\ failed' = {}
    BY <1>5 DEF Crash, PlanRaises, Goes, resultVars
  <2>3. items' \in Seq(Moments) /\ Len(items') = 0
    BY <2>1
  <2> QED
    BY <2>1, <2>2, <2>3
<1>12. CASE RunBegins
  <2>1. /\ UNCHANGED <<todo, late, items, skipped, since>>
        /\ at' = 0 /\ downloaded' = {} /\ failed' = {} /\ pc' \in {"idle", "request"}
    BY <1>12 DEF RunBegins, planVars
  <2> QED
    BY <1>1, <2>1
<1>6. CASE PlanEnds \/ (\E s \in Sessions : ListingTimesOut(s))
  BY <1>1, <1>6 DEF PlanEnds, ListingTimesOut, Goes, resultVars
<1>7. CASE Start \/ Cancel \/ (\E m \in Moments : UserDeletes(m)) \/ UNCHANGED vars
  BY <1>1, <1>7 DEF Start, Cancel, UserDeletes, vars, Goes, planVars, resultVars
<1>8. CASE \/ Credentials \/ NoCredentials \/ PreviewEnds \/ PreviewRaises \/ JoinBegins
           \/ WifiRuns \/ JoinReturns
  <2>1. UNCHANGED <<planVars, downloaded, failed>> /\ at' \in {at, 1}
    BY <1>8 DEF Credentials, NoCredentials, PreviewEnds, PreviewRaises, JoinBegins,
       WifiRuns, JoinReturns, resultVars
  <2>2. at' \in 0..(Len(items') + 1)
    BY <1>1, <2>1 DEF planVars
  <2>3. /\ pc' \in {"idle", "preview", "join", "joining", "next", "leave", "leaving"}
        /\ pc' = "next" => at' = 1
    BY <1>8 DEF Credentials, NoCredentials, PreviewEnds, PreviewRaises, JoinBegins,
       WifiRuns, JoinReturns, Goes
  <2>4. UNCHANGED <<todo, late, items, skipped, since, downloaded, failed>>
    BY <2>1 DEF planVars
  <2> QED
    BY <1>1, <2>2, <2>3, <2>4
<1>9. CASE NextItem \/ Stops \/ NoMoreItems \/ Fetches \/ DownloadRaises
           \/ WriteBegins \/ WriteEnds
  <2>1. UNCHANGED <<todo, late, items, skipped, since, at, downloaded, failed>>
    BY <1>9 DEF NextItem, Stops, NoMoreItems, Fetches, DownloadRaises, WriteBegins,
       WriteEnds, planVars, resultVars
  <2>2. \/ pc' \in {"write", "writing", "place"} /\ at \in 1..Len(items)
        \/ pc' = "fetch" /\ at \in 1..Len(items)
        \/ pc' = "leave"
    BY <1>1, <1>9 DEF NextItem, Stops, NoMoreItems, Fetches, DownloadRaises, WriteBegins,
       WriteEnds, Goes
  <2> QED
    BY <2>1, <2>2
<1>10. CASE FetchFails \/ Place
  <2>1. at \in 1..Len(items) /\ Item \in Moments
    BY <1>10, ItemIsPlanned DEF FetchFails, Place, Goes
  <2>2. /\ UNCHANGED <<todo, late, items, skipped>> /\ since' \subseteq since \cup {Item}
        /\ at' = at + 1 /\ pc' = "next"
        /\ downloaded' \subseteq downloaded \cup {at} /\ failed' \subseteq failed \cup {at}
    BY <1>10 DEF FetchFails, Place, Goes, planVars
  <2> QED
    BY <1>1, <2>1, <2>2
<1>11. CASE \/ LeaveBegins \/ LeaveReturns \/ CancelWifi \/ CancelWifiUnanswered
            \/ Save \/ SaveFails
  BY <1>1, <1>11 DEF LeaveBegins, LeaveReturns, CancelWifi, CancelWifiUnanswered, Save,
     SaveFails, Goes, planVars, resultVars
<1> QED
  BY <1>3, <1>4, <1>5, <1>6, <1>7, <1>8, <1>9, <1>10, <1>11, <1>12
  DEF Next, SyncRuns, PlanRuns

LEMMA TypesKept == Spec => []TypeInv
<1>1. Init => TypeInv
  <2> SUFFICES ASSUME Init PROVE TypeInv
    OBVIOUS
  <2>1. Wifi!TypeOK
    BY DEF Init, Wifi!Init, Wifi!TypeOK
  <2>2. items \in Seq(Moments) /\ Len(items) = 0
    BY DEF Init
  <2>3. FlagTypes
    <3>1. PICK o \in Options : overwrite = o[1]
      BY DEF Init
    <3>2. overwrite \in BOOLEAN
      BY <3>1, CallerAssumption
    <3>3. runs \in 0..RunMax
      BY BoundAssumption DEF Init
    <3> QED
      BY <3>2, <3>3 DEF Init, FlagTypes
  <2> QED
    BY <2>1, <2>2, <2>3 DEF Init, TypeInv, StoreTypes, PlanTypes, AtHand
<1>2. TypeInv /\ [Next]_vars => TypeInv'
  BY StoreTypesKept, PlanTypesKept, FlagTypesKept, WifiTypes DEF TypeInv
<1> QED
  BY <1>1, <1>2, PTL DEF Spec

(* Every variable of Syncer, Catalog and NmcliWifi keeps its type.         *)
THEOREM TypeCorrect == Spec => []TypeOK
<1>1. TypeInv => TypeOK
  BY DEF TypeInv, StoreTypes, PlanTypes, FlagTypes, TypeOK
<1> QED
  BY <1>1, TypesKept, PTL

-----------------------------------------------------------------------------
(* A .part file that is renamed is whole.                                  *)
PartIsWhole == pc = "place" => Item \notin half

PhotosInv == PhotosWhole /\ PartIsWhole

(* A .part file is renamed only after it was written to its end, so that   *)
(* no crash, no failed step and no user leaves a photo that is not whole.  *)
THEOREM PhotosAreWhole == Spec => []PhotosWhole
<1> USE DEF PhotosInv, PhotosWhole, PartIsWhole
<1>1. Init => PhotosInv
  BY DEF Init
<1>2. PhotosInv /\ [Next]_vars => PhotosInv'
  <2> SUFFICES ASSUME PhotosInv, [Next]_vars PROVE PhotosInv'
    OBVIOUS
  <2>1. CASE WriteBegins \/ WriteEnds \/ Place
    BY <2>1 DEF WriteBegins, WriteEnds, Place, Goes, Item, planVars
  <2>2. CASE \/ Start \/ Crash \/ (\E m \in Moments : UserDeletes(m)) \/ Cancel
             \/ PlanListed \/ (\E given \in Given : PlanGiven(given[1], given[2]))
             \/ UNCHANGED vars
    BY <2>2 DEF Start, Crash, UserDeletes, Cancel, PlanListed, PlanGiven, PlanCalled,
       Goes, Item, vars, durableVars, planVars
  <2>3. CASE \/ \E s \in Sessions, r \in Sessions : ListSession(s, r)
             \/ \E s \in Sessions : ListingTimesOut(s)
             \/ PlanRaises \/ RunBegins \/ Opens
             \/ JoinBegins \/ JoinReturns \/ WifiRuns
    BY <2>3 DEF ListSession, ListingTimesOut, PlanRaises, RunBegins, Opens, PlanEnds,
       Credentials, NoCredentials, PreviewEnds, PreviewRaises, JoinBegins, JoinReturns,
       WifiRuns, Goes, durableVars
  <2>4. CASE \/ NextItem \/ Stops \/ NoMoreItems \/ Fetches \/ FetchFails
             \/ DownloadRaises \/ LeaveBegins \/ LeaveReturns \/ CancelWifi
             \/ CancelWifiUnanswered \/ Save \/ SaveFails
    BY <2>4 DEF NextItem, Stops, NoMoreItems, Fetches, FetchFails, DownloadRaises,
       LeaveBegins, LeaveReturns, CancelWifi, CancelWifiUnanswered, Save, SaveFails, Goes,
       durableVars
  <2> QED
    BY <2>1, <2>2, <2>3, <2>4 DEF Next, SyncRuns, PlanRuns, Opens
<1>3. PhotosInv => PhotosWhole
  OBVIOUS
<1> QED
  BY <1>1, <1>2, <1>3, PTL DEF Spec

(* The catalog, in memory and on disk, only has moments whose photo was    *)
(* placed: record comes after the rename, save writes what was recorded.   *)
THEOREM CatalogIsCorrect == Spec => []CatalogIsTrue
<1> USE DEF CatalogIsTrue
<1>1. Init => CatalogIsTrue
  BY DEF Init
<1>2. CatalogIsTrue /\ [Next]_vars => CatalogIsTrue'
  <2> SUFFICES ASSUME CatalogIsTrue, [Next]_vars PROVE CatalogIsTrue'
    OBVIOUS
  <2>1. CASE Place \/ Save \/ SaveFails \/ Start \/ Crash
    BY <2>1 DEF Place, Record, Save, SaveFails, Start, Crash, durableVars, syncerVars
  <2>2. CASE \/ (\E m \in Moments : UserDeletes(m)) \/ WriteBegins \/ WriteEnds
             \/ Cancel \/ PlanListed \/ UNCHANGED vars
             \/ (\E given \in Given : PlanGiven(given[1], given[2]))
    BY <2>2 DEF UserDeletes, WriteBegins, WriteEnds, Cancel, PlanListed, PlanGiven,
       PlanCalled, vars, durableVars, syncerVars
  <2>3. CASE \/ \E s \in Sessions, r \in Sessions : ListSession(s, r)
             \/ \E s \in Sessions : ListingTimesOut(s)
             \/ PlanRaises \/ RunBegins \/ Opens
             \/ JoinBegins \/ JoinReturns \/ WifiRuns
    BY <2>3 DEF ListSession, ListingTimesOut, PlanRaises, RunBegins, Opens, PlanEnds,
       Credentials, NoCredentials, PreviewEnds, PreviewRaises, JoinBegins, JoinReturns,
       WifiRuns, durableVars, syncerVars
  <2>4. CASE \/ NextItem \/ Stops \/ NoMoreItems \/ Fetches \/ FetchFails
             \/ DownloadRaises \/ LeaveBegins \/ LeaveReturns \/ CancelWifi
             \/ CancelWifiUnanswered
    BY <2>4 DEF NextItem, Stops, NoMoreItems, Fetches, FetchFails, DownloadRaises,
       LeaveBegins, LeaveReturns, CancelWifi, CancelWifiUnanswered, durableVars,
       syncerVars
  <2> QED
    BY <2>1, <2>2, <2>3, <2>4 DEF Next, SyncRuns, PlanRuns, Opens
<1> QED
  BY <1>1, <1>2, PTL DEF Spec


(* A cancel of a run stays set until the next one begins.                  *)
CancelInv ==
  /\ CancelStops
  /\ asked => cancel
  /\ pc \in {"plan", "planned"} => ~asked

(* A cancel in a run stays set until the next run, so that no further      *)
(* download of its run begins after it.                                    *)
THEOREM CancelIsHeeded == Spec => []CancelStops
<1> USE DEF CancelInv, CancelStops
<1>1. Init => CancelInv
  BY DEF Init
<1>2. CancelInv /\ [Next]_vars => CancelInv'
  <2> SUFFICES ASSUME CancelInv, [Next]_vars PROVE CancelInv'
    OBVIOUS
  <2>1. CASE NextItem
    <3>1. /\ UNCHANGED <<cancel, asked>> /\ ~asked /\ pc' = "fetch"
          /\ overrun' = (overrun \/ asked)
      BY <2>1 DEF NextItem, Goes
    <3> QED
      BY <3>1
  <2>6. CASE Crash \/ PlanListed \/ (\E given \in Given : PlanGiven(given[1], given[2]))
    <3>1. overrun' = FALSE /\ asked' = FALSE
      BY <2>6 DEF Crash, PlanListed, PlanGiven, PlanCalled
    <3> QED
      BY <3>1
  <2>7. CASE RunBegins
    <3>1. overrun' = FALSE /\ asked' = FALSE
      BY <2>7 DEF RunBegins
    <3> QED
      BY <3>1
  <2>8. CASE Cancel
    <3>1. /\ cancel' /\ UNCHANGED <<pc, overrun>>
          /\ pc \in {"plan", "planned"} => ~asked'
      BY <2>8 DEF Cancel
    <3> QED
      BY <3>1
  <2>2. CASE /\ UNCHANGED cancelVars
             /\ pc' \in {"plan", "planned"} => pc \in {"plan", "planned"}
    BY <2>2 DEF cancelVars
  <2>3. CASE Start \/ (\E m \in Moments : UserDeletes(m)) \/ UNCHANGED vars
    BY <2>2, <2>3 DEF Start, UserDeletes, Goes, vars
  <2>4. CASE \/ \E s \in Sessions, r \in Sessions : ListSession(s, r)
             \/ \E s \in Sessions : ListingTimesOut(s)
             \/ PlanRaises \/ Opens \/ JoinBegins \/ JoinReturns \/ WifiRuns
    BY <2>2, <2>4 DEF ListSession, ListingTimesOut, PlanRaises, Opens, PlanEnds,
       Credentials, NoCredentials, PreviewEnds, PreviewRaises, JoinBegins, JoinReturns,
       WifiRuns, Goes
  <2>5. CASE \/ Stops \/ NoMoreItems \/ Fetches \/ FetchFails \/ DownloadRaises
             \/ WriteBegins \/ WriteEnds \/ Place \/ LeaveBegins \/ LeaveReturns
             \/ CancelWifi \/ CancelWifiUnanswered \/ Save \/ SaveFails
    BY <2>2, <2>5 DEF Stops, NoMoreItems, Fetches, FetchFails, DownloadRaises,
       WriteBegins, WriteEnds, Place, LeaveBegins, LeaveReturns, CancelWifi,
       CancelWifiUnanswered, Save, SaveFails, Goes
  <2> QED
    BY <2>1, <2>3, <2>4, <2>5, <2>6, <2>7, <2>8 DEF Next, SyncRuns, PlanRuns, Opens
<1>3. CancelInv => CancelStops
  OBVIOUS
<1> QED
  BY <1>1, <1>2, <1>3, PTL DEF Spec

(* The access point is only open for sure while a run is to close it.      *)
PointInv ==
  (ap /\ ~apUnsure /\ ~apLeft) =>
    pc \notin {"off", "idle", "plan", "planned", "request", "save"}

(* From the join on every way out of run passes cancel_wifi, with what     *)
(* leave raised swallowed, and before it only an exception of the preview  *)
(* request passes it by: otherwise no call returns or raises with the      *)
(* access point known to be open.                                          *)
THEOREM AccessPointIsClosed == Spec => []AccessPointClosed
<1> USE DEF PointInv
<1>1. Init => PointInv
  BY DEF Init
<1>2. PointInv /\ [Next]_vars => PointInv'
  <2> SUFFICES ASSUME PointInv, [Next]_vars PROVE PointInv'
    OBVIOUS
  <2>1. CASE Crash \/ Opens \/ CancelWifi \/ CancelWifiUnanswered
    BY <2>1 DEF Crash, Opens, PlanEnds, Credentials, NoCredentials, PreviewEnds,
       PreviewRaises, CancelWifi, CancelWifiUnanswered, Goes, apVars
  <2>2. CASE \/ Start \/ (\E m \in Moments : UserDeletes(m)) \/ Cancel
             \/ PlanListed \/ (\E given \in Given : PlanGiven(given[1], given[2]))
             \/ RunBegins \/ UNCHANGED vars
    BY <2>2 DEF Start, UserDeletes, Cancel, PlanListed, PlanGiven, PlanCalled, RunBegins,
       RunCalled, vars, Goes, apVars
  <2>3. CASE \/ \E s \in Sessions, r \in Sessions : ListSession(s, r)
             \/ \E s \in Sessions : ListingTimesOut(s)
             \/ PlanRaises \/ JoinBegins \/ JoinReturns \/ WifiRuns
    BY <2>3 DEF ListSession, ListingTimesOut, PlanRaises, JoinBegins, JoinReturns,
       WifiRuns, Goes, apVars
  <2>4. CASE \/ NextItem \/ Stops \/ NoMoreItems \/ Fetches \/ FetchFails
             \/ DownloadRaises \/ WriteBegins \/ WriteEnds \/ Place \/ LeaveBegins
             \/ LeaveReturns \/ Save \/ SaveFails
    BY <2>4 DEF NextItem, Stops, NoMoreItems, Fetches, FetchFails, DownloadRaises,
       WriteBegins, WriteEnds, Place, LeaveBegins, LeaveReturns, Save, SaveFails, Goes,
       apVars
  <2> QED
    BY <2>1, <2>2, <2>3, <2>4 DEF Next, SyncRuns, PlanRuns, Opens
<1>3. PointInv => AccessPointClosed
  BY DEF AccessPointClosed
<1> QED
  BY <1>1, <1>2, <1>3, PTL DEF Spec


(* What is downloaded is in the catalog of the process, and is on disk     *)
(* once run has returned.                                                  *)
Saved(catalog) == \A i \in downloaded : items[i] \in catalog

Fresh == {"off", "plan", "planned", "request", "preview", "join", "joining"}

SavedInv ==
  /\ Saved(mem)
  /\ pc \in Fresh => downloaded = {}
  /\ (pc = "idle" /\ ~raised) => Saved(disk)

(* A run that returns has saved: what it downloaded is in the catalog on   *)
(* disk, cancelled or not.                                                 *)
THEOREM SavedWhenReturned == Spec => []SavedOnReturn
<1> USE DEF SavedInv, Saved, Fresh
<1>1. Init => SavedInv
  BY DEF Init
<1>2. TypeInv /\ SavedInv /\ [Next]_vars => SavedInv'
  <2> SUFFICES ASSUME TypeInv, SavedInv, [Next]_vars PROVE SavedInv'
    OBVIOUS
  <2>1. CASE Save \/ SaveFails
    BY <2>1 DEF Save, SaveFails, Goes, planVars, durableVars, syncerVars, resultVars
  <2>6. CASE Place
    BY <2>6 DEF Place, Record, Item, Goes
  <2>7. CASE downloaded' = {}
    BY <2>7
  <2>8. CASE \/ Start \/ Crash \/ PlanListed \/ RunBegins
             \/ (\E given \in Given : PlanGiven(given[1], given[2]))
             \/ (\E s \in Sessions, r \in Sessions : ListSession(s, r))
             \/ (\E s \in Sessions : ListingTimesOut(s))
             \/ PlanRaises \/ Opens \/ JoinBegins \/ JoinReturns
    <3>1. downloaded' = {}
      BY <2>8 DEF Start, Crash, PlanListed, RunBegins, PlanGiven, PlanCalled, ListSession,
         ListingTimesOut, PlanRaises, Opens, PlanEnds, Credentials, NoCredentials,
         PreviewEnds, PreviewRaises, JoinBegins, JoinReturns, Goes, resultVars
    <3> QED
      BY <2>7, <3>1
  <2>2. CASE (\E m \in Moments : UserDeletes(m)) \/ Cancel \/ WifiRuns \/ UNCHANGED vars
    BY <2>2 DEF UserDeletes, Cancel, WifiRuns, vars, planVars, durableVars, syncerVars,
       resultVars
  <2>4. CASE \/ NextItem \/ Stops \/ NoMoreItems \/ Fetches \/ FetchFails
             \/ DownloadRaises \/ WriteBegins \/ WriteEnds
    BY <2>4 DEF NextItem, Stops, NoMoreItems, Fetches, FetchFails, DownloadRaises,
       WriteBegins, WriteEnds, Goes, planVars, durableVars, syncerVars, resultVars
  <2>5. CASE LeaveBegins \/ LeaveReturns \/ CancelWifi \/ CancelWifiUnanswered
    BY <2>5 DEF LeaveBegins, LeaveReturns, CancelWifi, CancelWifiUnanswered, Goes,
       planVars, durableVars, syncerVars, resultVars
  <2> QED
    BY <2>1, <2>2, <2>4, <2>5, <2>6, <2>8 DEF Next, SyncRuns, PlanRuns, Opens
<1>3. SavedInv => SavedOnReturn
  BY DEF SavedOnReturn
<1> QED
  BY <1>1, <1>2, <1>3, TypesKept, PTL DEF Spec


(* What the plan has and is there was placed since the plan began.         *)
AbsentInv == ~overwrite => \A i \in 1..Len(items) : items[i] \in photo => items[i] \in since

LEMMA AbsentKept ==
  ASSUME TypeInv, AbsentInv, [Next]_vars
  PROVE  AbsentInv'
<1> USE DEF AbsentInv
<1>0. items \in Seq(Moments) /\ Len(items) \in Nat
  BY LenProperties DEF TypeInv, PlanTypes
<1>1. CASE \E s \in Sessions, r \in Sessions : ListSession(s, r)
  <2>1. PICK s \in Sessions, r \in Sessions : ListSession(s, r)
    BY <1>1
  <2>2. PICK more \in Seq(Moments) :
          /\ items' = items \o more
          /\ \A k \in 1..Len(more) : ~Have(more[k])
    BY <2>1, ListingExtends DEF TypeInv, PlanTypes
  <2>3. UNCHANGED <<overwrite, photo, since>>
    BY <2>1 DEF ListSession, durableVars, syncerVars
  <2>4. ASSUME ~overwrite, NEW i \in 1..Len(items'), items'[i] \in photo
        PROVE  items'[i] \in since
    <3>1. \/ i \in 1..Len(items) /\ items'[i] = items[i]
          \/ i - Len(items) \in 1..Len(more) /\ items'[i] = more[i - Len(items)]
      BY <1>0, <2>2, ConcatElements
    <3>2. CASE i \in 1..Len(items) /\ items'[i] = items[i]
      BY <2>4, <3>2
    <3>3. CASE i - Len(items) \in 1..Len(more) /\ items'[i] = more[i - Len(items)]
      BY <2>2, <2>4, <3>3 DEF Have
    <3> QED
      BY <3>1, <3>2, <3>3
  <2> QED
    BY <2>3, <2>4
<1>2. CASE \E given \in Given : PlanGiven(given[1], given[2])
  <2>1. PICK given \in Given : PlanGiven(given[1], given[2])
    BY <1>2
  <2>2. \A k \in 1..Len(items') : ~Have(items'[k])
    BY <2>1, GivenIsPlanned
  <2>3. UNCHANGED <<overwrite, photo>>
    BY <2>1 DEF PlanGiven, PlanCalled, durableVars, syncerVars
  <2> QED
    BY <2>2, <2>3 DEF Have
<1>3. CASE Crash \/ PlanListed \/ PlanRaises
  <2>1. items' = << >>
    BY <1>3 DEF Crash, PlanListed, PlanRaises
  <2>2. \A i \in 1..Len(items') : FALSE
    BY <2>1
  <2> QED
    BY <2>2
<1>4. CASE Place
  BY <1>4 DEF Place
<1>5. CASE \E m \in Moments : UserDeletes(m)
  BY <1>5 DEF UserDeletes, syncerVars, planVars
<1>6. CASE \/ Start \/ Cancel \/ (\E s \in Sessions : ListingTimesOut(s)) \/ RunBegins
           \/ Opens \/ UNCHANGED vars
  BY <1>6 DEF Start, Cancel, ListingTimesOut, RunBegins, Opens, PlanEnds, Credentials,
     NoCredentials, PreviewEnds, PreviewRaises, vars, planVars, durableVars, syncerVars
<1>7. CASE \/ JoinBegins \/ JoinReturns \/ WifiRuns \/ NextItem \/ Stops \/ NoMoreItems
           \/ Fetches \/ FetchFails
  BY <1>7 DEF JoinBegins, JoinReturns, WifiRuns, NextItem, Stops, NoMoreItems, Fetches,
     FetchFails, planVars, durableVars, syncerVars
<1>8. CASE \/ DownloadRaises \/ WriteBegins \/ WriteEnds \/ LeaveBegins
           \/ LeaveReturns \/ CancelWifi \/ CancelWifiUnanswered \/ Save \/ SaveFails
  BY <1>8 DEF DownloadRaises, WriteBegins, WriteEnds, LeaveBegins, LeaveReturns,
     CancelWifi, CancelWifiUnanswered, Save, SaveFails, planVars, durableVars, syncerVars
<1> QED
  BY <1>1, <1>2, <1>3, <1>4, <1>5, <1>6, <1>7, <1>8 DEF Next, SyncRuns, PlanRuns, Opens

(* Whatever a plan was made of, listings that come late or a list that     *)
(* names a moment twice, and however often it is run: a moment that is     *)
(* fetched although it has a file got the file after the plan began.       *)
THEOREM OnlyMissingIsFetched == Spec => []OnlyMissingFetched
<1>1. Init => AbsentInv
  <2> SUFFICES ASSUME Init PROVE AbsentInv
    OBVIOUS
  <2>1. photo = {}
    BY DEF Init
  <2> QED
    BY <2>1 DEF AbsentInv
<1>2. TypeInv /\ AbsentInv /\ [Next]_vars => AbsentInv'
  BY AbsentKept
<1>3. TypeInv /\ AbsentInv => OnlyMissingFetched
  <2> SUFFICES ASSUME TypeInv, AbsentInv, pc \in {"write", "writing", "place"},
                      ~overwrite, Item \in photo
               PROVE  Item \in since
    BY DEF OnlyMissingFetched
  <2>1. at \in 1..Len(items)
    BY ItemIsPlanned DEF TypeInv
  <2> QED
    BY <2>1 DEF AbsentInv, Item
<1> QED
  BY <1>1, <1>2, <1>3, TypesKept, PTL DEF Spec

(* The result is that of the items before the one at hand.                 *)
Ending == {"leave", "leaving", "cancel_wifi", "save", "idle"}

ResultInv ==
  /\ downloaded \cup failed = 1..(at - 1)
  /\ downloaded \cap failed = {}
  /\ pc \in Fresh => at = 0
  /\ (pc \in Ending /\ ~raised /\ at > 0 /\ at <= Len(items)) => cancelled

LEMMA ResultKept ==
  ASSUME TypeInv, ResultInv, [Next]_vars
  PROVE  ResultInv'
<1> USE DEF ResultInv, Fresh, Ending
<1>0. /\ items \in Seq(Moments) /\ Len(items) \in Nat /\ at \in Nat
      /\ pc = "plan" => at = 0
  BY LenProperties DEF TypeInv, PlanTypes
<1>1. CASE FetchFails \/ Place
  <2>1. /\ at \in 1..Len(items) /\ at' = at + 1 /\ items' = items
        /\ pc' = "next" /\ pc \in {"fetch", "place"}
    BY <1>1, ItemIsPlanned DEF FetchFails, Place, Goes, TypeInv, planVars
  <2>2. 1..(at' - 1) = 1..(at - 1) \cup {at} /\ at \notin 1..(at - 1)
    BY <1>0, <2>1
  <2>3. \/ downloaded' = downloaded \cup {at} /\ failed' = failed
        \/ downloaded' = downloaded /\ failed' = failed \cup {at}
    BY <1>1 DEF FetchFails, Place
  <2> QED
    BY <2>1, <2>2, <2>3
<1>2. CASE JoinReturns
  <2>1. pc = "joining" /\ at = 0 /\ pc' \in {"next", "leave"}
    BY <1>2 DEF JoinReturns
  <2>2. /\ at' \in {0, 1} /\ UNCHANGED <<items, downloaded, failed, cancelled>>
        /\ pc' = "leave" => at' = 0
    BY <1>2, <2>1 DEF JoinReturns, planVars, resultVars
  <2>3. \A n \in {0, 1} : 1..(n - 1) = {}
    OBVIOUS
  <2> QED
    BY <2>1, <2>2, <2>3
<1>3. CASE at' = 0 /\ downloaded' = {} /\ failed' = {}
  <2>1. 1..(0 - 1) = {}
    OBVIOUS
  <2> QED
    BY <1>3, <2>1
<1>4. CASE \/ PlanListed \/ (\E given \in Given : PlanGiven(given[1], given[2]))
           \/ Crash \/ RunBegins
  BY <1>3, <1>4 DEF PlanListed, PlanGiven, PlanCalled, Crash, RunBegins
<1>5. CASE \/ Start \/ (\E s \in Sessions, r \in Sessions : ListSession(s, r))
           \/ (\E s \in Sessions : ListingTimesOut(s))
           \/ PlanRaises \/ Opens \/ JoinBegins
  <2>1. /\ pc \in Fresh /\ at' = at /\ at = 0
        /\ downloaded' = downloaded /\ failed' = failed
    BY <1>5 DEF Start, ListSession, ListingTimesOut, PlanRaises, Opens, PlanEnds,
       Credentials, NoCredentials, PreviewEnds, PreviewRaises, JoinBegins, Goes,
       resultVars
  <2>2. downloaded = {} /\ failed = {}
    BY <2>1
  <2> QED
    BY <1>3, <2>1, <2>2
<1>6. CASE /\ UNCHANGED <<items, at, downloaded, failed, raised, cancelled>>
           /\ pc' \in Fresh => pc \in Fresh
           /\ pc' \in Ending => pc \in Ending
  BY <1>6
<1>7. CASE \/ (\E m \in Moments : UserDeletes(m)) \/ Cancel \/ UNCHANGED vars
           \/ WifiRuns \/ NextItem \/ Fetches \/ WriteBegins \/ WriteEnds
  BY <1>6, <1>7 DEF UserDeletes, Cancel, vars, WifiRuns, NextItem, Fetches, WriteBegins,
     WriteEnds, Goes, planVars, resultVars
<1>8. CASE \/ LeaveBegins \/ LeaveReturns \/ CancelWifi \/ Save
  BY <1>6, <1>8 DEF LeaveBegins, LeaveReturns, CancelWifi, Save, Goes, planVars,
     resultVars
<1>9. CASE CancelWifiUnanswered \/ SaveFails
  <2>1. /\ UNCHANGED <<items, at, downloaded, failed, cancelled>>
        /\ pc \in Ending /\ pc' \in Ending \ Fresh /\ (raised' \/ raised' = raised)
    BY <1>9 DEF CancelWifiUnanswered, SaveFails, Goes, planVars, resultVars
  <2> QED
    BY <2>1
<1>12. CASE Stops \/ NoMoreItems \/ DownloadRaises
  <2>1. UNCHANGED <<items, at, downloaded, failed>> /\ pc' = "leave" /\ pc \notin Fresh
    BY <1>12 DEF Stops, NoMoreItems, DownloadRaises, Goes, planVars, resultVars
  <2>2. cancelled' \/ raised' \/ ~(at <= Len(items))
    BY <1>0, <1>12 DEF Stops, NoMoreItems, DownloadRaises
  <2> QED
    BY <2>1, <2>2
<1> QED
  BY <1>1, <1>2, <1>4, <1>5, <1>7, <1>8, <1>9, <1>12
  DEF Next, SyncRuns, PlanRuns, Opens

(* SyncResult accounts for every item of the plan up to the one at hand,   *)
(* as downloaded or as failed and never as both, and a run that returns    *)
(* before its last item says that it was cancelled.                        *)
THEOREM EveryItemAccounted == Spec => []ResultAccounts
<1>1. Init => ResultInv
  <2>1. 1..(0 - 1) = {}
    OBVIOUS
  <2> QED
    BY <2>1 DEF Init, ResultInv, Fresh, Ending
<1>2. TypeInv /\ ResultInv /\ [Next]_vars => ResultInv'
  BY ResultKept
<1>3. ResultInv => ResultAccounts
  BY DEF ResultInv, ResultAccounts, Ending
<1> QED
  BY <1>1, <1>2, <1>3, TypesKept, PTL DEF Spec

(* Where the joiner is, by where sync is.                                  *)
JoinerInv ==
  /\ pc \in {"off", "idle", "plan", "planned", "request", "preview", "join", "cancel_wifi",
            "save"} =>
       step \in {"out", "left"} /\ ~inJoin
  /\ pc = "joining" =>
       \/ step \in {"scan", "connect", "joined", "refused", "raised"} /\ ~inJoin
       \/ step \in {"forget", "restore"} /\ inJoin
  /\ pc \in {"next", "fetch", "write", "writing", "place"} => step = "joined" /\ ~inJoin
  /\ pc = "leave" => step \in {"joined", "refused", "raised"} /\ ~inJoin
  /\ pc = "leaving" => step \in {"forget", "restore", "left"} /\ ~inJoin

Home == IF restore THEN active = "home" ELSE active # "camera"

(* Where the machine is once NmcliWifi has restored what it remembers.     *)
WillBeHome ==
  IF restore THEN (IF Wifi!CanComeUp(previous) THEN previous ELSE active) = "home"
             ELSE active # "camera"

(* Unless a command failed: at home before the network is joined, and on   *)
(* the way there from then on.                                             *)
HomeInv ==
  /\ step \in {"scan", "connect", "joined"} => ssid
  /\ step = "restore" => ~ssid
  /\ ~broken =>
       /\ step \in {"out", "scan", "connect", "left"} => Home
       /\ (ssid /\ restore /\ step \notin {"out", "left"}) => previous = "home"
       /\ (~ssid /\ step \in {"refused", "raised", "forget", "restore"}) => WillBeHome

LEMMA JoinerKept ==
  ASSUME TypeInv, JoinerInv, [Next]_vars
  PROVE  JoinerInv'
<1> USE DEF JoinerInv
<1>0. inJoin \in BOOLEAN /\ (UNCHANGED wifiVars => UNCHANGED <<step, inJoin>>)
  BY DEF TypeInv, Wifi!TypeOK, wifiVars
<1>1. CASE WifiRuns
  <2>1. pc \in {"joining", "leaving"} /\ pc' = pc /\ Wifi!Runs
    BY <1>1 DEF WifiRuns
  <2>2. CASE \/ Wifi!ScanFinds \/ Wifi!ScanMisses \/ Wifi!ScanRaises
             \/ Wifi!ConnectSucceeds \/ Wifi!ConnectRaises
    <3>1. /\ step \in {"scan", "connect"} /\ inJoin' = inJoin
          /\ step' \in {"connect", "joined", "refused", "raised"}
      BY <2>2 DEF Wifi!ScanFinds, Wifi!ScanMisses, Wifi!ScanRaises,
         Wifi!ConnectSucceeds, Wifi!ConnectRaises, Wifi!Goes, Wifi!allButStep
    <3> QED
      BY <2>1, <3>1
  <2>3. CASE Wifi!ConnectFails \/ Wifi!Forget \/ Wifi!ForgetFails
    BY <2>1, <2>3 DEF Wifi!ConnectFails, Wifi!Forget, Wifi!ForgetFails, Wifi!Goes
  <2>4. CASE Wifi!ForgetRaises \/ Wifi!Restore \/ Wifi!RestoreFails
    <3>1. /\ step \in {"forget", "restore"} /\ inJoin' = FALSE
          /\ IF inJoin THEN step' \in {"raised", "refused"} ELSE step' = "left"
      BY <2>4 DEF Wifi!ForgetRaises, Wifi!Restore, Wifi!RestoreFails, Wifi!LeaveReturns
    <3> QED
      BY <2>1, <3>1
  <2> QED
    BY <2>1, <2>2, <2>3, <2>4 DEF Wifi!Runs
<1>2. CASE JoinBegins \/ LeaveBegins \/ Crash
  BY <1>2 DEF JoinBegins, LeaveBegins, Crash, Wifi!BeginJoin, Wifi!NoInterface,
     Wifi!BeginLeave, Wifi!Dies, Goes
<1>3. CASE \/ Start \/ (\E m \in Moments : UserDeletes(m)) \/ Cancel \/ PlanListed
           \/ (\E given \in Given : PlanGiven(given[1], given[2])) \/ UNCHANGED vars
  <2>1. UNCHANGED wifiVars
    BY <1>3 DEF Start, UserDeletes, Cancel, PlanListed, PlanGiven, PlanCalled, vars,
     Goes
  <2>2. pc' = pc \/ (pc \in {"off", "idle", "planned"} /\ pc' \in {"idle", "plan"})
    BY <1>3 DEF Start, UserDeletes, Cancel, PlanListed, PlanGiven, PlanCalled, vars,
     Goes
  <2> QED
    BY <1>0, <2>1, <2>2
<1>4. CASE \/ \E s \in Sessions, r \in Sessions : ListSession(s, r)
           \/ \E s \in Sessions : ListingTimesOut(s)
           \/ PlanRaises \/ RunBegins \/ Opens \/ JoinReturns
  <2>1. UNCHANGED wifiVars
    BY <1>4 DEF ListSession, ListingTimesOut, PlanRaises, RunBegins, Opens, PlanEnds,
       Credentials, NoCredentials, PreviewEnds, PreviewRaises, JoinReturns, Goes
  <2>2. \/ pc' = pc
        \/ /\ pc \in {"idle", "plan", "planned", "request", "preview"}
           /\ pc' \in {"idle", "planned", "request", "preview", "join"}
        \/ pc = "joining" /\ step = "joined" /\ pc' = "next"
        \/ pc = "joining" /\ step \in {"refused", "raised"} /\ pc' = "leave"
    BY <1>4 DEF ListSession, ListingTimesOut, PlanRaises, RunBegins, Opens, PlanEnds,
       Credentials, NoCredentials, PreviewEnds, PreviewRaises, JoinReturns,
       RunCalled, Goes
  <2> QED
    BY <1>0, <2>1, <2>2
<1>5. CASE \/ NextItem \/ Stops \/ NoMoreItems \/ Fetches \/ FetchFails
           \/ DownloadRaises \/ WriteBegins \/ WriteEnds \/ Place
  BY <1>0, <1>5 DEF NextItem, Stops, NoMoreItems, Fetches, FetchFails, DownloadRaises,
     WriteBegins, WriteEnds, Place, Goes
<1>6. CASE LeaveReturns \/ CancelWifi \/ CancelWifiUnanswered \/ Save \/ SaveFails
  <2>1. UNCHANGED wifiVars
    BY <1>6 DEF LeaveReturns, CancelWifi, CancelWifiUnanswered, Save, SaveFails, Goes
  <2>2. \/ pc = "leaving" /\ step = "left" /\ pc' = "cancel_wifi"
        \/ pc \in {"cancel_wifi", "save"} /\ pc' \in {"save", "idle"}
    BY <1>6 DEF LeaveReturns, CancelWifi, CancelWifiUnanswered, Save, SaveFails, Goes
  <2> QED
    BY <1>0, <2>1, <2>2
<1> QED
  BY <1>1, <1>2, <1>3, <1>4, <1>5, <1>6 DEF Next, SyncRuns, PlanRuns, Opens

LEMMA HomeKept ==
  ASSUME Wifi!TypeOK, HomeInv, [Next]_vars
  PROVE  HomeInv'
<1> USE DEF HomeInv, Home, WillBeHome, Wifi!CanComeUp
<1>1. CASE UNCHANGED wifiVars
  BY <1>1 DEF wifiVars
<1>2. CASE Wifi!BeginJoin \/ Wifi!NoInterface
  <2>1. /\ step \in {"out", "left"} /\ UNCHANGED <<active, restore>>
        /\ broken' = (broken \/ previous' # active) \/ broken' = broken
    BY <1>2 DEF Wifi!BeginJoin, Wifi!NoInterface, Wifi!hostVars
  <2>2. CASE Wifi!BeginJoin
    <3>1. step' = "scan" /\ ssid' /\ (~broken' => ~broken /\ previous' = active)
      BY <2>2 DEF Wifi!BeginJoin, Wifi!TypeOK
    <3> QED
      BY <2>1, <3>1
  <2>3. CASE Wifi!NoInterface
    BY <2>1, <2>3 DEF Wifi!NoInterface, Wifi!hostVars
  <2> QED
    BY <1>2, <2>2, <2>3
<1>3. CASE Wifi!BeginLeave \/ Wifi!Dies
  <2>1. CASE Wifi!BeginLeave
    BY <2>1 DEF Wifi!BeginLeave, Wifi!hostVars
  <2>2. CASE Wifi!Dies
    <3>1. /\ step' = "out" /\ ~ssid' /\ UNCHANGED <<active, restore>>
          /\ ~broken' => ~broken /\ step \in {"out", "left"}
      BY <2>2 DEF Wifi!Dies, Wifi!TypeOK
    <3> QED
      BY <3>1
  <2> QED
    BY <1>3, <2>1, <2>2
<1>4. CASE Wifi!ScanFinds \/ Wifi!ScanMisses \/ Wifi!ScanRaises
  BY <1>4 DEF Wifi!ScanFinds, Wifi!ScanMisses, Wifi!ScanRaises, Wifi!Goes,
     Wifi!allButStep, Wifi!hostVars
<1>5. CASE Wifi!ConnectSucceeds \/ Wifi!ConnectFails \/ Wifi!ConnectRaises
  <2>1. /\ step = "connect" /\ step' \in {"joined", "forget", "raised"}
        /\ UNCHANGED <<broken, previous, ssid, restore>>
    BY <1>5 DEF Wifi!ConnectSucceeds, Wifi!ConnectFails, Wifi!ConnectRaises, Wifi!Goes
  <2> QED
    BY <2>1
<1>6. CASE Wifi!Forget
  <2>1. step = "forget" /\ step' = "restore" /\ UNCHANGED <<broken, previous, restore>>
    BY <1>6 DEF Wifi!Forget, Wifi!Goes
  <2>2. CASE ssid
    BY <1>6, <2>1, <2>2 DEF Wifi!Forget, Wifi!TypeOK
  <2>3. CASE ~ssid
    BY <1>6, <2>1, <2>3 DEF Wifi!Forget
  <2> QED
    BY <2>2, <2>3
<1>7. CASE Wifi!Restore
  BY <1>7 DEF Wifi!Restore, Wifi!LeaveReturns
<1>8. CASE Wifi!ForgetFails \/ Wifi!ForgetRaises \/ Wifi!RestoreFails
  BY <1>8 DEF Wifi!ForgetFails, Wifi!ForgetRaises, Wifi!RestoreFails, Wifi!LeaveReturns,
     Wifi!Goes
<1> QED
  BY <1>1, <1>2, <1>3, <1>4, <1>5, <1>6, <1>7, <1>8, WifiMoves DEF Wifi!Runs

(* Sync returns with the machine back on its network, or off the camera's  *)
(* where it is not to restore, whatever happened in between, unless a      *)
(* command that restores has failed: leave is reached from everywhere, and *)
(* restores what join remembered before it touched anything.               *)
THEOREM NetworkIsRestored == Spec => []NetworkRestored
<1>1. Init => JoinerInv /\ HomeInv
  BY DEF Init, Wifi!Init, JoinerInv, HomeInv, Home
<1>2. TypeInv /\ JoinerInv /\ HomeInv /\ [Next]_vars => JoinerInv' /\ HomeInv'
  BY JoinerKept, HomeKept DEF TypeInv
<1>3. JoinerInv /\ HomeInv => NetworkRestored
  BY DEF JoinerInv, HomeInv, Home, NetworkRestored
<1> QED
  BY <1>1, <1>2, <1>3, TypesKept, PTL DEF Spec
=============================================================================
