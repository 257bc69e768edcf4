------------------------------- MODULE Messages -------------------------------
(***************************************************************************)
(* What the messages of a session mean: requests and answers (framing.py,  *)
(* constants.py, camera.py _classify and _matches), state reports and the  *)
(* mirror kept of them (proto.py CameraState), the listings (proto.py).    *)
(* Every message is written and read byte by byte with Codec; encryption   *)
(* is SecureChannel's matter and leaves the bytes alone.                   *)
(*                                                                         *)
(* The camera's side is external: it answers request type t in field       *)
(* t + 1, echoes the sequence number, and reports its state in entries of  *)
(* field 1, alone or beside an answer, as proto/clips_ble.proto has it.    *)
(***************************************************************************)
EXTENDS Codec, FiniteSets

CONSTANTS
  Numbers,      \* the values the camera reports
  Seqs,         \* the sequence numbers of requests
  Rows,         \* bound: the moments of a listing
  ReportsMax    \* bound: the camera's messages

VARIABLES
  state,        \* CameraState: attribute to the sequence of its value, << >> for None
  told,         \* what the camera has last said of each attribute
  message,      \* what the camera's latest message says
  indication,   \* its bytes, decrypted and parsed; << >> before the first
  reported      \* bound: counts the camera's messages

msgVars == <<state, told, message, indication, reported>>

RT_PRIVATE_QUERY == 2
RT_KEEP_ALIVE == 3
RT_SET_UPDATE_REQUIRED == 8
RT_INITIATE_WIFI == 9
RT_CANCEL_WIFI == 10
RT_LIST_SESSIONS == 11
RT_LIST_MOMENTS == 12
RT_DELETE_MOMENTS == 14
RT_COMPLETE_SESSION == 21
RT_CAPTURE_PREVIEW == 27
RT_CANCEL_CAPTURE_PREVIEW == 28
RT_SET_COVER == 29
RT_FLASH_IDENTIFY_LEDS == 35
RT_SHUTTER == 42
RT_MOVE_TO_TRASH == 49
RT_RESTORE_FROM_TRASH == 50
RT_ACTIVE_USER == 51
RT_DISABLE_TIMEOUTS == 2048

(* The types the methods of Camera send on the secure channel.             *)
SentTypes ==
  {RT_PRIVATE_QUERY, RT_KEEP_ALIVE, RT_SET_UPDATE_REQUIRED, RT_INITIATE_WIFI,
   RT_CANCEL_WIFI, RT_LIST_SESSIONS, RT_LIST_MOMENTS, RT_DELETE_MOMENTS,
   RT_COMPLETE_SESSION, RT_CAPTURE_PREVIEW, RT_CANCEL_CAPTURE_PREVIEW,
   RT_SET_COVER, RT_FLASH_IDENTIFY_LEDS, RT_SHUTTER, RT_MOVE_TO_TRASH,
   RT_RESTORE_FROM_TRASH, RT_ACTIVE_USER, RT_DISABLE_TIMEOUTS}

STATUS_SUCCESS == 1
STATUS_FAILURE == 2

ResponseField(rtype) == rtype + 1

-----------------------------------------------------------------------------
(* Answers.  The helpers take pt parsed, <<entries>> or Malformed: each of *)
(* the code's parses the same bytes anew.                                  *)
IsKeepaliveResponse(pt) ==
  /\ pt # Malformed
  /\ ResponseField(RT_KEEP_ALIVE) \in FieldsOf(pt[1])
  /\ FieldsOf(pt[1]) \subseteq {ResponseField(RT_KEEP_ALIVE), SEQ_ECHO_FIELD}

ResponseFields(pt) == IF pt = Malformed THEN {} ELSE FieldsOf(pt[1]) \ {SEQ_ECHO_FIELD}

(* _matches for a request, which names the field it waits for.             *)
Matches(pt, field) == pt # Malformed /\ field \in FieldsOf(pt[1])

(* The payload of the answer, Malformed when there is none.                *)
Inner(pt, rtype) ==
  LET at == IF pt = Malformed THEN {} ELSE PlacesOf(pt[1], ResponseField(rtype))
  IN IF at = {} THEN Malformed
     ELSE <<IF pt[1][Min(at)].bytes THEN pt[1][Min(at)].value ELSE << >> >>

ParseStatus(pt, rtype) ==
  LET inner == Inner(pt, rtype)
  IN IF inner \in {Malformed, << << >> >>} THEN << >>
     ELSE Value(ParsePb(inner[1])[1], 1, << >>)

IsSuccess(pt, rtype) == ParseStatus(pt, rtype) = <<STATUS_SUCCESS>>

-----------------------------------------------------------------------------
(* The mirror.                                                             *)
NoState ==
  [battery_pct |-> << >>, charge_state |-> << >>, system_state |-> << >>,
   session_uuid |-> << >>, storage_level |-> << >>, storage_state |-> << >>,
   session_mode |-> << >>, cover_open |-> << >>, occlusion |-> << >>,
   wifi_state |-> << >>, active_device_id |-> << >>]

Truth(v) == IF v = << >> THEN v ELSE <<IF v = <<0>> THEN 0 ELSE 1>>

Apply(st, kind, inner) ==
  LET Read(field, attr) == Value(inner, field, st[attr])
  IN CASE kind = 1 -> [st EXCEPT !.battery_pct = Read(1, "battery_pct"),
                                 !.charge_state = Read(2, "charge_state")]
       [] kind = 2 -> [st EXCEPT !.system_state = Read(1, "system_state")]
       [] kind = 3 -> [st EXCEPT !.session_uuid = Read(1, "session_uuid")]
       [] kind = 4 -> [st EXCEPT !.storage_level = Read(1, "storage_level"),
                                 !.storage_state = Read(2, "storage_state")]
       [] kind = 5 -> [st EXCEPT !.session_mode = Read(1, "session_mode")]
       [] kind = 9 -> [st EXCEPT !.cover_open = Truth(Read(1, "cover_open"))]
       [] kind = 10 -> [st EXCEPT !.occlusion = Read(1, "occlusion")]
       [] kind = 13 -> [st EXCEPT !.wifi_state = Read(1, "wifi_state")]
       [] kind \in {16, 100} ->
            [st EXCEPT !.active_device_id = Value(inner, 2, Read(1, "active_device_id"))]
       [] OTHER -> st

(* The entries of a parse, none of one that failed.                        *)
Known(p) == IF p = Malformed THEN << >> ELSE p[1]

(* The entries of one blob: of each kind the first, in the order of the    *)
(* first ones; a payload that is a bare number stands for field 1.         *)
Firsts(es) ==
  Kept(es, {i \in DOMAIN es : \A j \in 1..(i - 1) : es[j].field # es[i].field})

FieldsIn(e) == IF e.bytes THEN Known(ParsePb(e.value)) ELSE <<Entry(1, FALSE, e.value)>>

Kinds(es) == [n \in DOMAIN es |-> [kind |-> es[n].field, inner |-> FieldsIn(es[n])]]

StateEntries(blob) == Kinds(Firsts(Known(ParsePb(blob))))

BlobsIn(pt) == IF pt = Malformed THEN << >> ELSE Kept(pt[1], BytesOf(pt[1], 1))

(* Mutant of EntriesOf: the first blob stands for all.                     *)
EntriesOfFirst(blobs) == IF blobs = << >> THEN << >> ELSE StateEntries(blobs[1].value)

EntriesOf(blobs) == FlattenSeq([i \in DOMAIN blobs |-> StateEntries(blobs[i].value)])

EntriesIn(pt) == EntriesOf(BlobsIn(pt))

(* _apply, one entry after the other.                                      *)
Applied(st, entries) ==
  LET after[n \in 0..Len(entries)] ==
        IF n = 0 THEN st ELSE Apply(after[n - 1], entries[n].kind, entries[n].inner)
  IN after[Len(entries)]

UpdateFrom(st, pt) == Applied(st, EntriesIn(pt))

(* Mutant of Absorbed: whatever brings state is taken for a notification.  *)
AbsorbedGreedily(pt) == IsKeepaliveResponse(pt) \/ EntriesIn(pt) # << >>

(* _classify: a keepalive answer, or state and nothing else.               *)
Absorbed(pt) ==
  \/ IsKeepaliveResponse(pt)
  \/ EntriesIn(pt) # << >> /\ Cardinality(ResponseFields(pt)) <= 1

Classified(st, pt) == IF IsKeepaliveResponse(pt) THEN st ELSE UpdateFrom(st, pt)

-----------------------------------------------------------------------------
(* Listings.                                                               *)
BuildListSessions(newer, count) == PbFixed64(1, newer) \o PbUint(2, count)

BuildListMoments(session) ==
  PbFixed64(1, session) \o PbBool(2, TRUE) \o PbBool(3, TRUE) \o PbBool(4, TRUE)
    \o PbBool(5, TRUE) \o PbBool(6, TRUE)

BuildDeleteMoments(session, ids) ==
  PbBytes(1, PbFixed64(1, session) \o PbPackedVarints(2, ids))

Chunks(bytes, size) ==
  [i \in 1..(Len(bytes) \div size) |-> SubSeq(bytes, size * (i - 1) + 1, size * i)]

(* The body of a listing: the answer's payload, the answer when it is      *)
(* empty.                                                                  *)
Listing(pt, rtype) ==
  LET inner == FirstBytes(pt[1], ResponseField(rtype))
  IN IF inner = << >> THEN pt[1] ELSE ParsePb(inner)[1]

(* The value of every entry of a field, one behind the other.              *)
SessionIds(e) ==
  IF e.bytes THEN [i \in DOMAIN Chunks(e.value, Fixed64Size) |->
                     Number(Chunks(e.value, Fixed64Size)[i])]
  ELSE e.value

SessionsIn(h) ==
  LET lists == Kept(h, PlacesOf(h, 2))
  IN [status |-> Value(h, 1, << >>),
      session_ids |-> FlattenSeq([i \in DOMAIN lists |-> SessionIds(lists[i])]),
      open_session |-> Value(h, 3, << >>)]

ParseListSessions(pt) == SessionsIn(Listing(pt, RT_LIST_SESSIONS))

(* The i-th of a column the camera need not send, << >> when it stops      *)
(* short.                                                                  *)
Cell(column, i) == IF i <= Len(column) THEN <<column[i]>> ELSE << >>

(* Mutant of Moments: the columns are joined from the end.                 *)
MomentsBack(ids, timestamps, scores, triage) ==
  [i \in DOMAIN ids |->
     [moment_id |-> ids[i], timestamp_ms |-> Cell(timestamps, Len(ids) + 1 - i),
      score |-> Cell(scores, i), triage |-> Cell(triage, i)]]

Moments(ids, timestamps, scores, triage) ==
  [i \in DOMAIN ids |->
     [moment_id |-> ids[i], timestamp_ms |-> Cell(timestamps, i),
      score |-> Cell(scores, i), triage |-> Cell(triage, i)]]

(* A score is a float32: its bytes.                                        *)
MomentIds(e) == IF e.bytes THEN ParsePackedVarints(e.value)[1] ELSE e.value

Column(h, field) == ParsePackedVarints(FirstBytes(h, field))[1]

MomentsIn(h) ==
  LET lists == Kept(h, PlacesOf(h, 2))
  IN [status |-> Value(h, 1, << >>),
      moments |-> Moments(FlattenSeq([i \in DOMAIN lists |-> MomentIds(lists[i])]),
                          Column(h, 5), Chunks(FirstBytes(h, 6), Fixed32Size), Column(h, 7)),
      is_final |-> Value(h, 3, << >>)]

ParseListMoments(pt) == MomentsIn(Listing(pt, RT_LIST_MOMENTS))

-----------------------------------------------------------------------------
(* The camera.  A report is one entry; what it says is written down beside *)
(* its bytes.                                                              *)
Report(kind, payload, says) ==
  [blob |-> PbBytes(kind, payload), says |-> says]

(* The reports of a number, and those of the cover.                        *)
ReportsOf(n) ==
  {Report(1, PbUint(1, n), [battery_pct |-> n]),
   Report(1, PbUint(1, n) \o PbUint(2, 2), [battery_pct |-> n, charge_state |-> 2]),
   Report(2, PbUint(1, n), [system_state |-> n]),
   Report(3, PbUint(1, n), [session_uuid |-> n]),
   Report(4, PbUint(1, n) \o PbUint(2, 1), [storage_level |-> n, storage_state |-> 1]),
   Report(4, PbUint(2, n), [storage_state |-> n]),
   Report(5, PbUint(1, n), [session_mode |-> n]),
   Report(10, PbUint(1, n), [occlusion |-> n]),
   Report(13, PbUint(1, n), [wifi_state |-> n]),
   Report(16, PbUint(2, n), [active_device_id |-> n]),
   Report(100, PbUint(1, 1) \o PbUint(2, n), [active_device_id |-> n]),
   Report(8, PbUint(1, n), << >>)}

CoverReports == {Report(9, PbUint(1, b), [cover_open |-> b]) : b \in {0, 1}}

Reports == CoverReports \cup UNION {ReportsOf(n) : n \in Numbers}

NoAnswer == [type |-> 0, seq |-> 0, body |-> << >>, status |-> << >>, rows |-> << >>]

Status(s) == PbUint(1, s)

(* The moments of a listing, which of its columns the camera sends, and    *)
(* the body they make.                                                     *)
Row(i, columns) ==
  [moment_id |-> 150 * i,
   timestamp_ms |-> IF "timestamps" \in columns THEN <<Word - i>> ELSE << >>,
   score |-> IF "scores" \in columns THEN <<LittleEndian(i, Fixed32Size)>> ELSE << >>,
   triage |-> IF "triage" \in columns THEN <<i>> ELSE << >>]

MomentsBody(n, columns) ==
  LET rows == [i \in 1..n |-> Row(i, columns)]
      Present(name, bytes) == IF name \in columns THEN bytes ELSE << >>
  IN Status(STATUS_SUCCESS)
       \o PbPackedVarints(2, [i \in 1..n |-> rows[i].moment_id]) \o PbBool(3, TRUE)
       \o Present("timestamps", PbPackedVarints(5, [i \in 1..n |-> Word - i]))
       \o Present("scores", PbBytes(6, FlattenSeq([i \in 1..n |-> LittleEndian(i, Fixed32Size)])))
       \o Present("triage", PbPackedVarints(7, [i \in 1..n |-> i]))

SessionsBody(ids) ==
  Status(STATUS_SUCCESS)
    \o PbBytes(2, FlattenSeq([i \in DOMAIN ids |-> LittleEndian(ids[i], Fixed64Size)]))

(* The answers to a request of this type and sequence number.              *)
Answer(type, seq, body, status, rows) ==
  [type |-> type, seq |-> seq, body |-> body, status |-> status, rows |-> rows]

MomentsAnswers(seq) ==
  UNION {
    {Answer(RT_LIST_MOMENTS, seq, MomentsBody(n, columns), <<STATUS_SUCCESS>>,
            [i \in 1..n |-> Row(i, columns)]) :
       columns \in SUBSET {"timestamps", "scores", "triage"}} : n \in 0..Rows}

SessionsAnswers(seq) ==
  {Answer(RT_LIST_SESSIONS, seq, SessionsBody(ids), <<STATUS_SUCCESS>>, ids) :
     ids \in UNION {[1..n -> {1, Word - 1}] : n \in 0..Rows}}

StatusAnswers(type, seq) ==
  {Answer(type, seq, Status(s), <<s>>, << >>) : s \in {STATUS_SUCCESS, STATUS_FAILURE}}
    \cup {Answer(type, seq, << >>, << >>, << >>)}

AnswersTo(type, seq) ==
  CASE type = RT_LIST_MOMENTS  -> MomentsAnswers(seq)
    [] type = RT_LIST_SESSIONS -> SessionsAnswers(seq)
    [] OTHER                   -> StatusAnswers(type, seq)

(* The camera takes type and sequence number out of the frame, never from  *)
(* the host directly.                                                      *)
AnswersOf(request) ==
  AnswersTo(CHOOSE t \in FieldsOf(request) \ {SEQ_FIELD} : TRUE,
            Value(request, SEQ_FIELD, << >>)[1])

Answers(frame) == AnswersOf(ParsePb(StripBqs(frame))[1])

Request(rtype, seq) ==
  LET inner == CASE rtype = RT_LIST_SESSIONS  -> BuildListSessions(0, 20)
                 [] rtype = RT_LIST_MOMENTS   -> BuildListMoments(Word - 1)
                 [] rtype = RT_DELETE_MOMENTS -> BuildDeleteMoments(1, <<1, 300>>)
                 [] OTHER                     -> << >>
  IN BqsFrame(RequestPayload(rtype, inner, seq))

Outer(answer, reports) ==
  FlattenSeq([i \in DOMAIN reports |-> PbBytes(1, reports[i].blob)])
    \o (IF answer = NoAnswer THEN << >>
        ELSE PbBytes(ResponseField(answer.type), answer.body)
               \o PbUint(SEQ_ECHO_FIELD, answer.seq))

Says(known, report) ==
  [a \in DOMAIN known |->
     IF a \in DOMAIN report.says THEN <<report.says[a]>> ELSE known[a]]

(* What is known after the reports, one after the other.                   *)
Heard(known, reports) ==
  LET after[n \in 0..Len(reports)] ==
        IF n = 0 THEN known ELSE Says(after[n - 1], reports[n])
  IN after[Len(reports)]

(* Numbers fit the word, and so does the length of whatever is sent; the   *)
(* largest field's tag does as well.                                       *)
ASSUME FitAssumption ==
  /\ Numbers \subseteq 0..(Word - 1) /\ Seqs \subseteq 0..(Word - 1)
  /\ Rows \in Nat /\ 150 * Rows < Word
  /\ 8 * ResponseField(RT_DISABLE_TIMEOUTS) + 7 < Word
  /\ \A r \in Reports : Len(r.blob) < Word
  /\ \A t \in SentTypes, seq \in Seqs : Len(Request(t, seq)) < Word
  /\ \A t \in SentTypes, seq \in Seqs : \A a \in AnswersTo(t, seq) : Len(a.body) < Word

-----------------------------------------------------------------------------
MsgInit ==
  /\ state = NoState /\ told = NoState
  /\ message = [answer |-> NoAnswer, reports |-> << >>]
  /\ indication = << >>
  /\ reported = 0

(* An indication arrives, is stripped, parsed and classified.              *)
Take(answer, reports, pt) ==
  /\ message' = [answer |-> answer, reports |-> reports]
  /\ indication' = pt
  /\ state' = Classified(state, pt)
  /\ told' = Heard(told, reports)

(* A message is shorter than the word.                                     *)
Receive(answer, reports) ==
  /\ Len(Outer(answer, reports)) < Word
  /\ Take(answer, reports, ParsePb(StripBqs(BqsFrame(Outer(answer, reports)))))

(* Reports on the camera's own account, several in one message at times.   *)
Notify ==
  /\ reported < ReportsMax
  /\ \E r \in Reports :
       Receive(NoAnswer, <<r>>) \/ Receive(NoAnswer, Append(message.reports, r))
  /\ reported' = reported + 1

(* The answer to a request, which may bring a report along.  Bound: one    *)
(* report before it at most.                                               *)
AnswerRequest ==
  /\ reported <= 1
  /\ \E t \in SentTypes, seq \in Seqs : \E a \in Answers(Request(t, seq)) :
       \/ Receive(a, << >>)
       \/ t # RT_KEEP_ALIVE /\ \E r \in Reports : Receive(a, <<r>>)
  /\ reported' = ReportsMax

MsgNext == Notify \/ AnswerRequest

MsgSpec == MsgInit /\ [][MsgNext]_msgVars

-----------------------------------------------------------------------------
(* The mirror holds of every attribute what the camera last said of it,    *)
(* zero included, however the reports were packed: one or several in a     *)
(* message, alone or beside an answer (CameraState.update_from, _apply).   *)
MirrorIsWhatWasTold == state = told

(* The answer to a request is left for the request of its type and no      *)
(* other, with or without state beside it, an empty one too; state on its  *)
(* own and keepalive answers are absorbed and match no request; success is *)
(* read where the camera wrote it (_classify, _matches, is_success).       *)
AnswersReachTheirRequest ==
  LET a == message.answer
      waiting == SentTypes \ {RT_KEEP_ALIVE}
      taken == {t \in waiting : Matches(indication, ResponseField(t))}
  IN IF a = NoAnswer \/ a.type = RT_KEEP_ALIVE
       THEN taken = {} /\ (indication # << >> => Absorbed(indication))
       ELSE /\ taken = {a.type}
            /\ ~Absorbed(indication)
            /\ IsSuccess(indication, a.type) <=> a.status = <<STATUS_SUCCESS>>

(* A listing is read as the camera wrote it: every id, and beside each     *)
(* moment its own timestamp, score and triage or none at all               *)
(* (parse_list_sessions, parse_list_moments).                              *)
ListingsAreRead ==
  LET a == message.answer
  IN CASE a.type = RT_LIST_MOMENTS ->
            ParseListMoments(indication) =
              [status |-> a.status, moments |-> a.rows, is_final |-> <<1>>]
       [] a.type = RT_LIST_SESSIONS ->
            ParseListSessions(indication) =
              [status |-> a.status, session_ids |-> a.rows, open_session |-> << >>]
       [] OTHER -> TRUE
=============================================================================
