# Verification of openclips

TLA+ models of the openclips library (`src/openclips`), model-checked with TLC on
small instances; every safety property that the passing runs check is proved with
TLAPS for every instance as well. This file says what the system's parts are, which module models which,
what each run and theorem shows, under which bounds and assumptions, and what is
not done.

## 1. The system

openclips talks to a Google Clips camera: over one BLE characteristic for
control, and over HTTP on the camera's own Wi-Fi access point for photos.

    application / cli.py / aio.py
        |                   \
    ConnectionManager       Syncer -- Catalog (file)
    (connection.py)         (sync.py) -- WifiJoiner (NmcliWifi)
        |                   /    \
        +---- Camera ------+      HTTP to the camera's access point
              (camera.py: worker thread + keepalive thread)
        |
    SecureSession (crypto.py), proto.py, framing.py, pb.py
        |
    Transport (ble_btgatt.py: btgatt-client on a pseudo-terminal; ble_bleak.py)
        |
    the camera

| component | state | operations | what makes it correct |
|---|---|---|---|
| `SecureSession` + `Camera._send_enc` / `_read_raw` | two 24-bit counters per side, `_lock`, `transport.alive` | encrypt+write under the lock, decrypt, report a lost link | each direction is an ordered pipe: the counters of the two ends never part, whatever threads interleave, writes fail or stray indications come |
| `BtgattTransport` | text buffer, `fd`, `alive`, a child process | constructor (discovery, retry decision), `_pump`, `read_indication`, `write`, `close` | indications come out whole, once, in order, wherever a read cuts the text; a dead link is noticed; a failed constructor blocks nobody |
| `BleakTransport` | an event loop on a thread, a queue | as above | as above |
| `Camera`, calls | `_pending`, `state`, `notifications`, `sess` | `request` (some thirty methods), `poll`, `wait_for`, `heartbeat` | no answer lost or used twice, an answer fits its request, the state mirror follows the camera |
| `Camera`, keepalive | `_hb_thread`, `_hb_stop` | `start_keepalive`, `stop_keepalive`, `keepalive()`, `close` | no stray thread, a stopped thread ends, `close` returns |
| `Camera`, handshake | `pairing_key`, `app_nonce`, `sess` | `pair`, `resume` | both ends agree on every session; a reported key mismatch is real; every wait ends |
| `ConnectionManager` | `transport`, `camera`, `pairing_key` | `connect`, `reconnect`, `ensure`, `close` | one connection at a time, none lost sight of, retries end |
| `PairingStore` | JSON file | `get`, `put`, `remove`, `save` | a stored key works; a failed pairing replaces nothing |
| `Syncer` | plan, result, cancel event | `plan`, `run`, `sync`, `cancel` | whole photos only, nothing fetched that was there when it was planned, the result adds up, network and access point restored, cancel stops |
| `Catalog` | JSON file + memory | `has`, `record`, `forget`, `save` | only knows what was downloaded, and knows all of it |
| `NmcliWifi` / `ManualWifi` / `NullWifi` | `previous`, `ssid` | `join`, `leave` | the machine is back on its network |
| `CameraState`, response parsers | the mirrored fields | `update_from`, `parse_*` | entries merged, whatever message carried them |
| codec (`pb.py`, `framing.py`) | none | varints, messages, frames | exactly the messages are parsed, wherever a buffer ends; what is written is read |
| `AsyncCamera`, `AsyncConnection` | executors, `_cam` | wrapped calls, `connect`, `close`, `aclose`, cancellation | calls through one facade do not overlap; no coroutine waits for ever; a connection that is up stays within reach |
| `cli.py` | none | `pair`, `sync`, ... | the order of pair, resume and save |
| `scan.py`, `constants.py`, `errors.py` | none | | |

The hard parts: two threads that share counters, a lock and a transport; answers
and notifications in one stream, late, out of order or after a timeout; a link
whose loss nobody sees until somebody reads; a camera that is asleep, reset or
paired elsewhere and takes one connection at a time; a sync of many steps any of
which may fail, be cancelled or be the last of its process. `PROJECT.json` lists
the hazards at their lines.

## 2. The modules

| module | models |
|---|---|
| `OrderedPipe` | abstract: messages heard in the order sent, none twice, none skipped, until the pipe closes |
| `SecureChannel` | both `SecureSession`s, the locked send path, the receive path, `alive`, the link |
| `ChannelDelivery` | `SecureChannel` with the history of both directions; each implements `OrderedPipe` and, with fairness, delivers all that was put in |
| `BtgattTransport` | the constructor, the pump, `read_indication`, `write`, `close`, over btgatt-client's text |
| `Camera` | one `Camera` with an established session: worker, keepalive threads and camera over `SecureChannel` (`Ch == INSTANCE SecureChannel WITH ...`) |
| `SessionAgreement` | abstract: the camera starts at most one new session per connection, the host takes up that one or none |
| `Connection` | `ConnectionManager`, `pair`, `resume`, the pair command with the store, an application with a `Camera` of its own, process crashes, the camera; implements `SessionAgreement` |
| `NmcliWifi` | `join` and `leave`, each nmcli command a step that may fail or time out |
| `Sync` | `Syncer` and `Catalog` over `NmcliWifi` (`Wifi == INSTANCE NmcliWifi`), cancel from another thread, crashes |
| `Codec` | `pb.py` and `framing.py`, byte by byte |
| `WireFormat` | abstract: a grammar of the wire format, against which `Codec` is compared |
| `Messages` | what the messages of a session mean: requests, answers, state reports and `CameraState`, listings, over `Codec` |
| `AsyncFacade` | `aio.py`: the event loop, the executors' threads, the manager, and the accesses of `Camera` and `BtgattTransport` that threads interleave |
| `MC*` | small instances of the above (`MCCodec` holds `WireFormat` and `Messages`) |
| `ChannelProofs` | theorems about `SecureChannel` and `ChannelDelivery` |
| `BtgattProofs`, `CameraProofs`, `ConnectionProofs`, `SyncProofs`, `AsyncProofs` | theorems about `BtgattTransport`, `Camera`, `Connection`, `Sync` with `NmcliWifi`, `AsyncFacade` |
| `CodecProofs` | theorems about `Codec` and `WireFormat` |
| `MessagesProofs` | theorems about `Messages`, from those of `CodecProofs` |

Definitions keep the source's names where they can; `PROJECT.json` ("map") gives
every definition's lines. A definition whose comment or trailing remark says
"mutant of X" is not part of any specification: it is X as a plausible bug would
have it, and the properties are known to notice the difference.

### How state and actions correspond to the code

**SecureChannel.** `tx`/`rx` are `tx_counter`/`rx_counter`; `Seal` is the locked
first half of `_send_enc` (sequence number, encrypt), the four `Post` actions are
the ways `_write` ends: `PostArrives`, `PostSwallowed` (the link is gone, nobody
has noticed, btgatt-client drops the command), `PostOversize` (`ValueError` of a
frame too long for one write, which is no `OSError`), `PostFails`. A frame is the
counter its nonce was made from and its message; EAX verifies exactly when the
receiver tries that counter. A stray plaintext indication has counter 0. Receiving is
a round of two steps, as in `_read_raw`: `ReadBegins` looks at `alive` and goes into
`read_indication` (`reading`), `Read`, `ReadNothing` or `ReadFails` comes out of
it. In between a failing write may lower `alive`, and `Read` does not look at it
again: it consumes an indication whether or not it decrypts. So the downlink's
pipe is open while `alive \/ reading`, and the one message of a read under way is
still heard after the transport is known to be dead. `refused` is history: an
oversized frame has consumed a counter (finding 1). The counter is a bounded
integer: past `CounterMax` (2^24 - 1 in the code) `to_bytes` raises after the
increment; the model counts one further and stops, as the code does the same at
every later attempt. At `rx = CounterMax` `decrypt` raises the same error; in the
channel an indication that comes then is one that does not verify, in `Camera`
`ReadOverflows` ends the call with it.

**Camera.** `pc` is where the worker is in its call. `Call` is `_send_enc` of a
request or heartbeat; `ScanFinds`/`ScanFindsNothing` the look through `_pending`
at the head of `_read_enc`; `ReadGoesOn` the
beginning of a round of the read loop and a round that gets nothing; `ReadStray`,
`ReadAbsorbed`, `ReadReply`, `ReadOther` the other ends of a round, by what came;
`TimesOut`, `ReadRaises` and `ReadOverflows` the ends of the loop. A request of `LongTypes`
is too long for one write: `WriteRefused` is the `ValueError` it gets. `seq` advances with `tx` under one lock, so a request is numbered with
the counter. `NotPaired` and `UnsafeRequest` change nothing and are the guard
`sess` and the choice of `Types`. `wait_for` is a sequence of `heartbeat` and
`poll`. A keepalive thread is "asleep" in `stop.wait`, "due" before `heartbeat`,
"writing" with its frame in hand. The state mirror is one value: which of the
entry kinds it came from is abstracted.

**BtgattTransport.** A printed line is two fragments, the second with the
newline; `ReadChunk` takes any number of fragments. `Alarms` looks at the newest
chunk only, as `_pump` does, while the constructor looks at the whole buffer.
Echoes of written commands are whole lines between lines.

**Connection.** A call of the manager, the pair command or an application goes
through `opening`, `query`/`query?`, `pair`/`pair?`, `isc`/`isc?`, `csc`/`csc?`,
`ready`. `query` is `pair`'s PUBLIC_QUERY, which may go unanswered for its six
seconds before the pairing is sent all the same. A nonce
is its connection and attempt number, since `os.urandom` does not repeat; a key
is the number of its pairing; a proof verifies exactly when key and nonces are
the verifier's. The three callers of `resume` run one after the other in one
model, as on the one worker thread. `Fails` and `HandsBack` are the two ways an
exception leaves: `connect` and the pair command close the transport, an
application with its own `Camera` keeps it and may call `resume` again.
`ForeignError` is an exception `connect` does not catch, `CloseOnKeeper` a
disconnected callback that calls `close` on the keepalive thread, where joining
itself raises before the transport is closed. `Forget` is the forget command, which
removes the key while a manager may still hold it.

**Sync.** A moment is its session and number. `ListSession` takes the answer of
the session asked for or a late one for the session whose listing timed out (see
finding 2) and files it under the session asked for, as `parse_list_moments`
does. `WriteBegins` and `WriteEnds` write the `.part` file: `half` are the moments
whose `.part` file is incomplete, which a crash or a full disk between the two
leaves behind. `Place` is the rename and `Catalog.record` in memory; a crash
between these two loses only memory, so they are one step.
`raised` says that `plan` or `run` ends, or has ended, with an exception. `PlanListed`
begins a plan from listings (every session, the newest with moments, or a given
one), `PlanGiven` one of a list of moment ids, in its order and with its
repetitions, without a listing. `PlanEnds` hands the plan to the application
(`planned`), which may run it at once, as `sync` does, later, or again
(`RunCalled`). `downloaded` and `failed` are places in the plan, since a moment may
have two. `PreviewRaises` is an exception of `start_capture_preview` that is no
`CameraError`: it leaves `run` before the `try` whose `finally` closes the access
point. `Cancel` may come at any time; `asked` remembers that
it came in the run at hand, and not too early for it. `since` (placed since the plan began), `apUnsure`, `apLeft`,
`overrun` are history. In `NmcliWifi` each command may end well, end with an exit
status that the code ignores (`ForgetFails`, `RestoreFails`), or raise.
`overwrite` and the joiner's
`restore` are options of the application, the same in all its processes. The
heartbeats during a sync are `Camera`'s subject.

**Codec, WireFormat, Messages.** A byte string is a sequence of numbers,
`ValueError` the value `Malformed`, a parsed message its entries in wire order.
TLC counts in 32 bits, so the 64-bit word is scaled with everything that goes with
it: `Word`, `Fixed64Size`, `Fixed32Size` and `LongestVarint` are 2^64, 8, 4 and 11 in
the code and 65536, 2, 1 and 4 in the run. `WireFormat` enumerates what a byte
string could mean by the grammar of the format, not by the parser's loop, and
`ParsesExactly` compares the two. In `Messages` the camera is external and
writes what `proto/clips_ble.proto` says; `AnswerRequest` is a request and its
answer, `Notify` a state report. `state` is the mirror as the code updates it,
`told` what the camera last said; `Camera` has the same mirror as one value and is
about when it is updated, `Messages` is about what with.

**AsyncFacade.** A job is what a coroutine submits: a wrapped call or `aclose` on the
facade's one-thread executor, `connect` or `close` on a thread of the default one. A
thread's step is one access to `sess`, `alive` or `fd`, as `AsyncConnection.close`
runs beside a call that nothing locks out; between two such accesses any other
thread may run, as the language allows. So `Check`, `Encrypt`, `Write`, `Cmd`,
`Put` are the way of one frame through `_send_enc`, `_write` and `_cmd`, and `Read`,
`Select`, `OsRead`, `Decrypt` one round of reading. `end` says how a job ended:
`"error"` is a `CameraError`; `"own"` is what a call may raise whatever happens
beside it (`Refuses`: the `ValueError` of a frame too long for a write or of an
answer the parsers do not take, the `OverflowError` of a used-up counter);
`"stray"` is the exception of a session or a terminal that is not there (a
`TypeError` for a descriptor that is `None`, the `OSError` of `select`, an
`AttributeError` of a session that is `None`). `ResumeFails` is a `CameraError`,
for which `connect` closes the transport, `ResumeRaises` any other exception, for
which it does not. `lost` is history: the cameras that were left open so, and
those whose manager forgot them because a second `connect` stored its own over
them. `Lower` to `ForgetSess` are `Camera.close` and `BtgattTransport.close`;
a close that meets another in `os.close` raises `TypeError`, which the manager
swallows and `aclose` lets out. `Cancel` takes a queued job out and leaves a
running one to itself. The handshake is one step (`Connection` has it), the
keepalive thread is left out (`Camera` has it), and the descriptor's number is not
given out again to somebody else.

## 3. The runs

| run | instance | shows |
|---|---|---|
| `channel` | 3 threads, 3 messages up (one too long for a write), 2 down, counters to 3, 2 indications waiting | frames in counter order whatever fails; neither direction's counters part until a message is refused; each direction implements `OrderedPipe!Spec` and, with fairness, delivers all unless the link drops or a message was refused; a lost link is reported |
| `channel_diverge` | the same, smaller | finding 1 |
| `btgatt` | 3 indications, 2 echoes | indications intact, a raising constructor leaves no client with a link, a dead link noticed, calls return |
| `camera` | 2 request types, 2 states, 3 messages a direction, no keepalive | answers conserved, replies fit, mirror fresh |
| `camera_keepalive` | 2 keepalive threads, 2 types, one of them too long for a write, 2 messages | no stray thread; a thread that died of itself left nothing that a heartbeat could save; calls return though a heartbeat's write hangs for ever; stopped threads end once it does not |
| `camera_stale` | 1 keepalive thread, 2 messages | finding 2 |
| `connection` | 2 attempts, 3 connections, 2 `resume` calls a connection, 2 pairings, 1 stray | `SessionsAgree` (implements `SessionAgreement`), mismatches real, stored key works, transports accounted for, calls return |
| `connection_mismatch` | 2 connections, 1 pairing | finding 3 |
| `sync` | 2 sessions with a moment each, a given list that names one twice, 2 calls of `plan` (or of `run` on an old plan), with overwriting and without restoring or the reverse, any crashes, cancels and deletions | eight properties of files, catalog, plan, result, network, access point and cancel |
| `sync_catalog` | as `sync` | finding 4 |
| `codec` | every string of 5 bytes over 10 of them; every message of 2 entries; 2 messages of a camera with 2 values, 2 rows a listing | exactly the messages are parsed; what the builders write is read; the mirror, the requests and the rows get what is theirs |
| `async` | 3 jobs, 2 connections, 1 lost link | a call ends with a stray exception only beside another executor's close; reads through one facade never collide; a connection that is up is the manager's, but for the two ways `connect` itself loses it; every job ends |

The modules with state have a `TypeOK` each, which is a theorem (section 5) and no
part of the runs. The inductive invariants of section 5 were checked with TLC on
the instances above before they were proved, and are no part of the runs either.

Why the bounds are enough. *Channel*: a counter that parts
does so within two messages of one direction and an interleaving of two threads;
three leave one message to be noticed by, and a third thread that waits for the lock
while two others are in the send path. Reaching `CounterMax` is in the run. *Camera*: a late answer needs two calls of its type, an overtaken one two
types; a third message is the notification between them. Two keepalive threads are the old one that does not
end and the new one. *Connection*: three connections are a session, the one that replaces it
and a failure between; two pairings are ours and somebody else's. *Sync*: two
sessions tell a listing taken for the wrong session; two calls are the sync that
died and the one that comes after, or a plan and its second run; each command, request,
download, write and save may fail and, where the code lets it, raise; crashes,
cancels and deletions are not bounded; the given moment, named twice, is the older
session's, so that both ways of planning it meet. *Btgatt*: an indication returned, one in the buffer,
one in the terminal. *Codec*: five bytes are a tag, a length and a value with one
to spare, or a varint past the longest; the alphabet has a byte of each role (each wire
type, a reserved one, small lengths, the continuation bit with and without value).
*Async*: two jobs that meet and one whose coroutine is cancelled or comes after;
two connections are one that is closed and one that follows, or two that race.

The largest instances, with two workers: `sync` has 3.5 million distinct states (a
minute), `async` 1.5 million with its liveness (three minutes), `camera` 1.5 million
(half a minute), `camera_keepalive` 231,000 and `connection` 204,000 with theirs (a
minute and a half each); the others take less than a minute.

Deadlock checking is off: every model may come to rest, with the link gone, a
closed camera or its bound used up.

`SYMMETRY` is used only where no liveness property is checked.

### Fairness

* A thread inside a call runs on, and every wait ends: all read loops compare
  the clock in each round, HTTP and nmcli have timeouts, `join` gives up after
  two seconds (`WF` on the call's steps and, where a wait could be prolonged for
  ever by traffic, on its timeout). `TimesOut` of `Camera` is enabled between two
  rounds only, so it is `SF` there: the clock is compared after each round, a round
  takes time, and so one of them finds it past.
* The notice of a lost link comes in the end to a reader that waits for it: `SF` on
  `ReadFails`, as a round may get nothing before (btgatt-client prints it, and its
  end is an end of file).
* No heartbeat's write is assumed to end for `CallsReturn`, which is what the bound
  of the join is for; `StoppedKeepersEnd` has `KeeperWritesEnd` as its premise.
* A keepalive thread that waits for `_lock` gets it in the end though others
  come and go (`SF` on `KeeperBeats`): CPython's `RLock` does not starve a
  thread while the holder's sleeps release it. Only `StoppedKeepersEnd` needs it.
* `DisconnectIsReported` and `DeathIsNoticed` assume that the application keeps
  reading: the code has no reader of its own, and without one the loss is never
  noticed. `UplinkDelivers` and `DownlinkDelivers` assume moreover that the
  camera reads what reaches it.
* In `BtgattTransport`, a read that has time left pumps, and a pump reads what
  is there (`select` returns at once): `SF` on both, as timeouts of other rounds
  come between. btgatt-client ends when its link is gone.
* In `AsyncFacade`, as long as some job can go on, one of them does: a thread takes a
  job or runs on, the loop turns, or a camera that is up puts something out, as it
  answers the heartbeats of the keepalive thread (only so does an `os.read` that waits
  for output end). Which of them is the scheduler's choice (one `WF` over all): a
  job has finitely many steps, so nothing more is needed.
* Nothing is assumed of the camera's answers, the user or the application in
  `Camera` and `Connection`. `Sync` has safety properties only, and no fairness.

## 4. Findings

1. `channel_diverge` (camera.py:161): encrypt advances the send counter before
   the transport sees the frame. A frame over the single-write limit is refused
   with `ValueError`; the counter stays consumed, the link stays up, and the
   camera can decrypt nothing from then on.
2. `camera_stale` (camera.py:220): `_matches` never compares the echoed sequence
   number, so the late answer to a request that timed out is returned by the
   next request of its type.
3. `connection_mismatch` (camera.py:389): a second `resume` on one connection may
   read the late answer to the first and report `PairingKeyMismatch` although the
   key is right. The manager is safe from it (`MismatchIsReal`) because it opens
   a connection per attempt.
4. `sync_catalog` (sync.py:149): after a crash or an exception, photos already
   downloaded are on disk without a record, and later syncs skip them without
   ever recording them.

Seen while modelling, and not the subject of a run:

* `run` clears the cancel event before it looks at it (sync.py:216). A `cancel` that
  comes while `sync` is still planning, or between `plan` and `run`, is lost and all
  of the plan is downloaded; docs/LIBRARY.md:112 says that it "stops after the current
  file". `Cancel` and `RunBegins` in `Sync` are these steps; `CancelStops` is about a
  cancel that comes in the run, where it holds.
* `AsyncConnection.connect` makes a new `AsyncCamera`, with an executor of its own, for
  whatever the manager returns (aio.py:96), which while connected is the camera it has
  (connection.py:126-127). Two connects so give two facades whose calls run on two
  threads of one camera, and may read its terminal together, although aio.py:3 says that
  calls stay serialised. The model has such facades, and `ReadNeverWaits` names them as
  its exception.
* docs/LIBRARY.md:33 says that event callbacks run on "your worker". A heartbeat that
  fails runs the disconnected callbacks on the keepalive thread, under the
  camera's lock (camera.py:131; `Report` in `SecureChannel` may be any thread's).
* Calls through one facade do stay serialised (`ReadNeverWaits`), but
  `AsyncConnection.close` runs beside them, and a call may then end with the exception
  of a session or a terminal that is not there (`StrayOnlyBesideClose` says that nothing
  else makes it so). `connect` may return no camera when a close comes between its
  look and its return.
* Two ways out of `ConnectionManager.connect` leave a connection up that nobody can
  close, while the camera takes no other: an exception of `resume` or `time_sync` that is
  no `CameraError` (connection.py:142), and two connects at once, of which the
  later stores its camera over the earlier one's (connection.py:145). They are the
  exceptions (`lost`) of `LinkIsReachable`, and the first is among the `abandoned` of
  `Connection`. `AsyncConnection` runs `connect` where callers may overlap; nothing says
  that they may not.
* `start_capture_preview` is called after the access point is open and before the `try`
  whose `finally` closes it, and only its `CameraError`s are caught (sync.py:224-231).
  Any other exception leaves the access point open, until a later run closes it or
  the camera does (`apLeft` in `AccessPointClosed`).
* Neither `plan` nor cli.py's parser of ids removes repetitions, and `run` does not ask
  again whether a file is there: a moment named twice, or a plan run twice, is
  fetched twice, over its own file. `OnlyMissingFetched` says that this is all there is
  to it.
* transport.py:12 says that `alive` turns False when the link is known to be gone.
  `BleakTransport` never lowers it, neither on a loss nor in `close`.

## 5. What is proved

Each theorem holds for every value of the constants that satisfies the named
`ASSUME`s of its module: any number of threads, messages, connections, attempts,
moments, jobs, indications, any bound. Each proof is: the initial states satisfy an
inductive invariant, each action preserves it (one step per action), it implies the
property, and the temporal step. `TypeCorrect` of each module says
`Spec => []TypeOK` and is not repeated below.

`ChannelProofs`:

* `WireOrdered` (`WireOrder`): frames on the wire have growing counters beyond the
  camera's, whatever writes fail. `WireInv` adds what the lock means: the one frame
  in hand is its holder's, has the newest counter, and is newer than every frame on
  the wire.
* `UplinkStaysInSync` (`UplinkInSync`, and `CountersAgree` while `~refused`): until a
  message is refused as too long, while the link is up the i-th frame in flight
  carries the camera's counter plus i. Finding 1 is why the condition is needed.
  `UpSyncInv` says that the frames in flight and the one in hand leave no gap.
* `DownlinkStaysInSync` (`DownlinkInSync`): the first genuine indication in the
  buffer is the one the host can decrypt next. `DownSyncInv` says it of all of them
  at once: between two successive ones the counter grows by one, the first is
  `rx + 1`, and with the link up the last is the camera's counter.

And the safety half of the refinement:

* `UplinkIsAPipe` (`DSpec => UpPipe!Spec`) without any condition on `refused`: what
  is heard is in order and without a gap, a refused message or not. `UpInv` needs no lockstep of counters: a message takes one counter or
  more, so a frame's counter is no less than its message's place among those sent;
  its place is beyond what was heard; so a frame that verifies is squeezed between
  the two and is the next message.
* `DownlinkIsAPipe` (`DSpec => DownPipe!Spec`, with the pipe open while
  `alive \/ reading`): `DownInv` says that a genuine indication has the message its
  counter says. The pipe may close only with a read's last message or when no read is under
  way, and a closed one stays closed because `ReadBegins` asks for `alive`.
* `RefusalSilences`: finding 1 is for good. Once a message has been refused and
  what was on its way is gone, no later step lets the camera hear anything. `GapInv`
  says that the host has taken a counter more than it sent messages; `Deaf` that
  every frame in flight, in hand or still to be sealed is too late for the camera,
  which no step undoes.

`BtgattProofs`:

* `RaisedIsHarmless` (`RaisedHoldsNoLink`): a constructor that raised leaves no client
  with a link. Two of its ways out terminate the client, the third does not: the
  loss of the link that it reports is what makes it harmless. `NoLinkInv` says that
  while the client has its link, or may still get it, `alive` holds and there is no
  alarm in its text, so an alarm that the pump sees is true.
* `IndicationsSurvive` (`IndicationsIntact`): `TextInv` says that what is printed and
  not yet taken, `buf \o out`, is a row of whole lines whose indications have the
  numbers after the last one returned, in order. A read moves the border between
  `buf` and `out` and so cuts no line.

`CameraProofs`. Every step of `Camera` is a step of the channel or leaves it alone
(`ChannelKept`), so the invariants of `ChannelProofs` hold of a `Camera`'s channel.

* `NoKeeperIsLost` (`NoStrayKeeper`): `KeeperInv` says that a handle is let go of only
  once its thread is told to stop.
* `DeadHandleIsHarmless` (`KeepaliveLives`): needs `ClosedInv`, that the session is
  only dropped by a close that has stopped the thread and closed the transport.
* `MirrorCatchesUp` (`MirrorIsFresh`): `MirrorInv` says that the last state entry that
  waits to be read is what the camera shows, and with none waiting the mirror is;
  `QuietInv` that answers to KEEP_ALIVE carry none, so `_classify` may pass them over.
* `RepliesAreAnswers` (`RepliesFit`): a request in hand, on the wire or with the camera
  carries the sequence number of its counter (`RequestInv`), an answer that of a
  request received and answered only this once (`AnswerInv`); so a reply answers its
  own call or an earlier one of its type.
* `NoAnswerIsLost` (`AnswersConserved`): `InboxInv` says of every answer decrypted that
  it is in one place of `_pending` or in one reply. The count follows with a
  bijection, as `Cardinality` is no recursion the provers could unfold.

`ConnectionProofs`:

* `NoTransportLeaks` (`TransportsAccounted`), part of `TypeInv`, which says whose
  transport is whose at each point of a call.
* `StoredKeysWork` (`StoredKeyWorks`).
* `HandshakeAgrees` (`SessionsAgree`, that is `Spec => Agreement!Spec`): every step is
  one of `SessionAgreement` or changes nothing of it. `AgreeInv` says that a proof of
  the camera's under way is for the session it has.
* `MismatchIsTrue` (`MismatchIsReal`): `OnceInv` says that the manager and the pair
  command ask once per connection: no ISC of another nonce is under way, and an
  answer under another key means that the camera's key is another and stays so.
  An application that asks twice is outside it, which is finding 3.

`SyncProofs`:

* `PhotosAreWhole` (`PhotosWhole`), `CatalogIsCorrect` (`CatalogIsTrue`),
  `CancelIsHeeded` (`CancelStops`), `AccessPointIsClosed` (`AccessPointClosed`),
  `SavedWhenReturned` (`SavedOnReturn`), each with an invariant of two or three
  conjuncts that says where in `run` what may be open, half or unsaved.
* `OnlyMissingIsFetched` (`OnlyMissingFetched`): what the plan has and is there was placed
  since the plan began (`AbsentInv`), for repeated ids, late listings and a plan run
  again as well.
* `EveryItemAccounted` (`ResultAccounts`): the result is that of the items before the
  one at hand, counted in places of the plan, so that a moment it has twice is
  accounted for twice.
* `NetworkIsRestored` (`NetworkRestored`): `JoinerInv` says where the joiner may be at
  each point of `run`; `HomeInv` that, unless a command has failed, the machine is at
  home before it joins, remembers home from then on, and will be back once
  what it remembers is restored.

`AsyncProofs`, from one invariant `Inv` of seven parts (`InvAlways`):

* `StrayIsExplained` (`StrayOnlyBesideClose`): a call that nobody closes beside finds the
  session and the terminal at each access as it left them (`StrayInv`). What a call
  raises on its own (`"own"`) is no part of the statement. This rests on a connection being a
  secret of its `connect` until it is stored (`BornInv`), on a live transport having
  its descriptor (`AliveInv`), and on a facade's queue having the running job
  first, so that two calls of one facade never run at once (`QueueInv`).
* `ReadsAreReady` (`ReadNeverWaits`): between `select` and `os.read` nobody takes the
  output that select has seen (`ReadInv`), where the camera has one facade only.
* `NoLinkIsLost` (`LinkIsReachable`): the link is the manager's, of a job that
  opens or closes it, or one of `lost` (`LinkInv`). A cancelled `connect` and a retry
  beside it, or a close that meets it, are no exception.

`CodecProofs`. The loops of the codec are recursive functions, so all of it is
induction, and the induction theorems of the library take a predicate, which no
installed prover can instantiate. Here an induction is stated of a set: a set of
numbers with 0 in it that holds the successor of each of its elements is `Nat`
(`Induction`, from the library's well-foundedness of `<`, which takes a relation).
That a recursive definition defines anything is proved once, for all of them
(`Recursion`): if the body asks only for arguments of a smaller rank, then for each
number there is a function that obeys the definition up to that rank, any two of
these agree so far, and so one obeys it everywhere.

* `ReaderIsGrammar`: of any byte string, `parse_pb` returns the one reading that the
  grammar of `WireFormat` has of it, and raises where it has none. The heart is
  that of the strings that begin at one position at most one is an entry, and
  that the parser finds its end (`EntryIs`): a varint ends at its first byte without
  the continuation bit, and a length says where its value ends.
* `ParsingIsExact` (`ParsesExactly`): the same of every byte string that the
  specification builds.
* `FramesAreTaken`: `strip_bqs` undoes `bqs_frame`, for every body shorter than the
  word, and leaves a frame alone that is a byte short or a byte long.
* `WritingIsRead` (`WritesAreRead`): for any list of fields, values (negative and
  too large ones included) and byte strings, what `pb_uint`, `pb_fixed64` and
  `pb_bytes` write is read back in order, modulo the word. A number's digits to
  the base 128 or 256, put together again, are the number (`VarintMeans`), and
  entries one behind the other are a message (`FlattenReads` in `MessagesProofs`
  says so of messages).

`MessagesProofs`, from one invariant `MsgInv`: the mirror is what was told, and the
fields the host has are those of the message the camera last sent (`Shown`), entry
for entry. `ReceivedIsShown` is the step that keeps the second part: a message is
a concatenation of entries of known fields, so `WritingIsRead`'s lemmas read it.

* `StateIsMirrored` (`MirrorIsWhatWasTold`): each report is one entry whose inside is a
  message of one or two fields (`PayloadsRead`), and applying that entry sets the
  attribute which the report names to the value it says, and no other
  (`ReportMeans`). Then by induction along the message (`AppliedIsHeard`): entries
  applied one after the other are reports heard one after the other, whichever field
  of the message carried them.
* `AnswersFindTheirRequest` (`AnswersReachTheirRequest`): the entries beside an answer
  are never mistaken for it (`AbsorbedShown`), request and answer fields are different
  for different types (`TakersAre`), and a body that is read from its status on
  has the status the camera wrote (`SuccessIs`).
* `ListingsAreExact` (`ListingsAreRead`): a listing's columns are known by where each
  of their parts stands in the joined string (`PartsStand`); a reader of packed
  varints (`PackedReads`) or of chunks of equal size (`ChunksRead`) therefore cuts where
  the camera joined, for any number of rows, and a column that was not sent gives
  every row `None` (`MomentsAreRead`).

The lemmas at the head of `CameraProofs` say what `Append`, `Tail`, a prefix and
`RemoveAt` do to the elements of a queue.

### Assumptions

They say that names of different kinds differ and that bounds are numbers: threads
and requests are not `None`, a stray plaintext (`Plain`) is no message the camera
encrypts (`PlainAssumption` in `Camera`, `MsgAssumption` in `SecureChannel`),
session ids are positive (`ContentAssumption` in `Sync`: 0 is "no session"), a caller's
lists are of the camera's ids and not empty. The counter's width is any positive number.

Of the codec: `WidthAssumption` relates the widths as the code's constants are
related (the word is 256 to the number of bytes of a fixed64, the smaller fixed
width is smaller, and the longest varint that is read has room for the word's largest
number: 2^64, 8, 4 and 11 in the code, where ten bytes would do).
`CallsAssumption` says of the builders' calls what their callers observe: bytes are
bytes, a field's tag and a value's length fit the word. `FitAssumption` says the same of
what the two ends send: numbers, the ids of the moments (150, 300, ... for `Rows` of
them) and the largest field's tag fit the word, and so do the lengths of each report,
request and answer; `Receive` is of messages whose length does, the reports
beside an answer included. In the code the word is 2^64 and no such string exists
that does not fit. TLC evaluates all three in the `codec` run.

### What proving changed in the models

* `AsyncFacade`: two `CASE`s had arms that overlapped (a close noted beside itself,
  a select on a closed descriptor), where TLC takes the first arm and TLA+ leaves the
  value open. They are `IF`s now, and the prover sees the same value as TLC.
* `BtgattTransport`: `IndicationsIntact` counted with a filter over a
  sequence, whose definition is recursive. It now says the same of places: what is
  returned is 1, 2, ..., and the rest of the numbers are in whole lines in order.
* `Codec`, `WireFormat`, `Messages`: the loops were `RECURSIVE` operators, filters and
  folds over sequences, which the prover cannot use. They are recursive functions of
  the position now, as the code's loops are, and a value is summed from its last
  digit; the value is the same. `Readings` was an enumeration of the ways to cut a string and is a grammar:
  a message is nothing, or an entry and a message.
* `WireFormat`: that frames are taken whole held of every body in the run and is
  false of a body whose length does not fit the word, which no body of the code's
  reaches; `WritesAreRead` says so now, and the widths became `WidthAssumption`.
* `Messages`: sets of reports and of answers that were one comprehension with
  dependent ranges are unions of simple ones, and `Receive` has a message shorter
  than the word.
* `Sync`, `Camera`: bounds and names that TLC took from the configuration became
  named assumptions.

## 6. Only model-checked

* Liveness, as neither fairness nor `ENABLED` is in the prover's reach:
  `DisconnectIsReported`, `DeathIsNoticed`, `CallsReturn`, `StoppedKeepersEnd`,
  `ConnectReturns`, `EveryJobEnds`, and the `Delivery` parts of
  `UplinkDelivers` and `DownlinkDelivers`.

That a sync ends is not checked: its loops are over finite lists, and each of its
requests, downloads and commands has a timeout of its own (`camera_keepalive` and
`connection` check those of the camera's calls).

No safety property of a passing run is left to TLC alone. The four runs that expect a
violation give a counterexample each, and a finding needs no more.

## 7. Not modelled

* Cryptography: HKDF, HMAC, ECDH, EAX. Only which counter, key or nonce verifies.
* The bodies of the handshake (`Connection` knows what they say), of the Wi-Fi
  credentials, HTTP and preview messages: read once and handed on.
* `_check_alive` tests and sets its once-only flag in one step, between whose two
  bytecodes CPython's interpreter lock does not switch; the re-entry of a
  callback into the camera under the `RLock` is inert.
* Timeouts measured with the wall clock: a timeout may come at any moment of its
  wait, which includes a clock that jumps.
* Progress callbacks (their exceptions are swallowed); `ManualWifi` and `NullWifi` (no
  state); `Catalog.forget` (an edit of memory that `plan` does not notice while the
  file is there).
* Two processes over one pairing store or one output directory: each loads once and
  saves whole through the same `.tmp` file, so the later save drops what the earlier
  one added. Neither code nor docs promise anything else.
* `AsyncCamera.events`: a queue that handlers fill by way of the loop.
* `BleakTransport`: its loop, its queue and the wait for a future. What is worth saying of
  it is in section 4; besides, a constructor that times out leaves its
  coroutine connecting, and `BleakError` is not converted to a `CameraError`.
* `scan.py`, printing and argument parsing in `cli.py`, `constants.py`,
  `errors.py`, the research scripts and examples.

## 8. Plan

Order: the channel first, since everything rests on it; then the calls over it;
then how a session comes about; then sync; then the layers below and around.

| step | modules | state |
|---|---|---|
| 1 | `OrderedPipe`, `SecureChannel`, `ChannelDelivery`, first theorems | done |
| 2 | `Camera` over `SecureChannel` | done |
| 3 | `SessionAgreement`, `Connection` | done |
| 4 | `NmcliWifi`, `Sync` | done |
| 5 | `BtgattTransport` | done |
| 6 | `AsyncFacade`: calls on the one-thread executor beside `close` on the default one, the transport split at the descriptor | done |
| 7 | `Codec`, `WireFormat`, `Messages`; then rewritten for proof, without `RECURSIVE` | done |
| 8 | `Camera`: a keepalive thread that died and the next `start_keepalive`; `Sync`: plans for given ids, `overwrite`, `restore=False`; `Connection`: the forget command | done |
| 9 | `BleakTransport`'s queue and loop | open: untested against a camera by its own account, and so last |
| 10 | theorems: every safety property of the runs, the codec's included, what a refused message does for good, the refinements `SessionsAgree` and `OrderedPipe` | done |

Next: `BleakTransport` (row 9).
