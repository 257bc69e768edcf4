--------------------------- MODULE BtgattTransport ---------------------------
(***************************************************************************)
(* BtgattTransport (ble_btgatt.py): the constructor that waits for the     *)
(* GATT discovery, the pump, read_indication, write and close, over the    *)
(* btgatt-client process at the other end of a pseudo-terminal.            *)
(*                                                                         *)
(* What the client prints is a stream of text that read may cut anywhere:  *)
(* each line is two fragments, the second with its newline, and a chunk is *)
(* any number of fragments.  A line is whole wherever it is looked for     *)
(* when both its fragments are there.                                      *)
(***************************************************************************)
EXTENDS Naturals, Sequences

CONSTANTS
  IndMax,   \* bound: indications printed
  EchoMax   \* bound: commands written, which the terminal echoes

ASSUME BoundsAssumption == IndMax \in Nat \ {0} /\ EchoMax \in Nat

VARIABLES
  client,    \* btgatt-client: what it is doing
  out,       \* the text it has printed and nobody has read
  buf,       \* BtgattTransport.buf
  open,      \* BtgattTransport.fd is not None
  alive,     \* BtgattTransport.alive
  pc,        \* where the worker is: in the constructor, a read or no call
  returned,  \* history: the indications read_indication has returned
  printed,   \* indications printed so far
  echoes     \* commands echoed so far

transportVars == <<buf, open, alive>>
clientVars == <<client, out, printed, echoes>>
vars == <<clientVars, transportVars, pc, returned>>

Line(kind, n) == <<[kind |-> kind, n |-> n, part |-> 1], [kind |-> kind, n |-> n, part |-> 2]>>
Says(kind) == out' = out \o Line(kind, 0)

Init ==
  /\ client = "connecting" /\ out = << >> /\ printed = 0 /\ echoes = 0
  /\ buf = << >> /\ open = TRUE /\ alive = TRUE
  /\ pc = "discover" /\ returned = << >>

Goes(from, to) == pc = from /\ pc' = to

-----------------------------------------------------------------------------
(* _pump, from the constructor ("discover", "settle") and read_indication  *)
(* ("pump").                                                               *)
Pumping == pc \in {"discover", "settle", "pump"}

PumpReturns ==
  \/ Goes("discover", "look") \/ Goes("settle", "idle") \/ Goes("pump", "lines")

Shows(text, kind) ==
  \E i \in 1..(Len(text) - 1) : text[i].kind = kind /\ text[i].part = 1

(* The chunk at hand is searched and nothing before it: a notice that read *)
(* has cut in two is not seen.                                             *)
Alarms(chunk) == Shows(chunk, "disconnected") \/ Shows(chunk, "unimplemented")

ReadChunkAnew ==  \* mutant of ReadChunk: what was left of the last read is lost
  /\ Pumping /\ open
  /\ \E k \in 1..Len(out) :
       LET chunk == SubSeq(out, 1, k) IN
         /\ buf' = chunk /\ out' = SubSeq(out, k + 1, Len(out))
         /\ alive' = (alive /\ ~Alarms(chunk))
  /\ UNCHANGED <<client, printed, echoes, open, pc, returned>>

ReadChunk ==
  /\ Pumping /\ open
  /\ \E k \in 1..Len(out) :
       LET chunk == SubSeq(out, 1, k) IN
         /\ buf' = buf \o chunk /\ out' = SubSeq(out, k + 1, Len(out))
         /\ alive' = (alive /\ ~Alarms(chunk))
  /\ UNCHANGED <<client, printed, echoes, open, pc, returned>>

ReadEndsQuietly ==  \* mutant of ReadEnds: the notice is all that counts
  /\ Pumping /\ open /\ out = << >> /\ client = "gone"
  /\ PumpReturns
  /\ UNCHANGED <<clientVars, transportVars, returned>>

(* End of file, or EIO: the client is gone and its text has been read.     *)
ReadEnds ==
  /\ Pumping /\ open /\ out = << >> /\ client = "gone"
  /\ alive' = FALSE
  /\ PumpReturns
  /\ UNCHANGED <<clientVars, buf, open, returned>>

PumpEnds ==
  /\ Pumping
  /\ PumpReturns
  /\ UNCHANGED <<clientVars, transportVars, returned>>

-----------------------------------------------------------------------------
(* close: the client is killed and waited for.                             *)
CloseTransport ==
  /\ alive' = FALSE /\ open' = FALSE
  /\ client' = "gone" /\ out' = << >>
  /\ UNCHANGED <<buf, printed, echoes>>

(* The constructor looks at all it has read.                               *)
Discovered ==
  /\ Goes("look", "register") /\ Shows(buf, "complete")
  /\ UNCHANGED <<clientVars, transportVars, returned>>

LooksAgain ==
  /\ Goes("look", "discover")
  /\ \A kind \in {"complete", "failed", "unimplemented"} : ~Shows(buf, kind)
  /\ UNCHANGED <<clientVars, transportVars, returned>>

GivesUpOpen ==  \* mutant of GivesUp: raised without close
  /\ Goes("look", "raised") /\ ~Shows(buf, "complete")
  /\ UNCHANGED <<clientVars, transportVars, returned>>

GivesUpOnFailure ==  \* mutant of GivesUp: no deadline
  /\ Goes("look", "raised") /\ ~Shows(buf, "complete")
  /\ Shows(buf, "failed") \/ Shows(buf, "unimplemented")
  /\ CloseTransport
  /\ UNCHANGED returned

(* A failure, or the deadline: close and ConnectionError.                  *)
GivesUp ==
  /\ Goes("look", "raised") /\ ~Shows(buf, "complete")
  /\ CloseTransport
  /\ UNCHANGED returned

(* _cmd.  A command the client no longer reads is an OSError, or lost.     *)
Register ==
  /\ Goes("register", "settle") /\ alive
  /\ IF client = "linked" THEN client' = "notifying" /\ Says("other")
                          ELSE UNCHANGED <<client, out>>
  /\ UNCHANGED <<printed, echoes, transportVars, returned>>

(* OSError out of the constructor, which closes nothing then.              *)
RegisterFails ==
  /\ Goes("register", "raised")
  /\ ~alive \/ client = "gone"
  /\ UNCHANGED <<clientVars, transportVars, returned>>

-----------------------------------------------------------------------------
(* read_indication.                                                        *)
BeginRead ==
  /\ Goes("idle", "lines")
  /\ UNCHANGED <<clientVars, transportVars, returned>>

EndsLine(i) == buf[i].part = 2 /\ \A j \in 1..(i - 1) : buf[j].part = 1
HasLine == \E i \in 1..Len(buf) : EndsLine(i)

IsIndication(line) == Len(line) = 2 /\ line[1].kind = "ind"

(* One line: an indication is returned, anything else is dropped.          *)
TakeLine ==
  /\ pc = "lines"
  /\ \E i \in 1..Len(buf) :
       /\ EndsLine(i)
       /\ IF IsIndication(SubSeq(buf, 1, i))
            THEN pc' = "idle" /\ returned' = Append(returned, buf[1].n)
            ELSE UNCHANGED <<pc, returned>>
       /\ buf' = SubSeq(buf, i + 1, Len(buf))
  /\ UNCHANGED <<clientVars, open, alive>>

PumpMore ==
  /\ Goes("lines", "pump") /\ ~HasLine
  /\ UNCHANGED <<clientVars, transportVars, returned>>

(* None; half a line stays in buf.                                         *)
TimesOut ==
  /\ Goes("lines", "idle") /\ ~HasLine
  /\ UNCHANGED <<clientVars, transportVars, returned>>

(* write, of any thread once there is a transport: the terminal echoes it. *)
Write ==
  /\ pc \in {"idle", "lines", "pump"} /\ alive /\ client # "gone"
  /\ echoes < EchoMax /\ echoes' = echoes + 1
  /\ Says("other")
  /\ UNCHANGED <<client, printed, transportVars, pc, returned>>

Close ==
  /\ Goes("idle", "closed")
  /\ CloseTransport
  /\ UNCHANGED returned

-----------------------------------------------------------------------------
(* btgatt-client and the link.                                             *)
Client(from, to) ==
  /\ client = from /\ client' = to
  /\ UNCHANGED <<printed, echoes, transportVars, pc, returned>>

ClientConnects == Client("connecting", "discovering") /\ UNCHANGED out
ClientRefused == Client("connecting", "unlinked") /\ Says("unimplemented")
ClientDiscovers == Client("discovering", "linked") /\ Says("complete")
ClientFails == Client("discovering", "stuck") /\ Says("failed")

ClientPrints ==
  /\ client = "notifying" /\ printed < IndMax
  /\ printed' = printed + 1
  /\ out' = out \o Line("ind", printed')
  /\ UNCHANGED <<client, echoes, transportVars, pc, returned>>

Linked == {"discovering", "linked", "stuck", "notifying"}

LinkDrops ==
  \E s \in Linked : Client(s, "unlinked") /\ Says("disconnected")

(* It ends once the link is gone.                                          *)
ClientExits == Client("unlinked", "gone") /\ UNCHANGED out

(* timeout ends it after session_timeout_s, whatever it does.              *)
ClientIsKilled ==
  \E s \in Linked \cup {"connecting"} : Client(s, "gone") /\ UNCHANGED out

-----------------------------------------------------------------------------
Next ==
  \/ ReadChunk \/ ReadEnds \/ PumpEnds
  \/ Discovered \/ LooksAgain \/ GivesUp \/ Register \/ RegisterFails
  \/ BeginRead \/ TakeLine \/ PumpMore \/ TimesOut
  \/ Write \/ Close
  \/ ClientConnects \/ ClientRefused \/ ClientDiscovers \/ ClientFails
  \/ ClientPrints \/ LinkDrops \/ ClientExits \/ ClientIsKilled

Spec == Init /\ [][Next]_vars

(* The worker runs on.  A read with time left pumps, a pump reads what     *)
(* there is before it looks at the clock again, and every clock runs out.  *)
(* The application keeps reading, and a client that has lost its link ends. *)
Fairness ==
  /\ WF_vars(PumpEnds) /\ SF_vars(ReadChunk \/ ReadEnds)
  /\ WF_vars(Discovered \/ LooksAgain \/ GivesUp) /\ SF_vars(GivesUp)
  /\ WF_vars(Register \/ RegisterFails)
  /\ WF_vars(BeginRead) /\ WF_vars(TakeLine)
  /\ SF_vars(PumpMore) /\ SF_vars(TimesOut)
  /\ WF_vars(ClientExits)

FairSpec == Spec /\ Fairness

-----------------------------------------------------------------------------
(* Types.  Every variable.                                                 *)
Fragments == [kind : {"complete", "failed", "unimplemented", "disconnected", "other", "ind"},
              n : 0..IndMax, part : {1, 2}]

TypeOK ==
  /\ client \in Linked \cup {"connecting", "unlinked", "gone"}
  /\ out \in Seq(Fragments) /\ buf \in Seq(Fragments)
  /\ open \in BOOLEAN /\ alive \in BOOLEAN
  /\ pc \in {"discover", "look", "register", "settle", "idle", "lines", "pump",
             "raised", "closed"}
  /\ returned \in Seq(1..IndMax)
  /\ printed \in 0..IndMax /\ echoes \in 0..EchoMax

(* Every indication printed is returned once and in order, or is still     *)
(* whole in buf and the terminal, wherever the reads have cut the text,    *)
(* whatever is printed between and however often a read has timed out: the *)
(* receive counter of the session depends on it (read_indication, _pump).  *)
Whole(text) ==
  {i \in 2..Len(text) : /\ text[i].kind = "ind" /\ text[i].part = 2
                        /\ text[i - 1] = [text[i] EXCEPT !.part = 1]}

IndicationsIntact ==
  open =>
    LET text == buf \o out
    IN /\ returned = [i \in 1..Len(returned) |-> i]
       /\ {text[i].n : i \in Whole(text)} = (Len(returned) + 1)..printed
       /\ \A i, j \in Whole(text) : i < j => text[i].n < text[j].n

(* The camera takes one connection at a time, and the manager tries again  *)
(* at once: a constructor that raised has left no client with a link or on *)
(* its way to one, on the path that closes nothing either (__init__).      *)
RaisedHoldsNoLink == pc = "raised" => client \in {"unlinked", "gone"}

(* A link that is gone is noticed in the end even where the notice is cut  *)
(* in two or never printed: the end of the text lowers the flag (_pump).   *)
DeathIsNoticed ==
  (client \in {"unlinked", "gone"}) ~> (~alive \/ pc = "raised")

(* The constructor and every read return, whatever the client prints or    *)
(* does not print.                                                         *)
CallsReturn == (pc # "idle") ~> (pc \in {"idle", "raised", "closed"})
=============================================================================
