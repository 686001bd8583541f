---- MODULE PacketCollector ----
(***************************************************************************)
(* The receiving half of lib/JbdBms: collectPacket() puts a BMS reply      *)
(* together from the BLE notifications it arrives in, PacketOk() takes or  *)
(* refuses it, notifyCallback() publishes the verdict to the loop task in  *)
(* newPacketReceived and dataErr.                                          *)
(*                                                                         *)
(* A reply is a sequence of notifications, a notification a record: the    *)
(* reply and the part of it that it carries, whether its first byte equals *)
(* STX and its last byte equals ETX, and whether the reply it belongs to   *)
(* has a status and values that the code takes.  Payload bytes may equal   *)
(* STX and ETX too, so the two flags are not a function of the part.  The  *)
(* static buffer is the sequence of the notifications written to it, which *)
(* may forget what their boundary bytes were.                              *)
(*                                                                         *)
(* The environment is the rest of the firmware as the collector meets it:  *)
(* the poll asks for one reply at a time and waits for it, the link drops  *)
(* with notifications under way, loop() restarts the ESP.                  *)
(***************************************************************************)
EXTENDS Naturals, Sequences

CONSTANTS
    Ends,       \* Ends[k][i]: bytes of reply k up to the end of its i-th notification
    BuffSize,   \* sizeof(packetbuff)
    ErrLimit,   \* loop() restarts the ESP when dataErr exceeds it
    AnyBytes    \* payload bytes at notification boundaries may equal STX, ETX

Kinds == {"basicinfo", "cellinfo", "hwinfo"}

ASSUME EndsAssumption ==
    Ends \in [Kinds -> Seq(Nat)]
        /\ \A k \in Kinds : Len(Ends[k]) > 0
                            /\ \A i, j \in 1..Len(Ends[k]) : i <= j => Ends[k][i] <= Ends[k][j]
ASSUME SizeAssumption ==
    BuffSize \in Nat /\ ErrLimit \in Nat /\ AnyBytes \in BOOLEAN

NumParts(k) == Len(Ends[k])
Bytes(k) == Ends[k][NumParts(k)]

\* What the flags of part i of reply k may be: the reply's first byte is STX
\* and its last byte is ETX, any other boundary byte is payload.
Payload == IF AnyBytes THEN BOOLEAN ELSE {FALSE}
STXs(i) == IF i = 1 THEN {TRUE} ELSE Payload
ETXs(k, i) == IF i = NumParts(k) THEN {TRUE} ELSE Payload

NotificationsOf(k) ==
    {f \in [kind : {k}, part : 1..NumParts(k), stx : BOOLEAN, etx : BOOLEAN,
            sound : BOOLEAN] :
        f.stx \in STXs(f.part) /\ f.etx \in ETXs(k, f.part)}

Notification == UNION {NotificationsOf(k) : k \in Kinds}

\* The ways the bytes of reply k may fall.
Replies(k) ==
    {r \in [1..NumParts(k) -> NotificationsOf(k)] :
        \A i \in 1..NumParts(k) : r[i].part = i /\ r[i].sound = r[1].sound}

Size(f) == Ends[f.kind][f.part] - (IF f.part = 1 THEN 0 ELSE Ends[f.kind][f.part - 1])

\* What the buffer has of a notification.
Piece == [kind : Kinds, part : Nat, sound : BOOLEAN]
Bare(f) == [kind |-> f.kind, part |-> f.part, sound |-> f.sound]

\* A sequence of notifications that begins with a whole reply.  ChecksumOk()
\* checks STX and the checksum over the length the header names: it looks at the
\* first reply in the buffer and ignores what follows it.  That a mixture of two
\* replies fails the checksum is the abstraction of this module.
HeadReply(b) ==
    LET k == b[1].kind IN
        /\ Len(b) >= NumParts(k)
        /\ \A i \in 1..NumParts(k) : b[i].kind = k /\ b[i].part = i

ExactReply(b) == Len(b) > 0 /\ HeadReply(b) /\ Len(b) = NumParts(b[1].kind)

VARIABLES
    wire,               \* notifications sent by the BMS and not yet delivered
    asked,              \* the request the poll wrote last, "none" after a connect
    packetstate,        \* 0: look for a first part, 1: append
    packetbuff,         \* the notifications written to the static buffer
    packetSize,         \* bytes of them
    numOfCells,         \* basicData.NumOfCells # 0
    newPacketReceived,
    dataErr,
    \* history
    missed,             \* sound replies delivered whole over this link since the last
                        \* one that was taken
    spoiled,            \* one that is not sound was among them
    torn,               \* a lost link has left part of a reply in the buffer, or an ETX
                        \* in the payload has closed one, and none has been taken since
    odd                 \* a payload byte has looked like STX or ETX, and no reply has
                        \* been taken since

static == <<packetstate, packetbuff, packetSize>>
vars == <<wire, asked, packetstate, packetbuff, packetSize, numOfCells,
          newPacketReceived, dataErr, missed, spoiled, torn, odd>>

TypeOK ==
    /\ wire \in Seq(Notification)
    /\ asked \in Kinds \cup {"none"}
    /\ packetstate \in {0, 1}
    /\ packetbuff \in Seq(Piece)
    /\ packetSize \in Nat
    /\ numOfCells \in BOOLEAN
    /\ newPacketReceived \in BOOLEAN
    /\ dataErr \in Nat
    /\ missed \in Nat /\ spoiled \in BOOLEAN /\ torn \in BOOLEAN /\ odd \in BOOLEAN

Init ==
    /\ wire = <<>> /\ asked = "none"
    /\ packetstate = 0 /\ packetbuff = <<>> /\ packetSize = 0
    /\ numOfCells = FALSE /\ newPacketReceived = FALSE /\ dataErr = 0
    /\ missed = 0 /\ spoiled = FALSE /\ torn = FALSE /\ odd = FALSE

----------------------------------------------------------------------------
\* The poll

\* What process() asks for next.  The tenth cell request is followed by a
\* hardware request; the counter is BmsPoll's subject.
NextRequests ==
    CASE asked \in {"none", "hwinfo"} -> {"basicinfo"}
      [] asked = "basicinfo"          -> {"cellinfo"}
      [] OTHER                        -> {"basicinfo", "hwinfo"}

\* bmsSendCmd(): the request goes out, newPacketReceived is cleared and the BMS
\* answers with the notifications of one reply.
Request ==
    /\ wire = <<>>
    /\ \E k \in NextRequests :
        /\ asked' = k
        /\ wire' \in Replies(k)
    /\ newPacketReceived' = FALSE
    /\ UNCHANGED <<static, numOfCells, dataErr, missed, spoiled, torn, odd>>

----------------------------------------------------------------------------
\* collectPacket(), called by notifyCallback() for the next notification

\* Mutant: no data are taken before the number of cells is known, not even those
\* that tell it.
MutPacketOk(b) == HeadReply(b) /\ b[1].sound /\ numOfCells

\* A reply is sound when its status is 0 and what processBasicData(),
\* processCellData() and processHwData() look at is not: voltage, version, number of
\* cells (a multiple of 4) and of sensors, the voltages of two cells.  Cell data are
\* refused as long as the number of cells is unknown.
PacketOk(b) ==
    /\ HeadReply(b)
    /\ b[1].sound
    /\ b[1].kind = "cellinfo" => numOfCells

\* What the histories make of it.  f carries the last bytes of its reply when its
\* part is the last: the reply has then been delivered and was taken or not.
LastOf(f) == f.part = NumParts(f.kind)

Remember(f, ok) ==
    /\ missed' = IF ok THEN 0 ELSE IF LastOf(f) /\ f.sound THEN missed + 1 ELSE missed
    /\ spoiled' = ((spoiled \/ (LastOf(f) /\ ~f.sound)) /\ ~ok)
    /\ torn' = ((torn \/ (packetstate = 1 /\ f.etx /\ ~LastOf(f))) /\ ~ok)
    /\ odd' = ((odd \/ (f.stx # (f.part = 1)) \/ (f.etx # LastOf(f))) /\ ~ok)

\* notifyCallback(): every notification that does not end an accepted reply
\* counts as an error.
Verdict(f, ok) ==
    /\ newPacketReceived' = ok
    /\ dataErr' = IF ok THEN 0 ELSE dataErr + 1
    /\ Remember(f, ok)

Deliver ==
    /\ dataErr <= ErrLimit      \* loop() restarts before more notifications come
    /\ wire' = Tail(wire)
    /\ UNCHANGED asked

\* Mutants: a first part that ends with ETX is taken for the whole packet; a first
\* part goes behind what the buffer holds; packetSize is added to and not set.
MutFirstPartEnds(f) ==
    /\ packetstate = 0 /\ f.stx
    /\ packetbuff' = <<Bare(f)>> /\ packetSize' = Size(f)
    /\ packetstate' = IF f.etx THEN 0 ELSE 1
    /\ Verdict(f, f.etx)
    /\ UNCHANGED numOfCells
MutFirstPartBehind(f) ==
    /\ packetstate = 0 /\ f.stx
    /\ packetbuff' = Append(packetbuff, Bare(f)) /\ packetSize' = packetSize + Size(f)
    /\ packetstate' = 1
    /\ Verdict(f, FALSE)
    /\ UNCHANGED numOfCells

MutFirstPartAdds(f) ==
    /\ packetstate = 0 /\ f.stx
    /\ packetbuff' = <<Bare(f)>> /\ packetSize' = packetSize + Size(f)
    /\ packetstate' = 1
    /\ Verdict(f, FALSE)
    /\ UNCHANGED numOfCells

\* First part: copied to the start of the buffer, whatever its last byte is.
FirstPart(f) ==
    /\ packetstate = 0 /\ f.stx
    /\ packetbuff' = <<Bare(f)>> /\ packetSize' = Size(f) /\ packetstate' = 1
    /\ Verdict(f, FALSE)
    /\ UNCHANGED numOfCells

\* Not a first part while one is expected: dropped.
IgnoredPart(f) ==
    /\ packetstate = 0 /\ ~f.stx
    /\ Verdict(f, FALSE)
    /\ UNCHANGED <<static, numOfCells>>

\* Written behind the bytes the buffer holds.  There is no check against its size.
AppendPart(f) ==
    /\ packetbuff' = Append(packetbuff, Bare(f))
    /\ packetSize' = packetSize + Size(f)

MiddlePart(f) ==
    /\ packetstate = 1 /\ ~f.etx
    /\ AppendPart(f)
    /\ Verdict(f, FALSE)
    /\ UNCHANGED <<packetstate, numOfCells>>

\* Mutants: the state counts parts; a refused packet is added to.
MutLastPartCounts(f) ==
    /\ packetstate = 1 /\ f.etx
    /\ AppendPart(f)
    /\ packetstate' = packetstate + 1
    /\ Verdict(f, PacketOk(packetbuff'))
    /\ UNCHANGED numOfCells
MutLastPartKeeps(f) ==
    /\ packetstate = 1 /\ f.etx
    /\ AppendPart(f)
    /\ packetstate' = IF PacketOk(packetbuff') THEN 0 ELSE 1
    /\ Verdict(f, PacketOk(packetbuff'))
    /\ numOfCells' = (numOfCells \/ (PacketOk(packetbuff')
                                       /\ packetbuff'[1].kind = "basicinfo"))

\* The last byte is ETX: judge the packet, look for a new one either way.
LastPart(f) ==
    /\ packetstate = 1 /\ f.etx
    /\ AppendPart(f)
    /\ packetstate' = 0
    /\ Verdict(f, PacketOk(packetbuff'))
    /\ numOfCells' = (numOfCells \/ (PacketOk(packetbuff')
                                       /\ packetbuff'[1].kind = "basicinfo"))

Notify ==
    /\ wire # <<>>
    /\ Deliver
    /\ LET f == Head(wire) IN
        FirstPart(f) \/ IgnoredPart(f) \/ MiddlePart(f) \/ LastPart(f)

----------------------------------------------------------------------------
\* The rest of the firmware and the radio

\* The link is lost: what is under way is lost with it, the statics of
\* collectPacket() stay as they are.  After the reconnect the poll starts over.
LinkLost ==
    /\ asked # "none"
    /\ wire' = <<>> /\ asked' = "none"
    /\ missed' = 0 /\ spoiled' = FALSE /\ torn' = (torn \/ packetstate = 1)
    /\ UNCHANGED <<static, numOfCells, newPacketReceived, dataErr, odd>>

Boot ==
    /\ wire' = <<>> /\ asked' = "none"
    /\ packetstate' = 0 /\ packetbuff' = <<>> /\ packetSize' = 0
    /\ numOfCells' = FALSE /\ newPacketReceived' = FALSE /\ dataErr' = 0
    /\ missed' = 0 /\ spoiled' = FALSE /\ torn' = FALSE /\ odd' = FALSE

\* loop(): "BMS errors over allowed limit" restarts the ESP.
Restart == dataErr > ErrLimit /\ Boot

\* Bytes written behind packetbuff land in the statics next to it.  Either they
\* hit nothing that matters, and the collector carries on, or the program does
\* not survive it.
Overrun == packetSize > BuffSize /\ Boot

Next == Request \/ Notify \/ LinkLost \/ Restart \/ Overrun

\* The BMS answers and the BLE host task delivers what arrives; the poll runs
\* in loop().  The radio is under no obligation to lose the link.
Fairness == WF_vars(Request) /\ WF_vars(Notify) /\ WF_vars(Restart)

Spec == Init /\ [][Next]_vars /\ Fairness

----------------------------------------------------------------------------
\* Properties

\* What is accepted is one reply, complete, with nothing before or behind it:
\* the data the loop task is told about belong to the reply that has just
\* arrived (collectPacket and PacketOk, JbdBms.cpp).
AcceptedIsOneReply == newPacketReceived => ExactReply(packetbuff)

\* The buffer is written past its end only by a reply that is itself longer than the
\* buffer, as basic data with three sensors are, or when the collector has lost its
\* place (collectPacket, which checks nothing): then a reply goes behind a part of
\* another one.
BufferBounded ==
    packetSize > BuffSize => torn \/ Bytes(packetbuff[1].kind) > BuffSize

\* Every sound reply is taken, of any number of notifications and whatever was refused
\* before, unless the collector has lost its place: by a link lost within a reply,
\* or because a notification in the middle of one ends with a byte like ETX.  Cell
\* data also need basic data that were taken (collectPacket, PacketOk).
EveryReplyTaken == missed > 0 => torn \/ (spoiled /\ ~numOfCells)

\* Part of a reply that was left behind costs the first reply of the next link
\* and no other; before the number of cells is known it costs the cell data that
\* follow as well.  Payload that looks like STX or ETX may prolong it, and so may
\* basic data that are refused while the number of cells is unknown.
Resync ==
    ~odd /\ (numOfCells \/ ~spoiled) => missed <= (IF numOfCells THEN 1 ELSE 2)

\* What goes out on the wire from now on is sound, and no notification in the middle
\* of a reply ends like the last one.
PlainReply(r) ==
    \A i \in 1..Len(r) : r[i].sound /\ (i \in 2..(Len(r) - 1) => ~r[i].etx)
Calm == ~LinkLost /\ (Request => PlainReply(wire'))

\* Once links hold and replies are plain, a reply is accepted again and again,
\* whatever state the collector was left in: at the latest the error count restarts
\* one that has lost its place.
Delivery == <>[][Calm]_vars => []<>newPacketReceived

====
