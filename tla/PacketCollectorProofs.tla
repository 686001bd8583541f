---- MODULE PacketCollectorProofs ----
(***************************************************************************)
(* Proofs about PacketCollector for all lengths of replies, all boundary   *)
(* bytes, all refusals and all losses of the link.  As long as every reply *)
(* takes at least two notifications, what the collector accepts is one     *)
(* whole reply and nothing else; no sound reply is missed, and the buffer  *)
(* holds what fits it, until the collector loses its place; and losing it  *)
(* costs one reply, or two.                                                *)
(***************************************************************************)
EXTENDS PacketCollector, SequenceTheorems, TLAPS

\* No reply fits one notification.  One that does waits in the buffer for a second
\* part, and is taken when the next reply ends.
TwoParts == \A k \in Kinds : NumParts(k) >= 2

\* What the buffer has are pieces of notifications.
Pieces == {Bare(f) : f \in Notification}

\* What is known of a notification: its part exists, the first part begins with STX and
\* the last ends with ETX.
LEMMA Flags ==
    ASSUME NEW f \in Notification
    PROVE  /\ f.kind \in Kinds /\ f.part \in 1..NumParts(f.kind) /\ NumParts(f.kind) \in Nat
           /\ f.stx \in BOOLEAN /\ f.etx \in BOOLEAN /\ f.sound \in BOOLEAN
           /\ f.part = 1 => f.stx
           /\ LastOf(f) => f.etx
<1>1. PICK k \in Kinds : f \in NotificationsOf(k)
  BY DEF Notification
<1>2. /\ f.kind = k /\ f.part \in 1..NumParts(k)
      /\ f.stx \in BOOLEAN /\ f.etx \in BOOLEAN /\ f.sound \in BOOLEAN
      /\ f.stx \in STXs(f.part) /\ f.etx \in ETXs(k, f.part)
  BY <1>1 DEF NotificationsOf
<1>3. f.part = 1 => f.stx
  BY <1>2 DEF STXs
<1>4. LastOf(f) => f.etx
  BY <1>2 DEF ETXs, LastOf
<1>5. NumParts(k) \in Nat
  BY EndsAssumption DEF NumParts
<1> QED
  BY <1>1, <1>2, <1>3, <1>4, <1>5

\* Of a piece we know kind and part.
LEMMA PieceOf ==
    ASSUME NEW f \in Notification
    PROVE  /\ Bare(f) \in Pieces /\ Bare(f) \in Piece
           /\ Bare(f).kind = f.kind /\ Bare(f).part = f.part /\ Bare(f).sound = f.sound
<1>1. f.kind \in Kinds /\ f.part \in Nat /\ f.sound \in BOOLEAN
  BY Flags
<1>2. Bare(f) \in Piece
  BY <1>1 DEF Bare, Piece
<1> QED
  BY <1>2 DEF Bare, Pieces

LEMMA PieceTyped ==
    ASSUME NEW p \in Pieces
    PROVE  /\ p.kind \in Kinds /\ p.part \in 1..NumParts(p.kind) /\ NumParts(p.kind) \in Nat
           /\ p.sound \in BOOLEAN
<1>1. PICK f \in Notification : p = Bare(f)
  BY DEF Pieces
<1> QED
  BY <1>1, Flags, PieceOf

\* The notifications of a reply that is asked for can be put on the wire.
LEMMA RepliesTyped ==
    ASSUME NEW k \in Kinds, NEW r \in Replies(k)
    PROVE  /\ r \in Seq(Notification) /\ Len(r) = NumParts(k) /\ NumParts(k) \in Nat
           /\ NumParts(k) > 0
           /\ \A i \in 1..Len(r) : /\ r[i].kind = k /\ r[i].part = i
                                   /\ r[i].sound = r[1].sound
<1>1. NumParts(k) \in Nat /\ NumParts(k) > 0
  BY EndsAssumption DEF NumParts
<1>2. NotificationsOf(k) \subseteq Notification
  BY DEF Notification
<1>3. /\ r \in [1..NumParts(k) -> NotificationsOf(k)]
      /\ \A i \in 1..NumParts(k) : r[i].part = i /\ r[i].sound = r[1].sound
  BY DEF Replies
<1>4. r \in Seq(Notification) /\ Len(r) = NumParts(k)
  BY <1>1, <1>2, <1>3
<1>5. \A i \in 1..NumParts(k) : r[i].kind = k
  BY <1>3 DEF NotificationsOf
<1> QED
  BY <1>1, <1>3, <1>4, <1>5

----------------------------------------------------------------------------
\* The inductive invariant: behind its first notification an open packet has none
\* that is the last of its reply, or it would have been closed there.
Buffers ==
    /\ wire \in Seq(Notification) /\ packetbuff \in Seq(Pieces)
    /\ packetstate \in {0, 1}

OpenPacket ==
    packetstate = 1 => /\ Len(packetbuff) >= 1
                       /\ \A i \in 2..Len(packetbuff) : ~LastOf(packetbuff[i])

CollectorInv == Buffers /\ OpenPacket /\ AcceptedIsOneReply

\* A sequence that begins with a whole reply of two parts or more, and has no last part
\* between its first notification and its last, is that reply.
LEMMA ClosedAtTheFirstEnd ==
    ASSUME TwoParts,
           NEW b \in Seq(Pieces), Len(b) >= 1, NEW p \in Pieces,
           \A i \in 2..Len(b) : ~LastOf(b[i]),
           HeadReply(Append(b, p))
    PROVE  ExactReply(Append(b, p))
<1> DEFINE c == Append(b, p)
           k == c[1].kind
           n == NumParts(k)
<1>1. c[1] = b[1] /\ Len(c) = Len(b) + 1 /\ c \in Seq(Pieces)
  OBVIOUS
<1>2. \A i \in 1..Len(b) : c[i] = b[i]
  OBVIOUS
<1>3. k \in Kinds
  BY <1>1, PieceTyped
<1>4. n \in Nat /\ n >= 2
  BY <1>3, EndsAssumption DEF TwoParts, NumParts
<1>5. Len(c) >= n /\ c[n].kind = k /\ c[n].part = n
  BY <1>4 DEF HeadReply
<1>6. ASSUME n # Len(c) PROVE FALSE
  <2>1. n \in 2..Len(b)
    BY <1>1, <1>4, <1>5, <1>6
  <2>2. c[n] = b[n]
    BY <1>2, <2>1
  <2>3. LastOf(b[n])
    BY <1>5, <2>2 DEF LastOf
  <2> QED
    BY <2>1, <2>3
<1> QED
  BY <1>1, <1>6 DEF ExactReply

----------------------------------------------------------------------------
\* A notification keeps the invariant: the end of a packet by the lemma before.
LEMMA DeliverStep ==
    ASSUME TwoParts, CollectorInv, Notify
    PROVE  CollectorInv'
<1> DEFINE f == Head(wire)
           p == Bare(f)
<1>1. wire # <<>> /\ wire' = Tail(wire)
  BY DEF Notify, Deliver
<1>2. f \in Notification /\ wire' \in Seq(Notification)
  BY <1>1 DEF CollectorInv, Buffers
<1>0. p \in Pieces /\ p.kind = f.kind /\ p.part = f.part
  BY <1>2, PieceOf
<1> HIDE DEF p
<1>3. CASE FirstPart(f)
  <2>1. /\ packetbuff' = <<p>> /\ packetstate' = 1 /\ newPacketReceived' = FALSE
    BY <1>3 DEF FirstPart, Verdict, p
  <2> QED
    BY <1>0, <1>2, <2>1 DEF CollectorInv, Buffers, OpenPacket, AcceptedIsOneReply
<1>4. CASE IgnoredPart(f)
  BY <1>2, <1>4 DEF IgnoredPart, Verdict, static, CollectorInv, Buffers, OpenPacket,
                    AcceptedIsOneReply
<1>5. CASE MiddlePart(f)
  <2>1. /\ packetbuff' = Append(packetbuff, p) /\ packetstate' = packetstate
        /\ newPacketReceived' = FALSE /\ ~f.etx /\ packetstate = 1
    BY <1>5 DEF MiddlePart, AppendPart, Verdict, p
  <2>2. ~LastOf(p)
    BY <1>0, <1>2, <2>1, Flags DEF LastOf
  <2> QED
    BY <1>0, <1>2, <2>1, <2>2 DEF CollectorInv, Buffers, OpenPacket, AcceptedIsOneReply
<1>6. CASE LastPart(f)
  <2>1. /\ packetbuff' = Append(packetbuff, p) /\ packetstate' = 0
        /\ newPacketReceived' = PacketOk(packetbuff')
    BY <1>6 DEF LastPart, AppendPart, Verdict, p
  <2>2. /\ packetbuff \in Seq(Pieces) /\ Len(packetbuff) >= 1
        /\ \A i \in 2..Len(packetbuff) : ~LastOf(packetbuff[i])
    BY <1>6 DEF LastPart, CollectorInv, Buffers, OpenPacket
  <2>3. newPacketReceived' => ExactReply(packetbuff')
    BY <1>0, <2>1, <2>2, ClosedAtTheFirstEnd DEF PacketOk
  <2> QED
    BY <1>0, <1>2, <2>1, <2>2, <2>3 DEF CollectorInv, Buffers, OpenPacket,
                                        AcceptedIsOneReply
<1> QED
  BY <1>3, <1>4, <1>5, <1>6 DEF Notify

\* Every step keeps it.
LEMMA CollectorKept ==
    ASSUME TwoParts, CollectorInv, [Next]_vars PROVE CollectorInv'
<1> USE DEF CollectorInv, Buffers, OpenPacket, AcceptedIsOneReply
<1>1. CASE Request
  <2>1. wire' \in Seq(Notification)
    BY <1>1, RepliesTyped DEF Request, NextRequests, Kinds
  <2> QED
    BY <2>1, <1>1 DEF Request, static
<1>2. CASE Notify
  BY <1>2, DeliverStep
<1>3. CASE LinkLost
  BY <1>3 DEF LinkLost, static, ExactReply, HeadReply
<1>4. CASE Restart \/ Overrun
  <2>1. Boot
    BY <1>4 DEF Restart, Overrun
  <2>2. wire' = <<>> /\ packetbuff' = <<>> /\ packetstate' = 0 /\ newPacketReceived' = FALSE
    BY <2>1, Zenon DEF Boot
  <2>3. <<>> \in Seq(Notification) /\ <<>> \in Seq(Pieces)
    OBVIOUS
  <2> QED
    BY <2>2, <2>3
<1>5. CASE UNCHANGED vars
  BY <1>5 DEF vars, ExactReply, HeadReply
<1> QED
  BY <1>1, <1>2, <1>3, <1>4, <1>5 DEF Next

\* No data are ever taken from part of a reply or from two replies, whatever the
\* payload and wherever the link is lost.
THEOREM Accepted ==
    ASSUME TwoParts PROVE Spec => []AcceptedIsOneReply
<1>1. Init => CollectorInv
  BY DEF Init, CollectorInv, Buffers, OpenPacket, AcceptedIsOneReply
<1>2. CollectorInv /\ [Next]_vars => CollectorInv'
  BY CollectorKept
<1>3. CollectorInv => AcceptedIsOneReply
  BY DEF CollectorInv
<1> QED
  BY <1>1, <1>2, <1>3, PTL DEF Spec
----------------------------------------------------------------------------
\* What is under way: the rest of a reply to the last request.
OnWire ==
    wire # <<>> =>
        /\ asked \in Kinds /\ Len(wire) <= NumParts(asked)
        /\ \A i \in 1..Len(wire) :
                /\ wire[i].kind = asked /\ wire[i].sound = wire[1].sound
                /\ wire[i].part = NumParts(asked) - Len(wire) + i

\* The collector is where the wire is: it looks for a first part when that comes next,
\* or has what has come of the reply.
Aligned ==
    \/ packetstate = 0 /\ (wire = <<>> \/ Len(wire) = NumParts(asked))
    \/ /\ packetstate = 1 /\ wire # <<>>
       /\ Len(packetbuff) = NumParts(asked) - Len(wire)
       /\ \A i \in 1..Len(packetbuff) : packetbuff[i].kind = asked /\ packetbuff[i].part = i
       /\ packetbuff[1].sound = wire[1].sound

\* Cell data are asked for when the number of cells is known, or basic data were refused.
Known ==
    asked = "cellinfo" \/ (asked = "basicinfo" /\ wire = <<>>) => numOfCells \/ spoiled

\* The first parts of one reply, in order.
Parts(b) == \A i \in 1..Len(b) : b[i].kind = b[1].kind /\ b[i].part = i

\* As long as it has not lost its place the collector keeps in step.
InStep ==
    ~torn => /\ Aligned /\ Known /\ Parts(packetbuff)
             /\ missed > 0 => spoiled /\ ~numOfCells

\* ... and when it has, it is one reply behind at first, and two when the cell data come
\* before the number of cells: the next one is taken in any case.
Behind ==
    \/ numOfCells /\ missed <= 1
    \/ ~numOfCells /\ spoiled
    \/ missed = 0 /\ Known
    \/ missed = 1 /\ \/ asked = "basicinfo" /\ wire = <<>>
                     \/ asked = "cellinfo" /\ wire # <<>>
    \/ missed = 2 /\ ~numOfCells
                  /\ \/ asked = "cellinfo" /\ wire = <<>>
                     \/ asked \in {"basicinfo", "hwinfo"} /\ wire # <<>>
Stale ==
    /\ packetstate = 1 /\ missed = 0
    /\ \/ asked = "none" /\ wire = <<>>
       \/ asked = "basicinfo" /\ wire # <<>>

CatchingUp == ~odd => (Aligned /\ Behind) \/ Stale

\* The bytes in the buffer are those of its pieces.
Sizes ==
    /\ packetSize \in Int
    /\ packetbuff # <<>> /\ Parts(packetbuff)
          => packetSize = Ends[packetbuff[1].kind][Len(packetbuff)]
    /\ packetbuff = <<>> => packetSize = 0

Types ==
    /\ asked \in Kinds \cup {"none"} /\ numOfCells \in BOOLEAN
    /\ missed \in Nat /\ spoiled \in BOOLEAN /\ torn \in BOOLEAN /\ odd \in BOOLEAN

StepInv == Types /\ OnWire /\ InStep /\ CatchingUp /\ Sizes

\* The number of notifications to a reply.
LEMMA PartsTyped ==
    ASSUME TwoParts, NEW k \in Kinds PROVE NumParts(k) \in Nat /\ NumParts(k) >= 2
  BY EndsAssumption DEF NumParts, TwoParts

LEMMA NotEmpty == ASSUME NEW s, Len(s) # 0 PROVE s # <<>>
<1>1. Len(<<>>) = 0
  OBVIOUS
<1> QED
  BY <1>1, Zenon

\* What the notification that arrives can be, and what is left behind it.
LEMMA NextPart ==
    ASSUME TwoParts, Buffers, OnWire, wire # <<>>
    PROVE  LET f == Head(wire) w == Tail(wire) n == NumParts(asked) IN
           /\ f \in Notification /\ f.kind = asked /\ f = wire[1] /\ asked \in Kinds
           /\ n \in Nat /\ n >= 2 /\ Len(wire) \in 1..n /\ f.part = n - Len(wire) + 1
           /\ f.stx \in BOOLEAN /\ f.etx \in BOOLEAN /\ f.sound \in BOOLEAN
           /\ Len(wire) = n => f.stx /\ f.part = 1
           /\ LastOf(f) <=> Len(wire) = 1
           /\ LastOf(f) => f.etx
           /\ w \in Seq(Notification) /\ Len(w) = Len(wire) - 1
           /\ \A i \in 1..Len(w) : /\ w[i].kind = asked /\ w[i].sound = f.sound
                                   /\ w[i].part = n - Len(w) + i
           /\ Len(wire) = 1 => w = <<>>
           /\ Len(wire) # 1 => w # <<>>
<1> DEFINE f == Head(wire)
           w == Tail(wire)
           n == NumParts(asked)
<1>1. wire \in Seq(Notification) /\ Len(wire) \in Nat /\ Len(wire) # 0
  BY DEF Buffers
<1>2. /\ f = wire[1] /\ f \in Notification /\ w \in Seq(Notification)
      /\ Len(w) = Len(wire) - 1 /\ \A i \in 1..Len(w) : w[i] = wire[i + 1]
  BY <1>1
<1>3. /\ asked \in Kinds /\ Len(wire) <= n
      /\ \A i \in 1..Len(wire) : /\ wire[i].kind = asked /\ wire[i].sound = wire[1].sound
                                 /\ wire[i].part = n - Len(wire) + i
  BY DEF OnWire
<1>4. n \in Nat /\ n >= 2
  BY <1>3, PartsTyped
<1>5. f.kind = asked /\ f.part = n - Len(wire) + 1
  BY <1>1, <1>2, <1>3, <1>4
<1>6. /\ f.stx \in BOOLEAN /\ f.etx \in BOOLEAN /\ f.sound \in BOOLEAN
      /\ f.part = 1 => f.stx
      /\ LastOf(f) => f.etx
  BY <1>2, Flags
<1>7. LastOf(f) <=> Len(wire) = 1
  <2>1. LastOf(f) <=> f.part = n
    BY <1>5 DEF LastOf
  <2>2. \A len \in Nat : n - len + 1 = n <=> len = 1
    <3> HIDE DEF n
    <3> QED
      BY <1>4
  <2> HIDE DEF f, n
  <2>3. f.part = n <=> Len(wire) = 1
    BY <1>1, <1>5, <2>2, Zenon
  <2> QED
    BY <2>1, <2>3, Zenon
<1>8. \A i \in 1..Len(w) : /\ w[i].kind = asked /\ w[i].sound = f.sound
                           /\ w[i].part = n - Len(w) + i
  <2>1. TAKE i \in 1..Len(w)
  <2>2. i + 1 \in 1..Len(wire) /\ w[i] = wire[i + 1]
    BY <1>1, <1>2
  <2>3. /\ w[i].kind = asked /\ w[i].sound = wire[1].sound
        /\ w[i].part = n - Len(wire) + (i + 1)
    BY <1>3, <2>2
  <2> QED
    BY <1>1, <1>2, <1>4, <2>3
<1>9. /\ Len(wire) = 1 => w = <<>>
      /\ Len(wire) # 1 => w # <<>>
  <2>1. Len(wire) = 1 => Len(w) = 0
    BY <1>2
  <2>2. Len(wire) # 1 => Len(w) # 0
    BY <1>1, <1>2
  <2> QED
    BY <1>2, <2>1, <2>2, EmptySeq, NotEmpty
<1> QED
  BY <1>1, <1>2, <1>3, <1>4, <1>5, <1>6, <1>7, <1>8, <1>9

\* What is left on the wire, and the types of the histories.
LEMMA WireStep ==
    ASSUME TwoParts, CollectorInv, StepInv, Notify PROVE OnWire' /\ Types'
<1> DEFINE f == Head(wire)
<1>1. wire # <<>> /\ wire' = Tail(wire) /\ asked' = asked /\ Buffers /\ OnWire /\ Types
  BY DEF Notify, Deliver, CollectorInv, StepInv
<1>2. OnWire'
  <2>1. /\ asked \in Kinds /\ NumParts(asked) \in Nat /\ Len(wire) \in 1..NumParts(asked)
        /\ Len(wire') = Len(wire) - 1 /\ wire' \in Seq(Notification)
        /\ \A i \in 1..Len(wire') :
                /\ wire'[i].kind = asked /\ wire'[i].sound = f.sound
                /\ wire'[i].part = NumParts(asked) - Len(wire') + i
    BY <1>1, NextPart
  <2>2. wire' # <<>> => 1 \in 1..Len(wire')
    BY <2>1
  <2> QED
    BY <1>1, <2>1, <2>2 DEF OnWire
<1>3. PICK ok \in BOOLEAN : Remember(f, ok)
  BY Zenon DEF Notify, FirstPart, IgnoredPart, MiddlePart, LastPart, Verdict, PacketOk,
               HeadReply
<1>4. missed' \in Nat
  BY <1>1, <1>3 DEF Remember, Types
<1>5. torn' \in BOOLEAN /\ odd' \in BOOLEAN /\ spoiled' \in BOOLEAN
  BY <1>3, Zenon DEF Remember
<1>6. numOfCells' \in BOOLEAN
  BY <1>1, Zenon DEF Notify, FirstPart, IgnoredPart, MiddlePart, LastPart, Types
<1>7. Types'
  BY <1>1, <1>4, <1>5, <1>6 DEF Types
<1> QED
  BY <1>2, <1>7

\* Which branch a notification takes.
LEMMA Branch ==
    ASSUME Notify, NEW f, f = Head(wire)
    PROVE  /\ packetstate = 0 /\ f.stx => FirstPart(f)
           /\ packetstate = 1 /\ ~f.etx => MiddlePart(f)
           /\ packetstate = 1 /\ f.etx => LastPart(f)
<1>1. /\ FirstPart(f) => packetstate = 0
      /\ IgnoredPart(f) => packetstate = 0 /\ ~f.stx
      /\ MiddlePart(f) => packetstate = 1 /\ ~f.etx
      /\ LastPart(f) => packetstate = 1 /\ f.etx
  BY DEF FirstPart, IgnoredPart, MiddlePart, LastPart
<1>2. FirstPart(f) \/ IgnoredPart(f) \/ MiddlePart(f) \/ LastPart(f)
  BY DEF Notify
<1> QED
  BY <1>1, <1>2

\* What an accepted packet does, wherever it is found.
LEMMA Accepting ==
    ASSUME TwoParts, CollectorInv, CollectorInv', StepInv, Notify, newPacketReceived'
    PROVE  /\ wire' = <<>> /\ packetstate' = 0 /\ missed' = 0
           /\ ~torn' /\ ~odd' /\ ~spoiled'
           /\ Parts(packetbuff') /\ Known'
<1> DEFINE f == Head(wire)
           p == Bare(f)
           n == NumParts(asked)
<1>1. wire # <<>> /\ wire' = Tail(wire) /\ asked' = asked /\ Buffers /\ OnWire
  BY DEF Notify, Deliver, CollectorInv, StepInv
<1>2. /\ f \in Notification /\ f.kind = asked /\ n \in Nat
      /\ LastOf(f) => Tail(wire) = <<>>
  BY <1>1, NextPart
<1>3. p \in Pieces /\ p.kind = f.kind /\ p.part = f.part
  BY <1>2, PieceOf
<1>4. LastPart(f)
  <2>1. ~FirstPart(f) /\ ~IgnoredPart(f) /\ ~MiddlePart(f)
    BY Zenon DEF FirstPart, IgnoredPart, MiddlePart, Verdict
  <2> QED
    BY <2>1 DEF Notify
<1>5. /\ packetbuff' = Append(packetbuff, p) /\ packetstate' = 0
      /\ PacketOk(packetbuff') /\ Remember(f, TRUE)
      /\ numOfCells' = (numOfCells \/ packetbuff'[1].kind = "basicinfo")
  <2>1. /\ packetbuff' = Append(packetbuff, p) /\ packetstate' = 0
        /\ Verdict(f, PacketOk(packetbuff'))
        /\ numOfCells' = (numOfCells \/ (PacketOk(packetbuff')
                                           /\ packetbuff'[1].kind = "basicinfo"))
    BY <1>4 DEF LastPart, AppendPart
  <2>2. PacketOk(packetbuff') <=> TRUE
    BY <2>1 DEF Verdict
  <2>3. PacketOk(packetbuff') = TRUE
    BY <2>2, Zenon DEF PacketOk, HeadReply
  <2>4. Remember(f, TRUE)
    BY <2>1, <2>3, Zenon DEF Verdict
  <2> QED
    BY <2>1, <2>2, <2>4
<1>6. ExactReply(packetbuff')
  BY DEF CollectorInv, AcceptedIsOneReply
<1> HIDE DEF p
<1>7. /\ packetbuff \in Seq(Pieces) /\ packetbuff' \in Seq(Pieces)
      /\ Len(packetbuff') = Len(packetbuff) + 1 /\ packetbuff'[Len(packetbuff')] = p
  BY <1>3, <1>5 DEF CollectorInv, Buffers
<1>8. /\ Len(packetbuff') = NumParts(packetbuff'[1].kind)
      /\ \A i \in 1..Len(packetbuff') : /\ packetbuff'[i].kind = packetbuff'[1].kind
                                        /\ packetbuff'[i].part = i
  BY <1>6 DEF ExactReply, HeadReply
<1>9. p.part = NumParts(p.kind) /\ packetbuff'[1].kind = p.kind
  <2>1. Len(packetbuff') \in 1..Len(packetbuff')
    BY <1>7
  <2> QED
    BY <1>7, <1>8, <2>1
<1>10. LastOf(f) /\ wire' = <<>>
  BY <1>1, <1>2, <1>3, <1>9 DEF LastOf
<1>11. missed' = 0 /\ ~torn' /\ ~odd' /\ ~spoiled'
  BY <1>5, Zenon DEF Remember
<1>12. Parts(packetbuff')
  BY <1>8 DEF Parts
<1>13. Known'
  <2>1. packetbuff'[1].kind = asked
    BY <1>2, <1>3, <1>9
  <2>2. asked = "cellinfo" => numOfCells
    BY <1>5, <2>1 DEF PacketOk
  <2>3. asked = "basicinfo" => numOfCells'
    BY <1>5, <2>1
  <2>4. asked = "cellinfo" => numOfCells'
    BY <1>5, <2>2
  <2> QED
    BY <1>1, <2>3, <2>4 DEF Known
<1> QED
  BY <1>5, <1>10, <1>11, <1>12, <1>13

\* What a notification does that ends no accepted packet.
LEMMA Refused ==
    ASSUME Types, Notify, ~newPacketReceived', NEW f, f = Head(wire),
           f.etx \in BOOLEAN, f.stx \in BOOLEAN, f.sound \in BOOLEAN
    PROVE  /\ numOfCells' = numOfCells
           /\ missed' = IF LastOf(f) /\ f.sound THEN missed + 1 ELSE missed
           /\ spoiled' <=> (spoiled \/ (LastOf(f) /\ ~f.sound))
           /\ torn' <=> (torn \/ (packetstate = 1 /\ f.etx /\ ~LastOf(f)))
           /\ odd' <=> (odd \/ (f.stx # (f.part = 1)) \/ (f.etx # LastOf(f)))
<1>1. Remember(f, FALSE) /\ numOfCells' = numOfCells
  <2>1. CASE FirstPart(f)
    BY <2>1 DEF FirstPart, Verdict
  <2>2. CASE IgnoredPart(f)
    BY <2>2 DEF IgnoredPart, Verdict
  <2>3. CASE MiddlePart(f)
    BY <2>3 DEF MiddlePart, Verdict
  <2>4. CASE LastPart(f)
    <3>1. /\ Verdict(f, PacketOk(packetbuff'))
          /\ numOfCells' = (numOfCells \/ (PacketOk(packetbuff')
                                             /\ packetbuff'[1].kind = "basicinfo"))
      BY <2>4 DEF LastPart
    <3>2. ~PacketOk(packetbuff')
      BY <3>1 DEF Verdict
    <3>3. PacketOk(packetbuff') = FALSE
      BY <3>2, Zenon DEF PacketOk, HeadReply
    <3>4. Remember(f, FALSE)
      BY <3>1, <3>3, Zenon DEF Verdict
    <3>5. numOfCells \in BOOLEAN
      BY DEF Types
    <3>6. numOfCells' = numOfCells
      BY <3>1, <3>2, <3>5, Zenon
    <3> QED
      BY <3>4, <3>6
  <2> QED
    BY <2>1, <2>2, <2>3, <2>4 DEF Notify
<1>2. missed' = IF LastOf(f) /\ f.sound THEN missed + 1 ELSE missed
  BY <1>1, Zenon DEF Remember
<1>3. /\ spoiled' <=> (spoiled \/ (LastOf(f) /\ ~f.sound))
      /\ torn' <=> (torn \/ (packetstate = 1 /\ f.etx /\ ~LastOf(f)))
      /\ odd' <=> (odd \/ (f.stx # (f.part = 1)) \/ (f.etx # LastOf(f)))
  BY <1>1, Zenon DEF Remember
<1> QED
  BY <1>1, <1>2, <1>3
\* In step, a notification that does not cut its reply short keeps the collector there;
\* the last one closes a packet that is the whole reply.
LEMMA AlignedStep ==
    ASSUME TwoParts, CollectorInv, OnWire, Aligned, Notify, NEW f, f = Head(wire),
           packetstate = 1 /\ f.etx => LastOf(f)
    PROVE  /\ Aligned' /\ Parts(packetbuff')
           /\ packetstate' = 0 <=> wire' = <<>>
           /\ packetstate' = 0 \/ packetstate' = 1
           /\ LastOf(f) <=> wire' = <<>>
           /\ LastOf(f) => (newPacketReceived' <=>
                                f.sound /\ (asked = "cellinfo" => numOfCells))
<1> DEFINE n == NumParts(asked)
           w == Tail(wire)
           p == Bare(f)
<1>1. wire # <<>> /\ wire' = w /\ asked' = asked /\ Buffers
  BY DEF Notify, Deliver, CollectorInv
<1>2. /\ f \in Notification /\ f.kind = asked /\ f = wire[1] /\ asked \in Kinds
      /\ n \in Nat /\ n >= 2 /\ Len(wire) \in 1..n /\ f.part = n - Len(wire) + 1
      /\ f.stx \in BOOLEAN /\ f.etx \in BOOLEAN /\ f.sound \in BOOLEAN
      /\ Len(wire) = n => f.stx /\ f.part = 1
      /\ LastOf(f) <=> Len(wire) = 1
      /\ LastOf(f) => f.etx
      /\ w \in Seq(Notification) /\ Len(w) = Len(wire) - 1
      /\ \A i \in 1..Len(w) : w[i].sound = f.sound
      /\ Len(wire) = 1 => w = <<>>
      /\ Len(wire) # 1 => w # <<>>
  BY <1>1, NextPart
<1>3. /\ p \in Pieces /\ p.kind = asked /\ p.part = n - Len(wire) + 1
      /\ p.sound = f.sound
  BY <1>2, PieceOf
<1>4. LastOf(f) <=> wire' = <<>>
  BY <1>1, <1>2
<1>5. packetbuff \in Seq(Pieces)
  BY <1>1 DEF Buffers
<1>6. CASE packetstate = 0
  <2>1. Len(wire) = n
    BY <1>1, <1>6 DEF Aligned
  <2>2. FirstPart(f)
    BY <1>2, <1>6, <2>1, Branch
  <2>3. packetbuff' = <<p>> /\ packetstate' = 1
    BY <2>2 DEF FirstPart
  <2> HIDE DEF p, n, w
  <2>4. wire' # <<>> /\ ~LastOf(f) /\ Len(wire') = n - 1 /\ wire'[1].sound = f.sound
    <3>1. Len(wire) # 1 /\ 1 \in 1..Len(w)
      BY <1>2, <2>1
    <3> QED
      BY <1>1, <1>2, <2>1, <3>1
  <2>5. p.part = 1
    BY <1>2, <1>3, <2>1
  <2>6. Len(packetbuff') = 1 /\ packetbuff'[1] = p
    BY <2>3
  <2>7. Parts(packetbuff')
    BY <2>5, <2>6 DEF Parts
  <2>8. Aligned'
    <3>1. NumParts(asked') = n
      BY <1>1 DEF n
    <3>2. Len(packetbuff') = NumParts(asked') - Len(wire')
      BY <1>2, <2>4, <2>6, <3>1
    <3> QED
      BY <1>1, <1>3, <2>3, <2>4, <2>5, <2>6, <3>2 DEF Aligned
  <2> QED
    BY <2>3, <2>4, <2>7, <2>8
<1>7. CASE packetstate = 1
  <2>1. /\ Len(packetbuff) = n - Len(wire) /\ Len(packetbuff) >= 1
        /\ \A i \in 1..Len(packetbuff) : packetbuff[i].kind = asked /\ packetbuff[i].part = i
        /\ packetbuff[1].sound = f.sound
    BY <1>2, <1>7 DEF Aligned, CollectorInv, OpenPacket
  <2>2. /\ f.etx => LastPart(f)
        /\ ~f.etx => MiddlePart(f)
    BY <1>7, Branch
  <2>3. packetbuff' = Append(packetbuff, p)
    BY <1>2, <2>2, Zenon DEF LastPart, MiddlePart, AppendPart
  <2>4. packetstate' = IF f.etx THEN 0 ELSE 1
    BY <1>2, <1>7, <2>2 DEF LastPart, MiddlePart
  <2>5. f.etx <=> LastOf(f)
    BY <1>2, <1>7
  <2> HIDE DEF p, n, w
  <2>6. /\ Len(packetbuff') = n - Len(wire')
        /\ \A i \in 1..Len(packetbuff') : /\ packetbuff'[i].kind = asked
                                          /\ packetbuff'[i].part = i
        /\ packetbuff'[1].sound = f.sound
        /\ Len(packetbuff') >= 1
    <3>1. /\ Len(packetbuff') = Len(packetbuff) + 1
          /\ \A i \in 1..Len(packetbuff) : packetbuff'[i] = packetbuff[i]
          /\ packetbuff'[Len(packetbuff) + 1] = p
      BY <1>3, <1>5, <2>3
    <3>2. p.part = Len(packetbuff) + 1
      BY <1>2, <1>3, <2>1
    <3>3. Len(packetbuff') = n - Len(wire') /\ Len(packetbuff') >= 1
      BY <1>1, <1>2, <2>1, <3>1
    <3>4. ASSUME NEW i \in 1..Len(packetbuff')
          PROVE  packetbuff'[i].kind = asked /\ packetbuff'[i].part = i
      <4>1. i \in 1..Len(packetbuff) \/ i = Len(packetbuff) + 1
        BY <1>5, <3>1, <3>4
      <4> QED
        BY <1>3, <2>1, <3>1, <3>2, <4>1
    <3>5. packetbuff'[1] = packetbuff[1]
      BY <1>5, <2>1, <3>1
    <3> QED
      BY <2>1, <3>3, <3>4, <3>5
  <2>7. Parts(packetbuff')
    BY <2>6 DEF Parts
  <2>8. Aligned'
    <3>1. CASE LastOf(f)
      BY <1>4, <2>4, <2>5, <3>1 DEF Aligned
    <3>2. CASE ~LastOf(f)
      <4>1. wire' # <<>> /\ wire'[1].sound = f.sound
        <5>1. Len(w) >= 1
          BY <1>2, <3>2
        <5> QED
          BY <1>1, <1>2, <1>4, <3>2, <5>1
      <4>2. packetstate' = 1
        BY <2>4, <2>5, <3>2
      <4>3. NumParts(asked') = n
        BY <1>1 DEF n
      <4> QED
        BY <1>1, <2>6, <4>1, <4>2, <4>3 DEF Aligned
    <3> QED
      BY <3>1, <3>2
  <2>9. ASSUME LastOf(f)
        PROVE  newPacketReceived' <=> f.sound /\ (asked = "cellinfo" => numOfCells)
    <3>1. Len(packetbuff') = n
      BY <1>1, <1>2, <2>6, <2>9
    <3>2. packetbuff'[1].kind = asked
      BY <2>6
    <3>3. HeadReply(packetbuff')
      <4>1. NumParts(packetbuff'[1].kind) = n
        BY <3>2 DEF n
      <4> QED
        BY <1>2, <2>6, <3>1, <3>2, <4>1 DEF HeadReply
    <3>4. newPacketReceived' = PacketOk(packetbuff')
      BY <2>2, <2>5, <2>9, Zenon DEF LastPart, Verdict
    <3>5. packetbuff'[1].sound = f.sound
      BY <2>6
    <3> QED
      BY <3>2, <3>3, <3>4, <3>5, Zenon DEF PacketOk
  <2> QED
    BY <1>4, <2>4, <2>5, <2>7, <2>8, <2>9
<1>8. packetstate \in {0, 1}
  BY <1>1 DEF Buffers
<1> QED
  BY <1>4, <1>6, <1>7, <1>8

\* In step: nothing is missed but cell data that have no number of cells.
LEMMA InStepStep ==
    ASSUME TwoParts, CollectorInv, CollectorInv', StepInv, Notify PROVE InStep'
<1> DEFINE f == Head(wire)
<1>1. wire # <<>> /\ asked' = asked /\ Buffers /\ OnWire /\ Types
  BY DEF Notify, Deliver, CollectorInv, StepInv
<1>2. f.stx \in BOOLEAN /\ f.etx \in BOOLEAN /\ f.sound \in BOOLEAN /\ f.kind = asked
  BY <1>1, NextPart
<1>3. CASE newPacketReceived'
  <2>1. Aligned'
    BY <1>3, Accepting DEF Aligned
  <2> QED
    BY <1>3, <2>1, Accepting DEF InStep
<1>4. CASE ~newPacketReceived'
  <2> SUFFICES ASSUME ~torn'
               PROVE  /\ Aligned' /\ Known' /\ Parts(packetbuff')
                      /\ missed' > 0 => spoiled' /\ ~numOfCells'
    BY DEF InStep
  <2>1. /\ numOfCells' = numOfCells
        /\ missed' = IF LastOf(f) /\ f.sound THEN missed + 1 ELSE missed
        /\ spoiled' <=> (spoiled \/ (LastOf(f) /\ ~f.sound))
        /\ torn' <=> (torn \/ (packetstate = 1 /\ f.etx /\ ~LastOf(f)))
    BY <1>1, <1>2, <1>4, Refused
  <2>2. /\ ~torn /\ (packetstate = 1 /\ f.etx => LastOf(f))
    BY <2>1, Zenon
  <2>3. Aligned /\ Known /\ (missed > 0 => spoiled /\ ~numOfCells)
    BY <2>2 DEF StepInv, InStep
  <2>4. /\ Aligned' /\ Parts(packetbuff')
        /\ LastOf(f) <=> wire' = <<>>
        /\ LastOf(f) => (newPacketReceived' <=>
                                f.sound /\ (asked = "cellinfo" => numOfCells))
    BY <1>1, <2>2, <2>3, AlignedStep
  <2>5. LastOf(f) => ~f.sound \/ (asked = "cellinfo" /\ ~numOfCells)
    BY <1>4, <2>4, Zenon
  <2>6. asked = "cellinfo" => numOfCells \/ spoiled
    BY <2>3 DEF Known
  <2>7. Known'
    BY <1>1, <2>1, <2>4, <2>5, <2>6 DEF Known
  <2>8. missed' > 0 => spoiled' /\ ~numOfCells'
    BY <2>1, <2>3, <2>5, <2>6
  <2> QED
    BY <2>4, <2>7, <2>8
<1> QED
  BY <1>3, <1>4

\* Out of step: a reply or two until the next is taken.
LEMMA CatchingUpStep ==
    ASSUME TwoParts, CollectorInv, CollectorInv', StepInv, Notify PROVE CatchingUp'
<1> DEFINE f == Head(wire)
<1>1. wire # <<>> /\ asked' = asked /\ Buffers /\ OnWire /\ Types
  BY DEF Notify, Deliver, CollectorInv, StepInv
<1>2. /\ f.stx \in BOOLEAN /\ f.etx \in BOOLEAN /\ f.sound \in BOOLEAN /\ f.kind = asked
      /\ wire' = Tail(wire)
      /\ LastOf(f) <=> wire' = <<>>
  BY <1>1, NextPart DEF Notify, Deliver
<1>3. CASE newPacketReceived'
  <2>1. Aligned' /\ Behind'
    BY <1>3, Accepting DEF Aligned, Behind
  <2> QED
    BY <2>1 DEF CatchingUp
<1>4. CASE ~newPacketReceived'
  <2> SUFFICES ASSUME ~odd' PROVE (Aligned' /\ Behind') \/ Stale'
    BY DEF CatchingUp
  <2>1. /\ numOfCells' = numOfCells
        /\ missed' = IF LastOf(f) /\ f.sound THEN missed + 1 ELSE missed
        /\ spoiled' <=> (spoiled \/ (LastOf(f) /\ ~f.sound))
        /\ odd' <=> (odd \/ (f.stx # (f.part = 1)) \/ (f.etx # LastOf(f)))
    BY <1>1, <1>2, <1>4, Refused
  <2>2. ~odd /\ (f.etx <=> LastOf(f))
    BY <2>1, Zenon
  <2>3. (Aligned /\ Behind) \/ Stale
    BY <2>2 DEF StepInv, CatchingUp
  <2>4. missed \in Nat /\ numOfCells \in BOOLEAN /\ spoiled \in BOOLEAN
    BY <1>1 DEF Types
  <2>5. CASE Aligned /\ Behind
    <3>1. /\ Aligned'
          /\ LastOf(f) => (newPacketReceived' <=>
                                f.sound /\ (asked = "cellinfo" => numOfCells))
      BY <1>1, <2>2, <2>5, AlignedStep
    <3>2. LastOf(f) => ~f.sound \/ (asked = "cellinfo" /\ ~numOfCells)
      BY <1>4, <3>1, Zenon
    <3>3. CASE ~LastOf(f)
      <4>1. /\ missed' = missed /\ wire' # <<>> /\ numOfCells' = numOfCells
            /\ spoiled' <=> spoiled
        BY <1>2, <2>1, <3>3
      <4> QED
        BY <1>1, <2>5, <3>1, <4>1 DEF Behind, Known
    <3>4. CASE LastOf(f) /\ ~f.sound
      <4>1. missed' = missed /\ numOfCells' = numOfCells /\ spoiled'
        BY <2>1, <3>4
      <4>2. numOfCells => missed <= 1
        BY <2>4, <2>5, <3>4 DEF Behind
      <4> QED
        BY <2>4, <3>1, <4>1, <4>2 DEF Behind
    <3>5. CASE LastOf(f) /\ f.sound
      <4>1. asked = "cellinfo" /\ ~numOfCells /\ missed' = missed + 1 /\ wire' = <<>>
        BY <1>2, <2>1, <3>2, <3>5
      <4>2. ~spoiled => missed = 1
        BY <1>1, <2>5, <4>1 DEF Behind, Known
      <4> QED
        BY <1>1, <2>1, <2>4, <3>1, <4>1, <4>2 DEF Behind
    <3> QED
      BY <1>2, <3>3, <3>4, <3>5
  <2>6. CASE Stale
    <3>1. packetstate = 1 /\ missed = 0 /\ asked = "basicinfo"
      BY <1>1, <2>6 DEF Stale
    <3>2. CASE ~LastOf(f)
      <4>1. MiddlePart(f)
        BY <2>2, <3>1, <3>2, Branch
      <4>2. packetstate' = 1 /\ missed' = 0 /\ wire' # <<>>
        BY <1>2, <2>1, <3>1, <3>2, <4>1 DEF MiddlePart
      <4> QED
        BY <1>1, <3>1, <4>2 DEF Stale
    <3>3. CASE LastOf(f)
      <4>1. LastPart(f)
        BY <2>2, <3>1, <3>3, Branch
      <4>2. packetstate' = 0 /\ wire' = <<>>
        BY <1>2, <3>3, <4>1 DEF LastPart
      <4>3. Aligned'
        BY <4>2 DEF Aligned
      <4>4. missed' \in {0, 1} /\ (missed' = 0 => spoiled')
        BY <1>2, <2>1, <3>1, <3>3
      <4> QED
        BY <1>1, <2>1, <2>4, <3>1, <4>2, <4>3, <4>4 DEF Behind
    <3> QED
      BY <3>2, <3>3
  <2> QED
    BY <2>3, <2>5, <2>6
<1> QED
  BY <1>3, <1>4

\* The bytes of a notification.
LEMMA SizeTyped ==
    ASSUME NEW f \in Notification
    PROVE  /\ Size(f) \in Nat
           /\ f.part = 1 => Size(f) = Ends[f.kind][1]
           /\ f.part # 1 => Ends[f.kind][f.part - 1] + Size(f) = Ends[f.kind][f.part]
<1> DEFINE e == Ends[f.kind]
<1>1. f.kind \in Kinds /\ f.part \in 1..Len(e)
  BY Flags DEF NumParts
<1>2. /\ e \in Seq(Nat) /\ \A i, j \in 1..Len(e) : i <= j => e[i] <= e[j]
  BY <1>1, EndsAssumption
<1>3. e[f.part] \in Nat
  BY <1>1, <1>2
<1>4. CASE f.part = 1
  BY <1>3, <1>4 DEF Size
<1>5. CASE f.part # 1
  <2>1. f.part - 1 \in 1..Len(e) /\ f.part - 1 <= f.part
    BY <1>1, <1>5
  <2>2. e[f.part - 1] \in Nat /\ e[f.part - 1] <= e[f.part]
    BY <1>1, <1>2, <2>1
  <2> QED
    BY <1>3, <1>5, <2>2 DEF Size
<1> QED
  BY <1>4, <1>5

LEMMA SizesStep ==
    ASSUME TwoParts, CollectorInv, StepInv, Notify PROVE Sizes'
<1> DEFINE f == Head(wire)
           p == Bare(f)
<1>1. f \in Notification /\ packetbuff \in Seq(Pieces) /\ Sizes
  BY DEF Notify, CollectorInv, Buffers, StepInv
<1>2. /\ Size(f) \in Nat
      /\ f.part = 1 => Size(f) = Ends[f.kind][1]
      /\ f.part # 1 => Ends[f.kind][f.part - 1] + Size(f) = Ends[f.kind][f.part]
  BY <1>1, SizeTyped
<1>3. p \in Pieces /\ p.kind = f.kind /\ p.part = f.part
  BY <1>1, PieceOf
<1>4. CASE FirstPart(f)
  <2>1. packetbuff' = <<p>> /\ packetSize' = Size(f)
    BY <1>4 DEF FirstPart
  <2> HIDE DEF p
  <2>2. packetbuff' # <<>> /\ Len(packetbuff') = 1 /\ packetbuff'[1] = p
    BY <2>1
  <2>3. Parts(packetbuff') => f.part = 1
    BY <1>3, <2>2 DEF Parts
  <2> QED
    BY <1>2, <1>3, <2>1, <2>2, <2>3 DEF Sizes
<1>5. CASE IgnoredPart(f)
  BY <1>1, <1>5 DEF IgnoredPart, static, Sizes, Parts
<1>6. CASE MiddlePart(f) \/ LastPart(f)
  <2>1. packetbuff' = Append(packetbuff, p) /\ packetSize' = packetSize + Size(f)
    BY <1>6, Zenon DEF MiddlePart, LastPart, AppendPart
  <2>2. packetstate = 1 /\ Len(packetbuff) >= 1
    BY <1>6 DEF MiddlePart, LastPart, CollectorInv, OpenPacket
  <2> HIDE DEF p
  <2> DEFINE l == Len(packetbuff)
  <2>3. /\ Len(packetbuff') = l + 1 /\ packetbuff'[l + 1] = p /\ packetbuff' # <<>>
        /\ \A i \in 1..l : packetbuff'[i] = packetbuff[i]
        /\ packetbuff # <<>> /\ l \in Nat
    BY <1>1, <1>3, <2>1, <2>2
  <2> HIDE DEF l
  <2>4. ASSUME Parts(packetbuff')
        PROVE  packetSize' = Ends[packetbuff'[1].kind][Len(packetbuff')]
    <3>1. /\ p.kind = packetbuff'[1].kind /\ p.part = l + 1
          /\ packetbuff'[1] = packetbuff[1]
      BY <2>2, <2>3, <2>4 DEF Parts, l
    <3>2. Parts(packetbuff)
      BY <2>2, <2>3, <2>4 DEF Parts, l
    <3>3. packetSize = Ends[packetbuff[1].kind][l]
      BY <1>1, <2>3, <3>2 DEF Sizes, l
    <3>4. f.part # 1 /\ f.part - 1 = l
      BY <1>3, <2>2, <2>3, <3>1 DEF l
    <3> QED
      BY <1>2, <1>3, <2>1, <2>3, <3>1, <3>3, <3>4
  <2>5. packetSize' \in Int
    BY <1>1, <1>2, <2>1 DEF Sizes
  <2> QED
    BY <2>3, <2>4, <2>5 DEF Sizes
<1> QED
  BY <1>4, <1>5, <1>6 DEF Notify

\* A notification keeps everything.
LEMMA NotifyStep ==
    ASSUME TwoParts, CollectorInv, CollectorInv', StepInv, Notify PROVE StepInv'
  BY WireStep, InStepStep, CatchingUpStep, SizesStep DEF StepInv

\* A request: the next reply goes on the wire when the last one is through.
LEMMA RequestStep ==
    ASSUME TwoParts, CollectorInv, StepInv, Request PROVE StepInv'
<1>1. PICK k \in NextRequests : asked' = k /\ wire' \in Replies(k)
  BY DEF Request
<1>2. /\ wire = <<>> /\ packetstate' = packetstate /\ packetbuff' = packetbuff
      /\ packetSize' = packetSize /\ numOfCells' = numOfCells /\ missed' = missed
      /\ spoiled' = spoiled /\ torn' = torn /\ odd' = odd
  BY DEF Request, static
<1>3. /\ k \in Kinds
      /\ asked = "none" => k = "basicinfo"
      /\ asked = "hwinfo" => k = "basicinfo"
      /\ asked = "basicinfo" => k = "cellinfo"
      /\ asked = "cellinfo" => k \in {"basicinfo", "hwinfo"}
  BY <1>1 DEF NextRequests, Kinds
<1>4. /\ wire' \in Seq(Notification) /\ Len(wire') = NumParts(k) /\ NumParts(k) > 0
      /\ NumParts(k) \in Nat
      /\ \A i \in 1..Len(wire') : /\ wire'[i].kind = k /\ wire'[i].part = i
                                  /\ wire'[i].sound = wire'[1].sound
  BY <1>1, <1>3, RepliesTyped
<1>5. wire' # <<>>
  <2>1. Len(wire') # 0
    BY <1>4
  <2> QED
    BY <2>1, NotEmpty, Zenon
<1>6. Types'
  BY <1>1, <1>2, <1>3 DEF StepInv, Types
<1>7. OnWire'
  BY <1>1, <1>3, <1>4 DEF OnWire
<1>8. Sizes'
  BY <1>2 DEF StepInv, Sizes, Parts
<1>9. Aligned => packetstate = 0 /\ Aligned'
  BY <1>1, <1>2, <1>4 DEF Aligned
<1>10. Known => Known'
  <2>1. asked \in Kinds \cup {"none"}
    BY DEF StepInv, Types
  <2>2. k = "cellinfo" => asked = "basicinfo"
    BY <1>3, <2>1 DEF Kinds
  <2> QED
    BY <1>1, <1>2, <1>5, <2>2 DEF Known
<1>11. InStep'
  <2> SUFFICES ASSUME ~torn'
               PROVE  /\ Aligned' /\ Known' /\ Parts(packetbuff')
                      /\ missed' > 0 => spoiled' /\ ~numOfCells'
    BY DEF InStep
  <2>1. /\ Aligned /\ Known /\ Parts(packetbuff)
        /\ missed > 0 => spoiled /\ ~numOfCells
    BY <1>2 DEF StepInv, InStep
  <2> QED
    BY <1>2, <1>9, <1>10, <2>1 DEF Parts
<1>12. CatchingUp'
  <2> SUFFICES ASSUME ~odd' PROVE (Aligned' /\ Behind') \/ Stale'
    BY DEF CatchingUp
  <2>1. (Aligned /\ Behind) \/ Stale
    BY <1>2 DEF StepInv, CatchingUp
  <2>2. CASE Aligned /\ Behind
    <3>1. Behind'
      <4>1. CASE missed = 0 /\ Known
        BY <1>2, <1>10, <4>1 DEF Behind
      <4>2. CASE ~(missed = 0 /\ Known)
        BY <1>1, <1>2, <1>3, <1>5, <2>2, <4>2 DEF Behind
      <4> QED
        BY <4>1, <4>2
    <3> QED
      BY <1>9, <2>2, <3>1
  <2>3. CASE Stale
    BY <1>1, <1>2, <1>3, <1>5, <2>3 DEF Stale
  <2> QED
    BY <2>1, <2>2, <2>3
<1> QED
  BY <1>6, <1>7, <1>8, <1>11, <1>12 DEF StepInv

\* A lost link leaves the static state, and with it part of a reply or none.
LEMMA LossStep ==
    ASSUME CollectorInv, StepInv, LinkLost PROVE StepInv'
<1>1. /\ wire' = <<>> /\ asked' = "none" /\ missed' = 0 /\ spoiled' = FALSE
      /\ packetstate' = packetstate /\ packetbuff' = packetbuff
      /\ packetSize' = packetSize /\ numOfCells' = numOfCells /\ odd' = odd
  BY DEF LinkLost, static
<1>2. torn' = (torn \/ packetstate = 1)
  BY DEF LinkLost
<1>3. Types'
  <2>1. torn' \in BOOLEAN
    BY <1>2, Zenon
  <2> QED
    BY <1>1, <2>1 DEF StepInv, Types
<1>4. OnWire'
  BY <1>1 DEF OnWire
<1>5. Sizes'
  BY <1>1 DEF StepInv, Sizes, Parts
<1>6. Known'
  BY <1>1 DEF Known
<1>7. packetstate = 0 => Aligned'
  BY <1>1 DEF Aligned
<1>8. packetstate \in {0, 1}
  BY DEF CollectorInv, Buffers
<1>9. InStep'
  <2> SUFFICES ASSUME ~torn'
               PROVE  /\ Aligned' /\ Known' /\ Parts(packetbuff')
                      /\ missed' > 0 => spoiled' /\ ~numOfCells'
    BY DEF InStep
  <2>1. ~torn /\ packetstate = 0
    BY <1>2, <1>8
  <2>2. Parts(packetbuff)
    BY <2>1 DEF StepInv, InStep
  <2> QED
    BY <1>1, <1>6, <1>7, <2>1, <2>2 DEF Parts
<1>10. CatchingUp'
  <2>1. CASE packetstate = 0
    BY <1>1, <1>6, <1>7, <2>1 DEF CatchingUp, Behind
  <2>2. CASE packetstate = 1
    BY <1>1, <2>2 DEF CatchingUp, Stale
  <2> QED
    BY <1>8, <2>1, <2>2
<1> QED
  BY <1>3, <1>4, <1>5, <1>9, <1>10 DEF StepInv

\* A boot starts from nothing, like the first one.
LEMMA Fresh ==
    ASSUME wire = <<>>, asked = "none", packetstate = 0, packetbuff = <<>>,
           packetSize = 0, numOfCells = FALSE, missed = 0, spoiled = FALSE, torn = FALSE,
           odd = FALSE
    PROVE  StepInv
<1>1. Types
  BY DEF Types
<1>2. OnWire
  BY DEF OnWire
<1>3. Sizes
  BY DEF Sizes
<1>4. Aligned /\ Known
  BY DEF Aligned, Known
<1>5. Parts(packetbuff)
  BY DEF Parts
<1>6. InStep
  BY <1>4, <1>5 DEF InStep
<1>7. CatchingUp
  BY <1>4 DEF CatchingUp, Behind
<1> QED
  BY <1>1, <1>2, <1>3, <1>6, <1>7 DEF StepInv

LEMMA FreshNext == Boot => StepInv'
<1> SUFFICES ASSUME Boot PROVE StepInv'
  OBVIOUS
<1>1. /\ wire' = <<>> /\ asked' = "none" /\ packetstate' = 0 /\ packetbuff' = <<>>
      /\ packetSize' = 0 /\ numOfCells' = FALSE /\ missed' = 0 /\ spoiled' = FALSE
      /\ torn' = FALSE /\ odd' = FALSE
  BY Zenon DEF Boot
<1>2. Types'
  BY <1>1 DEF Types
<1>3. OnWire'
  BY <1>1 DEF OnWire
<1>4. Sizes'
  BY <1>1 DEF Sizes
<1>5. Aligned' /\ Known'
  BY <1>1 DEF Aligned, Known
<1>6. Parts(packetbuff')
  BY <1>1 DEF Parts
<1>7. InStep'
  BY <1>1, <1>5, <1>6 DEF InStep
<1>8. CatchingUp'
  BY <1>1, <1>5 DEF CatchingUp, Behind
<1> QED
  BY <1>2, <1>3, <1>4, <1>7, <1>8 DEF StepInv

LEMMA StepKept ==
    ASSUME TwoParts, CollectorInv, StepInv, [Next]_vars PROVE StepInv'
<1>1. CollectorInv'
  BY CollectorKept
<1>2. CASE UNCHANGED vars
  BY <1>2 DEF vars, StepInv, Types, OnWire, InStep, Aligned, Known, Parts, CatchingUp,
              Behind, Stale, Sizes
<1> QED
  BY <1>1, <1>2, NotifyStep, RequestStep, LossStep, FreshNext DEF Next, Restart, Overrun

\* The collector is in step with the wire, or catches up.
THEOREM InStepAlways == ASSUME TwoParts PROVE Spec => [](CollectorInv /\ StepInv)
<1>1. Init => CollectorInv
  BY DEF Init, CollectorInv, Buffers, OpenPacket, AcceptedIsOneReply
<1>2. Init => StepInv
  BY Fresh DEF Init
<1>3. CollectorInv /\ StepInv /\ [Next]_vars => CollectorInv' /\ StepInv'
  BY CollectorKept, StepKept
<1> QED
  BY <1>1, <1>2, <1>3, PTL DEF Spec

\* What is in step is no longer than its reply.
LEMMA InStepFits ==
    ASSUME CollectorInv, StepInv PROVE BufferBounded
<1> SUFFICES ASSUME packetSize > BuffSize, ~torn
             PROVE  Bytes(packetbuff[1].kind) > BuffSize
  BY DEF BufferBounded
<1>1. Parts(packetbuff) /\ packetbuff \in Seq(Pieces) /\ Sizes
  BY DEF StepInv, InStep, CollectorInv, Buffers
<1>2. packetbuff # <<>>
  BY <1>1, SizeAssumption DEF Sizes
<1> DEFINE l == Len(packetbuff)
           k == packetbuff[1].kind
<1>3. l \in Nat /\ l # 0 /\ packetbuff[l] \in Pieces
  BY <1>1, <1>2
<1>4. packetbuff[l].kind = k /\ packetbuff[l].part = l
  BY <1>1, <1>3 DEF Parts
<1>5. k \in Kinds /\ l \in 1..NumParts(k) /\ NumParts(k) \in Nat
  BY <1>3, <1>4, PieceTyped
<1>6. packetSize = Ends[k][l]
  BY <1>1, <1>2 DEF Sizes
<1> HIDE DEF k, l
<1>7. NumParts(k) = Len(Ends[k]) /\ NumParts(k) \in 1..NumParts(k) /\ l <= NumParts(k)
  BY <1>5 DEF NumParts
<1>8. Ends[k][l] <= Ends[k][NumParts(k)] /\ Ends[k] \in Seq(Nat)
  BY <1>5, <1>7, EndsAssumption
<1>9. Ends[k][l] \in Nat /\ Ends[k][NumParts(k)] \in Nat
  BY <1>5, <1>7, <1>8
<1>10. Bytes(k) > BuffSize
  BY <1>6, <1>8, <1>9, SizeAssumption DEF Bytes
<1> QED
  BY <1>10 DEF k

\* Nothing is written behind packetbuff but a reply that is longer, as long as the
\* collector knows its place.
THEOREM Bounded == ASSUME TwoParts PROVE Spec => []BufferBounded
<1>1. CollectorInv /\ StepInv => BufferBounded
  BY InStepFits
<1> QED
  BY <1>1, InStepAlways, PTL

\* ... and no sound reply missed, at any number of refusals and lost links in between.
THEOREM Taken == ASSUME TwoParts PROVE Spec => []EveryReplyTaken
<1>1. StepInv => EveryReplyTaken
  BY DEF StepInv, InStep, EveryReplyTaken
<1> QED
  BY <1>1, InStepAlways, PTL

\* A part that was left behind costs one reply, or two while the number of cells is
\* unknown.
THEOREM Resynced == ASSUME TwoParts PROVE Spec => []Resync
<1>1. StepInv => Resync
  BY DEF StepInv, Types, CatchingUp, Behind, Stale, Resync
<1> QED
  BY <1>1, InStepAlways, PTL

----------------------------------------------------------------------------
\* Type correctness, of replies of any number of notifications.
LEMMA TypeKept == ASSUME TypeOK, [Next]_vars PROVE TypeOK'
<1> USE DEF TypeOK
<1>1. CASE Request
  <2>1. PICK k \in NextRequests : asked' = k /\ wire' \in Replies(k)
    BY <1>1 DEF Request
  <2>2. k \in Kinds
    BY DEF NextRequests, Kinds
  <2>3. wire' \in Seq(Notification)
    BY <2>1, <2>2, RepliesTyped
  <2> QED
    BY <1>1, <2>1, <2>2, <2>3 DEF Request, static
<1>2. CASE Notify
  <2> DEFINE f == Head(wire)
  <2>1. f \in Notification /\ wire' \in Seq(Notification) /\ asked' = asked
    BY <1>2 DEF Notify, Deliver
  <2>2. Size(f) \in Nat /\ Bare(f) \in Piece
    BY <2>1, SizeTyped, PieceOf
  <2>3. packetbuff' \in Seq(Piece) /\ packetSize' \in Nat /\ packetstate' \in {0, 1}
    <3>1. CASE FirstPart(f)
      BY <2>1, <2>2, <3>1 DEF FirstPart
    <3>2. CASE IgnoredPart(f)
      BY <3>2 DEF IgnoredPart, static
    <3>3. CASE MiddlePart(f) \/ LastPart(f)
      <4>1. /\ packetbuff' = Append(packetbuff, Bare(f))
            /\ packetSize' = packetSize + Size(f)
            /\ packetstate' = packetstate \/ packetstate' = 0
        BY <3>3, Zenon DEF MiddlePart, LastPart, AppendPart
      <4> QED
        BY <2>1, <2>2, <4>1
    <3> QED
      BY <1>2, <3>1, <3>2, <3>3 DEF Notify
  <2>4. PICK ok \in BOOLEAN : Verdict(f, ok)
    BY <1>2, Zenon DEF Notify, FirstPart, IgnoredPart, MiddlePart, LastPart, PacketOk,
                       HeadReply
  <2>5. /\ newPacketReceived' \in BOOLEAN /\ spoiled' \in BOOLEAN
        /\ torn' \in BOOLEAN /\ odd' \in BOOLEAN
    BY <2>4, Zenon DEF Verdict, Remember
  <2>6. dataErr' \in Nat /\ missed' \in Nat
    BY <2>4 DEF Verdict, Remember
  <2>7. numOfCells' \in BOOLEAN
    BY <1>2, Zenon DEF Notify, FirstPart, IgnoredPart, MiddlePart, LastPart
  <2> QED
    BY <2>1, <2>3, <2>5, <2>6, <2>7
<1>3. CASE LinkLost
  <2>1. torn' \in BOOLEAN
    BY <1>3, Zenon DEF LinkLost
  <2>2. /\ wire' = <<>> /\ asked' = "none" /\ missed' = 0 /\ spoiled' = FALSE
        /\ packetstate' = packetstate /\ packetbuff' = packetbuff
        /\ packetSize' = packetSize /\ numOfCells' = numOfCells
        /\ newPacketReceived' = newPacketReceived /\ dataErr' = dataErr /\ odd' = odd
    BY <1>3, Zenon DEF LinkLost, static
  <2>3. wire' \in Seq(Notification)
    BY <2>2
  <2> QED
    BY <2>1, <2>2, <2>3
<1>4. CASE Restart \/ Overrun
  <2>1. Boot
    BY <1>4 DEF Restart, Overrun
  <2>2. <<>> \in Seq(Notification) /\ <<>> \in Seq(Piece)
    OBVIOUS
  <2>3. wire' = <<>> /\ packetbuff' = <<>>
    BY <2>1 DEF Boot
  <2>4. /\ asked' \in Kinds \cup {"none"} /\ packetstate' \in {0, 1} /\ packetSize' \in Nat
        /\ numOfCells' \in BOOLEAN /\ newPacketReceived' \in BOOLEAN /\ dataErr' \in Nat
        /\ missed' \in Nat /\ spoiled' \in BOOLEAN /\ torn' \in BOOLEAN /\ odd' \in BOOLEAN
    BY <2>1 DEF Boot
  <2> QED
    BY <2>2, <2>3, <2>4
<1>5. CASE UNCHANGED vars
  BY <1>5 DEF vars
<1> QED
  BY <1>1, <1>2, <1>3, <1>4, <1>5 DEF Next

\* Whatever arrives, the collector's state and the histories keep their types.
THEOREM Typing == Spec => []TypeOK
<1>1. Init => TypeOK
  <2>1. <<>> \in Seq(Notification) /\ <<>> \in Seq(Piece)
    OBVIOUS
  <2> SUFFICES ASSUME Init PROVE TypeOK
    OBVIOUS
  <2>2. wire = <<>> /\ packetbuff = <<>>
    BY DEF Init
  <2>3. /\ asked \in Kinds \cup {"none"} /\ packetstate \in {0, 1} /\ packetSize \in Nat
        /\ numOfCells \in BOOLEAN /\ newPacketReceived \in BOOLEAN /\ dataErr \in Nat
        /\ missed \in Nat /\ spoiled \in BOOLEAN /\ torn \in BOOLEAN /\ odd \in BOOLEAN
    BY DEF Init
  <2> QED
    BY <2>1, <2>2, <2>3 DEF TypeOK
<1> QED
  BY <1>1, TypeKept, PTL DEF Spec

====
