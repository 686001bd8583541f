---- MODULE MCPacketCollector ----
(***************************************************************************)
(* Values for TLC.  The lengths are those of the replies: seven bytes of   *)
(* frame around the data, sent twenty bytes at a time.                     *)
(***************************************************************************)
EXTENDS PacketCollector

\* An eight cell pack with three sensors: 38, 16 and 15 bytes of data.  Basic data take
\* three notifications, and one byte more than there is in packetbuff.
EightCells == [k \in Kinds |->
    CASE k = "basicinfo" -> <<20, 40, 45>>
      [] k = "cellinfo"  -> <<20, 23>>
      [] k = "hwinfo"    -> <<20, 22>>]

====
