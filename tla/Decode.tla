---- MODULE Decode ----
(***************************************************************************)
(* What PacketOk() makes of a valid packet: processBasicData() and         *)
(* processCellData() (JbdBms.cpp), which check the data and store them in  *)
(* the globals basicData and cellData in the units the rest of the bridge  *)
(* publishes and switches the relay on.                                    *)
(*                                                                         *)
(* A packet is a record of its fields, each the number its two bytes or    *)
(* its one byte spell; the sequence of temperatures and the sequence of    *)
(* cell voltages have the lengths the packet says.  The C types are kept:  *)
(* what is stored in 16 bits is taken modulo 2^16.                         *)
(***************************************************************************)
EXTENDS Integers, Sequences, FiniteSets

CONSTANTS
    Volts10mV,      \* values of the fields of a basic packet: pack voltage,
    Amps10mA,       \* current as the 16 bits that carry it,
    Temps01K,       \* temperatures,
    CellCounts,     \* number of cells,
    Sensors,        \* number of temperature sensors
    CellmV,         \* values of a cell voltage in a cell packet
    Garbage         \* what may lie on the stack behind the array of the median

Words == 0..65535

\* CellVolt[8].  Packs of more cells are let through and written behind it: not
\* modelled.
SizeofCellVolt == 8

ASSUME FieldsAssumption ==
    /\ Volts10mV \subseteq Words /\ Amps10mA \subseteq Words /\ Temps01K \subseteq Words
    /\ CellCounts \subseteq 0..SizeofCellVolt /\ Sensors \subseteq 0..3
    /\ CellmV \subseteq Words /\ Garbage \subseteq Words /\ Garbage # {}

Word(n) == n % 65536

BasicPackets ==
    UNION {[volts : Volts10mV, amps : Amps10mA, software : {0, 33},
            cells : CellCounts, temps : [1..n -> Temps01K]] : n \in Sensors}
CellPackets == UNION {[1..n -> CellmV] : n \in CellCounts}

VARIABLES
    basicData,      \* the globals, "none" before the first packet
    cellData,
    basicPacket,    \* history: the packets they were decoded from
    cellPacket

vars == <<basicData, cellData, basicPacket, cellPacket>>

None == [none |-> TRUE]

Init ==
    /\ basicData = None /\ cellData = None
    /\ basicPacket = None /\ cellPacket = None

----------------------------------------------------------------------------
\* processBasicData()

BasicValid(p) ==
    /\ p.volts # 0
    /\ p.software # 0 /\ p.cells # 0 /\ Len(p.temps) # 0
    /\ p.cells % 4 = 0

\* int16_t
Signed(w) == IF w >= 32768 THEN w - 65536 ELSE w

\* A negative current is negated by (~Amps) * -1.
Amps(w) == IF Signed(w) < 0 THEN (Signed(w) + 1) * 10 ELSE Signed(w) * 10

Volts(w) == Word(w * 10)

\* From 0.1 K to 0.1 C in 16 bits without a sign.
Temp(w) == Word(w - 2731)

\* The temperatures are added up in 16 bits.
TempSum(ws) ==
    LET sum[i \in 0..Len(ws)] == IF i = 0 THEN 0 ELSE Word(sum[i - 1] + Temp(ws[i]))
    IN sum[Len(ws)]

\* Mutant: the sum is divided by the size of the array.
MutTempAverage(ws) == TempSum(ws) \div 4

TempAverage(ws) == TempSum(ws) \div Len(ws)

\* Mutant: the bits of the current are stored as they come.
MutBasicData ==
    /\ \E p \in BasicPackets :
        /\ BasicValid(p)
        /\ basicPacket' = p
        /\ basicData' = [Volts |-> Volts(p.volts), Amps |-> p.amps * 10,
                         NumOfCells |-> p.cells,
                         Temp |-> [i \in 1..Len(p.temps) |-> Temp(p.temps[i])],
                         TempAvg |-> TempAverage(p.temps)]
    /\ UNCHANGED <<cellData, cellPacket>>

BasicData ==
    /\ \E p \in BasicPackets :
        /\ BasicValid(p)
        /\ basicPacket' = p
        /\ basicData' = [Volts |-> Volts(p.volts), Amps |-> Amps(p.amps),
                         NumOfCells |-> p.cells,
                         Temp |-> [i \in 1..Len(p.temps) |-> Temp(p.temps[i])],
                         TempAvg |-> TempAverage(p.temps)]
    /\ UNCHANGED <<cellData, cellPacket>>

----------------------------------------------------------------------------
\* processCellData()

\* The bytes tested are those of the second and the third cell.
CellsValid(v) ==
    /\ basicData # None
    /\ Len(v) = basicData.NumOfCells
    /\ v[2] # 0 /\ v[3] # 0

\* Mutant: the first cell starts neither limit.
MutLook(a, v, i) ==
    [sum  |-> Word(a.sum + v[i]),
     max  |-> IF i > 1 /\ v[i] > a.max THEN v[i] ELSE a.max,
     cmax |-> IF i > 1 /\ v[i] > a.max THEN i ELSE a.cmax,
     min  |-> IF v[i] < a.min THEN v[i] ELSE a.min,
     cmin |-> IF v[i] < a.min THEN i ELSE a.cmin]

\* One turn of the loop, for cell i: sum, highest, lowest and where they are.
Look(a, v, i) ==
    [sum  |-> Word(a.sum + v[i]),
     max  |-> IF v[i] > a.max THEN v[i] ELSE a.max,
     cmax |-> IF v[i] > a.max THEN i ELSE a.cmax,
     min  |-> IF v[i] < a.min THEN v[i] ELSE a.min,
     cmin |-> IF v[i] < a.min THEN i ELSE a.cmin]

Unseen == [sum |-> 0, max |-> 0, cmax |-> 0, min |-> 5000, cmin |-> 0]

Scan(v) ==
    LET seen[i \in 0..Len(v)] == IF i = 0 THEN Unseen ELSE Look(seen[i - 1], v, i)
    IN seen[Len(v)]

\* The k-th smallest of a sequence.
Ranked(s, k) ==
    CHOOSE x \in {s[i] : i \in DOMAIN s} :
        /\ Cardinality({i \in DOMAIN s : s[i] < x}) < k
        /\ Cardinality({i \in DOMAIN s : s[i] <= x}) >= k

Middle(s) ==
    LET n == Len(s)
    IN IF n % 2 = 0 THEN (Ranked(s, n \div 2) + Ranked(s, n \div 2 + 1)) \div 2
       ELSE Ranked(s, n \div 2 + 1)

\* Mutant: of a sorted array of n the elements n and n - 1 are averaged.
MutMedian(v, g) ==
    LET s == Append(Tail(v), g)
    IN (Ranked(s, Len(s)) + Ranked(s, Len(s) - 1)) \div 2

\* The array has the indices 0..cells - 1; what is sorted, and averaged in the
\* middle, is 1..cells: without the first cell, with the word behind the array.
Median(v, g) == Middle(Append(Tail(v), g))

CellData ==
    /\ \E v \in CellPackets :
        /\ CellsValid(v)
        /\ cellPacket' = v
        /\ \E g \in Garbage : LET a == Scan(v) IN
            cellData' = [CellVolt |-> v,
                         CellMin |-> a.min, CellMax |-> a.max,
                         CellDiff |-> Word(a.max - a.min),
                         CellAvg |-> a.sum \div Len(v),
                         iMin |-> a.cmin, iMax |-> a.cmax,
                         CellMedian |-> Median(v, g)]
    /\ UNCHANGED <<basicData, basicPacket>>

\* A packet that is refused leaves everything as it is.
Next == BasicData \/ CellData

Spec == Init /\ [][Next]_vars

----------------------------------------------------------------------------
\* Properties

HasBasic == basicData # None
HasCells == cellData # None

\* The range of Amps().
MinAmps == -327680
MaxAmps == 327670

TypeOK ==
    /\ HasBasic => /\ basicData.Volts \in Words /\ basicData.Amps \in MinAmps..MaxAmps
                   /\ basicData.NumOfCells \in 4..252 /\ basicData.TempAvg \in Words
    /\ HasCells => /\ cellData.CellVolt \in Seq(Words) /\ cellData.CellMedian \in Words
                   /\ {cellData.CellMin, cellData.CellMax, cellData.CellAvg} \subseteq Words

\* The lowest and the highest cell are what they are called, and the bridge names
\* a cell that has that voltage; difference and average agree with them
\* (processCellData()).
LimitsRight ==
    HasCells =>
        LET v == cellPacket c == cellData IN
        /\ c.iMin \in DOMAIN v /\ c.CellMin = v[c.iMin]
        /\ c.iMax \in DOMAIN v /\ c.CellMax = v[c.iMax]
        /\ \A i \in DOMAIN v : c.CellMin <= v[i] /\ v[i] <= c.CellMax
        /\ c.CellDiff = c.CellMax - c.CellMin
        /\ c.CellMin <= c.CellAvg /\ c.CellAvg <= c.CellMax

\* Whatever lies behind the array that is sorted, the median is between the lowest
\* and the highest cell.
MedianInRange ==
    HasCells => cellData.CellMin <= cellData.CellMedian /\ cellData.CellMedian <= cellData.CellMax

TrueAmps == Signed(basicPacket.amps) * 10

\* The current has the right sign, or is nought, and the right size up to the
\* resolution of 10 mA.
AmpsNear ==
    HasBasic => /\ basicData.Amps - TrueAmps \in 0..10
                /\ basicData.Amps > 0 => TrueAmps > 0
                /\ basicData.Amps < 0 => TrueAmps < 0

\* The sum of the readings of at most three sensors, with their sign.
TrueSum(t) ==
    LET reading(i) == IF i \in DOMAIN t THEN Signed(t[i]) ELSE 0
    IN reading(1) + reading(2) + reading(3)

\* The average of the temperatures, read with its sign, lies between the lowest and the
\* highest, if there is one sensor or together they are at or above freezing; several
\* never average below freezing, however cold all of them are (processBasicData()).
AverageInRange ==
    HasBasic =>
        LET t == basicData.Temp avg == Signed(basicData.TempAvg) IN
        /\ Len(t) = 1 \/ TrueSum(t) \in Words =>
             /\ \E i \in DOMAIN t : Signed(t[i]) <= avg
             /\ \E i \in DOMAIN t : Signed(t[i]) >= avg
        /\ Len(t) > 1 => avg >= 0

====
