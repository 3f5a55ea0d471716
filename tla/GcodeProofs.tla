----------------------------- MODULE GcodeProofs -----------------------------
(***************************************************************************)
(* Machine-checked proofs of what GcodeProperties states, for every set of *)
(* lines and settings commands, any number of commands, power failures and *)
(* bytes gone bad, and any number of coordinate systems.                   *)
(***************************************************************************)
EXTENDS GcodeProperties, TLAPS, WellFoundedInduction

-----------------------------------------------------------------------------
(* The store: what a sequence of byte writes leaves in it.                 *)

Size(r) == IF r = "version" THEN 1 ELSE RecordSize + 1
Memory == {m \in [Records -> Seq(Byte)] : \A r \in Records : Len(m[r]) = Size(r)}
ByteWrites == {w \in [record : Records, index : 1 .. RecordSize + 1, byte : Byte] :
                 w.index <= Size(w.record)}

(* A set of positions that is not empty has a last one.                    *)
LEMMA LastExists ==
  ASSUME NEW n \in Nat, NEW T, T \subseteq 1..n, T # {}
  PROVE  \E k \in T : \A j \in T : j <= k
<1> DEFINE U == {n - k : k \in T}
<1>1. U \subseteq Nat /\ U # {}
  <2>1. PICK k \in T : TRUE  OBVIOUS
  <2>2. n - k \in Nat /\ n - (n - k) = k  BY <2>1
  <2> QED BY <2>1, <2>2
<1>2. PICK x \in U : \A y \in U : <<y, x>> \notin OpToRel(<, Nat)
  BY <1>1, NatLessThanWellFounded, WFMin, Zenon
<1>3. \A y \in U : ~(y < x)  BY <1>1, <1>2, Zenon DEF OpToRel
<1>4. ASSUME NEW j \in T PROVE j <= n - x
  <2>1. n - j \in Nat /\ n - (n - j) = j  OBVIOUS
  <2>2. n - j \in U  BY <2>1
  <2>3. ~(n - j < x)  BY <2>2, <1>3
  <2>4. x \in Nat  OBVIOUS
  <2> HIDE DEF U
  <2> QED BY <2>3, <2>4
<1>5. PICK k \in T : x = n - k
  OBVIOUS
<1>6. n - x = k
  BY <1>5
<1> QED
  BY <1>4, <1>5, <1>6

LEMMA MaxIs ==
  ASSUME NEW T \in SUBSET Nat, NEW k \in T, \A j \in T : j <= k
  PROVE  Max(T) = k
<1>1. \A y \in T : k >= y
  OBVIOUS
<1>2. \A x \in T : (\A y \in T : x >= y) => x = k
  BY <1>1
<1>3. Max(T) \in T /\ \A y \in T : Max(T) >= y
  BY <1>1, Zenon DEF Max
<1> QED
  BY <1>2, <1>3

LEMMA LastHit ==
  ASSUME NEW S, NEW ws \in Seq(S), NEW r, NEW i, Hits(ws, r, i) # {}
  PROVE  /\ Hits(ws, r, i) \in SUBSET (1 .. Len(ws))
         /\ Max(Hits(ws, r, i)) \in Hits(ws, r, i)
         /\ \A j \in Hits(ws, r, i) : j <= Max(Hits(ws, r, i))
<1>1. Hits(ws, r, i) \subseteq 1 .. Len(ws) /\ Len(ws) \in Nat
  BY DEF Hits
<1>2. PICK k \in Hits(ws, r, i) : \A j \in Hits(ws, r, i) : j <= k
  BY <1>1, LastExists
<1>3. Max(Hits(ws, r, i)) = k
  BY <1>1, <1>2, MaxIs
<1> QED
  BY <1>1, <1>2, <1>3

LEMMA MemoryFacts ==
  ASSUME NEW mem \in Memory, NEW r \in Records
  PROVE  /\ DOMAIN mem = Records /\ mem[r] \in Seq(Byte) /\ Size(r) \in {1, RecordSize + 1}
         /\ DOMAIN mem[r] = 1 .. Size(r)
<1>1. Size(r) \in {1, RecordSize + 1} /\ mem[r] \in Seq(Byte) /\ Len(mem[r]) = Size(r)
  BY DEF Memory, Size
<1>2. DOMAIN mem = Records
  BY DEF Memory
<1> QED
  BY <1>1, <1>2

LEMMA WrittenType ==
  ASSUME NEW mem \in Memory, NEW ws \in Seq(ByteWrites)
  PROVE  Written(mem, ws) \in Memory
<1>1. ASSUME NEW r \in Records, NEW i \in 1 .. Size(r)
      PROVE  (IF Hits(ws, r, i) = {} THEN mem[r][i] ELSE ws[Max(Hits(ws, r, i))].byte) \in Byte
  <2>1. mem[r][i] \in Byte
    BY DEF Memory
  <2>2. ASSUME Hits(ws, r, i) # {} PROVE ws[Max(Hits(ws, r, i))] \in ByteWrites
    BY <2>2, LastHit
  <2> QED
    BY <2>1, <2>2 DEF ByteWrites
<1>2. ASSUME NEW r \in Records
      PROVE  /\ Written(mem, ws)[r] \in Seq(Byte)
             /\ Len(Written(mem, ws)[r]) = Size(r)
  <2>1. DOMAIN mem[r] = 1 .. Size(r) /\ Size(r) \in Nat /\ DOMAIN mem = Records
    BY MemoryFacts DEF RecordSize
  <2>2. Written(mem, ws)[r] \in [1 .. Size(r) -> Byte]
    BY <1>1, <2>1 DEF Written
  <2> QED
    BY <2>1, <2>2
<1> QED
  BY <1>2 DEF Memory, Written

LEMMA WrittenNone ==
  ASSUME NEW mem \in Memory
  PROVE  Written(mem, <<>>) = mem
<1>1. \A r, i : Hits(<<>>, r, i) = {}
  BY DEF Hits
<1>2. \A r \in Records : [i \in DOMAIN mem[r] |-> mem[r][i]] = mem[r]
  BY DEF Memory
<1> QED
  BY <1>1, <1>2 DEF Written, Memory

(* Writing in two parts.                                                   *)
LEMMA WrittenTwice ==
  ASSUME NEW mem \in Memory, NEW u \in Seq(ByteWrites), NEW v \in Seq(ByteWrites)
  PROVE  Written(mem, u \o v) = Written(Written(mem, u), v)
<1> DEFINE w == u \o v
           Cell(m, ws, r, i) == IF Hits(ws, r, i) = {} THEN m[r][i]
                                ELSE ws[Max(Hits(ws, r, i))].byte
<1>1. /\ w \in Seq(ByteWrites) /\ Len(u) \in Nat /\ Len(w) = Len(u) + Len(v)
      /\ \A k \in 1 .. Len(u) : w[k] = u[k]
      /\ \A k \in 1 .. Len(v) : w[Len(u) + k] = v[k]
  OBVIOUS
<1> HIDE DEF w
<1>2. ASSUME NEW r \in Records, NEW i \in DOMAIN mem[r]
      PROVE  Cell(mem, w, r, i) = Cell(Written(mem, u), v, r, i)
  <2>1. /\ \A k \in Hits(v, r, i) : Len(u) + k \in Hits(w, r, i)
        /\ \A k \in Hits(w, r, i) : \/ k \in Hits(u, r, i) /\ k <= Len(u)
                                    \/ k - Len(u) \in Hits(v, r, i) /\ k > Len(u)
        /\ \A k \in Hits(u, r, i) : k \in Hits(w, r, i)
    <3>1. DOMAIN w = 1 .. Len(w) /\ DOMAIN u = 1 .. Len(u) /\ DOMAIN v = 1 .. Len(v)
          /\ Len(v) \in Nat
      BY <1>1
    <3>2. \A k \in 1 .. Len(w) : k \in 1 .. Len(u) \/ (k > Len(u) /\ k - Len(u) \in 1 .. Len(v)
                                                        /\ w[k] = v[k - Len(u)])
      BY <1>1, <3>1
    <3> QED
      BY <1>1, <3>1, <3>2 DEF Hits
  <2>2. Hits(u, r, i) \in SUBSET Nat /\ Hits(v, r, i) \in SUBSET Nat
        /\ Hits(w, r, i) \in SUBSET Nat
    BY <1>1 DEF Hits
  <2>3. Written(mem, u)[r][i] = Cell(mem, u, r, i)
    BY DEF Written, Memory
  <2>4. CASE Hits(v, r, i) # {}
    <3>1. PICK k \in Hits(v, r, i) : k = Max(Hits(v, r, i)) /\ \A j \in Hits(v, r, i) : j <= k
      BY <2>4, LastHit
    <3>2. Len(u) + k \in Hits(w, r, i) /\ \A j \in Hits(w, r, i) : j <= Len(u) + k
      <4>1. ASSUME NEW j \in Hits(w, r, i) PROVE j <= Len(u) + k
        BY <1>1, <2>1, <2>2, <3>1
      <4> QED
        BY <2>1, <3>1, <4>1
    <3>3. Max(Hits(w, r, i)) = Len(u) + k
      BY <2>2, <3>2, MaxIs
    <3>4. w[Len(u) + k] = v[k]
      BY <1>1, <3>1 DEF Hits
    <3> QED
      BY <2>4, <3>1, <3>2, <3>3, <3>4
  <2>5. CASE Hits(v, r, i) = {} /\ Hits(u, r, i) # {}
    <3>1. PICK k \in Hits(u, r, i) : k = Max(Hits(u, r, i)) /\ \A j \in Hits(u, r, i) : j <= k
      BY <2>5, LastHit
    <3>2. k \in Hits(w, r, i) /\ \A j \in Hits(w, r, i) : j <= k
      BY <2>1, <2>5, <3>1
    <3>3. Max(Hits(w, r, i)) = k
      BY <2>2, <3>2, MaxIs
    <3>4. w[k] = u[k]
      BY <1>1, <3>1 DEF Hits
    <3> QED
      BY <2>3, <2>5, <3>1, <3>2, <3>3, <3>4
  <2>6. CASE Hits(v, r, i) = {} /\ Hits(u, r, i) = {}
    <3>1. Hits(w, r, i) = {}
      BY <2>1, <2>6
    <3> QED
      BY <2>3, <2>6, <3>1
  <2> QED
    BY <2>4, <2>5, <2>6
<1>3. DOMAIN mem = Records /\ DOMAIN Written(mem, u) = Records
      /\ \A r \in Records : DOMAIN Written(mem, u)[r] = DOMAIN mem[r]
  BY DEF Memory, Written
<1>4. Written(mem, w) = [r \in Records |-> [i \in DOMAIN mem[r] |-> Cell(mem, w, r, i)]]
  BY <1>3 DEF Written
<1>5. Written(Written(mem, u), v)
        = [r \in Records |-> [i \in DOMAIN mem[r] |-> Cell(Written(mem, u), v, r, i)]]
  <2>1. Written(Written(mem, u), v)
        = [r \in DOMAIN Written(mem, u) |-> [i \in DOMAIN Written(mem, u)[r] |->
             Cell(Written(mem, u), v, r, i)]]
    BY DEF Written
  <2> HIDE DEF Cell
  <2> QED
    BY <1>3, <2>1
<1> HIDE DEF Cell
<1> QED
  BY <1>2, <1>4, <1>5 DEF w

(* One byte that reaches the memory is the first of the writes to come.    *)
LEMMA WrittenStep ==
  ASSUME NEW mem \in Memory, NEW ws \in Seq(ByteWrites), ws # <<>>
  PROVE  /\ PutByte(mem, Head(ws)) \in Memory
         /\ Written(PutByte(mem, Head(ws)), Tail(ws)) = Written(mem, ws)
<1> DEFINE w == Head(ws)
<1>1. w \in ByteWrites /\ Tail(ws) \in Seq(ByteWrites) /\ ws = <<w>> \o Tail(ws)
      /\ <<w>> \in Seq(ByteWrites)
  OBVIOUS
<1>2. \A r, i : Hits(<<w>>, r, i) = IF r = w.record /\ i = w.index THEN {1} ELSE {}
  BY DEF Hits
<1>3. Max({1}) = 1
  BY MaxIs
<1>4. w.record \in Records /\ w.index \in Nat /\ w.byte \in Byte
  BY <1>1 DEF ByteWrites
<1>5. Written(mem, <<w>>) = PutByte(mem, w)
  <2> HIDE DEF w
  <2>1. DOMAIN mem = Records
    BY DEF Memory
  <2>2. PutByte(mem, w)
          = [r \in Records |-> IF r = w.record THEN [mem[r] EXCEPT ![w.index] = w.byte]
                               ELSE mem[r]]
    BY <2>1, <1>4 DEF PutByte
  <2>3. \A r \in Records : mem[r] = [i \in DOMAIN mem[r] |-> mem[r][i]]
    BY DEF Memory
  <2>4. ASSUME NEW r \in Records
        PROVE  Written(mem, <<w>>)[r] = IF r = w.record THEN [mem[r] EXCEPT ![w.index] = w.byte]
                               ELSE mem[r]
    <3>1. Written(mem, <<w>>)[r] = [i \in DOMAIN mem[r] |->
              IF r = w.record /\ i = w.index THEN w.byte ELSE mem[r][i]]
      <4>1. \A i : IF Hits(<<w>>, r, i) = {} THEN ~(r = w.record /\ i = w.index)
                   ELSE (r = w.record /\ i = w.index) /\ <<w>>[Max(Hits(<<w>>, r, i))] = w
        <5>1. <<w>>[1] = w
          OBVIOUS
        <5> QED
          BY <1>2, <1>3, <5>1, Zenon
      <4> QED
        BY <2>1, <4>1 DEF Written
    <3>2. CASE r = w.record
      BY <3>1, <3>2, <2>3
    <3>3. CASE r # w.record
      BY <3>1, <3>3, <2>3
    <3> QED
      BY <3>2, <3>3
  <2>5. Written(mem, <<w>>) = [r \in Records |-> Written(mem, <<w>>)[r]]
    BY <2>1 DEF Written
  <2> QED
    BY <2>2, <2>4, <2>5
<1>6. Written(mem, ws) = Written(PutByte(mem, w), Tail(ws))
  BY <1>1, <1>5, WrittenTwice, ZenonT(30)
<1>7. PutByte(mem, w) \in Memory
  BY <1>1, <1>5, WrittenType
<1> QED
  BY <1>6, <1>7

(* Writes to other records leave a record alone.                           *)
LEMMA WrittenElsewhere ==
  ASSUME NEW mem \in Memory, NEW ws, NEW q \in Records,
         \A k \in DOMAIN ws : ws[k].record # q
  PROVE  Written(mem, ws)[q] = mem[q]
<1>1. \A i : Hits(ws, q, i) = {}
  BY DEF Hits
<1>2. mem[q] = [i \in DOMAIN mem[q] |-> mem[q][i]] /\ DOMAIN mem = Records
  BY DEF Memory
<1> QED
  BY <1>1, <1>2 DEF Written

LEMMA ChecksumType ==
  ASSUME NEW data, data[1] \in Int, data[2] \in Int, data[3] \in Int
  PROVE  Checksum(data) \in Byte
<1> DEFINE s == ((IF 0 # 0 THEN 1 ELSE 0) + data[1]) % ByteMod
           t == ((IF s # 0 THEN 1 ELSE 0) + data[2]) % ByteMod
           u == ((IF t # 0 THEN 1 ELSE 0) + data[3])
<1>1. u \in Int
  OBVIOUS
<1>2. Checksum(data) = u % ByteMod
  BY Zenon DEF Checksum
<1> HIDE DEF u
<1> QED
  BY <1>1, <1>2, ByteModAssumption DEF Byte

(* A record that has been written is intact and holds its data.            *)
LEMMA OneRecord ==
  ASSUME NEW mem \in Memory, NEW r \in Records \ {"version"}, NEW data,
         data[1] \in Byte, data[2] \in Byte, data[3] \in Byte
  PROVE  LET ws == WriteRecord(r, data)
             m  == Written(mem, ws)
         IN  /\ ws \in Seq(ByteWrites) /\ m \in Memory
             /\ DOMAIN ws = 1 .. 4 /\ \A k \in 1 .. 4 : ws[k].record = r /\ ws[k].index = k
             /\ \A k \in 1 .. 3 : ws[k].byte = data[k]
             /\ Intact(m, r)
             /\ \A k \in 1 .. 3 : m[r][k] = data[k] /\ Data(m, r)[k] = data[k]
             /\ \A q \in Records \ {r} : m[q] = mem[q]
<1> DEFINE ws == WriteRecord(r, data)
           m  == Written(mem, ws)
<1>1. Byte \subseteq Int /\ Checksum(data) \in Byte
  <2>1. Byte \subseteq Int
    BY ByteModAssumption DEF Byte
  <2> QED
    BY <2>1, ChecksumType
<1>2. /\ DOMAIN ws = 1 .. 4
      /\ \A k \in 1 .. 4 : ws[k] = PutChar(r, k, IF k <= 3 THEN data[k] ELSE Checksum(data))
  BY DEF WriteRecord, RecordSize
<1>3. ASSUME NEW k \in 1 .. 4
      PROVE  PutChar(r, k, IF k <= 3 THEN data[k] ELSE Checksum(data)) \in ByteWrites
  <2>1. k \in {1, 2, 3, 4}
    OBVIOUS
  <2> QED
    BY <1>1, <2>1 DEF PutChar, ByteWrites, RecordSize, Size
<1>4. ws \in Seq(ByteWrites)
  BY <1>2, <1>3 DEF WriteRecord, RecordSize
<1>5. m \in Memory
  BY <1>4, WrittenType
<1>6. \A k \in 1 .. 4 : ws[k].record = r /\ ws[k].index = k
                        /\ ws[k].byte = IF k <= 3 THEN data[k] ELSE Checksum(data)
  BY <1>2 DEF PutChar
<1> HIDE DEF ws
<1>7. ASSUME NEW k \in 1 .. 4 PROVE m[r][k] = ws[k].byte
  <2>1. Hits(ws, r, k) = {k}
    BY <1>2, <1>6 DEF Hits
  <2>2. Max({k}) = k
    BY MaxIs
  <2>3. k \in DOMAIN mem[r] /\ r \in DOMAIN mem
    BY MemoryFacts DEF Size, RecordSize
  <2> QED
    BY <2>1, <2>2, <2>3 DEF Written
<1>8. \A q \in Records \ {r} : m[q] = mem[q]
  BY <1>2, <1>6, WrittenElsewhere
<1>9. /\ m[r] \in Seq(Byte) /\ Len(m[r]) = 4
  BY <1>5 DEF Memory, Size, RecordSize
<1>10. \A k \in 1 .. 3 : m[r][k] = data[k] /\ Data(m, r)[k] = data[k]
  <2> HIDE DEF m
  <2>1. \A k \in 1 .. 3 : Data(m, r)[k] = m[r][k]
    BY <1>9 DEF Data, RecordSize
  <2> QED
    BY <2>1, <1>6, <1>7
<1>11. Checksum(Data(m, r)) = Checksum(data)
  BY <1>10 DEF Checksum
<1>12. m[r][4] = Checksum(data)
  BY <1>6, <1>7
<1>13. Intact(m, r)
  BY <1>11, <1>12 DEF Intact, RecordSize
<1> QED
  BY <1>2, <1>4, <1>5, <1>6, <1>8, <1>10, <1>13 DEF ws

(* The coordinate records are not the ones of the settings.                *)
LEMMA SystemsFacts ==
  /\ Parameters \subseteq Records \ {"version", "global"}
  /\ \A k \in 1 .. Len(Systems) : Systems[k] \in Range(Systems) /\ Systems[k] \in Parameters
  /\ Len(Systems) \in Nat /\ Len(Systems) >= 1
  /\ \A r \in Range(Systems) : r \notin {"G28", "G30", "global", "version", "none"}
  /\ Range(Systems) \subseteq {"G54", "G55", "G56", "G57", "G58", "G59"}
<1>1. /\ Systems \in Seq({"G54", "G55", "G56", "G57", "G58", "G59"}) /\ Systems # <<>>
  BY SystemsAssumption
<1>2. Len(Systems) \in Nat /\ Len(Systems) >= 1 /\ DOMAIN Systems = 1 .. Len(Systems)
  BY <1>1
<1>3. Range(Systems) \subseteq {"G54", "G55", "G56", "G57", "G58", "G59"}
  BY <1>1 DEF Range
<1>4. \A k \in 1 .. Len(Systems) : Systems[k] \in Range(Systems)
  BY <1>2 DEF Range
<1>5. \A r \in {"G54", "G55", "G56", "G57", "G58", "G59"} :
         r \notin {"G28", "G30", "global", "version", "none"}
  OBVIOUS
<1>6. \A r \in Range(Systems) : r \notin {"G28", "G30", "global", "version", "none"}
  BY <1>3, <1>5
<1> QED
  BY <1>2, <1>3, <1>4, <1>6 DEF Parameters, Records

LEMMA ByteRemainder ==
  ASSUME NEW x \in Int
  PROVE  /\ x % ByteMod \in Byte
         /\ 2 * x < ByteMod /\ -(2 * x) < ByteMod => Signed(x % ByteMod) = x
<1> DEFINE B == ByteMod
<1>1. B \in Nat /\ B > 3
  BY ByteModAssumption
<1> HIDE DEF B
<1>2. x % B \in 0 .. B - 1
  BY <1>1
<1>3. ASSUME 2 * x < B, -(2 * x) < B
      PROVE  Signed(x % B) = x
  <2>1. CASE x >= 0
    <3>1. x % B = x
      BY <1>1, <1>3, <2>1
    <3> QED
      BY <1>1, <1>3, <2>1, <3>1 DEF Signed, B
  <2>2. CASE x < 0
    <3>1. x % B = x + B
      BY <1>1, <1>3, <2>2
    <3> QED
      BY <1>1, <1>3, <2>2, <3>1 DEF Signed, B
  <2> QED
    BY <2>1, <2>2
<1> QED
  BY <1>2, <1>3 DEF B, Byte

LEMMA EncodeType ==
  ASSUME NEW v \in Vectors
  PROVE  \A k \in 1 .. 3 : Encode(v)[k] \in Byte
<1>1. v["X"] \in Int /\ v["Y"] \in Int /\ v["Z"] \in Int
  BY DEF Vectors, Axes
<1>2. /\ v["X"] % ByteMod \in Byte /\ v["Y"] % ByteMod \in Byte /\ v["Z"] % ByteMod \in Byte
  BY <1>1, ByteRemainder
<1>3. Encode(v)[1] \in Byte /\ Encode(v)[2] \in Byte /\ Encode(v)[3] \in Byte
  BY <1>2 DEF Encode
<1>4. \A k \in 1 .. 3 : k = 1 \/ k = 2 \/ k = 3
  OBVIOUS
<1> QED
  BY <1>3, <1>4

LEMMA DecodeType ==
  ASSUME NEW data, data[1] \in Byte, data[2] \in Byte, data[3] \in Byte
  PROVE  Decode(data) \in Vectors
<1>1. \A b \in Byte : Signed(b) \in Int
  BY ByteModAssumption DEF Byte, Signed
<1>2. \A a \in Axes : data[Place[a]] \in Byte
  BY DEF Axes, Place
<1> QED
  BY <1>1, <1>2 DEF Decode, Vectors

LEMMA DecodeEncode ==
  ASSUME NEW v \in Vectors, InRange(v),
         NEW data, \A k \in 1 .. 3 : data[k] = Encode(v)[k]
  PROVE  Decode(data) = v
<1>1. ASSUME NEW a \in Axes
      PROVE  Signed(v[a] % ByteMod) = v[a]
  <2>1. v[a] \in Int /\ v[a] <= MaxCoord /\ -v[a] <= MaxCoord
    BY GcodeAssumption DEF InRange, Vectors
  <2>2. 2 * v[a] < ByteMod /\ -(2 * v[a]) < ByteMod
    BY <2>1, GcodeAssumption, ByteModAssumption
  <2> QED
    BY <2>1, <2>2, ByteRemainder
<1>2. \A a \in Axes : data[Place[a]] = v[a] % ByteMod
  BY DEF Axes, Place, Encode
<1>3. v = [a \in Axes |-> v[a]]
  BY DEF Vectors
<1>4. Decode(data) = [a \in Axes |-> v[a]]
  BY <1>1, <1>2, Zenon DEF Decode
<1> QED
  BY <1>3, <1>4

LEMMA ZeroFacts == ZeroVector \in Vectors /\ InRange(ZeroVector)
  BY GcodeAssumption DEF ZeroVector, Vectors, InRange

(* A coordinate record that has been written holds its vector.             *)
LEMMA CoordWritten ==
  ASSUME NEW mem \in Memory, NEW r \in Parameters, NEW v \in Vectors
  PROVE  LET ws == WriteCoordData(r, v)
             m  == Written(mem, ws)
         IN  /\ ws \in Seq(ByteWrites) /\ m \in Memory
             /\ \A k \in DOMAIN ws : ws[k].record = r
             /\ Intact(m, r)
             /\ \A q \in Records \ {r} : m[q] = mem[q]
             /\ InRange(v) => Decode(Data(m, r)) = v
<1> DEFINE ws == WriteCoordData(r, v)
           m  == Written(mem, ws)
<1>1. r \in Records \ {"version"}
  BY SystemsFacts
<1>2. \A k \in 1 .. 3 : Encode(v)[k] \in Byte
  BY EncodeType
<1>3. Encode(v)[1] \in Byte /\ Encode(v)[2] \in Byte /\ Encode(v)[3] \in Byte
  BY <1>2
<1>4. /\ ws \in Seq(ByteWrites) /\ m \in Memory
      /\ DOMAIN ws = 1 .. 4 /\ \A k \in 1 .. 4 : ws[k].record = r
      /\ Intact(m, r) /\ \A k \in 1 .. 3 : Data(m, r)[k] = Encode(v)[k]
      /\ \A q \in Records \ {r} : m[q] = mem[q]
  BY <1>1, <1>3, OneRecord DEF WriteCoordData
<1>5. InRange(v) => Decode(Data(m, r)) = v
  BY <1>4, DecodeEncode
<1> QED
  BY <1>4, <1>5

LEMMA DataFacts ==
  ASSUME NEW mem \in Memory, NEW r \in Records \ {"version"}
  PROVE  \A k \in 1 .. 3 : Data(mem, r)[k] = mem[r][k] /\ Data(mem, r)[k] \in Byte
  BY DEF Data, Memory, Size, RecordSize

LEMMA ReadFacts ==
  ASSUME NEW mem \in Memory, NEW r \in Parameters
  PROVE  LET read == ReadCoordData(mem, r)
         IN  /\ read.data \in Vectors /\ read.ok = Intact(mem, r)
             /\ read.data = IF Intact(mem, r) THEN Decode(Data(mem, r)) ELSE ZeroVector
             /\ read.writes = IF Intact(mem, r) THEN <<>> ELSE WriteCoordData(r, ZeroVector)
             /\ read.writes \in Seq(ByteWrites)
<1>1. Decode(Data(mem, r)) \in Vectors
  BY DataFacts, DecodeType, SystemsFacts
<1>2. WriteCoordData(r, ZeroVector) \in Seq(ByteWrites) /\ <<>> \in Seq(ByteWrites)
  BY CoordWritten, ZeroFacts
<1>3. Intact(mem, r) \in BOOLEAN
  BY DEF Intact
<1>4. CASE Intact(mem, r)
  BY <1>1, <1>2, <1>4 DEF ReadCoordData
<1>5. CASE ~Intact(mem, r)
  <2>1. ReadCoordData(mem, r) = [ok |-> FALSE, data |-> ZeroVector,
                                 writes |-> WriteCoordData(r, ZeroVector)]
    BY <1>5, Zenon DEF ReadCoordData
  <2>2. Intact(mem, r) = FALSE
    BY <1>3, <1>5
  <2>3. /\ ReadCoordData(mem, r).ok = FALSE /\ ReadCoordData(mem, r).data = ZeroVector
        /\ ReadCoordData(mem, r).writes = WriteCoordData(r, ZeroVector)
    BY <2>1
  <2>4. ReadCoordData(mem, r).ok = Intact(mem, r)
    BY <2>2, <2>3
  <2> QED
    BY <1>2, <2>3, <2>4, <1>5, ZeroFacts
<1> QED
  BY <1>3, <1>4, <1>5

(* Reading depends on the record alone.                                    *)
LEMMA ReadSame ==
  ASSUME NEW m, NEW mem, NEW q, m[q] = mem[q]
  PROVE  /\ Intact(m, q) = Intact(mem, q) /\ Data(m, q) = Data(mem, q)
         /\ ReadCoordData(m, q) = ReadCoordData(mem, q)
  BY DEF Intact, Data, ReadCoordData

(* The repair of a record changes nothing of what can be read, and ends    *)
(* the failure.                                                            *)
LEMMA Repair ==
  ASSUME NEW mem \in Memory, NEW r \in Parameters
  PROVE  LET ws == ReadCoordData(mem, r).writes
             m  == Written(mem, ws)
         IN  /\ ws \in Seq(ByteWrites) /\ m \in Memory /\ Intact(m, r)
             /\ \A k \in DOMAIN ws : ws[k].record \in Parameters
             /\ \A q \in Records : q # r \/ Intact(mem, r) => m[q] = mem[q]
             /\ \A q \in Parameters : ReadCoordData(m, q).data = ReadCoordData(mem, q).data
             /\ \A q \in Parameters : Intact(mem, q) => Intact(m, q)
<1> DEFINE ws == ReadCoordData(mem, r).writes
           m  == Written(mem, ws)
<1>1. CASE Intact(mem, r)
  <2>1. ws = <<>> /\ m = mem
    BY <1>1, ReadFacts, WrittenNone
  <2> QED
    BY <1>1, <2>1, ReadFacts
<1>2. CASE ~Intact(mem, r)
  <2>1. ws = WriteCoordData(r, ZeroVector) /\ ReadCoordData(mem, r).data = ZeroVector
    BY <1>2, ReadFacts
  <2>2. /\ ws \in Seq(ByteWrites) /\ m \in Memory /\ Intact(m, r)
        /\ \A k \in DOMAIN ws : ws[k].record = r
        /\ \A q \in Records \ {r} : m[q] = mem[q]
        /\ Decode(Data(m, r)) = ZeroVector
    BY <2>1, CoordWritten, ZeroFacts
  <2> HIDE DEF ws, m
  <2>3. ReadCoordData(m, r).data = ZeroVector
    BY <2>2, ReadFacts
  <2>4. ASSUME NEW q \in Parameters
        PROVE  /\ ReadCoordData(m, q).data = ReadCoordData(mem, q).data
               /\ Intact(mem, q) => Intact(m, q)
    <3>1. CASE q = r
      BY <1>2, <2>1, <2>2, <2>3, <3>1
    <3>2. CASE q # r
      <4>1. m[q] = mem[q]
        BY <2>2, <3>2, SystemsFacts
      <4> QED
        BY <4>1, ReadSame
    <3> QED
      BY <3>1, <3>2
  <2> USE DEF ws, m
  <2> QED
    BY <1>2, <2>2, <2>4
<1> QED
  BY <1>1, <1>2

-----------------------------------------------------------------------------
(* The settings and their record.                                          *)

SettingsType == [steps : Byte, homing : BOOLEAN, soft : BOOLEAN, pulloff : Byte]

(* A byte of flags has the soft limits on only with homing.                *)
SoftByte(b) == (b \div SoftFlag) % 2 = 1 => b % 2 = 1
SoftWrites(ws) == \A k \in Hits(ws, "global", 2) : SoftByte(ws[k].byte)

LEMMA DefaultsFacts ==
  Defaults \in SettingsType /\ (Defaults.soft => Defaults.homing)
  BY ByteModAssumption DEF Defaults, SettingsType, Byte

LEMMA FlagsFacts ==
  ASSUME NEW s \in SettingsType
  PROVE  /\ Flags(s) \in Byte
         /\ (Flags(s) % 2 = 1) = s.homing
         /\ ((Flags(s) \div SoftFlag) % 2 = 1) = s.soft
<1>1. s.homing \in BOOLEAN /\ s.soft \in BOOLEAN
  BY DEF SettingsType
<1>2. CASE s.homing /\ s.soft
  <2>1. Flags(s) = 3
    BY <1>2 DEF Flags, HomingFlag, SoftFlag
  <2>2. 3 \in Byte /\ (3 % 2 = 1) /\ ((3 \div 2) % 2 = 1)
    BY ByteModAssumption DEF Byte
  <2> QED
    BY <2>1, <2>2, <1>1, <1>2 DEF SoftFlag
<1>3. CASE s.homing /\ ~s.soft
  <2>1. Flags(s) = 1
    BY <1>3 DEF Flags, HomingFlag, SoftFlag
  <2>2. 1 \in Byte /\ (1 % 2 = 1) /\ ~((1 \div 2) % 2 = 1)
    BY ByteModAssumption DEF Byte
  <2> QED
    BY <2>1, <2>2, <1>1, <1>3 DEF SoftFlag
<1>4. CASE ~s.homing /\ s.soft
  <2>1. Flags(s) = 2
    BY <1>4 DEF Flags, HomingFlag, SoftFlag
  <2>2. 2 \in Byte /\ ~(2 % 2 = 1) /\ ((2 \div 2) % 2 = 1)
    BY ByteModAssumption DEF Byte
  <2> QED
    BY <2>1, <2>2, <1>1, <1>4 DEF SoftFlag
<1>5. CASE ~s.homing /\ ~s.soft
  <2>1. Flags(s) = 0
    BY <1>5 DEF Flags, HomingFlag, SoftFlag
  <2>2. 0 \in Byte /\ ~(0 % 2 = 1) /\ ~((0 \div 2) % 2 = 1)
    BY ByteModAssumption DEF Byte
  <2> QED
    BY <2>1, <2>2, <1>1, <1>5 DEF SoftFlag
<1> QED
  BY <1>1, <1>2, <1>3, <1>4, <1>5

LEMMA EncodeSettingsFacts ==
  ASSUME NEW s \in SettingsType
  PROVE  /\ EncodeSettings(s)[1] = s.steps /\ EncodeSettings(s)[2] = Flags(s)
         /\ EncodeSettings(s)[3] = s.pulloff
         /\ EncodeSettings(s)[1] \in Byte /\ EncodeSettings(s)[2] \in Byte
         /\ EncodeSettings(s)[3] \in Byte
<1>1. s.steps \in Byte /\ s.pulloff \in Byte /\ Flags(s) \in Byte
  BY FlagsFacts DEF SettingsType
<1>2. /\ EncodeSettings(s)[1] = s.steps /\ EncodeSettings(s)[2] = Flags(s)
      /\ EncodeSettings(s)[3] = s.pulloff
  BY DEF EncodeSettings
<1> QED
  BY <1>1, <1>2

LEMMA DecodeSettingsType ==
  ASSUME NEW data, data[1] \in Byte, data[2] \in Byte, data[3] \in Byte
  PROVE  /\ DecodeSettings(data) \in SettingsType
         /\ SoftByte(data[2]) => (DecodeSettings(data).soft => DecodeSettings(data).homing)
  BY DEF DecodeSettings, SettingsType, SoftByte

LEMMA DecodeEncodeSettings ==
  ASSUME NEW s \in SettingsType, NEW data, \A k \in 1 .. 3 : data[k] = EncodeSettings(s)[k]
  PROVE  DecodeSettings(data) = s
<1>1. data[1] = s.steps /\ data[2] = Flags(s) /\ data[3] = s.pulloff
  <2>1. 1 \in 1 .. 3 /\ 2 \in 1 .. 3 /\ 3 \in 1 .. 3
    OBVIOUS
  <2> QED
    BY <2>1, EncodeSettingsFacts
<1>2. (data[2] % 2 = 1) = s.homing /\ ((data[2] \div SoftFlag) % 2 = 1) = s.soft
  BY <1>1, FlagsFacts
<1>3. DecodeSettings(data) = [steps |-> s.steps, homing |-> s.homing, soft |-> s.soft,
                              pulloff |-> s.pulloff]
  BY <1>1, <1>2, Zenon DEF DecodeSettings
<1> QED
  BY <1>3 DEF SettingsType

LEMMA ConcatWrites ==
  ASSUME NEW u \in Seq(ByteWrites), NEW v \in Seq(ByteWrites)
  PROVE  /\ u \o v \in Seq(ByteWrites)
         /\ SoftWrites(u) /\ SoftWrites(v) => SoftWrites(u \o v)
<1>1. /\ u \o v \in Seq(ByteWrites) /\ DOMAIN (u \o v) = 1 .. Len(u) + Len(v)
      /\ DOMAIN u = 1 .. Len(u) /\ DOMAIN v = 1 .. Len(v)
      /\ Len(u) \in Nat /\ Len(v) \in Nat
      /\ \A i \in 1 .. Len(u) + Len(v) :
            (u \o v)[i] = IF i <= Len(u) THEN u[i] ELSE v[i - Len(u)]
  OBVIOUS
<1>2. ASSUME NEW i \in Hits(u \o v, "global", 2)
      PROVE  \/ i \in Hits(u, "global", 2) /\ (u \o v)[i] = u[i]
             \/ i - Len(u) \in Hits(v, "global", 2) /\ (u \o v)[i] = v[i - Len(u)]
  <2>1. i \in 1 .. Len(u) + Len(v) /\ (u \o v)[i].record = "global" /\ (u \o v)[i].index = 2
    BY <1>1 DEF Hits
  <2>2. CASE i <= Len(u)
    BY <1>1, <2>1, <2>2 DEF Hits
  <2>3. CASE i > Len(u)
    BY <1>1, <2>1, <2>3 DEF Hits
  <2> QED
    BY <1>1, <2>1, <2>2, <2>3
<1> QED
  BY <1>1, <1>2 DEF SoftWrites

(* The settings that have been written are readable and are the ones.      *)
LEMMA GlobalWritten ==
  ASSUME NEW mem \in Memory, NEW s \in SettingsType
  PROVE  LET ws == WriteGlobal(s)
             m  == Written(mem, ws)
         IN  /\ ws \in Seq(ByteWrites) /\ m \in Memory
             /\ GlobalReadable(m) /\ DecodeSettings(Data(m, "global")) = s
             /\ \A q \in Parameters : m[q] = mem[q]
             /\ (s.soft => s.homing) => SoftWrites(ws)
<1> DEFINE u == <<PutChar("version", 1, SettingsVersion)>>
           v == WriteRecord("global", EncodeSettings(s))
           k == Written(mem, u)
           m == Written(k, v)
<1>0. "version" \in Records /\ "global" \in Records \ {"version"}
  BY DEF Records
<1>1. u \in Seq(ByteWrites)
  <2>1. PutChar("version", 1, SettingsVersion) \in ByteWrites
    BY <1>0, ByteModAssumption DEF PutChar, ByteWrites, SettingsVersion, Size, RecordSize, Byte
  <2> QED
    BY <2>1
<1>2. k \in Memory
  BY <1>1, WrittenType
<1>3. k["version"][1] = SettingsVersion
  <2>1. Hits(u, "version", 1) = {1} /\ u[1].byte = SettingsVersion
    BY DEF Hits, PutChar
  <2>2. Max({1}) = 1
    BY MaxIs
  <2>3. 1 \in DOMAIN mem["version"] /\ "version" \in DOMAIN mem
    BY <1>0, MemoryFacts DEF Size
  <2> HIDE DEF u
  <2> QED
    BY <2>1, <2>2, <2>3 DEF Written
<1>4. \A q \in Parameters : k[q] = mem[q]
  <2>1. \A i \in DOMAIN u : u[i].record = "version"
    BY DEF PutChar
  <2> HIDE DEF u
  <2> QED
    BY <2>1, WrittenElsewhere, SystemsFacts
<1>5. \A i \in 1 .. 3 : EncodeSettings(s)[i] \in Byte
  <2>1. \A i \in 1 .. 3 : i = 1 \/ i = 2 \/ i = 3
    OBVIOUS
  <2> QED
    BY <2>1, EncodeSettingsFacts
<1>6. /\ v \in Seq(ByteWrites) /\ m \in Memory
      /\ DOMAIN v = 1 .. 4 /\ \A i \in 1 .. 4 : v[i].record = "global" /\ v[i].index = i
      /\ \A i \in 1 .. 3 : v[i].byte = EncodeSettings(s)[i]
      /\ Intact(m, "global")
      /\ \A i \in 1 .. 3 : Data(m, "global")[i] = EncodeSettings(s)[i]
      /\ \A q \in Records \ {"global"} : m[q] = k[q]
  BY <1>0, <1>2, EncodeSettingsFacts, OneRecord
<1>7. WriteGlobal(s) = u \o v /\ Written(mem, WriteGlobal(s)) = m
  <2>1. WriteGlobal(s) = u \o v
    BY DEF WriteGlobal
  <2>2. u \in Seq(ByteWrites) /\ v \in Seq(ByteWrites)
    BY <1>1, <1>6
  <2> HIDE DEF u, v
  <2>3. Written(mem, u \o v) = Written(Written(mem, u), v)
    BY <2>2, WrittenTwice
  <2> QED
    BY <2>1, <2>3
<1>8. DecodeSettings(Data(m, "global")) = s
  BY <1>6, DecodeEncodeSettings
<1>9. GlobalReadable(m)
  BY <1>0, <1>3, <1>6 DEF GlobalReadable
<1>10. \A q \in Parameters : m[q] = mem[q]
  BY <1>4, <1>6, SystemsFacts
<1>11. ASSUME s.soft => s.homing PROVE SoftWrites(u \o v)
  <2>1. Hits(u, "global", 2) = {}
    BY DEF Hits, PutChar
  <2>2. Hits(v, "global", 2) \subseteq {2}
    BY <1>6 DEF Hits
  <2>3. SoftByte(EncodeSettings(s)[2])
    BY <1>11, FlagsFacts, EncodeSettingsFacts DEF SoftByte
  <2>4. v[2].byte = EncodeSettings(s)[2]
    BY <1>6
  <2>5. SoftWrites(u) /\ SoftWrites(v)
    BY <2>1, <2>2, <2>3, <2>4 DEF SoftWrites
  <2> QED
    BY <2>5, <1>1, <1>6, ConcatWrites
<1> HIDE DEF m, u, v, k
<1> QED
  BY <1>1, <1>6, <1>7, <1>8, <1>9, <1>10, <1>11

(* $RST=# writes to the coordinate records alone.                          *)
LEMMA RestoreFacts ==
  /\ RestoreParameters \in Seq(ByteWrites)
  /\ \A k \in DOMAIN RestoreParameters : RestoreParameters[k].record \in Parameters
<1> DEFINE rs == Systems \o <<"G28", "G30">>
           n == Len(rs)
           At(k) == WriteCoordData(rs[((k - 1) \div 4) + 1], ZeroVector)[((k - 1) % 4) + 1]
<1>1. rs \in Seq(Parameters) /\ n \in Nat
  <2>1. Systems \in Seq(Parameters)
    BY SystemsAssumption, SystemsFacts
  <2>2. <<"G28", "G30">> \in Seq(Parameters)
    BY DEF Parameters
  <2> QED
    BY <2>1, <2>2
<1>2. RestoreParameters = [k \in 1 .. 4 * n |-> At(k)]
  BY DEF RestoreParameters, RecordSize
<1> HIDE DEF rs, n
<1>3. ASSUME NEW k \in 1 .. 4 * n
      PROVE  At(k) \in ByteWrites /\ At(k).record \in Parameters
  <2>1. /\ ((k - 1) \div 4) + 1 \in 1 .. n
        /\ ((k - 1) % 4) + 1 \in 1 .. 4
    BY <1>1
  <2>2. rs[((k - 1) \div 4) + 1] \in Parameters
    BY <1>1, <2>1 DEF n
  <2> DEFINE ws == WriteCoordData(rs[((k - 1) \div 4) + 1], ZeroVector)
  <2>3. DOMAIN ws = 1 .. 4
    BY DEF WriteCoordData, WriteRecord, RecordSize
  <2>5. \E m \in Memory : TRUE
    <3>1. [r \in Records |-> [i \in 1 .. Size(r) |-> 0]] \in Memory
      <4>1. \A r \in Records : [i \in 1 .. Size(r) |-> 0] \in Seq(Byte) /\ Len([i \in 1 .. Size(r) |-> 0]) = Size(r)
        BY ByteModAssumption DEF Size, RecordSize, Byte
      <4> QED
        BY <4>1 DEF Memory
    <3> QED
      BY <3>1
  <2>4. ws \in Seq(ByteWrites) /\ \A j \in DOMAIN ws : ws[j].record \in Parameters
                             /\ ws[j] \in ByteWrites
    BY <2>2, <2>5, CoordWritten, ZeroFacts
  <2> HIDE DEF ws
  <2>6. ws[((k - 1) % 4) + 1] \in ByteWrites /\ ws[((k - 1) % 4) + 1].record \in Parameters
    <3>1. PICK j \in 1 .. 4 : j = ((k - 1) % 4) + 1
      BY <2>1
    <3>2. ws[j] \in ByteWrites /\ ws[j].record \in Parameters
      BY <2>3, <2>4
    <3> QED
      BY <3>1, <3>2
  <2> QED
    BY <2>6 DEF ws
<1> HIDE DEF At
<1> QED
  BY <1>1, <1>2, <1>3

-----------------------------------------------------------------------------
(* The parser of a line.                                                   *)

Modes == DOMAIN InitialModal
IsModal(q) == /\ q = [g \in Modes |-> q[g]]
              /\ \A g \in Modes : q[g] \in Group[g] \cup {InitialModal[g]}

Words == [w : STRING, v : Int]
Kinds == {"none", "nonmodal", "motion", "length"}
IsBlock(p, b) ==
  /\ b = [fault |-> b.fault, modal |-> b.modal, nonModal |-> b.nonModal, axis |-> b.axis,
          groups |-> b.groups, vals |-> b.vals]
  /\ b.fault \in BOOLEAN /\ IsModal(b.modal) /\ b.axis \in Kinds
  /\ DOMAIN b.vals \subseteq Letters /\ \A l \in DOMAIN b.vals : b.vals[l] \in Int
  /\ b.modal.system # p.modal.system => "system" \in b.groups
  /\ ~b.fault => (b.nonModal \in AxisNonModal => b.axis = "nonmodal")

LEMMA Least ==
  ASSUME NEW T \in SUBSET Nat, T # {}
  PROVE  \E k \in T : \A j \in T : k <= j
<1>1. PICK k \in T : \A j \in T : <<j, k>> \notin OpToRel(<, Nat)
  BY NatLessThanWellFounded, WFMin, Zenon
<1>2. \A j \in T : ~(j < k)
  BY <1>1, Zenon DEF OpToRel
<1> QED
  BY <1>2

LEMMA ModesIs ==
  Modes = {"motion", "plane", "distance", "feed", "units", "length", "system", "flow",
           "spindle", "coolant"}
  BY DEF Modes, InitialModal

LEMMA GroupOfFacts ==
  ASSUME NEW word \in Commands
  PROVE  /\ GroupOf(word) \in DOMAIN Group /\ word \in Group[GroupOf(word)]
         /\ word = "M30" => GroupOf(word) = "flow"
<1>1. \E g \in DOMAIN Group : word \in Group[g]
  BY DEF Commands, Range
<1>2. GroupOf(word) \in DOMAIN Group /\ word \in Group[GroupOf(word)]
  BY <1>1 DEF GroupOf
<1>3. ASSUME NEW g \in DOMAIN Group, g # "flow" PROVE "M30" \notin Group[g]
  <2>1. "M30" \notin Range(Systems)
    BY SystemsFacts
  <2> QED
    BY <1>3, <2>1 DEF Group, Motions, NonModal, AxisNonModal
<1> QED
  BY <1>2, <1>3

LEMMA AxisCommandFacts ==
  ASSUME NEW word
  PROVE  /\ AxisCommandOf(word) \in Kinds
         /\ word \in AxisNonModal => AxisCommandOf(word) = "nonmodal"
<1>1. word \in AxisNonModal => word \notin Motions \ {"G80"} /\ word \notin Group.length
  BY DEF AxisNonModal, Motions, Group
<1>2. word \in Motions \ {"G80"} => word \notin AxisNonModal /\ word \notin Group.length
  BY DEF AxisNonModal, Motions, Group
<1> HIDE DEF Group
<1>3. CASE word \in AxisNonModal
  BY <1>1, <1>3 DEF AxisCommandOf, Kinds
<1>4. CASE word \in Motions \ {"G80"}
  BY <1>2, <1>4 DEF AxisCommandOf, Kinds
<1>5. CASE word \notin AxisNonModal /\ word \notin Motions \ {"G80"}
  BY <1>5 DEF AxisCommandOf, Kinds
<1> QED
  BY <1>3, <1>4, <1>5

LEMMA SetModalFacts ==
  ASSUME NEW q, IsModal(q), NEW word \in Commands
  PROVE  /\ IsModal(SetModal(q, word))
         /\ SetModal(q, word).system # q.system => GroupOf(word) = "system"
<1> DEFINE g == GroupOf(word)
           new == IF word = "M30" THEN "M2" ELSE word
<1>1. g \in DOMAIN Group /\ word \in Group[g] /\ (word = "M30" => g = "flow")
  BY GroupOfFacts
<1>2. DOMAIN q = Modes
  BY DEF IsModal
<1>3. CASE g \notin Modes \/ word = "M1"
  BY <1>2, <1>3 DEF SetModal
<1>4. CASE g \in Modes /\ word # "M1"
  <2>1. SetModal(q, word) = [q EXCEPT ![g] = new]
    BY <1>2, <1>4, Zenon DEF SetModal
  <2>2. new \in Group[g]
    BY <1>1 DEF Group
  <2> HIDE DEF g, new
  <2>3. SetModal(q, word) = [h \in Modes |-> IF h = g THEN new ELSE q[h]]
    BY <1>2, <2>1
  <2>4. IsModal(SetModal(q, word))
    BY <2>2, <2>3 DEF IsModal
  <2>5. "system" \in Modes
    BY ModesIs
  <2>6. g # "system" => SetModal(q, word).system = q.system
    BY <2>3, <2>5
  <2> QED
    BY <2>4, <2>6 DEF g
<1> QED
  BY <1>3, <1>4

LEMMA ParseCommandBlock ==
  ASSUME NEW p, NEW b, IsBlock(p, b), ~b.fault, NEW word \in Commands
  PROVE  IsBlock(p, ParseCommand(b, word))
<1> DEFINE c == ParseCommand(b, word)
           axis == AxisCommandOf(word)
           g == GroupOf(word)
<1>1. axis \in Kinds /\ (word \in AxisNonModal => axis = "nonmodal")
  BY AxisCommandFacts
<1>2. IsModal(SetModal(b.modal, word))
      /\ (SetModal(b.modal, word).system # b.modal.system => g = "system")
  BY SetModalFacts DEF IsBlock
<1>3. g = "nonmodal" => word \in NonModal
  BY GroupOfFacts DEF Group
<1>4. word \in NonModal /\ word \notin AxisNonModal => axis = "none"
  <2>1. word \in NonModal => word \notin Motions \ {"G80"} /\ word \notin Group.length
    BY DEF AxisNonModal, Motions, Group, NonModal
  <2> QED
    BY <2>1 DEF AxisCommandOf
<1>5. b = [fault |-> b.fault, modal |-> b.modal, nonModal |-> b.nonModal, axis |-> b.axis,
           groups |-> b.groups, vals |-> b.vals]
  BY DEF IsBlock
<1> HIDE DEF axis, g
<1>6. c = [fault |-> (axis # "none" /\ b.axis # "none") \/ g \in b.groups,
           modal |-> SetModal(b.modal, word),
           nonModal |-> IF g = "nonmodal" THEN word ELSE b.nonModal,
           axis |-> IF axis # "none" THEN axis ELSE b.axis,
           groups |-> b.groups \cup {g}, vals |-> b.vals]
  <2> DEFINE modal == SetModal(b.modal, word)
             refused == (axis # "none" /\ b.axis # "none") \/ g \in b.groups
             named == IF g = "nonmodal" THEN word ELSE b.nonModal
             kind == IF axis # "none" THEN axis ELSE b.axis
             all == b.groups \cup {g}
  <2>1. c = [b EXCEPT !.fault = refused, !.modal = modal, !.nonModal = named,
                      !.axis = kind, !.groups = all]
    BY Zenon DEF ParseCommand, axis, g
  <2> HIDE DEF modal, refused, named, kind, all, c
  <2>2. DOMAIN b = {"fault", "modal", "nonModal", "axis", "groups", "vals"}
    BY <1>5
  <2>3. c = [fault |-> refused, modal |-> modal, nonModal |-> named, axis |-> kind,
             groups |-> all, vals |-> b.vals]
    BY <2>1, <2>2
  <2> QED
    BY <2>3 DEF modal, refused, named, kind, all
<1> HIDE DEF c
<1>7. /\ c.fault = ((axis # "none" /\ b.axis # "none") \/ g \in b.groups)
      /\ c.modal = SetModal(b.modal, word)
      /\ c.nonModal = IF g = "nonmodal" THEN word ELSE b.nonModal
      /\ c.axis = IF axis # "none" THEN axis ELSE b.axis
      /\ c.groups = b.groups \cup {g} /\ c.vals = b.vals
      /\ c = [fault |-> c.fault, modal |-> c.modal, nonModal |-> c.nonModal, axis |-> c.axis,
           groups |-> c.groups, vals |-> c.vals]
  BY <1>6
<1>8. c.fault \in BOOLEAN /\ IsModal(c.modal) /\ c.axis \in Kinds
  BY <1>1, <1>2, <1>7 DEF IsBlock
<1>9. c.modal.system # p.modal.system => "system" \in c.groups
  BY <1>2, <1>7 DEF IsBlock
<1>10. ASSUME ~c.fault, c.nonModal \in AxisNonModal PROVE c.axis = "nonmodal"
  BY <1>1, <1>3, <1>4, <1>7, <1>10 DEF IsBlock
<1>11. DOMAIN c.vals \subseteq Letters /\ \A l \in DOMAIN c.vals : c.vals[l] \in Int
  BY <1>7 DEF IsBlock
<1> QED
  BY <1>7, <1>8, <1>9, <1>10, <1>11 DEF IsBlock, c

LEMMA ParseValueBlock ==
  ASSUME NEW p, NEW b, IsBlock(p, b), ~b.fault, NEW letter \in Letters, NEW value \in Int
  PROVE  IsBlock(p, ParseValue(b, letter, value))
<1> DEFINE c == ParseValue(b, letter, value)
           refused == letter \in DOMAIN b.vals \/ (letter \in NonNegative /\ value < 0)
           all == [l \in DOMAIN b.vals \cup {letter} |-> IF l = letter THEN value ELSE b.vals[l]]
<1>1. DOMAIN b = {"fault", "modal", "nonModal", "axis", "groups", "vals"}
      /\ b = [fault |-> b.fault, modal |-> b.modal, nonModal |-> b.nonModal, axis |-> b.axis,
              groups |-> b.groups, vals |-> b.vals]
  <2>1. b = [fault |-> b.fault, modal |-> b.modal, nonModal |-> b.nonModal, axis |-> b.axis,
             groups |-> b.groups, vals |-> b.vals]
    BY DEF IsBlock
  <2> QED
    BY <2>1
<1>2. c = [b EXCEPT !.fault = refused, !.vals = all]
  BY Zenon DEF ParseValue
<1>3. refused \in BOOLEAN /\ DOMAIN all = DOMAIN b.vals \cup {letter}
      /\ \A l \in DOMAIN all : all[l] = IF l = letter THEN value ELSE b.vals[l]
  OBVIOUS
<1> HIDE DEF refused, all, c
<1>4. c = [fault |-> refused, modal |-> b.modal, nonModal |-> b.nonModal, axis |-> b.axis,
           groups |-> b.groups, vals |-> all]
  BY <1>1, <1>2
<1>5. /\ c.fault = refused /\ c.modal = b.modal /\ c.nonModal = b.nonModal /\ c.axis = b.axis
      /\ c.groups = b.groups /\ c.vals = all
      /\ c = [fault |-> c.fault, modal |-> c.modal, nonModal |-> c.nonModal, axis |-> c.axis,
              groups |-> c.groups, vals |-> c.vals]
  BY <1>4
<1>6. DOMAIN c.vals \subseteq Letters /\ \A l \in DOMAIN c.vals : c.vals[l] \in Int
  BY <1>3, <1>5 DEF IsBlock
<1> QED
  BY <1>3, <1>5, <1>6 DEF IsBlock, c

LEMMA ParseWordBlock ==
  ASSUME NEW p, NEW b, IsBlock(p, b), NEW word \in Words
  PROVE  IsBlock(p, ParseWord(b, word))
<1>1. word.v \in Int
  BY DEF Words
<1>2. CASE b.fault
  BY <1>2 DEF ParseWord
<1>3. CASE ~b.fault /\ word.w \in Commands
  BY <1>3, ParseCommandBlock DEF ParseWord
<1>4. CASE ~b.fault /\ word.w \notin Commands /\ word.w \in Letters
  BY <1>1, <1>4, ParseValueBlock DEF ParseWord
<1>5. CASE ~b.fault /\ word.w \notin Commands /\ word.w \notin Letters
  <2> DEFINE c == ParseWord(b, word)
  <2>1. c = [b EXCEPT !.fault = TRUE]
    BY <1>5 DEF ParseWord
  <2> HIDE DEF c
  <2>2. b = [fault |-> b.fault, modal |-> b.modal, nonModal |-> b.nonModal, axis |-> b.axis,
             groups |-> b.groups, vals |-> b.vals]
    BY DEF IsBlock
  <2>3. DOMAIN b = {"fault", "modal", "nonModal", "axis", "groups", "vals"}
    BY <2>2
  <2>4. c = [fault |-> TRUE, modal |-> b.modal, nonModal |-> b.nonModal, axis |-> b.axis,
             groups |-> b.groups, vals |-> b.vals]
    BY <2>1, <2>2, <2>3
  <2>5. /\ c.fault = TRUE /\ c.modal = b.modal /\ c.nonModal = b.nonModal /\ c.axis = b.axis
        /\ c.groups = b.groups /\ c.vals = b.vals
        /\ c = [fault |-> c.fault, modal |-> c.modal, nonModal |-> c.nonModal,
                axis |-> c.axis, groups |-> c.groups, vals |-> c.vals]
    BY <2>4
  <2> QED
    BY <2>5 DEF IsBlock, c
<1> QED
  BY <1>2, <1>3, <1>4, <1>5

LEMMA NewBlockIs ==
  ASSUME NEW p, IsModal(p.modal)
  PROVE  IsBlock(p, NewBlock(p))
<1> DEFINE b == NewBlock(p)
<1>1. b = [fault |-> FALSE, modal |-> p.modal, nonModal |-> "none", axis |-> "none",
           groups |-> {}, vals |-> <<>>]
  BY DEF NewBlock
<1> HIDE DEF b
<1>2. /\ b.fault = FALSE /\ b.modal = p.modal /\ b.nonModal = "none" /\ b.axis = "none"
      /\ b.groups = {} /\ b.vals = <<>>
      /\ b = [fault |-> b.fault, modal |-> b.modal, nonModal |-> b.nonModal, axis |-> b.axis,
              groups |-> b.groups, vals |-> b.vals]
  BY <1>1
<1>3. DOMAIN b.vals = {} /\ "none" \notin AxisNonModal
  BY <1>2 DEF AxisNonModal
<1> QED
  BY <1>2, <1>3 DEF IsBlock, Kinds, b

(* The blocks a line is read into, word by word: there is such a function, *)
(* by the least length that would have none.                               *)
Reads(p, line, n, f) ==
  f = [k \in 0 .. n |-> IF k = 0 THEN NewBlock(p) ELSE ParseWord(f[k - 1], line[k])]
Reading(p, line) == CHOOSE read : Reads(p, line, Len(line), read)

LEMMA ReadsExist ==
  ASSUME NEW p, NEW line \in Seq(Words)
  PROVE  \E f : Reads(p, line, Len(line), f)
<1> DEFINE T == {n \in 0 .. Len(line) : ~\E f : Reads(p, line, n, f)}
<1>0. Len(line) \in Nat /\ Len(line) \in 0 .. Len(line)
      /\ \A k \in 1 .. Len(line) : line[k] \in Words
  OBVIOUS
<1>1. SUFFICES ASSUME T # {} PROVE FALSE
  BY <1>0, Zenon
<1>6. T \in SUBSET Nat
  BY <1>0
<1>2. PICK n \in T : \A j \in T : n <= j
  BY <1>1, <1>6, Least, Zenon
<1>3. n \in Nat /\ n <= Len(line) /\ Len(line) \in Nat
      /\ ~\E f : Reads(p, line, n, f)
  BY <1>0
<1>4. ASSUME n = 0 PROVE FALSE
  <2> DEFINE f == [k \in 0 .. 0 |-> NewBlock(p)]
  <2>1. f = [k \in 0 .. 0 |-> IF k = 0 THEN NewBlock(p) ELSE ParseWord(f[k - 1], line[k])]
    BY DEF f
  <2> QED
    BY <1>4, <2>1 DEF Reads
<1>5. ASSUME n > 0 PROVE FALSE
  <2>1. n - 1 \in 0 .. Len(line) /\ n - 1 \notin T
    <3>1. n - 1 \in 0 .. Len(line) /\ ~(n <= n - 1)
      BY <1>3, <1>5
    <3> QED
      BY <1>2, <3>1, Zenon
  <2>2. PICK h : Reads(p, line, n - 1, h)
    BY <2>1
  <2> DEFINE last == ParseWord(h[n - 1], line[n])
             f == [k \in 0 .. n |-> IF k < n THEN h[k] ELSE last]
  <2>3. /\ DOMAIN h = 0 .. n - 1
        /\ \A k \in 0 .. n - 1 : h[k] = IF k = 0 THEN NewBlock(p) ELSE ParseWord(h[k - 1], line[k])
    BY <2>2 DEF Reads
  <2>4. ASSUME NEW k \in 0 .. n
        PROVE  f[k] = IF k = 0 THEN NewBlock(p) ELSE ParseWord(f[k - 1], line[k])
    <3>1. CASE k < n
      BY <1>3, <2>3, <3>1
    <3>2. CASE k = n
      <4>1. f[k] = last /\ f[k - 1] = h[n - 1]
        BY <1>3, <1>5, <3>2
      <4> HIDE DEF f
      <4> QED
        BY <1>5, <3>2, <4>1
    <3> QED
      BY <1>3, <3>1, <3>2
  <2>5. f = [k \in 0 .. n |-> f[k]]
    OBVIOUS
  <2> HIDE DEF f
  <2>6. Reads(p, line, n, f)
    BY <2>4, <2>5 DEF Reads
  <2> QED
    BY <2>6
<1> QED
  BY <1>3, <1>4, <1>5

LEMMA ReadingBlock ==
  ASSUME NEW p, IsModal(p.modal), NEW line \in Seq(Words)
  PROVE  IsBlock(p, Reading(p, line)[Len(line)])
<1> DEFINE f == Reading(p, line)
<1>1. Reads(p, line, Len(line), f)
  BY ReadsExist DEF Reading
<1> HIDE DEF f
<1>2. \A k \in 0 .. Len(line) : f[k] = IF k = 0 THEN NewBlock(p) ELSE ParseWord(f[k - 1], line[k])
  BY <1>1 DEF Reads
<1> DEFINE T == {n \in 0 .. Len(line) : ~IsBlock(p, f[n])}
<1>3. ASSUME T # {} PROVE FALSE
  <2>0. T \in SUBSET Nat /\ \A k \in 1 .. Len(line) : line[k] \in Words
    OBVIOUS
  <2>1. PICK n \in T : \A j \in T : n <= j
    BY <1>3, <2>0, Least, Zenon
  <2>2. n \in Nat /\ n <= Len(line) /\ Len(line) \in Nat
    OBVIOUS
  <2>3. n # 0
    BY <1>2, <2>1, <2>2, NewBlockIs
  <2>4. n - 1 \in 0 .. Len(line) /\ n - 1 \notin T
    BY <2>1, <2>2, <2>3
  <2>5. IsBlock(p, f[n - 1]) /\ line[n] \in Words
    <3>1. n \in 1 .. Len(line)
      BY <2>2, <2>3
    <3> QED
      BY <2>0, <2>4, <3>1
  <2>6. f[n] = ParseWord(f[n - 1], line[n])
    BY <1>2, <2>2, <2>3
  <2> QED
    BY <2>1, <2>5, <2>6, ParseWordBlock
<1>4. Len(line) \in 0 .. Len(line)
  OBVIOUS
<1> QED
  BY <1>3, <1>4 DEF f

LEMMA ParseBlock ==
  ASSUME NEW p, IsModal(p.modal), NEW line \in Lines
  PROVE  IsBlock(p, Parse(p, line))
<1> DEFINE b == Reading(p, line)[Len(line)]
<1>1. line \in Seq(Words)
  BY GcodeAssumption DEF Words
<1>2. IsBlock(p, b)
  BY <1>1, ReadingBlock
<1>3. Parse(p, line) = IF b.axis = "none" /\ AxisWords(b) # {} THEN [b EXCEPT !.axis = "motion"]
                       ELSE b
  BY Zenon DEF Parse, Reading, Reads
<1> HIDE DEF b
<1>4. CASE b.axis = "none" /\ AxisWords(b) # {}
  <2> DEFINE c == Parse(p, line)
  <2>1. c = [b EXCEPT !.axis = "motion"]
    BY <1>3, <1>4
  <2> HIDE DEF c
  <2>2. b = [fault |-> b.fault, modal |-> b.modal, nonModal |-> b.nonModal, axis |-> b.axis,
             groups |-> b.groups, vals |-> b.vals]
    BY <1>2 DEF IsBlock
  <2>3. DOMAIN b = {"fault", "modal", "nonModal", "axis", "groups", "vals"}
    BY <2>2
  <2>4. c = [fault |-> b.fault, modal |-> b.modal, nonModal |-> b.nonModal, axis |-> "motion",
             groups |-> b.groups, vals |-> b.vals]
    BY <2>1, <2>2, <2>3
  <2>5. /\ c.fault = b.fault /\ c.modal = b.modal /\ c.nonModal = b.nonModal
        /\ c.axis = "motion" /\ c.groups = b.groups /\ c.vals = b.vals
        /\ c = [fault |-> c.fault, modal |-> c.modal, nonModal |-> c.nonModal,
                axis |-> c.axis, groups |-> c.groups, vals |-> c.vals]
    BY <2>4
  <2> QED
    BY <1>2, <1>4, <2>5 DEF IsBlock, Kinds, c
<1>5. CASE ~(b.axis = "none" /\ AxisWords(b) # {})
  BY <1>2, <1>3, <1>5
<1> QED
  BY <1>4, <1>5

-----------------------------------------------------------------------------
(* What a line comes to: it is refused, or it passes every check and is    *)
(* executed.                                                               *)

IsParser(p) ==
  /\ p = [modal |-> p.modal, feed |-> p.feed, speed |-> p.speed, position |-> p.position,
          system |-> p.system, offset |-> p.offset, tlo |-> p.tlo]
  /\ IsModal(p.modal) /\ p.feed \in Int /\ p.speed \in Int
  /\ p.position \in Vectors /\ p.system \in Vectors /\ p.offset \in Vectors /\ p.tlo \in Int

TypeInv ==
  /\ eeprom \in Memory /\ pending \in Seq(ByteWrites) /\ settings \in SettingsType
  /\ pc \in {"settings_init", "gc_init", "ready"} /\ mode \in {"idle", "check"}
  /\ reply \in Statuses /\ faults \in Nat
  /\ IsParser(gc) /\ machine \in Vectors

Passes(b, system, choice) ==
  /\ ~EarlyFault(b) /\ SystemRead(gc, b, eeprom).ok /\ ~OffsetFault(b)
  /\ ParameterRead(b, eeprom).ok /\ ~LateFault(gc, b, Target(gc, b, system), choice)
  /\ InBounds(ParserAfter(b, system, choice))
  /\ b.nonModal = "G10" => InRange(Changed(b, system))

LEMMA ModalFacts ==
  ASSUME NEW q, IsModal(q)
  PROVE  /\ DOMAIN q = Modes /\ q.system \in Range(Systems) /\ q.system \in Parameters
         /\ q.system \in Records
<1>1. DOMAIN q = Modes
  BY DEF IsModal
<1>2. q.system \in Group["system"] \cup {InitialModal["system"]}
  BY ModesIs DEF IsModal
<1>3. q.system \in Range(Systems)
  BY <1>2, SystemsFacts DEF Group, InitialModal
<1> QED
  BY <1>1, <1>3, SystemsFacts DEF Parameters

LEMMA ParameterOfFacts ==
  ASSUME NEW p, NEW b, IsBlock(p, b), ~OffsetFault(b)
  PROVE  /\ ParameterOf(b) \in Parameters \cup {"none"}
         /\ b.nonModal = "G10" => ParameterOf(b) \in Range(Systems)
         /\ b.nonModal \in {"G28", "G30"} => ParameterOf(b) = b.nonModal
         /\ "none" \notin Parameters
<1>0. "none" \notin Parameters /\ "G28" \in Parameters /\ "G30" \in Parameters
      /\ Range(Systems) \subseteq Parameters
  BY SystemsFacts DEF Parameters
<1>1. CASE b.nonModal = "G10"
  <2>1. Given(b, "P") \in Int /\ Given(b, "P") <= Len(Systems)
    BY <1>1, SystemsFacts DEF IsBlock, Given, Has, OffsetFault
  <2>2. CASE Given(b, "P") > 0
    <3>1. b.vals["P"] = Given(b, "P")
      BY <2>2 DEF Given
    <3>2. ParameterOf(b) = Systems[b.vals["P"]]
      BY <1>1, <2>2 DEF ParameterOf
    <3> QED
      BY <1>0, <1>1, <2>1, <2>2, <3>1, <3>2, SystemsFacts
  <2>3. CASE ~(Given(b, "P") > 0)
    <3>1. ParameterOf(b) = b.modal.system
      BY <1>1, <2>3 DEF ParameterOf
    <3> QED
      BY <1>0, <1>1, <3>1, ModalFacts DEF IsBlock
  <2> QED
    BY <2>2, <2>3
<1>2. CASE b.nonModal \in {"G28", "G30"}
  BY <1>0, <1>2 DEF ParameterOf
<1>3. CASE b.nonModal \notin {"G10", "G28", "G30"}
  BY <1>0, <1>3 DEF ParameterOf
<1> QED
  BY <1>1, <1>2, <1>3

LEMMA ReadsAre ==
  ASSUME TypeInv, NEW b, IsBlock(gc, b)
  PROVE  /\ SystemRead(gc, b, eeprom).data \in Vectors
         /\ ~SystemRead(gc, b, eeprom).ok =>
              /\ ~Intact(eeprom, b.modal.system)
              /\ SystemRead(gc, b, eeprom).writes = ReadCoordData(eeprom, b.modal.system).writes
         /\ ~OffsetFault(b) =>
              /\ ParameterRead(b, eeprom).data \in Vectors
              /\ ~ParameterRead(b, eeprom).ok =>
                   /\ ParameterOf(b) \in Parameters /\ ~Intact(eeprom, ParameterOf(b))
                   /\ ParameterRead(b, eeprom).writes
                        = ReadCoordData(eeprom, ParameterOf(b)).writes
<1>1. b.modal.system \in Parameters /\ eeprom \in Memory /\ gc.system \in Vectors
  BY ModalFacts DEF IsBlock, TypeInv, IsParser
<1>2. /\ SystemRead(gc, b, eeprom).data \in Vectors
      /\ ~SystemRead(gc, b, eeprom).ok =>
           /\ ~Intact(eeprom, b.modal.system)
           /\ SystemRead(gc, b, eeprom).writes = ReadCoordData(eeprom, b.modal.system).writes
  <2>1. CASE b.modal.system # gc.modal.system /\ "system" \in b.groups
    <3>1. SystemRead(gc, b, eeprom) = ReadCoordData(eeprom, b.modal.system)
      BY <2>1, Zenon DEF SystemRead
    <3> QED
      BY <1>1, <3>1, ReadFacts
  <2>2. CASE ~(b.modal.system # gc.modal.system /\ "system" \in b.groups)
    <3>1. SystemRead(gc, b, eeprom) = [ok |-> TRUE, data |-> gc.system, writes |-> <<>>]
      BY <2>2, Zenon DEF SystemRead
    <3> QED
      BY <1>1, <3>1
  <2> QED
    BY <2>1, <2>2
<1>3. ASSUME ~OffsetFault(b)
      PROVE  /\ ParameterRead(b, eeprom).data \in Vectors
             /\ ~ParameterRead(b, eeprom).ok =>
                  /\ ParameterOf(b) \in Parameters /\ ~Intact(eeprom, ParameterOf(b))
                  /\ ParameterRead(b, eeprom).writes
                       = ReadCoordData(eeprom, ParameterOf(b)).writes
  <2>1. CASE ParameterOf(b) = "none"
    <3>1. ParameterRead(b, eeprom) = [ok |-> TRUE, data |-> ZeroVector, writes |-> <<>>]
      BY <2>1, Zenon DEF ParameterRead
    <3> QED
      BY <3>1, ZeroFacts
  <2>2. CASE ParameterOf(b) # "none"
    <3>1. ParameterRead(b, eeprom) = ReadCoordData(eeprom, ParameterOf(b))
      BY <2>2, Zenon DEF ParameterRead
    <3>2. ParameterOf(b) \in Parameters
      BY <1>3, <2>2, ParameterOfFacts
    <3> QED
      BY <1>1, <3>1, <3>2, ReadFacts
  <2> QED
    BY <2>1, <2>2
<1> QED
  BY <1>2, <1>3

LEMMA LineOutcome ==
  ASSUME TypeInv, NEW line \in Lines, NEW choice \in BOOLEAN, ExecuteLine(line, choice)
  PROVE  \/ Refuse("error", <<>>)
         \/ \E r \in Parameters : /\ ~Intact(eeprom, r)
                                  /\ Refuse("readfail", ReadCoordData(eeprom, r).writes)
         \/ \E b, system : /\ IsBlock(gc, b) /\ system = SystemRead(gc, b, eeprom).data
                           /\ Passes(b, system, choice) /\ Execute(b, system, choice)
<1> DEFINE b == Parse(gc, line)
           read == SystemRead(gc, b, eeprom)
           param == ParameterRead(b, eeprom)
           target == Target(gc, b, read.data)
<1>1. IsBlock(gc, b)
  BY ParseBlock DEF TypeInv, IsParser
<1>2. b.modal.system \in Parameters
  BY <1>1, ModalFacts DEF IsBlock
<1>3. IF EarlyFault(b) THEN Refuse("error", <<>>)
      ELSE IF ~read.ok THEN Refuse("readfail", read.writes)
      ELSE IF OffsetFault(b) THEN Refuse("error", <<>>)
      ELSE IF ~param.ok THEN Refuse("readfail", param.writes)
      ELSE IF LateFault(gc, b, target, choice) THEN Refuse("error", <<>>)
      ELSE /\ InBounds(ParserAfter(b, read.data, choice))
           /\ b.nonModal = "G10" => InRange(Changed(b, read.data))
           /\ Execute(b, read.data, choice)
  BY Zenon DEF ExecuteLine
<1>4. /\ ~read.ok => ~Intact(eeprom, b.modal.system)
                     /\ read.writes = ReadCoordData(eeprom, b.modal.system).writes
      /\ ~OffsetFault(b) /\ ~param.ok =>
            /\ ParameterOf(b) \in Parameters /\ ~Intact(eeprom, ParameterOf(b))
            /\ param.writes = ReadCoordData(eeprom, ParameterOf(b)).writes
  BY <1>1, ReadsAre
<1>5. CASE EarlyFault(b) \/ (read.ok /\ OffsetFault(b))
           \/ (read.ok /\ ~OffsetFault(b) /\ param.ok /\ LateFault(gc, b, target, choice))
  BY <1>3, <1>5, Zenon
<1>6. CASE ~EarlyFault(b) /\ ~read.ok
  BY <1>2, <1>3, <1>4, <1>6, Zenon
<1>7. CASE ~EarlyFault(b) /\ read.ok /\ ~OffsetFault(b) /\ ~param.ok
  BY <1>3, <1>4, <1>7, Zenon
<1>8. CASE ~EarlyFault(b) /\ read.ok /\ ~OffsetFault(b) /\ param.ok
           /\ ~LateFault(gc, b, target, choice)
  <2>1. Passes(b, read.data, choice) /\ Execute(b, read.data, choice)
    BY <1>3, <1>8, Zenon DEF Passes
  <2> QED
    BY <1>1, <2>1, Zenon
<1> QED
  BY <1>5, <1>6, <1>7, <1>8, Zenon

(* The numbers of a block, and of the parser after it.                     *)
LEMMA ValueTypes ==
  ASSUME NEW p, IsParser(p), NEW b, IsBlock(p, b)
  PROVE  /\ AxisWords(b) \subseteq Axes
         /\ \A l \in Letters : Given(b, l) \in Int
         /\ \A l \in DOMAIN b.vals : Scaled(b, b.vals[l]) \in Int
         /\ \A a \in AxisWords(b) : Coordinate(b, a) \in Int
         /\ \A a \in Axes : ToolOffset(p, a) \in Int
         /\ Feed(p, b) \in Int /\ Speed(p, b) \in Int
<1>1. DOMAIN b.vals \subseteq Letters /\ \A l \in DOMAIN b.vals : b.vals[l] \in Int
  BY DEF IsBlock
<1>2. AxisWords(b) \subseteq Axes /\ AxisWords(b) \subseteq DOMAIN b.vals
  BY DEF AxisWords
<1>3. \A v \in Int : Scaled(b, v) \in Int
  <2>1. ASSUME NEW v \in Int PROVE v * MmPerInch \in Int
    BY MmPerInchAssumption
  <2> QED
    BY <2>1 DEF Scaled
<1>4. \A l \in DOMAIN b.vals : Scaled(b, b.vals[l]) \in Int
  BY <1>1, <1>3
<1>5. \A l \in Letters : Given(b, l) \in Int
  BY <1>1 DEF Given, Has
<1>6. \A a \in AxisWords(b) : Coordinate(b, a) \in Int
  BY <1>2, <1>4 DEF Coordinate
<1>7. \A a \in Axes : ToolOffset(p, a) \in Int
  BY DEF ToolOffset, IsParser
<1>8. Speed(p, b) \in Int
  BY <1>1 DEF Speed, Has, IsParser
<1>9. Feed(p, b) \in Int
  <2> DEFINE modes == b.modal.feed = "G94" /\ p.modal.feed = "G94"
  <2>1. CASE modes /\ Has(b, "F")
    <3>1. Feed(p, b) = Scaled(b, b.vals["F"])
      BY <2>1 DEF Feed
    <3> QED
      BY <1>4, <2>1, <3>1 DEF Has
  <2>2. CASE modes /\ ~Has(b, "F")
    <3>1. Feed(p, b) = p.feed
      BY <2>2 DEF Feed
    <3> QED
      BY <3>1 DEF IsParser
  <2>3. CASE ~modes
    <3>1. Feed(p, b) = Given(b, "F")
      BY <2>3 DEF Feed
    <3>2. "F" \in Letters
      BY DEF Letters
    <3> QED
      BY <1>5, <3>1, <3>2
  <2> QED
    BY <2>1, <2>2, <2>3
<1> QED
  BY <1>2, <1>4, <1>5, <1>6, <1>7, <1>8, <1>9

LEMMA TargetType ==
  ASSUME NEW p, IsParser(p), NEW b, IsBlock(p, b), NEW system \in Vectors
  PROVE  /\ Target(p, b, system) \in Vectors
         /\ \A a \in AxisWords(b) : b.nonModal # "G53" /\ b.modal.distance = "G90" =>
               Target(p, b, system)[a]
                 = Coordinate(b, a) + system[a] + p.offset[a] + ToolOffset(p, a)
<1>1. ASSUME NEW a \in Axes
      PROVE  /\ p.position[a] \in Int /\ system[a] \in Int /\ p.offset[a] \in Int
             /\ ToolOffset(p, a) \in Int
             /\ a \in AxisWords(b) => Coordinate(b, a) \in Int
  BY <1>1, ValueTypes DEF IsParser, Vectors
<1>2. ASSUME NEW a \in Axes
      PROVE  /\ Target(p, b, system)[a] \in Int
             /\ a \in AxisWords(b) /\ b.nonModal # "G53" /\ b.modal.distance = "G90" =>
                  Target(p, b, system)[a]
                    = Coordinate(b, a) + system[a] + p.offset[a] + ToolOffset(p, a)
  <2>1. CASE a \notin AxisWords(b)
    BY <1>1, <2>1 DEF Target
  <2>2. CASE a \in AxisWords(b) /\ b.nonModal = "G53"
    BY <1>1, <2>2 DEF Target
  <2>3. CASE a \in AxisWords(b) /\ b.nonModal # "G53" /\ b.modal.distance = "G90"
    <3>1. Target(p, b, system)[a]
            = Coordinate(b, a) + system[a] + p.offset[a] + ToolOffset(p, a)
      BY <2>3 DEF Target
    <3> QED
      BY <1>1, <2>3, <3>1
  <2>4. CASE a \in AxisWords(b) /\ b.nonModal # "G53" /\ b.modal.distance # "G90"
    <3>1. Target(p, b, system)[a] = Coordinate(b, a) + p.position[a]
      BY <2>4 DEF Target
    <3> QED
      BY <1>1, <2>4, <3>1
  <2> QED
    BY <2>1, <2>2, <2>3, <2>4
<1>3. Target(p, b, system) = [a \in Axes |-> Target(p, b, system)[a]]
  BY DEF Target
<1>4. AxisWords(b) \subseteq Axes
  BY DEF AxisWords
<1> QED
  BY <1>2, <1>3, <1>4 DEF Vectors

LEMMA ChangedTypes ==
  ASSUME NEW p, IsParser(p), NEW b, IsBlock(p, b), NEW v \in Vectors
  PROVE  /\ ChangedSystem(p, b, v) \in Vectors /\ ChangedOffset(p, b, v) \in Vectors
         /\ \A a \in AxisWords(b) :
              /\ b.vals["L"] = 20 => ChangedSystem(p, b, v)[a]
                   = p.position[a] - p.offset[a] - Coordinate(b, a) - ToolOffset(p, a)
              /\ ChangedOffset(p, b, v)[a]
                   = p.position[a] - v[a] - Coordinate(b, a) - ToolOffset(p, a)
<1>1. ASSUME NEW a \in Axes
      PROVE  /\ p.position[a] \in Int /\ v[a] \in Int /\ p.offset[a] \in Int
             /\ ToolOffset(p, a) \in Int
             /\ a \in AxisWords(b) => Coordinate(b, a) \in Int
  BY <1>1, ValueTypes DEF IsParser, Vectors
<1>2. ASSUME NEW a \in Axes PROVE ChangedSystem(p, b, v)[a] \in Int
  <2>1. CASE a \notin AxisWords(b)
    BY <1>1, <2>1 DEF ChangedSystem
  <2>2. CASE a \in AxisWords(b) /\ b.vals["L"] = 20
    BY <1>1, <2>2 DEF ChangedSystem
  <2>3. CASE a \in AxisWords(b) /\ b.vals["L"] # 20
    BY <1>1, <2>3 DEF ChangedSystem
  <2> QED
    BY <2>1, <2>2, <2>3
<1>3. ASSUME NEW a \in Axes PROVE ChangedOffset(p, b, v)[a] \in Int
  BY <1>1 DEF ChangedOffset
<1>4. /\ ChangedSystem(p, b, v) = [a \in Axes |-> ChangedSystem(p, b, v)[a]]
      /\ ChangedOffset(p, b, v) = [a \in Axes |-> ChangedOffset(p, b, v)[a]]
  BY DEF ChangedSystem, ChangedOffset
<1>5. ASSUME NEW a \in AxisWords(b)
      PROVE  /\ b.vals["L"] = 20 => ChangedSystem(p, b, v)[a]
                  = p.position[a] - p.offset[a] - Coordinate(b, a) - ToolOffset(p, a)
             /\ ChangedOffset(p, b, v)[a]
                  = p.position[a] - v[a] - Coordinate(b, a) - ToolOffset(p, a)
  <2>1. a \in Axes
    BY DEF AxisWords
  <2> QED
    BY <2>1 DEF ChangedSystem, ChangedOffset
<1> QED
  BY <1>2, <1>3, <1>4, <1>5 DEF Vectors

LEMMA StopType ==
  ASSUME TypeInv, NEW b, IsBlock(gc, b), NEW system \in Vectors, NEW probed
  PROVE  Stop(b, system, probed) \in Vectors
<1>1. Target(gc, b, system) \in Vectors /\ machine \in Vectors
  BY TargetType DEF TypeInv
<1> QED
  BY <1>1 DEF Stop

LEMMA PositionFacts ==
  ASSUME TypeInv, NEW b, IsBlock(gc, b), ~OffsetFault(b), NEW system \in Vectors, NEW choice
  PROVE  /\ PositionAfter(b, system, choice) \in Vectors
         /\ MachineAfter(b, system, choice) \in Vectors
         /\ mode = "idle" /\ gc.position = machine =>
              PositionAfter(b, system, choice) = MachineAfter(b, system, choice)
<1>1. /\ ParameterRead(b, eeprom).data \in Vectors
      /\ \A probed : Stop(b, system, probed) \in Vectors
      /\ machine \in Vectors /\ gc.position \in Vectors
  BY ReadsAre, StopType DEF TypeInv, IsParser
<1> DEFINE home == ParameterRead(b, eeprom).data
           stop == Stop(b, system, choice /\ mode # "check")
<1>2. CASE b.nonModal \in {"G28", "G30"}
  <2>1. PositionAfter(b, system, choice) = home
    BY <1>2 DEF PositionAfter
  <2>2. MachineAfter(b, system, choice) = IF mode = "check" THEN machine ELSE home
    BY <1>2 DEF MachineAfter
  <2> QED
    BY <1>1, <2>1, <2>2
<1>3. CASE b.nonModal \notin {"G28", "G30"} /\ Moves(b)
  <2>1. PositionAfter(b, system, choice) = stop
    BY <1>3 DEF PositionAfter
  <2>2. MachineAfter(b, system, choice)
          = IF mode = "check" THEN machine ELSE Stop(b, system, choice)
    BY <1>3 DEF MachineAfter
  <2>3. mode # "check" => stop = Stop(b, system, choice)
    BY DEF Stop
  <2> QED
    BY <1>1, <2>1, <2>2, <2>3
<1>4. CASE b.nonModal \notin {"G28", "G30"} /\ ~Moves(b)
  <2>1. PositionAfter(b, system, choice) = gc.position
    BY <1>4 DEF PositionAfter
  <2>2. MachineAfter(b, system, choice) = machine
    BY <1>4 DEF MachineAfter
  <2> QED
    BY <1>1, <2>1, <2>2
<1> QED
  BY <1>2, <1>3, <1>4

LEMMA ParserAfterType ==
  ASSUME TypeInv, NEW b, IsBlock(gc, b), ~OffsetFault(b), ~EarlyFault(b),
         NEW system \in Vectors, NEW choice
  PROVE  /\ Changed(b, system) \in Vectors
         /\ IsParser(ParserAfter(b, system, choice))
<1>1. IsParser(gc) /\ IsModal(b.modal)
  BY DEF TypeInv, IsBlock
<1>2. Feed(gc, b) \in Int /\ Speed(gc, b) \in Int
  BY <1>1, ValueTypes
<1>3. PositionAfter(b, system, choice) \in Vectors
  BY PositionFacts
<1>4. Changed(b, system) \in Vectors /\ ChangedOffset(gc, b, system) \in Vectors
  BY <1>1, ReadsAre, ChangedTypes DEF Changed
<1>5. SystemAfter(b, system) \in Vectors
  BY <1>4 DEF SystemAfter
<1>6. OffsetAfter(b, system) \in Vectors
  <2>1. gc.offset \in Vectors
    BY <1>1 DEF IsParser
  <2> QED
    BY <1>4, <2>1, ZeroFacts DEF OffsetAfter
<1>7. ToolLengthAfter(b) \in Int
  <2>1. CASE b.axis # "length" \/ b.modal.length # "G43.1"
    BY <1>1, <2>1 DEF ToolLengthAfter, IsParser
  <2>2. CASE b.axis = "length" /\ b.modal.length = "G43.1"
    <3>1. ToolAxis \in AxisWords(b)
      BY <2>2 DEF EarlyFault
    <3>2. Coordinate(b, ToolAxis) \in Int
      BY <1>1, <3>1, ValueTypes
    <3> QED
      BY <2>2, <3>2 DEF ToolLengthAfter
  <2> QED
    BY <2>1, <2>2
<1> DEFINE p == ParserAfter(b, system, choice)
<1>8. /\ p.modal = b.modal /\ p.feed = Feed(gc, b) /\ p.speed = Speed(gc, b)
      /\ p.position = PositionAfter(b, system, choice) /\ p.system = SystemAfter(b, system)
      /\ p.offset = OffsetAfter(b, system) /\ p.tlo = ToolLengthAfter(b)
      /\ p = [modal |-> p.modal, feed |-> p.feed, speed |-> p.speed, position |-> p.position,
              system |-> p.system, offset |-> p.offset, tlo |-> p.tlo]
  BY DEF ParserAfter
<1> HIDE DEF p
<1> QED
  BY <1>1, <1>2, <1>3, <1>4, <1>5, <1>6, <1>7, <1>8 DEF IsParser, p

(* What step 19 writes, and the vector it leaves in use.                   *)
Stored(b, system) == Written(eeprom, BlockWrites(b, system))

LEMMA SystemReadStored ==
  ASSUME TypeInv, NEW b, IsBlock(gc, b),
         gc.system = ReadCoordData(eeprom, gc.modal.system).data
  PROVE  SystemRead(gc, b, eeprom).data = ReadCoordData(eeprom, b.modal.system).data
<1>1. CASE b.modal.system # gc.modal.system /\ "system" \in b.groups
  BY <1>1, Zenon DEF SystemRead
<1>2. CASE ~(b.modal.system # gc.modal.system /\ "system" \in b.groups)
  <2>1. SystemRead(gc, b, eeprom) = [ok |-> TRUE, data |-> gc.system, writes |-> <<>>]
    BY <1>2, Zenon DEF SystemRead
  <2>2. b.modal.system = gc.modal.system
    BY <1>2 DEF IsBlock
  <2> QED
    BY <2>1, <2>2
<1> QED
  BY <1>1, <1>2

LEMMA BlockWritesFacts ==
  ASSUME TypeInv, NEW b, IsBlock(gc, b), NEW system \in Vectors, NEW choice,
         Passes(b, system, choice)
  PROVE  LET ws == BlockWrites(b, system)
             m  == Stored(b, system)
         IN  /\ ws \in Seq(ByteWrites) /\ m \in Memory
             /\ \A k \in DOMAIN ws : ws[k].record \in Parameters
             /\ \A q \in Parameters : Intact(eeprom, q) => Intact(m, q)
             /\ system = ReadCoordData(eeprom, b.modal.system).data =>
                  SystemAfter(b, system) = ReadCoordData(m, b.modal.system).data
<1> DEFINE ws == BlockWrites(b, system)
           m  == Written(eeprom, ws)
           r  == CASE b.nonModal = "G10" -> ParameterOf(b)
                   [] b.nonModal = "G28.1" -> "G28"
                   [] OTHER -> "G30"
           v  == IF b.nonModal = "G10" THEN Changed(b, system) ELSE gc.position
<1>1. eeprom \in Memory /\ gc.position \in Vectors
  BY DEF TypeInv, IsParser
<1>2. ~OffsetFault(b) /\ ~EarlyFault(b)
  BY DEF Passes
<1>3. b.modal.system \in Range(Systems) /\ b.modal.system \in Parameters
  BY ModalFacts DEF IsBlock
<1>4. CASE b.nonModal \in {"G10", "G28.1", "G30.1"}
  <2>1. r \in Parameters /\ v \in Vectors
    <3>1. "G28" \in Parameters /\ "G30" \in Parameters /\ Range(Systems) \subseteq Parameters
      BY DEF Parameters
    <3>2. b.nonModal = "G10" => ParameterOf(b) \in Range(Systems)
      BY <1>2, ParameterOfFacts
    <3>3. Changed(b, system) \in Vectors
      BY <1>2, ParserAfterType
    <3> QED
      BY <1>1, <3>1, <3>2, <3>3
  <2>2. ws = WriteCoordData(r, v)
    <3>1. CASE b.nonModal = "G10"
      BY <3>1 DEF BlockWrites
    <3>2. CASE b.nonModal = "G28.1"
      BY <3>2 DEF BlockWrites
    <3>3. CASE b.nonModal = "G30.1"
      BY <3>3 DEF BlockWrites
    <3> QED
      BY <1>4, <3>1, <3>2, <3>3
  <2>3. /\ ws \in Seq(ByteWrites) /\ m \in Memory
        /\ \A k \in DOMAIN ws : ws[k].record = r
        /\ Intact(m, r)
        /\ \A q \in Records \ {r} : m[q] = eeprom[q]
        /\ InRange(v) => Decode(Data(m, r)) = v
    BY <1>1, <2>1, <2>2, CoordWritten
  <2>4. (b.nonModal = "G10" => r = ParameterOf(b) /\ v = Changed(b, system))
        /\ (b.nonModal # "G10" => r \in {"G28", "G30"})
    OBVIOUS
  <2> HIDE DEF ws, m, r, v
  <2>5. \A q \in Parameters : Intact(eeprom, q) => Intact(m, q)
    <3>1. ASSUME NEW q \in Parameters, q # r PROVE Intact(m, q) = Intact(eeprom, q)
      <4>1. m[q] = eeprom[q]
        BY <2>3, <3>1, SystemsFacts
      <4> QED
        BY <4>1, ReadSame
    <3> QED
      BY <2>3, <3>1
  <2>6. ASSUME system = ReadCoordData(eeprom, b.modal.system).data
        PROVE  SystemAfter(b, system) = ReadCoordData(m, b.modal.system).data
    <3>1. CASE b.modal.system = r
      <4>1. b.nonModal = "G10"
        BY <1>3, <2>4, <3>1, SystemsFacts
      <4>2. ParameterOf(b) = b.modal.system /\ v = Changed(b, system)
        BY <2>4, <3>1, <4>1
      <4>3. InRange(v)
        BY <4>1, <4>2 DEF Passes
      <4>4. ReadCoordData(m, r).data = v
        BY <2>1, <2>3, <4>3, ReadFacts
      <4>5. SystemAfter(b, system) = v
        BY <4>1, <4>2 DEF SystemAfter
      <4> QED
        BY <3>1, <4>4, <4>5
    <3>2. CASE b.modal.system # r
      <4>1. m[b.modal.system] = eeprom[b.modal.system]
        BY <1>3, <2>3, <3>2, SystemsFacts
      <4>2. ReadCoordData(m, b.modal.system) = ReadCoordData(eeprom, b.modal.system)
        BY <4>1, ReadSame
      <4>3. SystemAfter(b, system) = system
        BY <2>4, <3>2 DEF SystemAfter
      <4> QED
        BY <2>6, <4>2, <4>3
    <3> QED
      BY <3>1, <3>2
  <2> QED
    BY <2>1, <2>3, <2>5, <2>6 DEF Stored, ws, m
<1>5. CASE b.nonModal \notin {"G10", "G28.1", "G30.1"}
  <2>1. ws = <<>>
    BY <1>5 DEF BlockWrites
  <2>2. m = eeprom
    BY <1>1, <2>1, WrittenNone
  <2>3. SystemAfter(b, system) = system
    BY <1>5 DEF SystemAfter
  <2>4. ws \in Seq(ByteWrites) /\ DOMAIN ws = {}
    BY <2>1
  <2> HIDE DEF ws, m
  <2> QED
    BY <1>1, <2>2, <2>3, <2>4 DEF Stored, ws, m
<1> QED
  BY <1>4, <1>5

LEMMA RunningFacts ==
  ASSUME NEW p, IsParser(p)
  PROVE  LET q == Running(p)
         IN  /\ IsParser(q)
             /\ q.speed = p.speed /\ q.position = p.position /\ q.system = p.system
             /\ q.offset = p.offset /\ q.tlo = p.tlo
             /\ q.modal.system = p.modal.system /\ q.modal.spindle = p.modal.spindle
             /\ q.modal.coolant = p.modal.coolant
<1> DEFINE q == Running(p)
           modal == [p.modal EXCEPT !.flow = "run"]
<1>1. q = [p EXCEPT !.modal = modal]
  BY DEF Running
<1>2. p = [modal |-> p.modal, feed |-> p.feed, speed |-> p.speed, position |-> p.position,
           system |-> p.system, offset |-> p.offset, tlo |-> p.tlo]
  BY DEF IsParser
<1>3. DOMAIN p = {"modal", "feed", "speed", "position", "system", "offset", "tlo"}
  BY <1>2
<1>4. IsModal(p.modal) /\ DOMAIN p.modal = Modes
  BY ModalFacts DEF IsParser
<1> HIDE DEF q
<1>5. modal = [g \in Modes |-> IF g = "flow" THEN "run" ELSE p.modal[g]]
  BY <1>4, ModesIs
<1>6. IsModal(modal)
  <2>1. InitialModal["flow"] = "run"
    BY DEF InitialModal
  <2> HIDE DEF modal
  <2> QED
    BY <1>4, <1>5, <2>1 DEF IsModal
<1>7. /\ modal.system = p.modal.system /\ modal.spindle = p.modal.spindle
      /\ modal.coolant = p.modal.coolant
  BY <1>5, ModesIs
<1> HIDE DEF modal
<1>8. q = [modal |-> modal, feed |-> p.feed, speed |-> p.speed, position |-> p.position,
           system |-> p.system, offset |-> p.offset, tlo |-> p.tlo]
  BY <1>1, <1>2, <1>3
<1>9. /\ q.modal = modal /\ q.feed = p.feed /\ q.speed = p.speed /\ q.position = p.position
      /\ q.system = p.system /\ q.offset = p.offset /\ q.tlo = p.tlo
      /\ q = [modal |-> q.modal, feed |-> q.feed, speed |-> q.speed, position |-> q.position,
              system |-> q.system, offset |-> q.offset, tlo |-> q.tlo]
  BY <1>8
<1> QED
  BY <1>6, <1>7, <1>9 DEF IsParser, q

(* The parser with the modes of a program end.                             *)
Ended(p) == [p EXCEPT !.modal = EndModal(p.modal)]

LEMMA EndedFacts ==
  ASSUME NEW p, IsParser(p)
  PROVE  LET q == Ended(p)
         IN  /\ IsParser(q)
             /\ q.speed = p.speed /\ q.position = p.position /\ q.system = p.system
             /\ q.offset = p.offset /\ q.tlo = p.tlo
             /\ q.modal.system = Systems[1] /\ q.modal.spindle = "M5"
             /\ q.modal.coolant = "M9"
             /\ q.modal.flow = p.modal.flow /\ q.modal = EndModal(q.modal)
<1> DEFINE q == Ended(p)
           modal == EndModal(p.modal)
<1>1. q = [p EXCEPT !.modal = modal]
  BY DEF Ended
<1>2. p = [modal |-> p.modal, feed |-> p.feed, speed |-> p.speed, position |-> p.position,
           system |-> p.system, offset |-> p.offset, tlo |-> p.tlo]
  BY DEF IsParser
<1>3. DOMAIN p = {"modal", "feed", "speed", "position", "system", "offset", "tlo"}
  BY <1>2
<1>4. IsModal(p.modal) /\ DOMAIN p.modal = Modes
  BY ModalFacts DEF IsParser
<1> HIDE DEF q
<1>5. modal = [g \in Modes |->
                 CASE g = "motion" -> "G1" [] g = "plane" -> "G17" [] g = "distance" -> "G90"
                   [] g = "feed" -> "G94" [] g = "system" -> Systems[1]
                   [] g = "spindle" -> "M5" [] g = "coolant" -> "M9"
                   [] OTHER -> p.modal[g]]
  BY <1>4, ModesIs DEF EndModal
<1> HIDE DEF modal
<1>6. /\ modal.system = Systems[1] /\ modal.spindle = "M5" /\ modal.coolant = "M9"
      /\ modal.motion = "G1" /\ modal.plane = "G17" /\ modal.distance = "G90"
      /\ modal.feed = "G94" /\ modal.units = p.modal.units /\ modal.length = p.modal.length
      /\ modal.flow = p.modal.flow
  BY <1>5, ModesIs
<1>7. IsModal(modal)
  <2>1. \A g \in Modes : modal[g] \in Group[g] \cup {InitialModal[g]}
    <3>1. ASSUME NEW g \in {"units", "length", "flow"}
          PROVE  modal[g] \in Group[g] \cup {InitialModal[g]}
      BY <1>4, <1>6, ModesIs DEF IsModal
    <3>2. ASSUME NEW g \in Modes \ {"units", "length", "flow"}
          PROVE  modal[g] \in Group[g] \cup {InitialModal[g]}
      BY <1>6, ModesIs, SystemsFacts DEF Group, InitialModal, Motions
    <3> QED
      BY <3>1, <3>2
  <2>2. modal = [g \in Modes |-> modal[g]]
    BY <1>5
  <2> QED
    BY <2>1, <2>2 DEF IsModal
<1>8. q = [modal |-> modal, feed |-> p.feed, speed |-> p.speed, position |-> p.position,
           system |-> p.system, offset |-> p.offset, tlo |-> p.tlo]
  BY <1>1, <1>2, <1>3
<1>9. /\ q.modal = modal /\ q.feed = p.feed /\ q.speed = p.speed /\ q.position = p.position
      /\ q.system = p.system /\ q.offset = p.offset /\ q.tlo = p.tlo
      /\ q = [modal |-> q.modal, feed |-> q.feed, speed |-> q.speed, position |-> q.position,
              system |-> q.system, offset |-> q.offset, tlo |-> q.tlo]
  BY <1>8
<1>10. EndModal(modal) = modal
  <2>1. DOMAIN modal = Modes
    BY <1>5
  <2>2. EndModal(modal) = [g \in Modes |->
                 CASE g = "motion" -> "G1" [] g = "plane" -> "G17" [] g = "distance" -> "G90"
                   [] g = "feed" -> "G94" [] g = "system" -> Systems[1]
                   [] g = "spindle" -> "M5" [] g = "coolant" -> "M9"
                   [] OTHER -> modal[g]]
    BY <1>5, <2>1, ModesIs DEF EndModal
  <2>3. \A g \in Modes : EndModal(modal)[g] = modal[g]
    BY <1>6, <2>2, ModesIs
  <2> QED
    BY <1>5, <2>2, <2>3
<1> QED
  BY <1>6, <1>7, <1>9, <1>10 DEF IsParser, q

LEMMA ReloadFacts ==
  ASSUME NEW p, IsParser(p), NEW v \in Vectors
  PROVE  LET q == [p EXCEPT !.system = v]
         IN  /\ IsParser(q)
             /\ q.speed = p.speed /\ q.position = p.position /\ q.system = v
             /\ q.offset = p.offset /\ q.tlo = p.tlo /\ q.modal = p.modal
<1> DEFINE q == [p EXCEPT !.system = v]
<1>1. p = [modal |-> p.modal, feed |-> p.feed, speed |-> p.speed, position |-> p.position,
           system |-> p.system, offset |-> p.offset, tlo |-> p.tlo]
  BY DEF IsParser
<1>2. DOMAIN p = {"modal", "feed", "speed", "position", "system", "offset", "tlo"}
  BY <1>1
<1>3. q = [modal |-> p.modal, feed |-> p.feed, speed |-> p.speed, position |-> p.position,
           system |-> v, offset |-> p.offset, tlo |-> p.tlo]
  BY <1>1, <1>2
<1> HIDE DEF q
<1>4. /\ q.modal = p.modal /\ q.feed = p.feed /\ q.speed = p.speed /\ q.position = p.position
      /\ q.system = v /\ q.offset = p.offset /\ q.tlo = p.tlo
      /\ q = [modal |-> q.modal, feed |-> q.feed, speed |-> q.speed, position |-> q.position,
              system |-> q.system, offset |-> q.offset, tlo |-> q.tlo]
  BY <1>3
<1> QED
  BY <1>4 DEF IsParser, q

(* The four ways a block ends: the program goes on; a program end in check *)
(* mode; one that reads its record; one that cannot.                       *)
Continues(b, system, choice) ==
  /\ b.modal.flow # "M2" /\ gc' = Running(ParserAfter(b, system, choice))
  /\ pins' = PinsAfter(b) /\ pending' = BlockWrites(b, system) /\ reply' = "ok"
EndsChecked(b, system, choice) ==
  /\ b.modal.flow = "M2" /\ mode = "check"
  /\ gc' = Running(Ended(ParserAfter(b, system, choice)))
  /\ pins' = PinsAfter(b) /\ pending' = BlockWrites(b, system) /\ reply' = "ok"
EndsWell(b, system, choice) ==
  /\ b.modal.flow = "M2" /\ mode # "check" /\ Intact(Stored(b, system), Systems[1])
  /\ gc' = Running([Ended(ParserAfter(b, system, choice)) EXCEPT
                      !.system = ReadCoordData(Stored(b, system), Systems[1]).data])
  /\ pins' = PinsOff /\ pending' = BlockWrites(b, system) /\ reply' = "ok"
EndFails(b, system, choice) ==
  /\ b.modal.flow = "M2" /\ mode # "check" /\ ~Intact(Stored(b, system), Systems[1])
  /\ gc' = Ended(ParserAfter(b, system, choice))
  /\ pins' = PinsAfter(b) /\ reply' = "readfail"
  /\ pending' = BlockWrites(b, system) \o ReadCoordData(Stored(b, system), Systems[1]).writes

LEMMA ExecuteOutcome ==
  ASSUME TypeInv, NEW b, IsBlock(gc, b), NEW system \in Vectors, NEW choice,
         Passes(b, system, choice), Execute(b, system, choice)
  PROVE  /\ programmed' = Said(b) /\ machine' = MachineAfter(b, system, choice)
         /\ mode' = mode /\ settings' = settings
         /\ \/ Continues(b, system, choice) \/ EndsChecked(b, system, choice)
            \/ EndsWell(b, system, choice) \/ EndFails(b, system, choice)
<1> DEFINE p == ParserAfter(b, system, choice)
           ws == BlockWrites(b, system)
<1>1. /\ programmed' = Said(b) /\ machine' = MachineAfter(b, system, choice)
      /\ IF b.modal.flow = "M2" THEN EndProgram(p, PinsAfter(b), ws)
         ELSE /\ gc' = Running(p) /\ pins' = PinsAfter(b) /\ pending' = ws /\ reply' = "ok"
      /\ mode' = mode /\ settings' = settings
  BY Zenon DEF Execute
<1>2. CASE b.modal.flow # "M2"
  BY <1>1, <1>2 DEF Continues
<1>3. CASE b.modal.flow = "M2"
  <2> DEFINE ended == Ended(p)
             read == ReadCoordData(Stored(b, system), Systems[1])
  <2>1. IF mode = "check"
        THEN /\ gc' = Running(ended) /\ pins' = PinsAfter(b)
             /\ pending' = ws /\ reply' = "ok"
        ELSE IF read.ok
        THEN /\ gc' = Running([ended EXCEPT !.system = read.data])
             /\ pins' = PinsOff /\ pending' = ws /\ reply' = "ok"
        ELSE /\ gc' = ended /\ pins' = PinsAfter(b)
             /\ pending' = ws \o read.writes /\ reply' = "readfail"
    <3>1. EndProgram(p, PinsAfter(b), ws)
      BY <1>1, <1>3
    <3> HIDE DEF p, ws
    <3> QED
      BY <3>1, Zenon DEF EndProgram, Ended, Stored, ws
  <2>2. read.ok = Intact(Stored(b, system), Systems[1])
    <3>1. Stored(b, system) \in Memory /\ Systems[1] \in Parameters
      BY BlockWritesFacts, SystemsFacts
    <3> QED
      BY <3>1, ReadFacts
  <2> HIDE DEF ended, read, p, ws
  <2>3. CASE mode = "check"
    <3>1. EndsChecked(b, system, choice)
      BY <1>3, <2>1, <2>3, Zenon DEF EndsChecked, ended, p, ws
    <3> QED
      BY <1>1, <3>1
  <2>4. CASE mode # "check" /\ read.ok
    <3>1. EndsWell(b, system, choice)
      BY <1>3, <2>1, <2>2, <2>4, Zenon DEF EndsWell, ended, p, ws, read
    <3> QED
      BY <1>1, <3>1
  <2>5. CASE mode # "check" /\ ~read.ok
    <3>1. EndFails(b, system, choice)
      BY <1>3, <2>1, <2>2, <2>5, Zenon DEF EndFails, ended, p, ws, read
    <3> QED
      BY <1>1, <3>1
  <2> QED
    BY <1>1, <2>3, <2>4, <2>5
<1> QED
  BY <1>2, <1>3

(* What any executed block leaves of the parser and of the store.          *)
LEMMA ExecuteFacts ==
  ASSUME TypeInv, NEW b, IsBlock(gc, b), NEW system \in Vectors, NEW choice,
         Passes(b, system, choice), Execute(b, system, choice)
  PROVE  /\ IsParser(gc') /\ machine' \in Vectors /\ reply' \in Statuses
         /\ gc'.position = PositionAfter(b, system, choice)
         /\ gc'.offset = OffsetAfter(b, system) /\ gc'.tlo = ToolLengthAfter(b)
         /\ gc'.speed = Speed(gc, b)
         /\ pending' \in Seq(ByteWrites)
         /\ \A k \in DOMAIN pending' : pending'[k].record \in Parameters
         /\ \A q \in Parameters : Intact(eeprom, q) => Intact(Written(eeprom, pending'), q)
<1> DEFINE p == ParserAfter(b, system, choice)
           ws == BlockWrites(b, system)
           m == Stored(b, system)
           v == ReadCoordData(m, Systems[1]).data
           rs == ReadCoordData(m, Systems[1]).writes
<1>1. ~OffsetFault(b) /\ ~EarlyFault(b)
  BY DEF Passes
<1>2. /\ IsParser(p) /\ p.position = PositionAfter(b, system, choice)
      /\ p.offset = OffsetAfter(b, system) /\ p.tlo = ToolLengthAfter(b)
      /\ p.speed = Speed(gc, b)
  BY <1>1, ParserAfterType DEF ParserAfter
<1>3. machine' \in Vectors
  BY <1>1, PositionFacts, ExecuteOutcome
<1>4. /\ ws \in Seq(ByteWrites) /\ m \in Memory /\ m = Written(eeprom, ws)
      /\ \A k \in DOMAIN ws : ws[k].record \in Parameters
      /\ \A q \in Parameters : Intact(eeprom, q) => Intact(m, q)
  BY BlockWritesFacts DEF Stored
<1>5. Systems[1] \in Parameters /\ v \in Vectors
  BY <1>4, SystemsFacts, ReadFacts
<1>6. /\ rs \in Seq(ByteWrites) /\ \A k \in DOMAIN rs : rs[k].record \in Parameters
      /\ \A q \in Parameters : Intact(m, q) => Intact(Written(m, rs), q)
  BY <1>4, <1>5, Repair
<1>7. Continues(b, system, choice) \/ EndsChecked(b, system, choice)
      \/ EndsWell(b, system, choice) \/ EndFails(b, system, choice)
  BY ExecuteOutcome
<1> HIDE DEF p, ws, m, v, rs
<1>8. /\ IsParser(Running(p)) /\ IsParser(Ended(p)) /\ IsParser(Running(Ended(p)))
      /\ IsParser([Ended(p) EXCEPT !.system = v])
      /\ IsParser(Running([Ended(p) EXCEPT !.system = v]))
  BY <1>2, <1>5, RunningFacts, EndedFacts, ReloadFacts
<1>9. /\ Running(p).position = p.position /\ Running(p).offset = p.offset
      /\ Running(p).tlo = p.tlo /\ Running(p).speed = p.speed
  BY <1>2, RunningFacts
<1>10. /\ Ended(p).position = p.position /\ Ended(p).offset = p.offset
       /\ Ended(p).tlo = p.tlo /\ Ended(p).speed = p.speed
  BY <1>2, EndedFacts
<1>11. /\ Running(Ended(p)).position = p.position /\ Running(Ended(p)).offset = p.offset
       /\ Running(Ended(p)).tlo = p.tlo /\ Running(Ended(p)).speed = p.speed
  BY <1>8, <1>10, RunningFacts
<1>12. LET q == Running([Ended(p) EXCEPT !.system = v])
       IN  q.position = p.position /\ q.offset = p.offset /\ q.tlo = p.tlo /\ q.speed = p.speed
  <2> DEFINE e == [Ended(p) EXCEPT !.system = v]
  <2>1. /\ IsParser(e) /\ e.position = p.position /\ e.offset = p.offset
        /\ e.tlo = p.tlo /\ e.speed = p.speed
    BY <1>5, <1>8, <1>10, ReloadFacts
  <2> HIDE DEF e
  <2>2. /\ Running(e).position = p.position /\ Running(e).offset = p.offset
        /\ Running(e).tlo = p.tlo /\ Running(e).speed = p.speed
    BY <2>1, RunningFacts
  <2> QED
    BY <2>2 DEF e
<1>13. CASE Continues(b, system, choice)
  BY <1>2, <1>3, <1>4, <1>8, <1>9, <1>13 DEF Continues, Statuses, p, ws
<1>14. CASE EndsChecked(b, system, choice)
  BY <1>2, <1>3, <1>4, <1>8, <1>11, <1>14 DEF EndsChecked, Statuses, p, ws
<1>15. CASE EndsWell(b, system, choice)
  <2>1. gc' = Running([Ended(p) EXCEPT !.system = v]) /\ pending' = ws /\ reply' = "ok"
    BY <1>15, Zenon DEF EndsWell, p, ws, v, m
  <2> QED
    BY <1>2, <1>3, <1>4, <1>8, <1>12, <2>1 DEF Statuses
<1>16. CASE EndFails(b, system, choice)
  <2>1. gc' = Ended(p) /\ pending' = ws \o rs /\ reply' = "readfail"
    BY <1>16, Zenon DEF EndFails, p, ws, rs, m
  <2>2. ws \o rs \in Seq(ByteWrites) /\ Written(eeprom, ws \o rs) = Written(m, rs)
    BY <1>4, <1>6, ConcatWrites, WrittenTwice DEF TypeInv
  <2>3. \A k \in DOMAIN (ws \o rs) : (ws \o rs)[k].record \in Parameters
    BY <1>4, <1>6
  <2> QED
    BY <1>2, <1>3, <1>4, <1>6, <1>8, <1>10, <2>1, <2>2, <2>3 DEF Statuses
<1> QED
  BY <1>7, <1>13, <1>14, <1>15, <1>16

-----------------------------------------------------------------------------
(* Types.                                                                  *)

LEMMA ClearedFacts ==
  ASSUME NEW v \in Vectors, machine \in Vectors
  PROVE  LET q == ClearedParser(v)
         IN  /\ IsParser(q)
             /\ q.position = machine /\ q.system = v /\ q.speed = 0
             /\ q.modal.system = Systems[1] /\ q.modal.spindle = "M5"
             /\ q.modal.coolant = "M9"
<1> DEFINE q == ClearedParser(v)
<1>1. q = [modal |-> InitialModal, feed |-> 0, speed |-> 0, position |-> machine,
           system |-> v, offset |-> ZeroVector, tlo |-> 0]
  BY DEF ClearedParser
<1> HIDE DEF q
<1>2. /\ q.modal = InitialModal /\ q.feed = 0 /\ q.speed = 0 /\ q.position = machine
      /\ q.system = v /\ q.offset = ZeroVector /\ q.tlo = 0
      /\ q = [modal |-> q.modal, feed |-> q.feed, speed |-> q.speed, position |-> q.position,
              system |-> q.system, offset |-> q.offset, tlo |-> q.tlo]
  BY <1>1
<1>3. IsModal(InitialModal)
  <2>1. InitialModal = [g \in Modes |-> InitialModal[g]]
    BY DEF Modes, InitialModal
  <2>2. \A g \in Modes : InitialModal[g] \in Group[g] \cup {InitialModal[g]}
    OBVIOUS
  <2> QED
    BY <2>1, <2>2 DEF IsModal
<1>4. /\ InitialModal.system = Systems[1] /\ InitialModal.spindle = "M5"
      /\ InitialModal.coolant = "M9"
  BY DEF InitialModal
<1> QED
  BY <1>2, <1>3, <1>4, ZeroFacts DEF IsParser, q

LEMMA ErasedFacts == Erased \in Memory /\ SoftByte(Erased["global"][2])
<1>1. ByteMod - 1 \in Byte /\ (ByteMod - 1) % 2 = 1
  BY ByteModAssumption DEF Byte
<1>2. ASSUME NEW r \in Records
      PROVE  Erased[r] \in Seq(Byte) /\ Len(Erased[r]) = Size(r)
             /\ (r = "global" => Erased[r][2] = ByteMod - 1)
  <2>1. CASE r = "version"
    <3>1. Erased[r] = <<ByteMod - 1>>
      BY <2>1 DEF Erased
    <3> QED
      BY <1>1, <2>1, <3>1 DEF Size
  <2>2. CASE r # "version"
    <3>1. Erased[r] = [i \in 1 .. 4 |-> ByteMod - 1]
      BY <2>2 DEF Erased, RecordSize
    <3> QED
      BY <1>1, <2>2, <3>1 DEF Size, RecordSize
  <2> QED
    BY <2>1, <2>2
<1>3. Erased = [r \in Records |-> Erased[r]] /\ "global" \in Records
  BY DEF Erased, Records
<1> QED
  BY <1>1, <1>2, <1>3 DEF Memory, SoftByte

(* What a settings command makes of the settings.                          *)
LEMMA StoredFacts ==
  ASSUME settings \in SettingsType, NEW command \in StoreCommands,
         ~StoreRefused(command[1], command[2])
  PROVE  LET s == StoredSettings(command[1], command[2])
         IN  /\ s \in SettingsType
             /\ (settings.soft => settings.homing) => (s.soft => s.homing)
<1> DEFINE n == command[1]
           x == command[2]
           s == StoredSettings(n, x)
<1>1. n \in {20, 22, 27, 100} /\ x \in Int /\ x < ByteMod /\ x >= 0
      /\ (n = 20 => x = 0 \/ settings.homing)
  BY GcodeAssumption DEF StoreRefused
<1>2. x \in Byte
  BY <1>1, ByteModAssumption DEF Byte
<1> HIDE DEF n, x
<1>3. CASE n = 100
  <2>1. s = [settings EXCEPT !.steps = x]
    BY <1>3 DEF StoredSettings
  <2> QED
    BY <1>2, <2>1 DEF SettingsType, n, x
<1>4. CASE n = 20
  <2>1. s = [settings EXCEPT !.soft = x # 0]
    BY <1>4 DEF StoredSettings
  <2>2. s \in SettingsType /\ s.soft = (x # 0) /\ s.homing = settings.homing
    BY <2>1 DEF SettingsType
  <2> HIDE DEF s
  <2>3. s.soft => s.homing
    BY <1>1, <1>4, <2>2
  <2> QED
    BY <2>2, <2>3 DEF n, x, s
<1>5. CASE n = 22
  <2>1. s = [settings EXCEPT !.homing = x # 0, !.soft = @ /\ x # 0]
    BY <1>5 DEF StoredSettings
  <2> QED
    BY <2>1 DEF SettingsType, n, x
<1>6. CASE n = 27
  <2>1. s = [settings EXCEPT !.pulloff = x]
    BY <1>6 DEF StoredSettings
  <2> QED
    BY <1>2, <2>1 DEF SettingsType, n, x
<1> QED
  BY <1>1, <1>3, <1>4, <1>5, <1>6

LEMMA RestoreWritesFacts ==
  ASSUME NEW what, settings \in SettingsType
  PROVE  /\ RestoredSettings(what) \in SettingsType
         /\ RestoreWrites(what) \in Seq(ByteWrites) /\ SoftWrites(RestoreWrites(what))
         /\ (settings.soft => settings.homing) =>
              (RestoredSettings(what).soft => RestoredSettings(what).homing)
         /\ what = "#" => \A mem \in Memory :
              Written(mem, RestoreWrites(what))["global"] = mem["global"]
              /\ Written(mem, RestoreWrites(what))["version"] = mem["version"]
         /\ what # "#" => \A mem \in Memory :
              /\ GlobalReadable(Written(mem, RestoreWrites(what)))
              /\ DecodeSettings(Data(Written(mem, RestoreWrites(what)), "global")) = Defaults
<1> DEFINE u == IF what = "#" THEN <<>> ELSE WriteGlobal(Defaults)
           v == IF what = "$" THEN <<>> ELSE RestoreParameters
<1>1. RestoreWrites(what) = u \o v
  BY DEF RestoreWrites
<1>2. \E mem : mem \in Memory
  BY ErasedFacts
<1>3. u \in Seq(ByteWrites) /\ SoftWrites(u)
  <2>1. WriteGlobal(Defaults) \in Seq(ByteWrites) /\ SoftWrites(WriteGlobal(Defaults))
    BY <1>2, GlobalWritten, DefaultsFacts
  <2>2. <<>> \in Seq(ByteWrites) /\ SoftWrites(<<>>)
    BY DEF SoftWrites, Hits
  <2> QED
    BY <2>1, <2>2
<1>4. /\ v \in Seq(ByteWrites)
      /\ \A k \in DOMAIN v : v[k].record \notin {"global", "version"}
  BY RestoreFacts, SystemsFacts
<1>5. SoftWrites(v)
  BY <1>4 DEF SoftWrites, Hits
<1>6. "global" \in Records /\ "version" \in Records
  BY DEF Records
<1>7. what = "#" => u = <<>>
  OBVIOUS
<1>8. what # "#" => u = WriteGlobal(Defaults)
  OBVIOUS
<1> HIDE DEF u, v
<1>9. u \o v \in Seq(ByteWrites) /\ SoftWrites(u \o v)
  BY <1>3, <1>4, <1>5, ConcatWrites
<1>10. ASSUME NEW mem \in Memory
       PROVE  /\ Written(mem, u \o v)["global"] = Written(mem, u)["global"]
              /\ Written(mem, u \o v)["version"] = Written(mem, u)["version"]
  <2>1. Written(mem, u \o v) = Written(Written(mem, u), v) /\ Written(mem, u) \in Memory
    BY <1>3, <1>4, WrittenTwice, WrittenType
  <2> QED
    BY <1>4, <1>6, <2>1, WrittenElsewhere
<1>11. ASSUME what = "#", NEW mem \in Memory
       PROVE  /\ Written(mem, u \o v)["global"] = mem["global"]
              /\ Written(mem, u \o v)["version"] = mem["version"]
  BY <1>7, <1>10, <1>11, WrittenNone
<1>12. ASSUME what # "#", NEW mem \in Memory
       PROVE  /\ GlobalReadable(Written(mem, u \o v))
              /\ DecodeSettings(Data(Written(mem, u \o v), "global")) = Defaults
  <2>1. /\ GlobalReadable(Written(mem, u))
        /\ DecodeSettings(Data(Written(mem, u), "global")) = Defaults
    BY <1>8, <1>12, GlobalWritten, DefaultsFacts
  <2>2. /\ Intact(Written(mem, u \o v), "global") = Intact(Written(mem, u), "global")
        /\ Data(Written(mem, u \o v), "global") = Data(Written(mem, u), "global")
    BY <1>10, ReadSame
  <2> QED
    BY <1>10, <2>1, <2>2 DEF GlobalReadable
<1>13. /\ RestoredSettings(what) \in SettingsType
       /\ (settings.soft => settings.homing) =>
             (RestoredSettings(what).soft => RestoredSettings(what).homing)
  BY DefaultsFacts DEF RestoredSettings
<1> QED
  BY <1>1, <1>9, <1>11, <1>12, <1>13

LEMMA TypeInit == Init => TypeInv
<1> SUFFICES ASSUME Init PROVE TypeInv
  OBVIOUS
<1>1. machine \in Vectors /\ gc = ClearedParser(ZeroVector)
  BY ZeroFacts DEF Init
<1>2. IsParser(gc)
  BY <1>1, ZeroFacts, ClearedFacts
<1>3. eeprom \in Memory /\ pending \in Seq(ByteWrites) /\ settings \in SettingsType
  BY ErasedFacts, DefaultsFacts DEF Init
<1> QED
  BY <1>1, <1>2, <1>3 DEF Init, TypeInv, Statuses

LEMMA TypeStep == TypeInv /\ [Next]_vars => TypeInv'
<1> SUFFICES ASSUME TypeInv, [Next]_vars PROVE TypeInv'
  OBVIOUS
<1>0. /\ eeprom \in Memory /\ pending \in Seq(ByteWrites) /\ settings \in SettingsType
      /\ pc \in {"settings_init", "gc_init", "ready"} /\ mode \in {"idle", "check"}
      /\ reply \in Statuses /\ faults \in Nat /\ IsParser(gc) /\ machine \in Vectors
      /\ Systems[1] \in Parameters /\ <<>> \in Seq(ByteWrites)
      /\ {"none", "ok", "error", "readfail"} \subseteq Statuses
  BY SystemsFacts DEF TypeInv, Statuses
<1>1. CASE SettingsInit
  <2>1. pending' \in Seq(ByteWrites) /\ settings' \in SettingsType
    <3>1. CASE GlobalReadable(eeprom)
      <4>1. "global" \in Records \ {"version"} /\ 1 \in 1 .. 3 /\ 2 \in 1 .. 3 /\ 3 \in 1 .. 3
        BY DEF Records
      <4>2. DecodeSettings(Data(eeprom, "global")) \in SettingsType
        BY <1>0, <4>1, DataFacts, DecodeSettingsType
      <4> QED
        BY <1>0, <1>1, <3>1, <4>2 DEF SettingsInit
    <3>2. CASE ~GlobalReadable(eeprom)
      BY <1>0, <1>1, <3>2, RestoreWritesFacts, DefaultsFacts DEF SettingsInit
    <3> QED
      BY <3>1, <3>2
  <2> QED
    BY <1>0, <1>1, <2>1 DEF SettingsInit, machineVars, TypeInv
<1>2. CASE GcInit
  <2> DEFINE read == ReadCoordData(eeprom, Systems[1])
  <2>1. read.data \in Vectors /\ read.writes \in Seq(ByteWrites)
    BY <1>0, ReadFacts
  <2>2. gc' = ClearedParser(read.data) /\ pending' = read.writes
    BY <1>2 DEF GcInit
  <2>3. IsParser(gc')
    BY <1>0, <2>1, <2>2, ClearedFacts
  <2> QED
    BY <1>0, <1>2, <2>1, <2>2, <2>3 DEF GcInit, TypeInv
<1>3. CASE Line
  <2>1. eeprom' = eeprom /\ pc' = pc /\ faults' = faults
    BY <1>3 DEF Line
  <2>2. PICK line \in Lines, choice \in BOOLEAN : ExecuteLine(line, choice)
    BY <1>3 DEF Line
  <2>3. CASE Refuse("error", <<>>)
    BY <1>0, <2>1, <2>3 DEF Refuse, Answer, machineVars, TypeInv
  <2>4. ASSUME NEW r \in Parameters, Refuse("readfail", ReadCoordData(eeprom, r).writes)
        PROVE  TypeInv'
    <3>1. ReadCoordData(eeprom, r).writes \in Seq(ByteWrites)
      BY <1>0, ReadFacts
    <3> QED
      BY <1>0, <2>1, <2>4, <3>1 DEF Refuse, Answer, machineVars, TypeInv
  <2>5. ASSUME NEW b, NEW system, IsBlock(gc, b), system = SystemRead(gc, b, eeprom).data,
               Passes(b, system, choice), Execute(b, system, choice)
        PROVE  TypeInv'
    <3>1. system \in Vectors
      BY <2>5, ReadsAre
    <3>2. /\ IsParser(gc') /\ machine' \in Vectors /\ reply' \in Statuses
          /\ pending' \in Seq(ByteWrites)
      BY <2>5, <3>1, ExecuteFacts
    <3>3. mode' = mode /\ settings' = settings
      BY <2>5, <3>1, ExecuteOutcome
    <3> QED
      BY <1>0, <2>1, <3>2, <3>3 DEF TypeInv
  <2> QED
    BY <2>2, <2>3, <2>4, <2>5, LineOutcome
<1>4. CASE StoreGlobalSetting
  <2>1. PICK command \in StoreCommands :
          IF StoreRefused(command[1], command[2]) THEN Refuse("error", <<>>)
          ELSE /\ settings' = StoredSettings(command[1], command[2])
               /\ pending' = WriteGlobal(settings')
               /\ Answer("ok")
               /\ UNCHANGED machineVars
    BY <1>4, Zenon DEF StoreGlobalSetting
  <2>2. eeprom' = eeprom /\ pc' = pc /\ faults' = faults
    BY <1>4 DEF StoreGlobalSetting
  <2>3. CASE StoreRefused(command[1], command[2])
    BY <1>0, <2>1, <2>2, <2>3 DEF Refuse, Answer, machineVars, TypeInv
  <2>4. CASE ~StoreRefused(command[1], command[2])
    <3>1. settings' \in SettingsType
      BY <1>0, <2>1, <2>4, StoredFacts
    <3>2. pending' \in Seq(ByteWrites)
      BY <1>0, <2>1, <2>4, <3>1, GlobalWritten
    <3> QED
      BY <1>0, <2>1, <2>2, <2>4, <3>1, <3>2 DEF Answer, machineVars, TypeInv
  <2> QED
    BY <2>3, <2>4
<1>5. CASE RestoreCommand
  <2>1. PICK what \in {"$", "#", "*"} : /\ settings' = RestoredSettings(what)
                                        /\ pending' = RestoreWrites(what)
    BY <1>5 DEF RestoreCommand
  <2>2. settings' \in SettingsType /\ pending' \in Seq(ByteWrites)
    BY <1>0, <2>1, RestoreWritesFacts
  <2> QED
    BY <1>0, <1>5, <2>2 DEF RestoreCommand, Restart, Answer, TypeInv
<1>6. CASE CheckCommand
  <2>1. pc' \in {"gc_init", pc} /\ mode' \in {mode, "check"}
        /\ UNCHANGED <<eeprom, pending, settings, gc, machine, faults>> /\ reply' = "ok"
    BY <1>6 DEF CheckCommand, Restart, Answer
  <2> QED
    BY <1>0, <2>1 DEF TypeInv
<1>7. CASE Reset
  BY <1>0, <1>7 DEF Reset, Restart, Answer, TypeInv
<1>8. CASE WriteByte
  <2>1. eeprom' \in Memory /\ pending' \in Seq(ByteWrites)
    BY <1>0, <1>8, WrittenStep DEF WriteByte, EepromByte
  <2> QED
    BY <1>0, <1>8, <2>1 DEF WriteByte, machineVars, TypeInv
<1>9. CASE PowerFailure
  <2>1. ClearedParser(ZeroVector) = [modal |-> InitialModal, feed |-> 0, speed |-> 0,
           position |-> machine, system |-> ZeroVector, offset |-> ZeroVector, tlo |-> 0]
    BY DEF ClearedParser
  <2>2. gc' = [modal |-> InitialModal, feed |-> 0, speed |-> 0, position |-> ZeroVector,
               system |-> ZeroVector, offset |-> ZeroVector, tlo |-> 0]
    BY <1>9, <2>1 DEF PowerFailure
  <2>3. IsParser(ClearedParser(ZeroVector))
    BY <1>0, ZeroFacts, ClearedFacts
  <2>4. IsModal(InitialModal)
    BY <2>1, <2>3 DEF IsParser
  <2>5. IsParser(gc')
    <3> HIDE DEF InitialModal
    <3>1. /\ gc'.modal = InitialModal /\ gc'.feed = 0 /\ gc'.speed = 0
          /\ gc'.position = ZeroVector /\ gc'.system = ZeroVector /\ gc'.offset = ZeroVector
          /\ gc'.tlo = 0
          /\ gc' = [modal |-> gc'.modal, feed |-> gc'.feed, speed |-> gc'.speed,
                    position |-> gc'.position, system |-> gc'.system,
                    offset |-> gc'.offset, tlo |-> gc'.tlo]
      BY <2>2
    <3> QED
      BY <2>4, <3>1, ZeroFacts DEF IsParser
  <2> QED
    BY <1>0, <1>9, <2>5, DefaultsFacts, ZeroFacts DEF PowerFailure, Answer, TypeInv
<1>10. CASE Wear
  <2>1. PICK r \in Parameters :
          eeprom' = [eeprom EXCEPT ![r][RecordSize + 1] = ByteMod - 1]
    BY <1>10 DEF Wear
  <2>2. eeprom' \in Memory
    <3>1. r \in Records /\ ByteMod - 1 \in Byte
      BY SystemsFacts, ByteModAssumption DEF Byte
    <3>2. eeprom' = [q \in Records |-> IF q = r THEN [eeprom[r] EXCEPT ![RecordSize + 1] = ByteMod - 1]
                                       ELSE eeprom[q]]
      BY <1>0, <2>1, <3>1 DEF Memory
    <3>3. [eeprom[r] EXCEPT ![RecordSize + 1] = ByteMod - 1] \in Seq(Byte)
          /\ Len([eeprom[r] EXCEPT ![RecordSize + 1] = ByteMod - 1]) = Size(r)
      <4> DEFINE q == eeprom[r]
                 e == [q EXCEPT ![RecordSize + 1] = ByteMod - 1]
      <4>1. q \in Seq(Byte) /\ Len(q) = Size(r)
        BY <1>0, <3>1 DEF Memory
      <4> HIDE DEF q
      <4>2. e \in [1 .. Len(q) -> Byte]
        <5>1. q \in [1 .. Len(q) -> Byte]
          BY <4>1
        <5> QED
          BY <3>1, <5>1
      <4>3. Len(q) \in Nat
        BY <4>1
      <4> HIDE DEF e
      <4>4. e \in Seq(Byte) /\ Len(e) = Len(q)
        BY <4>2, <4>3
      <4> QED
        BY <4>1, <4>4 DEF q, e
    <3> QED
      BY <1>0, <3>1, <3>2, <3>3 DEF Memory
  <2> QED
    BY <1>0, <1>10, <2>2 DEF Wear, machineVars, TypeInv
<1>11. CASE UNCHANGED vars
  BY <1>0, <1>11 DEF vars, machineVars, TypeInv
<1> QED
  BY <1>1, <1>2, <1>3, <1>4, <1>5, <1>6, <1>7, <1>8, <1>9, <1>10, <1>11 DEF Next

-----------------------------------------------------------------------------
(* The steps of a line and of a settings command, once and for all.        *)

LEMMA LineIs ==
  ASSUME TypeInv, Line
  PROVE  /\ pending = <<>> /\ pc = "ready" /\ UNCHANGED <<eeprom, pc, faults>>
         /\ \/ Refuse("error", <<>>)
            \/ \E r \in Parameters : /\ ~Intact(eeprom, r)
                                     /\ Refuse("readfail", ReadCoordData(eeprom, r).writes)
            \/ \E b, system, choice : /\ IsBlock(gc, b) /\ system \in Vectors
                                      /\ system = SystemRead(gc, b, eeprom).data
                                      /\ Passes(b, system, choice)
                                      /\ Execute(b, system, choice)
<1>1. pending = <<>> /\ pc = "ready" /\ UNCHANGED <<eeprom, pc, faults>>
  BY DEF Line, Ready
<1>2. PICK line \in Lines, choice \in BOOLEAN : ExecuteLine(line, choice)
  BY DEF Line
<1>3. ASSUME NEW b, NEW system, IsBlock(gc, b), system = SystemRead(gc, b, eeprom).data
      PROVE  system \in Vectors
  BY <1>3, ReadsAre
<1>4. \/ Refuse("error", <<>>)
      \/ \E r \in Parameters : /\ ~Intact(eeprom, r)
                               /\ Refuse("readfail", ReadCoordData(eeprom, r).writes)
      \/ \E b, system : /\ IsBlock(gc, b) /\ system = SystemRead(gc, b, eeprom).data
                        /\ Passes(b, system, choice) /\ Execute(b, system, choice)
  BY <1>2, LineOutcome
<1> QED
  BY <1>1, <1>3, <1>4, Zenon

LEMMA StoreIs ==
  ASSUME TypeInv, StoreGlobalSetting
  PROVE  /\ pending = <<>> /\ pc = "ready" /\ UNCHANGED <<eeprom, pc, machineVars, faults>>
         /\ programmed' = <<>>
         /\ \/ settings' = settings /\ pending' = <<>> /\ reply' = "error"
            \/ /\ settings' \in SettingsType /\ pending' = WriteGlobal(settings')
               /\ (settings.soft => settings.homing) => (settings'.soft => settings'.homing)
               /\ reply' = "ok"
<1>1. pending = <<>> /\ pc = "ready" /\ UNCHANGED <<eeprom, pc, faults>>
  BY DEF StoreGlobalSetting, Ready
<1>2. PICK command \in StoreCommands :
        IF StoreRefused(command[1], command[2]) THEN Refuse("error", <<>>)
        ELSE /\ settings' = StoredSettings(command[1], command[2])
             /\ pending' = WriteGlobal(settings')
             /\ Answer("ok")
             /\ UNCHANGED machineVars
  BY Zenon DEF StoreGlobalSetting
<1>3. CASE StoreRefused(command[1], command[2])
  BY <1>1, <1>2, <1>3 DEF Refuse, Answer
<1>4. CASE ~StoreRefused(command[1], command[2])
  BY <1>1, <1>2, <1>4, StoredFacts DEF Answer, TypeInv
<1> QED
  BY <1>3, <1>4

-----------------------------------------------------------------------------
(* The parser's position.                                                  *)

PositionInv == pc = "ready" /\ mode = "idle" => gc.position = machine

LEMMA PositionStep == TypeInv /\ PositionInv /\ [Next]_vars => PositionInv'
<1> SUFFICES ASSUME TypeInv, PositionInv, [Next]_vars PROVE PositionInv'
  OBVIOUS
<1>1. CASE SettingsInit
  BY <1>1 DEF SettingsInit, PositionInv
<1>2. CASE GcInit
  BY <1>2 DEF GcInit, ClearedParser, PositionInv
<1>3. CASE Line
  <2>1. UNCHANGED pc /\ pc = "ready"
    BY <1>3, LineIs
  <2>2. ASSUME NEW status, NEW writes, Refuse(status, writes) PROVE PositionInv'
    BY <2>1, <2>2 DEF Refuse, machineVars, PositionInv
  <2>3. ASSUME NEW b, NEW system \in Vectors, NEW choice, IsBlock(gc, b),
               Passes(b, system, choice), Execute(b, system, choice)
        PROVE  PositionInv'
    <3>1. ~OffsetFault(b)
      BY <2>3 DEF Passes
    <3>2. mode' = mode /\ machine' = MachineAfter(b, system, choice)
      BY <2>3, ExecuteOutcome
    <3>3. gc'.position = PositionAfter(b, system, choice)
      BY <2>3, ExecuteFacts
    <3> QED
      BY <2>1, <2>3, <3>1, <3>2, <3>3, PositionFacts DEF PositionInv
  <2> QED
    BY <1>3, <2>2, <2>3, LineIs
<1>4. CASE StoreGlobalSetting
  BY <1>4, StoreIs DEF machineVars, PositionInv
<1>5. CASE RestoreCommand
  BY <1>5 DEF RestoreCommand, Restart, PositionInv
<1>6. CASE CheckCommand
  BY <1>6 DEF CheckCommand, Restart, PositionInv
<1>7. CASE Reset
  BY <1>7 DEF Reset, Restart, PositionInv
<1>8. CASE WriteByte
  BY <1>8 DEF WriteByte, machineVars, PositionInv
<1>9. CASE PowerFailure
  BY <1>9 DEF PowerFailure, PositionInv
<1>10. CASE Wear
  BY <1>10 DEF Wear, machineVars, PositionInv
<1>11. CASE UNCHANGED vars
  BY <1>11 DEF vars, machineVars, PositionInv
<1> QED
  BY <1>1, <1>2, <1>3, <1>4, <1>5, <1>6, <1>7, <1>8, <1>9, <1>10, <1>11 DEF Next

-----------------------------------------------------------------------------
(* The memory once the writes that are on their way have been made.        *)

After == Written(eeprom, pending)

LEMMA AfterFacts ==
  ASSUME TypeInv
  PROVE  /\ After \in Memory /\ (pending = <<>> => After = eeprom)
         /\ WriteByte => After' = After
<1>1. eeprom \in Memory /\ pending \in Seq(ByteWrites)
  BY DEF TypeInv
<1>2. ASSUME WriteByte PROVE After' = After
  BY <1>1, <1>2, WrittenStep DEF WriteByte, EepromByte, After
<1> QED
  BY <1>1, <1>2, WrittenType, WrittenNone DEF After

LEMMA ParameterWrites ==
  ASSUME NEW mem \in Memory, NEW ws \in Seq(ByteWrites),
         \A k \in DOMAIN ws : ws[k].record \in Parameters
  PROVE  /\ GlobalReadable(Written(mem, ws)) = GlobalReadable(mem)
         /\ Data(Written(mem, ws), "global") = Data(mem, "global")
         /\ SoftWrites(ws)
<1>1. \A k \in DOMAIN ws : ws[k].record \notin {"global", "version"}
  BY SystemsFacts
<1>2. "global" \in Records /\ "version" \in Records
  BY DEF Records
<1>3. /\ Written(mem, ws)["global"] = mem["global"]
      /\ Written(mem, ws)["version"] = mem["version"]
  BY <1>1, <1>2, WrittenElsewhere
<1>4. SoftWrites(ws)
  BY <1>1 DEF SoftWrites, Hits
<1>5. /\ Intact(Written(mem, ws), "global") = Intact(mem, "global")
      /\ Data(Written(mem, ws), "global") = Data(mem, "global")
  BY <1>3, ReadSame
<1>6. GlobalReadable(Written(mem, ws)) = GlobalReadable(mem)
  BY <1>3, <1>5 DEF GlobalReadable
<1> QED
  BY <1>4, <1>5, <1>6

(* G54's record is intact, and the vector in use is the one stored for the *)
(* selected system, counting the writes on their way.                      *)
IntactInv == pc = "ready" /\ faults = 0 => Intact(After, Systems[1])
ActiveInv ==
  pc = "ready" /\ mode = "idle" /\ faults = 0 =>
    gc.system = ReadCoordData(After, gc.modal.system).data

(* How a block ends when G54 can be read.                                  *)
LEMMA EndsAre ==
  ASSUME TypeInv, NEW b, IsBlock(gc, b), NEW system \in Vectors, NEW choice,
         Passes(b, system, choice), Execute(b, system, choice),
         pending = <<>>, pc = "ready", IntactInv, faults = 0, mode = "idle"
  PROVE  Continues(b, system, choice) \/ EndsWell(b, system, choice)
<1>1. After = eeprom
  BY AfterFacts
<1>2. Intact(eeprom, Systems[1]) /\ Systems[1] \in Parameters
  BY <1>1, SystemsFacts DEF IntactInv
<1>3. Intact(Stored(b, system), Systems[1])
  BY <1>2, BlockWritesFacts
<1>4. ~EndsChecked(b, system, choice) /\ ~EndFails(b, system, choice)
  BY <1>3 DEF EndsChecked, EndFails
<1> QED
  BY <1>4, ExecuteOutcome

LEMMA StoreStep == TypeInv /\ IntactInv /\ ActiveInv /\ [Next]_vars => IntactInv' /\ ActiveInv'
<1> SUFFICES ASSUME TypeInv, IntactInv, ActiveInv, [Next]_vars PROVE IntactInv' /\ ActiveInv'
  OBVIOUS
<1>0. /\ eeprom \in Memory /\ After \in Memory /\ Systems[1] \in Parameters
      /\ gc.modal.system \in Parameters /\ faults \in Nat
      /\ After' = Written(eeprom', pending')
  BY AfterFacts, SystemsFacts, ModalFacts DEF TypeInv, IsParser, After
<1>1. CASE SettingsInit
  BY <1>1 DEF SettingsInit, IntactInv, ActiveInv
<1>2. CASE GcInit
  <2> DEFINE read == ReadCoordData(eeprom, Systems[1])
  <2>1. gc' = ClearedParser(read.data) /\ pending' = read.writes /\ eeprom' = eeprom
    BY <1>2 DEF GcInit
  <2>2. read.data \in Vectors
    BY <1>0, ReadFacts
  <2>3. gc'.system = read.data /\ gc'.modal.system = Systems[1]
    BY <2>1, <2>2, ClearedFacts DEF TypeInv
  <2>4. Intact(After', Systems[1]) /\ ReadCoordData(After', Systems[1]).data = read.data
    BY <1>0, <2>1, Repair
  <2> QED
    BY <2>3, <2>4 DEF IntactInv, ActiveInv
<1>3. CASE Line
  <2>1. UNCHANGED <<eeprom, pc, faults>> /\ pc = "ready" /\ pending = <<>> /\ After = eeprom
    BY <1>3, LineIs, AfterFacts
  <2>2. CASE Refuse("error", <<>>)
    <3>1. gc' = gc /\ mode' = mode /\ After' = After
      BY <1>0, <2>1, <2>2, WrittenNone DEF Refuse, machineVars
    <3> QED
      BY <2>1, <3>1 DEF IntactInv, ActiveInv
  <2>3. ASSUME NEW r \in Parameters, Refuse("readfail", ReadCoordData(eeprom, r).writes)
        PROVE  IntactInv' /\ ActiveInv'
    <3>1. gc' = gc /\ mode' = mode /\ After' = Written(eeprom, ReadCoordData(eeprom, r).writes)
      BY <1>0, <2>1, <2>3 DEF Refuse, machineVars
    <3>2. /\ Intact(eeprom, Systems[1]) => Intact(After', Systems[1])
          /\ ReadCoordData(After', gc.modal.system).data
               = ReadCoordData(eeprom, gc.modal.system).data
      <4> DEFINE m == Written(eeprom, ReadCoordData(eeprom, r).writes)
      <4>1. /\ \A q \in Parameters : ReadCoordData(m, q).data = ReadCoordData(eeprom, q).data
            /\ \A q \in Parameters : Intact(eeprom, q) => Intact(m, q)
        BY <1>0, <2>3, Repair
      <4> HIDE DEF m
      <4> QED
        BY <1>0, <3>1, <4>1 DEF m
    <3> QED
      BY <2>1, <3>1, <3>2 DEF IntactInv, ActiveInv
  <2>4. ASSUME NEW b, NEW system \in Vectors, NEW choice, IsBlock(gc, b),
               system = SystemRead(gc, b, eeprom).data,
               Passes(b, system, choice), Execute(b, system, choice)
        PROVE  IntactInv' /\ ActiveInv'
    <3>1. Intact(eeprom, Systems[1]) => Intact(After', Systems[1])
      BY <1>0, <2>1, <2>4, ExecuteFacts
    <3>2. IntactInv'
      BY <2>1, <3>1 DEF IntactInv
    <3>3. mode' = mode
      BY <2>4, ExecuteOutcome
    <3>4. ASSUME mode = "idle", faults = 0
          PROVE  gc'.system = ReadCoordData(After', gc'.modal.system).data
      <4> DEFINE p == ParserAfter(b, system, choice)
                 v == ReadCoordData(Stored(b, system), Systems[1]).data
      <4>1. Continues(b, system, choice) \/ EndsWell(b, system, choice)
        BY <2>1, <2>4, <3>4, EndsAre
      <4>2. IsParser(p) /\ p.modal = b.modal /\ p.system = SystemAfter(b, system)
        <5>1. ~OffsetFault(b) /\ ~EarlyFault(b)
          BY <2>4 DEF Passes
        <5> QED
          BY <2>4, <5>1, ParserAfterType DEF ParserAfter
      <4>3. system = ReadCoordData(eeprom, b.modal.system).data
        BY <2>1, <2>4, <3>4, SystemReadStored DEF ActiveInv
      <4>4. /\ SystemAfter(b, system) = ReadCoordData(Stored(b, system), b.modal.system).data
            /\ Stored(b, system) \in Memory
        BY <2>4, <4>3, BlockWritesFacts
      <4> HIDE DEF p, v
      <4>5. CASE Continues(b, system, choice)
        <5>1. gc' = Running(p) /\ After' = Stored(b, system)
          BY <1>0, <2>1, <4>5 DEF Continues, Stored, p
        <5>2. gc'.system = p.system /\ gc'.modal.system = p.modal.system
          BY <4>2, <5>1, RunningFacts
        <5> QED
          BY <4>2, <4>4, <5>1, <5>2
      <4>6. CASE EndsWell(b, system, choice)
        <5> DEFINE e == [Ended(p) EXCEPT !.system = v]
        <5>1. gc' = Running(e) /\ pending' = BlockWrites(b, system)
          BY <4>6, Zenon DEF EndsWell, p, v
        <5>2. After' = Stored(b, system)
          BY <1>0, <2>1, <5>1 DEF Stored
        <5>3. v \in Vectors
          BY <1>0, <4>4, ReadFacts DEF v
        <5>4. IsParser(Ended(p)) /\ Ended(p).modal.system = Systems[1]
          BY <4>2, EndedFacts
        <5>5. IsParser(e) /\ e.system = v /\ e.modal = Ended(p).modal
          BY <5>3, <5>4, ReloadFacts
        <5> HIDE DEF e
        <5>6. gc'.system = v /\ gc'.modal.system = Systems[1]
          BY <5>1, <5>4, <5>5, RunningFacts
        <5> QED
          BY <5>2, <5>6 DEF v
      <4> QED
        BY <4>1, <4>5, <4>6
    <3> QED
      BY <2>1, <3>2, <3>3, <3>4 DEF ActiveInv
  <2> QED
    BY <1>3, <2>2, <2>3, <2>4, LineIs
<1>4. CASE StoreGlobalSetting
  <2>1. /\ UNCHANGED <<eeprom, pc, machineVars, faults>> /\ After = eeprom
    BY <1>4, StoreIs, AfterFacts
  <2>2. gc' = gc /\ mode' = mode
    BY <2>1 DEF machineVars
  <2>3. \A q \in Parameters : After'[q] = eeprom[q]
    <3>1. CASE pending' = <<>>
      BY <1>0, <2>1, <3>1, WrittenNone
    <3>2. CASE settings' \in SettingsType /\ pending' = WriteGlobal(settings')
      BY <1>0, <2>1, <3>2, GlobalWritten
    <3> QED
      BY <1>4, <3>1, <3>2, StoreIs
  <2>4. /\ Intact(After', Systems[1]) = Intact(eeprom, Systems[1])
        /\ ReadCoordData(After', gc.modal.system) = ReadCoordData(eeprom, gc.modal.system)
    BY <1>0, <2>3, ReadSame
  <2> QED
    BY <2>1, <2>2, <2>4 DEF IntactInv, ActiveInv
<1>5. CASE RestoreCommand
  BY <1>5 DEF RestoreCommand, Restart, IntactInv, ActiveInv
<1>6. CASE CheckCommand
  <2>1. After' = After /\ faults' = faults /\ (pc' = "ready" => pc = "ready" /\ mode' = "check")
    BY <1>6 DEF CheckCommand, Restart, Ready, After
  <2> QED
    BY <2>1 DEF IntactInv, ActiveInv
<1>7. CASE Reset
  BY <1>7 DEF Reset, Restart, IntactInv, ActiveInv
<1>8. CASE WriteByte
  <2>1. After' = After
    BY <1>8, AfterFacts
  <2> QED
    BY <1>8, <2>1 DEF WriteByte, machineVars, IntactInv, ActiveInv
<1>9. CASE PowerFailure
  BY <1>9 DEF PowerFailure, IntactInv, ActiveInv
<1>10. CASE Wear
  BY <1>0, <1>10 DEF Wear, IntactInv, ActiveInv
<1>11. CASE UNCHANGED vars
  BY <1>11 DEF vars, machineVars, IntactInv, ActiveInv, After
<1> QED
  BY <1>1, <1>2, <1>3, <1>4, <1>5, <1>6, <1>7, <1>8, <1>9, <1>10, <1>11 DEF Next

-----------------------------------------------------------------------------
(* The settings: the flag byte of the record, old or still to be written,  *)
(* never has the soft limits without homing, so that a torn record which   *)
(* happens to fit its checksum does not either.                            *)

SettingsInv ==
  /\ SoftByte(eeprom["global"][2]) /\ SoftWrites(pending)
  /\ settings.soft => settings.homing
  /\ pc # "settings_init" => GlobalReadable(After)
                             /\ settings = DecodeSettings(Data(After, "global"))

LEMMA SettingsStep == TypeInv /\ SettingsInv /\ [Next]_vars => SettingsInv'
<1> SUFFICES ASSUME TypeInv, SettingsInv, [Next]_vars PROVE SettingsInv'
  OBVIOUS
<1>0. /\ eeprom \in Memory /\ After \in Memory /\ Systems[1] \in Parameters
      /\ After' = Written(eeprom', pending') /\ settings \in SettingsType
      /\ "global" \in Records \ {"version"}
  BY AfterFacts, SystemsFacts DEF TypeInv, After, Records
<1>a. SoftWrites(<<>>)
  BY DEF SoftWrites, Hits
<1>1. CASE SettingsInit
  <2>1. CASE GlobalReadable(eeprom)
    <3>1. settings' = DecodeSettings(Data(eeprom, "global")) /\ pending' = <<>>
          /\ eeprom' = eeprom
      BY <1>1, <2>1 DEF SettingsInit
    <3>2. After' = eeprom
      BY <1>0, <3>1, WrittenNone
    <3>3. \A k \in 1 .. 3 : Data(eeprom, "global")[k] = eeprom["global"][k]
                            /\ Data(eeprom, "global")[k] \in Byte
      BY <1>0, DataFacts
    <3>4. 1 \in 1 .. 3 /\ 2 \in 1 .. 3 /\ 3 \in 1 .. 3
      OBVIOUS
    <3>5. SoftByte(Data(eeprom, "global")[2])
      BY <3>3, <3>4 DEF SettingsInv
    <3>6. settings'.soft => settings'.homing
      BY <3>1, <3>3, <3>4, <3>5, DecodeSettingsType
    <3> QED
      BY <1>a, <2>1, <3>1, <3>2, <3>6 DEF SettingsInv
  <2>2. CASE ~GlobalReadable(eeprom)
    <3>1. settings' = Defaults /\ pending' = RestoreWrites("*") /\ eeprom' = eeprom
      BY <1>1, <2>2 DEF SettingsInit
    <3>2. GlobalReadable(After') /\ DecodeSettings(Data(After', "global")) = Defaults
          /\ SoftWrites(pending')
      BY <1>0, <3>1, RestoreWritesFacts
    <3> QED
      BY <3>1, <3>2, DefaultsFacts DEF SettingsInv
  <2> QED
    BY <2>1, <2>2
<1>b. ASSUME UNCHANGED <<eeprom, settings>>, pending = <<>>, pc # "settings_init",
             pending' \in Seq(ByteWrites),
             \A k \in DOMAIN pending' : pending'[k].record \in Parameters
      PROVE  SettingsInv'
  <2>1. /\ GlobalReadable(After') = GlobalReadable(eeprom)
        /\ Data(After', "global") = Data(eeprom, "global") /\ SoftWrites(pending')
    BY <1>0, <1>b, ParameterWrites
  <2>2. After = eeprom
    BY <1>b, AfterFacts
  <2> QED
    BY <1>b, <2>1, <2>2 DEF SettingsInv
<1>2. CASE GcInit
  <2> DEFINE ws == ReadCoordData(eeprom, Systems[1]).writes
  <2>1. pending' = ws /\ UNCHANGED <<eeprom, settings>> /\ pending = <<>> /\ pc = "gc_init"
    BY <1>2 DEF GcInit
  <2>2. ws \in Seq(ByteWrites) /\ \A k \in DOMAIN ws : ws[k].record \in Parameters
    BY <1>0, Repair
  <2> HIDE DEF ws
  <2> QED
    BY <1>b, <2>1, <2>2
<1>3. CASE Line
  <2>1. UNCHANGED <<eeprom, pc, faults>> /\ pc = "ready" /\ pending = <<>>
    BY <1>3, LineIs
  <2>2. CASE Refuse("error", <<>>)
    <3>1. pending' = <<>> /\ settings' = settings
      BY <2>2 DEF Refuse
    <3>2. pending' \in Seq(ByteWrites) /\ DOMAIN pending' = {}
      BY <3>1
    <3> QED
      BY <1>b, <2>1, <3>1, <3>2
  <2>3. ASSUME NEW r \in Parameters, Refuse("readfail", ReadCoordData(eeprom, r).writes)
        PROVE  SettingsInv'
    <3> DEFINE ws == ReadCoordData(eeprom, r).writes
    <3>1. pending' = ws /\ settings' = settings
      BY <2>3 DEF Refuse
    <3>2. ws \in Seq(ByteWrites) /\ \A k \in DOMAIN ws : ws[k].record \in Parameters
      BY <1>0, Repair
    <3> HIDE DEF ws
    <3> QED
      BY <1>b, <2>1, <3>1, <3>2
  <2>4. ASSUME NEW b, NEW system \in Vectors, NEW choice, IsBlock(gc, b),
               Passes(b, system, choice), Execute(b, system, choice)
        PROVE  SettingsInv'
    <3>1. settings' = settings
      BY <2>4, ExecuteOutcome
    <3>2. pending' \in Seq(ByteWrites)
          /\ \A k \in DOMAIN pending' : pending'[k].record \in Parameters
      BY <2>4, ExecuteFacts
    <3> QED
      BY <1>b, <2>1, <3>1, <3>2
  <2> QED
    BY <1>3, <2>2, <2>3, <2>4, LineIs
<1>4. CASE StoreGlobalSetting
  <2>1. pending = <<>> /\ pc = "ready" /\ UNCHANGED <<eeprom, pc>> /\ After = eeprom
    BY <1>4, StoreIs, AfterFacts
  <2>2. CASE settings' = settings /\ pending' = <<>>
    <3>1. pending' \in Seq(ByteWrites) /\ DOMAIN pending' = {}
      BY <2>2
    <3> QED
      BY <1>b, <2>1, <2>2, <3>1
  <2>3. CASE /\ settings' \in SettingsType /\ pending' = WriteGlobal(settings')
             /\ (settings.soft => settings.homing) => (settings'.soft => settings'.homing)
    <3>1. settings'.soft => settings'.homing
      BY <2>3 DEF SettingsInv
    <3>2. /\ GlobalReadable(After') /\ DecodeSettings(Data(After', "global")) = settings'
          /\ SoftWrites(pending')
      BY <1>0, <2>1, <2>3, <3>1, GlobalWritten
    <3> QED
      BY <2>1, <3>1, <3>2 DEF SettingsInv
  <2> QED
    BY <1>4, <2>2, <2>3, StoreIs
<1>5. CASE RestoreCommand
  <2>1. PICK what \in {"$", "#", "*"} : /\ settings' = RestoredSettings(what)
                                        /\ pending' = RestoreWrites(what)
    BY <1>5 DEF RestoreCommand
  <2>2. eeprom' = eeprom /\ pc = "ready" /\ pending = <<>> /\ After = eeprom
    BY <1>5, AfterFacts DEF RestoreCommand, Ready
  <2>3. SoftWrites(pending') /\ (settings'.soft => settings'.homing)
    BY <1>0, <2>1, RestoreWritesFacts DEF SettingsInv
  <2>4. GlobalReadable(After') /\ settings' = DecodeSettings(Data(After', "global"))
    <3>1. CASE what = "#"
      <4>1. After'["global"] = eeprom["global"] /\ After'["version"] = eeprom["version"]
        BY <1>0, <2>1, <2>2, <3>1, RestoreWritesFacts
      <4>2. /\ Intact(After', "global") = Intact(eeprom, "global")
            /\ Data(After', "global") = Data(eeprom, "global")
        BY <4>1, ReadSame
      <4>3. settings' = settings
        BY <2>1, <3>1 DEF RestoredSettings
      <4> QED
        BY <2>2, <4>1, <4>2, <4>3 DEF SettingsInv, GlobalReadable
    <3>2. CASE what # "#"
      <4>1. settings' = Defaults
        BY <2>1, <3>2 DEF RestoredSettings
      <4> QED
        BY <1>0, <2>1, <2>2, <3>2, <4>1, RestoreWritesFacts
    <3> QED
      BY <3>1, <3>2
  <2> QED
    BY <2>2, <2>3, <2>4 DEF SettingsInv
<1>6. CASE CheckCommand
  <2>1. UNCHANGED <<eeprom, pending, settings>> /\ After' = After /\ pc = "ready"
    BY <1>6 DEF CheckCommand, Ready, After
  <2> QED
    BY <2>1 DEF SettingsInv
<1>7. CASE Reset
  <2>1. UNCHANGED <<eeprom, pending, settings>> /\ After' = After /\ pc = "ready"
    BY <1>7 DEF Reset, Ready, After
  <2> QED
    BY <2>1 DEF SettingsInv
<1>8. CASE WriteByte
  <2>1. After' = After /\ UNCHANGED <<settings, pc>>
    BY <1>8, AfterFacts DEF WriteByte
  <2>2. /\ pending # <<>> /\ pending \in Seq(ByteWrites)
        /\ eeprom' = PutByte(eeprom, Head(pending)) /\ pending' = Tail(pending)
    BY <1>8 DEF WriteByte, EepromByte, TypeInv
  <2>3. \A k \in DOMAIN pending : k \in 1 .. Len(pending) /\ Len(pending) \in Nat
    BY <2>2
  <2>4. SoftWrites(pending')
    <3>1. ASSUME NEW k \in Hits(pending', "global", 2)
          PROVE  k + 1 \in Hits(pending, "global", 2) /\ pending'[k] = pending[k + 1]
      <4>1. k \in 1 .. Len(pending') /\ Len(pending') = Len(pending) - 1 /\ Len(pending) \in Nat
            /\ pending'[k].record = "global" /\ pending'[k].index = 2
        BY <2>2 DEF Hits
      <4>2. pending'[k] = pending[k + 1] /\ k + 1 \in DOMAIN pending
        BY <2>2, <4>1
      <4> QED
        BY <4>1, <4>2 DEF Hits
    <3> QED
      BY <3>1 DEF SettingsInv, SoftWrites
  <2>5. SoftByte(eeprom'["global"][2])
    <3> DEFINE w == Head(pending)
    <3>1. w = pending[1] /\ 1 \in DOMAIN pending /\ w \in ByteWrites
      BY <2>2
    <3>2. w.record \in Records /\ w.index \in Nat
      BY <3>1 DEF ByteWrites, RecordSize
    <3>3. DOMAIN eeprom = Records /\ DOMAIN eeprom["global"] = 1 .. 4
      BY <1>0, MemoryFacts DEF Size, RecordSize
    <3> HIDE DEF w
    <3>4. eeprom' = [eeprom EXCEPT ![w.record][w.index] = w.byte]
      BY <2>2 DEF PutByte, w
    <3>5. CASE w.record = "global" /\ w.index = 2
      <4>1. 1 \in Hits(pending, "global", 2)
        BY <3>1, <3>5 DEF Hits
      <4>2. SoftByte(w.byte)
        BY <3>1, <4>1 DEF SettingsInv, SoftWrites
      <4>3. eeprom'["global"][2] = w.byte
        BY <1>0, <3>3, <3>4, <3>5
      <4> QED
        BY <4>2, <4>3
    <3>6. CASE ~(w.record = "global" /\ w.index = 2)
      <4>1. eeprom'["global"][2] = eeprom["global"][2]
        BY <1>0, <3>2, <3>3, <3>4, <3>6
      <4> QED
        BY <4>1 DEF SettingsInv
    <3> QED
      BY <3>5, <3>6
  <2> QED
    BY <2>1, <2>4, <2>5 DEF SettingsInv
<1>9. CASE PowerFailure
  <2>1. eeprom' = eeprom /\ pending' = <<>> /\ settings' = Defaults /\ pc' = "settings_init"
    BY <1>9 DEF PowerFailure
  <2> QED
    BY <1>a, <2>1, DefaultsFacts DEF SettingsInv
<1>10. CASE Wear
  <2>1. PICK r \in Parameters :
          eeprom' = [eeprom EXCEPT ![r][RecordSize + 1] = ByteMod - 1]
    BY <1>10 DEF Wear
  <2>2. pending = <<>> /\ UNCHANGED <<pending, settings, pc>> /\ After = eeprom
    BY <1>10, AfterFacts DEF Wear
  <2>3. r \notin {"global", "version"}
    BY SystemsFacts
  <2>4. eeprom'["global"] = eeprom["global"] /\ eeprom'["version"] = eeprom["version"]
    BY <1>0, <2>1, <2>3 DEF Memory
  <2>5. After' = eeprom'
    <3>1. eeprom' \in Memory
      BY TypeStep DEF TypeInv
    <3> QED
      BY <1>0, <2>2, <3>1, WrittenNone
  <2>6. /\ Intact(eeprom', "global") = Intact(eeprom, "global")
        /\ Data(eeprom', "global") = Data(eeprom, "global")
    BY <2>4, ReadSame
  <2> QED
    BY <2>2, <2>4, <2>5, <2>6 DEF SettingsInv, GlobalReadable
<1>11. CASE UNCHANGED vars
  BY <1>11 DEF vars, SettingsInv, After
<1> QED
  BY <1>1, <1>2, <1>3, <1>4, <1>5, <1>6, <1>7, <1>8, <1>9, <1>10, <1>11 DEF Next

-----------------------------------------------------------------------------
(* The outputs.                                                            *)

PinsInv ==
  pc = "ready" /\ mode = "idle" /\ faults = 0 =>
    /\ pins.spindle = SpindleOutput(gc.modal.spindle, gc.speed)
    /\ pins.flood = gc.modal.coolant

LEMMA PinsStep == TypeInv /\ IntactInv /\ PinsInv /\ [Next]_vars => PinsInv'
<1> SUFFICES ASSUME TypeInv, IntactInv, PinsInv, [Next]_vars PROVE PinsInv'
  OBVIOUS
<1>0. \A n : SpindleOutput("M5", n) = Off
  BY DEF SpindleOutput
<1>1. CASE SettingsInit
  BY <1>1 DEF SettingsInit, PinsInv
<1>2. CASE GcInit
  <2> DEFINE read == ReadCoordData(eeprom, Systems[1])
  <2>1. gc' = ClearedParser(read.data) /\ pins' = PinsOff
    BY <1>2 DEF GcInit
  <2>2. gc'.modal.spindle = "M5" /\ gc'.modal.coolant = "M9"
    BY <2>1 DEF ClearedParser, InitialModal
  <2> QED
    BY <1>0, <2>1, <2>2 DEF PinsInv, PinsOff
<1>3. CASE Line
  <2>1. UNCHANGED <<eeprom, pc, faults>> /\ pc = "ready" /\ pending = <<>>
    BY <1>3, LineIs
  <2>2. ASSUME NEW status, NEW writes, Refuse(status, writes) PROVE PinsInv'
    BY <2>1, <2>2 DEF Refuse, machineVars, PinsInv
  <2>3. ASSUME NEW b, NEW system \in Vectors, NEW choice, IsBlock(gc, b),
               Passes(b, system, choice), Execute(b, system, choice)
        PROVE  PinsInv'
    <3>1. mode' = mode
      BY <2>3, ExecuteOutcome
    <3>2. SUFFICES ASSUME mode = "idle", faults = 0
                   PROVE  /\ pins'.spindle = SpindleOutput(gc'.modal.spindle, gc'.speed)
                          /\ pins'.flood = gc'.modal.coolant
      BY <2>1, <3>1 DEF PinsInv
    <3> DEFINE p == ParserAfter(b, system, choice)
               v == ReadCoordData(Stored(b, system), Systems[1]).data
    <3>3. Continues(b, system, choice) \/ EndsWell(b, system, choice)
      BY <2>1, <2>3, <3>2, EndsAre
    <3>4. IsParser(p) /\ p.modal = b.modal /\ p.speed = Speed(gc, b)
      <4>1. ~OffsetFault(b) /\ ~EarlyFault(b)
        BY <2>3 DEF Passes
      <4> QED
        BY <2>3, <4>1, ParserAfterType DEF ParserAfter
    <3>5. v \in Vectors
      <4>1. Stored(b, system) \in Memory /\ Systems[1] \in Parameters
        BY <2>3, BlockWritesFacts, SystemsFacts
      <4> QED
        BY <4>1, ReadFacts
    <3> HIDE DEF p, v
    <3>6. CASE Continues(b, system, choice)
      <4>1. gc' = Running(p) /\ pins' = PinsAfter(b)
        BY <3>6 DEF Continues, p
      <4>2. /\ gc'.modal.spindle = b.modal.spindle /\ gc'.modal.coolant = b.modal.coolant
            /\ gc'.speed = Speed(gc, b)
        BY <3>4, <4>1, RunningFacts
      <4>3. pins'.spindle = SpindleAfter(b) /\ pins'.flood = FloodAfter(b)
        BY <4>1 DEF PinsAfter
      <4>4. pins.spindle = SpindleOutput(gc.modal.spindle, gc.speed)
            /\ pins.flood = gc.modal.coolant
        BY <2>1, <3>2 DEF PinsInv
      <4>5. FloodAfter(b) = b.modal.coolant
        BY <3>2, <4>4 DEF FloodAfter
      <4>6. \A spindle, state, n : SpindleRun(spindle, state, n) = SpindleOutput(state, n)
        BY <3>2 DEF SpindleRun
      <4>7. SpindleAfter(b) = SpindleOutput(b.modal.spindle, Speed(gc, b))
        <5>1. CASE b.modal.spindle # gc.modal.spindle
          BY <4>6, <5>1 DEF SpindleAfter
        <5>2. CASE b.modal.spindle = gc.modal.spindle /\ Speed(gc, b) # gc.speed
                   /\ gc.modal.spindle # "M5"
          BY <4>6, <5>2 DEF SpindleAfter
        <5>3. CASE b.modal.spindle = gc.modal.spindle
                   /\ (Speed(gc, b) = gc.speed \/ gc.modal.spindle = "M5")
          <6>1. SpindleAfter(b) = pins.spindle
            BY <5>3 DEF SpindleAfter
          <6> QED
            BY <1>0, <4>4, <5>3, <6>1
        <5> QED
          BY <5>1, <5>2, <5>3
      <4> QED
        BY <4>2, <4>3, <4>5, <4>7
    <3>7. CASE EndsWell(b, system, choice)
      <4> DEFINE e == [Ended(p) EXCEPT !.system = v]
      <4>1. gc' = Running(e) /\ pins' = PinsOff
        BY <3>7, Zenon DEF EndsWell, p, v
      <4>2. IsParser(Ended(p)) /\ Ended(p).modal.spindle = "M5"
            /\ Ended(p).modal.coolant = "M9"
        BY <3>4, EndedFacts
      <4>3. IsParser(e) /\ e.modal = Ended(p).modal
        BY <3>5, <4>2, ReloadFacts
      <4> HIDE DEF e
      <4>4. gc'.modal.spindle = "M5" /\ gc'.modal.coolant = "M9"
        BY <4>1, <4>2, <4>3, RunningFacts
      <4> QED
        BY <1>0, <4>1, <4>4 DEF PinsOff
    <3> QED
      BY <3>3, <3>6, <3>7
  <2> QED
    BY <1>3, <2>2, <2>3, LineIs
<1>4. CASE StoreGlobalSetting
  BY <1>4, StoreIs DEF machineVars, PinsInv
<1>5. CASE RestoreCommand
  BY <1>5 DEF RestoreCommand, Restart, PinsInv
<1>6. CASE CheckCommand
  BY <1>6 DEF CheckCommand, Restart, PinsInv
<1>7. CASE Reset
  BY <1>7 DEF Reset, Restart, PinsInv
<1>8. CASE WriteByte
  BY <1>8 DEF WriteByte, machineVars, PinsInv
<1>9. CASE PowerFailure
  BY <1>9 DEF PowerFailure, PinsInv
<1>10. CASE Wear
  BY <1>10 DEF Wear, TypeInv, PinsInv
<1>11. CASE UNCHANGED vars
  BY <1>11 DEF vars, machineVars, PinsInv
<1> QED
  BY <1>1, <1>2, <1>3, <1>4, <1>5, <1>6, <1>7, <1>8, <1>9, <1>10, <1>11 DEF Next

-----------------------------------------------------------------------------
(* The work position.                                                      *)

WorkInv ==
  /\ pc # "ready" => programmed = <<>>
  /\ reply = "ok" => \A a \in DOMAIN programmed : WorkPosition(a) = programmed[a]

(* What the line named and where the conversion of the reports ends up.    *)
LEMMA ProgrammedFacts ==
  ASSUME TypeInv, NEW b, IsBlock(gc, b), NEW system \in Vectors, NEW choice,
         Passes(b, system, choice), NEW a \in DOMAIN Said(b)
  PROVE  LET p == ParserAfter(b, system, choice)
         IN  /\ b.modal.flow # "M2" /\ Said(b)[a] = Coordinate(b, a)
             /\ p.position[a] - (p.system[a] + p.offset[a])
                   - (IF a = ToolAxis THEN p.tlo ELSE 0) = Coordinate(b, a)
<1> DEFINE p == ParserAfter(b, system, choice)
           Tool(t) == IF a = ToolAxis THEN t ELSE 0
           c == Coordinate(b, a)
<1>1. ~OffsetFault(b) /\ ~EarlyFault(b) /\ ~LateFault(gc, b, Target(gc, b, system), choice)
  BY DEF Passes
<1>2. /\ b.modal.flow # "M2" /\ a \in AxisWords(b) /\ Said(b)[a] = c
      /\ \/ /\ b.nonModal \in {"none", "G4", "G28.1", "G30.1"}
            /\ b.axis = "motion" /\ b.modal.motion \notin Probes
            /\ b.modal.distance = "G90"
         \/ b.nonModal = "G92"
         \/ b.nonModal = "G10" /\ b.vals["L"] = 20 /\ ParameterOf(b) = b.modal.system
  <2> DEFINE says ==
         /\ b.modal.flow # "M2"
         /\ \/ /\ b.nonModal \in {"none", "G4", "G28.1", "G30.1"}
               /\ b.axis = "motion" /\ b.modal.motion \notin Probes
               /\ b.modal.distance = "G90"
            \/ b.nonModal = "G92"
            \/ b.nonModal = "G10" /\ b.vals["L"] = 20
               /\ ParameterOf(b) = b.modal.system
  <2>1. Said(b) = IF says THEN [x \in AxisWords(b) |-> Coordinate(b, x)] ELSE <<>>
    BY Zenon DEF Said
  <2>2. says
    <3> HIDE DEF says
    <3>1. ~says => DOMAIN Said(b) = {}
      BY <2>1
    <3> QED
      BY <3>1
  <2>3. Said(b) = [x \in AxisWords(b) |-> Coordinate(b, x)]
    BY <2>1, <2>2, Zenon
  <2> QED
    BY <2>2, <2>3
<1>3. a \in Axes /\ AxisWords(b) # {}
  BY <1>2 DEF AxisWords
<1>4. /\ IsParser(gc) /\ c \in Int /\ system[a] \in Int /\ gc.offset[a] \in Int
      /\ gc.position[a] \in Int /\ ToolOffset(gc, a) = Tool(gc.tlo) /\ gc.tlo \in Int
  BY <1>2, <1>3, ValueTypes DEF TypeInv, IsParser, Vectors, ToolOffset
<1>5. /\ p.position = PositionAfter(b, system, choice)
      /\ p.system = SystemAfter(b, system) /\ p.offset = OffsetAfter(b, system)
      /\ p.tlo = ToolLengthAfter(b)
  BY DEF ParserAfter
<1> HIDE DEF p, c
<1>6. ~b.fault
  BY <1>1 DEF EarlyFault
<1>7. CASE /\ b.nonModal \in {"none", "G4", "G28.1", "G30.1"}
           /\ b.axis = "motion" /\ b.modal.motion \notin Probes
           /\ b.modal.distance = "G90"
  <2>1. b.modal.motion # "G80"
    BY <1>1, <1>3, <1>7 DEF LateFault, MotionFault
  <2>2. Moves(b)
    BY <1>3, <1>7, <2>1 DEF Moves, Executed
  <2>3. PositionAfter(b, system, choice) = Target(gc, b, system)
    <3>1. PositionAfter(b, system, choice) = Stop(b, system, choice /\ mode # "check")
      BY <1>7, <2>2 DEF PositionAfter
    <3> QED
      BY <1>7, <3>1 DEF Stop
  <2>4. Target(gc, b, system)[a] = c + system[a] + gc.offset[a] + Tool(gc.tlo)
    BY <1>2, <1>4, <1>7, TargetType DEF c
  <2>5. p.system = system /\ p.offset = gc.offset /\ p.tlo = gc.tlo
    BY <1>5, <1>7 DEF SystemAfter, OffsetAfter, ToolLengthAfter
  <2> QED
    BY <1>2, <1>4, <1>5, <2>3, <2>4, <2>5 DEF p, c
<1>8. ASSUME b.nonModal \in {"G92", "G10"}
      PROVE  p.position = gc.position /\ p.tlo = gc.tlo
  <2>1. b.axis = "nonmodal"
    BY <1>6, <1>8 DEF IsBlock, AxisNonModal
  <2>2. ~Moves(b)
    BY <2>1 DEF Moves, Executed
  <2>3. PositionAfter(b, system, choice) = gc.position
    BY <1>8, <2>2 DEF PositionAfter
  <2> QED
    BY <1>5, <2>1, <2>3 DEF ToolLengthAfter
<1>9. CASE b.nonModal = "G92"
  <2>1. p.system = system /\ p.offset = ChangedOffset(gc, b, system)
    BY <1>5, <1>9 DEF SystemAfter, OffsetAfter
  <2>2. p.offset[a] = gc.position[a] - system[a] - c - Tool(gc.tlo)
    BY <1>2, <1>4, <2>1, ChangedTypes DEF c
  <2> QED
    BY <1>2, <1>4, <1>8, <1>9, <2>1, <2>2 DEF p, c
<1>10. CASE b.nonModal = "G10" /\ b.vals["L"] = 20 /\ ParameterOf(b) = b.modal.system
  <2>1. p.offset = gc.offset
    BY <1>5, <1>10 DEF OffsetAfter
  <2>2. p.system = ChangedSystem(gc, b, ParameterRead(b, eeprom).data)
    BY <1>5, <1>10 DEF SystemAfter, Changed
  <2>3. ParameterRead(b, eeprom).data \in Vectors
    BY <1>1, ReadsAre
  <2>4. p.system[a] = gc.position[a] - gc.offset[a] - c - Tool(gc.tlo)
    BY <1>2, <1>4, <1>10, <2>2, <2>3, ChangedTypes DEF c
  <2> QED
    BY <1>2, <1>4, <1>8, <1>10, <2>1, <2>4 DEF p, c
<1> QED
  BY <1>2, <1>7, <1>9, <1>10

LEMMA WorkStep == TypeInv /\ WorkInv /\ [Next]_vars => WorkInv'
<1> SUFFICES ASSUME TypeInv, WorkInv, [Next]_vars PROVE WorkInv'
  OBVIOUS
<1>0. DOMAIN <<>> = {}
  OBVIOUS
<1>a. ASSUME programmed' = <<>> PROVE WorkInv'
  BY <1>0, <1>a DEF WorkInv
<1>b. ASSUME UNCHANGED <<pc, gc, programmed, reply>> PROVE WorkInv'
  BY <1>b DEF WorkInv, WorkPosition
<1>1. CASE SettingsInit
  BY <1>1, <1>a DEF SettingsInit, WorkInv
<1>2. CASE GcInit
  BY <1>2, <1>a DEF GcInit, WorkInv
<1>3. CASE Line
  <2>1. UNCHANGED pc /\ pc = "ready"
    BY <1>3, LineIs
  <2>2. ASSUME NEW status, NEW writes, Refuse(status, writes) PROVE WorkInv'
    BY <2>2, <1>a DEF Refuse, Answer
  <2>3. ASSUME NEW b, NEW system \in Vectors, NEW choice, IsBlock(gc, b),
               Passes(b, system, choice), Execute(b, system, choice)
        PROVE  WorkInv'
    <3> DEFINE p == ParserAfter(b, system, choice)
    <3>1. programmed' = Said(b)
      BY <2>3, ExecuteOutcome
    <3>2. IsParser(p)
      <4>1. ~OffsetFault(b) /\ ~EarlyFault(b)
        BY <2>3 DEF Passes
      <4> QED
        BY <2>3, <4>1, ParserAfterType
    <3>3. ASSUME NEW a \in DOMAIN Said(b)
          PROVE  WorkPosition(a)' = Said(b)[a]
      <4>1. /\ b.modal.flow # "M2" /\ Said(b)[a] = Coordinate(b, a)
            /\ p.position[a] - (p.system[a] + p.offset[a])
                  - (IF a = ToolAxis THEN p.tlo ELSE 0) = Coordinate(b, a)
        BY <2>3, ProgrammedFacts
      <4>2. gc' = Running(p)
        BY <2>3, <4>1, ExecuteOutcome DEF Continues, EndsChecked, EndsWell, EndFails
      <4> HIDE DEF p
      <4>3. /\ gc'.position = p.position /\ gc'.system = p.system
            /\ gc'.offset = p.offset /\ gc'.tlo = p.tlo
        BY <3>2, <4>2, RunningFacts
      <4> QED
        BY <4>1, <4>3 DEF WorkPosition
    <3> QED
      BY <2>1, <3>1, <3>3 DEF WorkInv
  <2> QED
    BY <1>3, <2>2, <2>3, LineIs
<1>4. CASE StoreGlobalSetting
  BY <1>4, <1>a, StoreIs
<1>5. CASE RestoreCommand
  BY <1>5, <1>a DEF RestoreCommand, Answer
<1>6. CASE CheckCommand
  BY <1>6, <1>a DEF CheckCommand, Answer
<1>7. CASE Reset
  BY <1>7, <1>a DEF Reset, Answer
<1>8. CASE WriteByte
  BY <1>8, <1>b DEF WriteByte, machineVars
<1>9. CASE PowerFailure
  BY <1>9, <1>a DEF PowerFailure, Answer
<1>10. CASE Wear
  BY <1>10, <1>b DEF Wear, machineVars
<1>11. CASE UNCHANGED vars
  BY <1>11, <1>b DEF vars, machineVars
<1> QED
  BY <1>1, <1>2, <1>3, <1>4, <1>5, <1>6, <1>7, <1>8, <1>9, <1>10, <1>11 DEF Next

-----------------------------------------------------------------------------
(* The inductive invariant and what follows.                               *)

Inv == /\ TypeInv /\ PositionInv /\ IntactInv /\ ActiveInv
       /\ SettingsInv /\ PinsInv /\ WorkInv

LEMMA InvInit == Init => Inv
<1> SUFFICES ASSUME Init PROVE Inv
  OBVIOUS
<1>1. TypeInv
  BY TypeInit
<1>2. PositionInv /\ IntactInv /\ ActiveInv /\ PinsInv
  BY DEF Init, PositionInv, IntactInv, ActiveInv, PinsInv
<1>3. SettingsInv
  BY ErasedFacts, DefaultsFacts DEF Init, SettingsInv, SoftWrites, Hits
<1>4. WorkInv
  BY DEF Init, WorkInv
<1> QED
  BY <1>1, <1>2, <1>3, <1>4 DEF Inv

LEMMA InvStep == Inv /\ [Next]_vars => Inv'
  BY TypeStep, PositionStep, StoreStep, SettingsStep, PinsStep, WorkStep DEF Inv

(* The invariant holds after every line, command, byte written, power     *)
(* failure and byte gone bad.                                              *)
THEOREM Invariance == Spec => []Inv
  BY InvInit, InvStep, PTL DEF Spec

(* Every variable keeps its type, and every mode is one of its group,      *)
(* whatever the lines are (gcode.c:68-1074).                               *)
THEOREM Types == Spec => []TypeOK
<1>1. TypeInv => TypeOK
  <2> SUFFICES ASSUME TypeInv PROVE TypeOK
    OBVIOUS
  <2>1. /\ eeprom \in Memory /\ pending \in Seq(ByteWrites) /\ IsParser(gc)
        /\ pc \in {"settings_init", "gc_init", "ready"} /\ mode \in {"idle", "check"}
        /\ reply \in Statuses /\ machine \in Vectors
    BY DEF TypeInv
  <2>2. DOMAIN eeprom = Records /\ \A r \in Records : Range(eeprom[r]) \subseteq Byte
    BY <2>1 DEF Memory, Range
  <2>3. \A i \in DOMAIN pending : pending[i].byte \in Byte
    <3>1. \A i \in DOMAIN pending : pending[i] \in ByteWrites
      BY <2>1
    <3> QED
      BY <3>1 DEF ByteWrites
  <2>4. \A g \in DOMAIN gc.modal : gc.modal[g] \in Group[g] \cup {InitialModal[g]}
    BY <2>1, ModalFacts DEF IsParser, IsModal
  <2>5. gc.position \in Vectors /\ gc.system \in Vectors /\ gc.offset \in Vectors
    BY <2>1 DEF IsParser
  <2> QED
    BY <2>1, <2>2, <2>3, <2>4, <2>5 DEF TypeOK
<1>2. Inv => TypeOK
  BY <1>1 DEF Inv
<1> QED
  BY <1>2, Invariance, PTL

(* The parser's position is where the queued motions end, after every line *)
(* (gcode.c:1026, motion_control.c mc_probe_cycle, gc_sync_position).      *)
THEOREM PositionHolds == Spec => []PositionIsMachine
<1>1. Inv => PositionIsMachine
  BY DEF Inv, PositionInv, PositionIsMachine, Settled
<1> QED
  BY <1>1, Invariance, PTL

(* The vector in use is the one stored for the selected system, through    *)
(* every line, command, reset and power failure, while no byte goes bad.   *)
THEOREM ActiveSystemHolds == Spec => []ActiveSystemIsStored
<1>1. Inv => ActiveSystemIsStored
  BY AfterFacts DEF Inv, ActiveInv, ActiveSystemIsStored, Settled
<1> QED
  BY <1>1, Invariance, PTL

(* The settings in use are the ones stored, soft limits never on without   *)
(* homing, whatever write was cut short (settings.c:176-274).              *)
THEOREM SettingsHold == Spec => []SettingsAreStored
<1>1. Inv => SettingsAreStored
  <2> SUFFICES ASSUME Inv, Settled PROVE /\ GlobalReadable(eeprom)
                                         /\ settings = DecodeSettings(Data(eeprom, "global"))
                                         /\ settings.soft => settings.homing
    BY DEF SettingsAreStored
  <2>1. After = eeprom /\ pc = "ready"
    BY AfterFacts DEF Inv, Settled
  <2> QED
    BY <2>1 DEF Inv, SettingsInv
<1> QED
  BY <1>1, Invariance, PTL

(* The outputs are what the modes and the speed ask for, while no byte of  *)
(* the store goes bad (gcode.c:854-877).                                   *)
THEOREM PinsHold == Spec => []PinsFollowModes
<1>1. Inv => PinsFollowModes
  BY DEF Inv, PinsInv, PinsFollowModes, Settled
<1> QED
  BY <1>1, Invariance, PTL

(* The reported work position is the one the line named (gcode.c:542-614   *)
(* against report.c:463).                                                  *)
THEOREM WorkPositionHolds == Spec => []WorkPositionIsProgrammed
<1>1. Inv => WorkPositionIsProgrammed
  BY DEF Inv, WorkInv, WorkPositionIsProgrammed
<1> QED
  BY <1>1, Invariance, PTL

-----------------------------------------------------------------------------
(* What a refused line leaves behind.                                      *)

(* A program end that fails to read G54's record: that record could not be *)
(* read when the line came, and the repair leaves all readable.            *)
LEMMA EndUnread ==
  ASSUME TypeInv, NEW b, IsBlock(gc, b), NEW system \in Vectors, NEW choice,
         Passes(b, system, choice), Execute(b, system, choice),
         EndFails(b, system, choice)
  PROVE  /\ ProgramEndUnread
         /\ Intact(Written(eeprom, pending'), Systems[1])
         /\ \A q \in Parameters : Intact(eeprom, q) => Intact(Written(eeprom, pending'), q)
<1> DEFINE p == ParserAfter(b, system, choice)
           ws == BlockWrites(b, system)
           m == Stored(b, system)
           rs == ReadCoordData(m, Systems[1]).writes
<1>1. ~OffsetFault(b) /\ ~EarlyFault(b)
  BY DEF Passes
<1>2. IsParser(p) /\ p.modal = b.modal
  BY <1>1, ParserAfterType DEF ParserAfter
<1>3. /\ ws \in Seq(ByteWrites) /\ m \in Memory /\ m = Written(eeprom, ws)
      /\ \A q \in Parameters : Intact(eeprom, q) => Intact(m, q)
  BY BlockWritesFacts DEF Stored
<1>4. Systems[1] \in Parameters
  BY SystemsFacts
<1>5. rs \in Seq(ByteWrites) /\ Intact(Written(m, rs), Systems[1])
  BY <1>3, <1>4, Repair
<1> HIDE DEF p, ws, m, rs
<1>6. /\ gc' = Ended(p) /\ pending' = ws \o rs /\ reply' = "readfail"
      /\ b.modal.flow = "M2" /\ mode # "check" /\ ~Intact(m, Systems[1])
  BY Zenon DEF EndFails, p, ws, rs, m
<1>7. gc'.modal.flow = "M2" /\ gc'.modal = EndModal(gc'.modal)
  BY <1>2, <1>6, EndedFacts
<1>8. mode = "idle" /\ ~Intact(eeprom, Systems[1])
  BY <1>3, <1>4, <1>6 DEF TypeInv
<1>9. Written(eeprom, pending') = Written(m, rs)
  BY <1>3, <1>5, <1>6, WrittenTwice DEF TypeInv
<1>10. \A q \in Parameters : Intact(eeprom, q) => Intact(Written(eeprom, pending'), q)
  BY ExecuteFacts
<1> QED
  BY <1>5, <1>6, <1>7, <1>8, <1>9, <1>10 DEF ProgramEndUnread

(* The steps that refuse a line, and how.                                  *)
LEMMA Answers ==
  ASSUME TypeInv, Next, Refused
  PROVE  \/ reply' = "error" /\ pending' = <<>> /\ UNCHANGED machineVars
         \/ \E r \in Parameters : /\ ~Intact(eeprom, r) /\ UNCHANGED machineVars
                                  /\ pending' = ReadCoordData(eeprom, r).writes
         \/ /\ ProgramEndUnread
            /\ Intact(Written(eeprom, pending'), Systems[1])
            /\ \A q \in Parameters : Intact(eeprom, q) => Intact(Written(eeprom, pending'), q)
<1> ops' # ops /\ reply' \in {"error", "readfail"}
  BY DEF Refused
<1>1. CASE Line
  <2>1. ASSUME NEW b, NEW system \in Vectors, NEW choice, IsBlock(gc, b),
               Passes(b, system, choice), Execute(b, system, choice)
        PROVE  /\ ProgramEndUnread
               /\ Intact(Written(eeprom, pending'), Systems[1])
               /\ \A q \in Parameters : Intact(eeprom, q) => Intact(Written(eeprom, pending'), q)
    <3>1. EndFails(b, system, choice)
      <4>1. reply' # "ok"
        OBVIOUS
      <4> QED
        BY <2>1, <4>1, ExecuteOutcome DEF Continues, EndsChecked, EndsWell
    <3> QED
      BY <2>1, <3>1, EndUnread
  <2>2. CASE Refuse("error", <<>>)
    BY <2>2 DEF Refuse, Answer
  <2>3. ASSUME NEW r \in Parameters, ~Intact(eeprom, r),
               Refuse("readfail", ReadCoordData(eeprom, r).writes)
        PROVE  /\ UNCHANGED machineVars
               /\ pending' = ReadCoordData(eeprom, r).writes
    BY <2>3 DEF Refuse
  <2> QED
    BY <1>1, <2>1, <2>2, <2>3, LineIs
<1>2. CASE StoreGlobalSetting
  BY <1>2, StoreIs
<1>3. CASE RestoreCommand \/ CheckCommand \/ Reset
  BY <1>3 DEF RestoreCommand, CheckCommand, Reset, Answer
<1>4. CASE SettingsInit \/ GcInit \/ WriteByte \/ PowerFailure \/ Wear
  BY <1>4 DEF SettingsInit, GcInit, WriteByte, PowerFailure, Wear
<1> QED
  BY <1>1, <1>2, <1>3, <1>4 DEF Next

(* A refused line changes no mode, position or output, and of the store    *)
(* only a record that could not be read (gcode.c:370), unless it is a      *)
(* program end that could not read G54's record, which has executed and    *)
(* has reset the modes (gcode.c:1060): no other line is refused late.      *)
THEOREM RejectedHolds == Spec => RejectedLineIsDropped
<1>1. ASSUME Inv, [Next]_vars
      PROVE  [Refused => Dropped \/ ProgramEndUnread]_vars
  <2>1. SUFFICES ASSUME Next, Refused PROVE Dropped \/ ProgramEndUnread
    BY <1>1 DEF vars, Refused
  <2>2. TypeInv
    BY <1>1 DEF Inv
  <2>3. CASE reply' = "error" /\ pending' = <<>> /\ UNCHANGED machineVars
    <3>1. DOMAIN pending' = {}
      BY <2>3
    <3> QED
      BY <2>3, <3>1 DEF Dropped
  <2>4. ASSUME NEW r \in Parameters, ~Intact(eeprom, r), UNCHANGED machineVars,
               pending' = ReadCoordData(eeprom, r).writes
        PROVE  Dropped
    <3>1. eeprom \in Memory
      BY <2>2 DEF TypeInv
    <3>2. pending' = WriteCoordData(r, ZeroVector)
      BY <2>4, <3>1, ReadFacts
    <3>3. \A i \in DOMAIN pending' : pending'[i].record = r
      BY <3>1, <3>2, CoordWritten, ZeroFacts
    <3> QED
      BY <2>4, <3>3 DEF Dropped
  <2> QED
    BY <2>1, <2>2, <2>3, <2>4, Answers
<1> QED
  BY <1>1, Invariance, PTL DEF Spec, RejectedLineIsDropped

(* The record that failed to be read is readable once the line has been    *)
(* answered, every record that could be read still can, and none of them   *)
(* has been written but by the block of such a program end (settings.c:150)*)
THEOREM RepairHolds == Spec => ReadFailsOnce
<1> DEFINE Repaired ==
      LET after == Written(eeprom, pending')
      IN  /\ \E r \in Parameters : ~Intact(eeprom, r) /\ Intact(after, r)
          /\ \A r \in Parameters : Intact(eeprom, r) =>
               /\ Intact(after, r)
               /\ after[r] = eeprom[r] \/ ProgramEndUnread
<1>1. ASSUME Inv, [Next]_vars
      PROVE  [Refused /\ reply' = "readfail" => Repaired]_vars
  <2> DEFINE after == Written(eeprom, pending')
  <2>1. SUFFICES ASSUME Next, Refused, reply' = "readfail"
                 PROVE  /\ \E r \in Parameters : ~Intact(eeprom, r) /\ Intact(after, r)
                        /\ \A r \in Parameters : Intact(eeprom, r) =>
                             /\ Intact(after, r)
                             /\ after[r] = eeprom[r] \/ ProgramEndUnread
    BY <1>1 DEF vars, Refused
  <2>2. TypeInv /\ eeprom \in Memory
    BY <1>1 DEF Inv, TypeInv
  <2>3. ASSUME NEW r \in Parameters, ~Intact(eeprom, r),
               pending' = ReadCoordData(eeprom, r).writes
        PROVE  /\ \E q \in Parameters : ~Intact(eeprom, q) /\ Intact(after, q)
               /\ \A q \in Parameters : Intact(eeprom, q) =>
                    Intact(after, q) /\ after[q] = eeprom[q]
    <3>1. /\ Intact(after, r) /\ \A q \in Records : q # r => after[q] = eeprom[q]
          /\ \A q \in Parameters : Intact(eeprom, q) => Intact(after, q)
      BY <2>2, <2>3, Repair
    <3> HIDE DEF after
    <3>2. \A q \in Parameters : Intact(eeprom, q) => after[q] = eeprom[q]
      BY <2>3, <3>1, SystemsFacts
    <3> QED
      BY <2>3, <3>1, <3>2
  <2>4. ASSUME ProgramEndUnread, Intact(after, Systems[1]),
               \A q \in Parameters : Intact(eeprom, q) => Intact(after, q)
        PROVE  /\ \E q \in Parameters : ~Intact(eeprom, q) /\ Intact(after, q)
               /\ \A q \in Parameters : Intact(eeprom, q) => Intact(after, q)
    BY <2>4, SystemsFacts DEF ProgramEndUnread
  <2> HIDE DEF after
  <2>5. CASE \E r \in Parameters : ~Intact(eeprom, r)
                                   /\ pending' = ReadCoordData(eeprom, r).writes
    BY <2>3, <2>5
  <2>6. CASE /\ ProgramEndUnread /\ Intact(after, Systems[1])
             /\ \A q \in Parameters : Intact(eeprom, q) => Intact(after, q)
    BY <2>4, <2>6
  <2> QED
    BY <2>1, <2>2, <2>5, <2>6, Answers DEF after
<1> QED
  BY <1>1, Invariance, PTL DEF Spec, ReadFailsOnce
=============================================================================
