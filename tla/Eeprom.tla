------------------------------- MODULE Eeprom -------------------------------
(***************************************************************************)
(* The persistent store: eeprom.c and the record layer of settings.c.      *)
(* A record is a run of bytes followed by a checksum; a write puts the     *)
(* bytes one at a time, the checksum last, and the program waits for each, *)
(* so a power failure can stop it between any two bytes.                   *)
(*                                                                         *)
(* Bounds: bytes are taken modulo ByteMod (256 in the code) and a record   *)
(* holds three of them, one per axis, where the code keeps four per float. *)
(***************************************************************************)
EXTENDS Integers, Sequences, SequencesExt

CONSTANTS ByteMod,   \* values of a byte
          Systems    \* the work coordinate systems G54, G55, ... in order

(* A byte holds the flags of the settings, and has a lowest bit.           *)
ASSUME ByteModAssumption == ByteMod \in Nat /\ ByteMod > 3 /\ ByteMod % 2 = 0
ASSUME SystemsAssumption ==
    Systems \in Seq({"G54", "G55", "G56", "G57", "G58", "G59"}) /\ Systems # <<>>

VARIABLES eeprom,    \* the bytes of each record, as they survive power loss
          pending    \* byte writes the running command has still to make

Byte == 0 .. ByteMod - 1
Axes == {"X", "Y", "Z"}
RecordSize == 3
Parameters == Range(Systems) \cup {"G28", "G30"}
Records == Parameters \cup {"global", "version"}
SettingsVersion == 1

(* One byte of the erased memory reads all ones. *)
Erased == [r \in Records |-> IF r = "version" THEN <<ByteMod - 1>>
                             ELSE [i \in 1 .. RecordSize + 1 |-> ByteMod - 1]]

(* The running sum is logically or-ed, not rotated: all it remembers of   *)
(* the bytes before the last one is whether their sum was zero.           *)
Checksum(data) ==
    LET Add(sum, b) == ((IF sum # 0 THEN 1 ELSE 0) + b) % ByteMod
    IN  Add(Add(Add(0, data[1]), data[2]), data[3])

PutChar(r, i, b) == [record |-> r, index |-> i, byte |-> b]

(* memcpy_to_eeprom_with_checksum: the byte writes, in order. *)
WriteRecord(r, data) ==
    [i \in 1 .. RecordSize + 1 |->
        PutChar(r, i, IF i <= RecordSize THEN data[i] ELSE Checksum(data))]

PutByte(mem, w) == [mem EXCEPT ![w.record][w.index] = w.byte]

(* The memory once the writes ws have all been made: a byte is what was   *)
(* written to it last.                                                     *)
Hits(ws, r, i) == {k \in DOMAIN ws : ws[k].record = r /\ ws[k].index = i}
Written(mem, ws) ==
    [r \in DOMAIN mem |-> [i \in DOMAIN mem[r] |->
        IF Hits(ws, r, i) = {} THEN mem[r][i] ELSE ws[Max(Hits(ws, r, i))].byte]]

Data(mem, r) == SubSeq(mem[r], 1, RecordSize)

(* memcpy_from_eeprom_with_checksum *)
Intact(mem, r) == Checksum(Data(mem, r)) = mem[r][RecordSize + 1]

EncodeUnsigned(vector) == << vector["X"], vector["Y"], vector["Z"] >>

(* A coordinate is stored in two's complement. *)
Encode(vector) == << vector["X"] % ByteMod, vector["Y"] % ByteMod,
                     vector["Z"] % ByteMod >>
Signed(b) == IF 2 * b >= ByteMod THEN b - ByteMod ELSE b
Place == [X |-> 1, Y |-> 2, Z |-> 3]
Decode(data) == [a \in Axes |-> Signed(data[Place[a]])]

ZeroVector == [a \in Axes |-> 0]

WriteCoordData(r, vector) == WriteRecord(r, Encode(vector))

ReadWithoutRepair(mem, r) ==
    IF Intact(mem, r)
    THEN [ok |-> TRUE, data |-> Decode(Data(mem, r)), writes |-> <<>>]
    ELSE [ok |-> FALSE, data |-> ZeroVector, writes |-> <<>>]

(* A record whose checksum does not fit reads as zero, is reported, and is *)
(* rewritten with the zero vector.                                         *)
ReadCoordData(mem, r) ==
    IF Intact(mem, r)
    THEN [ok |-> TRUE, data |-> Decode(Data(mem, r)), writes |-> <<>>]
    ELSE [ok |-> FALSE, data |-> ZeroVector,
          writes |-> WriteCoordData(r, ZeroVector)]

(* $RST=#: every coordinate record to zero. *)
RestoreParameters ==
    LET records == Systems \o <<"G28", "G30">>
        size    == RecordSize + 1
    IN  [k \in 1 .. size * Len(records) |->
           WriteCoordData(records[((k - 1) \div size) + 1], ZeroVector)[((k - 1) % size) + 1]]

-----------------------------------------------------------------------------
(* eeprom_put_char: one byte reaches the memory. *)
EepromByte ==
    /\ pending # <<>>
    /\ eeprom' = PutByte(eeprom, Head(pending))
    /\ pending' = Tail(pending)
=============================================================================
