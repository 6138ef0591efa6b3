----------------------------- MODULE KeyLayout -----------------------------
(***************************************************************************)
(* The layout of one FastMap record, as the Key builder writes it          *)
(* (src/unnamed/part_000: new_map's value offsets, which the FastMap       *)
(* constructor computes alike; Key.init, the puts, writeOffset, putNull,   *)
(* commit) and as FastMapRecord reads it back (src/unnamed/part_002: of,   *)
(* addressOfColumn, getStr0, getBin).                                      *)
(*                                                                         *)
(*   [ 4B len | value block | 4B end offset per key column | key data ]   *)
(*                                                                         *)
(* Offsets are relative to the record's start. resize() moves the record   *)
(* and the cursor by the same delta (FastMap checks that rebase), so it    *)
(* leaves every relative offset as it was and is not repeated here.        *)
(* Memory is abstracted to the 4-byte ints written into it (the length     *)
(* header, the end offsets, the length prefixes of strings and binaries);  *)
(* reading an int that was never written returns Garbage.                  *)
(***************************************************************************)
EXTENDS Integers, Sequences, TLC

CONSTANTS
    ValueTypes,  \* column types of the value block, in order
    KeyTypes,    \* column types of the key, in the order the sink puts them
    Lens,        \* lengths of the strings and binaries put
    IntBits,     \* width of a Java int (32): the length header and end offsets
    NullLen,     \* TableUtils.NULL_LEN
    Garbage      \* what reading memory that was never written returns

ASSUME NullLen < 0 /\ Garbage \notin Int /\ IntBits >= 2

VARIABLES
    phase,    \* "building" until commit, then "committed"; "tooLarge" once
              \* writeOffset threw and the caller abandoned the key
    append,   \* appendAddress - startAddress
    nextCol,  \* nextColOffset - startAddress
    ints,     \* relative offset -> the int written there
    cols      \* ghost: what each put wrote, [start, bytes, len]

vars == <<phase, append, nextCol, ints, cols>>

\* The constructor's switch: bytes of a value column of each type.
ValueWidth(t) ==
    CASE t \in {"BYTE", "BOOLEAN", "GEOBYTE"}                    -> 1
      [] t \in {"SHORT", "CHAR", "GEOSHORT"}                     -> 2
      [] t \in {"INT", "FLOAT", "SYMBOL", "GEOINT"}              -> 4
      [] t \in {"LONG", "DOUBLE", "DATE", "TIMESTAMP", "GEOLONG"} -> 8
      [] t = "LONG256"                                           -> 32

\* Bytes written by the fixed-width put for a key column of type t.
PutWidth(t) ==
    CASE t \in {"BYTE", "BOOLEAN"}                      -> 1
      [] t \in {"SHORT", "CHAR"}                        -> 2
      [] t \in {"INT", "FLOAT"}                         -> 4
      [] t \in {"LONG", "DOUBLE", "DATE", "TIMESTAMP"}  -> 8
      [] t = "LONG256"                                  -> 32

VarTypes == {"STRING", "BINARY"}

Split == Len(ValueTypes)

\* valueOffsets[i]: 4 plus the widths of the value columns before i.
RECURSIVE ValueOffset(_)
ValueOffset(i) == IF i = 0 THEN 4 ELSE ValueOffset(i - 1) + ValueWidth(ValueTypes[i])

KeyBlockOffset == ValueOffset(Split)
KeyDataOffset == KeyBlockOffset + 4 * Len(KeyTypes)

\* Memory as a reader sees it: an int written at o, or Garbage.
IntAt(o) == IF o \in DOMAIN ints THEN ints[o] ELSE Garbage

\* Mutant: the end offset of key column c read for column c itself.
AddressOfColumnOwnSlot(index) ==
    IF index < Split THEN ValueOffset(index)
    ELSE IF index = Split THEN KeyDataOffset
    ELSE IntAt(KeyBlockOffset + (index - Split) * 4)

\* FastMapRecord.addressOfColumn, relative to address0: a value column at
\* its valueOffset, the first key column at keyDataOffset, any later key
\* column where the previous one's stored end offset says.
AddressOfColumn(index) ==
    IF index < Split THEN ValueOffset(index)
    ELSE IF index = Split THEN KeyDataOffset
    ELSE IntAt(KeyBlockOffset + (index - Split - 1) * 4)

\* getStr0 / getBin: null for NULL_LEN, else the [lo, hi) of the payload.
VarRange(index, unit) ==
    LET a == AddressOfColumn(index)
        l == IntAt(a)
    IN IF l = NullLen THEN "null" ELSE <<a + 4, a + 4 + l * unit>>

\* getBin: the bytes follow the length.
BinRange(index) == VarRange(index, 1)

\* getStr0: the chars, two bytes each, follow the length.
StrRange(index) == VarRange(index, 2)

-----------------------------------------------------------------------------
(* The Key builder.                                                         *)

\* Key.init on a fresh record.
Init ==
    /\ phase = "building"
    /\ append = KeyDataOffset
    /\ nextCol = KeyBlockOffset
    /\ ints = <<>>
    /\ cols = <<>>

\* Integer.MAX_VALUE, and the (int) cast of a long: its low IntBits bits,
\* read as two's complement.
IntMax == 2 ^ (IntBits - 1) - 1
ToInt(x) == ((x + IntMax + 1) % (2 ^ IntBits)) - (IntMax + 1)

\* Mutant: the slot pointer advanced by Long.BYTES.
WriteOffsetWide(newAppend, written) ==
    /\ ints' = (nextCol :> ToInt(newAppend)) @@ written
    /\ nextCol' = nextCol + 8
    /\ UNCHANGED phase

\* Mutant: no check of the length against Integer.MAX_VALUE.
WriteOffsetUnchecked(newAppend, written) ==
    /\ ints' = (nextCol :> ToInt(newAppend)) @@ written
    /\ nextCol' = nextCol + 4
    /\ UNCHANGED phase

\* writeOffset(), after the put has written its bytes and advanced
\* appendAddress: a length above Integer.MAX_VALUE throws "row data is too
\* large" and the caller abandons the key; otherwise (int) len is stored
\* in the next end offset slot and the pointer moves to the slot after it.
WriteOffset(newAppend, written) ==
    IF newAppend > IntMax
    THEN /\ ints' = written
         /\ phase' = "tooLarge"
         /\ UNCHANGED nextCol
    ELSE /\ ints' = (nextCol :> ToInt(newAppend)) @@ written
         /\ nextCol' = nextCol + 4
         /\ UNCHANGED phase

\* The next key column to put, and its type.
NextCol == Len(cols) + 1
NextType == KeyTypes[NextCol]

Building == phase = "building" /\ Len(cols) < Len(KeyTypes)

\* putByte, putBool, putShort, putChar, putInt, putFloat, putLong, putDate,
\* putTimestamp, putDouble, putLong256 (and skip of the same width): the
\* value at appendAddress, then writeOffset.
PutFixed ==
    /\ Building
    /\ NextType \notin VarTypes
    /\ LET w == PutWidth(NextType)
       IN /\ append' = append + w
          /\ WriteOffset(append + w, ints)
          /\ cols' = Append(cols, [start |-> append, bytes |-> w, len |-> w])

\* putStr (and its lo/hi and lower-case forms): the length, the chars two
\* bytes each, then writeOffset.
PutStr(len) ==
    /\ Building
    /\ NextType = "STRING"
    /\ append' = append + 4 + 2 * len
    /\ WriteOffset(append + 4 + 2 * len, (append :> len) @@ ints)
    /\ cols' = Append(cols, [start |-> append, bytes |-> 4 + 2 * len, len |-> len])

\* putBin: the length, the bytes, then writeOffset.
PutBin(len) ==
    /\ Building
    /\ NextType = "BINARY"
    /\ append' = append + 4 + len
    /\ WriteOffset(append + 4 + len, (append :> len) @@ ints)
    /\ cols' = Append(cols, [start |-> append, bytes |-> 4 + len, len |-> len])

\* putStr(null) / putBin(null) -> putNull: NULL_LEN, then writeOffset.
PutNull ==
    /\ Building
    /\ NextType \in VarTypes
    /\ append' = append + 4
    /\ WriteOffset(append + 4, (append :> NullLen) @@ ints)
    /\ cols' = Append(cols, [start |-> append, bytes |-> 4, len |-> NullLen])

\* commit() at the start of createValue/findValue: the length header.
Commit ==
    /\ phase = "building"
    /\ Len(cols) = Len(KeyTypes)
    /\ ints' = (0 :> ToInt(append)) @@ ints
    /\ phase' = "committed"
    /\ UNCHANGED <<append, nextCol, cols>>

Next ==
    \/ PutFixed
    \/ \E len \in Lens : PutStr(len) \/ PutBin(len)
    \/ PutNull
    \/ Commit

Spec == Init /\ [][Next]_vars

-----------------------------------------------------------------------------
(* Properties.                                                              *)

\* Every variable has its type; the end offset slot pointer stays inside
\* the key offset block.
TypeOK ==
    /\ phase \in {"building", "committed", "tooLarge"}
    /\ append \in Nat
    /\ nextCol \in KeyBlockOffset..KeyDataOffset
    /\ \A o \in DOMAIN ints : o \in Nat /\ ints[o] \in Int
    /\ cols \in Seq([start : Nat, bytes : Nat, len : Int])

\* Once the record is committed, FastMapRecord reads every column where the
\* Key wrote it: value columns lie in the value block in order, without
\* overlap; addressOfColumn of every key column is where its put started,
\* found through the end offset writeOffset stored for the column before;
\* getStr0 and getBin see NULL_LEN for a null and otherwise exactly the
\* payload that was put; and every column ends within the length header.
ColumnsRoundTrip ==
    phase = "committed" =>
        /\ \A i \in 0..Split - 1 :
              /\ 4 <= AddressOfColumn(i)
              /\ AddressOfColumn(i) + ValueWidth(ValueTypes[i + 1])
                    <= IF i + 1 < Split THEN AddressOfColumn(i + 1) ELSE KeyBlockOffset
        /\ \A c \in 1..Len(KeyTypes) :
              LET idx  == Split + c - 1
                  col  == cols[c]
              IN /\ AddressOfColumn(idx) = col.start
                 /\ col.start + col.bytes <= IntAt(0)
                 /\ KeyTypes[c] \in VarTypes =>
                       (IF KeyTypes[c] = "STRING" THEN StrRange(idx) ELSE BinRange(idx)) = IF col.len = NullLen THEN "null"
                                             ELSE <<col.start + 4, col.start + col.bytes>>

=============================================================================
