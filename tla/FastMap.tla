------------------------------ MODULE FastMap ------------------------------
(***************************************************************************)
(* The FastMap of src/unnamed/part_000: an open-addressing hash map whose  *)
(* key records live in one growable arena [kStart, kLimit) and whose       *)
(* directory `offsets` holds, per bucket, -1 or the arena offset of a      *)
(* record.  A key is built in place at the arena tail by the Key cursor    *)
(* (withKey, the puts), then createValue/findValue commit it, hash it and *)
(* probe linearly.                                                         *)
(*                                                                         *)
(* Data abstraction.  A record [len | value block | key offsets | key      *)
(* data] is represented by the key it holds, at its start offset in the   *)
(* arena: `arena` maps record start offsets to keys.  Writing a record     *)
(* removes every record whose bytes it overlaps.  Keys are model values    *)
(* with a width in bytes and a hash.  Addresses (kStart, kPos, kLimit, the *)
(* Key cursor, the value views) are absolute, so a reallocation that moves *)
(* the arena must rebase them, exactly as resize() does.  Every key has    *)
(* one column (one put), which is what the arena and probing depend on;   *)
(* the column layout is modelled in KeyLayout.                             *)
(***************************************************************************)
EXTENDS Integers, FiniteSets, SequencesExt

LOCAL INSTANCE Bitwise

CONSTANTS
    Keys,               \* the distinct keys callers may build
    NoKey,              \* what a read of bytes holding no record yields
    Hash,               \* [Keys -> Nat]: hashFunction.hash of the key data
    KeyWidth,           \* [Keys -> Nat]: bytes its put writes (4 int, 8 long)
    ValueBytes,         \* width of the value block (sum of value columns)
    PageSize,           \* constructor's pageSize: initial arena bytes
    InitialKeyCapacity, \* constructor's keyCapacity
    LoadNum, LoadDen,   \* loadFactor = LoadNum / LoadDen
    MinInitialCapacity, \* MIN_INITIAL_CAPACITY (128 in the code)
    MaxResizes,         \* constructor's maxResizes
    MaxSize,            \* bound on the size counter (model bound only)
    Bases,              \* addresses malloc/realloc may return
    Views,              \* the value views: value, value2, value3
    EqReadsHeader       \* TRUE: eq() compares the records' length headers
                        \* (Java getInt); FALSE: it compares the addresses,
                        \* as `int(a) != int(b)` at line 414 is written

ASSUME /\ NoKey \notin Keys
       /\ 0 < LoadNum /\ LoadNum < LoadDen          \* assert at line 224
       /\ PageSize > 3                              \* assert at line 223
       /\ EqReadsHeader \in BOOLEAN

VARIABLES
    kStart, kLimit, kPos,   \* arena base, end, durable append pointer
    arena,                  \* record start offset -> key stored there
    offsets,                \* directory: bucket -> -1 or record offset
    keyCapacity, mask, free, size, nResizes,
    key,                    \* the Key cursor (FastMap.Key)
    views,                  \* value views: [address, isNew]
    ret,                    \* answer of the latest createValue/findValue
    phase,                  \* caller's use of the Key cursor
    viewKey,                \* ghost: the key each view was returned for
    arenaFrees              \* ghost: frees of the arena by close()

vars == <<kStart, kLimit, kPos, arena, offsets, keyCapacity, mask, free,
          size, nResizes, key, views, ret, phase, viewKey, arenaFrees>>

-----------------------------------------------------------------------------
(* Layout and arithmetic of the constructor (lines 222-299).               *)

KeyBlockOffset == 4 + ValueBytes          \* offset after the value block
KeyDataOffset == KeyBlockOffset + 4       \* one 4-byte column end offset
RecLen(k) == IF k = NoKey THEN 0 ELSE KeyDataOffset + KeyWidth[k]

\* (int) (n * loadFactor) and (int) (n / loadFactor), for n >= 0
TimesLoad(n) == (n * LoadNum) \div LoadDen
OverLoad(n) == (n * LoadDen) \div LoadNum

\* Numbers.ceilPow2
CeilPow2(n) == LET RECURSIVE Up(_)
                   Up(p) == IF p >= n THEN p ELSE Up(2 * p)
               IN Up(1)

InitialCapacity ==
    LET c == OverLoad(InitialKeyCapacity)
    IN IF c < MinInitialCapacity THEN MinInitialCapacity ELSE CeilPow2(c)

\* Faulty variant: a directory allocated one slot too long.
EmptyDirOffByOne(c) == [i \in 0 .. c |-> -1]

\* new DirectLongList(capacity), setPos(capacity), zero(-1)
EmptyDir(c) == [i \in 0 .. c - 1 |-> -1]

-----------------------------------------------------------------------------
(* Reading the arena.                                                      *)

KeyAt(o) == IF o \in DOMAIN arena THEN arena[o] ELSE NoKey

HashOf(k) == IF k = NoKey THEN 0 ELSE Hash[k]

\* The arena after a record of key k is written at offset p.
Overwrite(a, p, k) ==
    LET keep == {o \in DOMAIN a : o + RecLen(a[o]) <= p \/ o >= p + RecLen(k)}
    IN [o \in keep \cup {p} |-> IF o = p THEN k ELSE a[o]]

Occupied == {i \in DOMAIN offsets : offsets[i] # -1}

-----------------------------------------------------------------------------
(* Key cursor: init() and the fixed-width puts with checkSize, resize and  *)
(* writeOffset.                                                            *)

NoCursor == [startAddress |-> 0, appendAddress |-> 0, nextColOffset |-> 0,
             len |-> 0, k |-> NoKey]

\* Key.init()
WithKey ==
    /\ key' = [key EXCEPT !.startAddress = kPos,
                          !.appendAddress = kPos + KeyDataOffset,
                          !.nextColOffset = kPos + KeyBlockOffset]
    /\ phase' = "init"
    /\ UNCHANGED <<arenaFrees, kStart, kLimit, kPos, arena, offsets, keyCapacity, mask,
                   free, size, nResizes, views, ret, viewKey>>

\* The bytes of the put at the cursor c of an arena based at base: data at
\* appendAddress, then writeOffset() stores the column end offset.
WriteColumn(k, c, base) ==
    /\ arena' = Overwrite(arena, c.startAddress - base, k)
    /\ key' = [c EXCEPT !.appendAddress = c.appendAddress + KeyWidth[k],
                        !.nextColOffset = c.nextColOffset + 4,
                        !.k = k]
    /\ phase' = "built"

\* putInt/putLong whose checkSize finds room.
PutFits(k) ==
    /\ phase = "init"
    /\ key.appendAddress + KeyWidth[k] <= kLimit
    /\ WriteColumn(k, key, kStart)
    /\ UNCHANGED <<arenaFrees, kStart, kLimit, kPos, offsets, keyCapacity, mask, free,
                   size, nResizes, views, ret, viewKey>>

\* resize(): the arena doubles (or grows to the next power of two of the
\* bytes needed), realloc may move it, and kPos and the three Key cursor
\* addresses are rebased by the move d.
\* Faulty variant: nextColOffset is left pointing into the old arena.
ResizeCursorStaleCol(k, newBase) ==
    LET d == newBase - kStart
    IN [key EXCEPT !.startAddress = key.startAddress + d,
                   !.appendAddress = key.appendAddress + d]

ResizeCursor(k, newBase) ==
    LET d == newBase - kStart
        colOffsetDelta == key.nextColOffset - key.startAddress
        start == key.startAddress + d
    IN [key EXCEPT !.startAddress = start,
                   !.appendAddress = key.appendAddress + d,
                   !.nextColOffset = start + colOffsetDelta]

NewArenaCapacity(k) ==
    LET doubled == (kLimit - kStart) * 2
        target == key.appendAddress + KeyWidth[k] - kStart
    IN IF doubled < target THEN CeilPow2(target) ELSE doubled

PutResize(k) ==
    /\ phase = "init"
    /\ key.appendAddress + KeyWidth[k] > kLimit
    /\ nResizes < MaxResizes
    /\ \E newBase \in Bases :
          /\ nResizes' = nResizes + 1
          /\ kPos' = kPos + (newBase - kStart)
          /\ kStart' = newBase
          /\ kLimit' = newBase + NewArenaCapacity(k)
          /\ WriteColumn(k, ResizeCursor(k, newBase), newBase)
    /\ UNCHANGED <<arenaFrees, offsets, keyCapacity, mask, free, size, views, ret, viewKey>>

\* resize() throws LimitOverflowException; the caller abandons the key.
PutOverflow(k) ==
    /\ phase = "init"
    /\ key.appendAddress + KeyWidth[k] > kLimit
    /\ nResizes >= MaxResizes
    /\ phase' = "idle"
    /\ UNCHANGED <<arenaFrees, kStart, kLimit, kPos, arena, offsets, keyCapacity, mask,
                   free, size, nResizes, key, views, ret, viewKey>>

-----------------------------------------------------------------------------
(* Lookup: commit(), keyIndex(), eq() and the probe loop shared by         *)
(* createValue/probe0 and findValue/probeReadOnly.                         *)

Candidate == KeyAt(key.startAddress - kStart)

\* Faulty variant: only the length headers are compared.
EqLengthOnly(o, len) == RecLen(KeyAt(o)) = len

\* eq(keyWriter, offset) after commit() stored len in the candidate header
Eq(o, len) ==
    /\ IF EqReadsHeader
         THEN RecLen(KeyAt(o)) = len
         ELSE kStart + o = key.startAddress
    /\ KeyAt(o) = Candidate

\* Faulty variant: the directory offset used as an address.
RecordAddressNoBase(o) == o

\* valueOf(kStart + offset, ...): the address of the record at offset o
RecordAddress(o) == kStart + o

\* The bucket where the probe from i stops: the first empty one or the
\* first holding an equal key; -1 when no bucket does (the loop never ends).
RECURSIVE ProbeFrom(_, _, _)
ProbeFrom(i, n, len) ==
    IF n = 0 THEN -1
    ELSE IF offsets[i] = -1 \/ Eq(offsets[i], len) THEN i
    ELSE ProbeFrom((i + 1) & mask, n - 1, len)

CommittedLen == key.appendAddress - key.startAddress

LookupSlot == ProbeFrom(HashOf(Candidate) & mask, keyCapacity, CommittedLen)

\* rehash(): every live offset, in bucket order, is placed in a directory
\* of twice the capacity at the first empty bucket from its key's hash.
RECURSIVE FirstEmpty(_, _, _)
FirstEmpty(ptrs, i, m) == IF ptrs[i] = -1 THEN i ELSE FirstEmpty(ptrs, (i + 1) & m, m)

\* Faulty variant: keys rehashed with the old mask.
RehashOldMask(dir, oldCapacity, capacity) ==
    LET m == capacity - 1
        place(ptrs, o) ==
            IF o = -1 THEN ptrs
            ELSE [ptrs EXCEPT ![FirstEmpty(ptrs, HashOf(KeyAt(o)) & (oldCapacity - 1), m)] = o]
    IN FoldLeft(place, EmptyDir(capacity), [j \in 1 .. oldCapacity |-> dir[j - 1]])

Rehash(dir, oldCapacity, capacity) ==
    LET m == capacity - 1
        place(ptrs, o) ==
            IF o = -1 THEN ptrs
            ELSE [ptrs EXCEPT ![FirstEmpty(ptrs, HashOf(KeyAt(o)) & m, m)] = o]
    IN FoldLeft(place, EmptyDir(capacity), [j \in 1 .. oldCapacity |-> dir[j - 1]])

\* asNew(): the key becomes durable, its bucket is set, free is decremented
\* and, at zero, the directory is rehashed; the view is positioned on it.
AsNew(slot, v) ==
    LET dir == [offsets EXCEPT ![slot] = key.startAddress - kStart]
        capacity == keyCapacity * 2
    IN /\ kPos' = key.appendAddress
       /\ IF free - 1 = 0
            THEN /\ offsets' = Rehash(dir, keyCapacity, capacity)
                 /\ mask' = capacity - 1
                 /\ free' = free - 1 + TimesLoad(capacity - keyCapacity)
                 /\ keyCapacity' = capacity
            ELSE /\ offsets' = dir
                 /\ free' = free - 1
                 /\ UNCHANGED <<arenaFrees, keyCapacity, mask>>
       /\ size' = size + 1
       /\ views' = [views EXCEPT ![v] = [address |-> key.startAddress, isNew |-> TRUE]]

\* Key.createValue(), createValue2(), createValue3()
CreateValue(v) ==
    LET slot == LookupSlot
    IN /\ phase = "built"
       /\ slot # -1
       /\ offsets[slot] = -1 => size < MaxSize
       /\ key' = [key EXCEPT !.len = CommittedLen]
       /\ IF offsets[slot] = -1
            THEN /\ AsNew(slot, v)
                 /\ ret' = <<"create", key.k, TRUE>>
            ELSE /\ views' = [views EXCEPT ![v] = [address |-> RecordAddress(offsets[slot]),
                                                   isNew |-> FALSE]]
                 /\ ret' = <<"create", key.k, FALSE>>
                 /\ UNCHANGED <<arenaFrees, kPos, offsets, keyCapacity, mask, free, size>>
       /\ viewKey' = [viewKey EXCEPT ![v] = key.k]
       /\ UNCHANGED <<arenaFrees, kStart, kLimit, arena, nResizes, phase>>

\* Key.findValue(), findValue2(), findValue3(): null leaves the view as is.
FindValue(v) ==
    LET slot == LookupSlot
    IN /\ phase = "built"
       /\ slot # -1
       /\ key' = [key EXCEPT !.len = CommittedLen]
       /\ IF offsets[slot] = -1
            THEN /\ ret' = <<"find", key.k, FALSE>>
                 /\ UNCHANGED <<arenaFrees, views, viewKey>>
            ELSE /\ views' = [views EXCEPT ![v] = [address |-> RecordAddress(offsets[slot]),
                                                   isNew |-> FALSE]]
                 /\ ret' = <<"find", key.k, TRUE>>
                 /\ viewKey' = [viewKey EXCEPT ![v] = key.k]
       /\ UNCHANGED <<arenaFrees, kStart, kLimit, kPos, arena, offsets, keyCapacity, mask,
                      free, size, nResizes, phase>>

-----------------------------------------------------------------------------
(* Whole-map operations.  The caller drops its cursor and views.           *)

\* Faulty variant: free reset to the capacity, not capacity * loadFactor.
ClearFullBudget ==
    /\ kPos' = kStart
    /\ free' = keyCapacity
    /\ size' = 0
    /\ offsets' = EmptyDir(keyCapacity)
    /\ phase' = "idle"
    /\ viewKey' = [v \in Views |-> NoKey]
    /\ UNCHANGED <<arenaFrees, kStart, kLimit, arena, keyCapacity, mask, nResizes, key,
                   views, ret>>

\* FastMap.clear()
Clear ==
    /\ kPos' = kStart
    /\ free' = TimesLoad(keyCapacity)
    /\ size' = 0
    /\ offsets' = EmptyDir(keyCapacity)
    /\ phase' = "idle"
    /\ viewKey' = [v \in Views |-> NoKey]
    /\ UNCHANGED <<arenaFrees, kStart, kLimit, arena, keyCapacity, mask, nResizes, key,
                   views, ret>>

\* realloc back to the initial page size; size is left as it was.
RestoreInitialCapacity ==
    /\ \E newBase \in Bases :
          /\ kStart' = newBase
          /\ kPos' = newBase
          /\ kLimit' = newBase + PageSize
    /\ arena' = [o \in {o \in DOMAIN arena : o + RecLen(arena[o]) <= PageSize}
                    |-> arena[o]]
    /\ keyCapacity' = InitialCapacity
    /\ mask' = InitialCapacity - 1
    /\ free' = TimesLoad(InitialCapacity)
    /\ offsets' = EmptyDir(InitialCapacity)
    /\ nResizes' = 0
    /\ phase' = "idle"
    /\ viewKey' = [v \in Views |-> NoKey]
    /\ UNCHANGED <<arenaFrees, size, key, views, ret>>

\* valueAt(address): valueOf(address, false, value) for the address of a
\* record, as FastMapRecord.getRowId() returns it for the record in slot i.
ValueAt(i) ==
    /\ views' = [views EXCEPT !["value"] = [address |-> RecordAddress(offsets[i]),
                                            isNew |-> FALSE]]
    /\ viewKey' = [viewKey EXCEPT !["value"] = KeyAt(offsets[i])]
    /\ UNCHANGED <<arenaFrees, kStart, kLimit, kPos, arena, offsets, keyCapacity,
                   mask, free, size, nResizes, key, ret, phase>>

\* Faulty variant: the arena is freed but k_start is not reset.
CloseNoReset ==
    /\ arenaFrees' = IF kStart # 0 THEN arenaFrees + 1 ELSE arenaFrees
    /\ phase' = "closed"
    /\ UNCHANGED <<kStart, kLimit, kPos, arena, offsets, keyCapacity, mask,
                   free, size, nResizes, key, views, ret, viewKey>>

\* close(): the directory is freed and its field set to null (phase
\* "closed" stands for the null field; Misc.free of null does nothing); the
\* arena is freed only if k_start is not 0, and k_start is then set to 0.
\* The records, views and counters are left as they were, in freed memory.
Close ==
    /\ IF kStart # 0
         THEN /\ arenaFrees' = arenaFrees + 1
              /\ kStart' = 0
         ELSE UNCHANGED <<arenaFrees, kStart>>
    /\ phase' = "closed"
    /\ UNCHANGED <<kLimit, kPos, arena, offsets, keyCapacity, mask,
                   free, size, nResizes, key, views, ret, viewKey>>

-----------------------------------------------------------------------------

Init ==
    /\ kStart \in Bases
    /\ kLimit = kStart + PageSize
    /\ kPos = kStart
    /\ arena = [o \in {} |-> NoKey]
    /\ keyCapacity = InitialCapacity
    /\ mask = InitialCapacity - 1
    /\ free = TimesLoad(InitialCapacity)
    /\ offsets = EmptyDir(InitialCapacity)
    /\ size = 0
    /\ nResizes = 0
    /\ key = NoCursor
    /\ views = [v \in Views |-> [address |-> 0, isNew |-> FALSE]]
    /\ ret = <<"none", "none", FALSE>>
    /\ phase = "idle"
    /\ viewKey = [v \in Views |-> NoKey]
    /\ arenaFrees = 0

\* The caller uses the map until it closes it; after close() it may only
\* close it again.
Next ==
    \/ /\ phase # "closed"
       /\ \/ WithKey
          \/ \E k \in Keys : PutFits(k) \/ PutResize(k) \/ PutOverflow(k)
          \/ \E v \in Views : CreateValue(v) \/ FindValue(v)
          \/ \E i \in Occupied : ValueAt(i)
          \/ Clear
          \/ RestoreInitialCapacity
    \/ Close

Spec == Init /\ [][Next]_vars

-----------------------------------------------------------------------------
(* Properties.                                                             *)

TypeOK ==
    /\ {kStart, kLimit, kPos, keyCapacity, mask, free, size, nResizes, arenaFrees} \subseteq Nat
    /\ arena \in [DOMAIN arena -> Keys]
    /\ offsets \in [0 .. keyCapacity - 1 -> {-1} \cup Nat]
    /\ key.k \in Keys \cup {NoKey}
    /\ views \in [Views -> [address : Nat, isNew : BOOLEAN]]
    /\ phase \in {"idle", "init", "built", "closed"}
    /\ viewKey \in [Views -> Keys \cup {NoKey}]

(* Every key in the directory is reachable by the probe from its hash:     *)
(* each bucket from HashOf(k) & mask up to the one holding k is occupied.  *)
(* A lookup stops at the first empty bucket, so a hole would hide k; this  *)
(* is what probe0, probeReadOnly and the reinsertion in rehash() must      *)
(* preserve together.                                                      *)
ProbeChainsUnbroken ==
    \A i \in Occupied :
        LET h == HashOf(KeyAt(offsets[i])) & mask
        IN \A j \in 0 .. ((i - h) % keyCapacity) :
              offsets[(h + j) % keyCapacity] # -1

(* The free counter never lets the directory fill up: the inserts it still *)
(* allows before asNew() rehashes leave at least one empty bucket, so the  *)
(* `while (offsets.get(index) != -1)` loops of probe0, probeReadOnly and   *)
(* rehash() always end.  Relies on the floor arithmetic of free in the     *)
(* constructor, clear(), rehash() and restoreInitialCapacity().            *)
FreeBudgetLeavesEmptySlot ==
    Cardinality(Occupied) + free < keyCapacity

(* Every record the directory points to lies whole below the durable      *)
(* append pointer kPos inside the current arena, and a key being built     *)
(* lies inside [kStart, kLimit) with its column offset cursor where        *)
(* init() and writeOffset() put it, across every realloc in resize().      *)
ArenaLayoutConsistent ==
    /\ kStart <= kPos /\ kPos <= kLimit
    /\ \A i \in Occupied : offsets[i] + RecLen(KeyAt(offsets[i])) <= kPos - kStart
    /\ phase = "built" =>
          /\ kStart <= key.startAddress
          /\ key.appendAddress <= kLimit
          /\ key.appendAddress = key.startAddress + RecLen(key.k)
          /\ key.nextColOffset = key.startAddress + KeyBlockOffset + 4

\* The key the value view v addresses now.
ViewTarget(v) == KeyAt(views[v].address - kStart)

(* A value view returned by createValue, findValue or valueAt is          *)
(* positioned on the record of the key that was asked for: the key looked  *)
(* up (valueOf(kStart + offset) for an existing key, the record start for *)
(* a new one, even when asNew() rehashed first), or the key of the record  *)
(* whose address valueAt was given.                                        *)
ReturnedViewOnItsKey ==
    [][\A v \in Views : views'[v] # views[v] => ViewTarget(v)' = viewKey'[v]]_vars

(* FastMap implements GroupMap: the keys whose records the directory       *)
(* points to are the groups, createValue's isNew() is TRUE exactly for a   *)
(* key not yet present, findValue finds exactly the present keys, and      *)
(* clear()/restoreInitialCapacity() empty the map.                         *)
Groups == {KeyAt(offsets[i]) : i \in Occupied}

GM == INSTANCE GroupMap WITH groups <- Groups, ret <- ret

ImplementsGroupMap == GM!Spec

(* size() counts the groups in the directory (the spec's scenario: three   *)
(* distinct keys inserted, size() returns 3; the cursor walks size records).*)
SizeMatchesDirectory == size = Cardinality(Occupied)

(* A value view the caller holds keeps addressing the record of its key   *)
(* while the caller builds and looks up other keys through the other       *)
(* views (spec: three views may be held simultaneously).                   *)
HeldViewsStayOnTheirKeys ==
    phase # "closed" =>
        \A v \in Views : viewKey[v] # NoKey => ViewTarget(v) = viewKey[v]

(* close() may be called again on a closed map, as Closeable allows: the   *)
(* arena is freed once, because close() frees it only while k_start is    *)
(* not 0 and then sets k_start to 0; a second close() is a no-op, not a   *)
(* double free.                                                            *)
ArenaFreedOnce == arenaFrees <= 1
=============================================================================
