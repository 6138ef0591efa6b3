# TLA+ models of TimesGraph

This directory holds TLA+ models of the parts of the TimesGraph source (`src/`) that have state worth model checking. The models are checked with TLC.

## The system's parts and how they interact

| Part | Source | State and operations | Model |
|---|---|---|---|
| FastMap: offsets directory, probe/lookup engine, arena, Key builder | `src/unnamed/part_000` | `kStart/kPos/kLimit` arena; `offsets` directory (-1 or a record offset per bucket), `mask`, `keyCapacity`, `free`, `size`, `nResizes`; the Key cursor (`startAddress`, `appendAddress`, `nextColOffset`, `len`); three value views. Operations: `withKey` + puts, `createValue`, `findValue`, `clear`, `restoreInitialCapacity`, plus the internal `asNew`, `probe0`, `probeReadOnly`, `rehash`, `resize` and `eq` | `FastMap.tla` (detailed), `GroupMap.tla` (abstract) |
| Value view (FastMapValue) | `part_000` `valueOf`, `mapvalue.v` | address and isNew of a view | part of `FastMap.tla` |
| Record view (FastMapRecord) | `src/unnamed/part_002` | addresses of key and value columns, read back from the offsets the Key builder wrote | `KeyLayout.tla` |
| Record cursor | `part_000` `getCursor` | `cursor.init(kStart, size)` only; the cursor struct is empty | not modelled |
| Map / MapKey / MapValue interfaces | `part_001`, `mapkey.v`, `mapvalue.v` | contract only | `GroupMap.tla` |
| Out-of-order index merge | `src/unnamed/part_003` (`k_way_merge_long_index`, `mergeLongIndexesAsc`, `mergeTwoLongIndexesAsc`) | the tournament tree, entries with read positions, `sentinels_left`, the destination buffer | `KWayMerge.tla` |
| Out-of-order sorts | `src/unnamed/part_003` (`partition`, `quick_sort_long_index_asc_in_place`, `radix_sort_long_index_asc_in_place`, `radix_shuffle`, `sort`) | the array and the radix copy buffer | `OooSort.tla` |
| Variable-length column reorder | `src/unnamed/part_003` (`sortVarColumn`) | the target data and index, the running offset | `SortVarColumn.tla` |
| Rosti SIMD dispatch | `src/vec_ts_agg.h` (`ROSTI_DISPATCHER`) | the function pointer, first set to the dispatcher; the calling threads | `RostiDispatch.tla` |
| Native compare-and-swap | `src/util.cpp` (`Os_compareAndSwap`) | one 64-bit word | `OsCas.tla` |
| Host names, endpoints, RPC failure | `src/network/kernel/utils.cpp`, `serialization.hpp`, `src/lib/rpc/exceptions.hpp` | the resolved address, the Endpoint, the slk stream, the RpcFailedException | `EndpointExchange.tla` |
| KVStore, addrinfo, epoll, StreamBuffer, RPC Session, JIT constants, docs | the other files | no state of their own, or only declarations | not modelled (see below) |

A caller of FastMap (a group-by operator) does the following for each row:
1. It calls `withKey()`.
2. It writes the key columns with the puts.
3. It calls `createValue()` or `findValue()`.
4. It reads or updates the aggregates through the returned value view.

The puts can grow the arena through `resize()`, and `realloc` may then move the arena to a new base. `createValue()` may trigger `rehash()` through `asNew()`.

## FastMap.tla: how the model corresponds to the code

- **Bytes.** Addresses are integers: `kStart` is one of `Bases`, and the arena is `[kStart, kLimit)`. A record's bytes are abstracted to a function `arena` from record offset to the key stored there. The record length is `RecLen(k)` = 4 + value bytes + 4·columns + key width, the layout the constructor computes (`keyBlockOffset`, `keyDataOffset`).
- **Directory.** `offsets` is a function over `0..keyCapacity-1`. `HashOf` is the external `HashFunction`, given per key by the MC module.
- **Key cursor.** The cursor is a record that mirrors `Key`'s fields. The key being built is a ghost field `k`.
- **Actions.** There is one action per operation, and each action is the whole call:
  - `WithKey` (`Key.init`);
  - `PutFits` / `PutResize` / `PutOverflow`: a put that fits, a put that first resizes (with realloc to any base in `Bases`), and a put that throws `LimitOverflowException`;
  - `CreateValue`, which includes `commit`, `probe0`, `eq`, `asNew` and `rehash` when `free` reaches 0;
  - `FindValue` (`probeReadOnly`);
  - `Clear`;
  - `RestoreInitialCapacity`;
  - `ValueAt(i)` (`valueAt`): the `value` view is positioned on the record in slot `i`, at the address `FastMapRecord.getRowId()` returns for it;
  - `Close` (`close()`): the directory is freed, the arena is freed if `kStart # 0`, and `kStart` becomes 0. Phase `"closed"` stands for the directory field set to null. The caller uses a closed map for nothing but another `close()`, so `Close` stays enabled and a closed map is not a deadlock.

  Each action takes a view name `v`, so value, value2 and value3 are the same action with a different target.
- **Arithmetic.** `loadFactor` is the rational `LoadNum/LoadDen`, and every `(int)` cast is `div`. `ceilPow2` is `CeilPow2`.
- **eq.** `Eq` has two readings of line 414, chosen by the constant `EqReadsHeader`:
  - `TRUE`: the length headers are compared, as the comment and `rehash` intend.
  - `FALSE`: the addresses are compared, as the line is written.

`GroupMap.tla` is the abstract promise: a set of groups, where `create` reports isNew exactly when the key was absent, `find` reports whether it is present, and `clear` empties it. `FastMap` maps its directory to `Groups`, the keys of the records the directory points at. `ImplementsGroupMap` checks `GM!Spec` under that mapping.

## FastMap runs

All runs use `MCFastMap.tla` with these bounds:
- Three keys. `k1` (hash 7) and `k2` (hash 15) collide at the initial capacity and wrap around bucket 7 → 0 once 8 buckets exist. `k3` (hash 8) lands in bucket 0, behind `k2`.
- Key widths 4/8/4, 4 value bytes and a 16-byte page. Every key build therefore resizes the arena, and two resizes (`MaxResizes = 2`) reach the overflow path.
- An initial capacity of 2. Inserting the three keys rehashes twice, 2 → 4 → 8 buckets. The main run uses load factor 3/4. The first rehash then truncates: `free += (4 - 2) * 3/4` adds 1, so 4 buckets get a budget of 2 in all, not floor(4 · 3/4) = 3. The drift of the free budget (line 488) is therefore exercised. The other three FastMap runs use load factor 1/2, where no truncation happens.
- Two arena bases {1024, 4096}, so a resize may move the arena or leave it in place.
- `MaxSize = 4` bounds `size`. `size` is never reset by `restoreInitialCapacity`, so without a bound it grows without end.

These bounds reach every branch of `createValue`, `probe0`, `rehash` and `resize`, including wrap-around and relocation. The main run has about 600k states and takes about 15 seconds.

| Run | cfg | Expect | What it shows |
|---|---|---|---|
| `fastmap_core` | `MCFastMap.cfg` | pass | See the properties below. |
| `fastmap_size_after_restore` | `MCFastMap_size.cfg` | violation of `SizeMatchesDirectory` | `restoreInitialCapacity()` leaves `size`: create a key, restore, and `size() = 1` for an empty map. |
| `fastmap_eq_as_written` | `MCFastMap_eq.cfg` | violation of `ImplementsGroupMap` | With line 414 as written, `findValue` misses a key just created, and a second `createValue` reports it new again. |
| `fastmap_held_views` | `MCFastMap_views.cfg` (two views) | violation of `HeldViewsStayOnTheirKeys` | A view taken from `createValue` is left pointing into the old arena when the next key's put reallocates it. The property is about an open map; after `close()` every view points into freed memory by design. |

The properties of `fastmap_core`:
- `TypeOK`: every variable has its type.
- `ProbeChainsUnbroken`: every committed record is reachable by linear probing from its hash bucket without crossing an empty bucket, after any number of rehashes.
- `FreeBudgetLeavesEmptySlot`: the free budget is always smaller than the number of empty buckets, so every probe loop terminates.
- `ArenaLayoutConsistent`: `kStart <= kPos <= kLimit`, and every record the directory points at ends at or below `kPos`. While a key is being built, its record starts at or after `kStart`, ends at or below `kLimit` and has the length of its columns, and `nextColOffset` is one slot past the key block start. All of this holds across resizes that move the arena. The invariant does not state that records are disjoint; `ImplementsGroupMap` catches an overlap, indirectly, as a lost key.
- `ArenaFreedOnce`: a `close()` repeated on a closed map frees nothing. The arena is freed once, because of the `k_start != 0` guard and the reset of `k_start` to 0.
- `ReturnedViewOnItsKey` (action property): a view that createValue, findValue or valueAt repositions addresses the record of the key asked for.
- `ImplementsGroupMap`: FastMap refines GroupMap.

Each property has a mutant in `PROJECT.json`, and TLC finds each mutant violating its property.

## KWayMerge.tla: how the model corresponds to the code

- **Elements.** An input element is `<<ts, j, p>>`: its timestamp, its input and its position. The output can therefore be compared with the inputs element by element.
- **Entries.** `entries` is the `index_entry_t` array, 0-based as in the code: the index, a null flag, `pos` and `size`. Padding entries have a null index and `size = SizeMax`, the image of `(uint64_t) -1`.
- **Tree.** `tree` is `tree[1 .. 2n-1]` of `{value, index_index}`. The leaves are at `n .. 2n-1`.
- **Actions.** There is one action per step of the C code:
  - the two entry points `MergeLongIndexesAsc` (with its `cnt < 1` and `count == 1` shortcuts) and `MergeTwoLongIndexesAsc`;
  - `Seed`, both seeding loops;
  - `FirstWinner`;
  - `RunStep`, one iteration of the full-run loop: back-fill, exit test, replay to the root, emit.
- **Undefined reads.** A read past the end of an index is undefined behaviour and is modelled as any value of `Garbage`: below, equal to or above the timestamps, or `L_MAX`. A read through a null index ends in `pc = "fault"`.

Runs (`MCKWayMerge.tla`):
- Timestamps are {1, 2}, so inputs interleave and tie, and `L_MAX = 3`.
- The inputs are ascending indexes of length up to 2, the callers' precondition.
- `kwaymerge_core` (`MCKWayMerge.cfg`, pass) takes 0 to 4 non-empty indexes. Three indexes are padded to four entries, which exercises the padding sentinels. It checks:
  - `TypeOK`;
  - `MergedIsSortedPermutation`: on return, the merged index is the inputs' elements, each exactly once, in ascending ts;
  - `WritesWithinBuffer`: no read through a null index, and no write past `merged_index_size`.
- `kwaymerge_empty_index` (`MCKWayMerge_empty.cfg`, violation) admits indexes of size 0. TLC finds `<<>>, <<1>>` merged to `<<>>`: the empty index's exhaustion is counted at line 501 and again at line 516. With other garbage, a row is read past the empty index and written beyond the buffer.

The merge is a function that returns, so its runs set `CHECK_DEADLOCK FALSE`. The final states are `done` and `fault`.

## OooSort.tla: how the model corresponds to the code

The sorts are operators over 0-based arrays of `index_t` `<<ts, i>>`, where `i` is the row's position in the input:
- `Partition` and `PartitionLoop` are `partition`.
- `QuickSort` is `quick_sort_long_index_asc_in_place`.
- `RadixShuffle` is the compiled `radix_shuffle` (`RADIX_SHUFFLE == 0`).
- `Offsets` is the counting and offset loops.
- `RadixSort` is the eight passes that alternate array → cpy → array.
- `SortBySize` is `sort<T>`.

The state machine makes one call through one of the three JNI entry points on an array chosen in `Init`.

Unsigned positions are computed modulo `2^IndexBits`, and `ToInt64` reads an unsigned result back as `int64_t`. As in the code, `i = low - 1` wraps at `low = 0`, and `pi - 1` wraps at `pi = 0` and becomes `high = -1`. `IndexBits = 8` in the run: every width above the array length wraps the same way, and TLC's integers cannot hold 2^64.

`Digit` is `(x >> sh) & 0xff`. Timestamps are below `2^TsBits`, so the upper passes see digit 0, as they do in the code for such values.

Freshly malloc'ed `cpy` reads as an `index_t` of no row. A store past the end of a buffer is dropped: it does not land in the buffer.

Run `ooosort_core` (`MCOooPipeline.cfg`, pass; see OooPipeline below for the column half):
- The inputs are every array of 0 to 4 rows over ts {1, 256, 257, 65536}. These values differ in bytes 0, 1 and 2, with repeats, so three passes decide the order and ties occur.
- `SortThreshold` is lowered from 600 to 3 so that `sort<T>` takes both branches.
- It checks:
  - `TypeOK`: every slot of the array holds a row;
  - `SortedPermutation`: every entry point returns the input's rows in ascending ts;
  - `RadixSortIsStable`: after the radix sort, equal timestamps keep their input order.

Quick sort is not stable, so `sort<T>` orders ties differently below and above its threshold. Nothing in the source promises either order.

## KeyLayout.tla: how the model corresponds to the code

KeyLayout models one record, with several key columns of mixed types, as the Key builder writes it and as `FastMapRecord` reads it back. FastMap gives every key a single column; KeyLayout covers what that leaves out.
- `ValueOffset`, `KeyBlockOffset` and `KeyDataOffset` are the constructor's layout (`new_map`, lines 122-176; the FastMap constructor computes it alike).
- `PutFixed`, `PutStr`, `PutBin` and `PutNull` are the puts. Each one ends in `WriteOffset`, which stores `appendAddress - startAddress` in the next end-offset slot. A length above `Integer.MAX_VALUE` throws "row data is too large" instead; the model ends the key in phase `tooLarge`, since the caller abandons it.
- `IntMax` is `Integer.MAX_VALUE` and `ToInt` is the `(int)` cast of a long (the low bits, read as two's complement), used by `writeOffset` and by `commit`. The int width is the constant `IntBits`. The check and the casts do not depend on the width, so the MC model scales it to 8 bits (`IntMax` = 127). Lengths near 127 are then reachable, where lengths near 2^31 are not.
- `Commit` writes the length header.
- `AddressOfColumn` is `FastMapRecord.addressOfColumn` (`part_002`). `StrRange` and `BinRange` are `getStr0`/`getBin`: they read the length prefix and return null for `NULL_LEN`.
- Memory is the map `ints` of the 4-byte ints that were written. A read elsewhere returns `Garbage`.

Run `keylayout_roundtrip` (`MCKeyLayout.cfg`, pass) uses value columns LONG, BYTE, SHORT and key columns STRING, INT, BINARY, STRING. Strings and binaries are null or 0, 1, 2 or 40 long (`Lens`). With 8-bit ints, a 40-character string makes the record 115 bytes long, and the columns after it end exactly at 127 or just past it, so both branches of the check are taken. It checks:
- `TypeOK`;
- `ColumnsRoundTrip`: after commit, every value column lies in the value block; every key column is read where its put started, through the end offset stored for the column before it; strings and binaries read back null or exactly their payload; and every column ends within the length header. The mutant `WriteOffsetUnchecked` drops the `Integer.MAX_VALUE` check; the casts then wrap the header to a negative length, and `ColumnsRoundTrip` fails.

## SortVarColumn.tla: how the model corresponds to the code

`sortVarColumn` rewrites a variable-length column in merged order. For each merged entry `i` it takes `row = index[i].i`, copies `src_data[src_index[row], src_index[row + 1])` to the target at `offset`, records `tgt_index[i] = offset`, and advances `offset` by the length. `Step` is one turn of that loop (`LoopStep` is its body), and the model's `offset` is the returned value.

A byte is the pair `<<row, k>>`, the k-th byte of that row's value, so a byte copied from the wrong row or position is seen. The source index has the end entry that `src_index[row + 1]` reads for the last row.

`OooPipeline.tla` composes the two steps the way a partition is processed: one sort entry point on the index, then `sortVarColumn` over the sorted index (`SortedRows`, the `i` of each sorted `index_t`, is its merged index). `MCOooPipeline.cfg` gives each row of the `ooosort_core` arrays a value of 0 to 2 bytes (empty values included), so the column is rewritten in every order the three sorts produce, ties included. Besides the sort properties, run `ooosort_core` checks `ColumnInSortedOrder` (SortVarColumn's `ValuesInMergedOrder`): at the end, the returned offset is the column's size, and every entry's bytes, from its `tgt_index` to the next entry's, are exactly the value of the row the sorted index names.

The run has about 245k states and takes about 20 seconds.

## RostiDispatch.tla: how the model corresponds to the code

`ROSTI_DISPATCHER(func)` defines a function pointer that starts at `func_dispatch`. `Rosti_func` (the JNI entry, `RostiFunc`) calls `func`, which calls through the pointer (`CallThroughPointer`). The first callers land in the dispatcher (`Dispatch`), which runs `instrset_detect`, stores the best implementation (`SelectImpl`) and calls through the pointer again. The pointer is a plain global, and query workers call the same aggregate from several threads. Its store therefore races with other threads' loads. An aligned pointer store is single-copy atomic on the targets the build supports, so a load sees the old or the new pointer; each load and the store are one step. The machine's `instrset_detect` value is chosen in `Init` and never changes.

Run `rosti_dispatch` (`MCRostiDispatch.cfg`, pass) has three threads, two calls each (about 900 states), and machines at levels 2, 5, 8 and 10. With three threads, two of them can race in the dispatcher while the third loads the pointer one of them already stored. It checks:
- `TypeOK`: the pointer is the dispatcher or an implementation;
- `EachCallRunsOnceOnBestImpl`: every returned call did its work exactly once, on the best implementation for the machine (`BestImpl`, defined independently from the levels each one needs), however the first calls race;
- `EveryCallReturns` (liveness): every call returns, so nobody loops through the dispatcher.

## OsCas.tla: how the model corresponds to the code

`Cas` is `__sync_val_compare_and_swap`: it returns the old value, and stores `newVal` only if the old value was `oldVal`, in one atomic step. Both build variants convert to `int64_t` and behave alike. The Java callers are not in the repository. They are modelled as the usual retry loop (`Read`, then `CompareAndSwap` from the value read to that value plus one, retrying while the returned value differs).

Run `oscas_no_lost_update` (`MCOsCas.cfg`, pass) has three threads with two increments each. It checks:
- `TypeOK`: the word never exceeds the total number of increments;
- `NoLostUpdate`: the word always equals the number of increments the callers were told landed.

## EndpointExchange.tla: how the model corresponds to the code

A node calls `GetHostname` (which may return `nullopt`), then resolves its own hostname or a configured name with `ResolveHostname`. That call takes the first entry of `getaddrinfo`'s `AF_UNSPEC` list and prints it with `inet_ntop` for its family; a failed lookup fails a `TG_ASSERT`, which aborts the process. The node builds the Endpoint and saves it with slk `Save`; a peer runs `Load` and `CanEstablishConnection`, and a failure becomes `RpcFailedException(endpoint)`.
- `getaddrinfo` and `inet_ntop` are tables.
- The slk stream is the sequence of saved values with their C++ types. Loading a value as another type yields `Garbage`, since slk itself writes no types.
- The Endpoint constructor and slk are outside the repository.

`MCEndpointExchange.tla` has:
- a dual-stack host (IPv4 listed first);
- an IPv6-only host;
- a host that does not resolve;
- the literals `127.0.0.1`, `127.1`, `::1` and `::0:1`. glibc's `getaddrinfo` accepts `127.1` through `inet_aton`.

| Run | cfg | Expect | What it shows |
|---|---|---|---|
| `endpoint_exchange` | `MCEndpointExchange.cfg` | pass | `TypeOK`, and `PeerSeesNamedHost`: the peer loads the saved endpoint intact; its address is one of the named host's addresses, whichever family comes first; and an RpcFailedException reports that endpoint. The mutant `ResolveHostnameNoAssert` lets a failed lookup continue with `servinfo` unset (the `TG_ASSERT` only logged), and the peer then loads an address that is not the host's. |
| `endpoint_ip_literal` | `MCEndpointExchange_literal.cfg` | violation of `IpLiteralReturnedAsIs` | The comment on `ResolveHostname` says "if already an ip, just returns it". The code returns `127.0.0.1` for `127.1` (and `::1` for `::0:1`), because it always prints the resolved address. |

## Fairness

FastMap, the sorts, the merge and the endpoint exchange are sequential, synchronous code, so nothing in that code forces any operation to happen. Their checked properties are safety and refinement properties.

`RostiDispatch` assumes weak fairness of the steps of a call in progress (`WF_vars(CallThroughPointer(t) \/ DispatchStep(t))`). A thread with a call in progress is runnable and never waits on anything, so the OS scheduler eventually runs it. Nothing forces an idle thread to make another call, and the code guarantees nothing of the kind. `OsCas` checks only safety: the retry loop is lock-free but not wait-free, and its callers are outside the repository.

## Not modelled, and why

- KVStore is a dummy in which every call is `LOG_FATAL`.
- `AddrInfo` (`part_006`) and the epoll wrapper (`part_007`) are thin OS wrappers. `StreamBuffer` is a struct with no operations.
- In RPC, `Session` (`protocol.hpp`) only declares its constructor and `Execute`; their bodies are not in the repository. The message framing exists only as a comment.
- `consts.h` holds four constants that no code in the repository uses.
- The comment on `RpcFailedException` says it "inherits `std::exception` directly", but it derives from `utils::BasicException`. Nothing a model checks depends on that.
- `part_004` and `Simt_Model.md` are prose.
- Within FastMap:
  - the contents of values (FastMapValue's accessors are not in the source);
  - the byte values of keys;
  - use of a closed map. The modelled caller only closes it again, because every other call would read freed memory.
- In the merge: a failed `malloc` of the merged index (the code has no failure path), and who frees the result of a one-index merge, which is the caller's own index. Both are hazards in `PROJECT.json`.

## Plan

1. Done: FastMap + GroupMap with the refinement, and the three FastMap findings above.
2. Done: `KeyLayout`, with the column end offsets that `writeOffset` stores and `FastMapRecord.addressOfColumn` (`part_002`), checked to give each column its bytes. Also done: `SortVarColumn`.
3. Done: `KWayMerge`, with the empty-index finding.
4. Done: `OooSort` (quick sort with the unsigned wrap, radix sort, dispatch).
5. Not planned: a FastMap run with the asserts off (load factor ≥ 1), or a caller that skips `withKey` after `clear`/`restore`. The callers that would do either are not in the repository. The two hazards in `PROJECT.json` say what each would show.
6. Done: `FastMap.close()` (repeatable, arena freed once) and `valueAt`. Still open: the `new_map` constructor's `close()` on an unsupported value type (lines 159-161). It needs a constructor that can fail, which `Init` is not.
7. The record cursor, if its walk (`FastMapCursor`, absent from the source) becomes available.
8. Done: `RostiDispatch` (with liveness under weak fairness), `OsCas`, `EndpointExchange` with the address-literal finding, and `OooPipeline` composing the sorts with `sortVarColumn`.
