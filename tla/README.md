# CLaMPI in TLA+

CLaMPI is a layer between an application and MPI's one-sided communication. It
caches the data that `MPI_Get` fetches, per process and per window, and is used
by calling `CMPI_Get` and `CMPI_Win_flush` in place of the MPI functions. This
directory holds a model of it, the configurations with which TLC checks the
model on small instances, and proofs, which TLAPS checks, of what matters most
about it for all sizes.

## The system

The library runs in the calling process and has no threads: each call runs from
start to end. What runs beside it is MPI, which fills a get's buffer at some time
between the call and the flush of its target, and the processes that write the
memory the gets read.

| component | state | operations | uses |
|---|---|---|---|
| `CMPI_Get` (`clampi_get.c`) | counts and mean size | lookup, hit, miss, eviction, placement | all of the next four |
| memory buffer and region list (`clampi_get.c`, `clampi_win.c`) | the buffer; descriptors `cl_entry_t` with type, size, offset, two neighbour links; the stack of unused ones | evict and coalesce, choose a destination, carve, reset | free-region index |
| free-region index (`AVL/AvlTree.c`) | AVL tree of the holes by size, nodes from a pool; each hole knows its node | insert, delete by node, best-fit search, empty | |
| hash table (`ht.h`) | four interleaved cuckoo tables of slots (descriptor, time of the last hit, penalty) | lookup, insertion check, insert, remove | descriptors |
| victim scan (`clampi_get.c`) | none | pick an entry on a capacity miss | hash table |
| pending copies (`clampi_get.c`, `clampi_win_flush.c`) | queue of at most 64 copies from origin buffers into the memory buffer; each entry's slot in it | push, drain | MPI's flush |
| window (`clampi_win.c`, `clampi_invalidate.c`, `clampi_win_free.c`) | mode | create, invalidate, free | all |
| adaptive scheme (`clampi_adaptive.c`) | sizes of table and buffer | resize in the middle of a get, reset | statistics |
| statistics, initialisation, copying, random numbers (`utils.c`, `clampi.c`) | counters, two configured sizes | | |

How they interact: a get that misses issues the MPI get, takes the best hole out
of the tree, asks the hash table whether the insertion would meet a conflict, and
evicts the entry named by the conflict or, if there is no hole, by the scan. The
eviction merges the victim with free neighbours; one of them may be the hole that
was taken out of the tree. If the result is large enough the new entry is placed
and hashed and a copy is put on the queue. The data goes to the application's
buffer first; the flush copies it into the cache.

What is hard: an entry may be evicted, and its descriptor and bytes reused,
while its copy is still queued; four structures (list, tree, table, stack) are
rewritten by one get and must agree whatever the order of gets was; insertion
into the hash table is planned on one state and done on another; and resources
are bounded in ways that rest on invariants nobody checks at run time.

What makes each component correct: the regions tile the buffer and the index
holds the holes; the table holds exactly the entries and finds each by its key;
the tree is sorted, balanced and linked; an entry that can be hit holds the
target's bytes; a get returns what `MPI_Get` would. The adaptive scheme must not
show, must leave a table the hash can divide by, and must stop growing.

## Modules

| module | what it is |
|---|---|
| `RmaWindow` | Abstract: a window without a cache. Gets return the target's bytes by the flush of their rank, under MPI's rules. |
| `RegionHeap` | Descriptors, links, free stack and indexed holes as one record; eviction, choice and carving as operators on it. Its only variables are the two sizes it is made for. |
| `ClampiWindow` | One window of one process: `RegionHeap`, the set of entries the hash table indexes, the queue, the bytes of the buffer, MPI, targets and application. One action per return path of `CMPI_Get` and per other call. Implements `RmaWindow`. |
| `Accounting` | What `CMPI_Get` and `cl_get_stats` say about the contents: penalties (modulo 2^16, as a `uint16_t` holds them) and the number of entries, as operators over `ClampiWindow`'s state. |
| `Resizing` | The sizes `cl_adapt` can choose and the counts a scan can report: shared by the next two modules and `VictimScan`. |
| `Adaptive` | The tests and size computations of `cl_adapt` and `cl_reset` with their counters and integer widths. |
| `AdaptiveWindow` | Extends `ClampiWindow` with the steps in which table and buffer are replaced; implements `RmaWindow`. |
| `FreeIndex` | Abstract: the index as a set of regions with a best-fit search. |
| `AvlTree` | The AVL tree node by node; implements `FreeIndex`. |
| `EntryIndex` | Abstract: the hash table as a map from keys to descriptors. |
| `CuckooTable` | The hash table slot by slot; implements `EntryIndex`. |
| `VictimScan` | The scan loop turn by turn. |
| `MC_*` | Instances for TLC. `MC_AvlAny` has a specification of its own, one operation on any AVL tree. |
| `RegionHeap_proofs`, `ClampiWindow_proofs`, `AdaptiveWindow_proofs`, `Accounting_proofs`, `Adaptive_proofs`, `AvlTree_proofs`, `CuckooTable_proofs`, `VictimScan_proofs` | Lemmas about the operators; the theorems. |

The modules are layered.

```
                  RmaWindow
                 /         \
     ClampiWindow <------- AdaptiveWindow (sizes change, Resizing)
      |       |   \             |
  RegionHeap  |  Accounting   Adaptive (when they change, Resizing)
      |       |                 |
  FreeIndex  EntryIndex      VictimScan (what a scan reports, Resizing)
      |       |
   AvlTree  CuckooTable
```

`ClampiWindow` composes the buffer with the queue and
takes the tree and the table in their abstract form: the tree is the set
`free_idx` from which `BestFit` picks (what `FreeIndex` promises), the table is
the set `table` in which a key is found by its descriptor (what `EntryIndex`
promises), and any entry may be the victim. `AvlTree`, `CuckooTable` and
`VictimScan` show that the code delivers this. In return `AvlTree` takes its
capacity, and `VictimScan` the count of entries, from the invariants
`DescriptorsSuffice` and `SizeCountsSlots` of the others.

`Adaptive` and `AdaptiveWindow` divide `cl_adapt` between them: the first has the
counters, thresholds and widths and of the cache only its sizes and the number of
entries; the second has the contents and leaves open whether the counters call for
a change. Three properties join them: `ScanReported` (a scan reports what
`Adaptive` lets it report), `ConflictInAllTables` (a conflict takes four entries,
as `Adaptive` assumes) and `ChangesForeseen` (every change of size `Adaptive` can
make is one `AdaptiveWindow` allows).

### State and actions against the code

`ClampiWindow`: `heap` stands for `table_ptr`, `free_entries` and `free_idx`;
`get_info`, `pending` are fields of `cl_entry_t`; `queue` is
`pending[0..penptr-1]`; `mem` is the memory buffer, byte by byte; a byte that came
from a target is a record of rank, displacement and version, so a wrong, torn or
old byte differs from the right one. `GetHit`, `GetUncached` (in flight, too big),
`GetNotCached`, `GetCached` and `GetExits` are the ways `CMPI_Get` ends; `Flush`,
`Invalidate`, `WinCreate`, `WinFree` are the other calls; `Deliver` is MPI,
`Update` are the other processes. What an application may do is in `MayGet`,
`Update` and `Flush`: it does not reuse a buffer before its get is flushed, no
target changes while a get is outstanding, in user-defined mode it invalidates
after a change. `asked` and `unflushed` record what it did, for the properties.

Before `WinCreate` there is no window and the variables of the cache mean nothing.
`WinCreate` allocates a cache anew, whatever the process had before: the bytes of
the buffer (`NewBuffer`) and the `pending` fields of the descriptors (`NewTable`)
are memory that is not initialised. `FreshPending` says what those fields may hold;
the program writes one before it reads it, and `TypeOK` says that entries have -1 or
a slot of the queue there, whatever the descriptors started with.

A key keeps the displacement modulo `AddrRange`, the int of `cl_get_t`. `mode` is
whether the mode byte reads as `CLAMPI_TRANSPARENT[0]`: it is the low byte of an
address, so `ModeBytes` says which outcomes a build produces.

The refinement `ImplementsRma` maps the application's and MPI's state to itself and
forgets the cache: a hit is `GetNow`, every other get `GetLater`, whatever it does
to the cache.

`AdaptiveWindow`: `ht_entries` and `mem_size`, variables of `RegionHeap` that no
step of `ClampiWindow` but the creation of a new cache changes, are the fields of
those names; `evictions` says which of the two counters of evictions are not zero.
`AdaptiveGet`, `AdaptiveFlush`, `AdaptiveInvalidate` and `AdaptiveWinFree` are
`ClampiWindow`'s with the evictions counted. `GetFlushed` is the way through
`cl_adapt`: MPI has the get, table or buffer is new, everything is reset
(`Emptied`), the call returns `CL_FLUSHED`; `Reset` is `cl_reset`. Both get their
memory from `NewTable` and `NewBuffer`, as `AdaptiveWinCreate` does. `Uncounted` is
what happens outside the cache: MPI's delivery, and changes of targets.
`AdaptiveImplementsRma` maps the state as `ImplementsRma` does.

`Adaptive`: `stat` has the fields of `cl_stats` that `cl_adapt` reads. A get
either evicts nothing (`Get`), meets a conflict (`GetConflict`) or lacks space
(`GetNoSpace`, with any scan result `ScanResults` allows); the last two go through
the tests of `cl_adapt` in their order. The thresholds, doubles of 0.1, are
compared as integers times ten. A new number of slots and a new size of the buffer are
both kept in an `int` first. The former is converted from a double, so one that
does not fit is undefined (`NewHtEntries`: any value); the latter from an unsigned
integer, so it wraps (`NewMemSize`).

`Accounting`: `EvictionChange` and `PlacementChange` are what `CMPI_Get` adds to
the penalties of the neighbours, `Updated` adds it as a `uint16_t`; `Penalties` is
what the penalties are meant to be: the bytes free on both sides of an entry
(`Gap`), modulo 2^16.

`AvlTree`: the two sides of a node are the numbers -1 and 1, the sign they have
in a balance, so that each mirrored pair of rotations is one operator. `tnode` is
the field of the descriptor, kept by `free_entry_replace`. The loops of the code
(descent, search, the way to the successor, the two ways up that restore the
balances) are recursive functions of the number of turns: `DescentStep`,
`CeilingStep`, `LeftStep`, `InsertStep` and `DeleteStep` are one turn each, and a
turn of a loop that is over changes nothing, so that `Capacity` turns are always
enough (this is part of what is proved).

`CuckooTable`: a slot is a descriptor or `None`, which stands for a `lasthit` of
0. The count of gets is a parameter that may be 1 (any number but 0) or 0 (it has
wrapped). The walk of the insertion check (`Path`) and the displacements of the
insertion (`Turns`) are recursive functions of the number of steps. Scores are left out: any entry
the check has seen may be the victim.

`VictimScan`: the table is arbitrary and does not change during the scan.

## Runs

| run | instance | shows |
|---|---|---|
| `window_core` | 3 bytes, 2 slots (4 descriptors), 3 buffers, queue of 2, gets of 1, 2 and 3 bytes, new `pending` fields of 0, both mode bytes, 1 change of the target | data: `CachedDataRight`, `GetsReturnTargetData`, `PendingCopyMatches`, `TypeOK`; `ClampiWindow` implements `RmaWindow` |
| `window_layout` | 3 bytes, 3 slots (6 descriptors), gets of 0, 1, 2 and 4 bytes, new `pending` fields of 0 | structure: `RegionsTile`, `HolesIndexed`, `TableMatchesHeap`, `WithinCapacity`, `DescriptorsSuffice`, `VictimExists`, `FreeRegionIsUsed`; accounts: `PlacementPenaltiesRight`, `EvictionPenaltiesRightWhen`, `StatsOneTooMany` |
| `adaptive_window` | 2 or 3 slots, 2 to 16 bytes, 2 buffers, gets of 1 and 2 bytes, new `pending` fields of 0, the first slot of the queue, both mode bytes, 1 change of the target | `SoundForSizes`, `CopiesMatch`, `BufferStopsGrowing`; `AdaptiveWindow` implements `RmaWindow` |
| `adaptive_sizes` | 15 slots at first, 11 or 22 after a change and on from there up to 24, scans of 10 slots, up to 13 gets between resets, ints of 8 bits | `HashHasSlots`, `ScansFitTable`, `ChangesForeseen` |
| `avl_any` | every AVL tree of 0 to 12 nodes, sizes all different or equal in pairs, one operation | `TreeOK`, `NodeOfRegion`, `Sorted`, `Balanced`; each operation is the one of `FreeIndex` (`StepsImplementIndex`) |
| `cuckoo_index` | 8 slots, 6 keys that collide in all tables but one, 5 descriptors, limit of 4 displacements | `CuckooTable` implements `EntryIndex`; `EntriesInPlace`, `SizeCountsSlots`, `ConflictInAllTables` |
| `victim_scan` | all tables of 6 slots, scores 1, 2 and NaN, sample of 3 | `FindsVictim`, `VictimIsLeast`, `ScanReported`, `ScanEnds` |

Why the bounds are enough to be of interest. In `window_core` two gets can be
pending while the first is evicted and its descriptor or bytes are taken by the
second, and a third buffer overfills the queue; three bytes allow a request to be
split off, merged left, right and on both sides. New `pending` fields are 0, the
first slot of the queue, which the first get after a creation or resize takes;
descriptors that have been in use are handed out with other stale values, and
the theorems hold for any. `window_layout` has one more slot
and empty gets, so that a hash conflict can evict an entry that is not next to the
selected hole, and a capacity miss can evict one and still find no room. In
`adaptive_window` the table grows and shrinks back, and the buffer doubles
until it can hold both requests in any layout; sizes beyond `HtSizes` and
`MemSizes` are left out, which `BufferStopsGrowing` says cost nothing for the
buffer. `adaptive_sizes` needs a table of more than ten slots, ten being
the length of a scan, for `cl_adapt` to make it smaller; with 15 slots and 13 gets it does so, and a
table that has been made smaller is made smaller, or larger, again. Trees of 12
nodes are the smallest in which a deletion rotates at two levels; since `avl_any`
starts from every tree, it covers histories of any length on trees of that size.
With `NumberKeys` and `SkewHash` four entries close a cycle of displacements, and
other walks find an empty slot just before or just after the limit of 4. With
`CMPI_HASH` and tables of even size all four tables agree on which keys collide,
modulo two (its factors are odd), so that a small instance would meet no conflict
at all; it is used where the values of the hash do not matter (`cuckoo_wrap`).

Bounds that are not in the code: `MaxVersion` caps the changes of target memory,
`MaxGets` the gets between two resets, `MaxHt`, `HtSizes` and `MemSizes` the sizes.
`PendingStack`, `MaxInsert`, `MaxScan`, `AddrRange`, `IntRange`, `LongRange`,
`CacheLine` are the code's limits, made small. Deadlock checking is off where the
system may stop: the process has exited (window and adaptive runs), the one
operation or the scan is done. Window and cuckoo runs use symmetry of buffers and
descriptors, which the specifications only compare.

### Disagreements between the code and what is said of it

Five runs end in a counterexample.

- `flush_other_rank`: `CMPI_Win_flush(rank)` completes the gets to one rank and
  then drains the whole queue. Entries of other ranks are filled from buffers MPI
  has not written, and stay in the cache. Under `AnyTarget = FALSE`, an
  application that never has gets to two ranks outstanding, the data is right
  (`window_core`).
- `aint_narrowing`: keys keep displacements in an `int`; two that are 2^32 apart
  are the same key.
- `transparent_mode`: the requested mode never reaches `cache->mode`.
- `cuckoo_wrap`: when the 32-bit count of gets wraps to 0, the entry hit or
  inserted by that get is in a slot that reads as empty. The other cuckoo runs
  assume fewer than 2^32 gets between two resets.
- `adaptive_overflow`: "increasing mem size" computes the doubled size in an
  `int`. From the default of 128 MiB the fourth step overflows, nothing can be
  allocated, and the process exits.

Two more show in properties that hold, and say exactly how far the code is right:

- `EvictionPenaltiesRightWhen`: after an eviction the penalties of the neighbours
  are right only if the victim swallowed no hole and, at the start of the buffer,
  has none before it; and if no entry follows, only if the one before is empty (the
  bytes of that entry are added where they should be subtracted,
  `clampi_get.c:326`). All this modulo 2^16: a `uint16_t` may hide an error, or a
  gap. Penalties choose the victim and nothing else.
- `StatsOneTooMany`: `cl_get_stats` takes the index of the top of the descriptor
  stack for the number of descriptors on it, and reports one entry too many.

## Fairness

Safety needs none, and none is assumed for the window, the tree and the table:
nothing obliges an application to make another call. `VictimScan` has weak
fairness of its next step for `ScanEnds`, since the loop is sequential code
without waiting.

## Proofs

All theorems hold for every value of the constants that satisfies the named
assumptions of the modules; where one needs more, that is a hypothesis of the
theorem with a name, and listed here.

**Structure** (`RegionHeap_proofs`, `ClampiWindow_proofs`; no hypothesis).
`RegionsAlwaysTile`, `HolesAlwaysIndexed`, `TableAlwaysMatchesHeap`,
`NeverOverCapacity`, `DescriptorsAlwaysSuffice`, `VictimAlwaysExists`,
`FreeRegionAlwaysUsed`, `TypeCorrect`, `PendingCopyAlwaysMatches`. `HeapInv` is
inductive: the heap has its type, the regions tile the buffer, holes are not
neighbours, the index holds the holes, the table is the set of busy regions and is
no larger than it may be. Tiling alone would not do: coalescing is what bounds the
number of holes, hence of descriptors in use and of tree nodes; and that a
placement finds a descriptor is needed to show that it keeps the tiling.
`RegionHeap_proofs` has one group of lemmas per operator (`Absorb`, `Evict`,
`HeapAfterEvict`, `Carve`), each saying that a part of the invariant survives, some
of them in a state where a hole has left the index. A heap without a busy region
is shown to be one hole as large as the buffer, from which `VictimAlwaysExists`
follows, and counting gives `FewHoles`: between two holes there is an entry, so
there is at most one hole more than there are entries. `PendingCopyMatches` is
inductive together with `HeapInv` and the types. `TypeCorrect` is proved from
`Written`: an entry's `pending` field has been written since its descriptor left
the stack, so it does not matter what new descriptors hold. The lemmas are the steps, one for
each way a get ends, so that a failing step names the path of the code.

**Data** (the second part of `ClampiWindow_proofs`). `CachedDataAlwaysRight`,
`GetsAlwaysReturnTargetData` and the refinement `ImplementsRmaAlways`, under three
hypotheses that the code does not see to. Each has a run that shows the violation
without it:

| hypothesis | says | without it |
|---|---|---|
| `FlushesAll` | a flush leaves no get to another rank outstanding | `flush_other_rank` |
| `KeysTell` | displacements fit the `int` of a key: no two requests have the same | `aint_narrowing` |
| `ModeReads` | a window asked to be transparent reads as transparent | `transparent_mode` |

The instances `window_core` and `adaptive_window` satisfy all three (`AnyTarget` is
`FALSE`, `AddrRange` is larger than any displacement, the mode asked for is
`USER_DEFINED`). Neither property is inductive: a hit returns right bytes because
the cache holds them, the cache holds them because a flush copies buffers that MPI
has filled. `DataRight` is both; with it goes `Bookkeeping`, what a flush relies on:
a copy it makes belongs to an entry that is still there, every buffer waiting for a
flush has a request, and there are no more pending copies than such buffers, from
which the refinement gets that the process ends only when its queue is too short.
`FlushedRight` is the heart: the only copy the flush makes to a byte of an entry is
the entry's own (`OwnCopyOnly`), for a copy is made only if the entry has its slot
in its `pending` field, and regions do not overlap.

**Resizing** (`AdaptiveWindow_proofs`). A step of `AdaptiveWindow` is one of
`ClampiWindow`, an emptied cache in a get, or a reset (`AdaptiveSteps`), so the
invariants above are used as they stand, sizes being variables.
`AlwaysSoundForSizes` and `PendingCopiesSurviveResizing` need no hypothesis: new
descriptors may hold anything in `pending`, since no entry has one of them until it
is written. `CopiesAlwaysMatch` and the refinement `AdaptiveImplementsRmaAlways`
need the three of the previous paragraph. `BufferAlwaysStopsGrowing` needs finitely
many requests. Its core is `SpaceLacking`: when a get finds no hole, each byte
of the buffer is in an entry, which answers a request other than the one at hand,
or in a hole smaller than it, and a hole belongs to the entry after it or is the
last region; so the bytes inject into `LacksSpace`. The invariant `LackCounted` says
that once an eviction for lack of space has been counted, the buffer is still one
in which space can lack, which fails if a resize leaves the counters as they were.

**When sizes change** (`Adaptive_proofs`). `ScansAlwaysFitTable` holds for every
configured size of at least four slots, every length of a scan and every width of
the integers. `HashAlwaysHasSlots` needs `TablesFit` besides: no table is asked for
whose number of entries does not fit an `int` (one of 2^31 entries would need more
than 100 GB of descriptors; `adaptive_sizes` has tables of up to 24, and 128 is the
first number that does not fit). `HashHasSlots` is not inductive: a table of four
slots, made smaller, has three. What saves it are the counters (`ScansFitTable`): a
scan meets an entry and looks at no more slots than there are, so a table in which
scans meet fewer than one entry in ten slots has more than ten slots. That in turn
rests on the reset of the counters at each change of size, which is why the two are
proved together. `ChangesAlwaysForeseen` shows that the doubled size, computed in an
`int`, is the one `AdaptiveWindow` computes in the naturals, or the process ends.
Its hypotheses are `TablesFit`, `LinesFit` (two cache lines divide the range of an
`int`), `BufferFits` (the configured buffer fits one) and `NegativeTooLarge` (what a
negative `int` reads as cannot be allocated). Line, `int` and `long` are 64, 2^32
and 2^64 in the code, 4, 256 and 65536 in `adaptive_sizes`. The invariant is
`WholeLines`: the buffer is a multiple of the line and fits an `int`, so doubling it
overflows to a negative number or not at all.

**Hash table** (`CuckooTable_proofs`). `EntriesAlwaysInPlace`,
`SizeAlwaysCountsSlots`, `ConflictAlwaysInAllTables` and the refinement
`ImplementsIndexAlways`, for all keys, hash functions, sizes and limits. They need
`Unwrapped`, that no count of a get is 0 (`cuckoo_wrap` shows what happens
otherwise); the third also `LongWalk`, a limit of displacements not below the
number of tables less one (the code has 10 and 4). The question is whether
`ht_insert`, which displaces entries along a path, may leave one without a slot.
`InTable` is the invariant relative to a set of entries, all but the one that is on
its way; `EndsAtHole` shows that this ends: the path `ht_insert_check` has walked
ends at an empty slot, or the victim has been one of the entries on it and its slot
is empty now; until the first empty slot the path meets no slot twice
(`NoneTwice`), so the displacements made so far do not change the rest of it. The
path and the displacements are recursive functions. The library's induction
theorems take an operator as a parameter and cannot be used; `AllNaturals` is
induction for a set of naturals, from the fact that the ordering of finite sets is
well founded.

**Accounts** (`Accounting_proofs`; no hypothesis). `StatsAlwaysOneTooMany` from
`HeapInv`: every descriptor is on the stack, which has no repetitions, or holds a
hole or an entry. `PlacementPenaltiesAlwaysRight` and
`EvictionPenaltiesAlwaysRightWhen`: a gap, which the code computes from offsets, is
the size of a hole next to the entry (`GapsAreHoles`), so an update is right if it is
the difference of the holes before and after; a placement splits one hole, an
eviction merges up to three regions into one. That an update modulo 2^16 is right
exactly if the difference is right modulo 2^16 is `RightUnless`.

**Scan** (`VictimScan_proofs`; no hypothesis). `VictimFound`, `VictimAlwaysLeast`
and `ReportForeseen` hold for every table, start, length of the sample and
assignment of scores, some of them not numbers. The inductive invariant says that
the counters are the sizes of the sets of slots seen and entries met, and that the
victim is the best entry met. A scan that goes on has not gone round (`NotRound`):
after a round it would have met every entry, and stopped. Hence it sees a new slot
in each turn, which keeps the counts right; `Ring` is the arithmetic on the index
that this needs.

**Free-region index** (`AvlTree_proofs`; no hypothesis). `TreeAlwaysOK`,
`NodeAlwaysOfRegion`, `AlwaysSorted`, `AlwaysBalanced`, `StepsAlwaysImplementIndex`
and the refinement `TreeImplementsIndex`, for every number of nodes, all sizes and
every history. The properties are about the subtree and the height of a node, which
are defined by recursion along links that an operation is rewriting. The
invariant, `IndexOK`, therefore says of a tree that there *are* two functions,
`B` and `h`, that satisfy one equation at each node (`Sound`): `B` is the set of nodes
below it (`Linked`, with both directions of the links), `h` the height of that set
(`Proper`, with the balance), and the keys in `B` on either side are on that side
(`Ordered`). An operation changes the links at a few nodes, and its lemmas give the
changed functions. `BelowFacts` and `HeightFacts` show that the functions are the
`Below` and `Height` of the properties. `IndexOK` also says that the stack has no
repetitions and that each region in a used node knows the node; `avl_any` checks
the parts of it that TLC can evaluate, from every tree.

The argument has these parts.

- Rotations. `RotateMends` and `RotatedTwice`/`RotateTwiceMends`: a node two out of
  balance, in a tree that is otherwise right, is right after the rotation, its subtree
  has the same nodes in the same order and either its old height or one less. Both
  sides are one proof, in terms of `Tilt`, the balance counted towards a side.
- Walks up. `Walking` is the invariant of both loops: all nodes are right but the one
  the walk has come to, which is wrong by the change that the walk carries, and that
  node has more nodes below it with every turn. `MendsGrow` and `MendsShrink` pass it
  to the parent; `InsertBalanceFacts` and `DeleteBalanceFacts` end it.
- Insertion. `PlaceFacts`: the descent ends at a node without a child where the key
  belongs. `AttachFacts`: the tree with the new leaf is the start of a walk up.
- Deletion. Three lemmas about trees, not about the code: taking out a node that lacks
  a child (`SpliceOut`), changing a key to one that fits in its place (`Rekeyed`), and
  exchanging a node for an unused one (`Swapped`). `DeleteLeafFacts`, `ReplaceFacts` and
  `DeleteInnerFacts` compose each case of `Tree_DeleteNode` from them: a node with two
  children takes its successor's key, the successor is spliced out, and is then
  swapped in for the node. So a deletion that moves a node and one that moves
  a region are the same to the rest of the proof.
- Search. `Searching`: what is large enough is below the node the search has come to,
  or no smaller than the best so far.
- `InsertOK`, `DeleteOK`, `EmptyOK` and `SameOK` put this together: `IndexOK` is kept,
  and the set of indexed regions changes as `FreeIndex` says.

Induction over trees is `TreeInduction`, from `LeastNatural` (a set of naturals has a
least element) applied to the numbers of nodes below; that a recursive function of
the turns exists is `Iteration`.

Checked by TLC only: `ScanEnds`, a liveness property, which the prover cannot
establish, and the five runs that end in a counterexample.

## Not modelled

The contents of `sse_memcpy`; the moving mean of message sizes and the value of a
score, which only choose among victims; counters of statistics that nothing reads;
parsing of the environment variables, whose results are constants (a table of fewer
than four slots and a buffer of 2 GiB or more are excluded by the assumptions or by
the instances); allocation failures at creation, which end the process; gets of
4 GiB or more, whose size is truncated to 32 bits; target datatypes, of which
`CMPI_Get` looks at none; memory that is leaked; printing; traversal functions of
the tree that nothing calls.

## Plan

Done, in this order: `RegionHeap`, `ClampiWindow` with its runs, the proofs of
its structure, `FreeIndex` and `AvlTree`, `EntryIndex` and `CuckooTable`,
`VictimScan`; then `RmaWindow` and the refinements, `Resizing`, `Adaptive` with its
proofs, `AdaptiveWindow`, `Accounting`, and the proofs about the scan; then the
proofs about data, resizing, the hash table and the penalties; then the AVL tree
again, its walks as recursive functions, with its proofs.

Not planned, for the reasons given under "Not modelled": the arithmetic of the
scores, sizes beyond 32 bits, and the memory that is never released. Where they are
hazards they are listed in PROJECT.json without a property.
