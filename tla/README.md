# TLA+ models of circ

circ is a concurrent reference-counting library for lock-free data structures.
It combines atomic strong reference counts with an epoch-based reclamation
(EBR) backend, so that a block whose count reaches zero is freed only after
every reader that might still hold a `Snapshot` of it has left its critical
section. This directory holds TLA+ models of the library, written from the
sources under `src/`, and TLC configurations that check them.

## 1. Inventory

### Sources

| File | Contents |
|---|---|
| `src/src/internal/utils.rs` | `RcInner` (data plus an `AtomicU32` strong count), `increment_strong`, `decrement_strong`, `try_zero`, `Tagged` (low-bit user tag). |
| `src/src/internal/smr/ebr.rs` | `CsEBR`, the adapter to crossbeam-epoch: `new` (pin), `defer` (deferred with a guard, run at once without one), `clear` (repin), `acquire`. |
| `src/src/strong.rs` | The public types: `AtomicRc`, `Rc`, `Snapshot`, `NewRcIter`, `EdgeTaker`/`TryIRD` (the IRD hooks), `with_timestamp`. |
| `src/tests/harris_list.rs` | A Harris lock-free ordered map built on `AtomicRc`/`Snapshot` (test client). |
| `src/tests/doubly_linked_queue.rs` | An MPMC queue with `Weak` back-links (test client, written against an older API). |

The files come from more than one revision of the crate. `strong.rs` calls
`decrement_strong(cnt, n, guard)`, `RcInner::alloc`, `increment_weak`,
`try_ird_with_raw` and the `ebr_impl` module. None of these is under `src/`.
The `RcInner` under `src/` has only a strong count and decrements by one. Where
the model needs code that is not under `src/`, it follows `spec.md`, and the
definition is marked `spec_modelled` in `PROJECT.json`.

### Components, their state and operations

1. **Tagged pointer.** State: one machine word. It holds the referent, a user
   tag in the low bits, and the epoch stamp in the high bits, written by
   `with_timestamp` on every install. Operations: `with_tag`, `tag`,
   `ptr_eq` (ignores the stamp), strict `==` (used by the CAS).
2. **Counted block (`RcInner`).** State: `strong` (u32). Operations:
   - `increment_strong`: `fetch_add(1)`, then a second `fetch_add(1)` if the
     old count was 0 (resurrection).
   - `decrement_strong`: `fetch_sub`. The thread that reaches zero defers
     `try_zero`.
   - `try_zero`: `fetch_add(0)`. At zero it disposes and deletes the block.
     Otherwise it decrements again.
3. **EBR backend.** State: the global epoch, and for each thread whether it is
   pinned and in which epoch. Also the bags of deferred closures, each sealed
   with an epoch. Operations:
   - pin, unpin (guard drop), repin;
   - advance: the epoch moves on once every pinned thread has reached it;
   - collect: runs closures sealed at least two epochs ago.
4. **IRD engine.** When a block is disposed, `pop_edges` moves its outgoing
   `Rc`/`AtomicRc` fields into `EdgeTaker`. Each edge is decremented. A
   successor whose count reaches zero is destroyed inline when its
   installation stamp is old enough; otherwise it is deferred (spec 4.4).
5. **`AtomicRc`.** State: one tagged link that owns one strong unit.
   Operations:
   - `load`;
   - `store`: a swap, then a decrement of the old block;
   - `swap`;
   - `compare_exchange` and `compare_exchange_weak`: a loop that retries when
     the links differ only in the stamp;
   - `compare_exchange_tag`;
   - `take`, `drop`.
6. **`Rc`, `Snapshot`, `NewRcIter`.**
   - An `Rc` owns one unit. `clone` increments; `drop` and `finalize`
     decrement.
   - A `Snapshot` owns nothing and is valid while its guard lives. `counted`
     increments.
   - `new_many_iter` allocates a block with `strong = n` and hands out up to
     n handles. `abort` and `drop` give back the rest in one decrement.
7. **`Weak` family.** Not under `src/`, and the `RcInner` under `src/` has no
   weak count. `strong.rs` has `downgrade`, `weak_many` and
   `Snapshot::downgrade`. Spec 4.2 supplies the rest: a weak count that
   starts at 1, is released by dispose, and frees the memory when it reaches
   0.
8. **Test clients.** The Harris map: `find_harris` with its cleanup CAS,
   `insert`, and `remove` (tag `next`, then unlink). The doubly linked queue:
   `enqueue`, which helps the previous enqueue, and `dequeue`.

### How they interact

- Clients call `Rc`/`AtomicRc`/`Snapshot` operations.
- The count operations run on `RcInner`. A decrement to zero calls
  `CsEBR::defer` with a closure that runs `try_zero`.
- The EBR backend runs the closure later, on whichever pinned thread collects.
  There, `try_zero` may decrement again and defer again, or dispose the block.
  With IRD, disposing a block decrements its successors in turn.
- Threads share the slots (`AtomicRc`) and the counters. Bags are per thread.
  There are no locks.

### What is hard

- **Resurrection.** A reader can `counted()` a block whose count another
  thread has just brought to zero. Only the two-step `increment_strong` and
  the re-check in `try_zero` keep the count right. The window between the two
  `fetch_add`s is protected only by the reader's guard.
- **Grace periods.** The deferred `try_zero` must not run while any thread
  that loaded the block is pinned. This depends on the epoch under which the
  closure is filed.
- **Multi-step handlers.** `store` (swap, then decrement), `try_zero` (read,
  then decrement) and the CAS loops are each several atomics. Other threads
  act in between.
- **IRD.** Destroying a successor inline skips the grace period, and is
  justified only by a stamp that was written before the CAS loop started.
- **Counts at the edge.** `NewRcIter` gives back n units in one decrement.
  The count is a wrapping u32.

### Properties that make each component correct

- **RC protocol and EBR:**
  - no use after free;
  - the count is never below the number of holders;
  - exactly one destroyer per block;
  - no leak: a block nobody holds has its `try_zero` pending.
- **`AtomicRc`:**
  - a CAS succeeds exactly when the link matches its expected value up to the
    stamp;
  - a tag CAS never changes the referent (spec 8f).
- **IRD:** inline destruction never frees a block that some pinned thread can
  still reach.
- **Tagged pointer:** the `with_tag`/`tag` round trip (spec 8.4).
- **Harris map:** it behaves like an ordered set: it refines an abstract
  set in which every answer is tied to an effect (an insert that reports
  "not found" added its key, a remove that reports "found" deleted it) or
  held at some moment of the call. Reclamation of removed nodes is
  covered by the `CircRc` model.
- **Queue:** FIFO order; no element is lost or duplicated (spec 8b).

## 2. Plan

Done:

- `CircRc`: the strong count, EBR, `Rc`/`Snapshot`/`NewRcIter`, `AtomicRc`,
  node fields, IRD and the weak count.
- `TaggedPtr`: the tag bit arithmetic.
- `HarrisList` and `AbstractSet`: the Harris map of `tests/harris_list.rs`,
  shown to refine an abstract set (section 5).
- `DoubleLinkQueue` and `AbstractQueue`: the queue of
  `tests/doubly_linked_queue.rs`, shown to refine a FIFO queue (section 6).
- Lock-freedom of the list and the queue under weak fairness of running
  calls (`LockFree` in the `harris` and `queue` runs).
- The strong count at the edge of its width (`rc_overflow`, finding 3).

Still to do, in order of importance:

1. **`AbstractRc`** and a refinement run: an abstract lifetime per block
   (unallocated, held, unreachable, freed). `CircRc` is shown to implement it
   via `INSTANCE ... WITH`, checked as a `PROPERTY`.

## 3. Module `CircRc`

### Correspondence with the code

Constants choose the configuration of the client program:

| Constant | Meaning |
|---|---|
| `Owner[s]` | `Null` for a root `AtomicRc`. Otherwise the block whose single field `s` is. |
| `Ird` | `TRUE`: dispose pops the fields into `EdgeTaker` for IRD. `FALSE`: `ManuallyDrop::drop` of the data, as `RcInner::dispose` under `src/` does. |
| `ClientOps` | Which of `swap`, the CAS family and `weak_many` the client calls. |
| `MaxRc`, `MaxWeak`, `MaxMany`, `MaxSnaps`, `MaxTag`, `MaxEpoch` | The bounds, one per unbounded quantity. |

State:

| Variable | Code |
|---|---|
| `global`, `pinned`, `local` | the crossbeam global epoch; each thread's pin state and pinned epoch |
| `deferred` | the bags of deferred `try_zero` closures: a bag of ⟨block, epoch filed under⟩ |
| `strong` | `RcInner.strong`, modulo `2^CountBits` |
| `weak` | the weak count of spec 4.2. Its initial unit belongs to the strong handles as a group. |
| `state` | unallocated, live, disposed (data dropped, memory kept for `Weak`s), or freed |
| `slot` | `AtomicRc.link`, a record ⟨referent, tag, stamp⟩: a root or a node field |
| `owned`, `wowned` | the `Rc` and `Weak` handles each thread holds |
| `snaps` | the `Snapshot`s a thread holds. They end when its guard is dropped or repinned. |
| `iter` | a thread's `NewRcIter` |
| `pc` | the step a thread is in the middle of |

The values of `pc`:

- `inc2`: between the two `fetch_add`s of `increment_strong`.
- `dec`: a decrement still owed, either by a `store` or by `AtomicRc::drop`
  of a disposed block's field.
- `cas`: inside a compare-exchange loop, with the current expected link.
- `tz`: between the read and the decrement of `try_zero`.
- `ird`: a popped edge that IRD has still to process.

Each action is one atomic step of the code:

- EBR: `Pin`, `Unpin`, `Repin`, `Advance`, `Collect` (`try_zero` up to its
  read; at zero, dispose), `TryZeroDec`.
- Handles: `RcNew`, `RcNewMany`, `NewManyIter`, `IterNext`, `IterEnd`,
  `Clone`, `Counted`, `IncSecond`, `DropRc`, `RcSnapshot`, `SnapWithTag`.
- Links: `NewNode` (`AtomicRc::from(Rc)` into a fresh block's field),
  `NewNodeFromRef` (`AtomicRc::from(&Rc)`: the handle is cloned and kept),
  `NewNodeFresh` (`AtomicRc::new(x)`: the child is allocated with the
  field holding its only count), `Load`,
  `Store`, `StoreDec`, `Swap`, `Cas`, `CasTag`, `CasStep`.
- IRD: `IrdStep`.
- Weak: `Downgrade`, `WeakMany`, `DropWeak`, `Upgrade`.

`PROJECT.json` maps each action to its lines.

Dispose is part of the step that runs it (`Collect`, or `IrdStep` inline).
It releases one weak unit, which frees the memory if it was the last. It then
empties the block's fields in the same step, since `take` and `ManuallyDrop::drop` run inside
the closure. The decrement the dropped field owes follows as the thread's next
step (pc `dec`, or `ird` under IRD).

A field is read, written or CASed only by a thread that holds its block through
an `Rc` or a `Snapshot`. That is what `as_ref` demands (`Accessible`).

A decrement to zero files its `try_zero` under the global epoch it reads.
crossbeam seals a bag with the global epoch, never an older one. `Collect` runs
a closure once `global >= epoch + 2`. `Rc::drop` with no guard pins a fresh
guard, and so does `AtomicRc::drop`. Neither changes the filing epoch.

### Properties

- `TypeOK`.
- `NoUseAfterFree`: no slot, handle, `Snapshot` of a pinned thread, step in
  progress or pending `try_zero` names a disposed block, and no `Weak` names
  a freed one (spec 3, 8.2, and the guard guarantee of spec 5).
- `CountCoversHolders`: while a block is live, `strong` is at least the number
  of slots, `Rc`s, unproduced iterator handles and owed decrements that name
  it (spec 8.1).
- `OneDestroyer`: at most one `try_zero` per block is pending or running
  (spec 3).
- `UnheldIsScheduled`: a live block that nothing holds, and that no thread is
  resurrecting, has its `try_zero` pending (the no-leak half of spec 8.5 and
  8e).
- `NoLeakedMemory`: a disposed block stays allocated only while some `Weak`
  names it (spec 3: weak 1 → 0 frees the block). Only `weak_many_leak`
  checks it, and finds it violated.

### Runs

| Run | Config | Instance | Result |
|---|---|---|---|
| `rc_core` | `MCCircRc.cfg` | 2 threads, 1 block, 1 root slot, epochs 0..2, up to 2 handles, `new_many`/`new_many_iter` up to 2, swap and CAS. Shows the resurrection race and the n-unit decrement. | pass, 838k states, about 1.5 min |
| `rc_cas` | `MCCircRc_cas.cfg` | As `rc_core`, with tags 0..1 and one handle per thread. Exercises `compare_exchange`, `compare_exchange_tag`, retagged Snapshots, and the retry after a re-stamped link. | pass, 800k states, about 1.5 min |
| `rc_fields` | `MCCircRc_fields.cfg` | 1 thread holding up to 2 Snapshots (a traversal: o1 from s1, then o2 from o1's field f1), blocks o1 and o2. Disposing o1 drops its field, so o2 is decremented by the collector and deferred again. | pass, 40k states, 10 s |
| `rc_ird` | `MCCircRc_irdleak.cfg` | As `rc_fields` with `Ird = TRUE`, and 1 thread. Every popped successor is destroyed inline or deferred. | pass, 93k states, 10 s |
| `ird_inline_uaf` | `MCCircRc_ird.cfg` | As `rc_ird`, checking `NoUseAfterFree`. | violation, finding 1 |
| `weak_many_safe` | `MCCircRc_weakmanysafe.cfg` | 2 threads, 1 block, up to 2 `Rc` and 1 `Weak` per thread, and `weak_many` (weak count bounded by `WeakBound`). Downgrade, upgrade and weak drop race the last strong drop and the dispose; `weak_many`'s extra units never make the data reachable after dispose, or free the memory early. An early free shows up in `NoUseAfterFree` as a `Weak` naming freed memory. | pass, 163k states, 25 s |
| `weak_many_leak` | `MCCircRc_weakmany.cfg` | 1 thread calling `weak_many`. | violation, finding 2 |
| `rc_overflow` | `MCCircRc_overflow.cfg` | 2 threads, 1 block, 1 root slot, up to 4 handles per thread, `CountBits = 2`. Four handles reach the width of the count. | violation, finding 3 |

### Bounds and why they are enough

- **Epochs 0..2** are the fewest in which a closure deferred in epoch 0 can
  run, since collection needs `global >= 2`. A reader pinned in epoch 0 or 1
  can still overlap the closure, so all three grace-period cases occur.
- **One block** is enough for the resurrection race (the unlink stores
  `Rc::null()`). **Two blocks and one field** are enough for a parent whose
  disposal releases a child, which is the whole of IRD and of the field-drop
  cascade.
- **One thread** is used for the field and IRD runs. The unsafe cases need
  only the thread's own `Snapshot`s and its own collection. With two threads
  the field run reaches 1.3M states, and the IRD runs take over nine minutes,
  too long to repeat.
- **`MaxSnaps`** (1, or 2 for the traversal in `rc_fields`), `MaxRc`, `MaxWeak`: client bounds, not protocol bounds.
- **`CountBits = 16`** replaces u32 in the passing runs. TLC integers are
  32-bit signed, and the wrap is never approached there. `rc_overflow` sets
  `CountBits = 2`: every step on the count is the same `% 2^CountBits`
  arithmetic as at 32 bits, so four holders stand for 2^32.
- **Views and symmetry.** Threads are symmetric. Blocks are symmetric only
  when all slots are roots. The `VIEW` ignores `local[t]` while t is unpinned.
  `MCUnstampedView` also erases epoch stamps. It is used only where `Ird` is
  false and no CAS runs: then no action reads a stamp (`ptr_eq` ignores
  them), so states that differ only in stamps have the same futures.

Every mutant in `PROJECT.json` breaks its property under these bounds. Each is
a plausible bug:

- collecting one epoch early;
- a plain `fetch_add` without the resurrection permission;
- a closure left in its bag;
- a `try_zero` that decrements without re-deferring;
- a zero test against 1 instead of n;
- `next` without its `remain == 0` check;
- a field drop that forgets the decrement;
- IRD that neither destroys nor defers;
- an upgrade that skips the `strong > 0` check.

### Fairness

The `CircRc` runs check safety only, under `Spec` with no fairness.
Reclamation (a deferred `try_zero` eventually runs, `ebr.rs:111`) needs every
pinned thread to drop its guard and some thread to pin and collect again.
Nothing in the library guarantees either: a client that holds a guard, or
stops calling circ, keeps garbage forever, so a liveness property here would
only restate the fairness assumed for it. What the code does guarantee, that
a closure runs no earlier than its grace period allows and exactly once, is
`NoUseAfterFree` and `OneDestroyer`.

### Not modelled, and why

- **`unprotected()` guards, `AcquiredEBR`, `reserve` and `acquire`.** No
  caller exists under `src/`.
- **Bag sizes and the 128-pin collect trigger.** These only delay collection,
  and collection already happens at any moment in the model.
- **Epoch wrap-around.** Bounded epochs never wrap.
- **Memory reuse after free (ABA on addresses).** Blocks are never
  reallocated, and reuse needs a freed block, which `NoUseAfterFree` already
  rules out.
- **Memory orderings weaker than SeqCst.** The model is sequentially
  consistent.
- **The stamp of an `Rc`.** `Rc::snapshot` gives stamp 0, as does
  `AtomicRc::from(Rc)`, which stores `into_raw()` unstamped.
- **The spurious failure of `compare_exchange_weak`.** It sees current ==
  expected, so `ptr_eq` holds and the loop repeats. Its outcomes are those
  of `compare_exchange`.
- **`Rc::with_tag`.** Rc handles are counted per block, not per tagged word.
- **`Snapshot::downgrade`, `AtomicWeak`, `WeakSnapshot`.** Their upgrade
  paths are not under `src/`.
- **Blocks with more than one field.** A node type with one edge is the list
  case. More edges only repeat `IrdStep` per edge.

## 4. Module `TaggedPtr`

Pure operators for `low_bits`, `Tagged::tag`, `as_raw`, `is_null` and
`with_tag` (`src/internal/utils.rs`) over `WordBits`-wide words, with `!x` as
the complement within that width. `TaggedPtr.cfg` enumerates every 6-bit word
and every tag up to twice the tag range, with 2 alignment bits (512 states).

- `TagRoundTrip`: the tag read back is the tag given modulo the alignment, the
  address part is unchanged, and the result is a word (spec 8.4, and the
  truncation that `with_tag` promises).
- `NullIgnoresTag`: a word is null exactly when its address part is 0, and
  retagging never changes null-ness.

## 5. Modules `HarrisList` and `AbstractSet`

`tests/harris_list.rs` builds a Harris lock-free sorted list on circ.
`HarrisList` models `ListMap::new`, `harris_get`, `harris_insert` and
`harris_remove`, with the `Cursor` methods they call.
`AbstractSet` is what the list promises.

### Correspondence with the code

| Model | Code |
|---|---|
| `nxt[n]` = `[ptr, mark]` | `Node::next`, an `AtomicRc`; the tag bit 1 marks `n` as removed |
| `keyOf[n]`, `used` | `Node::key`; the nodes `Rc::new` has allocated |
| `cursor[t]` | the `Cursor` (`prev`, `curr`), and the locals `prev_next` (`pn`), `next`, `found` and `node` |
| `pc[t]` | the next atomic that `t` performs |
| `InvokeInsert`, `InvokeOp` | `harris_insert` (with `Rc::new` before the loop), `harris_get`, `harris_remove` |
| `CursorNew` | `Cursor::new`: `prev` = head, `curr` = `prev_next` = `head.next` |
| `FindStep` | one iteration of the loop of `find_harris`: stop at null, skip a marked node, step past a smaller key, or stop at a key that is not smaller |
| `Check` | the end of `find_harris`: return if nothing was skipped; otherwise one cleanup CAS on `prev.next` from `prev_next` to `curr`, whose failure restarts `get` |
| `Resume`, `Done` | what `insert`/`remove` do with the result of `get`, and the return |
| `InsSwap`, `InsCas` | `Cursor::insert`: `node.next := curr`, then the publishing CAS; on failure the loop retries with the same node |
| `RemLoad`, `RemTag`, `RemUnlink` | `Cursor::remove`: load `curr.next`, `compare_exchange_tag` to mark it (failure restarts), one unlink CAS whose result is ignored |

A `next` word is compared whole by every CAS, tag included.
`curr` is always untagged, as the comment at line 63 requires, so a cursor
holds plain node names.
Two ghost variables support the properties:

- `linked` is the set of nodes some insert has published.
- `seen[t]` records whether `t`'s key was in the set at each state since
  `t`'s call began.

`ListSeq` walks the list from the head, with fuel of one more than the number
of nodes, so a cycle shows up as a repeated node.
`AbsSet` is the set of keys of the reachable, unmarked nodes.

### What is abstracted

- **Reclamation.** A node is never reused once allocated. Every call holds a
  `Guard` from start to end, and circ frees a node only after every guard
  that could reach it has ended. `CircRc` checks exactly that protocol
  (`NoUseAfterFree`). The list's own logic therefore never sees a reused node.
- **Values.** An entry is its key. Values are never compared.
- **Reference counts.** `counted()` and `Rc` moves only change counts, which
  `CircRc` covers.

### Properties and the `harris` run

- `Sorted`: the list from the head is strictly increasing in key, marked nodes
  included. It therefore has no cycle and no key twice.
- `UnlinkedAreMarked`: a published node that is no longer reachable is marked.
- `MarkedFrozen` (action property): a marked node's `next` never changes.
- `ReadsLinearizable`: each call's answer held at some moment of the call,
  checked directly on `ret` and `seen`.
- `Refines`: `HarrisList` implements `AbstractSet` under the mapping
  `set <- AbsSet`, with `op[t]` the running call, `res[t]` its answer and
  `obs[t]` the ghost `seen[t]`.
  - An insert that returns "not found" takes effect at its publishing CAS,
    where its key must be absent.
  - A remove that returns "found" takes effect at its mark, where its key
    must be present. After it, `t` counts as returned "found", because its
    unlink does not change the set.
  - Every other answer (a get, an insert that finds its key, a remove that
    does not) leaves the set unchanged and must have held at some moment of
    the call.
  - Every other step must leave `AbsSet` unchanged.
  So an insert that reports success without linking, or a remove that
  reports success after losing its tag CAS, breaks `Refines`.

`MCHarrisList.cfg` uses 2 threads, keys `{1, 2}`, and 2 nodes to allocate
(about 148k states, 15 s). Two threads are enough for every race above:

- a remove that marks and then stalls while an insert cleans up and
  publishes;
- an insert whose `prev` is marked before its CAS;
- a `get` that walks past a node being removed.

Two nodes allow a duplicate insert, an insert behind a removed node, and a
marked node between `prev` and `curr`. With three nodes the run reaches 2.5M
states and takes more than 3 minutes, and no property needs the third node.

The mutants show what each property catches:

| Mutant | Property it breaks |
|---|---|
| `FindStepSwapped`: `curr := next` before `prev := curr` | `TypeOK` |
| `FindStepLe`: pass over an equal key | `Sorted` |
| `RemTagNoMark`: unlink without marking | `UnlinkedAreMarked` |
| `FindStepNoSkip`: do not skip marked nodes | `ReadsLinearizable` |
| `InsCasPtrOnly`: the insert CAS ignores the tag | `MarkedFrozen` |
| `RemTagLost`: a failed tag CAS still reports "found" | `Refines` |

### Progress: `LockFree` in the `harris` run

`LockFree` says that calls keep returning, unless from some point on no
thread is inside a call. It is checked under `FairSpec`, which adds weak
fairness to `Run(t)`, the steps of the call `t` is running. The operating
system keeps scheduling a runnable thread, and every step of a call is
enabled until it is taken, so weak fairness is what the code can rely on.
Invocations are not fair: a client may stop calling. The retry loops are
unbounded (`get` restarts after a failed cleanup CAS, `insert` after a
failed publishing CAS, `remove` after a failed tag CAS). A call may starve,
so wait-freedom does not hold. The `harris` run checks every property under
`FairSpec` (148k states, about 30 s). The mutant `InsCasStale` retries a failed publishing
CAS with the same `Cursor` instead of searching again, and TLC finds a call
that spins forever.

## 6. Modules `DoubleLinkQueue` and `AbstractQueue`

`tests/doubly_linked_queue.rs` is an MPMC queue with `head`, `tail`, a
counted `next` and a weak `prev` per node. It is written against an older
circ API (`GraphNode`, `Cs`, `Weak::as_snapshot`). The model reads
`as_snapshot` as giving the `prev` node.

| Model | Code |
|---|---|
| `head`, `tail`, `nextQ[n]`, `prevQ[n]` | `DoubleLink.head`, `.tail`, `Node.next`, `Node.prev` |
| `Init` | `DoubleLink::new`: both ends on a fresh sentinel whose `prev` is null |
| `InvokeEnq` | `Rc::new_many` allocates the node and the handle `sub` |
| `ELoad` | load `tail`; write the still private node's `prev` |
| `EHelp`, `EHelpStore` | if `ltail.prev` exists and its `next` is null, store `ltail` into it (two atomics) |
| `ECas`, `EStore` | the `tail` CAS, retried from `ELoad` on failure; then `ltail.next.store(sub)` |
| `DLoad`, `DNext`, `DCas` | load `head`; load `lhead.next` and return `None` if null; the `head` CAS, retried on failure |

### Properties and the `queue` run

- `TailReachable`: the list from `head` reaches `tail`, or stops exactly one
  link short of it. Only the newest enqueue's link can be missing, because
  each enqueue links its predecessor's link before it swings `tail`.
- `Refines`: the queue implements `AbstractQueue`, a FIFO queue, under this
  mapping:
  - the queue is the list after `head`;
  - an enqueue takes effect when its node is linked, by its own store or by a
    helper's;
  - a dequeue takes effect at its `head` CAS, or when it reads a null `next`;
  - `got` is the returned node.

  The enqueue's effect cannot be its `tail` CAS. After that CAS, a dequeue can
  still see the queue empty, because the link is not yet stored.

`MCDoubleLinkQueue.cfg` has 3 threads and 2 nodes to enqueue, with no bound on
dequeues (36.7k states, 5 s). This is enough for three races to meet:

- a helper that loads the null link and stores it after the owner already has;
- an owner stalled between its CAS and its store;
- a dequeuer that reads the missing link.

With 3 nodes and 3 threads, the run reaches 718k states and takes 75 s.

| Mutant | Property it breaks |
|---|---|
| `DNextNoCheck`: no emptiness check before the CAS | `TypeOK` (head becomes null) |
| `EHelpSkip`: no helping | `TailReachable`, `Refines` |
| `DCasBlind`: head overwritten without compare | `Refines` (an item returned twice) |

The `queue` run checks `LockFree` for the queue too, under the same
fairness on `Run(t)`. A failed `tail` or
`head` CAS means another call's CAS succeeded, and that call then returns.
The mutant `DNextSpin` treats a null `next` as a link still to come and
retries; a dequeue on an empty queue then never returns.

## 7. Findings

1. **IRD's stamp rule is not enough (spec gap, `ird_inline_uaf`).**
   - Spec 4.4 lets IRD destroy a popped successor inline when the popped
     link's stamp is at least 2 epochs behind the collector, "because no
     outstanding snapshot can name this object".
   - The stamp records only when that one link was installed.
   - TLC's trace:
     1. A thread holds an `Rc` to o2. o2 sits in o1's field with stamp 0,
        because `AtomicRc::from(Rc)` does not stamp (strong.rs:411).
     2. The thread pins in epoch 2 and takes a `Snapshot` of o2 through its
        `Rc`.
     3. It drops the `Rc`, and collects o1.
     4. IRD pops o2 and frees it while the `Snapshot` is live.
2. **`Rc::weak_many` leaks (code bug, `weak_many_leak`).**
   - strong.rs:537-539 adds N to the weak count and returns N
     `Weak::null()`.
   - No handle can release those units, so after the last strong drop the
     block stays disposed and allocated forever.
3. **The strong count wraps silently (spec/code divergence, `rc_overflow`).**
   - spec.md says counter overflow aborts in debug builds. `increment_strong`
     (utils.rs:37) is a `fetch_add` on an `AtomicU32`, which wraps in every
     build. `new_many_iter` also casts its `usize` count with `as _`.
   - TLC's trace, at a width of 2 bits:
     1. `Rc::new_many` makes 4 handles. `4 as u32` keeps its low bits, so the
        count starts at 0. The thread stores one handle in the root slot.
     2. A `clone` sees 0 in `increment_strong` and adds the second unit meant
        for resurrection. The count is 2 while 4 handles exist.
     3. Two drops bring it to 0 and defer `try_zero`, which reads 0 after
        the grace period. The collector frees the block while the slot and
        the thread's two remaining handles still name it.
