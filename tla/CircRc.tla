------------------------------- MODULE CircRc -------------------------------
(***************************************************************************)
(* The strong reference-count protocol of circ (RcInner, src/internal/     *)
(* utils.rs), the epoch-based reclamation it defers to (CsEBR over         *)
(* crossbeam-epoch, src/internal/smr/ebr.rs) and the public pointer types  *)
(* that drive it (AtomicRc, Rc, Snapshot, NewRcIter, src/strong.rs).       *)
(*                                                                         *)
(* Every atomic read-modify-write of the code is one step.  A handler made *)
(* of several atomics keeps the thread in pc[t] between them: the second   *)
(* fetch_add of increment_strong, the decrement after a store, each        *)
(* iteration of a compare_exchange loop, and the two halves of try_zero.  *)
(*                                                                         *)
(* A pointer is a record [o, tag, ep]: the referent (or Null), the user    *)
(* tag in the low bits and the epoch stamp in the high bits.               *)
(***************************************************************************)
EXTENDS Naturals, FiniteSets, FiniteSetsExt, Bags, BagsExt

CONSTANTS
  Threads,   \* threads using the library
  Obj,       \* RcInner blocks that may be allocated
  Slots,     \* AtomicRc roots shared by all threads
  Null,      \* the null pointer
  MaxEpoch,  \* bound on the global epoch
  MaxRc,     \* bound on the Rc handles a thread holds to one block
  MaxTag,    \* largest user tag (low bits)
  MaxMany,   \* largest count given to new_many_iter
  MaxSnaps,  \* bound on the Snapshots a thread keeps under one guard
  CountBits, \* width of RcInner.strong (32 in the code)
  Owner,     \* Owner[s]: the block whose AtomicRc field s is, or Null for a root
  Ird,       \* TRUE: dispose hands the fields to the IRD engine (spec 4.4)
  ClientOps, \* which of "swap", "cas" and "weak_many" the client workload calls
  MaxWeak    \* bound on the Weak handles a thread holds to one block

ASSUME Null \notin Obj
ASSUME MaxEpoch \in Nat /\ MaxRc \in Nat \ {0} /\ MaxTag \in Nat /\ MaxMany \in Nat
ASSUME CountBits \in 1..30 /\ MaxSnaps \in Nat \ {0}
ASSUME Owner \in [Slots -> Obj \cup {Null}] /\ Ird \in BOOLEAN
ASSUME ClientOps \subseteq {"swap", "cas", "weak_many"} /\ MaxWeak \in Nat
\* A node type with at most one outgoing edge (a list node).
ASSUME \A o \in Obj : Cardinality({s \in Slots : Owner[s] = o}) <= 1

U32 == 2^CountBits    \* RcInner.strong is an AtomicU32: arithmetic wraps
Epochs == 0..MaxEpoch
Ptr == [o : Obj \cup {Null}, tag : 0..MaxTag, ep : Epochs]
NullPtr == [o |-> Null, tag |-> 0, ep |-> 0]
Idle == [op |-> "idle"]

VARIABLES
  global,    \* the global epoch of crossbeam-epoch
  pinned,    \* pinned[t]: thread t holds a Guard
  local,     \* local[t]: the epoch t's guard was pinned in
  deferred,  \* bag of <<o, e>>: try_zero of o deferred in epoch e
  strong,    \* strong[o]: RcInner.strong
  weak,      \* weak[o]: the weak count, 1 of it held by the strong handles
  state,     \* "unalloc", "live", "disposed" (data dropped) or "freed"
  slot,      \* slot[s]: AtomicRc.link
  owned,     \* owned[t][o]: number of Rc<T> to o held by t
  snaps,     \* snaps[t]: the Snapshots t holds under its guard
  iter,      \* iter[t]: t's NewRcIter, or Idle
  wowned,    \* wowned[t][o]: number of Weak<T> to o held by t
  pc         \* pc[t]: the step t is in the middle of, or Idle

vars == <<global, pinned, local, deferred, strong, weak, state, slot, owned,
          snaps, iter, wowned, pc>>

PcSet ==
       {Idle}
  \cup [op : {"inc2", "tz"}, o : Obj]
  \cup [op : {"dec"}, o : Obj, n : 1..MaxMany]
  \cup [op : {"cas"}, s : Slots, exp : Ptr, new : Ptr, rc : BOOLEAN]
  \cup [op : {"ird"}, p : Ptr]

TypeOK ==
  /\ global \in Epochs
  /\ pinned \in [Threads -> BOOLEAN]
  /\ local \in [Threads -> Epochs]
  /\ IsABag(deferred) /\ BagToSet(deferred) \subseteq Obj \X Epochs
  /\ strong \in [Obj -> 0..(U32 - 1)]
  /\ weak \in [Obj -> 0..(U32 - 1)]
  /\ state \in [Obj -> {"unalloc", "live", "disposed", "freed"}]
  /\ wowned \in [Threads -> [Obj -> 0..MaxWeak]]
  /\ slot \in [Slots -> Ptr]
  /\ owned \in [Threads -> [Obj -> 0..MaxRc]]
  /\ snaps \in [Threads -> SUBSET Ptr]
  /\ iter \in [Threads -> {Idle} \cup [o : Obj, remain : 0..MaxMany]]
  /\ pc \in [Threads -> PcSet]

Init ==
  /\ global = 0
  /\ pinned = [t \in Threads |-> FALSE]
  /\ local = [t \in Threads |-> 0]
  /\ deferred = EmptyBag
  /\ strong = [o \in Obj |-> 0]
  /\ weak = [o \in Obj |-> 0]
  /\ wowned = [t \in Threads |-> [o \in Obj |-> 0]]
  /\ state = [o \in Obj |-> "unalloc"]
  /\ slot = [s \in Slots |-> NullPtr]
  /\ owned = [t \in Threads |-> [o \in Obj |-> 0]]
  /\ snaps = [t \in Threads |-> {}]
  /\ iter = [t \in Threads |-> Idle]
  /\ pc = [t \in Threads |-> Idle]

-----------------------------------------------------------------------------
(* Helpers                                                                 *)

\* Snapshot::ptr_eq (Tagged::ptr_eq): equal up to the epoch stamp in the
\* high bits, which only the reclamation engine reads.
PtrEq(p, q) == p.o = q.o /\ p.tag = q.tag

\* Tagged::with_timestamp: stamp a non-null pointer with global_epoch().
WithTimestamp(p) == IF p.o = Null THEN p ELSE [p EXCEPT !.ep = global]

\* owned[t] after giving up (d = -1) or gaining (d = 1) a handle to o.
Own(t, o, d) ==
  IF o = Null THEN owned[t] ELSE [owned[t] EXCEPT ![o] = @ + d]

\* CsEBR::defer on a pinned guard: guard.defer_unchecked files the closure
\* in the thread's bag, which crossbeam seals with the global epoch.
\* Without a guard the caller pins one first (C::new()), to the same end.
Defer(o) == BagAdd(deferred, <<o, global>>)

\* RcInner::new / alloc(obj, n) behind create_object: a fresh block whose
\* strong count is the number of handles requested, cast with `as _` to
\* the u32 of RcInner.strong, which keeps its low bits.
Alloc(o, n) ==
  /\ state' = [state EXCEPT ![o] = "live"]
  /\ strong' = [strong EXCEPT ![o] = n % U32]
  /\ weak' = [weak EXCEPT ![o] = 1]

\* Variant: compares the old count with 1, as the single-unit
\* decrement_strong does, whatever n is.
DecStrongEqOne(o, n) ==
  /\ strong' = [strong EXCEPT ![o] = (@ - n) % U32]
  /\ deferred' = IF strong[o] = 1 THEN Defer(o)
                                  ELSE deferred

\* RcInner::decrement_strong(n): fetch_sub(n); the thread that brought the
\* count from n to 0 defers try_zero, filed under the global epoch it reads
\* (crossbeam seals a bag with the global epoch, never an older one).
DecStrong(o, n) ==
  /\ strong' = [strong EXCEPT ![o] = (@ - n) % U32]
  /\ deferred' = IF strong[o] = n THEN Defer(o)
                                  ELSE deferred

\* Variant: a plain fetch_add, without the permission for the pending
\* try_zero.
IncStrongOnce(t, o) ==
  /\ strong' = [strong EXCEPT ![o] = (@ + 1) % U32]
  /\ owned' = [owned EXCEPT ![t] = Own(t, o, 1)] /\ UNCHANGED pc

\* RcInner::increment_strong, first fetch_add; a count that was 0 gets a
\* second fetch_add (pc "inc2") before the handle is handed out.
IncStrong(t, o) ==
  /\ strong' = [strong EXCEPT ![o] = (@ + 1) % U32]
  /\ IF strong[o] = 0
       THEN pc' = [pc EXCEPT ![t] = [op |-> "inc2", o |-> o]] /\ UNCHANGED owned
       ELSE owned' = [owned EXCEPT ![t] = Own(t, o, 1)] /\ UNCHANGED pc

\* owned[t] after handing over a handle to o and receiving one to r.
OwnBoth(t, o, r) ==
  LET w == Own(t, o, -1)
  IN IF r = Null THEN w ELSE [w EXCEPT ![r] = @ + 1]

Free(t) == pc[t] = Idle

\* snaps[t] with p kept, if the thread has room for another Snapshot.
Keep(t, p) ==
  IF Cardinality(snaps[t] \cup {p}) <= MaxSnaps THEN snaps[t] \cup {p} ELSE snaps[t]

\* The blocks t holds: its Rc handles and the Snapshots of its guard.
Held(t) == ({o \in Obj : owned[t][o] > 0} \cup {p.o : p \in snaps[t]}) \ {Null}

\* A root slot, or the field of a block t holds.
Accessible(t, s) == Owner[s] = Null \/ Owner[s] \in Held(t)

\* The non-null links stored in o's fields: its outgoing edges.
Edges(o) == {p \in {slot[s] : s \in {f \in Slots : Owner[f] = o}} : p.o /= Null}

\* Edges(o) is empty or a singleton (ASSUME above); its element.
Edge(o) == CHOOSE e \in Edges(o) : TRUE

\* The fields of o no longer hold anything.
ClearFields(o) == slot' = [s \in Slots |-> IF Owner[s] = o THEN NullPtr ELSE slot[s]]

\* Variant: dropping the field forgets its Rc without releasing it.
DropFieldsNoDec(t, o) ==
  /\ ClearFields(o)
  /\ UNCHANGED pc

\* ManuallyDrop::drop of the data runs AtomicRc::drop on each field: one
\* decrement_strong(1, None) of the referent, the step the thread owes next.
DropFields(t, o) ==
  /\ ClearFields(o)
  /\ pc' = [pc EXCEPT ![t] = IF Edges(o) = {} THEN Idle
                             ELSE [op |-> "dec", o |-> Edge(o).o, n |-> 1]]

\* pop_edges with EdgeTaker::take: each field's Rc is moved out, the field
\* left null, and the raw link (with its stamp) pushed as a TryIRD.
PopEdges(t, o) ==
  /\ ClearFields(o)
  /\ pc' = [pc EXCEPT ![t] = IF Edges(o) = {} THEN Idle
                             ELSE [op |-> "ird", p |-> Edge(o)]]

\* RcInner::dispose, then delete_object: the block is gone and its edges
\* are released, through the IRD engine when it is in use.
Dispose(t, o) ==
  /\ weak' = [weak EXCEPT ![o] = (@ - 1) % U32]
  /\ state' = [state EXCEPT ![o] = IF weak[o] = 1 THEN "freed" ELSE "disposed"]
  /\ IF Ird THEN PopEdges(t, o) ELSE DropFields(t, o)

-----------------------------------------------------------------------------
(* EBR backend (crossbeam-epoch behind CsEBR)                              *)

\* CsEBR::new: crossbeam::epoch::pin(), wrapped by From<Guard> as the guard.
Pin(t) ==
  /\ Free(t) /\ ~pinned[t]
  /\ pinned' = [pinned EXCEPT ![t] = TRUE]
  /\ local' = [local EXCEPT ![t] = global]
  /\ UNCHANGED <<global, deferred, strong, state, slot, owned, snaps, iter, pc, weak, wowned>>

\* Dropping the Guard: every Snapshot borrowed from it ends with it.
Unpin(t) ==
  /\ Free(t) /\ pinned[t]
  /\ pinned' = [pinned EXCEPT ![t] = FALSE]
  /\ snaps' = [snaps EXCEPT ![t] = {}]
  /\ UNCHANGED <<global, local, deferred, strong, state, slot, owned, iter, pc, weak, wowned>>

\* CsEBR::clear: guard.repin() takes &mut and so outlives no Snapshot.
Repin(t) ==
  /\ Free(t) /\ pinned[t]
  /\ local' = [local EXCEPT ![t] = global]
  /\ snaps' = [snaps EXCEPT ![t] = {}]
  /\ UNCHANGED <<global, pinned, deferred, strong, state, slot, owned, iter, pc, weak, wowned>>

\* try_advance: the epoch moves on once every pinned thread is in it.
Advance ==
  /\ global < MaxEpoch
  /\ \A t \in Threads : pinned[t] => local[t] = global
  /\ global' = global + 1
  /\ UNCHANGED <<pinned, local, deferred, strong, weak, state, slot, owned, snaps, iter,
                 wowned, pc>>

\* Variant: runs a closure one epoch after it was deferred.
CollectEarly(t) ==
  /\ Free(t) /\ pinned[t]
  /\ \E d \in BagToSet(deferred) :
       /\ d[2] + 1 <= global
       /\ deferred' = BagRemove(deferred, d)
       /\ IF strong[d[1]] = 0
            THEN Dispose(t, d[1])
            ELSE /\ pc' = [pc EXCEPT ![t] = [op |-> "tz", o |-> d[1]]]
                 /\ UNCHANGED <<state, slot, weak>>
  /\ UNCHANGED <<global, pinned, local, strong, owned, snaps, iter, wowned>>

\* Variant: runs a closure but leaves it in the bag.
CollectKeep(t) ==
  /\ Free(t) /\ pinned[t]
  /\ \E d \in BagToSet(deferred) :
       /\ d[2] + 2 <= global
       /\ UNCHANGED deferred
       /\ IF strong[d[1]] = 0
            THEN Dispose(t, d[1])
            ELSE /\ pc' = [pc EXCEPT ![t] = [op |-> "tz", o |-> d[1]]]
                 /\ UNCHANGED <<state, slot, weak>>
  /\ UNCHANGED <<global, pinned, local, strong, owned, snaps, iter, wowned>>

\* Collection by a pinned thread of a closure deferred two epochs ago: the
\* first half of RcInner::try_zero, strong.fetch_add(0).  At zero the block
\* is disposed and deleted; otherwise it was resurrected and the thread
\* goes on to decrement it again (TryZeroDec).
Collect(t) ==
  /\ Free(t) /\ pinned[t]
  /\ \E d \in BagToSet(deferred) :
       /\ d[2] + 2 <= global
       /\ deferred' = BagRemove(deferred, d)
       /\ IF strong[d[1]] = 0
            THEN Dispose(t, d[1])
            ELSE /\ pc' = [pc EXCEPT ![t] = [op |-> "tz", o |-> d[1]]]
                 /\ UNCHANGED <<state, slot, weak>>
  /\ UNCHANGED <<global, pinned, local, strong, owned, snaps, iter, wowned>>

\* Variant: the resurrected block is decremented but never re-deferred.
TryZeroDecNoDefer(t) ==
  /\ pc[t].op = "tz"
  /\ strong' = [strong EXCEPT ![pc[t].o] = (@ - 1) % U32]
  /\ pc' = [pc EXCEPT ![t] = Idle]
  /\ UNCHANGED <<global, pinned, local, deferred, state, slot, owned, snaps, iter, weak, wowned>>

\* Second half of try_zero: decrement_strong(None), under a nested pin.
TryZeroDec(t) ==
  /\ pc[t].op = "tz"
  /\ DecStrong(pc[t].o, 1)
  /\ pc' = [pc EXCEPT ![t] = Idle]
  /\ UNCHANGED <<global, pinned, local, state, slot, owned, snaps, iter, weak, wowned>>

\* Variant: an edge that is not destroyed inline is dropped without
\* deferring its try_zero.
IrdStepNoDefer(t) ==
  LET p == pc[t].p
      o == p.o
  IN /\ pc[t].op = "ird"
     /\ strong' = [strong EXCEPT ![o] = (@ - 1) % U32]
     /\ IF strong[o] = 1 /\ p.ep + 2 <= local[t]
          THEN Dispose(t, o)
          ELSE pc' = [pc EXCEPT ![t] = Idle] /\ UNCHANGED <<state, slot, weak>>
     /\ UNCHANGED <<global, pinned, local, deferred, owned, snaps, iter, wowned>>

\* try_ird of one popped edge p (spec 4.4): decrement its referent; if that
\* brings the count to zero and the link's installation stamp is two
\* epochs behind the guard's epoch, destroy it inline and go on with its
\* own edges, otherwise defer try_zero as decrement_strong does.
IrdStep(t) ==
  LET p == pc[t].p
      o == p.o
  IN /\ pc[t].op = "ird"
     /\ strong' = [strong EXCEPT ![o] = (@ - 1) % U32]
     /\ IF strong[o] = 1 /\ p.ep + 2 <= local[t]
          THEN Dispose(t, o) /\ UNCHANGED deferred
          ELSE /\ deferred' = IF strong[o] = 1 THEN Defer(o)
                                               ELSE deferred
               /\ pc' = [pc EXCEPT ![t] = Idle]
               /\ UNCHANGED <<state, slot, weak>>
     /\ UNCHANGED <<global, pinned, local, owned, snaps, iter, wowned>>

-----------------------------------------------------------------------------
(* Rc, NewRcIter and Snapshot (src/strong.rs)                              *)

\* Rc::new: a fresh block with strong = 1.
RcNew(t, o) ==
  /\ Free(t) /\ state[o] = "unalloc"
  /\ Alloc(o, 1)
  /\ owned' = [owned EXCEPT ![t][o] = 1]
  /\ UNCHANGED <<global, pinned, local, deferred, slot, snaps, iter, pc, wowned>>

\* Rc::new_many::<N>(obj): one block with strong = N and all N handles.
RcNewMany(t, o, n) ==
  /\ Free(t) /\ state[o] = "unalloc"
  /\ Alloc(o, n)
  /\ owned' = [owned EXCEPT ![t][o] = n]
  /\ UNCHANGED <<global, pinned, local, deferred, slot, snaps, iter, pc, wowned>>

\* Rc::new(Node { next: AtomicRc::from(r) }): a node built around a handle
\* the thread gives up.  From<Rc> stores into_raw() as it is, so the link
\* carries no installation stamp (epoch 0).
NewNode(t, o, r) ==
  /\ Free(t) /\ state[o] = "unalloc" /\ owned[t][r] > 0
  /\ \E f \in Slots : Owner[f] = o
  /\ Alloc(o, 1)
  /\ slot' = [s \in Slots |-> IF Owner[s] = o THEN [o |-> r, tag |-> 0, ep |-> 0]
                                             ELSE slot[s]]
  /\ owned' = [owned EXCEPT ![t][o] = 1, ![t][r] = @ - 1]
  /\ UNCHANGED <<global, pinned, local, deferred, snaps, iter, pc, wowned>>

\* Rc::new(Node { next: AtomicRc::from(&r) }): From<&Rc> clones r (a
\* fetch_add on a count the thread's own handle keeps above 0) and stores
\* the clone unstamped; the thread keeps its handle.
NewNodeFromRef(t, o, r) ==
  /\ Free(t) /\ state[o] = "unalloc" /\ owned[t][r] > 0
  /\ \E f \in Slots : Owner[f] = o
  /\ state' = [state EXCEPT ![o] = "live"]
  /\ strong' = [strong EXCEPT ![o] = 1, ![r] = (@ + 1) % U32]
  /\ weak' = [weak EXCEPT ![o] = 1]
  /\ slot' = [s \in Slots |-> IF Owner[s] = o THEN [o |-> r, tag |-> 0, ep |-> 0]
                                             ELSE slot[s]]
  /\ owned' = [owned EXCEPT ![t][o] = 1]
  /\ UNCHANGED <<global, pinned, local, deferred, snaps, iter, pc, wowned>>

\* Rc::new(Node { next: AtomicRc::new(x) }): AtomicRc::new allocates r with
\* Rc::new and stores its into_raw() unstamped; the field holds r's only
\* count, and the thread holds o.
NewNodeFresh(t, o, r) ==
  /\ Free(t) /\ o /= r /\ state[o] = "unalloc" /\ state[r] = "unalloc"
  /\ \E f \in Slots : Owner[f] = o
  /\ state' = [state EXCEPT ![o] = "live", ![r] = "live"]
  /\ strong' = [strong EXCEPT ![o] = 1, ![r] = 1]
  /\ weak' = [weak EXCEPT ![o] = 1, ![r] = 1]
  /\ slot' = [s \in Slots |-> IF Owner[s] = o THEN [o |-> r, tag |-> 0, ep |-> 0]
                                             ELSE slot[s]]
  /\ owned' = [owned EXCEPT ![t][o] = 1]
  /\ UNCHANGED <<global, pinned, local, deferred, snaps, iter, pc, wowned>>

\* Rc::new_many_iter(obj, n): one block with strong = n, handed out later.
NewManyIter(t, o, n) ==
  /\ Free(t) /\ state[o] = "unalloc" /\ iter[t] = Idle
  /\ Alloc(o, n)
  /\ iter' = [iter EXCEPT ![t] = [o |-> o, remain |-> n]]
  /\ UNCHANGED <<global, pinned, local, deferred, slot, owned, snaps, pc, wowned>>

\* Variant: NewRcIter::next without the remain == 0 check.
IterNextUnchecked(t) ==
  /\ Free(t) /\ iter[t] /= Idle
  /\ owned[t][iter[t].o] < MaxRc
  /\ owned' = [owned EXCEPT ![t][iter[t].o] = @ + 1]
  /\ iter' = [iter EXCEPT ![t].remain = @ - 1]
  /\ UNCHANGED <<global, pinned, local, deferred, strong, state, slot, snaps, pc, weak, wowned>>

\* NewRcIter::next: one more Rc without touching the count.
IterNext(t) ==
  /\ Free(t) /\ iter[t] /= Idle /\ iter[t].remain > 0
  /\ owned[t][iter[t].o] < MaxRc
  /\ owned' = [owned EXCEPT ![t][iter[t].o] = @ + 1]
  /\ iter' = [iter EXCEPT ![t].remain = @ - 1]
  /\ UNCHANGED <<global, pinned, local, deferred, strong, state, slot, snaps, pc, weak, wowned>>

\* NewRcIter::abort(guard) and NewRcIter::drop: the handles never produced
\* are given back in one decrement_strong(remain).
IterEnd(t) ==
  /\ Free(t) /\ iter[t] /= Idle
  /\ IF iter[t].remain > 0
       THEN DecStrong(iter[t].o, iter[t].remain)
       ELSE UNCHANGED <<strong, deferred>>
  /\ iter' = [iter EXCEPT ![t] = Idle]
  /\ UNCHANGED <<global, pinned, local, state, slot, owned, snaps, pc, weak, wowned>>

\* Rc::clone: increment_strong on a block the thread already counts in.
Clone(t, o) ==
  /\ Free(t) /\ owned[t][o] \in 1..(MaxRc - 1)
  /\ IncStrong(t, o)
  /\ UNCHANGED <<global, pinned, local, deferred, state, slot, snaps, iter, weak, wowned>>

\* Snapshot::counted: increment_strong on a block only the guard protects.
Counted(t, p) ==
  /\ Free(t) /\ pinned[t] /\ p \in snaps[t] /\ p.o /= Null
  /\ owned[t][p.o] < MaxRc
  /\ IncStrong(t, p.o)
  /\ UNCHANGED <<global, pinned, local, deferred, state, slot, snaps, iter, weak, wowned>>

\* Snapshot::with_tag(tag): the Snapshot, by value, with tag in its low bits
\* (TaggedPtr checks the bit arithmetic); the client goes on with the
\* retagged copy, as in `let p = p.with_tag(1)`.
SnapWithTag(t, p, g) ==
  /\ Free(t) /\ pinned[t] /\ p \in snaps[t]
  /\ snaps' = [snaps EXCEPT ![t] = (@ \ {p}) \cup {[p EXCEPT !.tag = g]}]
  /\ snaps' /= snaps
  /\ UNCHANGED <<global, pinned, local, deferred, strong, state, slot, owned, iter, pc, weak, wowned>>

\* increment_strong saw 0: the second fetch_add, then the Rc is returned.
IncSecond(t) ==
  /\ pc[t].op = "inc2"
  /\ strong' = [strong EXCEPT ![pc[t].o] = (@ + 1) % U32]
  /\ owned' = [owned EXCEPT ![t] = Own(t, pc[t].o, 1)]
  /\ pc' = [pc EXCEPT ![t] = Idle]
  /\ UNCHANGED <<global, pinned, local, deferred, state, slot, snaps, iter, weak, wowned>>

\* Rc::drop (decrement_strong(None), under a guard of its own) and
\* Rc::finalize(guard), whose closure is filed under the same global epoch.
DropRc(t, o) ==
  /\ Free(t) /\ owned[t][o] > 0
  /\ owned' = [owned EXCEPT ![t][o] = @ - 1]
  /\ DecStrong(o, 1)
  /\ UNCHANGED <<global, pinned, local, state, slot, snaps, iter, pc, weak, wowned>>

\* Rc::snapshot(guard).  An Rc::new handle carries no epoch stamp.
RcSnapshot(t, o) ==
  /\ Free(t) /\ pinned[t] /\ owned[t][o] > 0
  /\ snaps' = [snaps EXCEPT ![t] = Keep(t, [o |-> o, tag |-> 0, ep |-> 0])]
  /\ snaps' /= snaps
  /\ UNCHANGED <<global, pinned, local, deferred, strong, state, slot, owned, iter, pc, weak, wowned>>

-----------------------------------------------------------------------------
(* Weak handles (src/strong.rs, weak count of spec 4.2)                    *)

\* Rc::downgrade: increment_weak(1), and a Weak to the same block.
Downgrade(t, o) ==
  /\ Free(t) /\ owned[t][o] > 0 /\ wowned[t][o] < MaxWeak
  /\ weak' = [weak EXCEPT ![o] = (@ + 1) % U32]
  /\ wowned' = [wowned EXCEPT ![t][o] = @ + 1]
  /\ UNCHANGED <<global, pinned, local, deferred, strong, state, slot, owned, snaps,
                 iter, pc>>

\* Bound on the weak count: what MaxWeak handles per thread can reach.
WeakBound == 1 + MaxWeak * Cardinality(Threads)

\* Rc::weak_many::<N>: increment_weak(N), but the array it returns holds
\* N copies of Weak::null().
WeakMany(t, o, n) ==
  /\ Free(t) /\ owned[t][o] > 0 /\ weak[o] + n <= WeakBound
  /\ weak' = [weak EXCEPT ![o] = (@ + n) % U32]
  /\ UNCHANGED <<global, pinned, local, deferred, strong, state, slot, owned, snaps,
                 iter, wowned, pc>>

\* Weak::drop, decrement_weak(1): the thread that takes the last weak unit
\* frees the block's memory (its data was disposed before).
DropWeak(t, o) ==
  /\ Free(t) /\ wowned[t][o] > 0
  /\ wowned' = [wowned EXCEPT ![t][o] = @ - 1]
  /\ weak' = [weak EXCEPT ![o] = (@ - 1) % U32]
  /\ state' = IF weak[o] = 1 THEN [state EXCEPT ![o] = "freed"] ELSE state
  /\ UNCHANGED <<global, pinned, local, deferred, strong, slot, owned, snaps, iter, pc>>

\* Variant: upgrade by a plain fetch_add, whatever the count is.
UpgradeUnchecked(t, o) ==
  /\ Free(t) /\ pinned[t] /\ wowned[t][o] > 0
  /\ state[o] = "live" /\ owned[t][o] < MaxRc
  /\ strong' = [strong EXCEPT ![o] = (@ + 1) % U32]
  /\ owned' = [owned EXCEPT ![t][o] = @ + 1]
  /\ UNCHANGED <<global, pinned, local, deferred, weak, state, slot, snaps, iter,
                 wowned, pc>>

\* Weak::upgrade(guard), when it succeeds: a CAS loop that increments strong
\* only from a non-zero value (spec 4.6).  A failed upgrade changes nothing.
Upgrade(t, o) ==
  /\ Free(t) /\ pinned[t] /\ wowned[t][o] > 0
  /\ strong[o] > 0 /\ owned[t][o] < MaxRc
  /\ strong' = [strong EXCEPT ![o] = (@ + 1) % U32]
  /\ owned' = [owned EXCEPT ![t][o] = @ + 1]
  /\ UNCHANGED <<global, pinned, local, deferred, weak, state, slot, snaps, iter,
                 wowned, pc>>

-----------------------------------------------------------------------------
(* AtomicRc (src/strong.rs)                                                *)

\* The handles a thread may install: one it owns, or Rc::null().
Installable(t) == {o \in Obj : owned[t][o] > 0} \cup {Null}

\* AtomicRc::load(order, guard).
Load(t, s) ==
  /\ Free(t) /\ pinned[t] /\ Accessible(t, s)
  /\ snaps' = [snaps EXCEPT ![t] = Keep(t, slot[s])]
  /\ snaps' /= snaps
  /\ UNCHANGED <<global, pinned, local, deferred, strong, state, slot, owned, iter, pc, weak, wowned>>

\* AtomicRc::store(ptr, order, guard): the swap; the old block's count is
\* decremented in the next step (StoreDec) on the same guard.
Store(t, s, o) ==
  /\ Free(t) /\ pinned[t] /\ o \in Installable(t) /\ Accessible(t, s)
  /\ slot' = [slot EXCEPT ![s] = WithTimestamp([o |-> o, tag |-> 0, ep |-> 0])]
  /\ owned' = [owned EXCEPT ![t] = Own(t, o, -1)]
  /\ pc' = IF slot[s].o = Null THEN pc
           ELSE [pc EXCEPT ![t] = [op |-> "dec", o |-> slot[s].o, n |-> 1]]
  /\ UNCHANGED <<global, pinned, local, deferred, strong, state, snaps, iter, weak, wowned>>

StoreDec(t) ==
  /\ pc[t].op = "dec"
  /\ DecStrong(pc[t].o, pc[t].n)
  /\ pc' = [pc EXCEPT ![t] = Idle]
  /\ UNCHANGED <<global, pinned, local, state, slot, owned, snaps, iter, weak, wowned>>

\* AtomicRc::swap(new, order): the old link comes back as an Rc.
Swap(t, s, o) ==
  /\ Free(t) /\ o \in Installable(t) /\ Accessible(t, s)
  /\ slot[s].o /= Null => owned[t][slot[s].o] < MaxRc
  /\ slot' = [slot EXCEPT ![s] = WithTimestamp([o |-> o, tag |-> 0, ep |-> 0])]
  /\ owned' = [owned EXCEPT ![t] = OwnBoth(t, o, slot[s].o)]
  /\ UNCHANGED <<global, pinned, local, deferred, strong, state, snaps, iter, pc, weak, wowned>>

\* AtomicRc::compare_exchange(expected, desired): the desired link is
\* stamped once, before the loop (CasStep).
Cas(t, s, p, o) ==
  /\ Free(t) /\ pinned[t] /\ p \in snaps[t] /\ o \in Installable(t) /\ Accessible(t, s)
  /\ p.o /= Null => owned[t][p.o] < MaxRc
  /\ pc' = [pc EXCEPT ![t] = [op |-> "cas", s |-> s, exp |-> p, rc |-> TRUE,
                               new |-> WithTimestamp([o |-> o, tag |-> 0, ep |-> 0])]]
  /\ UNCHANGED <<global, pinned, local, deferred, strong, state, slot, owned, snaps, iter, weak, wowned>>

\* AtomicRc::compare_exchange_tag(expected, tag): same link, new user tag.
CasTag(t, s, p, g) ==
  /\ Free(t) /\ pinned[t] /\ p \in snaps[t] /\ Accessible(t, s)
  /\ pc' = [pc EXCEPT ![t] = [op |-> "cas", s |-> s, exp |-> p, rc |-> FALSE,
                               new |-> WithTimestamp([p EXCEPT !.tag = g])]]
  /\ UNCHANGED <<global, pinned, local, deferred, strong, state, slot, owned, snaps, iter, weak, wowned>>

\* One iteration of the compare_exchange loop.  A link equal to the
\* expected one but for its epoch stamp is taken as the new expected value
\* and the loop retries; any other mismatch returns Err(current).  On
\* success compare_exchange forgets desired and returns the old link as Rc.
CasStep(t) ==
  LET c == pc[t]
      cur == slot[c.s]
  IN /\ c.op = "cas"
     /\ \/ /\ cur = c.exp
           /\ slot' = [slot EXCEPT ![c.s] = c.new]
           /\ pc' = [pc EXCEPT ![t] = Idle]
           /\ owned' = IF c.rc
                          THEN [owned EXCEPT ![t] = OwnBoth(t, c.new.o, c.exp.o)]
                          ELSE owned
           /\ UNCHANGED snaps
        \/ /\ cur /= c.exp /\ PtrEq(cur, c.exp)
           /\ pc' = [pc EXCEPT ![t].exp = cur]
           /\ UNCHANGED <<slot, owned, snaps>>
        \/ /\ ~PtrEq(cur, c.exp)
           /\ pc' = [pc EXCEPT ![t] = Idle]
           /\ snaps' = [snaps EXCEPT ![t] = Keep(t, cur)]
           /\ UNCHANGED <<slot, owned>>
     /\ UNCHANGED <<global, pinned, local, deferred, strong, state, iter, weak, wowned>>

-----------------------------------------------------------------------------
Next ==
  \/ Advance
  \/ \E t \in Threads :
       \/ Pin(t) \/ Unpin(t) \/ Repin(t) \/ Collect(t) \/ TryZeroDec(t)
       \/ IterNext(t) \/ IterEnd(t) \/ IncSecond(t) \/ StoreDec(t) \/ CasStep(t)
       \/ IrdStep(t)
       \/ \E o \in Obj : RcNew(t, o) \/ Clone(t, o) \/ DropRc(t, o) \/ RcSnapshot(t, o)
       \/ \E o \in Obj, n \in 2..MaxMany : NewManyIter(t, o, n)
       \/ \E o \in Obj, n \in 2..MaxRc : RcNewMany(t, o, n)
       \/ \E o, r \in Obj : NewNode(t, o, r) \/ NewNodeFromRef(t, o, r)
            \/ NewNodeFresh(t, o, r)
       \/ \E o \in Obj : Downgrade(t, o) \/ DropWeak(t, o) \/ Upgrade(t, o)
       \/ "weak_many" \in ClientOps /\ \E o \in Obj, n \in 1..2 : WeakMany(t, o, n)
       \/ \E p \in snaps[t] : Counted(t, p)
       \/ "cas" \in ClientOps /\ \E p \in snaps[t], g \in 0..MaxTag : SnapWithTag(t, p, g)
       \/ \E s \in Slots :
            \/ Load(t, s)
            \/ \E o \in Installable(t) : Store(t, s, o)
            \/ "swap" \in ClientOps /\ \E o \in Installable(t) : Swap(t, s, o)
            \/ "cas" \in ClientOps /\ \E p \in snaps[t] :
                 \/ \E o \in Installable(t) : Cas(t, s, p, o)
                 \/ \E g \in 0..MaxTag : CasTag(t, s, p, g)

Spec == Init /\ [][Next]_vars

-----------------------------------------------------------------------------
(* Properties                                                              *)

\* The owning references to o: links in root slots and in other blocks'
\* fields, Rc handles, handles a NewRcIter has yet to produce, the old link
\* a store swapped out or a dropped field gave up but not yet decremented,
\* and an edge the IRD engine has popped but not yet released.
Holders(o) ==
    Cardinality({s \in Slots : slot[s].o = o})
  + MapThenSumSet(LAMBDA t : owned[t][o], Threads)
  + MapThenSumSet(LAMBDA t : IF iter[t] /= Idle /\ iter[t].o = o
                              THEN iter[t].remain ELSE 0, Threads)
  + Cardinality({t \in Threads : pc[t].op = "dec" /\ pc[t].o = o})
  + Cardinality({t \in Threads : pc[t].op = "ird" /\ pc[t].p.o = o})

\* The try_zero closures of o that are deferred or being run.
PendingTryZero(o) ==
    MapThenSumSet(LAMBDA e : CopiesIn(<<o, e>>, deferred), Epochs)
  + Cardinality({t \in Threads : pc[t].op = "tz" /\ pc[t].o = o})

\* Every block a thread can still reach: its handles and, while its guard
\* lives, its Snapshots, and the block of the step it is in the middle of.
Reachable(t) ==
     {o \in Obj : owned[t][o] > 0}
  \cup (IF pinned[t] THEN {p.o : p \in snaps[t]} \ {Null} ELSE {})
  \cup (IF pc[t] = Idle THEN {}
        ELSE IF pc[t].op = "cas" THEN {pc[t].exp.o, pc[t].new.o} \ {Null}
        ELSE IF pc[t].op = "ird" THEN {pc[t].p.o}
        ELSE {pc[t].o})

\* No use after free (spec 3 and 8.2): no slot, handle, Snapshot of a
\* pinned thread, step in progress or deferred try_zero names a block whose
\* data try_zero (or IRD) has disposed, and no Weak names a block whose
\* memory has been freed.  Breaking it takes a snapshot load, an
\* unlink by another thread, epoch advances and a collection.
NoUseAfterFree ==
  \A o \in Obj :
    /\ state[o] \in {"disposed", "freed"} =>
         /\ \A s \in Slots : slot[s].o /= o
         /\ \A t \in Threads : o \notin Reachable(t)
         /\ PendingTryZero(o) = 0
    /\ state[o] = "freed" => \A t \in Threads : wowned[t][o] = 0

\* The strong count never falls below the owning references (spec 8.1):
\* otherwise the holders' own decrements would reach zero while one of them
\* still holds the block.  The resurrection rule of increment_strong is
\* what keeps it when Snapshot::counted races the deferred try_zero.
CountCoversHolders ==
  \A o \in Obj : state[o] = "live" => strong[o] >= Holders(o)

\* Exactly one destroyer (spec 3): a block never has two try_zero closures
\* pending at once, so it is never disposed twice.
OneDestroyer ==
  \A o \in Obj : PendingTryZero(o) <= 1

\* No leak: a live block that nothing holds any more, and that no thread is
\* resurrecting, always has its try_zero pending.
UnheldIsScheduled ==
  \A o \in Obj :
    /\ state[o] = "live"
    /\ Holders(o) = 0
    /\ \A t \in Threads : pc[t] /= [op |-> "inc2", o |-> o]
    => PendingTryZero(o) = 1

\* No leaked memory (spec 3, "when weak transitions 1 -> 0, exactly one
\* thread frees the block"): once a block's data is disposed, its memory
\* stays allocated only while some Weak handle still refers to it.  Rc's
\* weak_many and the weak units it adds are what this is about.
NoLeakedMemory ==
  \A o \in Obj : state[o] = "disposed" => \E t \in Threads : wowned[t][o] > 0
=============================================================================
