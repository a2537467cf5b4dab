-------------------------- MODULE DoubleLinkQueue --------------------------
(***************************************************************************)
(* The doubly linked MPMC queue of tests/doubly_linked_queue.rs.  A node   *)
(* has a counted `next` (AtomicRc) and a weak `prev`.  enqueue swings     *)
(* `tail` to its node by CAS and links the old tail's `next` afterwards;  *)
(* before its CAS it helps the enqueue before it, whose link may still be *)
(* missing.  dequeue swings `head` to head.next by CAS.                   *)
(*                                                                         *)
(* Each atomic load, store or CAS on head, tail or a `next` is one step.  *)
(* A node's `prev` is written once, while the node is private, and only  *)
(* read after the node is published.  As in HarrisList, reclamation is   *)
(* abstracted (nodes are never reused, which the guard of every call     *)
(* justifies), and an item is the node that carries it.                  *)
(***************************************************************************)
EXTENDS Naturals, FiniteSets, SequencesExt

CONSTANTS
  Threads,   \* threads calling enqueue and dequeue
  Nodes,     \* nodes that Rc::new_many may allocate for enqueues
  Sentinel,  \* the node DoubleLink::new allocates
  Null       \* the null pointer

ASSUME Sentinel \notin Nodes /\ Null \notin Nodes \cup {Sentinel}

AllNodes == Nodes \cup {Sentinel}
NoOp == [kind |-> "none", node |-> Null]
\* The locals of a call, and their values when it is not running.
Fresh == [ltail |-> Sentinel, lprev |-> Null, lhead |-> Sentinel, lnext |-> Null]

VARIABLES
  head,    \* DoubleLink.head
  tail,    \* DoubleLink.tail
  nextQ,   \* nextQ[n]: Node.next
  prevQ,   \* prevQ[n]: Node.prev, a Weak
  used,    \* the nodes allocated so far
  pc,      \* pc[t]: the step t takes next, "idle" between calls
  op,      \* op[t]: "enq" with its node, or "deq"
  loc,     \* loc[t]: ltail, lprev, lhead and lnext
  ret      \* ret[t]: the node t's last dequeue returned, or Null

vars == <<head, tail, nextQ, prevQ, used, pc, op, loc, ret>>
shared == <<head, tail, nextQ, prevQ, used>>

RECURSIVE Chain(_, _)
Chain(p, fuel) ==
  IF p = Null \/ fuel = 0 THEN <<>> ELSE <<p>> \o Chain(nextQ[p], fuel - 1)

\* The nodes after head, in order: the items in the queue.
ListQ == Chain(nextQ[head], Cardinality(Nodes) + 1)

\* Some node's next points to n: n's enqueue has taken effect.
Linked(n) == \E m \in AllNodes : nextQ[m] = n

TypeOK ==
  /\ head \in AllNodes /\ tail \in AllNodes /\ used \subseteq Nodes
  /\ nextQ \in [AllNodes -> Nodes \cup {Null}]
  /\ prevQ \in [AllNodes -> AllNodes \cup {Null}]
  /\ pc \in [Threads -> {"idle", "e_load", "e_help", "e_helpstore", "e_cas",
                         "e_store", "d_load", "d_next", "d_cas"}]
  /\ op \in [Threads -> [kind : {"enq"}, node : Nodes] \cup {[kind |-> "deq", node |-> Null], NoOp}]
  /\ loc \in [Threads -> [ltail : AllNodes, lprev : AllNodes \cup {Null},
                          lhead : AllNodes, lnext : Nodes \cup {Null}]]
  /\ ret \in [Threads -> Nodes \cup {Null}]

\* DoubleLink::new: head and tail both point to the sentinel.
Init ==
  /\ head = Sentinel /\ tail = Sentinel
  /\ nextQ = [n \in AllNodes |-> Null]
  /\ prevQ = [n \in AllNodes |-> Null]
  /\ used = {}
  /\ pc = [t \in Threads |-> "idle"]
  /\ op = [t \in Threads |-> NoOp]
  /\ loc = [t \in Threads |-> Fresh]
  /\ ret = [t \in Threads |-> Null]

Goto(t, l) == pc' = [pc EXCEPT ![t] = l]
SetLoc(t, f, v) == loc' = [loc EXCEPT ![t][f] = v]

\* The call returns; its locals die.
Done(t) == Goto(t, "idle") /\ loc' = [loc EXCEPT ![t] = Fresh]

\* enqueue: Rc::new_many allocates the node (and `sub`, a second handle).
InvokeEnq(t) ==
  /\ pc[t] = "idle"
  /\ \E n \in Nodes \ used :
       /\ used' = used \cup {n}
       /\ op' = [op EXCEPT ![t] = [kind |-> "enq", node |-> n]]
  /\ Goto(t, "e_load")
  /\ UNCHANGED <<head, tail, nextQ, prevQ, loc, ret>>

\* Load tail, and set the private node's prev to it.
ELoad(t) ==
  /\ pc[t] = "e_load"
  /\ SetLoc(t, "ltail", tail)
  /\ prevQ' = [prevQ EXCEPT ![op[t].node] = tail]
  /\ Goto(t, "e_help")
  /\ UNCHANGED <<head, tail, nextQ, used, op, ret>>

\* Variant: the helping step is left out.
EHelpSkip(t) ==
  /\ pc[t] = "e_help"
  /\ Goto(t, "e_cas")
  /\ UNCHANGED <<shared, op, loc, ret>>

(* Help: if ltail has a prev whose next is still null, go and store it.  *)
(* ltail.prev never changes once ltail is published.                     *)
EHelp(t) ==
  /\ pc[t] = "e_help"
  /\ LET p == prevQ[loc[t].ltail] IN
       /\ SetLoc(t, "lprev", p)
       /\ Goto(t, IF p /= Null /\ nextQ[p] = Null THEN "e_helpstore" ELSE "e_cas")
  /\ UNCHANGED <<shared, op, ret>>

\* lprev.next.store(ltail.upgrade()): link the previous enqueue's node.
EHelpStore(t) ==
  /\ pc[t] = "e_helpstore"
  /\ nextQ' = [nextQ EXCEPT ![loc[t].lprev] = loc[t].ltail]
  /\ Goto(t, "e_cas")
  /\ UNCHANGED <<head, tail, prevQ, used, op, loc, ret>>

\* tail.compare_exchange(ltail, node); failure retries from the load.
ECas(t) ==
  /\ pc[t] = "e_cas"
  /\ \/ tail = loc[t].ltail /\ tail' = op[t].node /\ Goto(t, "e_store")
     \/ tail /= loc[t].ltail /\ Goto(t, "e_load") /\ UNCHANGED tail
  /\ UNCHANGED <<head, nextQ, prevQ, used, op, loc, ret>>

\* ltail.next.store(sub), and return.
EStore(t) ==
  /\ pc[t] = "e_store"
  /\ nextQ' = [nextQ EXCEPT ![loc[t].ltail] = op[t].node]
  /\ Done(t)
  /\ UNCHANGED <<head, tail, prevQ, used, op, ret>>

InvokeDeq(t) ==
  /\ pc[t] = "idle"
  /\ op' = [op EXCEPT ![t] = [kind |-> "deq", node |-> Null]]
  /\ Goto(t, "d_load")
  /\ UNCHANGED <<shared, loc, ret>>

DLoad(t) ==
  /\ pc[t] = "d_load"
  /\ SetLoc(t, "lhead", head)
  /\ Goto(t, "d_next")
  /\ UNCHANGED <<shared, op, ret>>

\* Variant: no emptiness check before the CAS.
DNextNoCheck(t) ==
  /\ pc[t] = "d_next"
  /\ SetLoc(t, "lnext", nextQ[loc[t].lhead])
  /\ Goto(t, "d_cas")
  /\ UNCHANGED <<shared, op, ret>>

\* Variant: a null next is taken for a late link, and the loop retries.
DNextSpin(t) ==
  /\ pc[t] = "d_next"
  /\ LET n == nextQ[loc[t].lhead] IN
       \/ n = Null /\ Goto(t, "d_load") /\ UNCHANGED <<loc, ret>>
       \/ n /= Null /\ SetLoc(t, "lnext", n) /\ Goto(t, "d_cas") /\ UNCHANGED ret
  /\ UNCHANGED <<shared, op>>

\* Load lhead.next; null means the queue is empty and None is returned.
DNext(t) ==
  /\ pc[t] = "d_next"
  /\ LET n == nextQ[loc[t].lhead] IN
       \/ n = Null /\ ret' = [ret EXCEPT ![t] = Null] /\ Done(t)
       \/ n /= Null /\ SetLoc(t, "lnext", n) /\ Goto(t, "d_cas") /\ UNCHANGED ret
  /\ UNCHANGED <<shared, op>>

\* Variant: head is overwritten with lnext without comparing.
DCasBlind(t) ==
  /\ pc[t] = "d_cas"
  /\ head' = loc[t].lnext /\ ret' = [ret EXCEPT ![t] = loc[t].lnext] /\ Done(t)
  /\ UNCHANGED <<tail, nextQ, prevQ, used, op>>

\* head.compare_exchange(lhead, lnext); success returns lnext, failure retries.
DCas(t) ==
  /\ pc[t] = "d_cas"
  /\ \/ /\ head = loc[t].lhead /\ head' = loc[t].lnext
        /\ ret' = [ret EXCEPT ![t] = loc[t].lnext] /\ Done(t)
     \/ head /= loc[t].lhead /\ Goto(t, "d_load") /\ UNCHANGED <<head, loc, ret>>
  /\ UNCHANGED <<tail, nextQ, prevQ, used, op>>

\* A step of the call t is running.
Run(t) ==
  \/ ELoad(t) \/ EHelp(t) \/ EHelpStore(t) \/ ECas(t) \/ EStore(t)
  \/ DLoad(t) \/ DNext(t) \/ DCas(t)

Next == \E t \in Threads : InvokeEnq(t) \/ InvokeDeq(t) \/ Run(t)

Spec == Init /\ [][Next]_vars

(* A thread inside a call is scheduled again as long as it can step (weak *)
(* fairness); no thread is obliged to make a new call.                    *)
FairSpec == Spec /\ \A t \in Threads : WF_vars(Run(t))
----------------------------------------------------------------------------
(* Properties. *)

(* The list from head reaches the tail, or stops exactly one link short   *)
(* of it: only the newest enqueue's link may be missing.  Each enqueue    *)
(* links the one before it (helping) before it swings tail, so a stalled *)
(* enqueue never hides the nodes enqueued after it from dequeue.          *)
TailReachable ==
  LET path == <<head>> \o ListQ IN
    /\ Len(ListQ) <= Cardinality(Nodes)
    /\ path[Len(path)] \in {tail, prevQ[tail]}

(* The queue implements AbstractQueue: an enqueue takes effect when its   *)
(* node is linked, by itself or by a helper; a dequeue at its head CAS,  *)
(* or on reading a null next; each dequeue returns the oldest item.      *)
AbsOp(t) ==
  IF pc[t] = "idle" \/ (op[t].kind = "enq" /\ Linked(op[t].node))
  THEN [kind |-> "none", item |-> Null]
  ELSE [kind |-> op[t].kind, item |-> op[t].node]

Abs == INSTANCE AbstractQueue WITH queue <- ListQ, op <- [t \in Threads |-> AbsOp(t)],
                                    got <- ret, Items <- Nodes, None <- Null

Refines == Abs!Spec

(* Lock-freedom of the enqueue and dequeue loops: calls keep returning,  *)
(* unless from some point on no thread is inside a call.  A tail CAS or *)
(* head CAS fails only because another call's CAS succeeded, and that   *)
(* call then returns; an empty queue returns None at once.              *)
Returns == \E t \in Threads : pc[t] /= "idle" /\ pc'[t] = "idle"

LockFree == []<><<Returns>>_vars \/ <>[](\A t \in Threads : pc[t] = "idle")
============================================================================
