---------------------------- MODULE HarrisList ----------------------------
(***************************************************************************)
(* The Harris lock-free sorted list built on circ in tests/harris_list.rs *)
(* (ListMap with Cursor::find_harris).  Each node's `next` is an AtomicRc *)
(* whose tag bit 1 marks the node as logically removed.  Every atomic load *)
(* or compare_exchange on a `next` field is one step; a thread keeps its  *)
(* Cursor and the locals of the handler it runs in cursor[t] between     *)
(* steps, and pc[t] names the next atomic it performs.                    *)
(*                                                                         *)
(* Memory reclamation is abstracted: a node is never reused once it has   *)
(* been allocated.  The Guard every operation holds keeps each node the   *)
(* cursor can reach from being freed; CircRc checks that protocol.        *)
(* Values are left out: a ListMap entry is its key.                        *)
(***************************************************************************)
EXTENDS Naturals, FiniteSets, SequencesExt

CONSTANTS
  Threads,  \* threads calling harris_get, harris_insert and harris_remove
  Keys,     \* keys, a small set of positive naturals
  Nodes,    \* nodes that Rc::new may allocate for inserts
  ListHead,     \* the dummy head node of ListMap::new
  Null      \* the null pointer

ASSUME Keys \subseteq Nat \ {0} /\ ListHead \notin Nodes /\ Null \notin Nodes \cup {ListHead}

AllNodes == Nodes \cup {ListHead}
Link == [ptr : Nodes \cup {Null}, mark : {0, 1}]   \* the word in a `next`
Link0(p) == [ptr |-> p, mark |-> 0]
Kinds == {"get", "insert", "remove"}
NoOp == [kind |-> "none", key |-> "none"]
NoRet == [kind |-> "none", key |-> "none", found |-> FALSE]
\* A dropped Cursor, and a thread's locals before its first call.
Fresh == [prev |-> ListHead, curr |-> Null, pn |-> Null, next |-> Link0(Null),
          found |-> FALSE, node |-> Null]

VARIABLES
  nxt,     \* nxt[n]: the `next` AtomicRc of node n
  keyOf,   \* keyOf[n]: the key of node n, 0 while unallocated
  used,    \* the nodes Rc::new has allocated
  pc,      \* pc[t]: the step t takes next, "idle" between calls
  op,      \* op[t]: the call t is running
  cursor,  \* cursor[t]: prev, curr, prev_next (pn), next, found and node
  ret,     \* ret[t]: what t's last call returned
  linked,  \* ghost: the nodes some insert has published
  seen     \* ghost: whether op[t].key was in the set, at each moment of t's call

shared == <<nxt, keyOf, used, linked>>
local == <<pc, op, cursor, ret>>
vars == <<nxt, keyOf, used, pc, op, cursor, ret, linked, seen>>

(* The nodes reached from the head, in order.  The fuel bounds the walk  *)
(* so that a cycle shows up as a repeated node instead of a hang.        *)
RECURSIVE Chain(_, _)
Chain(p, fuel) ==
  IF p = Null \/ fuel = 0 THEN <<>> ELSE <<p>> \o Chain(nxt[p].ptr, fuel - 1)

ListSeq == Chain(nxt[ListHead].ptr, Cardinality(Nodes) + 1)

\* The abstract set: the keys of the reachable nodes that are not marked.
AbsSet == {keyOf[n] : n \in {m \in ToSet(ListSeq) : nxt[m].mark = 0}}

TypeOK ==
  /\ nxt \in [AllNodes -> Link]
  /\ keyOf \in [Nodes -> Keys \cup {0}]
  /\ used \subseteq Nodes /\ linked \subseteq used
  /\ pc \in [Threads -> {"idle", "cn", "find", "check", "ins_swap", "ins_cas",
                         "rem_load", "rem_tag", "rem_unlink"}]
  /\ op \in [Threads -> [kind : Kinds, key : Keys] \cup {NoOp}]
  /\ cursor \in [Threads -> [prev : AllNodes, curr : Nodes \cup {Null},
                             pn : Nodes \cup {Null}, next : Link,
                             found : BOOLEAN, node : Nodes \cup {Null}]]
  /\ seen \in [Threads -> SUBSET BOOLEAN]

Init ==
  /\ nxt = [n \in AllNodes |-> Link0(Null)]
  /\ keyOf = [n \in Nodes |-> 0]
  /\ used = {} /\ linked = {}
  /\ pc = [t \in Threads |-> "idle"]
  /\ op = [t \in Threads |-> NoOp]
  /\ cursor = [t \in Threads |-> Fresh]
  /\ ret = [t \in Threads |-> NoRet]
  /\ seen = [t \in Threads |-> {}]

Set(t, f, v) == cursor' = [cursor EXCEPT ![t][f] = v]

\* The call returns f: the Cursor is dropped.
Done(t, f) ==
  /\ pc' = [pc EXCEPT ![t] = "idle"]
  /\ ret' = [ret EXCEPT ![t] = [kind |-> op[t].kind, key |-> op[t].key, found |-> f]]
  /\ cursor' = [cursor EXCEPT ![t] = Fresh]

\* get has returned (r, cursor) with r = f: what insert and remove do next.
Resume(t, f) ==
  \/ op[t].kind = "insert" /\ ~f /\ pc' = [pc EXCEPT ![t] = "ins_swap"] /\ UNCHANGED <<cursor, ret>>
  \/ op[t].kind = "remove" /\ f /\ pc' = [pc EXCEPT ![t] = "rem_load"] /\ UNCHANGED <<cursor, ret>>
  \/ op[t].kind = "get" /\ Done(t, f)
  \/ op[t].kind = "insert" /\ f /\ Done(t, f)
  \/ op[t].kind = "remove" /\ ~f /\ Done(t, f)

\* harris_insert(k): Rc::new allocates the node before the retry loop.
InvokeInsert(t, k) ==
  /\ pc[t] = "idle"
  /\ \E n \in Nodes \ used :
       /\ used' = used \cup {n}
       /\ keyOf' = [keyOf EXCEPT ![n] = k]
       /\ cursor' = [cursor EXCEPT ![t] = [Fresh EXCEPT !.node = n]]
  /\ op' = [op EXCEPT ![t] = [kind |-> "insert", key |-> k]]
  /\ pc' = [pc EXCEPT ![t] = "cn"]
  /\ ret' = [ret EXCEPT ![t] = NoRet]
  /\ UNCHANGED <<nxt, linked>>

\* harris_get(k) and harris_remove(k).
InvokeOp(t, kd, k) ==
  /\ pc[t] = "idle"
  /\ op' = [op EXCEPT ![t] = [kind |-> kd, key |-> k]]
  /\ pc' = [pc EXCEPT ![t] = "cn"]
  /\ ret' = [ret EXCEPT ![t] = NoRet]
  /\ UNCHANGED <<shared, cursor>>

\* Cursor::new: prev is the head, curr (and prev_next) the head's next.
CursorNew(t) ==
  /\ pc[t] = "cn"
  /\ cursor' = [cursor EXCEPT ![t] = [@ EXCEPT !.prev = ListHead, !.curr = nxt[ListHead].ptr,
                                                 !.pn = nxt[ListHead].ptr]]
  /\ pc' = [pc EXCEPT ![t] = "find"]
  /\ UNCHANGED <<shared, op, ret>>

\* Variant: the loop does not skip marked nodes.
FindStepNoSkip(t) ==
  /\ pc[t] = "find"
  /\ LET c == cursor[t].curr
         n == nxt[c]
     IN \/ c = Null /\ Set(t, "found", FALSE) /\ pc' = [pc EXCEPT ![t] = "check"]
        \/ /\ c /= Null /\ keyOf[c] < op[t].key
           /\ cursor' = [cursor EXCEPT ![t] = [@ EXCEPT !.prev = c, !.curr = n.ptr,
                                                          !.pn = n.ptr]]
           /\ UNCHANGED pc
        \/ /\ c /= Null /\ keyOf[c] >= op[t].key
           /\ Set(t, "found", keyOf[c] = op[t].key)
           /\ pc' = [pc EXCEPT ![t] = "check"]
  /\ UNCHANGED <<shared, op, ret>>

\* Variant: the Less arm assigns curr := next before prev := curr.
FindStepSwapped(t) ==
  /\ pc[t] = "find"
  /\ LET c == cursor[t].curr
         n == nxt[c]
     IN \/ c = Null /\ Set(t, "found", FALSE) /\ pc' = [pc EXCEPT ![t] = "check"]
        \/ c /= Null /\ n.mark = 1 /\ Set(t, "curr", n.ptr) /\ UNCHANGED pc
        \/ /\ c /= Null /\ n.mark = 0 /\ keyOf[c] < op[t].key
           /\ cursor' = [cursor EXCEPT ![t] = [@ EXCEPT !.prev = n.ptr, !.curr = n.ptr,
                                                          !.pn = n.ptr]]
           /\ UNCHANGED pc
        \/ /\ c /= Null /\ n.mark = 0 /\ keyOf[c] >= op[t].key
           /\ Set(t, "found", keyOf[c] = op[t].key)
           /\ pc' = [pc EXCEPT ![t] = "check"]
  /\ UNCHANGED <<shared, op, ret>>

\* Variant: an equal key is passed over like a smaller one.
FindStepLe(t) ==
  /\ pc[t] = "find"
  /\ LET c == cursor[t].curr
         n == nxt[c]
     IN \/ c = Null /\ Set(t, "found", FALSE) /\ pc' = [pc EXCEPT ![t] = "check"]
        \/ c /= Null /\ n.mark = 1 /\ Set(t, "curr", n.ptr) /\ UNCHANGED pc
        \/ /\ c /= Null /\ n.mark = 0 /\ keyOf[c] <= op[t].key
           /\ cursor' = [cursor EXCEPT ![t] = [@ EXCEPT !.prev = c, !.curr = n.ptr,
                                                          !.pn = n.ptr]]
           /\ UNCHANGED pc
        \/ /\ c /= Null /\ n.mark = 0 /\ keyOf[c] > op[t].key
           /\ Set(t, "found", FALSE)
           /\ pc' = [pc EXCEPT ![t] = "check"]
  /\ UNCHANGED <<shared, op, ret>>

\* One iteration of the finding loop of find_harris.
FindStep(t) ==
  /\ pc[t] = "find"
  /\ LET c == cursor[t].curr
         n == nxt[c]
     IN \/ c = Null /\ Set(t, "found", FALSE) /\ pc' = [pc EXCEPT ![t] = "check"]
        \/ c /= Null /\ n.mark = 1 /\ Set(t, "curr", n.ptr) /\ UNCHANGED pc
        \/ /\ c /= Null /\ n.mark = 0 /\ keyOf[c] < op[t].key
           /\ cursor' = [cursor EXCEPT ![t] = [@ EXCEPT !.prev = c, !.curr = n.ptr,
                                                          !.pn = n.ptr]]
           /\ UNCHANGED pc
        \/ /\ c /= Null /\ n.mark = 0 /\ keyOf[c] >= op[t].key
           /\ Set(t, "found", keyOf[c] = op[t].key)
           /\ pc' = [pc EXCEPT ![t] = "check"]
  /\ UNCHANGED <<shared, op, ret>>

(* The end of find_harris: if marked nodes were skipped, unlink them all *)
(* with one compare_exchange on prev.next; its failure restarts get.     *)
Check(t) ==
  /\ pc[t] = "check"
  /\ LET c == cursor[t] IN
       \/ c.pn = c.curr /\ Resume(t, c.found) /\ UNCHANGED shared
       \/ /\ c.pn /= c.curr /\ nxt[c.prev] = Link0(c.pn)
          /\ nxt' = [nxt EXCEPT ![c.prev] = Link0(c.curr)]
          /\ Resume(t, c.found)
          /\ UNCHANGED <<keyOf, used, linked>>
       \/ /\ c.pn /= c.curr /\ nxt[c.prev] /= Link0(c.pn)
          /\ pc' = [pc EXCEPT ![t] = "cn"]
          /\ UNCHANGED <<shared, cursor, ret>>
  /\ UNCHANGED op

\* Cursor::insert, first half: the private node's next := curr.
InsSwap(t) ==
  /\ pc[t] = "ins_swap"
  /\ nxt' = [nxt EXCEPT ![cursor[t].node] = Link0(cursor[t].curr)]
  /\ pc' = [pc EXCEPT ![t] = "ins_cas"]
  /\ UNCHANGED <<keyOf, used, linked, op, cursor, ret>>

\* Variant: the publishing CAS compares the pointer and ignores the tag.
InsCasPtrOnly(t) ==
  /\ pc[t] = "ins_cas"
  /\ LET c == cursor[t] IN
       \/ /\ nxt[c.prev].ptr = c.curr
          /\ nxt' = [nxt EXCEPT ![c.prev] = Link0(c.node)]
          /\ linked' = linked \cup {c.node}
          /\ Done(t, FALSE)
          /\ UNCHANGED <<keyOf, used>>
       \/ /\ nxt[c.prev].ptr /= c.curr
          /\ pc' = [pc EXCEPT ![t] = "cn"]
          /\ UNCHANGED <<shared, cursor, ret>>
  /\ UNCHANGED op

\* Variant: a failed publishing CAS retries with the same Cursor.
InsCasStale(t) ==
  /\ pc[t] = "ins_cas"
  /\ LET c == cursor[t] IN
       \/ /\ nxt[c.prev] = Link0(c.curr)
          /\ nxt' = [nxt EXCEPT ![c.prev] = Link0(c.node)]
          /\ linked' = linked \cup {c.node}
          /\ Done(t, FALSE)
          /\ UNCHANGED <<keyOf, used>>
       \/ /\ nxt[c.prev] /= Link0(c.curr)
          /\ pc' = [pc EXCEPT ![t] = "ins_swap"]
          /\ UNCHANGED <<shared, cursor, ret>>
  /\ UNCHANGED op

\* Cursor::insert, second half: publish the node; failure retries with it.
InsCas(t) ==
  /\ pc[t] = "ins_cas"
  /\ LET c == cursor[t] IN
       \/ /\ nxt[c.prev] = Link0(c.curr)
          /\ nxt' = [nxt EXCEPT ![c.prev] = Link0(c.node)]
          /\ linked' = linked \cup {c.node}
          /\ Done(t, FALSE)
          /\ UNCHANGED <<keyOf, used>>
       \/ /\ nxt[c.prev] /= Link0(c.curr)
          /\ pc' = [pc EXCEPT ![t] = "cn"]
          /\ UNCHANGED <<shared, cursor, ret>>
  /\ UNCHANGED op

\* Cursor::remove: load curr.next.
RemLoad(t) ==
  /\ pc[t] = "rem_load"
  /\ Set(t, "next", nxt[cursor[t].curr])
  /\ pc' = [pc EXCEPT ![t] = "rem_tag"]
  /\ UNCHANGED <<shared, op, ret>>

\* Variant: the tag CAS succeeds without setting the mark.
RemTagNoMark(t) ==
  /\ pc[t] = "rem_tag"
  /\ LET c == cursor[t] IN
       \/ /\ nxt[c.curr] = Link0(c.next.ptr)
          /\ pc' = [pc EXCEPT ![t] = "rem_unlink"]
          /\ UNCHANGED shared
       \/ /\ nxt[c.curr] /= Link0(c.next.ptr)
          /\ pc' = [pc EXCEPT ![t] = "cn"]
          /\ UNCHANGED shared
  /\ UNCHANGED <<op, cursor, ret>>

\* Variant: a failed tag CAS goes on to the unlink and reports success.
RemTagLost(t) ==
  /\ pc[t] = "rem_tag"
  /\ LET c == cursor[t] IN
       \/ /\ nxt[c.curr] = Link0(c.next.ptr)
          /\ nxt' = [nxt EXCEPT ![c.curr] = [ptr |-> c.next.ptr, mark |-> 1]]
          /\ UNCHANGED <<keyOf, used, linked>>
       \/ nxt[c.curr] /= Link0(c.next.ptr) /\ UNCHANGED shared
  /\ pc' = [pc EXCEPT ![t] = "rem_unlink"]
  /\ UNCHANGED <<op, cursor, ret>>

(* Cursor::remove: compare_exchange_tag(next.with_tag(0), 1) marks curr; *)
(* its failure makes remove retry from Cursor::new.                      *)
RemTag(t) ==
  /\ pc[t] = "rem_tag"
  /\ LET c == cursor[t] IN
       \/ /\ nxt[c.curr] = Link0(c.next.ptr)
          /\ nxt' = [nxt EXCEPT ![c.curr] = [ptr |-> c.next.ptr, mark |-> 1]]
          /\ pc' = [pc EXCEPT ![t] = "rem_unlink"]
          /\ UNCHANGED <<keyOf, used, linked>>
       \/ /\ nxt[c.curr] /= Link0(c.next.ptr)
          /\ pc' = [pc EXCEPT ![t] = "cn"]
          /\ UNCHANGED shared
  /\ UNCHANGED <<op, cursor, ret>>

\* Variant: the unlink is a plain store to prev.next.
RemUnlinkBlind(t) ==
  /\ pc[t] = "rem_unlink"
  /\ nxt' = [nxt EXCEPT ![cursor[t].prev] = cursor[t].next]
  /\ Done(t, TRUE)
  /\ UNCHANGED <<keyOf, used, linked, op>>

\* Cursor::remove: try once to unlink curr from prev; the result is ignored.
RemUnlink(t) ==
  /\ pc[t] = "rem_unlink"
  /\ LET c == cursor[t] IN
       nxt' = IF nxt[c.prev] = Link0(c.curr) THEN [nxt EXCEPT ![c.prev] = c.next] ELSE nxt
  /\ Done(t, TRUE)
  /\ UNCHANGED <<keyOf, used, linked, op>>

\* A step of the call t is running.
Run(t) ==
  \/ CursorNew(t) \/ FindStep(t) \/ Check(t)
  \/ InsSwap(t) \/ InsCas(t)
  \/ RemLoad(t) \/ RemTag(t) \/ RemUnlink(t)

Step(t) ==
  \/ \E k \in Keys : InvokeInsert(t, k)
  \/ \E kd \in {"get", "remove"}, k \in Keys : InvokeOp(t, kd, k)
  \/ Run(t)

(* Ghost update after every step: each running call records whether its  *)
(* key is in the set in the new state; a new call starts afresh.         *)
SeenNext ==
  seen' = [u \in Threads |->
             IF pc[u] = "idle" /\ pc'[u] /= "idle" THEN {op'[u].key \in AbsSet'}
             ELSE IF pc[u] = "idle" THEN seen[u]
             ELSE seen[u] \cup {op[u].key \in AbsSet'}]

Next == (\E t \in Threads : Step(t)) /\ SeenNext

Spec == Init /\ [][Next]_vars

(* A thread inside a call is scheduled again as long as it can step (weak *)
(* fairness); no thread is obliged to make a new call.                    *)
FairSpec == Spec /\ \A t \in Threads : WF_vars(Run(t) /\ SeenNext)
----------------------------------------------------------------------------
(* Properties. *)

(* The list reached from the head is strictly sorted by key, marked nodes *)
(* included, and so has no cycle and no key twice.  find_harris stops at *)
(* the first key >= the search key and insert links its node between     *)
(* that prev and curr only while prev.next is still curr, unmarked.      *)
Sorted ==
  /\ ToSet(ListSeq) \subseteq used
  /\ IsSorted([i \in 1..Len(ListSeq) |-> keyOf[ListSeq[i]]], <)

(* A published node that is no longer reachable was marked first:        *)
(* remove tags curr.next before unlinking curr, and the cleanup CAS of   *)
(* find_harris only cuts out nodes it saw marked.  Otherwise an insert   *)
(* or a key would be lost.                                               *)
UnlinkedAreMarked == \A n \in linked \ ToSet(ListSeq) : nxt[n].mark = 1

(* A marked node's next never changes again: every compare_exchange on a *)
(* next field expects an untagged value, so none can succeed on it.      *)
MarkedFrozen == [][\A n \in AllNodes : nxt[n].mark = 1 => nxt'[n] = nxt[n]]_nxt

(* Each answer of get, insert and remove was true at some moment of the  *)
(* call: found exactly when the key was in the set then.                 *)
ReadsLinearizable == \A t \in Threads : ret[t] /= NoRet => ret[t].found \in seen[t]

(* The list implements AbstractSet, answers included: an insert that     *)
(* returns "not found" adds its key at its publishing CAS, a remove that   *)
(* returns "found" deletes it at its mark, no other step changes the set, *)
(* and every other answer held at some moment of the call.  After its     *)
(* mark, a remove has returned "found" as far as the set is concerned:    *)
(* its unlink changes nothing the set can see.                            *)
AbsOp(t) == IF pc[t] \in {"idle", "rem_unlink"} THEN NoOp ELSE op[t]
AbsRes(t) == IF pc[t] = "rem_unlink" THEN TRUE ELSE ret[t].found
AbsObs(t) == IF AbsOp(t) = NoOp THEN {} ELSE seen[t]

Abs == INSTANCE AbstractSet WITH set <- AbsSet, op <- [t \in Threads |-> AbsOp(t)],
                                  res <- [t \in Threads |-> AbsRes(t)],
                                  obs <- [t \in Threads |-> AbsObs(t)]

Refines == Abs!Spec

(* Lock-freedom of the retry loops of get, insert and remove: calls keep *)
(* returning, unless from some point on no thread is inside a call.  A    *)
(* failed cleanup CAS, publishing CAS or tag CAS restarts from            *)
(* Cursor::new, and fails only because another thread changed the list,  *)
(* which cannot go on forever without some call completing.               *)
Returns == \E t \in Threads : pc[t] /= "idle" /\ pc'[t] = "idle"

LockFree == []<><<Returns>>_vars \/ <>[](\A t \in Threads : pc[t] = "idle")
============================================================================
