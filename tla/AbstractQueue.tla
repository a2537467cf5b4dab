---------------------------- MODULE AbstractQueue ----------------------------
(***************************************************************************)
(* What the queue of tests/doubly_linked_queue.rs promises: a FIFO queue   *)
(* on which every thread runs one operation at a time.  An operation      *)
(* begins, then takes effect and ends in one atomic step: enqueue appends *)
(* its item, dequeue takes the first item or, on an empty queue, None.    *)
(***************************************************************************)
EXTENDS Sequences

CONSTANTS Threads, Items, None

NoOp == [kind |-> "none", item |-> None]
Ops == [kind : {"enq"}, item : Items] \cup [kind : {"deq"}, item : {None}]

VARIABLES
  queue,  \* the items, oldest first
  op,     \* op[t]: the operation t is running, or NoOp
  got     \* got[t]: what t's last dequeue returned

vars == <<queue, op, got>>

TypeOK ==
  /\ queue \in Seq(Items)
  /\ op \in [Threads -> Ops \cup {NoOp}]
  /\ got \in [Threads -> Items \cup {None}]

Init ==
  /\ queue = <<>>
  /\ op = [t \in Threads |-> NoOp]
  /\ got = [t \in Threads |-> None]

Begin(t, o) ==
  /\ op[t] = NoOp
  /\ op' = [op EXCEPT ![t] = o]
  /\ UNCHANGED <<queue, got>>

Enq(t) ==
  /\ op[t].kind = "enq"
  /\ queue' = Append(queue, op[t].item)
  /\ op' = [op EXCEPT ![t] = NoOp]
  /\ UNCHANGED got

Deq(t) ==
  /\ op[t].kind = "deq"
  /\ queue /= <<>>
  /\ got' = [got EXCEPT ![t] = Head(queue)]
  /\ queue' = Tail(queue)
  /\ op' = [op EXCEPT ![t] = NoOp]

DeqEmpty(t) ==
  /\ op[t].kind = "deq"
  /\ queue = <<>>
  /\ got' = [got EXCEPT ![t] = None]
  /\ op' = [op EXCEPT ![t] = NoOp]
  /\ UNCHANGED queue

Next ==
  \E t \in Threads :
    \/ \E o \in Ops : Begin(t, o)
    \/ Enq(t) \/ Deq(t) \/ DeqEmpty(t)

Spec == Init /\ [][Next]_vars
============================================================================
