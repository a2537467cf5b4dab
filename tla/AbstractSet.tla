---------------------------- MODULE AbstractSet ----------------------------
(***************************************************************************)
(* What the Harris list of tests/harris_list.rs promises: a set of keys on *)
(* which every thread runs one operation at a time, each returning whether *)
(* its key was found.  An insert that returns "not found" has added its    *)
(* key, in one atomic step at which the key was absent; a remove that      *)
(* returns "found" has deleted it, at a step at which it was present.      *)
(* Every other answer changes nothing and only has to have been true at    *)
(* some moment of the call: get either way, an insert that finds its key, *)
(* a remove that does not.  obs[t] holds the truth values of "key in set"  *)
(* seen since t's call began.  Values stored with the keys are left out.   *)
(***************************************************************************)
EXTENDS FiniteSets

CONSTANTS Threads, Keys

Kinds == {"get", "insert", "remove"}
NoOp == [kind |-> "none", key |-> "none"]

VARIABLES
  set,   \* the keys in the set
  op,    \* op[t]: the operation t is running, or NoOp
  res,   \* res[t]: whether t's last operation found its key
  obs    \* obs[t]: the values of op[t].key \in set during t's operation

vars == <<set, op, res, obs>>

TypeOK ==
  /\ set \subseteq Keys
  /\ op \in [Threads -> [kind : Kinds, key : Keys] \cup {NoOp}]
  /\ res \in [Threads -> BOOLEAN]
  /\ obs \in [Threads -> SUBSET BOOLEAN]

Init ==
  /\ set = {}
  /\ op = [t \in Threads |-> NoOp]
  /\ res = [t \in Threads |-> FALSE]
  /\ obs = [t \in Threads |-> {}]

\* Thread t calls get, insert or remove with key k.
Begin(t, kd, k) ==
  /\ op[t] = NoOp
  /\ op' = [op EXCEPT ![t] = [kind |-> kd, key |-> k]]
  /\ res' = [res EXCEPT ![t] = FALSE]
  /\ UNCHANGED set

\* t's insert takes effect: its key was absent and is now present.
Add(t) ==
  /\ op[t].kind = "insert"
  /\ op[t].key \notin set
  /\ set' = set \cup {op[t].key}
  /\ op' = [op EXCEPT ![t] = NoOp]
  /\ res' = [res EXCEPT ![t] = FALSE]

\* t's remove takes effect: its key was present and is now absent.
Del(t) ==
  /\ op[t].kind = "remove"
  /\ op[t].key \in set
  /\ set' = set \ {op[t].key}
  /\ op' = [op EXCEPT ![t] = NoOp]
  /\ res' = [res EXCEPT ![t] = TRUE]

(* t's operation returns f without changing the set: a get, an insert   *)
(* that found its key, or a remove that did not; f held at some moment  *)
(* of the call.                                                          *)
Return(t, f) ==
  /\ \/ op[t].kind = "get"
     \/ op[t].kind = "insert" /\ f
     \/ op[t].kind = "remove" /\ ~f
  /\ f \in obs[t] \cup {op[t].key \in set}
  /\ op' = [op EXCEPT ![t] = NoOp]
  /\ res' = [res EXCEPT ![t] = f]
  /\ UNCHANGED set

\* After every step, each running operation records what it would find now.
ObsNext ==
  obs' = [u \in Threads |-> IF op'[u] = NoOp THEN {}
                            ELSE obs[u] \cup {op'[u].key \in set'}]

Next ==
  /\ \E t \in Threads :
       \/ \E kd \in Kinds, k \in Keys : Begin(t, kd, k)
       \/ Add(t)
       \/ Del(t)
       \/ \E f \in BOOLEAN : Return(t, f)
  /\ ObsNext

Spec == Init /\ [][Next]_vars
============================================================================
