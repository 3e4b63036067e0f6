------------------------------ MODULE BlobStore ------------------------------
(***************************************************************************)
(* What the blob facade of src/src/client/blob_apis.rs promises its        *)
(* callers, stated without chunks, levels or requests: a store of entries  *)
(* <<address, data>> on which each task runs store_*_blob, read_blob and   *)
(* delete_blob one at a time.                                              *)
(*                                                                         *)
(* An operation is called, may take effect at one point while it is        *)
(* pending (a read observes the entry, a delete removes it), and returns.  *)
(* A store takes effect when it returns.  An operation may always return   *)
(* a network error, counted in faults, with its effect applied or not; it  *)
(* returns Ok only after taking effect, and NotFound (or                   *)
(* InvalidOperation) only when the entry is absent or not the caller's.    *)
(***************************************************************************)
EXTENDS Naturals

CONSTANTS
    Tasks,
    Entries,        \* <<address, data>> pairs a store can be called with
    Addresses,      \* addresses read and delete can be called with
    MayRead(_, _),  \* MayRead(t, a): the client of task t may read address a
    MayDelete(_, _),\* MayDelete(t, a): the client of task t may delete a
    NoArg

VARIABLES
    store,      \* the entries held
    op,         \* per task: the pending call, and whether it took effect
    ok,         \* per task: whether its last operation returned Ok
    faults      \* network errors returned so far

vars == <<store, op, ok, faults>>

IdleOp == [kind |-> "idle", arg |-> NoArg, done |-> FALSE]

TypeOK ==
    /\ store \subseteq Entries
    /\ faults \in Nat
    /\ ok \in [Tasks -> BOOLEAN]
    /\ \A t \in Tasks :
        op[t] \in {IdleOp}
                  \cup [kind : {"store"}, arg : Entries, done : {FALSE}]
                  \cup [kind : {"read", "delete"}, arg : Addresses, done : BOOLEAN]

Init ==
    /\ store = {}
    /\ op = [t \in Tasks |-> IdleOp]
    /\ ok = [t \in Tasks |-> FALSE]
    /\ faults = 0

Held(a) == {e \in store : e[1] = a}

Call(t, kind, arg) ==
    /\ op[t].kind = "idle" /\ op'[t].kind = kind
    /\ op' = [op EXCEPT ![t] = [kind |-> kind, arg |-> arg, done |-> FALSE]]
    /\ UNCHANGED <<store, ok, faults>>

Return(t, result) ==
    /\ op' = [op EXCEPT ![t] = IdleOp]
    /\ ok' = [ok EXCEPT ![t] = result]

(* Any pending operation may fail with a network error; a store or delete  *)
(* may have been applied all the same.                                     *)
Fail(t) ==
    /\ op[t].kind # "idle"
    /\ \/ store' = store
       \/ op[t].kind = "store" /\ store' = store \cup {op[t].arg}
       \/ op[t].kind = "delete" /\ MayDelete(t, op[t].arg)
          /\ store' = store \ Held(op[t].arg)
    /\ faults' = faults + 1
    /\ Return(t, FALSE)

StoreOk(t) ==
    /\ op[t].kind = "store"
    /\ store' = store \cup {op[t].arg}
    /\ Return(t, TRUE)
    /\ UNCHANGED faults

ReadObserve(t) ==
    /\ op[t].kind = "read" /\ ~op[t].done
    /\ Held(op[t].arg) # {} /\ MayRead(t, op[t].arg)
    /\ op' = [op EXCEPT ![t].done = TRUE]
    /\ UNCHANGED <<store, ok, faults>>

DeleteApply(t) ==
    /\ op[t].kind = "delete" /\ ~op[t].done
    /\ Held(op[t].arg) # {} /\ MayDelete(t, op[t].arg)
    /\ store' = store \ Held(op[t].arg)
    /\ op' = [op EXCEPT ![t].done = TRUE]
    /\ UNCHANGED <<ok, faults>>

(* A read or delete returns Ok once it has taken effect.                   *)
Done(t) ==
    /\ op[t].kind \in {"read", "delete"} /\ op[t].done
    /\ Return(t, TRUE)
    /\ UNCHANGED <<store, faults>>

(* NotFound / InvalidOperation: nothing at the address the caller may      *)
(* read (for a read) or delete (for a delete).                             *)
Refuse(t) ==
    /\ op[t].kind \in {"read", "delete"}
    /\ LET a == op[t].arg
       IN  \/ Held(a) = {}
           \/ op[t].kind = "read" /\ ~MayRead(t, a)
           \/ op[t].kind = "delete" /\ ~MayDelete(t, a)
    /\ Return(t, FALSE)
    /\ UNCHANGED <<store, faults>>

Next ==
    \E t \in Tasks :
        \/ \E e \in Entries : Call(t, "store", e)
        \/ \E a \in Addresses : Call(t, "read", a) \/ Call(t, "delete", a)
        \/ Fail(t) \/ StoreOk(t) \/ ReadObserve(t) \/ DeleteApply(t)
        \/ Done(t) \/ Refuse(t)

Spec == Init /\ [][Next]_vars

=============================================================================
