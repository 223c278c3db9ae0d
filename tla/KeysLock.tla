------------------------------ MODULE KeysLock ------------------------------
(***************************************************************************)
(* The lock on batches of keys of util/keys_lock.js: surround_keys(keys,   *)
(* func) runs func while no other function runs for any of these keys.     *)
(* MapBuilder locks the chunks it builds with it, the block stores of the  *)
(* agents the blocks they modify.                                          *)
(*                                                                         *)
(* Every method runs to completion: one action each.                       *)
(***************************************************************************)
EXTENDS Integers, Sequences, SequencesExt

CONSTANTS
    LockProcs,     \* coroutines
    LockKeys,
    Batches        \* the sets of keys they lock

ASSUME BatchesAssumption == Batches \subseteq SUBSET LockKeys

VARIABLES
    locked,        \* the keys of _keys_map
    wait_list,     \* _wait_list: the waiting coroutines
    lock_pc,       \* "idle", "waiting" or "running" its function
    lock_batch     \* the keys a coroutine asked for

lockVars == <<locked, wait_list, lock_pc, lock_batch>>

LockInit ==
    /\ locked = {}
    /\ wait_list = <<>>
    /\ lock_pc = [p \in LockProcs |-> "idle"]
    /\ lock_batch = [p \in LockProcs |-> {}]

CanLock(keys, taken) == keys \cap taken = {}

\* surround_keys, _wait: who can lock its keys does so, ahead of the waiters
Surround(p, keys) ==
    /\ lock_pc[p] = "idle"
    /\ lock_batch' = [lock_batch EXCEPT ![p] = keys]
    /\ \/ /\ CanLock(keys, locked)
          /\ locked' = locked \cup keys
          /\ lock_pc' = [lock_pc EXCEPT ![p] = "running"]
          /\ UNCHANGED wait_list
       \/ /\ ~CanLock(keys, locked)
          /\ wait_list' = Append(wait_list, p)
          /\ lock_pc' = [lock_pc EXCEPT ![p] = "waiting"]
          /\ UNCHANGED locked

\* the keys taken once _wakeup_waiters has passed the first i waiters
TakenFrom(start) ==
    LET taken[i \in 0..Len(wait_list)] ==
            IF i = 0 THEN start
            ELSE IF CanLock(lock_batch[wait_list[i]], taken[i - 1])
                 THEN taken[i - 1] \cup lock_batch[wait_list[i]] ELSE taken[i - 1]
    IN  taken

\* mutants: the waiters are tried before the keys are unlocked; only the first is;
\* each against the keys locked before the loop
WokenTooEarly(start) ==
    {wait_list[i] : i \in {j \in 1..Len(wait_list) :
                        CanLock(lock_batch[wait_list[j]], TakenFrom(locked)[j - 1])}}
WokenFirst(start) ==
    {wait_list[i] : i \in {j \in 1..Len(wait_list) : j = 1 /\ CanLock(lock_batch[wait_list[j]], start)}}
WokenAtOnce(start) ==
    {wait_list[i] : i \in {j \in 1..Len(wait_list) : CanLock(lock_batch[wait_list[j]], start)}}
Woken(start) ==
    {wait_list[i] : i \in {j \in 1..Len(wait_list) :
                        CanLock(lock_batch[wait_list[j]], TakenFrom(start)[j - 1])}}

\* what is left of the list when those woken have left it
Left(woken) ==
    LET left[i \in 0..Len(wait_list)] ==
            IF i = 0 THEN <<>>
            ELSE IF wait_list[i] \in woken THEN left[i - 1] ELSE Append(left[i - 1], wait_list[i])
    IN  left[Len(wait_list)]

\* func ended: _release, _unlock_keys, _wakeup_waiters
LockRelease(p) ==
    LET start == locked \ lock_batch[p]
        woken == Woken(start)
    IN  /\ lock_pc[p] = "running"
        /\ locked' = start \cup UNION {lock_batch[q] : q \in woken}
        /\ wait_list' = Left(woken)
        /\ lock_pc' = [q \in LockProcs |-> CASE q = p -> "idle"
                                    [] q \in woken -> "running"
                                    [] OTHER -> lock_pc[q]]
        /\ lock_batch' = [lock_batch EXCEPT ![p] = {}]

LockNext == \E p \in LockProcs : LockRelease(p) \/ \E keys \in Batches : Surround(p, keys)

(* A function ends. *)
LockFairness == \A p \in LockProcs : WF_lockVars(LockRelease(p))

LockSpec == LockInit /\ [][LockNext]_lockVars /\ LockFairness

-----------------------------------------------------------------------------
(* Properties *)

LockRunning == {p \in LockProcs : lock_pc[p] = "running"}
LockWaiting == {p \in LockProcs : lock_pc[p] = "waiting"}

\* The list holds exactly the waiting coroutines, each once, and _keys_map exactly
\* the keys of the running ones.
LockTypeOK ==
    /\ lock_pc \in [LockProcs -> {"idle", "waiting", "running"}]
    /\ lock_batch \in [LockProcs -> SUBSET LockKeys]
    /\ wait_list \in Seq(LockProcs) /\ IsInjective(wait_list) /\ ToSet(wait_list) = LockWaiting
    /\ locked = UNION {lock_batch[p] : p \in LockRunning}

\* Functions that lock a common key do not run at the same time.
Exclusion == \A p, q \in LockRunning : p # q => lock_batch[p] \cap lock_batch[q] = {}

\* No wakeup is lost: who waits does so for a key that is locked right now, so a
\* release to come looks at it again.
NoLostWakeup == \A p \in LockWaiting : lock_batch[p] \cap locked # {}

\* The starvation the code accepts needs new functions to come for ever: once none
\* does, everyone who waits gets its turn.
NoArrival == \A p \in LockProcs : lock_pc[p] = "idle" => lock_pc'[p] = "idle"
ServedOnceQuiet ==
    <>[][NoArrival]_lockVars => \A p \in LockProcs : []<>(lock_pc[p] # "waiting")
=============================================================================
