--------------------------- MODULE KeysSemaphore ---------------------------
(***************************************************************************)
(* The map of semaphores of util/keys_semaphore.js: surround_key(key,      *)
(* func) makes the semaphore of a key on demand and drops it from the map  *)
(* when it is not in use.  Its users limit by it what runs at once for a   *)
(* bucket or a tier (one function) and for an agent (config.js: 16, 128).  *)
(*                                                                         *)
(* surround_key awaits surround(), so between the release of the semaphore *)
(* and the cleanup of the map other coroutines of the process run.  They   *)
(* are microtasks: the cleanup is queued by the release, and a function    *)
(* that starts after the release needs several turns of the queue to end.  *)
(***************************************************************************)
EXTENDS Integers, Sequences, FiniteSets

CONSTANTS
    KeyProcs,      \* coroutines
    Keys,
    Sems,          \* Semaphore objects
    NoSem,         \* the map has no entry
    KeyInitial     \* the initial count of each

ASSUME KeyProcsAssumption   == IsFiniteSet(KeyProcs)
ASSUME KeysAssumption       == Keys # {}
ASSUME KeyInitialAssumption == KeyInitial \in Nat \ {0}
ASSUME NoSemAssumption      == NoSem \notin Sems

VARIABLES
    keys_map,      \* _keys_map
    key_value,     \* _value of each semaphore
    key_wq,        \* its wait queue
    key_pc,        \* "idle", "waiting", "running" its function, "cleanup" pending
    key,           \* the key a coroutine asked for
    sem,           \* the semaphore it found
    before         \* cleanups queued before its function can end

keyVars == <<keys_map, key_value, key_wq, key_pc, key, sem, before>>

KeyIdle    == {p \in KeyProcs : key_pc[p] = "idle"}
KeyRunning == {p \in KeyProcs : key_pc[p] = "running"}
Cleaning   == {p \in KeyProcs : key_pc[p] = "cleanup"}

\* a new Semaphore: an object nothing refers to
Unused == {s \in Sems : /\ \A k \in Keys : keys_map[k] # s
                        /\ \A p \in KeyProcs \ KeyIdle : sem[p] # s}

KeyInit ==
    /\ keys_map = [k \in Keys |-> NoSem]
    /\ key_value = [s \in Sems |-> KeyInitial]
    /\ key_wq = [s \in Sems |-> <<>>]
    /\ key_pc = [p \in KeyProcs |-> "idle"]
    /\ key = [p \in KeyProcs |-> CHOOSE k \in Keys : TRUE]
    /\ sem = [p \in KeyProcs |-> NoSem]
    /\ before = [p \in KeyProcs |-> {}]

\* surround_key(k, func): the semaphore is found or made, and its wait() called
SurroundKey(p, k) ==
    /\ key_pc[p] = "idle"
    /\ \E s \in IF keys_map[k] # NoSem THEN {keys_map[k]} ELSE Unused :
        /\ keys_map' = [keys_map EXCEPT ![k] = s]
        /\ sem' = [sem EXCEPT ![p] = s]
        /\ \/ /\ key_wq[s] = <<>> /\ key_value[s] > 0
              /\ key_value' = [key_value EXCEPT ![s] = @ - 1]
              /\ key_pc' = [key_pc EXCEPT ![p] = "running"]
              /\ before' = [before EXCEPT ![p] = Cleaning]
              /\ UNCHANGED key_wq
           \/ /\ ~(key_wq[s] = <<>> /\ key_value[s] > 0)
              /\ key_wq' = [key_wq EXCEPT ![s] = Append(@, p)]
              /\ key_pc' = [key_pc EXCEPT ![p] = "waiting"]
              /\ UNCHANGED <<key_value, before>>
    /\ key' = [key EXCEPT ![p] = k]

\* mutant: nobody is woken
ReleaseSilently(p) ==
    /\ key_pc[p] = "running"
    /\ before[p] = {}
    /\ key_value' = [key_value EXCEPT ![sem[p]] = @ + 1]
    /\ key_pc' = [key_pc EXCEPT ![p] = "cleanup"]
    /\ UNCHANGED <<key_wq, before, keys_map, key, sem>>
\* func ended: surround() releases the semaphore, which wakes the first waiter
KeyRelease(p) ==
    LET s == sem[p]
    IN  /\ key_pc[p] = "running"
        /\ before[p] = {}
        /\ \/ /\ key_wq[s] = <<>>
              /\ key_value' = [key_value EXCEPT ![s] = @ + 1]
              /\ key_pc' = [key_pc EXCEPT ![p] = "cleanup"]
              /\ UNCHANGED <<key_wq, before>>
           \/ /\ key_wq[s] # <<>>
              /\ key_wq' = [key_wq EXCEPT ![s] = Tail(@)]
              /\ key_pc' = [key_pc EXCEPT ![p] = "cleanup", ![Head(key_wq[s])] = "running"]
              /\ before' = [before EXCEPT ![Head(key_wq[s])] = Cleaning \cup {p}]
              /\ UNCHANGED key_value
    /\ UNCHANGED <<keys_map, key, sem>>

\* mutant: only the waiters count as a use
InUseByWaiters(s) == key_wq[s] # <<>>
InUse(s) == key_value[s] # KeyInitial \/ key_wq[s] # <<>>

\* the finally of surround_key
Cleanup(p) ==
    /\ key_pc[p] = "cleanup"
    /\ keys_map' = IF InUse(sem[p]) THEN keys_map ELSE [keys_map EXCEPT ![key[p]] = NoSem]
    /\ key_pc' = [key_pc EXCEPT ![p] = "idle"]
    /\ sem' = [sem EXCEPT ![p] = NoSem]
    /\ before' = [q \in KeyProcs |-> before[q] \ {p}]
    /\ UNCHANGED <<key_value, key_wq, key>>

KeyNext == \E p \in KeyProcs :
    (\E k \in Keys : SurroundKey(p, k)) \/ KeyRelease(p) \/ Cleanup(p)

(* A function ends and a microtask runs. *)
KeyFairness == \A p \in KeyProcs : WF_keyVars(KeyRelease(p)) /\ WF_keyVars(Cleanup(p))

KeySpec == KeyInit /\ [][KeyNext]_keyVars /\ KeyFairness

-----------------------------------------------------------------------------
(* Properties *)

\* Who waits is in the queue of the semaphore it found, and the semaphores
\* account for what runs under them.
KeyTypeOK ==
    /\ keys_map \in [Keys -> Sems \cup {NoSem}]
    /\ key_pc \in [KeyProcs -> {"idle", "waiting", "running", "cleanup"}]
    /\ key \in [KeyProcs -> Keys]
    /\ sem \in [KeyProcs -> Sems \cup {NoSem}]
    /\ before \in [KeyProcs -> SUBSET KeyProcs]
    /\ \A s \in Sems :
        /\ key_wq[s] \in Seq({p \in KeyProcs : key_pc[p] = "waiting" /\ sem[p] = s})
        /\ key_value[s] = KeyInitial - Cardinality({p \in KeyRunning : sem[p] = s})

\* surround_key drops the semaphore of a key only if it is not in use: what runs
\* or waits for a key does so under the semaphore that is in the map, so at most
\* the initial count of functions run at once for a key.
InMapWhileInUse ==
    \A p \in KeyProcs : key_pc[p] \in {"running", "waiting"} => keys_map[key[p]] = sem[p]

\* Who waits runs its function at last.
EventuallyRuns == \A p \in KeyProcs : []<>(key_pc[p] # "waiting")
=============================================================================
