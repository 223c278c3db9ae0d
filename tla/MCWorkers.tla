----------------------------- MODULE MCWorkers -----------------------------
(***************************************************************************)
(* The components that share no state with one another, each on its small  *)
(* instance: a behavior of this specification is one of the component that *)
(* `who` names, while the others stay where they began.                    *)
(***************************************************************************)
EXTENDS Semaphore, KeysSemaphore, KeysLock, MirrorWriter, NodesMonitor

CONSTANTS a, b, c
AllKeys     == {a, b, c}
SomeBatches == {{a}, {a, b}, {b, c}, {a, b, c}}

NotANumber == -1
SomeArgs   == {0, NotANumber, 2, 4}

VARIABLE who

utilVars   == <<semVars, keyVars, lockVars>>
workerVars == <<mirrorVars, nodeVars>>
all        == <<who, utilVars, workerVars>>

Init ==
    /\ who \in {"semaphore", "keys_semaphore", "keys_lock",
                "mirror_writer", "nodes_monitor"}
    /\ SemInit /\ KeyInit /\ LockInit /\ MirrorInit /\ NodeInit

Next ==
    /\ UNCHANGED who
    /\ \/ who = "semaphore"      /\ SemNext
          /\ UNCHANGED <<keyVars, lockVars, workerVars>>
       \/ who = "keys_semaphore" /\ KeyNext
          /\ UNCHANGED <<semVars, lockVars, workerVars>>
       \/ who = "keys_lock"      /\ LockNext
          /\ UNCHANGED <<semVars, keyVars, workerVars>>
       \/ who = "mirror_writer"  /\ MirrorNext
          /\ UNCHANGED <<utilVars, nodeVars>>
       \/ who = "nodes_monitor"  /\ NodeNext
          /\ UNCHANGED <<utilVars, mirrorVars>>

(* The fairness of each component, in the behaviors in which it moves.  As  *)
(* `who` never changes, actions of different components share a condition.  *)
\* a caller: its work ends, then its cleanup
CallerEnds(p) ==
    \/ who = "semaphore" /\ Release(p) /\ UNCHANGED <<keyVars, lockVars>>
    \/ who = "keys_semaphore" /\ (KeyRelease(p) \/ Cleanup(p)) /\ UNCHANGED <<semVars, lockVars>>
    \/ who = "keys_lock" /\ LockRelease(p) /\ UNCHANGED <<semVars, keyVars>>

TimerFires ==
    \/ who = "semaphore" /\ (\E n \in 1..Len(wq) : OnTimeout(n)) /\ UNCHANGED nodeVars
    \/ who = "nodes_monitor" /\ RebuildTimer /\ UNCHANGED semVars

BatchEnds ==
    \/ who = "mirror_writer" /\ RunBatch /\ UNCHANGED nodeVars
    \/ who = "nodes_monitor" /\ (RebuildWorker \/ BatchFound \/ BatchBuilt) /\ UNCHANGED mirrorVars

Fairness ==
    /\ \A p \in SemProcs \cup KeyProcs \cup LockProcs : WF_utilVars(CallerEnds(p))
    /\ WF_<<semVars, nodeVars>>(TimerFires)
    /\ WF_<<mirrorVars, nodeVars>>(BatchEnds)
    /\ WF_nodeVars(who = "nodes_monitor" /\ RunDue /\ RunNode)
    /\ WF_nodeVars(who = "nodes_monitor" /\ (HideNode \/ UninstallNode))
    /\ WF_nodeVars(who = "nodes_monitor" /\ (StartSave \/ EndSave))

Spec == Init /\ [][Next]_all /\ Fairness

TypeOK ==
    /\ SemTypeOK /\ KeyTypeOK /\ LockTypeOK
    /\ MirrorTypeOK /\ NodeTypeOK
=============================================================================
