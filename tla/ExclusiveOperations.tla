------------------------ MODULE ExclusiveOperations ------------------------
(***************************************************************************)
(* What the operation slots promise: operations of one kind exclude each   *)
(* other, an operation runs under one revision of what it operates on, and *)
(* an operation that has ended never runs again.                           *)
(***************************************************************************)
EXTENDS Naturals

CONSTANTS Kind,        \* the lanes
          Operation,   \* what may run in them
          Idle         \* the lane is free

VARIABLES epoch,       \* revision of the thing operated on
          lane,        \* the operation running in each lane
          ended        \* operations that have run

exclusiveVars == <<epoch, lane, ended>>

ExclusiveInit ==
    /\ epoch = 0
    /\ lane = [k \in Kind |-> Idle]
    /\ ended = {}

Busy == {k \in Kind : lane[k] # Idle}

\* The operations in some lanes end, and at most one that never ran starts in a
\* lane that is then free.
Turn(K) ==
    LET freed == [k \in Kind |-> IF k \in K THEN Idle ELSE lane[k]]
    IN  /\ ended' = ended \cup {lane[k] : k \in K}
        /\ \/ lane' = freed
           \/ \E k \in Kind, o \in Operation :
                 /\ freed[k] = Idle
                 /\ o \notin ended' /\ \A j \in Kind : lane[j] # o
                 /\ lane' = [freed EXCEPT ![k] = o]

\* Work within one revision.
Operate ==
    /\ UNCHANGED epoch
    /\ \E K \in SUBSET Busy : Turn(K)

\* A new revision: whatever ran under the old one has ended.
Advance ==
    /\ epoch' = epoch + 1
    /\ Turn(Busy)

ExclusiveNext == Operate \/ Advance

ExclusiveSpec == ExclusiveInit /\ [][ExclusiveNext]_exclusiveVars
=============================================================================
