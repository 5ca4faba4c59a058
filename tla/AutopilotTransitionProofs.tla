--------------------- MODULE AutopilotTransitionProofs ---------------------
(***************************************************************************)
(* Theorems about AutopilotTransition and, at the end, about the legacy    *)
(* OptimizationQueue, whose approved candidates the transition runner      *)
(* considers. Their proofs share no state: each specification has its own  *)
(* variables and its own invariants.                                       *)
(***************************************************************************)
EXTENDS AutopilotTransition, OptimizationQueue, FiniteSetTheorems, TLAPS

-----------------------------------------------------------------------------
(* The inductive invariant *)

Mode   == {"promoting", "rolling_back"}
MovePc == {"version", "revision", "swap", "reread", "recheck"}

ConsiderTask == [pc : {"consider"}, cand : Candidate, policy : 1 .. MaxPolicy]
ExpireTask   == [pc : {"expire"}, policy : 1 .. MaxPolicy]
MessageTask  == [pc : {"select", "record"}, msg : Message, policy : 1 .. MaxPolicy]
ResumeTask   == [pc : {"resume"}, cand : Candidate, mode : Mode, expected : Nat]
MoveTask     == [pc : MovePc, cand : Candidate, mode : Mode, policy : 1 .. MaxPolicy,
                 expected : Nat, version : Version, revision : Nat]
WriteTask    == [pc : {"write"}, cand : Candidate, from : SUBSET RowState, to : RowState]
SettleTask   == [pc : {"settle"}, cand : Candidate, applied : BOOLEAN, revision : Nat]
RowTask      == ConsiderTask \cup ExpireTask \cup ResumeTask \cup MoveTask \cup WriteTask
                \cup SettleTask

\* What a call holds fits the rows: it writes only to rows that exist, out of live
\* states, and it moves the pointer under the policy of its row.
Fits(t) ==
    /\ t.pc \in MovePc \cup {"resume", "write", "settle"} => row[t.cand] # NoRow
    /\ t.pc \in MovePc => row[t.cand].policy = t.policy
    /\ t.pc = "write" => t.from \subseteq Live

TasksFit == \A h \in Hook : task[h] # Idle => Fits(task[h])

\* What a message's loop remembers is a transition that exists.
SelectionsFit == \A m \in Message : selection[m] # NoSelection => row[selection[m].cand] # NoRow

\* The call works for the loop of message m.
Serves(h, m) == task[h] # Idle /\ task[h].pc \in {"select", "record"} /\ task[h].msg = m

\* A message has one loop, and while it reports what it selected is not forgotten.
LoopsApart ==
    \A m \in Message, h \in Hook : Serves(h, m) =>
        /\ \A g \in Hook : Serves(g, m) => g = h
        /\ task[h].pc = "record" => selection[m] # NoSelection

Inv == TypeOK /\ TasksFit /\ SelectionsFit /\ LoopsApart

-----------------------------------------------------------------------------
(* Tasks *)

\* A task is of the kind its pc says.
LEMMA TaskKinds ==
    ASSUME NEW t \in Task
    PROVE  /\ t.pc = "consider" => t \in ConsiderTask
           /\ t.pc = "expire" => t \in ExpireTask
           /\ t.pc \in {"select", "record"} => t \in MessageTask
           /\ t.pc = "resume" => t \in ResumeTask
           /\ t.pc \in MovePc => t \in MoveTask
           /\ t.pc = "write" => t \in WriteTask
           /\ t.pc = "settle" => t \in SettleTask
BY DEF Task, ConsiderTask, ExpireTask, MessageTask, ResumeTask, MoveTask, WriteTask,
       SettleTask, MovePc, Mode

\* A task of one of the other kinds is a task, and not the work of a message loop.
LEMMA RowTasks ==
    ASSUME NEW t \in RowTask
    PROVE  t \in Task /\ t.pc \notin {"select", "record"}
BY DEF Task, RowTask, ConsiderTask, ExpireTask, ResumeTask, MoveTask, WriteTask,
       SettleTask, MovePc, Mode

\* An UPDATE to come is a task.
LEMMA ToWriteTask ==
    ASSUME NEW c \in Candidate, NEW from \in SUBSET RowState, NEW to \in RowState
    PROVE  ToWrite(c, from, to) \in WriteTask
BY DEF ToWrite, WriteTask

\* A pointer move to come is a task.
LEMMA ToMoveTask ==
    ASSUME NEW c \in Candidate, NEW mode \in Mode, NEW policy \in 1 .. MaxPolicy,
           NEW expected \in Nat
    PROVE  ToMove(c, mode, policy, expected) \in MoveTask
BY DEF ToMove, MoveTask, MovePc, Version

\* The version in force is a version.
LEMMA ActiveType == TypeOK => Active \in Version /\ Revision \in Nat
<1> SUFFICES ASSUME TypeOK PROVE Active \in Version /\ Revision \in Nat
  OBVIOUS
<1>1. moves \in Seq(Move)
  BY DEF TypeOK
<1>2. Revision \in Nat
  BY <1>1 DEF Revision
<1>3. CASE Revision = 0
  BY <1>2, <1>3 DEF Active, VersionAt, Version
<1>4. CASE Revision # 0
  <2>1. moves[Revision] \in Move
    BY <1>1, <1>2, <1>4 DEF Revision
  <2> QED
    BY <2>1, <1>2, <1>4 DEF Active, VersionAt, Move
<1> QED
  BY <1>2, <1>3, <1>4

\* The end of a move is an UPDATE to come.
LEMMA ToSettleTask ==
    ASSUME NEW t \in MoveTask, NEW applied \in BOOLEAN, NEW revision \in Nat
    PROVE  ToSettle(t, applied, revision) \in WriteTask \cup SettleTask
<1>1. CASE t.mode = "promoting"
  BY <1>1 DEF ToSettle, SettleTask, MoveTask
<1>2. CASE t.mode # "promoting"
  <2>1. {"rolling_back"} \in SUBSET RowState /\ "rolled_back" \in RowState
        /\ "recovery_required" \in RowState
    BY DEF RowState, Live
  <2>2. ToWrite(t.cand, {"rolling_back"}, IF applied THEN "rolled_back" ELSE "recovery_required")
           \in WriteTask
    BY <2>1, ToWriteTask DEF MoveTask
  <2> QED
    BY <1>2, <2>2 DEF ToSettle
<1> QED
  BY <1>1, <1>2

-----------------------------------------------------------------------------
(* Rows *)

\* A row keeps its policy, and is left alone once it ended; a row begins only while no
\* other occupies the bucket, and alone.
RowsKeep ==
    /\ \A c \in Candidate : row[c] # NoRow =>
          /\ row'[c] # NoRow
          /\ row'[c].policy = row[c].policy
          /\ row[c].state \notin Live => row'[c] = row[c]
    /\ \A b, c \in Candidate : row[b] = NoRow /\ row'[b] # NoRow =>
          /\ Occupying = {}
          /\ row[c] = NoRow /\ row'[c] # NoRow => b = c

\* A task fits on when the rows keep.
LEMMA FitsStays ==
    ASSUME TypeOK, RowsKeep, NEW t \in Task, Fits(t)
    PROVE  Fits(t)'
<1>1. t.pc \in MovePc \cup {"resume", "write", "settle"} => t.cand \in Candidate
  BY TaskKinds DEF MoveTask, ResumeTask, WriteTask, SettleTask
<1> QED
  BY <1>1 DEF Fits, RowsKeep, MovePc

\* A row that changes its state is a row.
LEMMA RowType ==
    ASSUME NEW r \in Row, NEW s \in RowState
    PROVE  /\ [r EXCEPT !.state = s] \in Row
           /\ [r EXCEPT !.state = s].policy = r.policy
           /\ [r EXCEPT !.state = s].state = s
           /\ \A n \in Nat : /\ [r EXCEPT !.state = s, !.expected = n] \in Row
                             /\ [r EXCEPT !.state = s, !.expected = n].policy = r.policy
BY DEF Row

-----------------------------------------------------------------------------
(* The invariant is inductive *)

\* The tables of which nothing but their types matters here.
RestTyped ==
    /\ outcomes \subseteq Outcome
    /\ considered \subseteq Candidate
    /\ moves \in Seq(Move)
    /\ authority \in [policy : 1 .. MaxPolicy, withdrawn : BOOLEAN, enabled : BOOLEAN]
    /\ publication \in [Candidate -> {"none", "current", "stale"}]
    /\ expired \subseteq Candidate
    /\ crashes \in 0 .. MaxCrash

RowsTyped       == row \in [Candidate -> Row \cup {NoRow}]
SelectionsTyped == selection \in [Message -> Selection \cup {NoSelection}]

\* What every step does: it keeps the invariant, and the rows.
Kept == Inv' /\ RowsKeep

\* A step of one hook keeps its part of the invariant if its own task fits the rows
\* after it.
LEMMA TaskStep ==
    ASSUME Inv, NEW h \in Hook, NEW t \in Task \cup {Idle},
           task' = [task EXCEPT ![h] = t], t # Idle => Fits(t)',
           RowsTyped', RowsKeep, SelectionsTyped', RestTyped'
    PROVE  TypeOK' /\ TasksFit'
<1>1. TypeOK'
  BY DEF Inv, TypeOK, RowsTyped, SelectionsTyped, RestTyped
<1>2. TasksFit'
  <2> SUFFICES ASSUME NEW g \in Hook, task'[g] # Idle PROVE Fits(task[g])'
    BY DEF TasksFit
  <2>1. CASE g = h
    <3>1. task'[g] = t
      BY <2>1 DEF Inv, TypeOK
    <3> QED
      BY <3>1 DEF Fits
  <2>2. CASE g # h
    <3>1. task'[g] = task[g] /\ task[g] \in Task /\ Fits(task[g])
      BY <2>2 DEF Inv, TypeOK, TasksFit
    <3>2. \A u \in Task : Fits(u) => Fits(u)'
      BY FitsStays DEF Inv
    <3> QED
      BY <3>1, <3>2 DEF Fits
  <2> QED
    BY <2>1, <2>2
<1> QED
  BY <1>1, <1>2

\* The loops stay apart when a hook goes on to other work and selects or forgets only
\* for its own message.
LEMMA HookStep ==
    ASSUME Inv, NEW h \in Hook, NEW t \in RowTask \cup {Idle},
           task' = [task EXCEPT ![h] = t], t # Idle => Fits(t)',
           \A m \in Message : selection'[m] = selection[m] \/ Serves(h, m),
           RowsTyped', RowsKeep, SelectionsTyped', SelectionsFit', RestTyped'
    PROVE  Kept
<1>1. TypeOK' /\ TasksFit'
  BY TaskStep, RowTasks
<1>2. LoopsApart'
  <2>1. \A g \in Hook, m \in Message : Serves(g, m)' => g # h /\ task'[g] = task[g] /\ Serves(g, m)
    BY RowTasks DEF Serves, Inv, TypeOK
  <2> QED
    BY <2>1 DEF Inv, LoopsApart
<1> QED
  BY <1>1, <1>2 DEF Inv, Kept

\* A step of a hook that writes no row and selects nothing.
LEMMA ReadingStep ==
    ASSUME Inv, NEW h \in Hook, NEW t \in RowTask \cup {Idle},
           task' = [task EXCEPT ![h] = t], t # Idle => Fits(t),
           UNCHANGED <<row, selection>>, RestTyped'
    PROVE  Kept
<1>1. RowsTyped' /\ SelectionsTyped' /\ SelectionsFit' /\ RowsKeep
  BY DEF Inv, TypeOK, RowsTyped, SelectionsTyped, SelectionsFit, RowsKeep
<1>2. t # Idle => Fits(t)'
  BY DEF Fits
<1> QED
  BY <1>1, <1>2, HookStep

\* A hook begins to work for a message whose loop no other hook serves.
LEMMA LoopStep ==
    ASSUME Inv, NEW h \in Hook, NEW m \in Message, NEW t \in MessageTask,
           Begin(h, t), t.msg = m, Free(m), t.pc = "record" => selection[m] # NoSelection,
           UNCHANGED <<rowVars, moves, envVars, selection>>
    PROVE  Kept
<1>1. t \in Task /\ Fits(t)' /\ task' = [task EXCEPT ![h] = t]
  BY DEF Task, MessageTask, Fits, MovePc, Begin
<1>2. RowsTyped' /\ SelectionsTyped' /\ SelectionsFit' /\ RowsKeep /\ RestTyped'
  BY DEF Inv, TypeOK, RowsTyped, SelectionsTyped, SelectionsFit, RowsKeep, RestTyped, rowVars,
         envVars
<1>3. TypeOK' /\ TasksFit'
  BY <1>1, <1>2, TaskStep
<1>4. LoopsApart'
  <2>1. \A g \in Hook, n \in Message : Serves(g, n)' =>
           \/ g = h /\ n = m /\ task'[g] = t
           \/ g # h /\ n # m /\ task'[g] = task[g] /\ Serves(g, n)
    BY <1>1 DEF Serves, Inv, TypeOK, Free
  <2> QED
    BY <2>1 DEF Inv, LoopsApart
<1> QED
  BY <1>2, <1>3, <1>4 DEF Inv, Kept

\* A step of another actor that writes no row and forgets only what no loop uses.
LEMMA EnvironmentStep ==
    ASSUME Inv, UNCHANGED <<row, task>>, SelectionsTyped', RestTyped',
           \A m \in Message : \/ selection'[m] = selection[m]
                              \/ selection'[m] = NoSelection /\ \A h \in Hook : ~Serves(h, m)
    PROVE  Kept
<1>1. TypeOK' /\ TasksFit' /\ SelectionsFit'
  BY DEF Inv, TypeOK, SelectionsTyped, SelectionsFit, TasksFit, Fits, RestTyped
<1>2. LoopsApart'
  BY DEF Inv, LoopsApart, Serves
<1>3. RowsKeep
  BY DEF RowsKeep
<1> QED
  BY <1>1, <1>2, <1>3 DEF Inv, Kept

\* A row that exists, and is live when its state changes, keeps the rows.
LEMMA OneRowStep ==
    ASSUME Inv, NEW c \in Candidate, NEW r \in Row, row[c] # NoRow,
           row[c].state \in Live, r.policy = row[c].policy,
           row' = [row EXCEPT ![c] = r]
    PROVE  RowsTyped' /\ RowsKeep /\ (SelectionsFit /\ UNCHANGED selection => SelectionsFit')
<1>1. r # NoRow
  BY NoRowAssumption
<1>2. \A d \in Candidate : row'[d] = IF d = c THEN r ELSE row[d]
  BY DEF Inv, TypeOK
<1>3. RowsTyped'
  BY DEF RowsTyped, Inv, TypeOK
<1>4. RowsKeep
  BY <1>1, <1>2 DEF RowsKeep
<1>5. ASSUME SelectionsFit, UNCHANGED selection PROVE SelectionsFit'
  <2> SUFFICES ASSUME NEW m \in Message, selection[m] # NoSelection
               PROVE  row'[selection[m].cand] # NoRow
    BY <1>5 DEF SelectionsFit
  <2>1. selection[m].cand \in Candidate /\ row[selection[m].cand] # NoRow
    BY <1>5 DEF SelectionsFit, Inv, TypeOK, Selection
  <2> QED
    BY <2>1, <1>1, <1>2
<1> QED
  BY <1>3, <1>4, <1>5

\* Tables left alone keep their types.
LEMMA RestKept == Inv /\ UNCHANGED <<outcomes, considered, moves, envVars>> => RestTyped'
BY DEF Inv, TypeOK, RestTyped, envVars

\* What an objection writes is an UPDATE to come, of a row that exists.
LEMMA ObjectionType ==
    ASSUME Inv, NEW c \in Candidate, NEW policy, row[c] # NoRow,
           row[c].state \in {"canary", "monitoring"}, NEW w \in Objection(c, policy) \cup Drifted(c)
    PROVE  /\ w \in WriteTask /\ Fits(w) /\ w.cand = c
           /\ w.to \in {"recovery_required", "rejected"}
<1>1. /\ {"canary", "monitoring"} \in SUBSET RowState /\ {"canary"} \in SUBSET RowState
      /\ {row[c].state} \in SUBSET RowState
      /\ "recovery_required" \in RowState /\ "rejected" \in RowState
  BY DEF RowState, Live
<1>2. \E from \in SUBSET RowState, to \in RowState :
         w = ToWrite(c, from, to) /\ from \subseteq Live /\ to \in {"recovery_required", "rejected"}
  BY <1>1 DEF Objection, Drifted, Live
<1>3. PICK from \in SUBSET RowState, to \in RowState :
         w = ToWrite(c, from, to) /\ from \subseteq Live /\ to \in {"recovery_required", "rejected"}
  BY <1>2
<1>4. w.pc = "write" /\ w.cand = c /\ w.from = from /\ w.to = to
  BY <1>3 DEF ToWrite
<1> QED
  BY <1>3, <1>4, ToWriteTask DEF Fits, MovePc

\* Considering, expiring, selecting and reporting keep the invariant.
LEMMA AdmissionInductive ==
    ASSUME Inv, NEW h \in Hook, AdmissionStep(h)
    PROVE  Kept
<1>1. ASSUME NEW c \in Candidate, Consider(h, c) PROVE Kept
  <2> DEFINE t == [pc |-> "consider", cand |-> c, policy |-> authority.policy]
  <2>1. t \in RowTask /\ Fits(t)
    <3>1. t \in ConsiderTask
      BY DEF ConsiderTask, Inv, TypeOK
    <3> QED
      BY <3>1 DEF RowTask, Fits, MovePc
  <2> QED
    BY <1>1, <2>1, ReadingStep, RestKept DEF Consider, Begin, rowVars
<1>2. ASSUME NEW c \in Candidate, ConsiderUnpublished(h, c) PROVE Kept
  BY <1>2, EnvironmentStep DEF ConsiderUnpublished, Inv, TypeOK, SelectionsTyped, RestTyped, envVars
<1>3. ASSUME Refuse(h) PROVE Kept
  <2>1. task[h] \in ConsiderTask
    BY <1>3, TaskKinds DEF Refuse, Inv, TypeOK
  <2>2. RestTyped'
    BY <1>3, <2>1 DEF Refuse, ConsiderTask, Inv, TypeOK, RestTyped, envVars
  <2> QED
    BY <1>3, <2>2, ReadingStep DEF Refuse, Finish, Continue
<1>4. ASSUME Admit(h) PROVE Kept
  <2> DEFINE c == task[h].cand
             r == [state |-> "canary", base |-> Active, expected |-> Revision,
                   policy |-> task[h].policy, count |-> NoCounts]
  <2>1. task[h] \in ConsiderTask
    BY <1>4, TaskKinds DEF Admit, Inv, TypeOK
  <2>2. c \in Candidate /\ r \in Row
    <3>1. NoCounts \in Counts /\ "canary" \in RowState
      BY DEF NoCounts, Counts, RowState, Live
    <3> QED
      BY <2>1, <3>1, ActiveType DEF ConsiderTask, Row, Inv
  <2>3. \/ row' = row
        \/ Occupying = {} /\ row[c] = NoRow /\ row' = [row EXCEPT ![c] = r]
    BY <1>4 DEF Admit
  <2>4. RowsTyped' /\ RowsKeep /\ SelectionsFit'
    BY <1>4, <2>2, <2>3, NoRowAssumption
       DEF Admit, RowsTyped, RowsKeep, SelectionsFit, Inv, TypeOK, Selection
  <2> QED
    BY <1>4, <2>4, HookStep, RestKept DEF Admit, Finish, Continue, SelectionsTyped, Inv, TypeOK
<1>5. ASSUME BeginExpire(h) PROVE Kept
  <2> DEFINE t == [pc |-> "expire", policy |-> authority.policy]
  <2>1. t \in RowTask /\ Fits(t)
    <3>1. t \in ExpireTask
      BY DEF ExpireTask, Inv, TypeOK
    <3> QED
      BY <3>1 DEF RowTask, Fits, MovePc
  <2> QED
    BY <1>5, <2>1, ReadingStep, RestKept DEF BeginExpire, Begin, rowVars
<1>6. ASSUME ExpireCanaries(h) PROVE Kept
  <2>1. PICK out \in SUBSET Occupying :
           row' = [c \in Candidate |->
                     IF c \in out THEN [row[c] EXCEPT !.state = "rejected"] ELSE row[c]]
    BY <1>6 DEF ExpireCanaries
  <2>2. \A c \in out : /\ c \in Candidate /\ row[c] \in Row /\ row[c].state \in Live
                       /\ [row[c] EXCEPT !.state = "rejected"] \in Row
                       /\ [row[c] EXCEPT !.state = "rejected"].policy = row[c].policy
    <3> TAKE c \in out
    <3>1. c \in Candidate /\ row[c] \in Row /\ row[c].state \in Live
      BY DEF Occupying, Inv, TypeOK
    <3>2. "rejected" \in RowState
      BY DEF RowState
    <3> QED
      BY <3>1, <3>2, RowType
  <2>3. RowsTyped' /\ RowsKeep
    BY <2>1, <2>2, NoRowAssumption DEF RowsTyped, RowsKeep, Inv, TypeOK
  <2>4. SelectionsTyped' /\ SelectionsFit'
    BY <1>6, <2>3 DEF ExpireCanaries, RowsKeep, SelectionsFit, SelectionsTyped, Inv, TypeOK, Selection
  <2> QED
    BY <1>6, <2>3, <2>4, HookStep, RestKept DEF ExpireCanaries, Finish, Continue
<1> QED
  BY <1>1, <1>2, <1>3, <1>4, <1>5, <1>6 DEF AdmissionStep

\* Counting an outcome keeps the columns natural numbers.
LEMMA CountedType ==
    ASSUME NEW n \in Counts, NEW s, NEW r
    PROVE  Counted(n, s, r) \in Counts
<1>1. PICK k \in Nat : k = One(~r.success)
  BY DEF One
<1>2. \A x, y \in Nat : /\ [n EXCEPT !.monitor = x, !.monitorFailed = y] \in Counts
                         /\ [n EXCEPT !.canary = x, !.canaryFailed = y] \in Counts
                         /\ [n EXCEPT !.control = x, !.controlFailed = y] \in Counts
  BY DEF Counts
<1>3. /\ n.monitor + 1 \in Nat /\ n.monitorFailed + k \in Nat
      /\ n.canary + 1 \in Nat /\ n.canaryFailed + k \in Nat
      /\ n.control + 1 \in Nat /\ n.controlFailed + k \in Nat
  BY DEF Counts
<1> QED
  BY <1>1, <1>2, <1>3 DEF Counted

\* Selecting guidance and recording outcomes keep the invariant.
LEMMA MessageInductive ==
    ASSUME Inv, NEW h \in Hook, MessageStep(h)
    PROVE  Kept
<1>1. ASSUME NEW m \in Message, BeginSelect(h, m) PROVE Kept
  <2> DEFINE t == [pc |-> "select", msg |-> m, policy |-> authority.policy]
  <2>1. t \in MessageTask
    BY DEF MessageTask, Inv, TypeOK
  <2> QED
    BY <1>1, <2>1, LoopStep DEF BeginSelect
<1>2. ASSUME NEW m \in Message, BeginRecord(h, m) PROVE Kept
  <2> DEFINE t == [pc |-> "record", msg |-> m, policy |-> authority.policy]
  <2>1. t \in MessageTask
    BY DEF MessageTask, Inv, TypeOK
  <2> QED
    BY <1>2, <2>1, LoopStep DEF BeginRecord
<1>3. ASSUME SelectGuidance(h) PROVE Kept
  <2> DEFINE m == task[h].msg
  <2>1. m \in Message /\ Serves(h, m)
    BY <1>3, TaskKinds DEF SelectGuidance, MessageTask, Serves, Inv, TypeOK
  <2>2. CASE UNCHANGED selection /\ Finish(h)
    BY <1>3, <2>2, ReadingStep, RestKept DEF SelectGuidance, Finish, Continue, rowVars
  <2>3. ASSUME NEW c \in Exposed, NEW w \in Objection(c, task[h].policy) \cup Drifted(c), Continue(h, w),
               UNCHANGED selection
        PROVE  Kept
    <3>1. c \in Candidate /\ row[c] # NoRow /\ row[c].state \in {"canary", "monitoring"}
      BY DEF Exposed, Occupying
    <3>2. w \in RowTask /\ Fits(w)
      BY <3>1, ObjectionType DEF RowTask
    <3> QED
      BY <1>3, <2>3, <3>2, ReadingStep, RestKept DEF SelectGuidance, Continue, rowVars
  <2>4. ASSUME NEW c \in Exposed, Finish(h),
               selection' = [selection EXCEPT ![m] =
                  [cand |-> c, state |-> row[c].state, arm |-> ArmOf(c, m)]]
        PROVE  Kept
    <3>1. c \in Candidate /\ row[c] # NoRow /\ row[c].state \in {"canary", "monitoring"}
      BY DEF Exposed, Occupying
    <3>2. [cand |-> c, state |-> row[c].state, arm |-> ArmOf(c, m)] \in Selection
      BY <3>1 DEF Selection, ArmOf, Arm
    <3>3. /\ SelectionsTyped' /\ SelectionsFit'
          /\ \A n \in Message : selection'[n] = selection[n] \/ Serves(h, n)
      BY <1>3, <2>1, <2>4, <3>1, <3>2
         DEF SelectGuidance, SelectionsTyped, SelectionsFit, Inv, TypeOK, rowVars
    <3>4. RowsTyped' /\ RowsKeep
      BY <1>3 DEF SelectGuidance, RowsTyped, RowsKeep, Inv, TypeOK, rowVars
    <3> QED
      BY <1>3, <2>4, <3>3, <3>4, HookStep, RestKept DEF SelectGuidance, Finish, Continue, rowVars
  <2> QED
    BY <1>3, <2>2, <2>3, <2>4 DEF SelectGuidance
<1>4. ASSUME ArtifactUnavailable(h) PROVE Kept
  <2>1. PICK c \in Exposed :
           Continue(h, ToWrite(c, {"canary", "monitoring"}, "recovery_required"))
    BY <1>4 DEF ArtifactUnavailable
  <2> DEFINE w == ToWrite(c, {"canary", "monitoring"}, "recovery_required")
  <2>2. c \in Candidate /\ row[c] # NoRow
    BY DEF Exposed, Occupying
  <2>3. w \in RowTask
    BY <2>2, ToWriteTask DEF RowTask, RowState, Live
  <2>4. Fits(w)
    BY <2>2 DEF ToWrite, Fits, MovePc, Live
  <2> QED
    BY <1>4, <2>1, <2>3, <2>4, ReadingStep, RestKept DEF ArtifactUnavailable, Continue, rowVars
<1>5. ASSUME DiscardOutcome(h) PROVE Kept
  <2> DEFINE m == task[h].msg
             c == selection[m].cand
  <2>1. m \in Message /\ Serves(h, m) /\ task[h].pc = "record"
    BY <1>5, TaskKinds DEF DiscardOutcome, MessageTask, Serves, Inv, TypeOK
  <2>2. selection[m] \in Selection /\ row[c] # NoRow /\ c \in Candidate
    BY <2>1 DEF Inv, LoopsApart, SelectionsFit, TypeOK, Selection
  <2>3. RowsTyped' /\ RowsKeep
    <3>1. CASE UNCHANGED row
      BY <3>1 DEF RowsTyped, RowsKeep, Inv, TypeOK
    <3>2. ASSUME row[c].state = selection[m].state, NEW w \in Objection(c, task[h].policy) \cup Drifted(c),
                 row' = [row EXCEPT ![c].state = w.to]
          PROVE  RowsTyped' /\ RowsKeep
      <4>1. row[c].state \in {"canary", "monitoring"}
        BY <2>2, <3>2 DEF Selection
      <4>2. w.to \in {"recovery_required", "rejected"}
        BY <2>2, <3>2, <4>1, ObjectionType
      <4>3. w.to \in RowState /\ row[c].state \in Live /\ row[c] \in Row
        BY <2>2, <4>1, <4>2 DEF RowState, Live, Inv, TypeOK
      <4>4. row' = [row EXCEPT ![c] = [row[c] EXCEPT !.state = w.to]]
        BY <2>2, <3>2 DEF Inv, TypeOK
      <4> QED
        BY <2>2, <4>3, <4>4, RowType, OneRowStep
    <3> QED
      BY <1>5, <3>1, <3>2 DEF DiscardOutcome
  <2>4. /\ SelectionsTyped' /\ SelectionsFit'
        /\ \A n \in Message : selection'[n] = selection[n] \/ Serves(h, n)
    BY <1>5, <2>1, <2>3
       DEF DiscardOutcome, SelectionsTyped, SelectionsFit, RowsKeep, Inv, TypeOK, Selection
  <2> QED
    BY <1>5, <2>3, <2>4, HookStep, RestKept DEF DiscardOutcome, Finish, Continue
<1>6. ASSUME NEW r \in Report, RecordOutcome(h, r) PROVE Kept
  <2> DEFINE m == task[h].msg
             s == selection[m]
             c == s.cand
             o == [cand |-> c, msg |-> m, state |-> s.state, arm |-> s.arm,
                   success |-> r.success, hard |-> r.hard]
  <2>1. /\ m \in Message /\ Serves(h, m) /\ task[h].pc = "record"
        /\ task[h].policy \in 1 .. MaxPolicy
    <3>1. task[h] # Idle /\ task[h].pc = "record"
      BY <1>6 DEF RecordOutcome
    <3>2. task[h] \in MessageTask
      BY <3>1, TaskKinds DEF Inv, TypeOK
    <3> QED
      BY <3>1, <3>2 DEF MessageTask, Serves
  <2>2. s \in Selection /\ row[c] # NoRow /\ c \in Candidate /\ row[c] \in Row
    BY <2>1 DEF Inv, LoopsApart, SelectionsFit, TypeOK, Selection
  <2>3. row[c].state \in {"canary", "monitoring"} /\ row[c].policy = task[h].policy
    BY <1>6, <2>2 DEF RecordOutcome, Objection, Drifted, Matches, Selection
  <2>4. PICK n \in Counts : n = Counted(row[c].count, s, r)
    BY <2>2, CountedType DEF Row
  <2>5. PICK next \in RowState :
           /\ row' = [row EXCEPT ![c].count = n, ![c].state = next]
           /\ IF next \in {"promoting", "rolling_back"}
              THEN Continue(h, ToMove(c, next, task[h].policy, row[c].expected))
              ELSE Finish(h)
    <3>1. \A hard : CanaryVerdict(n, hard) \subseteq RowState /\ MonitorVerdict(n, hard) \subseteq RowState
      BY DEF CanaryVerdict, MonitorVerdict, RowState, Live
    <3> QED
      BY <1>6, <2>4, <3>1 DEF RecordOutcome
  <2>6. row' = [row EXCEPT ![c] = [row[c] EXCEPT !.count = n, !.state = next]]
    BY <2>2, <2>5 DEF Inv, TypeOK
  <2>7. RowsTyped' /\ RowsKeep
    <3>1. PICK q : q = [row[c] EXCEPT !.count = n, !.state = next]
      OBVIOUS
    <3>2. q \in Row /\ q.policy = row[c].policy
      BY <2>2, <2>4, <3>1 DEF Row
    <3>3. row' = [row EXCEPT ![c] = q] /\ row[c].state \in Live
      BY <2>3, <2>6, <3>1 DEF Live
    <3> QED
      BY <2>2, <3>2, <3>3, OneRowStep
  <2>8. /\ SelectionsTyped' /\ SelectionsFit'
        /\ \A k \in Message : selection'[k] = selection[k] \/ Serves(h, k)
    BY <1>6, <2>1, <2>7
       DEF RecordOutcome, SelectionsTyped, SelectionsFit, RowsKeep, Inv, TypeOK, Selection
  <2>9. RestTyped'
    <3>1. o \in Outcome
      BY <2>1, <2>2, InputAssumption DEF Outcome, Selection
    <3> QED
      BY <1>6, <3>1 DEF RecordOutcome, RestTyped, Inv, TypeOK, envVars
  <2>10. CASE next \in {"promoting", "rolling_back"}
    <3>1. PICK t \in RowTask : t = ToMove(c, next, task[h].policy, row[c].expected)
      BY <2>1, <2>2, <2>10, ToMoveTask DEF RowTask, Mode, Row
    <3>2. t.pc = "version" /\ t.cand = c /\ t.policy = task[h].policy
      BY <3>1 DEF ToMove
    <3>3. Fits(t)'
      BY <2>2, <2>3, <2>7, <3>2 DEF Fits, RowsKeep, MovePc
    <3>4. task' = [task EXCEPT ![h] = t]
      BY <2>5, <2>10, <3>1 DEF Continue
    <3> QED
      BY <3>3, <3>4, <2>5, <2>7, <2>8, <2>9, HookStep
  <2>11. CASE next \notin {"promoting", "rolling_back"}
    BY <2>5, <2>7, <2>8, <2>9, <2>11, HookStep DEF Finish, Continue
  <2> QED
    BY <2>10, <2>11
<1> QED
  BY <1>1, <1>2, <1>3, <1>4, <1>5, <1>6 DEF MessageStep

\* Resuming and moving the pointer keep the invariant.
LEMMA MoveInductive ==
    ASSUME Inv, NEW h \in Hook, BeginResume(h) \/ MoveStep(h)
    PROVE  Kept
<1>1. ASSUME BeginResume(h) PROVE Kept
  <2>1. PICK c \in Occupying :
           /\ row[c].state \in Mode
           /\ Begin(h, [pc |-> "resume", cand |-> c, mode |-> row[c].state,
                        expected |-> row[c].expected])
    BY <1>1 DEF BeginResume, Mode
  <2> DEFINE t == [pc |-> "resume", cand |-> c, mode |-> row[c].state,
                   expected |-> row[c].expected]
  <2>2. c \in Candidate /\ row[c] # NoRow /\ row[c] \in Row
    BY DEF Occupying, Inv, TypeOK
  <2>3. t \in RowTask /\ Fits(t)
    BY <2>1, <2>2 DEF RowTask, ResumeTask, Row, Fits, MovePc
  <2> QED
    BY <1>1, <2>1, <2>3, ReadingStep, RestKept DEF BeginResume, Begin, rowVars
<1>2. ASSUME Resume(h) PROVE Kept
  <2> DEFINE t == task[h]
  <2>1. t \in ResumeTask /\ row[t.cand] # NoRow
    BY <1>2, TaskKinds DEF Resume, Inv, TypeOK, TasksFit, Fits
  <2>2. CASE Finish(h)
    BY <1>2, <2>2, ReadingStep, RestKept DEF Resume, Finish, Continue, rowVars
  <2>3. CASE Continue(h, ToWrite(t.cand, {t.mode}, "recovery_required"))
    <3> DEFINE w == ToWrite(t.cand, {t.mode}, "recovery_required")
    <3>1. t.cand \in Candidate /\ {t.mode} \in SUBSET RowState /\ {t.mode} \subseteq Live
      BY <2>1 DEF ResumeTask, Mode, RowState, Live
    <3>2. w \in WriteTask
      BY <3>1, ToWriteTask DEF RowState
    <3>3. Fits(w)
      BY <2>1, <3>1 DEF ToWrite, Fits, MovePc
    <3> QED
      BY <1>2, <2>3, <3>2, <3>3, ReadingStep, RestKept DEF RowTask, Resume, Continue, rowVars
  <2>4. ASSUME Matches(t.cand, authority.policy),
               Continue(h, ToMove(t.cand, t.mode, authority.policy, t.expected))
        PROVE  Kept
    <3> DEFINE u == ToMove(t.cand, t.mode, authority.policy, t.expected)
    <3>1. u \in MoveTask
      BY <2>1, ToMoveTask DEF ResumeTask, Inv, TypeOK
    <3>2. Fits(u)
      BY <2>1, <2>4 DEF ToMove, Fits, MovePc, Matches
    <3> QED
      BY <1>2, <2>4, <3>1, <3>2, ReadingStep, RestKept DEF RowTask, Resume, Continue, rowVars
  <2> QED
    BY <1>2, <2>2, <2>3, <2>4 DEF Resume
<1>3. \A pc \in MovePc : Moving(h, pc) => /\ task[h] \in MoveTask
                                         /\ row[task[h].cand] # NoRow
                                         /\ row[task[h].cand].policy = task[h].policy
  BY TaskKinds DEF Moving, Inv, TypeOK, TasksFit, Fits
<1>4. ASSUME NEW t \in MoveTask, t = task[h], task[h] # Idle
      PROVE  /\ \A pc \in MovePc, v \in Version, n \in Nat :
                   /\ [t EXCEPT !.pc = pc] \in RowTask /\ Fits([t EXCEPT !.pc = pc])
                   /\ [t EXCEPT !.pc = pc, !.version = v] \in RowTask
                   /\ Fits([t EXCEPT !.pc = pc, !.version = v])
                   /\ [t EXCEPT !.pc = pc, !.revision = n] \in RowTask
                   /\ Fits([t EXCEPT !.pc = pc, !.revision = n])
             /\ \A applied \in BOOLEAN, n \in Nat :
                   ToSettle(t, applied, n) \in RowTask /\ Fits(ToSettle(t, applied, n))
             /\ ToWrite(t.cand, {"promoting"}, "rejected") \in RowTask
             /\ Fits(ToWrite(t.cand, {"promoting"}, "rejected"))
  <2>1. row[t.cand] # NoRow /\ row[t.cand].policy = t.policy
    BY <1>4 DEF Inv, TasksFit, Fits, MoveTask
  <2>2. ASSUME NEW pc \in MovePc, NEW v \in Version, NEW n \in Nat
        PROVE  /\ [t EXCEPT !.pc = pc] \in RowTask /\ Fits([t EXCEPT !.pc = pc])
               /\ [t EXCEPT !.pc = pc, !.version = v] \in RowTask
               /\ Fits([t EXCEPT !.pc = pc, !.version = v])
               /\ [t EXCEPT !.pc = pc, !.revision = n] \in RowTask
               /\ Fits([t EXCEPT !.pc = pc, !.revision = n])
    BY <2>1 DEF RowTask, MoveTask, Fits, MovePc
  <2>3. ASSUME NEW applied \in BOOLEAN, NEW n \in Nat
        PROVE  ToSettle(t, applied, n) \in RowTask /\ Fits(ToSettle(t, applied, n))
    <3>1. ToSettle(t, applied, n) \in RowTask
      BY ToSettleTask DEF RowTask
    <3>2. Fits(ToSettle(t, applied, n))
      BY <2>1 DEF ToSettle, ToWrite, Fits, MovePc, Live
    <3> QED
      BY <3>1, <3>2
  <2>4. ToWrite(t.cand, {"promoting"}, "rejected") \in RowTask
    BY ToWriteTask DEF RowTask, MoveTask, RowState, Live
  <2>5. Fits(ToWrite(t.cand, {"promoting"}, "rejected"))
    BY <2>1 DEF ToWrite, Fits, MovePc, Live
  <2> QED
    BY <2>2, <2>3, <2>4, <2>5
<1>5. ASSUME NEW u \in RowTask, Continue(h, u), Fits(u),
             UNCHANGED <<rowVars, moves, envVars, selection>>
      PROVE  Kept
  BY <1>5, ReadingStep, RestKept DEF Continue, rowVars
<1>6. ASSUME ReadVersion(h) PROVE Kept
  <2>1. [task[h] EXCEPT !.pc = "revision", !.version = Active] \in RowTask
        /\ Fits([task[h] EXCEPT !.pc = "revision", !.version = Active])
    BY <1>3, <1>4, <1>6, ActiveType DEF ReadVersion, Moving, MovePc, Inv
  <2> QED
    BY <1>5, <1>6, <2>1 DEF ReadVersion
<1>7. ASSUME ReadRevision(h) PROVE Kept
  <2> DEFINE t == task[h]
  <2>1. t \in MoveTask /\ t # Idle /\ Made(t) \in BOOLEAN /\ Revision \in Nat
    BY <1>3, <1>7, ActiveType DEF ReadRevision, Moving, MovePc, Made, Inv
  <2>2. \/ \E applied \in BOOLEAN : Continue(h, ToSettle(t, applied, Revision))
        \/ Continue(h, ToWrite(t.cand, {"promoting"}, "rejected"))
        \/ Continue(h, [t EXCEPT !.pc = "swap"])
    BY <1>7 DEF ReadRevision
  <2>3. UNCHANGED <<rowVars, moves, envVars, selection>>
    BY <1>7 DEF ReadRevision
  <2>4. ASSUME NEW applied \in BOOLEAN, Continue(h, ToSettle(t, applied, Revision)) PROVE Kept
    BY <2>1, <2>3, <2>4, <1>4, <1>5
  <2>5. CASE Continue(h, ToWrite(t.cand, {"promoting"}, "rejected"))
    BY <2>1, <2>3, <2>5, <1>4, <1>5
  <2>6. CASE Continue(h, [t EXCEPT !.pc = "swap"])
    <3>1. [t EXCEPT !.pc = "swap"] \in RowTask /\ Fits([t EXCEPT !.pc = "swap"])
      BY <2>1, <1>4 DEF MovePc, Version
    <3> QED
      BY <2>3, <2>6, <3>1, <1>5
  <2> QED
    BY <2>2, <2>4, <2>5, <2>6
<1>8. ASSUME CandidateUnavailable(h) PROVE Kept
  <2>1. ToWrite(task[h].cand, {"promoting"}, "rejected") \in RowTask
        /\ Fits(ToWrite(task[h].cand, {"promoting"}, "rejected"))
    BY <1>3, <1>4, <1>8 DEF CandidateUnavailable, Moving, MovePc
  <2> QED
    BY <1>5, <1>8, <2>1 DEF CandidateUnavailable
<1>9. ASSUME SwapPointer(h) PROVE Kept
  <2> DEFINE t == task[h]
  <2>1. t \in MoveTask /\ t # Idle /\ row[t.cand] # NoRow /\ Revision \in Nat
    BY <1>3, <1>9, ActiveType DEF SwapPointer, Moving, MovePc, Inv
  <2>2. ASSUME moves' = Append(moves,
                  [by |-> IF t.mode = "promoting" THEN "promotion" ELSE "rollback",
                   cand |-> t.cand, version |-> Target(t)]),
               Continue(h, ToSettle(t, TRUE, Revision + 1))
        PROVE  Kept
    <3>1. ToSettle(t, TRUE, Revision + 1) \in RowTask /\ Fits(ToSettle(t, TRUE, Revision + 1))
      <4>1. Revision + 1 \in Nat
        BY <2>1
      <4> QED
        BY <2>1, <4>1, <1>4
    <3>2. Target(t) \in Version /\ t.cand \in Version
      BY <2>1 DEF Target, MoveTask, Version, Inv, TypeOK, Row
    <3>3. [by |-> IF t.mode = "promoting" THEN "promotion" ELSE "rollback",
           cand |-> t.cand, version |-> Target(t)] \in Move
      BY <3>2 DEF Move
    <3>4. moves' \in Seq(Move)
      BY <2>2, <3>3 DEF Inv, TypeOK
    <3>5. RestTyped'
      BY <1>9, <3>4 DEF SwapPointer, RestTyped, Inv, TypeOK, rowVars, envVars
    <3> QED
      BY <1>9, <2>2, <3>1, <3>5, ReadingStep DEF SwapPointer, Continue, rowVars
  <2>3. ASSUME Continue(h, [t EXCEPT !.pc = "reread", !.revision = Revision]), UNCHANGED moves
        PROVE  Kept
    <3>1. [t EXCEPT !.pc = "reread", !.revision = Revision] \in RowTask
          /\ Fits([t EXCEPT !.pc = "reread", !.revision = Revision])
      BY <2>1, <1>4 DEF MovePc, Version
    <3> QED
      BY <1>9, <2>3, <3>1, <1>5 DEF SwapPointer
  <2> QED
    BY <1>9, <2>2, <2>3 DEF SwapPointer
<1>10. ASSUME SwapRefused(h) PROVE Kept
  BY <1>10, ReadingStep, RestKept DEF SwapRefused, Finish, Continue, rowVars
<1>11. ASSUME RereadVersion(h) PROVE Kept
  <2>1. [task[h] EXCEPT !.pc = "recheck", !.version = Active] \in RowTask
        /\ Fits([task[h] EXCEPT !.pc = "recheck", !.version = Active])
    BY <1>3, <1>4, <1>11, ActiveType DEF RereadVersion, Moving, MovePc, Inv
  <2> QED
    BY <1>5, <1>11, <2>1 DEF RereadVersion
<1>12. ASSUME RereadRevision(h) PROVE Kept
  <2> DEFINE t == task[h]
  <2>1. t \in MoveTask /\ t # Idle /\ Made(t) \in BOOLEAN /\ Revision \in Nat
    BY <1>3, <1>12, ActiveType DEF RereadRevision, Moving, MovePc, Made, Inv
  <2>2. (IF Made(t) THEN Revision ELSE t.revision) \in Nat
    BY <2>1 DEF MoveTask
  <2> QED
    BY <1>12, <2>1, <2>2, <1>4, <1>5 DEF RereadRevision
<1>13. ASSUME Settle(h) PROVE Kept
  <2> DEFINE t == task[h]
             s == IF t.applied THEN "monitoring" ELSE "rejected"
  <2>1. t \in SettleTask /\ t.cand \in Candidate /\ row[t.cand] # NoRow /\ row[t.cand] \in Row
    BY <1>13, TaskKinds DEF Settle, Moving, SettleTask, Inv, TypeOK, TasksFit, Fits
  <2>2. RowsTyped' /\ RowsKeep /\ SelectionsFit'
    <3>1. CASE row' = row
      BY <1>13, <3>1 DEF Settle, RowsTyped, RowsKeep, SelectionsFit, Inv, TypeOK
    <3>2. CASE row' # row
      <4>1. PICK q : q = [row[t.cand] EXCEPT !.state = s, !.expected = t.revision]
        OBVIOUS
      <4>2. q \in Row /\ q.policy = row[t.cand].policy
        BY <2>1, <4>1 DEF Row, SettleTask, RowState, Live
      <4>3. row' = [row EXCEPT ![t.cand] = q] /\ row[t.cand].state \in Live
        BY <1>13, <2>1, <3>2, <4>1 DEF Settle, Live, Inv, TypeOK
      <4> QED
        BY <1>13, <2>1, <4>2, <4>3, OneRowStep DEF Settle, Inv
    <3> QED
      BY <3>1, <3>2
  <2> QED
    BY <1>13, <2>2, HookStep, RestKept DEF Settle, Finish, Continue, SelectionsTyped, Inv, TypeOK
<1>14. ASSUME Write(h) PROVE Kept
  <2> DEFINE t == task[h]
  <2>1. t \in WriteTask /\ t.cand \in Candidate /\ row[t.cand] # NoRow /\ row[t.cand] \in Row
        /\ t.from \subseteq Live /\ t.to \in RowState
    BY <1>14, TaskKinds DEF Write, WriteTask, Inv, TypeOK, TasksFit, Fits
  <2>2. RowsTyped' /\ RowsKeep /\ SelectionsFit'
    <3>1. CASE row' = row
      BY <1>14, <3>1 DEF Write, RowsTyped, RowsKeep, SelectionsFit, Inv, TypeOK
    <3>2. CASE row' # row
      <4>1. PICK q : q = [row[t.cand] EXCEPT !.state = t.to]
        OBVIOUS
      <4>2. q \in Row /\ q.policy = row[t.cand].policy
        BY <2>1, <4>1 DEF Row
      <4>3. row' = [row EXCEPT ![t.cand] = q] /\ row[t.cand].state \in Live
        BY <1>14, <2>1, <3>2, <4>1 DEF Write, Inv, TypeOK
      <4> QED
        BY <1>14, <2>1, <4>2, <4>3, OneRowStep DEF Write, Inv
    <3> QED
      BY <3>1, <3>2
  <2> QED
    BY <1>14, <2>2, HookStep, RestKept DEF Write, Finish, Continue, SelectionsTyped, Inv, TypeOK
<1> QED
  BY <1>1, <1>2, <1>6, <1>7, <1>8, <1>9, <1>10, <1>11, <1>12, <1>13, <1>14 DEF MoveStep

\* The operator, the authority, the ends of messages and crashes keep the invariant.
LEMMA EnvironmentInductive ==
    ASSUME Inv, \/ \E v \in Candidate \cup Older : OperatorMoves(v)
                \/ AuthorityStep
                \/ \E m \in Message : Forget(m)
                \/ \E h \in Hook : Crash(h)
    PROVE  Kept
<1>1. ASSUME NEW v \in Candidate \cup Older, OperatorMoves(v) PROVE Kept
  <2>1. [by |-> "operator", cand |-> NoVersion, version |-> v] \in Move
    BY DEF Move, Version
  <2>2. moves' \in Seq(Move)
    BY <1>1, <2>1 DEF OperatorMoves, Inv, TypeOK
  <2>3. RestTyped' /\ SelectionsTyped'
    BY <1>1, <2>2
       DEF OperatorMoves, RestTyped, SelectionsTyped, Inv, TypeOK, rowVars, envVars
  <2> QED
    BY <1>1, <2>3, EnvironmentStep DEF OperatorMoves, rowVars
<1>2. ASSUME AuthorityStep PROVE Kept
  <2>1. authority' \in [policy : 1 .. MaxPolicy, withdrawn : BOOLEAN, enabled : BOOLEAN]
    <3>1. ASSUME Provision PROVE authority' \in [policy : 1 .. MaxPolicy, withdrawn : BOOLEAN, enabled : BOOLEAN]
      <4>1. authority.policy + 1 \in 1 .. MaxPolicy
        BY <3>1, InputAssumption DEF Provision, Inv, TypeOK
      <4> QED
        BY <3>1, <4>1 DEF Provision, Inv, TypeOK
    <3> QED
      BY <1>2, <3>1 DEF AuthorityStep, Withdraw, Switch, Inv, TypeOK
  <2>2. publication' \in [Candidate -> {"none", "current", "stale"}] /\ expired' \subseteq Candidate
    BY <1>2 DEF AuthorityStep, ScopeMoves, Publish, CanaryExpires, Inv, TypeOK
  <2>3. RestTyped' /\ SelectionsTyped'
    BY <1>2, <2>1, <2>2 DEF AuthorityStep, RestTyped, SelectionsTyped, Inv, TypeOK, rowVars
  <2> QED
    BY <1>2, <2>3, EnvironmentStep DEF AuthorityStep, rowVars
<1>3. ASSUME NEW m \in Message, Forget(m) PROVE Kept
  <2>1. \A h \in Hook : ~Serves(h, m)
    BY <1>3 DEF Forget, Free, Serves
  <2>2. SelectionsTyped'
    BY <1>3 DEF Forget, SelectionsTyped, Inv, TypeOK
  <2>3. \A n \in Message : \/ selection'[n] = selection[n]
                           \/ n = m /\ selection'[n] = NoSelection
    BY <1>3 DEF Forget, Inv, TypeOK
  <2> QED
    BY <1>3, <2>1, <2>2, <2>3, EnvironmentStep, RestKept DEF Forget, rowVars
<1>4. ASSUME NEW h \in Hook, Crash(h) PROVE Kept
  <2>1. RestTyped'
    BY <1>4, InputAssumption DEF Crash, RestTyped, Inv, TypeOK, rowVars
  <2> QED
    BY <1>4, <2>1, ReadingStep DEF Crash, Finish, Continue, rowVars
<1> QED
  BY <1>1, <1>2, <1>3, <1>4

\* Every step keeps the invariant.
LEMMA Inductive == Inv /\ [Next]_vars => Kept
<1> SUFFICES ASSUME Inv, [Next]_vars PROVE Kept
  OBVIOUS
<1>1. CASE Next
  BY <1>1, AdmissionInductive, MessageInductive, MoveInductive, EnvironmentInductive DEF Next
<1>2. CASE UNCHANGED vars
  <2>1. Inv'
    BY <1>2 DEF vars, Inv, TypeOK, TasksFit, SelectionsFit, LoopsApart, Fits, Serves
  <2> QED
    BY <1>2, <2>1 DEF vars, Kept, RowsKeep
<1> QED
  BY <1>1, <1>2

\* The program starts in the invariant.
LEMMA Initially == Init => Inv
<1> SUFFICES ASSUME Init PROVE Inv
  OBVIOUS
<1>1. TypeOK
  BY InputAssumption DEF Init, TypeOK, Move
<1> QED
  BY <1>1 DEF Init, Inv, TasksFit, SelectionsFit, LoopsApart, Serves

\* Tables, pointer and calls keep their types, and what calls hold fits the rows.
THEOREM InvariantHolds == Spec => []Inv
<1>1. Inv /\ [Next]_vars => Inv'
  BY Inductive DEF Kept
<1> QED
  BY Initially, <1>1, PTL DEF Spec

\* The tables of the runner and the tasks of its calls keep their types.
THEOREM TypeCorrect == Spec => []TypeOK
<1>1. Inv => TypeOK
  BY DEF Inv
<1> QED
  BY <1>1, InvariantHolds, PTL

-----------------------------------------------------------------------------
(* The properties *)

\* A transition that ended stays as it ended, whichever call writes late.
THEOREM EndsAreFinal == Spec => RetiredStaysRetired
<1>1. Inv /\ [Next]_vars =>
        [\A c \in Candidate : row[c] # NoRow /\ row[c].state \notin Live => row'[c] = row[c]]_vars
  BY Inductive DEF Kept, RowsKeep
<1> QED
  BY <1>1, InvariantHolds, PTL DEF Spec, RetiredStaysRetired

\* One transition lives in the bucket: the unique index never refuses an INSERT.
THEOREM BucketIsExclusive == Spec => []OneLivePerBucket
<1>1. Init => OneLivePerBucket
  BY DEF Init, OneLivePerBucket
<1>2. ASSUME Inv, OneLivePerBucket, [Next]_vars PROVE OneLivePerBucket'
  <2> SUFFICES ASSUME NEW c \in Candidate, NEW d \in Candidate,
                      row'[c] # NoRow, row'[c].state \in Live,
                      row'[d] # NoRow, row'[d].state \in Live
               PROVE  c = d
    BY DEF OneLivePerBucket, Live
  <2>1. RowsKeep
    BY <1>2, Inductive DEF Kept
  <2>2. \A e \in {c, d} : row[e] # NoRow => e \in Occupying
    BY <2>1 DEF RowsKeep, Occupying
  <2>3. CASE row[c] # NoRow /\ row[d] # NoRow
    BY <1>2, <2>2, <2>3 DEF OneLivePerBucket, Occupying
  <2>4. CASE row[c] = NoRow \/ row[d] = NoRow
    BY <2>1, <2>2, <2>4 DEF RowsKeep
  <2> QED
    BY <2>3, <2>4
<1> QED
  BY <1>1, <1>2, InvariantHolds, PTL DEF Spec

\* Only a hook's compare-and-swap and the operator move the pointer.
LEMMA WhoMoves ==
    ASSUME Inv, [Next]_vars, moves' # moves
    PROVE  \/ \E v \in Candidate \cup Older : OperatorMoves(v)
           \/ \E h \in Hook : SwapPointer(h)
<1>1. ~AuthorityStep /\ \A m \in Message : ~Forget(m)
  BY DEF AuthorityStep, Forget
<1>2. ASSUME NEW h \in Hook
      PROVE  ~AdmissionStep(h) /\ ~MessageStep(h) /\ ~BeginResume(h) /\ ~Crash(h)
  <2>1. ~AdmissionStep(h)
    BY DEF AdmissionStep, Consider, ConsiderUnpublished, Refuse, Admit, BeginExpire, ExpireCanaries
  <2>2. ~MessageStep(h)
    BY DEF MessageStep, BeginSelect, BeginRecord, SelectGuidance, ArtifactUnavailable,
           DiscardOutcome, RecordOutcome
  <2> QED
    BY <2>1, <2>2 DEF BeginResume, Crash
<1>3. ASSUME NEW h \in Hook, MoveStep(h) PROVE SwapPointer(h)
  BY <1>3 DEF MoveStep, Resume, ReadVersion, ReadRevision, CandidateUnavailable, SwapRefused,
              RereadVersion, RereadRevision, Settle, Write
<1>4. Next
  BY DEF vars
<1> QED
  BY <1>1, <1>2, <1>3, <1>4 DEF Next

\* No automatic move of the pointer is made without the authority its candidate was
\* admitted under, however that changes between the hook's reads and its write.
THEOREM MovesAreAuthorized == Spec => AutomationMovesUnderAuthority
<1> DEFINE Authorizes ==
      Len(moves') > Len(moves) /\ moves'[Len(moves')].by # "operator" =>
          LET c == moves'[Len(moves')].cand
          IN  /\ row[c].policy = authority.policy /\ ~authority.withdrawn
              /\ publication[c] = "current"
<1>1. ASSUME Inv, [Next]_vars PROVE Authorizes
  <2> SUFFICES ASSUME moves' # moves, moves'[Len(moves')].by # "operator"
               PROVE  LET c == moves'[Len(moves')].cand
                      IN  /\ row[c].policy = authority.policy /\ ~authority.withdrawn
                          /\ publication[c] = "current"
    BY DEF Inv, TypeOK
  <2>1. ASSUME NEW v \in Candidate \cup Older, OperatorMoves(v) PROVE FALSE
    <3>1. moves'[Len(moves')] = [by |-> "operator", cand |-> NoVersion, version |-> v]
      BY <2>1 DEF OperatorMoves, Inv, TypeOK
    <3> QED
      BY <3>1
  <2>2. PICK h \in Hook : SwapPointer(h)
    BY <1>1, <2>1, WhoMoves
  <2>3. /\ task[h] \in MoveTask /\ row[task[h].cand].policy = task[h].policy
    BY <1>1, <2>2, TaskKinds DEF SwapPointer, Moving, MovePc, Inv, TypeOK, TasksFit, Fits
  <2>4. moves'[Len(moves')].cand = task[h].cand
    <3> DEFINE x == [by |-> IF task[h].mode = "promoting" THEN "promotion" ELSE "rollback",
                     cand |-> task[h].cand, version |-> Target(task[h])]
    <3>1. moves' = Append(moves, x)
      BY <2>2 DEF SwapPointer
    <3>2. Append(moves, x)[Len(Append(moves, x))] = x
      BY <1>1 DEF Inv, TypeOK
    <3> QED
      BY <3>1, <3>2
  <2> QED
    BY <2>2, <2>3, <2>4 DEF SwapPointer, Authorized
<1>2. Inv /\ [Next]_vars => [Authorizes]_vars
  BY <1>1
<1> QED
  BY <1>2, InvariantHolds, PTL DEF Spec, AutomationMovesUnderAuthority

-----------------------------------------------------------------------------
(* What the rows, the calls and the pointer rest on *)

\* What a call still writes to a row ends it.
TasksEnd ==
    \A h \in Hook : task[h] # Idle /\ task[h].pc = "write" =>
        \/ task[h].to \in {"rejected", "recovery_required"}
        \/ task[h].to = "rolled_back" /\ task[h].from = {"rolling_back"}

\* Outcomes are finitely many, of transitions that exist; what is selected from a
\* monitored one is the candidate; a row leaves its phase in time.
Begun == IsFiniteSet(outcomes) /\ \A o \in outcomes : row[o.cand] # NoRow
ArmsFit ==
    \A m \in Message : selection[m] # NoSelection /\ selection[m].state = "monitoring"
        => selection[m].arm = "candidate"
Paced ==
    \A c \in Candidate : row[c] # NoRow =>
        /\ row[c].state = "canary" => row[c].count.canary + row[c].count.control < Horizon
        /\ row[c].state \in {"canary", "promoting"} => row[c].count.monitor = 0
        /\ row[c].state = "monitoring" => row[c].count.monitor < MonitorHorizon

EvidenceInv == TasksEnd /\ Begun /\ ArmsFit /\ Paced /\ EvidenceCountedOnce

\* The evidence a promotion, a rollback and a retention need.
CanaryOf(c)  == Evidence(c, "canary", "candidate")
ControlOf(c) == Evidence(c, "canary", "incumbent")
MonitorOf(c) == Evidence(c, "monitoring", "candidate")

Earned(c) ==
    /\ Cardinality(CanaryOf(c)) + Cardinality(ControlOf(c)) = Horizon
    /\ Cardinality(CanaryOf(c)) >= Minimum /\ Cardinality(ControlOf(c)) >= Minimum
    /\ Cardinality(HardOnes(CanaryOf(c))) <= HardVeto
    /\ FALSE \in Worse(CanaryOf(c), ControlOf(c), Margin)
Harmful(c) ==
    \/ Cardinality(HardOnes(MonitorOf(c))) > MonitorVeto
    \/ TRUE \in Worse(MonitorOf(c), ControlOf(c), MonitorMargin)
Sustained(c) ==
    /\ Cardinality(MonitorOf(c)) = MonitorHorizon
    /\ Cardinality(HardOnes(MonitorOf(c))) <= MonitorVeto
    /\ FALSE \in Worse(MonitorOf(c), ControlOf(c), MonitorMargin)

\* It was found, and the phase that gathered it is over.
Decided(c)   == row[c] # NoRow /\ row[c].state # "canary" /\ Earned(c)
Condemned(c) ==
    row[c] # NoRow /\ row[c].state \notin {"canary", "promoting", "monitoring"} /\ Harmful(c)

RowsJustified ==
    \A c \in Candidate : row[c] # NoRow =>
        /\ row[c].state = "promoting" => Earned(c)
        /\ row[c].state = "rolling_back" => Harmful(c)
        /\ row[c].state = "retained" => Sustained(c)
Justified(by, c) == IF by = "promotion" THEN Decided(c) ELSE Condemned(c)
By(mode) == IF mode = "promoting" THEN "promotion" ELSE "rollback"
TasksJustified ==
    \A h \in Hook : \A t \in {task[h]} \ {Idle} :
        t.pc \in MovePc \cup {"resume"} => Justified(By(t.mode), t.cand)
MovesJustified ==
    \A i \in DOMAIN moves : \A x \in {moves[i]} :
        x.by # "operator" => x.cand \in Candidate /\ Justified(x.by, x.cand)

VerdictInv == RowsJustified /\ TasksJustified /\ MovesJustified

\* The candidate has made no move of this kind up to revision n.
NotYet(by, c, n) == \A i \in DOMAIN moves : moves[i].by = by /\ moves[i].cand = c => i > n

\* Revision n is where the candidate's trial found the pointer, or where its promotion
\* left it.
AtBaseline(c, n) == n \in 0 .. Revision /\ VersionAt(n) = row[c].base /\ row[c].base # c
Installed(c, n) ==
    n \in 1 .. Revision /\ VersionAt(n) = c /\ VersionAt(n - 1) = row[c].base

\* A move of the mode may start at revision n.
StartsAt(mode, c, n) ==
    /\ IF mode = "promoting" THEN AtBaseline(c, n) ELSE Installed(c, n)
    /\ NotYet(By(mode), c, n)

RowPlaced(c, n) ==
    /\ row[c].state \in {"canary", "promoting"} => StartsAt("promoting", c, n)
    /\ row[c].state = "rolling_back" => StartsAt("rolling_back", c, n)
    /\ row[c].state \in {"monitoring", "retained"} => Installed(c, n)
    /\ row[c].state = "rolled_back" => Installed(c, n) \/ MonitorOf(c) = {}
RowsPlaced ==
    \A c \in Candidate : row[c] # NoRow =>
        \A n \in {row[c].expected} : RowPlaced(c, n)
Placed(t) ==
    /\ t.pc \in MovePc \cup {"resume"} => StartsAt(t.mode, t.cand, t.expected)
    /\ t.pc \in {"revision", "recheck"} =>
          \E k \in t.expected .. Revision : t.version = VersionAt(k)
    /\ t.pc = "settle" /\ t.applied => Installed(t.cand, t.revision)
TasksPlaced == \A h \in Hook : \A t \in {task[h]} \ {Idle} : Placed(t)

PlaceInv == RowsPlaced /\ TasksPlaced

-----------------------------------------------------------------------------
(* What a step does to rows, outcomes and tasks *)

\* A step that records no outcome begins a trial, ends one that lives, or puts the
\* candidate under observation where a call left the pointer.
Admitted(c) ==
    /\ row[c] = NoRow /\ Active # c /\ UNCHANGED moves
    /\ row'[c] \in Row /\ row'[c] # NoRow
    /\ row'[c].state = "canary" /\ row'[c].base = Active /\ row'[c].expected = Revision
    /\ row'[c].count = NoCounts
Ended(c) ==
    \/ row'[c].state \in {"rejected", "recovery_required"}
    \/ /\ row[c].state = "rolling_back" /\ row'[c].state = "rolled_back"
       /\ row'[c].expected = row[c].expected
Observed(c) ==
    /\ row[c].state = "promoting" /\ row'[c].state = "monitoring"
    /\ \E h \in Hook : /\ task[h] # Idle /\ task[h].pc = "settle" /\ task[h].applied
                       /\ task[h].cand = c /\ row'[c].expected = task[h].revision
RowMoves(c) ==
    \/ row'[c] = row[c]
    \/ Admitted(c)
    \/ /\ row[c] # NoRow /\ row[c].state \in Live /\ UNCHANGED moves
       /\ row'[c] # NoRow /\ row'[c].base = row[c].base /\ row'[c].count = row[c].count
       /\ Ended(c) \/ Observed(c)

\* What an outcome does, recorded for message m by a call that selected s.
Records(h, r, m, s) ==
    /\ m \in Message /\ s \in Selection /\ s = selection[m] /\ s # NoSelection
    /\ s.cand \in Candidate /\ row[s.cand] # NoRow /\ row[s.cand] \in Row
    /\ row[s.cand].state = s.state /\ ~Reported(s.cand, m)
    /\ outcomes' = outcomes \cup
          {[cand |-> s.cand, msg |-> m, state |-> s.state, arm |-> s.arm,
            success |-> r.success, hard |-> r.hard]}
    /\ UNCHANGED moves
    /\ \A d \in Candidate \ {s.cand} : row'[d] = row[d]
    /\ row'[s.cand] \in Row /\ row'[s.cand] # NoRow
    /\ row'[s.cand].base = row[s.cand].base /\ row'[s.cand].expected = row[s.cand].expected
    /\ row'[s.cand].count = Counted(row[s.cand].count, s, r)
    /\ row'[s.cand].state \in
          IF s.state = "canary"
          THEN CanaryVerdict(row'[s.cand].count, HardFailures(outcomes', s))
          ELSE MonitorVerdict(row'[s.cand].count, HardFailures(outcomes', s))
    /\ task' = [task EXCEPT ![h] =
          IF row'[s.cand].state \in {"promoting", "rolling_back"}
          THEN ToMove(s.cand, row'[s.cand].state, task[h].policy, row[s.cand].expected)
          ELSE Idle]
    /\ selection' = [selection EXCEPT ![m] = NoSelection]

\* A call that records an outcome records it for what its message selected, with the
\* verdict on the new counts.
LEMMA Recording ==
    ASSUME Inv, NEW h \in Hook, NEW r \in Report, RecordOutcome(h, r)
    PROVE  \E m, s : Records(h, r, m, s)
<1> DEFINE m == task[h].msg
           s == selection[m]
           c == s.cand
<1>1. m \in Message /\ Serves(h, m) /\ task[h].pc = "record"
  <2>1. task[h] # Idle /\ task[h].pc = "record"
    BY DEF RecordOutcome
  <2>2. task[h] \in MessageTask
    BY <2>1, TaskKinds DEF Inv, TypeOK
  <2> QED
    BY <2>1, <2>2 DEF MessageTask, Serves
<1>2. s # NoSelection /\ s \in Selection /\ row[c] # NoRow /\ c \in Candidate /\ row[c] \in Row
  BY <1>1 DEF Inv, LoopsApart, SelectionsFit, TypeOK, Selection
<1>3. PICK n : n = Counted(row[c].count, s, r)
  OBVIOUS
<1>4. n \in Counts
  BY <1>2, <1>3, CountedType DEF Row
<1>5. PICK hard : hard = HardFailures(outcomes', s)
  OBVIOUS
<1>6. PICK next \in IF s.state = "canary" THEN CanaryVerdict(n, hard) ELSE MonitorVerdict(n, hard) :
         /\ row' = [row EXCEPT ![c].count = n, ![c].state = next]
         /\ IF next \in {"promoting", "rolling_back"}
            THEN Continue(h, ToMove(c, next, task[h].policy, row[c].expected))
            ELSE Finish(h)
  BY <1>3, <1>5 DEF RecordOutcome
<1>7. next \in RowState
  BY <1>6 DEF CanaryVerdict, MonitorVerdict, RowState, Live
<1>8. row \in [Candidate -> Row \cup {NoRow}]
  BY DEF Inv, TypeOK
<1>9. PICK q : q = [row[c] EXCEPT !.count = n, !.state = next]
  OBVIOUS
<1>10. row' = [row EXCEPT ![c] = q]
  BY <1>2, <1>6, <1>8, <1>9
<1>11. /\ q \in Row /\ q.base = row[c].base /\ q.expected = row[c].expected
       /\ q.count = n /\ q.state = next
  BY <1>2, <1>4, <1>7, <1>9 DEF Row
<1>12. q # NoRow
  BY <1>11, NoRowAssumption
<1>13. row'[c] = q /\ \A d \in Candidate \ {c} : row'[d] = row[d]
  BY <1>2, <1>8, <1>10
<1>14. /\ row[c].state = s.state /\ ~Reported(c, m) /\ UNCHANGED moves
       /\ outcomes' = outcomes \cup
             {[cand |-> c, msg |-> m, state |-> s.state, arm |-> s.arm,
               success |-> r.success, hard |-> r.hard]}
       /\ selection' = [selection EXCEPT ![m] = NoSelection]
  BY DEF RecordOutcome
<1>15. task' = [task EXCEPT ![h] =
          IF next \in {"promoting", "rolling_back"}
          THEN ToMove(c, next, task[h].policy, row[c].expected) ELSE Idle]
  BY <1>6 DEF Continue, Finish
<1>16. Records(h, r, m, s)
  <2> HIDE DEF m, s, c
  <2>1. c = s.cand
    BY DEF c
  <2>2. s = selection[m]
    BY DEF s
  <2>3. /\ row'[s.cand] \in Row /\ row'[s.cand] # NoRow
        /\ row'[s.cand].base = row[s.cand].base /\ row'[s.cand].expected = row[s.cand].expected
        /\ row'[s.cand].count = Counted(row[s.cand].count, s, r)
        /\ row'[s.cand].state = next /\ row'[s.cand].count = n
        /\ \A d \in Candidate \ {s.cand} : row'[d] = row[d]
    BY <2>1, <1>3, <1>11, <1>12, <1>13
  <2>4. row'[s.cand].state \in
           IF s.state = "canary"
           THEN CanaryVerdict(row'[s.cand].count, HardFailures(outcomes', s))
           ELSE MonitorVerdict(row'[s.cand].count, HardFailures(outcomes', s))
    BY <2>3, <1>5, <1>6
  <2>5. task' = [task EXCEPT ![h] =
           IF row'[s.cand].state \in {"promoting", "rolling_back"}
           THEN ToMove(s.cand, row'[s.cand].state, task[h].policy, row[s.cand].expected)
           ELSE Idle]
    BY <2>1, <2>3, <1>15
  <2>6. /\ s.cand \in Candidate /\ row[s.cand] # NoRow /\ row[s.cand] \in Row
        /\ row[s.cand].state = s.state /\ ~Reported(s.cand, m) /\ UNCHANGED moves
        /\ outcomes' = outcomes \cup
              {[cand |-> s.cand, msg |-> m, state |-> s.state, arm |-> s.arm,
                success |-> r.success, hard |-> r.hard]}
        /\ selection' = [selection EXCEPT ![m] = NoSelection]
    BY <2>1, <1>2, <1>14
  <2> QED
    BY <2>2, <2>3, <2>4, <2>5, <2>6, <1>1, <1>2 DEF Records
<1> QED
  BY <1>16

\* The steps that write rows, but for the one that records an outcome.
LEMMA OtherRowSteps ==
    ASSUME Inv, TasksEnd, NEW h \in Hook,
           \/ Admit(h) \/ ExpireCanaries(h) \/ DiscardOutcome(h) \/ Settle(h) \/ Write(h)
    PROVE  UNCHANGED <<outcomes, moves>> /\ \A c \in Candidate : RowMoves(c)
<1>1. row \in [Candidate -> Row \cup {NoRow}] /\ \A q \in Row : q # NoRow
  BY NoRowAssumption DEF Inv, TypeOK
<1>2. ASSUME NEW c \in Candidate, NEW state \in RowState, row[c] # NoRow, row[c].state \in Live,
             row' = [row EXCEPT ![c].state = state], UNCHANGED moves,
             \/ state \in {"rejected", "recovery_required"}
             \/ row[c].state = "rolling_back" /\ state = "rolled_back"
      PROVE  \A d \in Candidate : RowMoves(d)
  <2>1. PICK q : q = [row[c] EXCEPT !.state = state]
    OBVIOUS
  <2>2. row[c] \in Row /\ row' = [row EXCEPT ![c] = q]
    BY <1>1, <1>2, <2>1
  <2>3. q \in Row /\ q.state = state /\ q.base = row[c].base /\ q.count = row[c].count
        /\ q.expected = row[c].expected
    BY <2>1, <2>2 DEF Row
  <2>4. row'[c] = q /\ \A d \in Candidate \ {c} : row'[d] = row[d]
    BY <1>1, <2>2
  <2>5. RowMoves(c)
    BY <1>1, <1>2, <2>3, <2>4 DEF RowMoves, Ended
  <2> QED
    BY <2>4, <2>5 DEF RowMoves
<1>3. CASE Admit(h)
  <2> DEFINE c == task[h].cand
  <2>1. PICK r : r = [state |-> "canary", base |-> Active, expected |-> Revision,
                      policy |-> task[h].policy, count |-> NoCounts]
    OBVIOUS
  <2>2. c \in Candidate /\ task[h].policy \in 1 .. MaxPolicy
    BY <1>3, TaskKinds DEF Admit, ConsiderTask, Inv, TypeOK
  <2>3. r \in Row
    <3>1. NoCounts \in Counts /\ "canary" \in RowState
      BY DEF NoCounts, Counts, RowState, Live
    <3> QED
      BY <2>1, <2>2, <3>1, ActiveType DEF Row, Inv
  <2>4. /\ UNCHANGED <<outcomes, moves>>
        /\ \/ row' = row
           \/ row[c] = NoRow /\ Active # c /\ row' = [row EXCEPT ![c] = r]
    BY <1>3, <2>1 DEF Admit
  <2>5. /\ r.state = "canary" /\ r.base = Active /\ r.expected = Revision /\ r.count = NoCounts
    BY <2>1
  <2>6. CASE row' = row
    BY <2>4, <2>6 DEF RowMoves
  <2>7. CASE row[c] = NoRow /\ Active # c /\ row' = [row EXCEPT ![c] = r]
    <3>1. row'[c] = r /\ \A d \in Candidate \ {c} : row'[d] = row[d]
      BY <1>1, <2>2, <2>7
    <3>2. Admitted(c)
      BY <1>1, <2>3, <2>4, <2>5, <2>7, <3>1 DEF Admitted
    <3> QED
      BY <2>4, <3>1, <3>2 DEF RowMoves
  <2> QED
    BY <2>4, <2>6, <2>7
<1>4. CASE ExpireCanaries(h)
  <2>1. UNCHANGED <<outcomes, moves>>
    BY <1>4 DEF ExpireCanaries
  <2>2. PICK out \in SUBSET Occupying :
           row' = [c \in Candidate |->
                     IF c \in out THEN [row[c] EXCEPT !.state = "rejected"] ELSE row[c]]
    BY <1>4 DEF ExpireCanaries
  <2> SUFFICES ASSUME NEW c \in Candidate PROVE RowMoves(c)
    BY <2>1
  <2>3. CASE c \notin out
    BY <2>2, <2>3 DEF RowMoves
  <2>4. CASE c \in out
    <3>1. PICK q : q = [row[c] EXCEPT !.state = "rejected"]
      OBVIOUS
    <3>2. row[c] \in Row /\ row[c].state \in Live /\ row'[c] = q
      BY <1>1, <2>2, <2>4, <3>1 DEF Occupying
    <3>3. q \in Row /\ q.state = "rejected" /\ q.base = row[c].base /\ q.count = row[c].count
      BY <3>1, <3>2 DEF Row, RowState
    <3> QED
      BY <1>1, <2>1, <3>2, <3>3 DEF RowMoves, Ended
  <2> QED
    BY <2>3, <2>4
<1>5. CASE DiscardOutcome(h)
  <2> DEFINE m == task[h].msg
             c == selection[m].cand
  <2>1. m \in Message /\ Serves(h, m) /\ task[h].pc = "record"
    BY <1>5, TaskKinds DEF DiscardOutcome, MessageTask, Serves, Inv, TypeOK
  <2>2. selection[m] \in Selection /\ row[c] # NoRow /\ c \in Candidate
    BY <2>1 DEF Inv, LoopsApart, SelectionsFit, TypeOK, Selection
  <2>3. UNCHANGED <<outcomes, moves>>
    BY <1>5 DEF DiscardOutcome
  <2>4. CASE UNCHANGED row
    BY <2>3, <2>4 DEF RowMoves
  <2>5. ASSUME row[c].state = selection[m].state, NEW w \in Objection(c, task[h].policy) \cup Drifted(c),
               row' = [row EXCEPT ![c].state = w.to]
        PROVE  \A d \in Candidate : RowMoves(d)
    <3>1. row[c].state \in {"canary", "monitoring"}
      BY <2>2, <2>5 DEF Selection
    <3>2. w.to \in {"recovery_required", "rejected"}
      BY <2>2, <2>5, <3>1, ObjectionType
    <3>3. PICK to \in RowState : to = w.to
      BY <3>2 DEF RowState, Live
    <3>4. row[c].state \in Live /\ row' = [row EXCEPT ![c].state = to] /\ UNCHANGED moves
      BY <2>3, <2>5, <3>1, <3>3 DEF Live
    <3> HIDE DEF c
    <3> QED
      BY <1>2, <2>2, <3>2, <3>3, <3>4
  <2> QED
    BY <1>5, <2>3, <2>4, <2>5 DEF DiscardOutcome
<1>6. CASE Settle(h)
  <2> DEFINE t == task[h]
             c == t.cand
             s == IF t.applied THEN "monitoring" ELSE "rejected"
  <2>1. t \in SettleTask /\ c \in Candidate /\ row[c] # NoRow /\ row[c] \in Row
        /\ task[h] # Idle /\ task[h].pc = "settle"
    BY <1>6, TaskKinds DEF Settle, Moving, SettleTask, Inv, TypeOK, TasksFit, Fits
  <2>2. UNCHANGED <<outcomes, moves>>
    BY <1>6 DEF Settle
  <2>3. CASE row' = row
    BY <2>2, <2>3 DEF RowMoves
  <2>4. CASE row' # row
    <3>1. PICK q : q = [row[c] EXCEPT !.state = s, !.expected = t.revision]
      OBVIOUS
    <3>2. row' = [row EXCEPT ![c] = q] /\ row[c].state = "promoting"
      BY <1>1, <1>6, <2>1, <2>4, <3>1 DEF Settle
    <3>3. q \in Row /\ q.state = s /\ q.expected = t.revision /\ q.base = row[c].base
          /\ q.count = row[c].count
      BY <2>1, <3>1 DEF Row, SettleTask, RowState, Live
    <3>4. row'[c] = q /\ \A d \in Candidate \ {c} : row'[d] = row[d]
      BY <1>1, <2>1, <3>2
    <3>5. Ended(c) \/ Observed(c)
      <4>1. CASE t.applied
        BY <2>1, <3>2, <3>3, <3>4, <4>1 DEF Observed
      <4>2. CASE ~t.applied
        BY <3>3, <3>4, <4>2 DEF Ended
      <4> QED
        BY <4>1, <4>2
    <3>6. RowMoves(c)
      BY <1>1, <2>1, <2>2, <3>2, <3>3, <3>4, <3>5 DEF RowMoves, Live
    <3> QED
      BY <2>2, <3>4, <3>6 DEF RowMoves
  <2> QED
    BY <2>3, <2>4
<1>7. CASE Write(h)
  <2> DEFINE t == task[h]
             c == t.cand
  <2>1. /\ t \in WriteTask /\ c \in Candidate /\ row[c] # NoRow /\ t.from \subseteq Live
        /\ t.to \in RowState /\ t.pc = "write" /\ t # Idle
    BY <1>7, TaskKinds DEF Write, WriteTask, Inv, TypeOK, TasksFit, Fits
  <2>2. \/ t.to \in {"rejected", "recovery_required"}
        \/ t.to = "rolled_back" /\ t.from = {"rolling_back"}
    BY <2>1 DEF TasksEnd
  <2>3. UNCHANGED <<outcomes, moves>>
    BY <1>7 DEF Write
  <2>4. CASE row' = row
    BY <2>3, <2>4 DEF RowMoves
  <2>5. CASE row' # row
    <3>1. PICK to \in RowState : to = t.to
      BY <2>1
    <3>2. row[c].state \in t.from /\ row' = [row EXCEPT ![c].state = to] /\ UNCHANGED moves
      BY <1>7, <2>3, <2>5, <3>1 DEF Write
    <3>3. /\ row[c].state \in Live
          /\ \/ to \in {"rejected", "recovery_required"}
             \/ row[c].state = "rolling_back" /\ to = "rolled_back"
      BY <2>1, <2>2, <3>1, <3>2
    <3> HIDE DEF c
    <3> QED
      BY <1>2, <2>1, <2>3, <3>2, <3>3
  <2> QED
    BY <2>4, <2>5
<1> QED
  BY <1>3, <1>4, <1>5, <1>6, <1>7

\* Every step records one outcome, or records none and moves rows as it may.
LEMMA RowSteps ==
    ASSUME Inv, TasksEnd, [Next]_vars
    PROVE  \/ \E h \in Hook, r \in Report : RecordOutcome(h, r)
           \/ UNCHANGED outcomes /\ \A c \in Candidate : RowMoves(c)
<1>1. CASE UNCHANGED <<row, outcomes>>
  BY <1>1 DEF RowMoves
<1>2. ASSUME NEW h \in Hook, AdmissionStep(h)
      PROVE  UNCHANGED <<row, outcomes>> \/ Admit(h) \/ ExpireCanaries(h)
  BY <1>2 DEF AdmissionStep, Consider, ConsiderUnpublished, Refuse, BeginExpire, rowVars
<1>3. ASSUME NEW h \in Hook, MessageStep(h)
      PROVE  \/ UNCHANGED <<row, outcomes>> \/ DiscardOutcome(h)
             \/ \E r \in Report : RecordOutcome(h, r)
  BY <1>3 DEF MessageStep, BeginSelect, BeginRecord, SelectGuidance, ArtifactUnavailable, rowVars
<1>4. ASSUME NEW h \in Hook, MoveStep(h)
      PROVE  UNCHANGED <<row, outcomes>> \/ Settle(h) \/ Write(h)
  BY <1>4 DEF MoveStep, Resume, ReadVersion, ReadRevision, CandidateUnavailable, SwapPointer,
              SwapRefused, RereadVersion, RereadRevision, rowVars
<1>5. ASSUME \/ \E v \in Candidate \cup Older : OperatorMoves(v)
             \/ AuthorityStep
             \/ \E m \in Message : Forget(m)
             \/ \E h \in Hook : BeginResume(h) \/ Crash(h)
             \/ UNCHANGED vars
      PROVE  UNCHANGED <<row, outcomes>>
  BY <1>5 DEF OperatorMoves, AuthorityStep, Forget, BeginResume, Crash, rowVars, vars
<1> QED
  BY <1>1, <1>2, <1>3, <1>4, <1>5, OtherRowSteps DEF Next

\* The call goes on with the move it was about, or completes it.
Continues(t, u) ==
    /\ t # Idle /\ t.pc \in MovePc \cup {"resume"}
    /\ u.pc \in MovePc /\ u.cand = t.cand /\ u.mode = t.mode /\ u.expected = t.expected
    /\ u.pc \in {"revision", "recheck"} => u.version = Active
Swaps(t) ==
    /\ t # Idle /\ t \in MoveTask /\ t.pc = "swap" /\ Revision = t.expected
    /\ moves' = Append(moves, [by |-> By(t.mode), cand |-> t.cand, version |-> Target(t)])
Completes(t, u) ==
    /\ t # Idle /\ t \in MoveTask /\ t.mode = "promoting"
    /\ u.pc = "settle" /\ u.cand = t.cand /\ u.revision = t.expected + 1
    /\ \/ t.pc \in {"revision", "recheck"} /\ Made(t) /\ UNCHANGED moves
       \/ Swaps(t)
Follows(t, u) ==
    \/ u.pc \in {"consider", "expire", "select", "record"}
    \/ u.pc = "write" /\ \/ u.to \in {"rejected", "recovery_required"}
                         \/ u.to = "rolled_back" /\ u.from = {"rolling_back"}
    \/ /\ u.pc = "resume" /\ u.cand \in Candidate /\ row[u.cand] # NoRow
       /\ u.mode = row[u.cand].state /\ u.mode \in Mode /\ u.expected = row[u.cand].expected
       /\ UNCHANGED moves
    \/ Continues(t, u) /\ UNCHANGED moves
    \/ u.pc = "settle" /\ ~u.applied
    \/ Completes(t, u)

\* What a call does to its task, but for the one that records an outcome.
Goes(g) ==
    \/ task'[g] = Idle \/ task'[g] = task[g]
    \/ Follows(task[g], task'[g]) /\ UNCHANGED <<row, outcomes>>
    \/ \E r \in Report : RecordOutcome(g, r)

\* A hook goes on to task u, the others stay.
LEMMA GoesOn ==
    ASSUME Inv, NEW h \in Hook, NEW u, task' = [task EXCEPT ![h] = u],
           u = Idle \/ (Follows(task[h], u) /\ UNCHANGED <<row, outcomes>>)
    PROVE  \A g \in Hook : Goes(g)
<1>1. task'[h] = u /\ \A g \in Hook \ {h} : task'[g] = task[g]
  BY DEF Inv, TypeOK
<1> QED
  BY <1>1 DEF Goes

\* A call ends.
LEMMA GoesHome ==
    ASSUME Inv, NEW h \in Hook, Finish(h)
    PROVE  \A g \in Hook : Goes(g)
<1>1. task' = [task EXCEPT ![h] = Idle]
  BY DEF Finish, Continue
<1>2. task'[h] = Idle /\ \A g \in Hook \ {h} : task'[g] = task[g]
  BY <1>1 DEF Inv, TypeOK
<1> QED
  BY <1>2 DEF Goes

\* The UPDATE that ends a move, or the one that follows an objection.
LEMMA WriteFollows ==
    ASSUME NEW t, NEW c, NEW from, NEW to \in {"rejected", "recovery_required"}
    PROVE  Follows(t, ToWrite(c, from, to))
BY DEF Follows, ToWrite

\* A move that was made, or was not, is settled.
LEMMA SettleFollows ==
    ASSUME NEW t \in MoveTask, t # Idle, NEW applied \in BOOLEAN, NEW n \in Nat,
           applied => /\ n = t.expected + 1
                      /\ \/ t.pc \in {"revision", "recheck"} /\ Made(t) /\ UNCHANGED moves
                         \/ Swaps(t)
    PROVE  Follows(t, ToSettle(t, applied, n))
<1>1. CASE t.mode = "promoting"
  <2>1. PICK u : u = ToSettle(t, applied, n)
    OBVIOUS
  <2>2. u.pc = "settle" /\ u.cand = t.cand /\ u.applied = applied /\ u.revision = n
    BY <1>1, <2>1 DEF ToSettle
  <2> QED
    BY <1>1, <2>1, <2>2 DEF Follows, Completes
<1>2. CASE t.mode # "promoting"
  <2>1. PICK u : u = ToSettle(t, applied, n)
    OBVIOUS
  <2>2. /\ u.pc = "write" /\ u.from = {"rolling_back"}
        /\ u.to = IF applied THEN "rolled_back" ELSE "recovery_required"
    BY <1>2, <2>1 DEF ToSettle, ToWrite
  <2> QED
    BY <2>1, <2>2 DEF Follows
<1> QED
  BY <1>1, <1>2

\* Beginning work, for a message or for a row.
LEMMA HooksGo ==
    ASSUME Inv, NEW h \in Hook, AdmissionStep(h) \/ MessageStep(h) \/ BeginResume(h)
    PROVE  \A g \in Hook : Goes(g)
<1>1. ASSUME NEW u, Begin(h, u), u.pc \in {"consider", "expire", "select", "record"},
             UNCHANGED <<row, outcomes>>
      PROVE  \A g \in Hook : Goes(g)
  BY <1>1, GoesOn DEF Begin, Follows
<1>2. ASSUME Finish(h) PROVE \A g \in Hook : Goes(g)
  BY <1>2, GoesHome
<1>3. CASE AdmissionStep(h)
  <2>1. ASSUME NEW c \in Candidate, Consider(h, c) PROVE \A g \in Hook : Goes(g)
    BY <1>1, <2>1 DEF Consider, rowVars
  <2>2. ASSUME NEW c \in Candidate, ConsiderUnpublished(h, c) PROVE \A g \in Hook : Goes(g)
    BY <2>2 DEF ConsiderUnpublished, Goes
  <2>3. CASE Refuse(h) \/ Admit(h) \/ ExpireCanaries(h)
    BY <1>2, <2>3 DEF Refuse, Admit, ExpireCanaries
  <2>4. CASE BeginExpire(h)
    BY <1>1, <2>4 DEF BeginExpire, rowVars
  <2> QED
    BY <1>3, <2>1, <2>2, <2>3, <2>4 DEF AdmissionStep
<1>4. CASE MessageStep(h)
  <2>1. ASSUME NEW m \in Message, BeginSelect(h, m) \/ BeginRecord(h, m)
        PROVE  \A g \in Hook : Goes(g)
    BY <1>1, <2>1 DEF BeginSelect, BeginRecord, rowVars
  <2>2. ASSUME NEW c \in Exposed, NEW policy, NEW w \in Objection(c, policy) \cup Drifted(c), Continue(h, w),
               UNCHANGED <<row, outcomes>>
        PROVE  \A g \in Hook : Goes(g)
    <3>1. c \in Candidate /\ row[c] # NoRow /\ row[c].state \in {"canary", "monitoring"}
      BY DEF Exposed, Occupying
    <3>2. w \in WriteTask /\ w.to \in {"recovery_required", "rejected"}
      BY <3>1, ObjectionType
    <3>3. Follows(task[h], w)
      BY <3>2 DEF Follows, WriteTask
    <3> QED
      BY <2>2, <3>3, GoesOn DEF Continue
  <2>3. CASE SelectGuidance(h)
    BY <1>2, <2>2, <2>3 DEF SelectGuidance, rowVars
  <2>4. CASE ArtifactUnavailable(h)
    BY <2>4, WriteFollows, GoesOn DEF ArtifactUnavailable, Continue, rowVars
  <2>5. CASE DiscardOutcome(h)
    BY <1>2, <2>5 DEF DiscardOutcome
  <2>6. ASSUME NEW r \in Report, RecordOutcome(h, r) PROVE \A g \in Hook : Goes(g)
    <3>1. \A g \in Hook \ {h} : task'[g] = task[g]
      BY <2>6 DEF RecordOutcome, Continue, Finish, Inv, TypeOK
    <3> QED
      BY <2>6, <3>1 DEF Goes
  <2> QED
    BY <1>4, <2>1, <2>3, <2>4, <2>5, <2>6 DEF MessageStep
<1>5. CASE BeginResume(h)
  <2>1. PICK c \in Occupying :
           /\ row[c].state \in Mode
           /\ Begin(h, [pc |-> "resume", cand |-> c, mode |-> row[c].state,
                        expected |-> row[c].expected])
    BY <1>5 DEF BeginResume, Mode
  <2>2. PICK u : u = [pc |-> "resume", cand |-> c, mode |-> row[c].state,
                      expected |-> row[c].expected]
    OBVIOUS
  <2>3. c \in Candidate /\ row[c] # NoRow /\ UNCHANGED <<row, outcomes, moves>>
    BY <1>5 DEF Occupying, BeginResume, rowVars
  <2>4. Follows(task[h], u)
    BY <2>1, <2>2, <2>3 DEF Follows
  <2> QED
    BY <2>1, <2>2, <2>3, <2>4, GoesOn DEF Begin
<1> QED
  BY <1>3, <1>4, <1>5

\* Going on with a pointer move.
LEMMA MovesGo ==
    ASSUME Inv, NEW h \in Hook, MoveStep(h)
    PROVE  \A g \in Hook : Goes(g)
<1> DEFINE t == task[h]
<1>1. ASSUME NEW u, Continue(h, u), Follows(t, u), UNCHANGED rowVars
      PROVE  \A g \in Hook : Goes(g)
  BY <1>1, GoesOn DEF Continue, rowVars
<1>2. CASE Finish(h)
  BY <1>2, GoesHome
<1>3. \A pc \in MovePc : Moving(h, pc) => t \in MoveTask /\ t # Idle /\ t.pc = pc
  BY TaskKinds DEF Moving, Inv, TypeOK
<1>4. Revision \in Nat
  BY ActiveType DEF Inv
<1>5. CASE Resume(h)
  <2>1. t \in ResumeTask /\ t.pc = "resume" /\ t # Idle
    BY <1>5, TaskKinds DEF Resume, Inv, TypeOK
  <2>2. CASE Continue(h, ToWrite(t.cand, {t.mode}, "recovery_required"))
    BY <1>1, <1>5, <2>2, WriteFollows DEF Resume
  <2>3. CASE Continue(h, ToMove(t.cand, t.mode, authority.policy, t.expected))
    <3>1. PICK u : u = ToMove(t.cand, t.mode, authority.policy, t.expected)
      OBVIOUS
    <3>2. u.pc = "version" /\ u.cand = t.cand /\ u.mode = t.mode /\ u.expected = t.expected
      BY <3>1 DEF ToMove
    <3>3. Follows(t, u)
      BY <1>5, <2>1, <3>2 DEF Follows, Continues, MovePc, Resume
    <3> QED
      BY <1>1, <1>5, <2>3, <3>1, <3>3 DEF Resume
  <2> QED
    BY <1>2, <1>5, <2>2, <2>3 DEF Resume
<1>6. ASSUME NEW pc \in MovePc, NEW u, t \in MoveTask, t # Idle, UNCHANGED moves,
             \/ u = [t EXCEPT !.pc = pc, !.version = Active]
             \/ u = [t EXCEPT !.pc = pc] /\ pc \notin {"revision", "recheck"}
             \/ u = [t EXCEPT !.pc = pc, !.revision = Revision] /\ pc \notin {"revision", "recheck"}
      PROVE  Follows(t, u)
  <2>1. u.pc = pc /\ u.cand = t.cand /\ u.mode = t.mode /\ u.expected = t.expected
    BY <1>6 DEF MoveTask
  <2>2. pc \in {"revision", "recheck"} => u.version = Active
    BY <1>6 DEF MoveTask
  <2>3. t.pc \in MovePc
    BY <1>6 DEF MoveTask
  <2> QED
    BY <1>6, <2>1, <2>2, <2>3 DEF Follows, Continues
<1>7. CASE ReadVersion(h)
  <2>1. t \in MoveTask /\ t # Idle
    BY <1>3, <1>7 DEF ReadVersion, MovePc
  <2>2. PICK u : u = [t EXCEPT !.pc = "revision", !.version = Active]
    OBVIOUS
  <2>3. Follows(t, u)
    BY <1>6, <1>7, <2>1, <2>2 DEF ReadVersion, MovePc
  <2> QED
    BY <1>1, <1>7, <2>2, <2>3 DEF ReadVersion
<1>8. CASE ReadRevision(h)
  <2>1. t \in MoveTask /\ t # Idle /\ t.pc = "revision"
    BY <1>3, <1>8 DEF ReadRevision, MovePc
  <2>2. UNCHANGED <<rowVars, moves>>
    BY <1>8 DEF ReadRevision
  <2>3. CASE Made(t) /\ Continue(h, ToSettle(t, TRUE, Revision))
    <3>1. Revision = t.expected + 1
      BY <2>3 DEF Made
    <3> QED
      BY <1>1, <1>4, <2>1, <2>2, <2>3, <3>1, SettleFollows
  <2>4. CASE Continue(h, ToSettle(t, FALSE, Revision))
    BY <1>1, <1>4, <2>1, <2>2, <2>4, SettleFollows
  <2>5. CASE Continue(h, ToWrite(t.cand, {"promoting"}, "rejected"))
    BY <1>1, <2>2, <2>5, WriteFollows
  <2>6. CASE Continue(h, [t EXCEPT !.pc = "swap"])
    <3>1. PICK u : u = [t EXCEPT !.pc = "swap"]
      OBVIOUS
    <3>2. Follows(t, u)
      BY <1>6, <2>1, <2>2, <3>1 DEF MovePc
    <3> QED
      BY <1>1, <2>2, <2>6, <3>1, <3>2
  <2> QED
    BY <1>8, <2>3, <2>4, <2>5, <2>6 DEF ReadRevision
<1>9. CASE CandidateUnavailable(h)
  BY <1>1, <1>9, WriteFollows DEF CandidateUnavailable
<1>10. CASE SwapPointer(h)
  <2>1. t \in MoveTask /\ t # Idle /\ t.pc = "swap"
    BY <1>3, <1>10 DEF SwapPointer, MovePc
  <2>2. CASE Unmoved(t)
    <3>1. Revision = t.expected /\ Continue(h, ToSettle(t, TRUE, Revision + 1))
      BY <1>10, <2>2 DEF SwapPointer, Unmoved
    <3>2. moves' = Append(moves, [by |-> By(t.mode), cand |-> t.cand, version |-> Target(t)])
      BY <1>10, <2>2 DEF SwapPointer, By
    <3>3. Follows(t, ToSettle(t, TRUE, Revision + 1))
      <4>1. Swaps(t)
        BY <2>1, <3>1, <3>2 DEF Swaps
      <4>2. TRUE \in BOOLEAN /\ Revision + 1 \in Nat /\ Revision + 1 = t.expected + 1
        BY <1>4, <3>1
      <4> HIDE DEF t
      <4> QED
        BY <2>1, <4>1, <4>2, SettleFollows
    <3> QED
      BY <1>1, <1>10, <3>1, <3>3 DEF SwapPointer
  <2>3. CASE ~Unmoved(t)
    <3>1. PICK u : u = [t EXCEPT !.pc = "reread", !.revision = Revision]
      OBVIOUS
    <3>2. Follows(t, u)
      BY <1>6, <1>10, <2>1, <2>3, <3>1 DEF SwapPointer, MovePc
    <3> QED
      BY <1>1, <1>10, <2>3, <3>1, <3>2 DEF SwapPointer
  <2> QED
    BY <2>2, <2>3
<1>11. CASE SwapRefused(h)
  BY <1>2, <1>11 DEF SwapRefused
<1>12. CASE RereadVersion(h)
  <2>1. t \in MoveTask /\ t # Idle
    BY <1>3, <1>12 DEF RereadVersion, MovePc
  <2>2. PICK u : u = [t EXCEPT !.pc = "recheck", !.version = Active]
    OBVIOUS
  <2>3. Follows(t, u)
    BY <1>6, <1>12, <2>1, <2>2 DEF RereadVersion, MovePc
  <2> QED
    BY <1>1, <1>12, <2>2, <2>3 DEF RereadVersion
<1>13. CASE RereadRevision(h)
  <2>1. t \in MoveTask /\ t # Idle /\ t.pc = "recheck"
    BY <1>3, <1>13 DEF RereadRevision, MovePc
  <2>2. UNCHANGED <<rowVars, moves>>
    BY <1>13 DEF RereadRevision
  <2>3. CASE Made(t)
    <3>1. Revision = t.expected + 1 /\ Continue(h, ToSettle(t, TRUE, Revision))
      BY <1>13, <2>3 DEF RereadRevision, Made
    <3> QED
      BY <1>1, <1>4, <2>1, <2>2, <2>3, <3>1, SettleFollows
  <2>4. CASE ~Made(t)
    <3>0. Made(t) = FALSE
      BY <2>4 DEF Made
    <3>1. Continue(h, ToSettle(t, FALSE, t.revision)) /\ t.revision \in Nat
      BY <1>13, <2>1, <3>0 DEF RereadRevision, MoveTask
    <3>2. Follows(t, ToSettle(t, FALSE, t.revision))
      BY <2>1, <3>1, SettleFollows
    <3> QED
      BY <1>1, <2>2, <3>1, <3>2
  <2> QED
    BY <2>3, <2>4
<1>14. CASE Settle(h) \/ Write(h)
  BY <1>2, <1>14 DEF Settle, Write
<1> QED
  BY <1>5, <1>7, <1>8, <1>9, <1>10, <1>11, <1>12, <1>13, <1>14 DEF MoveStep

\* Every step moves the tasks as they may go.
LEMMA TaskSteps ==
    ASSUME Inv, [Next]_vars
    PROVE  \A g \in Hook : Goes(g)
<1>1. ASSUME NEW h \in Hook, Crash(h) PROVE \A g \in Hook : Goes(g)
  BY <1>1, GoesHome DEF Crash
<1>2. ASSUME \/ \E v \in Candidate \cup Older : OperatorMoves(v)
             \/ AuthorityStep
             \/ \E m \in Message : Forget(m)
             \/ UNCHANGED vars
      PROVE  \A g \in Hook : Goes(g)
  <2>1. UNCHANGED task
    BY <1>2 DEF OperatorMoves, AuthorityStep, Forget, vars
  <2> QED
    BY <2>1 DEF Goes
<1> QED
  BY <1>1, <1>2, HooksGo, MovesGo DEF Next

\* A step that moves the pointer moves it once, for the operator or for a hook, and
\* writes nothing else that counts.
LEMMA PointerSteps ==
    ASSUME Inv, [Next]_vars, moves' # moves
    PROVE  /\ UNCHANGED <<row, outcomes>>
           /\ \/ \E v \in Candidate \cup Older :
                    moves' = Append(moves, [by |-> "operator", cand |-> NoVersion, version |-> v])
              \/ \E h \in Hook : Swaps(task[h])
<1>1. ASSUME NEW v \in Candidate \cup Older, OperatorMoves(v)
      PROVE  /\ UNCHANGED <<row, outcomes>>
             /\ moves' = Append(moves, [by |-> "operator", cand |-> NoVersion, version |-> v])
  BY <1>1 DEF OperatorMoves, rowVars
<1>2. ASSUME NEW h \in Hook, SwapPointer(h)
      PROVE  UNCHANGED <<row, outcomes>> /\ Swaps(task[h])
  <2>1. task[h] \in MoveTask /\ task[h] # Idle /\ task[h].pc = "swap"
    BY <1>2, TaskKinds DEF SwapPointer, Moving, MovePc, Inv, TypeOK
  <2>2. Unmoved(task[h])
    BY <1>2 DEF SwapPointer
  <2> QED
    BY <1>2, <2>1, <2>2 DEF SwapPointer, Swaps, Unmoved, By, rowVars
<1> QED
  BY <1>1, <1>2, WhoMoves

-----------------------------------------------------------------------------
(* The evidence is counted once *)

\* A comparison of two rates says that one is worse, or not, or either.
LEMMA RegressedType ==
    ASSUME NEW f, NEW n, NEW g, NEW m, NEW margin
    PROVE  Regressed(f, n, g, m, margin) \subseteq BOOLEAN
<1> SUFFICES ASSUME NEW x \in Regressed(f, n, g, m, margin) PROVE x \in BOOLEAN
  OBVIOUS
<1> DEFINE delta == (f * m - g * n) * margin.den
           bound == margin.num * n * m
<1>1. x \in BOOLEAN \/ x = (delta > bound)
  <2> HIDE DEF delta, bound
  <2>1. Regressed(f, n, g, m, margin) =
           IF delta = bound /\ margin.num # 0 /\ g # 0 THEN BOOLEAN ELSE {delta > bound}
    BY Zenon DEF Regressed, delta, bound
  <2> QED
    BY <2>1, Zenon
<1>2. x = (delta > bound) => x \in BOOLEAN
  <2> HIDE DEF delta, bound
  <2> QED
    BY SMT
<1> QED
  BY <1>1, <1>2

\* What a canary becomes, and on what it does.
LEMMA VerdictOfCanary ==
    ASSUME NEW n \in Counts, NEW hard \in Nat, NEW v \in CanaryVerdict(n, hard)
    PROVE  /\ v \in {"rejected", "canary", "rolled_back", "promoting"}
           /\ v = "canary" => n.canary + n.control < Horizon
           /\ v = "promoting" =>
                 /\ hard <= HardVeto /\ n.canary + n.control >= Horizon
                 /\ n.canary >= Minimum /\ n.control >= Minimum
                 /\ FALSE \in Regressed(n.canaryFailed, n.canary, n.controlFailed, n.control, Margin)
<1> DEFINE R == Regressed(n.canaryFailed, n.canary, n.controlFailed, n.control, Margin)
<1>1. R \subseteq BOOLEAN
  BY RegressedType
<1>2. /\ n.canary \in Nat /\ n.control \in Nat
      /\ Horizon \in Nat /\ Minimum \in Nat /\ HardVeto \in Nat
  BY PlanAssumption DEF Counts
<1>3. \/ hard > HardVeto /\ v = "rejected"
      \/ n.canary + n.control < Horizon /\ v = "canary"
      \/ (n.canary < Minimum \/ n.control < Minimum) /\ v = "rejected"
      \/ /\ ~(hard > HardVeto) /\ ~(n.canary + n.control < Horizon)
         /\ ~(n.canary < Minimum) /\ ~(n.control < Minimum)
         /\ v \in {IF reg THEN "rolled_back" ELSE "promoting" : reg \in R}
  BY DEF CanaryVerdict
<1>4. \A reg \in R : reg = TRUE \/ reg = FALSE
  BY <1>1
<1> DEFINE No == FALSE \in R
<1> HIDE DEF R
<1>5. v \in {IF reg THEN "rolled_back" ELSE "promoting" : reg \in R}
        => \/ v = "rolled_back"
           \/ v = "promoting" /\ FALSE \in R
  <2>1. ASSUME NEW reg \in R, v = IF reg THEN "rolled_back" ELSE "promoting"
        PROVE  v = "rolled_back" \/ (v = "promoting" /\ FALSE \in R)
    <3>1. CASE reg = TRUE
      BY <2>1, <3>1
    <3>2. CASE reg = FALSE
      BY <2>1, <3>2
    <3> QED
      BY <1>4, <3>1, <3>2
  <2> QED
    BY <2>1
<1>6. \/ hard > HardVeto /\ v = "rejected"
      \/ n.canary + n.control < Horizon /\ v = "canary"
      \/ v = "rejected" \/ v = "rolled_back"
      \/ /\ ~(hard > HardVeto) /\ ~(n.canary + n.control < Horizon)
         /\ ~(n.canary < Minimum) /\ ~(n.control < Minimum)
         /\ v = "promoting" /\ No
  BY <1>3, <1>5, Zenon
<1>7. /\ v \in {"rejected", "canary", "rolled_back", "promoting"}
      /\ v = "canary" => n.canary + n.control < Horizon
      /\ v = "promoting" =>
            /\ hard <= HardVeto /\ n.canary + n.control >= Horizon
            /\ n.canary >= Minimum /\ n.control >= Minimum
            /\ No
  <2> HIDE DEF No
  <2> QED
    BY <1>2, <1>6, SMT
<1> QED
  BY <1>7, Zenon DEF R

\* What a monitored candidate becomes, and on what it does.
LEMMA VerdictOfMonitor ==
    ASSUME NEW n \in Counts, NEW hard \in Nat, NEW v \in MonitorVerdict(n, hard)
    PROVE  LET R == Regressed(n.monitorFailed, n.monitor, n.controlFailed, n.control,
                              MonitorMargin)
           IN  /\ v \in {"recovery_required", "rolling_back", "monitoring", "retained"}
               /\ v = "monitoring" => n.monitor < MonitorHorizon
               /\ v = "rolling_back" => (hard > MonitorVeto \/ TRUE \in R)
               /\ v = "retained" =>
                     hard <= MonitorVeto /\ n.monitor >= MonitorHorizon /\ FALSE \in R
<1> DEFINE R == Regressed(n.monitorFailed, n.monitor, n.controlFailed, n.control, MonitorMargin)
<1>1. R \subseteq BOOLEAN
  BY RegressedType
<1>2. n.monitor \in Nat /\ MonitorHorizon \in Nat /\ MonitorVeto \in Nat
  BY PlanAssumption DEF Counts
<1>3. \/ v = "recovery_required"
      \/ hard > MonitorVeto /\ v = "rolling_back"
      \/ n.monitor < MonitorHorizon /\ v = "monitoring"
      \/ /\ ~(hard > MonitorVeto)
         /\ v \in {IF reg THEN "rolling_back"
                   ELSE IF n.monitor >= MonitorHorizon THEN "retained" ELSE "monitoring" :
                      reg \in R}
  BY DEF MonitorVerdict
<1>4. \A reg \in R : reg = TRUE \/ reg = FALSE
  BY <1>1
<1> DEFINE No == FALSE \in R
           Yes == TRUE \in R
<1> HIDE DEF R
<1>5. v \in {IF reg THEN "rolling_back"
             ELSE IF n.monitor >= MonitorHorizon THEN "retained" ELSE "monitoring" : reg \in R}
        => \/ v = "rolling_back" /\ TRUE \in R
           \/ v = "retained" /\ n.monitor >= MonitorHorizon /\ FALSE \in R
           \/ v = "monitoring" /\ ~(n.monitor >= MonitorHorizon)
  <2>1. ASSUME NEW reg \in R,
               v = IF reg THEN "rolling_back"
                   ELSE IF n.monitor >= MonitorHorizon THEN "retained" ELSE "monitoring"
        PROVE  \/ v = "rolling_back" /\ TRUE \in R
               \/ v = "retained" /\ n.monitor >= MonitorHorizon /\ FALSE \in R
               \/ v = "monitoring" /\ ~(n.monitor >= MonitorHorizon)
    <3>1. CASE reg = TRUE
      BY <2>1, <3>1
    <3>2. CASE reg = FALSE
      BY <2>1, <3>2
    <3> QED
      BY <1>4, <3>1, <3>2
  <2> QED
    BY <2>1
<1>6. \/ v = "recovery_required"
      \/ hard > MonitorVeto /\ v = "rolling_back"
      \/ n.monitor < MonitorHorizon /\ v = "monitoring"
      \/ v = "rolling_back" /\ Yes
      \/ ~(hard > MonitorVeto) /\ v = "retained" /\ n.monitor >= MonitorHorizon /\ No
      \/ v = "monitoring" /\ ~(n.monitor >= MonitorHorizon)
  BY <1>3, <1>5, Zenon
<1>7. /\ v \in {"recovery_required", "rolling_back", "monitoring", "retained"}
      /\ v = "monitoring" => n.monitor < MonitorHorizon
      /\ v = "rolling_back" => (hard > MonitorVeto \/ Yes)
      /\ v = "retained" => hard <= MonitorVeto /\ n.monitor >= MonitorHorizon /\ No
  <2> HIDE DEF Yes, No
  <2> QED
    BY <1>2, <1>6, SMT
<1> QED
  BY <1>7, Zenon DEF R

\* One more outcome is one more, and fails once if it fails.
LEMMA OneMore ==
    ASSUME NEW S, IsFiniteSet(S), NEW o, o \notin S
    PROVE  /\ Cardinality(S \cup {o}) = Cardinality(S) + 1
           /\ Cardinality(Failures(S \cup {o})) = Cardinality(Failures(S)) + One(~o.success)
           /\ Cardinality(S) \in Nat /\ Cardinality(Failures(S)) \in Nat
<1>1. Cardinality(S \cup {o}) = Cardinality(S) + 1 /\ Cardinality(S) \in Nat
  BY FS_AddElement, FS_CardinalityType
<1>2. IsFiniteSet(Failures(S)) /\ o \notin Failures(S)
  <2>1. Failures(S) \subseteq S
    BY DEF Failures
  <2> QED
    BY <2>1, FS_Subset
<1>3. Cardinality(Failures(S)) \in Nat
  BY <1>2, FS_CardinalityType
<1>4. CASE o.success
  <2>1. Failures(S \cup {o}) = Failures(S) /\ One(~o.success) = 0
    BY <1>4 DEF Failures, One
  <2> QED
    BY <1>1, <1>3, <2>1
<1>5. CASE ~o.success
  <2>1. Failures(S \cup {o}) = Failures(S) \cup {o} /\ One(~o.success) = 1
    BY <1>5 DEF Failures, One
  <2>2. Cardinality(Failures(S) \cup {o}) = Cardinality(Failures(S)) + 1
    BY <1>2, FS_AddElement
  <2> QED
    BY <1>1, <1>3, <2>1, <2>2
<1> QED
  BY <1>4, <1>5

\* The counters of a row say what the receipts say.
Tallied(c) ==
    row[c].count =
        [canary  |-> Cardinality(CanaryOf(c)),
         control |-> Cardinality(ControlOf(c)),
         monitor |-> Cardinality(MonitorOf(c)),
         canaryFailed  |-> Cardinality(Failures(CanaryOf(c))),
         controlFailed |-> Cardinality(Failures(ControlOf(c))),
         monitorFailed |-> Cardinality(Failures(MonitorOf(c)))]

\* A message has one receipt per candidate.
Receipts == \A o, p \in outcomes : o.cand = p.cand /\ o.msg = p.msg => o = p

\* EvidenceCountedOnce is the two together, before a step and after it.
LEMMA CountedOnce ==
    /\ EvidenceCountedOnce <=> Receipts /\ \A c \in Candidate : row[c] # NoRow => Tallied(c)
    /\ EvidenceCountedOnce' <=> Receipts' /\ \A c \in Candidate : row'[c] # NoRow => Tallied(c)'
BY DEF EvidenceCountedOnce, Receipts, Tallied, CanaryOf, ControlOf, MonitorOf

\* What an outcome adds to the evidence: one receipt, where it belongs.
LEMMA EvidenceGrows ==
    ASSUME NEW h, NEW r, NEW m, NEW s, Records(h, r, m, s), Begun
    PROVE  \E o : /\ o \notin outcomes /\ o.cand = s.cand /\ o.msg = m
                  /\ o.state = s.state /\ o.arm = s.arm
                  /\ o.success = r.success /\ o.hard = r.hard
                  /\ outcomes' = outcomes \cup {o}
                  /\ \A c, state, arm :
                        /\ IsFiniteSet(Evidence(c, state, arm)) /\ o \notin Evidence(c, state, arm)
                        /\ Evidence(c, state, arm)' =
                              IF c = s.cand /\ state = s.state /\ arm = s.arm
                              THEN Evidence(c, state, arm) \cup {o} ELSE Evidence(c, state, arm)
<1>1. PICK o : o = [cand |-> s.cand, msg |-> m, state |-> s.state, arm |-> s.arm,
                    success |-> r.success, hard |-> r.hard]
  OBVIOUS
<1>2. /\ o.cand = s.cand /\ o.msg = m /\ o.state = s.state /\ o.arm = s.arm
      /\ o.success = r.success /\ o.hard = r.hard
  BY <1>1
<1>3. outcomes' = outcomes \cup {o} /\ ~Reported(s.cand, m)
  BY <1>1 DEF Records
<1>4. o \notin outcomes
  BY <1>2, <1>3 DEF Reported
<1>5. ASSUME NEW c, NEW state, NEW arm
      PROVE  /\ IsFiniteSet(Evidence(c, state, arm)) /\ o \notin Evidence(c, state, arm)
             /\ Evidence(c, state, arm)' =
                   IF c = s.cand /\ state = s.state /\ arm = s.arm
                   THEN Evidence(c, state, arm) \cup {o} ELSE Evidence(c, state, arm)
  <2>1. Evidence(c, state, arm) \subseteq outcomes
    BY DEF Evidence
  <2>2. IsFiniteSet(Evidence(c, state, arm))
    BY <2>1, FS_Subset DEF Begun
  <2>3. Evidence(c, state, arm)' =
           IF c = s.cand /\ state = s.state /\ arm = s.arm
           THEN Evidence(c, state, arm) \cup {o} ELSE Evidence(c, state, arm)
    BY <1>2, <1>3 DEF Evidence
  <2> QED
    BY <1>4, <2>1, <2>2, <2>3
<1> QED
  BY <1>2, <1>3, <1>4, <1>5

\* What calls still write ends rows, whatever calls do.
LEMMA TasksEndStays ==
    ASSUME Inv, TasksEnd, [Next]_vars
    PROVE  TasksEnd'
<1> SUFFICES ASSUME NEW g \in Hook, task'[g] # Idle, task'[g].pc = "write"
             PROVE  \/ task'[g].to \in {"rejected", "recovery_required"}
                    \/ task'[g].to = "rolled_back" /\ task'[g].from = {"rolling_back"}
  BY DEF TasksEnd
<1>1. Goes(g)
  BY TaskSteps
<1>2. CASE task'[g] = task[g]
  BY <1>2 DEF TasksEnd
<1>3. CASE Follows(task[g], task'[g])
  BY <1>3 DEF Follows, Continues, Completes, MovePc
<1>4. ASSUME NEW r \in Report, RecordOutcome(g, r) PROVE FALSE
  <2>1. PICK m, s : Records(g, r, m, s)
    BY <1>4, Recording
  <2>2. task'[g] = IF row'[s.cand].state \in {"promoting", "rolling_back"}
                   THEN ToMove(s.cand, row'[s.cand].state, task[g].policy, row[s.cand].expected)
                   ELSE Idle
    BY <2>1 DEF Records, Inv, TypeOK
  <2> QED
    BY <2>2 DEF ToMove
<1> QED
  BY <1>1, <1>2, <1>3, <1>4 DEF Goes

\* What is selected from a monitored row is its candidate.
LEMMA ArmsStay ==
    ASSUME Inv, ArmsFit, [Next]_vars
    PROVE  ArmsFit'
<1>1. ASSUME \A n \in Message : \/ selection'[n] \in {selection[n], NoSelection}
                                \/ selection'[n].state = "monitoring" => selection'[n].arm = "candidate"
      PROVE  ArmsFit'
  BY <1>1 DEF ArmsFit
<1>2. ASSUME NEW h \in Hook, SelectGuidance(h) PROVE ArmsFit'
  <2>1. task[h].msg \in Message
    BY <1>2, TaskKinds DEF SelectGuidance, MessageTask, Inv, TypeOK
  <2>2. CASE UNCHANGED selection
    BY <1>1, <2>2
  <2>3. ASSUME NEW c \in Exposed,
               selection' = [selection EXCEPT ![task[h].msg] =
                  [cand |-> c, state |-> row[c].state, arm |-> ArmOf(c, task[h].msg)]]
        PROVE  ArmsFit'
    <3>1. PICK q : q = [cand |-> c, state |-> row[c].state, arm |-> ArmOf(c, task[h].msg)]
      OBVIOUS
    <3>2. q.state = "monitoring" => q.arm = "candidate"
      BY <3>1 DEF ArmOf
    <3>3. \A n \in Message : selection'[n] = selection[n] \/ selection'[n] = q
      BY <2>1, <2>3, <3>1 DEF Inv, TypeOK
    <3> QED
      BY <1>1, <3>2, <3>3
  <2> QED
    BY <1>2, <2>2, <2>3 DEF SelectGuidance
<1>3. ASSUME NEW n \in Message, selection' = [selection EXCEPT ![n] = NoSelection] PROVE ArmsFit'
  BY <1>1, <1>3 DEF Inv, TypeOK
<1>4. ASSUME NEW h \in Hook, AdmissionStep(h) \/ BeginResume(h) \/ MoveStep(h) \/ Crash(h)
      PROVE  UNCHANGED selection
  <2>1. CASE AdmissionStep(h)
    BY <2>1 DEF AdmissionStep, Consider, ConsiderUnpublished, Refuse, Admit, BeginExpire,
                ExpireCanaries
  <2>2. CASE MoveStep(h)
    BY <2>2 DEF MoveStep, Resume, ReadVersion, ReadRevision, CandidateUnavailable, SwapPointer,
                SwapRefused, RereadVersion, RereadRevision, Settle, Write
  <2> QED
    BY <1>4, <2>1, <2>2 DEF BeginResume, Crash
<1>5. ASSUME NEW h \in Hook, MessageStep(h) PROVE ArmsFit'
  <2>1. ASSUME DiscardOutcome(h) \/ \E r \in Report : RecordOutcome(h, r) PROVE ArmsFit'
    <3>1. task[h].msg \in Message
      BY <2>1, TaskKinds DEF DiscardOutcome, RecordOutcome, MessageTask, Inv, TypeOK
    <3>2. selection' = [selection EXCEPT ![task[h].msg] = NoSelection]
      BY <2>1 DEF DiscardOutcome, RecordOutcome
    <3> QED
      BY <1>3, <3>1, <3>2
  <2>2. ASSUME \/ ArtifactUnavailable(h)
               \/ \E m \in Message : BeginSelect(h, m) \/ BeginRecord(h, m)
        PROVE  UNCHANGED selection
    BY <2>2 DEF ArtifactUnavailable, BeginSelect, BeginRecord
  <2> QED
    BY <1>1, <1>2, <1>5, <2>1, <2>2 DEF MessageStep
<1>6. ASSUME \/ \E v \in Candidate \cup Older : OperatorMoves(v)
             \/ AuthorityStep \/ UNCHANGED vars
      PROVE  UNCHANGED selection
  BY <1>6 DEF OperatorMoves, AuthorityStep, vars
<1>7. ASSUME NEW n \in Message, Forget(n) PROVE ArmsFit'
  BY <1>3, <1>7 DEF Forget
<1> QED
  BY <1>1, <1>4, <1>5, <1>6, <1>7 DEF Next

\* Without a new outcome, the counters go on saying what the receipts say.
LEMMA TallyStays ==
    ASSUME Inv, EvidenceInv, UNCHANGED outcomes, \A c \in Candidate : RowMoves(c),
           NEW c \in Candidate, row'[c] # NoRow
    PROVE  /\ Tallied(c)'
           /\ row'[c].state = "canary" => row'[c].count.canary + row'[c].count.control < Horizon
           /\ row'[c].state \in {"canary", "promoting"} => row'[c].count.monitor = 0
           /\ row'[c].state = "monitoring" => row'[c].count.monitor < MonitorHorizon
<1>1. /\ CanaryOf(c)' = CanaryOf(c) /\ ControlOf(c)' = ControlOf(c) /\ MonitorOf(c)' = MonitorOf(c)
      /\ Failures(CanaryOf(c))' = Failures(CanaryOf(c))
      /\ Failures(ControlOf(c))' = Failures(ControlOf(c))
      /\ Failures(MonitorOf(c))' = Failures(MonitorOf(c))
  BY DEF CanaryOf, ControlOf, MonitorOf, Evidence, Failures
<1>2. Horizon \in Nat \ {0} /\ MonitorHorizon \in Nat \ {0}
  BY PlanAssumption
<1>3. ASSUME row[c] # NoRow, row'[c].count = row[c].count PROVE Tallied(c)'
  <2>1. Tallied(c)
    BY <1>3, CountedOnce DEF EvidenceInv
  <2> QED
    BY <1>1, <1>3, <2>1 DEF Tallied
<1>4. row[c] # NoRow =>
        /\ row[c].state = "canary" => row[c].count.canary + row[c].count.control < Horizon
        /\ row[c].state \in {"canary", "promoting"} => row[c].count.monitor = 0
        /\ row[c].state = "monitoring" => row[c].count.monitor < MonitorHorizon
  BY DEF EvidenceInv, Paced
<1>5. CASE row'[c] = row[c]
  <2>1. Tallied(c)'
    BY <1>3, <1>5
  <2> QED
    BY <1>4, <1>5, <2>1
<1>6. CASE Admitted(c)
  <2>1. row'[c].count = NoCounts /\ row'[c].state = "canary" /\ row[c] = NoRow
    BY <1>6 DEF Admitted
  <2>2. \A o \in outcomes : o.cand # c
    BY <2>1 DEF EvidenceInv, Begun
  <2>3. CanaryOf(c)' = {} /\ ControlOf(c)' = {} /\ MonitorOf(c)' = {}
    BY <1>1, <2>2 DEF CanaryOf, ControlOf, MonitorOf, Evidence
  <2>4. \A S : S = {} => Cardinality(S) = 0 /\ Cardinality(Failures(S)) = 0
    <3>1. Failures({}) = {} /\ Cardinality({}) = 0
      BY FS_EmptySet DEF Failures
    <3> QED
      BY <3>1
  <2>5. /\ NoCounts.canary = 0 /\ NoCounts.control = 0 /\ NoCounts.monitor = 0
    BY DEF NoCounts
  <2>6. Tallied(c)'
    <3>1. /\ Cardinality(CanaryOf(c))' = 0 /\ Cardinality(ControlOf(c))' = 0
          /\ Cardinality(MonitorOf(c))' = 0 /\ Cardinality(Failures(CanaryOf(c)))' = 0
          /\ Cardinality(Failures(ControlOf(c)))' = 0 /\ Cardinality(Failures(MonitorOf(c)))' = 0
      BY <2>3, <2>4
    <3> QED
      BY <2>1, <3>1 DEF Tallied, NoCounts
  <2> QED
    BY <1>2, <2>1, <2>5, <2>6
<1>7. CASE row[c] # NoRow /\ row'[c].count = row[c].count /\ (Ended(c) \/ Observed(c))
  <2>1. Tallied(c)'
    BY <1>3, <1>7
  <2>2. CASE Ended(c)
    BY <2>1, <2>2 DEF Ended
  <2>3. CASE Observed(c)
    <3>1. row[c].state = "promoting" /\ row'[c].state = "monitoring"
      BY <2>3 DEF Observed
    <3>2. row'[c].count.monitor = 0
      BY <1>4, <1>7, <3>1
    <3> QED
      BY <1>2, <2>1, <3>1, <3>2
  <2> QED
    BY <1>7, <2>2, <2>3
<1> QED
  BY <1>5, <1>6, <1>7 DEF RowMoves

\* A new outcome is counted where it belongs.
LEMMA TallyGrows ==
    ASSUME Inv, EvidenceInv, NEW h, NEW r, NEW m, NEW s, Records(h, r, m, s)
    PROVE  Tallied(s.cand)'
<1> DEFINE c == s.cand
           n == row[c].count
<1>1. PICK o : /\ o \notin outcomes /\ o.cand = c /\ o.msg = m
               /\ o.state = s.state /\ o.arm = s.arm
               /\ o.success = r.success /\ o.hard = r.hard
               /\ outcomes' = outcomes \cup {o}
               /\ \A d, state, arm :
                     /\ IsFiniteSet(Evidence(d, state, arm)) /\ o \notin Evidence(d, state, arm)
                     /\ Evidence(d, state, arm)' =
                           IF d = c /\ state = s.state /\ arm = s.arm
                           THEN Evidence(d, state, arm) \cup {o} ELSE Evidence(d, state, arm)
  BY EvidenceGrows DEF EvidenceInv
<1>2. c \in Candidate /\ row[c] # NoRow /\ n \in Counts
      /\ row'[c].count = Counted(n, s, r)
      /\ s.state \in {"canary", "monitoring"} /\ s.arm \in {"candidate", "incumbent"}
      /\ (s.state = "monitoring" => s.arm = "candidate")
  <2>1. c \in Candidate /\ row[c] # NoRow /\ row[c] \in Row /\ s \in Selection
        /\ m \in Message /\ s = selection[m] /\ s # NoSelection
        /\ row'[c].count = Counted(n, s, r)
    BY DEF Records
  <2> QED
    BY <2>1 DEF EvidenceInv, ArmsFit, Selection, Arm, Row
<1>3. Tallied(c)
  BY <1>2, CountedOnce DEF EvidenceInv
<1>4. ASSUME NEW S, IsFiniteSet(S), o \notin S
      PROVE  /\ Cardinality(S \cup {o}) = Cardinality(S) + 1
             /\ Cardinality(Failures(S \cup {o})) = Cardinality(Failures(S)) + One(~r.success)
  <2>1. o.success = r.success
    BY <1>1
  <2> QED
    BY <1>4, <2>1, OneMore
<1>5. PICK k : k = One(~r.success)
  OBVIOUS
<1> DEFINE A == CanaryOf(c)
           B == ControlOf(c)
           M == MonitorOf(c)
<1>6. /\ IsFiniteSet(A) /\ IsFiniteSet(B) /\ IsFiniteSet(M)
      /\ o \notin A /\ o \notin B /\ o \notin M
  BY <1>1 DEF CanaryOf, ControlOf, MonitorOf
<1>7. /\ A' = IF s.state = "canary" /\ s.arm = "candidate" THEN A \cup {o} ELSE A
      /\ B' = IF s.state = "canary" /\ s.arm = "incumbent" THEN B \cup {o} ELSE B
      /\ M' = IF s.state = "monitoring" /\ s.arm = "candidate" THEN M \cup {o} ELSE M
  <2>1. \A state, arm :
           Evidence(c, state, arm)' = IF state = s.state /\ arm = s.arm
                                      THEN Evidence(c, state, arm) \cup {o}
                                      ELSE Evidence(c, state, arm)
    BY <1>1
  <2> QED
    BY <2>1 DEF CanaryOf, ControlOf, MonitorOf
<1>8. /\ n.canary = Cardinality(A) /\ n.canaryFailed = Cardinality(Failures(A))
      /\ n.control = Cardinality(B) /\ n.controlFailed = Cardinality(Failures(B))
      /\ n.monitor = Cardinality(M) /\ n.monitorFailed = Cardinality(Failures(M))
  BY <1>3 DEF Tallied
<1> DEFINE Same(S, T) == Cardinality(T) = Cardinality(S)
                         /\ Cardinality(Failures(T)) = Cardinality(Failures(S))
           More(S, T) == Cardinality(T) = Cardinality(S) + 1
                         /\ Cardinality(Failures(T)) = Cardinality(Failures(S)) + k
<1>9. /\ IF s.state = "canary" /\ s.arm = "candidate" THEN More(A, A') ELSE Same(A, A')
      /\ IF s.state = "canary" /\ s.arm = "incumbent" THEN More(B, B') ELSE Same(B, B')
      /\ IF s.state = "monitoring" /\ s.arm = "candidate" THEN More(M, M') ELSE Same(M, M')
  <2> HIDE DEF A, B, M
  <2>1. More(A, A \cup {o}) /\ More(B, B \cup {o}) /\ More(M, M \cup {o})
    BY <1>4, <1>5, <1>6
  <2> HIDE DEF More
  <2> QED
    BY <1>7, <2>1
<1>10. Counted(n, s, r) =
         IF s.state = "monitoring"
         THEN [n EXCEPT !.monitor = n.monitor + 1, !.monitorFailed = n.monitorFailed + k]
         ELSE IF s.arm = "candidate"
         THEN [n EXCEPT !.canary = n.canary + 1, !.canaryFailed = n.canaryFailed + k]
         ELSE [n EXCEPT !.control = n.control + 1, !.controlFailed = n.controlFailed + k]
  BY <1>5 DEF Counted
<1>11. PICK new : new = row'[c].count
  OBVIOUS
<1>12. new = [canary  |-> Cardinality(A'),
              control |-> Cardinality(B'),
              monitor |-> Cardinality(M'),
              canaryFailed  |-> Cardinality(Failures(A')),
              controlFailed |-> Cardinality(Failures(B')),
              monitorFailed |-> Cardinality(Failures(M'))]
  <2>1. PICK x \in Counts : x = n
    BY <1>2
  <2> HIDE DEF A, B, M, n, c
  <2>2. CASE s.state = "monitoring"
    <3>1. new = [x EXCEPT !.monitor = x.monitor + 1, !.monitorFailed = x.monitorFailed + k]
      BY <1>2, <1>10, <1>11, <2>1, <2>2
    <3>2. More(M, M') /\ Same(A, A') /\ Same(B, B')
      BY <1>2, <1>9, <2>2
    <3> QED
      BY <1>8, <2>1, <3>1, <3>2 DEF Counts
  <2>3. CASE s.state = "canary" /\ s.arm = "candidate"
    <3>1. new = [x EXCEPT !.canary = x.canary + 1, !.canaryFailed = x.canaryFailed + k]
      BY <1>2, <1>10, <1>11, <2>1, <2>3
    <3>2. More(A, A') /\ Same(M, M') /\ Same(B, B')
      BY <1>2, <1>9, <2>3
    <3> QED
      BY <1>8, <2>1, <3>1, <3>2 DEF Counts
  <2>4. CASE s.state = "canary" /\ s.arm = "incumbent"
    <3>1. new = [x EXCEPT !.control = x.control + 1, !.controlFailed = x.controlFailed + k]
      BY <1>2, <1>10, <1>11, <2>1, <2>4
    <3>2. More(B, B') /\ Same(M, M') /\ Same(A, A')
      BY <1>2, <1>9, <2>4
    <3> QED
      BY <1>8, <2>1, <3>1, <3>2 DEF Counts
  <2> QED
    BY <1>2, <2>2, <2>3, <2>4
<1> QED
  BY <1>11, <1>12 DEF Tallied, Failures, CanaryOf, ControlOf, MonitorOf, Evidence

\* The hard failures counted for a verdict are those of the evidence.
LEMMA HardCounted ==
    ASSUME NEW h, NEW r, NEW m, NEW s, Records(h, r, m, s), Begun
    PROVE  /\ HardFailures(outcomes', s) = Cardinality(HardOnes(Evidence(s.cand, s.state, "candidate"))')
           /\ HardFailures(outcomes', s) \in Nat
           /\ IsFiniteSet(outcomes')
<1>1. IsFiniteSet(outcomes')
  BY FS_AddElement DEF Records, Begun
<1>2. HardFailures(outcomes', s) = Cardinality(HardOnes(Evidence(s.cand, s.state, "candidate"))')
  <2>1. HardOnes(Evidence(s.cand, s.state, "candidate"))' =
          {o \in outcomes' : o.cand = s.cand /\ o.state = s.state /\ o.arm = "candidate" /\ o.hard}
    BY DEF HardOnes, Evidence
  <2> QED
    BY <2>1 DEF HardFailures
<1>3. IsFiniteSet(HardOnes(Evidence(s.cand, s.state, "candidate"))')
  <2>1. HardOnes(Evidence(s.cand, s.state, "candidate"))' \subseteq outcomes'
    BY DEF HardOnes, Evidence
  <2> QED
    BY <1>1, <2>1, FS_Subset
<1> QED
  BY <1>1, <1>2, <1>3, FS_CardinalityType

\* What the new counters of a row lead to.
LEMMA RecordedVerdict ==
    ASSUME Inv, EvidenceInv, NEW h, NEW r, NEW m, NEW s, Records(h, r, m, s)
    PROVE  LET c == s.cand
               n == row'[c].count
               hard == HardFailures(outcomes', s)
           IN  /\ n \in Counts /\ hard \in Nat /\ s.state \in {"canary", "monitoring"}
               /\ s.state = "canary" => /\ row'[c].state \in CanaryVerdict(n, hard)
                                       /\ n.canary + n.control <= Horizon
                                       /\ n.monitor = 0
               /\ s.state = "monitoring" => /\ row'[c].state \in MonitorVerdict(n, hard)
                                           /\ n.monitor <= MonitorHorizon
<1> DEFINE c == s.cand
           n == row'[c].count
<1>1. /\ c \in Candidate /\ row[c] # NoRow /\ row[c] \in Row /\ s \in Selection
      /\ row'[c] \in Row /\ row[c].state = s.state /\ n = Counted(row[c].count, s, r)
      /\ row'[c].state \in IF s.state = "canary"
                          THEN CanaryVerdict(n, HardFailures(outcomes', s))
                          ELSE MonitorVerdict(n, HardFailures(outcomes', s))
  BY DEF Records
<1>2. HardFailures(outcomes', s) \in Nat
  BY HardCounted DEF EvidenceInv
<1>3. n \in Counts /\ s.state \in {"canary", "monitoring"}
  BY <1>1 DEF Row, Selection
<1>4. PICK x \in Counts : x = row[c].count
  BY <1>1 DEF Row
<1>5. /\ s.state = "canary" => x.canary + x.control < Horizon /\ x.monitor = 0
      /\ s.state = "monitoring" => x.monitor < MonitorHorizon
  BY <1>1, <1>4 DEF EvidenceInv, Paced
<1>6. PICK k : k = One(~r.success)
  OBVIOUS
<1>7. /\ s.state = "canary" => n.canary + n.control = x.canary + x.control + 1 /\ n.monitor = 0
      /\ s.state = "monitoring" => n.monitor = x.monitor + 1
  <2>1. n = IF s.state = "monitoring"
            THEN [x EXCEPT !.monitor = x.monitor + 1, !.monitorFailed = x.monitorFailed + k]
            ELSE IF s.arm = "candidate"
            THEN [x EXCEPT !.canary = x.canary + 1, !.canaryFailed = x.canaryFailed + k]
            ELSE [x EXCEPT !.control = x.control + 1, !.controlFailed = x.controlFailed + k]
    BY <1>1, <1>4, <1>6 DEF Counted
  <2> HIDE DEF n
  <2> QED
    BY <1>5, <2>1 DEF Counts
<1>8. Horizon \in Nat /\ MonitorHorizon \in Nat
  BY PlanAssumption
<1>9. /\ s.state = "canary" => n.canary + n.control <= Horizon /\ n.monitor = 0
      /\ s.state = "monitoring" => n.monitor <= MonitorHorizon
  <2>1. x.canary \in Nat /\ x.control \in Nat /\ x.monitor \in Nat
    BY DEF Counts
  <2> HIDE DEF n
  <2> QED
    BY <1>5, <1>7, <1>8, <2>1
<1> QED
  BY <1>1, <1>2, <1>3, <1>9

\* The counters, the receipts and the phases agree, whatever hooks do.
LEMMA EvidenceStays ==
    ASSUME Inv, EvidenceInv, [Next]_vars
    PROVE  EvidenceInv'
<1>1. TasksEnd' /\ ArmsFit'
  BY TasksEndStays, ArmsStay DEF EvidenceInv
<1>2. RowsKeep
  BY Inductive DEF Kept
<1>3. CASE UNCHANGED outcomes /\ \A c \in Candidate : RowMoves(c)
  <2>1. \A c \in Candidate : row'[c] # NoRow =>
           /\ Tallied(c)'
           /\ row'[c].state = "canary" => row'[c].count.canary + row'[c].count.control < Horizon
           /\ row'[c].state \in {"canary", "promoting"} => row'[c].count.monitor = 0
           /\ row'[c].state = "monitoring" => row'[c].count.monitor < MonitorHorizon
    BY <1>3, TallyStays
  <2>2. Paced'
    BY <2>1 DEF Paced
  <2>3. Begun'
    BY <1>2, <1>3 DEF Begun, EvidenceInv, RowsKeep, Inv, TypeOK, Outcome
  <2>4. EvidenceCountedOnce'
    <3>1. Receipts'
      BY <1>3, CountedOnce DEF EvidenceInv, Receipts
    <3> QED
      BY <2>1, <3>1, CountedOnce
  <2> QED
    BY <1>1, <2>2, <2>3, <2>4 DEF EvidenceInv
<1>4. ASSUME NEW h \in Hook, NEW r \in Report, RecordOutcome(h, r) PROVE EvidenceInv'
  <2>1. PICK m, s : Records(h, r, m, s)
    BY <1>4, Recording
  <2>2. /\ s.cand \in Candidate /\ row[s.cand] # NoRow /\ row'[s.cand] # NoRow
        /\ \A d \in Candidate \ {s.cand} : row'[d] = row[d]
    BY <2>1 DEF Records
  <2>3. PICK o : /\ o.cand = s.cand /\ o.msg = m /\ outcomes' = outcomes \cup {o}
                 /\ \A d, state, arm :
                        d # s.cand => Evidence(d, state, arm)' = Evidence(d, state, arm)
    <3>1. Begun
      BY DEF EvidenceInv
    <3> QED
      BY <2>1, <3>1, EvidenceGrows
  <2>4. Begun'
    <3>1. IsFiniteSet(outcomes')
      BY <2>1, HardCounted DEF EvidenceInv
    <3>2. \A p \in outcomes' : row'[p.cand] # NoRow
      BY <2>2, <2>3, <1>2 DEF EvidenceInv, Begun, RowsKeep, Inv, TypeOK, Outcome
    <3> QED
      BY <3>1, <3>2 DEF Begun
  <2>5. Receipts'
    <3>1. Receipts /\ ~Reported(s.cand, m)
      BY <2>1, CountedOnce DEF EvidenceInv, Records
    <3> QED
      BY <2>3, <3>1 DEF Receipts, Reported
  <2>6. \A d \in Candidate : row'[d] # NoRow => Tallied(d)'
    <3> SUFFICES ASSUME NEW d \in Candidate, row'[d] # NoRow PROVE Tallied(d)'
      OBVIOUS
    <3>1. CASE d = s.cand
      <4>1. Tallied(s.cand)'
        BY <2>1, TallyGrows
      <4> QED
        BY <3>1, <4>1 DEF Tallied, CanaryOf, ControlOf, MonitorOf, Failures, Evidence
    <3>2. CASE d # s.cand
      <4>1. row'[d] = row[d] /\ Tallied(d)
        BY <2>2, <3>2, CountedOnce DEF EvidenceInv
      <4>2. /\ CanaryOf(d)' = CanaryOf(d) /\ ControlOf(d)' = ControlOf(d)
            /\ MonitorOf(d)' = MonitorOf(d)
        BY <2>3, <3>2 DEF CanaryOf, ControlOf, MonitorOf
      <4>3. /\ Failures(CanaryOf(d))' = Failures(CanaryOf(d))
            /\ Failures(ControlOf(d))' = Failures(ControlOf(d))
            /\ Failures(MonitorOf(d))' = Failures(MonitorOf(d))
        BY <4>2 DEF Failures
      <4> QED
        BY <4>1, <4>2, <4>3 DEF Tallied
    <3> QED
      BY <3>1, <3>2
  <2>7. EvidenceCountedOnce'
    BY <2>5, <2>6, CountedOnce
  <2>8. Paced'
    <3> DEFINE n == row'[s.cand].count
    <3>1. /\ n \in Counts /\ HardFailures(outcomes', s) \in Nat
          /\ s.state = "canary" =>
                row'[s.cand].state \in CanaryVerdict(n, HardFailures(outcomes', s)) /\ n.monitor = 0
          /\ s.state = "monitoring" =>
                row'[s.cand].state \in MonitorVerdict(n, HardFailures(outcomes', s))
          /\ s.state \in {"canary", "monitoring"}
      BY <2>1, RecordedVerdict
    <3>2. /\ row'[s.cand].state = "canary" => n.canary + n.control < Horizon
          /\ row'[s.cand].state \in {"canary", "promoting"} => n.monitor = 0
          /\ row'[s.cand].state = "monitoring" => n.monitor < MonitorHorizon
      <4>1. CASE s.state = "canary"
        <5>1. PICK v \in CanaryVerdict(n, HardFailures(outcomes', s)) : v = row'[s.cand].state
          BY <3>1, <4>1
        <5> HIDE DEF n
        <5>2. /\ v \in {"rejected", "canary", "rolled_back", "promoting"}
              /\ v = "canary" => n.canary + n.control < Horizon
          BY <3>1, VerdictOfCanary
        <5>3. n.monitor = 0
          BY <3>1, <4>1
        <5> QED
          BY <5>1, <5>2, <5>3
      <4>2. CASE s.state = "monitoring"
        <5>1. PICK v \in MonitorVerdict(n, HardFailures(outcomes', s)) : v = row'[s.cand].state
          BY <3>1, <4>2
        <5> HIDE DEF n
        <5>2. /\ v \in {"recovery_required", "rolling_back", "monitoring", "retained"}
              /\ v = "monitoring" => n.monitor < MonitorHorizon
          BY <3>1, VerdictOfMonitor
        <5> QED
          BY <5>1, <5>2
      <4> QED
        BY <3>1, <4>1, <4>2
    <3> QED
      BY <2>2, <3>2 DEF Paced, EvidenceInv
  <2> QED
    BY <1>1, <2>4, <2>7, <2>8 DEF EvidenceInv
<1> QED
  BY <1>3, <1>4, RowSteps DEF EvidenceInv

\* The counters, the receipts and the phases agree.
THEOREM EvidenceHolds == Spec => []EvidenceInv
<1>1. Init => EvidenceInv
  BY FS_EmptySet
     DEF Init, EvidenceInv, TasksEnd, Begun, ArmsFit, Paced, EvidenceCountedOnce
<1>2. Inv /\ EvidenceInv /\ [Next]_vars => EvidenceInv'
  BY EvidenceStays
<1> QED
  BY <1>1, <1>2, InvariantHolds, PTL DEF Spec

\* The counters of a row say what the outcome receipts say, and no message counts
\* twice, however hooks, crashes and repeated calls of record_outcome interleave.
THEOREM OutcomesCountOnce == Spec => []EvidenceCountedOnce
<1>1. EvidenceInv => EvidenceCountedOnce
  BY DEF EvidenceInv
<1> QED
  BY <1>1, EvidenceHolds, PTL

-----------------------------------------------------------------------------
(* Verdicts rest on the evidence *)

\* A phase that is over does not come back, and its evidence stays as it was.
LEMMA PhasesEnd ==
    ASSUME Inv, EvidenceInv, [Next]_vars, NEW c \in Candidate, row[c] # NoRow
    PROVE  /\ row'[c] # NoRow
           /\ row[c].state # "canary" =>
                 /\ row'[c].state # "canary"
                 /\ CanaryOf(c)' = CanaryOf(c) /\ ControlOf(c)' = ControlOf(c)
           /\ row[c].state \notin {"canary", "promoting", "monitoring"} =>
                 /\ row'[c].state \notin {"canary", "promoting", "monitoring"}
                 /\ MonitorOf(c)' = MonitorOf(c)
<1>1. row'[c] # NoRow
  BY Inductive DEF Kept, RowsKeep
<1>2. CASE UNCHANGED outcomes /\ \A d \in Candidate : RowMoves(d)
  <2>1. CanaryOf(c)' = CanaryOf(c) /\ ControlOf(c)' = ControlOf(c) /\ MonitorOf(c)' = MonitorOf(c)
    BY <1>2 DEF CanaryOf, ControlOf, MonitorOf, Evidence
  <2>2. \/ row'[c] = row[c]
        \/ Ended(c) \/ Observed(c)
    BY <1>2 DEF RowMoves, Admitted
  <2> QED
    BY <1>1, <2>1, <2>2 DEF Ended, Observed
<1>3. ASSUME NEW h \in Hook, NEW r \in Report, RecordOutcome(h, r)
      PROVE  /\ row[c].state # "canary" =>
                   /\ row'[c].state # "canary"
                   /\ CanaryOf(c)' = CanaryOf(c) /\ ControlOf(c)' = ControlOf(c)
             /\ row[c].state \notin {"canary", "promoting", "monitoring"} =>
                   /\ row'[c].state \notin {"canary", "promoting", "monitoring"}
                   /\ MonitorOf(c)' = MonitorOf(c)
  <2>1. PICK m, s : Records(h, r, m, s)
    BY <1>3, Recording
  <2>2. PICK o : \A d, state, arm :
                    Evidence(d, state, arm)' =
                       IF d = s.cand /\ state = s.state /\ arm = s.arm
                       THEN Evidence(d, state, arm) \cup {o} ELSE Evidence(d, state, arm)
    <3>1. Begun
      BY DEF EvidenceInv
    <3> QED
      BY <2>1, <3>1, EvidenceGrows
  <2>3. CASE c # s.cand
    <3>1. row'[c] = row[c]
      BY <2>1, <2>3 DEF Records
    <3> QED
      BY <2>2, <2>3, <3>1 DEF CanaryOf, ControlOf, MonitorOf
  <2>4. CASE c = s.cand
    <3>1. row[c].state = s.state /\ s.state \in {"canary", "monitoring"}
      BY <2>1, <2>4 DEF Records, Selection
    <3>2. CASE s.state = "monitoring"
      <4>1. PICK n \in Counts, hard \in Nat : row'[c].state \in MonitorVerdict(n, hard)
        BY <2>1, <2>4, <3>2, RecordedVerdict
      <4>2. row'[c].state \in {"recovery_required", "rolling_back", "monitoring", "retained"}
        BY <4>1, VerdictOfMonitor
      <4>3. CanaryOf(c)' = CanaryOf(c) /\ ControlOf(c)' = ControlOf(c)
        BY <2>2, <3>2 DEF CanaryOf, ControlOf
      <4> QED
        BY <3>1, <3>2, <4>2, <4>3
    <3> QED
      BY <3>1, <3>2
  <2> QED
    BY <2>3, <2>4
<1> QED
  BY <1>1, <1>2, <1>3, RowSteps DEF EvidenceInv

\* The same evidence says the same.
LEMMA SameEvidence ==
    ASSUME NEW c, CanaryOf(c)' = CanaryOf(c), ControlOf(c)' = ControlOf(c)
    PROVE  /\ Earned(c)' <=> Earned(c)
           /\ MonitorOf(c)' = MonitorOf(c) => (Harmful(c)' <=> Harmful(c))
           /\ MonitorOf(c)' = MonitorOf(c) => (Sustained(c)' <=> Sustained(c))
BY DEF Earned, Harmful, Sustained, HardOnes, Worse, Failures

\* What was decided stays decided, and what was condemned condemned.
LEMMA JustifiedStays ==
    ASSUME Inv, EvidenceInv, [Next]_vars, NEW c \in Candidate
    PROVE  /\ Decided(c) => Decided(c)'
           /\ Condemned(c) => Condemned(c)'
           /\ \A by : Justified(by, c) => Justified(by, c)'
<1>1. Decided(c) => Decided(c)'
  BY PhasesEnd, SameEvidence DEF Decided
<1>2. Condemned(c) => Condemned(c)'
  <2> SUFFICES ASSUME Condemned(c) PROVE Condemned(c)'
    OBVIOUS
  <2>1. /\ row[c] # NoRow /\ row[c].state \notin {"canary", "promoting", "monitoring"}
        /\ Harmful(c)
    BY DEF Condemned
  <2>2. /\ row'[c] # NoRow /\ row'[c].state \notin {"canary", "promoting", "monitoring"}
        /\ CanaryOf(c)' = CanaryOf(c) /\ ControlOf(c)' = ControlOf(c)
        /\ MonitorOf(c)' = MonitorOf(c)
    BY <2>1, PhasesEnd
  <2> QED
    BY <2>1, <2>2, SameEvidence DEF Condemned
<1> QED
  BY <1>1, <1>2 DEF Justified

\* The verdict on a new outcome has the evidence for it.
LEMMA RecordedJustly ==
    ASSUME Inv, EvidenceInv, NEW h, NEW r, NEW m, NEW s, Records(h, r, m, s)
    PROVE  /\ row'[s.cand].state = "promoting" => Earned(s.cand)'
           /\ row'[s.cand].state = "rolling_back" => Harmful(s.cand)'
           /\ row'[s.cand].state = "retained" => Sustained(s.cand)'
<1> DEFINE c == s.cand
           v == row'[c].state
<1>1. PICK n \in Counts : n = row'[c].count
  BY RecordedVerdict
<1>2. PICK hard \in Nat : hard = HardFailures(outcomes', s)
  BY RecordedVerdict
<1>3. /\ s.state \in {"canary", "monitoring"}
      /\ s.state = "canary" => v \in CanaryVerdict(n, hard) /\ n.canary + n.control <= Horizon
      /\ s.state = "monitoring" => v \in MonitorVerdict(n, hard) /\ n.monitor <= MonitorHorizon
  BY <1>1, <1>2, RecordedVerdict
<1>4. /\ n.canary = Cardinality(CanaryOf(c))'
      /\ n.control = Cardinality(ControlOf(c))'
      /\ n.monitor = Cardinality(MonitorOf(c))'
      /\ n.canaryFailed = Cardinality(Failures(CanaryOf(c)))'
      /\ n.controlFailed = Cardinality(Failures(ControlOf(c)))'
      /\ n.monitorFailed = Cardinality(Failures(MonitorOf(c)))'
  <2>1. Tallied(c)'
    BY TallyGrows
  <2> QED
    BY <1>1, <2>1 DEF Tallied
<1>5. hard = Cardinality(HardOnes(Evidence(c, s.state, "candidate")))'
  BY <1>2, HardCounted DEF EvidenceInv
<1>6. Horizon \in Nat /\ MonitorHorizon \in Nat /\ n.canary \in Nat /\ n.control \in Nat
      /\ n.monitor \in Nat
  BY PlanAssumption DEF Counts
<1>7. CASE s.state = "canary"
  <2>1. v \in {"rejected", "canary", "rolled_back", "promoting"}
    BY <1>3, <1>7, VerdictOfCanary
  <2>2. ASSUME v = "promoting" PROVE Earned(c)'
    <3>1. /\ hard <= HardVeto /\ n.canary + n.control = Horizon
          /\ n.canary >= Minimum /\ n.control >= Minimum
          /\ FALSE \in Regressed(n.canaryFailed, n.canary, n.controlFailed, n.control, Margin)
      <4>1. /\ hard <= HardVeto /\ n.canary + n.control >= Horizon
            /\ n.canary >= Minimum /\ n.control >= Minimum
            /\ FALSE \in Regressed(n.canaryFailed, n.canary, n.controlFailed, n.control, Margin)
        BY <1>3, <1>7, <2>2, VerdictOfCanary
      <4>2. n.canary + n.control = Horizon
        BY <1>3, <1>6, <1>7, <4>1
      <4> QED
        BY <4>1, <4>2
    <3>2. hard = Cardinality(HardOnes(CanaryOf(c)))'
      BY <1>5, <1>7 DEF CanaryOf
    <3>3. FALSE \in Worse(CanaryOf(c), ControlOf(c), Margin)'
      BY <1>4, <3>1 DEF Worse
    <3> QED
      BY <1>4, <3>1, <3>2, <3>3 DEF Earned
  <2> QED
    BY <2>1, <2>2
<1>8. CASE s.state = "monitoring"
  <2> DEFINE R == Regressed(n.monitorFailed, n.monitor, n.controlFailed, n.control, MonitorMargin)
  <2>1. /\ v \in {"recovery_required", "rolling_back", "monitoring", "retained"}
        /\ v = "rolling_back" => (hard > MonitorVeto \/ TRUE \in R)
        /\ v = "retained" => hard <= MonitorVeto /\ n.monitor >= MonitorHorizon /\ FALSE \in R
    BY <1>3, <1>8, VerdictOfMonitor
  <2>2. hard = Cardinality(HardOnes(MonitorOf(c)))'
    BY <1>5, <1>8 DEF MonitorOf
  <2>3. R = Worse(MonitorOf(c), ControlOf(c), MonitorMargin)'
    BY <1>4 DEF Worse
  <2> HIDE DEF R
  <2>4. ASSUME v = "rolling_back" PROVE Harmful(c)'
    BY <2>1, <2>2, <2>3, <2>4 DEF Harmful
  <2>5. ASSUME v = "retained" PROVE Sustained(c)'
    <3>1. n.monitor = MonitorHorizon
      BY <1>3, <1>6, <1>8, <2>1, <2>5
    <3> QED
      BY <1>4, <2>1, <2>2, <2>3, <2>5, <3>1 DEF Sustained
  <2> QED
    BY <2>1, <2>4, <2>5
<1> QED
  BY <1>3, <1>7, <1>8

\* Rows, calls and moves that a verdict led to have the evidence for it.
LEMMA VerdictStays ==
    ASSUME Inv, EvidenceInv, VerdictInv, [Next]_vars
    PROVE  VerdictInv'
<1>1. RowsJustified'
  <2> SUFFICES ASSUME NEW c \in Candidate, row'[c] # NoRow
               PROVE  /\ row'[c].state = "promoting" => Earned(c)'
                      /\ row'[c].state = "rolling_back" => Harmful(c)'
                      /\ row'[c].state = "retained" => Sustained(c)'
    BY DEF RowsJustified
  <2>1. ASSUME row'[c] = row[c]
        PROVE  /\ row'[c].state = "promoting" => Earned(c)'
               /\ row'[c].state = "rolling_back" => Harmful(c)'
               /\ row'[c].state = "retained" => Sustained(c)'
    <3>1. /\ row[c] # NoRow
          /\ row[c].state = "promoting" => Earned(c)
          /\ row[c].state = "rolling_back" => Harmful(c)
          /\ row[c].state = "retained" => Sustained(c)
      BY <2>1 DEF VerdictInv, RowsJustified
    <3> QED
      BY <2>1, <3>1, PhasesEnd, SameEvidence
  <2>2. CASE RowMoves(c)
    BY <2>1, <2>2 DEF RowMoves, Admitted, Ended, Observed
  <2>3. ASSUME NEW h \in Hook, NEW r \in Report, RecordOutcome(h, r)
        PROVE  /\ row'[c].state = "promoting" => Earned(c)'
               /\ row'[c].state = "rolling_back" => Harmful(c)'
               /\ row'[c].state = "retained" => Sustained(c)'
    <3>1. PICK m, s : Records(h, r, m, s)
      BY <2>3, Recording
    <3>2. CASE c = s.cand
      <4>1. /\ row'[s.cand].state = "promoting" => Earned(s.cand)'
            /\ row'[s.cand].state = "rolling_back" => Harmful(s.cand)'
            /\ row'[s.cand].state = "retained" => Sustained(s.cand)'
        BY <3>1, RecordedJustly
      <4> QED
        BY <3>2, <4>1 DEF Earned, Harmful, Sustained, CanaryOf, ControlOf, MonitorOf, Evidence,
                          HardOnes, Worse, Failures
    <3>3. CASE c # s.cand
      BY <2>1, <3>1, <3>3 DEF Records
    <3> QED
      BY <3>2, <3>3
  <2> QED
    BY <2>2, <2>3, RowSteps DEF EvidenceInv
<1>2. ASSUME NEW c \in Candidate, row[c] # NoRow, row[c].state \in Mode
      PROVE  Justified(By(row[c].state), c)
  BY <1>2 DEF VerdictInv, RowsJustified, Justified, By, Decided, Condemned, Mode
<1>3. TasksJustified'
  <2> SUFFICES ASSUME NEW g \in Hook, NEW u, u = task'[g], u # Idle,
                      u.pc \in MovePc \cup {"resume"}
               PROVE  Justified(By(u.mode), u.cand)'
    BY DEF TasksJustified
  <2> DEFINE t == task[g]
  <2>1. ASSUME t # Idle, t.pc \in MovePc \cup {"resume"}
        PROVE  t.cand \in Candidate /\ Justified(By(t.mode), t.cand)
    BY <2>1, TaskKinds DEF VerdictInv, TasksJustified, Inv, TypeOK, MoveTask, ResumeTask
  <2>2. ASSUME u.cand \in Candidate, Justified(By(u.mode), u.cand)
        PROVE  Justified(By(u.mode), u.cand)'
    BY <2>2, JustifiedStays DEF By
  <2>3. CASE u = t
    BY <2>1, <2>2, <2>3
  <2>4. CASE Follows(t, u)
    <3>1. \/ /\ u.pc = "resume" /\ u.cand \in Candidate /\ row[u.cand] # NoRow
             /\ u.mode = row[u.cand].state /\ u.mode \in Mode
          \/ Continues(t, u)
      BY <2>4 DEF Follows, Completes, MovePc
    <3>2. CASE u.pc = "resume" /\ u.cand \in Candidate /\ row[u.cand] # NoRow
               /\ u.mode = row[u.cand].state /\ u.mode \in Mode
      <4>1. Justified(By(row[u.cand].state), u.cand)
        BY <1>2, <3>2
      <4> QED
        BY <2>2, <3>2, <4>1
    <3>3. CASE Continues(t, u)
      BY <2>1, <2>2, <3>3 DEF Continues
    <3> QED
      BY <3>1, <3>2, <3>3
  <2>5. ASSUME NEW r \in Report, RecordOutcome(g, r)
        PROVE  Justified(By(u.mode), u.cand)'
    <3>1. PICK m, s : Records(g, r, m, s)
      BY <2>5, Recording
    <3>2. u = IF row'[s.cand].state \in {"promoting", "rolling_back"}
              THEN ToMove(s.cand, row'[s.cand].state, task[g].policy, row[s.cand].expected)
              ELSE Idle
      BY <3>1 DEF Records, Inv, TypeOK
    <3>3. /\ row'[s.cand].state \in {"promoting", "rolling_back"}
          /\ u.cand = s.cand /\ u.mode = row'[s.cand].state
      BY <3>2 DEF ToMove
    <3>4. /\ s.cand \in Candidate /\ row'[s.cand] # NoRow
      BY <3>1 DEF Records
    <3>5. /\ row'[s.cand].state = "promoting" => Earned(s.cand)'
          /\ row'[s.cand].state = "rolling_back" => Harmful(s.cand)'
      BY <3>1, RecordedJustly
    <3>6. /\ u.mode = "promoting" => Decided(u.cand)'
          /\ u.mode = "rolling_back" => Condemned(u.cand)'
      BY <3>3, <3>4, <3>5 DEF Decided, Condemned
    <3> QED
      BY <3>3, <3>6 DEF By, Justified
  <2> QED
    BY <2>3, <2>4, <2>5, TaskSteps DEF Goes
<1>4. MovesJustified'
  <2>1. moves \in Seq(Move)
    BY DEF Inv, TypeOK
  <2>2. ASSUME NEW i \in DOMAIN moves, NEW y, y = moves[i], y.by # "operator"
        PROVE  y.cand \in Candidate /\ Justified(y.by, y.cand)'
    <3>1. y.cand \in Candidate /\ Justified(y.by, y.cand)
      BY <2>2 DEF VerdictInv, MovesJustified
    <3> QED
      BY <3>1, JustifiedStays
  <2>3. CASE UNCHANGED moves
    BY <2>2, <2>3 DEF MovesJustified
  <2>4. ASSUME NEW x, moves' = Append(moves, x),
               x.by # "operator" => x.cand \in Candidate /\ Justified(x.by, x.cand)'
        PROVE  MovesJustified'
    <3>1. \A i \in DOMAIN moves' : (i \in DOMAIN moves /\ moves'[i] = moves[i]) \/ moves'[i] = x
      BY <2>1, <2>4
    <3> QED
      BY <2>2, <2>4, <3>1 DEF MovesJustified
  <2>5. ASSUME NEW h \in Hook, Swaps(task[h]) PROVE MovesJustified'
    <3>1. PICK x : x = [by |-> By(task[h].mode), cand |-> task[h].cand, version |-> Target(task[h])]
      OBVIOUS
    <3>2. /\ task[h] # Idle /\ task[h] \in MoveTask /\ task[h].pc \in MovePc
          /\ moves' = Append(moves, x)
      BY <2>5, <3>1 DEF Swaps, MoveTask
    <3>3. task[h].cand \in Candidate /\ Justified(By(task[h].mode), task[h].cand)
      BY <3>2 DEF VerdictInv, TasksJustified, MoveTask
    <3>4. x.cand \in Candidate /\ Justified(x.by, x.cand)
      BY <3>1, <3>3
    <3>5. Justified(x.by, x.cand)'
      BY <3>4, JustifiedStays
    <3> QED
      BY <2>4, <3>2, <3>4, <3>5
  <2>6. ASSUME NEW v \in Candidate \cup Older,
               moves' = Append(moves, [by |-> "operator", cand |-> NoVersion, version |-> v])
        PROVE  MovesJustified'
    BY <2>4, <2>6
  <2> QED
    BY <2>3, <2>5, <2>6, PointerSteps
<1> QED
  BY <1>1, <1>3, <1>4 DEF VerdictInv

\* Rows, calls and moves that a verdict led to have the evidence for it.
THEOREM VerdictsHold == Spec => []VerdictInv
<1>1. Init => VerdictInv
  BY DEF Init, VerdictInv, RowsJustified, TasksJustified, MovesJustified
<1>2. Inv /\ EvidenceInv /\ VerdictInv /\ [Next]_vars => VerdictInv'
  BY VerdictStays
<1> QED
  BY <1>1, <1>2, InvariantHolds, EvidenceHolds, PTL DEF Spec

\* Every automatic promotion, also one made by another call than the one that decided
\* it or after a restart, rests on a canary decided at the calibrated horizon.
THEOREM PromotionsAreEarned == Spec => []PromotionWasEarned
<1>1. VerdictInv => PromotionWasEarned
  BY DEF VerdictInv, MovesJustified, Justified, Decided, Earned, CanaryOf, ControlOf,
         PromotionWasEarned
<1> QED
  BY <1>1, VerdictsHold, PTL

\* A promoted candidate is kept after the whole monitoring horizon and on evidence that
\* allows it, and undone only on evidence against it.
THEOREM EndsRestOnEvidence == Spec => []KeptOrUndoneOnEvidence
<1>1. VerdictInv => KeptOrUndoneOnEvidence
  <2> SUFFICES ASSUME VerdictInv PROVE KeptOrUndoneOnEvidence
    OBVIOUS
  <2>1. \A c \in Candidate : row[c] # NoRow /\ row[c].state = "retained" => Sustained(c)
    BY DEF VerdictInv, RowsJustified
  <2>2. \A i \in DOMAIN moves : moves[i].by = "rollback" => Harmful(moves[i].cand)
    BY DEF VerdictInv, MovesJustified, Justified, Condemned
  <2> QED
    BY <2>1, <2>2 DEF Sustained, Harmful, ControlOf, MonitorOf, KeptOrUndoneOnEvidence
<1> QED
  BY <1>1, VerdictsHold, PTL

-----------------------------------------------------------------------------
(* The pointer is where rows and calls think it is *)

\* Rows keep their baseline.
LEMMA BaseStays ==
    ASSUME Inv, EvidenceInv, [Next]_vars, NEW c \in Candidate, row[c] # NoRow
    PROVE  row'[c] # NoRow /\ row'[c].base = row[c].base
<1>1. row'[c] # NoRow
  BY Inductive DEF Kept, RowsKeep
<1>2. CASE RowMoves(c)
  BY <1>1, <1>2 DEF RowMoves, Admitted
<1>3. ASSUME NEW h \in Hook, NEW r \in Report, RecordOutcome(h, r)
      PROVE  row'[c].base = row[c].base
  BY <1>3, Recording DEF Records
<1> QED
  BY <1>1, <1>2, <1>3, RowSteps DEF EvidenceInv

\* The versions in force at earlier revisions do not change.
LEMMA HistoryStays ==
    ASSUME Inv, [Next]_vars
    PROVE  /\ Revision \in Nat /\ Revision' \in Nat /\ Revision <= Revision'
           /\ \A k \in 0 .. Revision : VersionAt(k)' = VersionAt(k)
           /\ \A i \in DOMAIN moves' : \/ i \in DOMAIN moves /\ moves'[i] = moves[i]
                                      \/ i > Revision
<1>1. moves \in Seq(Move)
  BY DEF Inv, TypeOK
<1>2. CASE moves' = moves
  BY <1>1, <1>2 DEF Revision, VersionAt
<1>3. ASSUME NEW x, moves' = Append(moves, x)
      PROVE  /\ Revision \in Nat /\ Revision' \in Nat /\ Revision <= Revision'
             /\ \A k \in 0 .. Revision : VersionAt(k)' = VersionAt(k)
             /\ \A i \in DOMAIN moves' : \/ i \in DOMAIN moves /\ moves'[i] = moves[i]
                                        \/ i > Revision
  <2>1. Len(moves) \in Nat /\ Len(moves') = Len(moves) + 1
    BY <1>1, <1>3
  <2>2. \A k \in 1 .. Len(moves) : moves'[k] = moves[k]
    BY <1>1, <1>3
  <2>3. DOMAIN moves = 1 .. Len(moves) /\ DOMAIN moves' = 1 .. Len(moves')
    BY <1>1, <1>3
  <2> QED
    BY <2>1, <2>2, <2>3 DEF Revision, VersionAt
<1> QED
  BY <1>2, <1>3, PointerSteps DEF Swaps

\* Where a trial found the pointer, and where its promotion left it, stays there.
LEMMA PlacesStay ==
    ASSUME Inv, EvidenceInv, [Next]_vars, NEW c \in Candidate, row[c] # NoRow, NEW n
    PROVE  /\ AtBaseline(c, n) => AtBaseline(c, n)'
           /\ Installed(c, n) => Installed(c, n)'
           /\ \A by : n \in 0 .. Revision /\ NotYet(by, c, n) => NotYet(by, c, n)'
           /\ \A mode : StartsAt(mode, c, n) => StartsAt(mode, c, n)'
<1>1. row'[c].base = row[c].base
  BY BaseStays
<1>2. /\ Revision \in Nat /\ Revision' \in Nat /\ Revision <= Revision'
      /\ \A k \in 0 .. Revision : VersionAt(k)' = VersionAt(k)
      /\ \A i \in DOMAIN moves' : \/ i \in DOMAIN moves /\ moves'[i] = moves[i]
                                 \/ i > Revision
  BY HistoryStays
<1>3. AtBaseline(c, n) => AtBaseline(c, n)'
  BY <1>1, <1>2 DEF AtBaseline
<1>4. Installed(c, n) => Installed(c, n)'
  <2> SUFFICES ASSUME Installed(c, n) PROVE Installed(c, n)'
    OBVIOUS
  <2>1. n \in 0 .. Revision /\ n - 1 \in 0 .. Revision /\ n \in 1 .. Revision'
    BY <1>2 DEF Installed
  <2>2. VersionAt(n)' = VersionAt(n) /\ VersionAt(n - 1)' = VersionAt(n - 1)
    BY <1>2, <2>1
  <2> QED
    BY <1>1, <2>1, <2>2 DEF Installed
<1>5. ASSUME NEW by, n \in 0 .. Revision, NotYet(by, c, n) PROVE NotYet(by, c, n)'
  <2> SUFFICES ASSUME NEW i \in DOMAIN moves', moves'[i].by = by, moves'[i].cand = c
               PROVE  i > n
    BY DEF NotYet
  <2>1. CASE i \in DOMAIN moves /\ moves'[i] = moves[i]
    BY <1>5, <2>1 DEF NotYet
  <2>2. CASE i > Revision
    <3>1. i \in Int
      <4>1. moves' \in Seq(Move)
        BY Inductive DEF Kept, Inv, TypeOK
      <4> QED
        BY <4>1
    <3> QED
      BY <1>2, <1>5, <2>2, <3>1
  <2> QED
    BY <1>2, <2>1, <2>2
<1>6. ASSUME NEW mode, StartsAt(mode, c, n) PROVE StartsAt(mode, c, n)'
  <2>1. n \in 0 .. Revision
    BY <1>2, <1>6 DEF StartsAt, AtBaseline, Installed
  <2>2. NotYet(By(mode), c, n)'
    BY <1>5, <1>6, <2>1 DEF StartsAt
  <2> QED
    BY <1>3, <1>4, <1>6, <2>2 DEF StartsAt
<1> QED
  BY <1>3, <1>4, <1>5, <1>6

\* A row knows where the pointer was left for it, whatever step comes.
LEMMA RowPlacedStays ==
    ASSUME Inv, EvidenceInv, VerdictInv, PlaceInv, [Next]_vars, NEW c \in Candidate,
           row'[c] # NoRow, NEW n, n = row'[c].expected
    PROVE  RowPlaced(c, n)'
<1>1. row[c] # NoRow => RowPlaced(c, row[c].expected)
  BY DEF PlaceInv, RowsPlaced
<1>2. ASSUME row[c] # NoRow
      PROVE  /\ Installed(c, n) => Installed(c, n)'
             /\ \A mode : StartsAt(mode, c, n) => StartsAt(mode, c, n)'
  BY <1>2, PlacesStay
<1>3. CASE row'[c] = row[c]
  <2>1. row[c] # NoRow /\ n = row[c].expected
    BY <1>3
  <2>2. RowPlaced(c, n)
    BY <1>1, <2>1
  <2>3. row[c].state = "rolled_back" /\ MonitorOf(c) = {} => MonitorOf(c)' = {}
    BY <2>1, PhasesEnd
  <2> QED
    BY <1>2, <1>3, <2>1, <2>2, <2>3 DEF RowPlaced
<1>4. CASE Admitted(c)
  <2>1. /\ row[c] = NoRow /\ Active # c /\ UNCHANGED moves
        /\ row'[c].state = "canary" /\ row'[c].base = Active /\ n = Revision
    BY <1>4 DEF Admitted
  <2>2. Revision \in Nat /\ Revision' = Revision /\ VersionAt(Revision)' = Active
    BY <2>1, HistoryStays DEF Active, VersionAt, Revision
  <2>3. AtBaseline(c, n)'
    BY <2>1, <2>2 DEF AtBaseline
  <2>4. NotYet("promotion", c, n)'
    <3>1. \A i \in DOMAIN moves : ~(moves[i].by = "promotion" /\ moves[i].cand = c)
      BY <2>1 DEF VerdictInv, MovesJustified, Justified, Decided
    <3> QED
      BY <2>1, <3>1 DEF NotYet
  <2> QED
    BY <2>1, <2>3, <2>4 DEF RowPlaced, StartsAt, By
<1>5. CASE row[c] # NoRow /\ (Ended(c) \/ Observed(c))
  <2>1. CASE Ended(c)
    <3>1. \/ row'[c].state \in {"rejected", "recovery_required"}
          \/ /\ row[c].state = "rolling_back" /\ row'[c].state = "rolled_back"
             /\ n = row[c].expected
      BY <2>1 DEF Ended
    <3>2. row[c].state = "rolling_back" /\ n = row[c].expected => Installed(c, n)
      BY <1>1, <1>5 DEF RowPlaced, StartsAt
    <3> QED
      BY <1>2, <1>5, <3>1, <3>2 DEF RowPlaced
  <2>2. CASE Observed(c)
    <3>1. PICK h \in Hook : /\ task[h] # Idle /\ task[h].pc = "settle" /\ task[h].applied
                            /\ task[h].cand = c /\ n = task[h].revision
      BY <2>2 DEF Observed
    <3>2. Installed(c, n)
      BY <3>1 DEF PlaceInv, TasksPlaced, Placed
    <3>3. row'[c].state = "monitoring"
      BY <2>2 DEF Observed
    <3> QED
      BY <1>2, <1>5, <3>2, <3>3 DEF RowPlaced
  <2> QED
    BY <1>5, <2>1, <2>2
<1>6. ASSUME NEW h \in Hook, NEW r \in Report, RecordOutcome(h, r) PROVE RowPlaced(c, n)'
  <2>1. PICK m, s : Records(h, r, m, s)
    BY <1>6, Recording
  <2>2. CASE c # s.cand
    <3>1. row'[c] = row[c]
      BY <2>1, <2>2 DEF Records
    <3> QED
      BY <1>3, <3>1
  <2>3. CASE c = s.cand
    <3>1. /\ row[c] # NoRow /\ row[c].state = s.state /\ n = row[c].expected
          /\ RowPlaced(c, n) /\ row'[c].count = row'[s.cand].count
      BY <1>1, <2>1, <2>3 DEF Records
    <3>2. PICK k \in Counts, hard \in Nat :
             /\ k = row'[c].count /\ s.state \in {"canary", "monitoring"}
             /\ s.state = "canary" => row'[c].state \in CanaryVerdict(k, hard) /\ k.monitor = 0
             /\ s.state = "monitoring" => row'[c].state \in MonitorVerdict(k, hard)
      BY <2>1, <2>3, RecordedVerdict
    <3>3. CASE s.state = "canary"
      <4>1. row'[c].state \in {"rejected", "canary", "rolled_back", "promoting"}
        BY <3>2, <3>3, VerdictOfCanary
      <4>2. StartsAt("promoting", c, n)'
        BY <1>2, <3>1, <3>3 DEF RowPlaced
      <4>3. MonitorOf(c)' = {}
        <5>1. Tallied(s.cand)' /\ Begun' /\ EvidenceInv
          BY <2>1, TallyGrows, EvidenceStays DEF EvidenceInv
        <5>2. Cardinality(MonitorOf(c))' = 0
          BY <2>3, <3>2, <3>3, <5>1 DEF Tallied
        <5>3. IsFiniteSet(MonitorOf(c)')
          <6>1. MonitorOf(c)' \subseteq outcomes'
            BY DEF MonitorOf, Evidence
          <6> QED
            BY <5>1, <6>1, FS_Subset DEF Begun
        <5> QED
          BY <5>2, <5>3, FS_EmptySet
      <4> QED
        BY <4>1, <4>2, <4>3 DEF RowPlaced
    <3>4. CASE s.state = "monitoring"
      <4>1. row'[c].state \in {"recovery_required", "rolling_back", "monitoring", "retained"}
        BY <3>2, <3>4, VerdictOfMonitor
      <4>2. Installed(c, n) /\ Installed(c, n)'
        BY <1>2, <3>1, <3>4 DEF RowPlaced
      <4>3. NotYet("rollback", c, n)
        BY <3>1, <3>4 DEF VerdictInv, MovesJustified, Justified, Condemned, NotYet
      <4>4. StartsAt("rolling_back", c, n)
        BY <4>2, <4>3 DEF StartsAt, By
      <4>5. StartsAt("rolling_back", c, n)'
        BY <1>2, <3>1, <4>4
      <4> QED
        BY <4>1, <4>2, <4>5 DEF RowPlaced
    <3> QED
      BY <3>2, <3>3, <3>4
  <2> QED
    BY <2>2, <2>3
<1>7. CASE RowMoves(c)
  BY <1>3, <1>4, <1>5, <1>7 DEF RowMoves
<1> QED
  BY <1>6, <1>7, RowSteps DEF EvidenceInv

\* The move that completes a promotion leaves the candidate in force.
LEMMA CompletedPlaced ==
    ASSUME Inv, EvidenceInv, PlaceInv, [Next]_vars, NEW t \in MoveTask, t.mode = "promoting",
           Placed(t), row[t.cand] # NoRow, UNCHANGED row,
           \/ t.pc \in {"revision", "recheck"} /\ Made(t)
           \/ Swaps(t)
    PROVE  Installed(t.cand, t.expected + 1)'
<1> DEFINE c == t.cand
           e == t.expected
<1>1. c \in Candidate /\ e \in Nat /\ Target(t) = c
  BY DEF MoveTask, Target
<1>2. e \in 0 .. Revision /\ VersionAt(e) = row[c].base /\ row[c].base # c
  BY DEF Placed, StartsAt, AtBaseline, MoveTask
<1>3. CASE t.pc \in {"revision", "recheck"} /\ Made(t)
  <2>1. PICK k \in e .. Revision : t.version = VersionAt(k)
    BY <1>3 DEF Placed
  <2>2. VersionAt(k) = c /\ Revision = e + 1
    BY <1>1, <1>3, <2>1 DEF Made
  <2>3. k = e + 1
    <3>1. k # e
      BY <1>2, <2>2
    <3> QED
      BY <1>1, <2>1, <2>2, <3>1
  <2>4. Installed(c, e + 1)
    <3>1. e + 1 \in 1 .. Revision /\ (e + 1) - 1 = e
      BY <1>1, <2>2
    <3> QED
      BY <1>2, <2>2, <2>3, <3>1 DEF Installed
  <2> QED
    BY <1>1, <2>4, PlacesStay
<1>4. CASE Swaps(t)
  <2>1. Revision = e /\ moves \in Seq(Move)
        /\ moves' = Append(moves, [by |-> By(t.mode), cand |-> c, version |-> c])
    BY <1>1, <1>4 DEF Swaps, Inv, TypeOK
  <2>2. PICK x : x = [by |-> By(t.mode), cand |-> c, version |-> c]
    OBVIOUS
  <2>3. Len(moves') = e + 1 /\ moves'[e + 1] = x /\ x.version = c
    BY <2>1, <2>2 DEF Revision
  <2>4. Revision' = e + 1 /\ VersionAt(e + 1)' = c
    BY <1>1, <2>3 DEF Revision, VersionAt
  <2>5. VersionAt(e)' = VersionAt(e)
    BY <1>2, HistoryStays
  <2>6. e + 1 \in 1 .. Revision' /\ (e + 1) - 1 = e
    BY <1>1, <2>4
  <2>7. row'[c].base = VersionAt(e)' /\ VersionAt((e + 1) - 1)' = VersionAt(e)'
    BY <1>2, <2>5, <2>6
  <2> QED
    BY <2>4, <2>6, <2>7 DEF Installed
<1> QED
  BY <1>3, <1>4

\* Rows and calls know where the pointer is, or was left for them.
LEMMA PlaceStays ==
    ASSUME Inv, EvidenceInv, VerdictInv, PlaceInv, [Next]_vars
    PROVE  PlaceInv'
<1>1. RowsPlaced'
  BY RowPlacedStays DEF RowsPlaced
<1>2. ASSUME NEW g \in Hook, NEW u, u = task'[g], u # Idle PROVE Placed(u)'
  <2> DEFINE t == task[g]
  <2>1. ASSUME t # Idle PROVE Placed(t)
    BY <2>1 DEF PlaceInv, TasksPlaced
  <2>2. ASSUME t # Idle, t.pc \in MovePc \cup {"resume", "settle"}
        PROVE  t.cand \in Candidate /\ row[t.cand] # NoRow
    BY <2>2, TaskKinds DEF Inv, TypeOK, TasksFit, Fits, MoveTask, ResumeTask, SettleTask
  <2>3. /\ Revision \in Nat /\ Revision' \in Nat /\ Revision <= Revision'
        /\ \A k \in 0 .. Revision : VersionAt(k)' = VersionAt(k)
    BY HistoryStays
  <2>4. CASE u = t
    <3>1. Placed(u) /\ u # Idle
      BY <1>2, <2>1, <2>4
    <3>2. u.pc \in MovePc \cup {"resume"} => StartsAt(u.mode, u.cand, u.expected)'
      BY <2>2, <2>4, <3>1, PlacesStay DEF Placed
    <3>3. ASSUME u.pc \in {"revision", "recheck"}
          PROVE  \E k \in u.expected .. Revision' : u.version = VersionAt(k)'
      <4>1. PICK k \in u.expected .. Revision : u.version = VersionAt(k)
        BY <3>1, <3>3 DEF Placed
      <4>2. u.expected \in 0 .. Revision
        BY <2>3, <3>1, <3>3 DEF Placed, StartsAt, AtBaseline, Installed, MovePc
      <4>3. k \in 0 .. Revision /\ k \in u.expected .. Revision'
        BY <2>3, <4>2
      <4>4. VersionAt(k)' = VersionAt(k)
        BY <2>3, <4>3
      <4> QED
        BY <4>1, <4>3, <4>4
    <3>4. u.pc = "settle" /\ u.applied => Installed(u.cand, u.revision)'
      BY <2>2, <2>4, <3>1, PlacesStay DEF Placed
    <3> QED
      BY <3>2, <3>3, <3>4 DEF Placed
  <2>5. CASE Follows(t, u) /\ UNCHANGED <<row, outcomes>>
    <3>1. CASE u.pc \in {"consider", "expire", "select", "record", "write"}
      BY <3>1 DEF Placed, MovePc
    <3>2. CASE u.pc = "settle" /\ ~u.applied
      BY <3>2 DEF Placed, MovePc
    <3>3. CASE /\ u.pc = "resume" /\ u.cand \in Candidate /\ row[u.cand] # NoRow
               /\ u.mode = row[u.cand].state /\ u.mode \in Mode /\ u.expected = row[u.cand].expected
      <4>1. StartsAt(u.mode, u.cand, u.expected)
        BY <3>3 DEF PlaceInv, RowsPlaced, RowPlaced, Mode
      <4>2. StartsAt(u.mode, u.cand, u.expected)'
        BY <3>3, <4>1, PlacesStay
      <4> QED
        BY <3>3, <4>2 DEF Placed, MovePc
    <3>4. CASE Continues(t, u) /\ UNCHANGED moves
      <4>1. /\ t # Idle /\ t.pc \in MovePc \cup {"resume"} /\ u.pc \in MovePc
            /\ u.cand = t.cand /\ u.mode = t.mode /\ u.expected = t.expected
            /\ u.pc \in {"revision", "recheck"} => u.version = Active
        BY <3>4 DEF Continues
      <4>2. StartsAt(u.mode, u.cand, u.expected)
        BY <2>1, <4>1 DEF Placed
      <4>3. u.cand \in Candidate /\ row[u.cand] # NoRow
        BY <2>2, <4>1
      <4>4. StartsAt(u.mode, u.cand, u.expected)'
        BY <4>2, <4>3, PlacesStay
      <4>5. u.expected \in 0 .. Revision
        BY <2>3, <4>2 DEF StartsAt, AtBaseline, Installed
      <4>6. Revision' = Revision /\ VersionAt(Revision)' = Active
        BY <2>3, <3>4 DEF Active, Revision
      <4>7. u.pc \in {"revision", "recheck"} => \E k \in u.expected .. Revision' : u.version = VersionAt(k)'
        <5>1. Revision \in u.expected .. Revision'
          BY <2>3, <4>5, <4>6
        <5> QED
          BY <4>1, <4>6, <5>1
      <4> QED
        BY <4>1, <4>4, <4>7 DEF Placed, MovePc
    <3>5. CASE Completes(t, u)
      <4>1. /\ t # Idle /\ t \in MoveTask /\ t.mode = "promoting"
            /\ u.pc = "settle" /\ u.cand = t.cand /\ u.revision = t.expected + 1
            /\ (t.pc \in {"revision", "recheck"} /\ Made(t)) \/ Swaps(t)
        BY <3>5 DEF Completes
      <4>2. Placed(t) /\ row[t.cand] # NoRow
        BY <2>1, <2>2, <4>1 DEF MoveTask
      <4>3. PICK w : w = t
        OBVIOUS
      <4>4. /\ w \in MoveTask /\ w.mode = "promoting" /\ Placed(w) /\ row[w.cand] # NoRow
            /\ (w.pc \in {"revision", "recheck"} /\ Made(w)) \/ Swaps(w)
            /\ u.pc = "settle" /\ u.cand = w.cand /\ u.revision = w.expected + 1
        <5> HIDE DEF t
        <5> QED
          BY <4>1, <4>2, <4>3
      <4>5. Installed(w.cand, w.expected + 1)'
        BY <2>5, <4>4, CompletedPlaced
      <4>6. Installed(u.cand, u.revision)'
        BY <4>4, <4>5
      <4> QED
        BY <4>4, <4>6 DEF Placed, MovePc
    <3> QED
      BY <2>5, <3>1, <3>2, <3>3, <3>4, <3>5 DEF Follows
  <2>6. ASSUME NEW r \in Report, RecordOutcome(g, r) PROVE Placed(u)'
    <3>1. PICK m, s : Records(g, r, m, s)
      BY <2>6, Recording
    <3>2. u = ToMove(s.cand, row'[s.cand].state, task[g].policy, row[s.cand].expected)
          /\ row'[s.cand].state \in {"promoting", "rolling_back"}
      BY <1>2, <3>1 DEF Records, Inv, TypeOK
    <3>3. /\ u.pc = "version" /\ u.cand = s.cand /\ u.mode = row'[s.cand].state
          /\ u.expected = row'[s.cand].expected /\ s.cand \in Candidate /\ row'[s.cand] # NoRow
      BY <3>1, <3>2 DEF ToMove, Records
    <3>4. RowPlaced(u.cand, u.expected)'
      BY <3>3, RowPlacedStays
    <3>5. StartsAt(u.mode, u.cand, u.expected)'
      BY <3>2, <3>3, <3>4 DEF RowPlaced
    <3> QED
      BY <3>3, <3>5 DEF Placed, MovePc
  <2>7. Goes(g)
    BY TaskSteps
  <2> QED
    BY <1>2, <2>4, <2>5, <2>6, <2>7 DEF Goes
<1> QED
  BY <1>1, <1>2 DEF PlaceInv, TasksPlaced

\* Rows and calls know where the pointer is, or was left for them, in every state.
THEOREM PlacesHold == Spec => []PlaceInv
<1>1. Init => PlaceInv
  BY DEF Init, PlaceInv, RowsPlaced, TasksPlaced
<1>2. Inv /\ EvidenceInv /\ VerdictInv /\ PlaceInv /\ [Next]_vars => PlaceInv'
  BY PlaceStays
<1> QED
  BY <1>1, <1>2, InvariantHolds, EvidenceHolds, VerdictsHold, PTL DEF Spec

\* What is monitored, kept, being undone or undone was put in force at the revision its
\* row names, whoever completed the promotion and whatever was cut off.
THEOREM ObservedIsInForce == Spec => []MonitoredWasInstalled
<1>1. PlaceInv => MonitoredWasInstalled
  <2> SUFFICES ASSUME PlaceInv, NEW c \in Candidate, row[c] # NoRow,
                      row[c].state \in {"monitoring", "rolling_back", "retained", "rolled_back"}
               PROVE  \/ VersionAt(row[c].expected) = c
                      \/ row[c].state = "rolled_back" /\ MonitorOf(c) = {}
    BY DEF MonitoredWasInstalled, MonitorOf
  <2>1. RowPlaced(c, row[c].expected)
    BY DEF PlaceInv, RowsPlaced
  <2>2. \/ Installed(c, row[c].expected)
        \/ row[c].state = "rolled_back" /\ MonitorOf(c) = {}
    BY <2>1 DEF RowPlaced, StartsAt
  <2> QED
    BY <2>2 DEF Installed
<1> QED
  BY <1>1, PlacesHold, PTL

-----------------------------------------------------------------------------
(* The pointer moves as GuidancePointer says *)

\* The trial a row stands for.
TriedAgainst == [c \in Candidate |-> IF row[c] = NoRow THEN NoRow ELSE row[c].base]

\* A step that moves no pointer begins at most one trial.
LEMMA TrialStep ==
    ASSUME Inv, EvidenceInv, [Next]_vars, UNCHANGED moves
    PROVE  \/ UNCHANGED TriedAgainst
           \/ \E c \in Candidate : Pointer!Try(c)
<1>1. \A c \in Candidate : row[c] # NoRow => row'[c] # NoRow /\ row'[c].base = row[c].base
  BY BaseStays
<1>2. CASE \A c \in Candidate : row[c] = NoRow => row'[c] = NoRow
  BY <1>1, <1>2 DEF TriedAgainst
<1>3. ASSUME NEW c \in Candidate, row[c] = NoRow, row'[c] # NoRow
      PROVE  Pointer!Try(c)
  <2>1. \A d \in Candidate \ {c} : row[d] = NoRow => row'[d] = NoRow
    BY <1>3, Inductive DEF Kept, RowsKeep
  <2>2. ASSUME NEW h \in Hook, NEW r \in Report, RecordOutcome(h, r) PROVE FALSE
    <3>1. PICK m, s : Records(h, r, m, s)
      BY <2>2, Recording
    <3> QED
      BY <1>3, <3>1 DEF Records
  <2>3. RowMoves(c)
    BY <2>2, RowSteps DEF EvidenceInv
  <2>4. row'[c].base = Active
    BY <1>3, <2>3 DEF RowMoves, Admitted
  <2>5. \A d \in Candidate \ {c} : TriedAgainst'[d] = TriedAgainst[d]
    BY <1>1, <2>1 DEF TriedAgainst
  <2>6. TriedAgainst[c] = NoRow /\ TriedAgainst'[c] = Active
    BY <1>3, <2>4 DEF TriedAgainst
  <2>7. TriedAgainst' = [TriedAgainst EXCEPT ![c] = Active]
    BY <2>5, <2>6 DEF TriedAgainst
  <2>8. Active = Pointer!Current
    BY DEF Active, Revision, VersionAt, Pointer!Current, Pointer!InForce
  <2> QED
    BY <2>6, <2>7, <2>8 DEF Pointer!Try, TriedAgainst
<1> QED
  BY <1>2, <1>3

\* A pointer move of a hook is a promotion, or the undoing of one.
LEMMA SwapStep ==
    ASSUME Inv, PlaceInv, NEW h \in Hook, Swaps(task[h]), UNCHANGED row
    PROVE  \E c \in Candidate : Pointer!Promote(c) \/ Pointer!Undo(c)
<1> DEFINE t == task[h]
           c == t.cand
<1>1. /\ t # Idle /\ t \in MoveTask /\ t.pc = "swap" /\ Revision = t.expected
      /\ moves' = Append(moves, [by |-> By(t.mode), cand |-> c, version |-> Target(t)])
  BY DEF Swaps
<1>2. c \in Candidate /\ t.mode \in Mode /\ row[c] # NoRow /\ moves \in Seq(Move)
  BY <1>1, TaskKinds DEF MoveTask, Inv, TypeOK, TasksFit, Fits
<1>3. StartsAt(t.mode, c, Revision)
  BY <1>1 DEF PlaceInv, TasksPlaced, Placed, MovePc
<1>4. TriedAgainst[c] = row[c].base /\ UNCHANGED TriedAgainst
  BY <1>2 DEF TriedAgainst
<1>5. ~Pointer!Done(By(t.mode), c)
  <2>1. \A i \in DOMAIN moves : i <= Revision
    BY <1>2 DEF Revision
  <2>2. \A i \in DOMAIN moves : moves[i].by = By(t.mode) /\ moves[i].cand = c => i > Revision
    BY <1>3 DEF StartsAt, NotYet
  <2>3. \A i \in DOMAIN moves : i \in Int
    BY <1>2
  <2>4. Revision \in Int
    BY <1>2 DEF Revision
  <2> QED
    BY <2>1, <2>2, <2>3, <2>4 DEF Pointer!Done
<1>6. Pointer!Current = VersionAt(Revision) /\ Pointer!InForce(Len(moves) - 1) = VersionAt(Revision - 1)
  BY DEF Revision, VersionAt, Pointer!Current, Pointer!InForce
<1>7. CASE t.mode = "promoting"
  <2>1. By(t.mode) = "promotion" /\ Target(t) = c
    BY <1>7 DEF By, Target
  <2>2. Pointer!Moved("promotion", c, c)
    BY <1>1, <2>1 DEF Pointer!Moved
  <2>3. row[c].base = VersionAt(Revision)
    BY <1>3, <1>7 DEF StartsAt, AtBaseline
  <2>4. Pointer!Promote(c)
    BY <1>4, <1>5, <1>6, <2>1, <2>2, <2>3 DEF Pointer!Promote, TriedAgainst
  <2> QED
    BY <1>2, <2>4
<1>8. CASE t.mode = "rolling_back"
  <2>1. By(t.mode) = "rollback" /\ Target(t) = row[c].base
    BY <1>8 DEF By, Target
  <2>2. Pointer!Moved("rollback", c, TriedAgainst[c])
    BY <1>1, <1>4, <2>1 DEF Pointer!Moved
  <2>3. Revision \in 1 .. Revision /\ VersionAt(Revision) = c /\ VersionAt(Revision - 1) = row[c].base
    BY <1>3, <1>8 DEF StartsAt, Installed
  <2>4. moves # <<>>
    BY <1>2, <2>3 DEF Revision
  <2>5. Pointer!Undo(c)
    BY <1>4, <1>5, <1>6, <2>1, <2>2, <2>3, <2>4 DEF Pointer!Undo, TriedAgainst
  <2> QED
    BY <1>2, <2>5
<1> QED
  BY <1>2, <1>7, <1>8 DEF Mode

\* A step of the runner, of a call, of an operator or of authority is a step of the
\* pointer or leaves it and the trials alone.
LEMMA PointerStep ==
    ASSUME Inv, EvidenceInv, PlaceInv, [Next]_vars
    PROVE  [Pointer!Next]_Pointer!vars
<1>1. CASE UNCHANGED moves
  BY <1>1, TrialStep DEF TriedAgainst, Pointer!Next, Pointer!vars
<1>2. ASSUME NEW v \in Candidate \cup Older, UNCHANGED row,
             moves' = Append(moves, [by |-> "operator", cand |-> NoVersion, version |-> v])
      PROVE  Pointer!Choose(v)
  BY <1>2 DEF Pointer!Choose, Pointer!Moved
<1>3. ASSUME NEW h \in Hook, UNCHANGED row, Swaps(task[h])
      PROVE  \E c \in Candidate : Pointer!Promote(c) \/ Pointer!Undo(c)
  BY <1>3, SwapStep
<1> QED
  BY <1>1, <1>2, <1>3, PointerSteps DEF Pointer!Next

\* The whole runner, with its calls, crashes, operators and changing authority, moves the
\* guidance pointer only as the abstract specification of it says.
THEOREM PointerIsKept == Spec => ImplementsGuidancePointer
<1>1. Init => Pointer!Init
  <2> SUFFICES ASSUME Init PROVE Pointer!Init
    OBVIOUS
  <2>1. moves = <<>> /\ \A c \in Candidate : row[c] = NoRow
    BY DEF Init
  <2> QED
    BY <2>1 DEF Pointer!Init
<1>2. Inv /\ EvidenceInv /\ PlaceInv /\ [Next]_vars => [Pointer!Next]_Pointer!vars
  BY PointerStep
<1> QED
  BY <1>1, <1>2, InvariantHolds, EvidenceHolds, PlacesHold, PTL
     DEF Spec, ImplementsGuidancePointer, Pointer!Spec

-----------------------------------------------------------------------------
(* The queue: OptimizationQueue, its inductive invariant QueueInv, and its theorems *)

JobStatus == {"none"} \cup Unfinished \cup Terminal
RunRef    == [key : Key, nth : Nat, config : Config \cup {None}]
JobRow    == [status : JobStatus, attempts : Nat, config : Config \cup {None},
              result : RunRef \cup {None}, created : Nat]
LeaseRow  == [owner : {Owner[p] : p \in Process} \cup {None}, token : Nat, expires : Nat]
Busy      == {"running", "beating", "cancelled", "lost", "settling", "failing"}
WorkerAt  == {"off", "idle", "claiming", "reporting"} \cup Busy
Hand      == [at : WorkerAt, key : Key \cup {None},
              token : Nat, run : RunRef \cup {None}, outcome : RunOutcome \cup {None},
              say : JobStatus \cup {None}]

QueueTypes ==
    /\ now \in Nat
    /\ job \in [Key -> JobRow] /\ lease \in [Key -> LeaseRow]
    /\ fence \in [Key -> Nat] /\ runs \in [Key -> Nat]
    /\ proc \in [Process -> Hand]

\* A lease is of a running job, under its last token, and a token is the number of a run.
Leased(k) ==
    /\ lease[k] # NoLease => job[k].status = "running" /\ lease[k].token = fence[k]
    /\ fence[k] = runs[k]

\* A process at work knows the run that it claimed; what it is to say is a status.
Engaged(p) ==
    proc[p].at \in Busy =>
        /\ proc[p].key \in Key /\ proc[p].run \in RunRef
        /\ proc[p].run.key = proc[p].key /\ proc[p].run.nth = proc[p].token
        /\ proc[p].at \in {"settling", "failing"} => proc[p].say \in JobStatus

QueueInv == QueueTypes /\ (\A k \in Key : Leased(k)) /\ \A p \in Process : Engaged(p)

\* What a change of some fields of a process leaves.
LEMMA HandMoves ==
    ASSUME NEW h \in Hand, NEW at \in WorkerAt
    PROVE  LET n == [h EXCEPT !.at = at] IN
           /\ n \in Hand /\ n.at = at /\ n.key = h.key /\ n.run = h.run /\ n.token = h.token
           /\ n.say = h.say
BY DEF Hand, WorkerAt

LEMMA HandLearns ==
    ASSUME NEW h \in Hand, NEW o \in RunOutcome
    PROVE  LET n == [h EXCEPT !.outcome = o] IN
           /\ n \in Hand /\ n.at = h.at /\ n.key = h.key /\ n.run = h.run /\ n.token = h.token
           /\ n.say = h.say
BY DEF Hand

Ending(h, at, s)   == [h EXCEPT !.at = at, !.say = s]
Claiming(h, k, t, r) == [h EXCEPT !.at = "running", !.key = k, !.token = t, !.run = r]

LEMMA HandEnds ==
    ASSUME NEW h \in Hand, NEW at \in WorkerAt, NEW s \in JobStatus \cup {None}
    PROVE  LET n == Ending(h, at, s) IN
           /\ n \in Hand /\ n.at = at /\ n.key = h.key /\ n.run = h.run /\ n.token = h.token
           /\ n.say = s
BY DEF Hand, WorkerAt, Ending

LEMMA HandClaims ==
    ASSUME NEW h \in Hand, NEW k \in Key, NEW t \in Nat, NEW r \in RunRef
    PROVE  LET n == Claiming(h, k, t, r) IN
           /\ n \in Hand /\ n.at = "running" /\ n.key = k /\ n.run = r /\ n.token = t
BY DEF Hand, WorkerAt, Busy, Claiming

\* What a step does to the processes: one of them changes, and keeps what it knows.
Turns(p, h) ==
    /\ h \in Hand /\ proc' = [proc EXCEPT ![p] = h]
    /\ h.at \in Busy => /\ h.key \in Key /\ h.run \in RunRef
                        /\ h.run.key = h.key /\ h.run.nth = h.token
                        /\ h.at \in {"settling", "failing"} => h.say \in JobStatus

LEMMA TurnsKeep ==
    ASSUME QueueInv, NEW p \in Process, NEW h, Turns(p, h)
    PROVE  proc' \in [Process -> Hand] /\ \A q \in Process : Engaged(q)'
<1>1. proc \in [Process -> Hand] /\ \A q \in Process : Engaged(q)
  BY DEF QueueInv, QueueTypes
<1>2. proc' \in [Process -> Hand] /\ proc'[p] = h /\ \A q \in Process \ {p} : proc'[q] = proc[q]
  BY <1>1 DEF Turns
<1>3. Engaged(p)'
  BY <1>2 DEF Engaged, Turns
<1>4. \A q \in Process \ {p} : Engaged(q)'
  BY <1>1, <1>2 DEF Engaged
<1> QED
  BY <1>2, <1>3, <1>4

\* A process that is not at work.
LEMMA Rests ==
    ASSUME NEW p \in Process, NEW h \in Hand, h.at \notin Busy, proc' = [proc EXCEPT ![p] = h]
    PROVE  \E n : Turns(p, n)
BY DEF Turns

LEMMA WaitingIs ==
    /\ Off \in Hand /\ Off.at \notin Busy
    /\ Waiting \in Hand /\ Waiting.at \notin Busy
BY DEF Waiting, Off, Hand, WorkerAt, Busy

LEMMA HandsTurn ==
    ASSUME QueueInv, NEW p \in Process, Start(p) \/ Die(p) \/ Worker(p)
    PROVE  \E h : Turns(p, h)
<1> DEFINE l == proc[p]
<1>1. l \in Hand /\ Engaged(p) /\ job \in [Key -> JobRow]
  BY DEF QueueInv, QueueTypes
<1>2. l.outcome \in RunOutcome \cup {None} /\ l.say \in JobStatus \cup {None} /\ l.token \in Nat
  BY <1>1 DEF Hand
<1>3. l.at \in Busy => /\ l.key \in Key /\ l.run \in RunRef
                       /\ l.run.key = l.key /\ l.run.nth = l.token
                       /\ l.at \in {"settling", "failing"} => l.say \in JobStatus
  BY <1>1 DEF Engaged
<1>4. \A k \in Key : job[k].status \in JobStatus
  BY <1>1 DEF JobRow
\* A step that only moves on.
<1>5. ASSUME NEW at \in WorkerAt, Goto(p, at),
             at \in Busy => l.at \in Busy,
             at \notin {"settling", "failing"}
      PROVE  \E h : Turns(p, h)
  <2> DEFINE h == [l EXCEPT !.at = at]
  <2>1. /\ h \in Hand /\ h.at = at /\ h.key = l.key /\ h.run = l.run /\ h.token = l.token
    BY <1>1, HandMoves
  <2>2. proc' = [proc EXCEPT ![p] = h]
    BY <1>5 DEF Goto
  <2> HIDE DEF h
  <2>3. Turns(p, h)
    BY <1>3, <1>5, <2>1, <2>2 DEF Turns
  <2> QED
    BY <2>3
\* A step that moves on to the end of the job, with what is to be said.
<1>6. ASSUME NEW at \in {"settling", "failing"}, NEW s \in JobStatus, l.at \in Busy,
             proc' = [proc EXCEPT ![p].at = at, ![p].say = s]
      PROVE  \E h : Turns(p, h)
  <2> DEFINE h == Ending(l, at, s)
  <2>0. at \in WorkerAt
    BY DEF Busy, WorkerAt
  <2>1. /\ h \in Hand /\ h.key = l.key /\ h.run = l.run /\ h.token = l.token
        /\ h.say = s
    BY <1>1, <2>0, HandEnds
  <2>2. proc' = [proc EXCEPT ![p] = h]
    BY <1>6 DEF Ending
  <2> HIDE DEF h
  <2>3. Turns(p, h)
    BY <1>3, <1>6, <2>1, <2>2 DEF Turns
  <2> QED
    BY <2>3
<1>7. ASSUME NEW s \in JobStatus \cup {None}, Say(p, s) PROVE \E h : Turns(p, h)
  <2> DEFINE h == Ending(Waiting, "reporting", s)
  <2>1. "reporting" \in WorkerAt /\ "reporting" \notin Busy
    BY DEF WorkerAt, Busy
  <2>2. h \in Hand /\ h.at = "reporting"
    BY <2>1, WaitingIs, HandEnds
  <2>3. proc' = [proc EXCEPT ![p] = h]
    BY <1>7 DEF Say, Ending
  <2> HIDE DEF h
  <2> QED
    BY <2>1, <2>2, <2>3, Rests
<1>8. ASSUME proc' = [proc EXCEPT ![p] = Waiting] PROVE \E h : Turns(p, h)
  BY <1>8, WaitingIs, Rests
<1>9. CASE Start(p)
  BY <1>8, <1>9 DEF Start
<1>10. CASE Die(p)
  BY <1>10, WaitingIs, Rests DEF Die
<1>11. CASE Reclaim(p)
  BY <1>5, <1>11 DEF Reclaim, Busy, WorkerAt
<1>12. CASE ClaimNothing(p)
  BY <1>5, <1>12 DEF ClaimNothing, Busy, WorkerAt
<1>13. ASSUME NEW k \in Key, Claim(p, k) PROVE \E h : Turns(p, h)
  <2>1. CASE Spent(k)
    <3>1. Goto(p, "idle")
      BY <1>13, <2>1 DEF Claim
    <3> QED
      BY <1>5, <3>1 DEF Busy, WorkerAt
  <2>2. CASE ~Spent(k)
    <3> DEFINE r == [key |-> k, nth |-> runs[k] + 1, config |-> job[k].config]
               h == Claiming(Waiting, k, NextToken(k), r)
    <3>1. proc' = [proc EXCEPT ![p] = h]
      BY <1>13, <2>2 DEF Claim, Claiming
    <3>2. NextToken(k) \in Nat /\ NextToken(k) = runs[k] + 1
      BY DEF QueueInv, QueueTypes, Leased, NextToken
    <3>3. r \in RunRef /\ r.key = k /\ r.nth = NextToken(k)
      BY <1>1, <3>2 DEF RunRef, JobRow
    <3> HIDE DEF r
    <3>4. h \in Hand /\ h.at = "running" /\ h.key = k /\ h.run = r /\ h.token = NextToken(k)
      BY <3>2, <3>3, WaitingIs, HandClaims
    <3> HIDE DEF h
    <3>5. Turns(p, h)
      BY <3>1, <3>3, <3>4 DEF Turns
    <3> QED
      BY <3>5
  <2> QED
    BY <2>1, <2>2
<1>14. ASSUME NEW o \in RunOutcome, Optimize(p, o) PROVE \E h : Turns(p, h)
  <2> DEFINE h == [l EXCEPT !.outcome = o]
  <2>1. /\ h \in Hand /\ h.at = l.at /\ h.key = l.key /\ h.run = l.run /\ h.token = l.token
        /\ h.say = l.say
    BY <1>1, HandLearns
  <2>2. proc' = [proc EXCEPT ![p] = h]
    BY <1>14 DEF Optimize
  <2> HIDE DEF h
  <2>3. Turns(p, h)
    BY <1>3, <2>1, <2>2 DEF Turns
  <2> QED
    BY <2>3
<1>15. CASE LookForCancellation(p)
  <2>1. l.at \in Busy /\ (Goto(p, "cancelled") \/ Goto(p, "beating"))
    BY <1>15 DEF LookForCancellation, Busy
  <2> QED
    BY <1>5, <2>1 DEF Busy, WorkerAt
<1>16. CASE Beat(p)
  <2>1. l.at \in Busy /\ (Goto(p, "running") \/ Goto(p, "lost"))
    BY <1>16 DEF Beat, Busy
  <2> QED
    BY <1>5, <2>1 DEF Busy, WorkerAt
<1>17. CASE Leave(p)
  <2>1. l.at \in Busy
    BY <1>17 DEF Leave, Busy
  <2>2. job[l.key].status \in JobStatus
    BY <1>3, <1>4, <2>1
  <2>3. Say(p, job[l.key].status) \/ proc' = [proc EXCEPT ![p] = Waiting]
    BY <1>17 DEF Leave
  <2> QED
    BY <1>7, <1>8, <2>2, <2>3
<1>18. CASE Stage(p)
  <2>1. l.at \in Busy /\ l.outcome \in {"candidate", "rejected"}
    BY <1>18 DEF Stage, Busy
  <2>2. PICK s \in {"candidate", "rejected"} :
           proc' = [proc EXCEPT ![p].at = "settling", ![p].say = s]
    BY <1>18, <2>1 DEF Stage
  <2>3. s \in JobStatus
    BY DEF JobStatus, Terminal
  <2> QED
    BY <1>6, <2>1, <2>2, <2>3
<1>19. CASE Skip(p)
  <2>1. l.at \in Busy
    BY <1>19 DEF Skip, Busy
  <2>2. PICK s \in {"rejected", "succeeded"} :
           proc' = [proc EXCEPT ![p].at = "settling", ![p].say = s]
    BY <1>19 DEF Skip
  <2>3. s \in JobStatus
    BY DEF JobStatus, Terminal
  <2> QED
    BY <1>6, <2>1, <2>2, <2>3
<1>20. CASE Complete(p)
  <2>1. l.at \in Busy /\ (Say(p, l.say) \/ Goto(p, "lost"))
    BY <1>20 DEF Complete, Busy
  <2> QED
    BY <1>2, <1>5, <1>7, <2>1 DEF Busy, WorkerAt
<1>21. ASSUME NEW t \in BOOLEAN, Judge(p, t) PROVE \E h : Turns(p, h)
  <2>1. l.at \in Busy
    BY <1>21 DEF Judge, Busy
  <2>2. PICK s \in {"pending", "failed"} :
           proc' = [proc EXCEPT ![p].at = "failing", ![p].say = s]
    BY <1>21 DEF Judge
  <2>3. s \in JobStatus
    BY DEF JobStatus, Terminal, Unfinished
  <2> QED
    BY <1>6, <2>1, <2>2, <2>3
<1>22. CASE Fail(p)
  <2>1. Say(p, l.say) \/ proc' = [proc EXCEPT ![p] = Waiting]
    BY <1>22 DEF Fail
  <2> QED
    BY <1>2, <1>7, <1>8, <2>1
<1>23. CASE ReportStatus(p)
  BY <1>8, <1>23 DEF ReportStatus
<1> QED
  BY <1>9, <1>10, <1>11, <1>12, <1>13, <1>14, <1>15, <1>16, <1>17, <1>18, <1>19, <1>20, <1>21,
     <1>22, <1>23 DEF Worker

\* Who passes the fence holds the lease of a running job by the token of its last run.
LEMMA HoldersRun ==
    ASSUME QueueInv, NEW p \in Process, proc[p].at \in Busy, Holds(p)
    PROVE  LET k == proc[p].key IN
           /\ k \in Key /\ lease[k] # NoLease /\ job[k].status = "running"
           /\ proc[p].token = fence[k] /\ proc[p].token = runs[k]
           /\ proc[p].run \in RunRef
           /\ proc[p].run.key = k /\ proc[p].run.nth = runs[k]
<1> DEFINE k == proc[p].key
<1>1. /\ k \in Key /\ proc[p].run \in RunRef
      /\ proc[p].run.key = k /\ proc[p].run.nth = proc[p].token
  BY DEF QueueInv, Engaged
<1>2. lease[k].expires > now /\ lease[k].token = proc[p].token
  BY DEF Holds, Unexpired
<1>3. now \in Nat /\ lease[k] \in LeaseRow
  BY <1>1 DEF QueueInv, QueueTypes
<1>4. lease[k] # NoLease
  BY <1>2, <1>3 DEF NoLease
<1>5. job[k].status = "running" /\ lease[k].token = fence[k] /\ fence[k] = runs[k]
  BY <1>1, <1>4 DEF QueueInv, Leased
<1> QED
  BY <1>1, <1>2, <1>4, <1>5

\* What a step does to the rows of a job: nothing, or its lease lapses; its lease goes, and
\* whatever is written ends a job or begins it; a lease is renewed; a run is claimed.
Changed(k) ==
    \/ /\ UNCHANGED <<job[k], fence[k], runs[k]>>
       /\ lease'[k] \in {lease[k], NoLease}
    \/ /\ UNCHANGED <<fence[k], runs[k]>> /\ lease'[k] = NoLease
       /\ job[k].status \in Terminal => request' = k /\ job'[k].status = "pending"
    \/ /\ UNCHANGED <<job[k], fence[k], runs[k]>> /\ lease[k] # NoLease
       /\ lease'[k].token = lease[k].token
    \/ /\ job[k].status = "pending" /\ job'[k].status = "running"
       /\ fence'[k] = fence[k] + 1 /\ runs'[k] = runs[k] + 1
       /\ lease'[k].token = fence'[k]

Books ==
    /\ now' \in Nat
    /\ job' \in [Key -> JobRow] /\ lease' \in [Key -> LeaseRow]
    /\ fence' \in [Key -> Nat] /\ runs' \in [Key -> Nat]
    /\ \A k \in Key : Changed(k)

LEMMA RowsOf ==
    ASSUME QueueInv
    PROVE  /\ \A k \in Key : /\ job[k] \in JobRow /\ lease[k] \in LeaseRow
                             /\ fence[k] \in Nat /\ runs[k] \in Nat
                             /\ job[k].status \in JobStatus
           /\ now \in Nat /\ NoLease \in LeaseRow
<1>1. \A k \in Key : job[k] \in JobRow /\ lease[k] \in LeaseRow /\ fence[k] \in Nat /\ runs[k] \in Nat
  BY DEF QueueInv, QueueTypes
<1>2. now \in Nat /\ NoLease \in LeaseRow
  BY DEF QueueInv, QueueTypes, NoLease, LeaseRow
<1> QED
  BY <1>1, <1>2 DEF JobRow

LEMMA BooksStay ==
    ASSUME QueueInv, now' \in Nat, UNCHANGED <<job, lease, fence, runs>>
    PROVE  Books
BY DEF QueueInv, QueueTypes, Books, Changed

\* The rows of one job change, to a job without a lease.
LEMMA BookEnds ==
    ASSUME QueueInv, NEW k \in Key, NEW j \in JobRow,
           job[k].status \in Terminal => request' = k /\ j.status = "pending",
           job' = [job EXCEPT ![k] = j], lease' = [lease EXCEPT ![k] = NoLease],
           UNCHANGED <<now, fence, runs>>
    PROVE  Books
<1>1. /\ job \in [Key -> JobRow] /\ lease \in [Key -> LeaseRow]
      /\ fence \in [Key -> Nat] /\ runs \in [Key -> Nat] /\ NoLease \in LeaseRow /\ now \in Nat
  BY RowsOf DEF QueueInv, QueueTypes
<1>2. job' \in [Key -> JobRow] /\ lease' \in [Key -> LeaseRow]
  BY <1>1
<1>3. Changed(k)
  BY <1>1 DEF Changed
<1>4. \A o \in Key \ {k} : Changed(o)
  BY <1>1 DEF Changed
<1> QED
  BY <1>1, <1>2, <1>3, <1>4 DEF Books

LEMMA Settles ==
    ASSUME QueueInv, NEW p \in Process, proc[p].at \in {"settling", "failing"}, Holds(p),
           NEW r \in RunRef \cup {None}, Settled(p, proc[p].say, r), UNCHANGED <<now, fence, runs>>
    PROVE  Books
<1> DEFINE k == proc[p].key
           j == [job[k] EXCEPT !.status = proc[p].say, !.result = r]
<1>1. proc[p].at \in Busy
  BY DEF Busy
<1>2. k \in Key /\ job[k].status = "running"
  BY <1>1, HoldersRun
<1>3. proc[p].say \in JobStatus
  BY <1>1 DEF QueueInv, Engaged
<1>4. job[k] \in JobRow
  BY <1>2, RowsOf
<1>5. j \in JobRow
  BY <1>3, <1>4 DEF JobRow
<1>6. job' = [job EXCEPT ![k] = j] /\ lease' = [lease EXCEPT ![k] = NoLease]
  BY DEF Settled
<1> HIDE DEF j, k
<1>7. job[k].status \notin Terminal
  BY <1>2 DEF Terminal
<1> QED
  BY <1>2, <1>5, <1>6, <1>7, BookEnds

LEMMA UnlapsedIs ==
    ASSUME QueueInv
    PROVE  Unlapsed \in [Key -> LeaseRow] /\ \A k \in Key : Unlapsed[k] \in {lease[k], NoLease}
<1>1. \A k \in Key : lease[k] \in LeaseRow /\ NoLease \in LeaseRow
  BY RowsOf
<1> QED
  BY <1>1 DEF Unlapsed

LEMMA Claims ==
    ASSUME QueueInv, NEW p \in Process, NEW k \in Key, Claim(p, k)
    PROVE  Books
<1>1. /\ job \in [Key -> JobRow] /\ lease \in [Key -> LeaseRow]
      /\ fence \in [Key -> Nat] /\ runs \in [Key -> Nat] /\ now \in Nat
  BY DEF QueueInv, QueueTypes
<1>2. job[k].status = "pending" /\ now' \in Nat
  BY <1>1 DEF Claim, Oldest, Pending
<1>3. /\ Unlapsed \in [Key -> LeaseRow] /\ NoLease \in LeaseRow
      /\ \A o \in Key : Unlapsed[o] \in {lease[o], NoLease}
  BY UnlapsedIs, RowsOf
<1>4. lease[k] = NoLease /\ job[k] \in JobRow /\ job[k].attempts \in Nat
  BY <1>1, <1>2 DEF QueueInv, Leased, JobRow
<1>5. CASE Spent(k)
  <2> DEFINE j == [job[k] EXCEPT !.status = "failed"]
  <2>1. job' = [job EXCEPT ![k] = j] /\ lease' = Unlapsed /\ UNCHANGED <<fence, runs>>
    BY <1>5 DEF Claim
  <2>2. j \in JobRow
    BY <1>4 DEF JobRow, JobStatus, Terminal
  <2> HIDE DEF j
  <2>3. job' \in [Key -> JobRow] /\ lease' \in [Key -> LeaseRow]
    BY <1>1, <1>3, <2>1, <2>2
  <2>4. Changed(k)
    BY <1>2, <1>3, <1>4, <2>1 DEF Changed, Terminal
  <2>5. \A o \in Key \ {k} : Changed(o)
    BY <1>1, <1>3, <2>1 DEF Changed
  <2> QED
    BY <1>1, <1>2, <2>1, <2>3, <2>4, <2>5 DEF Books
<1>6. CASE ~Spent(k)
  <2> DEFINE j == [job[k] EXCEPT !.status = "running", !.attempts = @ + 1]
             l == [owner |-> Owner[p], token |-> NextToken(k), expires |-> now + Ttl]
  <2>1. /\ job' = [job EXCEPT ![k] = j] /\ lease' = [Unlapsed EXCEPT ![k] = l]
        /\ fence' = [fence EXCEPT ![k] = NextToken(k)] /\ runs' = [runs EXCEPT ![k] = @ + 1]
    BY <1>6 DEF Claim
  <2>2. j \in JobRow /\ j.status = "running"
    <3> DEFINE n == job[k].attempts + 1
    <3>1. n \in Nat /\ "running" \in JobStatus
      BY <1>4 DEF JobStatus, Unfinished
    <3> HIDE DEF n
    <3>2. [job[k] EXCEPT !.status = "running", !.attempts = n] \in JobRow
      BY <1>4, <3>1 DEF JobRow
    <3>3. [job[k] EXCEPT !.status = "running", !.attempts = n].status = "running"
      BY <1>4 DEF JobRow
    <3> QED
      BY <3>2, <3>3 DEF n
  <2>3. NextToken(k) \in Nat /\ NextToken(k) = fence[k] + 1
    BY <1>1 DEF NextToken
  <2>4. l \in LeaseRow /\ l.token = NextToken(k)
    BY <1>1, <2>3, QueueAssumption DEF LeaseRow
  <2> HIDE DEF j, l
  <2>5. /\ job' \in [Key -> JobRow] /\ lease' \in [Key -> LeaseRow]
        /\ fence' \in [Key -> Nat] /\ runs' \in [Key -> Nat]
    BY <1>1, <1>3, <2>1, <2>2, <2>3, <2>4
  <2>6. Changed(k)
    BY <1>1, <1>2, <1>3, <2>1, <2>2, <2>3, <2>4 DEF Changed
  <2>7. \A o \in Key \ {k} : Changed(o)
    BY <1>1, <1>3, <2>1 DEF Changed
  <2> QED
    BY <1>1, <1>2, <2>5, <2>6, <2>7 DEF Books
<1> QED
  BY <1>5, <1>6

LEMMA Reclaims ==
    ASSUME QueueInv, NEW p \in Process, Reclaim(p)
    PROVE  Books
<1> DEFINE J(k) == IF Lapsed(k)
                   THEN [job[k] EXCEPT !.status = IF Spent(k) THEN "failed" ELSE "pending"]
                   ELSE job[k]
           L(k) == IF Lapsed(k) THEN NoLease ELSE lease[k]
<1>1. /\ job' = [k \in Key |-> J(k)] /\ lease' = [k \in Key |-> L(k)]
      /\ UNCHANGED <<now, fence, runs>>
  BY DEF Reclaim
<1>2. ASSUME NEW k \in Key PROVE J(k) \in JobRow
  <2>1. job[k] \in JobRow
    BY RowsOf
  <2>2. {"failed", "pending"} \subseteq JobStatus
    BY DEF JobStatus, Terminal, Unfinished
  <2> QED
    BY <2>1, <2>2 DEF JobRow
<1>3. \A k \in Key : L(k) \in LeaseRow
  BY RowsOf
<1>4. \A k \in Key : \/ J(k) = job[k] /\ L(k) = lease[k]
                     \/ job[k].status \notin Terminal /\ L(k) = NoLease
  BY DEF Lapsed, Terminal
<1> HIDE DEF J, L
<1>5. job' \in [Key -> JobRow] /\ lease' \in [Key -> LeaseRow]
  BY <1>1, <1>2, <1>3
<1>6. \A k \in Key : Changed(k)
  BY <1>1, <1>4 DEF Changed
<1> QED
  BY <1>1, <1>5, <1>6 DEF Books, QueueInv, QueueTypes

LEMMA Beats ==
    ASSUME QueueInv, NEW p \in Process, Beat(p)
    PROVE  Books
<1>1. CASE Holds(p)
  <2> DEFINE k == proc[p].key
             l == [lease[k] EXCEPT !.expires = now + Ttl]
  <2>1. proc[p].at \in Busy
    BY DEF Beat, Busy
  <2>2. k \in Key /\ lease[k] # NoLease
    BY <1>1, <2>1, HoldersRun
  <2>3. lease' = [lease EXCEPT ![k] = l] /\ UNCHANGED <<now, job, fence, runs>>
    BY <1>1 DEF Beat
  <2>4. lease[k] \in LeaseRow /\ now \in Nat
    BY <2>2, RowsOf
  <2>5. l \in LeaseRow /\ l.token = lease[k].token
    BY <2>4, QueueAssumption DEF LeaseRow
  <2> HIDE DEF k, l
  <2>6. /\ lease \in [Key -> LeaseRow] /\ job \in [Key -> JobRow]
        /\ fence \in [Key -> Nat] /\ runs \in [Key -> Nat]
    BY DEF QueueInv, QueueTypes
  <2>7. lease' \in [Key -> LeaseRow]
    BY <2>3, <2>5, <2>6
  <2>8. \A o \in Key : Changed(o)
    BY <2>2, <2>3, <2>5, <2>6 DEF Changed
  <2> QED
    BY <2>3, <2>4, <2>6, <2>7, <2>8 DEF Books
<1>2. CASE ~Holds(p)
  BY <1>2, BooksStay DEF Beat, QueueInv, QueueTypes
<1> QED
  BY <1>1, <1>2

LEMMA BooksKept ==
    ASSUME QueueInv, QueueNext
    PROVE  Books
<1>0. now \in Nat
  BY DEF QueueInv, QueueTypes
<1>1. CASE Tick \/ Announce
  BY <1>0, <1>1, BooksStay DEF Tick, Announce
<1>2. ASSUME NEW k \in Key, NEW c \in Config, Enqueue(k, c) PROVE Books
  <2> DEFINE j == [NoJob EXCEPT !.status = "pending", !.config = c, !.created = now]
  <2>1. j \in JobRow /\ j.status = "pending"
    BY <1>0 DEF NoJob, JobRow, JobStatus, Unfinished
  <2>2. job' = [job EXCEPT ![k] = j] /\ request' = k /\ UNCHANGED <<now, lease, fence, runs>>
    BY <1>2 DEF Enqueue
  <2>3. lease[k] = NoLease
    BY <1>2 DEF Enqueue, Replaceable, Granted, QueueInv, Leased
  <2>4. lease' = [lease EXCEPT ![k] = NoLease]
    BY <2>2, <2>3 DEF QueueInv, QueueTypes
  <2> HIDE DEF j
  <2> QED
    BY <2>1, <2>2, <2>4, BookEnds
<1>3. ASSUME NEW k \in Key, Cancel(k) PROVE Books
  <2> DEFINE j == [job[k] EXCEPT !.status = "cancelled"]
  <2>1. job[k] \in JobRow
    BY RowsOf
  <2>2. j \in JobRow
    BY <2>1 DEF JobRow, JobStatus, Terminal
  <2>3. /\ job' = [job EXCEPT ![k] = j] /\ lease' = [lease EXCEPT ![k] = NoLease]
        /\ UNCHANGED <<now, fence, runs>> /\ job[k].status \notin Terminal
    BY <1>3 DEF Cancel, Invalidated, Unfinished, Terminal
  <2> HIDE DEF j
  <2> QED
    BY <2>2, <2>3, BookEnds
<1>4. ASSUME NEW p \in Process, Start(p) \/ Die(p) PROVE Books
  BY <1>0, <1>4, BooksStay DEF Start, Die
<1>5. ASSUME NEW p \in Process, Worker(p) PROVE Books
  <2>1. CASE Reclaim(p)
    BY <2>1, Reclaims
  <2>2. CASE ClaimNothing(p)
    <3>1. /\ Unlapsed \in [Key -> LeaseRow] /\ lease' = Unlapsed /\ UNCHANGED <<now, job, fence, runs>>
          /\ \A o \in Key : Unlapsed[o] \in {lease[o], NoLease}
      BY <2>2, UnlapsedIs DEF ClaimNothing
    <3> QED
      BY <3>1 DEF Books, Changed, QueueInv, QueueTypes
  <2>3. CASE \E k \in Key : Claim(p, k)
    BY <2>3, Claims
  <2>4. CASE Beat(p)
    BY <2>4, Beats
  <2>5. CASE Complete(p)
    <3>1. CASE Holds(p)
      <4>1. proc[p].run \in RunRef
        BY <2>5, <3>1, HoldersRun DEF Complete, Busy
      <4> QED
        BY <2>5, <3>1, <4>1, Settles DEF Complete
    <3>2. CASE ~Holds(p)
      BY <1>0, <2>5, <3>2, BooksStay DEF Complete
    <3> QED
      BY <3>1, <3>2
  <2>6. CASE Fail(p)
    BY <1>0, <2>6, BooksStay, Settles DEF Fail
  <2>7. CASE \/ \E o \in RunOutcome : Optimize(p, o)
             \/ LookForCancellation(p) \/ Leave(p) \/ Stage(p) \/ Skip(p)
             \/ \E t \in BOOLEAN : Judge(p, t)
             \/ ReportStatus(p)
    <3>1. UNCHANGED <<now, job, lease, fence, runs>>
      BY <2>7 DEF Optimize, LookForCancellation, Leave, Stage, Skip, Judge, ReportStatus
    <3> QED
      BY <1>0, <3>1, BooksStay
  <2> QED
    BY <1>5, <2>1, <2>2, <2>3, <2>4, <2>5, <2>6, <2>7 DEF Worker
<1> QED
  BY <1>1, <1>2, <1>3, <1>4, <1>5 DEF QueueNext

LEMMA LeasesStay ==
    ASSUME QueueInv, Books
    PROVE  \A k \in Key : Leased(k)'
<1> TAKE k \in Key
<1>1. Changed(k) /\ Leased(k) /\ fence[k] \in Nat /\ runs[k] \in Nat
  BY DEF Books, QueueInv, QueueTypes
<1> QED
  BY <1>1 DEF Changed, Leased

LEMMA QueueInitInv == QueueInit => QueueInv
<1> SUFFICES ASSUME QueueInit PROVE QueueInv
  OBVIOUS
<1>1. NoJob \in JobRow /\ NoLease \in LeaseRow /\ Off \in Hand /\ Off.at \notin Busy
  BY WaitingIs DEF NoJob, JobRow, JobStatus, NoLease, LeaseRow
<1> QED
  BY <1>1 DEF QueueInit, QueueInv, QueueTypes, Leased, Engaged

LEMMA QueueNextInv == QueueInv /\ [QueueNext]_queueVars => QueueInv'
<1> SUFFICES ASSUME QueueInv, [QueueNext]_queueVars PROVE QueueInv'
  OBVIOUS
<1>1. CASE UNCHANGED queueVars
  BY <1>1 DEF queueVars, QueueInv, QueueTypes, Leased, Engaged
<1>2. CASE QueueNext
  <2>1. Books /\ \A k \in Key : Leased(k)'
    BY <1>2, BooksKept, LeasesStay
  <2>2. UNCHANGED proc \/ \E p \in Process : Start(p) \/ Die(p) \/ Worker(p)
    BY <1>2 DEF QueueNext, Tick, Announce, Enqueue, Cancel
  <2>3. proc' \in [Process -> Hand] /\ \A q \in Process : Engaged(q)'
    <3>1. CASE UNCHANGED proc
      BY <3>1 DEF QueueInv, QueueTypes, Engaged
    <3>2. ASSUME NEW p \in Process, Start(p) \/ Die(p) \/ Worker(p)
          PROVE  proc' \in [Process -> Hand] /\ \A q \in Process : Engaged(q)'
      BY <3>2, HandsTurn, TurnsKeep
    <3> QED
      BY <2>2, <3>1, <3>2
  <2> QED
    BY <2>1, <2>3 DEF Books, QueueInv, QueueTypes
<1> QED
  BY <1>1, <1>2

\* A lease of the legacy queue is of a running job under its last token, and tokens number
\* the runs that Store.claim_job begins; a worker at work knows the run that it claimed.
THEOREM QueueHolds == QueueSpec => []QueueInv
  BY QueueInitInv, QueueNextInv, PTL DEF QueueSpec

\* A job that ended stays as it ended, whatever Store.complete_job, heartbeat_job,
\* reclaim_expired_jobs, LocalMultiprocessQueue.fail or cancel a late worker still calls:
\* only a forced scheduling request makes it pending again.
THEOREM EndsStay == QueueSpec => SettledStaysSettled
<1>1. ASSUME QueueInv, [QueueNext]_queueVars
      PROVE  [\A k \in Key : job[k].status \in Terminal /\ job'[k] # job[k]
                 => request' = k /\ job'[k].status = "pending"]_queueVars
  <2>1. CASE UNCHANGED queueVars
    BY <2>1
  <2>2. CASE QueueNext
    BY <1>1, <2>2, BooksKept DEF Books, Changed, Terminal
  <2> QED
    BY <1>1, <2>1, <2>2
<1> QED
  BY <1>1, QueueHolds, PTL DEF QueueSpec, SettledStaysSettled

\* Store.complete_job approves a candidate only for the latest run of a job that is still
\* running, made under the configuration that the job has now.
THEOREM ApprovalsAreCurrent == QueueSpec => ApprovalIsCurrent
<1>1. ASSUME QueueInv, [QueueNext]_queueVars
      PROVE  [\A a \in approval' \ approval :
                 /\ job[a.key].status = "running"
                 /\ a.run = [key |-> a.key, nth |-> runs[a.key], config |-> job[a.key].config]]_queueVars
  <2>1. CASE UNCHANGED approval
    BY <2>1
  <2>2. ASSUME NEW p \in Process, Complete(p), NEW a \in approval' \ approval
        PROVE  /\ job[a.key].status = "running"
               /\ a.run = [key |-> a.key, nth |-> runs[a.key], config |-> job[a.key].config]
    <3> DEFINE k == proc[p].key
    <3>1. Holds(p) /\ Eligible(p) /\ a = [run |-> proc[p].run, key |-> k, token |-> proc[p].token,
                                         config |-> job[k].config]
      BY <2>2 DEF Complete
    <3>2. proc[p].at \in Busy
      BY <2>2 DEF Complete, Busy
    <3>3. /\ job[k].status = "running" /\ proc[p].run \in RunRef
          /\ proc[p].run.key = k /\ proc[p].run.nth = runs[k]
      BY <1>1, <3>1, <3>2, HoldersRun
    <3>4. proc[p].run.config = job[k].config
      BY <3>1 DEF Eligible
    <3>5. a.key = k /\ a.run = proc[p].run
      BY <3>1
    <3>6. proc[p].run = [key |-> k, nth |-> runs[k], config |-> job[k].config]
      BY <3>3, <3>4 DEF RunRef
    <3> QED
      BY <3>3, <3>5, <3>6
  <2>3. UNCHANGED approval \/ \E p \in Process : Complete(p)
    <3>1. CASE \E p \in Process : Worker(p) /\ ~Complete(p)
      <4>1. PICK p \in Process : Worker(p) /\ ~Complete(p)
        BY <3>1
      <4>2. CASE Reclaim(p) \/ ClaimNothing(p) \/ \E k \in Key : Claim(p, k)
        BY <4>2 DEF Reclaim, ClaimNothing, Claim
      <4>3. CASE (\E o \in RunOutcome : Optimize(p, o)) \/ LookForCancellation(p) \/ Beat(p) \/ Leave(p)
        BY <4>3 DEF Optimize, LookForCancellation, Beat, Leave
      <4>4. CASE Stage(p) \/ Skip(p) \/ (\E t \in BOOLEAN : Judge(p, t)) \/ Fail(p) \/ ReportStatus(p)
        BY <4>4 DEF Stage, Skip, Judge, Fail, ReportStatus
      <4> QED
        BY <4>1, <4>2, <4>3, <4>4 DEF Worker
    <3>2. CASE UNCHANGED queueVars
      BY <3>2 DEF queueVars
    <3> QED
      BY <1>1, <3>1, <3>2 DEF QueueNext, Tick, Announce, Enqueue, Cancel, Start, Die
  <2> QED
    BY <2>1, <2>2, <2>3
<1> QED
  BY <1>1, QueueHolds, PTL DEF QueueSpec, ApprovalIsCurrent
=============================================================================
