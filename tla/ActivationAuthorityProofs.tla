--------------------- MODULE ActivationAuthorityProofs ---------------------
(* Theorems about ActivationAuthority and their proofs. *)
EXTENDS ActivationAuthority, FiniteSetTheorems, TLAPS

-----------------------------------------------------------------------------
(* The types of the values the coordinators write *)

\* The operations that a slot of this kind may hold.
LaneOf(k) == IF k = "canary" THEN {"canary"} \X Trial ELSE {k} \X (1 .. MaxRevision)

\* A slot holds an operation of its kind.
Lanes == \A k \in Kind : slot[k].occ \in LaneOf(k) \cup {NoOccupant}

\* A trial in the slot, and the trial of a conclusion, was written.
TrialsExist ==
    /\ \A t \in Trial : slot["canary"].occ = <<"canary", t>> => trial[t] # NoTrial
    /\ \A c \in conclusions : trial[c.trial] # NoTrial

Types == TypeOK /\ IsFiniteSet(events) /\ Lanes /\ TrialsExist

\* What a slot may hold is an occupant.
LEMMA LaneType == \A k \in Kind : LaneOf(k) \subseteq Occupant
BY DEF LaneOf, Occupant, Kind

\* Claiming and clearing leave a slot.
LEMMA SlotType ==
    ASSUME NEW s \in Slot
    PROVE  Cleared(s) \in Slot /\ \A o \in Occupant : Claimed(s, o) \in Slot
BY DEF Cleared, Claimed, Slot

\* What is appended to a stream is an event, and the streams stay finite.
LEMMA EventTypes ==
    ASSUME IsFiniteSet(events), events \subseteq Event
    PROVE  \A o \in Occupant, type \in EventType :
              /\ NewEvent(o, type) \in Event
              /\ IsFiniteSet(events \cup {NewEvent(o, type)})
<1> TAKE o \in Occupant, type \in EventType
<1>1. NextSequence(o) \in Nat
  <2>1. {e \in events : e.subject = o} \in SUBSET events
    OBVIOUS
  <2>2. IsFiniteSet({e \in events : e.subject = o})
    BY <2>1, FS_Subset
  <2> QED
    BY <2>2, FS_CardinalityType DEF NextSequence
<1>2. NewEvent(o, type) \in Event
  BY <1>1 DEF NewEvent, Event
<1> QED
  BY <1>2, FS_AddElement

\* What a receipt says of the slots.
LEMMA ResultsType ==
    ASSUME slot' \in [Kind -> Slot], NEW kinds
    PROVE  Results(kinds) \in [Kind -> Slot \cup {NoOccupant}]
BY DEF Results

\* A receipt that leaves the scope is a receipt.
LEMMA ReceiptedType ==
    ASSUME TypeOK, slot' \in [Kind -> Slot], scope # NoScope,
           NEW action \in Action, NEW kinds, NEW t \in Trial \cup {NoTrial},
           Receipted(action, kinds, t)
    PROVE  receipts' \subseteq Receipt
<1>1. [action |-> action, rev |-> scope.rev, from |-> scope.profile,
       to |-> scope.profile, mode |-> scope.mode, automatic |-> FALSE,
       slots |-> Results(kinds), trial |-> t] \in Receipt
  BY ResultsType DEF TypeOK, Scope, Receipt
<1> QED
  BY <1>1 DEF Receipted, TypeOK

\* The receipt of a transition is a receipt.
LEMMA TransitionedType ==
    ASSUME TypeOK, slot' \in [Kind -> Slot], scope # NoScope, scope' \in Scope,
           NEW action \in Action, NEW automatic \in BOOLEAN, NEW t \in Trial \cup {NoTrial},
           Transitioned(action, automatic, t)
    PROVE  receipts' \subseteq Receipt
<1>1. [action |-> action, rev |-> scope'.rev, from |-> scope.profile,
       to |-> scope'.profile, mode |-> scope'.mode, automatic |-> automatic,
       slots |-> Results(Kind), trial |-> t] \in Receipt
  BY ResultsType DEF TypeOK, Scope, Receipt
<1> QED
  BY <1>1 DEF Transitioned, TypeOK

-----------------------------------------------------------------------------
(* Types are inductive *)

\* What canary_stop and canary_conclude share.
LEMMA EndTrialTypes ==
    ASSUME Types, NEW rev \in Revisions, NEW t \in Trial, NEW signals \in SignalSets,
           ActiveTrial(rev, t), NEW action \in Action, NEW type \in EventType,
           EndTrial(t, signals, action, type)
    PROVE  Types'
<1>1. scope # NoScope /\ trial[t] # NoTrial /\ "canary" \in Kind
  BY DEF ActiveTrial, AtRevision, Types, TrialsExist, Kind
<1>2. slot' \in [Kind -> Slot]
  BY <1>1, SlotType DEF EndTrial, Types, TypeOK
<1>3. receipts' \subseteq Receipt
  BY <1>1, <1>2, ReceiptedType DEF EndTrial, Types
<1>4. <<"canary", t>> \in Occupant
  BY DEF Occupant
<1>5. events' \subseteq Event /\ IsFiniteSet(events')
  BY <1>4, EventTypes DEF EndTrial, Types, TypeOK
<1>6. conclusions' \subseteq [trial : Trial, verdict : Verdict]
  BY DEF EndTrial, Types, TypeOK, Verdict, Concludes
<1>7. Lanes'
  BY <1>1 DEF EndTrial, Cleared, Types, TypeOK, Lanes, LaneOf
<1>8. TrialsExist'
  <2>1. NoOccupant # <<"canary", t>>
    BY <1>4, NullAssumption
  <2>2. \A u \in Trial : slot'["canary"].occ # <<"canary", u>>
    BY <1>1, NullAssumption DEF EndTrial, Cleared, Types, TypeOK, Occupant
  <2> QED
    BY <1>1, <2>2 DEF EndTrial, Types, TrialsExist
<1> QED
  BY <1>2, <1>3, <1>5, <1>6, <1>7, <1>8 DEF EndTrial, Types, TypeOK

\* What the three commands of monitoring share.
LEMMA DecidesTypes ==
    ASSUME Types, RunsUnderItsRevision,
           NEW rev \in Revisions, NEW kind \in {"monitor", "requalification"},
           NEW action \in Action \cap EventType, NEW decision \in Decision,
           Decides(rev, kind, action, decision),
           slot' \in [Kind -> Slot], Lanes', slot'["canary"] = slot["canary"]
    PROVE  Types'
<1>1. scope # NoScope /\ scope.rev = rev /\ kind \in Kind
  BY DEF Decides, Pending, AtRevision, Kind
<1>2. receipts' \subseteq Receipt
  BY <1>1, ReceiptedType DEF Decides, Types
<1>3. <<kind, rev>> \in Occupant
  <2>1. slot[kind].occ \in {kind} \X (1 .. MaxRevision) /\ slot[kind].occ[2] = rev
    BY <1>1 DEF Decides, Pending, Occupied, Types, Lanes, LaneOf, RunsUnderItsRevision
  <2> QED
    BY <2>1 DEF Occupant
<1>4. events' \subseteq Event /\ IsFiniteSet(events')
  BY <1>3, EventTypes DEF Decides, Types, TypeOK
<1>5. decisions' \subseteq [kind : Kind, rev : Revisions, decision : Decision]
  BY <1>1 DEF Decides, Types, TypeOK
<1>6. TrialsExist'
  BY DEF Decides, Types, TrialsExist
<1> QED
  BY <1>2, <1>4, <1>5, <1>6 DEF Decides, Types, TypeOK

\* Genesis and the calibrations keep the types.
LEMMA AuthorityTypes == Types /\ AuthorityStep => Types'
<1> SUFFICES ASSUME Types, AuthorityStep PROVE Types'
  OBVIOUS
<1>1. ASSUME NEW p \in Profile, InitializeGenesis(p) PROVE Types'
  <2>1. scope' \in Scope
    BY <1>1, RevisionAssumption DEF InitializeGenesis, Scope, Mode
  <2>2. [action |-> "initialize_genesis", rev |-> 0, from |-> p, to |-> p,
         mode |-> "normal", automatic |-> FALSE, slots |-> Results({}),
         trial |-> NoTrial] \in Receipt
    <3>1. slot' \in [Kind -> Slot]
      BY <1>1 DEF InitializeGenesis, Types, TypeOK
    <3>2. Results({}) \in [Kind -> Slot \cup {NoOccupant}]
      BY <3>1, ResultsType
    <3> QED
      BY <3>2, RevisionAssumption DEF Receipt, Action, Transition, Mode
  <2> QED
    BY <1>1, <2>1, <2>2 DEF InitializeGenesis, Types, TypeOK, Lanes, TrialsExist
<1>2. ASSUME NEW c \in Calibration, ApproveCalibration(c) \/ WithdrawCalibration(c) PROVE Types'
  BY <1>2 DEF ApproveCalibration, WithdrawCalibration, Types, TypeOK, Lanes, TrialsExist
<1> QED
  BY <1>1, <1>2 DEF AuthorityStep

\* The canary commands keep the types.
LEMMA CanaryTypes == Types /\ CanaryStep => Types'
<1> SUFFICES ASSUME Types, NEW t \in Trial, NEW rev \in Revisions,
                    \/ \E kind \in {"authoritative", "diagnostic"}, candidate \in Published,
                          c \in Calibration \cup {NoCalibration} : CanaryStart(rev, t, kind, c, candidate)
                    \/ \E signals \in SignalSets :
                          \/ CanaryStop(rev, t, signals)
                          \/ \E automation \in BOOLEAN : CanaryConclude(rev, t, signals, automation)
                          \/ RecordConclusion(t, signals)
             PROVE  Types'
  BY DEF CanaryStep
<1>1. ASSUME NEW kind \in {"authoritative", "diagnostic"}, NEW candidate \in Published,
             NEW c \in Calibration \cup {NoCalibration}, CanaryStart(rev, t, kind, c, candidate)
      PROVE  Types'
  <2> DEFINE record == [kind |-> kind, rev |-> rev, incumbent |-> scope.profile,
                        candidate |-> candidate, calibration |-> c]
  <2>1. scope # NoScope /\ scope \in Scope /\ "canary" \in Kind /\ <<"canary", t>> \in Occupant
    BY <1>1 DEF CanaryStart, AtRevision, Types, TypeOK, Kind, Occupant
  <2>2. record \in TrialRecord
    <3>1. candidate \in Candidate
      BY DEF Published, Candidate, Types, TypeOK, Receipt
    <3> QED
      BY <2>1, <3>1 DEF TrialRecord, Scope, Revisions
  <2>3. slot' \in [Kind -> Slot]
    BY <1>1, <2>1, SlotType DEF CanaryStart, Types, TypeOK
  <2>4. receipts' \subseteq Receipt
    BY <1>1, <2>1, <2>3, ReceiptedType DEF CanaryStart, Types, Action
  <2>5. events' \subseteq Event /\ IsFiniteSet(events')
    BY <1>1, <2>1, EventTypes DEF CanaryStart, Types, TypeOK, EventType
  <2>6. Lanes'
    BY <1>1, <2>1 DEF CanaryStart, Claimed, Types, TypeOK, Lanes, LaneOf
  <2>7. TrialsExist'
    <3>1. trial' = [trial EXCEPT ![t] = record] /\ record # NoTrial
      BY <1>1, <2>2, NullAssumption DEF CanaryStart
    <3>2. \A u \in Trial : slot'["canary"].occ = <<"canary", u>> => u = t
      BY <1>1, <2>1 DEF CanaryStart, Claimed, Types, TypeOK
    <3> QED
      BY <1>1, <3>1, <3>2 DEF CanaryStart, Types, TypeOK, TrialsExist
  <2> QED
    BY <1>1, <2>2, <2>3, <2>4, <2>5, <2>6, <2>7 DEF CanaryStart, Types, TypeOK
<1>2. ASSUME NEW signals \in SignalSets, CanaryStop(rev, t, signals) PROVE Types'
  BY <1>2, EndTrialTypes DEF CanaryStop, Action, EventType
<1>3. ASSUME NEW signals \in SignalSets, NEW automation \in BOOLEAN,
             CanaryConclude(rev, t, signals, automation)
      PROVE  Types'
  BY <1>3, EndTrialTypes DEF CanaryConclude, Action, EventType
<1>4. ASSUME NEW signals \in SignalSets, RecordConclusion(t, signals) PROVE Types'
  <2>1. Concludes(signals) \in Verdict
    BY DEF Concludes, Verdict
  <2> QED
    BY <1>4, <2>1 DEF RecordConclusion, Types, TypeOK, Lanes, TrialsExist
<1> QED
  BY <1>1, <1>2, <1>3, <1>4

\* Monitoring and requalification keep the types.
LEMMA MonitorTypes == Types /\ RunsUnderItsRevision /\ MonitorStep => Types'
<1> SUFFICES ASSUME Types, RunsUnderItsRevision, NEW rev \in Revisions,
                    \/ \E d \in Decision : MonitorConclude(rev, d) \/ RequalificationConclude(rev, d)
                    \/ RequalificationStart(rev)
             PROVE  Types'
  BY DEF MonitorStep
<1>1. ASSUME NEW d \in Decision, MonitorConclude(rev, d) PROVE Types'
  <2>1. slot' \in [Kind -> Slot] /\ Lanes' /\ slot'["canary"] = slot["canary"]
    BY <1>1, SlotType DEF MonitorConclude, Cleared, Types, TypeOK, Lanes, LaneOf, Kind
  <2> QED
    BY <1>1, <2>1, DecidesTypes DEF MonitorConclude, Action, EventType
<1>2. ASSUME NEW d \in Decision, RequalificationConclude(rev, d) PROVE Types'
  <2>1. slot' \in [Kind -> Slot] /\ Lanes' /\ slot'["canary"] = slot["canary"]
    BY <1>2, SlotType DEF RequalificationConclude, Cleared, Types, TypeOK, Lanes, LaneOf, Kind
  <2> QED
    BY <1>2, <2>1, DecidesTypes DEF RequalificationConclude, Action, EventType
<1>3. ASSUME RequalificationStart(rev) PROVE Types'
  <2>1. rev \in 1 .. MaxRevision
    BY <1>3 DEF RequalificationStart, Decides, Pending, AtRevision, Occupied, Types, Lanes, LaneOf,
                RunsUnderItsRevision, Kind
  <2>2. <<"requalification", rev>> \in LaneOf("requalification")
        /\ <<"requalification", rev>> \in Occupant
    BY <2>1 DEF LaneOf, Occupant
  <2>3. slot' \in [Kind -> Slot]
    BY <1>3, <2>2, SlotType DEF RequalificationStart, Types, TypeOK
  <2>4. Lanes' /\ slot'["canary"] = slot["canary"]
    BY <1>3, <2>2 DEF RequalificationStart, Cleared, Claimed, Types, TypeOK, Lanes, Kind
  <2> QED
    BY <1>3, <2>3, <2>4, DecidesTypes DEF RequalificationStart, Action, EventType, Decision
<1> QED
  BY <1>1, <1>2, <1>3

\* Stopping everything keeps the types of slots and streams, and empties the slots.
LEMMA StopTypes ==
    ASSUME Types, NEW stopped \in SUBSET Kind,
           NEW type \in {"stopped_for_rollback", "stopped_for_safety_bypass"},
           StopEverything(stopped, type)
    PROVE  /\ slot' \in [Kind -> Slot]
           /\ \A k \in Kind : slot'[k].occ = NoOccupant
           /\ events' \subseteq Event /\ IsFiniteSet(events')
<1>1. \A k \in Kind : slot[k] \in Slot /\ (k \notin stopped => slot[k].occ = NoOccupant)
                     /\ (k \in stopped => slot[k].occ \in Occupant)
  BY LaneType DEF StopEverything, ExpectedSlots, Occupied, Types, TypeOK, Lanes
<1>2. slot' \in [Kind -> Slot] /\ \A k \in Kind : slot'[k].occ = NoOccupant
  BY <1>1, SlotType DEF StopEverything, Cleared
<1>3. \A k \in stopped : NewEvent(slot[k].occ, type) \in Event
  BY <1>1, EventTypes DEF Types, TypeOK, EventType
<1>4. IsFiniteSet({NewEvent(slot[k].occ, type) : k \in stopped})
  <2> DEFINE all == {NewEvent(slot["canary"].occ, type), NewEvent(slot["monitor"].occ, type)}
                    \cup {NewEvent(slot["requalification"].occ, type)}
  <2>1. IsFiniteSet(all)
    <3>1. IsFiniteSet({NewEvent(slot["canary"].occ, type)})
      BY FS_Singleton
    <3>2. IsFiniteSet({NewEvent(slot["canary"].occ, type)} \cup {NewEvent(slot["monitor"].occ, type)})
      BY <3>1, FS_AddElement
    <3>3. {NewEvent(slot["canary"].occ, type), NewEvent(slot["monitor"].occ, type)}
          = {NewEvent(slot["canary"].occ, type)} \cup {NewEvent(slot["monitor"].occ, type)}
      OBVIOUS
    <3> QED
      BY <3>2, <3>3, FS_AddElement
  <2>2. {NewEvent(slot[k].occ, type) : k \in stopped} \in SUBSET all
    BY DEF Kind
  <2> QED
    BY <2>1, <2>2, FS_Subset
<1>5. IsFiniteSet(events')
  BY <1>4, FS_Union DEF StopEverything, Types
<1>6. events' \subseteq Event
  BY <1>3 DEF StopEverything, Types, TypeOK
<1> QED
  BY <1>2, <1>5, <1>6

\* A transition goes to the next revision, which is in bounds.
LEMMA SuccessorType ==
    ASSUME Types, NEW rev \in 0 .. MaxRevision - 1, AtRevision(rev),
           NEW profile \in Profile, NEW mode \in Mode
    PROVE  /\ Successor(profile, mode) \in Scope
           /\ Successor(profile, mode).rev = rev + 1 /\ rev + 1 \in 1 .. MaxRevision
           /\ Successor(profile, mode).profile = profile
           /\ Successor(profile, mode).mode = mode
BY RevisionAssumption DEF AtRevision, Successor, Scope

\* Transitions keep the types.
LEMMA TransitionTypes == Types /\ TransitionStep => Types'
<1> SUFFICES ASSUME Types, NEW rev \in 0 .. MaxRevision - 1, NEW stopped \in SUBSET Kind,
                    \/ \E c \in conclusions, automatic \in BOOLEAN : Activate(rev, stopped, c, automatic)
                    \/ \E r \in receipts, automatic \in BOOLEAN : Rollback(rev, stopped, r, automatic)
                    \/ \E p \in Profile : SafetyBypass(rev, stopped, p)
             PROVE  Types'
  BY DEF TransitionStep
<1>1. ASSUME NEW c \in conclusions, NEW automatic \in BOOLEAN, Activate(rev, stopped, c, automatic)
      PROVE  Types'
  <2>1. c.trial \in Trial /\ trial[c.trial] \in TrialRecord /\ scope # NoScope /\ AtRevision(rev)
    BY <1>1 DEF Activate, AtRevision, Types, TypeOK, TrialsExist
  <2>2. scope' \in Scope /\ scope'.rev \in 1 .. MaxRevision
    <3>1. trial[c.trial].candidate.successor \in Profile
      BY <2>1 DEF TrialRecord, Candidate
    <3> QED
      BY <1>1, <2>1, <3>1, SuccessorType DEF Activate, Mode
  <2>3. /\ <<"monitor", scope'.rev>> \in Occupant /\ <<"monitor", scope'.rev>> \in LaneOf("monitor")
        /\ <<"canary", c.trial>> \in Occupant
    BY <2>1, <2>2 DEF Occupant, LaneOf
  <2>4. slot' \in [Kind -> Slot]
    BY <1>1, <2>3, SlotType DEF Activate, Types, TypeOK, Kind
  <2>5. receipts' \subseteq Receipt
    BY <1>1, <2>1, <2>2, <2>4, TransitionedType DEF Activate, Types, Action, Transition
  <2>6. events' \subseteq Event /\ IsFiniteSet(events')
    <3> DEFINE e == NewEvent(<<"canary", c.trial>>, "canary_slot_cleared_for_activation")
               f == NewEvent(<<"monitor", scope'.rev>>, "post_promotion_monitor_started")
    <3>1. e \in Event /\ f \in Event
      BY <2>3, EventTypes DEF Types, TypeOK, EventType
    <3>2. events' = (events \cup {e}) \cup {f}
      BY <1>1 DEF Activate
    <3>3. IsFiniteSet(events \cup {e})
      BY FS_AddElement DEF Types
    <3> QED
      BY <3>1, <3>2, <3>3, FS_AddElement DEF Types, TypeOK
  <2>7. Lanes'
    BY <1>1, <2>3 DEF Activate, Cleared, Claimed, Types, TypeOK, Lanes, Kind
  <2>8. TrialsExist'
    <3>1. slot'["canary"].occ = NoOccupant
      BY <1>1 DEF Activate, Cleared, Types, TypeOK, Kind
    <3>2. \A t \in Trial : slot'["canary"].occ # <<"canary", t>>
      <4>1. \A t \in Trial : <<"canary", t>> \in Occupant
        BY DEF Occupant
      <4> QED
        BY <3>1, <4>1, NullAssumption
    <3> QED
      BY <1>1, <3>2 DEF Activate, Types, TrialsExist
  <2> QED
    BY <1>1, <2>2, <2>4, <2>5, <2>6, <2>7, <2>8 DEF Activate, Types, TypeOK
<1>2. ASSUME NEW action \in {"rollback", "safety_bypass"}, NEW automatic \in BOOLEAN,
             NEW p \in Profile, NEW mode \in Mode,
             NEW type \in {"stopped_for_rollback", "stopped_for_safety_bypass"},
             AtRevision(rev), scope' = Successor(p, mode), StopEverything(stopped, type),
             Transitioned(action, automatic, NoTrial)
      PROVE  Types'
  <2>1. scope' \in Scope /\ scope # NoScope
    BY <1>2, SuccessorType DEF AtRevision
  <2>2. /\ slot' \in [Kind -> Slot] /\ \A k \in Kind : slot'[k].occ = NoOccupant
        /\ events' \subseteq Event /\ IsFiniteSet(events')
    BY <1>2, StopTypes
  <2>3. receipts' \subseteq Receipt
    BY <1>2, <2>1, <2>2, TransitionedType DEF Types, Action, Transition
  <2>4. Lanes'
    BY <2>2 DEF Lanes
  <2>5. TrialsExist'
    <3>1. \A t \in Trial : slot'["canary"].occ # <<"canary", t>>
      <4>1. \A t \in Trial : <<"canary", t>> \in Occupant
        BY DEF Occupant
      <4>2. slot'["canary"].occ = NoOccupant
        BY <2>2 DEF Kind
      <4> QED
        BY <4>1, <4>2, NullAssumption
    <3> QED
      BY <1>2, <3>1 DEF StopEverything, Types, TrialsExist
  <2> QED
    BY <1>2, <2>1, <2>2, <2>3, <2>4, <2>5 DEF StopEverything, Types, TypeOK
<1>3. ASSUME NEW r \in receipts, NEW automatic \in BOOLEAN, Rollback(rev, stopped, r, automatic)
      PROVE  Types'
  BY <1>2, <1>3 DEF Rollback, Mode, Types, TypeOK, Receipt
<1>4. ASSUME NEW p \in Profile, SafetyBypass(rev, stopped, p) PROVE Types'
  BY <1>2, <1>4 DEF SafetyBypass, Mode
<1> QED
  BY <1>1, <1>3, <1>4

-----------------------------------------------------------------------------
(* Operations and revisions *)

\* At most one of a monitor and a window; what runs is of the revision in force.
Running == RunsUnderItsRevision /\ MonitorXorWindow

\* Ending a trial leaves a slot empty and the others as they were.
LEMMA ClearedRuns ==
    ASSUME Types, Running, NEW kind \in Kind, scope # NoScope,
           slot' = [slot EXCEPT ![kind] = Cleared(@)], UNCHANGED <<scope, trial>>
    PROVE  Running'
<1>1. \A k \in Kind : Occupied(k)' => Occupied(k) /\ slot'[k] = slot[k]
  BY DEF Cleared, Occupied, Types, TypeOK
<1> QED
  BY <1>1 DEF Running, RunsUnderItsRevision, MonitorXorWindow, Kind

\* Each step leaves what runs under the revision in force.
LEMMA RunsInductive == Types /\ Running /\ Next => Running'
<1> SUFFICES ASSUME Types, Running, Next PROVE Running'
  OBVIOUS
<1>1. CASE AuthorityStep
  <2>1. UNCHANGED <<slot, trial>> /\ (scope # NoScope => scope' = scope)
        /\ (scope = NoScope => \A k \in Kind : ~Occupied(k))
    BY <1>1 DEF AuthorityStep, InitializeGenesis, ApproveCalibration, WithdrawCalibration,
                Running, RunsUnderItsRevision
  <2> QED
    BY <2>1 DEF Running, RunsUnderItsRevision, MonitorXorWindow, Occupied
<1>2. CASE CanaryStep
  <2> SUFFICES ASSUME NEW t \in Trial, NEW rev \in Revisions,
                      \/ \E kind \in {"authoritative", "diagnostic"}, candidate \in Published,
                            c \in Calibration \cup {NoCalibration} :
                               CanaryStart(rev, t, kind, c, candidate)
                      \/ \E signals \in SignalSets :
                            \/ CanaryStop(rev, t, signals)
                            \/ \E automation \in BOOLEAN :
                                  CanaryConclude(rev, t, signals, automation)
                            \/ RecordConclusion(t, signals)
               PROVE  Running'
    BY <1>2 DEF CanaryStep
  <2>1. ASSUME NEW kind \in {"authoritative", "diagnostic"}, NEW candidate \in Published,
               NEW c \in Calibration \cup {NoCalibration}, CanaryStart(rev, t, kind, c, candidate)
        PROVE  Running'
    <3>1. /\ UNCHANGED scope /\ scope # NoScope /\ scope.rev = rev
          /\ slot'["canary"].occ = <<"canary", t>>
          /\ \A k \in Kind : k # "canary" => slot'[k] = slot[k]
          /\ trial'[t].rev = rev /\ trial'[t].incumbent = scope.profile
      BY <2>1 DEF CanaryStart, AtRevision, Claimed, Types, TypeOK, Kind
    <3> QED
      BY <3>1 DEF Running, RunsUnderItsRevision, MonitorXorWindow, Occupied, Kind
  <2>2. ASSUME NEW signals \in SignalSets, NEW action, NEW type,
               ActiveTrial(rev, t), EndTrial(t, signals, action, type)
        PROVE  Running'
    BY <2>2, ClearedRuns DEF EndTrial, ActiveTrial, AtRevision, Kind
  <2>3. ASSUME NEW signals \in SignalSets, CanaryStop(rev, t, signals) PROVE Running'
    BY <2>2, <2>3 DEF CanaryStop
  <2>4. ASSUME NEW signals \in SignalSets, NEW automation \in BOOLEAN,
               CanaryConclude(rev, t, signals, automation)
        PROVE  Running'
    BY <2>2, <2>4 DEF CanaryConclude
  <2>5. ASSUME NEW signals \in SignalSets, RecordConclusion(t, signals) PROVE Running'
    BY <2>5 DEF RecordConclusion, Running, RunsUnderItsRevision, MonitorXorWindow, Occupied
  <2> QED
    BY <2>1, <2>3, <2>4, <2>5
<1>3. CASE TransitionStep
  <2> SUFFICES ASSUME NEW rev \in 0 .. MaxRevision - 1, NEW stopped \in SUBSET Kind,
                      \/ \E c \in conclusions, automatic \in BOOLEAN :
                            Activate(rev, stopped, c, automatic)
                      \/ \E r \in receipts, automatic \in BOOLEAN :
                            Rollback(rev, stopped, r, automatic)
                      \/ \E p \in Profile : SafetyBypass(rev, stopped, p)
               PROVE  Running'
    BY <1>3 DEF TransitionStep
  <2>1. (\A k \in Kind : ~Occupied(k)') => Running'
    BY DEF Running, RunsUnderItsRevision, MonitorXorWindow, Kind
  <2>2. ASSUME NEW c \in conclusions, NEW automatic \in BOOLEAN,
               Activate(rev, stopped, c, automatic)
        PROVE  Running'
    <3>1. /\ slot'["canary"].occ = NoOccupant
          /\ slot'["monitor"].occ = <<"monitor", scope'.rev>>
          /\ slot'["requalification"].occ = NoOccupant
      BY <2>2 DEF Activate, MayActivate, NothingToDecide, Occupied, Cleared, Claimed,
                  Types, TypeOK, Kind
    <3>2. scope' # NoScope
      <4>1. c.trial \in Trial /\ trial[c.trial] \in TrialRecord
        BY DEF Types, TypeOK, TrialsExist
      <4>2. trial[c.trial].candidate.successor \in Profile
        BY <4>1 DEF TrialRecord, Candidate
      <4> QED
        <5>1. /\ AtRevision(rev) /\ "normal" \in Mode
              /\ scope' = Successor(trial[c.trial].candidate.successor, "normal")
          BY <2>2 DEF Activate, Mode
        <5>2. scope' \in Scope
          BY <4>2, <5>1, SuccessorType
        <5> QED
          BY <5>2, NullAssumption
    <3> QED
      BY <3>1, <3>2 DEF Running, RunsUnderItsRevision, MonitorXorWindow, Occupied, Kind
  <2>3. ASSUME NEW r \in receipts, NEW automatic \in BOOLEAN, Rollback(rev, stopped, r, automatic)
        PROVE  Running'
    BY <2>1, <2>3, StopTypes DEF Rollback, Occupied
  <2>4. ASSUME NEW p \in Profile, SafetyBypass(rev, stopped, p) PROVE Running'
    BY <2>1, <2>4, StopTypes DEF SafetyBypass, Occupied
  <2> QED
    BY <2>2, <2>3, <2>4
<1>4. CASE MonitorStep
  <2> SUFFICES ASSUME NEW rev \in Revisions,
                      \/ \E d \in Decision : MonitorConclude(rev, d) \/ RequalificationConclude(rev, d)
                      \/ RequalificationStart(rev)
               PROVE  Running'
    BY <1>4 DEF MonitorStep
  <2>1. ASSUME NEW d \in Decision, MonitorConclude(rev, d) PROVE Running'
    BY <2>1, ClearedRuns DEF MonitorConclude, Decides, Pending, AtRevision, Kind
  <2>2. ASSUME NEW d \in Decision, RequalificationConclude(rev, d) PROVE Running'
    BY <2>2, ClearedRuns DEF RequalificationConclude, Decides, Pending, AtRevision, Kind
  <2>3. ASSUME RequalificationStart(rev) PROVE Running'
    <3>1. /\ UNCHANGED <<scope, trial>> /\ scope # NoScope /\ scope.rev = rev
          /\ slot'["canary"] = slot["canary"]
          /\ slot'["monitor"].occ = NoOccupant
          /\ slot'["requalification"].occ = <<"requalification", rev>>
      BY <2>3 DEF RequalificationStart, Decides, Pending, AtRevision, Cleared, Claimed,
                  Types, TypeOK, Kind
    <3> QED
      BY <3>1 DEF Running, RunsUnderItsRevision, MonitorXorWindow, Occupied, Kind
  <2> QED
    BY <2>1, <2>2, <2>3
<1> QED
  BY <1>1, <1>2, <1>3, <1>4 DEF Next

-----------------------------------------------------------------------------
(* The two together are inductive *)

\* Types and what runs.
Base == Types /\ Running

LEMMA InitBase == Init => Base
<1> SUFFICES ASSUME Init PROVE Base
  OBVIOUS
<1>1. TypeOK
  BY DEF Init, TypeOK, Slot
<1>2. IsFiniteSet(events)
  BY FS_EmptySet DEF Init
<1>3. Lanes
  BY DEF Init, Lanes
<1>4. TrialsExist
  <2>1. \A t \in Trial : <<"canary", t>> \in Occupant
    BY DEF Occupant
  <2> QED
    BY <2>1, NullAssumption DEF Init, TrialsExist, Kind
<1>5. Running
  BY DEF Init, Running, RunsUnderItsRevision, MonitorXorWindow, Occupied, Kind
<1> QED
  BY <1>1, <1>2, <1>3, <1>4, <1>5 DEF Base, Types

LEMMA StepBase == Base /\ [Next]_vars => Base'
<1> SUFFICES ASSUME Base, [Next]_vars PROVE Base'
  OBVIOUS
<1>1. CASE UNCHANGED vars
  BY <1>1 DEF vars, Base, Types, TypeOK, Lanes, TrialsExist, Running, RunsUnderItsRevision,
              MonitorXorWindow, Occupied
<1>2. CASE Next
  BY <1>2, AuthorityTypes, CanaryTypes, TransitionTypes, MonitorTypes, RunsInductive
     DEF Base, Next, Running
<1> QED
  BY <1>1, <1>2

-----------------------------------------------------------------------------
(* The chain of receipts *)

\* No receipt is of a revision yet to come.
Chain ==
    /\ ScopeIsLastReceipt
    /\ scope # NoScope => \A r \in receipts : r.rev <= scope.rev

\* A transition makes the chain one receipt longer.
LEMMA TransitionedChain ==
    ASSUME Types, Chain, NEW rev \in 0 .. MaxRevision - 1, AtRevision(rev),
           NEW p \in Profile, NEW mode \in Mode, scope' = Successor(p, mode),
           NEW action \in Transition, NEW automatic, NEW t,
           Transitioned(action, automatic, t)
    PROVE  Chain'
<1> DEFINE new == [action |-> action, rev |-> rev + 1, from |-> scope.profile,
                   to |-> p, mode |-> mode, automatic |-> automatic,
                   slots |-> Results(Kind), trial |-> t]
<1>1. /\ scope # NoScope /\ scope' # NoScope /\ scope.rev = rev /\ scope'.rev = rev + 1
      /\ scope'.profile = p /\ scope'.mode = mode /\ rev \in Nat
  BY SuccessorType, NullAssumption DEF AtRevision
<1>2. receipts' = receipts \cup {new}
  BY <1>1 DEF Transitioned
<1>3. \A r \in receipts : r.rev <= rev /\ r.rev \in Nat
  BY <1>1 DEF Chain, Types, TypeOK, Receipt
<1>4. \A n \in 0 .. rev : TransitionTo(n)' = TransitionTo(n)
  BY <1>1, <1>2 DEF TransitionTo
<1>5. TransitionTo(rev + 1)' = {new}
  BY <1>1, <1>2, <1>3 DEF TransitionTo
<1>6. TransitionTo(rev + 2)' = {}
  BY <1>1, <1>2, <1>3 DEF TransitionTo
<1>7. ASSUME NEW n \in 0 .. rev + 1
      PROVE  \E r \in receipts' :
                /\ TransitionTo(n)' = {r}
                /\ n = rev + 1 => r.to = p /\ r.mode = mode
                /\ \A q \in TransitionTo(n + 1)' : q.from = r.to
  <2>1. CASE n = rev + 1
    <3>1. n + 1 = rev + 2
      BY <1>1, <2>1
    <3> QED
      BY <1>2, <1>5, <1>6, <2>1, <3>1
  <2>2. CASE n \in 0 .. rev
    <3>1. PICK r \in receipts : /\ TransitionTo(n) = {r}
                                /\ n = rev => r.to = scope.profile
                                /\ \A q \in TransitionTo(n + 1) : q.from = r.to
      BY <1>1, <2>2 DEF Chain, ScopeIsLastReceipt
    <3>2. TransitionTo(n)' = {r} /\ r \in receipts'
      BY <1>2, <1>4, <2>2, <3>1
    <3>3. CASE n = rev
      BY <1>1, <1>5, <3>1, <3>2, <3>3
    <3>4. CASE n # rev
      <4>1. n + 1 \in 0 .. rev
        BY <1>1, <2>2, <3>4
      <4> QED
        BY <1>1, <1>4, <2>2, <3>1, <3>2, <4>1
    <3> QED
      BY <3>3, <3>4
  <2> QED
    BY <1>1, <2>1, <2>2
<1>8. \A r \in receipts' : r.rev <= scope'.rev
  BY <1>1, <1>2, <1>3
<1> QED
  BY <1>1, <1>7, <1>8 DEF Chain, ScopeIsLastReceipt

\* A receipt of another command is not part of it.
LEMMA ReceiptedChain ==
    ASSUME Types, Chain, scope # NoScope, scope' = scope,
           NEW action \in Action \ Transition, NEW kinds, NEW t,
           Receipted(action, kinds, t)
    PROVE  Chain'
<1>1. \A n : TransitionTo(n)' = TransitionTo(n)
  BY DEF TransitionTo, Receipted
<1>2. scope.rev \in Nat /\ \A r \in receipts' : r.rev <= scope.rev
  BY DEF Receipted, Chain, Types, TypeOK, Scope
<1>3. receipts \subseteq receipts'
  BY DEF Receipted
<1> QED
  BY <1>1, <1>2, <1>3 DEF Chain, ScopeIsLastReceipt

\* What each kind of command does to the scope and to the receipts.
LEMMA ReceiptSteps ==
    ASSUME Types, Next
    PROVE  \/ /\ UNCHANGED <<scope, receipts>>
           \/ \E p \in Profile : InitializeGenesis(p)
           \/ /\ scope # NoScope /\ scope' = scope
              /\ \E action \in Action \ Transition, kinds \in SUBSET Kind, t \in Trial \cup {NoTrial} :
                    Receipted(action, kinds, t)
           \/ \E rev \in 0 .. MaxRevision - 1, p \in Profile, mode \in Mode,
                 action \in Transition, automatic \in BOOLEAN, t \in Trial \cup {NoTrial} :
                 /\ AtRevision(rev) /\ scope' = Successor(p, mode)
                 /\ Transitioned(action, automatic, t)
<1>1. CASE AuthorityStep
  BY <1>1 DEF AuthorityStep, ApproveCalibration, WithdrawCalibration
<1>2. CASE CanaryStep
  BY <1>2 DEF CanaryStep, CanaryStart, CanaryStop, CanaryConclude, RecordConclusion, ActiveTrial,
              AtRevision, EndTrial, Action, Transition, Kind
<1>3. CASE TransitionStep
  <2> SUFFICES ASSUME NEW rev \in 0 .. MaxRevision - 1, NEW stopped \in SUBSET Kind,
                      \/ \E c \in conclusions, automatic \in BOOLEAN :
                            Activate(rev, stopped, c, automatic)
                      \/ \E r \in receipts, automatic \in BOOLEAN :
                            Rollback(rev, stopped, r, automatic)
                      \/ \E p \in Profile : SafetyBypass(rev, stopped, p)
               PROVE  \E p \in Profile, mode \in Mode,
                         action \in Transition, automatic \in BOOLEAN, t \in Trial \cup {NoTrial} :
                         /\ AtRevision(rev) /\ scope' = Successor(p, mode)
                         /\ Transitioned(action, automatic, t)
    BY <1>3 DEF TransitionStep
  <2>1. ASSUME NEW c \in conclusions, NEW automatic \in BOOLEAN,
               Activate(rev, stopped, c, automatic)
        PROVE  \E p \in Profile : AtRevision(rev) /\ scope' = Successor(p, "normal")
                  /\ Transitioned("activate", automatic, c.trial) /\ c.trial \in Trial
    <3>1. c.trial \in Trial /\ trial[c.trial] \in TrialRecord
      BY DEF Types, TypeOK, TrialsExist
    <3>2. trial[c.trial].candidate.successor \in Profile
      BY <3>1 DEF TrialRecord, Candidate
    <3> QED
      BY <2>1, <3>1, <3>2 DEF Activate
  <2>2. ASSUME NEW r \in receipts, NEW automatic \in BOOLEAN, Rollback(rev, stopped, r, automatic)
        PROVE  r.from \in Profile /\ AtRevision(rev) /\ scope' = Successor(r.from, "normal")
               /\ Transitioned("rollback", automatic, NoTrial)
    BY <2>2 DEF Rollback, Types, TypeOK, Receipt
  <2> QED
    BY <2>1, <2>2 DEF SafetyBypass, Mode, Transition
<1>4. CASE MonitorStep
  BY <1>4 DEF MonitorStep, MonitorConclude, RequalificationStart, RequalificationConclude,
              Decides, Pending, AtRevision, Action, Transition, Kind
<1> QED
  BY <1>1, <1>2, <1>3, <1>4 DEF Next

LEMMA ChainInductive == Types /\ Chain /\ [Next]_vars => Chain'
<1> SUFFICES ASSUME Types, Chain, [Next]_vars PROVE Chain'
  OBVIOUS
<1>1. ASSUME UNCHANGED <<scope, receipts>> PROVE Chain'
  BY <1>1 DEF Chain, ScopeIsLastReceipt, TransitionTo
<1>2. ASSUME NEW p \in Profile, InitializeGenesis(p) PROVE Chain'
  <2> DEFINE new == [action |-> "initialize_genesis", rev |-> 0, from |-> p, to |-> p,
                     mode |-> "normal", automatic |-> FALSE, slots |-> Results({}),
                     trial |-> NoTrial]
  <2>1. receipts' = {new} /\ scope' = [rev |-> 0, profile |-> p, mode |-> "normal"]
    BY <1>2 DEF InitializeGenesis, Chain, ScopeIsLastReceipt
  <2>2. TransitionTo(0)' = {new} /\ TransitionTo(1)' = {}
    BY <2>1 DEF TransitionTo, Transition
  <2>3. scope' # NoScope
    BY <2>1, NullAssumption, RevisionAssumption DEF Scope, Mode
  <2> QED
    BY <2>1, <2>2, <2>3 DEF Chain, ScopeIsLastReceipt
<1> QED
  BY <1>1, <1>2, ReceiptSteps, ReceiptedChain, TransitionedChain DEF vars

-----------------------------------------------------------------------------
(* Activations and rollbacks *)

\* What the receipt of an activation says of the trial it cites.
EarnedBy(r) ==
    /\ trial[r.trial].kind = "authoritative" /\ trial[r.trial].candidate.successor = r.to
    /\ trial[r.trial].rev = r.rev - 1 /\ trial[r.trial].candidate.rev = trial[r.trial].rev
    /\ trial[r.trial].incumbent = r.from /\ trial[r.trial].candidate.incumbent = r.from
    /\ [trial |-> r.trial, verdict |-> "passed"] \in conclusions

Earned == \A r \in receipts : r.action = "activate" => r.trial \in Trial /\ EarnedBy(r)

\* Records are written once.
LEMMA RecordsStay ==
    ASSUME Types, Next
    PROVE  /\ conclusions \subseteq conclusions'
           /\ \A t \in Trial : trial[t] # NoTrial => trial'[t] = trial[t]
<1>1. CASE AuthorityStep
  BY <1>1 DEF AuthorityStep, InitializeGenesis, ApproveCalibration, WithdrawCalibration
<1>2. CASE CanaryStep
  BY <1>2 DEF CanaryStep, CanaryStart, CanaryStop, CanaryConclude, RecordConclusion, EndTrial,
              NewTrial, Types, TypeOK
<1>3. CASE TransitionStep
  BY <1>3 DEF TransitionStep, Activate, Rollback, SafetyBypass, StopEverything
<1>4. CASE MonitorStep
  BY <1>4 DEF MonitorStep, MonitorConclude, RequalificationStart, RequalificationConclude, Decides
<1> QED
  BY <1>1, <1>2, <1>3, <1>4 DEF Next

\* A receipt of an activation or of a rollback comes of that command alone.
LEMMA NewReceipts ==
    ASSUME Types, Next, NEW r \in receipts' \ receipts
    PROVE  \/ r.action \notin {"activate", "rollback"}
           \/ \E rev \in 0 .. MaxRevision - 1, stopped \in SUBSET Kind, automatic \in BOOLEAN :
                 \/ \E c \in conclusions : /\ Activate(rev, stopped, c, automatic)
                                           /\ r.action = "activate" /\ r.trial = c.trial
                 \/ \E q \in receipts : /\ Rollback(rev, stopped, q, automatic)
                                        /\ r.action = "rollback" /\ r.automatic = automatic
<1>1. CASE AuthorityStep
  BY <1>1 DEF AuthorityStep, InitializeGenesis, ApproveCalibration, WithdrawCalibration
<1>2. CASE CanaryStep
  BY <1>2 DEF CanaryStep, CanaryStart, CanaryStop, CanaryConclude, RecordConclusion, EndTrial,
              Receipted
<1>3. CASE TransitionStep
  <2>1. ASSUME NEW rev, NEW stopped, NEW c, NEW automatic, Activate(rev, stopped, c, automatic)
        PROVE  r.action = "activate" /\ r.trial = c.trial
    <3>1. Transitioned("activate", automatic, c.trial)
      BY <2>1 DEF Activate
    <3> QED
      BY <3>1 DEF Transitioned
  <2>2. ASSUME NEW rev, NEW stopped, NEW q, NEW automatic, Rollback(rev, stopped, q, automatic)
        PROVE  r.action = "rollback" /\ r.automatic = automatic
    <3>1. Transitioned("rollback", automatic, NoTrial)
      BY <2>2 DEF Rollback
    <3> QED
      BY <3>1 DEF Transitioned
  <2>3. ASSUME NEW rev, NEW stopped, NEW p, SafetyBypass(rev, stopped, p)
        PROVE  r.action = "safety_bypass"
    BY <2>3 DEF SafetyBypass, Transitioned
  <2> QED
    BY <1>3, <2>1, <2>2, <2>3 DEF TransitionStep
<1>4. CASE MonitorStep
  BY <1>4 DEF MonitorStep, MonitorConclude, RequalificationStart, RequalificationConclude, Decides,
              Receipted
<1> QED
  BY <1>1, <1>2, <1>3, <1>4 DEF Next

LEMMA EarnedInductive == Types /\ Earned /\ [Next]_vars => Earned'
<1> SUFFICES ASSUME Types, Earned, [Next]_vars PROVE Earned'
  OBVIOUS
<1>1. CASE UNCHANGED vars
  BY <1>1 DEF vars, Earned, EarnedBy
<1>2. CASE Next
  <2> SUFFICES ASSUME NEW r \in receipts', r.action = "activate"
               PROVE  r.trial \in Trial /\ EarnedBy(r)'
    BY DEF Earned
  <2>1. CASE r \in receipts
    <3>1. r.trial \in Trial /\ EarnedBy(r)
      BY <2>1 DEF Earned
    <3>2. trial[r.trial] # NoTrial
      <4>1. \E c \in conclusions : c.trial = r.trial
        BY <3>1 DEF EarnedBy
      <4> QED
        BY <4>1 DEF Types, TrialsExist
    <3> QED
      BY <1>2, <3>1, <3>2, RecordsStay DEF EarnedBy
  <2>2. CASE r \notin receipts
    <3>1. PICK rev \in 0 .. MaxRevision - 1, stopped \in SUBSET Kind, automatic \in BOOLEAN,
               c \in conclusions : Activate(rev, stopped, c, automatic) /\ r.trial = c.trial
      BY <1>2, <2>2, NewReceipts
    <3>2. /\ c.trial \in Trial /\ trial[c.trial] \in TrialRecord
          /\ c = [trial |-> c.trial, verdict |-> c.verdict]
      BY DEF Types, TypeOK, TrialsExist
    <3>3. r.rev = scope.rev + 1 /\ r.from = scope.profile /\ r.to = trial[c.trial].candidate.successor
      BY <2>2, <3>1 DEF Activate, Transitioned, Successor
    <3>4. scope.rev \in Nat
      BY <3>1 DEF Activate, AtRevision, Types, TypeOK, Scope
    <3> QED
      BY <3>1, <3>2, <3>3, <3>4 DEF Activate, Eligible, Authoritative, EarnedBy
  <2> QED
    BY <2>1, <2>2
<1> QED
  BY <1>1, <1>2

\* One trial, one activation: the revision of the trial tells the receipt.
LEMMA EarnedOnce ==
    Types /\ Chain /\ Earned => ActivationWasEarned
<1> SUFFICES ASSUME Types, Chain, Earned, NEW r \in receipts, r.action = "activate"
             PROVE  /\ EarnedBy(r)
                    /\ \A q \in receipts : q.action = "activate" /\ q.trial = r.trial => q = r
  BY DEF ActivationWasEarned, EarnedBy
<1>1. EarnedBy(r)
  BY DEF Earned
<1>2. ASSUME NEW q \in receipts, q.action = "activate", q.trial = r.trial PROVE q = r
  <2>1. q.rev - 1 = r.rev - 1 /\ r.rev \in Nat /\ q.rev \in Nat
    BY <1>1, <1>2 DEF Earned, EarnedBy, Types, TypeOK, Receipt
  <2>2. q \in TransitionTo(r.rev) /\ r \in TransitionTo(r.rev)
    BY <1>2, <2>1 DEF TransitionTo, Transition
  <2>3. scope # NoScope /\ r.rev \in 0 .. scope.rev
    BY <2>1 DEF Chain, ScopeIsLastReceipt, Types, TypeOK, Scope
  <2> QED
    BY <2>2, <2>3 DEF Chain, ScopeIsLastReceipt
<1> QED
  BY <1>1, <1>2

LEMMA RollbackInductive ==
    Types /\ Chain /\ Earned /\ RollbackUndoesActivation /\ [Next]_vars
        => RollbackUndoesActivation'
<1> SUFFICES ASSUME Types, Chain, Earned, RollbackUndoesActivation, [Next]_vars
             PROVE  RollbackUndoesActivation'
  OBVIOUS
<1>1. CASE UNCHANGED vars
  BY <1>1 DEF vars, RollbackUndoesActivation, TransitionTo
<1>2. CASE Next
  <2> SUFFICES ASSUME NEW r \in receipts', r.action = "rollback"
               PROVE  \E q \in TransitionTo(r.rev - 1)' :
                         /\ q.action = "activate"
                         /\ \A p \in TransitionTo(r.rev - 2)' : r.to = p.to
                         /\ r.automatic => q.automatic /\ trial'[q.trial].calibration \in SoftRollback
    BY DEF RollbackUndoesActivation
  <2>0. \A q \in receipts : q.action = "activate" => q.trial \in Trial /\ trial'[q.trial] = trial[q.trial]
    <3> SUFFICES ASSUME NEW q \in receipts, q.action = "activate"
                 PROVE  q.trial \in Trial /\ trial'[q.trial] = trial[q.trial]
      OBVIOUS
    <3>1. q.trial \in Trial /\ \E c \in conclusions : c.trial = q.trial
      BY DEF Earned, EarnedBy
    <3> QED
      BY <1>2, <3>1, RecordsStay DEF Types, TrialsExist
  <2>1. \A n \in Int : (scope # NoScope /\ n <= scope.rev) => TransitionTo(n)' = TransitionTo(n)
    <3>1. ASSUME scope # NoScope, NEW n \in Int, n <= scope.rev PROVE TransitionTo(n)' = TransitionTo(n)
      <4>1. \A q \in receipts' \ receipts : q.action \notin Transition \/ q.rev # n
        BY <1>2, <3>1, ReceiptSteps, SuccessorType
           DEF InitializeGenesis, Receipted, Transitioned, AtRevision, Types, TypeOK, Scope
      <4>2. receipts \subseteq receipts'
        BY <1>2, ReceiptSteps DEF InitializeGenesis, Receipted, Transitioned
      <4> QED
        BY <4>1, <4>2 DEF TransitionTo
    <3> QED
      BY <3>1
  <2>2. CASE r \in receipts
    <3>1. scope # NoScope /\ r.rev \in Nat /\ scope.rev \in Nat /\ r.rev <= scope.rev
      BY <2>2 DEF Chain, ScopeIsLastReceipt, Types, TypeOK, Receipt, Scope
    <3>2. TransitionTo(r.rev - 1)' = TransitionTo(r.rev - 1)
          /\ TransitionTo(r.rev - 2)' = TransitionTo(r.rev - 2)
      BY <2>1, <3>1
    <3> QED
      BY <2>0, <2>2, <3>2 DEF RollbackUndoesActivation, TransitionTo
  <2>3. CASE r \notin receipts
    <3>1. PICK rev \in 0 .. MaxRevision - 1, stopped \in SUBSET Kind, automatic \in BOOLEAN,
               q \in receipts : Rollback(rev, stopped, q, automatic) /\ r.automatic = automatic
      BY <1>2, <2>3, NewReceipts
    <3>2. scope # NoScope /\ scope.rev = rev /\ rev \in Nat /\ r.rev = rev + 1 /\ r.to = q.from
      BY <2>3, <3>1 DEF Rollback, AtRevision, Transitioned, Successor
    <3>3. q \in TransitionTo(rev) /\ q.action = "activate"
      BY <3>1, <3>2 DEF Rollback, LedHere, TransitionTo, Transition
    <3>4. TransitionTo(r.rev - 1)' = TransitionTo(rev) /\ TransitionTo(r.rev - 2)' = TransitionTo(rev - 1)
      <4>1. r.rev - 1 = rev /\ r.rev - 2 = rev - 1
        BY <3>2
      <4> QED
        BY <2>1, <3>2, <4>1
    <3>5. ASSUME NEW p \in TransitionTo(rev - 1) PROVE q.from = p.to
      <4>1. rev - 1 \in 0 .. scope.rev /\ (rev - 1) + 1 = rev
        BY <3>2, <3>5 DEF TransitionTo, Types, TypeOK, Receipt
      <4> QED
        BY <3>2, <3>3, <3>5, <4>1 DEF Chain, ScopeIsLastReceipt
    <3>6. r.automatic => q.automatic /\ trial'[q.trial].calibration \in SoftRollback
      BY <2>0, <3>1, <3>3 DEF Rollback, MayUndo
    <3> QED
      BY <3>2, <3>3, <3>4, <3>5, <3>6
  <2> QED
    BY <2>2, <2>3
<1> QED
  BY <1>1, <1>2

-----------------------------------------------------------------------------
(* Slots and receipts *)

\* What a receipt says of a slot is of its present revision or an earlier one.
Fresh == \A r \in receipts, k \in Kind :
            r.slots[k] # NoOccupant => r.slots[k].rev <= slot[k].rev

\* A change of a slot that its receipt names is a new one.
Moved(k) == /\ slot'[k].rev = slot[k].rev + 1
            /\ Occupied(k) <=> ~Occupied(k)'

\* A receipt that names every slot that moves keeps the receipts fresh, and is new.
LEMMA ReceiptCovers ==
    ASSUME Types, Types', Fresh, NEW kinds \in SUBSET Kind, NEW new,
           receipts' = receipts \cup {new}, new.slots = Results(kinds),
           \A k \in Kind : slot'[k] = slot[k] \/ (k \in kinds /\ Moved(k))
    PROVE  /\ Fresh'
           /\ \A k \in Kind : slot'[k] # slot[k] =>
                 Moved(k) /\ \E r \in receipts' \ receipts : r.slots[k] = slot'[k]
<1>1. \A k \in Kind : /\ slot[k] \in Slot /\ slot'[k] \in Slot
                      /\ slot[k].rev \in Nat /\ slot'[k].rev \in Nat
                      /\ slot[k] # NoOccupant /\ slot'[k] # NoOccupant
  BY NullAssumption DEF Types, TypeOK, Slot
<1>2. \A r \in receipts, k \in Kind : r.slots[k] # NoOccupant => r.slots[k].rev \in Nat
  BY DEF Types, TypeOK, Receipt, Slot
<1>3. \A k \in Kind : slot[k].rev <= slot'[k].rev
  BY <1>1 DEF Moved
<1>4. Fresh'
  <2> SUFFICES ASSUME NEW r \in receipts', NEW k \in Kind, r.slots[k] # NoOccupant
               PROVE  r.slots[k].rev <= slot'[k].rev
    BY DEF Fresh
  <2>1. CASE r \in receipts
    BY <1>1, <1>2, <1>3, <2>1 DEF Fresh
  <2>2. CASE r = new
    BY <1>1, <2>2 DEF Results
  <2> QED
    BY <2>1, <2>2
<1>5. ASSUME NEW k \in Kind, slot'[k] # slot[k]
      PROVE  Moved(k) /\ \E r \in receipts' \ receipts : r.slots[k] = slot'[k]
  <2>1. k \in kinds /\ Moved(k) /\ new.slots[k] = slot'[k]
    BY <1>5 DEF Results
  <2>2. new \notin receipts
    BY <1>1, <2>1 DEF Fresh, Moved
  <2> QED
    BY <2>1, <2>2
<1> QED
  BY <1>4, <1>5

\* One receipt was written, and it names these slots.
Recorded(kinds) ==
    \E new \in receipts' : receipts' = receipts \cup {new} /\ new.slots = Results(kinds)

LEMMA Records ==
    /\ \A action, kinds, t : Receipted(action, kinds, t) => Recorded(kinds)
    /\ \A action, automatic, t : Transitioned(action, automatic, t) => Recorded(Kind)
    /\ \A p : InitializeGenesis(p) => Recorded({})
<1>1. ASSUME NEW action, NEW kinds, NEW t, Receipted(action, kinds, t) PROVE Recorded(kinds)
  <2> DEFINE new == [action |-> action, rev |-> scope.rev, from |-> scope.profile,
                     to |-> scope.profile, mode |-> scope.mode, automatic |-> FALSE,
                     slots |-> Results(kinds), trial |-> t]
  <2>1. receipts' = receipts \cup {new} /\ new.slots = Results(kinds)
    BY <1>1 DEF Receipted
  <2> HIDE DEF new
  <2> QED
    BY <2>1 DEF Recorded
<1>2. ASSUME NEW action, NEW automatic, NEW t, Transitioned(action, automatic, t)
      PROVE  Recorded(Kind)
  <2> DEFINE new == [action |-> action, rev |-> scope'.rev, from |-> scope.profile,
                     to |-> scope'.profile, mode |-> scope'.mode, automatic |-> automatic,
                     slots |-> Results(Kind), trial |-> t]
  <2>1. receipts' = receipts \cup {new} /\ new.slots = Results(Kind)
    BY <1>2 DEF Transitioned
  <2> HIDE DEF new
  <2> QED
    BY <2>1 DEF Recorded
<1>3. ASSUME NEW p, InitializeGenesis(p) PROVE Recorded({})
  <2> DEFINE new == [action |-> "initialize_genesis", rev |-> 0, from |-> p, to |-> p,
                     mode |-> "normal", automatic |-> FALSE, slots |-> Results({}),
                     trial |-> NoTrial]
  <2>1. receipts' = receipts \cup {new} /\ new.slots = Results({})
    BY <1>3 DEF InitializeGenesis
  <2> HIDE DEF new
  <2> QED
    BY <2>1 DEF Recorded
<1> QED
  BY <1>1, <1>2, <1>3

\* Every step moves slots that way.
LEMMA SlotSteps ==
    ASSUME Base, Next
    PROVE  \/ UNCHANGED <<slot, receipts>>
           \/ \E kinds \in SUBSET Kind :
                 /\ Recorded(kinds)
                 /\ \A k \in Kind : slot'[k] = slot[k] \/ (k \in kinds /\ Moved(k))
<1> USE DEF Base
<1>0. "canary" \in Kind /\ "monitor" \in Kind /\ "requalification" \in Kind
  BY DEF Kind
<1>1. CASE AuthorityStep
  <2>1. ASSUME NEW p, InitializeGenesis(p) PROVE Recorded({}) /\ slot' = slot
    BY <2>1, Records DEF InitializeGenesis
  <2> QED
    BY <1>1, <2>1 DEF AuthorityStep, ApproveCalibration, WithdrawCalibration
<1>2. CASE CanaryStep
  <2> SUFFICES ASSUME NEW t \in Trial, NEW rev \in Revisions,
                      \/ \E kind \in {"authoritative", "diagnostic"}, candidate \in Published,
                            c \in Calibration \cup {NoCalibration} :
                               CanaryStart(rev, t, kind, c, candidate)
                      \/ \E signals, action, type : ActiveTrial(rev, t) /\ EndTrial(t, signals, action, type)
                      \/ UNCHANGED <<slot, receipts>>
               PROVE  \/ UNCHANGED <<slot, receipts>>
                      \/ /\ Recorded({"canary"})
                         /\ \A k \in Kind : slot'[k] = slot[k] \/ (k = "canary" /\ Moved(k))
    BY <1>0, <1>2 DEF CanaryStep, CanaryStop, CanaryConclude, RecordConclusion
  <2>1. <<"canary", t>> # NoOccupant
    BY NullAssumption DEF Occupant
  <2>2. ASSUME NEW kind, NEW candidate, NEW c, CanaryStart(rev, t, kind, c, candidate)
        PROVE  /\ Recorded({"canary"})
               /\ \A k \in Kind : slot'[k] = slot[k] \/ (k = "canary" /\ Moved(k))
    <3>1. \A k \in Kind : slot'[k] = slot[k] \/ (k = "canary" /\ Moved(k))
      BY <1>0, <2>1, <2>2 DEF CanaryStart, Claimed, Moved, Occupied, Types, TypeOK
    <3>2. Recorded({"canary"})
      BY <2>2, Records DEF CanaryStart
    <3> QED
      BY <3>1, <3>2
  <2>3. ASSUME NEW signals, NEW action, NEW type, ActiveTrial(rev, t), EndTrial(t, signals, action, type)
        PROVE  /\ Recorded({"canary"})
               /\ \A k \in Kind : slot'[k] = slot[k] \/ (k = "canary" /\ Moved(k))
    <3>1. \A k \in Kind : slot'[k] = slot[k] \/ (k = "canary" /\ Moved(k))
      BY <1>0, <2>1, <2>3 DEF ActiveTrial, EndTrial, Cleared, Moved, Occupied, Types, TypeOK
    <3>2. Recorded({"canary"})
      BY <2>3, Records DEF EndTrial
    <3> QED
      BY <3>1, <3>2
  <2> QED
    BY <2>2, <2>3
<1>3. CASE TransitionStep
  <2> SUFFICES ASSUME NEW rev \in 0 .. MaxRevision - 1, NEW stopped \in SUBSET Kind,
                      \/ \E c \in conclusions, automatic \in BOOLEAN :
                            Activate(rev, stopped, c, automatic)
                      \/ \E type : StopEverything(stopped, type)
                            /\ \E action, automatic, t : Transitioned(action, automatic, t)
               PROVE  /\ Recorded(Kind)
                      /\ \A k \in Kind : slot'[k] = slot[k] \/ Moved(k)
    BY <1>3 DEF TransitionStep, Rollback, SafetyBypass
  <2>1. Recorded(Kind)
    BY Records DEF Activate
  <2>2. ASSUME NEW c \in conclusions, NEW automatic, Activate(rev, stopped, c, automatic)
        PROVE  \A k \in Kind : slot'[k] = slot[k] \/ Moved(k)
    <3>1. c.trial \in Trial /\ <<"canary", c.trial>> # NoOccupant
      BY NullAssumption DEF Occupant, Types, TypeOK
    <3>2. <<"monitor", scope'.rev>> # NoOccupant
      <4>1. \A n : <<"monitor", n>> \in Occupant => <<"monitor", n>> # NoOccupant
        BY NullAssumption
      <4> QED
        BY <2>2, <4>1, RevisionAssumption DEF Activate, AtRevision, Successor, Occupant
    <3>3. slot' = [slot EXCEPT !["canary"] = Cleared(@),
                               !["monitor"] = Claimed(@, <<"monitor", scope'.rev>>)]
      BY <2>2 DEF Activate
    <3>4. slot["canary"].occ = <<"canary", c.trial>> /\ slot["monitor"].occ = NoOccupant
      BY <2>2 DEF Activate, MayActivate, NothingToDecide, Occupied
    <3> QED
      BY <1>0, <3>1, <3>2, <3>3, <3>4 DEF Cleared, Claimed, Moved, Occupied, Types, TypeOK
  <2>3. ASSUME NEW type, StopEverything(stopped, type)
        PROVE  \A k \in Kind : slot'[k] = slot[k] \/ Moved(k)
    BY <2>3 DEF StopEverything, ExpectedSlots, Cleared, Moved, Occupied, Types, TypeOK
  <2> QED
    BY <2>1, <2>2, <2>3
<1>4. CASE MonitorStep
  <2>1. ASSUME NEW rev, NEW kind, NEW action, NEW decision, Decides(rev, kind, action, decision)
        PROVE  Occupied(kind) /\ Recorded({"monitor", "requalification"})
    BY <2>1, Records DEF Decides, Pending
  <2> SUFFICES ASSUME NEW rev \in Revisions,
                      \/ \E d \in Decision : MonitorConclude(rev, d) \/ RequalificationConclude(rev, d)
                      \/ RequalificationStart(rev)
               PROVE  /\ Recorded({"monitor", "requalification"})
                      /\ \A k \in Kind : \/ slot'[k] = slot[k]
                                         \/ k \in {"monitor", "requalification"} /\ Moved(k)
    BY <1>0, <1>4 DEF MonitorStep
  <2>2. ASSUME NEW d \in Decision, MonitorConclude(rev, d)
        PROVE  \A k \in Kind : slot'[k] = slot[k] \/ (k = "monitor" /\ Moved(k))
    BY <1>0, <2>1, <2>2 DEF MonitorConclude, Cleared, Moved, Occupied, Types, TypeOK
  <2>3. ASSUME NEW d \in Decision, RequalificationConclude(rev, d)
        PROVE  \A k \in Kind : slot'[k] = slot[k] \/ (k = "requalification" /\ Moved(k))
    BY <1>0, <2>1, <2>3 DEF RequalificationConclude, Cleared, Moved, Occupied, Types, TypeOK
  <2>4. ASSUME RequalificationStart(rev)
        PROVE  \A k \in Kind : \/ slot'[k] = slot[k]
                               \/ k \in {"monitor", "requalification"} /\ Moved(k)
    <3>1. rev \in 1 .. MaxRevision
      BY <1>0, <2>4 DEF RequalificationStart, Decides, Pending, AtRevision, Occupied, Types, Lanes,
                        LaneOf, Running, RunsUnderItsRevision
    <3>2. <<"requalification", rev>> # NoOccupant
      BY <3>1, NullAssumption DEF Occupant
    <3> QED
      BY <1>0, <2>1, <2>4, <3>2
         DEF RequalificationStart, Decides, Pending, Cleared, Claimed, Moved, Occupied, Types, TypeOK
  <2>5. Recorded({"monitor", "requalification"})
    BY <2>1 DEF MonitorConclude, RequalificationStart, RequalificationConclude
  <2> QED
    BY <2>2, <2>3, <2>4, <2>5
<1> QED
  BY <1>1, <1>2, <1>3, <1>4 DEF Next

LEMMA FreshInductive == Base /\ Base' /\ Fresh /\ [Next]_vars => Fresh'
<1> SUFFICES ASSUME Base, Base', Fresh, [Next]_vars PROVE Fresh'
  OBVIOUS
<1>1. ASSUME UNCHANGED <<slot, receipts>> PROVE Fresh'
  BY <1>1 DEF Fresh
<1>2. ASSUME NEW kinds \in SUBSET Kind, Recorded(kinds),
             \A k \in Kind : slot'[k] = slot[k] \/ (k \in kinds /\ Moved(k))
      PROVE  Fresh'
  BY <1>2, ReceiptCovers DEF Recorded, Base
<1> QED
  BY <1>1, <1>2, SlotSteps DEF vars

LEMMA NothingDisplaced ==
    ASSUME Base, Base', Fresh, [Next]_vars, NEW k \in Kind, slot'[k] # slot[k]
    PROVE  /\ slot'[k].rev = slot[k].rev + 1
           /\ Occupied(k) <=> ~Occupied(k)'
           /\ \E r \in receipts' \ receipts : r.slots[k] = slot'[k]
<1>1. PICK kinds \in SUBSET Kind :
         /\ Recorded(kinds)
         /\ \A j \in Kind : slot'[j] = slot[j] \/ (j \in kinds /\ Moved(j))
  BY SlotSteps DEF vars
<1>2. Moved(k) /\ \E r \in receipts' \ receipts : r.slots[k] = slot'[k]
  BY <1>1, ReceiptCovers DEF Recorded, Base
<1> QED
  BY <1>2 DEF Moved

-----------------------------------------------------------------------------
(* Decisions and verdicts *)

\* What was decided of the present revision, and whether more may be decided.
Decided ==
    \A d \in decisions :
        /\ scope # NoScope /\ d.rev <= scope.rev
        /\ d.kind = "requalification" => d.decision # "requalify"
        /\ d.rev = scope.rev =>
              /\ ~Occupied("monitor")
              /\ d.decision # "requalify" => ~Occupied("requalification")

\* A step that decides nothing and opens nothing that was decided.
LEMMA UndecidedSteps ==
    ASSUME Base, Next
    PROVE  \/ MonitorStep
           \/ /\ UNCHANGED decisions
              /\ \/ scope = NoScope
                 \/ /\ scope' = scope
                    /\ UNCHANGED <<slot["monitor"], slot["requalification"]>>
                 \/ scope' # NoScope /\ scope.rev \in Nat /\ scope'.rev = scope.rev + 1
<1>1. CASE AuthorityStep
  BY <1>1 DEF AuthorityStep, InitializeGenesis, ApproveCalibration, WithdrawCalibration
<1>2. CASE CanaryStep
  <2>1. UNCHANGED <<scope, decisions>> /\ \E s : slot' = [slot EXCEPT !["canary"] = s]
    BY <1>2 DEF CanaryStep, CanaryStart, CanaryStop, CanaryConclude, RecordConclusion, EndTrial,
                Base, Types, TypeOK
  <2> QED
    BY <2>1 DEF Base, Types, TypeOK, Kind
<1>3. CASE TransitionStep
  <2>1. UNCHANGED decisions
    BY <1>3 DEF TransitionStep, Activate, Rollback, SafetyBypass, StopEverything
  <2>2. scope' # NoScope /\ scope.rev \in Nat /\ scope'.rev = scope.rev + 1
    <3>1. \E rev \in 0 .. MaxRevision - 1, p \in Profile, mode \in Mode :
             AtRevision(rev) /\ scope' = Successor(p, mode)
      <4>1. \A c \in conclusions : TypeOK /\ TrialsExist =>
               trial[c.trial].candidate.successor \in Profile
        BY DEF TypeOK, TrialsExist, TrialRecord, Candidate
      <4>2. \A r \in receipts : TypeOK => r.from \in Profile
        BY DEF TypeOK, Receipt
      <4> QED
        BY <1>3, <4>1, <4>2
           DEF TransitionStep, Activate, Rollback, SafetyBypass, Mode, Base, Types
    <3>2. PICK rev \in 0 .. MaxRevision - 1, p \in Profile, mode \in Mode :
             AtRevision(rev) /\ scope' = Successor(p, mode)
      BY <3>1
    <3> QED
      BY <3>2, SuccessorType, NullAssumption DEF AtRevision, Base
  <2> QED
    BY <2>1, <2>2
<1> QED
  BY <1>1, <1>2, <1>3 DEF Next

LEMMA DecidedInductive ==
    Base /\ Decided /\ DecidedOnce /\ [Next]_vars => Decided' /\ DecidedOnce'
<1> SUFFICES ASSUME Base, Decided, DecidedOnce, [Next]_vars PROVE Decided' /\ DecidedOnce'
  OBVIOUS
<1>1. CASE UNCHANGED vars
  BY <1>1 DEF vars, Decided, DecidedOnce, Occupied
<1>2. \A d \in decisions : d.rev \in Nat
  BY DEF Base, Types, TypeOK, Revisions
<1>3. ASSUME UNCHANGED decisions,
             \/ scope = NoScope
             \/ scope' = scope /\ UNCHANGED <<slot["monitor"], slot["requalification"]>>
             \/ scope' # NoScope /\ scope.rev \in Nat /\ scope'.rev = scope.rev + 1
      PROVE  Decided' /\ DecidedOnce'
  BY <1>2, <1>3 DEF Decided, DecidedOnce, Occupied
<1>4. CASE MonitorStep
  <2> SUFFICES ASSUME NEW rev \in Revisions,
                      \/ \E d \in Decision : MonitorConclude(rev, d) \/ RequalificationConclude(rev, d)
                      \/ RequalificationStart(rev)
               PROVE  Decided' /\ DecidedOnce'
    BY <1>4 DEF MonitorStep
  <2>0. /\ "monitor" \in Kind /\ "requalification" \in Kind
        /\ Cleared(slot["monitor"]).occ = NoOccupant
        /\ Cleared(slot["requalification"]).occ = NoOccupant
    BY DEF Kind, Cleared
  <2>1. ASSUME NEW d \in Decision, MonitorConclude(rev, d) PROVE Decided' /\ DecidedOnce'
    <3>1. /\ Occupied("monitor") /\ scope # NoScope /\ scope.rev = rev /\ scope' = scope
          /\ decisions' = decisions \cup {[kind |-> "monitor", rev |-> rev, decision |-> d]}
      BY <2>1 DEF MonitorConclude, Decides, Pending, AtRevision
    <3>2. \A e \in decisions : e.rev # rev
      BY <3>1 DEF Decided
    <3>3. ~Occupied("monitor")' /\ ~Occupied("requalification")'
      BY <2>0, <2>1, <3>1
         DEF MonitorConclude, Occupied, Base, Running, MonitorXorWindow, Types, TypeOK
    <3> QED
      BY <1>2, <3>1, <3>2, <3>3 DEF Decided, DecidedOnce, Revisions
  <2>2. ASSUME NEW d \in Decision, RequalificationConclude(rev, d) PROVE Decided' /\ DecidedOnce'
    <3>1. /\ Occupied("requalification") /\ scope # NoScope /\ scope.rev = rev /\ scope' = scope
          /\ d # "requalify"
          /\ decisions' = decisions \cup {[kind |-> "requalification", rev |-> rev, decision |-> d]}
      BY <2>2 DEF RequalificationConclude, Decides, Pending, AtRevision
    <3>2. \A e \in decisions : e.rev = rev => e.decision = "requalify" /\ e.kind # "requalification"
      BY <3>1 DEF Decided
    <3>3. ~Occupied("monitor")' /\ ~Occupied("requalification")'
      BY <2>0, <2>2, <3>1
         DEF RequalificationConclude, Occupied, Base, Running, MonitorXorWindow, Types, TypeOK
    <3> QED
      BY <1>2, <3>1, <3>2, <3>3 DEF Decided, DecidedOnce, Revisions
  <2>3. ASSUME RequalificationStart(rev) PROVE Decided' /\ DecidedOnce'
    <3>1. /\ Occupied("monitor") /\ scope # NoScope /\ scope.rev = rev /\ scope' = scope
          /\ decisions' = decisions \cup {[kind |-> "monitor", rev |-> rev, decision |-> "requalify"]}
      BY <2>3 DEF RequalificationStart, Decides, Pending, AtRevision
    <3>2. \A e \in decisions : e.rev # rev
      BY <3>1 DEF Decided
    <3>3. ~Occupied("monitor")'
      BY <2>0, <2>3 DEF RequalificationStart, Occupied, Base, Types, TypeOK
    <3> QED
      BY <1>2, <3>1, <3>2, <3>3 DEF Decided, DecidedOnce, Revisions
  <2> QED
    BY <2>1, <2>2, <2>3
<1> QED
  BY <1>1, <1>3, <1>4, UndecidedSteps

\* A trial that the operator stopped has no passed conclusion of that command.
LEMMA StopsAreNotPasses ==
    ASSUME Base, [Next]_vars, NEW r \in receipts' \ receipts, r.action = "canary_stop"
    PROVE  [trial |-> r.trial, verdict |-> "passed"] \notin conclusions' \ conclusions
<1>1. CASE CanaryStep
  <2>1. ASSUME NEW t \in Trial, NEW rev, NEW signals, CanaryStop(rev, t, signals)
        PROVE  [trial |-> r.trial, verdict |-> "passed"] \notin conclusions' \ conclusions
    <3>1. Concludes(signals) # "passed"
      BY <2>1 DEF CanaryStop, Concludes
    <3> QED
      BY <2>1, <3>1 DEF CanaryStop, EndTrial
  <2> QED
    BY <1>1, <2>1 DEF CanaryStep, CanaryStart, CanaryConclude, RecordConclusion, EndTrial, Receipted
<1>2. CASE ~CanaryStep
  <2>1. UNCHANGED conclusions
    BY <1>2 DEF vars, Next, AuthorityStep, InitializeGenesis, ApproveCalibration,
                WithdrawCalibration, TransitionStep, Activate, Rollback, SafetyBypass,
                StopEverything, MonitorStep, MonitorConclude, RequalificationStart,
                RequalificationConclude, Decides
  <2> QED
    BY <2>1
<1> QED
  BY <1>1, <1>2

-----------------------------------------------------------------------------
(* Every behaviour *)

\* The inductive invariant.
Invariant ==
    Base /\ Chain /\ Earned /\ RollbackUndoesActivation /\ Fresh /\ Decided /\ DecidedOnce

LEMMA InitInvariant == Init => Invariant
<1> SUFFICES ASSUME Init PROVE Invariant
  OBVIOUS
<1>1. Base
  BY InitBase
<1>2. receipts = {} /\ decisions = {} /\ scope = NoScope
  BY DEF Init
<1> QED
  BY <1>1, <1>2 DEF Invariant, Chain, ScopeIsLastReceipt, Earned, RollbackUndoesActivation,
                    Fresh, Decided, DecidedOnce

LEMMA StepInvariant == Invariant /\ [Next]_vars => Invariant'
<1> SUFFICES ASSUME Invariant, [Next]_vars PROVE Invariant'
  OBVIOUS
<1>1. Base /\ Types /\ Base'
  BY StepBase DEF Invariant, Base
<1> QED
  BY <1>1, ChainInductive, EarnedInductive, RollbackInductive, FreshInductive, DecidedInductive
     DEF Invariant

\* The strengthened invariant from which the others follow.
THEOREM InvariantHolds == Spec => []Invariant
BY InitInvariant, StepInvariant, PTL DEF Spec

\* The rows, records and events that the coordinators write have their types.
THEOREM TypeCorrect == Spec => []TypeOK
<1>1. Invariant => TypeOK
  BY DEF Invariant, Base, Types
<1> QED
  BY <1>1, InvariantHolds, PTL

\* Whatever occupies a slot was started under the revision in force.
THEOREM OperationsAreCurrent == Spec => []RunsUnderItsRevision
<1>1. Invariant => RunsUnderItsRevision
  BY DEF Invariant, Base, Running
<1> QED
  BY <1>1, InvariantHolds, PTL

\* A monitor and a requalification window are never open together.
THEOREM OneDecisionPending == Spec => []MonitorXorWindow
<1>1. Invariant => MonitorXorWindow
  BY DEF Invariant, Base, Running
<1> QED
  BY <1>1, InvariantHolds, PTL

\* The scope is the end of one unbroken chain of receipts.
THEOREM ChainHolds == Spec => []ScopeIsLastReceipt
<1>1. Invariant => ScopeIsLastReceipt
  BY DEF Invariant, Chain
<1> QED
  BY <1>1, InvariantHolds, PTL

\* Every activation was earned by a trial of its own, under the revision it ended.
THEOREM ActivationsAreEarned == Spec => []ActivationWasEarned
<1>1. Invariant => ActivationWasEarned
  BY EarnedOnce DEF Invariant, Base
<1> QED
  BY <1>1, InvariantHolds, PTL

\* A rollback undoes the activation just before it.
THEOREM RollbacksUndo == Spec => []RollbackUndoesActivation
<1>1. Invariant => RollbackUndoesActivation
  BY DEF Invariant
<1> QED
  BY <1>1, InvariantHolds, PTL

\* An activation gets one verdict at most.
THEOREM OneVerdict == Spec => []DecidedOnce
<1>1. Invariant => DecidedOnce
  BY DEF Invariant
<1> QED
  BY <1>1, InvariantHolds, PTL

\* Slots are claimed when empty and cleared when not, each time with a receipt.
THEOREM SlotsAreExclusive == Spec => NothingIsDisplaced
<1>1. Invariant /\ Invariant' /\ [Next]_vars =>
         [\A k \in Kind : slot'[k] # slot[k] =>
             /\ slot'[k].rev = slot[k].rev + 1
             /\ Occupied(k) <=> ~Occupied(k)'
             /\ \E r \in receipts' \ receipts : r.slots[k] = slot'[k]]_vars
  BY NothingDisplaced DEF Invariant
<1> QED
  BY <1>1, InvariantHolds, PTL DEF Spec, NothingIsDisplaced

\* What canary_stop concludes is never a pass.
THEOREM StopsNeverPass == Spec => StopNeverPasses
<1>1. Invariant /\ [Next]_vars =>
         [\A r \in receipts' \ receipts : r.action = "canary_stop" =>
             [trial |-> r.trial, verdict |-> "passed"] \notin conclusions' \ conclusions]_vars
  BY StopsAreNotPasses DEF Invariant
<1> QED
  BY <1>1, InvariantHolds, PTL DEF Spec, StopNeverPasses

-----------------------------------------------------------------------------
(* The event streams and the slots *)

\* What a set of events begins, and what it ends.
BeganBy(N) ==
    {e.subject : e \in {f \in N : f.type \in StartEvent}} \cup
    {<<"requalification", e.subject[2]>> : e \in {f \in N : f.type = "requalification_start"}}
EndedBy(N) == {e.subject : e \in {f \in N : f.type \notin StartEvent}}

Busy == {k \in Kind : Occupied(k)}
Live == {slot[k].occ : k \in Busy}

\* The sequence of an event lies below the length of its stream and is its own.
Sequenced ==
    /\ \A e \in events : e.sequence < NextSequence(e.subject)
    /\ \A e, f \in events : e.subject = f.subject /\ e.sequence = f.sequence => e = f

\* An operation is of a trial that was written, or of a revision that was entered.
Met(o) ==
    IF o[1] = "canary" THEN trial[o[2]] # NoTrial
    ELSE scope # NoScope /\ o[2] <= scope.rev

\* A window begins with an event of its monitor, the others with one of their own.
Addressed(e) ==
    /\ e.type \in StartEvent => e.subject[1] # "requalification"
    /\ e.type = "requalification_start" => e.subject[1] = "monitor"

\* The slots hold what began and has not ended; what ends began, and ends once.
Explained ==
    /\ Live = BeganBy(events) \ EndedBy(events)
    /\ EndedBy(events) \subseteq BeganBy(events)
    /\ \A e, f \in events :
          e.type \notin StartEvent /\ f.type \notin StartEvent /\ e.subject = f.subject => e = f
    /\ \A o \in BeganBy(events) : o \in Occupant /\ Met(o)
    /\ \A e \in events : Addressed(e)

Streams == Sequenced /\ Explained

\* N is what a step appends to the streams: one event to each of some of them.
Writes(N) ==
    /\ events' = events \cup N
    /\ \A n \in N : n.sequence = NextSequence(n.subject)
    /\ \A m, n \in N : m.subject = n.subject => m = n

\* A stream has a natural number of events.
LEMMA StreamLength == ASSUME IsFiniteSet(events), NEW o PROVE NextSequence(o) \in Nat
<1>1. {e \in events : e.subject = o} \in SUBSET events
  OBVIOUS
<1> QED
  BY <1>1, FS_Subset, FS_CardinalityType DEF NextSequence

\* next_domain_event_sequence gives an unused sequence, the next of its stream.
LEMMA SequencedStep ==
    ASSUME IsFiniteSet(events), events \subseteq Event, Sequenced, NEW N, Writes(N)
    PROVE  Sequenced'
<1> DEFINE Of(o) == {e \in events : e.subject = o}
<1>0. \A o : NextSequence(o) \in Nat
  BY StreamLength
<1>1. ASSUME NEW n \in N PROVE NextSequence(n.subject)' = NextSequence(n.subject) + 1
  <2>1. Of(n.subject) \in SUBSET events
    OBVIOUS
  <2>2. IsFiniteSet(Of(n.subject))
    BY <2>1, FS_Subset
  <2>3. ~(n.sequence < NextSequence(n.subject))
    BY <1>0 DEF Writes
  <2>4. n \notin Of(n.subject)
    BY <2>3 DEF Sequenced
  <2>5. {e \in events' : e.subject = n.subject} = Of(n.subject) \cup {n}
    BY DEF Writes
  <2>6. Cardinality(Of(n.subject) \cup {n}) = Cardinality(Of(n.subject)) + 1
    BY <2>2, <2>4, FS_AddElement
  <2> QED
    BY <2>5, <2>6 DEF NextSequence
<1>2. ASSUME NEW o, \A n \in N : n.subject # o PROVE NextSequence(o)' = NextSequence(o)
  <2>1. {e \in events' : e.subject = o} = Of(o)
    BY <1>2 DEF Writes
  <2> QED
    BY <2>1 DEF NextSequence
<1>3. \A e \in events' : e.sequence < NextSequence(e.subject)'
  <2> SUFFICES ASSUME NEW e \in events' PROVE e.sequence < NextSequence(e.subject)'
    OBVIOUS
  <2>1. CASE e \in N
    BY <1>0, <1>1, <2>1 DEF Writes
  <2>2. CASE e \in events /\ \A n \in N : n.subject # e.subject
    BY <1>2, <2>2 DEF Sequenced
  <2>3. ASSUME e \in events, NEW n \in N, n.subject = e.subject
        PROVE  e.sequence < NextSequence(e.subject)'
    <3>1. /\ NextSequence(e.subject)' = NextSequence(e.subject) + 1
          /\ NextSequence(e.subject) \in Nat
          /\ e.sequence < NextSequence(e.subject)
      BY <1>0, <1>1, <2>3 DEF Sequenced
    <3>2. e.sequence \in Int
      BY <2>3 DEF Event
    <3> QED
      BY <3>1, <3>2
  <2> QED
    BY <2>1, <2>2, <2>3 DEF Writes
<1>4. \A e \in events, n \in N : ~(e.subject = n.subject /\ e.sequence = n.sequence)
  <2> SUFFICES ASSUME NEW e \in events, NEW n \in N, e.subject = n.subject, e.sequence = n.sequence
               PROVE  FALSE
    OBVIOUS
  <2> QED
    BY <1>0 DEF Sequenced, Writes
<1>5. \A e, f \in events' : e.subject = f.subject /\ e.sequence = f.sequence => e = f
  BY <1>4 DEF Sequenced, Writes
<1> QED
  BY <1>3, <1>5 DEF Sequenced

\* The lanes after a step that ends the operations of some of them and begins at
\* most one in a lane that is then free.
LanesTurn(K, B) ==
    \/ /\ B = {}
       /\ \A j \in Kind : slot'[j].occ = IF j \in K THEN NoOccupant ELSE slot[j].occ
    \/ \E k \in Kind, o \in Occupant :
          /\ B = {o} /\ o \notin BeganBy(events)
          /\ k \in K \/ ~Occupied(k)
          /\ \A j \in Kind : slot'[j].occ = IF j = k THEN o
                                            ELSE IF j \in K THEN NoOccupant ELSE slot[j].occ

\* What a command does to lanes and streams: the operations in the lanes K end and
\* those in B begin, all of it written to the streams.
Turns(K, N) ==
    /\ K \subseteq Busy
    /\ Writes(N)
    /\ EndedBy(N) = {slot[k].occ : k \in K}
    /\ LanesTurn(K, BeganBy(N))
    /\ \A o \in BeganBy(N) : Met(o)'
    /\ \A n \in N : Addressed(n)

LEMMA SetsOfUnion ==
    ASSUME NEW M, NEW N
    PROVE  /\ BeganBy(M \cup N) = BeganBy(M) \cup BeganBy(N)
           /\ EndedBy(M \cup N) = EndedBy(M) \cup EndedBy(N)
BY DEF BeganBy, EndedBy

LEMMA SetsOfOne ==
    ASSUME NEW e
    PROVE  /\ e.type \in StartEvent => BeganBy({e}) = {e.subject} /\ EndedBy({e}) = {}
           /\ e.type \notin StartEvent => EndedBy({e}) = {e.subject}
           /\ e.type \notin StartEvent =>
                 BeganBy({e}) = IF e.type = "requalification_start"
                                THEN {<<"requalification", e.subject[2]>>} ELSE {}
<1>1. ASSUME e.type \in StartEvent PROVE BeganBy({e}) = {e.subject} /\ EndedBy({e}) = {}
  <2>1. {f \in {e} : f.type \in StartEvent} = {e}
    BY <1>1
  <2>2. {f \in {e} : f.type = "requalification_start"} = {}
    BY <1>1 DEF StartEvent
  <2>3. {f \in {e} : f.type \notin StartEvent} = {}
    BY <1>1
  <2> QED
    BY <2>1, <2>2, <2>3 DEF BeganBy, EndedBy
<1>2. ASSUME e.type \notin StartEvent
      PROVE  /\ EndedBy({e}) = {e.subject}
             /\ BeganBy({e}) = IF e.type = "requalification_start"
                               THEN {<<"requalification", e.subject[2]>>} ELSE {}
  <2>1. {f \in {e} : f.type \in StartEvent} = {}
    BY <1>2
  <2>2. {f \in {e} : f.type \notin StartEvent} = {e}
    BY <1>2
  <2>3. {f \in {e} : f.type = "requalification_start"} =
           IF e.type = "requalification_start" THEN {e} ELSE {}
    OBVIOUS
  <2> QED
    BY <2>1, <2>2, <2>3 DEF BeganBy, EndedBy
<1> QED
  BY <1>1, <1>2

\* The lanes hold different operations.
LEMMA LanesDiffer ==
    ASSUME Lanes
    PROVE  \A j, k \in Busy : slot[j].occ = slot[k].occ => j = k
<1>1. \A k \in Busy : slot[k].occ[1] = k
  BY DEF Lanes, LaneOf, Busy, Occupied, Kind
<1> QED
  BY <1>1

LEMMA LiveTurns ==
    ASSUME Lanes, NEW K \in SUBSET Busy, NEW B, LanesTurn(K, B)
    PROVE  Live' = (Live \ {slot[k].occ : k \in K}) \cup B
<1>1. \A j, k \in Busy : slot[j].occ = slot[k].occ => j = k
  BY LanesDiffer
<1>2. CASE B = {} /\ \A j \in Kind : slot'[j].occ = IF j \in K THEN NoOccupant ELSE slot[j].occ
  <2>1. Busy' = Busy \ K
    BY <1>2 DEF Busy, Occupied
  <2>2. \A k \in Busy \ K : slot'[k].occ = slot[k].occ
    BY <1>2 DEF Busy
  <2>3. Live' = {slot[k].occ : k \in Busy \ K}
    BY <2>1, <2>2 DEF Live
  <2> QED
    BY <1>1, <1>2, <2>3 DEF Live
<1>3. ASSUME NEW k \in Kind, NEW o \in Occupant, B = {o}, k \in K \/ ~Occupied(k),
             \A j \in Kind : slot'[j].occ = IF j = k THEN o
                                            ELSE IF j \in K THEN NoOccupant ELSE slot[j].occ
      PROVE  Live' = (Live \ {slot[j].occ : j \in K}) \cup B
  <2>1. Busy' = (Busy \ K) \cup {k} /\ k \notin Busy \ K
    BY <1>3, NullAssumption DEF Busy, Occupied
  <2>2. slot'[k].occ = o /\ \A j \in Busy \ K : slot'[j].occ = slot[j].occ
    BY <1>3, <2>1 DEF Busy
  <2>3. Live' = {slot[j].occ : j \in Busy \ K} \cup {o}
    BY <2>1, <2>2 DEF Live
  <2>4. {slot[j].occ : j \in Busy \ K} = Live \ {slot[j].occ : j \in K}
    BY <1>1 DEF Live
  <2> QED
    BY <1>3, <2>3, <2>4
<1> QED
  BY <1>2, <1>3 DEF LanesTurn

\* The streams explain the slots again after a command.
LEMMA ExplainedStep ==
    ASSUME Lanes, Explained, NEW K, NEW N, Turns(K, N), \A o \in Occupant : Met(o) => Met(o)'
    PROVE  Explained'
<1> DEFINE B == BeganBy(N)
           E == EndedBy(N)
<1>1. /\ BeganBy(events') = BeganBy(events) \cup B
      /\ EndedBy(events') = EndedBy(events) \cup E
  BY SetsOfUnion DEF Turns, Writes
<1>2. Live' = (Live \ E) \cup B
  BY LiveTurns DEF Turns
<1>3. E \subseteq Live
  BY DEF Turns, Live
<1>4. /\ B \cap BeganBy(events) = {}
      /\ B \subseteq Occupant /\ \A o \in B : Met(o)'
  BY DEF Turns, LanesTurn
<1>5. /\ Live = BeganBy(events) \ EndedBy(events)
      /\ EndedBy(events) \subseteq BeganBy(events)
      /\ \A o \in BeganBy(events) : o \in Occupant /\ Met(o)
  BY DEF Explained
<1>6. \A e, f \in events' :
         e.type \notin StartEvent /\ f.type \notin StartEvent /\ e.subject = f.subject => e = f
  <2>1. \A e \in N : e.type \notin StartEvent => e.subject \in E
    BY DEF EndedBy
  <2>2. \A e \in events : e.type \notin StartEvent => e.subject \in EndedBy(events)
    BY DEF EndedBy
  <2>3. \A e \in events, f \in N :
           e.type \notin StartEvent /\ f.type \notin StartEvent => e.subject # f.subject
    BY <1>3, <1>5, <2>1, <2>2
  <2>4. \A e, f \in N : e.subject = f.subject => e = f
    BY DEF Turns, Writes
  <2>5. \A e, f \in events :
           e.type \notin StartEvent /\ f.type \notin StartEvent /\ e.subject = f.subject => e = f
    BY DEF Explained
  <2>6. events' = events \cup N
    BY DEF Turns, Writes
  <2> QED
    BY <2>3, <2>4, <2>5, <2>6
<1>7. Live' = BeganBy(events') \ EndedBy(events')
  BY <1>1, <1>2, <1>3, <1>4, <1>5
<1>8. EndedBy(events') \subseteq BeganBy(events')
  BY <1>1, <1>3, <1>5
<1>9. \A o \in BeganBy(events') : o \in Occupant /\ Met(o)'
  BY <1>1, <1>4, <1>5
<1>10. \A e \in events' : Addressed(e)
  BY DEF Explained, Turns, Writes
<1> QED
  BY <1>6, <1>7, <1>8, <1>9, <1>10 DEF Explained, Addressed

\* One operation ends, and nothing begins.
LEMMA OneEnds ==
    ASSUME Types, NEW kind \in Kind, NEW o, NEW type, type \notin StartEvent,
           slot[kind].occ = o, o # NoOccupant, type # "requalification_start",
           slot' = [slot EXCEPT ![kind] = Cleared(@)],
           events' = events \cup {NewEvent(o, type)}
    PROVE  Turns({kind}, {NewEvent(o, type)})
<1> DEFINE N == {NewEvent(o, type)}
<1>1. EndedBy(N) = {o} /\ BeganBy(N) = {}
  BY SetsOfOne DEF NewEvent
<1>2. Writes(N)
  BY DEF Writes, NewEvent
<1>3. \A j \in Kind : slot'[j].occ = IF j \in {kind} THEN NoOccupant ELSE slot[j].occ
  BY DEF Types, TypeOK, Cleared
<1>4. {kind} \subseteq Busy /\ {slot[k].occ : k \in {kind}} = {o}
  BY DEF Busy, Occupied
<1>5. \A n \in N : Addressed(n)
  BY DEF Addressed, NewEvent
<1> HIDE DEF N
<1>6. Turns({kind}, N)
  BY <1>1, <1>2, <1>3, <1>4, <1>5 DEF Turns, LanesTurn
<1> QED
  BY <1>6 DEF N

\* The scope stays, or a transition goes to its next revision once nothing runs.
Epoch(K) ==
    /\ scope # NoScope /\ scope' # NoScope
    /\ scope' = scope \/ (scope'.rev = scope.rev + 1 /\ K = Busy)

LEMMA CanaryTurns ==
    ASSUME Base, Explained, CanaryStep
    PROVE  UNCHANGED <<scope, slot, events>> \/ \E K, N : Turns(K, N) /\ Epoch(K)
<1> SUFFICES ASSUME NEW t \in Trial, NEW rev \in Revisions,
                    \/ \E kind \in {"authoritative", "diagnostic"}, candidate \in Published,
                          c \in Calibration \cup {NoCalibration} : CanaryStart(rev, t, kind, c, candidate)
                    \/ \E signals \in SignalSets :
                          \/ CanaryStop(rev, t, signals)
                          \/ \E automation \in BOOLEAN : CanaryConclude(rev, t, signals, automation)
                          \/ RecordConclusion(t, signals)
             PROVE  UNCHANGED <<scope, slot, events>> \/ \E K, N : Turns(K, N) /\ Epoch(K)
  BY DEF CanaryStep
<1> DEFINE o == <<"canary", t>>
<1>0. Types /\ "canary" \in Kind /\ o \in Occupant /\ o[1] = "canary" /\ o[2] = t
      /\ o # NoOccupant
  BY NullAssumption DEF Base, Kind, Occupant
<1>1. ASSUME NEW kind \in {"authoritative", "diagnostic"}, NEW candidate \in Published,
             NEW c \in Calibration \cup {NoCalibration}, CanaryStart(rev, t, kind, c, candidate)
      PROVE  \E K, N : Turns(K, N) /\ Epoch(K)
  <2> DEFINE N == {NewEvent(o, "canary_started")}
  <2>1. /\ events' = events \cup N /\ scope # NoScope /\ scope' = scope
        /\ slot' = [slot EXCEPT !["canary"] = Claimed(@, o)]
        /\ ~Occupied("canary") /\ trial[t] = NoTrial /\ trial'[t] # NoTrial
    <3>1. slot'["canary"].occ = o
      BY <1>0, <1>1 DEF CanaryStart, Claimed, Types, TypeOK
    <3>2. trial'[t] # NoTrial
      BY <1>0, <3>1, CanaryTypes DEF Types, TrialsExist
    <3> QED
      BY <1>1, <3>2 DEF CanaryStart, AtRevision, NewTrial
  <2>2. EndedBy(N) = {} /\ BeganBy(N) = {o}
    BY SetsOfOne DEF NewEvent, StartEvent
  <2>3. Writes(N)
    BY <2>1 DEF Writes, NewEvent
  <2>4. o \notin BeganBy(events) /\ Met(o)'
    BY <1>0, <2>1 DEF Explained, Met
  <2>5. \A j \in Kind : slot'[j].occ = IF j = "canary" THEN o
                                       ELSE IF j \in {} THEN NoOccupant ELSE slot[j].occ
    BY <1>0, <2>1 DEF Types, TypeOK, Claimed
  <2>6. \A n \in N : Addressed(n)
    BY DEF Addressed, NewEvent
  <2> HIDE DEF N, o
  <2>7. LanesTurn({}, {o})
    BY <1>0, <2>1, <2>4, <2>5 DEF LanesTurn
  <2>8. Turns({}, N) /\ Epoch({})
    BY <2>1, <2>2, <2>3, <2>4, <2>6, <2>7 DEF Turns, Epoch
  <2> QED
    BY <2>8
<1>2. ASSUME NEW signals \in SignalSets, NEW action, NEW type \in {"canary_stopped", "canary_concluded"},
             ActiveTrial(rev, t), EndTrial(t, signals, action, type)
      PROVE  \E K, N : Turns(K, N) /\ Epoch(K)
  <2>1. /\ slot["canary"].occ = o /\ scope # NoScope /\ scope' = scope
        /\ slot' = [slot EXCEPT !["canary"] = Cleared(@)]
        /\ events' = events \cup {NewEvent(o, type)}
        /\ type \notin StartEvent /\ type # "requalification_start"
    BY <1>2 DEF ActiveTrial, AtRevision, EndTrial, StartEvent
  <2>2. Turns({"canary"}, {NewEvent(o, type)}) /\ Epoch({"canary"})
    BY <1>0, <2>1, OneEnds DEF Epoch
  <2> QED
    BY <2>2
<1>3. ASSUME NEW signals \in SignalSets, CanaryStop(rev, t, signals)
      PROVE  \E K, N : Turns(K, N) /\ Epoch(K)
  BY <1>2, <1>3 DEF CanaryStop
<1>4. ASSUME NEW signals \in SignalSets, NEW automation \in BOOLEAN,
             CanaryConclude(rev, t, signals, automation)
      PROVE  \E K, N : Turns(K, N) /\ Epoch(K)
  BY <1>2, <1>4 DEF CanaryConclude
<1>5. ASSUME NEW signals \in SignalSets, RecordConclusion(t, signals)
      PROVE  UNCHANGED <<scope, slot, events>>
  BY <1>5 DEF RecordConclusion
<1> QED
  BY <1>1, <1>3, <1>4, <1>5

\* What is pending in a slot is the operation of the present revision.
LEMMA PendingOperation ==
    ASSUME Base, NEW rev, NEW kind \in {"monitor", "requalification"}, Pending(rev, kind)
    PROVE  /\ slot[kind].occ = <<kind, rev>> /\ <<kind, rev>> \in Occupant
           /\ <<kind, rev>> # NoOccupant
           /\ scope # NoScope /\ scope.rev = rev
<1>1. /\ kind \in Kind /\ kind # "canary" /\ Occupied(kind)
      /\ scope # NoScope /\ scope.rev = rev
  BY DEF Pending, AtRevision, Kind
<1>2. slot[kind].occ \in {kind} \X (1 .. MaxRevision)
  BY <1>1 DEF Base, Types, Lanes, LaneOf, Occupied
<1>3. slot[kind].occ[2] = rev
  BY <1>1 DEF Base, Running, RunsUnderItsRevision
<1>4. slot[kind].occ = <<kind, rev>> /\ rev \in 1 .. MaxRevision
  BY <1>2, <1>3
<1>5. <<kind, rev>> \in Occupant
  BY <1>4 DEF Occupant
<1> QED
  BY <1>1, <1>4, <1>5, NullAssumption

LEMMA MonitorTurns ==
    ASSUME Base, Explained, MonitorStep
    PROVE  \E K, N : Turns(K, N) /\ Epoch(K)
<1> SUFFICES ASSUME NEW rev \in Revisions,
                    \/ \E d \in Decision : MonitorConclude(rev, d) \/ RequalificationConclude(rev, d)
                    \/ RequalificationStart(rev)
             PROVE  \E K, N : Turns(K, N) /\ Epoch(K)
  BY DEF MonitorStep
<1>1. ASSUME NEW kind \in {"monitor", "requalification"}, NEW d,
             NEW action \in {"monitor_conclude", "requalification_conclude"},
             slot' = [slot EXCEPT ![kind] = Cleared(@)], Decides(rev, kind, action, d)
      PROVE  \E K, N : Turns(K, N) /\ Epoch(K)
  <2> DEFINE o == <<kind, rev>>
  <2>1. /\ Pending(rev, kind) /\ scope' = scope
        /\ events' = events \cup {NewEvent(o, action)}
        /\ action \notin StartEvent /\ action # "requalification_start"
    BY <1>1 DEF Decides, StartEvent
  <2>2. slot[kind].occ = o /\ o # NoOccupant /\ scope # NoScope
    BY <2>1, PendingOperation
  <2>3. Turns({kind}, {NewEvent(o, action)}) /\ Epoch({kind})
    BY <1>1, <2>1, <2>2, OneEnds DEF Epoch, Base, Kind
  <2> QED
    BY <2>3
<1>2. ASSUME NEW d \in Decision, MonitorConclude(rev, d) PROVE \E K, N : Turns(K, N) /\ Epoch(K)
  BY <1>1, <1>2 DEF MonitorConclude
<1>3. ASSUME NEW d \in Decision, RequalificationConclude(rev, d)
      PROVE  \E K, N : Turns(K, N) /\ Epoch(K)
  BY <1>1, <1>3 DEF RequalificationConclude
<1>4. ASSUME RequalificationStart(rev) PROVE \E K, N : Turns(K, N) /\ Epoch(K)
  <2> DEFINE m == <<"monitor", rev>>
             w == <<"requalification", rev>>
             e == NewEvent(m, "requalification_start")
  <2>1. /\ ~Occupied("requalification") /\ Pending(rev, "monitor")
        /\ slot' = [slot EXCEPT !["monitor"] = Cleared(@), !["requalification"] = Claimed(@, w)]
        /\ events' = events \cup {e} /\ scope' = scope
    BY <1>4 DEF RequalificationStart, Decides
  <2>2. /\ slot["monitor"].occ = m /\ m \in Occupant /\ m # NoOccupant
        /\ scope # NoScope /\ scope.rev = rev /\ rev \in Nat
    BY <2>1, PendingOperation DEF Revisions
  <2>3. w \in Occupant
    BY <2>2 DEF Occupant
  <2>4. EndedBy({e}) = {m} /\ BeganBy({e}) = {w}
    <3>1. e.subject = m /\ e.type = "requalification_start" /\ m[2] = rev
      BY DEF NewEvent
    <3> HIDE DEF e
    <3> QED
      BY <3>1, SetsOfOne DEF StartEvent
  <2>5. Writes({e})
    BY <2>1 DEF Writes, NewEvent
  <2>6. w \notin BeganBy(events)
    <3> SUFFICES ASSUME w \in BeganBy(events) PROVE FALSE
      OBVIOUS
    <3>1. m \in Live
      BY <2>2 DEF Live, Busy, Occupied, Kind
    <3>2. m \notin EndedBy(events)
      BY <3>1 DEF Explained
    <3>3. ASSUME NEW f \in events, f.type \in StartEvent, f.subject = w PROVE FALSE
      BY <3>3 DEF Explained, Addressed
    <3>4. ASSUME NEW f \in events, f.type = "requalification_start",
                 <<"requalification", f.subject[2]>> = w
          PROVE  FALSE
      <4>1. f.subject \in Occupant /\ f.subject[1] = "monitor" /\ f.subject[2] = rev
        BY <3>4 DEF Explained, Addressed, Base, Types, TypeOK, Event
      <4>2. f.subject = m
        BY <4>1 DEF Occupant
      <4> QED
        BY <3>2, <3>4, <4>2 DEF EndedBy, StartEvent
    <3> QED
      BY <3>3, <3>4 DEF BeganBy
  <2>7. Met(w)'
    BY <2>1, <2>2 DEF Met
  <2>8. \A j \in Kind : slot'[j].occ = IF j = "requalification" THEN w
                                       ELSE IF j \in {"monitor"} THEN NoOccupant ELSE slot[j].occ
    BY <2>1 DEF Base, Types, TypeOK, Claimed, Cleared, Kind
  <2>9. Addressed(e)
    BY DEF Addressed, NewEvent, StartEvent
  <2> HIDE DEF m, w, e
  <2>10. "requalification" \in Kind /\ {"monitor"} \subseteq Busy
        /\ {slot[k].occ : k \in {"monitor"}} = {m}
    BY <2>2 DEF Kind, Busy, Occupied
  <2>11. LanesTurn({"monitor"}, {w})
    BY <2>1, <2>3, <2>6, <2>8, <2>10 DEF LanesTurn
  <2>12. Turns({"monitor"}, {e}) /\ Epoch({"monitor"})
    BY <2>1, <2>2, <2>4, <2>5, <2>7, <2>9, <2>10, <2>11 DEF Turns, Epoch
  <2> QED
    BY <2>12
<1> QED
  BY <1>2, <1>3, <1>4

\* A rollback and a bypass end whatever runs.
LEMMA StopTurns ==
    ASSUME Base, NEW stopped \in SUBSET Kind,
           NEW type \in {"stopped_for_rollback", "stopped_for_safety_bypass"},
           StopEverything(stopped, type)
    PROVE  stopped = Busy /\ \E N : Turns(stopped, N)
<1> DEFINE N == {NewEvent(slot[k].occ, type) : k \in stopped}
<1>1. stopped = Busy
  BY DEF StopEverything, ExpectedSlots, Busy
<1>2. type \notin StartEvent /\ type # "requalification_start"
  BY DEF StartEvent
<1>3. \A n \in N : n.type = type /\ n.sequence = NextSequence(n.subject)
  BY DEF NewEvent
<1>4. Writes(N)
  <2>1. \A m, n \in N : m.subject = n.subject => m = n
    BY DEF NewEvent
  <2> QED
    BY <1>3, <2>1 DEF Writes, StopEverything
<1>5. EndedBy(N) = {slot[k].occ : k \in stopped}
  <2>1. {f \in N : f.type \notin StartEvent} = N
    BY <1>2, <1>3
  <2>2. {e.subject : e \in N} = {slot[k].occ : k \in stopped}
    <3>1. \A k \in stopped : NewEvent(slot[k].occ, type).subject = slot[k].occ
      BY DEF NewEvent
    <3> QED
      BY <3>1
  <2> QED
    BY <2>1, <2>2 DEF EndedBy
<1>6. BeganBy(N) = {} /\ \A n \in N : Addressed(n)
  BY <1>2, <1>3 DEF BeganBy, Addressed
<1>7. LanesTurn(stopped, {})
  <2>1. \A j \in Kind : slot'[j].occ = IF j \in stopped THEN NoOccupant ELSE slot[j].occ
    BY DEF StopEverything, Cleared
  <2> QED
    BY <2>1 DEF LanesTurn
<1> HIDE DEF N
<1>8. Turns(stopped, N)
  BY <1>1, <1>4, <1>5, <1>6, <1>7 DEF Turns
<1> QED
  BY <1>1, <1>8

LEMMA TransitionTurns ==
    ASSUME Base, Explained, TransitionStep
    PROVE  \E K, N : Turns(K, N) /\ Epoch(K)
<1> SUFFICES ASSUME NEW rev \in 0 .. MaxRevision - 1, NEW stopped \in SUBSET Kind,
                    \/ \E c \in conclusions, automatic \in BOOLEAN :
                          Activate(rev, stopped, c, automatic)
                    \/ \E r \in receipts, automatic \in BOOLEAN :
                          Rollback(rev, stopped, r, automatic)
                    \/ \E p \in Profile : SafetyBypass(rev, stopped, p)
             PROVE  \E K, N : Turns(K, N) /\ Epoch(K)
  BY DEF TransitionStep
<1>1. ASSUME NEW p \in Profile, NEW mode \in Mode, AtRevision(rev), scope' = Successor(p, mode)
      PROVE  /\ scope # NoScope /\ scope' # NoScope /\ scope.rev = rev
             /\ scope'.rev = scope.rev + 1 /\ rev + 1 \in 1 .. MaxRevision
  BY <1>1, SuccessorType, NullAssumption DEF Base, AtRevision
<1>2. ASSUME NEW r \in receipts, NEW automatic \in BOOLEAN, Rollback(rev, stopped, r, automatic)
      PROVE  \E K, N : Turns(K, N) /\ Epoch(K)
  <2>1. r.from \in Profile /\ "normal" \in Mode
    BY DEF Base, Types, TypeOK, Receipt, Mode
  <2>2. Epoch(Busy)
    BY <1>1, <1>2, <2>1 DEF Rollback, Epoch
  <2>3. stopped = Busy /\ \E N : Turns(stopped, N)
    BY <1>2, StopTurns DEF Rollback
  <2> QED
    BY <2>2, <2>3
<1>3. ASSUME NEW p \in Profile, SafetyBypass(rev, stopped, p)
      PROVE  \E K, N : Turns(K, N) /\ Epoch(K)
  <2>1. Epoch(Busy)
    BY <1>1, <1>3 DEF SafetyBypass, Epoch, Mode
  <2>2. stopped = Busy /\ \E N : Turns(stopped, N)
    BY <1>3, StopTurns DEF SafetyBypass
  <2> QED
    BY <2>1, <2>2
<1>4. ASSUME NEW c \in conclusions, NEW automatic \in BOOLEAN, Activate(rev, stopped, c, automatic)
      PROVE  \E K, N : Turns(K, N) /\ Epoch(K)
  <2> DEFINE o == <<"canary", c.trial>>
             m == <<"monitor", rev + 1>>
             e == NewEvent(o, "canary_slot_cleared_for_activation")
             f == NewEvent(m, "post_promotion_monitor_started")
  <2>1. c.trial \in Trial /\ trial[c.trial] \in TrialRecord
    BY DEF Base, Types, TypeOK, TrialsExist
  <2>2. /\ scope # NoScope /\ scope' # NoScope /\ scope.rev = rev
        /\ scope'.rev = rev + 1 /\ rev + 1 \in 1 .. MaxRevision /\ rev \in Int
    <3>1. trial[c.trial].candidate.successor \in Profile
      BY <2>1 DEF TrialRecord, Candidate
    <3> QED
      <4>1. /\ AtRevision(rev) /\ "normal" \in Mode
            /\ scope' = Successor(trial[c.trial].candidate.successor, "normal")
        BY <1>4 DEF Activate, Mode
      <4> QED
        BY <1>1, <3>1, <4>1
  <2>3. /\ slot["canary"].occ = o /\ ~Occupied("monitor") /\ ~Occupied("requalification")
        /\ slot' = [slot EXCEPT !["canary"] = Cleared(@), !["monitor"] = Claimed(@, m)]
        /\ events' = events \cup {e, f}
    BY <1>4, <2>2 DEF Activate, MayActivate, NothingToDecide
  <2>4. o \in Occupant /\ m \in Occupant /\ o # NoOccupant
    BY <2>1, <2>2, NullAssumption DEF Occupant
  <2>5. m \notin BeganBy(events) /\ Met(m)'
    <3>1. ~Met(m)
      BY <2>2 DEF Met
    <3>2. Met(m)'
      BY <2>2 DEF Met
    <3> QED
      BY <3>1, <3>2 DEF Explained
  <2>6. EndedBy({e, f}) = {o} /\ BeganBy({e, f}) = {m}
    <3>1. /\ e.subject = o /\ e.type = "canary_slot_cleared_for_activation"
          /\ f.subject = m /\ f.type = "post_promotion_monitor_started"
      BY DEF NewEvent
    <3> HIDE DEF e, f, m, o
    <3>2. EndedBy({e}) = {o} /\ BeganBy({e}) = {} /\ EndedBy({f}) = {} /\ BeganBy({f}) = {m}
      BY <3>1, SetsOfOne DEF StartEvent
    <3>3. {e, f} = {e} \cup {f}
      OBVIOUS
    <3> QED
      BY <3>2, <3>3, SetsOfUnion
  <2>7. Writes({e, f}) /\ \A n \in {e, f} : Addressed(n)
    BY <2>3 DEF Writes, NewEvent, Addressed, StartEvent
  <2>8. \A j \in Kind : slot'[j].occ = IF j = "monitor" THEN m
                                       ELSE IF j \in {"canary"} THEN NoOccupant ELSE slot[j].occ
    BY <2>3 DEF Base, Types, TypeOK, Claimed, Cleared, Kind
  <2>9. {"canary"} = Busy /\ "monitor" \in Kind /\ {slot[k].occ : k \in {"canary"}} = {o}
    BY <2>3, <2>4 DEF Busy, Occupied, Kind
  <2> HIDE DEF o, m, e, f
  <2>10. LanesTurn({"canary"}, {m})
    BY <2>3, <2>4, <2>5, <2>8, <2>9 DEF LanesTurn
  <2>11. Turns({"canary"}, {e, f}) /\ Epoch({"canary"})
    BY <2>2, <2>5, <2>6, <2>7, <2>9, <2>10 DEF Turns, Epoch
  <2> QED
    BY <2>11
<1> QED
  BY <1>2, <1>3, <1>4

\* Every step leaves the operations alone, or turns some lanes.
LEMMA EveryStepTurns ==
    ASSUME Base, Explained, Next
    PROVE  \/ UNCHANGED <<slot, events>> /\ (scope' = scope \/ (scope = NoScope /\ scope'.rev = 0))
           \/ \E K, N : Turns(K, N) /\ Epoch(K)
<1>1. CASE AuthorityStep
  BY <1>1 DEF AuthorityStep, InitializeGenesis, ApproveCalibration, WithdrawCalibration
<1>2. CASE CanaryStep \/ TransitionStep \/ MonitorStep
  BY <1>2, CanaryTurns, TransitionTurns, MonitorTurns
<1> QED
  BY <1>1, <1>2 DEF Next

\* What was met stays met.
LEMMA MetStays == ASSUME Base, Next PROVE \A o \in Occupant : Met(o) => Met(o)'
<1> SUFFICES ASSUME NEW o \in Occupant, Met(o) PROVE Met(o)'
  OBVIOUS
<1>1. CASE o[1] = "canary"
  <2>1. o[2] \in Trial
    BY <1>1 DEF Occupant
  <2> QED
    BY <1>1, <2>1, RecordsStay DEF Base, Met
<1>2. CASE o[1] # "canary"
  <2>1. scope # NoScope /\ o[2] <= scope.rev /\ o[2] \in Nat /\ scope.rev \in Nat
    BY <1>2 DEF Met, Occupant, Base, Types, TypeOK, Scope
  <2>2. scope' # NoScope /\ (scope' = scope \/ scope'.rev = scope.rev + 1)
    BY <2>1, ReceiptSteps, SuccessorType, NullAssumption DEF Base, InitializeGenesis, AtRevision
  <2> QED
    BY <1>2, <2>1, <2>2 DEF Met
<1> QED
  BY <1>1, <1>2

\* The streams are inductive with the types and what runs.
StreamInv == Base /\ Streams

LEMMA InitStreams == Init => StreamInv
<1> SUFFICES ASSUME Init PROVE StreamInv
  OBVIOUS
<1>1. events = {} /\ \A k \in Kind : ~Occupied(k)
  BY DEF Init, Occupied
<1>2. BeganBy(events) = {} /\ EndedBy(events) = {} /\ Live = {}
  BY <1>1 DEF BeganBy, EndedBy, Live, Busy
<1> QED
  BY <1>1, <1>2, InitBase DEF StreamInv, Streams, Sequenced, Explained

LEMMA StepStreams == StreamInv /\ [Next]_vars => StreamInv'
<1> SUFFICES ASSUME StreamInv, [Next]_vars PROVE StreamInv'
  OBVIOUS
<1>0. Base /\ Base' /\ Sequenced /\ Explained
  BY StepBase DEF StreamInv, Streams
<1>1. ASSUME UNCHANGED <<slot, events>>, \A o \in Occupant : Met(o) => Met(o)'
      PROVE  Streams'
  <2>1. Sequenced'
    BY <1>0, <1>1 DEF Sequenced, NextSequence
  <2>2. Live' = Live /\ BeganBy(events)' = BeganBy(events) /\ EndedBy(events)' = EndedBy(events)
    BY <1>1 DEF Live, Busy, Occupied, BeganBy, EndedBy
  <2>3. Explained'
    BY <1>0, <1>1, <2>2 DEF Explained, Addressed
  <2> QED
    BY <2>1, <2>3 DEF Streams
<1>2. CASE UNCHANGED vars
  BY <1>0, <1>1, <1>2 DEF vars, Met, StreamInv
<1>3. CASE Next
  <2>1. \A o \in Occupant : Met(o) => Met(o)'
    BY <1>0, <1>3, MetStays
  <2>2. ASSUME NEW K, NEW N, Turns(K, N) PROVE Streams'
    <3>1. Sequenced'
      BY <1>0, <2>2, SequencedStep DEF Base, Types, TypeOK, Turns
    <3>2. Explained'
      BY <1>0, <2>1, <2>2, ExplainedStep DEF Base, Types
    <3> QED
      BY <3>1, <3>2 DEF Streams
  <2> QED
    BY <1>0, <1>1, <1>3, <2>1, <2>2, EveryStepTurns DEF StreamInv
<1> QED
  BY <1>2, <1>3

\* What the invariant says of the slots and the streams.
LEMMA StreamsExplain == StreamInv => EventsExplainSlots
<1> SUFFICES ASSUME StreamInv PROVE EventsExplainSlots
  OBVIOUS
<1>1. Began = BeganBy(events)
  BY DEF Began, BeganBy
<1>2. \A o : EndOf(o) = {} <=> o \notin EndedBy(events)
  BY DEF EndOf, EndedBy
<1>3. Live = {o \in Began : EndOf(o) = {}}
  BY <1>1, <1>2 DEF StreamInv, Streams, Explained
<1>4. ASSUME NEW o \in Began PROVE Cardinality(EndOf(o)) <= 1
  <2>1. CASE EndOf(o) = {}
    BY <2>1, FS_EmptySet
  <2>2. ASSUME NEW e \in EndOf(o) PROVE Cardinality(EndOf(o)) <= 1
    <3>1. EndOf(o) = {e}
      BY <2>2 DEF EndOf, StreamInv, Streams, Explained
    <3>2. Cardinality({e}) = 1
      BY FS_Singleton
    <3> QED
      BY <3>1, <3>2
  <2> QED
    BY <2>1, <2>2
<1> QED
  BY <1>3, <1>4 DEF EventsExplainSlots, Live, Busy, StreamInv, Streams, Sequenced

\* The event streams tell what runs: whoever folds domain_events finds the
\* occupants of the slots, an end at most once, and no sequence used twice.
THEOREM StreamsTellWhatRuns == Spec => []EventsExplainSlots
<1>1. StreamInv => EventsExplainSlots
  BY StreamsExplain
<1> QED
  BY <1>1, InitStreams, StepStreams, PTL DEF Spec

\* A turn of some lanes is a turn of the abstract lanes.
LEMMA TurnsRefine ==
    ASSUME StreamInv, StreamInv', NEW K, NEW N, Turns(K, N)
    PROVE  K \subseteq Exclusive!Busy /\ Exclusive!Turn(K)
<1> DEFINE lane == [k \in Kind |-> slot[k].occ]
           freed == [k \in Kind |-> IF k \in K THEN NoOccupant ELSE lane[k]]
           ended == {o \in Began : EndOf(o) # {}}
<1>1. ended = EndedBy(events) /\ ended' = EndedBy(events')
  <2>1. Began = BeganBy(events) /\ Began' = BeganBy(events')
    BY DEF Began, BeganBy
  <2>2. \A o : (EndOf(o) # {} <=> o \in EndedBy(events)) /\ (EndOf(o)' # {} <=> o \in EndedBy(events'))
    BY DEF EndOf, EndedBy
  <2> QED
    BY <2>1, <2>2 DEF StreamInv, Streams, Explained
<1>0. K \subseteq Busy /\ Busy \subseteq Kind
  BY DEF Turns, Busy
<1>2. ended' = ended \cup {lane[k] : k \in K}
  <2>1. EndedBy(events') = EndedBy(events) \cup EndedBy(N)
    BY SetsOfUnion DEF Turns, Writes
  <2>2. EndedBy(N) = {lane[k] : k \in K}
    <3>1. \A k \in K : lane[k] = slot[k].occ
      BY <1>0
    <3> QED
      BY <3>1 DEF Turns
  <2> QED
    BY <1>1, <2>1, <2>2
<1>3. K \subseteq Exclusive!Busy
  BY DEF Exclusive!Busy, Turns, Busy, Occupied
<1>4. \/ lane' = freed
      \/ \E k \in Kind, o \in Occupant :
            /\ freed[k] = NoOccupant
            /\ o \notin ended' /\ \A j \in Kind : lane[j] # o
            /\ lane' = [freed EXCEPT ![k] = o]
  <2>1. CASE \A j \in Kind : slot'[j].occ = IF j \in K THEN NoOccupant ELSE slot[j].occ
    BY <2>1
  <2>2. ASSUME NEW k \in Kind, NEW o \in Occupant, o \notin BeganBy(events),
               k \in K \/ ~Occupied(k),
               \A j \in Kind : slot'[j].occ = IF j = k THEN o
                                              ELSE IF j \in K THEN NoOccupant ELSE slot[j].occ
        PROVE  /\ freed[k] = NoOccupant
               /\ o \notin ended' /\ \A j \in Kind : lane[j] # o
               /\ lane' = [freed EXCEPT ![k] = o]
    <3>1. freed[k] = NoOccupant /\ lane' = [freed EXCEPT ![k] = o]
      BY <2>2 DEF Occupied
    <3>2. Live = BeganBy(events) \ EndedBy(events) /\ EndedBy(events) \subseteq BeganBy(events)
      BY DEF StreamInv, Streams, Explained
    <3>3. \A j \in Kind : lane[j] # o
      BY <2>2, <3>2, NullAssumption DEF Live, Busy, Occupied
    <3>4. \A j \in K : lane[j] # o
      BY <1>0, <3>3
    <3> QED
      BY <1>1, <1>2, <2>2, <3>1, <3>2, <3>3, <3>4
  <2> QED
    BY <2>1, <2>2 DEF Turns, LanesTurn
<1> QED
  BY <1>2, <1>3, <1>4 DEF Exclusive!Turn

\* Every step of the coordinators is one of the abstract lanes, or leaves them alone.
LEMMA StepRefines ==
    StreamInv /\ StreamInv' /\ [Next]_vars => [Exclusive!ExclusiveNext]_(Exclusive!exclusiveVars)
<1> SUFFICES ASSUME StreamInv, StreamInv', [Next]_vars
             PROVE  Exclusive!ExclusiveNext \/ UNCHANGED Exclusive!exclusiveVars
  OBVIOUS
<1> DEFINE epoch == IF scope = NoScope THEN 0 ELSE scope.rev
<1>1. ASSUME UNCHANGED <<slot, events>>, epoch' = epoch PROVE UNCHANGED Exclusive!exclusiveVars
  BY <1>1 DEF Exclusive!exclusiveVars, Began, EndOf
<1>2. CASE UNCHANGED vars
  BY <1>1, <1>2 DEF vars
<1>3. ASSUME NEW K, NEW N, Turns(K, N), Epoch(K) PROVE Exclusive!ExclusiveNext
  <2>1. K \subseteq Exclusive!Busy /\ Exclusive!Turn(K)
    BY <1>3, TurnsRefine
  <2>2. CASE scope' = scope
    <3>1. epoch' = epoch
      BY <2>2
    <3> QED
      BY <2>1, <3>1 DEF Exclusive!ExclusiveNext, Exclusive!Operate
  <2>3. CASE scope'.rev = scope.rev + 1 /\ K = Busy
    <3>1. epoch' = epoch + 1
      BY <1>3, <2>3 DEF Epoch
    <3>2. Exclusive!Busy = Busy
      BY DEF Exclusive!Busy, Busy, Occupied
    <3>3. K = Exclusive!Busy
      BY <2>3, <3>2
    <3>4. Exclusive!Turn(Exclusive!Busy)
      BY <2>1, <3>3 DEF Exclusive!Turn
    <3>5. Exclusive!Advance
      BY <3>1, <3>4 DEF Exclusive!Advance
    <3> QED
      BY <3>5 DEF Exclusive!ExclusiveNext
  <2> QED
    BY <1>3, <2>2, <2>3 DEF Epoch
<1>4. CASE Next
  <2>1. CASE UNCHANGED <<slot, events>> /\ (scope' = scope \/ (scope = NoScope /\ scope'.rev = 0))
    <3>1. epoch' = epoch
      BY <2>1
    <3> QED
      BY <1>1, <2>1, <3>1
  <2> QED
    BY <1>3, <1>4, <2>1, EveryStepTurns DEF StreamInv, Streams
<1> QED
  BY <1>2, <1>4

LEMMA InitRefines == Init => Exclusive!ExclusiveInit
<1> SUFFICES ASSUME Init PROVE Exclusive!ExclusiveInit
  OBVIOUS
<1>1. [k \in Kind |-> slot[k].occ] = [k \in Kind |-> NoOccupant]
  BY DEF Init
<1>2. {o \in Began : EndOf(o) # {}} = {}
  BY DEF Init, EndOf
<1> QED
  BY <1>1, <1>2 DEF Init, Exclusive!ExclusiveInit

\* The coordinators of canary, activation, rollback, bypass, monitoring and
\* requalification implement the exclusive operations, for any number of trials,
\* profiles and revisions.
THEOREM OperationsAreExclusive == Spec => ImplementsExclusiveOperations
<1>1. Init => StreamInv /\ Exclusive!ExclusiveInit
  BY InitStreams, InitRefines
<1>2. StreamInv /\ [Next]_vars => StreamInv'
  BY StepStreams
<1>3. StreamInv /\ StreamInv' /\ [Next]_vars
         => [Exclusive!ExclusiveNext]_(Exclusive!exclusiveVars)
  BY StepRefines
<1> QED
  BY <1>1, <1>2, <1>3, PTL DEF Spec, ImplementsExclusiveOperations, Exclusive!ExclusiveSpec
=============================================================================
