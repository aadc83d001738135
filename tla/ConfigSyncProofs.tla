------------------------- MODULE ConfigSyncProofs --------------------------
(***************************************************************************)
(* Proofs about ConfigSync for every set of groups and values: the types  *)
(* are kept, and a group's Save button tracks its dirtiness, whatever     *)
(* edits, saves and reloads interleave.                                    *)
(***************************************************************************)
EXTENDS ConfigSync, TLAPS

\* The invariant: SaveButtonTracksDirty is inductive once the types are.
IInv == TypeOK /\ SaveButtonTracksDirty

LEMMA InitIInv == Init => IInv
BY DEF Init, IInv, TypeOK, SaveButtonTracksDirty, SaveStates, LoopStates,
       GetStates

\* loadAllUntilSuccess() keeps the loop's variables in their types.
LEMMA LoadAllUntilSuccessType ==
    ASSUME TypeOK, LoadAllUntilSuccess
    PROVE  /\ loadAllLoopActive' \in BOOLEAN
           /\ loop' \in LoopStates
           /\ get' \in GetStates
BY DEF TypeOK, LoadAllUntilSuccess, LoopStates, GetStates

LEMMA NextIInv == IInv /\ [Next]_vars => IInv'
<1> SUFFICES ASSUME IInv, [Next]_vars PROVE IInv'
    OBVIOUS
<1> USE DEF IInv, TypeOK, SaveButtonTracksDirty, SaveStates, LoopStates,
            GetStates
<1>1. CASE LoadSucceeded
  <2>1. form' \in [Groups -> Shown]
    BY <1>1 DEF LoadSucceeded, PopulateFromState
  <2>2. /\ baseline' = form'
        /\ saveDisabled' = [g \in Groups |-> TRUE]
    BY <1>1 DEF LoadSucceeded, SnapshotAll
  <2>3. TypeOK'
    BY <1>1, <2>1, <2>2, ConstantsAssumption DEF LoadSucceeded
  <2>4. SaveButtonTracksDirty'
    BY <2>2
  <2>5. QED
    BY <2>3, <2>4
<1>2. CASE LoadFailed
  BY <1>2 DEF LoadFailed
<1>3. CASE LoopWake
  BY <1>3 DEF LoopWake
<1>4. CASE DeviceGetAll
  BY <1>4 DEF DeviceGetAll
<1>5. CASE GetAllFailed
  BY <1>5 DEF GetAllFailed
<1>6. ASSUME NEW g \in Groups, EditField(g) PROVE IInv'
  <2>1. PICK v \in Shown :
            /\ form' = [form EXCEPT ![g] = v]
            /\ saveDisabled' = [saveDisabled EXCEPT ![g] = (v = baseline[g])]
            /\ UNCHANGED <<devCfg, baseline, saving, payload, loadAllLoopActive,
                           loop, get, body>>
    BY <1>6 DEF EditField
  <2>2. TypeOK'
    BY <2>1
  <2>3. SaveButtonTracksDirty'
    BY <2>1
  <2>4. QED
    BY <2>2, <2>3
<1>7. ASSUME NEW g \in Groups, SaveClick(g) PROVE IInv'
  BY <1>7, ConstantsAssumption DEF SaveClick
<1>8. ASSUME NEW g \in Groups, SaveReturn(g) PROVE IInv'
  BY <1>8, LoadAllUntilSuccessType DEF SaveReturn
<1>9. ASSUME NEW g \in Groups, DeviceSave(g) PROVE IInv'
  BY <1>9 DEF DeviceSave
<1>10. ASSUME NEW g \in Groups, SaveFailed(g) PROVE IInv'
  BY <1>10 DEF SaveFailed
<1>11. CASE UNCHANGED vars
  BY <1>11 DEF vars
<1>12. QED
  BY <1>1, <1>2, <1>3, <1>4, <1>5, <1>6, <1>7, <1>8, <1>9, <1>10, <1>11
     DEF Next

\* The configuration groups keep their types: the form and the device hold
\* values, baselines are values or '' and every flag is Boolean.
THEOREM TypeCorrect == Spec => []TypeOK
<1>1. Spec => []IInv
  BY InitIInv, NextIInv, PTL DEF Spec
<1>2. QED
  BY <1>1, PTL DEF IInv

\* Whatever edits (updateSaveButton), saves and reloads (populateFromState
\* and snapshotAll) interleave, a group with a baseline has its Save button
\* enabled exactly when its form differs from the baseline.
THEOREM SaveButtonCorrect == Spec => []SaveButtonTracksDirty
<1>1. Spec => []IInv
  BY InitIInv, NextIInv, PTL DEF Spec
<1>2. QED
  BY <1>1, PTL DEF IInv

=============================================================================
