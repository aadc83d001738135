----------------------------- MODULE ConfigSync -----------------------------
(***************************************************************************)
(* The configuration round trips of src/web_configurator/www/main.js:     *)
(*   - loadAllUntilSuccess(), the load-all loop guarded by the module     *)
(*     flag loadAllLoopActive: loadAll() is called until it returns true, *)
(*     with a one-second sleep after each failure;                         *)
(*   - loadAll(): GET /api/get_all, then res.json(); on success the form  *)
(*     is filled from the reply (populateFromState()) and every group's   *)
(*     baseline is snapshotted and its Save button disabled               *)
(*     (snapshotAll());                                                    *)
(*   - saveHalow(), saveLbt(), saveNet(), saveTcp(): POST the group's     *)
(*     form, ignore the outcome, then call loadAllUntilSuccess();         *)
(*   - the dirty tracking: an input event on a group's field enables its  *)
(*     Save button when the form differs from the baseline;               *)
(*   - the device, which applies a POSTed group and answers get_all with  *)
(*     its configuration at the time it handles the request.              *)
(* A group's form is one value: the fields of a group are read, posted,   *)
(* populated and snapshotted together.                                     *)
(***************************************************************************)
EXTENDS Naturals

CONSTANTS
    Groups,  \* halow, lbt, net, tcp
    Vals,    \* the values a group's configuration may hold
    Shown,   \* those the group's controls can display (a select's options)
    Empty    \* the initial baseline ''

ASSUME ConstantsAssumption ==
    /\ Groups # {}
    /\ Shown # {}
    /\ Shown \subseteq Vals
    /\ Empty \notin Vals

VARIABLES
    devCfg,       \* the device's configuration
    form,         \* the form controls of each group
    baseline,     \* baselines[group]
    saveDisabled, \* the disabled flag of each group's Save button
    saving,       \* where each group's save handler is
    payload,      \* the payload of a group's save in progress
    loadAllLoopActive, \* the module flag of the same name
    loop,         \* where the load-all loop is
    get,          \* the loop's get_all request, or its reply
    body          \* the configuration an ok get_all reply carries

vars == <<devCfg, form, baseline, saveDisabled, saving, payload,
          loadAllLoopActive, loop, get, body>>

SaveStates == {"none", "inflight", "settled"}
\* "inflight": awaiting the POST; "settled": the POST resolved or
\* rejected (the handler does not look at which).

LoopStates == {"idle", "loading", "sleeping"}

\* get_all: nothing pending, the request in flight, a reply that is not
\* ok, a rejected fetch(), or an ok reply (its configuration in body).
GetStates == {"none", "inflight", "rejected", "failed", "ok"}

-----------------------------------------------------------------------------
\* After DOMContentLoaded: setupDirtyTracking() disabled every Save button,
\* the baselines are '' and loadAllUntilSuccess() has posted the first
\* get_all. The form holds the page's initial values.
Init ==
    /\ devCfg \in [Groups -> Vals]
    /\ form \in [Groups -> Shown]
    /\ baseline = [g \in Groups |-> Empty]
    /\ saveDisabled = [g \in Groups |-> TRUE]
    /\ saving = [g \in Groups |-> "none"]
    /\ payload \in [Groups -> Vals]
    /\ loadAllLoopActive = TRUE
    /\ loop = "loading"
    /\ get = "inflight"
    /\ body = devCfg

\* loadAllUntilSuccess() up to its first await: it returns at once when
\* the loop is already running, otherwise it sets the flag and posts
\* get_all.
LoadAllUntilSuccess ==
    IF loadAllLoopActive
      THEN UNCHANGED <<loadAllLoopActive, loop, get>>
      ELSE /\ loadAllLoopActive' = TRUE
           /\ loop' = "loading"
           /\ get' = "inflight"

-----------------------------------------------------------------------------
(* The user.                                                               *)

\* An input or change event on a field of group g: updateSaveButton(g).
EditField(g) ==
    \E v \in Shown :
        /\ form' = [form EXCEPT ![g] = v]
        /\ saveDisabled' = [saveDisabled EXCEPT ![g] = (v = baseline[g])]
        /\ UNCHANGED <<devCfg, baseline, saving, payload, loadAllLoopActive, loop, get, body>>

\* A click on g's enabled Save button: the handler reads the form and
\* posts it. One save per group is in flight at a time (bound).
SaveClick(g) ==
    /\ ~saveDisabled[g]
    /\ saving[g] = "none"
    /\ payload' = [payload EXCEPT ![g] = form[g]]
    /\ saving' = [saving EXCEPT ![g] = "inflight"]
    /\ UNCHANGED <<devCfg, form, baseline, saveDisabled, loadAllLoopActive, loop, get, body>>

\* The POST resolves or rejects; either way the handler goes on and calls
\* loadAllUntilSuccess().
SaveReturn(g) ==
    /\ saving[g] = "settled"
    /\ saving' = [saving EXCEPT ![g] = "none"]
    /\ LoadAllUntilSuccess
    /\ UNCHANGED <<devCfg, form, baseline, saveDisabled, payload, body>>

-----------------------------------------------------------------------------
(* The load-all loop.                                                      *)

\* populateFromState(): setInput(), setSelect() and setCheckbox() show the
\* device's value, except that a value the control cannot show (a key
\* the reply lacks, a select option that does not exist) leaves the
\* control untouched.
PopulateFromState(cfg) ==
    form' = [g \in Groups |-> IF cfg[g] \in Shown THEN cfg[g] ELSE form[g]]

\* Mutant: snapshotGroup() without its closing updateSaveButton().
SnapshotAllNoButtonUpdate ==
    /\ baseline' = form'
    /\ UNCHANGED saveDisabled

\* snapshotAll(): each group's baseline becomes the snapshot of its form,
\* then updateSaveButton() compares the form with it.
SnapshotAll ==
    /\ baseline' = form'
    /\ saveDisabled' = [g \in Groups |-> form'[g] = baseline'[g]]

\* Mutant: a successful loadAll() does not break the loop.
LoadSucceededNoBreak ==
    /\ get = "ok"
    /\ PopulateFromState(body)
    /\ SnapshotAll
    /\ loop' = "sleeping"
    /\ get' = "none"
    /\ UNCHANGED <<devCfg, saving, payload, loadAllLoopActive, body>>

\* An ok reply whose body parses: loadAll() populates and returns true,
\* the loop breaks and loadAllLoopActive is cleared.
LoadSucceeded ==
    /\ get = "ok"
    /\ PopulateFromState(body)
    /\ SnapshotAll
    /\ loadAllLoopActive' = FALSE
    /\ loop' = "idle"
    /\ get' = "none"
    /\ UNCHANGED <<devCfg, saving, payload, body>>

\* loadAll() returns false: the reply was not ok, fetch() rejected, or
\* res.json() rejected; the loop sleeps one second.
LoadFailed ==
    /\ get \in {"rejected", "failed", "ok"}
    /\ loop' = "sleeping"
    /\ get' = "none"
    /\ UNCHANGED <<devCfg, form, baseline, saveDisabled, saving, payload,
                   loadAllLoopActive, body>>

\* The sleep ends and loadAll() posts get_all again.
LoopWake ==
    /\ loop = "sleeping"
    /\ loop' = "loading"
    /\ get' = "inflight"
    /\ UNCHANGED <<devCfg, form, baseline, saveDisabled, saving, payload,
                   loadAllLoopActive, body>>

-----------------------------------------------------------------------------
(* The channel and the device.                                             *)

\* The device handles get_all and answers with its configuration now.
DeviceGetAll ==
    /\ get = "inflight"
    /\ get' = "ok"
    /\ body' = devCfg
    /\ UNCHANGED <<devCfg, form, baseline, saveDisabled, saving, payload,
                   loadAllLoopActive, loop>>

\* get_all gets a reply that is not ok, or is lost.
GetAllFailed ==
    /\ get = "inflight"
    /\ get' \in {"rejected", "failed"}
    /\ UNCHANGED <<devCfg, form, baseline, saveDisabled, saving, payload,
                   loadAllLoopActive, loop, body>>

\* The device applies a POSTed group (the reply may still be lost).
DeviceSave(g) ==
    /\ saving[g] = "inflight"
    /\ devCfg' = [devCfg EXCEPT ![g] = payload[g]]
    /\ saving' = [saving EXCEPT ![g] = "settled"]
    /\ UNCHANGED <<form, baseline, saveDisabled, payload, loadAllLoopActive, loop, get, body>>

\* The POST is lost or refused before the device applies it.
SaveFailed(g) ==
    /\ saving[g] = "inflight"
    /\ saving' = [saving EXCEPT ![g] = "settled"]
    /\ UNCHANGED <<devCfg, form, baseline, saveDisabled, payload,
                   loadAllLoopActive, loop, get, body>>

-----------------------------------------------------------------------------
Next ==
    \/ LoadSucceeded
    \/ LoadFailed
    \/ LoopWake
    \/ DeviceGetAll
    \/ GetAllFailed
    \/ \E g \in Groups :
          \/ EditField(g)
          \/ SaveClick(g)
          \/ SaveReturn(g)
          \/ DeviceSave(g)
          \/ SaveFailed(g)

\* The browser runs every pending continuation and timer; the device
\* eventually answers a get_all with a configuration that parses (strong
\* fairness: it may fail any finite number of times before). The user is
\* not assumed to act.
Fairness ==
    /\ WF_vars(LoopWake)
    /\ WF_vars(DeviceGetAll \/ GetAllFailed)
    /\ WF_vars(LoadSucceeded \/ LoadFailed)
    /\ SF_vars(DeviceGetAll)
    /\ SF_vars(LoadSucceeded)
    /\ \A g \in Groups : WF_vars(DeviceSave(g) \/ SaveFailed(g))
                        /\ WF_vars(SaveReturn(g))

Spec == Init /\ [][Next]_vars

FairSpec == Spec /\ Fairness

-----------------------------------------------------------------------------
(* Properties.                                                             *)

TypeOK ==
    /\ devCfg \in [Groups -> Vals]
    /\ form \in [Groups -> Shown]
    /\ baseline \in [Groups -> Vals \cup {Empty}]
    /\ saveDisabled \in [Groups -> BOOLEAN]
    /\ saving \in [Groups -> SaveStates]
    /\ payload \in [Groups -> Vals]
    /\ loadAllLoopActive \in BOOLEAN
    /\ loop \in LoopStates
    /\ get \in GetStates
    /\ body \in [Groups -> Vals]

\* Once a group has a baseline, its Save button is enabled exactly when
\* its form differs from the baseline, whatever reloads land between the
\* user's edits.
SaveButtonTracksDirty ==
    \A g \in Groups :
        baseline[g] # Empty => (saveDisabled[g] <=> form[g] = baseline[g])

\* "On completion the full configuration is reloaded" (saveHalow() and the
\* other save handlers): once no save and no load is pending, every group
\* shown as saved (Save disabled) shows the device's configuration.
ShownSavedIsDeviceConfig ==
    (~loadAllLoopActive /\ \A g \in Groups : saving[g] = "none") =>
        \A g \in Groups : saveDisabled[g] => form[g] = devCfg[g]

\* The load-all loop started at page load or by a save ends.
LoadLoopEnds == loadAllLoopActive ~> ~loadAllLoopActive

=============================================================================
