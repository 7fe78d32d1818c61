-------------------------- MODULE PersistedUiState --------------------------
(***************************************************************************)
(* The console's layout (usePersistedUiState, useInitialColumnsHydration)  *)
(* and its copy in the API's registry: a page reads the terminals and the  *)
(* saved layout, shows it, and PATCHes the whole layout 250 ms after its   *)
(* last change, unless it equals what the page last knew to be saved.  A   *)
(* layout is a setting and the terminals whose panels are open.            *)
(***************************************************************************)
EXTENDS Naturals, SequencesExt

CONSTANTS
  Settings, DefaultSetting,
  UiTerminals,
  MaxUiChanges,   \* bound: changes by the user
  MaxUiFaults     \* bound: failed requests

ASSUME DefaultIsASetting == DefaultSetting \in Settings /\ "none" \notin Settings

VARIABLES
  savedUi,        \* uiState of the registry, or NothingSaved
  uiTerminals,    \* the terminals of the API
  uiColumns,      \* the page's copy
  uiHydrated,     \* isUiStateHydrated
  shownUi,        \* the page's layout
  lastPersisted,  \* lastPersistedUiStateRef, null is NothingSaved
  saveTimers,     \* the payloads that timers are set for
  uiPatches,      \* the PATCHes under way, oldest first: [applied, payload]
  uiChanges, uiFaults,
  unsaved         \* history: why the page may differ from the registry

uiVars == <<savedUi, uiTerminals, uiColumns, uiHydrated, shownUi, lastPersisted, saveTimers,
            uiPatches, uiChanges, uiFaults, unsaved>>

Layouts == [setting : Settings, open : SUBSET UiTerminals]
NothingSaved == [setting |-> "none", open |-> {}]
DefaultLayout == [setting |-> DefaultSetting, open |-> {}]
Retained(layout, terminals) == [layout EXCEPT !.open = @ \cap terminals]
UiFault == uiFaults < MaxUiFaults /\ uiFaults' = uiFaults + 1

UiInit ==
  /\ savedUi \in {NothingSaved} \cup Layouts /\ uiTerminals = UiTerminals
  /\ uiColumns = {} /\ uiHydrated = FALSE
  /\ shownUi = DefaultLayout /\ lastPersisted = NothingSaved
  /\ saveTimers = {} /\ uiPatches = << >>
  /\ uiChanges = 0 /\ uiFaults = 0 /\ unsaved = {}

-----------------------------------------------------------------------------
\* Slip: the timer of the change before is left running.
AfterRender_KeepsTimer(layout, persisted) ==
  saveTimers' = IF persisted = layout THEN saveTimers ELSE saveTimers \cup {layout}
\* The effect after a render that changed the layout: the timer before is
\* cleared, and one is set unless the layout is the one known to be saved.
AfterRender(layout, persisted) ==
  saveTimers' = IF persisted = layout THEN {} ELSE {layout}

\* useInitialColumnsHydration with both reads; what is saved of terminals that
\* are gone is left out.
Hydrate(columns) ==
  /\ ~uiHydrated /\ uiHydrated' = TRUE
  /\ uiTerminals \subseteq columns /\ uiColumns' = columns
  /\ shownUi' = Retained(IF savedUi = NothingSaved THEN shownUi ELSE savedUi, columns)
  /\ lastPersisted' = Retained(IF savedUi = NothingSaved THEN DefaultLayout ELSE savedUi, columns)
  /\ AfterRender(shownUi', lastPersisted')
  /\ UNCHANGED <<savedUi, uiTerminals, uiPatches, uiChanges, uiFaults, unsaved>>
\* A layout that cannot be read counts as the default.
HydrateWithoutLayout ==
  /\ ~uiHydrated /\ uiHydrated' = TRUE /\ UiFault
  /\ uiColumns' = uiTerminals
  /\ shownUi' = Retained(shownUi, uiTerminals) /\ lastPersisted' = DefaultLayout
  /\ AfterRender(shownUi', lastPersisted') /\ unsaved' = {"not read"}
  /\ UNCHANGED <<savedUi, uiTerminals, uiPatches, uiChanges>>
\* Without the terminals the layout is not applied, and soon overwritten.
HydrateWithoutTerminals ==
  /\ ~uiHydrated /\ uiHydrated' = TRUE /\ UiFault
  /\ uiColumns' = {} /\ shownUi' = Retained(shownUi, {})
  /\ AfterRender(shownUi', lastPersisted)
  /\ UNCHANGED <<savedUi, uiTerminals, lastPersisted, uiPatches, uiChanges, unsaved>>

Shows(layout) ==
  /\ shownUi' = layout
  /\ IF uiHydrated THEN AfterRender(layout, lastPersisted) ELSE UNCHANGED saveTimers
  \* History: back to the layout known to be saved while another is being saved.
  /\ unsaved' = IF layout = lastPersisted /\ uiPatches # << >> THEN unsaved \cup {"undone"}
                ELSE unsaved
\* The user changes a setting, opens or closes a panel.
UserChanges(layout) ==
  /\ uiChanges < MaxUiChanges /\ uiChanges' = uiChanges + 1
  /\ layout # shownUi /\ layout.open \ shownUi.open \subseteq uiColumns /\ Shows(layout)
  /\ UNCHANGED <<savedUi, uiTerminals, uiColumns, uiHydrated, lastPersisted, uiPatches, uiFaults>>

UiTerminalDeleted(t) ==
  /\ uiTerminals' = uiTerminals \ {t} /\ t \in uiTerminals
  /\ UNCHANGED <<savedUi, uiColumns, uiHydrated, shownUi, lastPersisted, saveTimers, uiPatches,
                 uiChanges, uiFaults, unsaved>>
\* The page hears of it, and the effect on columns leaves the terminal out.
ColumnsChange ==
  /\ uiHydrated /\ uiColumns # uiTerminals /\ uiColumns' = uiTerminals
  /\ IF Retained(shownUi, uiTerminals) = shownUi THEN UNCHANGED <<shownUi, saveTimers, unsaved>>
     ELSE Shows(Retained(shownUi, uiTerminals))
  /\ UNCHANGED <<savedUi, uiTerminals, uiHydrated, lastPersisted, uiPatches, uiChanges, uiFaults>>

-----------------------------------------------------------------------------
\* The debounce is over.  History: this PATCH carries all that was unsaved.
TimerFires(layout) ==
  /\ layout \in saveTimers /\ saveTimers' = saveTimers \ {layout}
  /\ uiPatches' = Append(uiPatches, [applied |-> FALSE, payload |-> layout])
  /\ unsaved' = {}
  /\ UNCHANGED <<savedUi, uiTerminals, uiColumns, uiHydrated, shownUi, lastPersisted, uiChanges,
                 uiFaults>>

\* Requests, and their answers, may overtake one another.
Overtakes(n, k) == k < n /\ ~uiPatches[k].applied
\* patchUiState: every key of the payload is set.
PatchUiState(n) ==
  /\ ~uiPatches[n].applied /\ savedUi' = uiPatches[n].payload
  /\ uiPatches' = [uiPatches EXCEPT ![n].applied = TRUE]
  /\ unsaved' = IF \E k \in DOMAIN uiPatches : Overtakes(n, k) THEN unsaved \cup {"overtaken"}
                ELSE unsaved
  /\ UNCHANGED <<uiTerminals, uiColumns, uiHydrated, shownUi, lastPersisted, saveTimers, uiChanges,
                 uiFaults>>
PatchAnswered(n) ==
  /\ uiPatches[n].applied /\ lastPersisted' = uiPatches[n].payload
  /\ uiPatches' = RemoveAt(uiPatches, n)
  /\ unsaved' = IF n > 1 THEN unsaved \cup {"overtaken"} ELSE unsaved
  /\ UNCHANGED <<savedUi, uiTerminals, uiColumns, uiHydrated, shownUi, saveTimers, uiChanges,
                 uiFaults>>
\* A warning on the console, and no other try.
PatchFails(n) ==
  /\ UiFault /\ uiPatches' = RemoveAt(uiPatches, n) /\ unsaved' = unsaved \cup {"failed"}
  /\ UNCHANGED <<savedUi, uiTerminals, uiColumns, uiHydrated, shownUi, lastPersisted, saveTimers,
                 uiChanges>>

UiNext ==
  \/ \E columns \in SUBSET UiTerminals : Hydrate(columns)
  \/ HydrateWithoutLayout \/ HydrateWithoutTerminals
  \/ \E layout \in Layouts : UserChanges(layout)
  \/ \E t \in UiTerminals : UiTerminalDeleted(t)
  \/ ColumnsChange
  \/ \E layout \in saveTimers : TimerFires(layout)
  \/ \E n \in DOMAIN uiPatches : PatchUiState(n) \/ PatchAnswered(n) \/ PatchFails(n)
UiSpec == UiInit /\ [][UiNext]_uiVars

-----------------------------------------------------------------------------
\* Once no timer is set and no PATCH under way the registry holds the layout the
\* page shows, for the terminals it shows, unless the saved one could not be read,
\* a PATCH failed or was overtaken, or a change was undone while it was being
\* saved, and nothing was saved since.
QuietPageIsSaved ==
  uiHydrated /\ saveTimers = {} /\ uiPatches = << >> /\ unsaved = {} =>
    shownUi = IF savedUi = NothingSaved THEN DefaultLayout ELSE Retained(savedUi, uiColumns)
=============================================================================
