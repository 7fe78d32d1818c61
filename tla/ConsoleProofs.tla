---------------------------- MODULE ConsoleProofs ----------------------------
(***************************************************************************)
(* What the console's pages promise, for any number of requests, changes   *)
(* and failures. The page of conversations never shows the answer to an    *)
(* earlier selection: requests are numbered upwards, so only the last one  *)
(* has the number the page compares an answer with, and the last one was   *)
(* made for the present selection. A page at rest has its layout saved: a  *)
(* timer is set for the layout on screen, and the last PATCH carries it,   *)
(* unless what is on screen is what was last known to be saved. And a      *)
(* terminal's screen shows its session: what the panel was given and what  *)
(* is on its way to it stay together, through every loss, the whole of     *)
(* what was printed.                                                       *)
(***************************************************************************)
EXTENDS ConversationsView, PersistedUiState, TerminalScreen, SequenceLemmas, SequenceTheorems, TLAPS

-----------------------------------------------------------------------------
\* Conversations.
\* A request is numbered up to requestRef; the latest asks for what is selected.
NumberedReads ==
  \A d \in details :
    /\ DOMAIN d = {"id", "of", "reply"}
    /\ d.id \in Nat /\ d.id <= requestRef
    /\ IsLatest(d) /\ selected # Nobody => d.of = selected

SelectionInv == requestRef \in Nat /\ NumberedReads /\ SelectionIsShown

-----------------------------------------------------------------------------
\* The steps that touch no part of the selection.
LEMMA SelectionFrame ==
  SelectionInv /\ UNCHANGED selectionVars => SelectionInv'
BY DEF SelectionInv, NumberedReads, SelectionIsShown, IsLatest, selectionVars

\* The effect on a new selection, whatever brought it about: what was shown stays,
\* or nothing is shown.
LEMMA SelectKeeps ==
  ASSUME SelectionInv, NEW c, Select(c),
         shownSession' \in {shownSession, Nobody}
  PROVE  SelectionInv'
<1>1. CASE c = selected \/ c = Nobody
  BY <1>1 DEF SelectionInv, NumberedReads, SelectionIsShown, IsLatest, Select
<1>2. CASE c # selected /\ c # Nobody
  <2> DEFINE new == [id |-> requestRef + 1, of |-> c, reply |-> Asked]
  <2>1. /\ selected' = c /\ requestRef' = requestRef + 1 /\ loading' = TRUE
        /\ details' = details \cup {new}
    BY <1>2 DEF Select
  <2>2. requestRef' \in Nat
    BY <2>1 DEF SelectionInv
  <2>3. ASSUME NEW d \in details' PROVE /\ DOMAIN d = {"id", "of", "reply"}
                                        /\ d.id \in Nat /\ d.id <= requestRef'
                                        /\ d.id = requestRef' => d.of = c
    <3>1. CASE d = new
      BY <3>1, <2>1 DEF SelectionInv
    <3>2. CASE d \in details
      BY <3>2, <2>1 DEF SelectionInv, NumberedReads
    <3> QED BY <3>1, <3>2, <2>1
  <2>4. NumberedReads'
    BY <2>1, <2>3 DEF NumberedReads, IsLatest
  <2> QED BY <2>1, <2>2, <2>4 DEF SelectionInv, SelectionIsShown
<1> QED BY <1>1, <1>2

\* An answer, a failure, or the server's read of a request.
LEMMA AnsweredKeeps ==
  ASSUME SelectionInv, NEW d \in details, NEW found \in BOOLEAN, Answered(d, found)
  PROVE  SelectionInv'
<1>1. NumberedReads' /\ requestRef' \in Nat
  BY DEF SelectionInv, NumberedReads, Answered, IsLatest
<1>2. SelectionIsShown'
  BY DEF SelectionInv, NumberedReads, SelectionIsShown, Answered, IsLatest
<1> QED BY <1>1, <1>2 DEF SelectionInv

LEMMA ReadDetailKeeps ==
  ASSUME SelectionInv, NEW d \in details, ReadDetail(d)
  PROVE  SelectionInv'
<1> DEFINE reply == IF InList(d.of, transcripts) THEN "found" ELSE "missing"
           read == [d EXCEPT !.reply = reply]
<1>1. /\ details' = (details \ {d}) \cup {read}
      /\ UNCHANGED <<selected, shownSession, loading, requestRef>>
  BY DEF ReadDetail
<1>2. DOMAIN read = {"id", "of", "reply"} /\ read.id = d.id /\ read.of = d.of
  BY DEF SelectionInv, NumberedReads
<1>3. NumberedReads'
  <2> SUFFICES ASSUME NEW e \in details'
               PROVE  /\ DOMAIN e = {"id", "of", "reply"}
                      /\ e.id \in Nat /\ e.id <= requestRef
                      /\ e.id = requestRef /\ selected # Nobody => e.of = selected
    BY <1>1 DEF NumberedReads, IsLatest
  <2>1. CASE e = read
    BY <2>1, <1>2 DEF SelectionInv, NumberedReads, IsLatest
  <2>2. CASE e \in details
    BY <2>2 DEF SelectionInv, NumberedReads, IsLatest
  <2> QED BY <2>1, <2>2, <1>1
<1> QED BY <1>1, <1>3 DEF SelectionInv, SelectionIsShown

-----------------------------------------------------------------------------
LEMMA SelectionStep == SelectionInv /\ [ViewNext]_viewVars => SelectionInv'
<1> SUFFICES ASSUME SelectionInv, [ViewNext]_viewVars PROVE SelectionInv'
  OBVIOUS
<1>1. CASE UNCHANGED viewVars
  BY <1>1, SelectionFrame DEF viewVars, selectionVars
<1>2. ASSUME NEW c \in Conversations,
             SessionStarts(c) \/ SessionAppends(c) \/ SessionEnds(c) \/ StopHook(c)
      PROVE  SelectionInv'
  BY <1>2, SelectionFrame
     DEF SessionStarts, SessionAppends, SessionEnds, StopHook, TranscriptStep
<1>3. ASSUME NEW c \in Conversations, SelectSession(c) PROVE SelectionInv'
  <2>1. Select(c) /\ shownSession' \in {shownSession, Nobody}
    BY <1>3 DEF SelectSession
  <2> QED BY <2>1, SelectKeeps
<1>4. ASSUME NEW d \in details, ReadDetail(d) PROVE SelectionInv'
  BY <1>4, ReadDetailKeeps
<1>5. ASSUME NEW d \in details, DetailAnswered(d) \/ DetailFails(d) PROVE SelectionInv'
  BY <1>5, AnsweredKeeps DEF DetailAnswered, DetailFails
<1>6. CASE RefreshSessions \/ Search \/ ClearSearch \/ DeleteSession \/ ClearAllSessions
  BY <1>6, SelectionFrame
     DEF RefreshSessions, Search, ClearSearch, DeleteSession, ClearAllSessions
<1>7. ASSUME NEW r \in lists, ReadList(r) \/ ListFails(r) PROVE SelectionInv'
  BY <1>7, SelectionFrame DEF ReadList, ListFails
<1>8. ASSUME NEW r \in lists, ListAnswered(r) PROVE SelectionInv'
  <2> DEFINE next == IF InList(selected, r.reply) THEN selected ELSE FirstIn(r.reply)
  <2>1. Select(next) /\ shownSession' \in {shownSession, Nobody}
    BY <1>8 DEF ListAnswered, ShownAfter
  <2> QED BY <2>1, SelectKeeps
<1>9. ASSUME NEW r \in searches, SearchAnswered(r) PROVE SelectionInv'
  BY <1>9, SelectionFrame DEF SearchAnswered
<1>10. ASSUME NEW r \in removals, RemoveFiles(r) \/ RemovalFails(r) PROVE SelectionInv'
  BY <1>10, SelectionFrame DEF RemoveFiles, RemovalFails
<1>11. ASSUME NEW r \in removals, RemovalAnswered(r) PROVE SelectionInv'
  <2>1. CASE DeleteAnswered(r)
    <3>1. Select(FirstIn(Except(listed, r.of))) /\ shownSession' \in {shownSession, Nobody}
      BY <2>1 DEF DeleteAnswered
    <3> QED BY <3>1, SelectKeeps
  <2>2. CASE ClearAnswered(r)
    <3>1. Select(Nobody) /\ shownSession' \in {shownSession, Nobody}
      BY <2>2 DEF ClearAnswered
    <3> QED BY <3>1, SelectKeeps
  <2> QED BY <1>11, <2>1, <2>2 DEF RemovalAnswered
<1> QED
  BY <1>1, <1>2, <1>3, <1>4, <1>5, <1>6, <1>7, <1>8, <1>9, <1>10, <1>11 DEF ViewNext

\* While a session is selected and nothing is loading, the page shows that session
\* or none: useConversationsRuntime drops every answer but the latest request's.
THEOREM ShownIsSelected == ViewSpec => []SelectionIsShown
<1>1. ViewInit => SelectionInv
  BY DEF ViewInit, SelectionInv, NumberedReads, SelectionIsShown
<1>2. SelectionInv => SelectionIsShown
  BY DEF SelectionInv
<1> QED BY <1>1, <1>2, SelectionStep, PTL DEF ViewSpec

-----------------------------------------------------------------------------
\* The layout.  What may be a layout, saved or not.
AnyLayouts == [setting : Settings \cup {"none"}, open : SUBSET UiTerminals]
Patches == [applied : BOOLEAN, payload : Layouts]
\* What the page would show of what is saved.
Base == IF savedUi = NothingSaved THEN DefaultLayout ELSE savedUi

UiTypes ==
  /\ savedUi \in Layouts \cup {NothingSaved} /\ lastPersisted \in Layouts \cup {NothingSaved}
  /\ shownUi \in Layouts /\ uiPatches \in Seq(Patches) /\ uiHydrated \in BOOLEAN
  /\ uiColumns \in SUBSET UiTerminals /\ uiTerminals \in SUBSET UiTerminals

\* A timer is for the layout on screen, which names no terminal the page does not know.
TimersHold ==
  /\ ~uiHydrated => saveTimers = {} /\ uiPatches = << >> /\ lastPersisted = NothingSaved
  /\ uiHydrated => saveTimers \subseteq {shownUi} /\ shownUi.open \subseteq uiColumns

\* The page does not know some terminal only when it could not read them: then no
\* layout it has shown since names any.
UnreadTerminals ==
  uiHydrated /\ ~(uiTerminals \subseteq uiColumns) =>
    /\ uiColumns = {} /\ lastPersisted.open = {}
    /\ \A n \in DOMAIN uiPatches : uiPatches[n].payload.open = {}

\* With no PATCH under way the page knows what is saved.
KnowsTheSaved ==
  /\ lastPersisted # NothingSaved
  /\ \/ lastPersisted = savedUi
     \/ /\ uiTerminals \subseteq uiColumns
        /\ Retained(lastPersisted, uiColumns) = Retained(Base, uiColumns)
AtRest ==
  uiHydrated /\ unsaved = {} /\ uiPatches = << >> =>
    /\ KnowsTheSaved \/ (lastPersisted = NothingSaved /\ saveTimers # {})
    /\ saveTimers = {} => shownUi = Retained(Base, uiColumns)

\* And else the last PATCH carries what is on screen, or a timer is set, and when it is
\* applied all are.
UnderWay ==
  uiHydrated /\ unsaved = {} /\ uiPatches # << >> =>
    /\ saveTimers = {} => shownUi = uiPatches[Len(uiPatches)].payload
    /\ uiPatches[Len(uiPatches)].applied =>
         /\ savedUi = uiPatches[Len(uiPatches)].payload
         /\ \A n \in DOMAIN uiPatches : uiPatches[n].applied

UiInv == UiTypes /\ TimersHold /\ UnreadTerminals /\ AtRest /\ UnderWay

-----------------------------------------------------------------------------
LEMMA RetainedIs ==
  ASSUME NEW layout \in AnyLayouts, NEW T
  PROVE  Retained(layout, T) = [setting |-> layout.setting, open |-> layout.open \cap T]
BY DEF Retained, AnyLayouts

LEMMA LayoutsAre ==
  /\ Layouts \subseteq AnyLayouts /\ NothingSaved \in AnyLayouts /\ NothingSaved \notin Layouts
  /\ DefaultLayout \in Layouts /\ NothingSaved.open = {} /\ DefaultLayout.open = {}
BY DefaultIsASetting DEF Layouts, AnyLayouts, NothingSaved, DefaultLayout

LEMMA RetainedFacts ==
  ASSUME NEW layout \in AnyLayouts, NEW T
  PROVE  /\ layout.open \subseteq T => Retained(layout, T) = layout
         /\ Retained(layout, T).open = layout.open \cap T
         /\ layout \in Layouts => Retained(layout, T) \in Layouts
         /\ \A U : U \subseteq T => Retained(Retained(layout, T), U) = Retained(layout, U)
<1> DEFINE kept == [setting |-> layout.setting, open |-> layout.open \cap T]
<1>1. Retained(layout, T) = kept /\ kept \in AnyLayouts
  BY RetainedIs DEF AnyLayouts
<1>2. layout = [setting |-> layout.setting, open |-> layout.open]
  BY DEF AnyLayouts
<1>3. layout.open \subseteq T => layout.open \cap T = layout.open
  OBVIOUS
<1>4. layout \in Layouts => kept \in Layouts
  BY DEF Layouts
<1>5. ASSUME NEW U, U \subseteq T PROVE Retained(kept, U) = Retained(layout, U)
  <2>1. kept.setting = layout.setting /\ kept.open \cap U = layout.open \cap U
    BY <1>5
  <2>2. Retained(layout, U) = [setting |-> layout.setting, open |-> layout.open \cap U]
    BY RetainedIs
  <2> HIDE DEF kept
  <2>3. Retained(kept, U) = [setting |-> kept.setting, open |-> kept.open \cap U]
    BY <1>1, RetainedIs
  <2> QED BY <2>1, <2>2, <2>3
<1> QED BY <1>1, <1>2, <1>3, <1>4, <1>5

LEMMA RemoveAtFacts ==
  ASSUME NEW S, NEW s \in Seq(S), NEW n \in DOMAIN s
  PROVE  /\ RemoveAt(s, n) \in Seq(S) /\ Len(RemoveAt(s, n)) = Len(s) - 1
         /\ \A k \in 1..(Len(s) - 1) : RemoveAt(s, n)[k] = IF k < n THEN s[k] ELSE s[k + 1]
<1> DEFINE before == SubSeq(s, 1, n - 1)
           after == SubSeq(s, n + 1, Len(s))
<1>0. n \in 1..Len(s) /\ Len(s) \in Nat
  OBVIOUS
<1>1. /\ before \in Seq(S) /\ Len(before) = n - 1
      /\ \A i \in 1..(n - 1) : before[i] = s[i]
  <2>1. \A i \in 1..(n - 1) : s[i] \in S
    BY <1>0, ElementOfSeq
  <2>2. /\ before \in Seq(S) /\ Len(before) = IF 1 <= n - 1 THEN (n - 1) - 1 + 1 ELSE 0
        /\ \A i \in 1..((n - 1) - 1 + 1) : before[i] = s[1 + i - 1]
    BY <1>0, <2>1, SubSeqProperties
  <2> HIDE DEF before
  <2> QED BY <1>0, <2>2
<1>2. /\ after \in Seq(S) /\ Len(after) = Len(s) - n
      /\ \A i \in 1..(Len(s) - n) : after[i] = s[n + i]
  <2>1. \A i \in (n + 1)..Len(s) : s[i] \in S
    BY <1>0, ElementOfSeq
  <2>2. /\ after \in Seq(S) /\ Len(after) = IF n + 1 <= Len(s) THEN Len(s) - (n + 1) + 1 ELSE 0
        /\ \A i \in 1..(Len(s) - (n + 1) + 1) : after[i] = s[(n + 1) + i - 1]
    BY <1>0, <2>1, SubSeqProperties
  <2> HIDE DEF after
  <2> QED BY <1>0, <2>2
<1> HIDE DEF before, after
<1>3. RemoveAt(s, n) = before \o after
  BY DEF RemoveAt, before, after
<1>4. /\ before \o after \in Seq(S) /\ Len(before \o after) = Len(before) + Len(after)
      /\ \A i \in 1..(Len(before) + Len(after)) :
           (before \o after)[i] = IF i <= Len(before) THEN before[i] ELSE after[i - Len(before)]
  BY <1>1, <1>2, ConcatProperties
<1>5. ASSUME NEW k \in 1..(Len(s) - 1)
      PROVE  (before \o after)[k] = IF k < n THEN s[k] ELSE s[k + 1]
  <2>1. CASE k < n
    BY <1>0, <1>1, <1>2, <1>4, <2>1
  <2>2. CASE ~(k < n)
    <3>0. /\ k \in 1..(Len(before) + Len(after)) /\ ~(k <= Len(before))
          /\ k - Len(before) = k - (n - 1) /\ k - (n - 1) \in 1..(Len(s) - n)
      BY <1>0, <1>1, <1>2, <2>2
    <3>1. (before \o after)[k] = after[k - (n - 1)] /\ k - (n - 1) \in 1..(Len(s) - n)
      BY <1>4, <3>0
    <3> QED BY <1>0, <1>2, <2>2, <3>1
  <2> QED BY <2>1, <2>2
<1> QED BY <1>0, <1>1, <1>2, <1>3, <1>4, <1>5

-----------------------------------------------------------------------------
LEMMA UiStart == UiInit => UiInv
<1> SUFFICES ASSUME UiInit PROVE UiInv
  OBVIOUS
<1>0. << >> \in Seq(Patches)
  OBVIOUS
<1>1. UiTypes
  BY <1>0, LayoutsAre DEF UiInit, UiTypes
<1>2. TimersHold /\ UnreadTerminals /\ AtRest /\ UnderWay
  BY DEF UiInit, TimersHold, UnreadTerminals, AtRest, UnderWay
<1> QED BY <1>1, <1>2 DEF UiInv

\* The effect after a render leaves a timer for the layout, or none.
LEMMA AfterRenderIs ==
  ASSUME NEW layout, NEW persisted, AfterRender(layout, persisted)
  PROVE  /\ saveTimers' \subseteq {layout}
         /\ saveTimers' = {} <=> persisted = layout
BY DEF AfterRender

LEMMA HydrateKeeps ==
  ASSUME UiInv, NEW columns \in SUBSET UiTerminals, Hydrate(columns)
  PROVE  UiInv'
<1> DEFINE shown == IF savedUi = NothingSaved THEN shownUi ELSE savedUi
<1>1. /\ ~uiHydrated /\ uiHydrated' = TRUE /\ uiTerminals \subseteq columns /\ uiColumns' = columns
      /\ shownUi' = Retained(shown, columns) /\ lastPersisted' = Retained(Base, columns)
      /\ saveTimers' \subseteq {shownUi'} /\ (saveTimers' = {} <=> lastPersisted' = shownUi')
      /\ UNCHANGED <<savedUi, uiTerminals, uiPatches, uiChanges, uiFaults, unsaved>>
  BY AfterRenderIs DEF Hydrate, Base
<1>2. uiPatches = << >> /\ Base' = Base
  BY <1>1 DEF UiInv, TimersHold, Base
<1>3. shown \in Layouts /\ Base \in Layouts /\ Layouts \subseteq AnyLayouts
  BY LayoutsAre DEF UiInv, UiTypes, Base
<1>4. /\ shownUi' \in Layouts /\ lastPersisted' \in Layouts /\ shownUi'.open \subseteq columns
      /\ lastPersisted' # NothingSaved
      /\ Retained(lastPersisted', columns) = Retained(Base, columns)
  <2> HIDE DEF shown
  <2>1. /\ Retained(shown, columns) \in Layouts /\ Retained(Base, columns) \in Layouts
        /\ Retained(shown, columns).open \subseteq columns
        /\ Retained(Retained(Base, columns), columns) = Retained(Base, columns)
    BY <1>3, RetainedFacts
  <2> QED BY <1>1, <2>1, LayoutsAre
<1>5. UiTypes' /\ TimersHold' /\ UnreadTerminals'
  BY <1>1, <1>2, <1>4 DEF UiInv, UiTypes, TimersHold, UnreadTerminals
<1>6. AtRest' /\ UnderWay'
  BY <1>1, <1>2, <1>4 DEF AtRest, UnderWay, KnowsTheSaved
<1> QED BY <1>5, <1>6 DEF UiInv

LEMMA HydrateWithoutLayoutKeeps == UiInv /\ HydrateWithoutLayout => UiInv'
<1> SUFFICES ASSUME UiInv, HydrateWithoutLayout PROVE UiInv'
  OBVIOUS
<1>1. /\ ~uiHydrated /\ uiHydrated' = TRUE /\ uiColumns' = uiTerminals
      /\ shownUi' = Retained(shownUi, uiTerminals) /\ lastPersisted' = DefaultLayout
      /\ saveTimers' \subseteq {shownUi'} /\ unsaved' = {"not read"}
      /\ UNCHANGED <<savedUi, uiTerminals, uiPatches>>
  BY AfterRenderIs DEF HydrateWithoutLayout
<1>2. shownUi' \in Layouts /\ shownUi'.open \subseteq uiTerminals
  <2>1. shownUi \in Layouts /\ shownUi \in AnyLayouts
    BY LayoutsAre DEF UiInv, UiTypes
  <2>2. /\ Retained(shownUi, uiTerminals) \in Layouts
        /\ Retained(shownUi, uiTerminals).open = shownUi.open \cap uiTerminals
    BY <2>1, RetainedFacts
  <2> QED BY <1>1, <2>2
<1>3. UiTypes' /\ TimersHold' /\ UnreadTerminals'
  BY <1>1, <1>2, LayoutsAre DEF UiInv, UiTypes, TimersHold, UnreadTerminals
<1>4. AtRest' /\ UnderWay'
  BY <1>1 DEF AtRest, UnderWay
<1> QED BY <1>3, <1>4 DEF UiInv

LEMMA HydrateWithoutTerminalsKeeps == UiInv /\ HydrateWithoutTerminals => UiInv'
<1> SUFFICES ASSUME UiInv, HydrateWithoutTerminals PROVE UiInv'
  OBVIOUS
<1>1. /\ ~uiHydrated /\ uiHydrated' = TRUE /\ uiColumns' = {}
      /\ shownUi' = Retained(shownUi, {})
      /\ saveTimers' \subseteq {shownUi'} /\ (saveTimers' = {} <=> lastPersisted = shownUi')
      /\ UNCHANGED <<savedUi, uiTerminals, lastPersisted, uiPatches, unsaved>>
  BY AfterRenderIs DEF HydrateWithoutTerminals
<1>2. lastPersisted = NothingSaved /\ uiPatches = << >>
  BY <1>1 DEF UiInv, TimersHold
<1>3. shownUi' \in Layouts /\ shownUi'.open \subseteq {}
  BY <1>1, RetainedFacts, LayoutsAre DEF UiInv, UiTypes
<1>4. saveTimers' # {}
  BY <1>1, <1>2, <1>3, LayoutsAre
<1>5. UiTypes' /\ TimersHold' /\ UnreadTerminals'
  BY <1>1, <1>2, <1>3, LayoutsAre DEF UiInv, UiTypes, TimersHold, UnreadTerminals
<1>6. AtRest' /\ UnderWay'
  BY <1>1, <1>2, <1>4 DEF AtRest, UnderWay
<1> QED BY <1>5, <1>6 DEF UiInv

\* A layout that is shown is for the terminals the page knows, before or after it
\* hears of a change of them.
LEMMA ShowsKeeps ==
  ASSUME UiInv, NEW layout \in Layouts, Shows(layout),
         uiHydrated => layout.open \subseteq uiColumns',
         uiColumns' = uiColumns \/ (uiHydrated /\ uiColumns' = uiTerminals),
         UNCHANGED <<savedUi, uiTerminals, uiHydrated, lastPersisted, uiPatches>>
  PROVE  UiInv'
<1>1. /\ shownUi' = layout
      /\ uiHydrated => saveTimers' \subseteq {layout} /\ (saveTimers' = {} <=> lastPersisted = layout)
      /\ ~uiHydrated => saveTimers' = saveTimers
      /\ unsaved' = {} => unsaved = {} /\ (layout # lastPersisted \/ uiPatches = << >>)
      /\ Base' = Base
  BY AfterRenderIs DEF Shows, Base
<1>2. uiColumns' \in SUBSET UiTerminals
  BY DEF UiInv, UiTypes
<1>3. UiTypes' /\ TimersHold'
  BY <1>1, <1>2 DEF UiInv, UiTypes, TimersHold
<1>4. UnreadTerminals'
  BY DEF UiInv, UnreadTerminals
<1>5. UnderWay'
  BY <1>1 DEF UiInv, UnderWay
<1>6. ASSUME uiHydrated, unsaved' = {}, uiPatches = << >>
      PROVE  /\ KnowsTheSaved' \/ (lastPersisted = NothingSaved /\ saveTimers' # {})
             /\ saveTimers' = {} => layout = Retained(Base, uiColumns')
  <2>0. /\ layout # NothingSaved /\ lastPersisted \in AnyLayouts /\ layout \in AnyLayouts
        /\ Base \in AnyLayouts
    BY LayoutsAre DEF UiInv, UiTypes, Base
  <2>1. CASE lastPersisted = NothingSaved
    BY <1>1, <1>6, <2>0, <2>1
  <2>2. CASE lastPersisted # NothingSaved
    <3>1. KnowsTheSaved
      BY <1>1, <1>6, <2>2 DEF UiInv, AtRest
    <3>2. CASE lastPersisted = savedUi
      <4>1. layout.open \subseteq uiColumns' => Retained(layout, uiColumns') = layout
        BY <2>0, RetainedFacts
      <4> QED BY <1>1, <1>6, <2>2, <3>2, <4>1 DEF KnowsTheSaved, Base
    <3>3. CASE /\ uiTerminals \subseteq uiColumns
               /\ Retained(lastPersisted, uiColumns) = Retained(Base, uiColumns)
      <4>1. uiColumns' \subseteq uiColumns /\ uiTerminals' \subseteq uiColumns'
        BY <3>3
      <4>2. Retained(lastPersisted, uiColumns') = Retained(Base, uiColumns')
        <5>1. /\ Retained(Retained(lastPersisted, uiColumns), uiColumns') = Retained(lastPersisted, uiColumns')
              /\ Retained(Retained(Base, uiColumns), uiColumns') = Retained(Base, uiColumns')
          BY <2>0, <4>1, RetainedFacts
        <5> QED BY <3>3, <5>1
      <4>3. layout.open \subseteq uiColumns' => Retained(layout, uiColumns') = layout
        BY <2>0, RetainedFacts
      <4> QED BY <1>1, <1>6, <2>2, <4>1, <4>2, <4>3 DEF KnowsTheSaved
    <3> QED BY <3>1, <3>2, <3>3 DEF KnowsTheSaved
  <2> QED BY <2>1, <2>2
<1>7. AtRest'
  BY <1>1, <1>6 DEF AtRest
<1> QED BY <1>3, <1>4, <1>5, <1>7 DEF UiInv

LEMMA UserChangesKeeps ==
  ASSUME UiInv, NEW layout \in Layouts, UserChanges(layout)
  PROVE  UiInv'
<1>1. uiHydrated => layout.open \subseteq uiColumns
  BY DEF UserChanges, UiInv, TimersHold
<1> QED BY <1>1, ShowsKeeps DEF UserChanges

LEMMA UiTerminalDeletedKeeps ==
  ASSUME UiInv, NEW t \in UiTerminals, UiTerminalDeleted(t)
  PROVE  UiInv'
<1>1. /\ uiTerminals' \subseteq uiTerminals /\ Base' = Base
      /\ UNCHANGED <<savedUi, uiColumns, uiHydrated, shownUi, lastPersisted, saveTimers, uiPatches, unsaved>>
  BY DEF UiTerminalDeleted, Base
<1>2. UiTypes' /\ TimersHold' /\ UnreadTerminals'
  BY <1>1 DEF UiInv, UiTypes, TimersHold, UnreadTerminals
<1>3. AtRest' /\ UnderWay'
  BY <1>1 DEF UiInv, AtRest, UnderWay, KnowsTheSaved
<1> QED BY <1>2, <1>3 DEF UiInv

LEMMA ColumnsChangeKeeps == UiInv /\ ColumnsChange => UiInv'
<1> SUFFICES ASSUME UiInv, ColumnsChange PROVE UiInv'
  OBVIOUS
<1>0. /\ uiHydrated /\ uiColumns' = uiTerminals
      /\ UNCHANGED <<savedUi, uiTerminals, uiHydrated, lastPersisted, uiPatches>>
      /\ Base' = Base
  BY DEF ColumnsChange, Base
<1>1. /\ shownUi \in Layouts /\ shownUi \in AnyLayouts /\ lastPersisted \in AnyLayouts /\ Base \in AnyLayouts
  BY LayoutsAre DEF UiInv, UiTypes, Base
<1>2. /\ Retained(shownUi, uiTerminals) \in Layouts
      /\ Retained(shownUi, uiTerminals).open \subseteq uiTerminals
  BY <1>1, RetainedFacts
<1>3. CASE Retained(shownUi, uiTerminals) # shownUi
  BY <1>0, <1>2, <1>3, ShowsKeeps DEF ColumnsChange
<1>4. CASE Retained(shownUi, uiTerminals) = shownUi
  <2>1. UNCHANGED <<shownUi, saveTimers, unsaved>> /\ shownUi.open \subseteq uiColumns'
    BY <1>0, <1>2, <1>4 DEF ColumnsChange
  <2>2. UiTypes' /\ TimersHold' /\ UnreadTerminals' /\ UnderWay'
    BY <1>0, <2>1 DEF UiInv, UiTypes, TimersHold, UnreadTerminals, UnderWay
  <2>3. ASSUME unsaved = {}, uiPatches = << >>, KnowsTheSaved
        PROVE  KnowsTheSaved' /\ (saveTimers = {} => shownUi = Retained(Base, uiColumns'))
    <3>1. saveTimers = {} => shownUi = Retained(Base, uiColumns)
      BY <1>0, <2>3 DEF UiInv, AtRest
    <3>2. CASE uiTerminals \subseteq uiColumns
      <4>1. /\ Retained(Retained(lastPersisted, uiColumns), uiTerminals) = Retained(lastPersisted, uiTerminals)
            /\ Retained(Retained(Base, uiColumns), uiTerminals) = Retained(Base, uiTerminals)
        BY <1>1, <3>2, RetainedFacts
      <4>2. KnowsTheSaved'
        BY <1>0, <2>3, <4>1 DEF KnowsTheSaved
      <4> QED BY <1>0, <1>4, <3>1, <4>1, <4>2
    <3>3. CASE ~(uiTerminals \subseteq uiColumns)
      <4>1. lastPersisted = savedUi /\ lastPersisted # NothingSaved /\ Base = savedUi /\ Base.open = {}
        BY <1>0, <2>3, <3>3 DEF KnowsTheSaved, Base, UiInv, UnreadTerminals
      <4>2. Retained(Base, uiColumns) = Base /\ Retained(Base, uiTerminals) = Base
        BY <1>1, <4>1, RetainedFacts
      <4>3. KnowsTheSaved'
        BY <1>0, <4>1 DEF KnowsTheSaved
      <4> QED BY <1>0, <3>1, <4>2, <4>3
    <3> QED BY <3>2, <3>3
  <2>4. AtRest'
    BY <1>0, <2>1, <2>3 DEF UiInv, AtRest
  <2> QED BY <2>2, <2>4 DEF UiInv
<1> QED BY <1>3, <1>4

LEMMA TimerFiresKeeps ==
  ASSUME UiInv, NEW layout \in saveTimers, TimerFires(layout)
  PROVE  UiInv'
<1> DEFINE patch == [applied |-> FALSE, payload |-> layout]
<1>1. /\ saveTimers' = saveTimers \ {layout} /\ uiPatches' = Append(uiPatches, patch)
      /\ UNCHANGED <<savedUi, uiTerminals, uiColumns, uiHydrated, shownUi, lastPersisted>>
  BY DEF TimerFires
<1>2. uiHydrated /\ layout = shownUi /\ saveTimers' = {} /\ layout \in Layouts
      /\ layout.open \subseteq uiColumns /\ uiPatches \in Seq(Patches)
  BY <1>1 DEF UiInv, TimersHold, UiTypes
<1>3. patch \in Patches /\ patch.payload = shownUi /\ patch.applied = FALSE
  BY <1>2 DEF Patches
<1> HIDE DEF patch
<1>4. /\ uiPatches' \in Seq(Patches) /\ uiPatches' # << >> /\ Len(uiPatches') = Len(uiPatches) + 1
      /\ \A n \in 1..Len(uiPatches) : uiPatches'[n] = uiPatches[n]
      /\ uiPatches'[Len(uiPatches) + 1] = patch
      /\ DOMAIN uiPatches = 1..Len(uiPatches) /\ DOMAIN uiPatches' = 1..(Len(uiPatches) + 1)
      /\ Len(uiPatches) \in Nat
  <2>1. /\ uiPatches' \in Seq(Patches) /\ uiPatches' # << >> /\ Len(uiPatches') = Len(uiPatches) + 1
        /\ \A n \in 1..Len(uiPatches) : uiPatches'[n] = uiPatches[n]
        /\ uiPatches'[Len(uiPatches) + 1] = patch
    BY <1>1, <1>2, <1>3, AppendProperties
  <2>2. DOMAIN uiPatches = 1..Len(uiPatches) /\ DOMAIN uiPatches' = 1..Len(uiPatches')
        /\ Len(uiPatches) \in Nat
    BY <1>2, <2>1
  <2> QED BY <2>1, <2>2
<1>5. UiTypes' /\ TimersHold'
  BY <1>1, <1>2, <1>4 DEF UiInv, UiTypes, TimersHold
<1>6. UnreadTerminals'
  <2> SUFFICES ASSUME ~(uiTerminals \subseteq uiColumns)
               PROVE  /\ uiColumns = {} /\ lastPersisted.open = {}
                      /\ \A n \in DOMAIN uiPatches' : uiPatches'[n].payload.open = {}
    BY <1>1 DEF UnreadTerminals
  <2>1. /\ uiColumns = {} /\ lastPersisted.open = {}
        /\ \A n \in DOMAIN uiPatches : uiPatches[n].payload.open = {}
    BY <1>2 DEF UiInv, UnreadTerminals
  <2>2. patch.payload.open = {}
    BY <1>2, <1>3, <2>1
  <2>3. \A n \in DOMAIN uiPatches' : n \in DOMAIN uiPatches \/ n = Len(uiPatches) + 1
    BY <1>4
  <2> QED BY <1>4, <2>1, <2>2, <2>3
<1>7. AtRest' /\ UnderWay'
  BY <1>1, <1>2, <1>3, <1>4 DEF AtRest, UnderWay
<1> QED BY <1>5, <1>6, <1>7 DEF UiInv

\* Applied in order, the last PATCH is applied after all others.
LEMMA PatchUiStateKeeps ==
  ASSUME UiInv, NEW n \in DOMAIN uiPatches, PatchUiState(n)
  PROVE  UiInv'
<1> DEFINE last == Len(uiPatches)
<1>1. /\ ~uiPatches[n].applied /\ savedUi' = uiPatches[n].payload
      /\ uiPatches' = [uiPatches EXCEPT ![n].applied = TRUE]
      /\ unsaved' = {} => unsaved = {} /\ \A k \in DOMAIN uiPatches : ~Overtakes(n, k)
      /\ UNCHANGED <<uiTerminals, uiColumns, uiHydrated, shownUi, lastPersisted, saveTimers>>
  BY DEF PatchUiState
<1>2. uiPatches \in Seq(Patches) /\ DOMAIN uiPatches = 1..last /\ last \in Nat
  BY DEF UiInv, UiTypes
<1>3. \A k \in DOMAIN uiPatches : uiPatches[k] \in Patches
  BY <1>2, ElementOfSeq
<1>4. /\ uiPatches' \in Seq(Patches) /\ DOMAIN uiPatches' = DOMAIN uiPatches /\ Len(uiPatches') = last
      /\ \A k \in DOMAIN uiPatches :
           /\ uiPatches'[k].payload = uiPatches[k].payload
           /\ uiPatches'[k].applied <=> k = n \/ uiPatches[k].applied
  <2>1. [uiPatches[n] EXCEPT !.applied = TRUE] \in Patches
    BY <1>3 DEF Patches
  <2>2. uiPatches' = [uiPatches EXCEPT ![n] = [uiPatches[n] EXCEPT !.applied = TRUE]]
    BY <1>1
  <2>3. uiPatches' \in Seq(Patches) /\ Len(uiPatches') = last
    BY <1>2, <2>1, <2>2, ExceptSeq
  <2>4. \A k \in DOMAIN uiPatches : uiPatches'[k] = IF k = n THEN [uiPatches[n] EXCEPT !.applied = TRUE]
                                                   ELSE uiPatches[k]
    BY <2>2
  <2>5. DOMAIN uiPatches' = DOMAIN uiPatches
    BY <2>2
  <2> QED BY <1>3, <2>3, <2>4, <2>5 DEF Patches
<1>5. uiHydrated /\ uiPatches # << >> /\ savedUi' \in Layouts /\ last \in DOMAIN uiPatches
  BY <1>1, <1>2, <1>3 DEF UiInv, TimersHold, Patches
<1>6. UiTypes' /\ TimersHold'
  BY <1>1, <1>4, <1>5 DEF UiInv, UiTypes, TimersHold
<1>7. UnreadTerminals'
  BY <1>1, <1>4 DEF UiInv, UnreadTerminals
<1>8. uiPatches' # << >> /\ uiHydrated'
  BY <1>1, <1>4, <1>5
<1>9. AtRest'
  BY <1>8 DEF AtRest
<1>10. UnderWay'
  <2> SUFFICES ASSUME unsaved' = {}
               PROVE  /\ saveTimers = {} => shownUi = uiPatches'[last].payload
                      /\ uiPatches'[last].applied =>
                           /\ savedUi' = uiPatches'[last].payload
                           /\ \A k \in DOMAIN uiPatches' : uiPatches'[k].applied
    BY <1>1, <1>4 DEF UnderWay
  <2>1. /\ saveTimers = {} => shownUi = uiPatches[last].payload
        /\ ~uiPatches[last].applied
    BY <1>1, <1>5 DEF UiInv, UnderWay
  <2>2. CASE n = last
    <3>1. \A k \in DOMAIN uiPatches : k # n => uiPatches[k].applied
      BY <1>1, <1>2, <2>2 DEF Overtakes
    <3> QED BY <1>1, <1>4, <1>5, <2>1, <2>2, <3>1
  <2>3. CASE n # last
    BY <1>4, <1>5, <2>1, <2>3
  <2> QED BY <2>2, <2>3
<1> QED BY <1>6, <1>7, <1>9, <1>10 DEF UiInv

\* One PATCH fewer: what was said of each is said of those that are left.
LEMMA OnePatchLess ==
  ASSUME UiInv, NEW n \in DOMAIN uiPatches, uiPatches' = RemoveAt(uiPatches, n)
  PROVE  /\ uiHydrated
         /\ uiPatches \in Seq(Patches) /\ DOMAIN uiPatches = 1..Len(uiPatches) /\ Len(uiPatches) \in Nat
         /\ uiPatches[n].payload \in Layouts
         /\ uiPatches' \in Seq(Patches) /\ Len(uiPatches') = Len(uiPatches) - 1
         /\ DOMAIN uiPatches' = 1..Len(uiPatches')
         /\ \A k \in DOMAIN uiPatches' :
              \E i \in DOMAIN uiPatches : uiPatches'[k] = uiPatches[i]
         /\ n = 1 /\ uiPatches' # << >> => uiPatches'[Len(uiPatches')] = uiPatches[Len(uiPatches)]
<1>1. uiPatches \in Seq(Patches) /\ DOMAIN uiPatches = 1..Len(uiPatches) /\ Len(uiPatches) \in Nat
  BY DEF UiInv, UiTypes
<1>2. uiPatches[n] \in Patches
  BY <1>1, ElementOfSeq
<1>3. uiHydrated /\ uiPatches[n].payload \in Layouts
  BY <1>1, <1>2 DEF UiInv, TimersHold, Patches
<1>4. /\ uiPatches' \in Seq(Patches) /\ Len(uiPatches') = Len(uiPatches) - 1
      /\ \A k \in 1..(Len(uiPatches) - 1) :
           uiPatches'[k] = IF k < n THEN uiPatches[k] ELSE uiPatches[k + 1]
  BY <1>1, RemoveAtFacts
<1>5. DOMAIN uiPatches' = 1..Len(uiPatches')
  BY <1>4
<1>6. ASSUME NEW k \in DOMAIN uiPatches' PROVE \E i \in DOMAIN uiPatches : uiPatches'[k] = uiPatches[i]
  <2>1. k \in DOMAIN uiPatches /\ k + 1 \in DOMAIN uiPatches
    BY <1>1, <1>4, <1>5
  <2>2. uiPatches'[k] = uiPatches[k] \/ uiPatches'[k] = uiPatches[k + 1]
    BY <1>4, <1>5
  <2> QED BY <2>1, <2>2
<1>7. ASSUME n = 1, uiPatches' # << >> PROVE uiPatches'[Len(uiPatches')] = uiPatches[Len(uiPatches)]
  <2>1. Len(uiPatches') \in 1..(Len(uiPatches) - 1)
    BY <1>1, <1>4, <1>7
  <2> QED BY <1>1, <1>4, <1>7, <2>1
<1> QED BY <1>1, <1>3, <1>4, <1>5, <1>6, <1>7

LEMMA PatchAnsweredKeeps ==
  ASSUME UiInv, NEW n \in DOMAIN uiPatches, PatchAnswered(n)
  PROVE  UiInv'
<1>1. /\ uiPatches[n].applied /\ lastPersisted' = uiPatches[n].payload
      /\ uiPatches' = RemoveAt(uiPatches, n)
      /\ unsaved' = {} => unsaved = {} /\ ~(n > 1)
      /\ UNCHANGED <<savedUi, uiTerminals, uiColumns, uiHydrated, shownUi, saveTimers>>
      /\ Base' = Base
  BY DEF PatchAnswered, Base
<1>2. /\ uiHydrated
      /\ uiPatches \in Seq(Patches) /\ DOMAIN uiPatches = 1..Len(uiPatches) /\ Len(uiPatches) \in Nat
      /\ uiPatches[n].payload \in Layouts
      /\ uiPatches' \in Seq(Patches) /\ Len(uiPatches') = Len(uiPatches) - 1
      /\ DOMAIN uiPatches' = 1..Len(uiPatches')
      /\ \A k \in DOMAIN uiPatches' : \E i \in DOMAIN uiPatches : uiPatches'[k] = uiPatches[i]
      /\ n = 1 /\ uiPatches' # << >> => uiPatches'[Len(uiPatches')] = uiPatches[Len(uiPatches)]
  BY <1>1, OnePatchLess
<1>3. UiTypes' /\ TimersHold'
  BY <1>1, <1>2 DEF UiInv, UiTypes, TimersHold
<1>4. UnreadTerminals'
  BY <1>1, <1>2 DEF UiInv, UnreadTerminals
<1>5. AtRest'
  <2> SUFFICES ASSUME unsaved' = {}, uiPatches' = << >>
               PROVE  KnowsTheSaved' /\ (saveTimers = {} => shownUi = Retained(Base, uiColumns))
    BY <1>1 DEF AtRest
  <2>1. n = Len(uiPatches) /\ uiPatches # << >>
    <3>1. Len(uiPatches') = 0
      OBVIOUS
    <3>2. Len(uiPatches) = 1
      <4>1. Len(uiPatches) \in Nat /\ Len(uiPatches') = Len(uiPatches) - 1
        BY <1>2
      <4> HIDE <1>2
      <4> QED BY <3>1, <4>1
    <3>3. n \in 1..Len(uiPatches)
      BY <1>2
    <3>4. n = 1
      BY <3>2, <3>3
    <3>5. uiPatches # << >>
      BY <3>2
    <3> QED BY <3>2, <3>4, <3>5
  <2>2. /\ savedUi = uiPatches[n].payload
        /\ saveTimers = {} => shownUi = uiPatches[n].payload
    BY <1>1, <1>2, <2>1 DEF UiInv, UnderWay
  <2>3. savedUi # NothingSaved /\ Base = savedUi
    BY <1>2, <2>2, LayoutsAre DEF Base
  <2>4. shownUi.open \subseteq uiColumns /\ Retained(shownUi, uiColumns) = shownUi
    <3>1. shownUi \in AnyLayouts /\ shownUi.open \subseteq uiColumns
      BY <1>2, LayoutsAre DEF UiInv, UiTypes, TimersHold
    <3> QED BY <3>1, RetainedFacts
  <2> QED BY <1>1, <2>2, <2>3, <2>4 DEF KnowsTheSaved
<1>6. UnderWay'
  <2> SUFFICES ASSUME unsaved' = {}, uiPatches' # << >>
               PROVE  /\ saveTimers = {} => shownUi = uiPatches'[Len(uiPatches')].payload
                      /\ uiPatches'[Len(uiPatches')].applied =>
                           /\ savedUi = uiPatches'[Len(uiPatches')].payload
                           /\ \A k \in DOMAIN uiPatches' : uiPatches'[k].applied
    BY <1>1 DEF UnderWay
  <2>0. n = 1
    <3>1. ~(n > 1)
      BY <1>1
    <3>2. n \in 1..Len(uiPatches) /\ Len(uiPatches) \in Nat
      BY <1>2
    <3> QED BY <3>1, <3>2
  <2>1. n = 1 /\ uiPatches # << >> /\ uiPatches'[Len(uiPatches')] = uiPatches[Len(uiPatches)]
    BY <1>2, <2>0
  <2> QED BY <1>1, <1>2, <2>1 DEF UiInv, UnderWay
<1> QED BY <1>3, <1>4, <1>5, <1>6 DEF UiInv

LEMMA PatchFailsKeeps ==
  ASSUME UiInv, NEW n \in DOMAIN uiPatches, PatchFails(n)
  PROVE  UiInv'
<1>1. /\ uiPatches' = RemoveAt(uiPatches, n) /\ unsaved' # {}
      /\ UNCHANGED <<savedUi, uiTerminals, uiColumns, uiHydrated, shownUi, lastPersisted, saveTimers>>
  BY DEF PatchFails
<1>2. /\ uiHydrated /\ uiPatches' \in Seq(Patches)
      /\ \A k \in DOMAIN uiPatches' : \E i \in DOMAIN uiPatches : uiPatches'[k] = uiPatches[i]
  BY <1>1, OnePatchLess
<1>3. UiTypes' /\ TimersHold'
  BY <1>1, <1>2 DEF UiInv, UiTypes, TimersHold
<1>4. UnreadTerminals'
  BY <1>1, <1>2 DEF UiInv, UnreadTerminals
<1>5. AtRest' /\ UnderWay'
  BY <1>1 DEF AtRest, UnderWay
<1> QED BY <1>3, <1>4, <1>5 DEF UiInv

LEMMA UiStep == UiInv /\ [UiNext]_uiVars => UiInv'
<1> SUFFICES ASSUME UiInv, [UiNext]_uiVars PROVE UiInv'
  OBVIOUS
<1>1. CASE UNCHANGED uiVars
  BY <1>1 DEF uiVars, UiInv, UiTypes, TimersHold, UnreadTerminals, AtRest, UnderWay, KnowsTheSaved, Base
<1>2. CASE UiNext
  BY <1>2, HydrateKeeps, HydrateWithoutLayoutKeeps, HydrateWithoutTerminalsKeeps, UserChangesKeeps,
     UiTerminalDeletedKeeps, ColumnsChangeKeeps, TimerFiresKeeps, PatchUiStateKeeps,
     PatchAnsweredKeeps, PatchFailsKeeps DEF UiNext
<1> QED BY <1>1, <1>2

\* With no timer set and no PATCH under way the registry holds the layout the page
\* shows, but for what usePersistedUiState does not save again: after a failed read
\* or PATCH, one that was overtaken, or a change undone while it was being saved.
THEOREM LayoutIsSaved == UiSpec => []QuietPageIsSaved
<1>1. UiInv => QuietPageIsSaved
  <2>1. DefaultLayout = Retained(DefaultLayout, uiColumns)
    BY LayoutsAre, RetainedFacts
  <2> QED BY <2>1 DEF UiInv, AtRest, Base, QuietPageIsSaved
<1> QED BY <1>1, UiStart, UiStep, PTL DEF UiSpec

-----------------------------------------------------------------------------
\* The terminal's screen.
\* What is shown, kept and on its way, as sets of units.
UnitsIn(s) == {s[i] : i \in DOMAIN s} \ {0}
UnitsOfAll(ss) == UNION {UnitsIn(ss[k]) : k \in DOMAIN ss}
Below(early, late) == \A u \in early, v \in late : u < v
Ascends(s) == \A i, j \in DOMAIN s : i < j /\ s[i] # 0 /\ s[j] # 0 => s[i] < s[j]
ChunksAscend(ss) ==
  /\ \A k \in DOMAIN ss : Ascends(ss[k])
  /\ \A i, j \in DOMAIN ss : i < j => Below(UnitsIn(ss[i]), UnitsIn(ss[j]))
\* A run of units, of which n is the last.
EndsAt(s, n) == \A k \in 1..Len(s) : s[k] + Len(s) = n + k

LEMMA UnitsNone == UnitsIn(<< >>) = {} /\ UnitsOfAll(<< >>) = {} /\ Ascends(<< >>) /\ ChunksAscend(<< >>)
<1>1. DOMAIN << >> = {}
  OBVIOUS
<1> QED BY <1>1 DEF UnitsIn, UnitsOfAll, Ascends, ChunksAscend

LEMMA UnitsConcat ==
  ASSUME NEW s \in Seq(Nat), NEW t \in Seq(Nat)
  PROVE  UnitsIn(s \o t) = UnitsIn(s) \cup UnitsIn(t)
<1>1. /\ Len(s) \in Nat /\ Len(t) \in Nat /\ DOMAIN s = 1..Len(s) /\ DOMAIN t = 1..Len(t)
      /\ DOMAIN (s \o t) = 1..(Len(s) + Len(t))
      /\ \A i \in 1..(Len(s) + Len(t)) : (s \o t)[i] = IF i <= Len(s) THEN s[i] ELSE t[i - Len(s)]
  BY ConcatProperties, LenProperties
<1>2. ASSUME NEW i \in DOMAIN (s \o t) PROVE (s \o t)[i] \in {s[j] : j \in DOMAIN s} \cup {t[j] : j \in DOMAIN t}
  <2>1. CASE i <= Len(s)
    <3>1. i \in DOMAIN s /\ (s \o t)[i] = s[i]
      BY <1>1, <2>1
    <3> QED BY <3>1
  <2>2. CASE ~(i <= Len(s))
    <3>1. i - Len(s) \in DOMAIN t /\ (s \o t)[i] = t[i - Len(s)]
      BY <1>1, <2>2
    <3> QED BY <3>1
  <2> QED BY <2>1, <2>2
<1>3. ASSUME NEW j \in DOMAIN s PROVE j \in DOMAIN (s \o t) /\ (s \o t)[j] = s[j]
  BY <1>1
<1>4. ASSUME NEW j \in DOMAIN t PROVE j + Len(s) \in DOMAIN (s \o t) /\ (s \o t)[j + Len(s)] = t[j]
  <2>1. j + Len(s) \in 1..(Len(s) + Len(t)) /\ ~(j + Len(s) <= Len(s)) /\ j + Len(s) - Len(s) = j
    BY <1>1
  <2> QED BY <1>1, <2>1
<1> QED BY <1>2, <1>3, <1>4 DEF UnitsIn

LEMMA AscendsConcat ==
  ASSUME NEW s \in Seq(Nat), NEW t \in Seq(Nat), Ascends(s), Ascends(t), Below(UnitsIn(s), UnitsIn(t))
  PROVE  Ascends(s \o t)
<1>1. /\ Len(s) \in Nat /\ Len(t) \in Nat /\ DOMAIN s = 1..Len(s) /\ DOMAIN t = 1..Len(t)
      /\ DOMAIN (s \o t) = 1..(Len(s) + Len(t))
      /\ \A i \in 1..(Len(s) + Len(t)) : (s \o t)[i] = IF i <= Len(s) THEN s[i] ELSE t[i - Len(s)]
  BY ConcatProperties, LenProperties
<1> SUFFICES ASSUME NEW i \in DOMAIN (s \o t), NEW j \in DOMAIN (s \o t), i < j,
                    (s \o t)[i] # 0, (s \o t)[j] # 0
             PROVE  (s \o t)[i] < (s \o t)[j]
  BY DEF Ascends
<1>2. CASE j <= Len(s)
  <2>1. i \in DOMAIN s /\ j \in DOMAIN s /\ (s \o t)[i] = s[i] /\ (s \o t)[j] = s[j]
    BY <1>1, <1>2
  <2> QED BY <2>1 DEF Ascends
<1>3. CASE i <= Len(s) /\ ~(j <= Len(s))
  <2>1. i \in DOMAIN s /\ j - Len(s) \in DOMAIN t /\ (s \o t)[i] = s[i] /\ (s \o t)[j] = t[j - Len(s)]
    BY <1>1, <1>3
  <2> QED BY <2>1 DEF Below, UnitsIn
<1>4. CASE ~(i <= Len(s))
  <2>1. /\ i - Len(s) \in DOMAIN t /\ j - Len(s) \in DOMAIN t /\ i - Len(s) < j - Len(s)
        /\ (s \o t)[i] = t[i - Len(s)] /\ (s \o t)[j] = t[j - Len(s)]
    BY <1>1, <1>4
  <2> QED BY <2>1 DEF Ascends
<1> QED BY <1>1, <1>2, <1>3, <1>4

LEMMA ChunksAppend ==
  ASSUME NEW ss \in Seq(Seq(Nat)), NEW s \in Seq(Nat)
  PROVE  /\ UnitsOfAll(Append(ss, s)) = UnitsOfAll(ss) \cup UnitsIn(s)
         /\ ChunksAscend(Append(ss, s)) <=>
              ChunksAscend(ss) /\ Ascends(s) /\ Below(UnitsOfAll(ss), UnitsIn(s))
<1> DEFINE tt == Append(ss, s)
           n == Len(ss)
<1>1. /\ n \in Nat /\ DOMAIN ss = 1..n /\ DOMAIN tt = 1..(n + 1)
      /\ \A i \in 1..n : tt[i] = ss[i]
      /\ tt[n + 1] = s
  <2>1. /\ tt \in Seq(Seq(Nat)) /\ Len(tt) = n + 1 /\ \A i \in 1..n : tt[i] = ss[i]
        /\ tt[n + 1] = s
    BY AppendProperties
  <2>2. n \in Nat /\ DOMAIN ss = 1..n
    BY LenProperties
  <2>3. DOMAIN tt = 1..Len(tt)
    BY <2>1, LenProperties
  <2> QED BY <2>1, <2>2, <2>3
<1> HIDE DEF tt, n
<1>2. DOMAIN tt = DOMAIN ss \cup {n + 1} /\ n + 1 \notin DOMAIN ss /\ \A i \in DOMAIN ss : i < n + 1
  BY <1>1
<1>3. UnitsOfAll(tt) = UnitsOfAll(ss) \cup UnitsIn(s)
  BY <1>1, <1>2 DEF UnitsOfAll
<1>4. (\A k \in DOMAIN tt : Ascends(tt[k])) <=> (\A k \in DOMAIN ss : Ascends(ss[k])) /\ Ascends(s)
  BY <1>1, <1>2
<1>5. ASSUME ChunksAscend(tt) PROVE ChunksAscend(ss) /\ Ascends(s) /\ Below(UnitsOfAll(ss), UnitsIn(s))
  <2>1. \A i, j \in DOMAIN ss : i < j => Below(UnitsIn(ss[i]), UnitsIn(ss[j]))
    <3>1. \A i, j \in DOMAIN tt : i < j => Below(UnitsIn(tt[i]), UnitsIn(tt[j]))
      BY <1>5 DEF ChunksAscend
    <3> SUFFICES ASSUME NEW i \in DOMAIN ss, NEW j \in DOMAIN ss, i < j
                 PROVE  Below(UnitsIn(ss[i]), UnitsIn(ss[j]))
      OBVIOUS
    <3>2. i \in DOMAIN tt /\ j \in DOMAIN tt /\ tt[i] = ss[i] /\ tt[j] = ss[j]
      BY <1>1, <1>2
    <3> QED BY <3>1, <3>2
  <2>2. \A i \in DOMAIN ss : Below(UnitsIn(ss[i]), UnitsIn(s))
    BY <1>1, <1>2, <1>5 DEF ChunksAscend
  <2>3. Below(UnitsOfAll(ss), UnitsIn(s))
    BY <2>2 DEF Below, UnitsOfAll
  <2> QED BY <1>4, <1>5, <2>1, <2>3 DEF ChunksAscend
<1>6. ASSUME ChunksAscend(ss), Ascends(s), Below(UnitsOfAll(ss), UnitsIn(s)) PROVE ChunksAscend(tt)
  <2>1. ASSUME NEW i \in DOMAIN tt, NEW j \in DOMAIN tt, i < j PROVE Below(UnitsIn(tt[i]), UnitsIn(tt[j]))
    <3>1. i \in DOMAIN ss /\ tt[i] = ss[i]
      BY <1>1, <2>1
    <3>2. CASE j \in DOMAIN ss
      BY <1>1, <1>6, <2>1, <3>1, <3>2 DEF ChunksAscend
    <3>3. CASE j = n + 1
      <4>1. \A u \in UnitsIn(ss[i]) : u \in UnitsOfAll(ss)
        BY <3>1 DEF UnitsOfAll
      <4> QED BY <1>1, <1>6, <3>1, <3>3, <4>1 DEF Below
    <3> QED BY <1>2, <3>2, <3>3
  <2> QED BY <1>4, <1>6, <2>1 DEF ChunksAscend
<1> QED BY <1>3, <1>5, <1>6 DEF tt

LEMMA ChunksFlatten ==
  ASSUME NEW ss \in Seq(Seq(Nat))
  PROVE  UnitsIn(FlattenSeq(ss)) = UnitsOfAll(ss) /\ (ChunksAscend(ss) => Ascends(FlattenSeq(ss)))
<1> DEFINE Flat(tt) == /\ UnitsIn(FlattenSeq(tt)) = UnitsOfAll(tt)
                       /\ ChunksAscend(tt) => Ascends(FlattenSeq(tt))
           T == {n \in Nat : \E tt \in Seq(Seq(Nat)) : Len(tt) = n /\ ~Flat(tt)}
<1>1. SUFFICES ASSUME T # {} PROVE FALSE
  <2> HIDE DEF Flat
  <2>1. Len(ss) \in Nat
    BY LenProperties
  <2>2. Flat(ss)
    BY <2>1
  <2> QED BY <2>2 DEF Flat
<1> HIDE DEF Flat
<1>2. PICK n \in T : \A k \in T : n <= k
  BY <1>1, LeastNumber
<1>3. PICK tt \in Seq(Seq(Nat)) : Len(tt) = n /\ ~Flat(tt)
  BY <1>2
<1>4. CASE tt = << >>
  BY <1>3, <1>4, FlattenNothing, UnitsNone DEF Flat
<1>5. CASE tt # << >>
  <2>1. PICK vv \in Seq(Seq(Nat)), s \in Seq(Nat) : tt = Append(vv, s)
    BY <1>5, SequenceEmptyOrAppend
  <2>2. Len(tt) = Len(vv) + 1 /\ Len(vv) \in Nat
    <3>1. Len(Append(vv, s)) = Len(vv) + 1
      BY AppendProperties
    <3>2. Len(vv) \in Nat
      BY LenProperties
    <3> QED BY <2>1, <3>1, <3>2
  <2>3. Flat(vv)
    <3> SUFFICES ASSUME ~Flat(vv) PROVE FALSE
      OBVIOUS
    <3>1. Len(vv) \in T
      BY <2>2
    <3> HIDE DEF T
    <3>2. n <= Len(vv)
      BY <1>2, <3>1
    <3> QED BY <1>3, <2>2, <3>2
  <2>4. FlattenSeq(Append(vv, s)) = FlattenSeq(vv) \o s
    BY FlattenAppend
  <2>5. FlattenSeq(vv) \in Seq(Nat)
    BY FlattenComes
  <2>6. UnitsIn(FlattenSeq(tt)) = UnitsIn(FlattenSeq(vv)) \cup UnitsIn(s)
    BY <2>1, <2>4, <2>5, UnitsConcat
  <2>7. /\ UnitsOfAll(tt) = UnitsOfAll(vv) \cup UnitsIn(s)
        /\ ChunksAscend(tt) => ChunksAscend(vv) /\ Ascends(s) /\ Below(UnitsOfAll(vv), UnitsIn(s))
    BY <2>1, ChunksAppend
  <2>8. ChunksAscend(tt) => Ascends(FlattenSeq(tt))
    BY <2>1, <2>3, <2>4, <2>5, <2>7, AscendsConcat DEF Flat
  <2> QED BY <1>3, <2>3, <2>6, <2>7, <2>8 DEF Flat
<1> QED BY <1>4, <1>5

LEMMA RunAscends ==
  ASSUME NEW s \in Seq(Nat), NEW n \in Nat, EndsAt(s, n), Len(s) <= n
  PROVE  Ascends(s) /\ UnitsIn(s) = (n + 1 - Len(s))..n
<1>1. Len(s) \in Nat /\ DOMAIN s = 1..Len(s) /\ \A k \in 1..Len(s) : s[k] \in Nat
  BY LenProperties, ElementOfSeq
<1>2. \A k \in 1..Len(s) : s[k] = n + k - Len(s)
  <2> SUFFICES ASSUME NEW k \in 1..Len(s) PROVE s[k] = n + k - Len(s)
    OBVIOUS
  <2>1. s[k] \in Nat /\ s[k] + Len(s) = n + k
    BY <1>1 DEF EndsAt
  <2> QED BY <1>1, <2>1
<1>3. Ascends(s)
  BY <1>1, <1>2 DEF Ascends
<1>4. ASSUME NEW u \in UnitsIn(s) PROVE u \in (n + 1 - Len(s))..n
  <2>1. PICK k \in 1..Len(s) : u = s[k]
    BY <1>1 DEF UnitsIn
  <2> QED BY <1>1, <1>2, <2>1
<1>5. ASSUME NEW u \in (n + 1 - Len(s))..n PROVE u \in UnitsIn(s)
  <2>1. u + Len(s) - n \in 1..Len(s) /\ n + (u + Len(s) - n) - Len(s) = u
    BY <1>1
  <2>2. s[u + Len(s) - n] = u /\ u # 0
    BY <1>1, <1>2, <2>1
  <2> QED BY <1>1, <2>1, <2>2 DEF UnitsIn
<1> QED BY <1>3, <1>4, <1>5

-----------------------------------------------------------------------------
\* appendScrollback: what is kept is a run of the last units printed, never nothing.
LEMMA LastUnitsAre ==
  ASSUME NEW s \in Seq(Nat), NEW n \in Nat, n <= Len(s), NEW last \in Nat, EndsAt(s, last)
  PROVE  /\ LastUnits(s, n) \in Seq(Nat) /\ Len(LastUnits(s, n)) = n
         /\ EndsAt(LastUnits(s, n), last)
<1>1. Len(s) \in Nat /\ \A k \in 1..Len(s) : s[k] \in Nat
  BY LenProperties, ElementOfSeq
<1> DEFINE m == Len(s) + 1 - n
           t == SubSeq(s, m, Len(s))
<1>2. m \in Int /\ Len(s) \in Int /\ \A i \in m..Len(s) : s[i] \in Nat
  BY <1>1
<1>3. /\ t \in Seq(Nat) /\ Len(t) = IF m <= Len(s) THEN Len(s) - m + 1 ELSE 0
      /\ \A i \in 1..(Len(s) - m + 1) : t[i] = s[m + i - 1]
  <2> HIDE DEF m
  <2> QED BY <1>2, SubSeqProperties
<1> HIDE DEF t
<1>4. Len(t) = n
  BY <1>1, <1>3
<1>5. ASSUME NEW k \in 1..n PROVE t[k] + n = last + k
  <2> DEFINE L == Len(s)
             p == m + k - 1
  <2>1. k \in 1..(L - m + 1) /\ p \in 1..L /\ p = L + k - n /\ L \in Nat
    BY <1>1
  <2>2. t[k] = s[p]
    BY <1>3, <2>1
  <2>3. s[p] \in Nat /\ s[p] + L = last + p
    BY <1>1, <2>1 DEF EndsAt
  <2> HIDE DEF p, L
  <2>4. s[p] + n = last + k
    BY <2>1, <2>3
  <2> QED BY <2>2, <2>4
<1>6. EndsAt(t, last)
  BY <1>4, <1>5 DEF EndsAt
<1> QED BY <1>3, <1>4, <1>6 DEF t, LastUnits

LEMMA FlattenOne == ASSUME NEW s \in Seq(Nat) PROVE <<s>> \in Seq(Seq(Nat)) /\ FlattenSeq(<<s>>) = s
<1>1. << >> \in Seq(Seq(Nat)) /\ Append(<< >>, s) = <<s>>
  OBVIOUS
<1>2. << >> \o s = s
  BY ConcatEmptySeq
<1>3. FlattenSeq(Append(<< >>, s)) = FlattenSeq(<< >>) \o s
  BY <1>1, FlattenAppend
<1>4. <<s>> \in Seq(Seq(Nat))
  OBVIOUS
<1>5. FlattenSeq(<<s>>) = s
  BY <1>1, <1>2, <1>3, FlattenNothing, Zenon
<1> QED BY <1>4, <1>5

LEMMA UnitsAreCounted ==
  ASSUME NEW ss \in Seq(Seq(Nat))
  PROVE  FlattenSeq(ss) \in Seq(Nat) /\ UnitsOf(ss) = Len(FlattenSeq(ss)) /\ UnitsOf(ss) \in Nat
<1>1. FlattenSeq(ss) \in Seq(Nat)
  BY FlattenComes
<1>2. Len(FlattenSeq(ss)) \in Nat
  BY <1>1, LenProperties
<1> QED BY <1>1, <1>2 DEF UnitsOf

LEMMA SuffixesAre ==
  ASSUME NEW ss \in Seq(Seq(Nat)), NEW rest \in Suffixes(ss)
  PROVE  /\ rest \in Seq(Seq(Nat)) /\ Len(rest) <= Len(ss)
         /\ \E pre \in Seq(Seq(Nat)) : ss = pre \o rest
<1>1. Len(ss) \in Nat /\ \A k \in 1..Len(ss) : ss[k] \in Seq(Nat)
  BY LenProperties, ElementOfSeq
<1>2. CASE rest = << >>
  <2>1. << >> \in Seq(Seq(Nat)) /\ Len(<< >>) = 0 /\ ss = ss \o << >>
    BY ConcatEmptySeq
  <2> QED BY <1>1, <1>2, <2>1
<1>3. CASE rest # << >>
  <2>1. PICK l \in 1..Len(ss) : rest = SubSeq(ss, l, Len(ss))
    BY <1>3 DEF Suffixes
  <2> DEFINE pre == SubSeq(ss, 1, l - 1)
  <2>2. pre \in Seq(Seq(Nat))
    <3>1. l - 1 \in Int /\ 1 \in Int /\ \A i \in 1..(l - 1) : ss[i] \in Seq(Nat)
      BY <1>1
    <3> QED BY <3>1, SubSeqProperties
  <2>3. rest \in Seq(Seq(Nat)) /\ Len(rest) = Len(ss) - l + 1
    <3>1. l \in Int /\ Len(ss) \in Int /\ l <= Len(ss) /\ \A i \in l..Len(ss) : ss[i] \in Seq(Nat)
      BY <1>1
    <3> QED BY <2>1, <3>1, SubSeqProperties
  <2>4. pre \o rest = ss
    <3>1. /\ 1 \in 1..(Len(ss) + 1) /\ l - 1 \in (1 - 1)..Len(ss) /\ Len(ss) \in (l - 1)..Len(ss)
          /\ l - 1 + 1 = l
      BY <1>1
    <3>2. SubSeq(ss, 1, l - 1) \o SubSeq(ss, l - 1 + 1, Len(ss)) = SubSeq(ss, 1, Len(ss))
      BY <3>1, ConcatAdjacentSubSeq
    <3> QED BY <2>1, <3>1, <3>2, SubSeqFull
  <2>5. Len(rest) <= Len(ss)
    BY <1>1, <2>3
  <2> HIDE DEF pre
  <2> QED BY <2>2, <2>3, <2>4, <2>5
<1> QED BY <1>2, <1>3

LEMMA RestOfRun ==
  ASSUME NEW all \in Seq(Seq(Nat)), NEW rest \in Suffixes(all), NEW last \in Nat,
         EndsAt(FlattenSeq(all), last)
  PROVE  EndsAt(FlattenSeq(rest), last) /\ UnitsOf(rest) <= UnitsOf(all)
<1>1. rest \in Seq(Seq(Nat))
  BY SuffixesAre
<1>2. PICK pre \in Seq(Seq(Nat)) : all = pre \o rest
  BY SuffixesAre
<1> DEFINE s == FlattenSeq(pre)
           t == FlattenSeq(rest)
<1>3. FlattenSeq(all) = s \o t
  BY <1>1, <1>2, FlattenConcat
<1>4. s \in Seq(Nat) /\ t \in Seq(Nat) /\ UnitsOf(rest) = Len(t) /\ UnitsOf(all) = Len(s \o t)
  BY <1>1, <1>3, UnitsAreCounted
<1> HIDE DEF s, t
<1>5. /\ Len(s) \in Nat /\ Len(t) \in Nat /\ Len(s \o t) = Len(s) + Len(t)
      /\ \A i \in 1..(Len(s) + Len(t)) : (s \o t)[i] = IF i <= Len(s) THEN s[i] ELSE t[i - Len(s)]
      /\ \A i \in 1..Len(t) : t[i] \in Nat
  BY <1>4, ConcatProperties, LenProperties, ElementOfSeq
<1>6. ASSUME NEW k \in 1..Len(t) PROVE t[k] + Len(t) = last + k
  <2>1. /\ Len(s) + k \in 1..(Len(s) + Len(t)) /\ ~(Len(s) + k <= Len(s)) /\ Len(s) + k - Len(s) = k
    BY <1>5
  <2>2. (s \o t)[Len(s) + k] = t[k]
    BY <1>5, <2>1
  <2>3. (s \o t)[Len(s) + k] + (Len(s) + Len(t)) = last + (Len(s) + k)
    BY <1>3, <1>5, <2>1 DEF EndsAt
  <2> DEFINE x == t[k]
             L == Len(s)
             M == Len(t)
  <2>4. x \in Nat /\ L \in Nat /\ M \in Nat /\ k \in Nat /\ x + (L + M) = last + (L + k)
    BY <1>5, <2>2, <2>3
  <2> HIDE DEF x, L, M
  <2>5. x + M = last + k
    BY <2>4
  <2> QED BY <2>5 DEF x, M
<1>7. EndsAt(t, last)
  BY <1>6 DEF EndsAt
<1> QED BY <1>4, <1>5, <1>7 DEF t

Kept(all) == {rest \in Suffixes(all) : UnitsOf(rest) <= ScrollbackMax}
LEMMA LongestIsKept ==
  ASSUME NEW all \in Seq(Seq(Nat)), all # << >>, Len(all[Len(all)]) <= ScrollbackMax
  PROVE  LET rest == CHOOSE rest \in Suffixes(all) :
                       /\ UnitsOf(rest) <= ScrollbackMax
                       /\ \A more \in Suffixes(all) : UnitsOf(more) <= ScrollbackMax => Len(more) <= Len(rest)
         IN rest \in Suffixes(all) /\ rest # << >>
<1>1. Len(all) \in Nat /\ Len(all) # 0 /\ \A k \in 1..Len(all) : all[k] \in Seq(Nat)
  <2>1. \A R : \A r \in Seq(R) : r # << >> => Len(r) \in Nat \ {0}
    BY EmptySeq
  <2> QED BY <2>1, ElementOfSeq
<1> DEFINE last == SubSeq(all, Len(all), Len(all))
           T == {Len(rest) : rest \in Kept(all)}
<1>2. last \in Kept(all) /\ Len(last) = 1
  <2>1. Len(all) \in 1..Len(all) /\ all[Len(all)] \in Seq(Nat)
    BY <1>1
  <2>2. last = <<all[Len(all)]>>
    <3>1. last = <<all[Len(all)]>> \o SubSeq(all, Len(all) + 1, Len(all))
      BY <2>1, SubSeqRecursiveFirst
    <3>2. SubSeq(all, Len(all) + 1, Len(all)) = << >>
      BY <1>1, SubSeqEmpty
    <3>3. <<all[Len(all)]>> \in Seq(Seq(Nat))
      BY <2>1
    <3>4. <<all[Len(all)]>> \o << >> = <<all[Len(all)]>>
      BY <3>3, ConcatEmptySeq
    <3> QED BY <3>1, <3>2, <3>4
  <2>3. UnitsOf(last) = Len(all[Len(all)])
    BY <2>1, <2>2, FlattenOne DEF UnitsOf
  <2>4. last \in Suffixes(all)
    BY <2>1 DEF Suffixes
  <2> QED BY <2>2, <2>3, <2>4 DEF Kept
<1> HIDE DEF last
<1>3. ASSUME NEW rest \in Kept(all) PROVE rest \in Suffixes(all) /\ Len(rest) \in Nat /\ Len(rest) <= Len(all)
  <2>1. rest \in Suffixes(all)
    BY DEF Kept
  <2>2. rest \in Seq(Seq(Nat)) /\ Len(rest) <= Len(all)
    BY <2>1, SuffixesAre
  <2> QED BY <2>1, <2>2, LenProperties
<1>4. PICK m \in T : \A n \in T : n <= m
  <2>1. T \subseteq Nat /\ T # {} /\ \A n \in T : n <= Len(all)
    BY <1>2, <1>3
  <2> HIDE DEF T
  <2> QED BY <1>1, <2>1, BoundedHasGreatest
<1>5. PICK rest \in Kept(all) : \A more \in Kept(all) : Len(more) <= Len(rest)
  BY <1>4
<1>6. \E r \in Suffixes(all) :
        /\ UnitsOf(r) <= ScrollbackMax
        /\ \A more \in Suffixes(all) : UnitsOf(more) <= ScrollbackMax => Len(more) <= Len(r)
  BY <1>5 DEF Kept
<1> DEFINE kept == CHOOSE r \in Suffixes(all) :
                     /\ UnitsOf(r) <= ScrollbackMax
                     /\ \A more \in Suffixes(all) : UnitsOf(more) <= ScrollbackMax => Len(more) <= Len(r)
<1>7. /\ kept \in Suffixes(all)
      /\ \A more \in Suffixes(all) : UnitsOf(more) <= ScrollbackMax => Len(more) <= Len(kept)
  BY <1>6
<1> HIDE DEF kept
<1>8. 1 <= Len(kept)
  BY <1>2, <1>7 DEF Kept
<1>9. kept # << >>
  BY <1>8
<1> QED BY <1>7, <1>9 DEF kept

LEMMA WithChunkIs ==
  ASSUME NEW chunks \in Seq(Seq(Nat)), NEW n \in Nat \ {0}, NEW last \in Nat,
         EndsAt(FlattenSeq(chunks), last)
  PROVE  LET rest == WithChunk(chunks, [k \in 1..n |-> last + k])
         IN /\ rest \in Seq(Seq(Nat)) /\ rest # << >>
            /\ EndsAt(FlattenSeq(rest), last + n)
            /\ UnitsOf(rest) <= UnitsOf(chunks) + n
<1> DEFINE chunk == [k \in 1..n |-> last + k]
           all == IF Len(chunk) > ScrollbackMax THEN <<LastUnits(chunk, ScrollbackMax)>>
                  ELSE Append(chunks, chunk)
           rest == WithChunk(chunks, chunk)
<1>0. ScrollbackMax \in Nat \ {0} /\ last + n \in Nat
  BY ScreenAssumption
<1>1. chunk \in Seq(Nat) /\ Len(chunk) = n
  <2>1. chunk \in [1..n -> Nat]
    OBVIOUS
  <2> HIDE DEF chunk
  <2> QED BY <2>1, FunctionIsSeq
<1>2. EndsAt(chunk, last + n)
  BY <1>1 DEF EndsAt
<1>3. FlattenSeq(chunks) \in Seq(Nat) /\ UnitsOf(chunks) = Len(FlattenSeq(chunks)) /\ UnitsOf(chunks) \in Nat
  BY UnitsAreCounted
<1>4. /\ all \in Seq(Seq(Nat)) /\ all # << >> /\ Len(all[Len(all)]) <= ScrollbackMax
      /\ EndsAt(FlattenSeq(all), last + n) /\ UnitsOf(all) <= UnitsOf(chunks) + n
  <2>1. CASE n > ScrollbackMax
    <3> DEFINE cut == LastUnits(chunk, ScrollbackMax)
    <3>1. all = <<cut>>
      BY <1>1, <2>1
    <3>2. cut \in Seq(Nat) /\ Len(cut) = ScrollbackMax /\ EndsAt(cut, last + n)
      <4>1. chunk \in Seq(Nat) /\ ScrollbackMax \in Nat /\ ScrollbackMax <= Len(chunk) /\ EndsAt(chunk, last + n)
        BY <1>0, <1>1, <1>2, <2>1
      <4> HIDE DEF chunk
      <4> QED BY <1>0, <4>1, LastUnitsAre
    <3> HIDE DEF cut, all
    <3>3. <<cut>> \in Seq(Seq(Nat)) /\ FlattenSeq(<<cut>>) = cut
      BY <3>2, FlattenOne
    <3>4. UnitsOf(all) = ScrollbackMax
      BY <3>1, <3>2, <3>3 DEF UnitsOf
    <3>5. all # << >> /\ Len(all) = 1 /\ all[Len(all)] = cut
      BY <3>1
    <3> QED BY <1>0, <1>3, <2>1, <3>1, <3>2, <3>3, <3>4, <3>5
  <2>2. CASE ~(n > ScrollbackMax)
    <3> DEFINE s == FlattenSeq(chunks)
    <3>1. all = Append(chunks, chunk)
      BY <1>1, <2>2
    <3> HIDE DEF all, chunk
    <3>2. all \in Seq(Seq(Nat)) /\ all # << >> /\ all[Len(all)] = chunk
      BY <1>1, <3>1, AppendProperties
    <3>3. FlattenSeq(all) = s \o chunk
      BY <1>1, <3>1, FlattenAppend
    <3>4. UnitsOf(all) = Len(s \o chunk)
      BY <3>3 DEF UnitsOf
    <3> HIDE DEF s
    <3>5. s \in Seq(Nat) /\ Len(s) \in Nat /\ UnitsOf(chunks) = Len(s) /\ EndsAt(s, last)
      BY <1>3 DEF s
    <3>6. /\ Len(s \o chunk) = Len(s) + n
          /\ \A i \in 1..(Len(s) + n) : (s \o chunk)[i] = IF i <= Len(s) THEN s[i] ELSE chunk[i - Len(s)]
      BY <1>1, <3>5, ConcatProperties
    <3>7. ASSUME NEW i \in 1..(Len(s) + n) PROVE (s \o chunk)[i] + (Len(s) + n) = last + n + i
      <4>1. CASE i <= Len(s)
        <5>1. i \in 1..Len(s) /\ (s \o chunk)[i] = s[i]
          BY <3>5, <3>6, <4>1
        <5>2. s[i] \in Nat /\ s[i] + Len(s) = last + i
          BY <3>5, <5>1, ElementOfSeq DEF EndsAt
        <5> DEFINE x == s[i]
                   L == Len(s)
        <5>3. x \in Nat /\ L \in Nat /\ i \in Nat /\ x + L = last + i
          BY <3>5, <5>1, <5>2
        <5> HIDE DEF x, L
        <5>4. x + (L + n) = last + n + i
          BY <5>3
        <5> QED BY <5>1, <5>4 DEF x, L
      <4>2. CASE ~(i <= Len(s))
        <5>1. i - Len(s) \in 1..n /\ (s \o chunk)[i] = chunk[i - Len(s)]
          BY <3>5, <3>6, <4>2
        <5>2. chunk[i - Len(s)] = last + (i - Len(s))
          BY <5>1 DEF chunk
        <5> QED BY <3>5, <5>1, <5>2
      <4> QED BY <4>1, <4>2
    <3>8. EndsAt(FlattenSeq(all), last + n)
      BY <3>3, <3>6, <3>7 DEF EndsAt
    <3>9. UnitsOf(all) = UnitsOf(chunks) + n
      BY <3>4, <3>5, <3>6
    <3>10. Len(all[Len(all)]) = n /\ n <= ScrollbackMax
      BY <1>0, <1>1, <2>2, <3>2
    <3>11. UnitsOf(all) <= UnitsOf(chunks) + n
      BY <1>3, <3>9
    <3> QED BY <3>2, <3>8, <3>10, <3>11
  <2> QED BY <2>1, <2>2
<1>5. rest = CHOOSE r \in Suffixes(all) :
               /\ UnitsOf(r) <= ScrollbackMax
               /\ \A more \in Suffixes(all) : UnitsOf(more) <= ScrollbackMax => Len(more) <= Len(r)
  BY DEF WithChunk
<1> HIDE DEF rest, all, chunk
<1>6. rest \in Suffixes(all) /\ rest # << >>
  BY <1>4, <1>5, LongestIsKept
<1>7. rest \in Seq(Seq(Nat))
  BY <1>4, <1>6, SuffixesAre
<1>8. EndsAt(FlattenSeq(rest), last + n) /\ UnitsOf(rest) <= UnitsOf(all)
  BY <1>0, <1>4, <1>6, RestOfRun
<1>9. UnitsOf(rest) \in Nat /\ UnitsOf(all) \in Nat
  BY <1>4, <1>7, UnitsAreCounted
<1>10. UnitsOf(rest) <= UnitsOf(chunks) + n
  BY <1>3, <1>4, <1>8, <1>9
<1> QED BY <1>6, <1>7, <1>8, <1>10 DEF rest, chunk

-----------------------------------------------------------------------------
\* What is on its way: a history comes first if at all, and what follows it is later.
Messages == [type : {"output", "history", "close"}, units : Seq(Nat)]
Resets(w) == w # << >> /\ w[1].type = "history"
OnWire(w) == UNION {UnitsIn(w[k].units) : k \in DOMAIN w}
MessageOK(m, n) ==
  /\ Ascends(m.units) /\ UnitsIn(m.units) \subseteq 1..n
  /\ m.type = "close" => m.units = << >>
WireOK(w, given, n) ==
  /\ w \in Seq(Messages)
  /\ \A k \in DOMAIN w :
       /\ MessageOK(w[k], n)
       /\ w[k].type = "history" => k = 1
       /\ ~Resets(w) => Below(given, UnitsIn(w[k].units))
  /\ \A i, j \in DOMAIN w : i < j => Below(UnitsIn(w[i].units), UnitsIn(w[j].units))

LEMMA WireIsEmpty ==
  ASSUME NEW given, NEW n
  PROVE  WireOK(<< >>, given, n) /\ OnWire(<< >>) = {} /\ ~Resets(<< >>)
<1>1. DOMAIN << >> = {} /\ << >> \in Seq(Messages)
  OBVIOUS
<1> QED BY <1>1 DEF WireOK, OnWire, Resets

LEMMA WireAppend ==
  ASSUME NEW w, NEW given, NEW n \in Nat, WireOK(w, given, n), given \subseteq 1..n,
         NEW m \in Messages, m.type # "history", NEW late \in Nat, n <= late, MessageOK(m, late),
         UnitsIn(m.units) \subseteq (n + 1)..late
  PROVE  /\ WireOK(Append(w, m), given, late)
         /\ OnWire(Append(w, m)) = OnWire(w) \cup UnitsIn(m.units)
         /\ Resets(Append(w, m)) <=> Resets(w)
<1> DEFINE v == Append(w, m)
           l == Len(w)
<1>1. /\ w \in Seq(Messages) /\ v \in Seq(Messages) /\ l \in Nat
      /\ DOMAIN w = 1..l /\ DOMAIN v = 1..(l + 1)
      /\ \A k \in 1..l : v[k] = w[k]
      /\ v[l + 1] = m
  <2>1. w \in Seq(Messages)
    BY DEF WireOK
  <2>2. /\ v \in Seq(Messages) /\ Len(v) = l + 1 /\ \A k \in 1..l : v[k] = w[k]
        /\ v[l + 1] = m
    BY <2>1, AppendProperties
  <2>3. l \in Nat /\ DOMAIN w = 1..l /\ DOMAIN v = 1..Len(v)
    BY <2>1, <2>2, LenProperties
  <2> QED BY <2>1, <2>2, <2>3
<1>2. w = << >> <=> l = 0
  BY <1>1, EmptySeq
<1>3. v # << >>
  BY <1>1
<1> HIDE DEF v, l
<1>4. /\ DOMAIN v = DOMAIN w \cup {l + 1} /\ l + 1 \notin DOMAIN w
      /\ \A k \in DOMAIN w : v[k] = w[k] /\ k < l + 1
  BY <1>1
<1>5. OnWire(v) = OnWire(w) \cup UnitsIn(m.units)
  BY <1>1, <1>4 DEF OnWire
<1>6. Resets(v) <=> Resets(w)
  <2>1. CASE l = 0
    BY <1>1, <1>2, <2>1 DEF Resets
  <2>2. CASE l # 0
    <3>1. 1 \in 1..l
      BY <1>1, <2>2
    <3>2. v[1] = w[1]
      BY <1>1, <3>1
    <3> QED BY <1>2, <1>3, <2>2, <3>2 DEF Resets
  <2> QED BY <2>1, <2>2
<1>7. \A k \in DOMAIN w : UnitsIn(w[k].units) \subseteq 1..n
  BY DEF WireOK, MessageOK
<1>8. \A early : early \subseteq 1..n => Below(early, UnitsIn(m.units))
  <2> SUFFICES ASSUME NEW early, early \subseteq 1..n, NEW x \in early, NEW y \in UnitsIn(m.units)
               PROVE  x < y
    BY DEF Below
  <2>1. x \in 1..n /\ y \in (n + 1)..late
    OBVIOUS
  <2> QED BY <2>1
<1>9. ASSUME NEW k \in DOMAIN v
      PROVE  /\ MessageOK(v[k], late)
             /\ v[k].type = "history" => k = 1
             /\ ~Resets(v) => Below(given, UnitsIn(v[k].units))
  <2>1. CASE k \in DOMAIN w
    <3>1. v[k] = w[k] /\ MessageOK(w[k], n)
      BY <1>4, <2>1 DEF WireOK
    <3>2. 1..n \subseteq 1..late
      OBVIOUS
    <3>3. MessageOK(w[k], late)
      BY <3>1, <3>2 DEF MessageOK
    <3> QED BY <1>6, <2>1, <3>1, <3>3 DEF WireOK
  <2>2. CASE k = l + 1
    BY <1>1, <1>8, <2>2
  <2> QED BY <1>4, <2>1, <2>2
<1>10. ASSUME NEW i \in DOMAIN v, NEW j \in DOMAIN v, i < j
       PROVE  Below(UnitsIn(v[i].units), UnitsIn(v[j].units))
  <2>1. i \in DOMAIN w /\ v[i] = w[i]
    BY <1>1, <1>10
  <2>2. CASE j \in DOMAIN w
    BY <1>4, <1>10, <2>1, <2>2 DEF WireOK
  <2>3. CASE j = l + 1
    BY <1>1, <1>7, <1>8, <2>1, <2>3
  <2> QED BY <1>4, <2>2, <2>3
<1>11. WireOK(v, given, late)
  BY <1>1, <1>9, <1>10 DEF WireOK
<1> QED BY <1>5, <1>6, <1>11 DEF v

Follows(given, m, w, n) ==
  \A later : (later \subseteq given \cup UnitsIn(m.units) /\ (Resets(w) => later \subseteq UnitsIn(m.units)))
             => WireOK(Tail(w), later, n)
LEMMA WireTail ==
  ASSUME NEW w, NEW given, NEW n \in Nat, WireOK(w, given, n), w # << >>, NEW m, m = Head(w)
  PROVE  /\ m \in Messages /\ MessageOK(m, n)
         /\ Resets(w) <=> m.type = "history"
         /\ OnWire(w) = UnitsIn(m.units) \cup OnWire(Tail(w))
         /\ ~Resets(w) => Below(given, UnitsIn(m.units))
         /\ ~Resets(Tail(w)) /\ Follows(given, m, w, n)
<1> DEFINE v == Tail(w)
           l == Len(w)
<1>1. /\ w \in Seq(Messages) /\ v \in Seq(Messages) /\ l \in Nat /\ l # 0
      /\ DOMAIN w = 1..l /\ DOMAIN v = 1..(l - 1) /\ m = w[1]
      /\ \A k \in 1..(l - 1) : v[k] = w[k + 1]
  <2>1. w \in Seq(Messages)
    BY DEF WireOK
  <2>2. /\ v \in Seq(Messages) /\ Len(v) = l - 1 /\ \A k \in 1..Len(v) : v[k] = w[k + 1]
        /\ Head(w) = w[1]
    BY <2>1, HeadTailProperties
  <2>3. l \in Nat /\ DOMAIN w = 1..l /\ DOMAIN v = 1..Len(v) /\ (w = << >> <=> l = 0)
    BY <2>1, <2>2, LenProperties, EmptySeq
  <2> QED BY <2>1, <2>2, <2>3
<1> HIDE DEF v, l
<1>2. 1 \in DOMAIN w /\ m \in Messages
  BY <1>1, ElementOfSeq
<1>3. MessageOK(m, n) /\ (~Resets(w) => Below(given, UnitsIn(m.units)))
  BY <1>1, <1>2 DEF WireOK
<1>4. Resets(w) <=> m.type = "history"
  BY <1>1 DEF Resets
<1>5. ASSUME NEW k \in DOMAIN v
      PROVE  /\ k + 1 \in DOMAIN w /\ k + 1 # 1 /\ 1 < k + 1 /\ v[k] = w[k + 1] /\ v[k].type # "history"
             /\ MessageOK(v[k], n)
             /\ Below(UnitsIn(m.units), UnitsIn(v[k].units))
             /\ ~Resets(w) => Below(given, UnitsIn(v[k].units))
  <2>1. k + 1 \in DOMAIN w /\ k + 1 # 1 /\ 1 < k + 1 /\ v[k] = w[k + 1]
    BY <1>1
  <2> DEFINE j == k + 1
  <2> HIDE DEF j
  <2>2. j \in DOMAIN w /\ j # 1 /\ 1 < j /\ v[k] = w[j]
    BY <2>1 DEF j
  <2>3. /\ v[k].type # "history" /\ MessageOK(v[k], n)
        /\ ~Resets(w) => Below(given, UnitsIn(v[k].units))
    BY <2>2 DEF WireOK
  <2>4. Below(UnitsIn(m.units), UnitsIn(v[k].units))
    BY <1>1, <1>2, <2>2 DEF WireOK
  <2> QED BY <2>1, <2>3, <2>4
<1>6. ASSUME NEW j \in DOMAIN w, j # 1 PROVE j - 1 \in DOMAIN v /\ v[j - 1] = w[j]
  <2>1. j - 1 \in 1..(l - 1) /\ j - 1 + 1 = j
    BY <1>1, <1>6
  <2> QED BY <1>1, <2>1
<1>7. OnWire(w) = UnitsIn(m.units) \cup OnWire(v)
  <2>1. ASSUME NEW u \in OnWire(w) PROVE u \in UnitsIn(m.units) \cup OnWire(v)
    <3>1. PICK j \in DOMAIN w : u \in UnitsIn(w[j].units)
      BY <2>1 DEF OnWire
    <3>2. CASE j = 1
      BY <1>1, <3>1, <3>2
    <3>3. CASE j # 1
      BY <1>6, <3>1, <3>3 DEF OnWire
    <3> QED BY <3>2, <3>3
  <2>2. ASSUME NEW u \in UnitsIn(m.units) PROVE u \in OnWire(w)
    BY <1>1, <1>2 DEF OnWire
  <2>3. ASSUME NEW u \in OnWire(v) PROVE u \in OnWire(w)
    <3>1. PICK k \in DOMAIN v : u \in UnitsIn(v[k].units)
      BY <2>3 DEF OnWire
    <3>2. k + 1 \in DOMAIN w /\ u \in UnitsIn(w[k + 1].units)
      BY <1>5, <3>1
    <3> QED BY <3>2 DEF OnWire
  <2> QED BY <2>1, <2>2, <2>3
<1>8. ~Resets(v)
  <2> SUFFICES ASSUME Resets(v) PROVE FALSE
    OBVIOUS
  <2>1. v # << >> /\ v[1].type = "history"
    BY DEF Resets
  <2>2. 1 \in DOMAIN v
    <3>1. v = << >> <=> Len(v) = 0
      BY <1>1, EmptySeq
    <3>2. Len(v) \in Nat /\ DOMAIN v = 1..Len(v)
      BY <1>1, LenProperties
    <3> QED BY <2>1, <3>1, <3>2
  <2> QED BY <1>5, <2>1, <2>2
<1>9. ASSUME NEW i \in DOMAIN v, NEW j \in DOMAIN v, i < j
      PROVE  Below(UnitsIn(v[i].units), UnitsIn(v[j].units))
  <2> DEFINE a == i + 1
             b == j + 1
  <2>1. a \in DOMAIN w /\ b \in DOMAIN w /\ a < b /\ v[i] = w[a] /\ v[j] = w[b]
    BY <1>1, <1>9
  <2> HIDE DEF a, b
  <2> QED BY <2>1 DEF WireOK
<1>10. ASSUME NEW later, later \subseteq given \cup UnitsIn(m.units),
              Resets(w) => later \subseteq UnitsIn(m.units)
       PROVE  WireOK(v, later, n)
  <2>1. ASSUME NEW k \in DOMAIN v PROVE Below(later, UnitsIn(v[k].units))
    <3>1. Resets(w) \/ ~Resets(w)
      OBVIOUS
    <3> QED BY <1>5, <1>10, <3>1 DEF Below
  <2> QED BY <1>1, <1>5, <1>9, <2>1 DEF WireOK
<1>11. Follows(given, m, w, n)
  BY <1>10 DEF Follows, v
<1>12. OnWire(w) = UnitsIn(m.units) \cup OnWire(Tail(w)) /\ ~Resets(Tail(w))
  BY <1>7, <1>8 DEF v
<1> QED BY <1>2, <1>3, <1>4, <1>11, <1>12

-----------------------------------------------------------------------------
\* What the panel was given, and what it will have shown once all that is on its
\* way is received: a history replaces what came before it.
GivenTo(shown, back) == UnitsIn(shown) \cup UnitsIn(back.history) \cup UnitsOfAll(back.chunks)
Seen(given, w) == IF Resets(w) THEN OnWire(w) ELSE given \cup OnWire(w)
\* Of the session no unit is missing between some unit and the last printed, and
\* what is kept as scrollback does not begin before it.
Covers(units, sh, n) ==
  \E from \in 1..(n + 1) :
    {u \in units : u >= sh.first} = from..n /\ from + UnitsOf(sh.scrollback) <= n + 1

ShellOK(sh, n) ==
  /\ sh \in [runs : BOOLEAN, first : Nat, scrollback : Seq(Seq(Nat)), client : BOOLEAN]
  /\ ~sh.runs => sh = NoShell
  /\ sh.runs => /\ 1 <= sh.first /\ sh.first + UnitsOf(sh.scrollback) <= n + 1
                /\ EndsAt(FlattenSeq(sh.scrollback), n)
                /\ sh.scrollback = << >> => n < sh.first
PanelOK(shown, back, n) ==
  /\ shown \in Seq(Nat) /\ back \in [history : Seq(Nat), chunks : Seq(Seq(Nat))]
  /\ Ascends(shown) /\ Ascends(back.history) /\ ChunksAscend(back.chunks)
  /\ Below(UnitsIn(back.history), UnitsOfAll(back.chunks))
  /\ GivenTo(shown, back) \subseteq 1..n
HeldBack(x, shown, back) == IF x = "ready" THEN back = NothingHeld ELSE shown = << >>

\* The inductive invariant: the panel's connection needs no part of it.
ScreenInv ==
  /\ printed \in Nat /\ ShellOK(shell, printed)
  /\ PanelOK(painted, held, printed) /\ HeldBack(xterm, painted, held)
  /\ WireOK(wire, GivenTo(painted, held), printed)
  /\ shell.client => Covers(Seen(GivenTo(painted, held), wire), shell, printed)

LEMMA LaterStillOK ==
  ASSUME NEW n \in Nat, NEW late \in Nat, n <= late
  PROVE  /\ \A shown, back : PanelOK(shown, back, n) => PanelOK(shown, back, late)
         /\ \A w, given : WireOK(w, given, n) => WireOK(w, given, late)
<1>1. 1..n \subseteq 1..late
  OBVIOUS
<1>2. ASSUME NEW shown, NEW back, PanelOK(shown, back, n) PROVE PanelOK(shown, back, late)
  BY <1>1, <1>2 DEF PanelOK
<1>3. ASSUME NEW w, NEW given, WireOK(w, given, n) PROVE WireOK(w, given, late)
  <2>1. \A k \in DOMAIN w : MessageOK(w[k], n) => MessageOK(w[k], late)
    BY <1>1 DEF MessageOK
  <2> QED BY <1>3, <2>1 DEF WireOK
<1> QED BY <1>2, <1>3

LEMMA ScrollbackIs ==
  ASSUME NEW sh, NEW n \in Nat, ShellOK(sh, n)
  PROVE  /\ sh.first \in Nat /\ sh.scrollback \in Seq(Seq(Nat)) /\ UnitsOf(sh.scrollback) \in Nat
         /\ FlattenSeq(sh.scrollback) \in Seq(Nat)
         /\ UnitsOf(sh.scrollback) = Len(FlattenSeq(sh.scrollback))
<1>1. sh.first \in Nat /\ sh.scrollback \in Seq(Seq(Nat))
  BY DEF ShellOK
<1> QED BY <1>1, UnitsAreCounted

LEMMA CoversMore ==
  ASSUME NEW units, NEW sh, NEW sh2, NEW n \in Nat, NEW k \in Nat, units \subseteq 1..n,
         Covers(units, sh, n), sh.first \in Nat, sh.first <= n + 1, sh2.first = sh.first,
         UnitsOf(sh.scrollback) \in Nat, UnitsOf(sh2.scrollback) \in Nat,
         UnitsOf(sh2.scrollback) <= UnitsOf(sh.scrollback) + k
  PROVE  Covers(units \cup ((n + 1)..(n + k)), sh2, n + k)
<1>1. PICK from \in 1..(n + 1) :
        {u \in units : u >= sh.first} = from..n /\ from + UnitsOf(sh.scrollback) <= n + 1
  BY DEF Covers
<1> DEFINE a == UnitsOf(sh.scrollback)
           b == UnitsOf(sh2.scrollback)
           f == sh.first
           all == units \cup ((n + 1)..(n + k))
<1>2. from \in 1..(n + k + 1) /\ from + b <= n + k + 1
  <2>1. a \in Nat /\ b \in Nat /\ b <= a + k /\ from + a <= n + 1
    BY <1>1
  <2> HIDE DEF a, b
  <2> QED BY <2>1
<1>3. {u \in all : u >= f} = from..(n + k)
  <2>1. f \in Nat /\ f <= n + 1 /\ {u \in units : u >= f} = from..n
    BY <1>1
  <2> HIDE DEF f
  <2>2. ASSUME NEW u \in all, u >= f PROVE u \in from..(n + k)
    <3>1. CASE u \in units
      <4>1. u \in from..n
        BY <2>1, <2>2, <3>1
      <4> QED BY <4>1
    <3>2. CASE u \in (n + 1)..(n + k)
      BY <3>2
    <3> QED BY <3>1, <3>2
  <2>3. ASSUME NEW u \in from..(n + k) PROVE u \in all /\ u >= f
    <3>1. CASE u <= n
      <4>1. u \in from..n
        BY <3>1
      <4> QED BY <2>1, <4>1
    <3>2. CASE ~(u <= n)
      BY <2>1, <3>2
    <3> QED BY <3>1, <3>2
  <2> QED BY <2>2, <2>3
<1> HIDE DEF all, a, b, f
<1>4. \E g \in 1..(n + k + 1) : {u \in all : u >= f} = g..(n + k) /\ g + b <= n + k + 1
  BY <1>2, <1>3
<1> QED BY <1>4 DEF Covers, all, b, f

-----------------------------------------------------------------------------
\* The shell's side: what is printed comes after all that was given and sent.
LEMMA ShellPrintsKeeps ==
  ASSUME ScreenInv, NEW n \in ChunkSizes, ShellPrints(n)
  PROVE  ScreenInv'
<1> DEFINE chunk == [k \in 1..n |-> printed + k]
           late == printed + n
           given == GivenTo(painted, held)
           kept == WithChunk(shell.scrollback, chunk)
<1>1. /\ n \in Nat \ {0} /\ printed \in Nat /\ late \in Nat /\ printed <= late
      /\ shell.runs /\ printed' = late
      /\ shell' = [shell EXCEPT !.scrollback = kept]
      /\ wire' = IF shell.client THEN Append(wire, Text("output", chunk)) ELSE wire
      /\ painted' = painted /\ held' = held /\ xterm' = xterm
  BY ScreenAssumption DEF ScreenInv, ShellPrints
<1>2. /\ ShellOK(shell, printed) /\ PanelOK(painted, held, printed)
      /\ WireOK(wire, given, printed) /\ given \subseteq 1..printed
  BY DEF ScreenInv, PanelOK
<1>3. /\ shell.first \in Nat /\ shell.scrollback \in Seq(Seq(Nat)) /\ UnitsOf(shell.scrollback) \in Nat
      /\ EndsAt(FlattenSeq(shell.scrollback), printed)
      /\ 1 <= shell.first /\ shell.first + UnitsOf(shell.scrollback) <= printed + 1
      /\ shell \in [runs : BOOLEAN, first : Nat, scrollback : Seq(Seq(Nat)), client : BOOLEAN]
  BY <1>1, <1>2, ScrollbackIs DEF ShellOK
<1>4. chunk \in Seq(Nat) /\ Len(chunk) = n
  <2>1. chunk \in [1..n -> Nat]
    BY <1>1
  <2> HIDE DEF chunk
  <2> QED BY <1>1, <2>1, FunctionIsSeq
<1>5. Ascends(chunk) /\ UnitsIn(chunk) = (printed + 1)..late
  <2>1. EndsAt(chunk, late)
    BY <1>1, <1>4 DEF EndsAt
  <2>2. Len(chunk) <= late /\ late + 1 - Len(chunk) = printed + 1
    BY <1>1, <1>4
  <2> HIDE DEF chunk
  <2>3. Ascends(chunk) /\ UnitsIn(chunk) = (late + 1 - Len(chunk))..late
    BY <1>1, <1>4, <2>1, <2>2, RunAscends
  <2> QED BY <2>2, <2>3
<1>6. /\ kept \in Seq(Seq(Nat)) /\ kept # << >> /\ EndsAt(FlattenSeq(kept), late)
      /\ UnitsOf(kept) <= UnitsOf(shell.scrollback) + n
  BY <1>1, <1>3, WithChunkIs
<1>7. UnitsOf(kept) \in Nat
  BY <1>6, UnitsAreCounted
<1> HIDE DEF kept, chunk
<1>8. /\ shell' \in [runs : BOOLEAN, first : Nat, scrollback : Seq(Seq(Nat)), client : BOOLEAN]
      /\ shell'.runs /\ shell'.first = shell.first /\ shell'.scrollback = kept
      /\ shell'.client = shell.client
  BY <1>1, <1>3, <1>6
<1>9. shell'.first + UnitsOf(shell'.scrollback) <= late + 1
  <2> DEFINE a == UnitsOf(shell.scrollback)
             b == UnitsOf(kept)
             f == shell.first
  <2>1. a \in Nat /\ b \in Nat /\ f \in Nat /\ f + a <= printed + 1 /\ b <= a + n
    BY <1>3, <1>6, <1>7
  <2> HIDE DEF a, b, f
  <2>2. f + b <= late + 1
    BY <1>1, <2>1
  <2> QED BY <1>8, <2>2 DEF b, f
<1>10. ShellOK(shell', late)
  BY <1>3, <1>6, <1>8, <1>9 DEF ShellOK
<1>11. PanelOK(painted, held, late)
  BY <1>1, <1>2, LaterStillOK
<1> HIDE DEF given
<1>12. CASE shell.client
  <2> DEFINE m == Text("output", chunk)
  <2>1. m \in Messages /\ m.type = "output" /\ m.units = chunk
    BY <1>4 DEF Messages, Text
  <2> HIDE DEF m
  <2>2. MessageOK(m, late)
    BY <1>1, <1>5, <2>1 DEF MessageOK
  <2>3. wire' = Append(wire, m)
    BY <1>1, <1>12 DEF m
  <2>4. /\ WireOK(wire', given, late) /\ OnWire(wire') = OnWire(wire) \cup UnitsIn(chunk)
        /\ Resets(wire') <=> Resets(wire)
    <3>1. m.type # "history" /\ UnitsIn(m.units) \subseteq (printed + 1)..late
      BY <1>5, <2>1
    <3> QED BY <1>1, <1>2, <2>1, <2>2, <2>3, <3>1, WireAppend
  <2>5. Seen(given, wire') = Seen(given, wire) \cup ((printed + 1)..late)
    BY <1>5, <2>4 DEF Seen
  <2>6. Covers(Seen(given, wire), shell, printed)
    BY <1>12 DEF ScreenInv, given
  <2>7. Seen(given, wire) \subseteq 1..printed
    BY <1>2 DEF Seen, OnWire, WireOK, MessageOK
  <2>8. Covers(Seen(given, wire'), shell', late)
    <3> DEFINE a == UnitsOf(shell.scrollback)
               f == shell.first
    <3>1. a \in Nat /\ f \in Nat /\ f + a <= printed + 1
      BY <1>3
    <3> HIDE DEF a, f
    <3>2. f <= printed + 1
      BY <1>1, <3>1
    <3>3. UnitsOf(shell'.scrollback) \in Nat /\ UnitsOf(shell'.scrollback) <= UnitsOf(shell.scrollback) + n
      BY <1>6, <1>7, <1>8
    <3>4. Covers(Seen(given, wire) \cup ((printed + 1)..late), shell', late)
      BY <1>1, <1>3, <1>8, <2>6, <2>7, <3>2, <3>3, CoversMore DEF f
    <3> QED BY <2>5, <3>4
  <2> QED BY <1>1, <1>10, <1>11, <2>4, <2>8 DEF ScreenInv, given
<1>13. CASE ~shell.client
  <2>1. WireOK(wire, given, late)
    BY <1>1, <1>2, LaterStillOK
  <2> QED BY <1>1, <1>8, <1>10, <1>11, <1>13, <2>1 DEF ScreenInv, given
<1> QED BY <1>12, <1>13

LEMMA ServerSaysGoodbye ==
  ASSUME NEW n \in Nat, NEW w, NEW given, given \subseteq 1..n, WireOK(w, given, n),
         NEW lines \in ServerLines
  PROVE  WireOK(w \o lines \o <<Closed>>, given, n)
<1>1. UnitsIn(OwnLine) = {} /\ Ascends(OwnLine) /\ OwnLine \in Seq(Nat)
  BY DEF OwnLine, UnitsIn, Ascends
<1>2. UnitsIn(<< >>) = {} /\ Ascends(<< >>) /\ << >> \in Seq(Nat)
  BY UnitsNone
<1>3. /\ Text("output", OwnLine) \in Messages /\ Closed \in Messages
      /\ Text("output", OwnLine).type # "history" /\ Closed.type # "history"
      /\ MessageOK(Text("output", OwnLine), n) /\ MessageOK(Closed, n)
      /\ UnitsIn(Text("output", OwnLine).units) = {} /\ UnitsIn(Closed.units) = {}
  BY <1>1, <1>2 DEF Messages, Text, Closed, MessageOK
<1>4. ASSUME NEW v, WireOK(v, given, n), NEW m \in {Text("output", OwnLine), Closed}
      PROVE  WireOK(v \o <<m>>, given, n)
  <2>1. /\ m \in Messages /\ m.type # "history" /\ MessageOK(m, n)
        /\ UnitsIn(m.units) \subseteq (n + 1)..n /\ n <= n
    BY <1>3
  <2>2. WireOK(Append(v, m), given, n)
    BY <1>4, <2>1, WireAppend
  <2>3. Append(v, m) = v \o <<m>>
    <3>1. v \in Seq(Messages)
      BY <1>4 DEF WireOK
    <3> QED BY <2>1, <3>1, AppendIsConcat
  <2> QED BY <2>2, <2>3
<1>5. WireOK(w \o lines, given, n)
  <2>1. CASE lines = << >>
    <3>1. w \o << >> = w
      BY ConcatEmptySeq DEF WireOK
    <3> QED BY <2>1, <3>1
  <2>2. CASE lines = <<Text("output", OwnLine)>>
    BY <1>4, <2>2
  <2> QED BY <2>1, <2>2 DEF ServerLines
<1> QED BY <1>4, <1>5

LEMMA NoShellIsOK ==
  ASSUME NEW n \in Nat
  PROVE  ShellOK(NoShell, n) /\ ~NoShell.client
<1>1. << >> \in Seq(Seq(Nat)) /\ 0 \in Nat
  OBVIOUS
<1> QED BY <1>1 DEF ShellOK, NoShell

LEMMA ShellEndsKeeps ==
  ASSUME ScreenInv, NEW lines \in ServerLines, ShellEnds(lines)
  PROVE  ScreenInv'
<1> DEFINE given == GivenTo(painted, held)
<1>1. /\ printed \in Nat /\ WireOK(wire, given, printed) /\ given \subseteq 1..printed
      /\ shell' = NoShell /\ printed' = printed /\ painted' = painted /\ held' = held /\ xterm' = xterm
      /\ wire' = IF shell.client THEN wire \o lines \o <<Closed>> ELSE wire
  BY DEF ScreenInv, ShellEnds, PanelOK
<1>2. ShellOK(shell', printed) /\ ~shell'.client
  BY <1>1, NoShellIsOK
<1> HIDE DEF given
<1>3. WireOK(wire', given, printed)
  BY <1>1, ServerSaysGoodbye
<1> QED BY <1>1, <1>2, <1>3 DEF ScreenInv, given

LEMMA AttachFailsKeeps ==
  ASSUME ScreenInv, NEW lines \in ServerLines, AttachFails(lines)
  PROVE  ScreenInv'
<1> DEFINE given == GivenTo(painted, held)
<1>1. /\ printed \in Nat /\ given \subseteq 1..printed /\ ShellOK(shell, printed) /\ ~shell.runs
      /\ shell' = shell /\ printed' = printed /\ painted' = painted /\ held' = held /\ xterm' = xterm
      /\ wire' = lines \o <<Closed>>
  BY DEF ScreenInv, AttachFails, PanelOK
<1>2. ~shell.client
  BY <1>1, NoShellIsOK DEF ShellOK
<1> HIDE DEF given
<1>3. WireOK(<< >> \o lines \o <<Closed>>, given, printed)
  BY <1>1, WireIsEmpty, ServerSaysGoodbye
<1>4. << >> \o lines = lines
  <2>1. OwnLine \in Seq(Nat)
    BY DEF OwnLine
  <2>2. Text("output", OwnLine) \in Messages
    BY <2>1 DEF Messages, Text
  <2>3. <<Text("output", OwnLine)>> \in Seq(Messages) /\ << >> \in Seq(Messages)
    BY <2>2
  <2>4. lines \in Seq(Messages)
    BY <2>3, Zenon DEF ServerLines
  <2> QED BY <2>4, ConcatEmptySeq
<1> QED BY <1>1, <1>2, <1>3, <1>4 DEF ScreenInv, given

LEMMA CoversNothing ==
  ASSUME NEW n \in Nat, NEW units, NEW sh, \A u \in units : ~(u >= sh.first), UnitsOf(sh.scrollback) = 0
  PROVE  Covers(units, sh, n)
<1>1. {u \in units : u >= sh.first} = {}
  OBVIOUS
<1>2. (n + 1)..n = {} /\ n + 1 \in 1..(n + 1) /\ n + 1 + 0 <= n + 1
  OBVIOUS
<1> QED BY <1>1, <1>2 DEF Covers

\* The panel is replayed the scrollback, which reaches to the last unit printed;
\* without any the session has printed nothing yet.
LEMMA AttachKeeps ==
  ASSUME ScreenInv, Attach
  PROVE  ScreenInv'
<1> DEFINE given == GivenTo(painted, held)
           s == FlattenSeq(shell.scrollback)
<1>1. /\ printed \in Nat /\ given \subseteq 1..printed /\ ShellOK(shell, printed)
      /\ PanelOK(painted, held, printed) /\ HeldBack(xterm, painted, held)
      /\ printed' = printed /\ painted' = painted /\ held' = held /\ xterm' = xterm
      /\ wire' = History(shell.scrollback)
  BY DEF ScreenInv, Attach, PanelOK
<1>2. /\ shell.first \in Nat /\ shell.scrollback \in Seq(Seq(Nat)) /\ UnitsOf(shell.scrollback) \in Nat
      /\ s \in Seq(Nat) /\ UnitsOf(shell.scrollback) = Len(s)
  BY <1>1, ScrollbackIs
<1>3. CASE shell.runs
  <2>1. shell' = [shell EXCEPT !.client = TRUE]
    BY <1>3 DEF Attach
  <2>2. /\ 1 <= shell.first /\ shell.first + Len(s) <= printed + 1 /\ EndsAt(s, printed)
        /\ shell.scrollback = << >> => printed < shell.first
    BY <1>1, <1>2, <1>3 DEF ShellOK
  <2>3. /\ shell'.runs /\ shell'.first = shell.first /\ shell'.scrollback = shell.scrollback
        /\ shell' \in [runs : BOOLEAN, first : Nat, scrollback : Seq(Seq(Nat)), client : BOOLEAN]
    BY <1>1, <1>3, <2>1 DEF ShellOK
  <2>4. ShellOK(shell', printed)
    BY <1>1, <1>3, <2>3 DEF ShellOK
  <2>5. CASE shell.scrollback = << >>
    <3>1. wire' = << >>
      BY <1>1, <2>5 DEF History
    <3>2. WireOK(wire', given, printed) /\ Seen(given, wire') = given
      BY <3>1, WireIsEmpty DEF Seen
    <3>3. UnitsOf(shell.scrollback) = 0
      BY <2>5, FlattenNothing DEF UnitsOf
    <3> HIDE DEF given
    <3>4. ASSUME NEW u \in given PROVE ~(u >= shell'.first)
      BY <1>1, <1>2, <2>2, <2>3, <2>5
    <3>5. Covers(given, shell', printed)
      BY <1>1, <2>3, <3>3, <3>4, CoversNothing
    <3> QED BY <1>1, <2>4, <3>2, <3>5 DEF ScreenInv, given
  <2>6. CASE shell.scrollback # << >>
    <3> DEFINE m == Text("history", s)
    <3>1. m \in Messages /\ m.type = "history" /\ m.units = s /\ wire' = <<m>>
      BY <1>1, <1>2, <2>6 DEF History, Text, Messages
    <3> HIDE DEF m
    <3> DEFINE L == Len(s)
               f == shell.first
    <3>2. L \in Nat /\ f \in Nat /\ 1 <= f /\ f + L <= printed + 1
      BY <1>2, <2>2
    <3> HIDE DEF f, L
    <3>3. L <= printed /\ 1 <= printed + 1 - L /\ f <= printed + 1 - L
      BY <1>1, <3>2
    <3>4. Ascends(s) /\ UnitsIn(s) = (printed + 1 - L)..printed
      BY <1>1, <1>2, <2>2, <3>3, RunAscends DEF L
    <3> HIDE DEF s
    <3>5. MessageOK(m, printed)
      BY <1>1, <3>1, <3>2, <3>3, <3>4 DEF MessageOK
    <3>6. wire' \in Seq(Messages) /\ DOMAIN wire' = {1} /\ wire'[1] = m
      BY <3>1
    <3>7. Resets(wire') /\ OnWire(wire') = UnitsIn(s)
      BY <3>1, <3>6 DEF Resets, OnWire
    <3>8. WireOK(wire', given, printed)
      <4>1. \A i, j \in DOMAIN wire' : ~(i < j)
        BY <3>6
      <4> HIDE DEF given
      <4> QED BY <3>5, <3>6, <3>7, <4>1 DEF WireOK
    <3>9. {u \in Seen(given, wire') : u >= f} = (printed + 1 - L)..printed
      <4>1. Seen(given, wire') = (printed + 1 - L)..printed
        BY <3>4, <3>7 DEF Seen
      <4> HIDE DEF given
      <4>2. \A u \in (printed + 1 - L)..printed : u >= f
        BY <1>1, <3>2, <3>3
      <4> QED BY <4>1, <4>2
    <3>10. /\ printed + 1 - L \in 1..(printed + 1)
           /\ printed + 1 - L + L <= printed + 1
      BY <1>1, <3>2, <3>3
    <3>11. UnitsOf(shell'.scrollback) = L /\ shell'.first = f
      BY <1>2, <2>3 DEF L, f
    <3>12. Covers(Seen(given, wire'), shell', printed)
      <4> HIDE DEF given
      <4> QED BY <3>9, <3>10, <3>11 DEF Covers
    <3> QED BY <1>1, <2>4, <3>8, <3>12 DEF ScreenInv
  <2> QED BY <2>5, <2>6
<1>4. CASE ~shell.runs
  <2>1. shell' = [runs |-> TRUE, first |-> printed + 1, scrollback |-> << >>, client |-> TRUE]
    BY <1>4 DEF Attach
  <2>2. shell.scrollback = << >>
    BY <1>1, <1>4 DEF ShellOK, NoShell
  <2>3. /\ shell'.first = printed + 1 /\ shell'.runs /\ shell'.scrollback = << >>
        /\ shell' \in [runs : BOOLEAN, first : Nat, scrollback : Seq(Seq(Nat)), client : BOOLEAN]
    BY <1>1, <2>1
  <2>4. UnitsOf(<< >>) = 0 /\ FlattenSeq(<< >>) = << >>
    BY FlattenNothing DEF UnitsOf
  <2>5. ShellOK(shell', printed)
    <3>1. EndsAt(<< >>, printed)
      BY DEF EndsAt
    <3> QED BY <1>1, <2>3, <2>4, <3>1 DEF ShellOK
  <2>6. WireOK(wire', given, printed) /\ Seen(given, wire') = given
    BY <1>1, <2>2, WireIsEmpty DEF Seen, History
  <2>7. Covers(given, shell', printed)
    <3> HIDE DEF given
    <3>1. \A u \in given : ~(u >= shell'.first)
      BY <1>1, <2>3
    <3> QED BY <1>1, <2>3, <2>4, <3>1, CoversNothing
  <2> QED BY <1>1, <2>5, <2>6, <2>7 DEF ScreenInv
<1> QED BY <1>3, <1>4

-----------------------------------------------------------------------------
\* The panel's side: what it was given and what is on its way stay the same together.
LEMMA TakesHead ==
  ASSUME ScreenInv, NEW message, TakeMessage(message)
  PROVE  LET given == GivenTo(painted, held)
         IN /\ message \in Messages /\ MessageOK(message, printed)
            /\ Resets(wire) <=> message.type = "history"
            /\ OnWire(wire) = UnitsIn(message.units) \cup OnWire(Tail(wire))
            /\ ~Resets(wire) => Below(given, UnitsIn(message.units))
            /\ ~Resets(Tail(wire)) /\ Follows(given, message, wire, printed)
<1> DEFINE given == GivenTo(painted, held)
<1>1. /\ printed \in Nat /\ WireOK(wire, given, printed) /\ wire # << >> /\ message = Head(wire)
  BY DEF ScreenInv, TakeMessage
<1> HIDE DEF given
<1> QED BY <1>1, WireTail DEF given

LEMMA ReceiveHistoryKeeps ==
  ASSUME ScreenInv, NEW message, ReceiveHistory(message)
  PROVE  ScreenInv'
<1> DEFINE given == GivenTo(painted, held)
           late == GivenTo(painted', held')
           units == message.units
<1>1. TakeMessage(message) /\ message.type = "history"
  BY DEF ReceiveHistory
<1>2. /\ message \in Messages /\ MessageOK(message, printed) /\ Resets(wire)
      /\ OnWire(wire) = UnitsIn(units) \cup OnWire(Tail(wire))
      /\ ~Resets(Tail(wire)) /\ Follows(given, message, wire, printed)
  BY <1>1, TakesHead
<1>3. /\ printed \in Nat /\ ShellOK(shell, printed) /\ PanelOK(painted, held, printed)
      /\ HeldBack(xterm, painted, held)
      /\ wire' = Tail(wire) /\ shell' = shell /\ printed' = printed /\ xterm' = xterm
  BY <1>1 DEF ScreenInv, TakeMessage
<1>4. units \in Seq(Nat) /\ Ascends(units) /\ UnitsIn(units) \subseteq 1..printed
  BY <1>2 DEF MessageOK, Messages
<1>5. /\ UnitsIn(<< >>) = {} /\ UnitsOfAll(<< >>) = {} /\ Ascends(<< >>) /\ ChunksAscend(<< >>)
      /\ << >> \in Seq(Nat) /\ << >> \in Seq(Seq(Nat))
  BY UnitsNone
<1>6. /\ PanelOK(painted', held', printed) /\ HeldBack(xterm, painted', held')
      /\ late = UnitsIn(units)
  <2>1. CASE xterm = "ready"
    <3>1. painted' = units /\ held' = NothingHeld
      BY <1>3, <2>1 DEF ReceiveHistory, HeldBack
    <3> QED BY <1>4, <1>5, <2>1, <3>1 DEF PanelOK, HeldBack, GivenTo, NothingHeld, Below
  <2>2. CASE xterm # "ready"
    <3>1. painted' = << >> /\ held' = [history |-> units, chunks |-> << >>]
      BY <1>3, <2>2 DEF ReceiveHistory, HeldBack, HoldHistory
    <3> QED BY <1>4, <1>5, <2>2, <3>1 DEF PanelOK, HeldBack, GivenTo, Below
  <2> QED BY <2>1, <2>2
<1>7. WireOK(wire', late, printed)
  BY <1>2, <1>3, <1>6 DEF Follows
<1>8. Seen(late, wire') = Seen(given, wire)
  BY <1>2, <1>3, <1>6 DEF Seen
<1>9. shell'.client => Covers(Seen(late, wire'), shell', printed)
  BY <1>3, <1>8 DEF ScreenInv
<1> QED BY <1>3, <1>6, <1>7, <1>9 DEF ScreenInv

LEMMA ReceiveOutputKeeps ==
  ASSUME ScreenInv, NEW message, ReceiveOutput(message)
  PROVE  ScreenInv'
<1> DEFINE given == GivenTo(painted, held)
           late == GivenTo(painted', held')
           units == message.units
<1>1. TakeMessage(message) /\ message.type = "output"
  BY DEF ReceiveOutput
<1>2. /\ message \in Messages /\ MessageOK(message, printed) /\ ~Resets(wire)
      /\ OnWire(wire) = UnitsIn(units) \cup OnWire(Tail(wire))
      /\ Below(given, UnitsIn(units))
      /\ ~Resets(Tail(wire)) /\ Follows(given, message, wire, printed)
  BY <1>1, TakesHead
<1>3. /\ printed \in Nat /\ ShellOK(shell, printed) /\ PanelOK(painted, held, printed)
      /\ HeldBack(xterm, painted, held)
      /\ wire' = Tail(wire) /\ shell' = shell /\ printed' = printed /\ xterm' = xterm
  BY <1>1 DEF ScreenInv, TakeMessage
<1>4. units \in Seq(Nat) /\ Ascends(units) /\ UnitsIn(units) \subseteq 1..printed
  BY <1>2 DEF MessageOK, Messages
<1>5. /\ painted \in Seq(Nat) /\ held \in [history : Seq(Nat), chunks : Seq(Seq(Nat))]
      /\ Ascends(painted) /\ Ascends(held.history) /\ ChunksAscend(held.chunks)
      /\ Below(UnitsIn(held.history), UnitsOfAll(held.chunks)) /\ given \subseteq 1..printed
      /\ Below(UnitsIn(painted), UnitsIn(units)) /\ Below(UnitsIn(held.history), UnitsIn(units))
      /\ Below(UnitsOfAll(held.chunks), UnitsIn(units))
  BY <1>2, <1>3 DEF PanelOK, GivenTo, Below
<1>6. /\ PanelOK(painted', held', printed) /\ HeldBack(xterm, painted', held')
      /\ late = given \cup UnitsIn(units)
  <2>1. CASE xterm = "ready"
    <3>1. painted' = painted \o units /\ held' = held
      BY <2>1 DEF ReceiveOutput
    <3>2. painted' \in Seq(Nat) /\ Ascends(painted') /\ UnitsIn(painted') = UnitsIn(painted) \cup UnitsIn(units)
      <4>1. painted \o units \in Seq(Nat)
        BY <1>4, <1>5
      <4> QED BY <1>4, <1>5, <3>1, <4>1, AscendsConcat, UnitsConcat
    <3>3. late = given \cup UnitsIn(units)
      BY <3>1, <3>2 DEF GivenTo
    <3> QED BY <1>3, <1>4, <1>5, <2>1, <3>1, <3>2, <3>3 DEF PanelOK, HeldBack
  <2>2. CASE xterm # "ready"
    <3> DEFINE more == Append(held.chunks, units)
    <3>1. painted' = painted /\ held' = [held EXCEPT !.chunks = more]
      BY <2>2 DEF ReceiveOutput
    <3>2. held.chunks \in Seq(Seq(Nat))
      BY <1>5
    <3>3. /\ more \in Seq(Seq(Nat)) /\ ChunksAscend(more)
          /\ UnitsOfAll(more) = UnitsOfAll(held.chunks) \cup UnitsIn(units)
      <4>1. more \in Seq(Seq(Nat))
        BY <1>4, <3>2, AppendProperties
      <4> QED BY <1>4, <1>5, <3>2, <4>1, ChunksAppend
    <3> HIDE DEF more
    <3>4. /\ held'.history = held.history /\ held'.chunks = more
          /\ held' \in [history : Seq(Nat), chunks : Seq(Seq(Nat))]
      BY <1>5, <3>1, <3>3
    <3>5. Below(UnitsIn(held.history), UnitsOfAll(more))
      BY <1>5, <3>3 DEF Below
    <3>6. late = given \cup UnitsIn(units)
      BY <3>1, <3>3, <3>4 DEF GivenTo
    <3>7. late \subseteq 1..printed
      BY <1>4, <1>5, <3>6
    <3> QED BY <1>3, <1>5, <2>2, <3>1, <3>3, <3>4, <3>5, <3>6, <3>7 DEF PanelOK, HeldBack
  <2> QED BY <2>1, <2>2
<1>7. WireOK(wire', late, printed)
  BY <1>2, <1>3, <1>6 DEF Follows
<1>8. Seen(late, wire') = Seen(given, wire)
  BY <1>2, <1>3, <1>6 DEF Seen
<1>9. shell'.client => Covers(Seen(late, wire'), shell', printed)
  BY <1>3, <1>8 DEF ScreenInv
<1> QED BY <1>3, <1>6, <1>7, <1>9 DEF ScreenInv

LEMMA ReceiveCloseKeeps ==
  ASSUME ScreenInv, NEW message, ReceiveClose(message)
  PROVE  ScreenInv'
<1> DEFINE given == GivenTo(painted, held)
<1>1. TakeMessage(message) /\ message.type = "close" /\ painted' = painted /\ held' = held
  BY DEF ReceiveClose
<1>2. /\ message \in Messages /\ MessageOK(message, printed) /\ ~Resets(wire)
      /\ OnWire(wire) = UnitsIn(message.units) \cup OnWire(Tail(wire))
      /\ ~Resets(Tail(wire)) /\ Follows(given, message, wire, printed)
  BY <1>1, TakesHead
<1>3. /\ printed \in Nat /\ ShellOK(shell, printed) /\ PanelOK(painted, held, printed)
      /\ HeldBack(xterm, painted, held)
      /\ wire' = Tail(wire) /\ shell' = shell /\ printed' = printed /\ xterm' = xterm
  BY <1>1 DEF ScreenInv, TakeMessage
<1>4. UnitsIn(message.units) = {}
  BY <1>1, <1>2, UnitsNone DEF MessageOK
<1>5. WireOK(wire', given, printed) /\ Seen(given, wire') = Seen(given, wire)
  BY <1>2, <1>3, <1>4 DEF Follows, Seen
<1> QED BY <1>1, <1>3, <1>5 DEF ScreenInv

LEMMA XtermLoadsKeeps ==
  ASSUME ScreenInv, XtermLoads
  PROVE  ScreenInv'
<1> DEFINE s == FlattenSeq(held.chunks)
<1>1. /\ printed \in Nat /\ ShellOK(shell, printed) /\ xterm' = "ready" /\ painted = << >>
      /\ painted' = held.history \o s /\ held' = NothingHeld
      /\ wire' = wire /\ shell' = shell /\ printed' = printed
  BY DEF ScreenInv, XtermLoads, HeldBack
<1>2. /\ held.history \in Seq(Nat) /\ held.chunks \in Seq(Seq(Nat))
      /\ Ascends(held.history) /\ ChunksAscend(held.chunks)
      /\ Below(UnitsIn(held.history), UnitsOfAll(held.chunks))
      /\ GivenTo(painted, held) \subseteq 1..printed
  BY DEF ScreenInv, PanelOK
<1>3. s \in Seq(Nat) /\ UnitsIn(s) = UnitsOfAll(held.chunks) /\ Ascends(s)
  BY <1>2, FlattenComes, ChunksFlatten
<1>4. painted' \in Seq(Nat) /\ Ascends(painted') /\ UnitsIn(painted') = UnitsIn(held.history) \cup UnitsIn(s)
  <2> HIDE DEF s
  <2>1. held.history \o s \in Seq(Nat)
    BY <1>2, <1>3
  <2> QED BY <1>1, <1>2, <1>3, <2>1, AscendsConcat, UnitsConcat
<1>5. /\ UnitsIn(<< >>) = {} /\ UnitsOfAll(<< >>) = {} /\ Ascends(<< >>) /\ ChunksAscend(<< >>)
      /\ << >> \in Seq(Nat) /\ << >> \in Seq(Seq(Nat))
  BY UnitsNone
<1>6. GivenTo(painted', held') = GivenTo(painted, held)
  BY <1>1, <1>3, <1>4, <1>5 DEF GivenTo, NothingHeld
<1>7. PanelOK(painted', held', printed) /\ HeldBack(xterm', painted', held')
  BY <1>1, <1>2, <1>4, <1>5, <1>6 DEF PanelOK, HeldBack, NothingHeld, Below
<1> QED BY <1>1, <1>6, <1>7 DEF ScreenInv

-----------------------------------------------------------------------------
LEMMA LosesAllKeeps ==
  ASSUME ScreenInv, printed' = printed, ShellOK(shell', printed), ~shell'.client, wire' = << >>,
         PanelOK(painted', held', printed), HeldBack(xterm', painted', held')
  PROVE  ScreenInv'
<1>1. printed \in Nat
  BY DEF ScreenInv
<1>2. WireOK(wire', GivenTo(painted', held'), printed)
  BY WireIsEmpty
<1> QED BY <1>1, <1>2 DEF ScreenInv

LEMMA DetachedShell ==
  ASSUME NEW n \in Nat, ShellOK(shell, n)
  PROVE  ShellOK([shell EXCEPT !.client = FALSE], n) /\ ~[shell EXCEPT !.client = FALSE].client
<1> DEFINE sh == [shell EXCEPT !.client = FALSE]
<1>1. /\ sh \in [runs : BOOLEAN, first : Nat, scrollback : Seq(Seq(Nat)), client : BOOLEAN]
      /\ sh.runs = shell.runs /\ sh.first = shell.first /\ sh.scrollback = shell.scrollback /\ ~sh.client
  BY DEF ShellOK
<1>2. ASSUME ~shell.runs PROVE sh = NoShell
  <2>1. shell = NoShell
    BY <1>2 DEF ShellOK
  <2>2. /\ shell.runs = FALSE /\ shell.first = 0 /\ shell.scrollback = << >>
        /\ NoShell = [runs |-> FALSE, first |-> 0, scrollback |-> << >>, client |-> FALSE]
    BY <2>1 DEF NoShell
  <2> HIDE DEF sh
  <2>3. sh = [runs |-> sh.runs, first |-> sh.first, scrollback |-> sh.scrollback, client |-> sh.client]
    BY <1>1
  <2> QED BY <1>1, <2>2, <2>3
<1> HIDE DEF sh
<1>3. ShellOK(sh, n)
  BY <1>1, <1>2 DEF ShellOK
<1> QED BY <1>1, <1>3 DEF sh

LEMMA ConnectionLostKeeps ==
  ASSUME ScreenInv, NEW serverDies \in BOOLEAN, ConnectionLost(serverDies)
  PROVE  ScreenInv'
<1>1. /\ printed' = printed /\ wire' = << >> /\ xterm' = xterm /\ painted' = painted /\ held' = held
      /\ shell' = IF serverDies THEN NoShell ELSE [shell EXCEPT !.client = FALSE]
      /\ PanelOK(painted, held, printed) /\ HeldBack(xterm, painted, held)
      /\ printed \in Nat /\ ShellOK(shell, printed)
  BY DEF ScreenInv, ConnectionLost
<1>2. ShellOK(shell', printed) /\ ~shell'.client
  BY <1>1, NoShellIsOK, DetachedShell
<1> QED BY <1>1, <1>2, LosesAllKeeps

LEMMA NothingGiven ==
  ASSUME NEW n \in Nat, NEW x
  PROVE  PanelOK(<< >>, NothingHeld, n) /\ HeldBack(x, << >>, NothingHeld)
BY UnitsNone DEF PanelOK, HeldBack, NothingHeld, GivenTo, Below

LEMMA ClosePanelKeeps ==
  ASSUME ScreenInv, ClosePanel
  PROVE  ScreenInv'
<1>1. /\ printed' = printed /\ wire' = << >> /\ painted' = << >> /\ held' = NothingHeld
      /\ shell' = [shell EXCEPT !.client = FALSE]
      /\ printed \in Nat /\ ShellOK(shell, printed)
  BY DEF ScreenInv, ClosePanel
<1>2. ShellOK(shell', printed) /\ ~shell'.client
  BY <1>1, DetachedShell
<1>3. PanelOK(painted', held', printed) /\ HeldBack(xterm', painted', held')
  BY <1>1, NothingGiven
<1> QED BY <1>1, <1>2, <1>3, LosesAllKeeps

LEMMA ScreenInitOK == ScreenInit => ScreenInv
<1> SUFFICES ASSUME ScreenInit PROVE ScreenInv
  OBVIOUS
<1>1. /\ shell = NoShell /\ printed = 0 /\ wire = << >> /\ painted = << >> /\ held = NothingHeld
  BY DEF ScreenInit
<1>2. 0 \in Nat /\ ShellOK(NoShell, 0) /\ ~NoShell.client
  BY NoShellIsOK
<1> QED BY <1>1, <1>2, NothingGiven, WireIsEmpty DEF ScreenInv

LEMMA ScreenStepOK == ScreenInv /\ [ScreenNext]_screenVars => ScreenInv'
<1> SUFFICES ASSUME ScreenInv, [ScreenNext]_screenVars PROVE ScreenInv'
  OBVIOUS
<1>1. CASE \E n \in ChunkSizes : ShellPrints(n)
  BY <1>1, ShellPrintsKeeps
<1>2. CASE \E lines \in ServerLines : ShellEnds(lines) \/ AttachFails(lines)
  BY <1>2, ShellEndsKeeps, AttachFailsKeeps
<1>3. CASE OpenPanel
  <2>1. xterm # "ready" /\ xterm' # "ready"
    BY <1>3 DEF OpenPanel
  <2> QED BY <1>3, <2>1 DEF OpenPanel, ScreenInv, HeldBack
<1>4. CASE Attach
  BY <1>4, AttachKeeps
<1>5. CASE Reconnect
  BY <1>5 DEF Reconnect, ScreenInv
<1>6. CASE XtermLoads
  BY <1>6, XtermLoadsKeeps
<1>7. CASE ClosePanel
  BY <1>7, ClosePanelKeeps
<1>8. CASE \E message \in ToSet(wire) :
             ReceiveHistory(message) \/ ReceiveOutput(message) \/ ReceiveClose(message)
  BY <1>8, ReceiveHistoryKeeps, ReceiveOutputKeeps, ReceiveCloseKeeps
<1>9. CASE \E serverDies \in BOOLEAN : ConnectionLost(serverDies)
  BY <1>9, ConnectionLostKeeps
<1>10. CASE UNCHANGED screenVars
  BY <1>10 DEF screenVars, ScreenInv
<1> QED BY <1>1, <1>2, <1>3, <1>4, <1>5, <1>6, <1>7, <1>8, <1>9, <1>10 DEF ScreenNext

LEMMA ScreenMeets == ScreenInv => ScreenShowsTheSession
<1> SUFFICES ASSUME ScreenInv, PanelCaughtUp
             PROVE  /\ Ascends(painted)
                    /\ \E from \in 1..(printed + 1) :
                         FromThisShell = from..printed /\ from + UnitsOf(shell.scrollback) <= printed + 1
  BY DEF ScreenShowsTheSession, Ascends
<1>1. /\ wire = << >> /\ shell.client /\ held = NothingHeld /\ Ascends(painted) /\ painted \in Seq(Nat)
      /\ Covers(Seen(GivenTo(painted, held), wire), shell, printed)
  BY DEF ScreenInv, PanelCaughtUp, HeldBack, PanelOK
<1>2. Seen(GivenTo(painted, held), wire) = UnitsIn(painted)
  BY <1>1, UnitsNone, WireIsEmpty DEF Seen, GivenTo, NothingHeld
<1>3. {u \in UnitsIn(painted) : u >= shell.first} = FromThisShell
  BY DEF UnitsIn, FromThisShell, ToSet
<1> QED BY <1>1, <1>2, <1>3 DEF Covers

\* A panel that has received all it was sent (Terminal.tsx) shows every unit of
\* output once and in the order in which it was printed, and no gap in the session
\* it is attached to, over every loss of the connection, end of a session, new
\* session and late load of xterm, for a scrollback, chunks and runs of any length
\* (sessionRuntime.ts).
THEOREM ScreenShows == ScreenSpec => []ScreenShowsTheSession
<1> QED BY ScreenInitOK, ScreenStepOK, ScreenMeets, PTL DEF ScreenSpec
=============================================================================
