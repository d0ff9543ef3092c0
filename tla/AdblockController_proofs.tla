------------------------ MODULE AdblockController_proofs ------------------------
(***************************************************************************)
(* Theorems about AdblockController, for any items, lists and              *)
(* configurations: its types, that snapshots are made of the enabled       *)
(* configurations, and that what the user decided stays decided.           *)
(***************************************************************************)
EXTENDS AdblockController, TLAPS

(***************************************************************************)
(* Types.                                                                  *)
(***************************************************************************)

\* The operations on a dictionary give a dictionary.
LEMMA SettingsClosed ==
  ASSUME NEW s \in Settings, NEW items \in SUBSET Item, NEW item,
         NEW enabled \in BOOLEAN
  PROVE  /\ AppendToList(s, items) \in Settings
         /\ RemoveFromList(s, item) \in Settings
         /\ SetEnabled(s, enabled) \in Settings
BY DEF Settings, AppendToList, RemoveFromList, SetEnabled

\* The settings a start ends with.
Started(s, first, l, disable_aa, disable_adblock, matching) ==
  MigrateLegacyPrefs(
    RunFirstRunLogic(ObeySwitches(s, disable_aa, disable_adblock),
                     first, disable_aa, matching),
    l)

LEMMA StartedTyped ==
  ASSUME NEW s \in Settings, NEW first \in BOOLEAN, NEW l \in Legacy,
         NEW disable_aa \in BOOLEAN, NEW disable_adblock \in BOOLEAN,
         NEW matching \in SUBSET LocaleLists
  PROVE  Started(s, first, l, disable_aa, disable_adblock, matching) \in Settings
<1> DEFINE obeyed == ObeySwitches(s, disable_aa, disable_adblock)
           begun == RunFirstRunLogic(obeyed, first, disable_aa, matching)
<1>1. obeyed \in Settings
  BY SettingsClosed DEF ObeySwitches
<1>2. begun \in Settings
  <2> DEFINE lists == (FirstRunLists \ IF disable_aa THEN {AcceptableAdsUrl} ELSE {})
                      \cup RecommendedFor(matching)
  <2> HIDE DEF obeyed
  <2>1. lists \in SUBSET Item
    BY ControllerAssumption DEF RecommendedFor
  <2>2. AppendToList(obeyed, lists) \in Settings
    BY <1>1, <2>1, SettingsClosed
  <2>3. QED
    BY <1>1, <2>2 DEF RunFirstRunLogic
<1>3. MigrateLegacyPrefs(begun, l) \in Settings
  <2> DEFINE aa == IF l.aa_enable = {} THEN begun
                   ELSE SetAcceptableAdsEnabled(begun, l.aa_enable = {TRUE})
             enabled == IF l.enable = {} THEN aa ELSE SetEnabled(aa, l.enable = {TRUE})
  <2> HIDE DEF begun
  <2>1. aa \in Settings
    BY <1>2, SettingsClosed, ControllerAssumption DEF SetAcceptableAdsEnabled
  <2>2. enabled \in Settings
    <3> HIDE DEF aa
    <3>1. (l.enable = {TRUE}) \in BOOLEAN
      OBVIOUS
    <3>2. SetEnabled(aa, l.enable = {TRUE}) \in Settings
      BY <2>1, <3>1, SettingsClosed
    <3>3. QED
      BY <2>1, <3>2
  <2>3. AppendToList(enabled, l.items) \in Settings
    <3> HIDE DEF enabled
    <3>1. l.items \in SUBSET Item
      BY DEF Legacy
    <3>2. QED
      BY <2>2, <3>1, SettingsClosed
  <2>4. QED
    BY <2>3 DEF MigrateLegacyPrefs
<1>4. QED
  BY <1>3 DEF Started

LEMMA ChosenTyped ==
  ASSUME NEW ch \in Choices, NEW l \in Legacy,
         NEW disable_aa \in BOOLEAN, NEW disable_adblock \in BOOLEAN
  PROVE  ChosenBySwitches(ch, l, disable_aa, disable_adblock) \in Choices
BY ControllerAssumption DEF ChosenBySwitches, Choices, Optional

LEMMA LegacyChosenTyped ==
  ASSUME NEW l \in Legacy
  PROVE  LegacyChoices(l) \in Choices
BY ControllerAssumption DEF LegacyChoices, Legacy, Choices, Optional

LEMMA CurrentTyped == TypeOK => CurrentPrefs \in Prefs
BY DEF TypeOK, ServiceTypeOK, CurrentPrefs, Prefs

LEMMA InstallTyped ==
  ASSUME ServiceTypeOK, NEW c \in Configuration, NEW s \in Settings,
         InstallFilteringConfiguration(c, s)
  PROVE  ServiceTypeOK'
BY DEF ServiceTypeOK, InstallFilteringConfiguration, MaintainedIfEnabled

LEMMA ItemsTyped ==
  ASSUME ServiceTypeOK, NEW c \in Configuration, NEW s \in Settings,
         ChangeItems(c, s)
  PROVE  ServiceTypeOK'
BY DEF ServiceTypeOK, ChangeItems, Settings

LEMMA EnabledTyped ==
  ASSUME ServiceTypeOK, NEW c \in Configuration, NEW enabled \in BOOLEAN,
         ChangeEnabled(c, enabled)
  PROVE  ServiceTypeOK'
BY DEF ServiceTypeOK, ChangeEnabled, SetEnabled, Settings, MaintainedIfEnabled

LEMMA TypeInit == Init => TypeOK
<1> SUFFICES ASSUME Init PROVE TypeOK
  OBVIOUS
<1>1. SetDefaultValuesIfNeeded \in Settings
  BY DEF SetDefaultValuesIfNeeded, Settings
<1>2. ServiceTypeOK
  BY <1>1 DEF Init, ServiceTypeOK, NoMaintainers
<1>3. chosen \in Choices
  BY LegacyChosenTyped DEF Init
<1>4. QED
  BY <1>2, <1>3 DEF Init, TypeOK, ServiceTypeOK, CurrentPrefs, Prefs

LEMMA TypeEnd ==
  ASSUME TypeOK, End(CurrentPrefs) \/ End(saved)
  PROVE  TypeOK'
<1>1. CurrentPrefs \in Prefs /\ saved \in Prefs
  BY CurrentTyped DEF TypeOK
<1>2. CASE End(CurrentPrefs)
  <2> HIDE DEF CurrentPrefs
  <2>1. QED
    BY <1>1, <1>2 DEF End, TypeOK, ServiceTypeOK, NoMaintainers, Prefs
<1>3. CASE End(saved)
  BY <1>1, <1>3 DEF End, TypeOK, ServiceTypeOK, NoMaintainers, Prefs
<1>4. QED
  BY <1>2, <1>3

LEMMA TypeNext == TypeOK /\ [Next]_vars => TypeOK'
<1> SUFFICES ASSUME TypeOK, [Next]_vars PROVE TypeOK'
  OBVIOUS
<1> USE ControllerAssumption
<1>0. ServiceTypeOK /\ settings[adblock] \in Settings
  BY DEF TypeOK, ServiceTypeOK
<1>1. ASSUME NEW disable_aa \in BOOLEAN, NEW disable_adblock \in BOOLEAN,
             NEW matching \in SUBSET LocaleLists,
             Start(disable_aa, disable_adblock, matching)
      PROVE  TypeOK'
  <2> DEFINE s == Started(settings[adblock], install_first_start, legacy,
                          disable_aa, disable_adblock, matching)
  <2>1. s \in Settings
    BY <1>0, StartedTyped DEF TypeOK
  <2>2. InstallFilteringConfiguration(adblock, s)
    BY <1>1 DEF Start, Started
  <2>3. ServiceTypeOK'
    <3> HIDE DEF s
    <3>1. QED
      BY <1>0, <2>1, <2>2, InstallTyped
  <2>4. chosen' \in Choices
    BY <1>1, ChosenTyped DEF Start, TypeOK
  <2>5. legacy' \in Legacy
    BY <1>1 DEF Start, NoLegacy, Legacy, Optional
  <2>6. QED
    BY <1>1, <2>3, <2>4, <2>5 DEF Start, TypeOK
<1>2. ASSUME NEW i \in Item, InstallSubscription(i) \/ UninstallSubscription(i)
      PROVE  TypeOK'
  <2>1. /\ AppendToList(settings[adblock], {i}) \in Settings
        /\ RemoveFromList(settings[adblock], i) \in Settings
    BY <1>0 DEF AppendToList, RemoveFromList, Settings
  <2>2. ServiceTypeOK'
    BY <1>0, <1>2, <2>1, ItemsTyped DEF InstallSubscription, UninstallSubscription
  <2>3. chosen' \in Choices
    BY <1>2, ZenonT(30) DEF InstallSubscription, UninstallSubscription, TypeOK, Choices
  <2>4. QED
    BY <1>2, <2>2, <2>3 DEF InstallSubscription, UninstallSubscription, TypeOK
<1>3. ASSUME NEW enabled \in BOOLEAN, SetAdblockEnabled(enabled)
      PROVE  TypeOK'
  <2>1. ServiceTypeOK'
    BY <1>0, <1>3, EnabledTyped DEF SetAdblockEnabled
  <2>2. chosen' \in Choices
    BY <1>3 DEF SetAdblockEnabled, TypeOK, Choices, Optional
  <2>3. QED
    BY <1>3, <2>1, <2>2 DEF SetAdblockEnabled, TypeOK
<1>4. ASSUME NEW enabled \in BOOLEAN, NEW c \in Configuration, SetOtherEnabled(c, enabled)
      PROVE  TypeOK'
  <2>1. ServiceTypeOK'
    BY <1>0, <1>4, EnabledTyped DEF SetOtherEnabled
  <2>2. QED
    BY <1>4, <2>1 DEF SetOtherEnabled, TypeOK
<1>5. ASSUME NEW c \in Configuration, InstallOther(c)
      PROVE  TypeOK'
  <2>1. settings[c] \in Settings
    BY <1>0 DEF ServiceTypeOK
  <2>2. ServiceTypeOK'
    BY <1>0, <1>5, <2>1, InstallTyped DEF InstallOther
  <2>3. QED
    BY <1>5, <2>2 DEF InstallOther, TypeOK
<1>6. CASE SavePrefs
  <2>1. saved' \in Prefs
    BY <1>6, CurrentTyped DEF SavePrefs
  <2>2. QED
    BY <1>6, <2>1 DEF SavePrefs, TypeOK, ServiceTypeOK, service_vars
<1>7. CASE Quit \/ Crash
  BY <1>7, TypeEnd DEF Quit, Crash
<1>8. CASE UNCHANGED vars
  BY <1>8 DEF vars, service_vars, TypeOK, ServiceTypeOK
<1>9. QED
  BY <1>1, <1>2, <1>3, <1>4, <1>5, <1>6, <1>7, <1>8 DEF Next

\* The types of the settings, the maintainers and the preferences hold, through
\* every start, change of the settings and crash of adblock_controller_impl.cc.
THEOREM TypeCorrect == Spec => []TypeOK
BY TypeInit, TypeNext, PTL DEF Spec

(***************************************************************************)
(* What snapshots are made of.                                             *)
(***************************************************************************)

\* The ways a step changes what one configuration has.
LEMMA SnapshotStep ==
  ASSUME ServiceTypeOK, SnapshotIsOfEnabled, NEW c \in Configuration,
         \/ \E s \in Settings : InstallFilteringConfiguration(c, s)
         \/ \E s \in Settings : s.enabled = settings[c].enabled /\ ChangeItems(c, s)
         \/ \E enabled \in BOOLEAN : ChangeEnabled(c, enabled)
  PROVE  SnapshotIsOfEnabled'
<1> USE DEF SnapshotIsOfEnabled, GetCurrentSnapshot, ServiceTypeOK
<1>1. CASE \E s \in Settings : InstallFilteringConfiguration(c, s)
  BY <1>1 DEF InstallFilteringConfiguration, MaintainedIfEnabled
<1>2. CASE \E s \in Settings : s.enabled = settings[c].enabled /\ ChangeItems(c, s)
  BY <1>2 DEF ChangeItems
<1>3. CASE \E enabled \in BOOLEAN : ChangeEnabled(c, enabled)
  BY <1>3 DEF ChangeEnabled, MaintainedIfEnabled
<1>4. QED
  BY <1>1, <1>2, <1>3

\* What a change of the items does, in terms of the service.
LEMMA ItemsSnapshot ==
  ASSUME ServiceTypeOK, SnapshotIsOfEnabled, NEW i \in Item,
         InstallSubscription(i) \/ UninstallSubscription(i)
  PROVE  SnapshotIsOfEnabled'
<1> USE ControllerAssumption
<1>1. PICK s : /\ s \in {AppendToList(settings[adblock], {i}),
                         RemoveFromList(settings[adblock], i)}
               /\ ChangeItems(adblock, s)
  BY DEF InstallSubscription, UninstallSubscription
<1>2. s \in Settings /\ s.enabled = settings[adblock].enabled
  BY <1>1 DEF AppendToList, RemoveFromList, Settings, ServiceTypeOK
<1>3. QED
  BY <1>1, <1>2, SnapshotStep

LEMMA SnapshotNext == TypeOK /\ SnapshotIsOfEnabled /\ [Next]_vars => SnapshotIsOfEnabled'
<1> SUFFICES ASSUME TypeOK, SnapshotIsOfEnabled, [Next]_vars
             PROVE  SnapshotIsOfEnabled'
  OBVIOUS
<1> USE ControllerAssumption
<1>0. ServiceTypeOK
  BY DEF TypeOK
<1>1. ASSUME NEW disable_aa \in BOOLEAN, NEW disable_adblock \in BOOLEAN,
             NEW matching \in SUBSET LocaleLists,
             Start(disable_aa, disable_adblock, matching)
      PROVE  SnapshotIsOfEnabled'
  <2> DEFINE s == Started(settings[adblock], install_first_start, legacy,
                          disable_aa, disable_adblock, matching)
  <2>1. s \in Settings
    BY <1>0, StartedTyped DEF TypeOK, ServiceTypeOK
  <2>2. InstallFilteringConfiguration(adblock, s)
    BY <1>1 DEF Start, Started
  <2>3. QED
    BY <1>0, <2>1, <2>2, SnapshotStep
<1>2. ASSUME NEW i \in Item, InstallSubscription(i) \/ UninstallSubscription(i)
      PROVE  SnapshotIsOfEnabled'
  BY <1>0, <1>2, ItemsSnapshot
<1>3. ASSUME NEW enabled \in BOOLEAN, SetAdblockEnabled(enabled)
      PROVE  SnapshotIsOfEnabled'
  BY <1>0, <1>3, SnapshotStep DEF SetAdblockEnabled
<1>4. ASSUME NEW enabled \in BOOLEAN, NEW c \in Configuration, SetOtherEnabled(c, enabled)
      PROVE  SnapshotIsOfEnabled'
  BY <1>0, <1>4, SnapshotStep DEF SetOtherEnabled
<1>5. ASSUME NEW c \in Configuration, InstallOther(c)
      PROVE  SnapshotIsOfEnabled'
  <2>1. settings[c] \in Settings
    BY <1>0 DEF ServiceTypeOK
  <2>2. QED
    BY <1>0, <1>5, <2>1, SnapshotStep DEF InstallOther
<1>6. CASE Quit \/ Crash
  BY <1>6 DEF Quit, Crash, End, NoMaintainers, SnapshotIsOfEnabled, GetCurrentSnapshot
<1>7. CASE SavePrefs \/ UNCHANGED vars
  BY <1>7 DEF SavePrefs, vars, service_vars, SnapshotIsOfEnabled, GetCurrentSnapshot
<1>8. QED
  BY <1>1, <1>2, <1>3, <1>4, <1>5, <1>6, <1>7 DEF Next

\* However a configuration comes to be enabled or disabled, the snapshots are of
\* the enabled ones and of all of them (subscription_service_impl.cc).
THEOREM SnapshotIsOfEnabledHolds == Spec => []SnapshotIsOfEnabled
<1>1. Init => SnapshotIsOfEnabled
  BY DEF Init, NoMaintainers, SnapshotIsOfEnabled, GetCurrentSnapshot
<1>2. QED
  BY <1>1, SnapshotNext, TypeCorrect, PTL DEF Spec

(***************************************************************************)
(* What the user decided.                                                  *)
(*                                                                         *)
(* ChoicesRespected is about a running browser only.  The invariant adds   *)
(* what a browser that is to start finds: either preferences as an earlier *)
(* version (or none) left them, with the decisions still to be migrated,   *)
(* or those of this version, with the first run and the migration done.    *)
(***************************************************************************)

Respected(s, ch) ==
  /\ ch.added \subseteq s.items
  /\ ch.removed \cap s.items = {}
  /\ ch.enabled \subseteq {s.enabled}

Settled(s, ch, l, first) == l = NoLegacy /\ ~ first /\ Respected(s, ch)

Startable(s, ch, l, first) ==
  \/ s = SetDefaultValuesIfNeeded /\ ch = LegacyChoices(l)
  \/ Settled(s, ch, l, first)

DecisionInv ==
  /\ IF adblock \in installed
     THEN Settled(settings[adblock], chosen, legacy, install_first_start)
     ELSE Startable(settings[adblock], chosen, legacy, install_first_start)
  /\ Startable(saved.settings[adblock], saved.chosen, saved.legacy, saved.first)

\* A start from preferences that are settled obeys the switches and changes
\* nothing else.
LEMMA SettledStart ==
  ASSUME NEW s \in Settings, NEW ch \in Choices, Respected(s, ch),
         NEW disable_aa \in BOOLEAN, NEW disable_adblock \in BOOLEAN,
         NEW matching \in SUBSET LocaleLists
  PROVE  Respected(Started(s, FALSE, NoLegacy, disable_aa, disable_adblock, matching),
                   ChosenBySwitches(ch, NoLegacy, disable_aa, disable_adblock))
<1> DEFINE obeyed == ObeySwitches(s, disable_aa, disable_adblock)
           t == Started(s, FALSE, NoLegacy, disable_aa, disable_adblock, matching)
           d == ChosenBySwitches(ch, NoLegacy, disable_aa, disable_adblock)
<1>1. /\ obeyed.items = IF disable_aa THEN s.items \ {AcceptableAdsUrl} ELSE s.items
      /\ obeyed.enabled = IF disable_adblock THEN FALSE ELSE s.enabled
      /\ obeyed \in Settings
  BY DEF ObeySwitches, RemoveFromList, SetEnabled, Settings
<1>2. t = [obeyed EXCEPT !.items = @ \cup {}]
  <2> HIDE DEF obeyed
  <2>1. NoLegacy.aa_enable = {} /\ NoLegacy.enable = {} /\ NoLegacy.items = {}
    BY DEF NoLegacy
  <2>2. RunFirstRunLogic(obeyed, FALSE, disable_aa, matching) = obeyed
    BY DEF RunFirstRunLogic
  <2>3. MigrateLegacyPrefs(obeyed, NoLegacy) = AppendToList(obeyed, {})
    BY <2>1 DEF MigrateLegacyPrefs
  <2>4. QED
    BY <2>2, <2>3 DEF Started, AppendToList, obeyed
<1>3. t.items = obeyed.items /\ t.enabled = obeyed.enabled
  <2> HIDE DEF obeyed, t
  <2>1. QED
    BY <1>1, <1>2 DEF Settings
<1>4. /\ d.added = IF disable_aa THEN ch.added \ {AcceptableAdsUrl} ELSE ch.added
      /\ d.removed = IF disable_aa THEN ch.removed \cup {AcceptableAdsUrl} ELSE ch.removed
      /\ d.enabled = IF disable_adblock THEN {FALSE} ELSE ch.enabled
  BY DEF ChosenBySwitches, LegacyChoices, NoLegacy
<1>5. QED
  <2> HIDE DEF obeyed, t, d
  <2>1. Respected(t, d)
    <3>1. d.added \subseteq t.items
      BY <1>1, <1>3, <1>4 DEF Respected
    <3>2. d.removed \cap t.items = {}
      BY <1>1, <1>3, <1>4 DEF Respected
    <3>3. d.enabled \subseteq {t.enabled}
      BY <1>1, <1>3, <1>4 DEF Respected
    <3>4. QED
      BY <3>1, <3>2, <3>3 DEF Respected
  <2>2. QED
    BY <2>1 DEF t, d

\* The first start migrates the decisions made in an earlier version, and the
\* lists it recommends contradict none of them.
LEMMA FirstStart ==
  ASSUME NEW l \in Legacy, NEW first \in BOOLEAN,
         NEW disable_aa \in BOOLEAN, NEW disable_adblock \in BOOLEAN,
         NEW matching \in SUBSET LocaleLists
  PROVE  Respected(Started(SetDefaultValuesIfNeeded, first, l,
                           disable_aa, disable_adblock, matching),
                   ChosenBySwitches(LegacyChoices(l), l, disable_aa, disable_adblock))
<1> DEFINE s == SetDefaultValuesIfNeeded
           obeyed == ObeySwitches(s, disable_aa, disable_adblock)
           begun == RunFirstRunLogic(obeyed, first, disable_aa, matching)
           aa == IF l.aa_enable = {} THEN begun
                 ELSE SetAcceptableAdsEnabled(begun, l.aa_enable = {TRUE})
           enabled == IF l.enable = {} THEN aa ELSE SetEnabled(aa, l.enable = {TRUE})
           t == AppendToList(enabled, l.items)
           ch == LegacyChoices(l)
           d == ChosenBySwitches(ch, l, disable_aa, disable_adblock)
<1> USE ControllerAssumption
<1>1. obeyed.items = {} /\ obeyed.enabled = ~ disable_adblock /\ obeyed \in Settings
  BY DEF ObeySwitches, SetDefaultValuesIfNeeded, RemoveFromList, SetEnabled, Settings
<1>2. /\ begun \in Settings /\ begun.enabled = ~ disable_adblock
      /\ disable_aa => AcceptableAdsUrl \notin begun.items
  <2> DEFINE lists == (FirstRunLists \ IF disable_aa THEN {AcceptableAdsUrl} ELSE {})
                      \cup RecommendedFor(matching)
  <2>1. lists \in SUBSET Item /\ (disable_aa => AcceptableAdsUrl \notin lists)
    BY DEF RecommendedFor
  <2> HIDE DEF obeyed, lists
  <2>2. /\ AppendToList(obeyed, lists) \in Settings
        /\ AppendToList(obeyed, lists).items = lists
        /\ AppendToList(obeyed, lists).enabled = ~ disable_adblock
    BY <1>1, <2>1 DEF AppendToList, Settings
  <2>3. begun = IF first THEN AppendToList(obeyed, lists) ELSE obeyed
    BY DEF RunFirstRunLogic, lists
  <2>4. QED
    BY <1>1, <2>1, <2>2, <2>3
<1>3. /\ aa \in Settings /\ aa.enabled = ~ disable_adblock
      /\ l.aa_enable = {TRUE} => AcceptableAdsUrl \in aa.items
      /\ l.aa_enable = {FALSE} => AcceptableAdsUrl \notin aa.items
      /\ l.aa_enable = {} /\ disable_aa => AcceptableAdsUrl \notin aa.items
  <2> HIDE DEF begun
  <2>1. QED
    BY <1>2 DEF SetAcceptableAdsEnabled, AppendToList, RemoveFromList, Settings
<1>4. /\ enabled \in Settings /\ enabled.items = aa.items
      /\ enabled.enabled = IF l.enable = {} THEN ~ disable_adblock ELSE (l.enable = {TRUE})
  <2> HIDE DEF aa
  <2>1. QED
    BY <1>3 DEF SetEnabled, Settings
<1>5. t.items = aa.items \cup l.items /\ t.enabled = enabled.enabled
  <2> HIDE DEF enabled, aa
  <2>1. QED
    BY <1>4 DEF AppendToList, Settings
<1>6. l.aa_enable \in Optional /\ l.enable \in Optional /\ l.items \in SUBSET Item
  BY DEF Legacy
<1>7. /\ ch.added = l.items \cup IF l.aa_enable = {TRUE} THEN {AcceptableAdsUrl} ELSE {}
      /\ ch.removed = (IF l.aa_enable = {FALSE} THEN {AcceptableAdsUrl} ELSE {}) \ l.items
      /\ ch.enabled = l.enable
  BY DEF LegacyChoices
<1>8. /\ d.added = IF disable_aa /\ AcceptableAdsUrl \notin ch.added
                   THEN ch.added \ {AcceptableAdsUrl} ELSE ch.added
      /\ d.removed = IF disable_aa /\ AcceptableAdsUrl \notin ch.added
                     THEN ch.removed \cup {AcceptableAdsUrl} ELSE ch.removed
      /\ d.enabled = IF disable_adblock /\ l.enable = {} THEN {FALSE} ELSE ch.enabled
  BY DEF ChosenBySwitches
<1>9. Respected(t, d)
  <2> HIDE DEF t, d, ch, aa, enabled
  <2>1. d.added \subseteq t.items
    BY <1>3, <1>5, <1>7, <1>8
  <2>2. d.removed \cap t.items = {}
    BY <1>3, <1>5, <1>6, <1>7, <1>8 DEF Optional
  <2>3. d.enabled \subseteq {t.enabled}
    BY <1>4, <1>5, <1>6, <1>7, <1>8 DEF Optional
  <2>4. QED
    BY <2>1, <2>2, <2>3 DEF Respected
<1>10. Started(s, first, l, disable_aa, disable_adblock, matching) = t
  BY DEF Started, MigrateLegacyPrefs
<1>11. QED
  <2> HIDE DEF t
  <2>1. QED
    BY <1>9, <1>10

LEMMA StartDecided ==
  ASSUME TypeOK, TypeOK', DecisionInv, NEW disable_aa \in BOOLEAN,
         NEW disable_adblock \in BOOLEAN, NEW matching \in SUBSET LocaleLists,
         Start(disable_aa, disable_adblock, matching)
  PROVE  DecisionInv'
<1> DEFINE s == Started(settings[adblock], install_first_start, legacy,
                        disable_aa, disable_adblock, matching)
<1> USE ControllerAssumption
<1>1. /\ InstallFilteringConfiguration(adblock, s)
      /\ chosen' = ChosenBySwitches(chosen, legacy, disable_aa, disable_adblock)
      /\ legacy' = NoLegacy /\ install_first_start' = FALSE /\ saved' = saved
  BY DEF Start, Started
<1>2. settings'[adblock] = s /\ adblock \in installed' /\ adblock \notin installed
  <2> HIDE DEF s
  <2>1. QED
    BY <1>1 DEF InstallFilteringConfiguration, TypeOK, ServiceTypeOK
<1>3. Startable(settings[adblock], chosen, legacy, install_first_start)
  BY <1>2 DEF DecisionInv
<1>4. /\ legacy \in Legacy /\ install_first_start \in BOOLEAN
      /\ chosen \in Choices /\ settings[adblock] \in Settings
  BY DEF TypeOK, ServiceTypeOK
<1>5. Respected(s, chosen')
  <2>1. CASE settings[adblock] = SetDefaultValuesIfNeeded /\ chosen = LegacyChoices(legacy)
    BY <1>1, <1>4, <2>1, FirstStart
  <2>2. CASE Settled(settings[adblock], chosen, legacy, install_first_start)
    <3>1. /\ legacy = NoLegacy /\ install_first_start = FALSE
          /\ Respected(settings[adblock], chosen)
      BY <1>4, <2>2 DEF Settled
    <3>2. QED
      BY <1>1, <1>4, <3>1, SettledStart
  <2>3. QED
    BY <1>3, <2>1, <2>2 DEF Startable
<1>6. QED
  <2> HIDE DEF s
  <2>1. QED
    BY <1>1, <1>2, <1>5 DEF DecisionInv, Settled

LEMMA DecisionNext == TypeOK /\ TypeOK' /\ DecisionInv /\ [Next]_vars => DecisionInv'
<1> SUFFICES ASSUME TypeOK, TypeOK', DecisionInv, [Next]_vars
             PROVE  DecisionInv'
  OBVIOUS
<1> USE ControllerAssumption
<1>0. settings[adblock] \in Settings /\ chosen \in Choices /\ adblock \in Configuration
  BY DEF TypeOK, ServiceTypeOK
<1>1. ASSUME NEW disable_aa \in BOOLEAN, NEW disable_adblock \in BOOLEAN,
             NEW matching \in SUBSET LocaleLists,
             Start(disable_aa, disable_adblock, matching)
      PROVE  DecisionInv'
  BY <1>1, StartDecided
<1>2. ASSUME NEW i \in Item, InstallSubscription(i) \/ UninstallSubscription(i)
      PROVE  DecisionInv'
  <2>1. /\ adblock \in installed /\ installed' = installed
        /\ UNCHANGED <<legacy, install_first_start, saved>>
    BY <1>2 DEF InstallSubscription, UninstallSubscription, ChangeItems
  <2>2. Respected(settings[adblock], chosen) /\ legacy = NoLegacy /\ ~ install_first_start
    BY <2>1 DEF DecisionInv, Settled
  <2>3. Respected(settings'[adblock], chosen')
    <3>1. CASE InstallSubscription(i)
      <4>1. /\ settings'[adblock] = AppendToList(settings[adblock], {i})
            /\ chosen' = [chosen EXCEPT !.added = @ \cup {i}, !.removed = @ \ {i}]
        BY <3>1 DEF InstallSubscription, ChangeItems, TypeOK, ServiceTypeOK
      <4>2. QED
        BY <1>0, <2>2, <4>1 DEF Respected, AppendToList, Settings, Choices
    <3>2. CASE UninstallSubscription(i)
      <4>1. /\ settings'[adblock] = RemoveFromList(settings[adblock], i)
            /\ chosen' = [chosen EXCEPT !.added = @ \ {i}, !.removed = @ \cup {i}]
        BY <3>2 DEF UninstallSubscription, ChangeItems, TypeOK, ServiceTypeOK
      <4>2. QED
        BY <1>0, <2>2, <4>1 DEF Respected, RemoveFromList, Settings, Choices
    <3>3. QED
      BY <1>2, <3>1, <3>2
  <2>4. QED
    BY <2>1, <2>2, <2>3 DEF DecisionInv, Settled
<1>3. ASSUME NEW enabled \in BOOLEAN, SetAdblockEnabled(enabled)
      PROVE  DecisionInv'
  <2>1. /\ adblock \in installed /\ installed' = installed
        /\ UNCHANGED <<legacy, install_first_start, saved>>
        /\ settings'[adblock] = SetEnabled(settings[adblock], enabled)
        /\ chosen' = [chosen EXCEPT !.enabled = {enabled}]
    BY <1>3 DEF SetAdblockEnabled, ChangeEnabled, TypeOK, ServiceTypeOK
  <2>2. Respected(settings[adblock], chosen) /\ legacy = NoLegacy /\ ~ install_first_start
    BY <2>1 DEF DecisionInv, Settled
  <2>3. Respected(settings'[adblock], chosen')
    BY <1>0, <2>1, <2>2 DEF Respected, SetEnabled, Settings, Choices
  <2>4. QED
    BY <2>1, <2>2, <2>3 DEF DecisionInv, Settled
<1>4. ASSUME NEW c \in Configuration,
             \/ InstallOther(c)
             \/ \E enabled \in BOOLEAN : SetOtherEnabled(c, enabled)
      PROVE  DecisionInv'
  <2>1. /\ adblock \in installed' <=> adblock \in installed
        /\ settings'[adblock] = settings[adblock]
        /\ UNCHANGED <<legacy, install_first_start, chosen, saved>>
    BY <1>4 DEF InstallOther, SetOtherEnabled, InstallFilteringConfiguration, ChangeEnabled,
       TypeOK, ServiceTypeOK
  <2>2. QED
    BY <2>1 DEF DecisionInv
<1>5. CASE SavePrefs
  <2>1. Startable(settings[adblock], chosen, legacy, install_first_start)
    BY DEF DecisionInv, Startable
  <2>2. QED
    BY <1>5, <2>1 DEF SavePrefs, CurrentPrefs, DecisionInv, service_vars
<1>6. CASE Quit \/ Crash
  <2>1. Startable(settings[adblock], chosen, legacy, install_first_start)
    BY DEF DecisionInv, Startable
  <2>2. QED
    BY <1>6, <2>1 DEF Quit, Crash, End, CurrentPrefs, DecisionInv
<1>7. CASE UNCHANGED vars
  BY <1>7 DEF vars, service_vars, DecisionInv
<1>8. QED
  BY <1>1, <1>2, <1>3, <1>4, <1>5, <1>6, <1>7 DEF Next

\* What the user decided, in this version or in an earlier one, stays decided,
\* through any sequence of starts with any switches, first run, migration,
\* changes and crashes (adblock_controller_impl.cc).
THEOREM ChoicesRespectedHolds == Spec => []ChoicesRespected
<1>1. Init => DecisionInv
  BY ControllerAssumption DEF Init, CurrentPrefs, DecisionInv, Startable
<1>2. DecisionInv => ChoicesRespected
  BY DEF DecisionInv, Settled, Respected, ChoicesRespected
<1>3. QED
  BY <1>1, <1>2, DecisionNext, TypeCorrect, PTL DEF Spec
=============================================================================
