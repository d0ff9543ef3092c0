-------------------------- MODULE AdblockController --------------------------
(***************************************************************************)
(* AdblockControllerImpl and its factory: what happens to the settings of  *)
(* the configuration "adblock" when a browser starts (switches of the      *)
(* command line, first run, migration of the preferences of an earlier     *)
(* version) and when the user changes them.                                *)
(*                                                                         *)
(* The preferences are written to disk as a whole, now and then; a crash   *)
(* takes all of them back to what was written last.  A start is one task,  *)
(* so it is never written in part.                                         *)
(***************************************************************************)
EXTENDS SubscriptionService

CONSTANTS
  adblock,             \* the configuration of the controller
  AcceptableAdsUrl,    \* the list of Acceptable Ads
  FirstRunLists,       \* lists every user is subscribed to on first run
  LocaleLists,         \* lists a user is subscribed to if the language matches
  DefaultSubscription  \* the list for want of one that matches, a set: it is
                       \* empty if that list is not known, or to be ignored

ASSUME ControllerAssumption ==
  /\ adblock \in Configuration
  /\ AcceptableAdsUrl \in Item
  /\ FirstRunLists \cup LocaleLists \cup DefaultSubscription \subseteq Item
  /\ AcceptableAdsUrl \notin LocaleLists \cup DefaultSubscription

VARIABLES
  install_first_start,   \* kInstallFirstStartSubscriptions
  legacy,                \* preferences of an earlier version
  chosen,                \* history: what the user decided, see ChoicesRespected
  saved                  \* the preferences, and `chosen`, as on disk

vars == <<service_vars, install_first_start, legacy, chosen, saved>>

\* An optional Boolean is a set with at most one element.
Optional == {{}, {TRUE}, {FALSE}}

\* `items` are the subscriptions, custom subscriptions, domains and filters.
Legacy == [aa_enable : Optional, enable : Optional, items : SUBSET Item]
NoLegacy == [aa_enable |-> {}, enable |-> {}, items |-> {}]

Choices == [added : SUBSET Item, removed : SUBSET Item, enabled : Optional]

Prefs == [settings : [Configuration -> Settings], first : BOOLEAN,
          legacy : Legacy, chosen : Choices]

TypeOK ==
  /\ ServiceTypeOK
  /\ install_first_start \in BOOLEAN
  /\ legacy \in Legacy
  /\ chosen \in Choices
  /\ saved \in Prefs

CurrentPrefs ==
  [settings |-> settings, first |-> install_first_start,
   legacy |-> legacy, chosen |-> chosen]

\* What the user decided in the earlier version: its lists win over its flag.
LegacyChoices(l) ==
  [added |-> l.items \cup IF l.aa_enable = {TRUE} THEN {AcceptableAdsUrl} ELSE {},
   removed |-> (IF l.aa_enable = {FALSE} THEN {AcceptableAdsUrl} ELSE {}) \ l.items,
   enabled |-> l.enable]

\* A new profile, or that of an earlier version.
Init ==
  /\ installed = {}
  /\ settings = [c \in Configuration |-> SetDefaultValuesIfNeeded]
  /\ maintainers = NoMaintainers
  /\ install_first_start \in BOOLEAN
  /\ legacy \in Legacy
  /\ chosen = LegacyChoices(legacy)
  /\ saved = CurrentPrefs

-----------------------------------------------------------------------------
RecommendedFor(matching) ==
  IF matching = {} THEN DefaultSubscription ELSE matching

\* Faulty: the lists are recommended whenever the browser starts.
RecommendedAgain(s, first, disable_aa, matching) ==
  AppendToList(s, (FirstRunLists \ IF disable_aa THEN {AcceptableAdsUrl} ELSE {})
                  \cup RecommendedFor(matching))

RunFirstRunLogic(s, first, disable_aa, matching) ==
  IF first
  THEN AppendToList(s, (FirstRunLists \ IF disable_aa THEN {AcceptableAdsUrl} ELSE {})
                       \cup RecommendedFor(matching))
  ELSE s

SetAcceptableAdsEnabled(s, enabled) ==
  IF enabled THEN AppendToList(s, {AcceptableAdsUrl})
  ELSE RemoveFromList(s, AcceptableAdsUrl)

\* Faulty: the flag for Acceptable Ads is migrated after the lists.
MigrateListsFirst(s, l) ==
  LET listed == AppendToList(s, l.items)
      aa == IF l.aa_enable = {} THEN listed
            ELSE SetAcceptableAdsEnabled(listed, l.aa_enable = {TRUE})
  IN  IF l.enable = {} THEN aa ELSE SetEnabled(aa, l.enable = {TRUE})

MigrateLegacyPrefs(s, l) ==
  LET aa == IF l.aa_enable = {} THEN s
            ELSE SetAcceptableAdsEnabled(s, l.aa_enable = {TRUE})
      enabled == IF l.enable = {} THEN aa ELSE SetEnabled(aa, l.enable = {TRUE})
  IN  AppendToList(enabled, l.items)

\* --disable-aa and --disable-adblock change the preferences for good.
ObeySwitches(s, disable_aa, disable_adblock) ==
  LET aa == IF disable_aa THEN RemoveFromList(s, AcceptableAdsUrl) ELSE s
  IN  IF disable_adblock THEN SetEnabled(aa, FALSE) ELSE aa

\* A switch counts as a decision, but one that what is migrated overrides.
ChosenBySwitches(ch, l, disable_aa, disable_adblock) ==
  LET aa == disable_aa /\ AcceptableAdsUrl \notin LegacyChoices(l).added
      off == disable_adblock /\ l.enable = {}
  IN  [added |-> IF aa THEN ch.added \ {AcceptableAdsUrl} ELSE ch.added,
       removed |-> IF aa THEN ch.removed \cup {AcceptableAdsUrl} ELSE ch.removed,
       enabled |-> IF off THEN {FALSE} ELSE ch.enabled]

\* BuildServiceInstanceFor, with a set of lists that match the language.
Start(disable_aa, disable_adblock, matching) ==
  LET obeyed == ObeySwitches(settings[adblock], disable_aa, disable_adblock)
      begun == RunFirstRunLogic(obeyed, install_first_start, disable_aa, matching)
  IN  /\ InstallFilteringConfiguration(adblock, MigrateLegacyPrefs(begun, legacy))
      /\ install_first_start' = FALSE
      /\ legacy' = NoLegacy
      /\ chosen' = ChosenBySwitches(chosen, legacy, disable_aa, disable_adblock)
      /\ UNCHANGED saved

\* A configuration of an embedder, installed at any time.
InstallOther(c) ==
  /\ c # adblock
  /\ InstallFilteringConfiguration(c, settings[c])
  /\ UNCHANGED <<install_first_start, legacy, chosen, saved>>

InstallSubscription(i) ==
  /\ ChangeItems(adblock, AppendToList(settings[adblock], {i}))
  /\ chosen' = [chosen EXCEPT !.added = @ \cup {i}, !.removed = @ \ {i}]
  /\ UNCHANGED <<install_first_start, legacy, saved>>

UninstallSubscription(i) ==
  /\ ChangeItems(adblock, RemoveFromList(settings[adblock], i))
  /\ chosen' = [chosen EXCEPT !.added = @ \ {i}, !.removed = @ \cup {i}]
  /\ UNCHANGED <<install_first_start, legacy, saved>>

SetAdblockEnabled(enabled) ==
  /\ ChangeEnabled(adblock, enabled)
  /\ chosen' = [chosen EXCEPT !.enabled = {enabled}]
  /\ UNCHANGED <<install_first_start, legacy, saved>>

SetOtherEnabled(c, enabled) ==
  /\ c # adblock
  /\ ChangeEnabled(c, enabled)
  /\ UNCHANGED <<install_first_start, legacy, chosen, saved>>

SavePrefs ==
  /\ saved # CurrentPrefs
  /\ saved' = CurrentPrefs
  /\ UNCHANGED <<service_vars, install_first_start, legacy, chosen>>

\* The browser ends; `prefs` is what its successor finds.
End(prefs) ==
  /\ installed # {}
  /\ installed' = {}
  /\ maintainers' = NoMaintainers
  /\ settings' = prefs.settings
  /\ install_first_start' = prefs.first
  /\ legacy' = prefs.legacy
  /\ chosen' = prefs.chosen
  /\ saved' = prefs

Quit == End(CurrentPrefs)

Crash == End(saved)

Next ==
  \/ \E disable_aa, disable_adblock \in BOOLEAN, matching \in SUBSET LocaleLists :
       Start(disable_aa, disable_adblock, matching)
  \/ \E i \in Item : InstallSubscription(i) \/ UninstallSubscription(i)
  \/ \E enabled \in BOOLEAN :
       \/ SetAdblockEnabled(enabled)
       \/ \E c \in Configuration : SetOtherEnabled(c, enabled)
  \/ \E c \in Configuration : InstallOther(c)
  \/ SavePrefs
  \/ Quit
  \/ Crash

Spec == Init /\ [][Next]_vars

-----------------------------------------------------------------------------
(* Properties.                                                             *)

\* What the user decided stays decided: in this version or in an earlier one,
\* by hand or by a switch, across restarts, first run and migration.  Only a
\* crash forgets decisions, those made since the preferences were written.
\* (Until the browser has started once, the decisions are in `legacy`.)
ChoicesRespected ==
  adblock \in installed =>
    /\ chosen.added \subseteq settings[adblock].items
    /\ chosen.removed \cap settings[adblock].items = {}
    /\ chosen.enabled \subseteq {settings[adblock].enabled}

\* The snapshots requests are classified with are of the enabled
\* configurations, and of all of them, however a configuration came to be
\* enabled: when it was installed, by a switch, by migration or by the user.
SnapshotIsOfEnabled ==
  /\ maintainers \subseteq installed
  /\ GetCurrentSnapshot = {c \in installed : settings[c].enabled}
=============================================================================
