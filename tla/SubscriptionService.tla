------------------------- MODULE SubscriptionService -------------------------
(***************************************************************************)
(* SubscriptionServiceImpl: it keeps a maintainer for each configuration   *)
(* that is enabled, and makes snapshots of what their maintainers have     *)
(* installed.  What that is, is FilteringConfigurationMaintainer's         *)
(* business; here a configuration has a maintainer or none.                *)
(***************************************************************************)
EXTENDS PersistentFilteringConfiguration

CONSTANT Configuration   \* the configurations that may be installed

VARIABLES
  installed,     \* the keys of maintainers_
  settings,      \* the dictionary of each configuration
  maintainers    \* the configurations that have a maintainer

service_vars == <<installed, settings, maintainers>>

ServiceTypeOK ==
  /\ installed \in SUBSET Configuration
  /\ settings \in [Configuration -> Settings]
  /\ maintainers \in SUBSET Configuration

NoMaintainers == {}

-----------------------------------------------------------------------------
\* Faulty: a maintainer is made, but never destroyed.
MaintainedOnce(m, c, s) == IF s.enabled THEN m \cup {c} ELSE m

\* The maintainers once configuration `c`, with settings `s`, is installed or
\* has been enabled or disabled.
MaintainedIfEnabled(m, c, s) == IF s.enabled THEN m \cup {c} ELSE m \ {c}

\* A snapshot has a collection of each configuration that has a maintainer.
GetCurrentSnapshot == {c \in installed : c \in maintainers}

InstallFilteringConfiguration(c, s) ==
  /\ c \notin installed
  /\ installed' = installed \cup {c}
  /\ settings' = [settings EXCEPT ![c] = s]
  /\ maintainers' = MaintainedIfEnabled(maintainers, c, s)

\* SetEnabled, and OnEnabledStateChanged if it changes anything.
ChangeEnabled(c, enabled) ==
  /\ c \in installed
  /\ settings[c].enabled # enabled
  /\ settings' = [settings EXCEPT ![c] = SetEnabled(@, enabled)]
  /\ maintainers' = MaintainedIfEnabled(maintainers, c, settings'[c])
  /\ UNCHANGED installed

ChangeItems(c, s) ==
  /\ c \in installed
  /\ s # settings[c]
  /\ settings' = [settings EXCEPT ![c] = s]
  /\ UNCHANGED <<installed, maintainers>>
=============================================================================
