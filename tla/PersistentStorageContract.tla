---------------------- MODULE PersistentStorageContract ----------------------
(***************************************************************************)
(* What a maintainer may rely on when it stores, removes and loads         *)
(* subscriptions, without files, signatures and threads.  A subscription   *)
(* is what one successful store has made; storing a list again makes       *)
(* another one.                                                            *)
(*                                                                         *)
(* After an orderly end of the browser, the next load by a browser with    *)
(* the same schema returns what was installed then, and beyond it at most  *)
(* subscriptions whose store had not been answered or whose removal had    *)
(* just been ordered.  After a crash it may return less, but never         *)
(* anything else.                                                          *)
(***************************************************************************)
CONSTANTS
  Subscription,
  Schema        \* versions of the schema a browser may have

VARIABLES
  schema,      \* the schema of the running browser
  last_end,    \* how the process before this one ended
  phase,       \* "off": no storage object; "loading"; "ready"
  governed,    \* subscriptions handed out and not removed
  storing,     \* stores not answered yet
  surviving,   \* what the next load finds
  doubtful     \* not governed, but may be found by a load yet to come

browser == <<schema, last_end>>
vars == <<browser, phase, governed, storing, surviving, doubtful>>

Init ==
  /\ schema \in Schema
  /\ last_end = "none"
  /\ phase = "off"
  /\ governed = {}
  /\ storing = {}
  /\ surviving = {}
  /\ doubtful = {}

Load ==
  /\ phase = "off"
  /\ phase' = "loading"
  /\ UNCHANGED <<browser, governed, storing, surviving, doubtful>>

Loaded ==
  /\ phase = "loading"
  /\ phase' = "ready"
  /\ governed' = surviving
  /\ surviving' = {}
  /\ UNCHANGED <<browser, storing, doubtful>>

Store(s) ==
  /\ phase = "ready"
  /\ s \notin governed \cup storing \cup doubtful
  /\ storing' = storing \cup {s}
  /\ UNCHANGED <<browser, phase, governed, surviving, doubtful>>

Stored(s) ==
  /\ s \in storing
  /\ storing' = storing \ {s}
  /\ governed' = governed \cup {s}
  /\ UNCHANGED <<browser, phase, surviving, doubtful>>

StoreFailed(s) ==
  /\ s \in storing
  /\ storing' = storing \ {s}
  /\ UNCHANGED <<browser, phase, governed, surviving, doubtful>>

Remove(s) ==
  /\ s \in governed
  /\ governed' = governed \ {s}
  /\ doubtful' \in {doubtful, doubtful \cup {s}}
  /\ UNCHANGED <<browser, phase, storing, surviving>>

\* A removal takes its final effect.
Settle ==
  /\ doubtful' \in SUBSET doubtful
  /\ UNCHANGED <<browser, phase, governed, storing, surviving>>

\* The browser ends, in order ("quit") or not, and is started again, perhaps
\* with another schema; stores in flight get no answer.  What the new browser
\* does not understand may be found by a later one that does.
End(how) ==
  LET candidates == governed \cup storing \cup surviving \cup doubtful
  IN  /\ last_end' = how
      /\ schema' \in Schema
      /\ phase' = "off"
      /\ governed' = {}
      /\ storing' = {}
      /\ surviving' \in SUBSET candidates
      /\ doubtful' \in SUBSET candidates
      /\ surviving' = {} \/ doubtful' = {}
      /\ how = "quit" /\ schema' = schema =>
           governed \cup surviving \subseteq surviving'

Next ==
  \/ Load
  \/ Loaded
  \/ \E s \in Subscription :
       Store(s) \/ Stored(s) \/ StoreFailed(s) \/ Remove(s)
  \/ Settle
  \/ \E how \in {"quit", "crash"} : End(how)

Spec == Init /\ [][Next]_vars
=============================================================================
