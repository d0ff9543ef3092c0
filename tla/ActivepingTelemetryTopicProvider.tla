------------------ MODULE ActivepingTelemetryTopicProvider ------------------
(***************************************************************************)
(* The topic that counts active users.  The server answers a ping with a   *)
(* token, the time it handled the ping, truncated; the client keeps the    *)
(* first, the last and the previous token and a random tag in the          *)
(* preferences and sends them with the next ping, which is all the server  *)
(* knows a client by.                                                      *)
(*                                                                         *)
(* A token is a day, and many pings may have the same; 0 is an empty       *)
(* preference, which the payload leaves out.  The server's clock does not  *)
(* go back.  Random tags are told apart by the order of their generation,  *)
(* which a crash does not repeat.  `after` of a payload is no part of it:  *)
(* it records which ping the client was answered last, a number that       *)
(* neither it nor the server knows.  A time in the preferences is one bit: *)
(* whether it has passed.                                                  *)
(***************************************************************************)
EXTENDS Naturals, Sequences

CONSTANTS
  MaxPings,   \* bound: pings the server handles
  MaxDays     \* bound: days that pass

ASSUME PingsAssumption == MaxPings \in Nat /\ MaxDays \in Nat \ {0}

VARIABLES
  prefs,         \* the kTelemetry... preferences
  saved_prefs,   \* the preferences as they were last written to disk
  tags,          \* how many random tags were generated
  handled,       \* the pings the server handled, in order, with their tokens
  day            \* the server's time, truncated

Token == 0..MaxDays
Ping == 0..MaxPings
Payload ==
  [first : Token, last : Token, previous : Token, tag : Nat, after : Ping]
HandledPing == [payload : Payload, token : Token \ {0}]

\* `due`: the time of kTelemetryNextPingTime has passed, or is not set.
PingPrefs == [payload : Payload, due : BOOLEAN]

ActivepingTypeOK ==
  /\ prefs \in PingPrefs
  /\ saved_prefs \in PingPrefs
  /\ tags \in Nat
  /\ handled \in Seq(HandledPing)
  /\ Len(handled) <= MaxPings
  /\ day \in Token \ {0}

NoPayload == [first |-> 0, last |-> 0, previous |-> 0, tag |-> 0, after |-> 0]

ActivepingInit ==
  /\ prefs = [payload |-> NoPayload, due |-> TRUE]
  /\ saved_prefs = prefs
  /\ tags = 0
  /\ handled = <<>>
  /\ day = 1

-----------------------------------------------------------------------------
\* Faulty: the previous token is taken after the last one was replaced.
UpdatedTooLate(p, n) ==
  LET token == handled[n].token
  IN  [first |-> IF p.first = 0 THEN token ELSE p.first,
       last |-> token, previous |-> token, tag |-> tags + 1, after |-> n]

\* Faulty: a tag is kept for as long as the last token is the same.
UpdatedOldTag(p, n) ==
  LET token == handled[n].token
  IN  [first |-> IF p.first = 0 THEN token ELSE p.first,
       last |-> token, previous |-> p.last,
       tag |-> IF p.last = token THEN p.tag ELSE tags + 1, after |-> n]

\* Faulty: every token is taken for the first.
FirstReplaced(p, n) ==
  LET token == handled[n].token
  IN  [first |-> token, last |-> token, previous |-> p.last,
       tag |-> tags + 1, after |-> n]

\* The preferences once the response to ping `n` has been parsed.
UpdatePrefs(p, n) ==
  LET token == handled[n].token
  IN  [first |-> IF p.first = 0 THEN token ELSE p.first,
       last |-> token, previous |-> p.last, tag |-> tags + 1, after |-> n]

\* A response without a token (n = 0: none at all, not JSON, an "error")
\* schedules a retry, that of ping `n` the next ping.
ParseResponse(n) ==
  /\ prefs' = [payload |-> IF n = 0 THEN prefs.payload
                           ELSE UpdatePrefs(prefs.payload, n),
               due |-> FALSE]
  /\ tags' = IF n = 0 THEN tags ELSE tags + 1

\* The time of the next ping comes.  What was saved was scheduled no later.
NextPingTimePasses ==
  /\ ~ prefs.due
  /\ prefs' = [prefs EXCEPT !.due = TRUE]
  /\ saved_prefs' = [saved_prefs EXCEPT !.due = TRUE]

SavePrefs ==
  /\ saved_prefs # prefs
  /\ saved_prefs' = prefs
=============================================================================
