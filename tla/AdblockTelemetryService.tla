----------------------- MODULE AdblockTelemetryService -----------------------
(***************************************************************************)
(* AdblockTelemetryService: a conversation per topic, started by a timer   *)
(* that runs while ad blocking is enabled.  The topics are                 *)
(* ActivepingTelemetryTopicProvider, which has its payload at once, and    *)
(* any that gather it asynchronously, as TopicProvider allows; of those    *)
(* nothing is modelled but that they call back, or drop the callback.      *)
(*                                                                         *)
(* The network may lose a request or its response, and the server may      *)
(* handle a request whose loader was destroyed.                            *)
(***************************************************************************)
EXTENDS ActivepingTelemetryTopicProvider

CONSTANTS
  Topic,        \* topics
  activeping    \* that of ActivepingTelemetryTopicProvider

ASSUME TopicAssumption == activeping \in Topic

VARIABLES
  running,       \* the browser is running
  enabled,       \* the filtering configuration is enabled
  timer,         \* timer_.IsRunning()
  payload_callbacks,   \* outstanding weak pointers of each conversation
  url_loader,    \* topics with a url_loader_
  request,       \* what the loader of activeping sent, and the ping whose
                 \* response is on its way (0: not handled)
  strays         \* payloads whose loader is gone before they were handled

activeping_vars == <<prefs, saved_prefs, tags, handled, day, request, strays>>
service_vars == <<running, enabled, timer, payload_callbacks, url_loader>>
vars == <<activeping_vars, service_vars>>

AsyncTopic == Topic \ {activeping}
NoRequest == [payload |-> NoPayload, ping |-> 0]

TypeOK ==
  /\ ActivepingTypeOK
  /\ running \in BOOLEAN
  /\ enabled \in BOOLEAN
  /\ timer \in BOOLEAN
  /\ payload_callbacks \in [Topic -> 0..1]
  /\ url_loader \subseteq Topic
  /\ request \in [payload : Payload, ping : Ping]
  /\ strays \subseteq Payload

Init ==
  /\ ActivepingInit
  /\ running = FALSE
  /\ enabled = FALSE
  /\ timer = FALSE
  /\ payload_callbacks = [t \in Topic |-> 0]
  /\ url_loader = {}
  /\ request = NoRequest
  /\ strays = {}

-----------------------------------------------------------------------------
\* Destroying the loader of activeping leaves its payload on the wire.
Abandoned ==
  IF activeping \in url_loader /\ request.ping = 0
  THEN strays \cup {request.payload} ELSE strays

\* Faulty: a conversation that waits for its payload counts as idle.
IsLoading(t) == t \in url_loader

IsRequestInFlight(t) == t \in url_loader \/ payload_callbacks[t] > 0

\* Of the asynchronous topics, any may have a request due.
IsRequestDue(t) == (t = activeping => prefs.due) /\ ~ IsRequestInFlight(t)

\* StartRequest of the topics in `due`: activeping has its payload at once and
\* goes on to MakeRequest, the others keep the callback.
StartRequests(due) ==
  /\ payload_callbacks' = [t \in Topic |->
       payload_callbacks[t] + IF t \in due \ {activeping} THEN 1 ELSE 0]
  /\ url_loader' = url_loader \cup (due \cap {activeping})
  /\ IF activeping \in due
     THEN /\ request' = [payload |-> prefs.payload, ping |-> 0]
          /\ strays' = Abandoned
     ELSE UNCHANGED <<request, strays>>

\* Faulty: the timer is armed again only if something was started.
RearmedIfStarted(due) == timer' = (due # {})

Rearmed(due) == timer' = TRUE

RunPeriodicCheck ==
  /\ timer
  /\ \E due \in SUBSET {t \in Topic : IsRequestDue(t)} :
       /\ IsRequestDue(activeping) => activeping \in due
       /\ StartRequests(due)
       /\ Rearmed(due)
  /\ UNCHANGED <<prefs, saved_prefs, tags, handled, day, running, enabled>>

\* MakeRequest of an asynchronous topic.
PayloadGathered(t) ==
  /\ running
  /\ payload_callbacks[t] > 0
  /\ payload_callbacks' = [payload_callbacks EXCEPT ![t] = @ - 1]
  /\ url_loader' = url_loader \cup {t}
  /\ UNCHANGED <<running, enabled, timer, activeping_vars>>

PayloadDropped(t) ==
  /\ payload_callbacks[t] > 0
  /\ payload_callbacks' = [payload_callbacks EXCEPT ![t] = @ - 1]
  /\ UNCHANGED <<running, enabled, timer, url_loader, activeping_vars>>

\* OnResponseArrived, for the requests of activeping: the response of the
\* server, or, if it has not handled the ping or its answer is lost or spoilt,
\* a response that is none.
OnResponseArrived ==
  /\ activeping \in url_loader
  /\ \/ request.ping # 0 /\ ParseResponse(request.ping)
     \/ ParseResponse(0)
  /\ url_loader' = url_loader \ {activeping}
  /\ strays' = Abandoned
  /\ request' = NoRequest
  /\ UNCHANGED <<saved_prefs, handled, day, running, enabled, timer,
                 payload_callbacks>>

AsyncResponseArrived(t) ==
  /\ t \in url_loader
  /\ url_loader' = url_loader \ {t}
  /\ UNCHANGED <<running, enabled, timer, payload_callbacks, activeping_vars>>

\* Faulty: disabling stops the timer only.
TimerStopped == UNCHANGED <<url_loader, request, strays>>

\* Stop, of every conversation.  It leaves the payload callbacks alone.
ConversationsStopped ==
  /\ url_loader' = {}
  /\ request' = NoRequest
  /\ strays' = Abandoned

\* OnEnabledStateChangedInternal.
OnEnabledStateChanged ==
  /\ running
  /\ enabled' = ~ enabled
  /\ timer' = enabled'
  /\ IF ~ enabled' /\ timer THEN ConversationsStopped
     ELSE UNCHANGED <<url_loader, request, strays>>
  /\ UNCHANGED <<prefs, saved_prefs, tags, handled, day, running, payload_callbacks>>

-----------------------------------------------------------------------------
(* The server, the preference store and the browser.                       *)

HandlePing ==
  /\ Len(handled) < MaxPings
  /\ \/ /\ activeping \in url_loader /\ request.ping = 0
        /\ request' = [request EXCEPT !.ping = Len(handled) + 1]
        /\ handled' = Append(handled, [payload |-> request.payload, token |-> day])
        /\ UNCHANGED strays
     \/ \E p \in strays :
          /\ handled' = Append(handled, [payload |-> p, token |-> day])
          /\ strays' = strays \ {p}
          /\ UNCHANGED request
  /\ UNCHANGED <<prefs, saved_prefs, tags, day, service_vars>>

DayPasses ==
  /\ day < MaxDays
  /\ day' = day + 1
  /\ UNCHANGED <<prefs, saved_prefs, tags, handled, request, strays, service_vars>>

TimePasses ==
  NextPingTimePasses /\ UNCHANGED <<tags, handled, day, request, strays, service_vars>>

PrefsSaved ==
  SavePrefs /\ UNCHANGED <<prefs, tags, handled, day, request, strays, service_vars>>

\* The browser ends, with or without saving its preferences.
End(saved) ==
  /\ running
  /\ running' = FALSE
  /\ timer' = FALSE
  /\ payload_callbacks' = [t \in Topic |-> 0]
  /\ ConversationsStopped
  /\ prefs' = saved
  /\ saved_prefs' = saved
  /\ UNCHANGED <<enabled, tags, handled, day>>

\* Start, in a new browser; whether ad blocking is enabled was saved elsewhere.
Start ==
  /\ ~ running
  /\ running' = TRUE
  /\ enabled' \in BOOLEAN
  /\ timer' = enabled'
  /\ UNCHANGED <<payload_callbacks, url_loader, activeping_vars>>

Next ==
  \/ Start
  \/ RunPeriodicCheck
  \/ OnResponseArrived
  \/ OnEnabledStateChanged
  \/ \E t \in AsyncTopic :
       PayloadGathered(t) \/ PayloadDropped(t) \/ AsyncResponseArrived(t)
  \/ HandlePing
  \/ DayPasses
  \/ TimePasses
  \/ PrefsSaved
  \/ End(prefs)
  \/ End(saved_prefs)

Spec == Init /\ [][Next]_vars

\* A timer fires, time passes, and a request ends one way or another: the
\* last is a promise of the network, as the loader is given no timeout.
Fairness ==
  /\ WF_vars(RunPeriodicCheck)
  /\ WF_vars(TimePasses)
  /\ WF_vars(OnResponseArrived)

FairSpec == Spec /\ Fairness

-----------------------------------------------------------------------------
(* Properties.                                                             *)

\* A conversation is at one point only: it gathers a payload or has a request
\* in flight.  MakeRequest would otherwise cancel a request unnoticed.
OneRequestPerTopic ==
  \A t \in Topic : payload_callbacks[t] + (IF t \in url_loader THEN 1 ELSE 0) <= 1

\* While ad blocking is disabled, no request to the server is under way,
\* other than of a topic that was still gathering its payload.
NoPingWhileDisabled == running /\ ~ enabled => activeping \notin url_loader

\* Every ping but a first one reports the token of a ping before it, and with
\* it what this ping itself reported: the server can follow a client from
\* ping to ping, whatever is lost, repeated or forgotten in a crash.
PingsFormAChain ==
  \A n \in 1..Len(handled) :
    LET p == handled[n].payload
        k == p.after
    IN  IF k = 0 THEN p = NoPayload
        ELSE /\ k < n
             /\ p.last = handled[k].token
             /\ p.previous = handled[k].payload.last
             /\ p.first = IF handled[k].payload.first = 0 THEN handled[k].token
                          ELSE handled[k].payload.first

\* Pings have the same tag exactly if the client was answered the same ping
\* before it sent them, although other pings of that day were answered with
\* the same token: a retry can be told from a new ping and from one of another
\* client ("If a ping is retried, the same last_ping_tag number should be
\* used", components/adblock/docs/data-collection/user-counting.md:28).
TagsTellRetries ==
  \A m, n \in 1..Len(handled) :
    handled[m].payload.tag = handled[n].payload.tag
      <=> handled[m].payload.after = handled[n].payload.after

\* A running client never forgets a ping the server acknowledged, nor its
\* first one: only a crash takes the chain back.
ForgetsOnlyInCrash ==
  [][running' => /\ prefs'.payload.last >= prefs.payload.last
                 /\ prefs.payload.first # 0 => prefs'.payload.first = prefs.payload.first]_vars

\* While the browser runs with ad blocking enabled, pings go on for ever.
PingsGoOn ==
  <>[](running /\ enabled) => []<>(activeping \in url_loader)
=============================================================================
