------------------- MODULE AdblockTelemetryService_proofs -------------------
(***************************************************************************)
(* Theorems about AdblockTelemetryService for every value of its           *)
(* constants: any number of topics and of pings, every loss, crash and     *)
(* interleaving.                                                           *)
(***************************************************************************)
EXTENDS AdblockTelemetryService, SequenceTheorems, TLAPS

USE PingsAssumption, TopicAssumption

-----------------------------------------------------------------------------
(* Type correctness.                                                       *)

LEMMA HandledType ==
  ASSUME TypeOK
  PROVE  /\ handled \in Seq(HandledPing) /\ Len(handled) \in Nat /\ Len(handled) <= MaxPings
         /\ \A n \in 1..Len(handled) : /\ handled[n].payload \in Payload
                                       /\ handled[n].token \in Nat \ {0}
                                       /\ handled[n].token \in Token
<1>1. handled \in Seq(HandledPing) /\ Len(handled) <= MaxPings
  BY DEF TypeOK, ActivepingTypeOK
<1>2. Len(handled) \in Nat /\ \A n \in 1..Len(handled) : handled[n] \in HandledPing
  BY <1>1
<1>3. QED
  BY <1>1, <1>2 DEF HandledPing, Token

LEMMA UpdatePrefsType ==
  ASSUME TypeOK, NEW p \in Payload, NEW n \in 1..Len(handled)
  PROVE  UpdatePrefs(p, n) \in Payload
<1>1. handled[n].token \in Token /\ n \in Ping /\ tags + 1 \in Nat
  BY HandledType DEF TypeOK, ActivepingTypeOK, Ping
<1>2. QED
  BY <1>1 DEF UpdatePrefs, Payload, Token

LEMMA ParseResponseType ==
  ASSUME TypeOK, NEW n \in 0..Len(handled), ParseResponse(n)
  PROVE  prefs' \in PingPrefs /\ tags' \in Nat
<1>1. prefs.payload \in Payload /\ tags \in Nat
  BY DEF PingPrefs, TypeOK, ActivepingTypeOK
<1>2. CASE n = 0
  BY <1>1, <1>2 DEF ParseResponse, PingPrefs
<1>3. CASE n # 0
  <2>1. n \in 1..Len(handled)
    BY <1>3 DEF TypeOK, ActivepingTypeOK
  <2>2. UpdatePrefs(prefs.payload, n) \in Payload
    BY <1>1, <2>1, UpdatePrefsType
  <2>3. QED
    BY <1>1, <1>3, <2>2 DEF ParseResponse, PingPrefs
<1>4. QED
  BY <1>2, <1>3

LEMMA NoPayloadType == NoPayload \in Payload /\ NoRequest \in [payload : Payload, ping : Ping]
BY DEF NoPayload, NoRequest, Payload, Token, Ping

LEMMA NoCallbacksType == [t \in Topic |-> 0] \in [Topic -> 0..1]
OBVIOUS

\* What is destroyed with a loader is a payload, as is what was.
LEMMA AbandonedType ==
  ASSUME TypeOK
  PROVE  Abandoned \subseteq Payload
BY DEF TypeOK, Abandoned

\* A loader exists for every response on its way.
RequestInv ==
  request.ping # 0 => activeping \in url_loader /\ request.ping \in 1..Len(handled)

LEMMA RequestStep == TypeOK /\ RequestInv /\ [Next]_vars => RequestInv'
<1> SUFFICES ASSUME TypeOK, RequestInv, [Next]_vars PROVE RequestInv'
  OBVIOUS
<1> USE DEF RequestInv
<1>1. CASE Start \/ DayPasses \/ TimePasses \/ PrefsSaved \/ UNCHANGED vars
  BY <1>1 DEF Start, DayPasses, TimePasses, PrefsSaved, vars, activeping_vars, service_vars
<1>2. CASE RunPeriodicCheck
  BY <1>2 DEF RunPeriodicCheck, StartRequests
<1>3. CASE OnResponseArrived \/ OnEnabledStateChanged \/ End(prefs) \/ End(saved_prefs)
  BY <1>3 DEF OnResponseArrived, OnEnabledStateChanged, End, ConversationsStopped, NoRequest
<1>4. CASE \E t \in AsyncTopic :
             PayloadGathered(t) \/ PayloadDropped(t) \/ AsyncResponseArrived(t)
  BY <1>4 DEF PayloadGathered, PayloadDropped, AsyncResponseArrived, AsyncTopic,
              activeping_vars
<1>5. CASE HandlePing
  <2>1. PICK p \in Payload : handled' = Append(handled, [payload |-> p, token |-> day])
    BY <1>5 DEF HandlePing, TypeOK
  <2>2. Len(handled) \in Nat /\ Len(handled') = Len(handled) + 1
    <3>1. [payload |-> p, token |-> day] \in HandledPing
      BY DEF TypeOK, ActivepingTypeOK, HandledPing
    <3>2. QED
      BY <2>1, <3>1, HandledType
  <2>3. UNCHANGED url_loader
        /\ (UNCHANGED request \/ /\ activeping \in url_loader
                                 /\ request'.ping = Len(handled) + 1)
    BY <1>5 DEF HandlePing, service_vars, TypeOK
  <2>4. QED
    BY <2>2, <2>3
<1>6. QED
  BY <1>1, <1>2, <1>3, <1>4, <1>5 DEF Next

\* Every step keeps the types.
LEMMA TypeStep == TypeOK /\ RequestInv /\ [Next]_vars => TypeOK'
<1> SUFFICES ASSUME TypeOK, RequestInv, [Next]_vars PROVE TypeOK'
  OBVIOUS
<1> USE NoPayloadType, AbandonedType
<1>1. CASE Start
  BY <1>1 DEF Start, TypeOK, ActivepingTypeOK, activeping_vars
<1>2. CASE RunPeriodicCheck
  <2>1. PICK due \in SUBSET {t \in Topic : IsRequestDue(t)} : StartRequests(due) /\ Rearmed(due)
    BY <1>2 DEF RunPeriodicCheck
  <2>2. payload_callbacks' \in [Topic -> 0..1]
    BY <2>1 DEF StartRequests, TypeOK, IsRequestDue, IsRequestInFlight
  <2>3. url_loader' \subseteq Topic /\ timer' \in BOOLEAN
    BY <2>1 DEF StartRequests, Rearmed, TypeOK
  <2>4. request' \in [payload : Payload, ping : Ping] /\ strays' \subseteq Payload
    <3>1. [payload |-> prefs.payload, ping |-> 0] \in [payload : Payload, ping : Ping]
      BY DEF TypeOK, ActivepingTypeOK, PingPrefs, Ping
    <3>2. QED
      BY <2>1, <3>1 DEF StartRequests, TypeOK
  <2>5. QED
    BY <1>2, <2>2, <2>3, <2>4 DEF RunPeriodicCheck, TypeOK, ActivepingTypeOK
<1>3. CASE OnResponseArrived
  <2>1. PICK n \in 0..Len(handled) : ParseResponse(n)
    BY <1>3 DEF OnResponseArrived, RequestInv, TypeOK, ActivepingTypeOK
  <2>2. prefs' \in PingPrefs /\ tags' \in Nat
    BY <2>1, ParseResponseType
  <2>3. QED
    BY <1>3, <2>2 DEF OnResponseArrived, TypeOK, ActivepingTypeOK
<1>4. CASE OnEnabledStateChanged
  BY <1>4 DEF OnEnabledStateChanged, ConversationsStopped, TypeOK, ActivepingTypeOK
<1>5. ASSUME NEW t \in AsyncTopic,
             PayloadGathered(t) \/ PayloadDropped(t) \/ AsyncResponseArrived(t)
      PROVE  TypeOK'
  BY <1>5 DEF PayloadGathered, PayloadDropped, AsyncResponseArrived, AsyncTopic,
              TypeOK, ActivepingTypeOK, activeping_vars
<1>6. CASE HandlePing
  <2>1. PICK p \in Payload : handled' = Append(handled, [payload |-> p, token |-> day])
    BY <1>6 DEF HandlePing, TypeOK
  <2>2. handled' \in Seq(HandledPing)
        /\ Len(handled') = Len(handled) + 1
    <3>1. [payload |-> p, token |-> day] \in HandledPing
      BY DEF TypeOK, ActivepingTypeOK, HandledPing
    <3>2. QED
      BY <2>1, <3>1, HandledType
  <2>3. Len(handled') <= MaxPings /\ Len(handled) + 1 \in Ping
    BY <1>6, <2>2 DEF HandlePing, TypeOK, ActivepingTypeOK, Ping
  <2>4. request' \in [payload : Payload, ping : Ping] /\ strays' \subseteq Payload
    BY <1>6, <2>3 DEF HandlePing, TypeOK
  <2>5. QED
    BY <1>6, <2>2, <2>3, <2>4 DEF HandlePing, TypeOK, ActivepingTypeOK, service_vars
<1>7. CASE TimePasses
  BY <1>7 DEF TimePasses, NextPingTimePasses, TypeOK, ActivepingTypeOK, PingPrefs, service_vars
<1>8. CASE PrefsSaved
  BY <1>8 DEF PrefsSaved, SavePrefs, TypeOK, ActivepingTypeOK, service_vars
<1>9. CASE End(prefs) \/ End(saved_prefs)
  <2>1. payload_callbacks' \in [Topic -> 0..1]
    BY <1>9, NoCallbacksType DEF End
  <2>2. prefs' \in PingPrefs /\ saved_prefs' \in PingPrefs
    BY <1>9 DEF End, TypeOK, ActivepingTypeOK
  <2>3. QED
    BY <1>9, <2>1, <2>2 DEF End, ConversationsStopped, TypeOK, ActivepingTypeOK
<1>10. CASE DayPasses
  <2>1. day' \in Token \ {0}
    BY <1>10 DEF DayPasses, TypeOK, ActivepingTypeOK, Token
  <2>2. QED
    BY <1>10, <2>1 DEF DayPasses, TypeOK, ActivepingTypeOK, service_vars
<1>11. CASE UNCHANGED vars
  BY <1>11 DEF vars, activeping_vars, service_vars, TypeOK, ActivepingTypeOK
<1>12. QED
  BY <1>1, <1>2, <1>3, <1>4, <1>5, <1>6, <1>7, <1>8, <1>9, <1>10, <1>11
  DEF Next

LEMMA InitTypes == Init => TypeOK /\ RequestInv
<1> SUFFICES ASSUME Init PROVE TypeOK /\ RequestInv
  OBVIOUS
<1>1. prefs \in PingPrefs /\ saved_prefs \in PingPrefs
  BY NoPayloadType DEF Init, ActivepingInit, PingPrefs
<1>2. /\ handled \in Seq(HandledPing)
      /\ Len(handled) <= MaxPings /\ tags \in Nat /\ day \in Token \ {0}
  BY DEF Init, ActivepingInit, Token
<1>3. RequestInv
  BY DEF Init, NoRequest, RequestInv
<1>4. QED
  BY <1>1, <1>2, <1>3, NoPayloadType, NoCallbacksType DEF Init, TypeOK, ActivepingTypeOK

LEMMA TypesHold == Spec => [](TypeOK /\ RequestInv)
BY InitTypes, TypeStep, RequestStep, PTL DEF Spec

\* Every reachable state is well-typed.
THEOREM TypeCorrect == Spec => []TypeOK
BY TypesHold, PTL

-----------------------------------------------------------------------------
(* One request for each topic, and none while disabled.                    *)

LEMMA OneRequestStep == TypeOK /\ OneRequestPerTopic /\ [Next]_vars => OneRequestPerTopic'
<1> SUFFICES ASSUME TypeOK, OneRequestPerTopic, [Next]_vars, NEW t \in Topic
             PROVE  payload_callbacks'[t] + (IF t \in url_loader' THEN 1 ELSE 0) <= 1
  BY DEF OneRequestPerTopic
<1>1. /\ payload_callbacks \in [Topic -> 0..1] /\ payload_callbacks[t] \in 0..1
      /\ payload_callbacks[t] + (IF t \in url_loader THEN 1 ELSE 0) <= 1
  BY DEF TypeOK, OneRequestPerTopic
<1>2. CASE RunPeriodicCheck
  <2>1. PICK due \in SUBSET {x \in Topic : IsRequestDue(x)} : StartRequests(due)
    BY <1>2 DEF RunPeriodicCheck
  <2>2. t \in due => payload_callbacks[t] = 0 /\ t \notin url_loader
    BY <1>1, <2>1 DEF IsRequestDue, IsRequestInFlight
  <2>3. QED
    BY <1>1, <2>1, <2>2 DEF StartRequests
<1>3. CASE Start \/ HandlePing \/ DayPasses \/ TimePasses \/ PrefsSaved \/ UNCHANGED vars
  BY <1>1, <1>3 DEF Start, HandlePing, DayPasses, TimePasses, PrefsSaved, vars, service_vars
<1>4. CASE OnResponseArrived \/ OnEnabledStateChanged
  BY <1>1, <1>4 DEF OnResponseArrived, OnEnabledStateChanged, ConversationsStopped
<1>5. CASE \E x \in AsyncTopic :
             PayloadGathered(x) \/ PayloadDropped(x) \/ AsyncResponseArrived(x)
  BY <1>1, <1>5 DEF PayloadGathered, PayloadDropped, AsyncResponseArrived, AsyncTopic
<1>6. CASE End(prefs) \/ End(saved_prefs)
  BY <1>6 DEF End, ConversationsStopped
<1>7. QED
  BY <1>2, <1>3, <1>4, <1>5, <1>6 DEF Next

\* A topic gathers its payload or has a request in flight, never both and never
\* two: a periodic check leaves alone what is under way.
THEOREM OneRequestHolds == Spec => []OneRequestPerTopic
<1>1. Init => OneRequestPerTopic
  BY DEF Init, OneRequestPerTopic
<1>2. QED
  BY <1>1, OneRequestStep, TypeCorrect, PTL DEF Spec

\* The timer runs exactly while the browser runs with ad blocking enabled, and
\* with the browser everything ends.
TimerFollows ==
  /\ running => timer = enabled
  /\ ~ running => ~ timer /\ url_loader = {}

LEMMA TimerStep ==
  TypeOK /\ TimerFollows /\ NoPingWhileDisabled /\ [Next]_vars
    => TimerFollows' /\ NoPingWhileDisabled'
<1> SUFFICES ASSUME TypeOK, TimerFollows, NoPingWhileDisabled, [Next]_vars
             PROVE  TimerFollows' /\ NoPingWhileDisabled'
  OBVIOUS
<1> USE DEF TimerFollows, NoPingWhileDisabled
<1>1. CASE Start
  BY <1>1 DEF Start
<1>2. CASE RunPeriodicCheck
  BY <1>2 DEF RunPeriodicCheck, Rearmed, TypeOK
<1>3. CASE OnResponseArrived
  BY <1>3 DEF OnResponseArrived
<1>4. CASE OnEnabledStateChanged
  BY <1>4 DEF OnEnabledStateChanged, ConversationsStopped, TypeOK
<1>5. CASE \E x \in AsyncTopic :
             PayloadGathered(x) \/ PayloadDropped(x) \/ AsyncResponseArrived(x)
  BY <1>5 DEF PayloadGathered, PayloadDropped, AsyncResponseArrived, AsyncTopic
<1>6. CASE HandlePing \/ DayPasses \/ TimePasses \/ PrefsSaved \/ UNCHANGED vars
  BY <1>6 DEF HandlePing, DayPasses, TimePasses, PrefsSaved, vars, service_vars
<1>7. CASE End(prefs) \/ End(saved_prefs)
  BY <1>7 DEF End, ConversationsStopped
<1>8. QED
  BY <1>1, <1>2, <1>3, <1>4, <1>5, <1>6, <1>7 DEF Next

\* Disabling ends the request to the server, and nothing starts another.
THEOREM NoPingWhileDisabledHolds == Spec => []NoPingWhileDisabled
<1>1. Init => TimerFollows /\ NoPingWhileDisabled
  BY DEF Init, TimerFollows, NoPingWhileDisabled
<1>2. QED
  BY <1>1, TimerStep, TypeCorrect, PTL DEF Spec

-----------------------------------------------------------------------------
(* The chain of pings.                                                     *)

\* A payload made after fewer than `n` pings were handled, `h` in all, follows
\* one of them, or none.
Follows(h, p, n) ==
  IF p.after = 0 THEN p = NoPayload
  ELSE /\ p.after < n
       /\ p.last = h[p.after].token
       /\ p.previous = h[p.after].payload.last
       /\ p.first = IF h[p.after].payload.first = 0 THEN h[p.after].token
                    ELSE h[p.after].payload.first

\* The payloads that may still be handled, and with them those that were.
Pending == {prefs.payload, saved_prefs.payload, request.payload} \cup strays
Known == Pending \cup { handled[n].payload : n \in 1..Len(handled) }

\* What the server handled follows what it handled before; so does whatever is
\* pending; and the response under way is that to the ping that was just sent.
ChainInv ==
  /\ \A n \in 1..Len(handled) : Follows(handled, handled[n].payload, n)
  /\ \A p \in Pending : Follows(handled, p, Len(handled) + 1)
  /\ activeping \in url_loader => request.payload = prefs.payload
  /\ request.ping # 0 => handled[request.ping].payload = request.payload

\* Tags and the pings they were generated for correspond, and nobody has heard
\* of the response under way.
TagsInv ==
  /\ \A p, q \in Known : p.tag = q.tag <=> p.after = q.after
  /\ \A p \in Known : p.tag <= tags /\ (p.tag = 0 <=> p.after = 0)
  /\ request.ping # 0 => \A p \in Known : p.after < request.ping

\* The server's clock does not go back.
TokensInv ==
  /\ \A m, n \in 1..Len(handled) : m <= n => handled[m].token <= handled[n].token
  /\ \A n \in 1..Len(handled) : handled[n].token <= day

PingInv == TypeOK /\ RequestInv /\ ChainInv /\ TagsInv /\ TokensInv

LEMMA PendingType == TypeOK => Pending \subseteq Payload
BY DEF TypeOK, ActivepingTypeOK, PingPrefs, Pending

LEMMA KnownType == TypeOK => Known \subseteq Payload
BY PendingType, HandledType DEF Known

-----------------------------------------------------------------------------
(* What a step may do to the pings: nothing new, a response parsed, or a ping *)
(* handled.                                                                   *)

Quiet ==
  /\ UNCHANGED <<tags, handled>> /\ day <= day'
  /\ Pending' \subseteq Pending \cup {NoPayload}
  /\ request'.ping # 0 => UNCHANGED request
  /\ activeping \in url_loader' => request'.payload = prefs'.payload
  /\ running' => UNCHANGED prefs \/ prefs'.payload = prefs.payload

Answered ==
  /\ UNCHANGED <<handled, day>>
  /\ activeping \in url_loader /\ activeping \notin url_loader'
  /\ request.ping # 0 /\ request' = NoRequest
  /\ prefs'.payload = UpdatePrefs(prefs.payload, request.ping)
  /\ tags' = tags + 1
  /\ Pending' \subseteq Pending \cup {NoPayload, prefs'.payload}

Handled(q) ==
  /\ UNCHANGED <<tags, day, prefs, url_loader>>
  /\ handled' = Append(handled, [payload |-> q, token |-> day])
  /\ Pending' \subseteq Pending
  /\ request'.payload = request.payload
  /\ \/ UNCHANGED request
     \/ request'.ping = Len(handled) + 1 /\ q = request.payload

LEMMA StepShapes ==
  ASSUME PingInv, [Next]_vars
  PROVE  Quiet \/ Answered \/ \E q \in Pending : Handled(q)
<1> USE DEF PingInv
<1>0. /\ Abandoned \subseteq Pending
      /\ NoRequest.payload = NoPayload /\ NoRequest.ping = 0
      /\ day \in Nat
  BY DEF TypeOK, ActivepingTypeOK, Token, Abandoned, Pending, NoRequest
<1>1. CASE Start \/ UNCHANGED vars
  BY <1>0, <1>1 DEF Start, vars, activeping_vars, service_vars, ChainInv, Pending, Quiet
<1>2. CASE RunPeriodicCheck
  <2>1. PICK due \in SUBSET {t \in Topic : IsRequestDue(t)} : StartRequests(due)
    BY <1>2 DEF RunPeriodicCheck
  <2>2. UNCHANGED <<prefs, saved_prefs, tags, handled, day>>
    BY <1>2 DEF RunPeriodicCheck
  <2>3. CASE activeping \in due
    <3>1. /\ request'.payload = prefs.payload /\ request'.ping = 0
          /\ strays' = Abandoned
      BY <2>1, <2>3 DEF StartRequests
    <3>2. Pending' \subseteq Pending
      BY <1>0, <2>2, <3>1 DEF Pending
    <3>3. QED
      BY <1>0, <2>2, <3>1, <3>2 DEF Quiet
  <2>4. CASE activeping \notin due
    <3>1. UNCHANGED <<request, strays>>
          /\ (activeping \in url_loader' <=> activeping \in url_loader)
      BY <2>1, <2>4 DEF StartRequests
    <3>2. Pending' = Pending
      BY <2>2, <3>1 DEF Pending
    <3>3. QED
      BY <1>0, <2>2, <3>1, <3>2 DEF Quiet, ChainInv
  <2>5. QED
    BY <2>3, <2>4
<1>3. CASE OnResponseArrived
  <2>1. /\ UNCHANGED <<saved_prefs, handled, day>> /\ request' = NoRequest
        /\ strays' = Abandoned /\ activeping \in url_loader
        /\ activeping \notin url_loader'
    BY <1>3 DEF OnResponseArrived
  <2>2. Pending' \subseteq Pending \cup {NoPayload, prefs'.payload}
    BY <1>0, <2>1 DEF Pending
  <2>3. CASE request.ping # 0 /\ ParseResponse(request.ping)
    <3>1. prefs'.payload = UpdatePrefs(prefs.payload, request.ping) /\ tags' = tags + 1
      BY <2>3 DEF ParseResponse
    <3>2. QED
      BY <2>1, <2>2, <2>3, <3>1 DEF Answered
  <2>4. CASE ParseResponse(0)
    <3>1. prefs'.payload = prefs.payload /\ tags' = tags
      BY <2>4 DEF ParseResponse
    <3>2. Pending' \subseteq Pending \cup {NoPayload}
      BY <2>2, <3>1 DEF Pending
    <3>3. QED
      BY <1>0, <2>1, <3>1, <3>2 DEF Quiet
  <2>5. QED
    BY <1>3, <2>3, <2>4 DEF OnResponseArrived
<1>4. CASE OnEnabledStateChanged
  <2>1. UNCHANGED <<prefs, saved_prefs, tags, handled, day>>
    BY <1>4 DEF OnEnabledStateChanged
  <2>2. CASE UNCHANGED <<url_loader, request, strays>>
    <3>1. Pending' = Pending
      BY <2>1, <2>2 DEF Pending
    <3>2. QED
      BY <1>0, <2>1, <2>2, <3>1 DEF Quiet, ChainInv
  <2>3. CASE ConversationsStopped
    <3>1. Pending' \subseteq Pending \cup {NoPayload}
      BY <1>0, <2>1, <2>3 DEF Pending, ConversationsStopped
    <3>2. QED
      BY <1>0, <2>1, <2>3, <3>1 DEF Quiet, ConversationsStopped
  <2>4. QED
    BY <1>4, <2>2, <2>3 DEF OnEnabledStateChanged
<1>5. ASSUME NEW t \in AsyncTopic,
             PayloadGathered(t) \/ PayloadDropped(t) \/ AsyncResponseArrived(t)
      PROVE  Quiet
  <2>1. UNCHANGED activeping_vars /\ (activeping \in url_loader' <=> activeping \in url_loader)
    BY <1>5 DEF PayloadGathered, PayloadDropped, AsyncResponseArrived, AsyncTopic
  <2>2. UNCHANGED <<prefs, tags, handled, day, request>> /\ Pending' = Pending
    BY <2>1 DEF activeping_vars, Pending
  <2>3. QED
    BY <1>0, <2>1, <2>2 DEF Quiet, ChainInv
<1>6. CASE HandlePing
  <2>1. UNCHANGED <<prefs, saved_prefs, tags, day, url_loader>>
    BY <1>6 DEF HandlePing, service_vars
  <2>2. CASE /\ activeping \in url_loader /\ request.ping = 0
             /\ request' = [request EXCEPT !.ping = Len(handled) + 1]
             /\ handled' = Append(handled, [payload |-> request.payload, token |-> day])
             /\ UNCHANGED strays
    <3>1. request'.payload = request.payload /\ request'.ping = Len(handled) + 1
      BY <2>2 DEF TypeOK
    <3>2. Pending' = Pending /\ request.payload \in Pending
      BY <2>1, <2>2, <3>1 DEF Pending
    <3>3. Handled(request.payload)
      BY <2>1, <2>2, <3>1, <3>2 DEF Handled
    <3>4. QED
      BY <3>2, <3>3
  <2>3. CASE \E p \in strays :
               /\ handled' = Append(handled, [payload |-> p, token |-> day])
               /\ strays' = strays \ {p}
               /\ UNCHANGED request
    <3>1. PICK p \in strays :
               /\ handled' = Append(handled, [payload |-> p, token |-> day])
               /\ strays' = strays \ {p}
               /\ UNCHANGED request
      BY <2>3
    <3>2. Pending' \subseteq Pending /\ p \in Pending
      BY <2>1, <3>1 DEF Pending
    <3>3. Handled(p)
      BY <2>1, <3>1, <3>2 DEF Handled
    <3>4. QED
      BY <3>2, <3>3
  <2>4. QED
    BY <1>6, <2>2, <2>3 DEF HandlePing
<1>7. CASE TimePasses
  <2>1. /\ prefs'.payload = prefs.payload /\ saved_prefs'.payload = saved_prefs.payload
        /\ UNCHANGED <<tags, handled, day, request, strays, url_loader>>
    BY <1>7 DEF TimePasses, NextPingTimePasses, service_vars, TypeOK, ActivepingTypeOK, PingPrefs
  <2>2. Pending' = Pending
    BY <2>1 DEF Pending
  <2>3. QED
    BY <1>0, <2>1, <2>2 DEF Quiet, ChainInv
<1>8. CASE PrefsSaved
  <2>1. /\ saved_prefs' = prefs
        /\ UNCHANGED <<prefs, tags, handled, day, request, strays, url_loader>>
    BY <1>8 DEF PrefsSaved, SavePrefs, service_vars
  <2>2. Pending' \subseteq Pending
    BY <2>1 DEF Pending
  <2>3. QED
    BY <1>0, <2>1, <2>2 DEF Quiet, ChainInv
<1>9. CASE End(prefs) \/ End(saved_prefs)
  <2>1. /\ prefs' \in {prefs, saved_prefs} /\ saved_prefs' = prefs'
        /\ UNCHANGED <<tags, handled, day>> /\ ~ running'
        /\ ConversationsStopped
    BY <1>9 DEF End
  <2>2. Pending' \subseteq Pending \cup {NoPayload}
    BY <1>0, <2>1 DEF Pending, ConversationsStopped
  <2>3. QED
    BY <1>0, <2>1, <2>2 DEF Quiet, ConversationsStopped
<1>10. CASE DayPasses
  <2>1. /\ day <= day'
        /\ UNCHANGED <<prefs, saved_prefs, tags, handled, request, strays, url_loader>>
    BY <1>0, <1>10 DEF DayPasses, service_vars
  <2>2. Pending' = Pending
    BY <2>1 DEF Pending
  <2>3. QED
    BY <2>1, <2>2 DEF Quiet, ChainInv
<1>11. QED
  BY <1>1, <1>2, <1>3, <1>4, <1>5, <1>6, <1>7, <1>8, <1>9, <1>10 DEF Next

-----------------------------------------------------------------------------
(* The chain of pings.                                                     *)

LEMMA FollowsNothing == ASSUME NEW h, NEW n PROVE Follows(h, NoPayload, n)
BY DEF Follows, NoPayload

\* Handling another ping does not change what a payload follows.
LEMMA FollowsAppend ==
  ASSUME NEW h \in Seq(HandledPing), NEW q \in HandledPing, NEW p \in Payload,
         NEW n \in 1..(Len(h) + 1), NEW m \in Nat, n <= m, Follows(h, p, n)
  PROVE  Follows(Append(h, q), p, m)
<1>1. CASE p.after = 0
  BY <1>1 DEF Follows
<1>2. CASE p.after # 0
  <2>1. p.after \in 1..Len(h)
    <3>1. p.after \in Nat /\ Len(h) \in Nat
      BY DEF Payload, Ping
    <3>2. p.after < n /\ n <= Len(h) + 1 /\ n \in Nat
      BY <1>2, <3>1 DEF Follows
    <3>3. QED
      BY <1>2, <3>1, <3>2
  <2>2. Append(h, q)[p.after] = h[p.after]
    BY <2>1
  <2>3. p.after < m
    BY <1>2, <2>1 DEF Follows
  <2>4. QED
    BY <1>2, <2>2, <2>3 DEF Follows
<1>3. QED
  BY <1>1, <1>2

\* A client that is answered follows the ping it sent.
LEMMA FollowsAnswer ==
  ASSUME NEW p \in Payload, NEW n \in 1..Len(handled), handled[n].payload = p, TypeOK
  PROVE  Follows(handled, UpdatePrefs(p, n), Len(handled) + 1)
<1> DEFINE u == UpdatePrefs(p, n)
<1>1. /\ u.after = n /\ u.last = handled[n].token /\ u.previous = p.last
      /\ u.first = IF p.first = 0 THEN handled[n].token ELSE p.first
  BY DEF UpdatePrefs
<1>2. n # 0 /\ n < Len(handled) + 1
  BY HandledType
<1>3. QED
  BY <1>1, <1>2 DEF Follows

\* What appending a ping does to the ones before it.
LEMMA HandledAppend ==
  ASSUME TypeOK, NEW q \in Pending, Handled(q)
  PROVE  /\ q \in Payload /\ [payload |-> q, token |-> day] \in HandledPing
         /\ Len(handled') = Len(handled) + 1
         /\ handled'[Len(handled) + 1] = [payload |-> q, token |-> day]
         /\ \A n \in 1..Len(handled) : handled'[n] = handled[n]
<1>1. q \in Payload
  BY PendingType
<1>2. [payload |-> q, token |-> day] \in HandledPing
  BY <1>1 DEF TypeOK, ActivepingTypeOK, HandledPing
<1>3. QED
  BY <1>1, <1>2, HandledType DEF Handled

LEMMA ChainStep == PingInv /\ [Next]_vars => ChainInv'
<1> SUFFICES ASSUME PingInv, [Next]_vars PROVE ChainInv'
  OBVIOUS
<1>0. TypeOK /\ RequestInv /\ ChainInv
  BY DEF PingInv
<1>1. CASE Quiet
  <2>1. \A p \in Pending' : Follows(handled, p, Len(handled) + 1)
    BY <1>0, <1>1, FollowsNothing DEF Quiet, ChainInv
  <2>2. QED
    BY <1>0, <1>1, <2>1 DEF Quiet, ChainInv
<1>2. CASE Answered
  <2>1. Follows(handled, prefs'.payload, Len(handled) + 1)
    <3>1. request.ping \in 1..Len(handled) /\ handled[request.ping].payload = prefs.payload
      BY <1>0, <1>2 DEF Answered, RequestInv, ChainInv
    <3>2. prefs.payload \in Payload
      BY <1>0, PendingType DEF Pending
    <3>3. QED
      BY <1>0, <1>2, <3>1, <3>2, FollowsAnswer DEF Answered
  <2>2. \A p \in Pending' : Follows(handled, p, Len(handled) + 1)
    BY <1>0, <1>2, <2>1, FollowsNothing DEF Answered, ChainInv
  <2>3. request'.ping = 0
    BY <1>2 DEF Answered, NoRequest
  <2>4. QED
    BY <1>0, <1>2, <2>2, <2>3 DEF Answered, ChainInv
<1>3. ASSUME NEW q \in Pending, Handled(q) PROVE ChainInv'
  <2> DEFINE len == Len(handled)
             new == [payload |-> q, token |-> day]
  <2>1. /\ handled \in Seq(HandledPing) /\ len \in Nat
        /\ \A n \in 1..len : handled[n].payload \in Payload
    BY <1>0, HandledType
  <2>2. /\ q \in Payload /\ new \in HandledPing /\ new.payload = q
        /\ Len(handled') = len + 1 /\ handled'[len + 1] = new
        /\ \A n \in 1..len : handled'[n] = handled[n]
    BY <1>0, <1>3, HandledAppend
  <2>3. handled' = Append(handled, new) /\ Pending' \subseteq Pending
    BY <1>3 DEF Handled
  <2> HIDE DEF len, new
  <2>4. \A n \in 1..(len + 1) : Follows(handled', handled'[n].payload, n)
    <3> SUFFICES ASSUME NEW n \in 1..(len + 1) PROVE Follows(handled', handled'[n].payload, n)
      OBVIOUS
    <3>1. CASE n \in 1..len
      <4>1. Follows(handled, handled[n].payload, n) /\ handled[n].payload \in Payload
        BY <1>0, <2>1, <3>1 DEF ChainInv, len
      <4>2. n \in 1..(Len(handled) + 1) /\ n \in Nat /\ n <= n
        BY <2>1 DEF len
      <4>3. QED
        BY <2>1, <2>2, <2>3, <3>1, <4>1, <4>2, FollowsAppend
    <3>2. CASE n = len + 1
      <4>1. Follows(handled, q, Len(handled) + 1)
        BY <1>0 DEF ChainInv
      <4>2. n = Len(handled) + 1 /\ n \in 1..(Len(handled) + 1) /\ n \in Nat /\ n <= n
        BY <2>1, <3>2 DEF len
      <4>3. QED
        BY <2>1, <2>2, <2>3, <3>2, <4>1, <4>2, FollowsAppend
    <3>3. QED
      BY <2>1, <3>1, <3>2
  <2>5. \A p \in Pending' : Follows(handled', p, len + 2)
    <3> SUFFICES ASSUME NEW p \in Pending' PROVE Follows(handled', p, len + 2)
      OBVIOUS
    <3>1. p \in Payload /\ Follows(handled, p, Len(handled) + 1)
      BY <1>0, <2>3, PendingType DEF ChainInv
    <3>2. Len(handled) + 1 \in 1..(Len(handled) + 1) /\ len + 2 \in Nat
          /\ Len(handled) + 1 <= len + 2
      BY <2>1 DEF len
    <3>3. QED
      BY <2>1, <2>2, <2>3, <3>1, <3>2, FollowsAppend
  <2>6. request'.ping # 0 => handled'[request'.ping].payload = request'.payload
    <3>1. CASE UNCHANGED request
      BY <1>0, <2>2, <3>1 DEF ChainInv, RequestInv, len
    <3>2. CASE request'.ping = len + 1 /\ q = request.payload
      BY <1>3, <2>2, <3>2 DEF Handled
    <3>3. QED
      BY <1>3, <3>1, <3>2 DEF Handled, len
  <2>7. activeping \in url_loader' => request'.payload = prefs'.payload
    BY <1>0, <1>3 DEF Handled, ChainInv
  <2>8. Len(handled') = len + 1 /\ Len(handled') + 1 = len + 2
    BY <2>1, <2>2
  <2>9. QED
    BY <2>4, <2>5, <2>6, <2>7, <2>8 DEF ChainInv
<1>4. QED
  BY <1>1, <1>2, <1>3, StepShapes

-----------------------------------------------------------------------------
(* Tags.                                                                   *)

LEMMA KnownAppend ==
  ASSUME TypeOK, NEW q \in Pending, Handled(q)
  PROVE  Known' \subseteq Known
<1>0. /\ Len(handled) \in Nat /\ Len(handled') = Len(handled) + 1
      /\ handled'[Len(handled) + 1].payload = q
      /\ \A n \in 1..Len(handled) : handled'[n] = handled[n]
  <2>1. /\ Len(handled') = Len(handled) + 1
        /\ handled'[Len(handled) + 1] = [payload |-> q, token |-> day]
        /\ \A n \in 1..Len(handled) : handled'[n] = handled[n]
    BY HandledAppend
  <2>2. QED
    BY <2>1, HandledType
<1>1. \A n \in 1..Len(handled') : handled'[n].payload \in Known
  <2> SUFFICES ASSUME NEW n \in 1..Len(handled') PROVE handled'[n].payload \in Known
    OBVIOUS
  <2>1. n \in 1..Len(handled) \/ n = Len(handled) + 1
    BY <1>0
  <2>2. QED
    BY <1>0, <2>1 DEF Known
<1>2. Pending' \subseteq Known
  BY DEF Handled, Known
<1>3. QED
  BY <1>1, <1>2 DEF Known

LEMMA NoPayloadTag == NoPayload.tag = 0 /\ NoPayload.after = 0
BY DEF NoPayload

LEMMA TagsStep == PingInv /\ [Next]_vars => TagsInv'
<1> SUFFICES ASSUME PingInv, [Next]_vars PROVE TagsInv'
  OBVIOUS
<1>0. /\ TypeOK /\ RequestInv /\ ChainInv /\ TagsInv
      /\ tags \in Nat /\ Len(handled) \in Nat
      /\ \A p \in Known : p.tag \in Nat /\ p.after \in Nat /\ p.after <= Len(handled)
  <2>1. TypeOK /\ RequestInv /\ ChainInv /\ TagsInv
    BY DEF PingInv
  <2>2. tags \in Nat /\ Len(handled) \in Nat
    BY <2>1, HandledType DEF TypeOK, ActivepingTypeOK
  <2>3. \A p \in Known : p.tag \in Nat /\ p.after \in Nat
    BY <2>1, KnownType DEF Payload, Ping
  <2>4. ASSUME NEW p \in Known PROVE p.after <= Len(handled)
    <3>1. CASE p \in Pending
      BY <2>1, <2>2, <2>3, <3>1 DEF ChainInv, Follows
    <3>2. CASE p \notin Pending
      <4>1. PICK n \in 1..Len(handled) : p = handled[n].payload
        BY <3>2 DEF Known
      <4>2. p.after = 0 \/ p.after < n
        BY <2>1, <4>1 DEF ChainInv, Follows
      <4>3. QED
        BY <2>2, <2>3, <4>2
    <3>3. QED
      BY <3>1, <3>2
  <2>5. QED
    BY <2>1, <2>2, <2>3, <2>4
<1>1. CASE Quiet
  <2>1. Known' \subseteq Known \cup {NoPayload}
    BY <1>1 DEF Quiet, Known
  <2>2. \A p \in Known' : p.tag <= tags /\ (p.tag = 0 <=> p.after = 0)
    BY <1>0, <2>1, NoPayloadTag DEF TagsInv
  <2>3. \A p, q \in Known' : p.tag = q.tag <=> p.after = q.after
    BY <1>0, <2>1, NoPayloadTag DEF TagsInv
  <2>4. request'.ping # 0 => \A p \in Known' : p.after < request'.ping
    BY <1>0, <1>1, <2>1, NoPayloadTag DEF TagsInv, Quiet, RequestInv
  <2>5. QED
    BY <1>1, <2>2, <2>3, <2>4 DEF TagsInv, Quiet
<1>2. CASE Answered
  <2> DEFINE u == prefs'.payload
  <2>1. u.tag = tags + 1 /\ u.after = request.ping /\ request.ping \in Nat \ {0}
    BY <1>0, <1>2 DEF Answered, UpdatePrefs, RequestInv
  <2>2. Known' \subseteq Known \cup {NoPayload, u}
    BY <1>2 DEF Answered, Known
  <2>3. \A p \in Known \cup {NoPayload} : p.tag <= tags /\ p.after < request.ping
    BY <1>0, <1>2, <2>1, NoPayloadTag DEF TagsInv, Answered
  <2> HIDE DEF u
  <2>4. \A p \in Known' : p.tag <= tags + 1 /\ (p.tag = 0 <=> p.after = 0)
    BY <1>0, <2>1, <2>2, NoPayloadTag DEF TagsInv
  <2>5. \A p, q \in Known' : p.tag = q.tag <=> p.after = q.after
    <3>1. \A p, q \in Known \cup {NoPayload} : p.tag = q.tag <=> p.after = q.after
      BY <1>0, NoPayloadTag DEF TagsInv
    <3>2. \A p \in Known \cup {NoPayload} : p.tag # u.tag /\ p.after # u.after
      BY <1>0, <2>1, <2>3, NoPayloadTag
    <3>3. QED
      BY <2>2, <3>1, <3>2
  <2>6. request'.ping = 0
    BY <1>2 DEF Answered, NoRequest
  <2>7. QED
    BY <1>2, <2>4, <2>5, <2>6 DEF TagsInv, Answered
<1>3. ASSUME NEW q \in Pending, Handled(q) PROVE TagsInv'
  <2>1. Known' \subseteq Known
    BY <1>0, <1>3, KnownAppend
  <2>2. request'.ping # 0 => \A p \in Known' : p.after < request'.ping
    BY <1>0, <1>3, <2>1 DEF TagsInv, Handled
  <2>3. UNCHANGED tags
    BY <1>3 DEF Handled
  <2>4. QED
    BY <1>0, <2>1, <2>2, <2>3 DEF TagsInv
<1>4. QED
  BY <1>1, <1>2, <1>3, StepShapes

LEMMA TokensStep == PingInv /\ [Next]_vars => TokensInv'
<1> SUFFICES ASSUME PingInv, [Next]_vars PROVE TokensInv'
  OBVIOUS
<1>0. /\ TypeOK /\ TokensInv /\ day \in Nat /\ Len(handled) \in Nat
      /\ \A n \in 1..Len(handled) : handled[n].token \in Nat
  BY HandledType DEF PingInv, TypeOK, ActivepingTypeOK, Token
<1>1. CASE Quiet
  <2>1. UNCHANGED handled /\ day <= day' /\ day' \in Nat
    BY <1>0, <1>1, TypeStep DEF Quiet, PingInv, TypeOK, ActivepingTypeOK, Token
  <2>2. QED
    BY <1>0, <2>1 DEF TokensInv
<1>2. CASE Answered
  BY <1>0, <1>2 DEF Answered, TokensInv
<1>3. ASSUME NEW q \in Pending, Handled(q) PROVE TokensInv'
  <2> DEFINE len == Len(handled)
  <2>1. /\ Len(handled') = len + 1 /\ handled'[len + 1].token = day /\ UNCHANGED day
        /\ \A n \in 1..len : handled'[n] = handled[n]
    BY <1>0, <1>3, HandledAppend DEF Handled
  <2>2. len \in Nat /\ \A n \in 1..len : handled[n].token <= day
    BY <1>0 DEF TokensInv
  <2>3. \A n \in 1..(len + 1) : handled'[n].token <= day
    BY <1>0, <2>1, <2>2
  <2>4. \A m, n \in 1..(len + 1) : m <= n => handled'[m].token <= handled'[n].token
    <3> SUFFICES ASSUME NEW m \in 1..(len + 1), NEW n \in 1..(len + 1), m <= n
                 PROVE  handled'[m].token <= handled'[n].token
      OBVIOUS
    <3>1. CASE n = len + 1
      BY <2>1, <2>3, <3>1
    <3>2. CASE n # len + 1
      <4>1. m \in 1..len /\ n \in 1..len
        BY <2>2, <3>2
      <4>2. QED
        BY <1>0, <2>1, <4>1 DEF TokensInv
    <3>3. QED
      BY <3>1, <3>2
  <2>5. QED
    BY <2>1, <2>3, <2>4 DEF TokensInv
<1>4. QED
  BY <1>1, <1>2, <1>3, StepShapes

\* What is known of pings holds in every reachable state.
LEMMA PingsHold == Spec => []PingInv
<1>1. Init => ChainInv /\ TagsInv /\ TokensInv
  <2> SUFFICES ASSUME Init PROVE ChainInv /\ TagsInv /\ TokensInv
    OBVIOUS
  <2>1. Pending = {NoPayload} /\ Len(handled) = 0 /\ tags = 0
    BY DEF Init, ActivepingInit, Pending, NoRequest
  <2>2. request.ping = 0 /\ url_loader = {} /\ Known = {NoPayload}
    BY <2>1 DEF Init, NoRequest, Known
  <2>3. QED
    BY <2>1, <2>2, FollowsNothing, NoPayloadTag DEF ChainInv, TagsInv, TokensInv
<1>2. PingInv /\ [Next]_vars => PingInv'
  BY TypeStep, RequestStep, ChainStep, TagsStep, TokensStep DEF PingInv
<1>3. Init => TypeOK /\ RequestInv
  BY InitTypes
<1>4. Init => PingInv
  BY <1>1, <1>3 DEF PingInv
<1>5. QED
  BY <1>2, <1>4, PTL DEF Spec

\* The server can follow a client from ping to ping, whatever is lost, handled
\* late, or forgotten in a crash.
THEOREM PingsFormAChainHolds == Spec => []PingsFormAChain
<1>1. PingInv => PingsFormAChain
  BY DEF PingInv, ChainInv, Follows, PingsFormAChain
<1>2. QED
  BY <1>1, PingsHold, PTL

\* A ping has the tag of another exactly if the client sent both after the same
\* answer, whatever else was answered with the same token.
THEOREM TagsTellRetriesHolds == Spec => []TagsTellRetries
<1>1. PingInv => TagsTellRetries
  BY DEF PingInv, TagsInv, Known, TagsTellRetries
<1>2. QED
  BY <1>1, PingsHold, PTL

\* Only the end of a browser takes back what a client knows of its pings.
THEOREM ForgetsOnlyInCrashHolds == Spec => ForgetsOnlyInCrash
<1> DEFINE Kept == running' => /\ prefs'.payload.last >= prefs.payload.last
                               /\ prefs.payload.first # 0 =>
                                    prefs'.payload.first = prefs.payload.first
<1>1. PingInv /\ [Next]_vars => [Kept]_vars
  <2> SUFFICES ASSUME PingInv, [Next]_vars, running'
               PROVE  /\ prefs'.payload.last >= prefs.payload.last
                      /\ prefs.payload.first # 0 =>
                           prefs'.payload.first = prefs.payload.first
    OBVIOUS
  <2>0. /\ TypeOK /\ RequestInv /\ ChainInv /\ TagsInv /\ TokensInv
        /\ prefs.payload \in Payload /\ prefs.payload.last \in Nat
    BY PendingType DEF PingInv, Pending, Payload, Token
  <2>1. CASE Quiet
    BY <2>0, <2>1 DEF Quiet
  <2>2. CASE \E q \in Pending : Handled(q)
    BY <2>0, <2>2 DEF Handled
  <2>3. CASE Answered
    <3> DEFINE n == request.ping
               k == prefs.payload.after
    <3>1. /\ n \in 1..Len(handled) /\ k < n /\ Len(handled) \in Nat
          /\ \A m \in 1..Len(handled) : handled[m].token \in Nat
      BY <2>0, <2>3, HandledType DEF Answered, RequestInv, TagsInv, Known, Pending
    <3>2. /\ prefs'.payload.last = handled[n].token
          /\ prefs'.payload.first = IF prefs.payload.first = 0 THEN handled[n].token
                                    ELSE prefs.payload.first
      BY <2>3 DEF Answered, UpdatePrefs
    <3>3. Follows(handled, prefs.payload, Len(handled) + 1)
      BY <2>0 DEF ChainInv, Pending
    <3>4. CASE k = 0
      <4>1. prefs.payload.last = 0
        BY <3>3, <3>4 DEF Follows, NoPayload
      <4>2. QED
        BY <3>1, <3>2, <4>1
    <3>5. CASE k # 0
      <4>1. k \in 1..Len(handled) /\ k <= n
        BY <2>0, <3>1, <3>5 DEF Payload, Ping
      <4>2. prefs.payload.last = handled[k].token
        BY <3>3, <3>5 DEF Follows
      <4>3. handled[k].token <= handled[n].token
        BY <2>0, <3>1, <4>1 DEF TokensInv
      <4>4. handled[k].token \in Nat /\ handled[n].token \in Nat
        BY <3>1, <4>1
      <4>5. QED
        BY <3>2, <4>2, <4>3, <4>4
    <3>6. QED
      BY <3>4, <3>5
  <2>4. QED
    BY <2>1, <2>2, <2>3, StepShapes
<1>2. QED
  BY <1>1, PingsHold, PTL DEF Spec, ForgetsOnlyInCrash
=============================================================================
