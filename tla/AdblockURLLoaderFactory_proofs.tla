-------------------- MODULE AdblockURLLoaderFactory_proofs --------------------
(***************************************************************************)
(* Theorems about AdblockURLLoaderFactory, for any requests, addresses,    *)
(* rules and configurations: its types, that the client is told things in  *)
(* order, that what is blocked is counted, and that what happens to a      *)
(* request is what current rules say of its present address.               *)
(***************************************************************************)
EXTENDS AdblockURLLoaderFactory, TLAPS

(***************************************************************************)
(* Types.                                                                  *)
(***************************************************************************)

Purpose == {"rewrite", "request", "redirect", "response", "csp"}

RulesTypeOK == ServiceTypeOK /\ lists \in [Configuration -> SUBSET Item]

LEMMA SnapshotTyped == RulesTypeOK => CurrentRules \in Snapshot
BY DEF RulesTypeOK, ServiceTypeOK, CurrentRules, GetCurrentSnapshot, Snapshot

LEMMA NoCheckIsNone == NoCheck \notin Check
BY DEF NoCheck, Check

\* A check that begins is one.
LEMMA ChecksTyped ==
  ASSUME RulesTypeOK, NEW u \in Url, NEW purpose \in Purpose, NEW r
  PROVE  /\ Search(purpose, u) \in Check
         /\ \A verdict \in {"none", "block", "rewrite"} :
              Posted(purpose, u, verdict) \in Check
         /\ SearchIfHostValid(purpose, u) \in Check
         /\ CheckFilterMatch(r, purpose, u) \in Check
<1>1. Search(purpose, u) \in Check
  BY SnapshotTyped DEF Search, Check, Snapshot, Purpose
<1>2. \A verdict \in {"none", "block", "rewrite"} :
        Posted(purpose, u, verdict) \in Check
  BY DEF Posted, Check, Snapshot, Purpose
<1>3. QED
  BY <1>1, <1>2 DEF SearchIfHostValid, CheckFilterMatch

\* What a search for other things than policies finds.
LEMMA VerdictTyped ==
  ASSUME NEW k \in Check, k.purpose # "csp"
  PROVE  /\ Verdict(k) \in {"none", "block", "rewrite"}
         /\ Verdict(k) = "block" => k.purpose # "rewrite"
BY DEF Verdict, Check

LEMMA TypeInit == Init => TypeOK
<1> SUFFICES ASSUME Init PROVE TypeOK
  OBVIOUS
<1>1. ServiceTypeOK
  BY DEF Init, ServiceTypeOK, AppendToList, SetDefaultValuesIfNeeded, Settings
<1>2. request_url \in [Request -> Url]
  <2>1. (CHOOSE u \in Url : TRUE) \in Url
    BY RulesAssumption
  <2>2. QED
    BY <2>1 DEF Init
<1>3. QED
  BY <1>1, <1>2 DEF Init, TypeOK

\* The state of the requests, without that of the service.
RequestsTyped ==
  /\ requests \subseteq Request
  /\ request_url \in [Request -> Url]
  /\ documents \subseteq Request
  /\ check \in [Request -> Check \cup {NoCheck}]
  /\ net \in [Request -> {"none", "loading", "redirected", "responded",
                          "completed", "dropped", "reset"}]
  /\ client \in [Request -> {"absent", "waiting", "redirected", "responded",
                             "completed", "blocked", "gone"}]
  /\ loader_open \subseteq Request
  /\ blocked \in [Request -> Nat]

\* A removed request is one fewer, and its check may go on.
LEMMA RemovedTyped ==
  ASSUME TypeOK, NEW r \in Request, RemoveRequest(r)
  PROVE  /\ requests' \subseteq Request
         /\ check' \in [Request -> Check \cup {NoCheck}]
         /\ loader_open' \subseteq Request
BY DEF RemoveRequest, TypeOK

LEMMA OutcomeTyped ==
  ASSUME TypeOK, NEW r \in Request,
         \/ Block(r)
         \/ Load(r)
         \/ DropPipes(r) \/ GiveUp(r)
         \/ \E message \in {"redirected", "responded"} :
              /\ Tell(r, message)
              /\ net' \in {net, [net EXCEPT ![r] = "reset"], [net EXCEPT ![r] = "responded"]}
  PROVE  RequestsTyped'
BY RemovedTyped DEF Block, Load, DropPipes, GiveUp, Tell, TypeOK, RequestsTyped

\* The check of a request is replaced.
LEMMA CheckedTyped ==
  ASSUME TypeOK, NEW r \in Request, NEW k \in Check \cup {NoCheck},
         check' = [check EXCEPT ![r] = k],
         UNCHANGED <<requests, request_url, documents, net, client, loader_open>>,
         blocked' \in [Request -> Nat]
  PROVE  RequestsTyped'
BY DEF TypeOK, RequestsTyped

LEMMA SearchTyped ==
  ASSUME TypeOK, NEW r \in Request,
         \/ SearchEnds(r)
         \/ GetCspInjections(r)
         \/ OnCspInjectionsSearchFinished(r)
  PROVE  RequestsTyped'
<1> DEFINE k == check[r]
<1>1. k \in Check /\ RulesTypeOK
  BY DEF TypeOK, RulesTypeOK, SearchEnds, GetCspInjections, OnCspInjectionsSearchFinished
<1>2. k.url \in Url /\ k.purpose \in Purpose /\ "response" \in Purpose /\ "csp" \in Purpose
  BY <1>1 DEF Check, Purpose
<1>3. CASE SearchEnds(r)
  <2>1. Verdict(k) \in {"none", "block", "rewrite"}
    BY <1>1, <1>3, VerdictTyped DEF SearchEnds
  <2>2. /\ Search("csp", k.url) \in Check
        /\ Posted(k.purpose, k.url, Verdict(k)) \in Check
    BY <1>1, <1>2, <2>1, ChecksTyped
  <2>3. blocked' \in [Request -> Nat]
    BY <1>3 DEF SearchEnds, NotifyAdMatched, TypeOK
  <2>4. PICK new \in Check \cup {NoCheck} : check' = [check EXCEPT ![r] = new]
    BY <1>3, <2>2 DEF SearchEnds
  <2>5. QED
    BY <1>3, <2>3, <2>4, CheckedTyped DEF SearchEnds
<1>4. CASE GetCspInjections(r)
  <2> DEFINE new == [k EXCEPT !.stage = "found", !.snapshot = {},
                              !.found = Policies(k.snapshot, k.url)]
  <2>1. Policies(k.snapshot, k.url) \subseteq Item
    BY <1>1 DEF Policies, Check, Snapshot
  <2>2. new \in Check
    BY <1>1, <2>1 DEF Check, Snapshot
  <2>3. QED
    BY <1>4, <2>2, CheckedTyped DEF GetCspInjections, TypeOK
<1>5. CASE OnCspInjectionsSearchFinished(r)
  <2>1. Posted("response", k.url, "none") \in Check
    BY <1>1, <1>2, ChecksTyped
  <2>2. QED
    BY <1>5, <2>1, CheckedTyped DEF OnCspInjectionsSearchFinished, TypeOK
<1>6. QED
  BY <1>3, <1>4, <1>5

LEMMA PostedTyped ==
  ASSUME TypeOK, NEW r \in Request, PostedStep(r)
  PROVE  RequestsTyped'
<1>1. CASE Start(r)
  <2>1. CheckFilterMatch(r, "request", request_url[r]) \in Check
    BY ChecksTyped DEF TypeOK, RulesTypeOK, Purpose
  <2>2. CASE check' = [check EXCEPT ![r] = CheckFilterMatch(r, "request", request_url[r])]
             /\ UNCHANGED <<requests, request_url, documents, net, client, loader_open, blocked>>
    BY <2>1, <2>2, CheckedTyped DEF TypeOK
  <2>3. QED
    BY <1>1, <2>2, OutcomeTyped DEF Start
<1>2. CASE OnRequestFilterMatchResult(r)
  BY <1>2, OutcomeTyped DEF OnRequestFilterMatchResult
<1>3. CASE OnRedirectFilterMatchResult(r)
  BY <1>3, OutcomeTyped DEF OnRedirectFilterMatchResult
<1>4. CASE OnProcessHeadersResult(r)
  BY <1>4, OutcomeTyped DEF OnProcessHeadersResult
<1>5. QED
  BY <1>1, <1>2, <1>3, <1>4 DEF PostedStep

LEMMA NetworkTyped ==
  ASSUME TypeOK, NEW r \in Request, NetworkStep(r)
  PROVE  RequestsTyped'
<1>1. ASSUME NEW u \in Url, OnReceiveRedirect(r, u)
      PROVE  RequestsTyped'
  <2>1. CheckFilterMatch(r, "redirect", u) \in Check
    BY ChecksTyped DEF TypeOK, RulesTypeOK, Purpose
  <2>2. QED
    BY <1>1, <2>1 DEF OnReceiveRedirect, TypeOK, RequestsTyped
<1>2. CASE OnReceiveResponse(r)
  <2>1. SearchIfHostValid("response", request_url[r]) \in Check
    BY ChecksTyped DEF TypeOK, RulesTypeOK, Purpose
  <2>2. QED
    BY <1>2, <2>1, OutcomeTyped DEF OnReceiveResponse, TypeOK, RequestsTyped
<1>3. CASE OnComplete(r)
  BY <1>3, RemovedTyped DEF OnComplete, TypeOK, RequestsTyped
<1>4. QED
  BY <1>1, <1>2, <1>3 DEF NetworkStep

LEMMA ClientTyped ==
  ASSUME TypeOK, NEW r \in Request, ClientStep(r)
  PROVE  RequestsTyped'
<1>1. ASSUME NEW u \in Url, NEW is_document \in BOOLEAN,
             CreateLoaderAndStart(r, u, is_document)
      PROVE  RequestsTyped'
  <2>1. SearchIfHostValid("rewrite", u) \in Check
    BY ChecksTyped DEF TypeOK, RulesTypeOK, Purpose
  <2>2. QED
    BY <1>1, <2>1 DEF CreateLoaderAndStart, TypeOK, RequestsTyped
<1>2. CASE FollowRedirect(r)
  BY <1>2 DEF FollowRedirect, TypeOK, RequestsTyped
<1>3. CASE OnClientDisconnected(r) \/ LoaderDisconnected(r)
  BY <1>3, RemovedTyped
  DEF OnClientDisconnected, LoaderDisconnected, TypeOK, RequestsTyped
<1>4. QED
  BY <1>1, <1>2, <1>3 DEF ClientStep

\* The rest of the state.
LEMMA RulesTyped ==
  ASSUME TypeOK, RulesChange
  PROVE  TypeOK'
<1>1. ASSUME NEW c \in Configuration, MaintainerWorks(c)
      PROVE  RulesTypeOK'
  BY <1>1 DEF RulesTypeOK, ServiceTypeOK, MaintainerWorks, service_vars, TypeOK
<1>2. ASSUME NEW c \in Configuration, ConfigurationChanges(c)
      PROVE  RulesTypeOK'
  BY <1>2 DEF RulesTypeOK, ServiceTypeOK, ConfigurationChanges, ChangeEnabled, SetEnabled,
              Settings, MaintainedIfEnabled, TypeOK
<1>3. RulesTypeOK'
  BY <1>1, <1>2 DEF RulesChange
<1>4. CurrentRules' \in Snapshot
  BY <1>3 DEF RulesTypeOK, ServiceTypeOK, CurrentRules, GetCurrentSnapshot, Snapshot
<1>5. QED
  BY <1>3, <1>4 DEF RulesChange, RulesTypeOK, TypeOK, request_vars, factory_vars

LEMMA TypeNext == TypeOK /\ [Next]_vars => TypeOK'
<1> SUFFICES ASSUME TypeOK, [Next]_vars PROVE TypeOK'
  OBVIOUS
<1>1. ASSUME RequestsTyped', UNCHANGED <<rule_vars, factory_vars>>,
             seen' \in [Request -> SUBSET Snapshot]
      PROVE  TypeOK'
  BY <1>1 DEF RequestsTyped, TypeOK, ServiceTypeOK, rule_vars, service_vars, factory_vars
<1>2. CurrentRules \in Snapshot
  BY SnapshotTyped DEF TypeOK, RulesTypeOK
<1>3. ASSUME NEW r \in Request,
             \/ SearchEnds(r)
             \/ GetCspInjections(r)
             \/ OnCspInjectionsSearchFinished(r)
      PROVE  TypeOK'
  BY <1>1, <1>3, SearchTyped
  DEF SearchEnds, GetCspInjections, OnCspInjectionsSearchFinished, TypeOK
<1>4. ASSUME NEW r \in Request, PostedStep(r)
      PROVE  TypeOK'
  BY <1>1, <1>4, PostedTyped
  DEF PostedStep, Start, OnRequestFilterMatchResult, OnRedirectFilterMatchResult,
      OnProcessHeadersResult, TypeOK
<1>5. ASSUME NEW r \in Request, NetworkStep(r)
      PROVE  TypeOK'
  <2>1. UNCHANGED <<rule_vars, factory_vars>>
    BY <1>5 DEF NetworkStep, OnReceiveRedirect, OnReceiveResponse, OnComplete
  <2>2. seen' \in [Request -> SUBSET Snapshot]
    BY <1>2, <1>5 DEF NetworkStep, OnReceiveRedirect, OnReceiveResponse, OnComplete, TypeOK
  <2>3. QED
    BY <1>1, <1>5, <2>1, <2>2, NetworkTyped
<1>6. ASSUME NEW r \in Request, ClientStep(r)
      PROVE  TypeOK'
  <2>1. UNCHANGED <<rule_vars, factory_vars>>
    BY <1>6 DEF ClientStep, CreateLoaderAndStart, FollowRedirect,
                OnClientDisconnected, LoaderDisconnected
  <2>2. seen' \in [Request -> SUBSET Snapshot]
    BY <1>2, <1>6 DEF ClientStep, CreateLoaderAndStart, FollowRedirect,
                      OnClientDisconnected, LoaderDisconnected, TypeOK
  <2>3. QED
    BY <1>1, <1>6, <2>1, <2>2, ClientTyped
<1>7. CASE FrameDestroyed \/ OnTargetFactoryError \/ OnProxyBindingError \/ UNCHANGED vars
  BY <1>7
  DEF FrameDestroyed, OnTargetFactoryError, OnProxyBindingError, vars, TypeOK,
      ServiceTypeOK, rule_vars, service_vars, request_vars, factory_vars
<1>8. QED
  BY <1>3, <1>4, <1>5, <1>6, <1>7, RulesTyped DEF Next

\* The variables keep their types.
THEOREM TypeCorrect == Spec => []TypeOK
<1>1. QED
  BY TypeInit, TypeNext, PTL DEF Spec

(***************************************************************************)
(* How far a request is.  A check runs while the client and the network    *)
(* wait for it; a request that is removed keeps at most its search.        *)
(***************************************************************************)

\* Where the network is during a check.
NetDuring(purpose) ==
  CASE purpose \in {"rewrite", "request"} -> "none"
    [] purpose = "redirect" -> "redirected"
    [] purpose \in {"response", "csp"} -> "responded"

\* Client and network of a request with no check.
AtRest ==
  {<<"waiting", "none">>, <<"waiting", "redirected">>, <<"waiting", "loading">>,
   <<"waiting", "dropped">>,
   <<"redirected", "redirected">>, <<"redirected", "reset">>,
   <<"responded", "responded">>, <<"completed", "completed">>}

Phase(isOpen, isRequest, k, n, c) ==
  /\ isOpen => isRequest
  /\ c = "absent" => n = "none"
  /\ isRequest /\ k = NoCheck => <<c, n>> \in AtRest
  /\ isRequest /\ k # NoCheck => c = "waiting" /\ n = NetDuring(k.purpose)
  /\ ~ isRequest => c \in {"absent", "completed", "blocked", "gone"}
  /\ ~ isRequest /\ k # NoCheck => k.stage # "posted" /\ c = "gone"

PhaseOf(r) == Phase(r \in loader_open, r \in requests, check[r], net[r], client[r])

\* What was counted of a request that is blocked, and of one that is not yet.
Count(k, n, c, b, frame) ==
  /\ b \in {0, 1}
  /\ k # NoCheck /\ k.stage # "posted" => b = 0
  /\ k # NoCheck /\ k.stage = "posted" =>
       IF k.verdict = "block" THEN frame => b = 1 ELSE b = 0
  /\ b = 1 => c \in {"waiting", "gone", "blocked"}
  /\ b = 1 /\ c = "waiting" /\ k = NoCheck => n # "loading"
  /\ c = "blocked" /\ frame => b = 1

CountOf(r) == Count(check[r], net[r], client[r], blocked[r], host_valid)

\* What is searched, or was found, is about current rules and the present
\* address.
SearchIsCurrent(k, u, s, frame, isDocument) ==
  k # NoCheck =>
    /\ k.url = u
    /\ k.stage = "search" => k.snapshot \in s
    /\ k.purpose = "rewrite" => k.verdict # "block"
    /\ k.stage = "posted" /\ k.verdict = "block" =>
         \E x \in s : Blocks(x, Blocking, u) \/ Blocks(x, HeaderBlocking, u)
    /\ k.stage = "posted" /\ k.purpose \in {"request", "redirect"}
         /\ k.verdict # "block" /\ frame /\ ~ isDocument =>
         \E x \in s : ~ Blocks(x, Blocking, u)
    /\ \/ k.purpose = "csp"
       \/ k.stage = "posted" /\ k.purpose = "response" /\ k.verdict # "block"
       => (frame => \E x \in s : ~ Blocks(x, HeaderBlocking, u))
    /\ k.stage = "found" => k.purpose = "csp"
    /\ k.stage = "posted" => k.purpose # "csp"

OutcomeIsCurrent(n, c, u, s, frame, isDocument) ==
  LET passed == n = "loading" \/ (n = "redirected" /\ c = "redirected")
  IN  /\ c = "blocked" =>
           \E x \in s : Blocks(x, Blocking, u) \/ Blocks(x, HeaderBlocking, u)
      /\ passed /\ frame /\ ~ isDocument /\ u \notin Local =>
           \E x \in s : ~ Blocks(x, Blocking, u)
      /\ c = "responded" /\ frame /\ u \notin Local =>
           \E x \in s : ~ Blocks(x, HeaderBlocking, u)

CurrentOf(r) ==
  /\ SearchIsCurrent(check[r], request_url[r], seen[r], host_valid, r \in documents)
  /\ OutcomeIsCurrent(net[r], client[r], request_url[r], seen[r], host_valid,
                      r \in documents)

RequestInv(r) == PhaseOf(r) /\ CountOf(r) /\ CurrentOf(r)

\* A step of one request leaves the others alone.
Touches(r) ==
  /\ host_valid' = host_valid
  /\ \A q \in Request \ {r} :
       /\ q \in requests' <=> q \in requests
       /\ q \in loader_open' <=> q \in loader_open
       /\ q \in documents' <=> q \in documents
       /\ request_url'[q] = request_url[q]
       /\ check'[q] = check[q]
       /\ net'[q] = net[q]
       /\ client'[q] = client[q]
       /\ blocked'[q] = blocked[q]
       /\ seen'[q] = seen[q]

LEMMA OthersKept ==
  ASSUME NEW r \in Request, Touches(r), NEW q \in Request \ {r}, RequestInv(q)
  PROVE  RequestInv(q)'
<1>1. PhaseOf(q)'
  BY DEF Touches, RequestInv, PhaseOf
<1>2. CountOf(q)'
  BY DEF Touches, RequestInv, CountOf
<1>3. CurrentOf(q)'
  BY DEF Touches, RequestInv, CurrentOf
<1>4. QED
  BY <1>1, <1>2, <1>3 DEF RequestInv

LEMMA StepTouches ==
  ASSUME TypeOK, NEW r \in Request,
         \/ SearchEnds(r)
         \/ GetCspInjections(r)
         \/ OnCspInjectionsSearchFinished(r)
         \/ PostedStep(r)
         \/ NetworkStep(r)
         \/ ClientStep(r)
  PROVE  Touches(r)
<1> USE DEF Touches, TypeOK, factory_vars
<1>1. CASE SearchEnds(r)
  BY <1>1 DEF SearchEnds, NotifyAdMatched
<1>2. CASE GetCspInjections(r) \/ OnCspInjectionsSearchFinished(r)
  BY <1>2 DEF GetCspInjections, OnCspInjectionsSearchFinished
<1>3. CASE Start(r)
  BY <1>3 DEF Start, Tell, DropPipes, RemoveRequest, Load
<1>4. CASE OnRequestFilterMatchResult(r) \/ OnRedirectFilterMatchResult(r)
             \/ OnProcessHeadersResult(r)
  BY <1>4 DEF OnRequestFilterMatchResult, OnRedirectFilterMatchResult,
              OnProcessHeadersResult, Tell, DropPipes, GiveUp, Load, Block, RemoveRequest
<1>5. CASE NetworkStep(r)
  BY <1>5 DEF NetworkStep, OnReceiveRedirect, OnReceiveResponse, OnComplete,
              Tell, RemoveRequest
<1>6. CASE ClientStep(r)
  BY <1>6 DEF ClientStep, CreateLoaderAndStart, FollowRedirect,
              OnClientDisconnected, LoaderDisconnected, RemoveRequest
<1>7. QED
  BY <1>1, <1>2, <1>3, <1>4, <1>5, <1>6 DEF PostedStep

(***************************************************************************)
(* The outcomes of a check.                                                *)
(***************************************************************************)

\* A posted verdict belongs to a request that waits.
LEMMA PostedWaits ==
  ASSUME TypeOK, NEW r \in Request, RequestInv(r), NEW purpose, IsPosted(r, purpose)
  PROVE  /\ r \in requests /\ client[r] = "waiting" /\ net[r] = NetDuring(purpose)
         /\ check[r] \in Check /\ check[r] # NoCheck
         /\ check[r].stage = "posted" /\ check[r].purpose = purpose
BY DEF TypeOK, RequestInv, PhaseOf, Phase, IsPosted

LEMMA BlockKeeps ==
  ASSUME TypeOK, NEW r \in Request, RequestInv(r), NEW purpose, IsPosted(r, purpose),
         check[r].verdict = "block", Block(r), UNCHANGED <<factory_vars, seen>>
  PROVE  RequestInv(r)'
<1>1. /\ r \notin requests' /\ r \notin loader_open'
      /\ check'[r] = NoCheck /\ client'[r] = "blocked" /\ net'[r] = net[r]
      /\ blocked'[r] = blocked[r] /\ request_url'[r] = request_url[r]
      /\ documents' = documents /\ seen' = seen /\ host_valid' = host_valid
  BY PostedWaits DEF Block, RemoveRequest, TypeOK, factory_vars
<1>2. net[r] = NetDuring(purpose)
  BY PostedWaits
<1>3. PhaseOf(r)'
  BY <1>1 DEF PhaseOf, Phase
<1>4. CountOf(r)'
  BY <1>1, PostedWaits DEF CountOf, Count, RequestInv
<1>5. CurrentOf(r)'
  <2>1. SearchIsCurrent(check'[r], request_url'[r], seen'[r], host_valid', r \in documents')
    BY <1>1 DEF SearchIsCurrent
  <2>2. OutcomeIsCurrent(net'[r], client'[r], request_url'[r], seen'[r], host_valid',
                         r \in documents')
    <3>1. net[r] # "loading"
      BY <1>2, PostedWaits DEF NetDuring, Check
    <3>2. \E x \in seen[r] : \/ Blocks(x, Blocking, request_url[r])
                             \/ Blocks(x, HeaderBlocking, request_url[r])
      BY PostedWaits DEF RequestInv, CurrentOf, SearchIsCurrent
    <3>3. QED
      BY <1>1, <3>1, <3>2 DEF OutcomeIsCurrent
  <2>3. QED
    BY <2>1, <2>2 DEF CurrentOf
<1>6. QED
  BY <1>3, <1>4, <1>5 DEF RequestInv

\* The request is passed on: nothing blocks it.
LEMMA LoadKeeps ==
  ASSUME TypeOK, NEW r \in Request, RequestInv(r), NEW purpose, IsPosted(r, purpose),
         check[r].verdict # "block", Load(r), UNCHANGED <<factory_vars, seen>>,
         purpose = "request" \/ request_url[r] \in Local
  PROVE  RequestInv(r)'
<1>1. /\ requests' = requests /\ loader_open' = loader_open
      /\ check'[r] = NoCheck /\ client'[r] = "waiting" /\ net'[r] = "loading"
      /\ blocked'[r] = blocked[r] /\ request_url'[r] = request_url[r]
      /\ documents' = documents /\ seen' = seen /\ host_valid' = host_valid
  BY PostedWaits DEF Load, TypeOK, factory_vars
<1>2. PhaseOf(r)'
  BY <1>1, PostedWaits DEF PhaseOf, Phase, AtRest, RequestInv
<1>3. CountOf(r)'
  BY <1>1, PostedWaits DEF CountOf, Count, RequestInv
<1>4. CurrentOf(r)'
  <2>1. SearchIsCurrent(check'[r], request_url'[r], seen'[r], host_valid', r \in documents')
    BY <1>1 DEF SearchIsCurrent
  <2>2. OutcomeIsCurrent(net'[r], client'[r], request_url'[r], seen'[r], host_valid',
                         r \in documents')
    BY <1>1, PostedWaits DEF RequestInv, CurrentOf, SearchIsCurrent, OutcomeIsCurrent
  <2>3. QED
    BY <2>1, <2>2 DEF CurrentOf
<1>5. QED
  BY <1>2, <1>3, <1>4 DEF RequestInv

\* The request waits for ever: nothing can be passed on.
LEMMA GiveUpKeeps ==
  ASSUME TypeOK, NEW r \in Request, RequestInv(r), NEW purpose, IsPosted(r, purpose),
         purpose = "redirect", GiveUp(r), UNCHANGED <<factory_vars, seen>>
  PROVE  RequestInv(r)'
<1>1. /\ requests' = requests /\ loader_open' = loader_open
      /\ check'[r] = NoCheck /\ client'[r] = "waiting"
      /\ net'[r] = NetDuring(purpose)
      /\ blocked'[r] = blocked[r] /\ request_url'[r] = request_url[r]
      /\ documents' = documents /\ seen' = seen /\ host_valid' = host_valid
  BY PostedWaits DEF GiveUp, TypeOK, factory_vars
<1>2. net'[r] \in {"none", "redirected"}
  BY <1>1 DEF NetDuring
<1>3. PhaseOf(r)'
  BY <1>1, <1>2, PostedWaits DEF PhaseOf, Phase, AtRest, RequestInv
<1>4. CountOf(r)'
  BY <1>1, <1>2, PostedWaits DEF CountOf, Count, RequestInv
<1>5. CurrentOf(r)'
  BY <1>1, <1>2 DEF CurrentOf, SearchIsCurrent, OutcomeIsCurrent
<1>6. QED
  BY <1>3, <1>4, <1>5 DEF RequestInv

\* The client is told of a redirect, which nothing blocks, or that an item
\* rewrites the request.
LEMMA TellRedirectKeeps ==
  ASSUME TypeOK, NEW r \in Request, RequestInv(r), NEW purpose, IsPosted(r, purpose),
         check[r].verdict # "block", Tell(r, "redirected"),
         UNCHANGED <<factory_vars, seen>>,
         \/ purpose = "redirect" /\ net' = net
         \/ purpose = "rewrite" /\ net' = [net EXCEPT ![r] = "reset"]
  PROVE  RequestInv(r)'
<1>1. /\ requests' = requests /\ loader_open' = loader_open
      /\ check'[r] = NoCheck /\ client'[r] = "redirected"
      /\ \/ purpose = "redirect" /\ net'[r] = "redirected"
         \/ net'[r] = "reset"
      /\ blocked'[r] = blocked[r] /\ request_url'[r] = request_url[r]
      /\ documents' = documents /\ seen' = seen /\ host_valid' = host_valid
  BY PostedWaits DEF Tell, TypeOK, factory_vars, NetDuring
<1>2. PhaseOf(r)'
  BY <1>1, PostedWaits DEF PhaseOf, Phase, AtRest, RequestInv
<1>3. CountOf(r)'
  BY <1>1, PostedWaits DEF CountOf, Count, RequestInv
<1>4. CurrentOf(r)'
  <2>1. SearchIsCurrent(check'[r], request_url'[r], seen'[r], host_valid', r \in documents')
    BY <1>1 DEF SearchIsCurrent
  <2>2. OutcomeIsCurrent(net'[r], client'[r], request_url'[r], seen'[r], host_valid',
                         r \in documents')
    BY <1>1, PostedWaits DEF RequestInv, CurrentOf, SearchIsCurrent, OutcomeIsCurrent
  <2>3. QED
    BY <2>1, <2>2 DEF CurrentOf
<1>5. QED
  BY <1>2, <1>3, <1>4 DEF RequestInv

\* The response is handed over, which nothing blocks.
LEMMA TellResponseKeeps ==
  ASSUME TypeOK, NEW r \in Request, RequestInv(r), IsPosted(r, "response"),
         check[r].verdict # "block", Tell(r, "responded"),
         UNCHANGED <<factory_vars, seen, net>>
  PROVE  RequestInv(r)'
<1>1. /\ requests' = requests /\ loader_open' = loader_open
      /\ check'[r] = NoCheck /\ client'[r] = "responded"
      /\ net'[r] = "responded"
      /\ blocked'[r] = blocked[r] /\ request_url'[r] = request_url[r]
      /\ documents' = documents /\ seen' = seen /\ host_valid' = host_valid
  BY PostedWaits DEF Tell, TypeOK, factory_vars, NetDuring
<1>2. PhaseOf(r)'
  BY <1>1, PostedWaits DEF PhaseOf, Phase, AtRest, RequestInv
<1>3. CountOf(r)'
  BY <1>1, PostedWaits DEF CountOf, Count, RequestInv
<1>4. CurrentOf(r)'
  <2>1. SearchIsCurrent(check'[r], request_url'[r], seen'[r], host_valid', r \in documents')
    BY <1>1 DEF SearchIsCurrent
  <2>2. OutcomeIsCurrent(net'[r], client'[r], request_url'[r], seen'[r], host_valid',
                         r \in documents')
    BY <1>1, PostedWaits DEF RequestInv, CurrentOf, SearchIsCurrent, OutcomeIsCurrent
  <2>3. QED
    BY <2>1, <2>2 DEF CurrentOf
<1>5. QED
  BY <1>2, <1>3, <1>4 DEF RequestInv

(***************************************************************************)
(* Checks begin and end.                                                   *)
(***************************************************************************)

\* A request that has not been counted gets a new check of its address.
LEMMA NewCheckKeeps ==
  ASSUME TypeOK, NEW r \in Request, r \in requests', NEW purpose \in Purpose \ {"csp"},
         \/ check'[r] = SearchIfHostValid(purpose, request_url'[r])
         \/ check'[r] = CheckFilterMatch(r, purpose, request_url'[r])
              /\ (r \in documents' <=> r \in documents)
              /\ purpose # "response",
         client'[r] = "waiting", net'[r] = NetDuring(purpose), blocked'[r] = 0,
         CurrentRules \in seen'[r], host_valid' = host_valid
  PROVE  RequestInv(r)'
<1> DEFINE k == check'[r]
           searched == Search(purpose, request_url'[r])
           posted == Posted(purpose, request_url'[r], "none")
<1>1. /\ searched # NoCheck /\ posted # NoCheck
      /\ searched.purpose = purpose /\ searched.stage = "search"
      /\ searched.url = request_url'[r] /\ searched.snapshot = CurrentRules
      /\ searched.verdict = "none"
      /\ posted.purpose = purpose /\ posted.stage = "posted"
      /\ posted.url = request_url'[r] /\ posted.verdict = "none"
  BY DEF Search, Posted, NoCheck, Purpose
<1>2. \/ k = searched
      \/ /\ k = posted
         /\ ~ host_valid \/ (r \in documents' /\ purpose # "response")
  <2>1. SearchIfHostValid(purpose, request_url'[r])
          = IF host_valid THEN searched ELSE posted
    BY DEF SearchIfHostValid
  <2>2. CheckFilterMatch(r, purpose, request_url'[r])
          = IF r \in documents THEN posted
            ELSE SearchIfHostValid(purpose, request_url'[r])
    BY DEF CheckFilterMatch
  <2> HIDE DEF searched, posted
  <2>3. QED
    BY <2>1, <2>2
<1> HIDE DEF searched, posted
<1>3. PhaseOf(r)'
  BY <1>1, <1>2 DEF PhaseOf, Phase
<1>4. CountOf(r)'
  BY <1>1, <1>2 DEF CountOf, Count
<1>5. CurrentOf(r)'
  <2>1. SearchIsCurrent(check'[r], request_url'[r], seen'[r], host_valid', r \in documents')
    BY <1>1, <1>2 DEF SearchIsCurrent
  <2>2. net'[r] # "loading"
    BY DEF NetDuring, Purpose
  <2>3. OutcomeIsCurrent(net'[r], client'[r], request_url'[r], seen'[r], host_valid',
                         r \in documents')
    BY <2>2 DEF OutcomeIsCurrent
  <2>4. QED
    BY <2>1, <2>3 DEF CurrentOf
<1>6. QED
  BY <1>3, <1>4, <1>5 DEF RequestInv

\* What is current now counts as current since the address is known.
SeenInv == \A r \in requests : CurrentRules \in seen[r]

\* A search ends: its verdict is counted and posted, unless the request is
\* gone or policies are to be searched for.
LEMMA SearchEndsKeeps ==
  ASSUME TypeOK, SeenInv, NEW r \in Request, RequestInv(r), SearchEnds(r)
  PROVE  RequestInv(r)'
<1> DEFINE k == check[r]
           verdict == Verdict(k)
           csp == Search("csp", k.url)
           posted == Posted(k.purpose, k.url, verdict)
           counted == verdict = "block" /\ host_valid
<1>1. /\ k \in Check /\ k # NoCheck /\ k.stage = "search" /\ k.purpose # "csp"
      /\ check'[r] = IF r \notin requests THEN NoCheck
                     ELSE IF k.purpose = "response" /\ verdict # "block" /\ host_valid
                     THEN csp ELSE posted
      /\ blocked'[r] = IF counted THEN blocked[r] + 1 ELSE blocked[r]
      /\ requests' = requests /\ loader_open' = loader_open
      /\ net' = net /\ client' = client
      /\ request_url' = request_url /\ documents' = documents /\ seen' = seen
      /\ host_valid' = host_valid
  BY DEF SearchEnds, NotifyAdMatched, TypeOK, factory_vars
<1>2. /\ k.url = request_url[r] /\ k.snapshot \in seen[r]
      /\ blocked[r] = 0
  BY <1>1 DEF RequestInv, CurrentOf, SearchIsCurrent, CountOf, Count
<1>3. /\ verdict \in {"none", "block", "rewrite"}
      /\ k.purpose = "rewrite" => verdict # "block"
      /\ verdict = "block" => \/ Blocks(k.snapshot, Blocking, k.url)
                              \/ Blocks(k.snapshot, HeaderBlocking, k.url)
      /\ k.purpose \in {"request", "redirect"} /\ verdict # "block"
           => ~ Blocks(k.snapshot, Blocking, k.url)
      /\ k.purpose = "response" /\ verdict # "block"
           => ~ Blocks(k.snapshot, HeaderBlocking, k.url)
  BY <1>1 DEF Verdict, Check
<1>4. /\ csp # NoCheck /\ posted # NoCheck
      /\ csp.purpose = "csp" /\ csp.stage = "search" /\ csp.url = k.url
      /\ csp.snapshot = CurrentRules /\ csp.verdict = "none"
      /\ posted.purpose = k.purpose /\ posted.stage = "posted"
      /\ posted.url = k.url /\ posted.verdict = verdict
  BY <1>1 DEF Search, Posted, NoCheck, Check
<1>5. r \in requests => CurrentRules \in seen[r]
  BY DEF SeenInv
<1> HIDE DEF csp, posted, verdict
<1>6. PhaseOf(r)'
  <2>1. PhaseOf(r)
    BY DEF RequestInv
  <2>2. NetDuring("csp") = NetDuring("response")
    BY DEF NetDuring
  <2>3. QED
    BY <1>1, <1>4, <2>1, <2>2 DEF PhaseOf, Phase
<1>7. CountOf(r)'
  <2>1. CountOf(r) /\ PhaseOf(r)
    BY DEF RequestInv
  <2>2. client[r] \in {"waiting", "gone"}
    BY <1>1, <2>1 DEF PhaseOf, Phase
  <2>3. blocked'[r] = IF counted THEN 1 ELSE 0
    BY <1>1, <1>2
  <2>4. r \notin requests => client[r] = "gone"
    BY <1>1, <2>1 DEF PhaseOf, Phase
  <2>5. QED
    BY <1>1, <1>4, <2>2, <2>3, <2>4 DEF CountOf, Count
<1>8. CurrentOf(r)'
  <2>1. SearchIsCurrent(check'[r], request_url'[r], seen'[r], host_valid', r \in documents')
    BY <1>1, <1>2, <1>3, <1>4, <1>5 DEF SearchIsCurrent
  <2>2. OutcomeIsCurrent(net'[r], client'[r], request_url'[r], seen'[r], host_valid',
                         r \in documents')
    BY <1>1 DEF RequestInv, CurrentOf
  <2>3. QED
    BY <2>1, <2>2 DEF CurrentOf
<1>9. QED
  BY <1>6, <1>7, <1>8 DEF RequestInv

LEMMA CspKeeps ==
  ASSUME TypeOK, NEW r \in Request, RequestInv(r),
         GetCspInjections(r) \/ OnCspInjectionsSearchFinished(r)
  PROVE  RequestInv(r)'
<1> DEFINE k == check[r]
<1>1. /\ k \in Check /\ k # NoCheck /\ k.purpose = "csp" /\ k.stage # "posted"
      /\ requests' = requests /\ loader_open' = loader_open
      /\ net' = net /\ client' = client /\ blocked' = blocked
      /\ request_url' = request_url /\ documents' = documents /\ seen' = seen
      /\ host_valid' = host_valid
  <2>1. k # NoCheck /\ k \in Check
    BY DEF GetCspInjections, OnCspInjectionsSearchFinished, TypeOK
  <2>2. k.purpose = "csp"
    BY <2>1 DEF GetCspInjections, OnCspInjectionsSearchFinished, RequestInv,
                CurrentOf, SearchIsCurrent
  <2>3. QED
    BY <2>1, <2>2 DEF GetCspInjections, OnCspInjectionsSearchFinished, factory_vars
<1>2. /\ k.url = request_url[r] /\ blocked[r] = 0
      /\ host_valid => \E x \in seen[r] : ~ Blocks(x, HeaderBlocking, request_url[r])
  BY <1>1 DEF RequestInv, CurrentOf, SearchIsCurrent, CountOf, Count
<1>3. \/ check'[r] = NoCheck /\ r \notin requests
      \/ /\ check'[r] # NoCheck /\ check'[r].url = k.url
         /\ \/ check'[r].purpose = "csp" /\ check'[r].stage = "found"
            \/ /\ check'[r].purpose = "response" /\ check'[r].stage = "posted"
               /\ check'[r].verdict # "block" /\ r \in requests
  <2>1. CASE GetCspInjections(r)
    <3> DEFINE new == [k EXCEPT !.stage = "found", !.snapshot = {},
                                !.found = Policies(k.snapshot, k.url)]
    <3>1. check'[r] = new
      BY <2>1 DEF GetCspInjections, TypeOK
    <3>2. new.purpose = "csp" /\ new.stage = "found" /\ new.url = k.url
      BY <1>1 DEF Check
    <3>3. new # NoCheck
      BY <3>2 DEF NoCheck
    <3>4. QED
      BY <3>1, <3>2, <3>3
  <2>2. CASE OnCspInjectionsSearchFinished(r)
    <3> DEFINE new == Posted("response", k.url, "none")
    <3>1. check'[r] = IF r \in requests THEN new ELSE NoCheck
      BY <2>2 DEF OnCspInjectionsSearchFinished, TypeOK
    <3>2. /\ new.purpose = "response" /\ new.stage = "posted" /\ new.url = k.url
          /\ new.verdict = "none" /\ new # NoCheck
      BY DEF Posted, NoCheck
    <3>3. QED
      BY <3>1, <3>2
  <2>3. QED
    BY <2>1, <2>2
<1>4. PhaseOf(r)'
  <2>1. NetDuring("csp") = NetDuring("response")
    BY DEF NetDuring
  <2>2. QED
    BY <1>1, <1>3, <2>1 DEF RequestInv, PhaseOf, Phase
<1>5. CountOf(r)'
  BY <1>1, <1>2, <1>3 DEF RequestInv, CountOf, Count
<1>6. CurrentOf(r)'
  <2>1. SearchIsCurrent(check'[r], request_url'[r], seen'[r], host_valid', r \in documents')
    BY <1>1, <1>2, <1>3 DEF SearchIsCurrent
  <2>2. QED
    BY <1>1, <2>1 DEF RequestInv, CurrentOf
<1>7. QED
  BY <1>4, <1>5, <1>6 DEF RequestInv

(***************************************************************************)
(* The other steps of a request.                                           *)
(***************************************************************************)

\* The request is removed after the client has been told so, or has gone.
LEMMA RemoveKeeps ==
  ASSUME TypeOK, NEW r \in Request, RequestInv(r), r \in requests, RemoveRequest(r),
         UNCHANGED <<request_url, documents, blocked, seen, host_valid>>,
         \/ client'[r] = "gone" /\ net'[r] \in {net[r], "dropped"}
         \/ client'[r] = "completed" /\ net'[r] = "completed"
              /\ check[r] = NoCheck /\ blocked[r] = 0
  PROVE  RequestInv(r)'
<1> DEFINE k == check[r]
<1>1. /\ r \notin requests' /\ r \notin loader_open'
      /\ \/ check'[r] = NoCheck
         \/ check'[r] = k /\ k # NoCheck /\ k.stage # "posted"
  BY DEF RemoveRequest, TypeOK
<1>2. PhaseOf(r)'
  BY <1>1 DEF PhaseOf, Phase
<1>3. CountOf(r)'
  BY <1>1 DEF RequestInv, CountOf, Count
<1>4. CurrentOf(r)'
  <2>1. SearchIsCurrent(check'[r], request_url'[r], seen'[r], host_valid', r \in documents')
    BY <1>1 DEF RequestInv, CurrentOf, SearchIsCurrent
  <2>2. OutcomeIsCurrent(net'[r], client'[r], request_url'[r], seen'[r], host_valid',
                         r \in documents')
    BY DEF RequestInv, CurrentOf, OutcomeIsCurrent
  <2>3. QED
    BY <2>1, <2>2 DEF CurrentOf
<1>5. QED
  BY <1>2, <1>3, <1>4 DEF RequestInv

\* The pipes of the request are dropped: it waits for ever, or is removed.
LEMMA DropPipesKeeps ==
  ASSUME TypeOK, NEW r \in Request, RequestInv(r), NEW purpose, IsPosted(r, purpose),
         purpose \in {"rewrite", "request"},
         DropPipes(r), UNCHANGED <<factory_vars, seen>>
  PROVE  RequestInv(r)'
<1>1. /\ r \in requests /\ net'[r] = "dropped"
      /\ UNCHANGED <<request_url, documents, blocked, seen, host_valid>>
  BY PostedWaits DEF DropPipes, TypeOK, factory_vars
<1>2. CASE r \in loader_open
  <2>1. /\ requests' = requests /\ loader_open' = loader_open
        /\ check'[r] = NoCheck /\ client'[r] = "waiting"
    BY <1>2, PostedWaits DEF DropPipes, TypeOK
  <2>2. PhaseOf(r)'
    BY <1>1, <2>1 DEF PhaseOf, Phase, AtRest
  <2>3. CountOf(r)'
    BY <1>1, <2>1, PostedWaits DEF CountOf, Count, RequestInv
  <2>4. CurrentOf(r)'
    BY <1>1, <2>1 DEF CurrentOf, SearchIsCurrent, OutcomeIsCurrent
  <2>5. QED
    BY <2>2, <2>3, <2>4 DEF RequestInv
<1>3. CASE r \notin loader_open
  <2>1. RemoveRequest(r) /\ client'[r] = "gone"
    BY <1>3 DEF DropPipes, TypeOK
  <2>2. QED
    BY <1>1, <2>1, RemoveKeeps
<1>4. QED
  BY <1>2, <1>3

LEMMA PostedStepKeeps ==
  ASSUME TypeOK, SeenInv, NEW r \in Request, RequestInv(r), PostedStep(r)
  PROVE  RequestInv(r)'
<1>1. CASE Start(r)
  <2>1. /\ IsPosted(r, "rewrite") /\ UNCHANGED <<factory_vars, seen>>
        /\ r \in requests
    BY <1>1, PostedWaits DEF Start
  <2>2. check[r].verdict # "block"
    BY <2>1, PostedWaits DEF RequestInv, CurrentOf, SearchIsCurrent
  <2>3. CASE net' = [net EXCEPT ![r] = "reset"] /\ Tell(r, "redirected")
    BY <2>1, <2>2, <2>3, TellRedirectKeeps
  <2>4. CASE DropPipes(r)
    BY <2>1, <2>2, <2>4, DropPipesKeeps
  <2>5. CASE request_url[r] \in Local /\ Load(r)
    BY <2>1, <2>2, <2>5, LoadKeeps
  <2>6. CASE /\ check' = [check EXCEPT ![r] = CheckFilterMatch(r, "request", request_url[r])]
             /\ UNCHANGED <<requests, request_url, documents, net, client, loader_open, blocked>>
    <3>1. /\ client[r] = "waiting" /\ net[r] = NetDuring("request")
          /\ blocked[r] = 0
      BY <2>1, <2>2, PostedWaits DEF NetDuring, RequestInv, CountOf, Count
    <3>2. check'[r] = CheckFilterMatch(r, "request", request_url'[r])
      BY <2>6 DEF TypeOK
    <3>3. "request" \in Purpose \ {"csp"} /\ CurrentRules \in seen[r]
      BY <2>1 DEF Purpose, SeenInv
    <3>4. QED
      BY <2>1, <2>6, <3>1, <3>2, <3>3, NewCheckKeeps DEF factory_vars
  <2>7. QED
    BY <1>1, <2>3, <2>4, <2>5, <2>6 DEF Start
<1>2. CASE OnRequestFilterMatchResult(r)
  BY <1>2, DropPipesKeeps, BlockKeeps, LoadKeeps DEF OnRequestFilterMatchResult
<1>3. CASE OnRedirectFilterMatchResult(r)
  BY <1>3, GiveUpKeeps, BlockKeeps, TellRedirectKeeps DEF OnRedirectFilterMatchResult
<1>4. CASE OnProcessHeadersResult(r)
  BY <1>4, BlockKeeps, TellResponseKeeps DEF OnProcessHeadersResult
<1>5. QED
  BY <1>1, <1>2, <1>3, <1>4 DEF PostedStep

LEMMA NetworkStepKeeps ==
  ASSUME TypeOK, SeenInv, NEW r \in Request, RequestInv(r), NetworkStep(r)
  PROVE  RequestInv(r)'
<1>1. ASSUME r \in requests, net[r] = "loading"
      PROVE  check[r] = NoCheck /\ client[r] = "waiting" /\ blocked[r] = 0
  BY <1>1 DEF RequestInv, PhaseOf, Phase, AtRest, NetDuring, CountOf, Count, TypeOK, Check
<1>2. ASSUME NEW u \in Url, OnReceiveRedirect(r, u)
      PROVE  RequestInv(r)'
  <2>1. /\ r \in requests' /\ request_url'[r] = u
        /\ check'[r] = CheckFilterMatch(r, "redirect", u)
        /\ documents' = documents /\ client'[r] = "waiting" /\ blocked'[r] = 0
        /\ net'[r] = NetDuring("redirect") /\ CurrentRules \in seen'[r]
        /\ host_valid' = host_valid
    BY <1>1, <1>2 DEF OnReceiveRedirect, TypeOK, NetDuring, factory_vars
  <2>2. "redirect" \in Purpose \ {"csp"}
    BY DEF Purpose
  <2>3. QED
    BY <2>1, <2>2, NewCheckKeeps
<1>3. CASE OnReceiveResponse(r)
  <2>1. /\ r \in requests /\ requests' = requests /\ loader_open' = loader_open
        /\ request_url' = request_url /\ documents' = documents
        /\ blocked' = blocked /\ seen' = seen /\ host_valid' = host_valid
        /\ net'[r] = "responded"
    BY <1>3 DEF OnReceiveResponse, Tell, TypeOK, factory_vars
  <2>2. client[r] = "waiting" /\ blocked[r] = 0
    BY <1>1, <1>3 DEF OnReceiveResponse
  <2>3. CASE request_url[r] \in Local
    <3>1. check'[r] = NoCheck /\ client'[r] = "responded"
      BY <1>3, <2>3 DEF OnReceiveResponse, Tell, TypeOK
    <3>2. PhaseOf(r)'
      BY <2>1, <3>1 DEF RequestInv, PhaseOf, Phase, AtRest
    <3>3. CountOf(r)'
      BY <2>1, <2>2, <3>1 DEF CountOf, Count
    <3>4. CurrentOf(r)'
      BY <2>1, <2>3, <3>1 DEF CurrentOf, SearchIsCurrent, OutcomeIsCurrent
    <3>5. QED
      BY <3>2, <3>3, <3>4 DEF RequestInv
  <2>4. CASE request_url[r] \notin Local
    <3>1. /\ check'[r] = SearchIfHostValid("response", request_url'[r])
          /\ client' = client
      BY <1>3, <2>1, <2>4 DEF OnReceiveResponse, TypeOK
    <3>2. /\ "response" \in Purpose \ {"csp"} /\ CurrentRules \in seen[r]
          /\ NetDuring("response") = "responded"
      BY <2>1 DEF Purpose, SeenInv, NetDuring
    <3>3. QED
      BY <2>1, <2>2, <3>1, <3>2, NewCheckKeeps
  <2>5. QED
    BY <2>3, <2>4
<1>4. CASE OnComplete(r)
  <2>1. /\ r \in requests /\ check[r] = NoCheck /\ client[r] \in {"waiting", "responded"}
        /\ blocked[r] = 0
    BY <1>4 DEF OnComplete, RequestInv, PhaseOf, Phase, AtRest, CountOf, Count
  <2>2. /\ client'[r] = "completed" /\ net'[r] = "completed"
        /\ UNCHANGED <<request_url, documents, blocked, seen, host_valid>>
    BY <1>4 DEF OnComplete, TypeOK, factory_vars
  <2>3. CASE r \in loader_open
    <3>1. UNCHANGED <<requests, check, loader_open>>
      BY <1>4, <2>3 DEF OnComplete
    <3>2. PhaseOf(r)'
      BY <2>1, <2>2, <3>1 DEF PhaseOf, Phase, AtRest
    <3>3. CountOf(r)'
      BY <2>1, <2>2, <3>1 DEF CountOf, Count
    <3>4. CurrentOf(r)'
      BY <2>1, <2>2, <3>1 DEF CurrentOf, SearchIsCurrent, OutcomeIsCurrent
    <3>5. QED
      BY <3>2, <3>3, <3>4 DEF RequestInv
  <2>4. CASE r \notin loader_open
    BY <1>4, <2>1, <2>2, <2>4, RemoveKeeps DEF OnComplete
  <2>5. QED
    BY <2>3, <2>4
<1>5. QED
  BY <1>2, <1>3, <1>4 DEF NetworkStep

LEMMA ClientStepKeeps ==
  ASSUME TypeOK, NEW r \in Request, RequestInv(r), ClientStep(r)
  PROVE  RequestInv(r)'
<1>1. ASSUME NEW u \in Url, NEW is_document \in BOOLEAN,
             CreateLoaderAndStart(r, u, is_document)
      PROVE  RequestInv(r)'
  <2>1. net[r] = "none" /\ blocked[r] = 0
    BY <1>1 DEF CreateLoaderAndStart, RequestInv, PhaseOf, Phase, CountOf, Count
  <2>2. /\ r \in requests' /\ request_url'[r] = u
        /\ check'[r] = SearchIfHostValid("rewrite", u)
        /\ client'[r] = "waiting" /\ blocked'[r] = 0
        /\ net'[r] = NetDuring("rewrite") /\ CurrentRules \in seen'[r]
        /\ host_valid' = host_valid
    BY <1>1, <2>1 DEF CreateLoaderAndStart, TypeOK, NetDuring, factory_vars
  <2>3. "rewrite" \in Purpose \ {"csp"}
    BY DEF Purpose
  <2>4. QED
    BY <2>2, <2>3, NewCheckKeeps
<1>2. CASE FollowRedirect(r)
  <2>1. /\ r \in requests /\ requests' = requests /\ loader_open' = loader_open
        /\ client[r] = "redirected" /\ net[r] = "redirected" /\ check[r] = NoCheck
        /\ client'[r] = "waiting" /\ net'[r] = "loading" /\ check' = check
        /\ UNCHANGED <<request_url, documents, blocked, seen, host_valid>>
    BY <1>2 DEF FollowRedirect, RequestInv, PhaseOf, Phase, TypeOK, factory_vars
  <2>2. PhaseOf(r)'
    BY <2>1 DEF RequestInv, PhaseOf, Phase, AtRest
  <2>3. CountOf(r)'
    BY <2>1 DEF RequestInv, CountOf, Count
  <2>4. CurrentOf(r)'
    BY <2>1 DEF RequestInv, CurrentOf, SearchIsCurrent, OutcomeIsCurrent
  <2>5. QED
    BY <2>2, <2>3, <2>4 DEF RequestInv
<1>3. CASE OnClientDisconnected(r)
  <2>1. client'[r] = "gone" /\ net' = net
    BY <1>3 DEF OnClientDisconnected, TypeOK
  <2>2. QED
    BY <1>3, <2>1, RemoveKeeps DEF OnClientDisconnected, factory_vars
<1>4. CASE LoaderDisconnected(r)
  <2>1. /\ r \in requests /\ net' = net
        /\ UNCHANGED <<request_url, documents, blocked, seen, host_valid>>
    BY <1>4 DEF LoaderDisconnected, RequestInv, PhaseOf, Phase, factory_vars
  <2>2. CASE net[r] = "completed"
    <3>1. client[r] = "completed" /\ check[r] = NoCheck
      BY <2>1, <2>2 DEF RequestInv, PhaseOf, Phase, AtRest, NetDuring, TypeOK, Check
    <3>2. blocked[r] = 0 /\ client'[r] = "completed"
      BY <1>4, <2>2, <3>1 DEF LoaderDisconnected, RequestInv, CountOf, Count, TypeOK
    <3>3. QED
      BY <1>4, <2>1, <2>2, <3>1, <3>2, RemoveKeeps DEF LoaderDisconnected
  <2>3. CASE net[r] = "dropped"
    <3>1. client'[r] = "gone"
      BY <1>4, <2>3 DEF LoaderDisconnected, TypeOK
    <3>2. QED
      BY <1>4, <2>1, <2>3, <3>1, RemoveKeeps DEF LoaderDisconnected
  <2>4. CASE net[r] \notin {"completed", "dropped"}
    <3>1. /\ loader_open' = loader_open \ {r} /\ UNCHANGED <<requests, check>>
          /\ client' = client
      BY <1>4, <2>4 DEF LoaderDisconnected, TypeOK
    <3>2. PhaseOf(r)'
      BY <2>1, <3>1 DEF RequestInv, PhaseOf, Phase
    <3>3. CountOf(r)' /\ CurrentOf(r)'
      BY <2>1, <3>1 DEF RequestInv, CountOf, CurrentOf
    <3>4. QED
      BY <3>2, <3>3 DEF RequestInv
  <2>5. QED
    BY <2>2, <2>3, <2>4
<1>5. QED
  BY <1>1, <1>2, <1>3, <1>4 DEF ClientStep

(***************************************************************************)
(* The steps of others.                                                    *)
(***************************************************************************)

\* Rules change: what was current stays so, and what is current is seen.
LEMMA RulesChangeKeeps ==
  ASSUME TypeOK, RulesChange, NEW r \in Request, RequestInv(r)
  PROVE  RequestInv(r)'
<1>1. /\ seen[r] \subseteq seen'[r]
      /\ UNCHANGED <<request_vars, host_valid>>
  BY DEF RulesChange, TypeOK, factory_vars
<1>2. UNCHANGED <<requests, request_url, documents, check, net, client, loader_open,
                  blocked, host_valid>>
  BY <1>1 DEF request_vars
<1>3. PhaseOf(r)' /\ CountOf(r)'
  BY <1>2 DEF RequestInv, PhaseOf, CountOf
<1>4. CurrentOf(r)'
  BY <1>1, <1>2 DEF RequestInv, CurrentOf, SearchIsCurrent, OutcomeIsCurrent
<1>5. QED
  BY <1>3, <1>4 DEF RequestInv

LEMMA FactoryStepKeeps ==
  ASSUME TypeOK, NEW r \in Request, RequestInv(r),
         \/ FrameDestroyed
         \/ OnTargetFactoryError
         \/ OnProxyBindingError
         \/ UNCHANGED vars
  PROVE  RequestInv(r)'
<1>1. /\ UNCHANGED <<requests, request_url, documents, check, net, client, loader_open,
                     blocked, seen>>
      /\ host_valid' => host_valid
  BY DEF FrameDestroyed, OnTargetFactoryError, OnProxyBindingError, vars,
         request_vars, factory_vars
<1>2. PhaseOf(r)'
  BY <1>1 DEF RequestInv, PhaseOf
<1>3. CountOf(r)'
  BY <1>1 DEF RequestInv, CountOf, Count
<1>4. CurrentOf(r)'
  BY <1>1 DEF RequestInv, CurrentOf, SearchIsCurrent, OutcomeIsCurrent
<1>5. QED
  BY <1>2, <1>3, <1>4 DEF RequestInv

LEMMA SeenNext == TypeOK /\ SeenInv /\ [Next]_vars => SeenInv'
<1> SUFFICES ASSUME TypeOK, SeenInv, [Next]_vars PROVE SeenInv'
  OBVIOUS
<1>1. rule_vars' = rule_vars => CurrentRules' = CurrentRules
  BY DEF rule_vars, service_vars, CurrentRules, GetCurrentSnapshot
<1>2. ASSUME requests' \subseteq requests, seen' = seen, rule_vars' = rule_vars
      PROVE  SeenInv'
  BY <1>1, <1>2 DEF SeenInv
<1>3. ASSUME NEW r \in Request, requests' \subseteq requests \cup {r},
             seen' = [seen EXCEPT ![r] = {CurrentRules}],
             rule_vars' = rule_vars
      PROVE  SeenInv'
  BY <1>1, <1>3 DEF SeenInv, TypeOK
<1>4. ASSUME NEW r \in Request,
             \/ SearchEnds(r)
             \/ GetCspInjections(r)
             \/ OnCspInjectionsSearchFinished(r)
             \/ PostedStep(r)
             \/ OnReceiveResponse(r)
             \/ OnComplete(r)
             \/ FollowRedirect(r)
             \/ OnClientDisconnected(r)
             \/ LoaderDisconnected(r)
      PROVE  SeenInv'
  <2>1. seen' = seen /\ rule_vars' = rule_vars
    BY <1>4 DEF SearchEnds, GetCspInjections, OnCspInjectionsSearchFinished,
       PostedStep, Start, OnRequestFilterMatchResult, OnRedirectFilterMatchResult,
       OnProcessHeadersResult, OnReceiveResponse, OnComplete, FollowRedirect,
       OnClientDisconnected, LoaderDisconnected
  <2>2. requests' \subseteq requests
    BY <1>4 DEF SearchEnds, GetCspInjections, OnCspInjectionsSearchFinished,
       PostedStep, Start, OnRequestFilterMatchResult, OnRedirectFilterMatchResult,
       OnProcessHeadersResult, OnReceiveResponse, OnComplete, FollowRedirect,
       OnClientDisconnected, LoaderDisconnected, Tell, DropPipes, GiveUp, Load, Block,
       RemoveRequest
  <2>3. QED
    BY <1>2, <2>1, <2>2
<1>5. ASSUME NEW r \in Request, NEW u \in Url,
             \/ OnReceiveRedirect(r, u)
             \/ \E is_document \in BOOLEAN : CreateLoaderAndStart(r, u, is_document)
      PROVE  SeenInv'
  BY <1>3, <1>5 DEF OnReceiveRedirect, CreateLoaderAndStart
<1>6. CASE RulesChange
  BY <1>6 DEF RulesChange, SeenInv, TypeOK, request_vars
<1>7. CASE FrameDestroyed \/ OnTargetFactoryError \/ OnProxyBindingError \/ UNCHANGED vars
  BY <1>2, <1>7 DEF FrameDestroyed, OnTargetFactoryError, OnProxyBindingError, vars,
                    request_vars, rule_vars, service_vars
<1>8. QED
  BY <1>4, <1>5, <1>6, <1>7 DEF Next, NetworkStep, ClientStep

(***************************************************************************)
(* The invariant and what follows from it.                                 *)
(***************************************************************************)

RequestsInv == SeenInv /\ \A r \in Request : RequestInv(r)

LEMMA RequestsInit == Init => RequestsInv
<1> SUFFICES ASSUME Init PROVE RequestsInv
  OBVIOUS
<1>1. ASSUME NEW r \in Request PROVE RequestInv(r)
  BY DEF Init, RequestInv, PhaseOf, Phase, CountOf, Count, CurrentOf,
         SearchIsCurrent, OutcomeIsCurrent
<1>2. QED
  BY <1>1 DEF Init, SeenInv, RequestsInv

LEMMA RequestsNext == TypeOK /\ RequestsInv /\ [Next]_vars => RequestsInv'
<1> SUFFICES ASSUME TypeOK, RequestsInv, [Next]_vars PROVE RequestsInv'
  OBVIOUS
<1> USE DEF RequestsInv
<1>1. ASSUME NEW r \in Request,
             \/ SearchEnds(r)
             \/ GetCspInjections(r)
             \/ OnCspInjectionsSearchFinished(r)
             \/ PostedStep(r)
             \/ NetworkStep(r)
             \/ ClientStep(r)
      PROVE  \A q \in Request : RequestInv(q)'
  <2>1. RequestInv(r)'
    BY <1>1, SearchEndsKeeps, CspKeeps, PostedStepKeeps, NetworkStepKeeps,
       ClientStepKeeps
  <2>2. Touches(r)
    BY <1>1, StepTouches
  <2>3. ASSUME NEW q \in Request \ {r} PROVE RequestInv(q)'
    BY <2>2, OthersKept
  <2>4. QED
    BY <2>1, <2>3
<1>2. CASE \/ RulesChange \/ FrameDestroyed \/ OnTargetFactoryError
           \/ OnProxyBindingError \/ UNCHANGED vars
  BY <1>2, RulesChangeKeeps, FactoryStepKeeps, SeenNext
<1>3. QED
  BY <1>1, <1>2, SeenNext DEF Next

LEMMA RequestsHold == Spec => [](TypeOK /\ RequestsInv)
<1>1. QED
  BY TypeCorrect, RequestsInit, RequestsNext, PTL DEF Spec

\* What happens to a request is what rules that were in force since its
\* address is known say of that address.
THEOREM VerdictIsCurrentHolds == Spec => []VerdictIsCurrent
<1>1. RequestsInv => VerdictIsCurrent
  BY DEF RequestsInv, RequestInv, CurrentOf, OutcomeIsCurrent, VerdictIsCurrent
<1>2. QED
  BY <1>1, RequestsHold, PTL

\* What the client is told is blocked was counted, once, and nothing else is
\* handed over after it was.
THEOREM BlockedIsCountedHolds == Spec => []BlockedIsCounted
<1>1. RequestsInv => BlockedIsCounted
  <2> SUFFICES ASSUME RequestsInv, NEW r \in Request
               PROVE  /\ blocked[r] <= 1
                      /\ client[r] = "blocked" /\ host_valid => blocked[r] = 1
                      /\ blocked[r] = 1 => client[r] # "responded"
    BY DEF BlockedIsCounted
  <2>1. CountOf(r)
    BY DEF RequestsInv, RequestInv
  <2>2. QED
    BY <2>1 DEF CountOf, Count
<1>2. QED
  BY <1>1, RequestsHold, PTL

\* The client is told at most one response, no redirect after it, and nothing
\* once the request ended.
THEOREM ToldInOrderHolds == Spec => ToldInOrder
<1> DEFINE Order ==
      {<<"absent", "waiting">>, <<"redirected", "waiting">>}
        \cup {"waiting"} \X {"redirected", "responded", "completed", "blocked", "gone"}
        \cup {"redirected", "responded", "completed"} \X {"gone"}
        \cup {<<"responded", "completed">>}
    Told(r) == client'[r] # client[r] => <<client[r], client'[r]>> \in Order
<1>1. ASSUME TypeOK, NEW r \in Request, RequestInv(r), PostedStep(r)
      PROVE  Told(r)
  <2>1. PICK purpose : IsPosted(r, purpose)
    BY <1>1 DEF PostedStep, Start, OnRequestFilterMatchResult,
       OnRedirectFilterMatchResult, OnProcessHeadersResult
  <2>2. client[r] = "waiting"
    BY <1>1, <2>1, PostedWaits
  <2>3. client' = client \/ client'[r] \in {"redirected", "responded", "blocked", "gone"}
    BY <1>1 DEF PostedStep, Start, OnRequestFilterMatchResult,
       OnRedirectFilterMatchResult, OnProcessHeadersResult, Tell, DropPipes, GiveUp, Load,
       Block, TypeOK
  <2>4. QED
    BY <2>2, <2>3
<1>2. ASSUME TypeOK, NEW r \in Request, RequestInv(r), NetworkStep(r)
      PROVE  Told(r)
  <2>1. ASSUME r \in requests, net[r] = "loading" \/ check[r] = NoCheck,
               net[r] \in {"loading", "responded"}
        PROVE  client[r] = "waiting" \/ (client[r] = "responded" /\ net[r] = "responded")
    BY <1>2, <2>1 DEF RequestInv, PhaseOf, Phase, AtRest
  <2>2. client' = client \/ client'[r] \in {"responded", "completed"}
    BY <1>2 DEF NetworkStep, OnReceiveRedirect, OnReceiveResponse, OnComplete, Tell, TypeOK
  <2>3. client' # client =>
          /\ r \in requests /\ net[r] \in {"loading", "responded"}
          /\ net[r] = "loading" \/ check[r] = NoCheck
          /\ net[r] = "responded" => client'[r] = "completed"
    BY <1>2 DEF NetworkStep, OnReceiveRedirect, OnReceiveResponse, OnComplete, TypeOK
  <2>4. QED
    BY <2>1, <2>2, <2>3
<1>3. ASSUME TypeOK, NEW r \in Request, RequestInv(r), ClientStep(r)
      PROVE  Told(r)
  <2>1. ASSUME r \in requests
        PROVE  client[r] \in {"waiting", "redirected", "responded", "completed"}
    BY <1>3, <2>1 DEF RequestInv, PhaseOf, Phase, AtRest
  <2>2. ASSUME NEW u \in Url, NEW is_document \in BOOLEAN,
               CreateLoaderAndStart(r, u, is_document)
        PROVE  Told(r)
    BY <1>3, <2>2 DEF CreateLoaderAndStart, TypeOK
  <2>3. FollowRedirect(r) => Told(r)
    BY <1>3 DEF FollowRedirect, TypeOK
  <2>4. OnClientDisconnected(r) => Told(r)
    BY <1>3, <2>1 DEF OnClientDisconnected, TypeOK
  <2>5. LoaderDisconnected(r) => Told(r)
    <3>1. SUFFICES ASSUME LoaderDisconnected(r), net[r] = "dropped"
                   PROVE  client[r] = "waiting" /\ client'[r] = "gone"
      BY DEF LoaderDisconnected, TypeOK
    <3>2. r \in requests
      BY <1>3, <3>1 DEF LoaderDisconnected, RequestInv, PhaseOf, Phase
    <3>3. client'[r] = "gone"
      BY <1>3, <3>1 DEF LoaderDisconnected, TypeOK
    <3>4. client[r] = "waiting"
      BY <1>3, <3>1, <3>2 DEF RequestInv, PhaseOf, Phase, AtRest, NetDuring, TypeOK, Check
    <3>5. QED
      BY <3>3, <3>4
  <2>6. QED
    BY <1>3, <2>2, <2>3, <2>4, <2>5 DEF ClientStep
<1>4. TypeOK /\ RequestsInv /\ [Next]_vars =>
        [\A r \in Request : Told(r)]_vars
  <2> SUFFICES ASSUME TypeOK, RequestsInv, [Next]_vars, NEW q \in Request
               PROVE  Told(q)
    OBVIOUS
  <2> HIDE DEF Told
  <2>1. RequestInv(q)
    BY DEF RequestsInv
  <2>2. client'[q] = client[q] => Told(q)
    BY DEF Told
  <2>3. ASSUME NEW r \in Request,
               \/ SearchEnds(r)
               \/ GetCspInjections(r)
               \/ OnCspInjectionsSearchFinished(r)
        PROVE  Told(q)
    BY <2>2, <2>3 DEF SearchEnds, GetCspInjections, OnCspInjectionsSearchFinished
  <2>4. ASSUME NEW r \in Request, PostedStep(r) \/ NetworkStep(r) \/ ClientStep(r)
        PROVE  Told(q)
    <3>1. CASE q = r
      BY <1>1, <1>2, <1>3, <2>1, <2>4, <3>1
    <3>2. CASE q # r
      BY <2>2, <2>4, <3>2, StepTouches DEF Touches
    <3>3. QED
      BY <3>1, <3>2
  <2>5. CASE \/ RulesChange \/ FrameDestroyed \/ OnTargetFactoryError
             \/ OnProxyBindingError \/ UNCHANGED vars
    BY <2>2, <2>5 DEF RulesChange, FrameDestroyed, OnTargetFactoryError,
       OnProxyBindingError, vars, request_vars
  <2>6. QED
    BY <2>3, <2>4, <2>5 DEF Next
<1>5. QED
  BY <1>4, RequestsHold, PTL DEF Spec, ToldInOrder
=============================================================================
