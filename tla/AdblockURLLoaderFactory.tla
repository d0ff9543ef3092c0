----------------------- MODULE AdblockURLLoaderFactory -----------------------
(***************************************************************************)
(* The requests of a frame on their way through AdblockURLLoaderFactory.   *)
(* A request stands between its client (the renderer) and the network; it  *)
(* is rewritten, blocked or passed on as ResourceClassificationRunner says,*)
(* redirects and responses likewise, and a response may be given content   *)
(* security policies by ContentSecurityPolicyInjector.  Each such check    *)
(* takes a snapshot of the rules, searches it in the thread pool, comes    *)
(* back to the main sequence, and is posted once more before it takes      *)
(* effect.  Meanwhile lists come into force and leave it, the frame or the *)
(* client may go away, and so may the factory of the network.              *)
(***************************************************************************)
EXTENDS SubscriptionService, Naturals, FiniteSets

CONSTANTS
  Request,      \* requests
  Url,          \* where they go
  Local,        \* of these, localhost and other schemes: never checked
  RedirectsTo,  \* where the network may redirect each
  Blocking,     \* URLs the items block,
  Allowing,     \* allow,
  HeaderBlocking,  \* block because of the headers of the response,
  Rewriting,    \* rewrite,
  Csp           \* and have a content security policy for

ASSUME RulesAssumption ==
  /\ Url # {}
  /\ Local \subseteq Url
  /\ RedirectsTo \in [Url -> SUBSET Url]
  /\ {Blocking, Allowing, HeaderBlocking, Rewriting, Csp}
       \subseteq [Item -> SUBSET Url]

VARIABLES
  lists,         \* the items each maintainer has installed
  requests,      \* requests_: those not removed
  request_url,   \* request_url_, of every request ever made
  documents,     \* requests with is_document_request_
  check,         \* what runs for a request: see Check
  net,           \* how far the network is with a request
  client,        \* what the client was told last
  loader_open,   \* requests whose loader_receiver_ is connected
  blocked,       \* how often SessionStats counted a request as blocked
  host_valid,    \* the frame exists
  target_bound,  \* target_factory_ is bound
  proxies,       \* proxy_receivers_ is not empty
  seen           \* history: the snapshots since the URL is known

rule_vars == <<service_vars, lists>>
request_vars == <<requests, request_url, documents, check, net, client,
                  loader_open, blocked>>
factory_vars == <<host_valid, target_bound, proxies>>
vars == <<rule_vars, request_vars, factory_vars, seen>>

Snapshot == SUBSET SUBSET Item

\* A check is searching a snapshot; the policies of `found` items are on their
\* way to the main sequence; or its verdict is posted.
Check ==
  [purpose : {"rewrite", "request", "redirect", "response", "csp"},
   stage : {"search", "found", "posted"}, url : Url, snapshot : Snapshot,
   verdict : {"none", "block", "rewrite"}, found : SUBSET Item]
NoCheck == [purpose |-> "none"]

TypeOK ==
  /\ ServiceTypeOK
  /\ lists \in [Configuration -> SUBSET Item]
  /\ requests \subseteq Request
  /\ request_url \in [Request -> Url]
  /\ documents \subseteq Request
  /\ check \in [Request -> Check \cup {NoCheck}]
  /\ net \in [Request -> {"none", "loading", "redirected", "responded",
                          "completed", "dropped", "reset"}]
  /\ client \in [Request -> {"absent", "waiting", "redirected", "responded",
                             "completed", "blocked", "gone"}]
  /\ loader_open \subseteq Request
  /\ blocked \in [Request -> Nat]
  /\ {host_valid, target_bound, proxies} \subseteq BOOLEAN
  /\ seen \in [Request -> SUBSET Snapshot]

Init ==
  /\ installed = Configuration
  /\ settings = [c \in Configuration |->
       AppendToList(SetDefaultValuesIfNeeded, Item)]
  /\ maintainers = Configuration
  /\ lists = [c \in Configuration |-> Item]
  /\ requests = {}
  /\ request_url = [r \in Request |-> CHOOSE u \in Url : TRUE]
  /\ documents = {}
  /\ check = [r \in Request |-> NoCheck]
  /\ net = [r \in Request |-> "none"]
  /\ client = [r \in Request |-> "absent"]
  /\ loader_open = {}
  /\ blocked = [r \in Request |-> 0]
  /\ host_valid = TRUE
  /\ target_bound = TRUE
  /\ proxies = TRUE
  /\ seen = [r \in Request |-> {}]

-----------------------------------------------------------------------------
(* What the rules say (the details are in ResourceClassifier).             *)

\* A snapshot of the service, with what is in its collections.
CurrentRules == { lists[c] : c \in GetCurrentSnapshot }

Has(collection, rules, u) == \E i \in collection : u \in rules[i]

\* Whether a collection of the snapshot blocks `u` by such rules.
Blocks(snapshot, rules, u) ==
  \E c \in snapshot : Has(c, rules, u) /\ ~ Has(c, Allowing, u)

Verdict(k) ==
  CASE k.purpose = "rewrite" ->
         IF \E c \in k.snapshot : Has(c, Rewriting, k.url) THEN "rewrite" ELSE "none"
    [] k.purpose \in {"request", "redirect"} ->
         IF Blocks(k.snapshot, Blocking, k.url) THEN "block" ELSE "none"
    [] k.purpose = "response" ->
         IF Blocks(k.snapshot, HeaderBlocking, k.url) THEN "block" ELSE "none"

\* The policies the items of a snapshot have for `u`.
Policies(snapshot, u) == {i \in UNION snapshot : u \in Csp[i]}

-----------------------------------------------------------------------------
(* Checks.                                                                 *)

Search(purpose, u) ==
  [purpose |-> purpose, stage |-> "search", url |-> u,
   snapshot |-> CurrentRules, verdict |-> "none", found |-> {}]

Posted(purpose, u, verdict) ==
  [purpose |-> purpose, stage |-> "posted", url |-> u,
   snapshot |-> {}, verdict |-> verdict, found |-> {}]

\* Faulty: without a frame nothing is posted.
Unanswered(purpose, u) == IF host_valid THEN Search(purpose, u) ELSE NoCheck

\* CheckRewriteFilterMatch, ProcessResponseHeaders: without a frame there is
\* nothing to search for.
SearchIfHostValid(purpose, u) ==
  IF host_valid THEN Search(purpose, u) ELSE Posted(purpose, u, "none")

\* Faulty: a redirect is checked before its URL replaces the former one.
CheckFormerUrl(r, purpose, u) == SearchIfHostValid(purpose, request_url[r])

\* A document is never blocked; that its page may be allowed is only counted.
CheckFilterMatch(r, purpose, u) ==
  IF r \in documents THEN Posted(purpose, u, "none") ELSE SearchIfHostValid(purpose, u)

\* Faulty: what is blocked because of its response is not counted.
CountedBeforeResponse(r) ==
  blocked' = [blocked EXCEPT ![r] =
    IF Verdict(check[r]) = "block" /\ check[r].purpose # "response" /\ host_valid
    THEN @ + 1 ELSE @]

\* NotifyAdMatched, whether or not the request still exists.
NotifyAdMatched(r) ==
  blocked' = [blocked EXCEPT ![r] =
    IF Verdict(check[r]) = "block" /\ host_valid THEN @ + 1 ELSE @]

\* The search has ended: PostRewriteCallbackToUI, OnRequestUrlClassified or
\* OnResponseHeadersClassified, and OnCheckResourceFilterMatchComplete.
SearchEnds(r) ==
  LET k == check[r]
      verdict == Verdict(k)
  IN  /\ k # NoCheck
      /\ k.stage = "search"
      /\ k.purpose # "csp"
      /\ check' = [check EXCEPT ![r] =
           IF r \notin requests THEN NoCheck
           ELSE IF k.purpose = "response" /\ verdict # "block" /\ host_valid
           THEN Search("csp", k.url)
           ELSE Posted(k.purpose, k.url, verdict)]
      /\ NotifyAdMatched(r)
      /\ UNCHANGED <<rule_vars, factory_vars, requests, request_url, documents, net,
                     client, loader_open, seen>>

\* GetCspInjections has run and its snapshot is gone.
GetCspInjections(r) ==
  LET k == check[r]
  IN  /\ k # NoCheck
      /\ k.stage = "search"
      /\ k.purpose = "csp"
      /\ check' = [check EXCEPT ![r] =
           [k EXCEPT !.stage = "found", !.snapshot = {},
                     !.found = Policies(k.snapshot, k.url)]]
      /\ UNCHANGED <<rule_vars, factory_vars, requests, request_url, documents, net,
                     client, loader_open, blocked, seen>>

\* The policies are added to the headers, which the network parses anew; in
\* the end the verdict on the response is posted.
OnCspInjectionsSearchFinished(r) ==
  /\ check[r] # NoCheck
  /\ check[r].stage = "found"
  /\ check' = [check EXCEPT ![r] =
       IF r \in requests THEN Posted("response", @.url, "none") ELSE NoCheck]
  /\ UNCHANGED <<rule_vars, factory_vars, requests, request_url, documents, net,
                 client, loader_open, blocked, seen>>

-----------------------------------------------------------------------------
(* Requests.                                                               *)

\* Faulty: the request stays.
KeepRequest(r) == /\ check' = [check EXCEPT ![r] = NoCheck]
                  /\ UNCHANGED <<requests, loader_open>>

\* Whatever is posted for a request does nothing once it is removed; a search
\* goes on.
RemoveRequest(r) ==
  /\ requests' = requests \ {r}
  /\ loader_open' = loader_open \ {r}
  /\ check' = [check EXCEPT ![r] =
       IF @ # NoCheck /\ @.stage # "posted" THEN @ ELSE NoCheck]

\* OnRequestError, with ERR_BLOCKED_BY_ADMINISTRATOR.
Block(r) ==
  /\ RemoveRequest(r)
  /\ client' = [client EXCEPT ![r] = "blocked"]
  /\ UNCHANGED <<request_url, documents, net, blocked>>

\* A loader of the network is created and started.
Load(r) ==
  /\ net' = [net EXCEPT ![r] = "loading"]
  /\ check' = [check EXCEPT ![r] = NoCheck]
  /\ UNCHANGED <<requests, request_url, documents, client, loader_open, blocked>>

\* The target factory is not bound: the client is told nothing.  The pipes that
\* were meant for the network are dropped, and OnBindingsClosed follows if the
\* loader's was closed before.
DropPipes(r) ==
  /\ net' = [net EXCEPT ![r] = "dropped"]
  /\ IF r \in loader_open
     THEN check' = [check EXCEPT ![r] = NoCheck] /\ UNCHANGED <<requests, client, loader_open>>
     ELSE RemoveRequest(r) /\ client' = [client EXCEPT ![r] = "gone"]
  /\ UNCHANGED <<request_url, documents, blocked>>

\* The same when its pipes are in use already.
GiveUp(r) ==
  /\ check' = [check EXCEPT ![r] = NoCheck]
  /\ UNCHANGED <<requests, request_url, documents, net, client, loader_open, blocked>>

Tell(r, message) ==
  /\ client' = [client EXCEPT ![r] = message]
  /\ check' = [check EXCEPT ![r] = NoCheck]
  /\ UNCHANGED <<requests, request_url, documents, loader_open, blocked>>

CreateLoaderAndStart(r, u, is_document) ==
  /\ proxies
  /\ client[r] = "absent"
  /\ requests' = requests \cup {r}
  /\ request_url' = [request_url EXCEPT ![r] = u]
  /\ documents' = IF is_document THEN documents \cup {r} ELSE documents
  /\ check' = [check EXCEPT ![r] = SearchIfHostValid("rewrite", u)]
  /\ client' = [client EXCEPT ![r] = "waiting"]
  /\ loader_open' = loader_open \cup {r}
  /\ seen' = [seen EXCEPT ![r] = {CurrentRules}]
  /\ UNCHANGED <<rule_vars, factory_vars, net, blocked>>

IsPosted(r, purpose) ==
  check[r] # NoCheck /\ check[r].stage = "posted" /\ check[r].purpose = purpose

Start(r) ==
  /\ IsPosted(r, "rewrite")
  /\ \/ /\ check[r].verdict = "rewrite"
        /\ net' = [net EXCEPT ![r] = "reset"]
        /\ Tell(r, "redirected")
     \/ /\ check[r].verdict = "none"
        /\ ~ target_bound
        /\ DropPipes(r)
     \/ /\ check[r].verdict = "none"
        /\ target_bound
        /\ request_url[r] \in Local
        /\ Load(r)
     \/ /\ check[r].verdict = "none"
        /\ target_bound
        /\ request_url[r] \notin Local
        /\ check' = [check EXCEPT ![r] = CheckFilterMatch(r, "request", request_url[r])]
        /\ UNCHANGED <<requests, request_url, documents, net, client, loader_open, blocked>>
  /\ UNCHANGED <<rule_vars, factory_vars, seen>>

OnRequestFilterMatchResult(r) ==
  /\ IsPosted(r, "request")
  /\ \/ ~ target_bound /\ DropPipes(r)
     \/ target_bound /\ check[r].verdict = "block" /\ Block(r)
     \/ target_bound /\ check[r].verdict = "none" /\ Load(r)
  /\ UNCHANGED <<rule_vars, factory_vars, seen>>

OnRedirectFilterMatchResult(r) ==
  /\ IsPosted(r, "redirect")
  /\ \/ ~ target_bound /\ GiveUp(r)
     \/ target_bound /\ check[r].verdict = "block" /\ Block(r)
     \/ target_bound /\ check[r].verdict = "none" /\ Tell(r, "redirected")
        /\ UNCHANGED net
  /\ UNCHANGED <<rule_vars, factory_vars, seen>>

OnProcessHeadersResult(r) ==
  /\ IsPosted(r, "response")
  /\ \/ check[r].verdict = "block" /\ Block(r)
     \/ check[r].verdict = "none" /\ Tell(r, "responded") /\ UNCHANGED net
  /\ UNCHANGED <<rule_vars, factory_vars, seen>>

-----------------------------------------------------------------------------
(* The network.  It waits while its redirect or response is checked (the   *)
(* latter because the pipe is paused), and for the client to follow.       *)

OnReceiveRedirect(r, u) ==
  /\ r \in requests
  /\ net[r] = "loading"
  /\ u \in RedirectsTo[request_url[r]]
  /\ net' = [net EXCEPT ![r] = "redirected"]
  /\ request_url' = [request_url EXCEPT ![r] = u]
  /\ check' = [check EXCEPT ![r] = CheckFilterMatch(r, "redirect", u)]
  /\ seen' = [seen EXCEPT ![r] = {CurrentRules}]
  /\ UNCHANGED <<rule_vars, factory_vars, requests, documents, client, loader_open, blocked>>

OnReceiveResponse(r) ==
  /\ r \in requests
  /\ net[r] = "loading"
  /\ net' = [net EXCEPT ![r] = "responded"]
  /\ IF request_url[r] \in Local
     THEN Tell(r, "responded")
     ELSE /\ check' = [check EXCEPT ![r] = SearchIfHostValid("response", request_url[r])]
          /\ UNCHANGED <<requests, request_url, documents, client, loader_open, blocked>>
  /\ UNCHANGED <<rule_vars, factory_vars, seen>>

\* The network closes its pipe, and OnBindingsClosed follows if the loader's
\* was closed before.
OnComplete(r) ==
  /\ r \in requests
  /\ net[r] \in {"loading", "responded"}
  /\ check[r] = NoCheck
  /\ net' = [net EXCEPT ![r] = "completed"]
  /\ client' = [client EXCEPT ![r] = "completed"]
  /\ IF r \in loader_open
     THEN UNCHANGED <<requests, check, loader_open>>
     ELSE RemoveRequest(r)
  /\ UNCHANGED <<rule_vars, factory_vars, request_url, documents, blocked, seen>>

-----------------------------------------------------------------------------
(* The client, the frame and the factory.                                  *)

FollowRedirect(r) ==
  /\ r \in requests
  /\ r \in loader_open
  /\ client[r] = "redirected"
  /\ net[r] = "redirected"
  /\ net' = [net EXCEPT ![r] = "loading"]
  /\ client' = [client EXCEPT ![r] = "waiting"]
  /\ UNCHANGED <<rule_vars, factory_vars, requests, request_url, documents, check,
                 loader_open, blocked, seen>>

OnClientDisconnected(r) ==
  /\ r \in requests
  /\ RemoveRequest(r)
  /\ client' = [client EXCEPT ![r] = "gone"]
  /\ UNCHANGED <<rule_vars, factory_vars, request_url, documents, net, blocked, seen>>

LoaderDisconnected(r) ==
  /\ r \in loader_open
  /\ IF net[r] \in {"completed", "dropped"}
     THEN RemoveRequest(r)
     ELSE /\ loader_open' = loader_open \ {r}
          /\ UNCHANGED <<requests, check>>
  /\ client' = [client EXCEPT ![r] = IF net[r] = "dropped" THEN "gone" ELSE @]
  /\ UNCHANGED <<rule_vars, factory_vars, request_url, documents, net, blocked, seen>>

FrameDestroyed ==
  /\ host_valid
  /\ host_valid' = FALSE
  /\ UNCHANGED <<rule_vars, request_vars, target_bound, proxies, seen>>

\* MaybeDestroySelf: the factory is gone.
IsDestroyed == ~ proxies /\ requests = {}

OnTargetFactoryError ==
  /\ ~ IsDestroyed
  /\ target_bound
  /\ target_bound' = FALSE
  /\ proxies' = FALSE
  /\ UNCHANGED <<rule_vars, request_vars, host_valid, seen>>

OnProxyBindingError ==
  /\ proxies
  /\ proxies' = FALSE
  /\ UNCHANGED <<rule_vars, request_vars, host_valid, target_bound, seen>>

\* Lists come into force or leave it: a maintainer installs or removes any.
MaintainerWorks(c) ==
  /\ c \in maintainers
  /\ lists' \in { [lists EXCEPT ![c] = items] : items \in SUBSET Item }
  /\ UNCHANGED service_vars

\* Or a configuration is enabled or disabled.  A new maintainer has no lists.
ConfigurationChanges(c) ==
  /\ \E enabled \in BOOLEAN : ChangeEnabled(c, enabled)
  /\ lists' = [lists EXCEPT ![c] = {}]

RulesChange ==
  /\ \E c \in Configuration : MaintainerWorks(c) \/ ConfigurationChanges(c)
  /\ seen' = [r \in Request |->
       IF r \in requests THEN seen[r] \cup {CurrentRules'} ELSE seen[r]]
  /\ UNCHANGED <<request_vars, factory_vars>>

PostedStep(r) ==
  \/ Start(r)
  \/ OnRequestFilterMatchResult(r)
  \/ OnRedirectFilterMatchResult(r)
  \/ OnProcessHeadersResult(r)

NetworkStep(r) ==
  \/ \E u \in Url : OnReceiveRedirect(r, u)
  \/ OnReceiveResponse(r)
  \/ OnComplete(r)

ClientStep(r) ==
  \/ \E u \in Url, is_document \in BOOLEAN : CreateLoaderAndStart(r, u, is_document)
  \/ FollowRedirect(r)
  \/ OnClientDisconnected(r)
  \/ LoaderDisconnected(r)

Next ==
  \/ \E r \in Request :
       \/ SearchEnds(r)
       \/ GetCspInjections(r)
       \/ OnCspInjectionsSearchFinished(r)
       \/ PostedStep(r)
       \/ NetworkStep(r)
       \/ ClientStep(r)
  \/ RulesChange
  \/ FrameDestroyed
  \/ OnTargetFactoryError
  \/ OnProxyBindingError

Spec == Init /\ [][Next]_vars

\* The thread pool and the main sequence run their tasks, and the network
\* answers or fails.
Fairness ==
  \A r \in Request :
    /\ WF_vars(SearchEnds(r))
    /\ WF_vars(GetCspInjections(r))
    /\ WF_vars(OnCspInjectionsSearchFinished(r))
    /\ WF_vars(PostedStep(r))
    /\ WF_vars(NetworkStep(r))

FairSpec == Spec /\ Fairness

-----------------------------------------------------------------------------
(* Properties.                                                             *)

\* A resource is requested, handed over or blocked only if rules that were in
\* force since its present URL became known say so, however the URL and the
\* rules changed while they were searched (OnReceiveRedirect overwrites the
\* URL).  Without a frame everything passes.
VerdictIsCurrent ==
  \A r \in Request :
    LET u == request_url[r]
        passed == net[r] = "loading" \/ (net[r] = "redirected" /\ client[r] = "redirected")
    IN  /\ client[r] = "blocked" =>
             \E s \in seen[r] : Blocks(s, Blocking, u) \/ Blocks(s, HeaderBlocking, u)
        /\ passed /\ host_valid /\ r \notin documents /\ u \notin Local =>
             \E s \in seen[r] : ~ Blocks(s, Blocking, u)
        /\ client[r] = "responded" /\ host_valid /\ u \notin Local =>
             \E s \in seen[r] : ~ Blocks(s, HeaderBlocking, u)

\* The session counts a resource as blocked just when it is: what the client
\* was told is blocked was counted, once, unless the frame is gone, and what
\* was counted is not handed over (SessionStatsImpl is told by the runner,
\* the client by the request).
BlockedIsCounted ==
  \A r \in Request :
    /\ blocked[r] <= 1
    /\ client[r] = "blocked" /\ host_valid => blocked[r] = 1
    /\ blocked[r] = 1 => client[r] # "responded"

\* The client is told things in the order it expects: at most one response,
\* no redirect after it, and nothing once the request ended.
ToldInOrder ==
  [][\A r \in Request :
       client'[r] # client[r] =>
         <<client[r], client'[r]>> \in
           {<<"absent", "waiting">>, <<"redirected", "waiting">>}
           \cup {"waiting"} \X {"redirected", "responded", "completed", "blocked", "gone"}
           \cup {"redirected", "responded", "completed"} \X {"gone"}
           \cup {<<"responded", "completed">>}]_vars

\* Every request is answered, whether or not its frame exists, unless the
\* factory of the network is lost.
RequestsAreAnswered ==
  \A r \in Request :
    client[r] = "waiting" ~> client[r] # "waiting" \/ ~ target_bound

\* The text of a policy exists until it has been added to the headers:
\* "Snapshots of currently installed subscriptions ... future changes to the
\* installed subscriptions will not impact it".
CspTextIsHeld ==
  \A r \in Request :
    check[r] # NoCheck /\ check[r].stage = "found" =>
      check[r].found \subseteq
        UNION (CurrentRules \cup
               UNION {check[q].snapshot : q \in {q \in Request : check[q] # NoCheck}})
=============================================================================
