# Verification of the eyeo ad-blocking patch

TLA+ models of the ad-blocking code that this repository adds to Chromium
(`src/components/adblock`, `src/chrome/browser/adblock`), TLC runs that check
them on small instances, and TLAPS proofs of the properties that matter most.

## 1. Inventory

Unless said otherwise everything runs on the browser's main sequence. File
input and output, conversion of filter lists and classification of resources
run in the thread pool or in another process and come back as callbacks bound
to weak pointers, so a handler is atomic and the interleaving is that of
callbacks.

| Component | State | Operations | Talks to | What is hard |
|---|---|---|---|---|
| `FilteringConfigurationMaintainerImpl` | installed subscriptions, ongoing installations, status, custom filters | filter lists, domains or filters changed; storage loaded; update check; download, conversion and store answered | every object below up to the updater | late answers after a removal, update against removal, failure of each step |
| `SubscriptionDownloaderImpl`, `OngoingSubscriptionRequestImpl` | ongoing downloads by URL, one HEAD request, back-off timers, redirect counts | start, cancel, HEAD request; request, conversion finished | maintainer (callback), metadata | answers matched by URL, retries, redirects onto a taken key |
| `SubscriptionPersistentStorageImpl`, `SubscriptionValidatorImpl` | which file backs which subscription; files on disk; signatures in prefs | load, store, remove | maintainer (callbacks), metadata | crash between file and signature, two files of one URL |
| `SubscriptionPersistentMetadataImpl` | per URL: expiration, version, download and error count | setters and getters, written to prefs | downloader, storage, maintainer | shared by all configurations, outlives a restart |
| `PreloadedSubscriptionProviderImpl` | bundled lists in use | told of installed and pending URLs | maintainer | must be told on every path |
| `SubscriptionUpdaterImpl` | a timer | start, stop, tick | maintainer | tick while an installation is pending |
| `PersistentFilteringConfiguration` | lists, domains, filters, enabled flag in prefs | add, remove, enable | observers: maintainer, service | notification before or after persisting |
| `SubscriptionServiceImpl` | a maintainer per enabled configuration | install configuration, enable, disable, snapshot | maintainers, observers | snapshots that outlive a change, disable with tasks pending |
| `AdblockControllerImpl` | the "adblock" configuration, first-run flag | select, remove lists; migrate legacy prefs | configuration, service | decisions of the user against switches, first run and migration; crashes |
| `AdblockTelemetryService`, `ActivepingTelemetryTopicProvider` | conversations, ping counters in prefs | start, stop, check, payload ready, response | network | stop with a payload outstanding, overlapping checks, lost responses |
| `AdblockURLLoaderFactory`, `ResourceClassificationRunnerImpl`, `SessionStatsImpl` | a state machine per request; counts per list | start, redirect, response, destroyed | service (snapshot), thread pool | destruction or redirect while a classification runs |
| `ResourceClassifierImpl`, `SubscriptionCollectionImpl`, `InstalledSubscriptionImpl`, `pattern_matcher.cc` | none: lookups in a snapshot | classify request, popup, CSP, headers | | precedence of allowing and blocking filters |
| Filter list converter | none beyond one call | parse, serialise | downloader | filters filed where they are found again |
| `ElementHiderImpl`, CSP injector, `FrameHierarchyBuilder`, `SitekeyStorageImpl`, observers, extension API, Java | little or none | glue | | destroyed frames |

What would make each of them correct:

* maintainer: at rest it has installed exactly what is demanded and what can
  be had; nothing twice, nothing undemanded, no file without its subscription;
  no installation waits for something that will never come; bundled lists
  stand in exactly while needed.
* downloader: one callback per download, none after cancellation; retries as
  the policy says.
* metadata: the Acceptable Ads count survives removal of the list, and falls in
  a crash at most to what was written to disk.
* storage: only files with a valid signature are loaded; what was stored is
  loaded again after a restart unless it was removed; files do not pile up.
* service: the classification of a resource uses the lists of every enabled
  configuration and of no other.
* controller: what the user decided stays decided.
* telemetry: one conversation per topic at a time; a failed ping is retried;
  the server can tell a repeated ping from a new one and from another client's.
* URL loader: each request is answered once, blocked only if rules in force
  say so of its present address, and counted once.
* classifier: the lists of a configuration act as one set of rules, and an
  exception in any of them unblocks.
* patterns and keywords: a filter matches what its pattern says, and is found
  for whatever it matches.

## 2. Modules

```
SubscriptionPersistentMetadata            metadata map, setters, preferences
  ^ EXTENDS
SubscriptionDownloader                    downloads, requests, conversions
  ^ EXTENDS
FilteringConfigurationMaintainer          composition: Init, Next, Spec, properties
  ^ EXTENDS                      ^ EXTENDS
MCFilteringConfigurationMaintainer       FilteringConfigurationMaintainer_proofs
  (constants for TLC)                      ^ EXTENDS
                                         UnredirectedMaintainer_proofs

SubscriptionPersistentStorage             files, signatures, tasks; INSTANCE of
  ^ EXTENDS                               PersistentStorageContract
MCSubscriptionPersistentStorage           SubscriptionPersistentStorage_proofs
  (constants for TLC)                       (EXTENDS it too)

PersistentFilteringConfiguration          the dictionary of a configuration
  ^ EXTENDS
SubscriptionService                       configurations, maintainers, snapshots
  ^ EXTENDS                      ^ EXTENDS
AdblockController                AdblockURLLoaderFactory   requests and checks
  ^ EXTENDS                        ^ EXTENDS
AdblockController_proofs         MCAdblockURLLoaderFactory,
                                 AdblockURLLoaderFactory_proofs

PatternMatcher, FilterParser              patterns, keywords; lines of a list
  ^ EXTENDS  (PatternMatcher also by PatternMatcher_proofs)
InstalledSubscription                     lookups in one list
  ^ EXTENDS
ResourceClassifier                        lookups in a snapshot, decisions
  ^ EXTENDS
FlatbufferConverter                       lists as they are written; references
  ^ EXTENDS                      ^ EXTENDS
MCFlatbufferConverter            FlatbufferConverter_proofs
                                   (EXTENDS PatternMatcher_proofs too)

ActivepingTelemetryTopicProvider          the ping and its preferences
  ^ EXTENDS
AdblockTelemetryService                   conversations, timer, network
  ^ EXTENDS
AdblockTelemetryService_proofs
```

**`SubscriptionPersistentMetadata`** is the map of
`subscription_persistent_metadata_impl.cc`. The setters are operators on the
whole map because every caller makes several calls in one handler. Times are
one bit per URL, "the expiration time has passed", cleared by
`SetExpirationInterval` and set by the clock (`ExpirationTimePasses`).
`written_metadata` is what of the map is on disk: each setter puts the map into
the preferences (`UpdatePrefs`), and these are written at some later time
(`MetadataWritten`). The success count is an unbounded `int` in the code;
`CountCap` is a bound of the model, beyond which counts of a list are not told
apart. (What is reported of a count has a bound of its own, which is not
modelled.) Versions, installation times and the error count are left out, as
nothing modelled looks at them; so a failed download leaves the map as it is.

**`SubscriptionDownloader`** has `ongoing_downloads`, a set of records with one
record per key. A record says whom its callback answers (`installation`),
whether its request is fetching (`loader`) or waiting in its back-off
(`retry_timer`), and how often it was redirected. `conversions[u]` counts the
files of `u` in the thread pool: a finished conversion knows only its URL and
is given to whichever entry has that key then. A request reports its URL
without the query (`ongoing_subscription_request_impl.cc:149-151`), which
`StripQuery` stands for. The actions are the branches of `OnDownloadFinished`
(`Retry`, `Abandon`, `StartConversion`), of the timer (`RetryTimerFires`), of
`OnConversionFinished` (`Discard`, `Deliver`, `AbortOnError`,
`AbortOnRedirect`, `Redirect`) and of the HEAD request. Those that run a
callback are conjoined by the maintainer's module with what the callback does,
since the code runs it in the same task.

**`FilteringConfigurationMaintainer`** adds the maintainer, its provider of
bundled lists, its updater and its storage as far as its callbacks show it.

| Variable | In the code |
|---|---|
| `demanded`, `configured_filters` | the configuration's filter lists; its custom filters and allowed domains |
| `status` | `status_` |
| `current_state[u]` | number of entries of `current_state_` with URL `u` |
| `backing_files[u]` | number of entries of the storage's `backing_file_mapping_` for `u` |
| `ongoing_installations` | `ongoing_installations_`; an installation is its URL and an identity (`Generation`) |
| `stores` | flatbuffers being written, with the installation they answer |
| `preloaded` | the bundled lists in use |
| `custom_filters` | what `custom_filters_` was made from |
| `crashed` | the process ran into a failed `DCHECK` |

Where an object is bound into a callback (`OngoingInstallation` is
reference-counted), the record of the download or store carries its identity;
a new object gets an identity nobody refers to any more (`Fresh`), so identities
are recycled as addresses are, and two per URL turned out to be enough
(`HasFresh` guards the actions that create one).

`OnFilterListsChanged` translates `InstallMissingSubscriptions` followed by
`RemoveUnneededSubscriptions` as one step. The latter applies
`std::set_difference` to two sorted vectors. The first is the concatenation of
the installed and the pending URLs, in which a list being updated occurs twice,
and the algorithm works on multisets: `Unneeded` and `AfterUninstall` say so.

Where the program runs into a failed `DCHECK`, the model sets `crashed` and only
a `Crash` follows; a release build that goes on instead uses the end iterator of
a map, and nothing after it is defined. One of the three places is the redirect
of a request to the address it has already (`RedirectAsserts`,
`ongoing_subscription_request_impl.cc:102`). It may happen when the key of the
target is taken; whether it does depends on whether the version and the count
that the address carries have changed since, so both outcomes are steps.

A maintainer begins anew in two ways. `Restart` is the configuration disabled
and enabled, or a browser that ends in order and writes its preferences:
the metadata stay. `Crash` takes the metadata back to `written_metadata`, which
`PrefsWritten` brings up to date at any time. What the new maintainer loads is any
number of files up to `MaxLoaded` for each URL, which over-approximates the
storage.

**`SubscriptionPersistentStorage`** is the storage with its validator. A file
has a random name that is never used twice, so a file stands for the
subscription written into it (`used`). `disk` says what is in it: nothing, a
part, or a subscription in some version of the flatbuffer schema. `prefs` are
the signatures and the schema version in memory, `saved_prefs` the state that a
crash falls back to; `SavePrefs` may happen at any time, and a file is on disk
as soon as it is written. `main_tasks` is the queue of the main sequence, first
in first out: a finished write posts the signature and then the reply, a removal
posts the removal of the signature. `writes` and `loads` are tasks of the thread
pool, which interleave file by file and go on when their storage object is
destroyed (`live` becomes false and what they post is void, as it is bound to
weak pointers). `doomed` are files whose mapping was marked for removal and not
yet destroyed; a snapshot of the subscriptions may delay that. The maintainer is
the environment: it stores once it has been told what was loaded, and removes
what it likes.

**`PersistentStorageContract`** says what that amounts to for a maintainer:
after an orderly end, a load by a browser with the same schema returns exactly
what was installed and at most subscriptions whose store had not been answered
or whose removal had just been ordered; after a crash possibly less, never
anything else. The refinement mapping (`Surviving`, `Doubtful`) reads the
abstract state off files and signatures. The contract distinguishes the two ends
by `last_end`, a history variable of the storage's module, so that a step that
loses something in an orderly end cannot pass for a crash. It holds as long as
files can be read and mapped, so the run that checks it leaves out the faults
`"read"` and `"map"`: a file that cannot be mapped is skipped by the load and
stays on disk, and one that cannot be read is deleted, although it may be signed
(`subscription_persistent_storage_impl.cc:116-119`).

**`PersistentFilteringConfiguration`** has the operations on a configuration's
dictionary as operators. Filter lists, domains and custom filters are three
lists with the same operations; one set of items stands for them.

**`SubscriptionService`** keeps a maintainer for each enabled configuration,
and a snapshot has the collections of their lists. What a maintainer has
installed is the business of `FilteringConfigurationMaintainer`, whose
`OnlyDemanded` and `OnlyObtainable` say how it relates to what is demanded: with
redirects, a list is installed under an address that nobody demanded. Here a
configuration has a maintainer or none, and a snapshot is the set of the
configurations that have one. `AdblockURLLoaderFactory` adds which lists each of
them has installed.

**`AdblockController`** starts the browser in one step, as
`BuildServiceInstanceFor` does in one task: it obeys the command-line switches,
runs the first-run logic, migrates the preferences of an earlier version, and
only then installs the configuration. The preferences are in memory and, as of
some moment, on disk (`saved`); `Crash` goes back to them. `chosen` is a history
variable: what the user added, removed, enabled or disabled last, by hand, by a
switch or in the earlier version.

**`AdblockTelemetryService`** with **`ActivepingTelemetryTopicProvider`** has a
conversation per topic. A token is the time at which the server handled a ping,
truncated to a day, so that several pings have the same; `DayPasses` is its
clock. The random tag that the client makes when it is answered is the number of
tags made so far (`tags`, which a crash does not take back, as a GUID is not
made twice). Neither names a ping, and what relates them to pings is the history
variable `after` of a payload: the ping whose answer the client had when it sent
this one. `strays` are payloads whose loader was destroyed but which may still
reach the server; a response is lost when `OnResponseArrived` chooses none. The
preferences are modelled as those of the controller.

**`AdblockURLLoaderFactory`** follows each request through
`AdblockURLLoaderFactory::InProgressRequest` and the two classes that check it.
`check[r]` is what runs for a request: a search in the thread pool with the
snapshot it was given, or its verdict posted to the main sequence. It composes
with `SubscriptionService`, so rules change while a search runs
(`RulesChange`): a configuration is enabled or disabled, or its maintainer
installs other lists (`lists`). Without a target factory a request that is not
started yet drops its pipes (`DropPipes`), and is removed once its client has
closed its own; one that is under way waits for the client (`GiveUp`). `net`, `client`, `loader_open`, `target_bound` and `proxies`
are the ends of the pipes; `seen` is a history variable, the snapshots that
could be had since the present address of the request is known. What the rules
say of an address is a constant here; how it comes about is the matter of
`ResourceClassifier`.

**`PatternMatcher`** translates `pattern_matcher.cc` and the two keyword
extractors over sequences of characters. A token is the place where it starts
and the place where the next one does (`TokenEnd`). The mutual recursion of
`NextTokenBeginsInput` and `FindNextTokenInInput` is a recursive function over
the places in the pattern: its value at a place is the set of all positions of
the address from which on the rest of the pattern matches. A call nested more than
`kMaxRecursionDepth` deep finds nothing. How deep the calls go that lead to a
match depends on the pattern alone, because each token is behind one call (two,
if a wildcard precedes it) and a match passes all of them: `CallsToMatch` counts
them over the same recursion, and a pattern that takes more matches no address.

**`FilterParser`** turns a line of a list into a filter or none. A line is
already split: a URL filter into its pattern and its options in order, another
into its domains and its selector or script. A text after the `=` of an option
is a model value, and constants say what the code reads in it (`DomainsIn`,
`SitekeysIn`, `Unescaped`, `Rewrite`, `InvalidCsp`). `ReadOption` is the body of
the loop in `UrlFilterOptions::FromString`, and `Reading` what is known after
each round of it; its local variable `value` is a component of what it works
on, because it outlives each round.
`RemoveChars` gets a pointer to the character `~` that is not the end of a string
(`domain_option.cc:50`); what follows it in memory is `ExcludeSymbols`, which
the runs take to be `~` alone.

**`InstalledSubscription`**, **`ResourceClassifier`** and
**`FlatbufferConverter`** are the lookups in an index, the decisions made with
a snapshot, and how a list is written. Which of several rewrites is found first
depends on keywords and places in a list, so `FindRewriteFilter` returns all
that may be. A list is the set of entries the
serializer made, each with its index, its keyword and its filter, and every
lookup goes through these, as in the code. The state of `FlatbufferConverter`
is the lines read of each list and what is written of it so far; `Convert` is
one line of input, parsed, filed or dropped. Its second half states references:
one list into which all filters of a configuration are serialized (`Merged`),
what a list of options says wherever each stands, and a search with wildcards
that knows nothing of tokens (`Glob`). Two operators name patterns for which the
references say nothing: those whose words are no help in finding them
(`IsIndexable`), and those that have an anchor where it is none (`IsRegular`).

## 3. Runs

The runs of the maintainer instantiate `MCFilteringConfigurationMaintainer`. Two URLs are enough
for the properties: each speaks of one URL, or of one URL and another that
competes with it for a key, a redirect or the attention of a handler. They are
not interchangeable (one is the Acceptable Ads list, one is bundled), so
there is no symmetry. Two identities per URL let a cancelled installation
coexist with its successor.

Bounds: `CountCap` 1 for the Acceptable Ads list and 0 for the other (a count is
then kept, lost or taken back; none of the others is looked at), `MaxRedirects` 1 (5 in the code; one
redirect followed and the next refused), `MaxConversions` 1, `MaxLoaded` at
most 2 (one file, or a duplicate), `Faults` names which faults a run includes
to keep it small. There is no bound on the number of steps: all state spaces
are finite and explored completely.

| Run | Shows |
|---|---|
| `core` | two lists without redirects and every fault: the maintainer, its storage, the bundled lists and the downloads agree, the Acceptable Ads count is kept, and no installation is pending for ever, whatever conversions, stores, expiry and crashes do (165 769 states) |
| `redirects` | two lists that redirect to each other, and an address with a query (1 071 516 states): the installed state stays consistent although downloads change keys, are taken for one another and get lost, and nothing is installed that no demanded list leads to |
| `demand_installed` | with failing requests only, what is demanded is installed in the end, and the custom filters in force are those of the configuration (12 384 states). Expiry is left out on purpose: with updates, `update_removed` below refutes the property too |

Properties that redirects break are checked where there are none: `OnlyDemanded`
and `NoOrphanDownload` in `core`. What is left of the first with redirects is
`OnlyObtainable`. `CustomFiltersInForce` is checked in a small run because
it concerns nothing that the other two add.

The runs of the storage instantiate `MCSubscriptionPersistentStorage`. Three
files are an installed version, its update and a third in flight; files are
interchangeable, and symmetry is used where no liveness is checked. `MaxLoads`
is 2 where a scan may outlive its storage (with one file fewer, as liveness is
checked there).

| Run | Shows |
|---|---|
| `storage_crashes` | whatever crashes and fails, nothing unfinished or of another schema is loaded, a governed file is on disk and signed, a load reclaims what it does not accept, and the storage implements its contract (13 194 states up to symmetry) |
| `storage_disabled` | tasks of a destroyed storage never make its successor misread a file, and every load and store is answered, whatever fails to be written, read or mapped (199 896 states) |

The others:

| Run | Shows |
|---|---|
| `adblock_telemetry` | two topics, of which one gathers its payload asynchronously, and three pings that the server handles within two days: a first one, one that follows it and one that repeats or follows either, of which at least two have the same token, with everything lost, late or repeated that can be (70 419 states) |
| `adblock_controller` | one item that is the Acceptable Ads list, one that is recommended, one custom; the configuration of the controller and one of an embedder (52 536 states). Items differ only in these roles |
| `requests` | one request, as a document or not, that may be redirected any number of times, and rules that change at any time (184 297 states). Requests share nothing but the rules, the frame and the factory, all of which may change at any step anyway, so a second request adds nothing |
| `classification` | every set of three out of twenty lines in three lists: one privileged and one not, of one configuration, and one of another; four requests, among them one from a frame of another site and one with a signature (36 228 states). The lines are of every kind: blocking and allowing filters with types, popups, policies, domains, sites and signatures, rewrites, header filters, the four page exceptions, element hiding, emulation and a snippet. Three lines are a blocking one, an allowing one and an exception |
| `patterns` | 12 017 patterns: every sequence of at most four pieces (a wildcard, a separator, three characters and two words) with every anchor, against nine addresses in which the words occur several times, at the end, and as a part of longer words; and 16 275 lists of at most three options out of twenty-five, which is every option with and without a `~`, a value, a wrong value or none (28 293 states). `kMaxRecursionDepth` is 5, in the code 50, so that some of these patterns are as long as the limit allows and some are longer |

Two runs show where the code does not do what a comment or the documentation
says of it:

| Run | Property | What happens |
|---|---|---|
| `update_removed` | `DemandedStaysInstalled` | any change of the filter lists uninstalls the lists that are being updated at that time |
| `csp_text` | `CspTextIsHeld` | the content security policies found for a response are pieces of text in the data of the lists; the snapshot that holds the lists ends with the search, before the pieces are read |

More were found by changing an instance, and have no run of their own:

* `NeverCrashes` in `core`: the failed
  store of a cancelled installation is passed to `RemoveSubscription` as null
  (`filtering_configuration_maintainer_impl.cc:347`), which asserts that it
  governs what it is given.
* `NeverCrashes` with the one list `query`: a list at an address with a query is
  not found when its download ends (`subscription_downloader_impl.cc:182`),
  since the request reports the address without it.
* `EveryInstallationProgresses` in `redirects`: a redirect onto the key of
  another download destroys the callback
  (`subscription_downloader_impl.cc:262`); the installation stays pending.
* `NoOrphanDownload` there: a redirected download is not found under its old
  URL, and not cancelled with its list.
* `OnlyDemanded` in `redirects`: a list that redirects is installed under the
  address it leads to, and not removed as unneeded before the lists change.
* `DemandIsInstalled` with `"conversion"` among the faults of
  `demand_installed`: a list that fails to convert is not tried again. (A test,
  `NoRetryWhenConversionFailed`, expects it; the comment on `RetryPolicy` says
  otherwise.)
* `GovernedOnDisk` in `storage_disabled`: the scan of a destroyed storage
  deletes a file that its successor has stored.
* `RemovedIsDeleted` in `storage_crashes`, with the fairness of the module: a
  list stored and removed in one session keeps its file, because the
  subscription was made from memory and not from the mapped file
  (`subscription_persistent_storage_impl.cc:92`), until the next load finds it
  without a signature.
* `MatchesLikeGlob` without its exceptions: the search for a pattern anchored at
  the host stops at the first place where the rest of it is found, and only
  then asks whether a host starts there. `||ads.` does not match
  `https://myads.ads.com/`, although a test says that it "will match if the
  prefix is a subdomain or is empty" (`pattern_matcher_test.cc:58`). The second
  exception and the guard of `KeywordIndexComplete` came up in their proofs, as
  patterns the runs do not have: `||ttp^` is found in the scheme, where any
  place passes for a start of the host, and the `DCHECK` that the text before
  it starts with the scheme fails (`pattern_matcher.cc:56`). What is behind a
  single `|` in the middle of a pattern is not compared with the address
  (`pattern_matcher.cc:149`), and yet its words are keywords.
* `ExceptionsOnlyUnblock` without its three exceptions: with a genericblock
  exception allowing header filters are not searched for
  (`resource_classifier_impl.cc:210`); with a generichide exception generic
  exceptions from element hiding are not
  (`installed_subscription_impl.cc:282`), so domain-specific filters they
  overruled come back; and of the exceptions from rewrites in a list only the
  first found is looked at (`subscription_collection_impl.cc:160-176`), so a new
  one may stand before another and revoke it.
* `OptionsMeanWhatTheySay` without `IsUnambiguous`: an option without a value
  has that of an option before it (`domain=a.com,csp` is a policy `a.com`,
  `url_filter_options.cc:47-66`), and `image,~image` names all types, because
  none left is taken for none named (`url_filter_options.cc:138`).
* `ListsFormOneRuleset` with `Rewrites` among the decisions: the first filter
  found in a list counts, so an overruled one hides another that is not, if both
  are in one list (`subscription_collection_impl.cc:160-176`).

Other things met while modelling, none of which violates a property: a topic
that gathers its payload while ad blocking is disabled still makes its request
(`NoPingWhileDisabled` speaks of the others); the ping has no `nonce`, which
`docs/data-collection/user-counting.md:21` mentions; the migration, which runs
after the switches, overrides `--disable-aa` and `--disable-adblock` on the
start that migrates (`developer-notes.md:10`); when the target factory is lost,
requests that wait for a check are dropped without an answer, as
`RequestsAreAnswered` says; document requests can be blocked by their headers
although the runner passes them "no matter what"
(`resource_classification_runner_impl.cc:162`); `*|` searches for a literal
`|`, and an anchor in the middle of a pattern ends it; a blocking filter with an
exception option and a type (`$script,document`) is accepted and filed as an
exception, although "Exception options can only be used with allowing filters"
(`url_filter.cc:66`); `HasSubdomainOrLocalhost` is true of a domain that has no
subdomain, and its caller relies on that (`domain_option.cc:87`).

`core` and `update_removed` are compatible: that a list disappears because of
a change of the configuration violates none of the invariants, only
`DemandedStaysInstalled`. `AnswersKeepInstalled` speaks of steps that do not
change the configuration.

**Fairness** (`Fairness`, for the liveness runs). Weak: a load of the storage
is answered; a request ends, as its loader has a timeout or waits for a
connection; an armed timer fires; the thread pool runs the conversions and
writes it was given. Strong: of infinitely many attempts to fetch a list some
succeed, and of infinitely many conversions with a good outcome possible some
have it. The first is about the network and without it no list need ever be
installed; the second is needed only where `conversion` is among the faults.
Nothing is assumed of the configuration, the update check, the clock or
restarts of the maintainer. That a load is answered and timers fire is Chromium's promise about
the task runners the code posts to.

The telemetry's fairness is weak: the timer fires, time passes, and a request
ends one way or another. The last is a promise of the network, as the loader is
given no timeout; without it the conversation never ends and no further ping is
sent. That of the requests is weak too: searches and posted tasks run, and the
network answers or fails; nothing is assumed of the client, the frame or the
rules. The storage's is that the thread pool and the main sequence run their
tasks.

## 4. Proofs

`FilteringConfigurationMaintainer_proofs`, for every value of the constants:

* `TypeCorrect`: `Spec => []TypeOK`, each action in a step of its own. (No run
  spends time on it.)
* `NoDuplicates`, `OneInstallationEach`, `NoStrayFiles`, `PreloadsInStep`: the
  invariants `UniqueInstalled`, `OneInstallationPerUrl`,
  `StorageGovernsInstalled` and `PreloadedConsistent`. Together with `TypeOK`
  and `NothingBeforeLoading` (while the storage is not loaded, nothing is
  installed, pending, downloaded or stored) they form the inductive invariant
  `Consistent`. They need each other: that `SubscriptionInstalled` leaves one
  entry per URL rests on there having been at most one, that the file mapping
  follows rests on both having been equal, and that loading the storage starts
  from nothing rests on `NothingBeforeLoading`, without which installations
  left over from before would be doubled.
* `InstalledSurvivesAnswers`: the action property `AnswersKeepInstalled`.
* `OnlyObtainableHolds`, inductive with `Followed`: what is downloaded or stored is
  where redirects led from the list that its installation is about. So a
  download may answer for another, but what it brings is still obtainable from
  what the installation was for, which is demanded or obtainable itself.

`UnredirectedMaintainer_proofs` assumes `NoRedirects`, that no list redirects:

* `NothingUnwanted`: `OnlyDemanded`; `NothingOrphaned`: `NoOrphanDownload`. The
  strengthening is `Addressed` and `Exact`: without redirects an entry is
  keyed by the URL of the installation it answers and a store carries that
  URL, so cancelling by URL reaches exactly the downloads of the cancelled
  installations. The assumption cannot be dropped: with `MCRedirects`
  TLC finds `NoOrphanDownload` violated.

`AdblockTelemetryService_proofs`, for any topics and any number of pings:

* `TypeCorrect`; `OneRequestHolds`; `NoPingWhileDisabledHolds`, whose inductive
  invariant adds that the timer runs just while ad blocking is enabled, and
  nothing while the browser does not run (`TimerFollows`).
* `PingsFormAChainHolds` and `TagsTellRetriesHolds`, although neither token nor
  tag names a ping. `ChainInv` says of every
  payload that may still be handled, be it in the preferences in memory or on
  disk, with a loader or adrift, that it follows a ping the server handled
  (`Follows`). Following is stable when another ping is handled
  (`FollowsAppend`), and an answered client follows the ping it sent
  (`FollowsAnswer`).
* `ForgetsOnlyInCrashHolds`, from the same invariant: the token under way is
  later than any the client has.

`AdblockController_proofs`, for any items and configurations, with
`ControllerAssumption`:

* `TypeCorrect`; `SnapshotIsOfEnabledHolds`, which needs no other invariant.
* `ChoicesRespectedHolds`. `DecisionInv` says what a browser that is to start
  may find: preferences as an earlier version left them and everything still
  to be migrated, or preferences of this version with the decisions respected
  and nothing to migrate. A crash may lead from the second back to the first
  and takes the decisions with it. `FirstStart` and `SettledStart` are the two
  ways to start.

`AdblockURLLoaderFactory_proofs`, for any requests, redirects, frames and rules:

* `TypeCorrect`.
* `VerdictIsCurrentHolds`, `BlockedIsCountedHolds`, `ToldInOrderHolds`. They
  rest on one inductive invariant, `RequestsInv`, which is a statement about
  each request alone: where it is in its course and what its client was told
  (`PhaseOf`), that it is counted just when it is blocked or about to be
  (`CountOf`), and that a check looks at the present address with a snapshot
  that could be had since that is known (`CurrentOf`, with `SeenInv`). A step
  of one request leaves the statement about another alone, so each action is
  proved for the request that takes it.

`SubscriptionPersistentStorage_proofs`, for any number of files and schemas:

* `TypeCorrect`, and `NeverMisreadHolds`, for any faults: `ReadInv` says of
  signatures in memory and on disk that they are of the schema recorded with
  them, and that a signed file is finished or gone.
* `SignedWhenGovernedHolds`, also for storages destroyed with tasks pending.
  `SignedInv` is about the queue of the main sequence: a signature stands right
  before the reply of its store, every store has one reply, and no removal of a
  signature is queued for what a reply is awaited for.
* `GovernedOnDiskHolds` and `LoadReclaimsHolds` assume `Undisturbed`, that no
  storage is destroyed before the browser ends: the scan of a destroyed storage
  deletes what its successor has stored, as said above.
* `KeepsContractHolds`: the storage implements `PersistentStorageContract`. It
  assumes `Undisturbed`, and `AlwaysReadable`, that files can be read and mapped:
  one that cannot be mapped is skipped by the load and found by a later one, and
  one that cannot be read is lost. `ContractInit`
  and `ContractStep` are the two halves of the refinement; `LoadsAllInv` says
  that a load misses nothing that is signed and complete.

`FilteringConfigurationMaintainer_proofs` also has `FiltersNeverBehind`
(`CustomFiltersInForce`) and `CountIsKept` (`AcceptableAdsCountKept`: the count
on disk is never more than the one in memory, and neither falls but in a crash,
which makes them equal), and
`UnredirectedMaintainer_proofs` has

* `OnlyUpdatesGiveUpHolds`, inductive next to `Exact`: a download starts with
  the policy that fits its list, which is installed only when the download has
  ended, and uninstalled only together with it.
* `EveryInstallationProgressesHolds`, which also assumes `NoQueries`, that no
  address has a query: without queries and redirects the key of a download is
  the URL its answer carries, so every answer finds its entry, and an entry
  that is taken out is one whose installation ends.

`PatternMatcher_proofs` and `FlatbufferConverter_proofs`, for any patterns,
addresses, option lists, lines, lists and requests:

* What recursive functions compute is proved by induction over a number: the
  library's induction theorems take an operator as a parameter and cannot be
  used, so `NatInductionOverSet` states induction for a set of numbers, from the
  library's `WFMin`. `BeginsDef`, `ReadingDef` and `ReachedBehindDef` give the
  recursive functions their values.
* `KeywordsFindEveryMatch` (`KeywordIndexComplete`). `KeywordFollows` goes
  backwards over the tokens before a keyword: from wherever the tokens from a
  place on match, the keyword is found later in the address, with characters
  around it that belong to no word (`KeywordInToken`). Only where a
  keyword is the first token behind a host anchor nothing of the pattern stands
  before it, and `IsValidStartOfHost` has to be used (`KeywordOfHost`).
* `PatternsMatchLikeGlob` (`MatchesLikeGlob`). The matcher goes backwards, token
  by token; the reference forwards, character by character.
  `WildcardBegins`, `SeparatorBegins`, `CharacterBegins` and `AnchorBegins` say
  that the matcher might as well go by character, since a part of a token is
  treated as a token is; `ReachedMeets` is one step of both, and `GlobMeans`
  joins them: what the reference has reached behind a character always
  includes a place from which on the matcher's rest matches, or never.
  The limit of nested calls is in the statement: `CallsAreLength` shows that the
  calls a match takes are the parts of the pattern, counted by `LengthOf` without
  the recursion, and that beyond `kMaxRecursionDepth` nothing matches.
* `FiledCorrectly`, whose `WellFiled` is inductive: every entry is in an index of
  its filter and under one of its keywords, every filter is in all its
  indices, and lists are finite, without which no keyword need have the fewest
  filters (`CandidateIsKeyword`).
* `ListsAreOneRuleset` (`ListsFormOneRuleset`). `FoundMeaning` and
  `SelectorsMeaning` say what a lookup in a well-filed list finds: of its
  filters those that match and are viable, whatever they are filed under. So the
  lists of a collection and the one list `Merged` answer alike
  (`MergedRules`), and every decision only asks such questions (`SameRequest`,
  `SamePopup`, `SameResponse`, `SamePolicies`, `SameHiding`).
* `ExceptionsUnblock` (`ExceptionsOnlyUnblock`): a list with more entries in the
  indices of exceptions finds the same filters that block and no fewer that
  allow (`FoundGrows`); there is one lemma for each decision. It needs
  `RewritesCorrect`, that a filter that rewrites is limited to domains, which
  the parser sees to. On a page with a genericblock exception the lookup of
  rewrites takes a domain-specific filter without asking whether it is
  overruled, as "the previous search [...] would have found it"
  (`subscription_collection_impl.cc:189`): it would, because the filter found
  before was one of that kind too.
* `OptionsMean` (`OptionsMeanWhatTheySay`), by induction over the options read.
  `OneMoreRead` adds an option to a list that is understood: no later option
  has its name, and none that lacks its value finds one of another
  in the variable that outlives the rounds.

The proofs rest on the constants' named assumptions (`CountCapAssumption`,
`DownloaderAssumption`, `MaintainerAssumption`, `TopicAssumption`,
`PingsAssumption`, `ControllerAssumption`, `RecursionAssumption`,
`RulesAssumption`, `StorageAssumption`; for patterns and lists `WordAssumption`,
`TextAssumption`, `ContentTypeAssumption`, `UrlAssumption`,
`UrlFilterAssumption`, `ContentFilterAssumption`, `RequestAssumption`), which the
runs evaluate. The latter say what texts are made of: a path starts with a
slash and a host has none, the special characters of patterns are no part of
words, and a line has the fields of its kind.

Every invariant and action property that a passing run checks is proved.
Checked by TLC only are the liveness properties `InstallationsEnd`,
`DemandIsInstalled`, `AnswersCome`, `PingsGoOn` and `RequestsAreAnswered`, since
liveness under fairness and ENABLED are out of the prover's reach.

## 5. Not modelled

* The contents of lists, versions, headers, the `Date` parsing of the HEAD
  request, and the URL parameters: no property depends on them.
* Delays: the back-off is a timer that fires at some time, and the wait for
  an unmetered or available network is a request that has not ended.
* Two maintainers over one metadata map and one directory. `SubscriptionService`
  has several configurations, but sees of their maintainers only whether they
  are there.
* How the text of a line is split, regular expressions and match-case as they
  match, the header of a list (its redirect and expiration are inputs of the
  downloader), and the tokens of a snippet.
* Web sockets, popups as tasks (their classification is modelled), and the
  counts of allowed resources and documents.
* What is done to a page with the selectors and scripts found for it.
* `FrameHierarchyBuilder`, `SitekeyStorageImpl`, the observers, the extension
  API and the Java bindings: glue, as `PROJECT.json` says of each.
* The files of Chromium that the patch changes in a few lines each
  (`src/content`, `src/chrome`, `src/extensions`): their own logic is not this
  repository's.

## 6. Plan

Done: the maintainer with its downloader and metadata; the storage and its
contract; configurations, service and controller; telemetry; requests; parser,
patterns, classification and the converter; the proofs of every invariant and
action property that a passing run checks.

Left, in this order:

1. Two configurations with a maintainer each over shared metadata, for which
   `FilteringConfigurationMaintainer` takes its configuration as a parameter.
2. The header of a list (`metadata.cc`): which comment lines count, and the
   bounds of an expiration.
