------------------ MODULE FilteringConfigurationMaintainer ------------------
(***************************************************************************)
(* FilteringConfigurationMaintainerImpl together with the objects it owns: *)
(* it keeps the installed subscriptions equal to what one filtering        *)
(* configuration demands, by downloading, storing, updating and removing   *)
(* them.  Everything runs on one sequence; network, conversion and file    *)
(* work happens elsewhere and comes back as a callback, so every action    *)
(* below is one task of that sequence, from its first to its last line.    *)
(*                                                                         *)
(* The storage is seen here through its callbacks only (what is on disk is *)
(* the business of the storage itself): it may load any subscriptions, and *)
(* each store succeeds or fails.                                           *)
(***************************************************************************)
EXTENDS SubscriptionDownloader

CONSTANTS
  AcceptableAdsUrl,   \* the list whose metadata is kept for user counting
  IsAdblock,          \* the configuration is the one named "adblock"
  Preload,            \* bundled lists, each named by its own URL
  Matches,            \* Matches[p]: URLs that the pattern of p accepts
  CustomFilter,       \* custom filters (allowed domains become such filters)
  MaxLoaded,          \* bound: files of one URL found on disk
  Faults              \* which of the possible faults this instance includes

ASSUME MaintainerAssumption ==
  /\ AcceptableAdsUrl \in Url
  /\ IsAdblock \in BOOLEAN
  /\ Preload \subseteq Url
  /\ Matches \in [Preload -> SUBSET Url]
  /\ MaxLoaded \in Nat
  /\ Faults \subseteq {"conversion", "store", "restart", "crash", "expiry"}

VARIABLES
  demanded,               \* the configuration's filter lists
  configured_filters,     \* the configuration's custom filters and domains
  status,                 \* status_
  current_state,          \* how many entries current_state_ has for each URL
  backing_files,          \* how many files backing_file_mapping_ has per URL
  ongoing_installations,  \* ongoing_installations_
  stores,                 \* flatbuffers being written by the thread pool
  preloaded,              \* the bundled lists in use
  custom_filters,         \* the filters custom_filters_ was made from
  crashed                 \* the process ran into a failed DCHECK

maintainer_vars == <<current_state, backing_files, ongoing_installations,
                     stores, preloaded, custom_filters>>

\* What most answers leave alone.
config_and_status ==
  <<written_metadata, demanded, configured_filters, status, crashed>>

vars == <<metadata_map, downloader_vars, maintainer_vars, config_and_status>>

\* A store remembers whom it answers and the URL recorded in the flatbuffer.
Store == [installation : OngoingInstallation, url : Url]

TypeOK ==
  /\ MetadataTypeOK
  /\ DownloaderTypeOK
  /\ demanded \subseteq Url
  /\ configured_filters \subseteq CustomFilter
  /\ status \in {"Uninitialized", "Initialized"}
  /\ current_state \in [Url -> Nat]
  /\ backing_files \in [Url -> Nat]
  /\ ongoing_installations \subseteq OngoingInstallation
  /\ stores \subseteq Store
  /\ preloaded \subseteq Preload
  /\ custom_filters \subseteq CustomFilter
  /\ crashed \in BOOLEAN

Init ==
  /\ MetadataInit
  /\ DownloaderInit
  /\ demanded = {}
  /\ configured_filters = {}
  /\ status = "Uninitialized"
  /\ current_state = [u \in Url |-> 0]
  /\ backing_files = [u \in Url |-> 0]
  /\ ongoing_installations = {}
  /\ stores = {}
  /\ preloaded = {}
  /\ custom_filters = {}
  /\ crashed = FALSE

-----------------------------------------------------------------------------
(* What the maintainer reads off its state.                                *)

\* GetReadySubscriptions, GetPendingSubscriptions, as sets.
Ready == {u \in Url : current_state[u] > 0}
Urls(installations) == {i.url : i \in installations}
Pending == Urls(ongoing_installations)

\* A pattern needs its bundled list while a matching URL is pending and none
\* is installed.
NeededPreloads(installed, pending) ==
  {p \in Preload : /\ Matches[p] \cap pending # {}
                   /\ Matches[p] \cap installed = {}}

\* Faulty: told of the subscriptions before they change.
UpdatePreloadedTooEarly == preloaded' = NeededPreloads(Ready, Pending)

UpdatePreloadedSubscriptionProvider ==
  preloaded' = NeededPreloads(Ready', Pending')

\* Installation objects somebody still holds a reference to: a new object
\* differs from all of them, but may be where a released one was.
Referenced ==
  ongoing_installations
    \cup {d.installation : d \in ongoing_downloads}
    \cup {t.installation : t \in stores}

IsFresh(u, g) == [url |-> u, generation |-> g] \notin Referenced
HasFresh(u) == \E g \in Generation : IsFresh(u, g)
Fresh(u) == [url |-> u, generation |-> CHOOSE g \in Generation : IsFresh(u, g)]

\* One more or one fewer entry.  (Faulty: the entry is not removed.)
Plus(n) == n + 1
NotRemoved(n) == n
Minus(n) == IF n > 0 THEN n - 1 ELSE 0

\* The storage takes note of a file, or drops it.  (Faulty: it keeps it.)
KeepFile(files, u) == files
AddFile(files, u) == [files EXCEPT ![u] = @ + 1]
RemoveSubscription(files, u) ==
  [files EXCEPT ![u] = IF @ > 0 THEN @ - 1 ELSE 0]

\* An installation is cancelled by no longer being among the ongoing ones.
\* (Faulty: nobody looks.)
NeverCancelled(i) == FALSE
IsCancelled(i) == i \notin ongoing_installations

\* DownloadAndInstallSubscription.  (Faulty: new lists are not retried.)
NoRetries(is_an_update) == "DoNotRetry"
RetryPolicyFor(is_an_update) ==
  IF is_an_update THEN "DoNotRetry" ELSE "RetryUntilSucceeded"

\* The metadata of the Acceptable Ads list is retained.  (Faulty: it is not.)
AllForgotten(urls) == urls
Forgotten(urls) == urls \ {AcceptableAdsUrl}

\* SetCustomFilters.  (Faulty: it waits for the storage, and is not called
\* again.)
SetCustomFiltersOnceLoaded ==
  custom_filters' = IF status = "Initialized" THEN configured_filters'
                    ELSE custom_filters
SetCustomFilters == custom_filters' = configured_filters'

-----------------------------------------------------------------------------
(* Synchronizing with the configuration.                                   *)

\* InstallMissingSubscriptions: what is neither installed nor pending.
Missing(demand, installed, pending) == demand \ (installed \cup pending)

\* RemoveUnneededSubscriptions subtracts the demanded URLs from the sorted
\* concatenation of the installed and the pending ones with set_difference,
\* which works on multisets: the result has m - n copies of a URL that
\* occurs m times in the concatenation and n times in the demand.  (No URL
\* is pending twice, see OneInstallationPerUrl.)
Listed(u, current, pending) == current[u] + (IF u \in pending THEN 1 ELSE 0)
Unneeded(demand, current, pending) ==
  {u \in Url : Listed(u, current, pending) > (IF u \in demand THEN 1 ELSE 0)}

\* UninstallSubscription as often as a URL is unneeded: each call removes an
\* installed entry and an ongoing installation, if there are any.
Remaining(n, calls) == IF n > calls THEN n - calls ELSE 0
AfterUninstall(count, demand, current, pending) ==
  [u \in Url |->
     Remaining(count[u],
       Remaining(Listed(u, current, pending), IF u \in demand THEN 1 ELSE 0))]

\* OnFilterListsChanged: InstallMissingSubscriptions, then
\* RemoveUnneededSubscriptions, starting from the given installed entries.
\* A missing URL that is not allowed fails at once and leaves no trace.
OnFilterListsChanged(demand, current, files) ==
  LET installed == {u \in Url : current[u] > 0}
      missing   == Missing(demand, installed, Pending)
      started   == {Fresh(u) : u \in missing \cap AllowedUrl}
      ongoing   == ongoing_installations \cup started
      unneeded  == Unneeded(demand, current, Urls(ongoing))
      cancelled == unneeded \cap Urls(ongoing)
  IN  /\ \A u \in missing \cap AllowedUrl : HasFresh(u)
      /\ current_state' = AfterUninstall(current, demand, current, Urls(ongoing))
      /\ backing_files' = AfterUninstall(files, demand, current, Urls(ongoing))
      /\ ongoing_installations' = {i \in ongoing : i.url \notin unneeded}
      /\ ongoing_downloads' = CancelDownload(
           StartDownload(ongoing_downloads, started, RetryPolicyFor(FALSE)),
           cancelled)
      /\ metadata_map' =
           RemoveMetadata(metadata_map, Forgotten(unneeded))
      /\ IF missing \cup unneeded = {} THEN UNCHANGED preloaded
         ELSE UpdatePreloadedSubscriptionProvider

\* The configuration gains or loses a list; its observer reacts at once,
\* unless the storage is still being loaded.
FilterListsChange(demand) ==
  /\ demanded' = demand
  /\ IF status = "Initialized"
     THEN OnFilterListsChanged(demand, current_state, backing_files)
     ELSE UNCHANGED <<current_state, backing_files, ongoing_installations,
                      ongoing_downloads, metadata_map, preloaded>>
  /\ UNCHANGED <<written_metadata, conversions, ongoing_ping, stores,
                 custom_filters, configured_filters, status, crashed>>

AddFilterList(u) == u \notin demanded /\ FilterListsChange(demanded \cup {u})

RemoveFilterList(u) == u \in demanded /\ FilterListsChange(demanded \ {u})

\* OnCustomFiltersChanged, OnAllowedDomainsChanged: also while loading.
CustomFiltersChange(filters) ==
  /\ filters # configured_filters
  /\ configured_filters' = filters
  /\ SetCustomFilters
  /\ UNCHANGED <<metadata_map, written_metadata, downloader_vars, demanded,
                 status, crashed, current_state, backing_files,
                 ongoing_installations, stores, preloaded>>

\* RemoveDuplicateSubscriptions: one entry per URL stays, its file with it.
WithoutDuplicates(loaded) ==
  [u \in Url |-> IF loaded[u] > 0 THEN 1 ELSE 0]

\* The storage has been loaded.
StorageInitialized(loaded) ==
  /\ status = "Uninitialized"
  /\ status' = "Initialized"
  /\ OnFilterListsChanged(demanded, WithoutDuplicates(loaded),
                          WithoutDuplicates(loaded))
  /\ UNCHANGED <<written_metadata, conversions, ongoing_ping, stores, demanded,
                 configured_filters, crashed>>
  /\ SetCustomFilters

-----------------------------------------------------------------------------
(* Updates.                                                                *)

\* Installed, expired, and not being installed already.  (Faulty: or so.)
DueThoughPending == {u \in Ready : IsExpired(u)}
DueForUpdate == {u \in Ready : IsExpired(u) /\ u \notin Pending}

\* RunUpdateCheck, from the updater's timer: update what is due, and count
\* the user with a HEAD request if Acceptable Ads is not in use.
RunUpdateCheck ==
  LET started == {Fresh(u) : u \in DueForUpdate \cap AllowedUrl}
  IN  /\ status = "Initialized"
      /\ \A u \in DueForUpdate \cap AllowedUrl : HasFresh(u)
      /\ ongoing_installations' = ongoing_installations \cup started
      /\ ongoing_downloads' =
           StartDownload(ongoing_downloads, started, RetryPolicyFor(TRUE))
      /\ IF DueForUpdate = {}
         THEN UNCHANGED preloaded
         ELSE preloaded' = NeededPreloads(Ready, Pending')
      /\ IF /\ IsAdblock
            /\ AcceptableAdsUrl \notin Ready \cup preloaded' \cup Pending'
            /\ IsExpired(AcceptableAdsUrl)
         THEN DoHeadRequest
         ELSE UNCHANGED ongoing_ping
      /\ UNCHANGED <<metadata_map, conversions, current_state, backing_files,
                     stores, custom_filters, config_and_status>>

\* OnHeadRequestDone.
HeadRequestDone(version_known) ==
  /\ HeadersOnlyDownloaded
  /\ metadata_map' =
       IF version_known
       THEN SetExpirationInterval(metadata_map, AcceptableAdsUrl)
       ELSE metadata_map
  /\ UNCHANGED <<maintainer_vars, config_and_status>>

\* Time passes for one URL's metadata.
Expire(u) ==
  /\ "expiry" \in Faults
  /\ ExpirationTimePasses(u)
  /\ UNCHANGED <<downloader_vars, maintainer_vars, demanded,
                 configured_filters, status, crashed>>

-----------------------------------------------------------------------------
(* Answers of the downloader.                                              *)

\* Faulty: the failure is not looked at.
DownloadFailureIgnored(i) == UNCHANGED maintainer_vars

\* Faulty: the version that was to be updated goes with the update.
UninstalledWithDownload(i) ==
  /\ ongoing_installations' = ongoing_installations \ {i}
  /\ current_state' = [current_state EXCEPT ![i.url] = 0]
  /\ backing_files' = [backing_files EXCEPT ![i.url] = 0]
  /\ UNCHANGED <<stores, custom_filters>>
  /\ UpdatePreloadedSubscriptionProvider

\* OnSubscriptionDataAvailable with null.  (Erasing an installation that was
\* cancelled changes nothing; both branches refresh the bundled lists.)
DownloadFailed(i) ==
  /\ ongoing_installations' = ongoing_installations \ {i}
  /\ UNCHANGED <<current_state, backing_files, stores, custom_filters>>
  /\ UpdatePreloadedSubscriptionProvider

\* OnSubscriptionDataAvailable with a flatbuffer.
DataAvailable(i, url) ==
  /\ IF IsCancelled(i)
     THEN /\ UNCHANGED stores
          /\ preloaded' = NeededPreloads(Ready, Pending)
     ELSE /\ stores' = stores \cup {[installation |-> i, url |-> url]}
          /\ UNCHANGED preloaded
  /\ UNCHANGED <<current_state, backing_files, ongoing_installations,
                 custom_filters>>

DownloadFails(d, e) ==
  /\ \/ Retry(d, e) /\ UNCHANGED maintainer_vars
     \/ Abandon(d, e) /\ DownloadFailed(e.installation)
  /\ UNCHANGED config_and_status

DownloadSucceeds(d) ==
  StartConversion(d) /\ UNCHANGED <<maintainer_vars, config_and_status>>

BackoffEnds(d) ==
  RetryTimerFires(d) /\ UNCHANGED <<maintainer_vars, config_and_status>>

ConversionDiscarded(u) ==
  Discard(u) /\ UNCHANGED <<maintainer_vars, config_and_status>>

ConversionSucceeds(d) ==
  /\ Deliver(d)
  /\ DataAvailable(d.installation, d.url)
  /\ UNCHANGED config_and_status

ConversionFails(d) ==
  /\ "conversion" \in Faults
  /\ AbortOnError(d)
  /\ DownloadFailed(d.installation)
  /\ UNCHANGED config_and_status

RedirectRefused(d, target) ==
  /\ AbortOnRedirect(d, target)
  /\ DownloadFailed(d.installation)
  /\ UNCHANGED config_and_status

RedirectFollowed(d, target) ==
  Redirect(d, target) /\ UNCHANGED <<maintainer_vars, config_and_status>>

\* OnDownloadFinished finds no entry: a failed DCHECK, and without DCHECKs
\* the use of the map's end iterator.  Nothing after that is defined.
DownloadUnknown(d) ==
  /\ d.loader /\ FoundEntries(d) = {}
  /\ crashed' = TRUE
  /\ UNCHANGED <<metadata_map, written_metadata, downloader_vars,
                 maintainer_vars, demanded, configured_filters, status>>

\* A redirect that a build with DCHECKs does not survive.
RedirectAsserts(d, target) ==
  /\ RedirectsToItself(d, target)
  /\ crashed' = TRUE
  /\ UNCHANGED <<metadata_map, written_metadata, downloader_vars,
                 maintainer_vars, demanded, configured_filters, status>>

-----------------------------------------------------------------------------
(* Answers of the storage.                                                 *)

\* SubscriptionStored before it runs its callback.
SubscriptionStored(u) ==
  metadata_map' = SetExpirationInterval(
                    IncrementDownloadSuccessCount(metadata_map, u), u)

\* SubscriptionAddedToStorage with a subscription: it replaces whatever has
\* its URL, also an ongoing installation of that URL.
SubscriptionInstalled(t) ==
  LET others  == ongoing_installations \ {t.installation}
      clashes == {i \in others : i.url = t.url}
      replaces == current_state[t.url] > 0
  IN  /\ ~ IsCancelled(t.installation)
      /\ SubscriptionStored(t.url)
      /\ stores' = stores \ {t}
      /\ ongoing_installations' = others \ clashes
      /\ ongoing_downloads' =
           CancelDownload(ongoing_downloads, Urls(clashes))
      /\ current_state' = [current_state EXCEPT ![t.url] = Plus(Minus(@))]
      /\ backing_files' =
           IF replaces
           THEN RemoveSubscription(AddFile(backing_files, t.url), t.url)
           ELSE AddFile(backing_files, t.url)
      /\ UpdatePreloadedSubscriptionProvider
      /\ UNCHANGED <<conversions, ongoing_ping, custom_filters,
                     config_and_status>>

\* The same for a cancelled installation: the file is removed again.
CancelledSubscriptionStored(t) ==
  /\ IsCancelled(t.installation)
  /\ SubscriptionStored(t.url)
  /\ stores' = stores \ {t}
  /\ backing_files' = RemoveSubscription(AddFile(backing_files, t.url), t.url)
  /\ preloaded' = NeededPreloads(Ready, Pending)
  /\ UNCHANGED <<downloader_vars, current_state, ongoing_installations,
                 custom_filters, config_and_status>>

\* SubscriptionAddedToStorage with null.
StoreFails(t) ==
  /\ "store" \in Faults
  /\ ~ IsCancelled(t.installation)
  /\ stores' = stores \ {t}
  /\ ongoing_installations' = ongoing_installations \ {t.installation}
  /\ UNCHANGED <<metadata_map, downloader_vars, current_state, backing_files,
                 custom_filters, config_and_status>>
  /\ UpdatePreloadedSubscriptionProvider

\* SubscriptionAddedToStorage with null for a cancelled installation asks
\* the storage to remove null: a failed DCHECK, and without DCHECKs the use
\* of the map's end iterator.
CancelledStoreFails(t) ==
  /\ "store" \in Faults
  /\ IsCancelled(t.installation)
  /\ stores' = stores \ {t}
  /\ crashed' = TRUE
  /\ UNCHANGED <<metadata_map, written_metadata, downloader_vars,
                 current_state, backing_files, ongoing_installations,
                 preloaded, custom_filters, demanded, configured_filters,
                 status>>

-----------------------------------------------------------------------------
\* A new maintainer begins to load the storage.  Answers to the former one
\* are dropped.
NewMaintainer ==
  /\ status' = "Uninitialized"
  /\ DownloaderStops
  /\ current_state' = [u \in Url |-> 0]
  /\ backing_files' = [u \in Url |-> 0]
  /\ ongoing_installations' = {}
  /\ stores' = {}
  /\ preloaded' = {}
  /\ custom_filters' = {}
  /\ UNCHANGED <<demanded, configured_filters>>

\* The configuration is disabled and enabled, or the browser ends, having
\* written its preferences, and starts again.
Restart ==
  /\ "restart" \in Faults
  /\ ~ crashed
  /\ NewMaintainer
  /\ UNCHANGED <<metadata_map, written_metadata, crashed>>

\* The preferences are written.  (Only a crash finds out.)
PrefsWritten ==
  /\ "crash" \in Faults
  /\ ~ crashed
  /\ MetadataWritten
  /\ UNCHANGED <<downloader_vars, maintainer_vars, demanded,
                 configured_filters, status, crashed>>

\* The browser crashes, on a failed DCHECK or for another reason, and starts
\* again with the preferences as they were written.  (What it may lose of
\* the configuration is like a change back before the storage is loaded.)
Crash ==
  /\ crashed \/ "crash" \in Faults
  /\ crashed' = FALSE
  /\ NewMaintainer
  /\ metadata_map' = written_metadata
  /\ UNCHANGED written_metadata

\* What the storage may hold: installed lists and, after a crash between an
\* update's two file operations, a second file of the same URL.
Loadable == [Url -> 0..MaxLoaded]

ConfigurationStep ==
  \/ \E u \in Url : AddFilterList(u) \/ RemoveFilterList(u)
  \/ \E filters \in SUBSET CustomFilter : CustomFiltersChange(filters)

DownloaderStep ==
  \/ \E d \in ongoing_downloads :
       \/ \E e \in FoundEntries(d) : DownloadFails(d, e)
       \/ DownloadSucceeds(d)
       \/ BackoffEnds(d)
       \/ ConversionSucceeds(d)
       \/ ConversionFails(d)
       \/ DownloadUnknown(d)
       \/ \E target \in Url : \/ RedirectRefused(d, target)
                              \/ RedirectFollowed(d, target)
                              \/ RedirectAsserts(d, target)
  \/ \E u \in Url : ConversionDiscarded(u)
  \/ \E known \in BOOLEAN : HeadRequestDone(known)

StorageStep ==
  \/ \E loaded \in Loadable : StorageInitialized(loaded)
  \/ \E t \in stores :
       \/ SubscriptionInstalled(t)
       \/ CancelledSubscriptionStored(t)
       \/ StoreFails(t)
       \/ CancelledStoreFails(t)

Next ==
  \/ /\ ~ crashed
     /\ \/ ConfigurationStep
        \/ DownloaderStep
        \/ StorageStep
        \/ RunUpdateCheck
        \/ \E u \in Url : Expire(u)
  \/ Restart
  \/ PrefsWritten
  \/ Crash

Spec == Init /\ [][Next]_vars

-----------------------------------------------------------------------------
(* Safety.                                                                 *)

\* No URL is installed twice: an update takes the place of the version it
\* updates, and duplicates found on disk are dropped (the comment in
\* StorageInitialized demands it of current_state_).
UniqueInstalled == \A u \in Url : current_state[u] <= 1

\* No URL is being installed twice at a time, so the update check, a change
\* of the configuration and a late answer never compete for one URL.
OneInstallationPerUrl ==
  \A i, j \in ongoing_installations : i.url = j.url => i = j

\* The storage keeps a file for exactly the installed subscriptions: none
\* is left behind by a cancelled installation, a replaced version or a
\* duplicate, and none is removed that is still in use.
StorageGovernsInstalled == backing_files = current_state

\* The bundled lists in use are always those that stand in for a pending
\* list: no path through the handlers forgets to refresh them.
PreloadedConsistent == preloaded = NeededPreloads(Ready, Pending)

\* Once loaded, custom filters and allowed domains in force are the
\* configuration's, also when they changed while the storage was loading.
CustomFiltersInForce ==
  status = "Initialized" => custom_filters = configured_filters

\* Without redirects, nothing is installed or being installed that the
\* configuration does not demand; in particular an answer that arrives after its list was removed
\* does not bring the list back.
OnlyDemanded == status = "Initialized" => Ready \cup Pending \subseteq demanded

\* With redirects, what is installed or being installed is demanded or is
\* where redirects from a demanded list lead to: the smallest set of URLs
\* closed under redirects.
Reachable(u) ==
  {v \in Url : \A S \in SUBSET Url :
     u \in S /\ (\A x \in S : RedirectsTo[x] \subseteq S) => v \in S}
Obtainable(urls) == UNION {Reachable(u) : u \in urls}
OnlyObtainable ==
  status = "Initialized" => Ready \cup Pending \subseteq Obtainable(demanded)

\* Every ongoing installation has something running that will end it: a
\* request, a back-off timer, a conversion or a store.  (Its callback has
\* not been lost; subscription_downloader.h promises that |on_finished|
\* will be called.)
EveryInstallationProgresses ==
  \A i \in ongoing_installations :
    \/ \E t \in stores : t.installation = i
    \/ \E d \in ongoing_downloads :
         /\ d.installation = i
         /\ d.loader \/ d.retry_timer \/ conversions[d.url] > 0

\* No download outlives its installation: cancelling an installation also
\* cancels its download (subscription_downloader.h: CancelDownload cancels
\* "ongoing downloads for matching |url|, including retry attempts").
NoOrphanDownload ==
  \A d \in ongoing_downloads : d.installation \in ongoing_installations

\* A list that is not installed is retried until it is; the update of an
\* installed one is tried once, and left to the next update check.
OnlyUpdatesGiveUp ==
  \A d \in ongoing_downloads :
    d.retry_policy = "DoNotRetry" <=> d.url \in Ready

\* No DCHECK about the downloader's or the storage's maps fails.
NeverCrashes == ~ crashed

\* No answer of the network, the converter or the storage takes an installed
\* list away: a failed update leaves the version it was to replace.
AnswersKeepInstalled ==
  [][status' = "Initialized" /\ demanded' = demanded => Ready \subseteq Ready']_vars

\* A change of the filter lists uninstalls none that is demanded before and
\* after it.
DemandedStaysInstalled ==
  [][status' = "Initialized" => Ready \cap demanded \cap demanded'
                                  \subseteq Ready']_vars

\* What is counted for Acceptable Ads is not forgotten, also not when the
\* list is removed and installed again: only a crash takes the count back,
\* to what was written, and what was written is never less than before.
Count(metadata) == metadata[AcceptableAdsUrl].download_count
AcceptableAdsCountKept ==
  [][/\ Count(written_metadata') >= Count(written_metadata)
     /\ \/ Count(metadata_map') >= Count(metadata_map)
        \/ status' = "Uninitialized" /\ metadata_map' = written_metadata]_vars

-----------------------------------------------------------------------------
(* Liveness.                                                               *)

Download(u) == {d \in ongoing_downloads : d.url = u}

\* The thread pool runs what it is given, timers fire, and a request ends.
\* Of infinitely many attempts to fetch or convert a list some succeed.
Fairness ==
  /\ WF_vars(~ crashed /\ \E loaded \in Loadable : StorageInitialized(loaded))
  /\ \A u \in Url :
       /\ WF_vars(~ crashed /\ \E d \in Download(u) :
                    \/ DownloadSucceeds(d)
                    \/ \E e \in FoundEntries(d) : DownloadFails(d, e))
       /\ SF_vars(~ crashed /\ \E d \in Download(u) : DownloadSucceeds(d))
       /\ WF_vars(~ crashed /\ \E d \in Download(u) : BackoffEnds(d))
       /\ WF_vars(~ crashed /\ \/ ConversionDiscarded(u)
                               \/ \E d \in Download(u) :
                                    ConversionSucceeds(d) \/ ConversionFails(d))
       /\ SF_vars(~ crashed /\ \E d \in Download(u) : ConversionSucceeds(d))
       /\ WF_vars(~ crashed /\ \E t \in stores :
                    /\ t.url = u
                    /\ \/ SubscriptionInstalled(t)
                       \/ CancelledSubscriptionStored(t)
                       \/ StoreFails(t))

FairSpec == Spec /\ Fairness

\* Every installation ends: none is pending forever, unless the process runs
\* into a failed assertion.
InstallationsEnd == \A u \in Url : u \in Pending ~> u \notin Pending \/ crashed

\* A demanded list is installed in the end ("Downloads will be retried in
\* case of error", components/adblock/docs/ad-filtering/filter-lists.md),
\* unless it is removed from the configuration before.
DemandIsInstalled ==
  \A u \in AllowedUrl : u \in demanded ~> u \in Ready \/ u \notin demanded
=============================================================================
