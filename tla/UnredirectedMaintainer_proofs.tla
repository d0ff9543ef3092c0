-------------------- MODULE UnredirectedMaintainer_proofs --------------------
(***************************************************************************)
(* Theorems about FilteringConfigurationMaintainer for every value of its  *)
(* constants under which no list names a redirect.  With redirects a       *)
(* download changes its key, and these properties fail.                    *)
(***************************************************************************)
EXTENDS FilteringConfigurationMaintainer_proofs

NoRedirects == \A u \in Url : RedirectsTo[u] = {}

\* Who is answered by what: an entry has the URL of the installation it
\* answers, which is ongoing and is not being stored as well.
Answering(D, T, I) ==
  /\ \A d \in D : d.url = d.installation.url /\ d.installation \in I
  /\ \A d, e \in D : d.url = e.url => d = e
  /\ \A d \in D, t \in T : d.installation # t.installation

Addressed ==
  /\ Answering(ongoing_downloads, stores, ongoing_installations)
  /\ \A t \in stores : t.url = t.installation.url

Exact == TypeOK /\ Consistent /\ Addressed /\ OnlyDemanded

-----------------------------------------------------------------------------
\* Starting downloads for new installations and cancelling the downloads of
\* the installations that are dropped.
LEMMA StartedAndCancelled ==
  ASSUME Addressed, NEW urls, urls \subseteq Url, urls \cap Pending = {},
         \A u \in urls : HasFresh(u),
         NEW policy, NEW dropped,
         ongoing_installations' =
           {i \in ongoing_installations \cup {Fresh(u) : u \in urls} :
              i.url \notin dropped},
         ongoing_downloads' =
           CancelDownload(StartDownload(ongoing_downloads,
                                        {Fresh(u) : u \in urls}, policy),
                          dropped \cap Urls(ongoing_installations
                                            \cup {Fresh(u) : u \in urls})),
         stores' = stores
  PROVE  Addressed'
<1> DEFINE started == {Fresh(u) : u \in urls}
           ongoing == ongoing_installations \cup started
           new     == {NewDownload(i, policy) : i \in started}
<1>1. \A u \in urls : Fresh(u).url = u /\ Fresh(u) \notin Referenced
  BY FreshInstallation
<1>2. \A d \in new : /\ d.installation \in started
                     /\ d.url = d.installation.url
  BY DEF NewDownload
<1>3. \A d, e \in new : d.url = e.url => d = e
  <2>1. \A d \in new : \E u \in urls :
          d = NewDownload(Fresh(u), policy) /\ d.url = u
    BY <1>1 DEF NewDownload
  <2>2. QED
    BY <2>1
<1>4. \A d \in ongoing_downloads' :
        \/ d \in new
        \/ /\ d \in ongoing_downloads
           /\ \A e \in new : d.url # e.url
  BY DEF CancelDownload, StartDownload, NewDownload
<1>5. \A d \in ongoing_downloads' : d.url = d.installation.url
  BY <1>2, <1>4 DEF Addressed, Answering
<1>6. \A d, e \in ongoing_downloads' : d.url = e.url => d = e
  BY <1>3, <1>4 DEF Addressed, Answering
<1>7. \A d \in ongoing_downloads', t \in stores' :
        d.installation # t.installation
  BY <1>1, <1>2, <1>4 DEF Addressed, Answering, Referenced
<1>8. \A d \in ongoing_downloads' : d.installation \in ongoing_installations'
  <2>1. \A d \in ongoing_downloads' : d.installation \in ongoing
    BY <1>2, <1>4 DEF Addressed, Answering
  <2>2. \A i \in ongoing : i.url \in Urls(ongoing)
    BY DEF Urls
  <2>3. \A d \in ongoing_downloads' : d.url \notin dropped \cap Urls(ongoing)
    BY DEF CancelDownload
  <2>4. QED
    BY <1>5, <2>1, <2>2, <2>3
<1>9. QED
  BY <1>5, <1>6, <1>7, <1>8 DEF Addressed, Answering

\* Synchronizing with a demand.
LEMMA SynchronizingAddressed ==
  ASSUME Addressed, stores' = stores,
         NEW demand \in SUBSET Url, NEW current, NEW files,
         OnFilterListsChanged(demand, current, files)
  PROVE  Addressed'
<1> DEFINE missing  == Missing(demand, {u \in Url : current[u] > 0}, Pending)
           urls     == missing \cap AllowedUrl
           ongoing  == ongoing_installations \cup {Fresh(u) : u \in urls}
           unneeded == Unneeded(demand, current, Urls(ongoing))
<1>1. urls \subseteq Url /\ urls \cap Pending = {}
  BY DEF Missing
<1>2. \A u \in urls : HasFresh(u)
  BY DEF OnFilterListsChanged
<1>3. ongoing_installations' = {i \in ongoing : i.url \notin unneeded}
  BY DEF OnFilterListsChanged
<1>4. ongoing_downloads' =
        CancelDownload(StartDownload(ongoing_downloads,
                                     {Fresh(u) : u \in urls},
                                     RetryPolicyFor(FALSE)),
                       unneeded \cap Urls(ongoing))
  BY DEF OnFilterListsChanged
<1>5. QED
  BY <1>1, <1>2, <1>3, <1>4, StartedAndCancelled

LEMMA ConfigurationStepExact ==
  Exact /\ ConfigurationStep => Addressed' /\ OnlyDemanded'
<1> SUFFICES ASSUME Exact, ConfigurationStep
             PROVE  Addressed' /\ OnlyDemanded'
  OBVIOUS
<1> USE DEF Exact
<1>1. ASSUME NEW demand \in SUBSET Url, FilterListsChange(demand)
      PROVE  Addressed' /\ OnlyDemanded'
  <2>1. stores' = stores /\ demanded' = demand /\ status' = status
    BY <1>1 DEF FilterListsChange
  <2>2. CASE status = "Initialized"
    <3>1. OnFilterListsChanged(demand, current_state, current_state)
      BY <1>1, <2>2
      DEF FilterListsChange, Consistent, StorageGovernsInstalled
    <3>2. current_state \in [Url -> Nat]
      BY DEF TypeOK
    <3>3. Ready' \cup Pending' \subseteq demand
      BY <3>1, <3>2, SynchronizingConsistent DEF Consistent, UniqueInstalled
    <3>4. QED
      BY <2>1, <3>1, <3>3, SynchronizingAddressed DEF OnlyDemanded
  <2>3. CASE status # "Initialized"
    BY <1>1, <2>1, <2>3
    DEF FilterListsChange, Addressed, OnlyDemanded, Ready, Pending
  <2>4. QED
    BY <2>2, <2>3
<1>2. ASSUME NEW u \in Url, AddFilterList(u) \/ RemoveFilterList(u)
      PROVE  Addressed' /\ OnlyDemanded'
  <2>1. demanded \cup {u} \in SUBSET Url /\ demanded \ {u} \in SUBSET Url
    BY DEF TypeOK
  <2>2. QED
    BY <1>1, <1>2, <2>1 DEF AddFilterList, RemoveFilterList
<1>3. ASSUME NEW filters \in SUBSET CustomFilter, CustomFiltersChange(filters)
      PROVE  Addressed' /\ OnlyDemanded'
  BY <1>3 DEF CustomFiltersChange, downloader_vars, Addressed,
              OnlyDemanded, Ready, Pending
<1>4. QED
  BY <1>2, <1>3 DEF ConfigurationStep

LEMMA UpdateExact ==
  Exact /\ (RunUpdateCheck \/ \E u \in Url : Expire(u))
    => Addressed' /\ OnlyDemanded'
<1> USE DEF Exact
<1>1. ASSUME Exact, RunUpdateCheck
      PROVE  Addressed' /\ OnlyDemanded'
  <2> DEFINE due     == DueForUpdate \cap AllowedUrl
             started == {Fresh(u) : u \in due}
             ongoing == ongoing_installations \cup started
  <2>1. due \subseteq Url /\ due \cap Pending = {} /\ due \subseteq Ready
    BY DEF DueForUpdate, Ready
  <2>2. \A u \in due : HasFresh(u)
    BY <1>1 DEF RunUpdateCheck
  <2>3. /\ ongoing_installations' = {i \in ongoing : i.url \notin {}}
        /\ stores' = stores
    BY <1>1 DEF RunUpdateCheck
  <2>4. ongoing_downloads' =
          CancelDownload(StartDownload(ongoing_downloads, started,
                                       RetryPolicyFor(TRUE)),
                         {} \cap Urls(ongoing))
    BY <1>1 DEF RunUpdateCheck, CancelDownload
  <2>5. Addressed'
    BY <1>1, <2>1, <2>2, <2>3, <2>4, StartedAndCancelled
  <2>6. \A i \in ongoing_installations' : i.url \in Pending \cup Ready
    BY <2>1, <2>2, <2>3, FreshInstallation DEF Pending, Urls
  <2>7. Pending' \subseteq Pending \cup Ready /\ Ready' = Ready
    BY <1>1, <2>6 DEF RunUpdateCheck, Ready, Pending, Urls
  <2>8. OnlyDemanded'
    BY <1>1, <2>7 DEF RunUpdateCheck, OnlyDemanded, config_and_status
  <2>9. QED
    BY <2>5, <2>8
<1>2. ASSUME Exact, NEW u \in Url, Expire(u)
      PROVE  Addressed' /\ OnlyDemanded'
  BY <1>2 DEF Expire, downloader_vars, maintainer_vars, Addressed,
              OnlyDemanded, Ready, Pending
<1>3. QED
  BY <1>1, <1>2

\* An entry changes, but neither its URL nor whom it answers.
LEMMA EntryChanged ==
  ASSUME NEW D, NEW T, NEW I, Answering(D, T, I), NEW d \in D, NEW e,
         e.url = d.url, e.installation = d.installation
  PROVE  Answering((D \ {d}) \cup {e}, T, I)
BY DEF Answering

\* An entry answers its installation, and both are gone.
LEMMA EntryAnswered ==
  ASSUME NEW D, NEW T, NEW I, Answering(D, T, I), NEW d \in D
  PROVE  Answering(D \ {d}, T, I \ {d.installation})
BY DEF Answering

\* An entry hands its installation on to a store.
LEMMA EntryStored ==
  ASSUME NEW D, NEW T, NEW I, Answering(D, T, I), NEW d \in D, NEW t,
         t.installation = d.installation
  PROVE  Answering(D \ {d}, T \cup {t}, I)
BY DEF Answering

\* The end of an entry's request is such a change.
LEMMA RequestOver ==
  ASSUME TypeOK, Addressed, NEW d \in ongoing_downloads
  PROVE  Answering(LoaderDone(d), stores, ongoing_installations)
<1>1. d \in OngoingDownload
  BY DEF TypeOK, DownloaderTypeOK
<1>2. /\ [d EXCEPT !.loader = FALSE].url = d.url
      /\ [d EXCEPT !.loader = FALSE].installation = d.installation
  BY <1>1 DEF OngoingDownload
<1>3. QED
  BY <1>2, EntryChanged DEF LoaderDone, Addressed

LEMMA DownloadFailsAddressed ==
  ASSUME TypeOK, Addressed, NEW d \in ongoing_downloads,
         NEW e \in FoundEntries(d), DownloadFails(d, e)
  PROVE  Addressed'
<1>1. Answering(LoaderDone(d), stores, ongoing_installations)
  BY RequestOver
<1>2. e \in LoaderDone(d) /\ e \in OngoingDownload
  BY LoaderDoneTypes DEF FoundEntries
<1>3. CASE Retry(d, e) /\ UNCHANGED maintainer_vars
  <2>1. /\ [e EXCEPT !.retry_timer = TRUE].url = e.url
        /\ [e EXCEPT !.retry_timer = TRUE].installation = e.installation
    BY <1>2 DEF OngoingDownload
  <2>2. Answering((LoaderDone(d) \ {e}) \cup {[e EXCEPT !.retry_timer = TRUE]},
                  stores, ongoing_installations)
    BY <1>1, <1>2, <2>1, EntryChanged
  <2>3. QED
    BY <1>3, <2>2 DEF Retry, maintainer_vars, Addressed
<1>4. CASE Abandon(d, e) /\ DownloadFailed(e.installation)
  <2>1. Answering(LoaderDone(d) \ {e}, stores,
                  ongoing_installations \ {e.installation})
    BY <1>1, <1>2, EntryAnswered
  <2>2. QED
    BY <1>4, <2>1 DEF Abandon, DownloadFailed, Addressed
<1>5. QED
  BY <1>3, <1>4 DEF DownloadFails

\* Nothing becomes installed or pending.
LEMMA NothingNew ==
  ASSUME OnlyDemanded, ongoing_installations' \subseteq ongoing_installations,
         UNCHANGED <<current_state, demanded, status>>
  PROVE  OnlyDemanded'
BY DEF OnlyDemanded, Ready, Pending, Urls

LEMMA DownloaderStepExact ==
  ASSUME NoRedirects, Exact, DownloaderStep
  PROVE  Addressed' /\ OnlyDemanded'
<1> USE DEF Exact, config_and_status
<1>1. OnlyDemanded'
  <2>1. /\ ongoing_installations' \subseteq ongoing_installations
        /\ UNCHANGED <<current_state, demanded, status>>
    BY DEF DownloaderStep, DownloadFails, DownloadFailed, DownloadSucceeds,
           BackoffEnds, ConversionSucceeds, DataAvailable, ConversionFails,
           DownloadUnknown, RedirectRefused, RedirectFollowed, RedirectAsserts,
           ConversionDiscarded, HeadRequestDone, maintainer_vars
  <2>2. QED
    BY <2>1, NothingNew
<1>2. ASSUME NEW d \in ongoing_downloads, DownloadSucceeds(d)
      PROVE  Addressed'
  BY <1>2, RequestOver
  DEF DownloadSucceeds, StartConversion, maintainer_vars, Addressed
<1>3. ASSUME NEW d \in ongoing_downloads, BackoffEnds(d)
      PROVE  Addressed'
  <2> DEFINE e == [d EXCEPT !.retry_timer = FALSE, !.loader = TRUE]
  <2>1. e.url = d.url /\ e.installation = d.installation
    BY DEF TypeOK, DownloaderTypeOK, OngoingDownload
  <2>2. Answering((ongoing_downloads \ {d}) \cup {e}, stores,
                  ongoing_installations)
    BY <2>1, EntryChanged DEF Addressed
  <2>3. QED
    BY <1>3, <2>2 DEF BackoffEnds, RetryTimerFires, maintainer_vars, Addressed
<1>4. ASSUME NEW d \in ongoing_downloads, ConversionSucceeds(d)
      PROVE  Addressed'
  <2> DEFINE t == [installation |-> d.installation, url |-> d.url]
  <2>1. /\ ongoing_downloads' = ongoing_downloads \ {d}
        /\ ongoing_installations' = ongoing_installations
        /\ stores' \in {stores, stores \cup {t}}
    BY <1>4 DEF ConversionSucceeds, Deliver, DataAvailable
  <2>2. Answering(ongoing_downloads \ {d}, stores \cup {t},
                  ongoing_installations)
    BY EntryStored DEF Addressed
  <2>3. Answering(ongoing_downloads \ {d}, stores, ongoing_installations)
    BY <2>2 DEF Answering
  <2>4. t.url = t.installation.url
    BY DEF Addressed, Answering
  <2>5. CASE stores' = stores
    BY <2>1, <2>3, <2>5 DEF Addressed
  <2>6. CASE stores' = stores \cup {t}
    <3>1. \A x \in stores' : x.url = x.installation.url
      BY <2>4, <2>6 DEF Addressed
    <3>2. QED
      BY <2>1, <2>2, <2>6, <3>1 DEF Addressed
  <2>7. QED
    BY <2>1, <2>5, <2>6
<1>5. ASSUME NEW d \in ongoing_downloads,
             AbortWithWarning(d), DownloadFailed(d.installation)
      PROVE  Addressed'
  <2>1. Answering(ongoing_downloads \ {d}, stores,
                  ongoing_installations \ {d.installation})
    BY EntryAnswered DEF Addressed
  <2>2. QED
    BY <1>5, <2>1 DEF AbortWithWarning, DownloadFailed, Addressed
<1>6. ASSUME NEW d \in ongoing_downloads,
             \/ ConversionFails(d)
             \/ \E target \in Url : RedirectRefused(d, target)
      PROVE  Addressed'
  BY <1>5, <1>6
  DEF ConversionFails, AbortOnError, RedirectRefused, AbortOnRedirect
<1>7. ASSUME NEW d \in ongoing_downloads, NEW target \in Url
      PROVE  ~ RedirectFollowed(d, target) /\ ~ RedirectAsserts(d, target)
  <2>1. d.url \in Url
    BY DEF TypeOK, DownloaderTypeOK, OngoingDownload
  <2>2. QED
    BY <2>1 DEF RedirectFollowed, Redirect, RedirectAsserts,
       RedirectsToItself, IsRedirect, NoRedirects
<1>8. ASSUME \/ \E d \in ongoing_downloads : DownloadUnknown(d)
             \/ \E u \in Url : ConversionDiscarded(u)
             \/ \E known \in BOOLEAN : HeadRequestDone(known)
      PROVE  Addressed'
  BY <1>8 DEF DownloadUnknown, ConversionDiscarded, Discard, HeadRequestDone,
              HeadersOnlyDownloaded, downloader_vars, maintainer_vars,
              Addressed
<1>9. Addressed'
  BY <1>2, <1>3, <1>4, <1>6, <1>7, <1>8, DownloadFailsAddressed
  DEF DownloaderStep
<1>10. QED
  BY <1>1, <1>9

LEMMA StorageStepExact ==
  Exact /\ StorageStep => Addressed' /\ OnlyDemanded'
<1> SUFFICES ASSUME Exact, StorageStep
             PROVE  Addressed' /\ OnlyDemanded'
  OBVIOUS
<1> USE DEF Exact, config_and_status
<1>1. ASSUME NEW loaded \in Loadable, StorageInitialized(loaded)
      PROVE  Addressed' /\ OnlyDemanded'
  <2>1. /\ WithoutDuplicates(loaded) \in [Url -> Nat]
        /\ \A u \in Url : WithoutDuplicates(loaded)[u] <= 1
    BY DEF WithoutDuplicates
  <2>2. Pending = {}
    BY <1>1 DEF StorageInitialized, Consistent, NothingBeforeLoading
  <2>3. /\ demanded \in SUBSET Url /\ demanded' = demanded
        /\ stores' = stores
    BY <1>1 DEF StorageInitialized, TypeOK
  <2>4. OnFilterListsChanged(demanded, WithoutDuplicates(loaded),
                             WithoutDuplicates(loaded))
    BY <1>1 DEF StorageInitialized
  <2>5. Ready' \cup Pending' \subseteq demanded
    BY <2>1, <2>2, <2>3, <2>4, SynchronizingConsistent DEF Consistent
  <2>6. Addressed'
    BY <2>3, <2>4, SynchronizingAddressed
  <2>7. QED
    BY <2>3, <2>5, <2>6 DEF OnlyDemanded
<1>2. ASSUME NEW t \in stores, SubscriptionInstalled(t)
      PROVE  Addressed' /\ OnlyDemanded'
  <2>1. /\ t.installation \in ongoing_installations
        /\ t.url = t.installation.url
    BY <1>2 DEF SubscriptionInstalled, IsCancelled, Addressed
  <2>2. {i \in ongoing_installations \ {t.installation} : i.url = t.url} = {}
    BY <2>1 DEF Consistent, OneInstallationPerUrl
  <2>3. /\ ongoing_installations' = ongoing_installations \ {t.installation}
        /\ ongoing_downloads' = ongoing_downloads
        /\ stores' = stores \ {t}
    <3>1. ongoing_downloads' = CancelDownload(ongoing_downloads, Urls({}))
      BY <1>2, <2>2 DEF SubscriptionInstalled
    <3>2. QED
      BY <1>2, <2>2, <3>1 DEF SubscriptionInstalled, CancelDownload, Urls
  <2>4. Addressed'
    BY <2>3 DEF Addressed, Answering
  <2>5. t.url \in Pending
    BY <2>1 DEF Pending, Urls
  <2>6. Pending' \subseteq Pending
    BY <2>3 DEF Pending, Urls
  <2>7. Ready' \subseteq Ready \cup {t.url}
    <3>1. current_state' = [current_state EXCEPT ![t.url] = 1]
      BY <1>2, Replacement DEF Consistent
    <3>2. QED
      BY <3>1 DEF TypeOK, Ready
  <2>8. OnlyDemanded'
    BY <1>2, <2>5, <2>6, <2>7 DEF SubscriptionInstalled, OnlyDemanded
  <2>9. QED
    BY <2>4, <2>8
<1>3. ASSUME NEW t \in stores,
             CancelledSubscriptionStored(t) \/ CancelledStoreFails(t)
      PROVE  Addressed' /\ OnlyDemanded'
  <2>1. /\ stores' = stores \ {t}
        /\ UNCHANGED <<ongoing_downloads, ongoing_installations, current_state,
                       demanded, status>>
    BY <1>3 DEF CancelledSubscriptionStored, CancelledStoreFails,
                downloader_vars
  <2>2. Addressed'
    BY <2>1 DEF Addressed, Answering
  <2>3. QED
    BY <2>1, <2>2, NothingNew
<1>4. ASSUME NEW t \in stores, StoreFails(t)
      PROVE  Addressed' /\ OnlyDemanded'
  <2>1. /\ stores' = stores \ {t}
        /\ ongoing_installations' = ongoing_installations \ {t.installation}
        /\ UNCHANGED <<ongoing_downloads, current_state, demanded, status>>
    BY <1>4 DEF StoreFails, downloader_vars
  <2>2. Addressed'
    BY <2>1 DEF Addressed, Answering
  <2>3. QED
    BY <2>1, <2>2, NothingNew
<1>5. QED
  BY <1>1, <1>2, <1>3, <1>4 DEF StorageStep

LEMMA RestartExact ==
  Exact /\ (Restart \/ Crash \/ PrefsWritten) => Addressed' /\ OnlyDemanded'
<1>1. NewMaintainer => Addressed' /\ OnlyDemanded'
  BY DEF NewMaintainer, DownloaderStops, Addressed, Answering, OnlyDemanded
<1>2. Exact /\ PrefsWritten => Addressed' /\ OnlyDemanded'
  BY DEF PrefsWritten, downloader_vars, maintainer_vars, Exact, Addressed,
         Answering, OnlyDemanded, Ready, Pending
<1>3. QED
  BY <1>1, <1>2 DEF Restart, Crash

LEMMA InitExact == Init => Addressed /\ OnlyDemanded
BY DEF Init, DownloaderInit, Addressed, Answering, OnlyDemanded

LEMMA Exactness ==
  ASSUME NoRedirects
  PROVE  Spec => [](Addressed /\ OnlyDemanded)
<1>1. Exact /\ [Next]_vars => Addressed' /\ OnlyDemanded'
  <2>1. ASSUME Exact, UNCHANGED vars
        PROVE  Addressed' /\ OnlyDemanded'
    BY <2>1 DEF Exact, vars, downloader_vars, maintainer_vars,
                config_and_status, Addressed, Answering, OnlyDemanded, Ready, Pending
  <2>2. QED
    BY <2>1, ConfigurationStepExact, DownloaderStepExact, StorageStepExact,
       UpdateExact, RestartExact DEF Next
<1>2. TypeOK /\ Consistent /\ Addressed /\ OnlyDemanded => Exact
  BY DEF Exact
<1>3. QED
  BY <1>1, <1>2, InitExact, Consistency, PTL DEF Spec

\* Nothing is installed or being installed that is not demanded: in
\* particular a store that ends after its list was removed installs nothing.
THEOREM NothingUnwanted ==
  ASSUME NoRedirects
  PROVE  Spec => []OnlyDemanded
<1>1. QED
  BY Exactness, PTL

\* Cancelling an installation always cancels its download too.
THEOREM NothingOrphaned ==
  ASSUME NoRedirects
  PROVE  Spec => []NoOrphanDownload
<1>1. Addressed => NoOrphanDownload
  BY DEF Addressed, Answering, NoOrphanDownload
<1>2. QED
  BY <1>1, Exactness, PTL

-----------------------------------------------------------------------------
(* New lists are retried and updates are not.                              *)

\* Synchronizing starts downloads of what is not installed, and uninstalls
\* nothing whose download goes on.
LEMMA SynchronizingPolicies ==
  ASSUME TypeOK, Addressed, NEW demand \in SUBSET Url,
         NEW current \in [Url -> Nat], NEW files,
         \A d \in ongoing_downloads :
           d.retry_policy = "DoNotRetry" <=> current[d.url] > 0,
         OnFilterListsChanged(demand, current, files)
  PROVE  OnlyUpdatesGiveUp'
<1> DEFINE missing  == Missing(demand, {u \in Url : current[u] > 0}, Pending)
           urls     == missing \cap AllowedUrl
           started  == {Fresh(u) : u \in urls}
           ongoing  == ongoing_installations \cup started
           unneeded == Unneeded(demand, current, Urls(ongoing))
<1>1. /\ current_state' = AfterUninstall(current, demand, current, Urls(ongoing))
      /\ ongoing_downloads' =
           CancelDownload(StartDownload(ongoing_downloads, started,
                                        RetryPolicyFor(FALSE)),
                          unneeded \cap Urls(ongoing))
      /\ \A u \in urls : HasFresh(u)
  BY DEF OnFilterListsChanged
<1>2. \A u \in Url : current_state'[u] \in Nat /\ current_state'[u] <= current[u]
  BY <1>1, UninstallShrinks
<1>3. ASSUME NEW u \in Url, u \notin unneeded
      PROVE  current_state'[u] = current[u]
  BY <1>1, <1>3 DEF Unneeded, AfterUninstall, Remaining, Listed
<1>4. ASSUME NEW u \in urls
      PROVE  LET d == NewDownload(Fresh(u), RetryPolicyFor(FALSE))
             IN  d.retry_policy = "DoNotRetry" <=> d.url \in Ready'
  <2>1. u \in Url /\ current[u] = 0
    BY DEF Missing
  <2>2. Fresh(u).url = u
    BY <1>1, <2>1, FreshInstallation
  <2>3. u \notin Ready'
    BY <1>2, <2>1 DEF Ready
  <2>4. QED
    BY <2>2, <2>3 DEF NewDownload, RetryPolicyFor
<1>5. ASSUME NEW d \in ongoing_downloads, d.url \notin unneeded \cap Urls(ongoing)
      PROVE  d.retry_policy = "DoNotRetry" <=> d.url \in Ready'
  <2>1. d.url \in Url
    BY DEF TypeOK, DownloaderTypeOK, OngoingDownload
  <2>2. d.url \in Urls(ongoing)
    BY DEF Addressed, Answering, Urls
  <2>3. current_state'[d.url] = current[d.url]
    BY <1>3, <1>5, <2>1, <2>2
  <2>4. QED
    BY <2>1, <2>3 DEF Ready
<1>6. QED
  BY <1>1, <1>4, <1>5 DEF OnlyUpdatesGiveUp, CancelDownload, StartDownload

\* What is downloaded and what is installed are as before.
LEMMA PoliciesKept ==
  ASSUME OnlyUpdatesGiveUp, current_state' = current_state,
         \A d \in ongoing_downloads' : \E e \in ongoing_downloads :
           d.url = e.url /\ d.retry_policy = e.retry_policy
  PROVE  OnlyUpdatesGiveUp'
BY DEF OnlyUpdatesGiveUp, Ready

LEMMA ConfigurationStepPolicies ==
  Exact /\ OnlyUpdatesGiveUp /\ ConfigurationStep => OnlyUpdatesGiveUp'
<1> SUFFICES ASSUME Exact, OnlyUpdatesGiveUp, ConfigurationStep
             PROVE  OnlyUpdatesGiveUp'
  OBVIOUS
<1> USE DEF Exact
<1>1. ASSUME NEW demand \in SUBSET Url, FilterListsChange(demand)
      PROVE  OnlyUpdatesGiveUp'
  <2>1. CASE status = "Initialized"
    <3>1. OnFilterListsChanged(demand, current_state, backing_files)
      BY <1>1, <2>1 DEF FilterListsChange
    <3>2. /\ current_state \in [Url -> Nat]
          /\ \A d \in ongoing_downloads : d.url \in Url
      BY DEF TypeOK, DownloaderTypeOK, OngoingDownload
    <3>3. \A d \in ongoing_downloads :
            d.retry_policy = "DoNotRetry" <=> current_state[d.url] > 0
      BY <3>2 DEF OnlyUpdatesGiveUp, Ready
    <3>4. QED
      BY <3>1, <3>2, <3>3, SynchronizingPolicies
  <2>2. CASE status # "Initialized"
    BY <1>1, <2>2 DEF FilterListsChange, OnlyUpdatesGiveUp, Ready
  <2>3. QED
    BY <2>1, <2>2
<1>2. ASSUME NEW u \in Url, AddFilterList(u) \/ RemoveFilterList(u)
      PROVE  OnlyUpdatesGiveUp'
  <2>1. demanded \cup {u} \in SUBSET Url /\ demanded \ {u} \in SUBSET Url
    BY DEF TypeOK
  <2>2. QED
    BY <1>1, <1>2, <2>1 DEF AddFilterList, RemoveFilterList
<1>3. QED
  BY <1>2, PoliciesKept
  DEF ConfigurationStep, CustomFiltersChange, downloader_vars

LEMMA UpdatePolicies ==
  Exact /\ OnlyUpdatesGiveUp /\ RunUpdateCheck => OnlyUpdatesGiveUp'
<1> SUFFICES ASSUME Exact, OnlyUpdatesGiveUp, RunUpdateCheck
             PROVE  OnlyUpdatesGiveUp'
  OBVIOUS
<1> DEFINE due == DueForUpdate \cap AllowedUrl
<1>1. /\ ongoing_downloads' = StartDownload(ongoing_downloads,
                                {Fresh(u) : u \in due}, RetryPolicyFor(TRUE))
      /\ \A u \in due : HasFresh(u)
      /\ Ready' = Ready
  BY DEF RunUpdateCheck, Ready
<1>2. ASSUME NEW u \in due
      PROVE  LET d == NewDownload(Fresh(u), RetryPolicyFor(TRUE))
             IN  d.retry_policy = "DoNotRetry" /\ d.url \in Ready
  <2>1. u \in Url /\ u \in Ready
    BY DEF DueForUpdate, Ready
  <2>2. Fresh(u).url = u
    BY <1>1, <2>1, FreshInstallation
  <2>3. QED
    BY <2>1, <2>2 DEF NewDownload, RetryPolicyFor
<1>3. QED
  BY <1>1, <1>2 DEF OnlyUpdatesGiveUp, StartDownload

LEMMA DownloaderStepPolicies ==
  ASSUME NoRedirects, Exact, OnlyUpdatesGiveUp, DownloaderStep
  PROVE  OnlyUpdatesGiveUp'
<1> USE DEF Exact
<1> DEFINE Known(D) == \A d \in D : \E e \in ongoing_downloads :
                         d.url = e.url /\ d.retry_policy = e.retry_policy
<1>1. current_state' = current_state
  BY DEF DownloaderStep, DownloadFails, DownloadFailed, DownloadSucceeds,
         BackoffEnds, ConversionSucceeds, DataAvailable, ConversionFails,
         DownloadUnknown, RedirectRefused, RedirectFollowed, RedirectAsserts,
         ConversionDiscarded, HeadRequestDone, maintainer_vars
<1>2. ongoing_downloads \subseteq OngoingDownload
  BY DEF TypeOK, DownloaderTypeOK
<1>3. \A d \in ongoing_downloads : Known(LoaderDone(d))
  BY <1>2 DEF LoaderDone, OngoingDownload
<1>4. ASSUME NEW d \in ongoing_downloads, NEW e \in FoundEntries(d),
             DownloadFails(d, e)
      PROVE  Known(ongoing_downloads')
  <2>1. e \in LoaderDone(d) /\ e \in OngoingDownload
    BY LoaderDoneTypes DEF FoundEntries
  <2>2. /\ [e EXCEPT !.retry_timer = TRUE].url = e.url
        /\ [e EXCEPT !.retry_timer = TRUE].retry_policy = e.retry_policy
    BY <2>1 DEF OngoingDownload
  <2>3. \/ ongoing_downloads' \subseteq LoaderDone(d)
        \/ ongoing_downloads' =
             (LoaderDone(d) \ {e}) \cup {[e EXCEPT !.retry_timer = TRUE]}
    BY <1>4 DEF DownloadFails, Retry, Abandon
  <2>4. QED
    BY <1>3, <2>1, <2>2, <2>3
<1>5. ASSUME NEW d \in ongoing_downloads, DownloadSucceeds(d)
      PROVE  Known(ongoing_downloads')
  BY <1>3, <1>5 DEF DownloadSucceeds, StartConversion
<1>6. ASSUME NEW d \in ongoing_downloads, BackoffEnds(d)
      PROVE  Known(ongoing_downloads')
  <2> DEFINE e == [d EXCEPT !.retry_timer = FALSE, !.loader = TRUE]
  <2>1. e.url = d.url /\ e.retry_policy = d.retry_policy
    BY <1>2 DEF OngoingDownload
  <2>2. QED
    BY <1>6, <2>1 DEF BackoffEnds, RetryTimerFires
<1>7. ASSUME NEW d \in ongoing_downloads, NEW target \in Url
      PROVE  ~ RedirectFollowed(d, target) /\ ~ RedirectAsserts(d, target)
  <2>1. d.url \in Url
    BY <1>2 DEF OngoingDownload
  <2>2. QED
    BY <2>1 DEF RedirectFollowed, Redirect, RedirectAsserts,
       RedirectsToItself, IsRedirect, NoRedirects
<1>8. ASSUME NEW d \in ongoing_downloads,
             \/ ConversionSucceeds(d)
             \/ ConversionFails(d)
             \/ DownloadUnknown(d)
             \/ \E target \in Url : RedirectRefused(d, target)
      PROVE  ongoing_downloads' \subseteq ongoing_downloads
  BY <1>8 DEF ConversionSucceeds, Deliver, ConversionFails, AbortOnError,
     RedirectRefused, AbortOnRedirect, AbortWithWarning, DownloadUnknown,
     downloader_vars
<1>9. ASSUME \/ \E u \in Url : ConversionDiscarded(u)
             \/ \E known \in BOOLEAN : HeadRequestDone(known)
      PROVE  ongoing_downloads' = ongoing_downloads
  BY <1>9 DEF ConversionDiscarded, Discard, HeadRequestDone,
     HeadersOnlyDownloaded
<1>10. Known(ongoing_downloads')
  <2>1. \A D \in SUBSET ongoing_downloads : Known(D)
    OBVIOUS
  <2>2. QED
    BY <1>4, <1>5, <1>6, <1>7, <1>8, <1>9, <2>1 DEF DownloaderStep
<1>11. QED
  BY <1>1, <1>10, PoliciesKept

LEMMA StorageStepPolicies ==
  Exact /\ OnlyUpdatesGiveUp /\ StorageStep => OnlyUpdatesGiveUp'
<1> SUFFICES ASSUME Exact, OnlyUpdatesGiveUp, StorageStep
             PROVE  OnlyUpdatesGiveUp'
  OBVIOUS
<1> USE DEF Exact
<1>1. ASSUME NEW loaded \in Loadable, StorageInitialized(loaded)
      PROVE  OnlyUpdatesGiveUp'
  <2>1. WithoutDuplicates(loaded) \in [Url -> Nat] /\ demanded \in SUBSET Url
    BY DEF WithoutDuplicates, TypeOK
  <2>2. ongoing_downloads = {}
    BY <1>1 DEF StorageInitialized, Consistent, NothingBeforeLoading,
       Addressed, Answering, Pending, Urls
  <2>3. OnFilterListsChanged(demanded, WithoutDuplicates(loaded),
                             WithoutDuplicates(loaded))
    BY <1>1 DEF StorageInitialized
  <2>4. QED
    BY <2>1, <2>2, <2>3, SynchronizingPolicies
<1>2. ASSUME NEW t \in stores, SubscriptionInstalled(t)
      PROVE  OnlyUpdatesGiveUp'
  <2>1. /\ t.installation \in ongoing_installations
        /\ t.url = t.installation.url
    BY <1>2 DEF SubscriptionInstalled, IsCancelled, Addressed
  <2>2. ongoing_downloads' \subseteq ongoing_downloads
    BY <1>2 DEF SubscriptionInstalled, CancelDownload
  <2>3. \A d \in ongoing_downloads : d.url # t.url /\ d.url \in Url
    BY <2>1 DEF Addressed, Answering, Consistent, OneInstallationPerUrl,
       TypeOK, DownloaderTypeOK, OngoingDownload
  <2>4. current_state' = [current_state EXCEPT ![t.url] = 1]
    BY <1>2, Replacement DEF Consistent
  <2>5. \A d \in ongoing_downloads : d.url \in Ready' <=> d.url \in Ready
    BY <2>3, <2>4 DEF TypeOK, Ready
  <2>6. QED
    BY <2>2, <2>5 DEF OnlyUpdatesGiveUp
<1>3. ASSUME NEW t \in stores,
             CancelledSubscriptionStored(t) \/ StoreFails(t)
               \/ CancelledStoreFails(t)
      PROVE  OnlyUpdatesGiveUp'
  BY <1>3, PoliciesKept
  DEF CancelledSubscriptionStored, StoreFails, CancelledStoreFails,
      downloader_vars
<1>4. QED
  BY <1>1, <1>2, <1>3 DEF StorageStep

\* Just the updates of installed lists are not retried.
THEOREM OnlyUpdatesGiveUpHolds ==
  ASSUME NoRedirects
  PROVE  Spec => []OnlyUpdatesGiveUp
<1>1. Init => OnlyUpdatesGiveUp
  BY DEF Init, DownloaderInit, OnlyUpdatesGiveUp
<1>2. TypeOK /\ Consistent /\ Addressed /\ OnlyDemanded /\ OnlyUpdatesGiveUp
        /\ [Next]_vars => OnlyUpdatesGiveUp'
  <2> SUFFICES ASSUME TypeOK, Consistent, Addressed, OnlyDemanded,
                      OnlyUpdatesGiveUp, [Next]_vars
               PROVE  OnlyUpdatesGiveUp'
    OBVIOUS
  <2>1. Exact
    BY DEF Exact
  <2>2. ASSUME NEW u \in Url, Expire(u)
        PROVE  OnlyUpdatesGiveUp'
    BY <2>2, PoliciesKept DEF Expire, downloader_vars, maintainer_vars
  <2>3. Restart \/ Crash \/ PrefsWritten => OnlyUpdatesGiveUp'
    <3>1. NewMaintainer => OnlyUpdatesGiveUp'
      BY DEF NewMaintainer, DownloaderStops, OnlyUpdatesGiveUp
    <3>2. PrefsWritten => OnlyUpdatesGiveUp'
      BY PoliciesKept DEF PrefsWritten, downloader_vars, maintainer_vars
    <3>3. QED
      BY <3>1, <3>2 DEF Restart, Crash
  <2>4. UNCHANGED vars => OnlyUpdatesGiveUp'
    BY PoliciesKept DEF vars, downloader_vars, maintainer_vars
  <2>5. QED
    BY <2>1, <2>2, <2>3, <2>4, ConfigurationStepPolicies, UpdatePolicies,
       DownloaderStepPolicies, StorageStepPolicies DEF Next
<1>3. QED
  BY <1>1, <1>2, Consistency, Exactness, PTL DEF Spec

-----------------------------------------------------------------------------
(* Nothing is pending without something under way.                         *)

\* No list is at an address with a query, so that a request reports the
\* address it was made for.
NoQueries == \A u \in Url : StripQuery[u] = u

\* Something runs for an entry.
Works(d, C) == d.loader \/ d.retry_timer \/ C[d.url] > 0

Progress(D, C, T, I) ==
  \A i \in I :
    \/ \E t \in T : t.installation = i
    \/ \E d \in D : d.installation = i /\ Works(d, C)

LEMMA ProgressMeans ==
  EveryInstallationProgresses <=>
    Progress(ongoing_downloads, conversions, stores, ongoing_installations)
BY DEF EveryInstallationProgresses, Progress, Works

\* A new installation has a request, one that stays keeps its entry.
LEMMA StartedProgresses ==
  ASSUME TypeOK, Addressed, EveryInstallationProgresses,
         NEW urls, urls \subseteq Url, urls \cap Pending = {},
         \A u \in urls : HasFresh(u),
         NEW policy, NEW dropped,
         ongoing_installations' =
           {i \in ongoing_installations \cup {Fresh(u) : u \in urls} :
              i.url \notin dropped},
         ongoing_downloads' =
           CancelDownload(StartDownload(ongoing_downloads,
                                        {Fresh(u) : u \in urls}, policy),
                          dropped \cap Urls(ongoing_installations
                                            \cup {Fresh(u) : u \in urls})),
         UNCHANGED <<stores, conversions>>
  PROVE  EveryInstallationProgresses'
<1> DEFINE started == {Fresh(u) : u \in urls}
<1>1. \A u \in urls : Fresh(u).url = u
  BY FreshInstallation
<1>2. ASSUME NEW i \in started, i.url \notin dropped
      PROVE  \E d \in ongoing_downloads' :
               d.installation = i /\ Works(d, conversions)
  <2>1. NewDownload(i, policy) \in ongoing_downloads'
    BY <1>2 DEF CancelDownload, StartDownload, NewDownload
  <2>2. QED
    BY <2>1 DEF NewDownload, Works
<1>3. ASSUME NEW d \in ongoing_downloads, d.installation.url \notin dropped
      PROVE  d \in ongoing_downloads'
  <2>1. d.url = d.installation.url /\ d.url \in Pending
    BY DEF Addressed, Answering, Pending, Urls
  <2>2. \A i \in started : d.url # i.url
    BY <1>1, <2>1
  <2>3. QED
    BY <1>3, <2>1, <2>2 DEF CancelDownload, StartDownload
<1>4. ASSUME NEW i \in ongoing_installations'
      PROVE  \/ \E t \in stores : t.installation = i
             \/ \E d \in ongoing_downloads' :
                  d.installation = i /\ Works(d, conversions)
  BY <1>2, <1>3, ProgressMeans DEF Progress
<1>5. QED
  BY <1>4 DEF EveryInstallationProgresses, Works

LEMMA SynchronizingProgresses ==
  ASSUME TypeOK, Addressed, EveryInstallationProgresses,
         UNCHANGED <<stores, conversions>>,
         NEW demand \in SUBSET Url, NEW current, NEW files,
         OnFilterListsChanged(demand, current, files)
  PROVE  EveryInstallationProgresses'
<1> DEFINE missing  == Missing(demand, {u \in Url : current[u] > 0}, Pending)
           urls     == missing \cap AllowedUrl
           ongoing  == ongoing_installations \cup {Fresh(u) : u \in urls}
           unneeded == Unneeded(demand, current, Urls(ongoing))
<1>1. urls \subseteq Url /\ urls \cap Pending = {}
  BY DEF Missing
<1>2. /\ \A u \in urls : HasFresh(u)
      /\ ongoing_installations' = {i \in ongoing : i.url \notin unneeded}
      /\ ongoing_downloads' =
           CancelDownload(StartDownload(ongoing_downloads,
                                        {Fresh(u) : u \in urls},
                                        RetryPolicyFor(FALSE)),
                          unneeded \cap Urls(ongoing))
  BY DEF OnFilterListsChanged
<1>3. QED
  BY <1>1, <1>2, StartedProgresses

LEMMA ProgressKept ==
  ASSUME EveryInstallationProgresses,
         UNCHANGED <<ongoing_downloads, conversions, stores>>,
         ongoing_installations' \subseteq ongoing_installations
  PROVE  EveryInstallationProgresses'
BY DEF EveryInstallationProgresses

LEMMA ConfigurationStepProgresses ==
  Exact /\ EveryInstallationProgresses /\ ConfigurationStep
    => EveryInstallationProgresses'
<1> SUFFICES ASSUME Exact, EveryInstallationProgresses, ConfigurationStep
             PROVE  EveryInstallationProgresses'
  OBVIOUS
<1> USE DEF Exact
<1>1. ASSUME NEW demand \in SUBSET Url, FilterListsChange(demand)
      PROVE  EveryInstallationProgresses'
  BY <1>1, SynchronizingProgresses, ProgressKept DEF FilterListsChange
<1>2. ASSUME NEW u \in Url, AddFilterList(u) \/ RemoveFilterList(u)
      PROVE  EveryInstallationProgresses'
  <2>1. demanded \cup {u} \in SUBSET Url /\ demanded \ {u} \in SUBSET Url
    BY DEF TypeOK
  <2>2. QED
    BY <1>1, <1>2, <2>1 DEF AddFilterList, RemoveFilterList
<1>3. QED
  BY <1>2, ProgressKept
  DEF ConfigurationStep, CustomFiltersChange, downloader_vars

LEMMA UpdateProgresses ==
  Exact /\ EveryInstallationProgresses /\ RunUpdateCheck
    => EveryInstallationProgresses'
<1> SUFFICES ASSUME Exact, EveryInstallationProgresses, RunUpdateCheck
             PROVE  EveryInstallationProgresses'
  OBVIOUS
<1> DEFINE due     == DueForUpdate \cap AllowedUrl
           started == {Fresh(u) : u \in due}
           ongoing == ongoing_installations \cup started
<1>1. due \subseteq Url /\ due \cap Pending = {} /\ \A u \in due : HasFresh(u)
  BY DEF RunUpdateCheck, DueForUpdate, Ready
<1>2. /\ ongoing_installations' = {i \in ongoing : i.url \notin {}}
      /\ UNCHANGED <<stores, conversions>>
      /\ ongoing_downloads' =
           CancelDownload(StartDownload(ongoing_downloads, started,
                                        RetryPolicyFor(TRUE)),
                          {} \cap Urls(ongoing))
  BY DEF RunUpdateCheck, CancelDownload
<1>3. QED
  BY <1>1, <1>2, StartedProgresses DEF Exact

\* An entry with its request over, or replaced by one for which something
\* runs; no other has its key, so conversions of it are its own.
LEMMA EntryProgresses ==
  ASSUME NEW D, NEW C, NEW T, NEW I, Progress(D, C, T, I), NEW d \in D,
         NEW e, e.installation = d.installation, NEW C2, Works(e, C2),
         \A x \in D \ {d} : C2[x.url] = C[x.url]
  PROVE  Progress((D \ {d}) \cup {e}, C2, T, I)
BY DEF Progress, Works

\* An entry is gone, with its installation or with a store in its place.
LEMMA EntryOver ==
  ASSUME NEW D, NEW C, NEW T, NEW I, Progress(D, C, T, I), NEW d \in D,
         NEW C2, \A x \in D \ {d} : C2[x.url] = C[x.url],
         NEW T2, T \subseteq T2, NEW I2, I2 \subseteq I,
         d.installation \notin I2 \/ \E t \in T2 : t.installation = d.installation
  PROVE  Progress(D \ {d}, C2, T2, I2)
BY DEF Progress, Works

LEMMA DownloaderStepProgresses ==
  ASSUME NoRedirects, NoQueries, Exact, EveryInstallationProgresses,
         DownloaderStep
  PROVE  EveryInstallationProgresses'
<1> USE DEF Exact
<1> DEFINE D == ongoing_downloads
           C == conversions
<1>0. /\ D \subseteq OngoingDownload
      /\ C \in [Url -> 0..MaxConversions]
      /\ Progress(D, C, stores, ongoing_installations)
  BY ProgressMeans DEF TypeOK, DownloaderTypeOK
<1>1. ASSUME NEW d \in D
      PROVE  /\ d.url \in Url
             /\ ReportedUrl(d) = d.url
             /\ \A x \in D \ {d} : x.url # d.url /\ x.url \in Url
             /\ \A e \in FoundEntries(d) : e = [d EXCEPT !.loader = FALSE]
  BY <1>0 DEF OngoingDownload, ReportedUrl, NoQueries, Addressed, Answering,
     FoundEntries, LoaderDone
<1>2. ASSUME Progress(ongoing_downloads', conversions', stores', ongoing_installations')
      PROVE  EveryInstallationProgresses'
  BY <1>2 DEF EveryInstallationProgresses, Progress, Works
<1>3. ASSUME NEW d \in D, NEW e \in FoundEntries(d), DownloadFails(d, e)
      PROVE  EveryInstallationProgresses'
  <2> DEFINE f == [e EXCEPT !.retry_timer = TRUE]
  <2>1. e = [d EXCEPT !.loader = FALSE] /\ conversions' = C
    BY <1>1, <1>3 DEF DownloadFails, Retry, Abandon
  <2>2. LoaderDone(d) \ {e} = D \ {d, e}
    BY <2>1 DEF LoaderDone
  <2>3. D \ {d, e} = D \ {d}
    BY <1>0, <1>1, <2>1 DEF OngoingDownload
  <2>4. CASE Retry(d, e) /\ UNCHANGED maintainer_vars
    <3>1. f.installation = d.installation /\ Works(f, C)
      BY <1>0, <2>1 DEF OngoingDownload, Works
    <3>2. Progress((D \ {d}) \cup {f}, C, stores, ongoing_installations)
      BY <1>0, <3>1, EntryProgresses
    <3>3. QED
      BY <1>2, <2>1, <2>2, <2>3, <2>4, <3>2 DEF Retry, maintainer_vars
  <2>5. CASE Abandon(d, e) /\ DownloadFailed(e.installation)
    <3>1. e.installation = d.installation
      BY <1>0, <2>1 DEF OngoingDownload
    <3>2. Progress(D \ {d}, C, stores, ongoing_installations \ {d.installation})
      BY <1>0, EntryOver
    <3>3. QED
      BY <1>2, <2>1, <2>2, <2>3, <2>5, <3>1, <3>2 DEF Abandon, DownloadFailed
  <2>6. QED
    BY <1>3, <2>4, <2>5 DEF DownloadFails
<1>4. ASSUME NEW d \in D, DownloadSucceeds(d)
      PROVE  EveryInstallationProgresses'
  <2> DEFINE e == [d EXCEPT !.loader = FALSE]
  <2>1. /\ conversions' = [C EXCEPT ![d.url] = @ + 1]
        /\ ongoing_downloads' = (D \ {d}) \cup {e}
        /\ UNCHANGED maintainer_vars
    BY <1>1, <1>4 DEF DownloadSucceeds, StartConversion, LoaderDone
  <2>2. e.installation = d.installation /\ e.url = d.url
    BY <1>0 DEF OngoingDownload
  <2>3. conversions'[d.url] > 0
    BY <1>0, <1>1, <2>1, DownloaderAssumption
  <2>4. \A x \in D \ {d} : conversions'[x.url] = C[x.url]
    BY <1>0, <1>1, <2>1
  <2>5. Works(e, conversions')
    BY <2>2, <2>3 DEF Works
  <2>6. Progress((D \ {d}) \cup {e}, conversions', stores, ongoing_installations)
    BY <1>0, <2>2, <2>4, <2>5, EntryProgresses
  <2>7. QED
    BY <1>2, <2>1, <2>6 DEF maintainer_vars
<1>5. ASSUME NEW d \in D, BackoffEnds(d)
      PROVE  EveryInstallationProgresses'
  <2> DEFINE e == [d EXCEPT !.retry_timer = FALSE, !.loader = TRUE]
  <2>1. e.installation = d.installation /\ Works(e, C)
    BY <1>0 DEF OngoingDownload, Works
  <2>2. Progress((D \ {d}) \cup {e}, C, stores, ongoing_installations)
    BY <1>0, <2>1, EntryProgresses
  <2>3. QED
    BY <1>2, <1>5, <2>2 DEF BackoffEnds, RetryTimerFires, maintainer_vars
<1>6. ASSUME NEW d \in D, ConversionDone(d.url)
      PROVE  \A x \in D \ {d} : conversions'[x.url] = C[x.url]
  BY <1>0, <1>1, <1>6 DEF ConversionDone
<1>7. ASSUME NEW d \in D, ConversionSucceeds(d)
      PROVE  EveryInstallationProgresses'
  <2>1. \A x \in D \ {d} : conversions'[x.url] = C[x.url]
    BY <1>6, <1>7 DEF ConversionSucceeds, Deliver
  <2>2. /\ stores \subseteq stores'
        /\ \E t \in stores' : t.installation = d.installation
    <3>1. d.installation \in ongoing_installations
      BY DEF Addressed, Answering
    <3> DEFINE t == [installation |-> d.installation, url |-> d.url]
    <3>2. stores' = stores \cup {t} /\ t.installation = d.installation
      BY <1>7, <3>1 DEF ConversionSucceeds, DataAvailable, IsCancelled
    <3> HIDE DEF t
    <3>3. QED
      BY <3>2
  <2>3. Progress(D \ {d}, conversions', stores', ongoing_installations)
    BY <1>0, <2>1, <2>2, EntryOver
  <2>4. QED
    BY <1>2, <1>7, <2>3 DEF ConversionSucceeds, Deliver, DataAvailable
<1>8. ASSUME NEW d \in D, ConversionDone(d.url), AbortWithWarning(d),
             DownloadFailed(d.installation)
      PROVE  EveryInstallationProgresses'
  <2>1. Progress(D \ {d}, conversions', stores,
                 ongoing_installations \ {d.installation})
    BY <1>0, <1>6, <1>8, EntryOver
  <2>2. QED
    BY <1>2, <1>8, <2>1 DEF AbortWithWarning, DownloadFailed
<1>9. ASSUME NEW d \in D,
             ConversionFails(d) \/ \E target \in Url : RedirectRefused(d, target)
      PROVE  EveryInstallationProgresses'
  BY <1>8, <1>9
  DEF ConversionFails, AbortOnError, RedirectRefused, AbortOnRedirect
<1>10. ASSUME NEW d \in D, NEW target \in Url
       PROVE  ~ RedirectFollowed(d, target) /\ ~ RedirectAsserts(d, target)
  BY <1>1 DEF RedirectFollowed, Redirect, RedirectAsserts,
       RedirectsToItself, IsRedirect, NoRedirects
<1>11. ASSUME NEW u \in Url, ConversionDiscarded(u)
       PROVE  EveryInstallationProgresses'
  <2>1. \A x \in D : conversions'[x.url] = C[x.url]
    BY <1>0, <1>1, <1>11 DEF ConversionDiscarded, Discard, ConversionDone
  <2>2. Progress(D, conversions', stores, ongoing_installations)
    BY <1>0, <2>1 DEF Progress, Works
  <2>3. QED
    BY <1>2, <1>11, <2>2 DEF ConversionDiscarded, Discard, maintainer_vars
<1>12. ASSUME \/ \E d \in D : DownloadUnknown(d)
              \/ \E known \in BOOLEAN : HeadRequestDone(known)
       PROVE  EveryInstallationProgresses'
  BY <1>12, ProgressKept
  DEF DownloadUnknown, HeadRequestDone, HeadersOnlyDownloaded,
      downloader_vars, maintainer_vars
<1>13. QED
  BY <1>3, <1>4, <1>5, <1>7, <1>9, <1>10, <1>11, <1>12 DEF DownloaderStep

LEMMA StorageStepProgresses ==
  Exact /\ EveryInstallationProgresses /\ StorageStep
    => EveryInstallationProgresses'
<1> SUFFICES ASSUME Exact, EveryInstallationProgresses, StorageStep
             PROVE  EveryInstallationProgresses'
  OBVIOUS
<1> USE DEF Exact
<1>1. ASSUME NEW loaded \in Loadable, StorageInitialized(loaded)
      PROVE  EveryInstallationProgresses'
  <2>1. demanded \in SUBSET Url
    BY DEF TypeOK
  <2>2. QED
    BY <1>1, <2>1, SynchronizingProgresses DEF StorageInitialized
<1>2. ASSUME NEW t \in stores, stores' = stores \ {t},
             UNCHANGED <<ongoing_downloads, conversions>>,
             ongoing_installations' \subseteq ongoing_installations,
             t.installation \notin ongoing_installations'
      PROVE  EveryInstallationProgresses'
  BY <1>2 DEF EveryInstallationProgresses
<1>3. ASSUME NEW t \in stores, SubscriptionInstalled(t)
      PROVE  EveryInstallationProgresses'
  <2>1. {i \in ongoing_installations \ {t.installation} : i.url = t.url} = {}
    BY <1>3 DEF SubscriptionInstalled, IsCancelled, Addressed, Consistent,
       OneInstallationPerUrl
  <2>2. ongoing_downloads' = CancelDownload(ongoing_downloads, Urls({}))
    BY <1>3, <2>1 DEF SubscriptionInstalled
  <2>3. ongoing_downloads' = ongoing_downloads
    BY <2>2 DEF CancelDownload, Urls
  <2>4. QED
    BY <1>2, <1>3, <2>3 DEF SubscriptionInstalled
<1>4. ASSUME NEW t \in stores,
             CancelledSubscriptionStored(t) \/ StoreFails(t)
               \/ CancelledStoreFails(t)
      PROVE  EveryInstallationProgresses'
  BY <1>2, <1>4 DEF CancelledSubscriptionStored, StoreFails,
     CancelledStoreFails, IsCancelled, downloader_vars
<1>5. QED
  BY <1>1, <1>3, <1>4 DEF StorageStep

\* Whatever is pending has a request, a timer, a conversion or a store.
THEOREM EveryInstallationProgressesHolds ==
  ASSUME NoRedirects, NoQueries
  PROVE  Spec => []EveryInstallationProgresses
<1>1. Init => EveryInstallationProgresses
  BY DEF Init, EveryInstallationProgresses
<1>2. TypeOK /\ Consistent /\ Addressed /\ OnlyDemanded
        /\ EveryInstallationProgresses /\ [Next]_vars
        => EveryInstallationProgresses'
  <2> SUFFICES ASSUME TypeOK, Consistent, Addressed, OnlyDemanded,
                      EveryInstallationProgresses, [Next]_vars
               PROVE  EveryInstallationProgresses'
    OBVIOUS
  <2>1. Exact
    BY DEF Exact
  <2>2. (\E u \in Url : Expire(u)) \/ UNCHANGED vars
          => EveryInstallationProgresses'
    BY ProgressKept DEF Expire, vars, downloader_vars, maintainer_vars
  <2>3. Restart \/ Crash \/ PrefsWritten => EveryInstallationProgresses'
    <3>1. NewMaintainer => EveryInstallationProgresses'
      BY DEF NewMaintainer, EveryInstallationProgresses
    <3>2. PrefsWritten => EveryInstallationProgresses'
      BY ProgressKept DEF PrefsWritten, downloader_vars, maintainer_vars
    <3>3. QED
      BY <3>1, <3>2 DEF Restart, Crash
  <2>4. QED
    BY <2>1, <2>2, <2>3, ConfigurationStepProgresses, UpdateProgresses,
       DownloaderStepProgresses, StorageStepProgresses DEF Next
<1>3. QED
  BY <1>1, <1>2, Consistency, Exactness, PTL DEF Spec
=============================================================================
