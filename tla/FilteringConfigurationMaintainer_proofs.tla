--------------- MODULE FilteringConfigurationMaintainer_proofs ---------------
(***************************************************************************)
(* Theorems about FilteringConfigurationMaintainer for every value of its  *)
(* constants: any number of lists, any redirects, every fault.             *)
(***************************************************************************)
EXTENDS FilteringConfigurationMaintainer, TLAPS

-----------------------------------------------------------------------------
(* Lemmas about the operators.                                             *)

\* A new installation object is one nobody refers to.
LEMMA FreshInstallation ==
  ASSUME NEW u \in Url, HasFresh(u)
  PROVE  /\ Fresh(u) \in OngoingInstallation
         /\ Fresh(u).url = u
         /\ Fresh(u) \notin Referenced
<1>1. PICK g \in Generation : IsFresh(u, g)
  BY DEF HasFresh
<1> DEFINE h == CHOOSE x \in Generation : IsFresh(u, x)
<1>2. h \in Generation /\ IsFresh(u, h)
  BY <1>1
<1>3. Fresh(u) = [url |-> u, generation |-> h]
  BY DEF Fresh
<1>4. QED
  BY <1>2, <1>3 DEF OngoingInstallation, IsFresh

\* The metadata setters keep the map well-formed.
LEMMA MetadataSetters ==
  ASSUME NEW m \in [Url -> Metadata], NEW u \in Url
  PROVE  /\ SetExpirationInterval(m, u) \in [Url -> Metadata]
         /\ IncrementDownloadSuccessCount(m, u) \in [Url -> Metadata]
         /\ [m EXCEPT ![u].expired = TRUE] \in [Url -> Metadata]
<1> USE DEF Metadata
<1>1. m[u].download_count \in Nat /\ m[u].expired \in BOOLEAN
  OBVIOUS
<1>2. CountOneMore(u, m[u].download_count) \in Nat
  BY <1>1 DEF CountOneMore
<1>3. SetExpirationInterval(m, u) \in [Url -> Metadata]
  BY <1>1 DEF SetExpirationInterval
<1>4. IncrementDownloadSuccessCount(m, u) \in [Url -> Metadata]
  BY <1>1, <1>2 DEF IncrementDownloadSuccessCount
<1>5. [m EXCEPT ![u].expired = TRUE] \in [Url -> Metadata]
  BY <1>1
<1>6. QED
  BY <1>3, <1>4, <1>5

LEMMA MetadataRemoval ==
  ASSUME NEW m \in [Url -> Metadata], NEW urls
  PROVE  RemoveMetadata(m, urls) \in [Url -> Metadata]
BY DEF RemoveMetadata, NoMetadata, Metadata

\* Starting and cancelling downloads keeps the map well-formed.
LEMMA DownloadsStartedAndCancelled ==
  ASSUME NEW D \in SUBSET OngoingDownload,
         NEW installations \in SUBSET OngoingInstallation,
         NEW policy \in RetryPolicy, NEW urls
  PROVE  CancelDownload(StartDownload(D, installations, policy), urls)
           \in SUBSET OngoingDownload
<1>1. \A i \in installations : NewDownload(i, policy) \in OngoingDownload
  BY DownloaderAssumption
  DEF NewDownload, OngoingDownload, OngoingInstallation
<1>2. QED
  BY <1>1 DEF CancelDownload, StartDownload

\* Uninstalling leaves at most what there was.
LEMMA UninstallShrinks ==
  ASSUME NEW count \in [Url -> Nat], NEW current \in [Url -> Nat],
         NEW demand, NEW pending
  PROVE  /\ AfterUninstall(count, demand, current, pending) \in [Url -> Nat]
         /\ \A u \in Url :
              AfterUninstall(count, demand, current, pending)[u] <= count[u]
BY DEF AfterUninstall, Remaining, Listed

\* Entries and files are counted with natural numbers.
LEMMA Counting ==
  ASSUME NEW count \in [Url -> Nat], NEW u \in Url
  PROVE  /\ Plus(Minus(count[u])) \in Nat
         /\ AddFile(count, u) \in [Url -> Nat]
         /\ RemoveSubscription(count, u) \in [Url -> Nat]
<1>1. count[u] \in Nat
  OBVIOUS
<1>2. Plus(Minus(count[u])) \in Nat
  BY <1>1 DEF Plus, Minus
<1>3. AddFile(count, u) \in [Url -> Nat]
  BY <1>1 DEF AddFile
<1>4. (IF count[u] > 0 THEN count[u] - 1 ELSE 0) \in Nat
  BY <1>1
<1>5. RemoveSubscription(count, u) \in [Url -> Nat]
  BY <1>4 DEF RemoveSubscription
<1>6. QED
  BY <1>2, <1>3, <1>5

\* A downloader without work.
LEMMA IdleDownloader ==
  /\ [u \in Url |-> 0] \in [Url -> Nat]
  /\ [u \in Url |-> 0] \in [Url -> 0..MaxConversions]
<1>1. 0 \in 0..MaxConversions
  BY DownloaderAssumption
<1>2. QED
  BY <1>1

\* What synchronizing with a demand does to the types.
LEMMA SynchronizingTypes ==
  ASSUME TypeOK, NEW demand \in SUBSET Url, NEW current \in [Url -> Nat],
         NEW files \in [Url -> Nat],
         OnFilterListsChanged(demand, current, files)
  PROVE  /\ current_state' \in [Url -> Nat]
         /\ backing_files' \in [Url -> Nat]
         /\ ongoing_installations' \subseteq OngoingInstallation
         /\ ongoing_downloads' \subseteq OngoingDownload
         /\ metadata_map' \in [Url -> Metadata]
         /\ preloaded' \subseteq Preload
<1> DEFINE missing   == Missing(demand, {u \in Url : current[u] > 0}, Pending)
           started   == {Fresh(u) : u \in missing \cap AllowedUrl}
           ongoing   == ongoing_installations \cup started
           unneeded  == Unneeded(demand, current, Urls(ongoing))
           cancelled == unneeded \cap Urls(ongoing)
<1>1. missing \cap AllowedUrl \subseteq Url
  BY DEF Missing
<1>2. started \subseteq OngoingInstallation
  <2>1. \A u \in missing \cap AllowedUrl : HasFresh(u)
    BY DEF OnFilterListsChanged
  <2>2. QED
    BY <1>1, <2>1, FreshInstallation
<1>3. ongoing_installations' \subseteq OngoingInstallation
  <2>1. ongoing_installations' = {i \in ongoing : i.url \notin unneeded}
    BY DEF OnFilterListsChanged
  <2>2. QED
    BY <1>2, <2>1 DEF TypeOK
<1>4. ongoing_downloads' \subseteq OngoingDownload
  <2>1. ongoing_downloads' =
          CancelDownload(StartDownload(ongoing_downloads, started,
                                       RetryPolicyFor(FALSE)), cancelled)
    BY DEF OnFilterListsChanged
  <2>2. RetryPolicyFor(FALSE) \in RetryPolicy
    BY DEF RetryPolicyFor, RetryPolicy
  <2>3. ongoing_downloads \in SUBSET OngoingDownload
    BY DEF TypeOK, DownloaderTypeOK
  <2>4. QED
    BY <1>2, <2>1, <2>2, <2>3, DownloadsStartedAndCancelled
<1>5. current_state' \in [Url -> Nat] /\ backing_files' \in [Url -> Nat]
  BY UninstallShrinks DEF OnFilterListsChanged
<1>6. metadata_map' \in [Url -> Metadata]
  <2>1. metadata_map' = RemoveMetadata(metadata_map, Forgotten(unneeded))
    BY DEF OnFilterListsChanged
  <2>2. metadata_map \in [Url -> Metadata]
    BY DEF TypeOK, MetadataTypeOK
  <2>3. QED
    BY <2>1, <2>2, MetadataRemoval
<1>7. preloaded' \subseteq Preload
  BY DEF OnFilterListsChanged, UpdatePreloadedSubscriptionProvider,
         NeededPreloads, TypeOK
<1>8. QED
  BY <1>3, <1>4, <1>5, <1>6, <1>7

-----------------------------------------------------------------------------
(* Type correctness.                                                       *)

LEMMA InitTypes == Init => TypeOK
<1> SUFFICES ASSUME Init
             PROVE  TypeOK
  OBVIOUS
<1>1. NoMetadata \in Metadata
  BY DEF NoMetadata, Metadata
<1>2. MetadataTypeOK
  BY <1>1 DEF Init, MetadataInit, MetadataTypeOK
<1>3. DownloaderTypeOK
  BY IdleDownloader DEF Init, DownloaderInit, DownloaderTypeOK
<1>4. QED
  BY <1>2, <1>3 DEF Init, TypeOK

\* The result of an entry's request being over is well-formed.
LEMMA LoaderDoneTypes ==
  ASSUME TypeOK, NEW d \in ongoing_downloads
  PROVE  LoaderDone(d) \subseteq OngoingDownload
BY DEF LoaderDone, TypeOK, DownloaderTypeOK, OngoingDownload

LEMMA ConfigurationStepTypes == TypeOK /\ ConfigurationStep => TypeOK'
<1> SUFFICES ASSUME TypeOK, ConfigurationStep
             PROVE  TypeOK'
  OBVIOUS
<1>1. ASSUME NEW demand \in SUBSET Url, FilterListsChange(demand)
      PROVE  TypeOK'
  <2>1. CASE status = "Initialized"
    <3>1. OnFilterListsChanged(demand, current_state, backing_files)
      BY <1>1, <2>1 DEF FilterListsChange
    <3>2. current_state \in [Url -> Nat] /\ backing_files \in [Url -> Nat]
      BY DEF TypeOK
    <3>3. QED
      BY <1>1, <3>1, <3>2, SynchronizingTypes
      DEF FilterListsChange, TypeOK, MetadataTypeOK, DownloaderTypeOK
  <2>2. CASE status # "Initialized"
    BY <1>1, <2>2
    DEF FilterListsChange, TypeOK, MetadataTypeOK, DownloaderTypeOK
  <2>3. QED
    BY <2>1, <2>2
<1>2. ASSUME NEW u \in Url, AddFilterList(u) \/ RemoveFilterList(u)
      PROVE  TypeOK'
  <2>1. demanded \cup {u} \in SUBSET Url /\ demanded \ {u} \in SUBSET Url
    BY DEF TypeOK
  <2>2. QED
    BY <1>1, <1>2, <2>1 DEF AddFilterList, RemoveFilterList
<1>3. ASSUME NEW filters \in SUBSET CustomFilter, CustomFiltersChange(filters)
      PROVE  TypeOK'
  BY <1>3 DEF CustomFiltersChange, SetCustomFilters, TypeOK, MetadataTypeOK,
              DownloaderTypeOK, downloader_vars
<1>4. QED
  BY <1>2, <1>3 DEF ConfigurationStep

LEMMA UpdateTypes ==
  TypeOK /\ (RunUpdateCheck \/ \E u \in Url : Expire(u)) => TypeOK'
<1>1. ASSUME TypeOK, RunUpdateCheck
      PROVE  TypeOK'
  <2> DEFINE started == {Fresh(u) : u \in DueForUpdate \cap AllowedUrl}
  <2>1. started \subseteq OngoingInstallation
    BY <1>1, FreshInstallation DEF RunUpdateCheck, DueForUpdate, Ready
  <2>2. ongoing_installations' \subseteq OngoingInstallation
    BY <1>1, <2>1 DEF RunUpdateCheck, TypeOK
  <2>3. ongoing_downloads' \subseteq OngoingDownload
    <3>1. RetryPolicyFor(TRUE) \in RetryPolicy
      BY DEF RetryPolicyFor, RetryPolicy
    <3>2. ongoing_downloads \in SUBSET OngoingDownload
      BY <1>1 DEF TypeOK, DownloaderTypeOK
    <3>3. ongoing_downloads' = CancelDownload(
            StartDownload(ongoing_downloads, started, RetryPolicyFor(TRUE)), {})
      BY <1>1 DEF RunUpdateCheck, CancelDownload
    <3>4. QED
      BY <2>1, <3>1, <3>2, <3>3, DownloadsStartedAndCancelled
  <2>4. preloaded' \subseteq Preload /\ ongoing_ping' \in BOOLEAN
    BY <1>1 DEF RunUpdateCheck, NeededPreloads, TypeOK, DownloaderTypeOK,
                DoHeadRequest
  <2>5. QED
    BY <1>1, <2>2, <2>3, <2>4
    DEF RunUpdateCheck, TypeOK, MetadataTypeOK, DownloaderTypeOK,
        config_and_status
<1>2. ASSUME TypeOK, NEW u \in Url, Expire(u)
      PROVE  TypeOK'
  <2>1. /\ metadata_map' \in [Url -> Metadata]
        /\ written_metadata' \in [Url -> Metadata]
    BY <1>2, MetadataSetters
    DEF Expire, ExpirationTimePasses, TypeOK, MetadataTypeOK
  <2>2. QED
    BY <1>2, <2>1
    DEF Expire, TypeOK, MetadataTypeOK, DownloaderTypeOK, downloader_vars,
        maintainer_vars
<1>3. QED
  BY <1>1, <1>2

LEMMA DownloaderStepTypes == TypeOK /\ DownloaderStep => TypeOK'
<1> SUFFICES ASSUME TypeOK, DownloaderStep
             PROVE  TypeOK'
  OBVIOUS
<1> USE DEF MetadataTypeOK, DownloaderTypeOK, config_and_status
<1>0. /\ metadata_map \in [Url -> Metadata]
      /\ ongoing_downloads \subseteq OngoingDownload
      /\ conversions \in [Url -> 0..MaxConversions]
      /\ \A d \in ongoing_downloads : d.url \in Url /\ ReportedUrl(d) \in Url
      /\ \A d \in ongoing_downloads : d.installation \in OngoingInstallation
  BY DownloaderAssumption DEF TypeOK, OngoingDownload, ReportedUrl
<1>1. ASSUME NEW i \in OngoingInstallation, DownloadFailed(i),
             metadata_map' \in [Url -> Metadata],
             ongoing_downloads' \subseteq OngoingDownload,
             conversions' \in [Url -> 0..MaxConversions],
             UNCHANGED <<ongoing_ping, config_and_status>>
      PROVE  TypeOK'
  BY <1>1 DEF DownloadFailed, UpdatePreloadedSubscriptionProvider,
              NeededPreloads, TypeOK
<1>2. ASSUME NEW d \in ongoing_downloads, NEW e \in FoundEntries(d),
             DownloadFails(d, e)
      PROVE  TypeOK'
  <2>1. e \in OngoingDownload /\ LoaderDone(d) \subseteq OngoingDownload
    BY LoaderDoneTypes DEF FoundEntries
  <2>2. metadata_map' \in [Url -> Metadata]
    BY <1>0, <1>2 DEF DownloadFails, Retry, Abandon
  <2>3. CASE Retry(d, e) /\ UNCHANGED maintainer_vars
    <3>1. [e EXCEPT !.retry_timer = TRUE] \in OngoingDownload
      BY <2>1 DEF OngoingDownload
    <3>2. ongoing_downloads' \subseteq OngoingDownload
      BY <2>1, <2>3, <3>1 DEF Retry
    <3>3. QED
      BY <1>2, <2>2, <2>3, <3>2 DEF DownloadFails, Retry, maintainer_vars, TypeOK
  <2>4. CASE Abandon(d, e) /\ DownloadFailed(e.installation)
    <3>1. e.installation \in OngoingInstallation
      BY <2>1 DEF OngoingDownload
    <3>2. ongoing_downloads' \subseteq OngoingDownload
      BY <2>1, <2>4 DEF Abandon
    <3>3. QED
      BY <1>0, <1>1, <1>2, <2>2, <2>4, <3>1, <3>2 DEF DownloadFails, Abandon
  <2>5. QED
    BY <1>2, <2>3, <2>4 DEF DownloadFails
<1>3. ASSUME NEW d \in ongoing_downloads, DownloadSucceeds(d)
      PROVE  TypeOK'
  <2>1. ongoing_downloads' \subseteq OngoingDownload
    BY <1>3, LoaderDoneTypes DEF DownloadSucceeds, StartConversion
  <2>2. conversions' \in [Url -> 0..MaxConversions]
    BY <1>0, <1>3, DownloaderAssumption DEF DownloadSucceeds, StartConversion
  <2>3. QED
    BY <1>3, <2>1, <2>2
    DEF DownloadSucceeds, StartConversion, maintainer_vars, TypeOK
<1>4. ASSUME NEW d \in ongoing_downloads, BackoffEnds(d)
      PROVE  TypeOK'
  <2>1. [d EXCEPT !.retry_timer = FALSE, !.loader = TRUE] \in OngoingDownload
    BY <1>0 DEF OngoingDownload
  <2>2. QED
    BY <1>0, <1>4, <2>1
    DEF BackoffEnds, RetryTimerFires, maintainer_vars, TypeOK
<1>5. ASSUME NEW u \in Url, ConversionDone(u)
      PROVE  conversions' \in [Url -> 0..MaxConversions]
  BY <1>0, <1>5, DownloaderAssumption DEF ConversionDone
<1>6. ASSUME NEW d \in ongoing_downloads, ConversionSucceeds(d)
      PROVE  TypeOK'
  <2>1. conversions' \in [Url -> 0..MaxConversions]
    BY <1>0, <1>5, <1>6 DEF ConversionSucceeds, Deliver
  <2>2. [installation |-> d.installation, url |-> d.url] \in Store
    BY <1>0 DEF Store
  <2>3. stores' \subseteq Store /\ preloaded' \subseteq Preload
    BY <1>6, <2>2 DEF ConversionSucceeds, DataAvailable, NeededPreloads, TypeOK
  <2>4. QED
    BY <1>0, <1>6, <2>1, <2>3
    DEF ConversionSucceeds, Deliver, DataAvailable, TypeOK
<1>7. ASSUME NEW d \in ongoing_downloads, ConversionFails(d)
      PROVE  TypeOK'
  <2>1. metadata_map' \in [Url -> Metadata]
    BY <1>0, <1>7 DEF ConversionFails, AbortOnError
  <2>2. conversions' \in [Url -> 0..MaxConversions]
    BY <1>0, <1>5, <1>7 DEF ConversionFails, AbortOnError
  <2>3. QED
    BY <1>0, <1>1, <1>7, <2>1, <2>2
    DEF ConversionFails, AbortOnError, AbortWithWarning
<1>8. ASSUME NEW d \in ongoing_downloads, NEW target \in Url,
             RedirectRefused(d, target)
      PROVE  TypeOK'
  <2>1. conversions' \in [Url -> 0..MaxConversions]
    BY <1>0, <1>5, <1>8 DEF RedirectRefused, AbortOnRedirect
  <2>2. QED
    BY <1>0, <1>1, <1>8, <2>1
    DEF RedirectRefused, AbortOnRedirect, AbortWithWarning
<1>9. ASSUME NEW d \in ongoing_downloads, NEW target \in Url,
             RedirectFollowed(d, target)
      PROVE  TypeOK'
  <2>1. conversions' \in [Url -> 0..MaxConversions]
    BY <1>0, <1>5, <1>9 DEF RedirectFollowed, Redirect
  <2>2. [d EXCEPT !.url = target] \in OngoingDownload
    BY <1>0 DEF OngoingDownload
  <2>3. \A e \in OngoingDownload :
          [e EXCEPT !.redirects = CountRedirect(@), !.loader = TRUE]
            \in OngoingDownload
    <3>1. \A n \in 0..MaxRedirects : CountRedirect(n) \in 0..MaxRedirects
      BY DownloaderAssumption DEF CountRedirect
    <3>2. QED
      BY <3>1 DEF OngoingDownload
  <2>4. Rekey(d, target) \subseteq OngoingDownload
    BY <1>0, <2>2, <2>3 DEF Rekey
  <2>5. QED
    BY <1>9, <2>1, <2>4 DEF RedirectFollowed, Redirect, maintainer_vars, TypeOK
<1>10. ASSUME NEW u \in Url, ConversionDiscarded(u)
       PROVE  TypeOK'
  <2>1. conversions' \in [Url -> 0..MaxConversions]
    BY <1>5, <1>10 DEF ConversionDiscarded, Discard
  <2>2. QED
    BY <1>10, <2>1 DEF ConversionDiscarded, Discard, maintainer_vars, TypeOK
<1>11. ASSUME NEW known \in BOOLEAN, HeadRequestDone(known)
       PROVE  TypeOK'
  <2>1. metadata_map' \in [Url -> Metadata]
    BY <1>0, <1>11, MaintainerAssumption, MetadataSetters DEF HeadRequestDone
  <2>2. QED
    BY <1>11, <2>1
    DEF HeadRequestDone, HeadersOnlyDownloaded, maintainer_vars, TypeOK
<1>12. ASSUME NEW d \in ongoing_downloads,
              \/ DownloadUnknown(d)
              \/ \E target \in Url : RedirectAsserts(d, target)
       PROVE  TypeOK'
  BY <1>12 DEF DownloadUnknown, RedirectAsserts, downloader_vars,
               maintainer_vars, TypeOK
<1>13. QED
  BY <1>2, <1>3, <1>4, <1>6, <1>7, <1>8, <1>9, <1>10, <1>11, <1>12
  DEF DownloaderStep

LEMMA StorageStepTypes == TypeOK /\ StorageStep => TypeOK'
<1> SUFFICES ASSUME TypeOK, StorageStep
             PROVE  TypeOK'
  OBVIOUS
<1> USE DEF MetadataTypeOK, DownloaderTypeOK, config_and_status
<1>0. /\ \A t \in stores : t.url \in Url
      /\ current_state \in [Url -> Nat] /\ backing_files \in [Url -> Nat]
  BY DEF TypeOK, Store
<1>1. ASSUME NEW loaded \in Loadable, StorageInitialized(loaded)
      PROVE  TypeOK'
  <2>1. WithoutDuplicates(loaded) \in [Url -> Nat]
    BY DEF WithoutDuplicates
  <2>2. demanded \in SUBSET Url
    BY DEF TypeOK
  <2>3. OnFilterListsChanged(demanded, WithoutDuplicates(loaded),
                             WithoutDuplicates(loaded))
    BY <1>1 DEF StorageInitialized
  <2>4. QED
    BY <1>1, <2>1, <2>2, <2>3, SynchronizingTypes
    DEF StorageInitialized, SetCustomFilters, TypeOK
<1>2. ASSUME NEW t \in stores, SubscriptionStored(t.url)
      PROVE  metadata_map' \in [Url -> Metadata]
  BY <1>0, <1>2, MetadataSetters DEF SubscriptionStored, TypeOK
<1>3. ASSUME NEW t \in stores, SubscriptionInstalled(t)
      PROVE  TypeOK'
  <2>1. metadata_map' \in [Url -> Metadata]
    BY <1>2, <1>3 DEF SubscriptionInstalled
  <2>2. current_state' \in [Url -> Nat]
    BY <1>0, <1>3, Counting DEF SubscriptionInstalled
  <2>3. backing_files' \in [Url -> Nat]
    BY <1>0, <1>3, Counting DEF SubscriptionInstalled
  <2>4. ongoing_downloads' \subseteq OngoingDownload
    BY <1>3 DEF SubscriptionInstalled, CancelDownload, TypeOK
  <2>5. ongoing_installations' \subseteq OngoingInstallation
    BY <1>3 DEF SubscriptionInstalled, TypeOK
  <2>6. preloaded' \subseteq Preload
    BY <1>3 DEF SubscriptionInstalled, UpdatePreloadedSubscriptionProvider,
                NeededPreloads
  <2>7. QED
    BY <1>3, <2>1, <2>2, <2>3, <2>4, <2>5, <2>6
    DEF SubscriptionInstalled, TypeOK
<1>4. ASSUME NEW t \in stores, CancelledSubscriptionStored(t)
      PROVE  TypeOK'
  <2>1. metadata_map' \in [Url -> Metadata]
    BY <1>2, <1>4 DEF CancelledSubscriptionStored
  <2>2. backing_files' \in [Url -> Nat]
    BY <1>0, <1>4, Counting DEF CancelledSubscriptionStored
  <2>3. QED
    BY <1>4, <2>1, <2>2
    DEF CancelledSubscriptionStored, NeededPreloads, TypeOK, downloader_vars
<1>5. ASSUME NEW t \in stores, StoreFails(t)
      PROVE  TypeOK'
  BY <1>5 DEF StoreFails, UpdatePreloadedSubscriptionProvider, NeededPreloads,
              TypeOK, downloader_vars
<1>6. ASSUME NEW t \in stores, CancelledStoreFails(t)
      PROVE  TypeOK'
  BY <1>6 DEF CancelledStoreFails, TypeOK, downloader_vars
<1>7. QED
  BY <1>1, <1>3, <1>4, <1>5, <1>6 DEF StorageStep

LEMMA RestartTypes == TypeOK /\ (Restart \/ Crash \/ PrefsWritten) => TypeOK'
<1> USE DEF TypeOK, MetadataTypeOK, DownloaderTypeOK
<1>1. TypeOK /\ Restart => TypeOK'
  BY IdleDownloader DEF Restart, NewMaintainer, DownloaderStops
<1>2. TypeOK /\ Crash => TypeOK'
  BY IdleDownloader DEF Crash, NewMaintainer, DownloaderStops
<1>3. TypeOK /\ PrefsWritten => TypeOK'
  BY DEF PrefsWritten, MetadataWritten, downloader_vars, maintainer_vars
<1>4. QED
  BY <1>1, <1>2, <1>3

LEMMA UnchangedTypes == TypeOK /\ UNCHANGED vars => TypeOK'
BY DEF vars, downloader_vars, maintainer_vars, config_and_status, TypeOK,
       MetadataTypeOK, DownloaderTypeOK

\* Every variable keeps its type: in particular no operation of the two maps
\* yields an entry that is not one.
THEOREM TypeCorrect == Spec => []TypeOK
<1>1. Init => TypeOK
  BY InitTypes
<1>2. TypeOK /\ [Next]_vars => TypeOK'
  BY ConfigurationStepTypes, DownloaderStepTypes, StorageStepTypes,
     UpdateTypes, RestartTypes, UnchangedTypes DEF Next
<1>3. QED
  BY <1>1, <1>2, PTL DEF Spec

-----------------------------------------------------------------------------
(* Consistency of what is installed, pending, on disk and bundled.         *)

\* Until the storage is loaded there is nothing to be consistent with: no
\* handler but the storage's answer begins to install anything.
NothingBeforeLoading == status = "Uninitialized" => Ready = {} /\ Pending = {}

Consistent ==
  /\ UniqueInstalled
  /\ OneInstallationPerUrl
  /\ StorageGovernsInstalled
  /\ PreloadedConsistent
  /\ NothingBeforeLoading

\* New installations of URLs without one leave one for each URL.
LEMMA OneMoreEach ==
  ASSUME OneInstallationPerUrl, NEW urls, urls \subseteq Url, urls \cap Pending = {},
         \A u \in urls : HasFresh(u)
  PROVE  \A i, j \in ongoing_installations \cup {Fresh(u) : u \in urls} :
           i.url = j.url => i = j
<1>1. \A u \in urls : Fresh(u).url = u
  BY FreshInstallation
<1>2. \A i \in ongoing_installations : i.url \notin urls
  BY DEF Pending, Urls
<1>3. QED
  BY <1>1, <1>2 DEF OneInstallationPerUrl

\* A URL that is nowhere unneeded is uninstalled nowhere.
LEMMA UninstallWhenUnneeded ==
  ASSUME NEW count \in [Url -> Nat], NEW demand, NEW pending, NEW u \in Url
  PROVE  /\ u \notin Unneeded(demand, count, pending) =>
              AfterUninstall(count, demand, count, pending)[u] = count[u]
         /\ u \notin demand =>
              AfterUninstall(count, demand, count, pending)[u] = 0
         /\ u \in pending \ demand => u \in Unneeded(demand, count, pending)
BY DEF AfterUninstall, Remaining, Listed, Unneeded

\* Synchronizing with a demand, whichever installed lists it starts from.
LEMMA SynchronizingConsistent ==
  ASSUME TypeOK, OneInstallationPerUrl, PreloadedConsistent,
         NEW demand \in SUBSET Url, NEW current \in [Url -> Nat],
         \A u \in Url : current[u] <= 1,
         current = current_state \/ Pending = {},
         OnFilterListsChanged(demand, current, current)
  PROVE  /\ UniqueInstalled'
         /\ OneInstallationPerUrl'
         /\ StorageGovernsInstalled'
         /\ PreloadedConsistent'
         /\ Ready' \cup Pending' \subseteq demand
<1> DEFINE installed == {u \in Url : current[u] > 0}
           missing   == Missing(demand, installed, Pending)
           started   == {Fresh(u) : u \in missing \cap AllowedUrl}
           ongoing   == ongoing_installations \cup started
           unneeded  == Unneeded(demand, current, Urls(ongoing))
<1>1. /\ missing \cap AllowedUrl \subseteq Url
      /\ missing \cap AllowedUrl \cap Pending = {}
      /\ missing \subseteq demand
  BY DEF Missing
<1>2. \A u \in missing \cap AllowedUrl : HasFresh(u)
  BY DEF OnFilterListsChanged
<1>3. /\ current_state' =
           AfterUninstall(current, demand, current, Urls(ongoing))
      /\ backing_files' = current_state'
  BY DEF OnFilterListsChanged
<1>4. ongoing_installations' = {i \in ongoing : i.url \notin unneeded}
  BY DEF OnFilterListsChanged
<1>5. UniqueInstalled'
  BY <1>3, UninstallShrinks DEF UniqueInstalled
<1>6. OneInstallationPerUrl'
  BY <1>1, <1>2, <1>4, OneMoreEach DEF OneInstallationPerUrl
<1>7. StorageGovernsInstalled'
  BY <1>3 DEF StorageGovernsInstalled
<1>8. Ready' \subseteq demand
  BY <1>3, UninstallWhenUnneeded DEF Ready
<1>9. Pending' \subseteq demand
  <2>1. \A i \in ongoing : i.url \in Url
    BY <1>1, <1>2, FreshInstallation DEF TypeOK, OngoingInstallation
  <2>2. \A i \in ongoing : i.url \in Urls(ongoing)
    BY DEF Urls
  <2>3. \A i \in ongoing : i.url \notin demand => i.url \in unneeded
    <3> SUFFICES ASSUME NEW i \in ongoing, i.url \notin demand
                 PROVE  i.url \in unneeded
      OBVIOUS
    <3>1. i.url \in Url /\ i.url \in Urls(ongoing)
      BY <2>1, <2>2
    <3>2. QED
      BY <3>1, UninstallWhenUnneeded
  <2>4. QED
    BY <1>4, <2>3 DEF Pending, Urls
<1>10. PreloadedConsistent'
  <2>1. CASE missing \cup unneeded = {}
    <3>1. preloaded' = preloaded
      BY <2>1 DEF OnFilterListsChanged
    <3>2. ongoing_installations' = ongoing_installations
      BY <1>4, <2>1
    <3>3. current_state' = current
      <4>1. \A u \in Url : current_state'[u] = current[u]
        BY <1>3, <2>1, UninstallWhenUnneeded
      <4>2. current_state' \in [Url -> Nat]
        BY <1>3, UninstallShrinks
      <4>3. QED
        BY <4>1, <4>2
    <3>4. CASE current = current_state
      BY <3>1, <3>2, <3>3, <3>4 DEF PreloadedConsistent, Ready, Pending
    <3>5. CASE Pending = {}
      BY <3>1, <3>2, <3>5 DEF PreloadedConsistent, NeededPreloads, Pending
    <3>6. QED
      BY <3>4, <3>5
  <2>2. CASE missing \cup unneeded # {}
    BY <2>2 DEF OnFilterListsChanged, UpdatePreloadedSubscriptionProvider,
                PreloadedConsistent
  <2>3. QED
    BY <2>1, <2>2
<1>11. QED
  BY <1>5, <1>6, <1>7, <1>8, <1>9, <1>10

LEMMA InitConsistent == Init => Consistent
BY DEF Init, Consistent, UniqueInstalled, OneInstallationPerUrl,
       StorageGovernsInstalled, PreloadedConsistent, NothingBeforeLoading,
       NeededPreloads, Ready, Pending, Urls

\* Steps that only touch what the invariant does not speak of.
LEMMA Untouched ==
  ASSUME Consistent,
         UNCHANGED <<current_state, backing_files, ongoing_installations,
                     preloaded, status>>
  PROVE  Consistent'
BY DEF Consistent, UniqueInstalled, OneInstallationPerUrl,
       StorageGovernsInstalled, PreloadedConsistent, NothingBeforeLoading,
       NeededPreloads, Ready, Pending

\* Steps that end installations and then refresh the bundled lists.
LEMMA InstallationsShrink ==
  ASSUME Consistent, ongoing_installations' \subseteq ongoing_installations,
         preloaded' = NeededPreloads(Ready', Pending'),
         UNCHANGED <<current_state, backing_files, status>>
  PROVE  Consistent'
<1>1. UniqueInstalled' /\ StorageGovernsInstalled'
  BY DEF Consistent, UniqueInstalled, StorageGovernsInstalled
<1>2. OneInstallationPerUrl'
  BY DEF Consistent, OneInstallationPerUrl
<1>3. NothingBeforeLoading'
  BY DEF Consistent, NothingBeforeLoading, Ready, Pending, Urls
<1>4. PreloadedConsistent'
  BY DEF PreloadedConsistent
<1>5. QED
  BY <1>1, <1>2, <1>3, <1>4 DEF Consistent

LEMMA ConfigurationStepConsistent ==
  TypeOK /\ Consistent /\ ConfigurationStep => Consistent'
<1> SUFFICES ASSUME TypeOK, Consistent, ConfigurationStep
             PROVE  Consistent'
  OBVIOUS
<1>1. ASSUME NEW demand \in SUBSET Url, FilterListsChange(demand)
      PROVE  Consistent'
  <2>1. CASE status = "Initialized"
    <3>1. OnFilterListsChanged(demand, current_state, current_state)
      BY <1>1, <2>1
      DEF FilterListsChange, Consistent, StorageGovernsInstalled
    <3>2. status' = "Initialized"
      BY <1>1, <2>1 DEF FilterListsChange
    <3>3. current_state \in [Url -> Nat]
      BY DEF TypeOK
    <3>4. QED
      BY <3>1, <3>2, <3>3, SynchronizingConsistent
      DEF Consistent, UniqueInstalled, NothingBeforeLoading
  <2>2. CASE status # "Initialized"
    BY <1>1, <2>2, Untouched DEF FilterListsChange
  <2>3. QED
    BY <2>1, <2>2
<1>2. ASSUME NEW u \in Url, AddFilterList(u) \/ RemoveFilterList(u)
      PROVE  Consistent'
  <2>1. demanded \cup {u} \in SUBSET Url /\ demanded \ {u} \in SUBSET Url
    BY DEF TypeOK
  <2>2. QED
    BY <1>1, <1>2, <2>1 DEF AddFilterList, RemoveFilterList
<1>3. ASSUME NEW filters \in SUBSET CustomFilter, CustomFiltersChange(filters)
      PROVE  Consistent'
  BY <1>3, Untouched DEF CustomFiltersChange
<1>4. QED
  BY <1>2, <1>3 DEF ConfigurationStep

LEMMA UpdateConsistent ==
  TypeOK /\ Consistent /\ (RunUpdateCheck \/ \E u \in Url : Expire(u))
    => Consistent'
<1>1. ASSUME TypeOK, Consistent, RunUpdateCheck
      PROVE  Consistent'
  <2> DEFINE due     == DueForUpdate \cap AllowedUrl
             started == {Fresh(u) : u \in due}
  <2>1. due \subseteq Url /\ due \cap Pending = {}
    BY DEF DueForUpdate, Ready
  <2>2. \A u \in due : HasFresh(u)
    BY <1>1 DEF RunUpdateCheck
  <2>3. ongoing_installations' = ongoing_installations \cup started
    BY <1>1 DEF RunUpdateCheck
  <2>4. OneInstallationPerUrl'
    <3>1. OneInstallationPerUrl
      BY <1>1 DEF Consistent
    <3>2. QED
      BY <2>1, <2>2, <2>3, <3>1, OneMoreEach DEF OneInstallationPerUrl
  <2>5. UNCHANGED <<current_state, backing_files, status>>
    BY <1>1 DEF RunUpdateCheck, config_and_status
  <2>6. UniqueInstalled' /\ StorageGovernsInstalled'
    BY <1>1, <2>5 DEF Consistent, UniqueInstalled, StorageGovernsInstalled
  <2>7. NothingBeforeLoading'
    BY <1>1, <2>5 DEF RunUpdateCheck, NothingBeforeLoading
  <2>8. PreloadedConsistent'
    <3>1. Ready' = Ready
      BY <2>5 DEF Ready
    <3>2. CASE DueForUpdate = {}
      <4>1. preloaded' = preloaded
        BY <1>1, <3>2 DEF RunUpdateCheck
      <4>2. ongoing_installations' = ongoing_installations
        BY <2>3, <3>2
      <4>3. Pending' = Pending
        BY <4>2 DEF Pending
      <4>4. QED
        BY <1>1, <3>1, <4>1, <4>3 DEF Consistent, PreloadedConsistent
    <3>3. CASE DueForUpdate # {}
      BY <1>1, <3>1, <3>3 DEF RunUpdateCheck, PreloadedConsistent
    <3>4. QED
      BY <3>2, <3>3
  <2>9. QED
    BY <2>4, <2>6, <2>7, <2>8 DEF Consistent
<1>2. ASSUME Consistent, NEW u \in Url, Expire(u)
      PROVE  Consistent'
  BY <1>2, Untouched DEF Expire, maintainer_vars
<1>3. QED
  BY <1>1, <1>2

LEMMA DownloaderStepConsistent ==
  TypeOK /\ Consistent /\ DownloaderStep => Consistent'
<1> SUFFICES ASSUME TypeOK, Consistent, DownloaderStep
             PROVE  Consistent'
  OBVIOUS
<1> USE DEF config_and_status
<1>1. ASSUME NEW i, DownloadFailed(i), UNCHANGED config_and_status
      PROVE  Consistent'
  BY <1>1, InstallationsShrink
  DEF DownloadFailed, UpdatePreloadedSubscriptionProvider
<1>2. ASSUME UNCHANGED <<maintainer_vars, config_and_status>>
      PROVE  Consistent'
  BY <1>2, Untouched DEF maintainer_vars
<1>3. ASSUME NEW d \in ongoing_downloads, ConversionSucceeds(d)
      PROVE  Consistent'
  <2>1. /\ UNCHANGED <<current_state, backing_files, ongoing_installations,
                       status>>
        /\ preloaded' \in {preloaded, NeededPreloads(Ready, Pending)}
    BY <1>3 DEF ConversionSucceeds, DataAvailable
  <2>2. preloaded' = preloaded
    BY <2>1 DEF Consistent, PreloadedConsistent
  <2>3. QED
    BY <2>1, <2>2, Untouched
<1>4. ASSUME NEW d \in ongoing_downloads,
             \/ DownloadSucceeds(d) \/ BackoffEnds(d) \/ DownloadUnknown(d)
             \/ \E target \in Url : RedirectFollowed(d, target)
                                    \/ RedirectAsserts(d, target)
      PROVE  Consistent'
  BY <1>4, Untouched
  DEF DownloadSucceeds, BackoffEnds, DownloadUnknown, RedirectFollowed,
      RedirectAsserts, maintainer_vars
<1>5. ASSUME NEW d \in ongoing_downloads,
             \/ \E e \in FoundEntries(d) : DownloadFails(d, e)
             \/ ConversionFails(d)
             \/ \E target \in Url : RedirectRefused(d, target)
      PROVE  Consistent'
  BY <1>1, <1>2, <1>5 DEF DownloadFails, ConversionFails, RedirectRefused
<1>6. ASSUME \/ \E u \in Url : ConversionDiscarded(u)
             \/ \E known \in BOOLEAN : HeadRequestDone(known)
      PROVE  Consistent'
  BY <1>2, <1>6 DEF ConversionDiscarded, HeadRequestDone
<1>7. QED
  BY <1>3, <1>4, <1>5, <1>6 DEF DownloaderStep

\* A stored subscription takes the place of the entry it replaces, and its
\* file the place of that entry's file.
LEMMA Replacement ==
  ASSUME TypeOK, UniqueInstalled, StorageGovernsInstalled,
         NEW t \in stores, SubscriptionInstalled(t)
  PROVE  /\ t.url \in Url
         /\ current_state' = [current_state EXCEPT ![t.url] = 1]
         /\ backing_files' = current_state'
<1>1. t.url \in Url
  BY DEF TypeOK, Store
<1>2. current_state \in [Url -> Nat] /\ backing_files = current_state
  BY DEF TypeOK, StorageGovernsInstalled
<1>3. current_state[t.url] \in {0, 1}
  BY <1>1, <1>2 DEF UniqueInstalled
<1>4. current_state' = [current_state EXCEPT ![t.url] = 1]
  <2>1. Plus(Minus(current_state[t.url])) = 1
    BY <1>3 DEF Plus, Minus
  <2>2. QED
    BY <2>1 DEF SubscriptionInstalled
<1>5. AddFile(backing_files, t.url) =
        [current_state EXCEPT ![t.url] = current_state[t.url] + 1]
  BY <1>2 DEF AddFile
<1>6. backing_files' = [current_state EXCEPT ![t.url] = 1]
  <2>1. CASE current_state[t.url] = 0
    BY <1>1, <1>2, <1>5, <2>1 DEF SubscriptionInstalled
  <2>2. CASE current_state[t.url] = 1
    <3>1. backing_files' =
            RemoveSubscription(AddFile(backing_files, t.url), t.url)
      BY <2>2 DEF SubscriptionInstalled
    <3>2. AddFile(backing_files, t.url) =
            [current_state EXCEPT ![t.url] = 2]
      BY <1>5, <2>2
    <3>3. QED
      BY <1>1, <1>2, <3>1, <3>2 DEF RemoveSubscription
  <2>3. QED
    BY <1>3, <2>1, <2>2
<1>7. QED
  BY <1>1, <1>4, <1>6

LEMMA StorageStepConsistent ==
  TypeOK /\ Consistent /\ StorageStep => Consistent'
<1> SUFFICES ASSUME TypeOK, Consistent, StorageStep
             PROVE  Consistent'
  OBVIOUS
<1> USE DEF config_and_status
<1>1. ASSUME NEW loaded \in Loadable, StorageInitialized(loaded)
      PROVE  Consistent'
  <2>1. /\ WithoutDuplicates(loaded) \in [Url -> Nat]
        /\ \A u \in Url : WithoutDuplicates(loaded)[u] <= 1
    BY DEF WithoutDuplicates
  <2>2. Pending = {}
    BY <1>1 DEF StorageInitialized, Consistent, NothingBeforeLoading
  <2>3. demanded \in SUBSET Url /\ status' = "Initialized"
    BY <1>1 DEF StorageInitialized, TypeOK
  <2>4. OnFilterListsChanged(demanded, WithoutDuplicates(loaded),
                             WithoutDuplicates(loaded))
    BY <1>1 DEF StorageInitialized
  <2>5. QED
    BY <2>1, <2>2, <2>3, <2>4, SynchronizingConsistent
    DEF Consistent, NothingBeforeLoading
<1>2. ASSUME NEW t \in stores, SubscriptionInstalled(t)
      PROVE  Consistent'
  <2>1. /\ t.url \in Url
        /\ current_state' = [current_state EXCEPT ![t.url] = 1]
        /\ backing_files' = current_state'
    BY <1>2, Replacement DEF Consistent
  <2>2. current_state \in [Url -> Nat]
    BY DEF TypeOK
  <2>3. UniqueInstalled'
    BY <2>1, <2>2 DEF Consistent, UniqueInstalled
  <2>4. OneInstallationPerUrl'
    BY <1>2 DEF SubscriptionInstalled, Consistent, OneInstallationPerUrl
  <2>5. StorageGovernsInstalled'
    BY <2>1 DEF StorageGovernsInstalled
  <2>6. PreloadedConsistent'
    BY <1>2 DEF SubscriptionInstalled, UpdatePreloadedSubscriptionProvider,
                PreloadedConsistent
  <2>7. t.installation.url \in Pending
    BY <1>2 DEF SubscriptionInstalled, IsCancelled, Pending, Urls
  <2>8. NothingBeforeLoading'
    BY <1>2, <2>7 DEF SubscriptionInstalled, Consistent, NothingBeforeLoading
  <2>9. QED
    BY <2>3, <2>4, <2>5, <2>6, <2>8 DEF Consistent
<1>3. ASSUME NEW t \in stores, CancelledSubscriptionStored(t)
      PROVE  Consistent'
  <2>1. t.url \in Url /\ backing_files \in [Url -> Nat]
    BY DEF TypeOK, Store
  <2>2. RemoveSubscription(AddFile(backing_files, t.url), t.url)
          = backing_files
    <3>1. backing_files[t.url] + 1 > 0
      BY <2>1
    <3>2. (backing_files[t.url] + 1) - 1 = backing_files[t.url]
      BY <2>1
    <3>3. QED
      BY <2>1, <3>1, <3>2 DEF RemoveSubscription, AddFile
  <2>3. /\ UNCHANGED <<current_state, backing_files, ongoing_installations,
                       status>>
        /\ preloaded' = NeededPreloads(Ready, Pending)
    BY <1>3, <2>2 DEF CancelledSubscriptionStored
  <2>4. QED
    BY <2>3, Untouched DEF Consistent, PreloadedConsistent
<1>4. ASSUME NEW t \in stores, StoreFails(t)
      PROVE  Consistent'
  BY <1>4, InstallationsShrink
  DEF StoreFails, UpdatePreloadedSubscriptionProvider
<1>5. ASSUME NEW t \in stores, CancelledStoreFails(t)
      PROVE  Consistent'
  BY <1>5, Untouched DEF CancelledStoreFails
<1>6. QED
  BY <1>1, <1>2, <1>3, <1>4, <1>5 DEF StorageStep

LEMMA RestartConsistent ==
  Consistent /\ (Restart \/ Crash \/ PrefsWritten) => Consistent'
<1>1. NewMaintainer => Consistent'
  BY DEF NewMaintainer, Consistent, UniqueInstalled, OneInstallationPerUrl,
         StorageGovernsInstalled, PreloadedConsistent, NothingBeforeLoading,
         NeededPreloads, Ready, Pending, Urls
<1>2. Consistent /\ PrefsWritten => Consistent'
  BY Untouched DEF PrefsWritten, maintainer_vars
<1>3. QED
  BY <1>1, <1>2 DEF Restart, Crash

\* The invariant is inductive, on top of the types.
LEMMA Consistency == Spec => [](TypeOK /\ Consistent)
<1>1. Init => Consistent
  BY InitConsistent
<1>2. TypeOK /\ Consistent /\ [Next]_vars => Consistent'
  <2>1. ASSUME Consistent, UNCHANGED vars
        PROVE  Consistent'
    BY <2>1, Untouched DEF vars, maintainer_vars, config_and_status
  <2>2. QED
    BY <2>1, ConfigurationStepConsistent, DownloaderStepConsistent,
       StorageStepConsistent, UpdateConsistent, RestartConsistent DEF Next
<1>3. QED
  BY <1>1, <1>2, TypeCorrect, PTL DEF Spec

\* No list is ever installed twice, not by duplicates on disk, not by an
\* update and not by a redirect to an installed list.
THEOREM NoDuplicates == Spec => []UniqueInstalled
<1>1. Consistent => UniqueInstalled
  BY DEF Consistent
<1>2. QED
  BY <1>1, Consistency, PTL

\* No list is ever being installed twice at a time.
THEOREM OneInstallationEach == Spec => []OneInstallationPerUrl
<1>1. Consistent => OneInstallationPerUrl
  BY DEF Consistent
<1>2. QED
  BY <1>1, Consistency, PTL

\* The storage governs exactly the files of the installed lists.
THEOREM NoStrayFiles == Spec => []StorageGovernsInstalled
<1>1. Consistent => StorageGovernsInstalled
  BY DEF Consistent
<1>2. QED
  BY <1>1, Consistency, PTL

\* The bundled lists stand in for exactly the lists that are pending.
THEOREM PreloadsInStep == Spec => []PreloadedConsistent
<1>1. Consistent => PreloadedConsistent
  BY DEF Consistent
<1>2. QED
  BY <1>1, Consistency, PTL

-----------------------------------------------------------------------------
(* Answers never take an installed list away.                              *)

\* A failed or refused update leaves the version it was to replace, and a
\* late answer to a cancelled one does too.
THEOREM InstalledSurvivesAnswers == Spec => AnswersKeepInstalled
<1> DEFINE Kept == status' = "Initialized" /\ demanded' = demanded
                     => Ready \subseteq Ready'
<1>1. ASSUME UNCHANGED current_state
      PROVE  Kept
  BY <1>1 DEF Ready
<1>2. ASSUME TypeOK, Consistent, NEW t \in stores, SubscriptionInstalled(t)
      PROVE  Kept
  <2>1. /\ t.url \in Url
        /\ current_state' = [current_state EXCEPT ![t.url] = 1]
    BY <1>2, Replacement DEF Consistent
  <2>2. current_state \in [Url -> Nat]
    BY <1>2 DEF TypeOK
  <2>3. QED
    BY <2>1, <2>2 DEF Ready
<1>3. TypeOK /\ Consistent /\ StorageStep => Kept
  <2>1. ASSUME Consistent, NEW loaded \in Loadable, StorageInitialized(loaded)
        PROVE  Kept
    BY <2>1 DEF StorageInitialized, Consistent, NothingBeforeLoading
  <2>2. QED
    BY <1>1, <1>2, <2>1
    DEF StorageStep, CancelledSubscriptionStored, StoreFails,
        CancelledStoreFails
<1>4. DownloaderStep => Kept
  <2>1. DownloaderStep => UNCHANGED current_state
    BY DEF DownloaderStep, DownloadFails, DownloadFailed, DownloadSucceeds,
           BackoffEnds, ConversionSucceeds, DataAvailable, ConversionFails,
           DownloadUnknown, RedirectRefused, RedirectFollowed, RedirectAsserts,
           ConversionDiscarded, HeadRequestDone, maintainer_vars
  <2>2. QED
    BY <1>1, <2>1
<1>5. TypeOK /\ ConfigurationStep => Kept
  <2>1. ASSUME TypeOK, NEW u \in Url, AddFilterList(u) \/ RemoveFilterList(u)
        PROVE  demanded' # demanded
    BY <2>1 DEF AddFilterList, RemoveFilterList, FilterListsChange
  <2>2. QED
    BY <1>1, <2>1 DEF ConfigurationStep, CustomFiltersChange
<1>6. RunUpdateCheck \/ (\E u \in Url : Expire(u)) => Kept
  BY <1>1 DEF RunUpdateCheck, Expire, maintainer_vars
<1>7. Restart \/ Crash \/ PrefsWritten => Kept
  BY <1>1 DEF Restart, Crash, NewMaintainer, PrefsWritten, maintainer_vars
<1>8. TypeOK /\ Consistent /\ [Next]_vars => [Kept]_vars
  BY <1>1, <1>3, <1>4, <1>5, <1>6, <1>7 DEF Next, vars, maintainer_vars
<1>9. QED
  BY <1>8, Consistency, PTL DEF Spec, AnswersKeepInstalled

-----------------------------------------------------------------------------
(* With redirects: nothing but what demanded lists redirect to.            *)

\* Reachable is closed under redirects, and along itself.
LEMMA ReachableClosed ==
  /\ \A u \in Url : u \in Reachable(u)
  /\ \A u, v, w \in Url : v \in Reachable(u) /\ w \in RedirectsTo[v]
                            => w \in Reachable(u)
  /\ \A u, v, w \in Url : v \in Reachable(u) /\ w \in Reachable(v)
                            => w \in Reachable(u)
BY DEF Reachable

\* What is downloaded or stored is where redirects led from the list that
\* its installation is about.
Followed ==
  /\ \A d \in ongoing_downloads : d.url \in Reachable(d.installation.url)
  /\ \A t \in stores : t.url \in Reachable(t.installation.url)

Traced == TypeOK /\ Consistent /\ Followed /\ OnlyObtainable

\* The downloads are earlier ones, as far as this goes.
LEMMA FollowedKept ==
  ASSUME Followed, stores' \subseteq stores,
         \A d \in ongoing_downloads' : \E e \in ongoing_downloads :
           d.url = e.url /\ d.installation = e.installation
  PROVE  Followed'
BY DEF Followed

\* Or they are for new installations.
LEMMA FollowedFromStart ==
  ASSUME Followed, stores' = stores, NEW urls \in SUBSET Url, NEW policy,
         \A u \in urls : HasFresh(u),
         ongoing_downloads' \subseteq
           StartDownload(ongoing_downloads, {Fresh(u) : u \in urls}, policy)
  PROVE  Followed'
<1>1. ASSUME NEW u \in urls
      PROVE  LET d == NewDownload(Fresh(u), policy)
             IN  d.url \in Reachable(d.installation.url)
  <2>1. Fresh(u).url = u
    BY FreshInstallation
  <2>2. QED
    BY <2>1, ReachableClosed DEF NewDownload
<1>2. QED
  BY <1>1 DEF Followed, StartDownload

LEMMA SynchronizingFollowed ==
  ASSUME Followed, stores' = stores, NEW demand \in SUBSET Url, NEW current,
         NEW files, OnFilterListsChanged(demand, current, files)
  PROVE  Followed'
<1> DEFINE missing == Missing(demand, {u \in Url : current[u] > 0}, Pending)
           urls    == missing \cap AllowedUrl
<1>1. urls \in SUBSET Url /\ \A u \in urls : HasFresh(u)
  BY DEF OnFilterListsChanged, Missing
<1>2. ongoing_downloads' \subseteq
        StartDownload(ongoing_downloads, {Fresh(u) : u \in urls},
                      RetryPolicyFor(FALSE))
  BY DEF OnFilterListsChanged, CancelDownload
<1>3. QED
  BY <1>1, <1>2, FollowedFromStart

\* What is demanded is obtainable.
LEMMA DemandedIsObtainable ==
  ASSUME NEW urls \in SUBSET Url
  PROVE  urls \subseteq Obtainable(urls)
BY ReachableClosed DEF Obtainable

LEMMA ConfigurationStepTraced ==
  Traced /\ ConfigurationStep => Followed' /\ OnlyObtainable'
<1> SUFFICES ASSUME Traced, ConfigurationStep
             PROVE  Followed' /\ OnlyObtainable'
  OBVIOUS
<1> USE DEF Traced
<1>1. ASSUME NEW demand \in SUBSET Url, FilterListsChange(demand)
      PROVE  Followed' /\ OnlyObtainable'
  <2>1. stores' = stores /\ demanded' = demand /\ status' = status
    BY <1>1 DEF FilterListsChange
  <2>2. CASE status = "Initialized"
    <3>1. OnFilterListsChanged(demand, current_state, current_state)
      BY <1>1, <2>2
      DEF FilterListsChange, Consistent, StorageGovernsInstalled
    <3>2. current_state \in [Url -> Nat]
      BY DEF TypeOK
    <3>3. Ready' \cup Pending' \subseteq demand
      BY <3>1, <3>2, SynchronizingConsistent DEF Consistent, UniqueInstalled
    <3>4. OnlyObtainable'
      BY <2>1, <3>3, DemandedIsObtainable DEF OnlyObtainable
    <3>5. QED
      BY <2>1, <3>1, <3>4, SynchronizingFollowed
  <2>3. CASE status # "Initialized"
    <3>1. OnlyObtainable'
      BY <2>1, <2>3 DEF OnlyObtainable
    <3>2. QED
      BY <1>1, <2>1, <2>3, <3>1, FollowedKept DEF FilterListsChange
  <2>4. QED
    BY <2>2, <2>3
<1>2. ASSUME NEW u \in Url, AddFilterList(u) \/ RemoveFilterList(u)
      PROVE  Followed' /\ OnlyObtainable'
  <2>1. demanded \cup {u} \in SUBSET Url /\ demanded \ {u} \in SUBSET Url
    BY DEF TypeOK
  <2>2. QED
    BY <1>1, <1>2, <2>1 DEF AddFilterList, RemoveFilterList
<1>3. ASSUME NEW filters \in SUBSET CustomFilter, CustomFiltersChange(filters)
      PROVE  Followed' /\ OnlyObtainable'
  <2>1. Followed'
    BY <1>3, FollowedKept DEF CustomFiltersChange, downloader_vars
  <2>2. OnlyObtainable'
    BY <1>3 DEF CustomFiltersChange, OnlyObtainable, Ready, Pending
  <2>3. QED
    BY <2>1, <2>2
<1>4. QED
  BY <1>2, <1>3 DEF ConfigurationStep

\* Nothing becomes installed or pending.
LEMMA NothingObtained ==
  ASSUME OnlyObtainable,
         ongoing_installations' \subseteq ongoing_installations,
         UNCHANGED <<current_state, demanded, status>>
  PROVE  OnlyObtainable'
BY DEF OnlyObtainable, Ready, Pending, Urls

LEMMA UpdateTraced ==
  Traced /\ (RunUpdateCheck \/ \E u \in Url : Expire(u))
    => Followed' /\ OnlyObtainable'
<1> USE DEF Traced
<1>1. ASSUME Traced, RunUpdateCheck
      PROVE  Followed' /\ OnlyObtainable'
  <2> DEFINE due     == DueForUpdate \cap AllowedUrl
             started == {Fresh(u) : u \in due}
  <2>1. due \in SUBSET Url /\ due \subseteq Ready
    BY DEF DueForUpdate, Ready
  <2>2. \A u \in due : HasFresh(u)
    BY <1>1 DEF RunUpdateCheck
  <2>3. /\ stores' = stores
        /\ ongoing_downloads' =
             StartDownload(ongoing_downloads, started, RetryPolicyFor(TRUE))
        /\ ongoing_installations' = ongoing_installations \cup started
        /\ UNCHANGED <<current_state, demanded, status>>
    BY <1>1 DEF RunUpdateCheck, config_and_status
  <2>4. Followed'
    BY <1>1, <2>1, <2>2, <2>3, FollowedFromStart
  <2>5. \A i \in started : i.url \in Ready
    BY <2>1, <2>2, FreshInstallation
  <2>6. Pending' \subseteq Pending \cup Ready /\ Ready' = Ready
    BY <2>3, <2>5 DEF Ready, Pending, Urls
  <2>7. OnlyObtainable'
    BY <1>1, <2>3, <2>6 DEF OnlyObtainable
  <2>8. QED
    BY <2>4, <2>7
<1>2. ASSUME Traced, NEW u \in Url, Expire(u)
      PROVE  Followed' /\ OnlyObtainable'
  BY <1>2, FollowedKept, NothingObtained
  DEF Expire, downloader_vars, maintainer_vars
<1>3. QED
  BY <1>1, <1>2

\* A redirect that is followed leads one step further.
LEMMA RedirectTraced ==
  ASSUME Traced, NEW d \in ongoing_downloads, NEW target \in Url,
         RedirectFollowed(d, target)
  PROVE  Followed'
<1> USE DEF Traced
<1>1. ongoing_downloads \subseteq OngoingDownload
  BY DEF TypeOK, DownloaderTypeOK
<1>2. d.url \in Url /\ d.installation.url \in Url
  BY <1>1 DEF OngoingDownload, OngoingInstallation
<1> DEFINE moved == [d EXCEPT !.url = target]
<1>3. /\ target \in RedirectsTo[d.url]
      /\ ongoing_downloads' = Rekey(d, target)
      /\ stores' = stores
  BY DEF RedirectFollowed, Redirect, IsRedirect, maintainer_vars
<1>4. target \in Reachable(d.installation.url)
  BY <1>2, <1>3, ReachableClosed DEF Followed
<1>5. /\ moved \in OngoingDownload
      /\ moved.url = target
      /\ moved.installation = d.installation
  BY <1>1 DEF OngoingDownload
<1>6. \A e \in ongoing_downloads \cup {moved} :
        e.url \in Reachable(e.installation.url) /\ e \in OngoingDownload
  BY <1>1, <1>4, <1>5 DEF Followed
<1> HIDE DEF moved
<1>7. ASSUME NEW e \in OngoingDownload
      PROVE  LET x == [e EXCEPT !.redirects = CountRedirect(@), !.loader = TRUE]
             IN  x.url = e.url /\ x.installation = e.installation
  BY DEF OngoingDownload
<1>8. \A x \in Rekey(d, target) : \E e \in ongoing_downloads \cup {moved} :
        x.url = e.url /\ x.installation = e.installation
  <2> DEFINE others == ongoing_downloads \ {d}
             taken  == {e \in others : e.url = target}
             redirected == IF taken = {} THEN {moved} ELSE taken
  <2>1. Rekey(d, target) = (others \ taken)
          \cup {[e EXCEPT !.redirects = CountRedirect(@), !.loader = TRUE] :
                   e \in redirected}
    BY DEF Rekey, moved
  <2>2. redirected \subseteq ongoing_downloads \cup {moved}
    OBVIOUS
  <2>3. QED
    BY <1>6, <1>7, <2>1, <2>2
<1>9. QED
  BY <1>3, <1>6, <1>8 DEF Followed

LEMMA DownloaderStepTraced ==
  Traced /\ DownloaderStep => Followed' /\ OnlyObtainable'
<1> SUFFICES ASSUME Traced, DownloaderStep
             PROVE  Followed' /\ OnlyObtainable'
  OBVIOUS
<1> USE DEF Traced
<1>1. OnlyObtainable'
  <2>1. /\ ongoing_installations' \subseteq ongoing_installations
        /\ UNCHANGED <<current_state, demanded, status>>
    BY DEF DownloaderStep, DownloadFails, DownloadFailed, DownloadSucceeds,
           BackoffEnds, ConversionSucceeds, DataAvailable, ConversionFails,
           DownloadUnknown, RedirectRefused, RedirectFollowed, RedirectAsserts,
           ConversionDiscarded, HeadRequestDone, maintainer_vars,
           config_and_status
  <2>2. QED
    BY <2>1, NothingObtained
<1> DEFINE Same(D) == \A d \in D : \E e \in ongoing_downloads :
                        d.url = e.url /\ d.installation = e.installation
<1>2. ongoing_downloads \subseteq OngoingDownload
  BY DEF TypeOK, DownloaderTypeOK
<1>3. \A d \in ongoing_downloads : Same(LoaderDone(d))
  BY <1>2 DEF LoaderDone, OngoingDownload
<1>4. ASSUME NEW d \in ongoing_downloads, NEW e \in FoundEntries(d),
             DownloadFails(d, e)
      PROVE  Followed'
  <2>1. e \in LoaderDone(d) /\ e \in OngoingDownload
    BY LoaderDoneTypes DEF FoundEntries
  <2>2. /\ [e EXCEPT !.retry_timer = TRUE].url = e.url
        /\ [e EXCEPT !.retry_timer = TRUE].installation = e.installation
    BY <2>1 DEF OngoingDownload
  <2>3. \/ ongoing_downloads' \subseteq LoaderDone(d)
        \/ ongoing_downloads' =
             (LoaderDone(d) \ {e}) \cup {[e EXCEPT !.retry_timer = TRUE]}
    BY <1>4 DEF DownloadFails, Retry, Abandon
  <2>4. Same(ongoing_downloads')
    BY <1>3, <2>1, <2>2, <2>3
  <2>5. stores' = stores
    BY <1>4 DEF DownloadFails, DownloadFailed, maintainer_vars
  <2>6. QED
    BY <2>4, <2>5, FollowedKept
<1>5. ASSUME NEW d \in ongoing_downloads, DownloadSucceeds(d)
      PROVE  Followed'
  BY <1>3, <1>5, FollowedKept
  DEF DownloadSucceeds, StartConversion, maintainer_vars
<1>6. ASSUME NEW d \in ongoing_downloads, BackoffEnds(d)
      PROVE  Followed'
  <2> DEFINE e == [d EXCEPT !.retry_timer = FALSE, !.loader = TRUE]
  <2>1. e.url = d.url /\ e.installation = d.installation
    BY <1>2 DEF OngoingDownload
  <2>2. QED
    BY <1>6, <2>1, FollowedKept DEF BackoffEnds, RetryTimerFires, maintainer_vars
<1>7. ASSUME NEW d \in ongoing_downloads, ConversionSucceeds(d)
      PROVE  Followed'
  <2>1. /\ ongoing_downloads' \subseteq ongoing_downloads
        /\ stores' \subseteq stores \cup
             {[installation |-> d.installation, url |-> d.url]}
    BY <1>7 DEF ConversionSucceeds, Deliver, DataAvailable
  <2>2. QED
    BY <2>1 DEF Followed
<1>8. ASSUME NEW d \in ongoing_downloads,
             \/ ConversionFails(d)
             \/ DownloadUnknown(d)
             \/ \E target \in Url : \/ RedirectRefused(d, target)
                                    \/ RedirectAsserts(d, target)
      PROVE  Followed'
  <2>1. ongoing_downloads' \subseteq ongoing_downloads /\ stores' = stores
    BY <1>8 DEF ConversionFails, AbortOnError, RedirectRefused,
       AbortOnRedirect, AbortWithWarning, DownloadFailed, DownloadUnknown,
       RedirectAsserts, downloader_vars, maintainer_vars
  <2>2. QED
    BY <2>1, FollowedKept
<1>9. ASSUME \/ \E u \in Url : ConversionDiscarded(u)
             \/ \E known \in BOOLEAN : HeadRequestDone(known)
      PROVE  Followed'
  <2>1. UNCHANGED <<ongoing_downloads, stores>>
    BY <1>9 DEF ConversionDiscarded, Discard, HeadRequestDone,
       HeadersOnlyDownloaded, maintainer_vars
  <2>2. QED
    BY <2>1, FollowedKept
<1>10. Followed'
  BY <1>4, <1>5, <1>6, <1>7, <1>8, <1>9, RedirectTraced DEF DownloaderStep
<1>11. QED
  BY <1>1, <1>10

LEMMA StorageStepTraced ==
  Traced /\ StorageStep => Followed' /\ OnlyObtainable'
<1> SUFFICES ASSUME Traced, StorageStep
             PROVE  Followed' /\ OnlyObtainable'
  OBVIOUS
<1> USE DEF Traced, config_and_status
<1>1. ASSUME NEW loaded \in Loadable, StorageInitialized(loaded)
      PROVE  Followed' /\ OnlyObtainable'
  <2>1. /\ WithoutDuplicates(loaded) \in [Url -> Nat]
        /\ \A u \in Url : WithoutDuplicates(loaded)[u] <= 1
    BY DEF WithoutDuplicates
  <2>2. Pending = {}
    BY <1>1 DEF StorageInitialized, Consistent, NothingBeforeLoading
  <2>3. /\ demanded \in SUBSET Url /\ demanded' = demanded
        /\ stores' = stores
    BY <1>1 DEF StorageInitialized, TypeOK
  <2>4. OnFilterListsChanged(demanded, WithoutDuplicates(loaded),
                             WithoutDuplicates(loaded))
    BY <1>1 DEF StorageInitialized
  <2>5. Ready' \cup Pending' \subseteq demanded
    BY <2>1, <2>2, <2>3, <2>4, SynchronizingConsistent DEF Consistent
  <2>6. Followed'
    BY <2>3, <2>4, SynchronizingFollowed
  <2>7. QED
    BY <2>3, <2>5, <2>6, DemandedIsObtainable DEF OnlyObtainable
<1>2. ASSUME NEW t \in stores, SubscriptionInstalled(t)
      PROVE  Followed' /\ OnlyObtainable'
  <2>1. /\ ongoing_downloads' \subseteq ongoing_downloads
        /\ stores' \subseteq stores
        /\ ongoing_installations' \subseteq ongoing_installations
        /\ UNCHANGED <<demanded, status>>
    BY <1>2 DEF SubscriptionInstalled, CancelDownload
  <2>2. Followed'
    BY <2>1, FollowedKept
  <2>3. /\ t.url \in Url /\ t.installation.url \in Url
        /\ t.installation.url \in Pending
        /\ t.url \in Reachable(t.installation.url)
    BY <1>2 DEF SubscriptionInstalled, IsCancelled, Pending, Urls, Followed,
       TypeOK, Store, OngoingInstallation
  <2>4. ASSUME status = "Initialized"
        PROVE  t.url \in Obtainable(demanded)
    <3>1. PICK u \in demanded : t.installation.url \in Reachable(u)
      BY <2>3, <2>4 DEF OnlyObtainable, Obtainable
    <3>2. u \in Url
      BY DEF TypeOK
    <3>3. t.url \in Reachable(u)
      BY <2>3, <3>1, <3>2, ReachableClosed
    <3>4. QED
      BY <3>3 DEF Obtainable
  <2>5. Ready' \subseteq Ready \cup {t.url} /\ Pending' \subseteq Pending
    <3>1. current_state' = [current_state EXCEPT ![t.url] = 1]
      BY <1>2, Replacement DEF Consistent
    <3>2. QED
      BY <2>1, <3>1 DEF TypeOK, Ready, Pending, Urls
  <2>6. OnlyObtainable'
    BY <2>1, <2>4, <2>5 DEF OnlyObtainable
  <2>7. QED
    BY <2>2, <2>6
<1>3. ASSUME NEW t \in stores,
             CancelledSubscriptionStored(t) \/ CancelledStoreFails(t)
               \/ StoreFails(t)
      PROVE  Followed' /\ OnlyObtainable'
  <2>1. /\ stores' \subseteq stores
        /\ ongoing_installations' \subseteq ongoing_installations
        /\ UNCHANGED <<ongoing_downloads, current_state, demanded, status>>
    BY <1>3 DEF CancelledSubscriptionStored, CancelledStoreFails, StoreFails,
                downloader_vars
  <2>2. QED
    BY <2>1, FollowedKept, NothingObtained
<1>4. QED
  BY <1>1, <1>2, <1>3 DEF StorageStep

LEMMA RestartTraced ==
  Traced /\ (Restart \/ Crash \/ PrefsWritten \/ UNCHANGED vars)
    => Followed' /\ OnlyObtainable'
<1> USE DEF Traced
<1>1. NewMaintainer => Followed' /\ OnlyObtainable'
  BY DEF NewMaintainer, DownloaderStops, Followed, OnlyObtainable
<1>2. Traced /\ (PrefsWritten \/ UNCHANGED vars) => Followed' /\ OnlyObtainable'
  BY FollowedKept, NothingObtained
  DEF PrefsWritten, vars, downloader_vars, maintainer_vars, config_and_status
<1>3. QED
  BY <1>1, <1>2 DEF Restart, Crash

\* Whatever redirects say, and however downloads are taken for one another,
\* nothing is installed or being installed but a demanded list or what a
\* demanded list redirects to.
THEOREM OnlyObtainableHolds == Spec => []OnlyObtainable
<1>1. Init => Followed /\ OnlyObtainable
  BY DEF Init, DownloaderInit, Followed, OnlyObtainable
<1>2. TypeOK /\ Consistent /\ Followed /\ OnlyObtainable /\ [Next]_vars
        => Followed' /\ OnlyObtainable'
  BY ConfigurationStepTraced, DownloaderStepTraced, StorageStepTraced,
     UpdateTraced, RestartTraced DEF Next, Traced
<1>3. QED
  BY <1>1, <1>2, Consistency, PTL DEF Spec

-----------------------------------------------------------------------------
(* Custom filters, and what is counted for Acceptable Ads.                 *)

\* The filters made from the configuration are never behind it.
THEOREM FiltersNeverBehind == Spec => []CustomFiltersInForce
<1>1. Init => CustomFiltersInForce
  BY DEF Init, CustomFiltersInForce
<1>2. CustomFiltersInForce /\ [Next]_vars => CustomFiltersInForce'
  <2> SUFFICES ASSUME CustomFiltersInForce, [Next]_vars
               PROVE  CustomFiltersInForce'
    OBVIOUS
  <2> DEFINE Same == UNCHANGED <<custom_filters, configured_filters, status>>
  <2>1. Same => CustomFiltersInForce'
    BY DEF CustomFiltersInForce
  <2>2. ConfigurationStep => CustomFiltersInForce'
    BY <2>1 DEF ConfigurationStep, AddFilterList, RemoveFilterList,
       FilterListsChange, CustomFiltersChange, SetCustomFilters,
       CustomFiltersInForce
  <2>3. DownloaderStep => Same
    BY DEF DownloaderStep, DownloadFails, DownloadFailed, DownloadSucceeds,
       BackoffEnds, ConversionSucceeds, DataAvailable, ConversionFails,
       DownloadUnknown, RedirectRefused, RedirectFollowed, RedirectAsserts,
       ConversionDiscarded, HeadRequestDone, maintainer_vars,
       config_and_status
  <2>4. StorageStep => CustomFiltersInForce'
    <3>1. ASSUME NEW loaded, StorageInitialized(loaded)
          PROVE  CustomFiltersInForce'
      BY <3>1 DEF StorageInitialized, SetCustomFilters, CustomFiltersInForce
    <3>2. ASSUME NEW t, SubscriptionInstalled(t)
                          \/ CancelledSubscriptionStored(t)
                          \/ StoreFails(t) \/ CancelledStoreFails(t)
          PROVE  Same
      BY <3>2 DEF SubscriptionInstalled, CancelledSubscriptionStored,
         StoreFails, CancelledStoreFails, config_and_status
    <3>3. QED
      BY <2>1, <3>1, <3>2 DEF StorageStep
  <2>5. RunUpdateCheck \/ (\E u \in Url : Expire(u)) => Same
    BY DEF RunUpdateCheck, Expire, maintainer_vars, config_and_status
  <2>6. Restart \/ Crash \/ PrefsWritten => CustomFiltersInForce'
    BY <2>1 DEF Restart, Crash, NewMaintainer, PrefsWritten, maintainer_vars,
       CustomFiltersInForce
  <2>7. UNCHANGED vars => Same
    BY DEF vars, maintainer_vars, config_and_status
  <2>8. QED
    BY <2>1, <2>2, <2>3, <2>4, <2>5, <2>6, <2>7 DEF Next
<1>3. QED
  BY <1>1, <1>2, PTL DEF Spec

\* No setter takes a count back, and removing lists leaves Acceptable Ads.
LEMMA CountsGrow ==
  ASSUME NEW m \in [Url -> Metadata]
  PROVE  /\ Count(m) \in Nat
         /\ \A u \in Url :
              /\ Count(SetExpirationInterval(m, u)) = Count(m)
              /\ Count([m EXCEPT ![u].expired = TRUE]) = Count(m)
              /\ Count(IncrementDownloadSuccessCount(m, u)) >= Count(m)
<1> USE MaintainerAssumption DEF Metadata, Count
<1>1. m[AcceptableAdsUrl].download_count \in Nat
  OBVIOUS
<1>2. \A u \in Url : CountOneMore(u, m[AcceptableAdsUrl].download_count)
                       >= m[AcceptableAdsUrl].download_count
  BY <1>1 DEF CountOneMore
<1>3. QED
  BY <1>1, <1>2 DEF SetExpirationInterval, IncrementDownloadSuccessCount

LEMMA AcceptableAdsRetained ==
  ASSUME NEW m, NEW urls
  PROVE  Count(RemoveMetadata(m, Forgotten(urls))) = Count(m)
BY MaintainerAssumption DEF RemoveMetadata, Forgotten, Count

\* What is counted while the browser runs, and what is written of it.
CountNotLess ==
  /\ Count(metadata_map') >= Count(metadata_map)
  /\ Count(written_metadata') = Count(written_metadata)

LEMMA MetadataUntouched ==
  TypeOK /\ UNCHANGED <<metadata_map, written_metadata>> => CountNotLess
BY CountsGrow DEF TypeOK, MetadataTypeOK, CountNotLess

LEMMA SynchronizingCounts ==
  ASSUME TypeOK, NEW demand, NEW current, NEW files,
         OnFilterListsChanged(demand, current, files),
         written_metadata' = written_metadata
  PROVE  CountNotLess
<1>1. PICK urls : metadata_map' = RemoveMetadata(metadata_map, Forgotten(urls))
  BY DEF OnFilterListsChanged
<1>2. Count(metadata_map) \in Nat
  BY CountsGrow DEF TypeOK, MetadataTypeOK
<1>3. Count(metadata_map') = Count(metadata_map)
  BY <1>1, AcceptableAdsRetained
<1>4. QED
  BY <1>2, <1>3 DEF CountNotLess

LEMMA DownloaderStepCounts == TypeOK /\ DownloaderStep => CountNotLess
<1> SUFFICES ASSUME TypeOK, DownloaderStep
             PROVE  CountNotLess
  OBVIOUS
<1>1. ASSUME NEW known \in BOOLEAN, HeadRequestDone(known)
      PROVE  CountNotLess
  <2>1. metadata_map \in [Url -> Metadata] /\ AcceptableAdsUrl \in Url
    BY MaintainerAssumption DEF TypeOK, MetadataTypeOK
  <2>2. Count(metadata_map') = Count(metadata_map)
    BY <1>1, <2>1, CountsGrow DEF HeadRequestDone
  <2>3. Count(metadata_map) \in Nat
    BY <2>1, CountsGrow
  <2>4. QED
    BY <1>1, <2>2, <2>3 DEF HeadRequestDone, config_and_status, CountNotLess
<1>2. ASSUME NEW d \in ongoing_downloads, NEW target \in Url,
             \/ \E e \in FoundEntries(d) : DownloadFails(d, e)
             \/ DownloadSucceeds(d)
             \/ BackoffEnds(d)
             \/ ConversionSucceeds(d)
             \/ ConversionFails(d)
             \/ DownloadUnknown(d)
             \/ RedirectRefused(d, target)
             \/ RedirectFollowed(d, target)
             \/ RedirectAsserts(d, target)
      PROVE  UNCHANGED <<metadata_map, written_metadata>>
  BY <1>2 DEF DownloadFails, Retry, Abandon, DownloadSucceeds,
     StartConversion, BackoffEnds, RetryTimerFires, ConversionSucceeds,
     Deliver, ConversionFails, AbortOnError, DownloadUnknown, RedirectRefused,
     AbortOnRedirect, RedirectFollowed, Redirect, RedirectAsserts,
     config_and_status
<1>3. ASSUME NEW u \in Url, ConversionDiscarded(u)
      PROVE  UNCHANGED <<metadata_map, written_metadata>>
  BY <1>3 DEF ConversionDiscarded, Discard, config_and_status
<1>4. AcceptableAdsUrl \in Url
  BY MaintainerAssumption
<1>5. QED
  BY <1>1, <1>2, <1>3, <1>4, MetadataUntouched DEF DownloaderStep

LEMMA StorageStepCounts == TypeOK /\ StorageStep => CountNotLess
<1> SUFFICES ASSUME TypeOK, StorageStep
             PROVE  CountNotLess
  OBVIOUS
<1>1. metadata_map \in [Url -> Metadata]
  BY DEF TypeOK, MetadataTypeOK
<1>2. ASSUME NEW t \in stores, SubscriptionStored(t.url),
             written_metadata' = written_metadata
      PROVE  CountNotLess
  <2> DEFINE m == IncrementDownloadSuccessCount(metadata_map, t.url)
  <2>1. t.url \in Url
    BY DEF TypeOK, Store
  <2>2. m \in [Url -> Metadata]
    BY <1>1, <2>1, MetadataSetters
  <2>3. Count(m) >= Count(metadata_map)
    BY <1>1, <2>1, CountsGrow
  <2>4. metadata_map' = SetExpirationInterval(m, t.url)
    BY <1>2 DEF SubscriptionStored
  <2> HIDE DEF m
  <2>5. Count(metadata_map') = Count(m)
    BY <2>1, <2>2, <2>4, CountsGrow
  <2>6. QED
    BY <1>2, <2>3, <2>5 DEF CountNotLess
<1>3. ASSUME NEW loaded \in Loadable, StorageInitialized(loaded)
      PROVE  CountNotLess
  BY <1>3, SynchronizingCounts DEF StorageInitialized
<1>4. ASSUME NEW t \in stores,
             SubscriptionInstalled(t) \/ CancelledSubscriptionStored(t)
      PROVE  CountNotLess
  BY <1>2, <1>4 DEF SubscriptionInstalled, CancelledSubscriptionStored,
     config_and_status
<1>5. ASSUME NEW t \in stores, StoreFails(t) \/ CancelledStoreFails(t)
      PROVE  CountNotLess
  BY <1>5, MetadataUntouched
  DEF StoreFails, CancelledStoreFails, config_and_status
<1>6. QED
  BY <1>3, <1>4, <1>5 DEF StorageStep

\* While the browser runs no step takes the count back.
LEMMA StepCounts ==
  TypeOK /\ (\/ ConfigurationStep \/ DownloaderStep \/ StorageStep
             \/ RunUpdateCheck \/ \E u \in Url : Expire(u)
             \/ Restart \/ UNCHANGED vars)
    => CountNotLess
<1>1. ASSUME TypeOK, NEW demand, FilterListsChange(demand)
      PROVE  CountNotLess
  BY <1>1, SynchronizingCounts, MetadataUntouched DEF FilterListsChange
<1>2. TypeOK /\ ConfigurationStep => CountNotLess
  BY <1>1, MetadataUntouched
  DEF ConfigurationStep, AddFilterList, RemoveFilterList, CustomFiltersChange
<1>3. ASSUME TypeOK, NEW u \in Url, Expire(u)
      PROVE  CountNotLess
  <2>1. /\ metadata_map \in [Url -> Metadata]
        /\ written_metadata \in [Url -> Metadata]
    BY <1>3 DEF TypeOK, MetadataTypeOK
  <2>2. Count(metadata_map) \in Nat
    BY <2>1, CountsGrow
  <2>3. Count(metadata_map') = Count(metadata_map)
    BY <1>3, <2>1, CountsGrow DEF Expire, ExpirationTimePasses
  <2>4. Count(written_metadata') = Count(written_metadata)
    BY <1>3, <2>1, CountsGrow DEF Expire, ExpirationTimePasses
  <2>5. QED
    BY <2>2, <2>3, <2>4 DEF CountNotLess
<1>4. TypeOK /\ (RunUpdateCheck \/ Restart \/ UNCHANGED vars) => CountNotLess
  BY MetadataUntouched DEF RunUpdateCheck, Restart, vars, config_and_status
<1>5. QED
  BY <1>2, <1>3, <1>4, DownloaderStepCounts, StorageStepCounts

\* What is written was counted before, so that writing takes nothing back.
WrittenNotMore == Count(written_metadata) <= Count(metadata_map)

LEMMA WrittenNeverMore == Spec => []WrittenNotMore
<1>1. TypeOK => Count(metadata_map) \in Nat /\ Count(written_metadata) \in Nat
  BY CountsGrow DEF TypeOK, MetadataTypeOK
<1>2. Init => WrittenNotMore
  <2>1. Init => Count(written_metadata) = Count(metadata_map)
    BY DEF Init, MetadataInit
  <2>2. Init => TypeOK
    BY InitTypes
  <2>3. QED
    BY <1>1, <2>1, <2>2 DEF WrittenNotMore
<1>3. TypeOK /\ TypeOK' /\ WrittenNotMore /\ [Next]_vars => WrittenNotMore'
  <2>1. TypeOK' => Count(metadata_map') \in Nat /\ Count(written_metadata') \in Nat
    <3>1. TypeOK' => /\ metadata_map' \in [Url -> Metadata]
                     /\ written_metadata' \in [Url -> Metadata]
      BY DEF TypeOK, MetadataTypeOK
    <3>2. QED
      BY <3>1, CountsGrow
  <2>2. TypeOK /\ TypeOK' /\ WrittenNotMore /\ CountNotLess => WrittenNotMore'
    BY <1>1, <2>1 DEF WrittenNotMore, CountNotLess
  <2>3. TypeOK' /\ (PrefsWritten \/ Crash) => WrittenNotMore'
    <3>1. PrefsWritten \/ Crash => metadata_map' = written_metadata'
      BY DEF PrefsWritten, MetadataWritten, Crash
    <3>2. QED
      BY <2>1, <3>1 DEF WrittenNotMore
  <2>4. QED
    BY <2>2, <2>3, StepCounts DEF Next
<1>4. QED
  BY <1>2, <1>3, TypeCorrect, PTL DEF Spec

\* The count of the Acceptable Ads list only ever goes back in a crash, to
\* what was written, and that never goes back.
THEOREM CountIsKept == Spec => AcceptableAdsCountKept
<1> DEFINE Kept ==
      /\ Count(written_metadata') >= Count(written_metadata)
      /\ \/ Count(metadata_map') >= Count(metadata_map)
         \/ status' = "Uninitialized" /\ metadata_map' = written_metadata
<1>1. ASSUME TypeOK, WrittenNotMore, [Next]_vars
      PROVE  Kept
  <2>1. Count(metadata_map) \in Nat /\ Count(written_metadata) \in Nat
    BY <1>1, CountsGrow DEF TypeOK, MetadataTypeOK
  <2>2. CountNotLess => Kept
    BY <2>1 DEF CountNotLess
  <2>3. PrefsWritten => Kept
    BY <1>1, <2>1 DEF PrefsWritten, MetadataWritten, WrittenNotMore
  <2>4. Crash => Kept
    BY <2>1 DEF Crash, NewMaintainer
  <2>5. QED
    BY <1>1, <2>2, <2>3, <2>4, StepCounts DEF Next
<1>2. TypeOK /\ WrittenNotMore /\ [Next]_vars => [Kept]_vars
  BY <1>1
<1>3. QED
  BY <1>2, TypeCorrect, WrittenNeverMore, PTL DEF Spec, AcceptableAdsCountKept
=============================================================================
