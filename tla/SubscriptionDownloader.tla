----------------------- MODULE SubscriptionDownloader -----------------------
(***************************************************************************)
(* Downloads filter lists and converts them into flatbuffers: the map      *)
(* ongoing_downloads_ of SubscriptionDownloaderImpl, the network request   *)
(* each entry owns (OngoingSubscriptionRequestImpl) and the conversions    *)
(* that run in the thread pool.                                            *)
(*                                                                         *)
(* The map is a set of records, at most one per `url` (its key).  A record *)
(* remembers in `installation` whom its callback answers.  A download ends *)
(* in one of the actions Abandon, Deliver and Abort, which run that        *)
(* callback: the client's module conjoins its reaction to them.            *)
(***************************************************************************)
EXTENDS SubscriptionPersistentMetadata

CONSTANTS
  AllowedUrl,      \* URLs that IsUrlAllowed accepts
  StripQuery,      \* StripQuery[u] is u without its query
  RedirectsTo,     \* RedirectsTo[u]: redirects a list served at u may name
  Generation,      \* tells apart successive installation objects of one URL
  MaxRedirects,    \* kMaxNumberOfRedirects
  MaxConversions   \* bound: conversions of one URL running at a time

ASSUME DownloaderAssumption ==
  /\ AllowedUrl \subseteq Url
  /\ StripQuery \in [Url -> Url]
  /\ RedirectsTo \in [Url -> SUBSET Url]
  /\ MaxRedirects \in Nat
  /\ MaxConversions \in Nat \ {0}

VARIABLES
  ongoing_downloads,   \* ongoing_downloads_
  conversions,         \* conversions[u]: files of u being converted
  ongoing_ping         \* whether ongoing_ping_ holds a HEAD request

downloader_vars == <<ongoing_downloads, conversions, ongoing_ping>>

\* The identity of an OngoingInstallation object of the maintainer.
OngoingInstallation == [url : Url, generation : Generation]

RetryPolicy == {"RetryUntilSucceeded", "DoNotRetry"}

\* `loader` says that the request's loader_ is fetching, `retry_timer` that
\* its back-off timer runs; a Redirect() may leave both on.
OngoingDownload ==
  [url : Url, retry_policy : RetryPolicy, installation : OngoingInstallation,
   redirects : 0..MaxRedirects, loader : BOOLEAN, retry_timer : BOOLEAN]

DownloaderTypeOK ==
  /\ ongoing_downloads \subseteq OngoingDownload
  /\ conversions \in [Url -> 0..MaxConversions]
  /\ ongoing_ping \in BOOLEAN

DownloaderInit ==
  /\ ongoing_downloads = {}
  /\ conversions = [u \in Url |-> 0]
  /\ ongoing_ping = FALSE

\* The downloader is destroyed, a new one takes its place.
DownloaderStops ==
  /\ ongoing_downloads' = {}
  /\ conversions' = [u \in Url |-> 0]
  /\ ongoing_ping' = FALSE

-----------------------------------------------------------------------------
(* Calls made by the client: operators on the map.                         *)

NewDownload(i, policy) ==
  [url |-> i.url, retry_policy |-> policy, installation |-> i,
   redirects |-> 0, loader |-> TRUE, retry_timer |-> FALSE]

\* StartDownload of every installation of a set (all of allowed URLs).  An
\* entry that already has the key is overwritten and its callback dropped.
StartDownload(D, installations, policy) ==
  {d \in D : \A i \in installations : d.url # i.url}
    \cup {NewDownload(i, policy) : i \in installations}

\* CancelDownload of every URL of a set.  (Faulty: they go on.)
KeepDownload(D, urls) == D
CancelDownload(D, urls) == {d \in D : d.url \notin urls}

\* DoHeadRequest: an ongoing ping is answered with "" and replaced.
DoHeadRequest == ongoing_ping' = TRUE

-----------------------------------------------------------------------------
(* The end of a network request.  The URL it reports has lost its query,   *)
(* so the entry found may be another one, or none.                         *)

LoaderDone(d) ==
  (ongoing_downloads \ {d}) \cup {[d EXCEPT !.loader = FALSE]}

ReportedUrl(d) == StripQuery[d.url]

\* The entries OnDownloadFinished finds for the request of d.
FoundEntries(d) == {e \in LoaderDone(d) : e.url = ReportedUrl(d)}

\* OnDownloadFinished with no file, RetryUntilSucceeded: arm the back-off.
\* (Nothing reads the error count that this and the next increment.)
Retry(d, e) ==
  /\ d.loader /\ e \in FoundEntries(d)
  /\ e.retry_policy = "RetryUntilSucceeded"
  /\ ongoing_downloads' =
       (LoaderDone(d) \ {e}) \cup {[e EXCEPT !.retry_timer = TRUE]}
  /\ UNCHANGED <<metadata_map, conversions, ongoing_ping>>

\* OnDownloadFinished with no file, DoNotRetry: the callback of e gets null.
Abandon(d, e) ==
  /\ d.loader /\ e \in FoundEntries(d)
  /\ e.retry_policy = "DoNotRetry"
  /\ ongoing_downloads' = LoaderDone(d) \ {e}
  /\ UNCHANGED <<metadata_map, conversions, ongoing_ping>>

\* OnDownloadFinished with a file: it goes to the thread pool.
StartConversion(d) ==
  /\ d.loader /\ FoundEntries(d) # {}
  /\ conversions[ReportedUrl(d)] < MaxConversions
  /\ ongoing_downloads' = LoaderDone(d)
  /\ conversions' = [conversions EXCEPT ![ReportedUrl(d)] = @ + 1]
  /\ UNCHANGED <<metadata_map, ongoing_ping>>

\* The back-off timer fires: StartInternal replaces the loader.
RetryTimerFires(d) ==
  /\ d.retry_timer
  /\ ongoing_downloads' = (ongoing_downloads \ {d})
       \cup {[d EXCEPT !.retry_timer = FALSE, !.loader = TRUE]}
  /\ UNCHANGED <<metadata_map, conversions, ongoing_ping>>

-----------------------------------------------------------------------------
(* OnConversionFinished.  The result names only the URL: it goes to        *)
(* whichever entry has the key by then.                                    *)

ConversionDone(u) ==
  /\ conversions[u] > 0
  /\ conversions' = [conversions EXCEPT ![u] = @ - 1]

\* No entry has the key any more: the download was cancelled.
Discard(u) ==
  /\ ConversionDone(u)
  /\ \A d \in ongoing_downloads : d.url # u
  /\ UNCHANGED <<metadata_map, ongoing_downloads, ongoing_ping>>

\* A flatbuffer: the callback of d gets it.
Deliver(d) ==
  /\ ConversionDone(d.url)
  /\ ongoing_downloads' = ongoing_downloads \ {d}
  /\ UNCHANGED <<metadata_map, ongoing_ping>>

\* AbortWithWarning: the callback of d gets null, whatever its retry policy.
AbortWithWarning(d) ==
  /\ ongoing_downloads' = ongoing_downloads \ {d}
  /\ UNCHANGED ongoing_ping

\* The file could not be converted.
AbortOnError(d) ==
  /\ ConversionDone(d.url)
  /\ AbortWithWarning(d)
  /\ UNCHANGED metadata_map

\* The file names a redirect that is refused.
AbortOnRedirect(d, target) ==
  /\ ConversionDone(d.url)
  /\ target \in RedirectsTo[d.url]
  /\ \/ target \notin AllowedUrl
     \/ target = d.url
     \/ d.redirects >= MaxRedirects
  /\ AbortWithWarning(d)
  /\ UNCHANGED metadata_map

\* Only compared with the limit, so counting stops there.
CountRedirect(n) == IF n < MaxRedirects THEN n + 1 ELSE n

\* Moves the entry d to the key `target` and restarts its request.  When the
\* key is taken the map keeps the entry it has, d is destroyed with its
\* callback, and it is the other entry's request that is redirected.
Rekey(d, target) ==
  LET others == ongoing_downloads \ {d}
      taken  == {e \in others : e.url = target}
      moved  == IF taken = {} THEN {[d EXCEPT !.url = target]} ELSE taken
  IN  (others \ taken)
        \cup {[e EXCEPT !.redirects = CountRedirect(@), !.loader = TRUE] :
                 e \in moved}

\* The file names a redirect that is followed.
IsRedirect(d, target) ==
  /\ conversions[d.url] > 0
  /\ target \in RedirectsTo[d.url]
  /\ target \in AllowedUrl
  /\ target # d.url
  /\ d.redirects < MaxRedirects

Redirect(d, target) ==
  /\ IsRedirect(d, target)
  /\ ConversionDone(d.url)
  /\ ongoing_downloads' = Rekey(d, target)
  /\ UNCHANGED <<metadata_map, ongoing_ping>>

\* When the key is taken, the request that is redirected has the target as
\* its address already, unless the version or the count that the address
\* carries changed since: a failed DCHECK in a build that has them.
RedirectsToItself(d, target) ==
  /\ IsRedirect(d, target)
  /\ \E e \in ongoing_downloads : e.url = target

\* OnHeadersOnlyDownloaded; a Date header makes the answer a version.
HeadersOnlyDownloaded ==
  /\ ongoing_ping
  /\ ongoing_ping' = FALSE
  /\ UNCHANGED <<ongoing_downloads, conversions>>
=============================================================================
