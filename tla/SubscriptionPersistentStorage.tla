-------------------- MODULE SubscriptionPersistentStorage --------------------
(***************************************************************************)
(* SubscriptionPersistentStorageImpl with its SubscriptionValidatorImpl:   *)
(* files in one directory, their signatures in the preferences, and the    *)
(* tasks that connect them.  Reading, writing and deleting files happens   *)
(* in the thread pool, in any order; preferences and the map of governed   *)
(* files belong to the main sequence, which runs its tasks first in first  *)
(* out.  Tasks of the main sequence are bound to weak pointers: they are   *)
(* void once the storage object is destroyed.  Tasks of the thread pool    *)
(* are not, and go on until the process ends.                              *)
(*                                                                         *)
(* Files have random names that are never used twice, so a file stands for *)
(* the subscription that was written into it.                              *)
(***************************************************************************)
EXTENDS Naturals, Sequences, FiniteSets

CONSTANTS
  File,
  Schema,      \* versions of the flatbuffer schema a browser may have
  MaxLoads,    \* bound: directory scans running at a time
  Faults       \* which of the possible faults this instance includes

ASSUME StorageAssumption ==
  /\ Schema # {} /\ "absent" \notin Schema /\ "partial" \notin Schema
  /\ MaxLoads \in Nat
  /\ Faults \subseteq {"write", "read", "map", "crash", "disable"}

VARIABLES
  schema,        \* the schema of the running browser
  last_end,      \* history: how the process before this one ended
  disk,          \* what is in a file; if it is complete, its schema
  prefs,         \* prefs::kSubscriptionSignatures, kLastUsedSchemaVersion
  saved_prefs,   \* the preferences as they were last written to disk
  phase,         \* "off": no storage object; "loading"; "ready"
  governed,      \* the files of backing_file_mapping_
  mapped,        \* those whose subscription is memory-mapped
  doomed,        \* files to delete once their mapping is destroyed
  main_tasks,    \* tasks posted to the main sequence
  awaiting,      \* files whose store callback has not run
  writes,        \* WriteSubscription tasks
  loads,         \* ReadSubscriptionsFromDirectory tasks
  used           \* file names generated so far

browser == <<schema, last_end>>
vars == <<browser, disk, prefs, saved_prefs, phase, governed, mapped, doomed,
          main_tasks, awaiting, writes, loads, used>>

Content == {"absent", "partial"} \cup Schema
Prefs == [signatures : SUBSET File, schema : Schema]

\* A task of the thread pool is `live` while its storage object exists.
Write == [file : File, live : BOOLEAN, begun : BOOLEAN]
DirectoryScan == [live : BOOLEAN, trusted : SUBSET File,
                  unread : SUBSET File, result : SUBSET File]

FileTask == [type : {"sign", "stored", "failed", "unsign"}, file : File]
LoadedTask == [type : {"loaded"}, files : SUBSET File]

TypeOK ==
  /\ schema \in Schema
  /\ last_end \in {"none", "quit", "crash"}
  /\ disk \in [File -> Content]
  /\ prefs \in Prefs
  /\ saved_prefs \in Prefs
  /\ phase \in {"off", "loading", "ready"}
  /\ governed \subseteq File
  /\ mapped \subseteq governed
  /\ doomed \subseteq File
  /\ main_tasks \in Seq(FileTask \cup LoadedTask)
  /\ awaiting \subseteq File
  /\ writes \subseteq Write
  /\ loads \subseteq DirectoryScan
  /\ used \subseteq File

Init ==
  /\ schema \in Schema
  /\ last_end = "none"
  /\ disk = [f \in File |-> "absent"]
  /\ prefs = [signatures |-> {}, schema |-> schema]
  /\ saved_prefs = prefs
  /\ phase = "off"
  /\ governed = {}
  /\ mapped = {}
  /\ doomed = {}
  /\ main_tasks = <<>>
  /\ awaiting = {}
  /\ writes = {}
  /\ loads = {}
  /\ used = {}

-----------------------------------------------------------------------------
(* Loading.                                                                *)

\* What is left of the preferences when a validator is created.  (Faulty:
\* they are left alone.)
SignaturesKept == prefs
ClearSignaturesIfSchemaVersionChanged ==
  IF prefs.schema = schema THEN prefs
  ELSE [signatures |-> {}, schema |-> schema]

\* A storage is created and told to load: the scan gets a copy of the
\* signatures as they are now.
LoadSubscriptions ==
  /\ phase = "off"
  /\ Cardinality(loads) < MaxLoads
  /\ phase' = "loading"
  /\ prefs' = ClearSignaturesIfSchemaVersionChanged
  /\ loads' = loads \cup
       {[live |-> TRUE, trusted |-> prefs'.signatures,
         unread |-> {f \in File : disk[f] # "absent"}, result |-> {}]}
  /\ UNCHANGED <<browser, disk, saved_prefs, governed, mapped, doomed,
                 main_tasks, writes, used, awaiting>>

\* The signature is the hash of the complete file.  (Faulty: that of a file cut
\* short is not missed; an invalid file is kept.)
AnySignature(scan, f) == f \in scan.trusted \/ disk[f] = "partial"
IsSignatureValid(scan, f) == f \in scan.trusted /\ disk[f] \in Schema

KeepInvalid(f) == disk' = disk
DeleteFile(f) == disk' = [disk EXCEPT ![f] = "absent"]

\* One file of the enumeration is read: taken, deleted because it is not valid
\* or could not be read, or skipped if it is gone or cannot be mapped.
ReadFile(scan, f) ==
  LET next(taken) == (loads \ {scan}) \cup
        {[scan EXCEPT !.unread = @ \ {f}, !.result = @ \cup taken]}
  IN  /\ f \in scan.unread
      /\ \/ disk[f] = "absent" /\ loads' = next({}) /\ UNCHANGED disk
         \/ /\ disk[f] # "absent" /\ IsSignatureValid(scan, f)
            /\ \/ loads' = next({f})
               \/ "map" \in Faults /\ loads' = next({})
            /\ UNCHANGED disk
         \/ /\ disk[f] # "absent"
            /\ ~ IsSignatureValid(scan, f) \/ "read" \in Faults
            /\ loads' = next({})
            /\ DeleteFile(f)
      /\ UNCHANGED <<browser, prefs, saved_prefs, phase, governed, mapped,
                     doomed, main_tasks, writes, used, awaiting>>

Post(live, tasks) ==
  main_tasks' = IF live THEN main_tasks \o tasks ELSE main_tasks

FinishScan(scan) ==
  /\ scan.unread = {}
  /\ loads' = loads \ {scan}
  /\ Post(scan.live, <<[type |-> "loaded", files |-> scan.result]>>)
  /\ UNCHANGED <<browser, disk, prefs, saved_prefs, phase, governed, mapped,
                 doomed, writes, used, awaiting>>

\* The next task of the main sequence.
NextTask(type) == main_tasks # <<>> /\ Head(main_tasks).type = type
               /\ main_tasks' = Tail(main_tasks)

\* Each loaded file is governed.  (Faulty: this is forgotten.)
NotEntered(files) == governed
Entered(files) == governed \cup files

LoadComplete ==
  /\ NextTask("loaded")
  /\ phase' = "ready"
  /\ governed' = Entered(Head(main_tasks).files)
  /\ mapped' = mapped \cup Head(main_tasks).files
  /\ UNCHANGED <<browser, disk, prefs, saved_prefs, doomed, awaiting, writes,
                 loads, used>>

-----------------------------------------------------------------------------
(* Storing.                                                                *)

\* The maintainer stores once it has been told what is loaded.  (Faulty: it
\* does not wait.)
StoresWhileLoading == phase # "off"
IsInitialized == phase = "ready"

StoreSubscription(f) ==
  /\ IsInitialized
  /\ f \notin used
  /\ used' = used \cup {f}
  /\ awaiting' = awaiting \cup {f}
  /\ writes' = writes \cup {[file |-> f, live |-> TRUE, begun |-> FALSE]}
  /\ UNCHANGED <<browser, disk, prefs, saved_prefs, phase, governed, mapped,
                 doomed, main_tasks, loads>>

\* The file is created.  A scan under way may come upon it or not.
BeginWrite(w) ==
  /\ ~ w.begun
  /\ writes' = (writes \ {w}) \cup {[w EXCEPT !.begun = TRUE]}
  /\ disk' = [disk EXCEPT ![w.file] = "partial"]
  /\ \E seen_by \in SUBSET loads :
       loads' = (loads \ seen_by) \cup
                  {[scan EXCEPT !.unread = @ \cup {w.file}] : scan \in seen_by}
  /\ UNCHANGED <<browser, prefs, saved_prefs, phase, governed, mapped, doomed,
                 main_tasks, used, awaiting>>

\* The hash is posted to the main sequence, then the reply; only the reply if
\* there is no file.  (Faulty: the reply comes first; there is none.)
ReplyThenSignature(f) ==
  <<[type |-> "stored", file |-> f], [type |-> "sign", file |-> f]>>
SignatureThenReply(f) ==
  <<[type |-> "sign", file |-> f], [type |-> "stored", file |-> f]>>

NoAnswer(f) == <<>>
Failure(f) == <<[type |-> "failed", file |-> f]>>

\* The file has been written and could be mapped.
EndWrite(w) ==
  /\ w.begun
  /\ disk[w.file] = "partial"
  /\ disk' = [disk EXCEPT ![w.file] = schema]
  /\ writes' = writes \ {w}
  /\ Post(w.live, SignatureThenReply(w.file))
  /\ UNCHANGED <<browser, prefs, saved_prefs, phase, governed, mapped, doomed,
                 loads, used, awaiting>>

\* It could not be written or mapped, or is gone meanwhile; what there is of
\* it stays.
FailWrite(w) ==
  /\ w.begun
  /\ "write" \in Faults \/ disk[w.file] = "absent"
  /\ writes' = writes \ {w}
  /\ Post(w.live, Failure(w.file))
  /\ UNCHANGED <<browser, disk, prefs, saved_prefs, phase, governed, mapped,
                 doomed, loads, used, awaiting>>

StoreTrustedSignatureOnMainThread ==
  /\ NextTask("sign")
  /\ prefs' = [prefs EXCEPT !.signatures = @ \cup {Head(main_tasks).file}]
  /\ UNCHANGED <<browser, disk, saved_prefs, phase, governed, mapped, doomed,
                 writes, loads, used, awaiting>>

\* SubscriptionStored.  The subscription keeps the data it was written from;
\* it is not mapped.
SubscriptionStored ==
  /\ NextTask("stored")
  /\ awaiting' = awaiting \ {Head(main_tasks).file}
  /\ governed' = governed \cup {Head(main_tasks).file}
  /\ UNCHANGED <<browser, disk, prefs, saved_prefs, phase, mapped, doomed,
                 writes, loads, used>>

\* SubscriptionStored without a file: the callback gets null.
StoreError ==
  /\ NextTask("failed")
  /\ awaiting' = awaiting \ {Head(main_tasks).file}
  /\ UNCHANGED <<browser, disk, prefs, saved_prefs, phase, governed, mapped,
                 doomed, writes, loads, used>>

-----------------------------------------------------------------------------
(* Removing.                                                               *)

\* The signature's removal is posted, the subscription marked; only a mapped
\* one has a file to delete.
RemoveSubscription(f) ==
  /\ f \in governed
  /\ main_tasks' = Append(main_tasks, [type |-> "unsign", file |-> f])
  /\ governed' = governed \ {f}
  /\ mapped' = mapped \ {f}
  /\ doomed' = IF f \in mapped THEN doomed \cup {f} ELSE doomed
  /\ UNCHANGED <<browser, disk, prefs, saved_prefs, phase, awaiting, writes,
                 loads, used>>

RemoveStoredSignatureInMainThread ==
  /\ NextTask("unsign")
  /\ prefs' = [prefs EXCEPT !.signatures = @ \ {Head(main_tasks).file}]
  /\ UNCHANGED <<browser, disk, saved_prefs, phase, governed, mapped, doomed,
                 writes, loads, used, awaiting>>

\* DestroyMemoryMappedFile: the last reference to a marked subscription (a
\* snapshot may hold one) has gone.
DestroyMemoryMappedFile(f) ==
  /\ f \in doomed
  /\ doomed' = doomed \ {f}
  /\ disk' = [disk EXCEPT ![f] = "absent"]
  /\ UNCHANGED <<browser, prefs, saved_prefs, phase, governed, mapped,
                 main_tasks, writes, loads, used, awaiting>>

-----------------------------------------------------------------------------
(* The surroundings.                                                       *)

\* The preferences are written to disk, now and then.
SavePrefs ==
  /\ saved_prefs # prefs
  /\ saved_prefs' = prefs
  /\ UNCHANGED <<browser, disk, prefs, phase, governed, mapped, doomed,
                 main_tasks, writes, loads, used, awaiting>>

\* The configuration is disabled, and its storage destroyed.
Disable ==
  /\ "disable" \in Faults
  /\ phase # "off"
  /\ phase' = "off"
  /\ governed' = {}
  /\ mapped' = {}
  /\ main_tasks' = <<>>
  /\ awaiting' = {}
  /\ writes' = {[w EXCEPT !.live = FALSE] : w \in writes}
  /\ loads' = {[scan EXCEPT !.live = FALSE, !.result = {}] : scan \in loads}
  /\ UNCHANGED <<browser, disk, prefs, saved_prefs, doomed, used>>

\* The process ends with the given preferences on disk, and a browser that
\* may have another schema is started.
EndProcess(how, on_disk) ==
  /\ last_end' = how
  /\ schema' \in Schema
  /\ prefs' = on_disk
  /\ saved_prefs' = on_disk
  /\ phase' = "off"
  /\ governed' = {}
  /\ mapped' = {}
  /\ doomed' = {}
  /\ main_tasks' = <<>>
  /\ awaiting' = {}
  /\ writes' = {}
  /\ loads' = {}
  /\ UNCHANGED <<disk, used>>

Quit == EndProcess("quit", prefs)
Crash == "crash" \in Faults /\ EndProcess("crash", saved_prefs)

\* What the storage itself does.
StorageStep ==
  \/ \E scan \in loads : FinishScan(scan) \/ \E f \in File : ReadFile(scan, f)
  \/ LoadComplete
  \/ \E w \in writes : BeginWrite(w) \/ EndWrite(w) \/ FailWrite(w)
  \/ StoreTrustedSignatureOnMainThread
  \/ SubscriptionStored
  \/ StoreError
  \/ RemoveStoredSignatureInMainThread
  \/ \E f \in File : DestroyMemoryMappedFile(f)

Next ==
  \/ LoadSubscriptions
  \/ \E f \in File : StoreSubscription(f) \/ RemoveSubscription(f)
  \/ StorageStep
  \/ SavePrefs
  \/ Disable
  \/ Quit
  \/ Crash

Spec == Init /\ [][Next]_vars

-----------------------------------------------------------------------------
(* Safety.                                                                 *)

\* What is loaded was written to the end by a browser with this schema: no
\* file cut short by a crash and none of another schema is ever interpreted.
\* (A file may be deleted while its subscription is in use.)
NeverMisread == \A f \in governed : disk[f] \in {schema, "absent"}

\* A subscription is handed out only when its signature is stored, whatever
\* overtakes what; else the next load would delete its file.
SignedWhenGoverned == governed \subseteq prefs.signatures

\* The file of a governed subscription exists
\* (subscription_persistent_storage.h: "a persistent, disk-based storage for
\* installed subscription files").
GovernedOnDisk == \A f \in governed : disk[f] # "absent"

\* A load leaves no file behind that the next load would not accept: what
\* crashes and removals left in the directory is reclaimed.
LoadReclaims ==
  [][phase = "loading" /\ phase' = "ready" =>
       \A f \in File : disk[f] # "absent" => f \in prefs.signatures]_vars

-----------------------------------------------------------------------------
(* The storage keeps its contract.                                         *)

Surviving ==
  IF phase = "ready" \/ prefs.schema # schema THEN {}
  ELSE {f \in prefs.signatures : disk[f] = schema}

Doubtful ==
  {f \in prefs.signatures \cup saved_prefs.signatures :
     disk[f] \in Schema /\ f \notin governed \cup awaiting \cup Surviving}

Contract == INSTANCE PersistentStorageContract WITH
  Subscription <- File,
  storing      <- awaiting,
  surviving    <- Surviving,
  doubtful     <- Doubtful

\* As long as every file can be read and mapped: what was installed when the
\* browser ended in order is loaded again by one with the same schema, a
\* removed list does not come back once its removal has settled, and after a
\* crash nothing is loaded that was not stored or installed before it
\* (subscription_persistent_storage.h: "a persistent, disk-based storage").
KeepsContract == Contract!Spec

-----------------------------------------------------------------------------
(* Liveness.                                                               *)

\* The thread pool and the main sequence run what they are given.
Fairness ==
  /\ \A f \in File :
       /\ WF_vars(\E scan \in loads : ReadFile(scan, f))
       /\ WF_vars(\E w \in writes : w.file = f /\ BeginWrite(w))
       /\ WF_vars(\E w \in writes : w.file = f /\ (EndWrite(w) \/ FailWrite(w)))
       /\ WF_vars(DestroyMemoryMappedFile(f))
  /\ WF_vars(\E scan \in loads : FinishScan(scan))
  /\ WF_vars(\/ LoadComplete \/ StoreTrustedSignatureOnMainThread
             \/ SubscriptionStored \/ StoreError
             \/ RemoveStoredSignatureInMainThread)

FairSpec == Spec /\ Fairness

\* Every load and every store is answered, unless the storage is destroyed
\* before.
AnswersCome ==
  /\ phase = "loading" ~> phase # "loading"
  /\ \A f \in File : f \in awaiting ~> f \notin awaiting

\* A file that belongs to no subscription in a running storage.
Leftover(f) ==
  /\ phase = "ready"
  /\ f \in used \ (governed \cup awaiting)
  /\ disk[f] \in Schema

\* The file of a removed subscription is deleted while the browser runs
\* (subscription_persistent_storage.h: "Removes |subscription|'s file from
\* disk").
RemovedIsDeleted == \A f \in File : Leftover(f) ~> ~ Leftover(f)
=============================================================================
