----------------- MODULE SubscriptionPersistentStorage_proofs -----------------
(***************************************************************************)
(* Theorems about SubscriptionPersistentStorage, for any files, schemas    *)
(* and faults: its types, that no file is misread, and that a subscription *)
(* is handed out only when it is signed.  If no storage is destroyed while *)
(* the browser runs, governed files are on disk, a load reclaims what it   *)
(* does not accept, and the storage implements PersistentStorageContract.  *)
(***************************************************************************)
EXTENDS SubscriptionPersistentStorage, TLAPS

(***************************************************************************)
(* Types.                                                                  *)
(***************************************************************************)

Tasks == FileTask \cup LoadedTask

LEMMA EmptyQueue == <<>> \in Seq(Tasks)
OBVIOUS

\* What the queue is after its first task has been taken.
LEMMA TaskTaken ==
  ASSUME main_tasks \in Seq(Tasks), NEW type, NextTask(type)
  PROVE  /\ main_tasks' \in Seq(Tasks)
         /\ Len(main_tasks) \in Nat \ {0}
         /\ Len(main_tasks') = Len(main_tasks) - 1
         /\ DOMAIN main_tasks = 1 .. Len(main_tasks)
         /\ DOMAIN main_tasks' = 1 .. Len(main_tasks')
         /\ Head(main_tasks) = main_tasks[1]
         /\ main_tasks[1] \in Tasks
         /\ main_tasks[1].type = type
         /\ \A i \in DOMAIN main_tasks' : main_tasks'[i] = main_tasks[i + 1]
BY DEF NextTask

\* What it is after some have been posted.
LEMMA TasksPosted ==
  ASSUME main_tasks \in Seq(Tasks), NEW s \in Seq(Tasks),
         main_tasks' = main_tasks \o s
  PROVE  /\ main_tasks' \in Seq(Tasks)
         /\ Len(main_tasks') = Len(main_tasks) + Len(s)
         /\ DOMAIN main_tasks = 1 .. Len(main_tasks)
         /\ DOMAIN main_tasks' = 1 .. Len(main_tasks')
         /\ \A i \in DOMAIN main_tasks : main_tasks'[i] = main_tasks[i]
         /\ \A i \in 1 .. Len(s) : main_tasks'[Len(main_tasks) + i] = s[i]
OBVIOUS

LEMMA TypeInit == Init => TypeOK
BY StorageAssumption DEF Init, TypeOK, Content, Prefs, Write, DirectoryScan,
  FileTask, LoadedTask

\* A step keeps the types.
LEMMA TypeStep == TypeOK /\ [Next]_vars => TypeOK'
<1> SUFFICES ASSUME TypeOK, [Next]_vars PROVE TypeOK'
  OBVIOUS
<1> USE DEF TypeOK, browser
<1>1. CASE LoadSubscriptions
  <2>1. prefs' \in Prefs
    BY <1>1 DEF LoadSubscriptions, ClearSignaturesIfSchemaVersionChanged, Prefs
  <2>2. loads' \subseteq DirectoryScan
    <3>1. [live |-> TRUE, trusted |-> prefs'.signatures,
           unread |-> {f \in File : disk[f] # "absent"}, result |-> {}]
             \in DirectoryScan
      BY <2>1 DEF DirectoryScan, Prefs
    <3>2. QED
      BY <1>1, <3>1 DEF LoadSubscriptions
  <2>3. QED
    BY <1>1, <2>1, <2>2 DEF LoadSubscriptions
<1>2. ASSUME NEW scan \in loads, NEW f \in File, ReadFile(scan, f)
      PROVE  TypeOK'
  <2>1. disk' \in [File -> Content]
    BY <1>2 DEF ReadFile, DeleteFile, Content
  <2>2. loads' \subseteq DirectoryScan
    <3>1. \A taken \in {{}, {f}} :
            [scan EXCEPT !.unread = @ \ {f}, !.result = @ \cup taken]
              \in DirectoryScan
      BY DEF DirectoryScan
    <3>2. QED
      BY <1>2, <3>1 DEF ReadFile
  <2>3. QED
    BY <1>2, <2>1, <2>2 DEF ReadFile
<1>3. ASSUME NEW scan \in loads, FinishScan(scan)
      PROVE  TypeOK'
  <2>1. scan.result \subseteq File
    BY DEF DirectoryScan
  <2>2. [type |-> "loaded", files |-> scan.result] \in Tasks
    BY <2>1 DEF Tasks, LoadedTask
  <2>3. main_tasks' \in Seq(Tasks)
    <3>1. <<[type |-> "loaded", files |-> scan.result]>> \in Seq(Tasks)
      BY <2>2
    <3>2. QED
      BY <1>3, <3>1, TasksPosted DEF FinishScan, Post, Tasks
  <2>4. QED
    BY <1>3, <2>3 DEF FinishScan, Tasks
<1>4. CASE LoadComplete
  <2>1. Head(main_tasks).files \subseteq File
    BY <1>4, TaskTaken DEF LoadComplete, Tasks, FileTask, LoadedTask
  <2>2. QED
    BY <1>4, <2>1, TaskTaken DEF LoadComplete, Entered, Tasks
<1>5. ASSUME NEW f \in File, StoreSubscription(f)
      PROVE  TypeOK'
  <2>1. [file |-> f, live |-> TRUE, begun |-> FALSE] \in Write
    BY DEF Write
  <2>2. QED
    BY <1>5, <2>1 DEF StoreSubscription
<1>6. ASSUME NEW w \in writes, BeginWrite(w)
      PROVE  TypeOK'
  <2>1. w.file \in File /\ [w EXCEPT !.begun = TRUE] \in Write
    BY DEF Write
  <2>2. \A scan \in loads :
          [scan EXCEPT !.unread = @ \cup {w.file}] \in DirectoryScan
    BY <2>1 DEF DirectoryScan
  <2>3. disk' \in [File -> Content]
    BY <1>6, <2>1 DEF BeginWrite, Content
  <2>4. loads' \subseteq DirectoryScan
    BY <1>6, <2>2 DEF BeginWrite
  <2>5. QED
    BY <1>6, <2>1, <2>3, <2>4 DEF BeginWrite
<1>7. ASSUME NEW w \in writes, EndWrite(w) \/ FailWrite(w)
      PROVE  TypeOK'
  <2>1. w.file \in File
    BY DEF Write
  <2>2. \A type \in {"sign", "stored", "failed", "unsign"} :
          [type |-> type, file |-> w.file] \in Tasks
    BY <2>1 DEF Tasks, FileTask
  <2>3. /\ SignatureThenReply(w.file) \in Seq(Tasks)
        /\ Failure(w.file) \in Seq(Tasks)
    BY <2>2 DEF SignatureThenReply, Failure
  <2>4. main_tasks' \in Seq(Tasks)
    BY <1>7, <2>3, TasksPosted DEF EndWrite, FailWrite, Post, Tasks
  <2>5. disk' \in [File -> Content]
    BY <1>7, <2>1 DEF EndWrite, FailWrite, Content
  <2>6. QED
    BY <1>7, <2>4, <2>5 DEF EndWrite, FailWrite, Tasks
<1>8. CASE \/ StoreTrustedSignatureOnMainThread \/ SubscriptionStored
           \/ StoreError \/ RemoveStoredSignatureInMainThread
  <2>1. PICK type \in {"sign", "stored", "failed", "unsign"} : NextTask(type)
    BY <1>8 DEF StoreTrustedSignatureOnMainThread, SubscriptionStored,
      StoreError, RemoveStoredSignatureInMainThread
  <2>2. main_tasks' \in Seq(Tasks) /\ Head(main_tasks).file \in File
    BY <2>1, TaskTaken DEF Tasks, FileTask, LoadedTask
  <2>3. prefs' \in Prefs
    BY <1>8, <2>2 DEF StoreTrustedSignatureOnMainThread, SubscriptionStored,
      StoreError, RemoveStoredSignatureInMainThread, Prefs
  <2>4. QED
    BY <1>8, <2>2, <2>3 DEF StoreTrustedSignatureOnMainThread,
      SubscriptionStored, StoreError, RemoveStoredSignatureInMainThread, Tasks
<1>9. ASSUME NEW f \in File, RemoveSubscription(f)
      PROVE  TypeOK'
  <2>1. [type |-> "unsign", file |-> f] \in Tasks
    BY DEF Tasks, FileTask
  <2>2. main_tasks' \in Seq(Tasks)
    BY <1>9, <2>1 DEF RemoveSubscription, Tasks
  <2>3. QED
    BY <1>9, <2>2 DEF RemoveSubscription, Tasks
<1>10. ASSUME NEW f \in File, DestroyMemoryMappedFile(f)
       PROVE  TypeOK'
  BY <1>10 DEF DestroyMemoryMappedFile, Content
<1>11. CASE SavePrefs
  BY <1>11 DEF SavePrefs
<1>12. CASE Disable
  <2>1. \A w \in writes : [w EXCEPT !.live = FALSE] \in Write
    BY DEF Write
  <2>2. \A scan \in loads :
          [scan EXCEPT !.live = FALSE, !.result = {}] \in DirectoryScan
    BY DEF DirectoryScan
  <2>3. QED
    <3>1. writes' \subseteq Write /\ loads' \subseteq DirectoryScan
      BY <1>12, <2>1, <2>2 DEF Disable
    <3>2. main_tasks' \in Seq(Tasks)
      BY <1>12, EmptyQueue DEF Disable
    <3>3. QED
      BY <1>12, <3>1, <3>2 DEF Disable, Tasks
<1>13. CASE Quit \/ Crash
  <2>1. main_tasks' \in Seq(Tasks)
    BY <1>13, EmptyQueue DEF Quit, Crash, EndProcess
  <2>2. QED
    BY <1>13, <2>1 DEF Quit, Crash, EndProcess, Tasks
<1>14. CASE UNCHANGED vars
  BY <1>14 DEF vars
<1>15. QED
  BY <1>1, <1>2, <1>3, <1>4, <1>5, <1>6, <1>7, <1>8, <1>9, <1>10, <1>11, <1>12,
    <1>13, <1>14 DEF Next, StorageStep

\* Every variable keeps its type: of files, preferences and tasks there are
\* only those that SubscriptionPersistentStorageImpl makes.
THEOREM TypeCorrect == Spec => []TypeOK
BY TypeInit, TypeStep, PTL DEF Spec

(***************************************************************************)
(* The inductive invariant.                                                *)
(***************************************************************************)

Position == DOMAIN main_tasks
NoWriteOf(f) == \A w \in writes : w.file # f

\* Whoever reads this file with the present schema reads what was written.
Intact(f) ==
  /\ f \in used
  /\ disk[f] \in {schema, "absent"}
  /\ NoWriteOf(f)

\* A file is written at most once.
WritesInv ==
  /\ \A f \in File : disk[f] # "absent" => f \in used
  /\ \A w \in writes :
       /\ w.file \in used
       /\ disk[w.file] \in {"absent", "partial"}
       /\ \A v \in writes : v.file = w.file => v = w

\* What signatures say of files, in memory or on disk.
SignedFiles(p) ==
  \A f \in p.signatures :
    f \in used /\ disk[f] \in {p.schema, "absent"} /\ NoWriteOf(f)

SignaturesInv ==
  /\ SignedFiles(prefs)
  /\ SignedFiles(saved_prefs)
  /\ prefs.schema # schema =>
       /\ phase = "off" /\ governed = {} /\ main_tasks = <<>>
       /\ loads = {} /\ writes = {} /\ saved_prefs = prefs

\* What was accepted or completed is intact.
IntactTask(t) ==
  /\ t.type = "loaded" => \A f \in t.files : Intact(f)
  /\ t.type \in {"sign", "stored"} => Intact(t.file)

IntactInv ==
  /\ \A f \in governed : Intact(f)
  /\ \A scan \in loads :
       scan.result \subseteq scan.trusted /\ \A f \in scan.trusted : Intact(f)
  /\ \A i \in Position : IntactTask(main_tasks[i])

ReadInv == WritesInv /\ SignaturesInv /\ IntactInv

\* What is under way in which phase.
PhaseInv ==
  /\ phase = "off" => main_tasks = <<>> /\ \A scan \in loads : ~ scan.live
  /\ phase = "loading" =>
       /\ \A scan \in loads : scan.live =>
            /\ main_tasks = <<>>
            /\ scan.trusted = prefs.signatures
            /\ \A other \in loads : other.live => other = scan
       /\ main_tasks # <<>> =>
            /\ Len(main_tasks) = 1
            /\ main_tasks[1].type = "loaded"
            /\ main_tasks[1].files \subseteq prefs.signatures
  /\ phase = "ready" =>
       /\ \A scan \in loads : ~ scan.live
       /\ \A i \in Position : main_tasks[i].type # "loaded"
  /\ phase # "ready" =>
       governed = {} /\ awaiting = {} /\ \A w \in writes : ~ w.live

\* Where the tasks about a file stand in the queue: its signature right before
\* its reply, one reply to each store, no removal of what is awaited.
SignBeforeReply ==
  \A i \in Position :
    /\ main_tasks[i].type = "sign" =>
         /\ i + 1 \in Position
         /\ main_tasks[i + 1].type = "stored"
         /\ main_tasks[i + 1].file = main_tasks[i].file
    /\ main_tasks[i].type = "stored" =>
         IF i = 1 THEN main_tasks[i].file \in prefs.signatures
         ELSE /\ main_tasks[i - 1].type = "sign"
              /\ main_tasks[i - 1].file = main_tasks[i].file

Reply == {"stored", "failed"}

RepliesOnce ==
  \A i \in Position : main_tasks[i].type \in Reply =>
    /\ main_tasks[i].file \in awaiting
    /\ \A j \in Position :
         /\ main_tasks[j].type \in Reply
         /\ main_tasks[j].file = main_tasks[i].file
         => i = j

QueueInv ==
  /\ SignBeforeReply
  /\ RepliesOnce
  /\ \A i \in Position : main_tasks[i].type = "unsign" =>
       main_tasks[i].file \in used \ (governed \cup awaiting)
  /\ \A w \in writes : w.live =>
       /\ w.file \in awaiting
       /\ \A i \in Position : main_tasks[i].type \in Reply =>
            main_tasks[i].file # w.file
  /\ awaiting \subseteq used
  /\ awaiting \cap governed = {}

SignedInv == PhaseInv /\ QueueInv /\ SignedWhenGoverned

(***************************************************************************)
(* What holds besides if no storage is destroyed in a running browser.     *)
(***************************************************************************)

NothingOutlives ==
  /\ \A w \in writes : w.live
  /\ \A scan \in loads : scan.live
  /\ phase # "ready" => doomed = {}
  /\ doomed \cap (governed \cup awaiting) = {}
  /\ doomed \subseteq used

Complete(f) == disk[f] = schema

CompleteTask(t) ==
  /\ t.type = "loaded" =>
       /\ \A f \in t.files : Complete(f)
       /\ \A f \in File : disk[f] # "absent" => f \in prefs.signatures
  /\ t.type \in {"sign", "stored"} => Complete(t.file)
  /\ t.type = "failed" => disk[t.file] \in {"absent", "partial"}
                          /\ NoWriteOf(t.file)

CompleteInv ==
  /\ \A f \in governed : Complete(f)
  /\ \A scan \in loads :
       /\ \A f \in scan.result : Complete(f) /\ f \notin scan.unread
       /\ \A f \in File : disk[f] # "absent" =>
            f \in scan.unread \cup prefs.signatures
  /\ \A i \in Position : CompleteTask(main_tasks[i])

\* And if every file can be read and mapped, all that is signed is loaded.
LoadsAllInv ==
  /\ \A scan \in loads : \A f \in prefs.signatures :
       Complete(f) => f \in scan.unread \cup scan.result
  /\ \A i \in Position : main_tasks[i].type = "loaded" =>
       \A f \in prefs.signatures : Complete(f) => f \in main_tasks[i].files

(***************************************************************************)
(* No file is misread.                                                     *)
(***************************************************************************)

LEMMA ReadInit == Init => ReadInv
BY DEF Init, ReadInv, WritesInv, SignaturesInv, SignedFiles, IntactInv, Position

\* Tasks that leave files and writes alone.
Elsewhere == UNCHANGED <<disk, writes, used>>

\* A file is created once, completed once, and then only deleted.
LEMMA WritesStep == TypeOK /\ WritesInv /\ [Next]_vars => WritesInv'
<1> SUFFICES ASSUME TypeOK, WritesInv, [Next]_vars PROVE WritesInv'
  OBVIOUS
<1> USE DEF WritesInv
<1>1. CASE Elsewhere
  BY <1>1 DEF Elsewhere
<1>2. ASSUME NEW f \in File, disk' = [disk EXCEPT ![f] = "absent"],
             writes' = writes, used' = used
      PROVE  WritesInv'
  BY <1>2 DEF TypeOK, Write
<1>3. ASSUME NEW f \in File, StoreSubscription(f)
      PROVE  WritesInv'
  <2>1. \A w \in writes : w.file # f
    BY <1>3 DEF StoreSubscription
  <2>2. disk[f] = "absent"
    BY <1>3 DEF StoreSubscription
  <2> DEFINE new == [file |-> f, live |-> TRUE, begun |-> FALSE]
  <2>3. /\ new.file = f
        /\ \A w \in writes' : w \in writes \/ w = new
    BY <1>3 DEF StoreSubscription
  <2> HIDE DEF new
  <2>4. used' = used \cup {f} /\ disk' = disk
    BY <1>3 DEF StoreSubscription
  <2>5. QED
    BY <2>1, <2>2, <2>3, <2>4
<1>4. ASSUME NEW w \in writes, BeginWrite(w)
      PROVE  WritesInv'
  <2>1. w.file \in File /\ [w EXCEPT !.begun = TRUE].file = w.file
    BY DEF TypeOK, Write
  <2>2. \A v \in writes' : v.file = w.file => v = [w EXCEPT !.begun = TRUE]
    BY <1>4, <2>1 DEF BeginWrite
  <2>3. \A v \in writes' : v.file # w.file => v \in writes
    BY <1>4, <2>1 DEF BeginWrite
  <2>4. QED
    BY <1>4, <2>1, <2>2, <2>3 DEF BeginWrite, TypeOK, Write
<1>5. ASSUME NEW w \in writes, EndWrite(w) \/ FailWrite(w)
      PROVE  WritesInv'
  BY <1>5 DEF EndWrite, FailWrite, TypeOK, Write
<1>6. CASE Disable
  <2>1. \A v \in writes' : \E w \in writes : v = [w EXCEPT !.live = FALSE]
    BY <1>6 DEF Disable
  <2>2. \A w \in writes : [w EXCEPT !.live = FALSE].file = w.file
    BY DEF TypeOK, Write
  <2>3. \A v \in writes' : \E w \in writes :
          v = [w EXCEPT !.live = FALSE] /\ v.file = w.file
    BY <2>1, <2>2
  <2>4. used' = used /\ disk' = disk
    BY <1>6 DEF Disable
  <2>5. \A v, u \in writes' : v.file = u.file => v = u
    <3> SUFFICES ASSUME NEW v \in writes', NEW u \in writes', v.file = u.file
                 PROVE  v = u
      OBVIOUS
    <3>1. PICK w \in writes : v = [w EXCEPT !.live = FALSE] /\ v.file = w.file
      BY <2>3
    <3>2. PICK x \in writes : u = [x EXCEPT !.live = FALSE] /\ u.file = x.file
      BY <2>3
    <3>3. w = x
      BY <3>1, <3>2
    <3>4. QED
      BY <3>1, <3>2, <3>3
  <2>6. QED
    BY <2>3, <2>4, <2>5
<1>7. CASE Quit \/ Crash
  BY <1>7 DEF Quit, Crash, EndProcess
<1>8. ASSUME NEW scan \in loads, NEW f \in File, ReadFile(scan, f)
      PROVE  WritesInv'
  BY <1>1, <1>2, <1>8 DEF ReadFile, DeleteFile, Elsewhere
<1>9. ASSUME NEW f \in File, DestroyMemoryMappedFile(f)
      PROVE  WritesInv'
  BY <1>2, <1>9 DEF DestroyMemoryMappedFile
<1>10. QED
  <2>1. LoadSubscriptions => Elsewhere
    BY DEF LoadSubscriptions, Elsewhere
  <2>2. \A scan \in loads : FinishScan(scan) => Elsewhere
    BY DEF FinishScan, Elsewhere
  <2>3. /\ LoadComplete => Elsewhere
        /\ StoreTrustedSignatureOnMainThread => Elsewhere
        /\ SubscriptionStored => Elsewhere
        /\ StoreError => Elsewhere
        /\ RemoveStoredSignatureInMainThread => Elsewhere
    BY DEF LoadComplete, StoreTrustedSignatureOnMainThread,
      SubscriptionStored, StoreError, RemoveStoredSignatureInMainThread,
      Elsewhere
  <2>4. \A f \in File : RemoveSubscription(f) => Elsewhere
    BY DEF RemoveSubscription, Elsewhere
  <2>5. (SavePrefs \/ UNCHANGED vars) => Elsewhere
    BY DEF SavePrefs, Elsewhere, vars
  <2>6. QED
    BY <1>1, <1>3, <1>4, <1>5, <1>6, <1>7, <1>8, <1>9, <2>1, <2>2, <2>3, <2>4,
      <2>5 DEF Next, StorageStep

\* While the browser runs, a file that nobody writes stays or is deleted.
Kept ==
  /\ schema' = schema
  /\ used \subseteq used'
  /\ \A f \in used : NoWriteOf(f) =>
       NoWriteOf(f)' /\ disk'[f] \in {disk[f], "absent"}

LEMMA KeptWhileRunning ==
  TypeOK /\ WritesInv /\ [Next]_vars => Kept \/ Quit \/ Crash
<1> SUFFICES ASSUME TypeOK, WritesInv, [Next]_vars PROVE Kept \/ Quit \/ Crash
  OBVIOUS
<1> USE DEF Kept, NoWriteOf
<1>1. CASE schema' = schema /\ Elsewhere
  BY <1>1 DEF Elsewhere
<1>2. ASSUME NEW f \in File, disk' = [disk EXCEPT ![f] = "absent"],
             writes' = writes, used' = used, schema' = schema
      PROVE  Kept
  BY <1>2 DEF TypeOK
<1>3. ASSUME NEW f \in File, StoreSubscription(f)
      PROVE  Kept
  BY <1>3 DEF StoreSubscription, browser
<1>4. ASSUME NEW w \in writes, BeginWrite(w) \/ EndWrite(w) \/ FailWrite(w)
      PROVE  Kept
  <2>1. \A v \in writes' : \E old \in writes : old.file = v.file
    BY <1>4 DEF BeginWrite, EndWrite, FailWrite, TypeOK, Write
  <2>2. \A f \in used : f # w.file => disk'[f] = disk[f]
    BY <1>4 DEF BeginWrite, EndWrite, FailWrite, TypeOK
  <2>3. schema' = schema /\ used' = used
    BY <1>4 DEF BeginWrite, EndWrite, FailWrite, browser
  <2>4. QED
    BY <2>1, <2>2, <2>3
<1>5. CASE Disable
  <2>1. \A v \in writes' : \E w \in writes : w.file = v.file
    BY <1>5 DEF Disable, TypeOK, Write
  <2>2. QED
    BY <1>5, <2>1 DEF Disable, browser
<1>6. ASSUME NEW scan \in loads, NEW f \in File, ReadFile(scan, f)
      PROVE  Kept
  BY <1>1, <1>2, <1>6 DEF ReadFile, DeleteFile, Elsewhere, browser
<1>7. ASSUME NEW f \in File, DestroyMemoryMappedFile(f)
      PROVE  Kept
  BY <1>2, <1>7 DEF DestroyMemoryMappedFile, browser
<1>8. QED
  <2> DEFINE Still == schema' = schema /\ Elsewhere
  <2>1. LoadSubscriptions => Still
    BY DEF LoadSubscriptions, Elsewhere, browser
  <2>2. \A scan \in loads : FinishScan(scan) => Still
    BY DEF FinishScan, Elsewhere, browser
  <2>3. /\ LoadComplete => Still
        /\ StoreTrustedSignatureOnMainThread => Still
        /\ SubscriptionStored => Still
        /\ StoreError => Still
        /\ RemoveStoredSignatureInMainThread => Still
    BY DEF LoadComplete, StoreTrustedSignatureOnMainThread,
      SubscriptionStored, StoreError, RemoveStoredSignatureInMainThread,
      Elsewhere, browser
  <2>4. \A f \in File : RemoveSubscription(f) => Still
    BY DEF RemoveSubscription, Elsewhere, browser
  <2>5. (SavePrefs \/ UNCHANGED vars) => Still
    BY DEF SavePrefs, Elsewhere, vars, browser
  <2>6. QED
    BY <1>1, <1>3, <1>4, <1>5, <1>6, <1>7, <2>1, <2>2, <2>3, <2>4, <2>5
      DEF Next, StorageStep

\* Signatures go on speaking of what was written.
LEMMA SignaturesStep == TypeOK /\ ReadInv /\ [Next]_vars => SignaturesInv'
<1> SUFFICES ASSUME TypeOK, ReadInv, [Next]_vars PROVE SignaturesInv'
  OBVIOUS
<1> USE DEF ReadInv, SignaturesInv
<1>1. Kept \/ Quit \/ Crash
  BY KeptWhileRunning
<1>2. CASE Quit \/ Crash
  <2>1. prefs' \in {prefs, saved_prefs} /\ saved_prefs' = prefs'
    BY <1>2 DEF Quit, Crash, EndProcess
  <2>2. /\ disk' = disk /\ used' = used /\ writes' = {} /\ loads' = {}
        /\ phase' = "off" /\ governed' = {} /\ main_tasks' = <<>>
    BY <1>2 DEF Quit, Crash, EndProcess
  <2>3. SignedFiles(prefs)'
    BY <2>1, <2>2 DEF SignedFiles, NoWriteOf
  <2>4. QED
    BY <2>1, <2>2, <2>3 DEF SignedFiles
<1>3. ASSUME Kept
      PROVE  \A p : SignedFiles(p) =>
               \A f \in p.signatures : /\ f \in used'
                                       /\ disk'[f] \in {p.schema, "absent"}
                                       /\ NoWriteOf(f)'
  BY <1>3 DEF Kept, SignedFiles
<1>4. ASSUME Kept, prefs' = prefs, saved_prefs' \in {prefs, saved_prefs},
             prefs.schema = schema
      PROVE  SignaturesInv'
  <2>1. schema' = schema
    BY <1>4 DEF Kept
  <2>2. QED
    BY <1>3, <1>4, <2>1 DEF SignedFiles
<1>5. CASE Kept /\ LoadSubscriptions
  <2>1. prefs' \in {prefs, [signatures |-> {}, schema |-> schema]}
    BY <1>5 DEF LoadSubscriptions, ClearSignaturesIfSchemaVersionChanged
  <2>2. prefs'.schema = schema' /\ saved_prefs' = saved_prefs
    BY <1>5 DEF LoadSubscriptions, ClearSignaturesIfSchemaVersionChanged,
      browser
  <2>3. SignedFiles(prefs)'
    BY <1>3, <1>5, <2>1 DEF SignedFiles
  <2>4. QED
    BY <1>3, <1>5, <2>2, <2>3 DEF SignedFiles
<1>6. CASE Kept /\ StoreTrustedSignatureOnMainThread
  <2>1. prefs.schema = schema
    BY <1>6 DEF StoreTrustedSignatureOnMainThread, NextTask
  <2> PICK f : f = Head(main_tasks).file
    OBVIOUS
  <2>2. Intact(f)
    BY <1>6, TaskTaken DEF StoreTrustedSignatureOnMainThread, TypeOK, Tasks,
      IntactInv, IntactTask, Position
  <2>3. /\ prefs'.signatures = prefs.signatures \cup {f}
        /\ prefs'.schema = prefs.schema /\ saved_prefs' = saved_prefs
    BY <1>6 DEF StoreTrustedSignatureOnMainThread, TypeOK, Prefs
  <2>4. f \in used' /\ disk'[f] \in {schema, "absent"} /\ NoWriteOf(f)'
    BY <1>6, <2>2 DEF Kept, Intact
  <2>5. SignedFiles(prefs)'
    BY <1>3, <1>6, <2>1, <2>3, <2>4 DEF SignedFiles
  <2>6. schema' = schema
    BY <1>6 DEF Kept
  <2>7. QED
    BY <1>3, <1>6, <2>1, <2>3, <2>5, <2>6 DEF SignedFiles
<1>7. CASE Kept /\ RemoveStoredSignatureInMainThread
  <2>1. prefs.schema = schema
    BY <1>7 DEF RemoveStoredSignatureInMainThread, NextTask
  <2>2. /\ prefs'.signatures \subseteq prefs.signatures
        /\ prefs'.schema = prefs.schema /\ saved_prefs' = saved_prefs
    BY <1>7 DEF RemoveStoredSignatureInMainThread, TypeOK, Prefs
  <2>3. SignedFiles(prefs)'
    BY <1>3, <1>7, <2>2 DEF SignedFiles
  <2>4. schema' = schema
    BY <1>7 DEF Kept
  <2>5. QED
    BY <1>3, <1>7, <2>1, <2>2, <2>3, <2>4 DEF SignedFiles
<1>8. CASE Kept /\ UNCHANGED <<prefs, saved_prefs, phase, governed, main_tasks,
                              loads, writes>>
  <2>1. schema' = schema
    BY <1>8 DEF Kept
  <2>2. QED
    BY <1>3, <1>8, <2>1 DEF SignedFiles
<1>9. CASE Kept /\ SavePrefs
  BY <1>4, <1>8, <1>9 DEF SavePrefs
<1>10. CASE Kept /\ \E f \in File : \/ StoreSubscription(f)
                                     \/ RemoveSubscription(f)
                                     \/ DestroyMemoryMappedFile(f)
  BY <1>4, <1>8, <1>10 DEF StoreSubscription, IsInitialized,
    RemoveSubscription, DestroyMemoryMappedFile
<1>11. CASE Kept /\ \E scan \in loads :
                      FinishScan(scan) \/ \E f \in File : ReadFile(scan, f)
  BY <1>4, <1>11 DEF FinishScan, ReadFile
<1>12. CASE Kept /\ \E w \in writes : BeginWrite(w) \/ EndWrite(w) \/ FailWrite(w)
  BY <1>4, <1>12 DEF BeginWrite, EndWrite, FailWrite
<1>13. CASE Kept /\ (LoadComplete \/ SubscriptionStored \/ StoreError)
  BY <1>4, <1>13 DEF LoadComplete, SubscriptionStored, StoreError, NextTask
<1>14. CASE Kept /\ Disable
  BY <1>4, <1>14 DEF Disable
<1>15. CASE Kept /\ UNCHANGED vars
  BY <1>8, <1>15 DEF vars
<1>16. QED
  BY <1>1, <1>2, <1>5, <1>6, <1>7, <1>9, <1>10, <1>11, <1>12, <1>13, <1>14,
    <1>15 DEF Next, StorageStep

\* Where the tasks come from that are in the queue after a step.
OldTask(t) == \E j \in Position : t = main_tasks[j]

LEMMA TakenFrom ==
  ASSUME TypeOK, NEW type, NextTask(type)
  PROVE  \A i \in Position' : OldTask(main_tasks'[i])
BY TaskTaken DEF TypeOK, Tasks, Position, OldTask

LEMMA PostedFrom ==
  ASSUME TypeOK, NEW s \in Seq(Tasks), main_tasks' = main_tasks \o s
  PROVE  \A i \in Position' :
           \/ OldTask(main_tasks'[i])
           \/ \E k \in 1 .. Len(s) : main_tasks'[i] = s[k]
<1> SUFFICES ASSUME NEW i \in Position', ~ OldTask(main_tasks'[i])
             PROVE  \E k \in 1 .. Len(s) : main_tasks'[i] = s[k]
  OBVIOUS
<1>1. i \notin Position
  BY TasksPosted DEF TypeOK, Tasks, Position, OldTask
<1>2. /\ Len(main_tasks) \in Nat /\ Len(s) \in Nat
      /\ i \in 1 .. (Len(main_tasks) + Len(s))
      /\ i \notin 1 .. Len(main_tasks)
  BY <1>1, TasksPosted DEF TypeOK, Tasks, Position
<1>3. i - Len(main_tasks) \in 1 .. Len(s)
  BY <1>2
<1>4. main_tasks'[Len(main_tasks) + (i - Len(main_tasks))]
        = s[i - Len(main_tasks)]
  BY <1>3, TasksPosted DEF TypeOK, Tasks
<1>5. QED
  BY <1>2, <1>3, <1>4

\* The tasks that a finished write or scan may post.
LEMMA MessagesTyped ==
  TypeOK => /\ \A w \in writes :
                 /\ SignatureThenReply(w.file) \in Seq(Tasks)
                 /\ Failure(w.file) \in Seq(Tasks)
            /\ \A scan \in loads :
                 <<[type |-> "loaded", files |-> scan.result]>> \in Seq(Tasks)
            /\ \A f \in File : <<[type |-> "unsign", file |-> f]>> \in Seq(Tasks)
<1> SUFFICES ASSUME TypeOK
             PROVE  /\ \A w \in writes :
                         /\ SignatureThenReply(w.file) \in Seq(Tasks)
                         /\ Failure(w.file) \in Seq(Tasks)
                    /\ \A scan \in loads :
                         <<[type |-> "loaded", files |-> scan.result]>>
                           \in Seq(Tasks)
                    /\ \A f \in File :
                         <<[type |-> "unsign", file |-> f]>> \in Seq(Tasks)
  OBVIOUS
<1>1. \A f \in File, type \in {"sign", "stored", "failed", "unsign"} :
        [type |-> type, file |-> f] \in Tasks
  BY DEF Tasks, FileTask
<1>2. \A files \in SUBSET File : [type |-> "loaded", files |-> files] \in Tasks
  BY DEF Tasks, LoadedTask
<1>3. /\ \A w \in writes : w.file \in File
      /\ \A scan \in loads : scan.result \in SUBSET File
  BY DEF TypeOK, Write, DirectoryScan
<1>4. \A s, t \in Tasks : <<s>> \in Seq(Tasks) /\ <<s, t>> \in Seq(Tasks)
  OBVIOUS
<1>5. \A w \in writes : /\ SignatureThenReply(w.file) \in Seq(Tasks)
                         /\ Failure(w.file) \in Seq(Tasks)
  BY <1>1, <1>3, <1>4 DEF SignatureThenReply, Failure
<1>6. QED
  BY <1>1, <1>2, <1>3, <1>4, <1>5

LEMMA RemovalPosted ==
  ASSUME TypeOK, NEW f \in File, RemoveSubscription(f)
  PROVE  main_tasks' = main_tasks \o <<[type |-> "unsign", file |-> f]>>
BY DEF RemoveSubscription, TypeOK

\* Intact and IntactTask in the state after a step.
IntactAfter(f) ==
  f \in used' /\ disk'[f] \in {schema', "absent"} /\ \A w \in writes' : w.file # f

IntactTaskAfter(t) ==
  /\ t.type = "loaded" => \A f \in t.files : IntactAfter(f)
  /\ t.type \in {"sign", "stored"} => IntactAfter(t.file)

LEMMA IntactNext ==
  ASSUME \A f \in governed' : IntactAfter(f),
         \A scan \in loads' : /\ scan.result \subseteq scan.trusted
                              /\ \A f \in scan.trusted : IntactAfter(f),
         \A i \in Position' : IntactTaskAfter(main_tasks'[i])
  PROVE  IntactInv'
BY DEF IntactInv, IntactTask, IntactTaskAfter, Intact, IntactAfter, NoWriteOf,
  Position

\* What is accepted stays as it was accepted.
LEMMA IntactStep == TypeOK /\ ReadInv /\ [Next]_vars => IntactInv'
<1> SUFFICES ASSUME TypeOK, ReadInv, [Next]_vars PROVE IntactInv'
  OBVIOUS
<1>1. Kept \/ Quit \/ Crash
  BY KeptWhileRunning DEF ReadInv
<1>2. CASE Quit \/ Crash
  BY <1>2 DEF Quit, Crash, EndProcess, IntactInv, Position
<1> SUFFICES ASSUME Kept PROVE IntactInv'
  BY <1>1, <1>2
<1>3. /\ \A f : Intact(f) => IntactAfter(f)
      /\ \A t : IntactTask(t) => IntactTaskAfter(t)
  BY DEF Kept, Intact, IntactTask, IntactAfter, IntactTaskAfter, NoWriteOf
<1> DEFINE ScansKept == \A scan \in loads' :
             \E old \in loads : /\ scan.trusted = old.trusted
                               /\ \/ scan.result \subseteq old.result
                                  \/ scan.result \subseteq old.trusted
           TasksKept == \A i \in Position' : OldTask(main_tasks'[i])
<1>4. TasksKept => \A i \in Position' : IntactTaskAfter(main_tasks'[i])
  BY <1>3 DEF ReadInv, IntactInv, OldTask
<1>5. ScansKept => \A scan \in loads' :
                     /\ scan.result \subseteq scan.trusted
                     /\ \A f \in scan.trusted : IntactAfter(f)
  BY <1>3 DEF ReadInv, IntactInv
<1>6. governed' \subseteq governed => \A f \in governed' : IntactAfter(f)
  BY <1>3 DEF ReadInv, IntactInv
<1> HIDE DEF ScansKept, TasksKept
<1>7. main_tasks' = main_tasks => TasksKept
  BY DEF TasksKept, OldTask, Position
<1>8. loads' = loads => ScansKept
  BY DEF ScansKept
<1>9. governed' \subseteq governed /\ ScansKept /\ TasksKept => IntactInv'
  BY <1>4, <1>5, <1>6, IntactNext
<1>10. CASE LoadSubscriptions
  <2>1. prefs'.signatures \subseteq prefs.signatures
    BY <1>10 DEF LoadSubscriptions, ClearSignaturesIfSchemaVersionChanged
  <2>2. \A f \in prefs'.signatures : Intact(f)
    <3>1. prefs.schema # schema => prefs'.signatures = {}
      BY <1>10 DEF LoadSubscriptions, ClearSignaturesIfSchemaVersionChanged
    <3>2. QED
      BY <2>1, <3>1 DEF ReadInv, SignaturesInv, SignedFiles, Intact
  <2>3. \A scan \in loads' : \/ scan \in loads
                             \/ scan.trusted = prefs'.signatures /\ scan.result = {}
    BY <1>10 DEF LoadSubscriptions
  <2>4. \A scan \in loads' : /\ scan.result \subseteq scan.trusted
                             /\ \A f \in scan.trusted : IntactAfter(f)
    BY <1>3, <2>2, <2>3 DEF ReadInv, IntactInv
  <2>5. UNCHANGED <<governed, main_tasks>>
    BY <1>10 DEF LoadSubscriptions
  <2>6. QED
    BY <1>4, <1>6, <1>7, <2>4, <2>5, IntactNext
<1>11. ASSUME NEW scan \in loads, NEW f \in File, ReadFile(scan, f)
       PROVE  IntactInv'
  <2> DEFINE next(taken) ==
        [scan EXCEPT !.unread = @ \ {f}, !.result = @ \cup taken]
  <2>1. \A taken : /\ next(taken).trusted = scan.trusted
                   /\ next(taken).result = scan.result \cup taken
    BY DEF TypeOK, DirectoryScan
  <2>2. \A other \in loads' :
          \/ other \in loads
          \/ other = next({})
          \/ other = next({f}) /\ f \in scan.trusted
    BY <1>11 DEF ReadFile, IsSignatureValid
  <2> HIDE DEF next
  <2>3. scan.result \subseteq scan.trusted
    BY DEF ReadInv, IntactInv
  <2>4. ScansKept
    BY <2>1, <2>2, <2>3 DEF ScansKept
  <2>5. UNCHANGED <<governed, main_tasks>>
    BY <1>11 DEF ReadFile
  <2>6. QED
    BY <1>7, <1>9, <2>4, <2>5
<1>12. ASSUME NEW scan \in loads, FinishScan(scan)
       PROVE  IntactInv'
  <2>1. loads' \subseteq loads /\ governed' = governed
    BY <1>12 DEF FinishScan
  <2>2. ScansKept
    BY <2>1 DEF ScansKept
  <2> DEFINE t == [type |-> "loaded", files |-> scan.result]
  <2>3. IntactTask(t)
    BY DEF IntactTask, ReadInv, IntactInv
  <2>4. \A i \in Position' : OldTask(main_tasks'[i]) \/ main_tasks'[i] = t
    <3>1. main_tasks' \in {main_tasks, main_tasks \o <<t>>}
      BY <1>12 DEF FinishScan, Post
    <3>2. main_tasks' = main_tasks => \A i \in Position' : OldTask(main_tasks'[i])
      BY <1>7 DEF TasksKept
    <3>3. <<t>> \in Seq(Tasks) /\ \A k \in 1 .. Len(<<t>>) : <<t>>[k] = t
      BY MessagesTyped
    <3> HIDE DEF t
    <3>4. QED
      BY <3>1, <3>2, <3>3, PostedFrom
  <2>5. \A i \in Position' : IntactTaskAfter(main_tasks'[i])
    <3>1. \A u : OldTask(u) => IntactTask(u)
      BY DEF OldTask, ReadInv, IntactInv
    <3> HIDE DEF t
    <3>2. \A i \in Position' : IntactTask(main_tasks'[i])
      BY <2>3, <2>4, <3>1
    <3>3. QED
      BY <1>3, <3>2
  <2>6. QED
    BY <1>5, <1>6, <2>1, <2>2, <2>5, IntactNext
<1>13. CASE LoadComplete
  <2>1. IntactTask(Head(main_tasks)) /\ Head(main_tasks).type = "loaded"
    BY <1>13, TaskTaken DEF LoadComplete, TypeOK, Tasks, ReadInv, IntactInv,
      Position
  <2>2. \A f \in governed' : Intact(f)
    BY <1>13, <2>1 DEF LoadComplete, Entered, IntactTask, ReadInv, IntactInv
  <2>3. TasksKept /\ ScansKept
    BY <1>8, <1>13, TakenFrom DEF LoadComplete, TasksKept
  <2>4. QED
    BY <1>3, <1>4, <1>5, <2>2, <2>3, IntactNext
<1>14. CASE SubscriptionStored
  <2>1. Intact(Head(main_tasks).file)
    BY <1>14, TaskTaken DEF SubscriptionStored, TypeOK, Tasks, ReadInv,
      IntactInv, IntactTask, Position
  <2>2. \A f \in governed' : Intact(f)
    BY <1>14, <2>1 DEF SubscriptionStored, ReadInv, IntactInv
  <2>3. TasksKept /\ ScansKept
    BY <1>8, <1>14, TakenFrom DEF SubscriptionStored, TasksKept
  <2>4. QED
    BY <1>3, <1>4, <1>5, <2>2, <2>3, IntactNext
<1>15. CASE \/ StoreTrustedSignatureOnMainThread \/ StoreError
            \/ RemoveStoredSignatureInMainThread
  <2>1. TasksKept
    BY <1>15, TakenFrom DEF StoreTrustedSignatureOnMainThread, StoreError,
      RemoveStoredSignatureInMainThread, TasksKept
  <2>2. UNCHANGED <<governed, loads>>
    BY <1>15 DEF StoreTrustedSignatureOnMainThread, StoreError,
      RemoveStoredSignatureInMainThread
  <2>3. QED
    BY <1>8, <1>9, <2>1, <2>2
<1>16. ASSUME NEW w \in writes, BeginWrite(w)
       PROVE  IntactInv'
  <2>1. \A scan \in loads' : \E old \in loads :
          scan.trusted = old.trusted /\ scan.result = old.result
    BY <1>16 DEF BeginWrite, TypeOK, DirectoryScan
  <2>2. ScansKept
    BY <2>1 DEF ScansKept
  <2>3. UNCHANGED <<governed, main_tasks>>
    BY <1>16 DEF BeginWrite
  <2>4. QED
    BY <1>7, <1>9, <2>2, <2>3
<1>17. ASSUME NEW w \in writes, EndWrite(w)
       PROVE  IntactInv'
  <2>1. UNCHANGED <<governed, loads>>
    BY <1>17 DEF EndWrite
  <2>2. IntactAfter(w.file)
    <3>1. w.file \in used /\ w.file \in File
      BY DEF ReadInv, WritesInv, TypeOK, Write
    <3>2. disk'[w.file] = schema' /\ used' = used
      BY <1>17, <3>1 DEF EndWrite, TypeOK, browser
    <3>3. \A v \in writes' : v.file # w.file
      BY <1>17 DEF EndWrite, ReadInv, WritesInv
    <3>4. QED
      BY <3>1, <3>2, <3>3 DEF IntactAfter
  <2>3. \A i \in Position' :
          \/ OldTask(main_tasks'[i])
          \/ \E k \in 1 .. Len(SignatureThenReply(w.file)) :
               main_tasks'[i] = SignatureThenReply(w.file)[k]
    <3>1. main_tasks' = main_tasks \/ main_tasks' = main_tasks \o SignatureThenReply(w.file)
      BY <1>17 DEF EndWrite, Post
    <3>2. QED
      BY <1>7, <3>1, MessagesTyped, PostedFrom DEF TasksKept
  <2>4. \A k \in 1 .. Len(SignatureThenReply(w.file)) :
          IntactTaskAfter(SignatureThenReply(w.file)[k])
    BY <2>2 DEF SignatureThenReply, IntactTaskAfter
  <2>5. \A t : OldTask(t) => IntactTaskAfter(t)
    BY <1>3 DEF OldTask, ReadInv, IntactInv
  <2>6. \A i \in Position' : IntactTaskAfter(main_tasks'[i])
    BY <2>3, <2>4, <2>5
  <2>7. QED
    BY <1>5, <1>6, <1>8, <2>1, <2>6, IntactNext
<1>18. ASSUME NEW w \in writes, FailWrite(w)
       PROVE  IntactInv'
  <2>1. UNCHANGED <<governed, loads>>
    BY <1>18 DEF FailWrite
  <2>2. \A i \in Position' :
          \/ OldTask(main_tasks'[i])
          \/ \E k \in 1 .. Len(Failure(w.file)) :
               main_tasks'[i] = Failure(w.file)[k]
    <3>1. main_tasks' = main_tasks \/ main_tasks' = main_tasks \o Failure(w.file)
      BY <1>18 DEF FailWrite, Post
    <3>2. QED
      BY <1>7, <3>1, MessagesTyped, PostedFrom DEF TasksKept
  <2>3. \A k \in 1 .. Len(Failure(w.file)) : IntactTaskAfter(Failure(w.file)[k])
    BY DEF Failure, IntactTaskAfter
  <2>4. \A t : OldTask(t) => IntactTaskAfter(t)
    BY <1>3 DEF OldTask, ReadInv, IntactInv
  <2>5. \A i \in Position' : IntactTaskAfter(main_tasks'[i])
    BY <2>2, <2>3, <2>4
  <2>6. QED
    BY <1>5, <1>6, <1>8, <2>1, <2>5, IntactNext
<1>19. ASSUME NEW f \in File, RemoveSubscription(f)
       PROVE  IntactInv'
  <2> DEFINE t == [type |-> "unsign", file |-> f]
  <2>1. governed' \subseteq governed /\ loads' = loads
    BY <1>19 DEF RemoveSubscription
  <2>2. main_tasks' = main_tasks \o <<t>>
    BY <1>19, RemovalPosted
  <2>3. /\ <<t>> \in Seq(Tasks) /\ \A k \in 1 .. Len(<<t>>) : <<t>>[k] = t
        /\ IntactTaskAfter(t)
    BY MessagesTyped DEF IntactTaskAfter
  <2> HIDE DEF t
  <2>4. \A u : OldTask(u) => IntactTaskAfter(u)
    BY <1>3 DEF OldTask, ReadInv, IntactInv
  <2>5. \A i \in Position' : IntactTaskAfter(main_tasks'[i])
    BY <2>2, <2>3, <2>4, PostedFrom
  <2>6. QED
    BY <1>5, <1>6, <1>8, <2>1, <2>5, IntactNext
<1>20. CASE Disable
  <2>1. \A scan \in loads' : \E old \in loads :
          scan.trusted = old.trusted /\ scan.result = {}
    BY <1>20 DEF Disable, TypeOK, DirectoryScan
  <2>2. ScansKept
    BY <2>1 DEF ScansKept
  <2>3. TasksKept /\ governed' \subseteq governed
    <3>1. main_tasks' = <<>> /\ governed' = {}
      BY <1>20 DEF Disable
    <3>2. Position' = {}
      BY <3>1 DEF Position
    <3>3. QED
      BY <3>1, <3>2 DEF TasksKept
  <2>4. QED
    BY <1>9, <2>2, <2>3
<1>21. CASE \/ UNCHANGED vars \/ SavePrefs
            \/ \E f \in File : StoreSubscription(f) \/ DestroyMemoryMappedFile(f)
  <2>1. UNCHANGED <<governed, loads, main_tasks>>
    BY <1>21 DEF vars, SavePrefs, StoreSubscription, DestroyMemoryMappedFile
  <2>2. QED
    BY <1>7, <1>8, <1>9, <2>1
<1>22. QED
  BY <1>2, <1>10, <1>11, <1>12, <1>13, <1>14, <1>15, <1>16, <1>17, <1>18,
    <1>19, <1>20, <1>21 DEF Next, StorageStep

LEMMA ReadAlways == Spec => []ReadInv
<1>1. TypeOK /\ ReadInv /\ [Next]_vars => ReadInv'
  BY WritesStep, SignaturesStep, IntactStep DEF ReadInv
<1>2. QED
  BY <1>1, ReadInit, TypeCorrect, PTL DEF Spec

\* No file that was cut short or written by a browser with another schema is
\* ever governed, for any crashes, restarts, failures and destroyed storages
\* (ReadSubscriptionsFromDirectory, SubscriptionValidatorImpl).
THEOREM NeverMisreadHolds == Spec => []NeverMisread
<1>1. ReadInv => NeverMisread
  BY DEF ReadInv, IntactInv, Intact, NeverMisread
<1>2. QED
  BY <1>1, ReadAlways, PTL

(***************************************************************************)
(* What is governed is signed.                                             *)
(***************************************************************************)

LEMMA SignedInit == Init => SignedInv
BY DEF Init, SignedInv, PhaseInv, QueueInv, SignBeforeReply, RepliesOnce,
  SignedWhenGoverned, Position

\* Tasks run in their phase: a storage that loads has one scan or its result.
LEMMA PhaseStep == TypeOK /\ ReadInv /\ PhaseInv /\ [Next]_vars => PhaseInv'
<1> SUFFICES ASSUME TypeOK, ReadInv, PhaseInv, [Next]_vars PROVE PhaseInv'
  OBVIOUS
<1> USE DEF PhaseInv
<1> DEFINE Dead == /\ \A scan \in loads' : ~ scan.live
                   /\ \A w \in writes' : ~ w.live
           SameWrites == \A w \in writes' : \E old \in writes : w.live = old.live
           OneLive == \A scan, other \in loads' :
                        scan.live /\ other.live => scan = other
           SameScans == \A scan \in loads' : \E old \in loads :
                          scan.live = old.live /\ scan.trusted = old.trusted
<1>1. ASSUME phase' = "off", main_tasks' = <<>>, governed' = {}, awaiting' = {},
             Dead
      PROVE  PhaseInv'
  BY <1>1
<1>2. CASE Quit \/ Crash
  <2>1. /\ phase' = "off" /\ main_tasks' = <<>> /\ governed' = {}
        /\ awaiting' = {} /\ loads' = {} /\ writes' = {}
    BY <1>2 DEF Quit, Crash, EndProcess
  <2>2. QED
    BY <1>1, <2>1
<1>3. CASE Disable
  <2>1. phase' = "off" /\ main_tasks' = <<>> /\ governed' = {} /\ awaiting' = {}
    BY <1>3 DEF Disable
  <2>2. Dead
    BY <1>3, ZenonT(30) DEF Disable, TypeOK, Write, DirectoryScan
  <2>3. QED
    BY <1>1, <2>1, <2>2
<1>4. CASE LoadSubscriptions
  <2>1. /\ phase = "off" /\ phase' = "loading"
        /\ UNCHANGED <<governed, main_tasks, awaiting, writes>>
    BY <1>4 DEF LoadSubscriptions
  <2> DEFINE new == [live |-> TRUE, trusted |-> prefs'.signatures,
                     unread |-> {f \in File : disk[f] # "absent"}, result |-> {}]
  <2>2. loads' = loads \cup {new} /\ new.trusted = prefs'.signatures
    BY <1>4 DEF LoadSubscriptions
  <2> HIDE DEF new
  <2>3. \A scan \in loads' : scan.live => scan = new
    BY <2>1, <2>2
  <2>4. main_tasks' = <<>>
    BY <2>1
  <2>5. QED
    BY <2>1, <2>2, <2>3, <2>4
<1>5. ASSUME UNCHANGED <<phase, governed, main_tasks, awaiting, prefs>>,
             SameWrites, SameScans, phase = "loading" => OneLive
      PROVE  PhaseInv'
  <2>1. phase = "off" => PhaseInv'
    BY <1>5
  <2>2. phase = "ready" => PhaseInv'
    BY <1>5 DEF Position
  <2>3. phase = "loading" => PhaseInv'
    BY <1>5
  <2>4. QED
    BY <2>1, <2>2, <2>3 DEF TypeOK
<1>6. phase = "loading" /\ loads' \subseteq loads => OneLive
  OBVIOUS
<1>7. loads' \subseteq loads => SameScans
  OBVIOUS
<1>8. writes' \subseteq writes => SameWrites
  OBVIOUS
<1> HIDE DEF Dead, SameWrites, OneLive, SameScans
<1>9. ASSUME NEW scan \in loads, NEW f \in File, ReadFile(scan, f)
      PROVE  PhaseInv'
  <2>1. UNCHANGED <<phase, governed, main_tasks, awaiting, prefs, writes>>
    BY <1>9 DEF ReadFile
  <2>2. PICK taken : loads' = (loads \ {scan}) \cup
          {[scan EXCEPT !.unread = @ \ {f}, !.result = @ \cup taken]}
    BY <1>9 DEF ReadFile
  <2> DEFINE next == [scan EXCEPT !.unread = @ \ {f}, !.result = @ \cup taken]
  <2>3. next.live = scan.live /\ next.trusted = scan.trusted
    BY DEF TypeOK, DirectoryScan
  <2> HIDE DEF next
  <2>4. loads' = (loads \ {scan}) \cup {next}
    BY <2>2 DEF next
  <2>5. SameScans
    BY <2>3, <2>4 DEF SameScans
  <2>6. phase = "loading" => OneLive
    BY <2>3, <2>4 DEF OneLive
  <2>7. QED
    BY <1>5, <1>8, <2>1, <2>5, <2>6
<1>10. ASSUME NEW w \in writes, BeginWrite(w)
       PROVE  PhaseInv'
  <2>1. UNCHANGED <<phase, governed, main_tasks, awaiting, prefs>>
    BY <1>10 DEF BeginWrite
  <2>2. SameWrites
    BY <1>10 DEF BeginWrite, SameWrites, TypeOK, Write
  <2> DEFINE next(scan) == [scan EXCEPT !.unread = @ \cup {w.file}]
  <2>3. \A scan \in loads :
          next(scan).live = scan.live /\ next(scan).trusted = scan.trusted
    BY DEF TypeOK, DirectoryScan
  <2>4. PICK seen_by \in SUBSET loads :
          loads' = (loads \ seen_by) \cup {next(scan) : scan \in seen_by}
    BY <1>10 DEF BeginWrite
  <2> HIDE DEF next
  <2>5. SameScans
    BY <2>3, <2>4 DEF SameScans
  <2>6. phase = "loading" => OneLive
    <3> SUFFICES ASSUME phase = "loading", NEW s \in loads', NEW t \in loads',
                        s.live, t.live
                 PROVE  s = t
      BY DEF OneLive
    <3>1. PICK x \in loads : x.live /\ s = IF x \in seen_by THEN next(x) ELSE x
      BY <2>3, <2>4
    <3>2. PICK y \in loads : y.live /\ t = IF y \in seen_by THEN next(y) ELSE y
      BY <2>3, <2>4
    <3>3. x = y
      BY <3>1, <3>2
    <3>4. QED
      BY <3>1, <3>2, <3>3
  <2>7. QED
    BY <1>5, <2>1, <2>2, <2>5, <2>6
<1>11. ASSUME NEW w \in writes, ~ w.live, EndWrite(w) \/ FailWrite(w)
       PROVE  PhaseInv'
  <2>1. /\ UNCHANGED <<phase, governed, main_tasks, awaiting, prefs, loads>>
        /\ writes' \subseteq writes
    BY <1>11 DEF EndWrite, FailWrite, Post
  <2>2. QED
    BY <1>5, <1>6, <1>7, <1>8, <2>1
\* A storage that runs posts and takes tasks, but no load.
<1>12. ASSUME phase = "ready", UNCHANGED <<phase, loads>>,
              \A i \in Position' : \/ OldTask(main_tasks'[i])
                                   \/ main_tasks'[i].type # "loaded"
       PROVE  PhaseInv'
  <2>1. \A i \in Position' : main_tasks'[i].type # "loaded"
    BY <1>12 DEF OldTask
  <2>2. QED
    BY <1>12, <2>1 DEF Position
<1>13. ASSUME NEW w \in writes, w.live, EndWrite(w) \/ FailWrite(w)
       PROVE  PhaseInv'
  <2>1. phase = "ready" /\ UNCHANGED <<phase, loads>>
    BY <1>13 DEF EndWrite, FailWrite, TypeOK
  <2>2. PICK s \in {SignatureThenReply(w.file), Failure(w.file)} :
          main_tasks' = main_tasks \o s
    BY <1>13 DEF EndWrite, FailWrite, Post
  <2>3. s \in Seq(Tasks)
    BY MessagesTyped
  <2>4. \A k \in 1 .. Len(s) : s[k].type # "loaded"
    BY DEF SignatureThenReply, Failure
  <2>5. QED
    BY <1>12, <2>1, <2>2, <2>3, <2>4, PostedFrom
<1>14. CASE \/ StoreTrustedSignatureOnMainThread \/ SubscriptionStored
            \/ StoreError \/ RemoveStoredSignatureInMainThread
  <2>1. PICK type \in {"sign", "stored", "failed", "unsign"} : NextTask(type)
    BY <1>14 DEF StoreTrustedSignatureOnMainThread, SubscriptionStored,
      StoreError, RemoveStoredSignatureInMainThread
  <2>2. phase = "ready"
    BY <2>1, TaskTaken DEF TypeOK, Tasks, NextTask
  <2>3. UNCHANGED <<phase, loads>>
    BY <1>14 DEF StoreTrustedSignatureOnMainThread, SubscriptionStored,
      StoreError, RemoveStoredSignatureInMainThread
  <2>4. QED
    BY <1>12, <2>1, <2>2, <2>3, TakenFrom
<1>15. ASSUME NEW f \in File, RemoveSubscription(f)
       PROVE  PhaseInv'
  <2> DEFINE t == [type |-> "unsign", file |-> f]
  <2>1. phase = "ready" /\ UNCHANGED <<phase, loads>>
    BY <1>15 DEF RemoveSubscription, TypeOK
  <2>2. main_tasks' = main_tasks \o <<t>>
    BY <1>15, RemovalPosted
  <2>3. <<t>> \in Seq(Tasks) /\ \A k \in 1 .. Len(<<t>>) : <<t>>[k].type # "loaded"
    BY MessagesTyped
  <2> HIDE DEF t
  <2>4. QED
    BY <1>12, <2>1, <2>2, <2>3, PostedFrom, ZenonT(30)
<1>16. ASSUME NEW f \in File, StoreSubscription(f)
       PROVE  PhaseInv'
  <2>1. phase = "ready" /\ UNCHANGED <<phase, loads, main_tasks>>
    BY <1>16 DEF StoreSubscription, IsInitialized
  <2>2. QED
    BY <1>12, <2>1 DEF OldTask, Position
<1>17. ASSUME NEW scan \in loads, ~ scan.live, FinishScan(scan)
       PROVE  PhaseInv'
  <2>1. /\ UNCHANGED <<phase, governed, main_tasks, awaiting, prefs, writes>>
        /\ loads' \subseteq loads
    BY <1>17 DEF FinishScan, Post
  <2>2. QED
    BY <1>5, <1>6, <1>7, <1>8, <2>1
<1>18. ASSUME NEW scan \in loads, scan.live, FinishScan(scan)
       PROVE  PhaseInv'
  <2> DEFINE t == [type |-> "loaded", files |-> scan.result]
  <2>1. /\ phase = "loading"
        /\ UNCHANGED <<phase, governed, awaiting, prefs, writes>>
        /\ loads' = loads \ {scan}
        /\ main_tasks = <<>>
    BY <1>18 DEF FinishScan, TypeOK
  <2>2. main_tasks' = <<t>>
    BY <1>18, <2>1 DEF FinishScan, Post
  <2>3. t.type = "loaded" /\ t.files \subseteq prefs.signatures
    BY <1>18, <2>1 DEF ReadInv, IntactInv
  <2> HIDE DEF t
  <2>4. \A other \in loads' : ~ other.live
    BY <1>18, <2>1
  <2>5. Len(main_tasks') = 1 /\ main_tasks'[1] = t
    BY <2>2
  <2>6. QED
    BY <2>1, <2>3, <2>4, <2>5
<1>19. CASE LoadComplete
  <2>1. /\ phase = "loading" /\ Len(main_tasks) = 1
        /\ \A scan \in loads : ~ scan.live
    BY <1>19, TaskTaken DEF LoadComplete, TypeOK, Tasks, Position, NextTask
  <2>2. phase' = "ready" /\ loads' = loads
    BY <1>19 DEF LoadComplete
  <2>3. Position' = {}
    <3>1. Len(main_tasks') = 0 /\ Position' = 1 .. Len(main_tasks')
      BY <1>19, <2>1, TaskTaken DEF LoadComplete, TypeOK, Tasks, Position
    <3>2. QED
      BY <3>1
  <2>4. QED
    BY <2>1, <2>2, <2>3 DEF Position
<1>20. CASE \/ UNCHANGED vars \/ SavePrefs
            \/ \E f \in File : DestroyMemoryMappedFile(f)
  <2>1. UNCHANGED <<phase, governed, main_tasks, awaiting, prefs, writes, loads>>
    BY <1>20 DEF vars, SavePrefs, DestroyMemoryMappedFile
  <2>2. QED
    BY <1>5, <1>6, <1>7, <1>8, <2>1
<1>21. QED
  BY <1>2, <1>3, <1>4, <1>9, <1>10, <1>11, <1>13, <1>14, <1>15, <1>16, <1>17,
    <1>18, <1>19, <1>20 DEF Next, StorageStep

\* The order of the queue once its first task has been taken.
LEMMA TakenQueue ==
  ASSUME TypeOK, SignBeforeReply, NEW type, NextTask(type)
  PROVE  \A i \in Position' :
           /\ main_tasks'[i].type = "sign" =>
                /\ i + 1 \in Position'
                /\ main_tasks'[i + 1].type = "stored"
                /\ main_tasks'[i + 1].file = main_tasks'[i].file
           /\ main_tasks'[i].type = "stored" =>
                IF i = 1
                THEN type = "sign" /\ main_tasks'[i].file = main_tasks[1].file
                ELSE /\ main_tasks'[i - 1].type = "sign"
                     /\ main_tasks'[i - 1].file = main_tasks'[i].file
<1> SUFFICES ASSUME NEW i \in Position'
             PROVE  /\ main_tasks'[i].type = "sign" =>
                         /\ i + 1 \in Position'
                         /\ main_tasks'[i + 1].type = "stored"
                         /\ main_tasks'[i + 1].file = main_tasks'[i].file
                    /\ main_tasks'[i].type = "stored" =>
                         IF i = 1
                         THEN /\ type = "sign"
                              /\ main_tasks'[i].file = main_tasks[1].file
                         ELSE /\ main_tasks'[i - 1].type = "sign"
                              /\ main_tasks'[i - 1].file = main_tasks'[i].file
  OBVIOUS
<1>1. /\ i \in Nat /\ i >= 1 /\ i < Len(main_tasks)
      /\ main_tasks'[i] = main_tasks[i + 1]
      /\ Len(main_tasks') = Len(main_tasks) - 1
      /\ main_tasks[1].type = type
      /\ Position = 1 .. Len(main_tasks) /\ Position' = 1 .. Len(main_tasks')
      /\ Len(main_tasks) \in Nat
      /\ \A j \in Position' : main_tasks'[j] = main_tasks[j + 1]
  BY TaskTaken DEF TypeOK, Tasks, Position
<1>2. ASSUME main_tasks'[i].type = "sign"
      PROVE  /\ i + 1 \in Position'
             /\ main_tasks'[i + 1].type = "stored"
             /\ main_tasks'[i + 1].file = main_tasks'[i].file
  <2>1. /\ i + 1 \in Position
        /\ (i + 1) + 1 \in Position
        /\ main_tasks[(i + 1) + 1].type = "stored"
        /\ main_tasks[(i + 1) + 1].file = main_tasks[i + 1].file
    BY <1>1, <1>2 DEF SignBeforeReply
  <2>2. i + 1 \in Position'
    BY <1>1, <2>1
  <2>3. QED
    BY <1>1, <2>1, <2>2
<1>3. ASSUME main_tasks'[i].type = "stored", i = 1
      PROVE  type = "sign" /\ main_tasks'[i].file = main_tasks[1].file
  <2>1. 2 \in Position /\ main_tasks[2].type = "stored"
    BY <1>1, <1>3
  <2>2. main_tasks[2 - 1].type = "sign" /\ main_tasks[2 - 1].file = main_tasks[2].file
    BY <2>1 DEF SignBeforeReply
  <2>3. QED
    BY <1>1, <1>3, <2>2
<1>4. ASSUME main_tasks'[i].type = "stored", i # 1
      PROVE  /\ main_tasks'[i - 1].type = "sign"
             /\ main_tasks'[i - 1].file = main_tasks'[i].file
  <2>1. i + 1 \in Position /\ main_tasks[i + 1].type = "stored"
    BY <1>1, <1>4
  <2>2. /\ main_tasks[(i + 1) - 1].type = "sign"
        /\ main_tasks[(i + 1) - 1].file = main_tasks[i + 1].file
    BY <1>1, <1>4, <2>1 DEF SignBeforeReply
  <2>3. i - 1 \in Position' /\ (i + 1) - 1 = (i - 1) + 1
    BY <1>1, <1>4
  <2>4. QED
    BY <1>1, <2>2, <2>3
<1>5. QED
  BY <1>2, <1>3, <1>4

LEMMA TakenReplies ==
  ASSUME TypeOK, RepliesOnce, NEW type, NextTask(type)
  PROVE  \A i \in Position' : main_tasks'[i].type \in Reply =>
           /\ main_tasks'[i].file \in awaiting
           /\ type \in Reply => main_tasks'[i].file # main_tasks[1].file
           /\ \A j \in Position' :
                /\ main_tasks'[j].type \in Reply
                /\ main_tasks'[j].file = main_tasks'[i].file
                => i = j
<1>1. /\ Position = 1 .. Len(main_tasks)
      /\ Position' = 1 .. (Len(main_tasks) - 1)
      /\ Len(main_tasks) \in Nat \ {0}
      /\ main_tasks[1].type = type
      /\ \A j \in Position' : main_tasks'[j] = main_tasks[j + 1]
  BY TaskTaken DEF TypeOK, Tasks, Position
<1>2. \A j \in Position' : j \in Nat /\ j + 1 \in Position /\ j + 1 # 1
  BY <1>1
<1>3. QED
  BY <1>1, <1>2 DEF RepliesOnce

\* The order of the queue once tasks have been posted.
LEMMA PostedOne ==
  ASSUME TypeOK, SignBeforeReply, prefs' = prefs, NEW t \in Tasks,
         t.type \notin {"sign", "stored"}, main_tasks' = main_tasks \o <<t>>
  PROVE  SignBeforeReply'
<1> DEFINE n == Len(main_tasks)
<1>1. /\ n \in Nat /\ Position = 1 .. n /\ Position' = 1 .. (n + 1)
      /\ \A i \in Position : main_tasks'[i] = main_tasks[i]
      /\ main_tasks'[n + 1] = t
  BY TasksPosted DEF TypeOK, Tasks, Position
<1> HIDE DEF n
<1>2. QED
  BY <1>1 DEF SignBeforeReply, Position

LEMMA PostedSignature ==
  ASSUME TypeOK, SignBeforeReply, prefs' = prefs, NEW w \in writes,
         main_tasks' = main_tasks \o SignatureThenReply(w.file)
  PROVE  SignBeforeReply'
<1> DEFINE n == Len(main_tasks)
<1>1. SignatureThenReply(w.file) \in Seq(Tasks)
  BY MessagesTyped
<1>2. /\ n \in Nat /\ Position = 1 .. n /\ Position' = 1 .. (n + 2)
      /\ \A i \in Position : main_tasks'[i] = main_tasks[i]
      /\ main_tasks'[n + 1] = [type |-> "sign", file |-> w.file]
      /\ main_tasks'[n + 2] = [type |-> "stored", file |-> w.file]
  BY <1>1, TasksPosted DEF TypeOK, Tasks, Position, SignatureThenReply
<1> HIDE DEF n
<1>3. QED
  BY <1>2 DEF SignBeforeReply, Position

\* The replies after a step, and the stores they are for.
LEMMA QueueNext ==
  ASSUME SignBeforeReply',
         \A i \in Position' : main_tasks'[i].type \in Reply =>
           /\ main_tasks'[i].file \in awaiting'
           /\ \A j \in Position' :
                /\ main_tasks'[j].type \in Reply
                /\ main_tasks'[j].file = main_tasks'[i].file
                => i = j,
         \A i \in Position' : main_tasks'[i].type = "unsign" =>
           main_tasks'[i].file \in used' \ (governed' \cup awaiting'),
         \A w \in writes' : w.live =>
           /\ w.file \in awaiting'
           /\ \A i \in Position' : main_tasks'[i].type \in Reply =>
                main_tasks'[i].file # w.file,
         awaiting' \subseteq used',
         awaiting' \cap governed' = {}
  PROVE  QueueInv'
BY DEF QueueInv, RepliesOnce, Position

\* Signatures reach the preferences before the reply, and are not removed
\* while somebody relies on them.
LEMMA QueueStep ==
  TypeOK /\ ReadInv /\ SignedInv /\ [Next]_vars => QueueInv' /\ SignedWhenGoverned'
<1> SUFFICES ASSUME TypeOK, ReadInv, SignedInv, [Next]_vars
             PROVE  QueueInv' /\ SignedWhenGoverned'
  OBVIOUS
<1> USE DEF SignedInv, SignedWhenGoverned
<1> DEFINE Goal == QueueInv' /\ SignedWhenGoverned'
           SameWrites == \A w \in writes' : \E old \in writes :
                           w.live = old.live /\ w.file = old.file
<1>1. ASSUME UNCHANGED <<main_tasks, awaiting, governed, used, prefs>>, SameWrites
      PROVE  Goal
  <2>1. SignBeforeReply'
    BY <1>1 DEF QueueInv, SignBeforeReply, Position
  <2>2. Position' = Position
    BY <1>1 DEF Position
  <2>3. QueueInv'
    BY <1>1, <2>1, <2>2, QueueNext DEF QueueInv, RepliesOnce
  <2>4. QED
    BY <1>1, <2>3
<1>2. writes' \subseteq writes => SameWrites
  OBVIOUS
\* The queue is void before and after.
<1>3. ASSUME main_tasks' = <<>>, awaiting' = {}, governed' \subseteq prefs'.signatures,
             \A w \in writes' : ~ w.live
      PROVE  Goal
  <2>1. Position' = {}
    BY <1>3 DEF Position
  <2>2. QueueInv'
    BY <1>3, <2>1, QueueNext DEF SignBeforeReply
  <2>3. QED
    BY <1>3, <2>2
<1> HIDE DEF SameWrites
<1>4. CASE Quit \/ Crash
  <2>1. main_tasks' = <<>> /\ governed' = {} /\ awaiting' = {} /\ writes' = {}
    BY <1>4 DEF Quit, Crash, EndProcess
  <2>2. QED
    BY <1>3, <2>1
<1>5. CASE Disable
  <2>1. main_tasks' = <<>> /\ governed' = {} /\ awaiting' = {}
    BY <1>5 DEF Disable
  <2>2. \A w \in writes' : ~ w.live
    BY <1>5 DEF Disable, TypeOK, Write
  <2>3. QED
    BY <1>3, <2>1, <2>2
<1>6. CASE LoadSubscriptions
  <2>1. phase = "off" /\ UNCHANGED <<main_tasks, governed, awaiting, writes>>
    BY <1>6 DEF LoadSubscriptions
  <2>2. QED
    BY <1>3, <2>1 DEF PhaseInv
<1>7. CASE LoadComplete
  <2>1. /\ phase = "loading" /\ Len(main_tasks) = 1
        /\ main_tasks[1].files \subseteq prefs.signatures
        /\ governed = {} /\ awaiting = {} /\ \A w \in writes : ~ w.live
    BY <1>7, TaskTaken DEF LoadComplete, TypeOK, Tasks, PhaseInv, Position,
      NextTask
  <2>2. UNCHANGED <<awaiting, writes, prefs>>
    BY <1>7 DEF LoadComplete
  <2>3. main_tasks' = <<>> /\ governed' = main_tasks[1].files
    BY <1>7, <2>1 DEF LoadComplete, NextTask, Entered, TypeOK
  <2>4. QED
    BY <1>3, <2>1, <2>2, <2>3
<1>8. ASSUME NEW f \in File, StoreSubscription(f)
      PROVE  Goal
  <2> DEFINE new == [file |-> f, live |-> TRUE, begun |-> FALSE]
  <2>1. /\ f \notin used /\ used' = used \cup {f}
        /\ awaiting' = awaiting \cup {f}
        /\ UNCHANGED <<main_tasks, governed, prefs>>
    BY <1>8 DEF StoreSubscription
  <2>2. \A w \in writes' : w \in writes \/ w.file = f
    BY <1>8 DEF StoreSubscription
  <2>3. f \notin governed
    BY <2>1 DEF ReadInv, IntactInv, Intact
  <2>4. Position' = Position
    BY <2>1 DEF Position
  <2>5. SignBeforeReply'
    BY <2>1, <2>4 DEF QueueInv, SignBeforeReply
  <2>6. \A i \in Position : main_tasks[i].type \in Reply \cup {"unsign"} =>
          main_tasks[i].file # f
    BY <2>1 DEF QueueInv, RepliesOnce
  <2>7. QueueInv'
    BY <2>1, <2>2, <2>3, <2>4, <2>5, <2>6, QueueNext DEF QueueInv, RepliesOnce
  <2>8. QED
    BY <2>1, <2>7
<1>9. ASSUME NEW w \in writes, BeginWrite(w)
      PROVE  Goal
  <2>1. SameWrites
    BY <1>9 DEF BeginWrite, TypeOK, Write, SameWrites
  <2>2. UNCHANGED <<main_tasks, awaiting, governed, used, prefs>>
    BY <1>9 DEF BeginWrite
  <2>3. QED
    BY <1>1, <2>1, <2>2
<1>10. ASSUME NEW w \in writes, ~ w.live, EndWrite(w) \/ FailWrite(w)
       PROVE  Goal
  <2>1. /\ UNCHANGED <<main_tasks, awaiting, governed, used, prefs>>
        /\ writes' \subseteq writes
    BY <1>10 DEF EndWrite, FailWrite, Post
  <2>2. QED
    BY <1>1, <1>2, <2>1
\* The write is done, and its reply is in the queue.
<1>11. ASSUME NEW w \in writes, w.live, writes' = writes \ {w},
              UNCHANGED <<awaiting, governed, used, prefs>>,
              NEW n \in Nat, NEW r, Position' = Position \cup {n, r},
              \A i \in Position : main_tasks'[i] = main_tasks[i],
              main_tasks'[n].type = "sign" \/ n = r,
              main_tasks'[r].type \in Reply, main_tasks'[r].file = w.file,
              n \notin Position, r \notin Position, SignBeforeReply'
       PROVE  Goal
  <2>1. /\ w.file \in awaiting
        /\ \A i \in Position : main_tasks[i].type \in Reply =>
             main_tasks[i].file # w.file
    BY <1>11 DEF QueueInv
  <2>2. \A v \in writes' : v.file # w.file
    BY <1>11 DEF ReadInv, WritesInv
  <2>3. \A i \in Position' : i \in Position \/ i = r \/ main_tasks'[i].type = "sign"
    BY <1>11
  <2>4. "sign" \notin Reply /\ "unsign" \notin Reply
    BY DEF Reply
  <2>5. \A i \in Position' : main_tasks'[i].type \in Reply =>
          /\ main_tasks'[i].file \in awaiting
          /\ \A j \in Position' :
               /\ main_tasks'[j].type \in Reply
               /\ main_tasks'[j].file = main_tasks'[i].file
               => i = j
    BY <1>11, <2>1, <2>3, <2>4 DEF QueueInv, RepliesOnce
  <2>6. \A i \in Position' : main_tasks'[i].type = "unsign" =>
          main_tasks'[i].file \in used \ (governed \cup awaiting)
    BY <1>11, <2>3, <2>4 DEF QueueInv
  <2>7. \A v \in writes' : v.live =>
          /\ v.file \in awaiting
          /\ \A i \in Position' : main_tasks'[i].type \in Reply =>
               main_tasks'[i].file # v.file
    BY <1>11, <2>2, <2>3, <2>4 DEF QueueInv
  <2>8. QueueInv'
    BY <1>11, <2>5, <2>6, <2>7, QueueNext DEF QueueInv
  <2>9. QED
    BY <1>11, <2>8
<1>12. ASSUME NEW w \in writes, w.live, EndWrite(w)
       PROVE  Goal
  <2> DEFINE n == Len(main_tasks)
  <2>1. /\ UNCHANGED <<awaiting, governed, used, prefs>> /\ writes' = writes \ {w}
        /\ main_tasks' = main_tasks \o SignatureThenReply(w.file)
    BY <1>12 DEF EndWrite, Post
  <2>2. SignatureThenReply(w.file) \in Seq(Tasks)
    BY MessagesTyped
  <2>3. /\ n \in Nat /\ Position = 1 .. n /\ Position' = 1 .. (n + 2)
        /\ \A i \in Position : main_tasks'[i] = main_tasks[i]
        /\ main_tasks'[n + 1] = [type |-> "sign", file |-> w.file]
        /\ main_tasks'[n + 2] = [type |-> "stored", file |-> w.file]
    BY <2>1, <2>2, TasksPosted DEF TypeOK, Tasks, Position, SignatureThenReply
  <2>4. SignBeforeReply'
    BY <2>1, PostedSignature DEF QueueInv
  <2> HIDE DEF n
  <2>5. PICK p, r : p = n + 1 /\ r = n + 2
    OBVIOUS
  <2>6. /\ Position' = Position \cup {p, r}
        /\ p \notin Position /\ r \notin Position /\ p \in Nat
    BY <2>3, <2>5
  <2>7. /\ main_tasks'[p].type = "sign"
        /\ main_tasks'[r].type \in Reply /\ main_tasks'[r].file = w.file
    BY <2>3, <2>5 DEF Reply
  <2>8. QED
    BY <1>11, <1>12, <2>1, <2>3, <2>4, <2>6, <2>7
<1>13. ASSUME NEW w \in writes, w.live, FailWrite(w)
       PROVE  Goal
  <2> DEFINE n == Len(main_tasks)
  <2>1. /\ UNCHANGED <<awaiting, governed, used, prefs>> /\ writes' = writes \ {w}
        /\ main_tasks' = main_tasks \o Failure(w.file)
    BY <1>13 DEF FailWrite, Post
  <2>2. Failure(w.file) \in Seq(Tasks)
    BY MessagesTyped
  <2>3. /\ n \in Nat /\ Position = 1 .. n /\ Position' = 1 .. (n + 1)
        /\ \A i \in Position : main_tasks'[i] = main_tasks[i]
        /\ main_tasks'[n + 1] = [type |-> "failed", file |-> w.file]
    BY <2>1, <2>2, TasksPosted DEF TypeOK, Tasks, Position, Failure
  <2>4. [type |-> "failed", file |-> w.file] \in Tasks
    BY DEF TypeOK, Write, Tasks, FileTask
  <2>5. SignBeforeReply'
    BY <2>1, <2>4, PostedOne DEF QueueInv, Failure
  <2> HIDE DEF n
  <2>6. PICK r : r = n + 1
    OBVIOUS
  <2>7. /\ Position' = Position \cup {r, r} /\ r \notin Position /\ r \in Nat
        /\ main_tasks'[r].type \in Reply /\ main_tasks'[r].file = w.file
    BY <2>3, <2>6 DEF Reply
  <2>8. QED
    BY <1>11, <1>13, <2>1, <2>3, <2>5, <2>7
\* A task of a storage that runs is taken.
<1>14. ASSUME NEW type \in {"sign", "stored", "failed", "unsign"},
              NextTask(type), NEW f, f = main_tasks[1].file,
              UNCHANGED <<used, writes>>,
              type \in {"sign", "unsign"} =>
                UNCHANGED <<awaiting, governed>>,
              type \in Reply => /\ awaiting' = awaiting \ {f}
                                /\ governed' \subseteq governed \cup {f},
              type = "stored" => f \in prefs.signatures,
              type = "sign" => prefs'.signatures = prefs.signatures \cup {f},
              type = "unsign" => prefs'.signatures = prefs.signatures \ {f},
              type \in Reply => prefs' = prefs,
              type = "failed" => governed' = governed
       PROVE  Goal
  <2>1. /\ 1 \in Position /\ main_tasks[1].type = type
        /\ \A i \in Position' : i \in Nat /\ main_tasks'[i] = main_tasks[i + 1]
                                /\ i + 1 \in Position
    <3>1. /\ Position = 1 .. Len(main_tasks)
          /\ Position' = 1 .. (Len(main_tasks) - 1)
          /\ Len(main_tasks) \in Nat \ {0}
          /\ main_tasks[1].type = type
          /\ \A i \in Position' : main_tasks'[i] = main_tasks[i + 1]
      BY <1>14, TaskTaken DEF TypeOK, Tasks, Position
    <3>2. QED
      BY <3>1
  <2>2. SignBeforeReply'
    <3>1. \A i \in Position' :
           /\ main_tasks'[i].type = "sign" =>
                /\ i + 1 \in Position'
                /\ main_tasks'[i + 1].type = "stored"
                /\ main_tasks'[i + 1].file = main_tasks'[i].file
           /\ main_tasks'[i].type = "stored" =>
                IF i = 1
                THEN type = "sign" /\ main_tasks'[i].file = f
                ELSE /\ main_tasks'[i - 1].type = "sign"
                     /\ main_tasks'[i - 1].file = main_tasks'[i].file
      BY <1>14, TakenQueue DEF QueueInv
    <3>2. type = "sign" => f \in prefs'.signatures
      BY <1>14
    <3>3. QED
      BY <3>1, <3>2 DEF SignBeforeReply, Position
  <2>3. \A i \in Position' : main_tasks'[i].type \in Reply =>
          /\ main_tasks'[i].file \in awaiting'
          /\ \A j \in Position' :
               /\ main_tasks'[j].type \in Reply
               /\ main_tasks'[j].file = main_tasks'[i].file
               => i = j
    <3>1. \A i \in Position' : main_tasks'[i].type \in Reply =>
            /\ main_tasks'[i].file \in awaiting
            /\ type \in Reply => main_tasks'[i].file # f
            /\ \A j \in Position' :
                 /\ main_tasks'[j].type \in Reply
                 /\ main_tasks'[j].file = main_tasks'[i].file
                 => i = j
      BY <1>14, TakenReplies DEF QueueInv
    <3>2. awaiting' = awaiting \/ (type \in Reply /\ awaiting' = awaiting \ {f})
      BY <1>14 DEF Reply
    <3>3. QED
      BY <3>1, <3>2
  <2>4. type \in Reply => f \in awaiting
    BY <1>14, <2>1 DEF QueueInv, RepliesOnce
  <2>5. /\ awaiting' \subseteq awaiting
        /\ governed' \cup awaiting' \subseteq governed \cup awaiting
        /\ awaiting' \cap governed' = {}
    <3>1. CASE type \in Reply
      BY <1>14, <2>4, <3>1 DEF QueueInv
    <3>2. CASE type \in {"sign", "unsign"}
      BY <1>14, <3>2 DEF QueueInv
    <3>3. QED
      BY <3>1, <3>2 DEF Reply
  <2>6. \A i \in Position' : main_tasks'[i].type = "unsign" =>
          main_tasks'[i].file \in used' \ (governed' \cup awaiting')
    BY <1>14, <2>1, <2>5 DEF QueueInv
  <2>7. \A w \in writes' : w.live =>
          /\ w.file \in awaiting'
          /\ \A i \in Position' : main_tasks'[i].type \in Reply =>
               main_tasks'[i].file # w.file
    <3>1. \A w \in writes : w.live =>
            /\ w.file \in awaiting
            /\ \A i \in Position : main_tasks[i].type \in Reply =>
                 main_tasks[i].file # w.file
      BY DEF QueueInv
    <3>2. type \in Reply => \A w \in writes : w.live => w.file # f
      BY <1>14, <2>1, <3>1
    <3>3. awaiting' = awaiting \/ (type \in Reply /\ awaiting' = awaiting \ {f})
      BY <1>14 DEF Reply
    <3>4. writes' = writes
      BY <1>14
    <3>5. QED
      BY <2>1, <3>1, <3>2, <3>3, <3>4
  <2>8. QueueInv'
    BY <1>14, <2>2, <2>3, <2>5, <2>6, <2>7, QueueNext DEF QueueInv
  <2>9. governed' \subseteq prefs'.signatures
    <3>1. CASE type = "unsign"
      <4>1. f \notin governed
        BY <1>14, <2>1, <3>1 DEF QueueInv
      <4>2. QED
        BY <1>14, <3>1, <4>1
    <3>2. CASE type # "unsign"
      BY <1>14, <3>2 DEF Reply
    <3>3. QED
      BY <3>1, <3>2
  <2>10. QED
    BY <2>8, <2>9
<1>15. NextTask("stored") => main_tasks[1].file \in prefs.signatures
  <2>1. NextTask("stored") => 1 \in Position /\ main_tasks[1].type = "stored"
    BY TaskTaken DEF TypeOK, Tasks, Position
  <2>2. QED
    BY <2>1 DEF QueueInv, SignBeforeReply
<1>16. \A type : NextTask(type) => Head(main_tasks).file = main_tasks[1].file
  BY TaskTaken DEF TypeOK, Tasks
<1>17. CASE StoreTrustedSignatureOnMainThread
  <2>1. /\ NextTask("sign") /\ UNCHANGED <<used, writes, awaiting, governed>>
        /\ prefs'.signatures = prefs.signatures \cup {main_tasks[1].file}
    BY <1>16, <1>17 DEF StoreTrustedSignatureOnMainThread, TypeOK, Prefs
  <2>2. QED
    BY <1>14, <2>1 DEF Reply
<1>18. CASE RemoveStoredSignatureInMainThread
  <2>1. /\ NextTask("unsign") /\ UNCHANGED <<used, writes, awaiting, governed>>
        /\ prefs'.signatures = prefs.signatures \ {main_tasks[1].file}
    BY <1>16, <1>18 DEF RemoveStoredSignatureInMainThread, TypeOK, Prefs
  <2>2. QED
    BY <1>14, <2>1 DEF Reply
<1>19. CASE SubscriptionStored
  <2>1. /\ NextTask("stored") /\ UNCHANGED <<used, writes, prefs>>
        /\ awaiting' = awaiting \ {main_tasks[1].file}
        /\ governed' = governed \cup {main_tasks[1].file}
    BY <1>16, <1>19 DEF SubscriptionStored
  <2>2. QED
    BY <1>14, <1>15, <2>1 DEF Reply
<1>20. CASE StoreError
  <2>1. /\ NextTask("failed") /\ UNCHANGED <<used, writes, prefs, governed>>
        /\ awaiting' = awaiting \ {main_tasks[1].file}
    BY <1>16, <1>20 DEF StoreError
  <2>2. QED
    BY <1>14, <2>1 DEF Reply
<1>21. ASSUME NEW f \in File, RemoveSubscription(f)
       PROVE  Goal
  <2> DEFINE n == Len(main_tasks)
             t == [type |-> "unsign", file |-> f]
  <2>1. /\ UNCHANGED <<awaiting, writes, used, prefs>>
        /\ f \in governed /\ governed' = governed \ {f}
    BY <1>21 DEF RemoveSubscription
  <2>2. main_tasks' = main_tasks \o <<t>>
    BY <1>21, RemovalPosted
  <2>3. t \in Tasks /\ t.type = "unsign" /\ t.file = f
    BY DEF Tasks, FileTask
  <2> HIDE DEF t
  <2>4. SignBeforeReply'
    BY <2>1, <2>2, <2>3, PostedOne DEF QueueInv
  <2>5. /\ n \in Nat /\ Position = 1 .. n /\ Position' = 1 .. (n + 1)
        /\ \A i \in Position : main_tasks'[i] = main_tasks[i]
        /\ main_tasks'[n + 1] = t
    BY <2>2, <2>3, TasksPosted DEF TypeOK, Tasks, Position
  <2> HIDE DEF n
  <2>6. \A i \in Position' : \/ i \in Position /\ main_tasks'[i] = main_tasks[i]
                             \/ main_tasks'[i] = t
    BY <2>5
  <2>7. /\ t.type \notin Reply /\ f \in used /\ f \notin awaiting
    BY <2>1, <2>3 DEF Reply, ReadInv, IntactInv, Intact, QueueInv
  <2>8. \A i \in Position' : main_tasks'[i].type \in Reply =>
          i \in Position /\ main_tasks'[i] = main_tasks[i]
    BY <2>6, <2>7
  <2>9. QueueInv'
    BY <2>1, <2>3, <2>4, <2>6, <2>7, <2>8, QueueNext DEF QueueInv, RepliesOnce
  <2>10. QED
    BY <2>1, <2>9
<1>22. CASE \/ UNCHANGED vars \/ SavePrefs
            \/ \E f \in File : DestroyMemoryMappedFile(f)
            \/ \E scan \in loads, f \in File : ReadFile(scan, f)
            \/ \E scan \in loads : ~ scan.live /\ FinishScan(scan)
  <2>1. UNCHANGED <<main_tasks, awaiting, governed, used, prefs, writes>>
    BY <1>22 DEF vars, SavePrefs, DestroyMemoryMappedFile, ReadFile, FinishScan,
      Post
  <2>2. QED
    BY <1>1, <1>2, <2>1
<1>23. ASSUME NEW scan \in loads, scan.live, FinishScan(scan)
       PROVE  Goal
  <2> DEFINE t == [type |-> "loaded", files |-> scan.result]
  <2>1. /\ phase = "loading" /\ main_tasks = <<>>
        /\ governed = {} /\ awaiting = {} /\ \A w \in writes : ~ w.live
        /\ UNCHANGED <<governed, awaiting, used, prefs, writes>>
    BY <1>23 DEF FinishScan, TypeOK, PhaseInv
  <2>2. main_tasks' = <<t>>
    BY <1>23, <2>1 DEF FinishScan, Post
  <2>3. t.type = "loaded"
    OBVIOUS
  <2> HIDE DEF t
  <2>4. \A i \in Position' : main_tasks'[i].type = "loaded"
    BY <2>2, <2>3 DEF Position
  <2>5. SignBeforeReply'
    BY <2>4 DEF SignBeforeReply, Position
  <2>6. QueueInv'
    BY <2>1, <2>4, <2>5, QueueNext DEF QueueInv, Reply
  <2>7. QED
    BY <2>1, <2>6
<1>24. QED
  BY <1>4, <1>5, <1>6, <1>7, <1>8, <1>9, <1>10, <1>12, <1>13, <1>17, <1>18,
    <1>19, <1>20, <1>21, <1>22, <1>23 DEF Next, StorageStep

LEMMA SignedAlways == Spec => []SignedInv
<1>1. TypeOK /\ ReadInv /\ SignedInv /\ [Next]_vars => SignedInv'
  BY PhaseStep, QueueStep DEF SignedInv
<1>2. QED
  BY <1>1, SignedInit, TypeCorrect, ReadAlways, PTL DEF Spec

\* A subscription is handed out only when its signature is in the
\* preferences, whatever overtakes what (StoreTrustedSignatureOnMainThread is
\* posted before the reply of WriteSubscription), also after a storage was
\* destroyed with tasks pending.
THEOREM SignedWhenGovernedHolds == Spec => []SignedWhenGoverned
<1>1. SignedInv => SignedWhenGoverned
  BY DEF SignedInv
<1>2. QED
  BY <1>1, SignedAlways, PTL

(***************************************************************************)
(* Storages that end with the browser.                                     *)
(***************************************************************************)

\* No configuration is disabled, so no storage is destroyed before.
Undisturbed == "disable" \notin Faults

LEMMA OutlivesInit == Init => NothingOutlives
BY DEF Init, NothingOutlives

\* Nothing of a storage goes on after it.
LEMMA OutlivesStep ==
  /\ Undisturbed /\ TypeOK /\ ReadInv /\ SignedInv
  /\ NothingOutlives /\ [Next]_vars
  => NothingOutlives'
<1> SUFFICES ASSUME Undisturbed, TypeOK, ReadInv, SignedInv, NothingOutlives,
                    [Next]_vars
             PROVE  NothingOutlives'
  OBVIOUS
<1> USE DEF NothingOutlives
<1>1. ASSUME UNCHANGED <<phase, doomed, governed, awaiting, used>>,
             \A w \in writes' : w.live, \A scan \in loads' : scan.live
      PROVE  NothingOutlives'
  BY <1>1
<1>2. CASE LoadSubscriptions
  <2>1. \A scan \in loads' : scan.live
    BY <1>2 DEF LoadSubscriptions
  <2>2. phase = "off" /\ UNCHANGED <<doomed, governed, awaiting, used, writes>>
    BY <1>2 DEF LoadSubscriptions
  <2>3. QED
    BY <2>1, <2>2
<1>3. ASSUME NEW scan \in loads, NEW f \in File, ReadFile(scan, f)
      PROVE  NothingOutlives'
  <2>1. \A other \in loads' : other.live
    BY <1>3 DEF ReadFile, TypeOK, DirectoryScan
  <2>2. UNCHANGED <<phase, doomed, governed, awaiting, used, writes>>
    BY <1>3 DEF ReadFile
  <2>3. QED
    BY <1>1, <2>1, <2>2
<1>4. ASSUME NEW scan \in loads, FinishScan(scan)
      PROVE  NothingOutlives'
  BY <1>1, <1>4 DEF FinishScan
<1>5. CASE LoadComplete
  <2>1. phase = "loading"
    BY <1>5, TaskTaken DEF LoadComplete, TypeOK, Tasks, SignedInv, PhaseInv,
      Position, NextTask
  <2>2. doomed' = {} /\ phase' = "ready" /\ UNCHANGED <<loads, writes>>
    BY <1>5, <2>1 DEF LoadComplete
  <2>3. QED
    BY <2>2
<1>6. ASSUME NEW f \in File, StoreSubscription(f)
      PROVE  NothingOutlives'
  <2>1. \A w \in writes' : w.live
    BY <1>6 DEF StoreSubscription
  <2>2. /\ UNCHANGED <<phase, doomed, governed, loads>>
        /\ used' = used \cup {f} /\ awaiting' = awaiting \cup {f} /\ f \notin used
    BY <1>6 DEF StoreSubscription
  <2>3. QED
    BY <2>1, <2>2
<1>7. ASSUME NEW w \in writes, BeginWrite(w)
      PROVE  NothingOutlives'
  <2>1. \A v \in writes' : v.live
    BY <1>7 DEF BeginWrite, TypeOK, Write
  <2>2. \A scan \in loads' : scan.live
    BY <1>7 DEF BeginWrite, TypeOK, DirectoryScan
  <2>3. UNCHANGED <<phase, doomed, governed, awaiting, used>>
    BY <1>7 DEF BeginWrite
  <2>4. QED
    BY <1>1, <2>1, <2>2, <2>3
<1>8. ASSUME NEW w \in writes, EndWrite(w) \/ FailWrite(w)
      PROVE  NothingOutlives'
  BY <1>1, <1>8 DEF EndWrite, FailWrite
<1>9. CASE \/ StoreTrustedSignatureOnMainThread \/ StoreError
           \/ RemoveStoredSignatureInMainThread
  BY <1>9 DEF StoreTrustedSignatureOnMainThread, StoreError,
    RemoveStoredSignatureInMainThread
<1>10. CASE SubscriptionStored
  <2>1. Head(main_tasks).file \in awaiting
    BY <1>10, TaskTaken DEF SubscriptionStored, TypeOK, Tasks, SignedInv,
      QueueInv, RepliesOnce, Reply, Position
  <2>2. QED
    BY <1>10, <2>1 DEF SubscriptionStored
<1>11. ASSUME NEW f \in File, RemoveSubscription(f)
       PROVE  NothingOutlives'
  <2>1. phase = "ready" /\ f \in used /\ f \notin awaiting
    BY <1>11 DEF RemoveSubscription, TypeOK, SignedInv, PhaseInv, QueueInv,
      ReadInv, IntactInv, Intact
  <2>2. /\ UNCHANGED <<phase, awaiting, used, writes, loads>>
        /\ governed' = governed \ {f} /\ doomed' \subseteq doomed \cup {f}
    BY <1>11 DEF RemoveSubscription
  <2>3. QED
    BY <2>1, <2>2
<1>12. ASSUME NEW f \in File, DestroyMemoryMappedFile(f)
       PROVE  NothingOutlives'
  BY <1>12 DEF DestroyMemoryMappedFile
<1>13. CASE Quit \/ Crash
  BY <1>13 DEF Quit, Crash, EndProcess
<1>14. CASE UNCHANGED vars \/ SavePrefs
  BY <1>1, <1>14 DEF vars, SavePrefs
<1>15. ~ Disable
  BY DEF Disable, Undisturbed
<1>16. QED
  BY <1>2, <1>3, <1>4, <1>5, <1>6, <1>7, <1>8, <1>9, <1>10, <1>11, <1>12,
    <1>13, <1>14, <1>15 DEF Next, StorageStep

\* What follows for each phase.
LEMMA Phases ==
  ASSUME TypeOK, SignedInv, NothingOutlives
  PROVE  /\ phase = "off" => main_tasks = <<>> /\ loads = {}
         /\ phase = "loading" =>
              \/ main_tasks = <<>> /\ \A s, t \in loads : s = t
              \/ /\ loads = {} /\ Len(main_tasks) = 1
                 /\ main_tasks[1].type = "loaded"
         /\ phase = "ready" => /\ loads = {}
                               /\ \A i \in Position : main_tasks[i].type # "loaded"
         /\ phase # "ready" => /\ governed = {} /\ awaiting = {}
                               /\ writes = {} /\ doomed = {}
         /\ phase \in {"off", "loading", "ready"}
BY DEF TypeOK, SignedInv, PhaseInv, NothingOutlives

\* Files of the tasks that store are awaited.
LEMMA StoringAwaited ==
  ASSUME SignedInv, NEW i \in Position,
         main_tasks[i].type \in {"sign", "stored", "failed"}
  PROVE  main_tasks[i].file \in awaiting
<1>1. CASE main_tasks[i].type = "sign"
  <2>1. /\ i + 1 \in Position /\ main_tasks[i + 1].type = "stored"
        /\ main_tasks[i + 1].file = main_tasks[i].file
    BY <1>1 DEF SignedInv, QueueInv, SignBeforeReply
  <2>2. QED
    BY <2>1 DEF SignedInv, QueueInv, RepliesOnce, Reply
<1>2. CASE main_tasks[i].type \in Reply
  BY <1>2 DEF SignedInv, QueueInv, RepliesOnce
<1>3. QED
  BY <1>1, <1>2 DEF Reply

LEMMA CompleteInit == Init => CompleteInv /\ LoadsAllInv
BY DEF Init, CompleteInv, LoadsAllInv, Position

\* CompleteTask in the state after a step.
CompleteTaskAfter(t) ==
  /\ t.type = "loaded" =>
       /\ \A f \in t.files : disk'[f] = schema'
       /\ \A f \in File : disk'[f] # "absent" => f \in prefs'.signatures
  /\ t.type \in {"sign", "stored"} => disk'[t.file] = schema'
  /\ t.type = "failed" => /\ disk'[t.file] \in {"absent", "partial"}
                          /\ \A w \in writes' : w.file # t.file

LEMMA CompleteNext ==
  ASSUME \A f \in governed' : disk'[f] = schema',
         \A scan \in loads' :
           /\ \A f \in scan.result : disk'[f] = schema' /\ f \notin scan.unread
           /\ \A f \in File : disk'[f] # "absent" =>
                f \in scan.unread \cup prefs'.signatures,
         \A i \in Position' : CompleteTaskAfter(main_tasks'[i])
  PROVE  CompleteInv'
BY DEF CompleteInv, CompleteTask, CompleteTaskAfter, Complete, NoWriteOf,
  Position

\* Files that nobody writes or deletes stay as they are.
Steady ==
  /\ schema' = schema
  /\ \A f \in used : NoWriteOf(f) /\ f \notin doomed =>
       disk'[f] = disk[f] /\ \A w \in writes' : w.file # f

\* What is governed or stored is on disk, and a load reclaims the rest.
LEMMA CompleteStep ==
  /\ Undisturbed /\ TypeOK /\ ReadInv /\ SignedInv
  /\ NothingOutlives /\ CompleteInv /\ [Next]_vars
  => CompleteInv'
<1> SUFFICES ASSUME Undisturbed, TypeOK, ReadInv, SignedInv, NothingOutlives,
                    CompleteInv, [Next]_vars
             PROVE  CompleteInv'
  OBVIOUS
<1>1. ASSUME phase = "ready", Steady
      PROVE  /\ loads = {}
             /\ \A f \in governed : disk'[f] = schema'
             /\ \A t : OldTask(t) => CompleteTaskAfter(t)
  <2>1. loads = {} /\ \A i \in Position : main_tasks[i].type # "loaded"
    BY <1>1, Phases
  <2>2. \A f \in governed : disk'[f] = schema'
    <3> SUFFICES ASSUME NEW f \in governed PROVE disk'[f] = schema'
      OBVIOUS
    <3>1. f \in used /\ NoWriteOf(f) /\ f \notin doomed /\ disk[f] = schema
      BY DEF ReadInv, IntactInv, Intact, NothingOutlives, CompleteInv, Complete
    <3>2. QED
      BY <1>1, <3>1 DEF Steady
  <2>3. \A i \in Position : CompleteTaskAfter(main_tasks[i])
    <3> SUFFICES ASSUME NEW i \in Position
                 PROVE  CompleteTaskAfter(main_tasks[i])
      OBVIOUS
    <3> DEFINE f == main_tasks[i].file
    <3>1. main_tasks[i].type \in {"sign", "stored", "failed"} =>
            f \in used /\ f \notin doomed
      BY StoringAwaited DEF SignedInv, QueueInv, NothingOutlives
    <3>2. CASE main_tasks[i].type \in {"sign", "stored"}
      <4>1. NoWriteOf(f) /\ disk[f] = schema
        BY <3>2 DEF ReadInv, IntactInv, IntactTask, Intact, CompleteInv,
          CompleteTask, Complete
      <4>2. QED
        BY <1>1, <3>1, <3>2, <4>1 DEF Steady, CompleteTaskAfter
    <3>3. CASE main_tasks[i].type = "failed"
      <4>1. NoWriteOf(f) /\ disk[f] \in {"absent", "partial"}
        BY <3>3 DEF CompleteInv, CompleteTask
      <4>2. QED
        BY <1>1, <3>1, <3>3, <4>1 DEF Steady, CompleteTaskAfter
    <3>4. QED
      BY <2>1, <3>2, <3>3 DEF CompleteTaskAfter
  <2>4. QED
    BY <2>1, <2>2, <2>3 DEF OldTask
<1>2. ASSUME phase = "ready", Steady, loads' = loads,
             \A f \in governed' : f \in governed \/ disk'[f] = schema',
             \A i \in Position' : OldTask(main_tasks'[i])
                                  \/ CompleteTaskAfter(main_tasks'[i])
      PROVE  CompleteInv'
  BY <1>1, <1>2, CompleteNext
<1>3. main_tasks' = main_tasks => \A i \in Position' : OldTask(main_tasks'[i])
  BY DEF OldTask, Position
<1>4. ASSUME NEW f \in File, StoreSubscription(f)
      PROVE  CompleteInv'
  <2>1. phase = "ready" /\ UNCHANGED <<loads, governed, main_tasks>>
    BY <1>4 DEF StoreSubscription, IsInitialized
  <2>2. \A w \in writes' : w \in writes \/ w.file = f
    BY <1>4 DEF StoreSubscription
  <2>3. Steady
    BY <1>4, <2>2 DEF StoreSubscription, Steady, NoWriteOf, browser
  <2>4. QED
    BY <1>2, <1>3, <2>1, <2>3
<1>5. ASSUME NEW w \in writes
      PROVE  phase = "ready" /\ loads = {} /\ w.live
  BY Phases DEF NothingOutlives
<1>6. ASSUME NEW w \in writes, BeginWrite(w) \/ EndWrite(w) \/ FailWrite(w)
      PROVE  Steady
  <2>1. \A v \in writes' : \E old \in writes : old.file = v.file
    BY <1>6 DEF BeginWrite, EndWrite, FailWrite, TypeOK, Write
  <2>2. \A f \in used : f # w.file => disk'[f] = disk[f]
    BY <1>6 DEF BeginWrite, EndWrite, FailWrite, TypeOK
  <2>3. schema' = schema
    BY <1>6 DEF BeginWrite, EndWrite, FailWrite, browser
  <2>4. QED
    BY <2>1, <2>2, <2>3 DEF Steady, NoWriteOf
<1>7. ASSUME NEW w \in writes, BeginWrite(w)
      PROVE  CompleteInv'
  <2>1. UNCHANGED <<governed, main_tasks>> /\ loads' = loads
    BY <1>5, <1>7 DEF BeginWrite
  <2>2. QED
    BY <1>2, <1>3, <1>5, <1>6, <1>7, <2>1
<1>8. ASSUME NEW w \in writes, EndWrite(w)
      PROVE  CompleteInv'
  <2>1. /\ UNCHANGED <<governed, loads>>
        /\ main_tasks' = main_tasks \o SignatureThenReply(w.file)
    BY <1>5, <1>8 DEF EndWrite, Post
  <2>2. disk'[w.file] = schema'
    BY <1>8 DEF EndWrite, TypeOK, Write, browser
  <2>3. \A k \in 1 .. Len(SignatureThenReply(w.file)) :
          CompleteTaskAfter(SignatureThenReply(w.file)[k])
    BY <2>2 DEF SignatureThenReply, CompleteTaskAfter
  <2>4. \A i \in Position' : OldTask(main_tasks'[i])
                             \/ CompleteTaskAfter(main_tasks'[i])
    BY <2>1, <2>3, MessagesTyped, PostedFrom
  <2>5. QED
    BY <1>2, <1>5, <1>6, <1>8, <2>1, <2>4
<1>9. ASSUME NEW w \in writes, FailWrite(w)
      PROVE  CompleteInv'
  <2>1. /\ UNCHANGED <<governed, loads, disk>> /\ writes' = writes \ {w}
        /\ main_tasks' = main_tasks \o Failure(w.file)
    BY <1>5, <1>9 DEF FailWrite, Post
  <2>2. disk'[w.file] \in {"absent", "partial"} /\ \A v \in writes' : v.file # w.file
    BY <2>1 DEF ReadInv, WritesInv
  <2>3. \A k \in 1 .. Len(Failure(w.file)) : CompleteTaskAfter(Failure(w.file)[k])
    BY <2>2 DEF Failure, CompleteTaskAfter
  <2>4. \A i \in Position' : OldTask(main_tasks'[i])
                             \/ CompleteTaskAfter(main_tasks'[i])
    BY <2>1, <2>3, MessagesTyped, PostedFrom
  <2>5. QED
    BY <1>2, <1>5, <1>6, <1>9, <2>1, <2>4
<1>10. CASE \/ StoreTrustedSignatureOnMainThread \/ SubscriptionStored
            \/ StoreError \/ RemoveStoredSignatureInMainThread
  <2>1. PICK type \in {"sign", "stored", "failed", "unsign"} :
          NextTask(type) /\ (SubscriptionStored => type = "stored")
    BY <1>10 DEF StoreTrustedSignatureOnMainThread, SubscriptionStored,
      StoreError, RemoveStoredSignatureInMainThread
  <2>2. main_tasks # <<>> /\ main_tasks[1].type = type /\ 1 \in Position
    BY <2>1, TaskTaken DEF TypeOK, Tasks, Position, NextTask
  <2>3. phase = "ready"
    BY <2>1, <2>2, Phases
  <2>4. UNCHANGED <<disk, schema, writes, loads>>
    BY <1>10 DEF StoreTrustedSignatureOnMainThread, SubscriptionStored,
      StoreError, RemoveStoredSignatureInMainThread, browser
  <2>5. Steady
    BY <2>4 DEF Steady, NoWriteOf
  <2>6. \A f \in governed' : f \in governed \/ disk'[f] = schema'
    <3>1. CASE SubscriptionStored
      <4>1. governed' = governed \cup {main_tasks[1].file}
        BY <2>1, <3>1, TaskTaken DEF SubscriptionStored, TypeOK, Tasks
      <4>2. disk[main_tasks[1].file] = schema
        BY <2>1, <2>2, <3>1 DEF CompleteInv, CompleteTask, Complete
      <4>3. QED
        BY <2>4, <4>1, <4>2
    <3>2. CASE ~ SubscriptionStored
      BY <1>10, <3>2 DEF StoreTrustedSignatureOnMainThread, StoreError,
        RemoveStoredSignatureInMainThread
    <3>3. QED
      BY <3>1, <3>2
  <2>7. QED
    BY <1>2, <2>1, <2>3, <2>4, <2>5, <2>6, TakenFrom
<1>11. ASSUME NEW f \in File, RemoveSubscription(f)
       PROVE  CompleteInv'
  <2> DEFINE t == [type |-> "unsign", file |-> f]
  <2>1. /\ phase = "ready" /\ UNCHANGED <<disk, schema, writes, loads>>
        /\ governed' \subseteq governed
    BY <1>11, Phases DEF RemoveSubscription, browser
  <2>2. Steady
    BY <2>1 DEF Steady, NoWriteOf
  <2>3. main_tasks' = main_tasks \o <<t>>
    BY <1>11, RemovalPosted
  <2>4. /\ <<t>> \in Seq(Tasks) /\ \A k \in 1 .. Len(<<t>>) : <<t>>[k] = t
        /\ CompleteTaskAfter(t)
    BY MessagesTyped DEF CompleteTaskAfter
  <2> HIDE DEF t
  <2>5. QED
    BY <1>2, <2>1, <2>2, <2>3, <2>4, PostedFrom
<1>12. ASSUME NEW f \in File, DestroyMemoryMappedFile(f)
       PROVE  CompleteInv'
  <2>1. phase = "ready" /\ UNCHANGED <<governed, loads, main_tasks>>
    BY <1>12, Phases DEF DestroyMemoryMappedFile
  <2>2. Steady
    BY <1>12 DEF DestroyMemoryMappedFile, Steady, NoWriteOf, TypeOK, browser
  <2>3. QED
    BY <1>2, <1>3, <2>1, <2>2
<1>13. CASE LoadSubscriptions
  <2>1. /\ governed = {} /\ main_tasks = <<>> /\ loads = {}
        /\ UNCHANGED <<governed, main_tasks, disk>>
    BY <1>13, Phases DEF LoadSubscriptions
  <2> DEFINE new == [live |-> TRUE, trusted |-> prefs'.signatures,
                     unread |-> {f \in File : disk[f] # "absent"}, result |-> {}]
  <2>2. loads' = loads \cup {new}
    BY <1>13 DEF LoadSubscriptions
  <2>3. new.unread = {f \in File : disk[f] # "absent"} /\ new.result = {}
    OBVIOUS
  <2> HIDE DEF new
  <2>4. loads' = {new}
    BY <2>1, <2>2
  <2>5. Position' = {}
    BY <2>1 DEF Position
  <2>6. QED
    BY <2>1, <2>3, <2>4, <2>5, CompleteNext
<1>14. ASSUME NEW scan \in loads
       PROVE  /\ phase = "loading" /\ main_tasks = <<>> /\ governed = {}
              /\ loads = {scan} /\ scan.live /\ scan.trusted = prefs.signatures
  <2>1. phase = "loading" /\ main_tasks = <<>> /\ loads = {scan} /\ governed = {}
    BY Phases DEF SignedInv, PhaseInv, NothingOutlives
  <2>2. scan.live /\ scan.trusted = prefs.signatures
    BY <2>1 DEF SignedInv, PhaseInv, NothingOutlives
  <2>3. QED
    BY <2>1, <2>2
<1>15. ASSUME NEW scan \in loads, NEW f \in File, ReadFile(scan, f)
       PROVE  CompleteInv'
  <2> DEFINE next(taken) ==
        [scan EXCEPT !.unread = @ \ {f}, !.result = @ \cup taken]
  <2>1. \A taken : /\ next(taken).unread = scan.unread \ {f}
                   /\ next(taken).result = scan.result \cup taken
    BY DEF TypeOK, DirectoryScan
  <2>2. /\ f \in scan.unread
        /\ UNCHANGED <<governed, main_tasks, prefs, schema>>
    BY <1>15 DEF ReadFile, browser
  <2>3. \/ loads' = {next({})} /\ disk[f] = "absent" /\ disk' = disk
        \/ /\ loads' \in {{next({f})}, {next({})}} /\ disk' = disk
           /\ f \in scan.trusted /\ disk[f] \in Schema
        \/ loads' = {next({})} /\ disk' = [disk EXCEPT ![f] = "absent"]
    BY <1>14, <1>15 DEF ReadFile, DeleteFile, IsSignatureValid
  <2>4. \A g \in File : disk[g] # "absent" => g \in scan.unread \cup prefs.signatures
    BY DEF CompleteInv
  <2>5. \A g \in scan.result : disk[g] = schema /\ g \notin scan.unread
    BY DEF CompleteInv, Complete
  <2>6. f \in scan.trusted /\ disk[f] \in Schema => disk[f] = schema
    BY StorageAssumption DEF ReadInv, IntactInv, Intact
  <2>7. /\ \A g \in File : g # f => disk'[g] = disk[g]
        /\ disk'[f] \in {disk[f], "absent"}
    BY <2>3 DEF TypeOK
  <2>8. \A g \in scan.result : g \in File
    BY DEF TypeOK, DirectoryScan
  <2> HIDE DEF next
  <2>9. \A other \in loads' :
          \A g \in other.result : disk'[g] = schema' /\ g \notin other.unread
    BY <2>1, <2>2, <2>3, <2>5, <2>6, <2>7, <2>8
  <2>10. \A other \in loads' : \A g \in File : disk'[g] # "absent" =>
           g \in other.unread \cup prefs'.signatures
    <3>1. disk'[f] # "absent" => f \in prefs'.signatures
      BY <1>14, <2>2, <2>3 DEF TypeOK
    <3>2. \A other \in loads' : other.unread = scan.unread \ {f}
      BY <2>1, <2>3
    <3>3. QED
      BY <2>2, <2>4, <2>7, <3>1, <3>2
  <2>11. Position' = {} /\ governed' = {}
    BY <1>14, <2>2 DEF Position
  <2>12. QED
    BY <2>9, <2>10, <2>11, CompleteNext
<1>16. ASSUME NEW scan \in loads, FinishScan(scan)
       PROVE  CompleteInv'
  <2> DEFINE t == [type |-> "loaded", files |-> scan.result]
  <2>1. /\ UNCHANGED <<governed, disk, schema, prefs>>
        /\ loads' = {} /\ scan.unread = {}
    BY <1>14, <1>16 DEF FinishScan, browser
  <2>2. main_tasks' = <<t>>
    <3>1. scan.live /\ main_tasks = <<>>
      BY <1>14
    <3>2. main_tasks' = main_tasks \o <<t>>
      BY <1>16, <3>1 DEF FinishScan, Post
    <3>3. QED
      BY <3>1, <3>2
  <2>3. CompleteTaskAfter(t)
    BY <2>1 DEF CompleteTaskAfter, CompleteInv, Complete
  <2> HIDE DEF t
  <2>4. \A i \in Position' : main_tasks'[i] = t
    BY <2>2 DEF Position
  <2>5. QED
    BY <1>14, <2>1, <2>3, <2>4, CompleteNext
<1>17. CASE LoadComplete
  <2>1. /\ 1 \in Position /\ main_tasks[1].type = "loaded"
        /\ Head(main_tasks) = main_tasks[1] /\ main_tasks # <<>>
    BY <1>17, TaskTaken DEF LoadComplete, TypeOK, Tasks, Position, NextTask
  <2>2. Len(main_tasks) = 1 /\ loads = {} /\ governed = {}
    BY <2>1, Phases
  <2>3. UNCHANGED <<disk, schema, loads>> /\ governed' = main_tasks[1].files
    BY <1>17, <2>1, <2>2 DEF LoadComplete, Entered, browser
  <2>4. \A f \in governed' : disk'[f] = schema'
    BY <2>1, <2>3 DEF CompleteInv, CompleteTask, Complete
  <2>5. Position' = {}
    <3>1. Len(main_tasks') = 0 /\ Position' = 1 .. Len(main_tasks')
      BY <1>17, <2>2, TaskTaken DEF LoadComplete, TypeOK, Tasks, Position
    <3>2. QED
      BY <3>1
  <2>6. QED
    BY <2>2, <2>3, <2>4, <2>5, CompleteNext
<1>18. CASE Quit \/ Crash
  <2>1. main_tasks' = <<>> /\ governed' = {} /\ loads' = {}
    BY <1>18 DEF Quit, Crash, EndProcess
  <2>2. QED
    BY <2>1, CompleteNext DEF Position
<1>19. CASE UNCHANGED vars \/ SavePrefs
  <2>1. UNCHANGED <<main_tasks, governed, loads, disk, schema, prefs, writes>>
    BY <1>19 DEF vars, SavePrefs, browser
  <2>2. QED
    BY <2>1 DEF CompleteInv, CompleteTask, Complete, NoWriteOf, Position
<1>20. ~ Disable
  BY DEF Disable, Undisturbed
<1>21. QED
  BY <1>4, <1>7, <1>8, <1>9, <1>10, <1>11, <1>12, <1>13, <1>15, <1>16, <1>17,
    <1>18, <1>19, <1>20 DEF Next, StorageStep

\* All that follows of the state while no storage is destroyed.
StorageInv == TypeOK /\ ReadInv /\ SignedInv /\ NothingOutlives /\ CompleteInv

LEMMA StorageAlways == ASSUME Undisturbed PROVE Spec => []StorageInv
<1>1. Init => StorageInv
  BY TypeInit, ReadInit, SignedInit, OutlivesInit, CompleteInit DEF StorageInv
<1>2. StorageInv /\ [Next]_vars => StorageInv'
  BY TypeStep, WritesStep, SignaturesStep, IntactStep, PhaseStep, QueueStep,
    OutlivesStep, CompleteStep DEF StorageInv, ReadInv, SignedInv
<1>3. QED
  BY <1>1, <1>2, PTL DEF Spec

\* What is governed is on disk as long as no configuration is disabled: only
\* the scan of a storage that no longer exists takes a file away from its
\* successor.
THEOREM GovernedOnDiskHolds == ASSUME Undisturbed PROVE Spec => []GovernedOnDisk
<1>1. StorageInv => GovernedOnDisk
  BY StorageAssumption DEF StorageInv, TypeOK, CompleteInv, Complete,
    GovernedOnDisk
<1>2. QED
  BY <1>1, StorageAlways, PTL

\* After a load only files are left that are signed
\* (ReadSubscriptionsFromDirectory deletes the others), whatever crashes and
\* removals have left there.
THEOREM LoadReclaimsHolds == ASSUME Undisturbed PROVE Spec => LoadReclaims
<1>1. StorageInv /\ [Next]_vars
        => [phase = "loading" /\ phase' = "ready" =>
              \A f \in File : disk[f] # "absent" => f \in prefs.signatures]_vars
  <2> SUFFICES ASSUME StorageInv, [Next]_vars, phase = "loading", phase' = "ready"
               PROVE  \A f \in File : disk[f] # "absent" => f \in prefs.signatures
    OBVIOUS
  <2>1. LoadComplete
    <3>1. \/ LoadComplete
          \/ UNCHANGED phase
          \/ phase' = "loading"
          \/ phase' = "off"
      BY DEF Next, StorageStep, vars, LoadSubscriptions, ReadFile, FinishScan,
        StoreSubscription, BeginWrite, EndWrite, FailWrite,
        StoreTrustedSignatureOnMainThread, SubscriptionStored, StoreError,
        RemoveSubscription, RemoveStoredSignatureInMainThread,
        DestroyMemoryMappedFile, SavePrefs, Disable, Quit, Crash, EndProcess
    <3>2. QED
      BY <3>1
  <2>2. 1 \in Position /\ main_tasks[1].type = "loaded"
    BY <2>1, TaskTaken DEF StorageInv, LoadComplete, TypeOK, Tasks, Position
  <2>3. QED
    BY <2>2 DEF StorageInv, CompleteInv, CompleteTask
<1>2. QED
  BY <1>1, StorageAlways, PTL DEF Spec, LoadReclaims

(***************************************************************************)
(* The contract.                                                           *)
(***************************************************************************)

\* Every file that is there can be read and mapped.
AlwaysReadable == Faults \cap {"read", "map"} = {}

\* A load finds all that is signed.
LEMMA LoadsAllStep ==
  AlwaysReadable /\ Undisturbed /\ StorageInv /\ LoadsAllInv /\ [Next]_vars
  => LoadsAllInv'
<1> SUFFICES ASSUME AlwaysReadable, Undisturbed, StorageInv, LoadsAllInv, [Next]_vars
             PROVE  LoadsAllInv'
  OBVIOUS
<1> USE DEF StorageInv
<1>1. ASSUME \A scan \in loads' : \A f \in prefs'.signatures :
               disk'[f] = schema' => f \in scan.unread \cup scan.result,
             \A i \in Position' : main_tasks'[i].type = "loaded" =>
               \A f \in prefs'.signatures :
                 disk'[f] = schema' => f \in main_tasks'[i].files
      PROVE  LoadsAllInv'
  BY <1>1 DEF LoadsAllInv, Complete, Position
<1>2. ASSUME phase' = "ready"
      PROVE  LoadsAllInv'
  <2>1. PhaseInv' /\ NothingOutlives'
    BY PhaseStep, OutlivesStep DEF SignedInv
  <2>2. loads' = {} /\ \A i \in Position' : main_tasks'[i].type # "loaded"
    BY <1>2, <2>1 DEF PhaseInv, NothingOutlives, Position
  <2>3. QED
    BY <1>1, <2>2
<1>3. ASSUME phase' = "off"
      PROVE  LoadsAllInv'
  <2>1. PhaseInv' /\ NothingOutlives'
    BY PhaseStep, OutlivesStep DEF SignedInv
  <2>2. loads' = {} /\ main_tasks' = <<>>
    BY <1>3, <2>1 DEF PhaseInv, NothingOutlives
  <2>3. QED
    BY <1>1, <2>2 DEF Position
<1>4. CASE LoadSubscriptions
  <2>1. /\ main_tasks = <<>> /\ loads = {} /\ UNCHANGED <<main_tasks, disk, schema>>
    BY <1>4, Phases DEF LoadSubscriptions, browser
  <2> DEFINE new == [live |-> TRUE, trusted |-> prefs'.signatures,
                     unread |-> {f \in File : disk[f] # "absent"}, result |-> {}]
  <2>2. loads' = loads \cup {new}
    BY <1>4 DEF LoadSubscriptions
  <2>3. new.unread = {f \in File : disk[f] # "absent"}
    OBVIOUS
  <2> HIDE DEF new
  <2>4. prefs'.signatures \subseteq File
    BY TypeStep DEF TypeOK, Prefs
  <2>5. schema # "absent"
    BY StorageAssumption DEF TypeOK
  <2>6. QED
    BY <1>1, <2>1, <2>2, <2>3, <2>4, <2>5 DEF Position
<1>5. ASSUME NEW scan \in loads
      PROVE  /\ phase = "loading" /\ main_tasks = <<>>
             /\ loads = {scan} /\ scan.live /\ scan.trusted = prefs.signatures
  <2>1. phase = "loading" /\ main_tasks = <<>> /\ loads = {scan}
    BY Phases DEF SignedInv, PhaseInv, NothingOutlives
  <2>2. scan.live /\ scan.trusted = prefs.signatures
    BY <2>1 DEF SignedInv, PhaseInv, NothingOutlives
  <2>3. QED
    BY <2>1, <2>2
<1>6. ASSUME NEW scan \in loads, NEW f \in File, ReadFile(scan, f)
      PROVE  LoadsAllInv'
  <2> DEFINE next(taken) ==
        [scan EXCEPT !.unread = @ \ {f}, !.result = @ \cup taken]
  <2>1. \A taken : /\ next(taken).unread = scan.unread \ {f}
                   /\ next(taken).result = scan.result \cup taken
    BY DEF TypeOK, DirectoryScan
  <2>2. UNCHANGED <<main_tasks, prefs, schema>>
    BY <1>6 DEF ReadFile, browser
  <2>3. \/ loads' = {next({})} /\ disk[f] = "absent" /\ disk' = disk
        \/ loads' = {next({f})} /\ disk' = disk
        \/ loads' = {next({})} /\ disk' = [disk EXCEPT ![f] = "absent"]
    BY <1>5, <1>6 DEF ReadFile, DeleteFile, AlwaysReadable
  <2>4. schema # "absent"
    BY StorageAssumption DEF TypeOK
  <2>5. /\ \A g \in File : g # f => disk'[g] = disk[g]
        /\ \/ loads' = {next({})} /\ disk'[f] = "absent"
           \/ loads' = {next({f})}
    BY <2>3 DEF TypeOK
  <2>6. prefs.signatures \subseteq File
    BY DEF TypeOK, Prefs
  <2>7. \A g \in prefs.signatures : disk[g] = schema => g \in scan.unread \cup scan.result
    BY DEF LoadsAllInv, Complete
  <2> HIDE DEF next
  <2>8. \A other \in loads' : \A g \in prefs'.signatures :
          disk'[g] = schema' => g \in other.unread \cup other.result
    BY <2>1, <2>2, <2>4, <2>5, <2>6, <2>7
  <2>9. Position' = {}
    BY <1>5, <2>2 DEF Position
  <2>10. QED
    BY <1>1, <2>8, <2>9
<1>7. ASSUME NEW scan \in loads, FinishScan(scan)
      PROVE  LoadsAllInv'
  <2> DEFINE t == [type |-> "loaded", files |-> scan.result]
  <2>1. /\ UNCHANGED <<disk, schema, prefs>>
        /\ loads' = {} /\ scan.unread = {}
    BY <1>5, <1>7 DEF FinishScan, browser
  <2>2. main_tasks' = <<t>>
    <3>1. scan.live /\ main_tasks = <<>>
      BY <1>5
    <3>2. main_tasks' = main_tasks \o <<t>>
      BY <1>7, <3>1 DEF FinishScan, Post
    <3>3. QED
      BY <3>1, <3>2
  <2>3. \A g \in prefs.signatures : disk[g] = schema => g \in t.files
    BY <2>1 DEF LoadsAllInv, Complete
  <2> HIDE DEF t
  <2>4. \A i \in Position' : main_tasks'[i] = t
    BY <2>2 DEF Position
  <2>5. QED
    BY <1>1, <2>1, <2>3, <2>4
<1>8. ASSUME UNCHANGED <<main_tasks, loads, disk, schema, prefs>>
      PROVE  LoadsAllInv'
  BY <1>8 DEF LoadsAllInv, Complete, Position
<1>9. CASE UNCHANGED vars \/ SavePrefs
  BY <1>8, <1>9 DEF vars, SavePrefs, browser
<1>10. CASE phase = "loading" /\ phase' = phase /\ loads = {}
  <2>1. /\ \/ Len(main_tasks) = 1 /\ main_tasks[1].type = "loaded"
           \/ main_tasks = <<>>
        /\ writes = {} /\ governed = {} /\ doomed = {}
    BY <1>10, Phases
  <2>2. \A type \in {"sign", "stored", "failed", "unsign"} : ~ NextTask(type)
    BY <2>1, TaskTaken DEF TypeOK, Tasks, NextTask
  <2>3. UNCHANGED vars \/ SavePrefs
    BY <1>10, <2>1, <2>2 DEF Next, StorageStep, LoadSubscriptions,
      LoadComplete, StoreTrustedSignatureOnMainThread, SubscriptionStored,
      StoreError, RemoveStoredSignatureInMainThread, StoreSubscription,
      IsInitialized, RemoveSubscription, DestroyMemoryMappedFile, Disable,
      Quit, Crash, EndProcess
  <2>4. QED
    BY <1>9, <2>3
<1>11. QED
  <2>1. \/ phase' \in {"ready", "off"} \/ UNCHANGED vars \/ SavePrefs
        \/ LoadSubscriptions
        \/ \E scan \in loads : FinishScan(scan) \/ \E f \in File : ReadFile(scan, f)
        \/ phase = "loading" /\ phase' = phase
    BY Phases DEF Next, StorageStep, LoadComplete,
      StoreTrustedSignatureOnMainThread, SubscriptionStored, StoreError,
      RemoveStoredSignatureInMainThread, StoreSubscription, BeginWrite,
      EndWrite, FailWrite, RemoveSubscription, DestroyMemoryMappedFile, Disable,
      Quit, Crash, EndProcess
  <2>2. CASE phase = "loading" /\ phase' = phase /\ loads # {}
    <3>1. PICK scan \in loads : TRUE
      BY <2>2
    <3>2. /\ main_tasks = <<>> /\ writes = {} /\ governed = {} /\ doomed = {}
      BY <1>5, <2>2, <3>1, Phases
    <3>3. \/ UNCHANGED vars \/ SavePrefs
          \/ \E s \in loads : FinishScan(s) \/ \E f \in File : ReadFile(s, f)
      BY <2>2, <3>2 DEF Next, StorageStep, LoadSubscriptions, LoadComplete,
        StoreTrustedSignatureOnMainThread, SubscriptionStored, StoreError,
        RemoveStoredSignatureInMainThread, StoreSubscription, IsInitialized,
        RemoveSubscription, DestroyMemoryMappedFile, Disable, Quit, Crash,
        EndProcess, NextTask
    <3>4. QED
      BY <1>6, <1>7, <1>9, <3>3
  <2>3. QED
    BY <1>2, <1>3, <1>4, <1>6, <1>7, <1>9, <1>10, <2>1, <2>2

\* Steps that change nothing for the maintainer, but that a removal may have
\* taken its final effect.
LEMMA Settles ==
  ASSUME UNCHANGED <<browser, phase, governed, awaiting>>,
         Surviving' = Surviving, Doubtful' \subseteq Doubtful
  PROVE  Contract!Next
BY DEF Contract!Next, Contract!Settle, Contract!browser, browser

\* What the storage does is what the contract allows.
LEMMA ContractStep ==
  AlwaysReadable /\ Undisturbed /\ StorageInv /\ LoadsAllInv /\ [Next]_vars
  => [Contract!Next]_Contract!vars
<1> SUFFICES ASSUME AlwaysReadable, Undisturbed, StorageInv, LoadsAllInv, [Next]_vars
             PROVE  Contract!Next \/ UNCHANGED Contract!vars
  OBVIOUS
<1> USE DEF StorageInv
<1> DEFINE Signed == prefs.signatures \cup saved_prefs.signatures
<1>1. /\ phase # "off" => prefs.schema = schema
      /\ phase = "ready" => Surviving = {}
      /\ schema \in Schema /\ "absent" \notin Schema /\ "partial" \notin Schema
      /\ Signed \subseteq File
  BY StorageAssumption DEF ReadInv, SignaturesInv, Surviving, TypeOK, Prefs
\* While the storage runs, only removals take effect.
<1>2. ASSUME phase = "ready",
             UNCHANGED <<browser, phase, governed, awaiting>>,
             \A f \in File \ awaiting :
               /\ f \in Signed' => f \in Signed
               /\ disk'[f] \in Schema => disk[f] \in Schema
      PROVE  Contract!Next
  <2>1. Surviving = {} /\ Surviving' = {}
    BY <1>1, <1>2 DEF Surviving
  <2>2. Signed' \subseteq File
    BY TypeStep DEF TypeOK, Prefs
  <2>3. Doubtful' \subseteq Doubtful
    BY <1>2, <2>1, <2>2 DEF Doubtful
  <2>4. QED
    BY <1>2, <2>1, <2>3, Settles
<1>3. CASE LoadSubscriptions
  <2>1. /\ phase = "off" /\ phase' = "loading"
        /\ UNCHANGED <<browser, governed, awaiting, saved_prefs, disk>>
        /\ prefs' = IF prefs.schema = schema THEN prefs
                    ELSE [signatures |-> {}, schema |-> schema]
    BY <1>3 DEF LoadSubscriptions, ClearSignaturesIfSchemaVersionChanged
  <2>2. CASE prefs.schema = schema
    <3>1. Surviving' = Surviving /\ Doubtful' = Doubtful
      BY <2>1, <2>2 DEF Surviving, Doubtful, browser
    <3>2. QED
      BY <2>1, <3>1 DEF Contract!Next, Contract!Load, Contract!browser, browser
  <2>3. CASE prefs.schema # schema
    <3>1. Surviving = {} /\ saved_prefs = prefs
      BY <2>3 DEF Surviving, ReadInv, SignaturesInv
    <3>2. prefs'.signatures = {}
      BY <2>1, <2>3
    <3>3. Surviving' = {}
      BY <3>2 DEF Surviving
    <3>4. Doubtful' = Doubtful
      BY <2>1, <3>1, <3>2, <3>3 DEF Doubtful
    <3>5. QED
      BY <2>1, <3>1, <3>3, <3>4 DEF Contract!Next, Contract!Load,
        Contract!browser, browser
  <2>4. QED
    BY <2>2, <2>3
<1>4. ASSUME NEW scan \in loads, NEW f \in File, ReadFile(scan, f)
      PROVE  Contract!Next
  <2>1. /\ phase = "loading" /\ scan.trusted = prefs.signatures
    BY Phases DEF SignedInv, PhaseInv, NothingOutlives
  <2>2. UNCHANGED <<browser, phase, governed, awaiting, prefs, saved_prefs>>
    BY <1>4 DEF ReadFile
  <2>3. \/ disk' = disk
        \/ /\ disk' = [disk EXCEPT ![f] = "absent"]
           /\ f \notin prefs.signatures \/ disk[f] \notin Schema
    BY <1>4, <2>1 DEF ReadFile, DeleteFile, IsSignatureValid, AlwaysReadable
  <2>4. /\ \A g \in File : disk'[g] \in {disk[g], "absent"}
        /\ \A g \in prefs.signatures : disk[g] \in Schema => disk'[g] = disk[g]
    BY <1>1, <2>3 DEF TypeOK
  <2>5. Surviving' = Surviving
    BY <1>1, <2>1, <2>2, <2>4 DEF Surviving, browser
  <2>6. Doubtful' \subseteq Doubtful
    BY <1>1, <2>2, <2>4, <2>5 DEF Doubtful
  <2>7. QED
    BY <2>2, <2>5, <2>6, Settles
<1>5. ASSUME UNCHANGED <<browser, phase, governed, awaiting, prefs, disk>>,
             saved_prefs' \in {prefs, saved_prefs}
      PROVE  Contract!Next
  <2>1. Surviving' = Surviving
    BY <1>5 DEF Surviving, browser
  <2>2. Doubtful' \subseteq Doubtful
    BY <1>5, <2>1 DEF Doubtful
  <2>3. QED
    BY <1>5, <2>1, <2>2, Settles
<1>6. CASE SavePrefs \/ UNCHANGED vars \/ \E scan \in loads : FinishScan(scan)
  BY <1>5, <1>6 DEF SavePrefs, vars, FinishScan
<1>7. CASE LoadComplete
  <2> DEFINE files == main_tasks[1].files
  <2>1. /\ 1 \in Position /\ main_tasks[1].type = "loaded"
        /\ Head(main_tasks) = main_tasks[1] /\ main_tasks # <<>>
    BY <1>7, TaskTaken DEF LoadComplete, TypeOK, Tasks, Position, NextTask
  <2>2. phase = "loading" /\ governed = {} /\ awaiting = {}
    BY <2>1, Phases
  <2>3. /\ UNCHANGED <<browser, disk, prefs, saved_prefs, awaiting>>
        /\ phase' = "ready" /\ governed' = files
    BY <1>7, <2>1, <2>2 DEF LoadComplete, Entered
  <2>4. files \subseteq prefs.signatures
    BY <2>1, <2>2 DEF SignedInv, PhaseInv
  <2>5. \A f \in prefs.signatures : disk[f] = schema <=> f \in files
    BY <2>1, <2>4 DEF CompleteInv, CompleteTask, LoadsAllInv, Complete
  <2>6. Surviving = files /\ Surviving' = {}
    BY <1>1, <2>2, <2>3, <2>4, <2>5 DEF Surviving
  <2> HIDE DEF files
  <2>7. Doubtful' = Doubtful
    BY <2>2, <2>3, <2>6 DEF Doubtful
  <2>8. QED
    BY <2>2, <2>3, <2>6, <2>7 DEF Contract!Next, Contract!Loaded,
      Contract!browser, browser
<1>8. ASSUME NEW f \in File, StoreSubscription(f)
      PROVE  Contract!Next
  <2>1. /\ phase = "ready" /\ f \notin used /\ awaiting' = awaiting \cup {f}
        /\ UNCHANGED <<browser, phase, governed, disk, prefs, saved_prefs>>
    BY <1>8 DEF StoreSubscription, IsInitialized
  <2>2. disk[f] = "absent" /\ f \notin governed /\ f \notin awaiting
    BY <2>1 DEF ReadInv, WritesInv, IntactInv, Intact, SignedInv, QueueInv
  <2>3. Surviving' = {} /\ Surviving = {}
    BY <1>1, <2>1 DEF Surviving
  <2>4. Doubtful' = Doubtful /\ f \notin Doubtful
    BY <1>1, <2>1, <2>2, <2>3 DEF Doubtful
  <2>5. QED
    BY <2>1, <2>2, <2>3, <2>4 DEF Contract!Next, Contract!Store,
      Contract!browser, browser
<1>9. ASSUME NEW w \in writes, BeginWrite(w) \/ EndWrite(w) \/ FailWrite(w)
      PROVE  Contract!Next
  <2>1. phase = "ready" /\ w.file \in awaiting /\ w.file \in File
    BY Phases DEF SignedInv, QueueInv, NothingOutlives, TypeOK, Write
  <2>2. UNCHANGED <<browser, phase, governed, awaiting, prefs, saved_prefs>>
    BY <1>9 DEF BeginWrite, EndWrite, FailWrite
  <2>3. \A f \in File \ awaiting : disk'[f] = disk[f]
    BY <1>9, <2>1 DEF BeginWrite, EndWrite, FailWrite, TypeOK
  <2>4. QED
    BY <1>2, <2>1, <2>2, <2>3
<1>10. ASSUME NEW type \in {"sign", "stored", "failed", "unsign"}, NextTask(type)
       PROVE  /\ phase = "ready" /\ main_tasks[1].type = type /\ 1 \in Position
              /\ Head(main_tasks) = main_tasks[1] /\ main_tasks[1].file \in File
  <2>1. /\ main_tasks # <<>> /\ main_tasks[1].type = type /\ 1 \in Position
        /\ Head(main_tasks) = main_tasks[1] /\ main_tasks[1].file \in File
    BY <1>10, TaskTaken DEF TypeOK, Tasks, FileTask, LoadedTask, Position, NextTask
  <2>2. QED
    BY <1>10, <2>1, Phases
<1>11. CASE StoreTrustedSignatureOnMainThread
  <2>1. PICK f \in File : f = Head(main_tasks).file
    BY <1>10, <1>11 DEF StoreTrustedSignatureOnMainThread
  <2>2. phase = "ready" /\ f \in awaiting
    BY <1>10, <1>11, <2>1, StoringAwaited DEF StoreTrustedSignatureOnMainThread
  <2>3. /\ UNCHANGED <<browser, phase, governed, awaiting, disk, saved_prefs>>
        /\ prefs'.signatures = prefs.signatures \cup {f}
    BY <1>11, <2>1 DEF StoreTrustedSignatureOnMainThread, TypeOK, Prefs
  <2>4. QED
    BY <1>2, <2>2, <2>3
<1>12. CASE RemoveStoredSignatureInMainThread
  <2>1. /\ phase = "ready"
        /\ UNCHANGED <<browser, phase, governed, awaiting, disk, saved_prefs>>
        /\ prefs'.signatures \subseteq prefs.signatures
    BY <1>10, <1>12 DEF RemoveStoredSignatureInMainThread, TypeOK, Prefs
  <2>2. QED
    BY <1>2, <2>1
<1>13. ASSUME NEW f \in File, DestroyMemoryMappedFile(f)
       PROVE  Contract!Next
  <2>1. /\ phase = "ready"
        /\ UNCHANGED <<browser, phase, governed, awaiting, prefs, saved_prefs>>
        /\ disk' = [disk EXCEPT ![f] = "absent"]
    BY <1>13, Phases DEF DestroyMemoryMappedFile
  <2>2. \A g \in File : disk'[g] \in {disk[g], "absent"}
    BY <2>1 DEF TypeOK
  <2>3. QED
    BY <1>1, <1>2, <2>1, <2>2
<1>14. CASE SubscriptionStored
  <2>1. PICK f \in File : f = Head(main_tasks).file
    BY <1>10, <1>14 DEF SubscriptionStored
  <2>2. phase = "ready" /\ f \in awaiting
    BY <1>10, <1>14, <2>1, StoringAwaited DEF SubscriptionStored
  <2>3. /\ UNCHANGED <<browser, phase, disk, prefs, saved_prefs>>
        /\ awaiting' = awaiting \ {f} /\ governed' = governed \cup {f}
    BY <1>14, <2>1 DEF SubscriptionStored
  <2>4. Surviving' = {} /\ Surviving = {}
    BY <1>1, <2>2, <2>3 DEF Surviving
  <2>5. Doubtful' = Doubtful
    BY <2>2, <2>3, <2>4 DEF Doubtful
  <2>6. QED
    BY <2>2, <2>3, <2>4, <2>5 DEF Contract!Next, Contract!Stored,
      Contract!browser, browser
<1>15. CASE StoreError
  <2>1. PICK f \in File : f = Head(main_tasks).file
    BY <1>10, <1>15 DEF StoreError
  <2>2. phase = "ready" /\ f \in awaiting /\ disk[f] \in {"absent", "partial"}
    BY <1>10, <1>15, <2>1, StoringAwaited DEF StoreError, CompleteInv, CompleteTask
  <2>3. /\ UNCHANGED <<browser, phase, disk, governed, prefs, saved_prefs>>
        /\ awaiting' = awaiting \ {f}
    BY <1>15, <2>1 DEF StoreError
  <2>4. Surviving' = {} /\ Surviving = {}
    BY <1>1, <2>2, <2>3 DEF Surviving
  <2>5. Doubtful' = Doubtful
    BY <1>1, <2>2, <2>3, <2>4 DEF Doubtful
  <2>6. QED
    BY <2>2, <2>3, <2>4, <2>5 DEF Contract!Next, Contract!StoreFailed,
      Contract!browser, browser
<1>16. ASSUME NEW f \in File, RemoveSubscription(f)
       PROVE  Contract!Next
  <2>1. phase = "ready" /\ f \in governed
    BY <1>16, Phases DEF RemoveSubscription
  <2>2. /\ UNCHANGED <<browser, phase, disk, awaiting, prefs, saved_prefs>>
        /\ governed' = governed \ {f}
    BY <1>16 DEF RemoveSubscription
  <2>3. f \notin awaiting /\ f \in prefs.signatures /\ disk[f] = schema
    BY <2>1 DEF SignedInv, QueueInv, SignedWhenGoverned, CompleteInv, Complete
  <2>4. Surviving' = {} /\ Surviving = {}
    BY <1>1, <2>1, <2>2 DEF Surviving
  <2>5. Doubtful' = Doubtful \cup {f}
    BY <1>1, <2>1, <2>2, <2>3, <2>4 DEF Doubtful
  <2>6. QED
    BY <2>1, <2>2, <2>4, <2>5 DEF Contract!Next, Contract!Remove,
      Contract!browser, browser
<1>17. ASSUME NEW how \in {"quit", "crash"}, NEW p, p \in {prefs, saved_prefs},
              how = "quit" => p = prefs, EndProcess(how, p)
       PROVE  Contract!Next
  <2> DEFINE candidates == governed \cup awaiting \cup Surviving \cup Doubtful
  <2>1. /\ last_end' = how /\ schema' \in Schema /\ phase' = "off"
        /\ governed' = {} /\ awaiting' = {} /\ prefs' = p /\ saved_prefs' = p
        /\ disk' = disk
    BY <1>17 DEF EndProcess
  <2>2. \A f \in p.signatures : disk[f] \in Schema => f \in candidates
    BY <1>17 DEF Doubtful
  <2>3. \A f \in p.signatures : disk[f] \in {p.schema, "absent"}
    BY <1>17 DEF ReadInv, SignaturesInv, SignedFiles
  <2>4. Surviving' = IF p.schema = schema' THEN {f \in p.signatures : disk[f] = schema'}
                     ELSE {}
    BY <2>1 DEF Surviving
  <2>5. Doubtful' = {f \in p.signatures : disk[f] \in Schema /\ f \notin Surviving'}
    BY <2>1 DEF Doubtful
  <2>6. Surviving' \subseteq candidates /\ Doubtful' \subseteq candidates
    BY <2>1, <2>2, <2>4, <2>5
  <2>7. Surviving' = {} \/ Doubtful' = {}
    BY <1>1, <2>1, <2>3, <2>4, <2>5
  <2>8. how = "quit" /\ schema' = schema => governed \cup Surviving \subseteq Surviving'
    <3> SUFFICES ASSUME how = "quit", schema' = schema,
                        NEW f \in governed \cup Surviving
                 PROVE  f \in Surviving'
      OBVIOUS
    <3>1. CASE f \in governed
      <4>1. prefs.schema = schema
        BY <1>1, <3>1, Phases
      <4>2. f \in prefs.signatures /\ disk[f] = schema
        BY <3>1 DEF SignedInv, SignedWhenGoverned, CompleteInv, Complete
      <4>3. QED
        BY <1>17, <2>4, <4>1, <4>2
    <3>2. CASE f \in Surviving
      <4>1. prefs.schema = schema /\ f \in prefs.signatures /\ disk[f] = schema
        BY <3>2 DEF Surviving
      <4>2. QED
        BY <1>17, <2>4, <4>1
    <3>3. QED
      BY <3>1, <3>2
  <2>9. Contract!End(how)
    BY <2>1, <2>6, <2>7, <2>8 DEF Contract!End
  <2>10. QED
    BY <2>9 DEF Contract!Next
<1>18. CASE Quit \/ Crash
  <2>1. PICK p : /\ p \in {prefs, saved_prefs}
                 /\ \/ p = prefs /\ EndProcess("quit", p)
                    \/ EndProcess("crash", p)
    BY <1>18 DEF Quit, Crash
  <2>2. QED
    BY <1>17, <2>1
<1>19. ~ Disable
  BY DEF Disable, Undisturbed
<1>20. QED
  BY <1>3, <1>4, <1>6, <1>7, <1>8, <1>9, <1>11, <1>12, <1>13, <1>14, <1>15,
    <1>16, <1>18, <1>19 DEF Next, StorageStep

LEMMA ContractInit == Init => Contract!Init
BY DEF Init, Contract!Init, Surviving, Doubtful

\* The storage implements its contract as long as files can be read and mapped and no
\* storage is destroyed before the browser ends: what was installed at an
\* orderly end is loaded again, a settled removal is final, and a crash brings
\* back nothing that was not stored.
THEOREM KeepsContractHolds ==
  ASSUME AlwaysReadable, Undisturbed PROVE Spec => KeepsContract
<1>1. Spec => []LoadsAllInv
  <2>1. LoadsAllInv /\ StorageInv /\ [Next]_vars => LoadsAllInv'
    BY LoadsAllStep
  <2>2. QED
    BY <2>1, CompleteInit, StorageAlways, PTL DEF Spec
<1>2. StorageInv /\ LoadsAllInv /\ [Next]_vars => [Contract!Next]_Contract!vars
  BY ContractStep
<1>3. QED
  BY <1>1, <1>2, ContractInit, StorageAlways, PTL DEF Spec, KeepsContract,
    Contract!Spec
=============================================================================
