---------------------------- MODULE ConfigReload ----------------------------
(***************************************************************************)
(* Hot reload of the configuration: ConfigStore and the ConfigLoader       *)
(* thread of core/src/store.rs, and the main loop of daemon/src/main.rs,   *)
(* which reloads the same store for the IPC commands reload and            *)
(* apply-scene and applies what is in force to the tracked processes.      *)
(*                                                                         *)
(* ConfigStore::reload takes the current version, reads the file and       *)
(* installs a snapshot in three steps; only the first and the last hold    *)
(* the store's lock. Contents of the file are numbered by the writes that  *)
(* made them. The file and inotify are external.                           *)
(***************************************************************************)
EXTENDS Integers

CONSTANTS
    MaxWrites,    \* bound: writes of the file
    MaxRequests,  \* bound: IPC requests that may change something
    IpcReload,    \* whether IPC clients send reload and apply-scene
    QuietStart    \* whether the file is left alone until the loader watches it

ASSUME ConstantsAssumption ==
    /\ MaxWrites \in Nat /\ MaxRequests \in Nat
    /\ IpcReload \in BOOLEAN /\ QuietStart \in BOOLEAN

\* What a reader finds in the file: a complete configuration; the file
\* truncated by a writer, which parses as a configuration without rules; one
\* that does not parse; no file.
Forms == {"whole", "partial", "bad", "missing"}
Loadable == {"whole", "partial"}
File == [gen : 0..MaxWrites, form : Forms]
Snapshot == [version : Nat, gen : 0..MaxWrites, form : Loadable]

Threads == {"loader", "main"}
Steps == {"start", "wait", "gap", "reload", "load", "install", "notify",
          "top", "requests", "scene", "write", "changes", "relock", "events"}

VARIABLES
    file,       \* the configuration file
    writer,     \* who has the file open for writing
    watched,    \* the inotify watch is on the file's present inode
    queue,      \* inotify events not read yet: "closed", "gone"
    snap,       \* ConfigStore.snapshot
    pc, local,  \* per thread: where it is, the snapshot its reload() builds
    mode,       \* the loader's mode: inotify or poll
    last,       \* last_mtime, -1 for none
    notes,      \* versions sent on the channel and not received
    cfg,        \* the main loop's cfg, taken at the top of an iteration
    refreshed,  \* snapshot of the latest do_reload
    ruled,      \* snapshot by which tracked threads were last set
    requests    \* IPC requests handled so far

fileVars == <<file, writer, watched, queue>>
loaderVars == <<mode, last>>
mainVars == <<cfg, refreshed, ruled, requests>>
vars == <<file, writer, watched, queue, snap, pc, local, mode, last, notes,
          cfg, refreshed, ruled, requests>>

At(t, step) == pc[t] = step
Go(t, step) == pc' = [pc EXCEPT ![t] = step]

-----------------------------------------------------------------------------
(* The file. Each truncation, write and replacement changes its mtime.     *)

Exists == file.form # "missing"
MayWrite == file.gen < MaxWrites /\ writer = "none" /\ (QuietStart => ~At("loader", "start"))
Mtime == IF Exists THEN 2 * file.gen + (IF file.form = "partial" THEN 0 ELSE 1) ELSE -1

\* open(O_TRUNC), creating the file if there is none.
Truncate(w) ==
    /\ MayWrite
    /\ file' = [gen |-> file.gen + 1, form |-> "partial"]
    /\ writer' = w
    /\ UNCHANGED <<watched, queue>>

\* The last write and close: IN_CLOSE_WRITE.
Close(w, form) ==
    /\ writer = w
    /\ file' = [file EXCEPT !.form = form]
    /\ writer' = "none"
    /\ queue' = IF watched THEN queue \cup {"closed"} ELSE queue
    /\ UNCHANGED watched

\* The watched inode goes away: rename over it, or unlink.
Unlinked == watched' = FALSE /\ queue' = IF watched THEN queue \cup {"gone"} ELSE queue

Replace(form) ==
    /\ MayWrite /\ Exists
    /\ file' = [gen |-> file.gen + 1, form |-> form]
    /\ Unlinked
    /\ UNCHANGED writer

Delete ==
    /\ MayWrite /\ Exists
    /\ file' = [file EXCEPT !.form = "missing"]
    /\ Unlinked
    /\ UNCHANGED writer

EditFile ==
    /\ Truncate("editor") \/ Delete \/ \E form \in {"whole", "bad"} : Replace(form)
    /\ UNCHANGED <<snap, pc, local, notes, loaderVars, mainVars>>
SaveFile ==
    /\ \E form \in {"whole", "bad"} : Close("editor", form)
    /\ UNCHANGED <<snap, pc, local, notes, loaderVars, mainVars>>

-----------------------------------------------------------------------------
(* ConfigStore::reload, run by thread t.                                   *)

TakeVersion(t) ==
    /\ At(t, "reload")
    /\ local' = [local EXCEPT ![t].version = snap.version + 1]
    /\ Go(t, "load")
    /\ UNCHANGED <<snap, notes, fileVars, loaderVars, mainVars>>

\* Defect: a file that does not load is installed all the same.
ReadFileUnchecked(t) ==
    /\ At(t, "load")
    /\ local' = [local EXCEPT ![t].gen = file.gen, ![t].form = file.form]
    /\ Go(t, "install")
    /\ UNCHANGED <<snap, notes, fileVars, loaderVars, mainVars>>

ReadFile(t) ==
    /\ At(t, "load") /\ file.form \in Loadable
    /\ local' = [local EXCEPT ![t].gen = file.gen, ![t].form = file.form]
    /\ Go(t, "install")
    /\ UNCHANGED <<snap, notes, fileVars, loaderVars, mainVars>>

\* The file is missing or does not parse: the old snapshot stays.
LoadFails(t) ==
    /\ At(t, "load") /\ file.form \notin Loadable
    /\ Go(t, IF t = "loader" THEN "wait" ELSE "requests")
    /\ UNCHANGED <<snap, local, notes, fileVars, loaderVars, mainVars>>

\* Defect: the new content goes in under the old version.
InstallContent(t) ==
    /\ At(t, "install")
    /\ snap' = [local[t] EXCEPT !.version = snap.version]
    /\ Go(t, "notify")
    /\ UNCHANGED <<local, notes, fileVars, loaderVars, mainVars>>

Install(t) ==
    /\ At(t, "install")
    /\ snap' = local[t]
    /\ Go(t, "notify")
    /\ UNCHANGED <<local, notes, fileVars, loaderVars, mainVars>>

ReloadStep(t) == TakeVersion(t) \/ ReadFile(t) \/ LoadFails(t) \/ Install(t)

-----------------------------------------------------------------------------
(* The ConfigLoader thread (spawn_hot_reload).                             *)

\* InotifyWatch::init succeeds only if the file exists; then the baseline.
StartWatch ==
    /\ At("loader", "start")
    /\ \E ok \in BOOLEAN :
          /\ ok => Exists
          /\ mode' = IF ok THEN "inotify" ELSE "poll"
          /\ watched' = ok
    /\ last' = Mtime
    /\ Go("loader", "wait")
    /\ UNCHANGED <<file, writer, queue, snap, local, notes, mainVars>>

\* InotifyWatch::wait reads every queued event at once.
WaitInotify ==
    /\ At("loader", "wait") /\ mode = "inotify" /\ queue # {}
    /\ queue' = {}
    /\ Go("loader", IF "gone" \in queue THEN "gap" ELSE "reload")
    /\ UNCHANGED <<file, writer, watched, snap, local, notes, loaderVars, mainVars>>

\* After a second's sleep the watch is put on the file of that name again.
\* Defect: the watch is back, but no reload follows.
ReinstallOnly ==
    /\ At("loader", "gap") /\ Exists
    /\ watched' = TRUE
    /\ Go("loader", "wait")
    /\ UNCHANGED <<file, writer, queue, snap, local, notes, loaderVars, mainVars>>

Reinstall ==
    /\ At("loader", "gap") /\ Exists
    /\ watched' = TRUE
    /\ Go("loader", "reload")
    /\ UNCHANGED <<file, writer, queue, snap, local, notes, loaderVars, mainVars>>

\* No such file, or poll(2) or read(2) failed: polling from now on, starting
\* with a reload.
\* Defect: the time of the file is taken for that of what is in force.
DegradeUpToDate ==
    /\ mode' = "poll" /\ last' = Mtime
    /\ watched' = FALSE /\ queue' = {}
    /\ Go("loader", "wait")
    /\ UNCHANGED <<file, writer, snap, local, notes, mainVars>>

Degrade ==
    /\ mode' = "poll" /\ last' = -1
    /\ watched' = FALSE /\ queue' = {}
    /\ Go("loader", "wait")
    /\ UNCHANGED <<file, writer, snap, local, notes, mainVars>>
ReinstallFails == At("loader", "gap") /\ ~Exists /\ Degrade
InotifyFails == At("loader", "wait") /\ mode = "inotify" /\ Degrade

PollFile ==
    /\ At("loader", "wait") /\ mode = "poll" /\ last # Mtime
    /\ last' = Mtime
    /\ Go("loader", IF Exists THEN "reload" ELSE "wait")
    /\ UNCHANGED <<snap, local, notes, mode, fileVars, mainVars>>

SendVersion ==
    /\ At("loader", "notify")
    /\ notes' = notes + 1
    /\ Go("loader", "wait")
    /\ UNCHANGED <<snap, local, fileVars, loaderVars, mainVars>>

LoaderNext ==
    \/ StartWatch \/ WaitInotify \/ Reinstall \/ ReinstallFails \/ PollFile \/ SendVersion
    \/ ReloadStep("loader")

-----------------------------------------------------------------------------
(* The main loop.                                                          *)

\* relock_all under snapshot s; the decision engine may refuse all of it.
Relocked(s) == ruled' \in {ruled, s}

\* do_reload works on store.current(), not on what the caller installed.
\* Defect: the iteration's cfg instead of the snapshot in force.
DoReloadByCfg == refreshed' = cfg /\ Relocked(cfg)

DoReload == refreshed' = snap /\ Relocked(snap)

LoopTop ==
    /\ At("main", "top")
    /\ cfg' = snap
    /\ Go("main", "requests")
    /\ UNCHANGED <<snap, local, notes, refreshed, ruled, requests, fileVars, loaderVars>>

\* handle_ipc: reload and apply-scene, when the file can be read for it.
RequestReload ==
    /\ At("main", "requests") /\ IpcReload /\ requests < MaxRequests
    /\ requests' = requests + 1
    /\ \/ Go("main", "reload")
       \/ Exists /\ Go("main", "scene")
    /\ UNCHANGED <<snap, local, notes, cfg, refreshed, ruled, fileVars, loaderVars>>

\* apply <pid> re-applies everything, by the iteration's cfg.
RequestApply ==
    /\ At("main", "requests") /\ requests < MaxRequests
    /\ requests' = requests + 1
    /\ Relocked(cfg)
    /\ UNCHANGED <<snap, pc, local, notes, cfg, refreshed, fileVars, loaderVars>>

\* apply-scene writes the file back in place, which also wakes the loader.
SceneTruncates ==
    /\ At("main", "scene") /\ Truncate("main")
    /\ Go("main", "write")
    /\ UNCHANGED <<snap, local, notes, loaderVars, mainVars>>
SceneFails ==
    /\ At("main", "scene")
    /\ Go("main", "requests")
    /\ UNCHANGED <<snap, local, notes, fileVars, loaderVars, mainVars>>
SceneWrites ==
    /\ At("main", "write")
    /\ \E form \in {"whole", "bad"} : Close("main", form)
    /\ Go("main", "reload")
    /\ UNCHANGED <<snap, local, notes, loaderVars, mainVars>>

ApplyReload ==
    /\ At("main", "notify")
    /\ DoReload
    /\ Go("main", "requests")
    /\ UNCHANGED <<snap, local, notes, cfg, requests, fileVars, loaderVars>>

NoRequest ==
    /\ At("main", "requests")
    /\ Go("main", "changes")
    /\ UNCHANGED <<snap, local, notes, fileVars, loaderVars, mainVars>>

ReceiveVersion ==
    /\ At("main", "changes") /\ notes > 0
    /\ notes' = notes - 1
    /\ DoReload
    /\ UNCHANGED <<snap, pc, local, cfg, requests, fileVars, loaderVars>>

NoChange ==
    /\ At("main", "changes") /\ notes = 0
    /\ Go("main", "relock")
    /\ UNCHANGED <<snap, local, notes, fileVars, loaderVars, mainVars>>

\* The periodic or immediate relock, then the events of the batch polled:
\* both go by cfg, and there may be none of either.
Relock ==
    /\ At("main", "relock")
    /\ Relocked(cfg)
    /\ Go("main", "events")
    /\ UNCHANGED <<snap, local, notes, cfg, refreshed, requests, fileVars, loaderVars>>
HandleEvents ==
    /\ At("main", "events")
    /\ ruled' \in {ruled, cfg}
    /\ Go("main", "top")
    /\ UNCHANGED <<snap, local, notes, cfg, refreshed, requests, fileVars, loaderVars>>

MainStep ==
    \/ LoopTop \/ ApplyReload \/ SceneTruncates \/ SceneFails \/ SceneWrites
    \/ NoRequest \/ ReceiveVersion \/ NoChange \/ Relock \/ HandleEvents
    \/ ReloadStep("main")
MainNext == MainStep \/ RequestReload \/ RequestApply

-----------------------------------------------------------------------------
First == [version |-> 1, gen |-> 0, form |-> "whole"]

Init ==
    /\ file = [gen |-> 0, form |-> "whole"] /\ writer = "none"
    /\ watched = FALSE /\ queue = {}
    /\ snap = First
    /\ pc = [t \in Threads |-> IF t = "loader" THEN "start" ELSE "top"]
    /\ local = [t \in Threads |-> First]
    /\ mode = "poll" /\ last = -1
    /\ notes = 0
    /\ cfg = First /\ refreshed = First /\ ruled = First
    /\ requests = 0

Next == EditFile \/ SaveFile \/ LoaderNext \/ InotifyFails \/ MainNext

Spec == Init /\ [][Next]_vars

(***************************************************************************)
(* Fairness: a writer closes the file it has opened; the loader wakes for  *)
(* an event or at the end of its sleep; the main loop goes round. Edits,   *)
(* requests and inotify failures need not happen.                          *)
(***************************************************************************)
FairSpec == Spec /\ WF_vars(SaveFile) /\ WF_vars(LoaderNext) /\ WF_vars(MainStep)

-----------------------------------------------------------------------------
TypeOK ==
    /\ file \in File /\ writer \in {"none", "editor", "main"}
    /\ watched \in BOOLEAN /\ queue \subseteq {"closed", "gone"}
    /\ snap \in Snapshot /\ cfg \in Snapshot
    /\ refreshed \in Snapshot /\ ruled \in Snapshot
    /\ pc \in [Threads -> Steps] /\ local \in [Threads -> Snapshot]
    /\ mode \in {"inotify", "poll"} /\ last \in -1..(2 * MaxWrites + 1)
    /\ notes \in Nat /\ requests \in 0..MaxRequests

(***************************************************************************)
(* As long as the loader thread alone reloads, the store keeps its         *)
(* promise: versions count the reloads one by one, and what is in force    *)
(* never goes back to an older content (store.rs, reload).                 *)
(***************************************************************************)
Promise == INSTANCE VersionedConfig
               WITH saved <- file.gen, version <- snap.version, content <- snap.gen
KeepsPromise == Promise!Spec

InForce == snap.gen = file.gen /\ snap.form = "whole"

\* The loader is about to read the file, or has read what it holds.
UnderWay ==
    \/ pc["loader"] \in {"gap", "reload", "load"}
    \/ /\ pc["loader"] = "install"
       /\ local["loader"].gen = file.gen /\ local["loader"].form = "whole"

\* The loader will find on its next turn that the file has changed.
Noticed == IF mode = "inotify" THEN queue # {} ELSE last # Mtime

(***************************************************************************)
(* A complete configuration that is not in force is on its way there at    *)
(* every moment: it is being read, an event for it is queued, or its time  *)
(* differs from the last one seen, whatever was written, replaced or       *)
(* deleted in the gaps between watch, read and install (store.rs, wait,    *)
(* reinstall, the fallback to polling and its baseline).                   *)
(***************************************************************************)
NothingMissed == file.form = "whole" => InForce \/ UnderWay \/ Noticed

(***************************************************************************)
(* Once edits end, the complete configuration last saved comes into force: *)
(* no write, replacement, deletion or loss of the watch makes the loader   *)
(* miss it, nor does it stay with a file it read half written (store.rs,   *)
(* wait, reinstall and the polling fallback).                              *)
(***************************************************************************)
SavedIsLoaded ==
    <>[](file.form = "whole" => InForce)

(***************************************************************************)
(* Whatever is in force in the end is what the tracker and the event       *)
(* source were refreshed with: no install, by either thread and in         *)
(* whatever order, is left without its do_reload (main.rs, do_reload).     *)
(***************************************************************************)
InForceIsRefreshed == <>[](refreshed = snap)

=============================================================================
