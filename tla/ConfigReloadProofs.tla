------------------------- MODULE ConfigReloadProofs -------------------------
(* ConfigReload keeps its types, and with the loader as the only thread    *)
(* that reloads it implements VersionedConfig, however often the file is   *)
(* written.                                                                *)
EXTENDS ConfigReload, TLAPS

(***************************************************************************)
(* A modification time is one; the three steps of reload() keep the types. *)
(***************************************************************************)
LEMMA MtimeType ==
    ASSUME TypeOK
    PROVE  Mtime \in -1..(2 * MaxWrites + 1)
<1>1. file.gen \in 0..MaxWrites /\ MaxWrites \in Nat
  BY ConstantsAssumption DEF TypeOK, File
<1>2. CASE Exists
  <2>1. CASE file.form = "partial" BY <1>1, <1>2, <2>1 DEF Mtime
  <2>2. CASE file.form # "partial" BY <1>1, <1>2, <2>2 DEF Mtime
  <2> QED BY <2>1, <2>2
<1>3. CASE ~Exists BY <1>1, <1>3 DEF Mtime
<1> QED BY <1>2, <1>3

LEMMA ReloadStepTypes ==
    ASSUME TypeOK, NEW t \in Threads, ReloadStep(t)
    PROVE  TypeOK'
<1> USE ConstantsAssumption
      DEF TypeOK, File, Threads, Steps, At, Go, fileVars, loaderVars, mainVars
<1>0. local[t] \in Snapshot
  OBVIOUS
<1>1. CASE TakeVersion(t)
  <2>1. [local[t] EXCEPT !.version = snap.version + 1] \in Snapshot
    BY <1>0 DEF Snapshot
  <2>2. local' = [local EXCEPT ![t] = [local[t] EXCEPT !.version = snap.version + 1]]
    BY <1>1 DEF TakeVersion
  <2> QED BY <1>1, <2>1, <2>2 DEF TakeVersion
<1>2. CASE ReadFile(t)
  <2>1. [local[t] EXCEPT !.gen = file.gen, !.form = file.form] \in Snapshot
    BY <1>0, <1>2 DEF Snapshot, ReadFile
  <2>2. local' = [local EXCEPT ![t] = [local[t] EXCEPT !.gen = file.gen, !.form = file.form]]
    BY <1>2 DEF ReadFile
  <2> QED BY <1>2, <2>1, <2>2 DEF ReadFile
<1>3. CASE LoadFails(t) BY <1>3 DEF LoadFails
<1>4. CASE Install(t) BY <1>0, <1>4 DEF Install
<1> QED BY <1>1, <1>2, <1>3, <1>4 DEF ReloadStep

(***************************************************************************)
(* Every step keeps the types.                                             *)
(***************************************************************************)
LEMMA LoaderTypes ==
    ASSUME TypeOK, LoaderNext \/ InotifyFails \/ EditFile \/ SaveFile
    PROVE  TypeOK'
<1> USE ConstantsAssumption
      DEF TypeOK, File, Snapshot, Forms, Loadable, Threads, Steps, At, Go,
          fileVars, loaderVars, mainVars
<1>0. -1 \in -1..(2 * MaxWrites + 1)
  OBVIOUS
<1>1. CASE StartWatch BY <1>1, MtimeType DEF StartWatch
<1>2. CASE WaitInotify BY <1>2 DEF WaitInotify
<1>3. CASE Reinstall BY <1>3 DEF Reinstall
<1>4. CASE ReinstallFails BY <1>0, <1>4 DEF ReinstallFails, Degrade
<1>5. CASE PollFile BY <1>5, MtimeType DEF PollFile
<1>6. CASE SendVersion BY <1>6 DEF SendVersion
<1>7. CASE ReloadStep("loader") BY <1>7, ReloadStepTypes
<1>8. CASE InotifyFails BY <1>0, <1>8 DEF InotifyFails, Degrade
<1>9. CASE EditFile
  <2>1. UNCHANGED <<snap, pc, local, notes, loaderVars, mainVars>>
    BY <1>9 DEF EditFile
  <2>2. CASE Truncate("editor")
    <3>1. file.gen + 1 \in 0..MaxWrites
      BY <2>2 DEF Truncate, MayWrite
    <3> QED BY <2>1, <2>2, <3>1 DEF Truncate
  <2>3. CASE Delete BY <2>1, <2>3 DEF Delete, Unlinked
  <2>4. ASSUME NEW form \in {"whole", "bad"}, Replace(form) PROVE TypeOK'
    <3>1. file.gen + 1 \in 0..MaxWrites
      BY <2>4 DEF Replace, MayWrite
    <3>2. queue' \subseteq {"closed", "gone"} /\ watched' \in BOOLEAN
      BY <2>4 DEF Replace, Unlinked
    <3> QED BY <2>1, <2>4, <3>1, <3>2 DEF Replace
  <2> QED BY <1>9, <2>2, <2>3, <2>4 DEF EditFile
<1>10. CASE SaveFile BY <1>10 DEF SaveFile, Close
<1> QED BY <1>1, <1>2, <1>3, <1>4, <1>5, <1>6, <1>7, <1>8, <1>9, <1>10 DEF LoaderNext

LEMMA MainTypes ==
    ASSUME TypeOK, MainNext
    PROVE  TypeOK'
<1> USE ConstantsAssumption
      DEF TypeOK, File, Snapshot, Forms, Loadable, Threads, Steps, At, Go,
          fileVars, loaderVars, mainVars, Relocked, DoReload
<1>1. CASE LoopTop BY <1>1 DEF LoopTop
<1>2. CASE RequestReload BY <1>2 DEF RequestReload
<1>3. CASE RequestApply BY <1>3 DEF RequestApply
<1>4. CASE SceneTruncates BY <1>4 DEF SceneTruncates, Truncate, MayWrite
<1>5. CASE SceneFails BY <1>5 DEF SceneFails
<1>6. CASE SceneWrites BY <1>6 DEF SceneWrites, Close
<1>7. CASE ApplyReload BY <1>7 DEF ApplyReload
<1>8. CASE NoRequest BY <1>8 DEF NoRequest
<1>9. CASE ReceiveVersion BY <1>9 DEF ReceiveVersion
<1>10. CASE NoChange BY <1>10 DEF NoChange
<1>11. CASE Relock BY <1>11 DEF Relock
<1>12. CASE HandleEvents BY <1>12 DEF HandleEvents
<1>13. CASE ReloadStep("main") BY <1>13, ReloadStepTypes
<1> QED
  BY <1>1, <1>2, <1>3, <1>4, <1>5, <1>6, <1>7, <1>8, <1>9, <1>10, <1>11, <1>12, <1>13
     DEF MainNext, MainStep

(***************************************************************************)
(* The state of the store, of both threads and of the file keeps its       *)
(* types, whoever reloads.                                                 *)
(***************************************************************************)
THEOREM ReloadTypes == Spec => []TypeOK
<1>1. Init => TypeOK
  <2> SUFFICES ASSUME Init PROVE TypeOK
    OBVIOUS
  <2>1. First \in Snapshot
    BY ConstantsAssumption DEF First, Snapshot, Loadable
  <2>2. file \in File /\ last \in -1..(2 * MaxWrites + 1) /\ requests \in 0..MaxRequests
    BY ConstantsAssumption DEF Init, File, Forms
  <2> QED BY <2>1, <2>2 DEF Init, TypeOK, Threads, Steps
<1>2. TypeOK /\ [Next]_vars => TypeOK'
  <2> SUFFICES ASSUME TypeOK, [Next]_vars PROVE TypeOK'
    OBVIOUS
  <2>1. CASE UNCHANGED vars
    BY <2>1 DEF vars, TypeOK
  <2> QED BY <2>1, LoaderTypes, MainTypes DEF Next
<1> QED BY <1>1, <1>2, PTL DEF Spec

-----------------------------------------------------------------------------
(***************************************************************************)
(* Why: the main thread is never inside reload(), so the version the       *)
(* loader took is still the one in force when it installs the next, and    *)
(* the content it read is no older than the one in force.                  *)
(***************************************************************************)
LoaderAlone ==
    /\ pc["main"] \notin {"reload", "load", "install", "notify", "scene", "write"}
    /\ snap.gen <= file.gen
    /\ pc["loader"] \in {"load", "install"} => local["loader"].version = snap.version + 1
    /\ pc["loader"] = "install" =>
          snap.gen <= local["loader"].gen /\ local["loader"].gen <= file.gen

(***************************************************************************)
(* Without IPC reloads the loader stays alone, and each step is one of the *)
(* abstract specification's or leaves its variables unchanged.             *)
(***************************************************************************)
LEMMA EditorSteps ==
    ASSUME TypeOK, LoaderAlone, EditFile \/ SaveFile
    PROVE  /\ LoaderAlone'
           /\ file'.gen \in {file.gen, file.gen + 1} /\ snap' = snap
<1>1. /\ UNCHANGED <<snap, pc, local>>
      /\ file'.gen \in {file.gen, file.gen + 1}
  BY DEF EditFile, SaveFile, Truncate, Replace, Delete, Close, TypeOK, File
<1>2. file.gen \in Nat /\ snap.gen \in Nat /\ local["loader"].gen \in Nat
  BY ConstantsAssumption DEF TypeOK, File, Snapshot, Threads
<1> QED BY <1>1, <1>2 DEF LoaderAlone

LEMMA LoaderSteps ==
    ASSUME TypeOK, LoaderAlone, LoaderNext \/ InotifyFails
    PROVE  /\ LoaderAlone'
           /\ file' = file
           /\ \/ snap' = snap
              \/ /\ snap'.version = snap.version + 1
                 /\ snap'.gen \in snap.gen..file.gen
<1>1. /\ pc \in [Threads -> Steps] /\ local \in [Threads -> Snapshot]
      /\ file.gen \in Nat /\ snap.gen \in Nat /\ snap.version \in Nat
  BY ConstantsAssumption DEF TypeOK, File, Snapshot
<1>2. "loader" \in Threads /\ "main" \in Threads
  BY DEF Threads
<1>3. CASE \/ StartWatch \/ WaitInotify \/ Reinstall \/ ReinstallFails \/ PollFile
           \/ SendVersion \/ InotifyFails
  <2>1. /\ UNCHANGED <<file, snap, local>>
        /\ pc'["loader"] \in {"wait", "gap", "reload"} /\ pc'["main"] = pc["main"]
    BY <1>1, <1>2, <1>3
       DEF StartWatch, WaitInotify, Reinstall, ReinstallFails, Degrade, PollFile,
           SendVersion, InotifyFails, Go, fileVars
  <2> QED BY <2>1 DEF LoaderAlone
<1>4. CASE ReloadStep("loader")
  <2> USE <1>1, <1>2 DEF At, Go, LoaderAlone, fileVars, Snapshot
  <2>1. CASE TakeVersion("loader") BY <2>1 DEF TakeVersion
  <2>2. CASE ReadFile("loader") BY <2>2 DEF ReadFile
  <2>3. CASE LoadFails("loader") BY <2>3 DEF LoadFails
  <2>4. CASE Install("loader") BY <2>4 DEF Install
  <2> QED BY <1>4, <2>1, <2>2, <2>3, <2>4 DEF ReloadStep
<1> QED BY <1>3, <1>4 DEF LoaderNext

LEMMA MainSteps ==
    ASSUME ~IpcReload, TypeOK, LoaderAlone, MainNext
    PROVE  LoaderAlone' /\ file' = file /\ snap' = snap
<1>1. pc \in [Threads -> Steps] /\ "loader" \in Threads /\ "main" \in Threads
  BY DEF TypeOK, Threads
<1>2. \/ LoopTop \/ RequestApply \/ NoRequest \/ ReceiveVersion \/ NoChange
      \/ Relock \/ HandleEvents
  BY DEF MainNext, MainStep, RequestReload, ApplyReload, SceneTruncates, SceneFails,
         SceneWrites, ReloadStep, TakeVersion, ReadFile, LoadFails, Install, At,
         LoaderAlone, Close
<1>3. /\ UNCHANGED <<file, snap, local>> /\ pc'["loader"] = pc["loader"]
      /\ pc'["main"] \in {pc["main"], "top", "requests", "changes", "relock", "events"}
  BY <1>1, <1>2
     DEF LoopTop, RequestApply, NoRequest, ReceiveVersion, NoChange, Relock,
         HandleEvents, Go, fileVars
<1> QED BY <1>3 DEF LoaderAlone

LEMMA AloneStep ==
    ASSUME ~IpcReload, TypeOK, LoaderAlone, [Next]_vars
    PROVE  LoaderAlone' /\ [Promise!Next]_(Promise!vars)
<1> USE DEF Promise!Next, Promise!Save, Promise!Load, Promise!vars
<1>1. CASE EditFile \/ SaveFile BY <1>1, EditorSteps
<1>2. CASE LoaderNext \/ InotifyFails BY <1>2, LoaderSteps
<1>3. CASE MainNext BY <1>3, MainSteps
<1>4. CASE UNCHANGED vars BY <1>4 DEF vars, LoaderAlone
<1> QED BY <1>1, <1>2, <1>3, <1>4 DEF Next

(***************************************************************************)
(* With no IPC client reloading, no reload is under way beside the         *)
(* loader's: what it installs follows what is in force.                    *)
(***************************************************************************)
THEOREM OnlyLoaderReloads ==
    ASSUME ~IpcReload
    PROVE  Spec => []LoaderAlone
<1>1. Init => LoaderAlone
  BY ConstantsAssumption DEF Init, LoaderAlone, First, Threads
<1>2. TypeOK /\ LoaderAlone /\ [Next]_vars => LoaderAlone'
  BY AloneStep
<1> QED BY <1>1, <1>2, ReloadTypes, PTL DEF Spec

(***************************************************************************)
(* With no IPC client reloading, hot reload implements VersionedConfig:    *)
(* versions count the reloads and no older content comes into force.       *)
(***************************************************************************)
THEOREM LoaderKeepsPromise ==
    ASSUME ~IpcReload
    PROVE  Spec => KeepsPromise
<1>1. Init => Promise!Init
  BY DEF Init, First, Promise!Init
<1>2. TypeOK /\ LoaderAlone /\ [Next]_vars => [Promise!Next]_(Promise!vars)
  BY AloneStep
<1> QED
  BY <1>1, <1>2, ReloadTypes, OnlyLoaderReloads, PTL DEF Spec, KeepsPromise, Promise!Spec

-----------------------------------------------------------------------------
(* Nothing that is saved is missed, if the file is left alone until the    *)
(* loader watches it.                                                      *)

\* The times of the file only grow, and a file half written is older than
\* the same one complete.
TimesGrow ==
    /\ writer # "none" <=> file.form = "partial"
    /\ last <= 2 * file.gen + 1
    /\ file.form = "partial" => last <= 2 * file.gen

\* The watch is lost only together with an event, or while it is reinstalled.
WatchKept ==
    /\ pc["loader"] = "start" => file.form = "whole" /\ InForce
    /\ pc["loader"] = "gap" => mode = "inotify"
    /\ mode = "inotify" /\ ~watched => pc["loader"] = "gap" \/ "gone" \in queue

\* What is complete was read after what is half written.
CompleteIsLater ==
    /\ file.form = "partial" => ~InForce
    /\ pc["loader"] = "install" =>
          /\ file.form = "partial" =>
                ~(local["loader"].gen = file.gen /\ local["loader"].form = "whole")
          /\ local["loader"].gen = snap.gen /\ snap.form = "whole" =>
                local["loader"].form = "whole"

MissedInv == TimesGrow /\ WatchKept /\ CompleteIsLater /\ NothingMissed

(***************************************************************************)
(* A writer's steps: a complete file is later than all the loader has      *)
(* seen, and leaves an event if the loader waits for one.                  *)
(***************************************************************************)
LEMMA EditsAreNoticed ==
    ASSUME QuietStart, TypeOK, LoaderAlone, MissedInv, EditFile \/ SaveFile
    PROVE  MissedInv'
<1>1. /\ UNCHANGED <<snap, pc, local, mode, last>>
      /\ file.gen \in Nat /\ snap.gen \in Nat /\ local["loader"].gen \in Nat /\ last \in Int
      /\ file = [gen |-> file.gen, form |-> file.form]
      /\ mode \in {"inotify", "poll"}
  BY ConstantsAssumption
     DEF EditFile, SaveFile, loaderVars, TypeOK, File, Snapshot, Threads
<1>2. ASSUME file'.gen = file.gen + 1, file'.form \in {"whole", "partial", "bad"},
             pc["loader"] # "start",
             IF file'.form = "partial"
             THEN writer' # "none" /\ UNCHANGED <<watched, queue>>
             ELSE writer' = "none" /\ Unlinked
      PROVE  MissedInv'
  <2>1. TimesGrow'
    BY <1>1, <1>2 DEF MissedInv, TimesGrow
  <2>2. WatchKept' /\ (mode = "inotify" /\ file'.form = "whole" => queue' # {} \/ pc["loader"] = "gap")
    BY <1>1, <1>2 DEF MissedInv, WatchKept, Unlinked
  <2>3. CompleteIsLater'
    BY <1>1, <1>2 DEF MissedInv, CompleteIsLater, InForce, LoaderAlone
  <2>4. file'.form = "whole" => Mtime' = 2 * file'.gen + 1
    BY DEF Mtime, Exists
  <2>5. NothingMissed'
    BY <1>1, <1>2, <2>2, <2>4 DEF MissedInv, TimesGrow, NothingMissed, UnderWay, Noticed
  <2> QED BY <2>1, <2>2, <2>3, <2>5 DEF MissedInv
<1>3. CASE Truncate("editor")
  BY <1>1, <1>2, <1>3 DEF Truncate, MayWrite, At
<1>4. CASE \E form \in {"whole", "bad"} : Replace(form)
  <2>1. writer' = "none"
    BY <1>4 DEF Replace, MayWrite
  <2> QED BY <1>1, <1>2, <1>4, <2>1 DEF Replace, MayWrite, At
<1>5. CASE Delete
  <2>1. /\ file'.gen = file.gen /\ file'.form = "missing" /\ writer' = "none"
        /\ pc["loader"] # "start" /\ Unlinked
    BY <1>1, <1>5 DEF Delete, MayWrite, At
  <2>2. TimesGrow'
    BY <1>1, <2>1 DEF MissedInv, TimesGrow
  <2>3. WatchKept'
    BY <1>1, <2>1 DEF MissedInv, WatchKept, Unlinked
  <2>4. CompleteIsLater' /\ NothingMissed'
    BY <1>1, <2>1 DEF MissedInv, CompleteIsLater, NothingMissed
  <2> QED BY <2>2, <2>3, <2>4 DEF MissedInv
<1>6. CASE SaveFile
  <2>1. PICK form \in {"whole", "bad"} : Close("editor", form)
    BY <1>6 DEF SaveFile
  <2>2. /\ file.form = "partial" /\ file'.gen = file.gen /\ file'.form = form
        /\ writer' = "none" /\ watched' = watched
        /\ queue' = IF watched THEN queue \cup {"closed"} ELSE queue
    BY <1>1, <2>1 DEF Close, MissedInv, TimesGrow
  <2>3. TimesGrow'
    BY <1>1, <2>2 DEF MissedInv, TimesGrow
  <2>4. WatchKept' /\ (mode = "inotify" => queue' # {} \/ pc["loader"] = "gap")
    BY <1>1, <2>2 DEF MissedInv, WatchKept
  <2>5. CompleteIsLater'
    BY <1>1, <2>2 DEF MissedInv, CompleteIsLater
  <2>6. form = "whole" => Mtime' = 2 * file.gen + 1
    BY <2>2 DEF Mtime, Exists
  <2>7. form = "whole" => Noticed' \/ UnderWay'
    <3>1. CASE mode = "inotify" BY <1>1, <2>4, <3>1 DEF Noticed, UnderWay
    <3>2. CASE mode # "inotify"
      <4>1. last' <= 2 * file.gen /\ last' \in Int /\ mode' # "inotify"
        BY <1>1, <2>2, <3>2 DEF MissedInv, TimesGrow
      <4> QED BY <1>1, <2>6, <4>1 DEF Noticed
    <3> QED BY <3>1, <3>2
  <2>8. NothingMissed'
    BY <2>2, <2>7 DEF NothingMissed
  <2> QED BY <2>3, <2>4, <2>5, <2>8 DEF MissedInv
<1> QED BY <1>3, <1>4, <1>5, <1>6 DEF EditFile

(***************************************************************************)
(* The loader's steps: it gives up an event or a time only for a read of   *)
(* the file, and installs what it read.                                    *)
(***************************************************************************)
LEMMA LoaderMissesNone ==
    ASSUME TypeOK, LoaderAlone, MissedInv, LoaderNext \/ InotifyFails
    PROVE  MissedInv'
<1>1. /\ pc \in [Threads -> Steps] /\ local \in [Threads -> Snapshot]
      /\ "loader" \in Threads /\ file.gen \in Nat /\ last \in Int
      /\ mode \in {"inotify", "poll"} /\ snap.gen \in Nat
  BY ConstantsAssumption DEF TypeOK, Threads, File, Snapshot
<1>2. /\ Mtime \in Int /\ Mtime <= 2 * file.gen + 1 /\ (file.form = "whole" => Mtime # -1)
      /\ (file.form = "partial" => Mtime <= 2 * file.gen)
  BY <1>1 DEF Mtime, Exists
<1>3. ASSUME UNCHANGED <<file, writer, snap, local>>, last' \in {last, Mtime, -1},
             pc'["loader"] \in {"wait", "gap", "reload"}, WatchKept', NothingMissed'
      PROVE  MissedInv'
  <2>1. TimesGrow'
    BY <1>1, <1>2, <1>3 DEF MissedInv, TimesGrow
  <2>2. CompleteIsLater'
    BY <1>3 DEF MissedInv, CompleteIsLater, InForce
  <2> QED BY <1>3, <2>1, <2>2 DEF MissedInv
<1>4. CASE StartWatch
  <2>1. /\ UNCHANGED <<file, writer, snap, local>> /\ pc'["loader"] = "wait" /\ last' = Mtime
        /\ (mode' = "inotify" => watched') /\ InForce
    BY <1>1, <1>4 DEF StartWatch, At, Go, MissedInv, WatchKept
  <2>2. WatchKept' /\ NothingMissed'
    BY <2>1 DEF WatchKept, NothingMissed, InForce
  <2> QED BY <1>3, <2>1, <2>2
<1>5. CASE WaitInotify
  <2>1. /\ UNCHANGED <<file, writer, snap, local, mode, last, watched>>
        /\ pc'["loader"] = IF "gone" \in queue THEN "gap" ELSE "reload"
        /\ mode = "inotify" /\ (~watched => "gone" \in queue)
    BY <1>1, <1>5 DEF WaitInotify, At, Go, loaderVars, MissedInv, WatchKept
  <2>2. WatchKept' /\ NothingMissed'
    BY <2>1 DEF WatchKept, NothingMissed, UnderWay
  <2> QED BY <1>3, <2>1, <2>2
<1>6. CASE Reinstall
  <2>1. /\ UNCHANGED <<file, writer, snap, local, mode, last>>
        /\ pc'["loader"] = "reload" /\ watched'
    BY <1>1, <1>6 DEF Reinstall, At, Go, loaderVars
  <2>2. WatchKept' /\ NothingMissed'
    BY <2>1 DEF WatchKept, NothingMissed, UnderWay
  <2> QED BY <1>3, <2>1, <2>2
<1>7. CASE ReinstallFails \/ InotifyFails
  <2>1. /\ UNCHANGED <<file, writer, snap, local>> /\ last' = -1
        /\ pc'["loader"] = "wait" /\ mode' = "poll"
    BY <1>1, <1>7 DEF ReinstallFails, InotifyFails, Degrade, Go
  <2>2. Mtime' = Mtime
    BY <2>1 DEF Mtime, Exists
  <2>3. WatchKept' /\ NothingMissed'
    BY <1>2, <2>1, <2>2 DEF WatchKept, NothingMissed, Noticed
  <2> QED BY <1>3, <2>1, <2>3
<1>8. CASE PollFile
  <2>1. /\ UNCHANGED <<file, writer, snap, local, mode, watched, queue>> /\ last' = Mtime
        /\ pc'["loader"] = (IF Exists THEN "reload" ELSE "wait") /\ mode = "poll"
    BY <1>1, <1>8 DEF PollFile, At, Go, fileVars
  <2>2. WatchKept' /\ NothingMissed'
    BY <2>1 DEF WatchKept, NothingMissed, UnderWay, Exists
  <2> QED BY <1>3, <2>1, <2>2
<1>9. ASSUME UNCHANGED <<file, writer, mode, last, watched, queue>>,
             pc["loader"] \notin {"start", "gap"}, pc'["loader"] \notin {"start", "gap"}
      PROVE  TimesGrow' /\ WatchKept' /\ (Noticed => Noticed')
  BY <1>9 DEF MissedInv, TimesGrow, WatchKept, Noticed, Mtime, Exists
<1>10. CASE SendVersion \/ TakeVersion("loader")
  <2>1. /\ UNCHANGED <<file, writer, mode, last, watched, queue, snap>>
        /\ \/ pc["loader"] = "notify" /\ pc'["loader"] = "wait"
           \/ pc["loader"] = "reload" /\ pc'["loader"] = "load"
    BY <1>1, <1>10 DEF SendVersion, TakeVersion, At, Go, fileVars, loaderVars
  <2>2. CompleteIsLater'
    BY <2>1 DEF MissedInv, CompleteIsLater, InForce
  <2>3. NothingMissed'
    BY <1>9, <2>1 DEF MissedInv, NothingMissed, UnderWay, InForce
  <2> QED BY <1>9, <2>1, <2>2, <2>3 DEF MissedInv
<1>11. CASE ReadFile("loader")
  <2>1. /\ UNCHANGED <<file, writer, mode, last, watched, queue, snap>>
        /\ pc["loader"] = "load" /\ pc'["loader"] = "install"
        /\ local'["loader"].gen = file.gen /\ local'["loader"].form = file.form
        /\ file.form \in {"whole", "partial"}
    BY <1>1, <1>11 DEF ReadFile, At, Go, fileVars, loaderVars, Snapshot, Loadable
  <2>2. CompleteIsLater'
    BY <2>1 DEF MissedInv, CompleteIsLater, InForce
  <2>3. NothingMissed'
    BY <2>1 DEF NothingMissed, UnderWay
  <2> QED BY <1>9, <2>1, <2>2, <2>3 DEF MissedInv
<1>12. CASE LoadFails("loader")
  <2>1. /\ UNCHANGED <<file, writer, mode, last, watched, queue, snap>>
        /\ pc["loader"] = "load" /\ pc'["loader"] = "wait" /\ file.form \notin {"whole", "partial"}
    BY <1>1, <1>12 DEF LoadFails, At, Go, fileVars, loaderVars, Loadable
  <2>2. CompleteIsLater' /\ NothingMissed'
    BY <2>1 DEF CompleteIsLater, NothingMissed
  <2> QED BY <1>9, <2>1, <2>2 DEF MissedInv
<1>13. CASE Install("loader")
  <2>1. /\ UNCHANGED <<file, writer, mode, last, watched, queue>>
        /\ pc["loader"] = "install" /\ pc'["loader"] = "notify" /\ snap' = local["loader"]
    BY <1>1, <1>13 DEF Install, At, Go, fileVars, loaderVars
  <2>2. local["loader"].gen \in Nat /\ snap.gen <= local["loader"].gen
        /\ local["loader"].gen <= file.gen
    BY <1>1, <2>1 DEF LoaderAlone, Snapshot
  <2>3. InForce => InForce'
    BY <1>1, <2>1, <2>2 DEF MissedInv, CompleteIsLater, InForce
  <2>4. CompleteIsLater'
    BY <2>1 DEF MissedInv, CompleteIsLater, InForce
  <2>5. NothingMissed'
    <3>1. CASE file.form = "whole" /\ UnderWay
      BY <2>1, <3>1 DEF NothingMissed, UnderWay, InForce
    <3> QED BY <1>9, <2>1, <2>3, <3>1 DEF MissedInv, NothingMissed
  <2> QED BY <1>9, <2>1, <2>4, <2>5 DEF MissedInv
<1> QED
  BY <1>4, <1>5, <1>6, <1>7, <1>8, <1>10, <1>11, <1>12, <1>13 DEF LoaderNext, ReloadStep

\* The main loop, with no IPC reload, touches nothing of this.
LEMMA MainMissesNone ==
    ASSUME ~IpcReload, TypeOK, LoaderAlone, MissedInv, MainNext
    PROVE  MissedInv'
<1>1. pc \in [Threads -> Steps] /\ "loader" \in Threads /\ "main" \in Threads
  BY DEF TypeOK, Threads
<1>2. \/ LoopTop \/ RequestApply \/ NoRequest \/ ReceiveVersion \/ NoChange
      \/ Relock \/ HandleEvents
  BY DEF MainNext, MainStep, RequestReload, ApplyReload, SceneTruncates, SceneFails,
         SceneWrites, ReloadStep, TakeVersion, ReadFile, LoadFails, Install, At,
         LoaderAlone, Close
<1>3. /\ UNCHANGED <<file, writer, watched, queue, snap, local, mode, last>>
      /\ pc'["loader"] = pc["loader"]
  BY <1>1, <1>2
     DEF LoopTop, RequestApply, NoRequest, ReceiveVersion, NoChange, Relock,
         HandleEvents, Go, fileVars, loaderVars
<1> QED
  BY <1>3 DEF MissedInv, TimesGrow, WatchKept, CompleteIsLater, NothingMissed, InForce,
              UnderWay, Noticed, Mtime, Exists

(***************************************************************************)
(* The loader misses no complete configuration, for any number of writes,  *)
(* replacements, deletions and failures of inotify: the safety under the   *)
(* promise that what is saved is loaded (store.rs, spawn_hot_reload). No   *)
(* IPC client reloads, and the file is left alone until it is watched.     *)
(***************************************************************************)
THEOREM LoaderMissesNothing ==
    ASSUME ~IpcReload, QuietStart
    PROVE  Spec => []NothingMissed
<1>1. Init => MissedInv
  BY DEF Init, First, MissedInv, TimesGrow, WatchKept, CompleteIsLater, NothingMissed, InForce,
         Threads
<1>2. TypeOK /\ LoaderAlone /\ MissedInv /\ [Next]_vars => MissedInv'
  <2>1. CASE UNCHANGED vars
    BY <2>1 DEF vars, MissedInv, TimesGrow, WatchKept, CompleteIsLater, NothingMissed, InForce,
                UnderWay, Noticed, Mtime, Exists
  <2> QED BY <2>1, EditsAreNoticed, LoaderMissesNone, MainMissesNone DEF Next
<1>3. MissedInv => NothingMissed
  BY DEF MissedInv
<1> QED BY <1>1, <1>2, <1>3, ReloadTypes, OnlyLoaderReloads, PTL DEF Spec

(***************************************************************************)
(* No install goes without its do_reload, by either thread, in whatever    *)
(* order and with IPC reloads too: what is in force is what the tracker    *)
(* was refreshed with, or the thread that installed is about to say so, or *)
(* its message waits for the main loop (main.rs, store.rs).                *)
(***************************************************************************)
RefreshOwed ==
    refreshed = snap \/ notes > 0 \/ \E t \in Threads : pc[t] = "notify"

THEOREM NoInstallUnanswered == Spec => []RefreshOwed
<1>1. Init => RefreshOwed
  BY DEF Init, RefreshOwed
<1>2. TypeOK /\ RefreshOwed /\ [Next]_vars => RefreshOwed'
  <2> SUFFICES ASSUME TypeOK, RefreshOwed, [Next]_vars PROVE RefreshOwed'
    OBVIOUS
  <2>1. pc \in [Threads -> Steps] /\ "loader" \in Threads /\ "main" \in Threads /\ notes \in Nat
    BY DEF TypeOK, Threads
  <2>2. ASSUME UNCHANGED <<snap, refreshed, notes>>,
               \A t \in Threads : pc[t] = "notify" => pc'[t] = "notify"
        PROVE  RefreshOwed'
    BY <2>1, <2>2 DEF RefreshOwed
  <2>3. CASE EditFile \/ SaveFile \/ UNCHANGED vars
    BY <2>1, <2>3 DEF EditFile, SaveFile, vars, mainVars, RefreshOwed
  <2>4. CASE LoaderNext \/ InotifyFails
    <3>1. CASE SendVersion BY <2>1, <3>1 DEF SendVersion, RefreshOwed
    <3>2. CASE ReloadStep("loader")
      BY <2>1, <3>2 DEF ReloadStep, TakeVersion, ReadFile, LoadFails, Install, At, Go,
                        mainVars, RefreshOwed
    <3>3. CASE StartWatch \/ WaitInotify \/ Reinstall \/ ReinstallFails \/ PollFile \/ InotifyFails
      BY <2>1, <2>2, <3>3
         DEF StartWatch, WaitInotify, Reinstall, ReinstallFails, PollFile, InotifyFails, Degrade,
             At, Go, mainVars
    <3> QED BY <2>4, <3>1, <3>2, <3>3 DEF LoaderNext
  <2>5. CASE MainNext
    <3>1. CASE ApplyReload \/ ReceiveVersion
      BY <3>1 DEF ApplyReload, ReceiveVersion, DoReload, RefreshOwed
    <3>2. CASE ReloadStep("main")
      BY <2>1, <3>2 DEF ReloadStep, TakeVersion, ReadFile, LoadFails, Install, At, Go,
                        mainVars, RefreshOwed
    <3>3. CASE LoopTop \/ RequestReload \/ RequestApply \/ NoRequest \/ NoChange
               \/ Relock \/ HandleEvents
      BY <2>1, <2>2, <3>3
         DEF LoopTop, RequestReload, RequestApply, NoRequest, NoChange, Relock, HandleEvents,
             At, Go, mainVars
    <3>4. CASE SceneTruncates \/ SceneFails \/ SceneWrites
      BY <2>1, <2>2, <3>4 DEF SceneTruncates, SceneFails, SceneWrites, At, Go, mainVars
    <3> QED BY <2>5, <3>1, <3>2, <3>3, <3>4 DEF MainNext, MainStep
  <2> QED BY <2>3, <2>4, <2>5 DEF Next
<1> QED BY <1>1, <1>2, ReloadTypes, PTL DEF Spec

=============================================================================
