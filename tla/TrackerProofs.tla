--------------------------- MODULE TrackerProofs ---------------------------
(* The invariants of Tracker, for every value of its constants.            *)
EXTENDS Tracker, FiniteSetTheorems, TLAPS

(***************************************************************************)
(* What every handler leaves behind, with T the pids then tracked: all of  *)
(* the invariant but what concerns the configuration and the relock pass.  *)
(***************************************************************************)
TrackedBecomes(T) ==
    /\ names' \in [Pids -> SUBSET Pkgs]
    /\ start' \in [Pids -> 0..MaxStart]
    /\ loc' \in [Pids -> [Slots -> Places]]
    /\ kdirs' \subseteq Dirs
    /\ procs' \in [Pids -> Entry]
    /\ refs' \in [Dirs -> Nat]
    /\ ensured' \subseteq Dirs
    /\ Tracked' = T
    /\ UntrackedHoldNothing'
    /\ RefCount'

(***************************************************************************)
(* The invariant holds after a handler if the configuration is one of      *)
(* Configs and the relock pass waits for tracked pids only.                *)
(***************************************************************************)
LEMMA InvFromTracked ==
    ASSUME NEW T, TrackedBecomes(T), cfg' \in Configs, todo' \subseteq T
    PROVE  TrackerInv'
BY DEF Tracked, TrackedBecomes, TrackerInv, TypeOK, TodoTracked

(***************************************************************************)
(* Removing the processes of S leaves each directory the count of its      *)
(* remaining holders: the saturating subtraction never saturates.          *)
(***************************************************************************)
Remaining(S, d) == {p \in Pids \ S : d \in procs[p].dirs}

LEMMA ReleaseCount ==
    ASSUME TrackerInv, NEW S \in SUBSET Pids, NEW d \in Dirs
    PROVE  /\ RefsWithout(S)[d] = Cardinality(Remaining(S, d))
           /\ RefsWithout(S)[d] \in Nat
<1> DEFINE H == Holders(d)
           L == {p \in S : d \in procs[p].dirs}
           R == Remaining(S, d)
<1>1. IsFiniteSet(H) /\ IsFiniteSet(L) /\ IsFiniteSet(R)
  BY FS_Subset, PidsAssumption DEF Holders, Remaining
<1>2. H = L \cup R /\ L \cap R = {}
  BY DEF Holders, Remaining
<1>3. Cardinality(H) = Cardinality(L) + Cardinality(R)
  <2>1. Cardinality(L \cup R) = Cardinality(L) + Cardinality(R) - Cardinality(L \cap R)
    BY <1>1, FS_Union
  <2>2. Cardinality(L \cap R) = 0
    BY <1>2, FS_EmptySet
  <2>3. Cardinality(L) \in Nat /\ Cardinality(R) \in Nat
    BY <1>1, FS_CardinalityType
  <2> QED BY <1>2, <2>1, <2>2, <2>3
<1>4. Cardinality(L) \in Nat /\ Cardinality(R) \in Nat
  BY <1>1, FS_CardinalityType
<1>5. refs[d] = Cardinality(H)
  BY DEF TrackerInv, RefCount
<1>6. RefsWithout(S)[d] = Minus(refs[d], Cardinality(L))
  BY DEF RefsWithout
<1>7. Minus(refs[d], Cardinality(L)) = Cardinality(R)
  BY <1>3, <1>4, <1>5 DEF Minus
<1> QED BY <1>4, <1>6, <1>7

(***************************************************************************)
(* release_state preserves the invariant.                                  *)
(***************************************************************************)
LEMMA ReleasePreserves ==
    ASSUME TrackerInv, NEW S \in SUBSET Pids, Release(S)
    PROVE  TrackedBecomes(Tracked \ S)
<1>1. NoEntry \in Entry /\ NoEntry.pkg = NoPkg /\ NoEntry.dirs = {}
  BY BoundsAssumption DEF NoEntry, NewEntry, Entry
<1>2. procs' = [p \in Pids |-> IF p \in S THEN NoEntry ELSE procs[p]]
  BY DEF Release
<1>3. procs' \in [Pids -> Entry]
  BY <1>1, <1>2 DEF TrackerInv, TypeOK
<1>4. Tracked' = Tracked \ S
  BY <1>1, <1>2 DEF Tracked
<1>5. UntrackedHoldNothing'
  BY <1>1, <1>2, <1>4 DEF UntrackedHoldNothing, Tracked, TrackerInv
<1>6. refs' \in [Dirs -> Nat]
  <2>1. refs' = RefsWithout(S)
    BY DEF Release
  <2>2. \A d \in Dirs : RefsWithout(S)[d] \in Nat
    BY ReleaseCount
  <2>3. RefsWithout(S) = [d \in Dirs |-> RefsWithout(S)[d]]
    BY DEF RefsWithout
  <2> QED BY <2>1, <2>2, <2>3
<1>7. RefCount'
  <2> SUFFICES ASSUME NEW d \in Dirs PROVE refs'[d] = Cardinality(Holders(d)')
    BY DEF RefCount
  <2>1. Holders(d)' = Remaining(S, d)
    BY <1>1, <1>2 DEF Holders, Remaining
  <2>2. refs'[d] = RefsWithout(S)[d]
    BY DEF Release
  <2> QED BY <2>1, <2>2, ReleaseCount
<1> QED
  BY <1>3, <1>4, <1>5, <1>6, <1>7 DEF TrackedBecomes, Release, TrackerInv, TypeOK

(***************************************************************************)
(* Applying policies to the threads of p and registering the directories   *)
(* used preserves the invariant, if the stored entry starts from the       *)
(* directories p still has: none once it was released.                     *)
(***************************************************************************)
LEMMA ApplyPreserves ==
    ASSUME TrackerInv, NEW p \in Pids, NEW S \in {{}, {p}},
           NEW e \in Entry, e.pkg # NoPkg,
           e.dirs = (IF S = {} THEN procs[p].dirs ELSE {}),
           NEW r, DOMAIN r \subseteq Slots, \A s \in DOMAIN r : r[s] \in Result,
           Apply(p, S, e, r)
    PROVE  TrackedBecomes(Tracked \cup {p})
<1> DEFINE e1 == [e EXCEPT !.dirs = e.dirs \cup UsedDirs(r)]
<1>1. UsedDirs(r) \subseteq Dirs /\ WantedDirs(r) \subseteq Dirs
  BY DEF UsedDirs, WantedDirs
<1>2. e1 \in Entry /\ e1.pkg = e.pkg /\ e1.dirs = e.dirs \cup UsedDirs(r)
  BY <1>1 DEF Entry
<1>3. procs' = [procs EXCEPT ![p] = e1]
  BY DEF Apply
<1>4. procs \in [Pids -> Entry]
  BY DEF TrackerInv, TypeOK
<1>5. procs' \in [Pids -> Entry]
  BY <1>2, <1>3, <1>4
<1>6. Tracked' = Tracked \cup {p}
  BY <1>2, <1>3, <1>4 DEF Tracked
<1>7. UntrackedHoldNothing'
  BY <1>3, <1>4, <1>6 DEF UntrackedHoldNothing, TrackerInv
<1>8. loc' \in [Pids -> [Slots -> Places]]
  <2> DEFINE died == {s \in DOMAIN r : r[s].outcome = "exited"}
             ends == IF MainSlot \in died THEN Slots ELSE died
             row == [s \in Slots |->
                       IF s \in ends THEN Gone
                       ELSE IF s \in DOMAIN r /\ r[s].joined THEN r[s].policy
                       ELSE loc[p][s]]
  <2>1. loc' = [loc EXCEPT ![p] = row]
    BY DEF Apply
  <2>2. ASSUME NEW s \in Slots PROVE row[s] \in Places
    <3>1. CASE s \in ends
      BY <3>1 DEF Places
    <3>2. CASE s \notin ends /\ s \in DOMAIN r /\ r[s].joined
      <4>1. r[s].policy \in kdirs'
        BY <3>2 DEF Apply
      <4>2. kdirs' \subseteq Dirs
        BY <1>1 DEF Apply, MadeDirs, TrackerInv, TypeOK
      <4> QED BY <3>2, <4>1, <4>2 DEF Places
    <3>3. CASE s \notin ends /\ ~(s \in DOMAIN r /\ r[s].joined)
      BY <3>3 DEF TrackerInv, TypeOK
    <3> QED BY <3>1, <3>2, <3>3
  <2>3. row \in [Slots -> Places]
    BY <2>2
  <2> HIDE DEF row
  <2> QED BY <2>1, <2>3 DEF TrackerInv, TypeOK
<1>9. kdirs' \subseteq Dirs /\ ensured' \subseteq Dirs
  BY <1>1 DEF Apply, MadeDirs, TrackerInv, TypeOK
<1>10. ASSUME NEW d \in Dirs
       PROVE  refs'[d] \in Nat /\ refs'[d] = Cardinality(Holders(d)')
  <2> DEFINE R == Remaining(S, d)
  <2>1. IsFiniteSet(R)
    BY FS_Subset, PidsAssumption DEF Remaining
  <2>2. RefsWithout(S)[d] = Cardinality(R) /\ Cardinality(R) \in Nat
    BY ReleaseCount
  <2>3. refs'[d] = RefsWithout(S)[d] + (IF d \in UsedDirs(r) \ e.dirs THEN 1 ELSE 0)
    BY DEF Apply
  <2>4. Holders(d)' = IF d \in UsedDirs(r) \cup e.dirs THEN R \cup {p} ELSE R \ {p}
    BY <1>2, <1>3, <1>4 DEF Holders, Remaining
  <2>5. p \in R <=> d \in e.dirs
    BY DEF Remaining
  <2>6. CASE d \in UsedDirs(r) \ e.dirs
    <3>1. Cardinality(R \cup {p}) = Cardinality(R) + 1
      BY <2>1, <2>5, <2>6, FS_AddElement
    <3> QED BY <2>2, <2>3, <2>4, <2>6, <3>1
  <2>7. CASE d \notin UsedDirs(r) \ e.dirs
    <3>1. Holders(d)' = R
      BY <2>4, <2>5, <2>7
    <3> QED BY <2>2, <2>3, <2>7, <3>1
  <2> QED BY <2>6, <2>7
<1>11. refs' \in [Dirs -> Nat]
  <2>1. refs' = [d \in Dirs |-> refs'[d]]
    BY DEF Apply
  <2> QED BY <1>10, <2>1
<1>12. RefCount'
  BY <1>10 DEF RefCount
<1> QED
  BY <1>5, <1>6, <1>7, <1>8, <1>9, <1>11, <1>12 DEF TrackedBecomes, Apply, TrackerInv, TypeOK

(***************************************************************************)
(* enter(): the entry returned is a package's, and carries the directories *)
(* the pid had unless the pid was reused; then it carries none.            *)
(***************************************************************************)
LEMMA EnteredEntry ==
    ASSUME TrackerInv, NEW p \in Pids, NEW pkg \in Pkgs
    PROVE  /\ Entered(p, pkg) \in Entry
           /\ Entered(p, pkg).pkg # NoPkg
           /\ Entered(p, pkg).dirs =
                 IF ReusedPid(p, pkg) THEN {} ELSE procs[p].dirs
           /\ NewEntry(pkg, ReadStart(p)) \in Entry
           /\ NewEntry(pkg, ReadStart(p)).pkg # NoPkg
           /\ NewEntry(pkg, ReadStart(p)).dirs = {}
<1>1. ReadStart(p) \in 0..MaxStart
  BY BoundsAssumption DEF ReadStart, TrackerInv, TypeOK
<1>2. /\ NewEntry(pkg, ReadStart(p)) \in Entry
      /\ NewEntry(pkg, ReadStart(p)).pkg # NoPkg
      /\ NewEntry(pkg, ReadStart(p)).dirs = {}
  BY <1>1, NamesAssumption DEF NewEntry, Entry
<1>3. procs[p] \in Entry
  BY DEF TrackerInv, TypeOK
<1>4. CASE p \notin Tracked \/ ReusedPid(p, pkg)
  <2>1. p \notin Tracked => procs[p].dirs = {}
    BY DEF TrackerInv, UntrackedHoldNothing
  <2> QED BY <1>2, <1>4, <2>1 DEF Entered
<1>5. CASE p \in Tracked /\ ~ReusedPid(p, pkg)
  <2>1. /\ [procs[p] EXCEPT !.pkg = pkg] \in Entry
        /\ [procs[p] EXCEPT !.pkg = pkg].pkg = pkg
        /\ [procs[p] EXCEPT !.pkg = pkg].dirs = procs[p].dirs
    BY <1>3 DEF Entry
  <2>2. pkg # NoPkg /\ procs[p].pkg # NoPkg
    BY <1>5, NamesAssumption DEF Tracked
  <2> QED BY <1>2, <1>3, <1>5, <2>1, <2>2 DEF Entered
<1> QED BY <1>4, <1>5

(***************************************************************************)
(* refresh_process_rules and apply_single_tid track the process and        *)
(* preserve the invariant.                                                 *)
(***************************************************************************)
LEMMA ResultsTyped ==
    ASSUME NEW c, NEW pkg, NEW x
    PROVE  ThreadResults(c, pkg, x) \subseteq Result
BY DEF ThreadResults

LEMMA RefreshPreserves ==
    ASSUME TrackerInv, NEW p \in Pids, NEW pkg \in Pkgs, NEW c,
           NEW removed \in BOOLEAN, NEW mark \in BOOLEAN,
           Refresh(p, pkg, c, removed, mark)
    PROVE  TrackedBecomes(Tracked \cup {p})
<1> DEFINE e0 == IF removed THEN NewEntry(pkg, ReadStart(p)) ELSE Entered(p, pkg)
           S == IF removed \/ ReusedPid(p, pkg) THEN {p} ELSE {}
           e == [e0 EXCEPT !.applied = ThreadsOf(p), !.scanned = e0.scanned \/ mark]
<1>1. PICK r \in [ThreadsOf(p) -> ThreadResults(c, pkg, TRUE)] : Apply(p, S, e, r)
  BY DEF Refresh
<1>2. /\ DOMAIN r \subseteq Slots
      /\ \A s \in DOMAIN r : r[s] \in Result
  BY <1>1, ResultsTyped DEF ThreadsOf
<1>3. /\ e0 \in Entry /\ e0.pkg # NoPkg
      /\ e0.dirs = IF S = {} THEN procs[p].dirs ELSE {}
  BY EnteredEntry
<1>4. S \in {{}, {p}}
  OBVIOUS
<1> HIDE DEF e0, S
<1>5. e \in Entry /\ e.pkg = e0.pkg /\ e.dirs = e0.dirs
  BY <1>3 DEF Entry, ThreadsOf
<1> HIDE DEF e
<1> QED BY <1>1, <1>2, <1>3, <1>4, <1>5, ApplyPreserves

LEMMA ApplySinglePreserves ==
    ASSUME TrackerInv, NEW p \in Pids, NEW s \in Slots, NEW pkg \in Pkgs, NEW c,
           ApplySingle(p, s, pkg, c)
    PROVE  TrackedBecomes(Tracked \cup {p})
<1> DEFINE e == Entered(p, pkg)
           S == IF ReusedPid(p, pkg) THEN {p} ELSE {}
<1>1. /\ e \in Entry /\ e.pkg # NoPkg
      /\ e.dirs = IF S = {} THEN procs[p].dirs ELSE {}
  BY EnteredEntry
<1>2. S \in {{}, {p}}
  OBVIOUS
<1>3. CASE s \in e.applied
  <2>1. Apply(p, S, e, <<>>)
    BY <1>3 DEF ApplySingle
  <2>2. DOMAIN <<>> = {}
    OBVIOUS
  <2> HIDE DEF e, S
  <2> QED BY <1>1, <1>2, <2>1, <2>2, ApplyPreserves
<1>4. CASE s \notin e.applied
  <2>1. PICK res \in ThreadResults(c, pkg, s \in ThreadsOf(p)) :
          Apply(p, S, IF res.outcome = "exited" THEN e
                      ELSE [e EXCEPT !.applied = @ \cup {s}], [x \in {s} |-> res])
    BY <1>4 DEF ApplySingle
  <2> DEFINE e1 == IF res.outcome = "exited" THEN e
                   ELSE [e EXCEPT !.applied = @ \cup {s}]
             r == [x \in {s} |-> res]
  <2> HIDE DEF e, S
  <2>2. e1 \in Entry /\ e1.pkg = e.pkg /\ e1.dirs = e.dirs
    BY <1>1 DEF Entry
  <2>3. res \in Result
    BY <2>1, ResultsTyped
  <2>4. DOMAIN r \subseteq Slots /\ \A x \in DOMAIN r : r[x] \in Result
    BY <2>3
  <2>5. Apply(p, S, e1, r)
    BY <2>1
  <2> HIDE DEF e1, r
  <2> QED BY <1>1, <1>2, <2>2, <2>4, <2>5, ApplyPreserves
<1> QED BY <1>3, <1>4

(***************************************************************************)
(* The kernel's own steps leave the tracker alone and its state typed.     *)
(***************************************************************************)
LEMMA KernelPreserves ==
    ASSUME TrackerInv, KernelNext
    PROVE  TrackerInv'
<1>1. PICK p \in Pids :
        \/ \E pkg \in Pkgs : StartProcess(p, pkg) \/ ExecImage(p, pkg)
        \/ \E s \in Slots : StartThread(p, s) \/ EndThread(p, s) \/ MoveOut(p, s)
        \/ EndProcess(p)
  BY DEF KernelNext
<1>2. UNCHANGED <<kdirs, daemon>>
  BY <1>1 DEF StartProcess, ExecImage, StartThread, EndThread, MoveOut, EndProcess
<1>3. names' \in [Pids -> SUBSET Pkgs]
  BY <1>1 DEF StartProcess, ExecImage, StartThread, EndThread, MoveOut, EndProcess,
              TrackerInv, TypeOK
<1>4. start' \in [Pids -> 0..MaxStart]
  BY <1>1, BoundsAssumption
     DEF StartProcess, ExecImage, StartThread, EndThread, MoveOut, EndProcess,
         TrackerInv, TypeOK
<1>5. loc' \in [Pids -> [Slots -> Places]]
  <2>1. Outside \in Places /\ Gone \in Places /\ Inheritable \subseteq Places
    BY DEF Places, Inheritable, Occupied
  <2>2. \A row \in [Slots -> Places] : [loc EXCEPT ![p] = row] \in [Pids -> [Slots -> Places]]
    BY DEF TrackerInv, TypeOK
  <2>3. ASSUME NEW s \in Slots, NEW l \in Places, loc' = [loc EXCEPT ![p][s] = l]
        PROVE  loc' \in [Pids -> [Slots -> Places]]
    BY <2>3 DEF TrackerInv, TypeOK
  <2>4. ASSUME NEW pkg \in Pkgs, StartProcess(p, pkg)
        PROVE  loc' \in [Pids -> [Slots -> Places]]
    <3>1. PICK l \in Inheritable :
            loc' = [loc EXCEPT ![p] = [s \in Slots |-> IF s = MainSlot THEN l ELSE Gone]]
      BY <2>4 DEF StartProcess
    <3>2. [s \in Slots |-> IF s = MainSlot THEN l ELSE Gone] \in [Slots -> Places]
      BY <2>1
    <3> QED BY <2>2, <3>1, <3>2
  <2>5. ASSUME NEW pkg \in Pkgs, ExecImage(p, pkg)
        PROVE  loc' \in [Pids -> [Slots -> Places]]
    BY <2>1, <2>5 DEF ExecImage, TrackerInv, TypeOK
  <2>6. ASSUME NEW s \in Slots, StartThread(p, s) \/ EndThread(p, s) \/ MoveOut(p, s)
        PROVE  loc' \in [Pids -> [Slots -> Places]]
    BY <2>1, <2>3, <2>6
       DEF StartThread, EndThread, MoveOut, ThreadsOf, TrackerInv, TypeOK
  <2>7. CASE EndProcess(p)
    <3>1. [s \in Slots |-> Gone] \in [Slots -> Places]
      BY <2>1
    <3> QED BY <2>2, <2>7, <3>1 DEF EndProcess
  <2> QED BY <1>1, <2>4, <2>5, <2>6, <2>7
<1> QED
  BY <1>2, <1>3, <1>4, <1>5
     DEF daemon, TrackerInv, TypeOK, UntrackedHoldNothing, TodoTracked, Tracked,
         RefCount, Holders

(***************************************************************************)
(* Every event handler preserves the invariant.                            *)
(***************************************************************************)
LEMMA EventPreserves ==
    ASSUME TrackerInv, EventNext
    PROVE  TrackerInv'
<1>1. todo = {} /\ cfg \in Configs
  BY DEF EventNext, TrackerInv, TypeOK
<1>2. PICK p \in Pids :
        \/ \E pkg \in names[p] :
              \/ Uninterested(p, pkg, cfg) \/ HandleExec(p, pkg, cfg)
              \/ HandleFork(p, pkg, cfg)
              \/ \E s \in Slots : HandleThreadClone(p, s, pkg, cfg)
        \/ \E s \in Slots : HandleThreadExit(p, s)
        \/ HandleProcessExit(p)
  BY DEF EventNext
<1>3. ASSUME NEW T, TrackedBecomes(T), UNCHANGED <<cfg, todo>>
      PROVE  TrackerInv'
  BY <1>1, <1>3, InvFromTracked
<1>4. ASSUME NEW pkg \in names[p], Uninterested(p, pkg, cfg)
      PROVE  TrackerInv'
  BY <1>3, <1>4, ReleasePreserves DEF Uninterested
<1>5. ASSUME NEW pkg \in names[p], HandleExec(p, pkg, cfg) \/ HandleFork(p, pkg, cfg)
      PROVE  TrackerInv'
  <2>1. pkg \in Pkgs
    BY DEF TrackerInv, TypeOK
  <2> QED BY <1>3, <1>5, <2>1, RefreshPreserves DEF HandleExec, HandleFork
<1>6. ASSUME NEW pkg \in names[p], NEW s \in Slots, HandleThreadClone(p, s, pkg, cfg)
      PROVE  TrackerInv'
  <2>1. pkg \in Pkgs
    BY DEF TrackerInv, TypeOK
  <2> QED BY <1>3, <1>6, <2>1, ApplySinglePreserves DEF HandleThreadClone
<1>7. ASSUME NEW s \in Slots, HandleThreadExit(p, s)
      PROVE  TrackerInv'
  <2>1. /\ procs \in [Pids -> Entry]
        /\ procs' = [procs EXCEPT ![p].applied = @ \ {s}]
        /\ UNCHANGED <<kernel, cfg, refs, ensured, todo>>
    BY <1>7 DEF HandleThreadExit, TrackerInv, TypeOK
  <2>2. procs' \in [Pids -> Entry]
    BY <2>1 DEF Entry
  <2>3. \A q \in Pids : procs'[q].pkg = procs[q].pkg /\ procs'[q].dirs = procs[q].dirs
    BY <2>1 DEF Entry
  <2>4. Tracked' = Tracked /\ \A d \in Dirs : Holders(d)' = Holders(d)
    BY <2>3 DEF Tracked, Holders
  <2>5. UntrackedHoldNothing' /\ TodoTracked'
    BY <2>1, <2>3, <2>4 DEF TrackerInv, UntrackedHoldNothing, TodoTracked
  <2>6. RefCount'
    BY <2>1, <2>4 DEF TrackerInv, RefCount
  <2> QED BY <2>1, <2>2, <2>5, <2>6 DEF TrackerInv, TypeOK, kernel
<1>8. CASE HandleProcessExit(p)
  BY <1>3, <1>8, ReleasePreserves DEF HandleProcessExit
<1> QED BY <1>2, <1>4, <1>5, <1>6, <1>7, <1>8

(***************************************************************************)
(* A step of a relock pass preserves the invariant: the pid visited is     *)
(* tracked, so the package it is refreshed with is one.                    *)
(***************************************************************************)
LEMMA RelockPreserves ==
    ASSUME TrackerInv, RelockStep
    PROVE  TrackerInv'
<1>1. todo \subseteq Tracked /\ cfg \in Configs
  BY DEF TrackerInv, TypeOK, TodoTracked
<1>2. PICK p \in Pids : RelockGone(p) \/ RelockSkipped(p) \/ RelockAllowed(p, cfg)
  BY DEF RelockStep
<1>3. CASE RelockGone(p)
  <2>1. /\ TrackedBecomes(Tracked \ {p})
        /\ todo' \subseteq Tracked \ {p} /\ cfg' = cfg
    BY <1>1, <1>3, ReleasePreserves DEF RelockGone
  <2> QED BY <1>1, <2>1, InvFromTracked
<1>4. CASE RelockSkipped(p)
  BY <1>4 DEF RelockSkipped, kernel, TrackerInv, TypeOK, UntrackedHoldNothing,
              TodoTracked, Tracked, RefCount, Holders
<1>5. CASE RelockAllowed(p, cfg)
  <2>1. procs[p].pkg \in Pkgs
    BY <1>1, <1>5 DEF RelockAllowed, Tracked, TrackerInv, TypeOK, Entry
  <2>2. /\ TrackedBecomes(Tracked \cup {p})
        /\ todo' \subseteq Tracked \cup {p} /\ cfg' = cfg
    BY <1>1, <1>5, <2>1, RefreshPreserves DEF RelockAllowed
  <2> QED BY <1>1, <2>2, InvFromTracked
<1> QED BY <1>2, <1>3, <1>4, <1>5

(***************************************************************************)
(* The main loop's other entries: relock_all, cleanup_dead, do_reload and  *)
(* a restart of the daemon.                                                *)
(***************************************************************************)
LEMMA LoopPreserves ==
    ASSUME TrackerInv, LoopNext
    PROVE  TrackerInv'
<1>1. cfg \in Configs /\ Tracked \subseteq Pids
  BY DEF TrackerInv, TypeOK, Tracked
<1>2. CASE StartRelock
  BY <1>1, <1>2 DEF StartRelock, kernel, TrackerInv, TypeOK, UntrackedHoldNothing,
                    TodoTracked, Tracked, RefCount, Holders
<1>3. CASE todo = {} /\ CleanupDead
  <2> DEFINE D == {p \in Tracked : ~Alive(p)}
  <2>1. D \subseteq Pids /\ Release(D) /\ UNCHANGED <<cfg, todo>>
    BY <1>1, <1>3 DEF CleanupDead
  <2> HIDE DEF D
  <2>2. TrackedBecomes(Tracked \ D)
    BY <2>1, ReleasePreserves
  <2> QED BY <1>1, <1>3, <2>1, <2>2, InvFromTracked
<1>4. ASSUME NEW c \in Configs, Reload(c)
      PROVE  TrackerInv'
  <2>1. Unlisted(c) \subseteq Pids
    BY <1>1 DEF Unlisted
  <2>2. TrackedBecomes(Tracked \ Unlisted(c))
    BY <1>4, <2>1, ReleasePreserves DEF Reload
  <2> QED BY <1>4, <2>2, InvFromTracked DEF Reload
<1>5. ASSUME NEW c \in Configs, Restart(c)
      PROVE  TrackerInv'
  <2>1. /\ procs' = [p \in Pids |-> NoEntry] /\ refs' = [d \in Dirs |-> 0]
        /\ ensured' = {} /\ todo' = {} /\ cfg' = c /\ UNCHANGED kernel
    BY <1>5 DEF Restart
  <2>2. NoEntry \in Entry /\ NoEntry.pkg = NoPkg /\ NoEntry.dirs = {}
    BY BoundsAssumption DEF NoEntry, NewEntry, Entry
  <2>3. TypeOK'
    BY <2>1, <2>2 DEF TrackerInv, TypeOK, kernel
  <2>4. \A d \in Dirs : Holders(d)' = {}
    BY <2>1, <2>2 DEF Holders
  <2>5. RefCount'
    BY <2>1, <2>4, FS_EmptySet DEF RefCount
  <2> QED BY <2>1, <2>2, <2>3, <2>5
             DEF TrackerInv, UntrackedHoldNothing, TodoTracked, Tracked
<1> QED BY <1>2, <1>3, <1>4, <1>5, RelockPreserves DEF LoopNext

(***************************************************************************)
(* Nothing is tracked when the daemon starts.                              *)
(***************************************************************************)
LEMMA InitInv == Init => TrackerInv
<1> SUFFICES ASSUME Init PROVE TrackerInv
  OBVIOUS
<1>1. NoEntry \in Entry /\ NoEntry.pkg = NoPkg /\ NoEntry.dirs = {}
  BY BoundsAssumption DEF NoEntry, NewEntry, Entry
<1>2. TypeOK
  BY <1>1, BoundsAssumption, SlotsAssumption DEF Init, TypeOK, Places
<1>3. \A d \in Dirs : Holders(d) = {}
  BY <1>1 DEF Init, Holders
<1>4. RefCount
  BY <1>3, FS_EmptySet DEF Init, RefCount
<1> QED BY <1>1, <1>2, <1>4
           DEF Init, TrackerInv, UntrackedHoldNothing, TodoTracked, Tracked

(***************************************************************************)
(* TrackerInv holds in every state the daemon and the kernel reach.        *)
(***************************************************************************)
THEOREM TrackerInvariant == Spec => []TrackerInv
<1>1. TrackerInv /\ [Next]_vars => TrackerInv'
  <2> SUFFICES ASSUME TrackerInv, [Next]_vars PROVE TrackerInv'
    OBVIOUS
  <2>1. CASE UNCHANGED vars
    BY <2>1 DEF vars, TrackerInv, TypeOK, UntrackedHoldNothing, TodoTracked, Tracked,
                RefCount, Holders
  <2> QED BY <2>1, KernelPreserves, EventPreserves, LoopPreserves DEF Next
<1> QED BY <1>1, InitInv, PTL DEF Spec

(***************************************************************************)
(* The tracker's state keeps its types.                                    *)
(***************************************************************************)
THEOREM TypeCorrect == Spec => []TypeOK
<1>1. TrackerInv => TypeOK
  BY DEF TrackerInv
<1> QED BY <1>1, TrackerInvariant, PTL

(***************************************************************************)
(* register_dirs and release_state count correctly: a cpuset directory has *)
(* as many references as tracked processes hold it, however many there are *)
(* and whatever the order of scans, events, exits, reloads and restarts.   *)
(***************************************************************************)
THEOREM RefCountCorrect == Spec => []RefCount
<1>1. TrackerInv => RefCount
  BY DEF TrackerInv
<1> QED BY <1>1, TrackerInvariant, PTL

-----------------------------------------------------------------------------
(* The cpuset directories the tracker counts on exist, where cpusets can   *)
(* be used and mkdir succeeds.                                             *)

(***************************************************************************)
(* A directory a tracked process is registered in exists: it is not        *)
(* removed when another of its holders goes away (tracker.rs,              *)
(* release_state).                                                         *)
(***************************************************************************)
HeldDirsExist == \A d \in Dirs : Holders(d) # {} => d \in kdirs

\* Both kinds of directory the tracker counts on.
DirsExist == EnsuredDirsExist /\ HeldDirsExist

(***************************************************************************)
(* A directory is freed only with its last holder: what another process,   *)
(* or the same one, still holds is not removed.                            *)
(***************************************************************************)
LEMMA FreedIsUnheld ==
    ASSUME TrackerInv, NEW S \in SUBSET Pids, NEW d \in DirsFreed(S)
    PROVE  Remaining(S, d) = {}
<1>1. d \in Dirs /\ RefsWithout(S)[d] = 0
  BY DEF DirsFreed, TrackerInv, TypeOK
<1>2. Cardinality(Remaining(S, d)) = 0
  BY <1>1, ReleaseCount
<1>3. IsFiniteSet(Remaining(S, d))
  BY FS_Subset, PidsAssumption DEF Remaining
<1> QED BY <1>2, <1>3, FS_EmptySet

(***************************************************************************)
(* release_state and the directories.                                      *)
(***************************************************************************)
LEMMA ReleaseKeepsDirs ==
    ASSUME TrackerInv, DirsExist, NEW S \in SUBSET Pids, Release(S)
    PROVE  DirsExist'
<1>1. /\ kdirs' = kdirs \ DirsFreed(S) /\ ensured' = ensured \ DirsFreed(S)
      /\ procs' = [p \in Pids |-> IF p \in S THEN NoEntry ELSE procs[p]]
  BY DEF Release
<1>2. EnsuredDirsExist'
  BY <1>1 DEF DirsExist, EnsuredDirsExist
<1>3. ASSUME NEW d \in Dirs, NEW p \in Pids, d \in procs'[p].dirs
      PROVE  d \in kdirs'
  <2>1. p \notin S /\ d \in procs[p].dirs
    BY <1>1, <1>3 DEF NoEntry, NewEntry
  <2>2. d \in kdirs /\ p \in Remaining(S, d)
    BY <2>1 DEF DirsExist, HeldDirsExist, Holders, Remaining
  <2> QED BY <1>1, <2>2, FreedIsUnheld
<1> QED BY <1>2, <1>3 DEF DirsExist, HeldDirsExist, Holders

(***************************************************************************)
(* Applying policies: a directory is registered only after it was asked    *)
(* for, and it is asked for unless the cache has it.                       *)
(***************************************************************************)
LEMMA ApplyKeepsDirs ==
    ASSUME CpusetEnabled, ~MkdirMayFail,
           TrackerInv, DirsExist, NEW p \in Pids, NEW S \in {{}, {p}},
           NEW e \in Entry, e.dirs = (IF S = {} THEN procs[p].dirs ELSE {}),
           NEW r, Apply(p, S, e, r)
    PROVE  DirsExist'
<1> DEFINE made == WantedDirs(r) \ (ensured \ DirsFreed(S))
<1>1. /\ kdirs' = (kdirs \ DirsFreed(S)) \cup made
      /\ ensured' = (ensured \ DirsFreed(S)) \cup made
  BY DEF Apply, MadeDirs
<1>2. /\ procs \in [Pids -> Entry] /\ ensured \subseteq kdirs
      /\ procs' = [procs EXCEPT ![p] = [e EXCEPT !.dirs = e.dirs \cup UsedDirs(r)]]
  BY DEF Apply, TrackerInv, TypeOK, DirsExist, EnsuredDirsExist
<1>3. EnsuredDirsExist'
  BY <1>1, <1>2 DEF EnsuredDirsExist
<1>4. ASSUME NEW d \in Dirs, NEW q \in Pids, d \in procs'[q].dirs
      PROVE  d \in kdirs'
  <2>1. procs'[q].dirs = IF q = p THEN e.dirs \cup UsedDirs(r) ELSE procs[q].dirs
    BY <1>2 DEF Entry
  <2>2. CASE q = p /\ d \in UsedDirs(r)
    <3>1. d \in WantedDirs(r)
      BY <2>2 DEF UsedDirs, WantedDirs
    <3> QED BY <1>1, <1>2, <3>1
  <2>3. CASE ~(q = p /\ d \in UsedDirs(r))
    <3>1. d \in procs[q].dirs /\ q \notin S
      BY <1>4, <2>1, <2>3
    <3>2. d \in kdirs /\ q \in Remaining(S, d)
      BY <3>1 DEF DirsExist, HeldDirsExist, Holders, Remaining
    <3> QED BY <1>1, <3>2, FreedIsUnheld
  <2> QED BY <2>2, <2>3
<1> QED BY <1>3, <1>4 DEF DirsExist, HeldDirsExist, Holders

LEMMA RefreshKeepsDirs ==
    ASSUME CpusetEnabled, ~MkdirMayFail,
           TrackerInv, DirsExist, NEW p \in Pids, NEW pkg \in Pkgs, NEW c,
           NEW removed \in BOOLEAN, NEW mark \in BOOLEAN,
           Refresh(p, pkg, c, removed, mark)
    PROVE  DirsExist'
<1> DEFINE e0 == IF removed THEN NewEntry(pkg, ReadStart(p)) ELSE Entered(p, pkg)
           S == IF removed \/ ReusedPid(p, pkg) THEN {p} ELSE {}
           e == [e0 EXCEPT !.applied = ThreadsOf(p), !.scanned = e0.scanned \/ mark]
<1>1. PICK r : Apply(p, S, e, r)
  BY DEF Refresh
<1>2. e0 \in Entry /\ e0.dirs = IF S = {} THEN procs[p].dirs ELSE {}
  BY EnteredEntry
<1>3. S \in {{}, {p}}
  OBVIOUS
<1> HIDE DEF e0, S
<1>4. e \in Entry /\ e.dirs = e0.dirs
  BY <1>2 DEF Entry, ThreadsOf
<1> HIDE DEF e
<1> QED BY <1>1, <1>2, <1>3, <1>4, ApplyKeepsDirs

LEMMA ApplySingleKeepsDirs ==
    ASSUME CpusetEnabled, ~MkdirMayFail,
           TrackerInv, DirsExist, NEW p \in Pids, NEW s \in Slots, NEW pkg \in Pkgs, NEW c,
           ApplySingle(p, s, pkg, c)
    PROVE  DirsExist'
<1> DEFINE e == Entered(p, pkg)
           S == IF ReusedPid(p, pkg) THEN {p} ELSE {}
<1>1. e \in Entry /\ e.dirs = IF S = {} THEN procs[p].dirs ELSE {}
  BY EnteredEntry
<1>2. S \in {{}, {p}}
  OBVIOUS
<1>3. \E x \in {e, [e EXCEPT !.applied = @ \cup {s}]} : \E r : Apply(p, S, x, r)
  BY DEF ApplySingle
<1> HIDE DEF e, S
<1>4. PICK x \in {e, [e EXCEPT !.applied = @ \cup {s}]} : \E r : Apply(p, S, x, r)
  BY <1>3
<1>5. x \in Entry /\ x.dirs = e.dirs
  BY <1>1, <1>4 DEF Entry
<1> QED BY <1>1, <1>2, <1>4, <1>5, ApplyKeepsDirs

(***************************************************************************)
(* Steps that leave directories, cache and registrations as they are.      *)
(***************************************************************************)
LEMMA NothingRegistered ==
    ASSUME DirsExist, UNCHANGED <<kdirs, ensured>>,
           \A p \in Pids : procs'[p].dirs = procs[p].dirs
    PROVE  DirsExist'
BY DEF DirsExist, EnsuredDirsExist, HeldDirsExist, Holders

LEMMA EventKeepsDirs ==
    ASSUME CpusetEnabled, ~MkdirMayFail, TrackerInv, DirsExist, EventNext
    PROVE  DirsExist'
<1>1. PICK p \in Pids :
        \/ \E pkg \in names[p] :
              \/ Uninterested(p, pkg, cfg) \/ HandleExec(p, pkg, cfg)
              \/ HandleFork(p, pkg, cfg)
              \/ \E s \in Slots : HandleThreadClone(p, s, pkg, cfg)
        \/ \E s \in Slots : HandleThreadExit(p, s)
        \/ HandleProcessExit(p)
  BY DEF EventNext
<1>2. names[p] \subseteq Pkgs
  BY DEF TrackerInv, TypeOK
<1>3. ASSUME NEW pkg \in names[p], HandleExec(p, pkg, cfg) \/ HandleFork(p, pkg, cfg)
      PROVE  DirsExist'
  BY <1>2, <1>3, RefreshKeepsDirs DEF HandleExec, HandleFork
<1>4. ASSUME NEW pkg \in names[p], NEW s \in Slots, HandleThreadClone(p, s, pkg, cfg)
      PROVE  DirsExist'
  BY <1>2, <1>4, ApplySingleKeepsDirs DEF HandleThreadClone
<1>5. ASSUME NEW s \in Slots, HandleThreadExit(p, s)
      PROVE  DirsExist'
  <2>1. /\ procs \in [Pids -> Entry]
        /\ procs' = [procs EXCEPT ![p].applied = @ \ {s}]
        /\ UNCHANGED <<kdirs, ensured>>
    BY <1>5 DEF HandleThreadExit, TrackerInv, TypeOK, kernel
  <2>2. \A q \in Pids : procs'[q].dirs = procs[q].dirs
    BY <2>1 DEF Entry
  <2> QED BY <2>1, <2>2, NothingRegistered
<1>6. CASE \/ HandleProcessExit(p)
           \/ \E pkg \in names[p] : Uninterested(p, pkg, cfg)
  BY <1>6, ReleaseKeepsDirs DEF HandleProcessExit, Uninterested
<1> QED BY <1>1, <1>3, <1>4, <1>5, <1>6

LEMMA LoopKeepsDirs ==
    ASSUME CpusetEnabled, ~MkdirMayFail, TrackerInv, DirsExist, LoopNext
    PROVE  DirsExist'
<1>1. Tracked \subseteq Pids
  BY DEF Tracked
<1>2. CASE StartRelock \/ \E p \in Pids : RelockSkipped(p)
  BY <1>2, NothingRegistered DEF StartRelock, RelockSkipped, kernel
<1>3. ASSUME NEW S \in SUBSET Pids, Release(S)
      PROVE  DirsExist'
  BY <1>3, ReleaseKeepsDirs
<1>4. CASE CleanupDead
  BY <1>1, <1>3, <1>4 DEF CleanupDead
<1>5. CASE \E c \in Configs : Reload(c)
  BY <1>1, <1>3, <1>5 DEF Reload, Unlisted
<1>6. CASE \E p \in Pids : RelockGone(p)
  BY <1>3, <1>6 DEF RelockGone
<1>7. ASSUME NEW p \in Pids, RelockAllowed(p, cfg)
      PROVE  DirsExist'
  <2>1. procs[p].pkg \in Pkgs
    BY <1>7 DEF RelockAllowed, Tracked, TrackerInv, TypeOK, TodoTracked, Entry
  <2> QED BY <1>7, <2>1, RefreshKeepsDirs DEF RelockAllowed
<1>8. CASE \E c \in Configs : Restart(c)
  BY <1>8 DEF Restart, NoEntry, NewEntry, DirsExist, EnsuredDirsExist, HeldDirsExist, Holders
<1> QED BY <1>2, <1>4, <1>5, <1>6, <1>7, <1>8 DEF LoopNext, RelockStep

(***************************************************************************)
(* With cpusets, and mkdir that succeeds, DirsExist is an invariant.        *)
(***************************************************************************)
LEMMA DirsInvariant ==
    ASSUME CpusetEnabled, ~MkdirMayFail
    PROVE  Spec => []DirsExist
<1>1. Init => DirsExist
  BY DEF Init, NoEntry, NewEntry, DirsExist, EnsuredDirsExist, HeldDirsExist, Holders
<1>2. TrackerInv /\ DirsExist /\ [Next]_vars => DirsExist'
  <2> SUFFICES ASSUME TrackerInv, DirsExist, [Next]_vars PROVE DirsExist'
    OBVIOUS
  <2>1. CASE UNCHANGED vars
    BY <2>1, NothingRegistered DEF vars
  <2>2. CASE KernelNext
    <3>1. UNCHANGED <<kdirs, daemon>>
      BY <2>2 DEF KernelNext, StartProcess, ExecImage, StartThread, EndThread, MoveOut, EndProcess
    <3> QED BY <3>1, NothingRegistered DEF daemon
  <2> QED BY <2>1, <2>2, EventKeepsDirs, LoopKeepsDirs DEF Next
<1> QED BY <1>1, <1>2, TrackerInvariant, PTL DEF Spec

(***************************************************************************)
(* Every directory in the cache of ensure_dir exists: it leaves the cache  *)
(* when the tracker removes it, whoever held it last.                      *)
(***************************************************************************)
THEOREM CachedExist ==
    ASSUME CpusetEnabled, ~MkdirMayFail
    PROVE  Spec => []EnsuredDirsExist
<1>1. DirsExist => EnsuredDirsExist
  BY DEF DirsExist
<1> QED BY <1>1, DirsInvariant, PTL

(***************************************************************************)
(* Every directory a tracked process is registered in exists: releases by  *)
(* other holders, pids reused, execs and restarts never take it away.      *)
(***************************************************************************)
THEOREM HeldExist ==
    ASSUME CpusetEnabled, ~MkdirMayFail
    PROVE  Spec => []HeldDirsExist
<1>1. DirsExist => HeldDirsExist
  BY DEF DirsExist
<1> QED BY <1>1, DirsInvariant, PTL


-----------------------------------------------------------------------------
(* What a step of the tracker does to the directories it gives up, and to  *)
(* the entries it renames.                                                 *)

(***************************************************************************)
(* A quiet directory that only processes of S hold goes with them: its     *)
(* count, which is theirs, comes down to zero (tracker.rs release_state).  *)
(***************************************************************************)
LEMMA ReleaseReclaims ==
    ASSUME TrackerInv, NEW S \in SUBSET Pids, Release(S),
           NEW d \in kdirs \ Occupied, LastHolderLeaves(d)
    PROVE  d \notin kdirs'
<1>1. Tracked' = Tracked \ S
  BY ReleasePreserves DEF TrackedBecomes
<1>2. d \in Dirs /\ Holders(d) \subseteq Tracked
  BY DEF TrackerInv, TypeOK, UntrackedHoldNothing, Holders
<1>3. Remaining(S, d) = {}
  BY <1>1, <1>2 DEF LastHolderLeaves, Holders, Remaining
<1>4. RefsWithout(S)[d] = 0
  BY <1>2, <1>3, ReleaseCount, FS_EmptySet
<1>5. refs[d] > 0
  <2>1. IsFiniteSet(Holders(d))
    BY FS_Subset, PidsAssumption DEF Holders
  <2>2. Cardinality(Holders(d)) \in Nat /\ Cardinality(Holders(d)) # 0
    BY <2>1, FS_CardinalityType, FS_EmptySet DEF LastHolderLeaves
  <2> QED BY <1>2, <2>2 DEF TrackerInv, RefCount
<1>6. d \in DirsFreed(S)
  BY <1>4, <1>5 DEF DirsFreed
<1> QED BY <1>6 DEF Release

(***************************************************************************)
(* While every tracked process stays, no directory loses its last holder.  *)
(***************************************************************************)
LEMMA StayingHold ==
    ASSUME TrackerInv, Tracked \subseteq Tracked', NEW d \in kdirs
    PROVE  ~LastHolderLeaves(d)
<1>1. Holders(d) \subseteq Tracked
  BY DEF TrackerInv, TypeOK, UntrackedHoldNothing, Holders
<1> QED BY <1>1 DEF LastHolderLeaves

\* Every step but a restart releases some processes, or keeps all it tracks.
LEMMA StepReleasesOrKeeps ==
    ASSUME TrackerInv, [Next]_vars
    PROVE  \/ \E S \in SUBSET Pids : Release(S)
           \/ Tracked \subseteq Tracked'
           \/ \E c \in Configs : Restart(c)
<1> DEFINE Goal == \/ \E S \in SUBSET Pids : Release(S)
                   \/ Tracked \subseteq Tracked'
                   \/ \E c \in Configs : Restart(c)
<1>1. Tracked \subseteq Pids
  BY DEF Tracked
<1>2. procs' = procs => Tracked \subseteq Tracked'
  BY DEF Tracked
<1>3. CASE UNCHANGED vars
  BY <1>2, <1>3 DEF vars
<1>4. CASE KernelNext
  <2>1. UNCHANGED daemon
    BY <1>4 DEF KernelNext, StartProcess, ExecImage, StartThread, EndThread, MoveOut, EndProcess
  <2> QED BY <1>2, <2>1 DEF daemon
<1>5. CASE EventNext
  <2>1. PICK p \in Pids :
          \/ \E pkg \in names[p] :
                \/ Uninterested(p, pkg, cfg) \/ HandleExec(p, pkg, cfg)
                \/ HandleFork(p, pkg, cfg)
                \/ \E s \in Slots : HandleThreadClone(p, s, pkg, cfg)
          \/ \E s \in Slots : HandleThreadExit(p, s)
          \/ HandleProcessExit(p)
    BY <1>5 DEF EventNext
  <2>2. names[p] \subseteq Pkgs
    BY DEF TrackerInv, TypeOK
  <2>3. ASSUME NEW pkg \in names[p], HandleExec(p, pkg, cfg) \/ HandleFork(p, pkg, cfg)
        PROVE  Tracked \subseteq Tracked'
    BY <2>2, <2>3, RefreshPreserves DEF HandleExec, HandleFork, TrackedBecomes
  <2>4. ASSUME NEW pkg \in names[p], NEW s \in Slots, HandleThreadClone(p, s, pkg, cfg)
        PROVE  Tracked \subseteq Tracked'
    BY <2>2, <2>4, ApplySinglePreserves DEF HandleThreadClone, TrackedBecomes
  <2>5. ASSUME NEW s \in Slots, HandleThreadExit(p, s)
        PROVE  Tracked \subseteq Tracked'
    BY <2>5 DEF HandleThreadExit, Tracked, TrackerInv, TypeOK, Entry
  <2>6. CASE \/ HandleProcessExit(p)
             \/ \E pkg \in names[p] : Uninterested(p, pkg, cfg)
    BY <2>6 DEF HandleProcessExit, Uninterested
  <2> QED BY <2>1, <2>3, <2>4, <2>5, <2>6
<1>6. CASE LoopNext
  <2>1. CASE StartRelock \/ \E p \in Pids : RelockSkipped(p)
    BY <1>2, <2>1 DEF StartRelock, RelockSkipped
  <2>2. CASE CleanupDead
    BY <1>1, <2>2 DEF CleanupDead
  <2>3. CASE \E c \in Configs : Reload(c)
    BY <1>1, <2>3 DEF Reload, Unlisted
  <2>4. CASE \E p \in Pids : RelockGone(p)
    BY <2>4 DEF RelockGone
  <2>5. ASSUME NEW p \in Pids, RelockAllowed(p, cfg)
        PROVE  Tracked \subseteq Tracked'
    <3>1. procs[p].pkg \in Pkgs
      BY <2>5 DEF RelockAllowed, Tracked, TrackerInv, TypeOK, TodoTracked, Entry
    <3> QED BY <2>5, <3>1, RefreshPreserves DEF RelockAllowed, TrackedBecomes
  <2> QED BY <1>6, <2>1, <2>2, <2>3, <2>4, <2>5 DEF LoopNext, RelockStep
<1> QED BY <1>3, <1>4, <1>5, <1>6 DEF Next

(***************************************************************************)
(* A directory without threads never outlives its last holder, however     *)
(* this one leaves (tracker.rs release_state), unless the daemon restarts. *)
(***************************************************************************)
THEOREM QuietReclaimed == Spec => QuietDirReclaimed
<1>1. ASSUME TrackerInv, [Next]_vars, NEW d \in kdirs \ Occupied, LastHolderLeaves(d)
      PROVE  d \notin kdirs' \/ \E c \in Configs : Restart(c)
  BY <1>1, StepReleasesOrKeeps, ReleaseReclaims, StayingHold
<1>2. TrackerInv /\ [Next]_vars =>
        [\A d \in kdirs \ Occupied :
            LastHolderLeaves(d) => d \notin kdirs' \/ \E c \in Configs : Restart(c)]_vars
  BY <1>1
<1> QED BY <1>2, TrackerInvariant, PTL DEF Spec, QuietDirReclaimed


(***************************************************************************)
(* A process that runs has a start time: 0 stands for one that cannot be   *)
(* read. Without this, enter() might take a reused pid for an exec.        *)
(***************************************************************************)
RunningHasStart == \A p \in Pids : Alive(p) => start[p] # 0

LEMMA ApplyStartsNone ==
    ASSUME TrackerInv, RunningHasStart, NEW p \in Pids, NEW S, NEW e, NEW r,
           \A s \in DOMAIN r : r[s].joined => s \in ThreadsOf(p), Apply(p, S, e, r)
    PROVE  RunningHasStart'
<1> SUFFICES ASSUME NEW q \in Pids, loc'[q][MainSlot] # Gone PROVE loc[q][MainSlot] # Gone
  BY DEF Apply, RunningHasStart, Alive
<1>1. CASE q # p
  BY <1>1 DEF Apply, TrackerInv, TypeOK
<1>2. CASE q = p
  <2> DEFINE died == {s \in DOMAIN r : r[s].outcome = "exited"}
             ends == IF MainSlot \in died THEN Slots ELSE died
             row == [s \in Slots |-> IF s \in ends THEN Gone
                                     ELSE IF s \in DOMAIN r /\ r[s].joined THEN r[s].policy
                                     ELSE loc[p][s]]
  <2>1. loc' = [loc EXCEPT ![p] = row] /\ loc \in [Pids -> [Slots -> Places]]
    BY DEF Apply, TrackerInv, TypeOK
  <2>2. loc'[p] = row
    <3> HIDE DEF row
    <3> QED BY <2>1
  <2>3. row[MainSlot] # Gone => MainSlot \in ThreadsOf(p) \/ row[MainSlot] = loc[p][MainSlot]
    BY SlotsAssumption
  <2> HIDE DEF row
  <2> QED BY <1>2, <2>2, <2>3 DEF ThreadsOf
<1> QED BY <1>1, <1>2

LEMMA RefreshStartsNone ==
    ASSUME TrackerInv, RunningHasStart, NEW p \in Pids, NEW pkg, NEW c, NEW removed, NEW mark,
           Refresh(p, pkg, c, removed, mark)
    PROVE  RunningHasStart'
<1>1. \E S, e : \E r \in [ThreadsOf(p) -> ThreadResults(c, pkg, TRUE)] : Apply(p, S, e, r)
  BY DEF Refresh
<1>2. PICK S, e : \E r \in [ThreadsOf(p) -> ThreadResults(c, pkg, TRUE)] : Apply(p, S, e, r)
  BY <1>1
<1> QED BY <1>2, ApplyStartsNone

LEMMA ApplySingleStartsNone ==
    ASSUME TrackerInv, RunningHasStart, NEW p \in Pids, NEW s, NEW pkg, NEW c,
           ApplySingle(p, s, pkg, c)
    PROVE  RunningHasStart'
<1> DEFINE e == Entered(p, pkg)
           S == IF ReusedPid(p, pkg) THEN {p} ELSE {}
<1>1. CASE s \in e.applied
  <2>1. Apply(p, S, e, <<>>) /\ DOMAIN <<>> = {}
    BY <1>1 DEF ApplySingle
  <2> HIDE DEF e, S
  <2> QED BY <2>1, ApplyStartsNone
<1>2. CASE s \notin e.applied
  <2>1. PICK res \in ThreadResults(c, pkg, s \in ThreadsOf(p)) :
          Apply(p, S, IF res.outcome = "exited" THEN e
                      ELSE [e EXCEPT !.applied = @ \cup {s}], [x \in {s} |-> res])
    BY <1>2 DEF ApplySingle
  <2>2. res.joined => s \in ThreadsOf(p)
    BY DEF ThreadResults
  <2> DEFINE r == [x \in {s} |-> res]
  <2>3. \A x \in DOMAIN r : r[x].joined => x \in ThreadsOf(p)
    BY <2>2
  <2> HIDE DEF e, S, r
  <2> QED BY <2>1, <2>3, ApplyStartsNone DEF r
<1> QED BY <1>1, <1>2

LEMMA KernelStarts ==
    ASSUME TrackerInv, RunningHasStart, KernelNext
    PROVE  RunningHasStart'
<1>1. PICK p \in Pids :
        \/ \E pkg \in Pkgs : StartProcess(p, pkg) \/ ExecImage(p, pkg)
        \/ \E s \in Slots : StartThread(p, s) \/ EndThread(p, s) \/ MoveOut(p, s)
        \/ EndProcess(p)
  BY DEF KernelNext
<1>2. start \in [Pids -> 0..MaxStart] /\ loc \in [Pids -> [Slots -> Places]] /\ MainSlot \in Slots
  BY SlotsAssumption DEF TrackerInv, TypeOK
<1>3. ASSUME NEW pkg \in Pkgs, StartProcess(p, pkg) PROVE RunningHasStart'
  <2>1. /\ start' = [start EXCEPT ![p] = @ + 1]
        /\ \E l : loc' = [loc EXCEPT ![p] = [s \in Slots |-> IF s = MainSlot THEN l ELSE Gone]]
    BY <1>3 DEF StartProcess
  <2>2. start'[p] # 0
    BY <1>2, <2>1
  <2>3. \A q \in Pids \ {p} : start'[q] = start[q] /\ loc'[q] = loc[q]
    BY <1>2, <2>1
  <2> QED BY <2>2, <2>3 DEF RunningHasStart, Alive
<1>4. ASSUME NEW pkg \in Pkgs, ExecImage(p, pkg) PROVE RunningHasStart'
  BY <1>2, <1>4 DEF ExecImage, RunningHasStart, Alive
<1>5. ASSUME NEW s \in Slots, StartThread(p, s) \/ EndThread(p, s) \/ MoveOut(p, s)
      PROVE  RunningHasStart'
  BY <1>2, <1>5 DEF StartThread, EndThread, MoveOut, ThreadsOf, RunningHasStart, Alive
<1>6. CASE EndProcess(p)
  BY <1>2, <1>6 DEF EndProcess, RunningHasStart, Alive
<1> QED BY <1>1, <1>3, <1>4, <1>5, <1>6

\* The steps of the daemon that apply policies to a process.
Applies(p) ==
    \/ \E pkg \in names[p] :
          \/ HandleExec(p, pkg, cfg) \/ HandleFork(p, pkg, cfg)
          \/ \E s \in Slots : HandleThreadClone(p, s, pkg, cfg)
    \/ RelockAllowed(p, cfg)

\* Its other steps end no entry but by releasing it.
LEMMA StepsOfDaemon ==
    ASSUME TrackerInv, EventNext \/ LoopNext
    PROVE  \/ \E p \in Pids : Applies(p)
           \/ /\ UNCHANGED <<start, loc>>
              /\ \A p \in Pids : procs'[p].pkg \in {procs[p].pkg, NoPkg}
<1> DEFINE Others == /\ UNCHANGED <<start, loc>>
                     /\ \A p \in Pids : procs'[p].pkg \in {procs[p].pkg, NoPkg}
<1>1. ASSUME NEW S, Release(S) PROVE Others
  BY <1>1 DEF Release, NoEntry, NewEntry
<1>2. ASSUME UNCHANGED <<kernel, procs>> PROVE Others
  BY <1>2 DEF kernel
<1>3. ASSUME NEW p \in Pids, NEW s \in Slots, HandleThreadExit(p, s) PROVE Others
  BY <1>3 DEF HandleThreadExit, kernel, TrackerInv, TypeOK, Entry
<1>4. CASE EventNext
  <2>1. PICK p \in Pids :
          \/ Applies(p)
          \/ \E pkg \in names[p] : Uninterested(p, pkg, cfg)
          \/ \E s \in Slots : HandleThreadExit(p, s)
          \/ HandleProcessExit(p)
    BY <1>4 DEF EventNext, Applies
  <2> HIDE DEF Others
  <2>2. ASSUME HandleProcessExit(p) \/ \E pkg \in names[p] : Uninterested(p, pkg, cfg)
        PROVE  Others
    BY <1>1, <2>2 DEF HandleProcessExit, Uninterested
  <2> QED BY <1>3, <2>1, <2>2 DEF Others
<1>5. CASE LoopNext
  <2>1. CASE \E p \in Pids : RelockAllowed(p, cfg)
    BY <2>1 DEF Applies
  <2>2. ASSUME \E c \in Configs : Restart(c) PROVE Others
    BY <2>2 DEF Restart, kernel, NoEntry, NewEntry
  <2> HIDE DEF Others
  <2>3. ASSUME StartRelock \/ \E p \in Pids : RelockSkipped(p) PROVE Others
    BY <1>2, <2>3 DEF StartRelock, RelockSkipped
  <2>4. ASSUME CleanupDead \/ \E c \in Configs : Reload(c) PROVE Others
    BY <1>1, <2>4 DEF CleanupDead, Reload
  <2>5. ASSUME \E p \in Pids : RelockGone(p) PROVE Others
    BY <1>1, <2>5 DEF RelockGone
  <2> QED BY <1>5, <2>1, <2>2, <2>3, <2>4, <2>5 DEF LoopNext, RelockStep, Others
<1> QED BY <1>4, <1>5

LEMMA AppliesStartsNone ==
    ASSUME TrackerInv, RunningHasStart, NEW p \in Pids, Applies(p)
    PROVE  RunningHasStart'
<1>1. CASE \E pkg \in names[p] : HandleExec(p, pkg, cfg) \/ HandleFork(p, pkg, cfg)
  BY <1>1, RefreshStartsNone DEF HandleExec, HandleFork
<1>2. CASE RelockAllowed(p, cfg)
  BY <1>2, RefreshStartsNone DEF RelockAllowed
<1>3. CASE \E pkg \in names[p] : \E s \in Slots : HandleThreadClone(p, s, pkg, cfg)
  BY <1>3, ApplySingleStartsNone DEF HandleThreadClone
<1> QED BY <1>1, <1>2, <1>3 DEF Applies

LEMMA RunningInvariant == Spec => []RunningHasStart
<1>1. Init => RunningHasStart
  BY SlotsAssumption DEF Init, RunningHasStart, Alive
<1>2. TrackerInv /\ RunningHasStart /\ [Next]_vars => RunningHasStart'
  <2> SUFFICES ASSUME TrackerInv, RunningHasStart, [Next]_vars PROVE RunningHasStart'
    OBVIOUS
  <2>1. UNCHANGED <<start, loc>> => RunningHasStart'
    BY DEF RunningHasStart, Alive
  <2>2. CASE EventNext \/ LoopNext
    BY <2>1, <2>2, StepsOfDaemon, AppliesStartsNone
  <2>3. CASE UNCHANGED vars
    BY <2>1, <2>3 DEF vars
  <2> QED BY <2>2, <2>3, KernelStarts DEF Next
<1> QED BY <1>1, <1>2, TrackerInvariant, PTL DEF Spec

(***************************************************************************)
(* enter() with another package: an exec keeps the start time, which is    *)
(* the one the process has; a reuse of the pid reads it again.             *)
(***************************************************************************)
LEMMA EnteredIsCurrent ==
    ASSUME TrackerInv, RunningHasStart, NEW p \in Pids, NEW pkg \in Pkgs, Alive(p),
           Entered(p, pkg).pkg # procs[p].pkg
    PROVE  Entered(p, pkg).start = start[p]
<1>1. ReadStart(p) = start[p] /\ start[p] # 0 /\ procs[p] \in Entry
  BY DEF ReadStart, RunningHasStart, TrackerInv, TypeOK
<1>2. NewEntry(pkg, ReadStart(p)).start = start[p]
  BY <1>1 DEF NewEntry
<1>3. CASE p \in Tracked /\ ~ReusedPid(p, pkg)
  <2>1. procs[p].start # 0 /\ Entered(p, pkg) = [procs[p] EXCEPT !.pkg = pkg]
    BY <1>3 DEF Entered
  <2>2. procs[p].pkg # pkg
    BY <1>1, <2>1 DEF Entry
  <2>3. procs[p].start = start[p]
    BY <1>1, <1>3, <2>1, <2>2 DEF ReusedPid
  <2> QED BY <1>1, <2>1, <2>3 DEF Entry
<1> QED BY <1>2, <1>3 DEF Entered

LEMMA AppliedIsCurrent ==
    ASSUME TrackerInv, RunningHasStart, NEW p \in Pids, Applies(p), NEW q \in Tracked,
           procs'[q].pkg # procs[q].pkg, Alive(q)
    PROVE  procs'[q].start = start[q]
<1>1. procs \in [Pids -> Entry] /\ q \in Pids /\ names[p] \subseteq Pkgs
  BY DEF TrackerInv, TypeOK, Tracked
<1>2. ASSUME NEW S, NEW e, e \in Entry, NEW r, Apply(p, S, e, r),
             q = p => (e.pkg # procs[p].pkg => e.start = start[p])
      PROVE  procs'[q].start = start[q]
  BY <1>1, <1>2 DEF Apply, Entry
<1>3. ASSUME NEW pkg \in Pkgs, NEW removed \in BOOLEAN, NEW mark \in BOOLEAN,
             Refresh(p, pkg, cfg, removed, mark)
      PROVE  procs'[q].start = start[q]
  <2> DEFINE e0 == IF removed THEN NewEntry(pkg, ReadStart(p)) ELSE Entered(p, pkg)
             e == [e0 EXCEPT !.applied = ThreadsOf(p), !.scanned = e0.scanned \/ mark]
  <2>1. PICK S, r : Apply(p, S, e, r)
    BY <1>3 DEF Refresh
  <2>2. e0 \in Entry
    BY EnteredEntry
  <2>3. q = p => (e0.pkg # procs[p].pkg => e0.start = start[p])
    BY EnteredIsCurrent DEF NewEntry, ReadStart
  <2> HIDE DEF e0
  <2>4. e \in Entry /\ e.pkg = e0.pkg /\ e.start = e0.start
    BY <2>2 DEF Entry, ThreadsOf
  <2> HIDE DEF e
  <2> QED BY <1>2, <2>1, <2>3, <2>4
<1>4. ASSUME NEW pkg \in Pkgs, NEW s \in Slots, ApplySingle(p, s, pkg, cfg)
      PROVE  procs'[q].start = start[q]
  <2> DEFINE e0 == Entered(p, pkg)
  <2>1. \E e \in {e0, [e0 EXCEPT !.applied = @ \cup {s}]} : \E S, r : Apply(p, S, e, r)
    BY <1>4 DEF ApplySingle
  <2>2. e0 \in Entry /\ (q = p => (e0.pkg # procs[p].pkg => e0.start = start[p]))
    BY EnteredEntry, EnteredIsCurrent
  <2> HIDE DEF e0
  <2>3. PICK e \in {e0, [e0 EXCEPT !.applied = @ \cup {s}]} : \E S, r : Apply(p, S, e, r)
    BY <2>1
  <2>4. e \in Entry /\ e.pkg = e0.pkg /\ e.start = e0.start
    BY <2>2, <2>3 DEF Entry
  <2> QED BY <1>2, <2>2, <2>3, <2>4
<1>5. RelockAllowed(p, cfg) => procs[p].pkg \in Pkgs
  BY DEF RelockAllowed, Tracked, TrackerInv, TypeOK, TodoTracked, Entry
<1>6. CASE \E pkg \in names[p] : HandleExec(p, pkg, cfg) \/ HandleFork(p, pkg, cfg)
  BY <1>1, <1>3, <1>6 DEF HandleExec, HandleFork
<1>7. CASE RelockAllowed(p, cfg)
  BY <1>3, <1>5, <1>7 DEF RelockAllowed
<1>8. CASE \E pkg \in names[p] : \E s \in Slots : HandleThreadClone(p, s, pkg, cfg)
  BY <1>1, <1>4, <1>8 DEF HandleThreadClone
<1> QED BY <1>6, <1>7, <1>8 DEF Applies

(***************************************************************************)
(* Whatever takes the pid of a tracked process, and whichever events of it *)
(* are lost, an entry is renamed only as that of the process that runs     *)
(* (tracker.rs enter).                                                     *)
(***************************************************************************)
THEOREM RenamedIsCurrent == Spec => RenamedEntryIsCurrent
<1>1. ASSUME TrackerInv, RunningHasStart, [Next]_vars,
             NEW p \in Tracked \cap Tracked', procs'[p].pkg # procs[p].pkg, Alive(p)
      PROVE  procs'[p].start = start[p]
  <2>1. p \in Pids /\ procs'[p].pkg # NoPkg
    BY <1>1 DEF Tracked
  <2>2. CASE EventNext \/ LoopNext
    BY <1>1, <2>1, <2>2, StepsOfDaemon, AppliedIsCurrent
  <2>3. ~(UNCHANGED vars) /\ ~KernelNext
    BY <1>1 DEF vars, daemon, KernelNext, StartProcess, ExecImage, StartThread, EndThread,
                MoveOut, EndProcess
  <2> QED BY <1>1, <2>2, <2>3 DEF Next
<1>2. TrackerInv /\ RunningHasStart /\ [Next]_vars =>
        [\A p \in Tracked \cap Tracked' :
            procs'[p].pkg # procs[p].pkg /\ Alive(p) => procs'[p].start = start[p]]_vars
  BY <1>1
<1> QED BY <1>2, TrackerInvariant, RunningInvariant, PTL DEF Spec, RenamedEntryIsCurrent

-----------------------------------------------------------------------------
(* The tracker shares the directories as SharedDirs says: its counters and *)
(* its cache are no more than the means.                                   *)

Held == [p \in Pids |-> procs[p].dirs]

(***************************************************************************)
(* The directories with a thread inside exist: the kernel removes none of  *)
(* them, and a thread comes into one by a write into it or with its parent.*)
(***************************************************************************)
OccupiedExist == Occupied \subseteq kdirs

(***************************************************************************)
(* The counters tell who is the last: release_state removes a directory    *)
(* exactly if nobody else is registered in it and no thread is inside.     *)
(***************************************************************************)
LEMMA CountersTellTheLast ==
    ASSUME TrackerInv, NEW S \in SUBSET Pids
    PROVE  kdirs \ DirsFreed(S) = kdirs \ Shared!Freed(S)
<1> SUFFICES ASSUME NEW d \in kdirs PROVE d \in DirsFreed(S) <=> d \in Shared!Freed(S)
  OBVIOUS
<1>1. d \in Dirs
  BY DEF TrackerInv, TypeOK
<1>2. refs[d] = Cardinality(Holders(d)) /\ RefsWithout(S)[d] = Cardinality(Remaining(S, d))
  BY <1>1, ReleaseCount DEF TrackerInv, RefCount
<1>3. IsFiniteSet(Holders(d)) /\ IsFiniteSet(Remaining(S, d))
  BY FS_Subset, PidsAssumption DEF Holders, Remaining
<1>4. refs[d] > 0 <=> Holders(d) # {}
  BY <1>2, <1>3, FS_EmptySet, FS_CardinalityType
<1>5. RefsWithout(S)[d] = 0 <=> Remaining(S, d) = {}
  BY <1>2, <1>3, FS_EmptySet
<1>6. d \in Shared!LastHeldBy(S) <=> Holders(d) # {} /\ Remaining(S, d) = {}
  BY <1>1 DEF Shared!LastHeldBy, Holders, Remaining
<1> QED BY <1>4, <1>5, <1>6 DEF DirsFreed, Shared!Freed

(***************************************************************************)
(* What the scans have in common: they apply policies once, on top of the  *)
(* directories that the process has, or of none if it is released first.   *)
(***************************************************************************)
LEMMA AppliesOnce ==
    ASSUME TrackerInv, NEW p \in Pids, Applies(p)
    PROVE  \E S \in {{}, {p}}, e \in Entry :
              /\ e.dirs = (IF S = {} THEN procs[p].dirs ELSE {})
              /\ \E r : Apply(p, S, e, r)
<1> DEFINE Goal == \E S \in {{}, {p}}, e \in Entry :
                      /\ e.dirs = (IF S = {} THEN procs[p].dirs ELSE {})
                      /\ \E r : Apply(p, S, e, r)
<1>1. names[p] \subseteq Pkgs
  BY DEF TrackerInv, TypeOK
<1>2. ASSUME NEW pkg \in Pkgs, NEW removed \in BOOLEAN, NEW mark \in BOOLEAN,
             Refresh(p, pkg, cfg, removed, mark)
      PROVE  Goal
  <2> DEFINE e0 == IF removed THEN NewEntry(pkg, ReadStart(p)) ELSE Entered(p, pkg)
             S0 == IF removed \/ ReusedPid(p, pkg) THEN {p} ELSE {}
             e1 == [e0 EXCEPT !.applied = ThreadsOf(p), !.scanned = e0.scanned \/ mark]
  <2>1. PICK r : Apply(p, S0, e1, r)
    BY <1>2 DEF Refresh
  <2>2. e0 \in Entry /\ e0.dirs = IF S0 = {} THEN procs[p].dirs ELSE {}
    BY EnteredEntry
  <2>3. S0 \in {{}, {p}}
    OBVIOUS
  <2> HIDE DEF e0, S0
  <2>4. e1 \in Entry /\ e1.dirs = e0.dirs
    BY <2>2 DEF Entry, ThreadsOf
  <2> HIDE DEF e1
  <2> QED BY <2>1, <2>2, <2>3, <2>4
<1>3. ASSUME NEW pkg \in Pkgs, NEW s \in Slots, ApplySingle(p, s, pkg, cfg)
      PROVE  Goal
  <2> DEFINE e0 == Entered(p, pkg)
             S0 == IF ReusedPid(p, pkg) THEN {p} ELSE {}
  <2>1. e0 \in Entry /\ e0.dirs = IF S0 = {} THEN procs[p].dirs ELSE {}
    BY EnteredEntry
  <2>2. S0 \in {{}, {p}}
    OBVIOUS
  <2>3. \E x \in {e0, [e0 EXCEPT !.applied = @ \cup {s}]} : \E r : Apply(p, S0, x, r)
    BY <1>3 DEF ApplySingle
  <2> HIDE DEF e0, S0
  <2>4. PICK x \in {e0, [e0 EXCEPT !.applied = @ \cup {s}]} : \E r : Apply(p, S0, x, r)
    BY <2>3
  <2>5. x \in Entry /\ x.dirs = e0.dirs
    BY <2>1, <2>4 DEF Entry
  <2> QED BY <2>1, <2>2, <2>4, <2>5
<1>4. CASE \E pkg \in names[p] : HandleExec(p, pkg, cfg) \/ HandleFork(p, pkg, cfg)
  BY <1>1, <1>2, <1>4 DEF HandleExec, HandleFork
<1>5. CASE RelockAllowed(p, cfg)
  <2>1. procs[p].pkg \in Pkgs
    BY <1>5 DEF RelockAllowed, Tracked, TrackerInv, TypeOK, TodoTracked, Entry
  <2> QED BY <1>2, <1>5, <2>1 DEF RelockAllowed
<1>6. CASE \E pkg \in names[p] : \E s \in Slots : HandleThreadClone(p, s, pkg, cfg)
  BY <1>1, <1>3, <1>6 DEF HandleThreadClone
<1> QED BY <1>4, <1>5, <1>6 DEF Applies

LEMMA ApplyOccupies ==
    ASSUME TrackerInv, OccupiedExist, NEW p \in Pids, NEW S, NEW e, NEW r, Apply(p, S, e, r)
    PROVE  OccupiedExist'
<1> DEFINE died == {s \in DOMAIN r : r[s].outcome = "exited"}
           ends == IF MainSlot \in died THEN Slots ELSE died
           row == [s \in Slots |-> IF s \in ends THEN Gone
                                   ELSE IF s \in DOMAIN r /\ r[s].joined THEN r[s].policy
                                   ELSE loc[p][s]]
<1>1. /\ loc' = [loc EXCEPT ![p] = row] /\ loc \in [Pids -> [Slots -> Places]]
      /\ kdirs \ DirsFreed(S) \subseteq kdirs'
      /\ \A s \in DOMAIN r : r[s].joined => r[s].policy \in kdirs'
  BY DEF Apply, TrackerInv, TypeOK
<1>2. Occupied \subseteq kdirs'
  BY <1>1 DEF OccupiedExist, DirsFreed
<1>3. \A s \in Slots : row[s] \in Dirs => row[s] \in kdirs' \/ row[s] = loc[p][s]
  BY <1>1, NamesAssumption
<1> HIDE DEF row
<1>4. \A q \in Pids : loc'[q] = IF q = p THEN row ELSE loc[q]
  BY <1>1
<1>5. ASSUME NEW d \in Dirs, NEW q \in Pids, NEW s \in Slots, loc'[q][s] = d
      PROVE  d \in kdirs'
  <2>1. d \in Occupied \/ d \in kdirs'
    BY <1>3, <1>4, <1>5 DEF Occupied
  <2> QED BY <1>2, <2>1
<1> QED BY <1>5 DEF OccupiedExist, Occupied

LEMMA KernelOccupies ==
    ASSUME TrackerInv, OccupiedExist, KernelNext
    PROVE  OccupiedExist' /\ UNCHANGED <<kdirs, daemon>>
<1>1. UNCHANGED <<kdirs, daemon>>
  BY DEF KernelNext, StartProcess, ExecImage, StartThread, EndThread, MoveOut, EndProcess
<1>2. loc \in [Pids -> [Slots -> Places]]
  BY DEF TrackerInv, TypeOK
<1>3. ASSUME NEW q \in Pids, NEW s \in Slots, loc'[q][s] \in Dirs
      PROVE  loc'[q][s] \in Occupied
  <2>1. PICK p \in Pids : \/ \E pkg \in Pkgs : StartProcess(p, pkg) \/ ExecImage(p, pkg)
                          \/ \E t \in Slots : StartThread(p, t) \/ EndThread(p, t) \/ MoveOut(p, t)
                          \/ EndProcess(p)
    BY DEF KernelNext
  <2>2. loc'[q][s] = loc[q][s] => loc'[q][s] \in Occupied
    BY <1>3 DEF Occupied
  <2>3. ASSUME NEW pkg \in Pkgs, StartProcess(p, pkg) PROVE loc'[q][s] \in Occupied
    <3>1. PICK l \in Inheritable :
            loc' = [loc EXCEPT ![p] = [t \in Slots |-> IF t = MainSlot THEN l ELSE Gone]]
      BY <2>3 DEF StartProcess
    <3>2. loc'[q][s] \in {loc[q][s], l, Gone}
      BY <1>2, <3>1
    <3> QED BY <1>3, <2>2, <3>2, NamesAssumption DEF Inheritable
  <2>4. ASSUME NEW pkg \in Pkgs, ExecImage(p, pkg) PROVE loc'[q][s] \in Occupied
    <3>1. loc'[q][s] \in {loc[q][s], Gone}
      BY <1>2, <2>4 DEF ExecImage
    <3> QED BY <1>3, <2>2, <3>1, NamesAssumption
  <2>5. ASSUME NEW t \in Slots, StartThread(p, t) PROVE loc'[q][s] \in Occupied
    <3>1. PICK creator \in ThreadsOf(p) : loc' = [loc EXCEPT ![p][t] = loc[p][creator]]
      BY <2>5 DEF StartThread
    <3>2. loc'[q][s] \in {loc[q][s], loc[p][creator]} /\ creator \in Slots
      BY <1>2, <3>1 DEF ThreadsOf
    <3> QED BY <1>3, <2>2, <3>2 DEF Occupied
  <2>6. ASSUME NEW t \in Slots, EndThread(p, t) \/ MoveOut(p, t) PROVE loc'[q][s] \in Occupied
    <3>1. loc'[q][s] \in {loc[q][s], Gone, Outside}
      BY <1>2, <2>6 DEF EndThread, MoveOut
    <3> QED BY <1>3, <2>2, <3>1, NamesAssumption
  <2>7. ASSUME EndProcess(p) PROVE loc'[q][s] \in Occupied
    <3>1. loc'[q][s] \in {loc[q][s], Gone}
      BY <1>2, <2>7 DEF EndProcess
    <3> QED BY <1>3, <2>2, <3>1, NamesAssumption
  <2> QED BY <2>1, <2>3, <2>4, <2>5, <2>6, <2>7
<1> QED BY <1>1, <1>3 DEF OccupiedExist, Occupied

(***************************************************************************)
(* What is not a scan: a step that releases, forgets everything, or leaves *)
(* places, directories and registrations as they are.                      *)
(***************************************************************************)
LEMMA OtherSteps ==
    ASSUME TrackerInv, EventNext \/ LoopNext
    PROVE  \/ \E p \in Pids : Applies(p)
           \/ \E S \in SUBSET Pids : Release(S)
           \/ \E c \in Configs : Restart(c)
           \/ UNCHANGED <<loc, kdirs, Held>>
<1> DEFINE Others == \/ \E S \in SUBSET Pids : Release(S)
                     \/ UNCHANGED <<loc, kdirs, Held>>
<1>1. Tracked \subseteq Pids
  BY DEF Tracked
<1>2. ASSUME NEW p \in Pids, NEW s \in Slots, HandleThreadExit(p, s) PROVE Others
  <2>1. /\ procs \in [Pids -> Entry]
        /\ procs' = [procs EXCEPT ![p].applied = @ \ {s}]
        /\ UNCHANGED <<loc, kdirs>>
    BY <1>2 DEF HandleThreadExit, kernel, TrackerInv, TypeOK
  <2>2. \A q \in Pids : procs'[q].dirs = procs[q].dirs
    BY <2>1 DEF Entry
  <2> QED BY <2>1, <2>2 DEF Held
<1>3. CASE EventNext
  <2>1. PICK p \in Pids :
          \/ Applies(p)
          \/ \E pkg \in names[p] : Uninterested(p, pkg, cfg)
          \/ \E s \in Slots : HandleThreadExit(p, s)
          \/ HandleProcessExit(p)
    BY <1>3 DEF EventNext, Applies
  <2>2. ASSUME HandleProcessExit(p) \/ \E pkg \in names[p] : Uninterested(p, pkg, cfg)
        PROVE  Others
    BY <2>2 DEF HandleProcessExit, Uninterested
  <2> HIDE DEF Others
  <2> QED BY <1>2, <2>1, <2>2 DEF Others
<1>4. CASE LoopNext
  <2>1. CASE \E p \in Pids : RelockAllowed(p, cfg)
    BY <2>1 DEF Applies
  <2>2. ASSUME StartRelock \/ \E p \in Pids : RelockSkipped(p) PROVE Others
    BY <2>2 DEF StartRelock, RelockSkipped, kernel, Held
  <2>3. ASSUME CleanupDead \/ \E c \in Configs : Reload(c) PROVE Others
    BY <1>1, <2>3 DEF CleanupDead, Reload, Unlisted
  <2>4. ASSUME \E p \in Pids : RelockGone(p) PROVE Others
    BY <2>4 DEF RelockGone
  <2> HIDE DEF Others
  <2> QED BY <1>4, <2>1, <2>2, <2>3, <2>4 DEF LoopNext, RelockStep, Others
<1> QED BY <1>3, <1>4

(***************************************************************************)
(* No directory is removed over the head of a thread, whatever the counts. *)
(***************************************************************************)
LEMMA OccupiedInvariant == Spec => []OccupiedExist
<1>1. Init => OccupiedExist
  BY NamesAssumption DEF Init, OccupiedExist, Occupied
<1>2. TrackerInv /\ OccupiedExist /\ [Next]_vars => OccupiedExist'
  <2> SUFFICES ASSUME TrackerInv, OccupiedExist, [Next]_vars PROVE OccupiedExist'
    OBVIOUS
  <2>1. UNCHANGED <<loc, kdirs>> => OccupiedExist'
    BY DEF OccupiedExist, Occupied
  <2>2. CASE UNCHANGED vars
    BY <2>1, <2>2 DEF vars
  <2>3. CASE KernelNext
    BY <2>3, KernelOccupies
  <2>4. ASSUME NEW S \in SUBSET Pids, Release(S) PROVE OccupiedExist'
    BY <2>4 DEF Release, DirsFreed, OccupiedExist, Occupied
  <2>5. ASSUME \E c \in Configs : Restart(c) PROVE OccupiedExist'
    BY <2>1, <2>5 DEF Restart, kernel
  <2>6. ASSUME NEW p \in Pids, Applies(p) PROVE OccupiedExist'
    BY <2>6, AppliesOnce, ApplyOccupies
  <2>7. CASE EventNext \/ LoopNext
    BY <2>1, <2>4, <2>5, <2>6, <2>7, OtherSteps
  <2> QED BY <2>2, <2>3, <2>7 DEF Next
<1> QED BY <1>1, <1>2, TrackerInvariant, PTL DEF Spec

(***************************************************************************)
(* release_state is the leaving of some users, register_dirs, after what   *)
(* enter() may release, the joining of one.                                *)
(***************************************************************************)
LEMMA ReleaseLeaves ==
    ASSUME TrackerInv, NEW S \in SUBSET Pids, Release(S)
    PROVE  Shared!Leave(S)
<1>1. kdirs' = kdirs \ Shared!Freed(S)
  BY CountersTellTheLast DEF Release
<1>2. Held' = [p \in Pids |-> IF p \in S THEN {} ELSE Held[p]]
  BY DEF Release, Held, NoEntry, NewEntry
<1>3. Occupied' = Occupied
  BY DEF Release, Occupied
<1> QED BY <1>1, <1>2, <1>3 DEF Shared!Leave, Held

LEMMA ApplyJoins ==
    ASSUME TrackerInv, TrackerInv', DirsExist', OccupiedExist',
           NEW p \in Pids, NEW S \in {{}, {p}}, NEW e \in Entry,
           e.dirs = (IF S = {} THEN procs[p].dirs ELSE {}), NEW r, Apply(p, S, e, r)
    PROVE  Shared!Join(p, S, UsedDirs(r))
<1> DEFINE new == UsedDirs(r)
<1>1. new \in SUBSET Dirs
  BY DEF UsedDirs
<1>2. /\ procs \in [Pids -> Entry]
      /\ procs' = [procs EXCEPT ![p] = [e EXCEPT !.dirs = e.dirs \cup new]]
  BY DEF Apply, TrackerInv, TypeOK
<1> HIDE DEF new
<1>3. \A q \in Pids : procs'[q].dirs = IF q = p THEN e.dirs \cup new ELSE procs[q].dirs
  BY <1>2 DEF Entry
<1>4. Held' = [Held EXCEPT ![p] = (IF p \in S THEN {} ELSE @) \cup new]
  BY <1>3 DEF Held
<1>5. kdirs' \in SUBSET Dirs /\ kdirs \ DirsFreed(S) \subseteq kdirs'
  BY DEF TrackerInv, TypeOK, Apply
<1>6. new \subseteq kdirs'
  BY <1>1, <1>3 DEF DirsExist, HeldDirsExist, Holders
<1>7. (kdirs \ Shared!Freed(S)) \cup new \subseteq kdirs'
  BY <1>5, <1>6, CountersTellTheLast
<1>8. Occupied' \in SUBSET kdirs'
  BY DEF OccupiedExist
<1> QED BY <1>4, <1>5, <1>7, <1>8 DEF Shared!Join, Held, new

(***************************************************************************)
(* Every step of the tracker, its events, scans, relock passes, reloads    *)
(* and restarts, and of the kernel, is one of SharedDirs or none.          *)
(***************************************************************************)
LEMMA StepsAreShared ==
    ASSUME TrackerInv, TrackerInv', DirsExist', OccupiedExist, OccupiedExist', [Next]_vars
    PROVE  [Shared!Next]_Shared!vars
<1>1. UNCHANGED <<loc, kdirs, Held>> => UNCHANGED Shared!vars
  BY DEF Shared!vars, Held, Occupied
<1>2. CASE UNCHANGED vars
  BY <1>1, <1>2 DEF vars, Held
<1>3. CASE KernelNext
  <2>1. UNCHANGED <<kdirs, Held>>
    BY <1>3, KernelOccupies DEF daemon, Held
  <2>2. Shared!Move
    BY <2>1 DEF OccupiedExist, Shared!Move, Held
  <2> QED BY <2>2 DEF Shared!Next
<1>4. ASSUME NEW S \in SUBSET Pids, Release(S) PROVE Shared!Next
  BY <1>4, ReleaseLeaves DEF Shared!Next
<1>5. ASSUME \E c \in Configs : Restart(c) PROVE Shared!Next
  <2>1. /\ UNCHANGED <<kdirs, loc>>
        /\ Held' = [p \in Pids |-> {}]
    BY <1>5 DEF Restart, kernel, NoEntry, NewEntry, Held
  <2>2. Occupied' = Occupied
    BY <2>1 DEF Occupied
  <2>3. Shared!Forget
    BY <2>1, <2>2 DEF Shared!Forget, Held
  <2> QED BY <2>3 DEF Shared!Next
<1>6. ASSUME NEW p \in Pids, Applies(p) PROVE Shared!Next
  <2>1. PICK S \in {{}, {p}}, e \in Entry : /\ e.dirs = (IF S = {} THEN procs[p].dirs ELSE {})
                                            /\ \E r : Apply(p, S, e, r)
    BY <1>6, AppliesOnce
  <2>2. PICK r : Apply(p, S, e, r)
    BY <2>1
  <2>3. Shared!Join(p, S, UsedDirs(r))
    BY <2>1, <2>2, ApplyJoins
  <2>4. UsedDirs(r) \in SUBSET Dirs
    BY DEF UsedDirs
  <2> QED BY <2>3, <2>4 DEF Shared!Next
<1>7. CASE EventNext \/ LoopNext
  BY <1>1, <1>4, <1>5, <1>6, <1>7, OtherSteps
<1> QED BY <1>2, <1>3, <1>7 DEF Next

(***************************************************************************)
(* With cpusets, and mkdir that succeeds, the tracker implements           *)
(* SharedDirs: however events, exits, reuses of a pid, reloads and         *)
(* restarts follow on each other, a directory is there for all who are     *)
(* registered in it, and goes with the last of them if it is empty.        *)
(***************************************************************************)
THEOREM TrackerSharesDirs ==
    ASSUME CpusetEnabled, ~MkdirMayFail
    PROVE  Spec => DirsAreShared
<1>1. Init => Shared!Init
  BY NamesAssumption DEF Init, NoEntry, NewEntry, Occupied, Shared!Init
<1>2. /\ TrackerInv /\ TrackerInv' /\ DirsExist' /\ OccupiedExist /\ OccupiedExist'
      /\ [Next]_vars
      => [Shared!Next]_Shared!vars
  BY StepsAreShared
<1> QED
  BY <1>1, <1>2, TrackerInvariant, DirsInvariant, OccupiedInvariant, PTL
     DEF Spec, DirsAreShared, Shared!Spec

=============================================================================
