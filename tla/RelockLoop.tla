----------------------------- MODULE RelockLoop -----------------------------
(***************************************************************************)
(* The defence against Android: the part of the main loop (daemon/src/     *)
(* main.rs) that samples how many tracked processes were moved out of the  *)
(* daemon's cpusets, adapts the relock period to it (AdaptiveRelock) and   *)
(* relocks, at once or periodically, behind one guard (core/src/relock.rs  *)
(* RelockGuard); with the decision engine (decision.rs) that lets a relock *)
(* do nothing, on the results of earlier applications (audit.rs) as well.  *)
(*                                                                         *)
(* The processes are seen through the share of them that is outside. A     *)
(* share of these is stuck: those the decision engine leaves alone, in the *)
(* background, or all of them under heat or pressure, and those whose      *)
(* rules name no CPUs; all count as moved out. One record of the audit     *)
(* stands for the results of one application to all processes.             *)
(* lock-interval is not 0, and affinity is not forced.                     *)
(*                                                                         *)
(* Time passes in ticks, parts of a second, of the monotonic clock. The    *)
(* guard reads it as it is; the rest in whole seconds (now_secs), once, at *)
(* the top of the loop.                                                    *)
(***************************************************************************)
EXTENDS AdaptiveRelock, SequencesExt

CONSTANTS
    Periods,       \* INTERVALS_SECS
    TicksPerSec,
    Cooldown,      \* set_cooldown(1000), in ticks
    AuditSecs,     \* the window of summary_windowed
    AuditMax,      \* AUDIT_LOG_MAX
    MaxLate        \* bound: seconds an iteration takes up to its sample

ASSUME LoopAssumption ==
    /\ Periods \in Seq(Nat \ {0}) /\ Len(Periods) = Ranks
    /\ TicksPerSec \in Nat \ {0} /\ Cooldown \in Nat
    /\ AuditSecs \in Nat /\ AuditMax \in Nat \ {0}
    /\ MaxLate \in Nat

VARIABLES
    moved,       \* the share of the processes that is outside
    stuck,       \* the share of those that a relock leaves alone
    failing,     \* whether applications to processes outside fail
    tick,        \* part of the second
    sinceGuard,  \* ticks since last_at of the guard
    sinceLock,   \* seconds since last_lock
    sinceSample, \* seconds since last_coverage_sample
    late,        \* seconds since the clock was read
    audit,       \* the results on record and their age
    unanswered   \* history: samples that found coverage, since the last relock

period == <<rank, samples, stable, coverage, calm, attack>>
world == <<moved, stuck, failing>>
clocks == <<tick, sinceGuard, sinceLock, sinceSample, late>>
loopVars == <<period, world, clocks, audit, unanswered>>

Share(c) == CASE c = "none" -> 0 [] c = "some" -> 1 [] c = "most" -> 2
Longest == Periods[Ranks]

-----------------------------------------------------------------------------
(* The audit.                                                              *)

\* record: a ring.
\* Defect: it grows without bound.
RecordedUnbounded(ok) == Append(audit, [ok |-> ok, age |-> 0])

Recorded(ok) ==
    LET kept == IF Len(audit) >= AuditMax THEN Tail(audit) ELSE audit
    IN Append(kept, [ok |-> ok, age |-> 0])

\* summary_windowed, failure_rate: more than half of what is on record in the
\* window are failures.
\* Defect: everything on record counts (summary).
MostlyFailedEver ==
    2 * Cardinality({i \in DOMAIN audit : ~audit[i].ok}) > Len(audit)

MostlyFailed ==
    LET recent == SelectSeq(audit, LAMBDA r : r.age <= AuditSecs)
    IN 2 * Cardinality({i \in DOMAIN recent : ~recent[i].ok}) > Len(recent)

\* Records by their age, no older than the window by more than one second.
Aged(seconds) ==
    [i \in DOMAIN audit |->
       [audit[i] EXCEPT !.age = Least(@ + seconds, AuditSecs + 1)]]

-----------------------------------------------------------------------------
(* Time and Android.                                                       *)

\* The polling of events, requests and reloads take time; the sample and what
\* decides on the relock next to none.
Tick ==
    /\ late < MaxLate \/ tick + 1 < TicksPerSec
    /\ LET second == IF tick + 1 = TicksPerSec THEN 1 ELSE 0
       IN /\ tick' = (tick + 1) % TicksPerSec
          /\ sinceGuard' = Least(sinceGuard + 1, Cooldown)
          /\ sinceLock' = Least(sinceLock + second, Longest + MaxLate)
          /\ sinceSample' = Least(sinceSample + second, SampleSecs + MaxLate)
          /\ late' = late + second
          /\ audit' = Aged(second)
    /\ UNCHANGED <<period, world, unanswered>>

MoveOut(share) ==
    /\ Share(share) > Share(moved)
    /\ moved' = share
    /\ UNCHANGED <<period, stuck, failing, clocks, audit, unanswered>>

\* Processes outside come to the foreground or leave it, the sensors are read.
Change(share, fails) ==
    /\ Share(share) <= Share(moved)
    /\ stuck' = share /\ failing' = fails
    /\ UNCHANGED <<period, moved, clocks, audit, unanswered>>

-----------------------------------------------------------------------------
(* The loop.                                                               *)

\* decide_ctx, for a process that is not stuck.
Allowed == ~MostlyFailed

(***************************************************************************)
(* relock_all: the processes it is allowed to apply to are placed again,   *)
(* or not if that fails; a failure does not outweigh the successes unless  *)
(* most processes are outside. With nothing to apply to, nothing is        *)
(* recorded.                                                               *)
(***************************************************************************)
RelockAll ==
    /\ \/ ~Allowed /\ UNCHANGED <<moved, audit>>
       \/ /\ Allowed /\ ~(failing /\ moved # stuck)
          /\ moved' = stuck
          /\ audit' = Recorded(TRUE) \/ (moved = stuck /\ UNCHANGED audit)
       \/ /\ Allowed /\ failing /\ moved # stuck
          /\ \E ok \in {FALSE, moved = "some"} : audit' = Recorded(ok)
          /\ UNCHANGED moved

\* An IPC request or a new configuration: do_reload applies it to all, past
\* the guard, and leaves the times as they are.
DoReload ==
    /\ RelockAll
    /\ unanswered' = 0
    /\ UNCHANGED <<period, stuck, failing, clocks>>

SampleDue == sinceSample - late >= SampleSecs

\* The share of processes that is outside is sampled, the period adapted.
SampleCoverage ==
    /\ ObserveRatio(moved)
    /\ sinceSample' = late

GuardFree == sinceGuard >= Cooldown

\* D3: coverage just sampled is answered at once.
\* Defect: only if most processes are outside.
ImmediateIfMost == SampleDue /\ moved = "most"

Immediate == SampleDue /\ moved # "none"

\* B1: the period, as it was just adapted, is over. After an immediate relock
\* it is not: last_lock is now.
PeriodIsOver == sinceLock - late >= Periods[rank' + 1]

\* The rest of an iteration: the sample, if it is due, and a relock, if one
\* of the two asks for it and try_lock lets it through; last_lock becomes the
\* time of the top. Then the next iteration begins and reads the clock.
Defend ==
    /\ IF SampleDue THEN SampleCoverage ELSE UNCHANGED <<period, sinceSample>>
    /\ LET relock == (Immediate \/ PeriodIsOver) /\ GuardFree
       IN \/ /\ relock
             /\ RelockAll
             /\ sinceGuard' = 0 /\ sinceLock' = late
             /\ unanswered' = 0
          \/ /\ ~relock
             /\ UNCHANGED <<moved, audit, sinceGuard, sinceLock>>
             /\ unanswered' = IF ~SampleDue THEN unanswered
                              ELSE IF moved = "none" THEN 0 ELSE Least(unanswered + 1, 2)
    /\ late' = 0
    /\ UNCHANGED <<stuck, failing, tick>>

-----------------------------------------------------------------------------
LoopInit ==
    /\ Init
    /\ moved \in Coverages /\ stuck = "none" /\ failing = FALSE
    /\ tick = 0 /\ sinceGuard = Cooldown /\ sinceLock = 0 /\ sinceSample = 0 /\ late = 0
    /\ audit = <<>> /\ unanswered = 0

LoopNext ==
    \/ Defend \/ DoReload
    \/ Tick
    \/ \E share \in Coverages :
          MoveOut(share) \/ \E fails \in BOOLEAN : Change(share, fails)

LoopSpec == LoopInit /\ [][LoopNext]_loopVars

\* The loop runs and time passes, however long an iteration takes.
LoopFairSpec == LoopSpec /\ WF_loopVars(Defend) /\ SF_loopVars(Tick)

-----------------------------------------------------------------------------
LoopTypeOK ==
    /\ TypeOK
    /\ {moved, stuck} \subseteq Coverages /\ Share(stuck) <= Share(moved)
    /\ failing \in BOOLEAN
    /\ tick \in 0..(TicksPerSec - 1) /\ sinceGuard \in 0..Cooldown
    /\ sinceLock \in 0..(Longest + MaxLate) /\ sinceSample \in 0..(SampleSecs + MaxLate)
    /\ late \in 0..MaxLate
    /\ Len(audit) <= AuditMax
    /\ \A i \in DOMAIN audit : audit[i].ok \in BOOLEAN /\ audit[i].age \in 0..(AuditSecs + 1)
    /\ unanswered \in 0..2

(***************************************************************************)
(* A sample that finds coverage is answered by a relock, its own or a      *)
(* periodic one, before the next sample is over: the cool-down they share  *)
(* (relock.rs, ARCH-3) never makes two immediate relocks in a row fail,    *)
(* however late the loop is.                                               *)
(***************************************************************************)
CoverageAnswered == unanswered <= 1

(***************************************************************************)
(* Failures do not lock the defence out: the decision engine observes      *)
(* while most results on record are failures (decision.rs), no relock      *)
(* applies anything meanwhile, and no success can improve the rate; but    *)
(* the records grow old, and once applications succeed again, what was     *)
(* moved out is placed again and again.                                    *)
(***************************************************************************)
DefenceResumes == <>[](~failing) => []<>(moved = stuck)

(***************************************************************************)
(* When Android has stopped and nothing is stuck outside, the period       *)
(* becomes the longest: what was outside is placed by a relock, the        *)
(* samples find no coverage, and the calm lasts.                           *)
(***************************************************************************)
PeaceRelaxes ==
    <>[](stuck = "none" /\ ~failing) /\ <>[][Share(moved') <= Share(moved)]_moved
        => <>[](rank = Ranks - 1)

=============================================================================
