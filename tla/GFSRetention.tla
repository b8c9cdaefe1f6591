---------------------------- MODULE GFSRetention ----------------------------
(* Retention by generations (retention.Service with KeepDaily, KeepWeekly,  *)
(* KeepMonthly or KeepYearly): what the cleanup after each backup of a task *)
(* leaves of all backups there ever were.                                   *)
EXTENDS Integers, Sequences, FiniteSets, FiniteSetsExt

CONSTANTS
    Tiers,      \* "daily", "weekly", "monthly", "yearly"
    Days,       \* times at which backups complete
    PeriodOf,   \* [Tiers -> [Days -> periods]], the calendar
    Policies,   \* policies of tasks: [Tiers -> how many periods to keep]
    MaxBackupsMade,  \* bound: backups of a behaviour
    MaxLockings \* bound: how often a record is locked or unlocked

ASSUME RetentionAssumption ==
    /\ Days \subseteq Int /\ MaxBackupsMade \in Nat /\ MaxLockings \in Nat
    /\ IsFiniteSet(Tiers) /\ Policies \subseteq [Tiers -> Nat]
    /\ PeriodOf \in [Tiers -> [Days -> Nat]]
    /\ \A tier \in Tiers, d, e \in Days : d <= e => PeriodOf[tier][d] <= PeriodOf[tier][e]

VARIABLES
    policy,    \* the policy of the task
    made,      \* history: [1 .. n -> day], every backup, by id
    present,   \* the records that are left
    lockedIds, \* locked records
    lockings,
    tidy       \* history: nothing happened since a cleanup that met no error

retentionVars == <<policy, made, present, lockedIds, lockings, tidy>>

Ids == DOMAIN made
KeyOf(tier, r) == PeriodOf[tier][made[r]]

(* ListSuccessfulByTask: completed_at desc, id desc; the sort by time that  *)
(* follows is stable.                                                       *)
Before(r, q) == made[r] > made[q] \/ (made[r] = made[q] /\ r > q)

(* Mutant: a period is represented by its oldest record. *)
KeepTierOldest(active, tier) ==
    LET lead == {r \in active : ~\E q \in active : Before(r, q) /\ KeyOf(tier, q) = KeyOf(tier, r)}
    IN {r \in lead : Cardinality({q \in lead : Before(q, r)}) < policy[tier]}

(* keepTier walks the sorted records: one opens a period when the record    *)
(* just before it belongs to another, and the walk ends after so many       *)
(* periods.                                                                 *)
keepTier(active, tier) ==
    LET Previous(r) == {q \in active : Before(q, r) /\ ~\E p \in active : Before(q, p) /\ Before(p, r)}
        lead == {r \in active : \A q \in Previous(r) : KeyOf(tier, q) # KeyOf(tier, r)}
    IN {r \in lead : Cardinality({q \in lead : Before(q, r)}) < policy[tier]}

selectGFSToDelete(records) ==
    LET active == records \ lockedIds
    IN active \ UNION {keepTier(active, tier) : tier \in Tiers}

-----------------------------------------------------------------------------
RetentionInit ==
    /\ policy \in {p \in Policies : \E tier \in Tiers : p[tier] > 0}
    /\ made = <<>> /\ present = {} /\ lockedIds = {} /\ lockings = 0
    /\ tidy = FALSE

(* A backup completes; the clock of the Master may have been set back.      *)
Complete(day) ==
    /\ Len(made) < MaxBackupsMade
    /\ made' = Append(made, day)
    /\ present' = present \cup {Len(made) + 1}
    /\ tidy' = FALSE
    /\ UNCHANGED <<policy, lockedIds, lockings>>

(* The cleanup after a backup.  A candidate stays when a differential needs *)
(* it (protectDifferentialBases) or one of its copies cannot be deleted.    *)
Cleanup(gone) ==
    /\ present' = present \ gone
    /\ tidy' = (gone = selectGFSToDelete(present))
    /\ UNCHANGED <<policy, made, lockedIds, lockings>>

SetLocked(r) ==
    /\ r \in present /\ lockings < MaxLockings
    /\ lockedIds' = IF r \in lockedIds THEN lockedIds \ {r} ELSE lockedIds \cup {r}
    /\ lockings' = lockings + 1
    /\ tidy' = FALSE
    /\ UNCHANGED <<policy, made, present>>

RetentionNext ==
    \/ \E day \in Days : Complete(day)
    \/ \E gone \in SUBSET selectGFSToDelete(present) : Cleanup(gone)
    \/ \E r \in Ids : SetLocked(r)

RetentionSpec == RetentionInit /\ [][RetentionNext]_retentionVars

-----------------------------------------------------------------------------
Newest(tier, period) ==
    CHOOSE r \in Ids : /\ KeyOf(tier, r) = period
                       /\ \A q \in Ids \ {r} : KeyOf(tier, q) = period => Before(r, q)

(* The last n periods of a tier in which a backup was made.                 *)
LastPeriods(tier) ==
    LET all == {KeyOf(tier, r) : r \in Ids}
    IN {p \in all : Cardinality({q \in all : q > p}) < policy[tier]}

(* However often the cleanup has run, failed in part or met locked records: *)
(* of all backups ever made, the newest one of each of the last n days,     *)
(* weeks, months and years with a backup is still there, though the cleanup *)
(* only sees what earlier ones have left; and a complete cleanup leaves no  *)
(* more unlocked records than the policy counts (selectGFSToDelete: "保留最 *)
(* 近 keep 个不同周期中每个周期最新的一份备份").                            *)
GenerationsKept ==
    /\ \A tier \in Tiers : \A period \in LastPeriods(tier) : Newest(tier, period) \in present
    /\ tidy => Cardinality(present \ lockedIds) <= MapThenSumSet(LAMBDA tier : policy[tier], Tiers)
=============================================================================
