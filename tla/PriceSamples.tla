------------------------------ MODULE PriceSamples ------------------------------
(***************************************************************************)
(* The intraday price samples of one currency (storage.py 1412-1555): one  *)
(* live sample per bucket of the finest tier, seeds of a provider merged   *)
(* between them, and a compaction at every write that thins samples with   *)
(* their age.  A price is modelled by the moment it was quoted at.         *)
(***************************************************************************)
EXTENDS Integers, Sequences, FiniteSets, FiniteSetsExt

CONSTANTS
    Tiers,      \* the tiers, finest first: [age |-> oldest age, width |-> bucket width]
    MaxTime,     \* bound on the clock, in the width of the finest bucket
    MaxSeeds    \* bound on merged seeds

\* Older samples are kept in wider buckets, made of whole finer ones.
ASSUME TiersAssumption ==
    /\ Tiers \in Seq([age : Nat, width : Nat \ {0}]) /\ Tiers # <<>>
    /\ Tiers[1].width = 1
    /\ \A i, j \in DOMAIN Tiers : i < j =>
          Tiers[i].age < Tiers[j].age /\ Tiers[j].width % Tiers[i].width = 0
ASSUME TimeAssumption == MaxTime \in Nat

VARIABLES
    time,
    samples,    \* price_samples: key (start of a bucket) -> moment of its price
    quoted,       \* every moment a live quote was stored at
    seeds

samplesVars == <<time, samples, quoted, seeds>>

TierSet == {Tiers[i] : i \in DOMAIN Tiers}
Horizon == Max({t.age : t \in TierSet})
Floor(m, w) == (m \div w) * w

\* The width of the first tier that reaches the age.
Width(age) == Min({t.width : t \in {u \in TierSet : age <= u.age}})
AgeOf(k, at) == IF at > k THEN at - k ELSE 0
InTier(k, at) == AgeOf(k, at) <= Horizon
\* The bucket of a sample: the width its own age gives it, and its place.
Bucket(k, at) == LET w == Width(AgeOf(k, at)) IN <<w, k \div w>>

\* _compact_price_samples: the latest sample of a bucket stands for it.  Two
\* tiers may give the same key; then the bucket met last wins, and the samples
\* of "late" are read after all others.
Compact(f, late, at) ==
    LET kept == {k \in DOMAIN f : InTier(k, at)}
        Fellows(k) == {j \in kept : Bucket(j, at) = Bucket(k, at)}
        Met(k) == Min({IF j \in late THEN j + MaxTime + 1 ELSE j : j \in Fellows(k)})
        Key(k) == Floor(k, Bucket(k, at)[1])
        chosen == {Max(Fellows(k)) : k \in kept}
        Standing(key) == CHOOSE k \in chosen :
            /\ Key(k) = key
            /\ \A j \in chosen : Key(j) = key => Met(j) <= Met(k)
    IN [key \in {Key(k) : k \in chosen} |-> f[Standing(key)]]

SamplesInit ==
    /\ time = 0 /\ samples = [k \in {} |-> 0] /\ quoted = {} /\ seeds = 0

-----------------------------------------------------------------------------
\* async_add_price_samples: one live quote per bucket, compacted at its moment.
Add ==
    /\ time \notin DOMAIN samples
    /\ samples' = Compact([k \in DOMAIN samples \cup {time} |-> IF k = time THEN time ELSE samples[k]], {time}, time)
    /\ quoted' = quoted \cup {time}
    /\ UNCHANGED <<time, seeds>>

\* A seed's price is marked by a moment before the clock began.
Seed(k) == k - MaxTime - 1
\* Mutant: the seed replaces the local quote of the bucket.
SeededOver(moments) == [k \in DOMAIN samples \cup moments |-> IF k \in moments THEN Seed(k) ELSE samples[k]]
\* A seed never replaces a local quote of the same key.
Seeded(moments) == [k \in DOMAIN samples \cup moments |-> IF k \in DOMAIN samples THEN samples[k] ELSE Seed(k)]

\* async_merge_price_samples.
MergeSeeds(moments) ==
    /\ seeds < MaxSeeds
    /\ samples' = Compact(Seeded(moments), moments \ DOMAIN samples, time)
    /\ seeds' = seeds + 1
    /\ UNCHANGED <<time, quoted>>

NextMoment == time < MaxTime /\ time' = time + 1 /\ UNCHANGED <<samples, quoted, seeds>>

SamplesNext == Add \/ NextMoment \/ \E a, b \in 0 .. time : MergeSeeds({a, b})
SamplesSpec == SamplesInit /\ [][SamplesNext]_samplesVars

-----------------------------------------------------------------------------
Widest == Max({t.width : t \in TierSet})
QuotedAt(v) == IF v < 0 THEN v + MaxTime + 1 ELSE v

\* Every live quote of the finest age stands, no seed over it.
LiveFirst == \A m \in quoted : AgeOf(m, time) <= Tiers[1].age => m \in DOMAIN samples /\ samples[m] = m
\* Every live quote, its whole widest bucket within the horizon, still has a
\* sample in the bucket of its age.
NoHole == \A m \in quoted :
    LET age == AgeOf(Floor(m, Widest), time) IN
    age < Horizon => \E k \in DOMAIN samples : Floor(k, Width(age)) = Floor(m, Width(age))
\* A kept price was quoted inside the widest bucket that starts at its key.
InItsBucket == \A k \in DOMAIN samples : QuotedAt(samples[k]) \in k .. (k + Widest - 1)

(* However often samples are thinned, and across the limits of the tiers,  *)
(* no bucket is lost, no price is drawn outside its bucket, and a seed     *)
(* never takes the place of a quote taken here.                            *)
SamplesStand == LiveFirst /\ NoHole /\ InItsBucket
=============================================================================
