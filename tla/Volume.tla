------------------------------- MODULE Volume -------------------------------
(***************************************************************************)
(* Traffic and CPU of one process number (volume.go): each round of the     *)
(* monitor folds a reading of cumulative counters into a sample, whose flags *)
(* threatScore reads.  The number may come to be of another process, and be  *)
(* read in part or not at all.                                              *)
(* A reading is [at, count, io, res, proc, owner]: the time, the counters of *)
(* the process there is, which half of them could be read, the how-manieth   *)
(* process it is and whose.                                                 *)
(***************************************************************************)
EXTENDS Integers, Sequences

CONSTANTS
    highEgress, egressHotSamples,   \* per unit of time, and readings in a row (2)
    cpuHot, cpuHotSamples,          \* likewise (5)
    ioSampleTTL,                    \* how long a sample is kept (10 minutes)
    Accounts, NoAccount,
    Steps,                          \* bound on what lies between two readings: the time, what
                                    \* the counters rise by, if it is another process, what is read
    MaxReadings                     \* bound on the readings

Counters == {"in", "out", "cpu"}

ASSUME VolumeAssumption ==
    /\ {highEgress, egressHotSamples, cpuHot, cpuHotSamples} \subseteq Nat \ {0}
    /\ ioSampleTTL \in Nat /\ MaxReadings \in Nat
    /\ Steps \subseteq [wait : Nat \ {0}, load : [Counters -> Nat], another : BOOLEAN,
                       io : BOOLEAN, res : BOOLEAN]
    /\ NoAccount \notin Accounts

VARIABLES
    last,       \* the process there is, as it would be read
    sample,     \* ioSamples of the number
    taken,      \* the readings in the sample, oldest first (history)
    readingsLeft

volumeVars == <<last, sample, taken, readingsLeft>>

Readings == [at : Nat, count : [Counters -> Nat], io : BOOLEAN, res : BOOLEAN,
             proc : Nat, owner : Accounts]

NoCount == [f \in Counters |-> 0]
NoRate == [out |-> 0, HighEgress |-> FALSE, HighCPU |-> FALSE, user |-> NoAccount]
NoSample == [haveFirst |-> FALSE, at |-> 0, count |-> NoCount, rate |-> NoRate,
             hot |-> 0, cpuHot |-> 0, userDone |-> FALSE]

Rates == [out : Nat, HighEgress : BOOLEAN, HighCPU : BOOLEAN, user : Accounts \cup {NoAccount}]
Samples == [haveFirst : BOOLEAN, at : Nat, count : [Counters -> Nat], rate : Rates,
            hot : Nat, cpuHot : Nat, userDone : BOOLEAN]

VolumeTypeOK ==
    /\ last \in Readings
    /\ sample \in Samples
    /\ taken \in Seq(Readings)
    /\ readingsLeft \in 0 .. MaxReadings

----------------------------------------------------------------------------

\* The half a counter is in was read.
IsRead(r, f) == IF f = "cpu" THEN r.res ELSE r.io

\* What cannot be read counts as zero.
Counter(r, f) == IF IsRead(r, f) THEN r.count[f] ELSE 0

\* A counter that went back: the number is another process's.
Decreased(s, r) == \E f \in Counters : Counter(r, f) < s.count[f]

\* Seeded bug for ScoreIsSound (FlagsAreSustained): one hot reading is as good as many.
StreakKept(hot, n) == IF hot THEN n + 1 ELSE n

Streak(hot, n) == IF hot THEN n + 1 ELSE 0

Rose(s, r, f) == Counter(r, f) - s.count[f]

Rated(s, r) ==
    LET secs == r.at - s.at
        hot == Streak(Rose(s, r, "out") >= highEgress * secs, s.hot)
        cpu == Streak(Rose(s, r, "cpu") >= cpuHot * secs, s.cpuHot)
    IN [s EXCEPT !.hot = hot, !.cpuHot = cpu,
                 !.rate = [@ EXCEPT !.out = Rose(s, r, "out") \div secs,
                                    !.HighEgress = hot >= egressHotSamples,
                                    !.HighCPU = cpu >= cpuHotSamples]]

\* The rates a reading makes of a sample, before the sample takes its counters.
Judged(s, r) ==
    IF ~s.haveFirst \/ r.at <= s.at THEN s
    ELSE IF Decreased(s, r)
    THEN [s EXCEPT !.rate = NoRate, !.hot = 0, !.cpuHot = 0, !.userDone = FALSE]
    ELSE Rated(s, r)

advance(s, r) ==
    [Judged(s, r) EXCEPT !.haveFirst = TRUE, !.at = r.at,
                         !.count = [f \in Counters |-> Counter(r, f)]]

\* The account is looked up once, before the counters tell whether the process is
\* still the same.
sampleProcess(s, r) ==
    IF r.res /\ ~s.userDone
    THEN [advance(s, r) EXCEPT !.rate = [@ EXCEPT !.user = r.owner], !.userDone = TRUE]
    ELSE advance(s, r)

VolumeInit ==
    /\ last \in {[at |-> 0, count |-> NoCount, io |-> TRUE, res |-> TRUE, proc |-> 0, owner |-> a] : a \in Accounts}
    /\ sample = NoSample
    /\ taken = <<>>
    /\ readingsLeft = MaxReadings

\* What may be read next, of the process there was or of another, whose counters
\* begin with it.
NextReadings ==
    {[at |-> last.at + x.wait,
      count |-> [f \in Counters |-> (IF x.another THEN 0 ELSE last.count[f]) + x.load[f]],
      io |-> x.io, res |-> x.res,
      proc |-> IF x.another THEN last.proc + 1 ELSE last.proc,
      owner |-> IF x.another THEN a ELSE last.owner] :
        x \in Steps, a \in Accounts}

\* One round of the monitor.  A process of which neither half can be read is passed
\* over, and its sample is dropped when it is too old.
sampleProcessIO ==
    /\ readingsLeft > 0
    /\ readingsLeft' = readingsLeft - 1
    /\ \E r \in NextReadings :
          /\ last' = r
          /\ \/ /\ r.io \/ r.res
                /\ sample' = sampleProcess(sample, r)
                /\ taken' = Append(taken, r)
             \/ /\ ~(r.io \/ r.res) /\ r.at - sample.at > ioSampleTTL
                /\ sample' = NoSample
                /\ taken' = <<>>
             \/ /\ ~(r.io \/ r.res) /\ r.at - sample.at <= ioSampleTTL
                /\ UNCHANGED <<sample, taken>>

VolumeSpec == VolumeInit /\ [][sampleProcessIO]_volumeVars

----------------------------------------------------------------------------
(* Properties *)

\* A counter went back between two readings.
Ends(h, i) == i > 1 /\ \E f \in Counters : Counter(h[i], f) < Counter(h[i - 1], f)

\* Between two readings one process made a counter rise at the rate or faster, as a
\* matter of fact and whatever was read of it.
Hot(h, i, f, perUnit) ==
    /\ h[i].proc = h[i - 1].proc
    /\ h[i].count[f] - h[i - 1].count[f] >= perUnit * (h[i].at - h[i - 1].at)

Intervals(h, n) == Len(h) - n + 1 .. Len(h)

\* Each of the last n intervals was hot, but the number may have passed to a process
\* whose counters are no lower, and the oldest of them may begin with a reading that
\* failed: it counts as zero, and all the process ever did as that interval's.
SustainedAtLeast(h, n, f, perUnit) ==
    /\ Len(h) > n
    /\ \A i \in Intervals(h, n) :
          /\ IsRead(h[i], f)
          /\ \/ Hot(h, i, f, perUnit)
             \/ h[i].proc # h[i - 1].proc /\ ~Ends(h, i)
             \/ i = Len(h) - n + 1 /\ ~IsRead(h[i - 1], f)

\* Each of them was hot, and every reading succeeded.
SustainedPlainly(h, n, f, perUnit) ==
    /\ Len(h) > n
    /\ \A i \in Intervals(h, n) :
          Hot(h, i, f, perUnit) /\ \A r \in {h[i - 1], h[i]} : r.io /\ r.res

\* A flag is raised by what was sustained, except that one failed reading stands for one
\* interval at most and a process that took over the number for as many as it did; and
\* what was sustained and read raises it ("one spike is a page load; sustained is a
\* transfer", egressHotSamples; advance, sampleProcessIO).
FlagsAreSustained ==
    /\ sample.rate.HighEgress => SustainedAtLeast(taken, egressHotSamples, "out", highEgress)
    /\ SustainedPlainly(taken, egressHotSamples, "out", highEgress) => sample.rate.HighEgress
    /\ sample.rate.HighCPU => SustainedAtLeast(taken, cpuHotSamples, "cpu", cpuHot)
    /\ SustainedPlainly(taken, cpuHotSamples, "cpu", cpuHot) => sample.rate.HighCPU

\* The counters tell of every change of the process.
Told(h) == \A i \in DOMAIN h : i > 1 /\ h[i].owner # h[i - 1].owner => Ends(h, i)

\* Where they do, the account shown is that of the process there is, from the first
\* reading that allows it and does not end another (advance, sampleProcessIO).
AccountIsCurrent ==
    taken # <<>> /\ Told(taken) =>
        /\ sample.rate.user \in {NoAccount, taken[Len(taken)].owner}
        /\ sample.rate.user = NoAccount =>
              \A i \in DOMAIN taken : taken[i].res => \E j \in i .. Len(taken) : Ends(taken, j)

(* What the score reads of a process is what was measured of it.            *)
VolumeInv == VolumeTypeOK /\ FlagsAreSustained /\ AccountIsCurrent
=============================================================================
