# Formal models of latency_fingerprinting

TLA+ models of the research core under `src/src/latency_fingerprinting`, the
TLC runs that check them on small instances, and TLAPS proofs of what holds for
every instance.  The program is a set of offline commands.  Each command is
sequential and has no threads; what is hard about it is

- long passes over hostile evidence, where one record decides how the next is
  read (the passive gate, the calibration lineage),
- evidence that must stay independent across several commands (lineage, profile
  fit, matching), and
- commands that read and write one file system at the same time as each other
  and as other programs (linked commands, campaigns, fingerprint repositories,
  calibration directories), and
- inspections that must decide from a producer's report alone whether something
  happened that the report only declares (stage traces, experiments, probes, games).

Paths below are relative to `src/src/latency_fingerprinting`.

## 1. Inventory

| Component | State it keeps | Operations | Hard behaviour | What makes it correct |
| --- | --- | --- | --- | --- |
| Passive gate replay: `passive_gating/replay.py`, `arithmetic.py`, `evidence.py` | streaks, latch, clocks, barrier, proposal ledger, novelty keys | one branch of the event loop per kind of event | duplicated, late, overlapping, missing or excluded windows; silence; resets | relies on fresh evidence only, credits no time twice, proposes only on persistence, within budget and cooldown |
| Passive baseline: `passive_gating/baseline*.py`, `operations.py` | a kept baseline with the evidence it was fitted of | fit the centre of every scope; load it again, replay queries with it | the directory is issued anew in between; copies and shared sources | the centre comes from independent healthy groups; what is classified shares no source with them |
| Linked command output: `observability/output.py`, the four `commands.py`, `cli_trace.py` | an open parent directory, a temporary file, identities of what was read | read operands, pin a dataset, guard, create, write, rename, clean up | concurrent commands, renamed directories, hard links, failure or crash at each step | output whole or not at all; nothing that was read is destroyed; no output is taken for a dataset's member |
| Calibration reader: `calibration/bundle_io.py`, `inspection.py` | a pinned directory and its inventory | read manifest and declared artifacts, compare inventory again | the directory changes while it is read | what is reported is what was read |
| Calibration lineage: `calibration/lineage.py` | union-find forest, receipts, representatives | join, find, collect, compare split, scan entries | the order of the joins, stale splits, aliases | groups are the connected components; no evidence crosses roles |
| Calibration contract, evidence and report: `calibration/dataset.py`, `records.py`, `evidence.py`, `report.py` | immutable records | validate, decide eligibility, count | derivation graphs, semantic duplicates | a report reconstructs from its dataset |
| Profile fit: `profiles/selection.py`, `reconstruction.py`, `arithmetic.py` | immutable snapshot | select votes, group medians, centres, dispersions, support | non-voting evidence leaking into statistics | one vote per group; only training votes count |
| Profile lifecycle: `profiles/lifecycle.py`, `operations.py`, `snapshot.py` | immutable revisions by content hash | create, build, mark stale, reject, supersede | reviews of the wrong revision, revival of withdrawn evidence | administration never alters evidence |
| Profile matching: `profile_matching/*` | none; sealed results | score a query, refit without a group, summarise | the query's own group in its profile; stale snapshots | a query is scored by independent profiles of current evidence |
| Measurement: `measurement/*`, `models/measurement.py`, `measurement_inspection.py` | the loop's baseline, intervals and audit rows | aggregate the rows of one metric | resets, wraps, gaps, rows out of order | accepted growth and observed time are true; what is refused publishes nothing |
| Stage traces: `observability/{trace,reconstruct,summary,contracts,bundle,browser_v2}.py` | bounded ledgers of frames and events, by lifetime | validate, join, reconstruct timings, count loss | sampling, no room or no lock for an event, ambiguous frames, clocks that run backwards, lifetimes that share an epoch | the ledger balances; a duration is of one frame in one lifetime |
| Experiments: `scenarios/{manifest,evidence,result,effects,pacing*,inspect}.py` | recorded phases, samples, workers, actions | inspect phases, effects, cleanup, pacing | a run ends in any phase, counters are reset, a fault outlives its phase | a verified effect was there, in the right phases only |
| Campaigns and overhead: `scenarios/{campaign,overhead}*.py`, `bundle_io.py` | a plan, an index and one bundle for each trial | read plan, index and bundles; count; compare pairs | a producer that still writes, trials out of place | every scenario verified often enough, as planned, one at a time |
| Cadence probes: `live_probes/{cadence*,game_browser*,models,inspection}.py` | recorded setter calls, windows, counters, frames | validate, recompute every screen | calls that hang and take effect late, receivers that stall, workers replaced | a screen that is met happened, and so did a restoration |
| Game cohort: `live_probes/{integrated_game*,browser_cpu}.py` | a control run and four failures | reconstruct lifetimes, counters, journals, traces | restarts, retired handles, steps out of order, stale rows | what is met was so; what went well is met |
| Analytical v2: `analytical/*`, `models/*_v2.py` | a directory of fingerprints; sealed results | pair windows, respond, compare, decide, load, verify | a directory that is edited while it is listed and read; boundaries of every threshold | a label is earned by the nearest comparable cause; nothing listed is overlooked |
| P0: `p0/*` | none | the first pipeline, frozen | boundary values | pure functions of validated records |
| Adapters, record models, command line, JSON: `adapters/*`, `models/*`, `cli*.py`, `json_io.py`, `schemas.py` | none | parse, validate, print | malformed input | input and output only |

How they interact: an adapter turns a producer's archive into observations; the
analytical code turns a pair of observations into a response; a calibration
dataset declares sources, responses, labels and a split; **calibration** inspects
it (lineage, eligibility, report); **profiles** fits a snapshot from the report;
**profile matching** inspects the dataset again, refits, compares and scores;
the **passive gate** takes the same report's healthy windows for its baseline and
replays a declared stream of events.  All of these meet in the linked commands:
they call each other in one process and share only files.

`PROJECT.json` lists every component with its status, and under `hazards` the
lines where the hard behaviour bites.

## 2. Modules

| Module | Models | Composed of |
| --- | --- | --- |
| `PassiveGate` | the replay's event loop, one action per branch | |
| `ProbeBudget` | what the replay promises about its proposals (abstract) | |
| `PassiveGateAudit` | the replay and an auditor who reads only its rows | `PassiveGate`, implements `ProbeBudget` |
| `CalibrationLineage` | `validate_calibration_lineage`: joins, roots, split check, byte aliases | implements `SourceComponents` |
| `SourceComponents` | components that only ever merge (abstract) | |
| `CalibrationInspection` | the dataset contract, eligibility, report and its validator; the reader of a directory others change | takes components as `CalibrationLineage` shows them |
| `PassiveBaseline` | the fit of a passive baseline, and a replay that loads it after the directory may have changed | `CalibrationInspection` |
| `ProfileFit` | which entries vote, medians, support (operators) | |
| `ProfileMatch` | one decision, refits, group outcomes (operators) | `ProfileFit` |
| `ProfileStudy` | a dataset that is revised, and the commands that build, review, match and evaluate snapshots | `ProfileMatch` |
| `SequenceParts` | what a filter keeps of a sequence, sums, and the facts about both | |
| `MetricSeries` | what a definition may ask and a summary must agree with (operators); a producer, an exporter and the aggregator that reads its rows | `SequenceParts` |
| `LinkedCommands` | commands as processes over one file system | implements `AtomicOutput` |
| `AtomicOutput` | every name shows a whole old or a whole new output (abstract) | |
| `TraceRecord` | what a stage trace may say, its reconstruction, its summary (operators) | `SequenceParts` |
| `StageTrace` | recorders of two lifetimes, and the adoption of their record | `TraceRecord` |
| `ExperimentBundle` | manifest, evidence, result, effects and their inspection (operators) | |
| `ExperimentRun` | runner and sampler of an experiment, then its inspection | `ExperimentBundle` |
| `CampaignContract` | what a campaign or overhead directory must hold and shows (operators) | `SequenceParts` |
| `CampaignDirectory` | a producer that fills the directory while it is inspected | `CampaignContract` |
| `CadenceReport` | a cadence report of a worker, its validation and its screens (operators) | |
| `LiveEvidence` | the record of a bitrate probe and its windows (operators) | |
| `ProbeTrial` | controller, worker and receiver of a trial, then its inspection | `CadenceReport`, `LiveEvidence` |
| `GameEvidence` | what is reconstructed of a run of the contained game (operators) | |
| `GameControl`, `GameFailure` | the producers of the control run and of a failure | `GameEvidence` |
| `GameCohort` | five runs in order and their reconstruction | `GameControl`, `GameFailure` |
| `AnalyticalRecord` | windows, pairs, responses, fingerprints, distances, decisions (operators) | `SequenceParts` |
| `FingerprintRepository` | capture, match and verification with a directory that is edited | `AnalyticalRecord` |
| `MC*` | the instances TLC checks; `ProbeTrial` and `GameCohort` need none; `MCCalibrationInspection` is of `PassiveBaseline` too | the module of that name |
| `*Proofs` | theorems and proofs; `PassiveGateProofs` also those of `PassiveGateAudit` and `CalibrationInspection`, `LinkedCommandsProofs` of `CampaignDirectory`, `StageTraceProofs` of `ExperimentRun` | the module of that name |

Definitions whose name starts with `Bug` are what a slip in the code would make
of the definition after them.  No specification uses them; they are there to
show that each property fails when the code does.

Modules of operators hold the program's pure functions; the module that extends
them holds the world they judge.  Much of what the program inspects is produced
outside this repository: recorders, runners, samplers, controllers, games,
curators.  They are environment: they act as the formats and the code that reads
them suppose, may fail in the ways those formats can express, and at most once in
a behaviour do something the formats do not allow (`slip`, `trouble`).  Variables
such as `truth`, `seconds`, `steps`, `runs`, `past` and `made` keep what really was
the case; no operator that models code reads them, and the properties compare
them with what the code concluded.

### PassiveGate

`reconstruct_replay` is one loop with a chain of `if`/`elif` branches, each
ending in an appended row.  Every iteration is one step, every branch one
action, in the code's order: `AfterInvalidation`, `Reset`, `ReversedTick`,
`StaleTick`, `FreshTick`, `NoPassiveWindow`, `ForeignWindow`, `DuplicateWindow`,
`LateWindow`, `OtherStratum`, `OverlappingWindow`, `BlockedWindow`, and the seven
outcomes of `usable_transition`.  The variables are the fields of `PassiveState`
and the set of novelty keys.  `row` is the row last appended.  Left out: hashes
and record identities.  A window comes with the exclusions that `quality_reasons`
and the report's reasons give it; a novelty key stands for run, clock domain
and bounds, which `WindowsAssumption` says windows with one key share.

### CalibrationLineage

One step per iteration of `root`'s loop (`HalveA`, `HalveB`), of the three loops
of joins (`BeginJoin`, `SkipEntry`, `Link`), of the collection of components
(`Collect`), of the scan for byte aliases (`NoBytes`, `FirstBytes`, `KnownBytes`,
`ConflictingBytes`), and one for each of the checks that accept or reject.
Abstractions: `content` is the pair of source type and content hash; an entry's
`bytes` its artifact's hash and length; its window identity carries the bundle
schema; a group is named by its set of sources, as the code's group hash is; and
sources and entries are numbered in the order of their names, which the dataset
contract requires them to be listed in.  `DatasetsAssumption` states what the
contract has checked before the lineage runs.

### ProfileFit, ProfileMatch, ProfileStudy

The program computes fits and decisions with pure functions, so these are
operators: `Votes` and `Mixed` are `selection_reasons`, `Profile` and `Fit` are
`fit_profiles`, `Decision` is `reconstruct_decision`, `Refit` is `refit_profiles`,
`Outcome` a group of `summarize`.  `ProfileStudy` is the protocol around them:
each command is an action, a snapshot is the record that its content hash names,
and a dataset may be revised (`Revise`, one source group at a time) between any two
commands.  A report is what inspecting the dataset gives; `ReportsAssumption`
states what its validator and the lineage have checked.  Abstractions: an entry
carries its record's feature values, and as receipts its group's sources and
artifacts; distances are exact fractions and values multiples of 8, so that
medians of medians are integers; the work budgets of `profile_matching` are left
out, as no small instance reaches them.

### MetricSeries

The code is a pure function of a tuple of samples; what makes it hard is where the
samples come from.  So the model starts with a producer whose register counts,
wraps and is restarted (`Event`, `Restart`), and an exporter that appends rows:
readings, gaps with either reason, and false rows (`Sample`, `FalseSample`).
`truth` keeps what really was the case at each row, which no code sees.  `Submit`
is the call of an aggregator under one of the definitions that share the rows,
`Read` one iteration of its loop, `Finish` everything after the loop.  The two
aggregators share their loop's first half line by line, so `Read` serves both;
gauges never pair.  The summary is a record, and `ValidSummary` translates
`validate_summary`, which the code runs on it.  Left out: units, with which the
validator repeats what a definition's aggregation says already, the advisory
cadence warning, and the clipping of sums that rounding alone could push past the
window.  `Largest` and `Tiniest` stand for the range of a float, so that sums and
rates can leave it.  The aggregator is stricter about them than the validator: it
computes the overall rate of a total too, and gives up the series when there is none
(`Aggregate`), where the validator only adds the growth up (`CounterValue`).
`CoverageHonest` says from the rows alone which series are published, those and no
others, and that a counter whose arithmetic fails is rejected (`Unheld`).

### LinkedCommands

A process runs one command: it reads operands, pins a calibration directory by
descriptor, reads the manifest and each declared artifact, compares the inventory
again, and writes its output by `write_trace_output`: open parent, guard, create a
temporary file, write, rename.  `Fail` is an exception at any step with the
clean-up of the `finally` block; `Crash` is the death of the process.  Paths are
looked up at every use, descriptors are inodes.  The commands differ in what they
guard: `profiles` protects operands and the dataset's directory, `passive_gating`
and `profile_matching` also the dataset's members, `inspect-calibration` compares
two directories before it starts, trace commands guard nothing.

### TraceRecord, StageTrace

`ValidRecord` and the operators under it are the validators of the three record
formats, `Adopt` the reconstruction followed by the summary's own validators.  The
recorder opens one lifetime after another (`Begin`, `End`), is offered frames, of
which it samples every n-th and keeps what fits (`Offer`), finds a frame ambiguous
(`Ambiguous`), and attempts events, which it keeps or counts as lost (`Attempt`).
The three `Slip` actions miscount or misplace one frame, one event or one lifetime.  A
browser's record has one lifetime per video element and no deadline.

### ExperimentBundle, ExperimentRun

Each action of `ExperimentRun` is a step of the producer: the boundaries of a phase,
a second that passes with some rate and CPU, a reset of the camera's counter, the
start and end of the fault and the ways they fail, an abort, a worker's exit, and
the slips (a fault early, another number of workers, a reset that is not told).
`seconds` keeps, by phase, what was the case in every second.  `Inspect` is `inspect_experiment`: manifest, evidence and result against each other,
the effect and the pacing effect computed again.  Left out: archive limits and
the privacy scan.

### CampaignContract, CampaignDirectory

The producer exports a trial's bundle, then rewrites the index, one trial after
another; the inspector reads plan, index, names and each trial in that order
(`Inspect`'s disjuncts), and concludes with `CampaignReport` or, of an overhead
measurement, with `OverheadPassed`.  Either may act first at each step.  A file may be lost, exchanged,
renamed, or the campaign planned anew.  A checksum is the content it is of.

An overhead plan asks for exactly ten trials, all of them healthy engineering runs
(`OverheadPlanned`); the inspector refuses any other.  Completed evidence names the
runtime it was measured in and the timing of the probes themselves, `EnoughProbes`
durations or more (`ValidRuntime`, `ValidDiagnostic`); evidence of a machine that could
not measure has neither, and no runs.  The traces are nominal: the producer's policy of
every frame, 2000 frames and 10000 events (`NominalPolicy`), its provenance and its
version.  The producer may slip in each: sample more rarely, keep less room, time too
few probes, pass a synthetic trace off as captured.

### CadenceReport, LiveEvidence, ProbeTrial

Three kinds of trial share one behaviour: warm up, measure, lower a setting,
measure, put it back, measure.  A setter call may raise, or hang and take effect at
any later half second; `HalfSecond` advances worker and receiver together,
`Reported` writes the report, with at most one slip, and inspects it.  Screens
and restorations (`LoopbackMet`, `BrowserMet` and their like) are recomputed from rows,
never from what the report declares.  Rates
are the two the code fixes, 30 and 24.  A counter that was copied from an earlier
sample contradicts nothing in the live format, so of the windows `TrialTrue` leaves that slip out.

### GameEvidence, GameControl, GameFailure, GameCohort

A cohort is one control disturbance, then the failures `cancel`, `receiver-loss`,
`source-loss`, `reconnect`.  `GameControl` advances two workers, three hosts, two
viewers and the browser's processes by half seconds; `GameFailure` follows the script
of one failure step by step.  `Judged` appends what `integrated_game_reconstruction`
finds, with whether it was so.  Rows may be read stale: an earlier row in place of
the current one.  For camera and display, whose rows carry nothing but counters that
the code compares within one row, no reader could tell, so only the rows of game,
second worker and replacement are read stale.

### AnalyticalRecord, FingerprintRepository

`Capture` pairs two windows, good or wrong in one respect, adopts them (`Prepared`) and
computes the response if they belong together (`Paired`) and were measured as the
policy asks (`ValidPair`).  The constants say of each capture what is wrong with it; no
code reads that.  `CapturesAssumption` says that what is said to be wrong can be seen in
the pair, `HonestAssumption` that a pair with nothing wrong has none of the faults.
`Begin` lists the directory, `ReadEntry` takes the next name in order: a file, a
link, or the inner directory, which is listed only then; a name listed as a link stays
refused even if a file replaced it meanwhile.  `Matched` and `Verified` end the two loads.  `Edit` puts or removes one fingerprint honestly; `Tamper`,
`ForgeResponse` and `EditResult` falsify.  The identity of a record is its content.
Distances are rounded down to a unit of 1/`Scale`; a tie within a unit is a tie.
`policy_mismatch` cannot occur, as one policy is approved.

### CalibrationInspection

`List` takes the names, `ReadManifest` the manifest and everything the dataset
contract and the lineage check before any artifact is opened, `ReadArtifact` the next
artifact against its receipt, `Finish` lists again, links records to entries and
publishes or refuses.  `Replace`, `Discard` and `Add` are other programs.  A collection
says besides its dataset what is the matter with it (`contradictory`, `weak`, the
windows' `cause`); the code sees none of these.  `Sorted` is the sort by repeated
removal, `Used` the search for sources that something leads to; the instance gives it every set of derivations among three sources.

### PassiveBaseline

`Build` takes an inspection that has been published, checks that every entry's evidence is
bound to its dataset (`Evident`, `BindWindow`), says why it is left out
(`MetadataReasons`, `QualityReasons`), puts what is left in strata and keeps the
statistics of each (`Statistics`) with all they were made of.  Between the commands
the curator may issue the collection anew (`Reissue`).  `Replay` inspects again,
reconstructs the kept baseline and refits it from what is there now, binds the windows that were kept
with the queries and judges each (`Outcome`).  Only the order of windows and what follows from it
is left to `PassiveGate`.  Medians are of integers.

## 3. Runs

All bounds are named constants in the `.cfg` files or definitions of the MC modules.

| Run | What is bounded | What it shows |
| --- | --- | --- |
| `gate_streams` | 13 windows of a stream that degrades, recovers and degrades again, also late, repeated, foreign or excluded; 2 event times; 2 proposals | `FreshEvidence`, `CreditAfterBarrier`; `ProbesJustified`, `LedgerTrue`, `Hysteresis`, `BudgetKept` against what an auditor saw |
| `calibration_lineage` | 4 sources, 1240 datasets | `GroupsAreComponents`, `NoLeakage`, `VerdictJustified` (accepted or rejected for cause; duplicates, labels, independence), `Reconstructs` (the forest implements `SourceComponents` and always concludes) |
| `calibration_inspection` | 3 sources with all 64 sets of derivations, bound to 1 to 3 entries; 46 collections with one weakness or contradiction; one changed file; 26 pools of 4 or 5 windows with rates of 40 to 80, one thing about each changed, 4 of them issued anew | `EligibleEarned`, `CountedOnce`, `RefusedWhenContradictory`, `BaselineTrue` (training, queries) |
| `profile_edits` | 13 entries in 8 groups, 4 features; a report, its revisions and relabellings and a poor one; 3 snapshots, 1 revision; matches are asked of entries 1, 4, 9 and 12 | `OnlyVotesCount`, `ReviewsKeepEvidence`, `ScoresEarned` (no group dominates, current fits only, independent queries, earned predictions), `LabelBlind` |
| `series_faults` | 3 rows, 1 of them false, 4 events, 1 restart, a window of 2 ticks, 8 definitions | `SummaryHonest` (what is published, coverage, validators), `DeltasTrue`, `CompleteIsTrue` |
| `linked_commands` | 2 processes, 2 directories, 3 files, 2 outside changes | `InputsSurvive` (operands, source, separation of report and dataset, no other command's output taken for a member: `PublishedApart`), `WritesAtomically` (implements `AtomicOutput`; no litter) |
| `stage_trace` | 2 lifetimes, room for 2 frames and 2 events, 3 offered and 3 attempted, a clock up to 1, one slip | `LedgerTrue`, `TimingsTrue`, `NothingHonestRefused` |
| `experiment` | four manifests (healthy, contended, paced, unsupported), phases of 1 second, degradation of 2, one slip | `VerifiedEffect`, `HonestAccepted` |
| `campaign_directory` | 4 trials of 2 scenarios; 5 pairs over a plan of ten trials; `EnoughProbes` is 3 for 1000; one trouble; the producer acts once while read | `CampaignTrue`, `OverheadTrue`, `HonestAccepted` |
| `probe_trial` | 6 kinds of trial, a warm-up of half a second, windows of 4, 4 and 3 quarter seconds, one trouble and one slip | `TrialTrue` (screens, restorations, windows), `HonestAccepted` |
| `game_cohort` | 5 runs, windows of 3 or 4 samples, one trouble, rows read stale | `ControlTrue`, `FailuresTrue` (lifetimes, cohort), `HonestMet` |
| `fingerprint_repository` | 6 metrics, 11 captures, 3 directories, one trouble, one honest edit | `MatchEarned`, `NothingOverlooked`, `VerifiedUnchanged`, `HonestServed` |

Properties come in pairs where they can: one says that what is concluded was so,
the other that what was honest is not refused, so that refusing everything
satisfies neither.

Why the bounds are enough.  *Gate:* a unit of time is two seconds, so thresholds
shrink to 2 windows and 3 units while every branch keeps both sides of its
boundary; each window kind the code distinguishes occurs, with windows that touch,
overlap, leave a gap and share a key.  The events are chosen freely from the
inventory, so a behaviour has any length; the stream ends itself by passing the
last window.  *Lineage:* four sources are the fewest for two joins of two
components that both have a child, which is where halving and linking could go
wrong; the datasets combine every kind of join with right, coarse, fine and stale
splits, contradictory bytes and labels, and partial reviews.  *Inspection:* three
sources make every small shape of derivation: chains, forks, joins, cycles of two and three,
and sources nothing leads to.  The thresholds are the code's own.  *Baseline:* three
windows train and one is held out, so that leaving out any one of them leaves the two groups a centre needs.  *Profiles:*
thresholds shrink to two groups and three of four features, which three groups per
label satisfy with and without the group left out; every condition of the
selection, the query and the outcome is broken by a revision of its own.  A
comparison needs two builds with a revision in between, a supersession needs a
third snapshot.  The run starts from the base report (`FromBase`), as it compares
revisions with it; it makes a third snapshot only where no question is asked
and the report is not revised, or is the poor one (`Bounded`).  *Series:* a register of three readings wraps,
goes all the way round and passes its old reading again within four events; three
rows hold a pair, a gap and a reset in any order, or a false row after an accepted
pair.  `Largest` is four, so that the sum of two segments overflows while each
fits.  *Commands:* two processes are enough for one to write where the other reads;
two outside changes allow a directory to move away and back or a file to change
after each check.  *Traces:* one more frame is offered, and one more event attempted,
than there is room for; two lifetimes can share an epoch, a clock or a frame
number.  *Experiments:* one interval is enough where the code asks for thirty;
degradation lasts two seconds, so that one of its intervals may be missed and the
other kept.  *Campaigns:*
two scenarios, each once as reference and once as held-out query, let a trial stand
for another in either respect; overhead keeps
the code's ten trials, five pairs and limits of three in five, and three durations of probes stand for a thousand, as they are only counted.  *Probes, games:* windows are
the shortest that still hold a rate with one half second on either side of its
tolerance; rates, tolerances and settling keep the code's ratios.  *Fingerprints:*
five features of three sources and one audited total let a source be lost and four
features still be shared; the captures lie at the bounds of strength, conflict and
duration; the directories hold files beside and in an inner directory.

Fairness is assumed only in `CalibrationLineage`: `WF_vars(Next)`, because one
thread runs the loops to their end.  The gate's events come from a file and may
stop; a capture, a run or a producer may end anywhere; commands may be killed;
none needs to terminate to be safe.

`CHECK_DEADLOCK FALSE` stands where a pass, a recording, a trial or a cohort ends,
and where all commands have ended; the gate and the inspection of a calibration directory
are checked for deadlock: a reset is always possible in the one, and the other is
stuck only when it has published or refused (`Concluded`).

## 4. Proofs

TLAPS proves the following for all values of the constants that satisfy the
named assumptions.

- `PassiveGateProofs`: of the replay, `TypeOK`, `FreshEvidence`, `CreditAfterBarrier`,
  `StatusAgrees`, `SeenIsLate`, `NeverRewinds`.  The inductive invariant `IInv`
  strengthens them with what links the clocks: the last window in order never
  ends after the clock, the barrier never passes it, and evidence relied on is
  the last window in order.  `SeenIsLate` is part of it because the duplicate
  rule and the order rule protect each other.  Of the audited replay, `ProbesJustified`,
  `LedgerTrue`, `Hysteresis` and the
  refinement `BudgetKept`.  `AInv` says that the auditor's run and the detector's
  streak are the same thing seen from outside: same class, same count, same
  milliseconds, unbroken, ending at the last usable window.
  Of the inspection of a calibration directory, `OnlyReceiptedReported` and `EvidenceCountsOnce`
  (`CountedOnce` of every report that is published).  `InspectionInv` says that a collection is
  as its curator issued it but for what other programs exchanged, that every artifact kept while
  reading agrees with its receipt, and that a report is of what was kept; that
  evidence counts once then follows from what the lineage has checked of it.
- `CalibrationLineageProofs`: `TypeOK`, `GroupsAreComponents`, `NoLeakage`,
  `VerdictJustified` and the refinement `ForestMerges`.  The inductive
  invariant claims a labelling of the sources that is constant along parents,
  names every root, never exceeds its source's number, joins only connected
  sources and has made every join so far.  Halving preserves it because it stays
  on one path, linking because it joins two whole classes.  A forest has one such
  labelling only, that of the roots, so a step is seen by `SourceComponents` as what
  it does to the labels.  `EInv` adds the pass over the entries: receipts and
  representatives describe every entry it has left behind.  `VInv` adds the verdict: a label
  kept with bytes is some entry's, independence was told group by group, and a
  refusal has its cause.  That the last check of the code, for an entry in two groups,
  never refuses anything is a lemma (`OneGroup`).
- `ProfileStudyProofs`: `TypeOK`, `OnlyVotesCount`, `ReviewsKeepEvidence`,
  `ScoresEarned`, `LabelBlind`.  `Sound` says of each snapshot what depends on those issued
  before it only, so sealing another one cannot disturb it.  `OnlyVotesCount`
  rests on a congruence: each operator of the fit reads only the selected entries,
  and reports with the same voters select the same entries.  `ScoresEarned` needs besides
  that medians are order statistics (a centre lies between the medians of the other
  groups, whichever is left out), that fractions are ordered as their cross products
  are, and that refitting without a group selects nothing of that group.  `LabelBlind`,
  an action property, compares two evaluations: all that a decision on a relabelled entry reads
  is the same in both.
- `MetricSeriesProofs`: `TypeOK`, `DeltasTrue`, `CompleteIsTrue`, `SummaryHonest`.  `Inv` has a half for each side: `Told`
  says what may have passed between two rows (the register went round not at all,
  once, or at least twice), `Gathered` that each accepted interval is the step
  between two neighbouring, usable, new rows.  `DeltasTrue` then is arithmetic.
  `Tiled` adds that as long as nothing is amiss the intervals lie end to end from the first
  row to the one read last, so that durations and growth telescope; a complete series then
  has no room for a gap.  `Accounted` is what remains true when something is amiss: a row
  left out, a reset or a disorder shows in what the loop counted, the intervals stand in
  the order of their rows and are fewer than the usable rows, and until something ended
  the series they last together as long as the rows read so far cover (`Seen`).  The
  spans of different intervals are disjoint, so the sum of durations is the measure of
  the time covered.  `Judged` is what the property needs in the other direction: the loop
  holds nothing against the rows that is not the matter with them, and of a counter it has
  not given up it has all the growth, so that the sums it computes are those of the rows.
  The checks of the validator on cadence and on the published rows are
  facts about order statistics and about `Kept`.
- `LinkedCommandsProofs`: `TypeOK`, `InputsSurvive`, `WritesAtomically`.  `IInv` says what each stage
  of a command implies about its descriptors, its temporary file and its guard: an
  output is whole before it has a name, whatever was inspected is among the guarded
  operands, and until another program renames a directory paths lead where they led
  (`OutsideOK`).  `ApartOK` adds that no member is a command's output, since an output has a
  name only when it is finished and is then no content a manifest declares, and that the
  names found are those declared; the second look at the inventory does the rest
  (`DatasetsStayApart`).  The refinement maps the file system to what every name shows
  (`Found`) and a command to how far its output stands (`Stands`).
  Of campaign directories, `CampaignsAreTrue` (`CampaignTrue`), `OverheadIsTrue`
  (`OverheadTrue`) and `HonestIsAccepted` (`HonestAccepted`).  `CampaignInv` says that a reference of the index betrays itself unless it is
  of the experiment run for it, and that the files are those experiments as long as
  nothing went wrong; a checksum then carries this from the index to the file that is read
  later.  `OverheadInv` says that runs come in pairs, each slow in both of its runs or in
  neither, and that a trace is that of its run or betrays itself; runs are of the
  kinds `RunPair` produces.  That the median of five differences is within a limit only if three
  of them are is a counting argument over the positions of the sorted rows.
  `HonestInv` is the other side of both: as long as nothing has gone wrong every file is
  exactly what was run (`CampaignPrompt`, `OverheadPrompt`), and as long as nobody has written
  since the first read, what was read is what is there (`ReadWell`), so no check of the
  inspector has anything to refuse.  This is for every campaign plan that keeps the rules of
  plans, and for every overhead plan of ten healthy engineering trials
  (`FollowedAssumption`): the code accepts no other.
- `StageTraceProofs`: `LedgerTrue`, `TimingsTrue`, `NothingHonestRefused`.  `Truthful` says that every lifetime but
  the last is recorded as it was, and that a slip that spoils the last one shows in
  its ledger (`Ledgered` fails).  The kinds of slip need arithmetic of sampling: how many of
  n frames a rate takes.  `Unspoilt` says what a recorder that has not slipped keeps: each lifetime
  has the settings of its format, its counts balance, its events are admitted and in order, and the
  record is within its limits.  A reconstruction uses every frame or excludes it for one reason,
  so the exclusions add up and the validators of the summary find nothing amiss.
  Of experiments, `ExperimentsAreTrue` and `EffectsAreTrue` (`VerifiedEffect`).  `ExperimentInv`: the
  recorded phases are those run (`PhasesTrue`), and a row of samples is the second it was taken in
  (`ReadingTrue`).  A reset that the sampler did not notice leaves a counter that falls
  (`Torn`), unless all readings are of one generation, and accepted evidence is not torn; so
  growth that the effect rests on happened in its phase, and pacing that never was in
  force shows no median above zero.  `HonestAreAccepted` is `HonestAccepted`.  `HonestInv` says what a
  producer that has not lapsed keeps: rows follow one another from the beginning of their phase,
  within the phase and, but for a gap, into the next (`RowsTrue`); phases follow but for the waits
  around a fault (`TimesTrue`); the fault is not begun, in force or over, at the times of the
  phases around it (`FaultTrue`); and a run ends whole, cut short with a cleanup that covers what was
  started, or unbegun (`EndTrue`).  From those follows each check of `result.py`, `evidence.py` and
  `inspect.py` in turn: `HonestResult`, `EvidenceValid`, `HonestLinked`.
- `FingerprintRepositoryProofs`: all four properties of the run.  `Inv`: nobody tampers
  twice, so whatever is in the directory is genuine, a link, or one step away from
  genuine, and a loader has read as many records as it has left names behind.  `QueryKnown`
  and `MadeKnown` say that query and result are the response and the match
  of what they were made of, unless forged; `MatchEarned` then follows from the operators: a fault
  shows in `ValidPair` or in the response, and the decision names a label only where one
  comparison is ahead of all others by the margin.  `QuietKnown` says the same of a behaviour in which
  nothing goes wrong, for `HonestServed`.
- `SequenceParts`: what a filter keeps and in which order, and what a sequence sums to.

The named assumptions these rest on are those of the modules: what the dataset contract
and the report's validator have checked (`DatasetsAssumption`, `ReportsAssumption`),
what thresholds and limits are (`ThresholdAssumption`, `FitAssumption`, `PolicyAssumption`,
`LimitsAssumption`, `ArithmeticAssumption`), what an inventory, a setting, a file system or a
repository is before anything happens (`WindowsAssumption`, `SettingsAssumption`,
`FileSystemAssumption`, `GenuineAssumption`, `CapturesAssumption`, `HonestAssumption`,
`DirectoriesAssumption`, `CollectionsAssumption`), what a plan or a manifest asks for
(`PlansAssumption`, `FollowedAssumption`, `ManifestsAssumption`, `RepeatsAssumption`, `WaitAssumption`, `RoomAssumption`, `EnoughAssumption`,
`EnoughPairsAssumption`, `EnoughProbesAssumption`), that a content hash identifies its content (`DigestAssumption`)
and that `None`, `Null` and the reasons are none of the values (`NoneAssumption`,
`UnwrittenAssumption`).  TLC evaluates each on every
run that extends its module.  Two of them are about what can be done honestly at all
(`ExperimentRun`).  Its `PlansAssumption` has phases of whole seconds, the sampler's period, so that a
phase can last exactly as planned.  `RoomAssumption` has the waits around a fault fit into twenty minutes
together with the phases: `manifest.py:110` bounds the sum of the phases by 1200 s and `result.py:34`
the end of each phase by the same 1200 s, so a plan of exactly twenty minutes with a fault leaves no
room for a wait, and the result of such a run could not be recorded.

Sums, medians and counts of any length are proved by induction all the same: the
library's induction theorems take an operator, which no installed prover instantiates,
so `SetInduction`, `LeastNumber` and `SubsetInduction` of `SequenceParts` state
induction over sets of numbers and over finite sets, first order, and each proof names the
set of cases for which its claim holds.

`TypeOK`, `StatusAgrees`, `SeenIsLate` and `NeverRewinds` of the gate are proved and no
longer checked by a run of their own.  `ForestMerges` is the safety half of `Reconstructs`.

Only model-checked:

- `Concludes`, the other half of `Reconstructs`, is liveness, which is out of the prover's reach.
- `EligibleEarned`, `RefusedWhenContradictory`, `BaselineTrue`: what is the matter with a
  collection or a window is data of the instance, and what the code makes of it are medians
  and counts over that data.
- `HonestAccepted` of probes, and `HonestMet`: they say that every one of the validators accepts what
  was honestly produced, so their invariants would have to describe whole recordings, as
  `HonestInv` does of experiments.
- `TrialTrue`, `ControlTrue`, `FailuresTrue`: producers of long scripts, whose
  invariants have a case for every step.

## 5. Assumptions about the environment

- In `LinkedCommands` other programs rename directories and edit files in place.
  They do not rename a file that was read onto an output's name between the guard
  and the rename of the temporary file: the code cannot see that, nor can any
  program without locks.
- One bound of `profiles/commands.py` is intended: it protects the pinned
  directory, and only the other two families of commands protect hard links to
  the dataset's members outside it.  `SourceSurvives` states each as it is.
- Window levels are exact frame rates; `classify` compares integers exactly.

- In `StageTrace`, `ExperimentRun`, `CampaignDirectory`, `ProbeTrial`, `GameCohort`,
  `FingerprintRepository` and `CalibrationInspection` at most one thing goes wrong
  in a behaviour (in `ProbeTrial` one in the world and one in the report).  Two that
  agree with each other, such as a count falsified on both sides of a balance, are
  beyond what any reader of one record can tell.
- A content hash identifies its content.

## 6. Not modelled, and the plan

Parsing, canonical JSON, formatting, field validators, byte and archive limits,
privacy scans and command-line handling are input and output without state.
Binary64 rounding is outside TLC: medians and ratios are exact rationals where they
are modelled, distances integers.  In particular:

- *Passive gate operations and policy:* sequential checks of operands before the
  replay, and constants of `PassiveGate`.
- *Profile matching policy and contracts:* constants and field checks; the validators
  that reconstruct sealed results repeat what `ProfileMatch` computes.
- *P0 path, P0 adapters and synthetic cases:* the frozen predecessor of analytical v2 and
  generators of fixtures; pure functions without state.
- *Measurement registry and inspection:* tables, and comparison with them.
- *Archive readers of the Pixelated adapters:* bounded, sequential parsing.
- *Campaigns:* a version stands for all a plan declares of node, workload and programs, and
  a trace has the one stream of the producer it is of.
- Frames alike are counted together in `CadenceReport`; a window of an overhead trial
  lasts one unit of time.

What would come next: proofs about probes and games.
