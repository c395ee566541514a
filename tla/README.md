# A TLA+ model of disco

disco turns a one-line advertising brief into a campaign: it profiles the
advertiser, scores publishers by arithmetic, lets a model rank them and choose
personas, writes one creative per persona, and splits a budget. The model's
answers are untrusted, its calls are rate-limited, slow and paid for, and much
of the code enforces what the model may not do. This directory holds TLA+
modules for the parts with state and interleavings, TLC configurations that
check them on small instances, and proofs that TLAPS checks for all instances.

Run TLC with `tlc -config X.cfg M` and the proofs with `tlapm M.tla` in this
directory. `PROJECT.json` maps every definition to its lines, and lists the
hazards, the runs, a mutant for each property, and the theorems.

## 1. Inventory

| Component | State it keeps | Operations | Interacts with | Hard behaviour | What makes it correct |
|---|---|---|---|---|---|
| Rate limiter (`llm/ratelimit.go`) | `next`, `interval` under a mutex | `NewLimiter`, `Wait` | called by every `generate` | callers interleave, contexts end at any point, timers fire late | slots an interval apart, no unbounded backlog, every `Wait` returns |
| Provider chain, fixtures, live provider, cache (`llm/*.go`) | fixture and cache files; the retry counters of a call | `Complete`, `Record`, `readCache`, `writeCache`, `generate` | chain → fixture → Gemini → cache, limiter, recorder | concurrent callers on one file, crash between write and rename, 429 retries inside repair retries | nothing invalid is passed on or cached, calls bounded, recording replays |
| `callStage` (`pipeline/stage.go`) | none | one stage call: prompt, complete, validate, decode | pipeline → provider | validation of what any provider returns | only valid documents pass |
| Pipeline (`run.go`, `profile.go`, `fit.go`, `personas.go`, `campaign.go`) | profile, scores, verdicts, selection, creatives, campaign | `Run` and its stages | stages in order, each through `callStage` | answers that repeat, invent, omit and contradict | gates hold, one verdict per publisher, three to five creatives, a cheap refusal |
| Creative stage (`creative.go`) | shared slice, errgroup | one goroutine per persona, `Wait` | errgroup's context → provider | order of answers, first error, cancellation of siblings | selection order, root cause reported, a failure ends the stage |
| Budget allocator (`allocate.go`) | shares, locked set, amounts, round | fixed-point loop, reconciliation, recommended budget | reads fit and inventory, called by `Build` | a cap pushes the next one over, leftovers passed around, bounded loops | converges within its passes, never above inventory or budget |
| Scoring (`scoring.go`, `adjacency.go`, `cpm.go`) | none | six sub-scores, hard gate, weighted score, CPM | feeds fit, allocator, `eval` and the metrics | ages open at one end or malformed, categories that neighbour one way only, empty fields | the gate agrees with the records taken as sets |
| Catalog (`catalog/`) | two files, read once | `Load`, id lookups | every command but `metrics` | duplicates, empty files, broken ages | what is loaded has ids that tell its records apart |
| HTTP server (`server/`) | listener, deadline | `listen`, `/api/run` | runs the pipeline; other programs on the host | the port is taken, freed or taken again between two attempts; deadlines | an address in use is no failure while a port is free; every request ends |
| Evaluation (`eval/`) | failures of each brief | `LoadBriefs`, `Check`, `Run` | pipeline | rules the pipeline enforces and `eval` checks are written twice | a campaign fails the universal checks only by the model's own silence |
| Measurement (`measure/`) | a metric in the making, a report | reasons, ablation, distinctiveness, attribution with a control, `Diff` | pipeline, provider, report files | ties, repeated and unknown answers, a call without a recording half way, reasons the code wrote | the metric is about the model, and about what it says it is about |
| Dashboard (`dashboard/`) | none | reads both report files on each request, charts, table | files written by `disco measure` | reads a file while it is rewritten in place or left half-written | shows a whole report or an error, and the same numbers as the report |
| Command line (`cmd/disco`) | flags | `run`, `eval`, `measure`, `serve`, `metrics`, `buildProvider` | all | two `measure` at once, one killed while it writes, `-save` over the baseline | an undisturbed `measure` leaves its report |
| Rendering, logging, prompts, types, pages | none | formatting | - | none | - |

## 2. Plan

The order is by what a bug would cost and by how little a unit test reaches.

1. `SlotSchedule`, `Limiter`: concurrency primitive; proofs. *Done.*
2. `Provider`: the stack behind `callStage`, on disk and over the wire; proofs. *Done.*
3. `CreativeStage`: fan-out and errors; proofs. *Done.*
4. `Allocate`: the two loops; proofs. *Done.*
5. `Campaign`: one run against an arbitrary model; proofs. *Done.*
6. `Ports`, `PageStore`, `Reports`, `Dashboard`, `Disco`: processes of disco on
   one host, with an abstract "the report files are safe registers" to compare
   with; proofs. *Done.*
7. `Scoring`, `Drafting`: gates, sub-scores and the rest of a campaign, and the
   checks of `eval` on it. *Done.*
8. `Metrics`, `Attribution`: the four metrics. *Done.*
9. Proofs of `Allocate`, after lemmas on sums in `LoopTheorems`, and of the limiter's
   backlog. *Done.*
10. Proofs about what is drafted and measured: gates, checks, reasons, ablation, the
    control. *Done.*
11. Proof of `PageAgreesWithReport`, with the lists of `Metrics` and `Dashboard` sorted
    by a helper that can be reasoned about (`InOrder`); of how long a call, a stage and
    an allocation can take, what a campaign costs, and what can clip at the recommended
    budget. *Done.*

Composition: `Campaign` takes `CreativeStage` and `Allocate` as single steps,
`Provider` takes `Limiter` as the single step `Granted`, and
`CreativeStage` takes a stage call of `Provider` as `Call` to `CallOk` /
`CallFails` / `CallCancelled`. `Disco` composes `Drafting`, `Attribution`,
`Reports`, `Dashboard` and `Ports` into processes, and takes a run of the pipeline as
one step (`Draft` or `DraftFails`), which is what a process that shares nothing but
files and ports sees of it. There are two abstract specifications:
`SlotSchedule`, which `Limiter` implements, and `PageStore`, which `Disco`
implements.

## 3. The modules and the code

**SlotSchedule** is the abstract promise of the limiter: every permission to send
belongs to an instant of its own, not in the future, at least an interval away
from the instant of every other permission.

**Limiter** is `Wait`, split where another goroutine can interleave: the first
look at the context (`EnterCancelled`, `EnterUnlimited`, `Enter`), the critical
section (`Reserve`), the branch on a slot already due (`Due`, which reads the
context again) or ahead (`Sleep`), and the two arms of the select
(`TimerFires`, `CtxDone`), which are both enabled when both channels are ready.
`Tick` and `Cancel` are the environment. `slots`, `granted`, `sent` and
`wasted` are history. Time is a natural number; only its order matters.

**Provider** follows one `callStage` per caller from the chain's lookup to the
end. `FixtureHit`/`FixtureMiss` are `Fixture.Complete`, `CacheHit`/`CacheMiss`
are `readCache`, `Wait`, `Granted`, `QueueCancelled`, `Answer`,
`AnswerInvalid`, `RateLimited`, `CallFails`, `CallAborted`, `BackoffOver` and
`BackoffCancelled` are `generate` with the repair loop of
`Gemini.Complete`. `writeCache` is a temporary file, a sync and a rename
(`CacheOpen`, `CacheSync`, `CacheRename`, `CacheGivesUp`); `Record` is a
truncation and a write in place (`RecordOpen`, `RecordWritten`,
`RecordBroken`), split so that two recordings, or a recording and a read, can
interleave. `Crash` ends every call and keeps the files. The contents of a
file are an answer, nothing, or bytes that fail the schema.

**CreativeStage** is the loop that spawns (`Spawn`), the body of a goroutine
(`Skip`, `Call`, then `CallOk`, `CallFails` or `CallCancelled`) and `g.Wait`
with the filter that follows (`Return`). The errgroup is external and modelled
by its two visible facts: it keeps the first error, and that error cancels the
context of the others.

**Allocate** is one action per pass of the fixed-point loop (`Pass`), the
conversion of shares to amounts clipped at inventory (`Target`), one action per
round of redistribution (`Redistribute`) and the emission of rows (`Emit`).
Shares are exact rationals over a common `unit`; money is an integer with
`Epsilon` in the place of `1e-6`. `Pass` leaves open which candidate survives
when all of them are dust: the code leaves it to map iteration.

**Campaign** is `Run`. A model's answer is taken item by item, in any order and
number: `TakeVerdict`, `TakePick` and `TakeRejection` are the loop bodies,
`EndVerdicts`, `EndPicks` and `EndRejections` what follows the loops. An item
the code skips changes nothing and is therefore no step. `Score` keeps only
the gates, and branches to the refusal. `Build` gates once more and sets the
status. `StageFails` is the error return of any stage that calls the model.

**Loops** has three helpers that recur: the items of a list outside a set, in order, as a
recursive function so that it can be reasoned about, the sum of a function over a
set, and a set sorted (`InOrder`): each element at the place that the number of those
ahead of it gives, so that an order is a function from an element to the set of those
ahead.

**Scoring** is stage 2 as operators: `CategoryScore`, `AgeScore` and the other
sub-scores, `HardGate` and `ScoreOne`. A sub-score is a multiple of `1/Unit` and a
weight is in hundredths. A score is a sum of products, from left to right as in
`scoring.go:64-65`, and each product and sum is `Rounded` to a float: numbers up to
`Precision` are exact and each power of two above is half as fine, a tie going to the
even neighbour. So the order of the terms matters, as in the code: publishers that
tie in the full score may not tie in an ablated one.

**Drafting** is what `Run` makes of any answer, and who asks for it. `Fit`, `Build`,
`Allocations` and the operators between them give the ledger, the texts and
levers, the bid and the clarifications of a campaign; `Check` is `eval.Check`
for each kind of expectation. `Start`, `Draft`, `DraftFails` and `EndDrafts` are
the drafting commands: `eval` goes on after a failure and fails at the end,
`run` and `measure` give up at the first. `failures` is what `eval` reports.
Which amounts are allocated is left to `Allocate`; here the allocated publishers are any
set of candidates that can deliver.

**Metrics** has `ReasonConsistency`, `ScoringAblation` and
`CreativeDistinctiveness` as operators on the campaigns of a process, with the
order in which the code breaks ties. `Disposition` is how `reasons.go` reads one
citation.

**Attribution** is the judge, call by call and item by item: `SkipCampaign`,
`JudgeReal`, `TakeReal`, `EndReal`, `JudgeControl`, `TakeControl`, `EndControl`, and
the two ways out, `JudgeUnrecorded` (the metric is skipped) and `JudgeFails`
(`measure` ends). `ControlPersonaIDs` chooses the personas of the control.

**Reports** is the end of `measure` and both report files. `CreateReport`
truncates in place, `WriteBlock` twice writes, `CloseReport` closes,
`CreateFails` and `AbandonReport` are an error or the end of the process.
`Open`, `ReadHead` and `ReadTail` are `os.ReadFile` and the decoding by `loadReport`
(`dashboard.go`) or `loadMeasurementReport` (`main.go`). `Diff` compares two reports,
and `Change` is one entry of it, with the sign that its text shows. `overlapped` is
history.

**Dashboard** is the handler of the metrics page (`OpenLatest`,
`OpenComparison`), and `PageData` what it makes of two reports: rows, arrows,
colours that judge, bars and their order. Where the page computes differently from the
report the model does too: the overlap of a dot is what is left of it in a finding's
text (`ThreeDecimals`), and a change up to `Tolerance` gets no arrow (`Arrow`) although
`Diff` has an entry with a sign for it.

**Ports** is `listen` (`Bind`, `Fallback`), `StopServer`, the answers of `/api/run`
(`HandleRun`), and the other programs on the host (`Neighbour`).

**PageStore** is the abstract promise of the report files: safe registers. A
client whose write overlapped no other leaves its report, or something garbled if it
fails; a load that overlapped no write sees what the file holds. Writes that overlap
may leave anything, also a splice of two reports, which every later load may decode to
numbers that were never measured together (`Spliced`).

**Disco** composes them. `Drafts`, `Judges`, `Writes`, `Reads` and `Serves` are what
a process may do, `Store` is the refinement mapping to `PageStore`: a file holds a
report when both of its blocks are that report's, a splice ("mixed") when each is of
another report, and is `Unreadable` otherwise. A load that got "mixed" is one that got
the splice, so it is allowed only where a write overlapped it or clashing writers
left one.

**LimiterProofs, ProviderProofs, CreativeProofs, AllocateProofs, CampaignProofs,
DiscoProofs, MeasureProofs** (the rest of `Disco`: what is drafted, checked, measured)
and **LoopTheorems** hold the proofs, and the `MC*` modules the instances.

## 4. The runs

| Run | Question | Instance | States |
|---|---|---|---|
| `limiter` | Are slots spaced, is the backlog explained by who waits or leaked, does the limiter implement the schedule, does each `Wait` return? | 3 callers, 4 calls, rpm 3 (interval 2) and -1 | 164,100 |
| `provider` | Is nothing invalid passed on or cached, are calls bounded, is what was recorded valid unless two recordings clashed? | 2 callers, one key, 2 answers, 4 modes, 1 crash | 906,053 |
| `provider_returns` | Does every stage call end, under a deadline? | 2 callers, mode auto, no crash | 122,684 |
| `provider_unreadable` | Is an unreadable fixture an error? **No.** | | counterexample |
| `provider_spoiled` | Does a recorded brief replay? **Not after two concurrent recordings**, although no write fails | 2 callers, mode auto, no crash | counterexample |
| `creative` | Root cause, order, failure ends the stage | selections of up to 3 of 3 known and 1 unknown personas | 4,263 |
| `allocate` | Convergence within five passes, inventory and budget ceilings, no money left that a surviving publisher could take | 4 candidates, 4 weights, 3 inventories, 3 budgets, 2 policies | 46,470 |
| `allocate_clips` | Does nothing clip at the recommended budget? **Something does.** | 3 candidates | counterexample |
| `campaign` | Do the gates, the ledger, the counts and the refusal hold against any answer? | 2 publishers, 4 personas, 1 stranger, 2 to 3 picks | 1,895,802 |
| `disco` | Do gates, checks, metrics and page agree on every campaign, are the report files safe registers, is a taken port no failure? | 3 publishers, 4 personas, six kinds of workloads, up to 3 processes | 69,255 |
| `disco_control` | Has the control no right answer while the catalog has enough other personas? **It can have one.** | two campaigns with one cast | counterexample |
| `disco_reasons` | Are the reasons the pipeline writes left out of the measure of reasons? **No.** | one brief, every answer | counterexample |

Every property has a mutant: a definition changed as a slip in the code would
change it, kept in the module just before the definition it mutates (for
instance `ReserveFromNow`, `RateLimitedOffByOne`, `CallOkAppends`,
`BackfillFromTheTop`). TLC finds the property violated with it.

### Bounds, and why they are enough

- *Limiter.* Three callers give every order at the lock, a caller behind a
  leaked slot behind another, and a backlog longer than one interval; the fourth
  call is a retry by one that was cancelled. `Horizon` lets the clock run idle
  before a call, so that slots in the past occur; afterwards time passes as long
  as somebody waits for it. The proofs remove the bounds for safety.
- *Provider.* Two callers are what a file with readers and writers needs, and one
  key is where they meet; distinct keys share no file. `MaxAttempts = 2` has one
  retry and one exhaustion, `MaxCompletes = 2` a second call that finds the
  first's files, one crash every point of one. `WritesFail` lets a write of a
  fixture stop half way; it is FALSE in `provider_spoiled` only, so that what is shown
  there is the work of two writers and not of a full disk. The proofs remove the bounds
  for safety.
- *CreativeStage.* Three indices have a failing call, one it cancels, and one that
  succeeds anyway; the fourth persona is unknown to the catalog.
- *Allocate.* Four candidates let a cap cascade three times; the weights have
  a zero, a tie and a dominating value, the inventories a zero and an ample one,
  the second policy makes everyone dust. How long the cascade gets depends on the cap,
  not on the candidates: the proof covers any number of them for caps of a quarter or
  more (section 5 says what happens below).
- *Campaign.* The minimum and maximum are 2 and 3 of 4 personas where the code has
  3 and 5 of 10: both bounds are met from below and above, and completion finds
  personas already picked. The proofs remove the bounds.
- *Disco.* The workloads divide the questions, since processes of different kinds
  meet only in files and ports: `Evaluations` has one brief with every kind of
  profile (category absent, equal, neighbouring, foreign; ages unset, touching
  one year, disjoint, open), of answer (empty, repeated, contradictory, gated)
  and of cast; `Small` the brief files and catalogs that are refused, and each
  expectation of `eval`; `Metered` two campaigns with sub-scores that vary, that
  do not, and publishers that tie; `Attributions` every answer of two items, and
  casts that overlap so much that the control runs out; `Writings` two writers into
  one file or into two, with a reader, all of whom may die; `Servings` two
  servers and a neighbour among three ports, two of which the system assigns, or an
  address nobody can bind. A fraction is rounded down to a multiple of `1/Unit`; with
  `Unit = 60` the halves, thirds, quarters, fifths and tenths that occur are exact, and
  age ranges span less than 60 years so that one common year is at least one unit. The
  scores of `Unit = 60` reach 6000, so floats of `Precision = 1000` are rounded in three
  powers of two; the two publishers of `Rivals` tie in the score and, by rounding alone, not
  once a sub-score they share is left out. `Tolerance = 1`, a
  sixtieth, is a change that is too small for an arrow. A file has two blocks: the code
  writes with one call, but the system may split it and a reader's calls, and two parts
  are enough for a torn, a mixed and a shortened file. `TopN = 1` of three publishers
  and `MaxFindings = 2` are met from both sides. The proofs remove the
  bounds.

Deadlock is not checked in any run: a limiter nobody calls, a campaign that is
built, a stage that has returned and a command that has ended all stop, as the
code does. That nothing stops too early is what the liveness properties say.

### Fairness

- *Limiter*: time passes (`Tick`) and a goroutine that can run is eventually run
  (`Step`). Nobody is obliged to call or to cancel.
- *Provider*: local work proceeds, and every context is eventually cancelled, as the
  deadline of `server.go:57-60` guarantees for requests. The model is under no
  fairness: it may never answer. The command line has no deadline, so there
  `CompleteReturns` does not hold and is not claimed.
- *CreativeStage*: goroutines are spawned and run, and a call whose context is done
  returns, which is what `CompleteReturns` establishes for the provider. Nothing
  obliges the model to answer.

## 5. What is proved

The proofs hold for any number of callers, personas, publishers, any interval
and any answers; they rest on the named assumptions in the modules
(`RpmAssumption`, `CatalogAssumption`, `CountsAssumption`, ...), which TLC
evaluates on each run. Some say more than that a bound is a number.
`PrecisionAssumption` keeps every score within the powers of two that `Rounded` knows.
`InputsAssumption` is about what reaches the pipeline: records whose fields are
numbers, sets and lists, as `catalog.Load` and the decoded answers have them, with ids
of personas numbered in their byte order, since ties between pairs of creatives go by
it, copy of finitely many words and reasons that cite sub-scores; and a
cast of known personas, none twice, between the bounds, which is what
`CreativesWithinBounds` and `OneCreativePerPersona` prove of the stages before.
`CommittedAssumption` is that the committed baseline holds numbers too.
`MoneyAssumption` sets `Epsilon`, the code's tolerance of 1e-6, above the rounding of
one division for each candidate.

**Limiter.** `SpacingInv` says more than `SlotsSpaced`: the last slot is an
interval or more behind `next`, and it is that which makes the next
reservation safe. A slot is granted at most once because the caller that holds
it is past the lock, and no two callers hold the same one. From this follow
`LimiterTypeOK`, `LimiterSpacesSlots`, `LimiterLeaksOneSlot` (a context that is
done never enters again, so only the call it interrupted can hold a slot) and
`LimiterOnSchedule`, the refinement: initial states map to initial states and
each step to a step or a stutter of `SlotSchedule`. `LimiterBacklogIsExplained` is
not inductive as it stands: when a caller returns, nothing says that `next` has come
closer. `BacklogInv` states the bound for every instant from now on and counts only the
callers whose slot lies beyond it; a slot that is due then counts for nobody, and a
new one, which is beyond all instants before it, pays for the interval it adds.

**Provider.** `CallOK` is an invariant of one stage call, whatever the others do to
its files: from the vetting on it holds an answer the schema accepts, the calls
it has made are at most what `Paid` counts (the attempts of the generation before a
repair, those of this one, and the call under way), and a call that started late
belongs to a context that is done and is not queued again. `CallsAreBounded` and
`OneCallIsLate` are read off it, and `CacheIsNeverDamaged` because a file is
renamed only after it holds the whole answer. For `RecordingsReplay` the invariant is
about a file and all its users: as long as no two recordings of a key have clashed,
whoever records it does so alone, into an empty file that nobody counts on, and
whoever holds the recorded answer or has handed it on can count on the file
(`Replays`). A recording that a crash or a full disk breaks is in nobody's count, so it
needs no case in the property. `CallsEnd` counts what a call can still do: where it is,
four steps for each attempt it has left and one for being cancelled. Every step of a call
lowers that number, a retry because it has an attempt less and a repair because it
happens once, so a call takes at most `8 * MaxAttempts + 8` steps, whatever the
model answers and the other callers do.

**CreativeStage.** `IInv` says what a slot of the slice holds in each place its
goroutine can be, that a caller's persona is known, and that nothing has
returned while a goroutine is still at work. `KeptOnce` says that what is
returned was filtered from the finished slice. `CreativesFollowSelection` then
comes from `OutsideAgrees`: the slice and the selection skip the same positions
and agree on the others. `RootCauseReported` is inductive alone, since a
cancellation that is first must be the parent's. `StageEnds` adds up what the goroutines
have before them, at most three steps each: `Spawn` starts none that has begun, which
is why `IInv` says who has.

**Allocate.** There are four invariants; each of the others contains the first.
`LoopInv` is the types, that somebody survives, and that the pinned publishers fit the
whole; a pass pins at the cap only what is above it, and the shares of the free sum to
what the pinned leave, so the newly pinned fit into that (`PassLocks`).
`MoneyInv` adds the ceilings: an offer is at most the headroom, and all
offers of a round are parts of the leftover by weight, whose sum is at most the
leftover. `ShortfallInv`, from which `ShortfallIsAlwaysReal` follows, explains the limit
on the rounds; it speaks of the publishers that kept a share, since nothing is offered
to the others (section 6): a round after which more
than `Epsilon` is left has filled somebody, for otherwise everybody took their whole
part and only roundings are left; so after `n` rounds at most `live - n` have headroom.
`PolicyInv` explains the five passes. Dust is dropped in the first only: later, what
the pinned leave behind makes the shares of the free grow, so nobody falls below the
floor. Every later pass that changes something therefore pins somebody, who leaves
something to the others, so a cap of a quarter pins three at most. Hence the hypothesis of
`UsablePoliciesAreHonoured`, a floor between one unit and the cap and a cap of at least
a quarter, which the documented policy (5% and 40%) meets and which is needed:
with a cap of 16% and a floor of 1% or 2% (`-max-share`, `-min-share`,
`main.go:135-139`) and eight publishers of weights (`origWeight`) 20, 18, 26, 46, 1, 4,
43 and 17, seven survive and the fifth pass still pins somebody, so the shares add up to
99.8% and, once normalised, exceed a cap that seven publishers could meet.
`allocate.go:132-134` says the cap is exceeded only where it is
infeasible. A floor of zero, or above the cap, is refused nowhere; with the first,
publishers of weight zero survive, who take nothing of what the cap takes from others,
with the second, a publisher is pinned at a share below the floor.
`OnlyLimitsClipTheRecommendation` says how far the doc of the recommended budget that the
run `allocate_clips` refutes is right: while neither the cap nor the floor has touched
anybody and everybody has inventory, a total up to the recommended budget is given out at
once but for roundings. Its invariant, `BudgetInv`, is that the shares are then still the
weights, all scaled by the same factor, and that a part of the total by weight is at most
the publisher's capacity when the total is at most the least of the budgets that fill
one. `AllocationEnds` counts the passes and rounds that are left, for any inputs, and does
not need convergence: both loops are bounded.

**Campaign.** The invariant has three parts. `StageInv`: the ranking stages are
reached by consumer advertisers only, and nothing is written before assembly;
this gives the refusal's price. `VerdictInv`: no publisher is judged twice,
everyone is judged after stage 3, and gated verdicts are exclusions; the ledger
is safe because there is one verdict to choose from. `SelectionInv`: no
persona twice, bounds on the number, rejections apart from the selection.
`EndVerdicts` and `EndPicks`, which complete a list with what is missing, need
the lemmas of `LoopTheorems` on lists: what `Outside` returns is a sequence of the
items wanted, all of them, none twice. `CampaignsCost` counts the calls stage by stage: a
campaign has paid for three and one for each creative it carries, a refusal for one.

**LoopTheorems** proves those for every list by induction over its
length; for every finite set what a sum is when an element is added, a part taken
out, every term bounded or compared; and that `InOrder` returns each element of a
strictly ordered set once, after those ahead of it (`InOrderIs`), and that two sorts that
compare the same key first have the same keys in the same places, however
they break ties (`SameKeys`). The induction is on a set of naturals with the library's
existence of a least element, so no theorem with an operator parameter is needed; the
existence of the recursive function is proved the same way.

**Disco.** `FilesInv` is about writers and readers at once. A writer nobody has
overlapped has written exactly a prefix of its report, and any other writer of
its file makes both of them overlapped; a reader nobody has overlapped has no
writer in its file, and the block it holds is still the file's first. The first
fact gives `EndWrite` (the file holds the report when it is closed), the second
`EndLoad` (the blocks decode to what the file holds); that both are kept when a
file is truncated under its readers and writers (`StepCreate`) is the heart of the
proof. A splice needs two writers that overlapped, so a file with one lone writer is
never one, and a load that nobody overlapped gets it only from a file that is.
`StepOfStore` then maps each step of any process to a step of `PageStore` or
a stutter, and `PagesAreSafeRegisters` follows for any number of processes, any
catalog and any answers. `ProcessAssumption` says that the names of processes are
not those of the marks in a file. `TakenAddressIsTriedAgain` is proved step by step:
one step changes one label, and only `Bind` and `Fallback` leave the two labels of a
server that is looking for a port.

**What is drafted and measured.** `DraftsInv` is about provenance: whatever a process
has drafted is `Build` of an input of one of its briefs, in their order, or a failure
that `eval` noted. A property of every campaign is then a property of `Build`, proved
once from the operators. `GatesFollowTheRecords` has the arithmetic: two ranges have a
year in common exactly if the clamped sum of `AgeScore` is positive, and since a range
spans fewer than `Unit` years, and a catalog has no more than `Unit` publishers, no
positive share is rounded to zero (the code computes in floating point, where they are
not either). `GateReasonsAreBorneOut` follows from where the gates come from: the
sub-score that closed one is zero, below each band. `OnlySilenceFails` compares each
check of `eval` with the enforcement it repeats. `RanksAlwaysFollowSubScores` claims
only what survives rounding: to round keeps the order, so a total keeps it too, and a
publisher that is better in nothing counted can be ahead by its id only; and to leave
out a term of zero is to add it, since a float is its own rounding. That a sub-score
all share moves nobody is not true of floats and not claimed (section 6).
`ControlIsAsLongAsTheCast` follows the code's loops: going round the other
campaigns visits all of them or stops with enough; what is collected has nobody twice,
also when the campaign's own personas and the rest of the catalog are appended; and the
control is a prefix of that. It needs `JudgeInv`, that no count exceeds the one it is
part of and that the judge stands at a campaign. `VariablesHoldWhatTheyCan`, the type
invariant, adds `ReportsInv` (each block in a file and each report on a page is of a
report that was made) and `PortsInv`.

**The page.** `PageAgreesWithReport` compares two computations of the same
facts: `Metrics` counts and sorts for the report, `Dashboard` counts and sorts again
for the charts. `FreshReports` says that a report about to be written is what
`MeasureReport` gives for the process's campaigns and judge, so the property becomes one of
that operator. The bar: each citation of a reason has exactly one disposition, so the
parts, one for each of the six dispositions, add up to the number of citations.
The chart of the ablation: both sort by the same value first, so the positions agree
but for ties. The dots: the worst pair of the report is the first of `Findings`, and nothing in
the list is above it; this is where the ids that order ties have to tell pairs apart.
It has the report's maximum to three decimals. The rows: a value is compared with the
other report exactly when `Diff` has an entry for it, and an arrow points where the sign
of that entry does, or is missing when the change is within `Tolerance`. That a change
can be compared takes `NumbersInv`, that the values of every report are numbers, the
mean of means and the judge's sum (`ChanceInv`) included. `FindingsAssumption` only says that the cut of the list is a number.

Only model-checked are the liveness properties (`WaitReturns`, `CompleteReturns`,
`FailureEndsTheStage`), which are out of the prover's reach. Their safety half is proved
where there is one: `CallsEnd` and `StageEnds` bound the steps of a call and of the
stage, so neither can go on for ever; that none stops short is what TLC checks, under
the fairness above.

## 6. Where code and documentation disagree

1. `chain.go:22-24` promises that an unreadable fixture is an error;
   `fixture.go:35` turns every read error into a miss.
2. `chain.go:18-20` promises that a recorded brief is free the second time; `Record`
   (`fixture.go:62`) writes in place without a lock, so two concurrent drafts of
   one brief can leave bytes of both, and each later run fails validation. No write
   has to fail for it.
3. `allocate.go:30-32` defines the recommended budget as the point where the first
   publisher hits its ceiling; the cap and the floor shift money afterwards, so
   one may clip below it.
4. `attribution.go:107-110` and `229-232` say that by construction the control has no
   correct matching; `controlPersonaIDs` (lines 140-149) falls back to the campaign's own
   personas before it tries unseen ones of the catalog. With one cast in two campaigns
   the control of each is the real task again. `ControlAsHardAsCanBe` is what holds.
5. `campaign.go:236-241` exports `GeneratedReason` so that a metric can tell the
   pipeline's reasons from the model's; the text `fit.go:100` writes for a publisher
   the model left out is not among them, so `reasons.go` counts it as a vague
   reason of the model.

Noticed on the way, without a run:

- `ratelimit_test.go:49`, "A cancelled caller must not consume the slot it will
  never use", is true of a context done before `Wait`, which is what the test tries;
  one done after the slot was reserved (`ratelimit.go:45`) delays those behind by an
  interval. `OneSlotLeakPerContext` is what holds in general.
- `prompts/personas.md:13` takes primary publishers from the recommended ones; the code
  (`personas.go:64`) filters against the catalog, so an excluded one can be suggested.
- `run.go:98-100` and `model/types.go:134-139` explain money that is left by a lack of
  inventory in the recommended set. A publisher that the dust floor dropped is
  recommended too, gets no offer of the leftover and may have room. If all are dust, the
  one that survives can be one without weight, and nothing is allocated at all.
  `ShortfallIsReal` is about the publishers that kept a share.
- `ablation.go:240-243` calls the mean shift of ranks "signal, not sort-order noise".
  Totals are compared with `!=` as float64, so rounding can split a tie: with
  `Category` and `AOVAlignment` 1, `GenderFit` 0.5, `IncomeTier` 0 and
  (`AgeOverlap`, `ValuesMatch`) of (1, 0.5) and (0.5, 1), two publishers tie in the
  score, and without the `Category` they share they have 0.475 and 0.47500000000000003.
  Such a split occurs in the run `disco`, but at the model's precision and not float64,
  so none is shown as a counterexample.
- The metric believes a judge that is always sure as long as none of its answers to
  the control count: an empty control has a rate of zero.
- `model/types.go:125-128` describes the recommended budget as every publisher at its
  ceiling, unlike `allocate.go`; the comment at `allocate.go:132-135` and
  `campaign.go:132` differ on `ExceedsMaxShare`.
- Which of several dust publishers survives when all are dust depends on map
  iteration.
- An age range with a lower end and no upper one is disjoint from every publisher's
  and gates all of them.
- A consumer campaign with nobody recommended is "ready" with an empty allocation,
  and passes `eval`.
- A page load that straddles a rewrite can decode a mixture of two reports, if their
  parts fit; this is the "mixed" of `Decoded`. Two `measure` that overlap can leave such
  a mixture in the file, and then every later load shows it.

## 7. Not modelled

Terminal and JSON rendering, logging, embedded prompts and pages have no state a
property could be about. Text processing is reduced to its outcome: phrase
tables and matching of reasons (a reason comes with the sub-scores it cites),
tokens and overlap of copy (a text is a set of words), grounding and truncation,
conversion of JSON schemas, JSON and age syntax. The judge's shuffles relabel what is
shown and are undone, so an item names a creative. Coordinates, colours of series and
labels of charts are left out; what a chart counts, its order and the judgement of a
change are in. The check of `eval` that shares sum to one is about amounts, which
`Allocate` has and `Drafting` does not, and its upper bounds on the lengths of texts
(`assertions.go:70-75`) are about characters. Scores are floats of a small precision;
other quotients and means are fixed-point numbers, rounded down, so a comparison of those
that the last bits of a float64 could tip is not seen. In `Provider` a cache that is switched off is one that cannot
be written, and a prompt is its key; the command line has no deadline
(`main.go:235`), so a model that never answers hangs it, which no property denies.
