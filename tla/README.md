# Models and proofs of the DGX Spark recipe

TLA+ models of the program that prepares pinned Qwen3.8 Flash-Next checkpoints,
audits them, starts them in a container, and reads their PLE table from disk.
TLC checks the models on small instances; TLAPS proves the central theorems for
every value of the constants. Paths below are those of the repository.

## 1. The system

| Part | State it keeps | Operations | Hard behaviour |
|---|---|---|---|
| Command line, `src/recipe/cli.py` | none of its own | `download`, `prepare`, `audit`, `serve` (and `list`, `path`, `login`, `dry-run`) | commands run concurrently and are rerun after any failure; three of them audit one checkpoint with different roots |
| Download, `src/recipe/download.py` | the Hugging Face cache | `download_target`: space gate, consent probe, target, source index, source shards, view | transfers stop half way; targets share repositories |
| View builders, `src/recipe/hybrid.py`, `src/recipe/mtp.py` | `recipe-views/<target>/<fingerprint>` and `.<fingerprint>.building` | `build_hybrid_view`, `build_mtp_overlay` | no lock; only `mkdir` excludes; death between any two steps; nothing cleans up |
| Static audit, `src/recipe/audit.py` | none | `audit_checkpoint` | reads what others may be changing; never looks at tokenizer files |
| Safetensors, `src/recipe/safetensors.py` | none | `read_header`, `write_subset` | truncated sources, half-written destinations |
| Container start, `src/recipe/runtime.py` | containers in the Docker daemon | `start_container`, `validate_environment` | five separate calls; memory that a starting model has not taken yet |
| Mapped PLE table, `src/vllm_ple_mmap.py` | a patched vLLM class, mapped shards, a thread pool | `apply`, `__init__`, `load_weights`, `_setup_table`, `gather` | exceptions while a class of vLLM is exchanged, loads in pieces, tasks in any order, errors with tasks still running, shards of unequal length |
| Manifest, `src/recipe/manifest.py` | none | a strict parser of `compatibility.json` | - |
| vLLM source patches, `src/patch_*.py` | the installed vLLM sources | anchored replacements at image build | applied twice, or on another version |
| Benchmarks, `benchmarks/` | reports | clients of the served model that judge its answers | streams that run at once, calibration and deadline loops |
| Publication, `tools/` | the public directory | `sanitize_result`, `verify_directory`, `audit_tree` | verdicts whose evidence is removed; a file written in place; files put there by hand |

How they interact. `prepare` calls `download_target`, which ends in a view
builder for the two modes that have a view, and then audits what it got.
`serve` audits again and calls `start_container`, with `validate_environment` as
the callback that runs just before `docker run`. In the container, vLLM loads
the checkpoint, and the patched embedding opens the PLE shards (`_setup_table`)
and answers every forward pass through `gather`. Benchmarks ask the served model
and write reports, which `sanitize_result` projects into the public directory
and `verify_directory` looks at there. All processes share the cache,
`recipe-views`, the Docker daemon and the host's memory; none of them locks
anything. What one promises the next is a directory that is whole and pinned.

What makes each part correct:

- builders: at most one process is at work in a building directory; a view
  appears whole and in one step, is audited, pinned, and never replaced; a dead
  build costs an operator one deletion and nothing else;
- commands: what `prepare` reports ready, `serve` accepts; a failed transfer is
  repaired by a rerun; consent comes before the transfer; every target can be
  prepared in the end;
- container start: a second model comes up only where neither the gate nor the
  daemon can stop it, nobody else's container is touched, and `--replace` replaces;
- audit and load: what the audit accepts the loader can open, and after a load
  lookups are answered from a complete table with its scale, never with zeros;
  the exchange of vLLM's embedding class is undone whatever happens;
- mapped table: every returned row is the row asked for; an id without a row
  raises; a layout that was let in serves the whole vocabulary;
- publication: no wrong answer is published as a success, nothing of an answer is
  published, and the verifier passes what the sanitizer wrote and nothing else.

## 2. The modules

| Module | Models | Used by |
|---|---|---|
| `ViewStore` | what a view promises: absent, sound or spoilt, and who holds it | refined by `ViewBuilder` |
| `ViewBuilder` | both build procedures, one action per step of the code | `MCViewBuilder`, `ViewBuilderProofs` |
| `Recipe` | four commands over one cache; the builder as a lookup, a `mkdir` and a publication | `MCRecipe`, `RecipeProofs` |
| `ServeContainer` | `start_container` against the Docker daemon | `MCServeContainer`, `ServeContainerProofs` |
| `SubsetWriter` | `read_header` and `write_subset` | `MCSubsetWriter`, `SubsetWriterProofs` |
| `PleLayout` | address arithmetic of the table | `PleGather`, `PleLoad`, `PleLayoutProofs` |
| `PleLoad` | the audit of the PLE, then constructor and loader of the patched class | `MCPleLoad`, `PleLoadProofs` |
| `PleGather` | layout check, then `gather` over worker threads | `MCPleGather`, `PleGatherProofs` |
| `Publication` | benchmark verdicts, sanitizer and verifier | `MCPublication`, `PublicationProofs` |
| `...Proofs` | theorems and proofs about the module of that name | |

Each component module also holds a few operators marked *Faulty*, just before
the definition they vary: the code with one plausible mistake in it (a dropped
test, `exist_ok=True`, a wait for one task only). No specification uses them. Put in the
place of their neighbour, each makes one property fail; `PROJECT.json` pairs
them up. They are the evidence that a property can fail at all.

**ViewBuilder.** `final` and `temp` are the two directories: `Absent`, or a
function from the parts of a view to what they hold (`partial`, `pinned`,
`foreign`, `damaged`). A part is a file, or a family of files the code writes,
reads and digests together; `Order` is the order of writing, `Audited` and
`Checked` say which parts the audit and the reuse of an existing view read, which
differ between the two modes. `pc` follows a process through the code:
`Lookup` and `CheckTemp` (the two existence tests), `Mkdir`, one `Write` per
part, `Audit`, `Recheck`, `Rename`. Every failure is a move to `failed` that
leaves the directory as it is, because the code has no cleanup. `Abort` is a
death or an I/O error at any step, `Damage` decay of a published part,
`AlterSource` a change of the source snapshot; `RemoveTemp` and `RemoveFinal`
are the operator. `SourceStable` confines source changes to moments when no
process is at work: the code hashes the source and then copies from it, so
without that assumption `CompactIsPinned` and `NoMalformedView` are not the
code's to keep, and both name it. So the models do not say what the compact shard
of an overlay is when the cache is rewritten in the middle of a build, nor that
anything notices when the shards a published hybrid view links to decay: the code
looks at the metadata of the view only. The tokenizer and processor files are one
part, `serving`: the files that the target's snapshot has. The code skips one
that the snapshot lacks, so a whole view is as whole as its snapshot.

**Recipe.** `files` is what each repository's snapshot holds (config, index, the
shards a source contributes, the rest), `roots` which of the two root
directories exist, `building` and `ready` the views. The steps of
`download_target` are `RequireSpace`, `Probe`, `FetchTarget`, `FetchIndex`,
`FetchShards`, then `LookUp`, `MakeDirectory` and `Publish` of the view; each
transfer is one action that brings any subset of what it wanted, and fails if that is
not all. Between the lookup and the `mkdir` another process may publish: the one that
comes later then builds in vain, fails in `Publish` and leaves its directory beside
the view. `Breaks` is a build that dies or meets an I/O error. `job` is the
command and target that a process runs. `Accepts` is
`audit_checkpoint` with the caller's roots. `prepared` and `broken` record what
has been reported and which builds broke; no action reads them.

**ServeContainer.** `slot` is the container that holds a target's name. The
steps are the check of the options, of which the model has the address
(`Options`: another than loopback takes `--unsafe-override`), and then the calls of
`start_container`: `Inspect`, `Label`, `Remove`, `Gate`, `Run`. Two facts about
Docker are assumed: a name has one holder, and a port of an address one running
container, where `0.0.0.0` stands for every address (a taken port leaves a container
in phase `created`). A model takes its memory some time after `Run` (`Load`); one
loaded model leaves less than `MIN_MEM_AVAILABLE_BYTES`. The other options are taken
to be those of the profile, so `Gate` meets only memory and disk. When `docker rm -f` finds nothing under the
name, versions of the client differ, and `Remove` may go either way.

**SubsetWriter.** `disk` maps paths to files: a header (names, types, sizes by
shape, offsets) and data, whose cells carry the name of the file they come from,
so that a byte copied from the wrong place is seen. `job` holds the locals of
each call of `write_subset`. `Begin` is the check of the request; `Resolve`,
`ReadHeader` and `Select` the loop over the entries (`read_header` takes the
size of a path before it opens it, hence two steps); `Create` the exclusive
open; `Open` and `CopyChunk` the copy, a chunk at a time; `Abandon` the handler
that removes the destination, `Return` the end. `Replace` puts another file in a
source's place, `WriteFails` is a full disk, `Leave` a death, an exception that
`except Exception` does not catch, or an `unlink` in the handler that fails in its
turn. `OpenFails` is an exclusive open that fails for another reason than that
something is there: the handler then removes whatever is there. If that was the
file another call has made and is copying to, that call has lost it (`lost`): on
Linux it writes on to a file without a name, and only its own removal of the name
(`LoseMore`) and its end (`Return`) are followed. The properties of a returned file
except that case. `Readable` says when `read_header` returns,
and `Header` what; that bytes of the header are truncated or no JSON is one
flag, and so is its size limit. A request that has its
destination among its own sources is refused at that entry; of all others
`StagingAssumption` says what the one caller sees to: `_build` in `mtp.py` copies out
of the source snapshot into the building directory that its own process has made,
so nobody else writes to a destination and no destination is a source.

**PleLoad.** The audit of `serve` on the host and the load in the container, over
one checkpoint: an index, the headers of the files, and which files are as long
as their headers say. `Accepts` is `audit_checkpoint`, `Consistent` and `Opens`
are `_find_shards` and what `_setup_table` asks of its result. The two find the
PLE tensors by different rules, which is what `AuditCoversLoader` compares: the
audit by the index and by full names (`IsShard`), the loader in whole files and by
how a name ends (`EndsAsShard`), so that it also takes a tensor of another prefix
for a shard (`Aliased`) and of several with one number the last. And the audit
compares the number of shards and of rows with the manifest (`Expectations`), the
loader with the layer that vLLM builds (`Parts`, `Vocab`); that these are
the same is assumed nowhere. So the loader does refuse audited checkpoints, for one
of these two reasons and for no other.
`Replace` puts another checkpoint there in between. In the container,
`BeginInit` to `InitRaises` are the patched constructor, during which
`VocabParallelEmbedding` names the placeholder (`embedding`), and `BuildOther` is
any other class of vLLM's module. `Stream` and `LoadRest` are a call of
`load_weights`, which vLLM makes once per run of tensors and which may raise
anywhere; `AlreadyOpen` to `OpenTable` are the outcomes of `_setup_table`, which
registers a scale before it validates the layout. There is one PLE layer, as in
every target of `compatibility.json`. Files do not change while `_setup_table`
reads them. `LoadedIsServed` asks for a scale and not for the right one: after a
replacement the scale of one checkpoint may meet the table of the other, for
which the loader has no test.

**PleLayout and PleGather.** `found` is what the checkpoint's files hold;
`SetupTable` lets it in or not. `Gather` takes the steps of `gather` in the
calling thread (unique ids, range check, tasks) and queues a future per task;
`Begin` and `Finish` are a worker that takes the next task and ends it;
`RunInline` is the case of a single task; `Await` is the loop over `pool.map`,
which waits in order, and on an error cancels what has not begun and raises.
The answer is compared with `RowOf`, which searches for the row of an id in
vLLM's layout and divides nothing. A write of a slice is one step: the array is
read only after all its futures are done, and `AwaitLast` shows that reading
it earlier is noticed. Rows stand for their bytes. `shard_size` is integer
division in the model; the code divides floats, which is the same below 2^53.

**Publication.** A report has a verdict of its own and a section of further ones.
What the model keeps of a verdict is what the sanitizer decides by: the label
(fixture, marker, context), the three keys a verdict may have, and whether the
answer is in the file; `answer` itself is known to the model also where the file
does not have it. `Measure` is a benchmark with the rules by which it judges
(`Validate`, `Raises`), `Retained` the reports of other programs, in every form
the sanitizer has a rule for. `Clean` is `sanitize_data`, `Refused` where it
raises, `Finding` is `verify_directory`. Three things met on the way: no benchmark
writes the key `model` that `sanitize_result` demands, so somebody has to add it
(`NameModel`); `functional.py` judges a tool call by its name, the sanitizer also by
its arguments (`Founded` has that exception); and an answer to a JSON fixture that
is no JSON ends `functional.py` before it has written its report (`Raises`).
Measurements are one flag and the contents of a context are left out. A report
that has been published is not measured anew. A boolean verdict is kept by the
sanitizer also beside an answer that says the contrary, in streams, in samples and
in the verdict of the report itself (its tests ask for that), and `NoFalseSuccess`
counts it as founded (`Evidence`): what the property excludes is a success made out of
text, or against an answer that the sanitizer does look at.

## 3. What is checked

| Run | Instance | Shows |
|---|---|---|
| `views_hybrid` | 3 processes (symmetric), 2 faults | `OneOwner`, `PublishedWhole`, `NeverReplaced`, `NoMalformedView`, `StaleUntouched` |
| `views_mtp` | 2 processes, 2 faults, tended | `AuditedStaysWhole`, `CompactIsPinned`, refinement of `ViewStore`, `EventuallySound`, `ContentionPublishes` |
| `overlay_rerun` | 1 process, 1 fault, no operator | a violation: a rerun does not rebuild a damaged overlay |
| `recipe_views` | 2 processes, hybrid and overlay, 1 failure, tended | `PreparedIsServable`, `BlockedOnlyByFault`, `ConsentBeforeTransfer`, `EventuallyPrepared` |
| `recipe_direct` | 1 process, direct targets only | a violation: `serve` refuses what `prepare` reported ready |
| `serve` | 4 invocations, 2 targets, 2 ports, 3 addresses, one override | `SecondNeedsOverride`, `ForeignKept`, `ReplacementTakesPlace` |
| `serve_two_ports` | 2 invocations, 2 ports | a violation: two models up |
| `serve_foreign` | 2 replacements of one target | a violation: a container without the label is removed |
| `subset_writer` | 2 calls, 13 states of the disk, 1 fault, chunks of one cell | `AcceptedTiles`, `ReturnedIsWhole`, `PayloadKept`, `OrderIrrelevant`, `NoOrphan`, `NeverReplaced`, `EachCallEnds` |
| `ple_gather` | all layouts of up to 4 shards, 3 calls, 2 workers | `GatheredRows`, `UnknownIdsRaise`, `KnownIdsServed`, `EachCallEnds` |
| `ple_load` | 46 checkpoints, 5 targets, a layer of 3 rows in 2 shards | `OnlyTheLayerSwapped`, `LoadedIsServed`, `AuditCoversLoader`, `AuditedScale` |
| `publication` | sections of 2 entries, all answers, all forms of retained verdicts | `NoFalseSuccess`, `VerifyDecides` |

Why the bounds suffice. Three builders are the least in which one process looks
while a second renames and a third makes the directory anew; two faults let one
build die and another meet its remains, or a source change and a decay coincide.
The liveness run of the builders has two processes, since every wait is for
one other. Two commands and one failure let a transfer break in one process
while another uses the same repository; the targets are those of
`compatibility.json`, where `orca_mtp` takes its shards from the repository that
`radix` serves. Four invocations of `serve` put two on each name. One asks for every
address without the override and is refused; one with the override takes the port of
another on an address of its own; the last has another port. Containers that are
there before have any address and port. Seven rows in three shards give a short last shard and a gap of two
ids; tasks of two rows cut a shard of three in two, and a request for the whole
last shard and its gap in two tasks that both fail, of which one may still run
while the next call is made. (No task after a failed one can succeed: ids are
sorted, and only the end of the table has a gap.)

Two calls of `write_subset` meet in one destination or ask for the same tensors in
two orders, for one destination and for two. The sources on disk have each kind
of header that `read_header` refuses, and those it accepts with tensors in and out
of the order of their names and with an empty one. One tensor takes two chunks,
so a call can fail, die or be overtaken in the middle of it; a source can vanish,
lose bytes or move its offsets between any two steps. One fault is enough for
each of these, and for one call to lose its file to the failing open of the other;
a second would only act on the other call.

A checkpoint of `ple_load` has one defect (`MCPleLoad` lists them): rows spread
otherwise, too many or too few; another width or dtype; a shard or file missing, cut
short or one too many; a scale where none should be, or none; a second FP8 table
beside the first; a tensor of another module that ends as a shard or as the scale, in a
file of its own or before or after the layer's; no index. Two shards of unequal length
make all of these differ. Of the targets, one BF16 and the FP8 one agree with the layer
of vLLM; the others expect another number of rows or of shards.
Two replaced checkpoints would show no more than one, for the loader has
no memory but its scale and its table. In `publication` the entries of a
section are judged one by one, so a second one is there for the section that is kept
while one of its entries is not.

The `serve` run gives one of the two invocations of each target `--replace`; with
two for one target `ForeignKept` fails, which is the run `serve_foreign`, so in
`serve` that property is about the test of the label alone. Two models come up in
`serve` in two ways only, and `SecondNeedsOverride` says that there is no third: by
`--unsafe-override`, which skips the gate and admits another address, on which the
same port is free; or on two ports, the second past the gate while the first still
loads. The latter is what `serve_two_ports` refutes a documented claim with.

Deadlock is checked in the builder and recipe runs. `ServeContainer` stops when
every invocation has ended, `SubsetWriter` when every
call has, `PleGather` after `MaxCalls` calls, and `PleLoad` when the audit refuses.

### Fairness

- `Proceed` of a builder or a command, and of a `serve` invocation: weak. A
  started process runs on; deaths are explicit (`Abort`, `Breaks`) and bounded.
- `TendedSpec` adds what no code does, and says so by its name: preparation is
  run again and again, the source is fetched again, and a person removes what
  the messages name. `EventuallySound` and `EventuallyPrepared` are statements
  about recipe and operator together. `RemoveTemp`, `RestoreSource`,
  `RemoveStale` and the preparation of each target, by whichever process, need strong
  fairness, for other processes disable them again and again. That the user frees
  the disk (`FreeSpace`) is part of it: a disk that the download itself has filled
  stops every rerun at the space gate, and the recipe alone has no way out.
- `overlay_rerun` uses the same fairness for everything but the operator, who is
  switched off: the counterexample reruns preparation for ever.
- A call of `write_subset`: weak; it waits for no other.
- Worker threads and the waiting caller: weak, the operating system's.

### What the violations say

1. `serve` approves `recipe-views` for every target (`src/recipe/cli.py:93`), and
   an approved root must exist (`src/recipe/audit.py:249-261`). On a host that
   has only direct targets, `prepare` and `audit` accept a checkpoint and `serve`
   refuses it. `recipe_views` shows that targets with a view never meet this.
2. `docs/TROUBLESHOOTING.md:38-39` has a rerun rebuild a damaged overlay; the
   code refuses it (`src/recipe/mtp.py:374`), and somebody must delete it first.
3. `docs/HOW-IT-WORKS.md:50-51` ties replacement to the label; the label is read
   by one call and the container removed, by name, by a later one
   (`src/recipe/runtime.py:242`).
4. `validate_environment` is to fail closed when host capacity does not suffice
   (`src/recipe/runtime.py:66`); a model that is still loading is not in
   `MemAvailable` yet, and with another name and port nothing else stops a
   second one.

One more disagreement has no run of its own, but is in the model, as the exception that
`NeverReplaced` has to make. `write_subset` is to preserve what it finds at its
destination (`tests/test_safetensors_audit.py:321`). It does if the exclusive open fails
with `FileExistsError`; after any other failure of that open, for want of a descriptor
say, the last handler (`src/recipe/safetensors.py:225`) unlinks the path, also one that
this call has not made (`OpenFails`). Without the exception TLC finds that at once.
In the one use the directory is the process's own and nothing is there.

## 4. What is proved

`ViewBuilderProofs` proves, for any set of processes, either mode and any number
of faults, each safety property that the two builder runs check, and that
`ViewBuilder` implements `ViewStore`. The assumptions are the named ones of
`ViewBuilder`.

The argument. `OneOwner` is not inductive: that a process may `Mkdir` without
meeting another at work follows only from `temp` being there as long as somebody
is. The invariant therefore says together: types; a process at work has its
directory; two are never at work; a building directory holds, of the parts its
owner has written, nothing partial, and after the last one everything; a
published view has no partial part; and, where the source is stable, the source
is pinned while a process is past its check, hence the compact part is. Each
action is one step of the proof. The action properties and the refinement follow
from the invariant at the steps that change `final` or `temp`.

`PleLayoutProofs` proves about the address arithmetic, for every vocabulary and
number of shards: in a layout that was let in, an id in range addresses a mapped
row exactly if it is in the vocabulary (so no known id raises, and none in the
gap reads the bytes of another tensor); the range check refuses no known id; no
two ids share a row. It rests on Euclid's lemma and `ShardSizeSuffices`.

`PleLoadProofs` proves all five invariants of the run, for any set of checkpoints,
any vocabulary and number of shards. The invariants add that `saved` is the real
class at all times (so that restoring it is right), that a table is never set without
its layout and scale, and that an unchanged checkpoint past the audit is an accepted
one, whose loader has a scale only if its dtype needs one.
What the audit is worth to the loader is then a statement about two sets of rules over
one checkpoint: with headers that match the index, what ends as a shard in the files
the loader searches is a shard of the index, in the file that the index names, or an
alias; without an alias the loader finds what was audited (`AuditedLoads`). Two exceptions remain and are in the property: the alias, and
a layout of rows that is not that of vLLM.

`PublicationProofs` proves `VerifyDecides` and `NoFalseSuccess` for reports with any
number of entries. The heart of the first is that `Clean` is idempotent, and refuses
nothing of its own output; the second follows entry by entry from the rules, with an
invariant that says what the verdicts of a benchmark's report were made of. Its
`Report(raw)` is the module's type invariant, and is proved only: the run has none.

`RecipeProofs` proves, for any number of processes, targets and failures:

- `PreparedIsServable`, if every target has a view. What is in the cache, published
  or accepted never goes away (`Grows`), so an audit stays good; and the roots of the
  two audits are the same just for targets with a view. `recipe_direct` is why
  the condition is needed.
- `ConsentBeforeTransfer`, from the same monotony.
- `BlockedOnlyByFault`. A build that fails in `Publish` leaves its directory, so it has
  to be shown that it fails there only beside a view: the invariant `BuildInv` says what
  a process has fetched by the time it comes to each step, so that a build finds no
  hole, and that a building directory has one owner.

`ServeContainerProofs` proves types; `SecondNeedsOverride`, for which the invariant says that
who is past the options without the override publishes on the loopback, that a model which
was up before is in memory, so that nobody without the override comes past the gate beside
it, and that two such containers have two ports; and `ForeignKept` if no other user takes
names or if no two invocations replace one target (then what an invocation is about
to remove is still the container whose label it read). `serve_foreign` is the
run in which the condition does not hold, and `serve_two_ports` shows why the case of
two ports cannot be dropped from the first.

`PleGatherProofs` proves all four invariants of the run, for every vocabulary,
number of shards, chunk, number of workers, set of requests and schedule. What the
code computes first is a matter of lemmas: `Sorted` gives each member once and in
order, and `Tasks` cuts the positions of the ids so that each is in one task, all ids
of a task in its shard. The invariant then says of each call, over or not
(`Sound`): the futures before the awaited one are done; a future is failed only if its
shard does not have a row that the task asks for, and done only if it has all of them;
what a done task covers is written. `GatheredRows` alone is not inductive, for an
array is filled in any order and by tasks that outlive their call; `KnownIdsServed`
needs that a failure has a cause, which `RowsWhereTheyAreRead` of `PleLayoutProofs`
then excludes for ids of the vocabulary.

`SubsetWriterProofs` proves the six invariants and the action property of the run,
for any files, requests, number of calls and faults, and any buffer.

- `AcceptedTiles` is about `read_header` alone: the sorted ranges follow on one
  another without a gap (`ReadableChain`), so a byte is in the first tensor that ends
  behind it and in no other. Empty tensors have no byte, wherever they are sorted.
- `OneMaker`: of the calls that have made a destination and have not given it up, no
  two have the same. This carries `NeverReplaced`: what a call writes to or removes is
  what it has made itself, because `open("xb")` found nothing there; a call that has lost
  its file to a failing open is not counted.
- `Phases`: what each call has at each point of the code, of which the core is
  `Written` (the file on disk is the layout of the selection, and its data are
  as long as the tensors copied so far and what is done of the next), the digest
  being taken of the same bytes, and `Copied` (each tensor so far is that stretch of
  its source, if nobody replaced it). That offsets read at the start and bytes read
  later belong together follows from `replaced` alone, which is why the invariant
  also keeps the headers that a call has read beside the files they came from.
- `Provenance`: a file that nobody else has put there was there at first or has a
  maker, which gives `NoOrphan`.

`OrderIrrelevant` then needs no invariant of its own: the names of two selections are
the same set, a set has one ascending order, and the layout and the data are
functions of it. Nothing here is weaker than what the run checks. The assumptions are
the types of the constants (`FilesAssumption`) and `StagingAssumption`.

Three of these facts are about recursive data (the running offset, the sorting, a
file of any length), where the library's induction theorems cannot be used, for they
take an operator. The proofs take the least counterexample instead (`LeastOf`: a set
of naturals that is not empty has a least member, from `WellFoundedInduction`). For
the same reason `Offsets` is a recursive function and no fold, and the sorting
`InOrder` says of each member how many are before it.

Model-checked only: the liveness properties (`EventuallySound`,
`ContentionPublishes`, `EventuallyPrepared`, `ReplacementTakesPlace` and the two
`EachCallEnds`), as TLAPS proves nothing under fairness; and the four violations,
which are counterexamples. Every invariant and every action property that a passing
run checks is the statement of a theorem; some are proved under a condition
that the instance of the run meets, which is said above.

## 5. What is not modelled

- `manifest.py`: a parser without state.
- What the audit compares with the manifest beyond the PLE (configuration, names and
  shapes of an overlay); in the models a checkpoint passes or it does not, and what
  can make it fail is `Content`, `NoHoles`, the roots and, in `PleLoad`, the PLE.
- Power loss that undoes writes after the rename (nothing is fsynced).
- What a call of `write_subset` copies to a file that another call has unlinked.
- JSON syntax of headers, and files changed in place while a call reads them.
- What a refused replacement leaves behind: the old container is gone by design.
- `prewarm`, which only reads, and the custom operator, which passes a call on.
- `src/patch_*.py`: each replaces a text that must occur once, when the image is
  built; what they change is not in the repository, so nothing could be said but
  that a text is replaced once.
- Calibration, streaming and pacing of the benchmarks, which decide no verdict.
- `tools/audit_publication.py`: a search for patterns, one file at a time.
- `list`, `path` and `dry-run`, which change nothing, and `login`; scripts and image.

## 6. Plan

Done, in this order: `ViewStore`, `ViewBuilder` with its proofs, `Recipe`,
`ServeContainer`, `PleLayout` with its proofs, `PleGather`, `SubsetWriter`,
`PleLoad`, `Publication`, and the proofs about all of them. Next:

1. Composition: `Recipe` with `ViewBuilder` in the place of its three steps,
   as a refinement; `Serve` followed by `ServeContainer`. A run of the composed
   model is what limits it: two builders step by step under two commands.
2. Proofs: `PleGather` from the checkpoint that `PleLoad` lets in, so that the
   rows served are those of the audited tensors; and that the compact file which
   `ViewBuilder` calls pinned is one that `write_subset` returned.
