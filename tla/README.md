# A TLA+ specification of rust-ml-runtime

The Rust runtime of this repository routes inference requests to local backends
or remote providers, keeps loaded models in a bounded cache, turns what backends
and providers yield into one kind of stream, executes batches and graphs of
decisions, runs capabilities under a policy, generates text in-process, and
installs model packages. Almost all of its control lives in asynchronous functions: what can go
wrong is what other tasks, the caller's token, a dropped future, a lost
connection or a dying process do between two awaits. That is what the modules
here describe, what TLC explores on small instances, and what the proofs settle
for every size.

Paths below are relative to the repository's root; `lib.rs` alone is
`crates/runtime/src/lib.rs`.

## 1. Inventory

| Component | Where | State | Operations | What is hard |
|---|---|---|---|---|
| Model cache | `lib.rs` 1576-1720, 1916-1922, 2299-2329 | `loaded_models` (RwLock), `cache_clock`, `load_semaphore`, load counters | `load`, `load_reference`, `infer_loaded`, `find_loaded`, `resolve_loaded_model`, the look at the cache of `infer_inner` | two lookups around a wait for a permit, a third that counts for itself, eviction between load and use, futures dropped at an await, gauges that are not guards |
| Inference streams | `lib.rs` 2141-2249, 2677-2764 | one producer task, one bounded channel, a token | `infer_stream[_with_cancellation]`, `normalize_stream` | unbiased `select!` of source and token, slow or gone consumers, dying tasks |
| HTTP provider and remote server | `providers/http/src/lib.rs`, `providers/server/src/lib.rs` | reader task, channel of 32, connection, response body | `infer`, `infer_stream`, `/v1/infer[/stream]` | four tasks and three queues in a row, broken connections, cancellation that must travel backwards |
| Chat streams | `crates/runtime/src/generation.rs`, `providers/http/src/openai.rs` 960-1180 | pump task, channel, tool-call assembler, held proposals | `chat`, `chat_stream`, `pump_stream`, `read_stream`, `emit` | error against full buffer, idle timeout, tool calls that must not be proposed too early, permit held as long as the stream lives |
| Model installer and catalog | `crates/model/src/lib.rs` 400-530, 900-1125 | directories under the model root | `ModelInstaller::install`, `discover`, `resolve`, `validate` | several tasks and processes on one file system, crashes and failing renames between two steps |
| Routing and execution | `lib.rs` 1834-2139, 2251-2502 | `inference_semaphore`, request counters, execution records | `infer[_with_cancellation]`, `select_for_request`, `can_fallback`, `admit` | six policies, two flags and a configuration combined; two fallback points; two semaphores taken one inside the other |
| Batches | `lib.rs` 1722-1832 | none of its own | `infer_batch` | one route for many requests, `try_join_all`, results matched to requests |
| Decision graphs | `crates/runtime/src/decision.rs` | pending, skipped and resolved nodes of one call | `plan`, `execute_graph`, `execute_wave`, `call_model` | waves, native batches, bounded parallelism, conditions, blocking calls that outlive their execution |
| Laya batches | `backends/{onnx,coreml}/src/laya.rs` | none of its own | `decide`, `prepare`, `infer` | budgets cut at many places, one padded tensor for all questions |
| Capability registry | `crates/runtime/src/capability.rs`, `lib.rs` 1404-1495 | registered providers, packages | `register`, `load_packages`, `resolve`, `execute_capability` | approvals looked up in two lists, a path that is checked and then opened again, token and timeout as alternatives, replacement under one id |
| Registered models | `lib.rs` 883-1324, `crates/model/src/lib.rs` 1300-1616, `backends/{onnx,coreml}/src/laya.rs` | package, `.staging`, `.replace-pid`, installation.json, the cache of compiled models | install, doctor, list, remove, `load_model` | crashes between swap and manifest, three reports with three sets of checks, files opened twice |
| llama provider | `providers/llama/src/lib.rs` | semaphore of slots, one blocking worker and one bounded channel per call | load, `chat`, `chat_stream` | a thread that cannot be interrupted, a full channel, text held back, two ways to drop a call |
| Tool calls and event streams | `providers/http/src/openai.rs`, `crates/provider/src/generation.rs` | assembler, line and event buffers | `complete`, `push`, `finish`, history of a turn | fragments with and without an index, cuts at any byte |
| Backends | `backends/*` | loaded sessions | load, infer, infer_batch, infer_stream | numeric, foreign runtimes |
| Data types, traits | `crates/{common,inference,protocol,backend,provider}`, `providers/local` | none | | |
| Bindings, CLI, benchmarks, tools | `bindings/*`, `crates/cli`, `benchmarks`, `tools` | none of their own | | |

How they interact: an application task calls `Runtime`; `infer` and `chat_stream`
share the permits of `inference_semaphore`; `infer` resolves a model through the
catalog (which reads the directories the installer writes), selects a target,
and either loads the model through the cache (second semaphore, inside the
first) and runs a backend, or calls a provider; a failed local attempt may fall
back to the provider. Streams are handed back through `normalize_stream`; the
HTTP provider's chunks come from a server that is itself a `Runtime` with its own
`normalize_stream`. A batch is a local backend call or a join of `infer` calls.
A decision graph calls one model on blocking threads, which for laya is one padded
batch. The llama provider is behind `chat` and `chat_stream` like the HTTP
provider; both give tool calls to the application, which executes them through
the capability registry and sends the results back as the next turn.

What makes each component correct is what its module's properties state; the
list of hazards in `PROJECT.json` gives, line by line, what they are aimed at.

## 2. Modules

| Module | Models | State and actions |
|---|---|---|
| `LruCache` | the promise of the cache | the resident set and its recency order; `Use`, `Publish` |
| `ModelCache` | the cache as the code has it | `pc` per task between "idle", "probe", "find", "check", "acquire", "recheck", "loading", "insert", "refind": one step per stretch between two awaits or two lock releases. "probe" is the look of `infer_inner` at the cache, which counts a hit or a miss of its own, and "find" the lookup after it. `last_used` and `cache_clock` are the stamps; `load_permits` the permits out; `metrics` the counters of the load path; the history `probed_misses` the misses `infer_inner` counted; `DropCall` is a future dropped at an await |
| `StreamContract` | the promise of a stream | outputs produced, events taken; `Begin`, `DeliverOutput`, `Complete`, `Abort` |
| `InferenceStream` | `normalize_stream` | `outgoing` is what the producer has in hand, `sent`/`received` the channel, `cancelled` the token; `Source`, `ObserveCancel`, `Send`, `SendFails`, `Receive`, `DropStream`, `SourcePanics` |
| `RemoteStream` | streaming over HTTP | two instances of `InferenceStream` (server and client), the connection, and the provider's reader task with its held-back last output; `ReadLine` decodes what it reads, and what the network cut inside a character (`MayCut`) arrives as another |
| `ChatStream` | the chat stream | `pump` and its three-step error path, the assembler's result, `held` proposals, `outbox` and `stream` of the unfold state; the histories `seen`, all events the consumer got, and `reply`, those of them the stream contract knows |
| `ModelInstaller` | the installer and the catalog's scan | `files` maps each path to what a reader would find there; one action per file-system operation; `Crash` kills a process and all its tasks |
| `Routing` | selection and fallback | pure operators of a request and the resident models: `EffectivePolicy`, `Select`, `RemoteSelection`, `CanFallback` |
| `InferenceExecution` | concurrent calls | `pc` from "start" over "admit", "resolve", "select", "lookup", "load", "loading", "refind" to "backend", "remote", "open"; both semaphores, the counters, and the histories `trail`, the attempts of each call, and `tally`, the infers and streams asked for and the futures of infer dropped |
| `InferBatch` | `infer_batch` | `step` of the call, `items` of the requests: how each has ended, where, and with which model; each of the joined infers resolves and routes its request again (`Targets`); `Churn` is everybody else's loads and evictions. The permit a native batch takes and the counters are left out |
| `DecisionGraph` | decision graphs | `step` from "plan" over "wave" (skip, choose, chunk) to "calls" and back; `calls` are the native calls that run, `batches` what was sent; `Native` is a blocking thread, which goes on when its execution has failed or was dropped; a batch with another number of answers fails at once (`TakeResult`), a call without one when the wave is over (`MissDecision`) |
| `LayaDecisions` | one batch of a laya model | tokens are records that say which question and option they come from; `prepared` the prompts, `decisions` what each was read from; `InferFails` is an error of the session or of the shape or the values of its output |
| `Decisions` | `DecisionGraph` and `LayaDecisions` side by side | the state of both; a behaviour is one of the two. What the adapters check of an artifact when they load it is its assumption |
| `CapabilityExecution` | registry and execution | `registry` the providers by id, `step` of the one call, `approved`, `place` (where the path of the request leads) and `seen` (where it led when `CheckPath` looked), `performed` (its effect; `UseFile` for files), `work` (a child, a server, a provider), `cancelled`, `expired`; `MovePath` is another process that moves files or links between the check and the use |
| `RegisteredModels` | the life of a registered model | `package`, `backup`, `staging` and `cache` are directories; an installation.json is the build it names and whether its runtime requirement is the registration's (`current`); one action per file operation; `Crash`, and from outside `Damage` and `Upgrade`, another release with another requirement; the histories `calm` (nothing disturbed the call), `unhindered` (no `.replace-pid` of its own lay there) and `putBack` (a failed replacement restored a damaged package since the call began) |
| `LocalGeneration` | the llama provider | `call` holds pc, slot, buffers and the event in hand of each call, and the history `streamed`, the text its channel was given; `sent`/`taken` its channel; `Admission`, `Worker`, and the consumer |
| `ToolConversation` | replies and turns | `fragments` of a streamed reply into `assembler`, `proposals`, and `history` of the next request; text is a sequence of tokens where its syntax matters |
| `SseParsing` | the event-stream parser | bytes of a stream, cut into chunks of any size; compared with a parser of the whole stream |
| `ChatCompletions` | `ToolConversation` and `SseParsing` side by side | the state of both; a behaviour is one of the two. Its assumption gives messages, options and fragments the types of the wire |
| `RuntimeCalls` | `InferenceExecution`, `InferBatch` and `CapabilityExecution` side by side | the state of all; a behaviour is one of one of them |
| `ModelPackages` | `ModelInstaller` and `RegisteredModels` side by side | the state of both; a behaviour is one of the two |
| `MC*` | instances for TLC | keys, requests, batches, graphs, texts and tasks |
| `ModelCacheProofs`, `InferenceStreamProofs`, `RemoteStreamProofs`, `ChatStreamProofs` (with those about `ToolConversation`), `RegisteredModelsProofs` (with those about `ModelInstaller`), `LocalGenerationProofs`, `RuntimeCallsProofs` (about `InferenceExecution`, `InferBatch` and `CapabilityExecution`), `DecisionGraphProofs` (with those about `LayaDecisions`) | proofs | section 5 |

`Decisions`, `ChatCompletions`, `RuntimeCalls` and `ModelPackages` each check two components that
share no state in one run: the initial states choose one of the two, whose
next-state relation then runs while the variables of the other keep a fixed
value. Nothing is said about both at once. `RuntimeCalls` has `InferenceExecution` too, in a
run of its own (`CallsSpec`).

An operator whose name says what it gets wrong and whose comment begins with
"Fault:" stands before the definition it varies and is used by no specification:
substituting it shows that the property named with it in `PROJECT.json` notices
the mistake.

Abstractions that matter:

- Payloads, messages and errors are classes. `Failure` in `Routing` has
  "unavailable" for every `RuntimeError` that `can_fallback` lets through,
  "refused" for the others, and "cancelled".
- The cache inside `InferenceExecution` and `InferBatch` is the set of resident
  models and evicts any of them: `ModelCache` has the stamps and the counters.
- The installer's file system is a map from the three kinds of path to a
  content class. Only an installer with a catalog is modelled, and the removal of
  the staging directory at the end of `install` is taken to succeed.
- The backends and the HTTP server's handlers are nondeterministic: they answer,
  fail, or never answer.
- Text is made of tokens, of characters or of bytes, where a property is about
  cutting it (`LayaDecisions`, `LocalGeneration`, `SseParsing`,
  `ToolConversation`), and a class everywhere else. A tokenizer is a function of
  the question that is asked; sampling picks any piece.
- A decision model answers under the names it was asked: `DecisionGraph` keeps values by
  node, the code by the name of the decision (`decision.rs` 187).
- Of a laya tensor the models have the ids, the attention, the markers and the logits;
  the marker mask, the type of the question and the action probabilities are left out.
  Separators and masks are counted by where they come from; the code scrubs the mask
  token from the user's text and not the separator.
- A process that comes back after a crash has the pid it had before: the worst
  case for directories named after it.

## 3. Runs

| Run | What it asks | Bounds | Distinct states |
|---|---|---|---|
| `ModelCache` | bound, single flight, accounting of misses, those of infer included, refinement of `LruCache`, every call returns whoever drops a future | 2 tasks, 3 keys (two identities of one model and another model), cache of 2, 1 permit, 3 calls | 149k |
| `InferenceStream` | order of events, backpressure, a cancelled stream ends | buffer of 2, 4 chunks | 610 |
| `RemoteStream` | the same contract end to end; an abandoned stream ends the provider's task, the connection and the server's task: a cancelled one whatever hangs, a dropped one once the backend yields | each queue of 1, 8 chunks | 200k |
| `ChatStream` | order, whole proposals, release of the connection, termination with a silent upstream | buffer of 2, 2 deltas, 2 tool calls | 31k |
| `InferenceExecution` | local stays local, no fallback for contract errors, recorded fallbacks, accounting, every call returns | 2 tasks, 5 kinds of request, 2 calls, 1 permit of each kind, cache of 1, both settings of `allow_remote_fallback` | 189k |
| `FallbackTransitions` | violated: a result records every fallback transition | the same, no remote provider | |
| `RuntimeCalls` | a batch that is answered has for each request a result of its model, where its policy allows; approvals before effects, files only after their check, a capability ends in time | every pair of 18 requests, for 2 versions of one model and another model; 3 providers, 4 sets of packages, 3 ids | 176k |
| `Decisions` | the graph answers what its conditions call for, as planned, and ends; prompts fit and answers are of the own prompt | 5 graphs of up to 3 nodes and 5 invalid ones, 16 policies and a bad one, 4 models; 8 questions in pairs, 4 artifacts | 87k |
| `ModelPackages` | installer: only verified packages are published, nothing is lost; registered models: a load opens verified files, except what a failed replacement put back, and does not fail where the doctor says Ready; an undisturbed install recovers, doctor and list both say Ready | 2 processes on 1 root, 1 crash; 3 installs; 4 calls, 1 fault (or upgrade), ONNX or Core ML | 1.33M |
| `LocalGeneration` | a stopped call ends soon and frees its slot, the context suffices, explicit ends, stop sequences never leak | 2 calls, 1 slot, 3 pieces, 4 configurations, 6 files, channel of 1 | 423k |
| `Completions` | tool calls are usable and can be replayed; chunks are invisible | 2 tool calls, 4 fragments, 2 turns, 9 histories; every stream of up to 5 parts | 2.49M |
| `DecisionGraphSkips` | violated: skipping the last nodes of a graph is no failure | the graphs of `Decisions` | |

Why the bounds are enough. The cache needs one more key than it holds for an
eviction, and two tasks that want the same key for the two lookups to disagree;
three calls let the lookup after the first load make its model newer than that of the
second, so that a third load evicts the one that was inserted later; and one of them can
hold the permit while one waits for it and the last comes after them. What is said of the
cache in every state is proved for any number of calls besides. A stream needs more chunks than its buffer plus the one in hand to be held
back; end to end there are seven places for an output, so eight chunks are the
least at which both ends are full with an output still to come. The installer
needs two processes, a replacement of what the first installed, and one crash; the
third install is the one that meets what the crash left. One permit of each kind is the hardest
case for `CallsReturn`, since it makes each call wait for the other; two calls
are enough for that, and for one to evict what the other has selected. The
invariant `SingleFlight` is about `LoadPermits = 1`, the default configuration; the
other cache theorems hold for every number of permits.

A graph of three nodes has every shape of two dependencies (a chain, a fork, a
join), and a limit of two makes a wave of three take two chunks. The options and
heads of the laya questions lie below, at and beyond each of the budgets the code
cuts to, and pairs differ in width and length. A registered model needs two
processes, an install, a replacement, a removal and a load to disturb each other,
and one crash between any two of their steps, or one upgrade between two operations. Stop sequences that overlap
themselves and pieces that split them show what is held back; a prompt of two
batches shows that cancellation is looked at between them. Two fragments make one
call, and four two of them, interleaved; two turns are one replay. Five parts of a
stream give every pair of line ends around a field.

`KeepsContract` of `RemoteStream` is checked without panics (`MayPanic = FALSE`) and with
characters that arrive whole (`MayCut = FALSE`): with either it does not hold, see section 4.

### Fairness

Safety runs need none. For liveness:

- A task that can go on is polled again: weak fairness of its own steps
  (`Progress`, `Transmit`, `Pump`, `Reader`, `Execute`, `Admission`, `Worker`). Tokio
  gives this to every woken task, the operating system to a blocking thread.
- A `select!` without `biased` picks at random among the ready branches, so it
  does not pass over a token for ever: strong fairness of `ObserveCancel` and
  `ReaderObservesCancel`.
- Tokio's semaphores are FIFO, so a waiter that keeps finding permits gets one:
  strong fairness of `AcquireLoadPermit`, `Admit`, `BeginLoad`.
- A backend or provider behind `infer` answers or is cut off by its timeout: it is
  within `Progress` of `ModelCache` and `InferenceExecution`. The awaits of
  `infer_stream` itself are under no timeout (`lib.rs` 2141-2235): that it returns
  rests on the backend or the provider answering. A decision model
  answers too (`Native`), since nothing can interrupt it, and so does one step of
  llama.cpp (`Worker`). The sources of streams, the children, servers and
  providers of capabilities are assumed nothing of: they may hang.
- A timer fires: `Expire` of `CapabilityExecution`.
- Consumers are assumed nothing of, either. Where a property needs one that
  reads, the property says so (`StreamTerminates`, `CallsReturn` of
  `InferenceExecution`) or the consumer is the one that drains until it drops
  the stream (`Receive`, `Consume`).

## 4. Statements the code does not keep

Two statements of the documentation have a run that shows how they fail (section 3 and
`findings` in `PROJECT.json`):

- `DecisionGraphSkips`: when the conditions of all the nodes that are left are false, the loop at
  `decision.rs` 124 empties `pending`, the wave is empty, and `execute_graph` fails with
  "decision graph could not make progress" although docs/runtime/execution-planning.md
  says that such nodes are skipped.
- `FallbackTransitions`: a request that puts the remote target first and finds none available
  is executed locally with `fallback` false (`lib.rs` 2388), although docs/architecture.md:92-94
  has every result record any fallback transition. `FallbackRecorded` is what remains true: a
  result names the target that gave it, and the way from the local target to the
  remote one is always recorded.

Others were stated while the modules were written and fail as well; each is a
definition of its module and TLC shows its counterexample when it is checked in
the configuration of the run of that module (`ModelPackages` for `ModelInstaller` and
`RegisteredModels`) with the change indicated.

| Definition | Says | Why the code differs | To see it |
|---|---|---|---|
| `HandleStaysExecutable` (`ModelCache`) | docs/api.md:54-57: load, then `infer_loaded`, without manipulating the cache | a load evicts whatever is oldest, handles or not (`lib.rs` 1650) | `PROPERTY`, cache of 1 |
| `HandleNamesItsModel` (`ModelCache`) | `lib.rs` 1691: executes against a previously loaded handle | a handle without version matches any version (`lib.rs` 2319) | `PROPERTY` |
| `LoadOnDemandFinds` (`ModelCache`) | docs/api.md:53: loads on demand | evicted between load and second lookup (`lib.rs` 2306) | `PROPERTY`, cache of 1 |
| `NoCompletionAfterCancel` (`InferenceStream`) | docs/api.md:110-111 | the `select!` of source and token is unbiased and the end of the source is not checked against the token (`lib.rs` 2714) | `PROPERTY` |
| `TimeoutReported` (`ChatStream`) | docs/generation.md:107: an idle timeout is reported as `Timeout` | `try_send` and `capacity()` are two looks at the buffer; the error is dropped if the consumer makes room in between (`openai.rs` 1007) | `INVARIANT` |
| `PublishedIsVerified` (`ModelInstaller`) | docs/models.md:66-68 | two tasks of one process share the staging directory (`crates/model/src/lib.rs` 967) | `INVARIANT`, `OneProcess = TRUE` |
| `ResultsKeepIdentity` (`InferBatch`) | docs/architecture.md:56: `infer_batch` preserves result identity | a batch is for one model when the ids agree, versions aside (`lib.rs` 1752), and a native one is executed by the version of its first request; `ResultsAnswerRequests` is what remains true of the same batches | `INVARIANT` in `RuntimeCalls.cfg` |
| `TextArrives` (`RemoteStream`) | docs/architecture.md:85-87: remote streaming preserves the runtime-owned events | every piece of a response is decoded by itself, with replacement characters for what is no text (`providers/http/src/lib.rs` 173), so a character that two pieces share is lost | `INVARIANT`, `MayCut = TRUE`, 2 chunks |
| `StaysInScope` (`CapabilityExecution`) | `capability.rs` 792: a path outside the configured scope is an error | the path is checked (782) and then opened again by name (801, 819, 848): a link moved in between leads elsewhere | `INVARIANT` in `RuntimeCalls.cfg` |
| `ListedAsLoadable` (`RegisteredModels`) | what `load_model` accepts, `installed_models` lists as Ready | the list compares the recorded runtime requirement with the registration's (`lib.rs` 911), load asks only that this runtime satisfies it (1301), so a model installed by an earlier release loads and is listed as Incompatible | `INVARIANT` |
| `ReplaceRepairs` (`RegisteredModels`) | docs/install.md:57: `--replace` repairs | a `.replace-pid` directory left by a crash makes the rename of the old package fail, for every process with that pid (`crates/model/src/lib.rs` 1594) | `PROPERTY` |
| `LoadsWhatItValidated` (`RegisteredModels`) | what `load_model` hands out is what it validated | `lib.rs` 1284 validates and 1321 opens the path again; a replacement that fails in between puts back the damaged package it had set aside (`crates/model/src/lib.rs` 1598) | `PROPERTY`, 3 processes, ONNX only, 1 build, 5 calls, 2 faults, no crash |
| `CompletedMeansSuccess` (`RemoteStream`) | docs/api.md:103: Completed exactly once on success | the end of a stream is its success, also when its task died (`lib.rs` 2757) | `INVARIANT`, `MayPanic = TRUE` |
| `PromptsFit` (`LayaDecisions`) | `backends/coreml/src/laya.rs` 911: the artifact supports `max_length` tokens | `padded_length` rounds up to a multiple of 16 on a flexible artifact (927); `validate_shape` (933) does not require `max_length` to be one | `INVARIANT`, a flexible artifact with `maxLen` 60 |
| `FailedNeverListed` (`ModelInstaller`) | docs/models.md:69-70 | discovery descends into `.staging` (`crates/model/src/lib.rs` 435) | `PROPERTY` |
| `ExistingReported` (`ModelInstaller`) | docs/models.md:70-72 | any error of `resolve` is "not installed" (942) | `PROPERTY` |
| `PolicyRecorded` (`InferenceExecution`) | docs/architecture.md:92-94 | the recorded policy is the request's, not the one applied (`lib.rs` 2473) | `INVARIANT`, a LocalOnly request that requires remote |
| `RemoteStaysRemote` (`InferenceExecution`; `BatchesStayRemote` of `RuntimeCalls`) | `crates/inference/src/lib.rs` 7 | `allow_remote_fallback` replaces `RemoteOnly` (2351); a batch follows its first request (1749) | `INVARIANT`, a RemoteOnly request |
| `StreamsScheduled` (`InferenceExecution`) | docs/architecture.md:72-73 | `infer_stream` takes no permit (2165) | `INVARIANT` |
| `QueueReported`, `RemoteCounted` (`InferenceExecution`) | `crates/cli/src/main.rs` 537, 565 | `queued_requests` is never incremented (1547); an empty provider counts as remote (2049) | `INVARIANT`; the second with `RemoteRegistered = FALSE` |

Of the counters three things that one might read into them do not hold; `RequestsAccounted`
and `MissesAccounted` say what does. `streaming_requests` and the outcomes do not add up to
`total_requests`: an infer with the stream option that fails is counted as failed and as
a stream (`lib.rs` 1882, 2063). A native batch that fails is counted as requested and under no
outcome (1774-1796); `InferBatch` has no counters. An infer that loads its model counts two
cache misses, its own (1916) and that of `load`.

A dropped stream over HTTP is noticed only when the reader task next has something to send or
the connection yields: while the server's backend hangs, task and connection stay.
`AbandonedIsReleased` promises their release for a cancelled stream at any time, and for a dropped
one once the backend yields.

Three more are not stated as properties. docs/providers.md:25 says that sensitive
providers must require the application's authorizer; for a provider other than
the built-in one `execute_capability` asks it only if the request requires it, and
without an authorizer it looks at the requirements of whichever provider has
registered that name last (`lib.rs` 1474-1492), so `EffectsAllowed` promises only
that much of them. A cancellation token disables `timeout_ms` (`capability.rs`
755), so `BoundedEnds` speaks of a time limit only without a token. A child process
is waited for, not killed, when its call is cancelled or times out: `work` stays
"busy" after the call has returned.

## 5. Proofs

TLAPS checks the theorems of eight modules, for every set of tasks, keys, models,
requests and processes, and every limit, buffer and number of calls, faults and crashes.
They assume the named assumptions of the modules (limits are positive, since the
builder clamps them with `.max(1)`; the set of tasks is finite; a buffer has room for one
event; a stop sequence is non-empty text, and decoding a piece gives text). Four hypotheses beyond these stand in the theorems that need them,
`~OneProcess`, `~MayPanic`, `~MayCut` and `RoundLengths`; each excludes a behaviour that section 4 describes,
under which the property really fails, and holds in the run that checks it.

`ModelCacheProofs`:

- `BaseInvariant`: `TypeOK`, `PermitsHeld` and `GaugeNeverUnderflows` are inductive
  only together. That the gauge stays a natural number needs that it is at least
  the number of tasks between its increment and decrement; that number changes by
  one with a task's program counter (`MoveCount`), which needs the types. The
  permits are the tasks at the admitted steps, by the same lemma.
- `CacheIsBounded`, `StampsAreDistinct`: the cache is finite, bounded and its stamps
  differ and lie behind the clock. One critical section inserts and evicts
  (`InsertSize`), all other steps leave the cache or refresh one stamp (`CacheStep`).
- `LoadsAreSingleFlight`: with one permit two tasks are never both admitted
  (`OnePermit`), so what the second lookup found still holds at the insertion.
- `LoadsAreAccounted`, `MissesAreAccounted`: the counters, from the above. The misses are those
  of `infer_inner`'s own look (`probed_misses`) and those of `load`, each of which is still
  under way, failed, completed, or was left in the gauge.
- `ImplementsLru`: stamps to recency order. Every step is a `Use`, a `Publish` or a
  stutter of `LruCache`; that the victim is the least recently used one is
  `VictimsAreOldest`, which needs the distinct stamps.

`InferenceStreamProofs`: the inductive invariant `Inv` adds to the types what the
channel holds (`Ordered`), what the producer has in hand in each control state
(`InHand`), how far it may be ahead (`Room`) and what the count says (`Counting`);
without `InHand` nothing keeps a second terminal event from being sent.
`StreamTypeOK`, `SlowConsumersHoldTheSource`, `CancelledStreamsAreCountedOnce` and
`StreamKeepsContract` follow, the last by mapping each step to a step of the
contract (`ReceiveDelivers`) or a stutter.

`RemoteStreamProofs`: `RemoteKeepsContract` composes two streams by their proofs. The module
instantiates `InferenceStreamProofs` for the server and for the client, so that both
have its invariant (`S!Inv`, `C!Inv`), and adds in `Link` what they do not say about each
other:

- `ServerFacts`: the server's token is nobody's, so no "cancelled" comes from there, and a producer
  that is done without being dropped has sent a terminal event. This is where `~MayPanic` is
  needed: a task that died has sent none, and the end of its channel is taken for success.
  `~MayCut` is needed where a line becomes an output: the reader passes on what it decoded.
- `ReaderFacts`: the i-th item the provider sent is the i-th output, marked as the last only
  if the server is finished and has no more (`Chunked`); what the reader holds back or is
  about to send is the output after those (`Pending`); while nothing was lost the lines
  read are accounted for by these (`Progress`), and after the last line of a stream that
  completed all its outputs are in the provider's channel (`Returned`).
- `ClientFacts`: what the client pulled are outputs, and it counts itself finished
  only when the server's source is and it has all of them.

Without the held-back output nothing keeps the client from ending one output early; without
`Progress` a lost connection could look like an end. Each step of the server is a
`Produce`, a `Finish` or a stutter of the contract (`ServerProduced`), each of the client an
event its consumer takes or a stutter (`ClientTakes`), and the reader's steps are
invisible.

`RuntimeCallsProofs`, about `InferenceExecution`:

- `RoutingInvariant`: the types, and `Fitting`, which says for each step of a call
  what its selection and its list of attempts may be: nothing before it is routed;
  on the way through the local target a local selection under the effective policy
  and no attempt; at the remote target at most one earlier attempt, which found the
  local one unavailable. The properties alone are not inductive: that a call which
  fails locally had no attempt before, and was selected under the policy that
  `can_fallback` then looks at, is what `Fitting` adds. `SelectFacts` and
  `RemoteSelectionFacts` say what routing returns for each policy, `Frames` that a
  step of one task leaves the other calls alone, so that one call is looked at.
- `LocalOnlyStaysLocal` and `FallbackNeedsUnavailability` follow from it;
  `FallbacksAreRecorded` needs it where a result is recorded (`RecordsSuccess`): the
  way back from an absent remote target is none of the code's fallbacks, which the theorem
  says in so many words and `TransitionsRecorded` (section 4) shows.
- `PermitsAreHeld`: each step says what becomes of the permits of the task that
  moves (`PermitStep`), the bounds are those under which a permit is taken
  (`BoundStep`).
- `RequestsAreAccounted`: a call ends under one outcome and one target, and an infer that did
  not succeed may be counted as a stream besides (`EndedCounters`); the calls in flight
  change by one with the gauge, and a dropped call leaves them without touching it. With the
  dropped futures counted (`tally`) the gauge is exactly the calls in flight and those.

Further in that module, about the instances of `InferBatch` and `CapabilityExecution` in
`RuntimeCalls`: `BatchesAnswerRequests` holds of every batch, two versions of a model
included. Each infer of a joined batch is routed by its own policy (`Targets`), whatever
was resolved for the batch before and is loaded and evicted now; a native batch is local
and for one id, so that its results are of the model of the first request and of the id
of each (`BatchInv`). `EffectsAreAllowed` needs what holds of a request that runs
(`Admitted`): whoever had to approve it has, also when a provider was replaced under its
id between the approval and the effect; and that at the step between the check of a path and
its use the check has found it in scope, whoever moves it then.

`ChatStreamProofs`: three places hold a part of the response, the channel, the
proposals held back and what the unfold state is about to yield, and the task may be
anywhere in its error path. `Inv` says what each of them holds:

- `Ordered` and `Numbered`: `Started` is first, the k-th delta has the number k, and
  nothing but another error follows an error.
- Once the response is whole (`assembled`), some position divides the channel
  (`ClosedAfter`): before it no call, end or error; after it the proposals in order and
  `Completed`, as far as the task came, or errors. How many proposals are held is what
  the consumer took beyond that position (`HeldAfter`). Without this nothing says
  that the consumer, when it takes `Completed`, holds all proposals: that the task did
  not leave one out is a fact about the channel.
- `Passed`: what the consumer has got is a prefix of that without its errors.

`ProposalsComeWhole` follows. `ChatKeepsContract` maps each step to one of the contract
or a stutter; the events of tools are no events of the contract, so `reply` is the
history of those that are.

The same module proves what `ToolConversation` promises, through the instance in
`ChatCompletions`, for every history, options, fragments and limits:

- The fragments: `Assembles` says that the calls of the assembler have openings among the
  fragments, in ascending order and all of those that open a call, and that each call is what
  belongs to its opening, joined. A fragment goes to the call whose opening it belongs to
  (`Finds`), for two reasons: where the server numbers its fragments, because two calls never
  have one index (`FindsByIndex`), and where it does not, because what opens no call belongs to
  the last one that was opened (`FindsTheLast`). `FeedAssembles` follows; a server that does
  both is not covered, and `ProposalsUsable` says nothing of it. That joining one more piece
  extends what was joined (`FlattenGrows`) is the induction over the pieces, by `SetInduction`
  as in `DecisionGraphProofs` below.
- The reply: `FinishedCalls` says that no error of `finish` means that no call has one, and
  `ProposalsWereOffered` that the schema `check` looks up is that of a tool with that name.
- The next turn: `validate_messages` keeps two sets while it goes through the history.
  `ProposedBefore` and `OpenBefore` are what is in them at each message, so that a longer history
  is valid up to its old end because the shorter one is (`ReplayIsValid`). Each result finds
  its call open: the results before it answer other calls, since the assembler
  lets no identifier repeat, and the old history answered only what it had proposed
  (`AnswersWereProposed`), which the new identifiers are not among.

`ConversationInvariant` carries this from request to answer: what is being answered was
validated when it was sent, and nothing changes it in between.

`RegisteredModelsProofs`: `Inv` says what each process knows at each of its steps
(`Fits`): what it is about to put in place is intact whoever else is at work (`Placed`), and, as
long as its call is undisturbed, what lies at the package, the backup and the
staging directory (`Undisturbed`). A step of another process ends an undisturbed call, so that
`Undisturbed` is only looked at for the process that moves (`OthersFit`,
`MoverFits`). `LoadedFiles` is what holds of a load between its two looks at the package,
whoever moves. `LoadsOpenInstalledFiles` and `InstallsRecover` follow. The attempt to
prove the first without an exception found the behaviour in section 4
(`LoadsWhatItValidated`), for which three processes are needed and which the run with two
does not reach; `putBack` and the exception are its result. That a load which nothing
disturbs does not fail where the doctor says Ready, and that an install ends where doctor
and list both do, also after an upgrade, tie the three reports to each other; that what
loads is listed as Ready is not so (`ListedAsLoadable`).

The second half of that module is about `ModelInstaller`, the instance of it in
`ModelPackages` (for installers of different processes, `~OneProcess`: two tasks
of one process share a staging directory and neither theorem holds): what an installer
verified stays whole below its own staging name until it is renamed into place
(`Staged`), and so does what it set aside while it may have to put it back
(`SetAsideWhole`). `Separate`, no two installers have one process id, is what makes both
inductive, and survives a crash. `InstalledIsVerified` needs nothing else.
`InstalledIsNeverLost` is not inductive: that *a* copy exists does not say that nobody is
about to remove it. `Kept` says so: the copy is in place, or set aside by a
replacement that is not at the step that discards it.

`LocalGenerationProofs`: each call has its own state, worker and channel, so the
invariant speaks of one (`Fits`) and each step changes one. `Filled` says how far the
context is filled at each step of the worker, `position = prompt + produced` at the head
of its loop and one less before a token is evaluated; the bound alone is not inductive, since
evaluating adds to the position without looking at it. `Late` says that a batch
evaluated after the call was given up was the last one. `Written` says what the channel
holds before, at and after the last event, also while a worker waits for room with an
event in hand. `ContextNeverOverflows`, `WorkersStopSoon` and `StreamsEndExplicitly`
follow. `StopsNeverLeak` rests on a second invariant (`TextFits`) and on lemmas about
the stop filter for any text and any stop sequences. That nothing shown contains a stop
sequence is not inductive: one may have begun in what was passed on. What is (`Passes`):
what was passed on and what is held back are all that was decoded, there is no stop
sequence in it, and none begins, complete or not, in what was passed on (`Settled`). So
a stop sequence in the decoded text is one in what was held back and the next piece
(`HeldIsEnough`), the filter's cut is the first of the whole text (`PushFacts`), and
what it keeps settles the rest again (`KeepFacts`). Once a stop sequence was found the text
is what precedes the first (`CutAt`). `Channelled` says that what the channel was given and the
delta in hand are what was passed on. `Utf8Push` folds over bytes, so that it returns
text for every piece is an assumption (`DecodingAssumption`, which the type of
`Utf8Buffer::push` gives and TLC evaluates for the pieces of the run); the proof needs
nothing else of it.

`DecisionGraphProofs`: the skipping loop, the waves and the levels of the plan compute with
recursive functions over sets of nodes, and there is no induction to cite. What takes its
place are two facts, that a set of numbers with a member has a least one (`LeastExists`) and
that a set closed under a step holds every number (`SetInduction`): a recursive function is
what its equation says (`UpToDef`, `SkippingDef`), and a node with the least level at which a
claim fails has only dependencies below that level. On them rest

- the sequences: `Ordered` lists a set in ascending order without repetition
  (`OrderedFacts`), `Chunked` cuts a sequence into consecutive pieces and
  joining them gives it back (`ChunkedFacts`, `JoinsChunks`, `FlattenIs`);
- the plan: in a valid graph every node is in exactly one level and depends on lower ones
  only (`DependenciesBelow`, `StagesComplete`);
- the reference: a dependency graph that is valid has exactly one solution of the equation of
  `Needed` (`NeededIsResolved`), so that the skipping loop and the waves, which solve it,
  compute it.

`Inv` says that every node is pending, skipped or resolved (`Partition`), that a resolved node
has matching dependencies and a skipped one a dependency that is skipped or does not match
(`Conditions`), that the calls of the wave are in the window and its chunks within the
limits (`InWindow`, `ChunkSizes`), and that some number of stages is behind: their nodes are
resolved or skipped and no other node is resolved, the wave takes what is left of the next
stage, and when nothing was skipped the batches are those of the plan (`InStages`); the batch
size the execution computes from the wave is then the one the plan computed from the
stage (`PlannedSize`). TLC checks `Inv` on the graphs of `Decisions` with every policy.
`StallsOnlyWhenAllSkipped` is what the error "could not make progress" means: among the nodes left
over, one of the least level has only resolved dependencies, since a skipped one would have
had it skipped.

The same module proves what `LayaDecisions` promises, for every question, state and artifact:

- `OptionsFacts`, `FlattenHeads`: however the options are cut, each keeps its mask and has no
  other, so that in the options joined the masks are where the options begin.
- `LayoutFacts`, `PromptFacts`: a prompt is a header, three runs of tokens and three
  separators, at places that do not depend on what the runs are; `PromptsAreFitting` follows
  with `PaddedFacts`.
- `RowColumn`, `CellInside`, `SliceIsOwn`: row times width plus column is divided back into
  the same row and column, so a row of the tensors is the item's own, the columns it attends to
  are its tokens, and its slice of the logits its options.
- `LayaInvariant` puts them in order: `PreparedInOrder` says that what was laid out is
  the prompts of the questions so far, accepted ones only, and `AnsweredInOrder` that each
  decision is the network's for the item at its place, and that Core ML is at most one
  question ahead. The lengths of a batch are the largest of the rows (`LargestExists`).
  `EitherInv` adds that a behaviour of `DecisionGraph` has none of this.

The type invariants, `PermitsHeld` of both modules and `GaugeNeverUnderflows` are proved
and no longer listed in a configuration, so that the runs are spent on what is not. Each
inductive invariant was checked by TLC on the instance of its module's run before it was
proved.

Only model-checked:

- all liveness properties: fairness and ENABLED are out of the prover's reach;
- `ChunkingInvisible` of `SseParsing`, which compares a fold over chunks with a fold over the
  whole stream: that the two agree for every way to cut it is an induction over data with
  an operator as a parameter.

## 6. Plan

In this order, most important first:

1. done: `ModelCache` with `LruCache` and its proofs.
2. done: `InferenceStream` with `StreamContract` and its proofs; `RemoteStream`.
3. done: `ChatStream`.
4. done: `ModelInstaller`.
5. done: `Routing`, `InferenceExecution`, `InferBatch`.
6. done: `DecisionGraph`, `LayaDecisions`.
7. done: `CapabilityExecution`, `RegisteredModels`.
8. done: `LocalGeneration`, `ToolConversation`, `SseParsing`.
9. done: the proofs about `InferenceExecution`.
10. done: proofs about `ModelInstaller`, `RegisteredModels`, `LocalGeneration`,
    `ChatStream`, `InferBatch` and `CapabilityExecution`.
11. done: the proofs about `DecisionGraph`.
12. done: the contract of `RemoteStream`, from the invariant of its two instances of
    `InferenceStream`.
13. done: the proofs about `LayaDecisions`.
14. done: the proofs about `ToolConversation`.

## 7. Not modelled

Numeric work in foreign runtimes (the tensors of the backends, sampling and
evaluation in llama.cpp, Core ML's compiler), the language bindings, the command
line, benchmarks, examples and tools hold no control state of their own or are
I/O. The tokenizer is a function of its text. The tensor conversion of the Core ML
adapter is left out; its budgets and exported lengths are in `LayaDecisions`.

Unary HTTP endpoints, the mapping of errors to wire codes and the configuration
parsing of the providers are left out; the POST of a remote stream before its
headers arrive is one await that ignores the token (`providers/http/src/lib.rs`
126). The latency vectors of the metrics grow without a bound (`lib.rs` 2048), a
catalog that does not know a model ends a request that could fall back (1907), and
an install without a readable catalog fails after it has published
(`crates/model/src/lib.rs` 1024): the last two are in the models as the code has
them, and no property speaks of them. `CapabilityRegistry::unregister` is called
from nowhere. Events that a chunk completes before an error in the same chunk are
lost with it (`openai.rs` 1073), which `SseParsing` has and `ChunkingInvisible` is
silent about. The llama provider hashes a model file and then opens it again
(`providers/llama/src/lib.rs` 241, 257); the models take the file as unchanged in
between.
