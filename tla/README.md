# A TLA+ verification of Arky

Arky turns "who decided this, and on what evidence" into signed artifacts:
a *TIM* is a signed measurement, a *Commitment* says what to measure and what to
do when it passes, the *Kernel* evaluates a Commitment on TIMs to a *Decision*,
and a *Settler* executes what was authorized and leaves an *execution receipt*
(XR). `packages/mcp` puts this between an agent and the tools it calls. The
modules here model that code (commit of `src/`, TypeScript reference first),
TLC checks them on small instances, and TLAPS proves what matters most for all
instances.

## Inventory

| Component | State | Operations | What is hard | What makes it correct |
|---|---|---|---|---|
| MCP proxy (`packages/mcp/src/proxy.ts`, `cli.ts`) | pending map keyed by `String(id)`, call number, two pipes, child process | one handler per line of the client and of the server; start, exit, signals | replies in any order, crash between any two effects of a handler, the server's exit racing its last lines | only approved calls reach the server, none off the record, receipts true, every call answered |
| Audit bundle (`audit.ts`, `verify.ts`) | files per run and per call | write evidence, decision, receipt; verify a directory | torn bundles, reuse of a directory, replay | append-only, damage is local and is named |
| Policy gate (`policy.ts`, `audit.ts` `buildEvidence`) | the compiled policy | validate, match, compile; evidence of a call | argument names folded together, fail-closed | approved exactly when the rule permits |
| Kernel (`packages/core/src/kernel.ts`) | symbols bound so far, results so far | validate, select, bind, aggregate, resolve | scope and order of symbols, ties between receipts, half-open windows, NaN | decides what the commitment means, on any order of the evidence, replayably |
| Assertions (`assert.ts`) | none | tokenize, parse, evaluate | three-valued logic, type coercions, missing symbols | Kleene: unknown never decides |
| Settler (`settler.ts`) | idempotency store | pre-checks, derive a key, execute | retries, keys shared by different requests | one receipt per request |
| Signed forms (`canonicalize.ts`, `cid.ts`, `jws.ts`, `keys.ts`) | none | canonical body, cid, detached JWS, did:key | several copies of the same code | signed bytes are what is read |
| TIM (`tim.ts`) | none | create, verify | stale witnesses, kids, expiry | valid only when identity and witnesses signed what it says now |
| Ports (`core-go`, `core-py`, `core-rs`) | as the reference | as the reference | small divergences in coercion, time parsing, defaults; stores without locks | agree with the reference |
| Notary and Settler algorithms (`scripts/lib/merkle.ts`) | none | root, inclusion, finality, reorganisation, keys, transitions | odd levels, reorganisation as deep as finality | a proof holds for what is in the batch only |
| Signer (`sign-artifacts.ts`) | the file it has read and not yet written | find what is a placeholder or stale, sign it again | an author saves in between; dies inside a write; broken on purpose | touches only what is broken, and what it writes verifies |
| Verifier (`verify-artifacts.ts`) | none | check artifacts, execute vectors, walk the reference path | a copy of the signer's and of the SDK's code | passes only what was signed as it reads |
| Reference path (`gen-reference-path.ts`) | files still to be written | make, sign and write five artifacts and the chain | dies half-way; one of five edited and signed again | the citations are of what the targets say now |
| Release check (`release-check.ts`) | counts so far, RELEASES.json as read | count, compare, `--write` | dies between two files; levels that vanish | consistent means that every published number is true |

How they interact: the client's line is handled by the proxy, which builds
evidence, asks the Kernel about the Commitment compiled from the matching rule,
files evidence and decision, and only then writes the line to the server's pipe
or a denial to the client's. A reply of the server is matched to a pending call
by its id, receipted and relayed. `verify` reads the files offline and runs the
Kernel again.

The repository itself is the other system: authors edit signed files, `bun run
sign` and `bun run gen-reference-path` rewrite them, `bun run verify` and the
SDK's `verifyTim` judge them, and `bun run release-check` compares and rewrites
the counts of the vectors. They share files, not locks.

## Modules

| Module | Models | State and actions |
|---|---|---|
| `AuditGate` | the abstract promise: each call is decided once, only an approved one is executed, only an executed one receipted, nothing is undone | one `stage` per call |
| `McpProxy` | `proxy.ts`, `cli.ts`, the writes of `audit.ts`, and, as the environment, client and server | see below |
| `McpAudit` | `verify.ts` as operators on the files; the properties of the two; the refinement of `AuditGate` | no state of its own |
| `Assertions` | evaluation in `assert.ts` | operators |
| `Kernel` | `evaluateKernel` and its helpers | `Validate`, `Skip`, `Bind`, `Resolve`: the loop, a measure at a time |
| `KernelMeaning` | the closed form of a decision, and the Kernel's properties | operators |
| `ToolGate` | `policy.ts`, `buildEvidence` and the decision in `handleClientMessage`; runs `Kernel` on what it compiled | `RefuseCall`, `EvaluateCall`, then the Kernel's steps |
| `Settler` | `execute()` of `settler.ts` with its stores | `Reject`, `Replay`, `Throw`, `Settle`: the four ways a call ends |
| `SignedArtifacts` | canonical body, cid, detached JWS, keys: what the SDK and the scripts share in meaning | operators |
| `Tim` | `createTim`, `verifyTim` and the default resolver of `tim.ts` | operators |
| `ArtifactSigner` | `sign-artifacts.ts`: what is signed again in a file, and how | operators |
| `ArtifactVerifier` | `verify-artifacts.ts` on a file with an artifact | operators |
| `NotaryAlgorithms` | `scripts/lib/merkle.ts` | operators |
| `Conformance` | the vectors `verify-artifacts.ts` executes, and its checks by name | operators |
| `ConformanceMeaning` | what can be found in those vectors, and what they mean, in closed form | operators |
| `ReferencePath` | `gen-reference-path.ts`, and the walk over the path in `verify-artifacts.ts` | operators |
| `Repository` | composes the eight above: authors, the signer, the generator, crashes | see below |
| `ReleaseCheck` | `release-check.ts`, authors, crashes | `Begin`, `CompareSuite`, `WriteManifest`, `Finish`, `Crash`, `EditVectors`, `EditManifest`, `EditReleases`, `EditProse` |
| `McpProxyProofs`, `KernelProofs`, `ToolGateProofs`, `SettlerProofs`, `RepositoryProofs`, `ReleaseCheckProofs` | theorems | |
| `ConformanceProofs` | lemmas: what each kind of executed vector means, for vectors of any size | |
| `DataLemmas` | induction over a set of naturals, extremes and images of finite sets | |
| `MCMcpProxy`, `MCKernel`, `MCToolGate`, `MCSettler`, `MCRepository`, `MCReleaseCheck` | instances for TLC | |

**McpProxy.** Node runs one handler to its end before the next, so the handler
of one line is one action: `ForwardRaw`, `DenyBatch`, `DenyCall`, `ForwardCall`
for the client's lines, `Relay`, `ReceiptReply` for the server's. A handler can
die halfway: `CrashInStart`, `CrashInCall` and `CrashInReply` perform a proper
prefix of its writes, in the order of the code, `Crash` falls between handlers,
and `Throw` is the line the handler itself dies on (`null`, a number that cannot
be canonicalized). What was written to the server's pipe just before may be lost
(`PipeCut`). The pipes are FIFO; the server answers in any order, may send lines
of its own with any id, may die. A message is its tag, the position it was sent
at; the proxy never looks at a tag, only at ids and at the key `KeyOf[id]` an id
turns into. On disk a tag stands for the content id of a signed artifact.
`Verdict` is a constant here, for any assignment of verdicts to loads; `ToolGate`
is what computes it. A batch holds one `tools/call` and any other requests (`also`);
a denial is for one id of one line, so that what a denied batch leaves unanswered
can be told.

**Kernel.** A time is its rank as text and the instant it is read as: the sort
uses the one, the windows the other, and `NaN` is what the code gets from a time
it cannot read. A commitment's assertion is the sequence of its syntax nodes,
operands before their operator (`Expression`). A value is a JavaScript type and a
rank in it.

**ToolGate.** An argument's name is the symbol `symbolize` folds it to and which
of the names folded to that symbol it is: nothing in the code tells more of a
name. Strings are ranks; whether a tool's name holds a quote is membership in
`Quoted`.

**Settler.** `execute()` never yields, so a call is one step, and calls come one
after another with any of the stores or none (a settler that restarts has a new,
empty store). A hash stands as what is hashed: a derived key is the record of its
components, and a client may give a key of that form too, or the empty string,
which the code takes as given (`??`). `log` is a history: each call with what it
returned. Amounts are modelled as far as they are checked.

**Repository.** Canonical bytes stand as the value they are the bytes of, a hash
as what is hashed, a signature as who signed what. `files` maps names to what is
there: an artifact at the place of a JSON file that decides how signer and
verifier treat it (`file`, `core`, `tim`, `inputs`, `inputs.tim`, `chained`), an
executed vector, the chain, or `Torn`, which is text that is no JSON. The signer
reads a file, awaits its keys and writes the file it read (`ReadFile`,
`WriteFile`); the generator writes six files one after another (`WritePath`);
authors come in between with `Edit`, `Paste` (of a cid and a signature),
`Create` and `CoSign` (with the SDK). `Crash` stops a script between two files,
or tears the one that is being written. `issued` and `visited` are histories: who
signed what as saying what, and what the signer did with a file that nobody has
touched since. The SDK's canonicalization throws on a number that is not finite;
the scripts' writes `null` for it, and both are modelled as they are.

**Conformance.** A vector is executed: the verifier computes the result from the
inputs and compares it with `expect`. Each vector carries the inputs its author
took the expectation from, so that a vector can be wrong, and passing has a
meaning that is stated without the code's own algorithm in `ConformanceMeaning`.

**ReleaseCheck.** A list of vectors is a set of names. The run keeps what
the script keeps in variables: RELEASES.json and the README as they were read at
the start. A number that differs from every count stands for all that do.

## Runs

| Run | Instance | Shows |
|---|---|---|
| `proxy_safety` | 3 messages, 2 runs in fresh directories, 1 crash at any point, calls/requests/fatal lines, approved (2 TIMs) and refused (1 TIM) loads | types, gate, record, receipts, pending map, verifier's verdict on torn bundles, append-only, refinement of `AuditGate` |
| `proxy_live` | 3 messages of all kinds that are answered or ignored, 1 unasked line, no crash, fairness | every request on a line of its own and every call of a denied batch is answered; batches and id reuse by the server break nothing |
| `proxy_id_clash` | two ids with one key | **violated**: `ReceiptIsTrue` |
| `proxy_same_out` | two runs, one directory | **violated**: `ReachedIsRecorded` |
| `proxy_exit` | one call, orderly end | **violated**: `ServedIsReceipted` |
| `kernel` | some 140 commitments of up to 3 measures, sequences of up to 3 of 5 receipts | the six properties of `KernelMeaning` |
| `kernel_absent` | the same | **violated**: `AbsentIsIndeterminate` |
| `gate` | policies of up to 2 rules and 2 keys, sessions of calls with up to 2 arguments | a call is approved exactly when its rule permits it |
| `settler` | 3 calls of any of 26 requests (accepted in every form, keyed, refused for every reason, not canonicalizable), 2 stores or none, 2 times | retries get the identical receipt, nothing unearned is answered, derived keys tell requests apart |
| `settler_tuple` | the same | **violated**: `DedupedPerTuple` |
| `repository` | two artifact files (five kinds beside a TIM fixture) or an ungenerated reference path, 2 edits, 3 keys, any scripts and crashes in any order; and some thousands of executed vectors | what verify passes and `verifyTim` calls valid was signed as it reads, the two agree on detached signatures, the signer touches only what is broken or not detached and what it writes verifies, the path's citations hold, vectors mean what they say |
| `release` | 2 suites, 2 levels, 2 vectors, consistent or with one of 16 corruptions, 2 edits, any runs and crashes | nothing to report means that all published counts are true; `--write` repairs |

Why the bounds are enough. Proxy: every hazard is between two calls, or a call
and a crash, or two runs; three messages give two calls and a third line of
another kind, and two ids all orders of their replies. Kernel: a tie needs two
receipts, a tie with a third that is not needed three; scope needs two measures,
rebinding three; the receipts differ in every field that is tested, with an
unreadable time and one written with an offset among them. Gate: a collision
needs two arguments, precedence two rules, and the state left by one call is met
by the next. Settler: a confusion needs a first call, a call that may change its
receipt, and a retry; the stores are symmetric. Repository: scripts may run any
number of times, so the edits bound it; a stale signature needs an edit after it,
a lost update an edit between a read and a write, a confusion of two artifacts a
paste, and each of these leaves an edit to spare. A mixture of two generations of
the path needs two generations, the second of which dies. Merkle: lists of up to
six cids have one, two and three levels, with an odd one at each. Release: a
`--write` that dies between two files needs two suites; a level that loses its last
vector needs two levels; every comparison of the script has a corruption of its
own. `proxy_safety` uses symmetry of the ids together with their keys; no liveness is checked there.

**Fairness** (`FairSpec`): the event loop handles what has arrived on each of its
two pipes, and the server reads and answers each request. Nothing makes the
client send or close, and in that run the client closes its end only when all is
answered (`ClientWaits`), since a server that is told to end may drop what it has.

No fairness is assumed elsewhere: nothing makes an author run a script, and what
the scripts owe is safety, at every moment at which they may be stopped.

Deadlock is not checked where the program really ends: when all runs are over,
when the Kernel has returned, when callers of the Settler call no more. The
gate's sessions never end, nor do those of the two repositories, in which a script
can always be started, and there it is.

## What is violated, and why

* **Ids** (`proxy.ts:135`): `String(id)` makes one key of `1` and `"1"`.
* **`--out` reused** (`audit.ts:199`): call numbers start at 0 in each run.
* **Exit** (`cli.ts:86`): the proxy ends on the child's `exit`, which may come before its output is read.
* **Inherited names** (`kernel.ts:154`): `constructor` is "bound" in every object literal. In the gate this cannot approve a call by itself, since each key of a rule needs a receipt of its own.
* **Client keys** (`settler.ts:166`): looked up by themselves, where the
  specification dedupes per key, verb and rail. Keyless requests are not confused.

`ReachedIsRecorded` and the rest of `proxy_safety` hold when every run has a
directory of its own and ids have keys of their own; these two runs show that
both conditions are needed.

Disagreements that no run is spent on, met while modelling:

* A batch with a `tools/call` is dropped as a whole and only its calls get a denial
  (`proxy.ts:67-76`): its other requests are never answered. Nothing in the
  repository promises that they are; `RequestsAnswered` leaves them out, and a client
  that waits for them never closes its end in `proxy_live`.
* The verifier never looks at the middle segment of the issuer's signature
  (`verify-artifacts.ts:247`), which `ARKY-TIM-Canonicalization-v1.md:111` wants empty; of
  a witness's it does (line 147). The SDK refuses text there (`jws.ts:74`) and the
  signer takes it for a placeholder (`sign-artifacts.ts:124`). So the two verifiers
  part over such a file, and the signer rewrites one that was accepted:
  `VerifiersAgree` and `TouchesOnlyBroken` except it and say so. The body is signed
  all the same, and `PassMeansSigned` needs no exception. The schema of a signature
  has a pattern for it, which is the matter of another script.
* The MCP README's `"*"` is for tools "not matched by an earlier rule"; an exact
  rule anywhere decides (`policy.ts:115`).
* A torn `chain.json` is taken for one that was never generated, and the whole
  reference path is passed over in silence (`verify-artifacts.ts:861`);
  `PassMeansLinked` and `PassMeansSigned` ask for a chain that can be read.
* `CONFORMANCE.md:110-119` has stale artifacts signed again; a stale cid is
  noticed in TIMs only (`sign-artifacts.ts`), which is why `SignedVerifies`
  says so of TIMs only.
* What is no TIM and has `time.witnesses` is signed over them and verified
  without (`sign-artifacts.ts:186`): `SignedVerifies` excepts it.
* Signing a TIM again replaces its witnesses by as many copies of one test
  witness, which the Kernel then counts one by one (`kernel.ts:84`).
* The script's comment says it mirrors the SDK's resolution of a witness's key
  (`verify-artifacts.ts:114-116`); it knows the kids of the fixtures, and the SDK
  takes the identity's key for them. `VerifiersAgree` is about did:key kids.
* `tim.ts:141-144` says that `verifyTim` does not throw; it does on a signature
  or a witness that is no string.
* `merkle.ts:65-66` says that path entries are cids; an inner sibling is a node,
  whose text as a cid is other bytes. A leaf is not told from an inner node, and
  a list that repeats its last cid has the root of the one that does not.
* `release-check.ts`: a level that lists nothing has its coverage not compared; a
  README cell `—` is compared with nothing, and the cells are taken by position;
  an undeclared level or a missing suite is reported and not repaired; an edit of
  RELEASES.json made during a `--write` is lost. `CleanMeansTrue` and
  `WriteRepairs` state what is true nevertheless.

## Proofs

All theorems are for arbitrary values of the constants, under the `ASSUME`s of
the modules (which TLC evaluates in every passing run).

* `TypeCorrect` (`Spec => []TypeOK`): one lemma per part of the state says which
  actions may change it, and keeps its type.
* `ApprovedOnly` (`Spec => []OnlyApprovedReach`): `ReachStep` shows that what is
  within the server's reach grows in two actions only, `ForwardRaw` and
  `ForwardCall`, by the line they took.
* `OnTheRecord` (`~ReuseOut`, `Spec => []ReachedIsRecorded`): needs the inductive
  invariant `Fresh`: call numbers from `seq` on, and directories after `runs`,
  are blank, and there are numbers left for the lines still unread. The property
  alone is not inductive, because nothing in it says the next write does not land
  on an old record; `RecordComplete` files a new call, `RecordKept` shows that the
  record of an old one is out of the way of every later write.
* `DenialStands` (`Spec => []DenialIsFinal`): `WayInv` follows a line through the
  pipes: lines are handled in the order they were sent (`InTurn`), the server
  reads in that order and reads nothing twice (`ReadInTurn`), and answers each
  request once, with the id it came with (`ServedOnce`). `DeniedLines` says what is
  denied; with `ApprovedOnly` that is what never reaches the server.
* `ReceiptsTrue`, `PendingExact`, `AnswersReceipted`, `NothingReplaced`,
  `DamageStaysLocal`, each under `~ReuseOut` and `KeysApart` (`KeyOf` is injective),
  the conditions that the runs `proxy_same_out` and `proxy_id_clash` violate: from
  `Books`. A receipt is written for whatever entry the answer's id finds, so its
  truth is not inductive without `Awaited` (an entry is the record of an approved
  call with no receipt yet; what is on its way has its entry under its id's key)
  and `OfThisRun` (an id is used once in a run, and nothing of an earlier run is on
  its way). `AnswerFinds` is the point where they meet. `Filed` and `Fresh` keep
  what is on disk. `Damage` classifies every call number as blank, whole or torn.
* `GateImplemented` (same conditions, `Spec => GateRefined`): `GateStep` shows that
  a step moves the stage of one call at most, by one of the gate's four moves:
  a new decision is about a line not yet read, what the server reads was decided
  and approved, what is receipted was executed.
* `DecidesMeaning` (`KernelSpec => []DecidesItsMeaning`): the invariant `LoopInv`
  relates `symbols` and `assertions` to the scope and the findings of the
  measures before `i`; `ScopeStays` and `ScopeGrows` are its two steps.
* `EarnsApproval` (`KernelSpec => []ApprovedIsEarned`): from `LoopInv`, with
  `SelectedIsCandidate` and `WindowIsInterval`. Assertions are opaque in it.
* `KernelTypeCorrect`, `DecisionsLast` (`KernelSpec => []KernelTypeOK`,
  `[]DecidedForGood`): an expression is evaluated node by node, and
  `NodesAreEvaluated` shows that this recursion is well founded, since operands come
  first. Along it, a decided node stays decided when symbols are added
  (`ConnectivesKeep` is Kleene's part of that), and every node has one of the three
  results. `ScopeKeeps` says that a symbol no later measure binds keeps its value.
* `OrderDecidesNothing` (`KernelSpec => []OrderIndependent`): the latest candidate
  is the one that all others precede (`LatestByKey`), which no shuffle of distinct
  receipts changes (`SelectionFollows`). Two lists on which each measure selects the
  same receipt (`Agree`) build the same scopes (`ScopesAgree`) and come to the same
  verdict (`VerdictsAgree`).
* `CitationsSuffice` (`KernelSpec => []ReplaysFromInputs`): the cited receipts, in the
  order they had, are an `Excerpt` that keeps what was selected
  (`SelectionSurvives`), hence the verdict. Here receipts may have equal keys, and the
  first or last of them is found by induction (`LatestExists`). `PlacesInOrder` shows
  that taking the places of a set in order leaves none out.
* `GateTypeCorrect`, `ApprovesWhatIsPermitted` (`GateSpec => []GateTypeOK`,
  `[]ApprovedIsPermitted`): from `GateInv`, which composes the Kernel's `LoopInv`
  with what the gate gave it: the commitment is the one compiled from the rule for
  the call and the receipts are the call's. `ApprovedIsPermitted` does not mention
  either, and is not inductive without them. Each key then has a receipt in the
  evidence exactly when it stands for one primitive argument, and the Kernel's scope
  at a measure is what the rule knows at that key.
* `RetriesAreSafe`, `ReceiptsEarned`, `DerivedKeysSound` (`SettlerSpec =>
  []OneReceiptPerKey`, `[]ReceiptIsEarned`, `[]DerivedKeysTellApart`): from
  `SettlerInv`, which ties the stores to the log in both directions. What is
  stored was issued by a logged call (`StoreHasOrigin`), without which a replay
  could answer with a receipt of unknown origin; what was answered is still stored
  (`AnswerIsKept`), without which a second receipt could be issued for its key.

* `SettlerTypeCorrect` (`SettlerSpec => []SettlerTypeOK`): from `SettlerInv` too.
* `OneVerdict` (`Spec => []VerifiersAgree`): the conditions of the two verifiers
  are compared one by one, and the empty middle segment is the one that only the SDK
  has; no invariant is needed.
* `ValidMeansSigned`, `PassingIsSigned` (`Spec => []ValidIsSigned`,
  `[]PassMeansSigned`): from `RepoInv`. The properties say of a file that *if* it
  verifies somebody signed it; they are not inductive, because a signature
  that does not verify in one file may be pasted into one where it does, or be in
  what the signer holds or the generator is about to write. `RepoInv` says of
  every detached signature at any of these places that it is `Traced`: `issued`
  has its key with what it is over. One lemma per action keeps it
  (`EditKeeps` to `EndKeeps`); the work is in showing that the canonical body,
  JCS and the rewriting of a file leave `Meaning` alone.
* `OnlyBrokenTouched`, `PassingIsLinked`, `SignerIsVerified` (`Spec =>
  TouchesOnlyBroken`, `[]PassMeansLinked`, `[]SignedVerifies`), each under the
  hypothesis `ValuesAreApart`: a hash, a signature or a list of witnesses is none
  of the constants `None`, `Placeholder`, `NotText`. In TLA+ a record may equal an
  unspecified constant, and no `ASSUME` over all values could be evaluated by TLC;
  in the code they are strings of another shape, `undefined` and non-strings.
  `PassingIsLinked` adds `ChainInv` (a chain, written or about to be, cites what
  is not undefined), `SignerIsVerified` adds `SignerInv` and compares, step by
  step, what the signer makes of a file with what the verifier asks of it.

* `MerkleVectorsTrue`, `SettlerVectorsTrue`, `FinalityVectorsTrue`,
  `PolicyVectorsTrue` (`Spec => []MerkleVectorsMean` and so on): from
  `VectorsInv`, which says that a vector at any name, whatever the scripts, the
  authors and the crashes have done to the files around it, is still one that can be
  made (`VectorMade`), and that nothing the generator is about to write lands on
  one. What such a vector means is a lemma of `ConformanceProofs` for each check.
  - The order of the cids is given by places: a cid takes the r-th place when fewer
    than r come before it and at least r do not come after it. `PlaceOfOne` and
    `PlaceOfSome` show that this is one cid; `SortOfSet` that without duplicates
    the order depends on the set only.
  - A batch is the closed set of what its root holds. `RootReaches` goes down the
    levels, each half as long as the one below with an odd node paired with itself,
    and finds every cid; hence two lists with one root have the same cids
    (`OneRootOneSet`).
  - `ProofReads` reads a proof backwards: `DownUndoesUp` shows that one step down
    undoes one step up, and so the leaf of a proof that holds is in the tree and,
    being no inner node, a cid of the batch.
  - `FoldRuns` says that a fold takes a sequence element by element. It is proved
    once, for the operators that are folded with here, as an induction over sets of
    positions.
* `CleanIsTrue`, `WritesRepair` (`Spec => []CleanMeansTrue`, `[]WriteRepairs` of
  `ReleaseCheck`): neither is inductive, since a run's verdict is about suites it
  compared many steps ago. `ScriptInv` says what a run that no author disturbed has
  established so far: suites that were compared are counted as they are on disk,
  are in order everywhere if nothing drifted, and are repaired or about to be if it
  writes. At the end these are all suites. That what needs no repair adds up is the
  other half: `SumOfSizes` shows that a sum of sizes is the size of the disjoint
  union, and so all totals, whichever way they are added up, count the same vectors.

A sum over a set, the value of an expression and the loop over the measures are
recursive functions. Their well-foundedness is proved here by induction on a set of
naturals (`SetInduction`), which needs no operator as a parameter: a least
counterexample is one element of a set.

What the proofs ask of the constants is in the `ASSUME`s, all of which TLC evaluates.
`VectorAssumption` is about the vectors at the start: numbers where a schema has
numbers, and an expectation that is the author's own or was computed from inputs, the
vector's or others. It does not say that the expectation is right, which is what
the vectors are there to find out; nor is a proof taken from its batch.
`StartAssumption` is about the starts: in `Repository` records of the right shape,
with legacy signatures only; in `ReleaseCheck` finite sets of vectors and a cell for
each level. `GateAssumption` ties the gate's constants to the Kernel's: the keys of a
valid policy compile to a Commitment and a call's evidence is Evidence.

Model-checked only: liveness (`proxy_live`), which is out of the prover's reach. Each
invariant and each action property of a passing run, and the refinement, is a theorem.
The five runs that expect a violation have nothing to prove.

What the model abstracts from is not proved either: a hash stands as what is hashed, so
two roots, keys or cids differ whenever what they are of does. The bounds of the
instances do not limit the theorems.

## Not modelled

* Text and bytes: JSON, its escapes and strict parsing, base58, chunks and UTF-8
  below the line; the text of durations and dates. Identity of the signed thing
  stands for hashes and signatures.
* A torn file in an audit bundle (a file is there or not); units, and values that are lists or
  objects, which JavaScript coerces in ways of its own; a batch with several calls,
  which are answered as its one call is.
* Of the verifier: canonicalization vectors, grammars of URNs, the checks
  `attest_type`, `content_binding`, `key_binding` and `*_verify`, which compare
  text or call into a library, and the results file. Of the generator: the text
  of the artifacts.
* A file that is an artifact and holds another in its `inputs`, which the signer would
  look at twice (`sign-artifacts.ts:231-312`). A consequence without `if`, on which
  `evaluateKernel` throws where the model finds no match (the type demands it). The
  order in which a manifest declares its levels is taken to be that of the README's
  columns (`release-check.ts:166`).
* The tokenizer and the parser of the assertion language; the ports; the
  components marked `not_modelled` in `PROJECT.json`, with the reason there.

## Plan

1. `KernelPorts`: the Go, Python and Rust kernels as operators beside the
   reference, agreement on readable input and the places where they differ.
2. `SettlerPorts`: the stores of the ports under concurrent callers.
3. `AssertionParser`: tokens to expressions against the grammar (TLC only).
