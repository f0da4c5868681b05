# Verification of the dispatcher

TLA+ models of the off-chain agent in this repository. TLC checks them on small instances, and TLAPS proves, for every value of the constants, the game's safety invariants, the reactor's decision table and the precedence rules of the configuration loader.

## The system and its parts

| Part | Source | What it does | Modelled by |
|---|---|---|---|
| VG reactor | `src/compute/src/vg.rs` | `VG::react` is a pure function. It takes a fetched instance tree of a verification game and returns `Idle`, a transaction request or an error. It decodes the VG state, returns early on a finished game, classifies the user as claimer (tested first) or challenger, and dispatches on the phase. In `WaitPartition` it delegates to the partition reactor; in `WaitMemoryProveValues` it delegates to the memory-manager (MM) reactor. | `VGReactor` (the function), `VGReactorTick` (checked against spec.md's decision table), `VGGame` (a whole game) |
| Partition and MM reactors | crates outside the repository | The nested sub-protocols. | `PartitionReact`, `MMReact`, modelled from spec.md only (whose move it is, claim by timeout) |
| Contracts, chain, transaction subsystem | outside the repository | Store the game, accept or revert calls, include requests, let deadlines pass. | The environment of `VGGame`, on the model's own assumptions (neither the code nor spec.md states the contract guards) |
| Configuration | `src/configuration/src/lib.rs` | `Configuration::new` merges the command line, the `CARTESI_` environment and a YAML file. It validates concerns, builds the concern/abi table, converts the delays to `Duration`s and checks them. | `Configuration` (pure operators), run through `Dispatcher` |
| Dispatcher | `src/dispatcher/src/lib.rs` | `Dispatcher::new` loads the configuration, connects to the node, tests it, creates the transaction manager and sends `instantiate` for `concerns[0]`. | `Dispatcher` |
| Hasher | `src/hasher/src/main.rs` | Parses a port and starts a gRPC server. | Not modelled: pure I/O |

How the parts interact: the dispatcher's configuration decides which concerns the agent runs for. For each concern, a scheduler tick fetches the instance tree and calls `react`. A transaction is handed to the transaction subsystem, and the chain later includes or reverts it. Nothing persists between ticks: the reactor derives everything from the chain again each time.

## Modules

- **`VGReactor`**: the data abstraction and `React`, `ClaimerReact` and `ChallengerReact`, each translated from `vg.rs` branch by branch with every early return.
  - A `json_data` payload is represented by the protocol layout it was encoded with (`proto`). `serde_json::from_str` succeeds exactly when that layout is the one expected.
  - Addresses come from the constant `Users`. Hashes and the uint fields no branch reads are left out.
  - `CASE` is used only where the guards exclude each other. Ordered early returns are `IF`/`ELSE` chains.
- **`VGReactorTick`**: a state machine whose every step is a fresh tick on any bounded instance tree. The reachable states are exactly the pairs (snapshot, `React(snapshot)`). A tree's sub-instance carries the same claimer, challenger and user as its VG instance (`FetchedTogether`): the agent fetches a game and its children for one concern.
- **`VGGame`**: one game on chain.
  - State: `chain`, the VG phase plus sub-instance 0 with its state, round and an expired-deadline flag; `pending`, copies of requests handed off, each with the chain state it was computed from and a copy number.
  - `Tick(a)`: agent `a` reacts to the current chain and hands off a new copy of its transaction, even if the same request is already pending (`vg.rs` keeps no state, so nothing deduplicates). It is bounded by `MaxPending`.
  - `Include(p)`: the chain includes any pending copy. It takes effect if the contract accepts it in the current state and is reverted otherwise.
  - Partition moves carry `<<index, round>>`: the round stands for the query data of the move, and the model assumes the partition contract accepts a move only for the current query (`QueryAnswered`). Neither spec.md nor the code states this: the contracts are not in the repository, and `Accepts` and `Effects` are the model's assumption about them.
  - What happens on chain therefore rests on that assumption. The properties checked of `VGGame` are the ones a change of the reactor can break: what `react` proposes (`RequestsAcceptedWhenComputed`), that it never errs for a party (`NoFatalErrorForParties`), and that the agents drive the game to its end (`GameConcludes`).
  - `Expire`: a partition deadline passes.
  - `MaxRounds` bounds the partition.
- **`Configuration`**: `ValidateConcern`, `ConcernTable` (the loop and the insertion of the main concern), `CombineConfig` and `ConfigurationNew`.
  - An Option is a sequence: `<< >>` is None and `<<v>>` is Some(v).
  - A `u64` keeps a width `Width`: `as i64` wraps modulo 2^Width, and `Duration::seconds` panics beyond `(2^(Width-1)-1) \div MsPerSec`.
  - `HashMap::insert` is `(k :> v) @@ m`.
- **`Dispatcher`**: inputs (`cli`, `env`, `fs`) are fixed in `Init`. Actions: `LoadConfiguration`, `Connect`, `TestConnection`, `CreateManager` and `Instantiate`, where each I/O step may fail. The module also holds a reference reading of the precedence rules (`Highest`, `MainGiven`) used by the properties.
- **`VGGameProofs`**, **`VGReactorTickProofs`**, **`DispatcherProofs`**: TLAPS proofs.
- **`MCVGReactorTick`, `MCVGGame`, `MCDispatcher`**: model values and bounded inputs for TLC.

`PROJECT.json` maps every definition to the source lines it translates.

## Runs

| Run | cfg | Expect | Checks |
|---|---|---|---|
| reactor_table | `VGReactorTick.cfg` | pass | `ReactionMatchesSpecTable`: spec.md's table (§4.3, §8) as a reference, over every VG/other layout, every phase class, every claimer/challenger/user choice among 3 users (ties included), and no sub-instance or one of either protocol in any state, expired or not. Includes the challenger's `Idle` on an MM `FinishedReplay` (`vg.rs:243`). |
| reactor_decode_payload | `VGReactorTick_decode.cfg` | violation | `DecodeErrorNamesOffendingInstance` (spec §7). |
| game_safety | `VGGame.cfg` | pass | `TypeOK`, `RequestsAcceptedWhenComputed`, `NoFatalErrorForParties`, `GameConcludes`, while every tick hands off another copy of its request and copies are included in any order. Agents run for the claimer, the challenger and a bystander; `MaxRounds = 3`, `MaxPending = 3`. |
| challenger_alone | `VGGame_challenger_alone.cfg` | violation | `GameConcludes` with only the challenger's agent. |
| config_concerns | `Dispatcher_concerns.cfg` | pass | `MergeFollowsPrecedence` and `AbiTableConsistent` over whole, partial and malformed concerns, and zero to two file concerns with duplicates. The delays stay at their defaults: `MergeFollowsPrecedence` states the delay check on the values as given, which the code breaks for wrapping delays (runs config_delay_wrap and config_delay_panic). |
| config_delay_wrap | `Dispatcher_delay_wrap.cfg` | violation | `AcceptedDelaysOrdered`, over every scalar setting in each source and both config paths. |
| config_delay_panic | `Dispatcher_delay_panic.cfg` | violation | `LoadNeverPanics`. |
| dispatcher_main_concern | `Dispatcher_main_concern.cfg` | violation | `InstantiatesMainConcern`. |

### Findings

1. **Decode errors quote the wrong payload.** A sub-instance that fails to decode is reported with the parent's `json_data` (`vg.rs:131`, `vg.rs:213`).
2. **Only the claimer concludes a finished partition.** Only the claimer sends `winByPartitionTimeout`. A game the challenger won in partition stays open unless the claimer's agent runs (`vg.rs:190-199`).
3. **Large delays wrap negative.** `warn_delay as i64` wraps, so `warn_delay = u64::MAX` passes the "max_delay should be larger" check (`configuration/src/lib.rs:354`, `:210`).
4. **Large delays panic.** `Duration::seconds` panics on delays above i64::MAX/1000 seconds, instead of returning an error (`:353`).
5. **The dispatcher instantiates for the wrong concern.** `Dispatcher::new` uses `concerns[0]`. That is the first concern of the file, not the main concern, which `combine_config` pushes last (`dispatcher/src/lib.rs:58`).

### Bounds and why they are enough

- **Reactor:** every branch of `React` depends only on:
  - the layout,
  - the phase class (the two named phases, finished, or other),
  - the equalities among claimer, challenger and user (3 users cover all of them),
  - whether a sub-instance exists, and its layout, state and expiry.

  The input set enumerates all of these combinations.
- **Game:**
  - Three rounds let the partition loop twice (`WaitingQuery` → `WaitingHashes` → `WaitingQuery`) and reach `DivergenceFound`, so a stale copy of a move is still pending when the game has moved a round on.
  - Three pending copies let two copies of one request wait while a newer request is included.
  - The bystander exercises the "neither" error.
- **Configuration:** `Width = 8` and `MsPerSec = 10` keep the arithmetic in TLC's range. They preserve the relation the code has: some values overflow when cast to i64 (200, 255), and some stay in range but are too large for a Duration (13).

## Fairness

`VGGame` assumes:

- weak fairness on each agent's `Tick`, because the scheduler polls every concern again and again;
- weak fairness on including some pending request, because the chain keeps producing blocks;
- weak fairness on `Expire`, because time passes.

Nothing is assumed about which request is included first.

## What is proved

In `VGGameProofs`:

- `TypeCorrect`: `Spec => []TypeOK`.
- `RequestsAccepted`: `Spec => []RequestsAcceptedWhenComputed`.
- `NoFatalError`: `Spec => []NoFatalErrorForParties`.

These hold for any `Users`, any distinct `Claimer` and `Challenger` in `Users`, any `Agents ⊆ Users`, and any positive `MaxRounds` and `MaxPending`. These are the module's named assumptions.

None of the invariants is inductive alone. The inductive invariant `IInv` is `TypeOK ∧ RoundBound ∧ ChainConsistent ∧ RequestsAcceptedWhenComputed`:

- `RoundBound`: a running partition has a round left, so `replyQuery` keeps the round within `0..MaxRounds`.
- `ChainConsistent`: the sub-instance's index and states match its protocol, and the phase matches the protocol, so the argument the reactor puts in a request is the instance the contract expects.

The other lemmas:

- `ReactAccepted`: on a consistent chain, `React` of any agent's snapshot is either not a transaction or an accepted, well-typed request. The proof splits on phase, role and layout.
- `ReactNoError`: a party's agent never gets an error from `React` on a consistent chain.
- `EffectsPreserve`: every accepted request's effect keeps the type and the chain invariants. There is one case per contract function.

In `VGReactorTickProofs`, `TableHolds`: `Spec => []ReactionMatchesSpecTable` for every set of addresses, not only the three of the run.
- `ReactMeetsTable` proves the table of `React` alone, for every instance tree whose sub-instance has the user of its VG instance (`SameUser`). The proof follows the early returns of `React`, `ClaimerReact` and `ChallengerReact`.
- `InputsWellFormed`: every input is such a tree.
- The inductive predicate is `Ticked`: the snapshot is an input and the reaction is `React` of it.

In `DispatcherProofs`, `PrecedenceHolds`: `Spec => []MergeFollowsPrecedence` for every width and every set of inputs that satisfies `InputsAssumption` and the theorem's hypothesis `DelaysFitI64` (every delay a source gives, and the defaults, is below 2^(Width-1)).
- The hypothesis is needed: `MergeFollowsPrecedence` says a configuration is accepted only when the maximal delay is not below the warning delay as the user gave them (the check's message at `lib.rs:212`). The code compares the delays after `as i64`, which wraps from 2^(Width-1) up, so without the hypothesis the claim is false (finding 3). Below it `as i64` is the identity (`SmallAsI64`).
- The code chains `Option::or` from the highest source down; the property names the first source that gives a setting (`FirstGiven`). `FirstOfTwo` and `FirstOfThree` show the two agree.
- `ValidateWhole`: `validate_concern` accepts exactly a concern given whole or not at all, and returns it.
- `LoadFollowsPrecedence` follows the early returns of `ConfigurationNew` and `CombineConfig` to the result, for any inputs whose delays do not wrap.
- The inductive predicate is `Loaded`: the inputs are in their sets, and `result` is either unset or what `ConfigurationNew` returns for them. It was checked with TLC, as an invariant, before it was proved.
- `InputsAssumption` states what the parsers give: every setting from structopt and envy is an `Option` (None or Some); the delays are `u64`; a config path is one of `ConfigPaths`; a command-line or environment ABI path is never malformed (`PathBuf` parsing cannot fail); and a file that parsed has `u64` delays. `WidthAssumption` puts the defaults in `u64`.

## What is only model-checked

- **Liveness.** `GameConcludes` relies on fairness and ENABLED, which the prover does not handle.
- **The concern table.** `AbiTableConsistent` is about `ConcernTable`, built by `FoldLeft` over the file's concerns. What a fold computes for every list is induction over data, so it stays with TLC, over up to two file concerns with duplicates.
- **What the game does on chain.** Whether a stale or duplicate copy of a request is reverted depends on the contracts, which the model only assumes; no property credits it to the code.
- **The Dispatcher's findings.** `AcceptedDelaysOrdered`, `LoadNeverPanics` and `InstantiatesMainConcern` are violated by the code; TLC gives the counterexamples.

Induction over data is out of reach of the installed provers, so nothing is proved about what a recursive definition computes for every input.

## Not modelled

- The hasher (pure I/O).
- The `db_key::Key` impl of `Concern` (`from_u8`, `as_slice`) and `Concern::to_bytes`: byte copies of the concern that no code of the repository reads back, so there is no behaviour of the system to check.
- The `Display` impl (formatting).
- The internals of the partition and MM reactors, which are not in the repository.

## Plan for later sittings

- Prove facts about `ConcernTable` that need no induction (the main concern's entry is the last insertion).
- Model the partition contract's deadlines per party, instead of one expired flag.
