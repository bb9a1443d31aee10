# Verification of the Carbonable leaderboard backend

TLA+ modules, TLC models and TLAPS proofs for the Go program under `src/`.  The
program follows a set of StarkNet contracts, turns their events into domain
events, and ranks wallets by the points those events earn.

## 1. The system

The deployment (`etc/fly/*/leaderboard.toml`) runs four processes on one
Postgres database, after a migration:

```
             gateway                        gateway, JSON-RPC
                |                                  |
         +--------------+   BLOCK#n   +--------------------------------+
         | synchronizer |-----------> | indexer                        |
         +--------------+  kv_stores  |  EventIndexer (one / contract) |
                                      |     | event:published          |
                                      |  dispatcher, subscribers       |
                                      +--------------------------------+
                                                   | domain_events
         +-----+   leaderboard_lines  +------------+   |
         | API | <------------------- | aggregator | <-+
         +-----+                      +------------+
```

| component | state it keeps | operations | what makes it correct |
|---|---|---|---|
| synchronizer (`internal/synchronizer`) | `BLOCK#n`, `LATEST_BLOCK` in storage; the next block; two goroutines per block in flight | resume, fetch, store a block, advance `LATEST_BLOCK` | every block is stored, or a known kind of hole is left |
| indexer (`internal/indexer`) | `IDX#c` (blocks to replay, latest block), `address#TX#`, `address#EVENT#`, `EVENT#` records; per contract a walk, a replay and an indexing loop | resume, walk, retry, re-fetch, replay, index a block | no block skipped, no event lost, whatever dies when |
| message bus (embedded NATS server, `cmd/indexer`) | messages published and not yet handled; nothing survives the process | publish, dispatch | an event reaches its subscribers at least once |
| subscribers (`internal/subscriber`) | `domain_events`, `minter_buy_values` | one handler per domain event, on a goroutine per subject | each event recorded once, with its wallet and project |
| aggregator (`internal/leaderboard/aggregator.go`) | `leaderboard_lines`, `tmp_leaderboard_lines`, `leaderboard_lines_old` | rank everybody into a temporary table, swap it in | the table readers see is a complete ranking, each wallet once |
| scoring (`score_calculator.go`, `game.go`, `boost.go`) | the scores of the wallet at hand, and what other wallets' purchases are on record | order the events, points per event, boosts, categories, total | every rule applied once, to everybody it holds for, in whatever order events come |
| gateway client (`internal/starknet/rpc.go`) | per call two goroutines and their channels; a buffered channel and a timer as a request limiter | get a block | a call ends, whatever its request does, unless the gateway keeps it |
| GraphQL API (`graph/schema.resolvers.go`) | none | pages of the ranking, a wallet's line, quotes for a purchase | a page agrees with its page info, lines arrive as they were scored, quotes agree with the scoring |
| GraphQL server (`graph/generated.go`) | per query: the fields under way, their results and errors | run resolvers concurrently, marshal, propagate nulls | a response has all of its data, in the schema's types, or none and an error |
| migration (`cmd/migration`) | the schema | create tables, reset minter values | |

How they interact: the synchronizer and the indexer share nothing but the
`BLOCK#n` records, and the indexer stores a block itself when it has waited too
long.  Inside the indexer process, the walk and the replay of a contract hand
blocks to one loop over an unbuffered channel; the loop announces events on the
bus; the dispatcher reads the stored event and announces it again under the name
of its domain event; subscribers write `domain_events`.  The aggregator reads
those and replaces the table the API reads.

What is hard here, and hardly reached by a test:

- *crashes*: any process may die between any two storage calls (a panic in the
  gateway client, `log.Fatal`, a deployment), and the bus dies with the indexer;
- *interleaving*: replay against walk, the two goroutines per block of the
  synchronizer, both processes on the same blocks, aggregator runs that overlap;
- *ignored errors*: a failed `Set` is only logged, a failed read looks like an
  absent record, a failed SQL statement does nothing;
- *waiting*: the walk needs a block another process may never store, and a
  handler a transfer that another goroutine records;
- *order*: rows and goroutines come in any order, and scoring looks back;
- *readers*: the API reads a table that is renamed under it, in two statements,
  and answers several fields of a query at the same time.

`PROJECT.json` lists each hazard at its line, with the properties that cover it.

## 2. Modules

| module | models | state and actions against the code |
|---|---|---|
| `Indexer` | the indexer process up to the dispatcher | `blockStore`, `idx`, `keys` are what Postgres holds; `cursor` and `retries` are the locals of `start`; `replay` is what is left of the list given to `replayBlocks`; `job` is where `Index` is, one storage or NATS call per step (`StoreTx`, `StoreEventByAddress`, `StoreEventById`, `Publish`, `SaveInteresting`, `SaveLatest`); `bus` is the subject `event:published`, `Dispatch` its handler |
| `EventLog` | what the indexer promises: finished blocks, a resume point, delivered events | abstract; no code of its own |
| `Synchronizer` | the synchronizer process | `storing`, `checking`, `advancing` are the goroutines in flight: `storeBlock` before its `Set`, `storeLatestBlock` before its read and before its write |
| `Pipeline` | both processes on one block store | `Synchronizer` with an instance of `Indexer`; the steps each module allows its environment (`BlockStored`, `BlockFilled`) are now steps of the other process; each has its own crashes and storage faults |
| `Subscribers` | the ten event handlers of the indexer process | `records` is `domain_events`, `minterRows` is `minter_buy_values`; `queue[s]` and `work[s]` are the pending messages and the goroutine of the subscription on subject `s`; a handler is `StartWaiting`/`FindTransfer` or `StartRecord`, then `Create`, and for purchases `ReadValue` and one of the writes |
| `Ingestion` | the whole indexer process | `Indexer` with an instance of `Subscribers` on the events of the chain; `DispatchBoth` is the dispatcher and the announcement it makes, `BootBoth` and `CrashBoth` start and end both |
| `FeederClient` | `Get` of the gateway client and its limiter | `call[c]` is where the caller is in `Get`, `request[c]` its HTTP goroutine; `slots` is `len(currentRequests)` and `taking` the goroutines about to send to it; `doomed` and `leaked` are the goroutines that go on after they have sent an error |
| `GatewayCall` | what the two walks may rely on when they ask for a block | abstract; implemented by `FeederClient` |
| `Aggregator` | the aggregator process | one step per SQL statement of `Run`, which the database executes or fails; a table is the number of rows per wallet |
| `LeaderboardApi` | the `leaderboard` query beside `Aggregator` | `counted` is the local `count` between its two statements |
| `Boost` | the two boosts | pure operators, one per method of `boost.go`, used by the next two |
| `Scoring` | the ranking of one wallet, recomputed while events are recorded | `pending` and `scores` are the locals of `PersonnalRanking.ComputeScore`, one event per step; a builder is the operator of its name; `line` is the wallet's published line |
| `GraphqlServer` | the generated server | `values`, `errors` and `invalids` are those of the field set of `_Query`; one operator per type's function and per marshaler, one action per end of a root field's goroutine |
| `Api` | the four resolvers on that server | `stored` is the lines of `leaderboard_lines`; what a resolver returns is handed to `GraphqlServer!Complete` |
| `IndexerProofs`, `PipelineProofs`, `IngestionProofs`, `SubscribersProofs`, `FeederClientProofs`, `AggregatorProofs`, `ScoringProofs`, `ApiProofs` | the theorems; `PipelineProofs` has those about `Synchronizer` too, `AggregatorProofs` those about `LeaderboardApi`, `ApiProofs` those about `GraphqlServer` and `Api` | |
| `MCIndexer`, `MCIngestion`, `MCPipeline`, `MCSubscribers`, `MCFeederClient`, `MCAggregator`, `MCLeaderboardApi`, `MCScoring`, `MCApi` | constants for TLC | |

`Subscribers` alone is the handlers against any announcements, in any order and
number; `Ingestion` shows that the indexer announces no others, and that it
announces every event in every life that lasts long enough.  `GatewayCall`
stands for what `ScanMiss` of `Indexer` and `SyncBlock`, `FetchFails` and `Crash`
of `Synchronizer` take a call to do.  `Scoring` stands where `Subscribers` ends,
with `Record`, and inside one insert of `Aggregator`; `Api` begins at the line
that it makes (`LineFromScore`).

Abstractions, all of them explicit in the modules:

- a block of contract `c` is the sequence of its transactions and events
  (`Items[c][b]`), an event is the triple of contract, block and position, which
  is what makes the code's `hash_index` unique; other contracts' entries, which
  the code skips, do not occur;
- a storage call succeeds, or (with `StorageFaults`, or in a handler of
  `FaultySubjects`) fails the way the code
  treats failures: a failed `Set` changes nothing, a failed `Get` or `Has` looks
  like an absent record;
- time is left out: a sleep is an interval in which anything else may happen;
- `crashes`, `indexed`, `dispatched`, `lost`, `ranked`, `overlaps`, `faults`,
  `failures`, `same` and `resets` are history variables: they record, and no
  code-modelling guard but the bounds on crashes, overlaps, faults, failures and
  resets reads them;
- an aggregator row is its presence: the score in it is the business of scoring;
- a purchase adds 1 to the minter value, and values above `MaxValue` count as it;
- a record's ID is its rank among the records of its handler: ULIDs grow with
  time, and the code compares them only between transfers;
- the calls of contracts answer with the project or fail; they read nothing that
  the goroutines write, so they are part of the step that takes the message;
- `slot_of` answers with the slot a token has when it is asked (`MetadataAt`),
  and tokens change it at any time (`ChangeSlot`, at most `Moves` times): the
  JSON-RPC node that answers is not the gateway the blocks come from, and either
  may be ahead of the other;
- points are naturals, for 256 bits are enough for any payment; where a line
  keeps 64 bits of them and the API shows them as signed, `Api` does so too
  (`Word`);
- a query asks for every field of the types it reaches; which fields are left
  out of a type changes nothing for the others.  A Go pointer is its value or
  `Nil`; the one pointer that aliases, to a loop's variable, is modelled by what
  it points to when it is read;
- the server knows nothing of its resolvers, so beside what they do return it is
  checked with other values of their types (`ReturnOther`), nil wherever the Go
  type allows it.

Definitions whose names start with `Bad` are plausible bugs: each stands beside
the definition it would replace, is used by nothing, and is rejected by a
property when it is put in that definition's place.

## 3. Runs

Every run takes less than three minutes.  `tlc -config X.cfg M`.

| run | question | bounds |
|---|---|---|
| `indexer_faults` | is a block ever skipped, and does the process implement `EventLog`, when any storage call may fail? | 1 contract, blocks 3..5 holding transactions, several events and nothing; 2 crashes; retry limit 0 |
| `ingestion` | does a boot bring back everything a crash took, so that no event is lost on its way to a record (`NothingLost`, over each life of the process)? how often is one announced? how far may the restart point move back? does the indexer deliver to the handlers what they are modelled against? | 1 contract, 3 blocks: a purchase, a transfer, and an empty one, after which a replay does move the restart point back; 1 crash, 1 reset; contracts answer, slots stay as they are, and storage calls succeed; `Copies` is 3, which no state reaches |
| `pipeline_liveness` | what holes can the synchronizer leave, does the indexer fill them, and is everything delivered end to end? | 1 contract, 2 blocks, 2 crashes of the synchronizer, whose storage calls may fail; the indexer does not crash here: what its crash takes from the bus is the business of `ingestion` |
| `subscribers_records` | is a record final and its owner justified? does an announced event stay in the process until it is recorded, and does the minter value ever fall behind the purchases handled? is every event recorded, and if not, why? is every purchase counted? | 4 events: a token minted and its change of slot, which the contracts may show at any time, a purchase, and an airdrop of another project, whose handler the database may fail; contracts answer; 1 crash, 1 reset |
| `subscribers_wait` | **violated**: does the wait for a transfer end, as its comment says? | a token minted and given value; calls of contracts may fail |
| `feeder_client` | whom does the limiter stop? does every call end? | 3 callers, 2 slots, 2 requests that fail or hang |
| `scoring_rules` | is each project rewarded once, no purchase missed, does a boost only shrink, do categories add up, do early adopters get theirs? | 7 events of two wallets in two blocks, six of them tied, one without a project; the milestone query may fail |
| `scoring_early` | **violated**: do different early projects all give points? | a purchase with its project and one without |
| `leaderboard_api` | is a wallet listed once, and whoever was listed always, while nothing goes wrong? can a crash lose the ranking? does the table recover? does a page agree with its page info, and when is a reader told that there is no ranking? | 2 wallets, one of them with a score too large for an INT, 2 slots, 1 crash, 1 overlap, 1 failed statement; pages 0 to 2, limits -1, 0 and 2 |
| `aggregator_unique` | **violated**: is a wallet listed once, as the table's `unique` tag says? | 2 wallets, one slot, 1 crash |
| `graphql` | do responses conform to the schema, are they complete, is every null explained? do lines arrive as they were scored? do the quotes agree with the scoring? | 2 wallets, lines of one and two points; 2 root fields at a time; every value from 0 to 22 with steps 5, 8 and 20 |
| `graphql_rules` | **violated**: does every point come with its rule? | the same |

Why the bounds are enough.  Contracts never share a variable other than the
block store and the bus, which both only grow or are emptied by a crash, so one
is enough.  Three blocks give a replayed block below, at and above the walk, and a
block with two items lets a crash fall between them.  Two crashes give a restart
whose recovery is itself interrupted.  The retry limit (5 in the code) only
counts waiting; 0 and 1 cover both sides of its test.  Two wallets are enough for
a table that is partly filled; counting rows up to three tells one from several.  Two blocks are enough for the
two compositions: the second is walked while the first is replayed or missing.
`StartBlock` is at least 1 (the configurations use 12500 and more): 0 stands for
an absent record.

Three callers and two slots are enough for a caller that finds the limiter full,
one that it lets pass and one that it keeps; the two failures let one call's
leftover goroutine meet another's.  Pages 0 to 2 lie before, on and
after the rows, a limit of 0 divides by it, and the database refuses one of -1.  Two root fields at a time give every pair of
results that `invalids` can add up.

The subscribers share nothing but the two tables: a token with a transfer,
whose slot changes before or after either of two handlers asks for it, has every
relation the lookup reads, and one crash falls between any two of their steps.  In scoring, six tied events, a purchase without a
project and one purchase of another wallet reach every branch of every builder;
`Precision` 2 makes the roundings visible, and the steps are small so that values
fall below, on and above each.

The findings. `aggregator_unique`: `CREATE TABLE tmp_leaderboard_lines` fails
when an earlier run died and left the table; the error is ignored, the next run
inserts everybody again, and the swap publishes duplicates. The `unique` tag of
`LeaderboardLine.WalletAddress` (`leaderboard.go:60`) does not help: `CREATE
TABLE AS SELECT` copies no constraint. `EventuallyWhole` shows that later runs
repair it.

`subscribers_wait`: when `slot_of` fails while a transfer is recorded, its
record has slot 0 for good (a second announcement is refused by the unique
`EventId`), and the handler that waits for it under its real slot, with the
whole subject behind it, never goes on; `project.go:132` is "pretty sure the
event will come".  No call has to fail for that: `slot_of` answers with the slot
as it is when the event is handled, so a transfer handled before its token
changed the slot is on record under the old one, and a `SlotChanged` handled
after it looks under the new one.  `AllRecorded` names this as the only case in
which an event may stay without a record while the database answers, and without
that exception (`MissesSlot`) the run `subscribers_records` violates it.

`scoring_early`: `!ex || a && b` in `score_calculator.go:385` (and, harmlessly,
302) lets any score without project metadata end the early adopter rule.

`graphql_rules`: `Rule: &point.Rule` (`schema.resolvers.go:148`) points into the
variable of the loop, which Go 1.21 shares between the iterations: all points of
a line are answered with the rule of the last one.  The same rule in the point's
metadata is right, and so is everything else of it (`LinesAsScored`).

Two more things a reader of the code should know, which no text of the
repository contradicts.  `getTransferEvent` does not look at the contract, and
the mainnet configuration follows two project contracts: with equal token ids
and slots it returns the other's owner.  And the total depends on the order of
events within a block, which neither the query nor `sort.Sort` fixes: a claim
taken before the wallet's first purchase gets no points for its project, one
taken after it does.

## 4. Fairness

- `Indexer`: weak fairness of the boot (the platform restarts processes), of the
  dispatcher, of the indexing loop and of a failed fetch; strong fairness of the
  two senders on the shared channel, because Go serves blocked senders in arrival
  order, and of the successful re-fetch, because the gateway answers a block it
  has if it is asked again and again.  The crash is not fair, and neither is the
  synchronizer in `Indexer`: a block it never stores must not matter.
- `Synchronizer`: weak fairness of the boot, of the walk (the gateway does not
  refuse one block for ever) and of every goroutine.
- `Ingestion`: as in the two modules, with one boot; no fairness of announcements.
- `FeederClient`: weak fairness of the boot, the timer, a goroutine that waits for
  a slot and every step of a call; strong fairness of giving a slot back, because
  Go serves the goroutines that wait for a channel in turn.  Requests need not go
  wrong, and one that hangs hangs for ever.
- `Aggregator`: weak fairness of a minute passing and of every run's next step.
- `Subscribers`: weak fairness of the boot, of the first announcement of every
  event in each life (which `Indexer` establishes), and of every subscription's
  goroutine.  A handler that waits is not enabled, so its fairness asks nothing:
  that waits end, or why they do not, is what `AllRecorded` shows.

The code does not bound a gateway call (no timeout in `http.Get`): liveness of the
walks is liveness as long as calls return.  `ImplementsGateway` says which do:
all but those that the gateway never answers, and, with as many calls in flight
as slots, those that wait for a timer another call has read.  In this repository
the callers are fewer (`FewCallersNeverLimited`).

## 5. Proofs

For every value of the constants that the named assumptions allow:

| theorem | argument |
|---|---|
| `IndexerProofs!TypeCorrect` | one lemma per group of actions |
| `IndexerProofs!NothingSkippedAlways` | `NothingSkipped` is not inductive: the restart point is written from the block being indexed and from the replay list, so `OrderInv` says that below *every* block number held anywhere (index, replay list, job, bus, walk) all blocks are indexed.  `SaveLatest` then keeps it, because the maximum it stores is one of those numbers |
| `IndexerProofs!IndexerImplementsEventLog` | under `OrderInv` each step maps to a step of `EventLog` or to a stutter: `SaveLatest` to `Finish`, `SaveInteresting` to `Rewind` when it creates the index, `Dispatch` to `Deliver` |
| `IndexerProofs!RestartAlwaysRecovers`, `PublishedIsAlwaysStored` | `RecordInv`: what `Index` has stored before each stage, and that indexed blocks and passed items are recorded in full.  It needs `OrderInv` to go from "below the restart point" to "indexed" |
| `IndexerProofs!RegressionStaysBounded` | `WalkInv`: the block being indexed is listed already, or it is the walk's and covered by what is listed or by the block itself (`Covered`); and while the process is down no job is in flight.  The two saves write the maximum of the list, so a save that lowers the point had a listed block in hand |
| `PipelineProofs!TypeCorrect`, `OnlyOvertakenHoles` | `HolesInv` adds that everything a goroutine may still write to `LATEST_BLOCK` is behind the walk |
| `PipelineProofs!PipelineImplementsIndexer`, `PipelineImplementsSynchronizer` | every step of one process is a step of the other's environment action or a stutter, so all of the theorems above hold of the composition; `PipelineHoles` draws that conclusion for the holes |
| `IngestionProofs!IngestionImplementsIndexer`, `IngestionImplementsHandlers` | the handlers change nothing of the indexer's; the indexer announces only what is at the head of the bus, which `OrderInv` says is an event of the chain, so the theorems about `Subscribers` hold behind the real indexer |
| `IndexerProofs!NothingEverForgotten` | an event is underway on the bus, in the block at hand, on the replay list or before the walk, and each step moves it on from one to the next or into `dispatched` (`UnderwayNext`).  It needs `RecordInv` for the boot (below the restart point every block with an event is listed), `PublishedIsStored` for the dispatcher, and `ListedStored`: what is listed, replayed or at hand is in the block store, so that the replay never skips |
| `IngestionProofs!IngestionKeepsEvents` | from the refinement: `RestartRecovers`, `PublishedIsStored`, `NothingForgotten`, `RegressionIsBounded` and `ImplementsEventLog` of the whole process |
| `IngestionProofs!HandlersKeepPromises` | the theorems of `SubscribersProofs`, cited through an instance of it about the events of the chain (`Proved`): what they assume follows from `HandlersAssumption`, and `SameSpec` carries `IngestionImplementsHandlers` over to that instance |
| `IngestionProofs!NothingIsLost` | `AheadOrSent`: what this life has not announced is underway.  Only the dispatcher takes an event from there (`UnderwayNext`), and while storage calls succeed it announces what it takes (`TakenIsSent`); from then on `AnnouncedIsKept` has it.  Unlike `dispatched`, `sent` starts anew with every life, so the theorem says that every boot has the whole chain ahead of it again |
| `IngestionProofs!NeverAThirdCopy` | `CopiesInv` counts: announcements made, messages on the bus, the block at hand if the event is not passed yet, the replay list and the walk together are at most two, one in the first life, whose replay is empty.  Every step keeps the sum or lowers it (`NextAhead`, `DispatchAhead`), whatever fails |
| `FeederClientProofs!TypeCorrect`, `SlotsConserved`, `LimitsOnlyBusy`, `FewCallersNeverLimited` | `SlotsAreCalls` is inductive with `TypeOK`: every step moves a call and a slot together; a caller finds the channel full only if as many calls hold slots |
| `FeederClientProofs!ClientImplementsCall` | every step maps to a step of `GatewayCall` or to a stutter; the timer's one value is `Spend` |
| `AggregatorProofs!TypeCorrect` | for any wallets, slots and bounds |
| `SubscribersProofs!AnnouncedIsAlwaysKept` | inductive with `TypeOK`: a message leaves its queue only for its handler, and that only when the event is recorded; what a step does to the queues and the handlers of other subjects is nothing (`HandlerSteps`) |
| `SubscribersProofs!MinterAlwaysKeepsUp` | `MinterInv` says of a project served by one subject what its handler knows at each stage: it works on a purchase of that project (`KnowsProject`, which is about all handlers but those that ask for a token's slot, and `OnlyPurchases`), the row it read is the only one and has not changed since (`RowAtHand`), so that adding one covers the purchase at hand with those handled before (`ValueStages`, `CoversOneMore`) |
| `SubscribersProofs!TypeCorrect`, `FinalRecords` | `FoundOwner`: a handler past its wait still holds the wallet of a transfer on record, which survives the steps of all others because records are only added; `Create` is the only step that adds one, and to an event that has none |
| `ScoringProofs!TypeCorrect`, `RewardedOnce`, `EveryPurchaseRewarded` | a list of scores is `Good` when no project is rewarded twice in it and its project points are the fixed ones; every builder adds at most one score that keeps it so, and prefixes only grow, so one event keeps `Good` and adds its project (`OneEvent`).  `IInv` carries that over `ComputeScore` in any order of the events |
| `ScoringProofs!CategoriesLackAPointAtMost` | the sum over the scores of one category and that of the other are the sum over both (`PointsSumUnion`), and dividing the parts loses at most one |
| `ScoringProofs!NamedAdopterRewarded` | `AdopterInv` adds that every score of a run is for an event it loaded: where all of these have their project, none without one can hold the rule back |
| `ScoringProofs!BoostsOnlyShrink` | `ShrinkInv`: as long as no query has failed, the amounts funded of the run and of the published line are no less than the events are worth now.  What an event is worth only shrinks while events are recorded, because the milestones' table never grows (`TablesAssumption`) and the sum over a larger set is no smaller |
| `AggregatorProofs!RankingSurvivesCrashes` | `SwapsInv`: until runs overlap there is one at a time (`OneAtATime`), and `SwapInv` says what it has established before each statement; for any number of slots |
| `AggregatorProofs!OncePerWallet`, `ListedStaysListed` | `CalmInv`: until something goes wrong, what each of the three tables is before each statement, and that between runs there is only the one; it needs `SwapInv` for the table that is about to be swapped in |
| `AggregatorProofs!ReadersOnlyRead` | every step of a reader is a stutter of `Aggregator`, so the theorems above hold beside the API |
| `AggregatorProofs!CountsAreOfTheirTable`, `PagesAddUp` | the rows of a table are a finite set with a bounded number of members (`RowsCounted`); how many pages that number needs (`PagesNeeded`) and which rows a page has (`LinesOfPage`), for any number of rows and any page and limit of at least 1; of any other request OFFSET or LIMIT is refused, or LIMIT is 0 |
| `AggregatorProofs!EmptyOnlyBetweenRenames` | `CalmInv`, which says that outside the renames there is a table that holds whoever has been ranked (`NobodyMissing`) |
| `ApiProofs!ResponsesConform`, `ResponsesAreComplete` | `ApiInv`: what is stored is what scoring made, and every value a resolver has left conforms to the schema unless it is null; a null among the fields that must not be counts in `invalids`, and `Respond` gives no data while there is one.  One lemma per type, from the leaves of the schema up |
| `ApiProofs!QuotesAreConsistent`, `WhatIsMissingSuffices` | `ApiInv` keeps the value the quotes were asked for; the step that `ValueBoost` takes by points is the one `GetInterval` takes by dollars, for any descending steps, and the next step is the last that is above |
| `ApiProofs!LinesReachTheReader` | `ApiInv`: a line is stored, converted and marshalled without losing or mixing anything of it, up to the sign of 64 bits that its points never reach |
| `ApiProofs!NullsAreExplained` | `NullInv`: what marshalling gives is null exactly if it has recorded an error, per type; so in the query under way nulls have been counted in `invalids` exactly if there are errors |

The theorems assume what the modules' named assumptions say, and TLC evaluates
these in every run: that the tables of the boosts are in descending order, that no
multiplier takes points away and that none grows along its table (`TablesAssumption`, literals of
`boost.go`), that every event of the chain has a subject and, after every number of moves, a slot
(`SlotsAssumption`, `HandlersAssumption`), that wallets are finitely many and none is the empty text, that points
fit into 63 bits (`LinesAssumption`), and that only a pointer marshals to null
(`NullAssumption`).  Two theorems have a hypothesis more, `IsAtom(Nil)` or
`IsAtom(Null)`: nil and null are neither objects nor lists.  That is what model
values are for TLC, and no assumption can make TLC evaluate it.

Sums over sets of events need induction over data, for which the library's theorems take an
operator as a parameter, out of the installed provers' reach.  `ScoringProofs`
goes round that with a first-order form of it: if a statement about finite sets
fails, it fails for a smallest one (`SmallestMember`, from the well-foundedness of the
naturals), and taking one member away contradicts that (`SubsetInduction`).

Only model-checked: what needs fairness, which is out of the prover's reach:
`DeliversAll`, `HolesAreFilled`, `EventuallyWhole`, `AllRecorded`,
`PurchasesCounted`, and the liveness in `ImplementsGateway` and
`ImplementsHandlers`, whose safety parts are proved (`ClientImplementsCall`,
`IngestionImplementsHandlers`).  Every other property of a passing run is a
theorem.  Four invariants are proved and no run names them, since a property of
the run already rests on them: `PublishedIsStored` and `NothingForgotten` (under
`NothingLost`), `SlotsAreCalls` (`OnlyBusyLimits`) and `ApiTypeOK` (`PageAddsUp`).
The liveness of events has safety companions among these: where
`DeliversAll`, `AllRecorded` and `PurchasesCounted` say that something arrives,
`NothingForgotten` with `NothingLost`, `AnnouncedIsKept` and `MinterKeepsUp` say
that until then it is always somewhere from where a step brings it further.

`IngestionProofs` uses the theorems of `SubscribersProofs` through an instance.
tlapm admits them once the named assumptions of the instantiated module are proved
of its parameters (`SameAssumptions`), and takes two instances of one module for
two modules, hence the lemmas from `SameSubjects` to `SameSpec`, which expand the
definitions of both.

## 6. Not modelled

- Configuration parsing and number conversions hold no state worth a model.
- The REST handlers of `internal/api` each pass one read of the store or one
  contract call on; the JSON-RPC client marshals a call and keeps nothing.
- Of the generated server: parsing and validation, introspection, `@defer` (the
  schema's clients would have to ask for it) and the complexity tables, which no
  limit uses.
- The Pebble, Badger and etcd stores are not used by any command.
- `CompositeScoreCalculator` and `BoostScore` are used by tests only, and the 50
  points of an early adopter's unknown project cannot be reached, because
  `Supports` refuses unknown projects.
- The migration's `-fresh`, which drops all tables under the other processes.
- The slot that a minter or a migration names does not change, and so the project
  of a purchase does not either: only the three project handlers ask `slot_of`.
- Of two answers to a reader nothing is said: wallets with equal scores may change
  places between them, so following the pages may show a line twice or never.
- The pending limits of NATS subscriptions, which are the client library's.
- A negative `value_to_buy`, whose text is no number and ends the API process in
  `log.Fatal` (`score_calculator.go:253`): the quotes are modelled for naturals.

That errors of the gateway leave a process running, which the comments at
`synchronizer.go:51` and `indexer.go:85` take for granted, fails for errors of the
connection: `Get` sends the error and then dereferences the nil response
(`rpc.go:149-154`).  `FeederClient` has it as `NilDereference`, and the walks as
one of the causes of `Crash`.

## 7. Plan

Done: every module of section 2, and a theorem for every safety property that a
passing run checks.  What of the liveness of events can be said as safety is said
and proved, for the indexer, the handlers and the two together, and so is the sum
that every step of the indexer keeps or lowers (`CopiesInv`).  Left: the same for
`EventuallyWhole` of the ranking, and the REST handlers, if they should ever do
more than pass a read on.
