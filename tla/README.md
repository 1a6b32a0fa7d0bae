# Verification of the Solana swap bots

TLA+ models of the Rust crate in `src/`, checked with TLC on small instances, and
theorems about them proved with TLAPS for every value of the constants. The crate has
no tests and no documentation besides its comments; its code is the reference.
Paths below are relative to `src/src/`.

## The system

The crate is a library of bots that trade on Solana: it watches the events of several
exchanges, builds swaps, launches tokens, and trades from many wallets.

| Component | State | Operations | What is hard |
|---|---|---|---|
| Log attribution, `sol/sol_events.rs:319-384` | `stack`, `program_data_list`, both reused | one line of a log at a time: invoke, success, data | nested and recursive invocations; truncated logs; what stays in the buffers |
| Event pipeline, `sol/sol_events.rs:67-261` | two bounded queues, `carrier` | a task receives and pushes; a thread pops, decodes, publishes | two actors; full queues; errors half way; the thread's death |
| Jupiter swap and fee, `solana_dex/jupiter.rs` | instructions so far; fee, distributed, round | request, lookups, assembly, split of the fee | every request fails; u64 overflow; rounding |
| Pump bundle, `solana_bundler.rs:46-202`, `solana_bundler/jito.rs` | transactions built; the bundle in flight | create, buy, tip; submit; poll the status | retries of what may have arrived; limits; a blockhash that expires |
| Address grinding, `solana_bundler.rs:204-241` | threads, an mpsc channel | spawn, draw, send, exit; receive | lifetimes of senders; threads that nobody stops |
| Volume handler, `solana_volume_handler.rs` | `with_token`, balances read before | scan and collect; sell; sweep | unconfirmed transactions; stale balances; wallets dropped on errors |
| Bonding curve, `sol/sol_events/sol_platforms/pump_fun.rs:62-316, 641-691` | none of its own: a copy of an account on the chain | buy, sell, buy-out prices, market caps | u128/u64 boundaries, rounding; the copy is stale when the order lands |
| CPMM quotes, `sol/sol_events/sol_platforms/raydium_cpmm.rs:134-252` | none: two balances of a pool | fetch, read twice, quote | a torn read; empty vaults |
| Geyser session, `sol/geyser.rs`, `sol/sol_events.rs:67-103` | the crypto provider of the process; the threads | install, connect, subscribe, spawn | retries; threads that nobody stops |
| Instruction builders, metadata upload, RPC helpers, types | none | request building and I/O | |

They interact as follows. The geyser session opens the stream that feeds `stream_events`,
whose thread calls the log attribution for each transaction, decodes what it found and hands
batches to the caller's queue. The quotes of the bonding curve serve the volume handler's
orders; those of the CPMM pools are offered to users of the crate. The pump bundle and the volume handler build their transactions with the instruction builders
of `pump_fun.rs`; the bundle goes to Jito, the volume handler's transactions go to the RPC
node. `get_jupiter_instruction` returns instructions to its caller. The components share
no memory except the two queues of the pipeline and the channel of `grind_address`.

Dead code is not modelled: `parse_instructions` (its call is commented out),
`event_handler` (always an error), and the funding of wallets in the buying branch of
`handle_volume`, which is taken with probability 0.0. What that branch quotes and orders is the
one use of the bonding curve's prices in the crate and is modelled, in BondingCurve.

## Modules

Each module opens with the code it models; `PROJECT.json` maps each definition to its lines.
Definitions whose comment begins with "A fault" or "Faults" are wrong on purpose: each takes
the place of the definition below it to show that a property can fail. They are part of no
specification.

* **LogAttribution.** The runtime writes a line and the parser reads it in one step, so that
  `calls`, the runtime's call stack, can be compared with `stack`, the parser's. `ParseLine`
  is one round of the loop of `parse_solana_logs`; `NextTransaction` is `listener` clearing
  its buffers. A line may be lost (`lossy`), as validators truncate long logs.
  A log text is "plain", holds ` invoke [`, or is the word "success": the parser tells no
  more apart. *Proofs in LogAttributionProofs.*
* **EventFeed** is what the pipeline promises: transactions are refused only when enough of
  them wait, handled in order, and become at most one batch each, lost only when the results
  are full. **EventPipeline** is the code: `Receive` and `StopStreaming` are the task
  `stream_events`; `Pop`, `Match` and `Publish` are the thread `listener`, cut at its accesses
  to the queues; `Consume` is the caller. The thread's hands and the queue together refine
  the feed's `pending`. Sleeps and empty polls change nothing. *EventPipelineProofs.*
* **EventDecoding** extends LogAttribution with `parse_logs` and the
  publishing of batches: `Line` is a line of the log, `Decode` the loop of `parse_logs`, `Publish`
  the end of a round of `listener`. EventPipeline takes a data line and its emitter as given; here
  the emitter is the one that was found, and decides how the same bytes are read (`Reading`).
* **GeyserSession.** Tasks of a process that ask for a stream: `Install` and `Connect` are
  `build_config`, `Subscribe` is `get_stream` and the spawning of the listener. A task whose call
  has ended in any way may begin again, as a program that retries would. Its names differ from those
  of EventPipeline, whose thread `Subscribe` spawns, so that one module can extend both.
  *EventPipelineProofs, last section.*
* **BondingCurve.** The operators named as in the code are the methods of `BondingCurveAccount` and
  `GlobalAccount`. `Order` is the buying branch of `handle_volume` from the read of the account to
  the order that is sent; `Fill` and `Lose` are the chain's answer; `OtherBuys` and `OtherSells` move
  the curve before that. The on-chain program is not in the repository: `Cost`, `Bought`, `Sold` and
  `Fillable` are the constant-product rules that the methods imply, rounded against the trader. A divisor of
  zero panics (`DivByZero`) and makes the market cap that asked for the price panic too.
  *BondingCurveProofs.*
* **CpmmQuote.** `Fetch`, `ReadFirst`, `ReadSecond`, `Ask` are the calls a user makes; between the two
  reads others swap (with any fee up to `MaxFee`), add or remove liquidity.
  *CpmmQuoteProofs.*
* **JupiterSwap.** One action per stage of `get_jupiter_instruction`, with every failing
  request or malformed part as an `Abort`, and one per round of the loop of `calculate_fee`.
  `U64` wraps at `Word`, and what does not fit may panic or wrap, as the build profile decides.
  The properties add up rates and lamports with a recursive function of the length (`Sums`).
  *JupiterSwapProofs.*
* **PumpBundle.** `Create`, `AddBuyer` build the transactions in `deploy_pump_and_buy`, each signed over
  the blockhash that `Create` fetches. `Bundle`, `BundleRefused`, `Accepted`, `Unanswered` are
  `jito::bundle` with its inner loop; `StatusAnswered` and `StatusFails` are the status loop.
  `BundleRefused` (a bundle over the limit) and `StatusAnswered` are rounds that change nothing.
  Jito may have received what it did not answer, and may land it later. `bundle_id` names the bundle it is
  the id of. `NewBlock` and `Land` are the chain: a blockhash is recent for `Valid` blocks, and a
  bundle lands whole, and only while all its blockhashes are recent. *PumpBundleProofs.*
* **GrindAddress.** The caller and each thread are processes; a sender lives until its thread
  exits, the receiver until the call ends. *GrindAddressProofs.*
* **VolumeHandler.** The handler's steps are cut at its requests, and between any two of them
  the chain may take pending transactions in any order (`Land`) or never (`Drop`).
  `Covered` is what the node's simulation, and then the chain, demand: the amount, the fee,
  and no account left below the rent minimum. That the scaled f64 may be cut to one raw unit
  below the true amount is a choice. The node is taken to answer with the current balance.
  Nobody else pays SOL into a wallet of the list during the run. `sold` is not in the code: it is a history
  variable for `SweepNeedsSale`: the wallets whose sale has gone through since the balance to be swept was read.
  *VolumeHandlerProofs.*

The modules `MC...` hold the instances for TLC.

## Runs

| Run | Question | Bounds |
|---|---|---|
| `log_attribution` | Is each event attributed to its program and decoded as that program's, does a batch hold just these, and does nothing survive a transaction? | EventDecoding over LogAttribution: two programs that share a discriminator and one that is not known, calls nested 3 deep, logs of 7 lines: enough for A inside B inside A, for a loss at any line, and for two transactions in a row |
| `log_attribution_text` | *violated*: a program logs ` invoke [` | four states |
| `event_pipeline` | Do the task and the thread implement the feed, in order, is every accepted transaction handled, and what kills the thread? | every kind of transaction the code tells apart, queue of 2, results of 1, 4 arrivals: both queues overflow and drain |
| `geyser_session` | Can a process ever have two listeners, or a second chance? | three tasks that begin twice each |
| `bonding_curve` | Are quotes honoured, in agreement, free of gain, and is the curve solvent? | 24 tokens against 9 lamports at the launch, both kinds of fee, trades of 1 and 5 tokens, orders of 4 and 7 lamports, until nobody buys above 40 lamports, with fees and slippage large enough to bite at such numbers: roundings of every size, the complete curve, and an overflow of the slippage and one of the market cap occur |
| `cpmm_quote` | Is a quote exact, and how far off is a torn one? | balances of 0, 6 and 20, three amounts, up to three trades between the reads |
| `jupiter_swap` | Is the fee conserved, the rounding bounded, the arithmetic safe? | six configurations (none, one, uneven, under, over, invalid), nine amounts, a word small enough for products to wrap; quotes with SOL on one side or none, for Jupiter swaps no token for itself |
| `grind_address` | Does the caller get a keypair and do the threads come to rest? | three threads |
| `grind_address_no_match` | *violated*: no address has the postfix | two threads |
| `pump_bundle` | Is the bundle complete, is what lands what is polled, is what has expired lost? | all lists of up to six accounts of two owners, Jito's real limit of five; blocks 0 to 3 and a blockhash recent for one block, so that it expires before, between and after submissions |
| `pump_bundle_tip` | *violated*: one account, no tip | as above |
| `volume_handler` | Are sales covered and paid for, what does a sweep need, does the list run out? | two wallets, four lists (one with a duplicate), the real constants in lamports, balances below the fee, at and above the threshold |

Type invariants that are proved for every instance (`TypeCorrect`, below) are checked by a run only
where they bound something (the queues of the pipeline, the reserves of a curve, the vaults of a pool).

No run checks for deadlock: each of these calls may end, or wait for ever, as said above.

### Fairness

* `EventPipeline`: weak fairness of each step of the thread. It is a loop that only sleeps
  for a millisecond, and the operating system schedules it. Nothing is assumed of the node
  or of the caller.
* `GrindAddress`: weak fairness of the caller and of each thread, including a match where one
  is possible: draws are independent, so that a match comes with probability one.
* `VolumeHandler`: weak fairness of the handler, a loop without waiting. Nothing is assumed of
  the chain.

`PumpBundle` has no fairness and no liveness property: nothing in the code makes the call end. A bundle over
the limit, or one that Jito never accepts, is tried for ever, and the status loop runs as long as it is answered.

### What the violated runs show

* A log message of a program is parsed as an invocation when it contains ` invoke [`, so that
  later events are attributed to `log:`. The comments at `sol/sol_events.rs:335-355` say that
  such lines are ignored.
* `grind_address` never returns for a postfix that no address has. The comment at
  `solana_bundler.rs:232` says that dropping the sender makes `recv` return in that case; it
  would if threads gave up.
* With one account nobody tips, in spite of `// lets tip` at `solana_bundler.rs:113`.

### Other disagreements with the comments and assertions

The models contain these as the code has them; no run is there to show them.

* A log message such as `Program log: a] b invoke [` has its first `]` before its first `[`.
  `parse_invoke` slices between them and panics, and the listener is gone (`sol/sol_events.rs:365`);
  the comment at line 350 says that such lines are ignored. EventPipeline has such transactions
  (envelope "inverted").
* `build_config` installs the process's crypto provider on every call and expects that to work
  (`sol/geyser.rs:18-20`); the second call of a process panics. That is also why a process never has
  two listeners (`OneListener`), for nothing else prevents it.
* `get_buy_out_price` raises the number of tokens to the curve's lamports (`pump_fun.rs:300`), so that
  it prices more tokens than are left once the lamports outnumber them. `FinalCapIsReached` says that
  the final market cap is right up to there, as long as the cost of the rest fits a u64. Above, it says that
  the cap is never too low, until there are as many lamports as virtual tokens: then the price divides by
  zero, which panics in every build.
* `calculate_market_cap_fixed_point` multiplies in u64 and panics once the product of the supply and the
  scaled price is too large, against the `expect` at `pump_fun.rs:108`. `CapFailsForGood` says that it
  does so until somebody sells, as long as the reserves and the scaled price themselves fit.

## Proofs

All theorems hold for every value of the constants that the module's `ASSUME` admits. Every safety
invariant and action property that a passing run checks is stated by one of them, and so are the
refinement and the one temporal property that needs no fairness (`ExpiredIsLost`).

* **LogAttributionProofs.** `TypeCorrect`; `NothingCarriedOver`, from an invariant that ties the
  whole stack, and not only the recorded emitters, to the programs of the transaction;
  `StackCorrect` and `AttributionCorrect` under the hypothesis that no program logs ` invoke [`. The
  stack mirrors
  the calls because a program's last position on it is its end whenever it returns. `BatchesExact` and `OwnShortKills` carry
  this over to EventDecoding, whose steps are steps of LogAttribution or leave its variables alone.
  `ItemsAreEntries` joins the two models of `parse_logs`: for every list of data lines, the items that
  EventPipeline is given lead to the events that EventDecoding finds in the list, and kill the thread on the
  same lists. Its constants and variables do not occur in these operators and are given any value.
* **EventPipelineProofs.** `Refinement` needs that the thread's position decides what is in its
  hands and in the carrier (empty except while publishing). `OrderKept` adds that the ids in
  results, hands and queue increase. `OnlyFatalKills` needs only what the outcome of a
  transaction can be. The last section is about GeyserSession, whose threads run this listener:
  `OneListenerEver` and `OneChanceOnly` follow from `Chosen`: the provider is installed once, only
  the task that did so ever connects, and while it has no stream yet nothing was refused, has ended or runs.
* **JupiterSwapProofs.** `SplitSafe` says that no step of the split panics when the rates add up
  to at most 10000 and the addresses parse. The invariant is that what has been distributed,
  times 10000, is at most the fee times the sum of the rates so far, and that the fee, itself
  a ten-thousandth of a u64, leaves room for its product with any rate. `FeesConserved` keeps the books:
  at any time, what the instructions charge is the fee of the sides already split and what has been
  distributed of the one in progress. `RoundingIsBounded` is its own strengthening together with
  these two: a transfer is within its bounds in the round that adds it, and a later round leaves it alone.
  Sums are defined by recursion on the length, and their laws need induction. The induction theorems of the
  library take a predicate as an operator, which the provers cannot instantiate; the lemma `Induction`
  states it for a set and takes it from the well-founded order of the naturals instead.
* **GrindAddressProofs.** `RecvNeverFails`: whoever has exited has sent, and what was sent is in
  the channel while the caller waits; so an empty channel means a live sender.
* **PumpBundleProofs.** The invariant: the transactions built so far are in place and over one blockhash,
  the creator's never tips, and Jito receives nothing but the one list of transactions, however often it is
  sent. `Complete` follows for any list; what tips is the last of at least two. `PollsWhatLands`: since what
  was received unanswered is the bundle that is polled, nothing else can land. `OkMeansHanded`:
  the status loop is reached only with the bundle received. `TipsWithBuyers` is the exact condition
  behind the violated run: a bundle that Jito has pays a tip if and only if there is a second account.
  `LostForGood` is temporal: once the blockhash has expired with nothing landed, nothing will, because no
  retry signs again.
* **BondingCurveProofs.** All eight theorems follow from one invariant: the product of the virtual
  reserves never falls below that of the launch, because every formula rounds for the curve, and
  virtual and real reserves keep their distance. The module begins with the arithmetic, from the
  bounds of a quotient: what a quote costs, that a purchase and a sale keep the product, that a quote
  falls as the curve rises. `FinalCapReached` equates the buy-out price with the cost of the same tokens on
  the chain, and where the lamports outnumber the tokens bounds it from below, since a quotient grows
  with the tokens that are asked for; `CapStaysTooLarge` needs that a purchase raises both the scaled price and the tokens
  in circulation. The theorems hold for every `Word`, because each says what the code
  does where its results fit.
* **CpmmQuoteProofs.** The invariant relates what has been read to the vaults before the first read and now:
  while only one token has been put in, its vault has not shrunk, the other has not grown, and none was emptied or
  filled from nothing. `QuotesExact` is the case without trades; `TornQuotesBounded` puts a torn quote
  between those of the two moments, for any fees and any number of trades between the reads.
* **VolumeHandlerProofs.** The invariant has a part for the scan (it has sent at most one transfer for
  each wallet that it has passed), one for the wallets that wait (nothing but that transfer is
  pending, and the reserve is left), and one for the wallet whose turn it is (it is in no list, and
  at most one sale is pending). A last part holds for any list: between the read of a balance and the sweep only
  a sale that lands raises it. `SweepsFollowSales` follows, for a sweep of the balance that was read, fee
  on top, needs more than was there. `SalesPaid` assumes that the reserve is at least two fees, as it is in
  the code. `SalesCovered` and `SalesPaid` are about lists without duplicates, as the properties say.

Only model-checked: the liveness properties that rest on fairness, `EventuallyHandled`, `RecvReturns`,
`EventuallyQuiet` and `Drained`. Weak fairness is about which actions are
enabled, and the installed provers cannot reason about that.

## Plan

All modules, runs and theorems above are done. What could be added:

1. The safety half of each liveness property: a measure that every step of the thread, the caller or the
   handler lowers, so that only the fairness is left to TLC.
2. The funding of wallets in the buying branch, if it is ever switched on.

## Not modelled

The contents of the geyser request, the lists of accounts and byte layouts of the instruction
builders, the metadata upload, the RPC helpers, and the type definitions. They keep no state;
their failures are branches of the modules above. The subscription lists the CLMM address twice
and the CPMM address never (`sol/geyser.rs:40-45`); no model reads the list.
