# Verification of the trade pipeline

The repository is a NestJS service for trading luxury watches: a seller lists a
watch, a buyer opens a trade, an authenticator gives a verdict, the buyer pays
into escrow, the watch is shipped, and the buyer releases the money or disputes.
Every watch has a digital passport, a hash-chained ledger that the verdict and
the release append to. All state is in PostgreSQL, reached through TypeORM.

This directory holds TLA+ modules translated from that code, the TLC
configurations that check them on small instances, and TLAPS proofs, for every
value of the constants, of the safety properties and of the refinement of two abstract
specifications, a settlement and a sale.

## The system's parts

| part | code | state | operations | correct when |
|---|---|---|---|---|
| state machine | `trading/domain/trade-state-machine.ts` | none | `applyTransition`, `getNextState`, `isActiveTradeState` | a trade moves along the table, deadlines are set with the state they belong to |
| trade transitions | `trading/trade-transition.service.ts` | `trades`, `authentication_reports` | create, submit for auth, verdict, ship, deliver, release, dispute | one active trade per watch; nobody passes a state without what it stands for (verdict, money) |
| escrow | `escrow/escrow.service.ts` | `escrow_holds`, `idempotency_records` | `fundEscrow`, `releaseToSeller` | money is taken once and paid once; a retry replays |
| passport | `passport/passport.service.ts`, `passport/domain/hash-chain.ts` | `passports`, `ledger_entries` | `appendEntry`, `verifyChain`, the public view | append-only; what the code wrote verifies, and nothing else does |
| schema and ORM | `database/migrations/` | constraints, indexes | INSERT, UPDATE, COMMIT | the unique keys are what the services rely on |
| watch catalogue | `watches/watches.service.ts` | `watches` | create, list by pages | a listed watch has its passport; paging skips none |
| seeder | `database/seeds/seed-watches.ts` | `passports`, `watches` | one script | after it the catalogue is full; running it again does no harm |
| commission | `trading/domain/commission.util.ts` | none | `calculateCommission` | the parts add up to the price, each within half a cent of its share |
| queries, projections | `trading/trade-query.service.ts`, `trading/domain/trade-projection.factory.ts` | none | `getTradeProjection` | a party is shown money only when it is there |
| identity, guards | `identity/`, `common/guards/` | `users`, tokens | login, role checks | a role that was taken away stops working |

How they interact: a controller calls one service method per HTTP request. The
service awaits its database calls one by one; between two awaits any other
request runs. `release` and `recordAuthenticationVerdict` pass their transaction
to the escrow and passport services; `fundEscrow` has one of its own; all others
are a load followed by a `save`. No row is locked between a load and the save
that depends on it, and there are no version columns, so what keeps the system
right is the unique keys, the transactions and the order of the writes. The
hard behaviours are therefore overlapping calls that decide on stale entities,
crashes inside a call, retries that overlap what they repeat, waits on locks,
and deadlines that pass. Beside them: what is hashed is an object in memory and
what is verified was read back from a table; a token outlives the row it was made from;
and a catalogue is read page by page while it grows.

## Modules

    TradeStateMachine            the transition table and applyTransition
      TradeStore                 tables, requests in flight, locks, save()
        PassportService          appendEntry, verifyChain
          EscrowService          fundEscrow, releaseToSeller
            TradeTransitionService   the lifecycle calls
              TradePipeline      Init, Next, fairness, the properties
                TradePipelineInv     the inductive invariant
                  TradePipelineProofs  its proof and the theorems
                    TradeRowProofs     what steps do to rows; theorems about rows
                      TradeSerialProofs  theorems about links, and about calls
                                         on a trade that come one by one;
                                         extends TradeLifecycle too
                  TradeLifecycle       the pipeline as an implementation of Lifecycle
                  TradeSettlement      the pipeline as an implementation of ...
                    TradeSettlementProofs  ... and the proof that it is one
                  TradeQuery           what the parties are shown (with Commission)
                    TradeQueryProofs   its theorems
                  MCTradePipeline      instances of all of them for TLC
    Commission                   calculateCommission in cents
    Settlement                   the abstract promise about verdicts and money
    Lifecycle                    the abstract sale, from offer to payout
    HashChain                    canonicalJson, hashes, signatures, verifyChain
      PassportLedger             one passport over time: storage, restarts, damage
        PassportLedgerProofs     its invariant and theorems
        MCPassportLedger         an instance for TLC
    WatchCatalogue               WatchesService.create and the seed script
      MCWatchCatalogue           the script alone, for TLC
      CatalogueBrowsing          WatchesService.findAll, page by page, beside it
        CatalogueProofs          the invariants and theorems of both
        MCCatalogueBrowsing      an instance for TLC
    Identity                     login, JwtStrategy, JwtAuthGuard, RolesGuard
      IdentityProofs             its invariant and theorems
      MCIdentity                 an instance for TLC

**State.** `trades`, `holds`, `reports`, `records` and `ledger` are the tables.
`req[r]` is what a request in flight holds in memory: which call it waits for
(`pc`), the loaded entity (`mem`), the columns its UPDATE will set (`dirty`),
the ledger entry it has inserted and not committed (`entry`), its locks. `answer`
is the reply sent in a step. `clock` is `new Date()` in the smallest unit it tells apart, and
the `_HOURS` constants are lengths in that unit: two deadlines are equal exactly when they
were set at the same instant, which matters to `save`.

**Steps.** One action is one awaited database call with the JavaScript that
follows it up to the next one. Two reads in a row are merged where the second
reads only data that nothing changes (the watch of a trade, the passport row).

**TypeORM.** `save(entity)` of a loaded entity SELECTs the row again, compares
column by column, NULLs included, and UPDATEs the columns that differ: `SelectTrade`
and `Dirty`, then `Saves` and `Merge`. This matters: a stale NULL
deadline overwrites a newer one, and a column that agreed at the SELECT is left
alone. A trade's `updated_at` is always among them, so its UPDATE is always sent; a
hold has no such column, so a hold that is RELEASED already is not written again.

**PostgreSQL.** READ COMMITTED: writes of a transaction stay in its request until
COMMIT, which is part of the step of its last statement. A row or unique key that
an open transaction has written is locked (`locks`, `Needs`, `WaitsFor`); two
transactions that wait for each other lose one (`DeadlockVictim`). A waiter reads
the row as committed when the wait is over. The partial unique index on active
trades is `OneActiveViolated`, and `IndexBusy` is its wait for an uncommitted
entry. `Fail` is a crash of the process or loss of its connection at any point.

**Settlement.** What fundEscrow, release and the verdict promise together, as if each
took effect at one instant: `Judge` once per trade, `PayIn` once, under one key and
after a PASS, `PayOut` once and after `PayIn`, each with one more line in the
history, which counts its lines. `TransferAgain` is a line without money, for a release that
overlapped the one that paid. `TradeSettlement` maps the tables to that state: a row of
`escrow_holds` is a funding, RELEASED a payout, an idempotency record a receipt, a ledger entry a
line of history. Every commit of money, verdict or ledger is then one abstract step, and nothing
else is one.

**Lifecycle.** The whole sale as its parties understand it, every step at one instant and
on one trade: `Open` (nobody buys from himself, a watch is in one sale), `Handle`
(submitted, shipped, delivered, disputed), `Judge`, `PayIn` and `PayOut`, which move the
stage together with the verdict or the money. `TradeLifecycle` maps a row of
`trades` to a sale and a stage, a report to a verdict, a hold's status to the money.
`Settlement` is kept under any overlap and says nothing of the stage, since a stale save
can put the stage anywhere; `Lifecycle` says everything and is kept when clients wait.

**The catalogue.** `WatchCatalogue` has its own tables, as no call of the pipeline
changes a watch: the rows that exist are constants there (`Listed`,
`Linked`, `SellerOf`). `create` is one transaction (`CreateWatch`, `CreatePassport`,
`LinkWatch`, which commits); the script saves and commits row by row
(`SavePassport`, `SaveWatch`), and `Kill` may stop it anywhere. `Lookalikes` are sellers'
references that the script's LIKE also counts.

**Browsing.** `CatalogueBrowsing` adds a client that reads page 1, 2, ... to `totalPages`:
`SelectPage` and `CountAll` are the two queries of TypeORM's `getManyAndCount`, between
which a listing may commit; the COUNT is left out when the page shows the total by
itself. Pages are ordered by `created_at`, newest first, and `created_at`
is the start of the transaction: a listing that commits late takes its place anywhere in
the order (`Appear`), also among rows already read.

**The passport's ledger.** Inside the pipeline (`PassportService`) a ledger entry's hash is
its `createdAt`, so `prevHash` names the entry it was computed from. `HashChain` and
`PassportLedger` model what that leaves out, for one passport: SHA-256 and HMAC
are injective constructors of what they are applied to, so a hash is equal exactly when
its preimage is; the payload is a sequence of pairs that JSONB gives back in an order of
its own (`JsonbOf`); `created_at` is written as the wall clock of the server's time zone
and read back through the zone of the day (`wallClock`, `instantOf`). `Restart`
comes back with any configuration, `Damage` changes or removes one row from outside the
program, once. `written` is the history of what was committed; `upset` records what
happened that no client appending one by one does (an overlap, two entries of one
instant, another configuration, damage): no action reads it except `Damage`'s bound.

**Identity.** `FindUser` reads the row, `Sign` puts its roles in a token after
`bcrypt.compare`, `Call` is a request that passes both guards, which look at
nothing but the token and the route's metadata. No route writes `users`: `Assign` is an
operator with a database client. `Restart` starts the server with any secret.
`held` is the history of who had which role in which hour.

**Amounts.** `Commission` counts in cents. A product or difference of doubles is its exact
value plus an error of at most `MaxError` ten-thousandths of a cent, chosen freely; `TradeQuery` derives what
each party is shown from the trade's row, for every such choice.

**Data.** A trade is the columns the code decides on or changes. A passport is
named by its watch. A fund-escrow body
is a `tradeId` it may carry, which overrides the path's in the request hash as the spread
in `computeRequestHash` does, and the rest. Texts are "text" or NULL. Any user may
make any call in the pipeline: the guards of `Identity` only remove behaviours.

## Runs

| run | instance | shows |
|---|---|---|
| `race` | 2 trades of 1 watch, 2 calls at once, the clock moves | all safety properties that survive any overlap, any crash; the inductive invariant itself; only fundEscrow and release can deadlock; an overdue trade stays where it is for good; what the parties are shown; the refinement of `Settlement` |
| `one_trade` | 1 trade, 2 keys, 2 calls at once, fairness | every accepted call is answered although fundEscrow and release can deadlock; money is taken once under competing keys |
| `serial` | 2 trades, 2 watches, 2 keys, 2 bodies, one call per trade at a time | what the documents promise when clients wait for answers: states follow the table and come with their deadline, funds match the state, the chain verifies, a retry replays; the refinement of `Lifecycle` |
| `passport` | 3 entries, 2 appends at once, 2 configurations, one damaged row | a verified view is history; a view is verified when nothing unusual happened; a broken ledger is not mended by appending to it |
| `catalogue` | 2 seeds, 2 listings, 2 scripts and 1 reading client at once, references and serial numbers that clash | a watch in the catalogue has its passport, only the script leaves a passport without a watch, a script that says done is; a client who read all pages has seen what was there when it began |
| `identity` | 1 user, 1 client, 3 sets of roles, 2 secrets, tokens of 2 hours | no call is admitted by a role that was not held within the term of a token |
| `disputed_funds` | | violated: DISPUTED and paid out |
| `pending_funds` | | violated: PENDING_AUTH with money held |
| `forked_chain` | | violated: two overlapping appends fork the passport |
| `concurrent_retry` | | violated: an overlapping retry gets 409 instead of the stored response |
| `double_transfer` | | violated: two overlapping releases, two TRANSFERRED entries |
| `rerun` | 2 seeds, the script alone | violated: killed once, the script fails on every later run |

**Bounds.** `Trades`, `Keys`, `Requests` are finite, `RoomForTrade` stops creation when all
ids are used and `MaxClock` stops the clock; nothing else is bounded. Two trades
of one watch are the smallest instance in which the unique index and the shared
passport matter. Two overlapping calls suffice for every pairwise conflict; the theorems
cover any number of calls. In
`race` deadlines are of length zero and the clock goes from 0 to 1: every deadline is
either set at the present instant, and open, or at the one before, and overdue. Calls of one
instant are thus frequent and calls of three different instants do not occur (200,704 states; longer
deadlines and a clock to two multiply them); the theorems cover every clock and every length.
In `one_trade` and `serial` the clock stands still: deadlines never pass there,
which only allows more calls. In `passport` three entries are the first
chain with a middle that has both neighbours, and
`SetBack` is a zone whose clock is set back by one unit at instant 1, so an entry can be
written in the repeated hour and before or after it. In `catalogue` a page holds two of up to four
watches, so there are full, short and empty pages and a total that changes between
them. In `identity` a token lives two hours and the clock goes to three: tokens
expire, and one is signed from a row read an hour earlier.
Symmetry of trades, keys, requests, writers, listings and scripts is used in safety runs
only. `answer` is hidden by a VIEW: no action reads it.

**Deadlock checking** is on in every run that passes: a client may always call again.

**Fairness.** `Serve(r)` is strongly fair: Node resumes what it has awaited and PostgreSQL
serves the waiters of a lock in order, while a waiter is enabled only between
lock holders. `DeadlockVictim` is strongly fair because the detector runs
after `deadlock_timeout`. Clients are not fair: nobody has to call anything.

## What is proved

`TradePipelineProofs` and the modules that extend it prove, for all constants that satisfy `HoursAssumption`,
`StoreAssumption`, `CommissionAssumption` and `QueryAssumption` (ids are not NULL, finite sets of trades and requests,
hours and prices are naturals, the error of a double's arithmetic is below a hundredth of a cent),

    Spec => []TypeOK, []ShippedOnlyIfFunded, []ProgressOnlyIfPassed,
            []PayoutMatchesTransfer, []VerdictOnLedger, []FundedExactlyOnce
    Spec => BooksOnlyGrow
    Spec => []OnlyFundAndReleaseDeadlock, []PairInEveryCircle, []NoStandstill
    Spec => ImplementsSettlement                     (TradeSettlementProofs)
    Spec => []OneActiveTradePerWatch, StrandedForGood, []NothingIsUndone
                                                     (TradeRowProofs)
    Spec => []LinksAreCommitted                      (TradeSerialProofs)
    Spec => []ShownMoneyIsThere, []NoCentIsLost      (TradeQueryProofs)

None of the invariants is inductive alone: a stale `markDelivered` that saves
over the row is harmless only because its trade was funded when it was loaded and
money is never taken back. `Inv` therefore says what every request knows of the
tables at each of its calls (`RequestOK`): a shipment, delivery or dispute in
flight implies a hold and a PASS report, a verdict past its INSERT holds the report's
key while the table has none, a funding about to commit has found no hold and
keeps the key locked. `LocksExclusive` makes the last two stable. The proof has one
lemma per action; three lemmas carry it: `Quiet` for steps that change only a
request, `Commit` for steps that change tables (other requests keep what they know because
rows stay, verdicts stay and locked keys are not written), and
`SavedRow` for what `save` leaves in a row, its own state or the one found.

The deadlocks follow from `Inv` as well, which says at which call each lock is held
(`Holders`): of the calls that wait while they are waited for (`WaitingHolder`) there are
only fundEscrow, which has the trade's row and wants the hold, release the other
way round, and a verdict at its last UPDATE, which only verdicts wait for that have no lock yet. Each of the
first two has what the other wants, of one trade, so any circle of waiting calls, however many, contains
such a pair (`FundMeetsRelease`, `CircleHasPair`). That justifies the model: `DeadlockVictim` breaks
pairs only, where PostgreSQL finds circles of any length. `NoStandstill` is the rest: while calls are in flight, one
waits for nobody or is in such a pair. It is what safety can say of `EveryCallAnswered`.

The refinement of `Settlement` needs no more than `Inv`: `FundInsertRecord` is `PayIn` because a funding
about to commit has found the PASS report, no hold and no record of its key;
`CommitVerdict` is `Judge` because the report's key is held while the table has
none, so that by `VerdictOnLedger` its entry is new; `CommitRelease` is `PayOut`, or `TransferAgain`
when another release has paid out before. `EntryIsLine` counts: a new entry in a finite ledger
(`LedgerFinite`) is one more line of its own trade and of no other.

`TradeRowProofs` first shows that a step changes at most one row, by an INSERT or an UPDATE that
passed the index check, or moves a request (`Steps`). `OneActiveTradePerWatch` is not
inductive, since fundEscrow checks the index when it updates the row and commits
two statements later: `RowInv` adds that such a request still holds the lock on its row and
that, if its update makes the trade active, no other row of the watch is, because whoever would
write one finds the index busy and waits. `OverdueIsFinal` needs the same cases:
of the calls that could still move an overdue trade each is either refused by its
deadline or would have to be in flight. `NothingIsUndone` (no hold is REFUNDED, no trade in
a state other than nine of the table's) is inductive with the same said of the entity each
request has loaded (`MemServed`).

`LinksAreCommitted` needs that a set of entries has a newest one: `LinkInv` keeps a bound on
the time stamps written so far, below which `NewestIsLast` finds it, and says the same of
entries in flight, whose links are read before they are committed.

What is false when calls on one trade overlap (see below) is proved, in
`TradeSerialProofs`, for clients who wait for each answer, `ASSUME ~Overlap`:

    Spec => []FundsMatchState, LegalTransitions, []ChainVerifies, ReplayPromise
    Spec => []DeadlinesAreSet
    Spec => [](DisputedKeepsFunds /\ PendingAuthHoldsNoFunds /\ TransferredOnce)
    Spec => ImplementsLifecycle

whatever crashes, and however calls on different trades overlap. `SerialInv` says that no two
calls are for one trade; that the row of a call's trade is still in a state its operation
starts from, so that the save is known to change the state (`CallOK`); and that no
record answers a funding in flight. With it every commit is one step of the table that
changes the hold as the table says (`CommitMoves`), and `StepReplays` gives the answers of
fundEscrow. With it `save` also leaves the entity in the row as it is, no column
of an older one among them (`Whole`, `SaveIsWhole`), and since every entity has the
deadlines of its state (`Dated`), every row has (`DeadlinesAreSet`). A release that commits finds
its trade in DELIVERED or DISPUTED, so its hold is HELD and its transfer not written yet
(`TransferStep`). That gives
`DocumentsHold`: the sentences that `disputed_funds`, `pending_funds` and `double_transfer` refute are true
of clients who wait, so those runs find overlaps and nothing else.

`LifecycleImplemented` puts it together: each commit is a step of `Lifecycle`, for which
`SerialInv` gives the stage it starts from, `Inv` the verdict and the money that go with it
(`VerdictJudgesSale`, `FundingPaysSale`, `ReleasePaysSale`), and `RowInv` that the watch of a new
sale is in no other; every other step, a crash included, is a stutter.

`ChainInv` adds that an entry in flight hangs on the newest
committed entry of its passport. It does until it is committed, since another entry in flight
for that passport would belong to another active trade of the watch, which `RowInv` excludes:
what keeps the hash chain sound is the unique index on trades.

`CommissionAddsUp` is arithmetic: 7% of a whole number of cents is a multiple of a hundredth of a cent, so an
error below that can turn a half either way and change nothing else, and the payout is
rounded from a difference that is a whole number of cents up to the error. It covers every price,
where the run has the one of half a dollar. `ShownMoneyIsThere` follows
from `ShippedOnlyIfFunded` once `NothingIsEverUndone` says which states there are.

`PassportLedgerProofs` proves, under `LedgerAssumption` (JSONB keeps a payload's pairs),

    Spec => []TypeOK, []VerifiedIsGenuine, []NoFalseAlarm
    Spec => BrokenStaysBroken

for any contents, keys, zones, number of calls and damage. `LedgerInv` says that
the hash columns of a row, whatever became of the others, are those of an entry that
was written; a row that verifies then has that entry's preimage, hence its content. `NoFalseAlarm`
follows from `CalmInv`: while nothing is upset the rows are those of the entries written, each
linked to the last one before it, and outside the repeated hour the trip through the
zone keeps instants and their order (`RoundTrip`, `SameOrder`), so the rows come back in
the order of the links. For `BrokenStaysBroken`, a ledger that verifies after a commit ends with
the new entry, since nothing in the table was built upon an entry that was still in
flight (`NothingFollows`), and what is before it verified already.

`IdentityProofs` proves, under `IdentityAssumption`,

    Spec => []IdentityTypeOK, []PowersWereHeld

from `IdentityInv`: the roles in a row read and in a token were held when the row was read,
a row read is as old as its login, and a token ends within its term.

`CatalogueProofs` proves, under `LimitAssumption` and those of the catalogue,

    BrowseSpec => []NothingSkipped, []BrowseTypeOK
    BrowseSpec => Spec

from `BrowsingInv`: a watch that was listed when the reading began and has not been shown yet
lies beyond the pages read, because watches are only ever added before it. `PagesInv`
bounds the page: the client asks for the next one only if a COUNT said so, and watches have distinct
references (`References` is finite). The last theorem carries the catalogue's own over.

It also proves, under `CatalogueAssumption` (numbers are naturals, at least one seed),

    Spec => []TypeOK, []EveryWatchHasItsPassport, []OrphansAreSeeds,
            []UniqueKeys, []OwnersNeverWait, []DoneMeansFull

from `CatalogueInv`, which adds what a run of the script knows in its loop: all
seeds before its index are there, and between its two saves the
passport is. `DoneMeansFull` also needs that the watches are finitely many and
that distinct seeds are distinct watches (`AllSeedsCount`). `UniqueKeys` (two watches
share neither reference nor serial number) needs that an open transaction keeps its keys
from everyone else until it commits (`KeysInv`). The same shows that create never deadlocks: a
call that has its watch in both unique indexes waits for nothing more (`OwnersNeverWait`), since its
second INSERT, of the passport, can only clash with a passport that is committed. (In PostgreSQL an INSERT
that waits on the serial number already has its reference in the index, where the model takes
both when the wait is over. That makes no circle: it waits for a call that has both and does not wait.)

Only model-checked: liveness (`EveryCallAnswered`), which is beyond the prover; `NoStandstill`
is the safety part of it. Every other property of a passing run is a theorem.

## What the checks found

* A `dispute` that overlaps a `release` leaves the trade DISPUTED with the money
  paid out and the passport transferred (`disputed_funds`).
* A second, slow `submit-for-auth` takes an authenticated and funded trade back to
  PENDING_AUTH, which it can never leave again (`pending_funds`).
* Two appends to one passport that overlap link to the same entry; the public view then
  calls an untouched passport not verified (`forked_chain`).
* A retry of fund-escrow that overlaps the first call is refused with 409 (`concurrent_retry`).
* Of two releases that both found the hold HELD the second writes no money but appends
  a TRANSFERRED entry of its own: the passport shows the sale of one trade twice (`double_transfer`).
* The seed script is not idempotent before its last watch is in: killed after
  any save, it fails on every later run (`rerun`).

Through all of this the money stays right: `FundedExactlyOnce`,
`PayoutMatchesTransfer` and `BooksOnlyGrow` hold for any overlap, and so does what the
buyer is shown of it; and clients who make one call on a trade at a time meet none of it
(`LifecycleImplemented`, `DocumentsHold`). Not refuted by any document but worth knowing: once a deadline
has passed nothing moves the trade any more (`StrandedForGood`): after the dispute
window the buyer can neither release nor dispute. `DeadlinesAreSet` is checked and proved for calls
that wait and is not true of all others: with three `markShipped` under way at once, one commits and a
`markDelivered` follows; the second, which re-read the row before that, writes its state and takes the trade
back to SHIPPED; the third re-reads the row now and finds it differing in the dispute window alone; a second
`markDelivered` commits; the third then writes its NULL over the new window. No run shows this one. An entry written in the hour that a
clock set back repeats is the one exception that `NoFalseAlarm` has to make, and
a role taken away goes on working until the token ends (`PowersWereHeld` bounds it).

## Not modelled

Two things the passport's hashes do not cover are outside its model: the passport's id (an
entry moved to another passport) and nested payloads (those in use are flat). The
signer is part of an entry's type. Password hashing is a pure function of what is
compared; a token nobody signed is refused, so only issued tokens exist. Listings of one
instant, whose order the query leaves open, and the filters of the catalogue's query, which
hold for a row always or never. Validation of DTOs; bodies of replies other
than the projections of a trade; in the pipeline, entries of one passport that share a millisecond
and a clock that is set back (`NewEntry` takes a later `createdAt` than any before; the passport's
own module has both); the blank-key 400 of fundEscrow, which precedes any query; the application shell and the
health route.
REFUND, EXPIRE, CANCEL and LOST_IN_TRANSIT are in the transition table and no code triggers
them; the model has no action for them either, and `StrandedForGood` shows the consequence.

## Plan

1. Liveness of the catalogue's calls under the database's locks.
2. REFUND, EXPIRE and CANCEL, once the code has callers for them.
