# SuiviBourse: formal models

SuiviBourse replays a ledger of events (buys, sells, dividends...) into a
portfolio, scrapes the prices of the symbols it holds, reconstructs their past
and serves pages about them. One Python process holds everything: a scheduler
with a pool of threads, a web server whose requests run on other threads, one
store (a database file) and a few objects in memory that all of them share. A
web client, one page with a cache of what it last read, asks it for everything
it draws. This directory models that process and that page, and proves about
them what a test would hardly reach: the orders in which threads, requests,
failures and restarts meet.

Server paths below are relative to `src/packages/app/src/application/`, client
paths to `src/src/web/src/`, unless they start with `src/`.

## Inventory

| Part | State | Operations | Talks to | Modelled |
|---|---|---|---|---|
| Job history (`job_history.py`, `job_store.py`) | tracks, buffers; three tables | record, schedule, forget, retain, flush, restore | all jobs, the store | `JobHistory` |
| Scrape (`jobs/scrape.py`, `jobs/base.py`) | scheduler entries, failure counts, stored armings not used yet | fire, decide, re-arm, reconcile, re-cadence | snapshot, market, quotes, records, history | `ScrapeRotation` |
| Ingestion (`jobs/ingestion.py`) | record of the last ingestion | replay, then reconcile the scrape | snapshot, scrape, records | in `ScrapeRotation` |
| Performance (`jobs/performance.py`) | fingerprints, caches of closes; the series | rebuild: unchanged, today, full | ledger, quotes | `PerformancePass` |
| Authentication (`auth_gate.py`) and its pages (`features/auth`, `SecuritySection.tsx`) | code, sessions, cookie; the status the page caches | sign in, change, disable, revoke, lifetime | every request | `Session` |
| Agent (`agent_routes.py`, `agent_threads.py`) and its page (`features/agent`) | a file per thread, the running turns; the thread on screen and its stream | ask, stream, stop, re-read, delete, give a statement | provider, proposals | `AgentThreads` |
| Proposals (`proposals.py`, `event_proposals.py`, `profile.py`) and their cards | proposals with a status, facts of the profile | propose, decide, edit, forget | threads, ledger | `AgentCards` |
| Agent connection (`agent.py`, `agent_probe.py`, `api/agent.py`) and its sheet | the stored provider, address, key, model | test, adopt, save a row | provider | `AgentSettings` |
| Settings dials (`settings.py`, the registry) and their rows (`useDial.ts`) | the settings table, what the jobs run with | save, queue a value, take effect | jobs | `SettingsDials` |
| References (`settings.py`, `ledger.py`, `benchmark_view.py`) and their sheet | followed list, choice, series | follow, forget, choose, purge, download | backfill, benchmark | `References` |
| Theme (`tweakcn.py`, `api/settings.py`) and its form (`themeForm.ts`, `themePreview.ts`) | the stored theme; edits, preview | edit, apply, import, reset | settings | `ThemeEditor` |
| Accounts (`accounts.py`, `reassignment.py`) and their page and panel | accounts, facts, models | declare, correct, remove, reassign | ledger, taxation | `AccountPanel`, `AccountsPage` |
| Taxation models (`taxation.py`, `taxation_projection.py`) and their section | the catalogue of models | write, check, remove, import, project | accounts | `TaxationModels`, `TaxationSection` |
| Ledger page (`pages/DataPage.tsx`, `features/data`) | address, reduction, ticked rows, sheet | reduce, reveal, tick, remove | ledger writes | `LedgerPage`, `EventForm` |
| Import window (`UploadZone.tsx`, `ImportPreview.tsx`, `proposalImport.ts`) | files, answers, readings and writings in flight | preview, answer, write | uploads, proposals | `ImportPreview` and its parts |
| Shares page (`pages/SharesPage.tsx`, `features/shares`) | reads, lens, groups, order, sheet, selected days | reads only | positions, runtime | `SharesPage`, `ShareFigures` |
| Dashboard grid (`DashboardGrid.tsx`, `dashboardLayout.ts`) | the layout, a draft, a drag | edit, drag, reset, save | settings | `DashboardGrid`, `DashboardLayout` |
| Ledger and `ConfigurationManager` (`main.py`, `ledger.py`, `entries.py`) | events, accounts, symbols; the published snapshot | write, replay, purge of orphans | every job | no |
| Backfill (`jobs/backfill.py`), quotes, store, uploads, migrations, aggregation | see "Not modelled" | | | no |

What is hard in it. On the server: entries fire on pool threads while requests
reconcile them, with no lock around a reconciliation; each pass puts its own
entry back; every read may raise and every write may be refused; the history
lives in memory and is written every 30 s; a provider or a code is asked
outside the lock that protects what the answer changes; the process may die
between any two of these steps. On the page: an answer lands after the reader
left, opened something else or typed on; a write answered is read again by a
request that may have been sent before it; another tab, or another browser,
moves the store meanwhile. What each part must get right is listed, line by
line, under `hazards` in `PROJECT.json`, with the properties that would catch
it going wrong.

## Modules of the server

### JobHistory: a write-behind buffer with failures

`JobHistory` holds what the jobs did: `slots` (counters by hour), `recent`
passes, and the last arming of each scrape entry. Four buffers (`dirty`,
`pending`, `schedule`, `gone`) say what the store does not have yet. A flush
drains them under the history's lock, writes one transaction and, refused,
merges the batch back with what was noted meanwhile.

* State: the variables carry the names of the code's attributes and tables
  (`_tracks`, `_dirty`, `_pending`, `_schedule`, `_gone`, `job_slot`,
  `job_pass`, `job_schedule`). A pass is its hour and its rank. A slot's
  counters are functions of the passes counted, so a slot is that set of passes.
* Actions: `Record`, `Schedule`, `Forget`, `Retain` are the methods, each
  atomic under the lock; `StartFlush`, `CommitFlush`, `FailFlush` are the flush,
  cut where the lock is released; `Stop`, `Close`, `Restart`, `RestartBlind`
  are the process's life, the last one a boot whose read of the store raised.
* History variables: `armed` (the last arming not forgotten since) and
  `forgotten` (from which pass on a key may have a history).
* Left out: two passes of one job, started by two requests at once, that end in
  the other order; two passes of one key at the same microsecond.

`DurableHistory` is the promise, independent of buffers: what the store would
give back is always what the process knew at one moment. `JobHistory!Promise`
maps to it: `live` is the memory, `durable` the tables, `taken` the tables as
the batch under way will leave them.

### ScrapeRotation: entries, passes and reconciliations

One scheduler entry per held symbol. An entry is a one-shot; its pass ends by
arming the next. Ingestions (requests that wrote, the turn of the day, the boot)
publish a snapshot and reconcile entries with it. A change of cadence re-arms.

* State: `ledger` is what a replay of the stored events would say, `published`
  the snapshot; `entries`, `failures`, `restored`, `record`, `history` are the
  scheduler's jobs, `failure_counts`, `restored`, the scrape records and what
  the job history holds of the symbol. `pass`, `ingest` and `rearm` are the
  program counters of the threads.
* Actions: one per read of shared state and one per write to it. A
  reconciliation reads the held symbols, then the scheduled ones, then goes
  through three loops, one symbol at a time. A pass decides under its lock,
  records, reads whether it is still held, arms, notes, and is checked again by
  `JobFamily.__call__`.
* Faults: `Faults` says which calls may raise: the replay, a read, an arming.
* `Fire` is APScheduler's: an entry whose time has come leaves the job store; if
  the pass before still runs, `max_instances=1` skips the run and the entry is
  gone. An entry a poll interval away is taken not to fall due in the few
  instructions a pass has left after it armed itself.
* History variables: `mishap` (what cost a symbol its entry), `paused` (found
  paused at the boot and held since) and `unarmed` (sold while it was out of
  the rotation).
* Abstracted: a delay is "soon" (jitter, or a market about to open) or "later"
  (a poll interval at least); prices, conversions and verdicts are outcomes of a
  pass (`price`, `failed`, `closed`, an exception).

### PerformancePass: a series decided by fingerprints

One pass at a time rewrites the daily series, on a tick and in every request
that wrote. It rewrites nothing, today's point or everything, as the inputs it
fingerprinted compare with those of the last pass.

* State: `ledger`, `meta`, `price` are what the pass reads (versions of the
  events and accounts, of the quote rows and splits, and each day's close),
  `published` the snapshot, `series` the stored points, `last` and `cache` are
  `_last` and `_closes_cache`, `pass` is the holder of `perf_lock` with the
  values it read, `request` the threads that wait for an answer.
* A point is what it was computed from: events, accounts, quote rows and every
  close up to its day, for the index chains them. So "the series is exact" is an
  equality, whatever the arithmetic.
* Actions: one per read of the store, in the order of `rebuild_series`, `_full`,
  `_closes`, `_remember` and `_today_only`; `WriteSeries` and `WriteToday` are
  one transaction each. Writers (`StoreClose`, `StoreQuoteRow`, `WriteLedger`)
  and midnight fall between any two. `Fail` is any exception, `Restart` a crash.
* History variable: `served`, the last write answered by a pass that did not fail.
* Abstracted: one account; a base currency is answered; symbols held since the
  first day, so `account_horizon` says a point needs a close of each symbol that
  day or before; what carries a symbol is part of the version of the quote rows,
  read at once. A fingerprint is the content it hashes: hashes do not
  collide. Every write stores a new value, so erasures, and a write undone while
  one pass runs, are left out.

## Modules of the client

Every screen is modelled the same way. A read is sent, answered and landed at
three moments, and a write too, so that answers cross; a request in flight
outlives the sheet or the page that sent it; another tab, or another browser,
moves the store in between. What the server does to answer is part of the
action, from its own source. A history variable (`touched`, `crossed`,
`overtaken`, `orphan`, `decided`, `proved`, `loggedOut`...) records what no
screen remembers and a property needs: most often which of two crossed answers
the code is known to show, so that the property can set that case apart.
Texts, colours and rates are a few values.

| Module | Models | What must hold |
|---|---|---|
| `Session` | the gate, the cookie, the PIN screen and dialog, the procedures, the auto-lock row | a cookie the gate accepts was opened with the code in force, and by a session that did not sign out |
| `AgentThreads` | the page of a conversation and the turns the server runs | the model is given what was drawn; a whole turn stays in its file; coming back to a thread leaves its stream alone |
| `AgentCards` | a card of events with its successors, a fact and its chip, whose saves and removals are refused and lost too | a decided proposal has no buttons; it gives way to one other at most; a chip at rest is the newest fact the page has heard of |
| `AgentSettings` | the connection, its test made outside the lock, its sheet, the rows beside it | what is stored passed its test whole, with a key typed for that address; the agent on can run |
| `SettingsDials` | one dial of each kind, its queue, its write, its effect | a row at rest is the server's; what is said saved is stored and in force |
| `References` | the followed list, the choice, the purge, the downloads, sheet and picker | a followed series is spared; the choice is followed; a switch moves its ETF and no other, while the page has the list |
| `ThemeEditor` | the candidate, the preview, apply, import, reset | an apply paints what the fields show; the preview is the candidate and goes with its form |
| `AccountFigures`, `AccountsPage` | the arithmetic of the accounts page, then its reads and blocks | the shares make one whole, the payers close the dividends, the address names what is shown |
| `AccountPanel` | declaration, correction, removal, the model written or removed from the panel | nothing names what is gone; no model twice; a rename leaves the model alone; a first declaration takes the unassigned events |
| `TaxationModels`, `TaxationSection` | the kinds, their check and the tax projected; then their sheet and import | what is stored is projected without contradiction and goes through the form unchanged |
| `LedgerRules`, `LedgerPage` | the rules of a row, then the reduction, the reveal, the ticks and the two removals | what is removed is what was seen ticked; a reduction in the address is the one in force |
| `EventForm` | the fields of a type, the suggested price, the ticker | what is sent is of its type, and its ticker was agreed to |
| `ImportAnswers`, `FileImport`, `ProposalImport`, `ImportPreview` | the answers of a reader; the two hooks; the window over both | the button sends what the server accepted of what is on screen; every import says so |
| `ShareFigures`, `SharesPage` | the lines, groups, totals and slices; then the page and the sheet | the figures on screen are of one another; selected days are of the security shown |
| `DashboardLayout`, `DashboardGrid` | the normalised layout and its rows; then the edit session | every card once, in filled rows or, under a drag, at the spans it began with; a save writes the layout on screen |

`MCDataScreens`, `MCWebScreens` and `MCAccountScreens` instantiate them for
TLC: a behaviour chooses one surface at the start, which moves while the others
stand still, so one run explores 14, 20 or 5 instances without their product.
Each property of these modules gathers the properties of the instances. Several
instances of one module share what it has to be looked at for, where all of it
at once is too many states: the ledger of two rows under reductions (`reducing`)
and under removals (`removing`), of one row under the date fields (`bounding`) and
under the form with a removal (`composing`); the form over a suggested price
(`pricing`), over a ticker (`naming`) and over a fee (`charging`); the import window
over one of two files (`importing`), over the two at once, of which one is dropped
(`dropping`), over a file sent twice (`repeating`), over a proposal (`proposing`) and
from one proposal to another (`leaving`); a conversation of two turns (`chatting`,
and `giving` with statements), under two reads (`reopening`) and under a deletion
(`forgetting`); the fact under a card's decision (`fact`), under a decision and a save
(`confirming`) and under two saves (`chips`); the references over two ETFs downloaded,
kept or queued (`following`), and two switches under a lost answer and a late read
(`switching`); the grid under menus and saves (`arranging`), under a read of the
layout (`rereading`) and under a drag across widths (`dragging`); the connection
with its other rows (`connecting`) and, for three edits, without (`testing`). A
reader may stop, and the bounds end every behaviour: these runs do not look for
deadlocks.

`scrape_rotation` has the project's one state constraint, `LastWriteAlone`: the
second move of the ledger is explored with no crash before it and with no change of
the cadence under way with it or begun after it.

## Runs

| Run | What it shows | Bounds |
|---|---|---|
| `jobhistory_safety` | memory is always recoverable from store, batch and buffer; forgotten stays forgotten; implements `DurableHistory` | 1 symbol, a window of 2 hours out of 3, RECENT 2, 3 passes, 2 armings, which are a symmetry set |
| `jobhistory_keys` | types; passes kept in full under one cap for two keys; what is counted gets stored | 1 symbol and 1 job, 2 hours, RECENT 1, 2 passes, no arming |
| `scrape_rotation` | types; a paused symbol stays out; the only ways a held symbol leaves the rotation; a sale leaves none of the symbol's passes behind | 1 symbol, 1 request thread, the day, the boot, fetches, reads and armings that fail; 2 moves of the ledger, 1 crash and the changes of the cadence, but for those of `LastWriteAlone` |
| `scrape_liveness` | a held symbol is scraped for ever, a departed one leaves for good | 1 symbol, 1 move, the changes of the cadence, replays and armings that raise, fetches that answer |
| `perf_exact` | a skipped pass leaves an exact series, the kept closes are exact, an answered write is shown; the series ends exact | 2 symbols, which start in one order of their closes, 1 request thread, 2 writes, 1 failure, 1 midnight |
| `data_screens` | the ledger page, the form, the import window, the shares page | 14 surfaces, above |
| `web_screens` | the agent, the dashboard grid, the session, the settings | 20 surfaces, above |
| `account_screens` | the accounts page, its panel, the taxation models | 5 surfaces, above |
| `scrape_counter` | a failure count survives a sale, a test says it does not | violation |
| `import_closed` | a forecast stands over a button that sends other files, a comment says it never does | violation |
| `form_price` | a suggested close is sent as the price of a purchase, a comment says it cannot | violation |
| `thread_failure` | a thread read back whole is said to have failed, a comment says otherwise | violation |

Why the bounds are enough.

* Keys of the history interact through the cap of `undrain` only: one key
  explores the batches, a symbol and a job the cap. A window of two hours out of
  three is the smallest from which a slot can leave. RECENT 1 makes every second
  pass cut one; RECENT 2 lets a batch put back bring a pass back beside a newer
  one. Two armings tell an old one put back from a new one; nothing tells one value
  from the other, and a safety run may take them as a symmetry set. They do not
  meet the passes, and `jobhistory_keys` has none.
* Symbols of the scrape meet in the loops of a reconciliation only, each
  iteration about one symbol: the races are explored on one, and
  `ScrapeRotationProofs` holds for any number. Two moves of the ledger are a
  sale and a buy-back; `SoldIsForgotten` and `HeldStaysIn` prove the third, any
  number, and both moves with a crash between or a change of the cadence around
  them, which `LastWriteAlone` leaves to them. A fetch that fails moves the
  failure count and takes the way of one that answers otherwise: the run that
  checks liveness leaves it to `scrape_rotation`.
* The performance runs start on day 1, with a day behind today, and see one
  midnight: the day after is what an older cut of the closes needs. Two writes
  move an input before, during or after a pass; the second symbol is what can be
  new while the other has a series. Nothing tells one symbol from the other:
  `MCPerformancePass` starts from one of the two orders of their first closes (a
  symmetry set is not for a run with a liveness property).
* A screen has as many requests as it takes for two answers to cross, with a
  third actor: two asks and a fault, or two reads and a fault, for a conversation;
  three proposals for a card, its successor and the next; two writes of a fact (the
  answer of one lands over what the other stored); two writes of the references, a
  late read and a lost answer; two sends and a move of
  another browser for a session; three gestures for a dial (one in flight, one
  queued, one that replaces it); two tests and one other row for the connection;
  two writes of a proposal, two files, two accounts, two models.
* The readings of files in flight are `MaxFlights`. With 1, in `data_screens`, no
  reading is asked while an older one is unanswered; with 2, in `import_closed`,
  a closed window's reading crosses the next one, and `ForecastIsOfHeld` falls.

`MaxHour`, `MaxPasses`, `MaxWrites`, `MaxRestarts`, `MaxFailures`, `MaxDay` on the
server, and on the screens the constants named `Max...`, each in the guard of the
actions it caps, are the only bounds with `LastWriteAlone`. The constants of each
screen are in the `INSTANCE` that makes it, in the MC modules.

Fairness. `JobHistory!FairSpec`: the interval flush keeps firing while the
process is up; the shutdown's flush takes the lock, which at most one interval
flush holds ahead of it (strong, for the lock is taken and left meanwhile); a
transaction ends; the store does not refuse for ever (strong fairness of the
commit); a stopped process is started again by its supervisor.
`ScrapeRotation!FairSpec`: midnight comes every day (`DayTurn`), threads run to
their end, the scheduler fires what it holds; the replay of the day turn and
its arming do not raise for ever (strong). Weak fairness of `Fire` also says
that nobody changes the cadence for ever before each due time, since a change
postpones the entries it re-arms. That passes end rests on the time limits of
the fetch.
`PerformancePass!FairSpec`: the tick fires for ever and a pass that runs ends.
Requests need no fairness. Writes and failures are bounded, so that the property
speaks of what follows the last of them.
The screens are checked for safety: whether a reader comes back is nobody's
promise.

## Findings

Four runs end on a counterexample, each against a line of the repository:

* `scrape_counter`: a sale while the symbol's pass runs. `reconcile_jobs` pops
  the failure counts of the symbols that have an entry, and a running pass has
  none; if the pass then raises before its decision, the count outlives the sale
  and a later buy-back resumes the old back-off. `test_scheduling_wiring.py:266`
  says a failure count does not survive the removal of its symbol.
* `import_closed`: nothing refuses to close the import window
  (`ImportPreview.tsx:295`); `discard` resets the reading under way without
  stopping it, so when it lands after the reading of the files handed over next,
  its `onSuccess` (`UploadZone.tsx:321`) shows the first forecast over a button
  that sends the second files. `UploadZone.tsx:382-384` says the forecast never
  describes files other than the ones the button would send.
* `form_price`: a grant corrected to a purchase keeps the close suggested for
  it, and sends it as the unit price although nobody typed it and no line says
  any longer where it came from. `EventForm.tsx:334-335` says no close can stand
  in for what left the account.
* `thread_failure`: a statement reads the thread again, and `reloadThread` does
  not set `failedOnReload`: the page goes on saying that the answer failed, and
  offers to ask again, under a turn just written whole.
  `agentChatProvider.tsx:42` says the flag is of the thread on screen as read.

Others were met while modelling. The models behave so; no run is spent on them.

* Scrape. Sold and bought back by two requests, a symbol may stay out of the
  rotation until the next ingestion (`scrape.py:269`; a test at
  `test_scheduling_wiring.py:876` says a buy-back re-arms at once). Sold, bought
  back and sold again while its pass ends, it keeps the passes of that time in
  the history (`base.py:157-163`); so does one whose `members()` raises. The
  property sets both apart with `unarmed`.
* Settings. A save takes effect outside the writing lock (`main.py:126`): two tabs
  may store a dial in one order and arm the jobs in the other.
* Agent. A failed turn is dropped from the screen with the next question, but
  from the file only if its failure was written (`AgentChat.tsx:442` says
  whatever is asked next; `FailedIsDropped` states it). Stopping before the
  first word leaves a question on screen that the model is not given. The
  re-read of a statement has no sequence number: it may take the screen from a
  thread opened since, and cut its stream. A deletion that lands after the
  reader left pulls them to `/agent`. A model test that passes late, after the
  provider was changed back, is adopted by the sheet (`AgentProviderSheet.tsx:13-16`).
  Rows and test write the whole answer in the `agent-config` cache, so an older
  answer that lands late puts another row's older value back.
* Event form. A write that outlives its sheet acts on whatever row is open:
  its success closes it, its refusal marks it (`EventForm.tsx:256-287`, against
  the comment at 289-296). A suggested close that arrives after its question
  is gone fills the field (349-355). The row's removal dialog does not reset on
  opening.
* Ledger. With two removals of rows in flight, the late success of one closes
  the box of the other without the reset, so the refusal it showed stays for the
  next row (`RowDelete.tsx:53-55`, against the comment at 74-76).
* Import. Closing the window over a write leaves the import without its sentence.
  A proposal left during a reading and opened again may be shown by the older
  reading: `latest.current` tells proposals apart, not readings. A refused
  reading of a proposal that was left closes the window of the one on screen.
* Accounts. The palette opens the declaration before the accounts are read, so
  the offer box is absent (`accounts.ts:765-768`, `AccountForm.tsx:109-114`). A
  model written or refused late sets the model, or the message, of whichever
  panel is open (`AccountForm.tsx:192-196`); so do late successes shut it. A
  removal that lands undoes a model chosen meanwhile (`TaxationModelField.tsx:61-65`).
  A standing link to an offer may name an account no longer listed.
* Taxation models. An import that replaces the model of the open sheet leaves
  the old draft, and Save undoes the replacement. A write whose answer is lost
  is sent again and makes the model twice. A late success shuts another sheet
  and a late removal another dialog.
* Dashboard. An edit made in a menu under a save is dropped when the save ends
  the session (`DashboardGrid.tsx:264`). A refetch in flight when a save lands
  puts the older layout back until the next one. Moving a full card out from
  between a lone half and a pair regroups the pair.
* Shares. The lens stays pressed when the counters that release it leave
  (`SharesPage.tsx:190-191`); groups stay in force when their button is not
  drawn. A total may miss for two reasons on two rows.
* Session. Unlocking at boot keeps the `null` lifetime and token date of the
  status read before it, which Settings then draws as defaults
  (`AuthBoot.tsx:81-84`, `SecuritySection.tsx:65-66`). A read sent before a
  sign-in whose refusal lands after it asks for the code again. Two regenerations
  that cross may show a token no longer in force. A lifetime saved as the session
  ends is stored though answered 401. A cookie renewed for an older read
  overwrites the fresh one; a status read in flight at a logout, or across a
  lifetime's save, shows what it read.
* Theme. A reset or an import whose dialog was closed lands under an open form
  (`ThemeBlock.tsx:7-8` says it cannot). A dialog typed in or closed during its
  write sends another. An apply whose form was closed takes off the preview of a
  form opened since. Writes that cross may leave an older theme shown.
* References. `ReferencesSheet.tsx:4-7` says that every switch is disabled while
  one is saved, so that the list sent is built from the latest answer. Closing
  the sheet forgets the save it waits for (102-110), as leaving the page does: the
  switch of the sheet opened next sends a list without it, and turns it back. So
  does a switch after a save that was stored and its answer lost, for a failure
  does not read the list again (69-79), and after a read of the configuration
  asked before the save, which lands over its answer. `ToggleMovesOne` sets the three
  apart with `behind`, from there until a list read or answered is the one followed.
* Facts. A save takes the answer it is given and asks no read: one stored with
  its answer lost leaves the chip on the older value until the next read of the
  profile (`AgentProfile.tsx:399-405`), an answer that lands after a later
  one's puts the older value back, and the confirmation of a card during the first
  read of the profile does not ask it again. `ChipIsTheFact` sets these apart with
  `unheard` and `newest`. A save answered closes the editor opened since (316-319).

## Proofs

Eight modules hold them. Each theorem is proved for every value of the
constants, from the named assumptions of the modules that declare these
(`SLOTS` and `RECENT` positive, symbols apart from jobs, `NoArming` not an
arming, natural bounds; days naturals, `Nobody` not a thread), and from the
hypotheses its own statement lists. `THEOREM Spec => []Inv` goes by an inductive
strengthening of `Inv`, which is where the argument lies.

| Theorem | States | Inductive invariant, and why it is needed |
|---|---|---|
| `TypeCorrect` | `JobHistory!TypeOK` | itself |
| `ArmingsSurvive`, `SlotsSurvive` | the store, the batch under way and the buffer give the memory back | `FlushInv`: one flush between its drain and its end (`OneFlush`, the work of the lock), a batch holds slots of the hours it lists (`BatchSound`), no slot without a track (`TracksHold`). `CommitFlush` needs the order of the transaction, `FailFlush` that the process lives |
| `ForgettingHolds` | a forgotten pass never comes back | `FreshInv`: where an old pass may still be, only in a batch or in rows whose symbol is in `gone` |
| `PassesSurvive` | a pass kept in full is stored, on its way, or RECENT later ones exist | `PassesInv`: ranks tell passes apart (`RanksInv`), what is counted is finite, and what a cap leaves is the newest (`KeptInv`); it counts, so it rests on cardinalities of finite sets |
| `Refines` | `JobHistory` implements `DurableHistory` | `Record`, `Schedule`, `Drop` are `Change`, `StartFlush` is `Take`, `CommitFlush` `Persist`, `FailFlush` `Refuse`, `Tick` `Age`; that `Take` takes what the process knows is `SlotsRecoverable` and `ArmingRecoverable` |
| `RotationTyped` | `ScrapeRotation!TypeOK` | itself |
| `PausedOut` | a symbol found paused has no entry and no pass | `PausedInv`: no thread is between reading its stored arming and using it up |
| `HeldStaysIn` | the only ways a held symbol is out of the rotation | `RotationInv`: an ingestion that has still to look at it `Covers` it, whatever it read before |
| `SoldIsForgotten` | a sale leaves no pass behind | itself, with the types |
| `PerformanceTyped` | `PerformancePass!TypeOK` | `TypedInv`: also what a pass holds at each of its steps (`PassShape`) |
| `WritesServed` | an answered write is shown | `ServedInv`: what each pass under way read is at least what was answered before it began |
| `CacheExact` | kept closes are the store's while their fingerprint is | `ClosesInv`: writes only grow, so two readings between which the fingerprint came back are equal |
| `SkipExact` | a skipped pass leaves the series exact | `ExactInv`: prices are dated (`PriceDated`), and what a full rebuild, a resumed one and the memory of the last hold (`RebuildInv`, `ResumeInv`, `MemoryInv`) |
| `SessionsAreOfTheCode` | `SessionIsOfTheCode`, `SignedOutStaysOut` | `SessionInv`: identifiers made are numbered (`GateInv`), a cookie of the secret in force has its code (`CookieInv`), and the state captured when a request came in may be old, but then its secret is not in force (`CapturedInv`) |
| `WholeTurnsStay`, `ForgottenIsGone` | a whole turn stays in its file; a deleted thread does not come back | `FilesInv`: while a turn is in flight its file is the history the model was given and the question, for nothing else writes it |
| `LandsAsAsked` | `LandedIsAsked` | `PageInv`: one read at most is awaited, it is of the thread being opened, and that thread does not stream |
| `StreamsAreLeftAlone`, `QuestionsAreHandedBack` | `StreamIsLeftAlone`, `QuestionIsHandedBack` | `PagesInv`: also, every thread named anywhere has an id under `fresh` (`UsedInv`), so that an empty thread is never the one on screen |
| `FailuresAreOwn` | `FailureIsOfItsThread`, where no statement is given | `OwnFailureInv`: every read in flight opens a thread, so what it shows comes with what it failed of |
| `StoredIsTested` | `StoredWasTested`, `EnabledCanRun` | `StoredInv`: what is stored passed `check` and its key was typed for its place (`RowInv`); a test at the provider uses a key typed in its form or for that place (`TestsInv`) |
| `SavablesAreStored` | `SavableIsStored` | `ScreenInv`: forms and edits are numbered, so that a test is of what is on screen exactly when both numbers are, and what it keeps is then the place on screen |
| `RowsAreTheServers`, `SavedIsTheLast` | a row at rest is the server's; what is said saved is the last value sent, in force | `DialsInv`: per dial, the save in flight is of the value being sent and the value last asked for is it or waits behind it (`RunInv`), the jobs run with what is stored but between a write and its effect (`EffectInv`), and until a save moves the store what was read is the server's, then its last answer is (`ReadInv`, as long as none was lost) |
| `FollowedIsNeverPurged`, `ChoiceIsFollowed` | a followed series is spared; the choice is followed | `Spared`: what is followed is among what is kept, and the choice among what is followed; one transaction writes all three, so no answer on its way matters |
| `AppliesPaintTheFields`, `PreviewsAreTheCandidate`, `PreviewsGoWithTheirForm` | what the form proposes is painted as its fields show, and leaves with its form | `ThemeInv`: a baseline is a valid theme, and a preview on the page is what the open form proposes (`FormInv`); the writes are numbered, and the one a form waits for is an apply (`NumbersInv`, `WritingInv`); what was read is valid (`PageInv`) |
| `TicksAreByHand`, `BulksTakeTheTicked` | `NewRowUnticked`, and a removal of several rows takes rows seen ticked | `KeysInv`: a key names one row of the store and of every reading (`StoreInv`, `SeenInv`), a tick was made by hand on that row (`TickInv`), a removal in flight carries keys so ticked (`FlightsInv`) |
| `ReloadsAreOfTheTable` | `AddressIsTable` | itself |
| `GesturesAreSpentOnce` | `FormOpensOnce` | `ArmingInv`: a gesture still armed, in the address or in the state, is one asked for and not yet opened |
| `ButtonsAreJudged`, `ForecastsAreOfTheFiles` | `ButtonIsJudged`, `ForecastIsOfHeld` | `JudgedInv`: a reading in flight is of the files held under the answer the hook keeps, and once it is answered what may be written is what was judged (`FilesInv`); the same of a proposal, its edits and what was answered on it (`ReviewInv`) |
| `ScreensAreSent` | `ScreenIsSent` | `ScreenInv`: an answer is on screen from the first forecast of a batch to its end, and the hook was told it as it is on screen; `NamesInv`: what stands names the accounts of the files in hand, so that a line answered once stays a line |
| `ImportsAreSaid` | `EveryImportSays` | `SayInv`: receipts written and dismissed are numbered by earlier imports, and a write still listened to is the only one, with no reading to speak over it |
| `ReadingsAreOfTheirProposal` | `ReadingIsOfItsProposal` | `ReadingInv`: a reading in flight of the proposal in the address carries its id, and what stands carries it too |
| `SendsTheFieldsOfItsType`, `SendsWhatIsAgreed`, `SaysTheCashItBooks` | `SentIsOfItsType`, `FreeTickerIsConfirmed`, `CashIsBooked` | only a submission sends, on the fields it found nothing on (`Checked`); `FormInv`: a request keeps its shape, the titles are the ledger's, and a ticker is never absent, whatever offered, picked or loaded it |
| `KeepsTheTypedPrice` | `TypedPriceIsKept` | `PriceInv`: what the suggestion last put in the price is no typed figure, nor is any close answered, and the question of the fields has been asked, so that no keystroke in the price asks another |
| `NothingEverDangles` | `NothingDangles` | `StoreInv`: also the seeded account stays, an account's facts are whole, a count of events is of a stored account |
| `RefusalsAreOfTheirPanel` | `RefusalIsOfItsPanel` | `OwnInv`: a request still followed was asked from the panel that is open, over `FlightsInv`, the shape of a request followed to its answer |
| `RenamesKeep` | `RenameKeeps` | `LeftInv`: while the reader left the model alone, no editor is open and none of the panel's requests can move it; `RenameInv` carries this to the writes sent |
| `DeclarationsClaim` | `ClaimsUnassigned` | `FormInv` (the box of a declaration is ticked unless its reader moved it), `NamedInv`, and `ClaimInv`: a declaration sent on what the server holds takes the events, or there are none, until the store moves |
| `NeverTwice` | `NoModelTwice` | `BudgetInv`: a model asked for is a draft, then a request, then a model, and is counted as one of them; that a correction is of a model the panel holds (`EditorInv`), and ids are numbers (`NumberedInv`) |
| `AddressIsOfTheAccount` | `AddressNamesShown` | `AddressInv`, on one lemma: the address rewritten for the account chosen among the answers is of the account chosen among the rows built from them |
| `SelectionsAreOfTheSheet` | `SelectionIsOfTheSheet` | itself: each step that may move the sheet lets the days go when it does |
| `CardsAgree` | `CardAgrees`, for every kind but the ladder | none: of the operators, from what `validates` lets through (`FlatIsWhole`, `AgedIsWhole`); the amount is one rate of the gain (`OneRateOfTheGain`), and the rate turns on the day said (`DayAgrees`) |
| `FormGivesBack` | `FormKeeps` | none: of the operators; what is assembled has the names and the values that were taken apart, the last rung had no ceiling already (`LadderKept`), and no value is blank (`ValuesAreThere`) |
| `StoredModelsAreAccepted` | `StoredIsAccepted` | itself: every write is checked as it is made, whatever is typed or imported, and a removal looks at what is carried in the same transaction |
| `SavesAreOfTheDrawn` | `SavedIsDrawn` | `SaveInv`: a save in flight is of the draft, or of the default that forgets it, until the draft is edited (`touched`) |
| `SuccessorsAreOne` | `OneSuccessor` | `MadeInv`: the proposals made are the first ones, and what gave way to another is no longer undecided |
| `DecidedStaysDecided` | `DecidedHasNoButtons` | `CardInv`: what is decided is final at the server; `SuccessorInv` and `DrawnInv`: when a decision is answered the reads under way are asked again, but the one of a turn still streaming, which `crossed` sets apart |
| `ChipsAreTheFacts` | `ChipIsTheFact` | `ChipInv`: the last write is one the page reads after, in a request, a read or a decision still on its way, or one it has drawn, or one it never hears of (`Heard`); writes are numbered, so that what is newest is the fact |

The theorems on conversations say what they assume of the constants: that
`None` is not a value of another kind (`NoneIsApart`), that ids are numbers and
the stored threads the first of them (`NumbersAreIds`). The run `web_screens`
checks these properties, and those of `Session` and of `AgentSettings`, on its
instances, gathered under `FileIsKept`, `ScreenIsAsked`, `QuestionIsCarried`,
`SessionsHold` and `SettingsAreStored`. `FailuresAreOwn` asks that no statement be
given: given one, what it says is false, and `thread_failure` shows the way there.

Those on the cards assume that there is a proposal at least, and that `None` and
`Failed` are no proposal, status, answer or request (`CardsAreApart`);
`web_screens` checks their properties under `CardIsTheServers`.

Those on the connection assume that the rows beside the sheet write none of the
place and of the key (`RowsAreApart`), and that `None` is no key, provider or
request (`NoneIsApart`, `CandidatesAreApart`). Those on the accounts assume that
the seeded account is stored at first with what it carries (`SeedIsStored`),
that `None`, the answers and the panels are not one another (`NamesAreApart`),
and that the first models are a sequence whose ids `None` and `Declined` are not
(`NumbersAreApart`). `AddressIsOfTheAccount` assumes that an answer is a sequence of
accounts, each with its id, and that `None` names no answer (`PayloadsAreRows`);
`SelectionsAreOfTheSheet` assumes nothing. Those on the taxation models assume that
days, gains and the bounds are whole and that `None` is none of them
(`RatesAreWhole`), that the models stored at first are accepted, and for
`FormGivesBack` that a model is a record of its kind (`IsModel`). The run `account_screens` checks their properties under
`AccountsHold` and `AccountWritesKeep`, on instances that satisfy all of these.

Those on the other settings assume that `None` is no text, row or request of a
dial, and is not its blank (`TextsAreApart`), and no number of a write of a theme
(`NoneIsNoId`). `SavesAreOfTheDrawn` assumes that `None` is no layout
(`NoneIsNoLayout`), and takes from the run what a recursive selection hides from
the provers: a layout being arranged is drawn as it is (`DraftIsKept`, a conjunct
of `CardsAreDrawnOnce` in `web_screens`). Those on the data page assume that a freed key is not given again
before the page reads the ledger (`KeysRest`), that `None` is neither of the
places a gesture waits in (`NoneIsNoArming`) and no receipt (`NoneIsNoReceipt`).

`ButtonsAreJudged`, `ForecastsAreOfTheFiles` and `ScreensAreSent` are about a reader
who opens the window in turn: files are handed over when no reading of files is on its way, a
review is opened when no reading of a proposal is (`InTurn`). The code does not
make a reader wait, and `import_closed` shows what happens to one who does not.
`data_screens` checks them on instances where no second reading of files is asked
while one is on its way (`MaxFlights` is 1). `ScreensAreSent` assumes also that the
accounts a census names do not depend on the answer given (`CensusNames`): the
server reads them off the rows before it applies any (`_run_import`). Of a
proposal no account is sent, so it says nothing of theirs.

Those on the form of an event assume that no ticker is absent, typed, titled or
quoted by Yahoo, and that `None` is none of the errors a field may carry
(`FormIsApart`). `KeepsTheTypedPrice` assumes also that no close is the figure
typed (`PricesAreTyped`): typed to the cent as the suggestion put it, a price is
the suggestion's in the code too (`EventForm.tsx:366-378`).

`data_screens` gathers the properties of the ledger, of the window and of the
form under `RemovalIsOfTheSeen`, `PageIsAsAsked`, `ButtonIsJudged` and
`SentIsAsSaid`, and `web_screens` those of the dials, references and theme under
`SettingsAreStored`.

The proofs on the data page changed four things in their models. The guards
that kept a reader from closing the import window during a reading were not the
code's: without them the forecast is not of the files held, which is the finding
above. A removal of several rows is stated as an action property, of the rows it
takes. What stands of a proposal is set against the proposal in the address. And
`ScreenIsSent` speaks of accounts over files only, for none is sent with a proposal.

The proofs on the panel corrected its model in three places that the bounds of
the run did not reach: removing a model from the panel is a move of its reader,
as choosing one is; the id of a model is given once (`uuid4`), where the model
gave a removed one again; and a removal in flight clears the model of the panel
only if that model has not changed by itself since (`LetGo`,
`TaxationModelField.tsx:61-71`).

Only model-checked:

* liveness (`EventuallyStored`, `HeldIsScraped`, `DepartedLeaves`,
  `EventuallyExact`): fairness and `ENABLED` are out of the provers' reach;
* `GivenIsDrawn`, which compares two sequences filtered by a recursive
  selection, and the figures, rules and layouts of the screens, which fold over
  data: induction over data is out of reach too;
* `QueueWaitsForOne` and `ToggleMovesOne` of `References`, which filter a
  sequence (`SelectSeq`, opaque to the provers);
* `NameIsOfItsTicker` of `EventForm`, which bounds what a reader searches by what
  is typed in the run, where a ticker picked or loaded may be searched too;
* the tax of a ladder and the figures of `AccountsPage` and `SharesPage`, which
  are folds, and of `DashboardGrid` the rows and their moves (`RowsMoveWhole`).

## Plan

1. In proofs: the rows of the dashboard, the ladder of a tax.
2. `Ledger`: the writing lock, replay, snapshot and cache key, the purge of
   orphans in two transactions. Abstract specification: a reader sees a snapshot
   of one committed state, never an older one than the previous.
3. `Backfill`: anchors and windows of a symbol against imports that move them,
   with the memo of the quotes and its generation.
4. `Store` (read views and closing), the ladder of the quotes against a
   reference definition, `Uploads`, the migrations.
5. In what is modelled: several accounts, purchases after the first day and
   erasures in `PerformancePass`.

## Not modelled

* Of the server: the ledger writes and `ConfigurationManager`, the backfill,
  the quotes with their memo and ladder, the store's views, the uploads, the
  migrations and the aggregation, planned above. The counterfactual series, the
  simulation, exchange rates and the rhythm are arithmetic without a state. The
  runtime view, the advisories, the market client, the routes, the MCP server
  and the update check word or carry what the modelled parts decide.
* Of the client: the cards and charts of the dashboard, the palette, the first
  run, wording, focus and announcements.
* Within what is modelled: the throttle is a bounded number of refusals; the
  access token of `/mcp` and `/api`, the purge of the revoked identifiers and a
  reload of the page are left out; account ids are addressable; the facts are
  written by this page alone, and the followed list by its sheet alone (the rows of
  the other settings, which answer the whole list, and other tabs are left out); a
  failed read of the references keeps what was read, its sentence left out; a failure that
  unmounts the account panel with its page, and the rebased curves of several
  accounts, are left out; the tests of a connection reach the server in the
  order they were sent.

`PROJECT.json` gives the reason for each part.
