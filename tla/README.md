# TrustPay in TLA+

TrustPay holds a client's money against the milestones of a project and pays it
to a receiver when work is approved. This directory specifies the parts of it in
which money, statuses and sessions can go wrong: TLA+ modules written from the
code under `src/backend/app`, configurations that model-check them with TLC, and
theorems that TLAPS proves about the ledger, account opening, escrow, payments, payout
destinations, sign-in and sessions, one-time codes, invitations and advice.

## 1. The system

The backend is a FastAPI application over PostgreSQL at READ COMMITTED. A request
is served by one SQLAlchemy session, without autoflush, whose work is committed
by the service that owns the operation and rolled back when the handler raises
(`database/session.py`, `dependencies/database.py`). `def` endpoints run in a
thread pool, so any two of them interleave statement by statement; `async def`
endpoints (payments) run on the event loop and interleave only where they await
the payment provider. One server process is configured, and a deployment overlaps
two. The mobile application talks to this API, or to a copy of it that runs on
the device over a stored database.

| part | state | operations | talks to |
|---|---|---|---|
| ledger | accounts with a cached balance, transactions, postings | `post`, `reverse`, `get_or_create_account`, `reconcile` | PostgreSQL row locks and unique indexes |
| wallet | a user's three ledger accounts | `top_up`, `withdraw`, `create_wallet_for_user` | ledger |
| projects, invitations | status, receiver, member rows, the address invited | create, invite, accept, decline, claim by registering, `refresh_project_completion` | milestones, users |
| milestones | status, funding and release transaction, revisions | `transition`, `get_milestone_for_update` | - |
| escrow | - | fund, start, submit, request changes, approve and release | milestones, ledger, projects |
| cancellation | requests, one-time codes with their attempts | request, verify, decline, resend | milestones, ledger, projects |
| disputes | disputes, statements | raise, add a message, resolve in four ways | milestones, ledger, projects |
| payments | intents, payouts | start and confirm a top-up, request, reverse and settle a payout, webhooks | wallet, provider |
| payout destinations | bank accounts, UPI ids, the default of each | add with verification of the owner's name, list | provider, users |
| auth, users, admin | the user's row, refresh tokens | sign in, refresh, log out, register, change password and address, suspend, reinstate | invitations |
| audit, notifications | append-only rows | record, create, mark read | inside the caller's transaction |
| AI | scores, reviews and briefs; two globals of the process, the language model's client and the score's model | review, brief, answer, score, explain | a language model; reads everything, moves nothing |
| mobile engine | an in-memory database saved as a whole | the API again, single-threaded | device storage |
| mobile client and screens | stores, caches | HTTP with a fresh idempotency key per mutation | API or engine |

What is hard in it:

- *Interleaving.* Two postings on one account; two sessions that settle one
  milestone or close one project; two refreshes of one token. The code answers
  with `SELECT ... FOR UPDATE` and `populate_existing`, and with locks in id
  order. Not every check is repeated once the lock is held.
- *Atomicity.* Checks read before a lock are stale behind it; SQLAlchemy writes a
  column only if it differs from the value that was *loaded*, so a stale read also
  decides what is written. Invitations lock nothing at all, and codes only some of
  what they decide on.
- *Retries.* Requests carry idempotency keys, and the provider repeats webhooks.
- *Crashes.* `wallet.top_up()` and `wallet.withdraw()` commit by themselves, in the
  middle of the payment handlers that call them.
- *Unreliable answers.* A payout whose answer is lost may still have been made; a
  language model may fail, refuse or return something unusable, also of a shape that
  nobody foresaw.
- *Rounding.* An order to the provider and the amount that is stored are rounded by
  different rules from what the user asked for.
- *Globals made on first use.* The language model's client and the score's model are
  made by whichever thread needs them first, while others look.
- *Deadlocks.* Confirming a cancellation locks code, then milestone; declining it
  locks milestone, then code; sending one again locks codes as it writes them.
  Revocations lock many token rows in no fixed order.

What makes each part correct, in one line: the **ledger** balances, loses no
update, never overdraws a user, and posts a key once; **escrow** keeps a
milestone's money whole between one funding and one payout, and statuses tell
where it is; a **cancellation** is confirmed by a code of its own, guessed at no more
often than allowed, a confirmation is final, and what undoes a decline, a resolution or
a **dispute**'s freeze is known; **invitations** have one addressee and make nobody a
receiver who was not invited; **payments** credit what was paid, once, debit before they
pay, and refund what failed, once; **destinations** are paid only when the provider's
answer bears a name of the user's, within the day's limit; **sessions** rotate a token
once, count every wrong password, and check what they grant; **advice** or an error
always comes, and a newcomer's score stays in the middle bands.

## 2. Modules

| module | models | checked by |
|---|---|---|
| `Books` | account kinds, normal balances, the entries callers post, and what applying one does (`ledger/constants.py`, the builders of `wallet`, `escrow`, `cancellation`, `disputes`) | used by the ledger and escrow modules |
| `BooksProofs` | what postings are and add up to; the movements are balanced | TLAPS |
| `LedgerPromise` | *abstract*: an entry is recorded and applied in one step | refined by `Ledger` |
| `Ledger` | `post()` and `reverse()` as sessions run them: lookup, row locks one by one, insert under the unique index, commit | `MC_Ledger` |
| `LedgerProofs` | the inductive invariants of `Ledger` and `AccountOpening` and their theorems | TLAPS |
| `AccountOpening` | `get_or_create_account()` with its savepoint | `MC_AccountOpening` |
| `Custody` | *abstract*: where a milestone's money is, with no handlers and no statuses | refined by `Escrow` |
| `Escrow` | milestones, disputes and cancellations of one accepted project, with the codes of each cancellation, as thirteen handlers that move a milestone, `add_message` and `resend_code` run them | `MC_Escrow*` |
| `EscrowProofs` | its inductive invariant and theorems, the refinement of `Custody` | TLAPS |
| `Payments` | top-ups and payouts against the provider, the rounding of orders, webhooks, frozen wallets, crashes | `MC_Payments*` |
| `PaymentsProofs` | the inductive invariants of `Payments` and `Destinations` and their theorems | TLAPS |
| `Sessions` | sign-in, lockout, token rotation, reuse and revocation for one user | `MC_Sessions` |
| `SessionsProofs` | its inductive invariant and theorems | TLAPS |
| `Invitations` | creating a project, inviting, registering, changing addresses and answering, none of which locks a row | `MC_Invitations` |
| `InvitationsProofs` | its inductive invariant and theorems | TLAPS |
| `Codes` | the one-time codes of a milestone's cancellations: sending, resending, guessing, expiry, declining | `MC_Codes` |
| `CodesProofs` | its inductive invariant and theorems | TLAPS |
| `Destinations` | bank accounts and UPI ids, the name the provider answers with or what stands in for it, the comparison of names, the default, and payouts to them within the daily limit, as coroutines of event loops | `MC_Destinations` |
| `Assistance` | the language model's client, the outcomes of its calls and the fallback, the score's model, its blend for thin evidence, the record of scores | `MC_Assistance` |
| `AssistanceProofs` | its inductive invariant and theorems | TLAPS |

`Escrow` takes a posting as one step. `Ledger` is what justifies it: the theorem
`LedgerKeepsPromise` says that whatever its sessions do is a behaviour of
`LedgerPromise`. `Payments` takes `wallet.top_up()` and `wallet.withdraw()` as one
step each for the same reason, and `Destinations` a payout's debit. `Codes` and
`Escrow` describe the same handlers of a cancellation from two sides: `Escrow` has
which codes of a request were sent, loaded and are still active, takes every answer to
be a right one, and follows the money; `Codes` takes the money as one commit and follows
answers, attempts and expiry.

Two modules of proofs are about two modules each, which they extend together. That is
why `AccountOpening` and `Destinations` name what every specification has after
themselves: `OpeningInit`, `OpeningNext`, `OpeningSpec`, `OpeningTypeOK`, and
`DestinationsInit`, `DestinationsNext`, `DestinationsSpec`, `DestinationsTypeOK`.

### How the modules correspond to the code

**Ledger.** `balance`, `posted` and `txns` are the committed tables; `view` is a
session's identity map, which `populate_existing` refreshes row by row
(`LockAccount`); `lock` is who holds an account's row. A step is one statement whose
result another session could change. `Proceeds`, `Replays` and `Fails` are the
unlocked prologue of `post()`, `Refuse` its overdraft guard, `LoseKeyRace` the
handler of its `IntegrityError`.

**AccountOpening.** `rows` counts the committed rows per account, `pending` what a
session has inserted and not committed. The unique index compares owners, and
PostgreSQL holds the NULL owner of the platform's accounts distinct from itself.

**Escrow.** A handler is `Ask...` (what it reads and checks before any lock), `Lock`
(the milestone's row, with the checks made again under it;
`FindCode` and `LockCode` come before it for a confirmation), for those that move
money a posting (`SettleNew`, `SettleReplayed`, `CannotSettle`), and a commit. `seen`
is the project status a session has loaded, `Written` the rule that only a changed
attribute is written, `staged` what a session will write. A request has `sent` codes, of
which some are `active`; `loaded` holds those a session has loaded, which are the ones
that a decline or a resend stops, or the one it has locked. The four resolutions of a
dispute are operations of their own.

**Payments.** `job` says between which two commits a loop's coroutine stands;
`awaiting` which handlers are suspended on the provider; `mail` the webhooks that
have not been seen acknowledged, which stay deliverable, in any order; `Stored` and
`ToPaise` round what the user asked for to the amount of the row and to that of the
order; `frozen` is the wallet's freeze, which an administrator sets; `transfer`
and `reply` are what the provider did and what it answered, which differ when the
answer is lost. `Crash` takes a loop's job and its suspended handlers.

**Sessions.** `holder` is who has locked a row. A handler begins with what it reads
and locks and ends with its commit; an `UPDATE` over several tokens locks them one
by one, in any order (`LockRow`), and revokes those its snapshot contained. That a
token has expired only makes its refresh fail, which changes nothing, and is left
out.

**Invitations.** A handler reads (`Find...`, `InsertUser`) and then commits; what it
has read is in its session and is not read again. `seen` is the project as loaded and
`was` the member's status as loaded, and `Written` writes an attribute only if it
differs from them. What stops a commit is the unique indexes: `Unique` for member
rows, `AddressFree` for addresses, where an insertion waits for one that is not
committed yet. The milestones' statuses change with the project's and are a field of
its row here.

**Codes.** `holder` is who has locked a code's row or the milestone's. A
`SELECT ... FOR UPDATE` is two steps: `FindCode` is its snapshot, `LockCode` waits for
the rows of the snapshot and returns those that still qualify, as they are then. The
request's row is never locked, so a handler goes on with the status it read first.
`missed` counts the wrong answers given, apart from the column that counts them in
the code. A code is a number, and an answer is one of those sent or none. Time is the
age of a code, past its lifetime and past the send window; codes age in the order
they were sent. `FUNDED` stands for every status a cancellation can be requested from.

**Destinations.** A task is a coroutine: it leaves its event loop to others only where
it awaits the provider (`LoopFree`), and `LoopOf` says which loops there are. Names
are sequences of words; `TokensOf` drops those `_tokens()` drops, and `Matches` computes
the score of `match_names()` in quarters of a word. The provider's answer (`Learn`)
gives an owner: the registered name, or without one what the code reads instead, the
holder's name that the user sent or the user part of the UPI id (`Fallback`). `Verdict`
compares it with the profile's name as it was read before the bank was asked, and the
profile may be renamed meanwhile.

**Assistance.** A thread's job is where it stands between reads and writes of the
globals `client`, `checked`, `pipeline` and `means`; `wants` tells which of the looks
at the client it takes (is a model available, make the call, label the answer).
`Outcomes` are the ways a call ends. All but an answer become `LLMUnavailable`, except
for a `misshapen` one (`Raised`): no choices or content, or JSON of another shape than
the schema's. `BuildFails` is a client whose constructor raises. `Blend` is
`_apply_cold_start()` in integers, and `BandForScore` the table of bands.

## 3. What is checked

| run | states | shows |
|---|---|---|
| `MC_Ledger` | 52,915 | cached balances match postings, all debits equal all credits, no overdraft, a key posts once, statements add up, history is append-only, every request ends (so nobody waits for ever), and the sessions implement `LedgerPromise` |
| `MC_AccountOpening` | 39,189 | one row per owner and kind, an account that was handed out stays although the same session loses a race for another, every opening ends |
| `MC_Escrow` | 155,806 | one milestone under every operation: paid out once, a decision turned only by a code sent anew, every handler ends |
| `MC_EscrowClosing` | 1,748,191 | two milestones settling at once: protected balance equals protected milestones, the project closes exactly with the last one, and the handlers implement `Custody` |
| `MC_EscrowSharedKeys` | 21,733 | one key for two equal milestones: whatever is shown as released was paid, and no money is left behind |
| `MC_Payments` | 120,358 | a payment in of a rounded amount and a payout, webhooks repeated and reordered, a wallet frozen and thawed, crashes and lost answers |
| `MC_PaymentsTimeout` | *violation* | divergence 1 |
| `MC_Sessions` | 688,700 | rotation, lockout and revocation by two handlers at once |
| `MC_Invitations` | 643,527 | who becomes the receiver has an invitation of their own, and an invitation that somebody has stays theirs |
| `MC_Codes` | 3,749,804 | every wrong answer is counted against the limit, and, disputes apart, a milestone is cancelled exactly when one of its requests was confirmed by a right answer to its own code (it may have been declined before) |
| `MC_Destinations` | 5,232,036 | one default of each kind, the daily limit, and payouts only where the name in the provider's answer, or what stands in for it, is the user's |
| `MC_Assistance` | 180,984 | newcomers are in the LOW or the MEDIUM band, and every request ends, a review with somebody's analysis or an error, whatever the model, its client or its loading does |

`MC_AccountOpening`, `MC_Escrow*`, `MC_Invitations`, `MC_Codes`, `MC_Destinations` and
`MC_Assistance` spend their checks on those properties; that each of these modules is
type-correct was checked with TLC too, and is proved for all of them.

**Bounds.** Two sessions are enough for the races the code guards against: its locks
and unique indexes are pairwise, and a handler waits for one other at a time. Opening
accounts uses three, for a winner, a loser and one that comes after.
`MaxTransactions = 3` lets a movement, its reversal and a competitor meet; that four make no difference
to the safety properties is what the theorems of section 4 say. `MC_Escrow` allows a
dispute, a cancellation and two codes for it, which is what a decline that was loaded
before the second code takes to be turned; `MC_EscrowClosing` gives its two milestones
different amounts, so that money moved under the wrong one shows. In `MC_Payments` the
user can afford the payout only once the payment in has been credited, so
`CannotDebit` and `Debit` both happen; the daily limit does not bind there. The sums
that can be asked for are two that round alike, of which one is below `MIN_TOP_UP` of
that instance, and one that rounds apart; what is paid is what the order asks for or
another amount. Three refresh tokens are a chain of two rotations, or a chain and a
second session; two failures allowed is the smallest count that can be lost. In
`MC_Invitations` a client invites twice and either guest may have registered already;
in `MC_Codes` three codes are a request, a resend and a request made anew after a
decline, and two guesses allowed is the smallest limit that two answers at once can
pass. `MC_Destinations` has two requests at a time in one loop, two bank accounts so
that a default is contended, of which the bank names the owner of one, and a UPI id
without a registered name whose user part is a first name, one name given for them,
two names of which one shortens the other's word, and a limit of one payout, which two
contend for; one loop is what its properties are about, and the divergences say what
two do. `MC_Assistance` takes the extremes of a score and the counts of evidence
around the bound of `LIMITED`, with the language model configured and its package
installed (its constructor may still raise); without either there is less to
interleave. Symmetry is used only where no liveness is checked.

**Fairness.** Every liveness property assumes that a thread keeps executing its
statements and that PostgreSQL grants a lock to those who queue for it (strong
fairness, since the lock may be taken and released many times meanwhile), that its
detector breaks deadlocks, and, for `CaptureIsCredited`, that the provider repeats a
webhook until it is acknowledged, that a process which dies in the middle of a handler
is not killed there for ever, and that the wallet is not frozen for good. `Assistance`
assumes less: a thread that can take a step takes one (weak fairness). That is enough
for the score's lock, since only those who have seen no model wait for it, and once
there is one nobody new does; an answer comes because the client of the language model
has a timeout. Nothing is assumed of users, administrators or the payer.
`MC_Payments*` switch the deadlock check off because there the system may come to
rest: its one payment and one payout are over. So does `MC_Invitations`: once the
project is decided, everybody has registered and no address is free, nothing is left
to ask.

Each property of a passing run also has a mutant: a definition of the form `Bug...`
that differs from the code's by a plausible mistake (a lock not taken, a balance not
read again, a check not repeated, a key not passed), under which TLC finds the
property violated.

### Divergences

Found while modelling. The first is a run that TLC ends with a counterexample:

1. *A payout whose request timed out is refunded and may land as well*
   (`NotPaidAndRefunded`): `payments/service.py:616` takes a timeout for a rejection.
   No other order of events does this (`OnlyLostAnswersPayTwice`).

The next are stated as properties of their modules and do not hold there; to see one
violated, name it in the module's configuration, among the `PROPERTIES` if it speaks of
steps or of time (for `OneOpenDispute` with `MaxDisputes = 2`):

2. *A key race answers with somebody else's result* (`Ledger!AnsweredWithOwnResult`).
   The lookup of `post()` compares a replayed key's details; the handler of its
   `IntegrityError` (`wallet/service.py:208`) does not. It takes two requests under way
   with one key and different details (`OwnResultWhileKeysTell`).
3. *The platform's accounts can be created twice*
   (`AccountOpening!OneAccountPerPurpose`): NULL owners are not covered by the unique
   constraint of `ledger/model.py:85`.
4. *Two open disputes on one milestone* (`Escrow!OneOpenDispute`): the check
   (`disputes/service.py:90`) precedes the lock. It takes two requests at once, or a
   statement that reopens a dispute (`OneDisputeAtATime`).
5. *A disputed milestone can leave its freeze* (`Escrow!DisputeFreezes`): a cancellation
   pending when the dispute was raised is still decided (`cancellation/service.py:432`,
   against `disputes/service.py:131`). So can one whose earlier dispute a second
   administrator resolves once more (`disputes/service.py:254` checks before the lock).
   `DisputesFreeze` says which races there are, and that there are no others.
6. *A dispute raised during a pending cancellation* can be resolved, which moves the
   money that waits (`Escrow!CancellationHoldsFunds`, `WaitingFundsAreHeld`).
7. *A statement can undo a resolution's status* (`Escrow!ResolutionStands`):
   `add_message()` decides the dispute's new status on an unlocked row. Nothing else can
   (`OnlyLateMessagesReopen`).
8. *A movement reversed twice* (`Ledger!ReversedAtMostOnce`): `reverse()` tests an
   unlocked row. Only tests call it. It takes four transactions to see
   (`MaxTransactions = 4`, `Entries <- MCContended`), since a movement can be undone
   twice only where the balance allows it.
9. *Two codes work at a time* (`Codes!OneLiveCode`): two requests to send the code
   again each stop the codes they have loaded and add one, and neither stops the
   other's. The docstring of `resend_code()` (`cancellation/service.py:476`) says that
   the old code stops working immediately.
10. *A registration may claim an older invitation* (`Invitations!ReceiverIsTheInvited`):
    inviting a second address leaves the first one's member row PENDING, and whoever
    registers with the first becomes the receiver of a project addressed to the
    second; the column comment in `projects/model.py` says otherwise.
11. *Names match without every word appearing* (`Destinations!EveryWordAppears`): the
    docstring of `match_names()` asks for each word whole or as an initial. Initials
    never reach the comparison, because `_tokens()` drops single letters, and a word
    that another begins with counts three quarters, which suffices.
12. *A score can fail while its model is loading* (`Assistance!ScoresOnAnyRequest`):
    `ai/trust_model.py:199` assigns the model before its means, and a thread that finds
    the model does not take the lock. `ai/service.py` calls it a pure read, safe on any
    request. That is so except while another thread loads (`OnlyLoadingFailsRequests`).
13. *An answer may be labelled with another engine*
    (`Assistance!AnswersNameTheirEngine`): reviews name "claude" whichever provider
    answered, and the assistant finds its label by asking whether a model is
    available, after the answer may have come from the rules. `ai/review.py:9`
    promises that the engine is reported.
14. *A review can be written by nobody* (`Assistance!EveryCallerFallsBack`):
    `ai/llm.py:4` says that every caller has a deterministic fallback. Callers catch
    `LLMUnavailable` only (`ai/review.py:111`, `:130`, `:208`), and an answer without
    choices, JSON of another shape than the schema's (which is not strict,
    `ai/llm.py:123`), or a client whose constructor raises after the flag is up
    (`ai/llm.py:86`, `:219`) are other exceptions: the request ends in an error and
    nothing is stored.
15. *An order that was paid in full may not be credited*
    (`Payments!PaidOrdersAreCredited`): `payments/provider.py:69` rounds half a paisa
    to the even neighbour, the column NUMERIC(18, 2) rounds it up, and the request's
    schema takes any number of decimals. Who asks to add 10.005 is sent to pay 1000
    paise, which `payments/service.py:435` then compares with 10.01: the intent is
    FAILED. An amount below `MIN_TOP_UP`, which the schema takes too, is refused by
    `wallet.top_up()` after it has been paid, as often as the webhook is repeated, and
    so is any amount while the wallet is frozen. `CaptureIsCredited` says that
    everybody else is credited.
16. *A destination can be verified without the bank's word*
    (`Destinations!PaidToRegistered`): `payments/service.py:167` says that ownership
    is only ever established by a penny drop. An answer without a registered name is
    read for the bank account's name (`:178`), which is the one the account was asked
    about with, or for the UPI id's user part (`:285`), against the comment at `:288`;
    if that matches, the destination is VERIFIED. `PaidToTheirOwn` says what is still
    so.

Others that the modules exhibit, without a property of their own:

- A declined cancellation can be confirmed afterwards: a decline stops the codes it has
  loaded (`cancellation/service.py:440`), a code sent again meanwhile survives it, and
  whoever read the request before the decline and answers with that code writes
  CONFIRMED over DECLINED once a later request or dispute lets the milestone be
  cancelled. `OnlyNewCodesTurnDecisions` admits this and nothing else.
- A resolution sets the project ACTIVE although another of its milestones is disputed
  (`disputes/service.py:383`).
- An error that comes back while the wallet is frozen leaves the payout REQUESTED and
  its debit in place: `reverse_payout()` raises and nobody calls it again.
- An invitation redirected while it is accepted leaves an ACTIVE project whose
  receiver has not accepted; accepting and declining at once leaves whichever
  committed last; an invitation loaded while the project was a DRAFT writes
  AWAITING_ACCEPTANCE over an ACTIVE that was committed meanwhile.
- An invitation made while its addressee registers, or changes to that address, is
  claimed by nobody.
- The number of codes sent per window is counted before the code is written, which
  two handlers can do at once.
- A resend writes INVALIDATED over a code that was CONSUMED after it was loaded, and
  a decline of an older request frees a milestone whose newer request still waits.
- The first threads that ask the language model at once may be answered by the rules:
  `_client_checked` is set before the client is built.
- Two recalculations of a score at once compare with the same previous score, so a
  change that deserves a notification may be recorded without one.
- A bank account for which the answer has no name at all is REJECTED, a UPI id PENDING.
- One key used to fund two milestones of equal worth marks the second as funded
  with the first one's transaction. The mobile client never repeats a key; under the
  configuration of `MC_EscrowSharedKeys`, `ProtectedMoneyHeld` fails. What is shown as
  held is then not all there; nothing is there that is not shown (`NothingLeftBehind`).
- `payments/service.py:8` says the intent is marked in the transaction that posts its
  credit. It is not: `wallet.top_up()` commits first. That is harmless, because the
  credit's key is derived from the intent (`CreditedOnceIfPaid`, `CaptureIsCredited`).
- A process that dies between a payout's debit and the provider's answer leaves the
  payout `REQUESTED`: nothing takes it up again, and webhooks are matched by a
  provider id it does not have.
- A `payout.processed` that arrives after `payout.reversed` shows a refunded payout
  as `PROCESSED`.
- An `UPDATE` revokes the tokens of its snapshot: one that a concurrent refresh or
  sign-in inserts is not among them.
- The daily payout limit and the default of a kind hold within one process
  (`WithinDailyLimit`, `OneDefaultEach`); two processes compare and write at once.

## 4. What is proved

`LedgerProofs` proves, for any sets of sessions, accounts, users, keys and entries
and any bound on the history:

| theorem | says |
|---|---|
| `LedgerTypeCorrect` | `Spec => []TypeOK` |
| `NoLostUpdates` | cached balances always equal what the postings add up to |
| `NoOverdraft` | no user's account goes below zero |
| `AtMostOncePerKey` | an idempotency key is on at most one transaction |
| `HistoryIsHistory` | recorded transactions change in nothing but their reversed mark |
| `StatementsHold` | the balance printed on each line of a statement is the previous line's plus what the line moved |
| `BooksStayBalanced` | all debits together equal all credits together |
| `OwnResultWhileKeysTell` | under `KeysTellDetails`: every caller is answered with a movement it asked for |
| `LedgerKeepsPromise` | `Ledger` implements `LedgerPromise` |

The assumptions are those `Books` and `Ledger` declare and TLC evaluates in every
run: entries are well-formed, account ids are distinct numbers, there are finitely many
(`FinitenessAssumption`, so that they can be added up), `NoKey` is no key and `Free` no
session. `KeysTellDetails` says of the requests being served at any one time that those
which share a key ask for the same movement; against requests served earlier the lookup
of `post()` compares details, and needs no such hypothesis.

None of the safety properties is inductive: a commit writes the session's `view`,
and nothing in "cached balances match postings" says that the view is current. The
strengthening `IInv` adds what the protocol maintains. A session past the locking
stage holds every row it touches (`AllRowsLocked`), nobody else's lock is on them
(`LocksHaveOwners`), so a balance read under the lock stays the committed one
(`LockedViewIsFresh`, which is what `populate_existing` is for); an inserted row is
its entry on top of those balances, covered, and under a key nobody has recorded
(`StagedIsSound`), with at most one such row per key (`StagedKeysDiffer`), and only
balanced requests proceed (`OnlyBalancedProceed`). The proof has a lemma per action;
the refinement then needs one fact per step: a commit records exactly one covered,
balanced entry under an unused key, and every other step leaves history and
balances alone (a replay changes only a reversed mark, which the promise does not
see).

`StatementsHold` needs one more fact, that the last line of an account's statement
shows the account's balance and an account without lines is empty
(`LastLineIsBalance`): then a commit, whose line shows the balance read under the lock
plus what it moves, continues the statement, and every other step leaves lines and
balances alone. That a statement has a last line at all is `SomeLineIsLast`.

`BooksBalance` speaks of sums over all accounts, which the library defines by a
recursive function that is chosen. `BooksProofs` proves its facts from there being a
least counterexample among the subsets of a finite set (`Minimal`, from the
well-foundedness of strict inclusion): such a function exists, is the only one, takes
its elements in any order, changes by what one argument changes by (`SumChangesByOne`),
and adds up pointwise (`SumsAdd`). A commit then adds an entry with equal sides to
totals that are equal (`CommitBalances`). That the services ask for nothing else is
`MovementsAreBalanced`: a top-up, a withdrawal, a funding, a release, a refund and a
dispute's split in three lines have equal sides for any amount and any share of it,
wherever their accounts are among the accounts.

`LedgerProofs` also proves of `AccountOpening`, for any sessions that want any accounts
in any order:

| theorem | says |
|---|---|
| `OpeningTypeCorrect` | `OpeningSpec => []OpeningTypeOK` |
| `OneAccountEach` | a user has at most one account of each kind |
| `GivenAccountsStay` | the accounts a session was handed exist, committed or its own, also after it lost a race for another |

It assumes that the platform is not a user (`PlatformAssumption`): that is what
separates the accounts the index protects from those it does not. One row per owner is
not inductive, because the rows that matter are the ones not yet committed.
`OpeningInv` adds that an owner's uncommitted row is the only row there is, of any
session (`PendingIsNew`), and that committed rows are unique (`IndexHolds`). What a
session was handed is its own until it ends, because losing a race rolls back to the
savepoint and not to the beginning.

`EscrowProofs` proves, for any number of milestones of any worth, of sessions, of keys,
of disputes and of cancellations:

| theorem | says |
|---|---|
| `EscrowTypeCorrect` | `Spec => []TypeOK` |
| `FundedAndPaidOnce` | a milestone is funded once and its money leaves once |
| `ReleasesArePaid` | what is shown as released had a payout of its own |
| `ClosedWithTheLast` | the project is closed exactly while all its milestones are |
| `OnlyNewCodesTurn` | a confirmed cancellation stays so, and a declined one is turned only if a code was sent again for it |
| `MoneyIsKept` | the two parties' accounts together always hold what the client brought in, and none is overdrawn |
| `MovementsAreAcceptable` | every movement the handlers record has equal sides, so `post()` refuses none |
| `NoMoneyIsLeftBehind` | no more is protected than the statuses show, whatever keys are used |
| `ProtectedMoneyIsHeld` | under `KeysTellMilestones`: the protected balance is the sum of the milestones whose status is protected |
| `CustodyIsKept` | under `KeysTellMilestones`: `Escrow` implements `Custody` |
| `OwnKeysTell` | keys that the client makes up for one milestone each tell milestones apart |
| `DifferentWorthsTell` | so do all, under `NoMixUp`: nobody uses any, or no two milestones are worth the same |
| `OneDisputeAtATime` | a milestone has one open dispute at most, unless disputes are raised at once or a message comes late |
| `DisputesFreeze` | a disputed milestone is frozen, unless one of four races happens |
| `OnlyLateMessagesReopen` | a resolution stands, unless a message comes late |
| `WaitingFundsAreHeld` | money is protected while a cancellation waits, unless one of three races happens |

`KeysTellMilestones` says that a key sent with a funding is on no other milestone's
funding of the same worth. Without it two theorems are false: a key that funded one
milestone and is sent for another of the same worth marks the second as funded with the
first one's transaction (section 3), and money that was never protected cannot be held.
It is a hypothesis about the history of calls and not about the constants: clients that
make up a key for each funding satisfy it, with any milestones (`OwnKeysTell`), and the
mobile client does. `NoMoneyIsLeftBehind`, `MoneyIsKept` and the first five need nothing
of the kind.

The assumptions are those of `Escrow` and `Books`: there are milestones, finitely many
(`MilestonesAssumption`; a project has at least `MIN_MILESTONES`, one), amounts are
positive, the parties' accounts exist, and requests are for operations there are
(`OpsAssumption`).

The last four are about promises that the code does not keep (divergences 4 to 7). Each
takes as hypotheses the absence of certain races, as predicates on the state: two
requests raise a dispute of one milestone at once (`RaisedAlone` excludes it); a message
is written after the resolution (`MessagesInTime`); a resolution is committed for a
dispute that is no longer open (`ResolvedWhileOpen`), or for a milestone that is no
longer disputed (`ResolvedWhileDisputed`); a cancellation is decided while its milestone
is disputed (`DecidedWhileThawed`); a dispute is raised while a cancellation waits
(`DisputedWhenDecided`); a decision is committed about a cancellation that no longer
waits (`DecidedInTime`), be it a decline that comes late or a code sent anew that
confirms a declined one. The theorems say that these are all the ways there are: whoever
repeats the checks they name under the lock has what the docstrings promise. None of the
hypotheses is idle. With any one of them left out TLC finds the promise broken, under
the constants of `MC_Escrow` with `MaxDisputes = 2` and `MaxCancellations = 2`.

A handler checks, locks, checks again, posts and commits, and none of the properties
says what it may rely on between these. `IInv` does. About the rows: a milestone has
been funded unless it waits for it (`FundedOnce`), disputes and cancellations are about
funded milestones (`AboutFunded`), a confirmed one's milestone is cancelled (`Decided`),
and what the ledger has recorded for a milestone goes with its status (`BooksMatch`,
`OncePerKind`, `KeyedReleases`). About the sessions: one that holds a milestone's lock
still is permitted what it is about to do, and what it has staged is still right, the
project's next status included (`Stands`); two sessions never hold one milestone or,
between posting and commit, the client's account (`Apart`). The account's lock
is what makes `ClosedWithTheLast` true: each handler reads the other milestones'
statuses without their locks, but whoever could end one of them must post, and posts
wait for the commit. A step then keeps the invariant if it writes rows that nobody else
has locked (`LeavesOthers`, `OthersStand`), which each action's lemma shows.

`OnlyNewCodesTurn` rests on the codes (`CodesStand`): who has locked codes finds them
active and shares none with another session, a decided request for which one code was
sent has none left, and whoever declines such a request has loaded that one. A code sent
meanwhile is loaded by no decline that began before, which is the exception the theorem
makes.

`ProtectedMoneyIsHeld` speaks of a sum over all milestones, whose facts are those of
`BooksProofs`. The refinement maps a milestone's status to the place of its money;
each step either moves no money and no place, or is the one posting of a milestone that
`Custody` allows (`StepsMoveMoneyOnce`). For the promises about disputes a step opens no
dispute, or raises one (`DisputeSteps`), and only four commits take a milestone out of a
dispute or out of a cancellation (`Thaws`, from the transition table and the guards).

`PaymentsProofs` proves, for any payments in and out, any amounts, any limit and any
number of server processes:

| theorem | says |
|---|---|
| `PaymentsTypeCorrect` | `Spec => []TypeOK`, with it that the balance is never negative |
| `CreditsArePaid` | an intent is credited at most once, and only if exactly what is credited was paid |
| `DebitsComeFirst` | the provider is asked for nothing that was not debited, once |
| `RefundsAreDue` | a debit is put back at most once, and for a reason |
| `LandedIsLanded` | what is shown as landed was processed by the bank |
| `OnlyLostAnswersPayTwice` | under `ErrorsAreRefusals`: no payout that the bank processed is put back |

`ErrorsAreRefusals` says that an answer which is an error comes from a provider that did
not accept the payout; divergence 1 is what happens where it does not hold.

It assumes positive amounts and that intents and payouts are different things, of
which there is at least one. What a property says of money and of the provider hangs
on what the loops are in the middle of, so `IInv` says what a job may believe: a
request has one handler, whose debit is on record before it asks (`OneHandlerEach`,
`SentIsDebited`), a webhook that is under way tells the truth, and so does the job it
started (`CapturesAreTrue`, `WebhooksAreTrue`), and a reversal has its cause on record
(`RefundsHaveAReason`). Crashes need no invariant of their own: a job that is gone
has nothing to believe.

`CodesProofs` proves, for any number of handlers at once, any limits and any number
of codes:

| theorem | says |
|---|---|
| `CodesTypeCorrect` | `Spec => []TypeOK` |
| `GuessesCounted` | each wrong answer is counted, and a code takes at most `OTP_MAX_ATTEMPTS` |
| `ConfirmedByOwnCode` | a milestone is cancelled exactly when one request was confirmed, by a right answer to its own code |

The attempt that is written is the one that was loaded plus one, so counting is right
only if what was loaded still stands. `IInv` says so: who compares an answer holds the
row of the code, whose attempts and request are as loaded (`LoadedIsCurrent`), and who
requests or declines holds the milestone, which is as it was found
(`MilestoneIsCurrent`). The lemma `OthersStaySound` shows once that a step which writes
only rows it holds, or nothing these two speak of, disturbs no other session; each
action then has to account for its own. A new code has not been guessed at before
(`UnsentIsUnmissed`), and a request can be confirmed only while the milestone is
CANCELLATION_REQUESTED, hence only once.

`InvitationsProofs` proves, for any number of people, addresses, invitations and
handlers:

| theorem | says |
|---|---|
| `InvitationsTypeCorrect` | `Spec => []TypeOK` |
| `ReceiverInvited` | whoever is the receiver has an invitation of their own |
| `InvitationsKept` | an invitation that somebody has is taken over by nobody |

No row is locked here, so nothing read stays true for that reason. What does stay: a
member row never loses its user, so one found for an account remains that account's
(`FoundTheirRow`); and the rows a registration has found to claim are nobody's and
addressed to an address only it has inserted (`ClaimsAreOpen`, `InsertedApart`), which
is the unique index on addresses.

`SessionsProofs` proves, for any finite sets of threads and tokens, any passwords and
any number of failures allowed:

| theorem | says |
|---|---|
| `SessionsTypeCorrect` | `Spec => []TypeOK` |
| `OneEndEach` | every family has exactly one token that has not been exchanged |
| `MissesCount` | no wrong password goes uncounted |
| `SignInsChecked` | a session issued for a password is issued on an open account that still has that password |

`FiniteAssumption` of `Sessions` is used for the counts of tokens and requests. Two
things make the properties inductive. What a handler decides on under a lock still is
so (`StillSo`): the user's row for a sign-in by password, the token's row for a
rotation; the lemma `EndStep` shows once that a commit disturbs no other handler's,
because it writes the user's row only when nobody else has locked it, and exchanges
only the token it has locked (`Exchanges`). And the chains are described without
cardinalities: the family of a token is named by a token that exists (`Rooted`) and has
one end (`ChainsEnd`), which a rotation moves from the token exchanged to the new one,
a sign-in adds to, and a revocation leaves alone. `TokensLeft` shows that the bound on
tokens never leaves a handler without one. A lockout that passes writes the row without
a lock, and is harmless because no sign-in by password is pending on a locked account.

`PaymentsProofs` also proves of `Destinations`, for any number of requests,
destinations and payouts, any names and any limit:

| theorem | says |
|---|---|
| `DestinationsTypeCorrect` | `DestinationsSpec => []DestinationsTypeOK` |
| `OnlyOwnAccountsArePaid` | money goes only where the name in the provider's answer, or what stands in for it, matched a name of the user's |
| `OneDefaultOfEachKind` | under `OneProcess`: every kind that has destinations has exactly one default |
| `TheLimitIsKept` | under `OneProcess`: payouts that have not come back stay within the day's limit |

`OneProcess` says that one event loop serves every request, as with the one server
process that is configured; while a deployment overlaps two, the last two properties
do not hold (section 3). `OnlyOwnAccountsArePaid` holds for any number of loops:
nothing is locked, but a destination's row never changes once it is there, so what the
provider's answer said of it (`AnswersAreTheBanks`, `VerifiedMatches`) stays so until
it is debited for (`DebitsAreForVerified`). For the other two `LoopInv` says that past
its last await a request runs alone (`OneRuns`): that there was no default yet is
still true when the row is written (`ChoicesStand`), and the room found under the
limit is still there when the payout is (`RoomForDebit`), although webhooks change
meanwhile which payouts count (`FailedCameBack`: one that counts as failed has come
back). That there are destinations is assumed (`DestinationsAssumption`).

`AssistanceProofs` proves, for any number of threads, any counts of events and
whatever scores the model gives:

| theorem | says |
|---|---|
| `AdviceTypeCorrect` | `Spec => []TypeOK`: what is recorded and shown are scores |
| `NewcomersStayUnbranded` | who has fewer than five events is placed in the LOW or the MEDIUM band |
| `OnlyLoadingFailsRequests` | a score fails for want of a whole model only while another thread is loading it |

The first two are about arithmetic: with fewer than five events the blend stays within
53 and 79 (`NewcomersStayClose`), where the bands are the two around the middle
(`CloseIsNoBrand`). The last is about the globals: the model is half there exactly while
one thread makes it (`HalfMadeWhileLoading`), that thread holds the lock
(`LoadersHoldTheLock`), and the model is assigned before its means (`PipelineFirst`).

Only model-checked: all liveness (`EveryRequestEnds`, `EveryOpeningEnds`,
`EveryHandlerEnds`, `CaptureIsCredited`, `EveryQuestionAnswered`), which rests on
fairness and enabledness and is out of the prover's reach. What a recursive definition
computes for every input is out of reach too, with the exception made above: where the
definition goes by finite sets, a least counterexample stands in for the induction.

## 5. What is not modelled

- The on-device engine and the mobile client. The engine is a single-threaded copy of
  the API for demonstrations; what a handler that throws half way leaves in its
  in-memory database is named among the hazards. Whatever sequence of calls the
  client makes is a behaviour of the server's modules.
- Formats of account numbers, branch codes and UPI ids, hashing, and the verification
  of identity tokens: functions without state.
- Phone numbers of users.
- Audit and notifications: rows written in the transaction they describe, which no
  decision reads.
- What the advice says: features, texts and training data, which nothing else reads.
- Screens, configuration, migrations, the deck and the video.
- Texts, deadlines, currencies other than the default, and amounts beyond a few
  units: amounts are opaque to the control, and rounding to money is done before a
  posting is asked for.
- Isolation other than READ COMMITTED, PostgreSQL's default, which the code relies
  on and nowhere changes.

## 6. Plan

1. Proofs: whatever safety the next modules check.
2. `Engine`: the on-device engine with its write chain and what a failing handler
   leaves behind, compared with the backend's transition table.
3. `Client`: token refresh and lost answers between the mobile client and `Sessions`.
