# metavchim: models, checks and proofs

metavchim is a multi-tenant product for real-estate offices: a NestJS API (`src/apps/api`), BullMQ workers (`src/apps/workers`), a Next.js client (`src/apps/web`) and a package of pure logic (`src/packages/shared`). State lives in PostgreSQL, queues in Redis. The API runs in several replicas, and each of them runs every timer: there is no leader. What keeps two replicas, a webhook and a user from doing the same thing twice is written into single statements: conditional updates, unique indexes, `FOR UPDATE SKIP LOCKED`, advisory locks. That is hard to test and easy to model, so this project follows those statements where they guard money, tax documents, telephone numbers, appointments and events.

Part 1 is the inventory, part 2 the modules, part 3 the runs, part 4 the proofs, part 5 the disagreements between code and text, part 6 what is left out, part 7 the plan.

## 1. Inventory

`PROJECT.json` lists every component with its sources, and under `hazards` what can go wrong in each at its line. The components with a protocol of their own are these.

| Component | State | Operations | Interacts with | Hard because | Correct if |
|---|---|---|---|---|---|
| Subscription checkout (`modules/billing/billing.service.ts`) | `payments`, `subscriptions`, `tenants.paid_until` and coupon columns, `subscription_offers`, `credit_ledger` | open a page (plan, offer, credits), apply a payment, cancel, switch to a free plan | Cardcom (page, webhook, verification), invoices, credit ledger | any number of webhooks and polls confirm one payment; Cardcom's verdict is read before it is used; transactions at READ COMMITTED | a payment gives what it bought once and for good; quota, coupon and access gate follow |
| Subscription renewal (`renewal.service.ts`) | the same rows, `renewal_reminder_for` | remind, claim a period, charge the saved card, commit or roll back | checkout, Cardcom | every replica scans hourly; the charge is between two transactions; the customer acts meanwhile | a period is charged once, when it is due, and what was charged is recorded |
| Number rental (`number-rental*.service.ts`, `platform.controller.ts`) | `rented_numbers`, `payments`, `virtual_numbers`, the account at 015 | order, pay, take a number, cancel, release, renew, purge | checkout, Cardcom, 015 | taking and giving back a number is part of no transaction; most writes are by id | what was paid is served or told; nobody loses a number without asking, nobody pays for one that serves nobody |
| WhatsApp seats (`whatsapp-seat*.service.ts`, `settings.controller.ts`, `platform.controller.ts`) | `whatsapp_seats`, `payments`, `users.whatsapp_access`, extra seats of the office | buy, cancel, renew, retry, close, give and take the assistant, grant | checkout, Cardcom | a flag on the user says who works, a sum of rows says who may; only some of the writers queue at the lock | who works sits on a seat; a month is collected once; an unpaid seat ends |
| Invoice issuing (`invoice.service.ts`, `linet.service.ts`) | `invoices` | queue, sweep, claim, search, create, record, retry by hand | Linet | lost and late answers of a service that cannot be asked idempotently; crashes while issuing | one document for a payment; every row settles |
| Outbox and queues (`outbox-dispatcher.service.ts`, `workers/src/main.ts`) | `outbox_events`, BullMQ jobs, `automation_runs`, `notifications` | emit, claim a batch, route, mark, process a job | every component emits | at-least-once at three places: batch, job id, stalled job | no event is lost; an automation acts once |
| Lead board and credits (`collaboration.service.ts`, `credit-expiry.service.ts`) | `shared_leads`, `credit_ledger`, `platform_credit_ledger`, `payout_ledger`, `coop_offers` | publish, withdraw, buy, offer, initial grant, top up, expire | checkout (packages), payouts | two locks taken in one order, ledgers of three parties, an hourly sweep that recomputes what is left | no debt; a sale is settled once in all books; only leftovers lapse |
| Payouts (`payouts.service.ts`) | `payout_ledger`, `payout_requests` | request, approve, mark paid, reject | lead board | the balance is a sum, checked under an office's lock and added to under none; several administrators decide | no overdraft; a request ends once and its money goes one way |
| Calendar sync (`calendar.service.ts`, `calendar-sync.service.ts`) | `appointments`, sync marks, the link's token | schedule, move, cancel, pull, push, reconnect | Google | two masters of one datum, no lock, and no unique event id | an edit is not lost, the two sides agree in the end |
| Viewing reminders and replies (`viewing-reminder.service.ts`, `viewing-reply.service.ts`) | `appointments.reminder_sent_at`, the reply columns, tasks | list, deliver, open a task, stamp, record an answer | calendar sync, WhatsApp, SMS | the row is moved while a message is on its way | marks and answers stand for the time the viewing has; one reminder for each |
| Recurring tasks (`workers/src/main.ts`, `recurrence.service.ts`) | rules, `lastRunAt` | scan, claim an occurrence | tasks | optimistic claim against edits | one task per occurrence |
| Contacts, leads, erasure (`modules/contacts`, `modules/leads`, `common/locks.ts`) | contact cards and what hangs on them | intake, recycle, convert, erase | all of the above | lock order; a card recycled while it is erased | no deadlock, an erased card stays erased |
| Co-operation deals, offers by e-mail, telephony | deals, batches, call events | confirm, send, receive events in any order | lead board, queues | two-sided confirmation; webhooks out of order | see part 7 |

The others (tenant isolation, matching, market data, search, mail, the assistant, the web client, infrastructure, ...) are listed in `PROJECT.json` with the reason they have no module: a formula, a form, one transaction, or I/O.

How the modelled parts meet. A payment confirmed by the checkout, or charged by a renewal, leaves a row for the invoice sweep; a credit package confirmed by the checkout is a row of the ledger the lead board spends from; a sale on the board for money is a row of the ledger the payouts are taken from; a round of synchronisation moves the appointments the reminders are about; timers and requests write events with their change, which the outbox delivers. Three of these are compositions here: `SubscriptionRenewal` extends `SubscriptionCheckout` and `ViewingReminders` extends `CalendarSync`, because each pair writes the same rows, and `MCLeadMarket` joins `LeadMarket` and `PayoutDesk` in the step of a sale. The other seams are one-way (a row appears) and are inputs of the module downstream: `Queue`, `BuyCredits`, `Emit`. That a payment is claimed once is shown in `SubscriptionCheckout`; the modules of seats and numbers start from it and ask what the claim does to their rows.

## 2. Modules

Every module reads the code the same way. An action is the code between two awaits: one statement of the database, one answer of an outside service. A local variable that survives an await is a field of the request's record (`checkout`, `handler`, `scanner`, `job`, `visitor`, `issuer`, `dispatcher`, `worker`, `session`, `sweeper`, `round`, `sweep`, `phone`), next to `pc`, the point the request has reached. A conditional update is one action whose guard is the statement's WHERE; the alternative, "no row", is a disjunct of it or an action of its own. An interactive transaction whose locks nobody else can notice is one action; one whose locks others wait for, or that reads at READ COMMITTED what another one writes, is several, and the lock is read off the records of those who hold it. Each module holds, before the definition it would replace, the plausible bugs ("Mutant of ...") that show what each property guards against.

History variables only remember: no guard reads them. Three of them, `crossed` (`NumberRental`, `ViewingReminders`), `overtaken` (`ViewingReminders`) and `taken` (`WhatsappSeats`), need a word. They collect the rows for which two unguarded writes passed each other, races the code has and part 5 describes. A property that leaves such rows out still says that everything else the code does, in every order within the bounds, keeps the promise.

**SubscriptionCheckout.** One office; tenant filters make offices independent except for an offer's quota (`OtherOfficeRedeems`). `payment`, `subscription`, `paidUntil`, `coupon`, `redemptions`, `ledger`, `invoiced` are columns; `page` is Cardcom's side; `grants` is history. `PricePlan`, `PriceOffer`, `PriceCredits`, `Supersede`, `CreateRow`, `OpenPage`, `OpenPageFails`, `ReadForFree`, `ActivateFree` are `startCheckout` and its siblings. `Webhook` or `PollReturnPage`, `Verify`, `Load`, `Reject`, `Claim`, `ClaimLost`, `Commit`, `QueueInvoice` are `apply()`; between `Claim` and `Commit` the payment's row is locked and the subscription only read, as in `activateWithin`. `Abandon` is a crash, a rolled-back transaction, or an exception. A billing period is `Period` ticks.

**PaymentSettlement.** The abstract promise: a payment is settled at most once and for good, and delivers in that step. `SubscriptionCheckout` implements it with the mapping `settled <- {p : payment[p].status = "paid"}`, `delivered <- grants + ledger`.

**SubscriptionRenewal.** Extends the checkout. `ListUpcoming`/`ClaimReminder` are `remindUpcoming`; `ListDue`, `ReadRow`, `ClaimRenewal`, `CreateRenewal`, the three outcomes of `chargeToken` (`ChargePaid`, `ChargeDeclined`, `ChargeTimesOut`), `RollBack`, `FailRenewal`, `CommitRenewal`, `QueueRenewalInvoice` are `renewDue` and `renewOne`. `charge` and `reminders` are history, by the period end they belong to.

**InvoiceIssuing.** `row` is the table; its `next` says of `next_attempt_at` what the code asks: due, later, stuck in `issuing` for twenty minutes, never. `document` is what Linet holds, `late` the requests a client gave up and Linet still works on, `strays` what became of them. `ListDue`, `TakeListed`, `Claim`, `ClaimLost`, `Lookup`, `CreateAnswered`/`CreateRefused`/`CreateTimesOut`, `Record`, `Fail` are `sweep` and `issueOne`; `Click` is the retry button of the platform's screen.

**OutboxDelivery.** `outbox`, `job` (BullMQ by job id), `runs` (`automation_runs`), `noticed` are stored; `queued` and `acted` are history. `ClaimBatch` to `Mark` are `dispatchBatch`, with the transaction's `live` flag: Prisma's timeout (`Expire`) frees the rows while the loop goes on. Two kinds of job stand for all: a notification, one transaction, and the office's automation rules, one transaction per rule. `Stall`, `RecoverStalled`, `Evict` are BullMQ's, from the options the code passes.

**LeadMarket.** Extends `CreditLedger`, the ledger of one office: its balance is a sum (`SumOf`), `Remaining` replays the rows into the batches that are left, as `planCreditExpiry` does, and `PlannedOf` is the plan it returns; all are functions of the number of rows read. The model replays rows in the order of their commits, the code by `created_at`, then id (`credit-expiry.ts:134-138`); the two agree as long as no charge is stamped before the gift that paid for it, and a clock that is set back between replicas is not modelled. `share`, `offered`, `ledger`, `payouts`, `fees` are tables. `ShareRead`/`ShareWrite` are `shareLead`, `BuyRead`/`BuyClaim`/`BuyLock`/`BuyCommit` `buyLead`, `OfferRead`/`OfferLock`/`OfferCommit` `offerProperty`, `GrantRead`/`GrantWrite` the initial grant of `balance`, `SweepLock`/`SweepCommit` `CreditExpiryService`. A purchase holds the referral's row from its claim and the advisory spending lock from `BuyLock`; offers and the sweep take the same lock. `Age` lets the validity of all rows written so far pass. `BuyRead` is the read of the board and the read of the origin lead in one step; both come before the transaction, and nothing between them changes what the purchase may do. A referral withdrawn, taken down or deleted is `down`, a lead converted or deleted `closed`: nobody tells them apart.

**PayoutDesk.** Withdrawals of one office. `request` is the table, `balance` the sum of `payout_ledger` as a running total (every row written is an addition to it in the same step), `returned` counts the rows that give a sum back, `asking` and `deciding` are open transactions with what they have read. `Ask`/`Withdraw` are `request()` under the office's advisory lock, `Read`/`Decide` are `decide()`, whose update is conditional on the status read, `Sale` is the seam to the board, `RollBack` a crash or an exception.

**WhatsappSeats.** One office. `FindPending`, `CreateSeat`, `Supersede`, `OpenPage`, `CancelRead`, `CancelWrite` are `WhatsappSeatService`; `ClaimPayment`, `Activate` the part of `apply()` that is about seats; `ListDue`, `ReadSeat`, `Claim`, the three outcomes of the charge, `Reactivate`, `RollBack`, `MarkPastDue`, `CloseUnpaid`, `ListCancelled`, `CloseCancelled`, `Revoke` are `tick()`; `GrantLock`, `GrantCommit`, `Withdraw` are the settings screen, `CheckExtra`, `WriteExtra` the platform's. `Quota` is `agentSeatQuota`.

**NumberRental.** Offices, rentals, numbers, requests and replicas; `job` is where each of them stands, for releases run in both kinds. `held` is the platform's account at 015, `route` the routing screen's table. `Look`, `CreateRental`, `Supersede`, `OpenPage` are `startCheckout`, with the partial unique index on live numbers (`Clash`) that two who looked at once meet; `ClaimPayment`, `Activate`, `Report`, `Provision`, `Purchase`, `StampPurchase`, `Route` are `apply()` and what follows its commit; `ReadRelease`, `Drop`, `CloseRow`, `Unroute` are `releaseNow`, called from `Cancel`, `AdminRelease` and the sweep; `ListDue` to `Purge` are `tick()`. Purchases and drops may be refused, or done and the answer lost.

**CalendarSync.** One agent. `calendar` is Google's side, `link` whether a token is stored and what Google would list for it. Google answers with one page of `PageSize` events and, if there are more, without a token: `AskChanges` chooses the page, `NextToken` stores the token or none, as `changesSince` does. `Schedule`, `Reschedule`, `Update`, `Reconnect` are the office's; `AgentAdds`, `AgentMoves`, `AgentDeletes` the agent's at Google; `ReadLink`, `AskChanges`, `PullRead`, `PullWrite`, `ListPending`, `UpsertEvent`, `Stamp`, `EndRound` are one round of `syncOne`, any number of which run at once, `BreakOff` its end by an exception or a kill at any of them.

**ViewingReminders.** Extends `CalendarSync`: `Noted` adds to each of its steps what the history remembers. `overtaken` collects the rows the office changes while a push has lost sight of them (`PushedBlindly`: it sends their deletion, or is about to stamp them and the echo was consumed already) and those a pull writes from a list that is older than their event while nothing will list it again (`PulledBlindly`). `ListDue`, `Deliver`, `OpenTask`, `StampReminder`, `EndSweep`, `KillSweep` are `tick()` and `remindOne`; `Tap`, `RecordReply` the webhook of a customer's answer.

The MC modules add constants, symmetry sets and, where a module is asked about several situations, a constant variable (`world`, `scene`) that says which of them a behaviour is in and a conjunct that holds it there. One run then answers for all of them, and each situation has the bounds it needs: `MCSubscriptionCheckout` (racing confirmations; requests with every coupon), `MCSubscriptionRenewal` (two replicas; one replica that only charges, and the customer), `MCWhatsappSeats` (two replicas without agents; one with an agent and the platform), `MCViewingReminders` (one round that is broken off anywhere; two rounds at once; reminders of one appointment), `MCNumberRental` (four scenes), `MCLeadMarket` (the board; the desk while one user of each office trades). `MCInvoiceIssuing` and `MCOutboxDelivery` only instantiate. The `...Proofs` modules hold the theorems.

## 3. Runs

Deadlock is not checked: all these systems may come to rest, when every payment is settled or every bound used up.

| Run | Bounds | Question and answer |
|---|---|---|
| `confirm` | 2 payments, 1 redemption, a period of 2; in one world 2 confirmations, 1 opening request at a time and the clock stopped, in the other 2 requests for plans, 1 confirmation, all coupons, 1 tick | Do racing confirmations give a payment once and for good (`Settlement`, the refinement of `PaymentSettlement`), within the offer's quota (`OfferQuota`), with a document only if paid (`InvoicedOnlyIfPaid`); does the coupon go only with a period (`CouponKept`) and the gate follow the subscription (`AccessFollowsPeriod`)? Yes. |
| `replicas` | 3 payments, 3 ticks with a period of 2 (two renewals), 1 crash or lost answer; 2 replicas, or 1 replica that only charges against 1 request and 1 confirmation | One charge and one reminder per period (`OneChargePerPeriod`, `OneReminderPerPeriod`); is an answered charge recorded whatever the customer does meanwhile (`ChargedRenewalRecorded`)? Yes. |
| `issuers` | 1 invoice, 2 sweeps, 1 click, 3 attempts, 1 crash, late answers | Do attempts exclude each other (`OneIssuer`), is what is issued at Linet (`IssuedHasDocument`), does a retry make no second document (`RetryNeverDuplicates`), does every row settle (`EventuallySettled`)? Yes. |
| `outbox` | 3 events (malformed, with a rule, the rule's task), 2 pollers, batches of 1, 2 workers, 1 rule, 1 Redis error, 1 fault | Does a rule act once (`RuleActsOnce`), is what is published queued (`PublishedWasQueued`), and does an event arrive (`EventuallyDelivered`)? Yes. |
| `market` | board: 1 lead on up to 2 referrals, 1 offer, 2 users of the buyer, 1 of the referrer, 1 sweep, 1 top-up; desk: 2 withdrawals, 2 users, 2 administrators, 2 sales | Does nobody owe credits (`NoDebt`), is a sale settled once in all books (`SaleSettledOnce`), an offer charged once (`OfferChargedOnce`), is what the sweep reconstructs the balance to the credit (`OnlyLeftoversExpire`); is the money never overdrawn (`NeverOverdrawn`) and each withdrawal decided once (`DecidedOnce`)? Yes. |
| `seats` | 1 seat, 1 payment, 3 ticks, 1 lost answer or crash; 2 replicas, or 1 replica, 1 agent and 1 extra seat | Does nobody work without a seat (`HoldersCovered`), is a month collected once (`MonthCollectedOnce`), does an unpaid seat end (`UnpaidIsSettled`)? Yes. |
| `numbers` | 1 number, 2 offices, 2 rentals, 2 payments, a period of 1, 1 tick, 1 fault, in the scenes of `MCNumberRental` | Is a payment served or told (`PaidServedOrReported`), a number lost only on request (`LostOnlyOnRequest`), a month renewed once (`RenewedOnce`), no number forgotten at 015 (`NoSilentLeak`), nobody charged who cancelled (`CancelledNotCharged`), and is a cancelled rental released after its period (`CancelledIsReleasedInTime`)? Yes; the last but for a rental whose renewal is under way as its customer cancels, which may never end (part 5). |
| `diary` | 3 appointments, of which 1 made here, 3 events, pages of 2, 2 times, 1 sweep, 1 answer, 2 edits, 1 move at Google; 1 round and 1 break-off, or 2 rounds and none | Do marks and answers stand for the time the viewing has (`RemindedOfThisTime`, `AnsweredAboutThisTime`), is there one reminder (`RemindedOnce`)? Yes. Do the two sides agree in the end (`SidesAgree`)? Yes, if the calendar fits in a page, but for rows that were overtaken; part 5 has the races. |
| `charged_after_reject`, `charged_early`, `charged_after_lost`, `edit_lost` | the smallest that show it | Part 5. |

Why the bounds are enough. Each protocol separates competitors for one row; two competitors show every order of a pair, and the payments, invoices, referrals, seats of one office meet only in pairs through one subscription, one coupon, one balance, one number. Periods of two ticks put a moment before, at and after each end into the clock. The balance in `market` is chosen so that one more concurrent charge would overdraw it, and fees and bonus (50 and 75 percent of 2, rounded) so that rounding happens; a withdrawal in its desk asks for less than the minimum, the exact balance, or more. In `numbers` one number is enough, since numbers meet only in the index; the second office and the second rental are there to want the same one. In `diary` one appointment can have the two lives that matter, its own and that of an event that comes back as a foreign meeting, which needs the other rows and events. Its two rounds meet from the moment an appointment waits to be pushed, with or without a token, with one edit to come, or from one that is in step, with one edit and one move to come; rounds before that do nothing, and every order of their steps is explored. Identifiers are given out in order, since no module tells them apart. The proofs of part 4 remove the bounds from the safety properties of all the modules.

Six bounds carry weight: beyond them the code breaks the property. For the first five, the theorem of part 4 has the bound's meaning as a hypothesis.

- `replicas`, `OneReminderPerPeriod`: a warning window of one tick in a period of two. With a window as long as the period and a third replica, TLC finds a second reminder for one end: the period is claimed, its end reminded, the charge declined, and the same end computed again later from an old due list. It takes a charge that stays unanswered until the end of the very period it pays for is near, weeks for the periods and the window of the code (`AnsweredInTime`).
- `replicas`, `OneChargePerPeriod`: while the customer acts, the clock stops at 1. With four payments and three ticks (a trace of 33 states) a confirmation's transaction reads the end of the period, two renewals are charged meanwhile, and its commit sets the end back, so that a period is charged again (`PurchasesGoOn`). The transaction lasts milliseconds, two renewals are a month apart.
- `seats`, `MonthCollectedOnce`: one payment. With two payments and four ticks (36 states) a confirmation read before two renewals sets the end of the seat back in the same way (`ConfirmationsGoOn`).
- `numbers`, `RenewedOnce`: one tick. With two payments and two ticks (31 states) the same happens to a rental (`ConfirmationsExtend`).
- `numbers`, `RenewedOnce`: one fault. With two (12 states) an answer is lost, and the replica is killed between the rollback and the mark: the rental is active with its old end, and the next round charges the month again (`MarksFollow`).
- `outbox`, `EventuallyDelivered`: fewer Redis errors (1) than attempts (2). With as many errors as attempts the event is abandoned, which is `NoEventAbandoned` of part 5; in the code that takes ten polls, twenty seconds of an outage.

`SidesAgree` needs no such bound on rounds, but it has two conditions of its own, both in its formula: a calendar that ends with at most `PageSize` confirmed events (250 in the code; a larger one never gets a token, and every round lists one page again), and rows that are not in `overtaken`. Without either, TLC finds a violation within the bounds of the run. It compares no event the agent has deleted and no two rows that share one event (a pull that took the event for a foreign one before its id was stored; part 5, *An orphan*).

`MaxFaults`, `MaxCrashes`, `MaxRedisErrors` bound how often the environment fails, not when; `MaxEdits`, `MaxMoves`, `MaxTaps`, `MaxClicks`, `MaxSales` how often people act. `MaxAttempts` is 2 or 3 instead of 10 (outbox) or 6 (invoices), `MaxTries` 2 instead of the 3 to 10 a job is allowed, which only makes giving up reachable. The last instant of a clock lasts for ever, so that what must happen after the end still can. Users, replicas, requests and rows are symmetric in `confirm`, `replicas` and `market`, which check invariants and formulas of the form `[][A]_v` and `Spec`, no liveness.

### Fairness

Only weak fairness of what a timer or a consumer repeats, in the five runs with a liveness property. `issuers` and `outbox`: a replica's sweep (`setInterval`), an attempt that has started, the two-second poller, a worker that takes what waits, BullMQ's check for stalled jobs, and time. `seats` and `numbers`: `tick()` of each replica that is there, and time. `diary`: a round of synchronisation starts again and again, and one that has started goes on; a second one need never start, which is weaker than `DiarySpec` and what its timer gives at least. Nothing is assumed of users, administrators or the agent, of the good behaviour of Linet, Redis, 015, Google or Cardcom, or of faults, which are bounded. `EventuallySettled` needs the time, since a stuck row becomes due only when twenty minutes pass. Fairness of `Tick` as a whole is weaker than that of each of its steps: a replica that is declined for ever may stay where it is.

## 4. Proofs

Eight proof modules, for every value of the constants their assumptions allow (numbers are natural, `NULL` is no identifier, the event the rules are about is valid). All of them follow one argument: an inductive invariant, the lemma that the initial states have it, one lemma per action that keeps it, and temporal steps at the end.

**SubscriptionCheckoutProofs.** `AppliedOnce` alone is not inductive: it says nothing of a run that has claimed a row and has not committed. The invariant adds that such a run's row is claimable, is locked by that run alone, has a kind, and has given nothing; that rejecting and claiming runs have a row; that requests write only rows of their own. From it: `TypeCorrect`, `AppliedExactlyOnce`, `PaidIsFinal`, `DocumentsOnlyForPaid`, and `ImplementsSettlement`, the refinement of `PaymentSettlement`: every step either settles one payment and delivers it, or changes neither. `OfferQuotaKept` adds the quota with the redemptions counted so far. `CouponGoesWithAPeriod` and `GateFollowsSubscription` rest on one more lemma, `TenantStep`, which says of a step of any kind how it moves the coupon, the gate and the subscription together: all three are written in one transaction, so each action is visited once and both theorems follow.

**SubscriptionRenewalProofs.** Extends the proofs of the checkout, as the module extends the checkout. `CInv` adds to the checkout's invariant what the replicas know of the tables: a renewal's row has no page, so no run of `apply()` ever works on it, and the replica that wrote it is the only one to settle it. With it, the checkout's theorems hold again while replicas renew (`TypeCorrectWithRenewals`, `AppliedOnceWithRenewals`, `DocumentsOnlyForPaidWithRenewals`, and `SettlementWithRenewals`, the refinement), and `AnsweredChargesRecorded` says that the money a replica took is in the books whatever the customer did meanwhile.

Whether a period can be charged twice is decided by one conditional update, but the row forgets: once another replica has claimed the next period, nothing in it says that the earlier one is still being charged and may yet be given back. `PInv` keeps that: the periods [from, to) that replicas hold are disjoint, end at the row's end or before, and whatever was charged is behind the row's end and in no period that is held. A claim starts where everything ends; a charge gives up its period in the same step; a rollback happens only while its period is the last one. Hence `ChargedOncePerPeriod`, for any number of replicas and any timing, under one hypothesis, `PurchasesGoOn`: a step of the customer that leaves the subscription paid leaves its end behind everything that was held, charged and reminded of. The code does not check this (part 3 has the trace); `RenewalsAloneGoOn` proves the hypothesis for an office that only renews, and a purchase keeps it whenever no renewal commits between its read and its write. `RemindedOncePerPeriod` needs `AnsweredInTime` besides: a declined charge is answered before the reminder for the end of its period is sent. Its invariant says that the ends reminded of grow, and that no period that is held contains the last of them.

**InvoiceIssuingProofs.** The write at the end of an attempt is by id, unconditionally. It is safe because nobody else can be on the row: an attempt past its claim has a row in `issuing`, which is never stuck while its process lives (the requests of one attempt time out within two minutes, the row is stuck after twenty), and no second attempt is on it (`OneIssuer`, `AttemptNotStuck`). With `RecordsDocument` and `StraysAreDocuments` this gives `OneIssuerAtATime`, `IssuedIsAtLinet`, `RetriesSearchFirst`, `IssuedIsFinal`.

**OutboxDeliveryProofs.** Three strands. `ActedAsRecorded`: the action of a rule and its row in `automation_runs` are one transaction, so the count is one exactly where the row is; what BullMQ does to jobs does not matter (`NoSecondAction`). `BatchIsHeld`: rows of an open transaction belong to one replica and have attempts left, hence two replicas never count one attempt twice past the limit (`TypeCorrect`). `DoneWasQueued` and `HalfRouted`: what a batch counts as done has its jobs in Redis, even if the batch was rolled back, and between an event's two jobs the first one is there (`NoEarlyPublication`). That the event a poller is at belongs to its batch rests on the well-ordering of the naturals (`MinIsMember`).

**ViewingReminderProofs.** That a stamp stands for the time of the row is decided by the condition of the update (`StampReminder`), but what the condition compares is what a sweep read earlier, so the invariant says of sweeps and deliveries on their way that they have tried, or heard, what they are about to write (`SweepsHaveTried`, `PhonesHaveHeard`). The hard part is the pull, which writes by id what it read a transaction earlier: it keeps the marks only if the time is the same as then. `crossed` holds the rows where it was not, and the proof of `CalendarMarks` shows that there is no other way to carry a mark over to a new time. `StampFitsTime`, `AnswerFitsTime`, `DiaryTypeCorrect` follow; `OneReminder` says for one replica that is not killed that every placement is reminded of once.

**LeadMarketProofs.** Proves about three modules, from the inside out.

*The ledger* (`CreditLedger`), for ledgers of any length. The sums and the replay are recursive functions; that such a function exists, and what it is after one row more, is proved from the well-foundedness of <, by looking at the least number of rows for which it would fail (`RunningExists`, `ReplayExists`, `PlanningExists`). A ledger is `Reconciled` when the replay leaves no batch below zero, the batches add up to the balance, and a batch written off lapses, is empty now, and was written off by one row. Three lemmas show which rows keep that: credits that come in (`GiftReconciles`), a charge the balance covers (`SpendingReconciles`), and the rows of a plan that still is what the ledger says (`SweepReconciles`). The second rests on `ChargeTakes`: a charge of no more than there is takes just its amount, from all batches together and below zero from none, because what the batches before b leave unpaid telescopes.

*The market* (`LeadMarket`). `NoDebt` and `OnlyLeftoversExpire` are not inductive. What an open transaction has read is not in them, and what the sweep has planned is not either. `MarketInv` has three parts. `Board`: a referral is claimed by one request, the spending lock of an office is held by one request or one replica (`OneSpender`), and a claimed referral is unsold. `Books`: every ledger is `Reconciled`; whoever holds the lock still has the credits it read (`SpendingCovered`); what a replica is about to write off is still what is left (`PlansStand`). The last two are the point of the lock: credits arrive under none, but they only add and leave old batches as they are (`ReceivingAdds`, `PlansOutlastGifts`), while every row that takes something is written by the holder. `Sales`: the rows of a purchase, of its price, of its commission and of an offer are counted, one with the sale or the offer, none without. `MarketInvariant` gives `NobodyOwesCredits`, `LeftoversAloneExpire`, `SalesSettledOnce` and `OffersChargedOnce`, assuming of the constants no more than `MarketAssumption`.

*The desk* (`PayoutDesk`). `Covered`: the amount an open request has checked is in the balance until it is taken, because the lock lets one request of an office in (`OneAsks`) and everybody else only adds; a rejection adds, although it looks like a correction. `LegalDecisions`: a decision is written only from the status from which it was allowed. Hence `BalanceNeverOverdrawn`, and a sum is given back once (`RequestsDecidedOnce`), although "approved" may still be rejected. The balance is the running total of the module and not a sum over rows.

**NumberRentalProofs.** The longest. `TypeInv` says what jobs, rows and payments know of each other, among it that a live number has one row. `RequestInv` follows a release: whatever a job is about to release was asked for by a customer or an administrator, has been cancelled, or is crossed; `cancelled` rows have a customer who quit; what was found released stays released unless it is crossed. `LostOnRequest`, `QuittersNotCharged` and, with the payments, `MoneyAccountedFor` follow. `LeakInv` follows a number: a live row that has not noted a number that is held has a job about to note it (`Taken`), and a row about to be closed has given its number up or never noted one (`Dropped`); hence `NoNumberForgotten`.

The months of a rental follow the argument of the renewals (`MonthInv`): months held are before the rental's end and apart, months paid for before the end and outside what is held. `MonthsPaidOnce` follows under `ConfirmationsExtend`: a confirmed payment moves the end on. That a charge whose answer was lost is not repeated is harder, since that month is given back unpaid, and what stops the next attempt is the mark `past_due` alone. `LostInv` says of such a month that it lies before the end, or its rental is not active, or the replica that lost the answer is about to mark it; it is inductive as long as rounds do not meet (`overlap`, which `RenewedOnce` names) and no replica is killed between the rollback and the mark (`MarksFollow`). Hence `RenewalsNotRepeated`. `charged` has an entry for the months that begin up to `MaxTime + Period`; since the theorem holds for every `MaxTime`, that leaves out none.

**WhatsappSeatsProofs.** `SInv` is the types, with the one fact that makes them inductive: a seat in use has a period because whoever writes it as used, by id and whatever it has become, read it with one. `MInv` is the argument of the disjoint months for seats; `MonthsCollectedOnce` assumes `ConfirmationsGoOn`, that only renewals take the end of a seat back. `HoldersStayCovered` compares cardinalities: those who use the assistant, the one who is being added included, are at most the office's own, the extra ones, and the seats in use, unless a replica is about to revoke or a write that queues at no lock has passed another (`taken`). The quota the code computes is smaller than this bound, for it falls by itself at the hour a cancelled seat ends, and the sweep that closes the seat and revokes comes later; counting used seats instead of paid ones is what makes the invariant inductive. The facts about counting are the library's (`FiniteSetTheorems`).

Only model-checked: liveness (the prover has no rule for fairness or ENABLED here), with it `SidesAgree` of the calendar. Every safety property a passing run checks is stated by a theorem, some under the hypotheses named above. The seam of `MCLeadMarket`, a sale of the board that is a row of the desk, is checked by its run; the theorems are about each side for itself, where `Sale` may happen at any time. No module that is proved about reaches a RECURSIVE operator.

## 5. Where the code and its text disagree

The four runs that end in a violation check what a comment says. `PROJECT.json` quotes the lines.

- `charged_after_reject`: a poll that asked Cardcom just before the customer paid marks the row failed, and no later confirmation may claim a failed row (`billing.service.ts:529` against 57-60). A charge without a subscription remains.
- `charged_early`: the second replica claims the period it read after the first one renewed, and charges it a period ahead (`renewal.service.ts:259` against 25-27, 253-258).
- `charged_after_lost`: a seat whose charge was not answered is `past_due` so that nobody tries again, and `renewDue` tries seats past due again after a day (`whatsapp-seat-renewal.service.ts:123` against 203-204).
- `edit_lost`: a round pulls before it pushes, and Google hands out the round's own last push; what the office changed since is overwritten by its earlier version and never pushed (`calendar-sync.service.ts:367` against 346-351, `calendar.service.ts:228`).

Five more were found with TLC and have no run of their own in the project; each module states the property, so that a configuration brings the trace back.

- `PurchaseAddsPeriod` (`SubscriptionCheckout`): two purchases confirmed at once extend the same end, and one paid period disappears (`billing.service.ts:812`, `packages/shared/src/logic/billing.ts:87-89`).
- `OneDocument` (`InvoiceIssuing`): whether to search Linet first is decided from a read before the claim (`invoice.service.ts:277` against 269).
- `NoEventAbandoned` (`OutboxDelivery`): ten polls of a Redis that answers with errors, about twenty seconds, use an event up (`outbox-dispatcher.service.ts:111` against 36-39, `docs/02-architecture.md:128`).
- `NobodyForgotten` (`ViewingReminders`): the task about people nobody reached is keyed by the appointment without its time, so a viewing that was moved is stamped with neither a message nor a task (`viewing-reminder.service.ts:565` against 213-217).
- `RentedIsRouted` (`NumberRental`): a number rented again by the same office keeps the inactive routing row of its first rental (`number-rental.service.ts:507-529`, against the comment there).

Others were met while modelling.

Checkout and renewal:
- *A coupon on several pages.* A superseded page keeps its discounted amount and stays payable (`billing.service.ts:253-276`).
- *A free period.* The rollback of a declined renewal gives the period back only if the end is still the claimed one; a purchase confirmed meanwhile has extended it, and the unpaid period stays inside (`renewal.service.ts:301`).
- *The gate moves back.* A renewal's commit writes `paid_until` from the end computed before the charge, over a purchase confirmed meanwhile (`renewal.service.ts:325`).
- *An unpaid period after a crash.* A crash between the claim and the charge leaves the period advanced (259-281). A cancellation in the same window is still charged (87).
- *A document never queued.* `queueForPayment` runs after the commit (`billing.service.ts:775`); a crash between the two is repaired by hand (`platform.controller.ts:1930-1943`). The webhook answers 200 even when `apply()` failed (`cardcom-webhook.controller.ts:26-46`), so Cardcom does not call again.

Numbers (these fill `crossed`, or are reached by the module):
- *Paid and released.* `releaseNow` reads the row, gives the number back and closes the row by id; a payment that revives the rental in between loses it (`number-rental.service.ts:454-481`).
- *A number bought for a closed row.* A release during the purchase finds nothing to give back, and the purchase is then noted on a released row (355).
- *Released although paid again.* The sweep's list of cancelled rows is not read again before each release (`number-rental-renewal.service.ts:284`).
- *Back to life.* `markPastDue` and `cancel` write by id and turn a released or cancelled row into a live one (236). A customer who cancels while the renewal is being charged, and declined, finds the cancellation overwritten by `past_due`: `releaseDue` looks for cancelled rows only (268-273), so the rental stays, and keeps its number, until he cancels again. `CancelledIsReleasedInTime` leaves such a rental out (`Renewing`); without that TLC finds the trace.
- *Charged again after a lost answer.* The period is rolled back before the row is marked `past_due`; a replica that reads in between charges it (207-236). `RenewedOnce` leaves out rounds that overlap. A replica killed between the rollback and the mark has the same effect in its next round, by itself.

Seats:
- *Extra seats.* The platform checks the quota under the lock and writes after that transaction has ended (`platform.controller.ts:1324-1355`).
- *A paid seat cancelled.* The cancellation of an order overwrites a seat that was activated a moment ago (`whatsapp-seat.service.ts:247-251`).
- *A flag left on.* A replica killed between closing a seat and `revokeOverQuota` leaves one user too many until the next seat ends.
- *Overwritten.* A cancellation during a charge is overwritten by its outcome; an activation that read the end before a renewal's rollback writes it back.

Calendar and reminders:
- *Stamped too late.* An edit during a push is marked as synchronised with the rest (`calendar-sync.service.ts:453`). As long as the echo of the push is still to come, the next pull writes the old time back and the sides agree, on the wrong time. If another round has consumed the echo (A creates the event, B lists it and stores its token, the office moves the row, A stamps), the row and Google differ for good. The same if the push sends a deletion: the row that was rescheduled meanwhile has no event and waits for nothing (`overtaken`).
- *An older list written later.* Two rounds ask one after the other and write in the other order; if a third, or the first in its next turn, has already read the newer token, the row keeps the older time and no list brings the event again. Likewise if the row was stamped with another event between a pull's read and its write (409, 366; `overtaken`).
- *More than a page.* `changesSince` asks for 250 events and follows no `nextPageToken` (`google-calendar.service.ts:290-309`): without the next token the link goes back to full lists, of the first page.
- *An orphan.* A crash after Google created an event and before its id is stored leaves an event that returns as somebody else's meeting, next to the second one the retry creates (445). Two pulls of one foreign event create two rows, since no index makes event ids unique. A cancellation during a push leaves the event at Google.
- *Marks of another time.* A pull that read a row before it was moved keeps reminder and answer for the new time (`crossed`).
- *Two reminders.* Two replicas list a viewing before either has stamped it, and both deliver; the message goes out before the stamp.

Board, queues and payouts:
- *A lead sold twice.* `shareLead` looks for a sold referral before it inserts (`collaboration.service.ts:2157`). If a purchase is open at that moment, the insert waits for it at the partial unique index, and then succeeds, since the index knows only active rows. The comment at 2150-2156 says that a sold lead never returns to the board.
- *A converted lead is sold.* The origin lead's status is read before the transaction (2467-2483).
- *Two initial grants.* Two first reads of an empty balance both write the one-time grant (3083-3108).
- *Notifications twice.* A redelivered notification job writes its rows again (`workers/src/main.ts:163`), while `docs/07-performance.md:76` calls every job idempotent; and a rule whose transaction fails is skipped with a warning (2457).
- *Rejected after the transfer.* An approved withdrawal may be rejected until somebody marks it paid; the bank transfer in between is made by hand and known to no table.

## 6. Not modelled

Of the modelled components: refunds and the calendar arithmetic of `nextPeriodEnd` (checkout); the content of documents and mails; the other kinds of job; warnings before credits expire, ratings, shared demands and listings, deals (lead board); the platform's own list of 015 numbers and their renaming (numbers); tasks in the calendar and the window of a scan (calendar sync); the texts and channels of a reminder, and who is told of what (reminders). Policy tables (prices, fees, validity, quotas of plans) are constants: a change of them between two steps is not explored. Rows of other offices are left out where a tenant filter hides them.

Abstracted everywhere: amounts where nothing compares them, texts, logs, audit rows, and the isolation of tenants, which the modules assume. PostgreSQL, Redis, BullMQ, Cardcom, Linet, 015 and Google are modelled from how the code uses them and marked external in the map.

Most of the repository has no protocol to model: two thirds of its lines are the web client, the assistant's prompts and tools, screens and queries over single rows, and pure formatting. A model of those would restate them. What is left with state that several processes touch is the plan below.

## 7. Plan

Done: checkout, renewal, seats, numbers, invoices, outbox, lead board, payouts, calendar and reminders, each with proofs.

Next modules, in order of what is at stake:

1. *Recurrence*: the optimistic claim on `lastRunAt` and `updatedAt` against pause and edit.
2. *ContactLifecycle*: lock order of card, property and dependants (`common/locks.ts:10`, `contact-erasure.service.ts:195`, `workers/src/main.ts:1190`) as a deadlock question; erasure against recycling.
3. *BillingCalendar*: `nextPeriodEnd` with month ends and anchors as a function, against a reference definition, over a few years of dates.
4. Co-operation deals; refunds; offers by e-mail; telephony; `pushTasks` of the calendar round.

New questions take the place of small runs that others cover: `charged_early` joins `replicas` once its finding is settled, `edit_lost` joins `diary`, `charged_after_lost` joins `seats`.

Proofs to come: the composition of board and desk as one specification; what `nextPeriodEnd` keeps (monotone, anchored) once *BillingCalendar* is written; deadlock freedom of *ContactLifecycle* from the order of its locks.
