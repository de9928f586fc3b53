# Legitas: specification and proofs

Legitas is a NestJS back end (`backend/src`) with a Next.js user interface (`frontend/`) for
writing, sending and signing contracts. This directory holds TLA+ models of the back end's
protocols, the TLC configurations that check them on small instances, and theorems about
them, checked by TLAPS for every value of the constants.

One fact about the code shapes every model. Handlers are `async` functions that issue one
database call after the other. Except in `CreditsService`, in the quote editor and in two
writes of `auth` there are no transactions; the checks at the top of a handler are made on
rows read once, and the writes that follow name a row by its id alone. Requests, the
scheduler's jobs and the mails people act on therefore interleave at every `await`. The models have **one action per
awaited call that reads or writes shared state**, and keep what a handler has read in a
record of locals (`tok[r]`, `own[o]`, `job`, `cred[r]`, ...).

## 1. Inventory

| Component (directory) | State | Operations | Talks to |
|---|---|---|---|
| contracts | `contracts`, `contract_versions`, `signers` rows | create, edit, send, remind, set status, cancel, archive, unarchive, add the owner as a signer, duplicate, bulk send | credits, pdf, storage, notifications, audit |
| signatures | the same rows, reached by a signing link | request and verify a one-time code, sign, decline | pdf, tsa, storage, notifications, audit |
| scheduler | rows of the others | 13 cron jobs: strike off signers whose link ran out, monthly credits, end of trials, expire quotes, anonymise the audit log, reminders, health check | nearly all |
| credits, referrals | `users.sendCredits`, `credit_transactions`, `referrals` | deduct for a sending, grant, monthly grant, bonus | contracts, admin, scheduler |
| billing | `users.subscriptionTier` | checkout, portal, Stripe events | Stripe |
| admin | `promo_codes`, `promo_code_usages`, `system_settings`, users' tiers | promo codes, tiers, maintenance mode, statistics | common |
| common | maintenance mode cached in the process | refuse requests during maintenance | admin |
| quotes | `quotes`, `quote_items` | edit, send, resend, accept or decline by link, convert to a contract | invoicing, webhooks, contracts |
| invoicing | `invoices` | issue at an external provider, retry | Billingo, Számlázz |
| webhooks | `webhooks`, `webhook_logs`, an in-memory map | trigger, deduplicate, deliver with retries, switch off | receivers |
| audit | `audit_logs`, a hash chain per contract that no code verifies | append, list, export, anonymise | every component |
| auth | `users`, `sessions`, `password_resets` | register, log in, second factor, lock out, change and reset the password | notifications |
| notifications, in-app notifications, reminders | mails, bell-menu rows | send, push over a socket, take reports on bounced mails | mail provider, audit |
| pdf, tsa, storage | objects in the object store | render, time-stamp, upload | external services |
| partner-monitor | `partners`, `job_listings` | scan job portals and websites, daily digest | external sites, scheduler |
| templates, clauses, tags, folders, contacts, comments, search, teams, portal, apikeys | own rows | create, read, update, delete | - |
| approvals | approval rounds | request, approve, reject | not imported by `app.module.ts`: unreachable at this commit |
| frontend | - | calls the endpoints | its overlapping calls are the nondeterminism of the models |

Behaviours that are hard to get right, and what makes each component correct:

* **contracts and signatures.** Signers with orders sign by link; the same link may be
  submitted twice, two signers may finish together, the owner edits or cancels meanwhile,
  links run out. Correct means: nobody signs before his turn or without a verified address,
  nobody signs twice, the sealed PDF names exactly people who signed and exists only when all
  listed parties have; whoever finishes a level invites the next one; the last one seals; a
  replaced link is always followed by a mail with the new one; every text that is shown or
  sealed is an edit of the version history with the fields of people whose turn had come.
* **one-time codes.** Guesses sent at once race the attempt counter. Correct means a bound on
  the guesses for one code and no guess that goes uncounted.
* **credits.** Absolute writes after stale reads, overlapping with increments. Correct means
  that no overlap creates credits and that every sending is paid for; the second does not hold.
* **quotes and invoicing.** Acceptance, decline, edits and expiry race on one row; an external
  provider is called in between. Correct means: an invoice is for what was accepted, and an
  issued one has a document issued for it, bears its number if the provider told it, and stays
  issued.
* **webhooks.** Retries over minutes with a stale failure counter. Correct means: switched off
  only after enough deliveries failed; every delivery comes to an end. That the failures follow
  each other, as the code says, does not hold.
* **billing and tiers.** Four writers of one field, events repeated and out of order, limits
  counted long before the row is made. Correct means: a paid tier was paid for or given, and
  the rows of a month exceed a limit at most by the requests that were counting at once.
* **promo codes.** Three writes after a test on an older read. Correct means: the counter is
  the number of redemptions and the limit holds but for requests that overlap.
* **audit.** Read-latest-then-append, and entries without hashes for bounced mails, after which
  the chain begins again. Correct means: every hashed entry leads back to a beginning, and the
  chain forks only where calls overlap or a bounced mail comes between.
* **maintenance mode.** A cache cleared on change while slow reads refill it. Correct means:
  no answer is older than the time to live. That the change is seen at once, as the code says,
  does not hold.
* **partner-monitor.** Scans record listings while the digest is read, mailed and marked.
  Correct means: what is marked as announced was announced.
* **auth.** Counters and sessions written after stale reads.

PROJECT.json lists these hazards with the line at which each bites.

## 2. Modules

| Module | Models | Lines of code |
|---|---|---|
| `ContractStore` | the rows behind one contract, creation, the clock | `schema.prisma`, `contracts.service.ts` create |
| `SignerApi` | endpoints behind a signing link: `verifyOtp` (right code), `signContract`, `declineContract` | `signatures.service.ts` 192-762 |
| `OwnerApi` | the owner's endpoints: `sendForSigning`, `updateContent`, `updateStatus`, `cancel`, `archive`, `unarchive`, `addSelfAsSigner` | `contracts.service.ts` 244-760, `deductForSend` |
| `ExpiryJob` | the hourly `expireTokens` | `scheduler.service.ts` 118-166 |
| `Signing` | the composition of the four, its properties and inductive invariants | |
| `SigningCeremony` | abstract specification: people join at the end of a queue, sign in turn, once, or leave | |
| `SignerOtp` | `requestOtp` and `verifyOtp` with codes, attempts, cooldown and expiry | `signatures.service.ts` 143-233 |
| `Credits` | one user's balance and ledger: sendings, grants by hand, a referral, the monthly job | `credits.service.ts`, `referrals.service.ts` 56-98, `scheduler.service.ts` 574-616 |
| `Invoicing` | the invoices of one quote, the provider that issues documents, `retryInvoice` | `invoicing.service.ts` 155-271, 390-430 |
| `Quotes` | one quote, composed with its invoices: edit, send, resend, delete, acceptance and decline by link, automatic invoice, conversion, expiry | `quotes.service.ts` 90-670, `scheduler.service.ts` 399-415 |
| `Settlement` | abstract specification: offers are agreed to, billed, documented and settled for good | |
| `Webhooks` | one hook and the deliveries to it: trigger, deduplication, tries, failure counter, switching off, restart | `webhooks.service.ts` 16-36, 70-120, 168-318 |
| `Tiers` | one user's tier: Stripe events, the trial job, tiers given by administrators and codes | `billing.service.ts` 36-186, `scheduler.service.ts` 22-48, `admin.service.ts` 574-621 |
| `TierLimits` | the monthly limits on contracts and quotes, composed with `Tiers` | `contracts.service.ts` 111-139, 600-625, `quotes.service.ts` 57-130, 553-567, 710-734 |
| `PromoCodes` | one promo code and its redemptions | `admin.service.ts` 758-851 |
| `AuditChain` | the hash chain over the log of one contract, and the entries of bounced mails | `audit.service.ts` 25-65, `resend-webhook.controller.ts` 175-203 |
| `MaintenanceCache` | maintenance mode and its cache | `maintenance.middleware.ts`, `admin.service.ts` 938-953 |
| `PartnerMonitor` | the job listings of one partner, scans and the digest | `partner-monitor.service.ts` 456-640, `scheduler.service.ts` 685-773 |
| `MCSigning`, `MCCredits`, `MCQuotes`, `MCWebhooks`, `MCMaintenance`, `MCServices` | small instances for TLC | |
| `SigningProofs`, `SigningSafety`, `SigningRest`, `SignerOtpProofs`, `CreditsProofs`, `QuotesProofs`, `WebhooksProofs`, `ServicesProofs` | theorems | |

Names follow the source where they can: `SignRead`, `SignFill`, `SignClaim`, `SignLog`,
`SignCollect`, `SignUpload`, `SignStamp`, `SignComplete`/`SignPartial`, `SignInvite` are the
successive awaits of `signContract`; `EditRead` ... `EditMail` those of `updateContent`; and so on. The
map in PROJECT.json gives the lines of each definition. Definitions called *mutants* are
plausible mistakes (a check forgotten, an update by id); no specification uses them, they
show that each property can fail.

Modelling decisions a reader should know:

* A Prisma query with `include` counts as one read.
* A failure (`TokFail`, `OwnFail`, `JobFail`, `CredFail`) may end a handler before any of its
  calls: an exception of a rejected call or the process stopping. Nothing resumes the work.
* The text of a contract is a record (`Texts`): the number of the edit that wrote it and the
  signers whose fields were filled in since. `SignFill` adds the signer to the text read at the
  start of the request and writes the result over whatever is stored by then, an edit or
  another signer's fields; it adds no row to `versions`. `final.text` is the text rendered into
  the sealed PDF, which is uploaded twice, the second time with a time stamp (`SignStamp`),
  unless that fails. The write of `variablesData` in the same step is left out: nothing modelled
  reads it.
* A link is a number, increased when `updateContent` renews it. Requests arrive with a
  current link; an outdated one is refused by the first query and changes nothing.
* Links work whatever `contracts.status` is. No handler of `signatures` looks at it, and the
  owner's page shows the link as a QR code (`frontend/src/components/qr-signing-modal.tsx:87`)
  in any status, so a signer may sign a draft or a cancelled contract.
* Contracts start as `create` leaves them. One made by `duplicate` has no version row, so
  `TextAccounted` is not claimed for it before its first edit.
* `deductForSend` is one action of `OwnerApi` (does the sending go on?) and two of `Credits`
  (a transaction's read and its commit): PostgreSQL runs it at READ COMMITTED, so a balance
  that was read may be changed by others before the transaction's own write.
* `adminGrant` does not check the sign of the amount (`admin.controller.ts` 335-343), so
  `Amounts` may hold negative numbers.
* An administrator's role, with which `deductForSend` spends nothing, is left out: it changes
  no balance.
* What a quote offers is the set of edits whose items it has: one after any edit that ran
  alone. `update` deletes and creates the items in a transaction at READ COMMITTED, and
  `deleteMany` does not see items another transaction is about to add, so two edits at once
  leave the items of both. `update` checks no status, so a quote may change after it was
  accepted. Edits that leave a quote without any item are left out of the model.
* `updateStatus` lets the owner decide for the client, to `accepted` or `declined` only
  (`quotes.controller.ts`), and bills nothing.
* An exception of the provider's call is caught and counts as a failure, whether or not the
  provider has issued the document: `IssueDocument` may issue one and still answer a failure.
  An answer of success may lack the number (a field that is not there, a pattern that does not
  match); the row is then stored as issued with the number column left as it was. That success
  means a document was issued is an assumption on the provider.
* Each acceptance makes a row of its own, so two acceptances at once make two invoices, and
  two retries of one row at once may make two documents. The properties say what an invoice
  stands for, not that there is one.
* A delivery of `Webhooks` reads the hook and tests for a duplicate in separate steps, because
  `triggerWebhooks` awaits the query; the test and the entry in the Map are one step, because
  `isDuplicate` awaits nothing. Forgetting a key is an action of its own: the time to live is
  what makes the entry count for nothing, whether or not it has been evicted.
* A write that succeeds in the database and fails for its caller (`SuccessLost`) counts as a
  failed try; the receiver gets the event again.
* Stripe's events stay in the set `events` for ever: an event may be handled late, twice and
  after its successors. A price that `priceMap` does not list (`resolvePriceId` lets any
  through) is `"unlisted"` and maps to `free`.
* `TierLimits` does not name rows: a row is one more of its kind this month.
  `allowed` holds the limits a user had in a month, so that a request which read its limit
  before a downgrade, or before the first of the month, is judged by the limit it had.
  `ContractsService.duplicate` tests no limit; its copies are counted by the others.
* Hashes of `AuditChain` stand for the entries they are computed from. `createdAt` has a
  resolution of a millisecond and the query may return any of the entries that share the
  latest one, so `Latest` is a choice. The server's clock is not set back, and the clock of the
  database, which stamps the entry of a bounced mail, is taken to be the same. An entry without
  a hash makes the next call begin at GENESIS (`audit.service.ts:40`), as an empty log does. The
  entries of the demo data (`prisma/seed-demo.ts`) are left out.
* A scan of `PartnerMonitor` looks a listing up and saves it in two calls; the unique index
  refuses the row two scans create at once. Whether a website is the portal with an API, whose
  missing listings expire (`ScanUnlisted`), is left open.

## 3. What is checked

A system with no request in progress and nothing left to do may stop (the counters are
bounded, rows end in final states), hence `CHECK_DEADLOCK FALSE` in every configuration.

| Run | Instance | Properties | What it shows |
|---|---|---|---|
| `SigningFull` | 1 party, 2 orders, 1 signer request, 1 owner request, job, clock, failures | `TypeOK`, `NoRevival` | all endpoints together: nothing makes somebody struck off pending or signed again; every action occurs |
| `SigningJoin` | 1 party of order 1 or 3, 2 rows for the owner, 2 requests on each side, failures | `OrderKept`, `SignedOnce`, `SignedVerified`, `FinalPdfSound`, `TextAccounted`, `CeremonyKept` | the owner adds himself twice at once while others sign, the same link twice or two signers; the rows refine the ceremony |
| `SigningEdit` | 1 party, 1 signer request, 2 owner requests, 2 edits | `TextAccounted`, `LinkDelivered` | overlapping edits, sendings, fillings and signatures |
| `SigningSealed` | 3 parties on 2 orders, 2 requests | `NobodyForgotten`, `Sealed`, `NextInvited` | the races between the last signers of a contract and of a level: at every moment somebody is left to do the rest, and it gets done |
| `SigningReopened` | 2 parties, 2 requests | `CompletedStays` violated | finding: a completed contract goes back to `partially_signed` |
| `SigningOverwritten` | 2 parties, 2 requests | `SignatureStands` violated | finding: a decline overwrites a stored signature |
| `CreditsOverdrawn` | 2 requests, amounts -1 and 1, tiers of 1 and 2, at most 3 credits | `SendsCovered` violated | finding: two sendings for one credit |
| `QuoteSales` | 2 requests of clients, 1 of the owner, 2 retries, 1 edit, 1 invoice, 2 documents, job, clock, failures | `SalesTypeOK`, `InvoicedAsAccepted`, `NothingEmptyAgreed`, `IssuedHasDocument`, `SettlementKept` | what is invoiced was accepted; an issued invoice stays issued and has its document |
| `Deliveries` | 2 deliveries, 2 keys, 2 tries, threshold 2, 4 events, failures, restarts | `HookTypeOK`, `HonestCounter`, `NotSwitchedOffEarly`, `DeliverySettles` | overwritten counts never switch a hook off before enough deliveries failed; every delivery ends |
| `HookSwitchedOff` | the same | `SwitchedOffConsecutive` violated | finding: a hook is switched off by failures that did not follow each other |
| `MaintenanceStale` | 1 request, time to live 2 of 3, no failures | `PickedUpImmediately` violated | finding: the old mode is served after the cache was cleared |
| `Services` | for each part: 2 requests or writers; 2 plans and 3 subscription changes; limits 1 and 2, 4 rows; 3 users and limits 0 to 2; 3 entries and 3 instants; time to live 2 of 5; 2 listings; 2 attempts and 2 codes; amounts -1 and 1, tiers of 1 and 2, at most 2 credits | `ServicesTypeOK`, `TierEarned`, `MonthlyLimitHeld`, `UsesCounted`, `UsesLimited`, `LinksGoBack`, `ForksExplained`, `StatusIsRecent`, `NotifiedWasMailed`, `MissesCounted`, `GuessesBounded`, `CreditsBacked` | seven parts that share nothing, each with overlapping callers |

Why the bounds are enough. The races are between a read and a write of one handler and one
write of another, so two requests per side show each, and two guesses at once already exceed the
two attempts for a code by one. Two parties give "same order", "different
order" and "the other one"; the third of `SigningSealed` gives a level of two followed by
another level. Two edits give overlapping edits. `MaxOrder`, `MaxEdits`, `MaxCharges`,
`MaxCodes`, `MaxEver`, `MaxInvoices` and `MaxDocuments` bound counters in the guards; the
theorems hold for every value of them. `JoinSpec`, `EditSpec` and `SignSpec` of `MCSigning` let
only some requests arrive, to afford more signers and requests for one question. `JoinSpec`
begins with the party on the lowest or the highest order, so that the owner joins behind it or
the bound stops him; `SignSpec` leaves out the filling in of fields, on which neither the sealing
nor the inviting depends.

`Deliveries` has one retry and a threshold of two instead of three and five: a delivery then
still fails first and succeeds later, two failed deliveries overlap, and the counter reaches
the threshold from below and passes it. `MaxEvents`, `MaxRows`, `MaxClock`, `MaxEntries` and
`MaxTime` bound counters in the guards. In `Services`, three changes of subscription give a
purchase, a second one or a change, and a cancellation, whose events arrive in any order;
three entries give two that follow the same one; a clock of five against a time to live of two
lets a cached value run out and be refilled by a read begun before the change.

`Services` is a sum, not a composition: the variable `part` says which of its components
moves, and the others stay in their initial states. They have no variable in common and no
property speaks of two of them, so every state of one that could break a property is reached
with the others at rest. Two of the choices are of the same component: `tier` interleaves all
that changes a tier, `limits` the requests that count, with the trial job and administrators
changing the tier meanwhile.

Fairness. The liveness properties assume weak fairness of what the server does next for a
request it has accepted (`TokStep`, `OwnStep`, `JobStep`): Node's event loop resumes a
handler whose call has returned. `HookFairness` is the same for a delivery (`DeliveryStep`): its
pauses are timers, `fetch` is aborted after ten seconds, and a database call returns or fails, so
the property needs no answer from the receiver. No request is fair: nobody has to sign or to send. And they
are checked in specifications without failures (`EditSpec`, `SignSpec`), since after a crash
nothing resumes a handler and the promise is not made; `SigningFull` and `SigningJoin` check
what must be true even then.

The five violations are real behaviours of the code:

1. `signatures.service.ts:619` writes `partially_signed` by id. With two signers finishing
   together the first one's request may read the rows before the second has signed, and write
   after the second has completed the contract. `contracts.service.ts:551` says that the
   status of a completed contract cannot be changed.
2. `signatures.service.ts:742` (and `scheduler.service.ts:137`) write by id after an older
   check, so they overwrite `signed`. The comment at `signatures.service.ts:440` claims that
   race is prevented; it is in `signContract` only.
3. `credits.service.ts:71` computes the balance from an unlocked read, so two sendings at
   once cost one credit.
4. `webhooks.service.ts:296` adds one to the counter as it was read before the first try. A
   delivery that fails after another one has succeeded and reset the counter writes it back, and
   the next failures add to it: the hook is switched off with a `lastError` (`:300`) and a log
   line (`:315`) that speak of consecutive failures, which they were not.
5. `maintenance.middleware.ts:87` fills the cache with an answer that was on its way while
   `setMaintenanceMode` changed the setting and cleared the cache, so that the mode before the
   change is served until it is `CACHE_TTL_MS` old. The comment at `admin.service.ts:952` says
   that the change is picked up immediately. `MCMaintenance` shows it without any failure or
   restart.

## 4. What is proved

TLAPS proves, for any number of signers, requests and any bounds:

| Theorem | States |
|---|---|
| `SigningProofs!SigningTypes` | `Spec => []TypeOK` |
| `SigningSafety!SignedInOrder`, `SignaturesOnce`, `SignaturesVerified`, `SealedWhenSigned` | `OrderKept`, `SignedOnce`, `SignedVerified`, `FinalPdfSound` are invariants |
| `SigningSafety!StruckOffStays` | `Spec => NoRevival` |
| `SigningSafety!SigningImplementsCeremony` | `Spec => CeremonyKept`, the refinement |
| `SigningSafety!TextsAccounted` | `Spec => []TextAccounted` |
| `SigningRest!NobodyIsForgotten` | `Spec /\ [][GoesThrough]_vars => []NobodyForgotten` |
| `SigningRest!NoLinkIsLost` | `Spec /\ [][GoesThrough]_vars => []NoLinkLost` |
| `SignerOtpProofs!MissesAreCounted`, `GuessingIsBounded` | `MissesCounted` and `GuessesBounded` are invariants |
| `CreditsProofs!CreditsAreBacked` | `CreditSpec => []CreditsBacked` |
| `QuotesProofs!SalesTypes` | `SalesSpec => []SalesTypeOK` |
| `QuotesProofs!InvoicesAgreed`, `InvoicesHaveDocuments`, `NeverEmpty` | `InvoicedAsAccepted`, `IssuedHasDocument` and `NothingEmptyAgreed` are invariants |
| `QuotesProofs!IssuedStays` | `SalesSpec => IssuedStands` |
| `QuotesProofs!SalesImplementSettlement` | `SalesSpec => SettlementKept`, the refinement |
| `WebhooksProofs!HookTypesHold`, `CounterIsHonest`, `SwitchedOffForCause` | `HookTypeOK`, `HonestCounter` and `NotSwitchedOffEarly` are invariants |
| `WebhooksProofs!TriesAreUsedUp` | `HookSpec => TriesRunOut` |
| `ServicesProofs!PaidTierEarned`, `MonthlyLimitsHold` | `TierEarned` and `MonthlyLimitHeld` are invariants of `LimitSpec` |
| `ServicesProofs!UsesAreCounted`, `UsesAreLimited` | `UsesCounted` and `UsesLimited` are invariants of `PromoSpec` |
| `ServicesProofs!EntriesLinkBack`, `ForksAreExplained` | `LinksGoBack` and `ForksExplained` are invariants of `ChainSpec` |
| `ServicesProofs!CacheIsRecent` | `StatusIsRecent` is an invariant of `MaintenanceSpec` |
| `ServicesProofs!MarkedWasMailed` | `NotifiedWasMailed` is an invariant of `MonitorSpec` |
| `ServicesProofs!ServicesAreTyped` | `ServicesSpec => []ServicesTypeOK`, for the sum of `MCServices` |

They assume only the named assumptions of the modules (`StoreAssumption`, `CreditAssumption`
and the like: the sets of signers are finite and disjoint, the bounds are numbers).

Two theorems have a hypothesis on behaviours besides, which says when a promise is kept:
`GoesThrough`. A signing request that has claimed its signature, and an edit that has
replaced a link, take their own next steps and do not fail. Everything else may fail, and any
request may stay where it is for ever, since no fairness is assumed. Without it the promise
is not made: nothing in the code resumes the work of a process that stopped after a claim.
`NobodyForgotten` is `Sealed` and `NextInvited` without time: as long as it holds, there is
somebody left to do what they say will be done. `NoLinkLost` is the same for `LinkDelivered`.

The theorems of `ServicesProofs` but the last are about each component's own specification
and do not use the sum of `MCServices`.

The arguments. *Signing.* None of the four properties is inductive, because a request acts on
what it read. `SigningInv` adds what each handler still knows: a request about to claim a
signature belongs to a verified signer whose turn has come (`RequestsSound`). That stays true
while others write, since a turn once reached can only be lost to a new signer of a lower
order, and `NewcomersLast` says there is none: the order the owner's row is to get, computed
from however old a read, exceeds that of every party. After the claim the row has `signedAt`
set for good; at most one request per signer is past it and has not logged (`OneLogEach`); and
the rows a request saw all signed still have `signedAt` set when the PDF is stored.
*Refinement.* The ceremony sees the rows only, so each handler step is a join, a signature, a
departure or a stutter; `SigningInv` gives the guards. *Texts.* `TextInv` says of the texts that
handlers have in hand, too, that the history has their edit, and `FieldsInv` that whoever is in
their fields had verified his address and had his turn, which nobody loses; as rows
are never deleted, whoever is in a request's text is among the signers its second read finds.
*Nobody forgotten.* A row becomes
`signed` by a claim only, and the request that claimed last has not looked at the rows yet; one
that looks when all of the lower orders have signed finds who is next, and goes on to upload or
to mail. Which request it is changes on the way, so the invariant says that there is one
(`Inviting`, `Sealing`). *Links.* No mail sent or in hand is ahead of its row (`LinksInv`), so
the link a row gets is new to everybody but the edit that made it, and that edit has its mail
in hand; requests that pass on an older link take nothing back. *Codes.* `OtpInv` relates the
number of guesses given for the code in force to the stored counter plus the requests that are
past the comparison, each of which counts once. *Credits.* `CreditInv` says that every balance
a handler still has in hand was once backed (`HandsBacked`); as credits given are never taken
from `ever`, it still is when it is written back. *Quotes.* What was accepted never leaves
`accepted`, so an acceptance may carry the items its update returned to the provider and back
(`ClientHolds`). The row it creates is `pending` until it records the answer, a retry wants a
row that has failed, and no two acceptances have one row (`RowsApart`): so the first attempt
and the retries never write the same row in turn, and a retry's late failure writes no status
(`RetryHolds`). With that every handler's step is a step of `Settlement`: the acceptance
agrees, its row bills, a call issues, an answer of success settles, and the rest are
stutters. Numbers are apart because the provider's next one is above all it has given
(`NumbersUsed`). Types need the same invariant: a request in the middle of a call has a row.
*Webhooks.* A counter that a delivery read long ago still counts only deliveries that failed
(`HonestCounter` speaks of what is read as well), so writing it back plus one, when one more
has failed, keeps it honest; and what is below the threshold in truth is below it in the row.
`CallsLeft` counts two calls for each try that is left, the post and the recording of its
success, so that a success whose record fails uses up a try as well. *Tiers.* `TierInv` says of
each tier about to be written what `TierEarned` says of the field. *Limits.* A row that is made
is one fewer request that may make one, so the sum of both is what stays bounded; when a
request passes the test, at most all the others have passed before it (`LimitInv`). *Promo
codes.* The same argument on users who redeemed, with `UsesCounted` to tie the tested counter
to them. *Audit.* What a call has read, of entries with or without a hash, stays true because entries are
only added (`StillLatest`) and because its time is taken after its read (`Follows`). *Maintenance.* A
status is stamped before it is read, so it was the setting's value at that time or later
(`MaintenanceInv`). *Listings.* What is marked is what was read for the mail, and marks come
after the mail (`MonitorInv`).

Only model-checked: the liveness properties (`Sealed`, `NextInvited`, `LinkDelivered`,
`DeliverySettles`), since liveness under fairness is beyond the prover. Of each the part that is
safety is proved: `NobodyForgotten` for the first two, `NoLinkLost` for the third, and `TriesRunOut`, a
number that each step of a delivery lessens, for the fourth; what remains is that a step
which is enabled is taken. Every invariant and every action property of a passing run is proved.

`IssuedStands`, `NoLinkLost` and `TriesRunOut` are in no run: the first is what `SettlementKept` says of
`settled`, the others are what `LinkDelivered` and `DeliverySettles` rest on.

## 5. Not modelled, and why

* External services (mail, object storage, PDF rendering, time stamps): I/O. What matters of
  them for the protocols is state of `ContractStore` (`mails`, `final`).
* The other columns of the rows, sanitising of HTML, wording of mails and audit entries.
* `sendReminder` and the reminder jobs: they mail a link once more and write nothing else.
* Login, second factor, sessions, password reset and account deletion (`auth`). Every handler
  writes one user's rows after its own read. Failed logins are counted from that read
  (`auth.service.ts:118`), so guesses sent together count as one, and a login that compared the
  old password may open its session after a change has deleted all sessions (`:464`); nothing
  in the code says otherwise, and what does hold restates single assignments.
* Single-row create, read, update and delete (templates, clauses, tags, folders, contacts,
  comments, reminders, teams, API keys, feature flags); listings, statistics and exports. The
  handlers hold no state between calls, and two at once leave one of the two results.
* Text: templates, redlining, PDF layout, parsing of pages, the texts of mails and of the
  language model. The properties do not depend on it.
* The user interface: two thirds of the repository's TypeScript, pages and dictionaries that call
  the endpoints above. The models let requests arrive in any order and number, which covers
  whatever it does.
* `approvals`: unreachable code. The `contract.*` webhook events: offered by the schema
  (`schema.prisma:516`) and the user interface, triggered by no line of the back end.

The map therefore covers the handlers with state and little else: of the back end's services
named in section 2, most of `signatures`, `billing`, `webhooks` and the middleware, between a
third and a half of `contracts`, `credits`, `quotes`, `invoicing` and `referrals`.

Behaviours the models have and no run claims or refutes. They are what the code does, and we
found no line of the repository that promises otherwise:

* `TrialWrite` sets a user to `free` who has paid between the job's read and its write
  (`scheduler.service.ts:43`).
* A late or repeated `checkout.session.completed` brings back the plan of a subscription that
  was cancelled (`billing.service.ts:100`); a second checkout gives a second subscription,
  whose cancellation sets the tier to `free` while the first goes on.
* Events of different quotes share a deduplication key where the payload has no id
  (`webhooks.service.ts:180`), so of those sent within five minutes all but one are dropped.
* Signers who fill in their fields at the same time overwrite each other's text, and an edit is
  lost in the same way (`signatures.service.ts:331`); what a signer filled in is in no version
  row.
* A sending that fails after `deductForSend` keeps the credit (`contracts.service.ts:386`), and
  a signer whose link ran out keeps the contract from being completed (`scheduler.service.ts:137`).
* A listing found by a second scan before the digest is read becomes `active` and is never
  announced (`partner-monitor.service.ts:464`).
* The audit chain of a contract forks where entries are written at once (`audit.service.ts:35`),
  and begins again after the entry of a bounced mail (`resend-webhook.controller.ts:194`).

## 6. Plan

Done: signing, one-time codes, credits, quotes and invoices, webhooks, tiers and limits, promo
codes, the audit chain, maintenance mode, the partner monitor.

What would come next, in this order:

1. `AuditChain` composed with `Signing` through `signedLog`: one chain for the log entries of
   the handlers modelled there.
2. `Tiers` composed with `Credits` for the monthly grant, in place of the tier of `Credits`.
3. Accounts and sessions, once the code ties a session to the password it was opened with.
