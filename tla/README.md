# nbread in TLA+

nbread is a multi-tenant blog host on Nostr: signed events (profiles, posts, deletes) are mirrored
into D1, rendered once, served as `<handle>.nbread.lol` through an edge cache, and offered back to
Nostr clients by a relay that lives in one Durable Object.  Authors sign in the browser, with an
extension, a pasted key, a phone app reached by redirect (Amber) or a remote signer reached over relays.
There is no lock anywhere in it.  Every request runs in its own isolate or handler, and every `await`
on D1, KV, the Cache API, a socket or a signer is a place where another request may run.  This directory
models the parts where that matters, checks them with TLC and proves the main results with TLAPS.

Paths below are relative to the repository root (`src/` in `PROJECT.json` paths stands for that root,
so `src/src/services/mirror.ts` is the repository's `src/services/mirror.ts`).

## Inventory

| Component | Code | State | Operations | What makes it hard | What makes it correct | Module |
|---|---|---|---|---|---|---|
| Event ingest | `src/services/mirror.ts`, `profiles.ts` | D1 `events`, `posts_fts`, `delete_horizons`, `profiles`; KV `gen:<pubkey>` | `mirrorEvent`, `applyDelete`, `upsertProfile`, `bumpGen` | four callers, check-then-write across round trips, rowid reuse, one bounded retry, a crash between steps | index and rows agree, the newest version wins, deletes stay deleted, the outcome does not depend on the order | `Mirror` |
| Edge cache | `src/middleware/cache.ts`, `tenant.ts` | Cache API entries keyed by `?g=<gen>`, KV gens | a page view; every writer's bump | KV is eventually consistent, slow renders, the tenant row is read before the gen | a page under a generation shows what the generation was written for | `EdgeCache` |
| Relay object | `src/relay/do.ts`, `protocol.ts`, `query.ts`, `http.ts` | socket attachments, `subs` table, in-memory counters | upgrade, AUTH, EVENT, REQ, CLOSE, fan-out, close, hibernation | handlers of one socket interleave at D1 awaits; attachments are copied across them | authentication and the allowlist verdict belong together, subscriptions are those asked for, nothing more is missed than a `limit` and a REQ under way explain, what is sent was visible when it was read | `RelayDO` |
| Cron refresh | `src/cron/refresh.ts`, `src/nostr/relay.ts` | `users.settings.$.sync.since` | `runRefresh`, `refreshUser`, `collectBacklog` | relays that are down, slow, truncate at `limit`, or forge | the watermark passes no event a run could have met and did not mirror; only verified ones move it | `Refresh` |
| Zaps | `src/services/zaps.ts` | D1 `zaps`, `zap_totals`, `lnurl_cache`; `$.sync.zap_since` | `refreshZapsForUser`, `storeZapReceipt`, `resolveNostrPubkey` | deferred receipts, forgeries, a key that rotates behind a cache, overlapping ticks | totals equal the receipts; no countable receipt is skipped; each within reach is counted | `Zaps` |
| Login and sessions | `src/routes/auth.ts`, `services/sessions.ts` | D1 `login_nonces`, KV `sess:<token>` | challenge, login, logout | replays, expiry, the sweep, KV lag | a nonce opens at most one session | `Accounts` |
| Publishing API | `src/routes/api.ts` | none of its own | `POST /api/mirror` | blocked gate and post cap are checked before the write | the cap is overrun by no more than the requests under way | `Accounts` |
| Users, moderation | `src/services/users.ts`, `routes/dashboard.ts`, `routes/admin.ts` | D1 `users` | claim, settings save, block, unblock | claims race; gates are read before the write | one handle per key and one key per handle, for good | `Accounts`, `EdgeCache`, `RelayDO` |
| Rate limiter | `src/services/ratelimit.ts` | D1 `rate_limits` | `checkRateLimit` | clocks are read before the upsert | the overrun is bounded by how often the row went back | `Accounts` |
| npub pages | `src/routes/main.ts` | Cache API cooldown marker, mirror budget | a visit mirrors a foreign key's posts | two ends filled under one credit count, overlapping visits | no hole between the oldest stored event and the newest page | `Accounts` |
| Remote signer | `public/js/signer-nip46.js` | pending request, timers, sockets, stored pairing | pair, sign, fall back to NIP-04, wait for approval | late and doubled answers, sessions that share a key, forged events | each call settles with its own answer; only the signer can downgrade a session | `Nip46Client` |
| Signing pages | `public/js/editor.js`, `profile.js`, `login.js`, `signer.js`, `signer-core.js` | `localStorage`: signer, one pending NIP-55 request | publish, delete, sign in, resume, retry, broadcast | the page unloads half way; all tabs share one slot | the server takes only what was approved | `Editor` |
| Drafts, uploads | `public/js/editor-toolbar.js`, `blossom.js` | `localStorage` drafts, placeholders in the text | autosave, restore, discard, upload | timers, unload, redirect, failover | the draft follows the text; no broken placeholder | `Editor` |
| Queries, search | `src/services/events.ts`, `search.ts` | none | reads | none of their own | visible posts only (index in `Mirror`) | - |
| Guards, rendering, text commands, vendored crypto, scripts | the rest | none | one request or one string at a time | none | not modelled | - |

How they interact: the relay object, `POST /api/mirror`, the cron refresh and the npub view all call
`mirrorEvent`; it, settings saves, moderation and zaps write `gen:<pubkey>`, which page views read; the
relay reads the allowlist from `users`, which claims and moderation write, and serves the rows ingest
stored.  The pages of the browser call `POST /api/mirror` and `POST /login`, and send what they published
to relays.

## Modules

| Module | Models | Used by |
|---|---|---|
| `Mirror` | `mirrorEvent`, `applyDelete`, `upsertProfile`, `bumpGen`, one action per await | `MCMirror`, `MirrorProofs` |
| `ReplaceableStore` | what ingest promises: one winner per slot, a hidden flag, a horizon per address, each delivery one step | `MirrorStore`, `RelayDO` |
| `MirrorStore` | the refinement mapping from `Mirror` to `ReplaceableStore` | `MCMirror`, `MirrorProofs` |
| `EdgeCache` | page views and writers of one blog | `MCEdgeCache`, `EdgeCacheProofs` |
| `RelayDO` | sockets, frames and handlers of the Durable Object, over `ReplaceableStore` | `MCRelayDO`, `RelayProofs` |
| `Refresh` | the cron refresh of one user over a pool of relays | `MCRefresh`, `RefreshProofs` |
| `Zaps` | the zap refresh of one author over a wallet and relays | `MCZaps`, `ZapsProofs` |
| `Accounts` | login, logout, publishing, claims, blocks, npub visits, all behind the limiter | `MCAccounts`, `AccountsProofs` |
| `Nip46Client` | clients of the remote-signer protocol, their sockets, the signers | `MCNip46Client`, `Nip46Proofs` |
| `Editor` | tabs that sign, publish, draft, upload and broadcast | `MCEditor`, `EditorProofs` |
| `MirrorProofs`, `EdgeCacheProofs`, `RelayProofs`, `RefreshProofs`, `ZapsProofs`, `AccountsProofs`, `Nip46Proofs`, `EditorProofs` | theorems | |

The modules meet at the operations one calls in another: `mirrorEvent` is opened up in `Mirror` and is one
step of `ReplaceableStore` in `RelayDO` (which the refinement `ImplementsStore` justifies for calls that do
not overlap) and one step in `Refresh`, `Accounts` and `Editor`; the bump is opened up in `EdgeCache`.

A definition named `X_bug` is `X` with a bug the code could plausibly have.  No action uses it; each one
breaks a property, which shows that the property says something about the code.

Several modules have a constant `Mixes` and a variable `mix`, fixed by `Init`: which actors and which inputs
a behaviour is about.  A run explores all its mixes; it keeps the small situations that matter in one
state graph without multiplying them with each other.

### Mirror

A request is one call; `pc` is what it awaits next.  `CheckPrior` is the prior-id read with the signature
check, `ReadHorizon` the horizon read before the loop, `ReadSlot`/`ReadMarkerSlot` the slot read of
`mirrorEvent`/`applyDelete`, `CommitEvent`/`CommitDelete` the D1 batch (one transaction, one action),
`CommitConflict` a batch that trips a constraint, `Recheck` the read after it, then `UpsertProfile` and
`BumpGen`.  `Fail` is an awaited call that rejects or an isolate that dies.  Rowids are explicit because the
code deletes by a rowid it read a round trip earlier: `FreshRowid` is SQLite's rule for tables without
AUTOINCREMENT, one above the largest in use, so the top rowid is handed out again.

### EdgeCache

A page is the pair (rows, css) it was rendered from: `rows` counts commits to the blog's tables, `css` is
the settings value in the tenant row.  A view resolves the tenant, reads the gen as its edge location sees
it (`edgeGen`), matches, renders, puts; a writer commits, then bumps.  `bumps` and `floor` are history: what
the blog was at each bump, and what had been announced at this edge when a view began.

### RelayDO

A request is an inbound frame being handled.  Everything up to its first D1 await is one action
(`TakeEvent`, `TakeReq`, `TakeAuth`, ...), every later await another (`LookUp`, `Limit`, `Mirror`,
`ReadServable`, `FanOut`, `QueryStored`, `PutSub`).  A handler carries what the code carries: its copy of the
attachment, whether it is to be serialized, its `now`, the rows it read.  `Hibernate` drops in-memory
counters, `Evict` the sockets and handlers too, and `Upgrade` sweeps rows no live socket owns.  A frame
answered at once with a NOTICE, an OK false or a CLOSED is `junk`.
Ingest is one step per event here (`Put`, `Erase` of `ReplaceableStore`); `MirrorElsewhere` is ingest by
another caller, which the relay does not fan out.

The filters of a REQ are a sequence of clauses.  A clause has the events its WHERE selects (`sql`), those of
them it matches (`match`: tag conditions other than `#d` are tested after the query), and its `limit`.
`QueryStored` is one statement, one D1 round trip: the newest `limit` rows of `sql`, then the tag conditions;
after the last one the merged rows are cut at the largest of the limits.  So a `limit` takes rows away before
the tag conditions do, and what is published between two statements may be in one and not in the other.  In
the code the limit is 100 unless the filter names one, and at most 500; in the run it is 1.  `lacks` and
`missed` are history: what a REQ's reads left behind or did not see, per handler and then per subscription.

### Refresh

A refresh is a record: the watermark it started `from`, its page and `until`, the relays still `asked`, the
page's `batch`, what it has `got`, then `credits` and the `mark` of its loop.  `Answer` is one relay's reply
to the page's REQ (any choice of the newest `Limit` matches), `BreakOff` the reply of one that is dead,
closes, or is still streaming at the deadline (any part of it), `EndPage` the decisions of `collectBacklog`,
`SkipFuture`/`PassStored`/`MirrorNext` the branches of the loop in `refreshUser`, `Bump` and `WriteSince` its
end, `Fail` a rejected D1 or KV call.  Ingest is one step; an event a newer version supersedes stands for one
a delete horizon refuses too.  Relays are assumed to honour the filter, so the batch is the user's own and the
`mine` filter of line 134 is left out.  A post may reach any of the relays up to `Delay` seconds after its
date (`Publish`), during a run or below the watermark.

`handled`, `dropped`, `cut`, `lost` and `skipped` are history.  `lost[w]` are the events run `w` cannot have
met: a relay broke off before it sent them, they reached a relay after it had been asked, or their own relay's
limit cut them off and `until` then went past them because another relay's events are older (`Overtaken`;
`cut` is what the page has cut off so far).  An event that a relay supplies after all leaves `lost` again.
`skipped` are the lost ones the run's watermark has passed, and posts that were dated below it when they came.

### Zaps

A run is a record again: `Begin`, `ReadCache`/`AskEndpoint`/`SaveKey` for `resolveNostrPubkey`, `Fetch` one
page of at most `Limit` receipts, `Lookup` those stored, `CountNext` one candidate of the loop (a forgery
costs a credit, a receipt whose post is missing sets the hold, one whose key is not the wallet's is left out),
`PassStored` one that is stored already and only moves the mark (those behind the candidate at which the cap
ends the loop are not looked at), `EndLoop` the hold at the cap, `Bump`, `WriteSince`.  A receipt is in
`Parses` when its tags, the request inside and its invoice agree; `storeZapReceipt` is one batch.

### Accounts

A request runs one D1 or KV call per step: `Meter` is the upsert of the limiter with the clock read before it
(`Ask`), `Pass` a limit that is out of reach in the instance.  A challenge then sweeps and inserts (`Issue`);
a login deletes the nonce row (`Consume`), verifies, and creates the session (`Open`); a publish reads the user
(`Gate`), the slot, the count, and mirrors; a claim reads the user and upserts.  `Vanish` is KV forgetting
a session, `Fail` a call that rejects.  A visit to an npub page resolves, reads the page's data, looks for the
cooldown marker, takes from the mirror budget, puts the marker, fetches a page of the newest events and mirrors
what is missing, newest first, and with credits left fetches another page below the oldest event
stored.  The author's events are numbered 1, 2, ... in the order of their `created_at`.

### Nip46Client

A client is one `createClient` with its transport.  `ConfigureBunker`, `ConfigureNostrconnect` and `SignEvent`
start its first request; `SocketOpens` flushes the frames queued behind a connecting socket, `SocketDies`
loses it; the `Take...` actions are the branches of `handleFrame`, one answer off the wire each; `Timeout` is
the timer of the pending request, of an approval, or of the pairing.  The signer answers a request once, with
a result, an error, something malformed, or after a prompt (`auth_url`); a request it cannot decrypt gets a
blob.  `RelayNoise` is what a relay can make of what it sees: an event that names the signer and is not signed
by it, one that the signer did write, to another client, and one it wrote to this client's key before.  The
second passes `verifyEnvelope` and does not decrypt, so it makes a pending connect go out a second time in
NIP-04, though the comment of `retryConnectWithNip04` speaks only of the session; the session itself stays as
it was. Encryption and decryption are the dialect of the answer; a signer answers in any dialect of `Writes`.
Request ids are a client and a method instead of random strings.

### Editor

A tab is a record: where its page is (`at`), the form, what the server sent, the draft on offer, the retry
state `armed` by a resumed event, uploads, and one connection per relay.  `HandOff` is `stashPendingAndGo`
with the unload and the draft it flushes; `Approve`, `Cancel` and `GoBack` what happens in the signing app;
`Callback` the page that loads then, with `resumePending` (`Resumed`), and what the login, editor and profile
pages do with it.  `ServerTakes` is the server's handler and the loss of the request or of its answer;
`Accepted` and `Rejected` the two continuations; `RelayTakes`, `Dare`, `Frame`, `SignChallenge` and `Deadline`
one broadcast attempt against a relay that may want AUTH.  A relay may also turn the event down for a reason
AUTH does not cure (blocked, restricted, rate-limited, invalid): the page takes any such OK false for the end
of the attempt, and nothing is stored there.  The page does not tell its user, who sees the post published:
the server has it.  A text is which edit it is and its image marks.  Drafts are keyed by key and mode
(`DraftKey`); the slug of `storageKey` is one for all modelled posts.

## Runs

| Run | Instance | Shows |
|---|---|---|
| `MirrorRace` | 3 calls from 9 deliveries (two post versions, two deletes, two tied profiles, another author, a forgery, a call told not to bump), failures, fairness | in any interleaving the index is coupled to the rows (`FtsCoupled`), acknowledged deletes have horizons (`DeleteAcknowledged`), no slot is emptied (`SlotsStayFilled`), and a call resolves (`CallsResolve`) |
| `MirrorIsolated` | 4 calls from 9 deliveries; calls of one author do not overlap | the outcome does not depend on the order (`OrderIndependent`), the profiles row is that of the stored event (`ProfileMatchesSlot`), and `Mirror` implements `ReplaceableStore` (`ImplementsStore`) |
| `MirrorRegress` | 3 overlapping calls | violation of `NewestWins`: rowid reuse lets an older version replace a newer one |
| `EdgeCache` | 2 views, 3 writers, failures, expiry, KV lag; settings saves do not overlap | pages carry their generation, no view is sent a page older than announced, and once the writers are done the pages under the current generation are current |
| `Relay` | 3 mixes: one socket with 2 handlers against blocks, claims, time, hibernation, eviction and D1 errors; two sockets, one publishing; one socket that waits for its answers | a cached verdict stays with its key and outlives a block by less than `AllowFor`; what was accepted was allowed; a live subscription misses only what a limit of 1 cut off and what falls between its REQ's first read and its put; subscriptions are as asked; tombstones are unsent |
| `Refresh` | 2 relays of different size, 5 events of which one is forged and one dated far ahead, any backlog of the others, limit 3, 2 pages, cap 2, 1 call or relay that fails, posts up to 2 seconds late, fairness | the watermark passes an unmirrored post only if no run could have met it (`NothingElseStranded`) and only verified events move it; a backlog that fits drains |
| `RefreshGap` | 2 relays that answer in full, limit 2, 3 pages | violation of `NothingStranded`: `until` is the oldest event of both relays, and the short page after it closes the window over a gap |
| `Nip46` | 2 clients, 1 relay, signers of either dialect, every pairing flow beside a signature, a storage that may refuse, one forged or replayed event per client, fairness | a call that returns returns its own answer, only the signer brings a session down to NIP-04 and a relay costs one repeated connect at most, every call settles |
| `Zaps` | 2 overlapping runs, 4 receipts (one forged, one malformed), a rotating key, a post that lands late or is deleted, limit 3, cap 2, 1 failed call, fairness | the totals are the sum of the stored receipts (part of `TypeOK`), the watermark skips none that could be counted, and each within reach is counted |
| `Accounts` | 2 requests that repeat at will, 4 mixes: logins; publishes and logouts; claims by two keys; npub visits over 7 events with a cap of 3 | a nonce opens one session, a limit lets through its maximum once more for each time the row goes back, the post cap is overrun by the other requests under way at most, a handle is final, npub visits leave no hole |
| `Editor` | 1 or 2 tabs in 10 mixes: editor, profile and login pages, with Amber or a signer in the page, uploads over 2 servers, 2 relays of which one wants AUTH | the server takes only what was approved; the text in the signing app is the stored draft, and none is left after publishing; no placeholder outlives its upload; an attempt that ended with a relay's answer left the event there or was turned down for good, by AUTH only where Amber cannot sign it |
| `EditorCallback` | the same | violation of `CallbacksLand`: the callback URL of an edit page has lost its query |

Why the bounds are enough: a stale read needs one reader and the writers between its two awaits; three calls
of `mirrorEvent` give a slot read, a replacement and a reuse of the rowid; a fourth lets an isolated history
have a version before and after a delete.  Two handlers, two requests, two clients or two tabs give every pair
of overlapping steps.  A limit of 3 with five events makes windows that close on the first page, on the last,
and not at all; with a cap of 2 the forgery and two posts exceed it.  Seven events and a cap of 3 are the
least with which a visit spends credits on the newest page and has fewer left than its backfill page wants.
Limits of 1 put the limiter, the post cap and the nonce window at their boundary; limits of 1 in a REQ of two
filters, and in one whose tag condition the query does not test, let a newer post displace an older match in
both ways.  Without any one of the four ways into `skipped` the `Refresh` run refutes `NothingElseStranded`,
so each occurs in it.  One forged or replayed event per client is enough for every branch of `handleFrame`;
more would only start timers again.  Two uploads and two servers give a failover beside another upload.  Every
count a run can raise (`Max...`, `End`, `edits`, `clicks`) is bounded in a guard.

Deadlock checking is off because every instance legitimately stops: the calls are finite, clocks and
budgets bounded.  Symmetry is used over calls, views, writers, handlers, sockets and the interchangeable values
of `Accounts`, which nothing distinguishes, and only in runs without liveness.

Fairness: `MirrorRace` has `WF(Handle(r))` per call: the Workers runtime resolves or rejects every promise, and
a rejection is the model's `Fail`.  `Refresh` and `Zaps` have `WF(RunStep(w))`: cron fires every 15 minutes, and a
relay or an LNURL endpoint that does not answer is cut off by a deadline.  `Nip46` has `WF(Timeout(c))`
alone: browsers run timers, and nothing is assumed of relays, signers or users.  Nothing is assumed about which
call goes first, and a failed call is never fair.

## Where the code and its texts part

Three runs expect a violation and are listed as findings in `PROJECT.json`: `MirrorRegress`, `RefreshGap` and
`EditorCallback`.  More can be reproduced with the configurations and definitions kept here:

- `tlc -config MirrorResurrect.cfg MCMirror`: with overlapping calls `NoResurrection` fails; the delete
  horizon is read before a delete that commits in between.
- `tlc -config EdgeSettings.cfg MCEdgeCache`: `SettingsFresh` fails; the tenant row with the theme is read
  before the generation, so the old theme is cached under the new generation until its TTL.
- `tlc -config RelayReauth.cfg MCRelayDO`: `AuthKept` fails for a client that does not wait; a stale copy of
  the attachment is serialized over a re-AUTH.
- `INVARIANT LivePostsCapped` in `Accounts.cfg`: "absolute per-pubkey cap" (`routes/api.ts:29-30`) is overrun by
  concurrent publishes, and by a deleted post published again, which is not counted; `PostCapBounded` is what holds.
- `INVARIANT SpeaksItsDialect` in `Nip46.cfg`: after a nostrconnect ack in NIP-04 the next request goes out in
  NIP-44 all the same, which a signer that reads only NIP-04 cannot answer; the pairing times out.
- `INVARIANT DraftSurvives` in `Editor.cfg`: a page that comes back from Amber offers the stored draft; left again
  before the offer is taken, it finds its form as the server sent it and removes the draft (`writeDraft` at
  unload, `editor-toolbar.js:521-536`), and the text is gone.
- "re-stash survives a reload of THIS page" (`editor.js:425-426`) is not so: the record is read only when the
  callback parameters are in the URL, and a reload has none (`Reload` loads a page with nothing armed).

Read in the code while modelling, without a run: `main.ts:603-604` looks for a post "once more" after an on-demand
fetch, which with data stored runs in `waitUntil`, so the second look comes before it; `blossom.js:258-259` says a
4xx surfaces at once, the loop goes on to the next server on any failure (`:296-306`).

Where a property holds only with a discipline the code does not enforce, the run names it in its specification
(`SpecIsolated`), its constants (`SavesOverlap`) or its mix (`inTurn`), and TLC refutes the property without
it.  Some disciplines are of the environment.  `NothingSkipped` needs relays that answer in full (`RelaysFail`
TRUE of `Zaps` breaks it: a short page is taken for a closed window) and receipts that reach a relay in the
second they are signed.  `NothingStranded`, the promise of the refresh's own comments, fails with two relays
that answer in full (`RefreshGap`), and with one that breaks off; `NothingElseStranded` needs nothing of
relays and says instead what may be passed.  That is nothing with one relay that never breaks off, posts that
arrive when they are dated, and none dated ahead of the clock: one that is, within the skew, moves the
watermark above posts signed after it. `BacklogDrains` needs a backlog that fits (`WorkFits`): with the code's
numbers 3 * 59 events, no two in one second, and a cap above the events that cost a credit on every run.
`ReachableAreCounted` likewise: a page of more than 60 receipts never closes, and as many deferred or forged
candidates as the verification cap starve those behind them.  `NoGap` holds while an author publishes no more
than one page between two visits that reach the relays and no visit breaks off over a page; beyond it the
events in between are fetched by no later visit.

## Proofs

Every invariant and every action property of the passing runs is a theorem, for every value of the
constants: any number of calls, sockets, tabs, relays and events, any bounds, any set of mixes.

| Theorem | Says | Under |
|---|---|---|
| `MirrorProofs!TypeCorrect`, `IndexCoupled`, `SlotsNeverEmptied`, `DeletesAcknowledged` | `TypeOK`, `FtsCoupled`, `SlotsStayFilled`, `DeleteAcknowledged` of `Spec` | |
| `MirrorProofs!IsolatedImplements` | `SpecIsolated => ImplementsStore` | |
| `MirrorProofs!OrderNeverMatters`, `ProfileFollowsSlot` | `OrderIndependent`, `ProfileMatchesSlot` of `SpecIsolated` | `~MayFail` |
| `EdgeCacheProofs!CacheTypes`, `CacheKeysHonest`, `ViewsNotOlder` | `TypeOK`, `PagesCarryTheirGeneration`, `ServedIsNotOlder` | |
| `EdgeCacheProofs!SettledPagesCurrent` | `SettledIsCurrent` | `~SavesOverlap` |
| `RelayProofs!RelayTypes`, `VerdictsBounded`, `AcceptedAllowed` | `TypeOK`, `VerdictBounded`, `AcceptedWasAllowed` | |
| `RelayProofs!TombstonesNeverSent` | `TombstonesUnsent`, and `[][OnlyVisibleTaken]_vars` | |
| `RelayProofs!OnlyTheReadMisses` | `NothingElseMissed` | |
| `RelayProofs!SubscriptionsAsAsked` | `SubsAsAsked` | a mix that waits does not fail |
| `RefreshProofs!RefreshTypes`, `OnlyVerifiedMovesWatermark` | `TypeOK`, `WatermarkVerified` | |
| `RefreshProofs!WatermarkStrandsNothingElse` | `NothingElseStranded` | |
| `ZapsProofs!ZapTypes` | `TypeOK`, with the totals | |
| `ZapsProofs!WatermarkSkipsNothing` | `NothingSkipped` | `~RelaysFail` |
| `AccountsProofs!AccountsTypes`, `NoncesOpenOne`, `LimitsBounded`, `PostCapsBounded`, `HandlesFinal`, `BackfillLeavesNoGap` | `TypeOK`, `NonceOpensOne`, `LimitBounded`, `PostCapBounded`, `ClaimsFinal`, `NoGap` | |
| `Nip46Proofs!ClientTypes`, `ReturnsOwnAnswer`, `DowngradesAreEarned` | `TypeOK`, `OwnAnswers`, `DowngradeEarned` | |
| `EditorProofs!EditorTypes`, `OnlyApprovedTaken`, `DraftsFollow`, `NoTokenLeft`, `AnsweredIsVerdict` | `TypeOK`, `OnlyApproved`, `DraftFollows`, `NoBrokenToken`, `AnsweredIsFinal` | |

The conditions of the last column are those the runs set.  `SpecIsolated`, `SavesOverlap` and `inTurn` are
disciplines the code does not enforce, and `RelaysFail` (of `Zaps`) is of the environment.

Mirror.  `FtsCoupled` is not inductive: a batch deletes by a rowid read earlier, which may by then belong to
another row.  The invariant adds that rowids and slots are unique, that a rowid a waiting call holds is
either still in the slot it read or not used by another slot (`ReadsOwned`), and the fact that makes this
inductive, `NoGapAtTop`: every rowid ever handed out and since freed lies below a row that took its slot, so
the reused top rowid goes to the slot that freed it.  Horizons only rise (`HorizonsRise`), which with
`DeletedStored` gives `DeletesAcknowledged`.

When calls of one author do not overlap, what a call has read is still true when its batch commits
(`IsoInv`: the id is not stored, the horizon and the slot are as read).  So a commit is one delivery to
`ReplaceableStore` and every other step a stutter (`IsolatedImplements`; failures included, since a batch is one
transaction).  For `OrderNeverMatters` the tables are tied to the deliveries that have ended: each has its slot
held by its event or a better one, nothing else is stored, a horizon comes from a delete that was offered, and the
flag is earned by a horizon or an e tag (`OrderInv`).  That gives the winner of each slot
and, but for posts that a delete names by e tag, the flags as functions of the set of deliveries.  Here a
failed call would count as offered and leave nothing.

EdgeCache.  Bumps are ordered (`BumpsOrdered`: a later generation was written for at least as many rows), a
key is a generation that was written (`KeysWritten`), a render follows the read of its key (`RenderedAfter`),
and the floor of a running view is kept (`FloorKept`).  Settled pages are current because a writer owes a bump
or the newest generation certifies the present rows and settings, no page shows rows that are not stored, and
one form at a time holds what it read (`SettleInv`).

RelayDO.  The verdict is bounded not only in attachments but in every copy a running handler may yet serialize
(`VerdictInv`); without that `Flush` breaks it.  The feed (`FeedInv`) needs that what passed the store stays
passed and what was once visible does not come back (`StoreOK`), and of a REQ that has begun to read that each
relayed event that matches a clause it is past is among its rows or accounted for as lacking: behind the limit
of the clause, behind the cap of the merged rows, or fanned out since the first read.  A fan-out that races a
delete may still send what it read before the delete: `TombstonesUnsent` says that a post the store never
showed is never sent, and `OnlyVisibleTaken`, proved with it, that the read each send rests on found the post
visible.  The subscriptions of a client that waits (`SubsInv`): one handler of the socket at a time, and what
was asked is the socket's rows, or what they will be after the put of the REQ under way.

Refresh.  `WatermarkVerified` speaks of the stored watermark only; `RunsSound` says the same of the one a
running refresh started from and of the one it carries through its loop, and that what it found stored had
been verified.  An overlapping refresh may have overtaken either, which does not matter: events stay verified.
`NothingElseStranded` follows each refresh through its steps (`StrandInv`): whatever the relays hold from
`from` on is `lost`, or has been got or is in the batch, or lies below the page's `until` or was cut off by
its relay's limit on this page, which leaves it below the next `until` or makes it `Overtaken`.  A page that
closes the window has cut nothing off.  In the loop each event is settled, lost, still to come, or not below
the mark; and when the watermark moves, the lost ones below it become `skipped`.  An event that another
refresh settles stays settled, which is why overlaps are harmless, and one that arrives is lost to every run
under way that has not got it.  Nothing is assumed of the relays.

Zaps.  Totals are sums over sets; that the recursive sum exists and grows by what is added is proved for a
least set for which it would fail.  `NothingSkipped` is the argument of Refresh with a hold: in a window
that was fetched whole, a countable receipt is counted, still to be counted, at or above the hold, or not below
the mark (`Windowed`).  A wallet does not go back to an older key (`WorldInv`).

Accounts.  The types need what a request may rely on at each step (`Fits`: a logout's token is of a session, a
visit's page is of events the relays hold), and that nothing it relies on goes away (`Kept`).  A nonce opens
one session because the name of a request about to open one is out of the table, is no other request's, and
opened nothing yet (`NonceInv`).  `LimitBounded` is not inductive: how much of the bound a window has used
depends on where the row stands, its count for the current window, its maximum for one that is over, and
nothing new for one that is still to come (`Filled`).  The cap needs that a request at its last step has either
counted, or deletes, or has a post to replace (`PostInv`); then it counts towards the bound or adds no post.
`NoGap` is proved of more than the stored events: those together with the first pages under way are without a
hole, because the credits last for a first page, and a later page lies right below an event that is stored
(`GapInv`).

Nip46Client.  An answer on the wire is for a client that waits, and in the dialect of its signer; every
request sent or queued is of a client that trusts a signer, for good (`Owned`), so NIP-04 in the client's flag
or in the stored pairing goes back to an answer of that signer, and NIP-04 in a request to that or to the one
repeat of a connect, which the flag `retried` records.  What a relay plays again was written by a signer in a
dialect it writes, to whomever.  A client settles once, and its timer is armed exactly while it waits.

Editor.  Nearly everything is a matter of one page and of what has been approved (`PageOK`).  An event is in
hand exactly while a page signs or sends it, and one that is sent was approved.  Upload numbers are given out in
order and a live placeholder is unique, so cutting out the first occurrence is cutting out the only one
(`CutOut`).  A relay that welcomed a key has no refusal of it still to deliver after the welcome, so a page that
sent its event again does not take an old refusal for the answer (`AttemptOK`).  Tabs meet in the pending record,
of which the invariant only says that it is of its event's kind, and in the drafts: a tab writes the draft of its
own kind of page and nothing else of another tab's (`OwnDraftOnly`).

The assumptions are those named in the modules (`EventAssumption`, `StoreAssumption`, ...): what kinds of values
constants have, that null values are none of the real ones, that events and receipts are finitely many where a
maximum or a sum is taken over them.  TLC evaluates them in the runs.

Left to TLC: liveness (`CallsResolve`, `BacklogDrains`, `EveryCallSettles`, `ReachableAreCounted`), which needs
`ENABLED` under fairness; and the properties the code violates.

## Not modelled

Text (markdown, CSS, XML, nip19), signatures (who signed is a field), HTTP details, paging of reads, D1 limits on
statement size, request guards (stateless checks of one request), the sweep of old rate-limit rows.

- Relay pool client: `fetchEvents` is one answer per relay, complete up to its limit or broken off; its sockets and
  deadline are not opened up.
- npub pages: relays answer in full or not at all, events share no second and no slot, forged events are not
  offered, the budget per address of the client and the view limit are out of reach; feeds mirror nothing.
- Zaps: the profile's `lud16` does not change; a receipt counted before a failed bump leaves pages stale until
  the next bump, which no property covers.
- Remote signer: `forget` during a session, and the QR page.  A relay that plays an `auth_url` again starts the timer of
  the request again; the run bounds how often, and without a bound the call would not end.
- Editor: the preview and its sequence number, the text commands of the toolbar (functions of text and
  selection), the confirmation of a pasted key, real deadlines, drafts over the size limit, undo of a restore,
  mirroring of uploads to further servers.  An image descriptor without a hash is accepted; a restored draft's
  placeholder may have the number of a new upload; text typed while a publish is under way is lost with the
  draft; publishing during an upload publishes the placeholder.  Two tabs that cross in the one pending slot
  lose both approvals, though nothing wrong is sent.

## Plan

1. `FetchPool`: the collectors of `fetchEvents` against their deadline, and that `Refresh`'s answers are theirs.
2. `Filters`: `matchEvent` against the SQL of `queryEvents` over bounded events and filters.
3. Proofs: that `RelayDO` and the loops of `Refresh` see of ingest what `ReplaceableStore` promises, one level further
   down; the least discipline under which `NewestWins` holds.
