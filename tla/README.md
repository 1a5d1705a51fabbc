# A verification of JustiKey in TLA+

JustiKey keeps licence plate recognitions (LPR) sealed under keys the application
does not hold. A requester sees a plate only with an authorization an independent
approver signed, through a service on another host (the *disclosure service*), or
one more (the *custodian*), which counts every use and keeps a ledger of its own.
This directory models the parts of the program that carry those promises,
model-checks them with TLC and proves the central ones with TLAPS.

Contents: 1 inventory, 2 plan, 3 the modules and the code, 4 the runs,
5 bounds, 6 fairness, 7 proofs, 8 where the code differs from what is said of it,
9 what is not modelled, 10 how to run it.

## 1. Inventory

### Parts, their state and how they meet

    camera -> edge agent --POST /ingest--> application --call--> disclosure service
               state file,                  SQLite store          SQLite ledger
               buffer file                  audit log             or custodian --> key holder
                                            anchor log --POST-->  witness
    operator: seal_store, encrypt_store, enforce_retention, manage_keys,
              manage_sources, anchor_audit -- on the same store, other processes

| part | code | state it keeps | operations |
|---|---|---|---|
| disclosure service | `justikey/disclosure.py`, `scripts/disclosure_server.py` | use counts, spent presence nonces, authenticator counters, spent request nonces, registry versions, ledger | `/disclose`, `/index`, start (admission, purge), claim |
| custodian | `justikey/custodian.py`, `scripts/custodian_server.py` | the same store of uses and nonces, the registry versions it runs with, ledger | `open`, `search-token`, `index`, `key-info`, start |
| custodian's process | `scripts/custodian_server.py`, `justikey/transport.py` | connection slots, two windows of recent calls | listen, accept, read a frame, dispatch by role, mint a token, answer, end |
| custodian's clients | `justikey/transport.py` | none | one call with a time limit, never repeated |
| search and policy | `justikey/policy.py`, `justikey/webapp.py` | `authorizations.disclosure_count`, audit entries | `POST /search` |
| authorizations and approvals | `justikey/models.py`, `justikey/approvals.py`, `justikey/webapp.py` | `authorizations`, `users.signing_pub`, `used_totp`, audit log | request, approve, deny |
| principal registries | `justikey/registry.py`, `justikey/servicekit.py`, `scripts/manage_keys.py` | exported files, `meta` rows of version and digest | export, admit at start |
| audit ledger, anchors, witness | `justikey/audit.py`, `justikey/anchor.py`, `scripts/anchor_audit.py`, `scripts/witness_server.py` | `audit_log`, anchor log (fsynced file), witness file | append, anchor, verify, submit, record |
| ceremonies | `scripts/encrypt_store.py`, `scripts/seal_store.py`, `justikey/db.py` (`init_db`) | the rows' format, `meta`, key files, manifest | encrypt, migrate, verify, rekey-credentials, destroy-legacy-key, reseal-v4 |
| retention | `scripts/enforce_retention.py` | rows of the store | purge |
| edge agent | `scripts/edge_agent.py` | processed frames (memory and file), spool file | scan, flush |
| ingestion | `justikey/webapp.py`, `justikey/adapters.py`, `justikey/models.py` | `lpr_events`, `source_nonces` | `POST /ingest` |
| source management | `scripts/manage_sources.py`, `justikey/models.py` | `sources`, `source_credentials` | register, issue-key, rotate-key, suspend, reactivate, revoke |
| signed requests | `justikey/servicekit.py`, `justikey/disclosure.py`, `justikey/models.py` | nonce tables | sign, authenticate, forget |
| sign-in | `justikey/webapp.py`, `justikey/models.py` | `sessions`, `login_failures`, `used_totp` | login, second factor, logout, expiry |
| sealing and keys | `justikey/sealing.py`, `justikey/crypto_store.py`, `justikey/kem.py` | key files; a sealer cached per connection | seal, open, index |
| enclave attestation | `justikey/enclave.py` | none | verify a document |
| rate limiters | `scripts/custodian_server.py`, `scripts/disclosure_server.py` | windows of recent calls | allow |

Every HTTP server of the program is a `ThreadingHTTPServer`, one thread per request,
and each thread has a SQLite connection of its own in autocommit mode
(`justikey/db.py`): a statement is atomic, a sequence of statements is not, unless
the code says `BEGIN IMMEDIATE` (`disclosure.py` `claim`, the ledger append, the
ceremony). Parts on different hosts meet only through calls that may fail. Parts on one
host, the server and the operator's scripts, meet through the store, the key
files and the anchor log, without a lock in common.

### What is hard, and what makes each part correct

* **Disclosure.** Requests race on the count and on one confirmation; the proof is
  verified at one time and claimed at another; a thread dies between claim, opening
  and ledger entry; a restart purges rows. Correct: no approval is used more often
  than its limit, one confirmation pays for one disclosure while it lives, a refused
  request costs nothing, and what a caller received is in the ledger first.
* **Search.** One search makes a call for each record, and each may be refused,
  be reset or time out while its handler goes on; the custodian may restart with other
  registries between two. Correct: what is shown is paid for and recorded, a denial
  shows nothing, one search sees one policy, and every search ends.
* **The custodian's process.** Every connection holds one of few slots until its peer, its
  handler or a time limit ends it; a handler reads the clock before it takes the limiter's
  lock. Correct: every slot comes back, once, and every connection ends; no bucket admits
  more than its limit within a window; a token that left is in the ledger and was counted.
* **Audit.** Entries are committed, then anchored, then sent to a witness by threads;
  the anchor reaches the disk before the entry does. Correct: the anchor log stays
  one chain that matches the ledger, an anchored entry that is gone is reported, a
  ledger that lost nothing is never reported, whatever is appended while it is verified, and
  anchors follow the head, but for the entries whose anchoring failed.
* **Registries.** Version and digest are two commits, the roles are admitted one by one and
  recorded afterwards. Correct: nothing older than what was served is served, what is served is in the ledger, the
  latest export is admitted.
* **Approvals.** Two reviewers act on the same row; a code is submitted twice; a key is
  generated on first use. Correct: a decision is final, by another than the
  requester, verifiable and in the ledger, and one code approves once.
* **Sources.** Several operators mint and retire keys at once, and die between the
  statements. Correct: the feed keeps a key that works.
* **Ceremonies.** By default a store without observations is encrypted or sealed by `init_db`
  itself, without a record. Commands change database, key files, manifest and ledger in turn, die
  between any two of them, and run beside an application that holds old
  keys. Correct: no row or secret ends up under a key no file holds, and what is recorded as destroyed is.
* **Edge agent.** Frames, marks, spool and server rows are five stores without a
  transaction. Correct: no read is lost, and what an agent has an answer for it does not send again.
* **Signed requests.** A nonce is forgotten while a handler that checked the date is
  still on its way. Correct: each request is accepted once.
* **Sign-in.** Counters and sessions are read in one statement and written in
  another. Correct: a code opens one session, of its owner; failures lock, and not early.

The list of hazards, each at its line, is in `PROJECT.json`; so is the list of components.

## 2. Plan

Built, in this order, the most important behaviour first:

1. `UsageStore`, `DisclosureService`, and `Capability` with `DisclosureRefinement`;
   proofs of both `DisclosureServiceProofs`.
2. `AuditAnchor` (ledger, anchors, witness); proofs `AuditAnchorProofs`.
3. `Custodian`, composed with the application's search in `CustodianSearch`; both the
   custodian and the disclosure service stand on `UsageStore`, as both stand on the
   class `UsageStore` of `justikey/disclosure.py`; `SearchCapability`, which shows that the search implements
   the `Capability` of (1); proofs of both `CustodianSearchProofs`.
4. `RegistryAdmission`, `Approval`: where the keys and the approvals come from that (1) and (3) trust;
   proofs of both `AuthorityProofs`.
5. `Ceremony`, `Reseal`: how a plaintext store becomes the sealed store of (1) and (3);
   proofs of both `CeremonyProofs`.
6. `EdgeAgent`, `SignedIngest` over `Sources`: how rows get there, and from whom; proofs
   of both `IngestionProofs`.
7. `SignIn`; proofs `SignInProofs`.
8. `CustodianServer` over `RateLimiter`: the process around (3); proofs `CustodianServerProofs`.

Next, in this order:

* **To model.** Two instances of the disclosure service on one ledger (its purge runs
  before it binds its socket). Loss of unsynced commits under `UsageStore`, as `AuditAnchor`
  has it. Malformed registries in `RegistryAdmission`. The search of a v1 store, which the
  application opens itself. The disclosure service's `/index` over `RateLimiter`.
* **To prove.** Every safety property a run checks is proved. `FilesAreKept` could say more: of a file that is
  written again, the reads of a frame already marked are kept as well.
* **To state.** An abstract ledger which `AuditAnchor` with one process implements.

No module uses a RECURSIVE operator, so that each may be proved about.

## 3. The modules and the code

`PROJECT.json` `map` names, for each definition, the lines it stands for. Names are
the code's where TLA+ allows; a variable marked *history* has no counterpart
in the program and exists for a property. In all modules a step is what the program does
between two points where another thread, another process or a crash can be seen: a
statement on an autocommit connection, a transaction, one file operation, one answer.

* **UsageStore**: `claim` of `disclosure.py`, one transaction: forget the expired proofs, refuse a replayed one, refuse at
  the limit or after expiry (rolling the nonce back), or count. `purge_usage` at start. It also holds the
  changed forms of `claim` the mutants use.
* **DisclosureService**: one thread per `/disclose`. `Load` and `Verify` stand for the checks of the
  approval and of `presence.py` (with the stored counter read in one step and stored
  in another, where an authenticator made the proof), then `Claim`, open, record, answer. `Lose` is a thread that
  dies, `Crash` and `Start` the process. An approval or a proof is a model value with its
  issuing and expiry time; a signature is genuine or not.
* **Capability**: what the service promises: an approval is a counter of uses, each use bought with
  a confirmation, none beyond the limit. **DisclosureRefinement** maps the service's state to it.
* **Custodian** and **CustodianSearch**: the `open` handler with registry, approval and
  presence checks, the claim, `agree()` with the key holder, the ledger; and
  `POST /search` from the policy over `service_for`, the token call and one call for each record, to the
  count and the audit entry. `Presence` holds the approvals whose requester is enrolled.
  A call is answered, reset, or given up by the caller while its handler goes on. **SearchCapability** adds two history variables,
  the uses and the proofs that paid, which no step reads, and maps them to `Capability`: a use for each record.
* **RateLimiter** and **CustodianServer**: `_rate_ok` with the clock read outside its lock and its
  lists popped from the head; the accept loop, the semaphore, one thread per connection, a frame whose parts
  come or do not, the role each operation needs, the ledger entry before the answer, the `finally` that gives
  the slot back, and the end of the process. `transport` is `vsock` or, for development, `http`.
  What `open` does inside is `Custodian`'s.
* **AuditAnchor**: `append_event`, `maybe_anchor`, `create_anchor` (holding its process's
  lock), where anchoring may fail at any step and the append goes on (`AnchoringFails`, `PublishFails`), `verify_anchors` in its two reads, submissions that are delivered in any
  order or lost, and the witness's `record_anchor`. `durable` says how much a loss of
  power leaves of the ledger: SQLite in WAL mode with `synchronous=NORMAL`. The history variables `own` and `abandoned` say whose entry a
  thread is to anchor, and which entries' threads died or failed.
* **RegistryAdmission**: `cmd_export`, `admit_registry` with its two commits, the loops
  of the two services' `main` (`inLoop`: the custodian records after each role, the
  disclosure service after all), and an operator who carries, moves or restores files.
* **Approval**: `create_authorization`, `approve`, `deny`, `consume_totp`, `set_signing_key` and the audit entries as
  separate statements of separate threads. The history variable `keysMade` counts the keys generated for an approver.
* **Ceremony**: `init_db` (`InitDb`, `Enable`, `SealNew`), which switches a store without plaintext observations to v1 and on to v3 as
  its environment says, by default both; `encrypt_store.py` and four commands of `seal_store.py`, each a sequence of
  transactions and file operations, `Die` between any two, over a store that `Init` finds in plaintext or in v1; the application's
  connections (`Connect` settles on a cipher, `Insert` uses it), retention. The history variable `automatic` is the mode `init_db` gave the
  store, or "found" for a store in v1 from the start, of whose encryption nothing is known. **Reseal** is one command over rows of its own, some of which the old key does not open (`Unreadable`).
* **EdgeAgent**: scan, spool, mark, remove, save; flush in batches; the handler of
  `POST /ingest` row by row; a link and a server that fail; a source that is suspended. `deleteAfter` is the agent's option, either way.
* **Sources**: `manage_sources.py` statement by statement, each `Operators` member a command on its way; a new key is
  shown to the operator, who hands it to the feed, or dies first. It is the state `SignedIngest` verifies against.
* **SignedIngest** (EXTENDS `Sources`): a message signed with a date and a nonce under one of the feed's keys, any number of copies of it,
  handlers that check the date, forget and spend. `purgesFirst` tells the disclosure service's
  order (forget, spend) from the source's (spend, forget).
* **SignIn**: `/login`, `/login/totp`, `/logout` over `sessions`, `login_failures` and
  `used_totp`, one statement a step. A lock counts from the clock read before the counter.

The MC modules give the constants small values and declare bounds, symmetries and views (`Distinguished`); they contain no
definition of the system. Where a module describes two variants of the code (`inLoop`,
`purgesFirst`, `deleteAfter`), `Init` chooses one, and a run covers both.

## 4. The runs

Each run must finish without an error. Sentences of the repository the code does not keep are
the last definitions of their modules; section 8 says how to have TLC contradict them.


| run | cfg and module | properties | what it shows |
|---|---|---|---|
| `disclosure_presence` | `DisclosurePresence.cfg` on `MCDisclosureService` | `ApprovalBoundsUses`, `ConfirmationsBuyDisclosures`, `LedgerFollowsClaims`, `ImplementsCapability` | Three interchangeable requests race on one approval and two confirmations, one dying before the approval and one after it, through every crash, restart and clock tick: the cap, the confirmation, the expiry and the ledger hold, and the service implements the bounded-use capability. |
| `disclosure_hardware` | `DisclosureHardware.cfg` on `MCDisclosureService` | `GrantsBacked`, `EveryRequestEnds` | Two racing requests over two approvals, only the first one's requester enrolled, with two proofs of one authenticator and one made for the other approval: no approval is spent with another's confirmation, the counter is stored before anything is opened, and under fair scheduling every request ends. |
| `audit_one_server` | `AuditOneServer.cfg` on `MCAuditAnchor` | `RemovalReported`, `LogVerifies`, `AnchorsFollowHead`, `WitnessHoldsPublished`, `IntactLedgerVerifies` | Two threads of one process append, anchor and verify, through the pages and the scripts, while every second entry is anchored, with anchoring that may fail at any of its steps, a process crash, a loss of power and lost or reordered submissions: as long as the power holds the anchor log verifies at every moment and advances, every entry an interval beyond it is owed or was failed by its own thread, the witness agrees with it and a verification overlapping with all of it raises no false alarm unless an anchor overtook it; once the power took anchored entries, no verification accepts the ledger again. |
| `search_records` | `SearchRecords.cfg` on `MCCustodianSearch` | `ShownIsAccounted`, `AllOrNothing`, `OnePolicyPerSearch`, `OpeningsArePaid`, `EverySearchEnds`, `SearchImplementsCapability` | Two searches of two records each, on one approval or on two, of which one asks for presence, with custodian and application crashes, lost calls, late handlers, a failing key holder and a revocation between any two records: what is shown is accounted for, every search ends although the custodian has no fairness at all, and the whole is a bounded-use capability. |
| `custodian_server` | `CustodianServer.cfg` on `MCCustodianServer` | `TokenRateBounded`, `SlotsConserved`, `EveryConnectionEnds` | Three connections on two slots, on vsock and on HTTP, with a limit of one token and with none, with silent peers, garbled frames, ledgers that cannot be written, threads that cannot start, a crash and a restart: the window holds although clocks are read before the lock, no slot is lost, and on vsock every connection ends. |
| `registry_admission` | `RegistryAdmission.cfg` on `MCRegistryAdmission` | `ServedOnlyAdvances`, `ServedIsLedgered`, `LatestIsAdmitted` | Two roles, two sets of principals, exports that restart their numbering, restored backups and a start that dies between any two commits, in the custodian's loop or the disclosure service's: what is served never goes back, never changes silently, and is recorded. |
| `approval` | `Approval.cfg` on `MCApproval` | `ApprovalsStand`, `OneCodeOneApproval`, `LedgerTellsDecisions`, `DecisionIsFinal` | Two approvers, one of them with a key already, three concurrent requests on two authorizations and a process that may die: decisions are final, independent and truthfully recorded, a code approves once, and what an approver signed stays verifiable, unless two requests each made their first key. |
| `ceremony` | `Ceremony.cfg` on `MCCeremony` | `NothingLost`, `DestructionIsReal`, `StepsAreRecorded` | The whole ceremony from a plaintext store on, beside ingestion and retention, with credentials re-keyed up to twice and a command that may die anywhere: no row and no secret is left under a key no file holds, sealed rows stay findable, a recorded destruction is real, and where no command dies the ledger tells of every encryption but init_db's own, and the manifest and the ledger of every step after it. |
| `reseal` | `Reseal.cfg` on `MCReseal` | `PurgeIsFinal`, `ResealConverges`, `ApplicationFollows` | reseal-v4 in batches, interrupted, ended by a row that does not open and repeated, beside ingestion and retention: it converges on all the rows that open and resurrects nothing. |
| `edge_agent` | `EdgeAgent.cfg` on `MCEdgeAgent` | `NothingLost`, `RepeatsAreBounded`, `EveryReadArrives` | Two frames, kept or removed once recognized, one of them with a read the adapter rejects: of a crash of the agent, a fault of link, disk or server, and a suspension of the source any two happen; no read goes missing or is sent again after its answer, and under fairness every read is stored or refused in the end. |
| `signed_ingest` | `SignedIngest.cfg` on `MCSignedIngest` | `AcceptedOnce`, `FeedKeepsItsKey` | Signed requests, delivered any number of times to two handlers of a receiver that forgets nonces after it spends one, as ingestion does, or before, as the disclosure service does, while two operators run and abandon commands on the source: each request is accepted once, and the feed keeps the key minted last. |
| `sign_in` | `SignIn.cfg` on `MCSignIn` | `SessionsAreEarned`, `NeverLockedEarly` | Two users sign in and out in four interleaved requests while sessions expire and the process may die: a code opens one session, of the user whose password and code were given, and no account is locked early. |

Every property of a run has a mutant in `PROJECT.json`: a plausible
error in the code it guards, under which TLC finds the property violated with the same bounds.

Some properties are conjunctions of named parts, each with its own sentence in the module: `LedgerFollowsClaims`, `ApprovalBoundsUses`,
`GrantsBacked`, `ConfirmationsBuyDisclosures`, `OpeningsArePaid`, `AnchorsFollowHead`, `AllOrNothing`, `ServedOnlyAdvances`, `ApprovalsStand`, `LedgerTellsDecisions`,
`NothingLost` of `Ceremony`, `StepsAreRecorded`, `RepeatsAreBounded` and `SessionsAreEarned`. A part can be checked alone by naming it in
the cfg. Type invariants are parts of some (`AllOrNothing`, `ApprovalsStand`, `NothingLost` of `Ceremony`, `RepeatsAreBounded`); each
module's is proved.

## 5. Bounds, and why they are enough

Bounds are CONSTANTS of the modules and their values stand in the cfg files.

| module | bounds | why |
|---|---|---|
| DisclosureService | 3 requests, 1 approval, 2 proofs, Limit 2, MaxTime 3; or 2 requests, 2 approvals, 3 proofs, Limit 1, MaxTime 2 (MaxTTL 3 keeps the purge's horizon in reach) | one request more than uses and than confirmations; an approval that ends between two proofs' ends, so that each order of expiry, purge and claim occurs. Crashes and starts are unbounded |
| CustodianSearch | 2 searches, 2 approvals of 2 rows, one with presence, Limit 3, MaxVersion 1, TTL 1, MaxTime 2 | three uses for four records, so that the limit is met in the middle of a search; a partial failure needs a second record, a race a second search; one new registry version suffices to see two policies. The searches are interchangeable: when they are on two approvals, `OrderedFairSpec` puts the first on the first |
| CustodianServer | 3 connections in two mixes of callers (two who share a bucket and one who takes no token; one of every other kind), 2 slots, limit 0 or 1, Window 1, MaxTime 2, frames of up to 2 recv calls (MaxPieces 1), 2 lives | one connection more than slots; two callers of one bucket beyond its limit, and a clock that passes the window; a frame that is late in its second part; a restart that forgets the window |
| AuditAnchor | 2 threads of one process, Interval 2, MaxEntries 3, one crash, one loss of power | a race needs two threads; 3 entries at interval 2 give an anchor with a tail after it. Anchoring may fail any number of times. The view leaves out where a thread goes after anchoring, once it is past that choice. A server and a script at once are `ChainNotBrokenByItself` of section 8 |
| RegistryAdmission | 2 roles, 2 sets of principals, MaxVersion 2 for the first role and 1 for the second | one role changes between two starts while the other is admitted first or last. After a mishap, or in the disclosure service's loop, the view leaves out what only the properties that are silent there would read |
| Approval | 2 authorizations, 2 approvers, 3 requests, MaxStep 1 | two requests on one authorization and one on the other, with one code or two; a code is good in both time steps. `Init` lets authorizations be pending already |
| Ceremony | 2 records, 1 credential, 1 application thread, MaxRoot 2; `Bounded` follows a second re-keying only where nothing is left in plaintext, and nothing after encrypt_store was run on a sealed store or destroy-legacy-key refused, which changes no key and no row | a row of before and one of during the ceremony; a second re-keying. Deaths are unbounded. Two threads give no other result and three times the states. After a death the view leaves out the ledger, of which no property speaks there |
| Reseal | 4 records of which one does not open, 2 connections, batch 2, 1 death | more than one batch; a death inside it, a run ended by the damaged row, and their repeats; fewer damaged rows than a batch holds, so that the runs get on |
| EdgeAgent | 2 files with 2 and 1 reads, one of them malformed, each written once, batch 2, 2 calls; 1 crash, 1 fault, 1 suspension, at most two of the three (`BoundedFairSpec`) | a scan of two frames, a flush of two batches, an answer lost and its repetition. A file written again before it is read is `RewrittenIsNew` of section 8 |
| SignedIngest | 2 messages, 2 handlers, 2 operators, MaxKeys 3, Window 2, MaxTime 8; `Bounded` follows key changes at time 0 and for one message, and past that only states with one key and no command | four windows: a nonce is stored, forgotten and asked for again; three keys: the first, and one for each of two rotations that cross. Keys and nonces meet in no condition of the code but that a request is checked against both. The proofs have no bound |
| SignIn | 2 users, 4 requests, MaxFailed 2, Lockout 1, lifetimes 1 and 2, MaxTime 2 | two failures lock, so two that overlap matter; a pending session ends before a full one |

Deadlock is checked for `EdgeAgent`, `RegistryAdmission`, `Reseal` and `SignedIngest`, where something can always
happen. It is off for the others: requests, connections, searches, commands and the clock are finite there, and the system stops when they are done.
`SYMMETRY` is used only in runs without liveness properties, over names the specification does not tell apart.
So is `VIEW` (`Ceremony`, `AuditAnchor`, `RegistryAdmission`): it hides what neither an action nor a property of the run can
read any more, so that each state TLC leaves out has the behaviours of one it keeps.

## 6. Fairness

Liveness is stated under `FairSpec`, whose fairness is what the scheduling of the code gives:

* **DisclosureService** `WF(Handle(r))`: a runnable thread runs; SQLite's busy timeout and the
  absence of loops in the handler make each step possible. `WF(Start)`: the service manager restarts the process.
  Nothing forces a request to survive: `Lose` and `Crash` may end it, which is an end.
* **CustodianServer** `WF(Work(c))`: the accept loop and the threads run, and on vsock a recv ends at
  its time limit. No peer is obliged to send (`ReadPiece`, `ReadFrame` and `PeerGone` are not fair), and on HTTP
  nothing limits the wait, so `EveryConnectionEnds` is about vsock.
* **CustodianSearch** `WF(Step(s))` for the application's own threads only. The
  custodian has none: it may never answer, since every call has a time limit.
* **EdgeAgent** `WF(AgentStep)`, the agent's loop, and `WF(Serve(c))`, the server's
  threads. Crashes, faults and suspensions are unfair and few, and no fair action waits for one; `ReactivateFeed` is not fair.
* **Reseal** `WF(Step)`, `WF(Begin)`: the operator runs a command again that was interrupted, as
  its documentation asks; `WF(EndRequest)`, since a request's connection is closed
  with the request; `SF(SealerFor)`, as requests keep coming.

## 7. Proofs

TLAPS checks every theorem for all values of the constants that satisfy the
modules' assumptions: any number of requests, approvals, threads, processes, messages, any limit or
window. TLC evaluates those assumptions in every run. They say of the constants what the program gives for granted: a
registry admits each role once (`RolesAssumption`), a process has finitely many threads
(`AnchorAssumption`), a batch is not empty (`BoundsAssumption`, `BatchAssumption`). Two theorems assume more, and say it:
`SignedOnce` of the clocks, `ReadsAreKept` of the camera. Each proof module begins with the invariant its theorems need, in named parts;
each was checked with TLC on the module's run before it was proved. `AuthorityProofs`, `CeremonyProofs` and `IngestionProofs`
hold the theorems of two modules each, whose definitions therefore bear different names.

| module | theorem | property | what it establishes |
|---|---|---|---|
| `DisclosureServiceProofs` | `TypeCorrect` | `` | Every variable of the disclosure service keeps its type. |
| `DisclosureServiceProofs` | `ApprovalBoundHolds` | `ApprovalBoundsUses` | However many requests race and however often the process restarts, no approval is granted more than Limit times, no two grants get the same count, and a second or later use is granted only within its life. |
| `DisclosureServiceProofs` | `ConfirmationHolds` | `ConfirmationsBuyDisclosures` | Of two grants that spent one proof the later came after the proof had expired, and every spent proof bought a grant: refusals cost no confirmation. |
| `DisclosureServiceProofs` | `LedgerHolds` | `LedgerFollowsClaims` | What reached a caller was paid for and is in the ledger, and the granted entries of one approval carry distinct counts. |
| `DisclosureServiceProofs` | `GrantsHold` | `GrantsBacked` | Whatever races, dies or restarts, a disclosure that needed a confirmation had one made for its own approval, and the authenticator counter it carried is still stored. |
| `DisclosureServiceProofs` | `ServiceImplementsCapability` | `ImplementsCapability` | The service, for any number of requests, approvals and proofs, implements the abstract bounded-use capability. |
| `AuditAnchorProofs` | `TypeCorrect` | `` | Every variable of the audit ledger and its anchors keeps its type. |
| `AuditAnchorProofs` | `LossIsReported` | `RemovalReported` | For any number of threads and processes, a ledger that lost an anchored entry never verifies again. |
| `AuditAnchorProofs` | `OneProcessVerifies` | `LogVerifies` | With one process, any number of threads and crashes, the anchor log is one chain that matches the ledger. |
| `AuditAnchorProofs` | `WitnessAgrees` | `WitnessHoldsPublished` | With one process, what the witness holds is what was published, through loss and reordering. |
| `AuditAnchorProofs` | `AnchorsFollow` | `AnchorsFollowHead` | With one process, any number of threads and crashes, each anchor is further on than the one before, and an entry an interval or more beyond the last one is one whose own thread has yet to check or to anchor, or died or failed before it had: where anchoring keeps failing, the tail has no bound. |
| `AuditAnchorProofs` | `NoFalseAlarm` | `IntactLedgerVerifies` | With one process, a verification that overlaps appends, anchors and crashes accepts the intact ledger unless the last anchor is beyond the head it read. |
| `CustodianSearchProofs` | `EveryShownRecordIsAccounted` | `ShownIsAccounted` | For any number of searches, records and restarts, every record shown was opened and entered by the custodian and entered by the application. |
| `CustodianSearchProofs` | `OnePolicyHolds` | `OnePolicyPerSearch` | Every record of one search was opened under the registry the search was given when it connected, across any restarts of the custodian in between. |
| `CustodianSearchProofs` | `AllOrNothingHolds` | `AllOrNothing` | A denied search has opened nothing and a counted one has opened its whole scope. |
| `CustodianSearchProofs` | `EveryOpeningIsPaid` | `OpeningsArePaid` | However many searches share an approval and whatever times out, crashes or is purged, every record opened cost a use of its own within the cap, and a live confirmation opened one. |
| `CustodianSearchProofs` | `SearchIsCapability` | `SearchImplementsCapability` | For any number of searches, records, restarts and registries, application, transport and custodian together implement the abstract bounded-use capability, with one use for each record. |
| `CustodianSearchProofs` | `OpeningsAreBought` | `` | Every opening in the custodian's ledger carries the number of one of its approval's uses, and where presence is asked its proof is one that has paid. |
| `CustodianServerProofs` | `TokenRateHolds` | `TokenRateBounded` | In one life of the process, limit + 1 admissions never fit in a window, for any limit, window and number of threads, however long one sleeps before the lock. |
| `CustodianServerProofs` | `SlotsHold` | `SlotsConserved` | On vsock the free slots and the held connections always add up to the pool. |
| `CustodianServerProofs` | `ServerTypes` | `` | Every variable of the custodian's process keeps its type: an entry that is written, and one about to be, is the fate of a token. |
| `CustodianServerProofs` | `TokensPaid` | `` | A token that reached a caller was approved (for a search), counted and recorded, whatever crashed since. |
| `AuthorityProofs` | `OnlyAdvances` | `ServedOnlyAdvances` | For any number of roles, exports, restored files and deaths, what a role is served only moves forward: no older registry, no second contents under one number, and always what the next file is compared with. |
| `AuthorityProofs` | `LedgerTellsWhatWasServed` | `ServedIsLedgered` | Whatever the custodian ever served is in its ledger, where no start died between a commit and its entry. |
| `AuthorityProofs` | `LatestAdmitted` | `LatestIsAdmitted` | The registry exported last is never refused, as long as the exports are copied and no start dies. |
| `AuthorityProofs` | `DecisionsAreFinal` | `DecisionIsFinal` | However many reviewers act on one request at once, a decision keeps its outcome, its decider and its signature. |
| `AuthorityProofs` | `ApprovalsOnRecordStand` | `ApprovalsStand` | An approval verifies with the key on record when its approver was enrolled from the start, and also when not, unless two requests each generated a key for them; no approval is of one's own request. |
| `AuthorityProofs` | `OneCodeHolds` | `OneCodeOneApproval` | One authenticator code backs one approval of its approver, however many requests bring it. |
| `AuthorityProofs` | `LedgerTellsWhatHappened` | `LedgerTellsDecisions` | No ledger entry claims a decision somebody else made, and only a death between the two statements leaves a decision without its entry. |
| `CeremonyProofs` | `NothingIsLost` | `NothingLost` | For any number of records, secrets, requests and deaths: secrets stay under a key that a key file holds, while no sealed store is encrypted again; v1 rows do, while credentials are re-keyed once; and every sealed row is under the index key search uses. |
| `CeremonyProofs` | `DestroyedForGood` | `DestructionIsReal` | A root key whose destruction the manifest records is in no key file and opens nothing, from then on. |
| `CeremonyProofs` | `StepsOnRecord` | `StepsAreRecorded` | Of what the operator's commands did where none of them died, the encryption is in the ledger, the migration in manifest and ledger, and, with one re-keying, the end of a root key in the entry of its destruction; a store init_db encrypted or sealed by itself, as it does by default, is in neither. |
| `CeremonyProofs` | `PurgeStaysFinal` | `PurgeIsFinal` | However batches, deaths, repetitions, insertions and retention cross, no step of reseal-v4 brings back a row that retention deleted. |
| `CeremonyProofs` | `RepeatedRunReportsTruly` | `` | Once the meta row names the new key and no connection sealing to the old one is left, every later report that the old key opens nothing is true, for any rows and deaths. |
| `IngestionProofs` | `SignedOnce` | `AcceptedOnce` | A signed request is accepted at most once and forgotten only when stale, for every window, if clock lead and handler time together fit in it. |
| `IngestionProofs` | `FeedKept` | `FeedKeepsItsKey` | However many commands overlap and wherever they die, a feed nobody revoked keeps the key minted last. |
| `IngestionProofs` | `FilesAreKept` | `` | A read of a file the camera wrote once is, from the moment its frame is handled, in the spool, in the store or refused, whichever side dies and however often other files are written. |
| `IngestionProofs` | `ReadsAreKept` | `NothingLost` | The same of all files, for a camera that writes each of them once. |
| `IngestionProofs` | `RepeatsBounded` | `RepeatsAreBounded` | In well-typed states a read is stored again only for a fault, and a removed frame is recognized again only for a restart or a failed removal, for any files, batches, calls and bounds. |
| `SignInProofs` | `EarnedSessionsHold` | `SessionsAreEarned` | However many requests bring one code at once and wherever the process dies, a full session rests on a code of its own and on a pending session of the same user. |
| `SignInProofs` | `NoEarlyLock` | `NeverLockedEarly` | A wrong password is counted at most once by any number of overlapping requests, so no account is locked before the threshold. |

### The arguments

**The cap** (`ApprovalBoundHolds`, `LedgerHolds`). That no two grants share a count is not
inductive: a crash and a purge can remove the row the count comes from. `CapInv` adds
`RowCountsUses` (a row that is there counts every use granted so far), that a
purged approval is past its expiry and past every request that has verified it
(`VerifiedSeesRow`), that a process that is down handles nothing (`DownMeansIdle`) and that the row
stays within the limit (`RowWithinCap`). `LedgerInv` adds that the granted entries of the
ledger carry the counts of the claims that paid for them.

**The confirmation** (`ConfirmationHolds`). `ConfirmationsBuyDisclosures` says two things: a proof that
is live buys no second disclosure, and one that is spent while it lives did buy one. `PresenceInv` contains
`SpentUntilExpired`: the nonce of a granted claim is in the store until its proof has expired, which no
restart, purge or refused claim undoes. What the stronger sentence "one
confirmation, one disclosure" would need, that the proof is still live when it is claimed, the code does not
check, and section 8 shows it (`OneConfirmationOneDisclosure`).

**The confirmation's approval** (`GrantsHold`). `BackedInv` carries what the check of presence found from the check to the
grant: the proof names the approval it is spent on, and the counter it carried is stored before the claim,
in a table whose counters only grow, also when two requests of one authenticator cross (`CountersGrow`).

**The search** (`EveryShownRecordIsAccounted`, `OnePolicyHolds`, `AllOrNothingHolds`, `EveryOpeningIsPaid`). `OpeningInv` relates what
the search has to what the custodian did: the rows received and the one whose answer is on its way are exactly the
rows opened (`ReceivedIsOpened`, `OpenedIsReceived`), nothing is opened before the calls begin (`UnaskedOpensNothing`), and
a call that passed its checks runs under the registry the search stated, in a custodian that has not restarted since
(`CheckedUnderHeld`). `CountInv` is the argument of the cap once more, with one use for each record: calls that have
paid hold uses of their own (`PaidUsesDistinct`) that the row still counts. `PaymentInv` adds the confirmation: a
search that pays a second time with one proof does so after the proof expired (`SecondPaymentIsLate`).

**Registries** (`OnlyAdvances`, `LedgerTellsWhatWasServed`, `LatestAdmitted`). What is served is compared with
what is committed, but version and digest are two commits, so between them the table describes no registry
at all. `CommitInv` says what holds nonetheless: nothing served is above the committed version, what is served under
that version has the committed digest (`ServedWithinCommitted`), and a version that is about to get its digest is
above every version served (`CurrentAdvances`); a start that dies there leaves the new
version with the old digest, and whatever file agrees with that pair is above all that was served. `RegistryLedgerInv` adds that what the custodian committed is on record, the role under way excepted
(`CommitsOnRecord`). `ExportInv` follows the file from the application to the host: as long as nothing is moved and nobody
dies, the file the application holds is above all it ever exported (`LatestIsNewest`) and what is committed was
exported (`CommittedWasExported`), so the last export is acceptable. With a move or a death it is not (section 8).

**Approvals** (`DecisionsAreFinal`, `ApprovalsOnRecordStand`, `OneCodeHolds`, `LedgerTellsWhatHappened`). `DecisionInv` is the base: a
decided row names a request of a reviewer other than the requester, and a request that has not come to
its UPDATE decided nothing (`UnfinishedDecidedNothing`). `SignatureInv` says that what an approver signs with, at every place of the handler, is a key enrolled before or one generated
for that approver (`RequestsSignWithKey`), and that a key once there is never gone (`OwnKeyOnRecord`): with one such key it is
the one on record. When two were generated at once an approval may no longer verify, and section 8 shows it
(`EveryApprovalVerifies`). `CodeInv`: requests past `consume_totp`, and those that approved, hold
spent codes, no two of one user the same (`CodesDistinct`). `LedgerInv`: each decision is in the ledger, or its
request is about to write the entry, or died (`DecisionIsOnItsWay`).

**Sign-in** (`EarnedSessionsHold`, `NoEarlyLock`). `FactorsInv` ties a request that brings a code to the owner of the
pending session it found, which may be closed meanwhile by another request (`ConfirmsOwnPending`). `CodeInv` is as for approvals. The
counter is read by one statement and written by another, so it may lose failures; that it never gains
one needs room: a counter, or a value about to be written to it, leaves room for all wrong passwords not counted
yet (`RoomForUncounted`, with the cardinality of the requests still to count).

**The limiter and the slots** (`TokenRateHolds`, `SlotsHold`, `TokensPaid`). A list of a bucket need not be sorted, as
its times are read before the lock. `LimiterInv` says that it is nonetheless the end of what the bucket counted
(`WindowIsSuffix`), and that what is no longer in it was read more than a window ago or in an earlier life (`GoneAreOld`):
the loop pops from the head, so the head it leaves bounds nothing behind it, but all it popped was old. With the
list no longer than the limit, of any limit + 1 admissions in a row the first has been popped by the last.
`SlotsConserved` is inductive with the places of the connections (`PlacesOK`): each
way out of a connection goes through `Close`, once. `PaidInv` follows a token from the count to the entry to
the answer. `ServerTypes` adds that the handler about to write that entry has the fate of a token in hand (`RecordsFate`).

**The capability** (`ServiceImplementsCapability`). Each step of the service is a step of
`Capability` or leaves its state unchanged: a granted claim is the use, everything else
stutters. `RefinementInv` relates the row exactly to the number of grants (`RowIsExact`); the purge maps to a stutter as the
abstract count is the number of grants and not the row.

**The search's capability** (`SearchIsCapability`, `OpeningsAreBought`). One use for each record, in a process that may
die with a use in hand: neither row nor ledger remembers what was spent, so the two history variables do. They change with a claim and with
nothing else (`HistoryStep`). `CapabilityInv` is `CountInv` and what the history adds: a row that is there is exact, one that is not belongs to
an approval past its expiry (`RowIsUses`); a call that passed its checks sees all uses in the row
(`CheckedSeesUses`), because a claim that finds no row counts from one; a confirmation that paid stays spent until it expires
(`BoughtIsSpent`). `OpeningsAreBought` ties the history to the ledger, without which the refinement would say nothing of
records: every opening has the number of one of the uses.

**The ledger and its anchors**. `LossIsReported` holds for any number of processes. `LossInv` says
that identifiers only grow, what a thread has read is a beginning of what there was, and an anchor
over a lost entry contradicts the ledger for good, whatever is written
over it (`LossShows`). `OneProcessVerifies` and `WitnessAgrees` assume one process;
`ChainInv` then says that the one lock is held between reading the last anchor and writing the next (`LockHeld`, `LastHeld`), which is what a second
process breaks (`ChainNotBrokenByItself`, section 8). `AdvanceInv` adds that each anchor covers more than the one before it and that a
thread holding the lock has read a head beyond them all, and from it `NoFalseAlarm` shows the other side of `LossIsReported`: when nothing was lost, a
verification that reads the ledger before the anchors while others append and anchor reports nothing
(`IntactLedgerVerifies`). `AnchorsFollow` needs the converse of order, that anchors keep up: `TailInv` says of every entry an interval or more past the last
anchor that its own thread is still on its way to anchor it, or died or failed first. It carries because a thread that has read
a head has read its own entry (`HeadsSeeOwn`): when it finds less than an interval to anchor, or the head anchored already, its
entry is not one of those, and when it publishes, its entry is covered. It is stated entry by entry, as an anchor of another thread moves the last one.

**The feed's key** (`FeedKept`). `KeyInv` says that a command past its minting has a key (`ShowsMinted`) and that a rotation on its way
retires keys older than the one it minted (`RetiresOlder`); so of two rotations that cross, the key of the later mint
outlives both.

**The ceremony** (`NothingIsLost`, `DestroyedForGood`, `StepsOnRecord`). All three rest on `KeyInv`, which says where a root
key can be: in one key file at a time (`KeysInOneFile`), and nothing files or holds a key that was not made (`KeysAreMade`); a staged key is newer
than what any request has in hand (`StagedIsNew`); and, for each command, what its program counter implies of files and store
(`PlainStore`, `Rekeying`, `Destroying`, `Encrypting`). `ReadableInv` carries the promise through the requests that
straddle a command: what a request settled on before it is still readable when it stores it after
(`SecretsReadable`, `RowsReadable`, `Findable`). `DeathInv` says of the key a manifest calls destroyed, on disk or about to be
written, that no file, row, secret or request has it (`DestroyedIsDead`). `RecordInv` says of each step that it is recorded, its record is on its
way (`StepOnItsWay`) or it was `init_db`'s own (`automatic`; `SwitchStep` is what `init_db` changes), and of each key made that it is filed or its end is on its way to the record (`KeysAccounted`).
The theorems hold without the bounds of the run (its `Bounded`), and with the conditions of the properties, which are not bounds but what the
code fails to keep: v1 rows and the record of destructions while credentials are re-keyed once, secrets while `encrypt_store` is not
run on a sealed store, records where no command died and of what `init_db` did not do by itself (section 8).

**Resealing** (`PurgeStaysFinal`, `RepeatedRunReportsTruly`). Both hold whatever rows do not open. A purged row is not resealed, as the batch writes only rows that are still there. The
report of a first run may be false (`OldKeyOpensNothing`, section 8); that of a run that begins as in `RunAgain` is
true, and `AgainInv` is why: with both meta rows of the new key no connection settles on the old one, so rows under it
only become fewer, and past the last batch there is none.

**The edge agent** (`FilesAreKept`, `ReadsAreKept`, `RepeatsBounded`). A read of a handled frame is in the spool, or it is settled: stored,
refused by the server or given up; each invariant speaks of one hand-over, from recognizer to spool (`FrameInHand`), from spool to
pending batch (`FlushKeeps`), from the agent to the answer it waits for (`WaitsForBatch`), through the handler (`HandlersKeep`).
`FilesAreKept` says so of every file that is written once, whatever happens to the others; `ReadsAreKept` draws
`NothingLost` from it where no file is rewritten. For the bound, `RereadsArePaid` charges each frame read again to a crash or a
fault, by the cardinality of the frames that may be; and, until the first crash, `Budget` charges each copy of a read: those stored, and
one for each handler nobody waits for any more, and one if the read can still be stored, are no more than one and the faults.
That needs the queues free of duplicates (`QueuesOnce`), and that what no frame showed is nowhere (`Unseen`).

**Signed requests** (`SignedOnce`). Under `Ahead + Delay <= Window` (a sender's clock runs ahead by at most
`Ahead`, a handler takes at most `Delay` between its checks and its spending) a request is accepted at most once. `IInv` has `HandlersInTime` (where a handler is, the date it
checked is at most `Delay` beyond the window), `DatesInTime` and `ForgottenLate` (a
message whose nonce was forgotten is too old for any handler). The assumption is on the environment:
the code limits neither, and with `Ahead = 2` TLC finds `ForgottenIsStale` violated.

### What is model-checked only

Liveness under fairness
(`EveryRequestEnds`, `EverySearchEnds`, `EveryConnectionEnds`, `EveryReadArrives`, `ResealConverges`,
`ApplicationFollows`) is out of the prover's reach and stays with TLC. So would be what needs ENABLED, or induction over data.

## 8. Where the code differs from what is said of it

Each row is a sentence of the repository, stated as the property named, that the model
contradicts. To see the behaviour, give the cfg this one property as its INVARIANT, with
its specification without fairness (`Spec`; or `CountingSpec`, `EdgeSpec`, `RegistrySpec`, `ResealSpec`), without its VIEW, and the change of constants named, if any; TLC prints the interleaving.

| module and property | how | at | the code, and the text |
|---|---|---|---|
| `DisclosureService`: `OneConfirmationOneDisclosure` | `DisclosurePresence.cfg` | `src/justikey/disclosure.py:136` | The code verifies the proof (presence.py:144-156) and claims it later; claim() first deletes every nonce whose proof has expired, so of two requests that verified one proof while it was live, the one that claims after its expiry finds the nonce gone and inserts it again. disclosure.py:479-480 says "the presence nonce makes one human confirmation buy exactly one disclosure". |
| `DisclosureService`: `ClosedAtExpiry` | `DisclosurePresence.cfg` | `src/justikey/disclosure.py:149` | claim() compares the clock with the expiry only of a row already there, so the first use of an approval is granted however late the claim runs after verify_approval. disclosure.py:97 says of one signed authorization "counted by the trusted side, closed permanently at expiry". |
| `DisclosureService`: `ClonedCounterRefused` | `DisclosureHardware.cfg` with `Limit = 2` and one counter value in both proofs of `k1` | `src/justikey/disclosure.py:388` | The stored counter is read by _requester_credential, compared later in presence.verify and written after that, with nothing held between: two concurrent assertions carrying the same counter both pass. webauthn.py:52-53 says "signCount strictly increases, which is how a cloned authenticator shows up". |
| `AuditAnchor`: `TruncatedOnlyIfRemoved` | `AuditOneServer.cfg` | `src/justikey/anchor.py:306` | verify_anchors reads the ledger head, then the anchor log; an append that anchors in between leaves the anchor beyond the head that was read, and the result is "truncated" with entries "removed". verify_anchors' docstring, anchor.py:292-293, says "`ok` is False only for real integrity failures". |
| `AuditAnchor`: `ChainNotBrokenByItself` | `AuditOneServer.cfg` with `ProcessOf <- ServerAndScript`, `Processes = {web, cron}` and no symmetry | `src/justikey/anchor.py:222` | create_anchor holds a lock of its own process only, while scripts/anchor_audit.py and every script that appends events anchor the same log: both read the same last anchor and append one with the same anchor_seq, which verification reports as "broken_anchor_chain". anchor.py:292-293 says "`ok` is False only for real integrity failures". |
| `AuditAnchor`: `AnchorAttestsDurableState` | `AuditOneServer.cfg` | `src/justikey/db.py:344` | Connections use WAL with synchronous=NORMAL, under which COMMIT does not wait for the disk, while AnchorStore.append fsyncs the anchor: after a loss of power the ledger may end before an anchored entry. audit.py:52-53 says anchoring is "Done after the commit so an anchor only ever attests to durable state". |
| `CustodianSearch`: `UnreachableIsDenied` | `SearchRecords.cfg` | `src/justikey/policy.py:127` | service_for calls key_info over the transport (disclosure.py:776), whose failure is a custodian.AgreementUnavailable, and policy.py:127 catches only DisclosureError: the request ends as an HTTP 500 with no audit entry. policy.py:128-131 says "The key holder being unreachable is an expected operating state, not a fault ... Deny cleanly and audibly rather than erroring out". |
| `CustodianSearch`: `EmptySearchIsFree` | `SearchRecords.cfg` with no rows in scope | `src/justikey/webapp.py:816` | record_disclosure counts every allowed search, also one that found no candidate, and policy.py:120-121 refuses at the limit. custodian.py:157-158 says "a search that finds nothing costs the requester nothing". |
| `CustodianSearch`: `OneDisclosureOneUse` | `SearchRecords.cfg` | `src/justikey/disclosure.py:350` | Each record is one /open call and each call claims one use (custodian.py:532), so a search showing two records costs two uses while the application counts one. docs/stage-5-key-isolation.md:218-220 says "after one disclosure the application's `authorization_usage` table is empty and the custodian's shows a count of 1". |
| `CustodianSearch`: `RefusalIsAudited` | `SearchRecords.cfg` | `src/justikey/policy.py:194` | A refusal by the custodian inside disclose() is a CustodianError, which policy.py:194 does not catch (it names DisclosureError and SealingError): the search ends as an HTTP 500 without search_denied. With presence on, every search of two or more records ends so, because the second /open presents the proof the first one spent. policy.py:6-7 says "If any condition fails, disclosure is denied and the reason is returned so the caller can audit it". |
| `CustodianServer`: `TokensPerMinute` | `CustodianServer.cfg` | `src/scripts/custodian_server.py:303` | A handler reads time.monotonic() before it takes the lock, so one that waited counts an old time, which leaves the window early; and a restart empties it. docs/threat-model.md:37 says "rate limited — `--index-limit` tokens per minute": what holds is TokenRateBounded. |
| `RegistryAdmission`: `DisclosureServedIsLedgered` | `RegistryAdmission.cfg` | `src/scripts/disclosure_server.py:451` | admit_registry commits the version and digest of a role, but main() records the changes of all roles only after both were admitted: if the second is refused (exit 3), the first is "unchanged" at the next start and its change never enters the ledger. registry.py:26-27 says "a legitimate change is a visible, attributable ledger entry rather than a silent swap". |
| `RegistryAdmission`: `LatestIsAlwaysAdmitted` | `RegistryAdmission.cfg` | `src/justikey/servicekit.py:140` | The version and the digest are two autocommitted rows; a process that dies between them finds the new version with the old digest and refuses the legitimate file for ever (a first registry: TypeError on last_digest[:16], registry.py:107). registry.py:84-86 says only "a version that went backwards, and a change in contents that did not bother to move the version" must stop the service. |
| `RegistryAdmission`: `LatestIsAlwaysAdmitted` | `RegistryAdmission.cfg` | `src/scripts/manage_keys.py:161` | cmd_export takes the previous version from the file at the output path and starts at 1 when it is not there, so after the file was moved a changed registry is numbered 1 again and the service refuses it. manage_keys.py:181 says "Move these to the disclosure service's host and restart it". |
| `Approval`: `EveryApprovalVerifies` | `Approval.cfg` | `src/justikey/webapp.py:698` | _approver_signing_key decides on the user row read when the request began, and set_signing_key overwrites unconditionally, so two first approvals in flight at once generate two keys: the approval signed with the first no longer verifies. models.py:360-361 says "The signature is produced before the write, so an approval is never recorded without the evidence that backs it." |
| `Approval`: `NoDecisionUnrecorded` | `Approval.cfg` | `src/justikey/webapp.py:679` | The decision and its audit entry are two commits; a process that dies between them leaves an approval or denial in force that is never in the ledger. README.md:1024-1026 says "Every sensitive action — logins (success/failure), authorization requests, approvals, denials, [...] — is appended to `audit_log`". |
| `Ceremony`: `EveryKeyGoesOnTheRecord` | `Ceremony.cfg` | `src/scripts/seal_store.py:639` | os.replace(legacy_file, retired) overwrites whatever an earlier rekey-credentials retired: run twice before destroy-legacy-key, the legacy key is gone without the proof, the overwriting or the record of the destroy step. seal_store.py:636-637 says "the legacy key is set aside for destruction rather than deleted here". |
| `Ceremony`: `MigrationIsAlwaysRecorded` | `Ceremony.cfg` | `src/scripts/seal_store.py:437` | init_db seals a store without plaintext rows by itself (db.py:430-434), with no manifest. And the COMMIT of migrate that seals the store precedes the manifest; a command that dies in between cannot be repeated (migrate expects a v1 store) and the next step says "run migrate first" (seal_store.py:562). seal_store.py:32-36 says "Each step appends to a JSON manifest [...] its digest is written into the hash-chained audit ledger at every step". |
| `Ceremony`: `RefusalsAreTrue` | `Ceremony.cfg` | `src/scripts/seal_store.py:720` | destroy-legacy-key compares the digest of all sealed rows with the one migrate took, so any observation stored or purged since makes it refuse, for ever, with seal_store.py:740 "the legacy key still opens live data" although the key opens nothing. |
| `Ceremony`: `NeverHalfEncrypted` | `Ceremony.cfg` | `src/scripts/encrypt_store.py:63` | init_db counts the observations in plaintext (db.py:418-419) and not the TOTP secrets: it switches a store that has such secrets, and they stay as they were. A connection that settled on no cipher before the switch, or before the transaction of encrypt_store (models.py:147-150), inserts its row in plaintext after it. The store is half encrypted, search does not find that row (models.py:264-271), migrate refuses it and says "run scripts/encrypt_store.py first" (seal_store.py:389-391), and encrypt_store says "This database is already encrypted." (encrypt_store.py:48). encrypt_store.py:6-7 says "a half-encrypted store is worse than either state". |
| `Ceremony`: `SecretsAlwaysKept` | `Ceremony.cfg` without its CONSTRAINT | `src/scripts/encrypt_store.py:47` | Only a v1 store is refused: on a sealed one, which init_db may have made it a moment before (encrypt_store.py:44), --apply sets the mode back to v1 and writes a canary for whatever key is in the file. After a re-keying that died behind its COMMIT that is the old key; the next rekey-credentials then passes its check of the canary, truncates the staged key (seal_store.py:603) and removes it when it opens nothing (seal_store.py:633). seal_store.py:600-601 says of that key "A crash after the commit but before the key exists would leave credential material no one can read". |
| `Ceremony`: `EncryptionIsAlwaysRecorded` | `Ceremony.cfg` | `src/justikey/db.py:425` | init_db, which every set-up and encrypt_store itself call first, encrypts a store without plaintext observations by default (config.py:40) and appends nothing to the ledger; encrypt_store then says "This database is already encrypted." encrypt_store.py:8-9 says of the encryption of a database "This migration is explicit, transactional, and audited." |
| `Reseal`: `OldKeyOpensNothing` | `Reseal.cfg` | `src/scripts/seal_store.py:832` | The loop ends when no row is left, and only then are the meta rows changed; an ingest connection that settled on the old key inserts in between or later. seal_store.py:889 then prints "The previous disclosure key now opens nothing in this database." |
| `EdgeAgent`: `RereadsAtMostOneInPlace` | `EdgeAgent.cfg` | `src/scripts/edge_agent.py:340` | processed.save runs once, after all frames of the scan, and processed.add only fills a set in memory; edge_agent.py:332-333 says "Mark processed before any deletion, so a crash between the two re-reads at most one frame rather than losing track." With frames left in place, a crash re-reads every frame of the scan. |
| `EdgeAgent`: `RewrittenIsNew` | `EdgeAgent.cfg` with `MaxVersion = 2` | `src/scripts/edge_agent.py:334` | processed.add takes size and time of the file after the recognizer is done with it; edge_agent.py:137-138 says "A frame is keyed by name, size, and modification time, so a genuinely re-written file is treated as new." One that is re-written during recognition is marked and never read. |
| `EdgeAgent`: `GivenUpForGood` | `EdgeAgent.cfg` | `src/scripts/edge_agent.py:240` | A 401 drops the batch; edge_agent.py:241-242 says "The server will never accept these: a revoked credential or a malformed batch." The ingest handler answers a source that is suspended, and can be reactivated, in the same way. |
| `EdgeAgent`: `EveryRowIsAudited` | `EdgeAgent.cfg` | `src/justikey/webapp.py:1042` | Rows commit one by one and the entry follows the last of them; README.md:1024-1026 says "Every sensitive action -- ... and sensor ingestion -- is appended to audit_log". A handler that fails at a later item, or a server that dies, leaves rows without one. |
| `EdgeAgent`: `NoDuplicates` | `EdgeAgent.cfg` | `src/scripts/edge_agent.py:250` | A batch whose answer does not come is held and sent again, and nothing tells the server it had it; edge_agent.py:132-135 says "Duplicated reads would inflate the protected record with observations that never happened -- the same car apparently seen several times at one instant -- which is both bad evidence and needless retention." |
| `SignedIngest`: `ForgottenIsStale` | `SignedIngest.cfg` with `Ahead = 2` | `src/justikey/models.py:686` | Nonces older than twice the window are deleted; models.py:684-685 says "Forget nonces older than the freshness window; they can no longer be replayed anyway, because their timestamps are already too old." A timestamp may be one window ahead of the clock that stamps the nonce, so the two ends meet: a request that passed its date at the last moment spends a nonce forgotten in the next. |
| `Sources`: `OperatorHasReplacement` | `SignedIngest.cfg` | `src/scripts/manage_sources.py:104` | cmd_rotate retires the old keys and prints the new one last, after the ledger entry; manage_sources.py:89-91 says "the new key is minted and printed before the old ones are revoked, so an operator always has the replacement in hand at the moment the feed stops accepting the old." A command that dies, or whose ledger append fails, in between leaves a feed with one live key that nobody has seen. |
| `SignIn`: `LockedAfterFailures` | `SignIn.cfg`, also with `Dies = FALSE` | `src/justikey/models.py:501` | record_login_failure reads the counter in one statement and writes its successor in another, in threads that share no lock; README.md:797-799 says "accounts now lock after repeated failures". Failures that overlap are written over each other, the lock of one by the counter of another. |

Not all of these call for a change of the code: some call for a change of
the sentence. Those that lose information or stop work for good are `LatestIsAlwaysAdmitted`, `EveryKeyGoesOnTheRecord`,
`MigrationIsAlwaysRecorded`, `EncryptionIsAlwaysRecorded`, `RefusalsAreTrue`, `NeverHalfEncrypted`, `SecretsAlwaysKept`, `EveryApprovalVerifies`, `OldKeyOpensNothing`, `GivenUpForGood` and `ChainNotBrokenByItself`.

The properties of section 4 that stand beside one of these say how far the code does keep the
sentence: `RereadsAtMostOne` for frames that are removed, `ApprovalsVerify` for approvers who had a
key from the start or for whom one was generated, `MigrationIsRecorded` and `EncryptionIsRecorded` where no command dies and `init_db` did not switch the store, `ServedIsLedgered` for the custodian, `LatestIsAdmitted`
for files that are copied and starts that do not die. Beside `OldKeyOpensNothing` stands the theorem
`RepeatedRunReportsTruly`: the command run again says the truth.

## 9. What is not modelled, and why

* **Cryptography and formats.** Signatures, KEM, AES-GCM, CBOR, attestation documents and canonical JSON are pure functions
  of bytes. The models keep what they decide: genuine or not, which key opens what, fresh or stale. `enclave.py` is such a function and has no module.
* **Loss of power under the usage store.** It has the same journal mode as the audit
  ledger, and a lost commit there is a lost use. Modelled for the ledger only, so far.
* **Anchor keys, signatures, torn lines** of the anchor log: lines are whole and all signed with one key. A write that
  breaks off half-way, which later reads report as malformed, is not modelled, nor is a line whose fsync failed and which a loss of power then takes: a line once written stays.
* **The scope check the custodian repeats**: true for the honest search modelled here, which builds its calls from the approval.
* **The other policy checks** (owner, plate, breadth, signature): comparisons of data that does not change while a search runs.
* **Requests that straddle the start of a ceremony's command**: a
  command of `Ceremony` begins when no request of the application holds a connection (`Ready`, `Drained`); requests that arrive while it runs are
  modelled. `init_db` too runs alone among the commands, and the two meta rows `enable_encryption` writes one after the other are one step. `Reseal` has no such condition, and shows what happens without it. `JUSTIKEY_DATA_KEY` is
  unset, and the sampled records a command re-opens do open.
* **Accounts and roles in `Approval`**: an authorization may be requested by an approver. No page lets that happen, but
  `models.py` and `tests/test_concurrency.py` promise the guard whatever the roles are.
* **Recognition**: what the recognizer finds, its failures and the parsing of its output are data. A file
  rewritten with equal size within one second, and a torn last line of the spool, are not modelled.
* **The search of a v1 store**, where the application opens the rows itself and counts without a
  condition (`models.py:429`), although `models.py:426-427` calls the UPDATE guarded.
* **The disclosure service's `/index`, a second service on one ledger, malformed registries**: planned, section 2.
* **Framing**: a frame of the custodian's protocol is whole, garbled or unfinished; lengths and JSON are data.
* **Pages, seed data, simulator, demonstrations**: formatting and rows written once, before anything is served.

## 10. How to run it

    tlasany DisclosureService.tla                                   # parse
    tlc -workers 2 -config DisclosurePresence.cfg MCDisclosureService.tla
    tlapm AuditAnchorProofs.tla                                     # check the proofs

Each run of section 4 takes seconds to a few minutes. The community module FiniteSetsExt must be
on the library path, and for the proofs TLAPS, FiniteSetTheorems and SequenceTheorems.
