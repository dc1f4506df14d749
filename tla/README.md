# A formal model of the DNS zone distribution service

TLA+ modules, TLC configurations and TLAPS proofs for the service in `src/`: an
authoritative DNS server of two or more interchangeable *edge* processes (HTTP
management API, UDP and TCP DNS) and a *cleaner* process, which share one SQLite
database and nothing else. All durable state is in that database; every write is a
`BEGIN IMMEDIATE` transaction. So the questions worth a model are not inside one
transaction but between them: clients that resend, publishers that race, a cleaner
that deletes history under running transfers, processes that die between two
commits, readers that hold no transaction at all.

## 1. The system

| part | code | state | operations | what makes it correct |
|---|---|---|---|---|
| serial arithmetic | `serial.py` | none | `compare`, `is_forward` | is the order of RFC 1982, also across the wrap |
| zone store | `storage.py` 112-545, `0001_init.sql` | tables `zones`, `versions`, `records`, `changes`, `publish_requests` | `create_zone`, `publish`, `set_retention` | a request has one outcome for ever; versions are immutable, gapless, each a valid zone; deltas and snapshots agree |
| changesets | `storage.py` 349-486, `api.py` 22-53 | working copy within a publish | `_apply_ops`, `_materialize`, `canonical_fingerprint` | the rows stored are what the operations ask for; a retry is told from another request |
| cleanup | `storage.py` 660-755, `cleaner.py` | `cleanup_tasks` with tokens and leases | `claim_cleanup_task`, `run_cleanup` | never deletes what retention or a pin protects; a lease keeps others off; survives crashes; ends; leaves nothing behind that should go |
| transfers | `dns_server.py` 137-283, 430-497 | `transfer_refs`, a read snapshot per connection | `authorize_transfer`, `_decide_ixfr`, pin, stream, heartbeat, release | what arrives is exactly one version |
| streams | `dns_server.py` 57-96, 340-384, 430-497, `dnsclient.py`, `verify.py` | batch and pending message of a handler, the socket, the client's frames | `_rr_batches`, `_stream_signed_transfer`, `tcp_transfer`, `verify_tsig_chain` | nothing lost or repeated between rows and messages; every message can be framed; a cut stream is not taken for a whole one; ends though the client is silent |
| keys and TSIG | `storage.py` 549-633, `dns_server.py` 193-211, 457-497, `dnswire.py` 337-420 | `keys`; the key's bytes in the connection | `install_key`, `revoke_key`, `_resolve_in_tx`, `sign_response` | one ACTIVE key, retiring keys work until they expire and not after, chains verify |
| questions and views | `dns_server.py` 99-135, 297-428, `storage.py` 160-222 | none | `answer_question`, `zone_metadata` | answers are those of one version |
| names and RDATA | `canonical.py` | none | `canonical_name`, `canonical_rdata`, ... | one canonical form, zone boundary respected, what is stored can be encoded |
| wire codec | `dnswire.py` | none | `encode_name`, `decode_name`, `parse_query`, ... | round trips, ends on any octets, reads on from the right place |
| HTTP API, processes, configuration | `api.py`, `server.py`, `config.py`, `errors.py` | none | routing, start, stop | inputs are checked before the store is called |
| verification client | `verify.py`, `dnsclient.py` | none | resends over both edges, checks MAC chains | plays the clients of the models |

The parts meet only in tables. A publish appends a version, a ledger row and a cleanup
task; the cleaner reads `zones` and `transfer_refs` and deletes from `versions`,
`records` and `changes`; a transfer decides, pins and commits, then reads from a WAL
snapshot it opens *after* that commit; a question reads with no pin and no snapshot.

What is hard to test here, and listed line by line under `hazards` in
`PROJECT.json`: the wrap of serials; racing publishers and lost answers; which refusals
are remembered; the gap between pin and snapshot; pins at the staleness limit; leases
that run out under a live worker; key rotation across the boundary of milliseconds and
seconds; streams of which only two messages are signed; names that are compared as texts
but travel as labels; several autocommit SELECTs that make one answer.

## 2. Modules

```
Serial --- SerialWalk                         SerialProofs --- SerialWalkProofs
   |------ PublicationLog  (abstract) <..........
   |------ ZoneStore  ......... implements ......:     ZoneStoreProofs
              |--- Leases     .. implements ZoneStore    LeasesProofs    (extends ZoneStoreProofs)
              |--- Transfers  .. implements ZoneStore    TransfersProofs (extends ZoneStoreProofs)
              |--- Queries    .. implements ZoneStore    QueriesProofs   (extends ZoneStoreProofs)
TransferKeys --- Streams ..... implements TransferKeys   StreamsProofs
Enumeration --- Names --- NameWire                       RequestProofs   (of both lines)
        |------ ChangeSet --- Materialize (also of ZoneStore)
MCZoneStore, MCLeases, MCTransfers, MCQueries, MCStreams, MCNameWire: instances for TLC
```

* **Serial** translates `serial.py`. `HALF` (2^31 in the code) is a parameter, so that TLC
  wraps around a space of four or sixteen serials and proofs hold for every size.
* **SerialWalk**: a zone that moves by `is_forward` steps and a secondary that remembers
  an old serial; it relates what `compare` says to how far the zone has really gone.
* **ZoneStore** is the core: one zone, its tables as functions from keys to rows, one
  action per way a transaction can end. `Publish` is split into `PublishNoZone`,
  `PublishReplayed`, `PublishRefused`, `PublishSerialReused` (the `UNIQUE (zone, serial)`
  failure) and `PublishCommits`; `Refusal` holds the checks in the code's order. Clients
  submit, resend at any time while they have no final answer, and lose answers
  (`Answer`, `CallDropped`). Cleaners claim, run or abandon tasks. Whatever the pins are,
  `RunCleanup` meets some horizon out of `Horizons`; `Transfers` has the pins themselves.
  Edge processes have no state of their own, so which one serves a call is not recorded.
  A changeset is its effect per RRset, an RRset a set of RDATA, an SOA its serial.
* **Materialize**: the rows a changeset gives (`Applied`, `Noted`, `Snapshot`, `Delta`), shared by
  ZoneStore and ChangeSet. Which keys are noted as changed is open where an RRset ends as it
  began (`Noted`): one replaced by the same records in another order is deleted and added again
  in the delta.
* **Leases** extends ZoneStore with what its untimed claim leaves out: `ReadClock`, then a
  wait for the write lock, then `ClaimCommits` (oldest PENDING task, else the oldest whose
  lease is before the clock that was read), then `LookUp` by token, which fails if another
  worker has claimed meanwhile, then `RunClaimed`, which looks at neither token nor lease.
  Workers fail or die at each point. Time is relative: a lease is what is left of it. The history
  variable `met`, the highest pin horizon a cleanup has met since the zone last changed, lets properties
  tell what a pin has held back from what was forgotten; no action looks at it.
* **PublicationLog** is the abstract specification of publishing: a log of request ids
  that only grows, each id decided once. No tables, retries or cleanup.
* **ChangeSet** opens up what ZoneStore takes as the effect of a changeset: the loop of
  `_apply_ops` with its `changed` set, and the fingerprint with its sort. Here the order of
  operations and of records matters, so RRsets are sequences. `ResultIsPublished` is the link to
  ZoneStore: the outcome of every list of operations is one that `PublishCommits` takes.
* **Transfers** extends ZoneStore: `Authorize` (decision and pin, one transaction),
  `OpenSnapshot` or `OpenFails`, `SendSection`/`SendPart` with heartbeats that may fail,
  `Finish`, `Break` (`finally` releases the pin, or fails to), `Die` (nothing does), a
  clock, and `RunCleanupWithPins`, which honours and reaps pins as the code does. A section
  is a part of the stream after which the client can apply what it has; where messages end
  within a section is left open.
* **TransferKeys**: installation in two steps (the expiry is computed before the write lock
  is waited for), revocation, `_resolve_in_tx` in milliseconds and seconds, and the MACs of
  a stream. A MAC is modelled by the secret and what it covers, so that equality of MACs
  is equality of both.
* **Streams** extends TransferKeys by the way from the rows of a cursor to the verdict of the
  client: `Batch` packs rows greedily (a row is its length), `Produce` sends the message
  before when the next is ready, `SendLast` the last; the connection delivers a prefix and
  may end at any octet; `IdleOut` is the send timeout, `Break` the exceptions, one of which
  appends a SERVFAIL header. `ReadEnd` is the client: the MAC chain and the bookends of an AXFR.
  Each sending is `SendMessage` of TransferKeys, which computes the MAC.
* **Names** translates the name functions of `canonical.py`: a text is a sequence of
  characters, a canonicalization the set of its result, empty when it raises.
* **NameWire** takes these names through the node: stored with a zone or a record, asked for
  in any case, plain or behind a compression pointer, decoded one octet per step with the
  locals of `decode_name`, looked up with `find_zone_by_name`. Arbitrary octets are read as well.
* **Queries** extends ZoneStore with readers that hold no transaction: each SELECT of
  `answer_question` and of `zone_metadata` is a step of its own.
* **Enumeration** lists a finite set of numbers in ascending order, by counting, for `split` in
  Names and the sort of fingerprints in ChangeSet.
* **MC...** modules hold the finite instances; **...Proofs** modules the theorems.

Operators commented "a defect" are not part of a specification: each is a plausible bug in
the definition that follows it, and shows that a property notices it (`mutants` in
`PROJECT.json`).

## 3. Runs

| run | question | bounds |
|---|---|---|
| `serial_walk` | is `compare` RFC 1982, and what does a secondary see? | 16 serials, up to two laps |
| `store_publish` | one outcome per request? does the store keep PublicationLog's promise? what do refused publishes leave behind? | 2 clients, 2 attempts each, 16 requests on 5 ids: races on one base, reused ids, at least one request for each check |
| `store_wrap` | is history an immutable chain while it is pruned, under any pins? | 4 publishes round a space of 4 serials, 1 cleaner |
| `leases` | does a lease keep others off? do tasks drain and does history shrink, although workers die and lose claims? is ZoneStore's claim a true abstraction? | 1 publish, 1 retention change (2 tasks), 2 workers, any pin horizon at each cleanup, leases and lock waits of 1 second, fairness |
| `transfers` | does a transfer deliver exactly one version? | 2 publishes, 1 cleaner, 1 transfer, 3 clock values |
| `keys` | do keys in force work through rotation, revocation and expiry? are streams, wherever they are cut, accepted exactly when whole? do they end though clients are silent? | 2 installers, 2 key ids, 6 clock values, seconds of 2 ms, 1 transfer of 1 to 3 messages with 1 to 5 rows, 1 frame of socket buffer, fairness |
| `changeset` | does every list of operations come to what ZoneStore publishes? which operations can be passed over? do retries mean the same? | 2 RRsets, up to 3 operations, RRsets up to 2 records |
| `queries` | do answers mix versions? when are negative answers wrong? | 2 publishes, retention 2, 1 question and 1 view |
| `codec` | does a name stay itself, and in its zone, from the API through the wire to the answer? does decoding end, with what is written, and with an error only where nothing is? | 8 texts for zones, all names of up to 4 characters of 5, messages of up to 5 octets of 5 kinds |

These pass. Three more runs each check one statement of the documentation that the code
does not keep (section 5).

Why the bounds suffice: four serials already have every relation (equal, ahead, undecidable,
behind) and wrap with the second publish; `store_wrap` comes back to the first serial, so
that reuse of a retained serial happens. Two clients allow a winner and a loser, two
attempts each a lost answer, a replay and a request that reuses its id with other content. One transfer suffices for
`TransferExact` and `FreshPinKeepsRows`, because sessions share only the table of pins and
another pin can only make cleanup more careful. Two publishes with retention 1 delete
everything a transfer could miss. The clock needs `Stale + 1` values for a pin to be fresh,
at the limit and past it. With leases and lock waits of one second a claim can commit with a
lease that is fresh or spent, and compare it with a clock that is right or late; two tasks are
needed for one to be PENDING while the other is abandoned. One frame of socket buffer is enough
to block a sender; streams of one, two and three messages are all the chain distinguishes
(first, last, middle), and among the row sizes one fills a message exactly and one is too long
for it. In `codec` an octet is scaled: `Low = 4` stands for 64, so that five octets hold two
pointers in a row, loops, pointers out of the message, reserved lengths and labels that are
not ASCII; the alphabet has a letter in either case, the dot, the hyphen and the line feed. `MaxAttempts`,
`MaxTasks`, `MaxNow`, `MaxMessages`, `MaxMessage`, `MaxLabels`, `MaxZones`, `MaxRecords` (of NameWire),
`MaxOps`, `MaxRRset` and `MaxTravel` are the only bounds and are constants.

Symmetry is used over clients and sessions in the runs `store_publish`, `store_wrap`, `transfers` and
the three of `Queries`, never where liveness is checked. `CHECK_DEADLOCK FALSE` is set where a run
really ends: no cleaner polls (`store_publish`), a list of operations is finite
(`changeset`), the clock and the streams stop at a bound (`keys`, `keys_chain`).

**Fairness.** `leases`: WF of `Tick`, `ReadClock` and `ClaimEnds`, since `CleanupWorker.run` polls in an
endless loop that survives exceptions and a wait for the lock ends; SF of `ClaimCommits`, `LookUp`
and `RunClaimed`: a worker may lose the lock, lose its claim, die or fail at any time
(`LookUpFails`, `WorkerFails`, not fair), but not each time it tries again, a transaction being
much shorter than the lock timeout and the lease. `keys`: WF of `Serve` for each connection: the
handler's thread runs, to the next message or to the timeout of its socket; nothing is assumed
of the client, which may stop reading (`TransferEnds`). `codec`: WF of `Read`, one turn of the
loop of `decode_name`. Nothing is assumed of clients anywhere.

**Time.** In `ZoneStore` leases are not timed: a RUNNING task may be claimed again at any time.
`Leases` has the seconds, and `StoreKept` says that ZoneStore covers them. In `Transfers` all
instances share one clock and a publish or cleanup takes no time.

## 4. Proofs

All proved by TLAPS for every value of the constants, under the named assumptions of the
modules. `SerialAssumption`, `WalkAssumption`, `StoreAssumption`, `TransferAssumption` and
`KeysAssumption`, `ChangeSetAssumption`, `NamesAssumption` and `NameWireAssumption` only fix types,
the room an octet has, and that a character `_LABEL_RE` lets through is ASCII; `LeaseAssumption` adds that a wait for the lock is no longer than
a lease, `StreamAssumption` that the TSIG record fits in the room left for it and the longest row
the API lets in fits in a frame with it.

* `SerialProofs`: `DistanceCases` and `CompareCases` turn the modulus into linear arithmetic;
  from them `CompareIsDual` and `ForwardIsOneWay`.
* `SerialWalkProofs`: the inductive invariant `OnCourse` (the secondary's serial plus the
  distance travelled is the zone's serial, modulo the space) gives `RfcInvariant` and
  `TravelInvariant`.
* `ZoneStoreProofs`: the inductive invariant `Structure` joins the type invariant, the
  shape of the retained interval and the facts about clients that every action needs
  (a call that has been sent belongs to a request). It is proved with one lemma per action.
  `RetainedInterval` is not inductive without it: that cleanup leaves an interval needs the
  bound to be at most the current version, which needs `retain >= 1`. On top of `Structure`,
  `StepCases` reduces `Next` to four effects on the tables (none, creation, commit, cleanup);
  `SerialChain`, `DeltasRebuildSnapshots` and `SnapshotsAreZones` are then inductive relative
  to it, and `VersionsImmutable` and `NewestVersionsKept` follow for each step.
  `LedgerMatchesVersions` is inductive by the three effects on the ledger (`LedgerCases`);
  `AnswersOnRecord` because ledger rows never change; `OneOutcome` from it; and the
  refinement `Spec => PublicationPromise`, whose mapping reads the log off the ledger. The log
  is well defined because `LedgerMatchesVersions` says that COMMITTED rows number the versions.
* `TransfersProofs`: a pin names a version at or below the current one (`PinsWellFormed`), so
  that the bound pins give to cleanup is one of `Horizons`, every `RunCleanupWithPins` is a
  `RunCleanup`, and `TSpec => Spec` (`TransfersImplementStore`): what is proved of ZoneStore
  holds while transfers run. The variable `history` remembers every version made;
  `HistoryKept` ties it to the rows that are left. `FreshPins` says that a fresh pin protects
  its versions while its transfer waits for a snapshot (`PinsProtect`): neither cleanup nor a
  publish touches them. `TransfersAreExact` rests on `SessionsExact`: the plan made at
  authorization is a plan for the version pinned, the snapshot, when opened, has the
  rows of that plan, and the client's copy after each section is the version that section
  leads to. Nothing is assumed about how long a transfer waits: if the pin went stale and the
  rows are gone, the transfer fails and is not `COMPLETE`.
* `StreamsProofs`, keys first: `Table` (types, `NewestIsActive`, only retired keys have an expiry) is
  inductive and gives `NewestKeyIsActive` and `RetirementStands`. A usable key of a name has
  a newest one (`HasNewest`), so the key resolved to is usable, which puts the time of
  acceptance less than `Second` after its expiry; the invariant `Streams` carries that and the shape of the
  chain along (`AcceptanceIsTimely`). `KeysInForceAlwaysWork`
  rests on `NamesUnique`: a name stands for one key until that is revoked, so that the newest of a
  name is the key meant, and a clock that runs up to a second behind finds it usable.
  For the packing, the inductive invariant `SInv` says of each connection that rows and packing
  match (`Rows`), that frames fit and hold consecutive rows from the first on (`WireOk`), that an open
  handler has sent exactly the rows before its pending message and one message of TransferKeys per
  frame (`HandlerOk`), that an unsigned message has no MAC (`Unsigned`), and that an accepted
  stream is whole (`GotOk`). A client accepts more than one message only if the last one has the
  MAC it computes, so that it was signed and the stream was SENT (`AcceptedStreamsAreWhole`). Conversely,
  `Streams` and `SInv` give a stream that was SENT and has arrived all that `ReadEnd` checks (`WholePasses`);
  until then the client has not got all of the wire, which `WholeStreamsAreAccepted` carries step by step. Greedy
  packing is a CHOOSE over an interval; that a choice exists and what it satisfies is proved first.
* `LeasesProofs`: `LInv` joins `Structure` to the facts that a worker holds a task exactly between
  claim and end, that a claimed task is never PENDING again, and that while a holder's lease
  lasts its token is on the task with as much lease left (`OwnLease`). Another claim needs a lease
  before a clock reading that is at most the present, so it cannot hit such a task. From `LInv`
  every step is a store step or a stutter (`LeasesImplementStore`), which carries all theorems
  about ZoneStore over. `DoneMeansPruned` follows from `HeldOrDue`: a task is not done, or each version
  beyond retention is at or above a horizon that a cleanup has met since the zone last changed. A claim or an
  enqueuing leaves a task not done; a cleanup leaves only what its own horizon protects, and the highest
  horizon met only grows; a step that changes the zone, and with it what is beyond retention, either
  enqueues a task or makes the first version.
* `QueriesProofs`: `QueriesImplementStore` brings all theorems about ZoneStore over. `QInv` has three
  parts about the store and its readers. A retained version has the rows it was published with, and
  every number ever given is remembered, so that a version that is gone stays gone (`Remembered`); the
  versions that the least retention in use protects are there (`Retained`; a retention may change while
  a reader is under way, so the zone's own is not enough); and each reader's partial result is right for
  the version it looked up (`Questions`, `Views`). `PositiveAnswersExact` follows from the first and
  third, `ExactWithinRetention` needs all.
* `RequestProofs`, changesets: `CInv` is about the operations applied so far (`Done`): there is no error
  as long as each of them is well formed, a key not noted has its old records, and the working copy of a
  key that is not both deleted and replaced is what the last operation on it says (`Settled`). It gives
  `ResultInvariant`, so that the theorems about ZoneStore's tables hold of what lists of operations come
  to. `LInv` adds what a replacement among deletions leaves, for `OnlyDeletionsDropped`: the disagreement
  that section 5 reports is the only kind there is. `RetriesAgree` compares two lists that satisfy `Done`: equal
  fingerprints have the same last operation for every key (`PickedLast`). What a request would have done
  is a fold over its operations; `RecursionOverPlaces` shows that this recursion has a solution,
  `FoldOfOperations` that it takes one operation at a time.
* `RequestProofs`, names: `NInv` says that all stored names are `Legal`: absolute, in lower case,
  trimmed, passing their own check, and an owner within its zone as a text. None of the
  properties follows from what one call checks of another's name without it. `CanonicalFixed` and
  `StoredNamesEncode` are consequences; `OwnersWithinZone` is the step from texts to labels, and needs what
  `split` does to the end of a text: the dots beyond the boundary are those of the zone's name
  (`DotsBeyond`, `CutsBeyond`, `SplitEnds`). `Enumeration` exists for this: the order of `SortSeq` is
  built into the tools and nothing could be proved of it.

* `RequestProofs`, decoding: RFC 1035 defines a name by following pointers, and where these go round
  there is no function that satisfies its equations. `Written` therefore counts the labels and
  pointers of a name, up to `Steps`; more cannot be, as the pointers followed are all different and
  there are fewer labels than octets between two of them. The inductive invariant `DInv` says that what
  has been read, with what is left, makes the name (so that the two ends of a field, with and without
  a jump, agree), and that a reader has made no more steps than its pointers and octets allow. A pointer
  that is refused because it was seen before leads back to where the reader has been: if there were a
  name, it would contain itself and one more step, which counting excludes. `DecodedAsWritten` follows.
* `RequestProofs`, answering: `AInv` says that while a name that was asked for is being read, its
  encoding in the spelling of the client stands in the message. The round trip has three parts. The
  octet with the length of label k stands as far into the encoding as the label's text into the name
  (`Stops`, `Marks`), from which `AskedName` reads the labels back one by one, in lower case; labels
  joined by dots are the name they were split from (`Rejoined`); and of the zones whose text ends the
  name behind a dot the longest is the deepest label by label (`FoundZone`), the root zone being a
  case of its own. `AnsweredFromItsZone` needs `DInv` as well: the name read is the only one there.
  `MaxLabels` only keeps the checked model finite; both theorems are about names of fewer labels than that.

All invariants and all safety properties of steps that the runs check are proved. Only model-checked
are the liveness properties (`TasksDrain`, `HistoryConverges`, `TransferEnds`, `DecodingEnds`), which are
out of the prover's reach, and the three statements of section 5 that the code does not keep.

## 5. Where code and documentation disagree

1. `queries_soa`: a publish and a cleanup between two SELECTs of a question turn an answer into
   NXDOMAIN (`dns_server.py:116-134`). `queries` shows that retention shields a reader from
   that many publishes (`ExactWithinRetention`), and that positive answers are always exact.
2. `queries_count`: an answer of several records announces one (`dns_server.py:323`, `409`).
3. `keys_chain`: the last MAC of a stream chains from the first response only (`dns_server.py:475`), although
   the docstring of `sign_response` says that the running MAC incorporates every message before, signed or
   not (`dnswire.py:379-381`). `continue_running_mac`, which would see to that, has no caller. README.md:147-148
   and `verify.py` describe what the code does, which `WholeIsAccepted` relies on; so a middle message
   that is altered on its way is noticed by no MAC.

Weaker than the documentation, and stated as what holds: a retiring key is accepted up to a
second after its hard expiry, because the check drops the milliseconds of the current time
(`dns_server.py:203`; `AcceptedWithinSecond` says that a second is all). The fingerprint sorts
operations, so that delete-then-replace and replace-then-delete of one RRset pass for the same
request (`api.py:49`; `RetriesAgree` leaves such mixtures out). A delete after a
replace of the same RRset in one changeset is dropped without an error (`storage.py:377-378`), where
README.md:82 and `publish`'s docstring (`storage.py:245`) promise that a publish is carried out as a whole or
not at all; `OnlyDeletionsDropped` says that no other operation is.

Noted while reading and modelling, no finding of a run:

* A cleanup that a pin held back is DONE, and releasing the pin enqueues no other (`storage.py:743`): the
  versions it left stay until the next publish or retention change (`DoneMeansPruned` and
  `HistoryConverges` say that nothing else stays).
* An OPEN pin last seen exactly `REF_STALE_SECONDS` ago is neither reaped nor honoured
  (`storage.py:723`, `730`); `FreshPinKeepsRows` stops short of that instant.
* A label that is not ASCII raises `UnicodeDecodeError` in `decode_name`, which is no `WireError`:
  over UDP nothing is answered, over TCP SERVFAIL, where `parse_query`'s docstring and the README
  promise FORMERR for malformed messages (`dnswire.py:117`; the value `crashed` of `status`).
* `_LABEL_RE` ends in `$`, which also matches before a line feed (`canonical.py:17`); such a label
  passes, encodes and stays in its zone, as `codec` shows. A label with a dot inside, on the wire, reads
  as two (`dnswire.py:119`).
* The apex of the root zone is stored as `.` and refused when it is sent back as a name
  (the exception in `CanonicalFixed`). `decode_name` does not enforce the limit of 255 octets.
* A transfer cut after its first message passes the client's checks if it is an IXFR, or an AXFR
  whose first message holds the SOA alone (the exception in `AcceptedIsWhole`).
* The IXFR stream has no closing SOA (RFC 1995, section 4); a publish that meets a retained serial is
  an INTERNAL error that is not recorded in the ledger; the schema script runs before its name is
  claimed although a comment says otherwise (`storage.py:88`), harmless since the script is
  idempotent; a key installed without `keyName` takes a name that the wire parser can never
  produce (`storage.py:552`).

## 6. Not modelled

RDATA: the canonical form and the encoding of addresses, numbers and text are pure conversions
of single values. Fixed layouts of octets: headers, questions, resource records, TSIG fields; the
header and opcode checks of `parse_query`. A row is its length in `Streams`, "fits" or "does
not fit" in `Queries`, where an answer is one message. The JSON of fingerprints. HTTP routing, status codes, logs.
Several zones, except for finding the zone of a name in `NameWire`: no table row of one zone is
read for another, and tasks of other zones only delay. Classes other than IN. An IXFR request
without an SOA is treated as AXFR and is that case of the model. Errors of SQLite within a
transaction, start and shutdown of the processes, the first creation of the schema. `enqueue_cleanup`
and `is_subname` have no caller.

## 7. Plan

Done: all modules of section 2 with their runs; proofs for every module. Left, in this order of worth:

1. Transfers and Streams composed: the rows of a section through the packing to the client, one
   key generation pinned with one version, so that "accepted" means "exactly one version".
2. `Boot`: two first starts and the schema table; errors inside `revoke_key`'s transaction.
