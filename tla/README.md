# A TLA+ development of Pares Arca

Pares Arca is a Nix binary cache: it packs store paths into compressed NARs, keeps them in
a content-addressed store with a persistent index, serves them over HTTP as a substituter,
and replicates the index between peers. This directory models the parts of it that keep
state, model-checks them with TLC and proves theorems about them with TLAPS. Paths below
are relative to `src/`; `core/` abbreviates `crates/arca-core/src/`.

## 1. Inventory

| Component | Source | State | Operations | What makes it correct |
|---|---|---|---|---|
| NAR object store | `core/object_store.rs` 150-285 | blobs by hash on disk; index key -> hash | `put_nar`, `get_nar`, `has_nar`, `delete_nar`, `list_nars`, `dedup_stats` | an indexed key has its blob; a shared blob goes with its last key; a get answers with a value of its key |
| Index recovery | `core/object_store.rs` 38-170, callers in `main.rs` and `arca-server` | the sled database at `objects/index`, its lock, fallbacks in temporary directories | `NarObjectStore::new`: four attempts at an open | every open ends with a store of its own; records survive; an index is wiped for damage, not for a lock |
| Cache store | `core/store.rs` | `<hash>.narinfo` files, NARs | `import` (signed or not), `import-closure`, `has` | what a narinfo names exists; signatures are kept |
| Garbage collection | `core/gc.rs` | the same, plus the audit log | `gc_by_age`, `gc_by_size`, `remove_entry`, `parse_size` | nothing is left half removed; the bound is met; LRU order; the report and the log are true |
| Sign command | `main.rs` 481-557 | narinfo files | `sign [--force]` | idempotent; only adds a signature |
| P2P sync | `core/sync.rs` | one task per connection and end | list, send all, close, receive until the end or 5 s | peers end with the same index, or it is said where not; none loses a NAR; sessions end |
| Segments | `core/config.rs`, `main.rs` 559-633 | `config.toml` | `load_or_create`, `write_to`, `topics create/join/remove` | unique names; created segments are kept; the file parses |
| HTTP server | `crates/arca-server/src/lib.rs` | four counters, a backend, an object store | `narinfo`, `nar_file`, `status`, hourly report | answers agree with the stores; counters are not lost |
| Audit log | `core/audit.rs` | sled tree | `record`, `query_since` | each removal of a gc has its event |
| Sled backend | `core/sled_store.rs`, `core/backend.rs` | narinfo map | `put/get/list/count` | lists what was cached, as the filesystem backend does |
| Pure algorithms | `core/nix_base32.rs`, `core/narinfo.rs`, `core/signing.rs`, `parse_size` | none | encode/decode, print/parse, fingerprint | inverses; canonical form |
| Glue | `main.rs`, `scripts/`, `flake.nix` | none | parse arguments, print, start commands | - |

How they interact. Commands are processes: `serve`, `import` (started by Nix after every
build, so several at once and beside `serve`), `gc`, `sign`, `topics`. They share only the
cache directory and the config file. `import` calls the cache store, which calls the
object store, which opens the index; `serve` opens an object store for its requests and,
with `--sync-topic`, another whose index (an `Arc<CrdtStore>`) it shares with the sync
tasks. Nothing in the program locks anything; sled locks its own database file.

What is hard: operations in several steps without a lock; processes that recover the same
index at the same time; files written in place and commands killed anywhere; partial
failures of a deletion; replication by snapshots with timeouts, no ordering and no merge.

## 2. Modules

| Module | Models | Composes |
|---|---|---|
| `NarMap` | abstract: a map whose writes are atomic, whose reads take time, and whose contents may be lost | - |
| `NarObjectStore` | put, get and delete of the object store, step by step | implements `NarMap` |
| `NarObjectStoreProofs` | its theorems | extends `NarObjectStore` |
| `IndexRecovery` | processes that open, repair, use and leave the index | - |
| `ArcaProcesses` | commands as processes over one cache: import, gc, serve, serve with sync | extends `IndexRecovery`; puts and deletes of `NarObjectStore`, import and gc of `CacheStore`, in their order |
| `ArcaProcessesProofs` | the theorems of `IndexRecovery` and, with the invariant of the recovery, its own | extends `ArcaProcesses` |
| `CacheStore` | overlapping import, sign and gc on narinfo files and NAR keys | the object store as the map of `NarMap`, with nothing lost since no command both puts and deletes |
| `CacheStoreProofs` | its theorems | extends `CacheStore` |
| `GcRun` | one gc: what it lists, selects, counts, records and reports, with either backend | the removals of `CacheStore`, each as one step |
| `GcRunProofs` | its theorems, and lemmas about sums over sets of entries and about listings | extends `GcRun` |
| `NixBase32` | the base-32 encoding and a bit by bit definition of it | - |
| `NarInfo` | printing, parsing, fingerprint, signature and verification | extends `NixBase32` |
| `Signing` | a narinfo and a key pair over the commands that write them | extends `NarInfo` |
| `SigningProofs` | its theorems, and lemmas about the lines of a text, the base-32 encoding and sums over its characters | extends `Signing` |
| `Sync` | both ends of replication connections beside local puts and deletes | the object store's operations, each as one step |
| `SyncProofs` | its theorems | extends `Sync` |
| `Server`, `ServerProofs` | the request handlers and the hourly report; its theorems | - |
| `SegmentConfig` | the commands that load, change and write the config file, and the routing of paths | - |
| `SegmentConfigProofs` | its theorems, and lemmas about `Retained` and `SegmentForPath` | extends `SegmentConfig` |
| `MC*` | small instances for TLC | the module in their name |

Definitions whose comment begins with "Mutant" are plausible wrong versions of the
definition that follows them. They are no part of any specification; each is there to
show that a property of a run can fail.

### NarObjectStore

`index` and `blobs` are the two halves of `NarObjectStore`; `task[t]` is the program
counter and the locals of one asynchronous call. `put_nar_typed` is `PutBlob; PutIndex`,
`get_nar` is `GetIndex; GetBlob; GetReturn`, `delete_nar` is `DeleteRead; DeleteIndex;
DeleteScan; DeleteBlob`. A content stands for its hash (SHA-256 taken to be injective).
Each call of `FileBlobStore` and `CrdtStore` is one atomic, durable step: they are
libraries and outside the repository. `serde_json` never fails on a record this store
wrote. `Crash` ends every call; a put that fails with an error before its index write
leaves the same state as a crash of that call. The legacy files under `nar/` are left out.

The methods take `&self`, so a put may run beside a delete, and the model lets it. The
command line never does that in one process (`import` only puts, `gc` only deletes), and the
index lock keeps other processes out: `PhasesApart` says so of a state, and the theorems of
section 4 say what follows where it always holds. In general the promises have an exception,
which the history variable `raced` records: the contents with which a put met the end of a
delete, until they are put again.

### IndexRecovery

A *store* is an incarnation of the sled database: removing the directory unlinks it, it
lives on for whoever has it open, and the next open makes another. `CanOpen` is what
`SledStorage::open` does: it fails on a damaged database or one that is locked, also by
the same process (an advisory file lock belongs to the open file). Attempt 2 removes
`db/lock`, which is not the file sled locks, so it is a retry. `HandleCounts` says how many
stores a command opens: one, or two as `import`, `gc`, `status`, `cache-stats` and `serve`
with sync do. The name of a temporary directory has the process id and a counter, so `OpenTemp`
takes a new store or one that a dead process has left there, with its records; the last
fallback, a store in memory, behaves like a new one and is merged with it. The wipe of the whole
`objects` directory when `FileBlobStore` cannot open (lines 61-89) is not modelled.

Two history variables say what the recovery does to others. `acked` has the keys put into the
store at the index path, until that is damaged or removed by mistake; `mistaken` has the
processes that are about to remove an index although it was only locked at their second attempt,
or although another recovery has put a new one in its place since.

### ArcaProcesses

Gives the processes of `IndexRecovery` their commands. `job[p]` is the command, its step and its
paths; `narinfo` and `blobs` are the files all processes share, `recs` of `IndexRecovery` the
records of each store. A command works with the store it opened last (`Own`): `main` opens the
backend first, the command its own. A server with topics replicates the store it opened first
(`Replica`) and answers from the second. `ImportBlob; ImportIndex; ImportNarinfo` is an import,
`GcCollect` and then a `GcEntry` per path a gc, `Receive` a record from a peer; `Exit` is a return
or a kill at any point. `last` remembers the path of the last import that nothing overlapped, and
whether it put the NAR: an import of a path that is cached (`ImportBlob`) does not.

The composition shows what the parts do not. A command that opens two stores always finds the
first one locked, so it wipes the index and works with an empty one. Hence a gc that is alone
deletes no NAR (`delete_nar` finds no record), the path that was put last is the only one the next
server can serve, an import of a cached path takes even that away and succeeds, and a server with
sync replicates into a store it does not serve.

### CacheStore

`narinfo[p]` is absent, truncated (too short to parse), complete, or a part: `std::fs::write`
truncates and then fills, and `parse_narinfo` takes every file that has its first line.
`nar` is the set of keys of the object store, atomic by the refinement above. `op[w]` is a
running command: import (`Import; PutNar; Truncate; Fill`, and again `Truncate; Fill` for
the signature), sign (`SignStart`, then per entry `SignEntry; Truncate; Fill`), gc
(`GcCollect`, then per entry `GcNar` or `GcNarFails`, then `GcNarinfo` or `GcNarinfoFails`, whose
error is dropped). `Crash` and
`FillFails` leave any part of what was being written. Commands overlap: a write that another
has filled in between may keep the end of the longer text (`Filled`), and one whose file gc
has unlinked goes to a file without a name (`detached`). `stale`, a history variable, says
for whom a path has changed since it was read, and `cut` which files were left cut off.
Which entries age or size select is any non-empty set (`GcRun` has the selection);
`import-closure` is a repetition of `Import`. The object store is taken to keep its records
between commands, as it does for a process that opens it once; `ArcaProcesses` has the
others. `legacy` are the NARs of a cache older than the object store, files under `nar/`
that only gc removes; `PreMigration` says which paths begin that way.

### GcRun

One gc at a time (`gc`), over entries that are imported, signed and put meanwhile. An entry has a
size and the time of its file, the epoch when it has none. `ParseSize` is `parse_size` on halves:
fractions are cut, negative numbers and NaN give 0, too large ones the largest `u64`. `GcStart`
opens the audit log, or fails to. `CollectAge` and `CollectSize` list, stat and sort; then each
entry is `RemoveEntry; Record` until `LoopEnds`, and `NextPhase` goes on with `--max-size` or
ends. `RemoveEntryFails` and `RecordFails` are the errors that `remove_entry` drops: the entry
counts as removed and its file stays, or it has no event. The history fields `gone`, `missed` and
`unlogged` have what really went and what did not. With the sled backend the record of an entry is
never removed, and no command ever makes one: `PutNarinfo` is a program that uses the library.

### NixBase32, NarInfo, Signing

`NixBase32` has `encode` and `decode` with their `u8` shifts; `NarInfo` has a text as its
list of lines, so that printing, parsing (last line of a key, defaults, `Sig` lines in
order), stripping and cutting off are operators on sequences. A signature is the key and
the fingerprint it is over; Ed25519 is taken to verify exactly that. A secret key
file holds the seed and the public key, a public key file the public key alone. The client's text
(`IsNixFingerprint`) is stated beside the code's: it has the references as a sorted set, the
code as `nix-store` lists them. Base names are numbers in the order of the names.

`Signing` runs the commands over one file: `ImportNew`, `ImportSigned` (which parses what is
there and replaces its signatures), `Sign` with and without `--force`, `Remove`, each write
whole or cut off anywhere, and `KeygenSecret; KeygenPublic` or `KeygenDies`. A file may
begin with a hash in hex, as older caches have. `DigestLen` stands for 32; `NextByte` builds
inputs of every length for the encoding.

### Sync

`side[c][p]` is `handle_sync_connection` of connection `c` at peer `p`: what it listed, what it
has sent, what it has received. Only a started handler moves; `ReceiveTimeout` is the five-second
timer, `SendFails` and `ReceiveFails` are the error returns, `Crash` ends the process. The
transport (`pluresdb-sync`) is external: it is reliable while both ends live, holds `Capacity`
records per direction, lets an end receive after it has closed (as the code does), and reports a
lost connection as an end of stream or an error. `CrdtStore::put` replaces the record it is given,
as `put_nar` relies on; `list` has no order, so records in flight are a set. `Ends` fixes who is
connected: peers with a common topic. A key is the hash of a store path and not of its NAR
(`store.rs` 173), so two builds of a path may have different NARs under one key: `Builds` says
which a peer can put. The topic itself (`derive_topic_key`) is a hash and plays no part.

### SegmentConfig

`file` is absent, empty (truncated), garbled or a list of segments; `proc[p]` is a command.
`load_or_create` is `Load` (does the file exist?), then `Read`, or `Open; Write` of the
default; `Apply` changes the copy; `write_to` is `Open` (truncate) and `Write`, or `WriteCut`
when the process is killed or the disk is full in the middle. A text that is cut, or that covers
only the start of a longer one because two writes overlap, is taken to end at the border of a
segment, where it may parse with whatever follows (`Mixtures`; `validate` does not compare
names), or to garble the file; that a cut in the middle of one segment and the end of
another make up a third is left out. `cut` and `mixed` say, as history, that a write ended that
way. A segment is its name and its filter; `import` is `Load; Read; Apply`, which looks for the
first segment that matches (`SegmentForPath`), and `sent` remembers where paths of each kind
went. A config edited by hand (duplicate names, invalid keys) is not modelled.

### Server

`req[c]` is a handler: `Ask` a path, `NarInfo`, or `NarFile` and then `NarFileLegacy`, and
`Count` for each `fetch_add` that the answer owes. `beat` is the stats task: `Tick` after an
hour, `Take` for each `swap(0)`, `Report` for the log line or the idle heartbeat. All of them
use `Ordering::Relaxed`, which lets another thread see two counters change in either order,
so the additions of a request and the swaps of a report have no order. Every NAR has one
unit of bytes. The server's object store and the legacy files do not change while it runs
(other processes have another index, see `IndexRecovery`); narinfo files come and go.
`MaxRequests` and `MaxBeats` bound a behaviour. `split` counts, as history, the NARs whose
two additions fell in different reports.

## 3. Runs

| Run | Question | Instance | Result |
|---|---|---|---|
| `store_shared` | What do interleaved gets, puts and deletes keep of "every indexed NAR is servable", what makes an orphan, and do they implement `NarMap`? | 2 keys, 2 contents, 3 tasks | holds, 71 thousand states |
| `index_overlap` | What keeps a record through overlapping opens, recoveries and crashes, and when is a sound index wiped? | 2 processes with 1 or 2 stores, 2 keys, 5 opens | holds, 1.5 million states |
| `index_import` | Does a command ever wipe the index it has open? | 1 process, 2 stores | violated, see 6 |
| `processes` | When commands wipe the index under each other: which import is servable, can a server come to name a NAR that is gone, does every open end? | 2 processes, 1 path, 5 opens, each command | holds, 460 thousand states |
| `cache_overlap` | What can overlapping, failing and interrupted imports, sign passes and collections of a path leave behind? | 1 path, 2 compressions, 3 commands | holds, 490 thousand states |
| `cache_legacy` | Does a gc that completes also remove a legacy NAR? | 1 path, pre-migration | violated, see 6 |
| `gc_shared` | Which entries does gc go for, does it meet its bound, what do report and log say when removals and records fail, does it end? | 2 entries, both backends, sizes at every border | holds, 1.1 million states |
| `sled_import` | Does the sled backend list what was imported? | the same, sled | violated, see 6 |
| `signing_cut` | Are signatures what a client expects, and is a narinfo otherwise kept? | digests of 3 bytes, inputs up to 6, 2 references in any order, 2 key pairs | holds, 370 thousand states |
| `sync_pair` | What has a connection delivered at each of its ends, where do the peers agree, does a peer lose a NAR by it, do both ends return? | 2 peers, 2 keys, one of them built differently at each, `Capacity` 2 | holds, 100 thousand states |
| `config_overlap` | What can overlapping, killed and cut off config commands lose, and do paths keep their segment? | 2 processes, 2 names, filters `nixpkgs` and `all` | holds, 2.5 million states |
| `server_stats` | What can an hourly report lose or misattribute? | 2 connections, 3 requests, 2 reports | holds, 220 thousand states |

What the properties say:

- `HasImpliesServable`, `FreesOnlyUnreferenced`, `OrphansExplained` relate index and blobs
  over the steps of several tasks, and each names its exact exception. A record without its
  blob comes only from a put whose record falls between the scan and the end of a delete of
  its content, or whose two steps have that end between them. Garbage has, beside crashes,
  failures and overwriting puts, one cause more: a delete frees the content it has read, not
  the one of the record that it deletes. `ImplementsNarMap` is the refinement. TLC taught us
  its form: a get may miss although its key was never absent, when the key is overwritten
  after the get has read the record and the old blob is then freed through another key.
  `NarMap` lets a get miss if its key was written meanwhile or its content is lost (`raced`),
  and only then.
- `RecordsSurvive` and `WipesExplained` are what the recovery promises in every contention: a
  sound index goes only when a recovery takes a lock, or another recovery's new index, for
  damage, and a record is lost only with an index that is damaged or goes that way.
  `OpenFinishes` is liveness.
- `ServedIffPut` and `ServedHaveBlobs` are what remains of "import, then serve" over an
  index that every import wipes: the first for the last import when nothing overlapped it,
  in both directions, so that it also says what an import of a cached path costs;
  the second for each server, whatever peers replicate to it and other processes do. TLC
  taught us its exceptions: a gc whose own store came from a process that came and went
  while the gc was recovering, or from the temporary directory of a dead process.
- `SignatureKept`, `BrokenOnlyByFailureOrRace`, `StrandedOnlyByFailureOrRace` and
  `HasMeansCached` say which interruption, failure or overlap causes which defect, and that
  no other does. A race is a step of a worker on a path that another has changed since it
  read it.
- `BoundMet`, `EvictsLruOverLimit`: gc counts as removed enough, goes for no entry more and for
  none out of order; an entry that it failed to remove stays while more recent ones go.
  `AgeRespected`: nothing young, but for what became young after it was listed. `ReportTrue`,
  `RemovalsAudited`: two limits in one run count nothing twice but what they could not
  remove, which is reported as freed; each removal has its event unless its record failed.
  `GcEnds` is liveness.
- `EncodingInverts` compares the encoding with its definition by bits. `SignaturesFitClient`
  is what substitution depends on, whatever wrote, parsed, re-encoded or re-signed the file; it
  holds exactly of lists of references that come in ascending order, each once, which is the
  only thing that makes the code's text the client's.
  `PublishedKeyVerifies` relates both files of the key pair to the signatures, also on files
  that were cut and then signed. `OneSignature` and `ContentKept` hold over any sequence.
- `CleanSyncDelivers`: an end that read its stream to the end has every record its peer
  listed, unless that peer failed (an end of stream looks the same then) or the key was
  deleted here. `AgreeOrSwap`: with no other write, both indexes are equal, except that two
  hashes of a key have changed places. `SyncKeepsServable`: no deletion of another key and no
  arriving record with the same hash takes a blob from a key; one with another hash does.
  `SessionsEnd` is liveness.
- `NamesUnique`, `KeptUnlessRaced`, `UnreadableOnlyIfTorn`: names stay unique although
  `validate` does not test it, until two writes are mixed; a created segment is lost only when
  a command writes a copy that another has written over, or a write is cut off or mixed; only
  a torn write makes the file unreadable. `RouteKept`: only the removal of its segment sends
  a path elsewhere. The exceptions are real: one command that is killed between the truncation
  and the write loses every segment, and every later command fails at its load.
- `CountsConserved`: no lookup or served NAR is lost or counted twice, also in an hour that
  is taken for idle. Bytes are not conserved, since the idle heartbeat resets them unseen:
  `BytesLostOnlyIfSplit` bounds the loss by the NARs a report split, and `ReportsAgree`
  by how much the bytes logged exceed the NARs. The NARs exceed the bytes by every legacy file.

Bounds. Two keys with one content give every sharing of a blob, a third task lets a get run beside
two writers; contents, keys and tasks are interchangeable, and symmetry is used only in runs
without liveness properties. `MaxOpens` bounds the stores of a behaviour of `IndexRecovery` and
`ArcaProcesses`: five let one process after the other open, damage and recover, or two processes
open two stores each and one of them a fifth. When they are used up nothing more can happen, which
is why those runs switch the deadlock check off; `signing_cut` does it since a file and a key pair
may stay as they are. In `ArcaProcesses` one path is enough for a record of one index and a blob
of another to differ; a run with three processes and four opens holds as well (131 thousand
states). In `cache_overlap` three workers give every pair of commands on a path beside a third
that has stopped in the middle or comes after; a second path would only add independent ones.
Sizes 1 and 3 in `gc_shared` make each order of removal stop elsewhere; its size arguments are
negative, a fraction of a byte, a multiple, saturating, NaN and infinite, with 100 for the largest
`u64`; `MaxClock` 4 lets entries be older than, as old as and younger than the one age. Digests of
3 bytes need 5 characters and cross byte borders; inputs of up to 6 bytes meet the offsets of
every bit, and the two byte values are complements, so no bit is hidden by its neighbour.
`NextByte` stops at `MaxBytes`, keys at `MaxKeys`. In `Sync` a second connection multiplies the
states by more than ten; `Capacity` equals the number of keys. With a smaller one `SessionsEnd`
fails: both ends send everything before either receives, `send` has no timeout, and two large
indexes can fill both directions of the transport. In `SegmentConfig` `MaxSegments` bounds the
lists that mixed writes make; the two filters overlap, so the order of the segments decides where
paths from nixpkgs go.

Fairness. `IndexRecovery!FairSpec` has weak fairness of the open steps of a process: a
process that has started is scheduled, and no step of an open waits for another process.
`ArcaProcesses!ProcSpec` has the same. `GcRun!Spec` has weak fairness of the steps of gc: it is
one sequential command whose steps wait for nothing.
`Sync!FairSpec` has weak fairness of the steps of a handler: tokio polls a task that can
move, and fires its timer. Nothing is assumed of starts, puts, crashes or the network.

## 4. Proofs

TLAPS checks these theorems. They hold for every set of keys, paths, contents, processes,
workers, peers, connections and tasks, every length of a digest, an encoded text or a reference
list, and every value of the bounds. In the rows of `ArcaProcessesProofs` `Spec` is the one of
`IndexRecovery`.

| Module | Theorem | Statement | Assumes |
|---|---|---|---|
| `NarObjectStoreProofs` | `TypeCorrect` | `Spec => []TypeOK` | - |
| | `Servable` | `Spec => []HasImpliesServable` | - |
| | `FreesUnreferenced` | `Spec => FreesOnlyUnreferenced` | - |
| | `OrphanCauses` | `Spec => OrphansExplained` | - |
| | `Refinement` | `Spec => ImplementsNarMap` | - |
| | `ApartNeverRaced` | `Spec /\ []PhasesApart => []NeverRaced` | - |
| | `ApartServable` | `Spec /\ []PhasesApart => []AllServable` | - |
| | `ApartDeletes` | `Spec /\ []PhasesApart =>` no delete frees a blob that a record names, or deletes a record of another content | - |
| `ArcaProcessesProofs` | `TypeCorrect` | `Spec => []TypeOK` | - |
| | `RecordsStay` | `Spec => []RecordsSurvive` | - |
| | `WipesHaveCauses` | `Spec => WipesExplained` | - |
| | `ImportServed` | `ProcSpec => []ServedIffPut` | - |
| | `ServersKeepBlobs` | `ProcSpec => ServedHaveBlobs` | - |
| `CacheStoreProofs` | `TypeCorrect` | `Spec => []TypeOK` | - |
| | `SignaturesStay` | `Spec => []SignatureKept` | - |
| | `HasIsCached` | `Spec => []HasMeansCached` | - |
| | `BrokenCauses` | `Spec => BrokenOnlyByFailureOrRace` | - |
| | `StrandedCauses` | `Spec => StrandedOnlyByFailureOrRace` | `PreMigration = {}` |
| `GcRunProofs` | `SizeBoundMet` | `Spec => []BoundMet` | - |
| | `ReportsTrue` | `Spec => []ReportTrue` | - |
| | `AuditComplete` | `Spec => []RemovalsAudited` | - |
| | `AgesRespected` | `Spec => AgeRespected` | - |
| | `EvictsOldest` | `Spec => EvictsLruOverLimit` | - |
| `SyncProofs` | `TypeCorrect` | `Spec => []TypeOK` | - |
| | `CleanDelivers` | `Spec => []CleanSyncDelivers` | - |
| | `PeersAgreeOrSwap` | `Spec => []AgreeOrSwap` | - |
| | `KeepsServable` | `Spec => SyncKeepsServable` | - |
| `ServerProofs` | `TypeCorrect` | `Spec => []TypeOK` | - |
| | `Conserved` | `Spec => []CountsConserved` | - |
| | `LossBounded` | `Spec => []BytesLostOnlyIfSplit` | - |
| | `FiguresAgree` | `Spec => []ReportsAgree` | - |
| `SegmentConfigProofs` | `NamesStayUnique` | `Spec => []NamesUnique` | - |
| | `CreatedStay` | `Spec => []KeptUnlessRaced` | - |
| | `UnreadableCauses` | `Spec => []UnreadableOnlyIfTorn` | - |
| | `RoutesStay` | `Spec => RouteKept` | - |
| `SigningProofs` | `EncodingInvertsHolds` | `Spec => []EncodingInverts` | - |
| | `SignaturesFitClientHolds` | `Spec => []SignaturesFitClient` | - |
| | `PublishedKeyVerifiesHolds` | `Spec => []PublishedKeyVerifies` | - |
| | `OneSignatureHolds` | `Spec => []OneSignature` | - |
| | `ContentKeptHolds` | `Spec => []ContentKept` | - |

One theorem has an assumption beside those on constants: that there are no NARs older than the
object store (`PreMigration = {}`), as in a cache this program has made; `cache_legacy` shows that
they break the property. Besides, each module names what its constants are: for `ArcaProcesses`
that `HandleCounts` has the numbers of stores its commands open, for `Sync` that a connection has
two ends, for `GcRun` and `Server` that there are finitely many paths and connections, since they
are summed and counted, for `Signing` that the two texts of a digest differ in length, as those of
32 bytes do, and in most modules that what stands for "none" is no path, extension or number.

### The inductive invariants

Each was checked by TLC on the instance of a run before it was proved. The step lemmas have
one case per action, the theorems then follow from the invariant alone (`[]`) or from one step
from a state that has it (`[][...]_vars`).

*NarObjectStore, `Inv`.* `HasImpliesServable` is not inductive: a put that has written its blob
could find it gone at its index write. `Inv` adds, of contents that are not `raced`, that a
put's blob is on disk (`PutHasBlob`) and that a blob about to go is unreferenced
(`DeleteUnreferenced`, the subtle part: a record of that content that appears between the scan
and the deletion is a put's, and the put records the race), and that a get has seen the value
it holds (`GetSees`). For the refinement, each action maps to a write, a begin, an answer, a
return, a loss, a restoration or a stutter of `NarMap`. `NeverRaced` (nothing is raced, and a
delete's record is the one it read) is inductive relative to `PhasesApart`; with `Inv` it gives
the promises without their exception.

*IndexRecovery, `HInv`, `TInv`, `EInv`.* A new store must be one nobody holds. `HInv` says that no
two handles are on one store and that every store held by a process, the one at the
index path and the temporary ones have a number up to `fresh` (`Numbered`). Every way to obtain a
store then gives either the next number or one nobody has locked (`AcquireUnshared`). That
stores never run out is a count: the stores made and those still to be opened (`ToCome`) are
together no more than the opens that were promised (`TInv`). For the records, `EInv` says that
the index is undamaged while a process has it open (`OpenOnesWhole`), that a process about to
wipe it, unless mistaken, has seen damage that is still there (`WipersSawDamage`), and that a
damaged index has no acknowledged record left to lose (`DirKept`). None of this asks who overlaps.

*ArcaProcesses, `PInv`.* `TInv` carries over, since each step of a command is one of
`IndexRecovery` or leaves its variables alone. A process that has run by itself is the only one
(`Jobs`); its second open finds the path locked by itself, damaged or empty, and so makes an empty
index unless that is in a temporary directory (`SoloOpens`); what such an import has written so
far is `SoloImports`; `LastKept` says that while the last import counts only it, or a
server that finds the index unlocked, is running. `ServedHaveBlobs` needs one step from `PInv`:
a put, also of a record that a peer sent, goes to another store than the one the server answers
from, and a blob goes only by a gc that found its path in the index of that gc.

*CacheStore, `CInv`.* The history variable `stale` tells for which paths a worker's knowledge is
out of date. `Known` says what a worker knows of the others: the file it is to write is absent
or names its NAR (`KnowsFile`), the NAR of an absent one is there (`KnowsNar`), the file it has
truncated is empty and still the path's (`KnowsOpen`), the victims of a gc are advertised
(`KnowsVictims`), it does not write an unsigned text over a signed path (`KnowsSigned`). A step
by one worker makes the path stale for all others, which is why `Known` survives. A defect that
appears without a race is then a step from `Known`, and each such step is a crash or failure:
for a path without its NAR those of gc between its two deletions.

*GcRun, `GInv`.* The loop works through a queue, each path of it once and with the size that it
is listed with (`Queued`). `Counted`: with the filesystem backend everything in the queue still
has its file, which is why nothing that went is counted twice also under two limits; `Missed`
has what the passes could not remove, each apart, since the second lists it again. `OldGo` and
`Measured` relate the queue to what is listed: whatever is too old, or not used since the
collection, is in it; `current` is the sum of the sizes in it, and it is sorted as the files
still are. The bound follows when the loop ends, with `parse_size` rounding down (`ParseRounds`).

*Sync, `SInv`.* Between the two ends of a connection, what one has received the other has sent and
what it has sent it had listed, and an end of the stream means that all of it was sent
(`Channels`). `Arrived`: a received record is in the index unless it was dropped since. `Calm`:
while nothing else writes, a key has the hash an end received for it, else the one it had listed,
else none; each key was listed once (`ListedOnce`). Whatever the builds, the two ends then hold
what `AgreeOrSwap` says.

*Server, `SInv`, `HInv`.* `CountsConserved` needs that a swap overwrites nothing: a counter still
to be swapped has nothing taken (`LeftUntaken`), and a sleeping task holds nothing
(`SleepsIdle`). The two bounds on bytes are not inductive even with that. `HInv` keeps accounts
by hour: for each of the two open hours, the bytes added in it exceed the NARs added in it by no
more than the NARs of which only one addition is made and `s[h]` split ones, for some `s`
that the total of splits covers (`Balanced`). A report closes an hour and shifts `s`.

*SegmentConfig, `CInv`.* A copy that no other command has written over (`Fresh`) is what the file
holds, then what the command makes of it, and at last, when the file is truncated, what is about
to replace it. Every list that is written was unique, and so is a part of it, until two are mixed
(`AllUnique`). A change keeps the other names and routes (`ChangeServes`), from what `Retained`
keeps and in which order and from the first match being the same. While there is no file, nothing
has been created or sent (`NewIsEmpty`).

*Signing, `SInv`.* `OneSignature` and `SignaturesFitClient` say nothing of a file that was cut off
and is then signed by another command, and `SignaturesFitClient` nothing of what `Field` reads when
a key has two lines. `FileOK` does: every line has a value that may stand there, and a signature
is only in the last line, cut off or by a key that was made, over what the file, whole or cut,
parses to now (`FilesOK`). Of a file that was not cut off the fields are those that
the first import gave, by their base names (`KeptOK`, `TruthOK`), since printing and parsing
give them back (`LinesRead`) and a signature line changes none (`SignedOnce`). `FileOK` survives
every cut (`CutOK`) because what is cut from the end takes the signature first. The
fingerprint of such a file is the client's but for the order of the references (`FourPlaces`,
`ClientText`): the hash in hex and in base-32 normalise to one
text (`NormalizedHash`). `KeysOK` says which pair the two key files can hold.
The encoding is proved from the position of each bit: a character is five bits of two bytes
(`CharBits`), at most three characters add to a byte (`ThreeHold`), and in each of
the five positions a byte can have their parts make up the byte (`DecodedByte`).

Facts about sums, listings and `retain` would be proved by induction. The induction theorems
of the library cannot be instantiated by the provers, so the lemmas take a least number or a
least set for which the fact fails (`LeastNumber`, `LeastSet`) and show that there is a smaller
one. What the sizes of a set of entries add up to (`BytesRemove`, `BytesMonotone`), what
`Retained` and `LinesThat` keep (`LeavesMore`) and the sum that a decoded byte is (`SumOfThree`)
are shown that way; that a listing has each path once (`Listing`) follows from cardinalities.

### Only model-checked

- The liveness properties `OpenFinishes`, `SessionsEnd` and `GcEnds`: fairness is out of the
  provers' reach.
- The properties that a run refutes.

What the proofs changed in the models. A `CASE` with two overlapping arms in `CacheStore` is an
`IF` now: TLC took the first arm, the meaning of the module was open. `CollectAge` lists the
entries that are old enough, where it filtered a listing of all, `remove_segment` keeps what the
recursive function `Retained` keeps, `SegmentForPath` is the first matching index, and the lines
that `sign --force` leaves are those that the recursive function `LinesThat` keeps, where
`SelectSeq` stood; the states of the runs are the same. Assumptions on constants that had been
tacit are stated.

## 5. Not modelled

`list_nars`, `dedup_stats`, `count`, `total_size`, `list`, `query_since`, `nix_cache_info` and the
server's `status` only read. The other kinds of audit event are never recorded by a command. The
wipe of `objects` when `FileBlobStore` cannot open is left out. Compression, `nix-store`, hashing,
base64 and Ed25519 are libraries or other programs. The Hyperswarm transport, `CrdtStore`,
`FileBlobStore` and sled are external and appear as their callers use them. Argument parsing,
printing, the post-build hook and the NixOS module keep no state; the checks of topic keys,
filters and compressions reject a command before it has changed anything.

## 6. Where code and documentation differ

1. `index_import`: `import` opens its index twice and wipes it at the second open
   (`CHANGELOG.md` 38: "single NarObjectStore per process").
2. `cache_legacy`: gc removes the narinfo of a pre-migration path and leaves its NAR, because
   `delete_nar` succeeds on a key it does not have (`.praxis/expectations/0.6-release.md` 23:
   "GC removes both narinfo and NAR data").
3. `sled_import`: with `--backend sled` import writes its narinfo as a file, which serve,
   status, list and gc with that backend do not see (`README.md` 295: "narinfo metadata in an
   embedded sled database").

Observed while modelling, not in a run. Several are the exceptions that a property names.

- A put whose blob is already on disk and a delete of the last other key with that content
  leave the put's record without its blob, when both run in one process: no command does it,
  the library allows it (`raced` in `store_shared`). A delete of a key that is put meanwhile may
  delete the new record and leave its blob.
- An import of a path that is cached already wipes the index at its second open, puts nothing and
  returns `Ok`: the path stays announced and is not servable (`ServedIffPut`).
- gc drops the errors of the narinfo's removal (`gc.rs` 192) and of the audit record (`gc.rs` 196):
  a path may stay announced without its NAR, be reported as removed and freed, and be counted again
  by `--max-size`; a removal may have no event.
- `import` keeps the references in the order `nix-store` prints them, and `fingerprint` neither
  sorts them nor drops a repeated one (`store.rs` 187-204, `signing.rs` 125-144), while a client
  has a sorted set: a signature fits only if they came in order.
- A config command killed between truncation and write leaves an empty file, on which every later
  command fails; two that overlap may leave a mixture that parses, with a name twice.
- An import killed while it writes its narinfo leaves a file that every later import takes
  for a cached path and, when it does not parse, fails on; gc passes it over.
- `sign` and a signed import complete a narinfo that was cut off: they sign what is there.
- gc, status, cache-stats, import and import-closure wipe the index even when they find
  nothing to do; gc then deletes no NAR and reports the bytes as freed.
- With the sled backend gc collects an entry again each time, takes every entry for older
  than any age when it has no file, and never has an audit log.
- Two peers that built a path differently swap their records in a sync (`AgreeOrSwap`); each then
  names a blob only the other has, where `sync.rs` 19-20 says that peers "replicate CrdtStore
  contents". After a sync `has_nar` reports keys whose blob the peer never
  had, and a deleted key returns with the next sync of a peer that has it. All topics of a
  `serve` share one index.
- `decode` compares the low byte of a character: one outside ASCII may decode, where
  `nix_base32.rs` 43 says `None`.
- `load_or_create` replaces a config that another command created after it found none; a path
  that no segment matches is refused by `import`, where `0.3-segmented-caches.md` 28 says it
  goes to the default segment.
- Bytes served across a report whose next hour is idle are never logged.

## 7. Plan

Every module of the plan is written, and every invariant, action property and refinement of the
passing runs has a theorem. What is left, liveness, is out of the provers' reach.
