# Verification of BedrockDebugProxy

A TLA+ development kept beside the Go code of the proxy. It models the parts of
the program whose correctness depends on the order of steps: goroutines that
share a queue, files that a crash can leave half written, connections that
change under a running session, commands that change several files. TLC checks
the modules on small instances and TLAPS proves the safety results
for every value of their parameters.

Paths below are relative to the repository (`internal/...`, `cmd/...`).

## 1. The system and its parts

A Bedrock client connects to the proxy, the proxy connects to the upstream
server, and everything that passes is written to a *capture*: a directory with
`events.jsonl`, content-addressed `blobs/` and `manifest.json`. A local viewer
and a follower of artifacts read the capture while it grows. A bot can take the
client's place, and both log in with one of several stored accounts.

| Part | State it keeps | Operations | What must hold |
|---|---|---|---|
| Recorder (`internal/capture/recorder.go`) | two mutexes, a bounded queue and its counters, the sequence numbers, the manifest, the files | `Record`, `RecordReader`, `Close`, `AddLimitation`, `AddLoss`, the writer goroutine | events are numbered without gaps in the order of acceptance; no accepted event disappears uncounted; the files are consistent after a crash; no call hangs |
| Verifier (`internal/capture/verify.go`) | none, a scan of a directory | `ScanEvents`, `VerifyWithProgress` | reports exactly the damaged captures |
| Proxy runner (`internal/proxy/proxy.go`) | the client of the session, the current hop, the accept state, the upstream slots | `Run`, the accept and disconnect callbacks, two forward loops per hop, transfer to the next hop | identities agree, a delivered transfer is followed, the old socket is released before the next dial, every goroutine of a hop ends |
| Pack exchange (`internal/proxy/resource_pack_url.go`, `internal/bedrock/resource_pack.go`, `connectUpstream` and `RunPacksOnly` in `proxy.go`) | offered packs, downloads, the connection's list, the recorded archives | `Observe` and its workers, `Store`, `Merge`, `RecordResourcePacks` | the archives are those of the offer, in its order, none missing and none twice; the exchange ends, and a connection that the dial returned is handed over or closed |
| Transport and observers (`internal/proxy/transfer_transport.go`, `internal/bedrock/network.go`, `observer.go`, `failure.go`) | pending and current connection identity, the first failure | dial with observation, `FailureSink.Set` | a record names its connection and hop; the first failure cancels the run |
| Viewer (`internal/viewer/viewer.go`, `server.go`) | index of the lines read, the manifest shown, verification state | `Refresh`, `BeginVerification`, `UpdateVerificationProgress`, `CompleteVerification`, the endpoints, `Close` | a verified session shows all its events; a verdict is final; a page is the right one |
| Artifacts (`internal/artifacts/*.go`) | position, output streams, published files, status | `Start`, `follow`, `Finish` | the status tells what was read and written |
| Command line (`cmd/bedrock-debug-proxy/main.go`) | the order of closing, the joined error | `runProxy`, the account commands | exit code 0 only over whole evidence; the process ends |
| Golem network client (`internal/golemnet/client.go`, `golem_network.go`, `golem_capture.go`) | the connection of a hop, event buffer, current form, report | `Start`, `readLoop`, `inputLoop`, `followTransfer`, `SelectForm`, `finish`, `Close`, the scenario | one connection at a time, only the remote is blamed, a pass is only given to a session without an error over a capture closed as a good one, `Close` ends |
| Accounts (`internal/authcache/cache.go`, `profiles.go`) | `accounts.json`, a token file per account, the token source of a running process | login, logout, use, rename, run, refresh | no command loses or overwrites a token it does not name; a rename is all or nothing |
| Experience signaling, golem mailbox, export, decryption, analysis, packet view, live reporter | little or none | sequential, or remote | see section 7 |

How they interact: the runner, the network observer, the log handler and the
golem commands call `Record`; the runner reports failures through
`FailureSink`, which cancels the run's context; `runProxy` closes the recorder
with a status derived from the run's error, then finishes the artifact reader,
verifies and shuts the viewer down; the viewer and artifact goroutines read the
files, share no lock with the recorder, and outlive its `Close`. The pack
exchange runs inside the dial that a client's login starts.

What is hard here: the recorder's two mutexes with a channel between them, and
a writer that fails while callers are still sending; files read by others and
by the verifier after a crash; two hops that overlap during a transfer, with
callbacks that read the identity of the connection at the time of the call;
downloads that finish in any order while the dial goes on; a reader that polls
while the manifest is replaced; a rename of an account that consists of two
file operations.

`PROJECT.json` lists the hazards line by line, with the property that would
catch each.

## 2. How the project is built, and the plan

1. `CaptureVerify`, `CaptureRecorder`, `CaptureLog`: the evidence itself, with
   proofs.
2. `SessionHops`, `ProxySession`: accept, disconnect, hops, forward loops,
   transfer, shutdown.
3. `CaptureFiles`, `LiveViewer`, `ArtifactFollower`, `LiveCapture`: the readers
   of a growing capture and the end of `runProxy`. `CaptureFiles` is the
   interface: the recorder is shown to implement it, and the readers are
   composed with it instead of with the recorder.
4. `PackExchange`: the resource packs of a dial.
5. `GolemClient`, `AccountStore`.

The proofs follow the same order: the recorder's invariants, what the recorder
promises to its readers, the verifier, the readers, the session and the identity
of its hops, the resource packs, the bot and the account store.

Left in the plan: the signaling connections as a model.

## 3. Modules

| Module | Content |
|---|---|
| `CaptureVerify` | the capture directory as readers see it, and the verifier as operators |
| `CaptureImage`, `MCCaptureImage` | every small directory, sound or damaged, with a declarative definition of a sound one |
| `CaptureLog` | abstract: an ordered log that loses nothing silently |
| `CaptureFiles` | abstract: the directory while it grows, as far as its readers depend on it |
| `CaptureRecorder`, `MCCaptureRecorder` | the recorder, which implements both |
| `FoldFacts` | induction and the stages of a fold, for the proofs about loops |
| `CaptureRecorderProofs` | the recorder's invariants and `SealedForever`, that a final manifest is true, both refinements, the sum of pending bytes and the verifier's answer, proved |
| `CaptureImageProofs` | that the verifier passes exactly the sound directories, proved |
| `LiveViewer`, `ArtifactFollower` | the two readers, each over the variables of `CaptureFiles` |
| `LiveCapture`, `MCLiveCapture` | `runProxy` with recorder, readers and exit code |
| `LiveCaptureProofs` | its theorems |
| `SessionHops` | abstract: hops one after the other, each closed once |
| `ProxySession`, `MCProxySession` | `Run` and `runHop` |
| `ProxySessionProofs` | its theorems, those about the identity of a hop's client in the last part |
| `PackExchange`, `MCPackExchange` | `connectUpstream`, the URL pack cache, the recording of archives |
| `PackExchangeProofs` | its theorems |
| `GolemClient`, `MCGolemClient`, `GolemClientProofs` | the network bot, and its theorems |
| `AccountStore`, `MCAccountStore`, `AccountStoreProofs` | the registry, the tokens and the commands that change them, and its theorems |

A definition that begins with a comment "Faulty variant" is not part of a
specification: it is the definition after it with a plausible mistake, kept to
show that the property named in `PROJECT.json` notices the mistake.

### CaptureRecorder

| Model | Code |
|---|---|
| `pc`, `arg` | where each goroutine is inside `Record`, `RecordReader` or `Close`, and its payload |
| `enqueueMu`, `mu` | the mutexes; a section under `mu` without I/O is one action, one with file I/O keeps `mu` over several |
| `queue`, `queueClosed` | the buffered channel |
| `spaceWait` | the `spaceChanged` channel seen by its only possible waiter, the holder of `enqueueMu` |
| `idle`, `writerStopped` | the channels of those names, closed or not |
| `assignedSequence`, `sequence`, `pending`, `pendingBytes`, `failed`, `closed`, `seenBlob`, `manifest` | the fields of `Recorder` |
| `wpc`, `io`, `job` | the writer goroutine, the file operation of the holder of `mu`, the job it is for |
| `stream`, `torn`, `temps`, `blobs`, `manifestTmp`, `disk` | the directory: complete lines, an incomplete last line, temporary blobs, published blobs, the temporary manifest, the published manifest |
| `accepted`, `reported` | history: the calls that returned success, the losses other parts reported |

A crash is not an action: since every intermediate state of the files is a
state of the model, an invariant over the files holds of every image a crash of
the process can leave. The contents of the operating system's write cache after
a power failure are outside the model. A file operation may fail if its name is
in `Faults`; a context may be cancelled wherever the code selects on it.

The branches of the code that no state reaches (`WriterBegin` with a failed
recorder, `AppendBegin` out of order, the clamp of `pendingBytes`) are kept in
the model; `AppendAlwaysFollows`, `PendingExact` and `FailInv` show that they
are not reached.

### CaptureVerify

`VerifyWithProgress` is a fold of `VisitEvent` over the lines. Digests are
values; the textual checks of a reference (`validateBlobRef`) are one flag, and
that a blob is a regular file and no symbolic link belongs to its being there.
The scan ends with an error at the first line without an end or that does not
decode, and the whole verification with one if the manifest cannot be read;
`manifest.header` holds which of its schema, events path and blob root are not
the expected ones. The
byte counter is `WordValues` wide so that the wrap-around of `uint64` is
reached with sizes of two bits.

### LiveCapture, LiveViewer, ArtifactFollower

`CaptureFiles` reduces the directory to the number of complete lines, whether
an incomplete one follows, what the recorder has counted, and the manifest.
Line i carries sequence i (`EvidenceOnDisk`), so an index is a number of rows.

| Model | Code |
|---|---|
| `external`, `tailing`, `rows`, `shown`, `issues`, `done`, `failure`, `progress` | the fields of `Viewer` behind `v.mu` |
| `vmu`, `hpc` | who holds `v.mu` over file reads, and where each request is: `Refresh` reads the lines, then the manifest, then perhaps verifies |
| `Mode`, `Verdict`, `TailPage`, `OffsetPage` | what `serveSession` and `serveEvents` answer |
| `fpc`, `seen`, `finish`, `finished` | the goroutine of `follow`, `Status.LastSequence`, the finish channel, and its local copy of it |
| `buffered`, `published`, `leftover`, `errors`, `followErr`, `notice`, `state`, `statusFile` | output streams, derived files, temporary names, `Status`, and the file `artifacts/status.json` |
| `mpc`, `web`, `server`, `runErr`, `code` | `runProxy`: where it is, whether `--web-viewer` is set, the local server, the joined error, the exit code |

`web` chooses between the two viewers of the program: that of `run
--web-viewer`, whose owner verifies, and that of `view --live`, which verifies
by itself when it sees a final manifest. Which derivation a line calls for is
chosen when the line is read, because only the artifact reader cares.

### ProxySession

| Model | Code |
|---|---|
| `run`, `result`, `state`, `client`, `acceptedResult` | where `Run` is, what it returned, its local variables |
| `current`, `pending` | the two hop states behind `getAcceptState` |
| `ctx`, `generation`, `gen`, `notified`, `downstreamDisconnect` | `connectionContext`, the generation each connection was given, its AfterFunc, the channel of capacity one |
| `phase`, `cause`, `gone` | a physical connection: how far its listener handler is, why its `minecraft.Conn` is closed, whether its transport context is done |
| `flow`, `fetched` | the hop the observer attributes the connection to, and the hop whose slot its login used |
| `ahead` | the handlers that were blocked on the listener's channel when this one got there |
| `slot`, `linked`, `downstreamConn`, `transferReady`, `upstream` | the fields of `hopState`: the once-only dial, the connection whose end cancels it, the gate of a followed hop, the upstream connection |
| `game`, `loop`, `first`, `shuttingDown` | the goroutines of `startGame`, the two forward loops, the channel they report to, the shared flag |
| `broken`, `failure`, `runDone`, `listening` | the recorder has failed, `FailureSink.err`, `runCtx`, the listener |
| `delivered`, `bridgeErrors`, `closes` | history: Transfers that reached the client, recorded expected errors, `session.close` events |
| `scope` | the configuration of a behaviour: whether transfers are followed, which connections are not the client's, and whether the caller may cancel the run |

Actions are named after the code they stand for and follow its order: `Drain`
to `Accepted` are the accept loop, `Spawn` to `HopSecond` are `runHop`,
`LoopRead` to `LoopReturnsTransfer` are `forward`, `Prepare` to `SlotFree` are
what `Run` does after a transfer. `Fetch`, `DialStart`, `DialReturns` and
`FetchReturns` run inside the login of a connection, in the goroutine of its
listener handler. The `AfterFunc` callbacks are actions of their own
(`Notify`, `StopAccept`, `StopConnections`).

Abstractions. A packet is an ordinary one or a Transfer. The error of a closed
connection is `canceled` (what `transferFromLoops` asks for) or `closed`
(`net.ErrClosed` and `DisconnectError`, which the code treats alike). A read of
a packet that was queued when its connection closed is modelled for Transfers,
where it matters. `keepClientOpen` has no variable: it only spares the client a
close in `runHop`, which `HopFirst` shows directly. The listener and its
connections are modelled from the copy of gophertunnel in `third_party`: a
handler counts as a player until it returns, `Accept` hands over finished
logins in the order in which their handlers reached the listener's unbuffered
channel (the Go runtime serves blocked senders first come, first served), a
transport may end later than its connection. A transport whose opening cannot
be recorded ends the listener (`OpenTransportFails`). The listener's packet
callback also forwards `RequestChunkRadius` to the upstream server and may
record a `bridge.write_error` of its own; that is left out, and
`BridgeErrorOnce` is about the two loops. A behaviour is followed until `Run`
returns.

### PackExchange

| Model | Code |
|---|---|
| `packs`, `packOrder`, `offerOrder`, `errors`, `observed` | `urlResourcePackCache` |
| `rpc`, `info`, `infos`, `jobs`, `results` | the connection's reader inside `Observe`, its list, and the downloads it waits for |
| `conn`, `handled`, `existing`, `chunks` | gophertunnel's connection: whether it is open, whether it lets the dial return, its own list of packs, and the goroutine of each chunk pack, which appends to that list before it calls `Store` |
| `mpc`, `merged`, `next`, `parent`, `delivery`, `dialDone`, `limited` | the main goroutine of `connectUpstream` or `RunPacksOnly` and its locals |
| `log` | the events recorded, each with its parent |
| `held` | history: what the cache held when `Merge` read it |

A pack is its key (UUID, version and size in one) and how it arrived. A
download may deliver what was advertised, something else, or fail; an archive
of the wrong size and one that cannot be read are failures. Decryption is one
step that succeeds or fails. The connection is opened by the dialer, may end at
any time, and has a reader that waits for the caller once the stack is handled.
A dial that fails may leave it open. `WaitForOffer` and `Packs` have no caller
outside the tests and are not modelled.

### GolemClient

Three goroutines: `mpc` is `runGolemNetwork` with its scenario, `rpc` is
`readLoop` with `followTransfer`, `ipc` is `inputLoop`; `fin` says for each
where it is in `finish`, which runs once (`once`). A connection is named by its
hop; `conns` says who ended it, and a dial that fails may leave one open
(`Left`). `terminal` is the client's `terminalErr`,
`evidence` the first error of the capture, `capture` how it was closed
("drainFailed" is a capture closed as a good one whose writer failed while
`recorder.Close` drained it: the manifest says failed and `Close` returns nil),
`session` the `cli_session` check of
the report. Packets are forms, transfers and others; what the counters of the
report hold is left out.

### AccountStore

`registry` is `accounts.json`, `tokens` the user of each token file, `cmd` the
one command that runs and its locals, `source` the token source that a running
proxy or bot keeps. Every file operation is an action of its own that may fail,
and the process may be killed between any two (`Killed`). An installation from
before the registry, with `auth-token.json` only, is one of the initial states.
The name of an account is its place in the alphabetical order, which decides
the default after a logout.

## 4. What the runs check

| Run | Instance | Shows |
|---|---|---|
| `recorder_faults` | two `Record` callers, one streamer, one closer, capacity 2, budget 2, payloads of size 1 and 3, four calls; every file operation may fail, sync after each event | the counters are exact, the limits hold, no send blocks or panics; the files are consistent in every state; order and accounting survive failures; the verifier agrees with the recorder; the recorder implements `CaptureLog` and `CaptureFiles` |
| `recorder_liveness` | one caller of each kind, a failing append, limitations and losses from outside, fair goroutines | a capture called closed or complete is whole, nothing changes after the seal, every call returns, every accepted event is committed or counted |
| `capture_verify` | all directories of up to two lines, two blobs, sizes 0, 2, 3, counter of four values, with a manifest that is right, wrong in one field or header entry, or unreadable, and with a line that ends badly or does not decode (729,904 states) | the verifier passes exactly the sound captures |
| `live_capture` | two lines with failing outputs, or one line with a request at any time; both viewers | a final status, a verified verdict and exit code 0 are only given to a whole capture; a verdict stays; pages are exact; the process ends |
| `session_transfer` | a client with two connections, transfers followed, hop limit 2; and a session without following where a second connection knocks | the identities of a bridged connection agree, the dial of a hop waits for the release of the socket before it, its work is tied to its client, one bridge error per shutdown, while the client is served nobody else gets in, a delivered transfer is followed, `Run` implements `SessionHops` |
| `session_liveness` | one connection, hop limit 2, a recorder that may fail | a cancelled run returns; a hop whose client is gone ends |
| `pack_exchange` | two versions of a pack and an encrypted one; the empty list, all lists of one, those of two that begin with the first pack, and two of three, with and without URLs; a second offer; two workers (128,787 states) | the archives and what is derived from them are exact; the exchange ends, a connection that the dial returned is handed over or closed, and a reader that fetches goes on |
| `golem_client` | three hops, an event buffer of two (824,280 states) | one connection at a time, only the remote is blamed, transfers and hops agree, a pass means no error and a capture closed as a good one, `Close` ends |
| `account_store` | three names, two users, two cache ages | tokens survive failures and kills, a rename is atomic, the default exists and changes only when asked |
| `stalled_client`, `golem_close`, `unnamed_default` | as above, two hops for the second | three statements of the documentation or of comments that the code does not keep; see section 6 |

Every run but the recorder's allows the system to stop: `Run`, a dial, a
command and a session all come to an end. The recorder's runs check deadlock,
with an explicit action for the state in which every call is spent.

Why the bounds suffice.

*Recorder.* With capacity 2 and budget 2 the queue can be empty, partly filled,
full by count, full by bytes and held by one record larger than the whole
budget. Four calls are needed for a caller that waits while another rolls back
and a third closes. Two payloads give shared and distinct blobs. Two record
callers are enough for every conflict on `enqueueMu`, since at most one holds
it and the others only wait. Symmetry is over the record callers, which are
interchangeable; the liveness run uses none.

*Session.* Two connections are the least with which an old and a new one
overlap, in both orders of every pair of their callbacks; the hop limit 2 gives
a first hop, a followed one and a transfer that meets the limit. The code's
limit is 64. The order in which `Accept` takes waiting connections matters from
a third connection on, which the proofs cover (section 5). The recorder's
failures are left to the run with one connection, where every place of `Run`
meets them. The caller cancels in the configuration with transfers only, where
every place of `Run` is met.

*Readers.* One line beyond what a reader has seen is the difference that every
race here is about; two lines separate "the last one" from "all". The two
readers share nothing but the files and `runProxy`, so failing outputs and
requests need not be combined.

*Packs.* Two versions of one UUID and a second UUID distinguish the exact
lookup of `Merge` from its lookup by UUID; a list of three with two workers
makes one download wait; the second offer repeats keys of the first or adds new
ones.

*Golem.* Three hops are a transfer into a hop that transfers again and one that
meets the limit.

*Accounts.* Three names put "default" between two others, so that the first
name in order is another; two users tell a moved token from an overwritten one.

Fairness. In the recorder every goroutine that can continue does (weak fairness
of its own steps and of the writer). `Lock` has strong fairness: a `sync.Mutex`
is handed to the waiter in order of arrival once that waiter has starved for a
millisecond, so a caller that sees the mutex free again and again does get it.
Nothing is assumed of contexts, faults or new calls.

In the session, goroutines and AfterFuncs are weakly fair, and so are the steps
a timer forces: the grace periods, the minute of each part of the spawn, the
dial's deadline, the end of a closed RakNet connection. A blocked read is fair
only once its connection is closed. Nothing is assumed of clients, of servers,
of the progress of a login or of the recorder.

In `LiveCapture`, `runProxy` and the artifact reader go on, the writer leaves
the line it is in, and a request leaves `v.mu` because it reads local files
only; the steps of `runProxy` that need `v.mu` are strongly fair, for the same
reason as `Lock`. So is the artifact reader's choice of the closed finish
channel over its ticker, since `select` chooses among ready channels at random.
In `PackExchange` the main goroutine changes its own state again and again,
because `upstreamDialTimeout` ends the dial at the latest; the reader goes on
with a packet it has begun, and a download ends for certain only once the
dial's context is done. Nothing is assumed of the server, of the chunks or of
`Store`. In
`GolemClient` only the main goroutine and whoever is inside `finish` go on:
`Close` may not depend on the reader.

## 5. What is proved

Every theorem holds for all values of the constants that satisfy the named
assumptions. These only give the constants their types: numbers are natural,
limits are not zero where the code's are not, the roles of the recorder's
callers are disjoint, `Scopes` are configurations, offers are lists of packs,
sizes fit the verifier's counter, and the values that stand for "none" are none
of the others (`RecorderAssumption`, `ManifestAssumption`, `RefAssumption`,
`WordAssumption`, `ImageAssumption`, `LiveAssumption`, `SessionAssumption`,
`PackAssumption`, `GolemAssumption`, `StoreAssumption`, `UserAssumption`). TLC
evaluates each in the runs of its module.

For the recorder, the readers, the session, the bot and the account store the
inductive invariant is a conjunction of named parts written at the end of the
component's module, and TLC has checked it on the instances of section 4. What
the proofs about loops need besides (`BytesInv`, `ScanInv`, `DerivedInv`,
`ExchangeInv`) stands in the proof modules. None of the results below is
inductive by itself; what follows says what each needs.

| Module | Theorems, with the property each states |
|---|---|
| `CaptureRecorderProofs` | `TypeCorrect`, `EvidenceAlwaysOnDisk`, `OrderAlwaysKept`, `NothingUnaccounted` (`Accounted`), `QueueAlwaysSafe` with its parts `QueueAlwaysLimited`, `SendAlwaysFindsRoom`, `NoPanic`; `AppendAlwaysFollows`; `SealedMeansSealed` (`SealedForever`); `FinalAlwaysWhole` (`FinalMeansWhole`), `FilesImplemented` (`ImplementsFiles`), `LogImplemented` (`ImplementsLog`); `PendingAlwaysExact` (`PendingExact`); `VerifierAgreesWhileBytesFit` (`VerifierAgrees`) |
| `CaptureImageProofs` | `PassesAlwaysExactly` (`PassesExactly`) |
| `LiveCaptureProofs` | `StatusAlwaysExact`, `VerifiedAlwaysShowsAll`, `ExitZeroAlwaysWhole`, `VerdictAlwaysStays`, `PagesAlwaysExact` |
| `ProxySessionProofs` | `TypeCorrect`, `DialAlwaysAfterRelease`, `BridgeErrorAlwaysOnce`, `AlwaysSoleClient`, `TransferAlwaysFollowed`, `HopsImplemented` (`ImplementsHops`); `IdentityAlwaysMatches`, `PackWorkAlwaysTied` |
| `PackExchangeProofs` | `PackTypes` (`TypeOK`), `DerivedAlwaysExact`, `ArchivesAlwaysExact` |
| `GolemClientProofs` | `TypeCorrect`, `NeverTwoConnections` (`OneConnection`), `OnlyRemoteBlamed` (`BlameRemote`), `TransfersAlwaysExact`, `PassAlwaysClean` (`PassMeansClean`) |
| `AccountStoreProofs` | `DefaultAlwaysStable`, `RenameAlwaysAtomic`, `TokensAlwaysKept` |

*Recorder.* Order of the lines needs the numbering of the queued jobs
(`SequenceInv`); that numbering is only right while the recorder has not failed
(`FailInv`) and needs to know which steps can interleave (`LockInv`); the
queue's limits need `pending` to be exactly what is queued, in hand or reserved
(`PendingInv`), and need that no other caller reserves between the answer of
`waitForQueueSpace` and the reservation, which again is `LockInv`; that no send
meets a closed channel needs how far `Close` has come (`CloseInv`); the account
of losses needs the order of acceptance (`OrderInv`). There is a lemma per
conjunct, each with a step per group of actions, and `Invariance` combines
them. `AppendAlwaysFollows` says that the out-of-order error of
`appendEventLocked` cannot occur.

*Manifest and refinements.* That a final manifest counts what is there needs
one more part, `FinalInv`: what the counters in memory say at each step of
`Close`, that the manifest on disk is the open one until then, and that an
incomplete line means a failure or a line being written. With it the directory
implements `CaptureFiles`: the two halves of a written line are its
`PartOfLine` and `WholeLine`, a failed append or sync its `Break` or
`BreakUncounted`, the end of `Close`'s drain its `Seal`, the rename of the
manifest its `Publish` (or `RemoveManifest`, when the rename failed), and every
other step leaves the readers' view alone. For `CaptureLog` the mapping takes
the counted lines for the log and what the writer itself added to
`dropped_events` for the losses; each action of the recorder is one action of
the log or none.

*Loops.* The loops over a slice are folds, and what a fold computes for every
list needs an induction. The library's induction theorems have a predicate as
parameter, which the provers cannot instantiate. `FoldFacts` states induction
for a set of numbers or of sequences instead and proves it from the pigeonhole
theorem. TLA+ only gives a recursive function its equation once a function with
that equation is known to exist, so the module builds one, and concludes that a
fold has stages: a value for each prefix of the list, each obtained from the
one before by one turn of the loop. The proofs below follow these stages.

*Pending bytes.* `PendingExact` needs `BytesInv`: `pendingBytes` is the sum over
the queue and the job in the writer's hands, and also the payload of the caller
that has reserved its place and not yet sent. The sum over the queue changes at
its end when a job is sent and at its front when one is taken.

*Verifier.* `ScanInv` says what a scan of the recorder's files has counted
after the last complete line: no issue, the number of lines as the last
sequence, and the recorder's own counters unless the last line is one whose
sync failed. A line the writer adds is one more turn of the scan, and a blob
that is published does not change what the earlier lines find. The theorem has
the hypothesis `[]BytesFit`: the payload bytes stay below the range of
`uint64`. Past it `Verify` reports an overflow of a capture that is otherwise
sound. The instance of `recorder_faults` stays below it. `PassesExactly` needs
no recorder: the scan is followed over an arbitrary list of lines, its sets and
counts are compared with the declarative ones, and the running total wraps
exactly if the sum of the sizes does not fit, in whatever order the blobs are
met.

*Readers.* `LiveCapture` rests on `CaptureFiles`, which the previous theorems
tie to the recorder. `FilesInv` says that nothing grows once the recorder is
sealed; `MainInv` what `runProxy` knows at each place where it has no error to
return; `FollowInv` what the artifact reader has read and how it may describe
it; `VerifyInv` who may verify and what holds from then on. A verdict is only
safe because the writer has stopped before anybody may verify, so all four are
needed for `VerifiedShowsAll`. The proof also corrected the type of the
reader's error count: what bounds it in every step is the number of lines it
has seen, not the number of lines there are. `PagesExact` holds for any list of
events, limit, offset and filter: a stage of the viewer's scan holds the
matching events of the prefix that fall into the window, in their order.

*Session.* `DialAfterRelease` is a chain: a hop is made ready only when the one
before it has had its connection and released it (`DialInv`), which needs the
hop that `Run` works for at each place (`HopInv`) and that the hop it bridges
has been dialled. `BridgeErrorOnce` needs that nothing is recorded for a hop
before it is bridged (`RecordInv`). `TransferFollowed` needs that, while `Run`
bridges a hop whose Transfer has arrived, the loop that sent it is about to
report it or has reported it (`LoopInv`). `SoleClient` needs that an accepted
connection is still counted as a player or is closed (`AcceptInv`). `Run`
implements `SessionHops` with the place of `Run` mapped to "waiting", "active",
"between" or "over".

*Identity.* The identity of a bridged connection is read at three times by
three goroutines. `OwnInv` follows the connections of a client that is alone:
they open one after the other and their handlers wait in that order
(`OrderInv`); one that is open and not yet accepted is the last, and belongs to
the hop that accepts now unless the client of the hop in progress is lost
(`LoginInv`); what waits for `Accept` when the next hop accepts is of that hop
(`ClientInv`). Without following, every connection is of the first hop
(`SingleInv`). Trying to prove this showed two things. From three connections
on the property depends on the order in which `Accept` takes waiting
connections: one that logged in for an earlier hop, was closed and still waits
in its handler must not be taken after a newer one. The run with two
connections cannot tell. The listener's channel keeps that order, so the model
has it now (`ahead`, `FirstWaiting`). And the property does not hold for a
session that follows transfers while a stranger connects, not even for its own
client's connections: the accept state may move between the opening of the
transport and the login. The listener does not tell clients apart, so
`IdentityMatches` and `PackWorkTied` are stated without strangers there.

*Packs.* `DerivedExact` needs that at most one archive is without an outcome of
its decryption, and that the caller's place in the loop says which
(`PlaceInv`, `Derived`), that no outcome is written twice (`Once`) and that each
belongs to an archive and to the mode (`Sound`). `ArchivesExact` adds what the
cache and the connection hold before and after the offer is handled, with no
chunked transfer left once the connection is ready (`CacheInv`), that a key
has no more packs than places in the offer (`RoomInv`), what `Merge` returned
(`MergedInv`) and how much of that has been recorded (`RecordedInv`). The three
loops of `Merge` are followed stage by stage: the number of packs of each key,
and that the result is in the order of the offer.

*Bot.* `OneConnection` and `BlameRemote` need where the reader, the writer, the
scenario and `finish` can be at the same time (`PlaceInv`, `StartInv`), which
connections are open there (`ConnInv`) and who closed the current one
(`ClosedInv`): a dial that fails may leave one open, and then no further one is
dialled. `PassMeansClean` needs what the end of the reader and the command's
status stand for (`EndInv`). It does not say that the manifest is closed: the
writer may fail while the recorder drains it, after the last packet, and
`Close` does not return that. `TransfersExact` follows a transfer by its hop,
which is what the code's lookup by target and hop finds, since a hop has one
transfer.

*Accounts.* The lemmas of the first part say what each update of the registry
does to its names and its default. A command must save over the registry it
loaded (`SnapshotInv`), which holds because no other command runs, and the
token of a rename must be where the step says it is (`MoveInv`). `TypeOK` is a
part of `Invariance` here.

Only model-checked: liveness (`NothingHangs`, `SessionEnds`, `SessionProgress`,
`ExchangeEnds`, `CloseEnds`), since reasoning under fairness and with `ENABLED`
is outside the provers' reach. Every other property of a passing run is stated
by a theorem of the table.

## 6. Where documentation and code differ

With a run:

- `stalled_client`: ADR 0003 says that a bounded grace period keeps a stalled
  client from holding the listener. The period begins after `runHop` has
  returned, and `runHop` first waits, without bound, for the client's read
  loop.
- `golem_close`: `internal/golemnet/client.go:695` says that `Close` releases
  the active connection. A `finish` between the dial of a transfer and
  `setConnection` closes the previous one; the new one stays open.
- `unnamed_default`: `docs/authentication.md` says that a first interactive
  login cannot create an unnamed default profile. `golem network` asks for a
  name only if `Default` reports an error, which it does not on a new
  installation.

Seen in the models, without a run of their own:

- `docs/capture-format.md:19` says that the manifest is replaced from a synced
  temporary file. After a failed rename `writeManifestLocked` removes the old
  manifest, and after a second failure the temporary one as well; none is left.
- `docs/capture-format.md:70` says that the stream is synced before the final
  manifest is published. It is published also when that sync has failed.
- `docs/fix-history.md:910` ties the work of an early login to the physical
  client. The tracked context is that of the connection that opened last, so a
  second connection takes it over; `PackWorkTied` is stated for a client that
  is alone.
- `docs/research/capture-observability.md:137` promises each hop its own
  identifiers. `packet.raw` keeps them by flow; `transport.payload` and
  `transport.connection_close` of the old connection are written with those of
  the pending hop.
- `docs/golem-network.md` says that `select_form` rejects indexes outside the
  observed list. `SelectForm` checks the index against one form and
  `SubmitForm` answers the form that is current a moment later.

Met while modelling, without a document that says otherwise:

- The one place of `downstreamDisconnect` can hold an older generation when the
  tracked client leaves, and the notification is then lost. A client that
  leaves between a successful dial and `Accept` leaves the upstream connection
  unclosed.
- A writer that fails while `Close` drains it makes the manifest say `failed`,
  but `Close` returns nil: a run may exit with 0 (`ExitZeroMeansWhole` says
  exactly when), and a release report of the bot may say `cli_session=pass`
  over it (`PassMeansClean`).
- A dial that reaches its deadline or is cancelled returns without closing the
  connection it has opened (`third_party/gophertunnel/minecraft/dial.go:395`
  and `:408`), and neither `connectUpstream`, `RunPacksOnly` nor the bot has a
  handle to close it: its reader stays until the server or the process ends.
- A verification that fails before any poll has seen the final manifest leaves
  the page in mode "live".
- An archive whose own key is that of another offered pack is taken for that
  pack.
- A running proxy rewrites the token file it was started with after its account
  was logged out or renamed. Two account commands at the same time can lose an
  update: there is no lock. A rename that is killed between its two file
  operations leaves the token under a name that no account has.
- `Notify` of the signaling connections delivers pending signals after it has
  released its mutex, so a newer signal may overtake them
  (`internal/experience/signaling.go:146`).

## 7. What is not modelled, and why

- The vendored libraries, as far as the proxy does not depend on their order of
  steps. The pack exchange, the listener and the dialer of gophertunnel are
  modelled where the code's properties rest on them.
- The browser launcher and the device prompt (no state); the packet-view
  encoder, the log handler, the analysis and the live reporter (sequential
  conversions and counts that feed text); the export (a sequential copy of a
  closed capture); the cipher of resource packs (arithmetic on bytes).
- The golem mailbox client: one goroutine that publishes a request and polls for
  the answer of a plugin that is outside the repository.
- The experience resolver: a chain of HTTP requests before a run. Its two
  signaling connections have goroutines of their own and are the next part to
  model.
- In `proxy.go`: the ping before a dial, the answer to `RequestChunkRadius`
  (`proxy.go:342-371`) and the rewriting of packets other than
  Transfer; in `network.go`: the recording of each read and write, one `Record`
  call each; in `main.go` and the golem commands: flags, scripts, and the text
  of reports.
- In the recorder the JSON text of an event, file permissions, time stamps and
  the creation of the directory are abstracted; `New` is the initial state.
