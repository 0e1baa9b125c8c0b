# Verification of the TON wallet

TLA+ models, TLC runs and TLAPS proofs for the Android wallet under
`app/src/main/java/com/github/tim06/wallet_contest` (called APP below), the Java binding of
tonlib in `app/src/main/java/drinkless/org/ton/Client.java`, and the light client inside tonlib
(`app/jni/ton/tonlib`) on which every request of the wallet rests.

## The system

The wallet is one activity. `MainActivity.onCreate` builds a `Storage` (a Preferences DataStore), a
`TonConnectManager` and a `TonWalletClient`; every coroutine of the last two runs in the activity's
`lifecycleScope` on `Dispatchers.IO`, so they interleave at each suspension point and disappear
with the activity or the process. The DataStore stays: each `edit` is atomic and durable, edits are
serialised, reads are not part of a transaction unless they happen inside an edit.

| component | state it keeps | operations | interacts with |
| --- | --- | --- | --- |
| Account synchronisation (`ton/TonWalletClient.kt` 688-800, `storage/Storage.kt`) | per wallet version the last `WalletData` and a transaction list, the active version | `loadAccountRevisions`, `loadTransactionsForAddress`, `updateCurrentAccountState`, `saveCurrentAddressVersion` | tonlib requests, settings screen, main screen (flows) |
| tonlib client (`Client.java`) | the handlers of queries in flight, the read-write lock, the stop and destroyed flags | `send`, `run`, `receiveQueries`, `close` | every request of the wallet; native library |
| Native light client (`jni/ton/tonlib`: `LastBlock`, `LastBlockStorage`, part of `TonlibClient`) | per network a trusted state on disk, the queries under way, the callers that wait | `get_last_block`, `sync_loop`, three proofs, saving a state, a new configuration | lite servers, every request about an account |
| Fee configuration (`LastConfig`) | the state of one query and the callers that wait | `get_last_config`, `set_config` | `LastBlock`, lite server, send screen |
| Key vault and passcode setup (`keystore/TonController.kt`, `CreatePasscodeViewModel`, `Storage.updatePasscodeData`) | two keystore aliases, the data kept for later encryption, the encrypted passcode data | `createWallet`, `onFinishWalletCreate`, `setUserPasscode`, `decryptTonData` | creation and passcode screens, Android keystore |
| Lock screen and temporary input key (`LockScreen.kt`, `inputKeyTemp`) | the key unlocked last | `getInputKeyWithCipher`, `getPrivateKeyTemp` | send flow, TonConnect sheets |
| Send flow (`ui/feature/send`) | recipient, amount, comment in the route; fee; result | `calculateFee`, `sendTon` | lock screen, tonlib, synchronisation |
| TonConnect (`TonConnectConnection`, `TonConnectManager`, `TonConnectViewModel`) | connections, their event flows, stored manifests, last event ids | connect, approve, reject, delete, transfer requests | bridge over server-sent events, lock screen, send |
| Start-up and navigation (`MainActivity`, `Navigation`, `DownloadFile`) | back stack, `walletData`, `optionsInfo`, the action waiting for a passcode | cold start, deep links, `initTonLib` | all of the above |
| Rates (`currentCurrency`) | the rate and the currency shown | `loadCurrency`, `savePrimaryCurrency` | header, settings |
| Pure conversions (`BalanceUtils`, `dnsResolve`, `Crc32c`) | none | amounts to and from text, DNS names | send flow |

What is hard here: coroutines that captured state before a request and use it after; results that
arrive in another order than they were asked for; one request of several failing; the process dying
between two edits; a key or an event that is consumed once; a request that is never answered.
`PROJECT.json` lists each hazard at its line.

### What makes each component correct

- *Synchronisation*: a stored state is a true state of its own account; a stored list holds only
  confirmed transactions, of its own account as long as nobody switched; a state is not saved ahead
  of its history; refreshing catches up.
- *tonlib client*: each query's handler is called at most once, with the answer to that query, and
  eventually; `close` returns.
- *Light client*: every caller is answered, with a block not older than its request; what is kept on
  disk belongs to its network, was checked and, while the process has one native client, only moves forward;
  percentages stay in range.
- *Fee configuration*: every fee estimate is answered.
- *Key vault*: the passcode confirmed last opens the key whose words were shown; passcode data and
  salt stay in step; a setup interrupted by a death or repeated by a user who waits for its steps does not
  promise a passcode that opens nothing (hasty users and a turned device are another matter, see Findings).
- *Temporary key*: a key serves one round of takers; a payment that was declined is not paid later; a
  send that gets no key lost it for a cause in the code.
- *TonConnect*: an event the bridge will not deliver again was handled, unless the process died over it; the
  manager lists what is stored; no message is stuck behind a connection that is gone.
- *Start-up*: a stored wallet leads to the lock screen; tonlib is initialised before it is used.

## Plan

1. `WalletSync`, `AccountView` and `WalletSyncProofs`: the core. Done.
2. `TonlibClient` with the abstract `QueryService`: the request path under every component. Done.
3. `KeyVault`: creation, import and passcode setup, with crashes, rotation and repeated taps. Done.
4. `LastBlock` with the abstract `ChainHead`, and `LastConfig`: what a request about an account waits for
   inside tonlib. Done.
5. `InputKeyTemp`: lock screens, the temporary key, the pending payment and the payment sheet. Done.
6. `TonConnect`: connections, bridge (external), the connection sheet, the dApps screen. Done.

What is left, and why, is under "Not modelled".

Each component module has its constants assumed, one action per operation and no RECURSIVE
operator, so that it can be proved about; its proofs are in a module `<name>Proofs` (TonConnect has a
second one, `TonConnectSettledProofs`).

## Modules

### WalletSync: account synchronisation

One key owns an account per wallet version (`V3R1`, `V3R2`, `V4R2`). An account state is abstracted
to its last logical time: the account has the transactions `1..chain[v]`, and balance and hash are
functions of that number.

| variable | code |
| --- | --- |
| `chain` | the accounts on the blockchain (external) |
| `wallet`, `txs`, `current` | DataStore keys `WALLET_ADDRESS_*`, `<version>_transactions`, `CURRENT_WALLET_VERSION` |
| `phase` | where the user is: start screen, inside `createWallet` or `importWallet`, passcode screens, main screen |
| `setup` | the loop of `loadAccountRevisions`: the version visited and the answer of its `GetAccountState` |
| `load[v]` | a `loadTransactionsForAddress` coroutine between its start and its save |
| `job[j]` | an `updateCurrentAccountState` coroutine: version captured, answer, next step |
| `lost`, `switched`, `failures`, `restarts` | history variables, for properties and bounds only |

Each suspension point of the code separates two actions: `RefreshStart` (capture of the active
wallet), `StateAnswer`, `Compare` (the second read of the active wallet), `HistorySave` (request,
list chosen by the revision, merge with the active list), `StateSave`; the error paths are
`StateFails`, `HistoryFails`, `LoadFails`, `RevisionFails`. `Restart` is the death of the process.

Abstractions: the order inside a list, balances and hashes; a version switch between the two reads of
one `getCurrentWallet` is taken to come before both (it could only change the outcome of a comparison
made after a switch, where no property depends on it); one key only (a second
`createWallet` over a first one belongs to the key vault); the revision tonlib reports for a V3R1
account is nondeterministic (1 once its code is deployed).

### AccountView: what the screens are promised

States are true, lists are confirmed, the active list grows, only saved versions become active.
`WalletSync!ViewSpec` is this specification over the same variables, so the refinement mapping is
the identity on `chain`, `wallet`, `txs` and `current`; everything else is a stutter.

### TonlibClient: the Java binding of tonlib

A query is one call of `send`, a sender the coroutine thread that makes it. `Client.java` has three
kinds of threads: senders (`SendLock` ... `SendUnlock`, one action per shared access: read lock, atomic
counter, handler table, native call), the tonlib thread (`Receive` fills a batch, `Process` is one
`processResult`), and a thread that calls `close`. The native library is external: it answers every
query once, in any order, under the id it was sent with, and reports updates under id 0.

| variable | code |
| --- | --- |
| `pc`, `id` | where each `send` is, and its local `queryId` |
| `handlers` | the keys of `handlers` |
| `currentQueryId`, `isClientDestroyed` | the fields of that name; `stopFlag` is the constant FALSE, because its assignment is commented out |
| `closer` | where `close` is; with `pc` it also says who holds the read-write lock |
| `native`, `events` | queries and results inside the library |
| `batch` | results `receiveQueries` holds in its arrays |
| `answer` | the query whose answer a handler was called with |

Not modelled: `execute` (no shared state), the setters of handlers (the app never calls them), what
handlers do (`handleResult` swallows whatever they throw), and the part of `close` after its wait for
`stopFlag`, which is never reached.

### QueryService: what a caller of tonlib is promised

A query is asked at most once and its handler called at most once, with the answer to that query.
`TonlibClient!ServiceSpec` is this specification with `asked` mapped to the queries whose `send` began.

### KeyVault: creating a wallet and setting its passcode

A *creation* is one call of `createWallet` or `importWallet`; it names its tonlib key and the two
keystore pairs it makes. A *tap* is one confirmation of the passcode; it names its salt. Encryption is
symbolic: `creatingDataForLaterEncrypt` is a key under a sequence of passcode layers, because
`setUserPasscode` encrypts the array in place, and a stored blob adds the keystore pair it was
encrypted with. `Opens(p)` is `decryptTonData`: the pair is still there and the only layer comes off.

| variable | code |
| --- | --- |
| `bioAlias`, `pinAlias` | the pair under each `TonController`'s keystore alias |
| `client`, `creatingData` | the activity's `TonWalletClient`, and the kept data of each one's `passcodeTonController` |
| `job[c]` | the coroutine of a creation between its suspension points |
| `edits`, `store` | `updatePasscodeData` coroutines launched but not done; the stored `PasscodeData` |
| `wallet` | whether and for which creation a wallet is stored |
| `phase`, `shown`, `chosen`, `typed`, `entered` | the screen, the key and passcode in its route, the digits in the view models |
| `viewModel`, `save[t]` | the client the passcode view models hold; a `savePasscode` coroutine |
| `promise`, `lost`, `deaths`, `failures` | history variables |

The code's order is kept: both pairs are made before the first request (`NewBioKey`, `NewPinKey`), the
wallet is stored (`SaveWallet`) before either blob (`FinishBio`, `FinishPin`), the data is encrypted
with the passcode (`SaveEncrypt`) and then with the pair of the moment (`SaveStore`). A coroutine that
was cancelled goes on to its next suspension point (field `alive`). Every edit is a coroutine of its
own, so edits reach the DataStore in any order. `Turn` makes a new client while view models and their
coroutines keep the old one, whose scope is cancelled: its edits are not launched (`Launched`).
`Restart` and `SaveCrashes` (no kept data: `!!` fails) end the process.

`Haste` names what the user does although an earlier action is under way: start another creation, tap
again, delete a digit, go back. Nothing in the code prevents any of it; with `Haste` empty the user
waits.

Abstractions: the three wallet versions are one and their history loads are in `WalletSync`; the word
screens are part of `Show`; reading the stored data and decrypting it is one step in `TypePasscode`; a
wrong confirmation only shakes the screen and is left out; a wrong passcode is always recognised (the
code compares two bytes of the decrypted data); the device has a secure lock screen, so that the
biometric pair requires authentication; which screen a new process shows is decided by the stored
wallet (`Navigation` asks a collector that may be late: see the hazards).

### LastBlock: the light client

The actor `LastBlock`, the lite server it asks, and the part of `TonlibClient` that starts it from the
state on disk and writes states back. A block is its height; an init block of an abandoned fork is a
negative height. Actor and `TonlibClient` are on different threads, so a state to be saved is a message
(`mail`) that carries the generation of its configuration.

Every `onCreate` of the activity makes another `TonWalletClient` (`MainActivity.kt:57`), and each of these another
native client over the same directory (`TonWalletClient.kt:74`); the one before is never closed. The model has
the newest client in full. `Recreate` puts the one before into `earlier`, with its configuration and the oldest
state it may still save, and `LateWrite` has it write the file at any later time, with whatever a proof
from that state may have led it to. Every client that is replaced is taken to go on, also one that would have
nothing left to do: the model allows more late saves than there are.

| variable | code |
| --- | --- |
| `lb` | the actor: `zero`, `key`, `last`, `init` are `LastBlockState`; `mc`, `chk`, `get` its three query states; `held` is `promises_`; `min`, `cur`, `max` the progress it reports |
| `wire` | its queries: asked, answered or failed |
| `store` | `LastBlockStorage`, one file for each network |
| `earlier` | the native clients of earlier activities of the process |
| `gen`, `conf` | `config_generation_` and the configuration |
| `status`, `got`, `asof` | the callers of `get_last_block`; `asof` is a history variable |
| `tip` | the server's chain (external) |

One action is one message of an actor: `GetLastBlock`, the three answers (`OnMasterchainInfo`,
`OnInitBlockProof`, `OnBlockProof`, each with the `sync_loop` it ends in), `UpdateLastBlockState`,
`SetConfig`. What a configuration starts from (`Loaded`) is the file, unless it is to be ignored
(`ignore_cache`), has no state or has one of fewer hard forks (`vert_seqno`); a file of more hard forks, or of another
zero state, is refused. The app itself sets neither: `TonWalletClient.kt:131` passes `false`, and for a network
the library knows the hard forks have to be the built-in ones (`TonlibClient.cpp:2023`). `sync_loop` is the operators `Start` (what becomes Active), `Started` (which queries are
sent) and `Answered`. A server answers (`Serve`), fails, or the query is lost and times out (`Lose`); a
proof may stop at a key block, and the actor goes on from there. `Die` leaves only the files. Proofs are
checked by the code, so a server here says nothing false; it may be a server of another network.

### ChainHead: what the light client promises

To its callers and to the next start the light client is one block of the chain (`head`) that only moves
forward: a caller is answered with the head, which is not older than what anybody was answered with under
this configuration, nor than the tip of its request if it found the actor idle; the file of a network keeps
a block the head has come past, as long as nobody else keeps any (`alone`). `LastBlock!HeadSpec` is this specification with `head` mapped to
`lb.last`, `net` to the network configured, `kept` to the key blocks in the files (0 for none), `alone` to
`earlier = {}` and `waiting` to the callers sent or held; queries, checks and the mail are stutters.

### LastConfig: the fee parameters

The actor of the same name between its callers (`query.estimateFees`), `LastBlock` and a lite server.
The run `fees_answered` shows that one error of `LastBlock` stops it; `StuckForCause` (proved) says that
nothing else does, and `DeafForGood` (proved) that nothing but a new configuration starts it again.

### InputKeyTemp: who takes the key a passcode unlocked

`inputKeyTemp` is one field. The three lock screens set it (or, with biometrics, do not; with a wrong
passcode, clear it); the pending screen, the payment sheet of a dApp and the approval of a connection take
it, each in a coroutine of its own, by a read and a later assignment.

| variable | code |
| --- | --- |
| `passcode`, `inner`, `opened`, `onMain` | the route on top, what the MAIN entry under it shows, a running unlock animation, `passcodeSuccessAction` |
| `sheet`, `request`, `shown` | `bottomSheetShow`, `transferRequest`, the request on the composed sheet |
| `arrived`, `closed` | requests of the dApp so far; history: those declined |
| `viewModels` | the `recipientAddress` of the sheet's view model in each MAIN entry |
| `inputKeyTemp`, `unlocks`, `wipedBy`, `biometric` | the field; the rest is history |
| `tasks` | the coroutines that take a key, from their launch to their end |

A key is the number of its unlock, a payment of a dApp the request whose recipient it pays (the amount is
never replaced by the code, see the hazards). Entries under the MAIN entry on top are never reached again,
because every unlock pushes a new one; a sheet blocks what lies under it. There is one connection: its requests
replace each other on the sheet as those of several would. What the dApp is told (`rejectTransferRequest`, also after
an approval) and rotation are left out here; the
conditions of a button while an animation runs are kept where they decide who takes a key.

### TonConnect: the connections to dApps

`TonConnectManager`, its connections, the view model of the connection sheet and the stored manifests and
event ids. A scanned link makes new connection data, named by its number, because every scan generates a
key pair. A stream and a post are both calls of the activity's OkHttp client (`calls`), whose dispatcher
starts queued calls in order while fewer than `MaxPerHost` run (`Dispatch`); it and the bridge are external.

| variable | code |
| --- | --- |
| `manifests`, `lastEventId` | the two kinds of DataStore keys of TonConnect |
| `edits` | `saveTonConnectLastEventId`, `saveTonConnectManifest1`, `deleteTonConnectConnection` launched and not written |
| `activity`, `manager` | the activity, and the one whose manager the retained view model holds |
| `calls` | streams (`listed`: in `connections`) and posts |
| `loaded`, `loading` | `initTonConnectConnections`: read the manifests, read each id, open each |
| `late` | history: the dApps an edit of an earlier activity was still to be written for when the manifests were read |
| `deleting`, `approving`, `sheet`, `success` | coroutines of a disconnect, of an approval; the sheet and `ButtonState.Success` |
| `known`, `log` | the dApps and the bridge (external) |
| `handled`, `interrupted` | history |

`onEvent` is two steps, because the save of its id runs beside it; a message that cannot be decoded ends the
stream. `NewActivity(kept)` is a rotation, or a finished activity and a new one; the streams of the old
manager stay open (`clear` is never called) and its coroutines are cancelled. Of its edits at most the one the
DataStore has begun is still written, before any of the new activity's but maybe after the new manager has read the
manifests: `dataStore.data` of version 1.0.0 hands out what it has in memory and waits for no update. The
old activity is destroyed before the new one runs. A dApp answers to the first
connection made with its link; streams and posts may fail at any time.

## Runs

| run | what it checks |
| --- | --- |
| `wallet_sync` | type, `SavedStateWasTrue`, `DefaultListIsOwn`, `HistoryBehindState`, `ActiveListGrows`, and that `WalletSync` implements `AccountView` |
| `wallet_sync_live` | `CatchesUp`: with the user refreshing again and again, the stored state of the active version ends up current |
| `tonlib_client` | type, `HandlerWaits`, `HandlerIsOwed`, `DestroyedIsLocked`, that `TonlibClient` implements `QueryService`, and `SendAnswered`: every call of `send` is answered, unless `close` is called |
| `tonlib_close` | finds `CloseReturns` violated: `close` waits for `stopFlag`, which nothing sets, and holds the write lock meanwhile, so later senders block as well (reached only through `finalize`; the app never calls `close`) |
| `key_vault` | type, `PromiseKept`, `DoorsAgree`, `OneLayer`, `PromiseHonoured` for a user who waits |
| `key_vault_hasty` | `DoorsAgree` with extra taps, deleted digits and going back during a save, a rotation on any screen and an import after the creation |
| `key_vault_tap` | finds `PromiseKept` violated: one more tap during the save encrypts the kept data twice, success is shown and no passcode opens the wallet |
| `key_vault_turn` | finds `PromiseKept` violated: after a rotation on the confirm screen success is shown and nothing is stored |
| `last_block` | type, `OneQueryEach`, `NobodyStranded`, `FreshAnswer`, `NothingUnsaved`, `KeptIsChecked`, `StoreOwnNet`, `FatalIsFinal`, `PercentInRange`, `StoreForward`, that `LastBlock` implements `ChainHead`, and the liveness of `CallersAnswered` and `FileCatchesUp` |
| `fees_answered` | finds `FeesAnswered` violated: after one error of `LastBlock` every later fee estimate waits for ever |
| `input_key` | type, `KeyTakenOnce`, `DeclinedNotPaid`, `StarvedForCause` |
| `tonconnect` | type, `AckedWasHandled`, `SettledMatches`, `PostsMove` |

Bounds of `wallet_sync`: two overlapping refreshes (`Jobs`), one transaction in the V3R1 account, two
in V3R2 and none in V4R2 (`MaxLt`), pages of one transaction (`PageSize`, 100 in the code, so that a
page can miss an older transaction), one failed request (`MaxFailures`), one switch (`MaxSwitches`),
one death (`MaxRestarts`). Two refreshes are what an overtaking needs, two transactions what a page
boundary needs, and each disturbance occurs at any point of every coroutine. `Jobs` is a symmetry
set, which is sound for safety properties. `wallet_sync_live` uses no symmetry, no death and accounts
without transactions apart from V3R2. Deadlock is not checked: with all
bounds used up and the user idle the system may stop.

Bounds of `tonlib_client`: three queries, one update, batches of two results (1000 in the code): two
senders race, a third result overflows the batch, and `close` may arrive anywhere. `tonlib_close` uses
fewer. Deadlock is not checked: every query may be answered, and a system that closes is stuck by design.

Bounds of `key_vault`: a creation and an import (so that a second setup meets the data of a first),
two passcodes, two confirmations, one rotation per process on any screen but those of the confirmation and
of success, one death of the process, one failed request. A second setup over stored data needs exactly one failure
(the wallet was not stored) and one death; a half-done setup is resumed with the second confirmation.
`key_vault_hasty` replaces deaths and failures by haste, with a creation, an import and one rotation on any
screen; hasty creations are excluded, because two overlapping `createWallet` coroutines do break both
properties (see the hazards). The two
violation runs allow nothing but the tap or the rotation. Deadlock is not checked: what follows the
lock and success screens is not part of this module.

Bounds of `last_block`: one caller, two networks, a chain of height 3 that grows to 4 with key blocks 2 and
4 and the library's own init block 1; a user's configuration names block 3 of the chain or of a fork, or none;
a configuration may list one more hard fork, have the file ignored, or name servers of another network;
two configurations (a restart and a new activity need one too, so `Recreate` only happens while one is left) and one
lost query. One caller is enough for the run, because a
second one only waits beside it: the proofs cover every set of callers, and two callers hold in a safety
check of the same instance. Deadlock is not checked: with the bounds used up and the app idle, nothing happens.

Bounds of `fees_answered`: two callers, two failures, one further configuration.

Bounds of `input_key`: two unlocks, two requests of a dApp, two tasks. Two of each is what one overtaking the
other needs; 2.5 million states.

Bounds of `tonconnect`: two dApps of two links each, so that a dApp is connected anew under another client id; two
scans, of one link or of two, of one dApp or of both; two events, a
dispatcher with two places (so that it fills up), five calls of one process, one further activity or process
(which may be any of the three kinds). The links of a dApp, and the dApps with their links, are symmetric; all
four properties are invariants. 5.9 million states. `Haste` is FALSE: the user does not change a connection while an earlier change
to the same dApp is under way. With `Haste` TRUE `SettledMatches` fails (a second Disconnect that finds the
connection made in between); the other properties were not found to.

Fairness of `KeyVault`: weak fairness of the pending edits only (`Edit`); the DataStore applies what it
accepted. No user has to act.

Fairness of `WalletSync` (`FairSpec`): weak fairness of the setup steps, of each history load and of each refresh's
own steps, because tonlib answers every request and `Dispatchers.IO` runs every coroutine that is
ready. The user, the chain and failures are not fair; `CatchesUp` assumes infinitely many refreshes
explicitly.

Fairness of `TonlibClient`: every thread runs (weak fairness of the steps inside `send`, of the tonlib
thread and of `close`) and the library answers each query; nobody has to call `send` or `close`.

Fairness of `LastBlock`: the scheduler runs an actor that has a message; a query is answered or given up after
ten seconds (`ExtClient::send_raw_query`); and callers keep asking, without which nothing would have to be
saved. The chain, losses, configurations and deaths are not fair. `FairSpec` of `LastConfig` is of the same
kind: both of its questions are answered, with a result or an error.

## Proofs

`WalletSyncProofs` proves for every number of refreshes, page size and bound:

- `TypeCorrect`: the type invariant, inductive as it stands.
- `SavedStatesAreTrue`: needs `TruthInv`, which says of every answer in flight (in `setup`, `load`, `job`)
  what the property says of a saved state; `ChainGrows` is why an old answer stays true.
- `ActiveListNeverShrinks`: from the shape of every write to a list (`ListSteps`).
- `ImplementsView`: every step that writes a list or a state is a step of `AccountView` or a stutter.
- `DefaultListUnmixed` and `HistoryNeverBehind`: from `HistoryInv`, which adds that all refreshes before
  the first switch are about the default version, and that a refresh about to save has the page of
  its answer stored or on its way.

`TonlibClientProofs` proves for every set of queries, batch size and number of updates:

- `TypeCorrect`; `ReceiveSplits` says what a batch takes out of the ready results and what it leaves.
- `DestroyedStaysLocked`: from `LockInv`, the write lock excludes senders and is never given back.
- `ClientInvariant`: the inductive invariant `ClientInv`. `HandlerWaits` is not inductive: that a handler is
  still there when an answer arrives depends on ids being drawn in order and unique (`IdInv`), on how
  far each sender got (`SendInv`), on each queued result carrying its query's id and on no query
  having two (`ResultInv`); `OwedInv` is the converse for the table. Results are addressed by their
  place in batch and library together (`Item`, `Size`), which `Receive` leaves alone, `Process` shifts by
  one and an answer extends; one lemma states each.
- `HandlersWait`, `HandlersAreOwed` and `ImplementsService` follow from `ClientInv`; `ProcessAnswers` says that
  processing a result is a step of `QueryService` or a stutter.

`LastBlockProofs` proves for every set of callers, networks, key blocks and init blocks, and any length of
the chain, in stages, each using the earlier ones:

- `TypeInv`: types, and that nothing runs while the process is down.
- `Waiting`: who waits is whom the actor holds (`HeldAgree`), and `OneQueryEach`, by which a query state can
  be read off the queries under way. From it the answered caller's freshness (`FreshAnswer`), with the tip
  of its request.
- `Nets`: states in the actor, in `mail` and on disk belong to their network (`StoreOwnNet`) and key blocks
  only grow along the way to the disk (`StoreForward`, while no earlier client writes); a fatal actor has asked another network.
- `Checks`: every check of an init block asks from the older block to the newer, and a finished one names a
  block of the chain; hence `KeptIsChecked`.
- `Pending`: while promises are held, whatever is not done is being asked for. It gives `NobodyStranded`, the safety
  core of `CallersAnswered`: what fairness then has to do is to have one query answered.
- `SaveInv`: the newest save names the key block and init block the actor has, or an init block is still being
  checked that differs from the actor's, so that the end of the check saves both. It needs that a proof of the
  last block runs only after the check (`CheckFirst`), without which its save would be dropped. It gives
  `NothingUnsaved`, the safety core of `FileCatchesUp`. Both are about a process with one native client: with one
  of an earlier activity left over the file may be set back, and the next start proves some blocks again.
  `KeptIsChecked`, `StoreOwnNet` and all that concerns callers are proved without that condition.
- `ImplementsHead`: every step is a step of `ChainHead` or a stutter, from `HeadInv`, which joins the stages above
  with `InChain` (the actor's blocks, every proof under way and every file are blocks of the chain). Without
  `InChain` an answer could move `head` past the tip, without `Fresh` it could be older than promised, and without
  `Notes` (in `Nets`) a late save could move `kept` back.
- The progress (`PercentInRange`) is an invariant of its own.

`LastConfigProofs`: `StuckForCause` is inductive together with the relation of `get_config_state_` to what is
asked (`Track`). `DeafForGood`, an action property, says that the error of `LastBlock` leaves the actor Active with
nothing asked, and that from then on every step but a new configuration leaves it so and answers nobody. Neither
is checked by a run of its own, since the one run of the module stops at the violation; `TypeHolds` is the types.

`InputKeyTempProofs`: `Evolve` says once for all actions how tasks change (`Kept`, `Born`). On it rest
`KeyInv` (a key that was taken out is not in the field again), `DeclineInv` (a view model never names a
request declined before its task was launched) and `CauseInv` (what an open lock screen and a send launched
from it can count on).

`TonConnectProofs` proves for any number of scans, events, calls and activities and any `MaxPerHost`:

- `TypeHolds`: types, and that whatever names a connection, an event or an activity names one there is.
- `AckedWasHandledHolds`: the invariant `AckInv` says of *every* place an event id can come from (the DataStore,
  an edit not yet written, an id read while loading, the place each stream has reached) that all events of the link up to it were
  handled, are being handled or were cut off. The property speaks of the stored ids only; a restart turns
  each of the other places into a stored one.
- `PostsMoveHolds`: whatever the dispatcher was last given, a call it left in the queue has all places taken
  ahead of it (`WaitingIn`), and a stream that is not done is listed or has a request declined over it (`OwnedIn`).
  Ahead of the first call in the queue are only running ones; when no post moves, all of these are open streams.

`TonConnectSettledProofs` proves `SettledMatchesHolds` under `~Haste`, the condition of the run. `SettledMatches`
speaks only of moments when nothing is under way; the invariant says what may differ before:

- `ListInv`: a manager has at most one connection to a dApp, and declines requests over none that it lists.
- `StartInv`: until the stored connections are opened, nothing of the current activity changes them; an edit of an
  earlier activity may, and then its dApp is in `late` once the manifests were read. The theorem leaves these out:
  an approval whose save is written that late is stored and not listed until the next start, and a disconnect the
  other way round.
- `MatchInv`: a stored connection is to be opened, listed, or about to be replaced or deleted by an edit; a listed
  one is stored or its save is coming.
- `OneInv`: one change at a time is under way for a dApp. This is where `~Haste` is used.
- `GoingInv`: a disconnection tells the dApp over the connection that is listed for it, so that it destroys this one.

`KeyVaultProofs` proves `TypeHolds` without conditions, and each of the three safety properties under the
weakest condition on the user found, for any number of creations, passcodes, confirmations, deaths and failures.
TLC finds each property violated on a small instance once its condition is relaxed.

- `DoorsAgreeHolds`: a creation is not started over another one (`Waits`); extra taps, deleted digits, going back
  during a save and rotations on any screen are allowed. From `DoorInv`: creations run one at a time and
  alone (`PairInv`); every blob, stored or in an edit, carries the pair of its own key, and a biometric one exists
  only once its creation has made the other pair too (`OwnInv`), so blobs of different creations cannot both match
  the pairs of the moment; kept data of an older creation lies only with clients no later step takes up
  (`InUse`, `RecentInv`).
- `OneLayerHolds`: the user waits (`Unhurried`), on a device turned at any time. From `DoorInv` and `LayerInv`: kept
  data has a layer only while its one confirmation runs or after success, and what is stored or about to be has
  the layer of the salt beside it.
- `PromiseKeptHolds`: the user waits and does not turn the device on the confirmation and success screens
  (`Careful`; the two violation runs show what happens otherwise). From `CareInv`: of a creation that has not come that
  far there is no pair, blob or edit yet (`FreshInv`); every edit under way belongs to the setup on the screen
  (`BlobInv`); kept data is kept for the client of the moment (`KeptInv`, `SaveInv`); on the way to the success screen
  and after it, the public key and the passcode blob are stored or their edits are under way (`PromiseInv`). A death
  that loses such an edit is why `promise` is withdrawn.

The assumption `NoneIsNoRecord` (null is no blob, no kept data and no salt) is what the code means by null.

The constants are assumed only to be of their kind; the assumptions are named in each module.

Only model-checked: the liveness properties `CatchesUp`, `SendAnswered`, `CloseReturns`, `PromiseHonoured`,
`CallersAnswered`, `FileCatchesUp` and `FeesAnswered`.

## Findings

`PROJECT.json` quotes the lines. `tonlib_close`: `close` never returns. `key_vault_tap` and `key_vault_turn`: an
extra tap, and a rotation, lead to a success screen and a wallet no passcode opens. `fees_answered`: one
error of `LastBlock` ends all fee estimates.

## Not modelled

- Start-up (`isWalletExists` against the collector of the wallet flow, the requests of `initTonLib`): each is a
  single race or failure, listed as a hazard; what follows is modelled from the first screen on.
- Rates, and the conversions of amounts, names and addresses: text, without state.
- Settings, history and receive screens, composables, the camera.
- The rest of tonlib, the TON sources, boringssl, lz4, rlottie, zxing and the generated bindings: third-party or
  generated code, by far the largest part of the repository. Of it only the light client is modelled, and so the
  mapped share of all lines stays small. Lite servers, the bridge, the HTTP client and the Android keystore are
  environment.
