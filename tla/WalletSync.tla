----------------------------- MODULE WalletSync -----------------------------
(***************************************************************************)
(* The account synchronisation of the wallet: TonWalletClient's            *)
(* loadAccountRevisions, loadTransactionsForAddress and                    *)
(* updateCurrentAccountState, the Storage keys they read and write, the    *)
(* switch of the active wallet version and the death of the process.       *)
(*                                                                         *)
(* One key owns one account per wallet version.  The accounts live on the  *)
(* chain and grow on their own; the phone keeps, per version, the last     *)
(* account state it saved (WalletData) and a transaction list.  Every      *)
(* coroutine suspends at each request and at each DataStore edit, so the   *)
(* steps of several refreshes, of the history loads an import started and  *)
(* of the user interleave freely.                                          *)
(*                                                                         *)
(* An account state is abstracted to its last logical time: an account has *)
(* the transactions 1..chain[v], and balance and hash are functions of     *)
(* that number.  DataStore edits are atomic and durable.                   *)
(***************************************************************************)
EXTENDS Integers, FiniteSets

CONSTANTS
    Jobs,         \* slots for concurrent updateCurrentAccountState coroutines
    MaxLt,        \* MaxLt[v]: bound on the transactions of v's account
    PageSize,     \* transactions one RawGetTransactionsV2 returns (100 in the code)
    MaxFailures,  \* bound on requests answered with TonApi.Error
    MaxSwitches,  \* bound on switches of the active version
    MaxRestarts,  \* bound on deaths of the process
    NoWallet,     \* no WalletData saved for a version
    NoLoad        \* no history load in flight for a version

Versions == {"V3R1", "V3R2", "V4R2"}
Default == "V3R2"

ASSUME SyncConstants ==
    /\ MaxLt \in [Versions -> Nat] /\ PageSize \in Nat \ {0}
    /\ MaxFailures \in Nat /\ MaxSwitches \in Nat /\ MaxRestarts \in Nat
    /\ NoWallet \notin Nat /\ NoLoad \notin Nat

VARIABLES
    chain,     \* chain[v]: last logical time of v's account, on the chain
    wallet,    \* wallet[v]: last logical time in the WalletData saved for v
    txs,       \* txs[v]: the transactions under the key "<v>_transactions"
    current,   \* the version under CURRENT_WALLET_VERSION
    phase,     \* how far the user got: see Phases
    setup,     \* progress of loadAccountRevisions
    load,      \* load[v]: logical time loadTransactionsForAddress(v) asked from
    job,       \* job[j]: progress of one updateCurrentAccountState
    lost,      \* history: versions with a history request that never delivered
    switched,  \* history: the number of switches of the active version
    failures,  \* history: the number of failed requests
    restarts   \* history: the number of deaths of the process

storage == <<wallet, txs, current>>
history == <<lost, switched, failures, restarts>>
vars == <<chain, wallet, txs, current, phase, setup, load, job,
          lost, switched, failures, restarts>>

\* The order in which loadAccountRevisions visits the versions.
Successor == [V3R1 |-> "V3R2", V3R2 |-> "V4R2", V4R2 |-> "done"]

\* "start": no wallet yet.  "creating", "importing": inside loadAccountRevisions.
\* "passcode": the wallet is saved, its passcode is not.  "main": the main screen.
\* "out": restarted with a wallet but without a passcode, or with a key nobody has.
Phases == {"start", "creating", "importing", "passcode", "main", "out"}

Transactions == [account : Versions, lt : Nat \ {0}]

\* What RawGetTransactionsV2 returns for v's account, counting back from lt.
Page(v, lt) ==
    {[account |-> v, lt |-> n] : n \in {m \in 1..lt : lt - PageSize < m}}

Idle == [pc |-> "idle", ver |-> Default, lt |-> 0]
SetupIdle == [ver |-> "done", lt |-> NoWallet]

JobRecords ==
    [pc : {"idle", "askState", "compare", "askHistory", "saveState"},
     ver : Versions, lt : Nat]

TypeOK ==
    /\ chain \in [Versions -> Nat]
    /\ wallet \in [Versions -> Nat \cup {NoWallet}]
    /\ txs \in [Versions -> SUBSET Transactions]
    /\ current \in Versions
    /\ phase \in Phases
    /\ setup \in [ver : Versions \cup {"done"}, lt : Nat \cup {NoWallet}]
    /\ load \in [Versions -> Nat \cup {NoLoad}]
    /\ job \in [Jobs -> JobRecords]
    /\ lost \in SUBSET Versions
    /\ switched \in 0..MaxSwitches
    /\ failures \in 0..MaxFailures
    /\ restarts \in 0..MaxRestarts

Init ==
    /\ chain \in {c \in [Versions -> UNION {0..MaxLt[v] : v \in Versions}] :
                    \A v \in Versions : c[v] <= MaxLt[v]}
    /\ wallet = [v \in Versions |-> NoWallet]
    /\ txs = [v \in Versions |-> {}]
    /\ current = Default
    /\ phase = "start"
    /\ setup = SetupIdle
    /\ load = [v \in Versions |-> NoLoad]
    /\ job = [j \in Jobs |-> Idle]
    /\ lost = {}
    /\ switched = 0 /\ failures = 0 /\ restarts = 0

-----------------------------------------------------------------------------
(* The chain and the network.                                              *)

\* A transaction of v's account is confirmed.  Nobody knows the addresses of a
\* new key before createWallet returns.
Receive(v) ==
    /\ chain[v] < MaxLt[v]
    /\ phase # "creating"
    /\ chain' = [chain EXCEPT ![v] = @ + 1]
    /\ UNCHANGED <<storage, phase, setup, load, job, history>>

\* A request is answered with TonApi.Error.
Fail ==
    /\ failures < MaxFailures
    /\ failures' = failures + 1

-----------------------------------------------------------------------------
(* Storage.                                                                *)

\* Storage.saveWalletData
SaveWalletData(v, lt) == wallet' = [wallet EXCEPT ![v] = lt]

\* Storage.saveTransactions: the new transactions are merged with the list of the
\* version that is active now, and the result replaces the list of v.
\* Faulty variants: source and target of the merge swapped; the merge forgotten.
SaveTransactionsSwapped(v, new) == txs' = [txs EXCEPT ![current] = new \cup txs[v]]
SaveTransactionsUnmerged(v, new) == txs' = [txs EXCEPT ![v] = new]
SaveTransactions(v, new) == txs' = [txs EXCEPT ![v] = new \cup txs[current]]

-----------------------------------------------------------------------------
(* createWallet and importWallet: loadAccountRevisions.                    *)

\* A fresh key owns accounts without transactions.
StartCreate ==
    /\ phase = "start" /\ restarts = 0
    /\ \A v \in Versions : chain[v] = 0
    /\ phase' = "creating"
    /\ setup' = [SetupIdle EXCEPT !.ver = "V3R1"]
    /\ UNCHANGED <<chain, storage, load, job, history>>

StartImport ==
    /\ phase = "start"
    /\ phase' = "importing"
    /\ setup' = [SetupIdle EXCEPT !.ver = "V3R1"]
    /\ UNCHANGED <<chain, storage, load, job, history>>

\* GetAccountState answers with the state of the version being visited.
RevisionAnswer ==
    /\ setup.ver # "done" /\ setup.lt = NoWallet
    /\ setup' = [setup EXCEPT !.lt = chain[setup.ver]]
    /\ UNCHANGED <<chain, storage, phase, load, job, history>>

\* GetAccountState, or a request that computes the address, fails: the version is skipped.
RevisionFails ==
    /\ setup.ver # "done" /\ setup.lt = NoWallet
    /\ Fail
    /\ setup' = [SetupIdle EXCEPT !.ver = Successor[setup.ver]]
    /\ UNCHANGED <<chain, storage, phase, load, job, lost, switched, restarts>>

\* The state is saved, and an import launches the load of the history.
RevisionSave ==
    /\ setup.ver # "done" /\ setup.lt # NoWallet
    /\ SaveWalletData(setup.ver, setup.lt)
    /\ load' = IF phase = "importing"
               THEN [load EXCEPT ![setup.ver] = setup.lt] ELSE load
    /\ setup' = [SetupIdle EXCEPT !.ver = Successor[setup.ver]]
    /\ UNCHANGED <<chain, txs, current, phase, job, history>>

\* loadAccountRevisions returns; the user goes on to the passcode screens.
SetupDone ==
    /\ phase \in {"creating", "importing"} /\ setup.ver = "done"
    /\ phase' = "passcode"
    /\ UNCHANGED <<chain, storage, setup, load, job, history>>

\* The passcode is saved and the main screen is entered.
PasscodeSaved ==
    /\ phase = "passcode"
    /\ phase' = "main"
    /\ UNCHANGED <<chain, storage, setup, load, job, history>>

-----------------------------------------------------------------------------
(* loadTransactionsForAddress, one coroutine per imported version.         *)

LoadSave(v) ==
    /\ load[v] # NoLoad
    /\ SaveTransactions(v, Page(v, load[v]))
    /\ load' = [load EXCEPT ![v] = NoLoad]
    /\ UNCHANGED <<chain, wallet, current, phase, setup, job, history>>

LoadFails(v) ==
    /\ load[v] # NoLoad
    /\ Fail
    /\ load' = [load EXCEPT ![v] = NoLoad]
    /\ lost' = lost \cup {v}
    /\ UNCHANGED <<chain, storage, phase, setup, job, switched, restarts>>

-----------------------------------------------------------------------------
(* updateCurrentAccountState.                                              *)

\* Launched by the main screen, a pull to refresh or a payment.  getCurrentWallet
\* captures the active version; without a saved wallet nothing happens.
RefreshStart(j) ==
    /\ phase = "main"
    /\ job[j].pc = "idle"
    /\ wallet[current] # NoWallet
    /\ job' = [job EXCEPT ![j] = [Idle EXCEPT !.pc = "askState", !.ver = current]]
    /\ UNCHANGED <<chain, storage, phase, setup, load, history>>

\* GetAccountState answers.
StateAnswer(j) ==
    /\ job[j].pc = "askState"
    /\ job' = [job EXCEPT ![j].pc = "compare", ![j].lt = chain[job[j].ver]]
    /\ UNCHANGED <<chain, storage, phase, setup, load, history>>

\* GetAccountState fails: the coroutine ends.
StateFails(j) ==
    /\ job[j].pc = "askState"
    /\ Fail
    /\ job' = [job EXCEPT ![j] = Idle]
    /\ UNCHANGED <<chain, storage, phase, setup, load, lost, switched, restarts>>

\* The saved transaction id is read again, from whatever version is active by now (a
\* switch between the two reads of getCurrentWallet is taken to come before both).  Ids
\* of different accounts differ, except that 0 is the id of every unused account.
\* Faulty variant: only an answer older than the saved state asks for the history.
SavedIdIs(v, lt) == wallet[current] = lt /\ (current = v \/ lt = 0)
HistoryNeededIfOlder(j) == wallet[current] # NoWallet /\ wallet[current] > job[j].lt
HistoryNeeded(j) == wallet[current] # NoWallet /\ ~ SavedIdIs(job[j].ver, job[j].lt)

Compare(j) ==
    /\ job[j].pc = "compare"
    /\ job' = [job EXCEPT ![j].pc = IF HistoryNeeded(j) THEN "askHistory" ELSE "saveState"]
    /\ UNCHANGED <<chain, storage, phase, setup, load, history>>

\* The list a refresh writes is chosen by the revision in the answer: 1 for a V3R1
\* account with its code deployed, something else for every other account.
ListsOfRevision(v) == IF v = "V3R1" THEN {"V3R1", "V3R2"} ELSE {"V3R2"}

HistorySave(j) ==
    /\ job[j].pc = "askHistory"
    /\ \E list \in ListsOfRevision(job[j].ver) :
        SaveTransactions(list, Page(job[j].ver, job[j].lt))
    /\ job' = [job EXCEPT ![j].pc = "saveState"]
    /\ UNCHANGED <<chain, wallet, current, phase, setup, load, history>>

\* The history request fails: the state is saved all the same.
\* Faulty variant: the error path leaves the coroutine in a state nobody handles.
HistoryFailsStuck(j) ==
    /\ job[j].pc = "askHistory"
    /\ Fail
    /\ job' = [job EXCEPT ![j].pc = "failed"]
    /\ lost' = lost \cup {job[j].ver}
    /\ UNCHANGED <<chain, storage, phase, setup, load, switched, restarts>>
HistoryFails(j) ==
    /\ job[j].pc = "askHistory"
    /\ Fail
    /\ job' = [job EXCEPT ![j].pc = "saveState"]
    /\ lost' = lost \cup {job[j].ver}
    /\ UNCHANGED <<chain, storage, phase, setup, load, switched, restarts>>

\* The state is saved under the version captured at the start.
\* Faulty variants: saved under the version active now; a copy of the old WalletData
\* that forgets the new logical time.
StateSaveUnderActive(j) ==
    /\ job[j].pc = "saveState"
    /\ SaveWalletData(current, job[j].lt)
    /\ job' = [job EXCEPT ![j] = Idle]
    /\ UNCHANGED <<chain, txs, current, phase, setup, load, history>>
StateSaveOld(j) ==
    /\ job[j].pc = "saveState"
    /\ SaveWalletData(job[j].ver, wallet[job[j].ver])
    /\ job' = [job EXCEPT ![j] = Idle]
    /\ UNCHANGED <<chain, txs, current, phase, setup, load, history>>
StateSave(j) ==
    /\ job[j].pc = "saveState"
    /\ SaveWalletData(job[j].ver, job[j].lt)
    /\ job' = [job EXCEPT ![j] = Idle]
    /\ UNCHANGED <<chain, txs, current, phase, setup, load, history>>

-----------------------------------------------------------------------------
(* The user and the operating system.                                      *)

\* Faulty variant: the version is also offered when nothing is saved for it.
SwitchVersionUnsaved(v) ==
    /\ phase = "main"
    /\ v # current
    /\ switched < MaxSwitches
    /\ current' = v
    /\ switched' = switched + 1
    /\ UNCHANGED <<chain, wallet, txs, phase, setup, load, job, lost, failures, restarts>>

\* onActiveAddressSelected: the settings offer the versions with a saved wallet.
SwitchVersion(v) ==
    /\ phase = "main"
    /\ v # current /\ wallet[v] # NoWallet
    /\ switched < MaxSwitches
    /\ current' = v
    /\ switched' = switched + 1
    /\ UNCHANGED <<chain, wallet, txs, phase, setup, load, job, lost, failures, restarts>>

\* The process dies: coroutines are gone, the DataStore stays.  The next start shows
\* the lock screen if the active version has a wallet, the start screen otherwise; a
\* key from createWallet that was never shown cannot be entered again.  On the main
\* screen this is also what a recreated activity does to its lifecycleScope.
Restart ==
    /\ restarts < MaxRestarts
    /\ restarts' = restarts + 1
    /\ phase' = CASE phase = "main" -> "main"
                  [] phase \in {"start", "importing", "passcode"}
                        /\ wallet[current] = NoWallet -> "start"
                  [] OTHER -> "out"
    /\ setup' = SetupIdle
    /\ job' = [j \in Jobs |-> Idle]
    /\ load' = [v \in Versions |-> NoLoad]
    /\ lost' = lost \cup {v \in Versions : load[v] # NoLoad}
    /\ UNCHANGED <<chain, storage, switched, failures>>

-----------------------------------------------------------------------------

SetupStep == RevisionAnswer \/ RevisionSave \/ SetupDone
RefreshStep(j) == StateAnswer(j) \/ Compare(j) \/ HistorySave(j) \/ StateSave(j)

Next ==
    \/ \E v \in Versions : Receive(v)
    \/ StartCreate \/ StartImport
    \/ RevisionAnswer \/ RevisionFails \/ RevisionSave
    \/ SetupDone \/ PasscodeSaved
    \/ \E v \in Versions : LoadSave(v) \/ LoadFails(v) \/ SwitchVersion(v)
    \/ \E j \in Jobs :
        \/ RefreshStart(j) \/ StateAnswer(j) \/ StateFails(j) \/ Compare(j)
        \/ HistorySave(j) \/ HistoryFails(j) \/ StateSave(j)
    \/ Restart

\* tonlib answers every request and Dispatchers.IO runs every coroutine to its end.
\* The user, the chain and failures owe nothing.
Fairness ==
    /\ WF_vars(SetupStep)
    /\ \A v \in Versions : WF_vars(LoadSave(v))
    /\ \A j \in Jobs : WF_vars(RefreshStep(j))

Spec == Init /\ [][Next]_vars
FairSpec == Spec /\ Fairness

-----------------------------------------------------------------------------
(* Properties.                                                             *)

\* What the phone shows as the state of an account was once the state of that very
\* account: a refresh that started before a switch of the active version never saves
\* its answer under the version switched to (updateCurrentAccountState keeps the
\* WalletData it read first and saves address and version from it).
SavedStateWasTrue ==
    \A v \in Versions : wallet[v] # NoWallet => wallet[v] <= chain[v]

\* As long as the user keeps the default version, the list shown holds no transaction
\* of another account, although the history loads of an import write three lists that
\* are all merged with the active one (Storage.saveTransactions).
DefaultListIsOwn ==
    switched = 0 => \A t \in txs[Default] : t.account = Default

\* As long as the user keeps the default version and every history request of it was
\* answered, the newest page up to the saved state is in the list, or the load that
\* will bring it is in flight: overlapping refreshes may move the saved state back,
\* but never past what the list holds.  (The logical time is the only trigger of a
\* history request, so a state saved ahead of its history would hide it for good.)
HistoryBehindState ==
    switched = 0 /\ Default \notin lost /\ wallet[Default] # NoWallet
        => \/ Page(Default, wallet[Default]) \subseteq txs[Default]
           \/ load[Default] = wallet[Default]

\* The list of the active version never loses a transaction; a list is only ever
\* overwritten with fewer transactions while another version is active.
ActiveListGrows == [][txs[current] \subseteq txs'[current]]_vars

\* What the stored account view promises, see AccountView: accounts only move forward,
\* a saved state is one the account has been in, a stored list holds confirmed
\* transactions, the active list never shrinks, and the active version, once
\* switched, is one with a saved wallet.
View == INSTANCE AccountView
ViewSpec == View!Spec

\* If the account stops changing while the user keeps refreshing, the saved state of
\* the active version catches up and stays there, even though an older refresh may
\* answer after a newer one.
Refreshing == \E j \in Jobs : RefreshStart(j)
CatchesUp == []<><<Refreshing>>_vars => <>[](wallet[current] = chain[current])

=============================================================================
