-------------------------- MODULE WalletSyncProofs --------------------------
(***************************************************************************)
(* Theorems about WalletSync for every set of coroutines, every bound and  *)
(* every page size.                                                        *)
(***************************************************************************)
EXTENDS WalletSync, TLAPS

USE SyncConstants DEF storage, history

-----------------------------------------------------------------------------
(* Lemmas on the operators.                                                *)

\* loadAccountRevisions visits versions until it is done.
LEMMA SuccessorType ==
    ASSUME NEW v \in Versions
    PROVE  Successor[v] \in Versions \cup {"done"}
  BY DEF Successor, Versions

\* A page holds transactions of the account asked about, none newer than the
\* logical time asked from.
LEMMA PageBounds ==
    ASSUME NEW v \in Versions, NEW lt \in Nat
    PROVE  /\ Page(v, lt) \subseteq Transactions
           /\ \A t \in Page(v, lt) : t.account = v /\ t.lt \in 1..lt
  BY DEF Page, Transactions

-----------------------------------------------------------------------------
(* Type correctness.                                                       *)

\* Every variable keeps its type, whatever the interleaving.
THEOREM TypeCorrect == Spec => []TypeOK
<1>1. Init => TypeOK
  BY DEF Init, TypeOK, Idle, SetupIdle, JobRecords, Phases, Versions, Default
<1>2. TypeOK /\ [Next]_vars => TypeOK'
  <2> SUFFICES ASSUME TypeOK, [Next]_vars PROVE TypeOK'
    OBVIOUS
  <2> USE DEF TypeOK, SetupIdle
  <2>1. ASSUME NEW v \in Versions, Receive(v) PROVE TypeOK'
    BY <2>1 DEF Receive
  <2>2. CASE StartCreate
    BY <2>2 DEF StartCreate, Phases, Versions
  <2>3. CASE StartImport
    BY <2>3 DEF StartImport, Phases, Versions
  <2>4. CASE RevisionAnswer
    BY <2>4 DEF RevisionAnswer
  <2>5. CASE RevisionFails
    BY <2>5, SuccessorType DEF RevisionFails, Fail
  <2>6. CASE RevisionSave
    BY <2>6, SuccessorType DEF RevisionSave, SaveWalletData
  <2>7. CASE SetupDone
    BY <2>7 DEF SetupDone, Phases
  <2>8. CASE PasscodeSaved
    BY <2>8 DEF PasscodeSaved, Phases
  <2>9. ASSUME NEW v \in Versions, LoadSave(v) PROVE TypeOK'
    BY <2>9, PageBounds DEF LoadSave, SaveTransactions
  <2>10. ASSUME NEW v \in Versions, LoadFails(v) PROVE TypeOK'
    BY <2>10 DEF LoadFails, Fail
  <2>11. ASSUME NEW v \in Versions, SwitchVersion(v) PROVE TypeOK'
    BY <2>11 DEF SwitchVersion
  <2>12. ASSUME NEW j \in Jobs, RefreshStart(j) PROVE TypeOK'
    BY <2>12 DEF RefreshStart, Idle, JobRecords
  <2>13. ASSUME NEW j \in Jobs, StateAnswer(j) PROVE TypeOK'
    BY <2>13 DEF StateAnswer, JobRecords
  <2>14. ASSUME NEW j \in Jobs, StateFails(j) PROVE TypeOK'
    BY <2>14 DEF StateFails, Fail, Idle, JobRecords, Versions, Default
  <2>15. ASSUME NEW j \in Jobs, Compare(j) PROVE TypeOK'
    BY <2>15 DEF Compare, JobRecords
  <2>16. ASSUME NEW j \in Jobs, HistorySave(j) PROVE TypeOK'
    <3>1. job' \in [Jobs -> JobRecords]
      BY <2>16 DEF HistorySave, JobRecords
    <3>2. PICK list \in ListsOfRevision(job[j].ver) :
            SaveTransactions(list, Page(job[j].ver, job[j].lt))
      BY <2>16 DEF HistorySave
    <3>3. job[j].ver \in Versions /\ job[j].lt \in Nat
      BY DEF JobRecords
    <3>4. txs' \in [Versions -> SUBSET Transactions]
      BY <3>2, <3>3, PageBounds DEF SaveTransactions
    <3> QED
      BY <2>16, <3>1, <3>4 DEF HistorySave
  <2>17. ASSUME NEW j \in Jobs, HistoryFails(j) PROVE TypeOK'
    BY <2>17 DEF HistoryFails, Fail, JobRecords
  <2>18. ASSUME NEW j \in Jobs, StateSave(j) PROVE TypeOK'
    BY <2>18 DEF StateSave, SaveWalletData, Idle, JobRecords, Versions, Default
  <2>19. CASE Restart
    BY <2>19 DEF Restart, Phases, Idle, JobRecords, Versions, Default
  <2>20. CASE UNCHANGED vars
    BY <2>20 DEF vars
  <2> QED
    BY <2>1, <2>2, <2>3, <2>4, <2>5, <2>6, <2>7, <2>8, <2>9, <2>10, <2>11, <2>12,
       <2>13, <2>14, <2>15, <2>16, <2>17, <2>18, <2>19, <2>20 DEF Next
<1> QED
  BY <1>1, <1>2, PTL DEF Spec

-----------------------------------------------------------------------------
(* Saved states were true.                                                 *)

\* Everything in flight that speaks of an account is something the account has been
\* through.  This is what makes SavedStateWasTrue inductive: an answer stays true
\* while it waits, because accounts only move forward.
JobsWereTrue ==
    \A j \in Jobs : job[j].pc \in {"compare", "askHistory", "saveState"}
        => job[j].lt <= chain[job[j].ver]
LoadsWereTrue == \A v \in Versions : load[v] # NoLoad => load[v] <= chain[v]
SetupWasTrue == setup.ver # "done" /\ setup.lt # NoWallet => setup.lt <= chain[setup.ver]

\* Every stored transaction is on the chain of the account it names.
HistoryIsConfirmed ==
    \A v \in Versions : \A t \in txs[v] : t.lt <= chain[t.account]

TruthInv ==
    /\ JobsWereTrue /\ LoadsWereTrue /\ SetupWasTrue
    /\ HistoryIsConfirmed /\ SavedStateWasTrue

LEMMA ChainGrows ==
    ASSUME TypeOK, [Next]_vars
    PROVE  \A v \in Versions : chain[v] <= chain'[v]
<1>1. (\E v \in Versions : Receive(v)) \/ chain' = chain
  BY DEF Next, vars, StartCreate, StartImport, RevisionAnswer, RevisionFails,
         RevisionSave, SetupDone, PasscodeSaved, LoadSave, LoadFails, SwitchVersion,
         RefreshStart, StateAnswer, StateFails, Compare, HistorySave, HistoryFails,
         StateSave, Restart
<1> QED
  BY <1>1 DEF TypeOK, Receive

\* What a step leaves alone stays true when the chain grows.
LEMMA TruthFrame ==
    ASSUME TypeOK, TypeOK', [Next]_vars, TruthInv
    PROVE  /\ job' = job => JobsWereTrue'
           /\ load' = load => LoadsWereTrue'
           /\ setup' = setup => SetupWasTrue'
           /\ txs' = txs => HistoryIsConfirmed'
           /\ wallet' = wallet => SavedStateWasTrue'
<1> USE ChainGrows DEF TypeOK, TruthInv
<1>1. job' = job => JobsWereTrue'
  BY DEF JobsWereTrue, JobRecords
<1>2. load' = load => LoadsWereTrue'
  BY DEF LoadsWereTrue
<1>3. setup' = setup => SetupWasTrue'
  BY DEF SetupWasTrue
<1>4. txs' = txs => HistoryIsConfirmed'
  BY DEF HistoryIsConfirmed, Transactions
<1>5. wallet' = wallet => SavedStateWasTrue'
  BY DEF SavedStateWasTrue
<1> QED
  BY <1>1, <1>2, <1>3, <1>4, <1>5

\* Merging a page asked from a true state keeps the stored lists confirmed.
LEMMA MergeConfirmed ==
    ASSUME TypeOK, HistoryIsConfirmed, NEW v \in Versions, NEW list \in Versions,
           NEW lt \in Nat, lt <= chain[v], chain' = chain,
           SaveTransactions(list, Page(v, lt))
    PROVE  HistoryIsConfirmed'
  BY PageBounds DEF TypeOK, HistoryIsConfirmed, SaveTransactions

LEMMA TruthInductive == Spec => []TruthInv
<1>1. Init => TruthInv
  BY DEF Init, TruthInv, JobsWereTrue, LoadsWereTrue, SetupWasTrue, HistoryIsConfirmed,
         SavedStateWasTrue, Idle, SetupIdle
<1>2. TruthInv /\ TypeOK /\ TypeOK' /\ [Next]_vars => TruthInv'
  <2> SUFFICES ASSUME TruthInv, TypeOK, TypeOK', [Next]_vars PROVE TruthInv'
    OBVIOUS
  <2>f. /\ job' = job => JobsWereTrue'
        /\ load' = load => LoadsWereTrue'
        /\ setup' = setup => SetupWasTrue'
        /\ txs' = txs => HistoryIsConfirmed'
        /\ wallet' = wallet => SavedStateWasTrue'
    BY TruthFrame
  <2>t. /\ \A j \in Jobs : job[j].lt \in Nat /\ job[j].ver \in Versions
        /\ \A v \in Versions : chain[v] \in Nat
    BY DEF TypeOK, JobRecords
  <2> USE DEF TruthInv, SetupIdle, Idle
  <2>1. ASSUME NEW v \in Versions, Receive(v) PROVE TruthInv'
    BY <2>1, <2>f DEF Receive
  <2>2. CASE StartCreate
    BY <2>2, <2>f DEF StartCreate, SetupWasTrue
  <2>3. CASE StartImport
    BY <2>3, <2>f DEF StartImport, SetupWasTrue
  <2>4. CASE RevisionAnswer
    BY <2>4, <2>f, <2>t DEF RevisionAnswer, SetupWasTrue, TypeOK
  <2>5. CASE RevisionFails
    BY <2>5, <2>f DEF RevisionFails, SetupWasTrue
  <2>6. CASE RevisionSave
    <3>1. setup.ver \in Versions /\ setup.lt <= chain[setup.ver] /\ chain' = chain
      BY <2>6 DEF RevisionSave, SetupWasTrue, TypeOK
    <3>2. SavedStateWasTrue'
      BY <2>6, <3>1 DEF RevisionSave, SaveWalletData, SavedStateWasTrue, TypeOK
    <3>3. LoadsWereTrue'
      BY <2>6, <3>1 DEF RevisionSave, LoadsWereTrue, TypeOK
    <3>4. SetupWasTrue'
      BY <2>6 DEF RevisionSave, SetupWasTrue
    <3> QED
      BY <2>6, <2>f, <3>2, <3>3, <3>4 DEF RevisionSave
  <2>7. CASE SetupDone
    BY <2>7, <2>f DEF SetupDone
  <2>8. CASE PasscodeSaved
    BY <2>8, <2>f DEF PasscodeSaved
  <2>9. ASSUME NEW v \in Versions, LoadSave(v) PROVE TruthInv'
    <3>1. load[v] \in Nat /\ load[v] <= chain[v]
      BY <2>9 DEF LoadSave, LoadsWereTrue, TypeOK
    <3>2. HistoryIsConfirmed'
      BY <2>9, <3>1, MergeConfirmed DEF LoadSave
    <3>3. LoadsWereTrue'
      BY <2>9 DEF LoadSave, LoadsWereTrue, TypeOK
    <3> QED
      BY <2>9, <2>f, <3>2, <3>3 DEF LoadSave
  <2>10. ASSUME NEW v \in Versions, LoadFails(v) PROVE TruthInv'
    <3>1. LoadsWereTrue'
      BY <2>10 DEF LoadFails, LoadsWereTrue, TypeOK
    <3> QED
      BY <2>10, <2>f, <3>1 DEF LoadFails
  <2>11. ASSUME NEW v \in Versions, SwitchVersion(v) PROVE TruthInv'
    BY <2>11, <2>f DEF SwitchVersion
  <2>12. ASSUME NEW j \in Jobs, RefreshStart(j) PROVE TruthInv'
    <3>1. JobsWereTrue'
      BY <2>12 DEF RefreshStart, JobsWereTrue, TypeOK
    <3> QED
      BY <2>12, <2>f, <3>1 DEF RefreshStart
  <2>13. ASSUME NEW j \in Jobs, StateAnswer(j) PROVE TruthInv'
    <3>1. JobsWereTrue'
      BY <2>13, <2>t DEF StateAnswer, JobsWereTrue, TypeOK, JobRecords
    <3> QED
      BY <2>13, <2>f, <3>1 DEF StateAnswer
  <2>14. ASSUME NEW j \in Jobs, StateFails(j) PROVE TruthInv'
    <3>1. JobsWereTrue'
      BY <2>14 DEF StateFails, JobsWereTrue, TypeOK
    <3> QED
      BY <2>14, <2>f, <3>1 DEF StateFails
  <2>15. ASSUME NEW j \in Jobs, Compare(j) PROVE TruthInv'
    <3>1. JobsWereTrue'
      BY <2>15 DEF Compare, JobsWereTrue, TypeOK, JobRecords
    <3> QED
      BY <2>15, <2>f, <3>1 DEF Compare
  <2>16. ASSUME NEW j \in Jobs, HistorySave(j) PROVE TruthInv'
    <3>1. JobsWereTrue'
      BY <2>16 DEF HistorySave, JobsWereTrue, TypeOK, JobRecords
    <3>2. PICK list \in Versions : SaveTransactions(list, Page(job[j].ver, job[j].lt))
      BY <2>16 DEF HistorySave, ListsOfRevision, Versions
    <3>3. job[j].lt <= chain[job[j].ver] /\ chain' = chain
      BY <2>16 DEF HistorySave, JobsWereTrue
    <3>4. HistoryIsConfirmed'
      BY <3>2, <3>3, <2>t, MergeConfirmed
    <3> QED
      BY <2>16, <2>f, <3>1, <3>4 DEF HistorySave
  <2>17. ASSUME NEW j \in Jobs, HistoryFails(j) PROVE TruthInv'
    <3>1. JobsWereTrue'
      BY <2>17 DEF HistoryFails, JobsWereTrue, TypeOK, JobRecords
    <3> QED
      BY <2>17, <2>f, <3>1 DEF HistoryFails
  <2>18. ASSUME NEW j \in Jobs, StateSave(j) PROVE TruthInv'
    <3>1. JobsWereTrue'
      BY <2>18 DEF StateSave, JobsWereTrue, TypeOK
    <3>2. job[j].lt <= chain[job[j].ver] /\ chain' = chain
      BY <2>18 DEF StateSave, JobsWereTrue
    <3>3. SavedStateWasTrue'
      BY <2>18, <2>t, <3>2 DEF StateSave, SaveWalletData, SavedStateWasTrue, TypeOK
    <3> QED
      BY <2>18, <2>f, <3>1, <3>3 DEF StateSave
  <2>19. CASE Restart
    <3>1. JobsWereTrue' /\ LoadsWereTrue' /\ SetupWasTrue'
      BY <2>19 DEF Restart, JobsWereTrue, LoadsWereTrue, SetupWasTrue
    <3> QED
      BY <2>19, <2>f, <3>1 DEF Restart
  <2>20. CASE UNCHANGED vars
    BY <2>20, <2>f DEF vars
  <2> QED
    BY <2>1, <2>2, <2>3, <2>4, <2>5, <2>6, <2>7, <2>8, <2>9, <2>10, <2>11, <2>12,
       <2>13, <2>14, <2>15, <2>16, <2>17, <2>18, <2>19, <2>20 DEF Next
<1> QED
  BY <1>1, <1>2, TypeCorrect, PTL DEF Spec

\* Whatever version the user switches to while a refresh waits for its answer, the
\* state saved for an account is one that account has been in.
THEOREM SavedStatesAreTrue == Spec => []SavedStateWasTrue
<1>1. TruthInv => SavedStateWasTrue
  BY DEF TruthInv
<1> QED
  BY <1>1, TruthInductive, PTL

-----------------------------------------------------------------------------
(* The active list.                                                        *)

\* A step either leaves the lists alone or merges confirmed transactions into one of
\* them with saveTransactions, while nothing else of the view changes.
LEMMA ListSteps ==
    ASSUME TypeOK, TruthInv, [Next]_vars
    PROVE  \/ txs' = txs
           \/ /\ UNCHANGED <<chain, wallet, current>>
              /\ \E list \in Versions, v \in Versions, lt \in Nat :
                    /\ lt <= chain[v]
                    /\ SaveTransactions(list, Page(v, lt))
<1>1. ASSUME NEW v \in Versions, LoadSave(v)
      PROVE  /\ UNCHANGED <<chain, wallet, current>>
             /\ load[v] \in Nat /\ load[v] <= chain[v]
             /\ SaveTransactions(v, Page(v, load[v]))
  BY <1>1 DEF LoadSave, TruthInv, LoadsWereTrue, TypeOK
<1>2. ASSUME NEW j \in Jobs, HistorySave(j)
      PROVE  /\ UNCHANGED <<chain, wallet, current>>
             /\ job[j].ver \in Versions /\ job[j].lt \in Nat
             /\ job[j].lt <= chain[job[j].ver]
             /\ \E list \in Versions : SaveTransactions(list, Page(job[j].ver, job[j].lt))
  <2>1. ListsOfRevision(job[j].ver) \subseteq Versions
    BY DEF ListsOfRevision, Versions
  <2>2. job[j].ver \in Versions /\ job[j].lt \in Nat
    BY DEF TypeOK, JobRecords
  <2>3. job[j].lt <= chain[job[j].ver]
    BY <1>2 DEF HistorySave, TruthInv, JobsWereTrue
  <2> QED
    BY <1>2, <2>1, <2>2, <2>3 DEF HistorySave
<1>3. \/ txs' = txs
      \/ \E v \in Versions : LoadSave(v)
      \/ \E j \in Jobs : HistorySave(j)
  BY DEF Next, vars, Receive, StartCreate, StartImport, RevisionAnswer, RevisionFails,
         RevisionSave, SetupDone, PasscodeSaved, LoadFails, SwitchVersion, RefreshStart,
         StateAnswer, StateFails, Compare, HistoryFails, StateSave, Restart
<1> QED
  BY <1>1, <1>2, <1>3

\* Whichever coroutine writes whichever list, the list of the version that is active
\* at that moment keeps what it holds.
THEOREM ActiveListNeverShrinks == Spec => ActiveListGrows
<1>1. TypeOK /\ TruthInv /\ [Next]_vars => [txs[current] \subseteq txs'[current]]_vars
  <2> SUFFICES ASSUME TypeOK, TruthInv, [Next]_vars
               PROVE  txs[current] \subseteq txs'[current]
    OBVIOUS
  <2>1. CASE txs' = txs
    BY <2>1
  <2>2. ASSUME NEW list \in Versions, NEW new, SaveTransactions(list, new)
        PROVE  txs[current] \subseteq txs'[current]
    BY <2>2 DEF SaveTransactions, TypeOK
  <2> QED
    BY <2>1, <2>2, ListSteps
<1> QED
  BY <1>1, TypeCorrect, TruthInductive, PTL DEF Spec, ActiveListGrows

-----------------------------------------------------------------------------
(* WalletSync implements AccountView.                                      *)

LEMMA ViewInit == Init => View!Init
  BY DEF Init, View!Init

\* A saved wallet is a state its account has been in.
LEMMA WalletSteps ==
    ASSUME TypeOK, TruthInv, [Next]_vars
    PROVE  \/ wallet' = wallet
           \/ /\ UNCHANGED <<chain, txs, current>>
              /\ \E v \in Versions, lt \in Nat :
                    lt <= chain[v] /\ SaveWalletData(v, lt)
<1>1. ASSUME RevisionSave
      PROVE  /\ UNCHANGED <<chain, txs, current>>
             /\ setup.ver \in Versions /\ setup.lt \in Nat
             /\ setup.lt <= chain[setup.ver]
             /\ SaveWalletData(setup.ver, setup.lt)
  BY <1>1 DEF RevisionSave, TruthInv, SetupWasTrue, TypeOK
<1>2. ASSUME NEW j \in Jobs, StateSave(j)
      PROVE  /\ UNCHANGED <<chain, txs, current>>
             /\ job[j].ver \in Versions /\ job[j].lt \in Nat
             /\ job[j].lt <= chain[job[j].ver]
             /\ SaveWalletData(job[j].ver, job[j].lt)
  BY <1>2 DEF StateSave, TruthInv, JobsWereTrue, TypeOK, JobRecords
<1>3. wallet' = wallet \/ RevisionSave \/ \E j \in Jobs : StateSave(j)
  BY DEF Next, vars, Receive, StartCreate, StartImport, RevisionAnswer, RevisionFails,
         SetupDone, PasscodeSaved, LoadSave, LoadFails, SwitchVersion, RefreshStart,
         StateAnswer, StateFails, Compare, HistorySave, HistoryFails, Restart
<1> QED
  BY <1>1, <1>2, <1>3

\* The chain and the active version change only by Receive and SwitchVersion.
LEMMA OtherSteps ==
    ASSUME [Next]_vars
    PROVE  \/ chain' = chain /\ current' = current
           \/ \E v \in Versions : Receive(v)
           \/ \E v \in Versions : SwitchVersion(v)
  BY DEF Next, vars, StartCreate, StartImport, RevisionAnswer, RevisionFails,
         RevisionSave, SetupDone, PasscodeSaved, LoadSave, LoadFails, RefreshStart,
         StateAnswer, StateFails, Compare, HistorySave, HistoryFails, StateSave, Restart

\* Merged lists hold confirmed transactions and keep the active list.
LEMMA MergeIsSaveHistory ==
    ASSUME TypeOK, HistoryIsConfirmed, UNCHANGED <<chain, wallet, current>>,
           NEW list \in Versions, NEW v \in Versions, NEW lt \in Nat, lt <= chain[v],
           SaveTransactions(list, Page(v, lt))
    PROVE  View!SaveHistory(list)
<1> DEFINE merged == Page(v, lt) \cup txs[current]
<1>1. \A t \in txs[current] : t \in View!Confirmed
  <2> SUFFICES ASSUME NEW t \in txs[current] PROVE t \in View!Confirmed
    OBVIOUS
  <2>1. t \in Transactions /\ t.account \in Versions /\ t.lt \in 1..chain[t.account]
    BY DEF TypeOK, HistoryIsConfirmed, Transactions
  <2>2. t = [account |-> t.account, lt |-> t.lt]
    BY <2>1 DEF Transactions
  <2> QED
    BY <2>1, <2>2 DEF View!Confirmed
<1>2. \A t \in Page(v, lt) : t \in View!Confirmed
  <2> SUFFICES ASSUME NEW n \in 1..lt
               PROVE  [account |-> v, lt |-> n] \in View!Confirmed
    BY DEF Page
  <2>1. n \in 1..chain[v]
    BY DEF TypeOK
  <2> QED
    BY <2>1 DEF View!Confirmed
<1>3. merged \in SUBSET View!Confirmed
  BY <1>1, <1>2
<1>4. list = current => txs[list] \subseteq merged
  OBVIOUS
<1>5. txs' = [txs EXCEPT ![list] = merged]
  BY DEF SaveTransactions
<1> QED
  BY <1>3, <1>4, <1>5 DEF View!SaveHistory

LEMMA ViewStep ==
    ASSUME TypeOK, TruthInv, [Next]_vars
    PROVE  [View!Next]_(View!viewVars)
<1>1. CASE txs' # txs
  BY <1>1, ListSteps, MergeIsSaveHistory DEF TruthInv, View!Next
<1>2. CASE wallet' # wallet
  <2>1. PICK v \in Versions, lt \in Nat : lt <= chain[v] /\ SaveWalletData(v, lt)
    BY <1>2, WalletSteps
  <2>2. lt \in 0..chain[v]
    BY <2>1 DEF TypeOK
  <2>3. View!SaveState(v)
    BY <1>2, <2>1, <2>2, WalletSteps DEF View!SaveState, SaveWalletData
  <2> QED
    BY <2>3 DEF View!Next
<1>3. CASE txs' = txs /\ wallet' = wallet
  <2>1. CASE chain' = chain /\ current' = current
    BY <1>3, <2>1 DEF View!viewVars
  <2>2. ASSUME NEW v \in Versions, Receive(v) PROVE View!Next
    BY <2>2 DEF Receive, View!Next, View!Receive
  <2>3. ASSUME NEW v \in Versions, SwitchVersion(v) PROVE View!Next
    BY <2>3 DEF SwitchVersion, View!Next, View!Activate
  <2> QED
    BY <2>1, <2>2, <2>3, OtherSteps
<1> QED
  BY <1>1, <1>2, <1>3

\* The synchronisation, with all its interleavings, deaths and failures, shows the
\* screens nothing the abstract view does not allow.
THEOREM ImplementsView == Spec => ViewSpec
<1>1. TypeOK /\ TruthInv /\ [Next]_vars => [View!Next]_(View!viewVars)
  BY ViewStep
<1> QED
  BY <1>1, ViewInit, TypeCorrect, TruthInductive, PTL DEF Spec, ViewSpec, View!Spec

-----------------------------------------------------------------------------
(* The default list, as long as the user keeps the default version.        *)

\* The page up to lt is stored, or the load that will bring it is in flight.
Brought(lt) == Page(Default, lt) \subseteq txs[Default] \/ load[Default] = lt

\* Coroutines of updateCurrentAccountState exist on the main screen only,
\* loadAccountRevisions runs before it, and a created key owns empty accounts.
SetupBeforeMain ==
    /\ phase # "main" => \A j \in Jobs : job[j].pc = "idle"
    /\ setup.ver # "done" => phase \in {"creating", "importing"}
    /\ phase = "creating" => chain[Default] = 0

\* Until the first switch everything is about the default version.
OnlyDefault ==
    /\ current = Default
    /\ \A j \in Jobs :
        job[j].pc # "idle" => job[j].ver = Default /\ wallet[Default] # NoWallet
    /\ \A t \in txs[Default] : t.account = Default

\* A refresh about to save its state has the page of that state stored or on its way:
\* it either brought the page itself or found the saved state equal to its answer.
NothingAhead ==
    /\ wallet[Default] # NoWallet => Brought(wallet[Default])
    /\ \A j \in Jobs : job[j].pc = "saveState" => Brought(job[j].lt)

HistoryInv ==
    /\ SetupBeforeMain
    /\ switched = 0 => OnlyDefault
    /\ switched = 0 /\ Default \notin lost => NothingAhead

LEMMA HistoryInit == Init => HistoryInv
  BY DEF Init, HistoryInv, SetupBeforeMain, OnlyDefault, NothingAhead, Idle, SetupIdle,
         Versions, Default

\* Steps that touch neither the storage nor a coroutine of the main screen.
LEMMA HistoryQuiet ==
    ASSUME HistoryInv, UNCHANGED <<wallet, txs, current, load, job, lost, switched>>,
           SetupBeforeMain'
    PROVE  HistoryInv'
  BY DEF HistoryInv, OnlyDefault, NothingAhead, Brought

\* Steps of a refresh that change only its own record.
LEMMA HistoryJob ==
    ASSUME TypeOK, HistoryInv, NEW j \in Jobs, phase = "main", phase' = phase,
           UNCHANGED <<wallet, txs, current, load, switched, setup, chain>>,
           lost \subseteq lost', NEW r,
           job' = [job EXCEPT ![j] = r],
           switched = 0 /\ OnlyDefault /\ r.pc # "idle"
                => r.ver = Default /\ wallet[Default] # NoWallet,
           switched = 0 /\ OnlyDefault /\ Default \notin lost' /\ NothingAhead
                /\ r.pc = "saveState" => Brought(r.lt)
    PROVE  HistoryInv'
<1>1. SetupBeforeMain'
  BY DEF HistoryInv, SetupBeforeMain
<1>2. ASSUME switched' = 0 PROVE OnlyDefault'
  BY <1>2 DEF HistoryInv, OnlyDefault, TypeOK
<1>3. ASSUME switched' = 0, Default \notin lost' PROVE NothingAhead'
  <2>1. OnlyDefault /\ NothingAhead
    BY <1>3 DEF HistoryInv
  <2> QED
    BY <1>3, <2>1 DEF NothingAhead, Brought, TypeOK
<1> QED
  BY <1>1, <1>2, <1>3 DEF HistoryInv

\* A refresh exists on the main screen only.
LEMMA JobOnMain ==
    ASSUME HistoryInv, NEW j \in Jobs, job[j].pc # "idle"
    PROVE  phase = "main" /\ setup.ver = "done"
  BY DEF HistoryInv, SetupBeforeMain

\* A merge into the list of v, made while the default version is active.
LEMMA DefaultMerge ==
    ASSUME TypeOK, OnlyDefault, NEW v \in Versions, NEW lt \in Nat,
           SaveTransactions(v, Page(v, lt))
    PROVE  /\ txs[Default] \subseteq txs'[Default]
           /\ v = Default => Page(Default, lt) \subseteq txs'[Default]
           /\ \A t \in txs'[Default] : t.account = Default
  BY PageBounds DEF TypeOK, OnlyDefault, SaveTransactions, Default, Versions

\* The state of a version is saved while the wallet is being made.
LEMMA HistoryRevisionSave ==
    ASSUME TypeOK, TruthInv, HistoryInv, RevisionSave
    PROVE  HistoryInv'
<1>1. /\ setup.ver \in Versions /\ setup.lt \in Nat /\ setup.lt <= chain[setup.ver]
      /\ phase \in {"creating", "importing"}
      /\ \A j \in Jobs : job[j].pc = "idle"
  BY DEF RevisionSave, TypeOK, TruthInv, SetupWasTrue, HistoryInv, SetupBeforeMain
<1>2. SetupBeforeMain'
  BY <1>1 DEF RevisionSave, HistoryInv, SetupBeforeMain
<1>3. ASSUME switched' = 0 PROVE OnlyDefault'
  BY <1>1, <1>3 DEF RevisionSave, HistoryInv, OnlyDefault
<1>4. ASSUME switched' = 0, Default \notin lost' PROVE NothingAhead'
  <2>1. NothingAhead
    BY <1>4 DEF RevisionSave, HistoryInv
  <2>2. CASE setup.ver # Default
    BY <1>1, <2>1, <2>2
       DEF RevisionSave, SaveWalletData, NothingAhead, Brought, TypeOK, Versions, Default
  <2>3. CASE setup.ver = Default /\ phase = "importing"
    <3>1. wallet'[Default] = setup.lt /\ load'[Default] = setup.lt
      BY <2>3 DEF RevisionSave, SaveWalletData, TypeOK, Versions, Default
    <3>2. \A j \in Jobs : job'[j].pc = "idle"
      BY <1>1 DEF RevisionSave
    <3> QED
      BY <3>1, <3>2 DEF NothingAhead, Brought
  <2>4. CASE setup.ver = Default /\ phase = "creating"
    <3>1. setup.lt = 0
      BY <1>1, <2>4 DEF HistoryInv, SetupBeforeMain
    <3>2. Page(Default, 0) = {}
      BY DEF Page
    <3>3. wallet'[Default] = 0
      BY <2>4, <3>1 DEF RevisionSave, SaveWalletData, TypeOK, Versions, Default
    <3>4. \A j \in Jobs : job'[j].pc = "idle"
      BY <1>1 DEF RevisionSave
    <3> QED
      BY <3>2, <3>3, <3>4 DEF NothingAhead, Brought
  <2> QED
    BY <1>1, <2>2, <2>3, <2>4
<1> QED
  BY <1>2, <1>3, <1>4 DEF HistoryInv

\* The load of v's history delivers.
LEMMA HistoryLoadSave ==
    ASSUME TypeOK, HistoryInv, NEW v \in Versions, LoadSave(v)
    PROVE  HistoryInv'
<1>1. load[v] \in Nat
  BY DEF LoadSave, TypeOK
<1>2. SetupBeforeMain'
  BY DEF LoadSave, HistoryInv, SetupBeforeMain
<1>3. ASSUME switched' = 0 PROVE OnlyDefault'
  <2>1. OnlyDefault
    BY <1>3 DEF LoadSave, HistoryInv
  <2> QED
    BY <1>1, <2>1, DefaultMerge DEF LoadSave, OnlyDefault
<1>4. ASSUME switched' = 0, Default \notin lost' PROVE NothingAhead'
  <2>1. OnlyDefault /\ NothingAhead
    BY <1>4 DEF LoadSave, HistoryInv
  <2>2. /\ txs[Default] \subseteq txs'[Default]
        /\ v = Default => Page(Default, load[v]) \subseteq txs'[Default]
    BY <1>1, <2>1, DefaultMerge DEF LoadSave
  <2>3. v # Default => load'[Default] = load[Default]
    BY DEF LoadSave, TypeOK, Versions, Default
  <2>4. \A lt : Brought(lt) => Brought(lt)'
    BY <2>2, <2>3 DEF Brought
  <2> QED
    BY <2>1, <2>4 DEF LoadSave, NothingAhead
<1> QED
  BY <1>2, <1>3, <1>4 DEF HistoryInv

LEMMA HistoryLoadFails ==
    ASSUME TypeOK, HistoryInv, NEW v \in Versions, LoadFails(v)
    PROVE  HistoryInv'
<1>1. SetupBeforeMain'
  BY DEF LoadFails, HistoryInv, SetupBeforeMain
<1>2. ASSUME switched' = 0 PROVE OnlyDefault'
  BY <1>2 DEF LoadFails, Fail, HistoryInv, OnlyDefault
<1>3. ASSUME switched' = 0, Default \notin lost' PROVE NothingAhead'
  BY <1>3 DEF LoadFails, Fail, HistoryInv, NothingAhead, Brought, TypeOK
<1> QED
  BY <1>1, <1>2, <1>3 DEF HistoryInv

\* A refresh brings a page.
LEMMA HistoryHistorySave ==
    ASSUME TypeOK, HistoryInv, NEW j \in Jobs, HistorySave(j)
    PROVE  HistoryInv'
<1>1. phase = "main" /\ setup.ver = "done"
  BY JobOnMain DEF HistorySave
<1>2. SetupBeforeMain'
  BY <1>1 DEF HistorySave, HistoryInv, SetupBeforeMain
<1>3. ASSUME switched' = 0
      PROVE  /\ OnlyDefault /\ job[j].ver = Default /\ job[j].lt \in Nat
             /\ txs[Default] \subseteq txs'[Default]
             /\ Page(Default, job[j].lt) \subseteq txs'[Default]
             /\ \A t \in txs'[Default] : t.account = Default
  <2>1. OnlyDefault /\ job[j].ver = Default /\ job[j].lt \in Nat
    BY <1>3 DEF HistorySave, HistoryInv, OnlyDefault, TypeOK, JobRecords
  <2>2. Default \in Versions /\ ListsOfRevision(Default) = {Default}
    BY DEF ListsOfRevision, Default, Versions
  <2>3. SaveTransactions(Default, Page(Default, job[j].lt))
    BY <2>1, <2>2 DEF HistorySave
  <2> QED
    BY <2>1, <2>2, <2>3, DefaultMerge
<1>4. ASSUME switched' = 0 PROVE OnlyDefault'
  BY <1>3, <1>4 DEF HistorySave, OnlyDefault, TypeOK, JobRecords
<1>5. ASSUME switched' = 0, Default \notin lost' PROVE NothingAhead'
  <2>1. NothingAhead
    BY <1>5 DEF HistorySave, HistoryInv
  <2>4. \A i \in Jobs : job'[i].lt = job[i].lt /\ (i # j => job'[i] = job[i])
    BY DEF HistorySave, TypeOK, JobRecords
  <2>5. Page(Default, job[j].lt) \subseteq txs'[Default]
    BY <1>3, <1>5
  <2>6. \A i \in Jobs : job'[i].pc = "saveState" => Brought(job[i].lt)'
    <3> SUFFICES ASSUME NEW i \in Jobs, job'[i].pc = "saveState"
                 PROVE  Page(Default, job'[i].lt) \subseteq txs'[Default]
                          \/ load'[Default] = job'[i].lt
      BY <2>4 DEF Brought
    <3>1. CASE i = j
      BY <2>4, <2>5, <3>1
    <3>2. CASE i # j
      <4>1. Brought(job[i].lt)
        BY <2>1, <2>4, <3>2 DEF NothingAhead
      <4> QED
        BY <4>1, <2>4, <1>3, <1>5 DEF Brought, HistorySave
    <3> QED
      BY <3>1, <3>2
  <2>7. wallet'[Default] # NoWallet => Brought(wallet[Default])'
    BY <2>1, <1>3, <1>5 DEF HistorySave, NothingAhead, Brought
  <2> QED
    BY <2>6, <2>7 DEF NothingAhead, Brought
<1> QED
  BY <1>2, <1>4, <1>5 DEF HistoryInv

\* A refresh saves its state.
LEMMA HistoryStateSave ==
    ASSUME TypeOK, HistoryInv, NEW j \in Jobs, StateSave(j)
    PROVE  HistoryInv'
<1>1. phase = "main" /\ setup.ver = "done"
  BY JobOnMain DEF StateSave
<1>2. SetupBeforeMain'
  BY <1>1 DEF StateSave, HistoryInv, SetupBeforeMain
<1>3. ASSUME switched' = 0 PROVE OnlyDefault'
  <2>1. OnlyDefault /\ job[j].lt \in Nat
    BY <1>3 DEF StateSave, HistoryInv, TypeOK, JobRecords
  <2>2. \A i \in Jobs : job'[i].pc # "idle" => job'[i] = job[i]
    BY DEF StateSave, TypeOK, Idle
  <2>3. wallet[Default] # NoWallet => wallet'[Default] # NoWallet
    BY <2>1, SyncConstants DEF StateSave, SaveWalletData, TypeOK, Versions, Default
  <2> QED
    BY <2>1, <2>2, <2>3 DEF StateSave, OnlyDefault
<1>4. ASSUME switched' = 0, Default \notin lost' PROVE NothingAhead'
  <2>1. OnlyDefault /\ NothingAhead /\ job[j].ver = Default
    BY <1>4 DEF StateSave, HistoryInv, OnlyDefault
  <2>2. wallet'[Default] = job[j].lt
    BY <2>1 DEF StateSave, SaveWalletData, TypeOK, Versions, Default
  <2>3. Brought(job[j].lt)
    BY <2>1 DEF StateSave, NothingAhead
  <2>4. \A i \in Jobs : job'[i].pc = "saveState" => job'[i] = job[i]
    BY DEF StateSave, TypeOK, Idle
  <2> QED
    BY <2>1, <2>2, <2>3, <2>4 DEF StateSave, NothingAhead, Brought
<1> QED
  BY <1>2, <1>3, <1>4 DEF HistoryInv

\* The process dies: a load in flight is lost, so what counted on it is not claimed.
LEMMA HistoryRestart ==
    ASSUME TypeOK, HistoryInv, Restart
    PROVE  HistoryInv'
<1>1. SetupBeforeMain'
  BY DEF Restart, HistoryInv, SetupBeforeMain, SetupIdle, Idle
<1>2. ASSUME switched' = 0 PROVE OnlyDefault'
  BY <1>2 DEF Restart, HistoryInv, OnlyDefault, Idle
<1>3. ASSUME switched' = 0, Default \notin lost' PROVE NothingAhead'
  <2>1. NothingAhead /\ load[Default] = NoLoad
    BY <1>3 DEF Restart, HistoryInv, Versions, Default
  <2>2. wallet[Default] # NoWallet => wallet[Default] \in Nat
    BY DEF TypeOK, Versions, Default
  <2> QED
    BY <2>1, <2>2 DEF Restart, NothingAhead, Brought, Idle
<1> QED
  BY <1>1, <1>2, <1>3 DEF HistoryInv

LEMMA HistoryStep ==
    ASSUME TypeOK, TruthInv, HistoryInv, [Next]_vars
    PROVE  HistoryInv'
<1> USE DEF HistoryInv, SetupBeforeMain
<1>1. ASSUME NEW v \in Versions, Receive(v) PROVE HistoryInv'
  <2>1. SetupBeforeMain'
    BY <1>1 DEF Receive
  <2> QED
    BY <1>1, <2>1, HistoryQuiet DEF Receive
<1>2. CASE StartCreate
  <2>1. SetupBeforeMain'
    BY <1>2 DEF StartCreate, Versions, Default
  <2> QED
    BY <1>2, <2>1, HistoryQuiet DEF StartCreate
<1>3. CASE StartImport
  <2>1. SetupBeforeMain'
    BY <1>3 DEF StartImport
  <2> QED
    BY <1>3, <2>1, HistoryQuiet DEF StartImport
<1>4. CASE RevisionAnswer
  <2>1. SetupBeforeMain'
    BY <1>4 DEF RevisionAnswer, TypeOK
  <2> QED
    BY <1>4, <2>1, HistoryQuiet DEF RevisionAnswer
<1>5. CASE RevisionFails
  <2>1. SetupBeforeMain'
    BY <1>5 DEF RevisionFails
  <2> QED
    BY <1>5, <2>1, HistoryQuiet DEF RevisionFails
<1>6. CASE RevisionSave
  BY <1>6, HistoryRevisionSave
<1>7. CASE SetupDone
  <2>1. SetupBeforeMain'
    BY <1>7 DEF SetupDone
  <2> QED
    BY <1>7, <2>1, HistoryQuiet DEF SetupDone
<1>8. CASE PasscodeSaved
  <2>1. SetupBeforeMain'
    BY <1>8 DEF PasscodeSaved
  <2> QED
    BY <1>8, <2>1, HistoryQuiet DEF PasscodeSaved
<1>9. ASSUME NEW v \in Versions, LoadSave(v) PROVE HistoryInv'
  BY <1>9, HistoryLoadSave
<1>10. ASSUME NEW v \in Versions, LoadFails(v) PROVE HistoryInv'
  BY <1>10, HistoryLoadFails
<1>11. ASSUME NEW v \in Versions, SwitchVersion(v) PROVE HistoryInv'
  <2>1. switched' # 0
    BY <1>11 DEF SwitchVersion, TypeOK
  <2>2. SetupBeforeMain'
    BY <1>11 DEF SwitchVersion
  <2> QED
    BY <2>1, <2>2
<1> HIDE DEF HistoryInv, SetupBeforeMain
<1>12. ASSUME NEW j \in Jobs, RefreshStart(j) PROVE HistoryInv'
  <2> DEFINE r == [Idle EXCEPT !.pc = "askState", !.ver = current]
  <2>1. r.pc = "askState" /\ r.ver = current
    BY DEF Idle
  <2>2. job' = [job EXCEPT ![j] = r]
    BY <1>12 DEF RefreshStart
  <2> HIDE DEF r
  <2>3. switched = 0 /\ OnlyDefault => r.ver = Default /\ wallet[Default] # NoWallet
    BY <1>12, <2>1 DEF RefreshStart, OnlyDefault
  <2> QED
    BY <1>12, <2>1, <2>2, <2>3, HistoryJob DEF RefreshStart, history
<1>13. ASSUME NEW j \in Jobs, StateAnswer(j) PROVE HistoryInv'
  <2> DEFINE r == [job[j] EXCEPT !.pc = "compare", !.lt = chain[job[j].ver]]
  <2>1. r.pc = "compare" /\ r.ver = job[j].ver
    BY DEF TypeOK, JobRecords
  <2>2. job' = [job EXCEPT ![j] = r]
    BY <1>13 DEF StateAnswer, TypeOK
  <2> HIDE DEF r
  <2> QED
    BY <1>13, <2>1, <2>2, HistoryJob, JobOnMain DEF StateAnswer, OnlyDefault
<1>14. ASSUME NEW j \in Jobs, StateFails(j) PROVE HistoryInv'
  BY <1>14, HistoryJob, JobOnMain DEF StateFails, Fail, Idle
<1>15. ASSUME NEW j \in Jobs, Compare(j) PROVE HistoryInv'
  <2> DEFINE next == IF HistoryNeeded(j) THEN "askHistory" ELSE "saveState"
             r == [job[j] EXCEPT !.pc = next]
  <2>1. r.pc = next /\ r.ver = job[j].ver /\ r.lt = job[j].lt
    BY DEF TypeOK, JobRecords
  <2>2. job' = [job EXCEPT ![j] = r]
    BY <1>15 DEF Compare, TypeOK
  <2>3. switched = 0 /\ OnlyDefault /\ NothingAhead /\ next = "saveState"
            => Brought(job[j].lt)
    <3> SUFFICES ASSUME OnlyDefault, NothingAhead, ~ HistoryNeeded(j)
                 PROVE  Brought(job[j].lt)
      OBVIOUS
    <3>1. wallet[Default] # NoWallet
      BY <1>15 DEF Compare, OnlyDefault
    <3> QED
      BY <3>1 DEF HistoryNeeded, SavedIdIs, OnlyDefault, NothingAhead
  <2>4. switched = 0 /\ OnlyDefault => r.ver = Default /\ wallet[Default] # NoWallet
    BY <1>15, <2>1 DEF Compare, OnlyDefault
  <2>5. phase = "main" /\ lost' = lost
    BY <1>15, JobOnMain DEF Compare, history
  <2>6. UNCHANGED <<phase, wallet, txs, current, load, switched, setup, chain>>
    BY <1>15 DEF Compare, history, storage
  <2>7. switched = 0 /\ OnlyDefault /\ Default \notin lost' /\ NothingAhead
            /\ r.pc = "saveState" => Brought(r.lt)
    BY <2>1, <2>3
  <2> HIDE DEF r, next
  <2> QED
    BY <2>2, <2>4, <2>5, <2>6, <2>7, HistoryJob
<1>16. ASSUME NEW j \in Jobs, HistorySave(j) PROVE HistoryInv'
  BY <1>16, HistoryHistorySave
<1>17. ASSUME NEW j \in Jobs, HistoryFails(j) PROVE HistoryInv'
  <2> DEFINE r == [job[j] EXCEPT !.pc = "saveState"]
  <2>1. r.pc = "saveState" /\ r.ver = job[j].ver
    BY DEF TypeOK, JobRecords
  <2>2. job' = [job EXCEPT ![j] = r]
    BY <1>17 DEF HistoryFails, TypeOK
  <2>3. switched = 0 /\ OnlyDefault => Default \in lost'
    BY <1>17 DEF HistoryFails, OnlyDefault
  <2>4. switched = 0 /\ OnlyDefault => r.ver = Default /\ wallet[Default] # NoWallet
    BY <1>17, <2>1 DEF HistoryFails, OnlyDefault
  <2>5. phase = "main" /\ lost \subseteq lost'
    BY <1>17, JobOnMain DEF HistoryFails
  <2>6. UNCHANGED <<phase, wallet, txs, current, load, switched, setup, chain>>
    BY <1>17 DEF HistoryFails, storage
  <2> HIDE DEF r
  <2> QED
    BY <2>2, <2>3, <2>4, <2>5, <2>6, HistoryJob
<1>18. ASSUME NEW j \in Jobs, StateSave(j) PROVE HistoryInv'
  BY <1>18, HistoryStateSave
<1>19. CASE Restart
  BY <1>19, HistoryRestart
<1>20. CASE UNCHANGED vars
  <2>1. SetupBeforeMain'
    BY <1>20 DEF vars, HistoryInv, SetupBeforeMain
  <2> QED
    BY <1>20, <2>1, HistoryQuiet DEF vars
<1> QED
  BY <1>1, <1>2, <1>3, <1>4, <1>5, <1>6, <1>7, <1>8, <1>9, <1>10, <1>11, <1>12,
     <1>13, <1>14, <1>15, <1>16, <1>17, <1>18, <1>19, <1>20 DEF Next

\* The inductive invariant behind the two properties of the default list.
LEMMA HistoryInductive == Spec => []HistoryInv
<1>1. TypeOK /\ TruthInv /\ HistoryInv /\ [Next]_vars => HistoryInv'
  BY HistoryStep
<1> QED
  BY <1>1, HistoryInit, TypeCorrect, TruthInductive, PTL DEF Spec

\* However the history loads of an import and the refreshes interleave, saveTransactions
\* merges no other account's transactions into the default version's list before the
\* user has switched versions once.
THEOREM DefaultListUnmixed == Spec => []DefaultListIsOwn
<1>1. HistoryInv => DefaultListIsOwn
  BY DEF HistoryInv, OnlyDefault, DefaultListIsOwn
<1> QED
  BY <1>1, HistoryInductive, PTL

\* updateCurrentAccountState never saves a state of the default account whose newest
\* page is neither stored nor on its way, except after a failed or lost request.
THEOREM HistoryNeverBehind == Spec => []HistoryBehindState
<1>1. HistoryInv => HistoryBehindState
  BY DEF HistoryInv, NothingAhead, Brought, HistoryBehindState
<1> QED
  BY <1>1, HistoryInductive, PTL

=============================================================================
