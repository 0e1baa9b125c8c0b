----------------------------- MODULE InputKeyTemp -----------------------------
(***************************************************************************)
(* inputKeyTemp of TonWalletClient: the key a passcode unlocks is left in  *)
(* one field, and whichever action comes next takes it.  The lock screens  *)
(* set it; the pending screen of a send, the sheet of a TonConnect payment *)
(* and the approval of a TonConnect connection take it, each in a          *)
(* coroutine of its own and without a lock.                                *)
(*                                                                         *)
(* Unlocks are numbered, and a key is the number of its unlock.  A payment *)
(* of a dApp is known by the request whose recipient it pays; requests are *)
(* those of one connection, numbered as they arrive.                       *)
(***************************************************************************)
EXTENDS Integers, Sequences

CONSTANTS
    MaxUnlocks,   \* bound on the unlocks
    MaxRequests,  \* bound on the payments a dApp asks for
    MaxTasks      \* bound on the coroutines that take a key

ASSUME InputKeyConstants ==
    /\ MaxUnlocks \in Nat \ {0}
    /\ MaxRequests \in Nat
    /\ MaxTasks \in Nat \ {0}

VARIABLES
    \* The screens
    passcode,       \* whether the route PASSCODE is on top
    inner,          \* what the MAIN entry on top shows: its main screen, the lock
                    \* screen of a send or the lock screen of the settings
    opened,         \* the unlock whose success animation runs, 0 for none
    onMain,         \* whether passcodeSuccessAction is set
    \* TonConnect
    sheet,          \* bottomSheetShow
    request,        \* transferRequest, 0 for null
    arrived,        \* requests so far; the event flow replays the last of them
    closed,         \* history: requests declined and not shown again since
    viewModels,     \* viewModels[e]: the recipientAddress of the sheet's view model
                    \* of the e-th MAIN entry, 0 before the sheet was shown
    shown,          \* the request on the composed sheet, 0 for none
    \* The key
    inputKeyTemp,   \* 0 for null
    unlocks,        \* unlocks so far
    biometric,      \* history: those by biometrics
    wipedBy,        \* history: wipedBy[u], the task that took key u out of the field
    tasks           \* the coroutines, in the order of their launch

screens == <<passcode, inner, opened, onMain>>
connect == <<sheet, request, arrived, closed, viewModels, shown>>
key == <<inputKeyTemp, unlocks, biometric, wipedBy>>
vars == <<screens, connect, key, tasks>>

Unlocks == 1..MaxUnlocks
Requests == 1..MaxRequests
Mistyped == MaxTasks + 1     \* a wrong passcode, as what takes a key out

Tasks == [
    kind   : {"send", "transfer", "approve"},
    entry  : Nat,                  \* the MAIN entry it belongs to
    for    : 0..MaxUnlocks,        \* the unlock it was launched by
    phase  : {"new", "read", "cleared", "done", "cancelled"},
    got    : 0..MaxUnlocks,        \* the key it read
    gone   : SUBSET Unlocks,       \* history: keys taken out before its launch
    closed : SUBSET Requests,      \* history: requests closed before its launch
    pays   : 0..MaxRequests]       \* the request whose recipient it paid

TypeOK ==
    /\ passcode \in BOOLEAN
    /\ inner \in {"main", "lock", "settings"}
    /\ opened \in 0..MaxUnlocks
    /\ onMain \in BOOLEAN
    /\ sheet \in {"empty", "connection", "transfer"}
    /\ request \in 0..MaxRequests
    /\ arrived \in 0..MaxRequests
    /\ closed \subseteq 1..arrived
    /\ viewModels \in Seq(0..MaxRequests)
    /\ shown \in 0..arrived
    /\ inputKeyTemp \in 0..unlocks
    /\ unlocks \in 0..MaxUnlocks
    /\ biometric \subseteq 1..unlocks
    /\ wipedBy \in [Unlocks -> 0..Mistyped]
    /\ tasks \in Seq(Tasks)
    /\ Len(tasks) <= MaxTasks

Init ==
    /\ passcode = TRUE
    /\ inner = "main"
    /\ opened = 0
    /\ onMain = FALSE
    /\ sheet = "empty"
    /\ request = 0
    /\ arrived = 0
    /\ closed = {}
    /\ viewModels = <<>>
    /\ shown = 0
    /\ inputKeyTemp = 0
    /\ unlocks = 0
    /\ biometric = {}
    /\ wipedBy = [u \in Unlocks |-> 0]
    /\ tasks = <<>>

-----------------------------------------------------------------------------
(* Helpers                                                                 *)

Locked == passcode \/ inner # "main"

\* The user reaches what lies under the sheet only when there is no sheet.
Free == passcode \/ sheet = "empty"

Wiped == {u \in Unlocks : wipedBy[u] # 0}

\* What a launch records.
Task(kind, entry, unlock) ==
    [kind |-> kind, entry |-> entry, for |-> unlock, phase |-> "new", got |-> 0,
     gone |-> Wiped, closed |-> closed, pays |-> 0]

Launch(kind, entry, unlock) ==
    /\ Len(tasks) < MaxTasks
    /\ tasks' = Append(tasks, Task(kind, entry, unlock))

\* Faulty variant: the key is handed out and the field keeps it.
WipeForgotten(by) ==
    /\ UNCHANGED inputKeyTemp
    /\ wipedBy' = IF inputKeyTemp = 0 THEN wipedBy ELSE [wipedBy EXCEPT ![inputKeyTemp] = by]

\* inputKeyTemp = null, by the task or the mistake named.
Wipe(by) ==
    /\ inputKeyTemp' = 0
    /\ wipedBy' = IF inputKeyTemp = 0 THEN wipedBy ELSE [wipedBy EXCEPT ![inputKeyTemp] = by]

\* The tasks after the pending screen of the current entry is left: its view
\* model is cleared, which cancels a send that waits to start or for the network;
\* one that is between its read and its assignment of the field runs on.
SendsCancelled ==
    [i \in DOMAIN tasks |->
        LET t == tasks[i]
        IN IF /\ t.kind = "send" /\ t.entry = Len(viewModels)
              /\ t.phase \in {"new", "cleared"}
           THEN [t EXCEPT !.phase = "cancelled"] ELSE t]

-----------------------------------------------------------------------------
(* The lock screens                                                        *)

\* The right passcode: getInputKeyWithCipher(passcode) sets the field.  A full
\* passcode is tried again on each further tap, also while the animation runs.
UnlockByPasscode ==
    /\ Locked /\ Free
    /\ unlocks < MaxUnlocks
    /\ unlocks' = unlocks + 1
    /\ opened' = unlocks'
    /\ inputKeyTemp' = unlocks'
    /\ UNCHANGED <<passcode, inner, onMain, connect, biometric, wipedBy, tasks>>

\* Biometrics: getInputKeyWithCipher(cipher) returns the key and leaves the field.
UnlockByBiometrics ==
    /\ Locked /\ Free
    /\ unlocks < MaxUnlocks
    /\ unlocks' = unlocks + 1
    /\ opened' = unlocks'
    /\ biometric' = biometric \cup {unlocks'}
    /\ UNCHANGED <<passcode, inner, onMain, connect, inputKeyTemp, wipedBy, tasks>>

\* A wrong passcode decrypts to null, and null is what the field is set to.
WrongPasscode ==
    /\ Locked /\ Free
    /\ inputKeyTemp # 0
    /\ Wipe(Mistyped)
    /\ UNCHANGED <<screens, connect, unlocks, biometric, tasks>>

\* onSuccess of PASSCODE: a new MAIN entry, in which passcodeSuccessAction runs
\* when it is set.
EnterMain ==
    /\ passcode /\ opened # 0
    /\ passcode' = FALSE
    /\ inner' = "main"
    /\ opened' = 0
    /\ onMain' = FALSE
    /\ viewModels' = Append(viewModels, 0)
    /\ IF onMain THEN Launch("approve", Len(viewModels) + 1, opened) ELSE UNCHANGED tasks
    /\ UNCHANGED <<sheet, request, arrived, closed, shown, key>>

\* onSuccess of a send's lock screen: the pending screen, whose view model sends.
EnterPending ==
    /\ ~passcode /\ inner = "lock" /\ opened # 0
    /\ inner' = "main"
    /\ opened' = 0
    /\ Launch("send", Len(viewModels), opened)
    /\ UNCHANGED <<passcode, onMain, connect, key>>

\* onSuccess of the settings' lock screen: the words; nothing takes the key.
EnterWords ==
    /\ ~passcode /\ inner = "settings" /\ opened # 0
    /\ inner' = "main"
    /\ opened' = 0
    /\ UNCHANGED <<passcode, onMain, connect, key, tasks>>

\* Back from the settings' lock screen.
BackFromSettings ==
    /\ ~passcode /\ Free /\ inner = "settings"
    /\ inner' = "main"
    /\ opened' = 0
    /\ UNCHANGED <<passcode, onMain, connect, key, tasks>>

\* Back from PASSCODE to the entry under it.  passcodeSuccessAction waits for the
\* route MAIN, however it is reached.
Back ==
    /\ passcode /\ viewModels # <<>>
    /\ passcode' = FALSE
    /\ opened' = 0
    /\ onMain' = FALSE
    /\ IF onMain THEN Launch("approve", Len(viewModels), 0) ELSE UNCHANGED tasks
    /\ UNCHANGED <<inner, connect, key>>

-----------------------------------------------------------------------------
(* The main screen                                                         *)

\* A send or another sheet of the main screen is opened: popUpTo(0) clears the
\* pending or lock screen there was.  A send leads, by address, amount and
\* confirmation, to its lock screen.
OpenSheet(screen) ==
    /\ ~passcode /\ Free
    /\ inner' = screen
    /\ opened' = 0
    /\ tasks' = SendsCancelled
    /\ UNCHANGED <<passcode, onMain, connect, key>>

AskSend == OpenSheet("lock")
AskOther == inner # "settings" /\ OpenSheet("main")

\* The settings ask for the passcode before they show the words.
AskWords ==
    /\ ~passcode /\ Free
    /\ inner = "main"
    /\ inner' = "settings"
    /\ UNCHANGED <<passcode, opened, onMain, connect, key, tasks>>

-----------------------------------------------------------------------------
(* TonConnect                                                              *)

\* onEvent: the dApp asks for a payment.  A request that was shown is replaced.
Arrive ==
    /\ arrived < MaxRequests
    /\ arrived' = arrived + 1
    /\ request' = arrived'
    /\ sheet' = "transfer"
    /\ UNCHANGED <<screens, closed, viewModels, shown, key, tasks>>

\* processString: a scanned code asks for a connection.
Scan ==
    /\ ~passcode /\ inner = "main" /\ sheet = "empty"
    /\ sheet' = "connection"
    /\ UNCHANGED <<screens, request, arrived, closed, viewModels, shown, key, tasks>>

\* Faulty variant: the view model keeps the recipient it was given first.
ComposeOnce ==
    /\ ~passcode /\ sheet = "transfer" /\ request # 0
    /\ shown # request \/ inputKeyTemp # 0
    /\ shown' = request
    /\ viewModels' = [viewModels EXCEPT ![Len(viewModels)] = IF @ = 0 THEN request ELSE @]
    /\ IF inputKeyTemp # 0 THEN Launch("transfer", Len(viewModels), 0) ELSE UNCHANGED tasks
    /\ UNCHANGED <<screens, sheet, request, arrived, closed, key>>

\* The sheet of a payment is composed anew.  Its SideEffect gives the view model
\* the recipient and, when a key waits, pays without a click.
Compose ==
    /\ ~passcode /\ sheet = "transfer" /\ request # 0
    /\ shown # request \/ inputKeyTemp # 0
    /\ shown' = request
    /\ viewModels' = [viewModels EXCEPT ![Len(viewModels)] = request]
    /\ IF inputKeyTemp # 0 THEN Launch("transfer", Len(viewModels), 0) ELSE UNCHANGED tasks
    /\ UNCHANGED <<screens, sheet, request, arrived, closed, key>>

\* A click on the composed sheet of a payment.
CanConfirm == ~passcode /\ sheet = "transfer" /\ shown # 0

\* PASSCODE on top of MAIN, which leaves the composition.
OpenPasscode ==
    /\ passcode' = TRUE
    /\ opened' = 0
    /\ shown' = 0
    /\ UNCHANGED <<inner, sheet, request, arrived, closed, viewModels, key, tasks>>

\* The button of the loaded sheet: PASSCODE first, unless a key waits.
ConfirmLoaded ==
    /\ CanConfirm /\ inputKeyTemp = 0
    /\ OpenPasscode
    /\ UNCHANGED onMain

\* The same button when a key waits, and the one of the loading sheet, which is
\* transparent but takes clicks and never asks whether there is a key.
Confirm ==
    /\ CanConfirm
    /\ Launch("transfer", Len(viewModels), 0)
    /\ UNCHANGED <<screens, connect, key>>

\* The button of a connection: passcodeSuccessAction is set and PASSCODE opened.
ConfirmConnection ==
    /\ ~passcode /\ sheet = "connection"
    /\ onMain' = TRUE
    /\ OpenPasscode

\* Faulty variant: a payment is declined although none is asked for.
DismissNull ==
    /\ ~passcode /\ sheet # "empty"
    /\ closed' = closed \cup {request}
    /\ request' = 0
    /\ sheet' = "empty"
    /\ shown' = 0
    /\ UNCHANGED <<screens, arrived, viewModels, key, tasks>>

\* onBottomSheetDismiss: a payment is declined, whether or not it was made.
Dismiss ==
    /\ ~passcode /\ sheet # "empty"
    /\ closed' = IF request = 0 THEN closed ELSE closed \cup {request}
    /\ request' = 0
    /\ sheet' = "empty"
    /\ shown' = 0
    /\ UNCHANGED <<screens, arrived, viewModels, key, tasks>>

-----------------------------------------------------------------------------
(* The tasks                                                               *)

\* Faulty variant: the field is set to null before it is read.
ReadCleared(i) ==
    /\ tasks[i].phase = "new"
    /\ Wipe(i)
    /\ tasks' = [tasks EXCEPT ![i].phase = "read", ![i].got = inputKeyTemp']
    /\ UNCHANGED <<screens, connect, unlocks, biometric>>

\* val key = inputKeyTemp
Read(i) ==
    /\ tasks[i].phase = "new"
    /\ tasks' = [tasks EXCEPT ![i].phase = "read", ![i].got = inputKeyTemp]
    /\ UNCHANGED <<screens, connect, key>>

\* inputKeyTemp = null: directly after the read in getPrivateKeyTemp, and in
\* getPrivateKeyTempData after tonlib has exported the key.  A task without a key
\* assigns it too, and ends there.
Clear(i) ==
    /\ tasks[i].phase = "read"
    /\ Wipe(i)
    /\ tasks' = [tasks EXCEPT ![i].phase = IF tasks[i].got = 0 THEN "done" ELSE "cleared"]
    /\ UNCHANGED <<screens, connect, unlocks, biometric>>

\* sendTon, or the approval, failed.
Fail(i) ==
    /\ tasks[i].phase = "cleared"
    /\ tasks' = [tasks EXCEPT ![i].phase = "done"]
    /\ UNCHANGED <<screens, connect, key>>

\* The payment of a send.
Send(i) ==
    /\ tasks[i].phase = "cleared" /\ tasks[i].kind = "send"
    /\ tasks' = [tasks EXCEPT ![i].phase = "done"]
    /\ UNCHANGED <<screens, connect, key>>

\* The payment of a dApp: recipientAddress is read now, not at the click.
Transfer(i) ==
    LET entry == tasks[i].entry
    IN /\ tasks[i].phase = "cleared" /\ tasks[i].kind = "transfer"
       /\ tasks' = [tasks EXCEPT ![i].phase = "done", ![i].pays = viewModels[entry]]
       /\ UNCHANGED <<screens, connect, key>>

\* approveTonConnectionRequest: the list of event flows grows, all of them are
\* collected again, and the flow of the dApp replays its last request.
Approve(i) ==
    /\ tasks[i].phase = "cleared" /\ tasks[i].kind = "approve"
    /\ tasks' = [tasks EXCEPT ![i].phase = "done"]
    /\ IF arrived = 0 THEN UNCHANGED <<request, sheet, closed>>
       ELSE /\ request' = arrived
            /\ sheet' = "transfer"
            /\ closed' = closed \ {arrived}
    /\ UNCHANGED <<screens, arrived, viewModels, shown, key>>

Next ==
    \/ UnlockByPasscode \/ UnlockByBiometrics \/ WrongPasscode
    \/ EnterMain \/ EnterPending \/ EnterWords \/ Back \/ BackFromSettings
    \/ AskSend \/ AskOther \/ AskWords
    \/ Arrive \/ Scan \/ Compose \/ ConfirmLoaded \/ Confirm
    \/ ConfirmConnection \/ Dismiss
    \/ \E i \in DOMAIN tasks :
        Read(i) \/ Clear(i) \/ Fail(i) \/ Send(i) \/ Transfer(i) \/ Approve(i)

Spec == Init /\ [][Next]_vars

-----------------------------------------------------------------------------
(* Properties                                                              *)

\* One unlock, one round of use: a task never gets a key that had already been
\* taken out of the field when the task was launched.  (Two tasks that overlap
\* can both get it: the read and the assignment are not atomic.)
KeyTakenOnce == \A i \in DOMAIN tasks : tasks[i].got \notin tasks[i].gone

\* A payment launched after the user had declined a request never pays that
\* request, although its recipient is read late, unless the approval of a
\* connection showed the request again in between.
DeclinedNotPaid == \A i \in DOMAIN tasks : tasks[i].pays \notin tasks[i].closed

\* A send gets no key only for one of the causes in the code: biometrics unlocked
\* it, or its key or a later one went to another task or to a wrong passcode.
StarvedForCause ==
    \A i \in DOMAIN tasks :
        LET t == tasks[i]
        IN t.kind = "send" /\ t.phase = "done" /\ t.got = 0 =>
            \/ t.for \in biometric
            \/ \E u \in t.for..MaxUnlocks : wipedBy[u] \notin {0, i}
=============================================================================
