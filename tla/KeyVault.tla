------------------------------ MODULE KeyVault ------------------------------
(***************************************************************************)
(* Creating or importing a wallet and setting its passcode: TonController  *)
(* (one for biometry, one for the passcode), createWallet and importWallet *)
(* of TonWalletClient, the passcode screens and the stored PasscodeData.   *)
(*                                                                         *)
(* A creation is one call of createWallet or importWallet and names the    *)
(* tonlib key, the local password and the keystore pairs it makes.  A tap  *)
(* is one confirmation of the passcode and names the salt drawn for it.    *)
(* Encryption is symbolic: kept data is a key under a sequence of passcode *)
(* layers, a stored blob adds the keystore pair that encrypted it.  The    *)
(* three wallet versions are one here, the word screens are passed with    *)
(* Show, and the device has a secure lock screen, so that the biometric    *)
(* pair requires authentication.                                           *)
(***************************************************************************)
EXTENDS Integers, Sequences, FiniteSets

CONSTANTS
    Creations,    \* calls of createWallet and importWallet
    Imports,      \* the imports among them: their coroutine belongs to a ViewModel
    Passcodes,    \* what the user may choose
    Short,        \* a passcode that lost its last digit
    None,         \* null
    Haste,        \* what the user does although an earlier action is under way
    Turns,        \* screens on which the device may be turned
    MaxTurns,     \* bound on turns in the life of a process
    MaxTaps,      \* bound on confirmations
    MaxDeaths,    \* bound on deaths of the process, crashes of its own apart
    MaxFailures   \* bound on failed tonlib requests

Phases == {"start", "perfect", "setup", "confirm", "ready", "lock"}

ASSUME VaultConstants ==
    /\ Imports \subseteq Creations /\ None \notin Creations \cup Passcodes \cup {Short}
    /\ Short \notin Passcodes /\ Haste \subseteq {"start", "tap", "digit", "back"} /\ Turns \subseteq Phases
    /\ MaxTurns \in Nat /\ MaxTaps \in Nat /\ MaxDeaths \in Nat /\ MaxFailures \in Nat

VARIABLES
    bioAlias, pinAlias,   \* the creation that made the key pair under each keystore alias
    client,               \* the TonWalletClient of the current activity
    creatingData,         \* creatingDataForLaterEncrypt of each client's passcodeTonController
    job,                  \* the coroutine of each creation
    edits,                \* updatePasscodeData coroutines launched and not done
    store,                \* the stored PasscodeData
    wallet,               \* the stored wallet
    phase, shown, chosen, \* the screen, and the key and passcode in its route
    viewModel,            \* the client held by the view model of each passcode screen
    typed, entered,       \* the digits accepted on the first, and entered on the second of them
    save,                 \* the savePasscode coroutine of each tap
    promise,              \* history: what the success screen told the user
    lost,                 \* history: a death of the process lost an edit of this setup
    deaths, failures      \* history: for the bounds

keystore == <<bioAlias, pinAlias>>
screens == <<phase, shown, chosen, viewModel, typed, entered>>
history == <<promise, lost, deaths, failures>>
vars == <<keystore, client, creatingData, job, edits, store, wallet, screens, save, history>>

Taps == 1..MaxTaps
Clients == 1..(MaxTurns + 1)
Orphan(S) == S \cup {None}

\* Kept data: a key and the passcode layers around it, innermost first.
Layers == [pass : Passcodes \cup {Short}, salt : Taps]
Kept == [key : Creations, layers : Seq(Layers)]
PinBlobs == [alias : Orphan(Creations), key : Creations, layers : Seq(Layers)]
BioBlobs == [alias : Orphan(Creations), key : Creations]
PasscodeData == [pub : Orphan(Creations), pin : Orphan(PinBlobs),
                 bio : Orphan(BioBlobs), salt : Orphan(Taps)]

ASSUME NoneIsNoRecord == None \notin Taps \cup PinBlobs \cup BioBlobs \cup Kept

NoData == [pub |-> None, pin |-> None, bio |-> None, salt |-> None]

Stages == {"none", "started", "bioKey", "keys", "saved", "bioDone", "finished", "ended"}
Jobs == [stage : Stages, client : Clients, alive : BOOLEAN, blob : Orphan(BioBlobs)]
Saves == [stage : {"none", "launched", "encrypted", "stored", "ended"},
          client : Clients, alive : BOOLEAN]

TypeOK ==
    /\ {bioAlias, pinAlias, wallet, shown} \subseteq Orphan(Creations)
    /\ client \in Clients
    /\ creatingData \in [Clients -> Orphan(Kept)]
    /\ job \in [Creations -> Jobs]
    /\ edits \subseteq PasscodeData
    /\ store \in PasscodeData
    /\ phase \in Phases
    /\ {chosen, typed} \subseteq Orphan(Passcodes)
    /\ viewModel \in [{"setup", "confirm"} -> Clients]
    /\ entered \in Orphan(Passcodes \cup {Short})
    /\ save \in [Taps -> Saves]
    /\ promise \in Orphan([key : Creations, pass : Passcodes])
    /\ lost \in BOOLEAN /\ deaths \in 0..MaxDeaths /\ failures \in 0..MaxFailures

Init ==
    /\ bioAlias = None /\ pinAlias = None
    /\ client = 1
    /\ creatingData = [n \in Clients |-> None]
    /\ job = [c \in Creations |->
                [stage |-> "none", client |-> 1, alive |-> FALSE, blob |-> None]]
    /\ edits = {} /\ store = NoData /\ wallet = None
    /\ phase = "start" /\ shown = None /\ chosen = None
    /\ viewModel = [s \in {"setup", "confirm"} |-> 1]
    /\ typed = None /\ entered = None
    /\ save = [t \in Taps |-> [stage |-> "none", client |-> 1, alive |-> FALSE]]
    /\ promise = None /\ lost = FALSE /\ deaths = 0 /\ failures = 0

-----------------------------------------------------------------------------
(* What opens the store. *)

\* decryptTonData with a passcode: the pair is there and exactly its layer comes off.
Opens(p) ==
    /\ store.pin # None /\ store.salt # None
    /\ store.pin.alias = pinAlias
    /\ store.pin.layers = << [pass |-> p, salt |-> store.salt] >>

\* decryptTonData without one: the biometric pair is there.
BioOpens == store.bio # None /\ store.bio.alias = bioAlias

\* updatePasscodeData: the edit is launched in the scope of its client, which a
\* turned device has cancelled.
Launched(n, data) == IF n = client THEN edits \cup {data} ELSE edits

\* Coroutines under way: they have begun, and go on even if cancelled until
\* they next suspend.
JobRuns(c) ==
    \/ job[c].stage \in {"bioKey", "bioDone"}
    \/ job[c].alive /\ job[c].stage \in {"started", "keys", "saved", "finished"}
SaveRuns(t) == save[t].alive \/ save[t].stage = "encrypted"

Quiet == (\A c \in Creations : ~JobRuns(c)) /\ (\A t \in Taps : ~SaveRuns(t)) /\ edits = {}

Step(c, from, to) == job[c].stage = from /\ job' = [job EXCEPT ![c].stage = to]

-----------------------------------------------------------------------------
(* createWallet and importWallet *)

\* The button that creates or imports; nothing disables it while one runs.
Start(c) ==
    /\ phase = "start" /\ job[c].stage = "none"
    /\ "start" \in Haste \/ Quiet
    /\ job' = [job EXCEPT ![c] = [@ EXCEPT !.stage = "started", !.client = client, !.alive = TRUE]]
    /\ promise' = None /\ lost' = FALSE
    /\ UNCHANGED <<keystore, client, creatingData, edits, store, wallet, screens, save,
                   deaths, failures>>

\* Faulty variant: an existing pair is not deleted first (createWallet without cleanup).
NewBioKeyKept(c) ==
    /\ job[c].alive
    /\ Step(c, "started", "bioKey")
    /\ bioAlias' = IF bioAlias = None THEN c ELSE bioAlias
    /\ UNCHANGED <<pinAlias, client, creatingData, edits, store, wallet, screens, save, history>>

\* biometricTonController.createWallet
NewBioKey(c) ==
    /\ job[c].alive
    /\ Step(c, "started", "bioKey")
    /\ bioAlias' = c
    /\ UNCHANGED <<pinAlias, client, creatingData, edits, store, wallet, screens, save, history>>

\* passcodeTonController.createWallet
NewPinKey(c) ==
    /\ Step(c, "bioKey", "keys")
    /\ pinAlias' = c
    /\ creatingData' = [creatingData EXCEPT ![job[c].client] = None]
    /\ UNCHANGED <<bioAlias, client, edits, store, wallet, screens, save, history>>

\* createKey, ExportKey or ImportKey fails: null is returned and nothing shown.
CreateFails(c) ==
    /\ job[c].alive /\ failures < MaxFailures
    /\ Step(c, "keys", "ended")
    /\ failures' = failures + 1
    /\ UNCHANGED <<keystore, client, creatingData, edits, store, wallet, screens, save,
                   promise, lost, deaths>>

\* loadAccountRevisions: the wallet is saved, unless its state cannot be loaded.
SaveWallet(c) ==
    /\ job[c].alive
    /\ Step(c, "keys", "saved")
    /\ \/ wallet' = c /\ UNCHANGED failures
       \/ failures < MaxFailures /\ failures' = failures + 1 /\ UNCHANGED wallet
    /\ UNCHANGED <<keystore, client, creatingData, edits, store, screens, save, promise, lost,
                   deaths>>

\* biometricTonController.onFinishWalletCreate encrypts with the pair of the moment.
FinishBio(c) ==
    /\ job[c].alive /\ job[c].stage = "saved"
    /\ job' = [job EXCEPT ![c] = [@ EXCEPT !.stage = "bioDone",
                                          !.blob = [alias |-> bioAlias, key |-> c]]]
    /\ UNCHANGED <<keystore, client, creatingData, edits, store, wallet, screens, save, history>>

\* Faulty variant: the biometric data is not handed to updatePasscodeData.
FinishPinOnly(c) ==
    /\ Step(c, "bioDone", "finished")
    /\ creatingData' = [creatingData EXCEPT ![job[c].client] = [key |-> c, layers |-> << >>]]
    /\ UNCHANGED <<edits, keystore, client, store, wallet, screens, save, history>>

\* passcodeTonController.onFinishWalletCreate keeps the data; the biometric blob is stored.
FinishPin(c) ==
    /\ Step(c, "bioDone", "finished")
    /\ creatingData' = [creatingData EXCEPT ![job[c].client] = [key |-> c, layers |-> << >>]]
    /\ edits' = Launched(job[c].client, [NoData EXCEPT !.bio = job[c].blob])
    /\ UNCHANGED <<keystore, client, store, wallet, screens, save, history>>

\* The words are shown and the user goes on.  Leaving the screen cancels the
\* creations of its scope; an import's view model stays and shows its key again.
Show(c) ==
    /\ phase = "start" /\ job[c].alive /\ job[c].stage = "finished"
    /\ phase' = "perfect" /\ shown' = c
    /\ job' = [d \in Creations |-> IF d \in Imports THEN job[d] ELSE [job[d] EXCEPT !.alive = FALSE]]
    /\ UNCHANGED <<keystore, client, creatingData, edits, store, wallet, chosen, viewModel,
                   typed, entered, save, history>>

-----------------------------------------------------------------------------
(* Setting the passcode *)

\* finishCreateImportWallet and the navigation to the passcode screen
ClickSetPasscode ==
    /\ phase = "perfect"
    /\ edits' = Launched(client, [NoData EXCEPT !.pub = shown])
    /\ phase' = "setup"
    /\ viewModel' = [viewModel EXCEPT !.setup = client] /\ typed' = None
    /\ UNCHANGED <<keystore, client, creatingData, job, store, wallet, shown, chosen, entered,
                   save, history>>

\* Faulty variant: the data is kept before its passcode layer is taken off.
TypePasscodeRaw(p) ==
    /\ phase = "setup" /\ typed = None
    /\ typed' = p
    /\ creatingData' = IF Opens(p)
                       THEN [creatingData EXCEPT ![viewModel.setup] =
                               [key |-> store.pin.key, layers |-> store.pin.layers]]
                       ELSE creatingData
    /\ UNCHANGED <<keystore, client, job, edits, store, wallet, phase, shown, chosen, viewModel,
                   entered, save, history>>

\* preparePasscode: if the passcode opens what is stored, that replaces the kept data.
TypePasscode(p) ==
    /\ phase = "setup" /\ typed = None
    /\ typed' = p
    /\ creatingData' = IF Opens(p)
                       THEN [creatingData EXCEPT ![viewModel.setup] =
                               [key |-> store.pin.key, layers |-> << >>]]
                       ELSE creatingData
    /\ UNCHANGED <<keystore, client, job, edits, store, wallet, phase, shown, chosen, viewModel,
                   entered, save, history>>

\* The success animation ends, also when the user came back to a screen that succeeded.
GoConfirm ==
    /\ phase = "setup" /\ typed # None
    /\ phase' = "confirm" /\ chosen' = typed /\ entered' = None
    /\ viewModel' = [viewModel EXCEPT !.confirm = client]
    /\ UNCHANGED <<keystore, client, creatingData, job, edits, store, wallet, shown, typed,
                   save, history>>

\* savePasscode is done and its screen shows success: the keyboard is disabled.
Succeeded == \E t \in Taps : save[t].alive /\ save[t].stage = "stored"

\* The last digit of the right passcode, or one more while savePasscode runs.
TypeAgain(t) ==
    /\ phase = "confirm" /\ ~Succeeded
    /\ save[t].stage = "none" /\ \A u \in 1..(t - 1) : save[u].stage # "none"
    /\ "tap" \in Haste \/ entered = None
    /\ entered' = chosen
    /\ save' = [save EXCEPT ![t] = [stage |-> "launched", client |-> viewModel.confirm,
                                    alive |-> TRUE]]
    /\ UNCHANGED <<keystore, client, creatingData, job, edits, store, wallet, phase, shown,
                   chosen, viewModel, typed, history>>

\* onDeleteDigit
DeleteDigit ==
    /\ phase = "confirm" /\ ~Succeeded
    /\ "digit" \in Haste /\ entered = chosen
    /\ entered' = Short
    /\ UNCHANGED <<keystore, client, creatingData, job, edits, store, wallet, phase, shown,
                   chosen, viewModel, typed, save, history>>

\* What the death of the process leaves: DataStore, keystore, and a screen to restore.
Die(screen) ==
    /\ client' = 1
    /\ creatingData' = [n \in Clients |-> None]
    /\ job' = [c \in Creations |-> [job[c] EXCEPT !.alive = FALSE, !.client = 1, !.blob = None,
                 !.stage = IF @ = "none" THEN @ ELSE "ended"]]
    /\ save' = [t \in Taps |-> [save[t] EXCEPT !.alive = FALSE, !.client = 1,
                 !.stage = IF @ = "none" THEN @ ELSE "ended"]]
    /\ edits' = {}
    /\ phase' = screen
    /\ viewModel' = [s \in {"setup", "confirm"} |-> 1] /\ typed' = None /\ entered' = None
    /\ promise' = IF edits = {} THEN promise ELSE None
    /\ lost' = (lost \/ edits # {})
    /\ UNCHANGED <<keystore, store, wallet, shown, chosen, failures>>

\* The first screen of a process that restores nothing
FirstScreen == IF wallet = None THEN "start" ELSE "lock"

\* setUserPasscode encrypts the kept data in place, under the digits entered by now.
SaveEncrypt(t) ==
    LET n == save[t].client IN
    /\ save[t].alive /\ save[t].stage = "launched" /\ creatingData[n] # None
    /\ creatingData' = [creatingData EXCEPT ![n].layers = Append(@, [pass |-> entered, salt |-> t])]
    /\ save' = [save EXCEPT ![t].stage = "encrypted"]
    /\ UNCHANGED <<keystore, client, job, edits, store, wallet, screens, history>>

\* Faulty variant: salts counted from zero.
SaveStoreLow(t) ==
    /\ save[t].stage = "encrypted" /\ creatingData[save[t].client] # None
    /\ edits' = Launched(save[t].client, [NoData EXCEPT !.salt = t - 1])
    /\ save' = [save EXCEPT ![t].stage = "stored"]
    /\ UNCHANGED <<keystore, client, creatingData, job, store, wallet, screens, history>>

\* It then encrypts the result with the pair of the moment and has it stored with its salt.
SaveStore(t) ==
    LET n == save[t].client
        kept == creatingData[n]
        pin == [alias |-> pinAlias, key |-> kept.key, layers |-> kept.layers]
    IN /\ save[t].stage = "encrypted" /\ kept # None
       /\ edits' = Launched(n, [NoData EXCEPT !.pin = pin, !.salt = t])
       /\ save' = [save EXCEPT ![t].stage = "stored"]
       /\ UNCHANGED <<keystore, client, creatingData, job, store, wallet, screens, history>>

\* Without kept data both crash the app.
SaveCrashes(t) ==
    /\ \/ save[t].alive /\ save[t].stage = "launched"
       \/ save[t].stage = "encrypted"
    /\ creatingData[save[t].client] = None
    /\ Die(FirstScreen)
    /\ UNCHANGED deaths

\* The success screen; nothing is left to go back to.
Finish ==
    /\ phase = "confirm" /\ Succeeded
    /\ phase' = "ready"
    /\ promise' = IF lost THEN None ELSE [key |-> shown, pass |-> chosen]
    /\ job' = [c \in Creations |-> [job[c] EXCEPT !.alive = FALSE]]
    /\ save' = [t \in Taps |-> [save[t] EXCEPT !.alive = FALSE]]
    /\ UNCHANGED <<keystore, client, creatingData, edits, store, wallet, shown, chosen, viewModel,
                   typed, entered, lost, deaths, failures>>

-----------------------------------------------------------------------------
(* Going back, the DataStore, the device *)

\* Leaving a screen cancels the coroutines of its scope and its view model.
Back ==
    \/ /\ phase = "start"
       /\ \E c \in Creations : job[c].alive
       /\ job' = [c \in Creations |-> [job[c] EXCEPT !.alive = FALSE]]
       /\ UNCHANGED <<phase, save>>
    \/ /\ phase = "perfect" /\ phase' = "start" /\ UNCHANGED <<job, save>>
    \/ /\ phase = "setup" /\ phase' = "perfect" /\ UNCHANGED <<job, save>>
    \/ /\ phase = "confirm" /\ phase' = "setup"
       /\ "back" \in Haste \/ \A t \in Taps : ~SaveRuns(t)
       /\ save' = [t \in Taps |-> [save[t] EXCEPT !.alive = FALSE]]
       /\ UNCHANGED job
    /\ UNCHANGED <<keystore, client, creatingData, edits, store, wallet, shown, chosen, viewModel,
                   typed, entered, history>>

\* Faulty variant: the stored data is replaced, null fields included.
ApplyEditWhole(e) ==
    /\ e \in edits
    /\ edits' = edits \ {e}
    /\ store' = e
    /\ UNCHANGED <<keystore, client, creatingData, job, wallet, screens, save, history>>

\* Storage.updatePasscodeData: fields that are null keep their stored value.
ApplyEdit(e) ==
    /\ e \in edits
    /\ edits' = edits \ {e}
    /\ store' = [f \in DOMAIN store |-> IF e[f] = None THEN store[f] ELSE e[f]]
    /\ UNCHANGED <<keystore, client, creatingData, job, wallet, screens, save, history>>

\* Turning the device makes a new activity and client.  View models and the
\* navigation stay; of the edits under way those DataStore has not accepted are lost.
Turn ==
    /\ phase \in Turns /\ client <= MaxTurns
    /\ client' = client + 1
    /\ job' = [c \in Creations |-> IF c \in Imports THEN job[c] ELSE [job[c] EXCEPT !.alive = FALSE]]
    /\ edits' \in SUBSET edits
    /\ UNCHANGED <<keystore, creatingData, store, wallet, screens, save, history>>

\* The process dies; the system may restore the screen, a stopped app starts anew.
Restart ==
    /\ deaths < MaxDeaths /\ deaths' = deaths + 1
    /\ \E screen \in {phase, FirstScreen} : Die(screen)

Edit == \E e \in edits : ApplyEdit(e)

Next ==
    \/ \E c \in Creations :
         \/ Start(c) \/ NewBioKey(c) \/ NewPinKey(c) \/ CreateFails(c) \/ SaveWallet(c)
         \/ FinishBio(c) \/ FinishPin(c) \/ Show(c)
    \/ \E p \in Passcodes : TypePasscode(p)
    \/ \E t \in Taps : TypeAgain(t) \/ SaveEncrypt(t) \/ SaveStore(t) \/ SaveCrashes(t)
    \/ ClickSetPasscode \/ GoConfirm \/ DeleteDigit \/ Finish \/ Back \/ Turn \/ Restart
    \/ Edit

Spec == Init /\ [][Next]_vars
FairSpec == Spec /\ WF_vars(Edit)

-----------------------------------------------------------------------------
(* Properties *)

\* What the success screen told the user holds, once the edits are through and
\* whatever dies afterwards: the passcode confirmed opens the key whose words
\* were shown, no other passcode does, and the account's public key is that
\* key's (setUserPasscode, finishCreateImportWallet, decryptTonData).
PromiseKept ==
    promise # None /\ edits = {} =>
        /\ store.pub = promise.key
        /\ store.pin # None /\ store.pin.key = promise.key
        /\ \A p \in Passcodes \cup {Short} : Opens(p) <=> p = promise.pass

\* Biometry and passcode never open two different keys, not even while a later
\* creation is replacing the keystore pairs and the stored blobs one by one
\* (createWallet cleans both aliases, updatePasscodeData keeps old fields).
DoorsAgree ==
    BioOpens /\ (\E p \in Passcodes \cup {Short} : Opens(p)) => store.bio.key = store.pin.key

\* The kept data is never under more than one layer, and what is stored comes
\* off with the salt stored: setUserPasscode encrypts in place, so this says
\* that it runs once between two refills.
OneLayer ==
    /\ \A n \in Clients : creatingData[n] # None => Len(creatingData[n].layers) <= 1
    /\ store.pin # None => \E p \in Passcodes : store.pin.layers = << [pass |-> p, salt |-> store.salt] >>

\* After success the store comes to open both ways, unless the process dies
\* before the edits are through or the user starts over.
PromiseHonoured ==
    promise # None ~> \/ promise = None
                      \/ BioOpens /\ Opens(promise.pass)
=============================================================================
