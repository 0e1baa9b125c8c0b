--------------------------- MODULE KeyVaultProofs ---------------------------
(***************************************************************************)
(* The safety properties of KeyVault for any number of creations,          *)
(* passcodes, taps, turns, deaths and failures: the type invariant without *)
(* more, and each of the others for every user it holds for.  DoorsAgree   *)
(* stands whatever the user does but start a creation over another;        *)
(* OneLayer as long as the user waits for what is under way; PromiseKept   *)
(* if, besides, the device is not turned on the confirmation screen or the *)
(* success screen.                                                         *)
(***************************************************************************)
EXTENDS KeyVault, SequenceTheorems, TLAPS

-----------------------------------------------------------------------------
(* The invariant                                                           *)

InSetup == phase \in {"perfect", "setup", "confirm"}

Unfinished(c) == JobRuns(c) /\ job[c].stage # "finished"

SaveStored(t) == SaveRuns(t) /\ save[t].stage = "stored"

Layer(p, t) == << [pass |-> p, salt |-> t] >>

Encrypted(t) == SaveRuns(t) /\ save[t].stage # "launched"

\* The stored passcode blob, or that of an edit, has the one layer of its salt.
PinLayered(data) ==
    data.pin # None =>
        /\ data.salt # None
        /\ \E p \in Passcodes : data.pin.layers = Layer(p, data.salt)

\* What the screens have to go on.
ScreenInv ==
    /\ InSetup => shown # None
    /\ phase = "confirm" => chosen # None
    /\ \A t \in Taps : save[t].alive => phase = "confirm" /\ entered # None

TypeInv == TypeOK /\ ScreenInv

\* One creation runs at a time, and the pairs are its own.
JobInv ==
    /\ \A c, d \in Creations : JobRuns(c) /\ JobRuns(d) => c = d
    /\ \A c \in Creations : JobRuns(c) =>
         /\ promise = None /\ phase # "ready"
         /\ job[c].stage # "started" => bioAlias = c
         /\ job[c].stage \notin {"started", "bioKey"} => pinAlias = c
         /\ job[c].stage = "bioDone" => job[c].blob = [alias |-> c, key |-> c]
    /\ \A c \in Creations : Unfinished(c) => phase = "start" /\ edits = {}

\* What has not come that far is nowhere yet.
FreshInv ==
    \A c \in Creations :
      /\ job[c].stage \in {"none", "started"} => bioAlias # c
      /\ job[c].stage \in {"none", "started", "bioKey"} => pinAlias # c
      /\ job[c].stage \notin {"finished", "ended"} =>
           /\ shown # c
           /\ store.bio # None => store.bio.key # c
           /\ store.pin # None => store.pin.key # c
           /\ \A e \in edits : e.bio # None => e.bio.key # c

\* The blobs, and the edits of the setup there is.
BlobInv ==
    /\ store.bio # None => store.bio.alias = store.bio.key
    /\ store.bio # None /\ store.bio.alias = bioAlias => pinAlias = bioAlias
    /\ store.pin # None =>
         /\ store.pin.alias = store.pin.key /\ store.salt # None
         /\ \E p \in Passcodes : store.pin.layers = Layer(p, store.salt)
    /\ InSetup => bioAlias = shown /\ pinAlias = shown
    /\ \A e \in edits :
         /\ bioAlias = pinAlias
         /\ e.pub # None => e.pub = pinAlias /\ shown = pinAlias
         /\ e.bio # None => e.bio = [alias |-> pinAlias, key |-> pinAlias]
         /\ e.pin = None => e.salt = None
         /\ e.pin # None =>
              /\ e.pin = [alias |-> pinAlias, key |-> pinAlias, layers |-> Layer(chosen, e.salt)]
              /\ e.salt # None /\ chosen # None /\ shown = pinAlias
              /\ phase = "ready" \/ \E t \in Taps : SaveStored(t)

\* The kept data of the clients.
KeptInv ==
    /\ viewModel.setup <= client /\ \A c \in Creations : job[c].client <= client
    /\ creatingData[client] # None => creatingData[client].key = pinAlias
    /\ \A c \in Creations : Unfinished(c) /\ job[c].client # client => creatingData[client] = None
    /\ \A n \in Clients : n > client => creatingData[n] = None
    /\ \A n \in Clients : creatingData[n] # None =>
         \/ creatingData[n].layers = << >>
         \/ Len(creatingData[n].layers) = 1
              /\ (phase = "ready" \/ \E t \in Taps : SaveRuns(t) /\ save[t].stage # "launched")

\* One confirmation at a time.
SaveInv ==
    /\ phase = "confirm" => viewModel.confirm = client /\ entered \in {None, chosen}
    /\ \A t, u \in Taps : SaveRuns(t) /\ SaveRuns(u) => t = u
    /\ \A t \in Taps : SaveRuns(t) =>
         /\ phase = "confirm" /\ entered = chosen /\ save[t].alive /\ save[t].client = client
         /\ save[t].stage \in {"launched", "encrypted", "stored"}
         /\ save[t].stage # "launched" =>
              /\ creatingData[client] # None
              /\ creatingData[client].layers = Layer(chosen, t)

PubDone == store.pub = shown \/ \E e \in edits : e.pub # None

PinDone ==
    \/ \E e \in edits : e.pin # None
    \/ /\ store.pin # None /\ store.pin.key = shown
       /\ store.pin.layers = Layer(chosen, store.salt)

\* On the way to the promise, and what it rests on then.
PromiseInv ==
    /\ InSetup /\ phase # "perfect" /\ ~lost /\ creatingData[client] # None => PubDone
    /\ InSetup /\ ~lost /\ store.pin # None /\ store.pin.key = shown =>
         store.pub = shown \/ \E t \in Taps : SaveStored(t)
    /\ (\E t \in Taps : SaveStored(t)) => PinDone
    /\ \A c \in Creations : JobRuns(c) /\ store.pin # None /\ store.pin.key = c =>
         \E t \in Taps : SaveStored(t)
    /\ promise # None =>
         /\ phase \in {"ready", "start", "lock"} /\ (phase # "ready" => edits = {})
         /\ promise.key = shown /\ promise.pass = chosen /\ pinAlias = shown
         /\ PubDone /\ PinDone

CareInv == JobInv /\ FreshInv /\ BlobInv /\ KeptInv /\ SaveInv /\ PromiseInv

\* The clients whose kept data a later step may take up.
InUse(n) ==
    \/ n = client
    \/ phase \in {"setup", "confirm"} /\ n = viewModel.setup
    \/ phase = "confirm" /\ n = viewModel.confirm
    \/ \E t \in Taps : SaveRuns(t) /\ n = save[t].client

Done == {"finished", "ended"}

\* A blob is of the pair its creation made, and a biometric one is there only
\* after its creation has made the other pair too.
BioOwn(b) ==
    b # None => /\ b.alias = b.key /\ job[b.key].stage \in Done
                /\ b.alias = bioAlias => pinAlias = bioAlias
PinOwn(b) == b # None => b.alias = b.key

\* One creation runs at a time, alone, and the pairs are its own.
PairInv ==
    /\ \A c, d \in Creations : JobRuns(c) /\ JobRuns(d) => c = d
    /\ \A c \in Creations : JobRuns(c) =>
         /\ job[c].stage # "started" => bioAlias = c
         /\ job[c].stage \notin {"started", "bioKey"} => pinAlias = c
         /\ job[c].stage = "bioDone" => job[c].blob = [alias |-> c, key |-> c]
    /\ \A c \in Creations : Unfinished(c) => phase = "start" /\ \A t \in Taps : ~SaveRuns(t)

OwnInv ==
    /\ BioOwn(store.bio) /\ PinOwn(store.pin)
    /\ \A e \in edits : BioOwn(e.bio) /\ PinOwn(e.pin)

\* Kept data of an older creation lies only where nothing takes it up again.
RecentInv ==
    /\ viewModel.setup <= client /\ \A c \in Creations : job[c].client <= client
    /\ \A n \in Clients : InUse(n) /\ creatingData[n] # None => creatingData[n].key = pinAlias
    /\ \A c \in Creations : Unfinished(c) /\ job[c].client # client => creatingData[client] = None
    /\ \A n \in Clients : n > client => creatingData[n] = None

DoorInv == PairInv /\ OwnInv /\ RecentInv

-----------------------------------------------------------------------------
(* Types                                                                   *)

\* What a step of a creation changes.
LEMMA StepFacts ==
    ASSUME TypeOK, NEW c \in Creations, NEW from, NEW to \in Stages, Step(c, from, to)
    PROVE  /\ job' \in [Creations -> Jobs] /\ job[c].stage = from /\ job'[c].stage = to
           /\ job'[c].client = job[c].client /\ (job'[c].alive <=> job[c].alive)
           /\ job'[c].blob = job[c].blob
           /\ \A d \in Creations : d # c => job'[d] = job[d]
<1> DEFINE j == [job[c] EXCEPT !.stage = to]
<1>1. job \in [Creations -> Jobs] /\ job[c] \in Jobs
  BY DEF TypeOK
<1>2. /\ j \in Jobs /\ j.stage = to /\ j.client = job[c].client
      /\ (j.alive <=> job[c].alive) /\ j.blob = job[c].blob
  BY <1>1 DEF Jobs
<1>3. job[c].stage = from /\ job' = [job EXCEPT ![c] = j]
  BY DEF Step
<1> HIDE DEF j
<1>4. job' \in [Creations -> Jobs] /\ job'[c] = j /\ \A d \in Creations : d # c => job'[d] = job[d]
  BY <1>1, <1>2, <1>3
<1> QED BY <1>2, <1>3, <1>4

\* A creation starts.
LEMMA StartFacts ==
    ASSUME TypeOK, NEW c \in Creations, Start(c)
    PROVE  /\ job' \in [Creations -> Jobs] /\ job[c].stage = "none" /\ job'[c].stage = "started"
           /\ job'[c].client = client /\ job'[c].alive
           /\ \A d \in Creations : d # c => job'[d] = job[d]
<1> DEFINE j == [job[c] EXCEPT !.stage = "started", !.client = client, !.alive = TRUE]
<1>1. job \in [Creations -> Jobs] /\ job[c] \in Jobs /\ client \in Clients
  BY DEF TypeOK
<1>2. /\ j \in Jobs /\ j.stage = "started" /\ j.client = client /\ j.alive
  BY <1>1 DEF Jobs, Stages
<1>3. job[c].stage = "none" /\ job' = [job EXCEPT ![c] = j]
  BY DEF Start
<1> HIDE DEF j
<1> QED BY <1>1, <1>2, <1>3

\* The data of a creation is encrypted for biometry.
LEMMA FinishBioFacts ==
    ASSUME TypeOK, NEW c \in Creations, FinishBio(c)
    PROVE  /\ job' \in [Creations -> Jobs] /\ job[c].stage = "saved" /\ job'[c].stage = "bioDone"
           /\ job'[c].client = job[c].client /\ job[c].alive /\ job'[c].alive
           /\ job'[c].blob = [alias |-> bioAlias, key |-> c]
           /\ \A d \in Creations : d # c => job'[d] = job[d]
<1> DEFINE b == [alias |-> bioAlias, key |-> c]
           j == [job[c] EXCEPT !.stage = "bioDone", !.blob = b]
<1>1. job \in [Creations -> Jobs] /\ job[c] \in Jobs /\ bioAlias \in Orphan(Creations)
  BY DEF TypeOK
<1>2. b \in Orphan(BioBlobs)
  BY <1>1 DEF BioBlobs, Orphan
<1> HIDE DEF b
<1>3. /\ j \in Jobs /\ j.stage = "bioDone" /\ j.client = job[c].client
      /\ (j.alive <=> job[c].alive) /\ j.blob = b
  BY <1>1, <1>2 DEF Jobs, Stages
<1>4. job[c].stage = "saved" /\ job[c].alive /\ job' = [job EXCEPT ![c] = j]
  BY DEF FinishBio, b
<1> HIDE DEF j
<1> QED BY <1>1, <1>3, <1>4 DEF b

\* Coroutines are cancelled, or end.
LEMMA CancelFacts ==
    ASSUME TypeOK, NEW S,
           job' = [d \in Creations |-> IF d \in S THEN job[d] ELSE [job[d] EXCEPT !.alive = FALSE]]
    PROVE  /\ job' \in [Creations -> Jobs]
           /\ \A d \in Creations : /\ job'[d].stage = job[d].stage
                                   /\ job'[d].client = job[d].client
                                   /\ job'[d].blob = job[d].blob
                                   /\ job'[d].alive => job[d].alive
                                   /\ job'[d].alive => d \in S
<1>1. \A d \in Creations : job[d] \in Jobs
  BY DEF TypeOK
<1>2. ASSUME NEW j \in Jobs
      PROVE  LET k == [j EXCEPT !.alive = FALSE]
             IN  /\ k \in Jobs /\ k.stage = j.stage /\ k.client = j.client /\ k.blob = j.blob
                 /\ ~k.alive
  BY DEF Jobs
<1>3. ASSUME NEW d \in Creations
      PROVE  /\ job'[d] \in Jobs /\ job'[d].stage = job[d].stage
             /\ job'[d].client = job[d].client /\ job'[d].blob = job[d].blob
             /\ job'[d].alive => job[d].alive
             /\ job'[d].alive => d \in S
  <2>1. CASE d \in S
    BY <1>1, <2>1
  <2>2. CASE d \notin S
    <3>1. job'[d] = [job[d] EXCEPT !.alive = FALSE]
      BY <2>2
    <3> QED BY <1>1, <1>2, <3>1
  <2> QED BY <2>1, <2>2
<1> QED BY <1>3

LEMMA CancelAll ==
    ASSUME TypeOK, job' = [d \in Creations |-> [job[d] EXCEPT !.alive = FALSE]]
    PROVE  /\ job' \in [Creations -> Jobs]
           /\ \A d \in Creations : /\ job'[d].stage = job[d].stage
                                   /\ job'[d].client = job[d].client
                                   /\ job'[d].blob = job[d].blob
                                   /\ ~job'[d].alive
<1>1. \A d \in Creations : job[d] \in Jobs /\ job'[d] = [job[d] EXCEPT !.alive = FALSE]
  BY DEF TypeOK
<1>2. ASSUME NEW j \in Jobs
      PROVE  LET k == [j EXCEPT !.alive = FALSE]
             IN  /\ k \in Jobs /\ k.stage = j.stage /\ k.client = j.client /\ k.blob = j.blob
                 /\ ~k.alive
  BY DEF Jobs
<1> QED BY <1>1, <1>2

LEMMA CancelSaves ==
    ASSUME TypeOK, save' = [t \in Taps |-> [save[t] EXCEPT !.alive = FALSE]]
    PROVE  /\ save' \in [Taps -> Saves]
           /\ \A t \in Taps : /\ ~save'[t].alive /\ save'[t].stage = save[t].stage
                              /\ save'[t].client = save[t].client
<1>1. \A t \in Taps : save[t] \in Saves /\ save'[t] = [save[t] EXCEPT !.alive = FALSE]
  BY DEF TypeOK
<1>2. ASSUME NEW s \in Saves
      PROVE  LET k == [s EXCEPT !.alive = FALSE]
             IN  k \in Saves /\ k.stage = s.stage /\ k.client = s.client /\ ~k.alive
  BY DEF Saves
<1> QED BY <1>1, <1>2

\* The next stage of a confirmation.
LEMMA SaveFacts ==
    ASSUME TypeOK, NEW t \in Taps, NEW to \in {"launched", "encrypted", "stored", "ended"},
           save' = [save EXCEPT ![t].stage = to]
    PROVE  /\ save' \in [Taps -> Saves] /\ save'[t].stage = to
           /\ save'[t].client = save[t].client /\ (save'[t].alive <=> save[t].alive)
           /\ \A u \in Taps : u # t => save'[u] = save[u]
<1> DEFINE s == [save[t] EXCEPT !.stage = to]
<1>1. save \in [Taps -> Saves] /\ save[t] \in Saves
  BY DEF TypeOK
<1>2. /\ s \in Saves /\ s.stage = to /\ s.client = save[t].client
      /\ (s.alive <=> save[t].alive)
  BY <1>1 DEF Saves
<1>3. save' = [save EXCEPT ![t] = s]
  OBVIOUS
<1> HIDE DEF s
<1> QED BY <1>1, <1>2, <1>3

\* What a death of the process leaves of the coroutines.
LEMMA DieFacts ==
    ASSUME TypeOK, NEW screen, Die(screen)
    PROVE  /\ client' \in Clients /\ client' = 1
           /\ job' \in [Creations -> Jobs] /\ save' \in [Taps -> Saves]
           /\ \A c \in Creations : /\ ~job'[c].alive /\ job'[c].client = 1
                                   /\ job'[c].stage \in {"none", "ended"}
                                   /\ job'[c].stage = "none" => job[c].stage = "none"
           /\ \A t \in Taps : ~save'[t].alive /\ save'[t].stage \in {"none", "ended"}
           /\ creatingData' = [n \in Clients |-> None]
           /\ viewModel' = [s \in {"setup", "confirm"} |-> 1]
<1>1. 1 \in Clients /\ client' = 1
  <2>1. 1 \in Clients
    BY VaultConstants DEF Clients
  <2> QED BY <2>1 DEF Die
<1>2. /\ \A c \in Creations : job[c] \in Jobs
      /\ \A t \in Taps : save[t] \in Saves
  BY DEF TypeOK
<1>3. ASSUME NEW c \in Creations
      PROVE  /\ job'[c] \in Jobs /\ ~job'[c].alive /\ job'[c].client = 1
             /\ job'[c].stage \in {"none", "ended"}
             /\ job'[c].stage = "none" => job[c].stage = "none"
  <2> DEFINE st == IF job[c].stage = "none" THEN job[c].stage ELSE "ended"
             j == [job[c] EXCEPT !.alive = FALSE, !.client = 1, !.blob = None, !.stage = st]
  <2>1. job'[c] = j
    BY DEF Die
  <2>2. st \in {"none", "ended"} /\ (st = "none" => job[c].stage = "none")
    OBVIOUS
  <2> HIDE DEF st
  <2>3. j \in Jobs /\ ~j.alive /\ j.client = 1 /\ j.stage = st
    BY <1>1, <1>2, <2>2 DEF Jobs, Stages, Orphan
  <2> QED BY <2>1, <2>2, <2>3
<1>4. ASSUME NEW t \in Taps
      PROVE  /\ save'[t] \in Saves /\ ~save'[t].alive /\ save'[t].stage \in {"none", "ended"}
  <2> DEFINE st == IF save[t].stage = "none" THEN save[t].stage ELSE "ended"
             j == [save[t] EXCEPT !.alive = FALSE, !.client = 1, !.stage = st]
  <2>1. save'[t] = j
    BY DEF Die
  <2>2. st \in {"none", "ended"}
    OBVIOUS
  <2> HIDE DEF st
  <2>3. j \in Saves /\ ~j.alive /\ j.stage = st
    BY <1>1, <1>2, <2>2 DEF Saves
  <2> QED BY <2>1, <2>2, <2>3
<1>5. job' = [c \in Creations |-> job'[c]] /\ save' = [t \in Taps |-> save'[t]]
  BY DEF Die
<1>6. job' \in [Creations -> Jobs] /\ save' \in [Taps -> Saves]
  BY <1>3, <1>4, <1>5
<1> QED BY <1>1, <1>3, <1>4, <1>6 DEF Die

LEMMA TypeInit == Init => TypeInv
<1> SUFFICES ASSUME Init PROVE TypeInv
  OBVIOUS
<1>1. 1 \in Clients
  BY VaultConstants DEF Clients
<1>2. job \in [Creations -> Jobs] /\ save \in [Taps -> Saves]
  BY <1>1 DEF Init, Jobs, Saves, Stages, Orphan
<1>3. store \in PasscodeData
  BY DEF Init, PasscodeData, NoData, Orphan
<1>4. /\ creatingData \in [Clients -> Orphan(Kept)] /\ viewModel \in [{"setup", "confirm"} -> Clients]
      /\ client \in Clients
  BY <1>1 DEF Init, Orphan
<1>5. /\ {bioAlias, pinAlias, wallet, shown} \subseteq Orphan(Creations)
      /\ edits \subseteq PasscodeData /\ phase \in Phases
      /\ {chosen, typed} \subseteq Orphan(Passcodes)
      /\ entered \in Orphan(Passcodes \cup {Short})
      /\ promise \in Orphan([key : Creations, pass : Passcodes])
      /\ deaths \in 0..MaxDeaths /\ failures \in 0..MaxFailures
  BY VaultConstants DEF Init, Orphan, Phases
<1>6. lost \in BOOLEAN
  BY DEF Init
<1>7. ScreenInv
  <2>1. \A t \in Taps : ~save[t].alive
    BY DEF Init
  <2> QED BY <2>1 DEF Init, ScreenInv, InSetup
<1> QED BY <1>2, <1>3, <1>4, <1>5, <1>6, <1>7 DEF TypeInv, TypeOK

\* Edits have the type of what is stored.
LEMMA EditTypes ==
    /\ \A b \in BioBlobs : [NoData EXCEPT !.bio = b] \in PasscodeData
    /\ \A c \in Creations : [NoData EXCEPT !.pub = c] \in PasscodeData
    /\ \A b \in PinBlobs, t \in Taps : [NoData EXCEPT !.pin = b, !.salt = t] \in PasscodeData
    /\ [NoData EXCEPT !.bio = None] \in PasscodeData
BY DEF NoData, PasscodeData, Orphan

\* A step of a creation in which it does no more than go on.
LEMMA JobTyped ==
    ASSUME TypeInv, job' \in [Creations -> Jobs],
           UNCHANGED <<client, screens, save, promise, lost, deaths, store>>,
           {bioAlias', pinAlias', wallet'} \subseteq Orphan(Creations),
           creatingData' \in [Clients -> Orphan(Kept)], edits' \subseteq PasscodeData,
           failures' \in 0..MaxFailures
    PROVE  TypeInv'
<1>1. TypeOK'
  BY DEF TypeInv, TypeOK, screens
<1>2. ScreenInv'
  BY DEF TypeInv, ScreenInv, InSetup, screens
<1> QED BY <1>1, <1>2 DEF TypeInv

LEMMA StartTyped == ASSUME TypeInv, NEW c \in Creations, Start(c) PROVE TypeInv'
<1>1. job' \in [Creations -> Jobs]
  BY StartFacts DEF TypeInv
<1>2. /\ promise' = None /\ lost' = FALSE
      /\ UNCHANGED <<keystore, client, creatingData, edits, store, wallet, screens, save,
                     deaths, failures>>
  BY DEF Start
<1>3. promise' \in Orphan([key : Creations, pass : Passcodes])
  BY <1>2 DEF Orphan
<1>4. lost' \in BOOLEAN
  BY <1>2
<1>5. TypeOK'
  BY <1>1, <1>2, <1>3, <1>4 DEF TypeInv, TypeOK, keystore, screens
<1>6. ScreenInv'
  BY <1>2 DEF TypeInv, ScreenInv, InSetup, screens
<1> QED BY <1>5, <1>6 DEF TypeInv

LEMMA JobStepsTyped ==
    ASSUME TypeInv, NEW c \in Creations,
           \/ NewBioKey(c) \/ NewPinKey(c) \/ CreateFails(c) \/ SaveWallet(c)
           \/ FinishBio(c) \/ FinishPin(c)
    PROVE  TypeInv'
<1>1. TypeOK
  BY DEF TypeInv
<1>2. /\ {bioAlias, pinAlias, wallet} \subseteq Orphan(Creations) /\ c \in Orphan(Creations)
      /\ creatingData \in [Clients -> Orphan(Kept)] /\ edits \subseteq PasscodeData
      /\ failures \in 0..MaxFailures /\ job[c] \in Jobs
  BY <1>1 DEF TypeOK, Orphan
<1>3. CASE NewBioKey(c)
  <2>1. Step(c, "started", "bioKey") /\ "bioKey" \in Stages
    BY <1>3 DEF NewBioKey, Stages
  <2>2. job' \in [Creations -> Jobs]
    BY <1>1, <2>1, StepFacts
  <2> QED BY <1>2, <1>3, <2>2, JobTyped DEF NewBioKey, history
<1>4. CASE NewPinKey(c)
  <2>1. Step(c, "bioKey", "keys") /\ "keys" \in Stages
    BY <1>4 DEF NewPinKey, Stages
  <2>2. job' \in [Creations -> Jobs]
    BY <1>1, <2>1, StepFacts
  <2>3. creatingData' \in [Clients -> Orphan(Kept)]
    BY <1>2, <1>4 DEF NewPinKey, Orphan
  <2> QED BY <1>2, <1>4, <2>2, <2>3, JobTyped DEF NewPinKey, history
<1>5. CASE CreateFails(c)
  <2>1. Step(c, "keys", "ended") /\ "ended" \in Stages
    BY <1>5 DEF CreateFails, Stages
  <2>2. job' \in [Creations -> Jobs]
    BY <1>1, <2>1, StepFacts
  <2>3. failures' \in 0..MaxFailures
    BY <1>2, <1>5, VaultConstants DEF CreateFails
  <2> QED BY <1>2, <1>5, <2>2, <2>3, JobTyped DEF CreateFails, keystore
<1>6. CASE SaveWallet(c)
  <2>1. Step(c, "keys", "saved") /\ "saved" \in Stages
    BY <1>6 DEF SaveWallet, Stages
  <2>2. job' \in [Creations -> Jobs]
    BY <1>1, <2>1, StepFacts
  <2>3. failures' \in 0..MaxFailures /\ wallet' \in Orphan(Creations)
    BY <1>2, <1>6, VaultConstants DEF SaveWallet
  <2> QED BY <1>2, <1>6, <2>2, <2>3, JobTyped DEF SaveWallet, keystore
<1>7. CASE FinishBio(c)
  <2>1. job' \in [Creations -> Jobs]
    BY <1>1, <1>7, FinishBioFacts
  <2> QED BY <1>2, <1>7, <2>1, JobTyped DEF FinishBio, keystore, history
<1>8. CASE FinishPin(c)
  <2>1. Step(c, "bioDone", "finished") /\ "finished" \in Stages
    BY <1>8 DEF FinishPin, Stages
  <2>2. job' \in [Creations -> Jobs]
    BY <1>1, <2>1, StepFacts
  <2>3. [key |-> c, layers |-> << >>] \in Orphan(Kept)
    BY DEF Kept, Orphan
  <2>4. creatingData' \in [Clients -> Orphan(Kept)]
    BY <1>2, <1>8, <2>3 DEF FinishPin
  <2>5. job[c].blob \in BioBlobs \/ job[c].blob = None
    BY <1>2 DEF Jobs, Orphan
  <2>6. [NoData EXCEPT !.bio = job[c].blob] \in PasscodeData
    BY <2>5, EditTypes
  <2>7. edits' \subseteq edits \cup {[NoData EXCEPT !.bio = job[c].blob]}
    BY <1>8 DEF FinishPin, Launched
  <2>8. edits' \subseteq PasscodeData
    BY <1>2, <2>6, <2>7
  <2> QED BY <1>2, <1>8, <2>2, <2>4, <2>8, JobTyped DEF FinishPin, keystore, history
<1> QED BY <1>3, <1>4, <1>5, <1>6, <1>7, <1>8

\* A step of the screens.
LEMMA ScreenTyped ==
    ASSUME TypeInv, ScreenInv',
           UNCHANGED <<bioAlias, pinAlias, wallet, store, lost, deaths, failures>>,
           shown' \in Orphan(Creations), client' \in Clients, phase' \in Phases,
           creatingData' \in [Clients -> Orphan(Kept)], job' \in [Creations -> Jobs],
           edits' \subseteq PasscodeData, save' \in [Taps -> Saves],
           chosen' \in Orphan(Passcodes), typed' \in Orphan(Passcodes),
           entered' \in Orphan(Passcodes \cup {Short}),
           viewModel' \in [{"setup", "confirm"} -> Clients],
           promise' \in Orphan([key : Creations, pass : Passcodes])
    PROVE  TypeInv'
BY DEF TypeInv, TypeOK

\* The parts of TypeInv.
LEMMA Parts ==
    ASSUME TypeInv
    PROVE  /\ shown \in Orphan(Creations) /\ client \in Clients /\ phase \in Phases
           /\ bioAlias \in Orphan(Creations) /\ pinAlias \in Orphan(Creations)
           /\ creatingData \in [Clients -> Orphan(Kept)] /\ job \in [Creations -> Jobs]
           /\ edits \subseteq PasscodeData /\ save \in [Taps -> Saves] /\ store \in PasscodeData
           /\ chosen \in Orphan(Passcodes) /\ typed \in Orphan(Passcodes)
           /\ entered \in Orphan(Passcodes \cup {Short})
           /\ viewModel \in [{"setup", "confirm"} -> Clients]
           /\ promise \in Orphan([key : Creations, pass : Passcodes])
           /\ \A t \in Taps : save[t] \in Saves
           /\ \A c \in Creations : job[c] \in Jobs
BY DEF TypeInv, TypeOK

LEMMA ShowTyped == ASSUME TypeInv, NEW c \in Creations, Show(c) PROVE TypeInv'
<1>1. job' \in [Creations -> Jobs]
  BY CancelFacts DEF Show, TypeInv
<1>2. c # None /\ c \in Orphan(Creations) /\ "perfect" \in Phases
  BY VaultConstants DEF Orphan, Phases
<1>3. ScreenInv'
  BY <1>2 DEF TypeInv, ScreenInv, InSetup, Show
<1> QED BY <1>1, <1>2, <1>3, Parts, ScreenTyped DEF Show, keystore, history

LEMMA ClickTyped == ASSUME TypeInv, ClickSetPasscode PROVE TypeInv'
<1>1. shown \in Creations
  BY Parts DEF TypeInv, ScreenInv, InSetup, ClickSetPasscode, Orphan
<1>2. edits' \subseteq edits \cup {[NoData EXCEPT !.pub = shown]}
  BY DEF ClickSetPasscode, Launched
<1>3. edits' \subseteq PasscodeData
  BY <1>1, <1>2, EditTypes, Parts
<1>4. /\ viewModel' \in [{"setup", "confirm"} -> Clients] /\ "setup" \in Phases
      /\ typed' \in Orphan(Passcodes)
  BY Parts DEF ClickSetPasscode, Orphan, Phases
<1>5. ScreenInv'
  BY DEF TypeInv, ScreenInv, InSetup, ClickSetPasscode
<1> QED BY <1>3, <1>4, <1>5, Parts, ScreenTyped DEF ClickSetPasscode, keystore, history

\* What the passcode opens can be kept.
LEMMA RefillType ==
    ASSUME TypeInv, store.pin # None
    PROVE  [key |-> store.pin.key, layers |-> << >>] \in Kept /\ store.pin \in PinBlobs
<1>1. store.pin \in PinBlobs
  BY Parts DEF PasscodeData, Orphan
<1>2. store.pin.key \in Creations
  BY <1>1 DEF PinBlobs
<1> QED BY <1>1, <1>2 DEF Kept

LEMMA TypePasscodeTyped == ASSUME TypeInv, NEW p \in Passcodes, TypePasscode(p) PROVE TypeInv'
<1> DEFINE k == [key |-> store.pin.key, layers |-> << >>]
<1>1. creatingData' = creatingData
        \/ (store.pin # None /\ creatingData' = [creatingData EXCEPT ![viewModel.setup] = k])
  BY DEF TypePasscode, Opens
<1>2. store.pin # None => k \in Orphan(Kept)
  BY RefillType DEF Orphan
<1> HIDE DEF k
<1>3. creatingData' \in [Clients -> Orphan(Kept)]
  BY <1>1, <1>2, Parts
<1>4. typed' \in Orphan(Passcodes)
  BY DEF TypePasscode, Orphan
<1>5. ScreenInv'
  BY DEF TypeInv, ScreenInv, InSetup, TypePasscode
<1> QED BY <1>3, <1>4, <1>5, Parts, ScreenTyped DEF TypePasscode, keystore, history

LEMMA GoConfirmTyped == ASSUME TypeInv, GoConfirm PROVE TypeInv'
<1>1. /\ viewModel' \in [{"setup", "confirm"} -> Clients] /\ "confirm" \in Phases
      /\ entered' \in Orphan(Passcodes \cup {Short}) /\ chosen' \in Orphan(Passcodes)
  BY Parts DEF GoConfirm, Orphan, Phases
<1>2. ScreenInv'
  BY DEF TypeInv, ScreenInv, InSetup, GoConfirm
<1> QED BY <1>1, <1>2, Parts, ScreenTyped DEF GoConfirm, keystore, history

LEMMA TypeAgainTyped == ASSUME TypeInv, NEW t \in Taps, TypeAgain(t) PROVE TypeInv'
<1> DEFINE s == [stage |-> "launched", client |-> viewModel.confirm, alive |-> TRUE]
<1>1. s \in Saves
  BY Parts DEF Saves
<1>2. save' = [save EXCEPT ![t] = s] /\ entered' = chosen /\ phase = "confirm"
  BY DEF TypeAgain
<1> HIDE DEF s
<1>3. save' \in [Taps -> Saves]
  BY <1>1, <1>2, Parts
<1>4. entered' \in Orphan(Passcodes \cup {Short})
  BY <1>2, Parts DEF Orphan
<1>5. ScreenInv'
  BY <1>2 DEF TypeInv, ScreenInv, InSetup, TypeAgain
<1> QED BY <1>3, <1>4, <1>5, Parts, ScreenTyped DEF TypeAgain, keystore, history

LEMMA DeleteDigitTyped == ASSUME TypeInv, DeleteDigit PROVE TypeInv'
<1>1. entered' \in Orphan(Passcodes \cup {Short}) /\ Short # None
  BY VaultConstants DEF DeleteDigit, Orphan
<1>2. ScreenInv'
  BY <1>1 DEF TypeInv, ScreenInv, InSetup, DeleteDigit
<1> QED BY <1>1, <1>2, Parts, ScreenTyped DEF DeleteDigit, keystore, history

\* What SaveEncrypt does to the kept data.
LEMMA EncryptFacts ==
    ASSUME TypeInv, NEW t \in Taps, SaveEncrypt(t)
    PROVE  LET n == save[t].client
               k == creatingData[n]
               l == [pass |-> entered, salt |-> t]
           IN  /\ n \in Clients /\ k \in Kept /\ l \in Layers
               /\ creatingData'[n] = [k EXCEPT !.layers = Append(k.layers, l)]
               /\ creatingData'[n] \in Kept
               /\ \A m \in Clients : m # n => creatingData'[m] = creatingData[m]
               /\ creatingData' \in [Clients -> Orphan(Kept)]
<1> DEFINE n == save[t].client
           k == creatingData[n]
           l == [pass |-> entered, salt |-> t]
           k2 == [k EXCEPT !.layers = Append(k.layers, l)]
<1>1. n \in Clients /\ save[t].alive /\ k # None
  BY Parts DEF Saves, SaveEncrypt
<1>2. k \in Kept
  BY <1>1, Parts DEF Orphan
<1>3. entered \in Passcodes \cup {Short}
  BY <1>1, Parts DEF TypeInv, ScreenInv, Orphan
<1>4. l \in Layers
  BY <1>3 DEF Layers
<1>5. Append(k.layers, l) \in Seq(Layers)
  BY <1>2, <1>4 DEF Kept
<1>6. creatingData' = [creatingData EXCEPT ![n] = k2]
  BY DEF SaveEncrypt
<1> HIDE DEF l
<1>7. k2 \in Kept
  BY <1>2, <1>5 DEF Kept
<1> HIDE DEF k2, n
<1>8. creatingData' \in [Clients -> Orphan(Kept)] /\ creatingData'[n] = k2
      /\ \A m \in Clients : m # n => creatingData'[m] = creatingData[m]
  BY <1>1, <1>6, <1>7, Parts DEF Orphan
<1> QED BY <1>1, <1>2, <1>4, <1>7, <1>8 DEF k2, l, n

LEMMA SaveEncryptTyped == ASSUME TypeInv, NEW t \in Taps, SaveEncrypt(t) PROVE TypeInv'
<1>1. creatingData' \in [Clients -> Orphan(Kept)]
  BY EncryptFacts
<1>2. save' = [save EXCEPT ![t].stage = "encrypted"]
  BY DEF SaveEncrypt
<1>3. /\ save' \in [Taps -> Saves] /\ (save'[t].alive <=> save[t].alive)
      /\ \A u \in Taps : u # t => save'[u] = save[u]
  BY <1>2, SaveFacts DEF TypeInv
<1>4. ScreenInv'
  BY <1>3 DEF TypeInv, ScreenInv, InSetup, SaveEncrypt, screens
<1> QED BY <1>1, <1>3, <1>4, Parts, ScreenTyped DEF SaveEncrypt, keystore, screens, history

LEMMA SaveStoreTyped == ASSUME TypeInv, NEW t \in Taps, SaveStore(t) PROVE TypeInv'
<1> DEFINE kept == creatingData[save[t].client]
           pin == [alias |-> pinAlias, key |-> kept.key, layers |-> kept.layers]
           e == [NoData EXCEPT !.pin = pin, !.salt = t]
<1>1. save' = [save EXCEPT ![t].stage = "stored"] /\ kept # None
      /\ edits' = Launched(save[t].client, e)
  BY DEF SaveStore
<1>2. kept \in Kept
  BY <1>1, Parts DEF Saves, Orphan
<1>3. pin \in PinBlobs
  BY <1>2, Parts DEF Kept, PinBlobs
<1>4. e \in PasscodeData
  BY <1>3, EditTypes
<1> HIDE DEF e
<1>5. edits' \subseteq PasscodeData
  BY <1>1, <1>4, Parts DEF Launched
<1>6. /\ save' \in [Taps -> Saves] /\ (save'[t].alive <=> save[t].alive)
      /\ \A u \in Taps : u # t => save'[u] = save[u]
  BY <1>1, SaveFacts DEF TypeInv
<1>7. ScreenInv'
  BY <1>6 DEF TypeInv, ScreenInv, InSetup, SaveStore, screens
<1> QED BY <1>5, <1>6, <1>7, Parts, ScreenTyped DEF SaveStore, keystore, screens, history

LEMMA FinishTyped == ASSUME TypeInv, Finish PROVE TypeInv'
<1>1. shown \in Creations /\ chosen \in Passcodes
  BY Parts DEF Finish, TypeInv, ScreenInv, InSetup, Orphan
<1>2. promise' \in Orphan([key : Creations, pass : Passcodes]) /\ "ready" \in Phases
  BY <1>1 DEF Finish, Orphan, Phases
<1>4. job' \in [Creations -> Jobs]
  BY CancelAll DEF Finish, TypeInv
<1>5. save' \in [Taps -> Saves] /\ \A t \in Taps : ~save'[t].alive
  BY CancelSaves DEF Finish, TypeInv
<1>6. ScreenInv'
  BY <1>5 DEF ScreenInv, InSetup, Finish
<1> QED BY <1>2, <1>4, <1>5, <1>6, Parts, ScreenTyped DEF Finish, keystore

\* What going back changes.
LEMMA BackFacts ==
    ASSUME TypeInv, Back
    PROVE  /\ job' \in [Creations -> Jobs] /\ save' \in [Taps -> Saves]
           /\ UNCHANGED <<bioAlias, pinAlias, client, creatingData, edits, store, wallet>>
           /\ UNCHANGED <<shown, chosen, viewModel, typed, entered, promise, lost, deaths, failures>>
           /\ \A c \in Creations : /\ job'[c].stage = job[c].stage
                                   /\ job'[c].client = job[c].client
                                   /\ job'[c].blob = job[c].blob
                                   /\ job'[c].alive => job[c].alive
           /\ \/ phase = "start" /\ phase' = "start" /\ save' = save
              \/ phase = "perfect" /\ phase' = "start" /\ save' = save
              \/ phase = "setup" /\ phase' = "perfect" /\ save' = save
              \/ /\ phase = "confirm" /\ phase' = "setup"
                 /\ "back" \in Haste \/ \A t \in Taps : ~SaveRuns(t)
                 /\ \A t \in Taps : /\ ~save'[t].alive /\ save'[t].stage = save[t].stage
                                    /\ save'[t].client = save[t].client
<1>1. /\ UNCHANGED <<bioAlias, pinAlias, client, creatingData, edits, store, wallet>>
      /\ UNCHANGED <<shown, chosen, viewModel, typed, entered, promise, lost, deaths, failures>>
  BY DEF Back, keystore, history
<1>2. CASE phase = "start"
  <2>1. /\ job' = [c \in Creations |-> [job[c] EXCEPT !.alive = FALSE]]
        /\ UNCHANGED <<phase, save>>
    BY <1>2 DEF Back
  <2> QED BY <1>1, <1>2, <2>1, CancelAll, Parts DEF TypeInv
<1>3. CASE phase = "perfect" \/ phase = "setup"
  BY <1>1, <1>3, Parts DEF Back
<1>4. CASE phase = "confirm"
  <2>1. /\ save' = [t \in Taps |-> [save[t] EXCEPT !.alive = FALSE]]
        /\ UNCHANGED job /\ phase' = "setup"
        /\ "back" \in Haste \/ \A t \in Taps : ~SaveRuns(t)
    BY <1>4 DEF Back
  <2>2. /\ save' \in [Taps -> Saves]
        /\ \A t \in Taps : /\ ~save'[t].alive /\ save'[t].stage = save[t].stage
                           /\ save'[t].client = save[t].client
    BY <2>1, CancelSaves DEF TypeInv
  <2>3. job' \in [Creations -> Jobs]
    BY <2>1, Parts
  <2> QED BY <1>1, <1>4, <2>1, <2>2, <2>3
<1> QED BY <1>2, <1>3, <1>4 DEF Back

LEMMA BackTyped == ASSUME TypeInv, Back PROVE TypeInv'
<1>1. phase' \in Phases
  BY BackFacts DEF Phases
<1>2. ScreenInv'
  BY BackFacts DEF TypeInv, ScreenInv, InSetup
<1> QED BY <1>1, <1>2, BackFacts, Parts, ScreenTyped

\* What the DataStore writes.
LEMMA ApplyFacts ==
    ASSUME TypeInv, NEW e \in edits, ApplyEdit(e)
    PROVE  /\ store' \in PasscodeData /\ e \in PasscodeData
           /\ store'.pub = IF e.pub = None THEN store.pub ELSE e.pub
           /\ store'.pin = IF e.pin = None THEN store.pin ELSE e.pin
           /\ store'.bio = IF e.bio = None THEN store.bio ELSE e.bio
           /\ store'.salt = IF e.salt = None THEN store.salt ELSE e.salt
           /\ edits' = edits \ {e}
           /\ UNCHANGED <<keystore, client, creatingData, job, wallet, screens, save, history>>
<1>1. e \in PasscodeData /\ store \in PasscodeData
  BY Parts
<1>2. DOMAIN store = {"pub", "pin", "bio", "salt"}
  BY <1>1 DEF PasscodeData
<1>3. store' = [f \in DOMAIN store |-> IF e[f] = None THEN store[f] ELSE e[f]]
  BY DEF ApplyEdit
<1>4. store' = [pub |-> IF e.pub = None THEN store.pub ELSE e.pub,
                pin |-> IF e.pin = None THEN store.pin ELSE e.pin,
                bio |-> IF e.bio = None THEN store.bio ELSE e.bio,
                salt |-> IF e.salt = None THEN store.salt ELSE e.salt]
  BY <1>2, <1>3
<1>5. store' \in PasscodeData
  BY <1>1, <1>4 DEF PasscodeData
<1> QED BY <1>1, <1>4, <1>5 DEF ApplyEdit

LEMMA ApplyTyped == ASSUME TypeInv, NEW e \in edits, ApplyEdit(e) PROVE TypeInv'
<1>1. store' \in PasscodeData /\ edits' \subseteq edits
      /\ UNCHANGED <<keystore, client, creatingData, job, wallet, screens, save, history>>
  BY ApplyFacts
<1>2. TypeOK'
  BY <1>1 DEF TypeInv, TypeOK, keystore, screens, history
<1>3. ScreenInv'
  BY <1>1 DEF TypeInv, ScreenInv, InSetup, screens
<1> QED BY <1>2, <1>3 DEF TypeInv

LEMMA TurnTyped == ASSUME TypeInv, Turn PROVE TypeInv'
<1>1. client' \in Clients
  BY Parts, VaultConstants DEF Turn, Clients
<1>2. job' \in [Creations -> Jobs]
  BY CancelFacts DEF Turn, TypeInv
<1>3. ScreenInv' /\ edits' \subseteq PasscodeData
  BY Parts DEF TypeInv, ScreenInv, InSetup, Turn, screens
<1> QED BY <1>1, <1>2, <1>3, Parts, ScreenTyped DEF Turn, keystore, screens, history

LEMMA DieTyped ==
    ASSUME TypeInv, NEW screen \in {phase, FirstScreen}, Die(screen), deaths' \in 0..MaxDeaths
    PROVE  TypeInv'
<1>1. screen \in Phases /\ (screen # phase => screen \notin {"perfect", "setup", "confirm"})
  BY Parts DEF FirstScreen, Phases
<1>2. /\ client' \in Clients /\ job' \in [Creations -> Jobs] /\ save' \in [Taps -> Saves]
      /\ \A t \in Taps : ~save'[t].alive
      /\ creatingData' = [n \in Clients |-> None]
      /\ viewModel' = [s \in {"setup", "confirm"} |-> 1] /\ client' = 1
  BY DieFacts DEF TypeInv
<1>3. /\ creatingData' \in [Clients -> Orphan(Kept)]
      /\ viewModel' \in [{"setup", "confirm"} -> Clients]
  BY <1>2 DEF Orphan
<1>4. /\ edits' = {} /\ phase' = screen /\ typed' = None /\ entered' = None
      /\ promise' \in {promise, None}
      /\ UNCHANGED <<keystore, store, wallet, shown, chosen, failures>>
  BY DEF Die
<1>5. lost' \in BOOLEAN
  BY DEF Die, TypeInv, TypeOK
<1>6. ScreenInv'
  BY <1>1, <1>2, <1>4 DEF TypeInv, ScreenInv, InSetup
<1>7. /\ typed' \in Orphan(Passcodes) /\ entered' \in Orphan(Passcodes \cup {Short})
      /\ promise' \in Orphan([key : Creations, pass : Passcodes])
  BY <1>4, Parts DEF Orphan
<1>8. TypeOK'
  BY <1>1, <1>2, <1>3, <1>4, <1>5, <1>7 DEF TypeInv, TypeOK, keystore
<1> QED BY <1>6, <1>8 DEF TypeInv

LEMMA TypeStep == TypeInv /\ [Next]_vars => TypeInv'
<1> SUFFICES ASSUME TypeInv, [Next]_vars PROVE TypeInv'
  OBVIOUS
<1>1. CASE UNCHANGED vars
  BY <1>1 DEF vars, keystore, screens, history, TypeInv, TypeOK, ScreenInv, InSetup
<1>2. ASSUME NEW c \in Creations, Start(c) PROVE TypeInv'
  BY <1>2, StartTyped
<1>3. ASSUME NEW c \in Creations,
             \/ NewBioKey(c) \/ NewPinKey(c) \/ CreateFails(c) \/ SaveWallet(c)
             \/ FinishBio(c) \/ FinishPin(c)
      PROVE  TypeInv'
  BY <1>3, JobStepsTyped
<1>4. ASSUME NEW c \in Creations, Show(c) PROVE TypeInv'
  BY <1>4, ShowTyped
<1>5. ASSUME NEW p \in Passcodes, TypePasscode(p) PROVE TypeInv'
  BY <1>5, TypePasscodeTyped
<1>6. ASSUME NEW t \in Taps, TypeAgain(t) \/ SaveEncrypt(t) \/ SaveStore(t) PROVE TypeInv'
  BY <1>6, TypeAgainTyped, SaveEncryptTyped, SaveStoreTyped
<1>7. ASSUME NEW t \in Taps, SaveCrashes(t) PROVE TypeInv'
  BY <1>7, DieTyped DEF SaveCrashes, TypeInv, TypeOK
<1>8. CASE ClickSetPasscode
  BY <1>8, ClickTyped
<1>9. CASE GoConfirm
  BY <1>9, GoConfirmTyped
<1>10. CASE DeleteDigit
  BY <1>10, DeleteDigitTyped
<1>11. CASE Finish
  BY <1>11, FinishTyped
<1>12. CASE Back
  BY <1>12, BackTyped
<1>13. CASE Turn
  BY <1>13, TurnTyped
<1>14. CASE Restart
  <2>1. deaths' \in 0..MaxDeaths
    BY <1>14, VaultConstants DEF Restart, TypeInv, TypeOK
  <2> QED BY <1>14, <2>1, DieTyped DEF Restart
<1>15. CASE Edit
  BY <1>15, ApplyTyped DEF Edit
<1> QED
  BY <1>1, <1>2, <1>3, <1>4, <1>5, <1>6, <1>7, <1>8, <1>9, <1>10, <1>11, <1>12, <1>13,
     <1>14, <1>15 DEF Next

\* The type invariant, and that a passcode being saved was entered on the screen
\* shown, for a key and after a choice of passcode (the routes' arguments).
THEOREM TypeHolds == Spec => [](TypeOK /\ ScreenInv)
<1>1. Init => TypeInv
  BY TypeInit
<1>2. TypeInv /\ [Next]_vars => TypeInv'
  BY TypeStep
<1>3. TypeInv => TypeOK /\ ScreenInv
  BY DEF TypeInv
<1> QED BY <1>1, <1>2, <1>3, PTL DEF Spec

-----------------------------------------------------------------------------
(* A user in haste                                                         *)

\* The button that creates or imports is not pressed while something is under
\* way; the user may hurry everywhere else, and turn the device at any time.
Waits == "start" \notin Haste

LEMMA DoorInit == Init => DoorInv
<1> SUFFICES ASSUME Init PROVE DoorInv
  OBVIOUS
<1>1. /\ \A c \in Creations : job[c].stage = "none" /\ job[c].client = 1
      /\ \A t \in Taps : save[t].stage = "none" /\ ~save[t].alive
  BY DEF Init
<1>2. /\ \A c \in Creations : ~JobRuns(c) /\ ~Unfinished(c)
      /\ \A t \in Taps : ~SaveRuns(t)
  BY <1>1 DEF JobRuns, Unfinished, SaveRuns
<1>3. client = 1 /\ viewModel.setup = 1 /\ \A n \in Clients : creatingData[n] = None
  BY DEF Init
<1>4. 1 \in Clients
  BY VaultConstants DEF Clients
<1>5. RecentInv
  BY <1>1, <1>2, <1>3, <1>4 DEF RecentInv
<1>6. OwnInv
  BY DEF Init, OwnInv, BioOwn, PinOwn, NoData
<1>7. PairInv
  BY <1>2 DEF PairInv
<1> QED BY <1>5, <1>6, <1>7 DEF DoorInv

\* The blobs there are stay their creation's own.
LEMMA OwnStays ==
    ASSUME TypeInv, OwnInv, store' = store,
           \A e \in edits' : e \in edits \/ (e.bio = None /\ e.pin = None),
           \A d \in Creations : job[d].stage \in Done =>
               /\ job'[d].stage \in Done
               /\ d = bioAlias' => \/ bioAlias' = bioAlias /\ pinAlias' = pinAlias
                                   \/ bioAlias' = pinAlias'
    PROVE  OwnInv'
<1>1. ASSUME NEW b \in Orphan(BioBlobs), BioOwn(b) PROVE BioOwn(b)'
  <2> SUFFICES ASSUME b # None
               PROVE  /\ b.alias = b.key /\ job'[b.key].stage \in Done
                      /\ b.alias = bioAlias' => pinAlias' = bioAlias'
    BY DEF BioOwn
  <2>1. b.alias = b.key /\ job[b.key].stage \in Done /\ (b.alias = bioAlias => pinAlias = bioAlias)
    BY <1>1 DEF BioOwn
  <2>2. b.key \in Creations
    BY DEF Orphan, BioBlobs
  <2> QED BY <2>1, <2>2
<1>2. store.bio \in Orphan(BioBlobs) /\ \A e \in edits : e.bio \in Orphan(BioBlobs)
  BY Parts DEF PasscodeData
<1>3. BioOwn(store.bio)'
  <2>1. PICK b \in Orphan(BioBlobs) : b = store.bio
    BY <1>2
  <2>2. BioOwn(b)'
    BY <1>1, <2>1 DEF OwnInv
  <2> QED BY <2>1, <2>2 DEF BioOwn
<1>4. ASSUME NEW e \in edits' PROVE BioOwn(e.bio)' /\ PinOwn(e.pin)'
  <2>1. CASE e \in edits
    <3>1. PICK b \in Orphan(BioBlobs) : b = e.bio
      BY <1>2, <2>1
    <3>2. BioOwn(b)'
      BY <1>1, <2>1, <3>1 DEF OwnInv
    <3> QED BY <2>1, <3>1, <3>2 DEF BioOwn, PinOwn, OwnInv
  <2>2. CASE e.bio = None /\ e.pin = None
    BY <2>2 DEF BioOwn, PinOwn
  <2> QED BY <2>1, <2>2
<1> QED BY <1>3, <1>4 DEF OwnInv, PinOwn

\* A step that makes no pair and no blob, keeps no data, and takes up no client
\* that was out of use.
LEMMA CalmStep ==
    ASSUME TypeInv, DoorInv,
           UNCHANGED <<bioAlias, pinAlias, client, creatingData, store>>,
           \A e \in edits' : e \in edits \/ (e.bio = None /\ e.pin = None),
           \A c \in Creations : /\ job'[c].stage = job[c].stage
                                /\ job'[c].client = job[c].client
                                /\ job'[c].blob = job[c].blob
                                /\ job'[c].alive => job[c].alive,
           viewModel'.setup \in {viewModel.setup, client},
           \A n \in Clients : InUse(n)' => InUse(n),
           \A c \in Creations : Unfinished(c)' =>
               phase' = "start" /\ \A t \in Taps : ~SaveRuns(t)'
    PROVE  DoorInv'
<1>1. \A c \in Creations : (JobRuns(c)' => JobRuns(c)) /\ (Unfinished(c)' => Unfinished(c))
  BY DEF JobRuns, Unfinished
<1>2. PairInv'
  BY <1>1 DEF DoorInv, PairInv
<1>3. OwnInv'
  BY OwnStays DEF DoorInv
<1>4. RecentInv'
  <2>1. client \in Nat
    BY Parts, VaultConstants DEF Clients
  <2>2. viewModel'.setup <= client' /\ \A c \in Creations : job'[c].client <= client'
    BY <2>1 DEF DoorInv, RecentInv
  <2> QED BY <1>1, <2>2 DEF DoorInv, RecentInv
<1> QED BY <1>2, <1>3, <1>4 DEF DoorInv

\* While a creation has not finished, nothing else is under way.
LEMMA RunsAlone ==
    ASSUME DoorInv, NEW c \in Creations, Unfinished(c)
    PROVE  /\ phase = "start" /\ JobRuns(c)
           /\ \A t \in Taps : ~SaveRuns(t)
           /\ \A d \in Creations : JobRuns(d) => d = c
           /\ \A n : InUse(n) => n = client
BY DEF DoorInv, PairInv, Unfinished, InUse

LEMMA StartDoor ==
    ASSUME TypeInv, DoorInv, Waits, NEW c \in Creations, Start(c) PROVE DoorInv'
<1>1. /\ phase = "start" /\ Quiet
      /\ UNCHANGED <<bioAlias, pinAlias, client, creatingData, edits, store, save>>
      /\ UNCHANGED <<phase, viewModel>>
  BY DEF Start, Waits, keystore, screens
<1>2. /\ job[c].stage = "none" /\ job'[c].stage = "started" /\ job'[c].client = client
      /\ \A d \in Creations : d # c => job'[d] = job[d]
  BY StartFacts DEF TypeInv
<1>3. /\ \A d \in Creations : d # c => ~JobRuns(d)'
      /\ \A t \in Taps : ~SaveRuns(t)'
  BY <1>1, <1>2 DEF JobRuns, SaveRuns, Quiet
<1>4. PairInv'
  BY <1>1, <1>2, <1>3 DEF PairInv, Unfinished
<1>5. OwnInv'
  BY <1>1, <1>2, OwnStays DEF DoorInv, Done
<1>6. RecentInv'
  <2>1. client \in Nat
    BY Parts, VaultConstants DEF Clients
  <2>2. viewModel'.setup <= client' /\ \A d \in Creations : job'[d].client <= client'
    BY <1>1, <1>2, <2>1 DEF DoorInv, RecentInv
  <2>3. \A d \in Creations : Unfinished(d)' => job'[d].client = client'
    BY <1>1, <1>2, <1>3 DEF Unfinished
  <2>4. \A n \in Clients : InUse(n)' => InUse(n)
    BY <1>1 DEF InUse, SaveRuns
  <2> QED BY <1>1, <2>2, <2>3, <2>4 DEF DoorInv, RecentInv
<1> QED BY <1>4, <1>5, <1>6 DEF DoorInv

\* The first key pair of a creation is made.
LEMMA NewBioKeyDoor ==
    ASSUME TypeInv, DoorInv, NEW c \in Creations, NewBioKey(c) PROVE DoorInv'
<1>1. /\ bioAlias' = c /\ job[c].alive
      /\ UNCHANGED <<pinAlias, client, creatingData, edits, store, save>>
      /\ UNCHANGED <<phase, viewModel>>
  BY DEF NewBioKey, screens
<1>2. /\ job[c].stage = "started" /\ job'[c].stage = "bioKey" /\ job'[c].client = job[c].client
      /\ \A d \in Creations : d # c => job'[d] = job[d]
  BY StepFacts DEF NewBioKey, TypeInv, Stages
<1>3. Unfinished(c)
  BY <1>1, <1>2 DEF Unfinished, JobRuns
<1>4. /\ phase = "start" /\ \A t \in Taps : ~SaveRuns(t)
      /\ \A d \in Creations : JobRuns(d) => d = c
  BY <1>3, RunsAlone
<1>5. /\ \A d \in Creations : JobRuns(d)' => d = c
      /\ \A t \in Taps : ~SaveRuns(t)'
  BY <1>1, <1>2, <1>4 DEF JobRuns, SaveRuns
<1>6. PairInv'
  BY <1>1, <1>2, <1>4, <1>5 DEF PairInv, Unfinished
<1>7. OwnInv'
  BY <1>1, <1>2, OwnStays DEF DoorInv, Done
<1>8. RecentInv'
  <2>1. \A d \in Creations : job'[d].client = job[d].client
    BY <1>2
  <2>2. \A d \in Creations : Unfinished(d)' => Unfinished(d)
    BY <1>3, <1>5 DEF Unfinished
  <2>3. \A n \in Clients : InUse(n)' => InUse(n)
    BY <1>1 DEF InUse, SaveRuns
  <2> QED BY <1>1, <2>1, <2>2, <2>3 DEF DoorInv, RecentInv
<1> QED BY <1>6, <1>7, <1>8 DEF DoorInv

\* The second key pair of a creation is made.
LEMMA NewPinKeyDoor ==
    ASSUME TypeInv, DoorInv, NEW c \in Creations, NewPinKey(c) PROVE DoorInv'
<1>1. /\ pinAlias' = c /\ creatingData' = [creatingData EXCEPT ![job[c].client] = None]
      /\ UNCHANGED <<bioAlias, client, edits, store, save>>
      /\ UNCHANGED <<phase, viewModel>>
  BY DEF NewPinKey, screens
<1>2. /\ job[c].stage = "bioKey" /\ job'[c].stage = "keys" /\ job'[c].client = job[c].client
      /\ \A d \in Creations : d # c => job'[d] = job[d]
  BY StepFacts DEF NewPinKey, TypeInv, Stages
<1>3. Unfinished(c)
  BY <1>2 DEF Unfinished, JobRuns
<1>4. /\ phase = "start" /\ JobRuns(c) /\ \A t \in Taps : ~SaveRuns(t)
      /\ \A d \in Creations : JobRuns(d) => d = c
  BY <1>3, RunsAlone
<1>5. /\ \A d \in Creations : JobRuns(d)' => d = c
      /\ \A t \in Taps : ~SaveRuns(t)'
  BY <1>1, <1>2, <1>4 DEF JobRuns, SaveRuns
<1>6. bioAlias = c
  BY <1>2, <1>4 DEF DoorInv, PairInv
<1>7. PairInv'
  BY <1>1, <1>2, <1>4, <1>5, <1>6 DEF PairInv, Unfinished
<1>8. OwnInv'
  BY <1>1, <1>2, <1>6, OwnStays DEF DoorInv, Done
<1>9. RecentInv'
  <2>1. \A d \in Creations : job'[d].client = job[d].client
    BY <1>2
  <2>2. client \in Clients /\ job[c].client \in Clients
    BY Parts DEF Jobs
  <2>3. creatingData'[client] = None
    BY <1>1, <1>3, <2>2, Parts DEF DoorInv, RecentInv
  <2>4. \A n \in Clients : creatingData'[n] = creatingData[n] \/ creatingData'[n] = None
    BY <1>1, Parts
  <2>5. \A n \in Clients : InUse(n)' => n = client
    BY <1>1, <1>4, <1>5 DEF InUse
  <2> QED BY <1>1, <2>1, <2>3, <2>4, <2>5 DEF DoorInv, RecentInv
<1> QED BY <1>7, <1>8, <1>9 DEF DoorInv

\* A creation that has its pairs goes on, or fails.
LEMMA GoesOnDoor ==
    ASSUME TypeInv, DoorInv, NEW c \in Creations, CreateFails(c) \/ SaveWallet(c) \/ FinishBio(c)
    PROVE  DoorInv'
<1>1. /\ UNCHANGED <<bioAlias, pinAlias, client, creatingData, edits, store, save>>
      /\ UNCHANGED <<phase, viewModel>>
      /\ job[c].alive
  BY DEF CreateFails, SaveWallet, FinishBio, keystore, screens
<1>2. /\ job[c].stage \in {"keys", "saved"} /\ job'[c].client = job[c].client
      /\ job'[c].stage \in {"saved", "bioDone", "ended"}
      /\ job'[c].stage = "bioDone" => job'[c].blob = [alias |-> bioAlias, key |-> c]
      /\ \A d \in Creations : d # c => job'[d] = job[d]
  <2>1. CASE CreateFails(c)
    BY <2>1, StepFacts DEF CreateFails, TypeInv, Stages
  <2>2. CASE SaveWallet(c)
    BY <2>2, StepFacts DEF SaveWallet, TypeInv, Stages
  <2>3. CASE FinishBio(c)
    BY <2>3, FinishBioFacts DEF TypeInv
  <2> QED BY <2>1, <2>2, <2>3
<1>3. Unfinished(c)
  BY <1>1, <1>2 DEF Unfinished, JobRuns
<1>4. /\ phase = "start" /\ JobRuns(c) /\ \A t \in Taps : ~SaveRuns(t)
      /\ \A d \in Creations : JobRuns(d) => d = c
  BY <1>3, RunsAlone
<1>5. /\ \A d \in Creations : JobRuns(d)' => d = c
      /\ \A t \in Taps : ~SaveRuns(t)'
  BY <1>1, <1>2, <1>4 DEF JobRuns, SaveRuns
<1>6. bioAlias = c /\ pinAlias = c
  BY <1>2, <1>4 DEF DoorInv, PairInv
<1>7. PairInv'
  BY <1>1, <1>2, <1>4, <1>5, <1>6 DEF PairInv, Unfinished
<1>8. OwnInv'
  BY <1>1, <1>2, OwnStays DEF DoorInv, Done
<1>9. RecentInv'
  <2>1. \A d \in Creations : job'[d].client = job[d].client
    BY <1>2
  <2>2. \A d \in Creations : Unfinished(d)' => Unfinished(d)
    BY <1>3, <1>5 DEF Unfinished
  <2>3. \A n \in Clients : InUse(n)' => InUse(n)
    BY <1>1 DEF InUse, SaveRuns
  <2> QED BY <1>1, <2>1, <2>2, <2>3 DEF DoorInv, RecentInv
<1> QED BY <1>7, <1>8, <1>9 DEF DoorInv

\* A creation finishes: its data is kept and its biometric blob is to be stored.
LEMMA FinishPinDoor ==
    ASSUME TypeInv, DoorInv, NEW c \in Creations, FinishPin(c) PROVE DoorInv'
<1> DEFINE n == job[c].client
           e == [NoData EXCEPT !.bio = job[c].blob]
           k == [key |-> c, layers |-> << >>]
<1>1. /\ creatingData' = [creatingData EXCEPT ![n] = k]
      /\ edits' = IF n = client THEN edits \cup {e} ELSE edits
      /\ UNCHANGED <<bioAlias, pinAlias, client, store, save>>
      /\ UNCHANGED <<phase, viewModel>>
  BY DEF FinishPin, Launched, keystore, screens
<1>2. /\ job[c].stage = "bioDone" /\ job'[c].stage = "finished" /\ job'[c].client = job[c].client
      /\ \A d \in Creations : d # c => job'[d] = job[d]
  BY StepFacts DEF FinishPin, TypeInv, Stages
<1>3. Unfinished(c)
  BY <1>2 DEF Unfinished, JobRuns
<1>4. /\ phase = "start" /\ JobRuns(c) /\ \A t \in Taps : ~SaveRuns(t)
      /\ \A d \in Creations : JobRuns(d) => d = c
  BY <1>3, RunsAlone
<1>5. /\ \A d \in Creations : JobRuns(d)' => d = c
      /\ \A t \in Taps : ~SaveRuns(t)'
  BY <1>1, <1>2, <1>4 DEF JobRuns, SaveRuns
<1>6. bioAlias = c /\ pinAlias = c /\ job[c].blob = [alias |-> c, key |-> c]
  BY <1>2, <1>4 DEF DoorInv, PairInv
<1>7. e.bio = [alias |-> c, key |-> c] /\ e.pin = None
  BY <1>6 DEF NoData
<1> HIDE DEF e
<1>8. k.key = c
  OBVIOUS
<1> HIDE DEF k
<1>9. n \in Clients /\ client \in Clients /\ n <= client
  BY Parts DEF Jobs, DoorInv, RecentInv
<1>10. creatingData'[n] = k /\ \A m \in Clients : m # n => creatingData'[m] = creatingData[m]
  BY <1>1, <1>9, Parts
<1> HIDE DEF n
<1>11. PairInv'
  BY <1>1, <1>2, <1>4, <1>5, <1>6 DEF PairInv, Unfinished
<1>12. OwnInv'
  <2>1. ASSUME NEW b \in Orphan(BioBlobs), BioOwn(b) PROVE BioOwn(b)'
    <3> SUFFICES ASSUME b # None
                 PROVE  /\ b.alias = b.key /\ job'[b.key].stage \in Done
                        /\ b.alias = bioAlias' => pinAlias' = bioAlias'
      BY DEF BioOwn
    <3>1. b.key \in Creations
      BY DEF Orphan, BioBlobs
    <3> QED BY <1>1, <1>2, <2>1, <3>1 DEF BioOwn, Done
  <2>2. BioOwn(store.bio)'
    <3>1. PICK b \in Orphan(BioBlobs) : b = store.bio
      BY Parts DEF PasscodeData
    <3>2. BioOwn(b)'
      BY <2>1, <3>1 DEF DoorInv, OwnInv
    <3> QED BY <1>1, <3>1, <3>2 DEF BioOwn
  <2>3. ASSUME NEW f \in edits' PROVE BioOwn(f.bio)' /\ PinOwn(f.pin)'
    <3>1. CASE f \in edits
      <4>1. PICK b \in Orphan(BioBlobs) : b = f.bio
        BY <3>1, Parts DEF PasscodeData
      <4>2. BioOwn(b)'
        BY <2>1, <3>1, <4>1 DEF DoorInv, OwnInv
      <4> QED BY <3>1, <4>1, <4>2 DEF BioOwn, PinOwn, DoorInv, OwnInv
    <3>2. CASE f = e
      BY <1>1, <1>2, <1>6, <1>7, <3>2 DEF BioOwn, PinOwn, Done
    <3> QED BY <1>1, <3>1, <3>2
  <2> QED BY <1>1, <2>2, <2>3 DEF DoorInv, OwnInv, PinOwn
<1>13. RecentInv'
  <2>1. \A d \in Creations : job'[d].client = job[d].client /\ ~Unfinished(d)'
    BY <1>2, <1>5 DEF Unfinished
  <2>2. \A m \in Clients : InUse(m)' => InUse(m)
    BY <1>1 DEF InUse, SaveRuns
  <2>3. \A m \in Clients : m > client => creatingData'[m] = None
    BY <1>9, <1>10 DEF DoorInv, RecentInv, Clients
  <2>4. \A m \in Clients : InUse(m)' /\ creatingData'[m] # None => creatingData'[m].key = pinAlias
    BY <1>6, <1>8, <1>10, <2>2 DEF DoorInv, RecentInv
  <2> QED BY <1>1, <2>1, <2>3, <2>4 DEF DoorInv, RecentInv
<1> QED BY <1>11, <1>12, <1>13 DEF DoorInv

\* Off the first screen, or while a passcode is being saved, every creation
\* that runs has finished.
LEMMA AllFinished ==
    ASSUME DoorInv, phase # "start" \/ \E t \in Taps : SaveRuns(t)
    PROVE  \A c \in Creations : ~Unfinished(c)
BY DEF DoorInv, PairInv

\* The steps of the screens.
LEMMA ShowDoor == ASSUME TypeInv, DoorInv, NEW c \in Creations, Show(c) PROVE DoorInv'
<1>1. /\ phase = "start" /\ phase' = "perfect" /\ job[c].alive /\ job[c].stage = "finished"
      /\ UNCHANGED <<bioAlias, pinAlias, client, creatingData, edits, store, save, viewModel>>
  BY DEF Show, keystore
<1>2. \A d \in Creations : /\ job'[d].stage = job[d].stage /\ job'[d].client = job[d].client
                           /\ job'[d].blob = job[d].blob /\ (job'[d].alive => job[d].alive)
  BY CancelFacts DEF Show, TypeInv
<1>3. \A d \in Creations : JobRuns(d) => d = c
  BY <1>1 DEF DoorInv, PairInv, JobRuns
<1>4. \A d \in Creations : ~Unfinished(d)'
  BY <1>1, <1>2, <1>3 DEF JobRuns, Unfinished
<1>5. \A n \in Clients : InUse(n)' => InUse(n)
  BY <1>1 DEF InUse, SaveRuns
<1> QED BY <1>1, <1>2, <1>4, <1>5, CalmStep

LEMMA ScreenDoor ==
    ASSUME TypeInv, DoorInv, ClickSetPasscode \/ GoConfirm \/ DeleteDigit PROVE DoorInv'
<1>1. /\ UNCHANGED <<bioAlias, pinAlias, client, creatingData, job, store, save>>
      /\ phase # "start"
  BY DEF ClickSetPasscode, GoConfirm, DeleteDigit, keystore
<1>2. \A e \in edits' : e \in edits \/ (e.bio = None /\ e.pin = None)
  <2>1. CASE ClickSetPasscode
    <3> DEFINE f == [NoData EXCEPT !.pub = shown]
    <3>1. f.bio = None /\ f.pin = None
      BY DEF NoData
    <3>2. edits' \subseteq edits \cup {f}
      BY <2>1 DEF ClickSetPasscode, Launched
    <3> HIDE DEF f
    <3> QED BY <3>1, <3>2
  <2>2. CASE GoConfirm \/ DeleteDigit
    BY <2>2 DEF GoConfirm, DeleteDigit
  <2> QED BY <2>1, <2>2
<1>3. viewModel'.setup \in {viewModel.setup, client} /\ \A n \in Clients : InUse(n)' => InUse(n)
  <2>1. CASE ClickSetPasscode
    <3>1. phase' = "setup" /\ viewModel'.setup = client
      BY <2>1, Parts DEF ClickSetPasscode
    <3> QED BY <1>1, <3>1 DEF InUse, SaveRuns
  <2>2. CASE GoConfirm
    <3>1. /\ phase = "setup" /\ phase' = "confirm"
          /\ viewModel'.setup = viewModel.setup /\ viewModel'.confirm = client
      BY <2>2, Parts DEF GoConfirm
    <3> QED BY <1>1, <3>1 DEF InUse, SaveRuns
  <2>3. CASE DeleteDigit
    BY <1>1, <2>3 DEF DeleteDigit, InUse, SaveRuns
  <2> QED BY <1>1, <2>1, <2>2, <2>3
<1>4. \A c \in Creations : ~Unfinished(c)'
  <2>1. \A c \in Creations : ~Unfinished(c)
    BY <1>1, AllFinished
  <2> QED BY <1>1, <2>1 DEF Unfinished, JobRuns
<1> QED BY <1>1, <1>2, <1>3, <1>4, CalmStep

LEMMA TypeAgainDoor == ASSUME TypeInv, DoorInv, NEW t \in Taps, TypeAgain(t) PROVE DoorInv'
<1> DEFINE s == [stage |-> "launched", client |-> viewModel.confirm, alive |-> TRUE]
<1>1. /\ UNCHANGED <<bioAlias, pinAlias, client, creatingData, job, store, edits>>
      /\ UNCHANGED <<phase, viewModel>>
      /\ phase = "confirm" /\ save' = [save EXCEPT ![t] = s]
  BY DEF TypeAgain, keystore
<1>2. s.client = viewModel.confirm
  OBVIOUS
<1> HIDE DEF s
<1>3. save'[t] = s /\ \A u \in Taps : u # t => save'[u] = save[u]
  BY <1>1, Parts
<1>4. \A n \in Clients : InUse(n)' => InUse(n)
  BY <1>1, <1>2, <1>3 DEF InUse, SaveRuns
<1>5. \A c \in Creations : ~Unfinished(c)'
  <2>1. \A c \in Creations : ~Unfinished(c)
    BY <1>1, AllFinished
  <2> QED BY <1>1, <2>1 DEF Unfinished, JobRuns
<1> QED BY <1>1, <1>4, <1>5, CalmStep

LEMMA FinishDoor == ASSUME TypeInv, DoorInv, Finish PROVE DoorInv'
<1>1. /\ UNCHANGED <<bioAlias, pinAlias, client, creatingData, store, edits, viewModel>>
      /\ phase = "confirm" /\ phase' = "ready"
      /\ save' = [t \in Taps |-> [save[t] EXCEPT !.alive = FALSE]]
      /\ job' = [c \in Creations |-> [job[c] EXCEPT !.alive = FALSE]]
  BY DEF Finish, keystore
<1>2. \A c \in Creations : /\ job'[c].stage = job[c].stage /\ job'[c].client = job[c].client
                           /\ job'[c].blob = job[c].blob /\ ~job'[c].alive
  BY <1>1, CancelAll DEF TypeInv
<1>3. \A t \in Taps : /\ ~save'[t].alive /\ save'[t].stage = save[t].stage
                      /\ save'[t].client = save[t].client
  BY <1>1, CancelSaves DEF TypeInv
<1>4. \A n \in Clients : InUse(n)' => InUse(n)
  BY <1>1, <1>3 DEF InUse, SaveRuns
<1>5. \A c \in Creations : ~Unfinished(c)'
  <2>1. \A c \in Creations : ~Unfinished(c)
    BY <1>1, AllFinished
  <2> QED BY <1>2, <2>1 DEF Unfinished, JobRuns
<1> QED BY <1>1, <1>2, <1>4, <1>5, CalmStep

LEMMA BackDoor == ASSUME TypeInv, DoorInv, Back PROVE DoorInv'
<1>1. /\ UNCHANGED <<bioAlias, pinAlias, client, creatingData, store, edits, viewModel>>
      /\ \A c \in Creations : /\ job'[c].stage = job[c].stage /\ job'[c].client = job[c].client
                              /\ job'[c].blob = job[c].blob
                              /\ job'[c].alive => job[c].alive
  BY BackFacts
<1>2. \/ phase = "start" /\ phase' = "start" /\ save' = save
      \/ phase \in {"perfect", "setup"} /\ phase' \in {"start", "perfect"} /\ save' = save
      \/ /\ phase = "confirm" /\ phase' = "setup"
         /\ \A t \in Taps : /\ ~save'[t].alive /\ save'[t].stage = save[t].stage
                            /\ save'[t].client = save[t].client
  BY BackFacts
<1>3. \A t \in Taps : (SaveRuns(t)' => SaveRuns(t)) /\ save'[t].client = save[t].client
  BY <1>2 DEF SaveRuns
<1>4. \A n \in Clients : InUse(n)' => InUse(n)
  BY <1>1, <1>2, <1>3 DEF InUse
<1>5. \A c \in Creations : Unfinished(c)' => phase' = "start" /\ \A t \in Taps : ~SaveRuns(t)'
  <2>1. \A c \in Creations : Unfinished(c)' => Unfinished(c)
    BY <1>1 DEF Unfinished, JobRuns
  <2> QED BY <1>2, <1>3, <2>1 DEF DoorInv, PairInv
<1> QED BY <1>1, <1>4, <1>5, CalmStep

\* What the passcode opens is of the pair of the moment, and is kept.
LEMMA TypePasscodeDoor ==
    ASSUME TypeInv, DoorInv, NEW p \in Passcodes, TypePasscode(p) PROVE DoorInv'
<1> DEFINE k == [key |-> store.pin.key, layers |-> << >>]
<1>1. /\ UNCHANGED <<bioAlias, pinAlias, client, job, edits, store, save>>
      /\ UNCHANGED <<phase, viewModel>> /\ phase = "setup"
      /\ \/ creatingData' = creatingData
         \/ Opens(p) /\ creatingData' = [creatingData EXCEPT ![viewModel.setup] = k]
  BY DEF TypePasscode, keystore
<1>2. Opens(p) => k.key = pinAlias
  BY DEF Opens, DoorInv, OwnInv, PinOwn
<1> HIDE DEF k
<1>3. \A c \in Creations : ~Unfinished(c)'
  <2>1. \A c \in Creations : ~Unfinished(c)
    BY <1>1, AllFinished
  <2> QED BY <1>1, <2>1 DEF Unfinished, JobRuns
<1>4. PairInv'
  BY <1>1, <1>3 DEF DoorInv, PairInv, JobRuns
<1>5. OwnInv'
  BY <1>1, OwnStays DEF DoorInv
<1>6. RecentInv'
  <2>1. viewModel.setup \in Clients /\ viewModel.setup <= client /\ client \in Clients
    BY Parts DEF DoorInv, RecentInv
  <2>2. \A n \in Clients : \/ creatingData'[n] = creatingData[n]
                           \/ n = viewModel.setup /\ creatingData'[n] = k /\ k.key = pinAlias
    BY <1>1, <1>2, <2>1, Parts
  <2>3. \A n \in Clients : InUse(n)' => InUse(n)
    BY <1>1 DEF InUse, SaveRuns
  <2>4. \A n \in Clients : InUse(n)' /\ creatingData'[n] # None => creatingData'[n].key = pinAlias
    BY <2>2, <2>3 DEF DoorInv, RecentInv
  <2>5. \A n \in Clients : n > client => creatingData'[n] = None
    BY <2>1, <2>2 DEF DoorInv, RecentInv, Clients
  <2> QED BY <1>1, <1>3, <2>4, <2>5 DEF DoorInv, RecentInv
<1> QED BY <1>4, <1>5, <1>6 DEF DoorInv

\* The kept data of a save under way is put under one more layer.
LEMMA SaveEncryptDoor == ASSUME TypeInv, DoorInv, NEW t \in Taps, SaveEncrypt(t) PROVE DoorInv'
<1> DEFINE n == save[t].client
           k == creatingData[n]
<1>1. /\ UNCHANGED <<bioAlias, pinAlias, client, job, edits, store>>
      /\ UNCHANGED <<phase, viewModel>> /\ save[t].alive /\ k # None
  BY DEF SaveEncrypt, keystore, screens
<1>2. /\ n \in Clients /\ creatingData'[n].key = k.key
      /\ \A m \in Clients : m # n => creatingData'[m] = creatingData[m]
  <2>1. /\ n \in Clients /\ k \in Kept
        /\ creatingData'[n] = [k EXCEPT !.layers = Append(k.layers, [pass |-> entered, salt |-> t])]
        /\ \A m \in Clients : m # n => creatingData'[m] = creatingData[m]
    BY EncryptFacts
  <2> QED BY <2>1 DEF Kept
<1>3. \A u \in Taps : (SaveRuns(u)' => SaveRuns(u)) /\ save'[u].client = save[u].client
  <2>1. save' = [save EXCEPT ![t].stage = "encrypted"]
    BY DEF SaveEncrypt
  <2>2. save'[t].client = save[t].client /\ \A u \in Taps : u # t => save'[u] = save[u]
    BY <2>1, SaveFacts DEF TypeInv
  <2> QED BY <1>1, <2>2 DEF SaveRuns
<1>4. \A c \in Creations : ~Unfinished(c)'
  <2>1. \A c \in Creations : ~Unfinished(c)
    BY <1>1, AllFinished DEF SaveRuns
  <2> QED BY <1>1, <2>1 DEF Unfinished, JobRuns
<1>5. PairInv'
  BY <1>1, <1>4 DEF DoorInv, PairInv, JobRuns
<1>6. OwnInv'
  BY <1>1, OwnStays DEF DoorInv
<1>7. RecentInv'
  <2>1. \A m \in Clients : InUse(m)' => InUse(m)
    BY <1>1, <1>3 DEF InUse
  <2>2. \A m \in Clients : creatingData[m] = None => creatingData'[m] = None
    BY <1>1, <1>2
  <2>3. \A m \in Clients : InUse(m)' /\ creatingData'[m] # None => creatingData'[m].key = pinAlias
    BY <1>1, <1>2, <2>1 DEF DoorInv, RecentInv
  <2>4. \A m \in Clients : m > client => creatingData'[m] = None
    BY <2>2 DEF DoorInv, RecentInv
  <2> QED BY <1>1, <1>4, <2>3, <2>4 DEF DoorInv, RecentInv
<1> QED BY <1>5, <1>6, <1>7 DEF DoorInv

\* The blob it makes is of the pair of the moment, which is the key's own.
LEMMA SaveStoreDoor == ASSUME TypeInv, DoorInv, NEW t \in Taps, SaveStore(t) PROVE DoorInv'
<1> DEFINE n == save[t].client
           k == creatingData[n]
           pin == [alias |-> pinAlias, key |-> k.key, layers |-> k.layers]
           e == [NoData EXCEPT !.pin = pin, !.salt = t]
<1>1. /\ UNCHANGED <<bioAlias, pinAlias, client, creatingData, job, store>>
      /\ UNCHANGED <<phase, viewModel>> /\ save[t].stage = "encrypted" /\ k # None
      /\ edits' = Launched(n, e)
      /\ save' = [save EXCEPT ![t].stage = "stored"]
  BY DEF SaveStore, keystore, screens
<1>2. SaveRuns(t) /\ n \in Clients
  BY <1>1, Parts DEF SaveRuns, Saves
<1>3. k.key = pinAlias
  BY <1>1, <1>2 DEF DoorInv, RecentInv, InUse
<1>4. pin.alias = pin.key
  BY <1>3
<1>5. e.bio = None /\ e.pin = pin
  BY DEF NoData
<1> HIDE DEF pin, e
<1>6. \A u \in Taps : (SaveRuns(u)' => SaveRuns(u)) /\ save'[u].client = save[u].client
  <2>1. save'[t].client = save[t].client /\ \A u \in Taps : u # t => save'[u] = save[u]
    BY <1>1, SaveFacts DEF TypeInv
  <2> QED BY <1>2, <2>1 DEF SaveRuns
<1>7. \A c \in Creations : ~Unfinished(c)'
  <2>1. \A c \in Creations : ~Unfinished(c)
    BY <1>2, AllFinished
  <2> QED BY <1>1, <2>1 DEF Unfinished, JobRuns
<1>8. PairInv'
  BY <1>1, <1>7 DEF DoorInv, PairInv, JobRuns
<1>9. OwnInv'
  <2>1. \A f \in edits' : f \in edits \/ f = e
    BY <1>1 DEF Launched
  <2>2. \A b : BioOwn(b) => BioOwn(b)'
    BY <1>1 DEF BioOwn
  <2>3. BioOwn(store.bio)'
    BY <1>1 DEF BioOwn, DoorInv, OwnInv
  <2>4. \A f \in edits' : BioOwn(f.bio)' /\ PinOwn(f.pin)'
    BY <1>1, <1>4, <1>5, <2>1 DEF BioOwn, PinOwn, DoorInv, OwnInv
  <2> QED BY <1>1, <2>3, <2>4 DEF DoorInv, OwnInv, PinOwn
<1>10. RecentInv'
  <2>1. \A m \in Clients : InUse(m)' => InUse(m)
    BY <1>1, <1>6 DEF InUse
  <2> QED BY <1>1, <1>7, <2>1 DEF DoorInv, RecentInv
<1> QED BY <1>8, <1>9, <1>10 DEF DoorInv

\* The DataStore writes an edit.
LEMMA ApplyDoor == ASSUME TypeInv, DoorInv, NEW e \in edits, ApplyEdit(e) PROVE DoorInv'
<1>1. /\ store'.pin = IF e.pin = None THEN store.pin ELSE e.pin
      /\ store'.bio = IF e.bio = None THEN store.bio ELSE e.bio
      /\ edits' \subseteq edits
      /\ UNCHANGED <<bioAlias, pinAlias, client, creatingData, job, save, phase, viewModel>>
  BY ApplyFacts DEF keystore, screens
<1>2. PairInv'
  BY <1>1 DEF DoorInv, PairInv, JobRuns, Unfinished, SaveRuns
<1>3. OwnInv'
  <2>1. \A b : (BioOwn(b) => BioOwn(b)') /\ (PinOwn(b) => PinOwn(b)')
    BY <1>1 DEF BioOwn, PinOwn
  <2>2. BioOwn(store.bio)' /\ PinOwn(store.pin)'
    BY <1>1 DEF BioOwn, PinOwn, DoorInv, OwnInv
  <2>3. \A f \in edits' : BioOwn(f.bio)' /\ PinOwn(f.pin)'
    BY <1>1 DEF BioOwn, PinOwn, DoorInv, OwnInv
  <2> QED BY <2>2, <2>3 DEF OwnInv
<1>4. RecentInv'
  <2>1. \A n \in Clients : InUse(n)' => InUse(n)
    BY <1>1 DEF InUse, SaveRuns
  <2>2. \A c \in Creations : Unfinished(c)' => Unfinished(c)
    BY <1>1 DEF Unfinished, JobRuns
  <2> QED BY <1>1, <2>1, <2>2 DEF DoorInv, RecentInv
<1> QED BY <1>2, <1>3, <1>4 DEF DoorInv

\* The device is turned: the new client keeps no data yet.
LEMMA TurnDoor == ASSUME TypeInv, DoorInv, Turn PROVE DoorInv'
<1>1. /\ client <= MaxTurns /\ client' = client + 1 /\ edits' \subseteq edits
      /\ UNCHANGED <<bioAlias, pinAlias, creatingData, store, save, phase, viewModel>>
  BY DEF Turn, keystore, screens
<1>2. \A c \in Creations : /\ job'[c].stage = job[c].stage /\ job'[c].client = job[c].client
                           /\ job'[c].blob = job[c].blob
                           /\ job'[c].alive => job[c].alive
  BY CancelFacts DEF Turn, TypeInv
<1>3. \A c \in Creations : (JobRuns(c)' => JobRuns(c)) /\ (Unfinished(c)' => Unfinished(c))
  BY <1>2 DEF JobRuns, Unfinished
<1>4. client \in Nat /\ client < client' /\ client' \in Clients
  BY <1>1, Parts, VaultConstants DEF Clients
<1>5. creatingData[client'] = None
  BY <1>4 DEF DoorInv, RecentInv
<1>6. PairInv'
  BY <1>1, <1>2, <1>3 DEF DoorInv, PairInv, SaveRuns
<1>7. OwnInv'
  BY <1>1, <1>2, OwnStays DEF DoorInv
<1>8. RecentInv'
  <2>1. viewModel.setup \in Nat /\ \A c \in Creations : job[c].client \in Nat
    BY Parts DEF Clients, Jobs
  <2>2. viewModel'.setup <= client' /\ \A c \in Creations : job'[c].client <= client'
    BY <1>1, <1>2, <1>4, <2>1 DEF DoorInv, RecentInv
  <2>3. \A n \in Clients : n > client' => creatingData'[n] = None
    BY <1>1, <1>4 DEF DoorInv, RecentInv, Clients
  <2>4. \A n \in Clients : InUse(n)' => InUse(n) \/ n = client'
    BY <1>1 DEF InUse, SaveRuns
  <2>5. \A n \in Clients : InUse(n)' /\ creatingData'[n] # None => creatingData'[n].key = pinAlias'
    BY <1>1, <1>5, <2>4 DEF DoorInv, RecentInv
  <2> QED BY <1>1, <1>5, <2>2, <2>3, <2>5 DEF RecentInv
<1> QED BY <1>6, <1>7, <1>8 DEF DoorInv

\* The process dies: nothing is kept or under way any more.
LEMMA DieDoor == ASSUME TypeInv, DoorInv, NEW screen, Die(screen) PROVE DoorInv'
<1>1. edits' = {} /\ UNCHANGED <<bioAlias, pinAlias, store>>
  BY DEF Die, keystore
<1>2. /\ client' = 1
      /\ \A c \in Creations : /\ ~job'[c].alive /\ job'[c].client = 1
                              /\ job'[c].stage \in {"none", "ended"}
                              /\ job'[c].stage = "none" => job[c].stage = "none"
      /\ \A t \in Taps : ~save'[t].alive /\ save'[t].stage \in {"none", "ended"}
      /\ creatingData' = [n \in Clients |-> None]
      /\ viewModel' = [s \in {"setup", "confirm"} |-> 1]
      /\ client' \in Clients
  BY DieFacts DEF TypeInv
<1>3. \A c \in Creations : ~JobRuns(c)' /\ ~Unfinished(c)'
  BY <1>2 DEF JobRuns, Unfinished
<1>4. PairInv'
  BY <1>3 DEF PairInv
<1>5. OwnInv'
  BY <1>1, <1>2, OwnStays DEF DoorInv, Done
<1>6. RecentInv'
  <2>1. viewModel'.setup <= client' /\ \A n \in Clients : creatingData'[n] = None
    BY <1>2
  <2> QED BY <1>2, <1>3, <2>1 DEF RecentInv
<1> QED BY <1>4, <1>5, <1>6 DEF DoorInv

LEMMA DoorStep == ASSUME Waits PROVE TypeInv /\ DoorInv /\ [Next]_vars => DoorInv'
<1> SUFFICES ASSUME TypeInv, DoorInv, [Next]_vars PROVE DoorInv'
  OBVIOUS
<1>1. CASE UNCHANGED vars
  <2>1. /\ UNCHANGED <<bioAlias, pinAlias, client, creatingData, job, edits, store, save>>
        /\ UNCHANGED <<phase, viewModel>>
    BY <1>1 DEF vars, keystore, screens
  <2>2. \A n \in Clients : InUse(n)' => InUse(n)
    BY <2>1 DEF InUse, SaveRuns
  <2>3. \A c \in Creations : Unfinished(c)' => phase' = "start" /\ \A t \in Taps : ~SaveRuns(t)'
    BY <2>1 DEF DoorInv, PairInv, Unfinished, JobRuns, SaveRuns
  <2> QED BY <2>1, <2>2, <2>3, CalmStep
<1>2. ASSUME NEW c \in Creations,
             \/ Start(c) \/ NewBioKey(c) \/ NewPinKey(c) \/ CreateFails(c) \/ SaveWallet(c)
             \/ FinishBio(c) \/ FinishPin(c) \/ Show(c)
      PROVE  DoorInv'
  BY <1>2, StartDoor, NewBioKeyDoor, NewPinKeyDoor, GoesOnDoor, FinishPinDoor, ShowDoor
<1>3. ASSUME NEW p \in Passcodes, TypePasscode(p) PROVE DoorInv'
  BY <1>3, TypePasscodeDoor
<1>4. ASSUME NEW t \in Taps, TypeAgain(t) \/ SaveEncrypt(t) \/ SaveStore(t) PROVE DoorInv'
  BY <1>4, TypeAgainDoor, SaveEncryptDoor, SaveStoreDoor
<1>5. ASSUME NEW t \in Taps, SaveCrashes(t) PROVE DoorInv'
  BY <1>5, DieDoor DEF SaveCrashes
<1>6. CASE ClickSetPasscode \/ GoConfirm \/ DeleteDigit
  BY <1>6, ScreenDoor
<1>7. CASE Finish
  BY <1>7, FinishDoor
<1>8. CASE Back
  BY <1>8, BackDoor
<1>9. CASE Turn
  BY <1>9, TurnDoor
<1>10. CASE Restart
  BY <1>10, DieDoor DEF Restart
<1>11. CASE Edit
  BY <1>11, ApplyDoor DEF Edit
<1> QED
  BY <1>1, <1>2, <1>3, <1>4, <1>5, <1>6, <1>7, <1>8, <1>9, <1>10, <1>11 DEF Next

\* Biometry and the passcode never open two different keys: whatever blobs and
\* pairs a later creation, a failure or a death leaves, those that match are of
\* one creation (createWallet, updatePasscodeData, decryptTonData).  The user
\* may tap, delete and go back while a passcode is being saved and turn the
\* device on any screen, as long as no second creation is started over a first.
THEOREM DoorsAgreeHolds == ASSUME Waits PROVE Spec => []DoorsAgree
<1>1. Init => TypeInv /\ DoorInv
  BY TypeInit, DoorInit
<1>2. (TypeInv /\ DoorInv) /\ [Next]_vars => (TypeInv /\ DoorInv)'
  BY TypeStep, DoorStep
<1>3. DoorInv => DoorsAgree
  BY DEF DoorInv, OwnInv, BioOwn, PinOwn, DoorsAgree, BioOpens, Opens
<1> QED BY <1>1, <1>2, <1>3, PTL DEF Spec

-----------------------------------------------------------------------------
(* A user who waits                                                        *)

\* The user waits for what is under way, and may turn the device at any time.
Unhurried == Haste = {}

\* Kept data has at most the layer of the one confirmation under way, and what
\* is stored, or about to be, has the layer of the salt beside it.
LayerInv ==
    /\ phase = "confirm" => entered \in {None, chosen}
    /\ \A t, u \in Taps : SaveRuns(t) /\ SaveRuns(u) => t = u
    /\ \A t \in Taps : SaveRuns(t) => save[t].alive /\ phase = "confirm" /\ entered = chosen
    /\ \A t \in Taps : Encrypted(t) =>
         /\ creatingData[save[t].client] # None
         /\ creatingData[save[t].client].layers = Layer(chosen, t)
    /\ \A n \in Clients : creatingData[n] # None =>
         \/ creatingData[n].layers = << >>
         \/ Len(creatingData[n].layers) = 1 /\ (phase = "ready" \/ \E t \in Taps : Encrypted(t))
    /\ PinLayered(store)
    /\ \A e \in edits : PinLayered(e) /\ (e.pin = None => e.salt = None)

LEMMA LayerInit == Init => LayerInv
<1> SUFFICES ASSUME Init PROVE LayerInv
  OBVIOUS
<1>1. \A t \in Taps : save[t].stage = "none" /\ ~save[t].alive
  BY DEF Init
<1>2. \A t \in Taps : ~SaveRuns(t) /\ ~Encrypted(t)
  BY <1>1 DEF SaveRuns, Encrypted
<1>3. \A n \in Clients : creatingData[n] = None
  BY DEF Init
<1>4. phase = "start" /\ edits = {} /\ store.pin = None
  BY DEF Init, NoData
<1> QED BY <1>2, <1>3, <1>4 DEF LayerInv, PinLayered

\* A step before which and after which no passcode is being saved.
LEMMA LayerCalm ==
    ASSUME LayerInv, phase # "ready",
           \A t \in Taps : ~SaveRuns(t) /\ ~SaveRuns(t)',
           phase' = "confirm" => entered' \in {None, chosen'},
           store' = store,
           \A e \in edits' : e \in edits \/ (e.pin = None /\ e.salt = None),
           \A n \in Clients : \/ creatingData'[n] = creatingData[n]
                              \/ creatingData'[n] = None
                              \/ creatingData'[n].layers = << >>
    PROVE  LayerInv'
<1>1. \A t \in Taps : ~Encrypted(t) /\ ~Encrypted(t)'
  BY DEF Encrypted
<1>2. \A n \in Clients : creatingData[n] # None => creatingData[n].layers = << >>
  BY <1>1 DEF LayerInv
<1>3. \A n \in Clients : creatingData'[n] # None => creatingData'[n].layers = << >>
  BY <1>2
<1>4. PinLayered(store)'
  BY DEF LayerInv, PinLayered
<1>5. \A e \in edits' : PinLayered(e)' /\ (e.pin = None => e.salt = None)
  BY DEF LayerInv, PinLayered
<1> QED BY <1>1, <1>3, <1>4, <1>5 DEF LayerInv

\* The steps of a creation.
LEMMA JobLayer ==
    ASSUME TypeInv, DoorInv, LayerInv, NEW c \in Creations,
           \/ Start(c) \/ NewBioKey(c) \/ NewPinKey(c) \/ CreateFails(c) \/ SaveWallet(c)
           \/ FinishBio(c) \/ FinishPin(c) \/ Show(c)
    PROVE  LayerInv'
<1>1. phase = "start" /\ phase' # "confirm" /\ UNCHANGED <<save, store>>
  <2>1. CASE Start(c) \/ Show(c)
    BY <2>1 DEF Start, Show, screens
  <2>2. CASE \/ NewBioKey(c) \/ NewPinKey(c) \/ CreateFails(c) \/ SaveWallet(c)
             \/ FinishBio(c) \/ FinishPin(c)
    <3>1. Unfinished(c) /\ UNCHANGED <<phase, save, store>>
      BY <2>2 DEF NewBioKey, NewPinKey, CreateFails, SaveWallet, FinishBio, FinishPin, Step,
                  Unfinished, JobRuns, screens
    <3> QED BY <3>1, RunsAlone
  <2> QED BY <2>1, <2>2
<1>2. \A t \in Taps : ~SaveRuns(t) /\ ~SaveRuns(t)'
  BY <1>1 DEF LayerInv, SaveRuns
<1>3. \A e \in edits' : e \in edits \/ (e.pin = None /\ e.salt = None)
  <2>1. CASE FinishPin(c)
    <3> DEFINE f == [NoData EXCEPT !.bio = job[c].blob]
    <3>1. f.pin = None /\ f.salt = None
      BY DEF NoData
    <3>2. edits' \subseteq edits \cup {f}
      BY <2>1 DEF FinishPin, Launched
    <3> HIDE DEF f
    <3> QED BY <3>1, <3>2
  <2>2. CASE ~FinishPin(c)
    <3>1. edits' = edits
      BY <2>2 DEF Start, Show, NewBioKey, NewPinKey, CreateFails, SaveWallet, FinishBio
    <3> QED BY <3>1
  <2> QED BY <2>1, <2>2
<1>4. \A n \in Clients : \/ creatingData'[n] = creatingData[n]
                         \/ creatingData'[n] = None
                         \/ creatingData'[n].layers = << >>
  <2>1. CASE FinishPin(c)
    <3> DEFINE k == [key |-> c, layers |-> << >>]
    <3>1. creatingData' = [creatingData EXCEPT ![job[c].client] = k] /\ k.layers = << >>
      BY <2>1 DEF FinishPin
    <3> HIDE DEF k
    <3> QED BY <3>1, Parts
  <2>2. CASE NewPinKey(c)
    BY <2>2, Parts DEF NewPinKey
  <2>3. CASE ~FinishPin(c) /\ ~NewPinKey(c)
    <3>1. creatingData' = creatingData
      BY <2>3 DEF Start, Show, NewBioKey, CreateFails, SaveWallet, FinishBio
    <3> QED BY <3>1
  <2> QED BY <2>1, <2>2, <2>3
<1> QED BY <1>1, <1>2, <1>3, <1>4, LayerCalm

LEMMA ScreenLayer ==
    ASSUME TypeInv, LayerInv, Unhurried,
           \/ ClickSetPasscode \/ GoConfirm \/ Back
           \/ \E p \in Passcodes : TypePasscode(p)
    PROVE  LayerInv'
<1>1. CASE Back
  <2>1. UNCHANGED <<creatingData, edits, store>> /\ phase # "ready" /\ phase' # "confirm"
    BY <1>1, BackFacts
  <2>2. \A t \in Taps : ~SaveRuns(t) /\ ~SaveRuns(t)'
    <3>1. CASE phase = "confirm"
      BY <1>1, <3>1, BackFacts DEF SaveRuns, Unhurried
    <3>2. CASE phase # "confirm"
      BY <1>1, <3>2, BackFacts DEF SaveRuns, LayerInv
    <3> QED BY <3>1, <3>2
  <2> QED BY <2>1, <2>2, LayerCalm
<1>2. CASE ClickSetPasscode \/ GoConfirm \/ \E p \in Passcodes : TypePasscode(p)
  <2>1. /\ phase \in {"perfect", "setup"} /\ UNCHANGED <<store, save>>
        /\ phase' = "confirm" => entered' = None
    BY <1>2 DEF ClickSetPasscode, GoConfirm, TypePasscode
  <2>2. \A t \in Taps : ~SaveRuns(t) /\ ~SaveRuns(t)'
    BY <2>1 DEF LayerInv, SaveRuns
  <2>3. \A e \in edits' : e \in edits \/ (e.pin = None /\ e.salt = None)
    <3>1. CASE ClickSetPasscode
      <4> DEFINE f == [NoData EXCEPT !.pub = shown]
      <4>1. f.pin = None /\ f.salt = None
        BY DEF NoData
      <4>2. edits' \subseteq edits \cup {f}
        BY <3>1 DEF ClickSetPasscode, Launched
      <4> HIDE DEF f
      <4> QED BY <4>1, <4>2
    <3>2. CASE ~ClickSetPasscode
      BY <1>2, <3>2 DEF GoConfirm, TypePasscode
    <3> QED BY <3>1, <3>2
  <2>4. \A n \in Clients : creatingData'[n] = creatingData[n] \/ creatingData'[n].layers = << >>
    <3>1. ASSUME NEW p \in Passcodes, TypePasscode(p)
          PROVE  \A n \in Clients : creatingData'[n] = creatingData[n] \/ creatingData'[n].layers = << >>
      <4> DEFINE k == [key |-> store.pin.key, layers |-> << >>]
      <4>1. /\ k.layers = << >>
            /\ \/ creatingData' = creatingData
               \/ creatingData' = [creatingData EXCEPT ![viewModel.setup] = k]
        BY <3>1 DEF TypePasscode
      <4> HIDE DEF k
      <4> QED BY <4>1, Parts
    <3>2. CASE ClickSetPasscode \/ GoConfirm
      BY <3>2 DEF ClickSetPasscode, GoConfirm
    <3> QED BY <1>2, <3>1, <3>2
  <2> QED BY <2>1, <2>2, <2>3, <2>4, LayerCalm
<1> QED BY <1>1, <1>2

\* The one confirmation of a visit to the screen.
LEMMA TypeAgainLayer ==
    ASSUME TypeInv, LayerInv, Unhurried, NEW t \in Taps, TypeAgain(t) PROVE LayerInv'
<1> DEFINE s == [stage |-> "launched", client |-> viewModel.confirm, alive |-> TRUE]
<1>1. /\ UNCHANGED <<creatingData, edits, store, phase, chosen>>
      /\ phase = "confirm" /\ entered = None /\ entered' = chosen
      /\ save' = [save EXCEPT ![t] = s]
  BY DEF TypeAgain, Unhurried
<1>2. s.alive /\ s.stage = "launched"
  OBVIOUS
<1> HIDE DEF s
<1>3. save'[t] = s /\ \A u \in Taps : u # t => save'[u] = save[u]
  BY <1>1, Parts
<1>4. \A u \in Taps : ~SaveRuns(u)
  BY <1>1 DEF LayerInv, TypeInv, ScreenInv
<1>5. \A u \in Taps : (SaveRuns(u)' => u = t) /\ ~Encrypted(u) /\ ~Encrypted(u)'
  BY <1>2, <1>3, <1>4 DEF SaveRuns, Encrypted
<1>6. \A n \in Clients : creatingData'[n] # None => creatingData'[n].layers = << >>
  BY <1>1, <1>5 DEF LayerInv
<1>7. \A e : PinLayered(e)' <=> PinLayered(e)
  BY DEF PinLayered
<1>8. PinLayered(store)'
  BY <1>1 DEF LayerInv, PinLayered
<1> QED BY <1>1, <1>2, <1>3, <1>5, <1>6, <1>7, <1>8 DEF LayerInv

\* Its layer is the first.
LEMMA SaveEncryptLayer ==
    ASSUME TypeInv, LayerInv, NEW t \in Taps, SaveEncrypt(t) PROVE LayerInv'
<1> DEFINE n == save[t].client
           k == creatingData[n]
           l == [pass |-> entered, salt |-> t]
<1>1. /\ UNCHANGED <<edits, store, phase, chosen, entered>>
      /\ save[t].alive /\ save[t].stage = "launched" /\ k # None
  BY DEF SaveEncrypt, screens
<1>2. SaveRuns(t) /\ phase = "confirm" /\ entered = chosen
  BY <1>1 DEF SaveRuns, LayerInv
<1>3. \A u \in Taps : ~Encrypted(u)
  BY <1>1, <1>2 DEF LayerInv, Encrypted
<1>4. \A m \in Clients : creatingData[m] # None => creatingData[m].layers = << >>
  BY <1>2, <1>3 DEF LayerInv
<1>5. /\ n \in Clients /\ k \in Kept /\ creatingData'[n] = [k EXCEPT !.layers = Append(k.layers, l)]
      /\ creatingData'[n] \in Kept
      /\ \A m \in Clients : m # n => creatingData'[m] = creatingData[m]
  BY EncryptFacts
<1>6. k.layers = << >>
  BY <1>1, <1>4, <1>5
<1>7. creatingData'[n].layers = << l >>
  <2>1. creatingData'[n].layers = Append(k.layers, l)
    BY <1>5 DEF Kept
  <2>2. Append(<< >>, l) = << l >>
    OBVIOUS
  <2> HIDE DEF k, l
  <2> QED BY <1>6, <2>1, <2>2
<1>8. creatingData'[n] # None
  BY <1>5, NoneIsNoRecord
<1>9. /\ save'[t].stage = "encrypted" /\ save'[t].client = n /\ save'[t].alive
      /\ \A u \in Taps : u # t => save'[u] = save[u]
  <2>1. save' = [save EXCEPT ![t].stage = "encrypted"]
    BY DEF SaveEncrypt
  <2> QED BY <1>1, <2>1, SaveFacts DEF TypeInv
<1>10. \A u \in Taps : SaveRuns(u)' => u = t
  BY <1>2, <1>9 DEF LayerInv, SaveRuns
<1>11. Encrypted(t)'
  BY <1>9 DEF Encrypted, SaveRuns
<1>12. << l >> = Layer(chosen, t)
  BY <1>2 DEF Layer
<1>13. \A m \in Clients : creatingData'[m] # None =>
         creatingData'[m].layers = << >> \/ Len(creatingData'[m].layers) = 1
  <2>1. Len(<< l >>) = 1
    OBVIOUS
  <2> HIDE DEF l, k, n
  <2>2. Len(creatingData'[n].layers) = 1
    BY <1>7, <2>1
  <2> QED BY <1>4, <1>5, <2>2
<1> HIDE DEF l, k, n
<1>14. \A u \in Taps : Encrypted(u)' =>
         /\ creatingData'[save'[u].client] # None
         /\ creatingData'[save'[u].client].layers = Layer(chosen', u)
  BY <1>1, <1>7, <1>8, <1>9, <1>10, <1>12 DEF Encrypted
<1>15. /\ \A e : PinLayered(e)' <=> PinLayered(e)
       /\ PinLayered(store)' <=> PinLayered(store)
  BY <1>1 DEF PinLayered
<1>16. \A u \in Taps : SaveRuns(u)' => save'[u].alive
  BY <1>9, <1>10
<1> QED BY <1>1, <1>2, <1>10, <1>11, <1>13, <1>14, <1>15, <1>16 DEF LayerInv

\* It is stored with its salt.
LEMMA SaveStoreLayer ==
    ASSUME TypeInv, LayerInv, NEW t \in Taps, SaveStore(t) PROVE LayerInv'
<1> DEFINE n == save[t].client
           k == creatingData[n]
           pin == [alias |-> pinAlias, key |-> k.key, layers |-> k.layers]
           e == [NoData EXCEPT !.pin = pin, !.salt = t]
<1>1. /\ UNCHANGED <<creatingData, store, phase, chosen, entered>>
      /\ save[t].stage = "encrypted" /\ edits' = Launched(n, e)
      /\ save' = [save EXCEPT ![t].stage = "stored"]
  BY DEF SaveStore, screens
<1>2. SaveRuns(t) /\ Encrypted(t)
  BY <1>1 DEF SaveRuns, Encrypted
<1>3. /\ k.layers = Layer(chosen, t) /\ save[t].alive /\ phase = "confirm"
  BY <1>2 DEF LayerInv
<1>4. chosen \in Passcodes
  BY <1>3, Parts DEF TypeInv, ScreenInv, Orphan
<1>5. e.pin = pin /\ e.salt = t /\ pin.layers = k.layers
  BY DEF NoData
<1>6. pin # None
  <2>1. k # None /\ n \in Clients
    BY Parts DEF SaveStore, Saves
  <2>2. k \in Kept
    BY <2>1, Parts DEF Orphan
  <2>3. pin \in PinBlobs
    BY <2>2, Parts DEF Kept, PinBlobs
  <2> QED BY <2>3, NoneIsNoRecord
<1> HIDE DEF pin, e, k, n
<1>7. PinLayered(e) /\ e.pin # None
  <2>1. t # None
    BY NoneIsNoRecord
  <2> QED BY <1>3, <1>4, <1>5, <1>6, <2>1 DEF PinLayered
<1>8. /\ save'[t].stage = "stored" /\ save'[t].client = save[t].client /\ save'[t].alive
      /\ \A u \in Taps : u # t => save'[u] = save[u]
  BY <1>1, <1>3, SaveFacts DEF TypeInv
<1>9. \A u \in Taps : /\ SaveRuns(u)' => SaveRuns(u)
                      /\ Encrypted(u)' <=> Encrypted(u)
                      /\ save'[u].client = save[u].client
                      /\ SaveRuns(u)' => save'[u].alive
  BY <1>2, <1>8 DEF SaveRuns, Encrypted, LayerInv
<1>10. \A f \in edits' : f \in edits \/ f = e
  BY <1>1 DEF Launched
<1>11. /\ \A f : PinLayered(f)' <=> PinLayered(f)
       /\ PinLayered(store)' <=> PinLayered(store)
  BY <1>1 DEF PinLayered
<1>12. \A f \in edits' : PinLayered(f)' /\ (f.pin = None => f.salt = None)
  BY <1>7, <1>10, <1>11 DEF LayerInv
<1> QED BY <1>1, <1>9, <1>11, <1>12 DEF LayerInv

LEMMA FinishLayer == ASSUME TypeInv, LayerInv, Finish PROVE LayerInv'
<1>1. /\ UNCHANGED <<creatingData, store, edits, chosen>> /\ phase' = "ready"
      /\ Succeeded
      /\ save' = [t \in Taps |-> [save[t] EXCEPT !.alive = FALSE]]
  BY DEF Finish
<1>2. \A t \in Taps : ~save'[t].alive /\ save'[t].stage = save[t].stage
  BY <1>1, CancelSaves DEF TypeInv
<1>3. \A t \in Taps : SaveRuns(t) => save[t].stage = "stored"
  BY <1>1 DEF Succeeded, SaveRuns, LayerInv
<1>4. \A t \in Taps : ~SaveRuns(t)' /\ ~Encrypted(t)'
  BY <1>2, <1>3 DEF SaveRuns, Encrypted
<1>5. /\ \A f : PinLayered(f)' <=> PinLayered(f)
      /\ PinLayered(store)' <=> PinLayered(store)
  BY <1>1 DEF PinLayered
<1>6. \A n \in Clients : creatingData'[n] # None =>
        creatingData'[n].layers = << >> \/ Len(creatingData'[n].layers) = 1
  BY <1>1 DEF LayerInv
<1> QED BY <1>1, <1>4, <1>5, <1>6 DEF LayerInv

\* The DataStore writes a passcode's blob and its salt at once.
LEMMA ApplyLayer == ASSUME TypeInv, LayerInv, NEW e \in edits, ApplyEdit(e) PROVE LayerInv'
<1>1. /\ store'.pin = IF e.pin = None THEN store.pin ELSE e.pin
      /\ store'.salt = IF e.salt = None THEN store.salt ELSE e.salt
      /\ edits' \subseteq edits
      /\ UNCHANGED <<creatingData, save, phase, chosen, entered>>
  BY ApplyFacts DEF screens
<1>2. e.salt # None \/ e.pin = None
  BY DEF LayerInv, PinLayered
<1>3. PinLayered(store)'
  <2>1. PinLayered(e) /\ PinLayered(store) /\ (e.pin = None => e.salt = None)
    BY DEF LayerInv
  <2> QED BY <1>1, <1>2, <2>1 DEF PinLayered
<1>4. \A f : PinLayered(f)' <=> PinLayered(f)
  BY DEF PinLayered
<1>5. \A t \in Taps : (SaveRuns(t)' <=> SaveRuns(t)) /\ (Encrypted(t)' <=> Encrypted(t))
  BY <1>1 DEF SaveRuns, Encrypted
<1> QED BY <1>1, <1>3, <1>4, <1>5 DEF LayerInv

\* The device is turned: view models and what they are saving stay.
LEMMA TurnLayer == ASSUME LayerInv, Turn PROVE LayerInv'
<1>1. /\ edits' \subseteq edits
      /\ UNCHANGED <<creatingData, store, save, phase, chosen, entered>>
  BY DEF Turn, screens
<1>2. /\ \A f : PinLayered(f)' <=> PinLayered(f)
      /\ PinLayered(store)' <=> PinLayered(store)
  BY <1>1 DEF PinLayered
<1>3. \A t \in Taps : (SaveRuns(t)' <=> SaveRuns(t)) /\ (Encrypted(t)' <=> Encrypted(t))
  BY <1>1 DEF SaveRuns, Encrypted
<1> QED BY <1>1, <1>2, <1>3 DEF LayerInv

LEMMA DieLayer == ASSUME TypeInv, LayerInv, NEW screen, Die(screen) PROVE LayerInv'
<1>1. edits' = {} /\ entered' = None /\ store' = store
  BY DEF Die
<1>2. /\ \A t \in Taps : ~save'[t].alive /\ save'[t].stage \in {"none", "ended"}
      /\ \A n \in Clients : creatingData'[n] = None
  BY DieFacts DEF TypeInv
<1>3. \A t \in Taps : ~SaveRuns(t)' /\ ~Encrypted(t)'
  BY <1>2 DEF SaveRuns, Encrypted
<1>4. PinLayered(store)'
  BY <1>1 DEF LayerInv, PinLayered
<1> QED BY <1>1, <1>2, <1>3, <1>4 DEF LayerInv

LEMMA LayerStep ==
    ASSUME Unhurried PROVE TypeInv /\ DoorInv /\ LayerInv /\ [Next]_vars => LayerInv'
<1> SUFFICES ASSUME TypeInv, DoorInv, LayerInv, [Next]_vars PROVE LayerInv'
  OBVIOUS
<1>1. CASE UNCHANGED vars
  <2>1. UNCHANGED <<creatingData, edits, store, save, phase, chosen, entered>>
    BY <1>1 DEF vars, screens
  <2>2. /\ \A f : PinLayered(f)' <=> PinLayered(f)
        /\ PinLayered(store)' <=> PinLayered(store)
    BY <2>1 DEF PinLayered
  <2>3. \A t \in Taps : (SaveRuns(t)' <=> SaveRuns(t)) /\ (Encrypted(t)' <=> Encrypted(t))
    BY <2>1 DEF SaveRuns, Encrypted
  <2> QED BY <2>1, <2>2, <2>3 DEF LayerInv
<1>2. ASSUME NEW c \in Creations,
             \/ Start(c) \/ NewBioKey(c) \/ NewPinKey(c) \/ CreateFails(c) \/ SaveWallet(c)
             \/ FinishBio(c) \/ FinishPin(c) \/ Show(c)
      PROVE  LayerInv'
  BY <1>2, JobLayer
<1>3. ASSUME \/ ClickSetPasscode \/ GoConfirm \/ Back
             \/ \E p \in Passcodes : TypePasscode(p)
      PROVE  LayerInv'
  BY <1>3, ScreenLayer
<1>4. ASSUME NEW t \in Taps, TypeAgain(t) \/ SaveEncrypt(t) \/ SaveStore(t) PROVE LayerInv'
  BY <1>4, TypeAgainLayer, SaveEncryptLayer, SaveStoreLayer
<1>5. ASSUME NEW t \in Taps, SaveCrashes(t) PROVE LayerInv'
  BY <1>5, DieLayer DEF SaveCrashes
<1>6. CASE DeleteDigit
  BY <1>6 DEF DeleteDigit, Unhurried
<1>7. CASE Finish
  BY <1>7, FinishLayer
<1>8. CASE Turn
  BY <1>8, TurnLayer
<1>9. CASE Restart
  BY <1>9, DieLayer DEF Restart
<1>10. CASE Edit
  BY <1>10, ApplyLayer DEF Edit
<1> QED
  BY <1>1, <1>2, <1>3, <1>4, <1>5, <1>6, <1>7, <1>8, <1>9, <1>10 DEF Next

\* The kept data is encrypted at most once between two refills, and the salt
\* stored is always the one its layer was made with (setUserPasscode), also when
\* the device is turned while the passcode is being saved.
THEOREM OneLayerHolds == ASSUME Unhurried PROVE Spec => []OneLayer
<1>1. Init => TypeInv /\ DoorInv /\ LayerInv
  BY TypeInit, DoorInit, LayerInit
<1>2. (TypeInv /\ DoorInv /\ LayerInv) /\ [Next]_vars => (TypeInv /\ DoorInv /\ LayerInv)'
  BY TypeStep, DoorStep, LayerStep DEF Unhurried, Waits
<1>3. LayerInv => OneLayer
  <2> SUFFICES ASSUME LayerInv PROVE OneLayer
    OBVIOUS
  <2>1. ASSUME NEW n \in Clients, creatingData[n] # None
        PROVE  Len(creatingData[n].layers) <= 1
    <3>1. creatingData[n].layers = << >> \/ Len(creatingData[n].layers) = 1
      BY <2>1 DEF LayerInv
    <3>2. Len(<< >>) = 0
      OBVIOUS
    <3> DEFINE l == Len(creatingData[n].layers)
    <3>3. l = 0 \/ l = 1
      BY <3>1, <3>2
    <3> HIDE DEF l
    <3>4. l <= 1
      BY <3>3
    <3> QED BY <3>4 DEF l
  <2>2. store.pin # None =>
          \E p \in Passcodes : store.pin.layers = << [pass |-> p, salt |-> store.salt] >>
    BY DEF LayerInv, PinLayered, Layer
  <2> QED BY <2>1, <2>2 DEF OneLayer
<1> QED BY <1>1, <1>2, <1>3, PTL DEF Spec

-----------------------------------------------------------------------------
(* A careful user                                                          *)

\* The user waits for what is under way, and the device is not turned on the
\* confirmation screen or the success screen.
Careful == Haste = {} /\ Turns \cap {"confirm", "ready"} = {}

LEMMA CareInit == Init => CareInv
<1> SUFFICES ASSUME Init PROVE CareInv
  OBVIOUS
<1>1. /\ \A c \in Creations : ~JobRuns(c) /\ job[c].stage = "none" /\ job[c].client = 1
      /\ \A t \in Taps : ~SaveRuns(t)
  BY DEF Init, JobRuns, SaveRuns
<1>2. JobInv
  BY <1>1 DEF JobInv, Unfinished
<1>3. FreshInv
  BY VaultConstants DEF Init, FreshInv, NoData
<1>4. BlobInv
  BY DEF Init, BlobInv, NoData, InSetup
<1>5. \A n \in Clients : creatingData[n] = None
  BY DEF Init
<1>6. KeptInv
  <2>1. client \in Clients /\ viewModel.setup = 1 /\ client = 1
    BY VaultConstants DEF Init, Clients
  <2>2. viewModel.setup <= client /\ \A c \in Creations : job[c].client <= client
    BY <1>1, <2>1
  <2>3. creatingData[client] = None /\ \A c \in Creations : job[c].client = client
    BY <1>1, <1>5, <2>1
  <2> QED BY <1>5, <2>2, <2>3 DEF KeptInv
<1>7. SaveInv
  BY <1>1 DEF Init, SaveInv
<1>8. PromiseInv
  <2>1. ~InSetup /\ promise = None
    BY DEF Init, InSetup
  <2> QED BY <1>1, <2>1 DEF PromiseInv, SaveStored
<1> QED BY <1>2, <1>3, <1>4, <1>6, <1>7, <1>8 DEF CareInv

\* While a creation has not finished, nothing else is under way.
LEMMA Alone ==
    ASSUME CareInv, NEW c \in Creations, Unfinished(c)
    PROVE  /\ phase = "start" /\ ~InSetup /\ edits = {} /\ promise = None /\ JobRuns(c)
           /\ \A t \in Taps : ~SaveRuns(t) /\ ~SaveStored(t)
           /\ \A d \in Creations : JobRuns(d) => d = c
BY DEF CareInv, JobInv, SaveInv, Unfinished, InSetup, SaveStored

LEMMA StartCare ==
    ASSUME TypeInv, CareInv, Careful, NEW c \in Creations, Start(c) PROVE CareInv'
<1>1. /\ phase = "start" /\ Quiet /\ promise' = None
      /\ UNCHANGED <<bioAlias, pinAlias, client, creatingData, edits, store, save>>
      /\ UNCHANGED <<phase, shown, chosen, viewModel, entered>>
  BY DEF Start, Careful, keystore, screens
<1>2. /\ job[c].stage = "none" /\ job'[c].stage = "started" /\ job'[c].client = client
      /\ job'[c].alive /\ \A d \in Creations : d # c => job'[d] = job[d]
  BY StartFacts DEF TypeInv
<1>3. /\ edits = {} /\ \A d \in Creations : ~JobRuns(d)
      /\ \A t \in Taps : ~SaveRuns(t)
  BY <1>1 DEF Quiet
<1>4. /\ \A d \in Creations : d # c => ~JobRuns(d)'
      /\ \A t \in Taps : ~SaveRuns(t)'
  BY <1>1, <1>2, <1>3 DEF JobRuns, SaveRuns
<1>5. JobInv'
  BY <1>1, <1>2, <1>3, <1>4 DEF JobInv, Unfinished
<1>6. FreshInv'
  BY <1>1, <1>2 DEF CareInv, FreshInv
<1>7. BlobInv'
  BY <1>1, <1>3 DEF CareInv, BlobInv, InSetup
<1>8. KeptInv'
  <2>1. client \in Nat
    BY Parts, VaultConstants DEF Clients
  <2>2. viewModel'.setup <= client' /\ \A d \in Creations : job'[d].client <= client'
    BY <1>1, <1>2, <2>1 DEF CareInv, KeptInv
  <2>3. \A d \in Creations : Unfinished(d)' => job'[d].client = client'
    BY <1>1, <1>2, <1>4 DEF Unfinished
  <2>4. \A n \in Clients : creatingData'[n] # None => creatingData'[n].layers = << >>
    BY <1>1, <1>3 DEF CareInv, KeptInv
  <2> QED BY <1>1, <2>2, <2>3, <2>4 DEF CareInv, KeptInv
<1>9. SaveInv'
  BY <1>1, <1>4 DEF CareInv, SaveInv
<1>10. PromiseInv'
  <2>1. ~InSetup' /\ \A t \in Taps : ~SaveStored(t)'
    BY <1>1, <1>4 DEF InSetup, SaveStored
  <2>2. \A d \in Creations : JobRuns(d)' /\ store'.pin # None => store'.pin.key # d
    BY <1>1, <1>2, <1>4 DEF CareInv, FreshInv
  <2> QED BY <1>1, <2>1, <2>2 DEF PromiseInv
<1> QED BY <1>5, <1>6, <1>7, <1>8, <1>9, <1>10 DEF CareInv

\* The first key pair of a creation is made.
LEMMA NewBioKeyCare ==
    ASSUME TypeInv, CareInv, NEW c \in Creations, NewBioKey(c) PROVE CareInv'
<1>1. /\ bioAlias' = c /\ job[c].alive
      /\ UNCHANGED <<pinAlias, client, creatingData, edits, store, save, promise, lost>>
      /\ UNCHANGED <<phase, shown, chosen, viewModel, entered>>
  BY DEF NewBioKey, screens, history
<1>2. /\ job[c].stage = "started" /\ job'[c].stage = "bioKey" /\ job'[c].client = job[c].client
      /\ \A d \in Creations : d # c => job'[d] = job[d]
  BY StepFacts DEF NewBioKey, TypeInv, Stages
<1>3. Unfinished(c)
  BY <1>1, <1>2 DEF Unfinished, JobRuns
<1>4. /\ phase = "start" /\ ~InSetup /\ edits = {} /\ promise = None
      /\ \A t \in Taps : ~SaveRuns(t)
      /\ \A d \in Creations : JobRuns(d) => d = c
  BY <1>3, Alone
<1>5. /\ \A d \in Creations : JobRuns(d)' => d = c
      /\ \A t \in Taps : ~SaveRuns(t)'
  BY <1>1, <1>2, <1>4 DEF JobRuns, SaveRuns
<1>6. JobInv'
  BY <1>1, <1>2, <1>4, <1>5 DEF JobInv, Unfinished
<1>7. FreshInv'
  BY <1>1, <1>2 DEF CareInv, FreshInv
<1>8. BlobInv'
  <2>1. store.bio # None => store.bio.alias # c
    BY <1>2 DEF CareInv, FreshInv, BlobInv
  <2> QED BY <1>1, <1>4, <2>1 DEF CareInv, BlobInv, InSetup
<1>9. KeptInv'
  <2>1. \A d \in Creations : job'[d].client <= client
    BY <1>2 DEF CareInv, KeptInv
  <2>2. \A d \in Creations : Unfinished(d)' /\ job'[d].client # client => creatingData[client] = None
    BY <1>2, <1>3, <1>5 DEF CareInv, KeptInv, Unfinished
  <2>3. \A n \in Clients : creatingData[n] # None => creatingData[n].layers = << >>
    BY <1>4 DEF CareInv, KeptInv
  <2> QED BY <1>1, <2>1, <2>2, <2>3 DEF CareInv, KeptInv
<1>10. SaveInv'
  BY <1>1, <1>5 DEF CareInv, SaveInv
<1>11. PromiseInv'
  <2>1. ~InSetup' /\ \A t \in Taps : ~SaveStored(t)'
    BY <1>1, <1>4, <1>5 DEF InSetup, SaveStored
  <2>2. \A d \in Creations : JobRuns(d)' /\ store'.pin # None => store'.pin.key # d
    BY <1>1, <1>2, <1>5 DEF CareInv, FreshInv
  <2> QED BY <1>1, <1>4, <2>1, <2>2 DEF PromiseInv
<1> QED BY <1>6, <1>7, <1>8, <1>9, <1>10, <1>11 DEF CareInv

\* The second key pair of a creation is made.
LEMMA NewPinKeyCare ==
    ASSUME TypeInv, CareInv, NEW c \in Creations, NewPinKey(c) PROVE CareInv'
<1>1. /\ pinAlias' = c /\ creatingData' = [creatingData EXCEPT ![job[c].client] = None]
      /\ UNCHANGED <<bioAlias, client, edits, store, save, promise, lost>>
      /\ UNCHANGED <<phase, shown, chosen, viewModel, entered>>
  BY DEF NewPinKey, screens, history
<1>2. /\ job[c].stage = "bioKey" /\ job'[c].stage = "keys" /\ job'[c].client = job[c].client
      /\ \A d \in Creations : d # c => job'[d] = job[d]
  BY StepFacts DEF NewPinKey, TypeInv, Stages
<1>3. Unfinished(c)
  BY <1>1, <1>2 DEF Unfinished, JobRuns
<1>4. /\ phase = "start" /\ ~InSetup /\ edits = {} /\ promise = None /\ JobRuns(c)
      /\ \A t \in Taps : ~SaveRuns(t)
      /\ \A d \in Creations : JobRuns(d) => d = c
  BY <1>3, Alone
<1>5. /\ \A d \in Creations : JobRuns(d)' => d = c
      /\ \A t \in Taps : ~SaveRuns(t)'
  BY <1>1, <1>2, <1>4 DEF JobRuns, SaveRuns
<1>6. bioAlias = c
  BY <1>2, <1>4 DEF CareInv, JobInv
<1>7. JobInv'
  BY <1>1, <1>2, <1>4, <1>5, <1>6 DEF JobInv, Unfinished
<1>8. FreshInv'
  BY <1>1, <1>2 DEF CareInv, FreshInv
<1>9. BlobInv'
  <2>1. store.bio # None => store.bio.alias # c
    BY <1>2 DEF CareInv, FreshInv, BlobInv
  <2> QED BY <1>1, <1>4, <1>6, <2>1 DEF CareInv, BlobInv, InSetup
<1>10. \A n \in Clients : creatingData'[n] = creatingData[n] \/ creatingData'[n] = None
  BY <1>1, Parts
<1>11. KeptInv'
  <2>1. \A d \in Creations : job'[d].client <= client
    BY <1>2 DEF CareInv, KeptInv
  <2>2. client \in Clients /\ job[c].client \in Clients
    BY Parts DEF Jobs
  <2>3. creatingData'[client] = None
    BY <1>1, <1>3, <2>2, Parts DEF CareInv, KeptInv
  <2>4. \A n \in Clients : creatingData[n] # None => creatingData[n].layers = << >>
    BY <1>4 DEF CareInv, KeptInv
  <2>5. \A n \in Clients : creatingData'[n] # None => creatingData'[n].layers = << >>
    BY <1>10, <2>4
  <2>6. \A n \in Clients : n > client => creatingData'[n] = None
    BY <1>10 DEF CareInv, KeptInv
  <2>7. viewModel'.setup <= client'
    BY <1>1 DEF CareInv, KeptInv
  <2> QED BY <1>1, <2>1, <2>3, <2>5, <2>6, <2>7 DEF KeptInv
<1>12. SaveInv'
  BY <1>1, <1>4, <1>5 DEF CareInv, SaveInv
<1>13. PromiseInv'
  <2>1. ~InSetup' /\ \A t \in Taps : ~SaveStored(t)'
    BY <1>1, <1>4, <1>5 DEF InSetup, SaveStored
  <2>2. \A d \in Creations : JobRuns(d)' /\ store'.pin # None => store'.pin.key # d
    BY <1>1, <1>2, <1>5 DEF CareInv, FreshInv
  <2> QED BY <1>1, <1>4, <2>1, <2>2 DEF PromiseInv
<1> QED BY <1>7, <1>8, <1>9, <1>11, <1>12, <1>13 DEF CareInv

\* A creation that has its pairs goes on, or fails.
LEMMA GoesOn ==
    ASSUME TypeInv, CareInv, NEW c \in Creations, Unfinished(c), job[c].stage \in {"keys", "saved"},
           UNCHANGED <<bioAlias, pinAlias, client, creatingData, edits, store, save, promise, lost>>,
           UNCHANGED <<phase, shown, chosen, viewModel, entered>>,
           job'[c].client = job[c].client, job'[c].stage \in {"saved", "bioDone", "ended"},
           job'[c].stage = "bioDone" => job'[c].blob = [alias |-> bioAlias, key |-> c],
           \A d \in Creations : d # c => job'[d] = job[d]
    PROVE  CareInv'
<1>1. /\ phase = "start" /\ ~InSetup /\ edits = {} /\ promise = None /\ JobRuns(c)
      /\ \A t \in Taps : ~SaveRuns(t)
      /\ \A d \in Creations : JobRuns(d) => d = c
  BY Alone
<1>2. /\ \A d \in Creations : JobRuns(d)' => d = c
      /\ \A t \in Taps : ~SaveRuns(t)'
  BY <1>1 DEF JobRuns, SaveRuns
<1>3. bioAlias = c /\ pinAlias = c
  BY <1>1 DEF CareInv, JobInv
<1>4. JobInv'
  BY <1>1, <1>2, <1>3 DEF JobInv, Unfinished
<1>5. FreshInv'
  BY DEF CareInv, FreshInv
<1>6. BlobInv'
  BY <1>1 DEF CareInv, BlobInv, InSetup
<1>7. KeptInv'
  <2>1. \A d \in Creations : job'[d].client <= client
    BY DEF CareInv, KeptInv
  <2>2. \A d \in Creations : Unfinished(d)' /\ job'[d].client # client => creatingData[client] = None
    BY <1>2 DEF CareInv, KeptInv, Unfinished
  <2>3. \A n \in Clients : creatingData[n] # None => creatingData[n].layers = << >>
    BY <1>1 DEF CareInv, KeptInv
  <2> QED BY <2>1, <2>2, <2>3 DEF CareInv, KeptInv
<1>8. SaveInv'
  BY <1>2 DEF CareInv, SaveInv
<1>9. PromiseInv'
  <2>1. ~InSetup' /\ \A t \in Taps : ~SaveStored(t)'
    BY <1>1, <1>2 DEF InSetup, SaveStored
  <2>2. \A d \in Creations : JobRuns(d)' /\ store'.pin # None => store'.pin.key # d
    BY <1>2 DEF CareInv, FreshInv
  <2> QED BY <1>1, <2>1, <2>2 DEF PromiseInv
<1> QED BY <1>4, <1>5, <1>6, <1>7, <1>8, <1>9 DEF CareInv

LEMMA GoesOnCare ==
    ASSUME TypeInv, CareInv, NEW c \in Creations, CreateFails(c) \/ SaveWallet(c) \/ FinishBio(c)
    PROVE  CareInv'
<1>1. /\ UNCHANGED <<bioAlias, pinAlias, client, creatingData, edits, store, save, promise, lost>>
      /\ UNCHANGED <<phase, shown, chosen, viewModel, entered>>
      /\ job[c].alive
  BY DEF CreateFails, SaveWallet, FinishBio, keystore, screens, history
<1>2. /\ job[c].stage \in {"keys", "saved"} /\ job'[c].client = job[c].client
      /\ job'[c].stage \in {"saved", "bioDone", "ended"}
      /\ job'[c].stage = "bioDone" => job'[c].blob = [alias |-> bioAlias, key |-> c]
      /\ \A d \in Creations : d # c => job'[d] = job[d]
  <2>1. CASE CreateFails(c)
    BY <2>1, StepFacts DEF CreateFails, TypeInv, Stages
  <2>2. CASE SaveWallet(c)
    BY <2>2, StepFacts DEF SaveWallet, TypeInv, Stages
  <2>3. CASE FinishBio(c)
    BY <2>3, FinishBioFacts DEF TypeInv
  <2> QED BY <2>1, <2>2, <2>3
<1>3. Unfinished(c)
  BY <1>1, <1>2 DEF Unfinished, JobRuns
<1> QED BY <1>1, <1>2, <1>3, GoesOn

\* A creation finishes: its data is kept and its biometric blob is to be stored.
LEMMA FinishPinCare ==
    ASSUME TypeInv, CareInv, NEW c \in Creations, FinishPin(c) PROVE CareInv'
<1> DEFINE n == job[c].client
           e == [NoData EXCEPT !.bio = job[c].blob]
           k == [key |-> c, layers |-> << >>]
<1>1. /\ creatingData' = [creatingData EXCEPT ![n] = k]
      /\ edits' = IF n = client THEN edits \cup {e} ELSE edits
      /\ UNCHANGED <<bioAlias, pinAlias, client, store, save, promise, lost>>
      /\ UNCHANGED <<phase, shown, chosen, viewModel, entered>>
  BY DEF FinishPin, Launched, keystore, screens, history
<1>2. /\ job[c].stage = "bioDone" /\ job'[c].stage = "finished" /\ job'[c].client = job[c].client
      /\ \A d \in Creations : d # c => job'[d] = job[d]
  BY StepFacts DEF FinishPin, TypeInv, Stages
<1>3. Unfinished(c)
  BY <1>2 DEF Unfinished, JobRuns
<1>4. /\ phase = "start" /\ ~InSetup /\ edits = {} /\ promise = None /\ JobRuns(c)
      /\ \A t \in Taps : ~SaveRuns(t)
      /\ \A d \in Creations : JobRuns(d) => d = c
  BY <1>3, Alone
<1>5. /\ \A d \in Creations : JobRuns(d)' => d = c
      /\ \A t \in Taps : ~SaveRuns(t)'
  BY <1>1, <1>2, <1>4 DEF JobRuns, SaveRuns
<1>6. bioAlias = c /\ pinAlias = c /\ job[c].blob = [alias |-> c, key |-> c]
  BY <1>2, <1>4 DEF CareInv, JobInv
<1>7. e.bio = [alias |-> c, key |-> c] /\ e.pub = None /\ e.pin = None /\ e.salt = None
  BY <1>6 DEF NoData
<1> HIDE DEF e
<1>8. \A f \in edits' : f = e
  BY <1>1, <1>4
<1>9. k.key = c /\ k.layers = << >>
  OBVIOUS
<1> HIDE DEF k
<1>10. n \in Clients /\ client \in Clients /\ n <= client
  BY Parts DEF Jobs, CareInv, KeptInv
<1>11. creatingData'[n] = k /\ \A m \in Clients : m # n => creatingData'[m] = creatingData[m]
  BY <1>1, <1>10, Parts
<1> HIDE DEF n
<1>12. JobInv'
  BY <1>1, <1>2, <1>4, <1>5, <1>6 DEF JobInv, Unfinished
<1>13. FreshInv'
  BY <1>1, <1>2, <1>7, <1>8 DEF CareInv, FreshInv
<1>14. BlobInv'
  BY <1>1, <1>4, <1>6, <1>7, <1>8 DEF CareInv, BlobInv, InSetup
<1>15. KeptInv'
  <2>1. \A d \in Creations : job'[d].client <= client
    BY <1>2 DEF CareInv, KeptInv
  <2>2. \A d \in Creations : ~Unfinished(d)'
    BY <1>2, <1>5 DEF Unfinished
  <2>3. creatingData'[client] # None => creatingData'[client].key = pinAlias
    BY <1>6, <1>9, <1>10, <1>11 DEF CareInv, KeptInv
  <2>4. \A m \in Clients : m > client => creatingData'[m] = None
    BY <1>10, <1>11 DEF CareInv, KeptInv, Clients
  <2>5. \A m \in Clients : creatingData[m] # None => creatingData[m].layers = << >>
    BY <1>4 DEF CareInv, KeptInv
  <2>6. \A m \in Clients : creatingData'[m] # None => creatingData'[m].layers = << >>
    BY <1>9, <1>11, <2>5
  <2> QED BY <1>1, <2>1, <2>2, <2>3, <2>4, <2>6 DEF CareInv, KeptInv
<1>16. SaveInv'
  BY <1>1, <1>4, <1>5 DEF CareInv, SaveInv
<1>17. PromiseInv'
  <2>1. ~InSetup' /\ \A t \in Taps : ~SaveStored(t)'
    BY <1>1, <1>4, <1>5 DEF InSetup, SaveStored
  <2>2. \A d \in Creations : JobRuns(d)' /\ store'.pin # None => store'.pin.key # d
    BY <1>1, <1>2, <1>5 DEF CareInv, FreshInv
  <2> QED BY <1>1, <1>4, <2>1, <2>2 DEF PromiseInv
<1> QED BY <1>12, <1>13, <1>14, <1>15, <1>16, <1>17 DEF CareInv

\* The words of a finished creation are shown.
LEMMA ShowCare ==
    ASSUME TypeInv, CareInv, NEW c \in Creations, Show(c) PROVE CareInv'
<1>1. /\ phase = "start" /\ phase' = "perfect" /\ shown' = c
      /\ job[c].alive /\ job[c].stage = "finished"
      /\ UNCHANGED <<bioAlias, pinAlias, client, creatingData, edits, store, save, promise, lost>>
      /\ UNCHANGED <<chosen, viewModel, entered>>
  BY DEF Show, keystore, history
<1>2. \A d \in Creations : /\ job'[d].stage = job[d].stage /\ job'[d].client = job[d].client
                           /\ job'[d].blob = job[d].blob /\ (job'[d].alive => job[d].alive)
  BY CancelFacts DEF Show, TypeInv
<1>3. JobRuns(c) /\ ~Unfinished(c)
  BY <1>1 DEF JobRuns, Unfinished
<1>4. /\ \A d \in Creations : JobRuns(d) => d = c
      /\ bioAlias = c /\ pinAlias = c /\ promise = None
  BY <1>1, <1>3 DEF CareInv, JobInv
<1>5. \A d \in Creations : (JobRuns(d)' => d = c) /\ ~Unfinished(d)'
  BY <1>1, <1>2, <1>4 DEF JobRuns, Unfinished
<1>6. \A t \in Taps : ~SaveRuns(t) /\ ~SaveRuns(t)'
  BY <1>1 DEF CareInv, SaveInv, SaveRuns
<1>7. JobInv'
  BY <1>1, <1>2, <1>4, <1>5 DEF JobInv
<1>8. FreshInv'
  BY <1>1, <1>2 DEF CareInv, FreshInv
<1>9. store.pin # None => store.pin.key # c
  BY <1>3, <1>6 DEF CareInv, PromiseInv, SaveStored
<1>10. \A e \in edits : e.pin = None
  BY <1>1, <1>6 DEF CareInv, BlobInv, SaveStored
<1>11. BlobInv'
  BY <1>1, <1>4, <1>10 DEF CareInv, BlobInv
<1>12. KeptInv'
  BY <1>1, <1>2, <1>5, <1>6 DEF CareInv, KeptInv
<1>13. SaveInv'
  BY <1>1, <1>6 DEF CareInv, SaveInv
<1>14. PromiseInv'
  BY <1>1, <1>4, <1>5, <1>6, <1>9 DEF PromiseInv, SaveStored
<1> QED BY <1>7, <1>8, <1>11, <1>12, <1>13, <1>14 DEF CareInv

\* Outside the confirmation screen no passcode is being saved, and no edit of one
\* is under way before the success screen.
LEMMA NoSaves ==
    ASSUME CareInv, phase # "confirm"
    PROVE  /\ \A t \in Taps : ~SaveRuns(t) /\ ~SaveStored(t)
           /\ phase # "ready" =>
                /\ \A e \in edits : e.pin = None
                /\ \A n \in Clients : creatingData[n] # None => creatingData[n].layers = << >>
<1>1. \A t \in Taps : ~SaveRuns(t) /\ ~SaveStored(t)
  BY DEF CareInv, SaveInv, SaveStored
<1> QED BY <1>1 DEF CareInv, BlobInv, KeptInv

\* The user goes on from the words to the passcode.
LEMMA ClickCare == ASSUME TypeInv, CareInv, ClickSetPasscode PROVE CareInv'
<1> DEFINE e == [NoData EXCEPT !.pub = shown]
<1>1. /\ phase = "perfect" /\ phase' = "setup" /\ edits' = edits \cup {e}
      /\ viewModel'.setup = client
      /\ UNCHANGED <<bioAlias, pinAlias, client, creatingData, job, store, save, promise, lost>>
      /\ UNCHANGED <<shown, chosen, entered>>
  BY Parts DEF ClickSetPasscode, Launched, keystore, history
<1>2. e.pub = shown /\ e.bio = None /\ e.pin = None /\ e.salt = None
  BY DEF NoData
<1> HIDE DEF e
<1>3. InSetup /\ InSetup' /\ shown # None /\ bioAlias = shown /\ pinAlias = shown
  BY <1>1 DEF InSetup, CareInv, BlobInv, TypeInv, ScreenInv
<1>4. /\ \A c \in Creations : (JobRuns(c)' <=> JobRuns(c)) /\ ~Unfinished(c) /\ ~Unfinished(c)'
      /\ \A t \in Taps : ~SaveRuns(t) /\ ~SaveRuns(t)'
  BY <1>1, NoSaves DEF CareInv, JobInv, JobRuns, Unfinished, SaveRuns
<1>5. promise = None
  BY <1>1 DEF CareInv, PromiseInv
<1>6. JobInv'
  BY <1>1, <1>4 DEF CareInv, JobInv
<1>7. FreshInv'
  BY <1>1, <1>2 DEF CareInv, FreshInv
<1>8. BlobInv'
  BY <1>1, <1>2, <1>3, NoSaves DEF CareInv, BlobInv
<1>9. KeptInv'
  <2>1. client <= client
    BY Parts DEF Clients
  <2> QED BY <1>1, <1>4, <2>1, NoSaves DEF CareInv, KeptInv
<1>10. SaveInv'
  BY <1>1, <1>4 DEF CareInv, SaveInv
<1>11. PromiseInv'
  <2>1. PubDone'
    BY <1>1, <1>2, <1>3 DEF PubDone
  <2>2. ~lost /\ store.pin # None /\ store.pin.key = shown => store.pub = shown
    BY <1>3, <1>4 DEF CareInv, PromiseInv, SaveStored
  <2>3. \A c \in Creations : JobRuns(c)' /\ store.pin # None => store.pin.key # c
    BY <1>4 DEF CareInv, PromiseInv, SaveStored
  <2> QED BY <1>1, <1>4, <1>5, <2>1, <2>2, <2>3 DEF PromiseInv, SaveStored
<1> QED BY <1>6, <1>7, <1>8, <1>9, <1>10, <1>11 DEF CareInv

\* The passcode is chosen, and may open what is stored.
LEMMA TypePasscodeCare ==
    ASSUME TypeInv, CareInv, NEW p \in Passcodes, TypePasscode(p) PROVE CareInv'
<1> DEFINE n == viewModel.setup
           k == [key |-> store.pin.key, layers |-> << >>]
<1>1. /\ phase = "setup"
      /\ creatingData' = IF Opens(p) THEN [creatingData EXCEPT ![n] = k] ELSE creatingData
      /\ UNCHANGED <<bioAlias, pinAlias, client, job, edits, store, save, promise, lost>>
      /\ UNCHANGED <<phase, shown, chosen, viewModel, entered>>
  BY DEF TypePasscode, keystore, history
<1>2. n \in Clients /\ client \in Clients /\ n <= client
  BY Parts DEF CareInv, KeptInv
<1>3. InSetup /\ bioAlias = shown /\ pinAlias = shown
  BY <1>1 DEF InSetup, CareInv, BlobInv
<1>4. Opens(p) => k.key = pinAlias /\ store.pin # None /\ store.pin.key = shown
  BY <1>3 DEF Opens, CareInv, BlobInv
<1>5. k.layers = << >>
  OBVIOUS
<1> HIDE DEF k
<1>6. /\ creatingData'[n] = creatingData[n] \/ (Opens(p) /\ creatingData'[n] = k)
      /\ \A m \in Clients : m # n => creatingData'[m] = creatingData[m]
  BY <1>1, <1>2, Parts
<1> HIDE DEF n
<1>7. /\ \A c \in Creations : (JobRuns(c)' <=> JobRuns(c)) /\ ~Unfinished(c) /\ ~Unfinished(c)'
      /\ \A t \in Taps : ~SaveRuns(t) /\ ~SaveRuns(t)'
  BY <1>1, NoSaves DEF CareInv, JobInv, JobRuns, Unfinished, SaveRuns
<1>8. JobInv'
  BY <1>1, <1>7 DEF CareInv, JobInv
<1>9. FreshInv'
  BY <1>1 DEF CareInv, FreshInv
<1>10. BlobInv'
  BY <1>1, NoSaves DEF CareInv, BlobInv, InSetup
<1>11. KeptInv'
  <2>1. creatingData'[client] # None => creatingData'[client].key = pinAlias
    BY <1>2, <1>4, <1>6 DEF CareInv, KeptInv
  <2>2. \A m \in Clients : m > client => creatingData'[m] = None
    BY <1>2, <1>6 DEF CareInv, KeptInv, Clients
  <2>3. \A m \in Clients : creatingData'[m] # None => creatingData'[m].layers = << >>
    BY <1>1, <1>5, <1>6, NoSaves
  <2> QED BY <1>1, <1>7, <2>1, <2>2, <2>3 DEF CareInv, KeptInv
<1>12. SaveInv'
  BY <1>1, <1>7 DEF CareInv, SaveInv
<1>13. PromiseInv'
  <2>1. promise = None
    BY <1>1 DEF CareInv, PromiseInv
  <2>2. ~lost /\ store.pin # None /\ store.pin.key = shown => store.pub = shown
    BY <1>3, <1>7 DEF CareInv, PromiseInv, SaveStored
  <2>3. \A c \in Creations : JobRuns(c)' /\ store.pin # None => store.pin.key # c
    BY <1>7 DEF CareInv, PromiseInv, SaveStored
  <2>4. ~lost /\ creatingData'[client] # None => PubDone
    <3>1. CASE Opens(p)
      BY <1>4, <2>2, <3>1 DEF PubDone
    <3>2. CASE ~Opens(p)
      BY <1>1, <1>3, <3>2 DEF CareInv, PromiseInv
    <3> QED BY <3>1, <3>2
  <2>5. PubDone' = PubDone
    BY <1>1 DEF PubDone
  <2> QED BY <1>1, <1>7, <2>1, <2>2, <2>3, <2>4, <2>5 DEF PromiseInv, SaveStored
<1> QED BY <1>8, <1>9, <1>10, <1>11, <1>12, <1>13 DEF CareInv

\* The confirmation screen is opened.
LEMMA GoConfirmCare == ASSUME TypeInv, CareInv, GoConfirm PROVE CareInv'
<1>1. /\ phase = "setup" /\ phase' = "confirm" /\ entered' = None
      /\ viewModel'.confirm = client /\ viewModel'.setup = viewModel.setup
      /\ UNCHANGED <<bioAlias, pinAlias, client, creatingData, job, edits, store, save>>
      /\ UNCHANGED <<shown, promise, lost>>
  BY Parts DEF GoConfirm, keystore, history
<1>2. InSetup /\ InSetup'
  BY <1>1 DEF InSetup
<1>3. /\ \A c \in Creations : (JobRuns(c)' <=> JobRuns(c)) /\ ~Unfinished(c) /\ ~Unfinished(c)'
      /\ \A t \in Taps : ~SaveRuns(t) /\ ~SaveRuns(t)'
  BY <1>1, NoSaves DEF CareInv, JobInv, JobRuns, Unfinished, SaveRuns
<1>4. JobInv'
  BY <1>1, <1>3 DEF CareInv, JobInv
<1>5. FreshInv'
  BY <1>1 DEF CareInv, FreshInv
<1>6. BlobInv'
  BY <1>1, <1>2, NoSaves DEF CareInv, BlobInv
<1>7. KeptInv'
  BY <1>1, <1>3, NoSaves DEF CareInv, KeptInv
<1>8. SaveInv'
  BY <1>1, <1>3 DEF CareInv, SaveInv
<1>9. PromiseInv'
  <2>1. promise = None
    BY <1>1 DEF CareInv, PromiseInv
  <2>2. PubDone' = PubDone
    BY <1>1 DEF PubDone
  <2> QED BY <1>1, <1>2, <1>3, <2>1, <2>2 DEF CareInv, PromiseInv, SaveStored
<1> QED BY <1>4, <1>5, <1>6, <1>7, <1>8, <1>9 DEF CareInv

\* The passcode is confirmed.
LEMMA TypeAgainCare ==
    ASSUME TypeInv, CareInv, Careful, NEW t \in Taps, TypeAgain(t) PROVE CareInv'
<1> DEFINE s == [stage |-> "launched", client |-> viewModel.confirm, alive |-> TRUE]
<1>1. /\ phase = "confirm" /\ entered = None /\ entered' = chosen /\ save' = [save EXCEPT ![t] = s]
      /\ UNCHANGED <<bioAlias, pinAlias, client, creatingData, job, edits, store, promise, lost>>
      /\ UNCHANGED <<phase, shown, chosen, viewModel>>
  BY DEF TypeAgain, Careful, keystore, history
<1>2. InSetup /\ InSetup' /\ chosen # None /\ viewModel.confirm = client
  BY <1>1 DEF InSetup, TypeInv, ScreenInv, CareInv, SaveInv
<1>3. s.stage = "launched" /\ s.client = client /\ s.alive
  BY <1>2
<1> HIDE DEF s
<1>4. save'[t] = s /\ \A u \in Taps : u # t => save'[u] = save[u]
  BY <1>1, Parts
<1>5. \A u \in Taps : ~SaveRuns(u)
  BY <1>1, <1>2 DEF CareInv, SaveInv
<1>6. /\ \A c \in Creations : (JobRuns(c)' <=> JobRuns(c)) /\ ~Unfinished(c) /\ ~Unfinished(c)'
      /\ \A u \in Taps : (SaveRuns(u)' => u = t) /\ ~SaveStored(u) /\ ~SaveStored(u)'
  BY <1>1, <1>3, <1>4, <1>5 DEF CareInv, JobInv, JobRuns, Unfinished, SaveRuns, SaveStored
<1>7. JobInv'
  BY <1>1, <1>6 DEF CareInv, JobInv
<1>8. FreshInv'
  BY <1>1 DEF CareInv, FreshInv
<1>9. BlobInv'
  BY <1>1, <1>2, <1>6 DEF CareInv, BlobInv
<1>10. KeptInv'
  <2>1. \A n \in Clients : creatingData[n] # None => creatingData[n].layers = << >>
    BY <1>1, <1>5 DEF CareInv, KeptInv
  <2> QED BY <1>1, <1>6, <2>1 DEF CareInv, KeptInv
<1>11. SaveInv'
  BY <1>1, <1>2, <1>3, <1>4, <1>6 DEF SaveInv
<1>12. PromiseInv'
  <2>1. promise = None
    BY <1>1 DEF CareInv, PromiseInv
  <2>2. PubDone' = PubDone
    BY <1>1 DEF PubDone
  <2> QED BY <1>1, <1>2, <1>6, <2>1, <2>2 DEF CareInv, PromiseInv
<1> QED BY <1>7, <1>8, <1>9, <1>10, <1>11, <1>12 DEF CareInv

\* The kept data is encrypted under the passcode.
LEMMA SaveEncryptCare ==
    ASSUME TypeInv, CareInv, NEW t \in Taps, SaveEncrypt(t) PROVE CareInv'
<1> DEFINE k == creatingData[client]
<1>1. /\ save' = [save EXCEPT ![t].stage = "encrypted"] /\ save[t].alive
      /\ save[t].stage = "launched" /\ creatingData[save[t].client] # None
      /\ UNCHANGED <<bioAlias, pinAlias, client, job, edits, store, promise, lost>>
      /\ UNCHANGED <<phase, shown, chosen, viewModel, entered>>
  BY DEF SaveEncrypt, keystore, screens, history
<1>2. SaveRuns(t)
  BY <1>1 DEF SaveRuns
<1>3. /\ phase = "confirm" /\ entered = chosen /\ save[t].client = client
      /\ \A u \in Taps : SaveRuns(u) => u = t
  BY <1>2 DEF CareInv, SaveInv
<1>4. InSetup /\ InSetup'
  BY <1>1, <1>3 DEF InSetup
<1>5. /\ save'[t].stage = "encrypted" /\ save'[t].client = client /\ save'[t].alive
      /\ \A u \in Taps : u # t => save'[u] = save[u]
  BY <1>1, <1>3, SaveFacts DEF TypeInv
<1>6. /\ \A c \in Creations : (JobRuns(c)' <=> JobRuns(c)) /\ ~Unfinished(c) /\ ~Unfinished(c)'
      /\ \A u \in Taps : (SaveRuns(u)' => u = t) /\ ~SaveStored(u) /\ ~SaveStored(u)'
  BY <1>1, <1>3, <1>5 DEF CareInv, JobInv, JobRuns, Unfinished, SaveRuns, SaveStored
<1>7. \A n \in Clients : creatingData[n] # None => creatingData[n].layers = << >>
  BY <1>1, <1>3 DEF CareInv, KeptInv
<1>8. /\ client \in Clients /\ k \in Kept /\ k.layers = << >>
      /\ creatingData'[client] = [k EXCEPT !.layers = Append(k.layers, [pass |-> chosen, salt |-> t])]
      /\ \A m \in Clients : m # client => creatingData'[m] = creatingData[m]
      /\ creatingData'[client] \in Kept
  BY <1>1, <1>3, <1>7, EncryptFacts
<1>9. Append(k.layers, [pass |-> chosen, salt |-> t]) = Layer(chosen, t)
  BY <1>8 DEF Layer
<1>10. creatingData'[client].key = k.key /\ creatingData'[client].layers = Layer(chosen, t)
  BY <1>8, <1>9 DEF Kept
<1>11. creatingData'[client] # None
  BY <1>8, NoneIsNoRecord
<1>12. k # None /\ k.key = pinAlias
  BY <1>1, <1>3 DEF CareInv, KeptInv
<1> HIDE DEF k
<1>13. JobInv'
  BY <1>1, <1>6 DEF CareInv, JobInv
<1>14. FreshInv'
  BY <1>1 DEF CareInv, FreshInv
<1>15. BlobInv'
  BY <1>1, <1>4, <1>6 DEF CareInv, BlobInv
<1>16. KeptInv'
  <2>1. Len(Layer(chosen, t)) = 1
    BY DEF Layer
  <2>2. SaveRuns(t)' /\ save'[t].stage # "launched"
    BY <1>5 DEF SaveRuns
  <2>3. \A m \in Clients : creatingData'[m] # None =>
          creatingData'[m].layers = << >> \/ Len(creatingData'[m].layers) = 1
    BY <1>7, <1>8, <1>10, <2>1
  <2>4. \A m \in Clients : m > client => creatingData'[m] = None
    BY <1>8 DEF CareInv, KeptInv, Clients
  <2> QED BY <1>1, <1>6, <1>10, <1>12, <2>2, <2>3, <2>4 DEF CareInv, KeptInv
<1>17. SaveInv'
  BY <1>1, <1>3, <1>5, <1>6, <1>10, <1>11 DEF CareInv, SaveInv
<1>18. PromiseInv'
  <2>1. promise = None
    BY <1>3 DEF CareInv, PromiseInv
  <2>2. PubDone' = PubDone
    BY <1>1 DEF PubDone
  <2> QED BY <1>1, <1>3, <1>4, <1>6, <2>1, <2>2, <1>12 DEF CareInv, PromiseInv, k
<1> QED BY <1>13, <1>14, <1>15, <1>16, <1>17, <1>18 DEF CareInv

\* The encrypted data is to be stored.
LEMMA SaveStoreCare ==
    ASSUME TypeInv, CareInv, NEW t \in Taps, SaveStore(t) PROVE CareInv'
<1> DEFINE k == creatingData[save[t].client]
           pin == [alias |-> pinAlias, key |-> k.key, layers |-> k.layers]
           e == [NoData EXCEPT !.pin = pin, !.salt = t]
<1>1. /\ save' = [save EXCEPT ![t].stage = "stored"] /\ save[t].stage = "encrypted"
      /\ edits' = Launched(save[t].client, e) /\ k # None
      /\ UNCHANGED <<bioAlias, pinAlias, client, creatingData, job, store, promise, lost>>
      /\ UNCHANGED <<phase, shown, chosen, viewModel, entered>>
  BY DEF SaveStore, keystore, screens, history
<1>2. SaveRuns(t)
  BY <1>1 DEF SaveRuns
<1>3. /\ phase = "confirm" /\ entered = chosen /\ save[t].client = client /\ save[t].alive
      /\ \A u \in Taps : SaveRuns(u) => u = t
      /\ creatingData[client] # None /\ creatingData[client].layers = Layer(chosen, t)
  BY <1>1, <1>2 DEF CareInv, SaveInv
<1>4. /\ InSetup /\ InSetup' /\ bioAlias = shown /\ pinAlias = shown /\ chosen # None
      /\ promise = None
  BY <1>1, <1>3 DEF InSetup, CareInv, BlobInv, PromiseInv, TypeInv, ScreenInv
<1>5. /\ save'[t].stage = "stored" /\ save'[t].client = client /\ save'[t].alive
      /\ \A u \in Taps : u # t => save'[u] = save[u]
  BY <1>1, <1>3, SaveFacts DEF TypeInv
<1>6. /\ \A c \in Creations : (JobRuns(c)' <=> JobRuns(c)) /\ ~Unfinished(c) /\ ~Unfinished(c)'
      /\ \A u \in Taps : (SaveRuns(u)' => u = t) /\ ~SaveStored(u)
      /\ SaveStored(t)' /\ SaveRuns(t)'
  BY <1>1, <1>3, <1>5 DEF CareInv, JobInv, JobRuns, Unfinished, SaveRuns, SaveStored
<1>7. pin = [alias |-> pinAlias, key |-> pinAlias, layers |-> Layer(chosen, t)]
  BY <1>3 DEF CareInv, KeptInv
<1>8. pin \in PinBlobs
  BY <1>1, <1>3, Parts DEF Orphan, Kept, PinBlobs
<1>9. pin # None /\ t # None
  BY <1>8, NoneIsNoRecord
<1>10. e.pin = pin /\ e.salt = t /\ e.pub = None /\ e.bio = None
  BY DEF NoData
<1> HIDE DEF pin, e, k
<1>11. edits' = edits \cup {e}
  BY <1>1, <1>3 DEF Launched
<1>12. JobInv'
  BY <1>1, <1>6 DEF CareInv, JobInv
<1>13. FreshInv'
  BY <1>1, <1>10, <1>11 DEF CareInv, FreshInv
<1>14. BlobInv'
  <2>1. \A f \in edits' : f.pin # None =>
          /\ f.pin = [alias |-> pinAlias, key |-> pinAlias, layers |-> Layer(chosen, f.salt)]
          /\ f.salt # None
    BY <1>7, <1>9, <1>10, <1>11 DEF CareInv, BlobInv
  <2>2. \A f \in edits' : /\ f.pub # None => f.pub = pinAlias
                          /\ f.bio # None => f.bio = [alias |-> pinAlias, key |-> pinAlias]
                          /\ f.pin = None => f.salt = None
    BY <1>9, <1>10, <1>11 DEF CareInv, BlobInv
  <2> QED BY <1>1, <1>4, <1>6, <2>1, <2>2 DEF CareInv, BlobInv
<1>15. KeptInv'
  BY <1>1, <1>5, <1>6 DEF CareInv, KeptInv
<1>16. SaveInv'
  BY <1>1, <1>3, <1>5, <1>6 DEF CareInv, SaveInv
<1>17. PromiseInv'
  <2>1. ~lost => PubDone'
    BY <1>1, <1>3, <1>4, <1>11 DEF CareInv, PromiseInv, PubDone
  <2>2. PinDone'
    BY <1>9, <1>10, <1>11 DEF PinDone
  <2> QED BY <1>1, <1>4, <1>6, <2>1, <2>2 DEF PromiseInv
<1> QED BY <1>12, <1>13, <1>14, <1>15, <1>16, <1>17 DEF CareInv

\* The success screen.
LEMMA FinishCare == ASSUME TypeInv, CareInv, Finish PROVE CareInv'
<1>1. /\ phase = "confirm" /\ phase' = "ready" /\ Succeeded
      /\ promise' = (IF lost THEN None ELSE [key |-> shown, pass |-> chosen])
      /\ UNCHANGED <<bioAlias, pinAlias, client, creatingData, edits, store, lost>>
      /\ UNCHANGED <<shown, chosen, viewModel, entered>>
  BY DEF Finish, keystore
<1>2. /\ job' \in [Creations -> Jobs]
      /\ \A c \in Creations : /\ job'[c].stage = job[c].stage /\ job'[c].client = job[c].client
                              /\ ~job'[c].alive
  BY CancelAll DEF Finish, TypeInv
<1>3. \A t \in Taps : ~save'[t].alive /\ save'[t].stage = save[t].stage
  BY CancelSaves DEF Finish, TypeInv
<1>4. PICK t \in Taps : save[t].alive /\ save[t].stage = "stored"
  BY <1>1 DEF Succeeded
<1>5. SaveRuns(t) /\ SaveStored(t)
  BY <1>4 DEF SaveRuns, SaveStored
<1>6. /\ creatingData[client] # None
      /\ \A u \in Taps : SaveRuns(u) => u = t
  BY <1>4, <1>5 DEF CareInv, SaveInv
<1>7. \A u \in Taps : ~SaveRuns(u)'
  BY <1>3, <1>4, <1>6 DEF SaveRuns
<1>8. \A c \in Creations : ~Unfinished(c)
  BY <1>1 DEF CareInv, JobInv
<1>9. \A c \in Creations : ~JobRuns(c)'
  BY <1>2, <1>8 DEF JobRuns, Unfinished
<1>10. JobInv'
  BY <1>9 DEF JobInv, Unfinished
<1>11. FreshInv'
  BY <1>1, <1>2 DEF CareInv, FreshInv
<1>12. BlobInv'
  BY <1>1 DEF CareInv, BlobInv, InSetup
<1>13. KeptInv'
  BY <1>1, <1>2, <1>9 DEF CareInv, KeptInv, Unfinished
<1>14. SaveInv'
  BY <1>1, <1>7 DEF SaveInv
<1>15. PromiseInv'
  <2>1. ~lost => PubDone
    BY <1>1, <1>6 DEF CareInv, PromiseInv, InSetup
  <2>2. PinDone /\ pinAlias = shown
    BY <1>1, <1>5 DEF CareInv, PromiseInv, BlobInv, InSetup
  <2>3. PubDone' = PubDone /\ PinDone' = PinDone
    BY <1>1 DEF PubDone, PinDone
  <2>4. ~InSetup' /\ \A u \in Taps : ~SaveStored(u)'
    BY <1>1, <1>7 DEF InSetup, SaveStored
  <2>5. promise' # None => ~lost /\ promise'.key = shown /\ promise'.pass = chosen
    BY <1>1
  <2> QED BY <1>1, <1>9, <2>1, <2>2, <2>3, <2>4, <2>5 DEF PromiseInv
<1> QED BY <1>10, <1>11, <1>12, <1>13, <1>14, <1>15 DEF CareInv

\* What the DataStore makes of the edits, seen from the promise.
LEMMA ApplyDone ==
    ASSUME TypeInv, CareInv, NEW e \in edits, ApplyEdit(e)
    PROVE  (PubDone => PubDone') /\ (PinDone => PinDone')
<1>1. /\ store'.pub = (IF e.pub = None THEN store.pub ELSE e.pub)
      /\ store'.pin = (IF e.pin = None THEN store.pin ELSE e.pin)
      /\ store'.salt = (IF e.salt = None THEN store.salt ELSE e.salt)
      /\ edits' = edits \ {e} /\ shown' = shown /\ chosen' = chosen
  BY ApplyFacts DEF screens
<1>2. /\ e.pub # None => e.pub = shown
      /\ e.pin = None => e.salt = None
      /\ e.pin # None => e.salt # None /\ e.pin.key = shown
      /\ e.pin # None => e.pin.layers = Layer(chosen, e.salt)
  <2>1. (e.pub # None => e.pub = shown) /\ (e.pin = None => e.salt = None)
    BY DEF CareInv, BlobInv
  <2>2. ASSUME e.pin # None
        PROVE  /\ e.pin = [alias |-> pinAlias, key |-> pinAlias, layers |-> Layer(chosen, e.salt)]
               /\ e.salt # None /\ shown = pinAlias
    BY <2>2 DEF CareInv, BlobInv
  <2> QED BY <2>1, <2>2
<1>3. ASSUME PubDone PROVE PubDone'
  <2>1. CASE e.pub # None
    BY <1>1, <1>2, <2>1 DEF PubDone
  <2>2. CASE e.pub = None
    BY <1>1, <1>3, <2>2 DEF PubDone
  <2> QED BY <2>1, <2>2
<1>4. ASSUME PinDone PROVE PinDone'
  <2>1. CASE e.pin # None
    <3>1. /\ store'.pin # None /\ store'.pin.key = shown'
          /\ store'.pin.layers = Layer(chosen, store'.salt)
      BY <1>1, <1>2, <2>1
    <3> QED BY <1>1, <3>1 DEF PinDone
  <2>2. CASE e.pin = None
    <3>1. store'.pin = store.pin /\ store'.salt = store.salt
      BY <1>1, <1>2, <2>2
    <3> QED BY <1>1, <1>4, <2>2, <3>1 DEF PinDone
  <2> QED BY <2>1, <2>2
<1> QED BY <1>3, <1>4

LEMMA ApplyCare == ASSUME TypeInv, CareInv, NEW e \in edits, ApplyEdit(e) PROVE CareInv'
<1>1. /\ store'.pub = (IF e.pub = None THEN store.pub ELSE e.pub)
      /\ store'.pin = (IF e.pin = None THEN store.pin ELSE e.pin)
      /\ store'.bio = (IF e.bio = None THEN store.bio ELSE e.bio)
      /\ store'.salt = (IF e.salt = None THEN store.salt ELSE e.salt)
      /\ edits' = edits \ {e}
      /\ UNCHANGED <<bioAlias, pinAlias, client, creatingData, job, save, promise, lost>>
      /\ UNCHANGED <<phase, shown, chosen, viewModel, entered>>
  BY ApplyFacts DEF keystore, screens, history
<1>2. /\ \A c \in Creations : (JobRuns(c)' <=> JobRuns(c)) /\ (Unfinished(c)' <=> Unfinished(c))
      /\ \A t \in Taps : (SaveRuns(t)' <=> SaveRuns(t)) /\ (SaveStored(t)' <=> SaveStored(t))
  BY <1>1 DEF JobRuns, Unfinished, SaveRuns, SaveStored
<1>3. \A c \in Creations : ~Unfinished(c)
  BY DEF CareInv, JobInv
<1>4. /\ e.pub # None => e.pub = shown
      /\ e.pin = None => e.salt = None
      /\ e.pin # None =>
           /\ e.pin = [alias |-> pinAlias, key |-> pinAlias, layers |-> Layer(chosen, e.salt)]
           /\ e.salt # None /\ chosen # None /\ shown = pinAlias
           /\ phase = "ready" \/ \E t \in Taps : SaveStored(t)
      /\ bioAlias = pinAlias
      /\ e.bio # None => e.bio = [alias |-> pinAlias, key |-> pinAlias]
  <2>1. /\ e.pub # None => e.pub = shown
        /\ e.pin = None => e.salt = None
        /\ bioAlias = pinAlias
        /\ e.bio # None => e.bio = [alias |-> pinAlias, key |-> pinAlias]
    BY DEF CareInv, BlobInv
  <2>2. ASSUME e.pin # None
        PROVE  /\ e.pin = [alias |-> pinAlias, key |-> pinAlias, layers |-> Layer(chosen, e.salt)]
               /\ e.salt # None /\ chosen # None /\ shown = pinAlias
               /\ phase = "ready" \/ \E t \in Taps : SaveStored(t)
    BY <2>2 DEF CareInv, BlobInv
  <2> QED BY <2>1, <2>2
<1>5. JobInv'
  BY <1>1, <1>2, <1>3 DEF CareInv, JobInv
<1>6. FreshInv'
  BY <1>1, <1>4 DEF CareInv, FreshInv
<1>7. BlobInv'
  <2>1. store'.bio # None => store'.bio.alias = store'.bio.key
    BY <1>1, <1>4 DEF CareInv, BlobInv
  <2>2. store'.pin # None =>
          /\ store'.pin.alias = store'.pin.key /\ store'.salt # None
          /\ \E p \in Passcodes : store'.pin.layers = Layer(p, store'.salt)
    <3>1. CASE e.pin # None
      <4>1. chosen \in Passcodes
        BY <1>4, <3>1, Parts DEF Orphan
      <4> QED BY <1>1, <1>4, <3>1, <4>1
    <3>2. CASE e.pin = None
      <4>1. store'.pin = store.pin /\ store'.salt = store.salt
        BY <1>1, <1>4, <3>2
      <4> QED BY <4>1 DEF CareInv, BlobInv
    <3> QED BY <3>1, <3>2
  <2>3. InSetup' => bioAlias = shown /\ pinAlias = shown
    BY <1>1 DEF CareInv, BlobInv, InSetup
  <2> QED BY <1>1, <1>2, <1>4, <2>1, <2>2, <2>3 DEF CareInv, BlobInv
<1>8. KeptInv'
  BY <1>1, <1>2, <1>3 DEF CareInv, KeptInv
<1>9. SaveInv'
  BY <1>1, <1>2 DEF CareInv, SaveInv
<1>10. PromiseInv'
  <2>1. (PubDone => PubDone') /\ (PinDone => PinDone')
    BY ApplyDone
  <2>2. InSetup' = InSetup /\ (InSetup => phase # "ready")
    BY <1>1 DEF InSetup
  <2>3. InSetup /\ ~lost /\ store'.pin # None /\ store'.pin.key = shown =>
          store'.pub = shown \/ \E t \in Taps : SaveStored(t)
    BY <1>1, <1>4, <2>2 DEF CareInv, PromiseInv
  <2>4. \A c \in Creations : JobRuns(c) /\ store'.pin # None /\ store'.pin.key = c =>
          \E t \in Taps : SaveStored(t)
    BY <1>1, <1>4 DEF CareInv, PromiseInv, JobInv
  <2> QED BY <1>1, <1>2, <2>1, <2>2, <2>3, <2>4 DEF CareInv, PromiseInv
<1> QED BY <1>5, <1>6, <1>7, <1>8, <1>9, <1>10 DEF CareInv

\* The user goes back.
LEMMA BackCare == ASSUME TypeInv, CareInv, Careful, Back PROVE CareInv'
<1>1. /\ UNCHANGED <<bioAlias, pinAlias, client, creatingData, edits, store, promise, lost>>
      /\ UNCHANGED <<shown, chosen, viewModel, entered>>
      /\ \A c \in Creations : /\ job'[c].stage = job[c].stage /\ job'[c].client = job[c].client
                              /\ job'[c].blob = job[c].blob
                              /\ job'[c].alive => job[c].alive
  BY BackFacts
<1>2. \/ phase = "start" /\ phase' = "start" /\ save' = save
      \/ phase = "perfect" /\ phase' = "start" /\ save' = save
      \/ phase = "setup" /\ phase' = "perfect" /\ save' = save
      \/ /\ phase = "confirm" /\ phase' = "setup" /\ \A t \in Taps : ~SaveRuns(t)
         /\ \A t \in Taps : ~save'[t].alive /\ save'[t].stage = save[t].stage
  BY BackFacts DEF Careful
<1>3. \A t \in Taps : ~SaveRuns(t) /\ ~SaveStored(t) /\ ~SaveRuns(t)' /\ ~SaveStored(t)'
  <2>1. \A t \in Taps : ~SaveRuns(t) /\ ~SaveStored(t)
    BY <1>2, NoSaves DEF SaveStored
  <2> QED BY <1>2, <2>1 DEF SaveRuns, SaveStored
<1>4. /\ \A e \in edits : e.pin = None
      /\ \A n \in Clients : creatingData[n] # None => creatingData[n].layers = << >>
  BY <1>2, <1>3 DEF CareInv, BlobInv, KeptInv
<1>5. \A c \in Creations : (JobRuns(c)' => JobRuns(c)) /\ (Unfinished(c)' => Unfinished(c))
  BY <1>1 DEF JobRuns, Unfinished
<1>6. (\A c \in Creations : Unfinished(c) => phase = "start") /\ (phase = "start" => phase' = "start")
  BY <1>2 DEF CareInv, JobInv
<1>7. (InSetup' => InSetup) /\ phase' # "ready" /\ phase # "ready" /\ phase' # "confirm"
  BY <1>2 DEF InSetup
<1>8. JobInv'
  BY <1>1, <1>5, <1>6, <1>7 DEF CareInv, JobInv
<1>9. FreshInv'
  BY <1>1 DEF CareInv, FreshInv
<1>10. BlobInv'
  BY <1>1, <1>4, <1>7 DEF CareInv, BlobInv
<1>11. KeptInv'
  BY <1>1, <1>4, <1>5 DEF CareInv, KeptInv
<1>12. SaveInv'
  BY <1>3, <1>7 DEF SaveInv
<1>13. PromiseInv'
  <2>1. PubDone' = PubDone /\ PinDone' = PinDone
    BY <1>1 DEF PubDone, PinDone
  <2>2. InSetup' /\ phase' # "perfect" => phase = "confirm" /\ InSetup
    BY <1>2 DEF InSetup
  <2>3. promise # None => phase' = "start" /\ edits = {}
    BY <1>2, <1>6, <1>7 DEF CareInv, PromiseInv
  <2> QED BY <1>1, <1>3, <1>5, <1>7, <2>1, <2>2, <2>3 DEF CareInv, PromiseInv
<1> QED BY <1>8, <1>9, <1>10, <1>11, <1>12, <1>13 DEF CareInv

\* The device is turned.
LEMMA TurnCare == ASSUME TypeInv, CareInv, Careful, Turn PROVE CareInv'
<1>1. /\ phase \notin {"confirm", "ready"} /\ client <= MaxTurns /\ client' = client + 1
      /\ edits' \subseteq edits
      /\ UNCHANGED <<bioAlias, pinAlias, creatingData, store, save, promise, lost>>
      /\ UNCHANGED <<phase, shown, chosen, viewModel, entered>>
  BY DEF Turn, Careful, keystore, screens, history
<1>2. \A c \in Creations : /\ job'[c].stage = job[c].stage /\ job'[c].client = job[c].client
                           /\ job'[c].blob = job[c].blob
                           /\ job'[c].alive => job[c].alive
  BY CancelFacts DEF Turn, TypeInv
<1>3. \A t \in Taps : ~SaveRuns(t)' /\ ~SaveStored(t)
  BY <1>1, NoSaves DEF SaveRuns
<1>4. /\ \A e \in edits : e.pin = None
      /\ \A n \in Clients : creatingData[n] # None => creatingData[n].layers = << >>
  BY <1>1, NoSaves
<1>5. \A c \in Creations : (JobRuns(c)' => JobRuns(c)) /\ (Unfinished(c)' => Unfinished(c))
  BY <1>2 DEF JobRuns, Unfinished
<1>6. client \in Nat /\ client < client' /\ client' \in Clients
  BY <1>1, Parts, VaultConstants DEF Clients
<1>7. creatingData'[client'] = None
  BY <1>1, <1>6 DEF CareInv, KeptInv
<1>8. JobInv'
  BY <1>1, <1>2, <1>5 DEF CareInv, JobInv
<1>9. FreshInv'
  BY <1>1, <1>2 DEF CareInv, FreshInv
<1>10. BlobInv'
  BY <1>1, <1>4 DEF CareInv, BlobInv, InSetup
<1>11. KeptInv'
  <2>1. viewModel.setup \in Nat /\ \A c \in Creations : job[c].client \in Nat
    BY Parts DEF Clients, Jobs
  <2>2. viewModel'.setup <= client' /\ \A c \in Creations : job'[c].client <= client'
    BY <1>1, <1>2, <1>6, <2>1 DEF CareInv, KeptInv
  <2>3. \A n \in Clients : n > client' => creatingData'[n] = None
    BY <1>1, <1>6 DEF CareInv, KeptInv, Clients
  <2> QED BY <1>1, <1>4, <1>7, <2>2, <2>3 DEF KeptInv
<1>12. SaveInv'
  BY <1>1, <1>3 DEF SaveInv
<1>13. PromiseInv'
  <2>1. \A t \in Taps : ~SaveStored(t)'
    BY <1>3 DEF SaveStored
  <2>2. promise # None => edits' = {} /\ edits = {}
    BY <1>1 DEF CareInv, PromiseInv
  <2>3. promise # None => PubDone' = PubDone /\ PinDone' = PinDone
    BY <1>1, <2>2 DEF PubDone, PinDone
  <2> QED BY <1>1, <1>3, <1>5, <1>7, <2>1, <2>2, <2>3 DEF CareInv, PromiseInv, InSetup
<1> QED BY <1>8, <1>9, <1>10, <1>11, <1>12, <1>13 DEF CareInv

\* The process dies.
LEMMA DieCare ==
    ASSUME TypeInv, CareInv, NEW screen \in {phase, FirstScreen}, Die(screen) PROVE CareInv'
<1>1. /\ edits' = {} /\ phase' = screen /\ entered' = None
      /\ promise' = (IF edits = {} THEN promise ELSE None)
      /\ lost' = (lost \/ edits # {})
      /\ UNCHANGED <<bioAlias, pinAlias, store, shown, chosen>>
  BY DEF Die, keystore
<1>2. /\ client' = 1
      /\ \A c \in Creations : /\ ~job'[c].alive /\ job'[c].client = 1
                              /\ job'[c].stage \in {"none", "ended"}
                              /\ job'[c].stage = "none" => job[c].stage = "none"
      /\ \A t \in Taps : ~save'[t].alive /\ save'[t].stage \in {"none", "ended"}
      /\ creatingData' = [n \in Clients |-> None]
      /\ viewModel' = [s \in {"setup", "confirm"} |-> 1]
  BY DieFacts DEF TypeInv
<1>3. /\ phase' = phase \/ phase' \in {"start", "lock"}
      /\ InSetup' => InSetup
  BY <1>1 DEF FirstScreen, InSetup
<1>4. /\ \A c \in Creations : ~JobRuns(c)' /\ ~Unfinished(c)'
      /\ \A t \in Taps : ~SaveRuns(t)' /\ ~SaveStored(t)'
  BY <1>2 DEF JobRuns, Unfinished, SaveRuns, SaveStored
<1>5. JobInv'
  BY <1>4 DEF JobInv
<1>6. FreshInv'
  BY <1>1, <1>2 DEF CareInv, FreshInv
<1>7. BlobInv'
  BY <1>1, <1>3 DEF CareInv, BlobInv
<1>8. client' \in Clients /\ \A n \in Clients : creatingData'[n] = None
  BY <1>2, DieFacts DEF TypeInv
<1>9. KeptInv'
  <2>1. viewModel'.setup <= client' /\ \A c \in Creations : job'[c].client <= client'
    BY <1>2
  <2> QED BY <1>4, <1>8, <2>1 DEF KeptInv
<1>10. SaveInv'
  BY <1>1, <1>2, <1>4 DEF SaveInv
<1>11. PromiseInv'
  <2>1. edits = {} => PubDone' = PubDone /\ PinDone' = PinDone
    BY <1>1 DEF PubDone, PinDone
  <2>2. ASSUME InSetup', ~lost', store'.pin # None, store'.pin.key = shown' PROVE store'.pub = shown'
    <3>1. InSetup /\ ~lost /\ edits = {} /\ store.pin # None /\ store.pin.key = shown
      BY <1>1, <1>3, <2>2
    <3>2. CASE store.pub = shown
      BY <1>1, <3>2
    <3>3. ASSUME NEW t \in Taps, SaveStored(t) PROVE store.pub = shown
      <4>1. phase = "confirm" /\ creatingData[client] # None
        BY <3>3 DEF CareInv, SaveInv, SaveStored
      <4>2. PubDone
        BY <3>1, <4>1 DEF CareInv, PromiseInv
      <4> QED BY <3>1, <4>2 DEF PubDone
    <3> QED BY <1>1, <3>1, <3>2, <3>3 DEF CareInv, PromiseInv
  <2>3. promise' # None => promise' = promise /\ edits = {} /\ promise # None
    BY <1>1
  <2>4. promise' # None =>
          /\ phase' \in {"ready", "start", "lock"}
          /\ promise'.key = shown' /\ promise'.pass = chosen' /\ pinAlias' = shown'
          /\ PubDone' /\ PinDone'
    BY <1>1, <1>3, <2>1, <2>3 DEF CareInv, PromiseInv
  <2> QED BY <1>1, <1>4, <1>8, <2>2, <2>4 DEF PromiseInv
<1> QED BY <1>5, <1>6, <1>7, <1>9, <1>10, <1>11 DEF CareInv

LEMMA CareStep == ASSUME Careful PROVE TypeInv /\ CareInv /\ [Next]_vars => CareInv'
<1> SUFFICES ASSUME TypeInv, CareInv, [Next]_vars PROVE CareInv'
  OBVIOUS
<1>1. CASE UNCHANGED vars
  <2>1. /\ UNCHANGED <<bioAlias, pinAlias, client, creatingData, job, edits, store, save>>
        /\ UNCHANGED <<phase, shown, chosen, viewModel, entered, promise, lost>>
    BY <1>1 DEF vars, keystore, screens, history
  <2>2. JobInv' /\ FreshInv'
    BY <2>1 DEF CareInv, JobInv, FreshInv, JobRuns, Unfinished
  <2>3. BlobInv'
    BY <2>1 DEF CareInv, BlobInv, SaveStored, SaveRuns, InSetup
  <2>4. KeptInv' /\ SaveInv'
    BY <2>1 DEF CareInv, KeptInv, SaveInv, JobRuns, Unfinished, SaveRuns
  <2>5. PromiseInv'
    BY <2>1 DEF CareInv, PromiseInv, JobRuns, SaveRuns, SaveStored, InSetup, PubDone, PinDone
  <2> QED BY <2>2, <2>3, <2>4, <2>5 DEF CareInv
<1>2. ASSUME NEW c \in Creations,
             \/ Start(c) \/ NewBioKey(c) \/ NewPinKey(c) \/ CreateFails(c) \/ SaveWallet(c)
             \/ FinishBio(c) \/ FinishPin(c) \/ Show(c)
      PROVE  CareInv'
  BY <1>2, StartCare, NewBioKeyCare, NewPinKeyCare, GoesOnCare, FinishPinCare, ShowCare
<1>3. ASSUME NEW p \in Passcodes, TypePasscode(p) PROVE CareInv'
  BY <1>3, TypePasscodeCare
<1>4. ASSUME NEW t \in Taps, TypeAgain(t) \/ SaveEncrypt(t) \/ SaveStore(t) PROVE CareInv'
  BY <1>4, TypeAgainCare, SaveEncryptCare, SaveStoreCare
<1>5. ASSUME NEW t \in Taps, SaveCrashes(t) PROVE CareInv'
  BY <1>5, DieCare DEF SaveCrashes
<1>6. CASE ClickSetPasscode
  BY <1>6, ClickCare
<1>7. CASE GoConfirm
  BY <1>7, GoConfirmCare
<1>8. CASE DeleteDigit
  BY <1>8 DEF DeleteDigit, Careful
<1>9. CASE Finish
  BY <1>9, FinishCare
<1>10. CASE Back
  BY <1>10, BackCare
<1>11. CASE Turn
  BY <1>11, TurnCare
<1>12. CASE Restart
  BY <1>12, DieCare DEF Restart
<1>13. CASE Edit
  BY <1>13, ApplyCare DEF Edit
<1> QED
  BY <1>1, <1>2, <1>3, <1>4, <1>5, <1>6, <1>7, <1>8, <1>9, <1>10, <1>11, <1>12, <1>13 DEF Next

LEMMA CareHolds == ASSUME Careful PROVE Spec => [](TypeInv /\ CareInv)
<1>1. Init => TypeInv /\ CareInv
  BY TypeInit, CareInit
<1>2. (TypeInv /\ CareInv) /\ [Next]_vars => (TypeInv /\ CareInv)'
  BY TypeStep, CareStep
<1> QED BY <1>1, <1>2, PTL DEF Spec

-----------------------------------------------------------------------------
(* What a careful user can rely on                                         *)

\* What the success screen said holds from then on once the edits are through:
\* the passcode, and no other, opens the key shown, and the public key is its
\* own, whatever dies or is turned afterwards.
THEOREM PromiseKeptHolds == ASSUME Careful PROVE Spec => []PromiseKept
<1>1. TypeInv /\ CareInv => PromiseKept
  <2> SUFFICES ASSUME TypeInv, CareInv, promise # None, edits = {}
               PROVE  /\ store.pub = promise.key
                      /\ store.pin # None /\ store.pin.key = promise.key
                      /\ \A p \in Passcodes \cup {Short} : Opens(p) <=> p = promise.pass
    BY DEF PromiseKept
  <2>1. /\ promise.key = shown /\ promise.pass = chosen /\ pinAlias = shown
        /\ store.pub = shown /\ store.pin # None /\ store.pin.key = shown
        /\ store.pin.layers = Layer(chosen, store.salt)
    BY DEF CareInv, PromiseInv, PubDone, PinDone
  <2>2. store.pin.alias = pinAlias /\ store.salt # None
    BY <2>1 DEF CareInv, BlobInv
  <2>3. \A p : Layer(chosen, store.salt) = << [pass |-> p, salt |-> store.salt] >> <=> p = chosen
    BY DEF Layer
  <2>4. \A p : Opens(p) <=> p = promise.pass
    BY <2>1, <2>2, <2>3 DEF Opens
  <2> QED BY <2>1, <2>4
<1> QED BY <1>1, CareHolds, PTL
=============================================================================
