-------------------------- MODULE InputKeyTempProofs --------------------------
(***************************************************************************)
(* The safety properties of InputKeyTemp for any number of unlocks,        *)
(* requests and tasks.                                                     *)
(***************************************************************************)
EXTENDS InputKeyTemp, SequenceTheorems, TLAPS

-----------------------------------------------------------------------------
(* Sequences                                                               *)

\* The domain of a sequence, its elements and its length.
LEMMA Elements ==
    ASSUME NEW S, NEW s \in Seq(S)
    PROVE  /\ Len(s) \in Nat /\ DOMAIN s = 1..Len(s)
           /\ \A i \in DOMAIN s : s[i] \in S
BY LenProperties, ElementOfSeq

\* What Append leaves and adds.
LEMMA Appended ==
    ASSUME NEW S, NEW s \in Seq(S), NEW x \in S
    PROVE  /\ Append(s, x) \in Seq(S)
           /\ Len(Append(s, x)) = Len(s) + 1
           /\ DOMAIN Append(s, x) = 1..(Len(s) + 1)
           /\ Append(s, x)[Len(s) + 1] = x
           /\ \A i \in 1..Len(s) : Append(s, x)[i] = s[i]
BY AppendProperties, LenProperties

\* A function on the domain of a sequence is a sequence of the same length.
LEMMA Mapped ==
    ASSUME NEW S, NEW T, NEW s \in Seq(S), NEW f \in [DOMAIN s -> T]
    PROVE  f \in Seq(T) /\ Len(f) = Len(s) /\ DOMAIN f = DOMAIN s
<1>1. Len(s) \in Nat /\ DOMAIN s = 1..Len(s)
  BY LenProperties
<1>2. f \in [1..Len(s) -> T]
  BY <1>1
<1>3. f \in Seq(T)
  BY <1>1, <1>2, SeqDef
<1>4. Len(f) \in Nat /\ DOMAIN f = 1..Len(f)
  BY <1>3, LenProperties
<1>5. 1..Len(f) = 1..Len(s)
  BY <1>1, <1>2, <1>4
<1>6. Len(f) = Len(s)
  BY <1>1, <1>4, <1>5
<1> QED BY <1>3, <1>6, <1>2, <1>1

-----------------------------------------------------------------------------
(* Types                                                                   *)

\* TypeOK with where the tasks and the view models live, and which request the
\* sheet can be about.
TypeInv ==
    /\ TypeOK
    /\ request \in {0, arrived}
    /\ ~passcode => Len(viewModels) > 0
    /\ \A i \in DOMAIN tasks : tasks[i].entry \in DOMAIN viewModels

LEMMA TypeInit == Init => TypeInv
<1> SUFFICES ASSUME Init PROVE TypeInv
  OBVIOUS
<1> USE InputKeyConstants
<1>1. viewModels \in Seq(0..MaxRequests) /\ tasks \in Seq(Tasks)
  BY EmptySeq DEF Init
<1>2. Len(tasks) = 0 /\ DOMAIN tasks = {}
  BY EmptySeq DEF Init
<1>3. wipedBy \in [Unlocks -> 0..Mistyped]
  BY DEF Init, Mistyped
<1>4. /\ 0 \in 0..MaxUnlocks /\ 0 \in 0..MaxRequests /\ 0 \in 0..0
      /\ {} \subseteq 1..0 /\ 0 <= MaxTasks
  OBVIOUS
<1>5. TypeOK
  BY <1>1, <1>2, <1>3, <1>4 DEF Init, TypeOK
<1> QED BY <1>2, <1>5 DEF Init, TypeInv

\* A task as it is launched.
LEMMA TaskType ==
    ASSUME TypeOK, NEW kind \in {"send", "transfer", "approve"}, NEW e \in Nat,
           NEW u \in 0..MaxUnlocks
    PROVE  Task(kind, e, u) \in Tasks
<1>1. Wiped \subseteq Unlocks /\ closed \subseteq Requests
  BY InputKeyConstants DEF TypeOK, Wiped, Requests
<1>2. 0 \in 0..MaxUnlocks /\ 0 \in 0..MaxRequests
  BY InputKeyConstants
<1> QED BY <1>1, <1>2 DEF Task, Tasks

\* What a launch does to the tasks.
LEMMA Launched ==
    ASSUME TypeOK, NEW kind \in {"send", "transfer", "approve"}, NEW e \in Nat,
           NEW u \in 0..MaxUnlocks, Launch(kind, e, u)
    PROVE  /\ tasks' \in Seq(Tasks) /\ Len(tasks') <= MaxTasks
           /\ Len(tasks') = Len(tasks) + 1
           /\ DOMAIN tasks' = 1..(Len(tasks) + 1)
           /\ tasks'[Len(tasks) + 1] = Task(kind, e, u)
           /\ \A i \in DOMAIN tasks : tasks'[i] = tasks[i]
<1>1. Task(kind, e, u) \in Tasks
  BY TaskType
<1>2. tasks \in Seq(Tasks) /\ tasks' = Append(tasks, Task(kind, e, u)) /\ Len(tasks) < MaxTasks
  BY DEF TypeOK, Launch
<1>3. Len(tasks) \in Nat /\ DOMAIN tasks = 1..Len(tasks)
  BY <1>2, Elements
<1> QED BY <1>1, <1>2, <1>3, Appended, InputKeyConstants

\* What a change of one task does.
LEMMA Changed ==
    ASSUME TypeOK, NEW i \in DOMAIN tasks, NEW t \in Tasks,
           tasks' = [tasks EXCEPT ![i] = t]
    PROVE  /\ tasks' \in Seq(Tasks) /\ Len(tasks') = Len(tasks)
           /\ DOMAIN tasks' = DOMAIN tasks
           /\ tasks'[i] = t
           /\ \A j \in DOMAIN tasks : j # i => tasks'[j] = tasks[j]
<1>1. tasks \in Seq(Tasks)
  BY DEF TypeOK
<1>2. tasks \in [DOMAIN tasks -> Tasks]
  BY <1>1, Elements, LenProperties
<1>3. tasks' \in [DOMAIN tasks -> Tasks]
  BY <1>2
<1>4. tasks'[i] = t /\ \A j \in DOMAIN tasks : j # i => tasks'[j] = tasks[j]
  BY <1>2
<1> QED BY <1>1, <1>3, <1>4, Mapped

\* What leaving a pending screen does to the tasks.
LEMMA Cancelled ==
    ASSUME TypeOK, tasks' = SendsCancelled
    PROVE  /\ tasks' \in Seq(Tasks) /\ Len(tasks') = Len(tasks)
           /\ DOMAIN tasks' = DOMAIN tasks
           /\ \A i \in DOMAIN tasks :
                \/ tasks'[i] = tasks[i]
                \/ tasks'[i] = [tasks[i] EXCEPT !.phase = "cancelled"]
<1>1. tasks \in Seq(Tasks)
  BY DEF TypeOK
<1>2. \A i \in DOMAIN tasks : tasks[i] \in Tasks
  BY <1>1, Elements
<1>3. \A i \in DOMAIN tasks :
        \/ SendsCancelled[i] = tasks[i]
        \/ SendsCancelled[i] = [tasks[i] EXCEPT !.phase = "cancelled"]
  BY DEF SendsCancelled
<1>4. \A t \in Tasks : [t EXCEPT !.phase = "cancelled"] \in Tasks
  BY DEF Tasks
<1>5. SendsCancelled \in [DOMAIN tasks -> Tasks]
  <2>1. \A i \in DOMAIN tasks : SendsCancelled[i] \in Tasks
    BY <1>2, <1>3, <1>4
  <2> QED BY <2>1 DEF SendsCancelled
<1> QED BY <1>1, <1>3, <1>5, Mapped

\* A launch in an entry there is keeps the types of the tasks.
LEMMA LaunchType ==
    ASSUME TypeInv, NEW kind \in {"send", "transfer", "approve"}, NEW e \in Nat,
           NEW u \in 0..MaxUnlocks, Launch(kind, e, u),
           e \in DOMAIN viewModels', DOMAIN viewModels \subseteq DOMAIN viewModels'
    PROVE  /\ tasks' \in Seq(Tasks) /\ Len(tasks') <= MaxTasks
           /\ \A i \in DOMAIN tasks' : tasks'[i].entry \in DOMAIN viewModels'
<1>1. TypeOK /\ \A i \in DOMAIN tasks : tasks[i].entry \in DOMAIN viewModels
  BY DEF TypeInv
<1>2. Len(tasks) \in Nat /\ DOMAIN tasks = 1..Len(tasks)
  BY <1>1, LenProperties DEF TypeOK
<1>3. Task(kind, e, u).entry = e
  BY DEF Task
<1>4. ASSUME NEW i \in DOMAIN tasks' PROVE tasks'[i].entry \in DOMAIN viewModels'
  <2>1. i \in DOMAIN tasks \/ i = Len(tasks) + 1
    <3>1. DOMAIN tasks' = 1..(Len(tasks) + 1)
      BY <1>1, Launched
    <3> QED BY <3>1, <1>2
  <2>2. CASE i \in DOMAIN tasks
    <3>1. tasks'[i] = tasks[i]
      BY <1>1, <2>2, Launched
    <3> QED BY <1>1, <2>2, <3>1
  <2>3. CASE i = Len(tasks) + 1
    <3>1. tasks'[i] = Task(kind, e, u)
      BY <1>1, <2>3, Launched
    <3> QED BY <1>3, <3>1
  <2> QED BY <2>1, <2>2, <2>3
<1> QED BY <1>1, <1>4, Launched

\* What clearing the field does, but for who it was taken by.
LEMMA WipeType ==
    ASSUME TypeOK, NEW by \in 0..Mistyped, Wipe(by)
    PROVE  inputKeyTemp' = 0 /\ wipedBy' \in [Unlocks -> 0..Mistyped]
BY DEF TypeOK, Wipe

\* Types over the actions of the lock screens.
LEMMA TypeLocks ==
    ASSUME TypeInv,
           UnlockByPasscode \/ UnlockByBiometrics \/ WrongPasscode \/ EnterMain
             \/ EnterPending \/ EnterWords \/ BackFromSettings \/ Back
    PROVE  TypeInv'
<1> USE InputKeyConstants DEF TypeInv
<1>v. /\ viewModels \in Seq(0..MaxRequests) /\ Len(viewModels) \in Nat
      /\ DOMAIN viewModels = 1..Len(viewModels)
  BY LenProperties DEF TypeOK
<1>t. /\ tasks \in Seq(Tasks) /\ Len(tasks) \in Nat /\ DOMAIN tasks = 1..Len(tasks)
  BY LenProperties DEF TypeOK
<1>1. CASE UnlockByPasscode
  BY <1>1 DEF UnlockByPasscode, TypeOK, connect
<1>2. CASE UnlockByBiometrics
  BY <1>2 DEF UnlockByBiometrics, TypeOK, connect
<1>3. CASE WrongPasscode
  <2>1. inputKeyTemp' = 0 /\ wipedBy' \in [Unlocks -> 0..Mistyped]
    <3>1. Mistyped \in 0..Mistyped
      BY DEF Mistyped
    <3> QED BY <1>3, <3>1, WipeType DEF WrongPasscode
  <2> QED BY <1>3, <2>1 DEF WrongPasscode, TypeOK, connect, screens
<1>4. CASE EnterMain
  <2>1. viewModels' = Append(viewModels, 0) /\ 0 \in 0..MaxRequests
    BY <1>4 DEF EnterMain
  <2>2. /\ viewModels' \in Seq(0..MaxRequests) /\ Len(viewModels') = Len(viewModels) + 1
        /\ DOMAIN viewModels' = 1..(Len(viewModels) + 1)
    BY <2>1, <1>v, Appended
  <2>3. /\ tasks' \in Seq(Tasks) /\ Len(tasks') <= MaxTasks
        /\ \A i \in DOMAIN tasks' : tasks'[i].entry \in DOMAIN viewModels'
    <3>1. CASE onMain
      <4>1. Launch("approve", Len(viewModels) + 1, opened)
        BY <1>4, <3>1 DEF EnterMain
      <4>2. opened \in 0..MaxUnlocks /\ Len(viewModels) + 1 \in Nat
        BY <1>v DEF TypeOK
      <4>3. Len(viewModels) + 1 \in DOMAIN viewModels' /\ DOMAIN viewModels \subseteq DOMAIN viewModels'
        BY <2>2, <1>v
      <4> QED BY <4>1, <4>2, <4>3, LaunchType
    <3>2. CASE ~onMain
      BY <1>4, <3>2, <2>2, <1>v DEF EnterMain, TypeOK
    <3> QED BY <3>1, <3>2
  <2>4. 0 \in 0..MaxUnlocks /\ Len(viewModels') > 0
    BY <2>2, <1>v
  <2> QED BY <1>4, <2>2, <2>3, <2>4 DEF EnterMain, TypeOK, key
<1>5. CASE EnterPending
  <2>1. Launch("send", Len(viewModels), opened)
    BY <1>5 DEF EnterPending
  <2>2. opened \in 0..MaxUnlocks
    BY DEF TypeOK
  <2>4. viewModels' = viewModels /\ Len(viewModels) \in DOMAIN viewModels
    BY <1>5, <1>v DEF EnterPending, connect
  <2>5. /\ tasks' \in Seq(Tasks) /\ Len(tasks') <= MaxTasks
        /\ \A i \in DOMAIN tasks' : tasks'[i].entry \in DOMAIN viewModels'
    BY <2>1, <2>2, <2>4, <1>v, LaunchType
  <2> QED BY <1>5, <2>5 DEF EnterPending, TypeOK, connect, key
<1>6. CASE EnterWords \/ BackFromSettings
  <2>1. CASE EnterWords
    BY <2>1 DEF EnterWords, TypeOK, connect, key
  <2>2. CASE BackFromSettings
    BY <2>2 DEF BackFromSettings, TypeOK, connect, key
  <2> QED BY <1>6, <2>1, <2>2
<1>7. CASE Back
  <2>1. viewModels' = viewModels /\ Len(viewModels) > 0 /\ Len(viewModels) \in DOMAIN viewModels
    BY <1>7, <1>v, EmptySeq DEF Back, connect
  <2>2. /\ tasks' \in Seq(Tasks) /\ Len(tasks') <= MaxTasks
        /\ \A i \in DOMAIN tasks' : tasks'[i].entry \in DOMAIN viewModels'
    <3>1. CASE onMain
      <4>1. Launch("approve", Len(viewModels), 0) /\ 0 \in 0..MaxUnlocks
        BY <1>7, <3>1 DEF Back
      <4> QED BY <4>1, <2>1, <1>v, LaunchType
    <3>2. CASE ~onMain
      BY <1>7, <3>2, <2>1 DEF Back, TypeOK
    <3> QED BY <3>1, <3>2
  <2>3. 0 \in 0..MaxUnlocks
    OBVIOUS
  <2> QED BY <1>7, <2>1, <2>2, <2>3 DEF Back, TypeOK, connect, key
<1> QED BY <1>1, <1>2, <1>3, <1>4, <1>5, <1>6, <1>7

\* Types over the actions of the main screen and of TonConnect.
LEMMA TypeSheets ==
    ASSUME TypeInv,
           AskSend \/ AskOther \/ AskWords \/ Arrive \/ Scan \/ Compose \/ ConfirmLoaded
             \/ Confirm \/ ConfirmConnection \/ Dismiss
    PROVE  TypeInv'
<1> USE InputKeyConstants DEF TypeInv
<1>v. /\ viewModels \in Seq(0..MaxRequests) /\ Len(viewModels) \in Nat
      /\ DOMAIN viewModels = 1..Len(viewModels)
  BY LenProperties DEF TypeOK
<1>t. /\ tasks \in Seq(Tasks) /\ Len(tasks) \in Nat /\ DOMAIN tasks = 1..Len(tasks)
  BY LenProperties DEF TypeOK
<1>1. ASSUME NEW screen \in {"main", "lock"}, OpenSheet(screen) PROVE TypeInv'
  <2>1. tasks' = SendsCancelled /\ viewModels' = viewModels
    BY <1>1 DEF OpenSheet, connect
  <2>2. \A t \in Tasks : [t EXCEPT !.phase = "cancelled"].entry = t.entry
    BY DEF Tasks
  <2>3. \A i \in DOMAIN tasks : tasks[i] \in Tasks
    BY <1>t, Elements
  <2>4. /\ tasks' \in Seq(Tasks) /\ Len(tasks') <= MaxTasks
        /\ \A i \in DOMAIN tasks' : tasks'[i].entry \in DOMAIN viewModels'
    BY <2>1, <2>2, <2>3, Cancelled DEF TypeOK
  <2> QED BY <1>1, <2>4 DEF OpenSheet, TypeOK, connect, key
<1>2. CASE AskWords
  BY <1>2 DEF AskWords, TypeOK, connect, key
<1>3. CASE Arrive
  BY <1>3 DEF Arrive, TypeOK, screens, key
<1>4. CASE Scan
  BY <1>4 DEF Scan, TypeOK, screens, key
<1>5. CASE Compose
  <2>1. /\ viewModels' = [viewModels EXCEPT ![Len(viewModels)] = request]
        /\ request \in 0..MaxRequests /\ Len(viewModels) \in 1..Len(viewModels)
        /\ request # 0
    BY <1>5, <1>v DEF Compose, TypeOK
  <2>2. viewModels' \in [DOMAIN viewModels -> 0..MaxRequests]
    BY <2>1, <1>v, Elements
  <2>3. /\ viewModels' \in Seq(0..MaxRequests) /\ Len(viewModels') = Len(viewModels)
        /\ DOMAIN viewModels' = DOMAIN viewModels
    BY <2>2, <1>v, Mapped
  <2>4. /\ tasks' \in Seq(Tasks) /\ Len(tasks') <= MaxTasks
        /\ \A i \in DOMAIN tasks' : tasks'[i].entry \in DOMAIN viewModels'
    <3>1. CASE inputKeyTemp # 0
      <4>1. Launch("transfer", Len(viewModels), 0) /\ 0 \in 0..MaxUnlocks
        BY <1>5, <3>1 DEF Compose
      <4> QED BY <4>1, <2>1, <2>3, <1>v, LaunchType
    <3>2. CASE inputKeyTemp = 0
      BY <1>5, <3>2, <2>3 DEF Compose, TypeOK
    <3> QED BY <3>1, <3>2
  <2>5. shown' \in 0..arrived
    BY <1>5, <2>1 DEF Compose, TypeOK
  <2> QED BY <1>5, <2>3, <2>4, <2>5 DEF Compose, TypeOK, screens, key
<1>6. CASE ConfirmLoaded
  BY <1>6 DEF ConfirmLoaded, OpenPasscode, TypeOK, key
<1>7. CASE Confirm
  <2>1. Launch("transfer", Len(viewModels), 0) /\ 0 \in 0..MaxUnlocks
    BY <1>7 DEF Confirm
  <2>3. viewModels' = viewModels /\ Len(viewModels) \in DOMAIN viewModels
    BY <1>7, <1>v DEF Confirm, CanConfirm, connect
  <2>4. /\ tasks' \in Seq(Tasks) /\ Len(tasks') <= MaxTasks
        /\ \A i \in DOMAIN tasks' : tasks'[i].entry \in DOMAIN viewModels'
    BY <2>1, <2>3, <1>v, LaunchType
  <2> QED BY <1>7, <2>4 DEF Confirm, TypeOK, screens, connect, key
<1>8. CASE ConfirmConnection
  BY <1>8 DEF ConfirmConnection, OpenPasscode, TypeOK, key
<1>9. CASE Dismiss
  <2>1. closed' \subseteq 1..arrived
    <3>1. closed \subseteq 1..arrived /\ arrived \in 0..MaxRequests
      BY DEF TypeOK
    <3>2. CASE request = 0
      BY <1>9, <3>1, <3>2 DEF Dismiss
    <3>3. CASE request # 0
      <4>1. request = arrived /\ arrived \in 1..arrived
        BY <3>1, <3>3
      <4> QED BY <1>9, <3>1, <3>3, <4>1 DEF Dismiss
    <3> QED BY <3>2, <3>3
  <2>2. 0 \in 0..arrived /\ 0 \in 0..MaxRequests
    BY DEF TypeOK
  <2> QED BY <1>9, <2>1, <2>2 DEF Dismiss, TypeOK, screens, key
<1> QED BY <1>1, <1>2, <1>3, <1>4, <1>5, <1>6, <1>7, <1>8, <1>9 DEF AskSend, AskOther

\* Types over the steps of the tasks.
LEMMA TypeTasks ==
    ASSUME TypeInv, NEW i \in DOMAIN tasks,
           Read(i) \/ Clear(i) \/ Fail(i) \/ Send(i) \/ Transfer(i) \/ Approve(i)
    PROVE  TypeInv'
<1> USE InputKeyConstants DEF TypeInv
<1>v. /\ viewModels \in Seq(0..MaxRequests) /\ Len(viewModels) \in Nat
      /\ DOMAIN viewModels = 1..Len(viewModels)
  BY LenProperties DEF TypeOK
<1>t. /\ tasks \in Seq(Tasks) /\ Len(tasks) \in Nat /\ DOMAIN tasks = 1..Len(tasks)
      /\ Len(tasks) <= MaxTasks /\ tasks[i] \in Tasks
  BY Elements DEF TypeOK
\* A change of the task alone.
<1>c. ASSUME NEW t \in Tasks, tasks' = [tasks EXCEPT ![i] = t], t.entry = tasks[i].entry,
             viewModels' = viewModels
      PROVE  /\ tasks' \in Seq(Tasks) /\ Len(tasks') <= MaxTasks
             /\ \A j \in DOMAIN tasks' : tasks'[j].entry \in DOMAIN viewModels'
  BY <1>c, <1>t, Changed
<1>1. CASE Read(i)
  <2> DEFINE t == [tasks[i] EXCEPT !.phase = "read", !.got = inputKeyTemp]
  <2>1. inputKeyTemp \in 0..MaxUnlocks
    BY DEF TypeOK
  <2>2. t \in Tasks /\ t.entry = tasks[i].entry
    BY <2>1, <1>t DEF Tasks
  <2>3. tasks' = [tasks EXCEPT ![i] = t] /\ viewModels' = viewModels
    BY <1>1 DEF Read, connect
  <2> HIDE DEF t
  <2>4. /\ tasks' \in Seq(Tasks) /\ Len(tasks') <= MaxTasks
        /\ \A j \in DOMAIN tasks' : tasks'[j].entry \in DOMAIN viewModels'
    BY <2>2, <2>3, <1>c
  <2> QED BY <1>1, <2>4 DEF Read, TypeOK, screens, connect, key
<1>2. CASE Clear(i)
  <2> DEFINE p == IF tasks[i].got = 0 THEN "done" ELSE "cleared"
             t == [tasks[i] EXCEPT !.phase = p]
  <2>2. t \in Tasks /\ t.entry = tasks[i].entry
    BY <1>t DEF Tasks
  <2>3. tasks' = [tasks EXCEPT ![i] = t] /\ viewModels' = viewModels
    BY <1>2 DEF Clear, connect
  <2> HIDE DEF t
  <2>4. /\ tasks' \in Seq(Tasks) /\ Len(tasks') <= MaxTasks
        /\ \A j \in DOMAIN tasks' : tasks'[j].entry \in DOMAIN viewModels'
    BY <2>2, <2>3, <1>c
  <2>5. inputKeyTemp' = 0 /\ wipedBy' \in [Unlocks -> 0..Mistyped]
    <3>1. i \in 0..Mistyped
      BY <1>t DEF Mistyped
    <3> QED BY <1>2, <3>1, WipeType DEF Clear
  <2> QED BY <1>2, <2>4, <2>5 DEF Clear, TypeOK, screens, connect
<1>3. CASE Fail(i) \/ Send(i)
  <2> DEFINE t == [tasks[i] EXCEPT !.phase = "done"]
  <2>2. t \in Tasks /\ t.entry = tasks[i].entry
    BY <1>t DEF Tasks
  <2>3. tasks' = [tasks EXCEPT ![i] = t] /\ viewModels' = viewModels
    BY <1>3 DEF Fail, Send, connect
  <2> HIDE DEF t
  <2>4. /\ tasks' \in Seq(Tasks) /\ Len(tasks') <= MaxTasks
        /\ \A j \in DOMAIN tasks' : tasks'[j].entry \in DOMAIN viewModels'
    BY <2>2, <2>3, <1>c
  <2> QED BY <1>3, <2>4 DEF Fail, Send, TypeOK, screens, connect, key
<1>4. CASE Transfer(i)
  <2> DEFINE t == [tasks[i] EXCEPT !.phase = "done", !.pays = viewModels[tasks[i].entry]]
  <2>1. viewModels[tasks[i].entry] \in 0..MaxRequests
    BY <1>v, Elements
  <2>2. t \in Tasks /\ t.entry = tasks[i].entry
    BY <2>1, <1>t DEF Tasks
  <2>3. tasks' = [tasks EXCEPT ![i] = t] /\ viewModels' = viewModels
    BY <1>4 DEF Transfer, connect
  <2> HIDE DEF t
  <2>4. /\ tasks' \in Seq(Tasks) /\ Len(tasks') <= MaxTasks
        /\ \A j \in DOMAIN tasks' : tasks'[j].entry \in DOMAIN viewModels'
    BY <2>2, <2>3, <1>c
  <2> QED BY <1>4, <2>4 DEF Transfer, TypeOK, screens, connect, key
<1>5. CASE Approve(i)
  <2> DEFINE t == [tasks[i] EXCEPT !.phase = "done"]
  <2>2. t \in Tasks /\ t.entry = tasks[i].entry
    BY <1>t DEF Tasks
  <2>3. tasks' = [tasks EXCEPT ![i] = t] /\ viewModels' = viewModels
    BY <1>5 DEF Approve
  <2> HIDE DEF t
  <2>4. /\ tasks' \in Seq(Tasks) /\ Len(tasks') <= MaxTasks
        /\ \A j \in DOMAIN tasks' : tasks'[j].entry \in DOMAIN viewModels'
    BY <2>2, <2>3, <1>c
  <2>5. CASE arrived = 0
    BY <1>5, <2>4, <2>5 DEF Approve, TypeOK, screens, key
  <2>6. CASE arrived # 0
    BY <1>5, <2>4, <2>6 DEF Approve, TypeOK, screens, key
  <2> QED BY <2>5, <2>6
<1> QED BY <1>1, <1>2, <1>3, <1>4, <1>5

LEMMA TypeStep == TypeInv /\ [Next]_vars => TypeInv'
<1> SUFFICES ASSUME TypeInv, [Next]_vars PROVE TypeInv'
  OBVIOUS
<1>1. CASE UNCHANGED vars
  BY <1>1 DEF vars, screens, connect, key, TypeInv, TypeOK
<1>2. CASE Next
  BY <1>2, TypeLocks, TypeSheets, TypeTasks DEF Next
<1> QED BY <1>1, <1>2

\* The types hold, and every task belongs to a MAIN entry there is.
THEOREM TypeCorrect == Spec => []TypeInv
BY TypeInit, TypeStep, PTL DEF Spec

THEOREM TypeHolds == Spec => []TypeOK
<1>1. TypeInv => TypeOK
  BY DEF TypeInv
<1> QED BY <1>1, TypeCorrect, PTL

-----------------------------------------------------------------------------
(* What a step does to the tasks                                           *)

\* Task i over a step: what was recorded at its launch stays; it reads the field
\* once, clears it once, and a transfer reads its view model when it pays.
Kept(i) ==
    LET t == tasks[i]
        u == tasks'[i]
        same == u.got = t.got
        reads == t.phase = "new" /\ u.phase = "read" /\ u.got = inputKeyTemp /\ UNCHANGED key
        clears == t.phase = "read" /\ Clear(i) /\ u.phase = IF t.got = 0 THEN "done" ELSE "cleared"
        ends == t.phase = "cleared" /\ u.phase = "done"
    IN /\ u.kind = t.kind /\ u.entry = t.entry /\ u.for = t.for
       /\ u.gone = t.gone /\ u.closed = t.closed
       /\ \/ reads
          \/ same /\ (u.phase \in {t.phase, "cancelled"} \/ clears \/ ends)
       /\ \/ u.pays = t.pays
          \/ t.kind = "transfer" /\ u.pays = viewModels[t.entry]

\* Task i is launched by the step.
Born(i) ==
    LET u == tasks'[i]
    IN /\ u.phase = "new" /\ u.got = 0 /\ u.pays = 0
       /\ u.gone = Wiped /\ u.closed = closed
       /\ UNCHANGED <<key, request, arrived, closed>>
       /\ u.kind = "send" => i = Len(tasks) + 1 /\ u.for = opened /\ opened # 0
       /\ u.kind = "transfer" => Compose \/ Confirm
       /\ u.kind = "transfer" => u.entry = Len(viewModels)

\* The summary of a step that the invariants below work with.
Evolve ==
    /\ DOMAIN tasks \subseteq DOMAIN tasks'
    /\ \A i \in DOMAIN tasks : Kept(i)
    /\ \A i \in DOMAIN tasks' \ DOMAIN tasks : Born(i)

LEMMA EvolveSame == ASSUME tasks' = tasks PROVE Evolve
BY DEF Evolve, Kept

\* A launch adds one task and changes none.
LEMMA EvolveLaunch ==
    ASSUME TypeInv, NEW kind \in {"send", "transfer", "approve"}, NEW e \in Nat,
           NEW u \in 0..MaxUnlocks, Launch(kind, e, u),
           UNCHANGED <<key, request, arrived, closed>>,
           kind = "send" => u = opened /\ opened # 0,
           kind = "transfer" => (Compose \/ Confirm) /\ e = Len(viewModels)
    PROVE  Evolve
<1>1. TypeOK
  BY DEF TypeInv
<1>2. Len(tasks) \in Nat /\ DOMAIN tasks = 1..Len(tasks)
  BY <1>1, LenProperties DEF TypeOK
<1>3. /\ DOMAIN tasks' = 1..(Len(tasks) + 1)
      /\ tasks'[Len(tasks) + 1] = Task(kind, e, u)
      /\ \A i \in DOMAIN tasks : tasks'[i] = tasks[i]
  BY <1>1, Launched
<1>4. DOMAIN tasks \subseteq DOMAIN tasks' /\ DOMAIN tasks' \ DOMAIN tasks = {Len(tasks) + 1}
  BY <1>2, <1>3
<1>5. \A i \in DOMAIN tasks : Kept(i)
  BY <1>3 DEF Kept
<1>6. Born(Len(tasks) + 1)
  BY <1>3 DEF Born, Task
<1> QED BY <1>4, <1>5, <1>6 DEF Evolve

LEMMA EvolveStep ==
    ASSUME TypeInv, Next
    PROVE  Evolve
<1> USE InputKeyConstants
<1>v. /\ TypeOK /\ viewModels \in Seq(0..MaxRequests) /\ Len(viewModels) \in Nat
      /\ tasks \in Seq(Tasks)
  BY LenProperties DEF TypeInv, TypeOK
<1>0. 0 \in 0..MaxUnlocks /\ opened \in 0..MaxUnlocks
  BY <1>v DEF TypeOK
<1>1. CASE UnlockByPasscode \/ UnlockByBiometrics \/ WrongPasscode \/ EnterWords
         \/ BackFromSettings
  <2>1. tasks' = tasks
    BY <1>1 DEF UnlockByPasscode, UnlockByBiometrics, WrongPasscode, EnterWords, BackFromSettings
  <2> QED BY <2>1, EvolveSame
<1>2. CASE AskWords \/ Arrive \/ Scan \/ ConfirmLoaded \/ ConfirmConnection \/ Dismiss
  <2>1. tasks' = tasks
    BY <1>2 DEF AskWords, Arrive, Scan, ConfirmLoaded, ConfirmConnection, OpenPasscode, Dismiss
  <2> QED BY <2>1, EvolveSame
<1>3. CASE EnterMain
  <2>1. CASE onMain
    <3>1. Launch("approve", Len(viewModels) + 1, opened) /\ Len(viewModels) + 1 \in Nat
      BY <1>3, <2>1, <1>v DEF EnterMain
    <3>2. UNCHANGED <<key, request, arrived, closed>>
      BY <1>3 DEF EnterMain
    <3> QED BY <3>1, <3>2, <1>0, EvolveLaunch
  <2>2. CASE ~onMain
    BY <1>3, <2>2, EvolveSame DEF EnterMain
  <2> QED BY <2>1, <2>2
<1>4. CASE EnterPending
  <2>1. Launch("send", Len(viewModels), opened) /\ opened # 0
    BY <1>4 DEF EnterPending
  <2>2. UNCHANGED <<key, request, arrived, closed>>
    BY <1>4 DEF EnterPending, connect
  <2> QED BY <2>1, <2>2, <1>v, <1>0, EvolveLaunch
<1>5. CASE Back
  <2>1. CASE onMain
    <3>1. Launch("approve", Len(viewModels), 0)
      BY <1>5, <2>1 DEF Back
    <3>2. UNCHANGED <<key, request, arrived, closed>>
      BY <1>5 DEF Back, connect
    <3> QED BY <3>1, <3>2, <1>v, <1>0, EvolveLaunch
  <2>2. CASE ~onMain
    BY <1>5, <2>2, EvolveSame DEF Back
  <2> QED BY <2>1, <2>2
<1>6. CASE Compose
  <2>1. CASE inputKeyTemp # 0
    <3>1. Launch("transfer", Len(viewModels), 0)
      BY <1>6, <2>1 DEF Compose
    <3>2. UNCHANGED <<key, request, arrived, closed>>
      BY <1>6 DEF Compose
    <3> QED BY <1>6, <3>1, <3>2, <1>v, <1>0, EvolveLaunch
  <2>2. CASE inputKeyTemp = 0
    BY <1>6, <2>2, EvolveSame DEF Compose
  <2> QED BY <2>1, <2>2
<1>7. CASE Confirm
  <2>1. Launch("transfer", Len(viewModels), 0)
    BY <1>7 DEF Confirm
  <2>2. UNCHANGED <<key, request, arrived, closed>>
    BY <1>7 DEF Confirm, connect
  <2> QED BY <1>7, <2>1, <2>2, <1>v, <1>0, EvolveLaunch
<1>8. CASE AskSend \/ AskOther
  <2>1. tasks' = SendsCancelled
    BY <1>8 DEF AskSend, AskOther, OpenSheet
  <2>2. \A i \in DOMAIN tasks : tasks[i] \in Tasks
    BY <1>v, Elements
  <2>3. ASSUME NEW i \in DOMAIN tasks PROVE Kept(i)
    <3>1. CASE tasks'[i] = tasks[i]
      BY <3>1 DEF Kept
    <3>2. CASE tasks'[i] = [tasks[i] EXCEPT !.phase = "cancelled"]
      BY <3>2, <2>2 DEF Kept, Tasks
    <3> QED BY <3>1, <3>2, <2>1, <1>v, Cancelled
  <2> QED BY <2>1, <2>3, <1>v, Cancelled DEF Evolve
<1>9. ASSUME NEW i \in DOMAIN tasks,
             Read(i) \/ Clear(i) \/ Fail(i) \/ Send(i) \/ Transfer(i) \/ Approve(i)
      PROVE  Evolve
  <2>1. tasks[i] \in Tasks
    BY <1>v, Elements
  <2>2. /\ DOMAIN tasks' = DOMAIN tasks
        /\ \A j \in DOMAIN tasks : j # i => tasks'[j] = tasks[j]
    BY <1>9 DEF Read, Clear, Fail, Send, Transfer, Approve
  <2>3. \A j \in DOMAIN tasks : j # i => Kept(j)
    BY <2>2 DEF Kept
  <2>4. Kept(i)
    <3>1. CASE Read(i)
      BY <3>1, <2>1 DEF Read, Kept, Tasks
    <3>2. CASE Clear(i)
      <4>1. tasks[i].phase = "read"
        BY <3>2 DEF Clear
      <4>2. tasks'[i] = [tasks[i] EXCEPT !.phase = IF tasks[i].got = 0 THEN "done" ELSE "cleared"]
        BY <3>2 DEF Clear
      <4> QED BY <3>2, <4>1, <4>2, <2>1 DEF Kept, Tasks
    <3>3. CASE Fail(i) \/ Send(i) \/ Approve(i)
      BY <3>3, <2>1 DEF Fail, Send, Approve, Kept, Tasks
    <3>4. CASE Transfer(i)
      BY <3>4, <2>1 DEF Transfer, Kept, Tasks
    <3> QED BY <1>9, <3>1, <3>2, <3>3, <3>4
  <2> QED BY <2>2, <2>3, <2>4 DEF Evolve
<1> QED BY <1>1, <1>2, <1>3, <1>4, <1>5, <1>6, <1>7, <1>8, <1>9 DEF Next

-----------------------------------------------------------------------------
(* One unlock, one round of use                                            *)

\* A key that was taken out is older than the one in the field, and no task has
\* one that was gone when it was launched.
KeyInv ==
    /\ inputKeyTemp \notin Wiped
    /\ \A u \in Wiped : u <= unlocks
    /\ \A i \in DOMAIN tasks : tasks[i].gone \subseteq Wiped
    /\ KeyTakenOnce

LEMMA KeyInit == Init => KeyInv
<1> SUFFICES ASSUME Init PROVE KeyInv
  OBVIOUS
<1>1. Wiped = {} /\ DOMAIN tasks = {}
  BY EmptySeq DEF Init, Wiped
<1> QED BY <1>1 DEF KeyInv, KeyTakenOnce

\* The field is only ever given a fresh key or null, and what is taken out of it
\* is recorded.
LEMMA FieldStep ==
    ASSUME TypeInv, KeyInv, [Next]_vars
    PROVE  /\ inputKeyTemp' \notin Wiped' /\ Wiped \subseteq Wiped'
           /\ \A u \in Wiped' : u <= unlocks'
<1>t. /\ inputKeyTemp \in 0..unlocks /\ unlocks \in 0..MaxUnlocks
      /\ wipedBy \in [Unlocks -> 0..Mistyped]
  BY DEF TypeInv, TypeOK
<1>k. inputKeyTemp \notin Wiped /\ \A u \in Wiped : u <= unlocks
  BY DEF KeyInv
<1> USE InputKeyConstants
<1>1. CASE UNCHANGED key
  BY <1>1, <1>k DEF key, Wiped
<1>2. CASE UnlockByPasscode
  <2>1. /\ Wiped' = Wiped /\ unlocks' = unlocks + 1 /\ inputKeyTemp' = unlocks + 1
    BY <1>2 DEF UnlockByPasscode, Wiped
  <2> QED BY <2>1, <1>t, <1>k DEF Wiped, Unlocks
<1>3. CASE UnlockByBiometrics
  <2>1. /\ Wiped' = Wiped /\ unlocks' = unlocks + 1 /\ inputKeyTemp' = inputKeyTemp
    BY <1>3 DEF UnlockByBiometrics, Wiped
  <2> QED BY <2>1, <1>t, <1>k DEF Wiped, Unlocks
<1>4. ASSUME NEW by \in Nat \ {0}, Wipe(by), unlocks' = unlocks
      PROVE  /\ inputKeyTemp' \notin Wiped' /\ Wiped \subseteq Wiped'
             /\ \A u \in Wiped' : u <= unlocks'
  <2>1. CASE inputKeyTemp = 0
    <3>1. Wiped' = Wiped /\ inputKeyTemp' = 0
      BY <1>4, <2>1 DEF Wipe, Wiped
    <3> QED BY <3>1, <1>4, <1>t, <1>k DEF Wiped, Unlocks
  <2>2. CASE inputKeyTemp # 0
    <3>1. wipedBy' = [wipedBy EXCEPT ![inputKeyTemp] = by] /\ inputKeyTemp' = 0
      BY <1>4, <2>2 DEF Wipe
    <3>2. \A u \in Unlocks : wipedBy'[u] = IF u = inputKeyTemp THEN by ELSE wipedBy[u]
      BY <3>1, <1>t
    <3>3. \A u : u \in Wiped' <=> u \in Wiped \/ (u \in Unlocks /\ u = inputKeyTemp)
      BY <3>2, <1>4 DEF Wiped
    <3> QED BY <3>1, <3>3, <1>4, <1>t, <1>k DEF Wiped, Unlocks
  <2> QED BY <2>1, <2>2
<1>5. CASE WrongPasscode
  <2>1. Wipe(Mistyped) /\ unlocks' = unlocks /\ Mistyped \in Nat \ {0}
    BY <1>5 DEF WrongPasscode, Mistyped
  <2> QED BY <2>1, <1>4
<1>6. ASSUME NEW i \in DOMAIN tasks, Clear(i)
      PROVE  /\ inputKeyTemp' \notin Wiped' /\ Wiped \subseteq Wiped'
             /\ \A u \in Wiped' : u <= unlocks'
  <2>1. i \in Nat \ {0}
    BY LenProperties DEF TypeInv, TypeOK
  <2>2. Wipe(i) /\ unlocks' = unlocks
    BY <1>6 DEF Clear
  <2> QED BY <2>1, <2>2, <1>4
<1>7. CASE EnterMain \/ EnterPending \/ EnterWords
         \/ BackFromSettings \/ Back \/ AskSend \/ AskOther \/ AskWords
  BY <1>7, <1>1 DEF EnterMain, EnterPending, EnterWords,
      BackFromSettings, Back, AskSend, AskOther, OpenSheet, AskWords
<1>8. CASE Arrive \/ Scan \/ Compose \/ ConfirmLoaded \/ Confirm \/ ConfirmConnection \/ Dismiss
  BY <1>8, <1>1
  DEF Arrive, Scan, Compose, ConfirmLoaded, OpenPasscode, Confirm, ConfirmConnection, Dismiss
<1>9. ASSUME NEW i \in DOMAIN tasks, Read(i) \/ Fail(i) \/ Send(i) \/ Transfer(i) \/ Approve(i)
      PROVE  UNCHANGED key
  BY <1>9 DEF Read, Fail, Send, Transfer, Approve
<1>10. CASE UNCHANGED vars
  BY <1>10, <1>1 DEF vars
<1> QED BY <1>1, <1>2, <1>3, <1>5, <1>6, <1>7, <1>8, <1>9, <1>10 DEF Next

LEMMA KeyStep == TypeInv /\ KeyInv /\ [Next]_vars => KeyInv'
<1> SUFFICES ASSUME TypeInv, KeyInv, [Next]_vars PROVE KeyInv'
  OBVIOUS
<1>1. /\ inputKeyTemp' \notin Wiped' /\ Wiped \subseteq Wiped'
      /\ \A u \in Wiped' : u <= unlocks'
  BY FieldStep
<1>2. Evolve
  <2>1. CASE Next
    BY <2>1, EvolveStep
  <2>2. CASE UNCHANGED vars
    BY <2>2, EvolveSame DEF vars
  <2> QED BY <2>1, <2>2
<1>3. ASSUME NEW i \in DOMAIN tasks'
      PROVE  tasks'[i].gone \subseteq Wiped' /\ tasks'[i].got \notin tasks'[i].gone
  <2>1. CASE i \in DOMAIN tasks
    <3>1. /\ tasks'[i].gone = tasks[i].gone
          /\ tasks'[i].got \in {tasks[i].got, inputKeyTemp}
      BY <1>2, <2>1 DEF Evolve, Kept
    <3>2. tasks[i].gone \subseteq Wiped /\ tasks[i].got \notin tasks[i].gone /\ inputKeyTemp \notin Wiped
      BY <2>1 DEF KeyInv, KeyTakenOnce
    <3> QED BY <3>1, <3>2, <1>1
  <2>2. CASE i \notin DOMAIN tasks
    <3>1. tasks'[i].gone = Wiped /\ tasks'[i].got = 0
      BY <1>2, <1>3, <2>2 DEF Evolve, Born
    <3>2. 0 \notin Wiped
      BY InputKeyConstants DEF Wiped, Unlocks
    <3> QED BY <3>1, <3>2, <1>1
  <2> QED BY <2>1, <2>2
<1> QED BY <1>1, <1>3 DEF KeyInv, KeyTakenOnce

LEMMA KeyCorrect == Spec => []KeyInv
BY TypeCorrect, KeyInit, KeyStep, PTL DEF Spec

\* getPrivateKeyTemp and getPrivateKeyTempData hand a key only to tasks that were
\* launched before it was first taken out.
THEOREM KeyTakenOnceHolds == Spec => []KeyTakenOnce
<1>1. KeyInv => KeyTakenOnce
  BY DEF KeyInv
<1> QED BY <1>1, KeyCorrect, PTL

-----------------------------------------------------------------------------
(* A declined request is not paid                                          *)

\* What the sheet shows is not declined; and of a task: neither the recipient its
\* view model has nor the one it may yet get is of a request that was declined
\* before its launch, because view models are only given the last request.
DeclineInv ==
    /\ request \notin closed
    /\ passcode => shown = 0
    /\ shown # 0 => /\ request # 0 /\ shown \notin closed
                    /\ shown = viewModels[Len(viewModels)]
    /\ \A i \in DOMAIN tasks :
        LET t == tasks[i]
        IN /\ t.closed \subseteq 1..arrived
           /\ t.pays \notin t.closed
           /\ t.kind = "transfer" => /\ arrived \notin t.closed
                                     /\ viewModels[t.entry] \notin t.closed

LEMMA DeclineInit == Init => DeclineInv
<1> SUFFICES ASSUME Init PROVE DeclineInv
  OBVIOUS
<1>1. DOMAIN tasks = {}
  BY EmptySeq DEF Init
<1> QED BY <1>1 DEF Init, DeclineInv

\* The sheet over a step.
LEMMA SheetStep ==
    ASSUME TypeInv, DeclineInv, [Next]_vars
    PROVE  /\ request' \notin closed'
           /\ passcode' => shown' = 0
           /\ shown' # 0 => /\ request' # 0 /\ shown' \notin closed'
                            /\ shown' = viewModels'[Len(viewModels')]
<1> USE DEF DeclineInv
<1>t. /\ arrived \in Nat /\ closed \subseteq 1..arrived /\ request \in {0, arrived}
      /\ viewModels \in Seq(0..MaxRequests)
      /\ ~passcode => Len(viewModels) \in DOMAIN viewModels
      /\ Len(viewModels) \in Nat
  BY LenProperties, InputKeyConstants DEF TypeInv, TypeOK
<1>1. CASE UNCHANGED <<passcode, connect>>
  BY <1>1 DEF connect
<1>2. CASE EnterMain
  <2>1. shown' = 0 /\ request' = request /\ closed' = closed /\ passcode' = FALSE
    BY <1>2 DEF EnterMain
  <2> QED BY <2>1
<1>3. CASE Back
  <2>1. shown' = 0 /\ request' = request /\ closed' = closed
    BY <1>3 DEF Back, connect
  <2> QED BY <2>1
<1>4. CASE Arrive
  <2>1. /\ request' = arrived + 1 /\ closed' = closed /\ shown' = shown
        /\ viewModels' = viewModels /\ passcode' = passcode
    BY <1>4 DEF Arrive, screens
  <2> QED BY <2>1, <1>t
<1>5. CASE Scan
  BY <1>5 DEF Scan, screens
<1>6. CASE Compose
  <2>1. /\ shown' = request /\ request' = request /\ request # 0 /\ closed' = closed
        /\ ~passcode /\ passcode' = passcode
        /\ viewModels' = [viewModels EXCEPT ![Len(viewModels)] = request]
    BY <1>6 DEF Compose, screens
  <2>2. viewModels \in [DOMAIN viewModels -> 0..MaxRequests] /\ request \in 0..MaxRequests
    BY LenProperties DEF TypeInv, TypeOK
  <2>3. viewModels' \in [DOMAIN viewModels -> 0..MaxRequests]
    BY <2>1, <2>2
  <2>4. Len(viewModels') = Len(viewModels)
    BY <2>3, <1>t, Mapped
  <2>5. viewModels'[Len(viewModels')] = request
    BY <2>1, <2>2, <2>4, <1>t
  <2> QED BY <2>1, <2>5
<1>7. CASE ConfirmLoaded \/ ConfirmConnection
  <2>1. shown' = 0 /\ request' = request /\ closed' = closed
    BY <1>7 DEF ConfirmLoaded, ConfirmConnection, OpenPasscode
  <2> QED BY <2>1
<1>8. CASE Dismiss
  <2>1. shown' = 0 /\ request' = 0 /\ closed' \subseteq 1..arrived
    BY <1>8, <1>t DEF Dismiss
  <2> QED BY <2>1, <1>t
<1>9. ASSUME NEW i \in DOMAIN tasks, Approve(i)
      PROVE  /\ request' \notin closed'
             /\ passcode' => shown' = 0
             /\ shown' # 0 => /\ request' # 0 /\ shown' \notin closed'
                              /\ shown' = viewModels'[Len(viewModels')]
  <2>1. shown' = shown /\ viewModels' = viewModels /\ passcode' = passcode
    BY <1>9 DEF Approve, screens
  <2>2. CASE arrived = 0
    BY <1>9, <2>1, <2>2 DEF Approve
  <2>3. CASE arrived # 0
    BY <1>9, <2>1, <2>3 DEF Approve
  <2> QED BY <2>2, <2>3
<1>10. CASE UnlockByPasscode \/ UnlockByBiometrics \/ WrongPasscode \/ EnterPending \/ EnterWords
         \/ BackFromSettings
  BY <1>10, <1>1
  DEF UnlockByPasscode, UnlockByBiometrics, WrongPasscode, EnterPending, EnterWords,
      BackFromSettings, screens
<1>11. CASE AskSend \/ AskOther \/ AskWords \/ Confirm
  BY <1>11, <1>1 DEF AskSend, AskOther, OpenSheet, AskWords, Confirm, screens
<1>12. ASSUME NEW i \in DOMAIN tasks, Read(i) \/ Clear(i) \/ Fail(i) \/ Send(i) \/ Transfer(i)
       PROVE  UNCHANGED <<passcode, connect>>
  BY <1>12 DEF Read, Clear, Fail, Send, Transfer, screens
<1>13. CASE UNCHANGED vars
  BY <1>13, <1>1 DEF vars, screens
<1> QED BY <1>1, <1>2, <1>3, <1>4, <1>5, <1>6, <1>7, <1>8, <1>9, <1>10, <1>11, <1>12, <1>13 DEF Next

\* The view models over a step: one keeps its recipient or gets the last request.
LEMMA RecipientStep ==
    ASSUME TypeInv, [Next]_vars
    PROVE  /\ arrived' \in {arrived, arrived + 1}
           /\ \A e \in DOMAIN viewModels :
                viewModels'[e] = viewModels[e] \/ viewModels'[e] = arrived
<1>v. /\ viewModels \in Seq(0..MaxRequests) /\ Len(viewModels) \in Nat
      /\ DOMAIN viewModels = 1..Len(viewModels) /\ request \in {0, arrived}
      /\ viewModels \in [DOMAIN viewModels -> 0..MaxRequests]
  BY LenProperties DEF TypeInv, TypeOK
<1>1. CASE EnterMain
  <2>1. viewModels' = Append(viewModels, 0) /\ arrived' = arrived /\ 0 \in 0..MaxRequests
    BY <1>1, InputKeyConstants DEF EnterMain
  <2> QED BY <2>1, <1>v, Appended
<1>2. CASE Compose
  <2>1. /\ viewModels' = [viewModels EXCEPT ![Len(viewModels)] = request]
        /\ request = arrived /\ arrived' = arrived
    BY <1>2, <1>v DEF Compose
  <2> QED BY <2>1, <1>v
<1>3. CASE Arrive
  BY <1>3 DEF Arrive
<1>4. CASE UnlockByPasscode \/ UnlockByBiometrics \/ WrongPasscode \/ EnterPending \/ EnterWords
         \/ BackFromSettings \/ Back
  BY <1>4
  DEF UnlockByPasscode, UnlockByBiometrics, WrongPasscode, EnterPending, EnterWords,
      BackFromSettings, Back, connect
<1>5. CASE AskSend \/ AskOther \/ AskWords \/ Confirm \/ Scan \/ ConfirmLoaded \/ ConfirmConnection \/ Dismiss
  BY <1>5
  DEF AskSend, AskOther, OpenSheet, AskWords, Confirm, Scan, ConfirmLoaded, ConfirmConnection,
      OpenPasscode, Dismiss, connect
<1>6. ASSUME NEW i \in DOMAIN tasks,
             Read(i) \/ Clear(i) \/ Fail(i) \/ Send(i) \/ Transfer(i) \/ Approve(i)
      PROVE  viewModels' = viewModels /\ arrived' = arrived
  BY <1>6 DEF Read, Clear, Fail, Send, Transfer, Approve, connect
<1>7. CASE UNCHANGED vars
  BY <1>7 DEF vars, connect
<1> QED BY <1>1, <1>2, <1>3, <1>4, <1>5, <1>6, <1>7 DEF Next

\* A dApp's payment is launched from a sheet that shows a request.
LEMMA TransferBorn ==
    ASSUME TypeInv, DeclineInv, Compose \/ Confirm
    PROVE  /\ request = arrived /\ request \notin closed
           /\ viewModels'[Len(viewModels)] \notin closed
<1>v. /\ viewModels \in [DOMAIN viewModels -> 0..MaxRequests]
      /\ Len(viewModels) \in Nat /\ DOMAIN viewModels = 1..Len(viewModels)
      /\ ~passcode => Len(viewModels) > 0
      /\ request \in {0, arrived}
  BY LenProperties DEF TypeInv, TypeOK
<1>1. CASE Compose
  BY <1>1, <1>v DEF Compose, DeclineInv
<1>2. CASE Confirm
  BY <1>2, <1>v DEF Confirm, CanConfirm, connect, DeclineInv
<1> QED BY <1>1, <1>2

LEMMA DeclineStep == TypeInv /\ DeclineInv /\ [Next]_vars => DeclineInv'
<1> SUFFICES ASSUME TypeInv, DeclineInv, [Next]_vars PROVE DeclineInv'
  OBVIOUS
<1>1. Evolve
  <2>1. CASE Next
    BY <2>1, EvolveStep
  <2>2. CASE UNCHANGED vars
    BY <2>2, EvolveSame DEF vars
  <2> QED BY <2>1, <2>2
<1>a. arrived \in Nat /\ closed \subseteq 1..arrived
  BY InputKeyConstants DEF TypeInv, TypeOK
<1>2. ASSUME NEW i \in DOMAIN tasks'
      PROVE  /\ tasks'[i].closed \subseteq 1..arrived'
             /\ tasks'[i].pays \notin tasks'[i].closed
             /\ tasks'[i].kind = "transfer" =>
                  /\ arrived' \notin tasks'[i].closed
                  /\ viewModels'[tasks'[i].entry] \notin tasks'[i].closed
  <2>1. CASE i \in DOMAIN tasks
    <3> DEFINE t == tasks[i]
    <3>1. /\ tasks'[i].closed = t.closed /\ tasks'[i].kind = t.kind /\ tasks'[i].entry = t.entry
          /\ \/ tasks'[i].pays = t.pays
             \/ t.kind = "transfer" /\ tasks'[i].pays = viewModels[t.entry]
      BY <1>1, <2>1 DEF Evolve, Kept
    <3>2. /\ t.closed \subseteq 1..arrived /\ t.pays \notin t.closed
          /\ t.kind = "transfer" => arrived \notin t.closed /\ viewModels[t.entry] \notin t.closed
      BY <2>1 DEF DeclineInv
    <3>3. t.entry \in DOMAIN viewModels
      BY <2>1 DEF TypeInv
    <3>4. /\ arrived' \in {arrived, arrived + 1}
          /\ viewModels'[t.entry] = viewModels[t.entry] \/ viewModels'[t.entry] = arrived
      BY <3>3, RecipientStep
    <3> HIDE DEF t
    <3>5. tasks'[i].closed \subseteq 1..arrived' /\ (arrived \notin t.closed => arrived' \notin t.closed)
      BY <3>1, <3>2, <3>4, <1>a
    <3> QED BY <3>1, <3>2, <3>4, <3>5
  <2>2. CASE i \notin DOMAIN tasks
    <3>1. /\ tasks'[i].closed = closed /\ tasks'[i].pays = 0 /\ arrived' = arrived
          /\ tasks'[i].kind = "transfer" =>
               (Compose \/ Confirm) /\ tasks'[i].entry = Len(viewModels)
      BY <1>1, <1>2, <2>2 DEF Evolve, Born
    <3>2. tasks'[i].kind = "transfer" =>
            arrived \notin closed /\ viewModels'[Len(viewModels)] \notin closed
      BY <3>1, TransferBorn
    <3> QED BY <3>1, <3>2, <1>a
  <2> QED BY <2>1, <2>2
<1> QED BY <1>2, SheetStep DEF DeclineInv

\* Dismissing the sheet is final for payments not yet launched, even though a task
\* reads its recipient after it has the key.
THEOREM DeclinedNotPaidHolds == Spec => []DeclinedNotPaid
<1>1. DeclineInv => DeclinedNotPaid
  BY DEF DeclineInv, DeclinedNotPaid
<1> QED BY <1>1, TypeCorrect, DeclineInit, DeclineStep, PTL DEF Spec

-----------------------------------------------------------------------------
(* A send without a key has a cause                                        *)

\* Biometrics, or a key not older than the unlock went elsewhere.
Cause(i) ==
    LET t == tasks[i]
    IN \/ t.for \in biometric
       \/ \E u \in t.for..MaxUnlocks : wipedBy[u] \notin {0, i}

\* From the unlock to the read a key waits for the send, or there is a cause.
CauseInv ==
    /\ \A u \in Unlocks : wipedBy[u] \in {0, Mistyped} \cup DOMAIN tasks
    /\ opened <= unlocks
    /\ opened # 0 => \/ opened \in biometric
                     \/ opened <= inputKeyTemp
                     \/ \E u \in opened..MaxUnlocks : wipedBy[u] # 0
    /\ \A i \in DOMAIN tasks :
        LET t == tasks[i]
        IN t.kind = "send" =>
            /\ t.for \in 1..unlocks
            /\ t.phase = "new" => t.for <= inputKeyTemp \/ Cause(i)
            /\ t.phase = "cleared" => t.got # 0
            /\ t.phase \in {"read", "done"} /\ t.got = 0 => Cause(i)

LEMMA CauseInit == Init => CauseInv
<1> SUFFICES ASSUME Init PROVE CauseInv
  OBVIOUS
<1>1. DOMAIN tasks = {}
  BY EmptySeq DEF Init
<1> QED BY <1>1 DEF Init, CauseInv

\* What happens to the field over a step, and to the record of it.
Field ==
    \/ UNCHANGED key
    \/ /\ unlocks' = unlocks + 1 /\ UNCHANGED <<wipedBy, tasks>>
       /\ \/ inputKeyTemp' = unlocks' /\ biometric' = biometric
          \/ inputKeyTemp' = inputKeyTemp /\ biometric' = biometric \cup {unlocks'}
    \/ UNCHANGED <<unlocks, biometric, tasks>> /\ Wipe(Mistyped)
    \/ \E j \in DOMAIN tasks : UNCHANGED <<unlocks, biometric>> /\ Clear(j)

LEMMA FieldCases == [Next]_vars => Field
<1> SUFFICES ASSUME [Next]_vars PROVE Field
  OBVIOUS
<1> USE DEF Field
<1>1. CASE UnlockByPasscode
  BY <1>1 DEF UnlockByPasscode
<1>2. CASE UnlockByBiometrics
  BY <1>2 DEF UnlockByBiometrics
<1>3. CASE WrongPasscode
  BY <1>3 DEF WrongPasscode
<1>4. ASSUME NEW i \in DOMAIN tasks, Clear(i) PROVE Field
  BY <1>4 DEF Clear
<1>5. CASE EnterMain \/ EnterPending \/ EnterWords
         \/ BackFromSettings \/ Back \/ AskSend \/ AskOther \/ AskWords
  BY <1>5 DEF EnterMain, EnterPending, EnterWords,
      BackFromSettings, Back, AskSend, AskOther, OpenSheet, AskWords
<1>6. CASE Arrive \/ Scan \/ Compose \/ ConfirmLoaded \/ Confirm \/ ConfirmConnection \/ Dismiss
  BY <1>6
  DEF Arrive, Scan, Compose, ConfirmLoaded, OpenPasscode, Confirm, ConfirmConnection, Dismiss
<1>7. ASSUME NEW i \in DOMAIN tasks, Read(i) \/ Fail(i) \/ Send(i) \/ Transfer(i) \/ Approve(i)
      PROVE  UNCHANGED key
  BY <1>7 DEF Read, Fail, Send, Transfer, Approve
<1>8. CASE UNCHANGED vars
  BY <1>8 DEF vars
<1> QED BY <1>1, <1>2, <1>3, <1>4, <1>5, <1>6, <1>7, <1>8 DEF Next

\* Clearing the field records who did it for the key that was there, and nothing
\* recorded before is lost.
LEMMA WipeRecord ==
    ASSUME TypeInv, KeyInv, NEW by \in Nat \ {0}, Wipe(by)
    PROVE  /\ \A u \in Unlocks : wipedBy[u] # 0 => wipedBy'[u] = wipedBy[u]
           /\ \A u \in Unlocks : wipedBy'[u] \in {wipedBy[u], by}
           /\ inputKeyTemp # 0 => inputKeyTemp \in Unlocks /\ wipedBy'[inputKeyTemp] = by
<1>t. /\ inputKeyTemp \in 0..unlocks /\ unlocks \in 0..MaxUnlocks
      /\ wipedBy \in [Unlocks -> 0..Mistyped]
  BY DEF TypeInv, TypeOK
<1>1. CASE inputKeyTemp = 0
  BY <1>1 DEF Wipe
<1>2. CASE inputKeyTemp # 0
  <2>1. wipedBy' = [wipedBy EXCEPT ![inputKeyTemp] = by]
    BY <1>2 DEF Wipe
  <2>2. inputKeyTemp \in Unlocks /\ wipedBy[inputKeyTemp] = 0
    BY <1>2, <1>t, InputKeyConstants DEF Unlocks, KeyInv, Wiped
  <2> QED BY <2>1, <2>2, <1>t
<1> QED BY <1>1, <1>2

\* A cause stays one, and a key that goes elsewhere becomes one.
LEMMA CauseKept ==
    ASSUME TypeInv, KeyInv, Field, NEW i \in DOMAIN tasks,
           tasks[i].for \in 1..unlocks, tasks'[i].for = tasks[i].for
    PROVE  /\ Cause(i) => Cause(i)'
           /\ tasks[i].for <= inputKeyTemp /\ tasks[i].phase = "new" =>
                tasks[i].for <= inputKeyTemp' \/ Cause(i)'
<1> DEFINE f == tasks[i].for
<1>t. /\ inputKeyTemp \in 0..unlocks /\ unlocks \in 0..MaxUnlocks /\ f \in 1..unlocks
      /\ wipedBy \in [Unlocks -> 0..Mistyped] /\ MaxUnlocks \in Nat /\ MaxTasks \in Nat
      /\ f..MaxUnlocks \subseteq Unlocks
  BY InputKeyConstants DEF TypeInv, TypeOK, Unlocks
<1>d. DOMAIN tasks = 1..Len(tasks) /\ Len(tasks) \in Nat /\ Len(tasks) <= MaxTasks
  BY LenProperties DEF TypeInv, TypeOK
<1>1. CASE UNCHANGED key
  BY <1>1 DEF key, Cause
<1>2. CASE /\ unlocks' = unlocks + 1 /\ UNCHANGED <<wipedBy, tasks>>
           /\ \/ inputKeyTemp' = unlocks' /\ biometric' = biometric
              \/ inputKeyTemp' = inputKeyTemp /\ biometric' = biometric \cup {unlocks'}
  <2>1. Cause(i) => Cause(i)'
    BY <1>2 DEF Cause
  <2>2. f <= inputKeyTemp => f <= inputKeyTemp'
    BY <1>2, <1>t
  <2> QED BY <2>1, <2>2
<1>3. ASSUME NEW by \in Nat \ {0}, Wipe(by), biometric' = biometric,
             by = i => tasks[i].phase = "read"
      PROVE  /\ Cause(i) => Cause(i)'
             /\ f <= inputKeyTemp /\ tasks[i].phase = "new" => f <= inputKeyTemp' \/ Cause(i)'
  <2>1. /\ \A u \in Unlocks : wipedBy[u] # 0 => wipedBy'[u] = wipedBy[u]
        /\ inputKeyTemp # 0 => inputKeyTemp \in Unlocks /\ wipedBy'[inputKeyTemp] = by
    BY <1>3, WipeRecord
  <2>2. Cause(i) => Cause(i)'
    BY <2>1, <1>3, <1>t DEF Cause
  <2>3. ASSUME f <= inputKeyTemp, tasks[i].phase = "new" PROVE Cause(i)'
    <3>1. by \notin {0, i} /\ inputKeyTemp # 0
      BY <1>3, <2>3, <1>t
    <3>2. inputKeyTemp \in f..MaxUnlocks /\ wipedBy'[inputKeyTemp] \notin {0, i}
      BY <3>1, <2>1, <2>3, <1>t
    <3> QED BY <3>2 DEF Cause
  <2> QED BY <2>2, <2>3
<1>4. CASE UNCHANGED <<unlocks, biometric, tasks>> /\ Wipe(Mistyped)
  <2>1. Mistyped \in Nat \ {0} /\ Mistyped # i
    BY <1>t, <1>d DEF Mistyped
  <2> QED BY <1>4, <2>1, <1>3
<1>5. CASE \E j \in DOMAIN tasks : UNCHANGED <<unlocks, biometric>> /\ Clear(j)
  <2>1. PICK j \in DOMAIN tasks : UNCHANGED <<unlocks, biometric>> /\ Clear(j)
    BY <1>5
  <2>2. Wipe(j) /\ tasks[j].phase = "read" /\ j \in Nat \ {0}
    BY <2>1, <1>d DEF Clear
  <2> QED BY <2>1, <2>2, <1>3
<1> QED BY <1>1, <1>2, <1>4, <1>5 DEF Field

\* The lock screen over a step: an unlock opens it, and else it stays or closes.
LEMMA OpenedCases ==
    ASSUME [Next]_vars
    PROVE  \/ opened' = 0
           \/ opened' = opened
           \/ /\ opened' = unlocks' /\ unlocks' = unlocks + 1
              /\ inputKeyTemp' = unlocks' \/ unlocks' \in biometric'
<1>1. CASE UnlockByPasscode \/ UnlockByBiometrics
  BY <1>1 DEF UnlockByPasscode, UnlockByBiometrics
<1>2. CASE WrongPasscode \/ EnterMain \/ EnterPending \/ EnterWords \/ BackFromSettings \/ Back
  BY <1>2 DEF WrongPasscode, EnterMain, EnterPending, EnterWords, BackFromSettings, Back, screens
<1>3. CASE AskSend \/ AskOther \/ AskWords \/ Arrive \/ Scan \/ Compose
  BY <1>3 DEF AskSend, AskOther, OpenSheet, AskWords, Arrive, Scan, Compose, screens
<1>4. CASE ConfirmLoaded \/ Confirm \/ ConfirmConnection \/ Dismiss
  BY <1>4 DEF ConfirmLoaded, OpenPasscode, Confirm, ConfirmConnection, Dismiss, screens
<1>5. ASSUME NEW i \in DOMAIN tasks,
             Read(i) \/ Clear(i) \/ Fail(i) \/ Send(i) \/ Transfer(i) \/ Approve(i)
      PROVE  opened' = opened
  BY <1>5 DEF Read, Clear, Fail, Send, Transfer, Approve, screens
<1>6. CASE UNCHANGED vars
  BY <1>6 DEF vars, screens
<1> QED BY <1>1, <1>2, <1>3, <1>4, <1>5, <1>6 DEF Next

\* The record of who took the keys, and what an open lock screen can count on.
LEMMA OpenedStep ==
    ASSUME TypeInv, TypeInv', KeyInv, CauseInv, [Next]_vars, Evolve
    PROVE  /\ \A u \in Unlocks : wipedBy'[u] \in {0, Mistyped} \cup DOMAIN tasks'
           /\ unlocks' \in {unlocks, unlocks + 1}
           /\ opened' <= unlocks'
           /\ opened' # 0 => \/ opened' \in biometric'
                             \/ opened' <= inputKeyTemp'
                             \/ \E u \in opened'..MaxUnlocks : wipedBy'[u] # 0
<1>t. /\ inputKeyTemp \in 0..unlocks /\ unlocks \in 0..MaxUnlocks /\ opened \in 0..MaxUnlocks
      /\ wipedBy \in [Unlocks -> 0..Mistyped] /\ MaxUnlocks \in Nat /\ MaxTasks \in Nat
      /\ opened' \in 0..MaxUnlocks /\ inputKeyTemp' \in 0..unlocks' /\ unlocks' \in 0..MaxUnlocks
  BY InputKeyConstants DEF TypeInv, TypeOK
<1>d. DOMAIN tasks \subseteq DOMAIN tasks' /\ DOMAIN tasks \subseteq Nat \ {0}
  <2>1. tasks \in Seq(Tasks)
    BY DEF TypeInv, TypeOK
  <2>2. DOMAIN tasks = 1..Len(tasks) /\ Len(tasks) \in Nat
    BY <2>1, LenProperties
  <2>3. DOMAIN tasks \subseteq DOMAIN tasks'
    BY DEF Evolve
  <2> QED
    BY <2>2, <2>3
<1>i. /\ \A u \in Unlocks : wipedBy[u] \in {0, Mistyped} \cup DOMAIN tasks
      /\ opened <= unlocks
      /\ opened # 0 => \/ opened \in biometric
                       \/ opened <= inputKeyTemp
                       \/ \E u \in opened..MaxUnlocks : wipedBy[u] # 0
  BY DEF CauseInv
<1>o. opened # 0 => opened..MaxUnlocks \subseteq Unlocks
  BY <1>t DEF Unlocks
<1> DEFINE Counts == opened # 0 => \/ opened \in biometric'
                                  \/ opened <= inputKeyTemp'
                                  \/ \E u \in opened..MaxUnlocks : wipedBy'[u] # 0
           Record == \A u \in Unlocks : wipedBy'[u] \in {0, Mistyped} \cup DOMAIN tasks'
<1>1. ASSUME NEW by \in (Nat \ {0}) \cap ({Mistyped} \cup DOMAIN tasks), Wipe(by),
             UNCHANGED <<unlocks, biometric>>
      PROVE  Counts /\ Record /\ unlocks' = unlocks
  <2>1. /\ \A u \in Unlocks : wipedBy[u] # 0 => wipedBy'[u] = wipedBy[u]
        /\ \A u \in Unlocks : wipedBy'[u] \in {wipedBy[u], by}
        /\ inputKeyTemp # 0 => inputKeyTemp \in Unlocks /\ wipedBy'[inputKeyTemp] = by
    BY <1>1, WipeRecord
  <2>2. Record
    BY <2>1, <1>i, <1>d
  <2>3. CASE opened # 0 /\ opened <= inputKeyTemp
    <3>1. inputKeyTemp \in opened..MaxUnlocks /\ wipedBy'[inputKeyTemp] # 0
      BY <2>1, <2>3, <1>t
    <3> QED BY <3>1, <2>2, <1>1
  <2>4. CASE opened # 0 /\ \E u \in opened..MaxUnlocks : wipedBy[u] # 0
    BY <2>1, <2>2, <2>4, <1>o, <1>1
  <2> QED BY <2>2, <2>3, <2>4, <1>i, <1>1
<1>2. Counts /\ Record /\ unlocks' \in {unlocks, unlocks + 1}
  <2>1. CASE UNCHANGED key
    BY <2>1, <1>i, <1>d DEF key
  <2>2. CASE /\ unlocks' = unlocks + 1 /\ UNCHANGED <<wipedBy, tasks>>
             /\ \/ inputKeyTemp' = unlocks' /\ biometric' = biometric
                \/ inputKeyTemp' = inputKeyTemp /\ biometric' = biometric \cup {unlocks'}
    <3>1. opened <= inputKeyTemp => opened <= inputKeyTemp'
      BY <2>2, <1>t
    <3> QED BY <2>2, <3>1, <1>i
  <2>3. CASE UNCHANGED <<unlocks, biometric, tasks>> /\ Wipe(Mistyped)
    <3>1. Mistyped \in Nat \ {0}
      BY <1>t DEF Mistyped
    <3> QED BY <2>3, <3>1, <1>1
  <2>4. CASE \E j \in DOMAIN tasks : UNCHANGED <<unlocks, biometric>> /\ Clear(j)
    <3>1. PICK j \in DOMAIN tasks : UNCHANGED <<unlocks, biometric>> /\ Wipe(j)
      BY <2>4 DEF Clear
    <3> QED BY <3>1, <1>d, <1>1
  <2> QED BY <2>1, <2>2, <2>3, <2>4, FieldCases DEF Field
<1>3. CASE opened' = opened
  BY <1>2, <1>3, <1>i, <1>t
<1>4. CASE opened' = 0
  BY <1>2, <1>4, <1>t
<1>5. CASE /\ opened' = unlocks' /\ unlocks' = unlocks + 1
           /\ inputKeyTemp' = unlocks' \/ unlocks' \in biometric'
  BY <1>2, <1>5, <1>t
<1> QED BY <1>3, <1>4, <1>5, OpenedCases

LEMMA CauseStep == TypeInv /\ TypeInv' /\ KeyInv /\ CauseInv /\ [Next]_vars => CauseInv'
<1> SUFFICES ASSUME TypeInv, TypeInv', KeyInv, CauseInv, [Next]_vars PROVE CauseInv'
  OBVIOUS
<1>1. Evolve
  <2>1. CASE Next
    BY <2>1, EvolveStep
  <2>2. CASE UNCHANGED vars
    BY <2>2, EvolveSame DEF vars
  <2> QED BY <2>1, <2>2
<1>f. Field
  BY FieldCases
<1>o. /\ \A u \in Unlocks : wipedBy'[u] \in {0, Mistyped} \cup DOMAIN tasks'
      /\ unlocks' \in {unlocks, unlocks + 1}
      /\ opened' <= unlocks'
      /\ opened' # 0 => \/ opened' \in biometric'
                        \/ opened' <= inputKeyTemp'
                        \/ \E u \in opened'..MaxUnlocks : wipedBy'[u] # 0
  BY <1>1, OpenedStep
<1>t. /\ inputKeyTemp \in 0..unlocks /\ unlocks \in 0..MaxUnlocks /\ opened \in 0..MaxUnlocks
      /\ MaxUnlocks \in Nat /\ MaxTasks \in Nat
  BY InputKeyConstants DEF TypeInv, TypeOK
<1>d. /\ DOMAIN tasks = 1..Len(tasks) /\ Len(tasks) \in Nat
      /\ DOMAIN tasks' = 1..Len(tasks') /\ Len(tasks') \in Nat /\ Len(tasks') <= MaxTasks
  BY LenProperties DEF TypeInv, TypeOK
<1>2. ASSUME NEW i \in DOMAIN tasks', tasks'[i].kind = "send"
      PROVE  /\ tasks'[i].for \in 1..unlocks'
             /\ tasks'[i].phase = "new" => tasks'[i].for <= inputKeyTemp' \/ Cause(i)'
             /\ tasks'[i].phase = "cleared" => tasks'[i].got # 0
             /\ tasks'[i].phase \in {"read", "done"} /\ tasks'[i].got = 0 => Cause(i)'
  <2>1. CASE i \in DOMAIN tasks
    <3>1. Kept(i)
      BY <1>1, <2>1 DEF Evolve
    <3>2. tasks[i].kind = "send" /\ tasks'[i].for = tasks[i].for
      BY <1>2, <3>1 DEF Kept
    <3>3. /\ tasks[i].for \in 1..unlocks
          /\ tasks[i].phase = "new" => tasks[i].for <= inputKeyTemp \/ Cause(i)
          /\ tasks[i].phase = "cleared" => tasks[i].got # 0
          /\ tasks[i].phase \in {"read", "done"} /\ tasks[i].got = 0 => Cause(i)
      BY <2>1, <3>2 DEF CauseInv
    <3>4. /\ Cause(i) => Cause(i)'
          /\ tasks[i].for <= inputKeyTemp /\ tasks[i].phase = "new" =>
               tasks[i].for <= inputKeyTemp' \/ Cause(i)'
      BY <2>1, <3>2, <3>3, <1>f, CauseKept
    <3>5. tasks'[i].for \in 1..unlocks'
      BY <3>2, <3>3, <1>o, <1>t
    <3>6. CASE tasks[i].phase = "new" /\ tasks'[i].phase = "read" /\ tasks'[i].got = inputKeyTemp
      <4>1. inputKeyTemp = 0 => Cause(i)
        BY <3>3, <3>6, <1>t
      <4> QED BY <4>1, <3>4, <3>5, <3>6
    <3>7. CASE tasks'[i].got = tasks[i].got /\ tasks'[i].phase \in {tasks[i].phase, "cancelled"}
      BY <3>2, <3>3, <3>4, <3>5, <3>7
    <3>8. CASE /\ tasks'[i].got = tasks[i].got /\ tasks[i].phase = "read"
               /\ tasks'[i].phase = IF tasks[i].got = 0 THEN "done" ELSE "cleared"
      BY <3>3, <3>4, <3>5, <3>8
    <3>9. CASE tasks'[i].got = tasks[i].got /\ tasks[i].phase = "cleared" /\ tasks'[i].phase = "done"
      BY <3>3, <3>4, <3>5, <3>9
    <3> QED BY <3>1, <3>6, <3>7, <3>8, <3>9 DEF Kept
  <2>2. CASE i \notin DOMAIN tasks
    <3>1. /\ tasks'[i].phase = "new" /\ UNCHANGED key
          /\ i = Len(tasks) + 1 /\ tasks'[i].for = opened /\ opened # 0
      BY <1>1, <1>2, <2>2 DEF Evolve, Born
    <3>2. /\ inputKeyTemp' = inputKeyTemp /\ unlocks' = unlocks
          /\ biometric' = biometric /\ wipedBy' = wipedBy
      BY <3>1 DEF key
    <3>3. opened \in 1..unlocks
      BY <3>1, <1>t DEF CauseInv
    <3>4. ASSUME NEW u \in opened..MaxUnlocks, wipedBy[u] # 0 PROVE wipedBy[u] \notin {0, i}
      <4>1. u \in Unlocks
        BY <3>3, <1>t DEF Unlocks
      <4>2. wipedBy[u] \in {Mistyped} \cup DOMAIN tasks
        BY <4>1, <3>4 DEF CauseInv
      <4>3. i \in 1..Len(tasks') /\ i \notin DOMAIN tasks
        BY <1>d, <2>2
      <4>4. i <= MaxTasks
        BY <4>3, <1>d, <1>t
      <4> QED BY <3>4, <4>2, <4>3, <4>4, <1>t DEF Mistyped
    <3>5. \/ opened \in biometric \/ opened <= inputKeyTemp
          \/ \E u \in opened..MaxUnlocks : wipedBy[u] \notin {0, i}
      BY <3>1, <3>4 DEF CauseInv
    <3>6. opened <= inputKeyTemp' \/ Cause(i)'
      BY <3>1, <3>2, <3>5 DEF Cause
    <3> QED BY <3>1, <3>2, <3>3, <3>6
  <2> QED BY <2>1, <2>2
<1> QED BY <1>o, <1>2 DEF CauseInv

LEMMA CauseCorrect == Spec => []CauseInv
BY TypeCorrect, KeyCorrect, CauseInit, CauseStep, PTL DEF Spec

\* TonSendPendingViewModel finds no key only after biometrics, after another
\* action took the key, or after a wrong passcode set the field to null.
THEOREM StarvedForCauseHolds == Spec => []StarvedForCause
<1>1. CauseInv => StarvedForCause
  BY DEF CauseInv, Cause, StarvedForCause
<1> QED BY <1>1, CauseCorrect, PTL
=============================================================================
