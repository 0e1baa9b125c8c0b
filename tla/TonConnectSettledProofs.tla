---------------------- MODULE TonConnectSettledProofs ----------------------
(***************************************************************************)
(* What the manager of the current activity has and what is stored agree   *)
(* once nothing is under way, when the user waits for one change of a dApp *)
(* before the next: SettledMatches, for any number of scans, calls and     *)
(* activities, whatever is lost with an activity or a process, and for all *)
(* dApps but one that an edit of an earlier activity comes late for.       *)
(***************************************************************************)
EXTENDS TonConnectProofs

-----------------------------------------------------------------------------
(* The inductive invariant                                                 *)

\* Connection k is one that the manager of the current activity has.
Live(k) ==
    \E i \in DOMAIN calls : /\ calls[i].listed /\ calls[i].activity = activity
                            /\ calls[i].of = k

\* A manager has one connection to a dApp, and declines over none that it has.
ListInv ==
    /\ \A i, j \in DOMAIN calls :
         /\ calls[i].listed /\ calls[j].listed
         /\ calls[i].activity = calls[j].activity
         /\ App(calls[i].of) = App(calls[j].of)
         => i = j
    /\ \A j \in DOMAIN calls : calls[j].kind = "reject" => ~calls[calls[j].stream].listed

\* Until the connections are opened, nothing changes the stored ones but the one edit
\* that an earlier activity may have left.
StartInv ==
    /\ \A m, n \in manifests : App(m) = App(n) => m = n
    /\ manager = activity /\ approving # {} => Started
    /\ ~loaded => loading = {} /\ \A k \in DOMAIN scanned : ~Live(k)
    /\ ~Started => /\ deleting = {}
                   /\ \A x \in edits : x.activity = activity => x.kind = "event"
    /\ \A x, y \in edits : x.activity # activity /\ y.activity # activity => x = y
    /\ loaded => \A x \in edits :
                    x.kind # "event" /\ x.activity # activity => App(x.of) \in late
    /\ \A x, y \in loading : App(x.of) = App(y.of) => x = y
    /\ \A x \in loading :
         /\ x.of \in manifests \/ App(x.of) \in late
         /\ \A k \in DOMAIN scanned : Live(k) => App(k) # App(x.of)

\* An edit for the dApp of connection k changes it once more behind what was read.
Late(k) == App(k) \in late

\* Else what is stored and what is listed differ by what is still to be opened and by
\* the edits to come.
MatchInv ==
    loaded =>
        /\ \A m \in manifests : \/ Late(m)
                                \/ \E x \in loading : x.of = m
                                \/ Live(m)
                                \/ \E x \in edits : x.kind # "event" /\ App(x.of) = App(m)
        /\ \A k \in DOMAIN scanned :
             Live(k) /\ ~Late(k) =>
                 k \in manifests \/ \E x \in edits : x.kind = "save" /\ x.of = k
        /\ \A x \in edits : x.kind = "save" /\ ~Late(x.of) => Live(x.of)
        /\ \A x \in edits : x.kind = "delete" /\ ~Late(x.of) =>
             /\ x.of \in manifests
             /\ \A k \in DOMAIN scanned : Live(k) => App(k) # App(x.of)

\* One change at a time is under way for a dApp.
OneInv ==
    /\ loaded => \A x, y \in edits :
         x.kind # "event" /\ y.kind # "event" /\ App(x.of) = App(y.of) => x = y
    /\ \A d, e \in deleting : App(d.of) = App(e.of) => d = e
    /\ \A d \in deleting : \A x \in edits : x.kind # "event" => App(x.of) # App(d.of)
    /\ manager = activity => \A k \in approving :
         /\ \A x \in edits : x.kind # "event" => App(x.of) # App(k)
         /\ \A d \in deleting : App(d.of) # App(k)
         /\ \A l \in approving : App(l) = App(k) => l = k

\* The dApp of d is told over the connection to it that is listed.
ToldOver(d) ==
    LET s == calls[d.post].stream
    IN  calls[s].listed /\ calls[s].activity = activity /\ App(calls[s].of) = App(d.of)

\* What is being deleted is stored.
GoingInv ==
    \A d \in deleting : d.of \in manifests /\ (d.post # 0 => ToldOver(d))

SettleInv == ListInv /\ StartInv /\ MatchInv /\ OneInv /\ GoingInv

-----------------------------------------------------------------------------
(* Steps of the calls                                                      *)

Alike(c, d) ==
    d.kind = c.kind /\ d.of = c.of /\ d.activity = c.activity /\ d.stream = c.stream

\* The calls there are come to be cs, those of is are no longer listed.
After(cs, is) ==
    \A i \in DOMAIN calls :
        /\ i \in DOMAIN cs
        /\ Alike(calls[i], cs[i])
        /\ cs[i].listed <=> calls[i].listed /\ i \notin is

LEMMA CallFacts ==
    ASSUME TypeInv, NEW i \in DOMAIN calls
    PROVE  /\ calls \in Seq(Call) /\ calls[i] \in Call /\ calls[i].of \in DOMAIN scanned
           /\ DOMAIN calls = 1..Len(calls) /\ Len(calls) \in Nat
           /\ calls[i].listed => calls[i].kind = "stream"
           /\ calls[i].kind # "stream" =>
                /\ calls[i].stream \in DOMAIN calls
                /\ calls[calls[i].stream].kind = "stream"
                /\ calls[calls[i].stream].activity = calls[i].activity
BY TypedSeqs DEF TypeInv, CallsInv, CallInv

LEMMA AfterSame == ASSUME UNCHANGED calls PROVE After(calls', {})
BY DEF After, Alike

LEMMA AfterDestroyed ==
    ASSUME TypeInv, NEW is
    PROVE  /\ Destroyed(is) \in Seq(Call) /\ Len(Destroyed(is)) = Len(calls)
           /\ After(Destroyed(is), is)
<1>1. calls \in Seq(Call) /\ \A i \in DOMAIN calls : calls[i] \in Call
  BY TypedSeqs DEF TypeInv
<1>2. /\ Destroyed(is) \in Seq(Call) /\ Len(Destroyed(is)) = Len(calls)
      /\ DOMAIN Destroyed(is) = DOMAIN calls
      /\ \A i \in DOMAIN calls :
           Destroyed(is)[i] = IF i \in is
               THEN [calls[i] EXCEPT !.phase = "done", !.listed = FALSE] ELSE calls[i]
  BY <1>1, DestroyedFacts
<1>3. ASSUME NEW i \in DOMAIN calls
      PROVE  /\ Alike(calls[i], Destroyed(is)[i])
             /\ Destroyed(is)[i].listed <=> calls[i].listed /\ i \notin is
  <2> DEFINE d == [calls[i] EXCEPT !.phase = "done", !.listed = FALSE]
  <2>1. /\ d.kind = calls[i].kind /\ d.of = calls[i].of /\ d.activity = calls[i].activity
        /\ d.stream = calls[i].stream /\ ~d.listed
    BY <1>1 DEF Call
  <2>2. IF i \in is THEN Destroyed(is)[i] = d ELSE Destroyed(is)[i] = calls[i]
    BY <1>2
  <2> HIDE DEF d
  <2>3. CASE i \in is
    BY <2>1, <2>2, <2>3 DEF Alike
  <2>4. CASE i \notin is
    BY <2>2, <2>4 DEF Alike
  <2> QED BY <2>3, <2>4
<1> QED BY <1>2, <1>3 DEF After

\* The dispatcher changes nothing of this.
LEMMA AfterDispatched ==
    ASSUME TypeInv, NEW cs \in Seq(Call), NEW is, After(cs, is),
           NEW ds, DOMAIN calls \subseteq DOMAIN ds,
           \A i \in DOMAIN calls : Dispatched(cs[i], ds[i])
    PROVE  After(ds, is)
<1> SUFFICES ASSUME NEW i \in DOMAIN calls
             PROVE  Alike(calls[i], ds[i]) /\ (ds[i].listed <=> calls[i].listed /\ i \notin is)
  BY DEF After
<1>1. /\ i \in DOMAIN cs /\ Alike(calls[i], cs[i])
      /\ cs[i].listed <=> calls[i].listed /\ i \notin is
  BY DEF After
<1>2. cs[i] \in Call /\ Dispatched(cs[i], ds[i])
  BY <1>1, Elements
<1>3. /\ ds[i].kind = cs[i].kind /\ ds[i].of = cs[i].of /\ ds[i].activity = cs[i].activity
      /\ ds[i].stream = cs[i].stream /\ ds[i].listed = cs[i].listed
  BY <1>2, DispatchedFacts
<1> QED BY <1>1, <1>3 DEF Alike

LEMMA AfterDispatch ==
    ASSUME TypeInv, NEW cs \in Seq(Call), Len(cs) = Len(calls), NEW is, After(cs, is)
    PROVE  After(Dispatch(cs), is) /\ DOMAIN Dispatch(cs) = DOMAIN calls
<1>1. calls \in Seq(Call) /\ DOMAIN calls = DOMAIN cs
  BY TypedSeqs, Elements DEF TypeInv
<1>2. DOMAIN Dispatch(cs) = DOMAIN cs /\ \A i \in DOMAIN cs : Dispatched(cs[i], Dispatch(cs)[i])
  BY DispatchFacts
<1> QED BY <1>1, <1>2, AfterDispatched

LEMMA AfterChanged ==
    ASSUME TypeInv, NEW i \in DOMAIN calls, NEW c \in Call, Alike(calls[i], c),
           c.listed <=> calls[i].listed
    PROVE  LET cs == [calls EXCEPT ![i] = c]
           IN  cs \in Seq(Call) /\ Len(cs) = Len(calls) /\ DOMAIN cs = DOMAIN calls /\ After(cs, {})
<1> DEFINE cs == [calls EXCEPT ![i] = c]
<1>1. /\ cs \in Seq(Call) /\ Len(cs) = Len(calls) /\ DOMAIN cs = DOMAIN calls /\ cs[i] = c
      /\ \A j \in DOMAIN calls : j # i => cs[j] = calls[j]
  BY CallFacts, ChangedFacts
<1> HIDE DEF cs
<1>2. After(cs, {})
  BY <1>1 DEF After, Alike
<1> QED BY <1>1, <1>2 DEF cs

\* A call that ends, or is changed, is listed as before.
LEMMA AfterEnded ==
    ASSUME TypeInv, NEW i \in DOMAIN calls,
           calls' = Dispatch([calls EXCEPT ![i].phase = "done"])
    PROVE  After(calls', {}) /\ DOMAIN calls' = DOMAIN calls
<1> DEFINE c == [calls[i] EXCEPT !.phase = "done"]
           cs == [calls EXCEPT ![i] = c]
<1>1. calls[i] \in Call /\ calls \in Seq(Call)
  BY CallFacts
<1>2. /\ c \in Call /\ c.kind = calls[i].kind /\ c.of = calls[i].of
      /\ c.activity = calls[i].activity /\ c.stream = calls[i].stream
      /\ c.listed <=> calls[i].listed
  BY <1>1 DEF Call
<1>3. calls' = Dispatch(cs)
  OBVIOUS
<1> HIDE DEF c
<1>4. cs \in Seq(Call) /\ Len(cs) = Len(calls) /\ After(cs, {})
  BY <1>2, AfterChanged DEF Alike
<1> HIDE DEF cs
<1> QED BY <1>3, <1>4, AfterDispatch

\* Calls that are new are not listed, nor are those a request is declined over.
NewUnlisted ==
    \A i \in DOMAIN calls' \ DOMAIN calls :
        /\ ~calls'[i].listed
        /\ calls'[i].kind = "reject" => ~calls'[calls'[i].stream].listed

\* Then the list is as it was.
LEMMA ListCalm ==
    ASSUME TypeInv, ListInv, After(calls', {}), NewUnlisted, UNCHANGED <<scanned, activity>>
    PROVE  ListInv' /\ \A k : Live(k)' <=> Live(k)
<1>1. ASSUME NEW i \in DOMAIN calls', calls'[i].listed
      PROVE  i \in DOMAIN calls /\ calls[i].listed /\ Alike(calls[i], calls'[i])
  BY <1>1 DEF NewUnlisted, After
<1>2. \A i \in DOMAIN calls : calls[i].listed => i \in DOMAIN calls' /\ calls'[i].listed
                                                 /\ Alike(calls[i], calls'[i])
  BY DEF After
<1>3. \A k : Live(k)' <=> Live(k)
  <2> SUFFICES ASSUME NEW k PROVE Live(k)' <=> Live(k)
    OBVIOUS
  <2>1. ASSUME Live(k) PROVE Live(k)'
    BY <1>2, <2>1 DEF Live, Alike
  <2>2. ASSUME Live(k)' PROVE Live(k)
    BY <1>1, <2>2 DEF Live, Alike
  <2> QED BY <2>1, <2>2
<1>4. ASSUME NEW i \in DOMAIN calls', NEW j \in DOMAIN calls', calls'[i].listed, calls'[j].listed,
             calls'[i].activity = calls'[j].activity,
             AppOf[scanned'[calls'[i].of]] = AppOf[scanned'[calls'[j].of]]
      PROVE  i = j
  <2>1. /\ i \in DOMAIN calls /\ calls[i].listed /\ Alike(calls[i], calls'[i])
        /\ j \in DOMAIN calls /\ calls[j].listed /\ Alike(calls[j], calls'[j])
    BY <1>1, <1>4
  <2>2. App(calls[i].of) = App(calls[j].of) /\ calls[i].activity = calls[j].activity
    BY <1>4, <2>1 DEF Alike, App
  <2> QED BY <2>1, <2>2 DEF ListInv
<1>5. ASSUME NEW j \in DOMAIN calls', calls'[j].kind = "reject"
      PROVE  ~calls'[calls'[j].stream].listed
  <2>1. CASE j \notin DOMAIN calls
    BY <1>5, <2>1 DEF NewUnlisted
  <2>2. CASE j \in DOMAIN calls
    <3>1. calls[j].kind = "reject" /\ calls'[j].stream = calls[j].stream
      BY <1>5, <2>2 DEF After, Alike
    <3>2. ~calls[calls[j].stream].listed /\ calls[j].stream \in DOMAIN calls
      BY <2>2, <3>1, CallFacts DEF ListInv
    <3> QED BY <3>1, <3>2 DEF After
  <2> QED BY <2>1, <2>2
<1> QED BY <1>3, <1>4, <1>5 DEF ListInv, App

-----------------------------------------------------------------------------
(* Steps that change no connection                                         *)

\* What is being deleted is told over the same connection.
LEMMA GoingKept ==
    ASSUME TypeInv, NEW is, After(calls', is), UNCHANGED <<scanned, activity>>,
           NEW d \in deleting, d.post # 0,
           ToldOver(d), calls[d.post].stream \notin is
    PROVE  ToldOver(d)'
<1>1. d.post \in DOMAIN calls /\ calls[d.post].kind = "delete"
  BY Parts DEF DeleteInv
<1> DEFINE s == calls[d.post].stream
<1>2. s \in DOMAIN calls
  BY <1>1, CallFacts
<1>3. calls'[d.post].stream = s
  BY <1>1 DEF After, Alike
<1> HIDE DEF s
<1>4. /\ calls'[s].listed <=> calls[s].listed /\ s \notin is
      /\ calls'[s].of = calls[s].of /\ calls'[s].activity = calls[s].activity
  BY <1>2 DEF After, Alike
<1>5. calls[s].listed /\ calls[s].activity = activity /\ App(calls[s].of) = App(d.of) /\ s \notin is
  BY DEF s, ToldOver
<1> QED BY <1>1, <1>3, <1>4, <1>5 DEF App, ToldOver

LEMMA CalmStep ==
    ASSUME TypeInv, SettleInv, After(calls', {}), NewUnlisted,
           UNCHANGED <<manifests, scanned, activity, manager>>,
           UNCHANGED <<loaded, loading, late, deleting, approving>>,
           \A x \in edits' : x \in edits \/ (x.kind = "event" /\ x.activity = activity),
           \A x \in edits : x.kind # "event" => x \in edits'
    PROVE  SettleInv'
<1>1. ListInv' /\ \A k : Live(k)' <=> Live(k)
  BY ListCalm DEF SettleInv
<1>2. StartInv'
  <2>1. StartInv
    BY DEF SettleInv
  <2>2. \A x \in edits' : x.activity # activity => x \in edits
    OBVIOUS
  <2>3. \A x, y \in edits' : x.activity # activity /\ y.activity # activity => x = y
    BY <2>1, <2>2 DEF StartInv
  <2>4. loaded => \A x \in edits' :
          x.kind # "event" /\ x.activity # activity => App(x.of) \in late
    BY <2>1, <2>2 DEF StartInv
  <2>5. ~Started => deleting = {} /\ \A x \in edits' : x.activity = activity => x.kind = "event"
    BY <2>1 DEF StartInv
  <2> QED BY <1>1, <2>1, <2>3, <2>4, <2>5 DEF StartInv, Started, App
<1>3. \A x : x.kind # "event" => (x \in edits' <=> x \in edits)
  OBVIOUS
<1>4. MatchInv'
  <2> SUFFICES ASSUME loaded PROVE MatchInv'
    BY DEF MatchInv
  <2>1. ASSUME NEW m \in manifests
        PROVE  \/ Late(m)
               \/ \E x \in loading' : x.of = m
               \/ Live(m)'
               \/ \E x \in edits' : x.kind # "event" /\ App(x.of) = App(m)
    BY <1>1, <1>3 DEF SettleInv, MatchInv
  <2>2. ASSUME NEW k \in DOMAIN scanned, Live(k)', ~Late(k)
        PROVE  k \in manifests \/ \E x \in edits' : x.kind = "save" /\ x.of = k
    <3>1. k \in manifests \/ \E x \in edits : x.kind = "save" /\ x.of = k
      BY <1>1, <2>2 DEF SettleInv, MatchInv
    <3> QED BY <3>1
  <2>3. ASSUME NEW x \in edits', x.kind = "save", ~Late(x.of) PROVE Live(x.of)'
    <3>1. x \in edits
      BY <2>3
    <3> QED BY <1>1, <2>3, <3>1 DEF SettleInv, MatchInv
  <2>4. ASSUME NEW x \in edits', x.kind = "delete", ~Late(x.of)
        PROVE  x.of \in manifests /\ \A k \in DOMAIN scanned : Live(k)' => App(k) # App(x.of)
    <3>1. x \in edits
      BY <2>4
    <3> QED BY <1>1, <2>4, <3>1 DEF SettleInv, MatchInv
  <2> QED BY <2>1, <2>2, <2>3, <2>4 DEF MatchInv, Late, App
<1>5. OneInv'
  <2>1. OneInv
    BY DEF SettleInv
  <2>2. loaded' => \A x, y \in edits' :
          x.kind # "event" /\ y.kind # "event" /\ App(x.of) = App(y.of) => x = y
    BY <1>3, <2>1 DEF OneInv
  <2>3. \A d, e \in deleting' : App(d.of) = App(e.of) => d = e
    BY <2>1 DEF OneInv
  <2>4. \A d \in deleting' : \A x \in edits' : x.kind # "event" => App(x.of) # App(d.of)
    BY <1>3, <2>1 DEF OneInv
  <2>5. manager' = activity' => \A k \in approving' :
         /\ \A x \in edits' : x.kind # "event" => App(x.of) # App(k)
         /\ \A d \in deleting' : App(d.of) # App(k)
         /\ \A l \in approving' : App(l) = App(k) => l = k
    BY <1>3, <2>1 DEF OneInv
  <2> QED BY <2>2, <2>3, <2>4, <2>5 DEF OneInv, App
<1>6. GoingInv'
  <2>1. ASSUME NEW d \in deleting PROVE d.of \in manifests /\ (d.post # 0 => ToldOver(d)')
    <3>1. d.of \in manifests /\ (d.post # 0 => ToldOver(d))
      BY DEF SettleInv, GoingInv
    <3>2. calls[d.post].stream \notin {}
      OBVIOUS
    <3> QED BY <3>1, <3>2, GoingKept
  <2> QED BY <2>1 DEF GoingInv, ToldOver
<1> QED BY <1>1, <1>2, <1>4, <1>5, <1>6 DEF SettleInv

LEMMA PostedSettle == ASSUME TypeInv, SettleInv, NEW i \in DOMAIN calls, Posted(i) PROVE SettleInv'
<1>1. After(calls', {}) /\ DOMAIN calls' = DOMAIN calls
  BY AfterEnded DEF Posted
<1> QED BY <1>1, CalmStep DEF Posted, store, start, NewUnlisted

LEMMA OnFailureSettle ==
    ASSUME TypeInv, SettleInv, NEW i \in DOMAIN calls, OnFailure(i) PROVE SettleInv'
<1>1. After(calls', {}) /\ DOMAIN calls' = DOMAIN calls
  BY AfterEnded DEF OnFailure
<1> QED BY <1>1, CalmStep DEF OnFailure, store, start, request, bridge, NewUnlisted

\* A request that is declined has a connection of its own: none that is listed is
\* destroyed.
LEMMA RejectedSettle ==
    ASSUME TypeInv, SettleInv, NEW i \in DOMAIN calls, Rejected(i) PROVE SettleInv'
<1> DEFINE s == calls[i].stream
           cs == Destroyed({s})
<1>1. calls' = Dispatch(cs) /\ ~calls[s].listed
  BY DEF Rejected, SettleInv, ListInv
<1>2. cs \in Seq(Call) /\ Len(cs) = Len(calls) /\ After(cs, {s})
  BY AfterDestroyed
<1> HIDE DEF cs
<1>3. After(calls', {s}) /\ DOMAIN calls' = DOMAIN calls
  BY <1>1, <1>2, AfterDispatch
<1>4. After(calls', {})
  BY <1>1, <1>3 DEF After
<1> QED BY <1>3, <1>4, CalmStep DEF Rejected, store, start, request, bridge, NewUnlisted

LEMMA OnEventSettle ==
    ASSUME TypeInv, SettleInv, NEW i \in DOMAIN calls, OnEvent(i) PROVE SettleInv'
<1>1. PICK e \in Pending(i), c \in Call :
        /\ Kept(calls[i], c) /\ (c.listed <=> calls[i].listed)
        /\ calls' = [calls EXCEPT ![i] = c]
        /\ edits' = edits \cup Launched("event", calls[i].of, e, calls[i].activity)
  BY OnEventFacts
<1>2. After(calls', {}) /\ DOMAIN calls' = DOMAIN calls
  BY <1>1, AfterChanged DEF Kept, Alike
<1>3. \A x \in edits' : x \in edits \/ (x.kind = "event" /\ x.activity = activity)
  BY <1>1 DEF Launched
<1>4. edits \subseteq edits'
  BY <1>1
<1> QED BY <1>2, <1>3, <1>4, CalmStep DEF OnEvent, start, request, bridge, NewUnlisted

LEMMA OnEventEndsSettle ==
    ASSUME TypeInv, SettleInv, NEW i \in DOMAIN calls, OnEventEnds(i) PROVE SettleInv'
<1>1. PICK c \in Call :
        /\ Kept(calls[i], c) /\ (c.listed <=> calls[i].listed)
        /\ \/ calls' = [calls EXCEPT ![i] = c]
           \/ calls' = Dispatch([calls EXCEPT ![i] = c])
  BY EventEndsFacts
<1> DEFINE cs == [calls EXCEPT ![i] = c]
<1>2. cs \in Seq(Call) /\ Len(cs) = Len(calls) /\ DOMAIN cs = DOMAIN calls /\ After(cs, {})
  BY <1>1, AfterChanged DEF Kept, Alike
<1>3. calls' = cs \/ calls' = Dispatch(cs)
  BY <1>1
<1> HIDE DEF cs
<1>4. After(calls', {}) /\ DOMAIN calls' = DOMAIN calls
  BY <1>2, <1>3, AfterDispatch
<1> QED BY <1>4, CalmStep DEF OnEventEnds, store, start, request, bridge, NewUnlisted

\* A request is declined over a connection that is not listed.
LEMMA DismissSettle == ASSUME TypeInv, SettleInv, OnBottomSheetDismiss PROVE SettleInv'
<1>1. CASE success
  <2>1. UNCHANGED calls
    BY <1>1 DEF OnBottomSheetDismiss
  <2>2. After(calls', {}) /\ NewUnlisted
    BY <2>1, AfterSame DEF NewUnlisted
  <2> QED BY <2>2, CalmStep DEF OnBottomSheetDismiss, store, start, bridge
<1>2. CASE ~success
  <2>1. sheet \in DOMAIN scanned /\ manager \in 1..activity /\ UNCHANGED <<scanned, log, activity>>
    <3>1. DOMAIN scanned = 1..Len(scanned) /\ Len(scanned) \in Nat
      BY TypedSeqs DEF TypeInv
    <3> QED BY <3>1, Parts DEF OnBottomSheetDismiss, bridge
  <2>2. /\ Make(calls, <<Stream(sheet, manager, 0, FALSE),
                         Post("reject", sheet, manager, Len(calls) + 1)>>)
        /\ FALSE \in BOOLEAN
    BY <1>2 DEF OnBottomSheetDismiss
  <2>3. /\ calls \in Seq(Call) /\ DOMAIN calls = 1..Len(calls) /\ Len(calls) \in Nat
        /\ \A i \in DOMAIN calls : calls[i] \in Call /\ Kept(calls[i], calls[i])
    BY TypedSeqs, KeptSelf DEF TypeInv
  <2>4. /\ CallsKept /\ Len(calls') = Len(calls) + 2
        /\ Dispatched(Stream(sheet, manager, 0, FALSE), calls'[Len(calls) + 1])
        /\ Dispatched(Post("reject", sheet, manager, Len(calls) + 1), calls'[Len(calls) + 2])
        /\ \A i \in DOMAIN calls : Dispatched(calls[i], calls'[i])
    BY <2>1, <2>2, <2>3, MadeBoth
  <2>5. DOMAIN calls' = 1..(Len(calls) + 2)
    BY <2>4, Elements DEF CallsKept
  <2>6. After(calls, {})
    BY DEF After, Alike
  <2>7. After(calls', {})
    BY <2>3, <2>4, <2>5, <2>6, AfterDispatched
  <2>8. /\ ~calls'[Len(calls) + 1].listed /\ calls'[Len(calls) + 1].kind = "stream"
        /\ ~calls'[Len(calls) + 2].listed /\ calls'[Len(calls) + 2].stream = Len(calls) + 1
    BY <2>4 DEF Dispatched, Stream, Post
  <2>9. NewUnlisted
    BY <2>3, <2>5, <2>8 DEF NewUnlisted
  <2> QED BY <2>7, <2>9, CalmStep DEF OnBottomSheetDismiss, store, start, bridge
<1> QED BY <1>1, <1>2

LEMMA InitReadSettle ==
    ASSUME TypeInv, SettleInv, NEW x \in loading, InitRead(x) PROVE SettleInv'
<1> DEFINE n == lastEventId[scanned[x.of]]
           y == [x EXCEPT !.read = TRUE, !.last = n]
<1>1. loading' = (loading \ {x}) \cup {y}
  BY DEF InitRead
<1>2. x \in [of : Connections, read : BOOLEAN, last : 0..MaxEvents]
  BY Parts
<1>3. y.of = x.of
  BY <1>2
<1> HIDE DEF y
<1>4. /\ UNCHANGED <<manifests, scanned, activity, manager, edits, calls>>
      /\ UNCHANGED <<loaded, late, deleting, approving>>
  BY DEF InitRead, store, request, bridge
<1>5. ListInv' /\ \A k : Live(k)' <=> Live(k)
  BY <1>4 DEF SettleInv, ListInv, Live, App
<1>6. \A k : (\E z \in loading' : z.of = k) <=> (\E z \in loading : z.of = k)
  BY <1>1, <1>3
<1>7. ~Started /\ ~Started'
  BY <1>1 DEF Started
<1>8. StartInv'
  <2>1. StartInv
    BY DEF SettleInv
  <2>2. ASSUME NEW u \in loading', NEW v \in loading', App(u.of) = App(v.of) PROVE u = v
    BY <1>1, <1>3, <2>1, <2>2 DEF StartInv
  <2>3. ASSUME NEW u \in loading'
        PROVE  /\ u.of \in manifests \/ App(u.of) \in late
               /\ \A k \in DOMAIN scanned : Live(k) => App(k) # App(u.of)
    BY <1>1, <1>3, <2>1 DEF StartInv
  <2>4. loaded
    BY <2>1 DEF StartInv
  <2> QED BY <1>4, <1>5, <1>7, <2>1, <2>2, <2>3, <2>4 DEF StartInv, App
<1>9. MatchInv'
  BY <1>4, <1>5, <1>6 DEF SettleInv, MatchInv, Late, App
<1>10. OneInv'
  BY <1>4 DEF SettleInv, OneInv, App
<1>11. GoingInv'
  BY <1>4 DEF SettleInv, GoingInv, ToldOver, App
<1> QED BY <1>5, <1>8, <1>9, <1>10, <1>11 DEF SettleInv

-----------------------------------------------------------------------------
(* Edits are written                                                       *)

\* What a write leaves alone.
LEMMA WriteFacts ==
    ASSUME SettleInv, NEW x \in edits, Write(x)
    PROVE  /\ UNCHANGED <<scanned, activity, manager, calls>>
           /\ UNCHANGED <<loaded, loading, late, deleting, approving>>
           /\ edits' = edits \ {x}
           /\ ListInv' /\ \A k : Live(k)' <=> Live(k)
           /\ \A d : ToldOver(d)' <=> ToldOver(d)
           /\ OneInv'
<1>1. /\ UNCHANGED <<scanned, activity, manager, calls>>
      /\ UNCHANGED <<loaded, loading, late, deleting, approving>>
      /\ edits' = edits \ {x}
  BY DEF Write, process, start, request, bridge
<1>2. ListInv' /\ \A k : Live(k)' <=> Live(k)
  BY <1>1 DEF SettleInv, ListInv, Live, App
<1>3. \A d : ToldOver(d)' <=> ToldOver(d)
  BY <1>1 DEF ToldOver, App
<1>4. OneInv'
  BY <1>1 DEF SettleInv, OneInv, App
<1> QED BY <1>1, <1>2, <1>3, <1>4

\* A manifest is saved in place of the older one of the dApp.
LEMMA SaveSettle ==
    ASSUME TypeInv, SettleInv, NEW x \in edits, Write(x), SaveManifest(x) PROVE SettleInv'
<1>1. /\ x.kind = "save"
      /\ manifests' = {m \in manifests : App(m) # App(x.of)} \cup {x.of}
  BY DEF SaveManifest
<1>2. /\ UNCHANGED <<scanned, activity, manager, calls>>
      /\ UNCHANGED <<loaded, loading, late, deleting, approving>>
      /\ edits' = edits \ {x}
      /\ ListInv' /\ \A k : Live(k)' <=> Live(k)
      /\ \A d : ToldOver(d)' <=> ToldOver(d)
      /\ OneInv'
  BY WriteFacts
<1>3. x.of \in DOMAIN scanned /\ manifests \subseteq DOMAIN scanned
  BY Parts DEF EditInv
<1>4. loaded => Started \/ Late(x.of)
  BY <1>1 DEF SettleInv, StartInv, Late
<1>5. StartInv'
  <2>1. \A m, n \in manifests' : App(m) = App(n) => m = n
    BY <1>1 DEF SettleInv, StartInv
  <2>2. ASSUME NEW y \in loading PROVE y.of \in manifests' \/ App(y.of) \in late
    <3>1. App(x.of) \in late
      BY <1>4 DEF SettleInv, StartInv, Started, Late
    <3>2. y.of \in manifests \/ App(y.of) \in late
      BY DEF SettleInv, StartInv
    <3> QED BY <1>1, <3>1, <3>2
  <2>3. StartInv
    BY DEF SettleInv
  <2> QED BY <1>2, <2>1, <2>2, <2>3 DEF StartInv, Started, App
<1>6. MatchInv'
  <2> SUFFICES ASSUME loaded PROVE MatchInv'
    BY <1>2 DEF MatchInv
  <2>1. MatchInv /\ ListInv /\ OneInv
    BY DEF SettleInv
  <2>2. ~Late(x.of) => Live(x.of)
    BY <1>1, <2>1 DEF MatchInv
  <2>3. ASSUME NEW m \in manifests', ~Late(m)
        PROVE  \/ \E y \in loading : y.of = m
               \/ Live(m)'
               \/ \E y \in edits' : y.kind # "event" /\ App(y.of) = App(m)
    <3>1. CASE m = x.of
      BY <1>2, <2>2, <2>3, <3>1
    <3>2. CASE m \in manifests /\ App(m) # App(x.of)
      <4>1. \/ \E y \in loading : y.of = m
            \/ Live(m)
            \/ \E y \in edits : y.kind # "event" /\ App(y.of) = App(m)
        BY <2>1, <2>3, <3>2 DEF MatchInv
      <4> QED BY <1>2, <3>2, <4>1
    <3> QED BY <1>1, <3>1, <3>2
  <2>4. ASSUME NEW k \in DOMAIN scanned, Live(k)', ~Late(k)
        PROVE  k \in manifests' \/ \E y \in edits' : y.kind = "save" /\ y.of = k
    <3>1. Live(k)
      BY <1>2, <2>4
    <3>2. CASE App(k) = App(x.of)
      <4>1. k = x.of
        BY <2>1, <2>2, <2>4, <3>1, <3>2 DEF ListInv, Live, Late
      <4> QED BY <1>1, <4>1
    <3>3. CASE App(k) # App(x.of)
      <4>1. k \in manifests \/ \E y \in edits : y.kind = "save" /\ y.of = k
        BY <2>1, <2>4, <3>1 DEF MatchInv
      <4> QED BY <1>1, <1>2, <3>3, <4>1
    <3> QED BY <3>2, <3>3
  <2>5. ASSUME NEW y \in edits', y.kind = "save", ~Late(y.of) PROVE Live(y.of)'
    BY <1>2, <2>1, <2>5 DEF MatchInv
  <2>6. ASSUME NEW y \in edits', y.kind = "delete", ~Late(y.of)
        PROVE  y.of \in manifests' /\ \A k \in DOMAIN scanned : Live(k)' => App(k) # App(y.of)
    <3>1. y \in edits /\ y # x
      BY <1>2
    <3>2. App(y.of) # App(x.of)
      BY <1>1, <2>1, <2>6, <3>1 DEF OneInv
    <3>3. y.of \in manifests /\ \A k \in DOMAIN scanned : Live(k) => App(k) # App(y.of)
      BY <2>1, <2>6, <3>1 DEF MatchInv
    <3> QED BY <1>1, <1>2, <3>2, <3>3
  <2> QED BY <1>2, <2>3, <2>4, <2>5, <2>6 DEF MatchInv, Late, App
<1>7. GoingInv'
  <2> SUFFICES ASSUME NEW d \in deleting PROVE d.of \in manifests' /\ (d.post # 0 => ToldOver(d)')
    BY <1>2 DEF GoingInv
  <2>1. App(x.of) # App(d.of)
    BY <1>1 DEF SettleInv, OneInv
  <2>2. d.of \in manifests /\ (d.post # 0 => ToldOver(d))
    BY DEF SettleInv, GoingInv
  <2> QED BY <1>1, <1>2, <2>1, <2>2
<1> QED BY <1>2, <1>5, <1>6, <1>7 DEF SettleInv

\* A manifest is deleted.
LEMMA RemoveSettle ==
    ASSUME TypeInv, SettleInv, NEW x \in edits, Write(x), DeleteConnection(x) PROVE SettleInv'
<1>1. /\ x.kind = "delete"
      /\ manifests' = {m \in manifests : scanned[m] # scanned[x.of]}
  BY DEF DeleteConnection
<1>2. /\ UNCHANGED <<scanned, activity, manager, calls>>
      /\ UNCHANGED <<loaded, loading, late, deleting, approving>>
      /\ edits' = edits \ {x}
      /\ ListInv' /\ \A k : Live(k)' <=> Live(k)
      /\ \A d : ToldOver(d)' <=> ToldOver(d)
      /\ OneInv'
  BY WriteFacts
<1>3. \A m : App(m) # App(x.of) => scanned[m] # scanned[x.of]
  BY DEF App
<1>4. loaded => Started \/ Late(x.of)
  BY <1>1 DEF SettleInv, StartInv, Late
<1>5. StartInv'
  <2>1. \A m, n \in manifests' : App(m) = App(n) => m = n
    BY <1>1 DEF SettleInv, StartInv
  <2>2. ASSUME NEW y \in loading PROVE y.of \in manifests' \/ App(y.of) \in late
    <3>1. App(x.of) \in late
      BY <1>4 DEF SettleInv, StartInv, Started, Late
    <3>2. y.of \in manifests \/ App(y.of) \in late
      BY DEF SettleInv, StartInv
    <3> QED BY <1>1, <3>1, <3>2, <1>3
  <2>3. StartInv
    BY DEF SettleInv
  <2> QED BY <1>2, <2>1, <2>2, <2>3 DEF StartInv, Started, App
<1>6. MatchInv'
  <2> SUFFICES ASSUME loaded PROVE MatchInv'
    BY <1>2 DEF MatchInv
  <2>1. MatchInv /\ ListInv /\ OneInv /\ StartInv
    BY DEF SettleInv
  <2>2. ~Late(x.of) =>
          x.of \in manifests /\ \A k \in DOMAIN scanned : Live(k) => App(k) # App(x.of)
    BY <1>1, <2>1 DEF MatchInv
  <2>3. ASSUME NEW m \in manifests', ~Late(m)
        PROVE  \/ \E y \in loading : y.of = m
               \/ Live(m)'
               \/ \E y \in edits' : y.kind # "event" /\ App(y.of) = App(m)
    <3>1. m \in manifests /\ m # x.of
      BY <1>1
    <3>2. App(m) # App(x.of)
      BY <2>1, <2>2, <2>3, <3>1 DEF StartInv, Late
    <3>3. \/ \E y \in loading : y.of = m
          \/ Live(m)
          \/ \E y \in edits : y.kind # "event" /\ App(y.of) = App(m)
      BY <2>1, <2>3, <3>1 DEF MatchInv
    <3> QED BY <1>2, <3>2, <3>3
  <2>4. ASSUME NEW k \in DOMAIN scanned, Live(k)', ~Late(k)
        PROVE  k \in manifests' \/ \E y \in edits' : y.kind = "save" /\ y.of = k
    <3>1. Live(k) /\ App(k) # App(x.of)
      BY <1>2, <2>2, <2>4 DEF Late
    <3>2. k \in manifests \/ \E y \in edits : y.kind = "save" /\ y.of = k
      BY <2>1, <2>4, <3>1 DEF MatchInv
    <3> QED BY <1>1, <1>2, <1>3, <3>1, <3>2
  <2>5. ASSUME NEW y \in edits', y.kind = "save", ~Late(y.of) PROVE Live(y.of)'
    BY <1>2, <2>1, <2>5 DEF MatchInv
  <2>6. ASSUME NEW y \in edits', y.kind = "delete", ~Late(y.of)
        PROVE  y.of \in manifests' /\ \A k \in DOMAIN scanned : Live(k)' => App(k) # App(y.of)
    <3>1. y \in edits /\ y # x
      BY <1>2
    <3>2. App(y.of) # App(x.of)
      BY <1>1, <2>1, <2>6, <3>1 DEF OneInv
    <3>3. y.of \in manifests /\ \A k \in DOMAIN scanned : Live(k) => App(k) # App(y.of)
      BY <2>1, <2>6, <3>1 DEF MatchInv
    <3> QED BY <1>1, <1>2, <1>3, <3>2, <3>3
  <2> QED BY <1>2, <2>3, <2>4, <2>5, <2>6 DEF MatchInv, Late, App
<1>7. GoingInv'
  <2> SUFFICES ASSUME NEW d \in deleting PROVE d.of \in manifests' /\ (d.post # 0 => ToldOver(d)')
    BY <1>2 DEF GoingInv
  <2>1. App(x.of) # App(d.of)
    BY <1>1 DEF SettleInv, OneInv
  <2>2. d.of \in manifests /\ (d.post # 0 => ToldOver(d))
    BY DEF SettleInv, GoingInv
  <2> QED BY <1>1, <1>2, <1>3, <2>1, <2>2
<1> QED BY <1>2, <1>5, <1>6, <1>7 DEF SettleInv

LEMMA WriteSettle == ASSUME TypeInv, SettleInv, NEW x \in edits, Write(x) PROVE SettleInv'
<1>1. CASE SaveManifest(x)
  BY <1>1, SaveSettle
<1>2. CASE DeleteConnection(x)
  BY <1>2, RemoveSettle
<1>3. CASE SaveLastEventId(x)
  <2>1. /\ x.kind = "event" /\ edits' = edits \ {x} /\ UNCHANGED manifests
        /\ UNCHANGED <<scanned, activity, manager, calls>>
        /\ UNCHANGED <<loaded, loading, late, deleting, approving>>
    BY <1>3 DEF SaveLastEventId, Write, process, start, request, bridge
  <2>2. After(calls', {}) /\ NewUnlisted
    BY <2>1, AfterSame DEF NewUnlisted
  <2> QED BY <2>1, <2>2, CalmStep
<1> QED BY <1>1, <1>2, <1>3 DEF Write

-----------------------------------------------------------------------------
(* Start                                                                   *)

\* The stored connections are to be opened: none is listed yet, and no change is
\* under way.
LEMMA InitLoadSettle == ASSUME TypeInv, SettleInv, InitLoad PROVE SettleInv'
<1>1. /\ ~loaded /\ loaded'
      /\ late' = {App(x.of) : x \in {y \in edits : y.kind # "event" /\ y.activity # activity}}
      /\ loading' = {[of |-> m, read |-> FALSE, last |-> 0] :
                       m \in {n \in manifests : \A i \in Listed(activity) :
                                  scanned[calls[i].of] # scanned[n]}}
      /\ UNCHANGED <<manifests, scanned, activity, manager>>
      /\ UNCHANGED <<edits, calls, deleting, approving>>
  BY DEF InitLoad, store, request, bridge
<1>2. StartInv /\ ~Started
  BY <1>1 DEF SettleInv, Started
<1>3. /\ \A k \in DOMAIN scanned : ~Live(k)
      /\ deleting = {} /\ \A x \in edits : x.activity = activity => x.kind = "event"
      /\ manager = activity => approving = {}
  BY <1>1, <1>2 DEF StartInv
<1>4. Listed(activity) = {}
  <2> SUFFICES ASSUME NEW i \in Listed(activity) PROVE FALSE
    OBVIOUS
  <2>1. i \in DOMAIN calls /\ Live(calls[i].of)
    BY DEF Listed, Live
  <2> QED BY <1>3, <2>1, CallFacts
<1>5. loading' = {[of |-> m, read |-> FALSE, last |-> 0] : m \in manifests}
  BY <1>1, <1>4
<1>6. ListInv' /\ \A k : Live(k)' <=> Live(k)
  BY <1>1 DEF SettleInv, ListInv, Live, App
<1>7. manifests \subseteq DOMAIN scanned
  BY Parts
<1>a. \A x \in loading' : x.of \in manifests /\ x = [of |-> x.of, read |-> FALSE, last |-> 0]
  BY <1>5
<1>b. \A x \in edits : x.kind # "event" => App(x.of) \in late'
  BY <1>1, <1>3
<1>c. /\ \A m, n \in manifests : App(m) = App(n) => m = n
      /\ \A x, y \in edits : x.activity # activity /\ y.activity # activity => x = y
  BY <1>2 DEF StartInv
<1>8. StartInv'
  <2>1. \A x \in loading' : x.of \in manifests /\ \A k \in DOMAIN scanned : ~Live(k)'
    BY <1>3, <1>6, <1>a
  <2>2. ASSUME NEW x \in loading', NEW y \in loading', App(x.of) = App(y.of) PROVE x = y
    <3>1. x = [of |-> x.of, read |-> FALSE, last |-> 0]
      BY <1>a
    <3>2. y.of = x.of
      BY <1>a, <1>c, <2>2
    <3>3. y = [of |-> x.of, read |-> FALSE, last |-> 0]
      BY <1>a, <3>2
    <3> QED BY <3>1, <3>3
  <2> QED BY <1>1, <1>3, <1>b, <1>c, <2>1, <2>2 DEF StartInv, Started, App
<1>9. MatchInv'
  <2>1. ASSUME NEW m \in manifests PROVE \E x \in loading' : x.of = m
    <3>1. PICK x : x = [of |-> m, read |-> FALSE, last |-> 0]
      OBVIOUS
    <3>2. x \in loading' /\ x.of = m
      BY <1>5, <3>1
    <3> QED BY <3>2
  <2>2. \A x \in edits : x.kind # "event" => Late(x.of)'
    BY <1>1, <1>b DEF Late, App
  <2> QED BY <1>1, <1>3, <1>6, <2>1, <2>2 DEF MatchInv
<1>10. OneInv'
  BY <1>1, <1>3, <1>c DEF SettleInv, OneInv, App
<1>11. GoingInv'
  BY <1>1, <1>3 DEF GoingInv
<1> QED BY <1>6, <1>8, <1>9, <1>10, <1>11 DEF SettleInv

\* A step that lists connection k for activity a, in place of what a has for the
\* same dApp.
Relisted(k, a) ==
    /\ After(calls', Same(k, a))
    /\ \E n \in DOMAIN calls' \ DOMAIN calls :
         /\ calls'[n].kind = "stream" /\ calls'[n].of = k /\ calls'[n].activity = a
         /\ calls'[n].listed
         /\ \A i \in DOMAIN calls' \ DOMAIN calls :
              i # n => ~calls'[i].listed /\ calls'[i].kind # "reject"

LEMMA ListRelisted ==
    ASSUME TypeInv, ListInv, NEW k \in DOMAIN scanned, NEW a, Relisted(k, a),
           UNCHANGED <<scanned, activity>>
    PROVE  /\ ListInv'
           /\ a # activity => \A m : Live(m)' <=> Live(m)
           /\ a = activity => \A m : Live(m)' <=> m = k \/ (Live(m) /\ App(m) # App(k))
<1>1. PICK n \in DOMAIN calls' \ DOMAIN calls :
         /\ calls'[n].kind = "stream" /\ calls'[n].of = k /\ calls'[n].activity = a
         /\ calls'[n].listed
         /\ \A i \in DOMAIN calls' \ DOMAIN calls :
              i # n => ~calls'[i].listed /\ calls'[i].kind # "reject"
  BY DEF Relisted
<1>2. ASSUME NEW i \in DOMAIN calls
      PROVE  /\ i \in DOMAIN calls' /\ Alike(calls[i], calls'[i]) /\ i # n
             /\ calls'[i].listed <=> /\ calls[i].listed
                                     /\ ~(calls[i].activity = a /\ App(calls[i].of) = App(k))
  <2>1. /\ i \in DOMAIN calls' /\ Alike(calls[i], calls'[i])
        /\ calls'[i].listed <=> calls[i].listed /\ i \notin Same(k, a)
    BY DEF Relisted, After
  <2>2. i \in Same(k, a) <=> calls[i].listed /\ calls[i].activity = a /\ App(calls[i].of) = App(k)
    BY DEF Same, Listed
  <2> QED BY <1>1, <2>1, <2>2
<1>3. ASSUME NEW i \in DOMAIN calls', calls'[i].listed, i # n
      PROVE  /\ i \in DOMAIN calls /\ calls[i].listed /\ Alike(calls[i], calls'[i])
             /\ ~(calls[i].activity = a /\ App(calls[i].of) = App(k))
  BY <1>1, <1>2, <1>3
<1>4. ASSUME NEW i \in DOMAIN calls', NEW j \in DOMAIN calls', calls'[i].listed, calls'[j].listed,
             calls'[i].activity = calls'[j].activity,
             AppOf[scanned'[calls'[i].of]] = AppOf[scanned'[calls'[j].of]]
      PROVE  i = j
  <2>1. App(calls'[i].of) = App(calls'[j].of)
    BY <1>4 DEF App
  <2>2. CASE i # n /\ j # n
    <3>1. /\ i \in DOMAIN calls /\ calls[i].listed /\ Alike(calls[i], calls'[i])
          /\ j \in DOMAIN calls /\ calls[j].listed /\ Alike(calls[j], calls'[j])
      BY <1>3, <1>4, <2>2
    <3> QED BY <1>4, <2>1, <3>1 DEF ListInv, Alike
  <2>3. CASE i = n /\ j # n
    BY <1>1, <1>3, <1>4, <2>1, <2>3 DEF Alike
  <2>4. CASE i # n /\ j = n
    BY <1>1, <1>3, <1>4, <2>1, <2>4 DEF Alike
  <2> QED BY <2>2, <2>3, <2>4
<1>5. ASSUME NEW j \in DOMAIN calls', calls'[j].kind = "reject"
      PROVE  ~calls'[calls'[j].stream].listed
  <2>1. j \in DOMAIN calls
    BY <1>1, <1>5
  <2>2. calls[j].kind = "reject" /\ calls'[j].stream = calls[j].stream
    BY <1>2, <1>5, <2>1 DEF Alike
  <2>3. ~calls[calls[j].stream].listed /\ calls[j].stream \in DOMAIN calls
    BY <2>1, <2>2, CallFacts DEF ListInv
  <2> QED BY <1>2, <2>2, <2>3
<1>6. ListInv'
  BY <1>4, <1>5 DEF ListInv, App
<1>7. ASSUME NEW m
      PROVE  /\ a # activity => (Live(m)' <=> Live(m))
             /\ a = activity => (Live(m)' <=> m = k \/ (Live(m) /\ App(m) # App(k)))
  <2>1. ASSUME Live(m), ~(a = activity /\ App(m) = App(k)) PROVE Live(m)'
    <3>1. PICK i \in DOMAIN calls :
            calls[i].listed /\ calls[i].activity = activity /\ calls[i].of = m
      BY <2>1 DEF Live
    <3>2. i \in DOMAIN calls' /\ calls'[i].listed /\ Alike(calls[i], calls'[i])
      BY <1>2, <2>1, <3>1
    <3> QED BY <3>1, <3>2 DEF Live, Alike
  <2>2. ASSUME a = activity PROVE Live(k)'
    BY <1>1, <2>2 DEF Live
  <2>3. ASSUME Live(m)', ~(a = activity /\ m = k)
        PROVE  Live(m) /\ ~(a = activity /\ App(m) = App(k))
    <3>1. PICK i \in DOMAIN calls' :
            calls'[i].listed /\ calls'[i].activity = activity /\ calls'[i].of = m
      BY <2>3 DEF Live
    <3>2. i # n
      BY <1>1, <2>3, <3>1
    <3>3. /\ i \in DOMAIN calls /\ calls[i].listed /\ Alike(calls[i], calls'[i])
          /\ ~(calls[i].activity = a /\ App(calls[i].of) = App(k))
      BY <1>3, <3>1, <3>2
    <3> QED BY <3>1, <3>3 DEF Live, Alike
  <2> QED BY <2>1, <2>2, <2>3
<1> QED BY <1>6, <1>7

\* A stored connection is opened: it was not listed, nor was another to its dApp.
LEMMA InitOpenSettle ==
    ASSUME TypeInv, SettleInv, NEW x \in loading, InitOpen(x) PROVE SettleInv'
<1> DEFINE k == x.of
           cs == Destroyed(Same(k, activity))
<1>1. /\ Make(cs, <<Stream(k, activity, x.last, TRUE)>>) /\ TRUE \in BOOLEAN
      /\ UNCHANGED <<manifests, scanned, log, activity, manager>>
      /\ UNCHANGED <<loaded, late, edits, deleting, approving>> /\ loading' = loading \ {x}
  BY DEF InitOpen, store, request, bridge
<1>2. k \in DOMAIN scanned /\ x.last \in 0..Len(log) /\ activity \in 1..activity
  <2>1. x \in [of : Connections, read : BOOLEAN, last : 0..MaxEvents] /\ LoadInv(x)
    BY Parts
  <2>2. activity \in Nat /\ activity \in Activities /\ Len(log) \in Nat
    BY TypedSeqs DEF TypeInv
  <2> QED BY <2>1, <2>2, TonConnectConstants DEF LoadInv, Activities
<1>3. /\ cs \in Seq(Call) /\ Len(cs) = Len(calls) /\ After(cs, Same(k, activity))
      /\ \A i \in DOMAIN calls : Kept(calls[i], cs[i])
  BY AfterDestroyed, DestroyedKept
<1> HIDE DEF cs
<1>4. /\ CallsKept /\ Len(calls') = Len(calls) + 1
      /\ Dispatched(Stream(k, activity, x.last, TRUE), calls'[Len(calls) + 1])
      /\ \A i \in DOMAIN calls : Dispatched(cs[i], calls'[i])
  BY <1>1, <1>2, <1>3, MadeStream
<1> HIDE DEF k
<1>5. DOMAIN calls' = 1..(Len(calls) + 1) /\ DOMAIN calls = 1..Len(calls) /\ Len(calls) \in Nat
  BY <1>4, Elements, TypedSeqs DEF CallsKept, TypeInv
<1>6. Relisted(k, activity)
  <2>1. After(calls', Same(k, activity))
    BY <1>3, <1>4, <1>5, AfterDispatched
  <2>2. /\ calls'[Len(calls) + 1].kind = "stream" /\ calls'[Len(calls) + 1].of = k
        /\ calls'[Len(calls) + 1].activity = activity /\ calls'[Len(calls) + 1].listed
    BY <1>4 DEF Dispatched, Stream
  <2>3. DOMAIN calls' \ DOMAIN calls = {Len(calls) + 1}
    BY <1>5
  <2> QED BY <2>1, <2>2, <2>3 DEF Relisted
<1>7. ListInv /\ StartInv /\ MatchInv
  BY DEF SettleInv
<1>8. /\ loaded /\ ~Started /\ deleting = {}
      /\ \A y \in edits : y.kind # "event" => y.activity # activity /\ Late(y.of)
      /\ manager = activity => approving = {}
  BY <1>7 DEF StartInv, Started, Late
<1>9. ASSUME NEW m \in DOMAIN scanned, Live(m)
      PROVE  (m \in manifests \/ Late(m)) /\ App(m) # App(k) /\ m # k
  <2>1. m \in manifests \/ Late(m)
    BY <1>7, <1>8, <1>9 DEF MatchInv, Late
  <2>2. App(m) # App(k)
    BY <1>7, <1>9 DEF StartInv, k
  <2> QED BY <2>1, <2>2
<1>10. ListInv' /\ \A m \in DOMAIN scanned : Live(m)' <=> m = k \/ Live(m)
  <2>1. ListInv' /\ \A m : Live(m)' <=> m = k \/ (Live(m) /\ App(m) # App(k))
    BY <1>1, <1>2, <1>6, <1>7, ListRelisted DEF k
  <2> QED BY <1>9, <2>1
<1>11. manifests \subseteq DOMAIN scanned /\ \A y \in edits : y.of \in DOMAIN scanned
  BY Parts DEF EditInv
<1>12. StartInv'
  <2>1. ASSUME NEW y \in loading'
        PROVE  /\ y.of \in manifests \/ App(y.of) \in late
               /\ \A m \in DOMAIN scanned : Live(m)' => App(m) # App(y.of)
    <3>1. y \in loading /\ y # x
      BY <1>1
    <3>2. /\ y.of \in manifests \/ App(y.of) \in late
          /\ App(y.of) # App(k) /\ \A m \in DOMAIN scanned : Live(m) => App(m) # App(y.of)
      BY <1>7, <3>1 DEF StartInv, k
    <3> QED BY <1>10, <3>2
  <2> QED BY <1>1, <1>7, <1>8, <2>1 DEF StartInv, Started, App
<1>13. MatchInv'
  <2>1. ASSUME NEW m \in manifests, ~Late(m) PROVE (\E y \in loading' : y.of = m) \/ Live(m)'
    <3>1. (\E y \in loading : y.of = m) \/ Live(m)
      BY <1>7, <1>8, <2>1 DEF MatchInv, Late
    <3> QED BY <1>1, <1>10, <1>11, <3>1 DEF k
  <2>2. ASSUME NEW m \in DOMAIN scanned, Live(m)', ~Late(m) PROVE m \in manifests
    <3>1. k \in manifests \/ Late(k)
      BY <1>7 DEF StartInv, Late, k
    <3> QED BY <1>9, <1>10, <2>2, <3>1
  <2> QED BY <1>1, <1>8, <2>1, <2>2 DEF MatchInv, Late, App
<1>14. OneInv'
  BY <1>1, <1>8 DEF SettleInv, OneInv, App
<1>15. GoingInv'
  BY <1>1, <1>8 DEF GoingInv
<1> QED BY <1>10, <1>12, <1>13, <1>14, <1>15 DEF SettleInv

-----------------------------------------------------------------------------
(* The user                                                                *)

\* A new link is connected to nothing.
LEMMA ProcessStringSettle ==
    ASSUME TypeInv, SettleInv, NEW l \in Links, ProcessString(l) PROVE SettleInv'
<1>1. /\ scanned' = Append(scanned, l)
      /\ UNCHANGED <<manifests, edits, activity, manager>>
      /\ UNCHANGED <<calls, loaded, loading, late, deleting, approving>>
  BY DEF ProcessString, store, start
<1>2. /\ scanned \in Seq(Links) /\ DOMAIN scanned = 1..Len(scanned)
      /\ \A i \in DOMAIN calls : calls[i].of \in DOMAIN scanned
      /\ \A j \in DOMAIN calls : calls[j].kind = "reject" => calls[j].stream \in DOMAIN calls
  BY TypedSeqs, CallFacts DEF TypeInv
<1>3. ASSUME NEW k \in DOMAIN scanned PROVE scanned'[k] = scanned[k] /\ k \in DOMAIN scanned'
  <2>1. /\ DOMAIN Append(scanned, l) = 1..(Len(scanned) + 1) /\ Len(scanned) \in Nat
        /\ \A i \in 1..Len(scanned) : Append(scanned, l)[i] = scanned[i]
    BY <1>2, Appended, LenProperties
  <2> QED BY <1>1, <1>2, <2>1
<1>4. \A k \in DOMAIN scanned : AppOf[scanned'[k]] = App(k)
  BY <1>3 DEF App
<1>5. /\ manifests \subseteq DOMAIN scanned /\ approving \subseteq DOMAIN scanned
      /\ \A x \in edits : x.of \in DOMAIN scanned
      /\ \A x \in loading : x.of \in DOMAIN scanned
      /\ \A d \in deleting : d.of \in DOMAIN scanned
  BY Parts DEF EditInv, LoadInv, DeleteInv
<1>6. \A k : (Live(k)' <=> Live(k)) /\ (Live(k) => k \in DOMAIN scanned)
  BY <1>1, <1>2 DEF Live
<1>7. ListInv'
  <2>1. ListInv
    BY DEF SettleInv
  <2> QED BY <1>1, <1>2, <1>4, <2>1 DEF ListInv, App
<1>8. StartInv'
  <2>1. StartInv
    BY DEF SettleInv
  <2>2. \A m, n \in manifests : AppOf[scanned'[m]] = AppOf[scanned'[n]] => m = n
    BY <1>4, <1>5, <2>1 DEF StartInv
  <2>3. ~loaded => loading = {} /\ \A k : ~Live(k)
    BY <1>6, <2>1 DEF StartInv
  <2>4. loaded => \A x \in edits :
          x.kind # "event" /\ x.activity # activity => AppOf[scanned'[x.of]] \in late
    BY <1>4, <1>5, <2>1 DEF StartInv
  <2>5. \A x, y \in loading : AppOf[scanned'[x.of]] = AppOf[scanned'[y.of]] => x = y
    BY <1>4, <1>5, <2>1 DEF StartInv
  <2>6. \A x \in loading :
          /\ x.of \in manifests \/ AppOf[scanned'[x.of]] \in late
          /\ \A k : Live(k) => AppOf[scanned'[k]] # AppOf[scanned'[x.of]]
    BY <1>4, <1>5, <1>6, <2>1 DEF StartInv
  <2>7. /\ manager = activity /\ approving # {} => Started
        /\ ~Started => deleting = {} /\ \A x \in edits : x.activity = activity => x.kind = "event"
        /\ \A x, y \in edits : x.activity # activity /\ y.activity # activity => x = y
    BY <2>1 DEF StartInv
  <2> QED BY <1>1, <1>6, <2>2, <2>3, <2>4, <2>5, <2>6, <2>7 DEF StartInv, Started, App
<1>9. MatchInv'
  <2> SUFFICES ASSUME loaded PROVE MatchInv'
    BY <1>1 DEF MatchInv
  <2>1. MatchInv
    BY DEF SettleInv
  <2>2. ASSUME NEW m \in manifests
        PROVE  \/ AppOf[scanned'[m]] \in late
               \/ \E x \in loading : x.of = m
               \/ Live(m)
               \/ \E x \in edits : x.kind # "event" /\ AppOf[scanned'[x.of]] = AppOf[scanned'[m]]
    BY <1>4, <1>5, <2>1 DEF MatchInv, Late
  <2>3. \A k : Live(k) /\ AppOf[scanned'[k]] \notin late =>
          k \in manifests \/ \E x \in edits : x.kind = "save" /\ x.of = k
    BY <1>4, <1>6, <2>1 DEF MatchInv, Late
  <2>4. \A x \in edits : x.kind = "save" /\ AppOf[scanned'[x.of]] \notin late => Live(x.of)
    BY <1>4, <1>5, <2>1 DEF MatchInv, Late
  <2>5. ASSUME NEW x \in edits, x.kind = "delete", AppOf[scanned'[x.of]] \notin late
        PROVE  /\ x.of \in manifests
               /\ \A k : Live(k) => AppOf[scanned'[k]] # AppOf[scanned'[x.of]]
    BY <1>4, <1>5, <1>6, <2>1, <2>5 DEF MatchInv, Late
  <2> QED BY <1>1, <1>6, <2>2, <2>3, <2>4, <2>5 DEF MatchInv, Late, App
<1>10. OneInv'
  <2>1. OneInv
    BY DEF SettleInv
  <2>2. loaded => \A x, y \in edits :
          x.kind # "event" /\ y.kind # "event" /\ AppOf[scanned'[x.of]] = AppOf[scanned'[y.of]]
            => x = y
    BY <1>4, <1>5, <2>1 DEF OneInv
  <2>3. \A d, e \in deleting : AppOf[scanned'[d.of]] = AppOf[scanned'[e.of]] => d = e
    BY <1>4, <1>5, <2>1 DEF OneInv
  <2>4. \A d \in deleting : \A x \in edits :
          x.kind # "event" => AppOf[scanned'[x.of]] # AppOf[scanned'[d.of]]
    BY <1>4, <1>5, <2>1 DEF OneInv
  <2>5. manager = activity => \A k \in approving :
          /\ \A x \in edits : x.kind # "event" => AppOf[scanned'[x.of]] # AppOf[scanned'[k]]
          /\ \A d \in deleting : AppOf[scanned'[d.of]] # AppOf[scanned'[k]]
          /\ \A m \in approving : AppOf[scanned'[m]] = AppOf[scanned'[k]] => m = k
    BY <1>4, <1>5, <2>1 DEF OneInv
  <2> QED BY <1>1, <2>2, <2>3, <2>4, <2>5 DEF OneInv, App
<1>11. GoingInv'
  <2> SUFFICES ASSUME NEW d \in deleting PROVE d.of \in manifests /\ (d.post # 0 => ToldOver(d)')
    BY <1>1 DEF GoingInv
  <2>1. d.of \in manifests /\ (d.post # 0 => ToldOver(d)) /\ DeleteInv(d)
    BY Parts DEF SettleInv, GoingInv
  <2>2. ASSUME d.post # 0 PROVE ToldOver(d)'
    <3>1. calls[d.post].stream \in DOMAIN calls
      BY <2>1, <2>2, CallFacts DEF DeleteInv
    <3> QED BY <1>1, <1>2, <1>4, <1>5, <2>1, <2>2, <3>1 DEF ToldOver, App
  <2> QED BY <2>1, <2>2
<1> QED BY <1>7, <1>8, <1>9, <1>10, <1>11 DEF SettleInv

\* The parts that only the calls and the store are about.
LEMMA UserStep ==
    ASSUME SettleInv, UNCHANGED <<manifests, edits, calls, scanned, activity, loaded, loading, late>>
    PROVE  /\ ListInv' /\ MatchInv' /\ (\A d : ToldOver(d)' <=> ToldOver(d))
           /\ \A k : Live(k)' <=> Live(k)
BY DEF SettleInv, ListInv, MatchInv, Late, ToldOver, Live, App

\* An approval starts when no other change of the dApp is under way.
LEMMA ApproveRequestSettle ==
    ASSUME ~Haste, TypeInv, SettleInv, ApproveConnectionRequest PROVE SettleInv'
<1>1. /\ Quiet(App(sheet)) /\ approving' = approving \cup {sheet}
      /\ UNCHANGED <<manifests, edits, calls, scanned, activity, loaded, loading, late>>
      /\ UNCHANGED <<manager, deleting>>
  BY DEF ApproveConnectionRequest, store, start, bridge
<1>2. ListInv' /\ MatchInv' /\ (\A k : Live(k)' <=> Live(k)) /\ GoingInv'
  BY <1>1, UserStep DEF GoingInv, SettleInv
<1>3. StartInv'
  BY <1>1, <1>2 DEF SettleInv, StartInv, Started, Quiet, App
<1>4. OneInv'
  <2>1. OneInv
    BY DEF SettleInv
  <2>2. /\ \A d \in deleting : App(d.of) # App(sheet)
        /\ \A x \in edits : x.kind # "event" => App(x.of) # App(sheet)
        /\ \A k \in approving : App(k) # App(sheet)
    BY <1>1 DEF Quiet
  <2>3. manager = activity => \A k \in approving' :
          /\ \A x \in edits : x.kind # "event" => App(x.of) # App(k)
          /\ \A d \in deleting : App(d.of) # App(k)
          /\ \A m \in approving' : App(m) = App(k) => m = k
    BY <1>1, <2>1, <2>2 DEF OneInv
  <2> QED BY <1>1, <2>1, <2>3 DEF OneInv, App
<1> QED BY <1>2, <1>3, <1>4 DEF SettleInv

\* So does a disconnection.
LEMMA DeleteAppSettle ==
    ASSUME ~Haste, TypeInv, SettleInv, NEW k \in manifests, DeleteAppWithManifest(k)
    PROVE  SettleInv'
<1> DEFINE d == [of |-> k, post |-> 0]
<1>1. /\ Quiet(App(k)) /\ deleting' = deleting \cup {d}
      /\ UNCHANGED <<manifests, edits, calls, scanned, activity, loaded, loading, late>>
      /\ UNCHANGED <<manager, approving>>
  BY DEF DeleteAppWithManifest, store, start, request, bridge
<1>2. d.of = k /\ d.post = 0
  OBVIOUS
<1> HIDE DEF d
<1>3. /\ ListInv' /\ MatchInv' /\ (\A m : Live(m)' <=> Live(m))
      /\ \A e : ToldOver(e)' <=> ToldOver(e)
  BY <1>1, UserStep
<1>4. StartInv'
  BY <1>1, <1>3 DEF SettleInv, StartInv, Started, Quiet, App
<1>5. OneInv'
  <2>1. OneInv
    BY DEF SettleInv
  <2>2. /\ \A e \in deleting : App(e.of) # App(d.of)
        /\ \A x \in edits : x.kind # "event" => App(x.of) # App(d.of)
        /\ \A m \in approving : App(m) # App(d.of)
    BY <1>1, <1>2 DEF Quiet
  <2>3. \A e, f \in deleting' : App(e.of) = App(f.of) => e = f
    BY <1>1, <2>1, <2>2 DEF OneInv
  <2>4. \A e \in deleting' : \A x \in edits : x.kind # "event" => App(x.of) # App(e.of)
    BY <1>1, <2>1, <2>2 DEF OneInv
  <2>5. manager = activity => \A m \in approving :
          /\ \A x \in edits : x.kind # "event" => App(x.of) # App(m)
          /\ \A e \in deleting' : App(e.of) # App(m)
          /\ \A n \in approving : App(n) = App(m) => n = m
    BY <1>1, <2>1, <2>2 DEF OneInv
  <2> QED BY <1>1, <2>1, <2>3, <2>4, <2>5 DEF OneInv, App
<1>6. GoingInv'
  BY <1>1, <1>2, <1>3 DEF SettleInv, GoingInv
<1> QED BY <1>3, <1>4, <1>5, <1>6 DEF SettleInv

-----------------------------------------------------------------------------
(* Approvals and disconnections                                            *)

\* What an approval does to the calls.
LEMMA ApproveCalls ==
    ASSUME TypeInv, NEW k \in approving, Approve(k)
    PROVE  Relisted(k, manager) /\ k \in DOMAIN scanned
<1> DEFINE cs == Destroyed(Same(k, manager))
<1>1. /\ Make(cs, <<Stream(k, manager, 0, TRUE), Post("approve", k, manager, Len(calls) + 1)>>)
      /\ UNCHANGED <<scanned, log, activity>> /\ TRUE \in BOOLEAN
  BY DEF Approve, bridge
<1>2. k \in DOMAIN scanned /\ manager \in 1..activity
  BY Parts
<1>3. /\ cs \in Seq(Call) /\ Len(cs) = Len(calls) /\ After(cs, Same(k, manager))
      /\ \A i \in DOMAIN calls : Kept(calls[i], cs[i])
  BY AfterDestroyed, DestroyedKept
<1> HIDE DEF cs
<1>4. /\ CallsKept /\ Len(calls') = Len(calls) + 2
      /\ Dispatched(Stream(k, manager, 0, TRUE), calls'[Len(calls) + 1])
      /\ Dispatched(Post("approve", k, manager, Len(calls) + 1), calls'[Len(calls) + 2])
      /\ \A i \in DOMAIN calls : Dispatched(cs[i], calls'[i])
  BY <1>1, <1>2, <1>3, MadeBoth
<1>5. DOMAIN calls' = 1..(Len(calls) + 2) /\ DOMAIN calls = 1..Len(calls) /\ Len(calls) \in Nat
  BY <1>4, Elements, TypedSeqs DEF CallsKept, TypeInv
<1>6. After(calls', Same(k, manager))
  BY <1>3, <1>4, <1>5, AfterDispatched
<1>7. /\ calls'[Len(calls) + 1].kind = "stream" /\ calls'[Len(calls) + 1].of = k
      /\ calls'[Len(calls) + 1].activity = manager /\ calls'[Len(calls) + 1].listed
      /\ ~calls'[Len(calls) + 2].listed /\ calls'[Len(calls) + 2].kind = "approve"
  BY <1>4 DEF Dispatched, Stream, Post
<1>8. /\ DOMAIN calls' \ DOMAIN calls = {Len(calls) + 1, Len(calls) + 2}
      /\ Len(calls) + 1 # Len(calls) + 2
  BY <1>5
<1> QED BY <1>2, <1>6, <1>7, <1>8 DEF Relisted

\* What an approval leaves of the deletions.
LEMMA ApproveGoing ==
    ASSUME TypeInv, SettleInv, NEW k \in approving, Approve(k) PROVE GoingInv'
<1>1. UNCHANGED <<manifests, scanned, activity, deleting>>
  BY DEF Approve, start, bridge
<1>2. After(calls', Same(k, manager))
  BY ApproveCalls DEF Relisted
<1> SUFFICES ASSUME NEW d \in deleting PROVE d.of \in manifests /\ (d.post # 0 => ToldOver(d)')
  BY <1>1 DEF GoingInv
<1>3. d.of \in manifests /\ (d.post # 0 => ToldOver(d))
  BY DEF SettleInv, GoingInv
<1>4. ASSUME d.post # 0 PROVE ToldOver(d)'
  <2>1. calls[d.post].stream \notin Same(k, manager)
    <3>1. CASE manager # activity
      BY <1>3, <1>4, <3>1 DEF ToldOver, Same, Listed
    <3>2. CASE manager = activity
      <4>1. App(d.of) # App(k)
        BY <3>2 DEF SettleInv, OneInv
      <4> QED BY <1>3, <1>4, <4>1 DEF ToldOver, Same, Listed
    <3> QED BY <3>1, <3>2
  <2> QED BY <1>1, <1>2, <1>3, <1>4, <2>1, GoingKept
<1> QED BY <1>3, <1>4

\* The manager of an earlier activity changes nothing of the current one.
LEMMA ApproveEarlier ==
    ASSUME TypeInv, SettleInv, NEW k \in approving, Approve(k), manager # activity
    PROVE  SettleInv'
<1>1. /\ UNCHANGED <<manifests, edits, scanned, activity, manager>>
      /\ UNCHANGED <<loaded, loading, late, deleting>> /\ approving' = approving \ {k}
  BY DEF Approve, start, bridge, Launched
<1>2. ListInv' /\ \A m : Live(m)' <=> Live(m)
  BY <1>1, ApproveCalls, ListRelisted DEF SettleInv
<1>3. StartInv'
  BY <1>1, <1>2 DEF SettleInv, StartInv, Started, App
<1>4. MatchInv'
  BY <1>1, <1>2 DEF SettleInv, MatchInv, Late, App
<1>5. OneInv'
  BY <1>1 DEF SettleInv, OneInv, App
<1> QED BY <1>2, <1>3, <1>4, <1>5, ApproveGoing DEF SettleInv

\* The manager of the current activity: its connection to the dApp is another one,
\* and the save of its manifest is to come.
LEMMA ApproveCurrent ==
    ASSUME TypeInv, SettleInv, NEW k \in approving, Approve(k), manager = activity
    PROVE  SettleInv'
<1>1. /\ UNCHANGED <<manifests, scanned, activity, manager>>
      /\ UNCHANGED <<loaded, loading, late, deleting>> /\ approving' = approving \ {k}
  BY DEF Approve, start, bridge
<1>2. PICK x : x = [kind |-> "save", of |-> k, event |-> 0, activity |-> activity]
  OBVIOUS
<1>3. /\ edits' = edits \cup {x} /\ x.kind = "save" /\ x.of = k /\ x.activity = activity
  <2>1. edits' = edits \cup Launched("save", k, 0, manager)
    BY DEF Approve
  <2> QED BY <1>2, <2>1 DEF Launched
<1>4. /\ ListInv' /\ k \in DOMAIN scanned
      /\ \A m : Live(m)' <=> m = k \/ (Live(m) /\ App(m) # App(k))
  BY <1>1, ApproveCalls, ListRelisted DEF SettleInv
<1>5. Started /\ StartInv /\ MatchInv /\ OneInv
  BY DEF SettleInv, StartInv
<1>6. /\ \A y \in edits : y.kind # "event" => App(y.of) # App(k)
      /\ \A d \in deleting : App(d.of) # App(k)
      /\ \A l \in approving : App(l) = App(k) => l = k
  BY <1>5 DEF OneInv
<1>7. StartInv'
  BY <1>1, <1>3, <1>5 DEF StartInv, Started, App
<1>8. MatchInv'
  <2>1. loaded /\ loading = {}
    BY <1>5 DEF Started
  <2>2. ASSUME NEW m \in manifests, ~Late(m)
        PROVE  Live(m)' \/ \E y \in edits' : y.kind # "event" /\ App(y.of) = App(m)
    <3>1. Live(m) \/ \E y \in edits : y.kind # "event" /\ App(y.of) = App(m)
      BY <1>5, <2>1, <2>2 DEF MatchInv
    <3>2. CASE App(m) = App(k)
      BY <1>3, <3>2
    <3>3. CASE App(m) # App(k)
      BY <1>3, <1>4, <3>1, <3>3
    <3> QED BY <3>2, <3>3
  <2>3. ASSUME NEW m \in DOMAIN scanned, Live(m)', ~Late(m)
        PROVE  m \in manifests \/ \E y \in edits' : y.kind = "save" /\ y.of = m
    <3>1. CASE m = k
      BY <1>3, <3>1
    <3>2. CASE m # k
      <4>1. m \in manifests \/ \E y \in edits : y.kind = "save" /\ y.of = m
        BY <1>4, <1>5, <2>1, <2>3, <3>2 DEF MatchInv
      <4> QED BY <1>3, <4>1
    <3> QED BY <3>1, <3>2
  <2>4. ASSUME NEW y \in edits', y.kind = "save", ~Late(y.of) PROVE Live(y.of)'
    <3>1. CASE y = x
      BY <1>3, <1>4, <3>1
    <3>2. CASE y \in edits
      BY <1>4, <1>5, <1>6, <2>1, <2>4, <3>2 DEF MatchInv
    <3> QED BY <1>3, <3>1, <3>2
  <2>5. ASSUME NEW y \in edits', y.kind = "delete", ~Late(y.of)
        PROVE  y.of \in manifests /\ \A m \in DOMAIN scanned : Live(m)' => App(m) # App(y.of)
    <3>1. y \in edits
      BY <1>3, <2>5
    <3>2. y.of \in manifests /\ \A m \in DOMAIN scanned : Live(m) => App(m) # App(y.of)
      BY <1>5, <2>1, <2>5, <3>1 DEF MatchInv
    <3>3. App(y.of) # App(k)
      BY <1>6, <2>5, <3>1
    <3> QED BY <1>4, <3>2, <3>3
  <2> QED BY <1>1, <2>1, <2>2, <2>3, <2>4, <2>5 DEF MatchInv, Late, App
<1>9. OneInv'
  <2>1. \A y, z \in edits' :
          y.kind # "event" /\ z.kind # "event" /\ App(y.of) = App(z.of) => y = z
    <3>1. loaded
      BY <1>5 DEF Started
    <3> QED BY <1>3, <1>5, <1>6, <3>1 DEF OneInv
  <2>2. \A d \in deleting : \A y \in edits' : y.kind # "event" => App(y.of) # App(d.of)
    BY <1>3, <1>5, <1>6 DEF OneInv
  <2>3. \A l \in approving' :
          /\ \A y \in edits' : y.kind # "event" => App(y.of) # App(l)
          /\ \A d \in deleting : App(d.of) # App(l)
          /\ \A m \in approving' : App(m) = App(l) => m = l
    BY <1>1, <1>3, <1>5, <1>6 DEF OneInv
  <2>4. \A d, e \in deleting : App(d.of) = App(e.of) => d = e
    BY <1>5 DEF OneInv
  <2> QED BY <1>1, <2>1, <2>2, <2>3, <2>4 DEF OneInv, App
<1> QED BY <1>4, <1>7, <1>8, <1>9, ApproveGoing DEF SettleInv

\* The deletion of the manifest of d is to come: no connection of its dApp is listed.
LEMMA Removing ==
    ASSUME TypeInv, SettleInv, NEW d \in deleting, ListInv', GoingInv',
           edits' = edits \cup Launched("delete", d.of, 0, activity),
           \A m \in DOMAIN scanned : Live(m)' <=> Live(m) /\ App(m) # App(d.of),
           deleting' = deleting \ {d},
           UNCHANGED <<manifests, scanned, activity, manager, loaded, loading, late, approving>>
    PROVE  SettleInv'
<1>1. PICK x : x = [kind |-> "delete", of |-> d.of, event |-> 0, activity |-> activity]
  OBVIOUS
<1>2. /\ edits' = edits \cup {x} /\ x.kind = "delete" /\ x.of = d.of /\ x.activity = activity
  BY <1>1 DEF Launched
<1>3. StartInv /\ MatchInv /\ OneInv /\ d.of \in manifests
  BY DEF SettleInv, GoingInv
<1>4. Started
  BY <1>3 DEF StartInv
<1>5. loaded /\ loading = {}
  BY <1>4 DEF Started
<1>6. /\ \A y \in edits : y.kind # "event" => App(y.of) # App(d.of)
      /\ \A e \in deleting : App(e.of) = App(d.of) => e = d
  BY <1>3 DEF OneInv
<1>7. manifests \subseteq DOMAIN scanned /\ \A y \in edits : y.of \in DOMAIN scanned
  BY Parts DEF EditInv
<1>8. StartInv'
  BY <1>2, <1>3, <1>4, <1>5 DEF StartInv, Started, App
<1>9. MatchInv'
  <2>1. ASSUME NEW m \in manifests, ~Late(m)
        PROVE  Live(m)' \/ \E y \in edits' : y.kind # "event" /\ App(y.of) = App(m)
    <3>1. Live(m) \/ \E y \in edits : y.kind # "event" /\ App(y.of) = App(m)
      BY <1>3, <1>5, <2>1 DEF MatchInv
    <3>2. CASE App(m) = App(d.of)
      BY <1>2, <3>2
    <3>3. CASE App(m) # App(d.of)
      BY <1>2, <1>7, <3>1, <3>3
    <3> QED BY <3>2, <3>3
  <2>2. ASSUME NEW m \in DOMAIN scanned, Live(m)', ~Late(m)
        PROVE  m \in manifests \/ \E y \in edits' : y.kind = "save" /\ y.of = m
    <3>1. m \in manifests \/ \E y \in edits : y.kind = "save" /\ y.of = m
      BY <1>3, <1>5, <2>2 DEF MatchInv
    <3> QED BY <1>2, <3>1
  <2>3. ASSUME NEW y \in edits', y.kind = "save", ~Late(y.of) PROVE Live(y.of)'
    <3>1. y \in edits
      BY <1>2, <2>3
    <3> QED BY <1>3, <1>5, <1>6, <1>7, <2>3, <3>1 DEF MatchInv
  <2>4. ASSUME NEW y \in edits', y.kind = "delete", ~Late(y.of)
        PROVE  y.of \in manifests /\ \A m \in DOMAIN scanned : Live(m)' => App(m) # App(y.of)
    <3>1. CASE y = x
      BY <1>2, <1>3, <3>1
    <3>2. CASE y \in edits
      BY <1>3, <1>5, <2>4, <3>2 DEF MatchInv
    <3> QED BY <1>2, <3>1, <3>2
  <2> QED BY <1>5, <2>1, <2>2, <2>3, <2>4 DEF MatchInv, Late, App
<1>10. OneInv'
  <2>1. \A y, z \in edits' :
          y.kind # "event" /\ z.kind # "event" /\ App(y.of) = App(z.of) => y = z
    BY <1>2, <1>3, <1>5, <1>6 DEF OneInv
  <2>2. \A e \in deleting' : \A y \in edits' : y.kind # "event" => App(y.of) # App(e.of)
    BY <1>2, <1>3, <1>6 DEF OneInv
  <2>3. manager = activity => \A l \in approving :
          /\ \A y \in edits' : y.kind # "event" => App(y.of) # App(l)
          /\ \A e \in deleting' : App(e.of) # App(l)
          /\ \A m \in approving : App(m) = App(l) => m = l
    BY <1>2, <1>3 DEF OneInv
  <2>4. \A e, f \in deleting' : App(e.of) = App(f.of) => e = f
    BY <1>3 DEF OneInv
  <2> QED BY <2>1, <2>2, <2>3, <2>4 DEF OneInv, App
<1> QED BY <1>8, <1>9, <1>10 DEF SettleInv

\* A disconnection begins: the dApp is told over the connection listed for it.
LEMMA DeleteBeginsSettle ==
    ASSUME TypeInv, SettleInv, NEW d \in deleting, DeleteBegins(d) PROVE SettleInv'
<1> DEFINE same == Same(d.of, activity)
<1>1. /\ UNCHANGED <<manifests, scanned, log, activity, manager>>
      /\ UNCHANGED <<loaded, loading, late, approving>> /\ d.post = 0
  BY DEF DeleteBegins, start, request, bridge
<1>2. DeleteInv(d) /\ d.of \in manifests /\ manifests \subseteq DOMAIN scanned
  BY Parts DEF SettleInv, GoingInv
<1>3. CASE same = {}
  <2>1. /\ deleting' = deleting \ {d} /\ UNCHANGED calls
        /\ edits' = edits \cup Launched("delete", d.of, 0, activity)
    BY <1>3 DEF DeleteBegins
  <2>2. ListInv' /\ GoingInv' /\ \A m : Live(m)' <=> Live(m)
    BY <1>1, <2>1 DEF SettleInv, ListInv, GoingInv, ToldOver, Live, App
  <2>3. \A m : Live(m) => App(m) # App(d.of)
    BY <1>3 DEF Live, Same, Listed
  <2> QED BY <1>1, <2>1, <2>2, <2>3, Removing
<1>4. CASE same # {}
  <2>1. PICK s \in same : Make(calls, <<Post("delete", calls[s].of, activity, s)>>)
    BY <1>4 DEF DeleteBegins
  <2>2. /\ deleting' = (deleting \ {d}) \cup {[d EXCEPT !.post = Len(calls')]}
        /\ UNCHANGED edits
    BY <1>4 DEF DeleteBegins
  <2>3. /\ s \in DOMAIN calls /\ calls[s].listed /\ calls[s].activity = activity
        /\ App(calls[s].of) = App(d.of)
    BY DEF Same, Listed
  <2>4. /\ calls[s].kind = "stream" /\ calls[s].of \in DOMAIN scanned /\ calls \in Seq(Call)
        /\ DOMAIN calls = 1..Len(calls) /\ Len(calls) \in Nat
    BY <2>3, CallFacts
  <2>5. Make(calls, <<Post("delete", calls[s].of, calls[s].activity, s)>>)
    BY <2>1, <2>3
  <2>6. /\ CallsKept /\ Len(calls') = Len(calls) + 1
        /\ Dispatched(Post("delete", calls[s].of, activity, s), calls'[Len(calls) + 1])
        /\ \A i \in DOMAIN calls : Dispatched(calls[i], calls'[i])
    BY <1>1, <2>3, <2>4, <2>5, MadePost
  <2>7. DOMAIN calls' = 1..(Len(calls) + 1)
    BY <2>6, Elements DEF CallsKept
  <2>8. After(calls, {})
    BY DEF After, Alike
  <2>9. After(calls', {})
    BY <2>4, <2>6, <2>7, <2>8, AfterDispatched
  <2>n. PICK n : n = Len(calls) + 1
    OBVIOUS
  <2>f. PICK f : f = [d EXCEPT !.post = n]
    OBVIOUS
  <2>10. /\ ~calls'[n].listed /\ calls'[n].kind = "delete" /\ calls'[n].stream = s
    BY <2>6, <2>n DEF Dispatched, Post
  <2>11. NewUnlisted
    BY <2>4, <2>7, <2>10, <2>n DEF NewUnlisted
  <2>12. f.of = d.of /\ f.post = n /\ deleting' = (deleting \ {d}) \cup {f}
    BY <1>2, <2>2, <2>6, <2>n, <2>f DEF DeleteInv
  <2>13. ListInv' /\ \A m : Live(m)' <=> Live(m)
    BY <1>1, <2>9, <2>11, ListCalm DEF SettleInv
  <2>14. StartInv'
    BY <1>1, <2>2, <2>13 DEF SettleInv, StartInv, Started, App
  <2>15. MatchInv'
    BY <1>1, <2>2, <2>13 DEF SettleInv, MatchInv, Late, App
  <2>16. OneInv'
    <3>1. OneInv
      BY DEF SettleInv
    <3>2. \A e, g \in deleting' : App(e.of) = App(g.of) => e = g
      BY <2>12, <3>1 DEF OneInv
    <3>3. \A e \in deleting' : \A x \in edits : x.kind # "event" => App(x.of) # App(e.of)
      BY <2>12, <3>1 DEF OneInv
    <3>4. manager = activity => \A l \in approving :
            /\ \A x \in edits : x.kind # "event" => App(x.of) # App(l)
            /\ \A e \in deleting' : App(e.of) # App(l)
            /\ \A m \in approving : App(m) = App(l) => m = l
      BY <2>12, <3>1 DEF OneInv
    <3> QED BY <1>1, <2>2, <3>1, <3>2, <3>3, <3>4 DEF OneInv, App
  <2>17. ToldOver(f)'
    <3>1. /\ calls'[f.post].stream = s /\ calls'[s].listed
          /\ calls'[s].activity = activity /\ calls'[s].of = calls[s].of
      BY <2>3, <2>9, <2>10, <2>12 DEF After, Alike
    <3> QED BY <1>1, <2>3, <2>12, <3>1 DEF ToldOver, App
  <2>18. GoingInv'
    <3> SUFFICES ASSUME NEW e \in deleting' PROVE e.of \in manifests /\ (e.post # 0 => ToldOver(e)')
      BY <1>1 DEF GoingInv
    <3>1. CASE e = f
      BY <1>2, <2>12, <2>17, <3>1
    <3>2. CASE e \in deleting
      <4>1. e.of \in manifests /\ (e.post # 0 => ToldOver(e))
        BY <3>2 DEF SettleInv, GoingInv
      <4>2. calls[e.post].stream \notin {}
        OBVIOUS
      <4> QED BY <1>1, <2>9, <3>2, <4>1, <4>2, GoingKept
    <3> QED BY <2>12, <3>1, <3>2
  <2> QED BY <2>13, <2>14, <2>15, <2>16, <2>18 DEF SettleInv
<1> QED BY <1>3, <1>4

\* It ends: the connection it told the dApp over is the one that is listed.
LEMMA DeleteEndsSettle ==
    ASSUME TypeInv, SettleInv, NEW d \in deleting, DeleteEnds(d) PROVE SettleInv'
<1> DEFINE s == calls[d.post].stream
           cs == Destroyed({s})
<1>1. /\ UNCHANGED <<manifests, scanned, activity, manager, loaded, loading, late, approving>>
      /\ calls' = Dispatch(cs) /\ deleting' = deleting \ {d} /\ d.post # 0
      /\ edits' = edits \cup Launched("delete", d.of, 0, activity)
  BY DEF DeleteEnds, start, request, bridge
<1>2. /\ DeleteInv(d) /\ ToldOver(d) /\ ListInv /\ OneInv
      /\ \A i \in DOMAIN calls : calls[i].of \in DOMAIN scanned
  BY <1>1, Parts, CallFacts DEF SettleInv, GoingInv
<1>3. /\ s \in DOMAIN calls /\ calls[s].listed /\ calls[s].activity = activity
      /\ App(calls[s].of) = App(d.of)
  BY <1>1, <1>2, CallFacts DEF DeleteInv, ToldOver
<1>4. cs \in Seq(Call) /\ Len(cs) = Len(calls) /\ After(cs, {s})
  BY AfterDestroyed
<1> HIDE DEF cs
<1>5. After(calls', {s}) /\ DOMAIN calls' = DOMAIN calls
  BY <1>1, <1>4, AfterDispatch
<1>s. calls[d.post].stream = s
  OBVIOUS
<1> HIDE DEF s
<1>6. \A i \in DOMAIN calls : /\ Alike(calls[i], calls'[i])
                              /\ calls'[i].listed <=> calls[i].listed /\ i # s
  BY <1>5 DEF After
<1>7. ListInv'
  <2>1. ASSUME NEW i \in DOMAIN calls', NEW j \in DOMAIN calls', calls'[i].listed,
               calls'[j].listed, calls'[i].activity = calls'[j].activity,
               AppOf[scanned'[calls'[i].of]] = AppOf[scanned'[calls'[j].of]]
        PROVE  i = j
    <3>1. /\ i \in DOMAIN calls /\ calls[i].listed /\ Alike(calls[i], calls'[i])
          /\ j \in DOMAIN calls /\ calls[j].listed /\ Alike(calls[j], calls'[j])
      BY <1>5, <1>6, <2>1
    <3> QED BY <1>1, <1>2, <2>1, <3>1 DEF ListInv, Alike, App
  <2>2. ASSUME NEW j \in DOMAIN calls', calls'[j].kind = "reject"
        PROVE  ~calls'[calls'[j].stream].listed
    <3>1. j \in DOMAIN calls /\ calls[j].kind = "reject" /\ calls'[j].stream = calls[j].stream
      BY <1>5, <1>6, <2>2 DEF Alike
    <3>2. ~calls[calls[j].stream].listed /\ calls[j].stream \in DOMAIN calls
      BY <1>2, <3>1, CallFacts DEF ListInv
    <3> QED BY <1>6, <3>1, <3>2
  <2> QED BY <2>1, <2>2 DEF ListInv, App
<1>8. ASSUME NEW m \in DOMAIN scanned PROVE Live(m)' <=> Live(m) /\ App(m) # App(d.of)
  <2>1. ASSUME Live(m)' PROVE Live(m) /\ App(m) # App(d.of)
    <3>1. PICK i \in DOMAIN calls' :
            calls'[i].listed /\ calls'[i].activity = activity /\ calls'[i].of = m
      BY <1>1, <2>1 DEF Live
    <3>2. /\ i \in DOMAIN calls /\ calls[i].listed /\ calls[i].activity = activity
          /\ calls[i].of = m /\ i # s
      BY <1>5, <1>6, <3>1 DEF Alike
    <3> QED BY <1>2, <1>3, <3>2 DEF ListInv, Live
  <2>2. ASSUME Live(m), App(m) # App(d.of) PROVE Live(m)'
    <3>1. PICK i \in DOMAIN calls :
            calls[i].listed /\ calls[i].activity = activity /\ calls[i].of = m
      BY <2>2 DEF Live
    <3>2. /\ i \in DOMAIN calls' /\ calls'[i].listed /\ calls'[i].activity = activity
          /\ calls'[i].of = m
      BY <1>3, <1>5, <1>6, <2>2, <3>1 DEF Alike
    <3> QED BY <1>1, <3>2 DEF Live
  <2> QED BY <2>1, <2>2
<1>9. GoingInv'
  <2> SUFFICES ASSUME NEW e \in deleting, e # d
               PROVE  e.of \in manifests /\ (e.post # 0 => ToldOver(e)')
    BY <1>1 DEF GoingInv
  <2>1. e.of \in manifests /\ (e.post # 0 => ToldOver(e))
    BY DEF SettleInv, GoingInv
  <2>2. App(e.of) # App(d.of)
    BY <1>2 DEF OneInv
  <2>3. ASSUME e.post # 0 PROVE ToldOver(e)'
    <3>1. calls[e.post].stream \notin {s}
      BY <1>3, <2>1, <2>2, <2>3 DEF ToldOver
    <3> QED BY <1>1, <1>5, <2>1, <2>3, <3>1, GoingKept
  <2> QED BY <2>1, <2>3
<1> QED BY <1>1, <1>7, <1>8, <1>9, Removing

-----------------------------------------------------------------------------
(* Activities and processes                                                *)

\* A new activity has no connection yet, and what was under way is dropped.
LEMMA NewActivitySettle ==
    ASSUME TypeInv, SettleInv, NEW kept \in BOOLEAN, NewActivity(kept) PROVE SettleInv'
<1>1. /\ activity' = activity + 1 /\ manager' = IF kept THEN manager ELSE activity'
      /\ (edits' = {} \/ \E x \in edits : edits' = {x}) /\ ~loaded' /\ loading' = {} /\ deleting' = {}
      /\ kept \/ approving' = {}
      /\ UNCHANGED <<manifests, calls, scanned>>
  BY DEF NewActivity, request, bridge
<1>2. /\ activity \in Nat /\ manager \in 1..activity
      /\ \A i \in DOMAIN calls : calls[i].activity <= activity
      /\ \A x \in edits : x.activity <= activity
  BY TypedSeqs, Parts DEF TypeInv, CallsInv, CallInv, EditInv
<1>3. \A k : ~Live(k)'
  BY <1>1, <1>2 DEF Live
<1>4. ListInv'
  BY <1>1 DEF SettleInv, ListInv, App
<1>5. manager' = activity' => approving' = {}
  BY <1>1, <1>2
<1>6. \A x, y \in edits' : x.activity # activity' /\ x = y
  BY <1>1, <1>2
<1>7. StartInv'
  BY <1>1, <1>3, <1>5, <1>6 DEF SettleInv, StartInv, Started, App
<1>8. MatchInv' /\ GoingInv'
  BY <1>1 DEF MatchInv, GoingInv
<1>9. OneInv'
  BY <1>1, <1>5 DEF OneInv
<1> QED BY <1>4, <1>7, <1>8, <1>9 DEF SettleInv

\* So it is with a new process, which has no calls at all.
LEMMA DieSettle == ASSUME TypeInv, SettleInv, Die PROVE SettleInv'
<1>1. /\ edits' = {} /\ ~loaded' /\ loading' = {} /\ deleting' = {} /\ approving' = {}
      /\ calls' = <<>> /\ UNCHANGED <<manifests, scanned>>
  BY DEF Die, bridge
<1>2. DOMAIN calls' = {}
  BY <1>1, EmptySeq
<1>3. ListInv' /\ \A k : ~Live(k)'
  BY <1>2 DEF ListInv, Live
<1>4. StartInv'
  BY <1>1, <1>3 DEF SettleInv, StartInv, Started, App
<1>5. MatchInv' /\ GoingInv' /\ OneInv'
  BY <1>1 DEF MatchInv, GoingInv, OneInv
<1> QED BY <1>3, <1>4, <1>5 DEF SettleInv

LEMMA SettleInit == Init => SettleInv
<1> SUFFICES ASSUME Init PROVE SettleInv
  OBVIOUS
<1>1. DOMAIN calls = {}
  BY EmptySeq DEF Init
<1>2. ListInv /\ \A k : ~Live(k)
  BY <1>1 DEF ListInv, Live
<1>3. StartInv
  BY <1>2 DEF Init, StartInv
<1>4. MatchInv /\ GoingInv /\ OneInv
  BY DEF Init, MatchInv, GoingInv, OneInv
<1> QED BY <1>2, <1>3, <1>4 DEF SettleInv

LEMMA SettleStep == ASSUME ~Haste PROVE TypeInv /\ SettleInv /\ [Next]_vars => SettleInv'
<1> SUFFICES ASSUME TypeInv, SettleInv, [Next]_vars PROVE SettleInv'
  OBVIOUS
<1>1. ASSUME UNCHANGED <<manifests, scanned, activity, manager, edits, calls>>,
             UNCHANGED <<loaded, loading, late, deleting, approving>>
      PROVE  SettleInv'
  <2>1. After(calls', {}) /\ NewUnlisted
    BY <1>1, AfterSame DEF NewUnlisted
  <2> QED BY <1>1, <2>1, CalmStep
<1>2. CASE UNCHANGED vars
  BY <1>1, <1>2 DEF vars, store, process, start, request, bridge
<1>3. ASSUME NEW x \in edits, Write(x) PROVE SettleInv'
  BY <1>3, WriteSettle
<1>4. CASE InitLoad
  BY <1>4, InitLoadSettle
<1>5. ASSUME NEW x \in loading, InitRead(x) \/ InitOpen(x) PROVE SettleInv'
  BY <1>5, InitReadSettle, InitOpenSettle
<1>6. ASSUME NEW l \in Links, ProcessString(l) PROVE SettleInv'
  BY <1>6, ProcessStringSettle
<1>7. CASE ApproveConnectionRequest
  BY <1>7, ApproveRequestSettle
<1>8. ASSUME NEW k \in approving, Approve(k) PROVE SettleInv'
  BY <1>8, ApproveEarlier, ApproveCurrent
<1>9. CASE OnBottomSheetDismiss
  BY <1>9, DismissSettle
<1>10. ASSUME NEW k \in manifests, DeleteAppWithManifest(k) PROVE SettleInv'
  BY <1>10, DeleteAppSettle
<1>11. ASSUME NEW d \in deleting, DeleteBegins(d) \/ DeleteEnds(d) PROVE SettleInv'
  BY <1>11, DeleteBeginsSettle, DeleteEndsSettle
<1>12. ASSUME NEW k \in known, NEW ok \in BOOLEAN, Send(k, ok) PROVE SettleInv'
  BY <1>1, <1>12 DEF Send, store, process, start, request
<1>13. ASSUME NEW i \in DOMAIN calls, Posted(i) \/ Rejected(i) PROVE SettleInv'
  BY <1>13, PostedSettle, RejectedSettle
<1>14. ASSUME NEW i \in DOMAIN calls, OnEvent(i) \/ OnEventEnds(i) \/ OnFailure(i)
       PROVE  SettleInv'
  BY <1>14, OnEventSettle, OnEventEndsSettle, OnFailureSettle
<1>15. ASSUME NEW kept \in BOOLEAN, NewActivity(kept) PROVE SettleInv'
  BY <1>15, NewActivitySettle
<1>16. CASE Die
  BY <1>16, DieSettle
<1> QED
  BY <1>2, <1>3, <1>4, <1>5, <1>6, <1>7, <1>8, <1>9, <1>10, <1>11, <1>12, <1>13,
     <1>14, <1>15, <1>16 DEF Next

\* For a user who waits for one change of a dApp before the next: once nothing is
\* under way, the connections of the current manager are the stored ones, one for
\* each dApp, whatever rotations, deaths and failed posts came before, but for
\* a dApp that an edit begun by an earlier activity was written for too late.
THEOREM SettledMatchesHolds == ASSUME ~Haste PROVE Spec => [](SettledMatches /\ SettleInv)
<1>1. Init => TypeInv /\ SettleInv
  BY TypeInit, SettleInit
<1>2. TypeInv /\ SettleInv /\ [Next]_vars => (TypeInv /\ SettleInv)'
  BY TypeStep, SettleStep
<1>3. TypeInv /\ SettleInv => SettledMatches /\ SettleInv
  <2> SUFFICES ASSUME TypeInv, SettleInv, Settled
               PROVE  /\ \A app \in Apps \ late :
                           {k \in {calls[i].of : i \in Listed(activity)} : App(k) = app}
                               = {m \in manifests : App(m) = app}
                      /\ \A i, j \in Listed(activity) :
                           App(calls[i].of) = App(calls[j].of) => i = j
    BY DEF SettledMatches
  <2>1. loaded /\ loading = {} /\ \A x \in edits : x.kind = "event"
    BY DEF Settled, Started
  <2>2. \A k : Live(k) <=> k \in {calls[i].of : i \in Listed(activity)}
    BY DEF Live, Listed
  <2>3. \A k : Live(k) => k \in DOMAIN scanned
    BY CallFacts DEF Live
  <2>4. \A k : Live(k) /\ App(k) \notin late => k \in manifests
    BY <2>1, <2>3 DEF SettleInv, MatchInv, Late
  <2>5. \A k \in manifests : App(k) \notin late => Live(k)
    BY <2>1 DEF SettleInv, MatchInv, Late
  <2>6. \A i, j \in Listed(activity) : App(calls[i].of) = App(calls[j].of) => i = j
    BY DEF SettleInv, ListInv, Listed
  <2> QED BY <2>2, <2>4, <2>5, <2>6
<1> QED BY <1>1, <1>2, <1>3, PTL DEF Spec
=============================================================================
