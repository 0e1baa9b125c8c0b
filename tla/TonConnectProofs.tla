--------------------------- MODULE TonConnectProofs ---------------------------
(***************************************************************************)
(* The safety properties of TonConnect for any number of scans, events,    *)
(* calls and activities, and any number of places of the dispatcher.       *)
(***************************************************************************)
EXTENDS TonConnect, SequenceTheorems, FiniteSetTheorems, WellFoundedInduction, TLAPS

-----------------------------------------------------------------------------
(* Sequences of calls                                                      *)

\* The domain of a sequence, its elements and its length.
LEMMA Elements ==
    ASSUME NEW S, NEW s \in Seq(S)
    PROVE  /\ Len(s) \in Nat /\ DOMAIN s = 1..Len(s)
           /\ \A i \in DOMAIN s : s[i] \in S
BY LenProperties, ElementOfSeq

\* A function on the domain of a sequence is a sequence of the same length.
LEMMA Mapped ==
    ASSUME NEW S, NEW T, NEW s \in Seq(S), NEW f \in [DOMAIN s -> T]
    PROVE  f \in Seq(T) /\ Len(f) = Len(s) /\ DOMAIN f = DOMAIN s
<1>1. Len(s) \in Nat /\ DOMAIN s = 1..Len(s)
  BY LenProperties
<1>2. f \in [1..Len(s) -> T]
  BY <1>1
<1>3. f \in Seq(T)
  BY <1>1, <1>2, SeqDef
<1>4. Len(f) \in Nat /\ DOMAIN f = 1..Len(f)
  BY <1>3, LenProperties
<1>5. 1..Len(f) = 1..Len(s)
  BY <1>1, <1>2, <1>4
<1>6. Len(f) = Len(s)
  BY <1>1, <1>4, <1>5
<1> QED BY <1>3, <1>6, <1>2, <1>1

\* One more element.
LEMMA Appended ==
    ASSUME NEW S, NEW s \in Seq(S), NEW x \in S
    PROVE  /\ Append(s, x) \in Seq(S)
           /\ Len(Append(s, x)) = Len(s) + 1
           /\ DOMAIN Append(s, x) = 1..(Len(s) + 1)
           /\ Append(s, x)[Len(s) + 1] = x
           /\ \A i \in 1..Len(s) : Append(s, x)[i] = s[i]
BY AppendProperties, LenProperties

\* d is the call c, or c started by the dispatcher.
Dispatched(c, d) ==
    \/ d = c
    \/ c.phase = "queued" /\ d = [c EXCEPT !.phase = "running"]

LEMMA DispatchedFacts ==
    ASSUME NEW c \in Call, NEW d, Dispatched(c, d)
    PROVE  /\ d \in Call /\ d.kind = c.kind /\ d.of = c.of /\ d.activity = c.activity
           /\ d.listed = c.listed /\ d.last = c.last /\ d.event = c.event /\ d.stream = c.stream
           /\ d.phase = "done" <=> c.phase = "done"
           /\ c.phase = "running" => d.phase = "running"
BY DEF Dispatched, Call

\* The dispatcher leaves all of a call alone but its phase.
LEMMA DispatchFacts ==
    ASSUME NEW cs \in Seq(Call)
    PROVE  /\ Dispatch(cs) \in Seq(Call) /\ Len(Dispatch(cs)) = Len(cs)
           /\ DOMAIN Dispatch(cs) = DOMAIN cs
           /\ \A i \in DOMAIN cs : Dispatched(cs[i], Dispatch(cs)[i])
<1>1. \A i \in DOMAIN cs : cs[i] \in Call
  BY Elements
<1>2. \A i \in DOMAIN cs : Dispatched(cs[i], Dispatch(cs)[i])
  BY <1>1 DEF Dispatch, Dispatched
<1>3. \A i \in DOMAIN cs : Dispatch(cs)[i] \in Call
  BY <1>1, <1>2, DispatchedFacts
<1>4. Dispatch(cs) \in [DOMAIN cs -> Call]
  BY <1>3 DEF Dispatch
<1> QED BY <1>2, <1>4, Mapped

\* What making calls does.
LEMMA MakeFacts ==
    ASSUME NEW cs \in Seq(Call), NEW new \in Seq(Call), Make(cs, new)
    PROVE  /\ calls' \in Seq(Call) /\ Len(calls') = Len(cs) + Len(new)
           /\ Len(calls') <= MaxCalls
           /\ \A i \in 1..Len(cs) : Dispatched(cs[i], calls'[i])
           /\ \A i \in 1..Len(new) : Dispatched(new[i], calls'[Len(cs) + i])
<1>1. /\ cs \o new \in Seq(Call) /\ Len(cs \o new) = Len(cs) + Len(new)
      /\ \A i \in 1..Len(cs) + Len(new) :
           (cs \o new)[i] = IF i <= Len(cs) THEN cs[i] ELSE new[i - Len(cs)]
  BY ConcatProperties
<1>2. Len(cs) \in Nat /\ Len(new) \in Nat /\ DOMAIN (cs \o new) = 1..(Len(cs) + Len(new))
  BY <1>1, LenProperties
<1>3. calls' = Dispatch(cs \o new) /\ Len(cs) + Len(new) <= MaxCalls
  BY DEF Make
<1>4. /\ calls' \in Seq(Call) /\ Len(calls') = Len(cs) + Len(new)
      /\ \A i \in 1..(Len(cs) + Len(new)) : Dispatched((cs \o new)[i], calls'[i])
  BY <1>1, <1>2, <1>3, DispatchFacts
<1>5. \A i \in 1..Len(cs) : i \in 1..(Len(cs) + Len(new)) /\ (cs \o new)[i] = cs[i]
  BY <1>1, <1>2
<1>6. ASSUME NEW i \in 1..Len(new)
      PROVE  /\ Len(cs) + i \in 1..(Len(cs) + Len(new))
             /\ (cs \o new)[Len(cs) + i] = new[i]
  <2>1. Len(cs) + i \in 1..(Len(cs) + Len(new)) /\ ~(Len(cs) + i <= Len(cs))
        /\ (Len(cs) + i) - Len(cs) = i
    BY <1>2
  <2> QED BY <1>1, <2>1
<1> QED BY <1>3, <1>4, <1>5, <1>6

\* Destroying connections leaves the other calls alone.
LEMMA DestroyedFacts ==
    ASSUME NEW is, calls \in Seq(Call)
    PROVE  /\ Destroyed(is) \in Seq(Call) /\ Len(Destroyed(is)) = Len(calls)
           /\ DOMAIN Destroyed(is) = DOMAIN calls
           /\ \A i \in DOMAIN calls :
                Destroyed(is)[i] = IF i \in is
                    THEN [calls[i] EXCEPT !.phase = "done", !.listed = FALSE] ELSE calls[i]
<1>1. \A i \in DOMAIN calls : calls[i] \in Call
  BY Elements
<1>2. \A i \in DOMAIN calls : Destroyed(is)[i] \in Call
  BY <1>1 DEF Destroyed, Call
<1>3. Destroyed(is) \in [DOMAIN calls -> Call]
  BY <1>2 DEF Destroyed
<1>4. Destroyed(is) \in Seq(Call) /\ Len(Destroyed(is)) = Len(calls)
      /\ DOMAIN Destroyed(is) = DOMAIN calls
  BY <1>3, Mapped
<1> QED BY <1>4 DEF Destroyed

\* One call changed, others as they were.
LEMMA ChangedFacts ==
    ASSUME calls \in Seq(Call), NEW i \in DOMAIN calls, NEW c \in Call
    PROVE  LET cs == [calls EXCEPT ![i] = c]
           IN  /\ cs \in Seq(Call) /\ Len(cs) = Len(calls) /\ DOMAIN cs = DOMAIN calls
               /\ cs[i] = c /\ \A j \in DOMAIN calls : j # i => cs[j] = calls[j]
<1> DEFINE cs == [calls EXCEPT ![i] = c]
<1>1. cs \in [DOMAIN calls -> Call]
  BY Elements, LenProperties
<1>2. cs[i] = c /\ \A j \in DOMAIN calls : j # i => cs[j] = calls[j]
  OBVIOUS
<1>3. cs \in Seq(Call) /\ Len(cs) = Len(calls) /\ DOMAIN cs = DOMAIN calls
  BY <1>1, Mapped
<1> QED BY <1>2, <1>3
-----------------------------------------------------------------------------
(* Types                                                                   *)

\* What a call refers to.
CallInv(c) ==
    /\ c.of \in DOMAIN scanned
    /\ c.activity <= activity
    /\ c.last <= Len(log) /\ c.event <= Len(log)
    /\ c.kind # "stream" =>
         /\ ~c.listed /\ c.event = 0
         /\ c.stream \in DOMAIN calls
         /\ calls[c.stream].kind = "stream"
         /\ calls[c.stream].activity = c.activity

CallsInv == \A i \in DOMAIN calls : CallInv(calls[i])

EditInv(x) == x \in Edit /\ x.of \in DOMAIN scanned /\ x.event <= Len(log) /\ x.activity <= activity

LoadInv(x) == x.of \in DOMAIN scanned /\ x.last <= Len(log)

DeleteInv(d) ==
    /\ d \in [of : Connections, post : 0..MaxCalls]
    /\ d.of \in DOMAIN scanned
    /\ d.post # 0 => /\ d.post \in DOMAIN calls /\ calls[d.post].kind = "delete"
                     /\ calls[d.post].activity = activity

\* TypeOK with what the parts of the state refer to.
TypeInv ==
    /\ TypeOK
    /\ CallsInv
    /\ \A x \in edits : EditInv(x)
    /\ \A x \in loading : LoadInv(x)
    /\ \A d \in deleting : DeleteInv(d)
    /\ \A e \in DOMAIN log : log[e].of \in known

LEMMA TypeInit == Init => TypeInv
<1> SUFFICES ASSUME Init PROVE TypeInv
  OBVIOUS
<1>1. /\ <<>> \in Seq(Call) /\ <<>> \in Seq(Links)
      /\ <<>> \in Seq([of : Connections, ok : BOOLEAN])
      /\ Len(<<>>) = 0 /\ DOMAIN <<>> = {}
  BY EmptySeq
<1>2. /\ calls \in Seq(Call) /\ Len(calls) <= MaxCalls
      /\ scanned \in Seq(Links) /\ Len(scanned) <= MaxScans
      /\ log \in Seq([of : Connections, ok : BOOLEAN]) /\ Len(log) <= MaxEvents
  BY <1>1, TonConnectConstants DEF Init
<1>3. /\ lastEventId \in [Links -> 0..Len(log)] /\ activity \in Activities
      /\ manager \in 1..activity /\ sheet \in 0..Len(scanned)
  BY <1>1, TonConnectConstants DEF Init, Activities
<1> QED BY <1>1, <1>2, <1>3 DEF Init, TypeInv, TypeOK, CallsInv

\* The sequences of a typed state.
LEMMA TypedSeqs ==
    ASSUME TypeOK
    PROVE  /\ calls \in Seq(Call) /\ Len(calls) \in Nat /\ DOMAIN calls = 1..Len(calls)
           /\ \A i \in DOMAIN calls : calls[i] \in Call
           /\ scanned \in Seq(Links) /\ Len(scanned) \in Nat /\ DOMAIN scanned = 1..Len(scanned)
           /\ \A k \in DOMAIN scanned : scanned[k] \in Links /\ k \in Connections
           /\ log \in Seq([of : Connections, ok : BOOLEAN]) /\ Len(log) \in Nat
           /\ DOMAIN log = 1..Len(log)
           /\ \A e \in DOMAIN log : log[e] \in [of : Connections, ok : BOOLEAN]
                                      /\ e \in 0..MaxEvents
           /\ activity \in Nat /\ manager \in Nat /\ manager \in Activities
           /\ activity \in Activities
<1>1. /\ calls \in Seq(Call) /\ scanned \in Seq(Links) /\ Len(scanned) <= MaxScans
      /\ log \in Seq([of : Connections, ok : BOOLEAN]) /\ Len(log) <= MaxEvents
      /\ activity \in Activities /\ manager \in 1..activity
  BY DEF TypeOK
<1>2. /\ Len(calls) \in Nat /\ DOMAIN calls = 1..Len(calls)
      /\ \A i \in DOMAIN calls : calls[i] \in Call
  BY <1>1, Elements
<1>3. /\ Len(scanned) \in Nat /\ DOMAIN scanned = 1..Len(scanned)
      /\ \A k \in DOMAIN scanned : scanned[k] \in Links
  BY <1>1, Elements
<1>4. /\ Len(log) \in Nat /\ DOMAIN log = 1..Len(log)
      /\ \A e \in DOMAIN log : log[e] \in [of : Connections, ok : BOOLEAN]
  BY <1>1, Elements
<1>5. \A k \in DOMAIN scanned : k \in Connections
  BY <1>1, <1>3, TonConnectConstants DEF Connections
<1>6. \A e \in DOMAIN log : e \in 0..MaxEvents
  BY <1>1, <1>4, TonConnectConstants
<1>7. activity \in Nat /\ manager \in Nat /\ manager \in Activities
  BY <1>1, TonConnectConstants DEF Activities
<1> QED BY <1>1, <1>2, <1>3, <1>4, <1>5, <1>6, <1>7

\* A stream and a post are calls.
LEMMA NewCallTypes ==
    ASSUME TypeOK, NEW k \in DOMAIN scanned, NEW a \in Activities, NEW n \in 0..MaxEvents,
           NEW l \in BOOLEAN, NEW s \in 0..MaxCalls,
           NEW kind \in {"approve", "reject", "delete"}
    PROVE  Stream(k, a, n, l) \in Call /\ Post(kind, k, a, s) \in Call
<1>1. k \in Connections
  BY TypedSeqs
<1>2. 0 \in 0..MaxEvents /\ 0 \in 0..MaxCalls
  BY TonConnectConstants
<1> QED BY <1>1, <1>2 DEF Stream, Post, Call

\* Making one call, and making a stream and a post for it.
LEMMA MakeOne ==
    ASSUME NEW cs \in Seq(Call), NEW c \in Call, Make(cs, <<c>>)
    PROVE  /\ calls' \in Seq(Call) /\ Len(calls') = Len(cs) + 1 /\ Len(calls') <= MaxCalls
           /\ \A i \in 1..Len(cs) : Dispatched(cs[i], calls'[i])
           /\ Dispatched(c, calls'[Len(cs) + 1])
<1> DEFINE new == <<c>>
<1>1. new \in Seq(Call) /\ Len(new) = 1 /\ new[1] = c
  OBVIOUS
<1>2. Make(cs, new)
  OBVIOUS
<1> HIDE DEF new
<1>3. /\ calls' \in Seq(Call) /\ Len(calls') = Len(cs) + Len(new) /\ Len(calls') <= MaxCalls
      /\ \A i \in 1..Len(cs) : Dispatched(cs[i], calls'[i])
      /\ \A i \in 1..Len(new) : Dispatched(new[i], calls'[Len(cs) + i])
  BY <1>1, <1>2, MakeFacts
<1>4. 1 \in 1..Len(new)
  BY <1>1
<1>5. Dispatched(new[1], calls'[Len(cs) + 1])
  BY <1>3, <1>4
<1> QED BY <1>1, <1>3, <1>5

LEMMA MakeTwo ==
    ASSUME NEW cs \in Seq(Call), NEW c \in Call, NEW d \in Call, Make(cs, <<c, d>>)
    PROVE  /\ calls' \in Seq(Call) /\ Len(calls') = Len(cs) + 2 /\ Len(calls') <= MaxCalls
           /\ \A i \in 1..Len(cs) : Dispatched(cs[i], calls'[i])
           /\ Dispatched(c, calls'[Len(cs) + 1])
           /\ Dispatched(d, calls'[Len(cs) + 2])
<1> DEFINE new == <<c, d>>
<1>1. new \in Seq(Call) /\ Len(new) = 2 /\ new[1] = c /\ new[2] = d
  OBVIOUS
<1>2. Make(cs, new)
  OBVIOUS
<1> HIDE DEF new
<1>3. /\ calls' \in Seq(Call) /\ Len(calls') = Len(cs) + Len(new) /\ Len(calls') <= MaxCalls
      /\ \A i \in 1..Len(cs) : Dispatched(cs[i], calls'[i])
      /\ \A i \in 1..Len(new) : Dispatched(new[i], calls'[Len(cs) + i])
  BY <1>1, <1>2, MakeFacts
<1>4. 1 \in 1..Len(new) /\ 2 \in 1..Len(new)
  BY <1>1
<1>5. Dispatched(new[1], calls'[Len(cs) + 1]) /\ Dispatched(new[2], calls'[Len(cs) + 2])
  BY <1>3, <1>4
<1> QED BY <1>1, <1>3, <1>5

\* Old calls keep what they refer to.
Kept(c, d) ==
    /\ d.kind = c.kind /\ d.of = c.of /\ d.activity = c.activity /\ d.stream = c.stream
    /\ d.listed => c.listed
    /\ c.phase = "done" => d.phase = "done"
    /\ d.last = c.last \/ d.last \in DOMAIN log
    /\ d.event \in {0, c.event} \/ (c.kind = "stream" /\ d.event \in DOMAIN log)

\* The calls of a step: old ones are kept, new ones refer to what there is.
CallsKept ==
    /\ calls' \in Seq(Call) /\ Len(calls') <= MaxCalls /\ Len(calls) <= Len(calls')
    /\ \A i \in 1..Len(calls) : Kept(calls[i], calls'[i])

LEMMA KeptChain ==
    ASSUME NEW c \in Call, NEW d \in Call, NEW e, Kept(c, d), Dispatched(d, e)
    PROVE  Kept(c, e)
BY DispatchedFacts DEF Kept

\* A call that is destroyed, or done, is kept.
LEMMA KeptSelf ==
    ASSUME NEW c \in Call
    PROVE  /\ Kept(c, c)
           /\ Kept(c, [c EXCEPT !.phase = "done", !.listed = FALSE])
           /\ Kept(c, [c EXCEPT !.phase = "done"])
<1>1. Kept(c, c)
  BY DEF Kept
<1>2. ASSUME NEW d \in Call, d.kind = c.kind, d.of = c.of, d.activity = c.activity,
             d.stream = c.stream, d.last = c.last, d.event = c.event, d.phase = "done",
             d.listed => c.listed
      PROVE  Kept(c, d)
  BY <1>2 DEF Kept
<1>3. Kept(c, [c EXCEPT !.phase = "done", !.listed = FALSE])
  <2> DEFINE d == [c EXCEPT !.phase = "done", !.listed = FALSE]
  <2>1. /\ d \in Call /\ d.kind = c.kind /\ d.of = c.of /\ d.activity = c.activity
        /\ d.stream = c.stream /\ d.last = c.last /\ d.event = c.event /\ d.phase = "done"
        /\ ~d.listed
    BY DEF Call
  <2> QED BY <1>2, <2>1
<1>4. Kept(c, [c EXCEPT !.phase = "done"])
  <2> DEFINE d == [c EXCEPT !.phase = "done"]
  <2>1. /\ d \in Call /\ d.kind = c.kind /\ d.of = c.of /\ d.activity = c.activity
        /\ d.stream = c.stream /\ d.last = c.last /\ d.event = c.event /\ d.phase = "done"
        /\ (d.listed <=> c.listed)
    BY DEF Call
  <2> QED BY <1>2, <2>1
<1> QED BY <1>1, <1>3, <1>4

LEMMA KeptInv ==
    ASSUME TypeInv, CallsKept, Len(scanned) <= Len(scanned'), Len(log) <= Len(log'),
           Len(scanned') \in Nat, Len(log') \in Nat,
           DOMAIN scanned' = 1..Len(scanned'), activity <= activity', activity' \in Nat
    PROVE  \A i \in 1..Len(calls) : CallInv(calls[i])'
<1> SUFFICES ASSUME NEW i \in 1..Len(calls) PROVE CallInv(calls[i])'
  OBVIOUS
<1> DEFINE c == calls[i]
           d == calls'[i]
<1>1. TypeOK
  BY DEF TypeInv
<1>2. c \in Call /\ CallInv(c) /\ Kept(c, d) /\ i \in DOMAIN calls
  BY <1>1, TypedSeqs DEF TypeInv, CallsInv, CallsKept
<1>3. /\ DOMAIN calls = 1..Len(calls) /\ DOMAIN calls' = 1..Len(calls')
      /\ Len(calls) \in Nat /\ Len(calls') \in Nat /\ calls' \in Seq(Call)
      /\ \A j \in DOMAIN calls' : calls'[j] \in Call
  BY <1>1, TypedSeqs, Elements DEF CallsKept
<1>4. DOMAIN calls \subseteq DOMAIN calls'
  BY <1>3 DEF CallsKept
<1>5. /\ Len(log) \in Nat /\ DOMAIN log = 1..Len(log) /\ activity \in Nat
      /\ DOMAIN scanned = 1..Len(scanned) /\ Len(scanned) \in Nat
  BY <1>1, TypedSeqs
<1>6. c.of \in DOMAIN scanned /\ c.activity \in Nat /\ c.last \in Nat /\ c.event \in Nat
      /\ c.activity <= activity /\ c.last <= Len(log) /\ c.event <= Len(log)
  BY <1>2 DEF CallInv, Call, Activities
<1>7. d.of = c.of /\ d.activity = c.activity /\ d.last <= Len(log) /\ d.last \in Nat
      /\ d.event <= Len(log) /\ d.event \in Nat
  BY <1>2, <1>5, <1>6 DEF Kept
<1>8. d.of \in DOMAIN scanned' /\ d.activity <= activity' /\ d.last <= Len(log')
      /\ d.event <= Len(log')
  BY <1>5, <1>6, <1>7
<1>9. ASSUME d.kind # "stream"
      PROVE  /\ ~d.listed /\ d.event = 0 /\ d.stream \in DOMAIN calls'
             /\ calls'[d.stream].kind = "stream"
             /\ calls'[d.stream].activity = d.activity
  <2>1. /\ c.kind # "stream" /\ ~c.listed /\ c.event = 0 /\ c.stream \in DOMAIN calls
        /\ calls[c.stream].kind = "stream" /\ calls[c.stream].activity = c.activity
    BY <1>2, <1>9 DEF Kept, CallInv
  <2>2. Kept(calls[c.stream], calls'[c.stream])
    BY <2>1, <1>3 DEF CallsKept
  <2>3. d.stream = c.stream /\ d.event = 0
    BY <1>2, <2>1 DEF Kept
  <2>4. d.listed => c.listed
    BY <1>2 DEF Kept
  <2>5. calls'[c.stream].kind = "stream" /\ calls'[c.stream].activity = c.activity
    BY <2>1, <2>2 DEF Kept
  <2> QED BY <2>1, <2>3, <2>4, <2>5, <1>4, <1>7
<1> QED BY <1>8, <1>9 DEF CallInv

\* The step of an action that leaves the activity, the links and the events alone.
LEMMA StepTyped ==
    ASSUME TypeInv, CallsKept, CallsInv', UNCHANGED <<scanned, log, activity>>,
           manager' \in 1..activity, manifests' \subseteq DOMAIN scanned,
           lastEventId' \in [Links -> 0..Len(log)],
           \A x \in edits' : EditInv(x),
           loaded' \in BOOLEAN, late' \subseteq Apps,
           loading' \subseteq [of : Connections, read : BOOLEAN, last : 0..MaxEvents],
           \A x \in loading' : LoadInv(x),
           \A d \in deleting' : DeleteInv(d) \/ DeleteInv(d)',
           sheet' \in 0..Len(scanned), approving' \subseteq DOMAIN scanned,
           success' \in BOOLEAN, known \subseteq known', known' \subseteq DOMAIN scanned,
           handled' \subseteq DOMAIN log, interrupted' \subseteq DOMAIN log
    PROVE  TypeInv'
<1>1. TypeOK
  BY DEF TypeInv
<1>2. /\ DOMAIN calls = 1..Len(calls) /\ DOMAIN calls' = 1..Len(calls')
      /\ Len(calls) \in Nat /\ Len(calls') \in Nat
  BY <1>1, TypedSeqs, Elements DEF CallsKept
<1>3. ASSUME NEW d \in deleting' PROVE DeleteInv(d)'
  <2> SUFFICES ASSUME DeleteInv(d) PROVE DeleteInv(d)'
    OBVIOUS
  <2>1. ASSUME d.post # 0
        PROVE  /\ d.post \in DOMAIN calls' /\ calls'[d.post].kind = "delete"
               /\ calls'[d.post].activity = activity
    <3>1. /\ d.post \in 1..Len(calls) /\ calls[d.post].kind = "delete"
          /\ calls[d.post].activity = activity
      BY <1>2, <2>1 DEF DeleteInv
    <3>2. Kept(calls[d.post], calls'[d.post]) /\ d.post \in 1..Len(calls')
      BY <1>2, <3>1 DEF CallsKept
    <3> QED BY <1>2, <3>1, <3>2 DEF Kept
  <2> QED BY <2>1 DEF DeleteInv
<1>4. deleting' \subseteq [of : Connections, post : 0..MaxCalls]
  BY <1>3 DEF DeleteInv
<1>5. edits' \subseteq Edit
  BY DEF EditInv
<1>6. /\ activity' \in Activities /\ manager' \in 1..activity'
      /\ scanned' \in Seq(Links) /\ Len(scanned') <= MaxScans
      /\ log' \in Seq([of : Connections, ok : BOOLEAN]) /\ Len(log') <= MaxEvents
  BY <1>1 DEF TypeOK
<1>7. calls' \in Seq(Call) /\ Len(calls') <= MaxCalls
  BY DEF CallsKept
<1>8. TypeOK'
  BY <1>4, <1>5, <1>6, <1>7 DEF TypeOK
<1>9. \A e \in DOMAIN log' : log'[e].of \in known'
  BY DEF TypeInv
<1>10. (\A x \in edits : EditInv(x))' /\ (\A x \in loading : LoadInv(x))'
  BY DEF EditInv, LoadInv
<1> QED BY <1>3, <1>8, <1>9, <1>10 DEF TypeInv

\* The calls after a step that makes none.
LEMMA OldCalls ==
    ASSUME TypeInv, calls' \in Seq(Call), Len(calls') = Len(calls),
           \A i \in DOMAIN calls : Kept(calls[i], calls'[i]),
           UNCHANGED <<scanned, log, activity>>
    PROVE  CallsKept /\ CallsInv'
<1>1. TypeOK
  BY DEF TypeInv
<1>2. /\ DOMAIN calls = 1..Len(calls) /\ Len(calls) \in Nat /\ Len(calls) <= MaxCalls
      /\ DOMAIN calls' = 1..Len(calls')
      /\ DOMAIN scanned = 1..Len(scanned) /\ Len(scanned) \in Nat /\ Len(log) \in Nat
      /\ activity \in Nat
  BY <1>1, TypedSeqs, Elements DEF TypeOK
<1>3. CallsKept
  BY <1>2 DEF CallsKept
<1>4. \A i \in 1..Len(calls) : CallInv(calls[i])'
  BY <1>2, <1>3, KeptInv
<1>5. DOMAIN calls' = 1..Len(calls)
  BY <1>2
<1> QED BY <1>3, <1>4, <1>5 DEF CallsInv

LEMMA SameCalls ==
    ASSUME TypeInv, UNCHANGED <<calls, scanned, log, activity>>
    PROVE  CallsKept /\ CallsInv'
<1>1. TypeOK
  BY DEF TypeInv
<1>2. calls \in Seq(Call) /\ \A i \in DOMAIN calls : calls[i] \in Call
  BY <1>1, TypedSeqs
<1>3. \A i \in DOMAIN calls : Kept(calls[i], calls'[i])
  BY <1>2, KeptSelf
<1> QED BY <1>2, <1>3, OldCalls

\* The dispatcher's turn after some calls were changed.
LEMMA DispatchedCalls ==
    ASSUME TypeInv, NEW cs \in Seq(Call), Len(cs) = Len(calls),
           \A i \in DOMAIN calls : Kept(calls[i], cs[i]),
           calls' = Dispatch(cs), UNCHANGED <<scanned, log, activity>>
    PROVE  CallsKept /\ CallsInv'
<1>1. TypeOK
  BY DEF TypeInv
<1>2. /\ calls \in Seq(Call) /\ \A i \in DOMAIN calls : calls[i] \in Call
      /\ DOMAIN calls = DOMAIN cs /\ \A i \in DOMAIN calls : cs[i] \in Call
  BY <1>1, TypedSeqs, Elements
<1>3. /\ calls' \in Seq(Call) /\ Len(calls') = Len(cs)
      /\ \A i \in DOMAIN calls : Dispatched(cs[i], calls'[i])
  BY <1>2, DispatchFacts
<1>4. \A i \in DOMAIN calls : Kept(calls[i], calls'[i])
  BY <1>2, <1>3, KeptChain
<1> QED BY <1>3, <1>4, OldCalls

\* The calls after calls were made: old ones are kept, and the new ones may be
\* looked at by themselves.
LEMMA MadeCalls ==
    ASSUME TypeInv, NEW cs \in Seq(Call), Len(cs) = Len(calls),
           \A i \in DOMAIN calls : Kept(calls[i], cs[i]),
           calls' \in Seq(Call), Len(calls') <= MaxCalls, Len(calls) <= Len(calls'),
           \A i \in 1..Len(cs) : Dispatched(cs[i], calls'[i]),
           UNCHANGED <<scanned, log, activity>>,
           \A i \in DOMAIN calls' : i > Len(calls) => CallInv(calls[i])'
    PROVE  CallsKept /\ CallsInv'
<1>1. TypeOK
  BY DEF TypeInv
<1>2. /\ DOMAIN calls = 1..Len(calls) /\ \A i \in DOMAIN calls : calls[i] \in Call
      /\ DOMAIN calls = DOMAIN cs /\ \A i \in DOMAIN calls : cs[i] \in Call
      /\ DOMAIN scanned = 1..Len(scanned) /\ Len(scanned) \in Nat /\ Len(log) \in Nat
      /\ activity \in Nat /\ Len(calls) \in Nat
      /\ DOMAIN calls' = 1..Len(calls') /\ Len(calls') \in Nat
  BY <1>1, TypedSeqs, Elements
<1>3. \A i \in 1..Len(calls) : Kept(calls[i], calls'[i])
  BY <1>2, KeptChain
<1>4. CallsKept
  BY <1>3 DEF CallsKept
<1>5. \A i \in 1..Len(calls) : CallInv(calls[i])'
  BY <1>2, <1>4, KeptInv
<1>6. \A i \in DOMAIN calls' : i \in 1..Len(calls) \/ i > Len(calls)
  BY <1>2
<1> QED BY <1>4, <1>5, <1>6 DEF CallsInv

\* A stream is opened.
LEMMA MadeStream ==
    ASSUME TypeInv, NEW cs \in Seq(Call), Len(cs) = Len(calls),
           \A i \in DOMAIN calls : Kept(calls[i], cs[i]),
           NEW k \in DOMAIN scanned, NEW a \in 1..activity, NEW n \in 0..Len(log),
           NEW l \in BOOLEAN, Make(cs, <<Stream(k, a, n, l)>>),
           UNCHANGED <<scanned, log, activity>>
    PROVE  /\ CallsKept /\ CallsInv' /\ Len(calls') = Len(calls) + 1
           /\ Dispatched(Stream(k, a, n, l), calls'[Len(calls) + 1])
           /\ \A i \in DOMAIN calls : Dispatched(cs[i], calls'[i])
<1> DEFINE c == Stream(k, a, n, l)
<1>1. TypeOK
  BY DEF TypeInv
<1>2. /\ Len(calls) \in Nat /\ Len(log) \in Nat /\ Len(log) <= MaxEvents /\ activity \in Activities
      /\ DOMAIN calls = 1..Len(calls)
  BY <1>1, TypedSeqs DEF TypeOK
<1>3. a \in Activities /\ n \in 0..MaxEvents /\ 0 \in 0..MaxCalls
  BY <1>2, TonConnectConstants DEF Activities
<1>4. c \in Call
  BY <1>1, <1>3, NewCallTypes
<1>5. /\ c.kind = "stream" /\ c.of = k /\ c.activity = a /\ c.last = n /\ c.event = 0
  BY DEF Stream
<1> HIDE DEF c
<1>6. /\ calls' \in Seq(Call) /\ Len(calls') = Len(calls) + 1 /\ Len(calls') <= MaxCalls
      /\ \A i \in 1..Len(cs) : Dispatched(cs[i], calls'[i])
      /\ Dispatched(c, calls'[Len(calls) + 1])
  BY <1>4, MakeOne DEF c
<1>7. ASSUME NEW i \in DOMAIN calls', i > Len(calls) PROVE CallInv(calls[i])'
  <2>1. i = Len(calls) + 1
    BY <1>2, <1>6, <1>7, Elements
  <2>2. /\ calls'[i].kind = "stream" /\ calls'[i].of = k /\ calls'[i].activity = a
        /\ calls'[i].last = n /\ calls'[i].event = 0
    BY <1>4, <1>5, <1>6, <2>1, DispatchedFacts
  <2>3. calls'[i].activity <= activity /\ calls'[i].last <= Len(log) /\ calls'[i].event <= Len(log)
    BY <2>2, <1>2
  <2> QED BY <2>2, <2>3 DEF CallInv
<1>8. CallsKept /\ CallsInv'
  BY <1>2, <1>6, <1>7, MadeCalls
<1> QED BY <1>2, <1>6, <1>8 DEF c

\* A post refers to a stream there is already.
LEMMA MadePost ==
    ASSUME TypeInv, NEW kind \in {"approve", "reject", "delete"}, NEW k \in DOMAIN scanned,
           NEW j \in DOMAIN calls, calls[j].kind = "stream",
           Make(calls, <<Post(kind, k, calls[j].activity, j)>>),
           UNCHANGED <<scanned, log, activity>>
    PROVE  /\ CallsKept /\ CallsInv' /\ Len(calls') = Len(calls) + 1
           /\ Dispatched(Post(kind, k, calls[j].activity, j), calls'[Len(calls) + 1])
           /\ \A i \in DOMAIN calls : Dispatched(calls[i], calls'[i])
<1> DEFINE c == Post(kind, k, calls[j].activity, j)
<1>1. TypeOK
  BY DEF TypeInv
<1>2. /\ Len(calls) \in Nat /\ Len(log) \in Nat /\ activity \in Nat
      /\ DOMAIN calls = 1..Len(calls) /\ Len(calls) <= MaxCalls /\ calls \in Seq(Call)
      /\ calls[j] \in Call /\ CallInv(calls[j])
      /\ \A i \in DOMAIN calls : calls[i] \in Call
  BY <1>1, TypedSeqs DEF TypeOK, TypeInv, CallsInv
<1>3. calls[j].activity \in Activities /\ j \in 0..MaxCalls /\ calls[j].activity <= activity
  BY <1>2, TonConnectConstants DEF Call, CallInv
<1>4. c \in Call
  <2>1. 0 \in 0..MaxEvents
    BY TonConnectConstants
  <2> QED BY <1>1, <1>3, <2>1, NewCallTypes
<1>5. /\ c.kind = kind /\ c.of = k /\ c.activity = calls[j].activity /\ c.last = 0
      /\ c.event = 0 /\ ~c.listed /\ c.stream = j
  BY DEF Post
<1> HIDE DEF c
<1>6. /\ calls' \in Seq(Call) /\ Len(calls') = Len(calls) + 1 /\ Len(calls') <= MaxCalls
      /\ \A i \in 1..Len(calls) : Dispatched(calls[i], calls'[i])
      /\ Dispatched(c, calls'[Len(calls) + 1])
  BY <1>2, <1>4, MakeOne DEF c
<1>7. ASSUME NEW i \in DOMAIN calls', i > Len(calls) PROVE CallInv(calls[i])'
  <2>1. i = Len(calls) + 1 /\ DOMAIN calls' = 1..Len(calls')
    BY <1>2, <1>6, <1>7, Elements
  <2>2. /\ calls'[i].kind = kind /\ calls'[i].of = k /\ calls'[i].activity = calls[j].activity
        /\ calls'[i].last = 0 /\ calls'[i].event = 0 /\ ~calls'[i].listed
        /\ calls'[i].stream = j
    BY <1>4, <1>5, <1>6, <2>1, DispatchedFacts
  <2>3. calls'[i].activity <= activity /\ calls'[i].last <= Len(log) /\ calls'[i].event <= Len(log)
    BY <2>2, <1>2, <1>3
  <2>4. /\ j \in DOMAIN calls' /\ calls'[j].kind = "stream"
        /\ calls'[j].activity = calls[j].activity
    BY <1>2, <1>6, <2>1, DispatchedFacts
  <2> QED BY <2>2, <2>3, <2>4 DEF CallInv
<1>8. \A i \in DOMAIN calls : Kept(calls[i], calls[i])
  BY <1>2, KeptSelf
<1>9. CallsKept /\ CallsInv'
  BY <1>2, <1>6, <1>7, <1>8, MadeCalls
<1> QED BY <1>2, <1>6, <1>9 DEF c

\* A stream is opened, and a message posted over its connection.
LEMMA MadeBoth ==
    ASSUME TypeInv, NEW cs \in Seq(Call), Len(cs) = Len(calls),
           \A i \in DOMAIN calls : Kept(calls[i], cs[i]),
           NEW kind \in {"approve", "reject", "delete"},
           NEW k \in DOMAIN scanned, NEW a \in 1..activity, NEW l \in BOOLEAN,
           Make(cs, <<Stream(k, a, 0, l), Post(kind, k, a, Len(calls) + 1)>>),
           UNCHANGED <<scanned, log, activity>>
    PROVE  /\ CallsKept /\ CallsInv' /\ Len(calls') = Len(calls) + 2
           /\ Dispatched(Stream(k, a, 0, l), calls'[Len(calls) + 1])
           /\ Dispatched(Post(kind, k, a, Len(calls) + 1), calls'[Len(calls) + 2])
           /\ \A i \in DOMAIN calls : Dispatched(cs[i], calls'[i])
<1> DEFINE c == Stream(k, a, 0, l)
           d == Post(kind, k, a, Len(calls) + 1)
<1>1. TypeOK
  BY DEF TypeInv
<1>2. /\ Len(calls) \in Nat /\ Len(log) \in Nat /\ Len(log) <= MaxEvents /\ activity \in Activities
      /\ DOMAIN calls = 1..Len(calls)
  BY <1>1, TypedSeqs DEF TypeOK
<1>3. <<c, d>> \in Seq({c, d}) /\ Len(<<c, d>>) = 2
  OBVIOUS
<1>4. Len(calls) + 1 \in 0..MaxCalls
  BY <1>2, TonConnectConstants DEF Make
<1>5. a \in Activities /\ 0 \in 0..MaxEvents
  BY <1>2, TonConnectConstants DEF Activities
<1>6. c \in Call /\ d \in Call
  BY <1>1, <1>4, <1>5, NewCallTypes
<1>7. /\ c.kind = "stream" /\ c.of = k /\ c.activity = a /\ c.last = 0 /\ c.event = 0
      /\ d.kind = kind /\ d.of = k /\ d.activity = a /\ d.last = 0 /\ d.event = 0
      /\ ~d.listed /\ d.stream = Len(calls) + 1
  BY DEF Stream, Post
<1> HIDE DEF c, d
<1>8. /\ calls' \in Seq(Call) /\ Len(calls') = Len(calls) + 2 /\ Len(calls') <= MaxCalls
      /\ \A i \in 1..Len(cs) : Dispatched(cs[i], calls'[i])
      /\ Dispatched(c, calls'[Len(calls) + 1]) /\ Dispatched(d, calls'[Len(calls) + 2])
  BY <1>6, MakeTwo DEF c, d
<1>9. /\ DOMAIN calls' = 1..Len(calls')
      /\ \A i \in DOMAIN calls' : i > Len(calls) => i = Len(calls) + 1 \/ i = Len(calls) + 2
  BY <1>2, <1>8, Elements
<1>10. ASSUME NEW i \in DOMAIN calls', i = Len(calls) + 1 PROVE CallInv(calls[i])'
  <2>1. /\ calls'[i].kind = "stream" /\ calls'[i].of = k /\ calls'[i].activity = a
        /\ calls'[i].last = 0 /\ calls'[i].event = 0
    BY <1>6, <1>7, <1>8, <1>10, DispatchedFacts
  <2>2. calls'[i].activity <= activity /\ calls'[i].last <= Len(log) /\ calls'[i].event <= Len(log)
    BY <2>1, <1>2
  <2> QED BY <2>1, <2>2 DEF CallInv
<1>11. ASSUME NEW i \in DOMAIN calls', i = Len(calls) + 2 PROVE CallInv(calls[i])'
  <2>1. /\ calls'[i].kind = kind /\ calls'[i].of = k /\ calls'[i].activity = a
        /\ calls'[i].last = 0 /\ calls'[i].event = 0 /\ ~calls'[i].listed
        /\ calls'[i].stream = Len(calls) + 1
    BY <1>6, <1>7, <1>8, <1>11, DispatchedFacts
  <2>2. calls'[i].activity <= activity /\ calls'[i].last <= Len(log) /\ calls'[i].event <= Len(log)
    BY <2>1, <1>2
  <2>3. /\ calls'[i].stream \in DOMAIN calls'
        /\ calls'[calls'[i].stream].kind = "stream"
        /\ calls'[calls'[i].stream].activity = a
    BY <2>1, <1>2, <1>6, <1>7, <1>8, <1>9, DispatchedFacts
  <2> QED BY <2>1, <2>2, <2>3 DEF CallInv
<1>12. \A i \in DOMAIN calls' : i > Len(calls) => CallInv(calls[i])'
  BY <1>9, <1>10, <1>11
<1>13. Len(calls) <= Len(calls')
  BY <1>2, <1>8
<1>14. CallsKept /\ CallsInv'
  BY <1>8, <1>12, <1>13, MadeCalls, SMTT(60)
<1> QED BY <1>2, <1>8, <1>14 DEF c, d

\* Destroyed connections are kept as calls.
LEMMA DestroyedKept ==
    ASSUME TypeInv, NEW is
    PROVE  /\ Destroyed(is) \in Seq(Call) /\ Len(Destroyed(is)) = Len(calls)
           /\ \A i \in DOMAIN calls : Kept(calls[i], Destroyed(is)[i])
<1>1. calls \in Seq(Call) /\ \A i \in DOMAIN calls : calls[i] \in Call
  BY TypedSeqs DEF TypeInv
<1>2. /\ Destroyed(is) \in Seq(Call) /\ Len(Destroyed(is)) = Len(calls)
      /\ \A i \in DOMAIN calls :
           Destroyed(is)[i] = IF i \in is
               THEN [calls[i] EXCEPT !.phase = "done", !.listed = FALSE] ELSE calls[i]
  BY <1>1, DestroyedFacts
<1>3. \A i \in DOMAIN calls : Kept(calls[i], Destroyed(is)[i])
  BY <1>1, <1>2, KeptSelf
<1> QED BY <1>2, <1>3

\* The parts of TypeInv that most steps leave alone.
LEMMA Parts ==
    ASSUME TypeInv
    PROVE  /\ manager \in 1..activity /\ manifests \subseteq DOMAIN scanned
           /\ lastEventId \in [Links -> 0..Len(log)] /\ \A x \in edits : EditInv(x)
           /\ loaded \in BOOLEAN /\ late \subseteq Apps
           /\ loading \subseteq [of : Connections, read : BOOLEAN, last : 0..MaxEvents]
           /\ \A x \in loading : LoadInv(x)
           /\ \A d \in deleting : DeleteInv(d)
           /\ sheet \in 0..Len(scanned) /\ approving \subseteq DOMAIN scanned
           /\ success \in BOOLEAN /\ known \subseteq DOMAIN scanned
           /\ handled \subseteq DOMAIN log /\ interrupted \subseteq DOMAIN log
BY DEF TypeInv, TypeOK

\* What is launched refers to what there is.
LEMMA LaunchedTypes ==
    ASSUME TypeInv, NEW kind \in {"event", "save", "delete"}, NEW k \in DOMAIN scanned,
           NEW e \in 0..Len(log), NEW a \in 1..activity
    PROVE  \A x \in Launched(kind, k, e, a) :
             EditInv(x) /\ x.kind = kind /\ x.of = k /\ x.event = e /\ x.activity = a
<1>1. TypeOK
  BY DEF TypeInv
<1>2. /\ k \in Connections /\ Len(log) \in Nat /\ Len(log) <= MaxEvents /\ activity \in Activities
  BY <1>1, TypedSeqs DEF TypeOK
<1>3. e \in 0..MaxEvents /\ a \in Activities /\ e <= Len(log) /\ a <= activity
  BY <1>2, TonConnectConstants DEF Activities
<1>4. [kind |-> kind, of |-> k, event |-> e, activity |-> a] \in Edit
  BY <1>2, <1>3 DEF Edit
<1> QED BY <1>3, <1>4 DEF Launched, EditInv

LEMMA WriteTyped == ASSUME TypeInv, NEW x \in edits, Write(x) PROVE TypeInv'
<1>1. /\ UNCHANGED <<process, bridge, history>> /\ edits' = edits \ {x}
      /\ SaveLastEventId(x) \/ SaveManifest(x) \/ DeleteConnection(x)
  BY DEF Write
<1>2. CallsKept /\ CallsInv'
  BY <1>1, SameCalls DEF process, bridge
<1>3. EditInv(x) /\ TypeOK
  BY Parts DEF TypeInv
<1>4. x.of \in DOMAIN scanned /\ x.event \in 0..Len(log) /\ scanned[x.of] \in Links
      /\ 0 \in 0..Len(log)
  BY <1>3, TypedSeqs DEF EditInv, Edit
<1>5. lastEventId' \in [Links -> 0..Len(log)]
  BY <1>1, <1>4, Parts DEF SaveLastEventId, SaveManifest, DeleteConnection
<1>6. manifests' \subseteq DOMAIN scanned
  BY <1>1, <1>4, Parts DEF SaveLastEventId, SaveManifest, DeleteConnection
<1>7. /\ UNCHANGED <<activity, manager, loaded, loading, late, deleting, sheet, approving, success>>
      /\ UNCHANGED <<scanned, known, log, handled, interrupted>>
      /\ edits' \subseteq edits
  BY <1>1 DEF process, start, request, bridge, history
<1> QED BY <1>2, <1>5, <1>6, <1>7, Parts, StepTyped

LEMMA InitLoadTyped == ASSUME TypeInv, InitLoad PROVE TypeInv'
<1>1. CallsKept /\ CallsInv'
  BY SameCalls DEF InitLoad, bridge
<1>2. TypeOK /\ 0 \in 0..MaxEvents
  BY TonConnectConstants DEF TypeInv
<1>3. Len(log) \in Nat /\ \A k \in DOMAIN scanned : k \in Connections
  BY <1>2, TypedSeqs
<1>4. \A x \in loading' : \E m \in manifests : x = [of |-> m, read |-> FALSE, last |-> 0]
  BY DEF InitLoad
<1>5. \A m \in manifests : /\ m \in DOMAIN scanned /\ m \in Connections
  BY <1>3, Parts
<1>6. ASSUME NEW x \in loading'
      PROVE  x \in [of : Connections, read : BOOLEAN, last : 0..MaxEvents] /\ LoadInv(x)
  <2>1. PICK m \in manifests : x = [of |-> m, read |-> FALSE, last |-> 0]
    BY <1>4
  <2>2. x \in [of : Connections, read : BOOLEAN, last : 0..MaxEvents]
    BY <2>1, <1>2, <1>5
  <2>3. x.of = m /\ x.last = 0
    BY <2>1
  <2> QED BY <2>2, <2>3, <1>3, <1>5 DEF LoadInv
<1>7. loaded' \in BOOLEAN /\ late' \subseteq Apps
  <2>1. \A x \in edits : x.of \in DOMAIN scanned /\ scanned[x.of] \in Links
    BY <1>2, TypedSeqs, Parts DEF EditInv
  <2>2. \A x \in edits : App(x.of) \in Apps
    BY <2>1, TonConnectConstants DEF App
  <2> QED BY <2>2 DEF InitLoad
<1> QED
  BY <1>1, <1>6, <1>7, Parts, StepTyped DEF InitLoad, store, request, bridge, history

LEMMA InitReadTyped == ASSUME TypeInv, NEW x \in loading, InitRead(x) PROVE TypeInv'
<1>1. CallsKept /\ CallsInv'
  BY SameCalls DEF InitRead, bridge
<1>2. TypeOK
  BY DEF TypeInv
<1>3. Len(log) \in Nat /\ Len(log) <= MaxEvents /\ \A k \in DOMAIN scanned : scanned[k] \in Links
  BY <1>2, TypedSeqs DEF TypeOK
<1> DEFINE n == lastEventId[scanned[x.of]]
           y == [x EXCEPT !.read = TRUE, !.last = n]
<1>4. x \in [of : Connections, read : BOOLEAN, last : 0..MaxEvents] /\ x.of \in DOMAIN scanned
  BY Parts DEF LoadInv
<1>5. n \in 0..Len(log) /\ n \in 0..MaxEvents
  BY <1>3, <1>4, Parts, TonConnectConstants
<1> HIDE DEF n
<1>6. y \in [of : Connections, read : BOOLEAN, last : 0..MaxEvents] /\ LoadInv(y)
  <2>1. y \in [of : Connections, read : BOOLEAN, last : 0..MaxEvents]
    BY <1>4, <1>5
  <2>2. y.of = x.of /\ y.last = n
    BY <1>4
  <2> QED BY <2>1, <2>2, <1>3, <1>4, <1>5 DEF LoadInv
<1>7. loading' = (loading \ {x}) \cup {y}
  BY DEF InitRead, n
<1> HIDE DEF y
<1>8. /\ loading' \subseteq [of : Connections, read : BOOLEAN, last : 0..MaxEvents]
      /\ \A z \in loading' : LoadInv(z)
  BY <1>6, <1>7, Parts
<1> QED
  BY <1>1, <1>8, Parts, StepTyped DEF InitRead, store, request, bridge, history

LEMMA InitOpenTyped == ASSUME TypeInv, NEW x \in loading, InitOpen(x) PROVE TypeInv'
<1>1. x.of \in DOMAIN scanned /\ x.last \in 0..Len(log) /\ activity \in 1..activity
  <2>1. x \in [of : Connections, read : BOOLEAN, last : 0..MaxEvents] /\ LoadInv(x)
    BY Parts
  <2>2. activity \in Nat /\ activity \in Activities /\ Len(log) \in Nat
    BY TypedSeqs DEF TypeInv
  <2> QED BY <2>1, <2>2, TonConnectConstants DEF LoadInv, Activities
<1>2. /\ Make(Destroyed(Same(x.of, activity)), <<Stream(x.of, activity, x.last, TRUE)>>)
      /\ UNCHANGED <<scanned, log, activity>> /\ TRUE \in BOOLEAN
  BY DEF InitOpen, bridge
<1>3. CallsKept /\ CallsInv'
  BY <1>1, <1>2, DestroyedKept, MadeStream
<1> QED
  BY <1>3, Parts, StepTyped DEF InitOpen, store, request, bridge, history

LEMMA ApproveRequestTyped == ASSUME TypeInv, ApproveConnectionRequest PROVE TypeInv'
<1>1. CallsKept /\ CallsInv'
  BY SameCalls DEF ApproveConnectionRequest, bridge
<1>2. sheet \in DOMAIN scanned
  <2>1. DOMAIN scanned = 1..Len(scanned) /\ Len(scanned) \in Nat
    BY TypedSeqs DEF TypeInv
  <2> QED BY <2>1, Parts DEF ApproveConnectionRequest
<1>3. approving' \subseteq DOMAIN scanned /\ success' \in BOOLEAN
  BY <1>2, Parts DEF ApproveConnectionRequest
<1> QED
  BY <1>1, <1>3, Parts, StepTyped
  DEF ApproveConnectionRequest, store, start, bridge, history

LEMMA ApproveTyped == ASSUME TypeInv, NEW k \in approving, Approve(k) PROVE TypeInv'
<1>1. k \in DOMAIN scanned /\ manager \in 1..activity /\ 0 \in 0..Len(log)
  BY Parts, TypedSeqs DEF TypeInv
<1>2. /\ Make(Destroyed(Same(k, manager)),
              <<Stream(k, manager, 0, TRUE), Post("approve", k, manager, Len(calls) + 1)>>)
      /\ UNCHANGED <<scanned, log, activity>> /\ TRUE \in BOOLEAN
  BY DEF Approve, bridge
<1>3. CallsKept /\ CallsInv'
  BY <1>1, <1>2, DestroyedKept, MadeBoth
<1>4. edits' = edits \cup Launched("save", k, 0, manager) /\ approving' \subseteq approving
  BY DEF Approve
<1>5. \A x \in edits' : EditInv(x)
  BY <1>1, <1>4, LaunchedTypes, Parts
<1> QED
  BY <1>3, <1>4, <1>5, Parts, StepTyped DEF Approve, start, bridge, history

LEMMA DismissTyped == ASSUME TypeInv, OnBottomSheetDismiss PROVE TypeInv'
<1>1. sheet \in DOMAIN scanned /\ manager \in 1..activity /\ 0 \in 0..Len(scanned)
  <2>1. DOMAIN scanned = 1..Len(scanned) /\ Len(scanned) \in Nat
    BY TypedSeqs DEF TypeInv
  <2> QED BY <2>1, Parts DEF OnBottomSheetDismiss
<1>2. UNCHANGED <<scanned, log, activity>>
  BY DEF OnBottomSheetDismiss, bridge
<1>3. CallsKept /\ CallsInv'
  <2>1. CASE success
    BY <2>1, <1>2, SameCalls DEF OnBottomSheetDismiss
  <2>2. CASE ~success
    <3>1. /\ Make(calls, <<Stream(sheet, manager, 0, FALSE),
                           Post("reject", sheet, manager, Len(calls) + 1)>>)
          /\ FALSE \in BOOLEAN
      BY <2>2 DEF OnBottomSheetDismiss
    <3>2. calls \in Seq(Call) /\ \A i \in DOMAIN calls : Kept(calls[i], calls[i])
      BY TypedSeqs, KeptSelf DEF TypeInv
    <3> QED BY <1>1, <1>2, <3>1, <3>2, MadeBoth
  <2> QED BY <2>1, <2>2
<1>4. sheet' \in 0..Len(scanned)
  BY <1>1 DEF OnBottomSheetDismiss
<1> QED
  BY <1>3, <1>4, Parts, StepTyped DEF OnBottomSheetDismiss, store, start, bridge, history

\* One call changed in a step that keeps it, with or without the dispatcher.
LEMMA ChangedCall ==
    ASSUME TypeInv, NEW i \in DOMAIN calls, NEW c \in Call, Kept(calls[i], c),
           UNCHANGED <<scanned, log, activity>>,
           \/ calls' = [calls EXCEPT ![i] = c]
           \/ calls' = Dispatch([calls EXCEPT ![i] = c])
    PROVE  CallsKept /\ CallsInv'
<1> DEFINE cs == [calls EXCEPT ![i] = c]
<1>1. calls \in Seq(Call) /\ \A j \in DOMAIN calls : calls[j] \in Call
  BY TypedSeqs DEF TypeInv
<1>2. /\ cs \in Seq(Call) /\ Len(cs) = Len(calls) /\ cs[i] = c
      /\ \A j \in DOMAIN calls : j # i => cs[j] = calls[j]
  BY <1>1, ChangedFacts
<1>3. \A j \in DOMAIN calls : Kept(calls[j], cs[j])
  BY <1>1, <1>2, KeptSelf
<1> HIDE DEF cs
<1>4. CASE calls' = cs
  BY <1>2, <1>3, <1>4, OldCalls
<1>5. CASE calls' = Dispatch(cs)
  BY <1>2, <1>3, <1>5, DispatchedCalls
<1> QED BY <1>4, <1>5 DEF cs

\* A call that ends.
LEMMA EndedCall ==
    ASSUME TypeInv, NEW i \in DOMAIN calls, UNCHANGED <<scanned, log, activity>>,
           calls' = Dispatch([calls EXCEPT ![i].phase = "done"])
    PROVE  CallsKept /\ CallsInv'
<1> DEFINE c == [calls[i] EXCEPT !.phase = "done"]
<1>1. calls[i] \in Call
  BY TypedSeqs DEF TypeInv
<1>2. c \in Call
  BY <1>1 DEF Call
<1>3. Kept(calls[i], c)
  BY <1>1, KeptSelf
<1>4. calls' = Dispatch([calls EXCEPT ![i] = c])
  OBVIOUS
<1> HIDE DEF c
<1> QED BY <1>2, <1>3, <1>4, ChangedCall

LEMMA PostedTyped == ASSUME TypeInv, NEW i \in DOMAIN calls, Posted(i) PROVE TypeInv'
<1>1. CallsKept /\ CallsInv'
  BY EndedCall DEF Posted
<1>2. calls[i].of \in DOMAIN scanned
  BY DEF TypeInv, CallsInv, CallInv
<1>3. PICK arrived \in BOOLEAN, answered \in BOOLEAN :
        /\ known' = IF calls[i].kind = "approve" /\ arrived THEN Told(calls[i].of) ELSE known
        /\ success' = IF calls[i].kind = "approve" /\ calls[i].activity = manager
                      THEN answered ELSE success
  BY DEF Posted
<1>4. known \subseteq known' /\ known' \subseteq DOMAIN scanned
  BY <1>2, <1>3, Parts DEF Told
<1>5. success' \in BOOLEAN
  BY <1>3, Parts
<1> QED
  BY <1>1, <1>4, <1>5, Parts, StepTyped DEF Posted, store, start, history

LEMMA RejectedTyped == ASSUME TypeInv, NEW i \in DOMAIN calls, Rejected(i) PROVE TypeInv'
<1>1. calls' = Dispatch(Destroyed({calls[i].stream})) /\ UNCHANGED <<scanned, log, activity>>
  BY DEF Rejected, bridge
<1>2. CallsKept /\ CallsInv'
  BY <1>1, DestroyedKept, DispatchedCalls
<1> QED
  BY <1>2, Parts, StepTyped DEF Rejected, store, start, request, bridge, history

LEMMA DeleteAppTyped ==
    ASSUME TypeInv, NEW k \in manifests, DeleteAppWithManifest(k) PROVE TypeInv'
<1>1. CallsKept /\ CallsInv'
  BY SameCalls DEF DeleteAppWithManifest, bridge
<1>2. k \in DOMAIN scanned /\ k \in Connections /\ 0 \in 0..MaxCalls
  BY Parts, TypedSeqs, TonConnectConstants DEF TypeInv
<1> DEFINE d == [of |-> k, post |-> 0]
<1>3. d \in [of : Connections, post : 0..MaxCalls] /\ d.of = k /\ d.post = 0
  BY <1>2
<1>4. deleting' = deleting \cup {d}
  BY DEF DeleteAppWithManifest
<1> HIDE DEF d
<1>5. DeleteInv(d)
  BY <1>2, <1>3 DEF DeleteInv
<1>6. \A f \in deleting' : DeleteInv(f) \/ DeleteInv(f)'
  BY <1>4, <1>5, Parts
<1> QED
  BY <1>1, <1>6, Parts, StepTyped
  DEF DeleteAppWithManifest, store, start, request, bridge, history

LEMMA DeleteBeginsTyped == ASSUME TypeInv, NEW d \in deleting, DeleteBegins(d) PROVE TypeInv'
<1> DEFINE same == Same(d.of, activity)
<1>1. DeleteInv(d) /\ d.of \in DOMAIN scanned
  BY Parts DEF DeleteInv
<1>2. /\ UNCHANGED <<manifests, lastEventId, activity, manager, loaded, loading, late>>
      /\ UNCHANGED <<sheet, approving, success, scanned, known, log, handled, interrupted>>
  BY DEF DeleteBegins, start, request, bridge, history
<1>3. activity \in 1..activity /\ 0 \in 0..Len(log)
  BY TypedSeqs, TonConnectConstants DEF TypeInv, Activities
<1>4. CASE same = {}
  <2>1. /\ deleting' = deleting \ {d} /\ UNCHANGED calls
        /\ edits' = edits \cup Launched("delete", d.of, 0, activity)
    BY <1>4 DEF DeleteBegins
  <2>2. CallsKept /\ CallsInv'
    BY <1>2, <2>1, SameCalls
  <2>3. \A x \in edits' : EditInv(x)
    BY <1>1, <1>3, <2>1, LaunchedTypes, Parts
  <2> QED BY <1>2, <2>1, <2>2, <2>3, Parts, StepTyped
<1>5. CASE same # {}
  <2>1. PICK s \in same : Make(calls, <<Post("delete", calls[s].of, activity, s)>>)
    BY <1>5 DEF DeleteBegins
  <2>2. /\ deleting' = (deleting \ {d}) \cup {[d EXCEPT !.post = Len(calls')]}
        /\ UNCHANGED edits
    BY <1>5 DEF DeleteBegins
  <2>3. /\ s \in DOMAIN calls /\ calls[s].listed /\ calls[s].activity = activity
    BY DEF Same, Listed
  <2>4. calls[s].kind = "stream" /\ calls[s].of \in DOMAIN scanned
    BY <2>3 DEF TypeInv, CallsInv, CallInv
  <2>5. Make(calls, <<Post("delete", calls[s].of, calls[s].activity, s)>>)
    BY <2>1, <2>3
  <2>6. /\ CallsKept /\ CallsInv' /\ Len(calls') = Len(calls) + 1
        /\ Dispatched(Post("delete", calls[s].of, activity, s), calls'[Len(calls) + 1])
    BY <1>2, <2>3, <2>4, <2>5, MadePost
  <2>7. Len(calls) \in Nat /\ Len(calls') <= MaxCalls /\ calls' \in Seq(Call)
    BY <2>6, TypedSeqs DEF TypeInv, CallsKept
  <2> DEFINE n == Len(calls')
             f == [d EXCEPT !.post = n]
  <2>8. n \in DOMAIN calls' /\ n \in 0..MaxCalls
    BY <2>6, <2>7, LenProperties, TonConnectConstants
  <2>9. calls'[n].kind = "delete" /\ calls'[n].activity = activity
    BY <2>6 DEF Dispatched, Post
  <2>10. deleting' = (deleting \ {d}) \cup {f}
    BY <2>2
  <2> HIDE DEF n
  <2>11. f \in [of : Connections, post : 0..MaxCalls] /\ f.of = d.of /\ f.post = n
    BY <1>1, <2>8 DEF DeleteInv
  <2> HIDE DEF f
  <2>12. ASSUME NEW g \in deleting' PROVE DeleteInv(g) \/ DeleteInv(g)'
    <3>1. CASE g \in deleting
      BY <3>1, Parts
    <3>2. CASE g = f
      <4>1. /\ g \in [of : Connections, post : 0..MaxCalls] /\ g.of \in DOMAIN scanned'
            /\ g.post \in DOMAIN calls' /\ calls'[g.post].kind = "delete"
            /\ calls'[g.post].activity = activity'
        BY <1>1, <1>2, <2>8, <2>9, <2>11, <3>2
      <4> QED BY <4>1 DEF DeleteInv
    <3> QED BY <2>10, <3>1, <3>2
  <2> QED BY <1>2, <2>2, <2>6, <2>12, Parts, StepTyped
<1> QED BY <1>4, <1>5

LEMMA DeleteEndsTyped == ASSUME TypeInv, NEW d \in deleting, DeleteEnds(d) PROVE TypeInv'
<1>1. /\ calls' = Dispatch(Destroyed({calls[d.post].stream}))
      /\ UNCHANGED <<scanned, log, activity>> /\ deleting' = deleting \ {d}
      /\ edits' = edits \cup Launched("delete", d.of, 0, activity)
  BY DEF DeleteEnds, bridge
<1>2. CallsKept /\ CallsInv'
  BY <1>1, DestroyedKept, DispatchedCalls
<1>3. d.of \in DOMAIN scanned /\ activity \in 1..activity /\ 0 \in 0..Len(log)
  BY Parts, TypedSeqs, TonConnectConstants DEF TypeInv, DeleteInv, Activities
<1>4. \A x \in edits' : EditInv(x)
  BY <1>1, <1>3, LaunchedTypes, Parts
<1> QED
  BY <1>1, <1>2, <1>4, Parts, StepTyped DEF DeleteEnds, start, request, bridge, history

\* What an event changes in its stream.
LEMMA OnEventFacts ==
    ASSUME TypeInv, NEW i \in DOMAIN calls, OnEvent(i)
    PROVE  \E e \in Pending(i) :
             LET c == [calls[i] EXCEPT !.last = e, !.event = e]
             IN  /\ \A f \in Pending(i) : e <= f
                 /\ e \in DOMAIN log /\ e \in 0..Len(log) /\ log[e].of = calls[i].of
                 /\ c \in Call /\ c.of = calls[i].of /\ c.last = e /\ c.event = e
                 /\ calls' = [calls EXCEPT ![i] = c]
                 /\ edits' = edits \cup Launched("event", calls[i].of, e, calls[i].activity)
                 /\ Kept(calls[i], c) /\ c.phase = calls[i].phase /\ (c.listed <=> calls[i].listed)
<1>1. PICK e \in Pending(i) :
         /\ \A f \in Pending(i) : e <= f
         /\ calls' = [calls EXCEPT ![i].last = e, ![i].event = e]
         /\ edits' = edits \cup Launched("event", calls[i].of, e, calls[i].activity)
  BY DEF OnEvent
<1> DEFINE c == [calls[i] EXCEPT !.last = e, !.event = e]
<1>2. /\ calls[i] \in Call /\ calls \in Seq(Call) /\ DOMAIN log = 1..Len(log)
      /\ Len(log) \in Nat /\ \A f \in DOMAIN log : f \in 0..MaxEvents
  BY TypedSeqs DEF TypeInv
<1>3. e \in DOMAIN log /\ log[e].of = calls[i].of
  BY DEF Pending
<1>4. e \in 0..Len(log) /\ e \in 0..MaxEvents
  BY <1>2, <1>3
<1>5. /\ c \in Call /\ c.kind = calls[i].kind /\ c.of = calls[i].of
      /\ c.activity = calls[i].activity /\ c.stream = calls[i].stream
      /\ c.phase = calls[i].phase /\ (c.listed <=> calls[i].listed) /\ c.last = e /\ c.event = e
  BY <1>2, <1>4 DEF Call
<1>6. calls' = [calls EXCEPT ![i] = c]
  <2> DEFINE b == [calls[i] EXCEPT !.last = e]
             bs == [calls EXCEPT ![i] = b]
  <2>1. bs[i] = b /\ DOMAIN bs = DOMAIN calls
    OBVIOUS
  <2>2. calls' = [bs EXCEPT ![i] = [bs[i] EXCEPT !.event = e]]
    BY <1>1
  <2>3. [b EXCEPT !.event = e] = c
    OBVIOUS
  <2>4. calls' = [bs EXCEPT ![i] = c]
    BY <2>1, <2>2, <2>3
  <2> HIDE DEF b, c
  <2> QED BY <2>4
<1>7. Kept(calls[i], c)
  <2> HIDE DEF c
  <2>1. calls[i].kind = "stream"
    BY DEF OnEvent
  <2> QED BY <1>3, <1>5, <2>1 DEF Kept
<1> QED BY <1>1, <1>3, <1>4, <1>5, <1>6, <1>7

LEMMA OnEventTyped == ASSUME TypeInv, NEW i \in DOMAIN calls, OnEvent(i) PROVE TypeInv'
<1>1. PICK e \in Pending(i), c \in Call :
        /\ e \in 0..Len(log) /\ Kept(calls[i], c) /\ calls' = [calls EXCEPT ![i] = c]
        /\ edits' = edits \cup Launched("event", calls[i].of, e, calls[i].activity)
  BY OnEventFacts
<1>2. UNCHANGED <<scanned, log, activity>>
  BY DEF OnEvent, bridge
<1>3. CallsKept /\ CallsInv'
  BY <1>1, <1>2, ChangedCall
<1>4. calls[i].of \in DOMAIN scanned /\ calls[i].activity \in 1..activity
  <2>1. CallInv(calls[i]) /\ calls[i] \in Call /\ activity \in Nat
    BY TypedSeqs DEF TypeInv, CallsInv
  <2> QED BY <2>1, TonConnectConstants DEF CallInv, Call, Activities
<1>5. \A x \in edits' : EditInv(x)
  BY <1>1, <1>4, LaunchedTypes, Parts
<1> QED
  BY <1>2, <1>3, <1>5, Parts, StepTyped DEF OnEvent, start, request, bridge, history

\* What the end of an event changes in its stream.
LEMMA EventEndsFacts ==
    ASSUME TypeInv, NEW i \in DOMAIN calls, OnEventEnds(i)
    PROVE  \E c \in Call :
             /\ Kept(calls[i], c) /\ c.of = calls[i].of /\ c.last = calls[i].last /\ c.event = 0
             /\ c.listed <=> calls[i].listed
             /\ \/ calls' = [calls EXCEPT ![i] = c] /\ c.phase = calls[i].phase
                \/ calls' = Dispatch([calls EXCEPT ![i] = c]) /\ c.phase = "done"
<1>1. calls[i] \in Call /\ 0 \in 0..MaxEvents
  BY TypedSeqs, TonConnectConstants DEF TypeInv
<1> DEFINE b == [calls[i] EXCEPT !.event = 0]
           c == [b EXCEPT !.phase = "done"]
           bs == [calls EXCEPT ![i] = b]
<1>2. /\ b \in Call /\ b.kind = calls[i].kind /\ b.of = calls[i].of
      /\ b.activity = calls[i].activity /\ b.stream = calls[i].stream
      /\ b.phase = calls[i].phase /\ (b.listed <=> calls[i].listed)
      /\ b.last = calls[i].last /\ b.event = 0
  BY <1>1 DEF Call
<1>3. bs[i] = b
  OBVIOUS
<1>4. calls' = bs \/ calls' = Dispatch([bs EXCEPT ![i] = [bs[i] EXCEPT !.phase = "done"]])
  BY DEF OnEventEnds
<1> HIDE DEF b
<1>5. /\ c \in Call /\ c.kind = calls[i].kind /\ c.of = calls[i].of
      /\ c.activity = calls[i].activity /\ c.stream = calls[i].stream
      /\ c.phase = "done" /\ (c.listed <=> calls[i].listed)
      /\ c.last = calls[i].last /\ c.event = 0
  BY <1>2 DEF Call
<1>6. Kept(calls[i], b)
  BY <1>2 DEF Kept
<1>7. Kept(calls[i], c)
  <2> HIDE DEF c
  <2> QED BY <1>5 DEF Kept
<1>8. calls' = bs \/ calls' = Dispatch([calls EXCEPT ![i] = c])
  BY <1>3, <1>4
<1> HIDE DEF c
<1> QED BY <1>2, <1>5, <1>6, <1>7, <1>8

LEMMA OnEventEndsTyped ==
    ASSUME TypeInv, NEW i \in DOMAIN calls, OnEventEnds(i) PROVE TypeInv'
<1>1. UNCHANGED <<scanned, log, activity>>
  BY DEF OnEventEnds, bridge
<1>2. CallsKept /\ CallsInv'
  <2>1. PICK c \in Call :
          /\ Kept(calls[i], c)
          /\ \/ calls' = [calls EXCEPT ![i] = c]
             \/ calls' = Dispatch([calls EXCEPT ![i] = c])
    BY EventEndsFacts
  <2> QED BY <1>1, <2>1, ChangedCall
<1>3. handled' \subseteq DOMAIN log
  <2>1. /\ calls[i].event # 0 /\ calls[i] \in Call /\ calls[i].event <= Len(log)
        /\ Len(log) \in Nat /\ DOMAIN log = 1..Len(log)
    BY TypedSeqs DEF OnEventEnds, TypeInv, CallsInv, CallInv
  <2>2. calls[i].event \in DOMAIN log
    BY <2>1 DEF Call
  <2> QED BY <2>2, Parts DEF OnEventEnds
<1> QED
  BY <1>2, <1>3, Parts, StepTyped DEF OnEventEnds, store, start, request, bridge

LEMMA OnFailureTyped == ASSUME TypeInv, NEW i \in DOMAIN calls, OnFailure(i) PROVE TypeInv'
<1>1. CallsKept /\ CallsInv'
  BY EndedCall DEF OnFailure, bridge
<1> QED
  BY <1>1, Parts, StepTyped DEF OnFailure, store, start, request, bridge, history

\* What is referred to is still there when more links or events are.
LEMMA GrownTyped ==
    ASSUME TypeInv, UNCHANGED <<store, activity, manager, calls, start, deleting, approving,
                                known, history>>,
           success' \in BOOLEAN, sheet' \in 0..Len(scanned'),
           scanned' \in Seq(Links), Len(scanned') <= MaxScans, Len(scanned) <= Len(scanned'),
           log' \in Seq([of : Connections, ok : BOOLEAN]), Len(log') <= MaxEvents,
           Len(log) <= Len(log'), \A e \in DOMAIN log' : log'[e].of \in known
    PROVE  TypeInv'
<1>1. TypeOK
  BY DEF TypeInv
<1>2. /\ Len(scanned) \in Nat /\ DOMAIN scanned = 1..Len(scanned)
      /\ Len(scanned') \in Nat /\ DOMAIN scanned' = 1..Len(scanned')
      /\ Len(log) \in Nat /\ DOMAIN log = 1..Len(log)
      /\ Len(log') \in Nat /\ DOMAIN log' = 1..Len(log')
  BY <1>1, TypedSeqs, LenProperties
<1>3. /\ DOMAIN scanned \subseteq DOMAIN scanned' /\ DOMAIN log \subseteq DOMAIN log'
      /\ 0..Len(log) \subseteq 0..Len(log')
  BY <1>2
<1>4. \A n \in Int : n <= Len(log) => n <= Len(log')
  BY <1>2
<1>5. lastEventId' \in [Links -> 0..Len(log')]
  BY <1>1, <1>3 DEF TypeOK, store
<1>6. TypeOK'
  BY <1>1, <1>3, <1>5 DEF TypeOK, store, start, history
<1>7. CallsInv'
  <2>1. /\ calls \in Seq(Call) /\ \A i \in DOMAIN calls : calls[i] \in Call
        /\ DOMAIN calls = 1..Len(calls) /\ Len(calls) <= MaxCalls /\ Len(calls) \in Nat
        /\ activity \in Nat
    BY <1>1, TypedSeqs DEF TypeOK
  <2>2. CallsKept
    <3>1. calls' = calls /\ \A i \in DOMAIN calls : Kept(calls[i], calls[i])
      BY <2>1, KeptSelf
    <3> QED BY <2>1, <3>1 DEF CallsKept
  <2>3. \A i \in 1..Len(calls) : CallInv(calls[i])'
    BY <1>2, <2>1, <2>2, KeptInv
  <2> QED BY <2>1, <2>3 DEF CallsInv
<1>8. (\A x \in edits : EditInv(x))'
  <2> SUFFICES ASSUME NEW x \in edits PROVE EditInv(x)'
    BY DEF store
  <2>1. EditInv(x) /\ x.event \in Int
    BY Parts, TonConnectConstants DEF EditInv, Edit
  <2> QED BY <1>3, <1>4, <2>1 DEF EditInv
<1>9. (\A x \in loading : LoadInv(x))'
  <2> SUFFICES ASSUME NEW x \in loading PROVE LoadInv(x)'
    BY DEF start
  <2>1. LoadInv(x) /\ x.last \in Int
    BY Parts, TonConnectConstants
  <2> QED BY <1>3, <1>4, <2>1 DEF LoadInv
<1>10. (\A d \in deleting : DeleteInv(d))'
  BY <1>3, Parts DEF DeleteInv
<1> QED BY <1>6, <1>7, <1>8, <1>9, <1>10 DEF TypeInv

LEMMA ProcessStringTyped == ASSUME TypeInv, NEW l \in Links, ProcessString(l) PROVE TypeInv'
<1>1. scanned \in Seq(Links) /\ Len(scanned) \in Nat /\ TypeOK
  BY TypedSeqs DEF TypeInv
<1>2. scanned' = Append(scanned, l) /\ Len(scanned) < MaxScans /\ sheet' = Len(scanned')
  BY DEF ProcessString
<1>3. scanned' \in Seq(Links) /\ Len(scanned') = Len(scanned) + 1
  BY <1>1, <1>2, Appended
<1>4. Len(scanned') <= MaxScans /\ Len(scanned) <= Len(scanned') /\ sheet' \in 0..Len(scanned')
  BY <1>1, <1>2, <1>3, TonConnectConstants
<1>5. UNCHANGED log /\ success' \in BOOLEAN
  BY DEF ProcessString
<1>6. Len(log) <= Len(log') /\ Len(log') <= MaxEvents
      /\ log' \in Seq([of : Connections, ok : BOOLEAN])
      /\ \A e \in DOMAIN log' : log'[e].of \in known
  BY <1>1, <1>5, TypedSeqs DEF TypeInv, TypeOK
<1> QED BY <1>3, <1>4, <1>5, <1>6, GrownTyped DEF ProcessString

LEMMA SendTyped ==
    ASSUME TypeInv, NEW k \in known, NEW ok \in BOOLEAN, Send(k, ok) PROVE TypeInv'
<1>1. /\ log \in Seq([of : Connections, ok : BOOLEAN]) /\ Len(log) \in Nat /\ TypeOK
      /\ DOMAIN log = 1..Len(log) /\ k \in Connections
  BY TypedSeqs, Parts DEF TypeInv
<1> DEFINE x == [of |-> k, ok |-> ok]
<1>2. x \in [of : Connections, ok : BOOLEAN] /\ x.of = k
  BY <1>1
<1>3. log' = Append(log, x) /\ Len(log) < MaxEvents
  BY DEF Send
<1> HIDE DEF x
<1>4. /\ log' \in Seq([of : Connections, ok : BOOLEAN]) /\ Len(log') = Len(log) + 1
      /\ DOMAIN log' = 1..(Len(log) + 1) /\ log'[Len(log) + 1] = x
      /\ \A e \in 1..Len(log) : log'[e] = log[e]
  BY <1>1, <1>2, <1>3, Appended
<1>5. Len(log') <= MaxEvents /\ Len(log) <= Len(log')
  BY <1>1, <1>3, <1>4, TonConnectConstants
<1>6. ASSUME NEW e \in DOMAIN log' PROVE log'[e].of \in known
  <2>1. CASE e \in 1..Len(log)
    BY <1>1, <1>4, <2>1 DEF TypeInv
  <2>2. CASE e = Len(log) + 1
    BY <1>2, <1>4, <2>2
  <2> QED BY <1>1, <1>4, <2>1, <2>2
<1>7. /\ UNCHANGED <<scanned, sheet, success>>
      /\ UNCHANGED <<store, activity, manager, calls, start, deleting, approving, known, history>>
  BY DEF Send, process, request
<1>8. /\ scanned' \in Seq(Links) /\ Len(scanned') <= MaxScans /\ Len(scanned) <= Len(scanned')
      /\ sheet' \in 0..Len(scanned') /\ success' \in BOOLEAN
  BY <1>1, <1>7, TypedSeqs DEF TypeOK
<1> QED BY <1>4, <1>5, <1>6, <1>7, <1>8, GrownTyped

LEMMA NewActivityTyped == ASSUME TypeInv, NEW kept \in BOOLEAN, NewActivity(kept) PROVE TypeInv'
<1>1. TypeOK
  BY DEF TypeInv
<1>2. /\ activity \in 1..MaxActivities /\ MaxActivities \in Nat /\ activity < MaxActivities
      /\ activity' = activity + 1 /\ manager \in 1..activity
      /\ manager' = manager \/ manager' = activity'
      /\ UNCHANGED <<manifests, lastEventId, calls, scanned, known, log, handled, interrupted>>
  BY Parts, TypedSeqs, TonConnectConstants DEF NewActivity, Activities, bridge, history, TypeInv
<1>3. activity' \in Activities /\ manager' \in 1..activity' /\ activity <= activity'
      /\ activity' \in Nat
  BY <1>2 DEF Activities
<1>4. /\ edits' \subseteq edits /\ loaded' = FALSE /\ loading' = {} /\ late' = {}
      /\ deleting' = {}
  BY DEF NewActivity
<1>5. /\ Len(scanned) \in Nat /\ DOMAIN scanned = 1..Len(scanned) /\ Len(log) \in Nat
      /\ calls \in Seq(Call) /\ \A i \in DOMAIN calls : calls[i] \in Call
      /\ DOMAIN calls = 1..Len(calls) /\ Len(calls) <= MaxCalls /\ Len(calls) \in Nat
  BY <1>1, TypedSeqs DEF TypeOK
<1>6. sheet' \in 0..Len(scanned) /\ approving' \subseteq DOMAIN scanned /\ success' \in BOOLEAN
  <2>1. CASE kept
    BY <2>1, Parts DEF NewActivity, request
  <2>2. CASE ~kept
    <3>1. sheet' = 0 /\ approving' = {}
      BY <2>2 DEF NewActivity
    <3>2. success' \in BOOLEAN
      BY <2>2 DEF NewActivity
    <3> QED BY <3>1, <3>2, <1>5
  <2> QED BY <2>1, <2>2
<1>7. CallsKept
  <2>1. calls' = calls /\ \A i \in DOMAIN calls : Kept(calls[i], calls[i])
    BY <1>2, <1>5, KeptSelf
  <2> QED BY <1>5, <2>1 DEF CallsKept
<1>8. CallsInv'
  <2>1. \A i \in 1..Len(calls) : CallInv(calls[i])'
    BY <1>2, <1>3, <1>5, <1>7, KeptInv
  <2> QED BY <1>2, <1>5, <2>1 DEF CallsInv
<1>9. (\A x \in edits : EditInv(x))'
  <2> SUFFICES ASSUME NEW x \in edits PROVE EditInv(x)'
    BY <1>4
  <2>1. EditInv(x) /\ x.activity \in Int
    BY Parts DEF EditInv, Edit, Activities
  <2>2. x.activity <= activity'
    BY <1>2, <2>1 DEF EditInv
  <2> QED BY <1>2, <2>1, <2>2 DEF EditInv
<1>10. TypeOK'
  BY <1>1, <1>2, <1>3, <1>4, <1>6 DEF TypeOK
<1> QED BY <1>2, <1>4, <1>8, <1>9, <1>10 DEF TypeInv

LEMMA DieTyped == ASSUME TypeInv, Die PROVE TypeInv'
<1>1. TypeOK
  BY DEF TypeInv
<1>2. /\ activity \in 1..MaxActivities /\ MaxActivities \in Nat /\ activity < MaxActivities
      /\ activity' = activity + 1 /\ manager' = activity'
      /\ UNCHANGED <<manifests, lastEventId, scanned, known, log, handled>>
  BY TypedSeqs, TonConnectConstants DEF Die, Activities, bridge, TypeInv
<1>3. activity' \in Activities /\ manager' \in 1..activity'
  BY <1>2 DEF Activities
<1>4. /\ edits' = {} /\ loaded' = FALSE /\ loading' = {} /\ late' = {} /\ deleting' = {}
      /\ sheet' = 0 /\ approving' = {} /\ success' = FALSE /\ calls' = <<>>
      /\ interrupted' = interrupted \cup ({calls[i].event : i \in DOMAIN calls} \ {0})
  BY DEF Die
<1>5. calls' \in Seq(Call) /\ Len(calls') <= MaxCalls /\ DOMAIN calls' = {}
  BY <1>4, TonConnectConstants
<1>6. interrupted' \subseteq DOMAIN log
  <2> SUFFICES ASSUME NEW i \in DOMAIN calls, calls[i].event # 0
               PROVE  calls[i].event \in DOMAIN log
    BY <1>4, Parts
  <2>1. /\ calls[i] \in Call /\ calls[i].event <= Len(log)
        /\ Len(log) \in Nat /\ DOMAIN log = 1..Len(log)
    BY TypedSeqs DEF TypeInv, CallsInv, CallInv
  <2> QED BY <2>1 DEF Call
<1>7. sheet' \in 0..Len(scanned) /\ approving' \subseteq DOMAIN scanned /\ success' \in BOOLEAN
  <2>1. sheet' \in 0..Len(scanned) /\ approving' \subseteq DOMAIN scanned
    BY <1>4, TypedSeqs DEF TypeInv
  <2>2. success' \in BOOLEAN
    BY <1>4
  <2> QED BY <2>1, <2>2
<1>8. TypeOK'
  BY <1>1, <1>2, <1>3, <1>4, <1>5, <1>6, <1>7 DEF TypeOK
<1>9. CallsInv'
  BY <1>5 DEF CallsInv
<1> QED BY <1>2, <1>4, <1>8, <1>9 DEF TypeInv

LEMMA TypeStep == TypeInv /\ [Next]_vars => TypeInv'
<1> SUFFICES ASSUME TypeInv, [Next]_vars PROVE TypeInv'
  OBVIOUS
<1>1. CASE UNCHANGED vars
  BY <1>1 DEF vars, store, process, start, request, bridge, history, TypeInv, TypeOK,
              CallsInv, CallInv, EditInv, LoadInv, DeleteInv
<1>2. ASSUME NEW x \in edits, Write(x) PROVE TypeInv'
  BY <1>2, WriteTyped
<1>3. CASE InitLoad
  BY <1>3, InitLoadTyped
<1>4. ASSUME NEW x \in loading, InitRead(x) \/ InitOpen(x) PROVE TypeInv'
  BY <1>4, InitReadTyped, InitOpenTyped
<1>5. ASSUME NEW l \in Links, ProcessString(l) PROVE TypeInv'
  BY <1>5, ProcessStringTyped
<1>6. CASE ApproveConnectionRequest
  BY <1>6, ApproveRequestTyped
<1>7. ASSUME NEW k \in approving, Approve(k) PROVE TypeInv'
  BY <1>7, ApproveTyped
<1>8. CASE OnBottomSheetDismiss
  BY <1>8, DismissTyped
<1>9. ASSUME NEW k \in manifests, DeleteAppWithManifest(k) PROVE TypeInv'
  BY <1>9, DeleteAppTyped
<1>10. ASSUME NEW d \in deleting, DeleteBegins(d) \/ DeleteEnds(d) PROVE TypeInv'
  BY <1>10, DeleteBeginsTyped, DeleteEndsTyped
<1>11. ASSUME NEW k \in known, NEW ok \in BOOLEAN, Send(k, ok) PROVE TypeInv'
  BY <1>11, SendTyped
<1>12. ASSUME NEW i \in DOMAIN calls, Posted(i) \/ Rejected(i) PROVE TypeInv'
  BY <1>12, PostedTyped, RejectedTyped
<1>13. ASSUME NEW i \in DOMAIN calls, OnEvent(i) \/ OnEventEnds(i) \/ OnFailure(i)
       PROVE  TypeInv'
  BY <1>13, OnEventTyped, OnEventEndsTyped, OnFailureTyped
<1>14. ASSUME NEW kept \in BOOLEAN, NewActivity(kept) PROVE TypeInv'
  BY <1>14, NewActivityTyped
<1>15. CASE Die
  BY <1>15, DieTyped
<1> QED
  BY <1>1, <1>2, <1>3, <1>4, <1>5, <1>6, <1>7, <1>8, <1>9, <1>10, <1>11, <1>12, <1>13,
     <1>14, <1>15 DEF Next

\* The type invariant, and that calls, edits and deletions refer to connections,
\* events and streams there are.
THEOREM TypeHolds == Spec => [](TypeOK /\ TypeInv)
<1>1. Init => TypeInv
  BY TypeInit
<1>2. TypeInv /\ [Next]_vars => TypeInv'
  BY TypeStep
<1>3. TypeInv => TypeOK /\ TypeInv
  BY DEF TypeInv
<1> QED BY <1>1, <1>2, <1>3, PTL DEF Spec

-----------------------------------------------------------------------------
(* What was acknowledged                                                   *)

\* The event was handled, or is being, or the process died over it.
Covered(e) == e \in handled \cup interrupted \/ \E i \in DOMAIN calls : calls[i].event = e

\* So it is with the events for link l up to n.
Acked(l, n) == \A e \in DOMAIN log : scanned[log[e].of] = l /\ e <= n => Covered(e)

\* Every id the bridge may be given, wherever it is kept, and that a dApp knows one
\* connection of its link.
AckInv ==
    /\ \A k, m \in known : scanned[k] = scanned[m] => k = m
    /\ \A i \in DOMAIN calls : Acked(scanned[calls[i].of], calls[i].last)
    /\ \A x \in edits : Acked(scanned[x.of], x.event)
    /\ \A x \in loading : Acked(scanned[x.of], x.last)
    /\ \A l \in Links : Acked(l, lastEventId[l])

LEMMA AckInit == Init => AckInv
<1> SUFFICES ASSUME Init PROVE AckInv
  OBVIOUS
<1>1. DOMAIN log = {} /\ DOMAIN calls = {} /\ known = {} /\ edits = {} /\ loading = {}
  BY DEF Init
<1> QED BY <1>1 DEF AckInv, Acked

LEMMA AckedZero == ASSUME TypeInv, NEW l PROVE Acked(l, 0)
<1>1. Len(log) \in Nat /\ DOMAIN log = 1..Len(log)
  BY TypedSeqs DEF TypeInv
<1> QED BY <1>1 DEF Acked

\* A call goes on listening to the same.
Listens(c, d) == d.of = c.of /\ d.last = c.last /\ d.event = c.event

CallsListen ==
    /\ Len(calls) <= Len(calls')
    /\ \A i \in 1..Len(calls) : Listens(calls[i], calls'[i])

\* What is covered stays so.
LEMMA CoveredKept ==
    ASSUME TypeInv, TypeInv', CallsListen, handled \subseteq handled',
           interrupted \subseteq interrupted'
    PROVE  \A e : Covered(e) => Covered(e)'
<1>1. /\ DOMAIN calls = 1..Len(calls) /\ Len(calls) \in Nat
      /\ DOMAIN calls' = 1..Len(calls') /\ Len(calls') \in Nat
  <2>1. calls' \in Seq(Call)
    BY DEF TypeInv, TypeOK
  <2> QED BY <2>1, LenProperties, TypedSeqs DEF TypeInv
<1>2. \A i \in DOMAIN calls : i \in DOMAIN calls' /\ calls'[i].event = calls[i].event
  BY <1>1 DEF CallsListen, Listens
<1> QED BY <1>2 DEF Covered

\* What is acknowledged stays so.
LEMMA AckedKept ==
    ASSUME UNCHANGED <<scanned, log>>, \A e : Covered(e) => Covered(e)', NEW l, NEW n, Acked(l, n)
    PROVE  Acked(l, n)'
BY DEF Acked

\* A step that leaves the links and the events alone, and in which no event begins.
LEMMA AckSame ==
    ASSUME TypeInv, TypeInv', AckInv, UNCHANGED <<scanned, log>>, CallsListen,
           handled \subseteq handled', interrupted \subseteq interrupted',
           \A k, m \in known' : scanned[k] = scanned[m] => k = m,
           \A i \in DOMAIN calls' : i > Len(calls) => Acked(scanned[calls'[i].of], calls'[i].last),
           \A x \in edits' : x \in edits \/ x.event = 0,
           \A x \in loading' : Acked(scanned[x.of], x.last),
           \A l \in Links : Acked(l, lastEventId'[l])
    PROVE  AckInv'
<1>1. \A e : Covered(e) => Covered(e)'
  BY CoveredKept
<1>2. \A l, n : Acked(l, n) => Acked(l, n)'
  BY <1>1, AckedKept
<1>3. /\ DOMAIN calls = 1..Len(calls) /\ Len(calls) \in Nat
      /\ DOMAIN calls' = 1..Len(calls') /\ Len(calls') \in Nat
  <2>1. calls' \in Seq(Call)
    BY DEF TypeInv, TypeOK
  <2> QED BY <2>1, LenProperties, TypedSeqs DEF TypeInv
<1>4. ASSUME NEW i \in DOMAIN calls' PROVE Acked(scanned[calls'[i].of], calls'[i].last)
  <2>1. CASE i \in DOMAIN calls
    BY <1>3, <2>1 DEF CallsListen, Listens, AckInv
  <2>2. CASE i > Len(calls)
    BY <2>2
  <2> QED BY <1>3, <2>1, <2>2
<1>5. \A x \in edits' : Acked(scanned[x.of], x.event)
  BY AckedZero DEF AckInv
<1>6. /\ (\A i \in DOMAIN calls : Acked(scanned[calls[i].of], calls[i].last))'
      /\ (\A x \in edits : Acked(scanned[x.of], x.event))'
      /\ (\A x \in loading : Acked(scanned[x.of], x.last))'
      /\ (\A l \in Links : Acked(l, lastEventId[l]))'
  <2>1. ASSUME NEW i \in DOMAIN calls' PROVE Acked(scanned[calls[i].of], calls[i].last)'
    <3> DEFINE l == scanned[calls'[i].of]
               n == calls'[i].last
    <3>1. Acked(l, n)
      BY <1>4
    <3>2. \A e \in DOMAIN log : scanned[log[e].of] = l /\ e <= n => Covered(e)'
      BY <1>1, <3>1 DEF Acked
    <3> QED BY <3>2 DEF Acked
  <2>2. ASSUME NEW x \in edits' PROVE Acked(scanned[x.of], x.event)'
    BY <1>1, <1>5 DEF Acked
  <2>3. ASSUME NEW x \in loading' PROVE Acked(scanned[x.of], x.last)'
    BY <1>1 DEF Acked
  <2>4. ASSUME NEW l \in Links PROVE Acked(l, lastEventId[l])'
    BY <1>1 DEF Acked
  <2> QED BY <2>1, <2>2, <2>3, <2>4
<1> QED BY <1>6 DEF AckInv

\* The dispatcher, and the end of calls, change nothing of what is listened to.
LEMMA ListenOn ==
    ASSUME TypeInv, NEW cs \in Seq(Call), Len(cs) = Len(calls),
           \A i \in DOMAIN calls : Listens(calls[i], cs[i]),
           Len(calls) <= Len(calls'),
           \A i \in DOMAIN calls : Dispatched(cs[i], calls'[i])
    PROVE  CallsListen
<1>1. /\ DOMAIN calls = 1..Len(calls) /\ DOMAIN cs = 1..Len(calls)
      /\ \A i \in DOMAIN cs : cs[i] \in Call
  BY TypedSeqs, Elements DEF TypeInv
<1> SUFFICES ASSUME NEW i \in 1..Len(calls) PROVE Listens(calls[i], calls'[i])
  BY DEF CallsListen
<1>2. cs[i] \in Call /\ Listens(calls[i], cs[i]) /\ Dispatched(cs[i], calls'[i])
  BY <1>1
<1>3. calls'[i].of = cs[i].of /\ calls'[i].last = cs[i].last /\ calls'[i].event = cs[i].event
  BY <1>2, DispatchedFacts
<1> QED BY <1>2, <1>3 DEF Listens

LEMMA ListenDispatch ==
    ASSUME TypeInv, NEW cs \in Seq(Call), Len(cs) = Len(calls),
           \A i \in DOMAIN calls : Listens(calls[i], cs[i]), calls' = Dispatch(cs)
    PROVE  CallsListen /\ Len(calls') = Len(calls)
<1>1. DOMAIN calls = 1..Len(calls) /\ DOMAIN cs = 1..Len(calls) /\ Len(calls) \in Nat
  BY TypedSeqs, Elements DEF TypeInv
<1>2. Len(calls') = Len(cs) /\ \A i \in DOMAIN cs : Dispatched(cs[i], calls'[i])
  BY DispatchFacts
<1> QED BY <1>1, <1>2, ListenOn

LEMMA ListenDestroyed ==
    ASSUME TypeInv, NEW is
    PROVE  \A i \in DOMAIN calls : Listens(calls[i], Destroyed(is)[i])
<1> SUFFICES ASSUME NEW i \in DOMAIN calls PROVE Listens(calls[i], Destroyed(is)[i])
  OBVIOUS
<1>1. calls \in Seq(Call) /\ calls[i] \in Call
  BY TypedSeqs DEF TypeInv
<1> DEFINE d == [calls[i] EXCEPT !.phase = "done", !.listed = FALSE]
<1>2. d.of = calls[i].of /\ d.last = calls[i].last /\ d.event = calls[i].event
  BY <1>1 DEF Call
<1>3. Destroyed(is)[i] = d \/ Destroyed(is)[i] = calls[i]
  BY <1>1, DestroyedFacts
<1> HIDE DEF d
<1> QED BY <1>2, <1>3 DEF Listens

\* The same for the calls of a step that ends one.
LEMMA ListenEnded ==
    ASSUME TypeInv, NEW i \in DOMAIN calls,
           calls' = Dispatch([calls EXCEPT ![i].phase = "done"])
    PROVE  CallsListen /\ Len(calls') = Len(calls)
<1> DEFINE c == [calls[i] EXCEPT !.phase = "done"]
           cs == [calls EXCEPT ![i] = c]
<1>1. calls[i] \in Call /\ calls \in Seq(Call)
  BY TypedSeqs DEF TypeInv
<1>2. c \in Call /\ c.of = calls[i].of /\ c.last = calls[i].last /\ c.event = calls[i].event
  BY <1>1 DEF Call
<1>3. calls' = Dispatch(cs)
  OBVIOUS
<1> HIDE DEF c
<1>4. /\ cs \in Seq(Call) /\ Len(cs) = Len(calls) /\ cs[i] = c
      /\ \A j \in DOMAIN calls : j # i => cs[j] = calls[j]
  BY <1>1, <1>2, ChangedFacts
<1> HIDE DEF cs
<1>5. \A j \in DOMAIN calls : Listens(calls[j], cs[j])
  BY <1>2, <1>4 DEF Listens
<1> QED BY <1>3, <1>4, <1>5, ListenDispatch

\* A step that leaves the calls, the store, the loading, the links and the events alone.
LEMMA AckQuiet ==
    ASSUME TypeInv, TypeInv', AckInv, UNCHANGED <<scanned, log, known, lastEventId>>,
           CallsListen, Len(calls') = Len(calls),
           handled \subseteq handled', interrupted \subseteq interrupted',
           \A x \in edits' : x \in edits \/ x.event = 0,
           loading' \subseteq loading
    PROVE  AckInv'
<1>1. DOMAIN calls' = 1..Len(calls) /\ Len(calls) \in Nat
  <2>1. calls' \in Seq(Call) /\ calls \in Seq(Call)
    BY DEF TypeInv, TypeOK
  <2> QED BY <2>1, LenProperties
<1>2. \A i \in DOMAIN calls' : ~(i > Len(calls))
  BY <1>1
<1>3. /\ \A k, m \in known' : scanned[k] = scanned[m] => k = m
      /\ \A x \in loading' : Acked(scanned[x.of], x.last)
      /\ \A l \in Links : Acked(l, lastEventId'[l])
  BY DEF AckInv
<1> QED BY <1>2, <1>3, AckSame

LEMMA ListenSame == ASSUME TypeInv, UNCHANGED calls PROVE CallsListen
<1>1. Len(calls) \in Nat
  BY TypedSeqs DEF TypeInv
<1> QED BY <1>1 DEF CallsListen, Listens

LEMMA WriteAck == ASSUME TypeInv, TypeInv', AckInv, NEW x \in edits, Write(x) PROVE AckInv'
<1>1. /\ UNCHANGED <<calls, loading, scanned, log, known, handled, interrupted>>
      /\ edits' = edits \ {x}
      /\ SaveLastEventId(x) \/ SaveManifest(x) \/ DeleteConnection(x)
  BY DEF Write, process, start, bridge, history
<1>2. x.of \in DOMAIN scanned /\ scanned[x.of] \in Links
  BY Parts, TypedSeqs DEF TypeInv, EditInv
<1>3. lastEventId \in [Links -> 0..Len(log)]
  BY Parts
<1>4. ASSUME NEW l \in Links PROVE Acked(l, lastEventId'[l])
  <2>1. lastEventId'[l] = lastEventId[l] \/ lastEventId'[l] = 0
          \/ (l = scanned[x.of] /\ lastEventId'[l] = x.event)
    BY <1>1, <1>2, <1>3 DEF SaveLastEventId, SaveManifest, DeleteConnection
  <2> QED BY <2>1, AckedZero DEF AckInv
<1>5. Len(calls') = Len(calls) /\ CallsListen
  BY <1>1, ListenSame
<1>6. \A i \in DOMAIN calls' : ~(i > Len(calls))
  BY <1>1, TypedSeqs DEF TypeInv
<1>7. /\ \A k, m \in known' : scanned[k] = scanned[m] => k = m
      /\ \A y \in loading' : Acked(scanned[y.of], y.last)
  BY <1>1 DEF AckInv
<1> QED BY <1>1, <1>4, <1>5, <1>6, <1>7, AckSame

LEMMA InitLoadAck == ASSUME TypeInv, TypeInv', AckInv, InitLoad PROVE AckInv'
<1>1. UNCHANGED <<calls, scanned, log, known, lastEventId, edits, handled, interrupted>>
  BY DEF InitLoad, store, bridge, history
<1>2. \A x \in loading' : Acked(scanned[x.of], x.last)
  BY AckedZero DEF InitLoad
<1>3. /\ CallsListen
      /\ \A i \in DOMAIN calls' : ~(i > Len(calls))
  BY <1>1, ListenSame, TypedSeqs DEF TypeInv
<1>4. /\ \A k, m \in known' : scanned[k] = scanned[m] => k = m
      /\ \A l \in Links : Acked(l, lastEventId'[l])
  BY <1>1 DEF AckInv
<1> QED BY <1>1, <1>2, <1>3, <1>4, AckSame

LEMMA InitReadAck ==
    ASSUME TypeInv, TypeInv', AckInv, NEW x \in loading, InitRead(x) PROVE AckInv'
<1> DEFINE n == lastEventId[scanned[x.of]]
           y == [x EXCEPT !.read = TRUE, !.last = n]
<1>1. UNCHANGED <<calls, scanned, log, known, lastEventId, edits, handled, interrupted>>
  BY DEF InitRead, store, bridge, history
<1>2. /\ x \in [of : Connections, read : BOOLEAN, last : 0..MaxEvents]
      /\ scanned[x.of] \in Links
  BY Parts, TypedSeqs DEF TypeInv, LoadInv
<1>3. y.of = x.of /\ y.last = n
  BY <1>2
<1>4. Acked(scanned[y.of], y.last)
  BY <1>2, <1>3 DEF AckInv
<1>5. loading' = (loading \ {x}) \cup {y}
  BY DEF InitRead
<1> HIDE DEF y
<1>6. \A z \in loading' : Acked(scanned[z.of], z.last)
  BY <1>4, <1>5 DEF AckInv
<1>7. /\ CallsListen
      /\ \A i \in DOMAIN calls' : ~(i > Len(calls))
  BY <1>1, ListenSame, TypedSeqs DEF TypeInv
<1>8. /\ \A k, m \in known' : scanned[k] = scanned[m] => k = m
      /\ \A l \in Links : Acked(l, lastEventId'[l])
  BY <1>1 DEF AckInv
<1> QED BY <1>1, <1>6, <1>7, <1>8, AckSame

LEMMA InitOpenAck ==
    ASSUME TypeInv, TypeInv', AckInv, NEW x \in loading, InitOpen(x) PROVE AckInv'
<1>1. x.of \in DOMAIN scanned /\ x.last \in 0..Len(log) /\ activity \in 1..activity
  <2>1. x \in [of : Connections, read : BOOLEAN, last : 0..MaxEvents] /\ LoadInv(x)
    BY Parts
  <2>2. activity \in Nat /\ activity \in Activities /\ Len(log) \in Nat
    BY TypedSeqs DEF TypeInv
  <2> QED BY <2>1, <2>2, TonConnectConstants DEF LoadInv, Activities
<1> DEFINE cs == Destroyed(Same(x.of, activity))
           c == Stream(x.of, activity, x.last, TRUE)
<1>2. /\ Make(cs, <<c>>) /\ TRUE \in BOOLEAN /\ loading' \subseteq loading
      /\ UNCHANGED <<scanned, log, activity, known, edits, lastEventId, handled, interrupted>>
  BY DEF InitOpen, store, bridge, history
<1>3. /\ cs \in Seq(Call) /\ Len(cs) = Len(calls)
      /\ \A i \in DOMAIN calls : Kept(calls[i], cs[i])
      /\ \A i \in DOMAIN calls : Listens(calls[i], cs[i])
  BY DestroyedKept, ListenDestroyed
<1> HIDE DEF cs
<1>4. /\ Len(calls') = Len(calls) + 1 /\ Dispatched(c, calls'[Len(calls) + 1])
      /\ \A i \in DOMAIN calls : Dispatched(cs[i], calls'[i])
  BY <1>1, <1>2, <1>3, MadeStream
<1>5. /\ DOMAIN calls' = 1..Len(calls') /\ Len(calls) \in Nat
  BY LenProperties DEF TypeInv, TypeOK
<1>6. CallsListen
  BY <1>3, <1>4, <1>5, ListenOn
<1>7. calls'[Len(calls) + 1].of = x.of /\ calls'[Len(calls) + 1].last = x.last
  BY <1>4 DEF Dispatched, Stream
<1>8. ASSUME NEW i \in DOMAIN calls', i > Len(calls)
      PROVE  Acked(scanned[calls'[i].of], calls'[i].last)
  <2>1. i = Len(calls) + 1
    BY <1>4, <1>5, <1>8
  <2> QED BY <1>7, <2>1 DEF AckInv
<1>9. /\ \A k, m \in known' : scanned[k] = scanned[m] => k = m
      /\ \A l \in Links : Acked(l, lastEventId'[l])
      /\ \A y \in loading' : Acked(scanned[y.of], y.last)
  BY <1>2 DEF AckInv
<1> QED BY <1>2, <1>6, <1>8, <1>9, AckSame

\* A connection is opened for which nothing was received yet.
LEMMA BothAck ==
    ASSUME TypeInv, TypeInv', AckInv, NEW cs \in Seq(Call), Len(cs) = Len(calls),
           \A i \in DOMAIN calls : Kept(calls[i], cs[i]),
           \A i \in DOMAIN calls : Listens(calls[i], cs[i]),
           NEW kind \in {"approve", "reject", "delete"},
           NEW k \in DOMAIN scanned, NEW a \in 1..activity, NEW l \in BOOLEAN,
           Make(cs, <<Stream(k, a, 0, l), Post(kind, k, a, Len(calls) + 1)>>),
           UNCHANGED <<scanned, log, activity, known, lastEventId, loading, handled, interrupted>>,
           \A x \in edits' : x \in edits \/ x.event = 0
    PROVE  AckInv'
<1>1. /\ Len(calls') = Len(calls) + 2
      /\ Dispatched(Stream(k, a, 0, l), calls'[Len(calls) + 1])
      /\ Dispatched(Post(kind, k, a, Len(calls) + 1), calls'[Len(calls) + 2])
      /\ \A i \in DOMAIN calls : Dispatched(cs[i], calls'[i])
  BY MadeBoth
<1>2. DOMAIN calls' = 1..Len(calls') /\ Len(calls) \in Nat
  BY LenProperties DEF TypeInv, TypeOK
<1>3. CallsListen
  BY <1>1, <1>2, ListenOn
<1>4. calls'[Len(calls) + 1].last = 0 /\ calls'[Len(calls) + 2].last = 0
  BY <1>1 DEF Dispatched, Stream, Post
<1>5. ASSUME NEW i \in DOMAIN calls', i > Len(calls)
      PROVE  Acked(scanned[calls'[i].of], calls'[i].last)
  <2>1. i = Len(calls) + 1 \/ i = Len(calls) + 2
    BY <1>1, <1>2, <1>5
  <2> QED BY <1>4, <2>1, AckedZero
<1>6. /\ \A m, n \in known' : scanned[m] = scanned[n] => m = n
      /\ \A j \in Links : Acked(j, lastEventId'[j])
      /\ \A y \in loading' : Acked(scanned[y.of], y.last)
  BY DEF AckInv
<1> QED BY <1>3, <1>5, <1>6, AckSame

LEMMA ApproveAck == ASSUME TypeInv, TypeInv', AckInv, NEW k \in approving, Approve(k) PROVE AckInv'
<1> DEFINE cs == Destroyed(Same(k, manager))
<1>1. k \in DOMAIN scanned /\ manager \in 1..activity /\ 0 \in 0..Len(log)
  BY Parts, TypedSeqs DEF TypeInv
<1>2. /\ Make(cs, <<Stream(k, manager, 0, TRUE), Post("approve", k, manager, Len(calls) + 1)>>)
      /\ UNCHANGED <<scanned, log, activity, known, lastEventId, loading, handled, interrupted>>
      /\ edits' = edits \cup Launched("save", k, 0, manager) /\ TRUE \in BOOLEAN
  BY DEF Approve, bridge, history, start
<1>3. /\ cs \in Seq(Call) /\ Len(cs) = Len(calls)
      /\ \A i \in DOMAIN calls : Kept(calls[i], cs[i])
      /\ \A i \in DOMAIN calls : Listens(calls[i], cs[i])
  BY DestroyedKept, ListenDestroyed
<1>4. \A x \in edits' : x \in edits \/ x.event = 0
  BY <1>1, <1>2, LaunchedTypes
<1> HIDE DEF cs
<1> QED BY <1>1, <1>2, <1>3, <1>4, BothAck

LEMMA DismissAck == ASSUME TypeInv, TypeInv', AckInv, OnBottomSheetDismiss PROVE AckInv'
<1>1. sheet \in DOMAIN scanned /\ manager \in 1..activity
  <2>1. DOMAIN scanned = 1..Len(scanned) /\ Len(scanned) \in Nat
    BY TypedSeqs DEF TypeInv
  <2> QED BY <2>1, Parts DEF OnBottomSheetDismiss
<1>2. /\ UNCHANGED <<scanned, log, activity, known, lastEventId, loading, handled, interrupted>>
      /\ UNCHANGED edits
  BY DEF OnBottomSheetDismiss, store, start, bridge, history
<1>3. CASE success
  <2>1. UNCHANGED calls
    BY <1>3 DEF OnBottomSheetDismiss
  <2>2. CallsListen /\ Len(calls') = Len(calls)
    BY <2>1, ListenSame
  <2> QED BY <1>2, <2>2, AckQuiet
<1>4. CASE ~success
  <2>1. /\ Make(calls, <<Stream(sheet, manager, 0, FALSE),
                         Post("reject", sheet, manager, Len(calls) + 1)>>)
        /\ FALSE \in BOOLEAN
    BY <1>4 DEF OnBottomSheetDismiss
  <2>2. /\ calls \in Seq(Call) /\ \A i \in DOMAIN calls : Kept(calls[i], calls[i])
        /\ \A i \in DOMAIN calls : Listens(calls[i], calls[i])
    BY TypedSeqs, KeptSelf DEF TypeInv, Listens
  <2> QED BY <1>1, <1>2, <2>1, <2>2, BothAck
<1> QED BY <1>3, <1>4

LEMMA PostedAck ==
    ASSUME TypeInv, TypeInv', AckInv, NEW i \in DOMAIN calls, Posted(i) PROVE AckInv'
<1>1. /\ UNCHANGED <<scanned, log, lastEventId, loading, edits, handled, interrupted>>
      /\ calls' = Dispatch([calls EXCEPT ![i].phase = "done"])
      /\ known' = known \/ known' = Told(calls[i].of)
  BY DEF Posted, store, start, history
<1>2. CallsListen /\ Len(calls') = Len(calls)
  BY <1>1, ListenEnded
<1>3. DOMAIN calls' = 1..Len(calls) /\ Len(calls) \in Nat
  <2>1. calls' \in Seq(Call) /\ calls \in Seq(Call)
    BY DEF TypeInv, TypeOK
  <2> QED BY <1>2, <2>1, LenProperties
<1>4. \A j \in DOMAIN calls' : ~(j > Len(calls))
  BY <1>3
<1>5. \A k, m \in known' : scanned[k] = scanned[m] => k = m
  BY <1>1 DEF AckInv, Told
<1>6. /\ \A x \in loading' : Acked(scanned[x.of], x.last)
      /\ \A l \in Links : Acked(l, lastEventId'[l])
  BY <1>1 DEF AckInv
<1> QED BY <1>1, <1>2, <1>4, <1>5, <1>6, AckSame

LEMMA RejectedAck ==
    ASSUME TypeInv, TypeInv', AckInv, NEW i \in DOMAIN calls, Rejected(i) PROVE AckInv'
<1>1. /\ UNCHANGED <<scanned, log, known, lastEventId, loading, edits, handled, interrupted>>
      /\ calls' = Dispatch(Destroyed({calls[i].stream}))
  BY DEF Rejected, store, start, bridge, history
<1>2. CallsListen /\ Len(calls') = Len(calls)
  BY <1>1, DestroyedKept, ListenDestroyed, ListenDispatch
<1> QED BY <1>1, <1>2, AckQuiet

LEMMA DeleteBeginsAck ==
    ASSUME TypeInv, TypeInv', AckInv, NEW d \in deleting, DeleteBegins(d) PROVE AckInv'
<1> DEFINE same == Same(d.of, activity)
<1>1. UNCHANGED <<scanned, log, activity, known, lastEventId, loading, handled, interrupted>>
  BY DEF DeleteBegins, start, bridge, history
<1>2. CASE same = {}
  <2>1. UNCHANGED calls /\ edits' = edits \cup Launched("delete", d.of, 0, activity)
    BY <1>2 DEF DeleteBegins
  <2>2. \A x \in edits' : x \in edits \/ x.event = 0
    BY <2>1 DEF Launched
  <2>3. CallsListen /\ Len(calls') = Len(calls)
    BY <2>1, ListenSame
  <2> QED BY <1>1, <2>2, <2>3, AckQuiet
<1>3. CASE same # {}
  <2>1. PICK s \in same : Make(calls, <<Post("delete", calls[s].of, activity, s)>>)
    BY <1>3 DEF DeleteBegins
  <2>2. UNCHANGED edits
    BY <1>3 DEF DeleteBegins
  <2>3. s \in DOMAIN calls /\ calls[s].listed /\ calls[s].activity = activity
    BY DEF Same, Listed
  <2>4. calls[s].kind = "stream" /\ calls[s].of \in DOMAIN scanned /\ calls \in Seq(Call)
    BY <2>3 DEF TypeInv, TypeOK, CallsInv, CallInv
  <2>5. Make(calls, <<Post("delete", calls[s].of, calls[s].activity, s)>>)
    BY <2>1, <2>3
  <2>6. /\ Len(calls') = Len(calls) + 1
        /\ Dispatched(Post("delete", calls[s].of, activity, s), calls'[Len(calls) + 1])
        /\ \A i \in DOMAIN calls : Dispatched(calls[i], calls'[i])
    BY <1>1, <2>3, <2>4, <2>5, MadePost
  <2>7. DOMAIN calls' = 1..Len(calls') /\ Len(calls) \in Nat
    BY LenProperties DEF TypeInv, TypeOK
  <2>8. CallsListen
    BY <2>4, <2>6, <2>7, ListenOn DEF Listens
  <2>9. calls'[Len(calls) + 1].last = 0
    BY <2>6 DEF Dispatched, Post
  <2>10. ASSUME NEW i \in DOMAIN calls', i > Len(calls)
         PROVE  Acked(scanned[calls'[i].of], calls'[i].last)
    <3>1. i = Len(calls) + 1
      BY <2>6, <2>7, <2>10
    <3> QED BY <2>9, <3>1, AckedZero
  <2>11. /\ \A m, n \in known' : scanned[m] = scanned[n] => m = n
         /\ \A j \in Links : Acked(j, lastEventId'[j])
         /\ \A y \in loading' : Acked(scanned[y.of], y.last)
    BY <1>1 DEF AckInv
  <2> QED BY <1>1, <2>2, <2>8, <2>10, <2>11, AckSame
<1> QED BY <1>2, <1>3

LEMMA DeleteEndsAck ==
    ASSUME TypeInv, TypeInv', AckInv, NEW d \in deleting, DeleteEnds(d) PROVE AckInv'
<1>1. /\ UNCHANGED <<scanned, log, known, lastEventId, loading, handled, interrupted>>
      /\ calls' = Dispatch(Destroyed({calls[d.post].stream}))
      /\ edits' = edits \cup Launched("delete", d.of, 0, activity)
  BY DEF DeleteEnds, start, bridge, history
<1>2. CallsListen /\ Len(calls') = Len(calls)
  BY <1>1, DestroyedKept, ListenDestroyed, ListenDispatch
<1>3. \A x \in edits' : x \in edits \/ x.event = 0
  BY <1>1 DEF Launched
<1> QED BY <1>1, <1>2, <1>3, AckQuiet

LEMMA OnFailureAck ==
    ASSUME TypeInv, TypeInv', AckInv, NEW i \in DOMAIN calls, OnFailure(i) PROVE AckInv'
<1>1. /\ UNCHANGED <<scanned, log, known, lastEventId, loading, edits, handled, interrupted>>
      /\ calls' = Dispatch([calls EXCEPT ![i].phase = "done"])
  BY DEF OnFailure, store, start, bridge, history
<1>2. CallsListen /\ Len(calls') = Len(calls)
  BY <1>1, ListenEnded
<1> QED BY <1>1, <1>2, AckQuiet

\* An event begins: it is the next of its connection, and the only one its link has.
LEMMA OnEventAck ==
    ASSUME TypeInv, TypeInv', AckInv, NEW i \in DOMAIN calls, OnEvent(i) PROVE AckInv'
<1>1. PICK e \in Pending(i), c \in Call :
        /\ \A f \in Pending(i) : e <= f
        /\ e \in DOMAIN log /\ e \in 0..Len(log) /\ log[e].of = calls[i].of
        /\ c.of = calls[i].of /\ c.last = e /\ c.event = e
        /\ calls' = [calls EXCEPT ![i] = c]
        /\ edits' = edits \cup Launched("event", calls[i].of, e, calls[i].activity)
  BY OnEventFacts
<1>2. /\ UNCHANGED <<scanned, log, known, lastEventId, loading, handled, interrupted>>
      /\ calls[i].event = 0
  BY DEF OnEvent, start, bridge, history
<1>3. /\ calls \in Seq(Call) /\ calls[i] \in Call /\ DOMAIN log = 1..Len(log) /\ Len(log) \in Nat
  BY TypedSeqs DEF TypeInv
<1>4. /\ DOMAIN calls' = DOMAIN calls /\ calls'[i] = c
      /\ \A j \in DOMAIN calls : j # i => calls'[j] = calls[j]
  BY <1>1, <1>3, ChangedFacts
<1>5. ASSUME NEW f \in DOMAIN log, Covered(f) PROVE Covered(f)'
  <2>1. f # 0
    BY <1>3
  <2>2. \A j \in DOMAIN calls : calls[j].event = f => calls'[j].event = f
    BY <1>2, <1>4, <2>1
  <2> QED BY <1>2, <1>4, <1>5, <2>2 DEF Covered
<1>6. Covered(e)'
  BY <1>1, <1>4 DEF Covered
<1>k. PICK k : k = calls[i].of
  OBVIOUS
<1>u. PICK u : u = scanned[k]
  OBVIOUS
<1>7. Acked(u, e)'
  <2> SUFFICES ASSUME NEW f \in DOMAIN log, scanned[log[f].of] = u, f <= e
               PROVE  Covered(f)'
    BY <1>2 DEF Acked
  <2>1. log[f].of \in known /\ log[e].of \in known
    BY <1>1 DEF TypeInv
  <2>2. log[f].of = k
    BY <1>1, <1>k, <1>u, <2>1 DEF AckInv
  <2>3. CASE f <= calls[i].last
    <3>1. Covered(f)
      BY <2>3, <1>k, <1>u DEF AckInv, Acked
    <3> QED BY <1>5, <3>1
  <2>4. CASE f > calls[i].last
    <3>1. f \in Pending(i)
      BY <2>2, <2>4, <1>k DEF Pending
    <3>2. f = e
      BY <1>1, <1>3, <3>1
    <3> QED BY <1>6, <3>2
  <2> QED BY <1>3, <2>3, <2>4 DEF Call
<1>8. ASSUME NEW j \in DOMAIN calls' PROVE Acked(scanned[calls[j].of], calls[j].last)'
  <2>1. CASE j = i
    BY <1>1, <1>2, <1>4, <1>7, <1>k, <1>u, <2>1 DEF Acked
  <2>2. CASE j # i
    <3>1. Acked(scanned[calls[j].of], calls[j].last)
      BY <1>4 DEF AckInv
    <3> QED BY <1>2, <1>4, <1>5, <2>2, <3>1 DEF Acked
  <2> QED BY <2>1, <2>2
<1>9. ASSUME NEW x \in edits' PROVE Acked(scanned[x.of], x.event)'
  <2>1. CASE x \in edits
    <3>1. Acked(scanned[x.of], x.event)
      BY <2>1 DEF AckInv
    <3> QED BY <1>2, <1>5, <3>1 DEF Acked
  <2>2. CASE x.of = k /\ x.event = e
    BY <1>2, <1>7, <1>u, <2>2 DEF Acked
  <2>3. x \in edits \/ (x.of = k /\ x.event = e)
    BY <1>1, <1>k DEF Launched
  <2> QED BY <2>1, <2>2, <2>3
<1>10. ASSUME NEW x \in loading' PROVE Acked(scanned[x.of], x.last)'
  <2>1. Acked(scanned[x.of], x.last)
    BY <1>2 DEF AckInv
  <2> QED BY <1>2, <1>5, <2>1 DEF Acked
<1>11. ASSUME NEW l \in Links PROVE Acked(l, lastEventId[l])'
  <2>1. Acked(l, lastEventId[l])
    BY DEF AckInv
  <2> QED BY <1>2, <1>5, <2>1 DEF Acked
<1>12. \A m, n \in known' : scanned'[m] = scanned'[n] => m = n
  BY <1>2 DEF AckInv
<1> QED BY <1>8, <1>9, <1>10, <1>11, <1>12 DEF AckInv

\* An event ends: it is handled then.
LEMMA OnEventEndsAck ==
    ASSUME TypeInv, TypeInv', AckInv, NEW i \in DOMAIN calls, OnEventEnds(i) PROVE AckInv'
<1>1. /\ UNCHANGED <<scanned, log, known, lastEventId, loading, edits, interrupted>>
      /\ handled' = handled \cup {calls[i].event}
  BY DEF OnEventEnds, store, start, bridge
<1>2. PICK c \in Call :
        /\ c.of = calls[i].of /\ c.last = calls[i].last /\ c.event = 0
        /\ \/ calls' = [calls EXCEPT ![i] = c]
           \/ calls' = Dispatch([calls EXCEPT ![i] = c])
  BY EventEndsFacts
<1> DEFINE cs == [calls EXCEPT ![i] = c]
<1>3. calls \in Seq(Call) /\ \A j \in DOMAIN calls : calls[j] \in Call
  BY TypedSeqs DEF TypeInv
<1>4. /\ cs \in Seq(Call) /\ DOMAIN cs = DOMAIN calls /\ cs[i] = c
      /\ \A j \in DOMAIN calls : j # i => cs[j] = calls[j]
  BY <1>3, ChangedFacts
<1> HIDE DEF cs
<1>5. calls' = cs \/ calls' = Dispatch(cs)
  BY <1>2 DEF cs
<1>6. /\ DOMAIN calls' = DOMAIN calls
      /\ \A j \in DOMAIN calls : Listens(cs[j], calls'[j])
  <2>1. CASE calls' = cs
    BY <1>4, <2>1 DEF Listens
  <2>2. CASE calls' = Dispatch(cs)
    <3>1. /\ DOMAIN calls' = DOMAIN cs
          /\ \A j \in DOMAIN cs : cs[j] \in Call /\ Dispatched(cs[j], calls'[j])
      BY <1>4, <2>2, DispatchFacts, Elements
    <3> QED BY <1>4, <3>1, DispatchedFacts DEF Listens
  <2> QED BY <1>5, <2>1, <2>2
<1>7. \A j \in DOMAIN calls : /\ calls'[j].of = calls[j].of /\ calls'[j].last = calls[j].last
                              /\ j # i => calls'[j].event = calls[j].event
  BY <1>2, <1>4, <1>6 DEF Listens
<1>8. \A f : Covered(f) => Covered(f)'
  BY <1>1, <1>6, <1>7 DEF Covered
<1>9. ASSUME NEW j \in DOMAIN calls' PROVE Acked(scanned[calls[j].of], calls[j].last)'
  <2>1. Acked(scanned[calls[j].of], calls[j].last)
    BY <1>6 DEF AckInv
  <2> QED BY <1>1, <1>6, <1>7, <1>8, <2>1 DEF Acked
<1>10. ASSUME NEW x \in edits' PROVE Acked(scanned[x.of], x.event)'
  <2>1. Acked(scanned[x.of], x.event)
    BY <1>1 DEF AckInv
  <2> QED BY <1>1, <1>8, <2>1 DEF Acked
<1>11. ASSUME NEW x \in loading' PROVE Acked(scanned[x.of], x.last)'
  <2>1. Acked(scanned[x.of], x.last)
    BY <1>1 DEF AckInv
  <2> QED BY <1>1, <1>8, <2>1 DEF Acked
<1>12. ASSUME NEW l \in Links PROVE Acked(l, lastEventId[l])'
  <2>1. Acked(l, lastEventId[l])
    BY DEF AckInv
  <2> QED BY <1>1, <1>8, <2>1 DEF Acked
<1>13. \A m, n \in known' : scanned'[m] = scanned'[n] => m = n
  BY <1>1 DEF AckInv
<1> QED BY <1>9, <1>10, <1>11, <1>12, <1>13 DEF AckInv

\* More links and more events: what is acknowledged is older.
LEMMA GrownAck ==
    ASSUME TypeInv, AckInv, Len(log') \in Nat, DOMAIN log' = 1..Len(log'),
           UNCHANGED <<calls, edits, loading, lastEventId, known, handled, interrupted>>,
           \A k \in DOMAIN scanned : scanned'[k] = scanned[k],
           \A e \in DOMAIN log : log'[e] = log[e]
    PROVE  AckInv'
<1>1. /\ Len(log) \in Nat /\ DOMAIN log = 1..Len(log)
      /\ \A i \in DOMAIN calls : calls[i] \in Call /\ CallInv(calls[i])
      /\ TypeOK
  BY TypedSeqs DEF TypeInv, CallsInv
<1>2. \A e \in DOMAIN log : log[e].of \in known /\ log[e].of \in DOMAIN scanned
  BY Parts DEF TypeInv
<1>3. ASSUME NEW l, NEW n \in Nat, n <= Len(log), Acked(l, n) PROVE Acked(l, n)'
  <2> SUFFICES ASSUME NEW e \in DOMAIN log', scanned'[log'[e].of] = l, e <= n
               PROVE  Covered(e)'
    BY DEF Acked
  <2>1. e \in DOMAIN log
    BY <1>1, <1>3
  <2>2. scanned[log[e].of] = l
    BY <1>2, <2>1
  <2> QED BY <1>3, <2>1, <2>2 DEF Acked, Covered
<1>4. ASSUME NEW i \in DOMAIN calls' PROVE Acked(scanned[calls[i].of], calls[i].last)'
  <2>1. /\ calls[i].of \in DOMAIN scanned /\ calls[i].last \in Nat /\ calls[i].last <= Len(log)
        /\ Acked(scanned[calls[i].of], calls[i].last)
    BY <1>1 DEF CallInv, Call, AckInv
  <2>2. PICK l, n : l = scanned[calls[i].of] /\ n = calls[i].last
    OBVIOUS
  <2>3. Acked(l, n)'
    BY <1>3, <2>1, <2>2
  <2>4. l = scanned'[calls'[i].of] /\ n = calls'[i].last
    BY <2>1, <2>2
  <2> QED BY <2>3, <2>4 DEF Acked
<1>5. ASSUME NEW x \in edits' PROVE Acked(scanned[x.of], x.event)'
  <2>1. /\ x.of \in DOMAIN scanned /\ x.event \in Nat /\ x.event <= Len(log)
        /\ Acked(scanned[x.of], x.event)
    BY Parts DEF EditInv, Edit, AckInv
  <2>2. PICK l : l = scanned[x.of]
    OBVIOUS
  <2>3. Acked(l, x.event)'
    BY <1>3, <2>1, <2>2
  <2>4. l = scanned'[x.of]
    BY <2>1, <2>2
  <2> QED BY <2>3, <2>4 DEF Acked
<1>6. ASSUME NEW x \in loading' PROVE Acked(scanned[x.of], x.last)'
  <2>1. /\ x.of \in DOMAIN scanned /\ x.last \in Nat /\ x.last <= Len(log)
        /\ Acked(scanned[x.of], x.last)
    BY Parts DEF LoadInv, AckInv
  <2>2. PICK l : l = scanned[x.of]
    OBVIOUS
  <2>3. Acked(l, x.last)'
    BY <1>3, <2>1, <2>2
  <2>4. l = scanned'[x.of]
    BY <2>1, <2>2
  <2> QED BY <2>3, <2>4 DEF Acked
<1>7. ASSUME NEW l \in Links PROVE Acked(l, lastEventId[l])'
  <2>1. PICK n : n = lastEventId[l]
    OBVIOUS
  <2>2. Acked(l, n) /\ n \in Nat /\ n <= Len(log)
    BY <1>1, <2>1, Parts DEF AckInv
  <2>3. Acked(l, n)'
    BY <1>3, <2>2
  <2> QED BY <2>1, <2>3 DEF Acked
<1>8. \A k, m \in known' : scanned'[k] = scanned'[m] => k = m
  BY Parts DEF AckInv
<1> QED BY <1>4, <1>5, <1>6, <1>7, <1>8 DEF AckInv

LEMMA ProcessStringAck == ASSUME TypeInv, AckInv, NEW l \in Links, ProcessString(l) PROVE AckInv'
<1>1. /\ scanned' = Append(scanned, l) /\ UNCHANGED <<known, log>>
      /\ UNCHANGED <<calls, edits, loading, lastEventId, handled, interrupted>>
  BY DEF ProcessString, store, start, history
<1>2. /\ scanned \in Seq(Links) /\ DOMAIN scanned = 1..Len(scanned)
      /\ Len(log) \in Nat /\ DOMAIN log = 1..Len(log)
  BY TypedSeqs DEF TypeInv
<1>3. \A k \in DOMAIN scanned : scanned'[k] = scanned[k]
  BY <1>1, <1>2, Appended
<1> QED BY <1>1, <1>2, <1>3, GrownAck

LEMMA SendAck ==
    ASSUME TypeInv, AckInv, NEW k \in known, NEW ok \in BOOLEAN, Send(k, ok) PROVE AckInv'
<1>1. /\ log \in Seq([of : Connections, ok : BOOLEAN]) /\ Len(log) \in Nat
      /\ DOMAIN log = 1..Len(log) /\ k \in Connections
  BY TypedSeqs, Parts DEF TypeInv
<1> DEFINE x == [of |-> k, ok |-> ok]
<1>2. x \in [of : Connections, ok : BOOLEAN]
  BY <1>1
<1>3. /\ log' = Append(log, x) /\ UNCHANGED <<known, scanned>>
      /\ UNCHANGED <<calls, edits, loading, lastEventId, handled, interrupted>>
  BY DEF Send, store, process, start, history
<1> HIDE DEF x
<1>4. /\ Len(log') = Len(log) + 1 /\ DOMAIN log' = 1..(Len(log) + 1)
      /\ \A e \in 1..Len(log) : log'[e] = log[e]
  BY <1>1, <1>2, <1>3, Appended
<1> QED BY <1>1, <1>3, <1>4, GrownAck

LEMMA NewActivityAck ==
    ASSUME TypeInv, TypeInv', AckInv, NEW kept \in BOOLEAN, NewActivity(kept) PROVE AckInv'
<1>1. /\ UNCHANGED <<scanned, log, known, lastEventId, calls, handled, interrupted>>
      /\ edits' \subseteq edits /\ loading' = {}
  BY DEF NewActivity, bridge, history
<1>2. CallsListen /\ Len(calls') = Len(calls)
  BY <1>1, ListenSame
<1> QED BY <1>1, <1>2, AckQuiet

\* The process dies: the events being handled are interrupted.
LEMMA DieAck == ASSUME TypeInv, AckInv, Die PROVE AckInv'
<1>1. /\ UNCHANGED <<scanned, log, known, lastEventId, handled>>
      /\ edits' = {} /\ loading' = {} /\ calls' = <<>>
      /\ interrupted' = interrupted \cup ({calls[i].event : i \in DOMAIN calls} \ {0})
  BY DEF Die, bridge
<1>2. DOMAIN calls' = {} /\ DOMAIN log = 1..Len(log) /\ Len(log) \in Nat
  BY <1>1, TypedSeqs DEF TypeInv
<1>3. ASSUME NEW e \in DOMAIN log, Covered(e) PROVE Covered(e)'
  BY <1>1, <1>2, <1>3 DEF Covered
<1>4. ASSUME NEW l \in Links PROVE Acked(l, lastEventId[l])'
  <2>1. Acked(l, lastEventId[l])
    BY DEF AckInv
  <2> QED BY <1>1, <1>3, <2>1 DEF Acked
<1>5. \A k, m \in known' : scanned'[k] = scanned'[m] => k = m
  BY <1>1 DEF AckInv
<1> QED BY <1>1, <1>2, <1>4, <1>5 DEF AckInv

LEMMA AckStep == TypeInv /\ TypeInv' /\ AckInv /\ [Next]_vars => AckInv'
<1> SUFFICES ASSUME TypeInv, TypeInv', AckInv, [Next]_vars PROVE AckInv'
  OBVIOUS
<1> DEFINE calm == /\ UNCHANGED <<scanned, log, known, lastEventId, calls, edits>>
                   /\ UNCHANGED <<loading, handled, interrupted>>
<1>1. ASSUME calm PROVE AckInv'
  BY <1>1, ListenSame, AckQuiet
<1>2. CASE UNCHANGED vars
  BY <1>1, <1>2 DEF vars, store, process, start, bridge, history
<1>3. ASSUME NEW x \in edits, Write(x) PROVE AckInv'
  BY <1>3, WriteAck
<1>4. CASE InitLoad
  BY <1>4, InitLoadAck
<1>5. ASSUME NEW x \in loading, InitRead(x) \/ InitOpen(x) PROVE AckInv'
  BY <1>5, InitReadAck, InitOpenAck
<1>6. ASSUME NEW l \in Links, ProcessString(l) PROVE AckInv'
  BY <1>6, ProcessStringAck
<1>7. CASE ApproveConnectionRequest
  BY <1>1, <1>7 DEF ApproveConnectionRequest, store, start, bridge, history
<1>8. ASSUME NEW k \in approving, Approve(k) PROVE AckInv'
  BY <1>8, ApproveAck
<1>9. CASE OnBottomSheetDismiss
  BY <1>9, DismissAck
<1>10. ASSUME NEW k \in manifests, DeleteAppWithManifest(k) PROVE AckInv'
  BY <1>1, <1>10 DEF DeleteAppWithManifest, store, start, bridge, history
<1>11. ASSUME NEW d \in deleting, DeleteBegins(d) \/ DeleteEnds(d) PROVE AckInv'
  BY <1>11, DeleteBeginsAck, DeleteEndsAck
<1>12. ASSUME NEW k \in known, NEW ok \in BOOLEAN, Send(k, ok) PROVE AckInv'
  BY <1>12, SendAck
<1>13. ASSUME NEW i \in DOMAIN calls, Posted(i) \/ Rejected(i) PROVE AckInv'
  BY <1>13, PostedAck, RejectedAck
<1>14. ASSUME NEW i \in DOMAIN calls, OnEvent(i) \/ OnEventEnds(i) \/ OnFailure(i)
       PROVE  AckInv'
  BY <1>14, OnEventAck, OnEventEndsAck, OnFailureAck
<1>15. ASSUME NEW kept \in BOOLEAN, NewActivity(kept) PROVE AckInv'
  BY <1>15, NewActivityAck
<1>16. CASE Die
  BY <1>16, DieAck
<1> HIDE DEF calm
<1> QED
  BY <1>2, <1>3, <1>4, <1>5, <1>6, <1>7, <1>8, <1>9, <1>10, <1>11, <1>12, <1>13,
     <1>14, <1>15, <1>16 DEF Next

\* No id the bridge may be given, be it in the store, on its way there, read for a
\* connection, or that of a stream, passes an event that was not handled, is not
\* being handled, and was not cut off by the death of the process.
THEOREM AckedWasHandledHolds == Spec => [](AckedWasHandled /\ AckInv)
<1>1. Init => TypeInv /\ AckInv
  BY TypeInit, AckInit
<1>2. TypeInv /\ AckInv /\ [Next]_vars => (TypeInv /\ AckInv)'
  BY TypeStep, AckStep
<1>3. TypeInv /\ AckInv => AckedWasHandled /\ AckInv
  <2> SUFFICES ASSUME TypeInv, AckInv, NEW k \in manifests, NEW e \in DOMAIN log,
                      log[e].of = k, e <= lastEventId[scanned[k]]
               PROVE  Covered(e)
    BY DEF AckedWasHandled, Covered
  <2>1. scanned[k] \in Links
    BY Parts, TypedSeqs DEF TypeInv
  <2> QED BY <2>1 DEF AckInv, Acked
<1> QED BY <1>1, <1>2, <1>3, PTL DEF Spec

-----------------------------------------------------------------------------
(* Posts get their turn                                                    *)

\* What is queued is behind as many calls as there are places.
WaitingIn(cs) ==
    \A i \in DOMAIN cs : cs[i].phase = "queued" => Cardinality(Ahead(cs, i)) >= MaxPerHost

\* A stream that is not done is the connection of a dApp, or a request is being
\* declined over it.
OwnerOf(cs, i) ==
    cs[i].listed \/ \E j \in DOMAIN cs : cs[j].kind = "reject" /\ cs[j].stream = i

OwnedIn(cs) ==
    \A i \in DOMAIN cs : cs[i].kind = "stream" /\ cs[i].phase # "done" => OwnerOf(cs, i)

MoveInv == WaitingIn(calls) /\ OwnedIn(calls)

LEMMA AheadFinite ==
    ASSUME NEW cs \in Seq(Call), NEW i
    PROVE  IsFiniteSet(Ahead(cs, i)) /\ Cardinality(Ahead(cs, i)) \in Nat
<1>1. DOMAIN cs = 1..Len(cs) /\ Len(cs) \in Nat
  BY LenProperties
<1>2. IsFiniteSet(1..Len(cs))
  BY <1>1, FS_Interval
<1>3. Ahead(cs, i) \in SUBSET (1..Len(cs))
  BY <1>1 DEF Ahead
<1>4. IsFiniteSet(Ahead(cs, i))
  BY <1>2, <1>3, FS_Subset
<1> QED BY <1>4, FS_CardinalityType

\* The dispatcher leaves no place free, since what was ahead of a call still is.
LEMMA DispatchWaiting ==
    ASSUME NEW cs \in Seq(Call)
    PROVE  WaitingIn(Dispatch(cs))
<1> DEFINE ds == Dispatch(cs)
<1>1. /\ ds \in Seq(Call) /\ DOMAIN ds = DOMAIN cs /\ DOMAIN cs = 1..Len(cs) /\ Len(cs) \in Nat
      /\ \A i \in DOMAIN cs : cs[i] \in Call /\ Dispatched(cs[i], ds[i])
  BY DispatchFacts, Elements
<1>2. SUFFICES ASSUME NEW i \in DOMAIN cs, ds[i].phase = "queued"
               PROVE  Cardinality(Ahead(ds, i)) >= MaxPerHost
  BY <1>1 DEF WaitingIn
<1>3. cs[i].phase = "queued" /\ ~(Cardinality(Ahead(cs, i)) < MaxPerHost)
  <2>1. CASE cs[i].phase = "queued" /\ Cardinality(Ahead(cs, i)) < MaxPerHost
    <3>1. ds[i] = [cs[i] EXCEPT !.phase = "running"]
      BY <2>1 DEF Dispatch
    <3>2. ds[i].phase = "running"
      BY <1>1, <3>1 DEF Call
    <3> QED BY <1>2, <3>2
  <2>2. CASE ~(cs[i].phase = "queued" /\ Cardinality(Ahead(cs, i)) < MaxPerHost)
    <3>1. ds[i] = cs[i]
      BY <2>2 DEF Dispatch
    <3> QED BY <1>2, <2>2, <3>1
  <2> QED BY <2>1, <2>2
<1> HIDE DEF ds
<1>4. Ahead(cs, i) \subseteq Ahead(ds, i)
  <2> SUFFICES ASSUME NEW j \in Ahead(cs, i) PROVE j \in Ahead(ds, i)
    OBVIOUS
  <2>1. /\ j \in DOMAIN ds /\ cs[j].activity = cs[i].activity
        /\ cs[j].phase = "running" \/ (cs[j].phase = "queued" /\ j < i)
    BY <1>1 DEF Ahead
  <2>2. ds[j].activity = cs[j].activity /\ ds[i].activity = cs[i].activity
    BY <1>1, <2>1, DispatchedFacts
  <2>3. cs[j].phase = "running" => ds[j].phase = "running"
    BY <1>1, <2>1, DispatchedFacts
  <2>4. cs[j].phase = "queued" => ds[j].phase \in {"queued", "running"}
    BY <1>1, <2>1 DEF Dispatched, Call
  <2> QED BY <2>1, <2>2, <2>3, <2>4 DEF Ahead
<1>5. Cardinality(Ahead(cs, i)) <= Cardinality(Ahead(ds, i))
  BY <1>1, <1>4, AheadFinite, FS_Subset
<1>6. Cardinality(Ahead(cs, i)) \in Nat /\ Cardinality(Ahead(ds, i)) \in Nat
  BY <1>1, AheadFinite
<1> QED BY <1>3, <1>5, <1>6, TonConnectConstants

\* d is the call c later: a connection leaves the list only when it is destroyed.
Stays(c, d) ==
    /\ d.kind = c.kind /\ d.stream = c.stream
    /\ c.phase = "done" => d.phase = "done"
    /\ c.listed => d.listed \/ d.phase = "done"

LEMMA StaysDispatched ==
    ASSUME NEW c, NEW d \in Call, NEW e, Stays(c, d), Dispatched(d, e)
    PROVE  Stays(c, e)
BY DispatchedFacts DEF Stays

\* Streams keep their owners, when those that are new have one.
LEMMA OwnedOn ==
    ASSUME NEW cs \in Seq(Call), NEW ds \in Seq(Call), Len(cs) <= Len(ds), OwnedIn(cs),
           \A i \in DOMAIN cs : Stays(cs[i], ds[i]),
           \A i \in DOMAIN ds : i > Len(cs) /\ ds[i].kind = "stream" => OwnerOf(ds, i)
    PROVE  OwnedIn(ds)
<1>1. /\ DOMAIN cs = 1..Len(cs) /\ DOMAIN ds = 1..Len(ds) /\ Len(cs) \in Nat /\ Len(ds) \in Nat
  BY LenProperties
<1>2. SUFFICES ASSUME NEW i \in DOMAIN ds, ds[i].kind = "stream", ds[i].phase # "done",
                      i \in DOMAIN cs
               PROVE  OwnerOf(ds, i)
  BY <1>1 DEF OwnedIn
<1>3. OwnerOf(cs, i)
  BY <1>2 DEF Stays, OwnedIn
<1>4. CASE cs[i].listed
  BY <1>2, <1>4 DEF Stays, OwnerOf
<1>5. ASSUME NEW j \in DOMAIN cs, cs[j].kind = "reject", cs[j].stream = i
      PROVE  OwnerOf(ds, i)
  <2>1. j \in DOMAIN ds /\ ds[j].kind = "reject" /\ ds[j].stream = i
    BY <1>1, <1>5 DEF Stays
  <2> QED BY <2>1 DEF OwnerOf
<1> QED BY <1>3, <1>4, <1>5 DEF OwnerOf

\* The turn of the dispatcher, after calls that stay.
LEMMA MoveDispatch ==
    ASSUME TypeInv, MoveInv, NEW cs \in Seq(Call), Len(cs) = Len(calls),
           \A i \in DOMAIN calls : Stays(calls[i], cs[i]), calls' = Dispatch(cs)
    PROVE  MoveInv'
<1>1. /\ calls \in Seq(Call) /\ DOMAIN calls = 1..Len(calls) /\ Len(calls) \in Nat
      /\ DOMAIN cs = 1..Len(cs) /\ \A i \in DOMAIN cs : cs[i] \in Call
  BY TypedSeqs, Elements DEF TypeInv
<1>2. /\ calls' \in Seq(Call) /\ Len(calls') = Len(cs) /\ DOMAIN calls' = DOMAIN cs
      /\ \A i \in DOMAIN cs : Dispatched(cs[i], calls'[i])
  BY DispatchFacts
<1>3. \A i \in DOMAIN calls : Stays(calls[i], calls'[i])
  BY <1>1, <1>2, StaysDispatched
<1>4. \A i \in DOMAIN calls' : ~(i > Len(calls))
  BY <1>1, <1>2
<1>5. OwnedIn(calls')
  BY <1>1, <1>2, <1>3, <1>4, OwnedOn DEF MoveInv
<1>6. WaitingIn(calls')
  BY DispatchWaiting
<1> QED BY <1>5, <1>6 DEF MoveInv, WaitingIn, OwnedIn, OwnerOf, Ahead

\* The turn of the dispatcher, with new calls.
LEMMA MoveMake ==
    ASSUME TypeInv, MoveInv, NEW cs \in Seq(Call), NEW new \in Seq(Call), Len(cs) = Len(calls),
           \A i \in DOMAIN calls : Stays(calls[i], cs[i]), Make(cs, new),
           \A i \in DOMAIN calls' : i > Len(calls) /\ calls'[i].kind = "stream"
                                      => OwnerOf(calls', i)
    PROVE  MoveInv'
<1>1. /\ calls \in Seq(Call) /\ DOMAIN calls = 1..Len(calls) /\ Len(calls) \in Nat
      /\ DOMAIN cs = 1..Len(cs) /\ \A i \in DOMAIN cs : cs[i] \in Call
      /\ Len(new) \in Nat
  BY TypedSeqs, Elements DEF TypeInv
<1>2. /\ calls' \in Seq(Call) /\ Len(calls') = Len(cs) + Len(new)
      /\ \A i \in 1..Len(cs) : Dispatched(cs[i], calls'[i])
  BY MakeFacts
<1>3. \A i \in DOMAIN calls : Stays(calls[i], calls'[i])
  BY <1>1, <1>2, StaysDispatched
<1>4. OwnedIn(calls')
  <2>1. Len(calls) <= Len(calls') /\ OwnedIn(calls)
    BY <1>1, <1>2 DEF MoveInv
  <2> QED BY <1>1, <1>2, <1>3, <2>1, OwnedOn
<1>5. WaitingIn(calls')
  <2>1. cs \o new \in Seq(Call)
    BY ConcatProperties
  <2> QED BY <2>1, DispatchWaiting DEF Make
<1> QED BY <1>4, <1>5 DEF MoveInv, WaitingIn, OwnedIn, OwnerOf, Ahead

\* What is destroyed stays, in this sense.
LEMMA DestroyedStays ==
    ASSUME TypeInv, NEW is
    PROVE  \A i \in DOMAIN calls : Stays(calls[i], Destroyed(is)[i])
<1> SUFFICES ASSUME NEW i \in DOMAIN calls PROVE Stays(calls[i], Destroyed(is)[i])
  OBVIOUS
<1>1. calls \in Seq(Call) /\ calls[i] \in Call
  BY TypedSeqs DEF TypeInv
<1> DEFINE d == [calls[i] EXCEPT !.phase = "done", !.listed = FALSE]
<1>2. d.kind = calls[i].kind /\ d.stream = calls[i].stream /\ d.phase = "done"
  BY <1>1 DEF Call
<1>3. Destroyed(is)[i] = d \/ Destroyed(is)[i] = calls[i]
  BY <1>1, DestroyedFacts
<1> HIDE DEF d
<1> QED BY <1>2, <1>3 DEF Stays

LEMMA MoveSame == ASSUME MoveInv, UNCHANGED calls PROVE MoveInv'
BY DEF MoveInv, WaitingIn, OwnedIn, OwnerOf, Ahead

\* One call ends.
LEMMA MoveEnded ==
    ASSUME TypeInv, MoveInv, NEW i \in DOMAIN calls,
           calls' = Dispatch([calls EXCEPT ![i].phase = "done"])
    PROVE  MoveInv'
<1> DEFINE c == [calls[i] EXCEPT !.phase = "done"]
           cs == [calls EXCEPT ![i] = c]
<1>1. calls[i] \in Call /\ calls \in Seq(Call)
  BY TypedSeqs DEF TypeInv
<1>2. /\ c \in Call /\ c.kind = calls[i].kind /\ c.stream = calls[i].stream /\ c.phase = "done"
  BY <1>1 DEF Call
<1>3. calls' = Dispatch(cs)
  OBVIOUS
<1> HIDE DEF c
<1>4. /\ cs \in Seq(Call) /\ Len(cs) = Len(calls) /\ cs[i] = c
      /\ \A j \in DOMAIN calls : j # i => cs[j] = calls[j]
  BY <1>1, <1>2, ChangedFacts
<1> HIDE DEF cs
<1>5. \A j \in DOMAIN calls : Stays(calls[j], cs[j])
  BY <1>2, <1>4 DEF Stays
<1> QED BY <1>3, <1>4, <1>5, MoveDispatch

\* One call changed that keeps its place.
LEMMA MoveChanged ==
    ASSUME TypeInv, MoveInv, NEW i \in DOMAIN calls, NEW c \in Call, Kept(calls[i], c),
           c.phase = calls[i].phase, c.listed <=> calls[i].listed,
           calls' = [calls EXCEPT ![i] = c]
    PROVE  MoveInv'
<1>1. calls \in Seq(Call) /\ calls[i] \in Call
  BY TypedSeqs DEF TypeInv
<1>2. /\ DOMAIN calls' = DOMAIN calls /\ calls'[i] = c
      /\ \A j \in DOMAIN calls : j # i => calls'[j] = calls[j]
  BY <1>1, ChangedFacts
<1>3. \A j \in DOMAIN calls : /\ calls'[j].phase = calls[j].phase
                              /\ calls'[j].activity = calls[j].activity
                              /\ calls'[j].kind = calls[j].kind
                              /\ calls'[j].stream = calls[j].stream
                              /\ calls'[j].listed <=> calls[j].listed
  BY <1>2 DEF Kept
<1>4. ASSUME NEW j \in DOMAIN calls PROVE Ahead(calls', j) = Ahead(calls, j)
  BY <1>2, <1>3 DEF Ahead
<1>5. WaitingIn(calls')
  BY <1>2, <1>3, <1>4 DEF WaitingIn, MoveInv
<1>6. OwnedIn(calls')
  <2> SUFFICES ASSUME NEW j \in DOMAIN calls, calls'[j].kind = "stream", calls'[j].phase # "done"
               PROVE  OwnerOf(calls', j)
    BY <1>2 DEF OwnedIn
  <2>1. OwnerOf(calls, j)
    BY <1>3 DEF MoveInv, OwnedIn
  <2> QED BY <1>2, <1>3, <2>1 DEF OwnerOf
<1> QED BY <1>5, <1>6 DEF MoveInv, WaitingIn, OwnedIn, OwnerOf, Ahead

LEMMA InitOpenMove ==
    ASSUME TypeInv, TypeInv', MoveInv, NEW x \in loading, InitOpen(x) PROVE MoveInv'
<1> DEFINE cs == Destroyed(Same(x.of, activity))
           c == Stream(x.of, activity, x.last, TRUE)
<1>1. /\ cs \in Seq(Call) /\ Len(cs) = Len(calls)
      /\ \A i \in DOMAIN calls : Stays(calls[i], cs[i])
  BY DestroyedKept, DestroyedStays
<1>2. Make(cs, <<c>>)
  BY DEF InitOpen
<1>3. x.of \in DOMAIN scanned /\ activity \in Activities /\ x.last \in 0..MaxEvents
  BY Parts, TypedSeqs DEF LoadInv, TypeInv
<1>4. c \in Call /\ c.listed
  <2>1. c.listed /\ TypeOK
    BY DEF Stream, TypeInv
  <2>2. 0 \in 0..MaxCalls /\ TRUE \in BOOLEAN
    BY TonConnectConstants
  <2>3. c \in Call
    BY <1>3, <2>1, <2>2, NewCallTypes
  <2> QED BY <2>1, <2>3
<1> HIDE DEF cs, c
<1>5. <<c>> \in Seq(Call)
  BY <1>4
<1>6. /\ Len(calls') = Len(cs) + 1 /\ Dispatched(c, calls'[Len(cs) + 1])
      /\ DOMAIN calls' = 1..Len(calls') /\ Len(calls) \in Nat
  BY <1>1, <1>2, <1>4, MakeOne, Elements, TypedSeqs DEF TypeInv
<1>7. ASSUME NEW i \in DOMAIN calls', i > Len(calls) PROVE OwnerOf(calls', i)
  <2>1. i = Len(cs) + 1
    BY <1>1, <1>6, <1>7
  <2> QED BY <1>4, <1>6, <2>1, DispatchedFacts DEF OwnerOf
<1> QED BY <1>1, <1>2, <1>5, <1>7, MoveMake

\* A stream and a post for it: the stream is listed, or the request is declined.
LEMMA BothMove ==
    ASSUME TypeInv, MoveInv, NEW cs \in Seq(Call), Len(cs) = Len(calls),
           \A i \in DOMAIN calls : Stays(calls[i], cs[i]),
           NEW k \in DOMAIN scanned, NEW a \in Activities, NEW l \in BOOLEAN,
           NEW kind \in {"approve", "reject"}, l \/ kind = "reject",
           Make(cs, <<Stream(k, a, 0, l), Post(kind, k, a, Len(calls) + 1)>>)
    PROVE  MoveInv'
<1> DEFINE c == Stream(k, a, 0, l)
           d == Post(kind, k, a, Len(calls) + 1)
<1>1. Len(calls) \in Nat /\ calls \in Seq(Call)
  BY TypedSeqs DEF TypeInv
<1>2. Len(calls) + 1 \in 0..MaxCalls
  <2>1. <<c, d>> \in Seq({c, d}) /\ Len(<<c, d>>) = 2
    OBVIOUS
  <2> QED BY <1>1, <2>1, TonConnectConstants DEF Make
<1>3. c \in Call /\ d \in Call
  BY <1>2, NewCallTypes, TonConnectConstants DEF TypeInv
<1>4. (c.listed <=> l) /\ d.kind = kind /\ d.stream = Len(calls) + 1
  BY DEF Stream, Post
<1> HIDE DEF c, d
<1>5. <<c, d>> \in Seq(Call) /\ Make(cs, <<c, d>>)
  BY <1>3 DEF c, d
<1>6. /\ calls' \in Seq(Call) /\ Len(calls') = Len(cs) + 2
      /\ Dispatched(c, calls'[Len(cs) + 1]) /\ Dispatched(d, calls'[Len(cs) + 2])
  BY <1>3, <1>5, MakeTwo
<1>7. DOMAIN calls' = 1..(Len(calls) + 2)
  BY <1>6, Elements
<1>8. ASSUME NEW i \in DOMAIN calls', i > Len(calls), calls'[i].kind = "stream"
      PROVE  OwnerOf(calls', i)
  <2>1. /\ calls'[Len(calls) + 1].listed <=> l
        /\ calls'[Len(calls) + 2].kind = kind
        /\ calls'[Len(calls) + 2].stream = Len(calls) + 1
        /\ Len(calls) + 2 \in DOMAIN calls'
    BY <1>1, <1>3, <1>4, <1>6, <1>7, DispatchedFacts
  <2>2. i = Len(calls) + 1
    BY <1>1, <1>7, <1>8, <2>1
  <2>3. CASE l
    BY <2>1, <2>2, <2>3 DEF OwnerOf
  <2>4. CASE kind = "reject"
    BY <2>1, <2>2, <2>4 DEF OwnerOf
  <2> QED BY <2>3, <2>4
<1> QED BY <1>5, <1>8, MoveMake

LEMMA ApproveMove == ASSUME TypeInv, MoveInv, NEW k \in approving, Approve(k) PROVE MoveInv'
<1> DEFINE cs == Destroyed(Same(k, manager))
<1>1. /\ cs \in Seq(Call) /\ Len(cs) = Len(calls)
      /\ \A i \in DOMAIN calls : Stays(calls[i], cs[i])
  BY DestroyedKept, DestroyedStays
<1>2. Make(cs, <<Stream(k, manager, 0, TRUE), Post("approve", k, manager, Len(calls) + 1)>>)
  BY DEF Approve
<1>3. k \in DOMAIN scanned /\ manager \in Activities /\ TRUE \in BOOLEAN
  BY Parts, TypedSeqs DEF TypeInv
<1> HIDE DEF cs
<1> QED BY <1>1, <1>2, <1>3, BothMove

LEMMA DismissMove == ASSUME TypeInv, MoveInv, OnBottomSheetDismiss PROVE MoveInv'
<1>1. CASE success
  BY <1>1, MoveSame DEF OnBottomSheetDismiss
<1>2. CASE ~success
  <2>1. Make(calls, <<Stream(sheet, manager, 0, FALSE),
                      Post("reject", sheet, manager, Len(calls) + 1)>>)
    BY <1>2 DEF OnBottomSheetDismiss
  <2>2. sheet \in DOMAIN scanned /\ manager \in Activities /\ FALSE \in BOOLEAN
    <3>1. DOMAIN scanned = 1..Len(scanned) /\ Len(scanned) \in Nat
      BY TypedSeqs DEF TypeInv
    <3> QED BY <3>1, Parts, TypedSeqs DEF OnBottomSheetDismiss, TypeInv
  <2>3. calls \in Seq(Call) /\ \A i \in DOMAIN calls : Stays(calls[i], calls[i])
    BY TypedSeqs DEF Stays, TypeInv
  <2> QED BY <2>1, <2>2, <2>3, BothMove
<1> QED BY <1>1, <1>2

LEMMA PostedMove == ASSUME TypeInv, MoveInv, NEW i \in DOMAIN calls, Posted(i) PROVE MoveInv'
BY MoveEnded DEF Posted

LEMMA DestroyedMove ==
    ASSUME TypeInv, MoveInv, NEW is, calls' = Dispatch(Destroyed(is)) PROVE MoveInv'
BY DestroyedKept, DestroyedStays, MoveDispatch

LEMMA DeleteBeginsMove ==
    ASSUME TypeInv, MoveInv, NEW d \in deleting, DeleteBegins(d) PROVE MoveInv'
<1> DEFINE same == Same(d.of, activity)
<1>1. CASE same = {}
  BY <1>1, MoveSame DEF DeleteBegins
<1>2. CASE same # {}
  <2>1. PICK s \in same : Make(calls, <<Post("delete", calls[s].of, activity, s)>>)
    BY <1>2 DEF DeleteBegins
  <2> DEFINE c == Post("delete", calls[s].of, activity, s)
  <2>2. s \in DOMAIN calls
    BY DEF Same, Listed
  <2>3. /\ calls \in Seq(Call) /\ DOMAIN calls = 1..Len(calls) /\ Len(calls) \in Nat
        /\ Len(calls) <= MaxCalls /\ activity \in Activities /\ calls[s].of \in DOMAIN scanned
    BY <2>2, TypedSeqs DEF TypeInv, TypeOK, CallsInv, CallInv
  <2>4. c \in Call /\ c.kind = "delete"
    <3>1. s \in 0..MaxCalls /\ 0 \in 0..MaxEvents /\ FALSE \in BOOLEAN
      BY <2>2, <2>3, TonConnectConstants
    <3>2. c.kind = "delete" /\ TypeOK
      BY DEF Post, TypeInv
    <3>3. c \in Call
      BY <2>3, <3>1, <3>2, NewCallTypes
    <3> QED BY <3>2, <3>3
  <2> HIDE DEF c
  <2>5. <<c>> \in Seq(Call) /\ Make(calls, <<c>>)
    BY <2>1, <2>4 DEF c
  <2>6. /\ calls' \in Seq(Call) /\ Len(calls') = Len(calls) + 1
        /\ Dispatched(c, calls'[Len(calls) + 1])
    BY <2>3, <2>4, <2>5, MakeOne
  <2>7. ASSUME NEW i \in DOMAIN calls', i > Len(calls) PROVE calls'[i].kind # "stream"
    <3>1. i = Len(calls) + 1
      BY <2>3, <2>6, <2>7, Elements
    <3> QED BY <2>4, <2>6, <3>1, DispatchedFacts
  <2>8. \A i \in DOMAIN calls : Stays(calls[i], calls[i])
    BY DEF Stays
  <2> QED BY <2>3, <2>5, <2>7, <2>8, MoveMake
<1> QED BY <1>1, <1>2

LEMMA OnEventMove == ASSUME TypeInv, MoveInv, NEW i \in DOMAIN calls, OnEvent(i) PROVE MoveInv'
<1>1. PICK c \in Call :
        /\ Kept(calls[i], c) /\ c.phase = calls[i].phase /\ (c.listed <=> calls[i].listed)
        /\ calls' = [calls EXCEPT ![i] = c]
  BY OnEventFacts
<1> QED BY <1>1, MoveChanged

LEMMA OnEventEndsMove ==
    ASSUME TypeInv, MoveInv, NEW i \in DOMAIN calls, OnEventEnds(i) PROVE MoveInv'
<1>1. PICK c \in Call :
        /\ Kept(calls[i], c) /\ (c.listed <=> calls[i].listed)
        /\ \/ calls' = [calls EXCEPT ![i] = c] /\ c.phase = calls[i].phase
           \/ calls' = Dispatch([calls EXCEPT ![i] = c]) /\ c.phase = "done"
  BY EventEndsFacts
<1>2. CASE calls' = [calls EXCEPT ![i] = c] /\ c.phase = calls[i].phase
  BY <1>1, <1>2, MoveChanged
<1>3. CASE calls' = Dispatch([calls EXCEPT ![i] = c]) /\ c.phase = "done"
  <2> DEFINE cs == [calls EXCEPT ![i] = c]
  <2>1. calls \in Seq(Call)
    BY TypedSeqs DEF TypeInv
  <2>2. /\ cs \in Seq(Call) /\ Len(cs) = Len(calls) /\ cs[i] = c
        /\ \A j \in DOMAIN calls : j # i => cs[j] = calls[j]
    BY <2>1, ChangedFacts
  <2>3. calls' = Dispatch(cs)
    BY <1>3
  <2> HIDE DEF cs
  <2>4. \A j \in DOMAIN calls : Stays(calls[j], cs[j])
    BY <1>1, <1>3, <2>2 DEF Stays, Kept
  <2> QED BY <2>2, <2>3, <2>4, MoveDispatch
<1> QED BY <1>1, <1>2, <1>3

LEMMA MoveInit == Init => MoveInv
<1> SUFFICES ASSUME Init PROVE MoveInv
  OBVIOUS
<1>1. DOMAIN calls = {}
  BY EmptySeq DEF Init
<1> QED BY <1>1 DEF MoveInv, WaitingIn, OwnedIn

LEMMA MoveStep == TypeInv /\ TypeInv' /\ MoveInv /\ [Next]_vars => MoveInv'
<1> SUFFICES ASSUME TypeInv, TypeInv', MoveInv, [Next]_vars PROVE MoveInv'
  OBVIOUS
<1>1. CASE UNCHANGED vars
  BY <1>1, MoveSame DEF vars, process
<1>2. ASSUME NEW x \in edits, Write(x) PROVE MoveInv'
  BY <1>2, MoveSame DEF Write, process
<1>3. CASE InitLoad
  BY <1>3, MoveSame DEF InitLoad
<1>4. ASSUME NEW x \in loading, InitRead(x) \/ InitOpen(x) PROVE MoveInv'
  BY <1>4, MoveSame, InitOpenMove DEF InitRead
<1>5. ASSUME NEW l \in Links, ProcessString(l) PROVE MoveInv'
  BY <1>5, MoveSame DEF ProcessString
<1>6. CASE ApproveConnectionRequest
  BY <1>6, MoveSame DEF ApproveConnectionRequest
<1>7. ASSUME NEW k \in approving, Approve(k) PROVE MoveInv'
  BY <1>7, ApproveMove
<1>8. CASE OnBottomSheetDismiss
  BY <1>8, DismissMove
<1>9. ASSUME NEW k \in manifests, DeleteAppWithManifest(k) PROVE MoveInv'
  BY <1>9, MoveSame DEF DeleteAppWithManifest
<1>10. ASSUME NEW d \in deleting, DeleteBegins(d) \/ DeleteEnds(d) PROVE MoveInv'
  BY <1>10, DeleteBeginsMove, DestroyedMove DEF DeleteEnds
<1>11. ASSUME NEW k \in known, NEW ok \in BOOLEAN, Send(k, ok) PROVE MoveInv'
  BY <1>11, MoveSame DEF Send, process
<1>12. ASSUME NEW i \in DOMAIN calls, Posted(i) \/ Rejected(i) PROVE MoveInv'
  BY <1>12, PostedMove, DestroyedMove DEF Rejected
<1>13. ASSUME NEW i \in DOMAIN calls, OnEvent(i) \/ OnEventEnds(i) \/ OnFailure(i)
       PROVE  MoveInv'
  BY <1>13, OnEventMove, OnEventEndsMove, MoveEnded DEF OnFailure
<1>14. ASSUME NEW kept \in BOOLEAN, NewActivity(kept) PROVE MoveInv'
  BY <1>14, MoveSame DEF NewActivity
<1>15. CASE Die
  <2>1. calls' = <<>> /\ DOMAIN calls' = {}
    BY <1>15, EmptySeq DEF Die
  <2> QED BY <2>1 DEF MoveInv, WaitingIn, OwnedIn
<1> QED
  BY <1>1, <1>2, <1>3, <1>4, <1>5, <1>6, <1>7, <1>8, <1>9, <1>10, <1>11, <1>12, <1>13,
     <1>14, <1>15 DEF Next

\* Numbers have a least one.
LEMMA Least ==
    ASSUME NEW T \in SUBSET Nat, T # {}
    PROVE  \E n \in T : \A m \in T : n <= m
<1>1. PICK n \in T : \A m \in T : ~(<<m, n>> \in OpToRel(<, Nat))
  BY WFMin, NatLessThanWellFounded
<1>2. ASSUME NEW m \in T PROVE ~(m < n)
  BY <1>1 DEF OpToRel
<1>3. \A m \in T : n <= m
  BY <1>2
<1> QED BY <1>3

\* Before the first call queued of an activity are only calls that run: they take
\* all the places.
LEMMA PlacesTaken ==
    ASSUME TypeInv, MoveInv, NEW i \in DOMAIN calls, calls[i].phase = "queued"
    PROVE  Cardinality({j \in DOMAIN calls : /\ calls[j].activity = calls[i].activity
                                             /\ calls[j].phase = "running"}) >= MaxPerHost
<1> DEFINE a == calls[i].activity
           queue == {j \in DOMAIN calls : calls[j].activity = a /\ calls[j].phase = "queued"}
           running == {j \in DOMAIN calls : calls[j].activity = a /\ calls[j].phase = "running"}
<1>1. DOMAIN calls = 1..Len(calls) /\ Len(calls) \in Nat
  BY TypedSeqs DEF TypeInv
<1>2. queue \in SUBSET Nat /\ queue # {}
  BY <1>1
<1>3. PICK n \in queue : \A m \in queue : n <= m
  <2> HIDE DEF queue
  <2> QED BY <1>2, Least
<1>4. Ahead(calls, n) = running
  BY <1>1, <1>3 DEF Ahead
<1>5. Cardinality(Ahead(calls, n)) >= MaxPerHost
  BY <1>3 DEF MoveInv, WaitingIn
<1> QED BY <1>4, <1>5

\* When nothing moves, what runs is an open stream.
LEMMA OnlyOpenRun ==
    ASSUME TypeInv, MoveInv, NEW a, ~Moving(a), NEW i \in DOMAIN calls,
           calls[i].activity = a, calls[i].phase = "running"
    PROVE  i \in Open(a)
<1>1. calls[i].kind = "stream"
  BY DEF Moving
<1>2. OwnerOf(calls, i)
  BY <1>1 DEF MoveInv, OwnedIn
<1>3. CASE calls[i].listed
  BY <1>1, <1>3 DEF Open
<1>4. ASSUME NEW j \in DOMAIN calls, calls[j].kind = "reject", calls[j].stream = i
      PROVE  i \in Open(a)
  <2>1. calls[j].activity = a
    BY <1>4 DEF TypeInv, CallsInv, CallInv
  <2>2. calls[j].phase # "done"
    BY <1>4, <2>1 DEF Moving
  <2> QED BY <1>1, <1>4, <2>2 DEF Open
<1> QED BY <1>2, <1>3, <1>4 DEF OwnerOf

\* A post waits with nothing moving only when connected dApps and requests being
\* declined take all the places: no stream of a destroyed connection keeps one,
\* whatever the order of rotations, declines, disconnections and failures.
THEOREM PostsMoveHolds == Spec => [](PostsMove /\ MoveInv)
<1>1. Init => TypeInv /\ MoveInv
  BY TypeInit, MoveInit
<1>2. TypeInv /\ MoveInv /\ [Next]_vars => (TypeInv /\ MoveInv)'
  BY TypeStep, MoveStep
<1>3. TypeInv /\ MoveInv => PostsMove /\ MoveInv
  <2> SUFFICES ASSUME TypeInv, MoveInv, NEW i \in DOMAIN calls, calls[i].phase = "queued",
                      ~Moving(calls[i].activity)
               PROVE  Cardinality(Open(calls[i].activity)) >= MaxPerHost
    BY DEF PostsMove
  <2> DEFINE running == {j \in DOMAIN calls : /\ calls[j].activity = calls[i].activity
                                              /\ calls[j].phase = "running"}
             open == Open(calls[i].activity)
  <2>1. Cardinality(running) >= MaxPerHost
    BY PlacesTaken
  <2>2. running \subseteq open
    BY OnlyOpenRun
  <2>3. DOMAIN calls = 1..Len(calls) /\ Len(calls) \in Nat
    BY TypedSeqs DEF TypeInv
  <2>4. IsFiniteSet(open)
    <3>1. IsFiniteSet(1..Len(calls)) /\ open \in SUBSET (1..Len(calls))
      BY <2>3, FS_Interval DEF Open
    <3> QED BY <3>1, FS_Subset
  <2> HIDE DEF running, open
  <2>5. IsFiniteSet(running) /\ Cardinality(running) <= Cardinality(open)
    BY <2>2, <2>4, FS_Subset
  <2>6. Cardinality(running) \in Nat /\ Cardinality(open) \in Nat
    BY <2>4, <2>5, FS_CardinalityType
  <2>7. Cardinality(open) >= MaxPerHost
    BY <2>1, <2>5, <2>6, TonConnectConstants
  <2> QED BY <2>7 DEF open
<1> QED BY <1>1, <1>2, <1>3, PTL DEF Spec
=============================================================================
