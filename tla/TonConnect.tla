----------------------------- MODULE TonConnect -----------------------------
(***************************************************************************)
(* The connections to dApps: TonConnectManager, TonConnectConnection, the  *)
(* view model of the connection sheet, and what Storage keeps of them.  A  *)
(* connection listens to the bridge on a stream and posts messages to it;  *)
(* both are calls of one OkHttp client, whose dispatcher runs a limited    *)
(* number of calls to one host.                                            *)
(*                                                                         *)
(* A scanned link makes new connection data, named by its number.  Each    *)
(* activity has a manager and a client of its own, named by its number;    *)
(* the view model may outlive the activity and keeps its first manager.    *)
(* Events are numbered by the bridge, for all connections together.        *)
(***************************************************************************)
EXTENDS Integers, Sequences, FiniteSets

CONSTANTS
    Links,          \* the client ids that dApps put in their links
    Apps,           \* manifests
    AppOf,          \* AppOf[l]: the manifest of link l
    MaxPerHost,     \* calls to one host a dispatcher runs, 5 in OkHttp
    Haste,          \* whether the user goes on before an earlier action is done
    MaxScans, MaxEvents, MaxCalls, MaxActivities   \* bounds

ASSUME TonConnectConstants ==
    /\ AppOf \in [Links -> Apps]
    /\ MaxPerHost \in Nat \ {0}
    /\ Haste \in BOOLEAN
    /\ MaxScans \in Nat /\ MaxEvents \in Nat /\ MaxCalls \in Nat
    /\ MaxActivities \in Nat \ {0}

VARIABLES
    \* The DataStore
    manifests,      \* the connections stored
    lastEventId,    \* lastEventId[l]: the event id stored for client id l, 0 for none
    edits,          \* edits launched and not written yet
    \* The process
    activity,       \* the activity there is
    manager,        \* the activity whose manager the view model uses
    calls,          \* the calls of this process's clients, in the order they were made
    loaded,         \* whether initTonConnectConnections has read the manifests
    loading,        \* the connections it has still to open
    deleting,       \* the coroutines of deleteAppWithManifest
    sheet,          \* the connection request shown, 0 for none
    approving,      \* connections whose approval was started but not made
    success,        \* whether buttonState is Success
    \* The dApps and the bridge
    scanned,        \* scanned[k]: the link of connection k
    known,          \* the connections a dApp was told of
    log,            \* the events: for which connection, and whether it can be decoded
    \* History
    late,           \* apps for which an edit of an earlier activity was still to be
                    \* written when the manifests were read
    handled,        \* events whose onEvent came to its end
    interrupted     \* events the process died over

store == <<manifests, lastEventId, edits>>
start == <<loaded, loading, late>>
request == <<sheet, approving, success>>
process == <<activity, manager, calls, start, deleting, request>>
bridge == <<scanned, known, log>>
history == <<handled, interrupted>>
vars == <<store, process, bridge, history>>

Connections == 1..MaxScans
Activities == 1..MaxActivities

Call == [
    kind     : {"stream", "approve", "reject", "delete"},
    of       : Connections,
    activity : Activities,           \* whose manager and client it belongs to
    phase    : {"queued", "running", "done"},
    listed   : BOOLEAN,              \* of a stream: whether it is in connections
    last     : 0..MaxEvents,         \* of a stream: the last event it was sent
    event    : 0..MaxEvents,         \* of a stream: the event being handled, or 0
    stream   : 0..MaxCalls]          \* of a post: the stream of its connection

Edit == [kind : {"event", "save", "delete"}, of : Connections,
         event : 0..MaxEvents, activity : Activities]

TypeOK ==
    /\ manifests \subseteq DOMAIN scanned
    /\ lastEventId \in [Links -> 0..Len(log)]
    /\ edits \subseteq Edit
    /\ activity \in Activities
    /\ manager \in 1..activity
    /\ calls \in Seq(Call) /\ Len(calls) <= MaxCalls
    /\ loaded \in BOOLEAN
    /\ loading \subseteq [of : Connections, read : BOOLEAN, last : 0..MaxEvents]
    /\ late \subseteq Apps
    /\ deleting \subseteq [of : Connections, post : 0..MaxCalls]
    /\ sheet \in 0..Len(scanned)
    /\ approving \subseteq DOMAIN scanned
    /\ success \in BOOLEAN
    /\ scanned \in Seq(Links) /\ Len(scanned) <= MaxScans
    /\ known \subseteq DOMAIN scanned
    /\ log \in Seq([of : Connections, ok : BOOLEAN]) /\ Len(log) <= MaxEvents
    /\ handled \subseteq DOMAIN log
    /\ interrupted \subseteq DOMAIN log

Init ==
    /\ manifests = {}
    /\ lastEventId = [l \in Links |-> 0]
    /\ edits = {}
    /\ activity = 1
    /\ manager = 1
    /\ calls = <<>>
    /\ loaded = FALSE
    /\ loading = {}
    /\ late = {}
    /\ deleting = {}
    /\ sheet = 0
    /\ approving = {}
    /\ success = FALSE
    /\ scanned = <<>>
    /\ known = {}
    /\ log = <<>>
    /\ handled = {}
    /\ interrupted = {}

-----------------------------------------------------------------------------
(* Calls of the OkHttp clients                                             *)

App(k) == AppOf[scanned[k]]

\* What holds a place of the dispatcher, or comes before call i in its queue.
Ahead(cs, i) ==
    {j \in DOMAIN cs : /\ cs[j].activity = cs[i].activity
                       /\ \/ cs[j].phase = "running"
                          \/ cs[j].phase = "queued" /\ j < i}

\* The dispatcher starts what it has a place for, in the order of the calls.
Dispatch(cs) ==
    [i \in DOMAIN cs |->
        IF cs[i].phase = "queued" /\ Cardinality(Ahead(cs, i)) < MaxPerHost
        THEN [cs[i] EXCEPT !.phase = "running"] ELSE cs[i]]

Make(cs, new) ==
    /\ Len(cs) + Len(new) <= MaxCalls
    /\ calls' = Dispatch(cs \o new)

Stream(k, a, last, listed) ==
    [kind |-> "stream", of |-> k, activity |-> a, phase |-> "queued",
     listed |-> listed, last |-> last, event |-> 0, stream |-> 0]

Post(kind, k, a, stream) ==
    [kind |-> kind, of |-> k, activity |-> a, phase |-> "queued",
     listed |-> FALSE, last |-> 0, event |-> 0, stream |-> stream]

\* The connections of the manager of activity a.
Listed(a) == {i \in DOMAIN calls : calls[i].listed /\ calls[i].activity = a}

Same(k, a) == {i \in Listed(a) : App(calls[i].of) = App(k)}

\* Faulty variant: removed from the list only.
Removed(is) ==
    [i \in DOMAIN calls |->
        IF i \in is THEN [calls[i] EXCEPT !.listed = FALSE] ELSE calls[i]]

\* destroy, and removal from the list
Destroyed(is) ==
    [i \in DOMAIN calls |->
        IF i \in is THEN [calls[i] EXCEPT !.phase = "done", !.listed = FALSE] ELSE calls[i]]

-----------------------------------------------------------------------------
(* The store                                                               *)

\* A coroutine of the activity's scope is launched; one of a destroyed activity
\* never runs.
Launched(kind, k, event, a) ==
    IF a = activity THEN {[kind |-> kind, of |-> k, event |-> event, activity |-> a]} ELSE {}

\* Faulty variant: one key for all client ids.
SaveLastEventIdForAll(x) ==
    /\ x.kind = "event"
    /\ lastEventId' = [l \in Links |-> x.event]
    /\ UNCHANGED manifests

SaveLastEventId(x) ==
    /\ x.kind = "event"
    /\ lastEventId' = [lastEventId EXCEPT ![scanned[x.of]] = x.event]
    /\ UNCHANGED manifests

\* Faulty variant: the older connection to the same dApp is kept.
SaveManifestBeside(x) ==
    /\ x.kind = "save"
    /\ manifests' = manifests \cup {x.of}
    /\ UNCHANGED lastEventId

SaveManifest(x) ==
    /\ x.kind = "save"
    /\ manifests' = {m \in manifests : App(m) # App(x.of)} \cup {x.of}
    /\ UNCHANGED lastEventId

DeleteConnection(x) ==
    /\ x.kind = "delete"
    /\ manifests' = {m \in manifests : scanned[m] # scanned[x.of]}
    /\ lastEventId' = [lastEventId EXCEPT ![scanned[x.of]] = 0]

\* The DataStore writes one edit at a time: what an earlier activity left with it
\* comes before anything this one has launched.
Write(x) ==
    /\ \A y \in edits : y.activity # activity => y = x
    /\ SaveLastEventId(x) \/ SaveManifest(x) \/ DeleteConnection(x)
    /\ edits' = edits \ {x}
    /\ UNCHANGED <<process, bridge, history>>

-----------------------------------------------------------------------------
(* Start                                                                   *)

\* The stored manifests are read, as they are: an edit that an earlier activity left
\* with the DataStore may still be written after that.
InitLoad ==
    /\ ~loaded
    /\ loaded' = TRUE
    /\ late' = {App(x.of) : x \in {y \in edits : y.kind # "event" /\ y.activity # activity}}
    /\ loading' = {[of |-> m, read |-> FALSE, last |-> 0] :
                     m \in {n \in manifests : \A i \in Listed(activity) :
                                scanned[calls[i].of] # scanned[n]}}
    /\ UNCHANGED <<store, activity, manager, calls, deleting, request, bridge, history>>

\* Faulty variant: the last event is asked for once more.
InitReadBefore(x) ==
    /\ ~x.read
    /\ loading' = (loading \ {x}) \cup
            {[x EXCEPT !.read = TRUE, !.last = lastEventId[scanned[x.of]] - 1]}
    /\ UNCHANGED <<store, activity, manager, calls, loaded, late, deleting, request, bridge, history>>

\* The last event id of one of them is read.
InitRead(x) ==
    /\ ~x.read
    /\ loading' = (loading \ {x}) \cup
            {[x EXCEPT !.read = TRUE, !.last = lastEventId[scanned[x.of]]]}
    /\ UNCHANGED <<store, activity, manager, calls, loaded, late, deleting, request, bridge, history>>

\* When all are read, the connections are opened.
InitOpen(x) ==
    /\ \A y \in loading : y.read
    /\ loading' = loading \ {x}
    /\ Make(Destroyed(Same(x.of, activity)), <<Stream(x.of, activity, x.last, TRUE)>>)
    /\ UNCHANGED <<store, activity, manager, loaded, late, deleting, request, bridge, history>>

-----------------------------------------------------------------------------
(* The connection sheet                                                    *)

Started == loaded /\ loading = {}

\* Nothing of the app is under way that changes what is connected.
Quiet(app) ==
    /\ Started
    /\ \A d \in deleting : App(d.of) # app
    /\ \A x \in edits : x.kind = "event" \/ App(x.of) # app
    /\ \A k \in approving : App(k) # app

\* processString: a link is scanned, and a new key made for it.
ProcessString(l) ==
    /\ sheet = 0
    /\ Len(scanned) < MaxScans
    /\ scanned' = Append(scanned, l)
    /\ sheet' = Len(scanned')
    /\ success' = FALSE
    /\ UNCHANGED <<store, activity, manager, calls, start, deleting, approving,
                   known, log, history>>

\* approveConnectionRequest starts; it asks tonlib for keys and addresses first.
ApproveConnectionRequest ==
    /\ sheet # 0 /\ sheet \notin approving
    /\ Haste \/ /\ Quiet(App(sheet))
                /\ \A i \in DOMAIN calls : calls[i].kind = "approve" => calls[i].of # sheet
    /\ approving' = approving \cup {sheet}
    /\ success' = FALSE
    /\ UNCHANGED <<store, activity, manager, calls, start, deleting, sheet, bridge, history>>

\* approveTonConnectionRequest: the connection is opened and listed in place of
\* the one to the same dApp, its save launched, and the dApp told.
Approve(k) ==
    /\ approving' = approving \ {k}
    /\ Make(Destroyed(Same(k, manager)),
            <<Stream(k, manager, 0, TRUE), Post("approve", k, manager, Len(calls) + 1)>>)
    /\ edits' = edits \cup Launched("save", k, 0, manager)
    /\ UNCHANGED <<manifests, lastEventId, activity, manager, start, deleting, sheet, success,
                   bridge, history>>

\* The sheet is dismissed.  Unless the button shows success, the request is
\* declined, over a connection opened for that.
OnBottomSheetDismiss ==
    /\ sheet # 0
    /\ sheet' = 0
    /\ IF success THEN UNCHANGED calls
       ELSE Make(calls, <<Stream(sheet, manager, 0, FALSE),
                          Post("reject", sheet, manager, Len(calls) + 1)>>)
    /\ UNCHANGED <<store, activity, manager, start, deleting, approving, success,
                   bridge, history>>

\* The dApp takes the first connection that is made with its link.
Told(k) == IF \E m \in known : scanned[m] = scanned[k] THEN known ELSE known \cup {k}

\* The bridge answers a post, or it fails.  A message may get to the dApp although
\* the answer does not get back.
Posted(i) ==
    /\ calls[i].kind # "stream" /\ calls[i].phase = "running"
    /\ calls' = Dispatch([calls EXCEPT ![i].phase = "done"])
    /\ \E arrived, answered \in BOOLEAN :
         /\ answered => arrived
         /\ known' = IF calls[i].kind = "approve" /\ arrived
                     THEN Told(calls[i].of) ELSE known
         /\ success' = IF calls[i].kind = "approve" /\ calls[i].activity = manager
                       THEN answered ELSE success
    /\ UNCHANGED <<store, activity, manager, start, deleting, sheet, approving,
                   scanned, log, history>>

\* rejectConnectionRequest goes on after its post: the connection is destroyed.
Rejected(i) ==
    /\ calls[i].kind = "reject" /\ calls[i].phase = "done"
    /\ calls[i].activity = manager
    /\ calls[calls[i].stream].phase # "done"
    /\ calls' = Dispatch(Destroyed({calls[i].stream}))
    /\ UNCHANGED <<store, activity, manager, start, deleting, request, bridge, history>>

-----------------------------------------------------------------------------
(* The dApps screen                                                        *)

\* Disconnect is tapped on a stored connection.
DeleteAppWithManifest(k) ==
    /\ k \in manifests
    /\ Haste \/ Quiet(App(k))
    /\ deleting' = deleting \cup {[of |-> k, post |-> 0]}
    /\ UNCHANGED <<store, activity, manager, calls, start, request, bridge, history>>

\* The coroutine runs: the dApp is told, if it is connected.
DeleteBegins(d) ==
    LET same == Same(d.of, activity)
    IN /\ d.post = 0
       /\ IF same = {}
          THEN /\ deleting' = deleting \ {d}
               /\ edits' = edits \cup Launched("delete", d.of, 0, activity)
               /\ UNCHANGED calls
          ELSE /\ \E s \in same :
                    /\ \A i \in same : s <= i
                    /\ Make(calls, <<Post("delete", calls[s].of, activity, s)>>)
               /\ deleting' = (deleting \ {d}) \cup {[d EXCEPT !.post = Len(calls')]}
               /\ UNCHANGED edits
    /\ UNCHANGED <<manifests, lastEventId, activity, manager, start, request, bridge, history>>

\* It goes on after its post, whatever became of that.
DeleteEnds(d) ==
    /\ d.post # 0 /\ calls[d.post].phase = "done"
    /\ calls' = Dispatch(Destroyed({calls[d.post].stream}))
    /\ deleting' = deleting \ {d}
    /\ edits' = edits \cup Launched("delete", d.of, 0, activity)
    /\ UNCHANGED <<manifests, lastEventId, activity, manager, start, request, bridge, history>>

-----------------------------------------------------------------------------
(* Events                                                                  *)

\* A dApp sends an event.
Send(k, ok) ==
    /\ Len(log) < MaxEvents
    /\ log' = Append(log, [of |-> k, ok |-> ok])
    /\ UNCHANGED <<store, process, scanned, known, history>>

\* The events the bridge holds for stream i, which it gets in their order.
Pending(i) == {e \in DOMAIN log : log[e].of = calls[i].of /\ e > calls[i].last}

\* onEvent begins: the save of the id is launched.
OnEvent(i) ==
    /\ calls[i].kind = "stream" /\ calls[i].phase = "running" /\ calls[i].event = 0
    /\ \E e \in Pending(i) :
         /\ \A f \in Pending(i) : e <= f
         /\ calls' = [calls EXCEPT ![i].last = e, ![i].event = e]
         /\ edits' = edits \cup Launched("event", calls[i].of, e, calls[i].activity)
    /\ UNCHANGED <<manifests, lastEventId, activity, manager, start, deleting, request,
                   bridge, history>>

\* onEvent ends: a payment is emitted; anything else is an exception, which ends
\* the stream.
OnEventEnds(i) ==
    LET e == calls[i].event
        c == [calls EXCEPT ![i].event = 0]
    IN /\ e # 0
       /\ handled' = handled \cup {e}
       /\ calls' = IF log[e].ok THEN c ELSE Dispatch([c EXCEPT ![i].phase = "done"])
    /\ UNCHANGED <<store, activity, manager, start, deleting, request, bridge, interrupted>>

\* onClosed or onFailure: the stream is not opened again.
OnFailure(i) ==
    /\ calls[i].kind = "stream" /\ calls[i].phase = "running" /\ calls[i].event = 0
    /\ calls' = Dispatch([calls EXCEPT ![i].phase = "done"])
    /\ UNCHANGED <<store, activity, manager, start, deleting, request, bridge, history>>

-----------------------------------------------------------------------------
(* Activities and processes                                                *)

\* A new activity in the same process: after a rotation with the view model kept,
\* after the last one was finished with a new one.  The scope of the old activity
\* is cancelled, and with it every edit but the one the DataStore may have begun to
\* write.  Its streams stay open.
NewActivity(kept) ==
    /\ activity < MaxActivities
    /\ activity' = activity + 1
    /\ manager' = IF kept THEN manager ELSE activity'
    /\ edits' = {} \/ \E x \in edits : edits' = {x}
    /\ loaded' = FALSE /\ loading' = {} /\ late' = {}
    /\ deleting' = {}
    /\ IF kept THEN UNCHANGED request
       ELSE sheet' = 0 /\ approving' = {} /\ success' = FALSE
    /\ UNCHANGED <<manifests, lastEventId, calls, bridge, history>>

\* The process dies and is started again.
Die ==
    /\ activity < MaxActivities
    /\ activity' = activity + 1
    /\ manager' = activity'
    /\ edits' = {}
    /\ interrupted' = interrupted \cup ({calls[i].event : i \in DOMAIN calls} \ {0})
    /\ calls' = <<>>
    /\ loaded' = FALSE /\ loading' = {} /\ late' = {}
    /\ deleting' = {}
    /\ sheet' = 0 /\ approving' = {} /\ success' = FALSE
    /\ UNCHANGED <<manifests, lastEventId, bridge, handled>>

Next ==
    \/ \E x \in edits : Write(x)
    \/ InitLoad
    \/ \E x \in loading : InitRead(x) \/ InitOpen(x)
    \/ \E l \in Links : ProcessString(l)
    \/ ApproveConnectionRequest
    \/ \E k \in approving : Approve(k)
    \/ OnBottomSheetDismiss
    \/ \E k \in manifests : DeleteAppWithManifest(k)
    \/ \E d \in deleting : DeleteBegins(d) \/ DeleteEnds(d)
    \/ \E k \in known, ok \in BOOLEAN : Send(k, ok)
    \/ \E i \in DOMAIN calls :
         \/ Posted(i) \/ Rejected(i)
         \/ OnEvent(i) \/ OnEventEnds(i) \/ OnFailure(i)
    \/ \E kept \in BOOLEAN : NewActivity(kept)
    \/ Die

Spec == Init /\ [][Next]_vars

-----------------------------------------------------------------------------
(* Properties                                                              *)

\* The id stored for a client never passes an event of a stored connection whose
\* handling did not come to its end, is not going on, and was not cut off by the
\* death of the process: the bridge would not deliver it again.
AckedWasHandled ==
    \A k \in manifests : \A e \in DOMAIN log :
        log[e].of = k /\ e <= lastEventId[scanned[k]] =>
            \/ e \in handled \cup interrupted
            \/ \E i \in DOMAIN calls : calls[i].event = e

\* Once nothing is under way, the manager of the current activity has exactly the
\* connections that are stored, one for each dApp: Disconnect on the dApps screen
\* has a connection to tell each dApp over, and the manager keeps none that the
\* screen does not show.  Left out are the dApps for which an edit of an earlier
\* activity came in after the manifests were read (initTonConnectConnections).
Settled ==
    /\ Started /\ deleting = {}
    /\ \A x \in edits : x.kind = "event"

SettledMatches ==
    Settled =>
        /\ \A app \in Apps \ late :
             {k \in {calls[i].of : i \in Listed(activity)} : App(k) = app}
                 = {m \in manifests : App(m) = app}
        /\ \A i, j \in Listed(activity) : App(calls[i].of) = App(calls[j].of) => i = j

\* A post that someone waits for stays in the queue with nothing moving only when
\* connected dApps and requests being declined take all the places: no stream of a
\* destroyed connection keeps one.
Moving(a) ==
    \E j \in DOMAIN calls :
        /\ calls[j].activity = a
        /\ calls[j].kind # "stream"
        /\ \/ calls[j].phase = "running"
           \/ /\ calls[j].kind = "reject" /\ calls[j].phase = "done"
              /\ calls[calls[j].stream].phase # "done"

Open(a) ==
    {i \in DOMAIN calls :
        /\ calls[i].kind = "stream" /\ calls[i].activity = a /\ calls[i].phase = "running"
        /\ \/ calls[i].listed
           \/ \E j \in DOMAIN calls : /\ calls[j].kind = "reject" /\ calls[j].stream = i
                                      /\ calls[j].phase # "done"}

PostsMove ==
    \A i \in DOMAIN calls :
        LET a == calls[i].activity
        IN calls[i].kind # "stream" /\ calls[i].phase = "queued" /\ a \in {activity, manager} =>
            Moving(a) \/ Cardinality(Open(a)) >= MaxPerHost
=============================================================================
